-------------------------------- MODULE Dlq --------------------------------
(* The dead-letter queue of src/src/output/dlq.rs: any number of callers of *)
(* spool share one counter of bytes, one circuit breaker and one sequence   *)
(* number, all of them atomics, and no lock.  Each access to one of them,   *)
(* and each half of the write to the disk, is a step of its own.            *)
(*                                                                          *)
(* The process may stop at any step; new then measures what it left behind. *)
(* Three history variables, start_bytes, uncounted and run, say what the    *)
(* counter was when the process started, which bytes on the disk it misses, *)
(* and which process wrote a file; no action reads them.                    *)
EXTENDS Integers, FiniteSets, Functions

CONSTANTS
    Caller,      \* the tasks that may call spool
    MaxBytes,    \* DlqConfig::max_bytes
    Percent,     \* DlqConfig::circuit_breaker_threshold, in percent
    MaxPayload,  \* the largest payload
    Payloads,    \* the sizes of the payloads, in bytes
    MaxSpools,   \* bound of the model: calls that spool in one process
    MaxRuns,     \* bound of the model: processes
    MaxSecond    \* bound of the model: the clock's last second

ASSUME DlqAssumption ==
    /\ IsFiniteSet(Caller)
    /\ {MaxBytes, Percent, MaxPayload, MaxSpools, MaxRuns, MaxSecond} \subseteq Nat
    /\ Payloads \subseteq 1 .. MaxPayload

VARIABLES
    pc,             \* where each caller is in spool
    payload,        \* payload.len()
    current,        \* the caller's copy of current_bytes
    file,           \* the name of its file: the second and the sequence number
    current_bytes,
    total_spooled,
    circuit_open,
    sequence,
    files,          \* the directory: the bytes, the writer and the fate of a file
    disk_bytes,     \* what calculate_dir_size finds in it
    second,         \* chrono::Utc::now(), as far as the name shows it
    start_bytes, uncounted, run

callers == <<pc, payload, current, file>>
atomics == <<current_bytes, total_spooled, circuit_open, sequence>>
disk == <<files, disk_bytes>>
history == <<start_bytes, uncounted, run>>
vars == <<callers, atomics, disk, second, history>>

Larger(a, b) == IF a >= b THEN a ELSE b

Threshold == (MaxBytes * Percent) \div 100

Idle == [c \in Caller |-> "idle"]

NoBytes == [c \in Caller |-> 0]
NoFile == [c \in Caller |-> <<0, 0>>]

Init ==
    /\ pc = Idle
    /\ payload = NoBytes
    /\ current = NoBytes
    /\ file = NoFile
    /\ current_bytes = 0
    /\ total_spooled = 0
    /\ circuit_open = FALSE
    /\ sequence = 0
    /\ files = << >>
    /\ disk_bytes = 0
    /\ second = 0
    /\ start_bytes = 0
    /\ uncounted = 0
    /\ run = 1

-----------------------------------------------------------------------------
(* spool *)

Goto(c, from, to) == pc[c] = from /\ pc' = [pc EXCEPT ![c] = to]

\* spool returns, and its local variables are gone.
Return(c, from) ==
    /\ Goto(c, from, "idle")
    /\ payload' = [payload EXCEPT ![c] = 0]
    /\ current' = [current EXCEPT ![c] = 0]
    /\ file' = [file EXCEPT ![c] = <<0, 0>>]

Load(c) ==
    /\ Goto(c, "idle", "loaded")
    /\ sequence < MaxSpools
    /\ \E n \in Payloads : payload' = [payload EXCEPT ![c] = n]
    /\ current' = [current EXCEPT ![c] = current_bytes]
    /\ UNCHANGED <<file, atomics, disk, second, history>>

\* Mutant of IsFull: the limit is the whole of max_bytes.
IsFullOfMax(c) == current[c] >= MaxBytes

IsFull(c) == current[c] >= Threshold

\* The event is dropped, and the caller is told that all is well.
Refuse(c) ==
    /\ Return(c, "loaded")
    /\ IsFull(c)
    /\ circuit_open' = TRUE
    /\ UNCHANGED <<current_bytes, total_spooled, sequence, disk, second, history>>

\* The breaker is reset on the strength of the copy, however old it is.
Admit(c) ==
    /\ Goto(c, "loaded", "admitted")
    /\ ~IsFull(c)
    /\ circuit_open' = (circuit_open /\ current[c] >= Threshold \div 2)
    /\ UNCHANGED <<payload, current, file, current_bytes, total_spooled,
                   sequence, disk, second, history>>

\* Mutant of NextSequence: callers read the number and do not advance it.
NextSequenceForgotten == sequence

NextSequence == sequence + 1

\* The second is not known yet.
TakeNumber(c) ==
    /\ Goto(c, "admitted", "numbered")
    /\ sequence' = NextSequence
    /\ file' = [file EXCEPT ![c] = <<0, sequence>>]
    /\ UNCHANGED <<payload, current, current_bytes, total_spooled, circuit_open,
                   disk, second, history>>

\* The clock is read after the number is taken: a later number may carry an
\* earlier second.
TakeName(c) ==
    /\ Goto(c, "numbered", "named")
    /\ file' = [file EXCEPT ![c] = <<second, file[c][2]>>]
    /\ UNCHANGED <<payload, current, atomics, disk, second, history>>

SizeOf(name) == IF name \in DOMAIN files THEN files[name].bytes ELSE 0

\* Mutant of Put: the file is opened for appending, not truncated.
PutAppending(name, bytes, whole) ==
    /\ files' = [n \in DOMAIN files \cup {name} |->
                   IF n = name THEN [bytes |-> SizeOf(name) + bytes, by |-> run, whole |-> whole]
                               ELSE files[n]]
    /\ disk_bytes' = disk_bytes + bytes

Put(name, bytes, whole) ==
    /\ files' = [n \in DOMAIN files \cup {name} |->
                   IF n = name THEN [bytes |-> bytes, by |-> run, whole |-> whole]
                               ELSE files[n]]
    /\ disk_bytes' = disk_bytes - SizeOf(name) + bytes

\* fs::write creates the file or truncates it; all but the last byte is the
\* most that is on the disk when the write fails or the process stops.
BeginWrite(c) ==
    /\ Goto(c, "named", "writing")
    /\ Put(file[c], payload[c] - 1, FALSE)
    /\ UNCHANGED <<payload, current, file, atomics, second, history>>

EndWrite(c) ==
    /\ Goto(c, "writing", "written")
    /\ Put(file[c], payload[c], TRUE)
    /\ UNCHANGED <<payload, current, file, atomics, second, history>>

\* spool returns the error; what was written stays.
WriteFails(c) ==
    /\ Return(c, "writing")
    /\ uncounted' = uncounted + SizeOf(file[c])
    /\ UNCHANGED <<atomics, disk, second, start_bytes, run>>

\* File::create itself fails: nothing is written.
CreateFails(c) ==
    /\ Return(c, "named")
    /\ UNCHANGED <<atomics, disk, second, history>>

\* Mutant of Counted: the caller stores its own sum: another's is overwritten.
CountedFromCopy(c) == current[c] + payload[c]

Counted(c) == current_bytes + payload[c]

Count(c) ==
    /\ Goto(c, "written", "counted")
    /\ current_bytes' = Counted(c)
    /\ UNCHANGED <<payload, current, file, total_spooled, circuit_open, sequence,
                   disk, second, history>>

\* The event counts as spooled, and spool returns.
CountSpooled(c) ==
    /\ Return(c, "counted")
    /\ total_spooled' = total_spooled + 1
    /\ UNCHANGED <<current_bytes, circuit_open, sequence, disk, second, history>>

Spool(c) ==
    \/ Load(c) \/ Refuse(c) \/ Admit(c) \/ TakeNumber(c) \/ TakeName(c)
    \/ BeginWrite(c) \/ EndWrite(c) \/ WriteFails(c) \/ CreateFails(c)
    \/ Count(c) \/ CountSpooled(c)

-----------------------------------------------------------------------------
(* new *)

\* The process stops wherever it is and a new one is created.  A directory
\* that cannot be read counts as empty.
Restart ==
    /\ run < MaxRuns
    /\ run' = run + 1
    /\ pc' = Idle /\ payload' = NoBytes /\ current' = NoBytes /\ file' = NoFile
    /\ \E readable \in BOOLEAN :
          /\ current_bytes' = IF readable THEN disk_bytes ELSE 0
          /\ start_bytes' = current_bytes'
          /\ uncounted' = IF readable THEN 0 ELSE disk_bytes
    /\ total_spooled' = 0
    /\ circuit_open' = FALSE
    /\ sequence' = 0
    /\ UNCHANGED <<disk, second>>

Tick ==
    /\ second < MaxSecond
    /\ second' = second + 1
    /\ UNCHANGED <<callers, atomics, disk, history>>

-----------------------------------------------------------------------------
Next == (\E c \in Caller : Spool(c)) \/ Restart \/ Tick

Spec == Init /\ [][Next]_vars

-----------------------------------------------------------------------------
(* Properties *)

Steps == {"idle", "loaded", "admitted", "numbered", "named", "writing", "written",
          "counted"}

\* Every variable keeps its type.
TypeOK ==
    /\ pc \in [Caller -> Steps]
    /\ payload \in [Caller -> 0 .. MaxPayload]
    /\ \A c \in Caller : pc[c] # "idle" => payload[c] # 0
    /\ current \in [Caller -> Int]
    /\ file \in [Caller -> Nat \X Nat]
    /\ current_bytes \in Int /\ disk_bytes \in Int
    /\ start_bytes \in Int /\ uncounted \in Int
    /\ total_spooled \in Nat /\ sequence \in Nat
    /\ second \in Nat /\ run \in Nat
    /\ circuit_open \in BOOLEAN
    /\ \A n \in DOMAIN files : files[n].bytes \in 0 .. MaxPayload

DirectorySize == SumFunction([n \in DOMAIN files |-> files[n].bytes])

\* The check and the addition are apart, so the queue overshoots its
\* threshold, but by no more than one payload for each concurrent caller.
BoundedOvershoot ==
    current_bytes <= Larger(start_bytes,
                            Threshold + Cardinality(Caller) * MaxPayload - 1)

\* The breaker is open, and events are dropped, only when the queue is at its
\* threshold: a stale copy may close the breaker, it never opens it early.
OpenOnlyWhenFull == circuit_open => current_bytes >= Threshold

\* Every event that this process reported as spooled is whole in a file of its
\* own: no two of its callers share a name, and a failed write of one never
\* damages the file of another.  It does not speak of the events of an earlier
\* process: one that is started within the second of its predecessor's names
\* begins its sequence again at 0 and writes over those files.
EachSpoolHasItsFile ==
    Cardinality({n \in DOMAIN files : files[n].by = run /\ files[n].whole})
        >= total_spooled

\* Between calls the counter misses no byte on the disk but those of failed
\* writes and those of a directory that new could not read: for these, and for
\* no others, the breaker trips late.  A byte may be counted twice, when a file
\* of an earlier process is written over.
CounterCoversDisk ==
    /\ disk_bytes = DirectorySize
    /\ pc = Idle => disk_bytes <= current_bytes + uncounted

=============================================================================
