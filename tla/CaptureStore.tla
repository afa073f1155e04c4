---------------------------- MODULE CaptureStore ----------------------------
(* The saved captures: create_pcap_capture and the download handlers of     *)
(* src/src/utils/dashboard.rs and src/src/utils/logging.rs, over the files  *)
(* they leave in pcap_data.                                                 *)
(*                                                                          *)
(* A worker is anything that saves a capture: the capture thread on an      *)
(* alert, or an HTTP task on POST /api/pcap/capture/manual.  A reader is an *)
(* HTTP task serving GET /api/pcap/file.  What happens under one mutex is   *)
(* one action, except that writing the file, which takes time, begins and   *)
(* ends.  The process may stop at any moment and be started again: the      *)
(* index and the sequence number are lost, the files stay.                  *)
EXTENDS Integers, Sequences

CONSTANTS
    Worker, Reader,
    NoOne,         \* nobody holds the ring mutex
    MaxRecords,    \* MAX_PCAP_RECORDS, 500 in the code
    MaxIds,        \* bound of the model: captures in one run of the process
    MaxRuns        \* bound of the model: runs of the process

ASSUME StoreAssumption ==
    /\ NoOne \notin Worker
    /\ MaxRecords \in Nat \ {0}
    /\ MaxIds \in Nat
    /\ MaxRuns \in Nat \ {0}

VARIABLES
    run,          \* how often the process was started
    pcap_seq,     \* pcap_seq: AtomicU64
    captures,     \* pcap_captures: the index, oldest record first
    disk,         \* pcap_data/ALT-<id>.pcap
    ring_owner,   \* who holds the pcap_ring mutex
    worker,       \* per worker: where it is, and the record it is building
    reader,       \* per reader: where it is, what it asked for, what it got
    failed,       \* history: ids of this run whose file could not be written
    unremoved,    \* history: ids of this run whose remove_file failed
    unmeasured    \* history: ids of this run whose metadata() failed

vars == <<run, pcap_seq, captures, disk, ring_owner, worker, reader,
          failed, unremoved, unmeasured>>

Id == 1 .. MaxIds

Absent == [run |-> 0, state |-> "absent"]

File == [run : 0 .. MaxRuns, state : {"absent", "partial", "complete"}]

\* What fs::read returns when it fails on a file that is there.
Unreadable == [run |-> 0, state |-> "unreadable"]

\* The file a capture of this run should have left.
Saved == [run |-> run, state |-> "complete"]

IdleWorker == [at |-> "idle", id |-> 0, size |-> "none"]

IdleReader == [at |-> "idle", id |-> 0, got |-> Absent]

Init ==
    /\ run = 1
    /\ pcap_seq = 1
    /\ captures = << >>
    /\ disk = [i \in Id |-> Absent]
    /\ ring_owner = NoOne
    /\ worker = [w \in Worker |-> IdleWorker]
    /\ reader = [r \in Reader |-> IdleReader]
    /\ failed = {}
    /\ unremoved = {}
    /\ unmeasured = {}

-----------------------------------------------------------------------------
(* create_pcap_capture *)

\* Mutant of NextSeq: the names wrap around like those of a rotating log.
NextSeqRotating(n) == IF n > MaxRecords THEN 1 ELSE n + 1

NextSeq(n) == n + 1

\* Worker w goes on to `at` with its number, having measured `size`.
Moved(w, at, size) == [worker EXCEPT ![w] = [at |-> at, id |-> worker[w].id, size |-> size]]

\* pcap_seq.fetch_add(1) and the file name made of it.
TakeId(w) ==
    /\ worker[w].at = "idle"
    /\ pcap_seq <= MaxIds
    /\ worker' = [worker EXCEPT ![w] = [at |-> "named", id |-> pcap_seq, size |-> "none"]]
    /\ pcap_seq' = NextSeq(pcap_seq)
    /\ UNCHANGED <<run, captures, disk, ring_owner, reader, failed, unremoved, unmeasured>>

Overwritten(id, state) == [disk EXCEPT ![id] = [run |-> run, state |-> state]]

\* Take the ring mutex; File::create truncates whatever has the name.
BeginFlush(w) ==
    /\ worker[w].at = "named"
    /\ ring_owner = NoOne
    /\ ring_owner' = w
    /\ disk' = Overwritten(worker[w].id, "partial")
    /\ worker' = Moved(w, "writing", "none")
    /\ UNCHANGED <<run, pcap_seq, captures, reader, failed, unremoved, unmeasured>>

\* create_dir_all or File::create fails: create_pcap_capture returns the error.
CreateFails(w) ==
    /\ worker[w].at = "named"
    /\ ring_owner = NoOne
    /\ worker' = [worker EXCEPT ![w] = IdleWorker]
    /\ failed' = failed \cup {worker[w].id}
    /\ UNCHANGED <<run, pcap_seq, captures, disk, ring_owner, reader, unremoved, unmeasured>>

EndFlush(w) ==
    /\ worker[w].at = "writing"
    /\ ring_owner' = NoOne
    /\ disk' = Overwritten(worker[w].id, "complete")
    /\ worker' = Moved(w, "written", "none")
    /\ UNCHANGED <<run, pcap_seq, captures, reader, failed, unremoved, unmeasured>>

\* A write_all fails: `?` returns and leaves what was written so far.
WriteFails(w) ==
    /\ worker[w].at = "writing"
    /\ ring_owner' = NoOne
    /\ worker' = [worker EXCEPT ![w] = IdleWorker]
    /\ failed' = failed \cup {worker[w].id}
    /\ UNCHANGED <<run, pcap_seq, captures, disk, reader, unremoved, unmeasured>>

\* The size in bytes as far as it matters.
SizeOf(file) == IF file = Absent THEN "zero" ELSE file.state

\* std::fs::metadata(&file_path), with no mutex held.
Measure(w) ==
    /\ worker[w].at = "written"
    /\ worker' = Moved(w, "measured", SizeOf(disk[worker[w].id]))
    /\ UNCHANGED <<run, pcap_seq, captures, disk, ring_owner, reader, failed, unremoved, unmeasured>>

\* metadata() fails although the file is there: unwrap_or(0) takes it for empty.
MeasureFails(w) ==
    /\ worker[w].at = "written"
    /\ worker' = Moved(w, "measured", "zero")
    /\ unmeasured' = unmeasured \cup {worker[w].id}
    /\ UNCHANGED <<run, pcap_seq, captures, disk, ring_owner, reader, failed, unremoved>>

\* Mutant of IsFull: the bound is tested after it is exceeded.
IsFullLate == Len(captures) > MaxRecords

IsFull == Len(captures) >= MaxRecords

Record(w) == [id |-> worker[w].id, size |-> worker[w].size]

\* The record push_back follows, and the one pop_front removed when it is full.
Kept == IF IsFull THEN Tail(captures) ELSE captures

\* Mutant of Victims: the file of the newest record goes.
VictimsAtTheBack == IF IsFull THEN {captures[Len(captures)].id} ELSE {}

\* Mutant of Victims: the record goes and its file is forgotten.
VictimsForgotten == {}

Victims == IF IsFull THEN {Head(captures).id} ELSE {}

\* Under the captures mutex: drop the oldest record and its file, append the
\* new record.  The result of remove_file is ignored.
Index(w) ==
    /\ worker[w].at = "measured"
    /\ captures' = Append(Kept, Record(w))
    /\ \E removed \in SUBSET Victims :
          /\ disk' = [i \in Id |-> IF i \in removed THEN Absent ELSE disk[i]]
          /\ unremoved' = unremoved \cup (Victims \ removed)
    /\ worker' = [worker EXCEPT ![w] = IdleWorker]
    /\ UNCHANGED <<run, pcap_seq, ring_owner, reader, failed, unmeasured>>

-----------------------------------------------------------------------------
(* GET /api/pcap/file *)

Indexed == {captures[k].id : k \in 1 .. Len(captures)}

\* pcap_download finds the record under the mutex and returns its path.
Lookup(r, id) ==
    /\ reader[r].at = "idle"
    /\ id \in Indexed
    /\ reader' = [reader EXCEPT ![r] = [at |-> "reading", id |-> id, got |-> Absent]]
    /\ UNCHANGED <<run, pcap_seq, captures, disk, ring_owner, worker, failed, unremoved, unmeasured>>

\* fs::read of that path, after the mutex was released: its bytes, a 404 with
\* the error that there is no such file, or one with any other error.
Read(r) ==
    /\ reader[r].at = "reading"
    /\ \E answer \in {disk[reader[r].id], Unreadable} :
          reader' = [reader EXCEPT ![r] = [at |-> "answered", id |-> reader[r].id,
                                           got |-> answer]]
    /\ UNCHANGED <<run, pcap_seq, captures, disk, ring_owner, worker, failed, unremoved, unmeasured>>

NextRequest(r) ==
    /\ reader[r].at = "answered"
    /\ reader' = [reader EXCEPT ![r] = IdleReader]
    /\ UNCHANGED <<run, pcap_seq, captures, disk, ring_owner, worker, failed, unremoved, unmeasured>>

-----------------------------------------------------------------------------
\* The process stops, by ctrl-c or otherwise, and starts again in the same
\* directory: everything but the files begins anew.
Restart ==
    /\ run < MaxRuns
    /\ run' = run + 1
    /\ pcap_seq' = 1
    /\ captures' = << >>
    /\ ring_owner' = NoOne
    /\ worker' = [w \in Worker |-> IdleWorker]
    /\ reader' = [r \in Reader |-> IdleReader]
    /\ failed' = {}
    /\ unremoved' = {}
    /\ unmeasured' = {}
    /\ UNCHANGED disk

Save(w) ==
    \/ TakeId(w) \/ BeginFlush(w) \/ CreateFails(w) \/ EndFlush(w)
    \/ WriteFails(w) \/ Measure(w) \/ MeasureFails(w) \/ Index(w)

Serve(r) == (\E id \in Id : Lookup(r, id)) \/ Read(r) \/ NextRequest(r)

Next == (\E w \in Worker : Save(w)) \/ (\E r \in Reader : Serve(r)) \/ Restart

Spec == Init /\ [][Next]_vars

-----------------------------------------------------------------------------
(* Properties *)

Size == {"none", "zero", "partial", "complete"}

WorkerRecord == [at   : {"idle", "named", "writing", "written", "measured"},
                 id   : 0 .. MaxIds,
                 size : Size]

ReaderRecord == [at : {"idle", "reading", "answered"}, id : 0 .. MaxIds,
                 got : File \cup {Unreadable}]

\* Every variable keeps its type and the index its bound.
TypeOK ==
    /\ run \in 1 .. MaxRuns
    /\ pcap_seq \in 1 .. MaxIds + 1
    /\ captures \in Seq([id : Id, size : Size])
    /\ Len(captures) <= MaxRecords
    /\ disk \in [Id -> File]
    /\ ring_owner \in Worker \cup {NoOne}
    /\ worker \in [Worker -> WorkerRecord]
    /\ reader \in [Reader -> ReaderRecord]
    /\ failed \subseteq Id
    /\ unremoved \subseteq Id
    /\ unmeasured \subseteq Id

Busy == {w \in Worker : worker[w].at # "idle"}

InFlight == {worker[w].id : w \in Busy}

\* The size the record of capture i should have.
Measured(i) == IF i \in unmeasured THEN "zero" ELSE "complete"

\* A record in the index always stands for a whole file that this run wrote
\* under its id: no other capture's writing, failing or eviction, and nothing a
\* previous run left, gets in its way.  Its size is that file's, unless
\* metadata() failed on it: then the record says 0 bytes of a whole file.
IndexedFilesComplete ==
    \A k \in 1 .. Len(captures) :
        /\ disk[captures[k].id] = Saved
        /\ captures[k].size = Measured(captures[k].id)

\* A capture id is given out once: no two records, no two workers, and no
\* record and a worker share one, however the savers interleave.
IdsAreUnique ==
    /\ \A j, k \in 1 .. Len(captures) : captures[j].id = captures[k].id => j = k
    /\ \A v, w \in Busy : worker[v].id = worker[w].id => v = w
    /\ Indexed \cap InFlight = {}

\* Every file this run wrote is indexed, being worked on, or what a failed
\* write or a failed remove_file left: while those calls succeed, eviction
\* forgets no file.  The files of earlier runs, which nobody indexes again, and
\* those that remove_file could not remove are outside of what it promises.
FilesAreAccountedFor ==
    {i \in Id : disk[i] # Absent /\ disk[i].run = run}
        \subseteq Indexed \cup InFlight \cup failed \cup unremoved

\* A download that answers with bytes answers with the whole capture of this
\* run that was asked for, although the mutex is released between the lookup
\* and the read; eviction in between, or a failing read, only make it a 404.
DownloadsAreWhole ==
    \A r \in Reader : reader[r].got \in {Absent, Unreadable, Saved}

\* The 404 "capture file unavailable" says that there is no such file only for
\* a capture that was evicted after it was looked up.
UnavailableOnlyAfterEviction ==
    [][\A r \in Reader :
          reader[r].at = "reading" /\ reader'[r].at = "answered"
             /\ reader'[r].got = Absent => reader[r].id \notin Indexed]_vars

=============================================================================
