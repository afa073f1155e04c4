------------------------------ MODULE DlqProofs ------------------------------
(* Proofs about Dlq, for any number of callers, any payloads and any limit. *)
EXTENDS Dlq, Sums

\* The callers whose copy was below the threshold: each may still add its
\* payload to the counter.
Pending == {c \in Caller : pc[c] \notin {"idle", "counted"} /\ current[c] < Threshold}

Limit == Larger(start_bytes, Threshold + Cardinality(Caller) * MaxPayload - 1)

\* A copy is never ahead of the counter, which only grows while a process runs.
CopiesLag == \A c \in Caller : pc[c] # "idle" => current[c] <= current_bytes

\* Only a caller with a copy below the threshold passes the check.
PassedBelow ==
    \A c \in Caller : pc[c] \notin {"idle", "loaded"} => current[c] < Threshold

\* There is room for the payload of every pending caller.  The bound itself
\* says nothing of them, and is not inductive.
RoomForPending == current_bytes + MaxPayload * Cardinality(Pending) <= Limit

IInv == TypeOK /\ CopiesLag /\ PassedBelow /\ RoomForPending /\ OpenOnlyWhenFull

-----------------------------------------------------------------------------

LEMMA ThresholdType == Threshold \in Int
  BY DlqAssumption DEF Threshold

LEMMA ProductIsMonotone ==
    ASSUME NEW m \in Nat, NEW a \in Nat, NEW b \in Nat, a <= b
    PROVE  m * a <= m * b
  OBVIOUS

LEMMA ProductOfSuccessor ==
    ASSUME NEW m \in Nat, NEW a \in Int
    PROVE  m * (a - 1) = m * a - m
  OBVIOUS

\* The pending callers are finitely many, and no more than all callers.
LEMMA PendingCount ==
    /\ Cardinality(Caller) \in Nat
    /\ IsFiniteSet(Pending)
    /\ Cardinality(Pending) \in Nat
    /\ Cardinality(Pending) <= Cardinality(Caller)
  <1>1. Pending \in SUBSET Caller
        BY DEF Pending
  <1> QED  BY <1>1, DlqAssumption, FS_Subset, FS_CardinalityType

-----------------------------------------------------------------------------

\* An empty queue, with nobody in it, satisfies the invariant.
LEMMA InitEstablishes == Init => IInv
<1> SUFFICES ASSUME Init PROVE IInv
    OBVIOUS
<1> USE DlqAssumption DEF Init, Idle, NoBytes, NoFile
<1>1. TypeOK
      <2>1. DOMAIN files = {}
            OBVIOUS
      <2>2. file \in [Caller -> Nat \X Nat]
            OBVIOUS
      <2>3. pc \in [Caller -> Steps]
            BY DEF Steps
      <2>4. payload \in [Caller -> 0 .. MaxPayload] /\ current \in [Caller -> Int]
            OBVIOUS
      <2>5. \A c \in Caller : pc[c] # "idle" => payload[c] # 0
            OBVIOUS
      <2>6. circuit_open \in BOOLEAN
            OBVIOUS
      <2>7. \A n \in DOMAIN files : files[n].bytes \in 0 .. MaxPayload
            BY <2>1
      <2>8. /\ current_bytes \in Int /\ disk_bytes \in Int
            /\ start_bytes \in Int /\ uncounted \in Int
            /\ total_spooled \in Nat /\ sequence \in Nat
            /\ second \in Nat /\ run \in Nat
            OBVIOUS
      <2> QED  BY <2>2, <2>3, <2>4, <2>5, <2>6, <2>7, <2>8 DEF TypeOK
<1>2. CopiesLag /\ PassedBelow /\ OpenOnlyWhenFull
      BY DEF CopiesLag, PassedBelow, OpenOnlyWhenFull
<1>3. RoomForPending
      <2>1. Pending = {}
            BY DEF Pending
      <2>2. Cardinality(Pending) = 0
            BY <2>1, FS_EmptySet
      <2>3. MaxPayload * 0 = 0
            OBVIOUS
      <2>4. 0 <= Limit
            BY ThresholdType, PendingCount DEF Limit, Larger
      <2> QED  BY <2>2, <2>3, <2>4 DEF RoomForPending
<1> QED  BY <1>1, <1>2, <1>3 DEF IInv

-----------------------------------------------------------------------------

\* Types of the local variables of a caller that returns.
LEMMA ReturnTypes ==
    ASSUME TypeOK, NEW c \in Caller, NEW from, Return(c, from)
    PROVE  /\ pc' \in [Caller -> Steps]
           /\ payload' \in [Caller -> 0 .. MaxPayload]
           /\ \A d \in Caller : pc'[d] # "idle" => payload'[d] # 0
           /\ current' \in [Caller -> Int]
           /\ file' \in [Caller -> Nat \X Nat]
  BY DlqAssumption DEF Return, Goto, TypeOK, Steps

\* Types of the directory after a write of a payload or part of it.
LEMMA PutTypes ==
    ASSUME TypeOK, NEW name, NEW bytes \in 0 .. MaxPayload, NEW whole,
           Put(name, bytes, whole)
    PROVE  /\ disk_bytes' \in Int
           /\ \A n \in DOMAIN files' : files'[n].bytes \in 0 .. MaxPayload
  <1>1. SizeOf(name) \in Int
        BY DlqAssumption DEF SizeOf, TypeOK
  <1> QED  BY <1>1, DlqAssumption DEF Put, TypeOK

\* All but one byte of a payload is a size of a file.
LEMMA AllButOneByte ==
    ASSUME NEW n \in 0 .. MaxPayload, n # 0
    PROVE  n - 1 \in 0 .. MaxPayload
  BY DlqAssumption

\* Every step of a caller preserves the types.
LEMMA SpoolTypes ==
    ASSUME TypeOK, NEW c \in Caller, Spool(c)
    PROVE  TypeOK'
<1> USE DlqAssumption DEF TypeOK, Steps, atomics, disk, history
<1>1. CASE Load(c)
      BY <1>1 DEF Load, Goto
<1>2. CASE Refuse(c)
      BY <1>2, ReturnTypes DEF Refuse
<1>3. CASE Admit(c)
      BY <1>3 DEF Admit, Goto
<1>4. CASE TakeNumber(c) \/ TakeName(c)
      BY <1>4 DEF TakeNumber, TakeName, Goto, NextSequence
<1>5. CASE BeginWrite(c)
      <2>1. payload[c] # 0 /\ payload[c] \in 0 .. MaxPayload
            BY <1>5 DEF BeginWrite, Goto
      <2>2. payload[c] - 1 \in 0 .. MaxPayload
            BY <2>1, AllButOneByte
      <2> QED  BY <1>5, <2>2, PutTypes DEF BeginWrite, Goto
<1>6. CASE EndWrite(c)
      BY <1>6, PutTypes DEF EndWrite, Goto
<1>7. CASE WriteFails(c)
      BY <1>7, ReturnTypes DEF WriteFails, SizeOf
<1>8. CASE CreateFails(c)
      BY <1>8, ReturnTypes DEF CreateFails
<1>9. CASE Count(c)
      BY <1>9 DEF Count, Counted, Goto
<1>10. CASE CountSpooled(c)
      BY <1>10, ReturnTypes DEF CountSpooled
<1> QED  BY <1>1, <1>2, <1>3, <1>4, <1>5, <1>6, <1>7, <1>8, <1>9, <1>10 DEF Spool

-----------------------------------------------------------------------------

\* A caller that is not pending and does not become so leaves the room alone;
\* so does one that leaves without adding to the counter.
LEMMA RoomKept ==
    ASSUME TypeOK, RoomForPending, Pending' \subseteq Pending,
           current_bytes' = current_bytes, start_bytes' = start_bytes
    PROVE  RoomForPending'
  <1>1. IsFiniteSet(Pending) /\ Cardinality(Pending) \in Nat
        BY PendingCount
  <1>2. Cardinality(Pending') \in Nat /\ Cardinality(Pending') <= Cardinality(Pending)
        BY <1>1, FS_Subset, FS_CardinalityType
  <1>3. MaxPayload \in Nat
        BY DlqAssumption
  <1>4. MaxPayload * Cardinality(Pending') <= MaxPayload * Cardinality(Pending)
        BY <1>1, <1>2, <1>3, ProductIsMonotone
  <1>5. Limit' = Limit
        BY DEF Limit, Threshold, Larger
  <1>6. Limit \in Int
        BY ThresholdType, PendingCount, DlqAssumption DEF Limit, Larger, TypeOK
  <1>7. /\ MaxPayload * Cardinality(Pending') \in Int
        /\ MaxPayload * Cardinality(Pending) \in Int
        BY <1>1, <1>2, <1>3
  <1> QED  BY <1>4, <1>5, <1>6, <1>7 DEF RoomForPending, TypeOK

\* When a caller reads a counter below the threshold, there is room for the
\* largest payload of every caller there is.
LEMMA RoomForAll ==
    ASSUME TypeOK, current_bytes < Threshold, current_bytes' = current_bytes,
           start_bytes' = start_bytes
    PROVE  RoomForPending'
  <1>1. Pending' \in SUBSET Caller
        BY DEF Pending
  <1>2. /\ Cardinality(Caller) \in Nat /\ Cardinality(Pending') \in Nat
        /\ Cardinality(Pending') <= Cardinality(Caller)
        BY <1>1, DlqAssumption, FS_Subset, FS_CardinalityType
  <1>3. MaxPayload \in Nat
        BY DlqAssumption
  <1>4. MaxPayload * Cardinality(Pending') <= MaxPayload * Cardinality(Caller)
        BY <1>2, <1>3, ProductIsMonotone
  <1>5. MaxPayload * Cardinality(Caller) = Cardinality(Caller) * MaxPayload
        BY <1>2, <1>3
  <1>6. /\ MaxPayload * Cardinality(Pending') \in Int
        /\ MaxPayload * Cardinality(Caller) \in Int
        BY <1>2, <1>3
  <1>7. Limit' = Limit
        BY DEF Limit, Threshold, Larger
  <1>8. Limit >= Threshold + MaxPayload * Cardinality(Caller) - 1
        BY <1>5, <1>6, ThresholdType DEF Limit, Larger, TypeOK
  <1>9. Limit \in Int
        BY <1>5, <1>6, ThresholdType DEF Limit, Larger, TypeOK
  <1> QED
      BY <1>4, <1>6, <1>7, <1>8, <1>9, ThresholdType DEF RoomForPending, TypeOK

\* A pending caller that adds its payload takes no more than its room.
LEMMA RoomUsed ==
    ASSUME TypeOK, RoomForPending, NEW c \in Pending, Pending' = Pending \ {c},
           current_bytes' = current_bytes + payload[c], start_bytes' = start_bytes
    PROVE  RoomForPending'
  <1>1. Cardinality(Pending) \in Nat /\ Cardinality(Pending') = Cardinality(Pending) - 1
        BY PendingCount, FS_RemoveElement
  <1>2. MaxPayload \in Nat
        BY DlqAssumption
  <1>3. MaxPayload * Cardinality(Pending') = MaxPayload * Cardinality(Pending) - MaxPayload
        BY <1>1, <1>2, ProductOfSuccessor
  <1>4. payload[c] \in 0 .. MaxPayload
        BY DEF Pending, TypeOK
  <1>5. Limit' = Limit
        BY DEF Limit, Threshold, Larger
  <1>6. Limit \in Int
        BY ThresholdType, PendingCount, DlqAssumption DEF Limit, Larger, TypeOK
  <1>7. MaxPayload * Cardinality(Pending) \in Int
        BY <1>1, <1>2
  <1> QED  BY <1>2, <1>3, <1>4, <1>5, <1>6, <1>7 DEF RoomForPending, TypeOK

-----------------------------------------------------------------------------

\* Every step of a caller preserves what is said of copies and of the breaker.
LEMMA SpoolKeepsCopies ==
    ASSUME IInv, NEW c \in Caller, Spool(c)
    PROVE  (CopiesLag /\ PassedBelow /\ OpenOnlyWhenFull)'
<1> USE DlqAssumption, ThresholdType
    DEF IInv, TypeOK, CopiesLag, PassedBelow, OpenOnlyWhenFull, Goto, Return,
        atomics, history
<1>0. Threshold' = Threshold
      BY DEF Threshold
<1> HIDE DEF Threshold
<1>1. CASE Load(c)
      BY <1>0, <1>1 DEF Load
<1>2. CASE Refuse(c)
      BY <1>0, <1>2 DEF Refuse, IsFull
<1>3. CASE Admit(c)
      BY <1>0, <1>3 DEF Admit, IsFull
<1>4. CASE TakeNumber(c) \/ TakeName(c)
      BY <1>0, <1>4 DEF TakeNumber, TakeName
<1>5. CASE BeginWrite(c)
      BY <1>0, <1>5 DEF BeginWrite
<1>6. CASE EndWrite(c)
      BY <1>0, <1>6 DEF EndWrite
<1>7. CASE WriteFails(c)
      BY <1>0, <1>7 DEF WriteFails
<1>8. CASE CreateFails(c)
      BY <1>0, <1>8 DEF CreateFails
<1>9. CASE Count(c)
      BY <1>0, <1>9 DEF Count, Counted
<1>10. CASE CountSpooled(c)
      BY <1>0, <1>10 DEF CountSpooled
<1> QED  BY <1>1, <1>2, <1>3, <1>4, <1>5, <1>6, <1>7, <1>8, <1>9, <1>10 DEF Spool

\* Every step of a caller leaves room for those that are pending after it.
LEMMA SpoolKeepsRoom ==
    ASSUME IInv, NEW c \in Caller, Spool(c)
    PROVE  RoomForPending'
<1> USE DEF IInv, atomics, history, Goto, Return
<1>0. Threshold' = Threshold
      BY DEF Threshold
<1>1. CASE Load(c)
      <2>1. CASE current_bytes < Threshold
            BY <1>1, <2>1, RoomForAll DEF Load
      <2>2. CASE ~(current_bytes < Threshold)
            <3>1. Pending' \subseteq Pending
                  BY <1>0, <1>1, <2>2 DEF Load, Pending, TypeOK
            <3> QED  BY <1>1, <3>1, RoomKept DEF Load
      <2> QED  BY <2>1, <2>2
<1>2. CASE Count(c)
      <2>1. c \in Pending
            BY <1>2 DEF Count, Pending, PassedBelow
      <2>2. Pending' = Pending \ {c}
            BY <1>0, <1>2 DEF Count, Pending, TypeOK
      <2> QED  BY <1>2, <2>1, <2>2, RoomUsed DEF Count, Counted
<1>3. CASE Spool(c) /\ ~Load(c) /\ ~Count(c)
      <2>1. current_bytes' = current_bytes /\ start_bytes' = start_bytes
            BY <1>3 DEF Spool, Refuse, Admit, TakeNumber, TakeName, BeginWrite, EndWrite,
                        WriteFails, CreateFails, CountSpooled
      <2>2. \/ pc' = [pc EXCEPT ![c] = "idle"] /\ current' = [current EXCEPT ![c] = 0]
            \/ /\ pc[c] \notin {"idle", "counted"} /\ current' = current
               /\ \E to : pc' = [pc EXCEPT ![c] = to]
            BY <1>3 DEF Spool, Refuse, Admit, TakeNumber, TakeName, BeginWrite, EndWrite,
                        WriteFails, CreateFails, CountSpooled
      <2>3. Pending' \subseteq Pending
            BY <1>0, <2>2 DEF Pending, TypeOK
      <2> QED  BY <2>1, <2>3, RoomKept
<1> QED  BY <1>1, <1>2, <1>3

\* A new process has no callers, and its counter is where it starts.
LEMMA RestartPreserves ==
    ASSUME IInv, Restart
    PROVE  IInv'
<1> USE DlqAssumption DEF IInv, Restart, Idle, NoBytes, NoFile, disk
<1>1. TypeOK'
      <2>1. pc' \in [Caller -> Steps]
            BY DEF Steps
      <2>2. /\ payload' \in [Caller -> 0 .. MaxPayload]
            /\ current' \in [Caller -> Int] /\ file' \in [Caller -> Nat \X Nat]
            /\ \A c \in Caller : pc'[c] # "idle" => payload'[c] # 0
            OBVIOUS
      <2>3. /\ current_bytes' \in Int /\ start_bytes' \in Int /\ uncounted' \in Int
            /\ disk_bytes' \in Int
            BY DEF TypeOK
      <2>4. /\ total_spooled' \in Nat /\ sequence' \in Nat
            /\ second' \in Nat /\ run' \in Nat
            BY DEF TypeOK
      <2>5. circuit_open' \in BOOLEAN
            OBVIOUS
      <2>6. \A n \in DOMAIN files' : files'[n].bytes \in 0 .. MaxPayload
            BY DEF TypeOK
      <2> QED  BY <2>1, <2>2, <2>3, <2>4, <2>5, <2>6 DEF TypeOK
<1>2. (CopiesLag /\ PassedBelow /\ OpenOnlyWhenFull)'
      BY DEF CopiesLag, PassedBelow, OpenOnlyWhenFull
<1>3. RoomForPending'
      <2>1. Pending' = {}
            BY DEF Pending
      <2>2. Cardinality(Pending') = 0
            BY <2>1, FS_EmptySet
      <2>3. MaxPayload * 0 = 0
            OBVIOUS
      <2>4. start_bytes' \in Int /\ current_bytes' = start_bytes'
            BY DEF TypeOK
      <2>5. Threshold' = Threshold
            BY DEF Threshold
      <2>6. start_bytes' <= Limit'
            BY <2>4, <2>5, ThresholdType, PendingCount DEF Limit, Larger
      <2> QED  BY <2>2, <2>3, <2>4, <2>6 DEF RoomForPending
<1> QED  BY <1>1, <1>2, <1>3

-----------------------------------------------------------------------------

LEMMA StepPreserves == IInv /\ [Next]_vars => IInv'
<1> SUFFICES ASSUME IInv, [Next]_vars PROVE IInv'
    OBVIOUS
<1>1. ASSUME NEW c \in Caller, Spool(c) PROVE IInv'
      BY <1>1, SpoolTypes, SpoolKeepsCopies, SpoolKeepsRoom DEF IInv
<1>2. CASE Restart
      BY <1>2, RestartPreserves
<1>3. CASE Tick \/ UNCHANGED vars
      <2>1. /\ UNCHANGED <<callers, atomics, disk, history>>
            /\ second' \in Nat
            BY <1>3, DlqAssumption DEF Tick, vars, IInv, TypeOK
      <2>2. TypeOK'
            BY <2>1 DEF IInv, TypeOK, callers, atomics, disk, history
      <2>3. (CopiesLag /\ PassedBelow /\ OpenOnlyWhenFull)'
            BY <2>1 DEF IInv, CopiesLag, PassedBelow, OpenOnlyWhenFull, Threshold,
                        callers, atomics
      <2>4. RoomForPending'
            BY <2>1 DEF IInv, RoomForPending, Pending, Limit, Larger, Threshold,
                        callers, atomics, history
      <2> QED  BY <2>2, <2>3, <2>4 DEF IInv
<1> QED  BY <1>1, <1>2, <1>3 DEF Next

LEMMA Invariance == Spec => []IInv
  BY InitEstablishes, StepPreserves, PTL DEF Spec

\* The room left for pending callers bounds the counter itself.
LEMMA RoomBounds == IInv => BoundedOvershoot
<1> SUFFICES ASSUME IInv PROVE BoundedOvershoot
    OBVIOUS
<1>1. MaxPayload \in Nat /\ Cardinality(Pending) \in Nat
      BY DlqAssumption, PendingCount
<1>2. MaxPayload * Cardinality(Pending) \in Nat
      BY <1>1
<1>3. Limit \in Int
      BY ThresholdType, PendingCount, <1>1 DEF Limit, Larger, IInv, TypeOK
<1> QED  BY <1>2, <1>3 DEF IInv, TypeOK, RoomForPending, BoundedOvershoot, Limit

\* Every variable of the queue keeps its type.
THEOREM TypeCorrect == Spec => []TypeOK
  BY Invariance, PTL DEF IInv

\* However many callers spool at once, and whenever the process restarts, the
\* queue exceeds its threshold by less than one payload for each caller.
THEOREM OvershootIsBounded == Spec => []BoundedOvershoot
  BY Invariance, RoomBounds, PTL

\* The breaker never opens, and so spool never drops an event, below the
\* threshold.
THEOREM BreakerOpensOnlyWhenFull == Spec => []OpenOnlyWhenFull
  BY Invariance, PTL DEF IInv

-----------------------------------------------------------------------------
(* What is on the disk *)

\* A caller that has taken a number and is not yet done with its file.
Naming == {c \in Caller : pc[c] \in {"numbered", "named", "writing", "written"}}

\* Files that this process wrote to their end.
Kept == {n \in DOMAIN files : files[n].by = run /\ files[n].whole}

\* Callers whose event is on the disk and not yet reported.
Written == {c \in Caller : pc[c] \in {"written", "counted"}}

\* Files are finitely many, no later process wrote one, and the names that
\* this process gave away carry sequence numbers below its next one.
DirectoryOK ==
    /\ IsFiniteSet(DOMAIN files)
    /\ \A n \in DOMAIN files :
          /\ n \in Nat \X Nat
          /\ files[n].by \in Nat /\ files[n].whole \in BOOLEAN
          /\ files[n].by <= run
          /\ files[n].by = run => n[2] < sequence

\* The numbers in use are apart from each other and from those to come: the
\* seconds of the names say nothing.
NamesApart ==
    /\ \A c \in Naming : file[c][2] < sequence
    /\ \A c, d \in Naming : c # d => file[c][2] # file[d][2]

\* What a caller has done so far of its file.
Progress(c) ==
    /\ pc[c] \in {"numbered", "named"} =>
           \A n \in DOMAIN files : files[n].by = run => n[2] # file[c][2]
    /\ pc[c] = "writing" => /\ file[c] \in DOMAIN files
                            /\ files[file[c]].by = run
                            /\ files[file[c]].whole = FALSE
                            /\ files[file[c]].bytes = payload[c] - 1
    /\ pc[c] = "written" => /\ file[c] \in DOMAIN files
                            /\ files[file[c]].by = run
                            /\ files[file[c]].whole = TRUE

ProgressOnDisk == \A c \in Caller : Progress(c)

\* Every event that was reported, and every one about to be, has its file.
FilesKept == Cardinality(Kept) >= total_spooled + Cardinality(Written)

SInv == TypeOK /\ DirectoryOK /\ NamesApart /\ ProgressOnDisk /\ FilesKept

LEMMA WrittenCount == IsFiniteSet(Written) /\ Cardinality(Written) \in Nat
  <1>1. Written \in SUBSET Caller
        BY DEF Written
  <1> QED  BY <1>1, DlqAssumption, FS_Subset, FS_CardinalityType

LEMMA KeptCount ==
    ASSUME DirectoryOK
    PROVE  IsFiniteSet(Kept) /\ Cardinality(Kept) \in Nat
  <1>1. Kept \in SUBSET DOMAIN files
        BY DEF Kept
  <1> QED  BY <1>1, FS_Subset, FS_CardinalityType DEF DirectoryOK

\* With nobody in the queue and no file of this process, nothing is owed.
LEMMA NothingOwed ==
    ASSUME DirectoryOK, total_spooled = 0, Written = {}
    PROVE  FilesKept
  BY KeptCount, FS_EmptySet DEF FilesKept

\* A step that changes no file and no caller's stage of writing owes the same.
LEMMA OwedKept ==
    ASSUME FilesKept, files' = files, run' = run, total_spooled' = total_spooled,
           Written' = Written
    PROVE  FilesKept'
  BY DEF FilesKept, Kept

-----------------------------------------------------------------------------

LEMMA InitSpooled == Init => SInv
<1> SUFFICES ASSUME Init PROVE SInv
    OBVIOUS
<1> USE DEF Init, Idle, NoBytes, NoFile
<1>1. TypeOK
      BY InitEstablishes DEF IInv
<1>2. DOMAIN files = {} /\ Naming = {} /\ Written = {}
      BY DEF Naming, Written
<1>3. DirectoryOK
      BY <1>2, FS_EmptySet DEF DirectoryOK
<1>4. NamesApart /\ ProgressOnDisk
      BY <1>2 DEF NamesApart, ProgressOnDisk, Progress
<1> QED  BY <1>1, <1>2, <1>3, <1>4, NothingOwed DEF SInv

\* Until it takes a number a caller has nothing to do with the disk.
LEMMA BeforeNaming ==
    ASSUME SInv, NEW c \in Caller, Load(c) \/ Refuse(c) \/ Admit(c)
    PROVE  (DirectoryOK /\ NamesApart /\ ProgressOnDisk /\ FilesKept)'
<1>1. /\ files' = files /\ run' = run /\ sequence' = sequence
      /\ total_spooled' = total_spooled
      BY DEF Load, Refuse, Admit, atomics, disk, history
<1>2. /\ \A d \in Caller :
             pc'[d] # pc[d] => /\ pc[d] \in {"idle", "loaded"}
                               /\ pc'[d] \in {"idle", "loaded", "admitted"}
      /\ \A d \in Caller : pc[d] \notin {"idle", "loaded"} =>
             file'[d] = file[d] /\ payload'[d] = payload[d]
      BY DEF Load, Refuse, Admit, Return, Goto, SInv, TypeOK
<1>3. Naming' = Naming /\ Written' = Written
      BY <1>2 DEF Naming, Written
<1>4. DirectoryOK'
      BY <1>1 DEF SInv, DirectoryOK
<1>5. NamesApart'
      BY <1>1, <1>2, <1>3 DEF SInv, NamesApart, Naming
<1>6. ProgressOnDisk'
      BY <1>1, <1>2 DEF SInv, ProgressOnDisk, Progress
<1> QED  BY <1>1, <1>3, <1>4, <1>5, <1>6, OwedKept DEF SInv

\* The number is new: it is above those of all names of this process.
LEMMA NumberIsNew ==
    ASSUME SInv, NEW c \in Caller, TakeNumber(c)
    PROVE  (DirectoryOK /\ NamesApart /\ ProgressOnDisk /\ FilesKept)'
<1>1. /\ files' = files /\ run' = run /\ sequence' = sequence + 1
      /\ total_spooled' = total_spooled /\ payload' = payload
      /\ pc[c] = "admitted" /\ pc' = [pc EXCEPT ![c] = "numbered"]
      /\ file' = [file EXCEPT ![c] = <<0, sequence>>]
      BY DEF TakeNumber, NextSequence, Goto, disk, history
<1>2. /\ sequence \in Nat
      /\ pc \in [Caller -> Steps] /\ file \in [Caller -> Nat \X Nat]
      BY DEF SInv, TypeOK
<1>3. Naming' = Naming \cup {c} /\ Written' = Written /\ c \notin Naming
      BY <1>1, <1>2 DEF Naming, Written
<1>4. /\ \A d \in Naming : file'[d] = file[d] /\ file[d] \in Nat \X Nat
      /\ file'[c][2] = sequence
      BY <1>1, <1>2, <1>3 DEF Naming
<1>5. DirectoryOK'
      BY <1>1, <1>2 DEF SInv, DirectoryOK
<1>6. NamesApart'
      <2>1. \A d \in Naming : file'[d][2] < sequence /\ file'[d][2] \in Nat
            BY <1>4 DEF SInv, NamesApart
      <2>2. \A d \in Naming : file'[d][2] # file'[c][2]
            BY <1>2, <1>4, <2>1
      <2>3. \A d \in Naming' : file'[d][2] < sequence'
            BY <1>1, <1>2, <1>3, <1>4, <2>1
      <2>4. \A d, e \in Naming' : d # e => file'[d][2] # file'[e][2]
            BY <1>3, <1>4, <2>2 DEF SInv, NamesApart
      <2> QED  BY <2>3, <2>4 DEF NamesApart
<1>7. ProgressOnDisk'
      <2>1. \A n \in DOMAIN files : files[n].by = run => n[2] # file'[c][2]
            BY <1>2, <1>4 DEF SInv, DirectoryOK
      <2> QED  BY <1>1, <1>2, <2>1 DEF SInv, ProgressOnDisk, Progress
<1> QED  BY <1>1, <1>3, <1>5, <1>6, <1>7, OwedKept DEF SInv

\* Whatever second the clock shows, the name keeps its number.
LEMMA NameKeepsNumber ==
    ASSUME SInv, NEW c \in Caller, TakeName(c)
    PROVE  (DirectoryOK /\ NamesApart /\ ProgressOnDisk /\ FilesKept)'
<1>1. /\ files' = files /\ run' = run /\ sequence' = sequence
      /\ total_spooled' = total_spooled /\ payload' = payload
      /\ pc[c] = "numbered" /\ pc' = [pc EXCEPT ![c] = "named"]
      /\ file' = [file EXCEPT ![c] = <<second, file[c][2]>>]
      BY DEF TakeName, Goto, atomics, disk, history
<1>2. pc \in [Caller -> Steps] /\ file \in [Caller -> Nat \X Nat]
      BY DEF SInv, TypeOK
<1>3. Naming' = Naming /\ Written' = Written
      BY <1>1, <1>2 DEF Naming, Written
<1>4. /\ \A d \in Caller : file'[d][2] = file[d][2]
      /\ \A d \in Caller : d # c => file'[d] = file[d] /\ pc'[d] = pc[d]
      /\ pc'[c] = "named"
      BY <1>1, <1>2
<1>5. DirectoryOK'
      BY <1>1 DEF SInv, DirectoryOK
<1>6. NamesApart'
      BY <1>1, <1>3, <1>4 DEF SInv, NamesApart, Naming
<1>7. ProgressOnDisk'
      BY <1>1, <1>4 DEF SInv, ProgressOnDisk, Progress
<1> QED  BY <1>1, <1>3, <1>5, <1>6, <1>7, OwedKept DEF SInv

LEMMA PutKeepsDirectory ==
    ASSUME SInv, NEW c \in Naming, NEW bytes, NEW whole \in BOOLEAN,
           Put(file[c], bytes, whole), run' = run, sequence' = sequence
    PROVE  DirectoryOK'
<1>1. /\ DOMAIN files' = DOMAIN files \cup {file[c]}
      /\ files'[file[c]] = [bytes |-> bytes, by |-> run, whole |-> whole]
      /\ \A n \in DOMAIN files : n # file[c] => files'[n] = files[n]
      BY DEF Put
<1>2. run \in Nat /\ file[c] \in Nat \X Nat /\ file[c][2] < sequence
      BY DEF SInv, TypeOK, NamesApart, Naming
<1>3. IsFiniteSet(DOMAIN files')
      BY <1>1, FS_AddElement DEF SInv, DirectoryOK
<1>4. files'[file[c]].by = run /\ files'[file[c]].whole = whole
      BY <1>1
<1>5. ASSUME NEW n \in DOMAIN files'
      PROVE  /\ n \in Nat \X Nat
             /\ files'[n].by \in Nat /\ files'[n].whole \in BOOLEAN
             /\ files'[n].by <= run'
             /\ files'[n].by = run' => n[2] < sequence'
      <2>1. CASE n = file[c]
            BY <1>2, <1>4, <2>1
      <2>2. CASE n # file[c]
            BY <1>1, <2>2 DEF SInv, DirectoryOK
      <2> QED  BY <2>1, <2>2
<1> QED  BY <1>3, <1>5 DEF DirectoryOK

\* Another caller's file is not the one that is written.
LEMMA PutSparesOthers ==
    ASSUME SInv, NEW c \in Naming, NEW bytes, NEW whole \in BOOLEAN,
           Put(file[c], bytes, whole), run' = run, file' = file, payload' = payload,
           NEW d \in Caller, d # c, pc'[d] = pc[d]
    PROVE  Progress(d)'
<1>1. /\ DOMAIN files' = DOMAIN files \cup {file[c]}
      /\ \A n \in DOMAIN files : n # file[c] => files'[n] = files[n]
      BY DEF Put
<1>2. d \in Naming => file[d][2] # file[c][2]
      BY DEF SInv, NamesApart
<1>3. pc[d] \in {"numbered", "named", "writing", "written"} => d \in Naming
      BY DEF Naming
<1> QED  BY <1>1, <1>2, <1>3 DEF SInv, ProgressOnDisk, Progress

LEMMA BeginWriteSpooled ==
    ASSUME SInv, NEW c \in Caller, BeginWrite(c)
    PROVE  (DirectoryOK /\ NamesApart /\ ProgressOnDisk /\ FilesKept)'
<1>1. /\ pc[c] = "named" /\ pc' = [pc EXCEPT ![c] = "writing"]
      /\ Put(file[c], payload[c] - 1, FALSE)
      /\ payload' = payload /\ file' = file /\ run' = run
      /\ sequence' = sequence /\ total_spooled' = total_spooled
      BY DEF BeginWrite, Goto, atomics, history
<1>2. c \in Naming /\ pc \in [Caller -> Steps]
      BY <1>1 DEF Naming, SInv, TypeOK
<1>3. Naming' = Naming /\ Written' = Written
      BY <1>1, <1>2 DEF Naming, Written
<1>4. /\ DOMAIN files' = DOMAIN files \cup {file[c]}
      /\ files'[file[c]] = [bytes |-> payload[c] - 1, by |-> run, whole |-> FALSE]
      /\ \A n \in DOMAIN files : n # file[c] => files'[n] = files[n]
      BY <1>1 DEF Put
<1>5. DirectoryOK'
      BY <1>1, <1>2, PutKeepsDirectory
<1>6. NamesApart'
      BY <1>1, <1>3 DEF SInv, NamesApart
<1>7. ProgressOnDisk'
      <2>1. /\ file'[c] \in DOMAIN files' /\ files'[file'[c]].by = run'
            /\ files'[file'[c]].whole = FALSE
            /\ files'[file'[c]].bytes = payload'[c] - 1
            /\ pc'[c] = "writing"
            BY <1>1, <1>2, <1>4
      <2> QED  BY <1>1, <1>2, <2>1, PutSparesOthers DEF ProgressOnDisk, Progress
<1>8. Kept' = Kept
      <2>1. file[c] \notin Kept
            BY <1>1 DEF SInv, ProgressOnDisk, Progress, Kept
      <2>2. files'[file[c]].whole = FALSE
            BY <1>4
      <2>3. file[c] \notin Kept'
            BY <2>2 DEF Kept
      <2>4. \A n : n # file[c] => (n \in Kept' <=> n \in Kept)
            BY <1>1, <1>4 DEF Kept
      <2> QED  BY <2>1, <2>3, <2>4
<1>9. FilesKept'
      BY <1>1, <1>3, <1>8 DEF SInv, FilesKept
<1> QED  BY <1>5, <1>6, <1>7, <1>9

LEMMA EndWriteSpooled ==
    ASSUME SInv, NEW c \in Caller, EndWrite(c)
    PROVE  (DirectoryOK /\ NamesApart /\ ProgressOnDisk /\ FilesKept)'
<1>1. /\ pc[c] = "writing" /\ pc' = [pc EXCEPT ![c] = "written"]
      /\ Put(file[c], payload[c], TRUE)
      /\ payload' = payload /\ file' = file /\ run' = run
      /\ sequence' = sequence /\ total_spooled' = total_spooled
      BY DEF EndWrite, Goto, atomics, history
<1>2. c \in Naming /\ pc \in [Caller -> Steps]
      BY <1>1 DEF Naming, SInv, TypeOK
<1>3. Naming' = Naming /\ Written' = Written \cup {c} /\ c \notin Written
      BY <1>1, <1>2 DEF Naming, Written
<1>4. /\ DOMAIN files' = DOMAIN files \cup {file[c]}
      /\ files'[file[c]] = [bytes |-> payload[c], by |-> run, whole |-> TRUE]
      /\ \A n \in DOMAIN files : n # file[c] => files'[n] = files[n]
      BY <1>1 DEF Put
<1>5. DirectoryOK'
      BY <1>1, <1>2, PutKeepsDirectory
<1>6. NamesApart'
      BY <1>1, <1>3 DEF SInv, NamesApart
<1>7. ProgressOnDisk'
      <2>1. /\ file'[c] \in DOMAIN files' /\ files'[file'[c]].by = run'
            /\ files'[file'[c]].whole = TRUE /\ pc'[c] = "written"
            BY <1>1, <1>2, <1>4
      <2> QED  BY <1>1, <1>2, <2>1, PutSparesOthers DEF ProgressOnDisk, Progress
<1>8. Kept' = Kept \cup {file[c]} /\ file[c] \notin Kept
      <2>1. file[c] \notin Kept
            BY <1>1 DEF SInv, ProgressOnDisk, Progress, Kept
      <2>2. files'[file[c]].whole = TRUE /\ files'[file[c]].by = run
            BY <1>4
      <2>3. file[c] \in Kept'
            BY <1>1, <1>4, <2>2 DEF Kept
      <2>4. \A n : n # file[c] => (n \in Kept' <=> n \in Kept)
            BY <1>1, <1>4 DEF Kept
      <2> QED  BY <2>1, <2>3, <2>4
<1>9. FilesKept'
      <2>1. Cardinality(Kept') = Cardinality(Kept) + 1 /\ Cardinality(Kept) \in Nat
            BY <1>8, KeptCount, FS_AddElement DEF SInv
      <2>2. /\ Cardinality(Written') = Cardinality(Written) + 1
            /\ Cardinality(Written) \in Nat
            BY <1>3, WrittenCount, FS_AddElement
      <2> QED  BY <1>1, <2>1, <2>2 DEF SInv, FilesKept, TypeOK
<1> QED  BY <1>5, <1>6, <1>7, <1>9

\* A caller that returns leaves the directory alone; if its write was
\* complete, spool counts it as one more spooled.
LEMMA ReturnSpooled ==
    ASSUME SInv, NEW c \in Caller, WriteFails(c) \/ CreateFails(c) \/ CountSpooled(c)
    PROVE  (DirectoryOK /\ NamesApart /\ ProgressOnDisk /\ FilesKept)'
<1>1. /\ files' = files /\ run' = run /\ sequence' = sequence
      /\ pc' = [pc EXCEPT ![c] = "idle"]
      /\ payload' = [payload EXCEPT ![c] = 0]
      /\ file' = [file EXCEPT ![c] = <<0, 0>>]
      /\ \/ pc[c] \in {"named", "writing"} /\ total_spooled' = total_spooled
         \/ pc[c] = "counted" /\ total_spooled' = total_spooled + 1
      BY DEF WriteFails, CreateFails, CountSpooled, Return, Goto, atomics, disk, history
<1>2. /\ pc \in [Caller -> Steps] /\ file \in [Caller -> Nat \X Nat]
      /\ total_spooled \in Nat /\ payload \in [Caller -> 0 .. MaxPayload]
      BY DEF SInv, TypeOK
<1>3. Naming' \subseteq Naming \ {c} /\ \A d \in Naming \ {c} : file'[d] = file[d]
      BY <1>1, <1>2 DEF Naming
<1>4. DirectoryOK'
      BY <1>1 DEF SInv, DirectoryOK
<1>5. NamesApart'
      BY <1>1, <1>3 DEF SInv, NamesApart
<1>6. ProgressOnDisk'
      BY <1>1, <1>2 DEF SInv, ProgressOnDisk, Progress
<1>7. Kept' = Kept
      BY <1>1 DEF Kept
<1>8. FilesKept'
      <2>1. CASE pc[c] \in {"named", "writing"} /\ total_spooled' = total_spooled
            <3>1. Written' = Written
                  BY <1>1, <1>2, <2>1 DEF Written
            <3> QED  BY <1>7, <2>1, <3>1 DEF SInv, FilesKept
      <2>2. CASE pc[c] = "counted" /\ total_spooled' = total_spooled + 1
            <3>1. Written' = Written \ {c} /\ c \in Written
                  BY <1>1, <1>2, <2>2 DEF Written
            <3>2. Cardinality(Written') = Cardinality(Written) - 1
                  BY <3>1, WrittenCount, FS_RemoveElement
            <3>3. Cardinality(Kept) \in Nat /\ Cardinality(Written) \in Nat
                  BY KeptCount, WrittenCount DEF SInv
            <3> QED  BY <1>2, <1>7, <2>2, <3>2, <3>3 DEF SInv, FilesKept
      <2> QED  BY <1>1, <2>1, <2>2
<1> QED  BY <1>4, <1>5, <1>6, <1>8

\* A caller that adds its bytes to the counter is done with its file, and owes
\* it still.
LEMMA CountSpares ==
    ASSUME SInv, NEW c \in Caller, Count(c)
    PROVE  (DirectoryOK /\ NamesApart /\ ProgressOnDisk /\ FilesKept)'
<1>1. /\ files' = files /\ run' = run /\ sequence' = sequence
      /\ total_spooled' = total_spooled /\ payload' = payload /\ file' = file
      /\ pc[c] = "written" /\ pc' = [pc EXCEPT ![c] = "counted"]
      BY DEF Count, Goto, disk, history
<1>2. pc \in [Caller -> Steps]
      BY DEF SInv, TypeOK
<1>3. Naming' \subseteq Naming /\ Written' = Written
      BY <1>1, <1>2 DEF Naming, Written
<1>4. DirectoryOK'
      BY <1>1 DEF SInv, DirectoryOK
<1>5. NamesApart'
      BY <1>1, <1>3 DEF SInv, NamesApart
<1>6. ProgressOnDisk'
      BY <1>1, <1>2 DEF SInv, ProgressOnDisk, Progress
<1> QED  BY <1>1, <1>3, <1>4, <1>5, <1>6, OwedKept DEF SInv

\* A new process has written nothing yet, and owes nothing.
LEMMA RestartSpooled ==
    ASSUME SInv, Restart
    PROVE  (DirectoryOK /\ NamesApart /\ ProgressOnDisk /\ FilesKept)'
<1>1. /\ files' = files /\ run' = run + 1 /\ sequence' = 0 /\ total_spooled' = 0
      /\ run \in Nat
      BY DEF Restart, SInv, TypeOK, disk
<1>2. Naming' = {} /\ Written' = {}
      BY DEF Restart, Idle, Naming, Written
<1>3. DirectoryOK'
      BY <1>1 DEF SInv, DirectoryOK
<1>4. NamesApart'
      BY <1>2 DEF NamesApart
<1>5. ProgressOnDisk'
      BY DEF Restart, Idle, ProgressOnDisk, Progress
<1>6. FilesKept'
      <2>1. IsFiniteSet(Kept') /\ Cardinality(Kept') \in Nat
            <3>1. Kept' \in SUBSET DOMAIN files'
                  BY DEF Kept
            <3>2. IsFiniteSet(DOMAIN files')
                  BY <1>3 DEF DirectoryOK
            <3> QED  BY <3>1, <3>2, FS_Subset, FS_CardinalityType
      <2>2. Cardinality(Written') = 0
            BY <1>2, FS_EmptySet
      <2> QED  BY <1>1, <2>1, <2>2 DEF FilesKept
<1> QED  BY <1>3, <1>4, <1>5, <1>6

LEMMA StepSpooled == SInv /\ TypeOK' /\ [Next]_vars => SInv'
<1> SUFFICES ASSUME SInv, TypeOK', [Next]_vars PROVE SInv'
    OBVIOUS
<1>1. ASSUME NEW c \in Caller, Spool(c) PROVE SInv'
      BY <1>1, BeforeNaming, NumberIsNew, NameKeepsNumber, BeginWriteSpooled,
         EndWriteSpooled, ReturnSpooled, CountSpares DEF Spool, SInv
<1>2. CASE Restart
      BY <1>2, RestartSpooled DEF SInv
<1>3. CASE Tick \/ UNCHANGED vars
      <2>1. UNCHANGED <<callers, atomics, disk, history>>
            BY <1>3 DEF Tick, vars
      <2> QED
          BY <2>1 DEF SInv, DirectoryOK, NamesApart, ProgressOnDisk, Progress,
                      FilesKept, Naming, Kept, Written,
                      callers, atomics, disk, history
<1> QED  BY <1>1, <1>2, <1>3 DEF Next

LEMMA SpooledInvariance == Spec => []SInv
  BY InitSpooled, StepSpooled, TypeCorrect, PTL DEF Spec

LEMMA KeptCoversSpooled == SInv => EachSpoolHasItsFile
<1> SUFFICES ASSUME SInv PROVE EachSpoolHasItsFile
    OBVIOUS
<1>1. Cardinality(Written) \in Nat /\ Cardinality(Kept) \in Nat
      BY WrittenCount, KeptCount DEF SInv
<1> QED  BY <1>1 DEF SInv, FilesKept, Kept, EachSpoolHasItsFile, TypeOK

\* Whatever the interleaving of callers, failed writes and restarts, an event
\* that spool reported as spooled is whole in a file that no other event of
\* the process was written to.
THEOREM SpoolsHaveFiles == Spec => []EachSpoolHasItsFile
  BY SpooledInvariance, KeptCoversSpooled, PTL

-----------------------------------------------------------------------------
(* What the counter misses *)

Sizes == [n \in DOMAIN files |-> files[n].bytes]

\* What a caller has put on the disk and not yet counted.
InFlight == [c \in Caller |-> IF pc[c] = "writing" THEN payload[c] - 1
                              ELSE IF pc[c] = "written" THEN payload[c] ELSE 0]

DiskMatches == disk_bytes = SumFunctionOnSet(Sizes, DOMAIN files)

\* While callers are in spool, the counter misses what they have in flight.
NothingMissed ==
    disk_bytes <= current_bytes + uncounted + SumFunctionOnSet(InFlight, Caller)

LEMMA SizesAreInts == SInv => \A n \in DOMAIN files : Sizes[n] \in Int
  BY DlqAssumption DEF SInv, TypeOK, Sizes

LEMMA InFlightIsInt == TypeOK => \A c \in Caller : InFlight[c] \in Int
  BY DlqAssumption DEF TypeOK, InFlight

LEMMA DirectorySum == DirectorySize = SumFunctionOnSet(Sizes, DOMAIN files)
  BY DEF DirectorySize, Sizes, SumFunction

\* A file that is created adds its bytes to the directory, one that is
\* written over trades its old bytes for the new.
LEMMA PutMatches ==
    ASSUME SInv, SInv', DiskMatches, NEW name, NEW bytes \in Int, NEW whole,
           Put(name, bytes, whole)
    PROVE  DiskMatches'
<1> DEFINE D == DOMAIN files
<1>1. /\ \A n : n \in DOMAIN files' <=> n \in D \cup {name}
      /\ Sizes'[name] = bytes
      /\ \A n \in D : n # name => Sizes'[n] = Sizes[n]
      BY DEF Put, Sizes
<1>2. disk_bytes' = disk_bytes - SizeOf(name) + bytes
      BY DEF Put
<1>3. SumFunctionOnSet(Sizes', DOMAIN files') = SumFunctionOnSet(Sizes', D \cup {name})
      BY <1>1, SumOfSame
<1>4. IsFiniteSet(D) /\ disk_bytes = SumFunctionOnSet(Sizes, D) /\ disk_bytes \in Int
      BY DEF SInv, DirectoryOK, DiskMatches, TypeOK
<1>5. \A n \in D \cup {name} : Sizes'[n] \in Int
      <2>1. \A n \in DOMAIN files' : Sizes'[n] \in Int
            BY DlqAssumption DEF SInv, TypeOK, Sizes
      <2> QED  BY <1>1, <2>1
<1>6. \A n \in D : Sizes[n] \in Int
      BY SizesAreInts
<1>7. name \in D => SizeOf(name) = Sizes[name]
      BY DEF SizeOf, Sizes
<1>8. name \notin D => SizeOf(name) = 0
      BY DEF SizeOf
<1> HIDE DEF D
<1>9. CASE name \in D
      <2>1. SumFunctionOnSet(Sizes', D) = SumFunctionOnSet(Sizes, D) - Sizes[name] + bytes
            BY <1>1, <1>4, <1>5, <1>6, <1>9, SumChanges
      <2>2. SumFunctionOnSet(Sizes', D \cup {name}) = SumFunctionOnSet(Sizes', D)
            BY <1>9, SumOfSame
      <2> QED  BY <1>2, <1>3, <1>4, <1>7, <1>9, <2>1, <2>2 DEF DiskMatches
<1>10. CASE name \notin D
      <2>1. SumFunctionOnSet(Sizes', D) = SumFunctionOnSet(Sizes, D)
            BY <1>1, <1>4, <1>10, SumAgrees
      <2>2. SumFunctionOnSet(Sizes', D \cup {name}) = bytes + SumFunctionOnSet(Sizes', D)
            BY <1>1, <1>4, <1>5, <1>10, SumAdds
      <2> QED  BY <1>2, <1>3, <1>4, <1>8, <1>10, <2>1, <2>2 DEF DiskMatches
<1> QED  BY <1>9, <1>10

\* A caller's step changes what is in flight by what it changes of its own.
LEMMA FlightChanges ==
    ASSUME TypeOK, TypeOK', NEW c \in Caller,
           \A d \in Caller : d # c => pc'[d] = pc[d] /\ payload'[d] = payload[d]
    PROVE  /\ SumFunctionOnSet(InFlight, Caller) \in Int
           /\ SumFunctionOnSet(InFlight', Caller) =
                SumFunctionOnSet(InFlight, Caller) - InFlight[c] + InFlight'[c]
<1>1. \A d \in Caller : InFlight[d] \in Int
      BY InFlightIsInt
<1>2. \A d \in Caller : InFlight'[d] \in Int
      BY DlqAssumption DEF TypeOK, InFlight
<1>3. \A d \in Caller \ {c} : InFlight'[d] = InFlight[d]
      BY DEF InFlight
<1>4. IsFiniteSet(Caller)
      BY DlqAssumption
<1> HIDE DEF InFlight
<1> QED  BY <1>1, <1>2, <1>3, <1>4, SumIsInt, SumChanges

LEMMA SpoolCovers ==
    ASSUME SInv, SInv', DiskMatches, NothingMissed, NEW c \in Caller, Spool(c)
    PROVE  (DiskMatches /\ NothingMissed)'
<1> DEFINE Flying == SumFunctionOnSet(InFlight, Caller)
           before == IF pc[c] = "writing" THEN payload[c] - 1
                     ELSE IF pc[c] = "written" THEN payload[c] ELSE 0
           after == IF pc'[c] = "writing" THEN payload'[c] - 1
                    ELSE IF pc'[c] = "written" THEN payload'[c] ELSE 0
<1>1. \A d \in Caller : d # c => pc'[d] = pc[d] /\ payload'[d] = payload[d]
      BY DEF Spool, Load, Refuse, Admit, TakeNumber, TakeName, BeginWrite, EndWrite,
             WriteFails, CreateFails, Count, CountSpooled, Return, Goto, SInv, TypeOK
<1>2. Flying \in Int /\ Flying' = Flying - InFlight[c] + InFlight'[c]
      BY <1>1, FlightChanges DEF SInv
<1>3. InFlight[c] = before /\ InFlight'[c] = after
      BY DEF InFlight
<1>4. /\ disk_bytes \in Int /\ current_bytes \in Int /\ uncounted \in Int
      /\ payload[c] \in Int /\ payload \in [Caller -> 0 .. MaxPayload]
      /\ pc \in [Caller -> Steps]
      BY DlqAssumption DEF SInv, TypeOK
<1>5. disk_bytes <= current_bytes + uncounted + Flying
      BY DEF NothingMissed
<1> HIDE DEF Flying
<1>6. CASE BeginWrite(c)
      <2>1. Put(file[c], payload[c] - 1, FALSE)
            BY <1>6 DEF BeginWrite
      <2>2. DiskMatches'
            <3>1. payload[c] - 1 \in Int
                  BY <1>4
            <3> QED  BY <2>1, <3>1, PutMatches
      <2>3. SizeOf(file[c]) \in Nat
            BY DlqAssumption DEF SizeOf, SInv, TypeOK
      <2>4. /\ disk_bytes' = disk_bytes - SizeOf(file[c]) + payload[c] - 1
            /\ current_bytes' = current_bytes /\ uncounted' = uncounted
            /\ before = 0 /\ after = payload[c] - 1
            BY <1>4, <1>6 DEF BeginWrite, Put, Goto, atomics, history
      <2>5. disk_bytes' <= current_bytes' + uncounted' + Flying'
            BY <1>2, <1>3, <1>4, <1>5, <2>3, <2>4
      <2> QED  BY <2>2, <2>5 DEF NothingMissed, Flying
<1>7. CASE EndWrite(c)
      <2>1. Put(file[c], payload[c], TRUE)
            BY <1>7 DEF EndWrite
      <2>2. DiskMatches'
            BY <1>4, <2>1, PutMatches
      <2>3. SizeOf(file[c]) = payload[c] - 1
            BY <1>7 DEF SizeOf, SInv, ProgressOnDisk, Progress, EndWrite, Goto
      <2>4. /\ disk_bytes' = disk_bytes - SizeOf(file[c]) + payload[c]
            /\ current_bytes' = current_bytes /\ uncounted' = uncounted
            /\ before = payload[c] - 1 /\ after = payload[c]
            BY <1>4, <1>7 DEF EndWrite, Put, Goto, atomics, history
      <2>5. disk_bytes' <= current_bytes' + uncounted' + Flying'
            BY <1>2, <1>3, <1>4, <1>5, <2>3, <2>4
      <2> QED  BY <2>2, <2>5 DEF NothingMissed, Flying
<1>8. CASE Load(c) \/ Refuse(c) \/ Admit(c) \/ TakeNumber(c) \/ TakeName(c)
           \/ WriteFails(c) \/ CreateFails(c) \/ Count(c) \/ CountSpooled(c)
      <2>1. disk_bytes' = disk_bytes /\ files' = files
            BY <1>8 DEF Load, Refuse, Admit, TakeNumber, TakeName, WriteFails, CreateFails,
                        Count, CountSpooled, disk
      <2>2. DiskMatches'
            BY <2>1 DEF DiskMatches, Sizes
      <2>3. pc[c] = "writing" => SizeOf(file[c]) = payload[c] - 1
            BY DEF SizeOf, SInv, ProgressOnDisk, Progress
      <2>4. /\ after = 0
            /\ \/ /\ pc[c] \notin {"writing", "written"}
                  /\ current_bytes' = current_bytes /\ uncounted' = uncounted
               \/ /\ pc[c] = "writing"
                  /\ current_bytes' = current_bytes
                  /\ uncounted' = uncounted + SizeOf(file[c])
               \/ /\ pc[c] = "written"
                  /\ current_bytes' = current_bytes + payload[c]
                  /\ uncounted' = uncounted
            BY <1>4, <1>8 DEF Load, Refuse, Admit, TakeNumber, TakeName, WriteFails,
                  CreateFails, Count, CountSpooled, Counted, Return, Goto, atomics, history
      <2>5. disk_bytes' <= current_bytes' + uncounted' + Flying'
            BY <1>2, <1>3, <1>4, <1>5, <2>1, <2>3, <2>4
      <2> QED  BY <2>2, <2>5 DEF NothingMissed, Flying
<1> QED  BY <1>6, <1>7, <1>8 DEF Spool

CInv == SInv /\ DiskMatches /\ NothingMissed

\* Nobody in the queue has bytes in flight.
LEMMA IdleHasNoFlight == pc = Idle => SumFunctionOnSet(InFlight, Caller) = 0
<1> SUFFICES ASSUME pc = Idle PROVE SumFunctionOnSet(InFlight, Caller) = 0
    OBVIOUS
<1>1. \A c \in Caller : InFlight[c] = 0
      BY DEF Idle, InFlight
<1> HIDE DEF InFlight
<1> QED  BY <1>1, DlqAssumption, SumIsZero

LEMMA InitCovers == Init => CInv
<1> SUFFICES ASSUME Init PROVE CInv
    OBVIOUS
<1>1. SInv
      BY InitSpooled
<1>2. SumFunctionOnSet(Sizes, DOMAIN files) = 0
      <2>1. \A n : n \in DOMAIN files <=> n \in {}
            BY DEF Init
      <2> QED  BY <2>1, SumOfSame, SumEmpty
<1>3. SumFunctionOnSet(InFlight, Caller) = 0
      BY IdleHasNoFlight DEF Init
<1> QED  BY <1>1, <1>2, <1>3 DEF CInv, DiskMatches, NothingMissed, Init

LEMMA StepCovers == CInv /\ SInv' /\ [Next]_vars => CInv'
<1> SUFFICES ASSUME CInv, SInv', [Next]_vars PROVE CInv'
    OBVIOUS
<1>1. ASSUME NEW c \in Caller, Spool(c) PROVE CInv'
      BY <1>1, SpoolCovers DEF CInv
<1>2. CASE Restart
      <2>1. /\ files' = files /\ disk_bytes' = disk_bytes /\ pc' = Idle'
            /\ current_bytes' + uncounted' = disk_bytes
            /\ disk_bytes \in Int
            BY <1>2 DEF Restart, disk, Idle, CInv, SInv, TypeOK
      <2>2. DiskMatches'
            BY <2>1 DEF CInv, DiskMatches, Sizes
      <2>3. SumFunctionOnSet(InFlight', Caller) = 0
            <3>1. \A c \in Caller : InFlight'[c] = 0
                  BY <2>1 DEF Idle, InFlight
            <3> HIDE DEF InFlight
            <3> QED  BY <3>1, DlqAssumption, SumIsZero
      <2> QED  BY <2>1, <2>2, <2>3 DEF CInv, NothingMissed
<1>3. CASE Tick \/ UNCHANGED vars
      <2>1. UNCHANGED <<callers, atomics, disk, history>>
            BY <1>3 DEF Tick, vars
      <2>2. DiskMatches'
            BY <2>1 DEF CInv, DiskMatches, Sizes, disk
      <2>3. InFlight' = InFlight
            BY <2>1 DEF InFlight, callers
      <2>4. NothingMissed'
            BY <2>1, <2>3 DEF CInv, NothingMissed, atomics, disk, history
      <2> QED  BY <2>2, <2>4 DEF CInv
<1> QED  BY <1>1, <1>2, <1>3 DEF Next

LEMMA CoverInvariance == Spec => []CInv
  BY InitCovers, StepCovers, SpooledInvariance, PTL DEF Spec

LEMMA IdleIsCovered == CInv => CounterCoversDisk
<1> SUFFICES ASSUME CInv PROVE CounterCoversDisk
    OBVIOUS
<1>1. disk_bytes = DirectorySize
      BY DirectorySum DEF CInv, DiskMatches
<1>2. ASSUME pc = Idle PROVE disk_bytes <= current_bytes + uncounted
      BY <1>2, IdleHasNoFlight DEF CInv, NothingMissed, SInv, TypeOK
<1> QED  BY <1>1, <1>2 DEF CounterCoversDisk

\* The directory is as large as the model's count of it says, and between
\* calls the counter of the queue misses none of its bytes but those that
\* failed writes left behind and those of a directory that new could not read.
THEOREM CounterMissesNothing == Spec => []CounterCoversDisk
  BY CoverInvariance, IdleIsCovered, PTL

=============================================================================
