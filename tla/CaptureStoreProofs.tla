------------------------- MODULE CaptureStoreProofs -------------------------
(* Proofs about CaptureStore, for any number of savers and downloads, any   *)
(* index size and any number of captures and runs.                          *)
EXTENDS CaptureStore, TLAPS

\* Numbers of this run that are in use were given out before the next one.
NumbersGivenOut ==
    /\ \A w \in Busy : worker[w].id \in Id /\ worker[w].id < pcap_seq
    /\ \A k \in 1 .. Len(captures) : captures[k].id < pcap_seq

\* Only files that were written are measured.
UnmeasuredGivenOut == \A i \in unmeasured : i < pcap_seq

\* A worker that is done writing has left a whole file, and what it measured
\* is the size of that file, or 0 if metadata() failed.
FileOf(w) ==
    /\ worker[w].at \in {"written", "measured"} => disk[worker[w].id] = Saved
    /\ worker[w].at \in {"named", "writing", "written"} => worker[w].id \notin unmeasured
    /\ worker[w].at = "measured" => worker[w].size = Measured(worker[w].id)

WorkersFiles == \A w \in Worker : FileOf(w)

\* A capture that was looked up is whole or evicted, and nobody works on it.
LookedUp ==
    \A r \in Reader : reader[r].at = "reading" =>
        /\ reader[r].id \in Id
        /\ reader[r].id < pcap_seq
        /\ reader[r].id \notin InFlight
        /\ disk[reader[r].id] \in {Absent, Saved}

\* No file is of a later run.
NoFutureFiles == \A i \in Id : disk[i].run <= run

Numbers == NumbersGivenOut /\ UnmeasuredGivenOut /\ NoFutureFiles

Files == IndexedFilesComplete /\ WorkersFiles /\ FilesAreAccountedFor

Downloads == DownloadsAreWhole /\ LookedUp

IInv == TypeOK /\ Numbers /\ IdsAreUnique /\ Files /\ Downloads

-----------------------------------------------------------------------------

\* Nothing is on disk, in the index or under way.
LEMMA InitEstablishes == Init => IInv
<1> SUFFICES ASSUME Init PROVE IInv
    OBVIOUS
<1> USE StoreAssumption DEF Init, IdleWorker, IdleReader, Absent
<1>1. TypeOK
      <2>1. run \in 1 .. MaxRuns /\ pcap_seq \in 1 .. MaxIds + 1
            OBVIOUS
      <2>2. captures \in Seq([id : Id, size : Size]) /\ Len(captures) <= MaxRecords
            OBVIOUS
      <2>3. disk \in [Id -> File]
            BY DEF File
      <2>4. worker \in [Worker -> WorkerRecord]
            BY DEF WorkerRecord, Size
      <2>5. reader \in [Reader -> ReaderRecord]
            BY DEF ReaderRecord, File
      <2> QED  BY <2>1, <2>2, <2>3, <2>4, <2>5 DEF TypeOK
<1>2. Busy = {} /\ InFlight = {}
      BY DEF Busy, InFlight
<1>3. Len(captures) = 0 /\ Indexed = {}
      BY DEF Indexed
<1>4. Numbers
      BY <1>2, <1>3 DEF Numbers, NumbersGivenOut, UnmeasuredGivenOut, NoFutureFiles
<1>5. IdsAreUnique
      BY <1>2, <1>3 DEF IdsAreUnique
<1>6. Files
      BY <1>2, <1>3 DEF Files, IndexedFilesComplete, WorkersFiles, FileOf, FilesAreAccountedFor
<1>7. Downloads
      BY DEF Downloads, DownloadsAreWhole, LookedUp, Saved
<1> QED  BY <1>1, <1>4, <1>5, <1>6, <1>7 DEF IInv

\* An element of a sequence over S is in S.
LEMMA ElementOfSeq ==
    ASSUME NEW S, NEW s \in Seq(S)
    PROVE  Len(s) \in Nat /\ \A k \in 1 .. Len(s) : s[k] \in S
OBVIOUS

\* The types in the form the proofs use them.
LEMMA Typed ==
    ASSUME TypeOK
    PROVE  /\ MaxIds \in Nat /\ pcap_seq \in Nat /\ run \in Nat /\ run # 0
           /\ Id \subseteq Nat
           /\ Len(captures) \in Nat
           /\ \A k \in 1 .. Len(captures) :
                 captures[k] \in [id : Id, size : Size] /\ captures[k].id \in Nat
           /\ \A w \in Worker : worker[w] \in WorkerRecord /\ worker[w].id \in Nat
           /\ \A r \in Reader : reader[r] \in ReaderRecord /\ reader[r].id \in Nat
           /\ \A i \in Id : disk[i] \in File /\ disk[i].run \in Nat
<1>1. MaxIds \in Nat /\ pcap_seq \in Nat /\ run \in Nat /\ run # 0 /\ Id \subseteq Nat
      BY StoreAssumption DEF TypeOK, Id
<1>2. Len(captures) \in Nat /\ \A k \in 1 .. Len(captures) : captures[k] \in [id : Id, size : Size]
      <2>1. captures \in Seq([id : Id, size : Size])
            BY DEF TypeOK
      <2> QED  BY <2>1, ElementOfSeq
<1>3. \A k \in 1 .. Len(captures) : captures[k].id \in Nat
      BY <1>1, <1>2
<1>4. \A w \in Worker : worker[w] \in WorkerRecord /\ worker[w].id \in Nat
      BY StoreAssumption DEF TypeOK, WorkerRecord
<1>5. \A r \in Reader : reader[r] \in ReaderRecord /\ reader[r].id \in Nat
      BY StoreAssumption DEF TypeOK, ReaderRecord
<1>6. \A i \in Id : disk[i] \in File /\ disk[i].run \in Nat
      <2>1. \A i \in Id : disk[i] \in File
            BY DEF TypeOK
      <2> QED  BY <2>1, StoreAssumption DEF File
<1> QED  BY <1>1, <1>2, <1>3, <1>4, <1>5, <1>6

\* A worker that goes on keeps its number.
LEMMA StillBusy ==
    ASSUME TypeOK, NEW w \in Busy, NEW at, NEW size, at # "idle",
           worker' = Moved(w, at, size)
    PROVE  /\ worker'[w] = [at |-> at, id |-> worker[w].id, size |-> size]
           /\ \A v \in Worker \ {w} : worker'[v] = worker[v]
           /\ \A v \in Worker : worker'[v].id = worker[v].id
           /\ Busy' = Busy
           /\ InFlight' = InFlight
<1>1. /\ w \in Worker
      /\ worker'[w] = [at |-> at, id |-> worker[w].id, size |-> size]
      /\ \A v \in Worker \ {w} : worker'[v] = worker[v]
      BY DEF TypeOK, Moved, Busy
<1>2. \A v \in Worker : worker'[v].id = worker[v].id
      BY <1>1
<1>3. Busy' = Busy
      BY <1>1 DEF Busy
<1>4. InFlight' = InFlight
      BY <1>2, <1>3 DEF InFlight, Busy
<1> QED  BY <1>1, <1>2, <1>3, <1>4

\* A worker that returns gives up its number, which no other worker has.
LEMMA NoLongerBusy ==
    ASSUME TypeOK, IdsAreUnique, NEW w \in Busy,
           worker' = [worker EXCEPT ![w] = IdleWorker]
    PROVE  /\ worker'[w] = IdleWorker
           /\ \A v \in Worker \ {w} : worker'[v] = worker[v]
           /\ Busy' = Busy \ {w}
           /\ InFlight' = InFlight \ {worker[w].id}
<1>1. /\ w \in Worker
      /\ worker'[w] = IdleWorker
      /\ \A v \in Worker \ {w} : worker'[v] = worker[v]
      BY DEF TypeOK, Busy
<1>2. Busy' = Busy \ {w}
      BY <1>1 DEF Busy, IdleWorker
<1>3. \A v \in Busy \ {w} : worker'[v] = worker[v] /\ worker[v].id # worker[w].id
      BY <1>1 DEF Busy, IdsAreUnique
<1>4. InFlight' = InFlight \ {worker[w].id}
      BY <1>2, <1>3 DEF InFlight
<1> QED  BY <1>1, <1>2, <1>4

\* A worker takes the next number: nothing has it yet.
LEMMA TakeIdPreserves == ASSUME NEW w \in Worker PROVE IInv /\ TakeId(w) => IInv'
<1> SUFFICES ASSUME IInv, TakeId(w) PROVE IInv'
    OBVIOUS
<1>0. /\ pcap_seq \in Nat /\ pcap_seq \in Id /\ MaxIds \in Nat /\ pcap_seq + 1 \in 1 .. MaxIds + 1
      /\ worker \in [Worker -> WorkerRecord]
      BY StoreAssumption DEF IInv, TypeOK, TakeId, Id
<1>1. worker' = [worker EXCEPT ![w] = [at |-> "named", id |-> pcap_seq, size |-> "none"]]
      BY DEF TakeId
<1>2. /\ worker' \in [Worker -> WorkerRecord]
      BY <1>0, <1>1 DEF Id, Size, WorkerRecord
<1>3. TypeOK'
      BY <1>0, <1>2 DEF IInv, TypeOK, TakeId, NextSeq
<1>4. /\ Busy' = Busy \cup {w}
      /\ w \notin Busy
      /\ \A v \in Busy : worker'[v] = worker[v]
      /\ worker'[w].id = pcap_seq
      BY <1>0, <1>1 DEF Busy, TakeId
<1>5. InFlight' = InFlight \cup {pcap_seq}
      BY <1>4 DEF InFlight
<1>6. /\ Indexed' = Indexed
      /\ pcap_seq \notin Indexed
      /\ \A v \in Busy : worker[v].id # pcap_seq
      BY <1>0 DEF TakeId, Indexed, IInv, TypeOK, Numbers, NumbersGivenOut
<1>7. Numbers'
      <2>1. NumbersGivenOut'
            <3>1. pcap_seq' = pcap_seq + 1 /\ captures' = captures
                  BY DEF TakeId, NextSeq
            <3>2. ASSUME NEW v \in Busy' PROVE worker'[v].id \in Id /\ worker'[v].id < pcap_seq'
                  BY <1>0, <1>4, <3>1 DEF IInv, Numbers, NumbersGivenOut, Id
            <3>3. ASSUME NEW k \in 1 .. Len(captures) PROVE captures[k].id < pcap_seq'
                  <4>1. captures[k].id \in Nat /\ captures[k].id < pcap_seq
                        BY Typed DEF IInv, Numbers, NumbersGivenOut
                  <4> QED  BY <4>1, <3>1, <1>0
            <3> QED  BY <3>1, <3>2, <3>3 DEF NumbersGivenOut
      <2>2. NoFutureFiles'
            BY DEF IInv, Numbers, NoFutureFiles, TakeId
      <2>3. UnmeasuredGivenOut'
            <3>1. ASSUME NEW i \in unmeasured PROVE i < pcap_seq + 1
                  <4>1. i \in Nat /\ i < pcap_seq
                        BY Typed DEF IInv, TypeOK, Numbers, UnmeasuredGivenOut
                  <4> QED  BY <4>1, <1>0
            <3> QED  BY <3>1 DEF UnmeasuredGivenOut, TakeId, NextSeq
      <2> QED  BY <2>1, <2>2, <2>3 DEF Numbers
<1>8. IdsAreUnique'
      BY <1>4, <1>5, <1>6 DEF IInv, IdsAreUnique, TakeId
<1>9. Files'
      <2>1. IndexedFilesComplete'
            BY DEF IInv, Files, IndexedFilesComplete, TakeId, Saved, Measured
      <2>2. WorkersFiles'
            <3>1. pcap_seq \notin unmeasured
                  BY <1>0 DEF IInv, Numbers, UnmeasuredGivenOut
            <3>2. worker'[w] = [at |-> "named", id |-> pcap_seq, size |-> "none"]
                  /\ \A v \in Worker \ {w} : worker'[v] = worker[v]
                  BY <1>0, <1>1
            <3>3. UNCHANGED <<disk, run, unmeasured>>
                  BY DEF TakeId
            <3> QED  BY <3>1, <3>2, <3>3 DEF IInv, Files, WorkersFiles, FileOf, Saved, Measured
      <2>3. FilesAreAccountedFor'
            BY <1>5, <1>6 DEF IInv, Files, FilesAreAccountedFor, TakeId
      <2> QED  BY <2>1, <2>2, <2>3 DEF Files
<1>10. Downloads'
      BY <1>0, <1>5 DEF IInv, Downloads, DownloadsAreWhole, LookedUp, TakeId, NextSeq, Saved, Id
<1> QED  BY <1>3, <1>7, <1>8, <1>9, <1>10 DEF IInv

\* Truncating and writing a file: it is under the worker's own number, which
\* no record and no download has.
LEMMA WriteStepPreserves ==
    ASSUME NEW w \in Worker, NEW at, NEW state, IInv, worker[w].at \in {"named", "writing"},
           <<at, state>> \in {<<"writing", "partial">>, <<"written", "complete">>},
           worker' = Moved(w, at, "none"),
           disk' = Overwritten(worker[w].id, state),
           ring_owner' \in Worker \cup {NoOne},
           UNCHANGED <<run, pcap_seq, captures, reader, failed, unremoved, unmeasured>>
    PROVE  IInv'
<1> DEFINE id == worker[w].id
<1>1. w \in Busy /\ TypeOK /\ IdsAreUnique
      BY DEF Busy, IInv
<1>2. id \in Id /\ id < pcap_seq /\ id \in InFlight /\ id \notin Indexed
      BY <1>1 DEF IInv, Numbers, NumbersGivenOut, InFlight, IdsAreUnique
<1>3. at \in {"writing", "written"} /\ state \in {"partial", "complete"}
      /\ (at = "written" => state = "complete")
      OBVIOUS
<1>4. /\ worker'[w] = [at |-> at, id |-> id, size |-> "none"]
      /\ \A v \in Worker \ {w} : worker'[v] = worker[v]
      /\ \A v \in Worker : worker'[v].id = worker[v].id
      /\ Busy' = Busy /\ InFlight' = InFlight
      BY <1>1, <1>3, StillBusy
<1>5. /\ disk'[id] = [run |-> run, state |-> state]
      /\ \A i \in Id \ {id} : disk'[i] = disk[i]
      /\ Saved' = Saved /\ Indexed' = Indexed
      BY <1>1, <1>2 DEF Overwritten, TypeOK, Saved, Indexed
<1>6. TypeOK'
      <2>1. worker' \in [Worker -> WorkerRecord]
            BY <1>1, <1>3, Typed DEF TypeOK, Moved, WorkerRecord, Size
      <2>2. disk' \in [Id -> File]
            <3>1. [run |-> run, state |-> state] \in File
                  BY <1>1, <1>3, StoreAssumption DEF TypeOK, File
            <3> QED  BY <1>1, <3>1 DEF TypeOK, Overwritten
      <2>3. run' \in 1 .. MaxRuns /\ pcap_seq' \in 1 .. MaxIds + 1
            BY <1>1 DEF TypeOK
      <2>4. captures' \in Seq([id : Id, size : Size]) /\ Len(captures') <= MaxRecords
            BY <1>1 DEF TypeOK
      <2>5. reader' \in [Reader -> ReaderRecord]
            BY <1>1 DEF TypeOK
      <2>6. failed' \subseteq Id /\ unremoved' \subseteq Id /\ unmeasured' \subseteq Id
            BY <1>1 DEF TypeOK
      <2> QED  BY <2>1, <2>2, <2>3, <2>4, <2>5, <2>6 DEF TypeOK
<1>7. Numbers'
      <2>1. NumbersGivenOut'
            BY <1>4 DEF IInv, Numbers, NumbersGivenOut, Busy
      <2>2. NoFutureFiles'
            BY <1>5, <1>1, Typed DEF IInv, Numbers, NoFutureFiles
      <2>3. UnmeasuredGivenOut'
            BY DEF IInv, Numbers, UnmeasuredGivenOut
      <2> QED  BY <2>1, <2>2, <2>3 DEF Numbers
<1>8. IdsAreUnique'
      BY <1>1, <1>4, <1>5 DEF IdsAreUnique, Busy
<1>9. Files'
      <2>1. IndexedFilesComplete'
            <3> SUFFICES ASSUME NEW k \in 1 .. Len(captures)
                         PROVE  disk'[captures[k].id] = Saved
                                /\ captures[k].size = Measured(captures[k].id)
                BY <1>5 DEF IndexedFilesComplete, Measured
            <3>1. captures[k].id \in Id \ {id}
                  BY <1>1, <1>2, Typed DEF Indexed
            <3> QED  BY <1>5, <3>1 DEF IInv, Files, IndexedFilesComplete
      <2>2. WorkersFiles'
            <3> SUFFICES ASSUME NEW v \in Worker PROVE FileOf(v)'
                BY <1>5 DEF WorkersFiles
            <3>0. id \notin unmeasured
                  BY DEF IInv, Files, WorkersFiles, FileOf
            <3>1. CASE v = w
                  BY <1>3, <1>4, <1>5, <3>0, <3>1 DEF Saved, FileOf
            <3>2. CASE v # w /\ worker[v].at # "idle"
                  <4>1. worker[v].id \in Id \ {id} /\ worker'[v] = worker[v]
                        BY <1>1, <1>4, <3>2 DEF Busy, IdsAreUnique, IInv, Numbers, NumbersGivenOut
                  <4> QED  BY <1>5, <4>1 DEF IInv, Files, WorkersFiles, FileOf, Measured
            <3>3. CASE v # w /\ worker[v].at = "idle"
                  BY <1>4, <3>3 DEF FileOf
            <3> QED  BY <3>1, <3>2, <3>3
      <2>3. FilesAreAccountedFor'
            BY <1>2, <1>4, <1>5 DEF IInv, Files, FilesAreAccountedFor
      <2> QED  BY <2>1, <2>2, <2>3 DEF Files
<1>10. Downloads'
      <2>1. DownloadsAreWhole'
            BY <1>5 DEF IInv, Downloads, DownloadsAreWhole
      <2>2. LookedUp'
            BY <1>2, <1>4, <1>5 DEF IInv, Downloads, LookedUp
      <2> QED  BY <2>1, <2>2 DEF Downloads
<1> QED  BY <1>6, <1>7, <1>8, <1>9, <1>10 DEF IInv

\* The size is measured of a file that is whole, or taken for 0.
LEMMA MeasurePreserves ==
    ASSUME NEW w \in Worker, IInv, Measure(w) \/ MeasureFails(w)
    PROVE  IInv'
<1> DEFINE id == worker[w].id
<1>1. w \in Busy /\ TypeOK /\ IdsAreUnique /\ worker[w].at = "written"
      BY DEF Busy, IInv, Measure, MeasureFails
<1>2. /\ disk[id] = Saved /\ id \notin unmeasured
      /\ id \in Id /\ id < pcap_seq /\ id \in InFlight /\ id \notin Indexed
      BY <1>1 DEF IInv, Files, WorkersFiles, FileOf, Numbers, NumbersGivenOut, InFlight, IdsAreUnique
<1>3. PICK size \in Size :
          /\ worker' = Moved(w, "measured", size)
          /\ unmeasured' \in {unmeasured, unmeasured \cup {id}}
          /\ size = IF id \in unmeasured' THEN "zero" ELSE "complete"
      <2>1. CASE Measure(w)
            <3>1. SizeOf(disk[id]) = "complete"
                  BY <1>2 DEF SizeOf, Saved, Absent
            <3> QED  BY <1>2, <2>1, <3>1 DEF Measure, Size
      <2>2. CASE MeasureFails(w)
            BY <2>2 DEF MeasureFails, Size
      <2> QED  BY <2>1, <2>2
<1>4. \A i : i # id => (i \in unmeasured' <=> i \in unmeasured)
      BY <1>3
<1>5. /\ worker'[w] = [at |-> "measured", id |-> id, size |-> size]
      /\ \A v \in Worker \ {w} : worker'[v] = worker[v]
      /\ \A v \in Worker : worker'[v].id = worker[v].id
      /\ Busy' = Busy /\ InFlight' = InFlight
      BY <1>1, <1>3, StillBusy
<1>6. UNCHANGED <<run, pcap_seq, captures, disk, ring_owner, reader, failed, unremoved>>
      /\ Saved' = Saved /\ Indexed' = Indexed
      BY DEF Measure, MeasureFails, Saved, Indexed
<1>7. TypeOK'
      <2>1. worker' \in [Worker -> WorkerRecord]
            BY <1>1, <1>3, Typed DEF TypeOK, Moved, WorkerRecord
      <2>2. unmeasured' \subseteq Id
            BY <1>1, <1>2, <1>3 DEF TypeOK
      <2> QED  BY <1>1, <1>6, <2>1, <2>2 DEF TypeOK
<1>8. Numbers'
      <2>1. UnmeasuredGivenOut'
            BY <1>2, <1>3, <1>6 DEF IInv, Numbers, UnmeasuredGivenOut
      <2>2. NumbersGivenOut' /\ NoFutureFiles'
            BY <1>5, <1>6 DEF IInv, Numbers, NumbersGivenOut, NoFutureFiles, Busy
      <2> QED  BY <2>1, <2>2 DEF Numbers
<1>9. IdsAreUnique'
      BY <1>1, <1>5, <1>6 DEF IdsAreUnique, Busy
<1>10. Files'
      <2>1. IndexedFilesComplete'
            <3>1. ASSUME NEW k \in 1 .. Len(captures) PROVE captures[k].id # id
                  BY <1>2 DEF Indexed
            <3> QED  BY <1>4, <1>6, <3>1 DEF IInv, Files, IndexedFilesComplete, Measured
      <2>2. WorkersFiles'
            <3> SUFFICES ASSUME NEW v \in Worker PROVE FileOf(v)'
                BY DEF WorkersFiles
            <3>1. CASE v = w
                  BY <1>2, <1>3, <1>5, <1>6, <3>1 DEF FileOf, Measured
            <3>2. CASE v # w /\ v \in Busy
                  <4>1. worker[v].id # id /\ worker'[v] = worker[v]
                        BY <1>1, <1>5, <3>2 DEF IdsAreUnique
                  <4> QED  BY <1>4, <1>6, <4>1 DEF IInv, Files, WorkersFiles, FileOf, Measured
            <3>3. CASE v # w /\ v \notin Busy
                  BY <1>5, <3>3 DEF Busy, FileOf
            <3> QED  BY <3>1, <3>2, <3>3
      <2>3. FilesAreAccountedFor'
            BY <1>5, <1>6 DEF IInv, Files, FilesAreAccountedFor
      <2> QED  BY <2>1, <2>2, <2>3 DEF Files
<1>11. Downloads'
      BY <1>5, <1>6 DEF IInv, Downloads, DownloadsAreWhole, LookedUp
<1> QED  BY <1>7, <1>8, <1>9, <1>10, <1>11 DEF IInv

\* create_pcap_capture returns an error: what it leaves is accounted for as failed.
LEMMA FailurePreserves ==
    ASSUME NEW w \in Worker, IInv, CreateFails(w) \/ WriteFails(w)
    PROVE  IInv'
<1> DEFINE id == worker[w].id
<1>1. w \in Busy /\ TypeOK /\ IdsAreUnique
      BY DEF Busy, IInv, CreateFails, WriteFails
<1>2. id \in Id
      BY <1>1 DEF IInv, Numbers, NumbersGivenOut
<1>3. /\ worker' = [worker EXCEPT ![w] = IdleWorker]
      /\ failed' = failed \cup {id}
      /\ UNCHANGED <<run, pcap_seq, captures, disk, reader, unremoved, unmeasured>>
      /\ ring_owner' \in Worker \cup {NoOne}
      /\ Saved' = Saved /\ Indexed' = Indexed
      BY <1>1 DEF CreateFails, WriteFails, Saved, Indexed, TypeOK
<1>4. /\ worker'[w] = IdleWorker
      /\ \A v \in Worker \ {w} : worker'[v] = worker[v]
      /\ Busy' = Busy \ {w}
      /\ InFlight' = InFlight \ {id}
      BY <1>1, <1>3, NoLongerBusy
<1>5. TypeOK'
      <2>1. worker' \in [Worker -> WorkerRecord]
            BY <1>1, <1>3, Typed DEF TypeOK, IdleWorker, WorkerRecord, Size
      <2> QED  BY <1>1, <1>2, <1>3, <2>1 DEF TypeOK
<1>6. Numbers'
      BY <1>3, <1>4 DEF IInv, Numbers, NumbersGivenOut, UnmeasuredGivenOut, NoFutureFiles, Busy
<1>7. IdsAreUnique'
      BY <1>1, <1>3, <1>4 DEF IdsAreUnique, Busy
<1>8. Files'
      <2>1. IndexedFilesComplete'
            BY <1>3 DEF IInv, Files, IndexedFilesComplete, Measured
      <2>2. WorkersFiles'
            BY <1>3, <1>4 DEF IInv, Files, WorkersFiles, FileOf, IdleWorker, Measured
      <2>3. FilesAreAccountedFor'
            BY <1>3, <1>4 DEF IInv, Files, FilesAreAccountedFor
      <2> QED  BY <2>1, <2>2, <2>3 DEF Files
<1>9. Downloads'
      BY <1>3, <1>4 DEF IInv, Downloads, DownloadsAreWhole, LookedUp
<1> QED  BY <1>5, <1>6, <1>7, <1>8, <1>9 DEF IInv

\* What the index is after a record was dropped from its front, or not, and
\* one was appended.
LEMMA IndexShift ==
    ASSUME TypeOK, NEW w \in Worker, NEW d \in {0, 1}, d = IF IsFull THEN 1 ELSE 0,
           Record(w) \in [id : Id, size : Size],
           captures' = Append(Kept, Record(w))
    PROVE  /\ captures' \in Seq([id : Id, size : Size])
           /\ Len(captures') = Len(captures) - d + 1
           /\ Len(captures') <= MaxRecords
           /\ \A k \in 1 .. Len(captures) - d : captures'[k] = captures[k + d]
           /\ captures'[Len(captures')] = Record(w)
<1> DEFINE R == [id : Id, size : Size]
<1>1. captures \in Seq(R) /\ Len(captures) \in Nat /\ Len(captures) <= MaxRecords
      BY DEF TypeOK
<1> HIDE DEF R
<1>2. CASE IsFull
      <2>1. d = 1 /\ Kept = Tail(captures) /\ Len(captures) = MaxRecords /\ MaxRecords >= 1
            BY <1>1, <1>2, StoreAssumption DEF IsFull, Kept
      <2>2. captures # << >>
            BY <1>1, <2>1
      <2>3. Kept \in Seq(R) /\ Len(Kept) = Len(captures) - 1
            /\ \A k \in 1 .. Len(captures) - 1 : Kept[k] = captures[k + 1]
            BY <1>1, <2>1, <2>2
      <2> QED  BY <1>1, <2>1, <2>3 DEF R
<1>3. CASE ~IsFull
      <2>1. d = 0 /\ Kept = captures /\ Len(captures) < MaxRecords
            BY <1>1, <1>3, StoreAssumption DEF IsFull, Kept
      <2> QED  BY <1>1, <2>1, StoreAssumption DEF R
<1> QED  BY <1>2, <1>3

\* The oldest record and its file go together, and the new record is whole.
LEMMA IndexPreserves == ASSUME NEW w \in Worker PROVE IInv /\ Index(w) => IInv'
<1> SUFFICES ASSUME IInv, Index(w) PROVE IInv'
    OBVIOUS
<1> DEFINE id == worker[w].id
           d == IF IsFull THEN 1 ELSE 0
           n == Len(captures)
<1>1. w \in Busy /\ TypeOK /\ IdsAreUnique /\ worker[w].at = "measured"
      BY DEF Busy, IInv, Index
<1>2. /\ id \in Id /\ id < pcap_seq /\ id \in InFlight /\ id \notin Indexed
      /\ Record(w) = [id |-> id, size |-> Measured(id)] /\ disk[id] = Saved
      BY <1>1 DEF IInv, Numbers, NumbersGivenOut, InFlight, IdsAreUnique, Files, WorkersFiles, FileOf,
                  Record
<1>3. /\ UNCHANGED <<run, pcap_seq, ring_owner, reader, failed, unmeasured>>
      /\ worker' = [worker EXCEPT ![w] = IdleWorker]
      /\ captures' = Append(Kept, Record(w))
      /\ Saved' = Saved
      BY DEF Index, Saved
<1>4. PICK removed \in SUBSET Victims :
          /\ disk' = [i \in Id |-> IF i \in removed THEN Absent ELSE disk[i]]
          /\ unremoved' = unremoved \cup (Victims \ removed)
      BY DEF Index
<1>5. /\ worker'[w] = IdleWorker
      /\ \A v \in Worker \ {w} : worker'[v] = worker[v]
      /\ Busy' = Busy \ {w}
      /\ InFlight' = InFlight \ {id}
      BY <1>1, <1>3, NoLongerBusy
<1>6. /\ captures' \in Seq([id : Id, size : Size])
      /\ d \in {0, 1} /\ n \in Nat /\ Len(captures') = n - d + 1
      /\ Len(captures') <= MaxRecords
      /\ \A k \in 1 .. n - d : captures'[k] = captures[k + d]
      /\ captures'[Len(captures')] = Record(w)
      <2>1. Record(w) \in [id : Id, size : Size]
            BY <1>2 DEF Size, Measured
      <2> QED  BY <1>1, <1>3, <2>1, IndexShift, Typed
<1>7. /\ d = 1 => n >= 1 /\ Victims = {captures[1].id}
      /\ d = 0 => Victims = {}
      /\ Victims \subseteq Indexed
      <2>1. CASE IsFull
            <3>1. n >= 1 /\ Head(captures) = captures[1]
                  BY <1>6, <2>1, StoreAssumption DEF IsFull
            <3> QED  BY <1>6, <2>1, <3>1 DEF Victims, Indexed
      <2>2. CASE ~IsFull
            BY <2>2 DEF Victims
      <2> QED  BY <2>1, <2>2
<1>8. Indexed' = (Indexed \ Victims) \cup {id}
      <2>1. \A k \in 1 .. n - d : k + d \in 1 .. n /\ captures'[k].id = captures[k + d].id
            BY <1>6
      <2>2. \A k \in 1 .. n - d : captures[k + d].id \notin Victims
            <3>1. ASSUME NEW k \in 1 .. n - d, d = 1 PROVE captures[k + d].id # captures[1].id
                  <4>1. k + 1 \in 1 .. n /\ 1 \in 1 .. n /\ k + 1 # 1
                        BY <1>6, <1>7, <3>1
                  <4> QED  BY <1>1, <3>1, <4>1 DEF IdsAreUnique
            <3> QED  BY <1>6, <1>7, <3>1
      <2>3. \A j \in 1 .. n : captures[j].id \notin Victims => j - d \in 1 .. n - d /\ (j - d) + d = j
            BY <1>6, <1>7
      <2>4. 1 .. Len(captures') = (1 .. n - d) \cup {Len(captures')}
            BY <1>6, <1>7
      <2>5. captures'[Len(captures')].id = id
            BY <1>2, <1>6
      <2>6. \A i : i \in Indexed' => i \in (Indexed \ Victims) \cup {id}
            BY <2>1, <2>2, <2>4, <2>5 DEF Indexed
      <2>7. \A i : i \in (Indexed \ Victims) \cup {id} => i \in Indexed'
            <3>1. id \in Indexed'
                  BY <1>6, <2>4, <2>5 DEF Indexed
            <3>2. ASSUME NEW i \in Indexed \ Victims PROVE i \in Indexed'
                  <4>1. PICK j \in 1 .. n : captures[j].id = i
                        BY DEF Indexed
                  <4>2. j - d \in 1 .. n - d /\ (j - d) + d = j
                        BY <2>3, <3>2, <4>1
                  <4>3. captures'[j - d].id = i /\ j - d \in 1 .. Len(captures')
                        BY <2>1, <2>4, <4>1, <4>2
                  <4> QED  BY <4>3 DEF Indexed
            <3> QED  BY <3>1, <3>2
      <2> QED  BY <2>6, <2>7
<1>9. /\ \A i \in Id \ Victims : disk'[i] = disk[i]
      /\ \A i \in Victims : disk[i] = Saved /\ disk'[i] \in {Absent, Saved}
      /\ \A i \in Id : disk'[i] \in {Absent, disk[i]}
      /\ Victims \subseteq Id
      <2>1. \A i \in Indexed : i \in Id /\ disk[i] = Saved
            BY <1>1, Typed DEF Indexed, IInv, Files, IndexedFilesComplete
      <2> QED  BY <1>4, <1>7, <2>1
<1>10. TypeOK'
      <2>1. worker' \in [Worker -> WorkerRecord]
            BY <1>1, <1>3, Typed DEF TypeOK, IdleWorker, WorkerRecord, Size
      <2>2. disk' \in [Id -> File]
            <3>1. Absent \in File
                  BY StoreAssumption DEF Absent, File
            <3>2. \A i \in Id : disk[i] \in File
                  BY <1>1, Typed
            <3> QED  BY <1>4, <3>1, <3>2
      <2>3. unremoved' \subseteq Id
            BY <1>1, <1>4, <1>9 DEF TypeOK
      <2> QED  BY <1>1, <1>3, <1>6, <2>1, <2>2, <2>3 DEF TypeOK
<1>11. Numbers'
      <2>1. \A v \in Busy' : worker'[v].id \in Id /\ worker'[v].id < pcap_seq
            BY <1>5 DEF IInv, Numbers, NumbersGivenOut, Busy
      <2>2. \A i \in Indexed' : i < pcap_seq
            BY <1>2, <1>8 DEF IInv, Numbers, NumbersGivenOut, Indexed
      <2>3. NumbersGivenOut'
            BY <1>3, <2>1, <2>2 DEF NumbersGivenOut, Indexed
      <2>4. NoFutureFiles'
            BY <1>1, <1>3, <1>9, Typed DEF IInv, Numbers, NoFutureFiles, Absent
      <2>5. UnmeasuredGivenOut'
            BY <1>3 DEF IInv, Numbers, UnmeasuredGivenOut
      <2> QED  BY <2>3, <2>4, <2>5 DEF Numbers
<1>12. IdsAreUnique'
      <2>1. ASSUME NEW j \in 1 .. Len(captures'), NEW k \in 1 .. Len(captures'),
                   captures'[j].id = captures'[k].id
            PROVE  j = k
            <3>1. ASSUME NEW i \in 1 .. n - d PROVE captures'[i].id \in Indexed /\ captures'[i].id # id
                  BY <1>2, <1>6, <3>1 DEF Indexed
            <3>2. captures'[Len(captures')].id = id
                  BY <1>2, <1>6
            <3>3. CASE j \in 1 .. n - d /\ k \in 1 .. n - d
                  <4>1. j + d \in 1 .. n /\ k + d \in 1 .. n /\ captures[j + d].id = captures[k + d].id
                        <5>1. j + d \in 1 .. n /\ k + d \in 1 .. n
                              BY <1>6, <3>3
                        <5>2. captures'[j] = captures[j + d] /\ captures'[k] = captures[k + d]
                              BY <1>6, <3>3
                        <5> QED  BY <2>1, <5>1, <5>2
                  <4>2. j + d = k + d
                        BY <1>1, <4>1 DEF IdsAreUnique
                  <4> QED  BY <1>6, <4>2
            <3>4. CASE j = Len(captures') \/ k = Len(captures')
                  BY <1>6, <2>1, <3>1, <3>2, <3>4
            <3> QED  BY <1>6, <3>3, <3>4
      <2>2. Indexed' \cap InFlight' = {}
            BY <1>1, <1>5, <1>8 DEF IdsAreUnique
      <2>3. \A u, v \in Busy' : worker'[u].id = worker'[v].id => u = v
            BY <1>1, <1>5 DEF IdsAreUnique, Busy
      <2> QED  BY <2>1, <2>2, <2>3 DEF IdsAreUnique
<1>13. Files'
      <2>1. IndexedFilesComplete'
            <3> SUFFICES ASSUME NEW k \in 1 .. Len(captures')
                         PROVE  disk'[captures'[k].id] = Saved
                                /\ captures'[k].size = Measured(captures'[k].id)
                BY <1>3 DEF IndexedFilesComplete, Measured
            <3>1. captures'[k].id \in (Indexed \ Victims) \cup {id}
                  BY <1>8 DEF Indexed
            <3>2. disk'[captures'[k].id] = Saved
                  <4>1. \A i \in Indexed : i \in Id /\ disk[i] = Saved
                        BY <1>1, Typed DEF Indexed, IInv, Files, IndexedFilesComplete
                  <4>2. id \in Id \ Victims
                        BY <1>2, <1>7
                  <4> QED  BY <1>2, <1>9, <3>1, <4>1, <4>2
            <3>3. captures'[k].size = Measured(captures'[k].id)
                  <4>1. CASE k \in 1 .. n - d
                        <5>1. k + d \in 1 .. n /\ captures'[k] = captures[k + d]
                              BY <1>6, <4>1
                        <5> QED  BY <5>1 DEF IInv, Files, IndexedFilesComplete
                  <4>2. CASE k = Len(captures')
                        BY <1>2, <1>6, <4>2
                  <4> QED  BY <1>6, <4>1, <4>2
            <3> QED  BY <3>2, <3>3
      <2>2. WorkersFiles'
            <3> SUFFICES ASSUME NEW v \in Worker PROVE FileOf(v)'
                BY <1>3 DEF WorkersFiles
            <3>1. CASE v = w
                  BY <1>5, <3>1 DEF IdleWorker, FileOf
            <3>2. CASE v # w /\ v \in Busy
                  <4>1. worker'[v] = worker[v] /\ worker[v].id \in Id \ Victims
                        BY <1>1, <1>5, <1>7, <3>2 DEF IdsAreUnique, InFlight, IInv, Numbers, NumbersGivenOut
                  <4> QED  BY <1>3, <1>9, <4>1 DEF IInv, Files, WorkersFiles, FileOf, Measured
            <3>3. CASE v # w /\ v \notin Busy
                  BY <1>5, <3>3 DEF Busy, FileOf
            <3> QED  BY <3>1, <3>2, <3>3
      <2>3. FilesAreAccountedFor'
            <3> SUFFICES ASSUME NEW i \in Id, disk'[i] # Absent, disk'[i].run = run
                         PROVE  i \in Indexed' \cup InFlight' \cup failed \cup unremoved'
                BY <1>3 DEF FilesAreAccountedFor
            <3>1. CASE i \in Victims
                  BY <1>4, <3>1
            <3>2. CASE i \notin Victims
                  <4>1. i \in Indexed \cup InFlight \cup failed \cup unremoved
                        BY <1>9, <3>2 DEF IInv, Files, FilesAreAccountedFor
                  <4> QED  BY <1>4, <1>5, <1>8, <3>2, <4>1
            <3> QED  BY <3>1, <3>2
      <2> QED  BY <2>1, <2>2, <2>3 DEF Files
<1>14. Downloads'
      <2>1. DownloadsAreWhole'
            BY <1>3 DEF IInv, Downloads, DownloadsAreWhole
      <2>2. LookedUp'
            <3> SUFFICES ASSUME NEW r \in Reader, reader[r].at = "reading"
                         PROVE  /\ reader[r].id \in Id
                                /\ reader[r].id < pcap_seq
                                /\ reader[r].id \notin InFlight'
                                /\ disk'[reader[r].id] \in {Absent, Saved}
                BY <1>3 DEF LookedUp
            <3> QED  BY <1>5, <1>9 DEF IInv, Downloads, LookedUp
      <2> QED  BY <2>1, <2>2 DEF Downloads
<1> QED  BY <1>10, <1>11, <1>12, <1>13, <1>14 DEF IInv

\* Each step of create_pcap_capture preserves the invariant.
LEMMA SavePreserves == ASSUME NEW w \in Worker PROVE IInv /\ Save(w) => IInv'
<1> SUFFICES ASSUME IInv, Save(w) PROVE IInv'
    OBVIOUS
<1>1. CASE BeginFlush(w)
      <2>1. /\ worker[w].at \in {"named", "writing"}
            /\ worker' = Moved(w, "writing", "none")
            /\ disk' = Overwritten(worker[w].id, "partial")
            /\ ring_owner' \in Worker \cup {NoOne}
            /\ UNCHANGED <<run, pcap_seq, captures, reader, failed, unremoved, unmeasured>>
            BY <1>1 DEF BeginFlush
      <2> QED  BY <2>1, WriteStepPreserves
<1>2. CASE EndFlush(w)
      <2>1. /\ worker[w].at \in {"named", "writing"}
            /\ worker' = Moved(w, "written", "none")
            /\ disk' = Overwritten(worker[w].id, "complete")
            /\ ring_owner' \in Worker \cup {NoOne}
            /\ UNCHANGED <<run, pcap_seq, captures, reader, failed, unremoved, unmeasured>>
            BY <1>2 DEF EndFlush
      <2> QED  BY <2>1, WriteStepPreserves
<1> QED  BY <1>1, <1>2, TakeIdPreserves, MeasurePreserves, FailurePreserves, IndexPreserves
         DEF Save

\* The steps of a download preserve the invariant: what is looked up stays
\* whole or absent until it is read.
LEMMA ServePreserves == ASSUME NEW r \in Reader PROVE IInv /\ Serve(r) => IInv'
<1> SUFFICES ASSUME IInv, Serve(r) PROVE IInv'
    OBVIOUS
<1>1. /\ TypeOK /\ IdsAreUnique
      /\ UNCHANGED <<run, pcap_seq, captures, disk, ring_owner, worker, failed, unremoved, unmeasured>>
      BY DEF IInv, Serve, Lookup, Read, NextRequest
<1>2. Saved' = Saved /\ Indexed' = Indexed /\ Busy' = Busy /\ InFlight' = InFlight
      BY <1>1 DEF Saved, Indexed, Busy, InFlight
<1>3. Numbers' /\ IdsAreUnique'
      BY <1>1, <1>2 DEF IInv, Numbers, NumbersGivenOut, UnmeasuredGivenOut, NoFutureFiles, IdsAreUnique
<1>4. Files'
      BY <1>1, <1>2 DEF IInv, Files, IndexedFilesComplete, WorkersFiles, FileOf, Measured,
                        FilesAreAccountedFor
<1>5. reader' \in [Reader -> ReaderRecord] /\ Downloads' => IInv'
      <2> SUFFICES ASSUME reader' \in [Reader -> ReaderRecord], Downloads' PROVE IInv'
          OBVIOUS
      <2>1. TypeOK'
            BY <1>1 DEF TypeOK
      <2> QED  BY <1>3, <1>4, <2>1 DEF IInv
<1>6. ASSUME NEW rec \in ReaderRecord, reader' = [reader EXCEPT ![r] = rec],
             rec.got \in {Absent, Unreadable, Saved},
             rec.at = "reading" =>
                /\ rec.id \in Id /\ rec.id < pcap_seq /\ rec.id \notin InFlight
                /\ disk[rec.id] \in {Absent, Saved}
      PROVE  IInv'
      <2>1. reader' \in [Reader -> ReaderRecord]
            BY <1>1, <1>6 DEF TypeOK
      <2>2. reader'[r] = rec /\ \A q \in Reader \ {r} : reader'[q] = reader[q]
            BY <1>1, <1>6 DEF TypeOK
      <2>3. DownloadsAreWhole'
            BY <1>2, <1>6, <2>2 DEF IInv, Downloads, DownloadsAreWhole
      <2>4. LookedUp'
            BY <1>1, <1>2, <1>6, <2>2 DEF IInv, Downloads, LookedUp, Absent
      <2> QED  BY <1>5, <2>1, <2>3, <2>4 DEF Downloads
<1>7. Absent \in File
      BY StoreAssumption DEF Absent, File
<1>8. ASSUME NEW id \in Id, Lookup(r, id) PROVE IInv'
      <2> DEFINE rec == [at |-> "reading", id |-> id, got |-> Absent]
      <2>1. id \in 0 .. MaxIds
            BY <1>1, Typed DEF Id
      <2>2. rec \in ReaderRecord
            BY <1>7, <2>1 DEF ReaderRecord
      <2>3. id < pcap_seq /\ id \notin InFlight /\ disk[id] = Saved
            BY <1>8 DEF Lookup, Indexed, IInv, Numbers, NumbersGivenOut, IdsAreUnique, Files,
                        IndexedFilesComplete
      <2>4. reader' = [reader EXCEPT ![r] = rec]
            BY <1>8 DEF Lookup
      <2> HIDE DEF rec
      <2>5. rec.got = Absent /\ rec.id = id
            BY DEF rec
      <2> QED  BY <1>6, <2>2, <2>3, <2>4, <2>5
<1>9. CASE Read(r)
      <2>1. reader[r].id \in Id /\ disk[reader[r].id] \in {Absent, Saved}
            BY <1>9 DEF Read, IInv, Downloads, LookedUp
      <2>2. PICK answer \in {disk[reader[r].id], Unreadable} :
                reader' = [reader EXCEPT ![r] = [at |-> "answered", id |-> reader[r].id,
                                                 got |-> answer]]
            BY <1>9 DEF Read
      <2> DEFINE rec == [at |-> "answered", id |-> reader[r].id, got |-> answer]
      <2>3. rec \in ReaderRecord
            BY <1>1, <2>1, Typed DEF ReaderRecord
      <2>4. reader' = [reader EXCEPT ![r] = rec]
            BY <2>2
      <2> HIDE DEF rec
      <2>5. rec.got = answer /\ rec.at = "answered"
            BY DEF rec
      <2> QED  BY <1>6, <2>1, <2>3, <2>4, <2>5
<1>10. CASE NextRequest(r)
      <2>1. IdleReader \in ReaderRecord /\ IdleReader.got = Absent /\ IdleReader.at = "idle"
            BY <1>7, StoreAssumption DEF IdleReader, ReaderRecord
      <2> QED  BY <1>6, <1>10, <2>1 DEF NextRequest
<1> QED  BY <1>8, <1>9, <1>10 DEF Serve

\* A restart forgets what was under way; the files on disk are of older runs.
LEMMA RestartPreserves == IInv /\ Restart => IInv'
<1> SUFFICES ASSUME IInv, Restart PROVE IInv'
    OBVIOUS
<1>0. TypeOK
      BY DEF IInv
<1>1. /\ run' = run + 1 /\ run < MaxRuns /\ pcap_seq' = 1 /\ captures' = << >>
      /\ ring_owner' = NoOne /\ disk' = disk
      /\ failed' = {} /\ unremoved' = {} /\ unmeasured' = {}
      /\ worker' = [w \in Worker |-> IdleWorker]
      /\ reader' = [r \in Reader |-> IdleReader]
      BY DEF Restart
<1>2. /\ Len(captures') = 0
      /\ \A w \in Worker : worker'[w].at = "idle"
      /\ \A r \in Reader : reader'[r].at = "idle" /\ reader'[r].got = Absent
      BY <1>1 DEF IdleWorker, IdleReader
<1>3. Busy' = {} /\ InFlight' = {} /\ Indexed' = {}
      BY <1>2 DEF Busy, InFlight, Indexed
<1>4. TypeOK'
      <2>1. Absent \in File
            BY StoreAssumption DEF Absent, File
      <2>2. worker' \in [Worker -> WorkerRecord]
            BY <1>1, StoreAssumption DEF IdleWorker, WorkerRecord, Size
      <2>3. reader' \in [Reader -> ReaderRecord]
            BY <1>1, <2>1, StoreAssumption DEF IdleReader, ReaderRecord
      <2>4. run' \in 1 .. MaxRuns /\ pcap_seq' \in 1 .. MaxIds + 1
            BY <1>0, <1>1, StoreAssumption DEF TypeOK
      <2>5. captures' \in Seq([id : Id, size : Size]) /\ Len(captures') <= MaxRecords
            BY <1>1, <1>2, StoreAssumption
      <2> QED  BY <1>0, <1>1, <2>2, <2>3, <2>4, <2>5 DEF TypeOK
<1>5. \A i \in Id : disk'[i].run < run'
      BY <1>0, <1>1, Typed DEF IInv, Numbers, NoFutureFiles
<1>6. Numbers'
      <2>1. NumbersGivenOut'
            BY <1>2, <1>3 DEF NumbersGivenOut
      <2>2. NoFutureFiles'
            BY <1>0, <1>1, <1>5, Typed DEF NoFutureFiles
      <2>3. UnmeasuredGivenOut'
            BY <1>1 DEF UnmeasuredGivenOut
      <2> QED  BY <2>1, <2>2, <2>3 DEF Numbers
<1>7. IdsAreUnique'
      BY <1>2, <1>3 DEF IdsAreUnique
<1>8. Files'
      <2>1. IndexedFilesComplete' /\ WorkersFiles'
            BY <1>2 DEF IndexedFilesComplete, WorkersFiles, FileOf
      <2>2. \A i \in Id : disk'[i].run # run'
            BY <1>0, <1>1, <1>5, Typed
      <2>3. FilesAreAccountedFor'
            BY <2>2 DEF FilesAreAccountedFor
      <2> QED  BY <2>1, <2>3 DEF Files
<1>9. Downloads'
      BY <1>2 DEF Downloads, DownloadsAreWhole, LookedUp, Absent
<1> QED  BY <1>4, <1>6, <1>7, <1>8, <1>9 DEF IInv

-----------------------------------------------------------------------------

\* The strengthened invariant holds however savers, downloads, failures and
\* restarts interleave.
THEOREM InductiveInvariant == Spec => []IInv
<1>1. IInv /\ [Next]_vars => IInv'
      <2> SUFFICES ASSUME IInv, [Next]_vars PROVE IInv'
          OBVIOUS
      <2>1. CASE Next
            BY <2>1, SavePreserves, ServePreserves, RestartPreserves DEF Next
      <2>2. CASE UNCHANGED vars
            <3>1. TypeOK'
                  BY <2>2 DEF vars, IInv, TypeOK
            <3>2. Numbers' /\ IdsAreUnique'
                  <4>1. UNCHANGED <<run, pcap_seq, captures, disk, worker, unmeasured>>
                        BY <2>2 DEF vars
                  <4>2. Busy' = Busy /\ Indexed' = Indexed
                        BY <4>1 DEF Busy, Indexed
                  <4>3. InFlight' = InFlight
                        BY <4>1, <4>2 DEF InFlight
                  <4>4. Numbers'
                        BY <4>1, <4>2 DEF IInv, Numbers, NumbersGivenOut, UnmeasuredGivenOut,
                                          NoFutureFiles
                  <4>5. IdsAreUnique'
                        BY <4>1, <4>2, <4>3 DEF IInv, IdsAreUnique
                  <4> QED  BY <4>4, <4>5
            <3>3. Files'
                  BY <2>2 DEF vars, IInv, Files, IndexedFilesComplete, WorkersFiles, FileOf, Measured, Saved,
                              FilesAreAccountedFor, Indexed, InFlight, Busy
            <3>4. Downloads'
                  BY <2>2 DEF vars, IInv, Downloads, DownloadsAreWhole, LookedUp, Saved, InFlight, Busy
            <3> QED  BY <3>1, <3>2, <3>3, <3>4 DEF IInv
      <2> QED  BY <2>1, <2>2
<1> QED  BY <1>1, InitEstablishes, PTL DEF Spec

\* TypeOK: in particular the index keeps its bound.
THEOREM StoreTypes == Spec => []TypeOK
BY InductiveInvariant, PTL DEF IInv

\* IndexedFilesComplete: the index names whole files of this run only, and
\* gives their size unless metadata() failed.
THEOREM IndexNamesWholeFiles == Spec => []IndexedFilesComplete
BY InductiveInvariant, PTL DEF IInv, Files

\* IdsAreUnique: no number is used twice in a run.
THEOREM NumbersAreUnique == Spec => []IdsAreUnique
BY InductiveInvariant, PTL DEF IInv

\* FilesAreAccountedFor: eviction forgets no file.
THEOREM NoFileIsForgotten == Spec => []FilesAreAccountedFor
BY InductiveInvariant, PTL DEF IInv, Files

\* DownloadsAreWhole: a download is a whole capture of this run or a 404, for
\* that it is gone or cannot be read.
THEOREM DownloadsReturnWholeFiles == Spec => []DownloadsAreWhole
BY InductiveInvariant, PTL DEF IInv, Downloads

\* UnavailableOnlyAfterEviction: while its record is in the index the file of a
\* capture is there.
THEOREM OnlyEvictedAreUnavailable == Spec => UnavailableOnlyAfterEviction
<1>1. IInv /\ [Next]_vars =>
        [\A r \in Reader :
            reader[r].at = "reading" /\ reader'[r].at = "answered"
               /\ reader'[r].got = Absent => reader[r].id \notin Indexed]_vars
      <2> SUFFICES ASSUME IInv, Next, NEW r \in Reader, reader[r].at = "reading",
                          reader'[r].at = "answered", reader'[r].got = Absent
                   PROVE  reader[r].id \notin Indexed
          OBVIOUS
      <2>1. TypeOK
            BY DEF IInv
      <2>2. reader' # reader
            OBVIOUS
      <2>3. ~Restart
            BY DEF Restart, IdleReader
      <2>4. PICK q \in Reader : Serve(q)
            <3>1. ASSUME NEW w \in Worker, Save(w) PROVE reader' = reader
                  BY <3>1 DEF Save, TakeId, BeginFlush, CreateFails, EndFlush, WriteFails, Measure,
                              MeasureFails, Index
            <3> QED  BY <2>2, <2>3, <3>1 DEF Next
      <2>5. q = r /\ Read(r)
            <3>0. reader \in [Reader -> ReaderRecord]
                  BY <2>1 DEF TypeOK
            <3>1. ASSUME NEW id \in Id, Lookup(q, id) PROVE FALSE
                  <4>1. reader'[q].at = "reading" /\ (q # r => reader'[r] = reader[r])
                        BY <3>0, <3>1 DEF Lookup
                  <4> QED  BY <4>1
            <3>2. ~NextRequest(q)
                  <4> SUFFICES ASSUME NextRequest(q) PROVE FALSE
                      OBVIOUS
                  <4>1. reader'[q] = IdleReader /\ (q # r => reader'[r] = reader[r])
                        BY <3>0 DEF NextRequest
                  <4> QED  BY <4>1 DEF IdleReader
            <3>3. Read(q)
                  BY <2>4, <3>1, <3>2 DEF Serve
            <3>4. q # r => reader'[r] = reader[r]
                  BY <3>0, <3>3 DEF Read
            <3> QED  BY <3>3, <3>4
      <2>6. disk[reader[r].id] = Absent
            BY <2>1, <2>5 DEF Read, TypeOK, Absent, Unreadable
      <2>7. Absent # Saved
            BY DEF Absent, Saved
      <2> QED  BY <2>6, <2>7 DEF IInv, Files, IndexedFilesComplete, Indexed
<1> QED  BY <1>1, InductiveInvariant, PTL DEF Spec, UnavailableOnlyAfterEviction

=============================================================================
