------------------------------- MODULE Locks -------------------------------
(* Tasks that share std::sync mutexes and readers-writer locks.  A task     *)
(* runs one script at a time: the order in which a handler takes and drops  *)
(* its guards.  Which scripts there are is a parameter; the sensor's are in *)
(* Handlers.                                                                *)
(*                                                                          *)
(* What a task holds follows from its script and how far it is in it, so    *)
(* there is no table of owners that could disagree with the program         *)
(* counters.  std leaves open whether a reader may pass a waiting writer    *)
(* ("the priority policy of the lock is dependent on the underlying         *)
(* operating system's implementation"): `policy` is either answer.          *)
EXTENDS Integers, Sequences, FiniteSets

CONSTANTS
    Task,      \* the threads and tasks that take locks
    Lock,      \* the locks
    Rank,      \* Rank[l] is the place of l in the locking order
    Scripts,   \* Scripts[t] are the scripts that t may run
    MaxJobs    \* bound of the model: scripts begun in a behaviour

\* A mutex, or a writer, takes a lock; a reader shares it.
Step == [op : {"take", "share", "drop"}, lock : Lock]

ASSUME LocksAssumption ==
    /\ Rank \in [Lock -> 1 .. 4]
    /\ Scripts \in [Task -> SUBSET Seq(Step)]
    /\ MaxJobs \in Nat

VARIABLES
    script,   \* what each task runs; << >> when it runs nothing
    at,       \* how many steps of it are done
    parked,   \* the writers that wait in the kernel
    policy,   \* whether a waiting writer keeps new readers out
    begun     \* scripts begun so far

vars == <<script, at, parked, policy, begun>>

Init ==
    /\ script = [t \in Task |-> << >>]
    /\ at = [t \in Task |-> 0]
    /\ parked = {}
    /\ policy \in {"writers first", "readers pass"}
    /\ begun = 0

-----------------------------------------------------------------------------
(* What a task holds and wants *)

\* The guards that are alive after the first n steps of a script.
HeldAfter(s, n) ==
    {s[i] : i \in {k \in 1 .. n :
        /\ s[k].op # "drop"
        /\ \A m \in k + 1 .. n : ~(s[m].op = "drop" /\ s[m].lock = s[k].lock)}}

Held(t) == HeldAfter(script[t], at[t])

Running(t) == script[t] # << >>

AtEnd(t) == at[t] = Len(script[t])

NextStep(t) == script[t][at[t] + 1]

Conflict(a, b) == a.lock = b.lock /\ (a.op = "take" \/ b.op = "take")

\* Nobody, the task itself included, holds a guard that excludes this one.
Free(t) == \A u \in Task : \A guard \in Held(u) : ~Conflict(guard, NextStep(t))

\* A reader that finds a writer waiting queues behind it, if that is the policy.
KeptOut(t) ==
    /\ policy = "writers first"
    /\ NextStep(t).op = "share"
    /\ \E u \in parked : NextStep(u).lock = NextStep(t).lock

-----------------------------------------------------------------------------
Begin(t) ==
    /\ ~Running(t)
    /\ begun < MaxJobs
    /\ \E s \in Scripts[t] : script' = [script EXCEPT ![t] = s]
    /\ begun' = begun + 1
    /\ UNCHANGED <<at, parked, policy>>

Advance(t) == at' = [at EXCEPT ![t] = @ + 1]

Acquire(t) ==
    /\ Running(t) /\ ~AtEnd(t)
    /\ NextStep(t).op # "drop"
    /\ Free(t) /\ ~KeptOut(t)
    /\ Advance(t)
    /\ parked' = parked \ {t}
    /\ UNCHANGED <<script, policy, begun>>

\* A writer that finds the lock held waits for it, visibly for readers.
Park(t) ==
    /\ Running(t) /\ ~AtEnd(t)
    /\ NextStep(t).op = "take"
    /\ ~Free(t)
    /\ t \notin parked
    /\ parked' = parked \cup {t}
    /\ UNCHANGED <<script, at, policy, begun>>

Release(t) ==
    /\ Running(t) /\ ~AtEnd(t)
    /\ NextStep(t).op = "drop"
    /\ Advance(t)
    /\ UNCHANGED <<script, parked, policy, begun>>

Return(t) ==
    /\ Running(t) /\ AtEnd(t)
    /\ script' = [script EXCEPT ![t] = << >>]
    /\ at' = [at EXCEPT ![t] = 0]
    /\ UNCHANGED <<parked, policy, begun>>

Proceed(t) == Acquire(t) \/ Park(t) \/ Release(t) \/ Return(t)

Next == \E t \in Task : Begin(t) \/ Proceed(t)

\* A thread that can go on does; nobody need send another packet or request.
Fairness == \A t \in Task : WF_vars(Proceed(t))

Spec == Init /\ [][Next]_vars /\ Fairness

-----------------------------------------------------------------------------
(* Properties *)

\* A script is of its task, and only a task before an exclusive step is parked.
TypeOK ==
    /\ script \in [Task -> Seq(Step)]
    /\ \A t \in Task : Running(t) => script[t] \in Scripts[t]
    /\ at \in [Task -> Nat]
    /\ \A t \in Task : at[t] <= Len(script[t])
    /\ parked \subseteq {t \in Task : ~AtEnd(t) /\ NextStep(t).op = "take"}
    /\ policy \in {"writers first", "readers pass"}
    /\ begun \in Nat

\* No two tasks hold guards that exclude each other.
Exclusion ==
    \A t, u \in Task : t # u =>
        \A a \in Held(t), b \in Held(u) : ~Conflict(a, b)

\* Locks are taken in the order of their ranks: a task that wants a lock holds
\* none of the same or a higher rank, nor, as it follows, the lock itself.
OrderRespected ==
    \A t \in Task : ~AtEnd(t) /\ NextStep(t).op # "drop" =>
        \A guard \in Held(t) : Rank[guard.lock] < Rank[NextStep(t).lock]

CanProceed(t) ==
    /\ Running(t)
    /\ \/ AtEnd(t)
       \/ NextStep(t).op = "drop"
       \/ Free(t) /\ ~KeptOut(t)

\* The tasks never wait for each other in a circle: while one runs, one of
\* them can take a step of its script.
NoDeadlock == (\E t \in Task : Running(t)) => \E t \in Task : CanProceed(t)

\* Every packet and every request is finished, once no more of them arrive.
JobsFinish == \A t \in Task : Running(t) ~> ~Running(t)

\* What the order means for one script, at every step of it.
Ordered(s) ==
    \A n \in 0 .. Len(s) - 1 : s[n + 1].op # "drop" =>
        \A guard \in HeldAfter(s, n) : Rank[guard.lock] < Rank[s[n + 1].lock]

Discipline == \A t \in Task : \A s \in Scripts[t] : Ordered(s)

=============================================================================
