---------------------------- MODULE LocksProofs ----------------------------
(* Proofs about Locks, for any tasks, any locks and any scripts.  That the  *)
(* scripts follow the order of the ranks (Discipline) is a hypothesis of    *)
(* the theorems that need it: it speaks of constants only, and TLC          *)
(* evaluates it for the sensor's handlers with OrderRespected.              *)
EXTENDS Locks, TLAPS

-----------------------------------------------------------------------------
(* What a task holds *)

LEMMA StepType ==
    ASSUME NEW s \in Seq(Step), NEW n \in 1 .. Len(s)
    PROVE  s[n] \in Step
  OBVIOUS

LEMMA EmptyScript == << >> \in Seq(Step) /\ Len(<< >>) = 0
  OBVIOUS

\* A task that runs nothing is at the end of an empty script.
LEMMA IdleAtEnd ==
    ASSUME TypeOK, NEW t \in Task, ~Running(t)
    PROVE  script[t] = << >> /\ at[t] = 0 /\ AtEnd(t)
<1>1. script[t] = << >>
      BY DEF Running
<1>2. at[t] \in Nat /\ at[t] <= Len(<< >>)
      BY <1>1 DEF TypeOK
<1> QED  BY <1>1, <1>2, EmptyScript DEF AtEnd

\* One that is not at the end has a next step.
LEMMA NextStepExists ==
    ASSUME TypeOK, NEW t \in Task, ~AtEnd(t)
    PROVE  /\ Running(t)
           /\ script[t] \in Scripts[t] /\ script[t] \in Seq(Step)
           /\ at[t] \in 0 .. Len(script[t]) - 1
           /\ NextStep(t) \in Step
<1>1. Running(t)
      BY IdleAtEnd
<1>2. script[t] \in Scripts[t] /\ script[t] \in Seq(Step)
      BY <1>1 DEF TypeOK
<1>3. at[t] \in Nat /\ at[t] <= Len(script[t]) /\ at[t] # Len(script[t])
      BY DEF TypeOK, AtEnd
<1>4. Len(script[t]) \in Nat
      BY <1>2
<1>5. at[t] \in 0 .. Len(script[t]) - 1
      BY <1>3, <1>4
<1> QED  BY <1>1, <1>2, <1>5, StepType DEF NextStep

LEMMA NothingHeldAtFirst ==
    ASSUME NEW s \in Seq(Step)
    PROVE  HeldAfter(s, 0) = {}
  BY DEF HeldAfter

\* A step adds at most its own guard, and none when it drops one.
LEMMA HeldGrowsByOne ==
    ASSUME NEW s \in Seq(Step), NEW n \in 0 .. Len(s) - 1
    PROVE  \A g \in HeldAfter(s, n + 1) :
              g \in HeldAfter(s, n) \/ (g = s[n + 1] /\ s[n + 1].op # "drop")
<1> TAKE g \in HeldAfter(s, n + 1)
<1>1. PICK k \in 1 .. n + 1 :
          /\ g = s[k] /\ s[k].op # "drop"
          /\ \A m \in k + 1 .. n + 1 : ~(s[m].op = "drop" /\ s[m].lock = s[k].lock)
      BY DEF HeldAfter
<1>2. CASE k = n + 1
      BY <1>1, <1>2
<1>3. CASE k \in 1 .. n
      <2>1. \A m \in k + 1 .. n : ~(s[m].op = "drop" /\ s[m].lock = s[k].lock)
            BY <1>1
      <2> QED  BY <1>1, <1>3, <2>1 DEF HeldAfter
<1> QED  BY <1>2, <1>3

-----------------------------------------------------------------------------
(* Type correctness *)

LEMMA InitTypeOK == Init => TypeOK
<1> SUFFICES ASSUME Init PROVE TypeOK
    OBVIOUS
<1>1. \A t \in Task : script[t] = << >> /\ at[t] = 0
      BY DEF Init
<1>2. script \in [Task -> Seq(Step)] /\ at \in [Task -> Nat]
      BY EmptyScript DEF Init
<1>3. \A t \in Task : ~Running(t) /\ at[t] <= Len(script[t])
      BY <1>1, EmptyScript DEF Running
<1> QED  BY <1>2, <1>3 DEF Init, TypeOK

\* A step of t leaves the other tasks alone.
LEMMA StepOfOneTask ==
    ASSUME TypeOK, NEW t \in Task,
           \A u \in Task \ {t} : script'[u] = script[u] /\ at'[u] = at[u],
           script' \in [Task -> Seq(Step)], at' \in [Task -> Nat],
           Running(t)' => script'[t] \in Scripts[t],
           at'[t] <= Len(script'[t]),
           parked' \subseteq parked \cup {t},
           t \in parked' => ~AtEnd(t)' /\ NextStep(t)'.op = "take",
           policy' = policy, begun' \in Nat
    PROVE  TypeOK'
<1>1. \A u \in Task : Running(u)' => script'[u] \in Scripts[u]
      BY DEF TypeOK, Running
<1>2. \A u \in Task : at'[u] <= Len(script'[u])
      BY DEF TypeOK
<1>3. parked' \subseteq {u \in Task : ~AtEnd(u)' /\ NextStep(u)'.op = "take"}
      BY DEF TypeOK, AtEnd, NextStep
<1> QED  BY <1>1, <1>2, <1>3 DEF TypeOK

LEMMA NextTypeOK == TypeOK /\ [Next]_vars => TypeOK'
<1> SUFFICES ASSUME TypeOK, [Next]_vars PROVE TypeOK'
    OBVIOUS
<1>0. script \in [Task -> Seq(Step)] /\ at \in [Task -> Nat] /\ begun \in Nat
      BY DEF TypeOK
<1>1. CASE UNCHANGED vars
      BY <1>1 DEF TypeOK, vars, Running, AtEnd, NextStep
<1>2. ASSUME NEW t \in Task, Begin(t) PROVE TypeOK'
      <2>1. PICK s \in Scripts[t] : script' = [script EXCEPT ![t] = s]
            BY <1>2 DEF Begin
      <2>2. s \in Seq(Step) /\ Len(s) \in Nat
            BY <2>1, LocksAssumption
      <2>3. at[t] = 0 /\ AtEnd(t)
            BY <1>2, IdleAtEnd DEF Begin
      <2>4. t \notin parked
            BY <2>3 DEF TypeOK
      <2>5. script'[t] = s /\ script' \in [Task -> Seq(Step)]
            BY <1>0, <2>1, <2>2
      <2>6. \A u \in Task \ {t} : script'[u] = script[u] /\ at'[u] = at[u]
            BY <1>0, <1>2, <2>1 DEF Begin
      <2>7. at' = at /\ at'[t] <= Len(script'[t])
            BY <1>2, <2>2, <2>3, <2>5 DEF Begin
      <2>8. begun' \in Nat /\ parked' = parked /\ policy' = policy
            BY <1>0, <1>2 DEF Begin
      <2> QED  BY <1>0, <2>1, <2>4, <2>5, <2>6, <2>7, <2>8, StepOfOneTask
<1>3. ASSUME NEW t \in Task, Acquire(t) PROVE TypeOK'
      <2>1. script[t] \in Scripts[t] /\ at[t] \in 0 .. Len(script[t]) - 1
            BY <1>3, NextStepExists DEF Acquire
      <2>2. Len(script[t]) \in Nat
            BY <1>0
      <2>3. /\ script' = script /\ at' = [at EXCEPT ![t] = @ + 1]
            /\ t \notin parked' /\ parked' \subseteq parked
            BY <1>3 DEF Acquire, Advance
      <2>4. at' \in [Task -> Nat] /\ at'[t] <= Len(script'[t])
            BY <1>0, <2>1, <2>2, <2>3
      <2>5. \A u \in Task \ {t} : script'[u] = script[u] /\ at'[u] = at[u]
            BY <1>0, <2>3
      <2>6. begun' \in Nat /\ policy' = policy
            BY <1>0, <1>3 DEF Acquire
      <2> QED  BY <1>0, <2>1, <2>3, <2>4, <2>5, <2>6, StepOfOneTask
<1>4. ASSUME NEW t \in Task, Park(t) PROVE TypeOK'
      BY <1>4 DEF TypeOK, Park, Running, AtEnd, NextStep
<1>5. ASSUME NEW t \in Task, Release(t) PROVE TypeOK'
      <2>1. script[t] \in Scripts[t] /\ at[t] \in 0 .. Len(script[t]) - 1
            BY <1>5, NextStepExists DEF Release
      <2>2. Len(script[t]) \in Nat
            BY <1>0
      <2>3. t \notin parked
            BY <1>5 DEF Release, TypeOK
      <2>4. script' = script /\ at' = [at EXCEPT ![t] = @ + 1] /\ parked' = parked
            BY <1>5 DEF Release, Advance
      <2>5. at' \in [Task -> Nat] /\ at'[t] <= Len(script'[t])
            BY <1>0, <2>1, <2>2, <2>4
      <2>6. \A u \in Task \ {t} : script'[u] = script[u] /\ at'[u] = at[u]
            BY <1>0, <2>4
      <2>7. begun' \in Nat /\ policy' = policy
            BY <1>0, <1>5 DEF Release
      <2> QED  BY <1>0, <2>1, <2>3, <2>4, <2>5, <2>6, <2>7, StepOfOneTask
<1>6. ASSUME NEW t \in Task, Return(t) PROVE TypeOK'
      <2>1. t \notin parked
            BY <1>6 DEF Return, TypeOK
      <2>2. script'[t] = << >> /\ at'[t] = 0
            BY <1>0, <1>6 DEF Return
      <2>3. script' \in [Task -> Seq(Step)] /\ at' \in [Task -> Nat]
            BY <1>0, <1>6, EmptyScript DEF Return
      <2>4. ~Running(t)' /\ at'[t] <= Len(script'[t])
            BY <2>2, EmptyScript DEF Running
      <2> QED  BY <1>0, <1>6, <2>1, <2>3, <2>4, StepOfOneTask DEF Return
<1> QED  BY <1>1, <1>2, <1>3, <1>4, <1>5, <1>6 DEF Next, Proceed

\* Program counters stay within their scripts, and only a task before an
\* exclusive step waits as a writer.
THEOREM TypeCorrect == Spec => []TypeOK
<1>1. Init => TypeOK
      BY InitTypeOK
<1>2. TypeOK /\ [Next]_vars => TypeOK'
      BY NextTypeOK
<1> QED  BY <1>1, <1>2, PTL DEF Spec

-----------------------------------------------------------------------------
(* Mutual exclusion *)

LEMMA ConflictIsSymmetric ==
    ASSUME NEW a, NEW b, Conflict(a, b)
    PROVE  Conflict(b, a)
  BY DEF Conflict

LEMMA InitExclusion == Init => Exclusion
<1> SUFFICES ASSUME Init PROVE Exclusion
    OBVIOUS
<1>1. \A t \in Task : Held(t) = {}
      BY EmptyScript, NothingHeldAtFirst DEF Init, Held
<1> QED  BY <1>1 DEF Exclusion

\* Only Acquire adds a guard, and nobody holds one that excludes it.
LEMMA NextExclusion == TypeOK /\ Exclusion /\ [Next]_vars => Exclusion'
<1> SUFFICES ASSUME TypeOK, Exclusion, [Next]_vars PROVE Exclusion'
    OBVIOUS
<1> DEFINE NothingNew == \A u \in Task : Held(u)' \subseteq Held(u)
<1>0. NothingNew => Exclusion'
      <2> SUFFICES ASSUME NothingNew,
                          NEW t \in Task, NEW u \in Task, t # u,
                          NEW a \in Held(t)', NEW b \in Held(u)'
                   PROVE  ~Conflict(a, b)
          BY DEF Exclusion, Conflict
      <2>1. a \in Held(t) /\ b \in Held(u)
            OBVIOUS
      <2> QED  BY <2>1 DEF Exclusion
<1>1. CASE UNCHANGED vars
      <2>1. NothingNew
            BY <1>1 DEF vars, Held, HeldAfter
      <2> QED  BY <1>0, <2>1
<1>2. ASSUME NEW t \in Task, Begin(t) PROVE Exclusion'
      <2>1. PICK s \in Scripts[t] : script' = [script EXCEPT ![t] = s]
            BY <1>2 DEF Begin
      <2>2. s \in Seq(Step)
            BY <2>1, LocksAssumption
      <2>3. at' = at /\ at[t] = 0
            BY <1>2, IdleAtEnd DEF Begin
      <2>4. Held(t)' = HeldAfter(s, 0)
            BY <2>1, <2>3 DEF Held, HeldAfter, TypeOK
      <2>5. Held(t)' = {}
            BY <2>2, <2>4, NothingHeldAtFirst
      <2>6. \A u \in Task \ {t} : Held(u)' = Held(u)
            BY <2>1, <2>3 DEF Held, HeldAfter, TypeOK
      <2> QED  BY <1>0, <2>5, <2>6
<1>3. ASSUME NEW t \in Task, Acquire(t) PROVE Exclusion'
      <2>1. script[t] \in Seq(Step) /\ at[t] \in 0 .. Len(script[t]) - 1
            BY <1>3, NextStepExists DEF Acquire
      <2>2. Held(t)' = HeldAfter(script[t], at[t] + 1)
            BY <1>3 DEF Acquire, Advance, Held, HeldAfter, TypeOK
      <2>3. \A g \in Held(t)' : g \in Held(t) \/ g = NextStep(t)
            BY <2>1, <2>2, HeldGrowsByOne DEF Held, NextStep
      <2>4. \A u \in Task \ {t} : Held(u)' = Held(u)
            BY <1>3 DEF Acquire, Advance, Held, HeldAfter, TypeOK
      <2>5. \A u \in Task : \A g \in Held(u) : ~Conflict(g, NextStep(t))
            BY <1>3 DEF Acquire, Free
      <2>6. \A u \in Task \ {t} : \A a \in Held(t)', b \in Held(u) :
                ~Conflict(a, b) /\ ~Conflict(b, a)
            BY <2>3, <2>5, ConflictIsSymmetric DEF Exclusion
      <2>7. ASSUME NEW u \in Task, NEW v \in Task, u # v,
                   NEW a \in Held(u)', NEW b \in Held(v)'
            PROVE  ~Conflict(a, b)
            <3>1. CASE u = t
                  BY <2>4, <2>6, <2>7, <3>1
            <3>2. CASE v = t
                  BY <2>4, <2>6, <2>7, <3>2
            <3>3. CASE u # t /\ v # t
                  BY <2>4, <2>7, <3>3 DEF Exclusion
            <3> QED  BY <3>1, <3>2, <3>3
      <2> QED  BY <2>7 DEF Exclusion, Conflict
<1>4. ASSUME NEW t \in Task, Park(t) PROVE Exclusion'
      <2>1. NothingNew
            BY <1>4 DEF Park, Held, HeldAfter
      <2> QED  BY <1>0, <2>1
<1>5. ASSUME NEW t \in Task, Release(t) PROVE Exclusion'
      <2>1. script[t] \in Seq(Step) /\ at[t] \in 0 .. Len(script[t]) - 1
            BY <1>5, NextStepExists DEF Release
      <2>2. Held(t)' = HeldAfter(script[t], at[t] + 1)
            BY <1>5 DEF Release, Advance, Held, HeldAfter, TypeOK
      <2>3. NextStep(t).op = "drop"
            BY <1>5 DEF Release
      <2>4. Held(t)' \subseteq Held(t)
            BY <2>1, <2>2, <2>3, HeldGrowsByOne DEF Held, NextStep
      <2>5. \A u \in Task \ {t} : Held(u)' = Held(u)
            BY <1>5 DEF Release, Advance, Held, HeldAfter, TypeOK
      <2> QED  BY <1>0, <2>4, <2>5
<1>6. ASSUME NEW t \in Task, Return(t) PROVE Exclusion'
      <2>1. Held(t)' = HeldAfter(<< >>, 0)
            BY <1>6 DEF Return, Held, HeldAfter, TypeOK
      <2>2. Held(t)' = {}
            BY <2>1, EmptyScript, NothingHeldAtFirst
      <2>3. \A u \in Task \ {t} : Held(u)' = Held(u)
            BY <1>6 DEF Return, Held, HeldAfter, TypeOK
      <2> QED  BY <1>0, <2>2, <2>3
<1> QED  BY <1>1, <1>2, <1>3, <1>4, <1>5, <1>6 DEF Next, Proceed

\* What a task holds is read off its script; still no two tasks ever hold
\* guards that exclude each other.
THEOREM GuardsExclude == Spec => []Exclusion
<1>1. Init => TypeOK /\ Exclusion
      BY InitTypeOK, InitExclusion
<1>2. TypeOK /\ Exclusion /\ [Next]_vars => TypeOK' /\ Exclusion'
      BY NextTypeOK, NextExclusion
<1> QED  BY <1>1, <1>2, PTL DEF Spec

-----------------------------------------------------------------------------
(* The locking order *)

LEMMA OrderFollows == Discipline /\ TypeOK => OrderRespected
<1> SUFFICES ASSUME Discipline, TypeOK,
                    NEW t \in Task, ~AtEnd(t), NextStep(t).op # "drop",
                    NEW guard \in Held(t)
             PROVE  Rank[guard.lock] < Rank[NextStep(t).lock]
    BY DEF OrderRespected
<1>1. at[t] \in 0 .. Len(script[t]) - 1 /\ script[t] \in Scripts[t]
      BY NextStepExists
<1>2. Ordered(script[t])
      BY <1>1 DEF Discipline
<1> QED  BY <1>1, <1>2 DEF Ordered, Held, NextStep

\* When every handler takes its locks in the order of their ranks, no task
\* ever wants a lock while it holds one of the same or a higher rank.
THEOREM OrderHolds ==
    ASSUME Discipline
    PROVE  Spec => []OrderRespected
<1>1. TypeOK => OrderRespected
      BY OrderFollows
<1> QED  BY <1>1, TypeCorrect, PTL

-----------------------------------------------------------------------------
(* No deadlock *)

\* A task that cannot go on, and wants a lock of rank r.
Stuck(t, r) ==
    /\ Running(t) /\ ~CanProceed(t)
    /\ ~AtEnd(t) /\ NextStep(t).op # "drop"
    /\ Rank[NextStep(t).lock] = r

LEMMA StuckHasRank ==
    ASSUME TypeOK, NEW t \in Task, Running(t), ~CanProceed(t)
    PROVE  \E r \in 1 .. 4 : Stuck(t, r)
<1>1. ~AtEnd(t) /\ NextStep(t).op # "drop"
      BY DEF CanProceed
<1>2. NextStep(t) \in Step
      BY <1>1, NextStepExists
<1>3. Rank[NextStep(t).lock] \in 1 .. 4
      BY <1>2, LocksAssumption DEF Step
<1> QED  BY <1>1, <1>3 DEF Stuck

LEMMA HoldersRun ==
    ASSUME TypeOK, NEW u \in Task, NEW guard \in Held(u)
    PROVE  Running(u)
<1> SUFFICES ASSUME ~Running(u) PROVE FALSE
    OBVIOUS
<1>1. script[u] = << >> /\ at[u] = 0
      BY IdleAtEnd
<1> QED  BY <1>1, EmptyScript, NothingHeldAtFirst DEF Held

\* Whoever waits for a holder waits for somebody who, if stuck himself, wants
\* a lock of a higher rank.
LEMMA WaitsForHigher ==
    ASSUME TypeOK, OrderRespected, \A u \in Task : ~CanProceed(u),
           NEW t \in Task, NEW r \in 1 .. 4, Stuck(t, r), ~Free(t)
    PROVE  \E u \in Task, q \in 1 .. 4 : q > r /\ Stuck(u, q)
<1>0. PICK u \in Task : \E guard \in Held(u) : guard.lock = NextStep(t).lock
      BY DEF Free, Conflict
<1>1. PICK guard \in Held(u) : guard.lock = NextStep(t).lock
      BY <1>0
<1>2. Running(u) /\ ~CanProceed(u)
      BY <1>1, HoldersRun
<1>3. PICK q \in 1 .. 4 : Stuck(u, q)
      BY <1>2, StuckHasRank
<1>4. Rank[guard.lock] < Rank[NextStep(u).lock]
      BY <1>1, <1>3 DEF OrderRespected, Stuck
<1> QED  BY <1>1, <1>3, <1>4 DEF Stuck

\* The same for a reader that queues behind a parked writer of that lock.
LEMMA StuckBehindHigher ==
    ASSUME TypeOK, OrderRespected, \A u \in Task : ~CanProceed(u),
           NEW t \in Task, NEW r \in 1 .. 4, Stuck(t, r)
    PROVE  \E u \in Task, q \in 1 .. 4 : q > r /\ Stuck(u, q)
<1>1. CASE ~Free(t)
      BY <1>1, WaitsForHigher
<1>2. CASE Free(t)
      <2>1. KeptOut(t)
            BY <1>2 DEF Stuck, CanProceed
      <2>2. PICK u \in parked : NextStep(u).lock = NextStep(t).lock
            BY <2>1 DEF KeptOut
      <2>3. u \in Task /\ ~AtEnd(u) /\ NextStep(u).op = "take"
            BY <2>2 DEF TypeOK
      <2>4. Running(u)
            BY <2>3, NextStepExists
      <2>5. Stuck(u, r)
            BY <2>2, <2>3, <2>4 DEF Stuck
      <2>6. ~Free(u)
            BY <2>3, <2>4 DEF CanProceed, KeptOut
      <2> QED  BY <2>3, <2>5, <2>6, WaitsForHigher
<1> QED  BY <1>1, <1>2

\* Four ranks leave no room for a fifth stuck task above the others.
LEMMA SomebodyProceeds == TypeOK /\ OrderRespected => NoDeadlock
<1> SUFFICES ASSUME TypeOK, OrderRespected,
                    NEW t \in Task, Running(t), \A u \in Task : ~CanProceed(u)
             PROVE  FALSE
    BY DEF NoDeadlock
<1>1. PICK r \in 1 .. 4 : Stuck(t, r)
      BY StuckHasRank
<1>2. \A u \in Task : ~Stuck(u, 4)
      BY StuckBehindHigher
<1>3. \A u \in Task : ~Stuck(u, 3)
      BY <1>2, StuckBehindHigher
<1>4. \A u \in Task : ~Stuck(u, 2)
      BY <1>2, <1>3, StuckBehindHigher
<1>5. \A u \in Task : ~Stuck(u, 1)
      BY <1>2, <1>3, <1>4, StuckBehindHigher
<1> QED  BY <1>1, <1>2, <1>3, <1>4, <1>5

\* Handlers that take their locks in the order of the ranks never wait for
\* each other in a circle, whether or not a waiting writer keeps readers out
\* and however many tasks there are.
THEOREM NeverDeadlocked ==
    ASSUME Discipline
    PROVE  Spec => []NoDeadlock
<1>1. TypeOK => NoDeadlock
      BY OrderFollows, SomebodyProceeds
<1> QED  BY <1>1, TypeCorrect, PTL

=============================================================================
