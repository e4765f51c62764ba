--------------------------- MODULE VMThreadProofs ---------------------------
(***************************************************************************)
(* Proofs about VMThread, for any finite number of clients.                *)
(***************************************************************************)
EXTENDS VMThread, FiniteSetTheorems, TLAPS

USE ThreadsAssumption

ClientStep(c) ==
  \/ StartLock(c) \/ Create(c) \/ CreateFails(c) \/ Started(c)
  \/ Join(c) \/ JoinTerminated(c) \/ JoinWait(c) \/ JoinWaitAgain(c)
  \/ JoinReturn(c)
  \/ Free(c) \/ FreeWait(c) \/ FreeReturn(c)
  \/ SpuriousWakeup(c)

NativeStep == Begin \/ RunReturns \/ Terminate

LEMMA CountIsFinite ==
  /\ IsFiniteSet(CountedJoiners)
  /\ Cardinality(CountedJoiners) \in Nat
  /\ Cardinality(CountedJoiners) = 0 => CountedJoiners = {}
<1>1. IsFiniteSet(CountedJoiners)
  BY FS_Subset DEF CountedJoiners
<1> QED
  BY <1>1, FS_CardinalityType, FS_EmptySet

\* Only a joiner that first waits, and one that leaves join, change the count.
LEMMA CountKept ==
  ASSUME TypeOK,
         \/ NativeStep
         \/ \E c \in Client : ClientStep(c) /\ ~JoinWait(c) /\ ~JoinReturn(c)
  PROVE  CountedJoiners' = CountedJoiners /\ joinerQty' = joinerQty
BY DEF TypeOK, NativeStep, ClientStep, CountedJoiners, Begin, RunReturns,
   Terminate, Woken, StartLock, Create, CreateFails, Started, Join,
   JoinTerminated, JoinWait, JoinWaitAgain, JoinReturn, Free, FreeWait,
   FreeReturn, SpuriousWakeup, Goto, Thread

LEMMA CountStep ==
  ASSUME TypeOK, JoinersCounted, NativeStep \/ \E c \in Client : ClientStep(c)
  PROVE  JoinersCounted' /\ joinerQty' \in Nat
<1>1. ASSUME NEW c \in Client, JoinWait(c)
      PROVE  JoinersCounted' /\ joinerQty' \in Nat
  <2>1. CountedJoiners' = CountedJoiners \cup {c} /\ c \notin CountedJoiners
    BY <1>1 DEF JoinWait, Goto, CountedJoiners, TypeOK, Thread
  <2>2. joinerQty' = joinerQty + 1
    BY <1>1 DEF JoinWait
  <2>3. Cardinality(CountedJoiners \cup {c}) = Cardinality(CountedJoiners) + 1
    BY <2>1, CountIsFinite, FS_AddElement
  <2> QED
    BY <2>1, <2>2, <2>3, CountIsFinite DEF JoinersCounted
<1>2. ASSUME NEW c \in Client, JoinReturn(c)
      PROVE  JoinersCounted' /\ joinerQty' \in Nat
  <2>1. CountedJoiners' = CountedJoiners \ {c} /\ c \in CountedJoiners
    BY <1>2 DEF JoinReturn, Goto, CountedJoiners, TypeOK, Thread
  <2>2. joinerQty' = joinerQty - 1
    BY <1>2 DEF JoinReturn
  <2>3. /\ IsFiniteSet(CountedJoiners \ {c})
        /\ Cardinality(CountedJoiners \ {c}) = Cardinality(CountedJoiners) - 1
    BY <2>1, CountIsFinite, FS_RemoveElement
  <2>4. Cardinality(CountedJoiners \ {c}) \in Nat
    BY <2>3, FS_CardinalityType
  <2> QED
    BY <2>1, <2>2, <2>3, <2>4, CountIsFinite DEF JoinersCounted
<1> QED
  BY <1>1, <1>2, CountKept DEF JoinersCounted, TypeOK

LEMMA TypeStep ==
  ASSUME IInv, NativeStep \/ \E c \in Client : ClientStep(c)
  PROVE  TypeOK'
<1>1. joinerQty' \in Nat
  BY CountStep DEF IInv
<1>2. ASSUME NativeStep PROVE TypeOK'
  BY <1>1, <1>2 DEF IInv, TypeOK, NativeStep, Begin, RunReturns, Terminate,
     Woken, Goto, Thread, ClientPC, NativePC
<1>3. ASSUME NEW c \in Client, ClientStep(c) PROVE TypeOK'
  BY <1>1, <1>3 DEF IInv, TypeOK, ClientStep, StartLock, Create, CreateFails,
     Started, Join, JoinTerminated, JoinWait, JoinWaitAgain, JoinReturn, Free,
     FreeWait, FreeReturn, SpuriousWakeup, Woken, Goto, Thread, ClientPC,
     NativePC
<1> QED
  BY <1>2, <1>3

LEMMA StartStep ==
  ASSUME IInv, NativeStep \/ \E c \in Client : ClientStep(c)
  PROVE  StartInv'
<1>1. ASSUME NativeStep PROVE StartInv'
  BY <1>1 DEF IInv, TypeOK, StartInv, StateInv, NativeStep, Begin, RunReturns,
     Terminate, Woken, Goto, MonitorFree, Thread
<1>2. ASSUME NEW c \in Client, ClientStep(c) PROVE StartInv'
  BY <1>2 DEF IInv, TypeOK, StartInv, StateInv, MonitorFree, ClientStep,
     StartLock, Create, CreateFails, Started, Join, JoinTerminated, JoinWait,
     JoinWaitAgain, JoinReturn, Free, FreeWait, FreeReturn, SpuriousWakeup,
     Woken, Goto, Thread
<1> QED
  BY <1>1, <1>2

LEMMA StateStep ==
  ASSUME IInv, NativeStep \/ \E c \in Client : ClientStep(c)
  PROVE  StateInv'
<1>1. ASSUME NativeStep PROVE StateInv'
  BY <1>1 DEF IInv, TypeOK, StartInv, StateInv, NativeStep, Begin, RunReturns,
     Terminate, Woken, Goto, MonitorFree, Destroying, Thread
<1>2. ASSUME NEW c \in Client, ClientStep(c) PROVE StateInv'
  BY <1>2 DEF IInv, TypeOK, StartInv, StateInv, MonitorFree, Destroying,
     ClientStep, StartLock, Create, CreateFails, Started, Join, JoinTerminated,
     JoinWait, JoinWaitAgain, JoinReturn, Free, FreeWait, FreeReturn, MustWait,
     SpuriousWakeup, Woken, Goto, Thread
<1> QED
  BY <1>1, <1>2

LEMMA FreedStep ==
  ASSUME IInv, NativeStep \/ \E c \in Client : ClientStep(c)
  PROVE  FreedAfterLastUse'
<1>1. ASSUME NativeStep PROVE FreedAfterLastUse'
  BY <1>1, CountKept DEF IInv, TypeOK, StateInv, FreedAfterLastUse, NativeStep,
     Begin, RunReturns, Terminate, Woken, Goto, Thread, CountedJoiners,
     Destroying, MonitorFree
<1>2. ASSUME NEW c \in Client, FreeReturn(c) PROVE FreedAfterLastUse'
  <2>1. state = "NOT_STARTED" \/ (state = "TERMINATED" /\ joinerQty = 0)
    BY <1>2 DEF FreeReturn, MustWait, IInv, TypeOK
  <2>2. CountedJoiners = {}
    BY <2>1, CountIsFinite DEF IInv, StateInv, JoinersCounted, CountedJoiners
  <2>3. pc[Native] \in {"none", "exited"}
    BY <1>2, <2>1 DEF FreeReturn, IInv, StateInv
  <2>4. CountedJoiners' = {} /\ pc'[Native] = pc[Native]
    BY <1>2, <2>2 DEF FreeReturn, Goto, CountedJoiners, IInv, TypeOK, Thread
  <2> QED
    BY <2>3, <2>4 DEF FreedAfterLastUse
<1>3. ASSUME NEW c \in Client, ClientStep(c), ~FreeReturn(c)
      PROVE  FreedAfterLastUse'
  BY <1>3 DEF IInv, TypeOK, StartInv, StateInv, FreedAfterLastUse,
     CountedJoiners, MonitorFree, Destroying, ClientStep, StartLock, Create,
     CreateFails, Started, Join, JoinTerminated, JoinWait, JoinWaitAgain,
     JoinReturn, Free, FreeWait, SpuriousWakeup, Woken, Goto, Thread
<1> QED
  BY <1>1, <1>2, <1>3

-----------------------------------------------------------------------------
\* The monitor's protocol keeps m_state, m_joinerQty, the clients and the native
\* thread in agreement, for any number of clients.
THEOREM ThreadInvariant == Spec => []IInv
<1>1. Init => IInv
  <2> SUFFICES ASSUME Init PROVE IInv
    OBVIOUS
  <2>1. TypeOK /\ StartInv /\ StateInv /\ FreedAfterLastUse
    BY DEF Init, TypeOK, StartInv, StateInv, FreedAfterLastUse, MonitorFree,
           Destroying, Thread, ClientPC, NativePC
  <2>2. CountedJoiners = {}
    BY DEF Init, CountedJoiners, Thread
  <2>3. JoinersCounted
    BY <2>2, FS_EmptySet DEF Init, JoinersCounted
  <2> QED
    BY <2>1, <2>3 DEF IInv
<1>2. IInv /\ [Next]_vars => IInv'
  <2> SUFFICES ASSUME IInv, [Next]_vars PROVE IInv'
    OBVIOUS
  <2>1. CASE NativeStep \/ \E c \in Client : ClientStep(c)
    <3>1. JoinersCounted'
      BY <2>1, CountStep DEF IInv
    <3> QED
      BY <2>1, <3>1, TypeStep, StartStep, StateStep, FreedStep DEF IInv
  <2>2. CASE UNCHANGED vars
    BY <2>2 DEF vars, IInv, TypeOK, StartInv, StateInv, FreedAfterLastUse,
                JoinersCounted, CountedJoiners, MonitorFree, Destroying
  <2> QED
    BY <2>1, <2>2 DEF Next, NativeStep, ClientStep
<1> QED
  BY <1>1, <1>2, PTL DEF Spec

\* The destructor returns only when every counted joiner has left join and the
\* native thread has used the object for the last time.
THEOREM FreedSafely == Spec => []FreedAfterLastUse
<1>1. IInv => FreedAfterLastUse
  BY DEF IInv
<1> QED
  BY <1>1, ThreadInvariant, PTL

\* No join returns before the native thread is through, spurious wake-ups or not.
THEOREM JoinedAfterRun == Spec => JoinReturnsAfterRun
<1>1. IInv /\ [Next]_vars =>
        [\A c \in Client :
           pc[c] \in {"joinLock", "joinBlocked"} /\ pc'[c] = "idle"
             => pc[Native] = "exited"]_vars
  <2> SUFFICES ASSUME IInv, Next, NEW c \in Client,
                      pc[c] \in {"joinLock", "joinBlocked"}, pc'[c] = "idle"
               PROVE  pc[Native] = "exited"
    OBVIOUS
  <2>1. state = "TERMINATED"
    BY DEF Next, IInv, TypeOK, Begin, RunReturns, Terminate, Woken, StartLock,
       Create, CreateFails, Started, Join, JoinTerminated, JoinWait,
       JoinWaitAgain, JoinReturn, Free, FreeWait, FreeReturn, SpuriousWakeup,
       Goto, Thread
  <2> QED
    BY <2>1 DEF IInv, StateInv
<1> QED
  BY <1>1, ThreadInvariant, PTL DEF Spec, JoinReturnsAfterRun

\* The native thread enters its Runnable only after start has set m_state.
THEOREM StartedBeforeRun == Spec => RunsWhenRunnable
<1>1. IInv /\ IInv' /\ [Next]_vars =>
        [pc'[Native] = "running" => state = "RUNNABLE"]_vars
  <2> SUFFICES ASSUME IInv, IInv', Next, pc'[Native] = "running"
               PROVE  state = "RUNNABLE"
    OBVIOUS
  <2>1. pc[Native] \in {"born", "running"}
    BY DEF Next, IInv, TypeOK, Begin, RunReturns, Terminate, Woken, StartLock,
       Create, CreateFails, Started, Join, JoinTerminated, JoinWait,
       JoinWaitAgain, JoinReturn, Free, FreeWait, FreeReturn, SpuriousWakeup,
       Goto, Thread
  <2>2. CASE pc[Native] = "running"
    BY <2>2 DEF IInv, TypeOK, StateInv
  <2>3. CASE pc[Native] = "born" /\ Begin
    BY <2>3 DEF Begin, IInv, TypeOK, StateInv
  <2>4. CASE pc[Native] = "born" /\ ~Begin
    BY <2>4 DEF Next, IInv, TypeOK, RunReturns, Terminate, Woken, StartLock,
       Create, CreateFails, Started, Join, JoinTerminated, JoinWait,
       JoinWaitAgain, JoinReturn, Free, FreeWait, FreeReturn, SpuriousWakeup,
       Goto, Thread
  <2> QED
    BY <2>1, <2>2, <2>3, <2>4
<1> QED
  BY <1>1, ThreadInvariant, PTL DEF Spec, RunsWhenRunnable
=============================================================================
