--------------------------- MODULE SafepointProofs ---------------------------
(***************************************************************************)
(* Proofs about Safepoint, for every set of threads, managers and locks.   *)
(***************************************************************************)
EXTENDS Safepoint, TLAPS

USE ConstantsAssumption

-----------------------------------------------------------------------------
(***************************************************************************)
(* The steps, grouped by what they disturb.                                *)
(***************************************************************************)

\* Steps that change nothing but a thread's control point and the
\* application locks.
Quiet(t) ==
  /\ \/ pc[t] = "run" /\ pc' = pc
     \/ Goto(t, "sleep", "gateExit")
     \/ /\ Goto(t, "run", "lockPlain")
        /\ HasCurrent(t) => status[Current(t)] = "SAFE"
     \/ Goto(t, "lockWait", "gateExit")
     \/ Goto(t, "lockPlain", "run")
     \/ Goto(t, "condWait", "waiting")
     \/ Goto(t, "waiting", "lockWait")
  /\ UNCHANGED <<op, target, depth, manager, status, region, owner, requester,
                 unseen, taskDepth>>

\* Entry to a gate, whatever for.
Gated(t) ==
  \E o \in GateOp : EnterGate(t, o) /\ (o = "leaveWait" => ~InTaskBody(t))

\* The other steps.
Loud(t) ==
  \/ \E m \in Manager : Enter(t, m)
  \/ EnterSafe(t) \/ EnterLock(t) \/ GateSafe(t) \/ GateExit(t)
  \/ Leave(t) \/ LeaveAcquired(t) \/ Unwind(t)
  \/ Request(t) \/ RequestAcquired(t) \/ Publish(t)
  \/ \E r \in Record : SeeSafe(t, r)
  \/ RunTask(t) \/ FinishTask(t) \/ Release(t)

LEMMA StepGroups ==
  ASSUME NEW t \in Thread, Step(t)
  PROVE  Quiet(t) \/ Gated(t) \/ Loud(t)
<1>1. CASE \/ WakeUp(t) \/ LockAcquired(t) \/ CondWait(t) \/ Notified(t)
           \/ \E l \in Lock : \/ LockTry(t, l) \/ LockOutsideGate(t, l)
                              \/ Unlock(t, l)
  BY <1>1 DEF Quiet, WakeUp, LockAcquired, CondWait, Notified, LockTry,
              LockOutsideGate, Unlock, Goto
<1>2. CASE \/ Poll(t) \/ Sleep(t) \/ LeaveInGate(t) \/ RequestInGate(t)
           \/ \E l \in Lock : LockInGate(t, l) \/ MonitorWait(t, l)
  BY <1>2 DEF Gated, GateOp, Poll, Sleep, LeaveInGate, RequestInGate,
              LockInGate, MonitorWait
<1>3. CASE Loud(t)
  BY <1>3
<1> QED
  BY <1>1, <1>2, <1>3 DEF Step, Loud

LEMMA CurrentIsRecord ==
  ASSUME TypeOK, NEW t \in Thread, HasCurrent(t)
  PROVE  /\ Current(t) \in Record
         /\ Current(t)[1] = t
         /\ Current(t)[2] = depth[t]
BY DEF TypeOK, HasCurrent, Current, Record, Depth

LEMMA RecordIsPair ==
  ASSUME NEW r \in Record
  PROVE  r[1] \in Thread /\ r[2] \in Depth /\ r = <<r[1], r[2]>>
BY DEF Record

LEMMA CurManagerIsManager ==
  ASSUME TypeOK, StackInv, NEW t \in Thread, HasCurrent(t)
  PROVE  CurManager(t) \in Manager
BY CurrentIsRecord DEF TypeOK, StackInv, HasCurrent, CurManager, Current, Depth

-----------------------------------------------------------------------------
LEMMA TypeStep ==
  ASSUME TypeOK, StackInv, PhaseInv, [Next]_vars
  PROVE  TypeOK'
<1> USE DEF TypeOK, PC, GateOp, Goto
<1>1. ASSUME NEW t \in Thread, NEW m \in Manager, Enter(t, m)
      PROVE  TypeOK'
  BY <1>1, CurrentIsRecord DEF Enter
<1>2. ASSUME NEW t \in Thread, EnterSafe(t) PROVE TypeOK'
  BY <1>2, CurrentIsRecord DEF EnterSafe, PhaseInv
<1>3. ASSUME NEW t \in Thread, EnterLock(t) PROVE TypeOK'
  BY <1>3 DEF EnterLock, PhaseInv, MakeUnsafe, Record, Depth
<1>4. ASSUME NEW t \in Thread, Gated(t), want' \in [Thread -> Lock \cup {NoLock}]
      PROVE  TypeOK'
  <2>1. PICK o \in GateOp : EnterGate(t, o)
    BY <1>4 DEF Gated
  <2>2. region' \in [Record -> {"known", "stale"}]
    BY <2>1, CurrentIsRecord DEF EnterGate
  <2> QED
    BY <1>4, <2>1, <2>2 DEF EnterGate
<1>5. ASSUME NEW t \in Thread, Poll(t) \/ Sleep(t) PROVE TypeOK'
  BY <1>5, <1>4 DEF Poll, Sleep, EnterGate, Gated
<1>6. ASSUME NEW t \in Thread, LeaveInGate(t) \/ RequestInGate(t) PROVE TypeOK'
  BY <1>6, <1>4 DEF LeaveInGate, RequestInGate, EnterGate, Gated
<1>7. ASSUME NEW t \in Thread, NEW l \in Lock,
             LockInGate(t, l) \/ MonitorWait(t, l)
      PROVE  TypeOK'
  BY <1>7, <1>4 DEF LockInGate, MonitorWait, EnterGate, Gated
<1>8. ASSUME NEW t \in Thread, GateSafe(t) \/ GateExit(t) \/ Unwind(t)
      PROVE  TypeOK'
  BY <1>8, CurrentIsRecord DEF GateSafe, GateExit, Unwind, MakeUnsafe, PhaseInv
<1>9. ASSUME NEW t \in Thread, WakeUp(t) \/ CondWait(t) \/ Notified(t)
      PROVE  TypeOK'
  BY <1>9 DEF WakeUp, CondWait, Notified
<1>10. ASSUME NEW t \in Thread, LockAcquired(t) PROVE TypeOK'
  BY <1>10 DEF LockAcquired
<1>11. ASSUME NEW t \in Thread, NEW l \in Lock,
              LockTry(t, l) \/ LockOutsideGate(t, l) \/ Unlock(t, l)
       PROVE  TypeOK'
  BY <1>11 DEF LockTry, LockOutsideGate, Unlock
<1>12. ASSUME NEW t \in Thread, Leave(t) \/ LeaveAcquired(t) PROVE TypeOK'
  <2>1. HasCurrent(t)
    BY <1>12 DEF Leave, LeaveAcquired, PhaseInv
  <2>2. depth[t] - 1 \in 0..MaxDepth
    BY <2>1 DEF HasCurrent
  <2> QED
    BY <1>12, <2>1, <2>2, CurrentIsRecord
       DEF Leave, LeaveAcquired, Unlink, MakeUnsafe
<1>13. ASSUME NEW t \in Thread, Request(t) \/ RequestAcquired(t) PROVE TypeOK'
  BY <1>13, CurrentIsRecord DEF Request, RequestAcquired, MakeUnsafe, PhaseInv
<1>14. ASSUME NEW t \in Thread, Publish(t) PROVE TypeOK'
  BY <1>14, CurrentIsRecord DEF Publish, PhaseInv, Registered
<1>15. ASSUME NEW t \in Thread, NEW r \in Record, SeeSafe(t, r) PROVE TypeOK'
  <2>1. HasCurrent(t)
    BY <1>15 DEF SeeSafe, PhaseInv
  <2>2. unseen' \in [Manager -> SUBSET Record]
    BY <1>15, <2>1, CurManagerIsManager DEF SeeSafe
  <2> QED
    BY <1>15, <2>2 DEF SeeSafe
<1>16. ASSUME NEW t \in Thread, RunTask(t) \/ FinishTask(t) PROVE TypeOK'
  BY <1>16, CurrentIsRecord DEF RunTask, FinishTask, MakeUnsafe, PhaseInv
<1>17. ASSUME NEW t \in Thread, Release(t) PROVE TypeOK'
  BY <1>17 DEF Release
<1>18. CASE UNCHANGED vars
  BY <1>18 DEF vars
<1> QED
  BY <1>1, <1>2, <1>3, <1>5, <1>6, <1>7, <1>8, <1>9, <1>10, <1>11, <1>12,
     <1>13, <1>14, <1>15, <1>16, <1>17, <1>18 DEF Next, Step

LEMMA StackStep ==
  ASSUME TypeOK, StackInv, PhaseInv, [Next]_vars
  PROVE  StackInv'
<1>1. CASE UNCHANGED <<depth, manager>>
  BY <1>1 DEF StackInv
<1>2. ASSUME NEW t \in Thread, EnterLock(t) PROVE StackInv'
  <2>1. /\ depth[t] < MaxDepth /\ depth[t] \in Nat
        /\ target[t] \in Manager
        /\ <<t, depth[t] + 1>> \in Record
    BY <1>2 DEF TypeOK, PhaseInv, EnterLock, Goto, Record, Depth
  <2> SUFFICES ASSUME NEW u \in Thread, NEW d \in Depth
               PROVE  manager'[<<u, d>>] # NoManager <=> d <= depth'[u]
    BY DEF StackInv
  <2>2. CASE u = t /\ d = depth[t] + 1
    BY <1>2, <2>1, <2>2 DEF TypeOK, EnterLock, Record
  <2>3. CASE ~(u = t /\ d = depth[t] + 1)
    <3>1. manager'[<<u, d>>] = manager[<<u, d>>]
      BY <1>2, <2>1, <2>3 DEF TypeOK, EnterLock, Record
    <3>2. depth'[u] = IF u = t THEN depth[t] + 1 ELSE depth[u]
      BY <1>2 DEF TypeOK, EnterLock
    <3>3. d <= depth'[u] <=> d <= depth[u]
      BY <2>1, <2>3, <3>2 DEF Depth
    <3> QED
      BY <3>1, <3>3 DEF StackInv
  <2> QED
    BY <2>2, <2>3
<1>3. ASSUME NEW t \in Thread, HasCurrent(t), Unlink(t) PROVE StackInv'
  <2>1. depth[t] \in Nat /\ Current(t) \in Record
    BY <1>3, CurrentIsRecord DEF TypeOK
  <2> SUFFICES ASSUME NEW u \in Thread, NEW d \in Depth
               PROVE  manager'[<<u, d>>] # NoManager <=> d <= depth'[u]
    BY DEF StackInv
  <2>2. CASE u = t /\ d = depth[t]
    BY <1>3, <2>1, <2>2 DEF TypeOK, Unlink, Current, Depth, HasCurrent
  <2>3. CASE ~(u = t /\ d = depth[t])
    <3>1. manager'[<<u, d>>] = manager[<<u, d>>]
      BY <1>3, <2>1, <2>3 DEF TypeOK, Unlink, Current, Record
    <3>2. depth'[u] = IF u = t THEN depth[t] - 1 ELSE depth[u]
      BY <1>3 DEF TypeOK, Unlink
    <3>3. d <= depth'[u] <=> d <= depth[u]
      BY <2>1, <2>3, <3>2 DEF Depth
    <3> QED
      BY <3>1, <3>3 DEF StackInv
  <2> QED
    BY <2>2, <2>3
<1>4. ASSUME NEW t \in Thread, Step(t) PROVE StackInv'
  <2>1. CASE Quiet(t) \/ Gated(t)
    BY <2>1, <1>1 DEF Quiet, Gated, EnterGate
  <2>2. CASE Leave(t) \/ LeaveAcquired(t)
    BY <2>2, <1>3 DEF Leave, LeaveAcquired, PhaseInv, Goto
  <2>3. CASE EnterLock(t)
    BY <2>3, <1>2
  <2>4. CASE Loud(t) /\ ~(Leave(t) \/ LeaveAcquired(t) \/ EnterLock(t))
    BY <2>4, <1>1 DEF Loud, Enter, EnterSafe, GateSafe, GateExit, Unwind,
       Request, RequestAcquired, Publish, SeeSafe, RunTask, FinishTask, Release
  <2> QED
    BY <1>4, <2>1, <2>2, <2>3, <2>4, StepGroups
<1> QED
  BY <1>1, <1>4 DEF Next, vars

-----------------------------------------------------------------------------
(***************************************************************************)
(* What a step of one thread leaves to another: its control point, its     *)
(* stack, and every manager whose request mutex it holds.                  *)
(***************************************************************************)

\* A task that is running in the code of t belongs to t's current manager.
LEMMA TaskOfCurrentManager ==
  ASSUME IInv, NEW t \in Thread, HasCurrent(t), InTaskBody(t)
  PROVE  /\ CurManager(t) \in Manager
         /\ owner[CurManager(t)] = t
         /\ taskDepth[CurManager(t)] = depth[t]
         /\ TaskRunning(CurManager(t))
<1>1. PICK m \in Manager :
        owner[m] = t /\ TaskRunning(m) /\ taskDepth[m] = depth[t]
  BY DEF InTaskBody
<1>2. CurManager(t) = m
  BY <1>1 DEF IInv, TaskInv, CurManager, Current
<1> QED
  BY <1>1, <1>2

LEMMA OwnsCurrentManager ==
  ASSUME IInv, NEW t \in Thread,
         pc[t] \in {"requestLocked", "walk", "taskDone"}
  PROVE  /\ HasCurrent(t)
         /\ CurManager(t) \in Manager
         /\ owner[CurManager(t)] = t
         /\ ~TaskRunning(CurManager(t))
         /\ pc[t] = "walk" => requester[CurManager(t)] = t
BY CurManagerIsManager DEF IInv, PhaseInv

Keeps(u) ==
  /\ pc'[u] = pc[u] /\ depth'[u] = depth[u] /\ target'[u] = target[u]
  /\ op'[u] = op[u]
  /\ \A d \in Depth : /\ manager'[<<u, d>>] = manager[<<u, d>>]
                      /\ status'[<<u, d>>] = status[<<u, d>>]
                      /\ region'[<<u, d>>] = region[<<u, d>>]

KeepsManagers(u) ==
  \A m \in Manager :
    /\ owner'[m] = u <=> owner[m] = u
    /\ owner[m] = u => /\ taskDepth'[m] = taskDepth[m]
                       /\ requester'[m] = requester[m]
                       /\ unseen'[m] = unseen[m]

LEMMA OthersKeep ==
  ASSUME IInv, NEW t \in Thread, Step(t), NEW u \in Thread, u # t
  PROVE  Keeps(u)
<1> USE DEF IInv, TypeOK, Goto, Keeps, Record
<1>1. CASE Quiet(t)
  BY <1>1 DEF Quiet
<1>2. CASE Gated(t)
  <2>1. PICK o \in GateOp : EnterGate(t, o)
    BY <1>2 DEF Gated
  <2> QED
    BY <2>1 DEF EnterGate, Current
<1>3. ASSUME NEW m \in Manager, Enter(t, m) PROVE Keeps(u)
  BY <1>3 DEF Enter, Current
<1>4. CASE EnterSafe(t) \/ GateSafe(t) \/ Publish(t)
  BY <1>4 DEF EnterSafe, GateSafe, Publish, Current
<1>5. CASE EnterLock(t)
  BY <1>5 DEF EnterLock, MakeUnsafe
<1>6. CASE \/ GateExit(t) \/ Unwind(t) \/ Request(t) \/ RequestAcquired(t)
           \/ FinishTask(t)
  BY <1>6 DEF GateExit, Unwind, Request, RequestAcquired, FinishTask,
              MakeUnsafe, Current
<1>7. CASE Leave(t) \/ LeaveAcquired(t)
  BY <1>7 DEF Leave, LeaveAcquired, Unlink, MakeUnsafe, Current
<1>8. CASE (\E r \in Record : SeeSafe(t, r)) \/ RunTask(t) \/ Release(t)
  BY <1>8 DEF SeeSafe, RunTask, Release
<1> QED
  BY <1>1, <1>2, <1>3, <1>4, <1>5, <1>6, <1>7, <1>8, StepGroups DEF Loud

LEMMA OthersKeepManagers ==
  ASSUME IInv, NEW t \in Thread, Step(t), NEW u \in Thread, u # t
  PROVE  KeepsManagers(u)
<1> USE DEF KeepsManagers
<1>1. CASE UNCHANGED <<owner, requester, unseen, taskDepth>>
  BY <1>1
<1>2. CASE Request(t) \/ RequestAcquired(t)
  BY <1>2 DEF Request, RequestAcquired, IInv, TypeOK
<1>3. CASE \/ Publish(t) \/ RunTask(t) \/ Release(t)
           \/ \E r \in Record : SeeSafe(t, r)
  <2>1. CurManager(t) \in Manager /\ owner[CurManager(t)] = t
    BY <1>3, OwnsCurrentManager DEF Publish, RunTask, Release, SeeSafe, Goto
  <2> QED
    BY <1>3, <2>1 DEF Publish, RunTask, Release, SeeSafe, IInv, TypeOK
<1>4. CASE FinishTask(t)
  <2>1. CurManager(t) \in Manager /\ owner[CurManager(t)] = t
    BY <1>4, TaskOfCurrentManager DEF FinishTask
  <2> QED
    BY <1>4, <2>1 DEF FinishTask, IInv, TypeOK
<1>5. CASE Quiet(t) \/ Gated(t)
  BY <1>1, <1>5 DEF Quiet, Gated, EnterGate
<1>6. CASE \/ \E m \in Manager : Enter(t, m)
           \/ EnterSafe(t) \/ EnterLock(t) \/ GateSafe(t) \/ GateExit(t)
           \/ Leave(t) \/ LeaveAcquired(t) \/ Unwind(t)
  BY <1>1, <1>6 DEF Enter, EnterSafe, EnterLock, GateSafe, GateExit, Leave,
                    LeaveAcquired, Unlink, Unwind
<1> QED
  BY <1>2, <1>3, <1>4, <1>5, <1>6, StepGroups DEF Loud

LEMMA OthersUndisturbed ==
  ASSUME IInv, NEW t \in Thread, Step(t), NEW u \in Thread, u # t
  PROVE  /\ HasCurrent(u)' <=> HasCurrent(u)
         /\ Current(u)' = Current(u)
         /\ HasCurrent(u) => /\ CurManager(u)' = CurManager(u)
                             /\ (status[Current(u)])' = status[Current(u)]
         /\ InTaskBody(u)' <=> InTaskBody(u)
<1>1. Keeps(u) /\ KeepsManagers(u)
  BY OthersKeep, OthersKeepManagers
<1>2. HasCurrent(u) => depth[u] \in Depth
  BY DEF IInv, TypeOK, HasCurrent, Depth
<1>3. InTaskBody(u)' <=> InTaskBody(u)
  BY <1>1 DEF Keeps, KeepsManagers, InTaskBody, TaskRunning
<1> QED
  BY <1>1, <1>2, <1>3 DEF Keeps, HasCurrent, Current, CurManager

LEMMA OthersMutate ==
  ASSUME IInv, NEW t \in Thread, Step(t), NEW u \in Thread, u # t,
         NEW m \in Manager
  PROVE  Mutating(u, m)' <=> Mutating(u, m)
BY OthersKeep, OthersUndisturbed DEF Keeps, Mutating

-----------------------------------------------------------------------------
(***************************************************************************)
(* The phases of a request, of the thread that makes it.                   *)
(***************************************************************************)

\* PhaseInv for one thread.
Phase(t) ==
  /\ pc[t] \notin {"run", "enterLock", "lockPlain"} => HasCurrent(t)
  /\ pc[t] \in {"enterSafe", "enterLock"} =>
       depth[t] < MaxDepth /\ target[t] # NoManager
  /\ pc[t] \in {"requestLocked", "walk", "taskDone"} =>
       owner[CurManager(t)] = t /\ ~TaskRunning(CurManager(t))
  /\ pc[t] = "walk" => requester[CurManager(t)] = t
  /\ pc[t] = "lockPlain" /\ HasCurrent(t) => InTaskBody(t)
  /\ pc[t] = "leaveWait" \/ (pc[t] = "gateSafe" /\ op[t] = "leaveWait")
       => ~InTaskBody(t)

\* An unchanged stack and unchanged managers leave the terms of Phase alone.
LEMMA SameStack ==
  ASSUME NEW t \in Thread, UNCHANGED <<depth, manager>>
  PROVE  /\ HasCurrent(t)' <=> HasCurrent(t)
         /\ Current(t)' = Current(t)
         /\ CurManager(t)' = CurManager(t)
BY DEF HasCurrent, Current, CurManager

LEMMA PhaseOwn ==
  ASSUME IInv, NEW t \in Thread, Step(t)
  PROVE  Phase(t)'
<1> USE DEF Goto
<1>0. pc \in [Thread -> PC] /\ Phase(t)
  BY DEF IInv, TypeOK, PhaseInv, Phase
<1>1. CASE Quiet(t)
  <2>1. /\ HasCurrent(t)' <=> HasCurrent(t)
        /\ CurManager(t)' = CurManager(t)
        /\ Current(t)' = Current(t)
        /\ InTaskBody(t)' <=> InTaskBody(t)
    BY <1>1, SameStack DEF Quiet, InTaskBody, TaskRunning
  <2>2. CASE Goto(t, "run", "lockPlain") /\ (HasCurrent(t) => status[Current(t)] = "SAFE")
    <3>1. HasCurrent(t) => InTaskBody(t)
      BY <2>2, CurManagerIsManager DEF IInv, RunInv, Mutating
    <3> QED
      BY <1>0, <2>1, <2>2, <3>1 DEF Phase
  <2>3. CASE \/ pc[t] = "run" /\ pc' = pc
             \/ Goto(t, "sleep", "gateExit")
             \/ Goto(t, "lockWait", "gateExit")
             \/ Goto(t, "lockPlain", "run")
             \/ Goto(t, "condWait", "waiting")
             \/ Goto(t, "waiting", "lockWait")
    BY <1>0, <2>1, <2>3 DEF Phase
  <2> QED
    BY <1>1, <2>2, <2>3 DEF Quiet
<1>2. CASE Gated(t) \/ GateSafe(t) \/ GateExit(t) \/ Unwind(t)
  <2>1. HasCurrent(t)' /\ pc'[t] \in GateOp \cup {"gateSafe", "run"}
    BY <1>0, <1>2, SameStack
       DEF Gated, EnterGate, GateSafe, GateExit, Unwind, IInv, TypeOK, Phase
  <2>2. InTaskBody(t)' <=> InTaskBody(t)
    BY <1>2 DEF Gated, EnterGate, GateSafe, GateExit, Unwind, InTaskBody,
                TaskRunning
  <2>3. pc'[t] = "leaveWait" \/ (pc'[t] = "gateSafe" /\ op'[t] = "leaveWait")
          => ~InTaskBody(t)
    <3>1. CASE GateSafe(t)
      BY <1>0, <3>1 DEF GateSafe, Phase
    <3>2. CASE GateExit(t) \/ Unwind(t)
      BY <1>0, <3>2 DEF GateExit, Unwind
    <3>3. CASE Gated(t)
      BY <1>0, <3>3 DEF Gated, EnterGate, IInv, TypeOK
    <3> QED
      BY <1>2, <3>1, <3>2, <3>3
  <2> QED
    BY <2>1, <2>2, <2>3 DEF Phase, GateOp
<1>3. ASSUME NEW m \in Manager, Enter(t, m) PROVE Phase(t)'
  <2>1. /\ pc'[t] = IF HasCurrent(t) THEN "enterSafe" ELSE "enterLock"
        /\ HasCurrent(t)' <=> HasCurrent(t)
        /\ depth'[t] < MaxDepth /\ target'[t] = m
    BY <1>0, <1>3, SameStack DEF Enter, IInv, TypeOK
  <2>2. m # NoManager
    OBVIOUS
  <2>3. CASE HasCurrent(t)
    BY <2>1, <2>2, <2>3 DEF Phase
  <2>4. CASE ~HasCurrent(t)
    BY <2>1, <2>2, <2>4 DEF Phase
  <2> QED
    BY <2>3, <2>4
<1>4. CASE EnterSafe(t)
  <2>1. /\ pc[t] = "enterSafe" /\ pc'[t] = "enterLock"
        /\ target' = target /\ depth' = depth
    BY <1>0, <1>4 DEF EnterSafe
  <2> QED
    BY <1>0, <2>1 DEF Phase
<1>5. CASE EnterLock(t)
  BY <1>0, <1>5 DEF EnterLock, Phase
<1>6. CASE Leave(t) \/ LeaveAcquired(t)
  <2>1. /\ depth[t] \in Nat /\ HasCurrent(t)
        /\ depth'[t] = depth[t] - 1
        /\ pc'[t] = IF depth[t] > 1 THEN "unwind" ELSE "run"
    BY <1>0, <1>6 DEF Leave, LeaveAcquired, Unlink, IInv, TypeOK, Phase
  <2> QED
    BY <2>1 DEF Phase, HasCurrent
<1>7. CASE Request(t) \/ RequestAcquired(t)
  <2>1. /\ HasCurrent(t) /\ HasCurrent(t)'
        /\ CurManager(t)' = CurManager(t)
        /\ CurManager(t) \in Manager
    BY <1>0, <1>7, SameStack, CurManagerIsManager
       DEF Request, RequestAcquired, Phase, IInv
  <2>2. owner'[CurManager(t)] = t /\ owner[CurManager(t)] = NoThread
    BY <1>7, <2>1 DEF Request, RequestAcquired, IInv, TypeOK
  <2>3. ~TaskRunning(CurManager(t)) /\ taskDepth' = taskDepth
    BY <1>7, <2>1, <2>2 DEF IInv, TaskInv, WalkInv, Request, RequestAcquired
  <2>4. pc'[t] = "requestLocked"
    BY <1>0, <1>7 DEF Request, RequestAcquired
  <2> QED
    BY <2>1, <2>2, <2>3, <2>4 DEF Phase, TaskRunning
<1>8. CASE Publish(t) \/ \E r \in Record : SeeSafe(t, r)
  <2>1. /\ HasCurrent(t) /\ HasCurrent(t)'
        /\ CurManager(t)' = CurManager(t)
        /\ CurManager(t) \in Manager
        /\ owner[CurManager(t)] = t /\ ~TaskRunning(CurManager(t))
        /\ pc[t] = "walk" => requester[CurManager(t)] = t
    BY <1>8, SameStack, OwnsCurrentManager DEF Publish, SeeSafe
  <2>2. requester'[CurManager(t)] = t
    BY <1>8, <2>1 DEF Publish, SeeSafe, IInv, TypeOK
  <2>3. pc'[t] = "walk" /\ owner' = owner /\ taskDepth' = taskDepth
    BY <1>0, <1>8 DEF Publish, SeeSafe
  <2> QED
    BY <2>1, <2>2, <2>3 DEF Phase, TaskRunning
<1>9. CASE RunTask(t) \/ Release(t)
  BY <1>0, <1>9 DEF RunTask, Release, Phase
<1>10. CASE FinishTask(t)
  <2>1. /\ HasCurrent(t) /\ HasCurrent(t)'
        /\ CurManager(t)' = CurManager(t)
        /\ CurManager(t) \in Manager
        /\ owner[CurManager(t)] = t
    BY <1>10, SameStack, TaskOfCurrentManager DEF FinishTask
  <2>2. /\ taskDepth'[CurManager(t)] = 0 /\ owner' = owner
        /\ pc'[t] = "taskDone"
    BY <1>0, <1>10, <2>1 DEF FinishTask, IInv, TypeOK
  <2> QED
    BY <2>1, <2>2 DEF Phase, TaskRunning
<1> QED
  BY <1>1, <1>2, <1>3, <1>4, <1>5, <1>6, <1>7, <1>8, <1>9, <1>10, StepGroups
     DEF Loud

LEMMA PhaseStep ==
  ASSUME IInv, NEW t \in Thread, Step(t)
  PROVE  PhaseInv'
<1> SUFFICES ASSUME NEW u \in Thread PROVE Phase(u)'
  BY DEF PhaseInv, Phase
<1>1. CASE u = t
  BY <1>1, PhaseOwn
<1>2. CASE u # t
  <2>1. Keeps(u) /\ KeepsManagers(u) /\ Phase(u)
    BY <1>2, OthersKeep, OthersKeepManagers DEF IInv, PhaseInv, Phase
  <2>2. /\ HasCurrent(u)' <=> HasCurrent(u)
        /\ HasCurrent(u) => CurManager(u)' = CurManager(u)
        /\ InTaskBody(u)' <=> InTaskBody(u)
    BY <1>2, OthersUndisturbed
  <2>3. HasCurrent(u) => CurManager(u) \in Manager
    BY CurManagerIsManager DEF IInv
  <2> QED
    BY <2>1, <2>2, <2>3 DEF Phase, Keeps, KeepsManagers, TaskRunning
<1> QED
  BY <1>1, <1>2

-----------------------------------------------------------------------------
LEMMA RunStep ==
  ASSUME IInv, NEW t \in Thread, Step(t)
  PROVE  RunInv'
<1> DEFINE Runs(u) ==
             /\ \A m \in Manager : Mutating(u, m) => status[Current(u)] = "UNSAFE"
             /\ pc[u] = "taskDone" => status[Current(u)] = "UNSAFE"
<1> SUFFICES ASSUME NEW u \in Thread PROVE Runs(u)'
  BY DEF RunInv
<1>0. pc \in [Thread -> PC] /\ Runs(u) /\ Phase(u)
  BY DEF IInv, TypeOK, PhaseInv, Phase, RunInv
<1>1. CASE u # t
  <2>1. /\ HasCurrent(u)' <=> HasCurrent(u)
        /\ HasCurrent(u) => (status[Current(u)])' = status[Current(u)]
        /\ pc'[u] = pc[u]
        /\ \A m \in Manager : Mutating(u, m)' <=> Mutating(u, m)
    BY <1>1, OthersUndisturbed, OthersKeep, OthersMutate DEF Keeps
  <2>2. \A m \in Manager : Mutating(u, m) => HasCurrent(u)
    BY DEF Mutating
  <2> QED
    BY <1>0, <2>1, <2>2 DEF Phase
<1>2. CASE u = t
  <2> SUFFICES ASSUME \/ pc'[t] = "run" /\ HasCurrent(t)' /\ ~InTaskBody(t)'
                      \/ pc'[t] = "taskDone"
               PROVE  (status[Current(t)])' = "UNSAFE"
    BY <1>2 DEF Mutating
  <2> USE DEF Goto
  <2>1. CASE Quiet(t)
    <3>1. /\ HasCurrent(t)' <=> HasCurrent(t)
          /\ (status[Current(t)])' = status[Current(t)]
          /\ InTaskBody(t)' <=> InTaskBody(t)
      BY <2>1, SameStack DEF Quiet, InTaskBody, TaskRunning
    <3>2. pc[t] = "run"
      BY <1>0, <1>2, <2>1, <3>1 DEF Quiet, Phase
    <3>3. HasCurrent(t) => CurManager(t) \in Manager
      BY CurManagerIsManager DEF IInv
    <3> QED
      BY <1>0, <1>2, <2>1, <3>1, <3>2, <3>3 DEF Quiet, Mutating
  <2>2. CASE Gated(t) \/ EnterSafe(t) \/ GateSafe(t)
             \/ \E m \in Manager : Enter(t, m)
    <3>1. pc'[t] \in GateOp \cup {"gateSafe", "enterSafe", "enterLock"}
      BY <1>0, <2>2 DEF Gated, EnterGate, EnterSafe, GateSafe, Enter, IInv, TypeOK
    <3> QED
      BY <3>1 DEF GateOp
  <2>3. CASE GateExit(t) \/ Unwind(t) \/ FinishTask(t)
    <3>1. HasCurrent(t)
      BY <1>0, <1>2, <2>3 DEF GateExit, Unwind, FinishTask, Phase
    <3> QED
      BY <2>3, <3>1, CurrentIsRecord, SameStack
         DEF GateExit, Unwind, FinishTask, MakeUnsafe, IInv, TypeOK
  <2>4. CASE EnterLock(t)
    <3>1. depth[t] \in 0..MaxDepth /\ depth[t] < MaxDepth
      BY <1>0, <1>2, <2>4 DEF EnterLock, Phase, IInv, TypeOK
    <3>2. Current(t)' = <<t, depth[t] + 1>> /\ <<t, depth[t] + 1>> \in Record
      BY <2>4, <3>1 DEF EnterLock, Current, IInv, TypeOK, Record, Depth
    <3> QED
      BY <2>4, <3>2 DEF EnterLock, MakeUnsafe, IInv, TypeOK
  <2>5. CASE Leave(t) \/ LeaveAcquired(t)
    <3>1. depth'[t] = depth[t] - 1 /\ depth[t] \in Nat /\ HasCurrent(t)
      BY <1>0, <1>2, <2>5 DEF Leave, LeaveAcquired, Unlink, IInv, TypeOK, Phase
    <3>2. pc'[t] = "run" /\ depth[t] > 1 => FALSE
      BY <1>0, <2>5 DEF Leave, LeaveAcquired
    <3>3. pc'[t] \in {"run", "unwind"}
      BY <1>0, <2>5 DEF Leave, LeaveAcquired
    <3> QED
      BY <3>1, <3>2, <3>3 DEF HasCurrent
  <2>6. CASE \/ Request(t) \/ RequestAcquired(t) \/ Publish(t)
             \/ \E r \in Record : SeeSafe(t, r)
    <3>1. pc'[t] \in {"requestLocked", "walk"}
      BY <1>0, <2>6 DEF Request, RequestAcquired, Publish, SeeSafe
    <3> QED
      BY <3>1
  <2>7. CASE RunTask(t)
    <3>1. /\ CurManager(t) \in Manager /\ owner[CurManager(t)] = t
          /\ HasCurrent(t)
      BY <2>7, OwnsCurrentManager DEF RunTask
    <3>2. /\ taskDepth'[CurManager(t)] = depth[t] /\ depth[t] # 0
          /\ owner' = owner /\ depth' = depth
      BY <2>7, <3>1 DEF RunTask, IInv, TypeOK, HasCurrent
    <3>3. InTaskBody(t)'
      BY <3>1, <3>2 DEF InTaskBody, TaskRunning
    <3>4. pc'[t] = "run"
      BY <1>0, <2>7 DEF RunTask
    <3> QED
      BY <3>3, <3>4
  <2>8. CASE Release(t)
    BY <1>0, <1>2, <2>8, SameStack DEF Release
  <2> QED
    BY <2>1, <2>2, <2>3, <2>4, <2>5, <2>6, <2>7, <2>8, StepGroups DEF Loud
<1> QED
  BY <1>1, <1>2

-----------------------------------------------------------------------------
(***************************************************************************)
(* The request mutex shuts every other thread out of the records of its    *)
(* manager: none is linked, unlinked or made SP_UNSAFE.                    *)
(***************************************************************************)
LEMMA LockedOut ==
  ASSUME IInv, NEW t \in Thread, Step(t),
         NEW m \in Manager, owner[m] \notin {NoThread, t},
         NEW r \in Record
  PROVE  /\ manager'[r] = m <=> manager[r] = m
         /\ manager[r] = m /\ status[r] = "SAFE" => status'[r] = "SAFE"
<1> USE DEF Goto
<1>0. /\ manager \in [Record -> Manager \cup {NoManager}]
      /\ status \in [Record -> {"SAFE", "UNSAFE"}]
      /\ owner[m] # t
  BY DEF IInv, TypeOK
<1>1. CASE UNCHANGED <<manager, status>>
  BY <1>1
<1>2. CASE EnterSafe(t) \/ GateSafe(t) \/ Publish(t)
  BY <1>0, <1>2 DEF EnterSafe, GateSafe, Publish
<1>3. CASE EnterLock(t)
  <2>1. /\ depth[t] \in Nat
        /\ target[t] # m
        /\ depth[t] + 1 \in Depth
        /\ manager[<<t, depth[t] + 1>>] = NoManager
    BY <1>0, <1>3 DEF EnterLock, CanLock, PhaseInv, IInv, TypeOK, StackInv, Depth
  <2> QED
    BY <1>0, <1>3, <2>1 DEF EnterLock, MakeUnsafe, Record
<1>4. CASE GateExit(t) \/ Unwind(t) \/ RequestAcquired(t)
  <2>1. CurManager(t) # m
    BY <1>0, <1>4 DEF GateExit, Unwind, RequestAcquired, CanLock
  <2> QED
    BY <1>0, <1>4, <2>1 DEF GateExit, Unwind, RequestAcquired, MakeUnsafe, CurManager
<1>5. CASE Leave(t) \/ LeaveAcquired(t)
  <2>1. CurManager(t) # m
    BY <1>0, <1>5 DEF Leave, LeaveAcquired, CanLock
  <2> QED
    BY <1>0, <1>5, <2>1 DEF Leave, LeaveAcquired, Unlink, MakeUnsafe, CurManager
<1>6. CASE FinishTask(t)
  <2>1. CurManager(t) # m
    BY <1>0, <1>6, TaskOfCurrentManager DEF FinishTask
  <2> QED
    BY <1>0, <1>6, <2>1 DEF FinishTask, MakeUnsafe, CurManager
<1>7. CASE \/ Quiet(t) \/ Gated(t) \/ Request(t) \/ RunTask(t) \/ Release(t)
           \/ (\E q \in Record : SeeSafe(t, q)) \/ \E n \in Manager : Enter(t, n)
  BY <1>1, <1>7 DEF Quiet, Gated, EnterGate, Request, RunTask, Release, SeeSafe, Enter
<1> QED
  BY <1>2, <1>3, <1>4, <1>5, <1>6, <1>7, StepGroups DEF Loud

-----------------------------------------------------------------------------
LEMMA WalkStep ==
  ASSUME IInv, NEW t \in Thread, Step(t)
  PROVE  WalkInv'
<1> SUFFICES ASSUME NEW m \in Manager, requester'[m] # NoThread
             PROVE  /\ owner'[m] = requester'[m]
                    /\ \A r \in Record :
                         manager'[r] = m /\ r \notin unseen'[m]
                         /\ r[1] # owner'[m] => status'[r] = "SAFE"
  BY DEF WalkInv, Registered
<1> USE DEF Goto
<1>0. /\ owner[m] \in Thread \cup {NoThread}
      /\ requester[m] # NoThread =>
           /\ owner[m] = requester[m]
           /\ \A r \in Record :
                manager[r] = m /\ r \notin unseen[m] /\ r[1] # owner[m]
                  => status[r] = "SAFE"
  BY DEF IInv, TypeOK, WalkInv, Registered
<1>1. CASE requester[m] \notin {NoThread, t}
  <2>1. owner[m] \in Thread /\ owner[m] # t /\ owner[m] = requester[m]
    BY <1>0, <1>1
  <2>2. owner'[m] = owner[m] /\ requester'[m] = requester[m]
        /\ unseen'[m] = unseen[m]
    BY <2>1, OthersKeepManagers DEF KeepsManagers
  <2> SUFFICES ASSUME NEW r \in Record, manager'[r] = m, r \notin unseen[m],
                      r[1] # owner[m]
               PROVE  status'[r] = "SAFE"
    BY <2>1, <2>2
  <2> QED
    BY <1>0, <1>1, <2>1, LockedOut
<1>2. CASE requester[m] = t
  <2>1. owner[m] = t
    BY <1>0, <1>2
  <2>2. ~Release(t) \/ CurManager(t) # m
    BY OwnsCurrentManager DEF Release, IInv, TypeOK
  <2>3. requester'[m] = t /\ owner'[m] = t
    <3>1. CASE Release(t)
      BY <1>2, <2>1, <2>2, <3>1 DEF Release, IInv, TypeOK
    <3>2. CASE Request(t) \/ RequestAcquired(t) \/ Publish(t)
      BY <1>2, <2>1, <3>2 DEF Request, RequestAcquired, Publish, IInv, TypeOK
    <3>3. CASE Quiet(t) \/ Gated(t)
      BY <1>2, <2>1, <3>3 DEF Quiet, Gated, EnterGate
    <3>4. CASE Loud(t) /\ ~(Release(t) \/ Request(t) \/ RequestAcquired(t)
                           \/ Publish(t))
      BY <1>2, <2>1, <3>4 DEF Loud, Enter, EnterSafe, EnterLock, GateSafe,
         GateExit, Leave, LeaveAcquired, Unlink, Unwind, SeeSafe, RunTask,
         FinishTask
    <3> QED
      BY <3>1, <3>2, <3>3, <3>4, StepGroups
  <2> SUFFICES ASSUME NEW r \in Record, manager'[r] = m, r \notin unseen'[m],
                      r[1] # t
               PROVE  status'[r] = "SAFE"
    BY <2>3
  <2>4. manager[r] = m /\ status'[r] = status[r]
    BY RecordIsPair, OthersKeep DEF Keeps
  <2>5. CASE r \notin unseen[m]
    BY <1>0, <1>2, <2>1, <2>4, <2>5
  <2>6. CASE r \in unseen[m]
    <3>1. CASE Publish(t)
      <4>1. CurManager(t) # m
        BY <2>4, <2>6, <3>1 DEF Publish, Registered, IInv, TypeOK
      <4> QED
        BY <2>6, <3>1, <4>1 DEF Publish, IInv, TypeOK
    <3>2. ASSUME NEW q \in Record, SeeSafe(t, q) PROVE status'[r] = "SAFE"
      BY <2>4, <2>6, <3>2 DEF SeeSafe, IInv, TypeOK
    <3>3. CASE Quiet(t) \/ Gated(t)
      BY <2>6, <3>3 DEF Quiet, Gated, EnterGate
    <3>4. CASE Loud(t) /\ ~(Publish(t) \/ \E q \in Record : SeeSafe(t, q))
      BY <2>6, <3>4 DEF Loud, Enter, EnterSafe, EnterLock, GateSafe,
         GateExit, Leave, LeaveAcquired, Unlink, Unwind, Request,
         RequestAcquired, RunTask, FinishTask, Release
    <3> QED
      BY <3>1, <3>2, <3>3, <3>4, StepGroups
  <2> QED
    BY <2>5, <2>6
<1>3. CASE requester[m] = NoThread
  <2>1. Publish(t) /\ CurManager(t) = m
    <3>1. CASE Release(t)
      BY <1>3, <3>1, OwnsCurrentManager DEF Release, IInv, TypeOK
    <3>2. CASE Publish(t)
      BY <1>3, <3>2, OwnsCurrentManager DEF Publish, IInv, TypeOK
    <3>3. CASE Quiet(t) \/ Gated(t)
      BY <1>3, <3>3 DEF Quiet, Gated, EnterGate
    <3>4. CASE Loud(t) /\ ~(Publish(t) \/ Release(t))
      BY <1>3, <3>4 DEF Loud, Enter, EnterSafe, EnterLock, GateSafe,
         GateExit, Leave, LeaveAcquired, Unlink, Unwind, Request,
         RequestAcquired, SeeSafe, RunTask, FinishTask
    <3> QED
      BY <3>1, <3>2, <3>3, <3>4, StepGroups
  <2>2. owner[m] = t
    BY <2>1, OwnsCurrentManager DEF Publish
  <2>3. /\ owner'[m] = t /\ requester'[m] = t /\ manager' = manager
        /\ unseen'[m] = Registered(m)
    BY <2>1, <2>2 DEF Publish, IInv, TypeOK
  <2> QED
    BY <2>3 DEF Registered
<1> QED
  BY <1>0, <1>1, <1>2, <1>3

-----------------------------------------------------------------------------
LEMMA TaskStep ==
  ASSUME IInv, NEW t \in Thread, Step(t)
  PROVE  TaskInv'
<1> DEFINE Task(m) == /\ requester[m] # NoThread
                      /\ unseen[m] = {}
                      /\ taskDepth[m] <= depth[owner[m]]
                      /\ manager[<<owner[m], taskDepth[m]>>] = m
<1> SUFFICES ASSUME NEW m \in Manager, TaskRunning(m)' PROVE Task(m)'
  BY DEF TaskInv
<1> USE DEF Goto
<1>0. /\ owner[m] \in Thread \cup {NoThread}
      /\ TaskRunning(m) => Task(m) /\ owner[m] = requester[m]
      /\ TaskRunning(m) => taskDepth[m] \in Depth
      /\ taskDepth[m] \in 0..MaxDepth
  BY DEF IInv, TypeOK, TaskInv, WalkInv, TaskRunning, Depth
<1>1. CASE owner[m] \notin {NoThread, t}
  <2>1. owner[m] \in Thread /\ owner[m] # t
    BY <1>0, <1>1
  <2>2. Keeps(owner[m]) /\ KeepsManagers(owner[m])
    BY <2>1, OthersKeep, OthersKeepManagers
  <2> QED
    BY <1>0, <2>1, <2>2 DEF KeepsManagers, Keeps, TaskRunning
<1>2. CASE owner[m] \in {NoThread, t} /\ RunTask(t) /\ CurManager(t) = m
  <2>1. /\ owner[m] = t /\ requester[m] = t /\ HasCurrent(t)
    BY <1>2, OwnsCurrentManager DEF RunTask
  <2>2. /\ taskDepth'[m] = depth[t] /\ unseen[m] = {}
        /\ UNCHANGED <<depth, manager, owner, requester, unseen>>
    BY <1>2 DEF RunTask, IInv, TypeOK
  <2>3. depth[t] <= depth[t]
    BY DEF IInv, TypeOK
  <2> QED
    BY <1>2, <2>1, <2>2, <2>3 DEF CurManager, Current
<1>3. CASE owner[m] \in {NoThread, t} /\ ~(RunTask(t) /\ CurManager(t) = m)
  <2>1. TaskRunning(m) /\ taskDepth'[m] = taskDepth[m]
    <3>1. CASE RunTask(t)
      BY <1>3, <3>1 DEF RunTask, TaskRunning, IInv, TypeOK
    <3>2. CASE FinishTask(t)
      <4>1. CurManager(t) # m
        BY <1>0, <3>2 DEF FinishTask, TaskRunning, IInv, TypeOK
      <4> QED
        BY <3>2, <4>1 DEF FinishTask, TaskRunning, IInv, TypeOK
    <3>3. CASE Quiet(t) \/ Gated(t)
      BY <3>3 DEF Quiet, Gated, EnterGate, TaskRunning
    <3>4. CASE Loud(t) /\ ~(RunTask(t) \/ FinishTask(t))
      BY <3>4 DEF Loud, Enter, EnterSafe, EnterLock, GateSafe, GateExit,
         Leave, LeaveAcquired, Unlink, Unwind, Request, RequestAcquired,
         Publish, SeeSafe, Release, TaskRunning
    <3> QED
      BY <3>1, <3>2, <3>3, <3>4, StepGroups
  <2>2. Task(m) /\ owner[m] = t /\ requester[m] = t /\ taskDepth[m] \in Depth
    BY <1>0, <1>3, <2>1
  <2>3. CASE UNCHANGED <<depth, manager, owner, requester, unseen>>
    BY <2>1, <2>2, <2>3
  <2>4. CASE EnterLock(t)
    <3>1. depth[t] \in Nat /\ depth'[t] = depth[t] + 1
      BY <2>4 DEF EnterLock, IInv, TypeOK
    <3>2. taskDepth[m] # depth[t] + 1
      BY <2>2, <3>1 DEF Depth
    <3>3. manager'[<<t, taskDepth[m]>>] = manager[<<t, taskDepth[m]>>]
      BY <2>2, <2>4, <3>2 DEF EnterLock, IInv, TypeOK, Record
    <3>4. UNCHANGED <<owner, requester, unseen>>
      BY <2>4 DEF EnterLock
    <3> QED
      BY <2>1, <2>2, <3>1, <3>3, <3>4 DEF Depth
  <2>5. CASE Leave(t) \/ LeaveAcquired(t)
    <3>1. ~InTaskBody(t)
      BY <2>5 DEF Leave, LeaveAcquired, IInv, PhaseInv
    <3>2. taskDepth[m] # depth[t]
      BY <2>1, <2>2, <3>1 DEF InTaskBody
    <3>3. /\ depth[t] \in Nat /\ depth'[t] = depth[t] - 1
          /\ UNCHANGED <<owner, requester, unseen>>
      BY <2>5 DEF Leave, LeaveAcquired, Unlink, IInv, TypeOK
    <3>4. manager'[<<t, taskDepth[m]>>] = manager[<<t, taskDepth[m]>>]
      BY <2>2, <2>5, <3>2 DEF Leave, LeaveAcquired, Unlink, Current, IInv,
                              TypeOK, Record
    <3> QED
      BY <2>1, <2>2, <3>2, <3>3, <3>4 DEF Depth
  <2>6. CASE Request(t) \/ RequestAcquired(t)
    BY <2>1, <2>2, <2>6 DEF Request, RequestAcquired, IInv, TypeOK
  <2>7. CASE Publish(t) \/ Release(t) \/ \E r \in Record : SeeSafe(t, r)
    <3>1. CurManager(t) # m
      BY <2>1, <2>7, OwnsCurrentManager DEF Publish, Release, SeeSafe
    <3>2. /\ owner'[m] = owner[m] /\ requester'[m] = requester[m]
          /\ unseen'[m] = unseen[m] /\ UNCHANGED <<depth, manager>>
      BY <2>7, <3>1 DEF Publish, Release, SeeSafe, IInv, TypeOK
    <3> QED
      BY <2>1, <2>2, <3>2
  <2>8. CASE \/ Quiet(t) \/ Gated(t) \/ EnterSafe(t) \/ GateSafe(t)
             \/ GateExit(t) \/ Unwind(t) \/ RunTask(t) \/ FinishTask(t)
             \/ \E n \in Manager : Enter(t, n)
    BY <2>3, <2>8 DEF Quiet, Gated, EnterGate, EnterSafe, GateSafe, GateExit,
                      Unwind, RunTask, FinishTask, Enter
  <2> QED
    BY <2>4, <2>5, <2>6, <2>7, <2>8, StepGroups DEF Loud
<1> QED
  BY <1>0, <1>1, <1>2, <1>3

-----------------------------------------------------------------------------
LEMMA RegionStep ==
  ASSUME IInv, NEW t \in Thread, Step(t)
  PROVE  RegionInv'
<1> DEFINE Region(r) ==
             /\ status[r] = "SAFE" /\ ~RequestRecord(r) => region[r] = "known"
             /\ pc[r[1]] \in {"enterSafe", "gateSafe"} /\ r = Current(r[1])
                  => region[r] = "known"
<1> SUFFICES ASSUME NEW r \in Record PROVE Region(r)'
  BY DEF RegionInv
<1> USE DEF Goto
<1>0. /\ r[1] \in Thread /\ r[2] \in Depth /\ r = <<r[1], r[2]>>
      /\ Region(r)
  BY RecordIsPair DEF IInv, RegionInv
<1>1. CASE r[1] # t
  <2>1. Keeps(r[1]) /\ KeepsManagers(r[1])
    BY <1>0, <1>1, OthersKeep, OthersKeepManagers
  <2>2. RequestRecord(r)' <=> RequestRecord(r)
    BY <2>1 DEF Keeps, KeepsManagers, RequestRecord, TaskRunning
  <2>3. status'[r] = status[r] /\ region'[r] = region[r]
    BY <1>0, <2>1 DEF Keeps
  <2>4. pc'[r[1]] = pc[r[1]] /\ Current(r[1])' = Current(r[1])
    BY <2>1 DEF Keeps, Current
  <2> QED
    BY <1>0, <2>2, <2>3, <2>4
<1>2. CASE r[1] = t
  <2> USE <1>2
  <2>0. /\ pc \in [Thread -> PC]
        /\ status \in [Record -> {"SAFE", "UNSAFE"}]
        /\ region \in [Record -> {"known", "stale"}]
        /\ \A u \in Thread : HasCurrent(u) => Current(u) \in Record
        /\ Phase(t)
    BY CurrentIsRecord DEF IInv, TypeOK, PhaseInv, Phase
  <2>1. CASE Quiet(t)
    <3>1. /\ pc'[t] \notin {"walk", "enterSafe", "gateSafe"}
          /\ pc[t] # "walk"
      BY <2>0, <2>1 DEF Quiet
    <3>2. RequestRecord(r)' <=> RequestRecord(r)
      BY <2>1, <3>1 DEF Quiet, RequestRecord, TaskRunning
    <3> QED
      BY <1>0, <2>1, <3>1, <3>2 DEF Quiet
  <2>2. CASE Gated(t) \/ \E m \in Manager : Enter(t, m)
    <3>1. /\ pc[t] = "run" /\ pc'[t] \in {"gateSafe", "enterSafe", "enterLock"}
          /\ pc'[t] # "enterLock" => HasCurrent(t)
          /\ UNCHANGED <<depth, manager, status, owner, taskDepth>>
      BY <2>0, <2>2 DEF Gated, EnterGate, Enter
    <3>2. region' = IF HasCurrent(t)
                    THEN [region EXCEPT ![Current(t)] = "known"] ELSE region
      BY <2>2 DEF Gated, EnterGate, Enter
    <3>3. RequestRecord(r)' <=> RequestRecord(r)
      BY <3>1 DEF RequestRecord, TaskRunning
    <3>4. region[r] = "known" => region'[r] = "known"
      BY <2>0, <3>2
    <3>5. HasCurrent(t) /\ r = Current(t) => region'[r] = "known"
      BY <2>0, <3>2
    <3> QED
      BY <1>0, <3>1, <3>3, <3>4, <3>5, SameStack
  <2>3. CASE EnterSafe(t) \/ GateSafe(t)
    <3>1. /\ pc[t] \in {"enterSafe", "gateSafe"}
          /\ pc'[t] \in GateOp \cup {"enterLock"}
          /\ UNCHANGED <<depth, manager, region, owner, taskDepth>>
          /\ status' = [status EXCEPT ![Current(t)] = "SAFE"]
      BY <2>0, <2>3 DEF EnterSafe, GateSafe, IInv, TypeOK
    <3>2. RequestRecord(r)' <=> RequestRecord(r)
      BY <3>1 DEF RequestRecord, TaskRunning, GateOp
    <3> QED
      BY <1>0, <2>0, <3>1, <3>2 DEF GateOp
  <2>4. CASE EnterLock(t)
    <3>1. /\ pc[t] # "walk" /\ pc'[t] = "run"
          /\ UNCHANGED <<owner, taskDepth>>
          /\ MakeUnsafe(<<t, depth[t] + 1>>)
      BY <2>0, <2>4 DEF EnterLock
    <3>2. RequestRecord(r)' <=> RequestRecord(r)
      BY <3>1 DEF RequestRecord, TaskRunning
    <3> QED
      BY <1>0, <2>0, <3>1, <3>2 DEF MakeUnsafe
  <2>5. CASE GateExit(t) \/ Unwind(t) \/ Leave(t) \/ LeaveAcquired(t)
    <3>1. /\ pc[t] # "walk" /\ pc'[t] \in {"run", "unwind"}
          /\ UNCHANGED <<owner, taskDepth>>
          /\ MakeUnsafe(Current(t))
      BY <2>0, <2>5 DEF GateExit, Unwind, Leave, LeaveAcquired, Unlink
    <3>2. RequestRecord(r)' <=> RequestRecord(r)
      BY <3>1 DEF RequestRecord, TaskRunning
    <3> QED
      BY <1>0, <2>0, <3>1, <3>2 DEF MakeUnsafe
  <2>6. CASE Request(t) \/ RequestAcquired(t)
    <3>1. /\ pc[t] # "walk" /\ pc'[t] = "requestLocked"
          /\ taskDepth' = taskDepth
          /\ MakeUnsafe(Current(t)) \/ UNCHANGED <<status, region>>
      BY <2>0, <2>6 DEF Request, RequestAcquired
    <3>2. RequestRecord(r) => RequestRecord(r)'
      <4> SUFFICES ASSUME NEW m \in Manager, owner[m] = t
                   PROVE  owner'[m] = t
        BY <3>1 DEF RequestRecord, TaskRunning
      <4> QED
        BY <2>6 DEF Request, RequestAcquired, IInv, TypeOK
    <3> QED
      BY <1>0, <2>0, <3>1, <3>2 DEF MakeUnsafe
  <2>7. CASE Publish(t)
    <3>1. /\ pc[t] # "walk" /\ pc'[t] = "walk"
          /\ UNCHANGED <<depth, region, owner, taskDepth>>
          /\ status' = [status EXCEPT ![Current(t)] = "SAFE"]
      BY <2>0, <2>7 DEF Publish
    <3>2. CASE r = Current(t)
      BY <3>1, <3>2 DEF RequestRecord, Current
    <3>3. CASE r # Current(t)
      <4>1. RequestRecord(r) => RequestRecord(r)'
        BY <3>1 DEF RequestRecord, TaskRunning
      <4> QED
        BY <1>0, <2>0, <3>1, <3>3, <4>1
    <3> QED
      BY <3>2, <3>3
  <2>8. CASE \E q \in Record : SeeSafe(t, q)
    <3>1. UNCHANGED <<pc, depth, manager, status, region, owner, taskDepth>>
      BY <2>8 DEF SeeSafe
    <3> QED
      BY <1>0, <3>1 DEF RequestRecord, TaskRunning, Current
  <2>9. CASE RunTask(t)
    <3>1. /\ pc[t] = "walk" /\ pc'[t] = "run"
          /\ UNCHANGED <<depth, manager, status, region, owner>>
          /\ taskDepth' = [taskDepth EXCEPT ![CurManager(t)] = depth[t]]
      BY <2>0, <2>9 DEF RunTask
    <3>2. /\ CurManager(t) \in Manager /\ owner[CurManager(t)] = t
          /\ ~TaskRunning(CurManager(t)) /\ depth[t] # 0
      BY <3>1, OwnsCurrentManager DEF HasCurrent, IInv, TypeOK
    <3>3. RequestRecord(r) => RequestRecord(r)'
      <4>1. CASE r[2] = depth[t]
        BY <3>1, <3>2, <4>1 DEF RequestRecord, TaskRunning, IInv, TypeOK
      <4>2. CASE r[2] # depth[t]
        BY <3>1, <3>2, <4>2 DEF RequestRecord, TaskRunning, IInv, TypeOK
      <4> QED
        BY <4>1, <4>2
    <3> QED
      BY <1>0, <3>1, <3>3
  <2>10. CASE FinishTask(t)
    <3>1. /\ pc[t] = "run" /\ pc'[t] = "taskDone"
          /\ UNCHANGED <<depth, manager, owner>>
          /\ MakeUnsafe(Current(t))
          /\ taskDepth' = [taskDepth EXCEPT ![CurManager(t)] = 0]
      BY <2>0, <2>10 DEF FinishTask
    <3>2. taskDepth[CurManager(t)] = depth[t]
      BY <2>10, TaskOfCurrentManager DEF FinishTask
    <3>3. CASE r = Current(t)
      BY <2>0, <3>1, <3>3 DEF MakeUnsafe
    <3>4. CASE r # Current(t)
      <4>1. r[2] # depth[t]
        BY <1>0, <3>4 DEF Current
      <4>2. RequestRecord(r) => RequestRecord(r)'
        BY <3>1, <3>2, <4>1 DEF RequestRecord, TaskRunning, IInv, TypeOK
      <4> QED
        BY <1>0, <2>0, <3>1, <3>4, <4>2 DEF MakeUnsafe
    <3> QED
      BY <3>3, <3>4
  <2>11. CASE Release(t)
    <3>1. /\ pc[t] = "taskDone" /\ pc'[t] = "run"
          /\ UNCHANGED <<depth, manager, status, region, taskDepth>>
          /\ owner' = [owner EXCEPT ![CurManager(t)] = NoThread]
      BY <2>0, <2>11 DEF Release
    <3>2. ~TaskRunning(CurManager(t))
      BY <3>1, OwnsCurrentManager
    <3>3. RequestRecord(r) => RequestRecord(r)'
      BY <3>1, <3>2 DEF RequestRecord, TaskRunning, IInv, TypeOK
    <3> QED
      BY <1>0, <3>1, <3>3
  <2> QED
    BY <2>1, <2>2, <2>3, <2>4, <2>5, <2>6, <2>7, <2>8, <2>9, <2>10, <2>11,
       StepGroups DEF Loud
<1> QED
  BY <1>1, <1>2

LEMMA StoppedNow == ASSUME IInv PROVE MutatorsStopped
<1> SUFFICES ASSUME NEW m \in Manager, TaskRunning(m), NEW t \in Thread,
                    Mutating(t, m), t # owner[m]
             PROVE  FALSE
  BY DEF MutatorsStopped
<1>1. HasCurrent(t) /\ CurManager(t) = m /\ status[Current(t)] = "UNSAFE"
  BY DEF IInv, RunInv, Mutating
<1>2. Current(t) \in Record /\ Current(t)[1] = t
  BY <1>1, CurrentIsRecord DEF IInv
<1>3. Current(t) \in Registered(m) \ unseen[m]
  BY <1>1, <1>2 DEF IInv, TaskInv, Registered, CurManager
<1> QED
  BY <1>1, <1>2, <1>3 DEF IInv, TaskInv, WalkInv

-----------------------------------------------------------------------------
(***************************************************************************)
(* The theorems.                                                           *)
(***************************************************************************)

\* The invariant of the protocol holds in every state: the lists, the phases
\* of every request and what a requester has seen agree with each other.
THEOREM InductiveInvariant == Spec => []IInv
<1>1. Init => IInv
  <2> SUFFICES ASSUME Init PROVE IInv
    OBVIOUS
  <2>1. TypeOK
    BY DEF Init, TypeOK, PC, GateOp
  <2>2. StackInv
    <3> SUFFICES ASSUME NEW t \in Thread, NEW d \in Depth
                 PROVE  manager[<<t, d>>] = NoManager /\ ~(d <= depth[t])
      BY DEF StackInv
    <3> QED
      BY DEF Init, Record, Depth
  <2>3. PhaseInv
    <3>1. \A t \in Thread : pc[t] = "run"
      BY DEF Init
    <3> QED
      BY <3>1 DEF PhaseInv
  <2>4. RunInv
    <3>1. \A t \in Thread : pc[t] = "run" /\ depth[t] = 0
      BY DEF Init
    <3>2. ASSUME NEW t \in Thread PROVE ~HasCurrent(t)
      <4>1. depth[t] = 0 /\ ~(0 > 0)
        BY <3>1
      <4> QED
        BY <4>1 DEF HasCurrent
    <3>3. \A t \in Thread : pc[t] # "taskDone"
      BY <3>1
    <3>4. \A t \in Thread, m \in Manager : ~Mutating(t, m)
      BY <3>2 DEF Mutating
    <3> QED
      BY <3>3, <3>4, Zenon DEF RunInv
  <2>5. RegionInv
    BY DEF Init, RegionInv, Record
  <2>6. WalkInv /\ TaskInv
    BY DEF Init, WalkInv, TaskInv, TaskRunning
  <2> QED
    BY <2>1, <2>2, <2>3, <2>4, <2>5, <2>6 DEF IInv
<1>2. IInv /\ [Next]_vars => IInv'
  <2> SUFFICES ASSUME IInv, [Next]_vars PROVE IInv'
    OBVIOUS
  <2>1. TypeOK' /\ StackInv'
    BY TypeStep, StackStep DEF IInv
  <2>2. ASSUME NEW t \in Thread, Step(t)
        PROVE  PhaseInv' /\ RunInv' /\ RegionInv' /\ WalkInv' /\ TaskInv'
    BY <2>2, PhaseStep, RunStep, RegionStep, WalkStep, TaskStep
  <2>3. CASE UNCHANGED vars
    <3>1. PhaseInv'
      BY <2>3 DEF vars, IInv, PhaseInv, HasCurrent, CurManager, Current,
                  TaskRunning, InTaskBody
    <3>2. RunInv'
      BY <2>3 DEF vars, IInv, RunInv, Mutating, HasCurrent, CurManager,
                  Current, TaskRunning, InTaskBody
    <3>3. RegionInv'
      BY <2>3 DEF vars, IInv, RegionInv, RequestRecord, TaskRunning, Current
    <3>4. WalkInv' /\ TaskInv'
      BY <2>3 DEF vars, IInv, WalkInv, TaskInv, Registered, TaskRunning
    <3> QED
      BY <3>1, <3>2, <3>3, <3>4, <2>1 DEF IInv
  <2> QED
    BY <2>1, <2>2, <2>3 DEF Next, IInv
<1> QED
  BY <1>1, <1>2, PTL DEF Spec

\* Type correctness, for every number of threads, managers and locks.
THEOREM TypeCorrect == Spec => []TypeOK
<1>1. IInv => TypeOK
  BY DEF IInv
<1> QED
  BY <1>1, InductiveInvariant, PTL

\* While a task of m runs, no other thread executes code in m's context.
THEOREM TaskRunsAlone == Spec => []MutatorsStopped
<1>1. IInv => MutatorsStopped
  BY StoppedNow
<1> QED
  BY <1>1, InductiveInvariant, PTL

\* The safe regions a task may read are those of records that are safe now.
THEOREM TaskReadsKnownRegions == Spec => []SafeRegionsKnown
<1>1. IInv => SafeRegionsKnown
  <2> SUFFICES ASSUME IInv, NEW m \in Manager, TaskRunning(m),
                      NEW r \in Registered(m), r[1] # owner[m]
               PROVE  status[r] = "SAFE" /\ region[r] = "known"
    BY DEF SafeRegionsKnown
  <2>1. /\ r \in Record /\ manager[r] = m /\ r \notin unseen[m]
        /\ requester[m] # NoThread
    BY DEF IInv, TaskInv, Registered
  <2>2. status[r] = "SAFE"
    BY <2>1 DEF IInv, WalkInv
  <2>3. ~RequestRecord(r)
    <3>1. /\ r = <<r[1], r[2]>> /\ r[1] \in Thread
      BY <2>1, RecordIsPair
    <3>2. ASSUME pc[r[1]] = "walk", r[2] = depth[r[1]] PROVE FALSE
      <4>1. owner[CurManager(r[1])] = r[1] /\ CurManager(r[1]) = manager[r]
        BY <3>1, <3>2, OwnsCurrentManager DEF CurManager, Current
      <4> QED
        BY <2>1, <4>1
    <3>3. ASSUME NEW n \in Manager, owner[n] = r[1], TaskRunning(n),
                 r[2] = taskDepth[n]
          PROVE  FALSE
      <4>1. manager[r] = n
        BY <3>1, <3>3 DEF IInv, TaskInv
      <4> QED
        BY <2>1, <3>3, <4>1
    <3> QED
      BY <3>2, <3>3 DEF RequestRecord
  <2> QED
    BY <2>1, <2>2, <2>3 DEF IInv, RegionInv
<1> QED
  BY <1>1, InductiveInvariant, PTL

\* A pending or ongoing task freezes its manager's list of records against
\* every thread but the requester.
THEOREM ListFrozenDuringRequest == Spec => MembershipFrozen
<1>1. IInv /\ [Next]_vars =>
        [\A m \in Manager : requester[m] # NoThread =>
           \A r \in Record :
             (manager[r] = m) # (manager'[r] = m) => r[1] = requester[m]]_vars
  <2> SUFFICES ASSUME IInv, NEW t \in Thread, Step(t),
                      NEW m \in Manager, requester[m] # NoThread,
                      NEW r \in Record, r[1] # requester[m]
               PROVE  manager'[r] = m <=> manager[r] = m
    BY DEF Next
  <2>1. owner[m] = requester[m]
    BY DEF IInv, WalkInv
  <2>2. CASE requester[m] = t
    <3>1. r[1] \in Thread /\ r[1] # t /\ r[2] \in Depth /\ r = <<r[1], r[2]>>
      BY <2>2, RecordIsPair
    <3> QED
      BY <3>1, OthersKeep DEF Keeps
  <2>3. CASE requester[m] # t
    BY <2>1, <2>3, LockedOut
  <2> QED
    BY <2>2, <2>3
<1> QED
  BY <1>1, InductiveInvariant, PTL DEF Spec, MembershipFrozen

-----------------------------------------------------------------------------
(***************************************************************************)
(* The protocol implements SafepointAbs.                                   *)
(***************************************************************************)
AbsMutators == [m \in Manager |-> {t \in Thread : Mutating(t, m)}]
AbsTask == [m \in Manager |-> IF TaskRunning(m) THEN owner[m] ELSE NoThread]

\* A step other than the start and the end of a task starts or stops the
\* stepping thread's own code, not both.
LEMMA OwnCode ==
  ASSUME IInv, NEW t \in Thread, Step(t), ~RunTask(t)
  PROVE  \/ \A m \in Manager : Mutating(t, m)' <=> Mutating(t, m)
         \/ \A m \in Manager : ~Mutating(t, m)'
         \/ \A m \in Manager : ~Mutating(t, m)
<1> USE DEF Goto
<1>0. pc \in [Thread -> PC] /\ op[t] \in GateOp
  BY DEF IInv, TypeOK
<1>1. CASE pc[t] # "run" \/ pc'[t] # "run"
  BY <1>1 DEF Mutating
<1>2. CASE pc[t] = "run" /\ pc'[t] = "run"
  <2>1. CASE Quiet(t)
    <3>1. /\ HasCurrent(t)' <=> HasCurrent(t)
          /\ CurManager(t)' = CurManager(t)
          /\ InTaskBody(t)' <=> InTaskBody(t)
      BY <2>1, SameStack DEF Quiet, InTaskBody, TaskRunning
    <3> QED
      BY <1>2, <3>1 DEF Mutating
  <2>2. CASE Leave(t)
    <3>1. depth'[t] = depth[t] - 1 /\ depth[t] \in 0..MaxDepth /\ ~(depth[t] > 1)
      BY <1>0, <1>2, <2>2 DEF Leave, Unlink, IInv, TypeOK
    <3>2. ~HasCurrent(t)'
      BY <3>1 DEF HasCurrent
    <3> QED
      BY <3>2 DEF Mutating
  <2>3. CASE Gated(t) \/ (Loud(t) /\ ~Leave(t))
    BY <1>0, <1>2, <2>3
       DEF Gated, EnterGate, Loud, Enter, EnterSafe, EnterLock, GateSafe,
           GateExit, LeaveAcquired, Unwind, Request, RequestAcquired, Publish,
           SeeSafe, FinishTask, Release
  <2> QED
    BY <2>1, <2>2, <2>3, StepGroups
<1> QED
  BY <1>1, <1>2

LEMMA OnlyOneManager ==
  ASSUME NEW t \in Thread, NEW m \in Manager, NEW n \in Manager,
         Mutating(t, m), Mutating(t, n)
  PROVE  m = n
BY DEF Mutating

\* Tasks start and finish in RunTask and FinishTask only.
LEMMA TasksUnchanged ==
  ASSUME IInv, NEW t \in Thread, Step(t), ~RunTask(t), ~FinishTask(t)
  PROVE  AbsTask' = AbsTask
<1> SUFFICES ASSUME NEW m \in Manager
             PROVE  /\ TaskRunning(m)' <=> TaskRunning(m)
                    /\ TaskRunning(m) => owner'[m] = owner[m]
  BY DEF AbsTask
<1>1. taskDepth' = taskDepth
  BY StepGroups DEF Quiet, Gated, EnterGate, Loud, Enter, EnterSafe, EnterLock,
     GateSafe, GateExit, Leave, LeaveAcquired, Unlink, Unwind, Request,
     RequestAcquired, Publish, SeeSafe, Release
<1>2. CASE Request(t) \/ RequestAcquired(t) \/ Release(t)
  <2>1. TaskRunning(m) => owner[m] # NoThread
    BY DEF IInv, TaskInv, WalkInv
  <2>2. Release(t) => ~TaskRunning(CurManager(t))
    BY OwnsCurrentManager DEF Release, Goto
  <2> QED
    BY <1>1, <1>2, <2>1, <2>2
       DEF Request, RequestAcquired, Release, TaskRunning, IInv, TypeOK
<1>3. CASE UNCHANGED owner
  BY <1>1, <1>3 DEF TaskRunning
<1> QED
  BY <1>2, <1>3, StepGroups
     DEF Quiet, Gated, EnterGate, Loud, Enter, EnterSafe, EnterLock, GateSafe,
         GateExit, Leave, LeaveAcquired, Unlink, Unwind, Publish, SeeSafe,
         RunTask, FinishTask

\* While a task runs in the body of t, nobody executes in its manager.
LEMMA NobodyInTask ==
  ASSUME IInv, NEW t \in Thread, HasCurrent(t), InTaskBody(t)
  PROVE  /\ AbsMutators[CurManager(t)] = {}
         /\ AbsTask[CurManager(t)] = t
         /\ \A m \in Manager : ~Mutating(t, m)
<1>1. /\ CurManager(t) \in Manager /\ owner[CurManager(t)] = t
      /\ TaskRunning(CurManager(t))
  BY TaskOfCurrentManager
<1>2. \A m \in Manager : ~Mutating(t, m)
  BY DEF Mutating
<1>3. \A u \in Thread : ~Mutating(u, CurManager(t))
  BY <1>1, <1>2, StoppedNow DEF MutatorsStopped
<1> QED
  BY <1>1, <1>2, <1>3 DEF AbsMutators, AbsTask

\* The same fact of the state a step leads to.
LEMMA StoppedThen == IInv => MutatorsStopped
BY StoppedNow

LEMMA StoppedNext == IInv' => MutatorsStopped'
BY StoppedThen, PTL

LEMMA AbsStep ==
  ASSUME IInv, IInv', NEW t \in Thread, Step(t)
  PROVE  \/ AbsMutators' = AbsMutators /\ AbsTask' = AbsTask
         \/ \E m \in Manager :
              \/ /\ AbsTask[m] \in {NoThread, t}
                 /\ AbsMutators' = [AbsMutators EXCEPT ![m] = @ \cup {t}]
                 /\ AbsTask' = AbsTask
              \/ /\ AbsMutators' = [AbsMutators EXCEPT ![m] = @ \ {t}]
                 /\ AbsTask' = AbsTask
              \/ /\ AbsTask[m] = NoThread /\ AbsMutators[m] = {}
                 /\ AbsTask' = [AbsTask EXCEPT ![m] = t]
                 /\ AbsMutators' = AbsMutators
              \/ /\ AbsTask[m] = t /\ AbsMutators[m] = {}
                 /\ AbsTask' = [AbsTask EXCEPT ![m] = NoThread]
                 /\ AbsMutators' = AbsMutators
<1>0. \A u \in Thread : u # t =>
        \A m \in Manager : Mutating(u, m)' <=> Mutating(u, m)
  BY OthersMutate
<1>1. CASE RunTask(t)
  <2>0. PICK c \in Manager : c = CurManager(t)
    BY <1>1, OwnsCurrentManager DEF RunTask, Goto
  <2>1. /\ owner[c] = t /\ ~TaskRunning(c) /\ HasCurrent(t)
    BY <1>1, <2>0, OwnsCurrentManager DEF RunTask, Goto
  <2>2. /\ taskDepth' = [taskDepth EXCEPT ![c] = depth[t]]
        /\ UNCHANGED <<depth, manager, owner>>
    BY <1>1, <2>0 DEF RunTask
  <2>3. depth[t] # 0
    BY <2>1 DEF HasCurrent, IInv, TypeOK
  <2>4. taskDepth'[c] = depth[t] /\ owner'[c] = t /\ depth'[t] = depth[t]
    BY <2>1, <2>2 DEF IInv, TypeOK
  <2>5. HasCurrent(t)' /\ InTaskBody(t)' /\ CurManager(t)' = c
    <3>1. InTaskBody(t)'
      BY <2>3, <2>4 DEF InTaskBody, TaskRunning
    <3> QED
      BY <2>0, <2>1, <2>2, <3>1, SameStack
  <2>6. \A m \in Manager : ~Mutating(t, m) /\ ~Mutating(t, m)'
    BY <1>1, <2>5 DEF RunTask, Goto, Mutating
  <2>7. AbsMutators' = AbsMutators
    BY <1>0, <2>6 DEF AbsMutators
  <2>8. ASSUME NEW u \in Thread, Mutating(u, c) PROVE FALSE
    <3>1. u # t /\ Mutating(u, c)'
      BY <1>0, <2>6, <2>8
    <3>2. u = owner'[c]
      BY <2>3, <2>4, <3>1, StoppedNext DEF MutatorsStopped, TaskRunning
    <3> QED
      BY <2>4, <3>1, <3>2
  <2>9. AbsTask' = [AbsTask EXCEPT ![c] = t]
    BY <2>1, <2>2, <2>3 DEF AbsTask, TaskRunning, IInv, TypeOK
  <2>10. AbsTask[c] = NoThread /\ AbsMutators[c] = {}
    BY <2>1, <2>8 DEF AbsTask, AbsMutators
  <2> QED
    BY <2>7, <2>9, <2>10
<1>2. CASE FinishTask(t)
  <2> DEFINE c == CurManager(t)
  <2>1. /\ c \in Manager /\ AbsMutators[c] = {} /\ AbsTask[c] = t
        /\ \A m \in Manager : ~Mutating(t, m)
    BY <1>2, NobodyInTask, TaskOfCurrentManager DEF FinishTask
  <2>2. \A m \in Manager : ~Mutating(t, m)'
    BY <1>2 DEF FinishTask, Goto, Mutating, IInv, TypeOK
  <2>3. AbsMutators' = AbsMutators
    BY <1>0, <2>1, <2>2 DEF AbsMutators
  <2>4. AbsTask' = [AbsTask EXCEPT ![c] = NoThread]
    BY <1>2, <2>1 DEF FinishTask, AbsTask, TaskRunning, IInv, TypeOK
  <2> QED
    BY <2>1, <2>3, <2>4
<1>3. CASE ~RunTask(t) /\ ~FinishTask(t)
  <2>1. AbsTask' = AbsTask
    BY <1>3, TasksUnchanged
  <2>2. CASE \A m \in Manager : Mutating(t, m)' <=> Mutating(t, m)
    BY <1>0, <2>1, <2>2 DEF AbsMutators
  <2>3. ASSUME \A m \in Manager : ~Mutating(t, m)', NEW c \in Manager,
               Mutating(t, c)
        PROVE  AbsMutators' = [AbsMutators EXCEPT ![c] = @ \ {t}]
    <3>1. \A m \in Manager : m # c => ~Mutating(t, m)
      BY <2>3, OnlyOneManager
    <3> QED
      BY <1>0, <2>3, <3>1 DEF AbsMutators
  <2>4. ASSUME \A m \in Manager : ~Mutating(t, m), NEW c \in Manager,
               Mutating(t, c)'
        PROVE  /\ AbsMutators' = [AbsMutators EXCEPT ![c] = @ \cup {t}]
               /\ AbsTask[c] \in {NoThread, t}
    <3>1. \A m \in Manager : m # c => ~Mutating(t, m)'
      BY <2>4 DEF Mutating
    <3>2. AbsMutators' = [AbsMutators EXCEPT ![c] = @ \cup {t}]
      BY <1>0, <2>4, <3>1 DEF AbsMutators
    <3>3. MutatorsStopped'
      BY StoppedNext
    <3>4. AbsTask'[c] \in {NoThread, t}
      BY <2>4, <3>3 DEF MutatorsStopped, AbsTask
    <3> QED
      BY <2>1, <3>2, <3>4
  <2>5. CASE (\A m \in Manager : ~Mutating(t, m)')
             \/ (\A m \in Manager : ~Mutating(t, m))
    BY <2>1, <2>2, <2>3, <2>4, <2>5
  <2> QED
    BY <1>3, <2>2, <2>5, OwnCode
<1> QED
  BY <1>1, <1>2, <1>3

\* The records, gates and mutexes of Safepoint implement the serial, exclusive
\* tasks of SafepointAbs, for every number of threads, managers and nestings.
THEOREM Refinement == Spec => ImplementsAbs
<1>1. Init => Abs!AbsInit
  <2> SUFFICES ASSUME Init PROVE Abs!AbsInit
    OBVIOUS
  <2>1. ASSUME NEW t \in Thread, NEW m \in Manager PROVE ~Mutating(t, m)
    <3>1. depth[t] = 0
      BY DEF Init
    <3>2. depth[t] = 0 /\ ~(0 > 0)
      BY <3>1
    <3>3. ~HasCurrent(t)
      BY <3>2 DEF HasCurrent
    <3> QED
      BY <3>3 DEF Mutating
  <2>2. \A m \in Manager : ~TaskRunning(m)
    BY DEF Init, TaskRunning
  <2> QED
    BY <2>1, <2>2 DEF Abs!AbsInit
<1>2. IInv /\ IInv' /\ [Next]_vars => [Abs!AbsNext]_(Abs!absVars)
  <2> SUFFICES ASSUME IInv, IInv', [Next]_vars
               PROVE  [Abs!AbsNext]_(Abs!absVars)
    OBVIOUS
  <2>1. ASSUME NEW t \in Thread, Step(t) PROVE [Abs!AbsNext]_(Abs!absVars)
    BY <2>1, AbsStep DEF AbsMutators, AbsTask, Abs!AbsNext, Abs!absVars,
       Abs!BeginCode, Abs!EndCode, Abs!StartTask, Abs!EndTask
  <2>2. CASE UNCHANGED vars
    BY <2>2 DEF vars, Abs!absVars, Mutating, HasCurrent, CurManager, Current,
                InTaskBody, TaskRunning
  <2> QED
    BY <2>1, <2>2 DEF Next
<1> QED
  BY <1>1, <1>2, InductiveInvariant, PTL DEF Spec, ImplementsAbs, Abs!AbsSpec

-----------------------------------------------------------------------------
(* Records below and above the current one.                                 *)

\* The current record of a thread in "enterLock" is about to be buried.
Nested(t) ==
  /\ \A d \in Depth : d < depth[t] => status[<<t, d>>] = "SAFE"
  /\ \A d \in Depth : d > depth[t] => status[<<t, d>>] = "UNSAFE"
  /\ pc[t] = "enterLock" => \A d \in Depth : d = depth[t] => status[<<t, d>>] = "SAFE"

NestInv == \A t \in Thread : Nested(t)

LEMMA NestedOwn ==
  ASSUME IInv, NEW t \in Thread, Step(t), Nested(t)
  PROVE  Nested(t)'
<1> USE DEF Goto
<1>1. /\ pc \in [Thread -> PC] /\ op[t] \in GateOp
      /\ depth \in [Thread -> 0..MaxDepth]
      /\ status \in [Record -> {"SAFE", "UNSAFE"}]
      /\ \A d \in Depth : <<t, d>> \in Record
  BY DEF IInv, TypeOK, Record
<1>2. depth[t] \in Nat /\ Depth \subseteq Nat
  BY <1>1 DEF Depth
<1>3. CASE Quiet(t) \/ Gated(t) \/ Request(t) \/ RunTask(t) \/ Release(t)
           \/ \E r \in Record : SeeSafe(t, r)
  <2>1. depth' = depth /\ status' = status /\ (pc'[t] = "enterLock" => pc[t] = "enterLock")
    BY <1>1, <1>3 DEF Quiet, Gated, EnterGate, Request, RunTask, Release, SeeSafe
  <2> QED
    BY <2>1 DEF Nested
<1>4. CASE \E m \in Manager : Enter(t, m)
  <2>1. /\ depth' = depth /\ status' = status
        /\ pc'[t] = "enterLock" => depth[t] = 0
    BY <1>1, <1>2, <1>4 DEF Enter, HasCurrent
  <2>2. \A d \in Depth : d # 0
    BY DEF Depth
  <2> QED
    BY <2>1, <2>2 DEF Nested
<1>5. CASE EnterSafe(t) \/ GateSafe(t) \/ Publish(t)
  <2>1. depth' = depth /\ status' = [status EXCEPT ![<<t, depth[t]>>] = "SAFE"]
    BY <1>5 DEF EnterSafe, GateSafe, Publish, Current
  <2>2. \A d \in Depth : status'[<<t, d>>] = IF d = depth[t] THEN "SAFE" ELSE status[<<t, d>>]
    BY <1>1, <2>1
  <2> QED
    BY <1>2, <2>1, <2>2 DEF Nested
<1>6. CASE GateExit(t) \/ Unwind(t) \/ RequestAcquired(t) \/ FinishTask(t)
  <2>1. /\ depth' = depth /\ status' = [status EXCEPT ![<<t, depth[t]>>] = "UNSAFE"]
        /\ pc'[t] # "enterLock"
    BY <1>1, <1>6 DEF GateExit, Unwind, RequestAcquired, FinishTask, MakeUnsafe, Current
  <2>2. \A d \in Depth : status'[<<t, d>>] = IF d = depth[t] THEN "UNSAFE" ELSE status[<<t, d>>]
    BY <1>1, <2>1
  <2> QED
    BY <1>2, <2>1, <2>2 DEF Nested
<1>7. CASE Leave(t) \/ LeaveAcquired(t)
  <2>1. /\ depth'[t] = depth[t] - 1 /\ pc'[t] # "enterLock"
        /\ status' = [status EXCEPT ![<<t, depth[t]>>] = "UNSAFE"]
    BY <1>1, <1>7 DEF Leave, LeaveAcquired, Unlink, MakeUnsafe, Current
  <2>2. \A d \in Depth : status'[<<t, d>>] = IF d = depth[t] THEN "UNSAFE" ELSE status[<<t, d>>]
    BY <1>1, <2>1
  <2>3. ASSUME NEW d \in Depth, d < depth'[t] PROVE status'[<<t, d>>] = "SAFE"
    <3>1. d < depth[t] /\ d # depth[t]
      BY <1>2, <2>1, <2>3
    <3> QED
      BY <2>2, <3>1 DEF Nested
  <2>4. ASSUME NEW d \in Depth, d > depth'[t] PROVE status'[<<t, d>>] = "UNSAFE"
    <3>1. d = depth[t] \/ d > depth[t]
      BY <1>2, <2>1, <2>4
    <3> QED
      BY <2>2, <3>1 DEF Nested
  <2> QED
    BY <2>1, <2>3, <2>4 DEF Nested
<1>8. CASE EnterLock(t)
  <2>1. /\ depth'[t] = depth[t] + 1 /\ pc[t] = "enterLock" /\ pc'[t] # "enterLock"
        /\ status' = [status EXCEPT ![<<t, depth[t] + 1>>] = "UNSAFE"]
    BY <1>1, <1>8 DEF EnterLock, MakeUnsafe
  <2>2. \A d \in Depth :
          status'[<<t, d>>] = IF d = depth[t] + 1 THEN "UNSAFE" ELSE status[<<t, d>>]
    BY <1>1, <2>1
  <2> QED
    BY <1>2, <2>1, <2>2 DEF Nested
<1> QED
  BY <1>3, <1>4, <1>5, <1>6, <1>7, <1>8, StepGroups DEF Loud

LEMMA NestStep ==
  ASSUME IInv, NestInv, [Next]_vars
  PROVE  NestInv'
<1>1. ASSUME NEW t \in Thread, Step(t), NEW u \in Thread PROVE Nested(u)'
  <2>1. CASE u = t
    BY <1>1, <2>1, NestedOwn DEF NestInv
  <2>2. CASE u # t
    BY <1>1, <2>2, OthersKeep DEF NestInv, Nested, Keeps
  <2> QED
    BY <2>1, <2>2
<1>2. CASE UNCHANGED vars
  BY <1>2 DEF vars, NestInv, Nested
<1> QED
  BY <1>1, <1>2 DEF Next, NestInv

LEMMA NestAlways == Spec => [](IInv /\ NestInv)
<1>1. Init => NestInv
  <2> SUFFICES ASSUME Init, NEW t \in Thread PROVE Nested(t)
    BY DEF NestInv
  <2>1. \A d \in Depth : <<t, d>> \in Record /\ ~(d < 0)
    BY DEF Record, Depth
  <2> QED
    BY <2>1 DEF Init, Nested
<1>2. IInv /\ NestInv /\ [Next]_vars => NestInv'
  BY NestStep
<1> QED
  BY <1>1, <1>2, InductiveInvariant, PTL DEF Spec

\* A record that is not the top-most of its stack is safe: a nested thread never
\* delays a task of an outer manager.
THEOREM BuriedStaySafe == Spec => []BuriedRecordsSafe
<1>1. NestInv => BuriedRecordsSafe
  BY DEF NestInv, Nested, BuriedRecordsSafe
<1> QED
  BY <1>1, NestAlways, PTL

\* A record is unsafe and on no list when its function returns, whatever leave
\* had to wait for.
THEOREM DestroyedUnsafe == Spec => []RecordsDestroyedUnsafe
<1>1. IInv /\ NestInv => RecordsDestroyedUnsafe
  <2> SUFFICES ASSUME IInv, NestInv, NEW t \in Thread, NEW d \in Depth, d > depth[t]
               PROVE  status[<<t, d>>] = "UNSAFE" /\ manager[<<t, d>>] = NoManager
    BY DEF RecordsDestroyedUnsafe
  <2>1. status[<<t, d>>] = "UNSAFE"
    BY DEF NestInv, Nested
  <2>2. d \in Nat /\ depth[t] \in Nat
    BY DEF IInv, TypeOK, Depth
  <2>3. ~(d <= depth[t])
    BY <2>2
  <2> QED
    BY <2>1, <2>3 DEF IInv, StackInv
<1> QED
  BY <1>1, NestAlways, PTL
=============================================================================
