------------------------------ MODULE Safepoint ------------------------------
(***************************************************************************)
(* Safepoints of vmbase: threads enter and leave the contexts of           *)
(* SafepointManagers, pass through SafepointGates, take locks that are     *)
(* implicit safepoints, and request tasks that must run only while every   *)
(* other thread of the manager's context is safe.                          *)
(*                                                                         *)
(* A thread's SafepointRecords live on its stack, one per entry: record    *)
(* <<t, d>> is the d-th of thread t, its m_stackPrev is <<t, d - 1>> and   *)
(* SafepointRecord::current() is <<t, depth[t]>>.  A manager's linked list *)
(* of records is the set {r : manager[r] = m}: it changes only under the   *)
(* request mutex, which a requester holds throughout its walk, so that the *)
(* order in which the walk visits the records does not matter.             *)
(*                                                                         *)
(* A critical section on the request mutex that a thread neither blocks in *)
(* nor runs a task in is one step.                                         *)
(***************************************************************************)
EXTENDS Naturals

CONSTANTS
  Thread,       \* native threads
  Manager,      \* SafepointManagers
  Lock,         \* application mutexes and monitors taken with SCOPE_LOCK_SP
  NoThread,     \* a null vmpi_thread_t, and the owner of a free mutex
  NoManager,    \* a null SafepointManager*
  NoLock,       \* no mutex wanted
  MaxDepth      \* bound: SafepointRecords on one stack

ASSUME ConstantsAssumption ==
  /\ NoThread \notin Thread
  /\ NoManager \notin Manager
  /\ NoLock \notin Lock
  /\ MaxDepth \in Nat \ {0}

VARIABLES
  pc,         \* where each thread is
  op,         \* the operation a thread performs inside its SafepointGate
  target,     \* the manager a thread is entering
  want,       \* the application lock a thread is waiting for
  depth,      \* number of records on each thread's stack
  manager,    \* m_manager of each record
  status,     \* m_status of each record
  region,     \* is m_safeRegionEnd of each record the end of its safe region?
  owner,      \* holder of each manager's m_requestMutex
  requester,  \* m_requester of each manager
  unseen,     \* records the requester's walk has not seen SP_SAFE yet
  taskDepth,  \* depth of the record whose thread runs a task, 0 when none
  holder      \* holder of each application lock

vars == <<pc, op, target, want, depth, manager, status, region, owner,
          requester, unseen, taskDepth, holder>>

Depth  == 1..MaxDepth
Record == Thread \X Depth

GateOp == {"gateExit", "sleep", "lockWait", "condWait", "leaveWait",
           "requestWait"}
PC == GateOp \cup {"run", "enterSafe", "enterLock", "gateSafe", "lockPlain",
                   "waiting", "unwind", "requestLocked", "walk", "taskDone"}

TypeOK ==
  /\ pc \in [Thread -> PC]
  /\ op \in [Thread -> GateOp]
  /\ target \in [Thread -> Manager \cup {NoManager}]
  /\ want \in [Thread -> Lock \cup {NoLock}]
  /\ depth \in [Thread -> 0..MaxDepth]
  /\ manager \in [Record -> Manager \cup {NoManager}]
  /\ status \in [Record -> {"SAFE", "UNSAFE"}]
  /\ region \in [Record -> {"known", "stale"}]
  /\ owner \in [Manager -> Thread \cup {NoThread}]
  /\ requester \in [Manager -> Thread \cup {NoThread}]
  /\ unseen \in [Manager -> SUBSET Record]
  /\ taskDepth \in [Manager -> 0..MaxDepth]
  /\ holder \in [Lock -> Thread \cup {NoThread}]

Init ==
  /\ pc = [t \in Thread |-> "run"]
  /\ op = [t \in Thread |-> "gateExit"]
  /\ target = [t \in Thread |-> NoManager]
  /\ want = [t \in Thread |-> NoLock]
  /\ depth = [t \in Thread |-> 0]
  /\ manager = [r \in Record |-> NoManager]
  /\ status = [r \in Record |-> "UNSAFE"]
  /\ region = [r \in Record |-> "stale"]
  /\ owner = [m \in Manager |-> NoThread]
  /\ requester = [m \in Manager |-> NoThread]
  /\ unseen = [m \in Manager |-> {}]
  /\ taskDepth = [m \in Manager |-> 0]
  /\ holder = [l \in Lock |-> NoThread]

-----------------------------------------------------------------------------
\* Helpers.

Goto(t, from, to) == pc[t] = from /\ pc' = [pc EXCEPT ![t] = to]

HasCurrent(t) == depth[t] > 0
Current(t)    == <<t, depth[t]>>
CurManager(t) == manager[Current(t)]
Registered(m) == {r \in Record : manager[r] = m}

\* The request mutex is recursive: its owner passes.
CanLock(m, t) == owner[m] \in {NoThread, t}

TaskRunning(m) == taskDepth[m] # 0

\* t is in SafepointTask::run itself, not in a context the task has entered.
InTaskBody(t) ==
  \E m \in Manager : owner[m] = t /\ TaskRunning(m) /\ taskDepth[m] = depth[t]

\* What SP_UNSAFE means for a record: its thread runs on, so that the stack
\* outgrows the region recorded when it was last safe.
MakeUnsafe(r) ==
  /\ status' = [status EXCEPT ![r] = "UNSAFE"]
  /\ region' = [region EXCEPT ![r] = "stale"]

-----------------------------------------------------------------------------
\* SafepointManager::enter.

\* Variant of Enter: a nested entry that leaves m_safeRegionEnd as it was.
EnterKeepsRegion(t, m) ==
  /\ Goto(t, "run", IF HasCurrent(t) THEN "enterSafe" ELSE "enterLock")
  /\ depth[t] < MaxDepth
  /\ target' = [target EXCEPT ![t] = m]
  /\ UNCHANGED <<op, want, depth, manager, status, region, owner, requester,
                 unseen, taskDepth, holder>>

Enter(t, m) ==
  /\ Goto(t, "run", IF HasCurrent(t) THEN "enterSafe" ELSE "enterLock")
  /\ depth[t] < MaxDepth
  /\ target' = [target EXCEPT ![t] = m]
  /\ region' = IF HasCurrent(t)
               THEN [region EXCEPT ![Current(t)] = "known"]
               ELSE region
  /\ UNCHANGED <<op, want, depth, manager, status, owner, requester, unseen,
                 taskDepth, holder>>

\* Variant of EnterSafe: the previous record stays SP_UNSAFE.
EnterSafeForgotten(t) ==
  /\ Goto(t, "enterSafe", "enterLock")
  /\ UNCHANGED <<op, target, want, depth, manager, status, region, owner,
                 requester, unseen, taskDepth, holder>>

EnterSafe(t) ==
  /\ Goto(t, "enterSafe", "enterLock")
  /\ status' = [status EXCEPT ![Current(t)] = "SAFE"]
  /\ UNCHANGED <<op, target, want, depth, manager, region, owner, requester,
                 unseen, taskDepth, holder>>

\* Variant of EnterLock: the list is extended without the request mutex.
EnterUnlocked(t) ==
  LET r == <<t, depth[t] + 1>>
  IN /\ Goto(t, "enterLock", "run")
     /\ manager' = [manager EXCEPT ![r] = target[t]]
     /\ MakeUnsafe(r)
     /\ depth' = [depth EXCEPT ![t] = @ + 1]
     /\ target' = [target EXCEPT ![t] = NoManager]
     /\ UNCHANGED <<op, want, owner, requester, unseen, taskDepth, holder>>

EnterLock(t) ==
  LET m == target[t]
      r == <<t, depth[t] + 1>>
  IN /\ Goto(t, "enterLock", "run")
     /\ CanLock(m, t)
     /\ manager' = [manager EXCEPT ![r] = m]
     /\ MakeUnsafe(r)
     /\ depth' = [depth EXCEPT ![t] = @ + 1]
     /\ target' = [target EXCEPT ![t] = NoManager]
     /\ UNCHANGED <<op, want, owner, requester, unseen, taskDepth, holder>>

-----------------------------------------------------------------------------
\* SafepointGate.  The constructor records the safe region, then publishes
\* SP_SAFE; the operation op follows; the destructor takes the request mutex of
\* the record's manager to return to SP_UNSAFE.

EnterGate(t, operation) ==
  /\ Goto(t, "run", "gateSafe")
  /\ HasCurrent(t)
  /\ status[Current(t)] = "UNSAFE"
  /\ op' = [op EXCEPT ![t] = operation]
  /\ region' = [region EXCEPT ![Current(t)] = "known"]
  /\ UNCHANGED <<target, depth, manager, status, owner, requester, unseen,
                 taskDepth, holder>>

GateSafe(t) ==
  /\ Goto(t, "gateSafe", op[t])
  /\ status' = [status EXCEPT ![Current(t)] = "SAFE"]
  /\ UNCHANGED <<op, target, want, depth, manager, region, owner, requester,
                 unseen, taskDepth, holder>>

\* Variant of GateExit: the destructor stores SP_UNSAFE without the mutex.
GateExitUnlocked(t) ==
  /\ Goto(t, "gateExit", "run")
  /\ MakeUnsafe(Current(t))
  /\ UNCHANGED <<op, target, want, depth, manager, owner, requester, unseen,
                 taskDepth, holder>>

GateExit(t) ==
  /\ Goto(t, "gateExit", "run")
  /\ CanLock(CurManager(t), t)
  /\ MakeUnsafe(Current(t))
  /\ UNCHANGED <<op, target, want, depth, manager, owner, requester, unseen,
                 taskDepth, holder>>

\* SAFEPOINT_POLL that sees the request; one that does not is no step at all.
Poll(t) ==
  /\ HasCurrent(t)
  /\ requester[CurManager(t)] # NoThread
  /\ EnterGate(t, "gateExit")
  /\ UNCHANGED want

\* VMThread::sleep, and any other long call made inside a gate.
Sleep(t) ==
  /\ EnterGate(t, "sleep")
  /\ UNCHANGED want

WakeUp(t) ==
  /\ Goto(t, "sleep", "gateExit")
  /\ UNCHANGED <<op, target, want, depth, manager, status, region, owner,
                 requester, unseen, taskDepth, holder>>

-----------------------------------------------------------------------------
\* SCOPE_LOCK_SP on an application lock, and MonitorLocker::wait.  A wait with no
\* current record involves no safepoint: it is Unlock, then LockTry or
\* LockOutsideGate.

LockTry(t, l) ==
  /\ pc[t] = "run"
  /\ holder[l] = NoThread
  /\ holder' = [holder EXCEPT ![l] = t]
  /\ UNCHANGED <<pc, op, target, want, depth, manager, status, region, owner,
                 requester, unseen, taskDepth>>

\* Variant of LockInGate: the lock blocks with no gate around it.
LockWithoutGate(t, l) ==
  /\ Goto(t, "run", "lockPlain")
  /\ HasCurrent(t) /\ status[Current(t)] = "UNSAFE"
  /\ holder[l] \notin {NoThread, t}
  /\ want' = [want EXCEPT ![t] = l]
  /\ UNCHANGED <<op, target, depth, manager, status, region, owner, requester,
                 unseen, taskDepth, holder>>

\* tryLock failed and the current record is SP_UNSAFE: block inside a gate.
LockInGate(t, l) ==
  /\ holder[l] \notin {NoThread, t}
  /\ EnterGate(t, "lockWait")
  /\ want' = [want EXCEPT ![t] = l]

\* tryLock failed with no current record, or inside a task: block at once.
LockOutsideGate(t, l) ==
  /\ Goto(t, "run", "lockPlain")
  /\ HasCurrent(t) => status[Current(t)] = "SAFE"
  /\ holder[l] \notin {NoThread, t}
  /\ want' = [want EXCEPT ![t] = l]
  /\ UNCHANGED <<op, target, depth, manager, status, region, owner, requester,
                 unseen, taskDepth, holder>>

LockAcquired(t) ==
  /\ \/ Goto(t, "lockWait", "gateExit")
     \/ Goto(t, "lockPlain", "run")
  /\ holder[want[t]] = NoThread
  /\ holder' = [holder EXCEPT ![want[t]] = t]
  /\ want' = [want EXCEPT ![t] = NoLock]
  /\ UNCHANGED <<op, target, depth, manager, status, region, owner, requester,
                 unseen, taskDepth>>

Unlock(t, l) ==
  /\ pc[t] = "run"
  /\ holder[l] = t
  /\ holder' = [holder EXCEPT ![l] = NoThread]
  /\ UNCHANGED <<pc, op, target, want, depth, manager, status, region, owner,
                 requester, unseen, taskDepth>>

MonitorWait(t, l) ==
  /\ holder[l] = t
  /\ EnterGate(t, "condWait")
  /\ want' = [want EXCEPT ![t] = l]

CondWait(t) ==
  /\ Goto(t, "condWait", "waiting")
  /\ holder' = [holder EXCEPT ![want[t]] = NoThread]
  /\ UNCHANGED <<op, target, want, depth, manager, status, region, owner,
                 requester, unseen, taskDepth>>

\* A notification, a timeout or a spurious wake-up.
Notified(t) ==
  /\ Goto(t, "waiting", "lockWait")
  /\ UNCHANGED <<op, target, want, depth, manager, status, region, owner,
                 requester, unseen, taskDepth, holder>>

-----------------------------------------------------------------------------
\* SafepointManager::leave.

Unlink(t) ==
  /\ manager' = [manager EXCEPT ![Current(t)] = NoManager]
  /\ MakeUnsafe(Current(t))
  /\ depth' = [depth EXCEPT ![t] = @ - 1]
  /\ UNCHANGED <<op, target, want, owner, requester, unseen, taskDepth, holder>>

Leave(t) ==
  /\ HasCurrent(t)
  /\ ~InTaskBody(t)
  /\ CanLock(CurManager(t), t)
  /\ Goto(t, "run", IF depth[t] > 1 THEN "unwind" ELSE "run")
  /\ Unlink(t)

LeaveInGate(t) ==
  /\ HasCurrent(t)
  /\ ~InTaskBody(t)
  /\ ~CanLock(CurManager(t), t)
  /\ EnterGate(t, "leaveWait")
  /\ UNCHANGED want

\* Variant of LeaveAcquired: the record is unlinked before the gate's
\* destructor, which then has no manager to lock and no status to restore.
LeaveAcquiredSafe(t) ==
  /\ Goto(t, "leaveWait", IF depth[t] > 1 THEN "unwind" ELSE "run")
  /\ CanLock(CurManager(t), t)
  /\ manager' = [manager EXCEPT ![Current(t)] = NoManager]
  /\ depth' = [depth EXCEPT ![t] = @ - 1]
  /\ UNCHANGED <<op, target, want, status, region, owner, requester, unseen,
                 taskDepth, holder>>

\* The lock taken inside the gate; its destructor re-enters the same mutex.
LeaveAcquired(t) ==
  /\ Goto(t, "leaveWait", IF depth[t] > 1 THEN "unwind" ELSE "run")
  /\ CanLock(CurManager(t), t)
  /\ Unlink(t)

\* Variant of Unwind: the previous record becomes SP_UNSAFE at once.
UnwindUnlocked(t) ==
  /\ Goto(t, "unwind", "run")
  /\ MakeUnsafe(Current(t))
  /\ UNCHANGED <<op, target, want, depth, manager, owner, requester, unseen,
                 taskDepth, holder>>

Unwind(t) ==
  /\ Goto(t, "unwind", "run")
  /\ CanLock(CurManager(t), t)
  /\ MakeUnsafe(Current(t))
  /\ UNCHANGED <<op, target, want, depth, manager, owner, requester, unseen,
                 taskDepth, holder>>

-----------------------------------------------------------------------------
\* SafepointManager::requestSafepointTask.

Request(t) ==
  /\ Goto(t, "run", "requestLocked")
  /\ HasCurrent(t)
  /\ owner[CurManager(t)] = NoThread
  /\ owner' = [owner EXCEPT ![CurManager(t)] = t]
  /\ UNCHANGED <<op, target, want, depth, manager, status, region, requester,
                 unseen, taskDepth, holder>>

RequestInGate(t) ==
  /\ HasCurrent(t)
  /\ requester[CurManager(t)] # t
  /\ ~CanLock(CurManager(t), t)
  /\ EnterGate(t, "requestWait")
  /\ UNCHANGED want

RequestAcquired(t) ==
  /\ Goto(t, "requestWait", "requestLocked")
  /\ owner[CurManager(t)] = NoThread
  /\ owner' = [owner EXCEPT ![CurManager(t)] = t]
  /\ MakeUnsafe(Current(t))
  /\ UNCHANGED <<op, target, want, depth, manager, requester, unseen,
                 taskDepth, holder>>

Publish(t) ==
  LET m == CurManager(t)
  IN /\ Goto(t, "requestLocked", "walk")
     /\ status' = [status EXCEPT ![Current(t)] = "SAFE"]
     /\ requester' = [requester EXCEPT ![m] = t]
     /\ unseen' = [unseen EXCEPT ![m] = Registered(m)]
     /\ UNCHANGED <<op, target, want, depth, manager, region, owner,
                    taskDepth, holder>>

\* Variant of SeeSafe: the walk skips the records nested on another record.
SeeNested(t, r) ==
  LET m == CurManager(t)
  IN /\ pc[t] = "walk"
     /\ r \in unseen[m]
     /\ status[r] = "SAFE" \/ r[2] > 1
     /\ unseen' = [unseen EXCEPT ![m] = @ \ {r}]
     /\ UNCHANGED <<pc, op, target, want, depth, manager, status, region,
                    owner, requester, taskDepth, holder>>

\* The spin on one record of the list ends: it is SP_SAFE.
SeeSafe(t, r) ==
  LET m == CurManager(t)
  IN /\ pc[t] = "walk"
     /\ r \in unseen[m]
     /\ status[r] = "SAFE"
     /\ unseen' = [unseen EXCEPT ![m] = @ \ {r}]
     /\ UNCHANGED <<pc, op, target, want, depth, manager, status, region,
                    owner, requester, taskDepth, holder>>

RunTask(t) ==
  /\ Goto(t, "walk", "run")
  /\ unseen[CurManager(t)] = {}
  /\ taskDepth' = [taskDepth EXCEPT ![CurManager(t)] = depth[t]]
  /\ UNCHANGED <<op, target, want, depth, manager, status, region, owner,
                 requester, unseen, holder>>

FinishTask(t) ==
  /\ Goto(t, "run", "taskDone")
  /\ HasCurrent(t)
  /\ InTaskBody(t)
  /\ taskDepth' = [taskDepth EXCEPT ![CurManager(t)] = 0]
  /\ MakeUnsafe(Current(t))
  /\ UNCHANGED <<op, target, want, depth, manager, owner, requester, unseen,
                 holder>>

\* Variant of Release: the mutex is released with m_requester still set.
ReleaseKeepsRequester(t) ==
  /\ Goto(t, "taskDone", "run")
  /\ owner' = [owner EXCEPT ![CurManager(t)] = NoThread]
  /\ UNCHANGED <<op, target, want, depth, manager, status, region, requester,
                 unseen, taskDepth, holder>>

Release(t) ==
  LET m == CurManager(t)
  IN /\ Goto(t, "taskDone", "run")
     /\ requester' = [requester EXCEPT ![m] = NoThread]
     /\ owner' = [owner EXCEPT ![m] = NoThread]
     /\ UNCHANGED <<op, target, want, depth, manager, status, region, unseen,
                    taskDepth, holder>>

-----------------------------------------------------------------------------
Step(t) ==
  \/ \E m \in Manager : Enter(t, m)
  \/ EnterSafe(t) \/ EnterLock(t)
  \/ Poll(t) \/ Sleep(t) \/ WakeUp(t) \/ GateSafe(t) \/ GateExit(t)
  \/ \E l \in Lock : \/ LockTry(t, l) \/ LockInGate(t, l)
                     \/ LockOutsideGate(t, l)
                     \/ Unlock(t, l) \/ MonitorWait(t, l)
  \/ LockAcquired(t) \/ CondWait(t) \/ Notified(t)
  \/ Leave(t) \/ LeaveInGate(t) \/ LeaveAcquired(t) \/ Unwind(t)
  \/ Request(t) \/ RequestInGate(t) \/ RequestAcquired(t) \/ Publish(t)
  \/ \E r \in Record : SeeSafe(t, r)
  \/ RunTask(t) \/ FinishTask(t) \/ Release(t)

Next == \E t \in Thread : Step(t)

Spec == Init /\ [][Next]_vars

-----------------------------------------------------------------------------
\* Fairness: a thread that is scheduled polls promptly, a safepoint task
\* returns, and a thread inside one of the protocol's functions goes on until
\* it blocks.  Nothing is assumed of sleepers, of lock holders, of waiters for
\* a notification, nor of the order in which a mutex admits its waiters.
Fairness ==
  \A t \in Thread :
    /\ WF_vars(EnterSafe(t))
    /\ WF_vars(Poll(t))
    /\ WF_vars(GateSafe(t))
    /\ WF_vars(Publish(t))
    /\ WF_vars(\E r \in Record : SeeSafe(t, r))
    /\ WF_vars(RunTask(t))
    /\ WF_vars(FinishTask(t))
    /\ WF_vars(Release(t))

FairSpec == Spec /\ Fairness

-----------------------------------------------------------------------------
(***************************************************************************)
(* Properties.                                                             *)
(***************************************************************************)

\* t executes code of its own in the context of m, outside any gate and outside
\* the functions of the protocol.
Mutating(t, m) ==
  pc[t] = "run" /\ HasCurrent(t) /\ CurManager(t) = m /\ ~InTaskBody(t)

\* Safepoint.h:336-337 "All threads will remain 'safe' until the task has
\* completed execution": while a task of m runs, no thread but the requester
\* executes code in m's context, whatever it entered, left, polled or slept in
\* since it was observed safe.
MutatorsStopped ==
  \A m \in Manager : TaskRunning(m) =>
    \A t \in Thread : Mutating(t, m) => t = owner[m]

\* Safepoint.h:466-473: what a task reads as the safe region of another
\* thread's record is the region of a record that is safe now, never one left
\* from an earlier safepoint (the order of the two stores of the gate and of a
\* nested entry, and the request mutex on the way out).
SafeRegionsKnown ==
  \A m \in Manager : TaskRunning(m) =>
    \A r \in Registered(m) :
      r[1] # owner[m] => status[r] = "SAFE" /\ region[r] = "known"

\* Safepoint.h:150-152: a record that is not the top-most of its stack is
\* SP_SAFE, so that a nested thread never delays a task of an outer manager.
BuriedRecordsSafe ==
  \A t \in Thread : \A d \in Depth :
    d < depth[t] => status[<<t, d>>] = "SAFE"

\* Safepoint.cpp:54: a record is destroyed (its function returns once leave
\* has) only when it is SP_UNSAFE and off every manager's list, even if leave
\* had to block in a gate.
RecordsDestroyedUnsafe ==
  \A t \in Thread : \A d \in Depth :
    d > depth[t] => status[<<t, d>>] = "UNSAFE" /\ manager[<<t, d>>] = NoManager

\* Safepoint.h:91-93: no thread but the requester enters or leaves a manager's
\* context while a task is pending or ongoing, so that the list the requester
\* walks, and that its task iterates over, stands still.
MembershipFrozen ==
  [][\A m \in Manager : requester[m] # NoThread =>
       \A r \in Record :
         (manager[r] = m) # (manager'[r] = m) => r[1] = requester[m]]_vars

\* Safepoint.h:333-335: once a request is published, its task runs, although
\* other threads go on entering, leaving, locking, sleeping and requesting, and
\* tasks of other managers do so, too.
RequestServed ==
  \A t \in Thread : pc[t] = "requestLocked" ~> InTaskBody(t)

\* The whole of Safepoint.h:84-96: records, gates and the request mutex
\* implement serial tasks, each alone in its manager's context.
Abs == INSTANCE SafepointAbs WITH
  mutators <- [m \in Manager |-> {t \in Thread : Mutating(t, m)}],
  task <- [m \in Manager |-> IF TaskRunning(m) THEN owner[m] ELSE NoThread]

\* Every step of the protocol is a step of SafepointAbs or changes nothing of it.
ImplementsAbs == Abs!AbsSpec

-----------------------------------------------------------------------------
(***************************************************************************)
(* The inductive invariant behind MutatorsStopped and SafeRegionsKnown.    *)
(***************************************************************************)

\* The records on the managers' lists are those on the threads' stacks.
StackInv ==
  \A t \in Thread : \A d \in Depth :
    manager[<<t, d>>] # NoManager <=> d <= depth[t]

\* The phases of a request.
PhaseInv ==
  \A t \in Thread :
    /\ pc[t] \notin {"run", "enterLock", "lockPlain"} => HasCurrent(t)
    /\ pc[t] \in {"enterSafe", "enterLock"} =>
         depth[t] < MaxDepth /\ target[t] # NoManager
    /\ pc[t] \in {"requestLocked", "walk", "taskDone"} =>
         owner[CurManager(t)] = t /\ ~TaskRunning(CurManager(t))
    /\ pc[t] = "walk" => requester[CurManager(t)] = t
    /\ pc[t] = "lockPlain" /\ HasCurrent(t) => InTaskBody(t)
    /\ pc[t] = "leaveWait" \/ (pc[t] = "gateSafe" /\ op[t] = "leaveWait")
         => ~InTaskBody(t)

\* Code of a thread's own runs with its current record SP_UNSAFE.
RunInv ==
  \A t \in Thread :
    /\ \A m \in Manager : Mutating(t, m) => status[Current(t)] = "UNSAFE"
    /\ pc[t] = "taskDone" => status[Current(t)] = "UNSAFE"

\* The record a request was made from, from Publish to FinishTask: its thread
\* marks it SP_SAFE without recording a region.
RequestRecord(r) ==
  \/ pc[r[1]] = "walk" /\ r[2] = depth[r[1]]
  \/ \E m \in Manager :
       owner[m] = r[1] /\ TaskRunning(m) /\ r[2] = taskDepth[m]

RegionInv ==
  \A r \in Record :
    /\ status[r] = "SAFE" /\ ~RequestRecord(r) => region[r] = "known"
    /\ pc[r[1]] \in {"enterSafe", "gateSafe"} /\ r = Current(r[1])
         => region[r] = "known"

\* What the walk has established so far.
WalkInv ==
  \A m \in Manager : requester[m] # NoThread =>
    /\ owner[m] = requester[m]
    /\ \A r \in Registered(m) \ unseen[m] :
         r[1] # owner[m] => status[r] = "SAFE"

TaskInv ==
  \A m \in Manager : TaskRunning(m) =>
    /\ requester[m] # NoThread
    /\ unseen[m] = {}
    /\ taskDepth[m] <= depth[owner[m]]
    /\ manager[<<owner[m], taskDepth[m]>>] = m

IInv == /\ TypeOK /\ StackInv /\ PhaseInv /\ RunInv /\ RegionInv
        /\ WalkInv /\ TaskInv
=============================================================================
