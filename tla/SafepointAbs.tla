---------------------------- MODULE SafepointAbs ----------------------------
(***************************************************************************)
(* What a SafepointManager promises (Safepoint.h:84-96, 332-413), with no  *)
(* record, gate or mutex: threads execute code in the contexts of          *)
(* managers, tasks are serial per manager, a task starts only when no      *)
(* thread executes in its manager's context, and until it finishes only    *)
(* the thread that runs it may.                                            *)
(***************************************************************************)
CONSTANTS Thread, Manager, NoThread

VARIABLES
  mutators,  \* the threads executing code in each manager's context
  task       \* the thread running a task of each manager

absVars == <<mutators, task>>

AbsInit ==
  /\ mutators = [m \in Manager |-> {}]
  /\ task = [m \in Manager |-> NoThread]

BeginCode(t, m) ==
  /\ task[m] \in {NoThread, t}
  /\ mutators' = [mutators EXCEPT ![m] = @ \cup {t}]
  /\ UNCHANGED task

EndCode(t, m) ==
  /\ mutators' = [mutators EXCEPT ![m] = @ \ {t}]
  /\ UNCHANGED task

StartTask(t, m) ==
  /\ task[m] = NoThread
  /\ mutators[m] = {}
  /\ task' = [task EXCEPT ![m] = t]
  /\ UNCHANGED mutators

EndTask(t, m) ==
  /\ task[m] = t
  /\ mutators[m] = {}
  /\ task' = [task EXCEPT ![m] = NoThread]
  /\ UNCHANGED mutators

AbsNext ==
  \E t \in Thread, m \in Manager :
    BeginCode(t, m) \/ EndCode(t, m) \/ StartTask(t, m) \/ EndTask(t, m)

AbsSpec == AbsInit /\ [][AbsNext]_absVars
=============================================================================
