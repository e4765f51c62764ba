------------------------------ MODULE VMThread ------------------------------
(***************************************************************************)
(* The life of one vmbase::VMThread: a client starts it, any number of     *)
(* clients join it, repeatedly, one destroys it, while its native thread   *)
(* runs to its end.  All of them meet on m_joinMonitor, a                  *)
(* WaitNotifyMonitor: a thread in its wait set has released the mutex, is  *)
(* moved to the blocked set by a notification or spuriously, and goes on   *)
(* once it has taken the mutex again.                                      *)
(*                                                                         *)
(* A critical section in which a thread neither waits nor lets the native  *)
(* thread be observed half-way is one step.                                *)
(***************************************************************************)
EXTENDS Naturals, FiniteSets

CONSTANTS
  Client,    \* threads that start, join and destroy the VMThread
  Native,    \* the VMThread's own native thread
  NoThread   \* owner of the free monitor

ASSUME ThreadsAssumption ==
  /\ IsFiniteSet(Client)
  /\ Native \notin Client
  /\ NoThread \notin Client \cup {Native}

Thread == Client \cup {Native}

VARIABLES
  state,      \* m_state
  joinerQty,  \* m_joinerQty
  owner,      \* the thread that holds m_joinMonitor between steps
  pc          \* where each thread is

vars == <<state, joinerQty, owner, pc>>

\* A client is "idle", in start ("starting", "created"), in join or in the
\* destructor, each first at the monitor's mutex, then in its wait set, then in
\* its blocked set; the native thread is "none" until it is created.
ClientPC == {"idle", "starting", "created",
             "joinLock", "joinWait", "joinBlocked",
             "freeLock", "freeWait", "freeBlocked", "freed"}
NativePC == {"none", "born", "running", "exiting", "exited"}

TypeOK ==
  /\ state \in {"NOT_STARTED", "RUNNABLE", "TERMINATED"}
  /\ joinerQty \in Nat
  /\ owner \in Client \cup {NoThread}
  /\ pc \in [Thread -> ClientPC \cup NativePC]
  /\ pc[Native] \in NativePC
  /\ \A c \in Client : pc[c] \in ClientPC

Init ==
  /\ state = "NOT_STARTED"
  /\ joinerQty = 0
  /\ owner = NoThread
  /\ pc = [t \in Thread |-> IF t = Native THEN "none" ELSE "idle"]

-----------------------------------------------------------------------------
Goto(t, from, to) == pc[t] = from /\ pc' = [pc EXCEPT ![t] = to]

MonitorFree == owner = NoThread

\* A client is in the destructor, or has been.
Destroying ==
  \E c \in Client : pc[c] \in {"freeLock", "freeWait", "freeBlocked", "freed"}

\* notifyAll: the whole wait set moves to the blocked set.
Woken(p) == CASE p = "joinWait" -> "joinBlocked"
              [] p = "freeWait" -> "freeBlocked"
              [] OTHER -> p

-----------------------------------------------------------------------------
\* VMThread::start.  One client starts the VMThread (line 174 asserts it), and
\* no client has begun to destroy it.

StartLock(c) ==
  /\ state = "NOT_STARTED" /\ MonitorFree
  /\ ~Destroying
  /\ Goto(c, "idle", "starting")
  /\ owner' = c
  /\ UNCHANGED <<state, joinerQty>>

\* The native thread exists, and runs, before m_state says so.
Create(c) ==
  /\ pc[c] = "starting"
  /\ pc' = [pc EXCEPT ![c] = "created", ![Native] = "born"]
  /\ UNCHANGED <<state, joinerQty, owner>>

\* VMPI_threadCreate fails: start returns false, and may be called again.
CreateFails(c) ==
  /\ Goto(c, "starting", "idle")
  /\ owner' = NoThread
  /\ UNCHANGED <<state, joinerQty>>

Started(c) ==
  /\ Goto(c, "created", "idle")
  /\ state' = "RUNNABLE"
  /\ owner' = NoThread
  /\ UNCHANGED joinerQty

-----------------------------------------------------------------------------
\* VMThread::startInternal, on the native thread.

\* Variant of Begin: the native thread does not wait for its parent.
BeginEarly ==
  /\ Goto(Native, "born", "running")
  /\ UNCHANGED <<state, joinerQty, owner>>

Begin ==
  /\ MonitorFree
  /\ Goto(Native, "born", "running")
  /\ UNCHANGED <<state, joinerQty, owner>>

\* m_runnable->run() returns.
RunReturns ==
  /\ Goto(Native, "running", "exiting")
  /\ UNCHANGED <<state, joinerQty, owner>>

\* Variant of Terminate: one waiter is notified instead of all.
TerminateNotifiesOne ==
  /\ MonitorFree
  /\ pc[Native] = "exiting"
  /\ state' = "TERMINATED"
  /\ LET waiters == {c \in Client : pc[c] \in {"joinWait", "freeWait"}}
     IN \E w \in IF waiters = {} THEN {Native} ELSE waiters :
          pc' = [pc EXCEPT ![w] = Woken(@), ![Native] = "exited"]
  /\ UNCHANGED <<joinerQty, owner>>

Terminate ==
  /\ MonitorFree
  /\ pc[Native] = "exiting"
  /\ state' = "TERMINATED"
  /\ pc' = [t \in Thread |-> IF t = Native THEN "exited" ELSE Woken(pc[t])]
  /\ UNCHANGED <<joinerQty, owner>>

-----------------------------------------------------------------------------
\* VMThread::join.

\* A client joins a VMThread it knows to be started (line 188 asserts it), and
\* does not begin to once another destroys it.
Join(c) ==
  /\ state # "NOT_STARTED"
  /\ ~Destroying
  /\ Goto(c, "idle", "joinLock")
  /\ UNCHANGED <<state, joinerQty, owner>>

JoinTerminated(c) ==
  /\ MonitorFree
  /\ state = "TERMINATED"
  /\ Goto(c, "joinLock", "idle")
  /\ UNCHANGED <<state, joinerQty, owner>>

\* Variant of JoinWait: the joiner waits uncounted.
JoinWaitUncounted(c) ==
  /\ MonitorFree
  /\ state # "TERMINATED"
  /\ Goto(c, "joinLock", "joinWait")
  /\ UNCHANGED <<state, joinerQty, owner>>

JoinWait(c) ==
  /\ MonitorFree
  /\ state # "TERMINATED"
  /\ Goto(c, "joinLock", "joinWait")
  /\ joinerQty' = joinerQty + 1
  /\ UNCHANGED <<state, owner>>

JoinWaitAgain(c) ==
  /\ MonitorFree
  /\ state # "TERMINATED"
  /\ Goto(c, "joinBlocked", "joinWait")
  /\ UNCHANGED <<state, joinerQty, owner>>

\* Variant of JoinReturn: any wake-up is taken for the termination.
JoinReturnUnguarded(c) ==
  /\ MonitorFree
  /\ Goto(c, "joinBlocked", "idle")
  /\ joinerQty' = joinerQty - 1
  /\ UNCHANGED <<state, owner>>

JoinReturn(c) ==
  /\ MonitorFree
  /\ state = "TERMINATED"
  /\ Goto(c, "joinBlocked", "idle")
  /\ joinerQty' = joinerQty - 1
  /\ UNCHANGED <<state, owner>>

-----------------------------------------------------------------------------
\* VMThread::~VMThread, called once, when no client is in start.

Free(c) ==
  /\ ~Destroying
  /\ \A d \in Client : pc[d] \notin {"starting", "created"}
  /\ Goto(c, "idle", "freeLock")
  /\ UNCHANGED <<state, joinerQty, owner>>

\* Variant of MustWait: the destructor waits for the termination only.
MustWaitTermination == state = "RUNNABLE"

\* The condition of the destructor's wait loop, behind its NOT_STARTED test.
MustWait == state # "NOT_STARTED" /\ (state = "RUNNABLE" \/ joinerQty # 0)

FreeWait(c) ==
  /\ MonitorFree
  /\ MustWait
  /\ Goto(c, "freeLock", "freeWait") \/ Goto(c, "freeBlocked", "freeWait")
  /\ UNCHANGED <<state, joinerQty, owner>>

FreeReturn(c) ==
  /\ MonitorFree
  /\ ~MustWait
  /\ Goto(c, "freeLock", "freed") \/ Goto(c, "freeBlocked", "freed")
  /\ UNCHANGED <<state, joinerQty, owner>>

\* A thread leaves the wait set without being notified (VMThread.h:294-295).
SpuriousWakeup(c) ==
  /\ pc[c] \in {"joinWait", "freeWait"}
  /\ pc' = [pc EXCEPT ![c] = Woken(@)]
  /\ UNCHANGED <<state, joinerQty, owner>>

-----------------------------------------------------------------------------
Next ==
  \/ Begin \/ RunReturns \/ Terminate
  \/ \E c \in Client :
       \/ StartLock(c) \/ Create(c) \/ CreateFails(c) \/ Started(c)
       \/ Join(c) \/ JoinTerminated(c) \/ JoinWait(c) \/ JoinWaitAgain(c)
       \/ JoinReturn(c)
       \/ Free(c) \/ FreeWait(c) \/ FreeReturn(c)
       \/ SpuriousWakeup(c)

Spec == Init /\ [][Next]_vars

\* A thread between two blocking points goes on, the Runnable returns, and a
\* thread that competes for the monitor's mutex gets it in the end; nobody has
\* to call anything, and no wake-up is spurious for certain.
Fairness ==
  /\ WF_vars(RunReturns)
  /\ SF_vars(Begin) /\ SF_vars(Terminate)
  /\ \A c \in Client :
       /\ WF_vars(Create(c) \/ CreateFails(c)) /\ WF_vars(Started(c))
       /\ SF_vars(JoinTerminated(c) \/ JoinWait(c))
       /\ SF_vars(JoinWaitAgain(c) \/ JoinReturn(c))
       /\ SF_vars(FreeWait(c) \/ FreeReturn(c))

FairSpec == Spec /\ Fairness

-----------------------------------------------------------------------------
(***************************************************************************)
(* Properties.                                                             *)
(***************************************************************************)

\* The joiners m_joinerQty stands for.
CountedJoiners == {c \in Client : pc[c] \in {"joinWait", "joinBlocked"}}

\* VMThread.cpp:123-125: joiners are counted in and out, exactly, whatever the
\* order of wake-ups.
JoinersCounted == joinerQty = Cardinality(CountedJoiners)

\* VMThread.cpp:115-120: once the destructor has returned, no counted joiner
\* is still to release m_joinMonitor and the native thread is through with the
\* object, or has never existed.
FreedAfterLastUse ==
  (\E c \in Client : pc[c] = "freed") =>
    CountedJoiners = {} /\ pc[Native] \in {"none", "exited"}

\* VMThread.h:797-800: a joiner returns only when the native thread has left
\* the Runnable for good, though its wait may end spuriously.
JoinReturnsAfterRun ==
  [][\A c \in Client :
       pc[c] \in {"joinLock", "joinBlocked"} /\ pc'[c] = "idle"
         => pc[Native] = "exited"]_vars

\* VMThread.cpp:204-207: the native thread enters its Runnable only when start
\* has finished its side, even if it runs before VMPI_threadCreate returns.
RunsWhenRunnable ==
  [][pc'[Native] = "running" => state = "RUNNABLE"]_vars

\* VMThread.h:797-800: a join ends, if the Runnable does.
JoinsReturn ==
  \A c \in Client :
    pc[c] = "joinLock" ~> pc[c] = "idle"

\* VMThread.h:753-755 and VMThread.cpp:123-125: the destructor goes on once the
\* thread has terminated and its joiners have left.
DestructorReturns ==
  \A c \in Client : pc[c] = "freeLock" ~> pc[c] = "freed"

(***************************************************************************)
(* The inductive invariant behind JoinersCounted and FreedAfterLastUse.    *)
(***************************************************************************)

\* The start of the native thread, step by step.
StartInv ==
  /\ \A c \in Client : pc[c] \in {"starting", "created"} <=> owner = c
  /\ \A c \in Client : pc[c] = "starting" =>
       state = "NOT_STARTED" /\ pc[Native] = "none"
  /\ \A c \in Client : pc[c] = "created" =>
       state = "NOT_STARTED" /\ pc[Native] = "born"

\* What m_state says of the native thread and of the clients.
StateInv ==
  /\ state = "NOT_STARTED" =>
       /\ pc[Native] = "none" \/ (pc[Native] = "born" /\ ~MonitorFree)
       /\ \A c \in Client :
            pc[c] \notin {"joinLock", "joinWait", "joinBlocked", "freeWait",
                          "freeBlocked"}
  /\ state = "RUNNABLE" =>
       /\ pc[Native] \in {"born", "running", "exiting"}
       /\ \A c \in Client : pc[c] # "freed"
  /\ state = "TERMINATED" => pc[Native] = "exited"
  /\ Destroying => MonitorFree

IInv == TypeOK /\ StartInv /\ StateInv /\ JoinersCounted /\ FreedAfterLastUse
=============================================================================
