--------------------------- MODULE DelayedThreadPool ---------------------------
(***************************************************************************)
(* DelayedThreadPool on top of ThreadPool: the workers that run tasks when *)
(* they become due, the queue, its lock and condition variable, and the    *)
(* shutdown.  A due time is abstracted to whether it has come: a task in   *)
(* the queue becomes due at any time, and a worker that looks at the head  *)
(* of the sorted queue finds a due task if there is one.                   *)
(*                                                                         *)
(* A step that needs _lockForScheduleTasks is one action; the lock is held *)
(* between actions only by a worker that is about to wait.  What the pool  *)
(* runs, and who schedules, is for the module that extends this one.       *)
(***************************************************************************)
EXTENDS Integers, FiniteSets

CONSTANTS
    Workers,  \* the pool's threads, each running one DelayedWorker
    Tasks,    \* Task objects
    NoTask    \* the worker has no task

ASSUME NoTaskAssumption == NoTask \notin Tasks

VARIABLES
    scheduledTasks,  \* the tasks in _scheduledTasks
    dueTasks,        \* those whose time has come
    pc,              \* pc[w]: where worker w is
    taskOf,          \* taskOf[w]: the task w has taken out of the queue
    stopDelayed,     \* _stop_delayed_tp
    stopPool,        \* ThreadPool::_stop
    closing          \* how far stop() has got

pool == <<scheduledTasks, dueTasks, pc, taskOf, stopDelayed, stopPool, closing>>

\* "top" of run()'s loop; "enter" before the first lock(), "scan" before a
\* later one; "wait" and "timedwait": about to wait, with the lock; "asleep"
\* and "dozing": in the wait; "taken", "schedule", "beat": with a task;
\* "done": run() has returned, the thread waits in take() for _stop.
Waiting == {"wait", "timedwait"}
Sleeping == {"asleep", "dozing"}
WithTask == {"taken", "schedule", "beat"}

PoolTypeOK ==
    /\ scheduledTasks \in SUBSET Tasks
    /\ dueTasks \in SUBSET scheduledTasks
    /\ pc \in [Workers -> {"top", "enter", "scan", "done"} \cup Waiting \cup Sleeping \cup WithTask]
    /\ taskOf \in [Workers -> Tasks \cup {NoTask}]
    /\ \A w \in Workers : taskOf[w] # NoTask <=> pc[w] \in WithTask
    /\ stopDelayed \in BOOLEAN /\ stopPool \in BOOLEAN
    /\ closing \in {"no", "flag", "pool", "join", "joined"}

\* start() has been called.
PoolInit ==
    /\ scheduledTasks = {} /\ dueTasks = {}
    /\ pc = [w \in Workers |-> "top"]
    /\ taskOf = [w \in Workers |-> NoTask]
    /\ stopDelayed = FALSE /\ stopPool = FALSE
    /\ closing = "no"

Locked == \E w \in Workers : pc[w] \in Waiting
NotifyAll(f) == [w \in Workers |-> IF f[w] \in Sleeping THEN "scan" ELSE f[w]]

\* Time passes.
BecomesDue(t) ==
    /\ t \in scheduledTasks \ dueTasks
    /\ dueTasks' = dueTasks \cup {t}
    /\ UNCHANGED <<scheduledTasks, pc, taskOf, stopDelayed, stopPool, closing>>

Goto(w, l) ==
    /\ pc' = [pc EXCEPT ![w] = l]
    /\ UNCHANGED <<scheduledTasks, dueTasks, taskOf, stopDelayed, stopPool, closing>>

\* while (!_stop_delayed_tp)
TestStop(w) ==
    /\ pc[w] = "top"
    /\ Goto(w, IF stopDelayed THEN "done" ELSE "enter")

\* The queue is empty: the worker returns, or is going to wait.
FindEmpty(w) ==
    /\ pc[w] = "enter" /\ ~Locked
    /\ scheduledTasks = {}
    /\ Goto(w, IF stopDelayed THEN "done" ELSE "wait")

CanScan(w) == ~Locked /\ (pc[w] = "scan" \/ (pc[w] = "enter" /\ scheduledTasks # {}))

\* Mutant: the task is run without being erased.
Take_NotErased(w, t) ==
    /\ CanScan(w)
    /\ t \in dueTasks
    /\ dueTasks' = dueTasks \ {t}
    /\ taskOf' = [taskOf EXCEPT ![w] = t]
    /\ pc' = [pc EXCEPT ![w] = "taken"]
    /\ UNCHANGED <<scheduledTasks, stopDelayed, stopPool, closing>>

\* The head of the queue is due: the worker takes it.
Take(w, t) ==
    /\ CanScan(w)
    /\ t \in dueTasks
    /\ scheduledTasks' = scheduledTasks \ {t}
    /\ dueTasks' = dueTasks \ {t}
    /\ taskOf' = [taskOf EXCEPT ![w] = t]
    /\ pc' = [pc EXCEPT ![w] = "taken"]
    /\ UNCHANGED <<stopDelayed, stopPool, closing>>

\* The head of the queue is not due.
FindEarly(w) ==
    /\ CanScan(w)
    /\ scheduledTasks # {} /\ dueTasks = {}
    /\ Goto(w, IF stopDelayed THEN "done" ELSE "timedwait")

\* The queue has been worked off.
EndScan(w) ==
    /\ pc[w] = "scan" /\ ~Locked
    /\ scheduledTasks = {}
    /\ Goto(w, "top")

\* wait() gives the lock back.
Sleep(w) ==
    /\ pc[w] \in Waiting
    /\ Goto(w, IF pc[w] = "wait" THEN "asleep" ELSE "dozing")

\* The time of the head has come.
Timeout(w) ==
    /\ pc[w] = "dozing"
    /\ dueTasks # {}
    /\ Goto(w, "scan")

\* Allowed by POSIX, above all when stop() sends its signal.
WakeSpuriously(w) ==
    /\ pc[w] \in Sleeping
    /\ Goto(w, "scan")

\* A task that was taken when the stop flag was set is not run.
DropTask(w) ==
    /\ pc[w] = "taken"
    /\ stopDelayed
    /\ pc' = [pc EXCEPT ![w] = "done"]
    /\ taskOf' = [taskOf EXCEPT ![w] = NoTask]
    /\ UNCHANGED <<scheduledTasks, dueTasks, stopDelayed, stopPool, closing>>

\* task->run() returns.
EndTask(w) ==
    /\ pc' = [pc EXCEPT ![w] = "scan"]
    /\ taskOf' = [taskOf EXCEPT ![w] = NoTask]
    /\ UNCHANGED <<scheduledTasks, dueTasks, stopDelayed, stopPool, closing>>

\* Mutant: the waiting workers are not notified.
Schedule_Silent(t, pcAfter) ==
    /\ pc' = pcAfter
    /\ IF stopPool THEN UNCHANGED scheduledTasks
       ELSE /\ ~Locked
            /\ scheduledTasks' = scheduledTasks \cup {t}
    /\ UNCHANGED <<dueTasks, taskOf, stopDelayed, stopPool, closing>>

\* schedule(t), by a thread whose own step takes pc to pcAfter.
Schedule(t, pcAfter) ==
    /\ IF stopPool
       THEN /\ pc' = pcAfter
            /\ UNCHANGED scheduledTasks
       ELSE /\ ~Locked
            /\ scheduledTasks' = scheduledTasks \cup {t}
            /\ pc' = NotifyAll(pcAfter)
    /\ UNCHANGED <<dueTasks, taskOf, stopDelayed, stopPool, closing>>

\* stop() sets the flag, then notifies, both without the lock ...
SetStopDelayed ==
    /\ closing = "no"
    /\ closing' = "flag"
    /\ stopDelayed' = TRUE
    /\ UNCHANGED <<scheduledTasks, dueTasks, pc, taskOf, stopPool>>

NotifyStop ==
    /\ closing = "flag"
    /\ closing' = "pool"
    /\ pc' = NotifyAll(pc)
    /\ UNCHANGED <<scheduledTasks, dueTasks, taskOf, stopDelayed, stopPool>>

\* ... and ThreadPool::stop() ends the threads whose run() has returned,
SetStopPool ==
    /\ closing = "pool"
    /\ closing' = "join"
    /\ stopPool' = TRUE
    /\ UNCHANGED <<scheduledTasks, dueTasks, pc, taskOf, stopDelayed>>

\* and joins them all.
JoinThreads ==
    /\ closing = "join"
    /\ \A w \in Workers : pc[w] = "done"
    /\ closing' = "joined"
    /\ UNCHANGED <<scheduledTasks, dueTasks, pc, taskOf, stopDelayed, stopPool>>

\* What worker w does but for running a task and waking up.
Work(w) ==
    \/ TestStop(w) \/ FindEmpty(w) \/ (\E t \in Tasks : Take(w, t))
    \/ FindEarly(w) \/ EndScan(w) \/ Sleep(w) \/ DropTask(w)
================================================================================
