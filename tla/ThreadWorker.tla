---------------------------- MODULE ThreadWorker ----------------------------
(***************************************************************************)
(* The worker thread of the SQL modules (thread/ThreadWorker.cpp on top of *)
(* BaseWorker.cpp) and the game thread that hands it tasks, stops, pauses  *)
(* and starts it.  The mysqlx and sqlite modules hold the same code.       *)
(*                                                                         *)
(* A step is what a thread does between two accesses to shared state: a    *)
(* section under m_QueueLock, a read or a write under m_StateLock, a wait  *)
(* or a signal, and each read or write that no lock protects.              *)
(***************************************************************************)
EXTENDS Integers, Sequences

CONSTANTS
  Task,       \* the tasks (MysqlThread), used again once they are done
  NoTask,
  PerFrame,   \* m_perFrame: tasks that one RunFrame() runs
  Sticky      \* a signal to an event nobody waits for is kept (Windows: yes)

ASSUME WorkerAssumption ==
  /\ NoTask \notin Task
  /\ PerFrame \in Nat \ {0}
  /\ Sticky \in BOOLEAN

VARIABLES
  state,         \* m_state: "Stopped", "Running" or "Paused"
  queue,         \* m_ThreadQueue
  waiting,       \* m_Waiting
  cancel,        \* m_FlushType
  addSignal,     \* m_AddSignal is signalled
  pauseSignal,   \* m_PauseSignal is signalled
  wpc,           \* where the worker thread is
  seen,          \* the worker's copy of m_state, this_state
  running,       \* the task it runs, or NoTask
  done,          \* tasks this RunFrame() has run
  gpc            \* where the game thread is, "idle" between calls

vars == <<state, queue, waiting, cancel, addSignal, pauseSignal,
          wpc, seen, running, done, gpc>>
signals == <<addSignal, pauseSignal>>

States == {"Stopped", "Running", "Paused"}
WorkerPlaces == {"none", "top", "look", "wait", "asleep", "woken", "check",
                 "pausing", "paused", "frame", "drain", "end"}
GamePlaces == {"idle", "stop wake", "join", "unpause pause", "unpause wake"}

Waits(t) == \E i \in 1 .. Len(queue) : queue[i] = t

Init ==
  /\ state = "Stopped"
  /\ queue = <<>>
  /\ waiting = FALSE /\ cancel = FALSE
  /\ addSignal = FALSE /\ pauseSignal = FALSE
  /\ wpc = "none" /\ seen = "Running" /\ running = NoTask /\ done = 0
  /\ gpc = "idle"

-----------------------------------------------------------------------------
(* The game thread. *)

(* IEventSignal::Signal(): without Sticky it reaches only a thread that    *)
(* already sleeps at the event.                                            *)
Signalled(signal, place) == signal \/ Sticky \/ wpc = place

Start ==
  /\ gpc = "idle" /\ state = "Stopped"
  /\ state' = "Running"
  /\ waiting' = FALSE
  /\ addSignal' = FALSE /\ pauseSignal' = FALSE
  /\ wpc' = "top" /\ seen' = "Running" /\ done' = 0
  /\ UNCHANGED <<queue, cancel, running, gpc>>

(* MakeThread() of a worker that does not run queues nothing. *)
MakeThread(t) ==
  /\ gpc = "idle" /\ state = "Running"
  /\ ~Waits(t) /\ running # t
  /\ queue' = Append(queue, t)
  /\ addSignal' = IF waiting THEN Signalled(addSignal, "asleep") ELSE addSignal
  /\ UNCHANGED <<state, waiting, cancel, pauseSignal, wpc, seen, running, done, gpc>>

Pause ==
  /\ gpc = "idle" /\ state = "Running"
  /\ state' = "Paused"
  /\ UNCHANGED <<queue, waiting, cancel, signals, wpc, seen, running, done, gpc>>

Unpause ==
  /\ gpc = "idle" /\ state = "Paused"
  /\ state' = "Running"
  /\ gpc' = "unpause pause"
  /\ UNCHANGED <<queue, waiting, cancel, signals, wpc, seen, running, done>>

UnpausePause ==
  /\ gpc = "unpause pause"
  /\ pauseSignal' = Signalled(pauseSignal, "paused")
  /\ gpc' = "unpause wake"
  /\ UNCHANGED <<state, queue, waiting, cancel, addSignal, wpc, seen, running, done>>

(* m_Waiting is read without a lock. *)
UnpauseWake ==
  /\ gpc = "unpause wake"
  /\ addSignal' = IF waiting THEN Signalled(addSignal, "asleep") ELSE addSignal
  /\ gpc' = "idle"
  /\ UNCHANGED <<state, queue, waiting, cancel, pauseSignal, wpc, seen, running, done>>

(* Stop() of a paused worker calls Unpause(), which does nothing: the      *)
(* state is no longer Worker_Paused.                                       *)
Stop(flush_cancel) ==
  /\ gpc = "idle" /\ state # "Stopped"
  /\ state' = "Stopped"
  /\ cancel' = flush_cancel
  /\ gpc' = IF state = "Paused" THEN "join" ELSE "stop wake"
  /\ UNCHANGED <<queue, waiting, signals, wpc, seen, running, done>>

StopWake ==
  /\ gpc = "stop wake"
  /\ addSignal' = IF waiting THEN Signalled(addSignal, "asleep") ELSE addSignal
  /\ gpc' = "join"
  /\ UNCHANGED <<state, queue, waiting, cancel, pauseSignal, wpc, seen, running, done>>

(* Mutant: Stop() does not wait for the thread to end. *)
StopNoJoin ==
  /\ gpc = "join"
  /\ queue' = <<>>
  /\ wpc' = "none"
  /\ gpc' = "idle"
  /\ UNCHANGED <<state, waiting, cancel, signals, seen, running, done>>

(* WaitForThread(), then Flush(true): what is left in the queue is         *)
(* cancelled, and the thread, the locks and the events are destroyed.      *)
StopJoin ==
  /\ gpc = "join"
  /\ wpc = "end"
  /\ queue' = <<>>
  /\ wpc' = "none"
  /\ gpc' = "idle"
  /\ UNCHANGED <<state, waiting, cancel, signals, seen, running, done>>

-----------------------------------------------------------------------------
(* The worker thread: RunThread(). *)

(* m_state is read under m_StateLock. *)
ReadState ==
  /\ wpc = "top"
  /\ seen' = state
  /\ wpc' = IF state = "Stopped" THEN "check" ELSE "look"
  /\ UNCHANGED <<state, queue, waiting, cancel, signals, running, done, gpc>>

(* Mutant: the worker waits without having set m_Waiting. *)
LookForgets ==
  /\ wpc = "look"
  /\ wpc' = IF queue = <<>> THEN "wait" ELSE "check"
  /\ UNCHANGED <<state, queue, waiting, cancel, signals, seen, running, done, gpc>>

(* Under m_QueueLock.  The test for the end that follows is of seen, which *)
(* is not "Stopped" here, so that it never holds.                          *)
LookAtQueue ==
  /\ wpc = "look"
  /\ waiting' = (waiting \/ queue = <<>>)
  /\ wpc' = IF queue # <<>> THEN "check"
            ELSE IF seen = "Stopped" THEN "end" ELSE "wait"
  /\ UNCHANGED <<state, queue, cancel, signals, seen, running, done, gpc>>

(* IEventSignal::Wait() of m_AddSignal: the thread falls asleep and wakes. *)
FallAsleep ==
  /\ wpc = "wait"
  /\ wpc' = "asleep"
  /\ UNCHANGED <<state, queue, waiting, cancel, signals, seen, running, done, gpc>>

Wake ==
  /\ wpc = "asleep" /\ addSignal
  /\ addSignal' = FALSE
  /\ wpc' = "woken"
  /\ UNCHANGED <<state, queue, waiting, cancel, pauseSignal, seen, running, done, gpc>>

ClearWaiting ==
  /\ wpc = "woken"
  /\ waiting' = FALSE
  /\ wpc' = "check"
  /\ UNCHANGED <<state, queue, cancel, signals, seen, running, done, gpc>>

(* Mutant: a worker to be depleted ends like one whose tasks are cancelled. *)
CheckAlwaysEnds ==
  /\ wpc = "check"
  /\ seen' = state
  /\ done' = 0
  /\ wpc' = CASE state = "Running" -> "frame"
              [] state = "Paused"  -> "pausing"
              [] state = "Stopped" -> "end"
  /\ UNCHANGED <<state, queue, waiting, cancel, signals, running, gpc>>

(* Mutant: the loop goes on when the tasks are to be cancelled.             *)
CheckNeverBreaks ==
  /\ wpc = "check"
  /\ seen' = state
  /\ done' = 0
  /\ wpc' = CASE state = "Running" -> "frame"
              [] state = "Paused"  -> "pausing"
              [] state = "Stopped" -> IF cancel THEN "top" ELSE "drain"
  /\ UNCHANGED <<state, queue, waiting, cancel, signals, running, gpc>>

CheckState ==
  /\ wpc = "check"
  /\ seen' = state
  /\ done' = 0
  /\ wpc' = CASE state = "Running" -> "frame"
              [] state = "Paused"  -> "pausing"
              [] state = "Stopped" -> IF cancel THEN "end" ELSE "drain"
  /\ UNCHANGED <<state, queue, waiting, cancel, signals, running, gpc>>

FallAsleepPaused ==
  /\ wpc = "pausing"
  /\ wpc' = "paused"
  /\ UNCHANGED <<state, queue, waiting, cancel, signals, seen, running, done, gpc>>

(* The state is not read again: the worker goes on to a frame. *)
WakePaused ==
  /\ wpc = "paused" /\ pauseSignal
  /\ pauseSignal' = FALSE
  /\ wpc' = "frame"
  /\ UNCHANGED <<state, queue, waiting, cancel, addSignal, seen, running, done, gpc>>

(* Mutant: a frame runs one task too many. *)
PopOneMore ==
  /\ wpc \in {"frame", "drain"} /\ running = NoTask
  /\ queue # <<>>
  /\ wpc = "frame" => done <= PerFrame
  /\ running' = Head(queue)
  /\ queue' = Tail(queue)
  /\ UNCHANGED <<state, waiting, cancel, signals, wpc, seen, done, gpc>>

(* RunFrame(): PopThreadFromQueue() under m_QueueLock.  A frame of a       *)
(* stopped worker is followed by another one while tasks are left.         *)
Pop ==
  /\ wpc \in {"frame", "drain"} /\ running = NoTask
  /\ queue # <<>>
  /\ wpc = "frame" => done < PerFrame
  /\ running' = Head(queue)
  /\ queue' = Tail(queue)
  /\ UNCHANGED <<state, waiting, cancel, signals, wpc, seen, done, gpc>>

(* RunThread() of the task, then its OnTerminate(). *)
Run ==
  /\ running # NoTask
  /\ running' = NoTask
  /\ done' = IF wpc = "frame" THEN done + 1 ELSE done
  /\ UNCHANGED <<state, queue, waiting, cancel, signals, wpc, seen, gpc>>

FrameDone ==
  /\ running = NoTask
  /\ \/ wpc = "frame" /\ (queue = <<>> \/ done = PerFrame) /\ wpc' = "top"
     \/ wpc = "drain" /\ queue = <<>> /\ wpc' = "end"
  /\ UNCHANGED <<state, queue, waiting, cancel, signals, seen, running, done, gpc>>

-----------------------------------------------------------------------------
GameCalls ==
  \/ Start
  \/ \E t \in Task : MakeThread(t)
  \/ Pause
  \/ Unpause
  \/ \E flush_cancel \in BOOLEAN : Stop(flush_cancel)

(* The calls that have begun. *)
GameGoesOn == UnpausePause \/ UnpauseWake \/ StopWake \/ StopJoin

Worker ==
  \/ ReadState \/ LookAtQueue \/ FallAsleep \/ Wake \/ ClearWaiting
  \/ CheckState \/ FallAsleepPaused \/ WakePaused
  \/ Pop \/ Run \/ FrameDone

Next == GameCalls \/ GameGoesOn \/ Worker

Spec == Init /\ [][Next]_vars

(* Both threads are scheduled; nothing makes the game call the worker. *)
FairSpec == Spec /\ WF_vars(Worker) /\ WF_vars(GameGoesOn)

-----------------------------------------------------------------------------
(* Type invariant. *)
TypeOK ==
  /\ state \in States
  /\ queue \in Seq(Task)
  /\ waiting \in BOOLEAN /\ cancel \in BOOLEAN
  /\ addSignal \in BOOLEAN /\ pauseSignal \in BOOLEAN
  /\ wpc \in WorkerPlaces
  /\ seen \in States
  /\ running \in Task \cup {NoTask}
  /\ done \in 0 .. PerFrame
  /\ gpc \in GamePlaces

(* No wake-up for a task is lost: a worker that sleeps, or is about to,    *)
(* over a queue that is not empty has been signalled.                      *)
NoSleepOnWork ==
  wpc \in {"wait", "asleep"} /\ queue # <<>> => addSignal

(* The thread that ends has run all tasks, unless they are to be           *)
(* cancelled, and a stopped worker holds no task.                          *)
StoppedHoldsNone ==
  /\ wpc = "end" => running = NoTask /\ (cancel \/ queue = <<>>)
  /\ state = "Stopped" /\ gpc = "idle" => queue = <<>> /\ running = NoTask

(* The promise of IWorker, which the worker keeps in every step.           *)
mode == IF state # "Stopped" THEN "open"
        ELSE IF gpc = "idle" THEN "closed"
        ELSE IF cancel THEN "cancelling" ELSE "depleting"

Promise == INSTANCE TaskQueue

KeepsPromise == Promise!Spec

(* A task that has been queued is run, or cancelled by Stop(), unless the  *)
(* worker is paused.                                                       *)
QueuedIsServed ==
  [](state # "Paused") => \A t \in Task : Waits(t) ~> ~Waits(t)

(* Stop() returns, at least that of a worker that is never paused.         *)
StopReturns ==
  [](state # "Paused") => (gpc = "join" ~> gpc = "idle")

=============================================================================
