------------------------- MODULE ThreadWorkerProofs -------------------------
(***************************************************************************)
(* For every set of tasks, every m_perFrame and both kinds of signals, the *)
(* worker keeps the promise of IWorker; with signals that are kept, no     *)
(* wake-up for a task is lost.                                             *)
(***************************************************************************)
EXTENDS ThreadWorker, TLAPS

(* There is a thread exactly while the worker is started or Stop() runs.   *)
ThreadLives == wpc = "none" <=> state = "Stopped" /\ gpc = "idle"

(* Stop() works on a stopped worker, Unpause() on one that is not.         *)
CallsFit ==
  /\ gpc \in {"stop wake", "join"} => state = "Stopped"
  /\ gpc \in {"unpause pause", "unpause wake"} => state # "Stopped"

(* Where the worker runs tasks, and what it has done when it ends.         *)
RunsInFrame == running # NoTask => wpc \in {"frame", "drain"}

EndsRightly ==
  /\ wpc = "look" => seen # "Stopped"
  /\ wpc \in {"drain", "end"} => state = "Stopped"
  /\ wpc = "drain" => ~cancel
  /\ wpc = "end" => cancel \/ queue = <<>>
  /\ wpc = "none" => queue = <<>>

(* A frame that runs a task has not reached its limit.                     *)
FrameHasRoom == running # NoTask /\ wpc = "frame" => done < PerFrame

IInv ==
  /\ TypeOK /\ ThreadLives /\ CallsFit
  /\ RunsInFrame /\ EndsRightly /\ FrameHasRoom

(* A step in which nothing changes.                                        *)
Same ==
  /\ state' = state /\ queue' = queue
  /\ waiting' = waiting /\ cancel' = cancel
  /\ addSignal' = addSignal /\ pauseSignal' = pauseSignal
  /\ wpc' = wpc /\ seen' = seen /\ running' = running
  /\ done' = done /\ gpc' = gpc

(* The strengthening of NoSleepOnWork: whoever waits has said so.          *)
WaitsOpenly == wpc \in {"wait", "asleep"} => waiting

-----------------------------------------------------------------------------
(* Running counts a task of a frame that had room for it.                  *)
LEMMA CountFits ==
  ASSUME WorkerAssumption, NEW n \in 0 .. PerFrame, NEW frame \in BOOLEAN,
         frame => n < PerFrame
  PROVE  (IF frame THEN n + 1 ELSE n) \in 0 .. PerFrame
  BY DEF WorkerAssumption

LEMMA ZeroFits ==
  ASSUME WorkerAssumption
  PROVE  0 \in 0 .. PerFrame
  BY DEF WorkerAssumption

LEMMA PushTypes ==
  ASSUME NEW q \in Seq(Task), NEW t \in Task
  PROVE  Append(q, t) \in Seq(Task)
  OBVIOUS

LEMMA EmptyTypes == <<>> \in Seq(Task)
  OBVIOUS

LEMMA PopTypes ==
  ASSUME NEW q \in Seq(Task), q # <<>>
  PROVE  Head(q) \in Task /\ Tail(q) \in Seq(Task)
  OBVIOUS

LEMMA NextOrSame ==
  ASSUME [Next]_vars
  PROVE  Next \/ Same
  BY DEF vars, Same

LEMMA SameTypes ==
  ASSUME TypeOK, Same
  PROVE  TypeOK'
  BY DEF TypeOK, Same

LEMMA SignalTypes ==
  ASSUME WorkerAssumption, NEW signal \in BOOLEAN, NEW place
  PROVE  Signalled(signal, place) \in BOOLEAN
  BY DEF Signalled, WorkerAssumption

LEMMA Types ==
  ASSUME WorkerAssumption, IInv, Next \/ Same
  PROVE  TypeOK'
<1>0. 0 \in 0 .. PerFrame /\ <<>> \in Seq(Task)
  BY ZeroFits, EmptyTypes
<1>t. TypeOK
  BY DEF IInv
<1> USE <1>t DEF TypeOK, signals
<1>1. CASE Start
  BY <1>0, <1>1 DEF Start, States, WorkerPlaces
<1>2. ASSUME NEW t \in Task, MakeThread(t) PROVE TypeOK'
  <2>1. Append(queue, t) \in Seq(Task)
    BY PushTypes
  <2>2. Signalled(addSignal, "asleep") \in BOOLEAN
    BY SignalTypes
  <2> QED BY <1>2, <2>1, <2>2 DEF MakeThread
<1>3. CASE Pause
  BY <1>3 DEF Pause, States
<1>4. CASE Unpause \/ UnpausePause \/ UnpauseWake
  <2>1. CASE Unpause
    BY <2>1 DEF Unpause, States, GamePlaces
  <2>2. CASE UnpausePause
    <3>1. Signalled(pauseSignal, "paused") \in BOOLEAN
      BY SignalTypes
    <3> QED BY <2>2, <3>1 DEF UnpausePause, GamePlaces
  <2>3. CASE UnpauseWake
    <3>1. Signalled(addSignal, "asleep") \in BOOLEAN
      BY SignalTypes
    <3> QED BY <2>3, <3>1 DEF UnpauseWake, GamePlaces
  <2> QED BY <1>4, <2>1, <2>2, <2>3
<1>5. ASSUME NEW c \in BOOLEAN, Stop(c) PROVE TypeOK'
  BY <1>5 DEF Stop, States, GamePlaces
<1>6. CASE StopWake \/ StopJoin
  <2>1. CASE StopWake
    <3>1. Signalled(addSignal, "asleep") \in BOOLEAN
      BY SignalTypes
    <3> QED BY <2>1, <3>1 DEF StopWake, GamePlaces
  <2>2. CASE StopJoin
    BY <1>0, <2>2 DEF StopJoin, WorkerPlaces, GamePlaces
  <2> QED BY <1>6, <2>1, <2>2
<1>7. CASE ReadState \/ LookAtQueue
  <2>1. CASE ReadState
    BY <2>1 DEF ReadState, WorkerPlaces
  <2>2. CASE LookAtQueue
    BY <2>2 DEF LookAtQueue, WorkerPlaces
  <2> QED BY <1>7, <2>1, <2>2
<1>8. CASE FallAsleep \/ Wake \/ ClearWaiting
  <2>1. CASE FallAsleep
    BY <2>1 DEF FallAsleep, WorkerPlaces
  <2>2. CASE Wake
    BY <2>2 DEF Wake, WorkerPlaces
  <2>3. CASE ClearWaiting
    BY <2>3 DEF ClearWaiting, WorkerPlaces
  <2> QED BY <1>8, <2>1, <2>2, <2>3
<1>9. CASE CheckState
  <2>1. wpc' \in WorkerPlaces
    BY <1>9 DEF CheckState, States, WorkerPlaces
  <2> QED BY <1>0, <1>9, <2>1 DEF CheckState
<1>10. CASE FallAsleepPaused \/ WakePaused
  <2>1. CASE FallAsleepPaused
    BY <2>1 DEF FallAsleepPaused, WorkerPlaces
  <2>2. CASE WakePaused
    BY <2>2 DEF WakePaused, WorkerPlaces
  <2> QED BY <1>10, <2>1, <2>2
<1>11. CASE Pop
  BY <1>11, PopTypes DEF Pop
<1>12. CASE Run
  <2>1. done' \in 0 .. PerFrame
    BY <1>12, CountFits DEF IInv, FrameHasRoom, Run
  <2> QED BY <1>12, <2>1 DEF Run
<1>13. CASE FrameDone
  BY <1>13 DEF FrameDone, WorkerPlaces
<1>14. CASE Same
  BY <1>14, SameTypes
<1> QED
  BY <1>1, <1>2, <1>3, <1>4, <1>5, <1>6, <1>7, <1>8, <1>9, <1>10, <1>11,
     <1>12, <1>13, <1>14
  DEF Next, GameCalls, GameGoesOn, Worker

LEMMA Structure ==
  ASSUME WorkerAssumption, IInv, Next \/ Same
  PROVE  (ThreadLives /\ CallsFit /\ RunsInFrame /\ EndsRightly)'
<1> USE DEF IInv, TypeOK, ThreadLives, CallsFit, RunsInFrame, EndsRightly
<1>1. CASE Start
  BY <1>1 DEF Start
<1>2. ASSUME NEW t \in Task, MakeThread(t)
      PROVE  (ThreadLives /\ CallsFit /\ RunsInFrame /\ EndsRightly)'
  BY <1>2 DEF MakeThread
<1>3. CASE Pause \/ Unpause \/ UnpausePause \/ UnpauseWake
  BY <1>3 DEF Pause, Unpause, UnpausePause, UnpauseWake
<1>4. ASSUME NEW c \in BOOLEAN, Stop(c)
      PROVE  (ThreadLives /\ CallsFit /\ RunsInFrame /\ EndsRightly)'
  BY <1>4 DEF Stop
<1>5. CASE StopWake \/ StopJoin
  <2>1. CASE StopWake
    BY <2>1 DEF StopWake
  <2>2. CASE StopJoin
    BY <2>2 DEF StopJoin
  <2> QED
    BY <1>5, <2>1, <2>2
<1>6. CASE ReadState \/ LookAtQueue \/ FallAsleep \/ Wake \/ ClearWaiting
  BY <1>6 DEF ReadState, LookAtQueue, FallAsleep, Wake, ClearWaiting
<1>7. CASE CheckState
  BY <1>7 DEF CheckState, States
<1>8. CASE FallAsleepPaused \/ WakePaused
  BY <1>8 DEF FallAsleepPaused, WakePaused
<1>9. CASE Pop \/ Run \/ FrameDone
  <2>1. CASE Pop
    BY <2>1 DEF Pop
  <2>2. CASE Run
    BY <2>2 DEF Run
  <2>3. CASE FrameDone
    BY <2>3 DEF FrameDone
  <2> QED
    BY <1>9, <2>1, <2>2, <2>3
<1>10. CASE Same
  BY <1>10 DEF Same
<1> QED
  BY <1>1, <1>2, <1>3, <1>4, <1>5, <1>6, <1>7, <1>8, <1>9, <1>10
  DEF Next, GameCalls, GameGoesOn, Worker

LEMMA Room ==
  ASSUME WorkerAssumption, IInv, Next \/ Same
  PROVE  FrameHasRoom'
<1> USE DEF IInv, RunsInFrame, FrameHasRoom
<1>1. CASE Start
  BY <1>1 DEF Start
<1>2. ASSUME NEW t \in Task, MakeThread(t) PROVE FrameHasRoom'
  BY <1>2 DEF MakeThread
<1>3. CASE Pause \/ Unpause \/ UnpausePause \/ UnpauseWake
  BY <1>3 DEF Pause, Unpause, UnpausePause, UnpauseWake
<1>4. ASSUME NEW c \in BOOLEAN, Stop(c) PROVE FrameHasRoom'
  BY <1>4 DEF Stop
<1>5. CASE StopWake \/ StopJoin
  BY <1>5 DEF StopWake, StopJoin
<1>6. CASE ReadState \/ LookAtQueue \/ FallAsleep \/ Wake \/ ClearWaiting
  BY <1>6 DEF ReadState, LookAtQueue, FallAsleep, Wake, ClearWaiting
<1>7. CASE CheckState
  BY <1>7 DEF CheckState
<1>8. CASE FallAsleepPaused \/ WakePaused
  BY <1>8 DEF FallAsleepPaused, WakePaused
<1>9. CASE Pop \/ Run \/ FrameDone
  BY <1>9 DEF Pop, Run, FrameDone
<1>10. CASE Same
  BY <1>10 DEF Same
<1> QED
  BY <1>1, <1>2, <1>3, <1>4, <1>5, <1>6, <1>7, <1>8, <1>9, <1>10
  DEF Next, GameCalls, GameGoesOn, Worker

LEMMA Begins == WorkerAssumption /\ Init => IInv
<1> SUFFICES ASSUME WorkerAssumption, Init PROVE IInv
  OBVIOUS
<1>1. 0 \in 0 .. PerFrame /\ <<>> \in Seq(Task)
  BY ZeroFits, EmptyTypes
<1>2. TypeOK
  BY <1>1 DEF Init, TypeOK, States, WorkerPlaces, GamePlaces
<1>3. ThreadLives /\ CallsFit /\ RunsInFrame /\ EndsRightly
  BY DEF Init, ThreadLives, CallsFit, RunsInFrame, EndsRightly
<1>4. FrameHasRoom
  BY DEF Init, FrameHasRoom
<1> QED
  BY <1>2, <1>3, <1>4 DEF IInv

LEMMA Inductive == Spec => []IInv
<1>1. Init => IInv
  BY WorkerAssumption, Begins
<1>2. IInv /\ [Next]_vars => IInv'
  BY WorkerAssumption, NextOrSame, Types, Structure, Room DEF IInv
<1> QED
  BY <1>1, <1>2, PTL DEF Spec

-----------------------------------------------------------------------------
(* Every variable of the worker keeps its type, whatever Stop(), Pause()   *)
(* and the thread interleave to; a frame never runs more than PerFrame.    *)
THEOREM TypeCorrect == Spec => []TypeOK
<1>1. IInv => TypeOK
  BY DEF IInv
<1> QED
  BY <1>1, Inductive, PTL

(* The thread ends only with an empty queue or under Stop(true), and when  *)
(* Stop() has returned no task is held or running.                         *)
THEOREM StoppedIsEmpty == Spec => []StoppedHoldsNone
<1>1. IInv => StoppedHoldsNone
  BY DEF IInv, ThreadLives, RunsInFrame, EndsRightly, StoppedHoldsNone
<1> QED
  BY <1>1, Inductive, PTL

(* With signals that are kept, MakeThread() never leaves a worker asleep   *)
(* over its task.                                                          *)
THEOREM NoLostWakeup == ASSUME Sticky PROVE Spec => [](WaitsOpenly /\ NoSleepOnWork)
<1> DEFINE Awake == WaitsOpenly /\ NoSleepOnWork
<1> USE DEF WaitsOpenly, NoSleepOnWork
<1>1. Init => Awake
  BY DEF Init
<1>2. ASSUME IInv, Awake, Next \/ Same PROVE Awake'
  <2>1. CASE Start
    BY <1>2, <2>1 DEF Start
  <2>2. ASSUME NEW t \in Task, MakeThread(t) PROVE Awake'
    BY <1>2, <2>2 DEF MakeThread, Signalled
  <2>3. CASE Pause \/ Unpause \/ UnpausePause \/ UnpauseWake
    BY <1>2, <2>3 DEF Pause, Unpause, UnpausePause, UnpauseWake, Signalled, signals
  <2>4. ASSUME NEW c \in BOOLEAN, Stop(c) PROVE Awake'
    BY <1>2, <2>4 DEF Stop, signals
  <2>5. CASE StopWake \/ StopJoin
    BY <1>2, <2>5 DEF StopWake, StopJoin, Signalled, signals
  <2>6. CASE ReadState \/ FallAsleep \/ Wake \/ ClearWaiting
    BY <1>2, <2>6 DEF ReadState, FallAsleep, Wake, ClearWaiting, signals
  <2>7. CASE LookAtQueue
    BY <1>2, <2>7 DEF LookAtQueue, signals
  <2>8. CASE CheckState \/ FallAsleepPaused \/ WakePaused
    BY <1>2, <2>8 DEF CheckState, FallAsleepPaused, WakePaused, signals, IInv, TypeOK, States
  <2>9. CASE Pop \/ Run \/ FrameDone
    BY <1>2, <2>9 DEF Pop, Run, FrameDone, signals
  <2>10. CASE Same
    BY <1>2, <2>10 DEF Same
  <2> QED
    BY <1>2, <2>1, <2>2, <2>3, <2>4, <2>5, <2>6, <2>7, <2>8, <2>9, <2>10
    DEF Next, GameCalls, GameGoesOn, Worker
<1> QED
  BY <1>1, <1>2, NextOrSame, Inductive, PTL DEF Spec

-----------------------------------------------------------------------------
(* The step from the worker to what IWorker promises of it.                *)
LEMMA StepMaps ==
  ASSUME IInv, Next \/ Same
  PROVE  [Promise!Next]_(Promise!vars)
<1> USE DEF IInv, ThreadLives, CallsFit, RunsInFrame, EndsRightly, mode,
            Promise!vars
<1>1. CASE Start
  <2>1. Promise!Start
    BY <1>1 DEF Start, Promise!Start
  <2> QED
    BY <2>1 DEF Promise!Next
<1>2. ASSUME NEW t \in Task, MakeThread(t) PROVE Promise!Next
  <2>1. Promise!Submit(t)
    BY <1>2 DEF MakeThread, Waits, Promise!Submit, Promise!Waits
  <2> QED
    BY <2>1 DEF Promise!Next
<1>3. CASE Pause \/ Unpause \/ UnpausePause \/ UnpauseWake
  BY <1>3 DEF Pause, Unpause, UnpausePause, UnpauseWake
<1>4. ASSUME NEW c \in BOOLEAN, Stop(c) PROVE Promise!Next
  <2>1. Promise!Stop(c)
    BY <1>4 DEF Stop, Promise!Stop
  <2> QED
    BY <2>1 DEF Promise!Next
<1>5. CASE StopWake
  BY <1>5 DEF StopWake
<1>6. CASE StopJoin
  <2>1. Promise!Cancelled \/ Promise!Depleted
    BY <1>6 DEF StopJoin, Promise!Cancelled, Promise!Depleted
  <2> QED
    BY <2>1 DEF Promise!Next
<1>7. CASE \/ ReadState \/ LookAtQueue \/ FallAsleep \/ Wake \/ ClearWaiting
           \/ CheckState \/ FallAsleepPaused \/ WakePaused \/ FrameDone
  <2>1. UNCHANGED <<queue, running, state, gpc, cancel>>
    BY <1>7 DEF ReadState, LookAtQueue, FallAsleep, Wake, ClearWaiting,
                CheckState, FallAsleepPaused, WakePaused, FrameDone
  <2> QED
    BY <2>1
<1>8. CASE Pop
  <2>1. Promise!Begin
    BY <1>8 DEF Pop, Promise!Begin
  <2> QED
    BY <2>1 DEF Promise!Next
<1>9. CASE Run
  <2>1. Promise!Finish
    BY <1>9 DEF Run, Promise!Finish
  <2> QED
    BY <2>1 DEF Promise!Next
<1>10. CASE Same
  BY <1>10 DEF Same
<1> QED
  BY <1>1, <1>2, <1>3, <1>4, <1>5, <1>6, <1>7, <1>8, <1>9, <1>10
  DEF Next, GameCalls, GameGoesOn, Worker

(* The thread and its caller, with all their interleavings, implement the  *)
(* abstract worker: tasks run one at a time, in order and once, Stop(true) *)
(* cancels what is left, and Stop(false) returns only after all have run.  *)
THEOREM Implements == Spec => KeepsPromise
<1>1. Init => Promise!Init
  BY DEF Init, Promise!Init, mode
<1>2. IInv /\ [Next]_vars => [Promise!Next]_(Promise!vars)
  BY StepMaps, NextOrSame
<1> QED
  BY <1>1, <1>2, Inductive, PTL DEF Spec, KeepsPromise, Promise!Spec

=============================================================================
