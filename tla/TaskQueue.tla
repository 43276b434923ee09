----------------------------- MODULE TaskQueue -----------------------------
(***************************************************************************)
(* What the interface IWorker promises of a worker: the tasks it is given  *)
(* run one at a time, in the order they came, each once; Stop(true)        *)
(* cancels the tasks that have not begun, Stop(false) lets all of them run *)
(* first; once stopped, the worker holds no task.                          *)
(***************************************************************************)
EXTENDS Integers, Sequences

CONSTANTS Task, NoTask

VARIABLES
  queue,     \* tasks that wait, oldest first
  running,   \* the task that runs, or NoTask
  mode       \* "open", or how far Stop() has come

vars == <<queue, running, mode>>

Waits(t) == \E i \in 1 .. Len(queue) : queue[i] = t

Init == queue = <<>> /\ running = NoTask /\ mode = "closed"

Start ==
  /\ mode = "closed"
  /\ mode' = "open"
  /\ UNCHANGED <<queue, running>>

Submit(t) ==
  /\ mode = "open"
  /\ ~Waits(t) /\ running # t
  /\ queue' = Append(queue, t)
  /\ UNCHANGED <<running, mode>>

Begin ==
  /\ mode # "closed"
  /\ running = NoTask
  /\ queue # <<>>
  /\ running' = Head(queue)
  /\ queue' = Tail(queue)
  /\ UNCHANGED mode

Finish ==
  /\ running # NoTask
  /\ running' = NoTask
  /\ UNCHANGED <<queue, mode>>

Stop(cancel) ==
  /\ mode = "open"
  /\ mode' = IF cancel THEN "cancelling" ELSE "depleting"
  /\ UNCHANGED <<queue, running>>

(* The tasks that are left are cancelled, in order. *)
Cancelled ==
  /\ mode = "cancelling"
  /\ running = NoTask
  /\ mode' = "closed"
  /\ queue' = <<>>
  /\ UNCHANGED running

Depleted ==
  /\ mode = "depleting"
  /\ running = NoTask
  /\ queue = <<>>
  /\ mode' = "closed"
  /\ UNCHANGED <<queue, running>>

Next ==
  \/ Start
  \/ \E t \in Task : Submit(t)
  \/ Begin
  \/ Finish
  \/ \E cancel \in BOOLEAN : Stop(cancel)
  \/ Cancelled
  \/ Depleted

Spec == Init /\ [][Next]_vars

=============================================================================
