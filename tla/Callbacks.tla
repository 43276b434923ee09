------------------------------ MODULE Callbacks ------------------------------
(***************************************************************************)
(* Who calls script functions through single plugin forwards: the timed    *)
(* tasks (CTask.cpp), the requests for the next frame (CFrameAction.h),    *)
(* and the plugins themselves, by ExecuteForward().  A function that is    *)
(* called may in turn set and remove tasks, request frames, create,        *)
(* execute and destroy forwards and pause plugins.                         *)
(*                                                                         *)
(* The clock is that of the tasks, which run every 0.1 s: a unit is one    *)
(* run.  A plugin has one function, which bears its name, and does not     *)
(* have plugin_pause and plugin_unpause.                                   *)
(***************************************************************************)
EXTENDS Integers, Sequences, FiniteSets

CONSTANTS
  Plugin,      \* the scripts
  NoPlugin,    \* not one of them
  TaskId,      \* the numbers that plugins give to tasks
  Base,        \* the intervals of set_task(), at least a unit
  NewBase,     \* those of change_task()
  Repeat,      \* the counts of set_task()
  MaxStep,     \* bound on the time between two runs of the tasks
  MaxLag,      \* a task this late is not told from one that is later
  MaxForwards, \* bounds on the forwards, tasks, requests, handles
  MaxTasks, MaxRequests, MaxHandles,
  MaxCalls,    \* and calls within calls
  LateRequests \* the map may change while requests for the next frame wait

ASSUME CallbacksAssumption ==
  /\ NoPlugin \notin Plugin
  /\ Base \subseteq Nat \ {0} /\ NewBase \subseteq Int
  /\ Repeat \subseteq Int
  /\ MaxStep \in Nat \ {0} /\ MaxLag \in Nat
  /\ {MaxForwards, MaxTasks, MaxRequests, MaxHandles, MaxCalls} \subseteq Nat
  /\ LateRequests \in BOOLEAN

VARIABLES
  table,      \* the single plugin forwards
  tasks,      \* CTaskMngr::m_Tasks
  requested,  \* CFrameActionMngr::m_requestedFrames
  handles,    \* forwards that plugins have created, and not destroyed
  running,    \* the plugins that are not paused
  stack,      \* the calls under way
  loop        \* how far StartFrame() has come

vars == <<table, tasks, requested, handles, running, stack, loop>>

Fwd == INSTANCE SPForwards WITH Func <- Plugin, NoFunc <- NoPlugin

Task ==
  [free   : BOOLEAN,                  \* m_bFree
   plugin : Plugin \cup {NoPlugin},   \* m_pPlugin
   fwd    : Nat,                      \* m_iFunc
   id     : TaskId \cup {0},          \* m_iId
   base   : Int,                      \* m_fBase
   loops  : BOOLEAN,                  \* m_bLoop
   repeat : Int,                      \* m_iRepeat
   onMap  : BOOLEAN,                  \* m_bAfterStart or m_bBeforeEnd
   wait   : Int,                      \* until m_fNextExecTime
   inExec : BOOLEAN]                  \* m_bInExecute

(* A forward, and the plugin whose function was asked for. *)
Asked == [fwd : Nat, plugin : Plugin]

(* A call: who made it, through which forward, to whom, and for which      *)
(* task.  An event is a call through a forward to all plugins.  nested     *)
(* says that the same forward was executed again before it returned.       *)
Call == [kind : {"event", "request", "task", "execute"},
         fwd : Nat, plugin : Plugin, task : Nat, nested : BOOLEAN]

Loop == [at : {"idle", "requests", "tasks"}, left : Nat, pos : Nat, ticks : Nat]

Idle == [at |-> "idle", left |-> 0, pos |-> 0, ticks |-> 0]

Init ==
  /\ table = Fwd!EmptyTable
  /\ tasks = <<>> /\ requested = <<>> /\ handles = {}
  /\ running = Plugin
  /\ stack = <<>> /\ loop = Idle

Top == stack[Len(stack)]
Below == SubSeq(stack, 1, Len(stack) - 1)

-----------------------------------------------------------------------------
(* Operations on a task. *)

ClearedTask(task) ==
  [free |-> TRUE, plugin |-> NoPlugin, fwd |-> Fwd!NoForward, id |-> 0, base |-> 0,
   loops |-> FALSE, repeat |-> 0, onMap |-> FALSE, wait |-> 0, inExec |-> task.inExec]

(* CTask::set(): flag "b" loops for ever, flag "a" as often as asked for,  *)
(* flags "c" and "d" count from the start or the end of the map.           *)
SetTaskTo(p, fwd, id, base, flags, repeat) ==
  [free |-> FALSE, plugin |-> p, fwd |-> fwd, id |-> id, base |-> base,
   loops |-> flags \cap {"a", "b"} # {},
   repeat |-> IF "b" \in flags THEN -1 ELSE IF "a" \in flags THEN repeat ELSE 0,
   onMap |-> flags \cap {"c", "d"} # {},
   wait |-> base, inExec |-> FALSE]

(* Mutant: the time is set anew while the task executes. *)
RebasedAlways(task, base) == [task EXCEPT !.base = base, !.wait = base]

Rebased(task, base) ==
  [task EXCEPT !.base = base, !.wait = IF task.inExec THEN @ ELSE base]

Late(wait) == IF wait < -MaxLag THEN -MaxLag ELSE wait

(* Mutant: a task that there is nothing to call for is left as it is. *)
AfterwardsCalled(task) ==
  IF task.free \/ (task.loops /\ task.repeat = 0) THEN task
  ELSE IF task.loops /\ (task.repeat = -1 \/ task.repeat > 1)
  THEN [task EXCEPT !.repeat = IF @ = -1 THEN -1 ELSE @ - 1,
                    !.wait = Late(@ + task.base)]
  ELSE ClearedTask(task)

(* What executeIfRequired() does after the call. *)
Afterwards(task) ==
  IF task.free THEN task
  ELSE IF task.loops /\ (task.repeat = -1 \/ task.repeat > 1)
  THEN [task EXCEPT !.repeat = IF @ = -1 THEN -1 ELSE @ - 1,
                    !.wait = Late(@ + task.base)]
  ELSE ClearedTask(task)

-----------------------------------------------------------------------------
(* The natives that a function may call. *)

Calling == stack # <<>>

(* There is a free object or room for one more. *)
Room(t) == t.free # <<>> \/ Len(t.sp) < MaxForwards

(* Mutant: a slot is taken although its callback has not returned. *)
ReusableAnyway(i) == tasks[i].free

Reusable(i) == tasks[i].free /\ ~tasks[i].inExec

(* The slot that registerTask() takes. *)
SlotFor(i) ==
  \/ /\ i \in 1 .. Len(tasks) /\ Reusable(i)
     /\ \A j \in 1 .. i - 1 : ~Reusable(j)
  \/ /\ i = Len(tasks) + 1 /\ i <= MaxTasks
     /\ \A j \in 1 .. Len(tasks) : ~Reusable(j)

SetTask(f, id, base, flags, repeat) ==
  LET p   == Top.plugin
      fwd == Fwd!RegisteredId(table, f)
      t   == Fwd!Registered(table, f)
  IN  /\ Calling /\ Room(table) /\ f \in {p, NoPlugin}
      /\ IF fwd = Fwd!NoForward
         THEN table' = t /\ UNCHANGED tasks
         ELSE \E i \in 1 .. Len(tasks) + 1 :
                LET task == SetTaskTo(p, fwd, id, base, flags, repeat)
                IN  /\ SlotFor(i)
                    /\ IF i > Len(tasks)
                       THEN tasks' = Append(tasks, task) /\ table' = t
                       ELSE /\ tasks' = [tasks EXCEPT ![i] = task]
                            /\ table' = Fwd!Unregistered(t, tasks[i].fwd)
      /\ UNCHANGED <<requested, handles, running, stack, loop>>

(* CTask::match(): the own tasks, or those of every plugin. *)
Matches(task, id, outside) ==
  ~task.free /\ task.id = id /\ (outside \/ task.plugin = Top.plugin)

(* The forwards of the tasks are unregistered in the order of the slots.   *)
RemoveTasks(id, outside) ==
  LET gone == {i \in 1 .. Len(tasks) : Matches(tasks[i], id, outside)}
      now  == {i \in gone : Fwd!Releasable(table, tasks[i].fwd)}
  IN  /\ Calling /\ gone # {}
      /\ tasks' = [i \in 1 .. Len(tasks) |->
                     IF i \in gone THEN ClearedTask(tasks[i]) ELSE tasks[i]]
      /\ \E order \in [1 .. Cardinality(now) -> now] :
           /\ \A j, k \in 1 .. Cardinality(now) : j < k => order[j] < order[k]
           /\ \A i \in now : \E k \in 1 .. Cardinality(now) : order[k] = i
           /\ table' = Fwd!AllUnregistered(table, {tasks[i].fwd : i \in gone},
                         [k \in 1 .. Cardinality(now) |-> tasks[order[k]].fwd])
      /\ UNCHANGED <<requested, handles, running, stack, loop>>

ChangeTasks(id, base, outside) ==
  /\ Calling
  /\ tasks' = [i \in 1 .. Len(tasks) |->
                 IF Matches(tasks[i], id, outside) THEN Rebased(tasks[i], base)
                 ELSE tasks[i]]
  /\ UNCHANGED <<table, requested, handles, running, stack, loop>>

RequestFrame(f) ==
  LET p   == Top.plugin
      fwd == Fwd!RegisteredId(table, f)
  IN  /\ Calling /\ Room(table) /\ f \in {p, NoPlugin}
      /\ Len(requested) < MaxRequests
      /\ table' = Fwd!Registered(table, f)
      /\ requested' = IF fwd = Fwd!NoForward THEN requested
                      ELSE Append(requested, [fwd |-> fwd, plugin |-> p])
      /\ UNCHANGED <<tasks, handles, running, stack, loop>>

(* CreateOneForward() for a plugin that is not paused. *)
CreateOneForward(q, f) ==
  LET fwd == Fwd!RegisteredId(table, f)
  IN  /\ Calling /\ Room(table) /\ q \in running /\ f \in {q, NoPlugin}
      /\ Cardinality(handles) < MaxHandles
      /\ table' = Fwd!Registered(table, f)
      /\ handles' = IF fwd = Fwd!NoForward THEN handles
                    ELSE handles \cup {[fwd |-> fwd, plugin |-> q]}
      /\ UNCHANGED <<tasks, requested, running, stack, loop>>

DestroyForward(h) ==
  /\ Calling /\ h \in handles
  /\ table' = Fwd!Unregistered(table, h.fwd)
  /\ handles' = handles \ {h}
  /\ UNCHANGED <<tasks, requested, running, stack, loop>>

(* amx_pause and the native pause(), which may name any plugin. *)
Pause(q) ==
  /\ Calling /\ q \in running
  /\ running' = running \ {q}
  /\ UNCHANGED <<table, tasks, requested, handles, stack, loop>>

Unpause(q) ==
  /\ Calling /\ q \notin running
  /\ running' = running \cup {q}
  /\ UNCHANGED <<table, tasks, requested, handles, stack, loop>>

-----------------------------------------------------------------------------
(* Calls. *)

(* A call through a forward, on top of the others. *)
Pushed(kind, fwd, task) ==
  Append([k \in 1 .. Len(stack) |->
            IF stack[k].fwd = fwd THEN [stack[k] EXCEPT !.nested = TRUE] ELSE stack[k]],
         [kind |-> kind, fwd |-> fwd, plugin |-> table.sp[fwd].func, task |-> task,
          nested |-> FALSE])

(* executeForwards() for this forward, when it calls the function. *)
Enter(kind, fwd, task) ==
  /\ Len(stack) < MaxCalls
  /\ table' = Fwd!Entered(table, fwd)
  /\ stack' = Pushed(kind, fwd, task)

ExecuteForward(h) ==
  /\ Calling /\ h \in handles
  /\ IF Fwd!CanExecute(table, h.fwd, running)
     THEN Enter("execute", h.fwd, 0)
     ELSE table' = Fwd!Settled(table, h.fwd) /\ UNCHANGED stack
  /\ UNCHANGED <<tasks, requested, handles, running, loop>>

(* The game calls a plugin through a forward to all plugins. *)
Event(p) ==
  /\ ~Calling /\ loop = Idle /\ p \in running
  /\ stack' = <<[kind |-> "event", fwd |-> Fwd!NoForward, plugin |-> p, task |-> 0,
                 nested |-> FALSE]>>
  /\ UNCHANGED <<table, tasks, requested, handles, running, loop>>

(* C_StartFrame(): the requests so far are run, then the tasks, if 0.1 s   *)
(* have passed since they last were.                                       *)
StartFrame(ticks) ==
  /\ ~Calling /\ loop = Idle
  /\ tasks' = [i \in 1 .. Len(tasks) |->
                 IF tasks[i].free THEN tasks[i]
                 ELSE [tasks[i] EXCEPT !.wait = Late(@ - ticks)]]
  /\ loop' = [at |-> "requests", left |-> Len(requested), pos |-> 0, ticks |-> ticks]
  /\ UNCHANGED <<table, requested, handles, running, stack>>

(* Mutant: also the requests that the requests make are run now. *)
AnyRequest == requested # <<>>

RequestLeft == loop.left > 0

(* A request is taken from the queue and run; its forward is unregistered  *)
(* when the function has returned.                                         *)
RunRequest ==
  LET fwd == Head(requested).fwd
  IN  /\ ~Calling /\ loop.at = "requests" /\ RequestLeft
      /\ requested' = Tail(requested)
      /\ loop' = [loop EXCEPT !.left = @ - 1]
      /\ IF Fwd!CanExecute(table, fwd, running)
         THEN Enter("request", fwd, 0)
         ELSE /\ table' = Fwd!Unregistered(Fwd!Settled(table, fwd), fwd)
              /\ UNCHANGED stack
      /\ UNCHANGED <<tasks, handles, running>>

(* The tasks there are now are run: those that are set meanwhile wait for  *)
(* the next frame, or are run in a slot before the end.                    *)
RequestsDone ==
  /\ ~Calling /\ loop.at = "requests" /\ ~RequestLeft
  /\ loop' = IF loop.ticks = 0 THEN Idle
             ELSE [at |-> "tasks", left |-> Len(tasks), pos |-> 1, ticks |-> 0]
  /\ UNCHANGED <<table, tasks, requested, handles, running, stack>>

(* executeIfRequired(); whether a task that counts from the start or the   *)
(* end of the map is due depends on the game.                              *)
Due(task, onTime) == IF task.onMap THEN onTime ELSE task.wait <= 0

Uncalled(task) == task.loops /\ task.repeat = 0

(* Mutant: the forward goes although the task stays. *)
EndTaskUnregisters(i, t) ==
  LET task == Afterwards([tasks[i] EXCEPT !.inExec = FALSE])
  IN  /\ tasks' = [tasks EXCEPT ![i] = task]
      /\ table' = Fwd!Unregistered(t, tasks[i].fwd)

(* The task after it was called, or not, and its forward.                  *)
EndTask(i, t) ==
  LET task == Afterwards([tasks[i] EXCEPT !.inExec = FALSE])
  IN  /\ tasks' = [tasks EXCEPT ![i] = task]
      /\ table' = IF task.free THEN Fwd!Unregistered(t, tasks[i].fwd) ELSE t

RunTask(onTime) ==
  LET i    == loop.pos
      task == tasks[i]
  IN  /\ ~Calling /\ loop.at = "tasks" /\ i <= loop.left
      /\ loop' = [loop EXCEPT !.pos = @ + 1]
      /\ CASE task.free \/ ~Due(task, onTime) ->
                UNCHANGED <<table, tasks, stack>>
           [] OTHER ->
                IF ~Uncalled(task) /\ Fwd!CanExecute(table, task.fwd, running)
                THEN /\ tasks' = [tasks EXCEPT ![i].inExec = TRUE]
                     /\ Enter("task", task.fwd, i)
                ELSE /\ EndTask(i, IF Uncalled(task) THEN table
                                   ELSE Fwd!Settled(table, task.fwd))
                     /\ UNCHANGED stack
      /\ UNCHANGED <<requested, handles, running>>

FrameDone ==
  /\ ~Calling /\ loop.at = "tasks" /\ loop.pos > loop.left
  /\ loop' = Idle
  /\ UNCHANGED <<table, tasks, requested, handles, running, stack>>

(* A function returns, and with it the call that was made for it.          *)
Return ==
  LET call == Top
      t    == Fwd!Left(table, call.fwd)
  IN  /\ Calling
      /\ stack' = Below
      /\ CASE call.kind = "event"   -> UNCHANGED <<table, tasks>>
           [] call.kind = "execute" -> table' = t /\ UNCHANGED tasks
           [] call.kind = "request" -> table' = Fwd!Unregistered(t, call.fwd) /\ UNCHANGED tasks
           [] call.kind = "task"    -> EndTask(call.task, t)
      /\ UNCHANGED <<requested, handles, running, loop>>

(* C_ServerDeactivate_Post(): the plugins are unloaded, and those of the   *)
(* next map loaded.  The requests for the next frame are not cleared.      *)
ChangeMap ==
  /\ ~Calling /\ loop = Idle
  /\ LateRequests \/ requested = <<>>
  /\ table' = Fwd!EmptyTable /\ tasks' = <<>> /\ handles' = {}
  /\ running' = Plugin
  /\ UNCHANGED <<requested, stack, loop>>

-----------------------------------------------------------------------------
Flags == {{}, {"a"}, {"b"}, {"c"}}

Natives ==
  \/ \E f \in Plugin \cup {NoPlugin}, id \in TaskId, base \in Base, flags \in Flags, n \in Repeat :
       SetTask(f, id, base, flags, n)
  \/ \E id \in TaskId, outside \in BOOLEAN :
       \/ RemoveTasks(id, outside)
       \/ \E base \in NewBase : ChangeTasks(id, base, outside)
  \/ \E f \in Plugin \cup {NoPlugin} :
       RequestFrame(f) \/ \E q \in Plugin : CreateOneForward(q, f)
  \/ \E h \in handles : ExecuteForward(h) \/ DestroyForward(h)
  \/ \E q \in Plugin : Pause(q) \/ Unpause(q)

Frame ==
  \/ RunRequest \/ RequestsDone
  \/ \E onTime \in BOOLEAN : RunTask(onTime)
  \/ FrameDone
  \/ Return

Next ==
  \/ \E p \in Plugin : Event(p)
  \/ Natives
  \/ \E ticks \in 0 .. MaxStep : StartFrame(ticks)
  \/ Frame
  \/ ChangeMap

Spec == Init /\ [][Next]_vars

-----------------------------------------------------------------------------
(* Type invariant. *)
TypeOK ==
  /\ table \in Fwd!Table
  /\ tasks \in Seq(Task) /\ Len(tasks) <= MaxTasks
  /\ requested \in Seq(Asked)
  /\ handles \subseteq Asked
  /\ running \subseteq Plugin
  /\ stack \in Seq(Call)
  /\ loop \in Loop

Live(i) == i \in 1 .. Len(tasks) /\ ~tasks[i].free

Holder(kind, nr, asked) == [kind |-> kind, nr |-> nr, fwd |-> asked.fwd, plugin |-> asked.plugin]

(* Those who have registered a forward and not unregistered it. *)
Holders ==
  {Holder("task", i, tasks[i]) : i \in {j \in 1 .. Len(tasks) : Live(j)}}
  \cup {Holder("request", k, requested[k]) : k \in 1 .. Len(requested)}
  \cup {Holder("run", k, stack[k]) : k \in {j \in 1 .. Len(stack) : stack[j].kind = "request"}}
  \cup {Holder("handle", h.fwd, h) : h \in handles}

(* The forward of a task, of a request and of a handle is the one that was *)
(* registered for it, and nobody else's, however often its number was used *)
(* before.                                                                 *)
HoldersOwn ==
  \A h \in Holders :
    /\ Fwd!IsIdValid(table, h.fwd)
    /\ LET fwd == table.sp[h.fwd]
       IN  ~fwd.isFree /\ ~fwd.toDelete /\ fwd.func = h.plugin
    /\ \A g \in Holders : g.fwd = h.fwd => g = h

(* The stack of free forwards has each once and none that is in use, which *)
(* is one that is free or for which no function was found.                 *)
FreeListOK ==
  LET free == table.free
  IN  /\ \A j \in 1 .. Len(free) :
           /\ Fwd!IsIdValid(table, free[j])
           /\ table.sp[free[j]].isFree \/ table.sp[free[j]].func = NoPlugin
           /\ \A k \in 1 .. Len(free) : free[j] = free[k] => j = k
      /\ \A id \in 1 .. Len(table.sp) :
           table.sp[id].isFree => \E j \in 1 .. Len(free) : free[j] = id

(* No forward is lost: one that is not on the stack belongs to somebody or *)
(* is deleted as soon as it has been executed.                             *)
NoLeak ==
  \A id \in 1 .. Len(table.sp) :
    \/ \E j \in 1 .. Len(table.free) : table.free[j] = id
    \/ \E h \in Holders : h.fwd = id
    \/ table.sp[id].toDelete /\ \E k \in 1 .. Len(stack) : stack[k].fwd = id

(* While a function is called its forward is neither freed nor given to    *)
(* another, unless the function executes the forward it is called through. *)
CallIsKept ==
  \A k \in 1 .. Len(stack) :
    stack[k].fwd # Fwd!NoForward /\ ~stack[k].nested =>
      /\ Fwd!IsIdValid(table, stack[k].fwd)
      /\ LET fwd == table.sp[stack[k].fwd]
         IN  fwd.inExec /\ ~fwd.isFree /\ fwd.func = stack[k].plugin

(* A task that a callback sets is not taken for the one whose callback it  *)
(* is, when that returns.                                                  *)
SlotIsKept ==
  \A k \in 1 .. Len(stack) :
    stack[k].kind = "task" =>
      LET task == tasks[stack[k].task]
      IN  task.inExec /\ (task.free \/ task.fwd = stack[k].fwd)

(* When the functions only return: the requests and the tasks that do not  *)
(* loop for ever are run, and are gone.                                    *)
Quiet ==
  \/ \E p \in Plugin : Event(p)
  \/ \E ticks \in 0 .. MaxStep : StartFrame(ticks)
  \/ Frame

(* The game calls StartFrame() again and again and its clock goes on, and  *)
(* the functions return.                                                   *)
FairSpec ==
  /\ Spec
  /\ WF_vars(Frame)
  /\ SF_vars(\E ticks \in 1 .. MaxStep : StartFrame(ticks))

Forever(task) == task.loops /\ task.repeat = -1

AllRun ==
  (<>[][Quiet]_vars) =>
    <>[](/\ requested = <<>>
         /\ \A i \in 1 .. Len(tasks) : tasks[i].free \/ tasks[i].onMap \/ Forever(tasks[i]))

(* No task waits for longer than its interval, also when its callback has  *)
(* changed that.                                                           *)
NotTooLong ==
  \A i \in 1 .. Len(tasks) : Live(i) /\ ~tasks[i].onMap => tasks[i].wait <= tasks[i].base

-----------------------------------------------------------------------------
(* RequestFrame(): the function that is executed on the next frame is the  *)
(* one that was asked for.                                                 *)
RequestsRunTheirOwn ==
  [][Len(requested') < Len(requested) /\ Len(stack') > Len(stack)
     => stack'[1].plugin = requested[1].plugin]_vars

=============================================================================
