---------------------------- MODULE SqlThreading ----------------------------
(***************************************************************************)
(* Threaded queries of the SQL modules (threading.cpp of mysqlx, the same  *)
(* code as in sqlite): SQL_ThreadQuery hands a MysqlThread to the worker,  *)
(* the worker puts it on g_ThreadQueue when its query has run, and the     *)
(* game thread calls the plugin's handler from there, in StartFrame or     *)
(* before the plugins are unloaded.  The worker is the abstract one that   *)
(* ThreadWorker implements.                                                *)
(*                                                                         *)
(* A StartFrame in the 25 ms after another one, a query that the native    *)
(* refuses and a frame that finds no result change nothing.                *)
(***************************************************************************)
EXTENDS Integers, Sequences

CONSTANTS
  Query,    \* the calls of SQL_ThreadQuery, each made at most once
  NoQuery,
  Job,      \* the MysqlThread objects; bounds how many are allocated
  NoJob

ASSUME SqlAssumption == NoQuery \notin Query /\ NoJob \notin Job

VARIABLES
  place,      \* where the game thread is
  queue,      \* of the worker: the tasks that wait
  running,    \*   the task that runs
  mode,       \*   "closed" while g_pWorker is NULL
  results,    \* g_ThreadQueue, a stack: its front first
  free,       \* g_FreeThreads, a stack: its front first
  current,    \* kmThread whose handler runs, or NoJob
  made,       \* the MysqlThread objects that exist
  job,        \* what they hold
  asked,      \* for each query: not asked, or accepted with or without data
  received    \* what the handlers were given, oldest first

worker == <<queue, running, mode>>
vars == <<place, worker, results, free, current, made, job, asked, received>>

Worker == INSTANCE TaskQueue WITH Task <- Job, NoTask <- NoJob

Places == {"unloaded", "idle", "frame", "stopping", "drain"}

(* A MysqlThread holds m_query, m_data up to m_datalen (as the query it    *)
(* was passed with) and m_qrInfo with m_atomicResult (as the query they    *)
(* are the result of).                                                     *)
MysqlThread == [query : Query \cup {NoQuery}, data : Query \cup {NoQuery},
                result : Query \cup {NoQuery}]
NewThread == [query |-> NoQuery, data |-> NoQuery, result |-> NoQuery]

Init ==
  /\ place = "unloaded"
  /\ Worker!Init
  /\ results = <<>> /\ free = <<>> /\ current = NoJob
  /\ made = {} /\ job = [j \in Job |-> NewThread]
  /\ asked = [q \in Query |-> "no"] /\ received = <<>>

-----------------------------------------------------------------------------
(* The game thread: the plugins are loaded, and ask. *)

OnPluginsLoaded ==
  /\ place = "unloaded"
  /\ Worker!Start
  /\ place' = "idle"
  /\ UNCHANGED <<results, free, current, made, job, asked, received>>

(* The objects that SQL_ThreadQuery may take: the front of g_FreeThreads,  *)
(* or a new one.                                                           *)
Taken == IF free = <<>> THEN Job \ made ELSE {Head(free)}

(* Mutant: the object that is taken stays on g_FreeThreads. *)
PeekedFree == free

FreeLeft == IF free = <<>> THEN free ELSE Tail(free)

(* SetQuery() and SetCellData(): without an array the old one stays.       *)
Filled(thread, q, data) ==
  [query |-> q, data |-> IF data = "array" THEN q ELSE thread.data,
   result |-> thread.result]

(* From a plugin's code, in a handler or elsewhere.  The handlers that run *)
(* before the plugins are unloaded find no worker and are refused.         *)
SQL_ThreadQuery(q, data) ==
  /\ place \in {"idle", "frame"} /\ (place = "frame" => current # NoJob)
  /\ asked[q] = "no"
  /\ \E j \in Taken :
       /\ Worker!Submit(j)
       /\ free' = FreeLeft
       /\ made' = made \cup {j}
       /\ job' = [job EXCEPT ![j] = Filled(@, q, data)]
  /\ asked' = [asked EXCEPT ![q] = data]
  /\ UNCHANGED <<place, results, current, received>>

-----------------------------------------------------------------------------
(* The worker's thread. *)

Begin ==
  /\ Worker!Begin
  /\ UNCHANGED <<place, results, free, current, made, job, asked, received>>

(* Mutant: the job is on g_ThreadQueue before its query has run. *)
FinishEarly ==
  /\ Worker!Finish
  /\ results' = <<running>> \o results
  /\ UNCHANGED <<place, free, current, made, job, asked, received>>

(* RunThread(), which also resets m_qrInfo, and OnTerminate(false) under   *)
(* g_QueueLock.                                                            *)
Finish ==
  /\ Worker!Finish
  /\ job' = [job EXCEPT ![running].result = job[running].query]
  /\ results' = <<running>> \o results
  /\ UNCHANGED <<place, free, current, made, asked, received>>

-----------------------------------------------------------------------------
(* The game thread: results are handed to the plugins. *)

(* Mutant: the last result is left for another frame.                      *)
StartFrameForTwo ==
  /\ place = "idle" /\ Len(results) > 1
  /\ place' = "frame"
  /\ UNCHANGED <<worker, results, free, current, made, job, asked, received>>

StartFrame ==
  /\ place = "idle" /\ results # <<>>
  /\ place' = "frame"
  /\ UNCHANGED <<worker, results, free, current, made, job, asked, received>>

(* Under g_QueueLock: the front is taken, then its handler is called.      *)
Execute ==
  /\ place \in {"frame", "drain"} /\ current = NoJob
  /\ results # <<>>
  /\ current' = Head(results)
  /\ results' = Tail(results)
  /\ received' = Append(received, job[Head(results)])
  /\ UNCHANGED <<place, worker, free, made, job, asked>>

(* The handler returns, and Invalidate() frees the result.                 *)
Executed ==
  /\ current # NoJob
  /\ job' = [job EXCEPT ![current].result = NoQuery]
  /\ free' = <<current>> \o free
  /\ current' = NoJob
  /\ UNCHANGED <<place, worker, results, made, asked, received>>

FrameDone ==
  /\ place = "frame" /\ current = NoJob
  /\ results = <<>>
  /\ place' = "idle"
  /\ UNCHANGED <<worker, results, free, current, made, job, asked, received>>

-----------------------------------------------------------------------------
(* The game thread: the plugins are unloaded. *)

OnPluginsUnloading ==
  /\ place = "idle"
  /\ Worker!Stop(FALSE)
  /\ place' = "stopping"
  /\ UNCHANGED <<results, free, current, made, job, asked, received>>

(* Stop() returns and g_pWorker becomes NULL.                              *)
Stopped ==
  /\ place = "stopping"
  /\ Worker!Depleted
  /\ place' = "drain"
  /\ UNCHANGED <<results, free, current, made, job, asked, received>>

(* Mutant: the results that are left stay on g_ThreadQueue. *)
DrainNothing ==
  /\ place = "drain" /\ current = NoJob
  /\ place' = "unloaded"
  /\ UNCHANGED <<worker, results, free, current, made, job, asked, received>>

DrainDone ==
  /\ place = "drain" /\ current = NoJob
  /\ results = <<>>
  /\ place' = "unloaded"
  /\ UNCHANGED <<worker, results, free, current, made, job, asked, received>>

(* Mutant: g_FreeThreads keeps the objects that are deleted. *)
ShutdownDangles ==
  /\ place = "unloaded"
  /\ results' = <<>>
  /\ made' = {} /\ job' = [j \in Job |-> NewThread]
  /\ UNCHANGED <<place, worker, free, current, asked, received>>

(* The core has called OnPluginsUnloading before it detaches the module:   *)
(* no worker is left to stop.  The objects are deleted.                    *)
ShutdownThreading ==
  /\ place = "unloaded"
  /\ results' = <<>> /\ free' = <<>>
  /\ made' = {} /\ job' = [j \in Job |-> NewThread]
  /\ UNCHANGED <<place, worker, current, asked, received>>

-----------------------------------------------------------------------------
Plugins == \E q \in Query, data \in {"none", "array"} : SQL_ThreadQuery(q, data)

WorkerThread == Begin \/ Finish

(* The engine calls StartFrame every frame, handlers return, and the drain *)
(* at the unloading goes on.  That Stop() returns is not among them: it    *)
(* may wait for ever (StopReturns of ThreadWorker).                        *)
GameThread ==
  \/ StartFrame \/ Execute \/ Executed \/ FrameDone \/ DrainDone

Next ==
  \/ OnPluginsLoaded \/ OnPluginsUnloading \/ Stopped \/ ShutdownThreading
  \/ Plugins \/ WorkerThread \/ GameThread

Spec == Init /\ [][Next]_vars

FairSpec == Spec /\ WF_vars(WorkerThread) /\ WF_vars(GameThread)

-----------------------------------------------------------------------------
(* Type invariant. *)
TypeOK ==
  /\ place \in Places
  /\ queue \in Seq(made) /\ running \in made \cup {NoJob}
  /\ mode \in {"open", "cancelling", "depleting", "closed"}
  /\ results \in Seq(made) /\ free \in Seq(made)
  /\ current \in made \cup {NoJob}
  /\ made \subseteq Job
  /\ job \in [Job -> MysqlThread]
  /\ asked \in [Query -> {"no", "none", "array"}]
  /\ received \in Seq(MysqlThread)

Entries(s) == {s[i] : i \in 1 .. Len(s)}
Once(s) == \A i, k \in 1 .. Len(s) : i # k => s[i] # s[k]
The(j) == {j} \ {NoJob}
Busy == Entries(queue) \cup Entries(results) \cup The(running) \cup The(current)

(* A MysqlThread is in one place at a time, the worker's queue, its hands, *)
(* g_ThreadQueue, the hands of the game thread or g_FreeThreads, and two   *)
(* that are busy have different queries.                                   *)
OnePlace ==
  LET spots == <<Entries(queue), Entries(results), Entries(free),
                 The(running), The(current)>>
  IN /\ made = Busy \cup Entries(free)
     /\ \A i, k \in 1 .. 5 : i # k => spots[i] \cap spots[k] = {}
     /\ Once(queue) /\ Once(results) /\ Once(free)
     /\ \A i, k \in Busy : i # k => job[i].query # job[k].query

(* A handler is given the result of its own query.                         *)
OwnResult ==
  \A i \in 1 .. Len(received) : received[i].result = received[i].query

(* The promise of threaded queries: each is answered once, and before the  *)
(* plugins are unloaded.                                                   *)
answers == [i \in 1 .. Len(received) |-> received[i].query]
pending == {q \in Query : asked[q] # "no"} \ Entries(answers)
open == place # "unloaded"

Promise == INSTANCE QueryService
KeepsPromise == Promise!Spec

(* A query that was accepted is answered, unless the game thread stays in  *)
(* Stop() for ever: the results of the queries are then delivered to       *)
(* nobody.                                                                 *)
EachAnswered ==
  ~<>[](place = "stopping") =>
  \A q \in Query : asked[q] # "no" ~> q \in Entries(answers)

(* A handler is given the data array of its query, and none when the query *)
(* was asked without.                                                      *)
OwnData ==
  \A i \in 1 .. Len(received) :
    LET q == received[i].query
    IN received[i].data = IF asked[q] = "array" THEN q ELSE NoQuery

=============================================================================
