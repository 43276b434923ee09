# A formal model of the Nightfire SDK's Metamod and AMX Mod X

The repository ports two programs to James Bond 007: Nightfire on the
Half-Life engine: Metamod, which loads server plugins and passes every call
between engine and game through them, and AMX Mod X, a Metamod plugin that runs
scripts and loads modules of its own. This directory holds TLA+ models of the
parts of them whose correctness depends on orders of events: who asks what of
whom, when a map changes, when a thread wakes, when the server dies.

| Part | Modules | Checked | Proved |
| --- | --- | --- | --- |
| Metamod's plugin manager | `MetaPlugins` | 2 runs, 1 counterexample | 8 theorems, `MetaPluginsProofs` |
| Metamod's hooked calls | `MetaHooks`, implements `HookedCalls` | 1 run | 3 theorems, `MetaHooksProofs` |
| the SQL modules' worker thread | `ThreadWorker`, implements `TaskQueue` | 1 run, 1 counterexample | 4 theorems, `ThreadWorkerProofs` |
| threaded SQL queries | `SqlThreading` on `TaskQueue`, implements `QueryService` | 1 run, 1 counterexample | 5 theorems, `SqlThreadingProofs` |
| nVault, the key-value store | `NVault` | 1 run, 1 counterexample | 4 theorems, `NVaultProofs` |
| AMX Mod X's tasks, frame requests and single plugin forwards | `Callbacks` on `SPForwards` | 1 run, 1 counterexample | 8 theorems, `CallbacksProofs` |

`MC*.tla` hold the small sets TLC needs, each `.cfg` is one run. Definitions
marked *Mutant* in a module are bugs the code does not have: each replaces one
definition of the model, and the property it is meant for must then fail.

## Inventory

Paths are below `src/`. `mm/` stands for `metamod/metamod-hl1-master/metamod/`.

| Component | State | Operations | Interacts with | What is hard | What makes it correct |
| --- | --- | --- | --- | --- | --- |
| Plugin manager (`mm/mlist.cpp`, `mplugin.cpp`) | list of slots with status, pending action, library, load times | load, unload, reload, pause, clear, refresh | console, plugins (callbacks during its loops), plugins.ini, files | delayed actions, re-entrancy, reused slots, files replaced on disk | status, library and information agree; one slot per file; delayed actions happen; the list follows plugins.ini |
| Hook dispatch (`mm/metamod.h`, `dllapi.cpp`, `engine_api.cpp`) | results of the calls under way, globals they share | pre hooks, game or engine, post hooks | every running plugin | calls within calls, a plugin paused or unloaded by a hook | each plugin asked once and in order; the routine called unless superceded; a hook sees the results of its own call |
| Registries (`mm/mreg.cpp`) | commands, cvars, messages of plugins | add, disable, call | plugin manager | an entry outlives its plugin | no call into an unloaded library |
| Worker thread (`amx/modules/mysqlx/thread/`, copy in `sqlite/thread/`) | state, queue, waiting flag, two events | Start, MakeThread, Pause, Unpause, Stop, RunFrame | game thread, tasks | two threads, events, unlocked flags | tasks run once and in order; no lost wake-up; Stop returns |
| Threaded queries (`amx/modules/mysqlx/threading.cpp`, copy in `sqlite/`) | results, free jobs, jobs | SQL_ThreadQuery, StartFrame, plugin loading and unloading | worker, scripts | jobs handed between threads and reused; map changes | each query answered once with its own result and data |
| nVault (`amx/modules/nvault/`) | map, file, journal | open, set, pset, touch, remove, prune, clear, close | scripts, disk | crashes at any point, clock | what was stored is found again |
| Tasks and frame requests (`amx/amxmodx/CTask.cpp`, `CFrameAction.h`) | slots of timed callbacks, queue of requests | set, remove, change, request, run | scripts, forwards | tasks changed while they run | each runs when due, none after removal; requests are run once |
| Forwards and events (`CForward.cpp`, `CEvent.cpp`, `messages.cpp`) | table of script functions by number, free numbers | register, execute, unregister | scripts, modules, tasks | nested execution, unregistration while executing | a number belongs to one owner; none is lost |
| Menus (`newmenus.cpp`), cvars and handles (`CvarManager.cpp`, `natives_handles.h`) | per player menu, hooks, handle tables | display, cancel, hook, free | players, scripts | stale handles, players who leave | no callback for what is gone |
| Script and module loading (`CPlugin.cpp`, `CModule.cpp`, `modules.cpp`, `meta_api.cpp`) | scripts, modules, natives | load and unload per map | everything in AMX Mod X | order at the end of a map | modules hear of unloading before their scripts go |
| Virtual machine, compiler, game modules, natives | | | game, scripts | sequential, third-party or in the game's memory | |
| Launcher and network channel (`hlsdk/dedicated_client`) | fragments, sequence numbers | transmit, process | network | lost and reordered packets | reliable data arrives once |
| Half-Life SDK, `parseentvars`, `amx/dlls` (old copies) | | | | vendor code and tools | |

`PROJECT.json` lists the components with their sources, and all hazards found,
each at its line with the properties that watch it. A hazard with a note is not
covered, or only in part.

## Metamod's plugin manager: `MetaPlugins`

**State.** `plist` is the array of `MPlugin` slots; of each it keeps the status,
the pending action, source, path, whether the library is open (`handle`), what
the library answered to Meta_Query (`info`), the parent and the platform level.
`loaded` is `time_loaded` as `newer_file()` compares it with the file: never,
fresh or stale. `endlist` is the list's end marker, `ini` and `disk` are
plugins.ini and the plugin files; `inifile` tells whether the start has made the
name of plugins.ini a full path. The game has one thread; `phase`, `pos`,
`nread`, `now` and `caller` say how far a loop of the manager has come.

**Actions.** The operations on one plugin are functions from the plugin to what
it becomes (`Load`, `Unload`, `Reload`, `Retry`, `Pause`, `Unpause`,
`Cleared`), each with the checks of the code in their order; whether
Meta_Attach and Meta_Detach agree is a parameter. An action is a console
command (`Cmd...`), a request of a running plugin (`PluginLoad`,
`PluginUnload`), one line of plugins.ini or one slot in a loop of the start
(`Boot...`) or a refresh (`Refresh...`), or an edit of a file (`EditIni`,
`WriteFile`). The loops take single steps because Metamod calls the GameInit of
a plugin it has just attached in the middle of them, and that plugin may make
requests there: `caller` names it until the loop goes on.

**Left out.** Nothing in the code assigns PA_ATTACH. Requests from Meta_Attach
and Meta_Detach, and with them `is_unloader`, are not modelled. `file`, `desc`
and a path matched by a prefix are the path itself; `Family` says which files
`platform_match()` takes for builds of one plugin. After clear() the old texts
stay in a slot in the code; nothing reads them before they are written again.
Files change only while no loop is running.

**Runs.** Two or three files and two slots: enough for a hole below the end of
the list, a reused slot, a parent and a child, two builds of one plugin, and a
full list. Builds are loadable and unloadable at any time, at changelevels only
or at server start only (as AMX Mod X itself), or are no plugins. Each run gives
each file the contents its question needs.

- `plugins_safety` (TypeOK, OpenedHasInfo, UniquePath, ParentAlive,
  RunningNotPending, KeepIsTransient, BootMostSpecific, OthersStay): a plugin
  whose file disappears and comes back, and two builds of another, of which one
  turns bad; under every command, request, refresh and edit.
- `plugins_converge` (Converges): once everybody leaves the manager alone and
  maps go on changing, the ini plugins that run become those plugins.ini lists,
  apart from two kinds of plugins named in the property. Here plugins.ini may
  have lines that the start skips, and a plugin twice. It must have been there,
  and not empty, at the start (`inifile = "full"`): otherwise `ini_startup()`
  returns before it makes the name a full path, and each later refresh opens the
  relative name and fails, also when the file has been made in the meantime
  (`NamesAtStart`, and the test in `Refresh`).
- `plugins_new` refutes NewAreLoaded: a request to unload a plugin that waits to
  be loaded is refused, and leaves the plugin marked so that it is never loaded.

`plugins_safety` and the proofs start from `CleanInit`: a plugins.ini of which the
server start skips no line, so that a plugin it names again is a more specific
build. A skipped line leaves a plugin past the end of the list, `meta reload` runs
it a second time, and UniquePath fails. `FairSpec` asks only that the last line
is not skipped (`TakenInit`): its plugin takes the slot in which skipped ones were
parsed. Converges claims nothing for a plugins.ini that names a plugin twice
(`NamedOnce`), as the second line is counted against the size of the list.

The hazards with a note in `PROJECT.json` name what the code does not promise and
no run claims: that a reload refused for the new build's load times keeps the
plugin, that a reused slot forgets its platform level, that an unload which waits
for a changelevel is not cancelled there by the reading of plugins.ini.

**Fairness.** `FairSpec`: the loops of the start and of a refresh do not stop
half-way, and maps change for ever (`mm_ServerDeactivate` refreshes at each).
`Converges` assumes besides, as its premise, that commands, requests and edits
end and that Meta_Attach and Meta_Detach succeed from then on.

**Proofs.** For all sets of files and builds, all plugins.ini and list sizes,
from `CleanSpec`: TypeOK, OpenedHasInfo, UniquePath, ParentAlive,
RunningNotPending, KeepIsTransient, BootMostSpecific, and the action property
OthersStay. None of them is inductive: the proofs go by

    IInv == TypeOK /\ ListOK(plist, endlist) /\ LoopOK /\ KeepOK

`ListOK` says that each slot is `Good` (the library and the information fit the
status, a running plugin is not marked to be loaded, an empty one has neither
action nor parent), that paths are unique, that parents run, and that slots past
the end are empty; `BootOK`, a part of `LoopOK`, says what the loop over the first
plugins.ini has listed, with the platform level of each plugin's file and none of
them running yet, which is where the assumption on plugins.ini is needed and from
which BootMostSpecific follows; `KeepOK` ties the keep marks to the phases. The
lemmas follow the code: one per operation on a plugin (`LoadGood`, `UnloadGood`,
`ReloadGood`, ...), one per operation on the list (`AddedOK`, `UpdatedOK`,
`WipedOK`, ...), one per action. OthersStay needs that only `RefreshSlot` takes the
loop past a slot (`StepOfRefresh`) and what it does to a plugin that is not from
plugins.ini (`RefreshedStays`). Converges is model-checked only.

## Metamod's hooked calls: `MetaHooks` and `HookedCalls`

Every routine of the game and of the engine has a version of Metamod's, which is
five macros of `mm/metamod.h` one after the other. `HookedCalls` is what the
documentation promises of such a call: each running plugin that hooks the routine
is asked before it and after it, once and in the order of the list; the routine is
called unless a plugin superceded it; the caller gets the value of the last plugin
that gave one. `MetaHooks` is the macros, and a step ends where code outside of
Metamod runs: a hook, the routine, the caller.

**State.** `stack` has the local variables of each call under way; `globals` is
PublicMetaGlobals, which all calls share, with the pointers to return values as
the depth of the call they point into (0 when that has returned); `count` is
CALL_API_count. `said` and `heard` are history: what the hooks have said.

**Actions.** `Setup`, `CallPlugin`, `PluginReturns`, `CallRoutine`,
`RoutineReturns` and `Return` are the macros, cut at the calls; `SetResult` is a
hook that sets its result, perhaps not for the last time; `Switch` pauses and
resumes a plugin, or unloads it and loads it again, in a hook or a routine of any
call. Hooks and routines call routines (`Nested`).

`hooks_safety` (TypeOK, GlobalsBelong, KeepsPromise): two plugins, a routine of the
game, one of the engine that hooks and routines call, and one that is missing; up
to three calls deep, so that a call made by a routine that a hook has called is
there. Hooks say OVERRIDE, SUPERCEDE or nothing: of the others only the order to
these matters.

The documented return value is promised for `Regular` calls only: the code never
takes the value of a hook that says OVERRIDE before the routine, drops that of one
that does so after a superceded routine, and takes none with a SUPERCEDE after the
routine, which is documented not to be valid. The order in which plugins are asked
and the calling of the routine are promised for all calls. `override_ret` is set
only when the status is the decisive one of the phase, so that a hook which reads
it at another status reads through a pointer of an earlier call; the model has that
pointer, and no property says that hooks do not read it.

**Left out.** The versions for routines without a value are the same without the
values. The tables through which a plugin names its hooks are `Hooked`, which does
not change while a call is under way. Routines of which Metamod's version does more
than call (the end of a map, which is `MetaPlugins!Refresh`, commands, messages for
the log) are the macros and that more.

**Proofs.** For any number of plugins and of routines, whatever hooks may say and
however deep calls are nested: TypeOK, GlobalsBelong, and KeepsPromise (`Implements`).
GlobalsBelong is not inductive, since `Return` puts back what an earlier `Setup`
saved, and what it saves depends on the counter. The invariant is

    IInv == TypeOK /\ CountOK /\ FramesOK /\ SavedOK /\ GlobalsBelong

`CountOK`: CALL_API_count is the number of calls that are not in their routine.
`SavedOK`: where a hook is interrupted by a call, the copy that call has made is
the hook's globals. `FramesOK`: a call without a copy was made when all calls below
were in their routines, so that `Return` never puts back a copy that was not made,
and loses nothing where it puts back none. For the refinement `ValuesOK` says of
each call under way what its local variables have kept of the answers heard so far
(`PreFits`, `PostFits`). It rests on `LastHeard`, how one more answer changes the
documented value; on `Seen...`, that a change of the stack of frames is the same
change of the stack of calls; and on one lemma per action that maps it to its
counterpart in `HookedCalls`.

## The worker thread: `ThreadWorker` and `TaskQueue`

`TaskQueue` is what `IWorker` promises: tasks run one at a time in the order
they came, `Stop(true)` cancels those that have not begun, `Stop(false)` lets
them all run, a stopped worker holds none. `ThreadWorker` is the code: a step of
either thread ends at each access to shared state, so that `Stop()` is four
steps and one turn of `RunThread()` up to seven. `wpc` and `gpc` are the places
of the worker's and the game's thread. `Sticky` tells the two implementations of
`IEventSignal` apart: the Windows auto-reset event keeps a signal that nobody
waits for, the POSIX condition variable loses it. The game thread is the only
caller, as in the SQL modules; a task that waits or runs is not added again. The
think time between frames is a delay and changes nothing. The tests of
`m_QueueLock` for NULL and of Worker_Invalid concern a worker without a
threader, which the modules never make.

- `worker_tasks` (TypeOK, NoSleepOnWork, StoppedHoldsNone, KeepsPromise,
  QueuedIsServed): three tasks, so that one runs while two wait, and frames of
  two, so that a frame ends with work left. Signals are kept, as on Windows.
  Deadlock is not checked, because of what `worker_stop` shows.
- `worker_stop` refutes StopReturns: `Stop()` comes between the worker's reading
  of its state and `m_Waiting = true`, and never returns. Two tasks are enough.

A worker that is paused cannot be stopped either: `Unpause()` does nothing once
the state is Stopped. The SQL modules never pause theirs, and the liveness
properties assume it. With `Sticky = FALSE`, the POSIX event, NoSleepOnWork and
QueuedIsServed fail; Nightfire is a Windows game, and the runs use TRUE.

**Fairness.** Both threads are scheduled (`WF` of the worker's steps and of the
calls that have begun); nothing makes the game call, resume or stop the worker,
hence the premises `[](state # "Paused")`.

**Proofs.** TypeOK and StoppedHoldsNone for all constants; NoSleepOnWork where
`Sticky` holds, with the strengthening `WaitsOpenly` (whoever waits has set
`m_Waiting`); and `Implements`: `Spec => KeepsPromise`, with the refinement
mapping `mode` (open, depleting, cancelling, closed) over `state`, `gpc` and
`cancel`. The inductive invariant relates the threads' places: there is a thread
exactly while the worker is started or being stopped, tasks run only in frames,
a thread that is past its loop has the state and the queue that let it leave.

## Threaded queries: `SqlThreading` and `QueryService`

`SqlThreading` instantiates `TaskQueue` for the worker, with the `MysqlThread`
objects as tasks: what `ThreadWorker` is proved to implement is what it relies
on, and `g_pWorker` is NULL exactly when `mode` is "closed". `results` and
`free` are the stacks `g_ThreadQueue` and `g_FreeThreads`; `job` is what each
object holds, named by the query it belongs to. Handlers run between `Execute`
and `Executed`, and may ask new queries there. The order at the end of a map,
worker stopped and results delivered before the scripts are unloaded, and the
module detached later, is that of `amxmodx/meta_api.cpp`; the branch of
`ShutdownThreading()` that stops a worker is therefore never taken. Each query
is asked once; the 25 ms between frames with deliveries are left out.

`QueryService` is the promise to the scripts: a query that was asked is answered
once, and the plugins are not unloaded before.

- `sql_queries` (TypeOK, OnePlace, OwnResult, KeepsPromise, EachAnswered): three
  queries and three jobs, so that a job is reused while others are under way.
  EachAnswered has the premise that the game thread does not stay in `Stop()` for
  ever (`~<>[](place = "stopping")`), which the code does not guarantee, as
  `worker_stop` shows; where it hangs there, results stay undelivered.
- `sql_data` refutes OwnData: a query asked without data gets the data of the
  job's last query.

**Fairness.** The worker's thread, which stands for QueuedIsServed of
`worker_tasks` and so for events that keep their signal, and the game's frames,
handlers and drain (`GameThread`). That `Stop()` returns is an action without
fairness.

**Proofs.** For any queries and any number of objects: TypeOK, OnePlace,
OwnResult, and `Implements`: `Spec => KeepsPromise`, where `pending` are the
queries asked and not answered. WorkerIsReady proves what `ThreadWorker` assumes of
its caller: a worker is there when one is used, and an object that is handed to
it is not in its hands already. The invariant says where the objects are
(`Apart`), that those under way hold different queries that were asked
(`OwnQueries`, `Filling`), that a query is answered or held and never both
(`Answered`), and what the place of the game thread tells of the worker
(`PlaceFits`). The lemmas on sequences (`PushEntered`, `PopEntered`, ...) say what
the stacks and the queue hold after each of their operations.

## nVault: `NVault`

One vault: `hash` is the map in memory, `file` what would be read from its file,
`log` the records in the journal's file. `past`, `changes` and `unsafe` are
history since the vault was last closed well, saved and its journal erased: the
contents there were, the number of operations, and whether something happened that
the journal is no help for. `recovered` says that Open found in the journal what
the file does not have. Open and Close take a step for each effect on the disk, and
a crash may come between any two; it keeps a prefix of the journal, which stdio
buffers, and of a file that is being written any part. `Replay` is a recursive
function of the number of records `Journal::Replay` has read, `Replayed` what one
record does. `Events` says what may happen in a run.

The calls whose result the code ignores may fail: saving, in whole or in part;
creating the journal, after which the session goes on without one; and erasing it,
at Open or at Close. A journal that could not be erased is replayed again by the
next Open. One that could at Open be neither erased nor begun anew is `Stale`: it
stays there for the whole session, Close leaves it alone, and it is replayed over
whatever that session has saved.

- `vault_any` (TypeOK, NoForeignValue, RecoversPrefix, FlushedIsKept): everything,
  crashes anywhere, again and again, all these failures, touches, and a clock that
  ticks inside an operation. A key has only values it has had since the vault was
  last closed well; a crash brings the vault back to a content it has had since
  then, timestamps included (RecoversPrefix), and to its last one if all of the
  journal is on disk or a complete journal is left beside the saved file
  (FlushedIsKept).
- `vault_twice` refutes Restores: a crash in the session after a recovery leaves
  the vault as it has never been, because Open erases the journal without saving
  what it has recovered.

RecoversPrefix and FlushedIsKept except what sets `unsafe`, each of which makes
them fail: a crash in a session that began with a recovery, as in `vault_twice`; a
crash while the file is written over in place, or a save that fails, after which
the journal is erased all the same; a save beside a stale journal; a touch, which
is not journaled although a prune that goes by its timestamp is; and a clock that
ticks between the two times that SetValue asks for. FlushedIsKept says of an open
vault nothing without a journal, nor of a session that began with a recovery.

Two keys and two values, one of them the empty one a touch creates; times 0 to
2, where 0 is permanent, so that a window has an inside, a border and an outside;
up to two operations until the vault is next closed well: an insertion, and what removes, prunes or
overwrites it. The keys are symmetric, as the code treats them alike and the
properties name none. `MaxTime` and `MaxChanges` are the only bounds. Left
out are the byte format (lengths of keys and values, versions), the table of vaults,
and writes to the journal that fail, of which the code ignores the result as well.

**Proofs.** For any keys, values, times and numbers of operations, and for journals
of any length: TypeOK, NoForeignValue, RecoversPrefix and FlushedIsKept. The
invariant is

    IInv == TypeOK /\ OwnOK /\ RecoverOK

`OwnOK`: the map, the file and each record of the journal have only values of
`past`. `RecoverOK`, where not `unsafe`: what is on disk is a content the vault has
had (`DiskOK`), and in a session that did not begin with a recovery each prefix of
the journal leads from the file to one, and all of it to the map in memory
(`SessionOK`). `Settled`, in `DiskOK`, is why Close may save the file before it
erases the journal, and may fail to erase it: the complete journal, replayed over
the map it led to, changes nothing. One more record keeps it so
(`StaysSettled`): what the record takes away the older ones may put back, and it
takes that away again.

What a replay computes is proved by induction on the number of records. The
induction theorems of the library take a predicate as a parameter, which the
provers cannot instantiate; `Least` and `UpTo` speak of a set of numbers instead,
from the least element that `WFMin` gives, and `ReplayStays` and `ReplaysStay` of a
set of maps, or of pairs of maps, that no record leads out of. `VaultAssumption`
says that `None`, which stands for a key without an entry, is not one.

## Tasks, frame requests and forwards: `Callbacks` and `SPForwards`

A forward is a number for a function of a script. `SPForwards` is the table of the
forwards to a single script (`CForwardMngr`), as operators that give the table
after an operation: `Registered`, `Unregistered`, `Entered`, `Left`. A number that
is free is used again, newest first; a forward that executes when it is
unregistered is deleted when it has been executed. `Callbacks` is who uses the
table: timed tasks, requests for the next frame, and forwards that scripts create,
execute and destroy themselves.

**State.** `table`; `tasks`, the slots of `CTaskMngr`, with the time of the next
execution as the time left (`wait`); `requested`, the queue of requests; `handles`,
the forwards scripts have made; `running`, the scripts that are not paused; `stack`,
the calls of script functions under way; `loop`, how far `C_StartFrame()` has come
through the requests and the tasks.

**Actions.** The natives (`SetTask`, `RemoveTasks`, `ChangeTasks`, `RequestFrame`,
`CreateOneForward`, `ExecuteForward`, `DestroyForward`, `Pause`, `Unpause`) may be
called by any function that runs, in any order and number. `Event` is a call of
the game. `RunRequest` and `RunTask` take the loops one turn further up to the call
of a function; `Return` is what follows when it returns (`EndTask` for a task:
removed, counted down, set anew). `ChangeMap` is `C_ServerDeactivate_Post()`.

**Left out.** Forwards to all plugins call the functions in a fixed order and are
here an `Event` of one plugin. Arguments and return values, the parameters of tasks,
duplicated forwards (`DuplicateSPForward`, which registers one like another for the
SQL modules). Whether a task that counts from the start or the end of the map is
due depends on the game and is open.

- `calls_safety` (TypeOK, HoldersOwn, FreeListOK, NoLeak, CallIsKept, SlotIsKept,
  NotTooLong, AllRun): two scripts, two forwards, tasks, requests and handles, calls
  three deep: an event, a task whose callback executes a forward that acts on
  either. Two numbers are enough for one to be freed and taken again while the
  other executes; names that a script has no function of are tried, too. A map does
  not change while a request waits, because of what `calls_frames` shows.
- `calls_frames` refutes RequestsRunTheirOwn: `g_frameActionMngr` is not cleared at
  the end of a map, so that a request that waits calls whoever has its number next.

`CallIsKept` excepts a forward that is executed again before it has returned: the
inner call clears `m_InExec`, and the number may then be freed and given to another
while the outer call is still under way. The other properties hold with such calls.

**Bounds.** `MaxForwards`, `MaxTasks`, `MaxRequests`, `MaxHandles` and `MaxCalls`
bound the numbers of things; `MaxStep` the time between two frames and `MaxLag` how
late a task is told to be. **Fairness**: frames go on and functions return; AllRun
assumes besides that functions no longer call natives.

**Proofs.** For any numbers of plugins, forwards, tasks, requests and handles, and
calls of any depth: TypeOK and SlotIsKept; HoldersOwn, FreeListOK, NoLeak, CallIsKept
and RequestsRunTheirOwn, where no request waits when the map changes
(`~LateRequests`), which is the disagreement that `calls_frames` shows; and
NotTooLong where the intervals given to change_task() are not negative. `CTask::changeBase`
takes any number, where set_task raises it to 0.1 s; a callback that gives its own
task one below zero leaves it with a wait, of the 0 at which it became due, that is
above its interval.

    IInv == Shape /\ NestedOK /\ TableOK(table, Holders, UnderWay)

No property of the table is inductive alone: a holder's number is safe because it
is not on the stack of free ones, and the stack is right because what is pushed on
it had lost its holder and its call. `TableOK` says so of each number (`ObjectOK`):
free ones are on the stack; what is neither on the stack nor held is to be deleted
by the call under way; a number that is held, or through which a call is under way
that is not nested, is not free and is of the holder's or the caller's function.
`UnderWay` counts only calls that have not been executed again from within, since
the inner one clears `m_InExec`; `NestedOK` says that of the calls through one
forward only the last is such. `Shape` has the types, and what the loop, the stack
of calls and the task of the bottom call know of each other. The lemmas say what
each operation of `SPForwards` does to `TableOK` for given sets of holders and calls
(`JoinsFree`, `UnregisteredOK`, ...), and each action then only what it does to
those sets.

## What is proved and what is not

TLAPS checks all theorems to their leaves, from the assumptions on constants
stated in the modules (`PathAssumption`, `BuildAssumption`, `ListAssumption`,
`WorkerAssumption`, `SqlAssumption`, `HooksAssumption`, `CallbacksAssumption`,
`VaultAssumption`), which TLC evaluates in the runs of their modules. Each
invariant and each action property that a passing run checks is a theorem, and so
are the three refinements. Some have a hypothesis that the code's own behaviour
makes necessary, named above: a plugins.ini of which the start skips no line
(`CleanSpec`), events that keep their signal (`Sticky`), no request across maps
(`~LateRequests`), no negative interval (`NewBase \subseteq Nat`).

Out of the prover's reach, and only model-checked, is liveness under fairness:
Converges, QueuedIsServed, EachAnswered, AllRun.

## Plan

1. Done: `MetaPlugins`, `TaskQueue`, `ThreadWorker`, `QueryService`,
   `SqlThreading`, `HookedCalls`, `MetaHooks`, `NVault`, `Callbacks` and
   `SPForwards`, with their proofs.
2. What is left of the model: `MetaRegistry` (commands and cvars of plugins that
   were unloaded), requests from Meta_Attach and Meta_Detach in `MetaPlugins`, the
   vault table and the records' byte lengths beside `NVault`, menus of players who
   leave, cvar hooks, the network channel.
3. What is left to prove: an abstract specification of the table of forwards (a
   number belongs to one owner until it is given back and the call through it has
   returned) that `Callbacks` implements, one of a vault that is crash-safe between
   two saves, and the invariants of what item 2 adds.

## Not modelled

The components that `PROJECT.json` lists as `not_modelled`, each with its reason.
Most of the repository's lines are vendored (the DirectX SDK headers, SQLite, PCRE,
libcurl and the MySQL client headers), the vendor's game and client code, the Pawn
compiler and virtual machine, and natives that are sequential wrappers of library
calls or of the game's memory. Of the network channel in `hlsdk/dedicated_client`
only the functions patched into the engine's binary are there: fragments are made
and checked here, but sequence numbers, acknowledgements and resending remain in
the binary.
