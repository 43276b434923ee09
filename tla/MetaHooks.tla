------------------------------ MODULE MetaHooks ------------------------------
(***************************************************************************)
(* The macros that Metamod's version of every routine of the game and of   *)
(* the engine is made of (metamod.h; dllapi.cpp and engine_api.cpp put     *)
(* them together): SETUP_API_CALLS, CALL_PLUGIN_API before the routine,    *)
(* CALL_GAME_API or CALL_ENGINE_API, CALL_PLUGIN_API after it, RETURN_API. *)
(*                                                                         *)
(* All calls share PublicMetaGlobals, through which a hook is told of the  *)
(* others and says what is to be done.  A call from within a hook saves    *)
(* them and puts them back; CALL_API_count tells such a call from one that *)
(* a routine makes.                                                        *)
(***************************************************************************)
EXTENDS Integers, Sequences

CONSTANTS
  NPlugins, Fn, Hooked, Routine,  \* as in HookedCalls
  Results,                        \* what hooks may say
  Nested,                         \* the routines that hooks and routines call
  Pausable,                       \* the plugins that may be paused
  NoGlobals,                      \* a copy that was not made
  MaxCalls                        \* bound on calls within calls

VARIABLES
  stack,    \* the calls under way, the local variables of each
  globals,  \* PublicMetaGlobals
  count,    \* CALL_API_count
  running,  \* the plugins whose status is PL_RUNNING
  answer    \* what the last call that returned has given its caller

vars == <<stack, globals, count, running, answer>>

(* The call as the plugins and the caller see it. *)
AsCall(frame) ==
  [fn |-> frame.fn,
   phase |-> IF frame.at = "routine" THEN "routine" ELSE frame.phase,
   asked |-> IF frame.at = "hook" THEN frame.i ELSE frame.i - 1,
   busy |-> frame.at = "hook",
   said |-> frame.said, heard |-> frame.heard]

Calls == INSTANCE HookedCalls WITH calls <- [k \in 1 .. Len(stack) |-> AsCall(stack[k])]

ASSUME HooksAssumption ==
  /\ NPlugins \in Nat
  /\ Hooked \subseteq Fn \X Calls!Phase \X (1 .. NPlugins)
  /\ Routine \in [Fn -> {"there", "missing", "optional"}]
  /\ Results \subseteq Calls!Result
  /\ Nested \subseteq Fn /\ Pausable \subseteq 1 .. NPlugins
  /\ MaxCalls \in Nat

(* orig_ret and override_ret point into the frame of a call, by its depth; *)
(* 0 if that has returned.                                                 *)
Globals ==
  [mres : Calls!Result, prev_mres : Calls!Result, status : Calls!Result,
   orig_ret : 0 .. MaxCalls, override_ret : 0 .. MaxCalls]

(* The last two record what the hook has said that is called now, and what *)
(* those before it have said.                                              *)
Frame ==
  [fn : Fn, at : {"plugins", "hook", "routine"}, phase : Calls!Phase,
   i : 1 .. NPlugins + 1, prev_mres : Calls!Result, status : Calls!Result,
   orig_ret : Calls!Value, override_ret : Calls!Value,
   backup : Globals \cup {NoGlobals},
   said : Calls!Result, heard : Seq(Calls!Answer)]

Init ==
  /\ stack = <<>>
  /\ globals = [mres |-> Calls!UNSET, prev_mres |-> Calls!UNSET, status |-> Calls!UNSET,
                orig_ret |-> 0, override_ret |-> 0]
  /\ count = 0
  /\ running = 1 .. NPlugins
  /\ answer = Calls!Init0

Depth == Len(stack)
Top == stack[Depth]
Below == SubSeq(stack, 1, Depth - 1)
Becomes(frame) == stack' = [stack EXCEPT ![Depth] = frame]

(* A hook or a routine runs, or the engine. *)
Outside == stack # <<>> => Top.at # "plugins"
Between(phase) == stack # <<>> /\ Top.at = "plugins" /\ Top.phase = phase

-----------------------------------------------------------------------------
(* SETUP_API_CALLS: the copy that is made if a call is under way. *)
Saved(g) == IF count > 0 THEN g ELSE NoGlobals

Setup(fn) ==
  /\ Outside /\ Depth < MaxCalls
  /\ stack # <<>> => fn \in Nested
  /\ stack' = Append(stack,
       [fn |-> fn, at |-> "plugins", phase |-> "pre", i |-> 1,
        prev_mres |-> Calls!UNSET, status |-> Calls!UNSET,
        orig_ret |-> Calls!Init0, override_ret |-> Calls!Init0,
        backup |-> Saved(globals), said |-> Calls!UNSET, heard |-> <<>>])
  /\ count' = count + 1
  /\ UNCHANGED <<globals, running, answer>>

(* The MRES_TYPE of CALL_PLUGIN_API: whose value is kept in this phase.    *)
Decisive(phase) == IF phase = "pre" THEN Calls!SUPERCEDE ELSE Calls!OVERRIDE

(* Mutant: no plugin is called after one that supercedes. *)
WaitingUntilSuperceded(frame) ==
  {i \in frame.i .. NPlugins :
     /\ i \in running /\ <<frame.fn, frame.phase, i>> \in Hooked
     /\ frame.status # Calls!SUPERCEDE}

Waiting(frame) ==
  {i \in frame.i .. NPlugins : i \in running /\ <<frame.fn, frame.phase, i>> \in Hooked}

(* CALL_PLUGIN_API, up to the call of a plugin. *)
CallPlugin(phase) ==
  /\ Between(phase)
  /\ \E i \in Waiting(Top) :
       /\ \A j \in Waiting(Top) : i <= j
       /\ Becomes([Top EXCEPT !.at = "hook", !.i = i])
  /\ globals' = [mres |-> Calls!UNSET, prev_mres |-> Top.prev_mres, status |-> Top.status,
                 orig_ret |-> Depth,
                 override_ret |-> IF Top.status = Decisive(phase) THEN Depth
                                  ELSE globals.override_ret]
  /\ UNCHANGED <<count, running, answer>>

(* RETURN_META and SET_META_RESULT. *)
SetResult(r) ==
  /\ stack # <<>> /\ Top.at = "hook"
  /\ globals' = [globals EXCEPT !.mres = r]
  /\ Becomes([Top EXCEPT !.said = r])
  /\ UNCHANGED <<count, running, answer>>

(* CALL_PLUGIN_API, from the return of the plugin. *)
PluginReturns ==
  LET mres == globals.mres
  IN  /\ stack # <<>> /\ Top.at = "hook"
      /\ Becomes([Top EXCEPT
            !.at = "plugins", !.i = @ + 1, !.said = Calls!UNSET,
            !.status = IF mres > @ THEN mres ELSE @,
            !.prev_mres = mres,
            !.override_ret = IF mres = Decisive(Top.phase)
                             THEN Calls!HookValue(Top.phase, Top.i) ELSE @,
            !.heard = Append(@, [phase |-> Top.phase, plugin |-> Top.i,
                                 result |-> Top.said])])
      /\ UNCHANGED <<globals, count, running, answer>>

(* What CALL_PLUGIN_API begins with, the second time. *)
PostPhase(frame, status, orig_ret) ==
  [frame EXCEPT !.at = "plugins", !.phase = "post", !.i = 1,
                !.prev_mres = Calls!UNSET, !.override_ret = Calls!Init0,
                !.status = status, !.orig_ret = orig_ret]

(* CALL_GAME_API and CALL_ENGINE_API, up to the call of the routine.  It   *)
(* may be that there is none.                                              *)
CallRoutine ==
  LET called == Top.status # Calls!SUPERCEDE /\ Routine[Top.fn] = "there"
  IN  /\ Between("pre") /\ Waiting(Top) = {}
      /\ Becomes(
           IF called THEN [Top EXCEPT !.at = "routine", !.i = NPlugins + 1]
           ELSE IF Top.status = Calls!SUPERCEDE
           THEN PostPhase(Top, Top.status, Top.override_ret)
           ELSE PostPhase(Top, IF Routine[Top.fn] = "missing" THEN Calls!UNSET
                               ELSE Top.status, Top.orig_ret))
      /\ count' = IF called THEN count - 1 ELSE count
      /\ globals' = IF Top.status = Calls!SUPERCEDE
                    THEN [globals EXCEPT !.orig_ret = Depth] ELSE globals
      /\ UNCHANGED <<running, answer>>

(* Mutant: the counter is left as it was for the routine. *)
RoutineReturnsUncounted ==
  /\ stack # <<>> /\ Top.at = "routine"
  /\ Becomes(PostPhase(Top, Top.status, Calls!RoutineValue))
  /\ UNCHANGED <<globals, count, running, answer>>

RoutineReturns ==
  /\ stack # <<>> /\ Top.at = "routine"
  /\ Becomes(PostPhase(Top, Top.status, Calls!RoutineValue))
  /\ count' = count + 1
  /\ UNCHANGED <<globals, running, answer>>

(* The frame of this depth is gone. *)
Forgotten(g) ==
  [g EXCEPT !.orig_ret = IF @ = Depth THEN 0 ELSE @,
            !.override_ret = IF @ = Depth THEN 0 ELSE @]

(* Mutant: what was saved is not put back. *)
ReturnKeepsGlobals ==
  /\ Between("post") /\ Waiting(Top) = {}
  /\ stack' = Below
  /\ count' = count - 1
  /\ globals' = Forgotten(globals)
  /\ answer' = IF Top.status = Calls!OVERRIDE THEN Top.override_ret ELSE Top.orig_ret
  /\ UNCHANGED running

(* RETURN_API. *)
Return ==
  /\ Between("post") /\ Waiting(Top) = {}
  /\ stack' = Below
  /\ count' = count - 1
  /\ globals' = IF count - 1 > 0 THEN Top.backup ELSE Forgotten(globals)
  /\ answer' = IF Top.status = Calls!OVERRIDE THEN Top.override_ret ELSE Top.orig_ret
  /\ UNCHANGED running

(* A plugin is paused or resumed, or unloaded and loaded again. *)
Switch(i) ==
  /\ Outside
  /\ running' = IF i \in running THEN running \ {i} ELSE running \cup {i}
  /\ UNCHANGED <<stack, globals, count, answer>>

Next ==
  \/ \E fn \in Fn : Setup(fn)
  \/ \E phase \in Calls!Phase : CallPlugin(phase)
  \/ \E r \in Results : SetResult(r)
  \/ PluginReturns \/ CallRoutine \/ RoutineReturns \/ Return
  \/ \E i \in Pausable : Switch(i)

Spec == Init /\ [][Next]_vars

-----------------------------------------------------------------------------
(* Type invariant. *)
TypeOK ==
  /\ stack \in Seq(Frame) /\ Depth <= MaxCalls
  /\ globals \in Globals
  /\ count \in 0 .. MaxCalls
  /\ running \subseteq 1 .. NPlugins
  /\ answer \in Calls!Value

(* While a hook runs, the globals are about its own call, and hold what it *)
(* has said, whatever was called in the meantime.                          *)
GlobalsBelong ==
  stack # <<>> /\ Top.at = "hook" =>
    /\ globals.mres = Top.said
    /\ globals.prev_mres = Top.prev_mres
    /\ globals.status = Top.status
    /\ globals.orig_ret = Depth
    /\ Top.status = Decisive(Top.phase) => globals.override_ret = Depth

(* The plugins and the callers see what they were promised. *)
KeepsPromise == Calls!Spec

=============================================================================
