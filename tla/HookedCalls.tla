----------------------------- MODULE HookedCalls -----------------------------
(***************************************************************************)
(* What Metamod promises of a call that it passes on (doc/txt/coding.txt,  *)
(* "Operation Details"): each running plugin that hooks the routine is     *)
(* asked before the routine and again after it, in the order of the list;  *)
(* the routine is called unless a plugin supercedes it; and the caller is  *)
(* given the value of the last plugin that overrides or supercedes.  The   *)
(* hooks and the routine may make calls of their own, pause and resume     *)
(* plugins.                                                                *)
(***************************************************************************)
EXTENDS Integers, Sequences

CONSTANTS
  NPlugins,  \* the plugins of the list, numbered in its order
  Fn,        \* the routines
  Hooked,    \* which plugin hooks which, and before or after it
  Routine    \* whether the game or the engine has the routine

Phase == {"pre", "post"}

(* META_RES, whose order matters. *)
UNSET == 0
IGNORED == 1
HANDLED == 2
OVERRIDE == 3
SUPERCEDE == 4
Result == UNSET .. SUPERCEDE

(* Values, told apart by who gave them. *)
Value == [from : {"pre", "post", "routine", "nobody"}, plugin : 0 .. NPlugins]

Init0 == [from |-> "nobody", plugin |-> 0]   \* ret_init
RoutineValue == [from |-> "routine", plugin |-> 0]
HookValue(phase, i) == [from |-> phase, plugin |-> i]

(* What a hook has said. *)
Answer == [phase : Phase, plugin : 1 .. NPlugins, result : Result]

VARIABLES
  calls,    \* the calls under way
  running,  \* the plugins that are not paused
  answer    \* what the last call that returned has given its caller

vars == <<calls, running, answer>>

(* The plugin asked last in this phase, whether its hook is still running, *)
(* and what it has said so far; what those before it have said.            *)
Call ==
  [fn : Fn, phase : Phase \cup {"routine"}, asked : 0 .. NPlugins,
   busy : BOOLEAN, said : Result, heard : Seq(Answer)]

NewCall(fn) ==
  [fn |-> fn, phase |-> "pre", asked |-> 0, busy |-> FALSE, said |-> UNSET, heard |-> <<>>]

Init == calls = <<>> /\ running = 1 .. NPlugins /\ answer = Init0

Top == calls[Len(calls)]
Below == SubSeq(calls, 1, Len(calls) - 1)
Becomes(call) == calls' = [calls EXCEPT ![Len(calls)] = call]

(* Code outside of Metamod runs. *)
Outside == calls # <<>> => Top.busy \/ Top.phase = "routine"
Between(phase) == calls # <<>> /\ ~Top.busy /\ Top.phase = phase

Waiting(call) ==
  {i \in call.asked + 1 .. NPlugins : i \in running /\ <<call.fn, call.phase, i>> \in Hooked}

Superceded(call) ==
  \E k \in 1 .. Len(call.heard) :
    call.heard[k].phase = "pre" /\ call.heard[k].result = SUPERCEDE

(* The value of the last plugin that gave one, else that of the routine.   *)
Gives(a) == a.result \in {OVERRIDE, SUPERCEDE}

DocumentedAnswer(call) ==
  LET giving == {k \in 1 .. Len(call.heard) : Gives(call.heard[k])}
  IN  IF giving # {}
      THEN LET last == CHOOSE k \in giving : \A j \in giving : j <= k
           IN  HookValue(call.heard[last].phase, call.heard[last].plugin)
      ELSE IF Routine[call.fn] = "there" THEN RoutineValue ELSE Init0

(* Hooks before the routine supercede it or let it be, those after it      *)
(* override the value of a routine that was called.                        *)
Regular(call) ==
  \A k \in 1 .. Len(call.heard) :
    LET a == call.heard[k]
    IN  /\ a.phase = "pre"  => a.result # OVERRIDE
        /\ a.phase = "post" => a.result # SUPERCEDE
        /\ a.phase = "post" /\ a.result = OVERRIDE => ~Superceded(call)

Begin(fn) ==
  /\ Outside
  /\ calls' = Append(calls, NewCall(fn))
  /\ UNCHANGED <<running, answer>>

Ask(phase) ==
  /\ Between(phase)
  /\ \E i \in Waiting(Top) :
       /\ \A j \in Waiting(Top) : i <= j
       /\ Becomes([Top EXCEPT !.asked = i, !.busy = TRUE])
  /\ UNCHANGED <<running, answer>>

Say(r) ==
  /\ calls # <<>> /\ Top.busy
  /\ Becomes([Top EXCEPT !.said = r])
  /\ UNCHANGED <<running, answer>>

Hear ==
  /\ calls # <<>> /\ Top.busy
  /\ Becomes([Top EXCEPT !.busy = FALSE, !.said = UNSET,
                !.heard = Append(@, [phase |-> Top.phase, plugin |-> Top.asked,
                                     result |-> Top.said])])
  /\ UNCHANGED <<running, answer>>

(* All have been asked: the routine is called, or there is nothing to call.*)
Go ==
  /\ Between("pre") /\ Waiting(Top) = {}
  /\ Becomes(IF ~Superceded(Top) /\ Routine[Top.fn] = "there"
             THEN [Top EXCEPT !.phase = "routine", !.asked = NPlugins]
             ELSE [Top EXCEPT !.phase = "post", !.asked = 0])
  /\ UNCHANGED <<running, answer>>

Back ==
  /\ calls # <<>> /\ Top.phase = "routine"
  /\ Becomes([Top EXCEPT !.phase = "post", !.asked = 0])
  /\ UNCHANGED <<running, answer>>

End ==
  /\ Between("post") /\ Waiting(Top) = {}
  /\ calls' = Below
  /\ answer' \in Value
  /\ Regular(Top) => answer' = DocumentedAnswer(Top)
  /\ UNCHANGED running

Switch(i) ==
  /\ Outside
  /\ running' = IF i \in running THEN running \ {i} ELSE running \cup {i}
  /\ UNCHANGED <<calls, answer>>

Next ==
  \/ \E fn \in Fn : Begin(fn)
  \/ \E phase \in Phase : Ask(phase)
  \/ \E r \in Result : Say(r)
  \/ Hear \/ Go \/ Back \/ End
  \/ \E i \in 1 .. NPlugins : Switch(i)

Spec == Init /\ [][Next]_vars

=============================================================================
