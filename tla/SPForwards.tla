----------------------------- MODULE SPForwards -----------------------------
(***************************************************************************)
(* The table of single plugin forwards (class CForwardMngr, CForward.cpp): *)
(* functions of scripts that others may call by a number.  The operators   *)
(* give the table after an operation; the modules that call them keep it.  *)
(*                                                                         *)
(* A forward's id is its index, without the bit that tells it from the     *)
(* forwards to all plugins; NoForward stands for -1.                       *)
(***************************************************************************)
EXTENDS Integers, Sequences

CONSTANTS
  Func,    \* the functions of the scripts
  NoFunc   \* a name that the script has no function of, not one of them

NoForward == 0

Forward ==
  [func     : Func \cup {NoFunc},  \* m_Amx and m_Func; m_HasFunc
   isFree   : BOOLEAN,
   inExec   : BOOLEAN,             \* m_InExec
   toDelete : BOOLEAN]             \* m_ToDelete

(* m_SPForwards, and m_FreeSPForwards with its top last. *)
Table == [sp : Seq(Forward), free : Seq(Nat \ {0})]

EmptyTable == [sp |-> <<>>, free |-> <<>>]

IsIdValid(t, id) == id \in 1 .. Len(t.sp)

(* CSPForward::Set() makes all of the object anew. *)
Set(f) == [func |-> f, isFree |-> FALSE, inExec |-> FALSE, toDelete |-> FALSE]

Front(t) == t.free[Len(t.free)]
Popped(s) == SubSeq(s, 1, Len(s) - 1)

(* Mutant: a forward whose function is missing leaves the stack. *)
RegisteredPops(t, f) ==
  IF t.free = <<>>
  THEN IF f = NoFunc THEN t ELSE [t EXCEPT !.sp = Append(@, Set(f))]
  ELSE [sp |-> [t.sp EXCEPT ![Front(t)] = Set(f)], free |-> Popped(t.free)]

(* registerSPForward(): the id that it returns, and the table.  An object  *)
(* from the stack is set before it is known that there is no such          *)
(* function, and is then left on the stack.                                *)
RegisteredId(t, f) ==
  IF f = NoFunc THEN NoForward
  ELSE IF t.free = <<>> THEN Len(t.sp) + 1 ELSE Front(t)

Registered(t, f) ==
  IF t.free = <<>>
  THEN IF f = NoFunc THEN t ELSE [t EXCEPT !.sp = Append(@, Set(f))]
  ELSE [sp   |-> [t.sp EXCEPT ![Front(t)] = Set(f)],
        free |-> IF f = NoFunc THEN t.free ELSE Popped(t.free)]

(* Mutant: the object is pushed but not marked. *)
FreedUnmarked(t, id) == [t EXCEPT !.free = Append(@, id)]

Freed(t, id) ==
  [sp |-> [t.sp EXCEPT ![id].isFree = TRUE], free |-> Append(t.free, id)]

(* Mutant: a forward is unregistered although it executes. *)
UnregisteredAtOnce(t, id) ==
  IF ~IsIdValid(t, id) \/ t.sp[id].isFree THEN t ELSE Freed(t, id)

(* unregisterSPForward(): one that executes is deleted when it has done so. *)
Unregistered(t, id) ==
  IF ~IsIdValid(t, id) \/ t.sp[id].isFree THEN t
  ELSE IF t.sp[id].inExec THEN [t EXCEPT !.sp[id].toDelete = TRUE]
  ELSE Freed(t, id)

(* unregisterSPForward() of each of a set of forwards: those that execute  *)
(* are deleted when they have done so, the others are pushed in this order.*)
AllUnregistered(t, ids, order) ==
  [sp   |-> [id \in 1 .. Len(t.sp) |->
               IF id \notin ids \/ t.sp[id].isFree THEN t.sp[id]
               ELSE IF t.sp[id].inExec THEN [t.sp[id] EXCEPT !.toDelete = TRUE]
               ELSE [t.sp[id] EXCEPT !.isFree = TRUE]],
   free |-> t.free \o order]

Releasable(t, id) == IsIdValid(t, id) /\ ~t.sp[id].isFree /\ ~t.sp[id].inExec

(* Whether CSPForward::execute() goes on to call the function. *)
CanExecute(t, id, executable) ==
  /\ IsIdValid(t, id)
  /\ ~t.sp[id].isFree /\ ~t.sp[id].toDelete
  /\ t.sp[id].func \in executable

Entered(t, id) == [t EXCEPT !.sp[id].inExec = TRUE]

(* The end of executeForwards(), whether the function was called or not. *)
Settled(t, id) ==
  IF IsIdValid(t, id) /\ t.sp[id].toDelete
  THEN Unregistered([t EXCEPT !.sp[id].toDelete = FALSE], id)
  ELSE t

(* The function has returned. *)
Left(t, id) == Settled([t EXCEPT !.sp[id].inExec = FALSE], id)

=============================================================================
