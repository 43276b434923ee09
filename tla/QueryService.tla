---------------------------- MODULE QueryService ----------------------------
(***************************************************************************)
(* What a threaded query promises to the plugin that makes it: while the   *)
(* plugins are loaded a query may be asked, each query that was asked is   *)
(* answered once, and the plugins are not unloaded before it is.           *)
(***************************************************************************)
EXTENDS Sequences

CONSTANT Query

VARIABLES
  open,     \* the plugins are loaded
  pending,  \* the queries that wait for their answer
  answers   \* the queries answered, oldest first

vars == <<open, pending, answers>>

Init == open = FALSE /\ pending = {} /\ answers = <<>>

Load == ~open /\ open' = TRUE /\ UNCHANGED <<pending, answers>>

Ask(q) ==
  /\ open
  /\ q \notin pending
  /\ pending' = pending \cup {q}
  /\ UNCHANGED <<open, answers>>

Answer(q) ==
  /\ open
  /\ q \in pending
  /\ pending' = pending \ {q}
  /\ answers' = Append(answers, q)
  /\ UNCHANGED open

Unload ==
  /\ open /\ pending = {}
  /\ open' = FALSE
  /\ UNCHANGED <<pending, answers>>

Next == Load \/ Unload \/ \E q \in Query : Ask(q) \/ Answer(q)

Spec == Init /\ [][Next]_vars

=============================================================================
