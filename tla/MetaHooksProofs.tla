--------------------------- MODULE MetaHooksProofs ---------------------------
(***************************************************************************)
(* For every number of plugins, every set of routines and however deep     *)
(* calls are nested: a hook sees the globals of its own call, and plugins  *)
(* and callers get what HookedCalls promises.                              *)
(***************************************************************************)
EXTENDS MetaHooks, FiniteSets, FiniteSetTheorems, SequenceTheorems, WellFoundedInduction, TLAPS

USE DEF Calls!UNSET, Calls!IGNORED, Calls!HANDLED, Calls!OVERRIDE, Calls!SUPERCEDE

(* CALL_API_count is the number of calls that are not in their routine.    *)
Counted(s) == {k \in 1 .. Len(s) : s[k].at # "routine"}

CountOK == count = Cardinality(Counted(stack))

(* Only the last call is between two calls of outside code; a call without *)
(* a copy of the globals was made by a routine, and all below it were.     *)
FrameOK(k) ==
  /\ k < Depth => stack[k].at # "plugins"
  /\ stack[k].at = "hook" => stack[k].i <= NPlugins
  /\ stack[k].at # "hook" => stack[k].said = Calls!UNSET
  /\ stack[k].backup \notin Globals => \A j \in 1 .. k - 1 : stack[j].at = "routine"

FramesOK == \A k \in 1 .. Depth : FrameOK(k)

(* The globals, or a copy of them, are those of a hook of the k-th call.   *)
Belongs(g, k) ==
  /\ g.mres = stack[k].said
  /\ g.prev_mres = stack[k].prev_mres
  /\ g.status = stack[k].status
  /\ g.orig_ret = k
  /\ stack[k].status = Decisive(stack[k].phase) => g.override_ret = k

SavedOK == \A k \in 1 .. Depth - 1 : stack[k].at = "hook" => Belongs(stack[k + 1].backup, k)

IInv == TypeOK /\ CountOK /\ FramesOK /\ SavedOK /\ GlobalsBelong

(* What a call has kept of the values that its hooks gave.                 *)
Heard(f, phase) == \A k \in 1 .. Len(f.heard) : f.heard[k].phase = phase
Overridden(f) == IF f.status = Calls!OVERRIDE THEN f.override_ret ELSE f.orig_ret

PreFits(f) ==
  /\ Heard(f, "pre")
  /\ f.orig_ret = Calls!Init0
  /\ f.status = Calls!SUPERCEDE <=> Calls!Superceded(AsCall(f))
  /\ Calls!Regular(AsCall(f)) =>
       IF f.status = Calls!SUPERCEDE
       THEN f.override_ret = Calls!DocumentedAnswer(AsCall(f))
       ELSE f.status < Calls!OVERRIDE

PostFits(f) ==
  Calls!Regular(AsCall(f)) =>
    /\ f.status = Calls!SUPERCEDE <=> Calls!Superceded(AsCall(f))
    /\ Overridden(f) = Calls!DocumentedAnswer(AsCall(f))

Fits(f) ==
  /\ f.phase = "pre" => PreFits(f)
  /\ f.phase = "post" => PostFits(f)
  /\ f.at = "routine" => /\ f.phase = "pre" /\ f.status # Calls!SUPERCEDE
                         /\ Routine[f.fn] = "there" /\ f.i = NPlugins + 1

ValuesOK == \A k \in 1 .. Depth : Fits(stack[k])

-----------------------------------------------------------------------------
(* The parts of a call, and the calls under way. *)

(* A call with one part replaced; several are chains of these.             *)
LEMMA FrameSet ==
  ASSUME NEW f \in Frame
  PROVE  /\ \A x \in {"plugins", "hook", "routine"} : [f EXCEPT !.at = x] \in Frame
         /\ \A x \in Calls!Phase : [f EXCEPT !.phase = x] \in Frame
         /\ \A x \in 1 .. NPlugins + 1 : [f EXCEPT !.i = x] \in Frame
         /\ \A x \in Calls!Result : [f EXCEPT !.prev_mres = x] \in Frame
         /\ \A x \in Calls!Result : [f EXCEPT !.status = x] \in Frame
         /\ \A x \in Calls!Value : [f EXCEPT !.orig_ret = x] \in Frame
         /\ \A x \in Calls!Value : [f EXCEPT !.override_ret = x] \in Frame
         /\ \A x \in Calls!Result : [f EXCEPT !.said = x] \in Frame
         /\ \A x \in Seq(Calls!Answer) : [f EXCEPT !.heard = x] \in Frame
<1>1. \A x \in {"plugins", "hook", "routine"} : [f EXCEPT !.at = x] \in Frame
  BY DEF Frame
<1>2. \A x \in Calls!Phase : [f EXCEPT !.phase = x] \in Frame
  BY DEF Frame
<1>3. \A x \in 1 .. NPlugins + 1 : [f EXCEPT !.i = x] \in Frame
  BY DEF Frame
<1>4. \A x \in Calls!Result : /\ [f EXCEPT !.prev_mres = x] \in Frame
                              /\ [f EXCEPT !.status = x] \in Frame
                              /\ [f EXCEPT !.said = x] \in Frame
  BY DEF Frame
<1>5. \A x \in Calls!Value : /\ [f EXCEPT !.orig_ret = x] \in Frame
                             /\ [f EXCEPT !.override_ret = x] \in Frame
  BY DEF Frame
<1>6. \A x \in Seq(Calls!Answer) : [f EXCEPT !.heard = x] \in Frame
  BY DEF Frame
<1> QED BY <1>1, <1>2, <1>3, <1>4, <1>5, <1>6

(* What is known of the last call, and what it does not change of others.  *)
LEMMA TopSet ==
  ASSUME stack \in Seq(Frame), stack # <<>>
  PROVE  /\ Depth \in Nat /\ Depth > 0 /\ Depth \in 1 .. Depth /\ Top \in Frame
         /\ \A f \in Frame :
              Becomes(f) => /\ stack' \in Seq(Frame) /\ Len(stack') = Depth
                            /\ stack'[Depth] = f
                            /\ \A k \in 1 .. Depth - 1 : stack'[k] = stack[k]
<1>1. Depth \in Nat /\ Depth > 0
  BY DEF Depth
<1> QED BY <1>1 DEF Depth, Top, Becomes

LEMMA Pushed ==
  ASSUME NEW S, NEW s \in Seq(S), NEW f \in S
  PROVE  LET t == Append(s, f)
         IN  /\ t \in Seq(S) /\ Len(t) = Len(s) + 1 /\ t[Len(s) + 1] = f
             /\ \A k \in 1 .. Len(s) : t[k] = s[k]
  OBVIOUS

LEMMA Popped ==
  ASSUME NEW S, NEW s \in Seq(S), s # <<>>
  PROVE  LET t == SubSeq(s, 1, Len(s) - 1)
         IN  /\ t \in Seq(S) /\ Len(t) = Len(s) - 1
             /\ \A k \in 1 .. Len(s) - 1 : t[k] = s[k]
<1>1. Len(s) \in Nat /\ Len(s) > 0
  OBVIOUS
<1> DEFINE n == Len(s) - 1
           t == SubSeq(s, 1, n)
<1>2. n \in Int /\ n >= 0 /\ \A i \in 1 .. n : s[i] \in S
  BY <1>1
<1> HIDE DEF n
<1>3. /\ t \in Seq(S)
      /\ Len(t) = IF 1 <= n THEN n - 1 + 1 ELSE 0
      /\ \A i \in 1 .. n - 1 + 1 : t[i] = s[1 + i - 1]
  BY <1>2, SubSeqProperties
<1> HIDE DEF t
<1>4. Len(t) = n /\ \A i \in 1 .. n : t[i] = s[i]
  BY <1>2, <1>3
<1> QED BY <1>3, <1>4 DEF n, t

LEMMA Finite ==
  ASSUME NEW s \in Seq(Frame)
  PROVE  /\ IsFiniteSet(Counted(s))
         /\ Cardinality(Counted(s)) \in 0 .. Len(s)
<1> DEFINE n == Len(s)
<1>0. n \in Nat
  OBVIOUS
<1> HIDE DEF n
<1>1. IsFiniteSet(1 .. n) /\ Cardinality(1 .. n) = n
  BY <1>0, FS_Interval
<1> USE DEF n
<1>2. Counted(s) \in SUBSET (1 .. Len(s))
  BY DEF Counted
<1>3. IsFiniteSet(Counted(s)) /\ Cardinality(Counted(s)) <= Len(s)
  BY <1>1, <1>2, FS_Subset
<1> QED BY <1>3, FS_CardinalityType

(* The counted calls are at least as many as those that can be named.      *)
LEMMA CountsTwo ==
  ASSUME NEW s \in Seq(Frame), NEW j \in Counted(s)
  PROVE  /\ Cardinality(Counted(s)) > 0
         /\ Cardinality(Counted(s) \ {j}) = Cardinality(Counted(s)) - 1
         /\ \A k \in Counted(s) \ {j} : Cardinality(Counted(s)) > 1
<1> DEFINE C == Counted(s)
<1>1. IsFiniteSet(C) /\ Cardinality(C) \in Nat
  BY Finite, FS_CardinalityType
<1>2. Cardinality(C \ {j}) = Cardinality(C) - 1 /\ IsFiniteSet(C \ {j})
  BY <1>1, FS_RemoveElement
<1>3. Cardinality(C \ {j}) \in Nat
  BY <1>2, FS_CardinalityType
<1>4. Cardinality(C \ {j}) = 0 <=> C \ {j} = {}
  BY <1>2, FS_EmptySet
<1> QED BY <1>1, <1>2, <1>3, <1>4

LEMMA CountsNone ==
  ASSUME NEW s \in Seq(Frame), Cardinality(Counted(s)) = 0
  PROVE  Counted(s) = {}
BY Finite, FS_EmptySet

(* The last call changes: which calls are counted.                         *)
LEMMA CountChanges ==
  ASSUME stack \in Seq(Frame), stack # <<>>, NEW f \in Frame, Becomes(f), CountOK
  PROVE  /\ (f.at = "routine" <=> Top.at = "routine")
              => Cardinality(Counted(stack')) = count
         /\ f.at = "routine" /\ Top.at # "routine"
              => Cardinality(Counted(stack')) = count - 1
         /\ f.at # "routine" /\ Top.at = "routine"
              => Cardinality(Counted(stack')) = count + 1
<1>1. /\ Depth \in Nat /\ Depth > 0 /\ stack' \in Seq(Frame) /\ Len(stack') = Depth
      /\ stack'[Depth] = f /\ \A k \in 1 .. Depth - 1 : stack'[k] = stack[k]
      /\ Top = stack[Depth] /\ Len(stack) = Depth
  BY TopSet DEF Top, Depth
<1>2. ASSUME f.at = "routine" <=> Top.at = "routine"
      PROVE  Counted(stack') = Counted(stack)
  BY <1>1, <1>2 DEF Counted
<1>3. ASSUME f.at = "routine", Top.at # "routine"
      PROVE  Counted(stack') = Counted(stack) \ {Depth} /\ Depth \in Counted(stack)
  BY <1>1, <1>3 DEF Counted
<1>4. ASSUME f.at # "routine", Top.at = "routine"
      PROVE  Counted(stack') = Counted(stack) \cup {Depth} /\ Depth \notin Counted(stack)
  BY <1>1, <1>4 DEF Counted
<1>5. IsFiniteSet(Counted(stack)) /\ count = Cardinality(Counted(stack))
  BY Finite DEF CountOK
<1>6. CASE f.at = "routine" <=> Top.at = "routine"
  BY <1>2, <1>5, <1>6
<1>7. CASE f.at = "routine" /\ Top.at # "routine"
  BY <1>3, <1>5, <1>7, FS_RemoveElement
<1>8. CASE f.at # "routine" /\ Top.at = "routine"
  BY <1>4, <1>5, <1>8, FS_AddElement
<1> QED BY <1>6, <1>7, <1>8

(* The last call changes but keeps its copy of the globals.                *)
LEMMA FramesKept ==
  ASSUME stack \in Seq(Frame), stack # <<>>, FramesOK, SavedOK,
         NEW f \in Frame, Becomes(f), f.backup = Top.backup,
         f.at = "hook" => f.i <= NPlugins, f.at # "hook" => f.said = Calls!UNSET
  PROVE  FramesOK' /\ SavedOK'
<1>1. /\ Depth \in Nat /\ Depth > 0 /\ Depth' = Depth
      /\ stack'[Depth] = f /\ \A k \in 1 .. Depth - 1 : stack'[k] = stack[k]
      /\ Top = stack[Depth]
  BY TopSet DEF Top, Depth
<1> HIDE DEF Depth
<1>2. FramesOK'
  <2> SUFFICES ASSUME NEW k \in 1 .. Depth PROVE FrameOK(k)'
    BY <1>1 DEF FramesOK
  <2>1. FrameOK(k) /\ \A j \in 1 .. k - 1 : stack'[j] = stack[j]
    BY <1>1 DEF FramesOK
  <2>2. CASE k < Depth
    BY <1>1, <2>1, <2>2 DEF FrameOK, Globals
  <2>3. CASE k = Depth
    <3>1. stack'[k] = f /\ ~(k < Depth)
      BY <1>1, <2>3
    <3>2. f.backup = stack[k].backup
      BY <1>1, <2>3
    <3>3. f.at = "hook" => f.i <= NPlugins
      OBVIOUS
    <3>4. f.backup \notin Globals => \A j \in 1 .. k - 1 : stack'[j].at = "routine"
      <4>1. stack[k].backup \notin Globals => \A j \in 1 .. k - 1 : stack[j].at = "routine"
        BY <2>1 DEF FrameOK
      <4> QED BY <2>1, <3>2, <4>1
    <3> HIDE DEF Globals
    <3> QED BY <1>1, <3>1, <3>3, <3>4 DEF FrameOK
  <2> QED BY <1>1, <2>2, <2>3
<1>3. SavedOK'
  <2> SUFFICES ASSUME NEW k \in 1 .. Depth - 1, stack[k].at = "hook"
               PROVE  Belongs(stack[k + 1].backup, k)'
    BY <1>1 DEF SavedOK
  <2>1. Belongs(stack[k + 1].backup, k) /\ stack'[k] = stack[k]
    BY <1>1 DEF SavedOK
  <2>2. stack'[k + 1].backup = stack[k + 1].backup
    BY <1>1
  <2> QED BY <2>1, <2>2 DEF Belongs, Decisive
<1> QED BY <1>2, <1>3

(* Both at once, for the actions below.                                    *)
LEMMA TopChanges ==
  ASSUME IInv, stack # <<>>, NEW f \in Frame, Becomes(f), f.backup = Top.backup,
         f.at = "hook" => f.i <= NPlugins, f.at # "hook" => f.said = Calls!UNSET,
         count' = IF f.at = "routine" /\ Top.at # "routine" THEN count - 1
                  ELSE IF f.at # "routine" /\ Top.at = "routine" THEN count + 1
                  ELSE count
  PROVE  /\ CountOK' /\ FramesOK' /\ SavedOK' /\ count' \in 0 .. MaxCalls
         /\ stack' \in Seq(Frame) /\ Depth' = Depth /\ Depth' <= MaxCalls
         /\ Top' = f /\ stack' # <<>>
<1>1. FramesOK' /\ SavedOK'
  BY FramesKept DEF IInv, TypeOK
<1>2. count' = Cardinality(Counted(stack'))
  BY CountChanges DEF IInv, TypeOK
<1>3. /\ stack' \in Seq(Frame) /\ Depth' = Depth /\ Depth' <= MaxCalls /\ Depth > 0
      /\ Top' = f /\ stack' # <<>>
  BY TopSet DEF IInv, TypeOK, Depth, Top
<1>4. count' \in 0 .. MaxCalls
  BY <1>2, <1>3, Finite, HooksAssumption DEF Depth
<1> QED BY <1>1, <1>2, <1>3, <1>4 DEF CountOK

-----------------------------------------------------------------------------
(* The invariant is kept. *)

LEMMA InitKeeps == Init => IInv
<1> SUFFICES ASSUME Init PROVE IInv
  OBVIOUS
<1>1. stack = <<>> /\ Depth = 0 /\ stack \in Seq(Frame)
  BY DEF Init, Depth
<1>2. Counted(stack) = {}
  BY <1>1 DEF Counted
<1>3. CountOK
  BY <1>2, FS_EmptySet DEF Init, CountOK
<1>4. Calls!Init0 \in Calls!Value
  BY HooksAssumption DEF Calls!Init0, Calls!Value
<1>5. TypeOK
  BY <1>1, <1>4, HooksAssumption DEF Init, TypeOK, Globals, Calls!Result
<1> QED BY <1>1, <1>3, <1>5 DEF IInv, FramesOK, SavedOK, GlobalsBelong

LEMMA SetupKeeps ==
  ASSUME IInv, NEW fn \in Fn, Setup(fn)
  PROVE  IInv'
<1> DEFINE f == [fn |-> fn, at |-> "plugins", phase |-> "pre", i |-> 1,
                 prev_mres |-> Calls!UNSET, status |-> Calls!UNSET,
                 orig_ret |-> Calls!Init0, override_ret |-> Calls!Init0,
                 backup |-> Saved(globals), said |-> Calls!UNSET, heard |-> <<>>]
           d == Len(stack)
<1>1. f \in Frame
  <2>1. Saved(globals) \in Globals \cup {NoGlobals}
    BY DEF IInv, TypeOK, Saved
  <2>2. Calls!Init0 \in Calls!Value /\ 1 \in 1 .. NPlugins + 1 /\ Calls!UNSET \in Calls!Result
    BY HooksAssumption DEF Calls!Init0, Calls!Value, Calls!Result
  <2>3. <<>> \in Seq(Calls!Answer) /\ "pre" \in Calls!Phase
    BY DEF Calls!Phase
  <2> HIDE DEF Calls!UNSET
  <2> QED BY <2>1, <2>2, <2>3 DEF Frame
<1>2. f.backup = Saved(globals) /\ f.at = "plugins" /\ f.said = Calls!UNSET
  OBVIOUS
<1>3. stack' = Append(stack, f) /\ stack \in Seq(Frame)
  BY DEF Setup, IInv, TypeOK
<1> HIDE DEF f
<1>4. /\ stack' \in Seq(Frame) /\ Len(stack') = d + 1 /\ stack'[d + 1] = f
      /\ \A k \in 1 .. d : stack'[k] = stack[k]
  BY <1>1, <1>3
<1>5. d \in Nat /\ d = Depth /\ Depth' = d + 1 /\ Top' = f /\ stack' # <<>>
  BY <1>3, <1>4 DEF Depth, Top
<1>6. Counted(stack') = Counted(stack) \cup {d + 1} /\ d + 1 \notin Counted(stack)
  BY <1>2, <1>4, <1>5 DEF Counted
<1>7. /\ IsFiniteSet(Counted(stack)) /\ count = Cardinality(Counted(stack))
      /\ \A k \in 1 .. d : stack[k].at # "routine" => k \in Counted(stack)
  BY <1>3, Finite DEF IInv, CountOK, Counted
<1>8. CountOK'
  BY <1>6, <1>7, FS_AddElement DEF Setup, CountOK
<1>9. \A k \in 1 .. d : stack[k].at # "routine" => count > 0
  BY <1>3, <1>7, CountsTwo
<1>10. f.backup = globals \/ \A k \in 1 .. d : stack[k].at = "routine"
  BY <1>2, <1>9 DEF Saved
<1>11. Depth > 0 => stack[Depth].at # "plugins"
  BY <1>3, <1>5 DEF Setup, Outside, Top
<1> HIDE DEF d
<1>12. FramesOK'
  <2> SUFFICES ASSUME NEW k \in 1 .. d + 1 PROVE FrameOK(k)'
    BY <1>5 DEF FramesOK
  <2>1. CASE k <= d
    <3>1. FrameOK(k) /\ stack'[k] = stack[k] /\ \A j \in 1 .. k - 1 : stack'[j] = stack[j]
      BY <1>4, <1>5, <2>1 DEF IInv, FramesOK
    <3>2. stack[k].at # "plugins"
      BY <1>5, <1>11, <2>1, <3>1 DEF FrameOK
    <3> QED BY <3>1, <3>2 DEF FrameOK, Globals
  <2>2. CASE k = d + 1
    <3>1. globals \in Globals
      BY DEF IInv, TypeOK
    <3>2. stack'[k] = f /\ \A j \in 1 .. k - 1 : stack'[j] = stack[j]
      BY <1>4, <1>5, <2>2
    <3>3. f.backup \in Globals \/ \A j \in 1 .. k - 1 : stack'[j].at = "routine"
      BY <1>5, <1>10, <2>2, <3>1, <3>2
    <3> QED BY <1>2, <1>5, <2>2, <3>2, <3>3 DEF FrameOK, Globals
  <2> QED BY <1>5, <2>1, <2>2
<1>13. SavedOK'
  <2> SUFFICES ASSUME NEW k \in 1 .. d, stack[k].at = "hook"
               PROVE  Belongs(stack[k + 1].backup, k)'
    BY <1>4, <1>5 DEF SavedOK
  <2>1. stack'[k] = stack[k]
    BY <1>4
  <2>2. CASE k < d
    <3>1. Belongs(stack[k + 1].backup, k) /\ stack'[k + 1] = stack[k + 1]
      BY <1>4, <1>5, <2>2 DEF IInv, SavedOK
    <3> QED BY <2>1, <3>1 DEF Belongs, Decisive
  <2>3. CASE k = d
    <3>1. Belongs(globals, k) /\ stack # <<>>
      BY <1>3, <1>5, <2>3 DEF d, Depth, IInv, GlobalsBelong, Belongs, Top
    <3>2. stack'[k + 1].backup = globals
      BY <1>4, <1>5, <1>10, <2>3
    <3> QED BY <2>1, <3>1, <3>2 DEF Belongs, Decisive
  <2> QED BY <1>5, <2>2, <2>3
<1>14. GlobalsBelong'
  BY <1>2, <1>5 DEF GlobalsBelong
<1>15. TypeOK'
  <2>1. Depth' <= MaxCalls
    BY <1>5, HooksAssumption DEF Setup, Depth
  <2>2. count' \in 0 .. MaxCalls
    BY <1>4, <1>5, <1>8, <2>1, Finite, HooksAssumption DEF CountOK, Depth
  <2> QED BY <1>4, <2>1, <2>2 DEF Setup, TypeOK, IInv, Globals
<1> QED BY <1>8, <1>12, <1>13, <1>14, <1>15 DEF IInv

LEMMA CallPluginKeeps ==
  ASSUME IInv, NEW phase \in Calls!Phase, CallPlugin(phase)
  PROVE  IInv'
<1>1. stack # <<>> /\ Top.at = "plugins" /\ Top \in Frame /\ Depth \in 1 .. MaxCalls
  BY TopSet DEF IInv, TypeOK, CallPlugin, Between
<1>2. Top.said = Calls!UNSET
  BY <1>1, TopSet DEF IInv, TypeOK, FramesOK, FrameOK, Top
<1>3. PICK i \in Waiting(Top) : Becomes([Top EXCEPT !.at = "hook", !.i = i])
  BY DEF CallPlugin
<1>4. i \in 1 .. NPlugins
  BY <1>1 DEF Waiting, Frame
<1> DEFINE a == [Top EXCEPT !.at = "hook"]
           f == [a EXCEPT !.i = i]
<1>5. a \in Frame /\ a.at = "hook" /\ a.backup = Top.backup
  BY <1>1, FrameSet DEF Frame
<1>6. f \in Frame
  <2> HIDE DEF a
  <2>1. i \in 1 .. NPlugins + 1
    BY <1>4, HooksAssumption
  <2> QED BY <1>5, <2>1, FrameSet
<1>7. /\ f = [Top EXCEPT !.at = "hook", !.i = i] /\ f.at = "hook" /\ f.i = i
      /\ f.backup = Top.backup /\ f.said = Top.said
      /\ f.prev_mres = Top.prev_mres /\ f.status = Top.status /\ f.phase = Top.phase
  BY <1>1 DEF Frame
<1> HIDE DEF f
<1>8. /\ CountOK' /\ FramesOK' /\ SavedOK' /\ count' \in 0 .. MaxCalls
      /\ stack' \in Seq(Frame) /\ Depth' = Depth /\ Depth' <= MaxCalls
      /\ Top' = f /\ stack' # <<>>
  <2>1. Becomes(f)
    BY <1>3, <1>7
  <2>2. count' = count
    BY DEF CallPlugin
  <2>3. f.i <= NPlugins
    BY <1>4, <1>7, HooksAssumption
  <2>4. f.at # "routine" /\ Top.at # "routine" /\ f.at = "hook"
    BY <1>1, <1>7
  <2> QED BY <1>1, <1>6, <1>7, <2>1, <2>2, <2>3, <2>4, TopChanges
<1>9. globals' \in Globals
  <2>1. Calls!UNSET \in Calls!Result
    BY DEF Calls!Result
  <2>2. Top.prev_mres \in Calls!Result /\ Top.status \in Calls!Result
    BY <1>1 DEF Frame
  <2>3. globals.override_ret \in 0 .. MaxCalls /\ Depth \in 0 .. MaxCalls
    BY <1>1 DEF IInv, TypeOK, Globals
  <2> HIDE DEF Calls!UNSET
  <2> QED BY <2>1, <2>2, <2>3 DEF CallPlugin, Globals
<1>10. Top.phase = phase
  BY DEF CallPlugin, Between
<1>11. GlobalsBelong'
  BY <1>2, <1>7, <1>8, <1>10 DEF GlobalsBelong, CallPlugin, Decisive
<1> QED BY <1>8, <1>9, <1>11 DEF IInv, TypeOK, CallPlugin

LEMMA SetResultKeeps ==
  ASSUME IInv, NEW r \in Results, SetResult(r)
  PROVE  IInv'
<1>1. /\ stack # <<>> /\ Top.at = "hook" /\ Top \in Frame /\ r \in Calls!Result
      /\ globals \in Globals /\ Top.i <= NPlugins
  BY TopSet, HooksAssumption DEF IInv, TypeOK, SetResult, FramesOK, FrameOK, Top
<1> DEFINE f == [Top EXCEPT !.said = r]
<1>2. /\ f \in Frame /\ f.at = "hook" /\ f.i = Top.i /\ f.said = r
      /\ f.backup = Top.backup
      /\ f.prev_mres = Top.prev_mres /\ f.status = Top.status /\ f.phase = Top.phase
  BY <1>1, FrameSet DEF Frame
<1>3. Becomes(f)
  BY DEF SetResult
<1> HIDE DEF f
<1>4. /\ CountOK' /\ FramesOK' /\ SavedOK' /\ count' \in 0 .. MaxCalls
      /\ stack' \in Seq(Frame) /\ Depth' = Depth /\ Depth' <= MaxCalls
      /\ Top' = f /\ stack' # <<>>
  BY <1>1, <1>2, <1>3, TopChanges DEF SetResult
<1>5. /\ globals' \in Globals /\ globals'.mres = r
      /\ globals'.prev_mres = globals.prev_mres /\ globals'.status = globals.status
      /\ globals'.orig_ret = globals.orig_ret
      /\ globals'.override_ret = globals.override_ret
  BY <1>1 DEF SetResult, Globals
<1>6. GlobalsBelong'
  BY <1>1, <1>2, <1>4, <1>5 DEF IInv, GlobalsBelong, Decisive
<1> QED BY <1>4, <1>5, <1>6 DEF IInv, TypeOK, SetResult

LEMMA PluginReturnsKeeps ==
  ASSUME IInv, PluginReturns
  PROVE  IInv'
<1>1. /\ stack # <<>> /\ Top.at = "hook" /\ Top \in Frame /\ Top.i \in 1 .. NPlugins
      /\ globals \in Globals
  <2>1. stack # <<>> /\ Top.at = "hook" /\ Top \in Frame /\ Top.i <= NPlugins
    BY TopSet DEF IInv, TypeOK, PluginReturns, FramesOK, FrameOK, Top
  <2>2. Top.i \in 1 .. NPlugins + 1
    BY <2>1 DEF Frame
  <2> QED BY <2>1, <2>2, HooksAssumption DEF IInv, TypeOK
<1> DEFINE mres == globals.mres
           status == IF mres > Top.status THEN mres ELSE Top.status
           ret == IF mres = Decisive(Top.phase)
                  THEN Calls!HookValue(Top.phase, Top.i) ELSE Top.override_ret
           heard == Append(Top.heard, [phase |-> Top.phase, plugin |-> Top.i,
                                       result |-> Top.said])
           a == [Top EXCEPT !.at = "plugins"]
           b == [a EXCEPT !.i = Top.i + 1]
           c == [b EXCEPT !.said = Calls!UNSET]
           d == [c EXCEPT !.status = status]
           e == [d EXCEPT !.prev_mres = mres]
           g == [e EXCEPT !.override_ret = ret]
           f == [g EXCEPT !.heard = heard]
<1>2. /\ mres \in Calls!Result /\ status \in Calls!Result /\ ret \in Calls!Value
      /\ heard \in Seq(Calls!Answer) /\ Calls!UNSET \in Calls!Result
      /\ Top.i + 1 \in 1 .. NPlugins + 1
  <2>1. mres \in Calls!Result /\ status \in Calls!Result /\ Calls!UNSET \in Calls!Result
    BY <1>1 DEF Globals, Frame, Calls!Result
  <2>2. ret \in Calls!Value
    BY <1>1, HooksAssumption DEF Frame, Calls!Value, Calls!HookValue, Calls!Phase
  <2>3. heard \in Seq(Calls!Answer)
    <3>1. [phase |-> Top.phase, plugin |-> Top.i, result |-> Top.said] \in Calls!Answer
      BY <1>1 DEF Frame, Calls!Answer
    <3>2. Top.heard \in Seq(Calls!Answer)
      BY <1>1 DEF Frame
    <3> QED BY <3>1, <3>2
  <2> QED BY <1>1, <2>1, <2>2, <2>3, HooksAssumption
<1>3. Becomes(f)
  BY <1>1 DEF PluginReturns, Frame
<1> HIDE DEF mres, status, ret, heard, Calls!UNSET
<1>4. a \in Frame /\ b \in Frame
  <2>1. a \in Frame
    BY <1>1, FrameSet
  <2> HIDE DEF a
  <2> QED BY <1>2, <2>1, FrameSet
<1> HIDE DEF b
<1>5. c \in Frame
  BY <1>2, <1>4, FrameSet
<1> HIDE DEF c
<1>6. d \in Frame
  BY <1>2, <1>5, FrameSet
<1> HIDE DEF d
<1>7. e \in Frame
  BY <1>2, <1>6, FrameSet
<1> HIDE DEF e
<1>8. g \in Frame
  BY <1>2, <1>7, FrameSet
<1> HIDE DEF g
<1>9. f \in Frame
  BY <1>2, <1>8, FrameSet
<1>10. f.at = "plugins" /\ f.said = Calls!UNSET /\ f.backup = Top.backup
  BY <1>1 DEF a, b, c, d, e, g, Frame
<1> HIDE DEF f
<1>11. /\ CountOK' /\ FramesOK' /\ SavedOK' /\ count' \in 0 .. MaxCalls
       /\ stack' \in Seq(Frame) /\ Depth' = Depth /\ Depth' <= MaxCalls
       /\ Top' = f /\ stack' # <<>>
  BY <1>1, <1>3, <1>9, <1>10, TopChanges DEF PluginReturns
<1> QED BY <1>10, <1>11 DEF IInv, TypeOK, GlobalsBelong, PluginReturns

(* What the second phase begins with.                                      *)
LEMMA PostFrame ==
  ASSUME NEW f \in Frame, NEW status \in Calls!Result, NEW ret \in Calls!Value
  PROVE  LET g == PostPhase(f, status, ret)
         IN  /\ g \in Frame /\ g.at = "plugins" /\ g.phase = "post" /\ g.i = 1
             /\ g.fn = f.fn /\ g.said = f.said /\ g.heard = f.heard
             /\ g.backup = f.backup /\ g.status = status /\ g.orig_ret = ret
             /\ g.override_ret = Calls!Init0 /\ g.prev_mres = Calls!UNSET
<1> DEFINE a == [f EXCEPT !.at = "plugins"]
           b == [a EXCEPT !.phase = "post"]
           c == [b EXCEPT !.i = 1]
           d == [c EXCEPT !.prev_mres = Calls!UNSET]
           e == [d EXCEPT !.override_ret = Calls!Init0]
           h == [e EXCEPT !.status = status]
           g == [h EXCEPT !.orig_ret = ret]
<1>1. /\ Calls!UNSET \in Calls!Result /\ Calls!Init0 \in Calls!Value
      /\ 1 \in 1 .. NPlugins + 1 /\ "post" \in Calls!Phase
  BY HooksAssumption DEF Calls!Result, Calls!Init0, Calls!Value, Calls!Phase
<1>2. g = PostPhase(f, status, ret)
  BY DEF PostPhase
<1>3. /\ g.at = "plugins" /\ g.phase = "post" /\ g.i = 1
      /\ g.fn = f.fn /\ g.said = f.said /\ g.heard = f.heard
      /\ g.backup = f.backup /\ g.status = status /\ g.orig_ret = ret
      /\ g.override_ret = Calls!Init0 /\ g.prev_mres = Calls!UNSET
  BY DEF Frame
<1> HIDE DEF Calls!UNSET
<1>4. a \in Frame
  BY FrameSet
<1> HIDE DEF a
<1>5. b \in Frame
  BY <1>1, <1>4, FrameSet
<1> HIDE DEF b
<1>6. c \in Frame
  BY <1>1, <1>5, FrameSet
<1> HIDE DEF c
<1>7. d \in Frame
  BY <1>1, <1>6, FrameSet
<1> HIDE DEF d
<1>8. e \in Frame
  BY <1>1, <1>7, FrameSet
<1> HIDE DEF e
<1>9. h \in Frame
  BY <1>8, FrameSet
<1> HIDE DEF h
<1>10. g \in Frame
  BY <1>9, FrameSet
<1> HIDE DEF g
<1> QED BY <1>2, <1>3, <1>10

LEMMA CallRoutineKeeps ==
  ASSUME IInv, CallRoutine
  PROVE  IInv'
<1>1. /\ stack # <<>> /\ Top.at = "plugins" /\ Top \in Frame /\ Depth \in 1 .. MaxCalls
      /\ Top.said = Calls!UNSET
  BY TopSet DEF IInv, TypeOK, CallRoutine, Between, FramesOK, FrameOK, Top
<1> DEFINE called == Top.status # Calls!SUPERCEDE /\ Routine[Top.fn] = "there"
           super == Top.status = Calls!SUPERCEDE
           a == [Top EXCEPT !.at = "routine"]
           g == [a EXCEPT !.i = NPlugins + 1]
           status == IF super THEN Top.status
                     ELSE IF Routine[Top.fn] = "missing" THEN Calls!UNSET ELSE Top.status
           ret == IF super THEN Top.override_ret ELSE Top.orig_ret
           f == IF called THEN g ELSE PostPhase(Top, status, ret)
<1>2. Becomes(f) /\ count' = IF called THEN count - 1 ELSE count
  BY <1>1 DEF CallRoutine, Frame
<1>3. status \in Calls!Result /\ ret \in Calls!Value
  BY <1>1 DEF Frame, Calls!Result
<1>4. g \in Frame /\ g.at = "routine" /\ g.backup = Top.backup /\ g.said = Top.said
  <2>1. a \in Frame /\ a.backup = Top.backup /\ a.said = Top.said /\ a.at = "routine"
    BY <1>1, FrameSet DEF Frame
  <2> HIDE DEF a
  <2>2. NPlugins + 1 \in 1 .. NPlugins + 1
    BY HooksAssumption
  <2> QED BY <2>1, <2>2, FrameSet DEF Frame
<1> HIDE DEF g, status, ret
<1>5. /\ f \in Frame /\ f.at = (IF called THEN "routine" ELSE "plugins")
      /\ f.backup = Top.backup /\ f.said = Top.said
  BY <1>1, <1>3, <1>4, PostFrame
<1> HIDE DEF f
<1>6. /\ CountOK' /\ FramesOK' /\ SavedOK' /\ count' \in 0 .. MaxCalls
      /\ stack' \in Seq(Frame) /\ Depth' = Depth /\ Depth' <= MaxCalls
      /\ Top' = f /\ stack' # <<>>
  BY <1>1, <1>2, <1>5, TopChanges
<1>7. globals' \in Globals
  BY <1>1 DEF CallRoutine, IInv, TypeOK, Globals
<1> QED BY <1>5, <1>6, <1>7 DEF IInv, TypeOK, GlobalsBelong, CallRoutine

LEMMA RoutineReturnsKeeps ==
  ASSUME IInv, RoutineReturns
  PROVE  IInv'
<1>1. /\ stack # <<>> /\ Top.at = "routine" /\ Top \in Frame /\ Top.said = Calls!UNSET
      /\ Top.status \in Calls!Result
  BY TopSet DEF IInv, TypeOK, RoutineReturns, FramesOK, FrameOK, Top, Frame
<1> DEFINE f == PostPhase(Top, Top.status, Calls!RoutineValue)
<1>2. Calls!RoutineValue \in Calls!Value
  BY HooksAssumption DEF Calls!RoutineValue, Calls!Value
<1>3. Becomes(f) /\ count' = count + 1
  BY DEF RoutineReturns
<1>4. f \in Frame /\ f.at = "plugins" /\ f.backup = Top.backup /\ f.said = Top.said
  BY <1>1, <1>2, PostFrame
<1> HIDE DEF f
<1>5. /\ CountOK' /\ FramesOK' /\ SavedOK' /\ count' \in 0 .. MaxCalls
      /\ stack' \in Seq(Frame) /\ Depth' = Depth /\ Depth' <= MaxCalls
      /\ Top' = f /\ stack' # <<>>
  BY <1>1, <1>3, <1>4, TopChanges
<1> QED BY <1>4, <1>5 DEF IInv, TypeOK, GlobalsBelong, RoutineReturns

LEMMA ReturnKeeps ==
  ASSUME IInv, Return
  PROVE  IInv'
<1> DEFINE d == Len(stack)
<1>1. /\ d \in Nat /\ d > 0 /\ d = Depth /\ stack # <<>> /\ stack \in Seq(Frame)
      /\ Top = stack[d] /\ Top.at = "plugins" /\ Top \in Frame
  BY TopSet DEF IInv, TypeOK, Return, Between, Depth, Top
<1>2. /\ stack' \in Seq(Frame) /\ Len(stack') = d - 1
      /\ \A k \in 1 .. d - 1 : stack'[k] = stack[k]
  BY <1>1, Popped DEF Return, Below, Depth
<1>3. Depth' = d - 1 /\ (stack' # <<>> => Top' = stack[d - 1] /\ d - 1 \in 1 .. d - 1)
  BY <1>1, <1>2 DEF Depth, Top
<1>4. Counted(stack') = Counted(stack) \ {d} /\ d \in Counted(stack)
  BY <1>1, <1>2 DEF Counted
<1>5. CountOK'
  BY <1>1, <1>4, CountsTwo DEF Return, CountOK, IInv
<1>6. \A k \in 1 .. d - 1 : stack[k].at # "routine" => count - 1 > 0
  <2>1. \A k \in 1 .. d - 1 : stack[k].at # "routine" => k \in Counted(stack) \ {d}
    BY <1>1 DEF Counted
  <2>2. count \in Nat /\ count = Cardinality(Counted(stack))
    BY HooksAssumption DEF IInv, TypeOK, CountOK
  <2>3. \A k \in Counted(stack) \ {d} : Cardinality(Counted(stack)) > 1
    BY <1>1, <1>4, CountsTwo
  <2> HIDE DEF d
  <2> QED BY <2>1, <2>2, <2>3
<1>7. count - 1 > 0 => Top.backup \in Globals
  <2> SUFFICES ASSUME count - 1 > 0, Top.backup \notin Globals PROVE FALSE
    OBVIOUS
  <2>1. \A k \in 1 .. d - 1 : stack[k].at = "routine"
    BY <1>1 DEF IInv, FramesOK, FrameOK
  <2>2. Counted(stack) \ {d} = {}
    BY <1>1, <2>1 DEF Counted
  <2>3. count - 1 = 0
    BY <1>1, <1>4, <2>2, CountsTwo, FS_EmptySet DEF IInv, CountOK
  <2> QED BY <2>3
<1>8. \A k \in 1 .. d - 1 : FrameOK(k) /\ (stack[k].at = "hook" => Belongs(stack[k + 1].backup, k))
  BY <1>1 DEF IInv, FramesOK, SavedOK
<1> HIDE DEF d
<1>9. FramesOK'
  <2> SUFFICES ASSUME NEW k \in 1 .. d - 1 PROVE FrameOK(k)'
    BY <1>3 DEF FramesOK
  <2>1. FrameOK(k) /\ stack'[k] = stack[k] /\ \A j \in 1 .. k - 1 : stack'[j] = stack[j]
    BY <1>1, <1>2, <1>8
  <2>2. k < Depth /\ (k < Depth' => k < Depth)
    BY <1>1, <1>3
  <2> QED BY <2>1, <2>2 DEF FrameOK, Globals
<1>10. SavedOK'
  <2> SUFFICES ASSUME NEW k \in 1 .. (d - 1) - 1, stack[k].at = "hook"
               PROVE  Belongs(stack[k + 1].backup, k)'
    BY <1>1, <1>2, <1>3 DEF SavedOK
  <2>1. stack'[k] = stack[k] /\ stack'[k + 1] = stack[k + 1] /\ Belongs(stack[k + 1].backup, k)
    BY <1>1, <1>2, <1>8
  <2> QED BY <2>1 DEF Belongs, Decisive
<1>11. GlobalsBelong'
  <2> SUFFICES ASSUME stack' # <<>>, NEW k \in Nat, k = d - 1, stack[k].at = "hook"
               PROVE  Belongs(globals, k)'
    BY <1>1, <1>2, <1>3 DEF GlobalsBelong, Belongs
  <2>1. k \in 1 .. d - 1 /\ stack'[k] = stack[k]
    BY <1>1, <1>2, <1>3
  <2>2. count - 1 > 0
    BY <1>6, <2>1
  <2>3. globals' = Top.backup /\ Top = stack[k + 1]
    BY <1>1, <2>2 DEF Return
  <2>4. Belongs(stack[k + 1].backup, k)
    BY <1>8, <2>1
  <2> QED BY <2>1, <2>3, <2>4 DEF Belongs, Decisive
<1>12. globals' \in Globals
  <2>1. CASE count - 1 > 0
    BY <1>7, <2>1 DEF Return
  <2>2. CASE ~(count - 1 > 0)
    <3>1. globals' = Forgotten(globals) /\ globals \in Globals
      BY <2>2 DEF Return, IInv, TypeOK
    <3> DEFINE x == IF globals.orig_ret = Depth THEN 0 ELSE globals.orig_ret
               y == IF globals.override_ret = Depth THEN 0 ELSE globals.override_ret
               g == [globals EXCEPT !.orig_ret = x]
    <3>2. x \in 0 .. MaxCalls /\ y \in 0 .. MaxCalls
      BY <3>1, HooksAssumption DEF Globals
    <3>3. Forgotten(globals) = [g EXCEPT !.override_ret = y]
      BY <3>1 DEF Forgotten, Globals
    <3> HIDE DEF x, y
    <3>4. g \in Globals
      BY <3>1, <3>2 DEF Globals
    <3> HIDE DEF g
    <3> QED BY <3>1, <3>2, <3>3, <3>4 DEF Globals
  <2> QED BY <2>1, <2>2
<1>13. answer' \in Calls!Value
  BY <1>1 DEF Return, Frame
<1>14. TypeOK'
  <2>1. Depth' \in Nat /\ Depth' <= MaxCalls
    BY <1>1, <1>3, HooksAssumption DEF IInv, TypeOK
  <2>2. count' \in 0 .. MaxCalls
    BY <1>2, <1>5, <2>1, Finite, HooksAssumption DEF CountOK, Depth
  <2> QED BY <1>2, <1>12, <1>13, <2>1, <2>2 DEF Return, TypeOK, IInv
<1> QED BY <1>5, <1>9, <1>10, <1>11, <1>14 DEF IInv

LEMMA SwitchKeeps ==
  ASSUME IInv, NEW i \in Pausable, Switch(i)
  PROVE  IInv'
BY HooksAssumption DEF Switch, IInv, TypeOK, CountOK, FramesOK, FrameOK, SavedOK, Belongs,
  GlobalsBelong, Depth, Top, Globals

LEMMA StepKeeps == IInv /\ [Next]_vars => IInv'
<1> SUFFICES ASSUME IInv, [Next]_vars PROVE IInv'
  OBVIOUS
<1>1. CASE UNCHANGED vars
  BY <1>1 DEF vars, IInv, TypeOK, CountOK, FramesOK, FrameOK, SavedOK, Belongs,
    GlobalsBelong, Depth, Top, Globals
<1>2. CASE Next
  BY <1>2, SetupKeeps, CallPluginKeeps, SetResultKeeps, PluginReturnsKeeps, CallRoutineKeeps,
    RoutineReturnsKeeps, ReturnKeeps, SwitchKeeps DEF Next
<1> QED BY <1>1, <1>2

LEMMA AlwaysIInv == Spec => []IInv
<1> QED BY InitKeeps, StepKeeps, PTL DEF Spec

(* The type invariant, for any number of plugins and any depth of calls:   *)
(* in particular RETURN_API never puts back a copy that was not made.      *)
THEOREM TypeCorrect == Spec => []TypeOK
<1>1. IInv => TypeOK
  BY DEF IInv
<1> QED BY <1>1, AlwaysIInv, PTL

(* A hook finds in PublicMetaGlobals what its own call has put there,      *)
(* however many calls were made and however deep since it was called.      *)
THEOREM GlobalsAreOwn == Spec => []GlobalsBelong
<1>1. IInv => GlobalsBelong
  BY DEF IInv
<1> QED BY <1>1, AlwaysIInv, PTL

-----------------------------------------------------------------------------
(* The values that the hooks of a call give. *)

LEMMA Greatest ==
  ASSUME NEW n \in Nat, NEW T \in SUBSET (1 .. n), T # {}
  PROVE  \E k \in T : \A j \in T : j <= k
<1> DEFINE R == OpToRel(<, Nat)
           U == {n - k : k \in T}
<1>1. \A x, y \in Nat : x < y => <<x, y>> \in R
  BY DEF OpToRel
<1>2. IsWellFoundedOn(R, Nat)
  BY NatLessThanWellFounded
<1> HIDE DEF R
<1>3. U \subseteq Nat /\ U # {}
  <2>1. \A k \in T : k \in Int /\ n - k \in Nat
    OBVIOUS
  <2>2. U \subseteq Nat
    BY <2>1
  <2>3. PICK k \in T : TRUE
    OBVIOUS
  <2>4. n - k \in U
    BY <2>3
  <2> QED BY <2>2, <2>4
<1> HIDE DEF U
<1>4. PICK x \in U : \A y \in U : <<y, x>> \notin R
  BY <1>2, <1>3, WFMin
<1>5. \A y \in U : ~(y < x)
  BY <1>1, <1>3, <1>4
<1>6. PICK k \in T : x = n - k
  BY <1>4 DEF U
<1>7. \A j \in T : n - j \in U
  BY DEF U
<1> QED BY <1>5, <1>6, <1>7

(* One more hook has been heard.                                           *)
LEMMA LastHeard ==
  ASSUME NEW c, NEW d, c.heard \in Seq(Calls!Answer), NEW a \in Calls!Answer,
         d.heard = Append(c.heard, a), d.fn = c.fn
  PROVE  /\ Calls!Superceded(d) <=>
              Calls!Superceded(c) \/ (a.phase = "pre" /\ a.result = Calls!SUPERCEDE)
         /\ Calls!Regular(d) =>
              /\ Calls!Regular(c)
              /\ a.phase = "pre" => a.result # Calls!OVERRIDE
              /\ a.phase = "post" => a.result # Calls!SUPERCEDE
              /\ a.phase = "post" /\ a.result = Calls!OVERRIDE => ~Calls!Superceded(d)
         /\ Calls!Gives(a) =>
              Calls!DocumentedAnswer(d) = Calls!HookValue(a.phase, a.plugin)
         /\ ~Calls!Gives(a) => Calls!DocumentedAnswer(d) = Calls!DocumentedAnswer(c)
<1> DEFINE n == Len(c.heard)
           s == c.heard
           t == d.heard
           giving(x) == {k \in 1 .. Len(x) : Calls!Gives(x[k])}
           last(x) == CHOOSE k \in giving(x) : \A j \in giving(x) : j <= k
<1>1. /\ n \in Nat /\ Len(t) = n + 1 /\ t[n + 1] = a
      /\ \A k \in 1 .. n : t[k] = s[k]
  OBVIOUS
<1>2. /\ \A x : Calls!Superceded(x) <=>
           \E k \in 1 .. Len(x.heard) : /\ x.heard[k].phase = "pre"
                                       /\ x.heard[k].result = Calls!SUPERCEDE
      /\ Len(s) = n
  BY DEF Calls!Superceded
<1>3. \A x : Calls!DocumentedAnswer(x) =
        IF giving(x.heard) # {}
        THEN Calls!HookValue(x.heard[last(x.heard)].phase, x.heard[last(x.heard)].plugin)
        ELSE IF Routine[x.fn] = "there" THEN Calls!RoutineValue ELSE Calls!Init0
  BY DEF Calls!DocumentedAnswer
<1> HIDE DEF n
<1>4. Calls!Superceded(d) <=>
        Calls!Superceded(c) \/ (a.phase = "pre" /\ a.result = Calls!SUPERCEDE)
  <2>1. n + 1 \in 1 .. Len(t) /\ \A k \in 1 .. n : k \in 1 .. Len(t)
    BY <1>1
  <2>2. \A k \in 1 .. Len(t) : k \in 1 .. n \/ k = n + 1
    BY <1>1
  <2> DEFINE Stops(x) == x.phase = "pre" /\ x.result = Calls!SUPERCEDE
  <2>3. Calls!Superceded(d) <=> \E k \in 1 .. Len(t) : Stops(t[k])
    BY <1>2
  <2>4. Calls!Superceded(c) <=> \E k \in 1 .. n : Stops(s[k])
    BY <1>2
  <2> HIDE DEF s, t, Stops
  <2>5. Calls!Superceded(d) <=> Calls!Superceded(c) \/ Stops(a)
    BY <1>1, <2>1, <2>2, <2>3, <2>4
  <2> QED BY <2>5 DEF Stops
<1>5. ASSUME Calls!Regular(d)
      PROVE  /\ Calls!Regular(c)
             /\ a.phase = "pre" => a.result # Calls!OVERRIDE
             /\ a.phase = "post" => a.result # Calls!SUPERCEDE
             /\ a.phase = "post" /\ a.result = Calls!OVERRIDE => ~Calls!Superceded(d)
  <2>1. n + 1 \in 1 .. Len(t) /\ \A k \in 1 .. n : k \in 1 .. Len(t)
    BY <1>1
  <2> QED BY <1>1, <1>2, <1>4, <1>5, <2>1 DEF Calls!Regular
<1>6. /\ \A k \in 1 .. n : k \in giving(t) <=> k \in giving(s)
      /\ n + 1 \in giving(t) <=> Calls!Gives(a)
      /\ giving(t) \subseteq 1 .. n + 1 /\ giving(s) \subseteq 1 .. n
  BY <1>1, <1>2
<1>7. ASSUME Calls!Gives(a)
      PROVE  Calls!DocumentedAnswer(d) = Calls!HookValue(a.phase, a.plugin)
  <2>1. n + 1 \in giving(t) /\ \A j \in giving(t) : j <= n + 1
    BY <1>1, <1>6, <1>7
  <2> DEFINE m == last(t)
  <2>2. m \in giving(t) /\ \A j \in giving(t) : j <= m
    BY <2>1
  <2>3. giving(t) # {}
    BY <2>1
  <2>4. Calls!DocumentedAnswer(d) = Calls!HookValue(t[m].phase, t[m].plugin)
    BY <1>3, <2>3
  <2>5. m = n + 1
    <3> HIDE DEF m
    <3>1. m <= n + 1 /\ n + 1 <= m /\ m \in 1 .. n + 1
      BY <1>6, <2>1, <2>2
    <3> QED BY <1>1, <3>1
  <2> HIDE DEF m
  <2> QED BY <1>1, <2>4, <2>5
<1>8. ASSUME ~Calls!Gives(a)
      PROVE  Calls!DocumentedAnswer(d) = Calls!DocumentedAnswer(c)
  <2>1. giving(t) = giving(s)
    BY <1>1, <1>6, <1>8
  <2> DEFINE m == last(s)
  <2>2. last(t) = m
    BY <2>1
  <2>3. CASE giving(s) # {}
    <3>1. \E k \in giving(s) : \A j \in giving(s) : j <= k
      BY <1>1, <1>6, <2>3, Greatest
    <3>2. m \in 1 .. n
      BY <1>6, <3>1
    <3>3. Calls!DocumentedAnswer(c) = Calls!HookValue(s[m].phase, s[m].plugin)
      BY <1>3, <2>3
    <3>4. Calls!DocumentedAnswer(d) = Calls!HookValue(t[m].phase, t[m].plugin)
      BY <1>3, <2>1, <2>2, <2>3
    <3>5. t[m] = s[m]
      BY <1>1, <3>2
    <3> QED BY <3>3, <3>4, <3>5
  <2>4. CASE giving(s) = {}
    BY <1>3, <2>1, <2>4
  <2> QED BY <2>3, <2>4
<1> QED BY <1>4, <1>5, <1>7, <1>8

(* A call whose hooks have given no value.                                 *)
LEMMA NothingGiven ==
  ASSUME NEW c, \A k \in 1 .. Len(c.heard) : c.heard[k].phase = "pre",
         Calls!Regular(c), ~Calls!Superceded(c)
  PROVE  Calls!DocumentedAnswer(c) =
           IF Routine[c.fn] = "there" THEN Calls!RoutineValue ELSE Calls!Init0
<1>1. \A k \in 1 .. Len(c.heard) : ~Calls!Gives(c.heard[k])
  BY DEF Calls!Gives, Calls!Regular, Calls!Superceded
<1> QED BY <1>1 DEF Calls!DocumentedAnswer

(* Fits, for calls that hooks have said the same of.                       *)
LEMMA FitsSame ==
  ASSUME NEW f \in Frame, NEW g \in Frame, Fits(f), g.at = "hook",
         g.fn = f.fn, g.phase = f.phase, g.status = f.status, g.heard = f.heard,
         g.orig_ret = f.orig_ret, g.override_ret = f.override_ret
  PROVE  Fits(g)
<1> DEFINE c == AsCall(f)
           d == AsCall(g)
<1>1. c.heard = d.heard /\ c.fn = d.fn
  BY DEF AsCall
<1> HIDE DEF c, d
<1>2. /\ Calls!Superceded(d) <=> Calls!Superceded(c)
      /\ Calls!DocumentedAnswer(d) = Calls!DocumentedAnswer(c)
  BY <1>1 DEF Calls!Superceded, Calls!DocumentedAnswer
<1>3. Calls!Regular(d) <=> Calls!Regular(c)
  BY <1>1, <1>2 DEF Calls!Regular
<1>4. /\ PreFits(f) => PreFits(g)
      /\ PostFits(f) => PostFits(g)
  BY <1>1, <1>2, <1>3 DEF PreFits, PostFits, Heard, Overridden, c, d
<1> QED BY <1>4 DEF Fits

(* The last call of those under way fits, so all do.                       *)
LEMMA ValuesTop ==
  ASSUME IInv, ValuesOK, stack # <<>>, NEW f \in Frame, Becomes(f), Fits(f)
  PROVE  ValuesOK'
<1>1. /\ Depth \in Nat /\ Depth' = Depth /\ stack'[Depth] = f
      /\ \A k \in 1 .. Depth - 1 : stack'[k] = stack[k]
  BY TopSet DEF Depth, IInv, TypeOK
<1> HIDE DEF Depth
<1>2. \A k \in 1 .. Depth : Fits(stack'[k])
  BY <1>1 DEF ValuesOK
<1> QED BY <1>1, <1>2 DEF ValuesOK, Fits, PreFits, PostFits, Heard, Overridden

(* A hook before the routine has returned.                                 *)
LEMMA PreHeard ==
  ASSUME NEW f \in Frame, NEW g \in Frame, f.phase = "pre", PreFits(f),
         NEW i \in 1 .. NPlugins, NEW m \in Calls!Result,
         g.fn = f.fn, g.orig_ret = f.orig_ret,
         g.heard = Append(f.heard, [phase |-> "pre", plugin |-> i, result |-> m]),
         g.status = IF m > f.status THEN m ELSE f.status,
         g.override_ret = IF m = Calls!SUPERCEDE
                          THEN Calls!HookValue("pre", i) ELSE f.override_ret
  PROVE  PreFits(g)
<1> DEFINE c == AsCall(f)
           d == AsCall(g)
           a == [phase |-> "pre", plugin |-> i, result |-> m]
<1>1. /\ c.heard = f.heard /\ c.fn = f.fn /\ d.heard = g.heard /\ d.fn = g.fn
      /\ f.heard \in Seq(Calls!Answer) /\ f.status \in 0 .. 4 /\ m \in 0 .. 4
  BY DEF AsCall, Frame, Calls!Result
<1>2. a \in Calls!Answer /\ a.phase = "pre" /\ a.plugin = i /\ a.result = m
  BY DEF Calls!Answer, Calls!Phase
<1>3. Heard(g, "pre")
  BY <1>1, <1>2 DEF PreFits, Heard
<1> HIDE DEF c, d, a
<1>4. /\ Calls!Superceded(d) <=> Calls!Superceded(c) \/ m = 4
      /\ Calls!Regular(d) => Calls!Regular(c) /\ m # 3
      /\ Calls!Gives(a) => Calls!DocumentedAnswer(d) = Calls!HookValue("pre", i)
      /\ ~Calls!Gives(a) => Calls!DocumentedAnswer(d) = Calls!DocumentedAnswer(c)
  <2>1. d.heard = Append(c.heard, a) /\ d.fn = c.fn /\ c.heard \in Seq(Calls!Answer)
    BY <1>1 DEF a
  <2>2. /\ Calls!Superceded(d) <=>
              Calls!Superceded(c) \/ (a.phase = "pre" /\ a.result = Calls!SUPERCEDE)
        /\ Calls!Regular(d) =>
             /\ Calls!Regular(c)
             /\ a.phase = "pre" => a.result # Calls!OVERRIDE
             /\ a.phase = "post" => a.result # Calls!SUPERCEDE
             /\ a.phase = "post" /\ a.result = Calls!OVERRIDE => ~Calls!Superceded(d)
        /\ Calls!Gives(a) =>
             Calls!DocumentedAnswer(d) = Calls!HookValue(a.phase, a.plugin)
        /\ ~Calls!Gives(a) => Calls!DocumentedAnswer(d) = Calls!DocumentedAnswer(c)
    BY <1>2, <2>1, LastHeard
  <2> QED BY <1>2, <2>2
<1>5. Calls!Gives(a) <=> m \in {3, 4}
  BY <1>2 DEF Calls!Gives
<1>6. /\ f.orig_ret = Calls!Init0 /\ (f.status = 4 <=> Calls!Superceded(c))
      /\ Calls!Regular(c) => IF f.status = 4
                             THEN f.override_ret = Calls!DocumentedAnswer(c)
                             ELSE f.status < 3
  BY DEF PreFits, c
<1>7. g.status = 4 <=> Calls!Superceded(d)
  BY <1>1, <1>4, <1>6
<1>8. ASSUME Calls!Regular(d)
      PROVE  IF g.status = 4 THEN g.override_ret = Calls!DocumentedAnswer(d)
             ELSE g.status < 3
  <2>1. CASE m = 4
    BY <1>1, <1>4, <1>5, <2>1
  <2>2. CASE m < 3
    BY <1>1, <1>4, <1>5, <1>6, <1>8, <2>2
  <2> QED BY <1>1, <1>4, <1>8, <2>1, <2>2
<1> QED BY <1>3, <1>6, <1>7, <1>8 DEF PreFits, d

(* A hook after the routine has returned.                                  *)
LEMMA PostHeard ==
  ASSUME NEW f \in Frame, NEW g \in Frame, f.phase = "post", PostFits(f),
         NEW i \in 1 .. NPlugins, NEW m \in Calls!Result,
         g.fn = f.fn, g.orig_ret = f.orig_ret,
         g.heard = Append(f.heard, [phase |-> "post", plugin |-> i, result |-> m]),
         g.status = IF m > f.status THEN m ELSE f.status,
         g.override_ret = IF m = Calls!OVERRIDE
                          THEN Calls!HookValue("post", i) ELSE f.override_ret
  PROVE  PostFits(g)
<1> DEFINE c == AsCall(f)
           d == AsCall(g)
           a == [phase |-> "post", plugin |-> i, result |-> m]
<1>1. /\ c.heard = f.heard /\ c.fn = f.fn /\ d.heard = g.heard /\ d.fn = g.fn
      /\ f.heard \in Seq(Calls!Answer) /\ f.status \in 0 .. 4 /\ m \in 0 .. 4
  BY DEF AsCall, Frame, Calls!Result
<1>2. a \in Calls!Answer /\ a.phase = "post" /\ a.plugin = i /\ a.result = m
  BY DEF Calls!Answer, Calls!Phase
<1> HIDE DEF c, d, a
<1>3. /\ Calls!Superceded(d) <=> Calls!Superceded(c)
      /\ Calls!Regular(d) => /\ Calls!Regular(c) /\ m # 4
                             /\ m = 3 => ~Calls!Superceded(d)
      /\ Calls!Gives(a) => Calls!DocumentedAnswer(d) = Calls!HookValue("post", i)
      /\ ~Calls!Gives(a) => Calls!DocumentedAnswer(d) = Calls!DocumentedAnswer(c)
  <2>1. d.heard = Append(c.heard, a) /\ d.fn = c.fn /\ c.heard \in Seq(Calls!Answer)
    BY <1>1 DEF a
  <2>2. /\ Calls!Superceded(d) <=>
              Calls!Superceded(c) \/ (a.phase = "pre" /\ a.result = Calls!SUPERCEDE)
        /\ Calls!Regular(d) =>
             /\ Calls!Regular(c)
             /\ a.phase = "pre" => a.result # Calls!OVERRIDE
             /\ a.phase = "post" => a.result # Calls!SUPERCEDE
             /\ a.phase = "post" /\ a.result = Calls!OVERRIDE => ~Calls!Superceded(d)
        /\ Calls!Gives(a) =>
             Calls!DocumentedAnswer(d) = Calls!HookValue(a.phase, a.plugin)
        /\ ~Calls!Gives(a) => Calls!DocumentedAnswer(d) = Calls!DocumentedAnswer(c)
    BY <1>2, <2>1, LastHeard
  <2> QED BY <1>2, <2>2
<1>4. Calls!Gives(a) <=> m \in {3, 4}
  BY <1>2 DEF Calls!Gives
<1>5. Calls!Regular(c) =>
        /\ f.status = 4 <=> Calls!Superceded(c)
        /\ (IF f.status = 3 THEN f.override_ret ELSE f.orig_ret) = Calls!DocumentedAnswer(c)
  BY DEF PostFits, Overridden, c
<1>6. ASSUME Calls!Regular(d)
      PROVE  /\ g.status = 4 <=> Calls!Superceded(d)
             /\ (IF g.status = 3 THEN g.override_ret ELSE g.orig_ret)
                  = Calls!DocumentedAnswer(d)
  <2>1. CASE m = 3
    BY <1>1, <1>3, <1>4, <1>5, <1>6, <2>1
  <2>2. CASE m < 3
    BY <1>1, <1>3, <1>4, <1>5, <1>6, <2>2
  <2> QED BY <1>1, <1>3, <1>6, <2>1, <2>2
<1> QED BY <1>6 DEF PostFits, Overridden, d

-----------------------------------------------------------------------------
(* What is kept of the values fits, after each action. *)

LEMMA SetupFits ==
  ASSUME IInv, ValuesOK, NEW fn \in Fn, Setup(fn)
  PROVE  ValuesOK'
<1> DEFINE f == [fn |-> fn, at |-> "plugins", phase |-> "pre", i |-> 1,
                 prev_mres |-> Calls!UNSET, status |-> Calls!UNSET,
                 orig_ret |-> Calls!Init0, override_ret |-> Calls!Init0,
                 backup |-> Saved(globals), said |-> Calls!UNSET, heard |-> <<>>]
           d == Len(stack)
<1>1. f.phase = "pre" /\ f.heard = <<>> /\ f.status = 0 /\ f.at = "plugins"
      /\ f.orig_ret = Calls!Init0
  OBVIOUS
<1>2. stack' = Append(stack, f) /\ stack \in Seq(Frame)
  BY DEF Setup, IInv, TypeOK
<1> HIDE DEF f
<1>3. /\ d \in Nat /\ Len(stack') = d + 1 /\ stack'[d + 1] = f
      /\ \A k \in 1 .. d : stack'[k] = stack[k]
  BY <1>2
<1>4. d = Depth /\ Depth' = d + 1
  BY <1>3 DEF Depth
<1>5. Fits(f)
  <2>1. AsCall(f).heard = <<>>
    BY <1>1 DEF AsCall
  <2> HIDE DEF AsCall
  <2>2. ~Calls!Superceded(AsCall(f))
    BY <2>1 DEF Calls!Superceded
  <2> QED BY <1>1, <2>2 DEF Fits, PreFits, Heard
<1> HIDE DEF d
<1>6. \A k \in 1 .. d + 1 : Fits(stack'[k])
  BY <1>3, <1>4, <1>5 DEF ValuesOK
<1> QED BY <1>4, <1>6 DEF ValuesOK, Fits, PreFits, PostFits, Heard, Overridden

LEMMA TopFits ==
  ASSUME IInv, ValuesOK, stack # <<>>
  PROVE  /\ Top \in Frame /\ Fits(Top) /\ FrameOK(Depth) /\ Top = stack[Depth]
         /\ Depth \in 1 .. MaxCalls
  BY TopSet DEF IInv, TypeOK, ValuesOK, Top, FramesOK

LEMMA CallPluginFits ==
  ASSUME IInv, ValuesOK, NEW phase \in Calls!Phase, CallPlugin(phase)
  PROVE  ValuesOK'
<1>1. stack # <<>> /\ Top \in Frame /\ Fits(Top)
  BY TopFits DEF CallPlugin, Between
<1>2. PICK i \in Waiting(Top) : Becomes([Top EXCEPT !.at = "hook", !.i = i])
  BY DEF CallPlugin
<1> DEFINE a == [Top EXCEPT !.at = "hook"]
           f == [a EXCEPT !.i = i]
<1>3. i \in 1 .. NPlugins + 1
  BY <1>1, HooksAssumption DEF Waiting, Frame
<1>4. a \in Frame
  BY <1>1, FrameSet
<1>5. f \in Frame
  <2> HIDE DEF a
  <2> QED BY <1>3, <1>4, FrameSet
<1>6. /\ f = [Top EXCEPT !.at = "hook", !.i = i] /\ f.at = "hook"
      /\ f.fn = Top.fn /\ f.phase = Top.phase /\ f.status = Top.status
      /\ f.heard = Top.heard /\ f.orig_ret = Top.orig_ret
      /\ f.override_ret = Top.override_ret
  BY <1>1 DEF Frame
<1> HIDE DEF f
<1>7. Fits(f)
  BY <1>1, <1>5, <1>6, FitsSame
<1>8. Becomes(f)
  BY <1>2, <1>6
<1> QED BY <1>1, <1>5, <1>7, <1>8, ValuesTop

LEMMA SetResultFits ==
  ASSUME IInv, ValuesOK, NEW r \in Results, SetResult(r)
  PROVE  ValuesOK'
<1>1. /\ stack # <<>> /\ Top \in Frame /\ Fits(Top) /\ Top.at = "hook"
      /\ r \in Calls!Result
  BY TopFits, HooksAssumption DEF SetResult
<1> DEFINE f == [Top EXCEPT !.said = r]
<1>2. /\ f \in Frame /\ f.at = "hook"
      /\ f.fn = Top.fn /\ f.phase = Top.phase /\ f.status = Top.status
      /\ f.heard = Top.heard /\ f.orig_ret = Top.orig_ret
      /\ f.override_ret = Top.override_ret
  BY <1>1, FrameSet DEF Frame
<1>3. Becomes(f)
  BY DEF SetResult
<1> HIDE DEF f
<1>4. Fits(f)
  BY <1>1, <1>2, FitsSame
<1> QED BY <1>1, <1>2, <1>3, <1>4, ValuesTop

(* The call after a hook has returned, whose answer has been read from the *)
(* globals.                                                                *)
LEMMA ReturnedFrame ==
  ASSUME IInv, ValuesOK, PluginReturns
  PROVE  /\ stack # <<>> /\ Top \in Frame /\ Top.at = "hook" /\ Top.i \in 1 .. NPlugins
         /\ Top.said \in Calls!Result /\ Fits(Top)
         /\ \E f \in Frame :
              /\ Becomes(f) /\ f.at = "plugins" /\ f.i = Top.i + 1
              /\ f.fn = Top.fn /\ f.phase = Top.phase /\ f.orig_ret = Top.orig_ret
              /\ f.said = Calls!UNSET
              /\ f.heard = Append(Top.heard, [phase |-> Top.phase, plugin |-> Top.i,
                                              result |-> Top.said])
              /\ f.status = IF Top.said > Top.status THEN Top.said ELSE Top.status
              /\ f.override_ret = IF Top.said = Decisive(Top.phase)
                                  THEN Calls!HookValue(Top.phase, Top.i)
                                  ELSE Top.override_ret
<1>1. /\ stack # <<>> /\ Top \in Frame /\ Top.at = "hook" /\ Fits(Top)
      /\ Top.i <= NPlugins
  BY TopFits DEF PluginReturns, FrameOK
<1>2. Top.i \in 1 .. NPlugins /\ Top.said \in Calls!Result
  BY <1>1, HooksAssumption DEF Frame
<1> DEFINE m == globals.mres
           f == [Top EXCEPT
            !.at = "plugins", !.i = @ + 1, !.said = Calls!UNSET,
            !.status = IF m > @ THEN m ELSE @,
            !.prev_mres = m,
            !.override_ret = IF m = Decisive(Top.phase)
                             THEN Calls!HookValue(Top.phase, Top.i) ELSE @,
            !.heard = Append(@, [phase |-> Top.phase, plugin |-> Top.i,
                                 result |-> Top.said])]
<1>3. m = Top.said
  BY <1>1 DEF IInv, GlobalsBelong
<1>4. Becomes(f)
  BY DEF PluginReturns
<1>5. f \in Frame
  <2>1. IInv'
    BY PluginReturnsKeeps
  <2>2. Top' \in Frame /\ Top' = f
    <3> HIDE DEF f
    <3>1. stack' = [stack EXCEPT ![Depth] = f]
      BY <1>4 DEF Becomes
    <3>2. stack \in Seq(Frame) /\ Depth = Len(stack) /\ Depth \in 1 .. Depth
      BY <1>1, TopSet DEF IInv, TypeOK, Depth
    <3>3. Len(stack') = Depth /\ stack'[Depth] = f
      BY <3>1, <3>2
    <3>4. stack' \in Seq(Frame)
      BY <2>1 DEF IInv, TypeOK
    <3> QED BY <3>2, <3>3, <3>4 DEF Top, Depth
  <2> QED BY <2>2
<1>6. /\ f.at = "plugins" /\ f.i = Top.i + 1
      /\ f.fn = Top.fn /\ f.phase = Top.phase /\ f.orig_ret = Top.orig_ret
      /\ f.said = Calls!UNSET
      /\ f.heard = Append(Top.heard, [phase |-> Top.phase, plugin |-> Top.i,
                                      result |-> Top.said])
      /\ f.status = IF m > Top.status THEN m ELSE Top.status
      /\ f.override_ret = IF m = Decisive(Top.phase)
                          THEN Calls!HookValue(Top.phase, Top.i)
                          ELSE Top.override_ret
  BY <1>1 DEF Frame
<1> HIDE DEF f, m
<1> QED BY <1>1, <1>2, <1>3, <1>4, <1>5, <1>6

LEMMA PluginReturnsFits ==
  ASSUME IInv, ValuesOK, PluginReturns
  PROVE  ValuesOK'
<1>1. /\ stack # <<>> /\ Top \in Frame /\ Fits(Top) /\ Top.i \in 1 .. NPlugins
      /\ Top.said \in Calls!Result /\ Top.phase \in {"pre", "post"}
  BY ReturnedFrame DEF Frame, Calls!Phase
<1>2. PICK f \in Frame :
         /\ Becomes(f) /\ f.at = "plugins" /\ f.i = Top.i + 1
         /\ f.fn = Top.fn /\ f.phase = Top.phase /\ f.orig_ret = Top.orig_ret
         /\ f.said = Calls!UNSET
         /\ f.heard = Append(Top.heard, [phase |-> Top.phase, plugin |-> Top.i,
                                         result |-> Top.said])
         /\ f.status = IF Top.said > Top.status THEN Top.said ELSE Top.status
         /\ f.override_ret = IF Top.said = Decisive(Top.phase)
                             THEN Calls!HookValue(Top.phase, Top.i)
                             ELSE Top.override_ret
  BY ReturnedFrame
<1>3. CASE Top.phase = "pre"
  <2>1. PreFits(Top) /\ Decisive(Top.phase) = Calls!SUPERCEDE
    BY <1>1, <1>3 DEF Fits, Decisive
  <2>2. PreFits(f)
    BY <1>1, <1>2, <1>3, <2>1, PreHeard
  <2>3. Fits(f)
    BY <1>2, <1>3, <2>2 DEF Fits
  <2> QED BY <1>1, <1>2, <2>3, ValuesTop
<1>4. CASE Top.phase = "post"
  <2>1. PostFits(Top) /\ Decisive(Top.phase) = Calls!OVERRIDE
    BY <1>1, <1>4 DEF Fits, Decisive
  <2>2. PostFits(f)
    BY <1>1, <1>2, <1>4, <2>1, PostHeard
  <2>3. Fits(f)
    BY <1>2, <1>4, <2>2 DEF Fits
  <2> QED BY <1>1, <1>2, <2>3, ValuesTop
<1> QED BY <1>1, <1>3, <1>4

(* The value that the second phase begins with is the one promised.        *)
LEMMA PostBegins ==
  ASSUME NEW f \in Frame, PreFits(f), NEW status \in Calls!Result, NEW ret \in Calls!Value,
         \/ /\ f.status = Calls!SUPERCEDE
            /\ status = f.status /\ ret = f.override_ret
         \/ /\ f.status # Calls!SUPERCEDE
            /\ status \in {Calls!UNSET, f.status}
            /\ ret = IF Routine[f.fn] = "there" THEN Calls!RoutineValue ELSE f.orig_ret
  PROVE  PostPhase(f, status, ret) \in Frame /\ Fits(PostPhase(f, status, ret))
<1> DEFINE g == PostPhase(f, status, ret)
           c == AsCall(f)
           d == AsCall(g)
<1>1. /\ g \in Frame /\ g.at = "plugins" /\ g.phase = "post" /\ g.fn = f.fn
      /\ g.heard = f.heard /\ g.status = status /\ g.orig_ret = ret
  BY PostFrame
<1> HIDE DEF g
<1>2. c.heard = f.heard /\ d.heard = c.heard /\ c.fn = f.fn /\ d.fn = c.fn
      /\ f.status \in 0 .. 4 /\ status \in 0 .. 4
  BY <1>1 DEF AsCall, Frame, Calls!Result
<1> HIDE DEF c, d
<1>3. /\ Calls!Superceded(d) <=> Calls!Superceded(c)
      /\ Calls!DocumentedAnswer(d) = Calls!DocumentedAnswer(c)
  BY <1>2 DEF Calls!Superceded, Calls!DocumentedAnswer
<1>4. Calls!Regular(d) <=> Calls!Regular(c)
  BY <1>2, <1>3 DEF Calls!Regular
<1>5. /\ \A k \in 1 .. Len(c.heard) : c.heard[k].phase = "pre"
      /\ f.orig_ret = Calls!Init0 /\ (f.status = 4 <=> Calls!Superceded(c))
      /\ Calls!Regular(c) => IF f.status = 4
                             THEN f.override_ret = Calls!DocumentedAnswer(c)
                             ELSE f.status < 3
  BY <1>2 DEF PreFits, Heard, c
<1>6. ASSUME Calls!Regular(d)
      PROVE  /\ g.status = 4 <=> Calls!Superceded(d)
             /\ (IF g.status = 3 THEN g.override_ret ELSE g.orig_ret)
                  = Calls!DocumentedAnswer(d)
  <2>1. CASE f.status = 4
    BY <1>1, <1>2, <1>3, <1>4, <1>5, <1>6, <2>1
  <2>2. CASE f.status # 4
    <3>1. Calls!DocumentedAnswer(c) =
            IF Routine[f.fn] = "there" THEN Calls!RoutineValue ELSE Calls!Init0
      BY <1>2, <1>4, <1>5, <1>6, <2>2, NothingGiven
    <3>2. status < 3 /\ ret = Calls!DocumentedAnswer(c)
      BY <1>4, <1>5, <1>6, <2>2, <3>1
    <3> QED BY <1>1, <1>2, <1>3, <1>5, <2>2, <3>2
  <2> QED BY <2>1, <2>2
<1>7. PostFits(g)
  BY <1>6 DEF PostFits, Overridden, d
<1> QED BY <1>1, <1>7 DEF Fits, g

LEMMA CallRoutineFits ==
  ASSUME IInv, ValuesOK, CallRoutine
  PROVE  ValuesOK'
<1>1. /\ stack # <<>> /\ Top \in Frame /\ Fits(Top) /\ Top.phase = "pre"
      /\ PreFits(Top) /\ Top.status \in Calls!Result
      /\ Top.orig_ret \in Calls!Value /\ Top.override_ret \in Calls!Value
  BY TopFits DEF CallRoutine, Between, Fits, Frame
<1> DEFINE called == Top.status # Calls!SUPERCEDE /\ Routine[Top.fn] = "there"
           status == IF Routine[Top.fn] = "missing" THEN Calls!UNSET ELSE Top.status
           a == [Top EXCEPT !.at = "routine"]
           g == [a EXCEPT !.i = NPlugins + 1]
<1>2. CASE called
  <2>1. g = [Top EXCEPT !.at = "routine", !.i = NPlugins + 1]
    BY <1>1 DEF Frame
  <2>2. Becomes(g)
    BY <1>2, <2>1 DEF CallRoutine
  <2>3. a \in Frame
    BY <1>1, FrameSet
  <2>4. g \in Frame
    <3>1. NPlugins + 1 \in 1 .. NPlugins + 1
      BY HooksAssumption
    <3> HIDE DEF a
    <3> QED BY <2>3, <3>1, FrameSet
  <2>5. /\ g.fn = Top.fn /\ g.phase = "pre" /\ g.status = Top.status
        /\ g.heard = Top.heard /\ g.orig_ret = Top.orig_ret
        /\ g.override_ret = Top.override_ret /\ g.i = NPlugins + 1
    BY <1>1 DEF Frame
  <2> HIDE DEF g
  <2> DEFINE c == AsCall(Top)
             d == AsCall(g)
  <2>6. c.heard = d.heard /\ c.fn = d.fn
    BY <2>5 DEF AsCall
  <2> HIDE DEF c, d
  <2>7. /\ Calls!Superceded(d) <=> Calls!Superceded(c)
        /\ Calls!DocumentedAnswer(d) = Calls!DocumentedAnswer(c)
    BY <2>6 DEF Calls!Superceded, Calls!DocumentedAnswer
  <2>8. Calls!Regular(d) <=> Calls!Regular(c)
    BY <2>6, <2>7 DEF Calls!Regular
  <2>9. PreFits(g)
    BY <1>1, <2>5, <2>7, <2>8 DEF PreFits, Heard, c, d
  <2>10. Fits(g)
    BY <1>2, <2>5, <2>9 DEF Fits
  <2> QED BY <1>1, <2>2, <2>4, <2>10, ValuesTop
<1>3. CASE Top.status = Calls!SUPERCEDE
  <2> DEFINE f == PostPhase(Top, Top.status, Top.override_ret)
  <2>1. Becomes(f)
    BY <1>3 DEF CallRoutine
  <2>2. f \in Frame /\ Fits(f)
    BY <1>1, <1>3, PostBegins
  <2> HIDE DEF f
  <2> QED BY <1>1, <2>1, <2>2, ValuesTop
<1>4. CASE Top.status # Calls!SUPERCEDE /\ Routine[Top.fn] # "there"
  <2> DEFINE f == PostPhase(Top, status, Top.orig_ret)
  <2>1. Becomes(f)
    BY <1>4 DEF CallRoutine
  <2>2. status \in Calls!Result /\ status \in {Calls!UNSET, Top.status}
    BY <1>1 DEF Calls!Result
  <2> HIDE DEF status
  <2>3. f \in Frame /\ Fits(f)
    BY <1>1, <1>4, <2>2, PostBegins
  <2> HIDE DEF f
  <2> QED BY <1>1, <2>1, <2>3, ValuesTop
<1> QED BY <1>2, <1>3, <1>4

LEMMA RoutineReturnsFits ==
  ASSUME IInv, ValuesOK, RoutineReturns
  PROVE  ValuesOK'
<1>1. /\ stack # <<>> /\ Top \in Frame /\ Fits(Top) /\ Top.phase = "pre"
      /\ PreFits(Top) /\ Top.status \in Calls!Result
      /\ Top.status # Calls!SUPERCEDE /\ Routine[Top.fn] = "there"
  BY TopFits DEF RoutineReturns, Fits, Frame
<1> DEFINE f == PostPhase(Top, Top.status, Calls!RoutineValue)
<1>2. Becomes(f)
  BY DEF RoutineReturns
<1>3. Calls!RoutineValue \in Calls!Value
  BY HooksAssumption DEF Calls!RoutineValue, Calls!Value
<1>4. f \in Frame /\ Fits(f)
  BY <1>1, <1>3, PostBegins
<1> HIDE DEF f
<1> QED BY <1>1, <1>2, <1>4, ValuesTop

LEMMA ReturnFits ==
  ASSUME IInv, ValuesOK, Return
  PROVE  ValuesOK'
<1> DEFINE d == Len(stack)
<1>1. d \in Nat /\ d > 0 /\ d = Depth /\ stack # <<>> /\ stack \in Seq(Frame)
  BY TopSet DEF IInv, TypeOK, Return, Between, Depth
<1>2. Len(stack') = d - 1 /\ \A k \in 1 .. d - 1 : stack'[k] = stack[k]
  BY <1>1, Popped DEF Return, Below, Depth
<1>3. Depth' = d - 1
  BY <1>2 DEF Depth
<1> HIDE DEF d
<1>4. \A k \in 1 .. d - 1 : Fits(stack'[k])
  BY <1>1, <1>2 DEF ValuesOK
<1> QED BY <1>3, <1>4 DEF ValuesOK, Fits, PreFits, PostFits, Heard, Overridden

LEMMA StepFits == IInv /\ ValuesOK /\ [Next]_vars => ValuesOK'
<1> SUFFICES ASSUME IInv, ValuesOK, [Next]_vars PROVE ValuesOK'
  OBVIOUS
<1>1. ASSUME UNCHANGED stack PROVE ValuesOK'
  BY <1>1 DEF ValuesOK, Depth, Fits, PreFits, PostFits, Heard, Overridden
<1>2. CASE UNCHANGED vars
  BY <1>1, <1>2 DEF vars
<1>3. CASE Next
  <2>1. ASSUME NEW i \in Pausable, Switch(i) PROVE ValuesOK'
    BY <1>1, <2>1 DEF Switch
  <2> QED BY <1>3, <2>1, SetupFits, CallPluginFits, SetResultFits, PluginReturnsFits,
       CallRoutineFits, RoutineReturnsFits, ReturnFits DEF Next
<1> QED BY <1>2, <1>3

LEMMA AlwaysFits == Spec => [](IInv /\ ValuesOK)
<1>1. Init => ValuesOK
  <2>1. Init => Depth = 0
    BY DEF Init, Depth
  <2> QED BY <2>1 DEF ValuesOK
<1> QED BY <1>1, InitKeeps, StepKeeps, StepFits, PTL DEF Spec

-----------------------------------------------------------------------------
(* The calls under way as HookedCalls sees them. *)

Seen(s) == [k \in 1 .. Len(s) |-> AsCall(s[k])]

LEMMA SeenSeq ==
  ASSUME NEW s \in Seq(Frame)
  PROVE  /\ Seen(s) \in Seq({AsCall(f) : f \in Frame}) /\ Len(Seen(s)) = Len(s)
         /\ \A k \in 1 .. Len(s) : Seen(s)[k] = AsCall(s[k])
         /\ Seen(s) = <<>> <=> s = <<>>
<1> DEFINE n == Len(s)
           C == {AsCall(f) : f \in Frame}
<1>1. n \in Nat /\ \A k \in 1 .. n : s[k] \in Frame
  OBVIOUS
<1>2. \A f \in Frame : AsCall(f) \in C
  OBVIOUS
<1> HIDE DEF C, n, AsCall
<1>3. Seen(s) = [k \in 1 .. n |-> AsCall(s[k])]
  BY DEF Seen, n
<1>4. Seen(s) \in [1 .. n -> C]
  BY <1>1, <1>2, <1>3
<1>5. Seen(s) \in Seq(C) /\ Len(Seen(s)) = n
  BY <1>1, <1>4
<1>6. \A k \in 1 .. n : Seen(s)[k] = AsCall(s[k])
  BY <1>3
<1> QED BY <1>1, <1>5, <1>6 DEF C, n

LEMMA SeenAppend ==
  ASSUME NEW s \in Seq(Frame), NEW f \in Frame
  PROVE  Seen(Append(s, f)) = Append(Seen(s), AsCall(f))
<1> DEFINE n == Len(s)
           C == {AsCall(g) : g \in Frame}
           t == Append(s, f)
           u == Append(Seen(s), AsCall(f))
<1>1. t \in Seq(Frame) /\ Len(t) = n + 1 /\ t[n + 1] = f /\ \A k \in 1 .. n : t[k] = s[k]
  OBVIOUS
<1>2. AsCall(f) \in C
  OBVIOUS
<1>3. Seen(s) \in Seq(C) /\ Len(Seen(s)) = n /\ \A k \in 1 .. n : Seen(s)[k] = AsCall(s[k])
  BY SeenSeq
<1>4. /\ Seen(t) \in Seq(C) /\ Len(Seen(t)) = n + 1
      /\ \A k \in 1 .. n + 1 : Seen(t)[k] = AsCall(t[k])
  <2> HIDE DEF t
  <2> QED BY <1>1, SeenSeq
<1> HIDE DEF C, AsCall
<1>5. /\ u \in Seq(C) /\ Len(u) = n + 1 /\ u[n + 1] = AsCall(f)
      /\ \A k \in 1 .. n : u[k] = AsCall(s[k])
  BY <1>2, <1>3
<1>6. n \in Nat
  OBVIOUS
<1> HIDE DEF n, t, u
<1>7. \A k \in 1 .. n + 1 : Seen(t)[k] = u[k]
  BY <1>1, <1>4, <1>5, <1>6
<1>8. Seen(t) = u
  BY <1>4, <1>5, <1>7, SeqEqual
<1> QED BY <1>8 DEF t, u

LEMMA SeenSet ==
  ASSUME NEW s \in Seq(Frame), s # <<>>, NEW f \in Frame
  PROVE  /\ Seen([s EXCEPT ![Len(s)] = f]) = [Seen(s) EXCEPT ![Len(s)] = AsCall(f)]
<1> DEFINE n == Len(s)
           C == {AsCall(g) : g \in Frame}
           t == [s EXCEPT ![n] = f]
           u == [Seen(s) EXCEPT ![n] = AsCall(f)]
<1>1. /\ n \in Nat /\ n \in 1 .. n /\ t \in Seq(Frame) /\ Len(t) = n
      /\ t[n] = f /\ \A k \in 1 .. n - 1 : t[k] = s[k]
  <2>1. n \in Nat /\ n > 0
    OBVIOUS
  <2> QED BY <2>1
<1>2. AsCall(f) \in C
  OBVIOUS
<1>3. Seen(s) \in Seq(C) /\ Len(Seen(s)) = n /\ \A k \in 1 .. n : Seen(s)[k] = AsCall(s[k])
  BY SeenSeq
<1>4. /\ Seen(t) \in Seq(C) /\ Len(Seen(t)) = n
      /\ \A k \in 1 .. n : Seen(t)[k] = AsCall(t[k])
  <2> HIDE DEF t
  <2> QED BY <1>1, SeenSeq
<1> HIDE DEF C, AsCall, n
<1>5. /\ u \in Seq(C) /\ Len(u) = n /\ u[n] = AsCall(f)
      /\ \A k \in 1 .. n - 1 : u[k] = AsCall(s[k])
  BY <1>1, <1>2, <1>3
<1> HIDE DEF t, u
<1>6. \A k \in 1 .. n : Seen(t)[k] = u[k]
  BY <1>1, <1>4, <1>5
<1>7. Seen(t) = u
  BY <1>4, <1>5, <1>6, SeqEqual
<1> QED BY <1>7 DEF t, u, n

LEMMA SeenPop ==
  ASSUME NEW s \in Seq(Frame), s # <<>>
  PROVE  Seen(SubSeq(s, 1, Len(s) - 1)) = SubSeq(Seen(s), 1, Len(s) - 1)
<1> DEFINE n == Len(s)
           C == {AsCall(g) : g \in Frame}
           t == SubSeq(s, 1, Len(s) - 1)
           u == SubSeq(Seen(s), 1, Len(Seen(s)) - 1)
<1>1. n \in Nat /\ n > 0
  OBVIOUS
<1>2. t \in Seq(Frame) /\ Len(t) = n - 1 /\ \A k \in 1 .. n - 1 : t[k] = s[k]
  BY Popped
<1>3. /\ Seen(s) \in Seq(C) /\ Len(Seen(s)) = n /\ Seen(s) # <<>>
      /\ \A k \in 1 .. n : Seen(s)[k] = AsCall(s[k])
  BY SeenSeq
<1> HIDE DEF C
<1>4. u \in Seq(C) /\ Len(u) = n - 1 /\ \A k \in 1 .. n - 1 : u[k] = Seen(s)[k]
  <2> HIDE DEF n, t, Seen
  <2> QED BY <1>3, Popped
<1>5. /\ Seen(t) \in Seq(C) /\ Len(Seen(t)) = n - 1
      /\ \A k \in 1 .. n - 1 : Seen(t)[k] = AsCall(t[k])
  <2> HIDE DEF t
  <2> QED BY <1>2, SeenSeq DEF C
<1>6. u = SubSeq(Seen(s), 1, Len(s) - 1)
  BY <1>3
<1> HIDE DEF n, t, u, AsCall
<1>7. \A k \in 1 .. n - 1 : Seen(t)[k] = u[k]
  BY <1>1, <1>2, <1>3, <1>4, <1>5
<1>8. Seen(t) = u
  BY <1>4, <1>5, <1>7, SeqEqual
<1> QED BY <1>6, <1>8 DEF t

LEMMA SeenTop ==
  ASSUME stack \in Seq(Frame)
  PROVE  /\ Seen(stack) = <<>> <=> stack = <<>>
         /\ stack # <<>> => Calls!Top = AsCall(Top)
         /\ Calls!Outside <=> Outside
         /\ \A phase \in Calls!Phase : Calls!Between(phase) <=> Between(phase)
<1> DEFINE m == Seen(stack)
<1>1. (m = <<>> <=> stack = <<>>) /\ Len(m) = Len(stack)
  BY SeenSeq
<1>2. ASSUME stack # <<>> PROVE m[Len(m)] = AsCall(Top)
  <2>1. Len(stack) \in 1 .. Len(stack)
    BY <1>2
  <2> QED BY <1>1, <2>1, SeenSeq DEF Top, Depth
<1>3. /\ Calls!Top = m[Len(m)]
      /\ Calls!Outside <=> (m # <<>> => m[Len(m)].busy \/ m[Len(m)].phase = "routine")
      /\ \A phase : Calls!Between(phase) <=>
           m # <<>> /\ ~m[Len(m)].busy /\ m[Len(m)].phase = phase
  BY DEF Calls!Top, Calls!Outside, Calls!Between, Seen
<1> HIDE DEF m
<1>4. ASSUME stack # <<>>
      PROVE  /\ AsCall(Top).busy <=> Top.at = "hook"
             /\ AsCall(Top).phase = IF Top.at = "routine" THEN "routine" ELSE Top.phase
             /\ Top.at \in {"plugins", "hook", "routine"} /\ Top.phase \in {"pre", "post"}
  BY <1>4, TopSet DEF AsCall, Frame, Calls!Phase
<1>5. Calls!Outside <=> Outside
  BY <1>1, <1>2, <1>3, <1>4 DEF Outside
<1>6. \A phase \in Calls!Phase : Calls!Between(phase) <=> Between(phase)
  BY <1>1, <1>2, <1>3, <1>4 DEF Between, Calls!Phase
<1> QED BY <1>1, <1>2, <1>3, <1>5, <1>6 DEF m

LEMMA SeenBecomes ==
  ASSUME stack \in Seq(Frame), stack # <<>>, NEW f \in Frame, Becomes(f)
  PROVE  Calls!Becomes(AsCall(f))
<1>1. stack' = [stack EXCEPT ![Len(stack)] = f]
  BY DEF Becomes, Depth
<1>2. Seen(stack') = [Seen(stack) EXCEPT ![Len(stack)] = AsCall(f)]
  BY <1>1, SeenSet
<1>3. Len(Seen(stack)) = Len(stack)
  BY SeenSeq
<1>4. Calls!Becomes(AsCall(f)) <=>
        Seen(stack)' = [Seen(stack) EXCEPT ![Len(Seen(stack))] = AsCall(f)]
  BY DEF Calls!Becomes, Seen
<1>5. Seen(stack)' = Seen(stack')
  BY DEF Seen
<1> QED BY <1>2, <1>3, <1>4, <1>5

LEMMA SeenWaiting ==
  ASSUME NEW f \in Frame, f.at = "plugins"
  PROVE  Calls!Waiting(AsCall(f)) = Waiting(f)
<1>1. /\ AsCall(f).asked = f.i - 1 /\ AsCall(f).fn = f.fn /\ AsCall(f).phase = f.phase
      /\ f.i \in Int
  BY HooksAssumption DEF AsCall, Frame
<1>2. f.i - 1 + 1 = f.i
  BY <1>1
<1> QED BY <1>1, <1>2 DEF Calls!Waiting, Waiting

(* A call by its parts, while a hook runs and otherwise, and what the      *)
(* actions of HookedCalls make of it.                                      *)
Busy(fn, phase, asked, said, heard) ==
  [fn |-> fn, phase |-> phase, asked |-> asked, busy |-> TRUE, said |-> said, heard |-> heard]
Free(fn, phase, asked, said, heard) ==
  [fn |-> fn, phase |-> phase, asked |-> asked, busy |-> FALSE, said |-> said, heard |-> heard]

Asks(call, x) == [call EXCEPT !.asked = x, !.busy = TRUE]
Says(call, x) == [call EXCEPT !.said = x]
Hears(call, x, y) == [call EXCEPT !.busy = FALSE, !.said = x, !.heard = y]
Goes(call, x, y) == [call EXCEPT !.phase = x, !.asked = y]

LEMMA FreeSet ==
  ASSUME NEW fn, NEW phase, NEW asked, NEW said, NEW heard, NEW x, NEW y
  PROVE  /\ Asks(Free(fn, phase, asked, said, heard), x) = Busy(fn, phase, x, said, heard)
         /\ Goes(Free(fn, phase, asked, said, heard), x, y) = Free(fn, x, y, said, heard)
<1> DEFINE r == Free(fn, phase, asked, said, heard)
           t == TRUE
           u == FALSE
           a == [r EXCEPT !.asked = x]
           d == [r EXCEPT !.phase = x]
<1>1. r = [fn |-> fn, phase |-> phase, asked |-> asked, busy |-> u, said |-> said,
           heard |-> heard]
  BY DEF Free
<1>2. /\ Asks(r, x) = [a EXCEPT !.busy = t]
      /\ Goes(r, x, y) = [d EXCEPT !.asked = y]
  BY DEF Free, Asks, Goes
<1>3. /\ Busy(fn, phase, x, said, heard)
           = [fn |-> fn, phase |-> phase, asked |-> x, busy |-> t, said |-> said,
              heard |-> heard]
      /\ Free(fn, x, y, said, heard)
           = [fn |-> fn, phase |-> x, asked |-> y, busy |-> u, said |-> said, heard |-> heard]
  BY DEF Busy, Free
<1> HIDE DEF r, t, u
<1>4. /\ a = [fn |-> fn, phase |-> phase, asked |-> x, busy |-> u, said |-> said,
              heard |-> heard]
      /\ d = [fn |-> fn, phase |-> x, asked |-> asked, busy |-> u, said |-> said,
              heard |-> heard]
  BY <1>1
<1> HIDE DEF a, d
<1>5. [a EXCEPT !.busy = t]
        = [fn |-> fn, phase |-> phase, asked |-> x, busy |-> t, said |-> said, heard |-> heard]
  BY <1>4
<1>6. [d EXCEPT !.asked = y]
        = [fn |-> fn, phase |-> x, asked |-> y, busy |-> u, said |-> said, heard |-> heard]
  BY <1>4
<1> QED BY <1>2, <1>3, <1>5, <1>6 DEF r

LEMMA BusySet ==
  ASSUME NEW fn, NEW phase, NEW asked, NEW said, NEW heard, NEW x, NEW y
  PROVE  /\ Says(Busy(fn, phase, asked, said, heard), x) = Busy(fn, phase, asked, x, heard)
         /\ Hears(Busy(fn, phase, asked, said, heard), x, y) = Free(fn, phase, asked, x, y)
<1> DEFINE r == Busy(fn, phase, asked, said, heard)
           t == TRUE
           u == FALSE
           b == [r EXCEPT !.busy = u]
           c == [b EXCEPT !.said = x]
<1>1. r = [fn |-> fn, phase |-> phase, asked |-> asked, busy |-> t, said |-> said,
           heard |-> heard]
  BY DEF Busy
<1>2. Says(r, x) = [r EXCEPT !.said = x] /\ Hears(r, x, y) = [c EXCEPT !.heard = y]
  BY DEF Busy, Says, Hears
<1>3. /\ Busy(fn, phase, asked, x, heard)
           = [fn |-> fn, phase |-> phase, asked |-> asked, busy |-> t, said |-> x,
              heard |-> heard]
      /\ Free(fn, phase, asked, x, y)
           = [fn |-> fn, phase |-> phase, asked |-> asked, busy |-> u, said |-> x, heard |-> y]
  BY DEF Busy, Free
<1> HIDE DEF r, t, u
<1>4. /\ b = [fn |-> fn, phase |-> phase, asked |-> asked, busy |-> u, said |-> said,
              heard |-> heard]
      /\ [r EXCEPT !.said = x]
           = [fn |-> fn, phase |-> phase, asked |-> asked, busy |-> t, said |-> x,
              heard |-> heard]
  BY <1>1
<1> HIDE DEF b
<1>5. c = [fn |-> fn, phase |-> phase, asked |-> asked, busy |-> u, said |-> x,
           heard |-> heard]
  BY <1>4
<1> HIDE DEF c
<1>6. [c EXCEPT !.heard = y]
        = [fn |-> fn, phase |-> phase, asked |-> asked, busy |-> u, said |-> x, heard |-> y]
  BY <1>5
<1> QED BY <1>2, <1>3, <1>4, <1>6 DEF r

LEMMA AsCallParts ==
  ASSUME NEW f
  PROVE  /\ f.at = "hook" =>
              AsCall(f) = Busy(f.fn, f.phase, f.i, f.said, f.heard)
         /\ f.at = "routine" =>
              AsCall(f) = Free(f.fn, "routine", f.i - 1, f.said, f.heard)
         /\ f.at = "plugins" =>
              AsCall(f) = Free(f.fn, f.phase, f.i - 1, f.said, f.heard)
  BY DEF AsCall, Busy, Free

-----------------------------------------------------------------------------
(* Each action is one of HookedCalls. *)

LEMMA SetupMaps ==
  ASSUME IInv, NEW fn \in Fn, Setup(fn)
  PROVE  Calls!Begin(fn)
<1> DEFINE f == [fn |-> fn, at |-> "plugins", phase |-> "pre", i |-> 1,
                 prev_mres |-> Calls!UNSET, status |-> Calls!UNSET,
                 orig_ret |-> Calls!Init0, override_ret |-> Calls!Init0,
                 backup |-> Saved(globals), said |-> Calls!UNSET, heard |-> <<>>]
<1>1. stack' = Append(stack, f) /\ stack \in Seq(Frame) /\ Outside
  BY DEF Setup, IInv, TypeOK
<1>2. AsCall(f) = Calls!NewCall(fn)
  <2>1. /\ f.at = "plugins" /\ f.fn = fn /\ f.phase = "pre" /\ f.i - 1 = 0
        /\ f.said = Calls!UNSET /\ f.heard = <<>>
    OBVIOUS
  <2> HIDE DEF f
  <2>2. AsCall(f) = Free(fn, "pre", 0, Calls!UNSET, <<>>)
    BY <2>1, AsCallParts
  <2> QED BY <2>2 DEF Free, Calls!NewCall
<1>3. f \in Frame
  <2>1. Saved(globals) \in Globals \cup {NoGlobals}
    BY DEF IInv, TypeOK, Saved
  <2>2. Calls!Init0 \in Calls!Value /\ 1 \in 1 .. NPlugins + 1 /\ Calls!UNSET \in Calls!Result
    BY HooksAssumption DEF Calls!Init0, Calls!Value, Calls!Result
  <2>3. <<>> \in Seq(Calls!Answer) /\ "pre" \in Calls!Phase
    BY DEF Calls!Phase
  <2> HIDE DEF Calls!UNSET
  <2> QED BY <2>1, <2>2, <2>3 DEF Frame
<1> HIDE DEF f
<1>4. Seen(stack)' = Append(Seen(stack), Calls!NewCall(fn))
  <2>1. Seen(stack)' = Seen(stack')
    BY DEF Seen
  <2> QED BY <1>1, <1>2, <1>3, <2>1, SeenAppend
<1>5. Calls!Outside
  BY <1>1, SeenTop
<1> QED BY <1>4, <1>5 DEF Setup, Calls!Begin, Seen

LEMMA CallPluginMaps ==
  ASSUME IInv, NEW phase \in Calls!Phase, CallPlugin(phase)
  PROVE  Calls!Ask(phase)
<1>1. stack # <<>> /\ stack \in Seq(Frame) /\ Top \in Frame /\ Top.at = "plugins"
      /\ Between(phase)
  BY TopSet DEF IInv, TypeOK, CallPlugin, Between
<1>2. PICK i \in Waiting(Top) : /\ \A j \in Waiting(Top) : i <= j
                                /\ Becomes([Top EXCEPT !.at = "hook", !.i = i])
  BY DEF CallPlugin
<1> DEFINE a == [Top EXCEPT !.at = "hook"]
           f == [a EXCEPT !.i = i]
<1>3. i \in 1 .. NPlugins + 1
  BY <1>1, HooksAssumption DEF Waiting, Frame
<1>4. a \in Frame
  BY <1>1, FrameSet
<1>5. f \in Frame
  <2> HIDE DEF a
  <2> QED BY <1>3, <1>4, FrameSet
<1>6. f = [Top EXCEPT !.at = "hook", !.i = i]
  BY <1>1 DEF Frame
<1>7. /\ f.at = "hook" /\ f.fn = Top.fn /\ f.phase = Top.phase /\ f.i = i
      /\ f.said = Top.said /\ f.heard = Top.heard
  BY <1>1 DEF Frame
<1> HIDE DEF f
<1>8. AsCall(f) = Asks(AsCall(Top), i)
  <2>1. AsCall(Top) = Free(Top.fn, Top.phase, Top.i - 1, Top.said, Top.heard)
    BY <1>1, AsCallParts
  <2>2. AsCall(f) = Busy(Top.fn, Top.phase, i, Top.said, Top.heard)
    BY <1>7, AsCallParts
  <2> QED BY <2>1, <2>2, FreeSet
<1>9. Calls!Becomes(Asks(Calls!Top, i))
  BY <1>1, <1>2, <1>5, <1>6, <1>8, SeenBecomes, SeenTop
<1>10. Calls!Waiting(Calls!Top) = Waiting(Top) /\ Calls!Between(phase)
  BY <1>1, SeenWaiting, SeenTop
<1> QED BY <1>2, <1>9, <1>10 DEF Calls!Ask, CallPlugin, Asks

LEMMA SetResultMaps ==
  ASSUME IInv, NEW r \in Results, SetResult(r)
  PROVE  r \in Calls!Result /\ Calls!Say(r)
<1>1. stack # <<>> /\ stack \in Seq(Frame) /\ Top \in Frame /\ Top.at = "hook"
      /\ r \in Calls!Result
  BY TopSet, HooksAssumption DEF IInv, TypeOK, SetResult
<1> DEFINE f == [Top EXCEPT !.said = r]
<1>2. f \in Frame /\ Becomes(f)
  BY <1>1, FrameSet DEF SetResult
<1>3. AsCall(f) = Says(AsCall(Top), r) /\ AsCall(Top).busy
  <2>1. /\ f.at = "hook" /\ f.fn = Top.fn /\ f.phase = Top.phase /\ f.i = Top.i
        /\ f.said = r /\ f.heard = Top.heard
    BY <1>1 DEF Frame
  <2> HIDE DEF f
  <2>2. AsCall(Top).busy
    BY <1>1 DEF AsCall
  <2>3. AsCall(Top) = Busy(Top.fn, Top.phase, Top.i, Top.said, Top.heard)
    BY <1>1, AsCallParts
  <2>4. AsCall(f) = Busy(Top.fn, Top.phase, Top.i, r, Top.heard)
    BY <2>1, AsCallParts
  <2> QED BY <2>2, <2>3, <2>4, BusySet
<1> HIDE DEF f
<1>4. Calls!Becomes(Says(Calls!Top, r)) /\ Calls!Top.busy /\ Seen(stack) # <<>>
  BY <1>1, <1>2, <1>3, SeenBecomes, SeenTop
<1> QED BY <1>1, <1>4 DEF Calls!Say, SetResult, Seen, Says

LEMMA PluginReturnsMaps ==
  ASSUME IInv, ValuesOK, PluginReturns
  PROVE  Calls!Hear
<1>1. stack # <<>> /\ stack \in Seq(Frame) /\ Top \in Frame /\ Top.at = "hook"
      /\ Top.i \in 1 .. NPlugins
  BY ReturnedFrame DEF IInv, TypeOK
<1>2. PICK f \in Frame :
         /\ Becomes(f) /\ f.at = "plugins" /\ f.i = Top.i + 1
         /\ f.fn = Top.fn /\ f.phase = Top.phase
         /\ f.said = Calls!UNSET
         /\ f.heard = Append(Top.heard, [phase |-> Top.phase, plugin |-> Top.i,
                                         result |-> Top.said])
  BY ReturnedFrame
<1> DEFINE c == AsCall(Top)
<1>3. /\ c.phase = Top.phase /\ c.asked = Top.i /\ c.said = Top.said /\ c.heard = Top.heard
      /\ c.busy
  BY <1>1 DEF AsCall
<1> DEFINE heard == Append(c.heard, [phase |-> c.phase, plugin |-> c.asked, result |-> c.said])
<1>4. AsCall(f) = Hears(c, Calls!UNSET, heard)
  <2>1. f.i - 1 = Top.i
    BY <1>1, <1>2
  <2>2. AsCall(f) = Free(Top.fn, Top.phase, Top.i, Calls!UNSET, f.heard)
    BY <1>2, <2>1, AsCallParts
  <2>3. c = Busy(Top.fn, Top.phase, Top.i, Top.said, Top.heard)
    BY <1>1, AsCallParts
  <2> HIDE DEF c, heard, Calls!UNSET
  <2>4. Hears(c, Calls!UNSET, f.heard) = Free(Top.fn, Top.phase, Top.i, Calls!UNSET, f.heard)
    BY <2>3, BusySet
  <2>5. f.heard = heard
    BY <1>2, <1>3 DEF heard
  <2> QED BY <2>2, <2>4, <2>5
<1>5. Calls!Top = c /\ Seen(stack) # <<>> /\ Calls!Becomes(AsCall(f))
  BY <1>1, <1>2, SeenBecomes, SeenTop
<1> HIDE DEF c
<1> QED BY <1>3, <1>4, <1>5 DEF Calls!Hear, PluginReturns, Seen, Hears

LEMMA CallRoutineMaps ==
  ASSUME IInv, ValuesOK, CallRoutine
  PROVE  Calls!Go
<1>1. /\ stack # <<>> /\ stack \in Seq(Frame) /\ Top \in Frame /\ Top.at = "plugins"
      /\ Top.phase = "pre" /\ Between("pre") /\ Waiting(Top) = {}
      /\ Top.status \in Calls!Result
      /\ Top.orig_ret \in Calls!Value /\ Top.override_ret \in Calls!Value
  BY TopFits DEF IInv, TypeOK, CallRoutine, Between, Frame
<1>2. Top.status = Calls!SUPERCEDE <=> Calls!Superceded(AsCall(Top))
  BY <1>1, TopFits DEF Fits, PreFits
<1>3. Calls!Between("pre") /\ Calls!Waiting(Calls!Top) = {} /\ Calls!Top = AsCall(Top)
  BY <1>1, SeenTop, SeenWaiting DEF Calls!Phase
<1> DEFINE called == Top.status # Calls!SUPERCEDE /\ Routine[Top.fn] = "there"
           c == AsCall(Top)
           to == IF called THEN Goes(c, "routine", NPlugins) ELSE Goes(c, "post", 0)
<1>4. /\ c.fn = Top.fn
      /\ c = Free(Top.fn, "pre", Top.i - 1, Top.said, Top.heard)
  BY <1>1, AsCallParts DEF Free
<1>5. CASE called
  <2> DEFINE a == [Top EXCEPT !.at = "routine"]
             g == [a EXCEPT !.i = NPlugins + 1]
  <2>1. g = [Top EXCEPT !.at = "routine", !.i = NPlugins + 1]
    BY <1>1 DEF Frame
  <2>2. Becomes(g)
    BY <1>5, <2>1 DEF CallRoutine
  <2>3. a \in Frame
    BY <1>1, FrameSet
  <2>4. g \in Frame
    <3>1. NPlugins + 1 \in 1 .. NPlugins + 1
      BY HooksAssumption
    <3> HIDE DEF a
    <3> QED BY <2>3, <3>1, FrameSet
  <2>5. g.at = "routine" /\ g.fn = Top.fn /\ g.i = NPlugins + 1 /\ g.said = Top.said
        /\ g.heard = Top.heard
    BY <1>1 DEF Frame
  <2> HIDE DEF g
  <2>6. g.i - 1 = NPlugins
    BY <2>5, HooksAssumption
  <2>7. AsCall(g) = Free(Top.fn, "routine", NPlugins, Top.said, Top.heard)
    BY <2>5, <2>6, AsCallParts
  <2>8. AsCall(g) = to
    <3> HIDE DEF c
    <3> QED BY <1>4, <1>5, <2>7, FreeSet
  <2>9. Calls!Becomes(to)
    BY <1>1, <2>2, <2>4, <2>8, SeenBecomes
  <2> HIDE DEF c
  <2> QED BY <1>2, <1>3, <1>4, <1>5, <2>9 DEF Calls!Go, CallRoutine, Goes, c
<1>6. CASE ~called
  <2> DEFINE status == IF Top.status = Calls!SUPERCEDE THEN Top.status
                       ELSE IF Routine[Top.fn] = "missing" THEN Calls!UNSET ELSE Top.status
             ret == IF Top.status = Calls!SUPERCEDE THEN Top.override_ret ELSE Top.orig_ret
             f == PostPhase(Top, status, ret)
  <2>1. Becomes(f)
    BY <1>6 DEF CallRoutine
  <2>2. status \in Calls!Result /\ ret \in Calls!Value
    BY <1>1 DEF Calls!Result
  <2> HIDE DEF status, ret
  <2>3. /\ f \in Frame /\ f.at = "plugins" /\ f.phase = "post" /\ f.i = 1 /\ f.fn = Top.fn
        /\ f.said = Top.said /\ f.heard = Top.heard
    BY <1>1, <2>2, PostFrame
  <2> HIDE DEF f
  <2>4. AsCall(f) = Free(Top.fn, "post", 0, Top.said, Top.heard)
    <3>1. f.i - 1 = 0
      BY <2>3
    <3> QED BY <2>3, <3>1, AsCallParts
  <2>5. AsCall(f) = to
    <3> HIDE DEF c
    <3> QED BY <1>4, <1>6, <2>4, FreeSet
  <2>6. Calls!Becomes(to)
    BY <1>1, <2>1, <2>3, <2>5, SeenBecomes
  <2> QED BY <1>2, <1>3, <1>4, <1>6, <2>6 DEF Calls!Go, CallRoutine, Goes
<1> QED BY <1>5, <1>6

LEMMA RoutineReturnsMaps ==
  ASSUME IInv, RoutineReturns
  PROVE  Calls!Back
<1>1. /\ stack # <<>> /\ stack \in Seq(Frame) /\ Top \in Frame /\ Top.at = "routine"
      /\ Top.status \in Calls!Result
  BY TopSet DEF IInv, TypeOK, RoutineReturns, Frame
<1> DEFINE f == PostPhase(Top, Top.status, Calls!RoutineValue)
           c == AsCall(Top)
<1>2. Becomes(f)
  BY DEF RoutineReturns
<1>3. Calls!RoutineValue \in Calls!Value
  BY HooksAssumption DEF Calls!RoutineValue, Calls!Value
<1>4. /\ f \in Frame /\ f.at = "plugins" /\ f.phase = "post" /\ f.i = 1 /\ f.fn = Top.fn
      /\ f.said = Top.said /\ f.heard = Top.heard
  BY <1>1, <1>3, PostFrame
<1> HIDE DEF f
<1>5. AsCall(f) = Goes(c, "post", 0) /\ c.phase = "routine"
  <2>1. AsCall(f) = Free(Top.fn, "post", 0, Top.said, Top.heard)
    <3>1. f.i - 1 = 0
      BY <1>4
    <3> QED BY <1>4, <3>1, AsCallParts
  <2>2. c = Free(Top.fn, "routine", Top.i - 1, Top.said, Top.heard)
    BY <1>1, AsCallParts
  <2>3. c.phase = "routine"
    BY <1>1 DEF AsCall
  <2> HIDE DEF c
  <2> QED BY <2>1, <2>2, <2>3, FreeSet
<1>6. Calls!Top = c /\ Seen(stack) # <<>> /\ Calls!Becomes(AsCall(f))
  BY <1>1, <1>2, <1>4, SeenBecomes, SeenTop
<1> HIDE DEF c
<1> QED BY <1>5, <1>6 DEF Calls!Back, RoutineReturns, Seen, Goes

LEMMA ReturnMaps ==
  ASSUME IInv, ValuesOK, Return
  PROVE  Calls!End
<1>1. /\ stack # <<>> /\ stack \in Seq(Frame) /\ Top \in Frame /\ Top.at = "plugins"
      /\ Top.phase = "post" /\ Between("post") /\ Waiting(Top) = {} /\ PostFits(Top)
  BY TopFits DEF IInv, TypeOK, Return, Between, Fits
<1>2. Calls!Between("post") /\ Calls!Waiting(Calls!Top) = {} /\ Calls!Top = AsCall(Top)
  BY <1>1, SeenTop, SeenWaiting DEF Calls!Phase
<1>3. Seen(stack)' = SubSeq(Seen(stack), 1, Len(Seen(stack)) - 1)
  <2>1. Seen(stack)' = Seen(stack') /\ stack' = SubSeq(stack, 1, Len(stack) - 1)
    BY DEF Seen, Return, Below, Depth
  <2>2. Len(Seen(stack)) = Len(stack)
    BY <1>1, SeenSeq
  <2> QED BY <1>1, <2>1, <2>2, SeenPop
<1>4. answer' = Overridden(Top) /\ answer' \in Calls!Value
  BY <1>1 DEF Return, Overridden, Frame
<1>5. Calls!Regular(Calls!Top) => answer' = Calls!DocumentedAnswer(Calls!Top)
  BY <1>1, <1>2, <1>4 DEF PostFits
<1> QED BY <1>2, <1>3, <1>4, <1>5 DEF Calls!End, Calls!Below, Return, Seen

LEMMA SwitchMaps ==
  ASSUME IInv, NEW i \in Pausable, Switch(i)
  PROVE  i \in 1 .. NPlugins /\ Calls!Switch(i)
<1>1. Calls!Outside /\ i \in 1 .. NPlugins
  BY SeenTop, HooksAssumption DEF Switch, IInv, TypeOK
<1> QED BY <1>1 DEF Switch, Calls!Switch

LEMMA StepMaps == IInv /\ ValuesOK /\ [Next]_vars => [Calls!Next]_(Calls!vars)
<1> SUFFICES ASSUME IInv, ValuesOK, [Next]_vars PROVE [Calls!Next]_(Calls!vars)
  OBVIOUS
<1>1. CASE UNCHANGED vars
  BY <1>1 DEF vars, Calls!vars
<1>2. CASE Next
  BY <1>2, SetupMaps, CallPluginMaps, SetResultMaps, PluginReturnsMaps, CallRoutineMaps,
    RoutineReturnsMaps, ReturnMaps, SwitchMaps DEF Next, Calls!Next
<1> QED BY <1>1, <1>2

(* Whatever hooks say, pause and call, each running plugin that hooks the  *)
(* routine is asked in the order of the list, the routine is called unless *)
(* it is superceded, and the caller is given the value of the last plugin  *)
(* that overrides or supercedes: what doc/txt/coding.txt promises.         *)
THEOREM Implements == Spec => KeepsPromise
<1>1. Init => Calls!Init
  <2> SUFFICES ASSUME Init PROVE Calls!Init
    OBVIOUS
  <2>1. stack = <<>> /\ stack \in Seq(Frame)
    BY DEF Init
  <2>2. Seen(stack) = <<>>
    BY <2>1, SeenSeq
  <2> QED BY <2>2 DEF Init, Calls!Init, Seen
<1> QED BY <1>1, AlwaysFits, StepMaps, PTL DEF Spec, KeepsPromise, Calls!Spec

=============================================================================
