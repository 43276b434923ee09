-------------------------- MODULE CallbacksProofs --------------------------
(***************************************************************************)
(* For every number of plugins, tasks, requests and forwards, and however  *)
(* deep calls are nested: each forward belongs to one holder or is free,   *)
(* and a call keeps its forward and its task.                              *)
(***************************************************************************)
EXTENDS Callbacks, FiniteSetTheorems, SequenceTheorems, TLAPS

(* A forward that the free list names, and one that a set of holders or of *)
(* calls names.                                                            *)
Listed(free, id) == \E j \in 1 .. Len(free) : free[j] = id
Once(free) == \A j, k \in 1 .. Len(free) : free[j] = free[k] => j = k
Has(S, id) == \E x \in S : x.fwd = id

(* What is known of a forward, of those who hold one, and of the calls     *)
(* that were not nested in another through the same forward.               *)
ObjectOK(t, id, H, C) ==
  LET o == t.sp[id]
  IN  /\ o.isFree => Listed(t.free, id)
      /\ Listed(t.free, id) => o.isFree \/ o.func = NoPlugin
      /\ Listed(t.free, id) \/ Has(H, id) \/ o.toDelete
      /\ o.toDelete => o.inExec
      /\ o.inExec => Has(C, id)
      /\ \A h \in H : h.fwd = id => ~o.isFree /\ ~o.toDelete /\ o.func = h.plugin
      /\ \A c \in C : c.fwd = id => o.inExec /\ ~o.isFree /\ o.func = c.plugin

InTable(t, S) == \A x \in S : x.fwd \in 1 .. Len(t.sp) /\ x.plugin \in Plugin

Apart(H) == \A g, h \in H : g.fwd = h.fwd => g = h

TableOK(t, H, C) ==
  /\ t \in Fwd!Table
  /\ Once(t.free)
  /\ \A j \in 1 .. Len(t.free) : t.free[j] \in 1 .. Len(t.sp)
  /\ InTable(t, H) /\ InTable(t, C) /\ Apart(H)
  /\ \A id \in 1 .. Len(t.sp) : ObjectOK(t, id, H, C)

(* The calls through single plugin forwards that CallIsKept speaks of.     *)
UnderWay ==
  {[fwd |-> stack[k].fwd, plugin |-> stack[k].plugin] :
     k \in {j \in 1 .. Len(stack) : stack[j].fwd # Fwd!NoForward /\ ~stack[j].nested}}

(* Only the first call is not made by a function, and it alone is an       *)
(* event, a request or a task.                                             *)
CallOK(k) ==
  LET call == stack[k]
  IN  /\ call.kind = "execute" <=> k > 1
      /\ call.fwd <= Len(table.sp)
      /\ call.fwd = Fwd!NoForward <=> call.kind = "event"
      /\ call.kind = "task" => call.task \in 1 .. Len(tasks)

StackOK == \A k \in 1 .. Len(stack) : CallOK(k)

NestedOK ==
  \A j, k \in 1 .. Len(stack) :
    j < k /\ stack[j].fwd = stack[k].fwd => stack[j].nested

TasksOK ==
  \A i \in 1 .. Len(tasks) :
    IF tasks[i].free THEN tasks[i].fwd = Fwd!NoForward ELSE tasks[i].plugin \in Plugin

LoopOK ==
  /\ loop.at = "requests" => loop.left <= Len(requested)
  /\ loop.at = "tasks" => loop.pos >= 1 /\ loop.left <= Len(tasks)

Shape == TypeOK /\ StackOK /\ TasksOK /\ LoopOK /\ SlotIsKept

IInv == Shape /\ NestedOK /\ TableOK(table, Holders, UnderWay)

-----------------------------------------------------------------------------
(* Sequences. *)

LEMMA Changed ==
  ASSUME NEW S, NEW s \in Seq(S), NEW i \in 1 .. Len(s), NEW e \in S
  PROVE  LET r == [s EXCEPT ![i] = e]
         IN  /\ r \in Seq(S) /\ Len(r) = Len(s) /\ r[i] = e
             /\ \A j \in 1 .. Len(s) : j # i => r[j] = s[j]
  OBVIOUS

LEMMA Longer ==
  ASSUME NEW S, NEW s \in Seq(S), NEW e \in S
  PROVE  LET r == Append(s, e)
         IN  /\ r \in Seq(S) /\ Len(r) = Len(s) + 1 /\ r[Len(s) + 1] = e
             /\ \A j \in 1 .. Len(s) : r[j] = s[j]
  OBVIOUS

LEMMA Shorter ==
  ASSUME NEW S, NEW s \in Seq(S), s # <<>>
  PROVE  LET r == SubSeq(s, 1, Len(s) - 1)
         IN  /\ Len(s) \in Nat /\ Len(s) > 0
             /\ r \in Seq(S) /\ Len(r) = Len(s) - 1 /\ s[Len(s)] \in S
             /\ \A j \in 1 .. Len(s) - 1 : r[j] = s[j]
<1>1. Len(s) \in Nat /\ Len(s) > 0
  OBVIOUS
<1> DEFINE n == Len(s) - 1
           r == SubSeq(s, 1, n)
<1>2. n \in Int /\ n >= 0 /\ (\A i \in 1 .. n : s[i] \in S) /\ s[Len(s)] \in S
  BY <1>1
<1>3. /\ r \in Seq(S)
      /\ Len(r) = IF 1 <= n THEN n - 1 + 1 ELSE 0
      /\ \A i \in 1 .. n - 1 + 1 : r[i] = s[1 + i - 1]
  <2> HIDE DEF n
  <2> QED BY <1>2, SubSeqProperties
<1>4. Len(r) = n /\ \A i \in 1 .. n : r[i] = s[i]
  <2> HIDE DEF n, r
  <2> QED BY <1>2, <1>3
<1> QED BY <1>1, <1>2, <1>3, <1>4

LEMMA TailOf ==
  ASSUME NEW S, NEW s \in Seq(S), s # <<>>
  PROVE  LET r == Tail(s)
         IN  /\ Len(s) \in Nat /\ Len(s) > 0 /\ Head(s) = s[1] /\ s[1] \in S
             /\ r \in Seq(S) /\ Len(r) = Len(s) - 1
             /\ \A j \in 1 .. Len(s) - 1 : r[j] = s[j + 1]
  OBVIOUS

-----------------------------------------------------------------------------
(* The table of forwards. *)

LEMMA TableParts ==
  ASSUME NEW t \in Fwd!Table
  PROVE  /\ t.sp \in Seq(Fwd!Forward) /\ t.free \in Seq(Nat \ {0})
         /\ Len(t.sp) \in Nat /\ Len(t.free) \in Nat
         /\ \A id \in 1 .. Len(t.sp) : t.sp[id] \in Fwd!Forward
<1>1. t.sp \in Seq(Fwd!Forward) /\ t.free \in Seq(Nat \ {0})
  BY DEF Fwd!Table
<1> QED BY <1>1

LEMMA TableSet ==
  ASSUME NEW t \in Fwd!Table, NEW sp \in Seq(Fwd!Forward), NEW free \in Seq(Nat \ {0})
  PROVE  /\ LET u == [sp |-> sp, free |-> free]
            IN  u \in Fwd!Table /\ u.sp = sp /\ u.free = free
         /\ LET u == [t EXCEPT !.sp = sp]
            IN  u \in Fwd!Table /\ u.sp = sp /\ u.free = t.free
  BY DEF Fwd!Table

(* A forward that is freed, entered, left, or to be deleted.               *)
LEMMA ObjectParts ==
  ASSUME NEW o \in Fwd!Forward
  PROVE  /\ LET n == [o EXCEPT !.isFree = TRUE]
            IN  /\ n \in Fwd!Forward /\ n.isFree
                /\ n.func = o.func /\ n.inExec = o.inExec /\ n.toDelete = o.toDelete
         /\ LET n == [o EXCEPT !.toDelete = TRUE]
            IN  /\ n \in Fwd!Forward /\ n.toDelete
                /\ n.func = o.func /\ n.inExec = o.inExec /\ n.isFree = o.isFree
         /\ LET n == [o EXCEPT !.toDelete = FALSE]
            IN  /\ n \in Fwd!Forward /\ ~n.toDelete
                /\ n.func = o.func /\ n.inExec = o.inExec /\ n.isFree = o.isFree
         /\ LET n == [o EXCEPT !.inExec = TRUE]
            IN  /\ n \in Fwd!Forward /\ n.inExec
                /\ n.func = o.func /\ n.isFree = o.isFree /\ n.toDelete = o.toDelete
         /\ LET n == [o EXCEPT !.inExec = FALSE]
            IN  /\ n \in Fwd!Forward /\ ~n.inExec
                /\ n.func = o.func /\ n.isFree = o.isFree /\ n.toDelete = o.toDelete
  BY DEF Fwd!Forward

LEMMA SetParts ==
  ASSUME NEW f \in Plugin \cup {NoPlugin}
  PROVE  LET o == Fwd!Set(f)
         IN  /\ o \in Fwd!Forward /\ o.func = f
             /\ ~o.isFree /\ ~o.inExec /\ ~o.toDelete
  BY DEF Fwd!Forward, Fwd!Set

(* A table with another object for one of its forwards.                    *)
With(t, id, o) == [t EXCEPT !.sp = [t.sp EXCEPT ![id] = o]]

LEMMA WithParts ==
  ASSUME NEW t \in Fwd!Table, NEW id \in 1 .. Len(t.sp), NEW o \in Fwd!Forward
  PROVE  LET u == With(t, id, o)
         IN  /\ u \in Fwd!Table /\ u.free = t.free /\ Len(u.sp) = Len(t.sp)
             /\ u.sp[id] = o
             /\ \A j \in 1 .. Len(t.sp) : j # id => u.sp[j] = t.sp[j]
<1> DEFINE sp == [t.sp EXCEPT ![id] = o]
<1>1. /\ sp \in Seq(Fwd!Forward) /\ Len(sp) = Len(t.sp) /\ sp[id] = o
      /\ \A j \in 1 .. Len(t.sp) : j # id => sp[j] = t.sp[j]
  BY TableParts, Changed
<1>2. With(t, id, o) = [t EXCEPT !.sp = sp]
  BY DEF With
<1> HIDE DEF sp
<1>3. t.free \in Seq(Nat \ {0})
  BY TableParts
<1>4. LET u == [t EXCEPT !.sp = sp]
      IN  u \in Fwd!Table /\ u.sp = sp /\ u.free = t.free
  BY <1>1, <1>3, TableSet
<1> QED BY <1>1, <1>2, <1>4

LEMMA OperationsAre ==
  ASSUME NEW t \in Fwd!Table, NEW id \in 1 .. Len(t.sp)
  PROVE  /\ Fwd!Entered(t, id) = With(t, id, [t.sp[id] EXCEPT !.inExec = TRUE])
         /\ [t EXCEPT !.sp[id].inExec = FALSE] = With(t, id, [t.sp[id] EXCEPT !.inExec = FALSE])
         /\ [t EXCEPT !.sp[id].toDelete = FALSE] = With(t, id, [t.sp[id] EXCEPT !.toDelete = FALSE])
         /\ [t EXCEPT !.sp[id].toDelete = TRUE] = With(t, id, [t.sp[id] EXCEPT !.toDelete = TRUE])
  BY DEF With, Fwd!Entered

LEMMA FreedParts ==
  ASSUME NEW t \in Fwd!Table, NEW id \in 1 .. Len(t.sp)
  PROVE  LET u == Fwd!Freed(t, id)
         IN  /\ u \in Fwd!Table /\ u.free = Append(t.free, id) /\ Len(u.sp) = Len(t.sp)
             /\ u.sp[id] = [t.sp[id] EXCEPT !.isFree = TRUE]
             /\ \A j \in 1 .. Len(t.sp) : j # id => u.sp[j] = t.sp[j]
<1> DEFINE o == [t.sp[id] EXCEPT !.isFree = TRUE]
           sp == [t.sp EXCEPT ![id] = o]
           free == Append(t.free, id)
<1>1. t.sp \in Seq(Fwd!Forward) /\ t.sp[id] \in Fwd!Forward
  BY TableParts
<1>2. o \in Fwd!Forward
  BY <1>1, ObjectParts
<1>3. /\ sp \in Seq(Fwd!Forward) /\ Len(sp) = Len(t.sp) /\ sp[id] = o
      /\ \A j \in 1 .. Len(t.sp) : j # id => sp[j] = t.sp[j]
  <2> HIDE DEF o
  <2> QED BY <1>1, <1>2, Changed
<1>4. free \in Seq(Nat \ {0})
  <2>1. t.free \in Seq(Nat \ {0}) /\ id \in Nat \ {0}
    BY TableParts
  <2> QED BY <2>1, Longer
<1>5. Fwd!Freed(t, id) = [sp |-> sp, free |-> free]
  BY DEF Fwd!Freed
<1> HIDE DEF o, sp, free
<1>6. LET u == [sp |-> sp, free |-> free]
      IN  u \in Fwd!Table /\ u.sp = sp /\ u.free = free
  BY <1>3, <1>4, TableSet
<1> QED BY <1>3, <1>5, <1>6 DEF free, o

(* What is listed when a number is added or taken.                         *)
LEMMA ListedMore ==
  ASSUME NEW free \in Seq(Nat \ {0}), NEW id \in Nat \ {0},
         Once(free), ~Listed(free, id)
  PROVE  LET more == Append(free, id)
         IN  /\ Once(more)
             /\ \A j : Listed(more, j) <=> Listed(free, j) \/ j = id
<1> DEFINE more == Append(free, id)
           n == Len(free)
<1>1. /\ n \in Nat /\ Len(more) = n + 1 /\ more[n + 1] = id
      /\ \A j \in 1 .. n : more[j] = free[j]
  BY Longer
<1>2. \A j \in 1 .. n : free[j] # id
  BY DEF Listed
<1> HIDE DEF more
<1>3. Once(more)
  <2> SUFFICES ASSUME NEW j \in 1 .. n + 1, NEW k \in 1 .. n + 1, more[j] = more[k]
               PROVE  j = k
    BY <1>1 DEF Once
  <2>1. \A l \in 1 .. n + 1 : l \in 1 .. n \/ l = n + 1
    BY <1>1
  <2> QED BY <1>1, <1>2, <2>1 DEF Once
<1>4. \A j : Listed(more, j) <=> Listed(free, j) \/ j = id
  <2> TAKE j
  <2>1. Listed(more, j) <=> \E k \in 1 .. n + 1 : more[k] = j
    BY <1>1 DEF Listed
  <2>2. \A l : l \in 1 .. n + 1 <=> l \in 1 .. n \/ l = n + 1
    BY <1>1
  <2>3. (\E k \in 1 .. n + 1 : more[k] = j) <=> (\E k \in 1 .. n : free[k] = j) \/ j = id
    BY <1>1, <2>2
  <2> QED BY <2>1, <2>3 DEF Listed
<1> QED BY <1>3, <1>4 DEF more

LEMMA ListedLess ==
  ASSUME NEW free \in Seq(Nat \ {0}), free # <<>>, Once(free)
  PROVE  LET less == SubSeq(free, 1, Len(free) - 1)
             id   == free[Len(free)]
         IN  /\ less \in Seq(Nat \ {0}) /\ id \in Nat \ {0}
             /\ Once(less) /\ Listed(free, id)
             /\ \A j : Listed(less, j) <=> Listed(free, j) /\ j # id
             /\ \A j \in 1 .. Len(less) : Listed(free, less[j])
<1> DEFINE less == SubSeq(free, 1, Len(free) - 1)
           n == Len(free)
           id == free[n]
<1>1. /\ n \in Nat /\ n > 0 /\ less \in Seq(Nat \ {0}) /\ Len(less) = n - 1
      /\ id \in Nat \ {0} /\ \A j \in 1 .. n - 1 : less[j] = free[j]
  BY Shorter
<1>2. n \in 1 .. n
  BY <1>1
<1>10. free[n] = id
  OBVIOUS
<1> HIDE DEF less
<1>3. \A j, k \in 1 .. n : free[j] = free[k] => j = k
  BY DEF Once
<1> HIDE DEF n
<1>4. Once(less) /\ \A j \in 1 .. n - 1 : less[j] # id
  BY <1>1, <1>2, <1>3 DEF Once
<1>5. \A j : Listed(free, j) <=> (\E k \in 1 .. n : free[k] = j)
  BY DEF Listed, n
<1>6. \A j : Listed(less, j) <=> (\E k \in 1 .. n - 1 : free[k] = j)
  BY <1>1 DEF Listed
<1>7. \A k \in 1 .. n : k \in 1 .. n - 1 \/ k = n
  BY <1>1
<1>11. \A k \in 1 .. n - 1 : k \in 1 .. n
  BY <1>1
<1>12. \A k \in 1 .. n - 1 : less[k] = free[k]
  BY <1>1
<1>8. \A j : Listed(less, j) <=> Listed(free, j) /\ j # id
  <2> TAKE j
  <2>1. ASSUME Listed(less, j) PROVE Listed(free, j) /\ j # id
    <3>1. PICK k \in 1 .. n - 1 : free[k] = j
      BY <1>6, <2>1
    <3>2. k \in 1 .. n
      BY <1>11
    <3>3. less[k] = j /\ less[k] # id
      BY <1>4, <1>12, <3>1
    <3> QED BY <1>5, <3>1, <3>2, <3>3
  <2>2. ASSUME Listed(free, j), j # id PROVE Listed(less, j)
    <3>1. PICK k \in 1 .. n : free[k] = j
      BY <1>5, <2>2
    <3>2. k \in 1 .. n - 1
      <4>1. k # n
        BY <1>10, <2>2, <3>1
      <4> QED BY <1>7, <4>1
    <3> QED BY <1>6, <3>1, <3>2
  <2> QED BY <2>1, <2>2
<1>9. \A j \in 1 .. Len(less) : Listed(free, less[j])
  <2> TAKE j \in 1 .. Len(less)
  <2>1. j \in 1 .. n /\ less[j] = free[j]
    BY <1>1
  <2> QED BY <1>5, <2>1
<1> QED BY <1>1, <1>2, <1>4, <1>5, <1>8, <1>9 DEF less, n

(* A step that touches one forward, its holders and its calls only.        *)
Elsewhere(id, S, R) == \A x : x.fwd # id => (x \in S <=> x \in R)

LEMMA OneForward ==
  ASSUME NEW t, NEW H, NEW C, TableOK(t, H, C),
         NEW id \in 1 .. Len(t.sp), NEW u \in Fwd!Table, NEW HH, NEW CC,
         Len(u.sp) = Len(t.sp),
         \A j \in 1 .. Len(t.sp) : j # id => u.sp[j] = t.sp[j],
         \A j : j # id => (Listed(u.free, j) <=> Listed(t.free, j)),
         Once(u.free), \A j \in 1 .. Len(u.free) : u.free[j] \in 1 .. Len(t.sp),
         Elsewhere(id, HH, H), Elsewhere(id, CC, C),
         InTable(t, HH), InTable(t, CC), Apart(HH),
         ObjectOK(u, id, HH, CC)
  PROVE  TableOK(u, HH, CC)
<1>1. InTable(u, HH) /\ InTable(u, CC)
  BY DEF InTable
<1>2. ASSUME NEW j \in 1 .. Len(t.sp), j # id
      PROVE  ObjectOK(u, j, HH, CC)
  <2>1. /\ u.sp[j] = t.sp[j]
        /\ Listed(u.free, j) <=> Listed(t.free, j)
        /\ Has(HH, j) <=> Has(H, j)
        /\ Has(CC, j) <=> Has(C, j)
        /\ \A h \in HH : h.fwd = j => h \in H
        /\ \A c \in CC : c.fwd = j => c \in C
    BY <1>2 DEF Elsewhere, Has
  <2>2. ObjectOK(t, j, H, C)
    BY DEF TableOK
  <2> QED BY <2>1, <2>2 DEF ObjectOK
<1>3. \A j \in 1 .. Len(u.sp) : ObjectOK(u, j, HH, CC)
  BY <1>2
<1> QED BY <1>1, <1>3 DEF TableOK

(* In the table u the forward has joined the free list.                    *)
IsFreed(u, t, id) ==
  /\ u \in Fwd!Table /\ u.free = Append(t.free, id) /\ Len(u.sp) = Len(t.sp)
  /\ \A j \in 1 .. Len(t.sp) : j # id => u.sp[j] = t.sp[j]
  /\ u.sp[id].isFree /\ ~u.sp[id].inExec /\ ~u.sp[id].toDelete

(* R is S without whatever has the forward.                                *)
Without(id, S, R) == R \subseteq S /\ Elsewhere(id, R, S) /\ ~Has(R, id)

(* A forward that nobody holds or executes any more joins the free list.   *)
LEMMA JoinsFree ==
  ASSUME NEW t, NEW H, NEW C, TableOK(t, H, C),
         NEW id \in 1 .. Len(t.sp), ~Listed(t.free, id),
         NEW u, IsFreed(u, t, id),
         NEW HH, Without(id, H, HH), NEW CC, Without(id, C, CC)
  PROVE  TableOK(u, HH, CC)
<1> USE DEF IsFreed, Without
<1>1. t.free \in Seq(Nat \ {0}) /\ id \in Nat \ {0} /\ Once(t.free) /\ t \in Fwd!Table
  BY TableParts DEF TableOK
<1>2. Once(u.free) /\ \A j : Listed(u.free, j) <=> Listed(t.free, j) \/ j = id
  BY <1>1, ListedMore
<1>3. \A j \in 1 .. Len(u.free) : u.free[j] \in 1 .. Len(t.sp)
  <2> TAKE j \in 1 .. Len(u.free)
  <2>1. Listed(u.free, u.free[j])
    BY DEF Listed
  <2>2. \A i : Listed(t.free, i) => i \in 1 .. Len(t.sp)
    BY DEF Listed, TableOK
  <2> QED BY <1>2, <2>1, <2>2
<1>4. InTable(t, HH) /\ InTable(t, CC) /\ Apart(HH)
  BY DEF TableOK, InTable, Apart
<1>5. ObjectOK(u, id, HH, CC)
  BY <1>2 DEF ObjectOK, Has
<1> QED BY <1>2, <1>3, <1>4, <1>5, OneForward

(* A forward with a holder or a call is not free.                          *)
LEMMA NotListed ==
  ASSUME CallbacksAssumption, NEW t, NEW H, NEW C, TableOK(t, H, C)
  PROVE  /\ \A h \in H : /\ h.fwd \in 1 .. Len(t.sp) /\ ~Listed(t.free, h.fwd)
                         /\ ~t.sp[h.fwd].isFree /\ ~t.sp[h.fwd].toDelete
                         /\ t.sp[h.fwd].func = h.plugin
         /\ \A c \in C : c.fwd \in 1 .. Len(t.sp) /\ ~Listed(t.free, c.fwd)
<1>1. ASSUME NEW h \in H
      PROVE  /\ h.fwd \in 1 .. Len(t.sp) /\ ~Listed(t.free, h.fwd)
             /\ ~t.sp[h.fwd].isFree /\ ~t.sp[h.fwd].toDelete
             /\ t.sp[h.fwd].func = h.plugin
  <2>1. h.fwd \in 1 .. Len(t.sp) /\ h.plugin # NoPlugin
    BY DEF TableOK, InTable, CallbacksAssumption
  <2>2. ObjectOK(t, h.fwd, H, C)
    BY <2>1 DEF TableOK
  <2> QED BY <2>1, <2>2 DEF ObjectOK
<1>2. ASSUME NEW c \in C
      PROVE  c.fwd \in 1 .. Len(t.sp) /\ ~Listed(t.free, c.fwd)
  <2>1. c.fwd \in 1 .. Len(t.sp) /\ c.plugin # NoPlugin
    BY DEF TableOK, InTable, CallbacksAssumption
  <2>2. ObjectOK(t, c.fwd, H, C)
    BY <2>1 DEF TableOK
  <2> QED BY <2>1, <2>2 DEF ObjectOK
<1> QED BY <1>1, <1>2

(* unregisterSPForward() of a forward that has a holder.                   *)
LEMMA UnregisteredOK ==
  ASSUME CallbacksAssumption, NEW t, NEW H, NEW C, TableOK(t, H, C), NEW h \in H
  PROVE  LET u == Fwd!Unregistered(t, h.fwd)
         IN  TableOK(u, H \ {h}, C) /\ Len(u.sp) = Len(t.sp)
<1> DEFINE id == h.fwd
           u  == Fwd!Unregistered(t, id)
           HH == H \ {h}
<1>1. /\ t \in Fwd!Table /\ id \in 1 .. Len(t.sp) /\ ~Listed(t.free, id)
      /\ t.sp[id] \in Fwd!Forward /\ ~t.sp[id].isFree /\ ~t.sp[id].toDelete
      /\ ObjectOK(t, id, H, C)
  BY NotListed, TableParts DEF TableOK
<1>2. HH \subseteq H /\ Elsewhere(id, HH, H) /\ ~Has(HH, id)
  BY DEF TableOK, Apart, Elsewhere, Has
<1>3. Elsewhere(id, C, C)
  BY DEF Elsewhere
<1>4. Fwd!IsIdValid(t, id)
  BY <1>1 DEF Fwd!IsIdValid
<1> HIDE DEF id, HH
<1>5. ASSUME t.sp[id].inExec
      PROVE  TableOK(u, HH, C) /\ Len(u.sp) = Len(t.sp)
  <2> DEFINE o == [t.sp[id] EXCEPT !.toDelete = TRUE]
  <2>1. u = With(t, id, o)
    BY <1>1, <1>4, <1>5, OperationsAre DEF Fwd!Unregistered
  <2>2. /\ o \in Fwd!Forward /\ o.toDelete /\ o.func = t.sp[id].func
        /\ o.inExec = t.sp[id].inExec /\ o.isFree = t.sp[id].isFree
    BY <1>1, ObjectParts
  <2> HIDE DEF o, u
  <2>3. /\ u \in Fwd!Table /\ u.free = t.free /\ Len(u.sp) = Len(t.sp)
        /\ u.sp[id] = o
        /\ \A j \in 1 .. Len(t.sp) : j # id => u.sp[j] = t.sp[j]
    BY <1>1, <2>1, <2>2, WithParts
  <2>4. InTable(t, HH) /\ InTable(t, C) /\ Apart(HH)
    BY <1>2 DEF TableOK, InTable, Apart
  <2>5. /\ Once(u.free) /\ \A j \in 1 .. Len(u.free) : u.free[j] \in 1 .. Len(t.sp)
        /\ \A j : j # id => (Listed(u.free, j) <=> Listed(t.free, j))
    <3>1. Once(t.free) /\ \A j \in 1 .. Len(t.free) : t.free[j] \in 1 .. Len(t.sp)
      BY DEF TableOK
    <3>2. u.free = t.free
      BY <2>3
    <3> QED BY <3>1, <3>2
  <2>6. ObjectOK(u, id, HH, C)
    BY <1>1, <1>2, <1>5, <2>2, <2>3 DEF ObjectOK, Has
  <2>7. TableOK(u, HH, C)
    BY <1>1, <1>2, <1>3, <2>3, <2>4, <2>5, <2>6, OneForward
  <2> QED BY <2>3, <2>7
<1>6. ASSUME ~t.sp[id].inExec
      PROVE  TableOK(u, HH, C) /\ Len(u.sp) = Len(t.sp)
  <2>1. u = Fwd!Freed(t, id)
    BY <1>1, <1>4, <1>6 DEF Fwd!Unregistered
  <2> HIDE DEF u
  <2>2. /\ u \in Fwd!Table /\ u.free = Append(t.free, id) /\ Len(u.sp) = Len(t.sp)
        /\ u.sp[id] = [t.sp[id] EXCEPT !.isFree = TRUE]
        /\ \A j \in 1 .. Len(t.sp) : j # id => u.sp[j] = t.sp[j]
    <3> DEFINE v == Fwd!Freed(t, id)
    <3>1. /\ v \in Fwd!Table /\ v.free = Append(t.free, id) /\ Len(v.sp) = Len(t.sp)
          /\ v.sp[id] = [t.sp[id] EXCEPT !.isFree = TRUE]
          /\ \A j \in 1 .. Len(t.sp) : j # id => v.sp[j] = t.sp[j]
      BY <1>1, FreedParts
    <3>2. u = v
      BY <2>1
    <3> HIDE DEF v
    <3> QED BY <3>1, <3>2
  <2>3. u.sp[id].isFree /\ ~u.sp[id].inExec /\ ~u.sp[id].toDelete
    BY <1>1, <1>6, <2>2, ObjectParts
  <2>4. ~Has(C, id)
    BY <1>1, <1>6 DEF ObjectOK, Has
  <2>5. IsFreed(u, t, id)
    BY <2>2, <2>3 DEF IsFreed
  <2>6. Without(id, H, HH) /\ Without(id, C, C)
    BY <1>2, <1>3, <2>4 DEF Without
  <2>7. TableOK(u, HH, C)
    BY <1>1, <2>5, <2>6, JoinsFree
  <2> QED BY <2>2, <2>7
<1>7. TableOK(u, HH, C) /\ Len(u.sp) = Len(t.sp)
  BY <1>5, <1>6
<1> QED BY <1>7 DEF HH, id, u

LEMMA NothingUnregistered ==
  ASSUME NEW t
  PROVE  Fwd!Unregistered(t, Fwd!NoForward) = t /\ Fwd!Settled(t, Fwd!NoForward) = t
  BY DEF Fwd!Unregistered, Fwd!Settled, Fwd!NoForward, Fwd!IsIdValid

(* A forward that has a holder is not deleted by executing it.             *)
LEMMA SettledSame ==
  ASSUME CallbacksAssumption, NEW t, NEW H, NEW C, TableOK(t, H, C), NEW h \in H
  PROVE  Fwd!Settled(t, h.fwd) = t
  BY NotListed DEF Fwd!Settled

(* registerSPForward() when the free list is empty: one more forward.      *)
LEMMA AppendedOK ==
  ASSUME NEW t, NEW H, NEW C, TableOK(t, H, C), NEW f \in Plugin,
         NEW x, x.fwd = Len(t.sp) + 1, x.plugin = f
  PROVE  LET u == [t EXCEPT !.sp = Append(t.sp, Fwd!Set(f))]
         IN  TableOK(u, H \cup {x}, C) /\ Len(u.sp) = Len(t.sp) + 1
<1> DEFINE o  == Fwd!Set(f)
           sp == Append(t.sp, o)
           u  == [t EXCEPT !.sp = sp]
           n  == Len(t.sp)
           id == n + 1
           HH == H \cup {x}
<1>1. /\ t \in Fwd!Table /\ t.sp \in Seq(Fwd!Forward) /\ t.free \in Seq(Nat \ {0})
      /\ n \in Nat
  BY TableParts DEF TableOK
<1>2. /\ o \in Fwd!Forward /\ o.func = f
      /\ ~o.isFree /\ ~o.inExec /\ ~o.toDelete
  BY SetParts
<1> HIDE DEF o
<1>3. /\ sp \in Seq(Fwd!Forward) /\ Len(sp) = n + 1 /\ sp[id] = o
      /\ \A j \in 1 .. n : sp[j] = t.sp[j]
  BY <1>1, <1>2, Longer
<1> HIDE DEF sp
<1>4. u \in Fwd!Table /\ u.sp = sp /\ u.free = t.free
  BY <1>1, <1>3, TableSet
<1> HIDE DEF u
<1>5. /\ \A h \in H : h.fwd \in 1 .. n /\ h.plugin \in Plugin
      /\ \A c \in C : c.fwd \in 1 .. n /\ c.plugin \in Plugin
      /\ \A j : Listed(t.free, j) => j \in 1 .. n
  BY DEF TableOK, InTable, Listed
<1>6. id \notin 1 .. n /\ 1 .. Len(u.sp) = (1 .. n) \cup {id}
  BY <1>1, <1>3, <1>4
<1> HIDE DEF n, id
<1>7. InTable(u, HH) /\ InTable(u, C) /\ Apart(HH)
  <2>1. InTable(u, HH) /\ InTable(u, C)
    BY <1>5, <1>6 DEF InTable, n, id
  <2>2. Apart(HH)
    BY <1>5, <1>6 DEF Apart, TableOK, n, id
  <2> QED BY <2>1, <2>2
<1>8. \A j \in 1 .. Len(u.free) : u.free[j] \in 1 .. Len(u.sp)
  BY <1>4, <1>6 DEF TableOK, n
<1>9. ASSUME NEW j \in 1 .. n
      PROVE  ObjectOK(u, j, HH, C)
  <2>1. ObjectOK(t, j, H, C) /\ u.sp[j] = t.sp[j] /\ u.free = t.free
    BY <1>3, <1>4 DEF TableOK, n
  <2>2. Has(H, j) => Has(HH, j)
    BY DEF Has
  <2>3. \A h \in HH : h.fwd = j => h \in H
    BY <1>6 DEF n, id
  <2> HIDE DEF HH
  <2> QED BY <2>1, <2>2, <2>3 DEF ObjectOK
<1>10. ObjectOK(u, id, HH, C)
  <2>1. u.sp[id] = o /\ ~Listed(u.free, id) /\ Has(HH, id) /\ ~Has(C, id)
    BY <1>3, <1>4, <1>5, <1>6 DEF Has, n, id
  <2>2. \A h \in HH : h.fwd = id => h.plugin = f
    BY <1>5, <1>6
  <2> HIDE DEF HH
  <2> QED BY <1>2, <2>1, <2>2 DEF ObjectOK, Has
<1>11. \A j \in 1 .. Len(u.sp) : ObjectOK(u, j, HH, C)
  BY <1>6, <1>9, <1>10
<1>12. TableOK(u, HH, C)
  BY <1>4, <1>7, <1>8, <1>11 DEF TableOK
<1> QED BY <1>3, <1>4, <1>12 DEF u, HH, sp, o, n

(* registerSPForward() that takes the top of the free list.                *)
LEMMA ReusedOK ==
  ASSUME CallbacksAssumption, NEW t, NEW H, NEW C, TableOK(t, H, C), t.free # <<>>,
         NEW f \in Plugin, NEW x, x.fwd = Fwd!Front(t), x.plugin = f
  PROVE  LET u == [sp |-> [t.sp EXCEPT ![Fwd!Front(t)] = Fwd!Set(f)],
                   free |-> Fwd!Popped(t.free)]
         IN  /\ TableOK(u, H \cup {x}, C) /\ Len(u.sp) = Len(t.sp)
             /\ Fwd!Front(t) \in 1 .. Len(t.sp)
<1> DEFINE id == Fwd!Front(t)
           o  == Fwd!Set(f)
           sp == [t.sp EXCEPT ![id] = o]
           free == Fwd!Popped(t.free)
           u  == [sp |-> sp, free |-> free]
           HH == H \cup {x}
<1>1. /\ t \in Fwd!Table /\ t.sp \in Seq(Fwd!Forward) /\ t.free \in Seq(Nat \ {0})
      /\ Once(t.free)
  BY TableParts DEF TableOK
<1>2. /\ free \in Seq(Nat \ {0}) /\ Once(free) /\ Listed(t.free, id)
      /\ \A j : Listed(free, j) <=> Listed(t.free, j) /\ j # id
      /\ \A j \in 1 .. Len(free) : Listed(t.free, free[j])
  BY <1>1, ListedLess DEF Fwd!Popped, Fwd!Front
<1>3. /\ o \in Fwd!Forward /\ o.func = f
      /\ ~o.isFree /\ ~o.inExec /\ ~o.toDelete
  BY SetParts
<1>4. \A j : Listed(t.free, j) => j \in 1 .. Len(t.sp)
  BY DEF TableOK, Listed
<1>5. id \in 1 .. Len(t.sp)
  BY <1>2, <1>4
<1> HIDE DEF o, id, free
<1>6. /\ sp \in Seq(Fwd!Forward) /\ Len(sp) = Len(t.sp) /\ sp[id] = o
      /\ \A j \in 1 .. Len(t.sp) : j # id => sp[j] = t.sp[j]
  BY <1>1, <1>3, <1>5, Changed
<1> HIDE DEF sp
<1>7. u \in Fwd!Table /\ u.sp = sp /\ u.free = free
  BY <1>1, <1>2, <1>6, TableSet
<1> HIDE DEF u
<1>8. ~Has(H, id) /\ ~Has(C, id)
  BY <1>2, NotListed DEF Has
<1>9. Elsewhere(id, HH, H) /\ Elsewhere(id, C, C)
  BY DEF Elsewhere, id
<1>10. InTable(t, HH) /\ InTable(t, C) /\ Apart(HH)
  <2>1. InTable(t, HH) /\ InTable(t, C)
    BY <1>5 DEF InTable, TableOK, id
  <2>2. Apart(HH)
    BY <1>8 DEF Apart, TableOK, Has, id
  <2> QED BY <2>1, <2>2
<1>11. \A j \in 1 .. Len(u.free) : u.free[j] \in 1 .. Len(t.sp)
  BY <1>2, <1>4, <1>7
<1>12. ObjectOK(u, id, HH, C)
  <2>1. u.sp[id] = o /\ ~Listed(u.free, id) /\ Has(HH, id) /\ ~Has(C, id)
    BY <1>2, <1>6, <1>7, <1>8 DEF Has, id
  <2>2. \A h \in HH : h.fwd = id => h.plugin = f
    BY <1>8 DEF Has
  <2> HIDE DEF HH
  <2> QED BY <1>3, <2>1, <2>2 DEF ObjectOK, Has
<1>13. TableOK(u, HH, C)
  BY <1>2, <1>5, <1>6, <1>7, <1>9, <1>10, <1>11, <1>12, OneForward
<1> QED BY <1>5, <1>6, <1>7, <1>13 DEF u, HH, sp, o, id, free

LEMMA RegisteredOK ==
  ASSUME CallbacksAssumption, NEW t, NEW H, NEW C, TableOK(t, H, C), NEW f \in Plugin,
         NEW x, x.fwd = Fwd!RegisteredId(t, f), x.plugin = f
  PROVE  LET u == Fwd!Registered(t, f)
         IN  /\ TableOK(u, H \cup {x}, C) /\ Len(u.sp) >= Len(t.sp)
             /\ Fwd!RegisteredId(t, f) \in 1 .. Len(u.sp)
             /\ Fwd!RegisteredId(t, f) # Fwd!NoForward
<1>1. f # NoPlugin /\ Len(t.sp) \in Nat
  BY TableParts DEF CallbacksAssumption, TableOK
<1>2. CASE t.free = <<>>
  <2>1. Fwd!RegisteredId(t, f) = Len(t.sp) + 1
    BY <1>1, <1>2 DEF Fwd!RegisteredId
  <2>2. Fwd!Registered(t, f) = [t EXCEPT !.sp = Append(t.sp, Fwd!Set(f))]
    BY <1>1, <1>2 DEF Fwd!Registered
  <2> DEFINE u == [t EXCEPT !.sp = Append(t.sp, Fwd!Set(f))]
  <2>3. TableOK(u, H \cup {x}, C) /\ Len(u.sp) = Len(t.sp) + 1
    BY <2>1, AppendedOK
  <2> HIDE DEF u
  <2> QED BY <1>1, <2>1, <2>2, <2>3 DEF Fwd!NoForward, u
<1>3. CASE t.free # <<>>
  <2>1. Fwd!RegisteredId(t, f) = Fwd!Front(t)
    BY <1>1, <1>3 DEF Fwd!RegisteredId
  <2> DEFINE u == [sp |-> [t.sp EXCEPT ![Fwd!Front(t)] = Fwd!Set(f)],
                   free |-> Fwd!Popped(t.free)]
  <2>2. Fwd!Registered(t, f) = u
    BY <1>1, <1>3 DEF Fwd!Registered
  <2>3. /\ TableOK(u, H \cup {x}, C) /\ Len(u.sp) = Len(t.sp)
        /\ Fwd!Front(t) \in 1 .. Len(t.sp)
    BY <1>3, <2>1, ReusedOK
  <2> HIDE DEF u
  <2> QED BY <1>1, <2>1, <2>2, <2>3 DEF Fwd!NoForward
<1> QED BY <1>2, <1>3

(* registerSPForward() of a function that there is not: the object that    *)
(* was set stays on the free list.                                         *)
LEMMA NoneRegistered ==
  ASSUME CallbacksAssumption, NEW t, NEW H, NEW C, TableOK(t, H, C)
  PROVE  LET u == Fwd!Registered(t, NoPlugin)
         IN  TableOK(u, H, C) /\ Len(u.sp) = Len(t.sp)
<1>1. CASE t.free = <<>>
  BY <1>1 DEF Fwd!Registered
<1>2. CASE t.free # <<>>
  <2> DEFINE id == Fwd!Front(t)
             o  == Fwd!Set(NoPlugin)
             sp == [t.sp EXCEPT ![id] = o]
             u  == [sp |-> sp, free |-> t.free]
  <2>1. /\ t \in Fwd!Table /\ t.sp \in Seq(Fwd!Forward) /\ t.free \in Seq(Nat \ {0})
        /\ Once(t.free)
    BY TableParts DEF TableOK
  <2>2. Listed(t.free, id)
    BY <1>2, <2>1, ListedLess DEF Fwd!Front
  <2>3. /\ o \in Fwd!Forward /\ o.func = NoPlugin
        /\ ~o.isFree /\ ~o.inExec /\ ~o.toDelete
    BY SetParts
  <2>4. id \in 1 .. Len(t.sp)
    BY <2>2 DEF TableOK, Listed
  <2> HIDE DEF o, id
  <2>5. /\ sp \in Seq(Fwd!Forward) /\ Len(sp) = Len(t.sp) /\ sp[id] = o
        /\ \A j \in 1 .. Len(t.sp) : j # id => sp[j] = t.sp[j]
    BY <2>1, <2>3, <2>4, Changed
  <2> HIDE DEF sp
  <2>6. u \in Fwd!Table /\ u.sp = sp /\ u.free = t.free
    BY <2>1, <2>5, TableSet
  <2> HIDE DEF u
  <2>7. ~Has(H, id) /\ ~Has(C, id)
    BY <2>2, NotListed DEF Has
  <2>8. ObjectOK(u, id, H, C)
    BY <2>2, <2>3, <2>5, <2>6, <2>7 DEF ObjectOK, Has
  <2>9. /\ Elsewhere(id, H, H) /\ Elsewhere(id, C, C)
        /\ InTable(t, H) /\ InTable(t, C) /\ Apart(H)
        /\ \A j \in 1 .. Len(t.free) : t.free[j] \in 1 .. Len(t.sp)
    BY DEF TableOK, Elsewhere
  <2>10. TableOK(u, H, C)
    BY <2>1, <2>4, <2>5, <2>6, <2>8, <2>9, OneForward
  <2>11. Fwd!Registered(t, NoPlugin) = u
    BY <1>2 DEF Fwd!Registered, u, sp, o, id
  <2> QED BY <2>5, <2>6, <2>10, <2>11
<1> QED BY <1>1, <1>2

(* A call through a forward: one more is under way. *)
LEMMA EnteredOK ==
  ASSUME NEW t, NEW H, NEW C, TableOK(t, H, C),
         NEW id \in 1 .. Len(t.sp), ~t.sp[id].isFree, ~t.sp[id].toDelete,
         t.sp[id].func \in Plugin,
         NEW x, x.fwd = id, x.plugin = t.sp[id].func
  PROVE  LET u == Fwd!Entered(t, id)
         IN  TableOK(u, H, C \cup {x}) /\ Len(u.sp) = Len(t.sp)
<1> DEFINE o  == [t.sp[id] EXCEPT !.inExec = TRUE]
           u  == Fwd!Entered(t, id)
           CC == C \cup {x}
<1>1. t \in Fwd!Table /\ t.sp[id] \in Fwd!Forward /\ ObjectOK(t, id, H, C)
  BY TableParts DEF TableOK
<1>2. u = With(t, id, o)
  BY <1>1, OperationsAre
<1>3. /\ o \in Fwd!Forward /\ o.inExec /\ o.func = t.sp[id].func
      /\ o.toDelete = t.sp[id].toDelete /\ o.isFree = t.sp[id].isFree
  BY <1>1, ObjectParts
<1> HIDE DEF o, u
<1>4. /\ u \in Fwd!Table /\ u.free = t.free /\ Len(u.sp) = Len(t.sp)
      /\ u.sp[id] = o
      /\ \A j \in 1 .. Len(t.sp) : j # id => u.sp[j] = t.sp[j]
  BY <1>1, <1>2, <1>3, WithParts
<1>5. /\ InTable(t, H) /\ InTable(t, C) /\ Apart(H) /\ Once(u.free)
      /\ \A j \in 1 .. Len(u.free) : u.free[j] \in 1 .. Len(t.sp)
  BY <1>4 DEF TableOK
<1>6. InTable(t, CC)
  BY <1>5 DEF InTable
<1>7. Elsewhere(id, H, H) /\ Elsewhere(id, CC, C) /\ Has(CC, id)
  BY DEF Elsewhere, Has
<1>8. \A c \in CC : c.fwd = id => c \in C \/ c.plugin = t.sp[id].func
  OBVIOUS
<1> HIDE DEF CC
<1>9. ObjectOK(u, id, H, CC)
  BY <1>1, <1>3, <1>4, <1>7, <1>8 DEF ObjectOK
<1>10. TableOK(u, H, CC)
  BY <1>4, <1>5, <1>6, <1>7, <1>9, OneForward
<1> QED BY <1>4, <1>10 DEF u, CC

(* The function has returned: no call through the forward is under way     *)
(* but those that it was nested in, and it may have been unregistered.     *)
LEMMA LeftOK ==
  ASSUME CallbacksAssumption, NEW t, NEW H, NEW C, TableOK(t, H, C),
         NEW id \in 1 .. Len(t.sp), NEW CC,
         CC \subseteq C, Elsewhere(id, CC, C), ~Has(CC, id)
  PROVE  LET u == Fwd!Left(t, id)
         IN  TableOK(u, H, CC) /\ Len(u.sp) = Len(t.sp)
<1> DEFINE o == [t.sp[id] EXCEPT !.inExec = FALSE]
           v == With(t, id, o)
           u == Fwd!Left(t, id)
<1>1. /\ t \in Fwd!Table /\ t.sp[id] \in Fwd!Forward /\ ObjectOK(t, id, H, C)
      /\ Len(t.sp) \in Nat
  BY TableParts DEF TableOK
<1>2. u = Fwd!Settled(v, id)
  BY <1>1, OperationsAre DEF Fwd!Left
<1>3. /\ o \in Fwd!Forward /\ ~o.inExec /\ o.func = t.sp[id].func
      /\ o.toDelete = t.sp[id].toDelete /\ o.isFree = t.sp[id].isFree
  BY <1>1, ObjectParts
<1> HIDE DEF o
<1>4. /\ v \in Fwd!Table /\ v.free = t.free /\ Len(v.sp) = Len(t.sp)
      /\ v.sp[id] = o
      /\ \A j \in 1 .. Len(t.sp) : j # id => v.sp[j] = t.sp[j]
  BY <1>1, <1>3, WithParts
<1> HIDE DEF v, u
<1>5. Fwd!IsIdValid(v, id)
  BY <1>4 DEF Fwd!IsIdValid
<1>6. Elsewhere(id, H, H)
  BY DEF Elsewhere
<1>7. CASE ~t.sp[id].toDelete
  <2>1. u = v
    BY <1>2, <1>3, <1>4, <1>7 DEF Fwd!Settled
  <2>2. /\ InTable(t, H) /\ InTable(t, CC) /\ Apart(H) /\ Once(v.free)
        /\ \A j \in 1 .. Len(v.free) : v.free[j] \in 1 .. Len(t.sp)
    BY <1>4 DEF TableOK, InTable
  <2>3. ObjectOK(v, id, H, CC)
    BY <1>1, <1>3, <1>4, <1>7 DEF ObjectOK, Has
  <2>4. TableOK(v, H, CC)
    BY <1>4, <1>6, <2>2, <2>3, OneForward
  <2> QED BY <1>4, <2>1, <2>4 DEF u
<1>8. CASE t.sp[id].toDelete
  <2> DEFINE p == [o EXCEPT !.toDelete = FALSE]
             w == With(v, id, p)
  <2>1. /\ p \in Fwd!Forward /\ ~p.toDelete /\ p.func = o.func
        /\ p.inExec = o.inExec /\ p.isFree = o.isFree
    BY <1>3, ObjectParts
  <2>2. [v EXCEPT !.sp[id].toDelete = FALSE] = w
    BY <1>4, OperationsAre
  <2>3. u = Fwd!Unregistered(w, id)
    BY <1>2, <1>3, <1>4, <1>5, <1>8, <2>2 DEF Fwd!Settled
  <2> HIDE DEF p
  <2>4. /\ w \in Fwd!Table /\ w.free = v.free /\ Len(w.sp) = Len(v.sp)
        /\ w.sp[id] = p
        /\ \A j \in 1 .. Len(v.sp) : j # id => w.sp[j] = v.sp[j]
    BY <1>4, <2>1, WithParts
  <2> HIDE DEF w
  <2>5. /\ ~t.sp[id].isFree /\ ~Has(H, id) /\ ~Listed(t.free, id)
    <3>1. Has(C, id)
      BY <1>1, <1>8 DEF ObjectOK
    <3>2. ~Listed(t.free, id)
      BY <3>1, NotListed DEF Has
    <3> QED BY <1>1, <1>8, <3>1, <3>2 DEF ObjectOK, Has
  <2>6. u = Fwd!Freed(w, id) /\ id \in 1 .. Len(w.sp)
    BY <1>3, <1>4, <2>1, <2>3, <2>4, <2>5 DEF Fwd!Unregistered, Fwd!IsIdValid
  <2>7. /\ u \in Fwd!Table /\ u.free = Append(w.free, id) /\ Len(u.sp) = Len(w.sp)
        /\ u.sp[id] = [w.sp[id] EXCEPT !.isFree = TRUE]
        /\ \A j \in 1 .. Len(w.sp) : j # id => u.sp[j] = w.sp[j]
    <3> DEFINE r == Fwd!Freed(w, id)
    <3>1. /\ r \in Fwd!Table /\ r.free = Append(w.free, id) /\ Len(r.sp) = Len(w.sp)
          /\ r.sp[id] = [w.sp[id] EXCEPT !.isFree = TRUE]
          /\ \A j \in 1 .. Len(w.sp) : j # id => r.sp[j] = w.sp[j]
      BY <2>4, <2>6, FreedParts
    <3>2. u = r
      BY <2>6
    <3> HIDE DEF r
    <3> QED BY <3>1, <3>2
  <2>8. u.sp[id].isFree /\ ~u.sp[id].inExec /\ ~u.sp[id].toDelete
    BY <1>3, <2>1, <2>4, <2>7, ObjectParts
  <2>9. /\ u.free = Append(t.free, id) /\ Len(u.sp) = Len(t.sp)
        /\ \A j \in 1 .. Len(t.sp) : j # id => u.sp[j] = t.sp[j]
    BY <1>4, <2>4, <2>7
  <2>10. /\ u \in Fwd!Table /\ H \subseteq H /\ Elsewhere(id, H, H)
         /\ ~Has(H, id) /\ ~Listed(t.free, id)
    BY <2>5, <2>7 DEF Elsewhere
  <2>11. IsFreed(u, t, id)
    BY <2>8, <2>9, <2>10 DEF IsFreed
  <2>12. Without(id, H, H) /\ Without(id, C, CC)
    BY <2>10, <1>5 DEF Without
  <2>13. TableOK(u, H, CC)
    BY <2>10, <2>11, <2>12, JoinsFree
  <2> QED BY <2>9, <2>13 DEF u
<1> QED BY <1>7, <1>8

LEMMA ListedBoth ==
  ASSUME NEW free \in Seq(Nat \ {0}), NEW more \in Seq(Nat \ {0}),
         Once(free), Once(more), \A j : ~(Listed(free, j) /\ Listed(more, j))
  PROVE  LET both == free \o more
         IN  /\ both \in Seq(Nat \ {0}) /\ Once(both)
             /\ \A j : Listed(both, j) <=> Listed(free, j) \/ Listed(more, j)
<1> DEFINE both == free \o more
           m == Len(free)
           n == Len(more)
<1>1. m \in Nat /\ n \in Nat
  OBVIOUS
<1>2. /\ both \in Seq(Nat \ {0}) /\ Len(both) = m + n
      /\ \A j \in 1 .. m : both[j] = free[j]
      /\ \A j \in m + 1 .. m + n : both[j] = more[j - m]
  OBVIOUS
<1>3. /\ \A j : Listed(free, j) <=> (\E k \in 1 .. m : free[k] = j)
      /\ \A j : Listed(more, j) <=> (\E k \in 1 .. n : more[k] = j)
      /\ \A j : Listed(both, j) <=> (\E k \in 1 .. m + n : both[k] = j)
      /\ \A j, k \in 1 .. m : free[j] = free[k] => j = k
      /\ \A j, k \in 1 .. n : more[j] = more[k] => j = k
  BY <1>2 DEF Listed, Once
<1> HIDE DEF both, m, n
<1>4. \A j : Listed(both, j) <=> Listed(free, j) \/ Listed(more, j)
  <2> TAKE j
  <2>1. ASSUME NEW k \in 1 .. m + n, both[k] = j PROVE Listed(free, j) \/ Listed(more, j)
    <3>1. CASE k \in 1 .. m
      BY <1>2, <1>3, <2>1, <3>1
    <3>2. CASE k \notin 1 .. m
      <4>1. k - m \in 1 .. n /\ k \in m + 1 .. m + n
        BY <1>1, <3>2
      <4> QED BY <1>2, <1>3, <2>1, <4>1
    <3> QED BY <3>1, <3>2
  <2>2. ASSUME NEW k \in 1 .. m, free[k] = j PROVE Listed(both, j)
    <3>1. k \in 1 .. m + n
      BY <1>1
    <3> QED BY <1>2, <1>3, <2>2, <3>1
  <2>3. ASSUME NEW k \in 1 .. n, more[k] = j PROVE Listed(both, j)
    <3> DEFINE l == m + k
    <3>1. l \in m + 1 .. m + n /\ l \in 1 .. m + n /\ l - m = k
      BY <1>1
    <3> HIDE DEF l
    <3> QED BY <1>2, <1>3, <2>3, <3>1
  <2> QED BY <1>3, <2>1, <2>2, <2>3
<1>5. Once(both)
  <2> SUFFICES ASSUME NEW j \in 1 .. m + n, NEW k \in 1 .. m + n, both[j] = both[k]
               PROVE  j = k
    BY <1>2 DEF Once
  <2>1. CASE j \in 1 .. m /\ k \in 1 .. m
    BY <1>2, <1>3, <2>1
  <2>2. CASE j \notin 1 .. m /\ k \notin 1 .. m
    <3>1. /\ j - m \in 1 .. n /\ k - m \in 1 .. n
          /\ j \in m + 1 .. m + n /\ k \in m + 1 .. m + n
      BY <1>1, <2>2
    <3>2. both[j] = more[j - m] /\ both[k] = more[k - m]
      BY <1>2, <3>1
    <3>3. \A a, b \in 1 .. n : more[a] = more[b] => a = b
      BY <1>3
    <3>4. j - m = k - m
      BY <3>1, <3>2, <3>3
    <3> QED BY <1>1, <3>1, <3>4
  <2>3. ASSUME NEW a \in 1 .. m, NEW b \in 1 .. m + n, b \notin 1 .. m, both[a] = both[b]
        PROVE  FALSE
    <3>1. b - m \in 1 .. n /\ b \in m + 1 .. m + n
      BY <1>1, <2>3
    <3>2. Listed(free, both[a]) /\ Listed(more, both[b])
      BY <1>2, <1>3, <3>1
    <3> QED BY <2>3, <3>2
  <2> QED BY <2>1, <2>2, <2>3
<1> QED BY <1>2, <1>4, <1>5 DEF both

(* unregisterSPForward() of the forwards of several holders. *)
LEMMA AllUnregisteredOK ==
  ASSUME CallbacksAssumption, NEW t, NEW H, NEW C, TableOK(t, H, C),
         NEW G, G \subseteq H, NEW ids, \A j : j \in ids <=> Has(G, j),
         NEW order \in Seq(Nat \ {0}), Once(order),
         \A j : Listed(order, j) <=> j \in ids /\ ~t.sp[j].inExec
  PROVE  LET u == Fwd!AllUnregistered(t, ids, order)
         IN  TableOK(u, H \ G, C) /\ Len(u.sp) = Len(t.sp)
<1> DEFINE o(id) == IF id \notin ids \/ t.sp[id].isFree THEN t.sp[id]
                    ELSE IF t.sp[id].inExec THEN [t.sp[id] EXCEPT !.toDelete = TRUE]
                    ELSE [t.sp[id] EXCEPT !.isFree = TRUE]
           n    == Len(t.sp)
           sp   == [id \in 1 .. n |-> o(id)]
           free == t.free \o order
           u    == [sp |-> sp, free |-> free]
           HH   == H \ G
<1>1. /\ t \in Fwd!Table /\ t.sp \in Seq(Fwd!Forward) /\ t.free \in Seq(Nat \ {0})
      /\ Once(t.free) /\ n \in Nat
      /\ \A id \in 1 .. n : t.sp[id] \in Fwd!Forward /\ ObjectOK(t, id, H, C)
  BY TableParts DEF TableOK
<1>2. \A id \in ids : id \in 1 .. n /\ ~Listed(t.free, id) /\ ~t.sp[id].isFree /\ ~t.sp[id].toDelete
  BY NotListed DEF Has
<1>3. ASSUME NEW id \in 1 .. n
      PROVE  /\ o(id) \in Fwd!Forward
             /\ o(id).func = t.sp[id].func /\ o(id).inExec = t.sp[id].inExec
             /\ id \notin ids => o(id) = t.sp[id]
             /\ id \in ids => IF t.sp[id].inExec THEN o(id).toDelete /\ ~o(id).isFree
                                                 ELSE o(id).isFree /\ ~o(id).toDelete
  <2>1. CASE id \notin ids
    BY <1>1, <2>1
  <2>2. CASE id \in ids /\ t.sp[id].inExec
    <3> DEFINE p == [t.sp[id] EXCEPT !.toDelete = TRUE]
    <3>1. o(id) = p /\ t.sp[id] \in Fwd!Forward
      BY <1>1, <1>2, <2>2
    <3>2. /\ p \in Fwd!Forward /\ p.toDelete /\ p.func = t.sp[id].func
          /\ p.inExec = t.sp[id].inExec /\ p.isFree = t.sp[id].isFree
      BY <3>1, ObjectParts
    <3> HIDE DEF o, p
    <3> QED BY <1>2, <2>2, <3>1, <3>2
  <2>3. CASE id \in ids /\ ~t.sp[id].inExec
    <3> DEFINE p == [t.sp[id] EXCEPT !.isFree = TRUE]
    <3>1. o(id) = p /\ t.sp[id] \in Fwd!Forward
      BY <1>1, <1>2, <2>3
    <3>2. /\ p \in Fwd!Forward /\ p.isFree /\ p.func = t.sp[id].func
          /\ p.inExec = t.sp[id].inExec /\ p.toDelete = t.sp[id].toDelete
      BY <3>1, ObjectParts
    <3> HIDE DEF o, p
    <3> QED BY <1>2, <2>3, <3>1, <3>2
  <2> QED BY <2>1, <2>2, <2>3
<1>4. Fwd!AllUnregistered(t, ids, order) = u
  BY DEF Fwd!AllUnregistered
<1> HIDE DEF o, n
<1>5. sp \in Seq(Fwd!Forward) /\ Len(sp) = n /\ \A id \in 1 .. n : sp[id] = o(id)
  BY <1>1, <1>3
<1> HIDE DEF sp
<1>6. /\ free \in Seq(Nat \ {0}) /\ Once(free)
      /\ \A j : Listed(free, j) <=> Listed(t.free, j) \/ (j \in ids /\ ~t.sp[j].inExec)
  <2>1. \A j : ~(Listed(t.free, j) /\ Listed(order, j))
    BY <1>2
  <2> QED BY <1>1, <2>1, ListedBoth
<1> HIDE DEF free
<1>7. u \in Fwd!Table /\ u.sp = sp /\ u.free = free
  BY <1>1, <1>5, <1>6, TableSet
<1> HIDE DEF u
<1>8. \A j \in 1 .. Len(u.free) : u.free[j] \in 1 .. n
  <2> TAKE j \in 1 .. Len(u.free)
  <2>1. Listed(free, free[j])
    BY <1>7 DEF Listed
  <2>2. \A i : Listed(t.free, i) => i \in 1 .. n
    BY DEF Listed, TableOK, n
  <2> QED BY <1>2, <1>6, <1>7, <2>1, <2>2
<1>9. InTable(u, HH) /\ InTable(u, C) /\ Apart(HH)
  BY <1>5, <1>7 DEF TableOK, InTable, Apart, n
<1>10. ASSUME NEW id \in 1 .. n
       PROVE  ObjectOK(u, id, HH, C)
  <2>1. u.sp[id] = o(id) /\ ObjectOK(t, id, H, C) /\ u.free = free
    BY <1>1, <1>5, <1>7
  <2>2. CASE id \notin ids
    <3>1. u.sp[id] = t.sp[id] /\ (Listed(u.free, id) <=> Listed(t.free, id))
      BY <1>3, <1>6, <2>1, <2>2
    <3>2. Has(HH, id) <=> Has(H, id)
      BY <2>2 DEF Has
    <3> HIDE DEF HH
    <3>3. \A h \in HH : h \in H
      BY DEF HH
    <3> QED BY <2>1, <3>1, <3>2, <3>3 DEF ObjectOK
  <2>3. CASE id \in ids
    <3>1. ~Has(HH, id)
      <4>1. PICK g \in G : g.fwd = id
        BY <2>3 DEF Has
      <4> QED BY <4>1 DEF Has, TableOK, Apart
    <3>2. ~Listed(t.free, id) /\ (Listed(u.free, id) <=> ~t.sp[id].inExec)
      BY <1>2, <1>6, <2>1, <2>3
    <3>3. /\ u.sp[id].func = t.sp[id].func /\ u.sp[id].inExec = t.sp[id].inExec
          /\ IF t.sp[id].inExec THEN u.sp[id].toDelete /\ ~u.sp[id].isFree
                                ELSE u.sp[id].isFree /\ ~u.sp[id].toDelete
      BY <1>3, <2>1, <2>3
    <3> HIDE DEF HH
    <3> QED BY <2>1, <3>1, <3>2, <3>3 DEF ObjectOK, Has
  <2> QED BY <2>2, <2>3
<1>11. TableOK(u, HH, C)
  BY <1>5, <1>6, <1>7, <1>8, <1>9, <1>10 DEF TableOK
<1> QED BY <1>4, <1>5, <1>7, <1>11 DEF n

(* What the operations leave of the table, whatever it holds.              *)
LEMMA WrittenTypes ==
  ASSUME NEW S, NEW s \in Seq(S), NEW i, NEW e \in S
  PROVE  /\ [s EXCEPT ![i] = e] \in Seq(S)
         /\ Len([s EXCEPT ![i] = e]) = Len(s)
<1>1. CASE i \in 1 .. Len(s)
  BY <1>1, Changed
<1>2. CASE i \notin 1 .. Len(s)
  <2>1. [s EXCEPT ![i] = e] = s
    BY <1>2
  <2> QED BY <2>1
<1> QED BY <1>1, <1>2

LEMMA RegisteredTypes ==
  ASSUME CallbacksAssumption, NEW t \in Fwd!Table, NEW f \in Plugin \cup {NoPlugin}
  PROVE  LET u  == Fwd!Registered(t, f)
             id == Fwd!RegisteredId(t, f)
         IN  /\ u \in Fwd!Table /\ Len(u.sp) >= Len(t.sp) /\ id \in Nat
             /\ id = Fwd!NoForward <=> f = NoPlugin
<1> DEFINE o == Fwd!Set(f)
           u == Fwd!Registered(t, f)
<1>1. /\ t.sp \in Seq(Fwd!Forward) /\ t.free \in Seq(Nat \ {0})
      /\ Len(t.sp) \in Nat /\ o \in Fwd!Forward
  BY TableParts, SetParts
<1> HIDE DEF o
<1>2. CASE t.free = <<>> /\ f = NoPlugin
  BY <1>1, <1>2 DEF Fwd!Registered, Fwd!RegisteredId, Fwd!NoForward
<1>3. CASE t.free = <<>> /\ f # NoPlugin
  <2> DEFINE sp == Append(t.sp, o)
  <2>1. u = [t EXCEPT !.sp = sp] /\ Fwd!RegisteredId(t, f) = Len(t.sp) + 1
    BY <1>3 DEF Fwd!Registered, Fwd!RegisteredId, o
  <2>2. sp \in Seq(Fwd!Forward) /\ Len(sp) = Len(t.sp) + 1
    BY <1>1, Longer
  <2> HIDE DEF sp
  <2>3. LET v == [t EXCEPT !.sp = sp]
        IN  v \in Fwd!Table /\ v.sp = sp
    BY <1>1, <2>2, TableSet
  <2> QED BY <1>1, <1>3, <2>1, <2>2, <2>3 DEF Fwd!NoForward
<1>4. CASE t.free # <<>>
  <2> DEFINE sp == [t.sp EXCEPT ![Fwd!Front(t)] = o]
             free == IF f = NoPlugin THEN t.free ELSE Fwd!Popped(t.free)
  <2>1. u = [sp |-> sp, free |-> free]
    BY <1>4 DEF Fwd!Registered, o
  <2>2. /\ Fwd!RegisteredId(t, f) = IF f = NoPlugin THEN 0 ELSE Fwd!Front(t)
        /\ Fwd!Front(t) \in Nat \ {0} /\ Fwd!Popped(t.free) \in Seq(Nat \ {0})
    BY <1>1, <1>4, Shorter
    DEF Fwd!RegisteredId, Fwd!NoForward, Fwd!Front, Fwd!Popped
  <2>3. sp \in Seq(Fwd!Forward) /\ Len(sp) = Len(t.sp)
    <3> DEFINE i == Fwd!Front(t)
               old == t.sp
    <3>1. old \in Seq(Fwd!Forward) /\ o \in Fwd!Forward
      BY <1>1
    <3> HIDE DEF i, old
    <3>2. [old EXCEPT ![i] = o] \in Seq(Fwd!Forward) /\ Len([old EXCEPT ![i] = o]) = Len(old)
      BY <3>1, WrittenTypes
    <3> QED BY <3>2 DEF i, old
  <2>4. free \in Seq(Nat \ {0})
    BY <1>1, <2>2
  <2> HIDE DEF sp, free
  <2>5. LET v == [sp |-> sp, free |-> free]
        IN  v \in Fwd!Table /\ v.sp = sp
    BY <1>1, <2>3, <2>4, TableSet
  <2> QED BY <1>1, <2>1, <2>2, <2>3, <2>5 DEF Fwd!NoForward
<1> QED BY <1>2, <1>3, <1>4

LEMMA WithTypes ==
  ASSUME NEW t \in Fwd!Table, NEW id \in 1 .. Len(t.sp)
  PROVE  /\ LET u == Fwd!Entered(t, id)
            IN  u \in Fwd!Table /\ Len(u.sp) = Len(t.sp)
         /\ LET u == [t EXCEPT !.sp[id].inExec = FALSE]
            IN  u \in Fwd!Table /\ Len(u.sp) = Len(t.sp)
         /\ LET u == [t EXCEPT !.sp[id].toDelete = FALSE]
            IN  u \in Fwd!Table /\ Len(u.sp) = Len(t.sp)
         /\ LET u == [t EXCEPT !.sp[id].toDelete = TRUE]
            IN  u \in Fwd!Table /\ Len(u.sp) = Len(t.sp)
<1>1. t.sp[id] \in Fwd!Forward
  BY TableParts
<1>2. \A o \in Fwd!Forward : With(t, id, o) \in Fwd!Table /\ Len(With(t, id, o).sp) = Len(t.sp)
  BY WithParts
<1> DEFINE o1 == [t.sp[id] EXCEPT !.inExec = TRUE]
           o2 == [t.sp[id] EXCEPT !.inExec = FALSE]
           o3 == [t.sp[id] EXCEPT !.toDelete = FALSE]
           o4 == [t.sp[id] EXCEPT !.toDelete = TRUE]
<1>3. /\ o1 \in Fwd!Forward /\ o2 \in Fwd!Forward
      /\ o3 \in Fwd!Forward /\ o4 \in Fwd!Forward
  BY <1>1, ObjectParts
<1>4. /\ Fwd!Entered(t, id) = With(t, id, o1)
      /\ [t EXCEPT !.sp[id].inExec = FALSE] = With(t, id, o2)
      /\ [t EXCEPT !.sp[id].toDelete = FALSE] = With(t, id, o3)
      /\ [t EXCEPT !.sp[id].toDelete = TRUE] = With(t, id, o4)
  BY OperationsAre
<1> HIDE DEF o1, o2, o3, o4
<1>5. /\ With(t, id, o1) \in Fwd!Table /\ Len(With(t, id, o1).sp) = Len(t.sp)
      /\ With(t, id, o2) \in Fwd!Table /\ Len(With(t, id, o2).sp) = Len(t.sp)
      /\ With(t, id, o3) \in Fwd!Table /\ Len(With(t, id, o3).sp) = Len(t.sp)
      /\ With(t, id, o4) \in Fwd!Table /\ Len(With(t, id, o4).sp) = Len(t.sp)
  BY <1>2, <1>3
<1> QED BY <1>4, <1>5

LEMMA UnregisteredTypes ==
  ASSUME NEW t \in Fwd!Table, NEW id
  PROVE  LET u == Fwd!Unregistered(t, id)
         IN  u \in Fwd!Table /\ Len(u.sp) = Len(t.sp)
<1>1. CASE ~Fwd!IsIdValid(t, id) \/ t.sp[id].isFree
  BY <1>1 DEF Fwd!Unregistered
<1>2. CASE Fwd!IsIdValid(t, id) /\ ~t.sp[id].isFree /\ t.sp[id].inExec
  <2>1. id \in 1 .. Len(t.sp)
    BY <1>2 DEF Fwd!IsIdValid
  <2> DEFINE v == [t EXCEPT !.sp[id].toDelete = TRUE]
  <2>2. Fwd!Unregistered(t, id) = v
    BY <1>2 DEF Fwd!Unregistered
  <2>3. v \in Fwd!Table /\ Len(v.sp) = Len(t.sp)
    BY <2>1, WithTypes
  <2> HIDE DEF v
  <2> QED BY <2>2, <2>3
<1>3. CASE Fwd!IsIdValid(t, id) /\ ~t.sp[id].isFree /\ ~t.sp[id].inExec
  <2>1. id \in 1 .. Len(t.sp)
    BY <1>3 DEF Fwd!IsIdValid
  <2>2. Fwd!Unregistered(t, id) = Fwd!Freed(t, id)
    BY <1>3 DEF Fwd!Unregistered
  <2> DEFINE v == Fwd!Freed(t, id)
  <2>3. v \in Fwd!Table /\ Len(v.sp) = Len(t.sp)
    BY <2>1, FreedParts
  <2> HIDE DEF v
  <2> QED BY <2>2, <2>3 DEF v
<1> QED BY <1>1, <1>2, <1>3

LEMMA SettledTypes ==
  ASSUME NEW t \in Fwd!Table, NEW id
  PROVE  /\ LET u == Fwd!Settled(t, id)
            IN  u \in Fwd!Table /\ Len(u.sp) = Len(t.sp)
         /\ id \in 1 .. Len(t.sp) =>
              LET u == Fwd!Left(t, id)
              IN  u \in Fwd!Table /\ Len(u.sp) = Len(t.sp)
<1>1. ASSUME NEW v \in Fwd!Table
      PROVE  LET u == Fwd!Settled(v, id)
             IN  u \in Fwd!Table /\ Len(u.sp) = Len(v.sp)
  <2> DEFINE w == [v EXCEPT !.sp[id].toDelete = FALSE]
  <2>1. CASE Fwd!IsIdValid(v, id) /\ v.sp[id].toDelete
    <3>1. w \in Fwd!Table /\ Len(w.sp) = Len(v.sp)
      BY <2>1, WithTypes DEF Fwd!IsIdValid
    <3>2. Fwd!Settled(v, id) = Fwd!Unregistered(w, id)
      BY <2>1 DEF Fwd!Settled
    <3> HIDE DEF w
    <3> QED BY <3>1, <3>2, UnregisteredTypes
  <2>2. CASE ~(Fwd!IsIdValid(v, id) /\ v.sp[id].toDelete)
    BY <2>2 DEF Fwd!Settled
  <2> QED BY <2>1, <2>2
<1>2. ASSUME id \in 1 .. Len(t.sp)
      PROVE  LET u == Fwd!Left(t, id)
             IN  u \in Fwd!Table /\ Len(u.sp) = Len(t.sp)
  <2> DEFINE v == [t EXCEPT !.sp[id].inExec = FALSE]
  <2>1. v \in Fwd!Table /\ Len(v.sp) = Len(t.sp)
    BY <1>2, WithTypes
  <2>2. Fwd!Left(t, id) = Fwd!Settled(v, id)
    BY DEF Fwd!Left
  <2> HIDE DEF v
  <2> QED BY <1>1, <2>1, <2>2
<1> QED BY <1>1, <1>2

LEMMA AllUnregisteredTypes ==
  ASSUME NEW t \in Fwd!Table, NEW ids, NEW order \in Seq(Nat \ {0})
  PROVE  LET u == Fwd!AllUnregistered(t, ids, order)
         IN  u \in Fwd!Table /\ Len(u.sp) = Len(t.sp)
<1> DEFINE o(id) == IF id \notin ids \/ t.sp[id].isFree THEN t.sp[id]
                    ELSE IF t.sp[id].inExec THEN [t.sp[id] EXCEPT !.toDelete = TRUE]
                    ELSE [t.sp[id] EXCEPT !.isFree = TRUE]
           sp   == [id \in 1 .. Len(t.sp) |-> o(id)]
           free == t.free \o order
<1>1. /\ t.free \in Seq(Nat \ {0}) /\ Len(t.sp) \in Nat
      /\ \A id \in 1 .. Len(t.sp) : t.sp[id] \in Fwd!Forward
  BY TableParts
<1>2. \A id \in 1 .. Len(t.sp) : /\ [t.sp[id] EXCEPT !.toDelete = TRUE] \in Fwd!Forward
                                 /\ [t.sp[id] EXCEPT !.isFree = TRUE] \in Fwd!Forward
  BY <1>1, ObjectParts
<1>3. \A id \in 1 .. Len(t.sp) : o(id) \in Fwd!Forward
  BY <1>1, <1>2
<1>4. Fwd!AllUnregistered(t, ids, order) = [sp |-> sp, free |-> free]
  BY DEF Fwd!AllUnregistered
<1> HIDE DEF o
<1>5. sp \in Seq(Fwd!Forward) /\ Len(sp) = Len(t.sp) /\ free \in Seq(Nat \ {0})
  BY <1>1, <1>3
<1> HIDE DEF sp, free
<1>6. LET v == [sp |-> sp, free |-> free]
      IN  v \in Fwd!Table /\ v.sp = sp
  BY <1>5, TableSet
<1> QED BY <1>4, <1>5, <1>6

-----------------------------------------------------------------------------
(* Tasks. *)

LEMMA ClearedParts ==
  ASSUME NEW task \in Task
  PROVE  LET c == ClearedTask(task)
         IN  c \in Task /\ c.free /\ c.fwd = Fwd!NoForward /\ c.inExec = task.inExec
  BY DEF ClearedTask, Task, Fwd!NoForward

LEMMA SetTaskParts ==
  ASSUME CallbacksAssumption, NEW p \in Plugin, NEW fwd \in Nat, NEW id \in TaskId,
         NEW base \in Base, NEW flags \in Flags, NEW n \in Repeat
  PROVE  LET s == SetTaskTo(p, fwd, id, base, flags, n)
         IN  /\ s \in Task /\ ~s.free /\ s.plugin = p /\ s.fwd = fwd /\ ~s.inExec
             /\ s.base = base /\ s.wait = base
<1> DEFINE loops == flags \cap {"a", "b"} # {}
           onMap == flags \cap {"c", "d"} # {}
           repeat == IF "b" \in flags THEN -1 ELSE IF "a" \in flags THEN n ELSE 0
           s == SetTaskTo(p, fwd, id, base, flags, n)
<1>1. loops \in BOOLEAN /\ onMap \in BOOLEAN /\ repeat \in Int /\ base \in Int
  <2>1. loops \in BOOLEAN /\ onMap \in BOOLEAN
    OBVIOUS
  <2>2. n \in Int /\ base \in Int
    BY DEF CallbacksAssumption
  <2>3. repeat \in Int
    BY <2>2
  <2> QED BY <2>1, <2>2, <2>3
<1>2. s = [free |-> FALSE, plugin |-> p, fwd |-> fwd, id |-> id, base |-> base,
           loops |-> loops, repeat |-> repeat, onMap |-> onMap,
           wait |-> base, inExec |-> FALSE]
  BY DEF SetTaskTo
<1> HIDE DEF loops, onMap, repeat, s
<1>3. s \in Task
  BY <1>1, <1>2 DEF Task
<1> QED BY <1>2, <1>3 DEF s

LEMMA TaskSet ==
  ASSUME NEW task \in Task
  PROVE  /\ \A b \in Int :
              LET n == [task EXCEPT !.base = b]
              IN  /\ n \in Task /\ n.base = b
                  /\ n.free = task.free /\ n.plugin = task.plugin /\ n.fwd = task.fwd
                  /\ n.id = task.id /\ n.loops = task.loops /\ n.repeat = task.repeat
                  /\ n.onMap = task.onMap /\ n.wait = task.wait /\ n.inExec = task.inExec
         /\ \A r \in Int :
              LET n == [task EXCEPT !.repeat = r]
              IN  /\ n \in Task /\ n.repeat = r
                  /\ n.free = task.free /\ n.plugin = task.plugin /\ n.fwd = task.fwd
                  /\ n.id = task.id /\ n.base = task.base /\ n.loops = task.loops
                  /\ n.onMap = task.onMap /\ n.wait = task.wait /\ n.inExec = task.inExec
         /\ \A w \in Int :
              LET n == [task EXCEPT !.wait = w]
              IN  /\ n \in Task /\ n.wait = w
                  /\ n.free = task.free /\ n.plugin = task.plugin /\ n.fwd = task.fwd
                  /\ n.id = task.id /\ n.base = task.base /\ n.loops = task.loops
                  /\ n.repeat = task.repeat /\ n.onMap = task.onMap /\ n.inExec = task.inExec
  BY DEF Task

LEMMA InExecSet ==
  ASSUME NEW task \in Task
  PROVE  /\ LET n == [task EXCEPT !.inExec = TRUE]
            IN  /\ n \in Task /\ n.inExec
                /\ n.free = task.free /\ n.plugin = task.plugin /\ n.fwd = task.fwd
                /\ n.base = task.base /\ n.wait = task.wait /\ n.onMap = task.onMap
         /\ LET n == [task EXCEPT !.inExec = FALSE]
            IN  /\ n \in Task /\ ~n.inExec
                /\ n.free = task.free /\ n.plugin = task.plugin /\ n.fwd = task.fwd
                /\ n.base = task.base /\ n.wait = task.wait /\ n.onMap = task.onMap
  BY DEF Task

LEMMA LateIs ==
  ASSUME CallbacksAssumption, NEW w \in Int
  PROVE  /\ Late(w) \in Int
         /\ \A b \in Nat : w <= b => Late(w) <= b
  BY DEF Late, CallbacksAssumption

LEMMA RebasedParts ==
  ASSUME CallbacksAssumption, NEW task \in Task, NEW base \in NewBase
  PROVE  LET r == Rebased(task, base)
         IN  /\ r \in Task /\ r.free = task.free /\ r.plugin = task.plugin
             /\ r.fwd = task.fwd /\ r.inExec = task.inExec /\ r.onMap = task.onMap
             /\ r.base = base
             /\ r.wait = IF task.inExec THEN task.wait ELSE base
<1> DEFINE b == [task EXCEPT !.base = base]
           w == IF task.inExec THEN task.wait ELSE base
<1>1. base \in Int /\ w \in Int
  BY DEF CallbacksAssumption, Task
<1>2. /\ b \in Task /\ b.base = base
      /\ b.free = task.free /\ b.plugin = task.plugin /\ b.fwd = task.fwd
      /\ b.onMap = task.onMap /\ b.wait = task.wait /\ b.inExec = task.inExec
  BY <1>1, TaskSet
<1>3. Rebased(task, base) = [b EXCEPT !.wait = w]
  BY DEF Rebased
<1> HIDE DEF b, w
<1>4. LET n == [b EXCEPT !.wait = w]
      IN  /\ n \in Task /\ n.wait = w
          /\ n.free = b.free /\ n.plugin = b.plugin /\ n.fwd = b.fwd
          /\ n.base = b.base /\ n.onMap = b.onMap /\ n.inExec = b.inExec
  BY <1>1, <1>2, TaskSet
<1> QED BY <1>2, <1>3, <1>4 DEF w

(* A task that a step of executeIfRequired() leaves has its next time.     *)
LEMMA AfterwardsParts ==
  ASSUME CallbacksAssumption, NEW task \in Task
  PROVE  LET a == Afterwards(task)
         IN  /\ a \in Task /\ a.inExec = task.inExec
             /\ task.free => a = task
             /\ a.free /\ ~task.free => a.fwd = Fwd!NoForward
             /\ ~a.free => /\ ~task.free /\ a.plugin = task.plugin /\ a.fwd = task.fwd
                           /\ a.onMap = task.onMap /\ a.base = task.base
                           /\ a.wait = Late(task.wait + task.base)
<1>1. CASE task.free
  BY <1>1 DEF Afterwards
<1>2. CASE ~task.free /\ task.loops /\ (task.repeat = -1 \/ task.repeat > 1)
  <2> DEFINE r == IF task.repeat = -1 THEN -1 ELSE task.repeat - 1
             b == [task EXCEPT !.repeat = r]
             w == Late(task.wait + task.base)
  <2>1. task.repeat \in Int /\ task.wait \in Int /\ task.base \in Int
    BY DEF Task
  <2>2. r \in Int /\ task.wait + task.base \in Int
    BY <2>1
  <2>3. w \in Int
    BY <2>2, LateIs
  <2>4. /\ b \in Task
        /\ b.free = task.free /\ b.plugin = task.plugin /\ b.fwd = task.fwd
        /\ b.base = task.base /\ b.onMap = task.onMap /\ b.inExec = task.inExec
    BY <2>2, TaskSet
  <2>5. Afterwards(task) = [b EXCEPT !.wait = w]
    BY <1>2 DEF Afterwards
  <2> HIDE DEF b, w
  <2>6. LET n == [b EXCEPT !.wait = w]
        IN  /\ n \in Task /\ n.wait = w
            /\ n.free = b.free /\ n.plugin = b.plugin /\ n.fwd = b.fwd
            /\ n.base = b.base /\ n.onMap = b.onMap /\ n.inExec = b.inExec
    BY <2>3, <2>4, TaskSet
  <2> QED BY <1>2, <2>4, <2>5, <2>6 DEF w
<1>3. CASE ~task.free /\ ~(task.loops /\ (task.repeat = -1 \/ task.repeat > 1))
  BY <1>3, ClearedParts DEF Afterwards
<1> QED BY <1>1, <1>2, <1>3

-----------------------------------------------------------------------------
(* The shape of the state, whatever the table holds. *)

(* The parts of a state of this shape. *)
LEMMA ShapeParts ==
  ASSUME Shape
  PROVE  /\ table \in Fwd!Table /\ Len(table.sp) \in Nat
         /\ tasks \in Seq(Task) /\ Len(tasks) \in Nat /\ Len(tasks) <= MaxTasks
         /\ \A i \in 1 .. Len(tasks) : tasks[i] \in Task
         /\ requested \in Seq(Asked) /\ Len(requested) \in Nat
         /\ handles \subseteq Asked /\ running \subseteq Plugin
         /\ stack \in Seq(Call) /\ Len(stack) \in Nat
         /\ \A k \in 1 .. Len(stack) : stack[k] \in Call
         /\ loop \in Loop /\ TasksOK
<1>1. TypeOK /\ TasksOK
  BY DEF Shape
<1>2. Len(table.sp) \in Nat
  BY <1>1, TableParts DEF TypeOK
<1> QED BY <1>1, <1>2 DEF TypeOK

LEMMA CallParts ==
  ASSUME NEW c \in Call
  PROVE  c.fwd \in Nat /\ c.plugin \in Plugin /\ c.task \in Nat /\ c.nested \in BOOLEAN
  BY DEF Call

(* A native leaves the calls alone, and the task that is called with its   *)
(* forward or with none.                                                   *)
TaskKept(i) ==
  tasks[i].inExec =>
    /\ tasks'[i].inExec
    /\ tasks'[i].free \/ (~tasks[i].free /\ tasks'[i].fwd = tasks[i].fwd)

LEMMA NativeShape ==
  ASSUME Shape, UNCHANGED <<stack, loop>>, running' \subseteq Plugin,
         table' \in Fwd!Table, Len(table'.sp) >= Len(table.sp),
         tasks' \in Seq(Task), Len(tasks') >= Len(tasks), Len(tasks') <= MaxTasks,
         \A i \in 1 .. Len(tasks) : TaskKept(i), TasksOK',
         requested' \in Seq(Asked), Len(requested') >= Len(requested),
         handles' \subseteq Asked
  PROVE  Shape'
<1>1. /\ Len(tasks) \in Nat /\ Len(tasks') \in Nat
      /\ Len(table.sp) \in Nat /\ Len(table'.sp) \in Nat
      /\ Len(requested) \in Nat /\ Len(requested') \in Nat
      /\ \A k \in 1 .. Len(stack) : stack[k].fwd \in Nat
      /\ loop.left \in Nat /\ loop.pos \in Nat
  <2>1. Len(table.sp) \in Nat /\ Len(table'.sp) \in Nat
    BY TableParts DEF Shape, TypeOK
  <2>2. \A k \in 1 .. Len(stack) : stack[k].fwd \in Nat
    BY ShapeParts, CallParts
  <2>3. loop.left \in Nat /\ loop.pos \in Nat
    BY DEF Shape, TypeOK, Loop
  <2> QED BY <2>1, <2>2, <2>3 DEF Shape, TypeOK
<1>2. TypeOK'
  BY DEF Shape, TypeOK
<1>3. StackOK'
  <2> SUFFICES ASSUME NEW k \in 1 .. Len(stack) PROVE CallOK(k)'
    BY DEF StackOK
  <2>1. CallOK(k)
    BY DEF Shape, StackOK
  <2> QED BY <1>1, <2>1 DEF CallOK
<1>4. LoopOK'
  BY <1>1 DEF Shape, LoopOK
<1>5. SlotIsKept'
  <2> SUFFICES ASSUME NEW k \in 1 .. Len(stack), stack[k].kind = "task"
               PROVE  LET i == stack[k].task
                      IN  tasks'[i].inExec /\ (tasks'[i].free \/ tasks'[i].fwd = stack[k].fwd)
    BY DEF SlotIsKept
  <2> DEFINE i == stack[k].task
  <2>1. CallOK(k) /\ tasks[i].inExec /\ (tasks[i].free \/ tasks[i].fwd = stack[k].fwd)
    BY DEF Shape, StackOK, SlotIsKept
  <2>2. i \in 1 .. Len(tasks)
    BY <2>1 DEF CallOK
  <2>3. TaskKept(i)
    BY <2>2
  <2> QED BY <2>1, <2>3 DEF TaskKept
<1> QED BY <1>2, <1>3, <1>4, <1>5 DEF Shape

(* The operations that leave the tasks alone. *)
LEMMA OtherNativesShape ==
  ASSUME Shape, UNCHANGED <<tasks, stack, loop>>, running' \subseteq Plugin,
         table' \in Fwd!Table, Len(table'.sp) >= Len(table.sp),
         requested' \in Seq(Asked), Len(requested') >= Len(requested),
         handles' \subseteq Asked
  PROVE  Shape'
<1>1. /\ tasks' \in Seq(Task) /\ Len(tasks') >= Len(tasks) /\ Len(tasks') <= MaxTasks
      /\ \A i \in 1 .. Len(tasks) : TaskKept(i)
  BY DEF Shape, TypeOK, TaskKept
<1>2. TasksOK'
  BY DEF Shape, TasksOK
<1> QED BY <1>1, <1>2, NativeShape

LEMMA TopIs ==
  ASSUME Shape, Calling
  PROVE  /\ Len(stack) \in Nat /\ Len(stack) > 0 /\ Len(stack) \in 1 .. Len(stack)
         /\ Top \in Call /\ Top.plugin \in Plugin /\ Top.fwd \in Nat /\ Top.task \in Nat
<1>1. stack \in Seq(Call) /\ stack # <<>>
  BY DEF Shape, TypeOK, Calling
<1>2. Len(stack) \in Nat /\ Len(stack) > 0 /\ stack[Len(stack)] \in Call
  BY <1>1
<1> QED BY <1>2 DEF Top, Call

(* The task that set_task() puts into a slot is its only change. *)
LEMMA SlotSet ==
  ASSUME CallbacksAssumption, Shape, NEW i, SlotFor(i), NEW task \in Task,
         ~task.free, task.plugin \in Plugin,
         tasks' = IF i > Len(tasks) THEN Append(tasks, task) ELSE [tasks EXCEPT ![i] = task]
  PROVE  /\ tasks' \in Seq(Task) /\ i \in 1 .. Len(tasks') /\ tasks'[i] = task
         /\ Len(tasks') >= Len(tasks) /\ Len(tasks') <= MaxTasks
         /\ i \in 1 .. Len(tasks) => Reusable(i)
         /\ \A j \in 1 .. Len(tasks') : j # i => j \in 1 .. Len(tasks) /\ tasks'[j] = tasks[j]
         /\ \A j \in 1 .. Len(tasks) : j \in 1 .. Len(tasks')
         /\ \A j \in 1 .. Len(tasks) : TaskKept(j)
         /\ TasksOK'
<1>1. tasks \in Seq(Task) /\ Len(tasks) \in Nat /\ Len(tasks) <= MaxTasks /\ TasksOK
  BY ShapeParts
<1>2. CASE i = Len(tasks) + 1 /\ i <= MaxTasks
  <2>1. tasks' = Append(tasks, task)
    BY <1>1, <1>2
  <2>2. /\ tasks' \in Seq(Task) /\ Len(tasks') = Len(tasks) + 1 /\ tasks'[i] = task
        /\ \A j \in 1 .. Len(tasks) : tasks'[j] = tasks[j]
    BY <1>1, <1>2, <2>1, Longer
  <2>3. /\ i \in 1 .. Len(tasks') /\ ~(i \in 1 .. Len(tasks))
        /\ Len(tasks') >= Len(tasks) /\ Len(tasks') <= MaxTasks
        /\ \A j \in 1 .. Len(tasks) : j \in 1 .. Len(tasks')
        /\ \A j \in 1 .. Len(tasks') : j # i => j \in 1 .. Len(tasks) /\ tasks'[j] = tasks[j]
    BY <1>1, <1>2, <2>2
  <2>4. \A j \in 1 .. Len(tasks) : TaskKept(j)
    BY <2>2 DEF TaskKept
  <2>5. TasksOK'
    BY <1>1, <2>2, <2>3 DEF TasksOK
  <2> QED BY <2>2, <2>3, <2>4, <2>5
<1>3. CASE i \in 1 .. Len(tasks) /\ Reusable(i)
  <2>1. tasks' = [tasks EXCEPT ![i] = task]
    BY <1>1, <1>3
  <2>2. /\ tasks' \in Seq(Task) /\ Len(tasks') = Len(tasks) /\ tasks'[i] = task
        /\ \A j \in 1 .. Len(tasks) : j # i => tasks'[j] = tasks[j]
    BY <1>1, <1>3, <2>1, Changed
  <2>3. \A j \in 1 .. Len(tasks) : TaskKept(j)
    BY <1>3, <2>2 DEF TaskKept, Reusable
  <2>4. TasksOK'
    BY <1>1, <2>2 DEF TasksOK
  <2> QED BY <1>1, <1>3, <2>2, <2>3, <2>4
<1> QED BY <1>2, <1>3 DEF SlotFor

LEMMA SetTaskShape ==
  ASSUME CallbacksAssumption, Shape, NEW f \in Plugin \cup {NoPlugin}, NEW id \in TaskId,
         NEW base \in Base, NEW flags \in Flags, NEW n \in Repeat,
         SetTask(f, id, base, flags, n)
  PROVE  Shape'
<1> DEFINE p   == Top.plugin
           fwd == Fwd!RegisteredId(table, f)
           t   == Fwd!Registered(table, f)
           task == SetTaskTo(p, fwd, id, base, flags, n)
<1>1. /\ table \in Fwd!Table /\ Len(table.sp) \in Nat /\ p \in Plugin
      /\ UNCHANGED <<requested, handles, running, stack, loop>>
      /\ requested' \in Seq(Asked) /\ Len(requested') >= Len(requested)
      /\ handles' \subseteq Asked /\ running' \subseteq Plugin
  BY ShapeParts, TopIs DEF SetTask
<1>2. t \in Fwd!Table /\ Len(t.sp) >= Len(table.sp) /\ fwd \in Nat
  BY <1>1, RegisteredTypes
<1> HIDE DEF p
<1>3. task \in Task /\ ~task.free /\ task.plugin = p /\ ~task.inExec
  BY <1>1, <1>2, SetTaskParts
<1>4. CASE fwd = Fwd!NoForward
  <2>1. table' = t /\ UNCHANGED tasks
    BY <1>4 DEF SetTask
  <2> HIDE DEF t
  <2> QED BY <1>1, <1>2, <2>1, OtherNativesShape
<1>5. CASE fwd # Fwd!NoForward
  <2>1. PICK i \in 1 .. Len(tasks) + 1 :
          /\ SlotFor(i)
          /\ IF i > Len(tasks)
             THEN tasks' = Append(tasks, task) /\ table' = t
             ELSE /\ tasks' = [tasks EXCEPT ![i] = task]
                  /\ table' = Fwd!Unregistered(t, tasks[i].fwd)
    BY <1>5 DEF SetTask, p
  <2> HIDE DEF task, t
  <2>2. table' \in Fwd!Table /\ Len(table'.sp) >= Len(table.sp)
    BY <1>1, <1>2, <2>1, UnregisteredTypes
  <2>3. tasks' = IF i > Len(tasks) THEN Append(tasks, task) ELSE [tasks EXCEPT ![i] = task]
    BY <2>1
  <2>4. /\ tasks' \in Seq(Task) /\ Len(tasks') >= Len(tasks) /\ Len(tasks') <= MaxTasks
        /\ \A j \in 1 .. Len(tasks) : TaskKept(j)
        /\ TasksOK'
    BY <1>1, <1>3, <2>1, <2>3, SlotSet
  <2> QED BY <1>1, <2>2, <2>4, NativeShape
<1> QED BY <1>4, <1>5

Gone(id, outside) == {i \in 1 .. Len(tasks) : Matches(tasks[i], id, outside)}
Now(id, outside) == {i \in Gone(id, outside) : Fwd!Releasable(table, tasks[i].fwd)}

(* The forwards that remove_task() frees, as a sequence.                   *)
RemovesBy(id, outside, order) ==
  LET now == Now(id, outside)
      n   == Cardinality(now)
      seq == [k \in 1 .. n |-> tasks[order[k]].fwd]
  IN  /\ n \in Nat /\ order \in [1 .. n -> now]
      /\ \A j, k \in 1 .. n : j # k => order[j] # order[k]
      /\ \A i \in now : \E k \in 1 .. n : order[k] = i
      /\ seq \in Seq(Nat \ {0})
      /\ table' = Fwd!AllUnregistered(table, {tasks[i].fwd : i \in Gone(id, outside)}, seq)

LEMMA Removal ==
  ASSUME Shape, NEW id \in TaskId, NEW outside \in BOOLEAN, RemoveTasks(id, outside)
  PROVE  /\ tasks' = [i \in 1 .. Len(tasks) |->
                        IF i \in Gone(id, outside) THEN ClearedTask(tasks[i]) ELSE tasks[i]]
         /\ \E order : RemovesBy(id, outside, order)
         /\ UNCHANGED <<requested, handles, running, stack, loop>>
<1> DEFINE now == Now(id, outside)
           n   == Cardinality(now)
<1>1. n \in Nat
  <2> DEFINE len == Len(tasks)
  <2>1. len \in Nat
    BY ShapeParts
  <2>2. now \subseteq 1 .. len
    BY DEF Now, Gone
  <2> HIDE DEF len, now
  <2>3. IsFiniteSet(1 .. len)
    BY <2>1, FS_Interval
  <2>4. IsFiniteSet(now)
    BY <2>2, <2>3, FS_Subset
  <2> QED BY <2>4, FS_CardinalityType
<1>2. \A i \in now : i \in 1 .. Len(tasks) /\ tasks[i].fwd \in Nat \ {0} /\ now \subseteq Nat
  BY ShapeParts DEF Now, Gone, Fwd!Releasable, Fwd!IsIdValid
<1>3. PICK order \in [1 .. n -> now] :
        /\ \A j, k \in 1 .. n : j < k => order[j] < order[k]
        /\ \A i \in now : \E k \in 1 .. n : order[k] = i
        /\ table' = Fwd!AllUnregistered(table, {tasks[i].fwd : i \in Gone(id, outside)},
                      [k \in 1 .. n |-> tasks[order[k]].fwd])
  BY DEF RemoveTasks, Now, Gone
<1> HIDE DEF n, now
<1>4. \A j, k \in 1 .. n : j # k => order[j] # order[k]
  <2> SUFFICES ASSUME NEW j \in 1 .. n, NEW k \in 1 .. n, j # k
               PROVE  order[j] # order[k]
    OBVIOUS
  <2>1. order[j] \in now /\ order[k] \in now
    BY <1>3
  <2>2. order[j] \in Nat /\ order[k] \in Nat
    BY <1>2, <2>1
  <2>3. j < k \/ k < j
    BY <1>1
  <2> QED BY <1>3, <2>2, <2>3
<1>5. [k \in 1 .. n |-> tasks[order[k]].fwd] \in Seq(Nat \ {0})
  <2>1. \A k \in 1 .. n : tasks[order[k]].fwd \in Nat \ {0}
    BY <1>2, <1>3
  <2> QED BY <1>1, <2>1
<1>6. /\ tasks' = [i \in 1 .. Len(tasks) |->
                     IF i \in Gone(id, outside) THEN ClearedTask(tasks[i]) ELSE tasks[i]]
      /\ UNCHANGED <<requested, handles, running, stack, loop>>
  BY DEF RemoveTasks, Gone
<1>7. RemovesBy(id, outside, order)
  BY <1>1, <1>3, <1>4, <1>5 DEF RemovesBy, now, n
<1> QED BY <1>6, <1>7

LEMMA RemoveTasksShape ==
  ASSUME CallbacksAssumption, Shape, NEW id \in TaskId, NEW outside \in BOOLEAN,
         RemoveTasks(id, outside)
  PROVE  Shape'
<1>1. /\ table \in Fwd!Table /\ Len(table.sp) \in Nat
      /\ Len(tasks) \in Nat /\ Len(tasks) <= MaxTasks /\ TasksOK
      /\ \A i \in 1 .. Len(tasks) : tasks[i] \in Task
      /\ UNCHANGED <<requested, handles, running, stack, loop>>
      /\ requested' \in Seq(Asked) /\ Len(requested') >= Len(requested)
      /\ handles' \subseteq Asked /\ running' \subseteq Plugin
  BY ShapeParts, Removal
<1>2. tasks' = [i \in 1 .. Len(tasks) |->
                  IF i \in Gone(id, outside) THEN ClearedTask(tasks[i]) ELSE tasks[i]]
  BY Removal
<1>3. ASSUME NEW i \in 1 .. Len(tasks)
      PROVE  /\ tasks'[i] \in Task /\ tasks'[i].inExec = tasks[i].inExec
             /\ \/ tasks'[i] = tasks[i]
                \/ tasks'[i].free /\ tasks'[i].fwd = Fwd!NoForward
  BY <1>1, <1>2, ClearedParts
<1>4. tasks' \in Seq(Task) /\ Len(tasks') = Len(tasks)
  BY <1>1, <1>2, <1>3
<1>5. \A i \in 1 .. Len(tasks) : TaskKept(i)
  <2> TAKE i \in 1 .. Len(tasks)
  <2>1. tasks[i].free => tasks'[i].free
    BY <1>3
  <2> QED BY <1>3, <2>1 DEF TaskKept
<1>6. TasksOK'
  BY <1>1, <1>3, <1>4 DEF TasksOK
<1>7. table' \in Fwd!Table /\ Len(table'.sp) >= Len(table.sp)
  <2>1. PICK order : RemovesBy(id, outside, order)
    BY Removal
  <2> DEFINE seq == [k \in 1 .. Cardinality(Now(id, outside)) |-> tasks[order[k]].fwd]
             ids == {tasks[i].fwd : i \in Gone(id, outside)}
  <2>2. seq \in Seq(Nat \ {0}) /\ table' = Fwd!AllUnregistered(table, ids, seq)
    BY <2>1 DEF RemovesBy
  <2> HIDE DEF seq, ids
  <2> QED BY <1>1, <2>2, AllUnregisteredTypes
<1> QED BY <1>1, <1>4, <1>5, <1>6, <1>7, NativeShape

LEMMA ChangeTasksShape ==
  ASSUME CallbacksAssumption, Shape, NEW id \in TaskId, NEW outside \in BOOLEAN,
         NEW base \in NewBase, ChangeTasks(id, base, outside)
  PROVE  /\ Shape'
         /\ Len(tasks') = Len(tasks)
         /\ \A i \in 1 .. Len(tasks) :
              /\ tasks'[i].free = tasks[i].free /\ tasks'[i].plugin = tasks[i].plugin
              /\ tasks'[i].fwd = tasks[i].fwd
<1>1. /\ table \in Fwd!Table /\ Len(table.sp) \in Nat
      /\ Len(tasks) \in Nat /\ Len(tasks) <= MaxTasks /\ TasksOK
      /\ \A i \in 1 .. Len(tasks) : tasks[i] \in Task
      /\ UNCHANGED <<table, requested, handles, running, stack, loop>>
      /\ requested' \in Seq(Asked) /\ Len(requested') >= Len(requested)
      /\ handles' \subseteq Asked /\ running' \subseteq Plugin
  BY ShapeParts DEF ChangeTasks
<1>2. tasks' = [i \in 1 .. Len(tasks) |->
                  IF Matches(tasks[i], id, outside) THEN Rebased(tasks[i], base) ELSE tasks[i]]
  BY DEF ChangeTasks
<1>3. ASSUME NEW i \in 1 .. Len(tasks)
      PROVE  /\ tasks'[i] \in Task /\ tasks'[i].inExec = tasks[i].inExec
             /\ tasks'[i].free = tasks[i].free /\ tasks'[i].plugin = tasks[i].plugin
             /\ tasks'[i].fwd = tasks[i].fwd
  BY <1>1, <1>2, RebasedParts
<1>4. tasks' \in Seq(Task) /\ Len(tasks') = Len(tasks)
  BY <1>1, <1>2, <1>3
<1>5. \A i \in 1 .. Len(tasks) : TaskKept(i)
  BY <1>3 DEF TaskKept
<1>6. TasksOK'
  BY <1>1, <1>3, <1>4 DEF TasksOK
<1>7. Shape'
  BY <1>1, <1>4, <1>5, <1>6, NativeShape
<1> QED BY <1>3, <1>4, <1>7

LEMMA RequestFrameShape ==
  ASSUME CallbacksAssumption, Shape, NEW f \in Plugin \cup {NoPlugin}, RequestFrame(f)
  PROVE  Shape'
<1> DEFINE p   == Top.plugin
           fwd == Fwd!RegisteredId(table, f)
           asked == [fwd |-> fwd, plugin |-> p]
<1>1. /\ table \in Fwd!Table /\ p \in Plugin
      /\ requested \in Seq(Asked) /\ Len(requested) \in Nat
      /\ UNCHANGED <<tasks, handles, running, stack, loop>>
      /\ handles' \subseteq Asked /\ running' \subseteq Plugin
      /\ table' = Fwd!Registered(table, f)
      /\ requested' = IF fwd = Fwd!NoForward THEN requested ELSE Append(requested, asked)
  BY ShapeParts, TopIs DEF RequestFrame
<1>2. table' \in Fwd!Table /\ Len(table'.sp) >= Len(table.sp) /\ fwd \in Nat
  BY <1>1, RegisteredTypes
<1>3. asked \in Asked
  BY <1>1, <1>2 DEF Asked
<1> HIDE DEF asked, fwd
<1>4. requested' \in Seq(Asked) /\ Len(requested') >= Len(requested)
  BY <1>1, <1>3
<1> QED BY <1>1, <1>2, <1>4, OtherNativesShape

LEMMA CreateShape ==
  ASSUME CallbacksAssumption, Shape, NEW q \in Plugin, NEW f \in Plugin \cup {NoPlugin},
         CreateOneForward(q, f)
  PROVE  Shape'
<1> DEFINE fwd == Fwd!RegisteredId(table, f)
           asked == [fwd |-> fwd, plugin |-> q]
<1>1. /\ table \in Fwd!Table /\ handles \subseteq Asked
      /\ UNCHANGED <<tasks, requested, running, stack, loop>>
      /\ requested' \in Seq(Asked) /\ Len(requested') >= Len(requested)
      /\ running' \subseteq Plugin
      /\ table' = Fwd!Registered(table, f)
      /\ handles' = IF fwd = Fwd!NoForward THEN handles ELSE handles \cup {asked}
  BY ShapeParts DEF CreateOneForward
<1>2. table' \in Fwd!Table /\ Len(table'.sp) >= Len(table.sp) /\ fwd \in Nat
  BY <1>1, RegisteredTypes
<1>3. asked \in Asked
  BY <1>2 DEF Asked
<1> HIDE DEF asked, fwd
<1>4. handles' \subseteq Asked
  BY <1>1, <1>3
<1> QED BY <1>1, <1>2, <1>4, OtherNativesShape

LEMMA DestroyShape ==
  ASSUME Shape, NEW h, DestroyForward(h)
  PROVE  Shape'
<1>1. /\ table \in Fwd!Table /\ handles \subseteq Asked /\ Len(table.sp) \in Nat
      /\ UNCHANGED <<tasks, requested, running, stack, loop>>
      /\ requested' \in Seq(Asked) /\ Len(requested') >= Len(requested)
      /\ handles' \subseteq Asked /\ running' \subseteq Plugin
      /\ table' = Fwd!Unregistered(table, h.fwd)
  BY ShapeParts DEF DestroyForward
<1>2. table' \in Fwd!Table /\ Len(table'.sp) >= Len(table.sp)
  BY <1>1, UnregisteredTypes
<1> QED BY <1>1, <1>2, OtherNativesShape

LEMMA PauseShape ==
  ASSUME Shape, NEW q \in Plugin, Pause(q) \/ Unpause(q)
  PROVE  Shape'
<1>1. /\ table' \in Fwd!Table /\ Len(table'.sp) >= Len(table.sp)
      /\ UNCHANGED <<tasks, stack, loop>>
      /\ requested' \in Seq(Asked) /\ Len(requested') >= Len(requested)
      /\ handles' \subseteq Asked
  BY ShapeParts DEF Pause, Unpause
<1>2. running' \subseteq Plugin
  BY ShapeParts DEF Pause, Unpause
<1> QED BY <1>1, <1>2, OtherNativesShape

-----------------------------------------------------------------------------
(* Calls. *)

Kinds == {"event", "request", "task", "execute"}

(* The calls under way are still there, and the new one above them. *)
IsPushed(kind, fwd, plugin, task) ==
  LET n == Len(stack)
  IN  /\ stack' \in Seq(Call) /\ Len(stack') = n + 1
      /\ stack'[n + 1].kind = kind /\ stack'[n + 1].fwd = fwd
      /\ stack'[n + 1].plugin = plugin /\ stack'[n + 1].task = task
      /\ ~stack'[n + 1].nested
      /\ \A k \in 1 .. n :
           /\ stack'[k].kind = stack[k].kind /\ stack'[k].fwd = stack[k].fwd
           /\ stack'[k].plugin = stack[k].plugin /\ stack'[k].task = stack[k].task
           /\ stack'[k].nested <=> stack[k].nested \/ stack[k].fwd = fwd

LEMMA NestedSet ==
  ASSUME NEW c \in Call
  PROVE  LET n == [c EXCEPT !.nested = TRUE]
         IN  /\ n \in Call /\ n.nested
             /\ n.kind = c.kind /\ n.fwd = c.fwd /\ n.plugin = c.plugin /\ n.task = c.task
  BY DEF Call

LEMMA CallMade ==
  ASSUME NEW kind \in Kinds, NEW fwd \in Nat, NEW plugin \in Plugin, NEW task \in Nat
  PROVE  LET c == [kind |-> kind, fwd |-> fwd, plugin |-> plugin, task |-> task,
                   nested |-> FALSE]
         IN  /\ c \in Call /\ ~c.nested
             /\ c.kind = kind /\ c.fwd = fwd /\ c.plugin = plugin /\ c.task = task
  BY DEF Call, Kinds

LEMMA PushedIs ==
  ASSUME Shape, NEW kind \in Kinds, NEW fwd \in Nat, table.sp[fwd].func \in Plugin,
         NEW task \in Nat, stack' = Pushed(kind, fwd, task)
  PROVE  IsPushed(kind, fwd, table.sp[fwd].func, task)
<1> DEFINE n == Len(stack)
           plugin == table.sp[fwd].func
           c == [kind |-> kind, fwd |-> fwd, plugin |-> plugin, task |-> task, nested |-> FALSE]
           old(k) == IF stack[k].fwd = fwd THEN [stack[k] EXCEPT !.nested = TRUE] ELSE stack[k]
           s == [k \in 1 .. n |-> old(k)]
<1>1. n \in Nat /\ \A k \in 1 .. n : stack[k] \in Call
  BY ShapeParts
<1>2. stack' = Append(s, c)
  BY DEF Pushed
<1>3. /\ c \in Call /\ ~c.nested
      /\ c.kind = kind /\ c.fwd = fwd /\ c.plugin = plugin /\ c.task = task
  <2> HIDE DEF plugin
  <2> QED BY CallMade DEF plugin
<1>4. ASSUME NEW k \in 1 .. n
      PROVE  /\ old(k) \in Call
             /\ old(k).kind = stack[k].kind /\ old(k).fwd = stack[k].fwd
             /\ old(k).plugin = stack[k].plugin /\ old(k).task = stack[k].task
             /\ old(k).nested <=> stack[k].nested \/ stack[k].fwd = fwd
  <2>1. CASE stack[k].fwd # fwd
    BY <1>1, <2>1
  <2>2. CASE stack[k].fwd = fwd
    <3> DEFINE b == stack[k]
               m == [b EXCEPT !.nested = TRUE]
    <3>1. b \in Call /\ old(k) = m
      BY <1>1, <2>2
    <3>2. /\ m \in Call /\ m.nested
          /\ m.kind = b.kind /\ m.fwd = b.fwd /\ m.plugin = b.plugin /\ m.task = b.task
      BY <3>1, NestedSet
    <3> HIDE DEF m, old
    <3> QED BY <2>2, <3>1, <3>2
  <2> QED BY <2>1, <2>2
<1> HIDE DEF c, old
<1>5. s \in Seq(Call) /\ Len(s) = n /\ \A k \in 1 .. n : s[k] = old(k)
  BY <1>1, <1>4
<1> HIDE DEF s
<1>6. /\ stack' \in Seq(Call) /\ Len(stack') = n + 1 /\ stack'[n + 1] = c
      /\ \A k \in 1 .. n : stack'[k] = old(k)
  BY <1>2, <1>3, <1>5, Longer
<1> QED BY <1>3, <1>4, <1>6 DEF IsPushed

(* A call, whoever made it. *)
LEMMA PushedShape ==
  ASSUME Shape, NEW kind \in Kinds, NEW fwd \in Nat, NEW plugin, NEW task,
         IsPushed(kind, fwd, plugin, task),
         kind = "execute" <=> Calling, fwd <= Len(table.sp),
         fwd = Fwd!NoForward <=> kind = "event",
         table' \in Fwd!Table, Len(table'.sp) = Len(table.sp),
         tasks' \in Seq(Task), Len(tasks') = Len(tasks),
         \A i \in 1 .. Len(tasks) : TaskKept(i), TasksOK',
         kind = "task" => /\ task \in 1 .. Len(tasks)
                          /\ tasks'[task].inExec /\ tasks'[task].fwd = fwd,
         requested' \in Seq(Asked), handles' \subseteq Asked, running' \subseteq Plugin,
         loop' \in Loop, LoopOK'
  PROVE  Shape'
<1> DEFINE n == Len(stack)
<1>1. /\ n \in Nat /\ Len(tasks) \in Nat /\ Len(tasks) <= MaxTasks
      /\ stack \in Seq(Call) /\ StackOK /\ SlotIsKept
  BY ShapeParts DEF Shape
<1>2. TypeOK'
  BY <1>1 DEF TypeOK, IsPushed
<1>3. \A k \in 1 .. n + 1 : k \in 1 .. n \/ k = n + 1
  BY <1>1
<1>4. Calling <=> n > 0
  BY <1>1 DEF Calling
<1>5. StackOK'
  <2> SUFFICES ASSUME NEW k \in 1 .. n + 1 PROVE CallOK(k)'
    BY DEF StackOK, IsPushed
  <2>1. CASE k \in 1 .. n
    <3>1. CallOK(k)
      BY <1>1, <2>1 DEF StackOK
    <3> QED BY <2>1, <3>1 DEF CallOK, IsPushed
  <2>2. CASE k = n + 1
    <3>1. kind = "execute" <=> k > 1
      BY <1>1, <1>4, <2>2
    <3> QED BY <2>2, <3>1 DEF CallOK, IsPushed
  <2> QED BY <1>3, <2>1, <2>2
<1>6. SlotIsKept'
  <2> SUFFICES ASSUME NEW k \in 1 .. n + 1, stack'[k].kind = "task"
               PROVE  LET i == stack'[k].task
                      IN  tasks'[i].inExec /\ (tasks'[i].free \/ tasks'[i].fwd = stack'[k].fwd)
    BY DEF SlotIsKept, IsPushed
  <2>1. CASE k \in 1 .. n
    <3> DEFINE i == stack[k].task
    <3>1. stack'[k].kind = stack[k].kind /\ stack'[k].fwd = stack[k].fwd /\ stack'[k].task = i
      BY <2>1 DEF IsPushed
    <3>2. CallOK(k) /\ tasks[i].inExec /\ (tasks[i].free \/ tasks[i].fwd = stack[k].fwd)
      BY <1>1, <2>1, <3>1 DEF StackOK, SlotIsKept
    <3>3. i \in 1 .. Len(tasks)
      BY <3>1, <3>2 DEF CallOK
    <3>4. TaskKept(i)
      BY <3>3
    <3> QED BY <3>1, <3>2, <3>4 DEF TaskKept
  <2>2. CASE k = n + 1
    BY <2>2 DEF IsPushed
  <2> QED BY <1>3, <2>1, <2>2
<1> QED BY <1>2, <1>5, <1>6 DEF Shape

LEMMA CanExecuteIs ==
  ASSUME Shape, NEW id, Fwd!CanExecute(table, id, running)
  PROVE  /\ id \in 1 .. Len(table.sp) /\ id \in Nat /\ id <= Len(table.sp)
         /\ id # Fwd!NoForward
         /\ ~table.sp[id].isFree /\ ~table.sp[id].toDelete
         /\ table.sp[id].func \in Plugin
  BY ShapeParts DEF Fwd!CanExecute, Fwd!IsIdValid, Fwd!NoForward

LEMMA SameTasks ==
  ASSUME Shape, UNCHANGED tasks
  PROVE  /\ tasks' \in Seq(Task) /\ Len(tasks') = Len(tasks) /\ TasksOK'
         /\ \A i \in 1 .. Len(tasks) : TaskKept(i)
<1>1. TasksOK /\ tasks \in Seq(Task)
  BY ShapeParts
<1> QED BY <1>1 DEF TasksOK, TaskKept

LEMMA ExecuteShape ==
  ASSUME Shape, NEW h, ExecuteForward(h)
  PROVE  Shape'
<1>1. /\ Calling /\ h \in handles /\ h.fwd \in Nat
      /\ UNCHANGED <<tasks, requested, handles, running, loop>>
      /\ table \in Fwd!Table /\ Len(table.sp) \in Nat
      /\ requested' \in Seq(Asked) /\ Len(requested') >= Len(requested)
      /\ handles' \subseteq Asked /\ running' \subseteq Plugin /\ loop' \in Loop
  BY ShapeParts DEF ExecuteForward, Asked
<1>2. CASE Fwd!CanExecute(table, h.fwd, running)
  <2>1. /\ table' = Fwd!Entered(table, h.fwd)
        /\ stack' = Pushed("execute", h.fwd, 0)
    BY <1>2 DEF ExecuteForward, Enter
  <2>2. /\ h.fwd \in 1 .. Len(table.sp) /\ h.fwd <= Len(table.sp)
        /\ h.fwd # Fwd!NoForward /\ table.sp[h.fwd].func \in Plugin
    BY <1>2, CanExecuteIs
  <2>3. table' \in Fwd!Table /\ Len(table'.sp) = Len(table.sp)
    BY <1>1, <2>1, <2>2, WithTypes
  <2>4. "execute" \in Kinds /\ 0 \in Nat
    BY DEF Kinds
  <2>5. IsPushed("execute", h.fwd, table.sp[h.fwd].func, 0)
    BY <1>1, <2>1, <2>2, <2>4, PushedIs
  <2>6. LoopOK'
    BY <1>1 DEF Shape, LoopOK
  <2> DEFINE kind == "execute"
             fwd == h.fwd
  <2>7. /\ kind \in Kinds /\ kind = "execute" /\ kind # "event" /\ kind # "task" /\ fwd \in Nat
        /\ IsPushed(kind, fwd, table.sp[fwd].func, 0)
        /\ fwd <= Len(table.sp) /\ fwd # Fwd!NoForward
    BY <1>1, <2>2, <2>4, <2>5
  <2> HIDE DEF kind, fwd
  <2> QED BY <1>1, <2>3, <2>6, <2>7, SameTasks, PushedShape
<1>3. CASE ~Fwd!CanExecute(table, h.fwd, running)
  <2>1. table' = Fwd!Settled(table, h.fwd) /\ UNCHANGED stack
    BY <1>3 DEF ExecuteForward
  <2>2. table' \in Fwd!Table /\ Len(table'.sp) >= Len(table.sp)
    BY <1>1, <2>1, SettledTypes
  <2> QED BY <1>1, <2>1, <2>2, OtherNativesShape
<1> QED BY <1>2, <1>3

(* The game calls when no function is called. *)
LEMMA EventShape ==
  ASSUME Shape, NEW p \in Plugin, Event(p)
  PROVE  Shape'
<1> DEFINE kind == "event"
           c == [kind |-> kind, fwd |-> Fwd!NoForward, plugin |-> p, task |-> 0,
                 nested |-> FALSE]
<1>1. /\ stack = <<>> /\ stack' = <<c>>
      /\ UNCHANGED <<table, tasks, requested, handles, running, loop>>
      /\ table' \in Fwd!Table /\ Len(table'.sp) = Len(table.sp) /\ Len(table.sp) \in Nat
      /\ requested' \in Seq(Asked) /\ handles' \subseteq Asked /\ running' \subseteq Plugin
      /\ loop' \in Loop
  BY ShapeParts DEF Event, Calling
<1>2. kind \in Kinds /\ kind # "execute" /\ kind # "task" /\ kind = "event"
  BY DEF Kinds
<1>3. Fwd!NoForward \in Nat /\ Fwd!NoForward <= Len(table.sp) /\ 0 \in Nat
  BY <1>1 DEF Fwd!NoForward
<1>4. LoopOK'
  BY <1>1 DEF Shape, LoopOK
<1> HIDE DEF kind
<1>5. /\ c \in Call /\ ~c.nested
      /\ c.kind = kind /\ c.fwd = Fwd!NoForward /\ c.plugin = p /\ c.task = 0
  BY <1>2, <1>3, CallMade
<1> HIDE DEF c
<1>6. Len(stack) = 0 /\ stack' \in Seq(Call) /\ Len(stack') = 1 /\ stack'[1] = c
  BY <1>1, <1>5
<1>7. IsPushed(kind, Fwd!NoForward, p, 0)
  BY <1>5, <1>6 DEF IsPushed
<1>8. ~Calling
  BY <1>1 DEF Calling
<1> QED BY <1>1, <1>2, <1>3, <1>4, <1>7, <1>8, SameTasks, PushedShape

(* While no function is called there is less to keep. *)
LEMMA QuietShape ==
  ASSUME Shape, stack' = <<>>, table' \in Fwd!Table,
         tasks' \in Seq(Task), Len(tasks') <= MaxTasks, TasksOK',
         requested' \in Seq(Asked), handles' \subseteq Asked, running' \subseteq Plugin,
         loop' \in Loop, LoopOK'
  PROVE  Shape'
<1>1. stack' \in Seq(Call) /\ Len(stack') = 0
  OBVIOUS
<1>2. TypeOK'
  BY <1>1 DEF TypeOK
<1>3. StackOK' /\ SlotIsKept'
  BY <1>1 DEF StackOK, SlotIsKept
<1> QED BY <1>2, <1>3 DEF Shape

LEMMA LoopSet ==
  ASSUME NEW l \in Loop
  PROVE  /\ l.left \in Nat /\ l.pos \in Nat /\ l.ticks \in Nat
         /\ \A n \in Nat :
              /\ LET m == [l EXCEPT !.left = n]
                 IN  m \in Loop /\ m.at = l.at /\ m.left = n /\ m.pos = l.pos
              /\ LET m == [l EXCEPT !.pos = n]
                 IN  m \in Loop /\ m.at = l.at /\ m.left = l.left /\ m.pos = n
  BY DEF Loop

LEMMA LoopMade ==
  ASSUME NEW at \in {"idle", "requests", "tasks"}, NEW left \in Nat, NEW pos \in Nat,
         NEW ticks \in Nat
  PROVE  LET l == [at |-> at, left |-> left, pos |-> pos, ticks |-> ticks]
         IN  l \in Loop /\ l.at = at /\ l.left = left /\ l.pos = pos
  BY DEF Loop

LEMMA IdleLoop ==
  Idle \in Loop /\ Idle.at # "requests" /\ Idle.at # "tasks"
  BY DEF Idle, Loop

(* A frame begins: the tasks are nearer by this many units. *)
LEMMA StartFrameShape ==
  ASSUME CallbacksAssumption, Shape, NEW ticks \in 0 .. MaxStep, StartFrame(ticks)
  PROVE  /\ Shape'
         /\ Len(tasks') = Len(tasks)
         /\ \A i \in 1 .. Len(tasks) :
              /\ tasks'[i].free = tasks[i].free /\ tasks'[i].plugin = tasks[i].plugin
              /\ tasks'[i].fwd = tasks[i].fwd /\ tasks'[i].onMap = tasks[i].onMap
              /\ tasks'[i].base = tasks[i].base /\ tasks'[i].inExec = tasks[i].inExec
              /\ tasks[i].free \/ tasks'[i].wait = Late(tasks[i].wait - ticks)
<1>1. /\ Len(tasks) \in Nat /\ Len(tasks) <= MaxTasks /\ TasksOK
      /\ \A i \in 1 .. Len(tasks) : tasks[i] \in Task
      /\ stack' = <<>> /\ UNCHANGED <<table, requested, handles, running>>
      /\ table' \in Fwd!Table /\ requested' \in Seq(Asked) /\ Len(requested) \in Nat
      /\ handles' \subseteq Asked /\ running' \subseteq Plugin /\ ticks \in Nat
  BY ShapeParts DEF StartFrame, Calling
<1>2. tasks' = [i \in 1 .. Len(tasks) |->
                  IF tasks[i].free THEN tasks[i]
                  ELSE [tasks[i] EXCEPT !.wait = Late(tasks[i].wait - ticks)]]
  BY DEF StartFrame
<1>3. ASSUME NEW i \in 1 .. Len(tasks)
      PROVE  /\ tasks'[i] \in Task
             /\ tasks'[i].free = tasks[i].free /\ tasks'[i].plugin = tasks[i].plugin
             /\ tasks'[i].fwd = tasks[i].fwd /\ tasks'[i].onMap = tasks[i].onMap
             /\ tasks'[i].base = tasks[i].base /\ tasks'[i].inExec = tasks[i].inExec
             /\ tasks[i].free \/ tasks'[i].wait = Late(tasks[i].wait - ticks)
  <2> DEFINE task == tasks[i]
             w == Late(task.wait - ticks)
  <2>1. task \in Task /\ task.wait \in Int
    BY <1>1 DEF Task
  <2>2. w \in Int
    <3>1. task.wait - ticks \in Int
      BY <1>1, <2>1
    <3> QED BY <3>1, LateIs
  <2>3. tasks'[i] = IF task.free THEN task ELSE [task EXCEPT !.wait = w]
    BY <1>2
  <2> HIDE DEF task, w
  <2>4. LET n == [task EXCEPT !.wait = w]
        IN  /\ n \in Task /\ n.wait = w
            /\ n.free = task.free /\ n.plugin = task.plugin /\ n.fwd = task.fwd
            /\ n.base = task.base /\ n.onMap = task.onMap /\ n.inExec = task.inExec
    BY <2>1, <2>2, TaskSet
  <2> QED BY <2>1, <2>3, <2>4 DEF task, w
<1>4. tasks' \in Seq(Task) /\ Len(tasks') = Len(tasks)
  <2> DEFINE e(i) == IF tasks[i].free THEN tasks[i]
                     ELSE [tasks[i] EXCEPT !.wait = Late(tasks[i].wait - ticks)]
  <2>1. tasks' = [i \in 1 .. Len(tasks) |-> e(i)]
    BY <1>2
  <2> HIDE DEF e
  <2> QED BY <1>1, <1>3, <2>1
<1>5. TasksOK'
  BY <1>1, <1>3, <1>4 DEF TasksOK
<1>6. loop' \in Loop /\ LoopOK'
  <2> DEFINE at == "requests"
  <2>1. loop' = [at |-> at, left |-> Len(requested), pos |-> 0, ticks |-> ticks]
    BY DEF StartFrame
  <2>2. at \in {"idle", "requests", "tasks"} /\ at # "tasks"
    OBVIOUS
  <2> HIDE DEF at
  <2>3. loop' \in Loop /\ loop'.at = at /\ loop'.left = Len(requested)
    BY <1>1, <2>1, <2>2, LoopMade
  <2> QED BY <1>1, <2>2, <2>3 DEF LoopOK
<1>7. Shape'
  BY <1>1, <1>4, <1>5, <1>6, QuietShape
<1> QED BY <1>3, <1>4, <1>7

(* The requests are done, or the tasks. *)
LEMMA LoopShape ==
  ASSUME Shape, RequestsDone \/ FrameDone
  PROVE  Shape'
<1>1. /\ stack' = <<>> /\ UNCHANGED <<table, tasks, requested, handles, running>>
      /\ table' \in Fwd!Table /\ Len(tasks) <= MaxTasks /\ Len(tasks) \in Nat
      /\ requested' \in Seq(Asked) /\ handles' \subseteq Asked /\ running' \subseteq Plugin
  BY ShapeParts DEF RequestsDone, FrameDone, Calling
<1>2. loop' \in Loop /\ LoopOK'
  <2>1. CASE loop' = Idle
    BY <2>1, IdleLoop DEF LoopOK
  <2>2. CASE loop' = [at |-> "tasks", left |-> Len(tasks), pos |-> 1, ticks |-> 0]
    <3> DEFINE at == "tasks"
    <3>1. at \in {"idle", "requests", "tasks"} /\ at # "requests"
      OBVIOUS
    <3>2. loop' = [at |-> at, left |-> Len(tasks), pos |-> 1, ticks |-> 0]
      BY <2>2
    <3> HIDE DEF at
    <3>3. loop' \in Loop /\ loop'.at = at /\ loop'.left = Len(tasks) /\ loop'.pos = 1
      BY <1>1, <3>1, <3>2, LoopMade
    <3> QED BY <1>1, <3>1, <3>3 DEF LoopOK
  <2> QED BY <2>1, <2>2 DEF RequestsDone, FrameDone
<1> QED BY <1>1, <1>2, SameTasks, QuietShape

LEMMA RunRequestShape ==
  ASSUME Shape, RunRequest
  PROVE  Shape'
<1> DEFINE fwd == Head(requested).fwd
<1>1. /\ stack = <<>> /\ ~Calling /\ UNCHANGED <<tasks, handles, running>>
      /\ table \in Fwd!Table /\ Len(table.sp) \in Nat /\ Len(tasks) <= MaxTasks
      /\ handles' \subseteq Asked /\ running' \subseteq Plugin
      /\ requested \in Seq(Asked) /\ loop \in Loop
      /\ loop.at = "requests" /\ loop.left > 0 /\ loop.left <= Len(requested)
      /\ requested' = Tail(requested) /\ loop' = [loop EXCEPT !.left = loop.left - 1]
  BY ShapeParts DEF RunRequest, Calling, RequestLeft, Shape, LoopOK
<1>2. loop.left \in Nat /\ loop.left - 1 \in Nat
  BY <1>1 DEF Loop
<1>3. loop' \in Loop /\ loop'.at = loop.at /\ loop'.left = loop.left - 1
  BY <1>1, <1>2, LoopSet
<1>4. requested # <<>>
  BY <1>1, <1>2
<1>5. requested' \in Seq(Asked) /\ Len(requested') = Len(requested) - 1 /\ requested[1] \in Asked
  BY <1>1, <1>4, TailOf
<1>6. LoopOK'
  <2>1. loop'.at # "tasks"
    BY <1>1, <1>3
  <2>2. loop'.left <= Len(requested')
    BY <1>1, <1>2, <1>3, <1>5
  <2> QED BY <2>1, <2>2 DEF LoopOK
<1>7. CASE Fwd!CanExecute(table, fwd, running)
  <2>1. /\ table' = Fwd!Entered(table, fwd)
        /\ stack' = Pushed("request", fwd, 0)
    BY <1>7 DEF RunRequest, Enter
  <2> HIDE DEF fwd
  <2>2. /\ fwd \in 1 .. Len(table.sp) /\ fwd <= Len(table.sp) /\ fwd \in Nat
        /\ fwd # Fwd!NoForward /\ table.sp[fwd].func \in Plugin
    BY <1>7, CanExecuteIs
  <2>3. table' \in Fwd!Table /\ Len(table'.sp) = Len(table.sp)
    BY <1>1, <2>1, <2>2, WithTypes
  <2> DEFINE kind == "request"
  <2>4. kind \in Kinds /\ 0 \in Nat /\ kind # "execute" /\ kind # "event" /\ kind # "task"
    BY DEF Kinds
  <2>5. stack' = Pushed(kind, fwd, 0)
    BY <2>1
  <2> HIDE DEF kind
  <2>6. IsPushed(kind, fwd, table.sp[fwd].func, 0)
    BY <2>2, <2>4, <2>5, PushedIs
  <2> QED BY <1>1, <1>3, <1>5, <1>6, <2>2, <2>3, <2>4, <2>6, SameTasks, PushedShape
<1>8. CASE ~Fwd!CanExecute(table, fwd, running)
  <2> DEFINE t == Fwd!Settled(table, fwd)
  <2>1. table' = Fwd!Unregistered(t, fwd) /\ UNCHANGED stack
    BY <1>8 DEF RunRequest
  <2> HIDE DEF fwd
  <2>2. t \in Fwd!Table
    BY <1>1, SettledTypes
  <2> HIDE DEF t
  <2>3. table' \in Fwd!Table
    BY <2>1, <2>2, UnregisteredTypes
  <2> QED BY <1>1, <1>3, <1>5, <1>6, <2>1, <2>3, SameTasks, QuietShape
<1> QED BY <1>7, <1>8

(* What is left of a task when its call has returned, or was not made. *)
LEMMA TaskEnds ==
  ASSUME CallbacksAssumption, Shape, NEW i \in 1 .. Len(tasks), NEW t \in Fwd!Table,
         EndTask(i, t)
  PROVE  /\ tasks' \in Seq(Task) /\ Len(tasks') = Len(tasks) /\ TasksOK'
         /\ \A j \in 1 .. Len(tasks) : j # i => tasks'[j] = tasks[j]
         /\ tasks[i].free => tasks'[i].free
         /\ ~tasks'[i].free => /\ tasks'[i].plugin = tasks[i].plugin
                               /\ tasks'[i].fwd = tasks[i].fwd
                               /\ tasks'[i].onMap = tasks[i].onMap
                               /\ tasks'[i].base = tasks[i].base
                               /\ tasks'[i].wait = Late(tasks[i].wait + tasks[i].base)
         /\ ~tasks'[i].inExec
         /\ table' = IF tasks'[i].free THEN Fwd!Unregistered(t, tasks[i].fwd) ELSE t
         /\ table' \in Fwd!Table /\ Len(table'.sp) = Len(t.sp)
<1> DEFINE b == [tasks[i] EXCEPT !.inExec = FALSE]
           a == Afterwards(b)
<1>1. tasks \in Seq(Task) /\ tasks[i] \in Task /\ TasksOK
  BY ShapeParts
<1>2. /\ b \in Task /\ ~b.inExec
      /\ b.free = tasks[i].free /\ b.plugin = tasks[i].plugin /\ b.fwd = tasks[i].fwd
      /\ b.base = tasks[i].base /\ b.wait = tasks[i].wait /\ b.onMap = tasks[i].onMap
  BY <1>1, InExecSet
<1>3. tasks' = [tasks EXCEPT ![i] = a] /\ table' = IF a.free THEN Fwd!Unregistered(t, tasks[i].fwd) ELSE t
  BY DEF EndTask
<1> HIDE DEF b
<1>4. /\ a \in Task /\ a.inExec = b.inExec
      /\ b.free => a = b
      /\ a.free /\ ~b.free => a.fwd = Fwd!NoForward
      /\ ~a.free => /\ ~b.free /\ a.plugin = b.plugin /\ a.fwd = b.fwd
                    /\ a.onMap = b.onMap /\ a.base = b.base
                    /\ a.wait = Late(b.wait + b.base)
  BY <1>2, AfterwardsParts
<1> HIDE DEF a
<1>5. /\ tasks' \in Seq(Task) /\ Len(tasks') = Len(tasks) /\ tasks'[i] = a
      /\ \A j \in 1 .. Len(tasks) : j # i => tasks'[j] = tasks[j]
  BY <1>1, <1>3, <1>4, Changed
<1>6. IF a.free THEN a.fwd = Fwd!NoForward ELSE a.plugin \in Plugin
  <2>1. IF tasks[i].free THEN tasks[i].fwd = Fwd!NoForward ELSE tasks[i].plugin \in Plugin
    BY <1>1 DEF TasksOK
  <2> QED BY <1>2, <1>4, <2>1
<1>7. TasksOK'
  BY <1>1, <1>5, <1>6 DEF TasksOK
<1>8. table' \in Fwd!Table /\ Len(table'.sp) = Len(t.sp)
  BY <1>3, UnregisteredTypes
<1>9. ~a.free => /\ a.plugin = tasks[i].plugin /\ a.fwd = tasks[i].fwd
                 /\ a.onMap = tasks[i].onMap /\ a.base = tasks[i].base
                 /\ a.wait = Late(tasks[i].wait + tasks[i].base)
  BY <1>2, <1>4
<1> QED BY <1>2, <1>3, <1>4, <1>5, <1>7, <1>8, <1>9

(* Where StartFrame() is in the tasks, and where it is next. *)
LEMMA AtTask ==
  ASSUME Shape, NEW onTime \in BOOLEAN, RunTask(onTime)
  PROVE  /\ stack = <<>> /\ ~Calling /\ UNCHANGED <<requested, handles, running>>
         /\ loop.pos \in 1 .. Len(tasks)
         /\ loop' \in Loop /\ (Len(tasks') = Len(tasks) => LoopOK')
<1>1. /\ stack = <<>> /\ ~Calling /\ UNCHANGED <<requested, handles, running>>
      /\ loop \in Loop /\ loop.at = "tasks" /\ loop.pos <= loop.left
      /\ loop.pos >= 1 /\ loop.left <= Len(tasks) /\ Len(tasks) \in Nat
      /\ loop' = [loop EXCEPT !.pos = loop.pos + 1]
  BY ShapeParts DEF RunTask, Calling, Shape, LoopOK
<1>2. loop.left \in Nat /\ loop.pos \in Nat /\ loop.pos + 1 \in Nat
  BY <1>1, LoopSet
<1>3. loop' \in Loop /\ loop'.at = loop.at /\ loop'.left = loop.left /\ loop'.pos = loop.pos + 1
  BY <1>1, <1>2, LoopSet
<1>4. Len(tasks') = Len(tasks) => LoopOK'
  BY <1>1, <1>2, <1>3 DEF LoopOK
<1> QED BY <1>1, <1>2, <1>3, <1>4

(* RunTask() by what it does with the task. *)
Waits(onTime) ==
  /\ tasks[loop.pos].free \/ ~Due(tasks[loop.pos], onTime)
  /\ UNCHANGED <<table, tasks, stack>>

Called(onTime) ==
  LET i == loop.pos
  IN  /\ ~tasks[i].free /\ Due(tasks[i], onTime)
      /\ Fwd!CanExecute(table, tasks[i].fwd, running)
      /\ tasks' = [tasks EXCEPT ![i] = [tasks[i] EXCEPT !.inExec = TRUE]]
      /\ table' = Fwd!Entered(table, tasks[i].fwd)
      /\ stack' = Pushed("task", tasks[i].fwd, i)

NotCalled(onTime) ==
  LET i == loop.pos
  IN  /\ ~tasks[i].free /\ Due(tasks[i], onTime) /\ UNCHANGED stack
      /\ \/ EndTask(i, table)
         \/ EndTask(i, Fwd!Settled(table, tasks[i].fwd))

LEMMA RunTaskIs ==
  ASSUME NEW onTime \in BOOLEAN, RunTask(onTime)
  PROVE  Waits(onTime) \/ Called(onTime) \/ NotCalled(onTime)
<1>1. CASE tasks[loop.pos].free \/ ~Due(tasks[loop.pos], onTime)
  BY <1>1 DEF RunTask, Waits
<1>2. CASE ~(tasks[loop.pos].free \/ ~Due(tasks[loop.pos], onTime))
  BY <1>2 DEF RunTask, Called, NotCalled, Enter
<1> QED BY <1>1, <1>2

LEMMA CalledTask ==
  ASSUME Shape, NEW onTime \in BOOLEAN, RunTask(onTime), Called(onTime)
  PROVE  LET i   == loop.pos
             fwd == tasks[i].fwd
         IN  /\ i \in 1 .. Len(tasks) /\ fwd \in 1 .. Len(table.sp) /\ fwd \in Nat
             /\ tasks' \in Seq(Task) /\ Len(tasks') = Len(tasks) /\ TasksOK'
             /\ tasks'[i].inExec /\ ~tasks'[i].free
             /\ \A j \in 1 .. Len(tasks) :
                  /\ tasks'[j].free = tasks[j].free /\ tasks'[j].plugin = tasks[j].plugin
                  /\ tasks'[j].fwd = tasks[j].fwd /\ tasks'[j].onMap = tasks[j].onMap
                  /\ tasks'[j].base = tasks[j].base /\ tasks'[j].wait = tasks[j].wait
                  /\ j # i => tasks'[j] = tasks[j]
             /\ table.sp[fwd].func \in Plugin
             /\ ~table.sp[fwd].isFree /\ ~table.sp[fwd].toDelete
             /\ IsPushed("task", fwd, table.sp[fwd].func, i)
             /\ table' = Fwd!Entered(table, fwd)
             /\ table' \in Fwd!Table /\ Len(table'.sp) = Len(table.sp)
<1> DEFINE i   == loop.pos
           fwd == tasks[i].fwd
           n   == [tasks[i] EXCEPT !.inExec = TRUE]
           kind == "task"
<1>1. /\ i \in 1 .. Len(tasks) /\ tasks \in Seq(Task) /\ tasks[i] \in Task
      /\ TasksOK /\ table \in Fwd!Table /\ i \in Nat /\ Len(tasks) \in Nat
  BY AtTask, ShapeParts
<1>2. /\ n \in Task /\ n.inExec
      /\ n.free = tasks[i].free /\ n.plugin = tasks[i].plugin /\ n.fwd = tasks[i].fwd
      /\ n.base = tasks[i].base /\ n.wait = tasks[i].wait /\ n.onMap = tasks[i].onMap
  BY <1>1, InExecSet
<1>3. /\ tasks' = [tasks EXCEPT ![i] = n] /\ table' = Fwd!Entered(table, fwd)
      /\ stack' = Pushed(kind, fwd, i) /\ ~tasks[i].free
      /\ Fwd!CanExecute(table, fwd, running)
  BY DEF Called
<1>4. kind \in Kinds
  BY DEF Kinds
<1>5. fwd = tasks[i].fwd
  OBVIOUS
<1> HIDE DEF n, fwd, kind, i
<1>6. /\ fwd \in 1 .. Len(table.sp) /\ fwd \in Nat
      /\ ~table.sp[fwd].isFree /\ ~table.sp[fwd].toDelete /\ table.sp[fwd].func \in Plugin
  BY <1>3, CanExecuteIs
<1>7. /\ tasks' \in Seq(Task) /\ Len(tasks') = Len(tasks) /\ tasks'[i] = n
      /\ \A j \in 1 .. Len(tasks) : j # i => tasks'[j] = tasks[j]
  BY <1>1, <1>2, <1>3, Changed
<1>8. table' \in Fwd!Table /\ Len(table'.sp) = Len(table.sp)
  BY <1>1, <1>3, <1>6, WithTypes
<1>9. IsPushed(kind, fwd, table.sp[fwd].func, i)
  BY <1>1, <1>3, <1>4, <1>6, PushedIs
<1>10. ASSUME NEW j \in 1 .. Len(tasks)
       PROVE  /\ tasks'[j].free = tasks[j].free /\ tasks'[j].plugin = tasks[j].plugin
              /\ tasks'[j].fwd = tasks[j].fwd /\ tasks'[j].onMap = tasks[j].onMap
              /\ tasks'[j].base = tasks[j].base /\ tasks'[j].wait = tasks[j].wait
              /\ j # i => tasks'[j] = tasks[j]
  <2>1. CASE j = i
    BY <1>2, <1>7, <2>1
  <2>2. CASE j # i
    BY <1>7, <2>2
  <2> QED BY <2>1, <2>2
<1>11. TasksOK'
  BY <1>1, <1>7, <1>10 DEF TasksOK
<1>12. tasks'[i].inExec /\ ~tasks'[i].free
  BY <1>2, <1>3, <1>7
<1> QED BY <1>1, <1>3, <1>5, <1>6, <1>7, <1>8, <1>9, <1>10, <1>11, <1>12 DEF i, fwd, kind

LEMMA RunTaskShape ==
  ASSUME CallbacksAssumption, Shape, NEW onTime \in BOOLEAN, RunTask(onTime)
  PROVE  Shape'
<1>1. /\ stack = <<>> /\ ~Calling /\ UNCHANGED <<requested, handles, running>>
      /\ loop.pos \in 1 .. Len(tasks)
      /\ loop' \in Loop /\ (Len(tasks') = Len(tasks) => LoopOK')
      /\ table \in Fwd!Table /\ Len(tasks) <= MaxTasks
      /\ requested' \in Seq(Asked) /\ handles' \subseteq Asked /\ running' \subseteq Plugin
  BY AtTask, ShapeParts
<1>2. CASE Waits(onTime)
  <2>1. UNCHANGED <<table, tasks, stack>>
    BY <1>2 DEF Waits
  <2>2. tasks' \in Seq(Task) /\ Len(tasks') = Len(tasks) /\ TasksOK'
    BY <2>1, SameTasks
  <2> QED BY <1>1, <2>1, <2>2, QuietShape
<1>3. CASE Called(onTime)
  <2> DEFINE kind == "task"
             i == loop.pos
             fwd == tasks[i].fwd
  <2>1. /\ i \in 1 .. Len(tasks) /\ fwd \in 1 .. Len(table.sp) /\ fwd \in Nat
        /\ tasks' \in Seq(Task) /\ Len(tasks') = Len(tasks) /\ TasksOK'
        /\ tasks'[i].inExec /\ ~tasks'[i].free
        /\ \A j \in 1 .. Len(tasks) :
             /\ tasks'[j].free = tasks[j].free
             /\ tasks'[j].fwd = tasks[j].fwd
             /\ j # i => tasks'[j] = tasks[j]
        /\ IsPushed(kind, fwd, table.sp[fwd].func, i)
        /\ table' \in Fwd!Table /\ Len(table'.sp) = Len(table.sp)
    BY <1>3, CalledTask
  <2>2. kind \in Kinds /\ kind # "execute" /\ kind # "event" /\ kind = "task"
    BY DEF Kinds
  <2>3. Len(table.sp) \in Nat
    BY <1>1, TableParts
  <2>4. tasks'[i].fwd = fwd
    BY <2>1
  <2> HIDE DEF kind, i, fwd
  <2>5. \A j \in 1 .. Len(tasks) : TaskKept(j)
    <3> SUFFICES ASSUME NEW j \in 1 .. Len(tasks) PROVE TaskKept(j)
      OBVIOUS
    <3>1. CASE j = i
      <4>1. tasks'[i].inExec /\ ~tasks'[i].free /\ tasks'[i].fwd = tasks[i].fwd /\ ~tasks[i].free
        BY <2>1
      <4> QED BY <3>1, <4>1 DEF TaskKept
    <3>2. CASE j # i
      <4>1. tasks'[j] = tasks[j]
        BY <2>1, <3>2
      <4> QED BY <4>1 DEF TaskKept
    <3> QED BY <3>1, <3>2
  <2>6. fwd <= Len(table.sp) /\ fwd # Fwd!NoForward
    BY <2>1, <2>3 DEF Fwd!NoForward
  <2> QED BY <1>1, <2>1, <2>2, <2>4, <2>5, <2>6, PushedShape
<1>4. CASE NotCalled(onTime)
  <2> DEFINE i == loop.pos
  <2>1. PICK t \in Fwd!Table : EndTask(i, t)
    BY <1>1, <1>4, SettledTypes DEF NotCalled
  <2>2. /\ tasks' \in Seq(Task) /\ Len(tasks') = Len(tasks) /\ TasksOK'
        /\ table' \in Fwd!Table
    BY <1>1, <2>1, TaskEnds
  <2>3. stack' = <<>>
    BY <1>1, <1>4 DEF NotCalled
  <2> QED BY <1>1, <2>2, <2>3, QuietShape
<1> QED BY <1>2, <1>3, <1>4, RunTaskIs

(* A call returns: the others are as they were. *)
LEMMA BelowShape ==
  ASSUME Shape, Calling, stack' = Below, UNCHANGED <<requested, handles, running, loop>>,
         table' \in Fwd!Table, Len(table'.sp) = Len(table.sp),
         tasks' \in Seq(Task), Len(tasks') = Len(tasks), TasksOK',
         UNCHANGED tasks \/ Len(stack) = 1
  PROVE  Shape'
<1> DEFINE n == Len(stack) - 1
<1>1. /\ stack \in Seq(Call) /\ stack # <<>> /\ StackOK /\ SlotIsKept /\ LoopOK
      /\ Len(tasks) <= MaxTasks
      /\ requested' \in Seq(Asked) /\ handles' \subseteq Asked /\ running' \subseteq Plugin
      /\ loop' \in Loop
  BY ShapeParts DEF Shape, Calling
<1>2. /\ Len(stack) \in Nat /\ Len(stack) > 0
      /\ stack' \in Seq(Call) /\ Len(stack') = n
      /\ \A k \in 1 .. n : stack'[k] = stack[k]
  BY <1>1, Shorter DEF Below
<1>3. TypeOK'
  BY <1>1, <1>2 DEF TypeOK
<1>8. \A k \in 1 .. n : Len(stack) # 1
  BY <1>2
<1>4. ASSUME NEW k \in 1 .. n
      PROVE  CallOK(k) /\ k \in 1 .. Len(stack)
  BY <1>1, <1>2 DEF StackOK
<1>5. StackOK'
  <2> SUFFICES ASSUME NEW k \in 1 .. n PROVE CallOK(k)'
    BY <1>2 DEF StackOK
  <2> QED BY <1>2, <1>4 DEF CallOK
<1>6. SlotIsKept'
  <2> SUFFICES ASSUME NEW k \in 1 .. n, stack[k].kind = "task"
               PROVE  LET i == stack[k].task
                      IN  tasks'[i].inExec /\ (tasks'[i].free \/ tasks'[i].fwd = stack[k].fwd)
    BY <1>2 DEF SlotIsKept
  <2>1. UNCHANGED tasks
    <3>1. Len(stack) # 1
      BY <1>8
    <3> QED BY <3>1
  <2> QED BY <1>1, <1>4, <2>1 DEF SlotIsKept
<1>7. LoopOK'
  BY <1>1 DEF LoopOK
<1> QED BY <1>3, <1>5, <1>6, <1>7 DEF Shape

(* Return() by what was called. *)
LEMMA ReturnIs ==
  ASSUME Shape, Return
  PROVE  /\ Calling /\ stack' = Below /\ UNCHANGED <<requested, handles, running, loop>>
         /\ Top \in Call /\ CallOK(Len(stack)) /\ Len(stack) \in 1 .. Len(stack)
         /\ \/ Top.kind = "event" /\ UNCHANGED <<table, tasks>>
            \/ /\ Top.kind # "event" /\ Top.fwd \in 1 .. Len(table.sp) /\ Top.fwd # Fwd!NoForward
               /\ LET t == Fwd!Left(table, Top.fwd)
                  IN  /\ t \in Fwd!Table /\ Len(t.sp) = Len(table.sp)
                      /\ \/ Top.kind = "execute" /\ table' = t /\ UNCHANGED tasks
                         \/ /\ Top.kind = "request" /\ table' = Fwd!Unregistered(t, Top.fwd)
                            /\ UNCHANGED tasks
                         \/ /\ Top.kind = "task" /\ EndTask(Top.task, t)
                            /\ Top.task \in 1 .. Len(tasks) /\ Len(stack) = 1
<1> DEFINE kind == Top.kind
           t    == Fwd!Left(table, Top.fwd)
<1>1. /\ Calling /\ stack' = Below /\ UNCHANGED <<requested, handles, running, loop>>
      /\ CASE kind = "event"   -> UNCHANGED <<table, tasks>>
           [] kind = "execute" -> table' = t /\ UNCHANGED tasks
           [] kind = "request" -> table' = Fwd!Unregistered(t, Top.fwd) /\ UNCHANGED tasks
           [] kind = "task"    -> EndTask(Top.task, t)
  BY DEF Return
<1>2. /\ Top \in Call /\ Top.fwd \in Nat /\ Len(stack) \in Nat /\ Len(stack) > 0
      /\ Len(stack) \in 1 .. Len(stack)
  BY <1>1, TopIs
<1>3. CallOK(Len(stack))
  BY <1>2 DEF Shape, StackOK
<1>4. /\ kind = "execute" <=> Len(stack) > 1
      /\ Top.fwd <= Len(table.sp)
      /\ Top.fwd = Fwd!NoForward <=> kind = "event"
      /\ kind = "task" => Top.task \in 1 .. Len(tasks)
  BY <1>3 DEF CallOK, Top
<1>5. kind = "event" \/ kind = "execute" \/ kind = "request" \/ kind = "task"
  BY <1>2 DEF Call
<1>6. table \in Fwd!Table /\ Len(table.sp) \in Nat
  BY ShapeParts
<1>7. kind # "event" => Top.fwd \in 1 .. Len(table.sp) /\ Top.fwd # Fwd!NoForward
  BY <1>2, <1>4, <1>6 DEF Fwd!NoForward
<1>8. kind # "event" => t \in Fwd!Table /\ Len(t.sp) = Len(table.sp)
  BY <1>6, <1>7, SettledTypes
<1>9. kind = "task" => Len(stack) = 1
  <2>1. SUFFICES ASSUME kind = "task" PROVE Len(stack) = 1
    OBVIOUS
  <2>2. ~(kind = "execute")
    BY <2>1
  <2> DEFINE n == Len(stack)
  <2>3. n \in Nat /\ n > 0 /\ ~(n > 1)
    BY <1>2, <1>4, <2>2
  <2>4. n = 1
    <3> HIDE DEF n
    <3> QED BY <2>3
  <2> QED BY <2>4
<1>10. CASE kind = "event"
  BY <1>1, <1>2, <1>3, <1>10
<1>11. CASE kind = "execute"
  <2>1. kind # "event" /\ table' = t /\ UNCHANGED tasks
    BY <1>1, <1>11
  <2> HIDE DEF t
  <2> QED BY <1>1, <1>2, <1>3, <1>7, <1>8, <1>11, <2>1 DEF t
<1>12. CASE kind = "request"
  <2>1. kind # "event" /\ table' = Fwd!Unregistered(t, Top.fwd) /\ UNCHANGED tasks
    BY <1>1, <1>12
  <2> QED BY <1>1, <1>2, <1>3, <1>7, <1>8, <1>12, <2>1
<1>13. CASE kind = "task"
  <2>1. kind # "event" /\ EndTask(Top.task, t)
    BY <1>1, <1>13
  <2> QED BY <1>1, <1>2, <1>3, <1>4, <1>7, <1>8, <1>9, <1>13, <2>1
<1> QED BY <1>5, <1>10, <1>11, <1>12, <1>13

LEMMA ReturnShape ==
  ASSUME CallbacksAssumption, Shape, Return
  PROVE  Shape'
<1> DEFINE t == Fwd!Left(table, Top.fwd)
           kind == Top.kind
<1>1. /\ Calling /\ stack' = Below /\ UNCHANGED <<requested, handles, running, loop>>
      /\ table \in Fwd!Table
      /\ \/ kind = "event" /\ UNCHANGED <<table, tasks>>
         \/ /\ t \in Fwd!Table /\ Len(t.sp) = Len(table.sp)
            /\ \/ table' = t /\ UNCHANGED tasks
               \/ table' = Fwd!Unregistered(t, Top.fwd) /\ UNCHANGED tasks
               \/ /\ EndTask(Top.task, t)
                  /\ Top.task \in 1 .. Len(tasks) /\ Len(stack) = 1
  BY ReturnIs, ShapeParts
<1> HIDE DEF t, kind
<1>2. UNCHANGED tasks => tasks' \in Seq(Task) /\ Len(tasks') = Len(tasks) /\ TasksOK'
  BY SameTasks
<1>3. CASE UNCHANGED <<table, tasks>>
  BY <1>1, <1>2, <1>3, BelowShape
<1>4. CASE /\ t \in Fwd!Table /\ Len(t.sp) = Len(table.sp)
           /\ table' = t \/ table' = Fwd!Unregistered(t, Top.fwd)
           /\ UNCHANGED tasks
  <2>1. table' \in Fwd!Table /\ Len(table'.sp) = Len(table.sp)
    BY <1>4, UnregisteredTypes
  <2> QED BY <1>1, <1>2, <1>4, <2>1, BelowShape
<1>5. CASE /\ t \in Fwd!Table /\ Len(t.sp) = Len(table.sp)
           /\ EndTask(Top.task, t) /\ Top.task \in 1 .. Len(tasks) /\ Len(stack) = 1
  <2>1. /\ tasks' \in Seq(Task) /\ Len(tasks') = Len(tasks) /\ TasksOK'
        /\ table' \in Fwd!Table /\ Len(table'.sp) = Len(table.sp)
    BY <1>5, TaskEnds
  <2> QED BY <1>1, <1>5, <2>1, BelowShape
<1> QED BY <1>1, <1>3, <1>4, <1>5

LEMMA NewMap ==
  /\ Fwd!EmptyTable \in Fwd!Table
  /\ Len(Fwd!EmptyTable.sp) = 0 /\ Len(Fwd!EmptyTable.free) = 0
  BY DEF Fwd!EmptyTable, Fwd!Table

LEMMA ChangeMapShape ==
  ASSUME CallbacksAssumption, Shape, ChangeMap
  PROVE  Shape'
<1>1. /\ stack' = <<>> /\ table' = Fwd!EmptyTable /\ tasks' = <<>> /\ handles' = {}
      /\ running' = Plugin /\ requested' = requested /\ loop' = loop /\ loop = Idle
      /\ requested' \in Seq(Asked)
  BY ShapeParts DEF ChangeMap, Calling
<1>2. tasks' \in Seq(Task) /\ Len(tasks') = 0 /\ 0 <= MaxTasks
  BY <1>1 DEF CallbacksAssumption
<1>3. TasksOK'
  BY <1>2 DEF TasksOK
<1>4. loop' \in Loop /\ LoopOK'
  BY <1>1, IdleLoop DEF LoopOK
<1> QED BY <1>1, <1>2, <1>3, <1>4, NewMap, QuietShape

LEMMA InitShape ==
  ASSUME CallbacksAssumption, Init
  PROVE  Shape
<1>1. /\ stack = <<>> /\ table = Fwd!EmptyTable /\ tasks = <<>> /\ handles = {}
      /\ running = Plugin /\ requested = <<>> /\ loop = Idle
  BY DEF Init
<1>2. /\ tasks \in Seq(Task) /\ Len(tasks) = 0 /\ 0 <= MaxTasks
      /\ requested \in Seq(Asked) /\ stack \in Seq(Call) /\ Len(stack) = 0
  BY <1>1 DEF CallbacksAssumption
<1>3. TypeOK
  BY <1>1, <1>2, NewMap, IdleLoop DEF TypeOK
<1>4. StackOK /\ SlotIsKept /\ TasksOK
  BY <1>2 DEF StackOK, SlotIsKept, TasksOK
<1>5. LoopOK
  BY <1>1, IdleLoop DEF LoopOK
<1> QED BY <1>3, <1>4, <1>5 DEF Shape

(* The natives by name: the step of a proof for each of them. *)
LEMMA NextShape ==
  ASSUME CallbacksAssumption, Shape, [Next]_vars
  PROVE  Shape'
<1>1. ASSUME NEW p \in Plugin, Event(p)
      PROVE  Shape'
  BY <1>1, EventShape
<1>2. ASSUME NEW f \in Plugin \cup {NoPlugin}, NEW id \in TaskId, NEW base \in Base,
             NEW flags \in Flags, NEW n \in Repeat, SetTask(f, id, base, flags, n)
      PROVE  Shape'
  BY <1>2, SetTaskShape
<1>3. ASSUME NEW id \in TaskId, NEW outside \in BOOLEAN, RemoveTasks(id, outside)
      PROVE  Shape'
  BY <1>3, RemoveTasksShape
<1>4. ASSUME NEW id \in TaskId, NEW outside \in BOOLEAN, NEW base \in NewBase,
             ChangeTasks(id, base, outside)
      PROVE  Shape'
  BY <1>4, ChangeTasksShape
<1>5. ASSUME NEW f \in Plugin \cup {NoPlugin}, RequestFrame(f)
      PROVE  Shape'
  BY <1>5, RequestFrameShape
<1>6. ASSUME NEW f \in Plugin \cup {NoPlugin}, NEW q \in Plugin, CreateOneForward(q, f)
      PROVE  Shape'
  BY <1>6, CreateShape
<1>7. ASSUME NEW h \in handles, ExecuteForward(h)
      PROVE  Shape'
  BY <1>7, ExecuteShape
<1>8. ASSUME NEW h \in handles, DestroyForward(h)
      PROVE  Shape'
  BY <1>8, DestroyShape
<1>9. ASSUME NEW q \in Plugin, Pause(q) \/ Unpause(q)
      PROVE  Shape'
  BY <1>9, PauseShape
<1>10. Natives => Shape'
  BY <1>2, <1>3, <1>4, <1>5, <1>6, <1>7, <1>8, <1>9 DEF Natives
<1>11. ASSUME NEW ticks \in 0 .. MaxStep, StartFrame(ticks)
       PROVE  Shape'
  BY <1>11, StartFrameShape
<1>12. ASSUME NEW onTime \in BOOLEAN, RunTask(onTime)
       PROVE  Shape'
  BY <1>12, RunTaskShape
<1>13. Frame => Shape'
  BY <1>12, RunRequestShape, LoopShape, ReturnShape DEF Frame
<1>14. ChangeMap => Shape'
  BY ChangeMapShape
<1>15. ASSUME UNCHANGED vars
       PROVE  Shape'
  BY <1>15 DEF Shape, vars, TypeOK, StackOK, CallOK, TasksOK, LoopOK, SlotIsKept
<1> QED BY <1>1, <1>10, <1>11, <1>13, <1>14, <1>15 DEF Next

LEMMA ShapeHolds == Spec => []Shape
<1>1. Init => Shape
  BY InitShape, CallbacksAssumption
<1>2. Shape /\ [Next]_vars => Shape'
  BY NextShape, CallbacksAssumption
<1> QED BY <1>1, <1>2, PTL DEF Spec

(* The table of forwards, the tasks, the requests and the calls are what   *)
(* their types say, whatever the functions do and whoever they name.       *)
THEOREM TypeCorrect == Spec => []TypeOK
<1>1. Shape => TypeOK
  BY DEF Shape
<1> QED BY <1>1, ShapeHolds, PTL

(* executeIfRequired(): when the function of a task returns, the slot is   *)
(* still that task's, or free: a task that a callback sets never has it.   *)
THEOREM SlotKept == Spec => []SlotIsKept
<1>1. Shape => SlotIsKept
  BY DEF Shape
<1> QED BY <1>1, ShapeHolds, PTL

-----------------------------------------------------------------------------
(* The holders by their kinds. *)

TaskHolders(s) == {Holder("task", i, s[i]) : i \in {j \in 1 .. Len(s) : ~s[j].free}}
RequestHolders(r) == {Holder("request", k, r[k]) : k \in 1 .. Len(r)}
RunHolders(s) == {Holder("run", k, s[k]) : k \in {j \in 1 .. Len(s) : s[j].kind = "request"}}
HandleHolders(S) == {Holder("handle", h.fwd, h) : h \in S}

OfKind(S, kind) == \A x \in S : x.kind = kind

LEMMA HolderIs ==
  ASSUME NEW kind, NEW nr, NEW asked
  PROVE  LET x == Holder(kind, nr, asked)
         IN  x.kind = kind /\ x.nr = nr /\ x.fwd = asked.fwd /\ x.plugin = asked.plugin
  BY DEF Holder

LEMMA HoldersAre ==
  /\ Holders = TaskHolders(tasks) \cup RequestHolders(requested) \cup RunHolders(stack)
                 \cup HandleHolders(handles)
  /\ Holders' = TaskHolders(tasks') \cup RequestHolders(requested') \cup RunHolders(stack')
                  \cup HandleHolders(handles')
  BY DEF Holders, Live, TaskHolders, RequestHolders, RunHolders, HandleHolders

LEMMA KindsOfHolders ==
  ASSUME NEW s, NEW r, NEW c, NEW S
  PROVE  /\ OfKind(TaskHolders(s), "task") /\ OfKind(RequestHolders(r), "request")
         /\ OfKind(RunHolders(c), "run") /\ OfKind(HandleHolders(S), "handle")
  BY HolderIs DEF OfKind, TaskHolders, RequestHolders, RunHolders, HandleHolders

LEMMA Holding ==
  /\ \A i \in 1 .. Len(tasks) : ~tasks[i].free => Holder("task", i, tasks[i]) \in Holders
  /\ \A k \in 1 .. Len(requested) : Holder("request", k, requested[k]) \in Holders
  /\ \A k \in 1 .. Len(stack) :
       stack[k].kind = "request" => Holder("run", k, stack[k]) \in Holders
  /\ \A h \in handles : Holder("handle", h.fwd, h) \in Holders
  BY DEF Holders, Live

(* What a step takes from the holders of one kind it takes from no other.  *)
LEMMA OneKindLess ==
  ASSUME NEW T, NEW R, NEW U, NEW S, NEW G,
         OfKind(T, "task"), OfKind(R, "request"), OfKind(U, "run"), OfKind(S, "handle")
  PROVE  /\ OfKind(G, "task") => (T \cup R \cup U \cup S) \ G = (T \ G) \cup R \cup U \cup S
         /\ OfKind(G, "request") => (T \cup R \cup U \cup S) \ G = T \cup (R \ G) \cup U \cup S
         /\ OfKind(G, "run") => (T \cup R \cup U \cup S) \ G = T \cup R \cup (U \ G) \cup S
         /\ OfKind(G, "handle") => (T \cup R \cup U \cup S) \ G = T \cup R \cup U \cup (S \ G)
  BY DEF OfKind

(* Tasks that hold what they held. *)
LEMMA SameTaskHolders ==
  ASSUME NEW s, NEW u, Len(u) = Len(s),
         \A i \in 1 .. Len(s) :
           /\ u[i].free = s[i].free
           /\ s[i].free \/ (u[i].fwd = s[i].fwd /\ u[i].plugin = s[i].plugin)
  PROVE  TaskHolders(u) = TaskHolders(s)
<1>1. \A i \in 1 .. Len(s) : ~s[i].free => Holder("task", i, u[i]) = Holder("task", i, s[i])
  BY DEF Holder
<1>2. \A i \in 1 .. Len(s) : u[i].free <=> s[i].free
  OBVIOUS
<1> QED BY <1>1, <1>2 DEF TaskHolders

LEMMA TaskHolderMore ==
  ASSUME NEW s, NEW u, NEW i, i \in 1 .. Len(u), ~u[i].free,
         i \in 1 .. Len(s) => s[i].free,
         \A j \in 1 .. Len(u) : j # i => j \in 1 .. Len(s) /\ u[j] = s[j],
         \A j \in 1 .. Len(s) : j \in 1 .. Len(u)
  PROVE  TaskHolders(u) = TaskHolders(s) \cup {Holder("task", i, u[i])}
<1> DEFINE x == Holder("task", i, u[i])
<1>1. ASSUME NEW y \in TaskHolders(u)
      PROVE  y \in TaskHolders(s) \cup {x}
  <2>1. PICK j \in 1 .. Len(u) : ~u[j].free /\ y = Holder("task", j, u[j])
    BY <1>1 DEF TaskHolders
  <2> QED BY <2>1 DEF TaskHolders
<1>2. ASSUME NEW y \in TaskHolders(s)
      PROVE  y \in TaskHolders(u)
  <2>1. PICK j \in 1 .. Len(s) : ~s[j].free /\ y = Holder("task", j, s[j])
    BY <1>2 DEF TaskHolders
  <2>2. j # i /\ j \in 1 .. Len(u)
    BY <2>1
  <2> QED BY <2>1, <2>2 DEF TaskHolders
<1>3. x \in TaskHolders(u)
  BY DEF TaskHolders
<1> QED BY <1>1, <1>2, <1>3

LEMMA TaskHoldersLess ==
  ASSUME NEW s, NEW u, NEW I, Len(u) = Len(s), I \subseteq 1 .. Len(s),
         \A j \in 1 .. Len(s) : IF j \in I THEN u[j].free ELSE u[j] = s[j]
  PROVE  LET G == {Holder("task", i, s[i]) : i \in I}
         IN  TaskHolders(u) = TaskHolders(s) \ G /\ OfKind(G, "task")
<1> DEFINE G == {Holder("task", i, s[i]) : i \in I}
<1>1. ASSUME NEW y \in TaskHolders(u)
      PROVE  y \in TaskHolders(s) /\ y \notin G
  <2>1. PICK j \in 1 .. Len(s) : ~u[j].free /\ y = Holder("task", j, u[j])
    BY <1>1 DEF TaskHolders
  <2>2. j \notin I /\ u[j] = s[j]
    BY <2>1
  <2>3. y \in TaskHolders(s) /\ y.nr = j
    BY <2>1, <2>2, HolderIs DEF TaskHolders
  <2>4. \A g \in G : g.nr \in I
    BY HolderIs
  <2> QED BY <2>2, <2>3, <2>4
<1>2. ASSUME NEW y \in TaskHolders(s), y \notin G
      PROVE  y \in TaskHolders(u)
  <2>1. PICK j \in 1 .. Len(s) : ~s[j].free /\ y = Holder("task", j, s[j])
    BY <1>2 DEF TaskHolders
  <2>2. j \notin I
    BY <1>2, <2>1
  <2> QED BY <2>1, <2>2 DEF TaskHolders
<1>3. OfKind(G, "task")
  BY HolderIs DEF OfKind
<1> QED BY <1>1, <1>2, <1>3

LEMMA RequestHolderMore ==
  ASSUME NEW r \in Seq(Asked), NEW asked \in Asked
  PROVE  RequestHolders(Append(r, asked)) =
           RequestHolders(r) \cup {Holder("request", Len(r) + 1, asked)}
<1> DEFINE more == Append(r, asked)
           n == Len(r)
<1>1. /\ n \in Nat /\ Len(more) = n + 1 /\ more[n + 1] = asked
      /\ \A j \in 1 .. n : more[j] = r[j]
  BY Longer
<1> HIDE DEF more, n
<1>2. \A j : j \in 1 .. n + 1 <=> j \in 1 .. n \/ j = n + 1
  BY <1>1
<1>3. RequestHolders(more) = {Holder("request", k, more[k]) : k \in 1 .. n + 1}
  BY <1>1 DEF RequestHolders
<1>4. RequestHolders(r) = {Holder("request", k, r[k]) : k \in 1 .. n}
  BY DEF RequestHolders, n
<1>5. RequestHolders(more) = RequestHolders(r) \cup {Holder("request", n + 1, asked)}
  <2>1. ASSUME NEW y \in RequestHolders(more)
        PROVE  y \in RequestHolders(r) \cup {Holder("request", n + 1, asked)}
    BY <1>1, <1>2, <1>3, <1>4
  <2>2. ASSUME NEW y \in RequestHolders(r)
        PROVE  y \in RequestHolders(more)
    BY <1>1, <1>2, <1>3, <1>4
  <2>3. Holder("request", n + 1, asked) \in RequestHolders(more)
    BY <1>1, <1>2, <1>3
  <2> QED BY <2>1, <2>2, <2>3
<1> QED BY <1>5 DEF more, n

LEMMA HandleHolderMore ==
  ASSUME NEW S, NEW h
  PROVE  HandleHolders(S \cup {h}) = HandleHolders(S) \cup {Holder("handle", h.fwd, h)}
  BY DEF HandleHolders

LEMMA HandleHoldersLess ==
  ASSUME NEW S \in SUBSET Asked, NEW h \in S
  PROVE  LET G == {Holder("handle", h.fwd, h)}
         IN  /\ HandleHolders(S \ {h}) = HandleHolders(S) \ G /\ OfKind(G, "handle")
<1> DEFINE x == Holder("handle", h.fwd, h)
<1>1. \A g \in S : Holder("handle", g.fwd, g) = x => g = h
  <2> SUFFICES ASSUME NEW g \in S, Holder("handle", g.fwd, g) = x PROVE g = h
    OBVIOUS
  <2>1. g.fwd = h.fwd /\ g.plugin = h.plugin
    <3>1. Holder("handle", g.fwd, g).fwd = g.fwd /\ Holder("handle", g.fwd, g).plugin = g.plugin
      BY HolderIs
    <3>2. x.fwd = h.fwd /\ x.plugin = h.plugin
      BY HolderIs
    <3> QED BY <3>1, <3>2
  <2> QED BY <2>1 DEF Asked
<1>2. OfKind({x}, "handle")
  BY HolderIs DEF OfKind
<1> HIDE DEF x
<1>3. HandleHolders(S \ {h}) = HandleHolders(S) \ {x}
  <2>1. ASSUME NEW y \in HandleHolders(S \ {h})
        PROVE  y \in HandleHolders(S) /\ y # x
    <3>1. PICK g \in S \ {h} : y = Holder("handle", g.fwd, g)
      BY <2>1 DEF HandleHolders
    <3> QED BY <1>1, <3>1 DEF HandleHolders
  <2>2. ASSUME NEW y \in HandleHolders(S), y # x
        PROVE  y \in HandleHolders(S \ {h})
    <3>1. PICK g \in S : y = Holder("handle", g.fwd, g)
      BY <2>2 DEF HandleHolders
    <3>2. g # h
      BY <2>2, <3>1 DEF x
    <3> QED BY <3>1, <3>2 DEF HandleHolders
  <2> QED BY <2>1, <2>2
<1> QED BY <1>2, <1>3 DEF x

(* Holders that hold the same forwards under other numbers. *)
LEMMA RenamedOK ==
  ASSUME NEW t, NEW H, NEW C, NEW K, TableOK(t, H, C), Apart(K),
         \A g \in K : \E h \in H : h.fwd = g.fwd /\ h.plugin = g.plugin,
         \A h \in H : \E g \in K : g.fwd = h.fwd
  PROVE  TableOK(t, K, C)
<1>1. InTable(t, K)
  <2>1. InTable(t, H)
    BY DEF TableOK
  <2> QED BY <2>1 DEF InTable
<1>2. ASSUME NEW id \in 1 .. Len(t.sp)
      PROVE  ObjectOK(t, id, K, C)
  <2>1. ObjectOK(t, id, H, C)
    BY DEF TableOK
  <2>2. Has(H, id) => Has(K, id)
    BY DEF Has
  <2>3. \A g \in K : g.fwd = id => ~t.sp[id].isFree /\ ~t.sp[id].toDelete /\ t.sp[id].func = g.plugin
    BY <2>1 DEF ObjectOK
  <2> QED BY <2>1, <2>2, <2>3 DEF ObjectOK
<1> QED BY <1>1, <1>2 DEF TableOK

(* A step that leaves the calls as they are. *)
LEMMA SameCalls ==
  ASSUME IInv, Shape', UNCHANGED stack, TableOK(table', Holders', UnderWay)
  PROVE  IInv'
<1>1. UnderWay' = UnderWay
  BY DEF UnderWay
<1>2. NestedOK'
  BY DEF IInv, NestedOK
<1> QED BY <1>1, <1>2 DEF IInv

LEMMA IInvParts ==
  ASSUME IInv
  PROVE  Shape /\ NestedOK /\ TableOK(table, Holders, UnderWay)
  BY DEF IInv

-----------------------------------------------------------------------------
(* Each operation keeps the invariant. *)

LEMMA SetTaskKeeps ==
  ASSUME CallbacksAssumption, IInv, NEW f \in Plugin \cup {NoPlugin}, NEW id \in TaskId,
         NEW base \in Base, NEW flags \in Flags, NEW n \in Repeat,
         SetTask(f, id, base, flags, n)
  PROVE  IInv'
<1> DEFINE p   == Top.plugin
           fwd == Fwd!RegisteredId(table, f)
           t   == Fwd!Registered(table, f)
           task == SetTaskTo(p, fwd, id, base, flags, n)
<1>1. Shape /\ TableOK(table, Holders, UnderWay)
  BY IInvParts
<1>2. /\ table \in Fwd!Table /\ p \in Plugin /\ TasksOK /\ f \in {p, NoPlugin}
      /\ UNCHANGED <<requested, handles, running, stack, loop>>
  BY <1>1, ShapeParts, TopIs DEF SetTask
<1>3. Shape'
  BY <1>1, SetTaskShape
<1>4. fwd \in Nat /\ (fwd = Fwd!NoForward <=> f = NoPlugin)
  BY <1>2, RegisteredTypes
<1> HIDE DEF p
<1>5. task \in Task /\ ~task.free /\ task.plugin = p /\ task.fwd = fwd
  BY <1>2, <1>4, SetTaskParts
<1>6. CASE f = NoPlugin
  <2>1. table' = Fwd!Registered(table, NoPlugin) /\ UNCHANGED tasks
    BY <1>4, <1>6 DEF SetTask
  <2>2. TableOK(table', Holders, UnderWay)
    BY <1>1, <2>1, NoneRegistered
  <2>3. Holders' = Holders
    BY <1>2, <2>1, HoldersAre DEF Holders, Live
  <2> QED BY <1>2, <1>3, <2>2, <2>3, SameCalls
<1>7. CASE f # NoPlugin
  <2>1. PICK i \in 1 .. Len(tasks) + 1 :
          /\ SlotFor(i)
          /\ IF i > Len(tasks)
             THEN tasks' = Append(tasks, task) /\ table' = t
             ELSE /\ tasks' = [tasks EXCEPT ![i] = task]
                  /\ table' = Fwd!Unregistered(t, tasks[i].fwd)
    BY <1>4, <1>7 DEF SetTask, p
  <2>2. fwd = Fwd!RegisteredId(table, f) /\ t = Fwd!Registered(table, f)
    OBVIOUS
  <2> HIDE DEF task, t, fwd
  <2>3. tasks' = IF i > Len(tasks) THEN Append(tasks, task) ELSE [tasks EXCEPT ![i] = task]
    BY <2>1
  <2>4. /\ i \in 1 .. Len(tasks') /\ tasks'[i] = task
        /\ i \in 1 .. Len(tasks) => Reusable(i)
        /\ \A j \in 1 .. Len(tasks') : j # i => j \in 1 .. Len(tasks) /\ tasks'[j] = tasks[j]
        /\ \A j \in 1 .. Len(tasks) : j \in 1 .. Len(tasks')
    BY <1>1, <1>2, <1>5, <2>1, <2>3, SlotSet
  <2> DEFINE x == Holder("task", i, task)
  <2>5. x.fwd = fwd /\ x.plugin = f /\ f \in Plugin
    BY <1>2, <1>5, <1>7, HolderIs
  <2>6. TaskHolders(tasks') = TaskHolders(tasks) \cup {x}
    <3>1. i \in 1 .. Len(tasks) => tasks[i].free
      BY <2>4 DEF Reusable
    <3>2. ~tasks'[i].free
      BY <1>5, <2>4
    <3>3. TaskHolders(tasks') = TaskHolders(tasks) \cup {Holder("task", i, tasks'[i])}
      BY <2>4, <3>1, <3>2, TaskHolderMore
    <3> QED BY <2>4, <3>3
  <2> HIDE DEF x
  <2>7. Holders' = Holders \cup {x}
    BY <1>2, <2>6, HoldersAre
  <2>8. TableOK(t, Holders \cup {x}, UnderWay)
    BY <1>1, <2>2, <2>5, RegisteredOK
  <2>9. table' = t
    <3>1. CASE i > Len(tasks)
      BY <2>1, <3>1
    <3>2. CASE ~(i > Len(tasks))
      <4>1. i \in 1 .. Len(tasks)
        BY <1>1, <2>1, <3>2, ShapeParts
      <4>2. tasks[i].fwd = Fwd!NoForward
        BY <1>2, <2>4, <4>1 DEF TasksOK, Reusable
      <4> QED BY <2>1, <3>2, <4>2, NothingUnregistered
    <3> QED BY <3>1, <3>2
  <2> QED BY <1>2, <1>3, <2>7, <2>8, <2>9, SameCalls
<1> QED BY <1>6, <1>7

LEMMA RemoveTasksKeeps ==
  ASSUME CallbacksAssumption, IInv, NEW id \in TaskId, NEW outside \in BOOLEAN,
         RemoveTasks(id, outside)
  PROVE  IInv'
<1> DEFINE gone == Gone(id, outside)
           G    == {Holder("task", i, tasks[i]) : i \in gone}
           ids  == {tasks[i].fwd : i \in gone}
<1>1. Shape /\ TableOK(table, Holders, UnderWay) /\ Apart(Holders) /\ Len(tasks) \in Nat
      /\ \A i \in 1 .. Len(tasks) : tasks[i] \in Task
  BY IInvParts, ShapeParts DEF TableOK
<1>2. /\ tasks' = [i \in 1 .. Len(tasks) |-> IF i \in gone THEN ClearedTask(tasks[i]) ELSE tasks[i]]
      /\ UNCHANGED <<requested, handles, running, stack, loop>>
  BY <1>1, Removal
<1>3. Shape'
  BY <1>1, RemoveTasksShape
<1>4. gone \subseteq 1 .. Len(tasks) /\ \A i \in gone : ~tasks[i].free
  BY DEF Gone, Matches
<1> HIDE DEF gone
<1>5. G \subseteq Holders /\ OfKind(G, "task") /\ TaskHolders(tasks') = TaskHolders(tasks) \ G
  <2>1. \A i \in gone : Holder("task", i, tasks[i]) \in Holders
    BY <1>4, Holding
  <2>2. Len(tasks') = Len(tasks)
    BY <1>1, <1>2
  <2>3. \A j \in 1 .. Len(tasks) : IF j \in gone THEN tasks'[j].free ELSE tasks'[j] = tasks[j]
    BY <1>1, <1>2, ClearedParts
  <2> QED BY <1>4, <2>1, <2>2, <2>3, TaskHoldersLess
<1>6. \A j : j \in ids <=> Has(G, j)
  BY HolderIs DEF Has
<1>7. PICK order : RemovesBy(id, outside, order)
  BY <1>1, Removal
<1> DEFINE now == Now(id, outside)
           m   == Cardinality(now)
           seq == [k \in 1 .. m |-> tasks[order[k]].fwd]
<1>8. /\ m \in Nat /\ order \in [1 .. m -> now]
      /\ \A j, k \in 1 .. m : j # k => order[j] # order[k]
      /\ \A i \in now : \E k \in 1 .. m : order[k] = i
      /\ seq \in Seq(Nat \ {0})
      /\ table' = Fwd!AllUnregistered(table, ids, seq)
  BY <1>7 DEF RemovesBy, gone
<1>9. \A i \in gone : i \in now <=> ~table.sp[tasks[i].fwd].inExec
  <2> TAKE i \in gone
  <2> DEFINE x == Holder("task", i, tasks[i])
  <2>1. x \in Holders /\ x.fwd = tasks[i].fwd
    BY <1>4, Holding, HolderIs
  <2> HIDE DEF x
  <2>2. tasks[i].fwd \in 1 .. Len(table.sp) /\ ~table.sp[tasks[i].fwd].isFree
    BY <1>1, <2>1, NotListed
  <2> QED BY <2>2 DEF Now, Fwd!Releasable, Fwd!IsIdValid, gone
<1>10. now \subseteq gone
  BY DEF Now, gone
<1>11. \A i, j \in gone : tasks[i].fwd = tasks[j].fwd => i = j
  <2> SUFFICES ASSUME NEW i \in gone, NEW j \in gone, tasks[i].fwd = tasks[j].fwd
               PROVE  i = j
    OBVIOUS
  <2> DEFINE x == Holder("task", i, tasks[i])
             y == Holder("task", j, tasks[j])
  <2>1. /\ x \in Holders /\ x.fwd = tasks[i].fwd /\ x.nr = i
        /\ y \in Holders /\ y.fwd = tasks[j].fwd /\ y.nr = j
    BY <1>4, Holding, HolderIs
  <2> HIDE DEF x, y
  <2>2. x = y
    BY <1>1, <2>1 DEF Apart
  <2> QED BY <2>1, <2>2
<1> HIDE DEF now, m, G
<1>12. Len(seq) = m /\ \A k \in 1 .. m : order[k] \in now /\ seq[k] = tasks[order[k]].fwd
  BY <1>8
<1> HIDE DEF seq
<1>13. Once(seq)
  <2> SUFFICES ASSUME NEW j \in 1 .. m, NEW k \in 1 .. m, seq[j] = seq[k]
               PROVE  j = k
    BY <1>12 DEF Once
  <2>1. order[j] \in gone /\ order[k] \in gone /\ tasks[order[j]].fwd = tasks[order[k]].fwd
    BY <1>10, <1>12
  <2>2. order[j] = order[k]
    BY <1>11, <2>1
  <2> QED BY <1>8, <2>2
<1>14. \A j : Listed(seq, j) <=> j \in ids /\ ~table.sp[j].inExec
  <2> TAKE j
  <2>1. ASSUME Listed(seq, j) PROVE j \in ids /\ ~table.sp[j].inExec
    <3>1. PICK k \in 1 .. m : seq[k] = j
      BY <1>12, <2>1 DEF Listed
    <3>2. order[k] \in now /\ order[k] \in gone /\ j = tasks[order[k]].fwd
      BY <1>10, <1>12, <3>1
    <3> QED BY <1>9, <3>2
  <2>2. ASSUME j \in ids, ~table.sp[j].inExec PROVE Listed(seq, j)
    <3>1. PICK i \in gone : j = tasks[i].fwd
      BY <2>2
    <3>2. i \in now
      BY <1>9, <2>2, <3>1
    <3>3. PICK k \in 1 .. m : order[k] = i
      BY <1>8, <3>2
    <3>4. seq[k] = j
      BY <1>12, <3>1, <3>3
    <3> QED BY <1>12, <3>4 DEF Listed
  <2> QED BY <2>1, <2>2
<1> HIDE DEF ids
<1>15. TableOK(table', Holders \ G, UnderWay)
  BY <1>1, <1>5, <1>6, <1>8, <1>13, <1>14, AllUnregisteredOK
<1>16. Holders' = Holders \ G
  BY <1>2, <1>5, HoldersAre, OneKindLess, KindsOfHolders
<1> QED BY <1>2, <1>3, <1>15, <1>16, SameCalls

LEMMA ChangeTasksKeeps ==
  ASSUME CallbacksAssumption, IInv, NEW id \in TaskId, NEW outside \in BOOLEAN,
         NEW base \in NewBase, ChangeTasks(id, base, outside)
  PROVE  IInv'
<1>1. Shape /\ TableOK(table, Holders, UnderWay)
  BY IInvParts
<1>2. /\ Shape' /\ Len(tasks') = Len(tasks)
      /\ \A i \in 1 .. Len(tasks) :
           /\ tasks'[i].free = tasks[i].free /\ tasks'[i].plugin = tasks[i].plugin
           /\ tasks'[i].fwd = tasks[i].fwd
  BY <1>1, ChangeTasksShape
<1>3. UNCHANGED <<table, requested, handles, running, stack, loop>>
  BY DEF ChangeTasks
<1>4. TaskHolders(tasks') = TaskHolders(tasks)
  BY <1>2, SameTaskHolders
<1>5. Holders' = Holders
  BY <1>3, <1>4, HoldersAre
<1> QED BY <1>1, <1>2, <1>3, <1>5, SameCalls

LEMMA RequestFrameKeeps ==
  ASSUME CallbacksAssumption, IInv, NEW f \in Plugin \cup {NoPlugin}, RequestFrame(f)
  PROVE  IInv'
<1> DEFINE p   == Top.plugin
           fwd == Fwd!RegisteredId(table, f)
           asked == [fwd |-> fwd, plugin |-> p]
<1>1. Shape /\ TableOK(table, Holders, UnderWay)
  BY IInvParts
<1>2. /\ table \in Fwd!Table /\ p \in Plugin /\ f \in {p, NoPlugin}
      /\ requested \in Seq(Asked)
      /\ UNCHANGED <<tasks, handles, running, stack, loop>>
      /\ table' = Fwd!Registered(table, f)
      /\ requested' = IF fwd = Fwd!NoForward THEN requested ELSE Append(requested, asked)
  BY <1>1, ShapeParts, TopIs DEF RequestFrame
<1>3. Shape'
  BY <1>1, RequestFrameShape
<1>4. fwd \in Nat /\ (fwd = Fwd!NoForward <=> f = NoPlugin)
  BY <1>2, RegisteredTypes
<1>5. CASE f = NoPlugin
  <2>1. table' = Fwd!Registered(table, NoPlugin) /\ UNCHANGED requested
    BY <1>2, <1>4, <1>5
  <2>2. TableOK(table', Holders, UnderWay)
    BY <1>1, <2>1, NoneRegistered
  <2>3. Holders' = Holders
    BY <1>2, <2>1, HoldersAre
  <2> QED BY <1>2, <1>3, <2>2, <2>3, SameCalls
<1>6. CASE f # NoPlugin
  <2>1. f = p /\ f \in Plugin /\ requested' = Append(requested, asked)
    BY <1>2, <1>4, <1>6
  <2>2. asked \in Asked /\ asked.fwd = fwd /\ asked.plugin = p
    BY <1>2, <1>4 DEF Asked
  <2> DEFINE x == Holder("request", Len(requested) + 1, asked)
  <2>3. x.fwd = fwd /\ x.plugin = f
    BY <2>1, <2>2, HolderIs
  <2> HIDE DEF asked
  <2>4. RequestHolders(requested') = RequestHolders(requested) \cup {x}
    BY <1>2, <2>1, <2>2, RequestHolderMore
  <2> HIDE DEF x
  <2>5. Holders' = Holders \cup {x}
    BY <1>2, <2>4, HoldersAre
  <2>6. TableOK(table', Holders \cup {x}, UnderWay)
    BY <1>1, <1>2, <2>1, <2>3, RegisteredOK
  <2> QED BY <1>2, <1>3, <2>5, <2>6, SameCalls
<1> QED BY <1>5, <1>6

LEMMA CreateKeeps ==
  ASSUME CallbacksAssumption, IInv, NEW q \in Plugin, NEW f \in Plugin \cup {NoPlugin},
         CreateOneForward(q, f)
  PROVE  IInv'
<1> DEFINE fwd == Fwd!RegisteredId(table, f)
           asked == [fwd |-> fwd, plugin |-> q]
<1>1. Shape /\ TableOK(table, Holders, UnderWay)
  BY IInvParts
<1>2. /\ table \in Fwd!Table /\ f \in {q, NoPlugin}
      /\ UNCHANGED <<tasks, requested, running, stack, loop>>
      /\ table' = Fwd!Registered(table, f)
      /\ handles' = IF fwd = Fwd!NoForward THEN handles ELSE handles \cup {asked}
  BY <1>1, ShapeParts DEF CreateOneForward
<1>3. Shape'
  BY <1>1, CreateShape
<1>4. fwd \in Nat /\ (fwd = Fwd!NoForward <=> f = NoPlugin)
  BY <1>2, RegisteredTypes
<1>5. CASE f = NoPlugin
  <2>1. table' = Fwd!Registered(table, NoPlugin) /\ UNCHANGED handles
    BY <1>2, <1>4, <1>5
  <2>2. TableOK(table', Holders, UnderWay)
    BY <1>1, <2>1, NoneRegistered
  <2>3. Holders' = Holders
    BY <1>2, <2>1, HoldersAre
  <2> QED BY <1>2, <1>3, <2>2, <2>3, SameCalls
<1>6. CASE f # NoPlugin
  <2>1. f = q /\ f \in Plugin /\ handles' = handles \cup {asked}
    BY <1>2, <1>4, <1>6
  <2>2. asked.fwd = fwd /\ asked.plugin = q
    OBVIOUS
  <2> DEFINE x == Holder("handle", asked.fwd, asked)
  <2>3. x.fwd = fwd /\ x.plugin = f
    BY <2>1, <2>2, HolderIs
  <2> HIDE DEF asked
  <2>4. HandleHolders(handles') = HandleHolders(handles) \cup {x}
    BY <2>1, HandleHolderMore
  <2> HIDE DEF x
  <2>5. Holders' = Holders \cup {x}
    BY <1>2, <2>4, HoldersAre
  <2>6. TableOK(table', Holders \cup {x}, UnderWay)
    BY <1>1, <1>2, <2>1, <2>3, RegisteredOK
  <2> QED BY <1>2, <1>3, <2>5, <2>6, SameCalls
<1> QED BY <1>5, <1>6

LEMMA DestroyKeeps ==
  ASSUME CallbacksAssumption, IInv, NEW h, DestroyForward(h)
  PROVE  IInv'
<1> DEFINE x == Holder("handle", h.fwd, h)
<1>1. Shape /\ TableOK(table, Holders, UnderWay)
  BY IInvParts
<1>2. /\ handles \in SUBSET Asked /\ h \in handles
      /\ UNCHANGED <<tasks, requested, running, stack, loop>>
      /\ table' = Fwd!Unregistered(table, h.fwd) /\ handles' = handles \ {h}
  BY <1>1, ShapeParts DEF DestroyForward
<1>3. Shape'
  BY <1>1, DestroyShape
<1>4. x \in Holders /\ x.fwd = h.fwd
  BY <1>2, Holding, HolderIs
<1>5. HandleHolders(handles') = HandleHolders(handles) \ {x} /\ OfKind({x}, "handle")
  BY <1>2, HandleHoldersLess
<1> HIDE DEF x
<1>6. Holders' = Holders \ {x}
  <2> DEFINE T == TaskHolders(tasks)
             R == RequestHolders(requested)
             U == RunHolders(stack)
             S == HandleHolders(handles)
  <2>1. OfKind(T, "task") /\ OfKind(R, "request") /\ OfKind(U, "run") /\ OfKind(S, "handle")
    BY KindsOfHolders
  <2>2. Holders = T \cup R \cup U \cup S /\ Holders' = T \cup R \cup U \cup (S \ {x})
    BY <1>2, <1>5, HoldersAre
  <2> DEFINE G == {x}
  <2>3. OfKind(G, "handle")
    BY <1>5
  <2> HIDE DEF T, R, U, S, G
  <2>4. (T \cup R \cup U \cup S) \ G = T \cup R \cup U \cup (S \ G)
    BY <2>1, <2>3, OneKindLess
  <2> QED BY <2>2, <2>4 DEF G
<1>7. TableOK(table', Holders \ {x}, UnderWay)
  <2>1. LET u == Fwd!Unregistered(table, x.fwd)
        IN  TableOK(u, Holders \ {x}, UnderWay) /\ Len(u.sp) = Len(table.sp)
    BY <1>1, <1>4, UnregisteredOK
  <2> QED BY <1>2, <1>4, <2>1
<1> QED BY <1>2, <1>3, <1>6, <1>7, SameCalls

LEMMA PauseKeeps ==
  ASSUME IInv, NEW q \in Plugin, Pause(q) \/ Unpause(q)
  PROVE  IInv'
<1>1. Shape /\ TableOK(table, Holders, UnderWay)
  BY IInvParts
<1>2. UNCHANGED <<table, tasks, requested, handles, stack>>
  BY DEF Pause, Unpause
<1>3. Shape'
  BY <1>1, PauseShape
<1>4. Holders' = Holders
  BY <1>2, HoldersAre
<1> QED BY <1>1, <1>2, <1>3, <1>4, SameCalls

LEMMA StartFrameKeeps ==
  ASSUME CallbacksAssumption, IInv, NEW ticks \in 0 .. MaxStep, StartFrame(ticks)
  PROVE  IInv'
<1>1. Shape /\ TableOK(table, Holders, UnderWay)
  BY IInvParts
<1>2. /\ Shape' /\ Len(tasks') = Len(tasks)
      /\ \A i \in 1 .. Len(tasks) :
           /\ tasks'[i].free = tasks[i].free /\ tasks'[i].plugin = tasks[i].plugin
           /\ tasks'[i].fwd = tasks[i].fwd
  BY <1>1, StartFrameShape
<1>3. UNCHANGED <<table, requested, handles, stack>>
  BY DEF StartFrame
<1>4. TaskHolders(tasks') = TaskHolders(tasks)
  BY <1>2, SameTaskHolders
<1>5. Holders' = Holders
  BY <1>3, <1>4, HoldersAre
<1> QED BY <1>1, <1>2, <1>3, <1>5, SameCalls

LEMMA LoopKeeps ==
  ASSUME IInv, RequestsDone \/ FrameDone
  PROVE  IInv'
<1>1. Shape /\ TableOK(table, Holders, UnderWay)
  BY IInvParts
<1>2. UNCHANGED <<table, tasks, requested, handles, stack>>
  BY DEF RequestsDone, FrameDone
<1>3. Shape'
  BY <1>1, LoopShape
<1>4. Holders' = Holders
  BY <1>2, HoldersAre
<1> QED BY <1>1, <1>2, <1>3, <1>4, SameCalls

-----------------------------------------------------------------------------
(* A call through a forward that is under way already is nested, and the   *)
(* function of its forward is still the same.                              *)
LEMMA PushedCalls ==
  ASSUME Shape, NestedOK, NEW kind, NEW fwd, NEW plugin, NEW task,
         IsPushed(kind, fwd, plugin, task), fwd # Fwd!NoForward,
         \A c \in UnderWay : c.fwd = fwd => c.plugin = plugin
  PROVE  /\ UnderWay' = UnderWay \cup {[fwd |-> fwd, plugin |-> plugin]}
         /\ NestedOK'
         /\ kind # "request" => RunHolders(stack') = RunHolders(stack)
<1> DEFINE n == Len(stack)
           call(f, p) == [fwd |-> f, plugin |-> p]
           x == call(fwd, plugin)
           Counts(s, k) == s[k].fwd # Fwd!NoForward /\ ~s[k].nested
<1>1. n \in Nat
  BY ShapeParts
<1>2. /\ Len(stack') = n + 1
      /\ stack'[n + 1].kind = kind /\ stack'[n + 1].fwd = fwd
      /\ stack'[n + 1].plugin = plugin /\ ~stack'[n + 1].nested
      /\ \A k \in 1 .. n :
           /\ stack'[k].kind = stack[k].kind /\ stack'[k].fwd = stack[k].fwd
           /\ stack'[k].plugin = stack[k].plugin
           /\ stack'[k].nested <=> stack[k].nested \/ stack[k].fwd = fwd
  BY DEF IsPushed
<1> HIDE DEF n
<1>3. /\ \A k \in 1 .. n + 1 : k \in 1 .. n \/ k = n + 1
      /\ \A k \in 1 .. n : k \in 1 .. n + 1 /\ k # n + 1
      /\ n + 1 \in 1 .. n + 1
  BY <1>1
<1>4. /\ UnderWay = {call(stack[k].fwd, stack[k].plugin) : k \in {j \in 1 .. n : Counts(stack, j)}}
      /\ UnderWay' = {call(stack'[k].fwd, stack'[k].plugin) :
                        k \in {j \in 1 .. n + 1 : Counts(stack', j)}}
  BY <1>2 DEF UnderWay, n
<1>5. ASSUME NEW k \in 1 .. n
      PROVE  /\ call(stack'[k].fwd, stack'[k].plugin) = call(stack[k].fwd, stack[k].plugin)
             /\ Counts(stack', k) <=> Counts(stack, k) /\ stack[k].fwd # fwd
  BY <1>2
<1>6. call(stack'[n + 1].fwd, stack'[n + 1].plugin) = x /\ Counts(stack', n + 1)
  BY <1>2
<1>7. \A f, p : call(f, p).fwd = f /\ call(f, p).plugin = p
  OBVIOUS
<1>8. \A c \in UnderWay : c.fwd = fwd => c = x
  BY <1>4, <1>7
<1> HIDE DEF Counts, call, x
<1>9. UnderWay' = UnderWay \cup {x}
  <2>1. ASSUME NEW y \in UnderWay'
        PROVE  y \in UnderWay \cup {x}
    <3>1. PICK k \in 1 .. n + 1 : Counts(stack', k) /\ y = call(stack'[k].fwd, stack'[k].plugin)
      BY <1>4
    <3>2. CASE k \in 1 .. n
      BY <1>4, <1>5, <3>1, <3>2
    <3>3. CASE k = n + 1
      BY <1>6, <3>1, <3>3
    <3> QED BY <1>3, <3>2, <3>3
  <2>2. ASSUME NEW y \in UnderWay, y # x
        PROVE  y \in UnderWay'
    <3>1. PICK k \in 1 .. n : Counts(stack, k) /\ y = call(stack[k].fwd, stack[k].plugin)
      BY <1>4
    <3>2. stack[k].fwd # fwd
      BY <1>7, <1>8, <2>2, <3>1
    <3>3. Counts(stack', k) /\ y = call(stack'[k].fwd, stack'[k].plugin) /\ k \in 1 .. n + 1
      BY <1>3, <1>5, <3>1, <3>2
    <3> QED BY <1>4, <3>3
  <2>3. x \in UnderWay'
    BY <1>3, <1>4, <1>6
  <2> QED BY <2>1, <2>2, <2>3
<1>10. NestedOK'
  <2> SUFFICES ASSUME NEW j \in 1 .. n + 1, NEW k \in 1 .. n + 1, j < k,
                      stack'[j].fwd = stack'[k].fwd
               PROVE  stack'[j].nested
    BY <1>2 DEF NestedOK
  <2>1. j \in 1 .. n
    BY <1>1
  <2>2. CASE k \in 1 .. n
    <3>1. stack[j].nested
      BY <1>2, <2>1, <2>2 DEF NestedOK, n
    <3> QED BY <1>2, <2>1, <3>1
  <2>3. CASE k = n + 1
    BY <1>2, <2>1, <2>3
  <2> QED BY <1>3, <2>2, <2>3
<1>11. kind # "request" => RunHolders(stack') = RunHolders(stack)
  <2> SUFFICES ASSUME kind # "request" PROVE RunHolders(stack') = RunHolders(stack)
    OBVIOUS
  <2>1. \A k \in 1 .. n : Holder("run", k, stack'[k]) = Holder("run", k, stack[k])
    BY <1>2 DEF Holder
  <2>2. RunHolders(stack') = {Holder("run", k, stack'[k]) : k \in {j \in 1 .. n + 1 : stack'[j].kind = "request"}}
    BY <1>2 DEF RunHolders
  <2>3. RunHolders(stack) = {Holder("run", k, stack[k]) : k \in {j \in 1 .. n : stack[j].kind = "request"}}
    BY DEF RunHolders, n
  <2>4. \A k : k \in 1 .. n + 1 /\ stack'[k].kind = "request" <=> k \in 1 .. n /\ stack[k].kind = "request"
    BY <1>2, <1>3
  <2> QED BY <2>1, <2>2, <2>3, <2>4
<1> QED BY <1>9, <1>10, <1>11 DEF x, call

(* A call that is made: its forward executes. *)
Enters(kind, fwd, task) ==
  /\ fwd \in 1 .. Len(table.sp) /\ fwd # Fwd!NoForward
  /\ ~table.sp[fwd].isFree /\ ~table.sp[fwd].toDelete /\ table.sp[fwd].func \in Plugin
  /\ IsPushed(kind, fwd, table.sp[fwd].func, task)
  /\ table' = Fwd!Entered(table, fwd)

LEMMA EnteredKeeps ==
  ASSUME IInv, Shape', NEW H, TableOK(table, H, UnderWay), Holders' = H,
         NEW kind, NEW fwd, NEW task, Enters(kind, fwd, task)
  PROVE  IInv'
<1> DEFINE plugin == table.sp[fwd].func
           x == [fwd |-> fwd, plugin |-> plugin]
<1>1. x.fwd = fwd /\ x.plugin = plugin
  OBVIOUS
<1>2. \A c \in UnderWay : c.fwd = fwd => c.plugin = plugin
  <2>1. ObjectOK(table, fwd, H, UnderWay)
    BY DEF TableOK, Enters
  <2> QED BY <2>1 DEF ObjectOK
<1>3. Shape /\ NestedOK
  BY IInvParts
<1>4. /\ IsPushed(kind, fwd, plugin, task) /\ plugin \in Plugin /\ plugin = table.sp[fwd].func
      /\ fwd \in 1 .. Len(table.sp) /\ fwd # Fwd!NoForward
      /\ ~table.sp[fwd].isFree /\ ~table.sp[fwd].toDelete /\ table' = Fwd!Entered(table, fwd)
  BY DEF Enters
<1> HIDE DEF plugin
<1>5. UnderWay' = UnderWay \cup {x} /\ NestedOK'
  BY <1>2, <1>3, <1>4, PushedCalls
<1> HIDE DEF x
<1>6. TableOK(table', H, UnderWay \cup {x})
  <2>1. LET u == Fwd!Entered(table, fwd)
        IN  TableOK(u, H, UnderWay \cup {x}) /\ Len(u.sp) = Len(table.sp)
    BY <1>1, <1>4, EnteredOK
  <2> QED BY <1>4, <2>1
<1> QED BY <1>5, <1>6 DEF IInv

LEMMA ExecuteKeeps ==
  ASSUME CallbacksAssumption, IInv, NEW h, ExecuteForward(h)
  PROVE  IInv'
<1> DEFINE x == Holder("handle", h.fwd, h)
           kind == "execute"
<1>1. Shape /\ NestedOK /\ TableOK(table, Holders, UnderWay)
  BY IInvParts
<1>2. h \in handles /\ UNCHANGED <<tasks, requested, handles, running, loop>> /\ h.fwd \in Nat
  BY <1>1, ShapeParts DEF ExecuteForward, Asked
<1>3. Shape'
  BY <1>1, ExecuteShape
<1>4. x \in Holders /\ x.fwd = h.fwd
  BY <1>2, Holding, HolderIs
<1> HIDE DEF x
<1>5. CASE Fwd!CanExecute(table, h.fwd, running)
  <2>1. table' = Fwd!Entered(table, h.fwd) /\ stack' = Pushed(kind, h.fwd, 0)
    BY <1>5 DEF ExecuteForward, Enter
  <2>2. kind \in Kinds /\ kind # "request"
    BY DEF Kinds
  <2> HIDE DEF kind
  <2>3. /\ h.fwd \in 1 .. Len(table.sp) /\ h.fwd # Fwd!NoForward
        /\ ~table.sp[h.fwd].isFree /\ ~table.sp[h.fwd].toDelete
        /\ table.sp[h.fwd].func \in Plugin
    BY <1>1, <1>5, CanExecuteIs
  <2>4. IsPushed(kind, h.fwd, table.sp[h.fwd].func, 0)
    BY <1>1, <1>2, <2>1, <2>2, <2>3, PushedIs
  <2>5. \A c \in UnderWay : c.fwd = h.fwd => c.plugin = table.sp[h.fwd].func
    BY <1>1, <2>3 DEF TableOK, ObjectOK
  <2>6. RunHolders(stack') = RunHolders(stack)
    BY <1>1, <2>2, <2>3, <2>4, <2>5, PushedCalls
  <2>7. Holders' = Holders
    BY <1>2, <2>6, HoldersAre
  <2>8. Enters(kind, h.fwd, 0)
    BY <2>1, <2>3, <2>4 DEF Enters
  <2> QED BY <1>1, <1>3, <2>7, <2>8, EnteredKeeps
<1>6. CASE ~Fwd!CanExecute(table, h.fwd, running)
  <2>1. table' = Fwd!Settled(table, h.fwd) /\ UNCHANGED stack
    BY <1>6 DEF ExecuteForward
  <2>2. table' = table
    BY <1>1, <1>4, <2>1, SettledSame
  <2>3. Holders' = Holders
    BY <1>2, <2>1, HoldersAre
  <2> QED BY <1>1, <1>3, <2>1, <2>2, <2>3, SameCalls
<1> QED BY <1>5, <1>6

(* An event is a call through no single plugin forward. *)
LEMMA EventKeeps ==
  ASSUME IInv, NEW p \in Plugin, Event(p)
  PROVE  IInv'
<1> DEFINE c == [kind |-> "event", fwd |-> Fwd!NoForward, plugin |-> p, task |-> 0,
                 nested |-> FALSE]
<1>1. Shape /\ TableOK(table, Holders, UnderWay)
  BY IInvParts
<1>2. /\ stack = <<>> /\ stack' = <<c>>
      /\ UNCHANGED <<table, tasks, requested, handles, running, loop>>
  BY DEF Event, Calling
<1>3. Shape'
  BY <1>1, EventShape
<1>4. c.kind # "request" /\ c.fwd = Fwd!NoForward
  OBVIOUS
<1> HIDE DEF c
<1>5. Len(stack) = 0 /\ Len(stack') = 1 /\ stack'[1] = c
  BY <1>2
<1>6. RunHolders(stack) = {} /\ RunHolders(stack') = {}
  BY <1>4, <1>5 DEF RunHolders
<1>7. UnderWay = {} /\ UnderWay' = {}
  BY <1>4, <1>5 DEF UnderWay
<1>8. NestedOK'
  BY <1>5 DEF NestedOK
<1>9. Holders' = Holders
  BY <1>2, <1>6, HoldersAre
<1> QED BY <1>1, <1>2, <1>3, <1>7, <1>8, <1>9 DEF IInv

-----------------------------------------------------------------------------
(* The requests move up when the first is taken. *)
LEMMA MovedOK ==
  ASSUME NEW t, NEW H, NEW C, NEW K, TableOK(t, H, C), NEW old \in [K -> H],
         \A g \in K : old[g].fwd = g.fwd /\ old[g].plugin = g.plugin,
         \A g, k \in K : old[g] = old[k] => g = k,
         \A h \in H : \E g \in K : old[g] = h
  PROVE  TableOK(t, K, C)
<1>1. Apart(K)
  <2> SUFFICES ASSUME NEW g \in K, NEW k \in K, g.fwd = k.fwd PROVE g = k
    BY DEF Apart
  <2>1. old[g] \in H /\ old[k] \in H /\ old[g].fwd = old[k].fwd
    OBVIOUS
  <2>2. old[g] = old[k]
    BY <2>1 DEF TableOK, Apart
  <2> QED BY <2>2
<1>2. \A g \in K : \E h \in H : h.fwd = g.fwd /\ h.plugin = g.plugin
  <2> TAKE g \in K
  <2>1. old[g] \in H
    OBVIOUS
  <2> QED BY <2>1
<1>3. \A h \in H : \E g \in K : g.fwd = h.fwd
  <2> TAKE h \in H
  <2>1. PICK g \in K : old[g] = h
    OBVIOUS
  <2>2. old[g].fwd = g.fwd
    OBVIOUS
  <2> QED BY <2>1, <2>2
<1> QED BY <1>1, <1>2, <1>3, RenamedOK

(* Tail and head of the holders of a queue of requests. *)
LEMMA QueueHolders ==
  ASSUME NEW r \in Seq(Asked), r # <<>>
  PROVE  LET n == Len(r) - 1
             x == Holder("request", 1, r[1])
         IN  /\ n \in Nat /\ x \in RequestHolders(r)
             /\ \A g : g \in RequestHolders(Tail(r)) <=>
                         \E k \in 1 .. n : g = Holder("request", k, r[k + 1])
             /\ \A h : h \in RequestHolders(r) /\ h # x <=>
                         \E k \in 1 .. n : h = Holder("request", k + 1, r[k + 1])
<1> DEFINE n == Len(r) - 1
           x == Holder("request", 1, r[1])
           s == Tail(r)
<1>1. /\ n \in Nat /\ Len(r) = n + 1 /\ Len(s) = n
      /\ \A j \in 1 .. n : s[j] = r[j + 1]
  BY TailOf
<1> HIDE DEF n, s
<1>2. /\ \A k \in 1 .. n : k + 1 \in 1 .. n + 1 /\ k + 1 # 1
      /\ \A k \in 1 .. n + 1 : k # 1 => k - 1 \in 1 .. n /\ k = (k - 1) + 1
      /\ 1 \in 1 .. n + 1
  BY <1>1
<1>3. RequestHolders(r) = {Holder("request", k, r[k]) : k \in 1 .. n + 1}
  BY <1>1 DEF RequestHolders
<1>4. RequestHolders(s) = {Holder("request", k, s[k]) : k \in 1 .. n}
  BY <1>1 DEF RequestHolders
<1>5. ASSUME NEW g
      PROVE  g \in RequestHolders(s) <=> \E k \in 1 .. n : g = Holder("request", k, r[k + 1])
  BY <1>1, <1>4
<1>6. \A k : Holder("request", k, r[k]).nr = k
  BY HolderIs
<1>7. ASSUME NEW h
      PROVE  h \in RequestHolders(r) /\ h # x <=>
               \E k \in 1 .. n : h = Holder("request", k + 1, r[k + 1])
  <2>1. ASSUME h \in RequestHolders(r), h # x
        PROVE  \E k \in 1 .. n : h = Holder("request", k + 1, r[k + 1])
    <3>1. PICK k \in 1 .. n + 1 : h = Holder("request", k, r[k])
      BY <1>3, <2>1
    <3>2. k # 1
      BY <2>1, <3>1
    <3>3. k - 1 \in 1 .. n /\ h = Holder("request", (k - 1) + 1, r[(k - 1) + 1])
      BY <1>2, <3>1, <3>2
    <3> QED BY <3>3
  <2>2. ASSUME NEW k \in 1 .. n, h = Holder("request", k + 1, r[k + 1])
        PROVE  h \in RequestHolders(r) /\ h # x
    <3>1. k + 1 \in 1 .. n + 1 /\ k + 1 # 1
      BY <1>2
    <3>2. h.nr = k + 1 /\ x.nr = 1
      BY <1>6, <2>2
    <3> QED BY <1>3, <2>2, <3>1, <3>2
  <2> QED BY <2>1, <2>2
<1>8. x \in RequestHolders(r)
  BY <1>2, <1>3
<1> QED BY <1>1, <1>5, <1>7, <1>8 DEF n, s

(* The function of the first request is called: its forward is held until  *)
(* that returns.                                                           *)
LEMMA ServedOK ==
  ASSUME NEW t, NEW T, NEW r \in Seq(Asked), r # <<>>, NEW S, NEW C,
         OfKind(T, "task"), OfKind(S, "handle"),
         TableOK(t, T \cup RequestHolders(r) \cup S, C),
         NEW y, y.kind = "run", y.fwd = r[1].fwd, y.plugin = r[1].plugin
  PROVE  TableOK(t, T \cup RequestHolders(Tail(r)) \cup {y} \cup S, C)
<1> DEFINE n == Len(r) - 1
           R == RequestHolders(r)
           Q == RequestHolders(Tail(r))
           x == Holder("request", 1, r[1])
           H == T \cup R \cup S
           K == T \cup Q \cup {y} \cup S
           old == [g \in K |-> IF g.kind = "run" THEN x
                               ELSE IF g.kind = "request"
                               THEN Holder("request", g.nr + 1, r[g.nr + 1]) ELSE g]
<1>1. /\ n \in Nat /\ x \in R
      /\ \A g : g \in Q <=> \E k \in 1 .. n : g = Holder("request", k, r[k + 1])
      /\ \A h : h \in R /\ h # x <=> \E k \in 1 .. n : h = Holder("request", k + 1, r[k + 1])
  BY QueueHolders
<1>2. /\ x.kind = "request" /\ x.nr = 1 /\ x.fwd = r[1].fwd /\ x.plugin = r[1].plugin
      /\ \A k, m : LET h == Holder("request", k, r[m])
                   IN  h.kind = "request" /\ h.nr = k /\ h.fwd = r[m].fwd /\ h.plugin = r[m].plugin
  BY HolderIs
<1>3. \A g \in T \cup S : g.kind # "run" /\ g.kind # "request"
  BY DEF OfKind
<1> HIDE DEF n, R, Q, x
<1>4. \A g \in T \cup S : old[g] = g
  BY <1>3
<1>5. old[y] = x
  OBVIOUS
<1>6. ASSUME NEW k \in 1 .. n
      PROVE  LET g == Holder("request", k, r[k + 1])
             IN  g \in Q /\ old[g] = Holder("request", k + 1, r[k + 1])
  <2> DEFINE g == Holder("request", k, r[k + 1])
  <2>1. g \in Q
    BY <1>1
  <2>2. g.kind = "request" /\ g.nr = k
    BY <1>2
  <2> HIDE DEF g
  <2>3. old[g] = Holder("request", g.nr + 1, r[g.nr + 1])
    BY <2>1, <2>2
  <2> QED BY <2>1, <2>2, <2>3 DEF g
<1>7. \A g \in Q : \E k \in 1 .. n :
        /\ g = Holder("request", k, r[k + 1])
        /\ old[g] = Holder("request", k + 1, r[k + 1])
        /\ old[g].kind = "request" /\ old[g].nr = k + 1
        /\ old[g] \in R /\ old[g] # x
        /\ old[g].fwd = g.fwd /\ old[g].plugin = g.plugin
  <2> TAKE g \in Q
  <2>1. PICK k \in 1 .. n : g = Holder("request", k, r[k + 1])
    BY <1>1
  <2>2. old[g] = Holder("request", k + 1, r[k + 1])
    BY <1>6, <2>1
  <2>3. old[g] \in R /\ old[g] # x
    BY <1>1, <2>2
  <2>4. /\ old[g].kind = "request" /\ old[g].nr = k + 1
        /\ old[g].fwd = g.fwd /\ old[g].plugin = g.plugin
    <3> DEFINE h == Holder("request", k + 1, r[k + 1])
    <3>1. h.kind = "request" /\ h.nr = k + 1 /\ h.fwd = r[k + 1].fwd /\ h.plugin = r[k + 1].plugin
      BY HolderIs
    <3>2. g.fwd = r[k + 1].fwd /\ g.plugin = r[k + 1].plugin
      BY <2>1, HolderIs
    <3>3. old[g] = h
      BY <2>2
    <3> HIDE DEF old, h
    <3> QED BY <3>1, <3>2, <3>3
  <2> HIDE DEF old
  <2> QED BY <2>1, <2>2, <2>3, <2>4
<1>8. old \in [K -> H]
  <2>1. old = [g \in K |-> old[g]]
    OBVIOUS
  <2> HIDE DEF old
  <2>2. \A g \in K : old[g] \in H
    BY <1>1, <1>4, <1>5, <1>7
  <2> QED BY <2>1, <2>2
<1> HIDE DEF old
<1>9. \A g \in K : old[g].fwd = g.fwd /\ old[g].plugin = g.plugin
  BY <1>2, <1>4, <1>5, <1>7
<1>10. \A g, k \in K : old[g] = old[k] => g = k
  <2>1. \A g \in T \cup S : old[g].kind # "request" /\ old[g] = g
    BY <1>3, <1>4
  <2>2. \A g \in Q : old[g].kind = "request" /\ old[g] # x
    BY <1>7
  <2>3. \A g, k \in Q : old[g] = old[k] => g = k
    <3> SUFFICES ASSUME NEW g \in Q, NEW k \in Q, old[g] = old[k] PROVE g = k
      OBVIOUS
    <3>1. PICK i \in 1 .. n : g = Holder("request", i, r[i + 1]) /\ old[g].nr = i + 1
      BY <1>7
    <3>2. PICK j \in 1 .. n : k = Holder("request", j, r[j + 1]) /\ old[k].nr = j + 1
      BY <1>7
    <3>3. i = j
      BY <1>1, <3>1, <3>2
    <3> QED BY <3>1, <3>2, <3>3
  <2>4. \A g \in K : g \in T \cup S \/ g \in Q \/ g = y
    OBVIOUS
  <2> HIDE DEF K
  <2> QED BY <1>2, <1>5, <2>1, <2>2, <2>3, <2>4
<1>11. \A h \in H : \E g \in K : old[g] = h
  <2> TAKE h \in H
  <2>1. CASE h \in T \cup S
    BY <1>4, <2>1
  <2>2. CASE h = x
    BY <1>5, <2>2
  <2>3. CASE h \in R /\ h # x
    <3>1. PICK k \in 1 .. n : h = Holder("request", k + 1, r[k + 1])
      BY <1>1, <2>3
    <3>2. LET g == Holder("request", k, r[k + 1])
          IN  g \in Q /\ old[g] = Holder("request", k + 1, r[k + 1])
      BY <1>6
    <3> QED BY <3>1, <3>2
  <2> QED BY <2>1, <2>2, <2>3
<1> HIDE DEF H, K
<1>12. TableOK(t, H, C)
  BY DEF H, R
<1>13. TableOK(t, K, C)
  BY <1>8, <1>9, <1>10, <1>11, <1>12, MovedOK
<1> QED BY <1>13 DEF K, Q

LEMMA RunRequestKeeps ==
  ASSUME CallbacksAssumption, IInv, RunRequest
  PROVE  /\ IInv'
         /\ Len(stack') > Len(stack) => stack'[1].plugin = requested[1].plugin
<1> DEFINE fwd == requested[1].fwd
           T == TaskHolders(tasks)
           R == RequestHolders(requested)
           Q == RequestHolders(Tail(requested))
           S == HandleHolders(handles)
           x == Holder("request", 1, requested[1])
           y == Holder("run", 1, requested[1])
           kind == "request"
<1>1. Shape /\ NestedOK /\ TableOK(table, Holders, UnderWay) /\ LoopOK
  BY IInvParts DEF Shape
<1>2. /\ stack = <<>> /\ UNCHANGED <<tasks, handles, running>>
      /\ requested \in Seq(Asked) /\ Len(requested) \in Nat /\ loop \in Loop
      /\ loop.at = "requests" /\ loop.left > 0 /\ requested' = Tail(requested)
  BY <1>1, ShapeParts DEF RunRequest, Calling, RequestLeft
<1>3. Shape'
  BY <1>1, RunRequestShape
<1>4. requested # <<>>
  <2>1. loop.left \in Nat /\ loop.left <= Len(requested)
    BY <1>1, <1>2, LoopSet DEF LoopOK
  <2> QED BY <1>2, <2>1
<1>5. /\ Head(requested) = requested[1] /\ requested[1] \in Asked /\ fwd \in Nat
      /\ Len(requested) > 0 /\ 1 \in 1 .. Len(requested)
  <2>1. /\ Head(requested) = requested[1] /\ requested[1] \in Asked
        /\ Len(requested) > 0 /\ Len(requested) \in Nat
    BY <1>2, <1>4, TailOf
  <2>2. fwd \in Nat
    BY <2>1 DEF Asked
  <2> HIDE DEF fwd
  <2> QED BY <2>1, <2>2
<1>6. /\ x \in Holders /\ x.fwd = fwd /\ x.plugin = requested[1].plugin
      /\ y.kind = "run" /\ y.fwd = fwd /\ y.plugin = requested[1].plugin
  BY <1>5, Holding, HolderIs
<1>7. Len(stack) = 0 /\ RunHolders(stack) = {} /\ UnderWay = {}
  BY <1>2 DEF RunHolders, UnderWay
<1>8. /\ OfKind(T, "task") /\ OfKind(S, "handle") /\ OfKind(Q, "request")
  BY KindsOfHolders
<1>9. /\ Holders = T \cup R \cup S
      /\ Holders' = T \cup Q \cup RunHolders(stack') \cup S
  BY <1>2, <1>7, HoldersAre
<1> HIDE DEF T, R, Q, S, x, y
<1>10. TableOK(table, T \cup Q \cup {y} \cup S, UnderWay)
  <2>1. TableOK(table, T \cup RequestHolders(requested) \cup S, UnderWay)
    BY <1>1, <1>9 DEF R
  <2>2. y.fwd = requested[1].fwd
    BY <1>6
  <2> QED BY <1>2, <1>4, <1>6, <1>8, <2>1, <2>2, ServedOK DEF Q
<1>11. CASE Fwd!CanExecute(table, fwd, running)
  <2>1. table' = Fwd!Entered(table, fwd) /\ stack' = Pushed(kind, fwd, 0)
    BY <1>5, <1>11 DEF RunRequest, Enter
  <2>2. kind \in Kinds /\ kind = "request"
    BY DEF Kinds
  <2> HIDE DEF kind, fwd
  <2>3. /\ fwd \in 1 .. Len(table.sp) /\ fwd # Fwd!NoForward
        /\ ~table.sp[fwd].isFree /\ ~table.sp[fwd].toDelete
        /\ table.sp[fwd].func \in Plugin
    BY <1>1, <1>11, CanExecuteIs
  <2>4. IsPushed(kind, fwd, table.sp[fwd].func, 0)
    BY <1>1, <1>5, <2>1, <2>2, <2>3, PushedIs
  <2>5. /\ Len(stack') = 1 /\ stack'[1].kind = kind /\ stack'[1].fwd = fwd
        /\ stack'[1].plugin = table.sp[fwd].func
    BY <1>7, <2>4 DEF IsPushed
  <2>6. table.sp[fwd].func = requested[1].plugin
    BY <1>1, <1>6, NotListed
  <2>7. RunHolders(stack') = {y}
    <3>1. RunHolders(stack') = {Holder("run", 1, stack'[1])}
      BY <2>2, <2>5 DEF RunHolders
    <3>2. Holder("run", 1, stack'[1]) = y
      BY <2>5, <2>6 DEF Holder, y, fwd
    <3> QED BY <3>1, <3>2
  <2>8. IInv'
    <3>1. Holders' = T \cup Q \cup {y} \cup S
      BY <1>9, <2>7
    <3> DEFINE H == T \cup Q \cup {y} \cup S
    <3>2. Holders' = H /\ TableOK(table, H, UnderWay)
      BY <1>10, <3>1
    <3> HIDE DEF H
    <3>3. Enters(kind, fwd, 0)
      BY <2>1, <2>3, <2>4 DEF Enters
    <3> QED BY <1>3, <3>2, <3>3, EnteredKeeps
  <2> QED BY <2>5, <2>6, <2>8
<1>12. CASE ~Fwd!CanExecute(table, fwd, running)
  <2>1. table' = Fwd!Unregistered(Fwd!Settled(table, fwd), fwd) /\ UNCHANGED stack
    BY <1>5, <1>12 DEF RunRequest
  <2> HIDE DEF fwd
  <2>2. Fwd!Settled(table, fwd) = table
    BY <1>1, <1>6, SettledSame
  <2> DEFINE H == T \cup Q \cup {y} \cup S
  <2>3. y \in H /\ TableOK(table, H, UnderWay)
    BY <1>10
  <2>4. H \ {y} = T \cup Q \cup S
    BY <1>6, <1>8 DEF OfKind
  <2> HIDE DEF H
  <2>5. LET u == Fwd!Unregistered(table, y.fwd)
        IN  TableOK(u, H \ {y}, UnderWay) /\ Len(u.sp) = Len(table.sp)
    BY <2>3, UnregisteredOK
  <2>6. TableOK(table', T \cup Q \cup S, UnderWay)
    BY <1>6, <2>1, <2>2, <2>4, <2>5
  <2>7. Holders' = T \cup Q \cup S
    BY <1>7, <1>9, <2>1
  <2>8. IInv'
    BY <1>3, <2>1, <2>6, <2>7, SameCalls
  <2> QED BY <1>7, <2>1, <2>8
<1> QED BY <1>11, <1>12

-----------------------------------------------------------------------------
(* A task that is done gives its forward back, one that stays keeps it. *)
LEMMA TaskEndsKeeps ==
  ASSUME CallbacksAssumption, Shape, NEW i \in 1 .. Len(tasks), NEW t, NEW C,
         TableOK(t, Holders, C), EndTask(i, t), UNCHANGED <<requested, handles>>,
         RunHolders(stack') = RunHolders(stack)
  PROVE  TableOK(table', Holders', C)
<1> DEFINE T == TaskHolders(tasks)
           R == RequestHolders(requested)
           U == RunHolders(stack)
           S == HandleHolders(handles)
           x == Holder("task", i, tasks[i])
<1>1. t \in Fwd!Table /\ TasksOK
  BY ShapeParts DEF TableOK
<1>2. /\ Len(tasks') = Len(tasks)
      /\ \A j \in 1 .. Len(tasks) : j # i => tasks'[j] = tasks[j]
      /\ tasks[i].free => tasks'[i].free
      /\ ~tasks'[i].free => /\ tasks'[i].plugin = tasks[i].plugin
                            /\ tasks'[i].fwd = tasks[i].fwd
      /\ table' = IF tasks'[i].free THEN Fwd!Unregistered(t, tasks[i].fwd) ELSE t
  BY <1>1, TaskEnds
<1>3. /\ OfKind(T, "task") /\ OfKind(R, "request") /\ OfKind(U, "run") /\ OfKind(S, "handle")
  BY KindsOfHolders
<1>4. /\ Holders = T \cup R \cup U \cup S
      /\ Holders' = TaskHolders(tasks') \cup R \cup U \cup S
  BY HoldersAre
<1>5. ~tasks[i].free => x \in Holders /\ x.fwd = tasks[i].fwd
  BY Holding, HolderIs
<1>6. tasks[i].free \in BOOLEAN /\ tasks'[i].free \in BOOLEAN
  <2>1. tasks[i] \in Task
    BY ShapeParts
  <2>2. tasks' \in Seq(Task) /\ i \in 1 .. Len(tasks')
    BY <1>1, <1>2, TaskEnds
  <2>3. tasks'[i] \in Task
    BY <2>2
  <2> QED BY <2>1, <2>3 DEF Task
<1>7. CASE tasks[i].free
  <2>1. tasks[i].fwd = Fwd!NoForward /\ tasks'[i].free
    BY <1>1, <1>2, <1>7 DEF TasksOK
  <2>2. table' = t
    BY <1>2, <2>1, NothingUnregistered
  <2>3. \A j \in 1 .. Len(tasks) :
          /\ tasks'[j].free = tasks[j].free
          /\ tasks[j].free \/ (tasks'[j].fwd = tasks[j].fwd /\ tasks'[j].plugin = tasks[j].plugin)
    BY <1>2, <1>6, <1>7, <2>1
  <2>4. TaskHolders(tasks') = T
    BY <1>2, <2>3, SameTaskHolders
  <2> QED BY <1>4, <2>2, <2>4
<1>8. CASE ~tasks[i].free /\ ~tasks'[i].free
  <2>1. \A j \in 1 .. Len(tasks) :
          /\ tasks'[j].free = tasks[j].free
          /\ tasks[j].free \/ (tasks'[j].fwd = tasks[j].fwd /\ tasks'[j].plugin = tasks[j].plugin)
    BY <1>2, <1>6, <1>8
  <2>2. TaskHolders(tasks') = T
    BY <1>2, <2>1, SameTaskHolders
  <2> QED BY <1>2, <1>4, <1>8, <2>2
<1>9. CASE ~tasks[i].free /\ tasks'[i].free
  <2>1. TaskHolders(tasks') = T \ {x} /\ OfKind({x}, "task")
    <3> DEFINE I == {i}
               G == {Holder("task", k, tasks[k]) : k \in I}
    <3>1. \A j \in 1 .. Len(tasks) : IF j \in I THEN tasks'[j].free ELSE tasks'[j] = tasks[j]
      BY <1>2, <1>9
    <3>2. I \subseteq 1 .. Len(tasks)
      OBVIOUS
    <3>3. G = {x}
      OBVIOUS
    <3> HIDE DEF I, x
    <3>4. TaskHolders(tasks') = TaskHolders(tasks) \ G /\ OfKind(G, "task")
      BY <1>2, <3>1, <3>2, TaskHoldersLess
    <3> QED BY <3>3, <3>4
  <2> HIDE DEF T, R, U, S, x
  <2>2. Holders' = Holders \ {x}
    BY <1>3, <1>4, <2>1, OneKindLess
  <2>3. LET u == Fwd!Unregistered(t, x.fwd)
        IN  TableOK(u, Holders \ {x}, C) /\ Len(u.sp) = Len(t.sp)
    BY <1>5, <1>9, UnregisteredOK
  <2> QED BY <1>2, <1>5, <1>9, <2>2, <2>3
<1> QED BY <1>7, <1>8, <1>9

LEMMA RunTaskKeeps ==
  ASSUME CallbacksAssumption, IInv, NEW onTime \in BOOLEAN, RunTask(onTime)
  PROVE  IInv'
<1> DEFINE i == loop.pos
           fwd == tasks[i].fwd
           kind == "task"
<1>1. Shape /\ NestedOK /\ TableOK(table, Holders, UnderWay)
  BY IInvParts
<1>2. stack = <<>> /\ UNCHANGED <<requested, handles, running>> /\ i \in 1 .. Len(tasks)
  BY <1>1, AtTask
<1>3. Shape'
  BY <1>1, RunTaskShape
<1>4. CASE Waits(onTime)
  <2>1. UNCHANGED <<table, tasks, stack>>
    BY <1>4 DEF Waits
  <2>2. Holders' = Holders
    BY <1>2, <2>1, HoldersAre
  <2> QED BY <1>1, <1>3, <2>1, <2>2, SameCalls
<1>5. CASE Called(onTime)
  <2>1. /\ i \in 1 .. Len(tasks) /\ fwd \in 1 .. Len(table.sp) /\ fwd \in Nat
        /\ Len(tasks') = Len(tasks)
        /\ \A j \in 1 .. Len(tasks) :
             /\ tasks'[j].free = tasks[j].free /\ tasks'[j].plugin = tasks[j].plugin
             /\ tasks'[j].fwd = tasks[j].fwd
        /\ table.sp[fwd].func \in Plugin
        /\ ~table.sp[fwd].isFree /\ ~table.sp[fwd].toDelete
        /\ IsPushed(kind, fwd, table.sp[fwd].func, i)
        /\ table' = Fwd!Entered(table, fwd)
    BY <1>1, <1>5, CalledTask
  <2>2. fwd # Fwd!NoForward
    <3>1. fwd \in 1 .. Len(table.sp)
      BY <2>1
    <3> HIDE DEF fwd
    <3> QED BY <3>1 DEF Fwd!NoForward
  <2>3. kind # "request"
    OBVIOUS
  <2>4. TaskHolders(tasks') = TaskHolders(tasks)
    BY <2>1, SameTaskHolders
  <2> HIDE DEF fwd, kind, i
  <2>5. \A c \in UnderWay : c.fwd = fwd => c.plugin = table.sp[fwd].func
    BY <1>1, <2>1 DEF TableOK, ObjectOK
  <2>6. RunHolders(stack') = RunHolders(stack)
    BY <1>1, <2>1, <2>2, <2>3, <2>5, PushedCalls
  <2>7. Holders' = Holders
    BY <1>2, <2>4, <2>6, HoldersAre
  <2>8. Enters(kind, fwd, i)
    BY <2>1, <2>2 DEF Enters
  <2> QED BY <1>1, <1>3, <2>7, <2>8, EnteredKeeps
<1>6. CASE NotCalled(onTime)
  <2>1. UNCHANGED stack /\ ~tasks[i].free
    BY <1>6 DEF NotCalled
  <2> DEFINE x == Holder("task", i, tasks[i])
  <2>2. x \in Holders /\ x.fwd = fwd
    BY <1>2, <2>1, Holding, HolderIs
  <2> HIDE DEF x
  <2>3. Fwd!Settled(table, fwd) = table
    BY <1>1, <2>2, SettledSame
  <2>4. EndTask(i, table)
    BY <1>6, <2>3 DEF NotCalled
  <2>5. RunHolders(stack') = RunHolders(stack)
    BY <2>1
  <2> HIDE DEF i
  <2>6. TableOK(table', Holders', UnderWay)
    BY <1>1, <1>2, <2>4, <2>5, TaskEndsKeeps
  <2> QED BY <1>3, <2>1, <2>6, SameCalls
<1> QED BY <1>4, <1>5, <1>6, RunTaskIs

(* A call that returns was the only one through its forward that was not   *)
(* nested.                                                                 *)
LEMMA ReturnedCalls ==
  ASSUME Shape, NestedOK, Calling, stack' = Below
  PROVE  /\ NestedOK'
         /\ Top.fwd = Fwd!NoForward => UnderWay' = UnderWay
         /\ Top.fwd # Fwd!NoForward =>
              /\ UnderWay' \subseteq UnderWay /\ Elsewhere(Top.fwd, UnderWay', UnderWay)
              /\ ~Has(UnderWay', Top.fwd)
         /\ Top.kind # "request" => RunHolders(stack') = RunHolders(stack)
         /\ Top.kind = "request" =>
              RunHolders(stack') = RunHolders(stack) \ {Holder("run", Len(stack), Top)}
<1> DEFINE n == Len(stack) - 1
           m == Len(stack)
           fwd == Top.fwd
           call(k) == [fwd |-> stack[k].fwd, plugin |-> stack[k].plugin]
           Counts(k) == stack[k].fwd # Fwd!NoForward /\ ~stack[k].nested
           run(k) == Holder("run", k, stack[k])
<1>1. stack \in Seq(Call) /\ stack # <<>>
  BY ShapeParts DEF Calling
<1>2. /\ m \in Nat /\ m > 0 /\ Len(stack') = n
      /\ \A k \in 1 .. n : stack'[k] = stack[k]
  BY <1>1, Shorter DEF Below
<1>3. /\ \A k \in 1 .. n : k \in 1 .. m /\ k # m /\ k < m
      /\ \A k \in 1 .. m : k \in 1 .. n \/ k = m
      /\ m \in 1 .. m
  BY <1>2
<1>4. stack[m].fwd = fwd /\ stack[m] = Top
  BY DEF Top
<1> HIDE DEF n
<1>5. \A k \in 1 .. n : stack[k].fwd = fwd => stack[k].nested
  BY <1>3, <1>4 DEF NestedOK
<1>6. UnderWay = {call(k) : k \in {j \in 1 .. m : Counts(j)}}
  BY DEF UnderWay
<1>7. UnderWay' = {call(k) : k \in {j \in 1 .. n : Counts(j)}}
  <2>1. UnderWay' = {[fwd |-> stack'[k].fwd, plugin |-> stack'[k].plugin] :
                       k \in {j \in 1 .. n : stack'[j].fwd # Fwd!NoForward /\ ~stack'[j].nested}}
    BY <1>2 DEF UnderWay
  <2> QED BY <1>2, <2>1
<1>8. NestedOK'
  <2> SUFFICES ASSUME NEW j \in 1 .. n, NEW k \in 1 .. n, j < k, stack[j].fwd = stack[k].fwd
               PROVE  stack[j].nested
    BY <1>2 DEF NestedOK
  <2> QED BY <1>3 DEF NestedOK
<1>9. \A k : call(k).fwd = stack[k].fwd
  OBVIOUS
<1>10. \A k \in 1 .. n : Counts(k) => stack[k].fwd # fwd
  BY <1>5
<1>11. Counts(m) => fwd # Fwd!NoForward
  BY <1>4
<1> HIDE DEF call, Counts, m, fwd
<1>12. UnderWay' \subseteq UnderWay
  BY <1>3, <1>6, <1>7
<1>13. ~Has(UnderWay', fwd)
  <2>1. \A c \in UnderWay' : c.fwd # fwd
    BY <1>7, <1>9, <1>10
  <2> QED BY <2>1 DEF Has
<1>14. ASSUME NEW c \in UnderWay, c.fwd # fwd \/ fwd = Fwd!NoForward
       PROVE  c \in UnderWay'
  <2>1. PICK k \in 1 .. m : Counts(k) /\ c = call(k)
    BY <1>6
  <2>2. k # m
    BY <1>4, <1>9, <1>11, <1>14, <2>1
  <2> QED BY <1>3, <1>7, <2>1, <2>2
<1>15. Elsewhere(fwd, UnderWay', UnderWay)
  BY <1>12, <1>14 DEF Elsewhere
<1>16. fwd = Fwd!NoForward => UnderWay' = UnderWay
  BY <1>12, <1>14
<1>17. RunHolders(stack) = {run(k) : k \in {j \in 1 .. m : stack[j].kind = "request"}}
  BY DEF RunHolders, m
<1>18. RunHolders(stack') = {run(k) : k \in {j \in 1 .. n : stack[j].kind = "request"}}
  <2>1. RunHolders(stack') = {Holder("run", k, stack'[k]) : k \in {j \in 1 .. n : stack'[j].kind = "request"}}
    BY <1>2 DEF RunHolders
  <2> QED BY <1>2, <2>1
<1>19. \A k : run(k).nr = k
  BY HolderIs
<1> HIDE DEF run
<1>20. Top.kind # "request" => RunHolders(stack') = RunHolders(stack)
  BY <1>3, <1>4, <1>17, <1>18
<1>21. RunHolders(stack') = RunHolders(stack) \ {run(m)}
  BY <1>3, <1>17, <1>18, <1>19
<1>22. run(m) = Holder("run", m, Top)
  BY <1>4 DEF run
<1> QED BY <1>8, <1>12, <1>13, <1>15, <1>16, <1>20, <1>21, <1>22 DEF fwd, m

LEMMA ReturnKeeps ==
  ASSUME CallbacksAssumption, IInv, Return
  PROVE  IInv'
<1> DEFINE fwd == Top.fwd
           t == Fwd!Left(table, fwd)
           C == UnderWay'
           T == TaskHolders(tasks)
           R == RequestHolders(requested)
           U == RunHolders(stack)
           S == HandleHolders(handles)
           x == Holder("run", Len(stack), Top)
<1>1. Shape /\ NestedOK /\ TableOK(table, Holders, UnderWay)
  BY IInvParts
<1>2. /\ Calling /\ stack' = Below /\ UNCHANGED <<requested, handles, running, loop>>
      /\ Len(stack) \in 1 .. Len(stack) /\ CallOK(Len(stack))
      /\ \/ Top.kind = "event" /\ UNCHANGED <<table, tasks>>
         \/ /\ Top.kind # "event" /\ fwd \in 1 .. Len(table.sp) /\ fwd # Fwd!NoForward
            /\ \/ Top.kind = "execute" /\ table' = t /\ UNCHANGED tasks
               \/ /\ Top.kind = "request" /\ table' = Fwd!Unregistered(t, fwd)
                  /\ UNCHANGED tasks
               \/ /\ Top.kind = "task" /\ EndTask(Top.task, t)
                  /\ Top.task \in 1 .. Len(tasks)
  BY <1>1, ReturnIs
<1>3. Shape'
  BY <1>1, ReturnShape
<1>4. /\ NestedOK'
      /\ fwd = Fwd!NoForward => C = UnderWay
      /\ fwd # Fwd!NoForward =>
           C \subseteq UnderWay /\ Elsewhere(fwd, C, UnderWay) /\ ~Has(C, fwd)
      /\ Top.kind # "request" => RunHolders(stack') = U
      /\ Top.kind = "request" => RunHolders(stack') = U \ {x}
  BY <1>1, <1>2, ReturnedCalls
<1>5. /\ Holders = T \cup R \cup U \cup S
      /\ Holders' = TaskHolders(tasks') \cup R \cup RunHolders(stack') \cup S
  BY <1>2, HoldersAre
<1>6. SUFFICES TableOK(table', Holders', C)
  BY <1>3, <1>4 DEF IInv
<1> HIDE DEF fwd, t, C, T, R, U, S, x
<1>7. CASE Top.kind = "event" /\ UNCHANGED <<table, tasks>>
  <2>1. fwd = Fwd!NoForward
    BY <1>2, <1>7 DEF CallOK, Top, fwd
  <2>2. Top.kind # "request"
    BY <1>7
  <2>3. C = UnderWay /\ Holders' = Holders
    BY <1>4, <1>5, <1>7, <2>1, <2>2 DEF T
  <2> QED BY <1>1, <1>7, <2>3
<1>8. ASSUME fwd \in 1 .. Len(table.sp), fwd # Fwd!NoForward
      PROVE  TableOK(t, Holders, C)
  <2>1. LET u == Fwd!Left(table, fwd)
        IN  TableOK(u, Holders, C) /\ Len(u.sp) = Len(table.sp)
    BY <1>1, <1>4, <1>8, LeftOK
  <2> QED BY <2>1 DEF t
<1>9. CASE /\ Top.kind = "execute" /\ table' = t /\ UNCHANGED tasks
           /\ fwd \in 1 .. Len(table.sp) /\ fwd # Fwd!NoForward
  <2>1. Top.kind # "request"
    BY <1>9
  <2>2. Holders' = Holders
    BY <1>4, <1>5, <1>9, <2>1 DEF T
  <2> QED BY <1>8, <1>9, <2>2
<1>10. CASE /\ Top.kind = "request" /\ table' = Fwd!Unregistered(t, fwd) /\ UNCHANGED tasks
            /\ fwd \in 1 .. Len(table.sp) /\ fwd # Fwd!NoForward
  <2>1. x \in Holders /\ x.fwd = fwd /\ OfKind({x}, "run")
    <3>1. stack[Len(stack)] = Top
      BY DEF Top
    <3>2. Holder("run", Len(stack), Top) \in Holders
      BY <1>2, <1>10, <3>1, Holding
    <3> QED BY <3>2, HolderIs DEF x, fwd, OfKind
  <2>2. Holders' = Holders \ {x}
    <3>1. /\ OfKind(T, "task") /\ OfKind(R, "request") /\ OfKind(U, "run") /\ OfKind(S, "handle")
      BY KindsOfHolders DEF T, R, U, S
    <3>2. Holders' = T \cup R \cup (U \ {x}) \cup S
      BY <1>4, <1>5, <1>10 DEF T
    <3> DEFINE G == {x}
    <3>3. OfKind(G, "run")
      BY <2>1
    <3> HIDE DEF G
    <3>4. (T \cup R \cup U \cup S) \ G = T \cup R \cup (U \ G) \cup S
      BY <3>1, <3>3, OneKindLess
    <3> QED BY <1>5, <3>2, <3>4 DEF G
  <2>3. LET u == Fwd!Unregistered(t, x.fwd)
        IN  TableOK(u, Holders \ {x}, C) /\ Len(u.sp) = Len(t.sp)
    BY <1>8, <1>10, <2>1, UnregisteredOK
  <2> QED BY <1>10, <2>1, <2>2, <2>3
<1>11. CASE /\ Top.kind = "task" /\ EndTask(Top.task, t) /\ Top.task \in 1 .. Len(tasks)
            /\ fwd \in 1 .. Len(table.sp) /\ fwd # Fwd!NoForward
  <2>1. Top.kind # "request"
    BY <1>11
  <2>2. RunHolders(stack') = RunHolders(stack)
    BY <1>4, <2>1 DEF U
  <2> QED BY <1>1, <1>2, <1>8, <1>11, <2>2, TaskEndsKeeps
<1> QED BY <1>2, <1>7, <1>9, <1>10, <1>11

LEMMA NothingHeld ==
  TableOK(Fwd!EmptyTable, {}, {})
<1>1. Fwd!EmptyTable \in Fwd!Table /\ Len(Fwd!EmptyTable.sp) = 0 /\ Len(Fwd!EmptyTable.free) = 0
  BY NewMap
<1> QED BY <1>1 DEF TableOK, Once, InTable, Apart

LEMMA ChangeMapKeeps ==
  ASSUME CallbacksAssumption, ~LateRequests, IInv, ChangeMap
  PROVE  IInv'
<1>1. /\ stack' = <<>> /\ table' = Fwd!EmptyTable /\ tasks' = <<>> /\ handles' = {}
      /\ requested' = <<>>
  BY DEF ChangeMap, Calling
<1>2. Shape'
  BY IInvParts, ChangeMapShape
<1>3. Len(stack') = 0 /\ Len(tasks') = 0 /\ Len(requested') = 0
  BY <1>1
<1>4. UnderWay' = {}
  BY <1>3 DEF UnderWay
<1>5. Holders' = {}
  BY <1>1, <1>3, HoldersAre DEF TaskHolders, RequestHolders, RunHolders, HandleHolders
<1>6. NestedOK'
  BY <1>3 DEF NestedOK
<1> QED BY <1>1, <1>2, <1>4, <1>5, <1>6, NothingHeld DEF IInv

LEMMA InitKeeps ==
  ASSUME CallbacksAssumption, Init
  PROVE  IInv
<1>1. /\ stack = <<>> /\ table = Fwd!EmptyTable /\ tasks = <<>> /\ handles = {}
      /\ requested = <<>>
  BY DEF Init
<1>2. Shape
  BY InitShape
<1>3. Len(stack) = 0 /\ Len(tasks) = 0 /\ Len(requested) = 0
  BY <1>1
<1>4. UnderWay = {}
  BY <1>3 DEF UnderWay
<1>5. Holders = {}
  BY <1>1, <1>3, HoldersAre DEF TaskHolders, RequestHolders, RunHolders, HandleHolders
<1>6. NestedOK
  BY <1>3 DEF NestedOK
<1> QED BY <1>1, <1>2, <1>4, <1>5, <1>6, NothingHeld DEF IInv

LEMMA NextKeeps ==
  ASSUME CallbacksAssumption, ~LateRequests, IInv, [Next]_vars
  PROVE  IInv'
<1>1. ASSUME NEW p \in Plugin, Event(p)
      PROVE  IInv'
  BY <1>1, EventKeeps
<1>2. ASSUME NEW f \in Plugin \cup {NoPlugin}, NEW id \in TaskId, NEW base \in Base,
             NEW flags \in Flags, NEW n \in Repeat, SetTask(f, id, base, flags, n)
      PROVE  IInv'
  BY <1>2, SetTaskKeeps
<1>3. ASSUME NEW id \in TaskId, NEW outside \in BOOLEAN, RemoveTasks(id, outside)
      PROVE  IInv'
  BY <1>3, RemoveTasksKeeps
<1>4. ASSUME NEW id \in TaskId, NEW outside \in BOOLEAN, NEW base \in NewBase,
             ChangeTasks(id, base, outside)
      PROVE  IInv'
  BY <1>4, ChangeTasksKeeps
<1>5. ASSUME NEW f \in Plugin \cup {NoPlugin}, RequestFrame(f)
      PROVE  IInv'
  BY <1>5, RequestFrameKeeps
<1>6. ASSUME NEW f \in Plugin \cup {NoPlugin}, NEW q \in Plugin, CreateOneForward(q, f)
      PROVE  IInv'
  BY <1>6, CreateKeeps
<1>7. ASSUME NEW h \in handles, ExecuteForward(h)
      PROVE  IInv'
  BY <1>7, ExecuteKeeps
<1>8. ASSUME NEW h \in handles, DestroyForward(h)
      PROVE  IInv'
  BY <1>8, DestroyKeeps
<1>9. ASSUME NEW q \in Plugin, Pause(q) \/ Unpause(q)
      PROVE  IInv'
  BY <1>9, PauseKeeps
<1>10. Natives => IInv'
  BY <1>2, <1>3, <1>4, <1>5, <1>6, <1>7, <1>8, <1>9 DEF Natives
<1>11. ASSUME NEW ticks \in 0 .. MaxStep, StartFrame(ticks)
       PROVE  IInv'
  BY <1>11, StartFrameKeeps
<1>12. ASSUME NEW onTime \in BOOLEAN, RunTask(onTime)
       PROVE  IInv'
  BY <1>12, RunTaskKeeps
<1>13. Frame => IInv'
  BY <1>12, RunRequestKeeps, LoopKeeps, ReturnKeeps DEF Frame
<1>14. ChangeMap => IInv'
  BY ChangeMapKeeps
<1>15. ASSUME UNCHANGED vars
       PROVE  IInv'
  <2>1. UNCHANGED <<table, tasks, requested, handles, stack>>
    BY <1>15 DEF vars
  <2>2. Shape'
    BY IInvParts, NextShape
  <2>3. Holders' = Holders
    BY <2>1, HoldersAre
  <2> QED BY <2>1, <2>2, <2>3, IInvParts, SameCalls
<1> QED BY <1>1, <1>10, <1>11, <1>13, <1>14, <1>15 DEF Next

LEMMA IInvHolds ==
  ASSUME ~LateRequests
  PROVE  Spec => []IInv
<1>1. Init => IInv
  BY InitKeeps, CallbacksAssumption
<1>2. IInv /\ [Next]_vars => IInv'
  BY NextKeeps, CallbacksAssumption
<1> QED BY <1>1, <1>2, PTL DEF Spec

-----------------------------------------------------------------------------
(* What the invariant says. *)

LEMMA OwnFollows == IInv => HoldersOwn
<1> SUFFICES ASSUME IInv PROVE HoldersOwn
  OBVIOUS
<1>1. TableOK(table, Holders, UnderWay) /\ Apart(Holders)
  BY DEF IInv, TableOK
<1>2. \A h \in Holders :
        /\ h.fwd \in 1 .. Len(table.sp) /\ ~table.sp[h.fwd].isFree
        /\ ~table.sp[h.fwd].toDelete /\ table.sp[h.fwd].func = h.plugin
  BY <1>1, NotListed, CallbacksAssumption
<1> QED BY <1>1, <1>2 DEF HoldersOwn, Apart, Fwd!IsIdValid

LEMMA FreeListFollows == IInv => FreeListOK
<1> SUFFICES ASSUME IInv PROVE FreeListOK
  OBVIOUS
<1> DEFINE free == table.free
<1>1. /\ Once(free) /\ \A j \in 1 .. Len(free) : free[j] \in 1 .. Len(table.sp)
      /\ \A id \in 1 .. Len(table.sp) : ObjectOK(table, id, Holders, UnderWay)
  BY DEF IInv, TableOK
<1>2. \A id \in 1 .. Len(table.sp) :
        /\ table.sp[id].isFree => Listed(free, id)
        /\ Listed(free, id) => table.sp[id].isFree \/ table.sp[id].func = NoPlugin
  BY <1>1 DEF ObjectOK
<1>3. \A j \in 1 .. Len(free) : Listed(free, free[j])
  BY DEF Listed
<1>4. ASSUME NEW j \in 1 .. Len(free)
      PROVE  /\ Fwd!IsIdValid(table, free[j])
             /\ table.sp[free[j]].isFree \/ table.sp[free[j]].func = NoPlugin
             /\ \A k \in 1 .. Len(free) : free[j] = free[k] => j = k
  <2>1. free[j] \in 1 .. Len(table.sp) /\ Listed(free, free[j])
    BY <1>1, <1>3
  <2> QED BY <1>1, <1>2, <2>1 DEF Once, Fwd!IsIdValid
<1>5. ASSUME NEW id \in 1 .. Len(table.sp), table.sp[id].isFree
      PROVE  \E j \in 1 .. Len(free) : free[j] = id
  BY <1>2, <1>5 DEF Listed
<1> QED BY <1>4, <1>5 DEF FreeListOK

LEMMA NoLeakFollows == IInv => NoLeak
<1> SUFFICES ASSUME IInv, NEW id \in 1 .. Len(table.sp)
             PROVE  \/ \E j \in 1 .. Len(table.free) : table.free[j] = id
                    \/ \E h \in Holders : h.fwd = id
                    \/ table.sp[id].toDelete /\ \E k \in 1 .. Len(stack) : stack[k].fwd = id
  BY DEF NoLeak
<1>1. ObjectOK(table, id, Holders, UnderWay)
  BY DEF IInv, TableOK
<1>2. /\ Listed(table.free, id) \/ Has(Holders, id) \/ table.sp[id].toDelete
      /\ table.sp[id].toDelete => Has(UnderWay, id)
  BY <1>1 DEF ObjectOK
<1>3. Has(UnderWay, id) => \E k \in 1 .. Len(stack) : stack[k].fwd = id
  BY DEF Has, UnderWay
<1> QED BY <1>2, <1>3 DEF Listed, Has

LEMMA CallFollows == IInv => CallIsKept
<1> SUFFICES ASSUME IInv, NEW k \in 1 .. Len(stack),
                    stack[k].fwd # Fwd!NoForward, ~stack[k].nested
             PROVE  /\ Fwd!IsIdValid(table, stack[k].fwd)
                    /\ LET fwd == table.sp[stack[k].fwd]
                       IN  fwd.inExec /\ ~fwd.isFree /\ fwd.func = stack[k].plugin
  BY DEF CallIsKept
<1> DEFINE c == [fwd |-> stack[k].fwd, plugin |-> stack[k].plugin]
<1>1. c \in UnderWay /\ c.fwd = stack[k].fwd /\ c.plugin = stack[k].plugin
  BY DEF UnderWay
<1> HIDE DEF c
<1>2. c.fwd \in 1 .. Len(table.sp)
  BY <1>1 DEF IInv, TableOK, InTable
<1>3. ObjectOK(table, c.fwd, Holders, UnderWay)
  BY <1>2 DEF IInv, TableOK
<1> QED BY <1>1, <1>2, <1>3 DEF ObjectOK, Fwd!IsIdValid

(* registerSPForward() and unregisterSPForward(): the forward of a task,   *)
(* of a request and of a handle is the one that was registered for it, and *)
(* nobody else's, as long as no request outlives its map.                  *)
THEOREM ForwardsOwned ==
  ASSUME ~LateRequests
  PROVE  Spec => []HoldersOwn
BY IInvHolds, OwnFollows, PTL

(* The stack of free forwards has each number once and none that is in     *)
(* use: registerSPForward() never gives a forward away twice.              *)
THEOREM FreeListCorrect ==
  ASSUME ~LateRequests
  PROVE  Spec => []FreeListOK
BY IInvHolds, FreeListFollows, PTL

(* Whatever the functions create, remove and destroy while they are        *)
(* called, no forward is lost: it is free, or somebody's, or is deleted    *)
(* when its call returns.                                                  *)
THEOREM NoForwardLost ==
  ASSUME ~LateRequests
  PROVE  Spec => []NoLeak
BY IInvHolds, NoLeakFollows, PTL

(* executeForwards(): a forward that is unregistered while its function is *)
(* called is neither freed nor given to another before that returns,       *)
(* unless the function executed it again.                                  *)
THEOREM CallsKept ==
  ASSUME ~LateRequests
  PROVE  Spec => []CallIsKept
BY IInvHolds, CallFollows, PTL

(* Only ExecuteFrameCallbacks() takes requests. *)
LEMMA RequestsGrow ==
  ASSUME Shape, Next, ~RunRequest
  PROVE  UNCHANGED requested \/ Len(requested') >= Len(requested)
<1>1. ASSUME NEW f \in Plugin \cup {NoPlugin}, RequestFrame(f)
      PROVE  UNCHANGED requested \/ Len(requested') >= Len(requested)
  <2> DEFINE asked == [fwd |-> Fwd!RegisteredId(table, f), plugin |-> Top.plugin]
  <2>1. requested' = requested \/ requested' = Append(requested, asked)
    BY <1>1 DEF RequestFrame
  <2>2. requested \in Seq(Asked) /\ Len(requested) \in Nat
    BY ShapeParts
  <2> HIDE DEF asked
  <2> QED BY <2>1, <2>2
<1>2. Natives => UNCHANGED requested \/ Len(requested') >= Len(requested)
  BY <1>1 DEF Natives, SetTask, RemoveTasks, ChangeTasks, CreateOneForward, ExecuteForward,
              DestroyForward, Pause, Unpause
<1>3. Frame => UNCHANGED requested
  BY DEF Frame, RequestsDone, RunTask, FrameDone, Return
<1>4. (\E p \in Plugin : Event(p)) \/ (\E ticks \in 0 .. MaxStep : StartFrame(ticks)) \/ ChangeMap
        => UNCHANGED requested
  BY DEF Event, StartFrame, ChangeMap
<1> QED BY <1>2, <1>3, <1>4 DEF Next

(* RequestFrame(): the function that is called on the next frame is the    *)
(* one that was asked for, whatever happened to its plugin's forwards in   *)
(* between.                                                                *)
THEOREM RequestsRunRight ==
  ASSUME ~LateRequests
  PROVE  Spec => RequestsRunTheirOwn
<1> DEFINE A == Len(requested') < Len(requested) /\ Len(stack') > Len(stack)
                  => stack'[1].plugin = requested[1].plugin
<1>1. IInv /\ [Next]_vars => [A]_vars
  <2> SUFFICES ASSUME IInv, Next PROVE A
    OBVIOUS
  <2>1. CASE RunRequest
    BY <2>1, RunRequestKeeps, CallbacksAssumption
  <2>2. CASE ~RunRequest
    <3>1. Shape /\ Shape'
      BY IInvParts, NextShape, CallbacksAssumption
    <3>2. Len(requested) \in Nat /\ Len(requested') \in Nat
      BY <3>1 DEF Shape, TypeOK
    <3>3. UNCHANGED requested \/ Len(requested') >= Len(requested)
      BY <2>2, <3>1, RequestsGrow
    <3> QED BY <3>2, <3>3
  <2> QED BY <2>1, <2>2
<1> QED BY <1>1, IInvHolds, PTL DEF Spec, RequestsRunTheirOwn

-----------------------------------------------------------------------------
(* How long a task waits. *)

(* A live task has an interval of at least nothing, waits no longer than   *)
(* that, and was due if it is being called.                                *)
WaitOK(task) ==
  ~task.free =>
    /\ task.base \in Nat
    /\ task.onMap \/ (task.wait <= task.base /\ (task.inExec => task.wait <= 0))

WaitsOK == \A i \in 1 .. Len(tasks) : WaitOK(tasks[i])

LEMMA NearerIs ==
  ASSUME CallbacksAssumption, NEW w \in Int, NEW ticks \in Nat
  PROVE  /\ \A b \in Nat : w <= b => Late(w - ticks) <= b
         /\ w <= 0 => Late(w - ticks) <= 0
         /\ \A b \in Nat : w <= 0 => Late(w + b) <= b
<1>1. w - ticks \in Int /\ \A b \in Nat : w + b \in Int /\ (w <= b => w - ticks <= b)
  OBVIOUS
<1>2. \A b \in Nat : w <= b => Late(w - ticks) <= b
  BY <1>1, LateIs
<1>3. w <= 0 => Late(w - ticks) <= 0
  BY <1>2
<1>4. \A b \in Nat : w <= 0 => Late(w + b) <= b
  <2> TAKE b \in Nat
  <2> SUFFICES ASSUME w <= 0 PROVE Late(w + b) <= b
    OBVIOUS
  <2>1. w + b \in Int /\ w + b <= b
    OBVIOUS
  <2> QED BY <2>1, LateIs
<1> QED BY <1>2, <1>3, <1>4

LEMMA SetTaskWaits ==
  ASSUME CallbacksAssumption, Shape, WaitsOK, NEW f \in Plugin \cup {NoPlugin},
         NEW id \in TaskId, NEW base \in Base, NEW flags \in Flags, NEW n \in Repeat,
         SetTask(f, id, base, flags, n)
  PROVE  WaitsOK'
<1> DEFINE p   == Top.plugin
           fwd == Fwd!RegisteredId(table, f)
           task == SetTaskTo(p, fwd, id, base, flags, n)
<1>1. table \in Fwd!Table /\ p \in Plugin
  BY ShapeParts, TopIs DEF SetTask
<1>2. fwd \in Nat
  BY <1>1, RegisteredTypes
<1>3. /\ task \in Task /\ ~task.free /\ task.plugin = p /\ ~task.inExec
      /\ task.base = base /\ task.wait = base
  BY <1>1, <1>2, SetTaskParts
<1>4. base \in Nat
  BY DEF CallbacksAssumption
<1>5. CASE UNCHANGED tasks
  BY <1>5 DEF WaitsOK
<1>6. CASE ~UNCHANGED tasks
  <2>1. PICK i : /\ SlotFor(i)
                 /\ tasks' = IF i > Len(tasks) THEN Append(tasks, task)
                             ELSE [tasks EXCEPT ![i] = task]
    BY <1>6 DEF SetTask
  <2> HIDE DEF task, p
  <2>2. /\ i \in 1 .. Len(tasks') /\ tasks'[i] = task
        /\ \A j \in 1 .. Len(tasks') : j # i => j \in 1 .. Len(tasks) /\ tasks'[j] = tasks[j]
    BY <1>1, <1>3, <2>1, SlotSet
  <2>3. WaitOK(task)
    BY <1>3, <1>4 DEF WaitOK
  <2> QED BY <2>2, <2>3 DEF WaitsOK
<1> QED BY <1>5, <1>6

LEMMA TasksWait ==
  ASSUME CallbacksAssumption, NewBase \subseteq Nat, Shape, WaitsOK, NEW id \in TaskId,
         NEW outside \in BOOLEAN,
         \/ RemoveTasks(id, outside)
         \/ \E base \in NewBase : ChangeTasks(id, base, outside)
  PROVE  WaitsOK'
<1>1. Len(tasks) \in Nat /\ \A i \in 1 .. Len(tasks) : tasks[i] \in Task
  BY ShapeParts
<1>2. CASE RemoveTasks(id, outside)
  <2>1. tasks' = [i \in 1 .. Len(tasks) |->
                    IF i \in Gone(id, outside) THEN ClearedTask(tasks[i]) ELSE tasks[i]]
    BY <1>2, Removal
  <2>2. \A i \in 1 .. Len(tasks) : tasks'[i].free \/ tasks'[i] = tasks[i]
    BY <1>1, <2>1, ClearedParts
  <2>3. Len(tasks') = Len(tasks)
    BY <1>1, <2>1
  <2> QED BY <2>2, <2>3 DEF WaitsOK, WaitOK
<1>3. ASSUME NEW base \in NewBase, ChangeTasks(id, base, outside)
      PROVE  WaitsOK'
  <2> DEFINE hit(i) == Matches(tasks[i], id, outside)
  <2>1. tasks' = [i \in 1 .. Len(tasks) |-> IF hit(i) THEN Rebased(tasks[i], base) ELSE tasks[i]]
    BY <1>3 DEF ChangeTasks
  <2> HIDE DEF hit
  <2>2. Len(tasks') = Len(tasks)
    BY <1>1, <2>1
  <2>3. ASSUME NEW i \in 1 .. Len(tasks)
        PROVE  WaitOK(tasks'[i])
    <3> DEFINE task == tasks[i]
               r == Rebased(task, base)
    <3>1. task \in Task /\ WaitOK(task) /\ base \in Nat
      BY <1>1 DEF WaitsOK
    <3>2. /\ r.free = task.free /\ r.inExec = task.inExec /\ r.onMap = task.onMap
          /\ r.base = base /\ r.wait = IF task.inExec THEN task.wait ELSE base
      BY <3>1, RebasedParts
    <3>3. task.wait \in Int
      BY <3>1 DEF Task
    <3>4. tasks'[i] = r \/ tasks'[i] = task
      BY <2>1
    <3> HIDE DEF r, task
    <3>5. WaitOK(r)
      BY <3>1, <3>2, <3>3 DEF WaitOK
    <3> QED BY <3>1, <3>4, <3>5
  <2> QED BY <2>2, <2>3 DEF WaitsOK
<1> QED BY <1>2, <1>3

LEMMA StartFrameWaits ==
  ASSUME CallbacksAssumption, Shape, WaitsOK, NEW ticks \in 0 .. MaxStep, StartFrame(ticks)
  PROVE  WaitsOK'
<1>1. /\ Len(tasks') = Len(tasks)
      /\ \A i \in 1 .. Len(tasks) :
           /\ tasks'[i].free = tasks[i].free /\ tasks'[i].onMap = tasks[i].onMap
           /\ tasks'[i].base = tasks[i].base /\ tasks'[i].inExec = tasks[i].inExec
           /\ tasks[i].free \/ tasks'[i].wait = Late(tasks[i].wait - ticks)
  BY StartFrameShape
<1>2. ASSUME NEW i \in 1 .. Len(tasks)
      PROVE  WaitOK(tasks'[i])
  <2> DEFINE w == tasks[i].wait
             b == tasks[i].base
  <2>1. w \in Int /\ ticks \in Nat /\ WaitOK(tasks[i])
    <3>1. tasks[i] \in Task
      BY ShapeParts
    <3>2. w \in Int
      BY <3>1 DEF Task
    <3> QED BY <3>2 DEF WaitsOK
  <2> HIDE DEF w, b
  <2>2. /\ \A n \in Nat : w <= n => Late(w - ticks) <= n
        /\ w <= 0 => Late(w - ticks) <= 0
    BY <2>1, NearerIs
  <2> QED BY <1>1, <2>1, <2>2 DEF WaitOK, w, b
<1> QED BY <1>1, <1>2 DEF WaitsOK

(* A task that was due is called again after its interval. *)
LEMMA EndTaskWaits ==
  ASSUME CallbacksAssumption, Shape, WaitsOK, NEW i \in 1 .. Len(tasks), NEW t \in Fwd!Table,
         EndTask(i, t), tasks[i].free \/ tasks[i].onMap \/ tasks[i].wait <= 0
  PROVE  WaitsOK'
<1>1. /\ Len(tasks') = Len(tasks)
      /\ \A j \in 1 .. Len(tasks) : j # i => tasks'[j] = tasks[j]
      /\ tasks[i].free => tasks'[i].free
      /\ ~tasks'[i].free => /\ tasks'[i].onMap = tasks[i].onMap
                            /\ tasks'[i].base = tasks[i].base
                            /\ tasks'[i].wait = Late(tasks[i].wait + tasks[i].base)
      /\ ~tasks'[i].inExec
  BY TaskEnds
<1>2. WaitOK(tasks'[i])
  <2> SUFFICES ASSUME ~tasks'[i].free PROVE WaitOK(tasks'[i])
    BY DEF WaitOK
  <2> DEFINE w == tasks[i].wait
             b == tasks[i].base
  <2>1. w \in Int /\ WaitOK(tasks[i]) /\ 0 \in Nat /\ ~tasks[i].free
    BY <1>1, ShapeParts DEF Task, WaitsOK
  <2>2. b \in Nat
    BY <2>1 DEF WaitOK
  <2> HIDE DEF w, b
  <2>3. w <= 0 => Late(w + b) <= b
    BY <2>1, <2>2, NearerIs
  <2> QED BY <1>1, <2>1, <2>2, <2>3 DEF WaitOK, w, b
<1>3. \A j \in 1 .. Len(tasks) : WaitOK(tasks'[j])
  BY <1>1, <1>2 DEF WaitsOK
<1> QED BY <1>1, <1>3 DEF WaitsOK

LEMMA RunTaskWaits ==
  ASSUME CallbacksAssumption, Shape, WaitsOK, NEW onTime \in BOOLEAN, RunTask(onTime)
  PROVE  WaitsOK'
<1> DEFINE i == loop.pos
<1>1. i \in 1 .. Len(tasks) /\ table \in Fwd!Table
  BY AtTask, ShapeParts
<1>2. CASE Waits(onTime)
  BY <1>2 DEF Waits, WaitsOK
<1>3. CASE Called(onTime)
  <2>1. /\ Len(tasks') = Len(tasks)
        /\ \A j \in 1 .. Len(tasks) :
             /\ tasks'[j].free = tasks[j].free /\ tasks'[j].onMap = tasks[j].onMap
             /\ tasks'[j].base = tasks[j].base /\ tasks'[j].wait = tasks[j].wait
             /\ j # i => tasks'[j] = tasks[j]
    BY <1>3, CalledTask
  <2>2. tasks[i].onMap \/ tasks[i].wait <= 0
    BY <1>3 DEF Called, Due
  <2>3. WaitOK(tasks'[i])
    BY <1>1, <2>1, <2>2 DEF WaitsOK, WaitOK
  <2>4. \A j \in 1 .. Len(tasks) : WaitOK(tasks'[j])
    BY <2>1, <2>3 DEF WaitsOK
  <2> QED BY <2>1, <2>4 DEF WaitsOK
<1>4. CASE NotCalled(onTime)
  <2>1. tasks[i].onMap \/ tasks[i].wait <= 0
    BY <1>4 DEF NotCalled, Due
  <2>2. PICK t \in Fwd!Table : EndTask(i, t)
    BY <1>1, <1>4, SettledTypes DEF NotCalled
  <2> QED BY <1>1, <2>1, <2>2, EndTaskWaits
<1> QED BY <1>2, <1>3, <1>4, RunTaskIs

LEMMA ReturnWaits ==
  ASSUME CallbacksAssumption, Shape, WaitsOK, Return
  PROVE  WaitsOK'
<1> DEFINE t == Fwd!Left(table, Top.fwd)
           i == Top.task
<1>1. /\ Len(stack) \in 1 .. Len(stack)
      /\ \/ UNCHANGED tasks
         \/ /\ Top.kind = "task" /\ EndTask(i, t) /\ t \in Fwd!Table
            /\ i \in 1 .. Len(tasks)
  BY ReturnIs
<1>2. CASE UNCHANGED tasks
  BY <1>2 DEF WaitsOK
<1>3. CASE /\ Top.kind = "task" /\ EndTask(i, t) /\ t \in Fwd!Table
           /\ i \in 1 .. Len(tasks)
  <2>1. tasks[i].inExec
    BY <1>1, <1>3 DEF Shape, SlotIsKept, Top
  <2>2. WaitOK(tasks[i])
    BY <1>3 DEF WaitsOK
  <2>3. tasks[i].free \/ tasks[i].onMap \/ tasks[i].wait <= 0
    BY <2>1, <2>2 DEF WaitOK
  <2> HIDE DEF i, t
  <2> QED BY <1>3, <2>3, EndTaskWaits
<1> QED BY <1>1, <1>2, <1>3

LEMMA NextWaits ==
  ASSUME CallbacksAssumption, NewBase \subseteq Nat, Shape, WaitsOK, [Next]_vars
  PROVE  WaitsOK'
<1>1. CASE UNCHANGED tasks
  BY <1>1 DEF WaitsOK
<1>2. ASSUME NEW f \in Plugin \cup {NoPlugin}, NEW id \in TaskId, NEW base \in Base,
             NEW flags \in Flags, NEW n \in Repeat, SetTask(f, id, base, flags, n)
      PROVE  WaitsOK'
  BY <1>2, SetTaskWaits
<1>3. ASSUME NEW id \in TaskId, NEW outside \in BOOLEAN,
             RemoveTasks(id, outside) \/ \E base \in NewBase : ChangeTasks(id, base, outside)
      PROVE  WaitsOK'
  BY <1>3, TasksWait
<1>4. ASSUME NEW ticks \in 0 .. MaxStep, StartFrame(ticks)
      PROVE  WaitsOK'
  BY <1>4, StartFrameWaits
<1>5. ASSUME NEW onTime \in BOOLEAN, RunTask(onTime)
      PROVE  WaitsOK'
  BY <1>5, RunTaskWaits
<1>6. ASSUME ChangeMap
      PROVE  WaitsOK'
  <2>1. tasks' = <<>>
    BY <1>6 DEF ChangeMap
  <2>2. Len(tasks') = 0
    BY <2>1
  <2> QED BY <2>2 DEF WaitsOK
<1>7. Natives => UNCHANGED tasks \/ WaitsOK'
  BY <1>2, <1>3 DEF Natives, RequestFrame, CreateOneForward, ExecuteForward,
                    DestroyForward, Pause, Unpause
<1>8. Frame => UNCHANGED tasks \/ WaitsOK'
  BY <1>5, ReturnWaits DEF Frame, RunRequest, RequestsDone, FrameDone
<1>9. (\E p \in Plugin : Event(p)) => UNCHANGED tasks
  BY DEF Event
<1>10. UNCHANGED vars => UNCHANGED tasks
  BY DEF vars
<1> QED BY <1>1, <1>4, <1>6, <1>7, <1>8, <1>9, <1>10 DEF Next

(* executeIfRequired() and change_task(): no task waits for longer than    *)
(* its interval, although its callback may change that while it is called. *)
(* set_task() raises its interval to 0.1 s; change_task() takes any, and a *)
(* task with one below zero is due again at once: the theorem is about     *)
(* intervals that are not.                                                 *)
THEOREM NeverTooLong ==
  ASSUME NewBase \subseteq Nat
  PROVE  Spec => []NotTooLong
<1>1. Init => WaitsOK
  <2> SUFFICES ASSUME Init PROVE WaitsOK
    OBVIOUS
  <2>1. Len(tasks) = 0
    BY DEF Init
  <2> QED BY <2>1 DEF WaitsOK
<1>2. Shape /\ WaitsOK /\ [Next]_vars => WaitsOK'
  BY NextWaits, CallbacksAssumption
<1>3. WaitsOK => NotTooLong
  BY DEF WaitsOK, WaitOK, NotTooLong, Live
<1> QED BY <1>1, <1>2, <1>3, ShapeHolds, PTL DEF Spec

=============================================================================
