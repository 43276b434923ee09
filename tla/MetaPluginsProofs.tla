------------------------- MODULE MetaPluginsProofs -------------------------
(***************************************************************************)
(* For every set of plugin files and builds, every plugins.ini and every   *)
(* size of the list: the plugin manager, started from a plugins.ini of     *)
(* which it skips no line, keeps its list consistent.                      *)
(***************************************************************************)
EXTENDS MetaPlugins, TLAPS

USE DEF PL_EMPTY, PL_VALID, PL_BADFILE, PL_OPENED, PL_FAILED, PL_RUNNING,
        PL_PAUSED, PT_NEVER, PT_STARTUP, PT_CHANGELEVEL, PT_ANYTIME,
        PT_ANYPAUSE, Live, Running

-----------------------------------------------------------------------------
(* One plugin. *)

Opened(pl) ==
  IF pl.status >= PL_OPENED THEN pl.handle /\ pl.info \in Build
                            ELSE ~pl.handle /\ pl.info = NoInfo

(* What holds of a plugin between the steps of an operation, too. *)
Fits(pl) ==
  /\ Running(pl) => pl.action \notin {"NULL", "LOAD"}
  /\ Live(pl) => pl.path \in Path
  /\ ~Live(pl) => pl.action = "NULL" /\ pl.parent = 0

Good(pl) == pl \in Plugin /\ Opened(pl) /\ Fits(pl)

(* new is the same plugin as pl, or an empty slot; only the reading of     *)
(* plugins.ini marks a plugin to be kept.                                  *)
Succeeds(new, pl) ==
  /\ Live(new) => Live(pl) /\ new.path = pl.path /\ new.parent = pl.parent
  /\ new.action = "KEEP" => pl.action = "KEEP"

DiskOK == disk \in [Path -> Build \cup {NoFile}]

LEMMA WipedGood == Good(Wiped) /\ ~Live(Wiped)
<1>1. Wiped \in Plugin
  BY ListAssumption DEF Wiped, Plugin, Actions, Sources
<1>2. /\ Wiped.status = PL_EMPTY /\ Wiped.action = "NULL"
      /\ Wiped.info = NoInfo /\ ~Wiped.handle /\ Wiped.parent = 0
  BY DEF Wiped
<1> QED BY <1>1, <1>2 DEF Good, Opened, Fits

LEMMA ClearedGood ==
  ASSUME NEW pl, Good(pl)
  PROVE  Good(Cleared(pl)) /\ Succeeds(Cleared(pl), pl) /\ ~Live(Cleared(pl))
<1>1. Wiped \in Plugin /\ pl \in Plugin
  BY WipedGood DEF Good
<1>2. Cleared(pl) \in Plugin
  BY <1>1 DEF Cleared, Plugin
<1>3. /\ Cleared(pl).status = PL_EMPTY /\ Cleared(pl).action = "NULL"
      /\ Cleared(pl).info = NoInfo /\ ~Cleared(pl).handle /\ Cleared(pl).parent = 0
  BY <1>1 DEF Cleared, Plugin, Wiped
<1> QED BY <1>2, <1>3 DEF Good, Opened, Fits, Succeeds

(* A plugin with one field replaced; updates of several fields are chains  *)
(* of these.                                                               *)
LEMMA FieldSet ==
  ASSUME NEW pl \in Plugin
  PROVE  /\ \A x \in PL_EMPTY .. PL_PAUSED : [pl EXCEPT !.status = x] \in Plugin
         /\ \A x \in Actions : [pl EXCEPT !.action = x] \in Plugin
         /\ \A x \in Sources : [pl EXCEPT !.source = x] \in Plugin
         /\ \A x \in Path : [pl EXCEPT !.path = x] \in Plugin
         /\ \A x \in BOOLEAN : [pl EXCEPT !.handle = x] \in Plugin
         /\ \A x \in Build \cup {NoInfo} : [pl EXCEPT !.info = x] \in Plugin
         /\ \A x \in {"never", "fresh", "stale"} : [pl EXCEPT !.loaded = x] \in Plugin
         /\ \A x \in -1 .. MaxPlugins : [pl EXCEPT !.parent = x] \in Plugin
         /\ \A x \in 0 .. 1 : [pl EXCEPT !.pf = x] \in Plugin
<1>1. \A x \in PL_EMPTY .. PL_PAUSED : [pl EXCEPT !.status = x] \in Plugin
  BY DEF Plugin
<1>2. \A x \in Actions : [pl EXCEPT !.action = x] \in Plugin
  BY DEF Plugin
<1>3. \A x \in Sources : [pl EXCEPT !.source = x] \in Plugin
  BY DEF Plugin
<1>4. \A x \in Path : [pl EXCEPT !.path = x] \in Plugin
  BY DEF Plugin
<1>5. \A x \in BOOLEAN : [pl EXCEPT !.handle = x] \in Plugin
  BY DEF Plugin
<1>6. \A x \in Build \cup {NoInfo} : [pl EXCEPT !.info = x] \in Plugin
  BY DEF Plugin
<1>7. \A x \in {"never", "fresh", "stale"} : [pl EXCEPT !.loaded = x] \in Plugin
  BY DEF Plugin
<1>8. \A x \in -1 .. MaxPlugins : [pl EXCEPT !.parent = x] \in Plugin
  BY DEF Plugin
<1>9. \A x \in 0 .. 1 : [pl EXCEPT !.pf = x] \in Plugin
  BY DEF Plugin
<1> QED BY <1>1, <1>2, <1>3, <1>4, <1>5, <1>6, <1>7, <1>8, <1>9

LEMMA QueriedGood ==
  ASSUME NEW pl \in Plugin, Fits(pl), Live(pl), ~Running(pl), DiskOK
  PROVE  /\ Good(Queried(pl))
         /\ Succeeds(Queried(pl), pl)
         /\ Queried(pl).action = pl.action
         /\ Queried(pl).status \in {PL_BADFILE, PL_OPENED}
<1>1. CASE disk[pl.path] \in {b \in Build : b.valid}
  <2> DEFINE q1 == [pl EXCEPT !.status = PL_OPENED]
             q2 == [q1 EXCEPT !.handle = TRUE]
             q3 == [q2 EXCEPT !.info = disk[pl.path]]
  <2>1. Queried(pl) = q3
    BY <1>1 DEF Queried
  <2>2. q1 \in Plugin
    BY DEF Plugin
  <2>3. q2 \in Plugin
    BY <2>2, FieldSet
  <2>4. q3 \in Plugin
    BY <1>1, <2>3, FieldSet
  <2>5. /\ q3.status = PL_OPENED /\ q3.handle /\ q3.info \in Build
        /\ q3.action = pl.action /\ q3.path = pl.path /\ q3.parent = pl.parent
    BY <1>1 DEF Plugin
  <2> QED BY <2>1, <2>4, <2>5 DEF Good, Opened, Fits, Succeeds
<1>2. CASE disk[pl.path] \notin {b \in Build : b.valid}
  <2> DEFINE q1 == [pl EXCEPT !.status = PL_BADFILE]
             q2 == [q1 EXCEPT !.handle = FALSE]
             q3 == [q2 EXCEPT !.info = NoInfo]
  <2>1. Queried(pl) = q3
    BY <1>2 DEF Queried
  <2>2. q1 \in Plugin
    BY DEF Plugin
  <2>3. q2 \in Plugin
    BY <2>2, FieldSet
  <2>4. q3 \in Plugin
    BY <2>3, FieldSet
  <2>5. /\ q3.status = PL_BADFILE /\ q3.handle = FALSE /\ q3.info = NoInfo
        /\ q3.action = pl.action /\ q3.path = pl.path /\ q3.parent = pl.parent
    BY DEF Plugin
  <2> HIDE DEF q3
  <2> QED BY <2>1, <2>4, <2>5 DEF Good, Opened, Fits, Succeeds
<1> QED BY <1>1, <1>2

LEMMA AttachedGood ==
  ASSUME NEW pl, Good(pl), NEW when, NEW att \in BOOLEAN,
         pl.status \in {PL_OPENED, PL_FAILED}
  PROVE  /\ Good(Attached(pl, when, att))
         /\ Succeeds(Attached(pl, when, att), pl)
<1>1. pl \in Plugin /\ pl.handle /\ pl.info \in Build
  BY DEF Good, Opened
<1> DEFINE a1 == [pl EXCEPT !.action = "NONE"]
           f1 == [pl EXCEPT !.status = PL_FAILED]
           r1 == [pl EXCEPT !.status = PL_RUNNING]
           r2 == [r1 EXCEPT !.action = "NONE"]
           r3 == [r2 EXCEPT !.loaded = "fresh"]
<1>2. Attached(pl, when, att) \in {pl, a1, f1, r3}
  BY DEF Attached
<1>3. Good(a1) /\ Succeeds(a1, pl)
  <2>1. a1 \in Plugin
    BY <1>1, FieldSet DEF Actions
  <2>2. /\ a1.status = pl.status /\ a1.action = "NONE"
        /\ a1.handle = pl.handle /\ a1.info = pl.info
        /\ a1.path = pl.path /\ a1.parent = pl.parent
    BY <1>1 DEF Plugin
  <2> QED BY <1>1, <2>1, <2>2 DEF Good, Opened, Fits, Succeeds
<1>4. Good(f1) /\ Succeeds(f1, pl)
  <2>1. f1 \in Plugin
    BY <1>1 DEF Plugin
  <2>2. /\ f1.status = PL_FAILED /\ f1.action = pl.action
        /\ f1.handle = pl.handle /\ f1.info = pl.info
        /\ f1.path = pl.path /\ f1.parent = pl.parent
    BY <1>1 DEF Plugin
  <2> QED BY <1>1, <2>1, <2>2 DEF Good, Opened, Fits, Succeeds
<1>5. Good(r3) /\ Succeeds(r3, pl)
  <2>1. r1 \in Plugin
    BY <1>1 DEF Plugin
  <2>2. r3 \in Plugin
    BY <2>1, FieldSet DEF Actions
  <2>3. /\ r3.status = PL_RUNNING /\ r3.action = "NONE"
        /\ r3.handle = pl.handle /\ r3.info = pl.info
        /\ r3.path = pl.path /\ r3.parent = pl.parent
    BY <1>1 DEF Plugin
  <2> HIDE DEF r3
  <2> QED BY <1>1, <2>2, <2>3 DEF Good, Opened, Fits, Succeeds
<1> HIDE DEF a1, f1, r3
<1> QED BY <1>2, <1>3, <1>4, <1>5 DEF Succeeds

(* load() past its first check: the plugin may have been queried or not;   *)
(* if not, what is left of an earlier library does not matter.             *)
LEMMA LoadAttaches ==
  ASSUME NEW pl \in Plugin, Fits(pl), pl.status >= PL_OPENED => Opened(pl),
         Live(pl), ~Running(pl), pl.action = "LOAD", DiskOK,
         NEW when, NEW att \in BOOLEAN
  PROVE  Good(Load(pl, when, att)) /\ Succeeds(Load(pl, when, att), pl)
<1> DEFINE q == IF pl.status < PL_OPENED THEN Queried(pl) ELSE pl
<1>1. Good(q) /\ Succeeds(q, pl) /\ q.status \in {PL_BADFILE, PL_OPENED, PL_FAILED}
  BY QueriedGood DEF Good, Plugin, Succeeds
<1>2. Load(pl, when, att) = IF q.status = PL_BADFILE THEN q ELSE Attached(q, when, att)
  BY DEF Load
<1> HIDE DEF q
<1>3. CASE q.status = PL_BADFILE
  BY <1>1, <1>2, <1>3
<1>4. CASE q.status # PL_BADFILE
  <2>1. Good(Attached(q, when, att)) /\ Succeeds(Attached(q, when, att), q)
    BY <1>1, <1>4, AttachedGood
  <2> QED BY <1>1, <1>2, <1>4, <2>1 DEF Succeeds
<1> QED BY <1>3, <1>4

(* What an operation may make of the plugin pl: unloaded tells whether it  *)
(* has gone through unload().                                              *)
Becomes(new, pl, unloaded) ==
  /\ Good(new)
  /\ Succeeds(new, pl)
  /\ Running(pl) /\ ~Running(new) => unloaded

LEMMA Unchanged ==
  ASSUME NEW pl, Good(pl), NEW unloaded
  PROVE  Becomes(pl, pl, unloaded)
BY DEF Becomes, Succeeds

LEMMA LoadGood ==
  ASSUME NEW pl, Good(pl), DiskOK, NEW when, NEW att \in BOOLEAN, NEW unloaded
  PROVE  Becomes(Load(pl, when, att), pl, unloaded)
<1>1. CASE ~Live(pl) \/ Running(pl) \/ pl.action # "LOAD"
  BY <1>1, Unchanged DEF Load
<1>2. CASE Live(pl) /\ ~Running(pl) /\ pl.action = "LOAD"
  BY <1>2, LoadAttaches DEF Good, Becomes
<1> QED BY <1>1, <1>2

(* A plugin may lose a mark, or get one other than NULL and LOAD. *)
LEMMA MarkedGood ==
  ASSUME NEW pl, Good(pl), Live(pl), NEW action \in {"NONE", "UNLOAD", "RELOAD", "KEEP"}
  PROVE  LET m == [pl EXCEPT !.action = action]
         IN  /\ Good(m)
             /\ m.action = action
             /\ m.status = pl.status /\ m.path = pl.path /\ m.parent = pl.parent
<1> DEFINE m == [pl EXCEPT !.action = action]
<1>1. pl \in Plugin
  BY DEF Good
<1>2. m \in Plugin
  BY <1>1, FieldSet DEF Actions
<1>3. /\ m.status = pl.status /\ m.action = action
      /\ m.handle = pl.handle /\ m.info = pl.info
      /\ m.path = pl.path /\ m.parent = pl.parent
  BY <1>1 DEF Plugin
<1> HIDE DEF m
<1>4. Good(m)
  BY <1>1, <1>2, <1>3 DEF Good, Opened, Fits
<1> QED BY <1>3, <1>4 DEF m

LEMMA MarkGood ==
  ASSUME NEW pl, Good(pl), Live(pl),
         NEW action \in {"NONE", "UNLOAD", "RELOAD"}, NEW unloaded
  PROVE  Becomes([pl EXCEPT !.action = action], pl, unloaded)
<1> DEFINE m == [pl EXCEPT !.action = action]
<1>1. /\ Good(m)
      /\ m.action = action
      /\ m.status = pl.status /\ m.path = pl.path /\ m.parent = pl.parent
  <2>1. action \in {"NONE", "UNLOAD", "RELOAD", "KEEP"}
    OBVIOUS
  <2> QED BY <2>1, MarkedGood
<1> HIDE DEF m
<1>2. Becomes(m, pl, unloaded)
  BY <1>1 DEF Succeeds, Becomes
<1> QED BY <1>2 DEF m

(* Two steps of an operation, the first of which does not unload. *)
LEMMA Compose ==
  ASSUME NEW pl, NEW m, NEW new, NEW unloaded,
         Becomes(m, pl, FALSE), Becomes(new, m, unloaded)
  PROVE  Becomes(new, pl, unloaded)
BY DEF Becomes, Succeeds

LEMMA UnloadGood ==
  ASSUME NEW pl, Good(pl), pl.action = "UNLOAD", NEW when, NEW reason, NEW det \in BOOLEAN
  PROVE  Becomes(Unload(pl, when, reason, det), pl, Unloads(pl, when, reason, det))
<1>1. CASE Unloads(pl, when, reason, det)
  BY <1>1, ClearedGood DEF Unload, Becomes
<1>2. CASE ~Unloads(pl, when, reason, det)
  <2> DEFINE none == [pl EXCEPT !.action = "NONE"]
  <2>1. \/ Unload(pl, when, reason, det) = none /\ UnloadAsked(pl, reason)
        \/ Unload(pl, when, reason, det) = pl
    BY <1>2 DEF Unload
  <2>2. UnloadAsked(pl, reason) => Becomes(none, pl, Unloads(pl, when, reason, det))
    BY MarkGood DEF UnloadAsked
  <2> HIDE DEF none
  <2> QED BY <2>1, <2>2, Unchanged
<1> QED BY <1>1, <1>2

LEMMA ReloadGood ==
  ASSUME NEW pl, Good(pl), pl.action = "RELOAD", DiskOK,
         NEW when, NEW reason, NEW det \in BOOLEAN, NEW att \in BOOLEAN
  PROVE  Becomes(Reload(pl, when, reason, det, att), pl,
                 ReloadUnloads(pl, when, reason, det))
<1> DEFINE new == Reload(pl, when, reason, det, att)
           out == ReloadUnloads(pl, when, reason, det)
           none == [pl EXCEPT !.action = "NONE"]
           u1 == [pl EXCEPT !.status = PL_VALID]
           u2 == [u1 EXCEPT !.action = "LOAD"]
           u3 == [u2 EXCEPT !.handle = FALSE]
<1>1. CASE ~Live(pl)
  BY <1>1, Unchanged DEF Reload
<1>2. CASE Live(pl) /\ out
  <2>1. new = Load(u3, when, att)
    BY <1>2 DEF Reload, ReloadUnloads, Unload
  <2>2. pl \in Plugin
    BY DEF Good
  <2>3. u1 \in Plugin
    BY <2>2 DEF Plugin
  <2>4. u3 \in Plugin
    BY <2>3, FieldSet DEF Actions
  <2>5. /\ u3.status = PL_VALID /\ u3.action = "LOAD"
        /\ u3.path = pl.path /\ u3.parent = pl.parent
    BY <2>2 DEF Plugin
  <2> HIDE DEF u3, new
  <2>6. Good(new) /\ Succeeds(new, u3)
    BY <1>2, <2>1, <2>4, <2>5, LoadAttaches DEF Good, Fits
  <2> QED BY <1>2, <2>5, <2>6 DEF Becomes, Succeeds, new
<1>3. CASE Live(pl) /\ ~out
  <2>1. new \in {pl, none}
    BY <1>3 DEF Reload, ReloadUnloads, Unload
  <2>2. Becomes(pl, pl, out) /\ Becomes(none, pl, out)
    BY <1>3, MarkGood, Unchanged
  <2> HIDE DEF new, none, out
  <2>3. Becomes(new, pl, out)
    BY <2>1, <2>2
  <2> QED BY <2>3 DEF new, out
<1> QED BY <1>1, <1>2, <1>3

LEMMA RetryGood ==
  ASSUME NEW pl, Good(pl), DiskOK,
         NEW when, NEW reason, NEW det \in BOOLEAN, NEW att \in BOOLEAN
  PROVE  Becomes(Retry(pl, when, reason, det, att), pl,
                 RetryUnloads(pl, when, reason, det))
<1>1. CASE pl.action = "LOAD"
  BY <1>1, LoadGood DEF Retry, RetryUnloads
<1>2. CASE pl.action = "UNLOAD"
  <2>1. Retry(pl, when, reason, det, att) = Unload(pl, when, reason, det)
    BY <1>2 DEF Retry
  <2>2. Unloads(pl, when, reason, det) => RetryUnloads(pl, when, reason, det)
    BY <1>2 DEF RetryUnloads
  <2> QED BY <1>2, <2>1, <2>2, UnloadGood DEF Becomes
<1>3. CASE pl.action = "RELOAD"
  <2>1. Retry(pl, when, reason, det, att) = Reload(pl, when, reason, det, att)
    BY <1>3 DEF Retry
  <2>2. ReloadUnloads(pl, when, reason, det) => RetryUnloads(pl, when, reason, det)
    BY <1>3 DEF RetryUnloads
  <2> QED BY <1>3, <2>1, <2>2, ReloadGood DEF Becomes
<1>4. CASE pl.action \notin {"LOAD", "UNLOAD", "RELOAD"}
  <2>1. Retry(pl, when, reason, det, att) = pl
    BY <1>4 DEF Retry
  <2> QED BY <2>1, Unchanged
<1> QED BY <1>1, <1>2, <1>3, <1>4

LEMMA PauseGood ==
  ASSUME NEW pl, Good(pl)
  PROVE  Becomes(Pause(pl), pl, FALSE) /\ Becomes(Unpause(pl), pl, FALSE)
<1> DEFINE p1 == [pl EXCEPT !.status = PL_PAUSED]
           r1 == [pl EXCEPT !.status = PL_RUNNING]
           none == [pl EXCEPT !.action = "NONE"]
<1>1. pl \in Plugin
  BY DEF Good
<1>2. CASE pl.status \notin {PL_RUNNING, PL_PAUSED}
  BY <1>2, Unchanged DEF Pause, Unpause
<1>3. CASE pl.status \in {PL_RUNNING, PL_PAUSED}
  <2>1. p1 \in Plugin /\ r1 \in Plugin
    BY <1>1 DEF Plugin
  <2>2. /\ p1.status = PL_PAUSED /\ p1.action = pl.action
        /\ p1.handle = pl.handle /\ p1.info = pl.info
        /\ p1.path = pl.path /\ p1.parent = pl.parent
    BY <1>1 DEF Plugin
  <2>3. /\ r1.status = PL_RUNNING /\ r1.action = pl.action
        /\ r1.handle = pl.handle /\ r1.info = pl.info
        /\ r1.path = pl.path /\ r1.parent = pl.parent
    BY <1>1 DEF Plugin
  <2>4. Pause(pl) \in {pl, none, p1} /\ Unpause(pl) \in {pl, r1}
    BY DEF Pause, Unpause
  <2>5. Becomes(none, pl, FALSE)
    <3>1. Live(pl)
      BY <1>3
    <3> QED BY <3>1, MarkGood
  <2> HIDE DEF p1, r1, none
  <2>6. Becomes(p1, pl, FALSE)
    BY <1>1, <1>3, <2>1, <2>2 DEF Good, Opened, Fits, Succeeds, Becomes
  <2>7. Becomes(r1, pl, FALSE)
    BY <1>1, <1>3, <2>1, <2>3 DEF Good, Opened, Fits, Succeeds, Becomes
  <2> QED BY <2>4, <2>5, <2>6, <2>7, Unchanged
<1> QED BY <1>2, <1>3

-----------------------------------------------------------------------------
(* The list. *)

(* l is a list of plugins whose used slots are 1 .. e. *)
ListOK(l, e) ==
  /\ l \in [Slot -> Plugin]
  /\ e \in 0 .. MaxPlugins
  /\ \A s \in Slot : Good(l[s])
  /\ \A s \in Slot : s > e => ~Live(l[s])
  /\ \A s, t \in Slot : Live(l[s]) /\ Live(l[t]) /\ l[s].path = l[t].path => s = t
  /\ \A s \in Slot : Live(l[s]) /\ l[s].parent > 0 =>
                       l[s].parent # s /\ Running(l[l[s].parent])

(* No plugin of m is newly marked to be kept. *)
NoNewKeep(m, l) ==
  \A t \in Slot : m[t].action = "KEEP" => l[t].action = "KEEP"

(* Every slot holds the plugin it held, in the same state but for its mark *)
(* or its age. *)
LEMMA SameOK ==
  ASSUME NEW l, NEW e, ListOK(l, e), NEW m \in [Slot -> Plugin],
         \A s \in Slot : /\ Good(m[s])
                         /\ Live(m[s]) <=> Live(l[s])
                         /\ Running(m[s]) <=> Running(l[s])
                         /\ m[s].path = l[s].path
                         /\ m[s].parent = l[s].parent
  PROVE  ListOK(m, e)
<1>1. \A s \in Slot : s > e => ~Live(m[s])
  BY DEF ListOK
<1>2. ASSUME NEW s \in Slot, NEW t \in Slot,
             Live(m[s]), Live(m[t]), m[s].path = m[t].path
      PROVE  s = t
  BY <1>2 DEF ListOK
<1>3. ASSUME NEW s \in Slot, Live(m[s]), m[s].parent > 0
      PROVE  m[s].parent # s /\ Running(m[m[s].parent])
  <2>1. m[s].parent \in Slot
    BY <1>3 DEF Plugin, Slot
  <2> QED BY <1>3, <2>1 DEF ListOK
<1> QED BY <1>1, <1>2, <1>3 DEF ListOK

LEMMA UpdatedOK ==
  ASSUME ListOK(plist, endlist), NEW s \in Slot, NEW new, NEW unloaded,
         Becomes(new, plist[s], unloaded)
  PROVE  /\ ListOK(Updated(s, new, unloaded), endlist)
         /\ Updated(s, new, unloaded)[s] = new
         /\ NoNewKeep(Updated(s, new, unloaded), plist)
<1> DEFINE orphan(t) == [plist[t] EXCEPT !.parent = -1]
           child(t) == unloaded /\ t <= endlist /\ Live(plist[t]) /\ plist[t].parent = s
           m == Updated(s, new, unloaded)
<1>1. /\ m[s] = new
      /\ \A t \in Slot \ {s} : m[t] = IF child(t) THEN orphan(t) ELSE plist[t]
      /\ DOMAIN m = Slot
      /\ m = [t \in Slot |-> m[t]]
  BY DEF Updated
<1>2. ASSUME NEW t \in Slot, Live(plist[t])
      PROVE  /\ Good(orphan(t)) /\ orphan(t).parent = -1
             /\ orphan(t).path = plist[t].path
             /\ orphan(t).status = plist[t].status
             /\ orphan(t).action = plist[t].action
  <2> DEFINE o == orphan(t)
  <2>1. plist[t] \in Plugin /\ -1 \in -1 .. MaxPlugins
    BY ListAssumption DEF ListOK
  <2>2. o \in Plugin
    BY <2>1, FieldSet
  <2>3. /\ o.status = plist[t].status /\ o.action = plist[t].action
        /\ o.handle = plist[t].handle /\ o.info = plist[t].info
        /\ o.path = plist[t].path /\ o.parent = -1
    BY <2>1 DEF Plugin
  <2> HIDE DEF o
  <2>4. Good(o)
    BY <1>2, <2>2, <2>3 DEF ListOK, Good, Opened, Fits
  <2> QED BY <2>3, <2>4 DEF o
<1> HIDE DEF m, orphan
<1>3. \A t \in Slot : Good(m[t])
  BY <1>1, <1>2 DEF ListOK, Becomes
<1>4. m \in [Slot -> Plugin]
  BY <1>1, <1>3 DEF Good
<1>5. \A t \in Slot : Live(m[t]) => Live(plist[t]) /\ m[t].path = plist[t].path
  BY <1>1, <1>2 DEF Becomes, Succeeds
<1>6. ASSUME NEW t \in Slot, Live(m[t]), m[t].parent > 0
      PROVE  m[t].parent # t /\ Running(m[m[t].parent])
  <2>1. Live(plist[t]) /\ plist[t].parent = m[t].parent
    BY <1>1, <1>2, <1>6 DEF Becomes, Succeeds
  <2> DEFINE u == plist[t].parent
  <2>2. u \in Slot /\ u # t /\ Running(plist[u])
    BY <1>6, <2>1 DEF ListOK, Plugin, Slot
  <2>3. CASE u # s
    BY <1>1, <1>2, <2>1, <2>2, <2>3
  <2>4. CASE u = s
    <3>1. t <= endlist
      BY <2>1 DEF ListOK, Slot
    <3> QED BY <1>1, <1>2, <1>6, <2>1, <2>2, <2>4, <3>1 DEF Becomes
  <2> QED BY <2>1, <2>3, <2>4
<1>7. ListOK(m, endlist)
  BY <1>3, <1>4, <1>5, <1>6 DEF ListOK
<1>8. NoNewKeep(m, plist)
  BY <1>1, <1>2 DEF NoNewKeep, Becomes, Succeeds
<1> QED BY <1>1, <1>7, <1>8 DEF m

(* The list m with the end f is the list l, which ended at e, with the     *)
(* plugin new, that is not in l, in an empty slot s. *)
Takes(m, f, l, e, s, new) ==
  /\ ~Live(l[s])
  /\ f \in e .. MaxPlugins /\ s <= f
  /\ Good(new) /\ new.action # "KEEP"
  /\ Live(new) => \A t \in Slot : Live(l[t]) => new.path # l[t].path
  /\ Live(new) /\ new.parent > 0 =>
       new.parent \in Slot /\ Running(l[new.parent])
  /\ m = [l EXCEPT ![s] = new]

LEMMA AddedOK ==
  ASSUME NEW l, NEW e, NEW s \in Slot, NEW f, NEW new, NEW m,
         ListOK(l, e), Takes(m, f, l, e, s, new)
  PROVE  /\ ListOK(m, f)
         /\ NoNewKeep(m, l)
<1> USE DEF Takes
<1>1. /\ m[s] = new
      /\ \A t \in Slot \ {s} : m[t] = l[t]
      /\ m \in [Slot -> Plugin]
  BY DEF ListOK, Good
<1>2. \A u \in Slot : Running(l[u]) => u # s
  <2>1. l[s] \in Plugin
    BY DEF ListOK
  <2> QED BY <2>1 DEF Plugin
<1>3. e \in 0 .. MaxPlugins /\ f \in 0 .. MaxPlugins /\ e <= f
  BY ListAssumption DEF ListOK
<1>4. \A t \in Slot : Good(m[t])
  BY <1>1 DEF ListOK
<1>5. ASSUME NEW t \in Slot, t > f
      PROVE  ~Live(m[t])
  <2>1. t # s /\ t > e
    BY <1>3, <1>5 DEF Slot
  <2> QED BY <1>1, <2>1 DEF ListOK
<1>6. ASSUME NEW t \in Slot, NEW u \in Slot,
             Live(m[t]), Live(m[u]), m[t].path = m[u].path
      PROVE  t = u
  BY <1>1, <1>6 DEF ListOK
<1>7. ASSUME NEW t \in Slot, Live(m[t]), m[t].parent > 0
      PROVE  m[t].parent # t /\ Running(m[m[t].parent])
  <2> DEFINE u == m[t].parent
  <2>1. u \in Slot
    <3>1. m[t] \in Plugin
      BY <1>1
    <3> QED BY <1>7, <3>1 DEF Plugin, Slot
  <2>2. u # t /\ Running(l[u])
    <3>1. CASE t = s
      BY <1>1, <1>2, <1>7, <3>1
    <3>2. CASE t # s
      BY <1>1, <1>7, <3>2 DEF ListOK
    <3> QED BY <3>1, <3>2
  <2>3. u # s
    BY <1>2, <2>1, <2>2
  <2> QED BY <1>1, <2>1, <2>2, <2>3
<1>8. ListOK(m, f)
  BY <1>1, <1>3, <1>4, <1>5, <1>6, <1>7 DEF ListOK
<1>9. NoNewKeep(m, l)
  BY <1>1 DEF NoNewKeep
<1> QED BY <1>8, <1>9

(* A slot whose plugin does not run may be emptied. *)
LEMMA WipedOK ==
  ASSUME NEW l, NEW e, ListOK(l, e), NEW s \in Slot, ~Running(l[s]),
         NEW m, m = [l EXCEPT ![s] = Wiped]
  PROVE  /\ ListOK(m, e)
         /\ NoNewKeep(m, l)
<1>1. /\ m[s] = Wiped
      /\ \A t \in Slot \ {s} : m[t] = l[t]
      /\ m \in [Slot -> Plugin]
  BY WipedGood DEF ListOK, Good
<1>2. /\ Good(Wiped) /\ ~Live(Wiped)
      /\ Wiped.action = "NULL"
  BY WipedGood DEF Wiped
<1>3. ASSUME NEW t \in Slot, Live(m[t]), m[t].parent > 0
      PROVE  m[t].parent # t /\ Running(m[m[t].parent])
  <2>1. t # s
    BY <1>1, <1>2, <1>3
  <2>2. m[t].parent \in Slot
    <3>1. m[t] \in Plugin
      BY <1>1
    <3> QED BY <1>3, <3>1 DEF Plugin, Slot
  <2> QED BY <1>1, <1>3, <2>1, <2>2 DEF ListOK
<1>4. ListOK(m, e)
  BY <1>1, <1>2, <1>3 DEF ListOK
<1>5. NoNewKeep(m, l)
  BY <1>1, <1>2 DEF NoNewKeep
<1> QED BY <1>4, <1>5

-----------------------------------------------------------------------------
(* The inductive invariant. *)

(* ini_startup() has put into slots 1 .. nread lines it has read, so that  *)
(* it finds the next line's plugin only as a less specific build; none of  *)
(* them runs yet.                                                          *)
BootOK ==
  /\ CleanStart
  /\ endlist = nread
  /\ \A s \in Slot : Live(plist[s]) =>
       /\ \E k \in 1 .. Len(ini) : k < pos /\ plist[s].path = ini[k]
       /\ plist[s].path \in Path
       /\ plist[s].pf = PfSpecific[plist[s].path]
       /\ ~Running(plist[s])
  /\ BootMostSpecific

LoopOK ==
  /\ phase # "idle" => pos >= 1
  /\ phase \in {"boot ini", "ini"} => ini \in Seq(Path)
  /\ phase = "boot ini" => BootOK

(* The marks of the plugins that refresh() has passed are gone. *)
KeepOK ==
  \A s \in Slot : plist[s].action = "KEEP" =>
    phase = "ini" \/ (phase = "slots" /\ s >= pos)

IInv == TypeOK /\ ListOK(plist, endlist) /\ LoopOK /\ KeepOK

LEMMA Bounds == 0 \in 0 .. MaxPlugins /\ \A n : n = 1 => n >= 1
BY ListAssumption

LEMMA Initially == CleanInit => IInv
<1> SUFFICES ASSUME Init, CleanStart PROVE IInv
  BY DEF CleanInit
<1>1. \A s \in Slot : plist[s] = Wiped /\ Good(plist[s]) /\ ~Live(plist[s])
  BY WipedGood DEF Init
<1>2. plist \in [Slot -> Plugin]
  BY WipedGood DEF Init, Good
<1>3. ListOK(plist, endlist)
  <2>1. endlist \in 0 .. MaxPlugins
    <3>1. 0 \in 0 .. MaxPlugins
      BY ListAssumption
    <3> QED BY <3>1 DEF Init
  <2> QED BY <1>1, <1>2, <2>1 DEF ListOK
<1>4. /\ inifile \in {"relative", "full"}
      /\ inifile = "full" => ini # NoFile
  <2>1. inifile \in NamesAtStart(ini)
    BY DEF Init
  <2>2. <<>> # NoFile
    <3>1. <<>> \in Seq(Path)
      OBVIOUS
    <3>2. NoFile \notin Seq(Path)
      BY ListAssumption
    <3> QED BY <3>1, <3>2, Zenon
  <2> QED BY <2>1, <2>2 DEF NamesAtStart
<1>5. /\ phase = IF inifile = "full" THEN "boot ini" ELSE "idle"
      /\ pos = IF inifile = "full" THEN 1 ELSE 0
      /\ endlist = nread /\ ini \in IniFiles
  BY DEF Init
<1>6. TypeOK
  <2>1. 0 \in 0 .. MaxPlugins
    BY ListAssumption
  <2>2. /\ disk \in [Path -> Build \cup {NoFile}]
        /\ ini \in IniFiles
        /\ endlist = 0 /\ nread = 0 /\ caller = 0 /\ now = PT_STARTUP
    BY DEF Init
  <2>3. phase \in Phases /\ pos \in Nat
    BY <1>5 DEF Phases
  <2> QED BY <1>2, <1>4, <2>1, <2>2, <2>3 DEF TypeOK, Times
<1>7. LoopOK
  <2>1. ini # NoFile => ini \in Seq(Path)
    BY <1>5, ListAssumption
  <2>2. BootOK
    <3>1. BootMostSpecific
      <4>1. phase = "boot ini" => pos = 1
        BY <1>5
      <4>2. 1 .. 1 - 1 = {}
        OBVIOUS
      <4> QED BY <1>1, <4>1, <4>2 DEF BootMostSpecific
    <3> QED BY <1>1, <1>5, <3>1 DEF BootOK
  <2>3. CASE inifile # "full"
    <3>1. phase = "idle"
      BY <1>5, <2>3, Zenon
    <3> QED BY <3>1 DEF LoopOK
  <2>4. CASE inifile = "full"
    <3>1. phase = "boot ini"
      BY <1>5, <2>4, Zenon
    <3>2. pos = 1
      BY <1>5, <2>4, Zenon
    <3>3. pos >= 1
      BY <3>2
    <3> QED BY <1>4, <2>1, <2>2, <2>4, <3>1, <3>3, Zenon DEF LoopOK
  <2> QED BY <2>3, <2>4
<1>8. KeepOK
  BY <1>1 DEF KeepOK, Wiped
<1> QED BY <1>3, <1>6, <1>7, <1>8 DEF IInv

LEMMA Stuttering == IInv /\ UNCHANGED vars => IInv'
<1> SUFFICES ASSUME IInv, UNCHANGED vars PROVE IInv'
  OBVIOUS
<1>1. ListOK(plist, endlist)'
  BY DEF IInv, vars
<1>2. BootMostSpecific => BootMostSpecific'
  BY DEF vars, BootMostSpecific, Rival
<1> QED BY <1>1, <1>2 DEF IInv, vars, TypeOK, LoopOK, BootOK, CleanStart, KeepOK

(* The manager's loops stay where they are. *)
LEMMA BetweenSteps ==
  ASSUME IInv, phase \in {"idle", "slots"}, UNCHANGED <<inifile, ini, loopvars>>,
         disk' \in [Path -> Build \cup {NoFile}],
         ListOK(plist', endlist'),
         NoNewKeep(plist', plist)
  PROVE  IInv'
<1>1. ListOK(plist, endlist)'
  BY DEF ListOK
<1>2. TypeOK'
  BY DEF IInv, TypeOK, ListOK, loopvars
<1>3. LoopOK' /\ KeepOK'
  BY DEF IInv, LoopOK, KeepOK, NoNewKeep, loopvars
<1> QED BY <1>1, <1>2, <1>3 DEF IInv

LEMMA CommandStep ==
  ASSUME IInv, NEW s \in Slot, NEW new, NEW unloaded,
         Becomes(new, plist[s], unloaded), Command(s, new, unloaded)
  PROVE  IInv'
<1>1. /\ plist' = Updated(s, new, unloaded)
      /\ endlist' = endlist /\ disk' = disk
      /\ UNCHANGED <<inifile, ini, loopvars>>
      /\ phase \in {"idle", "slots"}
  BY DEF Command, Idle
<1>2. /\ ListOK(plist', endlist')
      /\ NoNewKeep(plist', plist)
  BY <1>1, UpdatedOK DEF IInv
<1>3. disk' \in [Path -> Build \cup {NoFile}]
  BY <1>1 DEF IInv, TypeOK
<1> QED BY <1>1, <1>2, <1>3, BetweenSteps

LEMMA SlotGood ==
  ASSUME IInv, NEW s \in Slot
  PROVE  Good(plist[s]) /\ DiskOK
BY DEF IInv, ListOK, TypeOK, DiskOK

(* The mark that a command or another plugin leaves on the plugin of s. *)
LEMMA MarkedSlot ==
  ASSUME NEW s, Good(plist[s]), Live(plist[s]), NEW action \in {"UNLOAD", "RELOAD"}
  PROVE  /\ Good(Marked(s, action)) /\ Marked(s, action).action = action
         /\ Becomes(Marked(s, action), plist[s], FALSE)
<1> DEFINE pl == plist[s]
           m  == [pl EXCEPT !.action = action]
<1>1. Good(pl) /\ Live(pl)
  OBVIOUS
<1>2. Marked(s, action) = m
  BY DEF Marked
<1>3. action \in {"NONE", "UNLOAD", "RELOAD"} /\ action \in {"NONE", "UNLOAD", "RELOAD", "KEEP"}
  OBVIOUS
<1> HIDE DEF pl
<1>4. Good(m) /\ m.action = action
  BY <1>1, <1>3, MarkedGood
<1>5. Becomes(m, pl, FALSE)
  BY <1>1, <1>3, MarkGood
<1> HIDE DEF m
<1> QED BY <1>2, <1>4, <1>5 DEF pl

LEMMA CommandsStep ==
  ASSUME IInv, NEW s \in Slot
  PROVE  /\ CmdPause(s) \/ CmdUnpause(s) \/ CmdClear(s) => IInv'
         /\ \A reason \in {"COMMAND", "CMD_FORCED"}, det \in BOOLEAN :
              CmdUnload(s, reason, det) => IInv'
         /\ \A det, att \in BOOLEAN :
              CmdReload(s, det, att) \/ CmdRetry(s, det, att) => IInv'
<1>1. Good(plist[s]) /\ DiskOK
  BY SlotGood
<1>2. CASE CmdPause(s) \/ CmdUnpause(s)
  BY <1>1, <1>2, PauseGood, CommandStep DEF CmdPause, CmdUnpause
<1>3. CASE CmdClear(s)
  <2>1. Becomes(Cleared(plist[s]), plist[s], FALSE)
    BY <1>1, <1>3, ClearedGood DEF Becomes, CmdClear, MayClear
  <2> QED BY <1>3, <2>1, CommandStep DEF CmdClear
<1>4. ASSUME NEW action \in {"UNLOAD", "RELOAD"}, Live(plist[s])
      PROVE  /\ Good(Marked(s, action)) /\ Marked(s, action).action = action
             /\ Becomes(Marked(s, action), plist[s], FALSE)
  BY <1>1, <1>4, MarkedSlot
<1>5. ASSUME NEW reason, NEW det \in BOOLEAN, CmdUnload(s, reason, det)
      PROVE  IInv'
  <2> DEFINE pl == Marked(s, "UNLOAD")
             new == Unload(pl, PT_ANYTIME, reason, det)
             out == Unloads(pl, PT_ANYTIME, reason, det)
  <2>1. Command(s, new, out) /\ Live(plist[s])
    BY <1>5 DEF CmdUnload, Command
  <2>2. Good(pl) /\ pl.action = "UNLOAD" /\ Becomes(pl, plist[s], FALSE)
    BY <1>4, <2>1
  <2>3. Becomes(new, pl, out)
    BY <2>2, UnloadGood
  <2> HIDE DEF pl, new, out
  <2> QED BY <2>1, <2>2, <2>3, Compose, CommandStep
<1>6. ASSUME NEW det \in BOOLEAN, NEW att \in BOOLEAN, CmdReload(s, det, att)
      PROVE  IInv'
  <2> DEFINE pl == Marked(s, "RELOAD")
             new == Reload(pl, PT_ANYTIME, "COMMAND", det, att)
             out == ReloadUnloads(pl, PT_ANYTIME, "COMMAND", det)
  <2>1. Command(s, new, out) /\ Live(plist[s])
    BY <1>6 DEF CmdReload, Command
  <2>2. Good(pl) /\ pl.action = "RELOAD" /\ Becomes(pl, plist[s], FALSE)
    BY <1>4, <2>1
  <2>3. Becomes(new, pl, out)
    BY <1>1, <2>2, ReloadGood
  <2> HIDE DEF pl, new, out
  <2> QED BY <2>1, <2>2, <2>3, Compose, CommandStep
<1>7. ASSUME NEW det \in BOOLEAN, NEW att \in BOOLEAN, CmdRetry(s, det, att)
      PROVE  IInv'
  BY <1>1, <1>7, RetryGood, CommandStep DEF CmdRetry
<1> QED BY <1>2, <1>3, <1>5, <1>6, <1>7

(* A plugin put into a free slot by add(). *)
LEMMA AddedGood ==
  ASSUME NEW l, ListOK(l, endlist), NEW s \in Slot, FreeSlot(l, s),
         NEW p \in Path, NEW source \in Sources, NEW parent \in 0 .. MaxPlugins
  PROVE  LET new == Added(l, s, p, source, parent)
         IN  /\ Good(new) /\ ~Live(l[s])
             /\ new.status = PL_VALID /\ new.action = "LOAD"
             /\ new.path = p /\ new.parent = parent
<1> DEFINE n1 == [l[s] EXCEPT !.status = PL_VALID]
           n2 == [n1 EXCEPT !.action = "LOAD"]
           n3 == [n2 EXCEPT !.source = source]
           n4 == [n3 EXCEPT !.path = p]
           n5 == [n4 EXCEPT !.parent = parent]
<1>1. l[s] \in Plugin /\ Good(l[s])
  BY DEF ListOK
<1>2. ~Live(l[s])
  BY DEF FreeSlot, ListOK, Slot
<1>3. ~l[s].handle /\ l[s].info = NoInfo
  BY <1>1, <1>2 DEF Good, Opened, Plugin
<1>4. n1 \in Plugin
  BY <1>1 DEF Plugin
<1>5. n2 \in Plugin
  BY <1>4, FieldSet DEF Actions
<1>6. n3 \in Plugin
  BY <1>5, FieldSet
<1>7. n4 \in Plugin
  BY <1>6, FieldSet
<1>8. n5 \in Plugin
  <2>1. parent \in -1 .. MaxPlugins
    BY ListAssumption
  <2> QED BY <1>7, <2>1, FieldSet
<1>9. /\ n5.status = PL_VALID /\ n5.action = "LOAD"
      /\ n5.handle = l[s].handle /\ n5.info = l[s].info
      /\ n5.path = p /\ n5.parent = parent
  BY <1>1 DEF Plugin
<1>10. Added(l, s, p, source, parent) = n5
  BY DEF Added
<1> HIDE DEF n5
<1>11. Good(n5)
  BY <1>3, <1>8, <1>9 DEF Good, Opened, Fits
<1> QED BY <1>2, <1>9, <1>10, <1>11

LEMMA NotFound ==
  ASSUME IInv, NEW p \in Path, ~Found(p), NEW s \in Slot, Live(plist[s])
  PROVE  plist[s].path # p
<1>1. s <= endlist
  BY DEF IInv, ListOK, Slot
<1> QED BY <1>1 DEF Found, Holds

(* The slot that add() takes ends the list, if it was not in it. *)
LEMMA EndOK ==
  ASSUME IInv, NEW s \in Slot
  PROVE  EndAfter(s) \in endlist .. MaxPlugins /\ s <= EndAfter(s)
BY ListAssumption DEF IInv, ListOK, Slot, EndAfter

(* add() and load() of a plugin, for a command or for the plugin u; what   *)
(* was opened only may be cleared again. *)
LEMMA AddAndLoad ==
  ASSUME IInv, phase \in {"idle", "slots"}, UNCHANGED <<inifile, ini, disk, loopvars>>,
         NEW p \in Path, ~Found(p), NEW source \in Sources,
         NEW parent \in 0 .. MaxPlugins, parent > 0 => Running(plist[parent]),
         NEW att \in BOOLEAN, NEW s \in Slot, FreeSlot(plist, s),
         NEW new,
         LET pl == Load(Added(plist, s, p, source, parent), PT_ANYTIME, att)
         IN  new = pl \/ (pl.status = PL_OPENED /\ new = Cleared(pl)),
         plist' = [plist EXCEPT ![s] = new],
         endlist' = EndAfter(s)
  PROVE  IInv'
<1> DEFINE ad == Added(plist, s, p, source, parent)
           pl == Load(ad, PT_ANYTIME, att)
<1>1. /\ Good(ad) /\ ~Live(plist[s])
      /\ ad.status = PL_VALID /\ ad.action = "LOAD"
      /\ ad.path = p /\ ad.parent = parent
  BY AddedGood DEF IInv
<1>2. DiskOK /\ ListOK(plist, endlist)
  BY DEF IInv, TypeOK, DiskOK
<1> HIDE DEF ad
<1>3. Becomes(pl, ad, FALSE)
  BY <1>1, <1>2, LoadGood
<1> HIDE DEF pl
<1>4. Becomes(new, ad, FALSE)
  <2>1. new = pl \/ (pl.status = PL_OPENED /\ new = Cleared(pl))
    BY DEF pl, ad
  <2>2. pl.status = PL_OPENED => Becomes(Cleared(pl), pl, FALSE)
    BY <1>3, ClearedGood DEF Becomes
  <2> QED BY <1>3, <2>1, <2>2, Compose
<1>5. /\ Good(new) /\ new.action # "KEEP"
      /\ Live(new) => new.path = p /\ new.parent = parent
  BY <1>1, <1>4 DEF Becomes, Succeeds
<1>6. \A t \in Slot : Live(plist[t]) => plist[t].path # p
  BY NotFound
<1>7. parent > 0 => parent \in Slot
  BY ListAssumption DEF Slot
<1>8. /\ ListOK(plist', endlist')
      /\ NoNewKeep(plist', plist)
  <2>1. EndAfter(s) \in endlist .. MaxPlugins /\ s <= EndAfter(s)
    BY EndOK
  <2>2. Live(new) => \A t \in Slot : Live(plist[t]) => new.path # plist[t].path
    BY <1>5, <1>6
  <2>3. Live(new) /\ new.parent > 0 =>
          new.parent \in Slot /\ Running(plist[new.parent])
    BY <1>5, <1>7
  <2>4. Takes(plist', endlist', plist, endlist, s, new)
    BY <1>1, <1>5, <2>1, <2>2, <2>3 DEF Takes
  <2> QED BY <1>2, <2>4, AddedOK
<1>9. disk' \in [Path -> Build \cup {NoFile}]
  BY DEF IInv, TypeOK
<1> QED BY <1>8, <1>9, BetweenSteps

LEMMA LoadsStep ==
  ASSUME IInv, NEW p \in Path, NEW att \in BOOLEAN
  PROVE  /\ CmdLoad(p, att) => IInv'
         /\ \A u \in Slot : PluginLoad(u, p, att) => IInv'
<1>1. ASSUME CmdLoad(p, att)
      PROVE  IInv'
  <2> DEFINE pl(s) == Load(Added(plist, s, p, "CMD", 0), PT_ANYTIME, att)
             new(s) == IF pl(s).status = PL_OPENED /\ pl(s).action = "NONE"
                       THEN Cleared(pl(s)) ELSE pl(s)
  <2>1. PICK s \in Slot : /\ FreeSlot(plist, s)
                         /\ plist' = [plist EXCEPT ![s] = new(s)]
                         /\ endlist' = EndAfter(s)
    BY <1>1 DEF CmdLoad
  <2>2. /\ phase \in {"idle", "slots"} /\ ~Found(p)
        /\ UNCHANGED <<inifile, ini, disk, loopvars>>
    BY <1>1 DEF CmdLoad, Idle
  <2>3. new(s) = pl(s) \/ (pl(s).status = PL_OPENED /\ new(s) = Cleared(pl(s)))
    OBVIOUS
  <2> DEFINE parent == 0
  <2>4. /\ parent \in 0 .. MaxPlugins /\ "CMD" \in Sources
        /\ parent > 0 => Running(plist[parent])
    BY ListAssumption DEF Sources
  <2>5. pl(s) = Load(Added(plist, s, p, "CMD", parent), PT_ANYTIME, att)
    OBVIOUS
  <2> HIDE DEF parent, pl
  <2> QED BY <2>1, <2>2, <2>3, <2>4, <2>5, AddAndLoad
<1>2. ASSUME NEW u \in Slot, PluginLoad(u, p, att)
      PROVE  IInv'
  <2> DEFINE pl(s) == Load(Added(plist, s, p, "PLUGIN", u), PT_ANYTIME, att)
             new(s) == IF pl(s).status = PL_OPENED THEN Cleared(pl(s)) ELSE pl(s)
  <2>1. PICK s \in Slot : /\ FreeSlot(plist, s)
                         /\ plist' = [plist EXCEPT ![s] = new(s)]
                         /\ endlist' = EndAfter(s)
    BY <1>2 DEF PluginLoad
  <2>2. /\ phase \in {"idle", "slots"} /\ ~Found(p)
        /\ UNCHANGED <<inifile, ini, disk, loopvars>> /\ Running(plist[u])
    BY <1>2 DEF PluginLoad, MayCall, Idle
  <2>3. new(s) = pl(s) \/ (pl(s).status = PL_OPENED /\ new(s) = Cleared(pl(s)))
    OBVIOUS
  <2>4. u \in 0 .. MaxPlugins /\ "PLUGIN" \in Sources
    BY ListAssumption DEF Sources, Slot
  <2> QED BY <2>1, <2>2, <2>3, <2>4, AddAndLoad
<1> QED BY <1>1, <1>2

LEMMA PluginUnloadStep ==
  ASSUME IInv, NEW u \in Slot, NEW s \in Slot, NEW det \in BOOLEAN,
         PluginUnload(u, s, det)
  PROVE  IInv'
<1> DEFINE pl == Marked(s, "UNLOAD")
           out == Unloads(pl, PT_ANYTIME, "PLUGIN", det)
           delayed == /\ UnloadAsked(pl, "PLUGIN")
                      /\ UnloadTooLate(pl, PT_ANYTIME, "PLUGIN")
                      /\ pl.info.unloadable > PT_STARTUP
           unl == Unload(pl, PT_ANYTIME, "PLUGIN", det)
           new == IF delayed THEN plist[s] ELSE unl
<1>1. /\ plist' = Updated(s, new, out) /\ endlist' = endlist
      /\ UNCHANGED <<inifile, ini, disk, loopvars>> /\ Live(plist[s])
      /\ phase \in {"idle", "slots"}
  BY DEF PluginUnload, MayCall, Idle
<1>2. Good(plist[s])
  BY SlotGood
<1>3. Good(pl) /\ pl.action = "UNLOAD" /\ Becomes(pl, plist[s], FALSE)
  BY <1>1, <1>2, MarkedSlot
<1> HIDE DEF pl
<1>4. Becomes(unl, pl, out)
  BY <1>3, UnloadGood
<1> HIDE DEF unl, out, delayed
<1>5. Becomes(unl, plist[s], out) /\ Becomes(plist[s], plist[s], out)
  BY <1>2, <1>3, <1>4, Compose, Unchanged
<1>6. Becomes(new, plist[s], out)
  BY <1>5
<1> HIDE DEF new
<1>7. ListOK(plist', endlist') /\ NoNewKeep(plist', plist)
  BY <1>1, <1>6, UpdatedOK DEF IInv
<1>8. disk' \in [Path -> Build \cup {NoFile}]
  BY <1>1 DEF IInv, TypeOK
<1> QED BY <1>1, <1>7, <1>8, BetweenSteps

LEMMA EditsStep ==
  ASSUME IInv, Edits
  PROVE  IInv'
<1>1. ASSUME NEW file \in IniFiles, EditIni(file)
      PROVE  IInv'
  <2>1. ListOK(plist, endlist)'
    BY <1>1 DEF IInv, EditIni
  <2>2. TypeOK' /\ KeepOK'
    BY <1>1 DEF IInv, EditIni, TypeOK, KeepOK, loopvars
  <2>3. LoopOK'
    BY <1>1 DEF IInv, EditIni, LoopOK, Idle, loopvars
  <2> QED BY <2>1, <2>2, <2>3 DEF IInv
<1>2. ASSUME NEW p \in Path, NEW b \in Contents[p], WriteFile(p, b)
      PROVE  IInv'
  <2> DEFINE old(s) == [plist[s] EXCEPT !.loaded = "stale"]
  <2>1. ASSUME NEW s \in Slot
        PROVE  /\ Good(old(s)) /\ old(s).status = plist[s].status
               /\ old(s).path = plist[s].path /\ old(s).parent = plist[s].parent
               /\ old(s).action = plist[s].action
    <3> DEFINE o == old(s)
    <3>1. plist[s] \in Plugin /\ Good(plist[s])
      BY DEF IInv, ListOK
    <3>2. o \in Plugin
      BY <3>1, FieldSet
    <3>3. /\ o.status = plist[s].status /\ o.action = plist[s].action
          /\ o.handle = plist[s].handle /\ o.info = plist[s].info
          /\ o.path = plist[s].path /\ o.parent = plist[s].parent
      BY <3>1 DEF Plugin
    <3> HIDE DEF o
    <3>4. Good(o)
      BY <3>1, <3>2, <3>3 DEF Good, Opened, Fits
    <3> QED BY <3>3, <3>4 DEF o
  <2> HIDE DEF old
  <2>2. /\ \A s \in Slot : plist'[s] \in {plist[s], old(s)}
        /\ plist' = [s \in Slot |-> plist'[s]]
    BY <1>2 DEF WriteFile, old
  <2>3. \A s \in Slot : /\ Good(plist'[s])
                        /\ plist'[s].status = plist[s].status
                        /\ plist'[s].path = plist[s].path
                        /\ plist'[s].parent = plist[s].parent
                        /\ plist'[s].action = plist[s].action
    BY <2>1, <2>2, SlotGood
  <2>4. plist' \in [Slot -> Plugin]
    BY <2>2, <2>3 DEF Good
  <2>5. ListOK(plist', endlist)
    BY <2>3, <2>4, SameOK DEF IInv
  <2>6. NoNewKeep(plist', plist)
    BY <2>3 DEF NoNewKeep
  <2>7. /\ endlist' = endlist /\ UNCHANGED <<inifile, ini, loopvars>>
        /\ phase \in {"idle", "slots"}
        /\ disk' \in [Path -> Build \cup {NoFile}]
    BY <1>2, BuildAssumption DEF WriteFile, Idle, IInv, TypeOK
  <2> QED BY <2>5, <2>6, <2>7, BetweenSteps
<1> QED BY <1>1, <1>2 DEF Edits

(* unpause_all() after a refresh. *)
LEMMA UnpausedOK ==
  ASSUME IInv
  PROVE  ListOK(UnpausedAll, endlist) /\ NoNewKeep(UnpausedAll, plist)
<1>1. ASSUME NEW s \in Slot
      PROVE  LET new == UnpausedAll[s]
             IN  /\ Good(new)
                 /\ Live(new) <=> Live(plist[s])
                 /\ Running(new) <=> Running(plist[s])
                 /\ new.path = plist[s].path /\ new.parent = plist[s].parent
                 /\ new.action = plist[s].action
  <2> DEFINE new == UnpausedAll[s]
             r == [plist[s] EXCEPT !.status = PL_RUNNING]
  <2>1. Good(plist[s]) /\ plist[s] \in Plugin
    BY SlotGood DEF Good
  <2>2. /\ r.status = PL_RUNNING /\ r.path = plist[s].path
        /\ r.parent = plist[s].parent /\ r.action = plist[s].action
    BY <2>1 DEF Plugin
  <2>3. \/ new = plist[s]
        \/ plist[s].status = PL_PAUSED /\ new = r
    BY DEF UnpausedAll, Unpause
  <2>4. Good(Unpause(plist[s]))
    BY <2>1, PauseGood DEF Becomes
  <2>5. Good(new)
    BY <2>1, <2>4 DEF UnpausedAll
  <2> HIDE DEF new, r
  <2>6. CASE new = plist[s]
    BY <2>5, <2>6 DEF new
  <2>7. CASE plist[s].status = PL_PAUSED /\ new = r
    <3>1. /\ Live(new) <=> Live(plist[s])
          /\ Running(new) <=> Running(plist[s])
      BY <2>2, <2>7
    <3> QED BY <2>2, <2>5, <2>7, <3>1 DEF new
  <2> QED BY <2>3, <2>6, <2>7
<1>2. UnpausedAll = [s \in Slot |-> UnpausedAll[s]]
  BY DEF UnpausedAll
<1>3. UnpausedAll \in [Slot -> Plugin]
  BY <1>1, <1>2 DEF Good
<1> QED BY <1>1, <1>3, SameOK DEF IInv, NoNewKeep

(* A loop starts, or the manager is idle again. *)
LEMMA EnterStep ==
  ASSUME IInv, NEW next \in {"boot load", "idle", "ini", "slots"}, Enter(next),
         UNCHANGED <<inifile, ini, disk>>, now' \in Times,
         ListOK(plist', endlist'),
         next = "ini" => ini # NoFile,
         \A s \in Slot : plist'[s].action = "KEEP" => next \in {"ini", "slots"}
  PROVE  IInv'
<1>1. ListOK(plist, endlist)'
  BY DEF ListOK
<1>2. /\ phase' = next /\ nread' = 0 /\ caller' = 0
      /\ next # "idle" => pos' = 1
      /\ pos' \in Nat
  BY DEF Enter
<1>3. TypeOK'
  <2> QED BY <1>2, Bounds DEF IInv, TypeOK, ListOK, Phases
<1>4. LoopOK'
  <2>1. next = "ini" => ini \in Seq(Path)
    BY ListAssumption DEF IInv, TypeOK
  <2>2. next # "boot ini"
    OBVIOUS
  <2>3. ini' = ini
    OBVIOUS
  <2>4. next # "idle" => pos' >= 1
    BY <1>2, Bounds, Zenon
  <2> QED BY <1>2, <2>1, <2>2, <2>3, <2>4 DEF LoopOK
<1>5. KeepOK'
  <2>1. ASSUME NEW s \in Slot, plist'[s].action = "KEEP", next = "slots"
        PROVE  s >= pos'
    BY <1>2, <2>1 DEF Slot
  <2> QED BY <1>2, <2>1 DEF KeepOK
<1> QED BY <1>1, <1>3, <1>4, <1>5 DEF IInv

LEMMA RefreshStep ==
  ASSUME IInv, NEW when \in {PT_ANYTIME, PT_CHANGELEVEL}, Refresh(when)
  PROVE  IInv'
<1>1. /\ phase = "idle" /\ now' \in Times
      /\ endlist' = endlist /\ UNCHANGED <<inifile, ini, disk>>
  BY DEF Refresh, Idle, Times
<1>2. \A s \in Slot : plist[s].action # "KEEP"
  BY <1>1 DEF IInv, KeepOK
<1>3. CASE inifile = "full" /\ ini # NoFile
  <2>1. Enter("ini") /\ plist' = plist
    BY <1>3 DEF Refresh
  <2>2. ListOK(plist', endlist')
    BY <1>1, <2>1 DEF IInv
  <2> QED BY <1>1, <1>2, <1>3, <2>1, <2>2, EnterStep
<1>4. CASE ~(inifile = "full" /\ ini # NoFile)
  <2>1. Enter("idle") /\ plist' \in {plist, UnpausedAll}
    BY <1>4 DEF Refresh
  <2>2. ListOK(plist', endlist') /\ NoNewKeep(plist', plist)
    BY <1>1, <2>1, UnpausedOK DEF IInv, NoNewKeep
  <2>3. \A s \in Slot : plist'[s].action # "KEEP"
    BY <1>2, <2>2 DEF NoNewKeep
  <2> QED BY <1>1, <2>1, <2>2, <2>3, EnterStep
<1> QED BY <1>3, <1>4

LEMMA LoopsEnd ==
  ASSUME IInv, BootLinesDone \/ BootDone \/ RefreshLinesDone \/ RefreshDone
  PROVE  IInv'
<1>1. now' \in Times
  BY DEF IInv, TypeOK, BootLinesDone, BootDone, RefreshLinesDone, RefreshDone
<1>2. CASE BootLinesDone \/ BootDone
  <2>1. PICK next \in {"boot load", "idle"} : Enter(next)
    BY <1>2 DEF BootLinesDone, BootDone
  <2>2. /\ plist' = plist /\ endlist' = endlist /\ UNCHANGED <<inifile, ini, disk>>
        /\ phase \in {"boot ini", "boot load"}
    BY <1>2 DEF BootLinesDone, BootDone
  <2>3. \A s \in Slot : plist'[s].action # "KEEP"
    BY <2>2 DEF IInv, KeepOK
  <2>4. ListOK(plist', endlist')
    BY <2>2 DEF IInv
  <2> QED BY <1>1, <2>1, <2>2, <2>3, <2>4, EnterStep
<1>3. CASE RefreshLinesDone
  <2>1. /\ Enter("slots") /\ plist' = plist /\ endlist' = endlist
        /\ UNCHANGED <<inifile, ini, disk>>
    BY <1>3 DEF RefreshLinesDone
  <2>2. ListOK(plist', endlist')
    BY <2>1 DEF IInv
  <2> QED BY <1>1, <2>1, <2>2, EnterStep
<1>4. CASE RefreshDone
  <2>1. /\ Enter("idle") /\ plist' \in {plist, UnpausedAll} /\ endlist' = endlist
        /\ UNCHANGED <<inifile, ini, disk>> /\ phase = "slots" /\ pos > endlist
    BY <1>4 DEF RefreshDone
  <2>2. ListOK(plist', endlist') /\ NoNewKeep(plist', plist)
    BY <2>1, UnpausedOK DEF IInv, NoNewKeep
  <2>3. ASSUME NEW s \in Slot, plist'[s].action = "KEEP"
        PROVE  FALSE
    <3>1. plist[s].action = "KEEP"
      BY <2>2, <2>3 DEF NoNewKeep
    <3>2. s >= pos
      BY <2>1, <3>1 DEF IInv, KeepOK
    <3>3. s > endlist
      BY <2>1, <3>2 DEF IInv, TypeOK, Slot
    <3> QED BY <3>1, <3>3 DEF IInv, ListOK, Good, Fits
  <2> QED BY <1>1, <2>1, <2>2, <2>3, EnterStep
<1> QED BY <1>2, <1>3, <1>4

(* The line of plugins.ini that a loop has come to. *)
LEMMA LineOK ==
  ASSUME TypeOK, pos >= 1, ini \in Seq(Path), LineLeft
  PROVE  /\ pos \in 1 .. Len(ini) /\ ini[pos] \in Path
         /\ nread + 1 \in 1 .. MaxPlugins /\ pos + 1 \in Nat
<1>1. pos \in Nat /\ nread \in 0 .. MaxPlugins /\ pos <= Len(ini) /\ nread < MaxPlugins
  BY DEF TypeOK, LineLeft
<1> QED BY <1>1, ListAssumption

LEMMA LineAddsOK ==
  ASSUME IInv, NEW p \in Path, ~Found(p), LineAdds(p)
  PROVE  ListOK(plist', endlist') /\ nread' = nread + 1
<1>1. PICK s \in Slot : /\ FreeSlot(plist, s)
                       /\ plist' = [plist EXCEPT ![s] = Added(plist, s, p, "INI", 0)]
                       /\ endlist' = EndAfter(s) /\ nread' = nread + 1
  BY DEF LineAdds
<1> DEFINE parent == 0
           new == Added(plist, s, p, "INI", parent)
<1>2. ListOK(plist, endlist) /\ parent \in 0 .. MaxPlugins /\ "INI" \in Sources
  BY Bounds DEF IInv, Sources
<1> HIDE DEF parent
<1>3. /\ Good(new) /\ ~Live(plist[s])
      /\ new.action = "LOAD" /\ new.path = p /\ new.parent = parent
  BY <1>1, <1>2, AddedGood
<1> HIDE DEF new
<1>4. EndAfter(s) \in endlist .. MaxPlugins /\ s <= EndAfter(s)
  BY EndOK
<1>5. \A t \in Slot : Live(plist[t]) => new.path # plist[t].path
  BY <1>3, NotFound
<1>6. plist' = [plist EXCEPT ![s] = new]
  BY <1>1 DEF new, parent
<1>7. new.action # "KEEP" /\ ~(new.parent > 0)
  BY <1>3 DEF parent
<1>8. Takes(plist', endlist', plist, endlist, s, new)
  BY <1>1, <1>3, <1>4, <1>5, <1>6, <1>7 DEF Takes
<1> QED BY <1>1, <1>2, <1>8, AddedOK

LEMMA LineRivalOK ==
  ASSUME IInv, NEW p \in Path, LineRival(p)
  PROVE  ListOK(plist', endlist') /\ nread' \in {nread, nread + 1}
<1>1. endlist' = endlist /\ ~Found(p) /\ ListOK(plist, endlist)
  BY DEF LineRival, IInv
<1>2. PICK r \in Slot :
        /\ Rival(r, p)
        /\ \/ UNCHANGED <<plist, nread>>
           \/ /\ plist[r].action = "LOAD"
              /\ LET l == [plist EXCEPT ![r] = Wiped]
                 IN  \E s \in Slot :
                       /\ FreeSlot(l, s)
                       /\ plist' = [l EXCEPT ![s] = Added(l, s, p, "INI", 0)]
                       /\ nread' = nread + 1
  BY DEF LineRival, FirstRival
<1>3. CASE UNCHANGED <<plist, nread>>
  BY <1>1, <1>3
<1>4. CASE ~UNCHANGED <<plist, nread>>
  <2> DEFINE l == [plist EXCEPT ![r] = Wiped]
             parent == 0
             new(s) == Added(l, s, p, "INI", parent)
  <2>1. PICK s \in Slot : /\ FreeSlot(l, s)
                         /\ plist' = [l EXCEPT ![s] = new(s)]
                         /\ nread' = nread + 1
    BY <1>2, <1>4
  <2>2. ~Running(plist[r])
    BY <1>2, <1>4, SlotGood DEF Good, Fits
  <2>3. /\ l[r] = Wiped /\ \A t \in Slot \ {r} : l[t] = plist[t]
    BY <1>1 DEF ListOK
  <2>4. parent \in 0 .. MaxPlugins /\ "INI" \in Sources /\ ~(parent > 0)
    BY Bounds DEF Sources
  <2> HIDE DEF l, parent
  <2>5. ListOK(l, endlist)
    BY <1>1, <2>2, WipedOK DEF l
  <2>6. /\ Good(new(s)) /\ ~Live(l[s])
        /\ new(s).action = "LOAD" /\ new(s).path = p /\ new(s).parent = parent
    BY <2>1, <2>4, <2>5, AddedGood
  <2> HIDE DEF new
  <2>7. s <= endlist
    <3>1. r <= endlist
      BY <1>2 DEF Rival
    <3>2. l[r].status = PL_EMPTY
      BY <2>3 DEF Wiped
    <3>3. ~(r \in 1 .. s - 1)
      BY <2>1, <3>2 DEF FreeSlot
    <3> QED BY <1>1, <3>1, <3>3 DEF Slot, ListOK
  <2>8. \A t \in Slot : Live(l[t]) => new(s).path # l[t].path
    <3>1. ~Live(Wiped)
      BY WipedGood
    <3> QED BY <1>1, <2>3, <2>6, <3>1, NotFound
  <2>9. endlist \in endlist .. MaxPlugins
    BY <1>1 DEF ListOK
  <2>10. new(s).action # "KEEP" /\ ~(new(s).parent > 0)
    BY <2>4, <2>6
  <2>11. Takes(plist', endlist, l, endlist, s, new(s))
    BY <2>1, <2>6, <2>7, <2>8, <2>9, <2>10 DEF Takes
  <2> QED BY <1>1, <2>1, <2>5, <2>11, AddedOK
<1> QED BY <1>3, <1>4

LEMMA LineListedOK ==
  ASSUME IInv, NEW p \in Path, LineListed(p)
  PROVE  ListOK(plist', endlist') /\ nread' \in {nread, nread + 1}
<1>1. endlist' = endlist /\ ListOK(plist, endlist)
  BY DEF LineListed, IInv
<1>2. CASE UNCHANGED <<plist, nread>>
  BY <1>1, <1>2
<1>3. CASE ~UNCHANGED <<plist, nread>>
  <2>1. PICK s \in Slot :
          /\ Live(plist[s]) /\ nread' = nread + 1
          /\ plist' = [plist EXCEPT ![s].action =
                         IF plist[s].loaded = "fresh" THEN "KEEP"
                         ELSE IF plist[s].status >= PL_OPENED THEN "RELOAD" ELSE @]
    BY <1>3 DEF LineListed, Holds
  <2> DEFINE mark(action) == [plist[s] EXCEPT !.action = action]
  <2>2. /\ plist'[s] \in {mark("KEEP"), mark("RELOAD"), mark(plist[s].action)}
        /\ \A t \in Slot \ {s} : plist'[t] = plist[t]
        /\ plist' = [t \in Slot |-> plist'[t]]
    BY <1>1, <2>1 DEF ListOK
  <2>3. mark(plist[s].action) = plist[s]
    BY <1>1 DEF ListOK, Plugin
  <2>4. \A action \in {"KEEP", "RELOAD"} :
          LET m == mark(action)
          IN  /\ Good(m) /\ m.status = plist[s].status
              /\ m.path = plist[s].path /\ m.parent = plist[s].parent
    <3>1. Good(plist[s]) /\ Live(plist[s])
      BY <2>1, SlotGood
    <3> DEFINE pl == plist[s]
    <3>2. Good(pl) /\ Live(pl)
      BY <3>1
    <3> HIDE DEF pl
    <3> DEFINE new(action) == [pl EXCEPT !.action = action]
    <3>3. ASSUME NEW action \in {"KEEP", "RELOAD"}
          PROVE  /\ Good(new(action)) /\ new(action).status = pl.status
                 /\ new(action).path = pl.path /\ new(action).parent = pl.parent
      <4>1. action \in {"NONE", "UNLOAD", "RELOAD", "KEEP"}
        OBVIOUS
      <4> QED BY <3>2, <4>1, MarkedGood
    <3> QED BY <3>3 DEF pl
  <2> HIDE DEF mark
  <2>5. /\ Good(plist'[s]) /\ plist'[s].status = plist[s].status
        /\ plist'[s].path = plist[s].path /\ plist'[s].parent = plist[s].parent
    BY <2>2, <2>3, <2>4, SlotGood
  <2>6. \A t \in Slot : /\ Good(plist'[t]) /\ plist'[t].status = plist[t].status
                        /\ plist'[t].path = plist[t].path
                        /\ plist'[t].parent = plist[t].parent
    BY <2>2, <2>5, SlotGood
  <2>7. plist' \in [Slot -> Plugin]
    BY <2>2, <2>6 DEF Good
  <2>8. ListOK(plist', endlist)
    BY <1>1, <2>6, <2>7, SameOK
  <2> QED BY <1>1, <2>1, <2>8
<1> QED BY <1>2, <1>3

LEMMA RefreshLineStep ==
  ASSUME IInv, RefreshLine
  PROVE  IInv'
<1>1. /\ phase = "ini" /\ LineLeft /\ pos' = pos + 1
      /\ UNCHANGED <<inifile, ini, disk, phase, now, caller>>
  BY DEF RefreshLine
<1>2. /\ pos \in 1 .. Len(ini) /\ ini[pos] \in Path
      /\ nread + 1 \in 1 .. MaxPlugins /\ pos + 1 \in Nat
  BY <1>1, LineOK DEF IInv, LoopOK
<1>3. ListOK(plist', endlist') /\ nread' \in {nread, nread + 1}
  <2>1. CASE LineNew(ini[pos])
    BY <1>2, <2>1, LineAddsOK DEF LineNew, IInv
  <2>2. CASE LineRival(ini[pos])
    BY <1>2, <2>2, LineRivalOK
  <2>3. CASE LineListed(ini[pos])
    BY <1>2, <2>3, LineListedOK
  <2> QED BY <2>1, <2>2, <2>3 DEF RefreshLine
<1>4. ListOK(plist, endlist)'
  BY <1>3 DEF ListOK
<1>5. nread' \in 0 .. MaxPlugins /\ pos' >= 1 /\ pos' \in Nat
  BY <1>1, <1>2, <1>3 DEF IInv, TypeOK
<1>6. TypeOK'
  BY <1>1, <1>3, <1>5 DEF IInv, TypeOK, ListOK
<1>7. LoopOK' /\ KeepOK'
  BY <1>1, <1>5 DEF IInv, LoopOK, KeepOK
<1> QED BY <1>4, <1>6, <1>7 DEF IInv

(* What refresh() does with a plugin, and whether it unloads it. *)
LEMMA RefreshedGood ==
  ASSUME NEW pl, Good(pl), Live(pl), DiskOK, NEW det \in BOOLEAN, NEW att \in BOOLEAN
  PROVE  /\ Becomes(RefreshedPlugin(pl, det, att), pl, RefreshUnloads(pl, det))
         /\ RefreshedPlugin(pl, det, att).action # "KEEP"
<1> DEFINE new == RefreshedPlugin(pl, det, att)
           out == RefreshUnloads(pl, det)
           mark(action) == [pl EXCEPT !.action = action]
<1>1. CASE pl.action = "KEEP"
  <2>1. new = mark("NONE")
    BY <1>1 DEF RefreshedPlugin
  <2>2. Becomes(mark("NONE"), pl, out) /\ mark("NONE").action = "NONE"
    BY MarkGood, MarkedGood
  <2> HIDE DEF new, mark, out
  <2>3. Becomes(new, pl, out) /\ new.action # "KEEP"
    BY <2>1, <2>2
  <2> QED BY <2>3 DEF new, out
<1>2. CASE pl.action # "KEEP" /\ Unlisted(pl)
  <2> DEFINE m == mark("UNLOAD")
             unl == Unload(m, now, "INI_DELETED", det)
             uns == Unloads(m, now, "INI_DELETED", det)
  <2>1. new = unl /\ (uns => out)
    BY <1>2 DEF RefreshedPlugin, RefreshUnloads
  <2>2. Good(m) /\ m.action = "UNLOAD" /\ Becomes(m, pl, FALSE)
    BY MarkGood, MarkedGood
  <2> HIDE DEF m
  <2>3. Becomes(unl, m, uns)
    BY <2>2, UnloadGood
  <2> HIDE DEF unl, uns, new, out
  <2>4. Becomes(unl, pl, uns)
    BY <2>2, <2>3, Compose
  <2>5. Becomes(new, pl, out) /\ new.action # "KEEP"
    BY <1>2, <2>1, <2>4 DEF Becomes, Succeeds
  <2> QED BY <2>5 DEF new, out
<1>3. CASE pl.action # "KEEP" /\ ~Unlisted(pl)
  <2> DEFINE reason == IF pl.action = "RELOAD" THEN "FILE_NEWER" ELSE "DELAYED"
             ret == Retry(pl, now, reason, det, att)
             uns == RetryUnloads(pl, now, reason, det)
  <2>1. new = ret /\ (uns => out)
    BY <1>3 DEF RefreshedPlugin, RefreshUnloads
  <2> HIDE DEF reason
  <2>2. Becomes(ret, pl, uns)
    BY RetryGood
  <2> HIDE DEF ret, uns, new, out
  <2>3. Becomes(new, pl, out) /\ new.action # "KEEP"
    BY <1>3, <2>1, <2>2 DEF Becomes, Succeeds
  <2> QED BY <2>3 DEF new, out
<1> QED BY <1>1, <1>2, <1>3

LEMMA RefreshSlotStep ==
  ASSUME IInv, NEW det \in BOOLEAN, NEW att \in BOOLEAN, RefreshSlot(det, att)
  PROVE  IInv'
<1> DEFINE pl == plist[pos]
           new == IF Live(pl) THEN RefreshedPlugin(pl, det, att) ELSE pl
           out == Live(pl) /\ RefreshUnloads(pl, det)
<1>1. /\ phase = "slots" /\ pos <= endlist /\ pos' = pos + 1
      /\ plist' = Updated(pos, new, out) /\ endlist' = endlist
      /\ caller' \in {pos, 0}
      /\ UNCHANGED <<inifile, ini, disk, phase, nread, now>>
  BY DEF RefreshSlot
<1>2. pos \in Slot
  <2>1. pos >= 1
    BY <1>1 DEF IInv, LoopOK
  <2>2. pos \in Nat /\ endlist \in 0 .. MaxPlugins /\ pos <= endlist
    BY <1>1 DEF IInv, TypeOK
  <2> QED BY <2>1, <2>2, ListAssumption DEF Slot
<1>3. Good(pl) /\ DiskOK
  BY <1>2, SlotGood
<1> HIDE DEF pl
<1>4. Becomes(new, pl, out) /\ new.action # "KEEP"
  <2>1. CASE Live(pl)
    <3>1. new = RefreshedPlugin(pl, det, att) /\ (RefreshUnloads(pl, det) => out)
      BY <2>1
    <3> HIDE DEF new, out
    <3>2. Becomes(RefreshedPlugin(pl, det, att), pl, RefreshUnloads(pl, det))
      BY <1>3, <2>1, RefreshedGood
    <3>3. new.action # "KEEP"
      BY <1>3, <2>1, <3>1, RefreshedGood
    <3> QED BY <3>1, <3>2, <3>3 DEF Becomes
  <2>2. CASE ~Live(pl)
    <3>1. new = pl /\ pl.action = "NULL"
      BY <1>3, <2>2 DEF Good, Fits
    <3> HIDE DEF new, out
    <3> QED BY <1>3, <3>1, Unchanged
  <2> QED BY <2>1, <2>2
<1> HIDE DEF new, out
<1>5. /\ ListOK(plist', endlist') /\ NoNewKeep(plist', plist)
      /\ plist'[pos] = new
  BY <1>1, <1>2, <1>4, UpdatedOK DEF IInv, pl
<1>6. ListOK(plist, endlist)'
  BY <1>5 DEF ListOK
<1>7. TypeOK'
  <2>1. pos' \in Nat /\ caller' \in 0 .. MaxPlugins
    BY <1>1, <1>2, ListAssumption DEF Slot
  <2> QED BY <1>1, <1>5, <2>1 DEF IInv, TypeOK, ListOK
<1>8. LoopOK'
  <2>1. pos' >= 1
    BY <1>1, <1>2 DEF Slot
  <2> QED BY <1>1, <2>1 DEF LoopOK
<1>9. KeepOK'
  <2>1. ASSUME NEW s \in Slot, plist'[s].action = "KEEP"
        PROVE  s >= pos'
    <3>1. plist[s].action = "KEEP" /\ s # pos
      BY <1>4, <1>5, <2>1 DEF NoNewKeep
    <3>2. s >= pos
      BY <1>1, <3>1 DEF IInv, KeepOK
    <3> QED BY <1>1, <1>2, <3>1, <3>2 DEF Slot
  <2> QED BY <1>1, <2>1 DEF KeepOK
<1> QED BY <1>6, <1>7, <1>8, <1>9 DEF IInv

(* While plugins.ini is read at server start, no line is skipped: it takes *)
(* the next slot, and that of another build goes if there was one.         *)
LEMMA BootLineStep ==
  ASSUME IInv, BootLine
  PROVE  IInv'
<1> DEFINE s == nread + 1
           p == ini[pos]
           new == [Parsed(p) EXCEPT !.action = "LOAD"]
           m == [t \in Slot |-> IF FirstRival(t, p) THEN Wiped ELSE plist[t]]
<1>1. /\ phase = "boot ini" /\ LineLeft /\ pos' = pos + 1
      /\ UNCHANGED <<inifile, ini, disk, phase, now, caller>>
  BY DEF BootLine
<1>2. /\ pos \in 1 .. Len(ini) /\ p \in Path
      /\ s \in 1 .. MaxPlugins /\ pos + 1 \in Nat
      /\ pos \in Nat /\ ini \in Seq(Path) /\ Len(ini) \in Nat
  <2>1. ini \in Seq(Path) /\ pos \in Nat
    BY <1>1 DEF IInv, LoopOK, TypeOK
  <2>2. Len(ini) \in Nat
    BY <2>1
  <2> QED BY <1>1, <2>1, <2>2, LineOK DEF IInv, LoopOK
<1>3. BootOK /\ ListOK(plist, endlist)
  BY <1>1 DEF IInv, LoopOK
<1>4. \A t \in Slot : Live(plist[t]) =>
        /\ plist[t].path # p
        /\ Family[plist[t].path] = Family[p] => plist[t].pf < PfSpecific[p]
  <2>1. ini # NoFile
    BY <1>1, ListAssumption DEF IInv, LoopOK
  <2>2. ASSUME NEW t \in Slot, Live(plist[t])
        PROVE  /\ plist[t].path # p
               /\ Family[plist[t].path] = Family[p] => plist[t].pf < PfSpecific[p]
    <3>1. PICK k \in 1 .. Len(ini) : k < pos /\ plist[t].path = ini[k]
      BY <1>3, <2>2 DEF BootOK
    <3>2. plist[t].pf = PfSpecific[ini[k]]
      BY <1>3, <2>2, <3>1 DEF BootOK
    <3>3. Family[ini[k]] = Family[p] => PfSpecific[ini[k]] < PfSpecific[p]
      BY <1>2, <1>3, <2>1, <3>1 DEF BootOK, CleanStart
    <3>4. ~(PfSpecific[p] < PfSpecific[p])
      BY <1>2, PathAssumption
    <3> QED BY <3>1, <3>2, <3>3, <3>4
  <2> QED BY <2>2
<1>5. /\ BootTake(p)
      /\ \A r \in Slot : FirstRival(r, p) => plist[r].pf < PfSpecific[p]
  <2>1. ~Found(p)
    BY <1>4 DEF Found, Holds
  <2>2. \A r \in Slot : FirstRival(r, p) => plist[r].pf < PfSpecific[p]
    BY <1>4 DEF FirstRival, Rival
  <2>3. \A r \in Slot : ~(FirstRival(r, p) /\ plist[r].pf >= PfSpecific[p])
    <3>1. \A r \in Slot : plist[r] \in Plugin
      BY <1>3 DEF ListOK
    <3>2. \A r \in Slot : plist[r].pf \in 0 .. 1
      BY <3>1 DEF Plugin
    <3>3. PfSpecific[p] \in 0 .. 1
      BY <1>2, PathAssumption
    <3> QED BY <2>2, <3>2, <3>3
  <2> QED BY <2>1, <2>2, <2>3 DEF BootLine, BootSkip
<1>6. s \in Slot /\ ~Live(plist[s])
  BY <1>2, <1>3 DEF Slot, BootOK, ListOK
<1>7. \A t \in Slot : FirstRival(t, p) <=> Rival(t, p)
  <2>1. ASSUME NEW t \in Slot, Rival(t, p), NEW u \in 1 .. t - 1, Rival(u, p)
        PROVE  FALSE
    <3>1. u \in Slot /\ u # t
      BY ListAssumption DEF Slot
    <3>2. Rival(u, plist[t].path) /\ Live(plist[t]) /\ t <= endlist
      BY <2>1 DEF Rival
    <3> QED BY <1>1, <1>3, <3>1, <3>2 DEF BootOK, BootMostSpecific
  <2> QED BY <2>1 DEF FirstRival
<1>8. ListOK(m, endlist) /\ NoNewKeep(m, plist)
  <2>1. CASE \E r \in Slot : FirstRival(r, p)
    <3>1. PICK r \in Slot : FirstRival(r, p)
      BY <2>1
    <3>2. \A t \in Slot : FirstRival(t, p) => t = r
      <4>1. ASSUME NEW t \in Slot, Rival(t, p), t # r
            PROVE  FALSE
        <5>1. Rival(t, plist[r].path) /\ Live(plist[r]) /\ r <= endlist
          BY <3>1, <4>1 DEF FirstRival, Rival
        <5> QED BY <1>1, <1>3, <4>1, <5>1 DEF BootOK, BootMostSpecific
      <4> QED BY <4>1, <1>7
    <3>3. m = [plist EXCEPT ![r] = Wiped]
      BY <1>3, <3>1, <3>2 DEF ListOK
    <3>4. ~Running(plist[r])
      BY <1>3, <3>1 DEF BootOK, FirstRival, Rival
    <3> HIDE DEF m
    <3> QED BY <1>3, <3>3, <3>4, WipedOK
  <2>2. CASE ~\E r \in Slot : FirstRival(r, p)
    <3>1. m = plist
      BY <1>3, <2>2 DEF ListOK
    <3> HIDE DEF m
    <3> QED BY <1>3, <3>1 DEF NoNewKeep
  <2> QED BY <2>1, <2>2
<1>9. /\ \A t \in Slot : Rival(t, p) => m[t] = Wiped
      /\ \A t \in Slot : ~Rival(t, p) => m[t] = plist[t]
      /\ m[s] = plist[s]
  <2>1. ~Rival(s, p)
    BY <1>6 DEF Rival
  <2> QED BY <1>6, <1>7, <2>1
<1>10. /\ plist' = [m EXCEPT ![s] = new]
       /\ nread' = s /\ endlist' = s
  <2>1. plist' = [t \in Slot |-> IF t = s THEN new ELSE m[t]]
    BY <1>5, <1>6 DEF BootTake
  <2>2. m \in [Slot -> Plugin]
    BY <1>8 DEF ListOK
  <2> HIDE DEF new, s, m
  <2> QED BY <1>5, <2>1, <2>2 DEF BootTake, s
<1>11. /\ Good(new) /\ new.status = PL_VALID /\ new.action = "LOAD"
       /\ new.path = p /\ new.parent = 0 /\ new.pf = PfSpecific[p]
  <2> DEFINE n1 == [plist[s] EXCEPT !.status = PL_VALID]
             n2 == [n1 EXCEPT !.source = "INI"]
             n3 == [n2 EXCEPT !.path = p]
             n4 == [n3 EXCEPT !.pf = PfSpecific[p]]
             n5 == [n4 EXCEPT !.action = "LOAD"]
  <2>1. plist[s] \in Plugin /\ Good(plist[s])
    BY <1>3, <1>6 DEF ListOK
  <2>2. n1 \in Plugin
    BY <2>1 DEF Plugin
  <2>3. n2 \in Plugin
    BY <2>2, FieldSet DEF Sources
  <2>4. n3 \in Plugin
    BY <1>2, <2>3, FieldSet
  <2>5. n4 \in Plugin
    BY <1>2, <2>4, PathAssumption, FieldSet
  <2>6. n5 \in Plugin
    BY <2>5, FieldSet DEF Actions
  <2>7. /\ n5.status = PL_VALID /\ n5.action = "LOAD"
        /\ n5.handle = plist[s].handle /\ n5.info = plist[s].info
        /\ n5.path = p /\ n5.parent = plist[s].parent
        /\ n5.pf = PfSpecific[p]
    BY <2>1 DEF Plugin
  <2>8. new = n5
    BY DEF Parsed
  <2>9. ~plist[s].handle /\ plist[s].info = NoInfo /\ plist[s].parent = 0
    BY <1>6, <2>1 DEF Good, Opened, Fits, Plugin
  <2> HIDE DEF n5, new
  <2>10. Good(n5)
    BY <1>2, <2>6, <2>7, <2>9 DEF Good, Opened, Fits
  <2> QED BY <2>7, <2>8, <2>9, <2>10
<1>12. /\ \A t \in Slot : Live(m[t]) => ~Rival(t, p) /\ m[t] = plist[t]
       /\ Live(new) /\ ~Running(new) /\ ~Live(m[s])
  BY <1>6, <1>9, <1>11, WipedGood DEF Live, Running
<1> HIDE DEF new, m
<1>13. ListOK(plist', endlist') /\ NoNewKeep(plist', plist)
  <2>1. s \in endlist .. MaxPlugins /\ s <= s
    BY <1>2, <1>3 DEF BootOK, ListOK
  <2>2. new.action # "KEEP" /\ ~(new.parent > 0)
    BY <1>11
  <2>3. \A t \in Slot : Live(m[t]) => new.path # m[t].path
    BY <1>4, <1>11, <1>12
  <2>4. Takes(plist', endlist', m, endlist, s, new)
    BY <1>10, <1>11, <1>12, <2>1, <2>2, <2>3 DEF Takes
  <2>5. ListOK(plist', endlist') /\ NoNewKeep(plist', m)
    BY <1>6, <1>8, <2>4, AddedOK
  <2> QED BY <1>8, <2>5 DEF NoNewKeep
<1>14. /\ plist'[s] = new
       /\ \A t \in Slot : t # s /\ Live(plist'[t]) =>
            plist'[t] = plist[t] /\ ~Rival(t, p) /\ Live(plist[t])
       /\ \A t \in Slot : t # s /\ ~Rival(t, p) => plist'[t] = plist[t]
  <2>1. m \in [Slot -> Plugin]
    BY <1>8 DEF ListOK
  <2> QED BY <1>6, <1>9, <1>10, <1>12, <2>1
<1>15. ASSUME NEW t \in Slot, Live(plist'[t])
       PROVE  /\ \E k \in 1 .. Len(ini) : k < pos + 1 /\ plist'[t].path = ini[k]
              /\ plist'[t].path \in Path
              /\ plist'[t].pf = PfSpecific[plist'[t].path]
              /\ ~Running(plist'[t])
  <2>1. CASE t = s
    BY <1>2, <1>11, <1>12, <1>14, <2>1
  <2>2. CASE t # s
    <3>1. plist'[t] = plist[t] /\ Live(plist[t])
      BY <1>14, <1>15, <2>2
    <3>2. PICK k \in 1 .. Len(ini) : k < pos /\ plist[t].path = ini[k]
      BY <1>3, <3>1 DEF BootOK
    <3>3. k < pos + 1
      BY <1>2, <3>2
    <3> QED BY <1>3, <3>1, <3>2, <3>3 DEF BootOK
  <2> QED BY <2>1, <2>2
<1>16. BootMostSpecific'
  <2>1. endlist \in 0 .. MaxPlugins /\ endlist < s /\ endlist' = s
    BY <1>2, <1>3, <1>10 DEF ListOK, BootOK
  <2> DEFINE Now(t, q) == /\ t <= s /\ Live(plist'[t])
                          /\ Family[plist'[t].path] = Family[q]
  <2>2. /\ \A t \in Slot, k \in 1 .. Len(ini) : Rival(t, ini[k])' <=> Now(t, ini[k])
        /\ \A t, u \in Slot : Rival(u, plist[t].path)' <=> Now(u, plist'[t].path)
    BY <1>1, <1>10 DEF Rival, Live
  <2>3. ASSUME NEW k \in 1 .. pos
        PROVE  \E t \in Slot : /\ Now(t, ini[k])
                               /\ PfSpecific[plist'[t].path] >= PfSpecific[ini[k]]
    <3>1. k \in 1 .. Len(ini) /\ ini \in Seq(Path) /\ ini[k] \in Path
      BY <1>2, <2>3
    <3>2. PfSpecific[p] \in 0 .. 1 /\ PfSpecific[ini[k]] \in 0 .. 1
      BY <1>2, <3>1, PathAssumption
    <3>3. Family[p] = Family[ini[k]] /\ PfSpecific[p] >= PfSpecific[ini[k]]
          => \E t \in Slot : /\ Now(t, ini[k])
                             /\ PfSpecific[plist'[t].path] >= PfSpecific[ini[k]]
      <4>1. s <= s
        BY <1>2
      <4> QED BY <1>6, <1>11, <1>12, <1>14, <4>1
    <3>4. CASE k = pos
      BY <3>2, <3>3, <3>4
    <3>5. CASE k # pos
      <4>1. k \in 1 .. pos - 1
        BY <1>2, <3>5
      <4>2. PICK t \in Slot : /\ Rival(t, ini[k])
                             /\ PfSpecific[plist[t].path] >= PfSpecific[ini[k]]
        BY <1>1, <1>3, <4>1 DEF BootOK, BootMostSpecific
      <4>3. /\ t <= endlist /\ Live(plist[t]) /\ t # s
            /\ Family[plist[t].path] = Family[ini[k]]
            /\ PfSpecific[plist[t].path] \in 0 .. 1
        BY <1>3, <1>6, <4>2, PathAssumption DEF BootOK, Rival
      <4>4. CASE Rival(t, p)
        <5>1. Family[p] = Family[ini[k]] /\ plist[t].pf < PfSpecific[p]
          BY <1>4, <4>3, <4>4 DEF Rival
        <5>2. plist[t].pf = PfSpecific[plist[t].path]
          BY <1>3, <4>3 DEF BootOK
        <5>3. PfSpecific[p] >= PfSpecific[ini[k]]
          BY <3>2, <4>2, <4>3, <5>1, <5>2
        <5> QED BY <3>3, <5>1, <5>3
      <4>5. CASE ~Rival(t, p)
        <5>1. plist'[t] = plist[t]
          BY <1>14, <4>3, <4>5
        <5>2. t <= s
          BY <1>2, <2>1, <4>3 DEF Slot
        <5> QED BY <4>2, <4>3, <5>1, <5>2
      <4> QED BY <4>4, <4>5
    <3> QED BY <3>4, <3>5
  <2>4. ASSUME NEW t \in Slot, NEW u \in Slot, Live(plist'[t]), Now(u, plist'[t].path)
        PROVE  t = u
    <3>1. Live(plist'[u]) /\ Family[plist'[u].path] = Family[plist'[t].path]
      BY <2>4
    <3>2. ASSUME NEW v \in Slot, v # s, Live(plist'[v])
          PROVE  /\ plist'[v] = plist[v] /\ Live(plist[v]) /\ v <= endlist
                 /\ Family[plist[v].path] # Family[p]
      <4>1. plist'[v] = plist[v] /\ ~Rival(v, p) /\ Live(plist[v])
        BY <1>14, <3>2
      <4>2. v <= endlist
        BY <1>3, <2>1, <4>1 DEF ListOK, Slot
      <4> QED BY <4>1, <4>2 DEF Rival
    <3>3. plist'[s].path = p
      BY <1>11, <1>14
    <3>4. CASE t = s \/ u = s
      BY <2>4, <3>1, <3>2, <3>3, <3>4
    <3>5. CASE t # s /\ u # s
      <4>1. Rival(u, plist[t].path) /\ Live(plist[t]) /\ t <= endlist
        BY <2>4, <3>1, <3>2, <3>5 DEF Rival
      <4> QED BY <1>1, <1>3, <4>1 DEF BootOK, BootMostSpecific
    <3> QED BY <3>4, <3>5
  <2>5. pos' - 1 = pos
    <3>1. pos' = pos + 1 /\ pos \in Nat
      BY <1>1, <1>2
    <3> QED BY <3>1
  <2>6. \A k \in 1 .. pos' - 1 :
          \E t \in Slot : /\ Now(t, ini[k])
                          /\ PfSpecific[plist'[t].path] >= PfSpecific[ini[k]]
    BY <2>3, <2>5
  <2>7. \A t, u \in Slot :
          Live(plist'[t]) /\ Now(u, plist'[t].path) => t = u
    BY <2>4
  <2>8. \A k \in 1 .. pos' - 1 : k \in 1 .. Len(ini)
    BY <1>2, <2>5
  <2> HIDE DEF Now
  <2>9. \A k \in 1 .. pos' - 1 : \E t \in Slot :
          Rival(t, ini[k])' /\ PfSpecific[plist'[t].path] >= PfSpecific[ini'[k]]
    BY <1>1, <2>2, <2>6, <2>8
  <2>10. \A t, u \in Slot :
           t <= endlist' /\ Live(plist[t])' /\ Rival(u, plist[t].path)' => t = u
    BY <2>2, <2>7 DEF Live
  <2> QED BY <2>9, <2>10 DEF BootMostSpecific
<1>17. BootOK'
  <2>1. CleanStart' /\ endlist' = nread'
    BY <1>1, <1>3, <1>10 DEF BootOK, CleanStart
  <2>2. \A t \in Slot : Live(plist[t])' =>
          /\ \E k \in 1 .. Len(ini') : k < pos' /\ plist'[t].path = ini'[k]
          /\ plist'[t].path \in Path
          /\ plist'[t].pf = PfSpecific[plist'[t].path]
          /\ ~Running(plist[t])'
    BY <1>1, <1>15 DEF Live, Running
  <2> QED BY <1>16, <2>1, <2>2 DEF BootOK
<1>18. pos' >= 1 /\ pos' \in Nat /\ nread' \in 0 .. MaxPlugins
  <2>1. pos' = pos + 1 /\ nread' = s
    BY <1>1, <1>10
  <2> QED BY <1>2, <2>1
<1>19. TypeOK'
  BY <1>1, <1>13, <1>18 DEF IInv, TypeOK, ListOK
<1>20. LoopOK'
  BY <1>1, <1>17, <1>18 DEF IInv, LoopOK
<1>21. KeepOK'
  BY <1>1, <1>13 DEF IInv, KeepOK, NoNewKeep
<1>22. ListOK(plist, endlist)'
  BY <1>13 DEF ListOK
<1> QED BY <1>19, <1>20, <1>21, <1>22 DEF IInv

LEMMA BootLoadStep ==
  ASSUME IInv, NEW att \in BOOLEAN, BootLoad(att)
  PROVE  IInv'
<1> DEFINE new == Load(plist[pos], PT_STARTUP, att)
<1>1. /\ phase = "boot load" /\ pos <= endlist /\ pos' = pos + 1
      /\ plist' = [plist EXCEPT ![pos] = new] /\ endlist' = endlist
      /\ UNCHANGED <<inifile, ini, disk, phase, nread, now, caller>>
  BY DEF BootLoad
<1>2. pos \in Slot
  <2>1. pos >= 1
    BY <1>1 DEF IInv, LoopOK
  <2>2. pos \in Nat /\ endlist \in 0 .. MaxPlugins /\ pos <= endlist
    BY <1>1 DEF IInv, TypeOK
  <2> QED BY <2>1, <2>2, ListAssumption DEF Slot
<1>3. Becomes(new, plist[pos], FALSE)
  BY <1>2, SlotGood, LoadGood
<1> HIDE DEF new
<1>4. plist' = Updated(pos, new, FALSE)
  BY <1>1, <1>2 DEF Updated, IInv, ListOK
<1>5. ListOK(plist', endlist') /\ NoNewKeep(plist', plist)
  <2>1. /\ ListOK(Updated(pos, new, FALSE), endlist)
        /\ NoNewKeep(Updated(pos, new, FALSE), plist)
    BY <1>2, <1>3, UpdatedOK DEF IInv
  <2> QED BY <1>1, <1>4, <2>1
<1>6. ListOK(plist, endlist)'
  BY <1>5 DEF ListOK
<1>7. pos' >= 1 /\ pos' \in Nat
  <2>1. pos' = pos + 1
    BY <1>1
  <2> QED BY <1>2, <2>1 DEF Slot
<1>8. TypeOK'
  BY <1>1, <1>5, <1>7 DEF IInv, TypeOK, ListOK
<1>9. LoopOK' /\ KeepOK'
  BY <1>1, <1>5, <1>7 DEF IInv, LoopOK, KeepOK, NoNewKeep
<1> QED BY <1>6, <1>8, <1>9 DEF IInv

LEMMA Invariance == IInv /\ [Next]_vars => IInv'
<1> SUFFICES ASSUME IInv, [Next]_vars PROVE IInv'
  OBVIOUS
<1>1. CASE Boot
  BY <1>1, BootLineStep, BootLoadStep, LoopsEnd DEF Boot
<1>2. CASE Refresh(PT_ANYTIME) \/ Refresh(PT_CHANGELEVEL)
  BY <1>2, RefreshStep
<1>3. CASE Refreshing
  BY <1>3, RefreshLineStep, RefreshSlotStep, LoopsEnd DEF Refreshing
<1>4. CASE Commands
  BY <1>4, LoadsStep, CommandsStep DEF Commands
<1>5. CASE Requests
  BY <1>5, LoadsStep, PluginUnloadStep DEF Requests
<1>6. CASE Edits
  BY <1>6, EditsStep
<1>7. CASE UNCHANGED vars
  BY <1>7, Stuttering
<1> QED BY <1>1, <1>2, <1>3, <1>4, <1>5, <1>6, <1>7 DEF Next

(* What refresh() does to a plugin that no line of plugins.ini concerns.   *)
LEMMA RefreshedStays ==
  ASSUME IInv, NEW s \in Slot, plist[s].source # "INI", plist[s].action \in {"NONE", "KEEP"},
         NEW det \in BOOLEAN, NEW att \in BOOLEAN
  PROVE  RefreshedPlugin(plist[s], det, att).status = plist[s].status
<1> DEFINE pl == plist[s]
<1>1. pl \in Plugin
  BY SlotGood DEF Good
<1> HIDE DEF pl
<1>2. CASE pl.action = "KEEP"
  <2>1. RefreshedPlugin(pl, det, att) = [pl EXCEPT !.action = "NONE"]
    BY <1>2 DEF RefreshedPlugin
  <2>2. [pl EXCEPT !.action = "NONE"].status = pl.status
    BY <1>1 DEF Plugin
  <2> QED BY <2>1, <2>2 DEF pl
<1>3. CASE pl.action = "NONE"
  <2>1. ~Unlisted(pl)
    BY DEF Unlisted, pl
  <2>2. RefreshedPlugin(pl, det, att) = Retry(pl, now, "DELAYED", det, att)
    BY <1>3, <2>1 DEF RefreshedPlugin
  <2>3. Retry(pl, now, "DELAYED", det, att) = pl
    BY <1>3 DEF Retry
  <2> QED BY <2>2, <2>3 DEF pl
<1> QED BY <1>2, <1>3 DEF pl

LEMMA StepOfRefresh ==
  ASSUME IInv, Next, NEW s \in Slot, phase = "slots", pos = s, pos' = s + 1
  PROVE  \E det, att \in BOOLEAN : RefreshSlot(det, att)
<1>1. s \in Nat \ {0}
  BY ListAssumption DEF Slot
<1>2. ~Boot /\ ~Refresh(PT_ANYTIME) /\ ~Refresh(PT_CHANGELEVEL)
  BY DEF Boot, BootLine, BootLinesDone, BootLoad, BootDone, Refresh, Idle
<1>3. ~Commands /\ ~Edits
  BY DEF Commands, CmdLoad, CmdPause, CmdUnpause, CmdUnload, CmdReload, CmdRetry, CmdClear,
         Command, Edits, EditIni, WriteFile, Idle
<1>4. ~Requests
  BY <1>1 DEF Requests, PluginLoad, PluginUnload, loopvars
<1>5. ~RefreshLine /\ ~RefreshLinesDone
  BY DEF RefreshLine, RefreshLinesDone
<1>6. ~RefreshDone
  BY <1>1 DEF RefreshDone, Enter
<1> QED BY <1>2, <1>3, <1>4, <1>5, <1>6 DEF Next, Refreshing

LEMMA OthersStayStep ==
  ASSUME IInv, Next, NEW s \in Slot, phase = "slots", pos = s, pos' = s + 1,
         plist[s].source # "INI", plist[s].action \in {"NONE", "KEEP"}
  PROVE  plist'[s].status = plist[s].status
<1>1. PICK det \in BOOLEAN, att \in BOOLEAN : RefreshSlot(det, att)
  BY StepOfRefresh
<1> DEFINE new == IF Live(plist[s]) THEN RefreshedPlugin(plist[s], det, att) ELSE plist[s]
<1>2. new.status = plist[s].status
  BY RefreshedStays
<1> HIDE DEF new
<1>3. PICK out : plist' = Updated(s, new, out)
  BY <1>1 DEF RefreshSlot, new
<1>4. plist'[s] = new
  BY <1>3 DEF Updated
<1> QED BY <1>2, <1>4

-----------------------------------------------------------------------------
(* The theorems. *)

LEMMA Inductive == CleanSpec => []IInv
BY Initially, Invariance, PTL DEF CleanSpec

LEMMA Implied ==
  IInv => /\ TypeOK /\ OpenedHasInfo /\ UniquePath /\ ParentAlive
          /\ RunningNotPending /\ KeepIsTransient /\ BootMostSpecific
<1> SUFFICES ASSUME IInv
             PROVE  /\ TypeOK /\ OpenedHasInfo /\ UniquePath /\ ParentAlive
                    /\ RunningNotPending /\ KeepIsTransient /\ BootMostSpecific
  OBVIOUS
<1>1. TypeOK
  BY DEF IInv
<1>2. OpenedHasInfo
  BY SlotGood DEF OpenedHasInfo, Good, Opened
<1>3. UniquePath
  BY DEF IInv, ListOK, UniquePath
<1>4. ParentAlive
  BY DEF IInv, ListOK, ParentAlive
<1>5. RunningNotPending
  BY SlotGood DEF RunningNotPending, Good, Fits
<1>6. KeepIsTransient
  BY DEF IInv, KeepOK, KeepIsTransient
<1>7. BootMostSpecific
  BY DEF IInv, LoopOK, BootOK, BootMostSpecific
<1> QED BY <1>1, <1>2, <1>3, <1>4, <1>5, <1>6, <1>7

(* The list keeps its type: the loops stay within the list and within      *)
(* plugins.ini, however plugins come and go meanwhile. *)
THEOREM TypeCorrect == CleanSpec => []TypeOK
BY Inductive, Implied, PTL

(* load(), unload() and the hooks find the library and the information of  *)
(* every plugin that is past query(). *)
THEOREM OpenedHaveInfo == CleanSpec => []OpenedHasInfo
BY Inductive, Implied, PTL

(* No pathname is listed twice, so none is queried or attached twice. *)
THEOREM PathsUnique == CleanSpec => []UniquePath
BY Inductive, Implied, PTL

(* A plugin's parent runs, or the plugin has none: no index of a parent    *)
(* outlives the parent. *)
THEOREM ParentsAlive == CleanSpec => []ParentAlive
BY Inductive, Implied, PTL

(* No running plugin is marked to be loaded: ini_refresh() never wipes it. *)
THEOREM RunningNeverPending == CleanSpec => []RunningNotPending
BY Inductive, Implied, PTL

(* The marks of a refresh are gone when it is over, also if plugins were   *)
(* loaded and unloaded from a GameInit in the midst of it. *)
THEOREM KeepsAreTransient == CleanSpec => []KeepIsTransient
BY Inductive, Implied, PTL

(* While plugins.ini is read at server start, each plugin read so far is   *)
(* listed once, as its most specific build. *)
THEOREM MostSpecificListed == CleanSpec => []BootMostSpecific
BY Inductive, Implied, PTL
(* A refresh passes over a plugin that was loaded by a command or by       *)
(* another plugin, running or paused, listed in plugins.ini or not, unless *)
(* its unloading or reloading was asked for before.                        *)
THEOREM OthersAreLeft == CleanSpec => OthersStay
<1> DEFINE Left ==
      \A s \in Slot :
        /\ phase = "slots" /\ pos = s /\ pos' = s + 1
        /\ plist[s].source # "INI" /\ plist[s].action \in {"NONE", "KEEP"}
        => plist'[s].status = plist[s].status
<1>1. IInv /\ [Next]_vars => [Left]_vars
  BY OthersStayStep
<1> QED BY <1>1, Inductive, PTL DEF CleanSpec, OthersStay

=============================================================================
