---------------------------- MODULE NVaultProofs ----------------------------
(***************************************************************************)
(* Proofs about NVault: for any keys, values, times and numbers of         *)
(* operations, and for journals of any length.                             *)
(*                                                                         *)
(* What Replay() makes of a journal is proved by induction on the number   *)
(* of records it has read.  The lemmas on induction speak of sets and not  *)
(* of predicates: ReplayStays says that a set of maps that no record of a  *)
(* journal leads out of is not left by the journal, and ReplaysStay says   *)
(* the same of pairs of maps.  All else follows by looking at one record.  *)
(***************************************************************************)
EXTENDS NVault, SequenceTheorems, WellFoundedInduction, TLAPS

(* One of the maps of P has this value for the key.                        *)
Had(P, k, value) == \E m \in P : ValueOf(m[k]) = value

(* A map has only values that the maps of P have.                          *)
Own(P, map) == \A k \in Key : map[k] # None => Had(P, k, ValueOf(map[k]))

(* So does a record. *)
OwnRecord(P, record) == record.op = "insert" => Had(P, record.key, record.value)

(* The vault has no value that it has not had since it was last closed     *)
(* well: in memory, on disk and in the journal.                            *)
OwnOK ==
  /\ Own(past, hash) /\ Own(past, file)
  /\ \A i \in 1 .. Len(log) : OwnRecord(past, log[i])

(* Whatever part of the journal a crash leaves.                            *)
EachPrefixIn(P, map, records) ==
  \A n \in 0 .. Len(records) : Replay(map, SubSeq(records, 1, n)) \in P

(* Replaying the journal over the map that it led to changes nothing: a    *)
(* crash may leave it beside a file that was saved.                        *)
Settled == Replay(hash, log) = hash

(* What is on disk is a content that the vault has had, and a journal of   *)
(* the session does no harm beside the file that is saved.                 *)
DiskOK ==
  /\ place \in {"closed", "replayed", "open"} => file \in past
  /\ place = "closed" => Replay(file, log) \in past
  /\ place = "replayed" => hash = Replay(file, log) /\ (hash = file \/ recovered)
  /\ place # "closed" => hash \in past
  /\ place \in {"open", "truncated"} => Stale \/ Settled
  /\ place \in {"saved", "ended"} => file = hash /\ Settled

(* In a session that did not begin with a recovery the journal goes on     *)
(* from the file, and one of an earlier session is no news to it.          *)
SessionOK ==
  place = "open" =>
    IF journaling THEN EachPrefixIn(past, file, log) /\ hash = Replay(file, log)
                  ELSE Replay(file, log) \in past

RecoverOK == ~unsafe => DiskOK /\ (recovered \/ SessionOK)

IInv == TypeOK /\ OwnOK /\ RecoverOK

-----------------------------------------------------------------------------
(* Induction. *)

LEMMA Least ==
  ASSUME NEW S, S \subseteq Nat, S # {}
  PROVE  \E n \in S : \A m \in S : n <= m
<1>1. \E n \in S : \A m \in S : ~ (<<m, n>> \in OpToRel(<, Nat))
  BY NatLessThanWellFounded, WFMin
<1>2. PICK n \in S : \A m \in S : ~ (<<m, n>> \in OpToRel(<, Nat))
  BY <1>1
<1>3. \A m \in S : m \in Nat /\ n \in Nat /\ ~(m < n)
  BY <1>2 DEF OpToRel
<1>4. \A m \in S : n <= m
  BY <1>3
<1> QED BY <1>4

LEMMA UpTo ==
  ASSUME NEW N \in Nat, NEW S, 0 \in S,
         \A n \in 0 .. N - 1 : n \in S => n + 1 \in S
  PROVE  \A n \in 0 .. N : n \in S
<1> SUFFICES ASSUME NEW bad \in 0 .. N, bad \notin S PROVE FALSE
  OBVIOUS
<1> DEFINE out == {n \in 0 .. N : n \notin S}
<1>1. out \subseteq Nat /\ out # {}
  OBVIOUS
<1> HIDE DEF out
<1>2. PICK n \in out : \A m \in out : n <= m
  BY <1>1, Least
<1>3. n # 0 /\ n - 1 \in 0 .. N - 1 /\ n - 1 \notin out
  BY <1>1, <1>2 DEF out
<1> QED BY <1>2, <1>3 DEF out

-----------------------------------------------------------------------------
(* The replay of a journal. *)

(* g[n] is the map when n records have been read.                          *)
Reads(g, map, records, N) ==
  g = [n \in 0 .. N |-> IF n = 0 THEN map ELSE Replayed(g[n - 1], records[n])]

(* As a sequence of steps.                                                 *)
Steps(g, map, records) ==
  g[0] = map /\ \A n \in 1 .. Len(records) : g[n] = Replayed(g[n - 1], records[n])

LEMMA ReadsOne ==
  ASSUME NEW N \in Nat, NEW map, NEW records, NEW g, Reads(g, map, records, N)
  PROVE  /\ g[0] = map
         /\ \A n \in 1 .. N : g[n] = Replayed(g[n - 1], records[n])
<1>1. \A n \in 0 .. N : g[n] = IF n = 0 THEN map ELSE Replayed(g[n - 1], records[n])
  BY DEF Reads
<1>2. 0 \in 0 .. N /\ \A n \in 1 .. N : n \in 0 .. N /\ n # 0
  OBVIOUS
<1> QED BY <1>1, <1>2

(* The journal can be read to its end.                                     *)
LEMMA ReadsAll ==
  ASSUME NEW N \in Nat, NEW map, NEW records
  PROVE  \E g : Reads(g, map, records, N)
<1> DEFINE S == {n \in 0 .. N : \E g : Reads(g, map, records, n)}
<1>1. 0 \in S
  <2> DEFINE g == [n \in 0 .. 0 |-> map]
  <2>1. g = [n \in 0 .. 0 |-> IF n = 0 THEN map ELSE Replayed(g[n - 1], records[n])]
    OBVIOUS
  <2>2. Reads(g, map, records, 0) /\ 0 \in 0 .. N
    BY <2>1 DEF Reads
  <2> HIDE DEF g
  <2> QED BY <2>2
<1>2. ASSUME NEW n \in 0 .. N - 1, n \in S PROVE n + 1 \in S
  <2>1. PICK g : Reads(g, map, records, n)
    BY <1>2
  <2>2. n \in Nat /\ n + 1 \in 0 .. N
    OBVIOUS
  <2>3. g[0] = map /\ \A m \in 1 .. n : g[m] = Replayed(g[m - 1], records[m])
    BY <2>1, <2>2, ReadsOne
  <2> DEFINE h == [m \in 0 .. n + 1 |->
                     IF m = n + 1 THEN Replayed(g[n], records[n + 1]) ELSE g[m]]
             e(m) == IF m = 0 THEN map ELSE Replayed(h[m - 1], records[m])
  <2>4. ASSUME NEW m \in 0 .. n + 1 PROVE h[m] = e(m)
    <3>1. CASE m = 0
      BY <2>2, <2>3, <3>1
    <3>2. CASE m \in 1 .. n
      <4>1. h[m] = g[m] /\ h[m - 1] = g[m - 1] /\ m # 0
        BY <2>2, <3>2
      <4> QED BY <2>3, <3>2, <4>1
    <3>3. CASE m = n + 1
      <4>1. h[m] = Replayed(g[n], records[m]) /\ h[m - 1] = g[n] /\ m # 0
        BY <2>2, <3>3
      <4> QED BY <4>1
    <3> QED BY <2>2, <3>1, <3>2, <3>3
  <2>5. h = [m \in 0 .. n + 1 |-> h[m]]
    OBVIOUS
  <2> HIDE DEF h
  <2>6. h = [m \in 0 .. n + 1 |-> e(m)]
    BY <2>4, <2>5
  <2>7. Reads(h, map, records, n + 1)
    BY <2>6 DEF Reads
  <2> QED BY <2>2, <2>7
<1> HIDE DEF S
<1>3. N \in S
  BY <1>1, <1>2, UpTo
<1> QED BY <1>3 DEF S

LEMMA ReplayReads ==
  ASSUME NEW map, NEW records, Len(records) \in Nat
  PROVE  \E g : Steps(g, map, records) /\ Replay(map, records) = g[Len(records)]
<1> DEFINE N == Len(records)
           after == CHOOSE g : Reads(g, map, records, N)
<1>1. Reads(after, map, records, N)
  BY ReadsAll
<1>2. Replay(map, records) = after[N]
  BY DEF Replay, Reads
<1> HIDE DEF N, after
<1>3. Steps(after, map, records)
  BY <1>1, ReadsOne DEF N, Steps
<1> QED BY <1>2, <1>3 DEF N

(* Replay() is the only way to read a journal.                             *)
LEMMA ReplayOnly ==
  ASSUME NEW map, NEW records, Len(records) \in Nat, NEW g, Steps(g, map, records)
  PROVE  Replay(map, records) = g[Len(records)]
<1> DEFINE N == Len(records)
<1>1. PICK h : Steps(h, map, records) /\ Replay(map, records) = h[N]
  BY ReplayReads
<1> HIDE DEF N
<1> DEFINE S == {n \in 0 .. N : g[n] = h[n]}
<1>2. N \in Nat /\ 0 \in S
  BY <1>1 DEF N, Steps
<1>3. ASSUME NEW n \in 0 .. N - 1, n \in S PROVE n + 1 \in S
  <2>1. n + 1 \in 1 .. N /\ n + 1 \in 0 .. N /\ (n + 1) - 1 = n
    BY <1>2
  <2> QED BY <1>1, <1>3, <2>1 DEF N, Steps
<1> HIDE DEF S
<1>4. \A n \in 0 .. N : n \in S
  BY <1>2, <1>3, UpTo
<1> QED BY <1>1, <1>2, <1>4 DEF S, N

(* What holds of the map and is kept by each record holds in the end.      *)
LEMMA ReplayStays ==
  ASSUME NEW S, NEW map \in S, NEW records, Len(records) \in Nat,
         \A m \in S, n \in 1 .. Len(records) : Replayed(m, records[n]) \in S
  PROVE  Replay(map, records) \in S
<1> DEFINE N == Len(records)
<1>1. PICK g : Steps(g, map, records) /\ Replay(map, records) = g[N]
  BY ReplayReads
<1> HIDE DEF N
<1> DEFINE T == {n \in 0 .. N : g[n] \in S}
<1>2. N \in Nat /\ 0 \in T
  BY <1>1 DEF N, Steps
<1>3. ASSUME NEW n \in 0 .. N - 1, n \in T PROVE n + 1 \in T
  <2>1. n + 1 \in 1 .. N /\ n + 1 \in 0 .. N /\ (n + 1) - 1 = n
    BY <1>2
  <2> QED BY <1>1, <1>3, <2>1 DEF N, Steps
<1> HIDE DEF T
<1>4. \A n \in 0 .. N : n \in T
  BY <1>2, <1>3, UpTo
<1> QED BY <1>1, <1>2, <1>4 DEF T

(* The same of two maps over which the journal is replayed.                *)
LEMMA ReplaysStay ==
  ASSUME NEW S, NEW map1, NEW map2, <<map1, map2>> \in S,
         NEW records, Len(records) \in Nat,
         \A m1, m2 : \A n \in 1 .. Len(records) :
           <<m1, m2>> \in S => <<Replayed(m1, records[n]), Replayed(m2, records[n])>> \in S
  PROVE  <<Replay(map1, records), Replay(map2, records)>> \in S
<1> DEFINE N == Len(records)
<1>1. PICK g : Steps(g, map1, records) /\ Replay(map1, records) = g[N]
  BY ReplayReads
<1>2. PICK h : Steps(h, map2, records) /\ Replay(map2, records) = h[N]
  BY ReplayReads
<1> HIDE DEF N
<1> DEFINE T == {n \in 0 .. N : <<g[n], h[n]>> \in S}
<1>3. N \in Nat /\ 0 \in T
  BY <1>1, <1>2 DEF N, Steps
<1>4. ASSUME NEW n \in 0 .. N - 1, n \in T PROVE n + 1 \in T
  <2>1. n + 1 \in 1 .. N /\ n + 1 \in 0 .. N /\ (n + 1) - 1 = n
    BY <1>3
  <2>2. <<g[n], h[n]>> \in S
    BY <1>4
  <2>3. g[n + 1] = Replayed(g[n], records[n + 1]) /\ h[n + 1] = Replayed(h[n], records[n + 1])
    BY <1>1, <1>2, <2>1 DEF Steps, N
  <2> QED BY <2>1, <2>2, <2>3 DEF N
<1> HIDE DEF T
<1>5. \A n \in 0 .. N : n \in T
  BY <1>3, <1>4, UpTo
<1> QED BY <1>1, <1>2, <1>3, <1>5 DEF T

LEMMA ReplayNothing ==
  ASSUME NEW map
  PROVE  Replay(map, <<>>) = map
<1>1. Len(<<>>) = 0
  OBVIOUS
<1> QED BY <1>1, ReplayReads DEF Steps

(* One more record.                                                        *)
LEMMA ReplayMore ==
  ASSUME NEW S, NEW records \in Seq(S), NEW record \in S, NEW map
  PROVE  Replay(map, Append(records, record)) = Replayed(Replay(map, records), record)
<1> DEFINE N == Len(records)
           more == Append(records, record)
<1>1. /\ N \in Nat /\ Len(more) = N + 1 /\ more[N + 1] = record
      /\ \A n \in 1 .. N : more[n] = records[n]
  OBVIOUS
<1> HIDE DEF more
<1>2. PICK h : Steps(h, map, more) /\ Replay(map, more) = h[N + 1]
  BY <1>1, ReplayReads
<1>3. Steps(h, map, records) /\ h[N + 1] = Replayed(h[N], record)
  <2>1. \A n \in 1 .. N : n \in 1 .. N + 1
    BY <1>1
  <2>2. N + 1 \in 1 .. N + 1 /\ (N + 1) - 1 = N
    BY <1>1
  <2> QED BY <1>1, <1>2, <2>1, <2>2 DEF Steps
<1>4. Replay(map, records) = h[N]
  BY <1>1, <1>2, <1>3, ReplayOnly
<1> QED BY <1>2, <1>3, <1>4 DEF more

-----------------------------------------------------------------------------
(* What one record makes of a map. *)

LEMMA RecordKinds ==
  ASSUME NEW r \in Record
  PROVE  \/ /\ r.op = "insert" /\ r.key \in Key /\ r.value \in Value /\ r.stamp \in Time
            /\ \A map : Replayed(map, r) = Inserted(map, r.key, r.value, r.stamp)
         \/ /\ r.op = "remove" /\ r.key \in Key
            /\ \A map : Replayed(map, r) = Removed(map, r.key)
         \/ /\ r.op = "prune" /\ \A map : Replayed(map, r) = Pruned(map, r.start, r.end)
         \/ r.op = "clear" /\ \A map : Replayed(map, r) = NoEntries
<1>1. CASE r \in [op : {"insert"}, key : Key, value : Value, stamp : Time]
  BY <1>1 DEF Replayed
<1>2. CASE r \in [op : {"remove"}, key : Key]
  BY <1>2 DEF Replayed
<1>3. CASE r \in [op : {"prune"}, start : Time, end : Time]
  BY <1>3 DEF Replayed
<1>4. CASE r \in [op : {"clear"}]
  BY <1>4 DEF Replayed
<1> QED BY <1>1, <1>2, <1>3, <1>4 DEF Record

(* An entry is no None, and the operations give maps.                      *)
LEMMA NoneMap ==
  NoEntries \in Map /\ \A k \in Key : NoEntries[k] = None
BY DEF NoEntries, Map

LEMMA InsertedMap ==
  ASSUME VaultAssumption, NEW map \in Map, NEW k \in Key, NEW v \in Value, NEW t \in Time
  PROVE  LET m == Inserted(map, k, v, t)
         IN  /\ m \in Map /\ m[k] = [value |-> v, stamp |-> t] /\ m[k] # None
             /\ ValueOf(m[k]) = v /\ \A j \in Key : j # k => m[j] = map[j]
<1> DEFINE e == [value |-> v, stamp |-> t]
<1>1. e \in Entry /\ e # None /\ e.value = v
  BY DEF VaultAssumption, Entry, Time
<1> HIDE DEF e
<1>2. [map EXCEPT ![k] = e] \in Map
  BY <1>1 DEF Map
<1>3. [map EXCEPT ![k] = e][k] = e /\ \A j \in Key : j # k => [map EXCEPT ![k] = e][j] = map[j]
  BY DEF Map
<1> QED BY <1>1, <1>2, <1>3 DEF Inserted, ValueOf, e

LEMMA RemovedMap ==
  ASSUME NEW map \in Map, NEW k \in Key
  PROVE  LET m == Removed(map, k)
         IN  m \in Map /\ m[k] = None /\ \A j \in Key : j # k => m[j] = map[j]
  BY DEF Removed, Map

LEMMA PrunedMap ==
  ASSUME NEW map \in Map, NEW start, NEW end
  PROVE  LET m == Pruned(map, start, end)
         IN  /\ m \in Map
             /\ \A k \in Key : m[k] = IF map[k] # None /\ InWindow(map[k].stamp, start, end)
                                      THEN None ELSE map[k]
  BY DEF Pruned, Map

(* The map q is what the record has made of the map, key by key.           *)
DoneBy(r, map, q) ==
  /\ r.op \in {"insert", "remove", "prune", "clear"}
  /\ r.op = "insert" =>
       /\ r.key \in Key /\ q[r.key] = [value |-> r.value, stamp |-> r.stamp]
       /\ q[r.key] # None /\ ValueOf(q[r.key]) = r.value
       /\ \A k \in Key : k # r.key => q[k] = map[k]
  /\ r.op = "remove" => \A k \in Key : q[k] = IF k = r.key THEN None ELSE map[k]
  /\ r.op = "prune" =>
       \A k \in Key : q[k] = IF map[k] # None /\ InWindow(map[k].stamp, r.start, r.end)
                            THEN None ELSE map[k]
  /\ r.op = "clear" => \A k \in Key : q[k] = None

LEMMA RecordsMap ==
  ASSUME VaultAssumption, NEW map \in Map, NEW r \in Record
  PROVE  LET q == Replayed(map, r)
         IN  q \in Map /\ DoneBy(r, map, q)
<1> DEFINE q == Replayed(map, r)
<1>1. ASSUME r.op = "insert", r.key \in Key, r.value \in Value, r.stamp \in Time,
             q = Inserted(map, r.key, r.value, r.stamp)
      PROVE  q \in Map /\ DoneBy(r, map, q)
  <2>1. LET m == Inserted(map, r.key, r.value, r.stamp)
        IN  /\ m \in Map /\ m[r.key] = [value |-> r.value, stamp |-> r.stamp] /\ m[r.key] # None
            /\ ValueOf(m[r.key]) = r.value /\ \A j \in Key : j # r.key => m[j] = map[j]
    BY <1>1, InsertedMap
  <2> HIDE DEF q
  <2>2. /\ q \in Map /\ q[r.key] = [value |-> r.value, stamp |-> r.stamp] /\ q[r.key] # None
        /\ ValueOf(q[r.key]) = r.value /\ \A j \in Key : j # r.key => q[j] = map[j]
    BY <1>1, <2>1
  <2> QED BY <1>1, <2>2 DEF DoneBy
<1>2. ASSUME r.op = "remove", r.key \in Key, q = Removed(map, r.key)
      PROVE  q \in Map /\ DoneBy(r, map, q)
  <2>1. LET m == Removed(map, r.key)
        IN  m \in Map /\ m[r.key] = None /\ \A j \in Key : j # r.key => m[j] = map[j]
    BY <1>2, RemovedMap
  <2> HIDE DEF q
  <2>2. q \in Map /\ q[r.key] = None /\ \A j \in Key : j # r.key => q[j] = map[j]
    BY <1>2, <2>1
  <2> QED BY <1>2, <2>2 DEF DoneBy
<1>3. ASSUME r.op = "prune", q = Pruned(map, r.start, r.end)
      PROVE  q \in Map /\ DoneBy(r, map, q)
  <2>1. LET m == Pruned(map, r.start, r.end)
        IN  /\ m \in Map
            /\ \A k \in Key : m[k] = IF map[k] # None /\ InWindow(map[k].stamp, r.start, r.end)
                                     THEN None ELSE map[k]
    BY PrunedMap
  <2> HIDE DEF q
  <2>2. /\ q \in Map
        /\ \A k \in Key : q[k] = IF map[k] # None /\ InWindow(map[k].stamp, r.start, r.end)
                                 THEN None ELSE map[k]
    BY <1>3, <2>1
  <2> QED BY <1>3, <2>2 DEF DoneBy
<1>4. ASSUME r.op = "clear", q = NoEntries
      PROVE  q \in Map /\ DoneBy(r, map, q)
  BY <1>4, NoneMap DEF DoneBy
<1> HIDE DEF q
<1>5. \/ /\ r.op = "insert" /\ r.key \in Key /\ r.value \in Value /\ r.stamp \in Time
         /\ q = Inserted(map, r.key, r.value, r.stamp)
      \/ r.op = "remove" /\ r.key \in Key /\ q = Removed(map, r.key)
      \/ r.op = "prune" /\ q = Pruned(map, r.start, r.end)
      \/ r.op = "clear" /\ q = NoEntries
  BY RecordKinds DEF q
<1> QED BY <1>1, <1>2, <1>3, <1>4, <1>5 DEF q

LEMMA ReplayTyped ==
  ASSUME VaultAssumption, NEW map \in Map, NEW records \in Seq(Record)
  PROVE  Replay(map, records) \in Map
<1>1. Len(records) \in Nat /\ \A n \in 1 .. Len(records) : records[n] \in Record
  OBVIOUS
<1>2. \A m \in Map, n \in 1 .. Len(records) : Replayed(m, records[n]) \in Map
  BY <1>1, RecordsMap
<1> QED BY <1>1, <1>2, ReplayStays

(* A key has only the values of the file and of the records.               *)
LEMMA ReplayOwn ==
  ASSUME VaultAssumption, NEW P, NEW map \in Map, Own(P, map), NEW records \in Seq(Record),
         \A n \in 1 .. Len(records) : OwnRecord(P, records[n])
  PROVE  Own(P, Replay(map, records))
<1> DEFINE S == {m \in Map : Own(P, m)}
<1>1. ASSUME NEW m \in S, NEW r \in Record, OwnRecord(P, r)
      PROVE  Replayed(m, r) \in S
  <2>1. m \in Map /\ \A k \in Key : m[k] # None => Had(P, k, ValueOf(m[k]))
    BY <1>1 DEF Own
  <2> DEFINE q == Replayed(m, r)
  <2>2. q \in Map /\ DoneBy(r, m, q)
    BY <2>1, RecordsMap
  <2> HIDE DEF q
  <2>3. ASSUME NEW k \in Key, q[k] # None PROVE Had(P, k, ValueOf(q[k]))
    <3>1. CASE q[k] = m[k]
      BY <2>1, <2>3, <3>1
    <3>2. CASE r.op = "insert" /\ k = r.key
      <4>1. ValueOf(q[k]) = r.value
        BY <2>2, <3>2 DEF DoneBy
      <4> QED BY <1>1, <3>2, <4>1 DEF OwnRecord
    <3>3. q[k] = m[k] \/ (r.op = "insert" /\ k = r.key)
      BY <2>2, <2>3 DEF DoneBy
    <3> QED BY <3>1, <3>2, <3>3
  <2> QED BY <2>2, <2>3 DEF Own, q
<1>2. Len(records) \in Nat /\ \A n \in 1 .. Len(records) : records[n] \in Record
  OBVIOUS
<1>3. map \in S
  OBVIOUS
<1> HIDE DEF S
<1>4. \A m \in S, n \in 1 .. Len(records) : Replayed(m, records[n]) \in S
  BY <1>1, <1>2
<1>5. Replay(map, records) \in S
  BY <1>2, <1>3, <1>4, ReplayStays
<1> QED BY <1>5 DEF S

(* A record does the same to a key in two maps that agree on it, and makes *)
(* no difference where one of them did not have the key.                   *)
Below(f, g, k) == f[k] = g[k] \/ f[k] = None

LEMMA RecordsAlike ==
  ASSUME VaultAssumption, NEW f \in Map, NEW g \in Map, NEW r \in Record, NEW k \in Key
  PROVE  /\ f[k] = g[k] => Replayed(f, r)[k] = Replayed(g, r)[k]
         /\ Below(f, g, k) => Below(Replayed(f, r), Replayed(g, r), k)
<1> DEFINE u == Replayed(f, r)
           v == Replayed(g, r)
<1>1. DoneBy(r, f, u) /\ DoneBy(r, g, v)
  BY RecordsMap
<1> HIDE DEF u, v
<1>2. (f[k] = g[k] => u[k] = v[k]) /\ (Below(f, g, k) => Below(u, v, k))
  <2>1. CASE r.op = "insert"
    BY <1>1, <2>1 DEF DoneBy, Below
  <2>2. CASE r.op = "remove"
    BY <1>1, <2>2 DEF DoneBy, Below
  <2>3. CASE r.op = "prune"
    BY <1>1, <2>3 DEF DoneBy, Below
  <2>4. CASE r.op = "clear"
    BY <1>1, <2>4 DEF DoneBy, Below
  <2> QED BY <1>1, <2>1, <2>2, <2>3, <2>4 DEF DoneBy
<1> QED BY <1>2 DEF u, v

(* So does a journal.                                                      *)
LEMMA ReplaysAlike ==
  ASSUME VaultAssumption, NEW f \in Map, NEW g \in Map, NEW records \in Seq(Record),
         NEW k \in Key
  PROVE  /\ f[k] = g[k] => Replay(f, records)[k] = Replay(g, records)[k]
         /\ Below(f, g, k) => Below(Replay(f, records), Replay(g, records), k)
<1> DEFINE Same == {p \in Map \X Map : p[1][k] = p[2][k]}
           Low  == {p \in Map \X Map : Below(p[1], p[2], k)}
<1>1. Len(records) \in Nat /\ \A n \in 1 .. Len(records) : records[n] \in Record
  OBVIOUS
<1>2. \A m1, m2 : /\ <<m1, m2>> \in Same <=> m1 \in Map /\ m2 \in Map /\ m1[k] = m2[k]
                  /\ <<m1, m2>> \in Low <=> m1 \in Map /\ m2 \in Map /\ Below(m1, m2, k)
  OBVIOUS
<1> HIDE DEF Same, Low
<1>3. ASSUME NEW m1, NEW m2, NEW n \in 1 .. Len(records), <<m1, m2>> \in Same
      PROVE  <<Replayed(m1, records[n]), Replayed(m2, records[n])>> \in Same
  <2>1. m1 \in Map /\ m2 \in Map /\ m1[k] = m2[k] /\ records[n] \in Record
    BY <1>1, <1>2, <1>3
  <2>2. Replayed(m1, records[n]) \in Map /\ Replayed(m2, records[n]) \in Map
    BY <2>1, RecordsMap
  <2>3. Replayed(m1, records[n])[k] = Replayed(m2, records[n])[k]
    BY <2>1, RecordsAlike
  <2> QED BY <1>2, <2>2, <2>3
<1>4. ASSUME NEW m1, NEW m2, NEW n \in 1 .. Len(records), <<m1, m2>> \in Low
      PROVE  <<Replayed(m1, records[n]), Replayed(m2, records[n])>> \in Low
  <2>1. m1 \in Map /\ m2 \in Map /\ Below(m1, m2, k) /\ records[n] \in Record
    BY <1>1, <1>2, <1>4
  <2>2. Replayed(m1, records[n]) \in Map /\ Replayed(m2, records[n]) \in Map
    BY <2>1, RecordsMap
  <2>3. Below(Replayed(m1, records[n]), Replayed(m2, records[n]), k)
    BY <2>1, RecordsAlike
  <2> QED BY <1>2, <2>2, <2>3
<1>5. ASSUME f[k] = g[k] PROVE Replay(f, records)[k] = Replay(g, records)[k]
  <2>1. <<f, g>> \in Same
    BY <1>2, <1>5
  <2>2. <<Replay(f, records), Replay(g, records)>> \in Same
    BY <1>1, <1>3, <2>1, ReplaysStay
  <2> QED BY <1>2, <2>2
<1>6. ASSUME Below(f, g, k) PROVE Below(Replay(f, records), Replay(g, records), k)
  <2>1. <<f, g>> \in Low
    BY <1>2, <1>6
  <2>2. <<Replay(f, records), Replay(g, records)>> \in Low
    BY <1>1, <1>4, <2>1, ReplaysStay
  <2> QED BY <1>2, <2>2
<1> QED BY <1>5, <1>6

(* Where the journal leads from a map to itself, it does so with one more  *)
(* record from the map that the record makes: what the record has taken    *)
(* away, and the journal has put back, the record takes away again.        *)
LEMMA StaysSettled ==
  ASSUME VaultAssumption, NEW h \in Map, NEW records \in Seq(Record), NEW r \in Record,
         Replay(h, records) = h
  PROVE  Replay(Replayed(h, r), Append(records, r)) = Replayed(h, r)
<1> DEFINE a == Replayed(h, r)
           b == Replay(a, records)
           c == Replayed(b, r)
<1>1. a \in Map /\ DoneBy(r, h, a)
  BY RecordsMap
<1> HIDE DEF a
<1>2. b \in Map
  BY <1>1, ReplayTyped
<1>3. ASSUME NEW k \in Key
      PROVE  (a[k] = h[k] => b[k] = h[k]) /\ (Below(a, h, k) => Below(b, h, k))
  BY <1>1, ReplaysAlike
<1> HIDE DEF b
<1>4. c \in Map /\ DoneBy(r, b, c)
  BY <1>2, RecordsMap
<1>5. Replay(a, Append(records, r)) = c
  BY ReplayMore DEF b
<1> HIDE DEF c
<1>6. ASSUME NEW k \in Key PROVE c[k] = a[k]
  <2>1. CASE r.op = "insert"
    BY <1>1, <1>3, <1>4, <2>1 DEF DoneBy
  <2>2. CASE r.op = "remove"
    BY <1>1, <1>3, <1>4, <2>2 DEF DoneBy
  <2>3. CASE r.op = "prune"
    BY <1>1, <1>3, <1>4, <2>3 DEF DoneBy, Below
  <2>4. CASE r.op = "clear"
    BY <1>1, <1>4, <2>4 DEF DoneBy
  <2> QED BY <1>1, <2>1, <2>2, <2>3, <2>4 DEF DoneBy
<1>7. c = a
  BY <1>1, <1>4, <1>6 DEF Map
<1> QED BY <1>5, <1>7 DEF a

(* The parts of a journal. *)

LEMMA Prefix ==
  ASSUME NEW S, NEW records \in Seq(S), NEW n \in 0 .. Len(records)
  PROVE  /\ SubSeq(records, 1, n) \in Seq(S) /\ Len(SubSeq(records, 1, n)) = n
         /\ \A i \in 1 .. n : SubSeq(records, 1, n)[i] = records[i]
  OBVIOUS

LEMMA WholePrefix ==
  ASSUME NEW S, NEW records \in Seq(S)
  PROVE  SubSeq(records, 1, Len(records)) = records /\ SubSeq(records, 1, 0) = <<>>
  OBVIOUS

LEMMA NoRecords ==
  ASSUME NEW S
  PROVE  /\ <<>> \in Seq(S) /\ Len(<<>>) = 0 /\ 1 .. Len(<<>>) = {}
         /\ \A n \in 0 .. Len(<<>>) : SubSeq(<<>>, 1, n) = <<>>
<1>1. <<>> \in Seq(S) /\ Len(<<>>) = 0
  OBVIOUS
<1>2. SubSeq(<<>>, 1, 0) = <<>>
  BY <1>1, WholePrefix
<1> QED BY <1>1, <1>2

LEMMA PrefixesMore ==
  ASSUME NEW S, NEW records \in Seq(S), NEW record \in S, NEW P, NEW Q, P \subseteq Q,
         NEW map, EachPrefixIn(P, map, records),
         Replay(map, Append(records, record)) \in Q
  PROVE  EachPrefixIn(Q, map, Append(records, record))
<1> DEFINE more == Append(records, record)
           N == Len(records)
<1>1. N \in Nat /\ Len(more) = N + 1 /\ more \in Seq(S)
  OBVIOUS
<1>2. ASSUME NEW n \in 0 .. N PROVE SubSeq(more, 1, n) = SubSeq(records, 1, n)
  <2>1. /\ SubSeq(records, 1, n) \in Seq(S) /\ Len(SubSeq(records, 1, n)) = n
        /\ \A i \in 1 .. n : SubSeq(records, 1, n)[i] = records[i]
    BY Prefix
  <2>2. /\ SubSeq(more, 1, n) \in Seq(S) /\ Len(SubSeq(more, 1, n)) = n
        /\ \A i \in 1 .. n : SubSeq(more, 1, n)[i] = more[i]
    <3>1. n \in 0 .. Len(more)
      BY <1>1
    <3> HIDE DEF more
    <3> QED BY <1>1, <3>1, Prefix
  <2>3. \A i \in 1 .. n : more[i] = records[i]
    OBVIOUS
  <2> HIDE DEF more
  <2> QED BY <2>1, <2>2, <2>3, SeqEqual
<1>3. SubSeq(more, 1, N + 1) = more
  BY <1>1, WholePrefix
<1> HIDE DEF more
<1> SUFFICES ASSUME NEW n \in 0 .. N + 1 PROVE Replay(map, SubSeq(more, 1, n)) \in Q
  BY <1>1 DEF EachPrefixIn, more
<1>4. CASE n \in 0 .. N
  BY <1>2, <1>4 DEF EachPrefixIn
<1>5. CASE n = N + 1
  BY <1>3, <1>5 DEF more
<1> QED BY <1>1, <1>4, <1>5

(* The history grows. *)
LEMMA OwnMore ==
  ASSUME NEW P, NEW Q, P \subseteq Q
  PROVE  /\ \A map : Own(P, map) => Own(Q, map)
         /\ \A r : OwnRecord(P, r) => OwnRecord(Q, r)
  BY DEF Own, OwnRecord, Had

-----------------------------------------------------------------------------
(* The actions. *)

LEMMA OperationKeeps ==
  ASSUME VaultAssumption, IInv, NEW r \in Record, NEW map \in Map, NEW differs \in BOOLEAN,
         Operation(map, differs), Journaled(r), now' \in 1 .. MaxTime,
         ~differs => map = Replayed(hash, r),
         r.op = "insert" => ValueOf(map[r.key]) = r.value
  PROVE  IInv'
<1> USE DEF Operation
<1>1. past \subseteq past' /\ map \in past' /\ hash' = map
  OBVIOUS
<1>2. log \in Seq(Record) /\ log' \in Seq(Record)
  BY DEF IInv, TypeOK, Journaled
<1>3. TypeOK'
  <2>1. changes' \in 0 .. MaxChanges
    BY DEF IInv, TypeOK, VaultAssumption
  <2>2. unsafe' \in BOOLEAN /\ past' \subseteq Map
    BY DEF IInv, TypeOK
  <2> QED BY <1>2, <2>1, <2>2 DEF IInv, TypeOK
<1>4. OwnOK'
  <2>1. Own(past', hash') /\ Own(past', file')
    <3>1. Own(past', map)
      BY <1>1 DEF Own, Had
    <3> QED BY <1>1, <3>1, OwnMore DEF IInv, OwnOK
  <2>2. \A i \in 1 .. Len(log) : OwnRecord(past', log[i])
    BY <1>1, OwnMore DEF IInv, OwnOK
  <2>3. OwnRecord(past', r)
    BY <1>1 DEF OwnRecord, Had
  <2>4. \A i \in 1 .. Len(log') : OwnRecord(past', log'[i])
    <3>1. CASE log' = log
      BY <2>2, <3>1
    <3>2. CASE log' = Append(log, r)
      <4>1. /\ Len(log') = Len(log) + 1 /\ log'[Len(log) + 1] = r
            /\ \A i \in 1 .. Len(log) : log'[i] = log[i]
        BY <1>2, <3>2
      <4>2. \A i \in 1 .. Len(log') : i \in 1 .. Len(log) \/ i = Len(log) + 1
        BY <1>2, <4>1
      <4> QED BY <2>2, <2>3, <4>1, <4>2
    <3> QED BY <3>1, <3>2 DEF Journaled
  <2> QED BY <2>1, <2>4 DEF OwnOK
<1>5. RecoverOK'
  <2> SUFFICES ASSUME ~unsafe' PROVE DiskOK' /\ (recovered' \/ SessionOK')
    BY DEF RecoverOK
  <2>1. /\ ~unsafe /\ map = Replayed(hash, r) /\ place = "open" /\ place' = "open"
        /\ file' = file /\ recovered' = recovered /\ journaling' = journaling
    OBVIOUS
  <2>2. DiskOK /\ (recovered \/ SessionOK)
    BY <2>1 DEF IInv, RecoverOK
  <2>3. Stale' \/ Settled'
    <3>1. CASE journaling
      <4>1. log' = Append(log, r) /\ Replay(hash, log) = hash /\ hash \in Map
        BY <2>1, <2>2, <3>1 DEF Journaled, DiskOK, Stale, Settled, IInv, TypeOK
      <4>2. Replay(map, log') = map
        BY <1>2, <2>1, <4>1, StaysSettled
      <4> QED BY <1>1, <4>2 DEF Settled
    <3>2. CASE ~journaling
      <4>1. log' = log
        BY <3>2 DEF Journaled
      <4>2. CASE log = <<>>
        BY <4>1, <4>2, ReplayNothing DEF Settled
      <4> QED BY <2>1, <3>2, <4>1, <4>2 DEF Stale
    <3> QED BY <3>1, <3>2
  <2>4. DiskOK'
    BY <1>1, <2>1, <2>2, <2>3 DEF DiskOK
  <2>5. ASSUME ~recovered PROVE SessionOK'
    <3>1. CASE journaling
      <4>1. /\ EachPrefixIn(past, file, log) /\ hash = Replay(file, log)
            /\ log' = Append(log, r)
        BY <2>1, <2>2, <2>5, <3>1 DEF SessionOK, Journaled
      <4>2. Replay(file, log') = map
        BY <1>2, <2>1, <4>1, ReplayMore
      <4>3. EachPrefixIn(past', file, log')
        BY <1>1, <1>2, <4>1, <4>2, PrefixesMore
      <4> QED BY <1>1, <2>1, <3>1, <4>2, <4>3 DEF SessionOK
    <3>2. CASE ~journaling
      <4>1. Replay(file, log) \in past /\ log' = log
        BY <2>1, <2>2, <2>5, <3>2 DEF SessionOK, Journaled
      <4> QED BY <1>1, <2>1, <3>2, <4>1 DEF SessionOK
    <3> QED BY <3>1, <3>2
  <2> QED BY <2>1, <2>4, <2>5
<1> QED BY <1>3, <1>4, <1>5 DEF IInv

(* A journaled operation, with its record.                                 *)
LEMMA InsertKeeps ==
  ASSUME VaultAssumption, IInv, NEW k \in Key, NEW v \in Value, NEW t \in Time,
         NEW stamp \in Time, NEW differs \in BOOLEAN, ~differs => t = stamp,
         Operation(Inserted(hash, k, v, t), differs), now' \in 1 .. MaxTime,
         Journaled([op |-> "insert", key |-> k, value |-> v, stamp |-> stamp])
  PROVE  IInv'
<1> DEFINE r == [op |-> "insert", key |-> k, value |-> v, stamp |-> stamp]
           map == Inserted(hash, k, v, t)
<1>1. hash \in Map
  BY DEF IInv, TypeOK
<1>2. map \in Map /\ ValueOf(map[k]) = v
  <2>1. LET m == Inserted(hash, k, v, t)
        IN  /\ m \in Map /\ m[k] = [value |-> v, stamp |-> t] /\ m[k] # None
            /\ ValueOf(m[k]) = v /\ \A j \in Key : j # k => m[j] = hash[j]
    BY <1>1, InsertedMap
  <2> QED BY <2>1
<1>3. r \in Record /\ r.op = "insert" /\ r.key = k /\ r.value = v /\ r.stamp = stamp
  BY DEF Record
<1>4. Replayed(hash, r) = Inserted(hash, k, v, stamp)
  BY DEF Replayed
<1>5. ~differs => map = Replayed(hash, r)
  BY <1>4
<1>6. Operation(map, differs) /\ Journaled(r)
  OBVIOUS
<1> HIDE DEF map, r
<1> QED BY <1>2, <1>3, <1>5, <1>6, OperationKeeps

LEMMA SetValueKeeps ==
  ASSUME VaultAssumption, IInv, NEW k \in Key, NEW v \in Value, SetValue(k, v)
  PROVE  IInv'
<1>1. now \in Time /\ now' \in Time /\ now' \in 1 .. MaxTime
  BY DEF SetValue, ClockGoesOn, Time, IInv, TypeOK, VaultAssumption
<1>2. /\ Operation(Inserted(hash, k, v, now'), now' # now)
      /\ Journaled([op |-> "insert", key |-> k, value |-> v, stamp |-> now])
  BY DEF SetValue
<1> QED BY <1>1, <1>2, InsertKeeps

LEMMA SetPermanentKeeps ==
  ASSUME VaultAssumption, IInv, NEW k \in Key, NEW v \in Value, SetPermanent(k, v)
  PROVE  IInv'
<1>1. 0 \in Time /\ now' \in 1 .. MaxTime
  BY DEF SetPermanent, Time, IInv, TypeOK, VaultAssumption
<1>2. /\ Operation(Inserted(hash, k, v, 0), FALSE)
      /\ Journaled([op |-> "insert", key |-> k, value |-> v, stamp |-> 0])
  BY DEF SetPermanent
<1> QED BY <1>1, <1>2, InsertKeeps

LEMMA RemoveKeeps ==
  ASSUME VaultAssumption, IInv, NEW k \in Key, Remove(k)
  PROVE  IInv'
<1> DEFINE r == [op |-> "remove", key |-> k]
           map == Removed(hash, k)
<1>1. hash \in Map /\ now' \in 1 .. MaxTime
  BY DEF Remove, IInv, TypeOK
<1>2. map \in Map
  BY <1>1, RemovedMap
<1>3. r \in Record /\ r.op = "remove"
  BY DEF Record
<1>4. Replayed(hash, r) = map
  BY DEF Replayed
<1>5. Operation(map, FALSE) /\ Journaled(r)
  BY DEF Remove
<1> HIDE DEF map, r
<1> QED BY <1>1, <1>2, <1>3, <1>4, <1>5, OperationKeeps

LEMMA ClearKeeps ==
  ASSUME VaultAssumption, IInv, Clear
  PROVE  IInv'
<1> DEFINE r == [op |-> "clear"]
<1>1. hash \in Map /\ now' \in 1 .. MaxTime
  BY DEF Clear, IInv, TypeOK
<1>2. NoEntries \in Map
  BY <1>1, NoneMap
<1>3. r \in Record /\ r.op = "clear"
  BY DEF Record
<1>4. Replayed(hash, r) = NoEntries
  BY DEF Replayed
<1>5. Operation(NoEntries, FALSE) /\ Journaled(r)
  BY DEF Clear
<1> HIDE DEF r
<1> QED BY <1>1, <1>2, <1>3, <1>4, <1>5, OperationKeeps

LEMMA PruneKeeps ==
  ASSUME VaultAssumption, IInv, NEW window \in Windows, Prune(window[1], window[2])
  PROVE  IInv'
<1> DEFINE start == window[1]
           end == window[2]
           r == [op |-> "prune", start |-> start, end |-> end]
           map == Pruned(hash, start, end)
<1>1. hash \in Map /\ now' \in 1 .. MaxTime /\ start \in Time /\ end \in Time
  BY DEF Prune, IInv, TypeOK, VaultAssumption, Time
<1> HIDE DEF start, end
<1>2. map \in Map
  BY <1>1, PrunedMap
<1>3. r \in Record /\ r.op = "prune"
  BY <1>1 DEF Record
<1>4. Replayed(hash, r) = map
  BY DEF Replayed
<1>5. Operation(map, FALSE) /\ Journaled(r)
  BY DEF Prune, start, end
<1> HIDE DEF map, r
<1> QED BY <1>1, <1>2, <1>3, <1>4, <1>5, OperationKeeps

(* A touch of an entry is not journaled: nothing is claimed after it but   *)
(* that the values are the vault's own.                                    *)
LEMMA TouchKeeps ==
  ASSUME VaultAssumption, IInv, NEW k \in Key, NEW stamp \in {-1} \cup Time, Touch(k, stamp)
  PROVE  IInv'
<1>1. hash \in Map /\ now \in 1 .. MaxTime /\ Empty \in Value
  BY DEF IInv, TypeOK, VaultAssumption
<1>2. TouchStamp(stamp) \in Time
  BY <1>1 DEF TouchStamp, Time, VaultAssumption
<1>3. CASE hash[k] = None
  <2>1. now' \in 1 .. MaxTime /\ now' \in Time
    BY <1>1, <1>3 DEF Touch, ClockGoesOn, Time, VaultAssumption
  <2>2. /\ Operation(Inserted(hash, k, Empty, TouchStamp(stamp)), TouchStamp(stamp) # now')
        /\ Journaled([op |-> "insert", key |-> k, value |-> Empty, stamp |-> now'])
    BY <1>3 DEF Touch
  <2> QED BY <1>1, <1>2, <2>1, <2>2, InsertKeeps
<1>4. CASE hash[k] # None
  <2> DEFINE map == [hash EXCEPT ![k].stamp = TouchStamp(stamp)]
  <2>1. /\ Operation(map, TRUE) /\ UNCHANGED <<log, now>>
    BY <1>4 DEF Touch
  <2>2. hash[k] \in Entry
    BY <1>1, <1>4 DEF Map
  <2>3. map \in Map
    BY <1>1, <1>2, <2>2 DEF Map, Entry
  <2> HIDE DEF map
  <2>4. TypeOK'
    BY <2>1, <2>3 DEF IInv, TypeOK, Operation, VaultAssumption
  <2>5. past \subseteq past' /\ map \in past' /\ hash' = map /\ file' = file /\ unsafe'
    BY <2>1 DEF Operation
  <2>6. Own(past', map)
    BY <2>5 DEF Own, Had
  <2>7. OwnOK'
    BY <2>1, <2>5, <2>6, OwnMore DEF IInv, OwnOK
  <2> QED BY <2>4, <2>5, <2>7 DEF IInv, RecoverOK
<1> QED BY <1>3, <1>4

LEMMA TickKeeps ==
  ASSUME IInv, Tick, VaultAssumption
  PROVE  IInv'
<1>1. TypeOK'
  BY DEF Tick, history, IInv, TypeOK, VaultAssumption
<1>2. OwnOK'
  BY DEF Tick, history, IInv, OwnOK
<1>3. RecoverOK'
  BY DEF Tick, history, IInv, RecoverOK, DiskOK, SessionOK, Settled, Stale
<1> QED BY <1>1, <1>2, <1>3 DEF IInv

LEMMA OpenKeeps ==
  ASSUME VaultAssumption, IInv, Open
  PROVE  IInv'
<1> USE DEF Open, history
<1>1. /\ hash \in Map /\ file \in Map /\ log \in Seq(Record) /\ Own(past, file)
      /\ \A i \in 1 .. Len(log) : OwnRecord(past, log[i])
  BY DEF IInv, TypeOK, OwnOK
<1>2. Replay(file, log) \in Map /\ Own(past, Replay(file, log))
  BY <1>1, ReplayTyped, ReplayOwn
<1>3. TypeOK'
  BY <1>2 DEF IInv, TypeOK, Places
<1>4. OwnOK'
  BY <1>1, <1>2 DEF OwnOK
<1>5. RecoverOK'
  BY DEF IInv, RecoverOK, DiskOK, SessionOK
<1> QED BY <1>3, <1>4, <1>5 DEF IInv

LEMMA OpenBeginKeeps ==
  ASSUME VaultAssumption, IInv, OpenBegin
  PROVE  IInv'
<1> USE DEF OpenBegin, history
<1>1. /\ log' = <<>> \/ (~journaling' /\ log' = log)
      /\ journaling' \in BOOLEAN
  OBVIOUS
<1>2. TypeOK'
  BY <1>1, NoRecords DEF IInv, TypeOK, Places
<1>3. OwnOK'
  BY <1>1, NoRecords DEF IInv, OwnOK
<1>4. RecoverOK'
  <2> SUFFICES ASSUME ~unsafe PROVE DiskOK' /\ (recovered \/ SessionOK')
    BY DEF RecoverOK
  <2>1. /\ file \in past /\ hash \in past /\ hash = Replay(file, log)
        /\ hash = file \/ recovered
    BY DEF IInv, RecoverOK, DiskOK
  <2>2. /\ Replay(hash, <<>>) = hash /\ Replay(file, <<>>) = file
        /\ EachPrefixIn(past, file, <<>>)
    BY <2>1, ReplayNothing, NoRecords DEF EachPrefixIn
  <2>3. Stale' \/ Settled'
    BY <1>1, <2>2 DEF Stale, Settled
  <2>4. DiskOK'
    BY <2>1, <2>3 DEF DiskOK
  <2>5. CASE ~recovered
    BY <1>1, <2>1, <2>2, <2>4, <2>5 DEF SessionOK
  <2> QED BY <2>4, <2>5
<1> QED BY <1>2, <1>3, <1>4 DEF IInv

LEMMA CloseKeeps ==
  ASSUME VaultAssumption, IInv, Close
  PROVE  IInv'
<1> USE DEF Close, history
<1>1. hash \in Map /\ NoEntries \in Map /\ \A k \in Key : NoEntries[k] = None
  BY NoneMap DEF IInv, TypeOK
<1>2. file' = file \/ file' = NoEntries
  OBVIOUS
<1>3. TypeOK'
  BY <1>1, <1>2 DEF IInv, TypeOK, Places
<1>4. OwnOK'
  BY <1>1, <1>2 DEF IInv, OwnOK, Own
<1>5. RecoverOK'
  BY DEF IInv, RecoverOK, DiskOK, SessionOK, Settled, Stale
<1> QED BY <1>3, <1>4, <1>5 DEF IInv

(* What is left of a file that is cut short.                               *)
LEMMA PartsOwn ==
  ASSUME NEW P, NEW map \in Map, Own(P, map), NEW part \in Parts(map)
  PROVE  part \in Map /\ Own(P, part)
<1>1. PICK kept \in SUBSET Key : part = [k \in Key |-> IF k \in kept THEN map[k] ELSE None]
  BY DEF Parts
<1>2. part \in Map
  BY <1>1 DEF Map
<1>3. \A k \in Key : part[k] = map[k] \/ part[k] = None
  BY <1>1
<1> QED BY <1>2, <1>3 DEF Own

LEMMA CloseSavedKeeps ==
  ASSUME VaultAssumption, IInv, CloseSaved
  PROVE  IInv'
<1> USE DEF CloseSaved
<1>1. hash \in Map /\ file \in Map /\ Own(past, hash) /\ Own(past, file)
  BY DEF IInv, TypeOK, OwnOK
<1>2. file' \in {file, hash} \cup Parts(hash)
  OBVIOUS
<1>3. file' \in Map /\ Own(past, file')
  BY <1>1, <1>2, PartsOwn
<1>4. TypeOK'
  BY <1>3 DEF IInv, TypeOK, Places
<1>5. OwnOK'
  BY <1>3 DEF IInv, OwnOK
<1>6. RecoverOK'
  BY DEF IInv, RecoverOK, DiskOK, SessionOK, Settled, Stale
<1> QED BY <1>4, <1>5, <1>6 DEF IInv

LEMMA CloseEndedKeeps ==
  ASSUME VaultAssumption, IInv, CloseEnded
  PROVE  IInv'
<1> USE DEF CloseEnded, history
<1>1. TypeOK'
  BY DEF IInv, TypeOK, Places
<1>2. OwnOK'
  BY DEF IInv, OwnOK
<1>3. RecoverOK'
  BY DEF IInv, RecoverOK, DiskOK, SessionOK, Settled, Stale
<1> QED BY <1>1, <1>2, <1>3 DEF IInv

LEMMA CloseErasedKeeps ==
  ASSUME VaultAssumption, IInv, CloseErased
  PROVE  IInv'
<1>0. 0 \in 0 .. MaxChanges
  BY DEF VaultAssumption
<1> USE DEF CloseErased, history
<1>1. /\ hash \in Map /\ NoEntries \in Map /\ \A k \in Key : NoEntries[k] = None
      /\ Replay(file, <<>>) = file
  BY NoneMap, ReplayNothing DEF IInv, TypeOK
<1>2. log' = log \/ log' = <<>>
  OBVIOUS
<1>3. CASE file = hash /\ log' = <<>>
  <2>1. past' = {hash} /\ changes' = 0 /\ unsafe' = FALSE
    BY <1>3 DEF Saved
  <2>2. TypeOK'
    <3>1. changes' \in 0 .. MaxChanges
      BY <1>0, <2>1, Zenon
    <3>2. log' \in Seq(Record)
      BY <1>3, NoRecords
    <3>3. past' \subseteq Map /\ unsafe' \in BOOLEAN /\ place' \in Places
      BY <1>1, <2>1 DEF Places
    <3>4. now' \in 1 .. MaxTime /\ file' \in Map /\ hash' \in Map
      BY <1>1 DEF IInv, TypeOK
    <3>5. journaling' \in BOOLEAN /\ recovered' \in BOOLEAN
      BY DEF IInv, TypeOK
    <3> QED BY <3>1, <3>2, <3>3, <3>4, <3>5 DEF TypeOK
  <2>3. OwnOK'
    BY <1>1, <1>3, <2>1, NoRecords DEF OwnOK, Own, Had
  <2>4. RecoverOK'
    BY <1>1, <1>3, <2>1 DEF RecoverOK, DiskOK, SessionOK
  <2> QED BY <2>2, <2>3, <2>4 DEF IInv
<1>4. CASE ~(file = hash /\ log' = <<>>)
  <2>1. UNCHANGED history
    BY <1>4 DEF Saved
  <2>2. TypeOK'
    BY <1>1, <1>2, <2>1, NoRecords DEF IInv, TypeOK, Places
  <2>3. OwnOK'
    BY <1>1, <1>2, <2>1, NoRecords DEF IInv, OwnOK, Own
  <2>4. RecoverOK'
    <3> SUFFICES ASSUME ~unsafe PROVE DiskOK' /\ SessionOK'
      BY <2>1 DEF RecoverOK
    <3>1. file = hash /\ Replay(hash, log) = hash /\ hash \in past
      BY DEF IInv, RecoverOK, DiskOK, Settled
    <3>2. log' = log
      BY <1>2, <1>4, <3>1
    <3> QED BY <2>1, <3>1, <3>2 DEF DiskOK, SessionOK
  <2> QED BY <2>2, <2>3, <2>4 DEF IInv
<1> QED BY <1>3, <1>4

(* What a crash leaves of the journal. *)
LEMMA FlushedOwn ==
  ASSUME NEW P, log \in Seq(Record), NEW left \in Flushed,
         \A i \in 1 .. Len(log) : OwnRecord(P, log[i])
  PROVE  left \in Seq(Record) /\ \A i \in 1 .. Len(left) : OwnRecord(P, left[i])
<1>1. CASE ~journaling
  BY <1>1 DEF Flushed
<1>2. CASE journaling
  <2>1. PICK n \in 0 .. Len(log) : left = SubSeq(log, 1, n)
    BY <1>2 DEF Flushed, Prefixes
  <2>2. left \in Seq(Record) /\ Len(left) = n /\ \A i \in 1 .. n : left[i] = log[i]
    BY <2>1, Prefix
  <2>3. \A i \in 1 .. n : i \in 1 .. Len(log)
    OBVIOUS
  <2> QED BY <2>2, <2>3
<1> QED BY <1>1, <1>2

LEMMA CrashKeeps ==
  ASSUME VaultAssumption, IInv, Crash
  PROVE  IInv'
<1> USE DEF Crash, CrashAt
<1>1. /\ hash \in Map /\ NoEntries \in Map /\ \A k \in Key : NoEntries[k] = None
      /\ log \in Seq(Record) /\ \A i \in 1 .. Len(log) : OwnRecord(past, log[i])
  BY NoneMap DEF IInv, TypeOK, OwnOK
<1>2. log' \in Seq(Record) /\ \A i \in 1 .. Len(log') : OwnRecord(past, log'[i])
  BY <1>1, FlushedOwn
<1>3. TypeOK'
  BY <1>1, <1>2 DEF IInv, TypeOK, Places
<1>4. OwnOK'
  BY <1>1, <1>2 DEF IInv, OwnOK, Own
<1>5. RecoverOK'
  <2> SUFFICES ASSUME ~unsafe' PROVE DiskOK' /\ (recovered' \/ SessionOK')
    BY DEF RecoverOK
  <2>1. ~unsafe /\ ~recovered /\ place = "open" /\ place' = "closed"
    OBVIOUS
  <2>2. /\ file \in past
        /\ IF journaling THEN EachPrefixIn(past, file, log) ELSE Replay(file, log) \in past
    BY <2>1 DEF IInv, RecoverOK, DiskOK, SessionOK
  <2>3. Replay(file, log') \in past
    BY <2>2 DEF EachPrefixIn, Flushed, Prefixes
  <2> QED BY <2>1, <2>2, <2>3 DEF DiskOK, SessionOK
<1> QED BY <1>3, <1>4, <1>5 DEF IInv

LEMMA CrashInSaveKeeps ==
  ASSUME VaultAssumption, IInv, CrashInSave
  PROVE  IInv'
<1> USE DEF CrashInSave, CrashAt
<1>1. /\ hash \in Map /\ file \in Map /\ Own(past, hash) /\ Own(past, file)
      /\ log \in Seq(Record) /\ \A i \in 1 .. Len(log) : OwnRecord(past, log[i])
  BY DEF IInv, TypeOK, OwnOK
<1>2. NoEntries \in Map /\ \A k \in Key : NoEntries[k] = None
  BY NoneMap
<1>3. log' \in Seq(Record) /\ \A i \in 1 .. Len(log') : OwnRecord(past, log'[i])
  BY <1>1, FlushedOwn
<1>4. file' \in Map /\ Own(past, file')
  BY <1>1, PartsOwn
<1>5. TypeOK'
  BY <1>2, <1>3, <1>4 DEF IInv, TypeOK, Places
<1>6. OwnOK'
  BY <1>2, <1>3, <1>4 DEF IInv, OwnOK, Own
<1> QED BY <1>5, <1>6 DEF IInv, RecoverOK

LEMMA CrashInCloseKeeps ==
  ASSUME VaultAssumption, IInv, CrashInClose
  PROVE  IInv'
<1> USE DEF CrashInClose, CrashAt
<1>1. hash \in Map /\ NoEntries \in Map /\ \A k \in Key : NoEntries[k] = None
  BY NoneMap DEF IInv, TypeOK
<1>2. TypeOK'
  BY <1>1 DEF IInv, TypeOK, Places
<1>3. OwnOK'
  BY <1>1 DEF IInv, OwnOK, Own
<1>4. RecoverOK'
  BY DEF IInv, RecoverOK, DiskOK, SessionOK, Settled, Stale
<1> QED BY <1>2, <1>3, <1>4 DEF IInv

-----------------------------------------------------------------------------
LEMMA InitIInv ==
  ASSUME VaultAssumption, Init
  PROVE  IInv
<1> USE DEF Init
<1>1. NoEntries \in Map /\ \A k \in Key : NoEntries[k] = None
  BY DEF NoEntries, Map
<1>2. Replay(NoEntries, <<>>) = NoEntries
  BY ReplayNothing
<1>3. TypeOK
  <2>1. now \in 1 .. MaxTime /\ changes \in 0 .. MaxChanges
    BY DEF VaultAssumption
  <2>2. log \in Seq(Record)
    BY NoRecords
  <2>3. past \subseteq Map /\ place \in Places
    BY <1>1 DEF Places
  <2> QED BY <1>1, <2>1, <2>2, <2>3 DEF TypeOK
<1>4. OwnOK
  BY <1>1, NoRecords DEF OwnOK, Own
<1>5. RecoverOK
  BY <1>2 DEF RecoverOK, DiskOK, SessionOK
<1> QED BY <1>3, <1>4, <1>5 DEF IInv

LEMMA NextIInv ==
  ASSUME VaultAssumption, IInv, [Next]_vars
  PROVE  IInv'
<1>1. CASE Natives
  BY <1>1, SetValueKeeps, SetPermanentKeeps, RemoveKeeps, TouchKeeps, PruneKeeps, ClearKeeps
     DEF Natives
<1>2. CASE Tick \/ Open \/ OpenBegin
  BY <1>2, TickKeeps, OpenKeeps, OpenBeginKeeps
<1>3. CASE Close \/ CloseSaved \/ CloseEnded \/ CloseErased
  BY <1>3, CloseKeeps, CloseSavedKeeps, CloseEndedKeeps, CloseErasedKeeps
<1>4. CASE Crash \/ CrashInSave \/ CrashInClose
  BY <1>4, CrashKeeps, CrashInSaveKeeps, CrashInCloseKeeps
<1>5. CASE UNCHANGED vars
  BY <1>5 DEF vars, IInv, TypeOK, OwnOK, RecoverOK, DiskOK, SessionOK, Settled, Stale
<1> QED BY <1>1, <1>2, <1>3, <1>4, <1>5 DEF Next

LEMMA Invariant == Spec => []IInv
<1>1. Init => IInv
  BY VaultAssumption, InitIInv
<1>2. IInv /\ [Next]_vars => IInv'
  BY VaultAssumption, NextIInv
<1> QED BY <1>1, <1>2, PTL DEF Spec

(* Every reachable state is well typed; in particular what Open() makes of *)
(* any file and any journal that a crash may leave is a map of entries.    *)
THEOREM TypeCorrect == Spec => []TypeOK
<1>1. IInv => TypeOK
  BY DEF IInv
<1> QED BY <1>1, Invariant, PTL

(* Whatever crashes, failing saves, missing and stale journals there were, *)
(* a key has no value that it has not had since the vault was last closed  *)
(* well.                                                                   *)
THEOREM OwnValues == Spec => []NoForeignValue
<1>1. IInv => NoForeignValue
  BY DEF IInv, OwnOK, Own, Had, NoForeignValue
<1> QED BY <1>1, Invariant, PTL

(* Where nothing has happened that the journal is no help for, Open()      *)
(* brings the vault back to a content it has had since it was last closed  *)
(* well: for journals of any length, of which a crash left any prefix, and *)
(* also if the journal was left beside a file that has its effects.        *)
THEOREM Recovers == Spec => []RecoversPrefix
<1>1. IInv => RecoversPrefix
  BY DEF IInv, RecoverOK, DiskOK, RecoversPrefix
<1> QED BY <1>1, Invariant, PTL

(* A crash that finds the whole journal flushed, or that comes before the  *)
(* journal beside a saved file is erased, loses nothing, and neither does  *)
(* an erasing that fails: for journals of any length, although the file    *)
(* may have the effects of the journal already.                            *)
THEOREM Kept == Spec => []FlushedIsKept
<1>1. IInv => FlushedIsKept
  BY DEF IInv, RecoverOK, DiskOK, SessionOK, Settled, FlushedIsKept
<1> QED BY <1>1, Invariant, PTL
=============================================================================
