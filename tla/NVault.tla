------------------------------- MODULE NVault -------------------------------
(***************************************************************************)
(* One vault of the nVault module (NVault.cpp, Journal.cpp): a map in      *)
(* memory, the file it is read from and saved to, and the journal that     *)
(* Open() replays.  A step is what happens between two effects on the      *)
(* disk, so that the server may crash between any two of them.             *)
(*                                                                         *)
(* The journal is written through stdio: a crash keeps a prefix of it, and *)
(* Replay() stops at a record that is cut short.                           *)
(***************************************************************************)
EXTENDS Integers, Sequences

CONSTANTS
  Key, Value,
  Empty,      \* the value "", which nvault_touch() creates
  None,       \* no entry
  MaxTime,    \* bound on the clock
  MaxChanges, \* bound on the operations between two saves
  Windows,    \* the bounds <<start, end>> of the prunes
  Events      \* what may happen, of AllEvents

AllEvents ==
  {"crash",          \* the server ends while the vault is open
   "crash again",    \*   also in a session that began with a recovery
   "crash in save",  \*   also while Close() saves the file
   "crash in close", \*   also before Close() has erased the journal
   "touch",          \* nvault_touch() is used
   "tick",           \* the clock advances inside an operation
   "save fails",     \* the file cannot be written
   "no journal",     \* the journal cannot be created
   "unlink fails"}   \* the journal cannot be erased

ASSUME VaultAssumption ==
  /\ Empty \in Value
  /\ None \notin [value : Value, stamp : 0 .. MaxTime]
  /\ MaxTime \in Nat \ {0} /\ MaxChanges \in Nat
  /\ Windows \subseteq (0 .. MaxTime) \X (0 .. MaxTime)
  /\ Events \subseteq AllEvents

VARIABLES
  place,      \* where the vault is between closed and open
  hash,       \* m_Hash
  file,       \* what _ReadFromFile() gets from the vault's file
  log,        \* the records of the journal's file
  journaling, \* m_Journal is not NULL
  now,        \* time(NULL)
  recovered,  \* Open() found in the journal what the file does not have
  past,       \* the contents the vault has had since it was last closed well
  changes,    \* the operations since then
  unsafe      \* since then, something happened that the journal is no help for

vars == <<place, hash, file, log, journaling, now, recovered, past, changes, unsafe>>
history == <<past, changes, unsafe>>

Time == 0 .. MaxTime
Entry == [value : Value, stamp : Time]
Map == [Key -> Entry \cup {None}]
NoEntries == [k \in Key |-> None]

(* What the journal records, by JOp.                                       *)
Record == [op : {"insert"}, key : Key, value : Value, stamp : Time]
          \cup [op : {"remove"}, key : Key]
          \cup [op : {"prune"}, start : Time, end : Time]
          \cup [op : {"clear"}]

Places == {"closed", "replayed", "open", "truncated", "saved", "ended"}

Init ==
  /\ place = "closed"
  /\ hash = NoEntries /\ file = NoEntries
  /\ log = <<>> /\ journaling = FALSE
  /\ now = 1
  /\ recovered = FALSE /\ past = {NoEntries} /\ changes = 0 /\ unsafe = FALSE

-----------------------------------------------------------------------------
(* The operations on the map, in memory and in Replay(). *)

(* An entry with stamp 0 is permanent; a bound of 0 is no bound.           *)
InWindow(stamp, start, end) ==
  /\ stamp # 0
  /\ start = 0 \/ stamp > start
  /\ end = 0 \/ stamp < end

Inserted(map, k, v, stamp) == [map EXCEPT ![k] = [value |-> v, stamp |-> stamp]]
Removed(map, k) == [map EXCEPT ![k] = None]
Pruned(map, start, end) ==
  [k \in Key |-> IF map[k] # None /\ InWindow(map[k].stamp, start, end)
                 THEN None ELSE map[k]]

(* Mutant: a removal is replayed as an empty value. *)
ReplayedEmpties(map, record) ==
  CASE record.op = "insert" -> Inserted(map, record.key, record.value, record.stamp)
    [] record.op = "remove" -> Inserted(map, record.key, Empty, 0)
    [] record.op = "prune"  -> Pruned(map, record.start, record.end)
    [] record.op = "clear"  -> NoEntries

Replayed(map, record) ==
  CASE record.op = "insert" -> Inserted(map, record.key, record.value, record.stamp)
    [] record.op = "remove" -> Removed(map, record.key)
    [] record.op = "prune"  -> Pruned(map, record.start, record.end)
    [] record.op = "clear"  -> NoEntries

(* after[n]: the map when n records have been read. *)
Replay(map, records) ==
  LET after[n \in 0 .. Len(records)] ==
        IF n = 0 THEN map ELSE Replayed(after[n - 1], records[n])
  IN  after[Len(records)]

-----------------------------------------------------------------------------
(* Open(): the file is read and the journal replayed, then the journal is  *)
(* erased, or so it is hoped, and a new one begun over it.  The file is    *)
(* not saved.                                                              *)
Open ==
  /\ place = "closed"
  /\ hash' = Replay(file, log)
  /\ recovered' = (hash' # file)
  /\ place' = "replayed"
  /\ UNCHANGED <<file, log, journaling, now, history>>

OpenBegin ==
  /\ place = "replayed"
  /\ journaling' \in IF "no journal" \in Events THEN BOOLEAN ELSE {TRUE}
  /\ \E erased \in IF "unlink fails" \in Events THEN BOOLEAN ELSE {TRUE} :
       log' = IF erased \/ journaling' THEN <<>> ELSE log
  /\ place' = "open"
  /\ UNCHANGED <<hash, file, now, recovered, history>>

(* A journal that could be neither erased nor begun anew: its records are  *)
(* those of an earlier session.                                            *)
Stale == ~journaling /\ log # <<>>

(* The record of an operation, when there is a journal. *)
Journaled(record) ==
  log' = IF journaling THEN Append(log, record) ELSE log

(* An operation leaves this map in memory, and nothing in the file; the    *)
(* journal would give another map.                                         *)
Operation(map, differs) ==
  /\ place = "open"
  /\ changes < MaxChanges /\ changes' = changes + 1
  /\ hash' = map
  /\ past' = past \cup {map}
  /\ unsafe' = (unsafe \/ differs)
  /\ UNCHANGED <<place, file, journaling, recovered>>

(* Between two calls of time(). *)
ClockGoesOn == now' \in IF "tick" \in Events THEN now .. MaxTime ELSE {now}

(* The time is asked for twice, for the journal and for the map. *)
SetValue(k, v) ==
  /\ ClockGoesOn
  /\ Operation(Inserted(hash, k, v, now'), now' # now)
  /\ Journaled([op |-> "insert", key |-> k, value |-> v, stamp |-> now])

(* Mutant: a permanent entry is journaled with the time. *)
SetPermanentDated(k, v) ==
  /\ Operation(Inserted(hash, k, v, 0), FALSE)
  /\ Journaled([op |-> "insert", key |-> k, value |-> v, stamp |-> now])
  /\ UNCHANGED now

SetPermanent(k, v) ==
  /\ Operation(Inserted(hash, k, v, 0), FALSE)
  /\ Journaled([op |-> "insert", key |-> k, value |-> v, stamp |-> 0])
  /\ UNCHANGED now

Remove(k) ==
  /\ Operation(Removed(hash, k), FALSE)
  /\ Journaled([op |-> "remove", key |-> k])
  /\ UNCHANGED now

(* Mutant: clearing the vault is not journaled. *)
ClearQuietly ==
  /\ Operation(NoEntries, FALSE)
  /\ UNCHANGED <<log, now>>

Clear ==
  /\ Operation(NoEntries, FALSE)
  /\ Journaled([op |-> "clear"])
  /\ UNCHANGED now

Prune(start, end) ==
  /\ Operation(Pruned(hash, start, end), FALSE)
  /\ Journaled([op |-> "prune", start |-> start, end |-> end])
  /\ UNCHANGED now

(* Mutant: the native hands on the -1 that stands for now. *)
TouchStampRaw(stamp) == stamp

TouchStamp(stamp) == IF stamp = -1 THEN now ELSE stamp

(* Only the entry that Touch() creates is journaled, and with the time at  *)
(* which it does.                                                          *)
Touch(k, stamp) ==
  /\ "touch" \in Events
  /\ IF hash[k] = None
     THEN /\ ClockGoesOn
          /\ Operation(Inserted(hash, k, Empty, TouchStamp(stamp)), TouchStamp(stamp) # now')
          /\ Journaled([op |-> "insert", key |-> k, value |-> Empty, stamp |-> now'])
     ELSE /\ Operation([hash EXCEPT ![k].stamp = TouchStamp(stamp)], TRUE)
          /\ UNCHANGED <<log, now>>

(* Time passes. *)
Tick ==
  /\ place = "open" /\ now < MaxTime
  /\ now' = now + 1
  /\ UNCHANGED <<place, hash, file, log, journaling, recovered, history>>

-----------------------------------------------------------------------------
(* Close(), or the deletion of an open vault.  What _SaveToFile() and the  *)
(* calls on the journal return is not looked at.                           *)

(* The maps of which a file that is cut short, in any order, holds part.   *)
Parts(map) == {[k \in Key |-> IF k \in kept THEN map[k] ELSE None] : kept \in SUBSET Key}

(* _SaveToFile() empties the file ... *)
Close ==
  /\ place = "open"
  /\ file' \in IF "save fails" \in Events THEN {file, NoEntries} ELSE {NoEntries}
  /\ place' = "truncated"
  /\ UNCHANGED <<hash, log, journaling, now, recovered, history>>

(* ... and writes it, unless it could not be opened or the disk is full.   *)
(* A stale journal is no help for what has been saved.                     *)
CloseSaved ==
  /\ place = "truncated"
  /\ file' \in IF "save fails" \in Events THEN {file} \cup Parts(hash) ELSE {hash}
  /\ place' = "saved"
  /\ unsafe' = (unsafe \/ file' # hash \/ Stale)
  /\ UNCHANGED <<hash, log, journaling, now, recovered, past, changes>>

CloseEnded ==
  /\ place = "saved"
  /\ place' = "ended"
  /\ UNCHANGED <<hash, file, log, journaling, now, recovered, history>>

(* Where the history begins anew: the file holds all of the vault and no   *)
(* journal is left beside it.                                              *)
Saved ==
  IF file = hash /\ log' = <<>>
  THEN past' = {hash} /\ changes' = 0 /\ unsafe' = FALSE
  ELSE UNCHANGED history

(* Only a journal that was begun is erased. *)
CloseErased ==
  /\ place = "ended"
  /\ log' \in IF ~journaling THEN {log}
              ELSE IF "unlink fails" \in Events THEN {<<>>, log} ELSE {<<>>}
  /\ hash' = NoEntries /\ journaling' = FALSE
  /\ Saved
  /\ place' = "closed"
  /\ UNCHANGED <<file, now, recovered>>

-----------------------------------------------------------------------------
(* The server ends.  What was written to the journal and not yet flushed   *)
(* is lost, at any byte.                                                   *)
Prefixes(records) == {SubSeq(records, 1, n) : n \in 0 .. Len(records)}
Flushed == IF journaling THEN Prefixes(log) ELSE {log}

CrashAt(places, saving) ==
  /\ place \in places
  /\ recovered => "crash again" \in Events
  /\ place' = "closed"
  /\ hash' = NoEntries /\ journaling' = FALSE
  /\ unsafe' = (unsafe \/ recovered \/ saving)
  /\ UNCHANGED <<now, recovered, past, changes>>

Crash ==
  /\ "crash" \in Events
  /\ CrashAt({"open"}, FALSE)
  /\ log' \in Flushed
  /\ UNCHANGED file

CrashInSave ==
  /\ "crash in save" \in Events
  /\ CrashAt({"truncated", "saved"}, TRUE)
  /\ log' \in Flushed
  /\ file' \in IF place = "truncated" THEN Parts(hash) ELSE {file}

CrashInClose ==
  /\ "crash in close" \in Events
  /\ CrashAt({"ended", "replayed"}, FALSE)
  /\ UNCHANGED <<file, log>>

-----------------------------------------------------------------------------
Natives ==
  \/ \E k \in Key, v \in Value : SetValue(k, v) \/ SetPermanent(k, v)
  \/ \E k \in Key : Remove(k)
  \/ \E k \in Key, stamp \in {-1} \cup Time : Touch(k, stamp)
  \/ \E window \in Windows : Prune(window[1], window[2])
  \/ Clear

Next ==
  \/ Open \/ OpenBegin
  \/ Natives \/ Tick
  \/ Close \/ CloseSaved \/ CloseEnded \/ CloseErased
  \/ Crash \/ CrashInSave \/ CrashInClose

Spec == Init /\ [][Next]_vars

-----------------------------------------------------------------------------
(* Type invariant. *)
TypeOK ==
  /\ place \in Places
  /\ hash \in Map /\ file \in Map
  /\ log \in Seq(Record)
  /\ journaling \in BOOLEAN /\ recovered \in BOOLEAN
  /\ now \in 1 .. MaxTime
  /\ past \subseteq Map /\ changes \in 0 .. MaxChanges /\ unsafe \in BOOLEAN

(* What Open() finds is a content that the vault has had since it was last *)
(* closed well, saved and its journal erased, entries and times alike, if  *)
(* since then no session crashed that had begun with a recovery, no save   *)
(* was interrupted or failed or was made beside a stale journal, the clock *)
(* did not advance inside an operation and no entry was touched.           *)
RecoversPrefix == place = "replayed" /\ ~unsafe => hash \in past

ValueOf(entry) == IF entry = None THEN None ELSE entry.value

(* Whatever crashes and failures there were, a key has no value that is    *)
(* older than the last time the vault was closed well, and none that it    *)
(* never had.                                                              *)
NoForeignValue ==
  \A k \in Key :
    hash[k] # None => \E map \in past : ValueOf(map[k]) = ValueOf(hash[k])

(* With the same exceptions: a crash that comes when all of the journal    *)
(* has been flushed loses nothing, and neither does a journal that is left *)
(* beside the saved file, replayed by the next Open() over a file that has *)
(* its effects already.                                                    *)
FlushedIsKept ==
  /\ ~unsafe
  /\ \/ place = "open" /\ journaling /\ ~recovered
     \/ place \in {"saved", "ended"}
  => Replay(file, log) = hash

-----------------------------------------------------------------------------
(* What NVault.h says of open: the journal is restored, so that what was   *)
(* recovered is not lost again.                                            *)
Restores == place = "replayed" => hash \in past

=============================================================================
