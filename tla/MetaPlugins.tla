---------------------------- MODULE MetaPlugins ----------------------------
(***************************************************************************)
(* The plugin manager of Metamod: the list of plugins (mlist.cpp), the     *)
(* life of each plugin (mplugin.cpp), the console commands that act on it  *)
(* (commands_meta.cpp), the requests of other plugins (mutil.cpp) and the  *)
(* refresh at a changelevel (dllapi.cpp).                                  *)
(*                                                                         *)
(* The game runs all of this on one thread.  An operation on one plugin is *)
(* one action; the loops of load() and refresh() take one step per line of *)
(* plugins.ini and one per slot of the list, because a plugin that the     *)
(* loop has just loaded runs its GameInit and may there load or unload     *)
(* other plugins before the loop goes on.                                  *)
(***************************************************************************)
EXTENDS Integers, Sequences

CONSTANTS
  Path,         \* pathnames of plugin files
  Family,       \* Family[p]: the plugin p is a build of, as platform_match() tells
  PfSpecific,   \* PfSpecific[p]: platform affinity of p's line in plugins.ini
  Build,        \* plugin libraries, as they answer Meta_Query
  Contents,     \* Contents[p]: what the file p may hold, a build or NoFile
  IniFiles,     \* contents plugins.ini may have, as sequences of paths
  MaxPlugins,   \* size of the list
  NoFile, NoPath, NoInfo

(* PLUG_STATUS: the order is significant. *)
PL_EMPTY == 0
PL_VALID == 1
PL_BADFILE == 2
PL_OPENED == 3
PL_FAILED == 4
PL_RUNNING == 5
PL_PAUSED == 6

(* PLUG_LOADTIME: the order is significant. *)
PT_NEVER == 0
PT_STARTUP == 1
PT_CHANGELEVEL == 2
PT_ANYTIME == 3
PT_ANYPAUSE == 4

Slot == 1 .. MaxPlugins
Times == PT_NEVER .. PT_ANYPAUSE

(* A build answers Meta_Query (valid) with the times it may be loaded and  *)
(* unloaded.                                                               *)
ASSUME PathAssumption ==
  /\ Family \in [Path -> Path]
  /\ PfSpecific \in [Path -> 0 .. 1]
  /\ NoPath \notin Path
ASSUME BuildAssumption ==
  /\ Build \subseteq [valid : BOOLEAN, loadable : Times, unloadable : Times]
  /\ NoFile \notin Build
  /\ NoInfo \notin Build
  /\ Contents \in [Path -> SUBSET (Build \cup {NoFile})]
ASSUME ListAssumption ==
  /\ MaxPlugins \in Nat \ {0}
  /\ IniFiles \subseteq Seq(Path) \cup {NoFile}
  /\ NoFile \notin Seq(Path)

VARIABLES
  plist,     \* [Slot -> Plugin]
  endlist,   \* slots 1..endlist are in use, or were
  inifile,   \* "full" once the name of plugins.ini is a full path
  ini,       \* plugins.ini on disk
  disk,      \* plugin files on disk
  phase,     \* which loop of the manager is running
  pos,       \* its position: a line of plugins.ini or a slot
  nread,     \* lines accepted by the loop over plugins.ini
  now,       \* PLUG_LOADTIME of the refresh that is running
  caller     \* slot of the plugin whose GameInit the refresh has just called, or 0

vars == <<plist, endlist, inifile, ini, disk, phase, pos, nread, now, caller>>
loopvars == <<phase, pos, nread, now, caller>>

Actions == {"NULL", "NONE", "KEEP", "LOAD", "UNLOAD", "RELOAD"}
Sources == {"INI", "CMD", "PLUGIN"}
Phases == {"boot ini", "boot load", "idle", "ini", "slots"}

(* loaded is time_loaded as newer_file() sees it: "never" is 0, "fresh" is *)
(* at or after the file's change and "stale" before it.                    *)
Plugin == [status : PL_EMPTY .. PL_PAUSED,
           action : Actions,
           source : Sources,
           path   : Path \cup {NoPath},
           handle : BOOLEAN,
           info   : Build \cup {NoInfo},
           loaded : {"never", "fresh", "stale"},
           parent : -1 .. MaxPlugins,
           pf     : 0 .. 1]

Live(pl) == pl.status >= PL_VALID
Running(pl) == pl.status >= PL_RUNNING

-----------------------------------------------------------------------------
(* Operations on one plugin, as functions from the plugin to what it       *)
(* becomes.  att and det tell whether Meta_Attach and Meta_Detach succeed. *)

(* memset(plugin, 0): the index of a slot is its place in plist. *)
Wiped == [status |-> PL_EMPTY, action |-> "NULL", source |-> "INI",
          path |-> NoPath, handle |-> FALSE, info |-> NoInfo,
          loaded |-> "never", parent |-> 0, pf |-> 0]

(* clear() when it may clear: the text fields are never read again. *)
Cleared(pl) == [Wiped EXCEPT !.pf = pl.pf]

MayClear(pl) == pl.status \in {PL_FAILED, PL_BADFILE, PL_EMPTY, PL_OPENED}

(* Mutant: a failed query leaves the information of the closed library. *)
QueriedKeepsInfo(pl) ==
  IF disk[pl.path] \in {b \in Build : b.valid}
  THEN [pl EXCEPT !.status = PL_OPENED, !.handle = TRUE, !.info = disk[pl.path]]
  ELSE [pl EXCEPT !.status = PL_BADFILE, !.handle = FALSE]

Queried(pl) ==
  IF disk[pl.path] \in {b \in Build : b.valid}
  THEN [pl EXCEPT !.status = PL_OPENED, !.handle = TRUE, !.info = disk[pl.path]]
  ELSE [pl EXCEPT !.status = PL_BADFILE, !.handle = FALSE, !.info = NoInfo]

(* Mutant: the plugin stays marked to be loaded. *)
AttachedStillMarked(pl, when, att) ==
  IF pl.info.loadable < when \/ ~att
  THEN pl
  ELSE [pl EXCEPT !.status = PL_RUNNING, !.loaded = "fresh"]

Attached(pl, when, att) ==
  IF pl.info.loadable < when
  THEN IF pl.info.loadable > PT_STARTUP THEN pl            \* ME_DELAYED
                                        ELSE [pl EXCEPT !.action = "NONE"]
  ELSE IF att
       THEN [pl EXCEPT !.status = PL_RUNNING, !.action = "NONE",
                       !.loaded = "fresh"]
       ELSE [pl EXCEPT !.status = PL_FAILED]

Load(pl, when, att) ==
  IF ~Live(pl) \/ Running(pl) \/ pl.action # "LOAD"
  THEN pl
  ELSE LET q == IF pl.status < PL_OPENED THEN Queried(pl) ELSE pl
       IN  IF q.status = PL_BADFILE THEN q ELSE Attached(q, when, att)

Forced(reason) == reason \in {"CMD_FORCED", "RELOAD"}

(* unload() past its first checks: the plugin is marked for it. *)
UnloadAsked(pl, reason) ==
  /\ Live(pl)
  /\ Running(pl) \/ Forced(reason)
  /\ pl.action \in {"UNLOAD", "RELOAD"}

UnloadTooLate(pl, when, reason) ==
  /\ pl.info # NoInfo
  /\ pl.info.unloadable < when
  /\ reason # "CMD_FORCED"

Unloads(pl, when, reason, det) ==
  /\ UnloadAsked(pl, reason)
  /\ ~UnloadTooLate(pl, when, reason)
  /\ det \/ ~pl.handle \/ Forced(reason)

(* When a plugin is unloaded to be reloaded, clear() refuses the status    *)
(* PL_VALID, so that only the handle goes; the query of the load() that    *)
(* follows resets info.                                                    *)
Unload(pl, when, reason, det) ==
  IF Unloads(pl, when, reason, det)
  THEN IF pl.action = "UNLOAD"
       THEN Cleared(pl)
       ELSE [pl EXCEPT !.status = PL_VALID, !.action = "LOAD", !.handle = FALSE]
  ELSE IF /\ UnloadAsked(pl, reason)
          /\ UnloadTooLate(pl, when, reason)
          /\ pl.info.unloadable <= PT_STARTUP
       THEN [pl EXCEPT !.action = "NONE"]
       ELSE pl

ReloadTooLate(pl, when) == pl.info # NoInfo /\ pl.info.loadable < when

ReloadReason(pl, reason) == IF Running(pl) THEN reason ELSE "RELOAD"

(* A reload goes through unload(): the plugin's children are orphaned. *)
ReloadUnloads(pl, when, reason, det) ==
  /\ ~ReloadTooLate(pl, when)
  /\ Unloads(pl, when, ReloadReason(pl, reason), det)

Reload(pl, when, reason, det, att) ==
  IF ~Live(pl) THEN pl
  ELSE IF ReloadTooLate(pl, when)
  THEN IF pl.info.loadable > PT_STARTUP THEN pl
                                        ELSE [pl EXCEPT !.action = "NONE"]
  ELSE LET u == Unload(pl, when, ReloadReason(pl, reason), det)
       IN  IF ReloadUnloads(pl, when, reason, det) THEN Load(u, when, att) ELSE u

(* retry() dispatches on the pending action; nothing assigns PA_ATTACH. *)
Retry(pl, when, reason, det, att) ==
  CASE pl.action = "LOAD"   -> Load(pl, when, att)
    [] pl.action = "UNLOAD" -> Unload(pl, when, reason, det)
    [] pl.action = "RELOAD" -> Reload(pl, when, reason, det, att)
    [] OTHER                -> pl

RetryUnloads(pl, when, reason, det) ==
  \/ pl.action = "UNLOAD" /\ Unloads(pl, when, reason, det)
  \/ pl.action = "RELOAD" /\ ReloadUnloads(pl, when, reason, det)

Pause(pl) ==
  IF pl.status # PL_RUNNING THEN pl
  ELSE IF pl.info.unloadable < PT_ANYPAUSE THEN [pl EXCEPT !.action = "NONE"]
  ELSE [pl EXCEPT !.status = PL_PAUSED]

Unpause(pl) ==
  IF pl.status = PL_PAUSED THEN [pl EXCEPT !.status = PL_RUNNING] ELSE pl

-----------------------------------------------------------------------------
(* Operations on the list. *)

(* Mutant: the children of an unloaded plugin keep its index. *)
UpdatedAlone(s, pl, unloaded) == [plist EXCEPT ![s] = pl]

(* The plugin in slot s becomes pl; if it was unloaded on the way, the     *)
(* plugins it loaded lose their parent (clear_source_plugin_index).        *)
Updated(s, pl, unloaded) ==
  [t \in Slot |->
     IF t = s THEN pl
     ELSE IF unloaded /\ t <= endlist /\ Live(plist[t]) /\ plist[t].parent = s
     THEN [plist[t] EXCEPT !.parent = -1]
     ELSE plist[t]]

(* Mutant: only running plugins are found. *)
HoldsRunning(s, p) == s <= endlist /\ Running(plist[s]) /\ plist[s].path = p

(* find(path): at most one slot in practice, the first in any case. *)
Holds(s, p) == s <= endlist /\ Live(plist[s]) /\ plist[s].path = p
Found(p) == \E s \in Slot : Holds(s, p)

(* find_match(plugin): the first slot with another build of p's plugin. *)
Rival(s, p) == s <= endlist /\ Live(plist[s]) /\ Family[plist[s].path] = Family[p]
FirstRival(s, p) == Rival(s, p) /\ \A t \in 1 .. s - 1 : ~Rival(t, p)

(* The slot add() takes in list l: the first empty one, else the end. *)
FreeSlot(l, s) ==
  /\ s <= endlist + 1
  /\ s <= endlist => l[s].status = PL_EMPTY
  /\ \A t \in 1 .. s - 1 : l[t].status # PL_EMPTY

(* add() copies neither action nor pfspecific into the slot; its callers   *)
(* all set PA_LOAD.                                                        *)
Added(l, s, p, source, parent) ==
  [l[s] EXCEPT !.status = PL_VALID, !.action = "LOAD", !.source = source,
               !.path = p, !.parent = parent]

(* Mutant: the end marker advances even if a hole was filled. *)
EndAdvances(s) == endlist + 1

EndAfter(s) == IF s > endlist THEN s ELSE endlist

-----------------------------------------------------------------------------
(* Server start: ini_startup() parses each line into the next slot; a line *)
(* that is then skipped leaves its plugin in that slot.                    *)

Idle == phase = "idle"
Enter(next) == /\ phase' = next
               /\ pos' = IF next = "idle" THEN 0 ELSE 1
               /\ nread' = 0
               /\ caller' = 0

(* ini_startup() looks for the file in the game's directory.  If it is     *)
(* missing or empty, the name is left as it is, relative to a directory    *)
(* that has no such file; a file without plugins need not be empty.        *)
NamesAtStart(file) ==
  CASE file = NoFile -> {"relative"}
    [] file = <<>>   -> {"relative", "full"}
    [] OTHER         -> {"full"}

Init ==
  /\ plist = [s \in Slot |-> Wiped]
  /\ endlist = 0
  /\ ini \in IniFiles
  /\ inifile \in NamesAtStart(ini)
  /\ disk \in [Path -> Build \cup {NoFile}]
  /\ \A p \in Path : disk[p] \in Contents[p]
  /\ phase = IF inifile = "full" THEN "boot ini" ELSE "idle"
  /\ pos = IF inifile = "full" THEN 1 ELSE 0
  /\ nread = 0
  /\ now = PT_STARTUP
  /\ caller = 0

(* A line of plugins.ini is left; the loops stop after MaxPlugins lines. *)
LineLeft == pos <= Len(ini) /\ nread < MaxPlugins

Parsed(p) == [plist[nread + 1] EXCEPT !.status = PL_VALID, !.source = "INI",
                                      !.path = p, !.pf = PfSpecific[p]]

BootSkip(p) ==
  /\ \/ Found(p)
     \/ \E r \in Slot : FirstRival(r, p) /\ plist[r].pf >= PfSpecific[p]
  /\ plist' = [plist EXCEPT ![nread + 1] = Parsed(p)]
  /\ UNCHANGED <<endlist, nread>>

(* Mutant: the less specific build stays in the list. *)
BootTakeBoth(p) ==
  /\ ~Found(p)
  /\ \A r \in Slot : FirstRival(r, p) => plist[r].pf < PfSpecific[p]
  /\ plist' = [plist EXCEPT ![nread + 1] = [Parsed(p) EXCEPT !.action = "LOAD"]]
  /\ nread' = nread + 1
  /\ endlist' = nread + 1

BootTake(p) ==
  /\ ~Found(p)
  /\ \A r \in Slot : FirstRival(r, p) => plist[r].pf < PfSpecific[p]
  /\ plist' = [s \in Slot |->
                 CASE s = nread + 1   -> [Parsed(p) EXCEPT !.action = "LOAD"]
                   [] s # nread + 1 /\ FirstRival(s, p) -> Wiped
                   [] OTHER           -> plist[s]]
  /\ nread' = nread + 1
  /\ endlist' = nread + 1

BootLine ==
  /\ phase = "boot ini"
  /\ LineLeft
  /\ BootSkip(ini[pos]) \/ BootTake(ini[pos])
  /\ pos' = pos + 1
  /\ UNCHANGED <<inifile, ini, disk, phase, now, caller>>

BootLinesDone ==
  /\ phase = "boot ini"
  /\ ~LineLeft
  /\ Enter("boot load")
  /\ UNCHANGED <<plist, endlist, inifile, ini, disk, now>>

BootLoad(att) ==
  /\ phase = "boot load"
  /\ pos <= endlist
  /\ plist' = [plist EXCEPT ![pos] = Load(@, PT_STARTUP, att)]
  /\ pos' = pos + 1
  /\ UNCHANGED <<endlist, inifile, ini, disk, phase, nread, now, caller>>

BootDone ==
  /\ phase = "boot load"
  /\ pos > endlist
  /\ Enter("idle")
  /\ UNCHANGED <<plist, endlist, inifile, ini, disk, now>>

-----------------------------------------------------------------------------
(* refresh(): ini_refresh() marks the plugins, then each is acted on. *)

(* Mutant: paused plugins stay paused over a changelevel. *)
StillPaused == plist

UnpausedAll == [s \in Slot |-> IF s <= endlist THEN Unpause(plist[s]) ELSE plist[s]]

(* "meta refresh" (when is PT_ANYTIME) or mm_ServerDeactivate() (when is   *)
(* PT_CHANGELEVEL), which goes on to unpause the plugins in any case.      *)
Refresh(when) ==
  /\ Idle
  /\ now' = when
  /\ IF inifile = "full" /\ ini # NoFile
     THEN Enter("ini") /\ UNCHANGED plist
     ELSE /\ Enter("idle")
          /\ plist' = IF when = PT_CHANGELEVEL THEN UnpausedAll ELSE plist
  /\ UNCHANGED <<endlist, inifile, ini, disk>>

LineAdds(p) ==
  \E s \in Slot :
    /\ FreeSlot(plist, s)
    /\ plist' = [plist EXCEPT ![s] = Added(plist, s, p, "INI", 0)]
    /\ endlist' = EndAfter(s)
    /\ nread' = nread + 1

ListFull == endlist = MaxPlugins /\ \A s \in Slot : plist[s].status # PL_EMPTY

(* A line that is not listed yet. *)
LineNew(p) ==
  /\ ~Found(p)
  /\ ~\E r \in Slot : Rival(r, p)
  /\ \/ LineAdds(p)
     \/ ListFull /\ UNCHANGED <<plist, endlist, nread>>

(* Another build of the plugin is listed: it stays, unless it is less      *)
(* specific and still to be loaded; then its slot is wiped, even if its    *)
(* file is open.                                                           *)
LineRival(p) ==
  /\ ~Found(p)
  /\ \E r \in Slot :
       /\ FirstRival(r, p)
       /\ IF plist[r].pf < PfSpecific[p] /\ plist[r].action = "LOAD"
          THEN LET l == [plist EXCEPT ![r] = Wiped]
               IN  \E s \in Slot :
                     /\ FreeSlot(l, s)
                     /\ plist' = [l EXCEPT ![s] = Added(l, s, p, "INI", 0)]
                     /\ nread' = nread + 1
          ELSE UNCHANGED <<plist, nread>>
  /\ UNCHANGED endlist

(* The plugin is listed: newer_file() decides what is to be done. *)
LineListed(p) ==
  \E s \in Slot :
    /\ Holds(s, p)
    /\ \A t \in 1 .. s - 1 : ~Holds(t, p)
    /\ IF disk[p] = NoFile
       THEN UNCHANGED <<plist, nread>>
       ELSE /\ plist' =
                 [plist EXCEPT ![s].action =
                    IF plist[s].loaded = "fresh" THEN "KEEP"
                    ELSE IF plist[s].status >= PL_OPENED THEN "RELOAD" ELSE @]
            /\ nread' = nread + 1
    /\ UNCHANGED endlist

RefreshLine ==
  /\ phase = "ini"
  /\ LineLeft
  /\ LineNew(ini[pos]) \/ LineRival(ini[pos]) \/ LineListed(ini[pos])
  /\ pos' = pos + 1
  /\ UNCHANGED <<inifile, ini, disk, phase, now, caller>>

RefreshLinesDone ==
  /\ phase = "ini"
  /\ ~LineLeft
  /\ Enter("slots")
  /\ UNCHANGED <<plist, endlist, inifile, ini, disk, now>>

(* Mutant: where the plugin was loaded from is not looked at. *)
UnlistedAnySource(pl) == pl.action = "NONE" /\ Running(pl)

(* An ini plugin that no line of plugins.ini has marked. *)
Unlisted(pl) == pl.action = "NONE" /\ pl.source = "INI" /\ Running(pl)

(* Mutant: a plugin to be kept goes through retry(), which does nothing. *)
RefreshedRetriesAll(pl, det, att) ==
  IF Unlisted(pl)
  THEN Unload([pl EXCEPT !.action = "UNLOAD"], now, "INI_DELETED", det)
  ELSE Retry(pl, now, "DELAYED", det, att)

RefreshedPlugin(pl, det, att) ==
  IF pl.action = "KEEP" THEN [pl EXCEPT !.action = "NONE"]
  ELSE IF Unlisted(pl)
  THEN Unload([pl EXCEPT !.action = "UNLOAD"], now, "INI_DELETED", det)
  ELSE Retry(pl, now, IF pl.action = "RELOAD" THEN "FILE_NEWER" ELSE "DELAYED",
             det, att)

RefreshUnloads(pl, det) ==
  IF Unlisted(pl)
  THEN Unloads([pl EXCEPT !.action = "UNLOAD"], now, "INI_DELETED", det)
  ELSE RetryUnloads(pl, now, IF pl.action = "RELOAD" THEN "FILE_NEWER" ELSE "DELAYED",
                    det)

(* Only a plugin that the step attached runs code before the next step. *)
RefreshSlot(det, att) ==
  /\ phase = "slots"
  /\ pos <= endlist
  /\ LET pl  == plist[pos]
         new == IF Live(pl) THEN RefreshedPlugin(pl, det, att) ELSE pl
         out == Live(pl) /\ RefreshUnloads(pl, det)
     IN  /\ plist' = Updated(pos, new, out)
         /\ caller' = IF Running(new) /\ (out \/ ~Running(pl)) THEN pos ELSE 0
  /\ pos' = pos + 1
  /\ UNCHANGED <<endlist, inifile, ini, disk, phase, nread, now>>

RefreshDone ==
  /\ phase = "slots"
  /\ pos > endlist
  /\ plist' = IF now = PT_CHANGELEVEL THEN UnpausedAll ELSE plist
  /\ Enter("idle")
  /\ UNCHANGED <<endlist, inifile, ini, disk, now>>

-----------------------------------------------------------------------------
(* "meta load" and the commands on a plugin named by its index or by a     *)
(* prefix of its name (cmd_doplug); all of them act with PT_ANYTIME.       *)

CmdLoad(p, att) ==
  /\ Idle
  /\ disk[p] # NoFile
  /\ ~Found(p)
  /\ \E s \in Slot :
       /\ FreeSlot(plist, s)
       /\ LET pl == Load(Added(plist, s, p, "CMD", 0), PT_ANYTIME, att)
          IN  plist' = [plist EXCEPT ![s] =
                IF pl.status = PL_OPENED /\ pl.action = "NONE" THEN Cleared(pl)
                                                               ELSE pl]
       /\ endlist' = EndAfter(s)
  /\ UNCHANGED <<inifile, ini, disk, loopvars>>

(* find(index) tests the status of the slot, not that it is in use. *)
Command(s, new, unloaded) ==
  /\ Idle
  /\ Live(plist[s])
  /\ plist' = Updated(s, new, unloaded)
  /\ UNCHANGED <<endlist, inifile, ini, disk, loopvars>>

CmdPause(s) == Command(s, Pause(plist[s]), FALSE)

CmdUnpause(s) == Command(s, Unpause(plist[s]), FALSE)

Marked(s, action) == [plist[s] EXCEPT !.action = action]

CmdUnload(s, reason, det) ==
  LET pl == Marked(s, "UNLOAD")
  IN  Command(s, Unload(pl, PT_ANYTIME, reason, det),
                 Unloads(pl, PT_ANYTIME, reason, det))

CmdReload(s, det, att) ==
  LET pl == Marked(s, "RELOAD")
  IN  Command(s, Reload(pl, PT_ANYTIME, "COMMAND", det, att),
                 ReloadUnloads(pl, PT_ANYTIME, "COMMAND", det))

CmdRetry(s, det, att) ==
  Command(s, Retry(plist[s], PT_ANYTIME, "COMMAND", det, att),
             RetryUnloads(plist[s], PT_ANYTIME, "COMMAND", det))

CmdClear(s) ==
  MayClear(plist[s]) /\ Command(s, Cleared(plist[s]), FALSE)

-----------------------------------------------------------------------------
(* Requests of the running plugin u: from a hook or a command when the     *)
(* manager is idle, from its GameInit when a refresh has just attached it; *)
(* like the requests AMX Mod X makes, they act with PT_ANYTIME.            *)

MayCall(u) ==
  /\ u <= endlist
  /\ plist[u].status = PL_RUNNING
  /\ Idle \/ (phase = "slots" /\ caller = u)

PluginLoad(u, p, att) ==
  /\ MayCall(u)
  /\ disk[p] # NoFile
  /\ ~Found(p)
  /\ \E s \in Slot :
       /\ FreeSlot(plist, s)
       /\ LET pl == Load(Added(plist, s, p, "PLUGIN", u), PT_ANYTIME, att)
          IN  plist' = [plist EXCEPT ![s] =
                          IF pl.status = PL_OPENED THEN Cleared(pl) ELSE pl]
       /\ endlist' = EndAfter(s)
  /\ UNCHANGED <<inifile, ini, disk, loopvars>>

(* plugin_unload(): when the plugin cannot be unloaded yet, its former     *)
(* action is restored; in every other failure it stays marked.             *)
PluginUnload(u, s, det) ==
  /\ MayCall(u)
  /\ s # u
  /\ Live(plist[s])
  /\ LET pl      == Marked(s, "UNLOAD")
         delayed == /\ UnloadAsked(pl, "PLUGIN")
                    /\ UnloadTooLate(pl, PT_ANYTIME, "PLUGIN")
                    /\ pl.info.unloadable > PT_STARTUP
     IN  plist' = Updated(s,
                    IF delayed THEN plist[s]
                               ELSE Unload(pl, PT_ANYTIME, "PLUGIN", det),
                    Unloads(pl, PT_ANYTIME, "PLUGIN", det))
  /\ UNCHANGED <<endlist, inifile, ini, disk, loopvars>>

-----------------------------------------------------------------------------
(* The administrator edits plugins.ini and replaces plugin files, between  *)
(* the operations of the manager.                                          *)

EditIni(file) ==
  /\ Idle
  /\ ini' = file
  /\ UNCHANGED <<plist, endlist, inifile, disk, loopvars>>

WriteFile(p, b) ==
  /\ Idle
  /\ disk' = [disk EXCEPT ![p] = b]
  /\ plist' = [s \in Slot |->
                 IF plist[s].path = p /\ plist[s].loaded = "fresh"
                 THEN [plist[s] EXCEPT !.loaded = "stale"] ELSE plist[s]]
  /\ UNCHANGED <<endlist, inifile, ini, loopvars>>

-----------------------------------------------------------------------------
Boot ==
  \/ BootLine
  \/ BootLinesDone
  \/ \E att \in BOOLEAN : BootLoad(att)
  \/ BootDone

Refreshing ==
  \/ RefreshLine
  \/ RefreshLinesDone
  \/ \E det, att \in BOOLEAN : RefreshSlot(det, att)
  \/ RefreshDone

Commands ==
  \/ \E p \in Path, att \in BOOLEAN : CmdLoad(p, att)
  \/ \E s \in Slot :
       \/ CmdPause(s)
       \/ CmdUnpause(s)
       \/ \E reason \in {"COMMAND", "CMD_FORCED"}, det \in BOOLEAN :
            CmdUnload(s, reason, det)
       \/ \E det, att \in BOOLEAN : CmdReload(s, det, att) \/ CmdRetry(s, det, att)
       \/ CmdClear(s)

Requests ==
  \E u \in Slot :
    \/ \E p \in Path, att \in BOOLEAN : PluginLoad(u, p, att)
    \/ \E s \in Slot, det \in BOOLEAN : PluginUnload(u, s, det)

Edits ==
  \/ \E file \in IniFiles : EditIni(file)
  \/ \E p \in Path : \E b \in Contents[p] : WriteFile(p, b)

Next ==
  \/ Boot
  \/ Refresh(PT_ANYTIME) \/ Refresh(PT_CHANGELEVEL)
  \/ Refreshing
  \/ Commands
  \/ Requests
  \/ Edits

Spec == Init /\ [][Next]_vars

(* No line of plugins.ini is skipped at server start: a plugin that it     *)
(* names again is a more specific build, and no slot past the end of the   *)
(* list is left with a plugin that was skipped.                            *)
CleanStart ==
  ini # NoFile => \A i, j \in 1 .. Len(ini) :
                    i < j /\ Family[ini[i]] = Family[ini[j]]
                    => PfSpecific[ini[i]] < PfSpecific[ini[j]]

CleanInit == Init /\ CleanStart

CleanSpec == CleanInit /\ [][Next]_vars

-----------------------------------------------------------------------------
(* Type invariant. *)
TypeOK ==
  /\ plist \in [Slot -> Plugin]
  /\ endlist \in 0 .. MaxPlugins
  /\ inifile \in {"relative", "full"}
  /\ ini \in IniFiles
  /\ disk \in [Path -> Build \cup {NoFile}]
  /\ phase \in Phases
  /\ pos \in Nat
  /\ nread \in 0 .. MaxPlugins
  /\ now \in Times
  /\ caller \in 0 .. MaxPlugins

(* A plugin that has been opened has its library and the information the   *)
(* library gave, and no other plugin has either: load(), unload() and the  *)
(* hooks read them without a test.                                         *)
OpenedHasInfo ==
  \A s \in Slot :
    IF plist[s].status >= PL_OPENED
    THEN plist[s].handle /\ plist[s].info \in Build
    ELSE ~plist[s].handle /\ plist[s].info = NoInfo

(* The pathname of a plugin is unique: find(path) has one answer, and no   *)
(* file is queried and attached for two slots.                             *)
UniquePath ==
  \A s, t \in Slot :
    Live(plist[s]) /\ Live(plist[t]) /\ plist[s].path = plist[t].path => s = t

(* The plugin that loaded another is still there, or is no longer named as *)
(* its parent: an index is never left pointing to a slot that a different  *)
(* plugin may take.                                                        *)
ParentAlive ==
  \A s \in Slot :
    Live(plist[s]) /\ plist[s].parent > 0 => Running(plist[plist[s].parent])

(* A running plugin is never marked to be loaded: ini_refresh() would wipe *)
(* its slot for a more specific build without calling Meta_Detach.         *)
RunningNotPending ==
  \A s \in Slot : Running(plist[s]) => plist[s].action \notin {"NULL", "LOAD"}

(* A mark left by reading plugins.ini does not outlive the refresh: a      *)
(* later refresh would take it for the result of its own reading.          *)
KeepIsTransient ==
  phase \notin {"ini", "slots"} => \A s \in Slot : plist[s].action # "KEEP"

(* ini_startup() lists one build of each plugin it has read so far, the    *)
(* most specific one.                                                      *)
BootMostSpecific ==
  phase = "boot ini" =>
    /\ \A k \in 1 .. pos - 1 :
         \E s \in Slot : Rival(s, ini[k]) /\ PfSpecific[plist[s].path] >= PfSpecific[ini[k]]
    /\ \A s, t \in Slot :
         s <= endlist /\ Live(plist[s]) /\ Rival(t, plist[s].path) => s = t

Listed(p) == ini # NoFile /\ \E k \in 1 .. Len(ini) : ini[k] = p

(* A refresh does not unload what was not loaded from plugins.ini, whether *)
(* plugins.ini names it or not, unless its unloading was asked for before. *)
OthersStay ==
  [][\A s \in Slot :
       /\ phase = "slots" /\ pos = s /\ pos' = s + 1
       /\ plist[s].source # "INI" /\ plist[s].action \in {"NONE", "KEEP"}
       => plist'[s].status = plist[s].status]_vars

(* Once the administrator, the plugins and the users leave the manager     *)
(* alone and every plugin attaches and detaches when asked to.             *)
Quiet ==
  \/ Boot
  \/ Refresh(PT_CHANGELEVEL)
  \/ RefreshLine
  \/ RefreshLinesDone
  \/ RefreshSlot(TRUE, TRUE)
  \/ RefreshDone

(* What plugins.ini asks of plugins that may be loaded and unloaded at a   *)
(* changelevel: those it lists run, but for the ones that are given up,    *)
(* and no other ini plugin does.                                           *)
AsListed(GivenUp(_)) ==
  /\ \A k \in 1 .. Len(ini) :
       \E s \in Slot : /\ Holds(s, ini[k])
                       /\ plist[s].status = PL_RUNNING \/ GivenUp(plist[s])
  /\ \A s \in Slot :
       Running(plist[s]) /\ plist[s].source = "INI" => Listed(plist[s].path)

(* A reload whose Meta_Attach failed has kept the time of the plugin's     *)
(* last attachment, so that no refresh finds its file newer.               *)
FailedReload(pl) == pl.status = PL_FAILED

(* A request to unload a plugin that does not run is refused, but the      *)
(* plugin stays marked for it.                                             *)
MarkedUnloaded(pl) == ~Running(pl) /\ pl.action = "UNLOAD"

(* The last line is not skipped: its plugin takes the slot in which those  *)
(* that were skipped before it were parsed.                                *)
LastTaken ==
  ini # NoFile => \A i \in 1 .. Len(ini) - 1 :
                    Family[ini[i]] = Family[ini[Len(ini)]]
                    => PfSpecific[ini[i]] < PfSpecific[ini[Len(ini)]]

TakenInit == Init /\ LastTaken

(* Maps change for ever and the manager's loops do not stop half-way. *)
FairSpec ==
  /\ TakenInit /\ [][Next]_vars
  /\ WF_vars(Boot)
  /\ WF_vars(Refreshing)
  /\ WF_vars(Refresh(PT_CHANGELEVEL))

(* A line that repeats another counts twice against the size of the list.  *)
NamedOnce == \A i, j \in 1 .. Len(ini) : ini[i] = ini[j] => i = j

(* A failed reload or a refused unloading has cut the plugin off. *)
Cut(pl) == FailedReload(pl) \/ MarkedUnloaded(pl)

(* Changelevels bring the list of plugins to what plugins.ini says, if     *)
(* there was one at server start and it names each plugin once, except for *)
(* plugins that have been cut off.                                         *)
Converges ==
  (<>[][Quiet]_vars)
    => <>[](Idle /\ inifile = "full" /\ ini # NoFile /\ NamedOnce => AsListed(Cut))

-----------------------------------------------------------------------------
(* What the comments and the documentation of Metamod say, and the code    *)
(* does not do.                                                            *)

(* A refresh loads the plugins added to plugins.ini, which was there at    *)
(* server start: they run in the end, unless Meta_Attach failed.           *)
NewAreLoaded ==
  (<>[][Quiet]_vars)
    => <>[](Idle /\ inifile = "full" /\ ini # NoFile => AsListed(FailedReload))

=============================================================================
