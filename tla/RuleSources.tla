---------------------------- MODULE RuleSources ----------------------------
(***************************************************************************)
(* The threat lists that the user subscribes to: RuleSources::Impl of      *)
(* overlay/chrome/browser/ohos/url_protection/rule_sources.cc, with the    *)
(* cache format of subscription_rules.cc.                                  *)
(*                                                                         *)
(* One source at a time is downloaded, parsed and installed.  Parsing and  *)
(* all file work run on one worker, in order, and answer with reply tasks, *)
(* also in order.  Meanwhile the user edits and removes sources and the    *)
(* last client leaves; the process may die between any two steps, with     *)
(* preferences that reach the disk later than the cache files.             *)
(*                                                                         *)
(* A URL stands for url, format and rule type together, a source id for a  *)
(* random token.  entry.generation is only ever compared for equality, so  *)
(* each piece of work carries whether its generation is still the          *)
(* current one.  Times are ticks that remain.                              *)
(***************************************************************************)
EXTENDS Integers, Sequences, FiniteSetsExt

CONSTANTS Ids, Urls, None,
          Sizes,          \* records that a list may hold
          MaxTotal,       \* 1000000 records in the code
          MaxSources,     \* 8
          Soon, Minute, Base, Retry, Period,   \* 15 s, 1 min, 5 min, 6 h, 8 h in ticks
          MaxClients, MaxTasks, MaxCrashes     \* bounds of the exploration

ASSUME DelaysAssumption ==
    /\ {Soon, Minute, Base, Retry, Period} \subseteq Nat \ {0}
    /\ Soon <= Minute /\ Minute <= Base /\ Base <= Retry /\ Retry <= Period
ASSUME BoundsAssumption ==
    /\ IsFiniteSet(Ids)
    /\ Sizes \subseteq Nat /\ MaxTotal \in Nat /\ MaxSources \in Nat
    /\ MaxClients \in Nat /\ MaxTasks \in Nat /\ MaxCrashes \in Nat

(* A list as it was downloaded, an Entry and a piece of work.               *)
Lists == [url : Urls, size : Sizes]
Entries == [url : Urls, enabled : BOOLEAN, rules : Lists \cup {None}, due : Nat, notBefore : Nat]
Works == [kind : {"download", "parse", "install", "installed", "write_failed", "delete"},
          id : Ids, current : BOOLEAN, url : Urls \cup {None}, rules : Lists \cup {None}]

ASSUME NoneAssumption == None \notin Ids \cup Urls \cup Lists \cup Entries \cup Works

VARIABLES
    entries,   \* per id, its Entry or None
    sys,       \* clients_, ready_, active_, whether timer_ runs
    loader,    \* the download of the active source: None or its work
    tasks,     \* the worker's queue
    replies,   \* its answers
    disk,      \* per id, the cache file, and the configurations in the preferences
    used,      \* the ids given out so far
    crashes

vars == <<entries, sys, loader, tasks, replies, disk, used, crashes>>

Larger(a, b) == IF a >= b THEN a ELSE b

Known == {id \in Ids : entries[id] # None}
Enabled(e) == {id \in Ids : e[id] # None /\ e[id].enabled}

NewEntry(config) ==
    [url |-> config.url, enabled |-> config.enabled, rules |-> None,
     due |-> Soon, notBefore |-> 0]

Config(e) == IF e = None THEN None ELSE [url |-> e.url, enabled |-> e.enabled]

(* The rules of a set of entries, together.                                 *)
TotalRecords(e, ids) ==
    MapThenSumSet(LAMBDA id : IF e[id] # None /\ e[id].rules # None THEN e[id].rules.size ELSE 0, ids)

-----------------------------------------------------------------------------
(* Work and its generations *)

Work(kind, id, rules) == [kind |-> kind, id |-> id, current |-> TRUE, url |-> entries[id].url,
                          rules |-> rules]
Delete(id) == [kind |-> "delete", id |-> id, current |-> FALSE, url |-> None, rules |-> None]
RestoreTask == [kind |-> "restore", id |-> None, current |-> TRUE, url |-> None, rules |-> None]

(* Mutant: a write under way is not superseded, only a parse.               *)
Superseded_Parse(queue, id) ==
    [i \in DOMAIN queue |-> IF queue[i].id = id /\ queue[i].kind = "parse"
                            THEN [queue[i] EXCEPT !.current = FALSE] ELSE queue[i]]

(* ++entry.generation, seen from the work under way for the source.         *)
Superseded(queue, id) ==
    [i \in DOMAIN queue |-> IF queue[i].id = id THEN [queue[i] EXCEPT !.current = FALSE] ELSE queue[i]]

Current(w) ==
    /\ w.current /\ w.id = sys.active /\ sys.clients > 0
    /\ w.id \in Enabled(entries)

(* Schedule: the timer runs for the enabled source that is due first.       *)
Schedule(s, e) == [s EXCEPT !.timer = s.ready /\ s.clients > 0 /\ s.active = None /\ Enabled(e) # {}]

(* A bound: commands that queue work wait for the worker.                   *)
WorkerKeepsUp == Len(tasks) + Len(replies) < MaxTasks

-----------------------------------------------------------------------------
(* The life of the process *)

Start(configs) ==
    /\ entries' = [id \in Ids |-> IF configs[id] = None THEN None ELSE NewEntry(configs[id])]
    /\ sys' = [clients |-> 0, ready |-> FALSE, active |-> None, timer |-> FALSE]
    /\ loader' = None
    /\ tasks' = <<RestoreTask>>
    /\ replies' = <<>>

Init ==
    /\ entries = [id \in Ids |-> None]
    /\ sys = [clients |-> 0, ready |-> FALSE, active |-> None, timer |-> FALSE]
    /\ loader = None
    /\ tasks = <<RestoreTask>>
    /\ replies = <<>>
    /\ disk = [cache |-> [id \in Ids |-> None], configs |-> [id \in Ids |-> None]]
    /\ used = {}
    /\ crashes = 0

(* The preferences reach the disk, which matters while a crash may follow.  *)
CommitPendingWrite ==
    /\ crashes < MaxCrashes
    /\ disk' = [disk EXCEPT !.configs = [id \in Ids |-> Config(entries[id])]]
    /\ UNCHANGED <<entries, sys, loader, tasks, replies, used, crashes>>

Crash ==
    /\ crashes < MaxCrashes /\ crashes' = crashes + 1
    /\ Start(disk.configs)
    /\ UNCHANGED <<disk, used>>

TimePasses ==
    /\ \E id \in Known : entries[id].due > 0 \/ entries[id].notBefore > 0
    /\ entries' = [id \in Ids |-> IF entries[id] = None THEN None
                                  ELSE [entries[id] EXCEPT !.due = Larger(@ - 1, 0),
                                                           !.notBefore = Larger(@ - 1, 0)]]
    /\ UNCHANGED <<sys, loader, tasks, replies, disk, used, crashes>>

-----------------------------------------------------------------------------
(* Restoring *)

DecodeSubscriptionCache(cache, url) == cache # None /\ cache.url = url

(* On the worker.  The files that are read, are not damaged or expired and  *)
(* do not exceed the total are kept.                                        *)
Restore(kept) ==
    LET found == {id \in Known : DecodeSubscriptionCache(disk.cache[id], entries[id].url)}
    IN /\ tasks # <<>> /\ Head(tasks).kind = "restore"
       /\ kept \subseteq found
       /\ MapThenSumSet(LAMBDA id : disk.cache[id].size, kept) <= MaxTotal
       /\ tasks' = Tail(tasks)
       /\ replies' = Append(replies,
              [RestoreTask EXCEPT !.rules = [id \in kept |-> disk.cache[id]]])
       /\ UNCHANGED <<entries, sys, loader, disk, used, crashes>>

(* delay: the restored rules may be due, or fresh.                          *)
OnRestored(delay) ==
    LET restored == Head(replies).rules
        e == [id \in Ids |-> IF id \in DOMAIN restored
                             THEN [entries[id] EXCEPT !.rules = restored[id], !.due = delay]
                             ELSE entries[id]]
    IN /\ replies # <<>> /\ Head(replies).kind = "restore"
       /\ replies' = Tail(replies)
       /\ entries' = e
       /\ sys' = Schedule([sys EXCEPT !.ready = TRUE], e)
       /\ UNCHANGED <<loader, tasks, disk, used, crashes>>

-----------------------------------------------------------------------------
(* Clients *)

Acquire ==
    /\ sys.clients < MaxClients
    /\ sys' = Schedule([sys EXCEPT !.clients = @ + 1], entries)
    /\ UNCHANGED <<entries, loader, tasks, replies, disk, used, crashes>>

(* The last client stops the timer and the active source.                   *)
Release ==
    /\ sys.clients > 0 /\ WorkerKeepsUp
    /\ \/ /\ sys.clients > 1
          /\ sys' = [sys EXCEPT !.clients = @ - 1]
          /\ UNCHANGED <<loader, tasks, replies>>
       \/ /\ sys.clients = 1
          /\ sys' = [sys EXCEPT !.clients = 0, !.timer = FALSE, !.active = None]
          /\ loader' = None
          /\ tasks' = Superseded(tasks, sys.active)
          /\ replies' = Superseded(replies, sys.active)
    /\ UNCHANGED <<entries, disk, used, crashes>>

-----------------------------------------------------------------------------
(* Refreshing *)

MayRefresh(id) ==
    sys.clients > 0 /\ id \in Enabled(entries) /\ sys.active = None /\ entries[id].notBefore = 0

(* Refresh.  The new generation supersedes what is under way.               *)
Refresh(id) ==
    /\ sys' = [sys EXCEPT !.timer = FALSE, !.active = id]
    /\ entries' = [entries EXCEPT ![id].notBefore = Minute, ![id].due = Minute]
    /\ loader' = Work("download", id, None)
    /\ tasks' = Superseded(tasks, id)
    /\ replies' = Superseded(replies, id)

(* By the user.                                                             *)
RefreshCommand(id) ==
    /\ sys.ready /\ MayRefresh(id)
    /\ Refresh(id)
    /\ UNCHANGED <<disk, used, crashes>>

(* The timer: a source that is due is refreshed; when that is refused the   *)
(* timer stays off.  If none is due (the wall clock was set back), it is    *)
(* started again.                                                           *)
Tick(id) ==
    /\ sys.timer /\ id \in Enabled(entries) /\ entries[id].due = 0
    /\ \/ MayRefresh(id) /\ Refresh(id)
       \/ /\ ~MayRefresh(id)
          /\ sys' = [sys EXCEPT !.timer = FALSE]
          /\ UNCHANGED <<entries, loader, tasks, replies>>
    /\ UNCHANGED <<disk, used, crashes>>

(* Mutant: a retry becomes due before it is allowed.                        *)
Failed_DueEarly(e, delay) == [e EXCEPT !.notBefore = delay, !.due = Soon]

Failed(e, delay) == [e EXCEPT !.notBefore = delay, !.due = delay]

(* The delay doubles with each failure in a row, from Base to Retry.        *)
Fail(id) ==
    \E delay \in Base..Retry :
        LET e == [entries EXCEPT ![id] = Failed(@, delay)]
        IN /\ entries' = e
           /\ sys' = Schedule([sys EXCEPT !.active = None], e)

(* A destroyed loader calls nobody, so the download is always current.      *)
OnDownloaded(ok) ==
    /\ loader # None /\ loader' = None
    /\ \/ /\ ok
          /\ tasks' = Append(tasks, [loader EXCEPT !.kind = "parse"])
          /\ UNCHANGED <<entries, sys>>
       \/ ~ok /\ Fail(loader.id) /\ UNCHANGED tasks
    /\ UNCHANGED <<replies, disk, used, crashes>>

(* On the worker; None is a file that cannot be read or parsed.             *)
ParseDownload(size) ==
    LET w == Head(tasks)
    IN /\ tasks # <<>> /\ w.kind = "parse"
       /\ tasks' = Tail(tasks)
       /\ replies' = Append(replies,
              [w EXCEPT !.rules = IF size = None THEN None ELSE [url |-> w.url, size |-> size]])
       /\ UNCHANGED <<entries, sys, loader, disk, used, crashes>>

(* The list was parsed, and fits beside those of the other sources,         *)
(* disabled ones included.                                                  *)
Fits(w) ==
    w.rules # None /\ w.rules.size + TotalRecords(entries, Ids \ {w.id}) <= MaxTotal

OnParsed ==
    LET w == Head(replies)
    IN /\ replies # <<>> /\ w.kind = "parse"
       /\ replies' = Tail(replies)
       /\ \/ ~Current(w) /\ UNCHANGED <<entries, sys, tasks>>
          \/ /\ Current(w) /\ ~Fits(w)
             /\ Fail(w.id)
             /\ UNCHANGED tasks
          \/ /\ Current(w) /\ Fits(w)
             /\ tasks' = Append(tasks, [w EXCEPT !.kind = "install"])
             /\ UNCHANGED <<entries, sys>>
       /\ UNCHANGED <<loader, disk, used, crashes>>

(* On the worker: the file is replaced atomically, or not at all.           *)
Install(ok) ==
    LET w == Head(tasks)
    IN /\ tasks # <<>> /\ w.kind = "install"
       /\ tasks' = Tail(tasks)
       /\ disk' = IF ok THEN [disk EXCEPT !.cache[w.id] = w.rules] ELSE disk
       /\ replies' = Append(replies, [w EXCEPT !.kind = IF ok THEN "installed" ELSE "write_failed"])
       /\ UNCHANGED <<entries, sys, loader, used, crashes>>

OnInstalled ==
    LET w == Head(replies)
        e == [entries EXCEPT ![w.id].rules = w.rules, ![w.id].due = Period]
    IN /\ replies # <<>> /\ w.kind \in {"installed", "write_failed"}
       /\ replies' = Tail(replies)
       /\ \/ ~Current(w) /\ UNCHANGED <<entries, sys>>
          \/ Current(w) /\ w.kind = "write_failed" /\ Fail(w.id)
          \/ /\ Current(w) /\ w.kind = "installed"
             /\ entries' = e
             /\ sys' = Schedule([sys EXCEPT !.active = None], e)
       /\ UNCHANGED <<loader, tasks, disk, used, crashes>>

(* On the worker.                                                           *)
DeleteFile ==
    /\ tasks # <<>> /\ Head(tasks).kind = "delete"
    /\ tasks' = Tail(tasks)
    /\ disk' = [disk EXCEPT !.cache[Head(tasks).id] = None]
    /\ UNCHANGED <<entries, sys, loader, replies, used, crashes>>

-----------------------------------------------------------------------------
(* Commands of the user: Mutate, with the revision it expects *)

Duplicate(id, url) == \E other \in Known \ {id} : entries[other].url = url

Changed(e, active) ==
    /\ entries' = e
    /\ sys' = Schedule([sys EXCEPT !.active = active], e)

Add(id, config) ==
    /\ sys.ready /\ id \notin used
    /\ Cardinality(Known) < MaxSources /\ ~Duplicate(id, config.url)
    /\ used' = used \cup {id}
    /\ Changed([entries EXCEPT ![id] = NewEntry(config)], sys.active)
    /\ UNCHANGED <<loader, tasks, replies, disk, crashes>>

(* An edit or a removal ends the refresh of the source; the file is deleted *)
(* in the worker's order, after any write that is queued.                   *)
Cancel(id, deletes) ==
    /\ loader' = IF sys.active = id THEN None ELSE loader
    /\ tasks' = Superseded(tasks, id) \o deletes
    /\ replies' = Superseded(replies, id)

Deletes(id, also) ==
    (IF sys.active = id THEN <<Delete(id)>> ELSE <<>>) \o (IF also THEN <<Delete(id)>> ELSE <<>>)

Update(id, config) ==
    LET e == entries[id]
        moved == config.url # e.url
    IN /\ sys.ready /\ id \in Known /\ WorkerKeepsUp
       /\ ~Duplicate(id, config.url)
       /\ Cancel(id, Deletes(id, moved))
       /\ Changed([entries EXCEPT ![id] =
                      [e EXCEPT !.url = config.url, !.enabled = config.enabled,
                                !.rules = IF moved THEN None ELSE @,
                                !.due = Larger(e.notBefore, Soon)]],
                  IF sys.active = id THEN None ELSE sys.active)
       /\ UNCHANGED <<disk, used, crashes>>

(* Mutant: the file is deleted at once, not in the worker's order.          *)
Remove_AtOnce(id) ==
    /\ sys.ready /\ id \in Known /\ WorkerKeepsUp
    /\ Cancel(id, <<>>)
    /\ Changed([entries EXCEPT ![id] = None], IF sys.active = id THEN None ELSE sys.active)
    /\ disk' = [disk EXCEPT !.cache[id] = None]
    /\ UNCHANGED <<used, crashes>>

Remove(id) ==
    /\ sys.ready /\ id \in Known /\ WorkerKeepsUp
    /\ Cancel(id, Deletes(id, TRUE))
    /\ Changed([entries EXCEPT ![id] = None], IF sys.active = id THEN None ELSE sys.active)
    /\ UNCHANGED <<disk, used, crashes>>

-----------------------------------------------------------------------------
(* Specification *)

Worker ==
    \/ \E kept \in SUBSET Ids : Restore(kept)
    \/ \E size \in Sizes \cup {None} : ParseDownload(size)
    \/ \E ok \in BOOLEAN : Install(ok)
    \/ DeleteFile
Reply == (\E delay \in {Soon, Period} : OnRestored(delay)) \/ OnParsed \/ OnInstalled
Downloaded == \E ok \in BOOLEAN : OnDownloaded(ok)
Timer == \E id \in Ids : Tick(id)

Configs == [url : Urls, enabled : BOOLEAN]

Next ==
    \/ Worker \/ Reply \/ Downloaded \/ Timer \/ TimePasses
    \/ Acquire \/ Release
    \/ \E id \in Ids :
          \/ RefreshCommand(id) \/ Remove(id)
          \/ \E config \in Configs : Add(id, config) \/ Update(id, config)
    \/ CommitPendingWrite \/ Crash

Spec == Init /\ [][Next]_vars

-----------------------------------------------------------------------------
(* Properties *)

(* The rules a source matches with were downloaded from the URL it has now, *)
(* whatever was edited, cancelled or restored while the download, the       *)
(* parsing or the write was under way; and all rules together keep within   *)
(* the limit, although each list was measured before it was written.        *)
OwnRules == \A id \in Known : entries[id].rules # None => entries[id].rules.url = entries[id].url
TotalLimited == TotalRecords(entries, Ids) <= MaxTotal
RulesInForce == OwnRules /\ TotalLimited

(* A source that was removed in this life leaves no cache file behind: it   *)
(* has none, or its deletion comes after every write that is queued.        *)
LastTask(id, kind) == {i \in DOMAIN tasks : tasks[i].id = id /\ tasks[i].kind = kind}
Removed == {id \in used : entries[id] = None /\ sys.ready}
StaysRemoved ==
    \A id \in Removed :
        /\ \A i \in LastTask(id, "install") : \E j \in LastTask(id, "delete") : j > i
        /\ disk.cache[id] # None => LastTask(id, "delete") # {} \/ crashes > 0

(* While somebody uses the rules and a source is enabled, refreshing goes   *)
(* on, whatever is edited, cancelled, refused or fails: a source that is    *)
(* active has exactly one piece of current work under way; otherwise the    *)
(* timer runs, and what it finds due is never refused by the rate limit.    *)
CurrentWork ==
    {<<"task", i>> : i \in {j \in DOMAIN tasks : tasks[j].current /\ tasks[j].id = sys.active}}
    \cup {<<"reply", i>> : i \in {j \in DOMAIN replies : replies[j].current /\ replies[j].id = sys.active}}
    \cup {<<"loader", 0>> : x \in {loader} \ {None}}
RefreshGoesOn ==
    /\ sys.active # None =>
          sys.active \in Enabled(entries) /\ sys.clients > 0 /\ Cardinality(CurrentWork) = 1
    /\ sys.ready /\ sys.clients > 0 /\ sys.active = None /\ Enabled(entries) # {} => sys.timer
    /\ \A id \in Known : entries[id].notBefore <= entries[id].due
=============================================================================
