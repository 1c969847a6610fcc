---------------------------- MODULE RuleUpdater ----------------------------
(***************************************************************************)
(* The updater of the signed phishing rules of one profile:                *)
(* RuleUpdater::Impl of                                                    *)
(* overlay/chrome/browser/ohos/url_protection/rule_updater.cc with the     *)
(* verification of rule_update_format.cc and local_rules.cc.               *)
(*                                                                         *)
(* Everything runs on one sequence, except the file work: Initialize and   *)
(* VerifyAndInstall run on a worker and answer with a reply task.  Between *)
(* the two, clients come and go, and the process may die at any point: the *)
(* cache file is then as the worker left it, while the watermark may lag   *)
(* behind, since preferences are written later.                            *)
(*                                                                         *)
(* up is the process, one field per member of Impl.  Timers and time       *)
(* limits are ticks that remain; clock is the wall clock that signed rules *)
(* are valid by.                                                           *)
(***************************************************************************)
EXTENDS Integers, Sequences

CONSTANTS Manifests,    \* every manifest ever signed: [seq, sha, gen, exp, version]
          Assets,       \* what the application package may hold
          Soon, Minute, Base, Period,   \* 10 s, 1 min, 5 min and 6 h, in ticks
          MaxFailures,  \* 7 in the code
          MaxClients, MaxClock, MaxCrashes   \* bounds of the exploration

NoText == ""   \* a digest or version that was never set

ASSUME DelaysAssumption ==
    /\ {Soon, Minute, Base, Period} \subseteq Nat \ {0}
    /\ Soon <= Minute /\ Minute <= Base /\ Base <= Period
ASSUME BoundsAssumption ==
    /\ MaxFailures \in Nat \ {0} /\ MaxClients \in Nat \ {0}
    /\ MaxClock \in Nat /\ MaxCrashes \in Nat
ASSUME ManifestsAssumption ==
    Manifests \subseteq [seq : Nat \ {0}, sha : STRING \ {NoText}, gen : Nat, exp : Nat, version : STRING]
ASSUME AssetsAssumption ==
    Assets \subseteq [found : BOOLEAN, valid : BOOLEAN, minimum : Nat,
                      gen : Nat, exp : Nat, version : STRING]

VARIABLES
    up,        \* the updater's members, its queues included
    disk,      \* rules.cache and the watermark preference as they are on disk
    assets,    \* the application package of this life
    clock,     \* base::Time::Now()
    crashes,   \* lives that ended
    newest,    \* history: the newest downloaded rules that were ever in force
    damaged    \* history: a restart lost both the cache and its watermark

vars == <<up, disk, assets, clock, crashes, newest, damaged>>

NoRules(status) == [status |-> status, seq |-> 0, sha |-> NoText, gen |-> 0, exp |-> 0, version |-> NoText]
NoManifest == [seq |-> 0, sha |-> NoText, gen |-> 0, exp |-> 0, version |-> NoText]
NoMark == [seq |-> 0, sha |-> NoText]
Mark(m) == [seq |-> m.seq, sha |-> m.sha]

Larger(a, b) == IF a >= b THEN a ELSE b
Smaller(a, b) == IF a <= b THEN a ELSE b

-----------------------------------------------------------------------------
(* Verification *)

IsUsable(r) == r.status = "ready" /\ r.gen <= clock /\ clock < r.exp

Ready(m) == [status |-> "ready", seq |-> m.seq, sha |-> m.sha, gen |-> m.gen, exp |-> m.exp,
             version |-> m.version]

(* The package's own rules, as ParseLocalRules classifies them.             *)
LoadLocalRules ==
    IF assets.exp = 0 THEN NoRules("missing")
    ELSE IF assets.gen > clock \/ assets.exp <= assets.gen THEN NoRules("invalid")
    ELSE [NoRules(IF assets.exp <= clock THEN "expired" ELSE "ready") EXCEPT
             !.gen = assets.gen, !.exp = assets.exp, !.version = assets.version]

VerifyRuleManifest(m, minimum) ==
    /\ assets.valid
    /\ m.seq >= Larger(minimum, assets.minimum)
    /\ m.gen <= clock /\ clock < m.exp

(* Mutant: a manifest of the installed sequence need not be the installed   *)
(* one.                                                                     *)
AcceptRuleSequence_AnyDigest(m, mark) == m.seq >= mark.seq

AcceptRuleSequence(m, mark) ==
    \/ m.seq > mark.seq
    \/ m.seq = mark.seq /\ mark.sha # NoText /\ m.sha = mark.sha

-----------------------------------------------------------------------------
(* Scheduling, and the life of the process *)

(* Mutant: the retry limit does not delay the timer.                        *)
Schedule_Early(s, delay) ==
    IF ~s.ready \/ ~s.loaded \/ ~s.valid \/ s.clients = 0 \/ s.updating THEN s
    ELSE [s EXCEPT !.due = Larger(delay, 1), !.timer = TRUE]

Schedule(s, delay) ==
    IF ~s.ready \/ ~s.loaded \/ ~s.valid \/ s.clients = 0 \/ s.updating THEN s
    ELSE [s EXCEPT !.due = Larger(Larger(delay, s.notBefore), 1), !.timer = TRUE]

InitializeState(s, load) ==
    [s EXCEPT !.initing = load,
              !.tasks = Append(@, [kind |-> "init", load |-> load, mark |-> s.mark])]

(* The constructor, with the watermark that is on disk.                     *)
NewUpdater(package, mark) ==
    LET s == [clients |-> 0, failures |-> 0, ready |-> ~package.found, loaded |-> ~package.found,
              initing |-> FALSE, updating |-> FALSE, valid |-> FALSE, mark |-> mark,
              pref |-> mark, manifest |-> NoManifest, rules |-> NoRules("missing"),
              source |-> "none", loader |-> "none", timer |-> FALSE, due |-> 0,
              notBefore |-> 0, tasks |-> <<>>, replies |-> <<>>]
    IN IF package.found THEN InitializeState(s, FALSE) ELSE s

Init ==
    /\ assets \in Assets
    /\ up = NewUpdater(assets, NoMark)
    /\ disk = [cache |-> NoManifest, mark |-> NoMark]
    /\ clock = 0
    /\ crashes = 0
    /\ newest = NoManifest
    /\ damaged = FALSE

(* Rules that come into force are remembered for the properties.            *)
Serve(m) == newest' = IF m.seq > newest.seq THEN m ELSE newest

(* The preferences reach the disk.                                          *)
CommitPendingWrite ==
    /\ disk' = [disk EXCEPT !.mark = up.pref]
    /\ UNCHANGED <<up, assets, clock, crashes, newest, damaged>>

(* The process ends, and a new one starts, perhaps of an updated package.   *)
Crash ==
    /\ crashes < MaxCrashes /\ crashes' = crashes + 1
    /\ assets' \in Assets
    /\ up' = NewUpdater(assets', disk.mark)
    /\ UNCHANGED <<disk, clock, newest, damaged>>

Tick ==
    /\ up.due > 0 \/ up.notBefore > 0
    /\ up' = [up EXCEPT !.due = Larger(@ - 1, 0), !.notBefore = Larger(@ - 1, 0)]
    /\ UNCHANGED <<disk, assets, clock, crashes, newest, damaged>>

ClockAdvances ==
    /\ clock < MaxClock /\ clock' = clock + 1
    /\ UNCHANGED <<up, disk, assets, crashes, newest, damaged>>

-----------------------------------------------------------------------------
(* Loading *)

(* What the worker finds in the cache file, if it can be read.              *)
CachedRules(task, readable) ==
    /\ readable /\ disk.cache # NoManifest
    /\ VerifyRuleManifest(disk.cache, task.mark.seq)
    /\ AcceptRuleSequence(disk.cache, task.mark)

(* The reply of Initialize.  Cached rules give way to usable rules of the   *)
(* package that are newer; their sequence counts all the same.              *)
InitialState(task, readable) ==
    LET package == LoadLocalRules
        cached == CachedRules(task, readable)
        download == cached /\ (~IsUsable(package) \/ disk.cache.gen >= package.gen)
    IN [kind |-> "init", load |-> task.load, valid |-> assets.valid,
        mark |-> IF cached THEN Mark(disk.cache) ELSE NoMark,
        download |-> download,
        rules |-> IF download THEN Ready(disk.cache) ELSE package]

(* The watermark is behind what was in force, and the cache cannot make up  *)
(* for it: the file cannot be read, or its rules have expired.              *)
Lost(task, readable) ==
    task.load /\ task.mark.seq < newest.seq /\ (~readable \/ disk.cache.exp <= clock)

(* On the worker.                                                           *)
Initialize(readable) ==
    /\ up.tasks # <<>> /\ Head(up.tasks).kind = "init"
    /\ LET task == Head(up.tasks)
           reply == IF task.load THEN InitialState(task, readable)
                    ELSE [kind |-> "init", load |-> FALSE, valid |-> assets.valid, mark |-> NoMark,
                          download |-> FALSE, rules |-> NoRules("missing")]
       IN /\ up' = [up EXCEPT !.tasks = Tail(@), !.replies = Append(@, reply)]
          /\ damaged' = (damaged \/ Lost(task, readable))
    /\ UNCHANGED <<disk, assets, clock, crashes, newest>>

(* Mutant: the watermark is only ever the one of the preferences.           *)
AdoptMark_Never(s, mark) == s

(* The cache may be ahead of the watermark that was read from disk.         *)
AdoptMark(s, mark) ==
    IF mark.seq >= s.mark.seq /\ mark.sha # NoText THEN [s EXCEPT !.mark = mark, !.pref = mark] ELSE s

OnInitialized ==
    LET r == Head(up.replies)
        read == [up EXCEPT !.replies = Tail(@), !.ready = TRUE, !.valid = r.valid]
        loaded == [read EXCEPT !.loaded = TRUE, !.initing = FALSE, !.rules = r.rules,
                      !.source = IF r.rules.status = "missing" THEN "none"
                                 ELSE IF r.download THEN "download" ELSE "package"]
        s == IF r.load THEN AdoptMark(loaded, r.mark) ELSE read
    IN /\ up.replies # <<>> /\ r.kind = "init"
       /\ up' = IF s.clients > 0 /\ ~s.loaded /\ ~s.initing THEN InitializeState(s, TRUE)
                ELSE Schedule(s, Soon)
       /\ IF r.load /\ r.download THEN Serve(disk.cache) ELSE UNCHANGED newest
       /\ UNCHANGED <<disk, assets, clock, crashes, damaged>>

-----------------------------------------------------------------------------
(* Clients: the check services that use local rules *)

Acquire ==
    LET s == [up EXCEPT !.clients = @ + 1]
        asks == ~s.loaded /\ ~s.initing
        empty == IF asks THEN [s EXCEPT !.rules = NoRules("loading")] ELSE s
        t == IF asks /\ s.ready THEN InitializeState(empty, TRUE) ELSE empty
    IN /\ up.clients < MaxClients
       /\ up' = IF t.clients = 1 THEN Schedule(t, Larger(Soon, t.due)) ELSE t
       /\ UNCHANGED <<disk, assets, clock, crashes, newest, damaged>>

(* The last client cancels a download, but not what the worker has begun.   *)
Release ==
    LET s == [up EXCEPT !.clients = @ - 1]
    IN /\ up.clients > 0
       /\ up' = IF s.clients > 0 THEN s
                ELSE [s EXCEPT !.timer = FALSE, !.loader = "none",
                               !.updating = @ /\ up.loader = "none"]
       /\ UNCHANGED <<disk, assets, clock, crashes, newest, damaged>>

-----------------------------------------------------------------------------
(* Updates *)

MayUpdate(s) ==
    s.ready /\ s.loaded /\ s.clients > 0 /\ s.valid /\ ~s.updating /\ s.notBefore = 0

Requested(s) ==
    IF MayUpdate(s)
    THEN [s EXCEPT !.timer = FALSE, !.updating = TRUE, !.notBefore = Minute, !.loader = "manifest"]
    ELSE s

(* By the user.                                                             *)
RequestUpdate ==
    /\ MayUpdate(up)
    /\ up' = Requested(up)
    /\ UNCHANGED <<disk, assets, clock, crashes, newest, damaged>>

(* By the timer, which a refused request does not start again.              *)
ScheduledUpdate ==
    /\ up.timer /\ up.due = 0
    /\ up' = Requested([up EXCEPT !.timer = FALSE])
    /\ UNCHANGED <<disk, assets, clock, crashes, newest, damaged>>

Finish(s) == Schedule([s EXCEPT !.updating = FALSE, !.failures = 0], Period)

Fail(s) ==
    LET failures == Smaller(s.failures + 1, MaxFailures)
        delay == Smaller(Base * 2^(failures - 1), Period)
    IN Schedule([s EXCEPT !.updating = FALSE, !.failures = failures, !.notBefore = delay], delay)

(* The manifest's download failed, or its envelope or signature is wrong.   *)
OnBadManifest ==
    /\ up.loader = "manifest"
    /\ up' = Fail([up EXCEPT !.loader = "none"])
    /\ UNCHANGED <<disk, assets, clock, crashes, newest, damaged>>

(* The server, or whoever answers for it, offers any signed manifest.       *)
OnManifest(m) ==
    LET s == [up EXCEPT !.loader = "none"]
        current == m.seq = up.mark.seq /\ up.source = "download" /\ m.version = up.rules.version
                   /\ IsUsable(up.rules)
    IN /\ up.loader = "manifest"
       /\ up' = IF \/ ~VerifyRuleManifest(m, up.mark.seq)
                   \/ m.gen < up.rules.gen
                   \/ ~AcceptRuleSequence(m, up.mark)
                THEN Fail(s)
                ELSE IF current THEN Finish(s)
                ELSE [s EXCEPT !.manifest = m, !.loader = "payload"]
       /\ UNCHANGED <<disk, assets, clock, crashes, newest, damaged>>

OnPayload(downloaded) ==
    LET s == [up EXCEPT !.loader = "none"]
    IN /\ up.loader = "payload"
       /\ up' = IF downloaded
                THEN [s EXCEPT !.tasks = Append(@, [kind |-> "install", m |-> up.manifest])]
                ELSE Fail(s)
       /\ UNCHANGED <<disk, assets, clock, crashes, newest, damaged>>

(* On the worker: ok is that the file is read, is the payload the manifest  *)
(* describes, and is written to the cache.                                  *)
VerifyAndInstall(ok) ==
    LET task == Head(up.tasks)
        installed == ok /\ task.m.gen <= clock /\ clock < task.m.exp
    IN /\ up.tasks # <<>> /\ task.kind = "install"
       /\ disk' = IF installed THEN [disk EXCEPT !.cache = task.m] ELSE disk
       /\ up' = [up EXCEPT !.tasks = Tail(@),
                           !.replies = Append(@, [kind |-> "install", m |-> task.m,
                                                  installed |-> installed])]
       /\ UNCHANGED <<assets, clock, crashes, newest, damaged>>

OnInstalled ==
    LET r == Head(up.replies)
        s == [up EXCEPT !.replies = Tail(@)]
        mark == [seq |-> r.m.seq, sha |-> up.manifest.sha]
    IN /\ up.replies # <<>> /\ r.kind = "install"
       /\ IF r.installed
          THEN /\ up' = Finish([s EXCEPT !.mark = mark, !.pref = mark, !.rules = Ready(r.m),
                                         !.source = "download"])
               /\ Serve(r.m)
          ELSE up' = Fail(s) /\ UNCHANGED newest
       /\ UNCHANGED <<disk, assets, clock, crashes, damaged>>

-----------------------------------------------------------------------------
(* Specification *)

Worker == (\E readable \in BOOLEAN : Initialize(readable)) \/ (\E ok \in BOOLEAN : VerifyAndInstall(ok))
Reply == OnInitialized \/ OnInstalled
Loaded ==
    \/ OnBadManifest \/ \E m \in Manifests : OnManifest(m)
    \/ \E downloaded \in BOOLEAN : OnPayload(downloaded)

Next ==
    \/ Worker \/ Reply \/ Loaded \/ Tick \/ ScheduledUpdate
    \/ Acquire \/ Release \/ RequestUpdate
    \/ CommitPendingWrite \/ Crash \/ ClockAdvances

Spec == Init /\ [][Next]_vars

(* Tasks and timers run, and a download ends: the loader gives up after 30  *)
(* seconds.                                                                 *)
FairSpec ==
    /\ Spec
    /\ WF_vars(Worker) /\ WF_vars(Reply) /\ WF_vars(Loaded)
    /\ WF_vars(Tick) /\ WF_vars(ScheduledUpdate)

-----------------------------------------------------------------------------
(* Properties *)

Marks == {NoMark} \cup {Mark(m) : m \in Manifests}
Files == {NoManifest} \cup Manifests
RuleRecords == [status : {"missing", "invalid", "expired", "ready", "loading"}, seq : Nat,
                sha : STRING, gen : Nat, exp : Nat, version : STRING]
Tasks == [kind : {"init"}, load : BOOLEAN, mark : Marks] \cup [kind : {"install"}, m : Manifests]
Replies == [kind : {"init"}, load : BOOLEAN, valid : BOOLEAN, mark : Marks, download : BOOLEAN,
            rules : RuleRecords]
           \cup [kind : {"install"}, m : Manifests, installed : BOOLEAN]

(* Every member has the type its handlers keep it in.                       *)
TypeOK ==
    /\ up \in [clients : 0..MaxClients, failures : 0..MaxFailures, ready : BOOLEAN,
               loaded : BOOLEAN, initing : BOOLEAN, updating : BOOLEAN, valid : BOOLEAN,
               mark : Marks, pref : Marks, manifest : Files, rules : RuleRecords,
               source : {"none", "package", "download"}, loader : {"none", "manifest", "payload"},
               timer : BOOLEAN, due : Nat, notBefore : Nat,
               tasks : Seq(Tasks), replies : Seq(Replies)]
    /\ disk \in [cache : Files, mark : Marks]
    /\ assets \in Assets
    /\ clock \in 0..MaxClock /\ crashes \in 0..MaxCrashes
    /\ newest \in Files
    /\ damaged \in BOOLEAN

(* Replayed manifests, restarts and lagging watermarks never bring older    *)
(* downloaded rules into force: that takes a restart which has lost the     *)
(* watermark and finds the cache damaged or expired.                        *)
NoRollback == up.source = "download" /\ up.rules.seq < newest.seq => damaged

(* Whenever the process ends, the next one accepts the rules it finds in    *)
(* the cache: the file is never behind the watermark, in memory or on disk. *)
Covers(m, mark) == m.seq > mark.seq \/ (m.seq = mark.seq /\ m.sha = mark.sha)
CacheAccepted == disk.cache # NoManifest => Covers(disk.cache, disk.mark) /\ Covers(disk.cache, up.mark)

(* A package that configures updates keeps being updated while somebody     *)
(* uses the rules: updates start again and again, and each one ends, so no  *)
(* order of clients, failures and limits stops the timer for good.          *)
KeepsUpdating ==
    /\ []<>(up.updating \/ up.clients = 0 \/ ~assets.valid \/ ~assets.found)
    /\ []<>(~up.updating)
=============================================================================
