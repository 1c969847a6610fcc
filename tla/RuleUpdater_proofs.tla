------------------------- MODULE RuleUpdater_proofs -------------------------
(***************************************************************************)
(* Theorems about RuleUpdater, for all manifests, packages, delays and     *)
(* limits.                                                                 *)
(*                                                                         *)
(* IInv is inductive.  Stage says that the worker has at most one task,    *)
(* and which one at each moment of the updater's life: this is what makes  *)
(* the answer of the worker apply to the state it was asked from.  Durable *)
(* relates what is on disk to the memory of the process, and Floor says    *)
(* what a manifest must reach to be accepted.                              *)
(***************************************************************************)
EXTENDS RuleUpdater, TLAPS

Fields == {"clients", "failures", "ready", "loaded", "initing", "updating", "valid", "mark",
           "pref", "manifest", "rules", "source", "loader", "timer", "due", "notBefore",
           "tasks", "replies"}

(* The types of the members that the argument compares.                     *)
Shape ==
    /\ DOMAIN up = Fields
    /\ up.mark \in Marks /\ up.manifest \in Files
    /\ disk \in [cache : Files, mark : Marks]
    /\ assets \in Assets /\ clock \in Nat /\ newest \in Files

Idle == up.tasks = <<>> /\ up.replies = <<>>
Asked(task) == up.tasks = <<task>> /\ up.replies = <<>>
Told(reply) == up.tasks = <<>> /\ up.replies = <<reply>>

AtLeast(m) == ~damaged => newest.seq <= m.seq

(* The least sequence that VerifyRuleManifest lets through is not older     *)
(* than what was in force.                                                  *)
FloorHolds == ~damaged => newest.seq <= up.mark.seq \/ newest.seq <= assets.minimum

(* What Initialize found, while its reply is on the way.                    *)
InitialReply(r) ==
    /\ r.kind = "init" /\ (r.load <=> up.initing) /\ (r.valid <=> assets.valid)
    /\ r.load =>
          \/ r.mark = NoMark /\ ~r.download /\ (assets.valid => FloorHolds)
          \/ /\ disk.cache \in Manifests /\ r.mark = Mark(disk.cache)
             /\ r.download => r.rules.seq = disk.cache.seq

(* The manifest of the update under way was accepted, and still would be.   *)
Offered ==
    up.manifest \in Manifests /\ AcceptRuleSequence(up.manifest, up.mark) /\ AtLeast(up.manifest)

Starting ==
    /\ ~up.ready \/ up.initing
    /\ ~up.loaded /\ ~up.updating /\ up.loader = "none" /\ up.source = "none"
    /\ \/ Asked([kind |-> "init", load |-> up.initing, mark |-> up.mark])
       \/ \E r : Told(r) /\ InitialReply(r)

Resting ==
    /\ up.ready /\ ~up.initing /\ ~up.updating /\ up.loader = "none" /\ Idle
    /\ ~up.loaded => up.source = "none"

Fetching ==
    /\ up.ready /\ up.loaded /\ ~up.initing /\ up.updating /\ up.valid /\ Idle
    /\ \/ up.loader = "manifest"
       \/ up.loader = "payload" /\ Offered

Installing ==
    /\ up.ready /\ up.loaded /\ ~up.initing /\ up.updating /\ up.valid /\ up.loader = "none"
    /\ Offered
    /\ \/ Asked([kind |-> "install", m |-> up.manifest])
       \/ \E ok : /\ Told([kind |-> "install", m |-> up.manifest, installed |-> ok])
                  /\ ok => disk.cache = up.manifest

Stage == Starting \/ Resting \/ Fetching \/ Installing

Durable ==
    /\ up.pref = up.mark /\ Covers(up.mark, disk.mark)
    /\ disk.cache.gen <= clock
    /\ AtLeast(disk.cache)

Floor == up.loaded /\ up.valid => FloorHolds

IInv == Shape /\ Stage /\ Durable /\ Floor /\ CacheAccepted /\ NoRollback

-----------------------------------------------------------------------------
(* The operators that the handlers share *)

(* t is s but for the clients, the timer and the delays.                    *)
Keeps(s, t) ==
    /\ DOMAIN t = Fields
    /\ (t.ready <=> s.ready) /\ (t.loaded <=> s.loaded) /\ t.initing = s.initing
    /\ (t.updating <=> s.updating) /\ (t.valid <=> s.valid)
    /\ t.mark = s.mark /\ t.pref = s.pref /\ t.manifest = s.manifest
    /\ t.rules = s.rules /\ t.source = s.source /\ t.loader = s.loader
    /\ t.tasks = s.tasks /\ t.replies = s.replies

(* Schedule sets the timer and nothing else.                                *)
LEMMA ScheduleKeeps ==
    ASSUME NEW s, DOMAIN s = Fields, NEW delay
    PROVE  Keeps(s, Schedule(s, delay))
<1>1. CASE Schedule(s, delay) = s
  BY <1>1 DEF Keeps
<1>2. CASE Schedule(s, delay) = [s EXCEPT !.due = Larger(Larger(delay, s.notBefore), 1),
                                          !.timer = TRUE]
  BY <1>2 DEF Keeps, Fields
<1> QED BY <1>1, <1>2 DEF Schedule

(* A finished update, like a failed one, leaves the rest of the members.    *)
LEMMA FinishKeeps ==
    ASSUME NEW s, DOMAIN s = Fields
    PROVE  Keeps([s EXCEPT !.updating = FALSE], Finish(s))
<1> DEFINE t == [s EXCEPT !.updating = FALSE, !.failures = 0]
<1>1. DOMAIN t = Fields /\ Keeps([s EXCEPT !.updating = FALSE], t)
  BY DEF Keeps, Fields
<1>2. Finish(s) = Schedule(t, Period)
  BY DEF Finish
<1> HIDE DEF t
<1>3. Keeps(t, Schedule(t, Period))
  BY <1>1, ScheduleKeeps
<1> QED BY <1>1, <1>2, <1>3 DEF Keeps

LEMMA FailKeeps ==
    ASSUME NEW s, DOMAIN s = Fields
    PROVE  Keeps([s EXCEPT !.updating = FALSE], Fail(s))
<1> DEFINE failures == Smaller(s.failures + 1, MaxFailures)
           delay == Smaller(Base * 2^(failures - 1), Period)
           t == [s EXCEPT !.updating = FALSE, !.failures = failures, !.notBefore = delay]
<1>1. Fail(s) = Schedule(t, delay)
  BY DEF Fail
<1> HIDE DEF failures, delay
<1>2. DOMAIN t = Fields /\ Keeps([s EXCEPT !.updating = FALSE], t)
  BY DEF Keeps, Fields
<1> HIDE DEF t
<1>3. Keeps(t, Schedule(t, delay))
  BY <1>2, ScheduleKeeps
<1> QED BY <1>1, <1>2, <1>3 DEF Keeps

(* Sequences and marks of manifests, of files and of packages.              *)
LEMMA Types ==
    /\ \A m \in Manifests : m \in Files /\ m.seq \in Nat /\ m.seq > 0 /\ m.sha # NoText
                            /\ m.gen \in Nat /\ m.exp \in Nat /\ Mark(m) \in Marks
    /\ \A m \in Files : m.seq \in Nat /\ m.gen \in Nat /\ m.exp \in Nat
                        /\ (m # NoManifest => m \in Manifests)
    /\ \A k \in Marks : k.seq \in Nat /\ (k.sha = NoText => k = NoMark)
    /\ \A a \in Assets : a.minimum \in Nat
    /\ NoManifest \in Files /\ NoManifest.seq = 0 /\ NoManifest.gen = 0
    /\ NoMark \in Marks /\ NoMark.seq = 0 /\ NoMark.sha = NoText
    /\ \A m : Mark(m).seq = m.seq /\ Mark(m).sha = m.sha
<1>1. \A m \in Manifests : m.seq \in Nat /\ m.seq > 0 /\ m.sha # NoText /\ m.gen \in Nat /\ m.exp \in Nat
  BY ManifestsAssumption
<1>2. \A m : Mark(m).seq = m.seq /\ Mark(m).sha = m.sha
  BY DEF Mark
<1>3. NoManifest.seq = 0 /\ NoManifest.gen = 0 /\ NoManifest.exp = 0
  BY DEF NoManifest
<1>4. NoMark.seq = 0 /\ NoMark.sha = NoText
  BY DEF NoMark
<1>5. \A m \in Manifests : m \in Files /\ Mark(m) \in Marks
  BY DEF Files, Marks
<1>6. NoManifest \in Files /\ NoMark \in Marks
  BY DEF Files, Marks
<1>7. \A m \in Files : m # NoManifest => m \in Manifests
  BY DEF Files
<1>8. \A m \in Files : m.seq \in Nat /\ m.gen \in Nat /\ m.exp \in Nat
  <2> TAKE m \in Files
  <2>1. CASE m = NoManifest
    BY <1>3, <2>1
  <2>2. CASE m \in Manifests
    BY <1>1, <2>2
  <2> QED BY <1>7, <2>1, <2>2
<1>9. \A k \in Marks : k.seq \in Nat /\ (k.sha = NoText => k = NoMark)
  BY <1>1, <1>2, <1>4 DEF Marks
<1>10. \A a \in Assets : a.minimum \in Nat
  BY AssetsAssumption
<1> QED BY <1>1, <1>2, <1>3, <1>4, <1>5, <1>6, <1>7, <1>8, <1>9, <1>10

(* A manifest that is accepted after k covers all that k covers.            *)
LEMMA AcceptedCovers ==
    ASSUME NEW m, NEW k, NEW d, m.seq \in Nat, k.seq \in Nat, d.seq \in Nat,
           AcceptRuleSequence(m, k) \/ Covers(m, k), Covers(k, d)
    PROVE  Covers(m, k) /\ Covers(m, d)
  BY DEF AcceptRuleSequence, Covers

-----------------------------------------------------------------------------
(* The steps *)

(* The parts of IInv that a step of the timers or of an update that leaves  *)
(* marks, rules and the disk alone cannot disturb.                          *)
Rest(s) ==
    /\ DOMAIN s = Fields /\ s.mark = up.mark /\ s.pref = up.pref
    /\ s.rules = up.rules /\ s.source = up.source
    /\ (s.loaded <=> up.loaded) /\ (s.valid <=> up.valid)
    /\ UNCHANGED <<disk, assets, clock, newest, damaged>>

LEMMA RestStays ==
    ASSUME IInv, Rest(up'), up'.manifest \in Files
    PROVE  Shape' /\ Durable' /\ Floor' /\ CacheAccepted' /\ NoRollback'
<1> USE DEF IInv, Rest
<1>1. Shape'
  BY DEF Shape
<1>2. Durable'
  BY DEF Durable, AtLeast, Covers
<1>3. Floor'
  BY DEF Floor, FloorHolds
<1>4. CacheAccepted'
  BY DEF CacheAccepted, Covers
<1>5. NoRollback'
  BY DEF NoRollback
<1> QED BY <1>1, <1>2, <1>3, <1>4, <1>5

LEMMA StageStays ==
    ASSUME Stage, Keeps(up, up'), UNCHANGED <<disk, assets, newest, damaged>>
    PROVE  Stage'
<1> USE DEF Keeps
<1>1. Offered => Offered'
  BY DEF Offered, AtLeast, AcceptRuleSequence
<1>2. \A r : InitialReply(r) => InitialReply(r)'
  BY DEF InitialReply, FloorHolds
<1>3. ASSUME Starting PROVE Starting'
  <2>1. CASE Asked([kind |-> "init", load |-> up.initing, mark |-> up.mark])
    BY <1>3, <2>1 DEF Starting, Asked
  <2>2. CASE \E r : Told(r) /\ InitialReply(r)
    BY <1>2, <1>3, <2>2 DEF Starting, Told
  <2> QED BY <1>3, <2>1, <2>2 DEF Starting
<1>4. Resting => Resting'
  BY DEF Resting, Idle
<1>5. Fetching => Fetching'
  BY <1>1 DEF Fetching, Idle
<1>6. ASSUME Installing PROVE Installing'
  <2>1. CASE Asked([kind |-> "install", m |-> up.manifest])
    BY <1>1, <1>6, <2>1 DEF Installing, Asked
  <2>2. CASE \E ok : /\ Told([kind |-> "install", m |-> up.manifest, installed |-> ok])
                     /\ ok => disk.cache = up.manifest
    BY <1>1, <1>6, <2>2 DEF Installing, Told
  <2> QED BY <1>6, <2>1, <2>2 DEF Installing
<1> QED BY <1>3, <1>4, <1>5, <1>6 DEF Stage

LEMMA TickStep ==
    ASSUME IInv, Tick
    PROVE  IInv'
<1> USE DEF IInv
<1>1. Keeps(up, up')
  BY DEF Tick, Keeps, Shape, Fields
<1>2. Rest(up') /\ up'.manifest \in Files
  BY <1>1 DEF Tick, Rest, Keeps, Shape
<1>3. Stage'
  BY <1>1, StageStays DEF Tick
<1> QED BY <1>2, <1>3, RestStays

(* So does any step that only keeps its members.                            *)
LEMMA KeepsStep ==
    ASSUME IInv, Keeps(up, up'), UNCHANGED <<disk, assets, clock, newest, damaged>>
    PROVE  IInv'
<1>1. Rest(up') /\ up'.manifest \in Files
  BY DEF IInv, Rest, Keeps, Shape
<1>2. Stage'
  BY StageStays DEF IInv
<1> QED BY <1>1, <1>2, RestStays DEF IInv

LEMMA RequestedStep ==
    ASSUME IInv, NEW s, Keeps(up, s), up' = Requested(s),
           UNCHANGED <<disk, assets, clock, newest, damaged>>
    PROVE  IInv'
<1>1. CASE ~MayUpdate(s)
  BY <1>1, KeepsStep DEF Requested
<1>2. CASE MayUpdate(s)
  <2>1. up' = [s EXCEPT !.timer = FALSE, !.updating = TRUE, !.notBefore = Minute,
                        !.loader = "manifest"]
    BY <1>2 DEF Requested
  <2>2. Keeps([s EXCEPT !.updating = TRUE, !.loader = "manifest"], up')
    BY <2>1 DEF Keeps, Fields
  <2>3. Resting
    BY <1>2 DEF IInv, Stage, Starting, Fetching, Installing, MayUpdate, Keeps
  <2>4. Rest(up') /\ up'.manifest \in Files
    BY <2>2 DEF Rest, Keeps, IInv, Shape, Fields
  <2>5. Fetching'
    BY <1>2, <2>2, <2>3 DEF Fetching, Resting, Idle, MayUpdate, Keeps, Fields
  <2> QED BY <2>4, <2>5, RestStays DEF IInv, Stage
<1> QED BY <1>1, <1>2

LEMMA ReleaseStep ==
    ASSUME IInv, Release
    PROVE  IInv'
<1>0. DOMAIN up = Fields
  BY DEF IInv, Shape
<1>1. CASE Keeps(up, up')
  BY <1>1, KeepsStep DEF Release
<1>2. CASE Fetching /\ up' = [up EXCEPT !.clients = @ - 1, !.timer = FALSE, !.loader = "none",
                                        !.updating = FALSE]
  <2>1. Rest(up') /\ up'.manifest \in Files
    BY <1>0, <1>2 DEF Release, Rest, IInv, Shape, Fields
  <2>2. Resting'
    BY <1>0, <1>2 DEF Resting, Fetching, Idle, Fields
  <2> QED BY <2>1, <2>2, RestStays DEF IInv, Stage
<1>3. Keeps(up, up') \/ (Fetching /\ up' = [up EXCEPT !.clients = @ - 1, !.timer = FALSE,
                                               !.loader = "none", !.updating = FALSE])
  <2>1. CASE up.loader = "none"
    BY <1>0, <2>1 DEF Release, Keeps, Fields
  <2>2. CASE up.loader # "none"
    <3>1. Fetching
      BY <2>2 DEF IInv, Stage, Starting, Resting, Installing
    <3>2. CASE up' = [up EXCEPT !.clients = @ - 1]
      BY <1>0, <3>2 DEF Keeps, Fields
    <3>3. CASE up' = [[up EXCEPT !.clients = @ - 1] EXCEPT
                         !.timer = FALSE, !.loader = "none",
                         !.updating = @ /\ up.loader = "none"]
      <4>1. up' = [[up EXCEPT !.clients = @ - 1] EXCEPT
                      !.timer = FALSE, !.loader = "none", !.updating = FALSE]
        BY <2>2, <3>3
      <4> QED BY <3>1, <4>1
    <3> QED BY <3>2, <3>3 DEF Release
  <2> QED BY <2>1, <2>2
<1> QED BY <1>1, <1>2, <1>3

(* A download that ends without an installation.                            *)
LEMMA EndStep ==
    ASSUME IInv, Fetching, NEW s, s = [up EXCEPT !.loader = "none"],
           up' = Fail(s) \/ up' = Finish(s), UNCHANGED <<disk, assets, clock, newest, damaged>>
    PROVE  IInv'
<1>1. DOMAIN s = Fields
  BY DEF IInv, Shape
<1>2. Keeps([s EXCEPT !.updating = FALSE], up')
  BY <1>1, FailKeeps, FinishKeeps
<1>3. Rest(up') /\ up'.manifest \in Files
  BY <1>2 DEF Rest, Keeps, IInv, Shape, Fields
<1>4. Resting'
  BY <1>1, <1>2 DEF Resting, Fetching, Idle, Keeps, Fields
<1> QED BY <1>3, <1>4, RestStays DEF IInv, Stage

LEMMA OnManifestStep ==
    ASSUME IInv, NEW m \in Manifests, OnManifest(m)
    PROVE  IInv'
<1> DEFINE s == [up EXCEPT !.loader = "none"]
<1>1. Fetching
  BY DEF OnManifest, IInv, Stage, Starting, Resting, Installing
<1>2. UNCHANGED <<disk, assets, clock, newest, damaged>>
  BY DEF OnManifest
<1>3. CASE up' = Fail(s) \/ up' = Finish(s)
  BY <1>1, <1>2, <1>3, EndStep
<1>4. CASE /\ VerifyRuleManifest(m, up.mark.seq) /\ AcceptRuleSequence(m, up.mark)
           /\ up' = [s EXCEPT !.manifest = m, !.loader = "payload"]
  <2>0. DOMAIN up = Fields /\ up.mark \in Marks /\ newest \in Files /\ assets \in Assets
    BY DEF IInv, Shape
  <2>1. Rest(up') /\ up'.manifest \in Files
    BY <1>2, <1>4, <2>0, Types DEF Rest, Fields
  <2>2. FloorHolds
    BY <1>1 DEF IInv, Floor, Fetching
  <2>3. AtLeast(m)
    BY <1>4, <2>0, <2>2, Types DEF AtLeast, FloorHolds, VerifyRuleManifest, Larger
  <2>4. Offered'
    BY <1>2, <1>4, <2>0, <2>3 DEF Offered, AtLeast, Fields
  <2>5. Fetching'
    BY <1>1, <1>4, <2>0, <2>4 DEF Fetching, Idle, Fields
  <2> QED BY <2>1, <2>5, RestStays DEF IInv, Stage
<1> QED BY <1>3, <1>4 DEF OnManifest

LEMMA OnPayloadStep ==
    ASSUME IInv, NEW downloaded \in BOOLEAN, OnPayload(downloaded)
    PROVE  IInv'
<1> DEFINE s == [up EXCEPT !.loader = "none"]
<1>1. Fetching /\ Offered
  BY DEF OnPayload, IInv, Stage, Starting, Resting, Fetching, Installing
<1>2. UNCHANGED <<disk, assets, clock, newest, damaged>>
  BY DEF OnPayload
<1>3. CASE up' = Fail(s)
  BY <1>1, <1>2, <1>3, EndStep
<1>4. CASE up' = [s EXCEPT !.tasks = Append(@, [kind |-> "install", m |-> up.manifest])]
  <2>0. DOMAIN up = Fields
    BY DEF IInv, Shape
  <2>1. Rest(up') /\ up'.manifest \in Files
    BY <1>2, <1>4, <2>0 DEF Rest, Fields, IInv, Shape
  <2>2. Offered'
    BY <1>1, <1>2, <1>4, <2>0 DEF Offered, AtLeast, Fields
  <2>3. up'.tasks = <<[kind |-> "install", m |-> up'.manifest]>> /\ up'.replies = <<>>
    <3>1. up'.tasks = Append(up.tasks, [kind |-> "install", m |-> up.manifest])
      BY <1>4, <2>0 DEF Fields
    <3>2. up'.manifest = up.manifest /\ up'.replies = up.replies
      BY <1>4, <2>0 DEF Fields
    <3>3. up.tasks = <<>> /\ up.replies = <<>>
      BY <1>1 DEF Fetching, Idle
    <3> QED BY <3>1, <3>2, <3>3
  <2>4. Installing'
    BY <1>1, <1>4, <2>0, <2>2, <2>3 DEF Fetching, Installing, Asked, Fields
  <2> QED BY <2>1, <2>4, RestStays DEF IInv, Stage
<1> QED BY <1>3, <1>4 DEF OnPayload

(* The worker's answers find the members as they were when it was asked.    *)
LEMMA VerifyAndInstallStep ==
    ASSUME IInv, NEW ok \in BOOLEAN, VerifyAndInstall(ok)
    PROVE  IInv'
<1> DEFINE m == up.manifest
           installed == ok /\ m.gen <= clock /\ clock < m.exp
<1>0. /\ DOMAIN up = Fields /\ up.mark \in Marks /\ newest \in Files /\ clock \in Nat
      /\ disk \in [cache : Files, mark : Marks]
  BY DEF IInv, Shape
<1>1. Installing /\ Asked([kind |-> "install", m |-> m])
  <2>1. ~Starting /\ ~Resting /\ ~Fetching
    BY DEF VerifyAndInstall, Starting, Resting, Fetching, Idle, Asked, Told
  <2> QED BY <2>1 DEF IInv, Stage, Installing, VerifyAndInstall, Told
<1>2. Offered
  BY <1>1 DEF Installing
<1>3. /\ disk' = IF installed THEN [disk EXCEPT !.cache = m] ELSE disk
      /\ up' = [up EXCEPT !.tasks = Tail(@),
                          !.replies = Append(@, [kind |-> "install", m |-> m,
                                                 installed |-> installed])]
      /\ UNCHANGED <<assets, clock, newest, damaged>>
  <2>1. Head(up.tasks) = [kind |-> "install", m |-> m]
    BY <1>1 DEF Asked
  <2>2. Head(up.tasks).m = m
    BY <2>1
  <2> QED BY <2>2 DEF VerifyAndInstall
<1> HIDE DEF m
<1>4. /\ up'.tasks = <<>>
      /\ up'.replies = <<[kind |-> "install", m |-> m, installed |-> installed]>>
  <2>1. /\ up'.tasks = Tail(up.tasks)
        /\ up'.replies = Append(up.replies, [kind |-> "install", m |-> m, installed |-> installed])
    BY <1>0, <1>3 DEF Fields
  <2>2. up.tasks = <<[kind |-> "install", m |-> m]>> /\ up.replies = <<>>
    BY <1>1 DEF Asked
  <2> QED BY <2>1, <2>2
<1>5. Keeps([up EXCEPT !.tasks = up'.tasks, !.replies = up'.replies], up')
  BY <1>0, <1>3 DEF Keeps, Fields
<1>6. m \in Manifests /\ m \in Files /\ m.gen \in Nat /\ up'.manifest = m
  BY <1>0, <1>2, <1>5, Types DEF Offered, Keeps, Fields, m
<1>7. /\ disk' \in [cache : Files, mark : Marks] /\ disk'.mark = disk.mark
      /\ disk'.cache = IF installed THEN m ELSE disk.cache
  BY <1>0, <1>3, <1>6
<1>8. Shape'
  BY <1>0, <1>3, <1>5, <1>6, <1>7 DEF Shape, Keeps, Fields, IInv
<1>9. Stage'
  <2>1. Offered'
    BY <1>0, <1>2, <1>3, <1>5 DEF Offered, AtLeast, Keeps, Fields
  <2>2. \E k : /\ Told([kind |-> "install", m |-> up.manifest, installed |-> k])'
               /\ k => disk'.cache = up'.manifest
    BY <1>4, <1>6, <1>7 DEF Told
  <2> QED BY <1>0, <1>1, <1>5, <2>1, <2>2 DEF Stage, Installing, Keeps, Fields
<1>10. Durable'
  BY <1>0, <1>2, <1>3, <1>5, <1>6, <1>7 DEF Durable, AtLeast, Covers, IInv, Keeps, Fields, Offered, m
<1>11. Floor'
  BY <1>0, <1>3, <1>5 DEF Floor, FloorHolds, IInv, Keeps, Fields
<1>12. CacheAccepted'
  <2>1. CASE installed
    <3>1. Covers(m, up.mark) /\ Covers(m, disk.mark)
      BY <1>0, <1>2, <1>6, Types, AcceptedCovers DEF IInv, Durable, Offered, m
    <3> QED BY <1>0, <1>5, <1>7, <2>1, <3>1 DEF CacheAccepted, Covers, Keeps, Fields
  <2>2. CASE ~installed
    BY <1>0, <1>5, <1>7, <2>2 DEF CacheAccepted, Covers, IInv, Keeps, Fields
  <2> QED BY <2>1, <2>2
<1>13. NoRollback'
  BY <1>0, <1>3, <1>5 DEF NoRollback, IInv, Keeps, Fields
<1> QED BY <1>8, <1>9, <1>10, <1>11, <1>12, <1>13 DEF IInv

LEMMA OnInstalledStep ==
    ASSUME IInv, OnInstalled
    PROVE  IInv'
<1> DEFINE m == up.manifest
           mark == [seq |-> m.seq, sha |-> m.sha]
           s == [up EXCEPT !.replies = Tail(@)]
           t == [s EXCEPT !.mark = mark, !.pref = mark, !.rules = Ready(m), !.source = "download"]
<1>0. /\ DOMAIN up = Fields /\ up.mark \in Marks /\ newest \in Files /\ clock \in Nat
      /\ disk \in [cache : Files, mark : Marks] /\ assets \in Assets /\ up.manifest \in Files
  BY DEF IInv, Shape
<1>1. PICK ok : /\ Installing /\ Told([kind |-> "install", m |-> m, installed |-> ok])
                /\ ok => disk.cache = m
  <2>1. ~Starting /\ ~Resting /\ ~Fetching
    BY DEF OnInstalled, Starting, Resting, Fetching, Idle, Asked, Told, InitialReply
  <2> QED BY <2>1 DEF IInv, Stage, Installing, OnInstalled, Asked
<1>2. Offered
  BY <1>1 DEF Installing
<1>3. up.tasks = <<>> /\ s.tasks = <<>> /\ s.replies = <<>> /\ DOMAIN s = Fields
  <2>1. s.replies = Tail(up.replies)
    BY <1>0 DEF Fields
  <2>2. Tail(up.replies) = <<>> /\ up.tasks = <<>>
    BY <1>1 DEF Told
  <2> QED BY <1>0, <2>1, <2>2 DEF Fields
<1>4. /\ IF ok THEN up' = Finish(t) /\ Serve(m) ELSE up' = Fail(s) /\ UNCHANGED newest
      /\ UNCHANGED <<disk, assets, clock, damaged>>
  <2>1. Head(up.replies) = [kind |-> "install", m |-> m, installed |-> ok]
    BY <1>1 DEF Told
  <2>2. Head(up.replies).m = m /\ (Head(up.replies).installed <=> ok)
    BY <2>1
  <2> QED BY <2>2 DEF OnInstalled
<1>5. CASE ok
  <2>1. disk.cache = m /\ m \in Manifests /\ mark = Mark(m) /\ mark \in Marks
    BY <1>1, <1>2, <1>5, Types DEF Offered, Mark
  <2> HIDE DEF mark
  <2>2. DOMAIN t = Fields
    BY <1>3
  <2>3. Keeps([t EXCEPT !.updating = FALSE], up')
    BY <1>4, <1>5, <2>2, FinishKeeps
  <2>4. /\ up'.mark = mark /\ up'.pref = mark /\ up'.source = "download" /\ up'.loader = up.loader
        /\ up'.rules = Ready(m) /\ up'.tasks = s.tasks /\ up'.replies = s.replies
        /\ up'.ready /\ up'.loaded /\ ~up'.updating /\ up'.initing = up.initing
        /\ up'.manifest = m /\ DOMAIN up' = Fields
    BY <1>0, <1>1, <2>3 DEF Installing, Keeps, Fields
  <2>5. newest' \in Files /\ (~damaged => newest'.seq = m.seq)
    <3>1. ~damaged => newest.seq <= m.seq
      BY <1>2 DEF Offered, AtLeast
    <3>2. newest' = IF m.seq > newest.seq THEN m ELSE newest
      BY <1>4, <1>5 DEF Serve
    <3>3. m.seq \in Nat /\ newest.seq \in Nat /\ m \in Files
      BY <1>0, <2>1, Types
    <3> QED BY <1>0, <3>1, <3>2, <3>3
  <2>6. m.seq \in Nat /\ mark.seq = m.seq /\ mark.sha = m.sha
    BY <2>1, Types
  <2>7. Shape'
    BY <1>0, <1>4, <2>1, <2>4, <2>5 DEF Shape
  <2>8. Resting'
    BY <1>1, <1>3, <2>4 DEF Installing, Resting, Idle
  <2>9. Durable'
    <3>1. Covers(m, disk.mark)
      <4>1. Covers(up.mark, disk.mark) /\ AcceptRuleSequence(m, up.mark)
        BY <1>2 DEF Offered, IInv, Durable
      <4>2. up.mark.seq \in Nat /\ disk.mark.seq \in Nat
        BY <1>0, Types
      <4> QED BY <2>6, <4>1, <4>2, AcceptedCovers
    <3>2. Covers(mark, disk.mark)
      BY <2>6, <3>1 DEF Covers
    <3>3. AtLeast(disk.cache)'
      BY <1>4, <2>1, <2>5, <2>6 DEF AtLeast
    <3> QED BY <1>4, <2>4, <3>2, <3>3 DEF Durable, IInv
  <2>10. Floor'
    BY <1>4, <2>4, <2>5, <2>6 DEF Floor, FloorHolds
  <2>11. CacheAccepted'
    <3>1. Covers(disk.cache, mark)
      BY <2>1, <2>6 DEF Covers
    <3> QED BY <1>4, <2>4, <3>1 DEF CacheAccepted, Covers, IInv
  <2>12. NoRollback'
    <3>1. up'.rules.seq = m.seq
      BY <2>4 DEF Ready
    <3> QED BY <1>4, <2>5, <2>6, <3>1 DEF NoRollback
  <2> QED BY <2>7, <2>8, <2>9, <2>10, <2>11, <2>12 DEF IInv, Stage
<1>6. CASE ~ok
  <2>1. Keeps([s EXCEPT !.updating = FALSE], up')
    BY <1>3, <1>4, <1>6, FailKeeps
  <2>2. Rest(up') /\ up'.manifest \in Files
    BY <1>0, <1>4, <1>6, <2>1 DEF Rest, Keeps, Fields
  <2>3. Resting'
    BY <1>0, <1>1, <1>3, <2>1 DEF Resting, Installing, Idle, Keeps, Fields
  <2> QED BY <2>2, <2>3, RestStays DEF IInv, Stage
<1> QED BY <1>5, <1>6

LEMMA InitializeStep ==
    ASSUME IInv, NEW readable \in BOOLEAN, Initialize(readable)
    PROVE  IInv'
<1> DEFINE task == [kind |-> "init", load |-> up.initing, mark |-> up.mark]
           none == [kind |-> "init", load |-> FALSE, valid |-> assets.valid, mark |-> NoMark,
                    download |-> FALSE, rules |-> NoRules("missing")]
<1>0. /\ DOMAIN up = Fields /\ up.mark \in Marks /\ newest \in Files /\ clock \in Nat
      /\ disk \in [cache : Files, mark : Marks] /\ assets \in Assets
  BY DEF IInv, Shape
<1>b. up.tasks # <<>> /\ Head(up.tasks).kind = "init"
  BY DEF Initialize
<1>1. Starting /\ Asked(task)
  <2>1. ~Asked([kind |-> "install", m |-> up.manifest])
    <3>1. [kind |-> "install", m |-> up.manifest].kind = "install"
      OBVIOUS
    <3> QED BY <1>b, <3>1 DEF Asked
  <2>2. ~Installing /\ ~Resting /\ ~Fetching
    BY <1>b, <2>1 DEF Installing, Resting, Fetching, Idle, Told
  <2> QED BY <1>b, <2>2 DEF IInv, Stage, Starting, Told
<1>2. PICK reply :
         /\ reply = IF task.load THEN InitialState(task, readable) ELSE none
         /\ up' = [up EXCEPT !.tasks = Tail(@), !.replies = Append(@, reply)]
         /\ damaged' = (damaged \/ Lost(task, readable))
         /\ UNCHANGED <<disk, assets, clock, newest>>
  <2>1. Head(up.tasks) = task
    BY <1>1 DEF Asked
  <2> HIDE DEF task
  <2> QED BY <2>1 DEF Initialize
<1>3. up'.tasks = <<>> /\ up'.replies = <<reply>>
  <2>1. up'.tasks = Tail(up.tasks) /\ up'.replies = Append(up.replies, reply)
    BY <1>0, <1>2 DEF Fields
  <2>2. up.tasks = <<task>> /\ up.replies = <<>>
    BY <1>1 DEF Asked
  <2> HIDE DEF task
  <2> QED BY <2>1, <2>2
<1>4. Keeps([up EXCEPT !.tasks = up'.tasks, !.replies = up'.replies], up')
  BY <1>0, <1>2 DEF Keeps, Fields
<1>5. damaged => damaged'
  BY <1>2
<1>6. InitialReply(reply)'
  <2>1. CASE ~up.initing
    BY <1>0, <1>2, <1>4, <2>1 DEF InitialReply, Keeps, Fields
  <2>2. CASE up.initing
    <3> DEFINE cached == CachedRules(task, readable)
               package == LoadLocalRules
               download == cached /\ (~IsUsable(package) \/ disk.cache.gen >= package.gen)
    <3>1. reply = [kind |-> "init", load |-> task.load, valid |-> assets.valid,
                   mark |-> IF cached THEN Mark(disk.cache) ELSE NoMark,
                   download |-> download,
                   rules |-> IF download THEN Ready(disk.cache) ELSE package]
      BY <1>2, <2>2 DEF InitialState
    <3>2. cached => disk.cache \in Manifests
      BY <1>0, Types DEF CachedRules
    <3>3. ASSUME ~cached, assets.valid, ~damaged'
          PROVE  FloorHolds
      <4>0. /\ newest.seq \in Nat /\ up.mark.seq \in Nat /\ assets.minimum \in Nat
            /\ disk.cache.seq \in Nat /\ disk.cache.exp \in Nat /\ NoManifest.seq = 0
            /\ task.mark = up.mark /\ task.load
        BY <1>0, <2>2, Types
      <4>1. newest.seq <= disk.cache.seq /\ disk.cache.gen <= clock
        BY <1>5, <3>3 DEF IInv, Durable, AtLeast
      <4> HIDE DEF task, cached
      <4>2. CASE ~(up.mark.seq < newest.seq)
        BY <4>0, <4>2 DEF FloorHolds
      <4>3. CASE disk.cache = NoManifest
        BY <4>0, <4>1, <4>3 DEF FloorHolds
      <4>4. CASE /\ up.mark.seq < newest.seq /\ disk.cache # NoManifest
                 /\ readable /\ ~(disk.cache.exp <= clock)
        <5>1. clock < disk.cache.exp
          BY <1>0, <4>0, <4>4
        <5>2. Covers(disk.cache, up.mark)
          BY <4>4 DEF IInv, CacheAccepted
        <5>3. disk.cache.seq > up.mark.seq
          BY <4>0, <4>1, <4>4
        <5>4. ~VerifyRuleManifest(disk.cache, up.mark.seq)
          BY <3>3, <4>0, <4>4, <5>3 DEF CachedRules, AcceptRuleSequence, cached
        <5>5. disk.cache.seq < assets.minimum
          BY <3>3, <4>0, <4>1, <5>1, <5>3, <5>4 DEF VerifyRuleManifest, Larger
        <5> QED BY <4>0, <4>1, <5>5 DEF FloorHolds
      <4> QED BY <1>2, <3>3, <4>0, <4>2, <4>3, <4>4 DEF Lost
    <3>4. FloorHolds /\ ~damaged' => FloorHolds'
      BY <1>0, <1>2, <1>4, <1>5 DEF FloorHolds, Keeps, Fields
    <3>5. damaged' => FloorHolds'
      BY DEF FloorHolds
    <3> HIDE DEF cached, package
    <3>6. download => cached
      OBVIOUS
    <3> HIDE DEF download
    <3>7. /\ reply.kind = "init" /\ reply.load = up.initing /\ reply.valid = assets.valid
          /\ reply.mark = IF cached THEN Mark(disk.cache) ELSE NoMark
          /\ reply.download <=> download
          /\ reply.rules = IF download THEN Ready(disk.cache) ELSE package
      BY <3>1
    <3>8. reply.download => reply.rules.seq = disk.cache.seq
      BY <3>7 DEF Ready
    <3>9. up'.initing = up.initing /\ assets' = assets /\ disk' = disk
      BY <1>0, <1>2, <1>4 DEF Keeps, Fields
    <3>10. CASE cached
      BY <2>2, <3>2, <3>7, <3>8, <3>9, <3>10 DEF InitialReply
    <3>11. CASE ~cached
      BY <2>2, <3>3, <3>4, <3>5, <3>6, <3>7, <3>9, <3>11 DEF InitialReply
    <3> QED BY <3>10, <3>11
  <2> QED BY <2>1, <2>2
<1>7. Shape'
  BY <1>0, <1>2, <1>4 DEF Shape, Keeps, Fields, IInv
<1>8. Starting'
  BY <1>0, <1>1, <1>3, <1>4, <1>6 DEF Starting, Told, Keeps, Fields
<1>9. Durable'
  BY <1>0, <1>2, <1>4, <1>5 DEF Durable, AtLeast, Covers, IInv, Keeps, Fields
<1>10. Floor' /\ NoRollback'
  BY <1>0, <1>1, <1>4 DEF Floor, NoRollback, Starting, Keeps, Fields
<1>11. CacheAccepted'
  BY <1>0, <1>2, <1>4 DEF CacheAccepted, Covers, IInv, Keeps, Fields
<1> QED BY <1>7, <1>8, <1>9, <1>10, <1>11 DEF IInv, Stage

LEMMA FirstTask ==
    ASSUME NEW q, q = <<>>, NEW x
    PROVE  Append(q, x) = <<x>>
  OBVIOUS

(* A task to load is given when there is none.                              *)
LEMMA LoadingStarts ==
    ASSUME NEW s, DOMAIN s = Fields, s.ready, ~s.loaded, ~s.updating, s.loader = "none",
           s.source = "none", s.tasks = <<>>, s.replies = <<>>,
           up' = InitializeState(s, TRUE)
    PROVE  /\ Keeps([s EXCEPT !.initing = TRUE, !.tasks = up'.tasks], up')
           /\ Starting'
<1>1. up' = [s EXCEPT !.initing = TRUE,
                      !.tasks = Append(@, [kind |-> "init", load |-> TRUE, mark |-> s.mark])]
  BY DEF InitializeState
<1>2. Keeps([s EXCEPT !.initing = TRUE, !.tasks = up'.tasks], up')
  BY <1>1 DEF Keeps, Fields
<1>3. up'.tasks = <<[kind |-> "init", load |-> TRUE, mark |-> s.mark]>>
  <2> DEFINE task == [kind |-> "init", load |-> TRUE, mark |-> s.mark]
  <2>1. up'.tasks = Append(s.tasks, task)
    BY <1>1 DEF Fields
  <2>2. s.tasks = <<>>
    OBVIOUS
  <2> HIDE DEF task
  <2>3. up'.tasks = <<task>>
    BY <2>1, <2>2, FirstTask
  <2> QED BY <2>3 DEF task
<1>4. up'.initing = TRUE /\ up'.mark = s.mark /\ up'.replies = <<>>
  BY <1>2 DEF Keeps, Fields
<1>5. Asked([kind |-> "init", load |-> up.initing, mark |-> up.mark])'
  BY <1>3, <1>4 DEF Asked
<1>6. ~up'.loaded /\ ~up'.updating /\ up'.loader = "none" /\ up'.source = "none" /\ up'.initing
  BY <1>2 DEF Keeps, Fields
<1> QED BY <1>2, <1>5, <1>6 DEF Starting

LEMMA OnInitializedStep ==
    ASSUME IInv, OnInitialized
    PROVE  IInv'
<1>0. /\ DOMAIN up = Fields /\ up.mark \in Marks /\ newest \in Files /\ clock \in Nat
      /\ disk \in [cache : Files, mark : Marks] /\ assets \in Assets /\ up.manifest \in Files
  BY DEF IInv, Shape
<1>1. up.replies # <<>> /\ Head(up.replies).kind = "init"
  BY DEF OnInitialized
<1>2. PICK r : Starting /\ Told(r) /\ InitialReply(r)
  <2>1. \A ok : ~Told([kind |-> "install", m |-> up.manifest, installed |-> ok])
    <3>1. \A ok : [kind |-> "install", m |-> up.manifest, installed |-> ok].kind = "install"
      OBVIOUS
    <3> QED BY <1>1, <3>1 DEF Told
  <2>2. ~Installing /\ ~Resting /\ ~Fetching
    BY <1>1, <2>1 DEF Installing, Resting, Fetching, Idle, Asked
  <2> QED BY <1>1, <2>2 DEF IInv, Stage, Starting, Asked
<1>3. Head(up.replies) = r /\ Tail(up.replies) = <<>> /\ up.tasks = <<>>
  BY <1>2 DEF Told
<1> DEFINE read == [up EXCEPT !.replies = Tail(@), !.ready = TRUE, !.valid = r.valid]
           source == IF r.rules.status = "missing" THEN "none"
                     ELSE IF r.download THEN "download" ELSE "package"
           loaded == [read EXCEPT !.loaded = TRUE, !.initing = FALSE, !.rules = r.rules,
                                  !.source = source]
           s == IF r.load THEN AdoptMark(loaded, r.mark) ELSE read
<1>4. /\ up' = IF s.clients > 0 /\ ~s.loaded /\ ~s.initing THEN InitializeState(s, TRUE)
               ELSE Schedule(s, Soon)
      /\ IF r.load /\ r.download THEN Serve(disk.cache) ELSE UNCHANGED newest
      /\ UNCHANGED <<disk, assets, clock, damaged>>
  BY <1>3 DEF OnInitialized
<1>5. /\ ~up.loaded /\ ~up.updating /\ up.loader = "none" /\ up.source = "none"
      /\ (~up.ready \/ up.initing) /\ (r.load <=> up.initing) /\ (r.valid <=> assets.valid)
  BY <1>2 DEF Starting, InitialReply
<1>6. /\ DOMAIN read = Fields /\ read.tasks = <<>> /\ read.replies = <<>> /\ read.ready = TRUE
      /\ read.valid = r.valid /\ read.loaded = up.loaded /\ read.updating = up.updating
      /\ read.initing = up.initing /\ read.mark = up.mark /\ read.pref = up.pref
      /\ read.manifest = up.manifest /\ read.loader = up.loader /\ read.source = up.source
  BY <1>0, <1>3 DEF Fields
<1> HIDE DEF read
<1>7. CASE ~r.load
  <2>1. s = read
    BY <1>7
  <2> HIDE DEF s
  <2>2. up' = InitializeState(read, TRUE) \/ up' = Schedule(read, Soon)
    BY <1>4, <2>1
  <2>3. /\ up'.mark = up.mark /\ up'.pref = up.pref /\ up'.manifest = up.manifest
        /\ DOMAIN up' = Fields /\ ~up'.loaded /\ up'.source = "none" /\ (Starting' \/ Resting')
    <3>1. CASE up' = InitializeState(read, TRUE)
      <4>1. Keeps([read EXCEPT !.initing = TRUE, !.tasks = up'.tasks], up') /\ Starting'
        BY <1>5, <1>6, <3>1, LoadingStarts
      <4> QED BY <1>5, <1>6, <4>1 DEF Keeps, Fields
    <3>2. CASE up' = Schedule(read, Soon)
      <4>1. Keeps(read, up')
        BY <1>6, <3>2, ScheduleKeeps
      <4> QED BY <1>5, <1>6, <1>7, <4>1 DEF Keeps, Resting, Idle
    <3> QED BY <2>2, <3>1, <3>2
  <2>4. newest' = newest
    BY <1>4, <1>7
  <2>5. Shape'
    BY <1>0, <1>4, <2>3, <2>4 DEF Shape
  <2>6. Durable' /\ CacheAccepted'
    BY <1>4, <2>3, <2>4 DEF Durable, AtLeast, Covers, CacheAccepted, IInv
  <2>7. Floor' /\ NoRollback'
    BY <2>3 DEF Floor, NoRollback
  <2> QED BY <2>3, <2>5, <2>6, <2>7 DEF IInv, Stage
<1>8. CASE r.load
  <2>1. /\ DOMAIN loaded = Fields /\ loaded.tasks = <<>> /\ loaded.replies = <<>>
        /\ loaded.ready = TRUE /\ loaded.valid = r.valid /\ loaded.loaded = TRUE
        /\ loaded.updating = up.updating /\ loaded.initing = FALSE /\ loaded.mark = up.mark
        /\ loaded.pref = up.pref /\ loaded.manifest = up.manifest /\ loaded.loader = up.loader
        /\ loaded.source = source /\ loaded.rules = r.rules
    BY <1>6 DEF Fields
  <2> HIDE DEF loaded
  <2>2. s = IF r.mark.seq >= up.mark.seq /\ r.mark.sha # NoText
            THEN [loaded EXCEPT !.mark = r.mark, !.pref = r.mark] ELSE loaded
    BY <1>8, <2>1 DEF AdoptMark
  <2> HIDE DEF s
  <2>3. /\ DOMAIN s = Fields /\ s.tasks = <<>> /\ s.replies = <<>> /\ s.ready /\ s.loaded
        /\ (s.valid <=> r.valid) /\ ~s.updating /\ ~s.initing /\ s.loader = "none"
        /\ s.manifest = up.manifest /\ s.source = source /\ s.rules = r.rules
        /\ s.mark = (IF r.mark.seq >= up.mark.seq /\ r.mark.sha # NoText THEN r.mark ELSE up.mark)
        /\ s.pref = s.mark
    BY <1>5, <2>1, <2>2 DEF Fields, IInv, Durable
  <2>4. up' = Schedule(s, Soon)
    BY <1>4, <2>3
  <2>5. Keeps(s, up')
    BY <2>3, <2>4, ScheduleKeeps
  <2>6. Resting'
    BY <2>3, <2>5 DEF Resting, Idle, Keeps
  <2>7. CASE disk.cache \in Manifests /\ r.mark = Mark(disk.cache)
             /\ (r.download => r.rules.seq = disk.cache.seq)
    <3>1. /\ disk.cache.seq \in Nat /\ disk.cache.sha # NoText /\ newest.seq \in Nat
          /\ up.mark.seq \in Nat /\ r.mark.seq = disk.cache.seq /\ r.mark.sha = disk.cache.sha
          /\ disk.cache \in Files /\ disk.mark.seq \in Nat /\ r.mark \in Marks
          /\ disk.cache # NoManifest
      BY <1>0, <2>7, Types
    <3>2. Covers(disk.cache, disk.mark) /\ Covers(disk.cache, up.mark) /\ AtLeast(disk.cache)
          /\ disk.cache.gen <= clock
      BY <3>1 DEF IInv, CacheAccepted, Durable
    <3>3. up'.mark = r.mark /\ up'.pref = r.mark
      BY <2>3, <2>5, <3>1, <3>2 DEF Covers, Keeps
    <3>4. newest' \in Files /\ (newest' = newest \/ newest' = disk.cache)
      BY <1>0, <1>4, <3>1 DEF Serve
    <3>5. AtLeast(disk.cache)'
      BY <1>4, <3>1, <3>2, <3>4 DEF AtLeast
    <3>6. Shape'
      BY <1>0, <1>4, <2>3, <2>5, <3>1, <3>3, <3>4 DEF Shape, Keeps
    <3>7. Durable' /\ CacheAccepted'
      BY <1>4, <3>1, <3>2, <3>3, <3>5 DEF Durable, Covers, CacheAccepted
    <3>8. Floor'
      BY <1>4, <3>1, <3>3, <3>5 DEF Floor, FloorHolds, AtLeast
    <3>9. NoRollback'
      <4>1. up'.source = "download" => r.download /\ up'.rules.seq = disk.cache.seq
        BY <2>3, <2>5, <2>7 DEF Keeps
      <4>2. newest'.seq \in Nat /\ disk' = disk
        BY <1>4, <3>1, <3>4
      <4>3. ~damaged' => newest'.seq <= disk.cache.seq
        BY <3>5, <4>2 DEF AtLeast
      <4>4. up'.source = "download" /\ ~damaged' => ~(up'.rules.seq < newest'.seq)
        BY <3>1, <4>1, <4>2, <4>3
      <4> QED BY <4>4 DEF NoRollback
    <3> QED BY <2>6, <3>6, <3>7, <3>8, <3>9 DEF IInv, Stage
  <2>8. CASE r.mark = NoMark /\ ~r.download /\ (assets.valid => FloorHolds)
    <3>1. up'.mark = up.mark /\ up'.pref = up.mark /\ up'.source # "download" /\ newest' = newest
      BY <1>4, <2>3, <2>5, <2>8, Types DEF Keeps
    <3>2. Shape'
      BY <1>0, <1>4, <2>3, <2>5, <3>1 DEF Shape, Keeps
    <3>3. Durable' /\ CacheAccepted'
      BY <1>4, <3>1 DEF Durable, AtLeast, Covers, CacheAccepted, IInv
    <3>4. Floor'
      BY <1>4, <1>5, <2>3, <2>5, <2>8, <3>1 DEF Floor, FloorHolds, Keeps
    <3>5. NoRollback'
      BY <3>1 DEF NoRollback
    <3> QED BY <2>6, <3>2, <3>3, <3>4, <3>5 DEF IInv, Stage
  <2> QED BY <1>2, <1>8, <2>7, <2>8 DEF InitialReply
<1> QED BY <1>7, <1>8

LEMMA AcquireStep ==
    ASSUME IInv, Acquire
    PROVE  IInv'
<1> DEFINE s == [up EXCEPT !.clients = @ + 1]
           asks == ~s.loaded /\ ~s.initing
           empty == IF asks THEN [s EXCEPT !.rules = NoRules("loading")] ELSE s
           t == IF asks /\ s.ready THEN InitializeState(empty, TRUE) ELSE empty
<1>0. DOMAIN up = Fields
  BY DEF IInv, Shape
<1>1. /\ up' = IF t.clients = 1 THEN Schedule(t, Larger(Soon, t.due)) ELSE t
      /\ UNCHANGED <<disk, assets, clock, newest, damaged>>
  BY DEF Acquire
<1>2. Keeps(up, s)
  BY <1>0 DEF Keeps, Fields
<1> HIDE DEF s
<1>3. CASE ~asks
  <2>1. t = s
    BY <1>3
  <2>2. Keeps(s, up')
    <3>1. Keeps(s, s) /\ DOMAIN s = Fields
      BY <1>2 DEF Keeps
    <3> HIDE DEF t
    <3> QED BY <1>1, <2>1, <3>1, ScheduleKeeps
  <2>3. Keeps(up, up')
    BY <1>2, <2>2 DEF Keeps
  <2> QED BY <1>1, <2>3, KeepsStep
<1>4. CASE asks
  <2>1. empty = [s EXCEPT !.rules = NoRules("loading")]
    BY <1>4
  <2>2. Keeps([s EXCEPT !.rules = empty.rules], empty)
    BY <1>2, <2>1 DEF Keeps, Fields
  <2> HIDE DEF empty
  <2>3. ~up.loaded /\ ~up.initing
    BY <1>2, <1>4 DEF Keeps
  <2>4. CASE ~s.ready
    <3>1. t = empty /\ ~up.ready
      BY <1>2, <2>4 DEF Keeps
    <3>2. Starting
      BY <3>1 DEF IInv, Stage, Resting, Fetching, Installing
    <3>3. Keeps(empty, empty) /\ DOMAIN empty = Fields
      BY <2>2 DEF Keeps
    <3> HIDE DEF t
    <3>4. Keeps(empty, up')
      BY <1>1, <3>1, <3>3, ScheduleKeeps
    <3>5. Keeps([up EXCEPT !.rules = up'.rules], up')
      BY <1>0, <1>2, <2>2, <3>4 DEF Keeps, Fields
    <3>6. Starting'
      <4>1. \A r : InitialReply(r) => InitialReply(r)'
        BY <1>0, <1>1, <3>5 DEF InitialReply, FloorHolds, Keeps, Fields
      <4>2. CASE Asked([kind |-> "init", load |-> up.initing, mark |-> up.mark])
        BY <1>0, <3>2, <3>5, <4>2 DEF Starting, Asked, Keeps, Fields
      <4>3. CASE \E r : Told(r) /\ InitialReply(r)
        BY <1>0, <3>2, <3>5, <4>1, <4>3 DEF Starting, Told, Keeps, Fields
      <4> QED BY <3>2, <4>2, <4>3 DEF Starting
    <3>7. ~up'.loaded /\ up'.source = "none" /\ up'.mark = up.mark /\ up'.pref = up.pref
          /\ up'.manifest = up.manifest /\ DOMAIN up' = Fields
      BY <1>0, <3>2, <3>5 DEF Starting, Keeps, Fields
    <3> QED BY <1>1, <3>6, <3>7 DEF IInv, Stage, Shape, Durable, AtLeast, Covers, Floor,
                                    CacheAccepted, NoRollback
  <2>5. CASE s.ready
    <3>1. t = InitializeState(empty, TRUE) /\ up.ready
      BY <1>2, <1>4, <2>5 DEF Keeps
    <3>2. Resting
      BY <2>3, <3>1 DEF IInv, Stage, Starting, Fetching, Installing
    <3>3. /\ DOMAIN empty = Fields /\ empty.ready /\ ~empty.loaded /\ ~empty.updating
          /\ empty.loader = "none" /\ empty.source = "none" /\ empty.tasks = <<>>
          /\ empty.replies = <<>> /\ empty.mark = up.mark /\ empty.pref = up.pref
          /\ empty.manifest = up.manifest
      BY <1>2, <2>2, <2>3, <3>1, <3>2 DEF Resting, Idle, Keeps, Fields
    <3>4. t = [empty EXCEPT !.initing = TRUE,
                            !.tasks = Append(@, [kind |-> "init", load |-> TRUE,
                                                 mark |-> empty.mark])]
      BY <3>1 DEF InitializeState
    <3> HIDE DEF t
    <3>5. DOMAIN t = Fields /\ t.tasks = <<[kind |-> "init", load |-> TRUE, mark |-> up.mark]>>
      <4> DEFINE task == [kind |-> "init", load |-> TRUE, mark |-> empty.mark]
      <4>1. DOMAIN t = Fields /\ t.tasks = Append(empty.tasks, task)
        BY <3>3, <3>4 DEF Fields
      <4> HIDE DEF task
      <4>2. t.tasks = <<task>>
        BY <3>3, <4>1
      <4> QED BY <3>3, <4>1, <4>2 DEF task
    <3>6. Keeps(t, up')
      <4>1. Keeps(t, t)
        BY <3>5 DEF Keeps
      <4> QED BY <1>1, <3>5, <4>1, ScheduleKeeps
    <3>7. /\ DOMAIN up' = Fields /\ up'.initing = TRUE /\ ~up'.loaded /\ ~up'.updating
          /\ up'.loader = "none" /\ up'.source = "none" /\ up'.replies = <<>>
          /\ up'.mark = up.mark /\ up'.pref = up.pref /\ up'.manifest = up.manifest
          /\ up'.tasks = t.tasks
      BY <3>3, <3>4, <3>6 DEF Keeps, Fields
    <3>8. Asked([kind |-> "init", load |-> up.initing, mark |-> up.mark])'
      BY <3>5, <3>7 DEF Asked
    <3>9. Starting'
      BY <3>7, <3>8 DEF Starting
    <3> QED BY <1>1, <3>7, <3>9 DEF IInv, Stage, Shape, Durable, AtLeast, Covers, Floor,
                                    CacheAccepted, NoRollback
  <2> QED BY <2>4, <2>5
<1> QED BY <1>3, <1>4

(* The preferences reach the disk, time passes, or the process dies.        *)
LEMMA CommitStep ==
    ASSUME IInv, CommitPendingWrite
    PROVE  IInv'
<1>1. /\ disk' \in [cache : Files, mark : Marks] /\ disk'.cache = disk.cache
      /\ disk'.mark = up.mark /\ UNCHANGED <<up, assets, clock, newest, damaged>>
  BY DEF CommitPendingWrite, IInv, Shape, Durable
<1>2. Keeps(up, up')
  BY <1>1 DEF IInv, Shape, Keeps
<1>3. Stage'
  <2>1. \A r : InitialReply(r) => InitialReply(r)'
    BY <1>1 DEF InitialReply, FloorHolds
  <2>2. Offered => Offered'
    BY <1>1 DEF Offered, AtLeast
  <2>3. Starting => Starting'
    BY <1>1, <2>1 DEF Starting, Asked, Told
  <2>4. (Resting => Resting') /\ (Fetching => Fetching')
    BY <1>1, <2>2 DEF Resting, Fetching, Idle
  <2>5. Installing => Installing'
    <3>1. Asked([kind |-> "install", m |-> up.manifest])
          => Asked([kind |-> "install", m |-> up.manifest])'
      BY <1>1 DEF Asked
    <3>2. \A ok : /\ Told([kind |-> "install", m |-> up.manifest, installed |-> ok])
                  /\ ok => disk.cache = up.manifest
                  => /\ Told([kind |-> "install", m |-> up.manifest, installed |-> ok])'
                     /\ ok => disk'.cache = up'.manifest
      BY <1>1 DEF Told
    <3> QED BY <1>1, <2>2, <3>1, <3>2 DEF Installing
  <2> QED BY <2>3, <2>4, <2>5 DEF IInv, Stage
<1>4. Covers(up.mark, up.mark)
  BY Types DEF IInv, Shape, Covers
<1>5. Durable' /\ CacheAccepted'
  BY <1>1, <1>4 DEF IInv, Durable, AtLeast, Covers, CacheAccepted
<1> QED BY <1>1, <1>3, <1>5 DEF IInv, Shape, Floor, FloorHolds, NoRollback

LEMMA ClockStep ==
    ASSUME IInv, ClockAdvances
    PROVE  IInv'
<1>1. clock \in Nat /\ disk.cache.gen \in Nat /\ DOMAIN up = Fields
  BY Types DEF IInv, Shape
<1>2. clock' \in Nat /\ disk.cache.gen <= clock'
  BY <1>1 DEF ClockAdvances, IInv, Durable
<1>3. Keeps(up, up')
  BY <1>1 DEF ClockAdvances, Keeps
<1>4. Stage'
  BY <1>3, StageStays DEF IInv, ClockAdvances
<1> QED BY <1>2, <1>4 DEF ClockAdvances, IInv, Shape, Durable, AtLeast, Covers, Floor, FloorHolds,
                          CacheAccepted, NoRollback

(* A process starts with the watermark that is on disk.                     *)
LEMMA NewUpdaterStarts ==
    ASSUME NEW package, NEW mark \in Marks, up' = NewUpdater(package, mark)
    PROVE  /\ DOMAIN up' = Fields /\ up'.mark = mark /\ up'.pref = mark
           /\ up'.manifest = NoManifest /\ up'.source = "none" /\ ~up'.valid
           /\ Starting' \/ Resting'
<1> DEFINE s == [clients |-> 0, failures |-> 0, ready |-> ~package.found,
                 loaded |-> ~package.found, initing |-> FALSE, updating |-> FALSE,
                 valid |-> FALSE, mark |-> mark, pref |-> mark, manifest |-> NoManifest,
                 rules |-> NoRules("missing"), source |-> "none", loader |-> "none",
                 timer |-> FALSE, due |-> 0, notBefore |-> 0, tasks |-> <<>>, replies |-> <<>>]
           task == [kind |-> "init", load |-> FALSE, mark |-> mark]
<1>1. /\ DOMAIN s = Fields /\ s.mark = mark /\ s.pref = mark /\ s.manifest = NoManifest
      /\ s.source = "none" /\ s.loader = "none" /\ ~s.valid /\ ~s.updating /\ s.initing = FALSE
      /\ (s.ready <=> ~package.found) /\ (s.loaded <=> ~package.found)
      /\ s.tasks = <<>> /\ s.replies = <<>>
  BY DEF Fields
<1>2. up' = IF package.found THEN InitializeState(s, FALSE) ELSE s
  BY DEF NewUpdater
<1> HIDE DEF s
<1>3. CASE ~package.found
  BY <1>1, <1>2, <1>3 DEF Resting, Idle
<1>4. CASE package.found
  <2>1. up' = [s EXCEPT !.initing = FALSE,
                        !.tasks = Append(@, [kind |-> "init", load |-> FALSE, mark |-> s.mark])]
    BY <1>2, <1>4 DEF InitializeState
  <2>2. up' = [s EXCEPT !.initing = FALSE, !.tasks = Append(@, task)]
    BY <1>1, <2>1
  <2> HIDE DEF task
  <2>3. /\ DOMAIN up' = Fields /\ up'.mark = mark /\ up'.pref = mark /\ up'.initing = FALSE
        /\ up'.manifest = NoManifest /\ up'.source = "none" /\ ~up'.valid
        /\ ~up'.ready /\ ~up'.loaded /\ ~up'.updating /\ up'.loader = "none"
        /\ up'.replies = <<>> /\ up'.tasks = Append(s.tasks, task)
    BY <1>1, <1>4, <2>2 DEF Fields
  <2>4. up'.tasks = <<task>>
    BY <1>1, <2>3, FirstTask
  <2>5. Asked([kind |-> "init", load |-> up.initing, mark |-> up.mark])'
    BY <2>3, <2>4 DEF Asked, task
  <2> QED BY <2>3, <2>5 DEF Starting
<1> QED BY <1>3, <1>4

LEMMA CrashStep ==
    ASSUME IInv, Crash
    PROVE  IInv'
<1>1. /\ disk \in [cache : Files, mark : Marks] /\ up' = NewUpdater(assets', disk.mark)
      /\ UNCHANGED <<disk, clock, newest, damaged>> /\ assets' \in Assets
  BY DEF IInv, Shape, Crash
<1>2. /\ DOMAIN up' = Fields /\ up'.mark = disk.mark /\ up'.pref = disk.mark
      /\ up'.manifest = NoManifest /\ up'.source = "none" /\ ~up'.valid
      /\ Starting' \/ Resting'
  BY <1>1, NewUpdaterStarts
<1>3. Covers(disk.mark, disk.mark)
  BY <1>1, Types DEF Covers
<1> QED BY <1>1, <1>2, <1>3, Types
        DEF IInv, Stage, Shape, Durable, AtLeast, Covers, Floor, CacheAccepted, NoRollback

LEMMA InitHolds == Init => IInv
<1> SUFFICES ASSUME Init PROVE IInv
  OBVIOUS
<1> DEFINE s == [clients |-> 0, failures |-> 0, ready |-> ~assets.found,
                 loaded |-> ~assets.found, initing |-> FALSE, updating |-> FALSE,
                 valid |-> FALSE, mark |-> NoMark, pref |-> NoMark, manifest |-> NoManifest,
                 rules |-> NoRules("missing"), source |-> "none", loader |-> "none",
                 timer |-> FALSE, due |-> 0, notBefore |-> 0, tasks |-> <<>>, replies |-> <<>>]
           task == [kind |-> "init", load |-> FALSE, mark |-> NoMark]
<1>1. /\ DOMAIN s = Fields /\ s.mark = NoMark /\ s.pref = NoMark /\ s.manifest = NoManifest
      /\ s.source = "none" /\ s.loader = "none" /\ ~s.valid /\ ~s.updating /\ s.initing = FALSE
      /\ (s.ready <=> ~assets.found) /\ (s.loaded <=> ~assets.found)
      /\ s.tasks = <<>> /\ s.replies = <<>>
  BY DEF Fields
<1>2. up = IF assets.found THEN InitializeState(s, FALSE) ELSE s
  BY DEF Init, NewUpdater
<1> HIDE DEF s
<1>3. /\ DOMAIN up = Fields /\ up.mark = NoMark /\ up.pref = NoMark
      /\ up.manifest = NoManifest /\ up.source = "none" /\ ~up.valid
      /\ Starting \/ Resting
  <2>1. CASE ~assets.found
    BY <1>1, <1>2, <2>1 DEF Resting, Idle
  <2>2. CASE assets.found
    <3>1. up = [s EXCEPT !.initing = FALSE,
                         !.tasks = Append(@, [kind |-> "init", load |-> FALSE, mark |-> s.mark])]
      BY <1>2, <2>2 DEF InitializeState
    <3>2. up = [s EXCEPT !.initing = FALSE, !.tasks = Append(@, task)]
      BY <1>1, <3>1
    <3> HIDE DEF task
    <3>3. /\ DOMAIN up = Fields /\ up.mark = NoMark /\ up.pref = NoMark /\ up.initing = FALSE
          /\ up.manifest = NoManifest /\ up.source = "none" /\ ~up.valid
          /\ ~up.ready /\ ~up.loaded /\ ~up.updating /\ up.loader = "none"
          /\ up.replies = <<>> /\ up.tasks = Append(s.tasks, task)
      BY <1>1, <2>2, <3>2 DEF Fields
    <3>4. up.tasks = <<task>>
      BY <1>1, <3>3, FirstTask
    <3>5. Asked([kind |-> "init", load |-> up.initing, mark |-> up.mark])
      BY <3>3, <3>4 DEF Asked, task
    <3> QED BY <3>3, <3>5 DEF Starting
  <2> QED BY <2>1, <2>2
<1>4. /\ disk = [cache |-> NoManifest, mark |-> NoMark] /\ clock = 0 /\ newest = NoManifest
      /\ assets \in Assets
  BY DEF Init
<1>5. disk \in [cache : Files, mark : Marks] /\ disk.cache = NoManifest /\ disk.mark = NoMark
  BY <1>4, Types
<1> QED BY <1>3, <1>4, <1>5, Types
        DEF IInv, Stage, Shape, Durable, AtLeast, Covers, Floor, CacheAccepted, NoRollback

-----------------------------------------------------------------------------
(* The theorems *)

LEMMA StepHolds == IInv /\ [Next]_vars => IInv'
<1> SUFFICES ASSUME IInv, [Next]_vars PROVE IInv'
  OBVIOUS
<1>0. DOMAIN up = Fields
  BY DEF IInv, Shape
<1>1. CASE UNCHANGED vars
  BY <1>0, <1>1, KeepsStep DEF vars, Keeps
<1>2. ASSUME NEW readable \in BOOLEAN, Initialize(readable) PROVE IInv'
  BY <1>2, InitializeStep
<1>3. ASSUME NEW ok \in BOOLEAN, VerifyAndInstall(ok) PROVE IInv'
  BY <1>3, VerifyAndInstallStep
<1>4. CASE Reply
  BY <1>4, OnInitializedStep, OnInstalledStep DEF Reply
<1>5. CASE OnBadManifest
  <2>1. Fetching
    BY <1>5 DEF OnBadManifest, IInv, Stage, Starting, Resting, Installing
  <2> QED BY <1>5, <2>1, EndStep DEF OnBadManifest
<1>6. ASSUME NEW m \in Manifests, OnManifest(m) PROVE IInv'
  BY <1>6, OnManifestStep
<1>7. ASSUME NEW downloaded \in BOOLEAN, OnPayload(downloaded) PROVE IInv'
  BY <1>7, OnPayloadStep
<1>8. CASE Tick
  BY <1>8, TickStep
<1>9. CASE ScheduledUpdate
  <2>1. Keeps(up, [up EXCEPT !.timer = FALSE])
    BY <1>0 DEF Keeps, Fields
  <2> QED BY <1>9, <2>1, RequestedStep DEF ScheduledUpdate
<1>10. CASE Acquire
  BY <1>10, AcquireStep
<1>11. CASE Release
  BY <1>11, ReleaseStep
<1>12. CASE RequestUpdate
  <2>1. Keeps(up, up)
    BY <1>0 DEF Keeps
  <2> QED BY <1>12, <2>1, RequestedStep DEF RequestUpdate
<1>13. CASE CommitPendingWrite
  BY <1>13, CommitStep
<1>14. CASE Crash
  BY <1>14, CrashStep
<1>15. CASE ClockAdvances
  BY <1>15, ClockStep
<1> QED BY <1>1, <1>2, <1>3, <1>4, <1>5, <1>6, <1>7, <1>8, <1>9, <1>10, <1>11, <1>12, <1>13,
           <1>14, <1>15 DEF Next, Worker, Loaded

(* Every state that the updater reaches satisfies IInv.                     *)
THEOREM Invariance == Spec => []IInv
<1>1. Init => IInv
  BY InitHolds
<1>2. IInv /\ [Next]_vars => IInv'
  BY StepHolds
<1> QED BY <1>1, <1>2, PTL DEF Spec

(* Whatever manifests are offered, replayed or half installed, and wherever *)
(* the process dies, the next life accepts the rules that VerifyAndInstall  *)
(* left in the cache.                                                       *)
THEOREM CacheAlwaysAccepted == Spec => []CacheAccepted
<1>1. IInv => CacheAccepted
  BY DEF IInv
<1> QED BY <1>1, Invariance, PTL

(* Older downloaded rules come into force only after a restart that lost    *)
(* both the watermark and the cache.                                        *)
THEOREM NeverRollsBack == Spec => []NoRollback
<1>1. IInv => NoRollback
  BY DEF IInv
<1> QED BY <1>1, Invariance, PTL

(* The worker and the reply queue hold at most one item between them, so no *)
(* answer of the worker meets a state other than the one it was asked from. *)
OneTask == Len(up.tasks) + Len(up.replies) <= 1

THEOREM OneTaskAtATime == Spec => []OneTask
<1>1. Stage => OneTask
  <2>1. Len(<<>>) = 0 /\ \A x : Len(<<x>>) = 1
    OBVIOUS
  <2>2. CASE Idle
    BY <2>1, <2>2 DEF Idle, OneTask
  <2>3. CASE \E x : Asked(x) \/ Told(x)
    <3>1. PICK x : Asked(x) \/ Told(x)
      BY <2>3
    <3>2. CASE Asked(x)
      BY <2>1, <3>2 DEF Asked, OneTask
    <3>3. CASE Told(x)
      BY <2>1, <3>3 DEF Told, OneTask
    <3> QED BY <3>1, <3>2, <3>3
  <2> QED BY <2>2, <2>3 DEF Stage, Starting, Resting, Fetching, Installing
<1>2. IInv => OneTask
  BY <1>1 DEF IInv
<1> QED BY <1>2, Invariance, PTL
=============================================================================
