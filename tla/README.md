# Verification of the Chromium adaptation for HarmonyOS

The repository carries Chromium to HarmonyOS: `overlay/` holds new source files,
`patches/` the changes to Chromium's own files, `docs/` the design notes. This
project models the overlay's own logic in TLA+, model-checks it with TLC on
small instances and proves its central properties with TLAPS for every instance.

`PROJECT.json` lists the components, the runs, the source lines behind every
definition, the hazards, the findings and the theorems.

## 1. Inventory

| Component | State | Operations | Interacts with | What makes it correct |
|---|---|---|---|---|
| Phone fork launcher (`base/process/fork_server_ohos.cc`) | client table of children, one socket, server's slot table and exit records, a shared progress word per slot | start, launch, status, signal, wait, stop; the server loop; the child's start | kernel process table, the browser's launcher threads | lifetimes are bound to the parent, exit statuses are exact across PID reuse, fixed arrays do not overflow |
| URL check service (`url_protection/url_protection.cc`) | policy and its revision, pending checks, cloud cache, site exceptions | check, cancel, configure, site switch, cloud reply, timeout, rule changes, close | rules, system service bridge, tabs and throttles | one answer per check, nothing of the cloud without consent, new rules reach waiting checks |
| Site verdict state (`site_verdict_state.h`) | current and committed snapshot, generation | begin, redirect, finish, same-document commit, policy change, report, committed check | tab protection | the verdict shown belongs to the document shown |
| Tab protection and throttle (`navigation_throttle.cc`) | per navigation: hops, pending answers, risk, deferral; per tab: committed check, bypass | start, redirect, response, result, policy change, finish, warning, "visit anyway" | check service, Chromium navigation, interstitials | dangerous pages are blocked or covered, held navigations are released, a bypass is used once |
| System service bridge (`components/ohos_system_service`) | dispatcher, pending calls, ArkTS handler table | call, timeout, cancel, deliver, install and remove dispatcher, register and release handler | every user of ArkTS services, from any thread | each reply callback runs exactly once |
| Rule updater (`rule_updater.cc`) | clients, update under way, backoff, watermark; the cache file | acquire, release, scheduled and requested update, manifest, payload, verify and install, restore | check service, worker, disk, network | downloaded rules never go back, the cache is accepted after a crash, updating goes on |
| Rule subscriptions (`rule_sources.cc`) | sources with generation, due time and rules; one active source; cache files | add, update, remove, refresh, download, parse, install, restore | check service, worker, disk, network | rules are those of the URL the source has now, a removed source leaves nothing, refreshing goes on |
| Native child launcher (`base/process/launch_ohos.cc`) | exit registry by PID with pidfds | launch, exit callback, poll | appspawn, `kill_posix` | an exit belongs to the child it is reported for |
| Overlay (`ui/ozone/platform/ohos/ohos_overlay_*`) | presenter's frames in flight, host's pending frame and replies, session's leases, the backend's staged video cleanup | present, poll, submit, reply, release, reconnect, drain, detach | GPU process, display compositor, render service | no buffer is drawn into while it is read, replies match frames, nobody waits for ever |
| Rest of the Ozone platform | native windows, GPU channels, vsync | attach, detach, recover | GPU process, compositor | late completions do not touch a new window |
| Media (`media/gpu/ohos`, `media/audio/ohos`, `media/capture`) | codec states, surfaces, shared images in use | configure, decode, flush, reset, retire | system codecs, GPU | no callback of an old codec, no image retired in use |
| Browser shell (`chrome/browser/ui/ohos`) | mostly Chromium's | shell commands and events | ArkTS shells | commands name the state they act on |
| Vault, HUKS keys, passkeys | locked or unlocked, requests under way | unlock, authenticate, sign, cancel | system authentication | no secret without a fresh authentication |
| Tab discarding, ad blocking, translation, device services, ArkTS shells, ArkWeb glue | - | - | - | see `PROJECT.json` |

The behaviours that are hard here: processes and PIDs that die and are reused
between two system calls (launcher); callbacks copied under a lock and run after
it (bridge); results that arrive after the policy, the navigation or the
document they were asked for has changed (URL protection); timeouts racing
answers (all three); files and preferences that reach the disk at different
times before a crash (rules); buffers that a presenter, a host and the render
service hold at the same time while each of them may go away (overlay).

## 2. Modules

| Module | Models |
|---|---|
| `ForkServer` | the launcher's client, server, children and the kernel around them |
| `ForkServer_proofs` | inductive invariant and theorems about it |
| `SystemServiceBridge` | class `Bridge` and the N-API handler table, at the granularity of their locks |
| `SystemServiceBridge_proofs` | invariants and the refinement to `RequestReply` |
| `RequestReply` | abstract specification: a request is answered at most once, later than it was made |
| `UrlCheckService` | `Service::Impl`, one action per handler; implements `RequestReply` too |
| `UrlCheckService_proofs` | inductive invariant, theorems, and the refinement to `RequestReply` |
| `SiteVerdict` | `SiteVerdictState`, one operator per method |
| `SiteProtection` | `TabProtection` and `NavigationThrottle` of one tab over `SiteVerdict` |
| `SiteProtection_proofs` | what the methods of `SiteVerdict` keep, inductive invariant and theorems |
| `RuleUpdater` | `RuleUpdater::Impl`, its worker, the cache file and the watermark |
| `RuleUpdater_proofs` | inductive invariant and theorems about cache, watermark and rollback |
| `RuleSources` | `RuleSources::Impl`, its worker and the cache files |
| `RuleSources_proofs` | lemmas about queues of work and sums over sets, inductive invariants and theorems |
| `OverlaySession` | `Session` and the render service backend, one operator per method |
| `OverlayChannel` | `Presenter`, `Host`, the sockets, the buffer queue and the render service over `OverlaySession` |
| `OverlayChannel_proofs` | lemmas about buffers, flights and leases, inductive invariant and theorem |
| `OverlayReplies_proofs` | the replies and frames between host and presenter, what the session may refuse, and that nobody waits for ever |
| `MC*` | the symmetry sets, manifests and buffers used by TLC |

### ForkServer

`entry` is the browser's table of children, `rpc` the one outstanding call (the
client holds its mutex across request and reply), `request`/`reply` the socket,
`slot`, `progress` and `pending` the server's table, shared words and exit
records, `proc` the kernel's process table with PID reuse. Each step of the
server loop, of a child's start (`fork`, `prctl`, `getppid` check, run, end) and
of each client function is an action. The browser and the server may die between
any two actions; `PR_SET_PDEATHSIG` kills exactly the children that have armed
it. `gen` and `ended` are history: they tell a process from an earlier one with
the same PID. Left out: descriptor parking, parameter encoding and limits,
logging.

### SystemServiceBridge

A critical section is one action and what follows it another: `Call` copies the
dispatcher under the lock (state "sending") and runs it later, when the handler
table may be empty. Registration and release of handlers run on the ArkTS main
thread, one at a time: the table changes first, the dispatcher after it
(`main`). `sent` is where a request went; `Refused` are calls whose
`napi_call_threadsafe_function` may fail. Event subscriptions share only the
lock with requests and are not modelled.

### UrlCheckService

The handlers run on one sequence, so each is one action. The rules are reduced
to what decides: loading, ready, usable and the set of listed URLs, which change
at any time (an incognito profile shares rules that are already loaded, hence
two kinds of initial state). A cloud reply is in `flights` until the bridge
delivers it, with "unknown" for every kind of failure. A URL is its own cloud
key (the service sends origin and path only), and rules that run out by time
alone, without a notification, are not modelled. `hold` is `rules_acquired_`
with the service's own calls of `Acquire` less those of `Release`, counted
separately for the rule updater and the rule sources; the guards of
`EnsureRules`, of `Configure` and of the destructor are as in the code, so a
second `Acquire` or an extra `Release` shows in the counts. Requests that `Configure` and
`SetSiteEnabled` refuse change nothing and are not steps.

### SiteVerdict and SiteProtection

Everything runs on the UI thread. A navigation is "request", "deferred",
"ready" (told to commit), "error" (an error page or the warning will commit) or
"done". The service is seen through its contract: each check is answered once,
in any order, with any verdict. `answers` (what the service said under the
policy in force), `credit`, `doc.seen`, `doc.late`, `cleared` and `ok` are
history for the properties. Assumptions about Chromium, which is not in the
repository: no other throttle defers a redirect, so `WillRedirectRequest` and
`DidRedirectNavigation` are one step; a navigation that is committing is not
cancelled by a newer one and commits in order; the interstitial tab helper has
seen the end of a navigation before the tab asks it; the post-commit warning
commits. Prerendered navigations are cancelled at once and not modelled.

### RuleUpdater

The updater lives on one sequence; `Initialize` and `VerifyAndInstall` run on a
worker (`up.tasks`) and answer later (`up.replies`), so a release, a request or
the timer may come in between. `disk` is what a crash leaves: the cache file as
the worker wrote it and the watermark as the preferences last wrote it, which
may lag behind `up.pref`. `assets` is the application package, which may be
another one in the next life. A manifest is one of the signed ones or "bad", a
payload the described one or not; digests and signatures are not computed.
Times are ticks that remain; the wall clock, by which rules are valid, only
advances. `newest` and `damaged` are history: the newest downloaded rules that
were in force, and whether a restart found the watermark lagging behind the
cache and the cache unreadable or expired (the one case in which nothing is left
that remembers them).

### RuleSources

`entry.generation` is compared for equality only, so each piece of work (in
`loader`, `tasks`, `replies`) carries whether its generation is `current`, and
cancelling makes it not so. Deletions, parsing and writes share the worker's
queue and keep their order. Source ids are random tokens and never used again.
A list is its number of records. The preferences are written some time after a
change, so a crash may restore a source that was removed, or miss one that was
added; worker tasks of a closed profile end before it is opened again.

### OverlaySession and OverlayChannel

`Present` is a frame that leaves the display compositor: the primary plane is
drawn into the next free buffer of the queue or shown again, the video plane is
absent, shown again or drawn into a buffer that has no `reads`. Flights are kept
by sequence number, as in the code's map, and are sent in order: those up to
`presenter.sent` are. `up` and `down`
are the socket; replies wait in `host.outgoing` when it is full. `Tick` is the
host's whole timer step: lost socket, session poll, replies, activation of a
waiting output, one frame. A lease of the session stands for the entry of
`leases_` and the slot of the backend with the same buffer; its `rs` is where
the render service has the buffer. `RsApply`, `RsComplete` and `RsReturn` are
the render service: it applies transactions in order, completes the last one and
gives back buffers that were replaced or cleaned. The last buffer of a plane
stays with it. Outputs time out (`PollTimeout`) and are made anew
(`Connect`), the GPU process dies, the content is detached and attached. A
buffer is named by the output (primary) or the GPU process (video) that
allocated it. After a failure the presenter keeps the reads of its videos for
ever, as `Fail` does. Left out: videos of the decoder that are registered by
token, geometry and colour checks, fences (a release fence has signalled when a
buffer is "returned") and calls of the render service that fail
(`drain_failed_`), after which a session stays open on purpose.

## 3. Runs

| Run | Bounds | Shows |
|---|---|---|
| `fork_server` | 2 PIDs with 2 lives each, 2 slots, 1 stage | lifetimes, exact statuses, no lost exit, records fit, stages, no foreign process signalled |
| `fork_server_live` | 2 PIDs, 1 slot | calls return, children follow a dead server, waiters return |
| `system_service` | 3 calls (2 with timeouts, 2 that may be refused), 2 handlers, 3 registrations | one place per callback, nobody stranded, `RequestReply`, bounded calls answered |
| `system_service_lost` | 2 calls | a call without a timeout may never be answered (finding) |
| `url_check_service` | 1 URL, 2 checks, tables of 1, 3 revisions, 1 rule change | table limits, one place per callback, what waits is awaited, `Acquire` and `Release` in balance, new rules reach waiting checks, consent, `RequestReply`, every check answered |
| `site_protection` | 3 navigations, 1 hop, 3 revisions | the shown verdict is the document's own, unchecked pages are being checked, danger is covered, bypass once, documents whose commit the tab saw stay out of the back/forward cache |
| `site_redirects` | 2 navigations, 2 hops, 2 revisions | every hop is answered before a commit, deferrals have an answer coming and are resolved |
| `site_late_danger`, `site_overtaken` | as `site_protection`, smaller | findings |
| `rule_updater` | 4 manifests, 4 packages, 2 clients, 2 crashes, clock up to 2, backoff up to 2 failures | no rollback, the cache is accepted after any crash, updates go on and end |
| `rule_sources` | 2 ids, 2 URLs, 2 worker tasks, a limit of 1 record, 1 crash | rules are those of the current URL and within the limit, removed sources leave no file, refreshing goes on |
| `overlay_channel` | 3 frames of the first output and 1 of the second, 2 primary and 2 video buffers, 4 leases per plane and 64 replies as in the code, 1 detach | no buffer overwritten, no reply out of place, nobody waits for ever |

Why the bounds are enough. Launcher: two PIDs used twice let one reply carry the
exit of a process and the launch of its successor with the same PID, and two
slots let records pile up. Bridge: a call in each of the three states of a race
(sending, waiting, answered) while the handler changes. Check service: one entry
is at the limit and one check is refused; three revisions let consent be given
and withdrawn. Tab: three navigations are a document, one that replaces it and
one that replaces that; two hops tell "this hop" from "some hop". Updater: two
manifests with the same sequence and other content, and one before them, give
replays, rollbacks and equal marks; the one with the highest sequence expires
first, so newer rules may be gone while older ones are valid; two crashes let a
watermark that lagged behind be found and used. Sources: with a limit of one
record two sources cannot both be installed, so each one's measure may be stale;
one id is removed while the other's work is queued. Overlay: three frames show a
video, replace it and leave it out, so that all stages of the cleanup run while
a buffer is shown again; the second output starts while the session of the first
drains.

`CHECK_DEADLOCK FALSE` is set where the bounds end every behaviour: all calls,
navigations and PIDs are used up, which is not a deadlock of the program.

Symmetry is used for PIDs and slots, for source ids and URLs, and for video
buffers, in runs without liveness properties.

### Fairness

* `ForkServer`: the server and starting children are scheduled; a client that
  waits for a reply gets it or times out after 5 s; strong fairness for the
  status RPC of a waiter, which polls and competes for the client's mutex.
* `SystemServiceBridge`: posted and delayed tasks run, `Call` goes on after the
  lock, and ArkTS answers what reached a handler that stays. Nothing is assumed
  of a released handler.
* `UrlCheckService`: delayed and posted tasks run. The cloud need not answer.
* `RuleUpdater`: worker tasks, replies and timers run, and a download ends: the
  loader gives up after 30 s. Nothing is assumed of clients, packages or the
  server's content.
* `SiteProtection`: the service answers every check, which `url_check_service`
  shows of it.
* `RuleSources` and `OverlayChannel` have no fairness. That work goes on is
  stated there as an invariant (`RefreshGoesOn`, `NoStall`): in no reachable
  state has everybody finished while somebody waits. It needs no assumption
  about scheduling and allows the symmetry that makes these runs feasible.

## 4. Findings

* `system_service_lost`: releasing one of two ArkTS handlers drops the requests
  in its queue and keeps the dispatcher, so their callbacks never run, while the
  header promises "exactly once". Bounded calls are safe (`BoundedAnswered`).
* `site_late_danger`: a policy change between PROCEED and the commit starts a
  recheck whose dangerous answer nobody acts on.
* `site_overtaken`: the commit of a navigation that a newer one has replaced is
  ignored; if the newer one is aborted, the tab shows an older document's verdict.
  The same early return (`navigation_throttle.cc:84`) skips
  `ProtectCurrentDocument` (line 89): a page that commits under protection while
  a newer navigation is under way is not barred from the back/forward cache, and
  goes there when the newer one commits. The comment of the class (lines 41-43)
  says that activation paths do not bypass the throttle, and
  `docs/OHOS_SAFE_BROWSING.md:13` that the current document is barred.
  TLC reaches this in five steps when `SeenDocumentProtected` is stated without
  `doc.seen`.

The properties `DangerCoveredUnlessLate`, `VerdictOfSeenDocument` and
`SeenDocumentProtected` say exactly what is left of the three promises of URL
protection when those cases are set aside (`doc.late`, `doc.seen`). So the
theorem `SeenDocumentStaysProtected` speaks only of documents whose commit the
tab saw: it does not hold of the document on screen in general. `CheckingIsLive`
sets late pages aside too: when such a page was let through with a risky hop, the
tab's URL is that hop, and a further policy change rechecks neither the hop nor
the page.

## 5. Theorems

All are proved from the named assumptions on the constants only (finite or
bounded sets where a cardinality is taken; model values distinct from "none").

`ForkServer_proofs`. The properties are not inductive: that an exit status is
exact depends on what is in the socket and in the server's records. `IInv` is
the conjunction of `TypeOK`; `Protocol` (one message of the one outstanding call
at a time); `Table` (while the server lives its table is exactly the set of its
children); `Records` (every record is of a process that ended, one per PID and
one per slot, and its slot is free); `InSync` (the browser knows the processes
the server speaks of, or is about to be told); `ProgressTrue` (the shared word
is that of the slot's child). One lemma per action shows it preserved. From it:
`LifetimesBound`, `StatusesExact`, `ExitsReported`, `StagesReached`,
`RecordsAlwaysFit` (records have distinct slots, so there are at most as many as
slots) and the action property `ForeignNeverHarmed`.

`SystemServiceBridge_proofs`. `OnePlace` is inductive with `TypeOK`: each action
moves a callback from one place to the next, and `Complete` moves it only if it
still is in the table. `NobodyStranded` is inductive because `Call` adds to the
table only under the lock and only with a dispatcher. `ImplementsRequestReply`
maps a step that takes the lock to Ask, the run of a callback to Answer and
every other step to a stutter.

`UrlCheckService_proofs`. `IInv` adds three facts to the properties: the tables
are finite sets (cardinalities of a table and of the table with one entry less
or more are compared in every handler), a reply in `flights` that can still be
used was asked for under a policy that allowed it, and `rules_acquired_` is set
exactly when the policy uses local rules (`HoldRight`). The last is what makes
`RulesHeld` inductive: the guards look at the flag, not at the counts, so a check
acquires nothing more because the flag is set already, and `Configure` comes to
one hold or none from either. The second is what
`ConsentRespected` rests on: a reply that passes the id and revision test of
`OnCloudResult` was asked for under the policy in force. `ImplementsRequestReply`
is the same refinement as the bridge's, with the table and the posted tasks in
the place of the lock.

`RuleUpdater_proofs`. `NoRollback` speaks of rules in force, and these come from
the disk, from a download that the worker verified and from the package. `IInv`
therefore ties all places together: `Stage` (at most one job of the updater is
with the worker, and the manifest it was given is still acceptable when it
answers), `Durable` (the watermark on disk is not ahead of that in memory and,
unless `damaged`, the cache file is at least as new as the newest rules that
were in force), `Floor` (once the configuration is loaded, the watermark or the
package's minimum keeps every older manifest out) and `CacheAccepted`.
`OneTaskAtATime` states the part of `Stage` that makes the worker safe without a
lock.

`RuleSources_proofs`. `RefreshGoesOn` counts the current work of the active
source, and that count is kept only because a generation is never current for
another source or another URL. `IInv` says so (`Live`: current work belongs to
the active source and to the URL it has now, and carries rules of its own URL;
`OneOf`: it is the download, one task or one reply) and adds `Booting` (until
the files are restored there is nothing but that one task or its reply),
`Timing` (a source is never due before it may be refreshed, and never held back
for longer than a period), `Allotted` (ids are given out once) and `Cleaned`
(`StaysRemoved` for any queue). General lemmas say what removing the first task,
appending one, superseding a source and appending its deletions do to a queue.
`RulesInForce` bounds a sum over all sources, and the bound was checked when the
file was written, not when its rules are put in force. `Limited` bridges the two:
the list that the worker measured still fits, because until it is applied the
other sources can only lose rules. The laws of a sum over a finite set (it exists,
one more member, a smaller member) are proved from a smallest set that breaks
them, as there is no induction here. The assumption `IsFiniteSet(Ids)` says that
finitely many of the random 128-bit ids exist.

`OverlayChannel_proofs`. `NoOverwrite` compares what the render service holds with
what the presenter believes, three queues away, and outputs come and go in
between. `IInv` is the conjunction of `PresenterOk` (free, flying and shown
buffers are disjoint and agree with the flights), `ReadsOk` (the count of a video
buffer is at least the number of flights that have not released it) and
`ChannelOk`. In the last, `Linked` says that each lease, each release in a queue
and each frame on its way belongs to a flight of the open presenter which has not
counted that plane as released; whatever is not linked is of a past output or GPU
process, whose buffers have other names or, for videos, are read for ever
(`Excess`). The buffers that `Poll` frees are those of swapped flights; that the
n-th swap frees the n-th of them is shown for the first n at which it would fail.

`OverlayReplies_proofs`. `RepliesExpected` has three causes to exclude, and `RInv`
(on top of `IInv`) has a part for each. A reply that the presenter does not expect:
`Orderly` says that each reply in the socket and in the host's queue is expected
once those before it were taken, and `Owed` that every lease, every redundant plane
and an unprocessed frame has a reply outstanding that is expected after all of them.
A frame that the host refuses: `FreshFrames` and `Chained` follow the frames on
their way, each of which shows again only what the one before it shows, down to
what the host shows now (`current`), for which the session has a lease that is on
screen or staged (`SessionRuns`); so `Imported` and `Reusable` hold when the frame
arrives. A socket that the host gives up: sequence numbers rise, and what it may
still have to say (`Debt`) is at most `2 * MaxAllocations + 4`. The assumption
`OutgoingAssumption` says that this fits; the code has 4 allocations per plane and
64 replies. `Connected` leaves the detached content as the only cause. The proof
has one lemma per stage of `Tick`. When replies are taken, a flight is dropped only
if it expects nothing (`Heard`).

`NoStall`, in the same module, says of a state in which nobody has anything left to
do that every frame was swapped. A third invariant `NInv` says what such a state
looks like. `SessionRests`: transactions come to an end, a lease is staged only while
its transaction is under way, one lease per plane is on screen, and a session that
drains or cleans up its video holds only leases that are given back. `Answers`: a
frame the host took is accepted and processed, and each of its planes is released or
still leased. `Latest`: the primary on screen is what all frames since show.
`NewBuffers`: a frame is drawn into a buffer that no earlier flight still holds.
`AllSwapped`: `Poll` has swapped what it could. From these, a session that closes
still has a step to take (`ClosingMoves`); one that runs is ready for a frame
(`SettledReady`), has room for it (`SettledRoom`) and its buffers are not leased, so
the host has taken it (`SettledTaken`); and then all flights were answered and are
ready to be swapped (`SettledSwapped`). `ProgressAssumption` is what the room rests
on: the video on screen and the replaced one that the render service keeps take two
leases, so a plane needs three. The code has four; with two, TLC finds the stall in
three frames.

`SiteProtection_proofs`. One lemma per method of `SiteVerdict` says what it does
to the snapshots; one per handler shows `IInv` preserved. `NavOK` is the core:
the count of a throttle is the number of its answers under way for the policy in
force, every hop without a known risk was answered or is being asked about, and
the latest result is that of the last hop. From it follow `ClearedOnlyHopByHop`
(count zero means all hops were answered) and `DeferredIsWaiting`. `TabOK` ties
the tab's two snapshots to the navigation that is current and to the document
(`DocOK`): with nothing pending they are equal, which is why an answer or an
aborted navigation never shows a verdict of another page.

Two properties changed because their proofs failed for a reason. `NoRollback`
was stated for a lost cache only; three manifests of which the newest expires
first break that without any damage to the file, so `damaged` now includes an
expired cache, and the run has such a manifest. `CheckingIsLive` did not exclude
late pages (section 4), and with two hops and three revisions it is false for
them.

`TypeOK` of `ForkServer` and `SystemServiceBridge` is proved as a part of these
invariants and needs no run of its own.

Only model-checked: liveness and everything under fairness (the prover does not
do ENABLED) and the type of `RuleUpdater`'s backoff, a power of two, for which the
provers have no arithmetic. Every invariant of a passing run is a theorem. No
model uses a RECURSIVE operator, and the provers have no induction over data:
where a theorem needs it, it argues by a least counterexample.

## 6. Plan

1. Modules: `ChildExitRegistry` (`launch_ohos.cc`: late exit callbacks, reused
   PIDs, pidfds opened late); the native window registry; the video decoder and
   the shared image cache with retirement; the tab discarding policy; the
   password vault.
2. Abstract specifications: a resource that is released once after its last use
   (overlay buffers, shared images).

## 7. Not modelled

Vendored and inherited code (`overlay/arkweb` except the handler table,
`external/`), Chromium itself (seen through the calls the overlay makes and
receives), generated wrappers, ArkTS user interface, formatting, logging and
preferences that only mirror modelled state. Event subscriptions of the bridge,
decoder videos and failed render service calls of the overlay are left out of
modelled components (section 2). Each component left out is listed in
`PROJECT.json` with the reason.

Smaller simplifications of modelled handlers, none of which a property rests on:

* `HandleLaunch` forks and answers in one step; a server that dies in between is
  seen through the reply that comes too late. `ReapServerChildren` leaves out the
  status -1 of a child that somebody else reaped.
* A redirect to a known risk is blocked without being appended to the hops, and
  a URL without a valid cloud form is asked about like any other.
* Rules that are invalid for their times have no generation, so the updater
  refuses more of them as stale than the code does.
* `Tick` is one step: a release between its own poll and the one inside `Submit`
  is seen at the first. `TickServe` sends all waiting replies or none, `Poll`
  fails without taking the replies left in a closed socket, and frames that are
  presented after `Fail` are not modelled.
* With one URL the limits of the verdict cache and of the exceptions are not
  reached in `url_check_service`; only the theorem `TablesWithinLimits` speaks of
  them. `BypassOnce` counts uses against clicks; that a grant holds for one URL
  and one policy revision is the guard of `TakeBypass`.
