-------------------------- MODULE UrlCheckService --------------------------
(***************************************************************************)
(* The check service of one profile: Service::Impl of                      *)
(* overlay/chrome/browser/ohos/url_protection/url_protection.cc.           *)
(*                                                                         *)
(* It answers a check from the local rules, from the cloud through the     *)
(* system service bridge, or from both, within a time budget.  It runs on  *)
(* one sequence; what interleaves is the order of checks, cloud replies,   *)
(* timeouts, rule changes and policy changes.  A result is posted, so its  *)
(* callback runs in a later task.  "phishing" stands for every dangerous   *)
(* verdict and "no_match" for every other final one.                       *)
(***************************************************************************)
EXTENDS Integers, FiniteSets

CONSTANTS Urls, Checks,
          MaxPending,      \* 128 in the code
          MaxCache,        \* 256
          MaxExceptions,   \* 1000
          MaxRev, MaxNews  \* policy revisions and rule changes explored

ASSUME LimitsAssumption ==
    /\ MaxPending \in Nat /\ MaxCache \in Nat \ {0} /\ MaxExceptions \in Nat
    /\ MaxRev \in Nat \ {0} /\ MaxNews \in Nat

VARIABLES
    policy,     \* enabled_, provider_, consent_, revision_, site_exceptions_
    rules,      \* loading_, whether the subscriptions are ready, whether any
                \* rule is usable, and the URLs that some rule lists
    hold,       \* rules_acquired_, and this service's calls of Acquire less those of
                \* Release, at the rule updater and at the rule sources
    pending,    \* the checks in pending_
    call,       \* per check, its Pending record
    cache,      \* per URL, the cloud's cached verdict or "none"
    flights,    \* cloud replies to come: <<check, revision>>
    timers,     \* checks whose Timeout task is posted
    asked,      \* checks that were made
    posted,     \* per check, result tasks posted
    ran,        \* per check, how often its callback ran
    alive,      \* the service exists: its profile is open
    news        \* rule changes so far

vars == <<policy, rules, hold, pending, call, cache, flights, timers, asked, posted,
          ran, alive, news>>

Providers == {"local", "huawei", "both"}
Verdicts == {"unknown", "no_match", "phishing"}
NoCall == [url |-> "none", verdict |-> "unknown", local |-> FALSE, cloud |-> FALSE, rev |-> 0]
NoHold == [acquired |-> FALSE, updater |-> 0, sources |-> 0]

UsesLocal(p) == p.enabled /\ p.provider # "huawei"
UsesCloud(p) == p.enabled /\ p.provider # "local" /\ p.consent
IsSiteEnabled(url) == url \notin policy.exceptions

(* Rules that are still loading list nothing and are not usable by          *)
(* themselves, but a subscription may be.                                   *)
RuleStates == [loading : BOOLEAN, ready : BOOLEAN, usable : BOOLEAN, listed : SUBSET Urls]

(* Mutant: every use of the rules acquires them.                            *)
EnsureRules_Again(h) ==
    [acquired |-> TRUE, updater |-> h.updater + 1, sources |-> h.sources + 1]

(* The updater and the sources belong to the original profile.  When it     *)
(* goes they may go first, and their counts with them; until then the weak  *)
(* pointers updater_ and sources_ are set.                                  *)
EnsureRules(h) ==
    IF h.acquired THEN h
    ELSE [acquired |-> TRUE, updater |-> h.updater + 1, sources |-> h.sources + 1]

(* The Release calls.  Configure resets rules_acquired_, the destructor     *)
(* leaves it set.                                                           *)
ReleaseRules(h, flag) ==
    IF h.acquired
    THEN [acquired |-> flag, updater |-> h.updater - 1, sources |-> h.sources - 1]
    ELSE h

(* An incognito profile shares the rules of the original one, which may be  *)
(* loaded already.                                                          *)
Init ==
    /\ policy \in [enabled : BOOLEAN, provider : Providers, consent : {FALSE}, rev : {1},
                   exceptions : {{}}]
    /\ rules \in {[loading |-> ~loaded, ready |-> loaded, usable |-> loaded, listed |-> {}] :
                     loaded \in BOOLEAN}
    /\ hold = IF UsesLocal(policy) THEN EnsureRules(NoHold) ELSE NoHold
    /\ pending = {} /\ flights = {} /\ timers = {} /\ asked = {}
    /\ call = [c \in Checks |-> NoCall]
    /\ cache = [u \in Urls |-> "none"]
    /\ posted = [c \in Checks |-> 0]
    /\ ran = [c \in Checks |-> 0]
    /\ alive = TRUE
    /\ news = 0

-----------------------------------------------------------------------------
(* Completion *)

Dangerous(k) == k.verdict = "phishing"
Waiting(k) == ~Dangerous(k) /\ (k.local \/ k.cloud)

PostResults(done) ==
    posted' = [c \in Checks |-> IF c \in done THEN posted[c] + 1 ELSE posted[c]]

(* Mutant: a check that has its answer stays in the table.                  *)
MaybeComplete_Keeps(touched, calls, waiting) ==
    /\ call' = calls
    /\ pending' = waiting
    /\ PostResults({c \in touched \cap waiting : ~Waiting(calls[c])})

(* MaybeComplete for the checks that a handler touched, once calls are      *)
(* their records and waiting the checks in pending_.                        *)
MaybeComplete(touched, calls, waiting) ==
    LET done == {c \in touched \cap waiting : ~Waiting(calls[c])}
    IN /\ call' = calls
       /\ pending' = waiting \ done
       /\ PostResults(done)

CheckLocal(k, p, r) ==
    IF ~UsesLocal(p) THEN k
    ELSE IF k.url \in r.listed THEN [k EXCEPT !.verdict = "phishing"]
    ELSE IF ~Dangerous(k) /\ r.usable THEN [k EXCEPT !.verdict = "no_match"]
    ELSE k

KnownRisk(url) ==
    /\ IsSiteEnabled(url)
    /\ \/ UsesLocal(policy) /\ url \in rules.listed
       \/ UsesCloud(policy) /\ cache[url] = "phishing"

-----------------------------------------------------------------------------
(* Checks *)

(* Mutant: the table has no limit.                                          *)
Refuses_NoLimit(late) == ~policy.enabled \/ late

(* A check that is not made: protection is off, its time is up (or its URL  *)
(* is not a public one), or too many are waiting.                           *)
Refuses(late) == ~policy.enabled \/ late \/ Cardinality(pending) >= MaxPending

CheckNow(c, url, late) ==
    /\ alive /\ c \notin asked
    /\ ~IsSiteEnabled(url) \/ KnownRisk(url) \/ Refuses(late)
    /\ asked' = asked \cup {c}
    /\ PostResults({c})
    /\ UNCHANGED <<policy, rules, hold, pending, call, cache, flights, timers, ran, alive, news>>

Check(c, url) ==
    LET k0 == [url |-> url, verdict |-> "unknown", rev |-> policy.rev, cloud |-> FALSE,
               local |-> UsesLocal(policy) /\ (rules.loading \/ ~rules.ready)]
        k1 == CheckLocal(k0, policy, rules)
        k2 == IF Dangerous(k1) \/ ~UsesCloud(policy) THEN k1
              ELSE IF cache[url] # "none" THEN [k1 EXCEPT !.verdict = cache[url]]
              ELSE [k1 EXCEPT !.cloud = TRUE]
    IN /\ alive /\ c \notin asked
       /\ IsSiteEnabled(url) /\ ~KnownRisk(url) /\ ~Refuses(FALSE)
       /\ asked' = asked \cup {c}
       /\ hold' = IF UsesLocal(policy) THEN EnsureRules(hold) ELSE hold
       /\ flights' = IF k2.cloud THEN flights \cup {<<c, policy.rev>>} ELSE flights
       /\ timers' = timers \cup {c}
       /\ MaybeComplete({c}, [call EXCEPT ![c] = k2], pending \cup {c})
       /\ UNCHANGED <<policy, rules, cache, ran, alive, news>>

(* Mutant: a reply is used although its check is gone.                      *)
OnCloudCurrent_Always(c, revision) == TRUE

OnCloudCurrent(c, revision) == c \in pending /\ revision = policy.rev

(* A full cache drops an entry for the new one.                             *)
Remember(url, verdict) ==
    LET held == {u \in Urls : cache[u] # "none"}
    IN \/ /\ Cardinality(held) < MaxCache
          /\ cache' = [cache EXCEPT ![url] = verdict]
       \/ /\ Cardinality(held) >= MaxCache
          /\ \E u \in held : cache' = [cache EXCEPT ![u] = "none", ![url] = verdict]

(* The bridge answers once; "unknown" is an error, a timeout, a             *)
(* cancellation or a reply with another identity.                           *)
OnCloud(f, verdict) ==
    LET c == f[1]
        k == call[c]
        better == verdict = "phishing" \/ k.verdict = "unknown"
        w == [k EXCEPT !.cloud = FALSE,
                       !.verdict = IF verdict # "unknown" /\ ~Dangerous(k) /\ better
                                   THEN verdict ELSE @]
    IN /\ f \in flights
       /\ flights' = flights \ {f}
       /\ \/ /\ ~OnCloudCurrent(c, f[2])
             /\ UNCHANGED <<cache, call, pending, posted>>
          \/ /\ OnCloudCurrent(c, f[2])
             /\ \/ verdict # "unknown" /\ Remember(k.url, verdict)
                \/ verdict = "unknown" /\ UNCHANGED cache
             /\ MaybeComplete({c}, [call EXCEPT ![c] = w], pending)
       /\ UNCHANGED <<policy, rules, hold, timers, asked, ran, alive, news>>

(* Mutant: the time budget covers the local rules only.                     *)
Timeout_LocalOnly(c) ==
    /\ c \in timers
    /\ timers' = timers \ {c}
    /\ MaybeComplete({c}, IF c \in pending THEN [call EXCEPT ![c].local = FALSE] ELSE call,
                     pending)
    /\ UNCHANGED <<policy, rules, hold, cache, flights, asked, ran, alive, news>>

Timeout(c) ==
    /\ c \in timers
    /\ timers' = timers \ {c}
    /\ MaybeComplete({c},
           IF c \in pending THEN [call EXCEPT ![c].local = FALSE, ![c].cloud = FALSE] ELSE call,
           pending)
    /\ UNCHANGED <<policy, rules, hold, cache, flights, asked, ran, alive, news>>

(* A throttle or a tab that no longer wants the answer: it still gets one.  *)
Cancel(c) ==
    /\ c \in pending
    /\ MaybeComplete({c}, [call EXCEPT ![c].verdict = "unknown", ![c].local = FALSE,
                                       ![c].cloud = FALSE], pending)
    /\ UNCHANGED <<policy, rules, hold, cache, flights, timers, asked, ran, alive, news>>

RunCallback(c) ==
    /\ posted[c] > 0
    /\ posted' = [posted EXCEPT ![c] = @ - 1]
    /\ ran' = [ran EXCEPT ![c] = @ + 1]
    /\ UNCHANGED <<policy, rules, hold, pending, call, cache, flights, timers, asked, alive, news>>

(* A cached verdict expires after 5 or 30 minutes.                          *)
CacheExpires(url) ==
    /\ cache[url] # "none"
    /\ cache' = [cache EXCEPT ![url] = "none"]
    /\ UNCHANGED <<policy, rules, hold, pending, call, flights, timers, asked, posted,
                   ran, alive, news>>

-----------------------------------------------------------------------------
(* Policy and rules *)

(* Mutant: the checks of the old policy go on.                              *)
CancelAll_Keeps == UNCHANGED <<pending, call, posted>>

(* Every waiting check is answered "unknown" now.                           *)
CancelAll ==
    /\ PostResults(pending)
    /\ pending' = {}
    /\ UNCHANGED call

ClearCache == cache' = [u \in Urls |-> "none"]

ChangePolicy(p) ==
    /\ alive /\ policy.rev < MaxRev
    /\ CancelAll
    /\ policy' = [p EXCEPT !.rev = policy.rev + 1]
    /\ ClearCache
    /\ UNCHANGED <<flights, timers, asked, ran, alive>>

Configure(enabled, provider, consent) ==
    LET p == [policy EXCEPT !.enabled = enabled, !.provider = provider,
                            !.consent = enabled /\ provider # "local" /\ consent]
    IN /\ ChangePolicy(p)
       /\ hold' = IF UsesLocal(p) THEN EnsureRules(hold) ELSE ReleaseRules(hold, FALSE)
       /\ UNCHANGED <<rules, news>>

SetSiteEnabled(url, enabled) ==
    /\ policy.enabled
    /\ enabled \/ url \in policy.exceptions \/ Cardinality(policy.exceptions) < MaxExceptions
    /\ ChangePolicy([policy EXCEPT !.exceptions = IF enabled THEN @ \ {url} ELSE @ \cup {url}])
    /\ UNCHANGED <<rules, hold, news>>

(* The subscriptions became ready, or one was installed, changed or         *)
(* removed: policy_changed.                                                 *)
OnSources(r) ==
    /\ alive /\ news < MaxNews /\ news' = news + 1
    /\ r.ready /\ r.loading = rules.loading
    /\ rules' = r
    /\ \/ UsesLocal(policy) /\ ChangePolicy(policy)
       \/ ~UsesLocal(policy) /\ UNCHANGED <<policy, pending, call, posted, cache, flights,
                                             timers, asked, ran, alive>>
    /\ UNCHANGED hold

(* Mutant: only the checks that wait for the rules look at the new ones.    *)
OnRulesTouches_Waiting(r) ==
    IF UsesLocal(policy) /\ ~r.loading THEN {c \in pending : call[c].local} ELSE {}

OnRulesTouches(r) == IF UsesLocal(policy) /\ ~r.loading THEN pending ELSE {}

(* The updater has new rules, or starts to load them.                       *)
OnRules(r) ==
    LET touched == OnRulesTouches(r)
    IN /\ alive /\ news < MaxNews /\ news' = news + 1
       /\ r.ready = rules.ready
       /\ r.loading => r.listed \subseteq rules.listed
       /\ rules' = r
       /\ MaybeComplete(touched,
              [c \in Checks |-> IF c \in touched
                                THEN CheckLocal([call[c] EXCEPT !.local = ~r.ready], policy, r)
                                ELSE call[c]], pending)
       /\ UNCHANGED <<policy, hold, cache, flights, timers, asked, ran, alive>>

(* Mutant: the service forgets its checks when it goes.                     *)
Close_Drops ==
    /\ alive /\ alive' = FALSE
    /\ hold' = ReleaseRules(hold, TRUE)
    /\ pending' = {} /\ flights' = {} /\ timers' = {}
    /\ UNCHANGED <<policy, rules, call, cache, asked, posted, ran, news>>

(* The profile closes: the destructor gives the rules back and answers what *)
(* waits; replies and timeouts to come find the weak pointer gone.          *)
Close ==
    /\ alive /\ alive' = FALSE
    /\ hold' = ReleaseRules(hold, TRUE)
    /\ CancelAll
    /\ flights' = {} /\ timers' = {}
    /\ UNCHANGED <<policy, rules, cache, asked, ran, news>>

Next ==
    \/ \E c \in Checks :
          \/ \E url \in Urls : Check(c, url) \/ \E late \in BOOLEAN : CheckNow(c, url, late)
          \/ Timeout(c) \/ Cancel(c) \/ RunCallback(c)
    \/ \E f \in flights, verdict \in Verdicts : OnCloud(f, verdict)
    \/ \E url \in Urls : CacheExpires(url) \/ \E on \in BOOLEAN : SetSiteEnabled(url, on)
    \/ \E on, consent \in BOOLEAN, provider \in Providers : Configure(on, provider, consent)
    \/ \E r \in RuleStates : OnSources(r) \/ OnRules(r)
    \/ Close

Spec == Init /\ [][Next]_vars

(* Delayed and posted tasks run.                                            *)
FairSpec == Spec /\ \A c \in Checks : WF_vars(Timeout(c)) /\ WF_vars(RunCallback(c))

-----------------------------------------------------------------------------
(* Properties *)

(* Every variable has the type its handlers keep it in, and the tables of   *)
(* checks, verdicts and exceptions stay within their limits.                *)
TypeOK ==
    /\ policy \in [enabled : BOOLEAN, provider : Providers, consent : BOOLEAN,
                   rev : 1..MaxRev, exceptions : SUBSET Urls]
    /\ rules \in RuleStates
    /\ hold \in [acquired : BOOLEAN, updater : Int, sources : Int] /\ alive \in BOOLEAN
    /\ pending \subseteq asked /\ timers \subseteq asked /\ asked \subseteq Checks
    /\ call \in [Checks -> [url : Urls \cup {"none"}, verdict : Verdicts, local : BOOLEAN,
                            cloud : BOOLEAN, rev : 0..MaxRev]]
    /\ cache \in [Urls -> Verdicts \cup {"none"}]
    /\ flights \subseteq Checks \X (1..MaxRev)
    /\ posted \in [Checks -> Nat]
    /\ ran \in [Checks -> Nat]
    /\ news \in 0..MaxNews
    /\ Cardinality(pending) <= MaxPending
    /\ Cardinality({u \in Urls : cache[u] # "none"}) <= MaxCache
    /\ Cardinality(policy.exceptions) <= MaxExceptions

(* The callback of a check is in the table, in a posted task, or it ran.    *)
OnePlace ==
    \A c \in Checks :
        (IF c \in pending THEN 1 ELSE 0) + posted[c] + ran[c] = IF c \in asked THEN 1 ELSE 0

(* A check in the table waits for something that will end: it has no        *)
(* dangerous answer yet, its timeout is posted, and if it waits for the     *)
(* cloud then a reply of its own is on the way.                             *)
PendingWaits ==
    \A c \in pending : /\ Waiting(call[c]) /\ c \in timers
                       /\ call[c].cloud => <<c, call[c].rev>> \in flights

(* The cloud is asked for, and its answers are remembered, only under a     *)
(* policy with consent: after it is withdrawn no check waits for the cloud  *)
(* and no verdict of the cloud is left.                                     *)
ConsentRespected ==
    /\ \A c \in pending : call[c].cloud => UsesCloud(policy) /\ call[c].rev = policy.rev
    /\ (\E u \in Urls : cache[u] # "none") => UsesCloud(policy)

(* A check does not go on waiting for a URL that the local rules list,      *)
(* whatever changed after it was made.                                      *)
ListedIsCaught == UsesLocal(policy) => \A c \in pending : call[c].url \notin rules.listed

(* Acquire and Release are in balance at the updater and at the sources,    *)
(* whose counts of clients other profiles share: over any settings, checks  *)
(* and site exceptions the service holds each of them once while its policy *)
(* uses local rules, and not at all otherwise or once the profile closed.   *)
(* A second Acquire would keep both running for ever, and a second Release  *)
(* would take the hold of another profile.                                  *)
RulesHeld ==
    LET holds == IF alive /\ UsesLocal(policy) THEN 1 ELSE 0
    IN hold.updater = holds /\ hold.sources = holds

(* The caller's view of a check.                                            *)
Phase == [c \in Checks |-> IF ran[c] > 1 THEN "answered again"
                           ELSE IF ran[c] = 1 THEN "answered"
                           ELSE IF c \in asked THEN "asked" ELSE "idle"]
Promise == INSTANCE RequestReply WITH Requests <- Checks, phase <- Phase

(* The service implements the promise of one asynchronous answer.           *)
AnsweredOnce == Promise!Spec

(* Every check is answered.                                                 *)
EveryCheckAnswered == \A c \in Checks : c \in asked ~> ran[c] = 1
=============================================================================
