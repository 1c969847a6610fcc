--------------------------- MODULE SiteProtection ---------------------------
(***************************************************************************)
(* URL protection of one tab: TabProtection and NavigationThrottle of      *)
(* overlay/chrome/browser/ohos/url_protection/navigation_throttle.cc over  *)
(* the verdict state of module SiteVerdict.                                *)
(*                                                                         *)
(* Everything runs on the UI thread, so each callback is one action; what  *)
(* interleaves is the order of navigations, check results, policy changes  *)
(* and commits.  The check service is seen through its contract: a check   *)
(* is answered once, in any order, with any verdict (module                *)
(* UrlCheckService models how).  Cancelling a check invalidates the weak   *)
(* pointer of its callback, so a cancelled check is never delivered.       *)
(*                                                                         *)
(* Navigation n is in one of the states                                    *)
(*   "idle"      not started                                               *)
(*   "request"   started, the network request is under way                 *)
(*   "deferred"  WillProcessResponse returned DEFER                        *)
(*   "ready"     it returned PROCEED: the renderer was told to commit      *)
(*   "error"     an error page, or the warning if `warns', will commit     *)
(*   "done"                                                                *)
(* A navigation that is committing is not cancelled by a newer one: it     *)
(* commits while the newer one is under way.                               *)
(***************************************************************************)
EXTENDS SiteVerdict, Sequences, FiniteSets

CONSTANTS Urls,      \* the public http(s) URLs
          Blank,     \* the URL of a new tab, never checked
          MaxNav,    \* navigations, same-document ones included
          Answers,   \* the verdicts the service may give
          MaxHops,   \* URLs of one navigation's redirect chain
          MaxRev     \* the last policy revision

ASSUME UrlsAssumption == Blank \notin Urls
ASSUME AnswersAssumption == Answers \subseteq Final
ASSUME BoundsAssumption == MaxNav \in Nat /\ MaxHops \in Nat \ {0} /\ MaxRev \in Nat \ {0}

VARIABLES
    policy,   \* the Service: revision_, enabled_, site_exceptions_
    tab,      \* TabProtection: state_, committed_request_ (non-empty),
              \* committed_error_page_ and the callbacks that are still valid
    nav,      \* each navigation and its NavigationThrottle
    doc,      \* the last committed document of the tab
    bypass,   \* the OneNavigationBypass user data, <<>> when absent
    answers,  \* what the service answered under the current revision
    credit    \* clicks on "visit anyway" minus the checks a bypass replaced

vars == <<policy, tab, nav, doc, bypass, answers, credit>>

Navs == 1..MaxNav
Enabled(p, url) == p.enabled /\ url \notin p.exceptions
Unchecked(url) == [verdict |-> "unknown", url |-> url, bypass |-> FALSE]
Risk(url) == [verdict |-> "phishing", url |-> url, bypass |-> FALSE]

(* A navigation before it starts and after it ended.                        *)
Closed(state) ==
    [st |-> state, hops |-> <<>>, checks |-> {}, pending |-> 0, risk |-> Blank,
     latest |-> Unchecked(Blank), warning |-> <<>>, cleared |-> 0, ok |-> {},
     throttled |-> FALSE]
Committing(n) == nav[n].st \in {"ready", "error"}
(* A navigation that left the browser for the renderer stays alive.         *)
CanStart(n) == /\ nav[n].st = "idle"
               /\ \A m \in Navs : m < n => nav[m].st = "done" \/ Committing(m)
               /\ \A m \in Navs : m > n => nav[m].st = "idle"

Init == \E on \in BOOLEAN :
    /\ policy = [rev |-> 1, enabled |-> on, exceptions |-> {}]
    /\ tab = [st |-> Initialize(Blank, 1, on), creq |-> FALSE, errpage |-> FALSE,
              checks |-> {}]
    /\ nav = [n \in Navs |-> Closed("idle")]
    /\ doc = [url |-> Blank, nav |-> NoId, page |-> "page", warning |-> <<>>,
              seen |-> TRUE, late |-> FALSE, cacheable |-> ~on]
    /\ bypass = <<>>
    /\ answers = {}
    /\ credit = 0

-----------------------------------------------------------------------------
(* TabProtection *)

CancelCommittedCheck(t) == [t EXCEPT !.checks = {}, !.creq = FALSE]

TabBegin(t, p, id, url) ==
    IF IsCurrent(t.st, id) THEN t
    ELSE [CancelCommittedCheck(t) EXCEPT
             !.st = Begin(@, id, url, p.rev, Enabled(p, url))]

TabReport(t, p, id, result, checking) ==
    IF ~IsCurrent(t.st, id) THEN t
    ELSE [t EXCEPT !.st = Report(@, result, checking,
             Enabled(p, IF Dangerous(result) THEN result.url ELSE @.current.url))]

(* HasPendingOrActiveInterstitial of the tab helper, for document d.        *)
Interstitial(d, nv) ==
    d.page = "warning" \/ \E n \in Navs : nv[n].st = "error" /\ nv[n].warning # <<>>

(* Mutant: a document that nobody has asked about yet is left alone.        *)
CheckCommittedDocument_SkipsUnchecked(t, p, d, nv, queued) ==
    LET url == t.st.current.url
    IN IF \/ t.st.pending \/ t.st.current.verdict # "checking" \/ t.creq
          \/ ~Enabled(p, url) \/ url \notin Urls \/ t.errpage \/ url # d.url
          \/ Interstitial(d, nv)
       THEN t
       ELSE [t EXCEPT !.st = StartCommittedCheck(@), !.creq = queued,
                      !.checks = {[c EXCEPT !.latest = FALSE] : c \in @}
                                 \cup {[url |-> url, rev |-> p.rev, latest |-> TRUE]}]

(* `queued' is whether Check returned a request id: it returns none when    *)
(* the answer needs no waiting, and still posts it.                         *)
CheckCommittedDocument(t, p, d, nv, queued) ==
    LET url == t.st.current.url
    IN IF \/ ~NeedsCommittedCheck(t.st) \/ t.creq
          \/ ~Enabled(p, url) \/ url \notin Urls \/ t.errpage \/ url # d.url
          \/ Interstitial(d, nv)
       THEN t
       ELSE [t EXCEPT !.st = StartCommittedCheck(@), !.creq = queued,
                      !.checks = {[c EXCEPT !.latest = FALSE] : c \in @}
                                 \cup {[url |-> url, rev |-> p.rev, latest |-> TRUE]}]

ProtectCurrentDocument(d, p) == [d EXCEPT !.cacheable = @ /\ ~p.enabled]

(* Mutant: the cache is emptied, and the current document may enter it.     *)
ProtectOnPolicy_FlushOnly(d, p) == d

(* The document's share of OnPolicy.                                        *)
ProtectOnPolicy(d, p) == IF p.enabled THEN ProtectCurrentDocument(d, p) ELSE d

-----------------------------------------------------------------------------
(* NavigationThrottle *)

(* A redirect chain is checked hop by hop: a grant admits the URL, a known  *)
(* risk blocks it, anything else is asked of the service.                   *)
CheckCurrentUrl(v, p, url, granted, known) ==
    LET i == Len(v.hops) + 1
        w == [v EXCEPT !.hops = Append(@, url), !.latest = Unchecked(url)]
    IN IF ~p.enabled THEN w
       ELSE IF granted THEN [w EXCEPT !.latest.bypass = TRUE, !.ok = @ \cup {i}]
       ELSE IF known THEN [w EXCEPT !.risk = url]
       ELSE [w EXCEPT !.pending = @ + 1,
                      !.checks = @ \cup {[hop |-> i, url |-> url, rev |-> p.rev]}]

Risky(v) == v.risk # Blank
ReportState(t, p, n, v) ==
    TabReport(t, p, n, IF Risky(v) THEN Risk(v.risk) ELSE v.latest, v.pending > 0)

(* Block associates a warning about the risk with the navigation, and the   *)
(* renderer will commit its page.  A POST cannot be repeated from it.       *)
Warning(url, p, proceed) == <<[url |-> url, rev |-> p.rev, proceed |-> proceed]>>
Block(v, p, post) ==
    [v EXCEPT !.st = "error", !.warning = Warning(v.risk, p, ~post)]
Clear(v, p) == [v EXCEPT !.st = "ready", !.cleared = p.rev]

(* Mutant: the grant outlives the navigation that used it.                  *)
TakeBypass_Keeps(url) ==
    [allowed |-> bypass = <<[url |-> url, rev |-> policy.rev]>>, left |-> bypass]

(* An unrelated navigation consumes the grant too.                          *)
TakeBypass(url) ==
    [allowed |-> bypass = <<[url |-> url, rev |-> policy.rev]>>, left |-> <<>>]

(* It resets the verdict that the throttle has just reported.               *)
DidRedirectNavigation(t, n, url) ==
    IF ~IsCurrent(t.st, n) THEN t
    ELSE [t EXCEPT !.st = Redirect(@, url, policy.rev, Enabled(policy, url))]

(* The checks of WillStartRequest and WillRedirectRequest for throttle v of *)
(* navigation n, reported to the tab t and blocking it when url is known to *)
(* be dangerous; DidRedirectNavigation follows a redirect that proceeds.    *)
CheckHop(n, v, t, url, redirected) ==
    \E known, post \in BOOLEAN :
        LET b == TakeBypass(url)
            granted == policy.enabled /\ b.allowed
            w == CheckCurrentUrl(v, policy, url, granted, known)
            reported == ReportState(t, policy, n, w)
        IN /\ known => Enabled(policy, url) /\ ~granted
           /\ post => known
           /\ bypass' = IF policy.enabled THEN b.left ELSE bypass
           /\ credit' = IF granted THEN credit - 1 ELSE credit
           /\ answers' = IF known THEN answers \cup {<<url, "phishing">>} ELSE answers
           /\ nav' = [nav EXCEPT ![n] = IF Risky(w) THEN Block(w, policy, post) ELSE w]
           /\ tab' = IF Risky(w) \/ ~redirected THEN reported
                     ELSE DidRedirectNavigation(reported, n, url)

WillStartRequest(n, url) ==
    /\ CanStart(n)
    /\ CheckHop(n, [Closed("request") EXCEPT !.throttled = TRUE],
                TabBegin(tab, policy, n, url), url, FALSE)
    /\ UNCHANGED <<policy, doc>>

WillRedirectRequest(n, url) ==
    /\ nav[n].st = "request" /\ Len(nav[n].hops) < MaxHops
    /\ \/ /\ Risky(nav[n])
          /\ \E post \in BOOLEAN : nav' = [nav EXCEPT ![n] = Block(@, policy, post)]
          /\ tab' = ReportState(tab, policy, n, nav[n])
          /\ UNCHANGED <<bypass, answers, credit>>
       \/ /\ ~Risky(nav[n])
          /\ CheckHop(n, nav[n], tab, url, TRUE)
    /\ UNCHANGED <<policy, doc>>

(* Mutant: the response is processed although checks are pending.           *)
WillProcessResponse_NoDefer(n) ==
    /\ nav[n].st = "request"
    /\ ~Risky(nav[n])
    /\ nav' = [nav EXCEPT ![n] = Clear(@, policy)]
    /\ UNCHANGED <<policy, tab, doc, bypass, answers, credit>>

WillProcessResponse(n) ==
    /\ nav[n].st = "request"
    /\ \/ /\ Risky(nav[n])
          /\ \E post \in BOOLEAN : nav' = [nav EXCEPT ![n] = Block(@, policy, post)]
          /\ tab' = ReportState(tab, policy, n, nav[n])
       \/ /\ ~Risky(nav[n])
          /\ nav' = [nav EXCEPT ![n] = IF @.pending > 0 THEN [@ EXCEPT !.st = "deferred"]
                                       ELSE Clear(@, policy)]
          /\ UNCHANGED tab
    /\ UNCHANGED <<policy, doc, bypass, answers, credit>>

(* Mutant: a hop that was answered stays counted.                           *)
Answered_Uncounted(v, c, verdict) ==
    [v EXCEPT !.checks = @ \ {c},
              !.latest = IF c.url = v.hops[Len(v.hops)]
                         THEN [verdict |-> verdict, url |-> c.url, bypass |-> FALSE] ELSE @,
              !.risk = IF verdict = "phishing" /\ ~Risky(v) THEN c.url ELSE @,
              !.ok = IF verdict = "phishing" THEN @ ELSE @ \cup {c.hop}]

(* What an answer changes in the throttle that asked.                       *)
Answered(v, c, verdict) ==
    [v EXCEPT !.checks = @ \ {c}, !.pending = @ - 1,
              !.latest = IF c.url = v.hops[Len(v.hops)]
                         THEN [verdict |-> verdict, url |-> c.url, bypass |-> FALSE] ELSE @,
              !.risk = IF verdict = "phishing" /\ ~Risky(v) THEN c.url ELSE @,
              !.ok = IF verdict = "phishing" THEN @ ELSE @ \cup {c.hop}]

(* The service answers for a site with an exception without looking.        *)
Verdict(url) == IF Enabled(policy, url) THEN Answers ELSE {"unknown"}

OnResult(n) ==
    \E c \in nav[n].checks : \E verdict \in Verdict(c.url), post \in BOOLEAN :
        LET v == Answered(nav[n], c, verdict)
        IN /\ c.rev = policy.rev
           /\ answers' = answers \cup {<<c.url, verdict>>}
           /\ tab' = ReportState(tab, policy, n, v)
           /\ nav' = [nav EXCEPT ![n] =
                        IF v.st # "deferred" THEN v
                        ELSE IF Risky(v) THEN Block(v, policy, post)
                        ELSE IF v.pending = 0 THEN Clear(v, policy)
                        ELSE v]
           /\ post => nav[n].st = "deferred" /\ Risky(v)
           /\ UNCHANGED <<policy, doc, bypass, credit>>

-----------------------------------------------------------------------------
(* The end of a navigation *)

(* DidFinishNavigation of a cross-document navigation that ends as d, and   *)
(* the destruction of its throttle.  The tab ignores the end of a           *)
(* navigation that a newer one has replaced.                                *)
DidFinishNavigation(n, committed, url, d) ==
    LET seen == IsCurrent(tab.st, n)
        nv == [nav EXCEPT ![n] = Closed("done")]
        dd == IF seen /\ committed
              THEN ProtectCurrentDocument([d EXCEPT !.seen = TRUE], policy) ELSE d
        t == [tab EXCEPT !.st = Finish(@, committed, url),
                         !.errpage = IF committed THEN d.page # "page" ELSE @]
    IN /\ nav' = nv
       /\ doc' = dd
       /\ \E queued \in BOOLEAN :
             /\ tab' = IF seen THEN CheckCommittedDocument(t, policy, dd, nv, queued)
                       ELSE tab
             /\ queued => tab'.creq /\ ~tab.creq
       /\ UNCHANGED <<policy, bypass, answers, credit>>

Committed(n, url, page) ==
    [url |-> url, nav |-> n, page |-> page, seen |-> FALSE, cacheable |-> TRUE,
     warning |-> nav[n].warning,
     late |-> page = "page" /\ nav[n].cleared # policy.rev]

(* Navigations that are committing commit in the order they started.        *)
First(n) == \A m \in Navs : Committing(m) => n <= m
LastHop(n) == nav[n].hops[Len(nav[n].hops)]

CommitPage(n) ==
    /\ nav[n].st = "ready" /\ First(n)
    /\ DidFinishNavigation(n, TRUE, LastHop(n), Committed(n, LastHop(n), "page"))

CommitError(n) ==
    /\ nav[n].st = "error" /\ First(n)
    /\ DidFinishNavigation(n, TRUE, LastHop(n),
           Committed(n, LastHop(n), IF nav[n].warning # <<>> THEN "warning" ELSE "error"))

(* Stopped, replaced, or answered by a download.                            *)
Abort(n) ==
    /\ nav[n].st \in {"request", "deferred", "ready"}
    /\ DidFinishNavigation(n, FALSE, LastHop(n), doc)

(* The network request failed: an error page will commit.                   *)
FailRequest(n) ==
    /\ nav[n].st = "request"
    /\ nav' = [nav EXCEPT ![n].st = "error"]
    /\ UNCHANGED <<policy, tab, doc, bypass, answers, credit>>

(* A hash change or History API call of the current document.               *)
SameDocumentNavigation(n, url) ==
    /\ nav[n].st = "idle" /\ \A m \in Navs : m < n => nav[m].st # "idle"
    /\ doc.page = "page" /\ doc.nav # NoId
    /\ nav' = [nav EXCEPT ![n] = Closed("done")]
    /\ doc' = [doc EXCEPT !.url = url, !.nav = n]
    /\ \E queued \in BOOLEAN :
          /\ tab' = CheckCommittedDocument(
                        [CancelCommittedCheck(tab) EXCEPT
                            !.st = SameDocumentCommit(@, n, url, policy.rev,
                                                      Enabled(policy, url))],
                        policy, doc', nav', queued)
          /\ queued => tab'.creq
    /\ UNCHANGED <<policy, bypass, answers, credit>>

-----------------------------------------------------------------------------
(* The check of a committed document *)

(* LoadPostCommitErrorPage starts a navigation that no throttle sees and    *)
(* that commits the warning.                                                *)
ShowCommittedRisk(t, n, url) ==
    /\ nav' = [nav EXCEPT ![n] = [Closed("error") EXCEPT
                                !.hops = <<url>>, !.warning = Warning(url, policy, FALSE)]]
    /\ tab' = TabReport(TabBegin(t, policy, n, url), policy, n, Risk(url), FALSE)

OnCommittedResult ==
    \E c \in tab.checks : \E verdict \in Verdict(c.url) :
        LET result == [verdict |-> verdict, url |-> c.url, bypass |-> FALSE]
            rest == [tab EXCEPT !.checks = @ \ {c}]
            done == [rest EXCEPT !.st = CompleteCommittedCheck(@, result), !.creq = FALSE]
            accepted == /\ c.rev = policy.rev /\ c.url = doc.url
                        /\ Accepts(tab.st, c.latest, c.rev, result)
        IN /\ answers' = answers \cup {<<c.url, verdict>>}
           /\ \/ /\ ~accepted
                 /\ tab' = rest
                 /\ UNCHANGED <<nav, bypass>>
              \/ /\ accepted /\ ~Dangerous(result)
                 /\ tab' = done
                 /\ UNCHANGED <<nav, bypass>>
              \/ /\ accepted /\ Dangerous(result)
                 /\ bypass' = <<>>
                 /\ \E n \in Navs : /\ nav[n].st = "idle"
                                    /\ \A m \in Navs : m < n => nav[m].st # "idle"
                                    /\ ShowCommittedRisk(done, n, c.url)
           /\ UNCHANGED <<policy, doc, credit>>

-----------------------------------------------------------------------------
(* Policy *)

OnPolicy(t, p, d, nv, queued) ==
    CheckCommittedDocument(
        [CancelCommittedCheck(t) EXCEPT
            !.st = PolicyChanged(@, p.rev, Enabled(p, @.current.url),
                                 Enabled(p, @.committed.url))],
        p, d, nv, queued)

(* Mutant: only the last hop is checked again.                              *)
OnPolicyChanged_LastHop(v, p) ==
    LET again == IF p.enabled THEN {Len(v.hops)} ELSE {}
        w == [v EXCEPT !.checks = {[hop |-> i, url |-> v.hops[i], rev |-> p.rev] : i \in again},
                       !.pending = Cardinality(again), !.risk = Blank,
                       !.latest = Unchecked(Blank), !.ok = {}]
    IN IF ~v.throttled THEN v
       ELSE IF w.st = "deferred" /\ w.pending = 0 THEN Clear(w, p) ELSE w

(* Mutant: the count of checks goes on from the old one.                    *)
OnPolicyChanged_KeepsCount(v, p) ==
    LET again == IF p.enabled THEN DOMAIN v.hops ELSE {}
        w == [v EXCEPT !.checks = {[hop |-> i, url |-> v.hops[i], rev |-> p.rev] : i \in again},
                       !.pending = @ + Cardinality(again), !.risk = Blank,
                       !.latest = Unchecked(Blank), !.ok = {}]
    IN IF ~v.throttled THEN v
       ELSE IF w.st = "deferred" /\ w.pending = 0 THEN Clear(w, p) ELSE w

(* Mutant: nobody resumes a navigation whose checks became unnecessary.     *)
OnPolicyChanged_NoResume(v, p) ==
    LET again == IF p.enabled THEN DOMAIN v.hops ELSE {}
        w == [v EXCEPT !.checks = {[hop |-> i, url |-> v.hops[i], rev |-> p.rev] : i \in again},
                       !.pending = Cardinality(again), !.risk = Blank,
                       !.latest = Unchecked(Blank), !.ok = {}]
    IN IF ~v.throttled THEN v ELSE w

(* Every hop is checked again under the new policy.                         *)
OnPolicyChanged(v, p) ==
    LET again == IF p.enabled THEN DOMAIN v.hops ELSE {}
        w == [v EXCEPT !.checks = {[hop |-> i, url |-> v.hops[i], rev |-> p.rev] : i \in again},
                       !.pending = Cardinality(again), !.risk = Blank,
                       !.latest = Unchecked(Blank), !.ok = {}]
    IN IF ~v.throttled THEN v
       ELSE IF w.st = "deferred" /\ w.pending = 0 THEN Clear(w, p) ELSE w

(* changed_.Notify(): the tab first, it subscribed before the throttles;    *)
(* of these only the one of the current navigation reports to the tab.      *)
PolicyChange(enabled, exceptions) ==
    LET p == [rev |-> policy.rev + 1, enabled |-> enabled, exceptions |-> exceptions]
        nv == [n \in Navs |-> OnPolicyChanged(nav[n], p)]
        d == ProtectOnPolicy(doc, p)
        cur == tab.st.current.id
    IN /\ policy.rev < MaxRev
       /\ policy' = p
       /\ nav' = nv
       /\ doc' = d
       /\ \E queued \in BOOLEAN :
             LET t == OnPolicy(tab, p, d, nav, queued)
             IN /\ queued => t.creq
                /\ tab' = IF cur \in Navs /\ nav[cur].throttled
                          THEN ReportState(t, p, cur, nv[cur]) ELSE t
       /\ bypass' = <<>>
       /\ answers' = {}
       /\ UNCHANGED <<credit>>

Configure(enabled) == PolicyChange(enabled, policy.exceptions)

OnSources == policy.enabled /\ PolicyChange(TRUE, policy.exceptions)

(* A command of the shell that names the navigation and the policy the tab  *)
(* is in; any other is refused and changes nothing.                         *)
SetSiteEnabled(enabled) ==
    LET url == tab.st.current.url
    IN /\ policy.enabled /\ url \in Urls /\ tab.st.current.id # NoId
       /\ PolicyChange(TRUE, IF enabled THEN policy.exceptions \ {url}
                             ELSE policy.exceptions \cup {url})

(* "Visit anyway" on a warning; used_ allows it once.  The navigation it    *)
(* opens is any that starts next.                                           *)
Proceed ==
    /\ doc.page = "warning" /\ doc.warning[1].proceed
    /\ doc' = [doc EXCEPT !.warning[1].proceed = FALSE]
    /\ bypass' = LET w == doc.warning[1]
                 IN IF w.rev = policy.rev THEN <<[url |-> w.url, rev |-> w.rev]>> ELSE bypass
    /\ credit' = credit + 1
    /\ UNCHANGED <<policy, tab, nav, answers>>

(* Ten seconds after the click.                                             *)
BypassExpires ==
    /\ bypass # <<>> /\ bypass' = <<>>
    /\ UNCHANGED <<policy, tab, nav, doc, answers, credit>>

Deliver == OnCommittedResult \/ \E n \in Navs : OnResult(n)

Next ==
    \/ \E n \in Navs :
          \/ \E url \in Urls : WillStartRequest(n, url)
          \/ \E url \in Urls : WillRedirectRequest(n, url)
          \/ WillProcessResponse(n)
          \/ CommitPage(n) \/ CommitError(n) \/ Abort(n) \/ FailRequest(n)
          \/ \E url \in Urls : SameDocumentNavigation(n, url)
    \/ Deliver
    \/ \E on \in BOOLEAN : Configure(on) \/ SetSiteEnabled(on)
    \/ OnSources
    \/ Proceed \/ BypassExpires

Spec == Init /\ [][Next]_vars

(* The service answers every check.                                         *)
FairSpec == Spec /\ WF_vars(OnCommittedResult) /\ \A n \in Navs : WF_vars(OnResult(n))

-----------------------------------------------------------------------------
(* Properties *)

(* Every record has the type its handlers keep it in.                       *)
TypeOK ==
    /\ policy.rev \in 1..MaxRev /\ policy.enabled \in BOOLEAN
    /\ policy.exceptions \subseteq Urls
    /\ \A s \in {tab.st.current, tab.st.committed} :
          /\ s.id \in Navs \cup {NoId} /\ s.url \in Urls \cup {Blank}
          /\ s.revision \in 0..MaxRev /\ s.verdict \in Verdicts
    /\ \A n \in Navs :
          /\ nav[n].st \in {"idle", "request", "deferred", "ready", "error", "done"}
          /\ nav[n].hops \in Seq(Urls) /\ Len(nav[n].hops) <= MaxHops
          /\ nav[n].pending \in 0..MaxHops
    /\ doc.page \in {"page", "error", "warning"}
    /\ doc.page = "warning" <=> doc.warning # <<>>

Settled == ~tab.st.pending /\ doc.page = "page"

IsOwn(s) ==
    s.verdict \in Final => s.revision = policy.rev /\ <<s.url, s.verdict>> \in answers

(* The final verdict a tab shows for a committed document, or keeps for     *)
(* restoring it, was given by the service for that URL under the policy in  *)
(* force: never one of another hop, of an earlier document or of an earlier *)
(* policy.                                                                  *)
VerdictIsOwn == IsOwn(tab.st.committed) /\ (~tab.st.pending => IsOwn(tab.st.current))

(* A navigation that WillProcessResponse or OnResult let through under the  *)
(* policy in force had every hop of its redirect chain answered harmless,   *)
(* or admitted by the user, under that policy.                              *)
ClearedHopByHop ==
    \A n \in Navs :
        nav[n].st = "ready" /\ nav[n].cleared = policy.rev /\ policy.enabled
            => nav[n].ok = DOMAIN nav[n].hops /\ ~Risky(nav[n])

(* A navigation is held back only while an answer that can release it is on *)
(* its way.                                                                 *)
DeferredHasCheck ==
    \A n \in Navs : nav[n].st = "deferred"
        => ~Risky(nav[n]) /\ \E c \in nav[n].checks : c.rev = policy.rev

(* A page that shows no final verdict although its site is protected is     *)
(* being checked: no navigation, History API call or policy change leaves   *)
(* it "unchecked" for good.  (Documents whose commit the tab did not see    *)
(* are the subject of VerdictOfDocument, those that were let through under  *)
(* an earlier policy of DangerCovered.)                                     *)
CheckingIsLive ==
    /\ Settled /\ doc.seen /\ ~doc.late /\ ~Interstitial(doc, nav)
    /\ tab.st.current.verdict \in {"unchecked", "checking"}
    /\ Enabled(policy, tab.st.current.url) /\ doc.url \in Urls
    => \E c \in tab.checks :
          c.latest /\ tab.st.fresh /\ c.rev = policy.rev /\ c.url = doc.url

(* Once nothing is pending, a page the tab saw commit is the one the tab's  *)
(* verdict is about.                                                        *)
VerdictOfSeenDocument ==
    Settled /\ doc.seen /\ ~doc.late
        => tab.st.current.id = doc.nav /\ tab.st.current.url = doc.url

(* A page whose verdict is dangerous is not left on screen: the throttle    *)
(* blocked it before the commit, or the check of the committed document has *)
(* put a warning under way.                                                 *)
DangerCoveredUnlessLate ==
    Settled /\ doc.seen /\ ~doc.late /\ ~Interstitial(doc, nav)
        => ~Dangerous(tab.st.current)

(* Each use of a bypass is paid for by a click on a warning.                *)
BypassOnce == credit >= 0

(* While protection is on, a document whose commit the tab saw cannot be    *)
(* kept in the back/forward cache, whichever of it and the protection came  *)
(* first.  Documents whose commit it did not see are excluded: when a newer *)
(* navigation has begun, DidFinishNavigation returns before                 *)
(* ProtectCurrentDocument, and with protection on the document on screen    *)
(* may be cached until the next policy change.                              *)
SeenDocumentProtected == policy.enabled /\ doc.seen => ~doc.cacheable

(* A deferred navigation is resumed, blocked or dropped.                    *)
DeferredResolves == \A n \in Navs : nav[n].st = "deferred" ~> nav[n].st # "deferred"

(* The page of an ordinary navigation with a dangerous verdict is never     *)
(* committed unblocked.                                                     *)
DangerCovered ==
    Settled /\ doc.seen /\ ~Interstitial(doc, nav)
        => ~Dangerous(tab.st.current)

(* A final verdict is never shown for a page with another URL.              *)
VerdictOfDocument ==
    Settled /\ tab.st.current.verdict \in Final => tab.st.current.url = doc.url
=============================================================================
