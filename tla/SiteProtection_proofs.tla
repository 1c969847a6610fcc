------------------------ MODULE SiteProtection_proofs ------------------------
(***************************************************************************)
(* Theorems about SiteProtection, for any set of URLs and any number of    *)
(* navigations, redirects and policies.                                    *)
(*                                                                         *)
(* IInv is inductive.  NavOK is about one navigation and its throttle: the *)
(* count of checks is the number of checks on their way, each hop of a     *)
(* chain without a known risk is answered or being asked about, and what   *)
(* the throttle would report is an answer for the last hop.  TabOK is      *)
(* about the tab: which navigation its verdict belongs to, and that the    *)
(* verdict is the throttle's.  DocOK relates the tab to the document.      *)
(***************************************************************************)
EXTENDS SiteProtection, TLAPS, FiniteSetTheorems

-----------------------------------------------------------------------------
(* The inductive invariant *)

States == {"idle", "request", "deferred", "ready", "error", "done"}
Active == {"request", "deferred", "ready", "error"}
NavFields == {"st", "hops", "checks", "pending", "risk", "latest", "warning", "cleared", "ok",
              "throttled"}
Snapshots == [id : Navs \cup {NoId}, url : Urls \cup {Blank}, revision : Nat, verdict : Verdicts]

(* The check of hop i of a chain.                                           *)
HopCheck(hops, rev, i) == [hop |-> i, url |-> hops[i], rev |-> rev]
Last(hops) == hops[Len(hops)]

(* Mind that a page which is let through later than its policy may have new *)
(* checks and a risk, while one that was let through under it has none.     *)
NavTyped(v, rev) ==
    /\ DOMAIN v = NavFields
    /\ v.st \in States
    /\ v.hops \in Seq(Urls) /\ Len(v.hops) <= MaxHops
    /\ v.risk \in Urls \cup {Blank} /\ v.latest.verdict \in Final
    /\ v.cleared \in Nat /\ v.cleared <= rev
    /\ IsFiniteSet(v.checks) /\ v.pending = Cardinality(v.checks)
    /\ \A c \in v.checks : c.hop \in 1..Len(v.hops) /\ c = HopCheck(v.hops, rev, c.hop)
    /\ v.ok \subseteq 1..Len(v.hops)
    /\ v.warning = <<>> \/ \E w : v.warning = <<w>>
    /\ v.st # "error" => v.warning = <<>>
    /\ v.st \in {"request", "deferred", "ready"} => v.throttled
    /\ v.throttled => v.st \in Active
    /\ ~v.throttled => v.checks = {} /\ v.risk = Blank

HopsAccounted(v) ==
    ~Risky(v) => \A i \in 1..Len(v.hops) : i \in v.ok \/ \E c \in v.checks : c.hop = i

LatestOwn(v, ans) ==
    ~Risky(v) /\ Len(v.hops) > 0
        => \/ v.latest.bypass \/ \E c \in v.checks : c.hop = Len(v.hops)
           \/ <<Last(v.hops), v.latest.verdict>> \in ans

NavCore(v, p, ans) ==
    /\ NavTyped(v, p.rev)
    /\ Risky(v) => <<v.risk, "phishing">> \in ans
    /\ v.latest.verdict = "phishing" => Risky(v)
    /\ v.throttled /\ p.enabled => HopsAccounted(v) /\ LatestOwn(v, ans)

NavOK(v, p, ans) ==
    /\ NavCore(v, p, ans)
    /\ v.st = "deferred" => ~Risky(v) /\ v.checks # {}
    /\ v.st = "ready" /\ v.cleared = p.rev => ~Risky(v) /\ v.checks = {}

HasHop(v) == v.st \in Active => Len(v.hops) > 0

NavsOK ==
    /\ DOMAIN nav = Navs
    /\ \A n \in Navs : NavOK(nav[n], policy, answers) /\ HasHop(nav[n])

PolicyOK ==
    /\ DOMAIN policy = {"rev", "enabled", "exceptions"}
    /\ policy.rev \in 1..MaxRev /\ policy.enabled \in BOOLEAN /\ policy.exceptions \subseteq Urls

TabTyped(t, rev) ==
    /\ DOMAIN t = {"st", "creq", "errpage", "checks"}
    /\ DOMAIN t.st = {"current", "committed", "pending", "fresh"}
    /\ t.st.current \in Snapshots /\ t.st.committed \in Snapshots
    /\ t.st.current.revision = rev /\ t.st.committed.revision = rev
    /\ \A c \in t.checks : DOMAIN c = {"url", "rev", "latest"} /\ c.url \in Urls

(* The verdict of a navigation under way is what its throttle reported.     *)
ReportedOwn(s, v, ans) ==
    s.verdict \in Final =>
        IF Dangerous(s) THEN <<s.url, "phishing">> \in ans /\ (v.throttled => Risky(v))
        ELSE <<Last(v.hops), s.verdict>> \in ans

TabOK ==
    LET st == tab.st IN
    /\ TabTyped(tab, policy.rev)
    /\ IsOwn(st.committed)
    /\ st.committed.id # NoId => nav[st.committed.id].st = "done"
    /\ st.pending => /\ st.current.id \in Navs /\ nav[st.current.id].st \in Active
                     /\ tab.checks = {} /\ ~tab.creq
                     /\ ReportedOwn(st.current, nav[st.current.id], answers)
    /\ ~st.pending => st.current = st.committed

DocOK ==
    /\ DOMAIN doc = {"url", "nav", "page", "warning", "seen", "late", "cacheable"}
    /\ doc.page \in {"page", "error", "warning"}
    /\ doc.page = "warning" <=> doc.warning # <<>>
    /\ doc.warning = <<>> \/ \E w : doc.warning = <<w>>
    /\ doc.seen => (tab.errpage <=> doc.page # "page")
    /\ doc.page = "page" /\ doc.seen /\ ~doc.late
          => /\ tab.st.committed.id = doc.nav /\ tab.st.committed.url = doc.url
             /\ Dangerous(tab.st.committed) => Interstitial(doc, nav)

BypassOK == credit \in Nat /\ (bypass # <<>> => credit > 0)

IInv ==
    /\ PolicyOK /\ NavsOK /\ TabOK /\ DocOK /\ BypassOK
    /\ SeenDocumentProtected /\ CheckingIsLive

-----------------------------------------------------------------------------
(* One navigation *)

(* Answers that are added take nothing away.                                *)
LEMMA NavOKMonotone ==
    ASSUME NEW v, NEW p, NEW ans, NEW more, ans \subseteq more, NavOK(v, p, ans)
    PROVE  NavOK(v, p, more)
<1>1. LatestOwn(v, ans) => LatestOwn(v, more)
  BY DEF LatestOwn
<1> QED BY <1>1 DEF NavOK, NavCore

(* As many checks as hops at most, and none when the count is zero.         *)
LEMMA ChecksCounted ==
    ASSUME NEW v, NEW rev, NavTyped(v, rev)
    PROVE  /\ v.pending \in Nat /\ v.pending <= Len(v.hops)
           /\ v.pending = 0 <=> v.checks = {}
<1> DEFINE f == [c \in v.checks |-> c.hop]
<1>1. Len(v.hops) \in Nat /\ IsFiniteSet(1..Len(v.hops)) /\ Cardinality(1..Len(v.hops)) = Len(v.hops)
  <2>1. Len(v.hops) \in Nat
    BY DEF NavTyped
  <2> QED BY <2>1, FS_Interval
<1>2. \A c \in v.checks : c.hop \in 1..Len(v.hops) /\ c = HopCheck(v.hops, rev, c.hop)
  BY DEF NavTyped
<1>3. f \in Injection(v.checks, 1..Len(v.hops))
  <2>1. f \in [v.checks -> 1..Len(v.hops)]
    BY <1>2
  <2>2. \A c, d \in v.checks : f[c] = f[d] => c = d
    BY <1>2
  <2> QED BY <2>1, <2>2 DEF Injection, IsInjective
<1>4. Cardinality(v.checks) <= Len(v.hops)
  BY <1>1, <1>3, FS_Injection
<1>5. IsFiniteSet(v.checks) /\ v.pending = Cardinality(v.checks)
  BY DEF NavTyped
<1> QED BY <1>4, <1>5, FS_EmptySet, FS_CardinalityType

(* A chain with one more hop: the others keep their places.                 *)
LEMMA OneMoreHop ==
    ASSUME NEW hops \in Seq(Urls), NEW url \in Urls
    PROVE  LET more == Append(hops, url) IN
           /\ more \in Seq(Urls) /\ Len(more) = Len(hops) + 1 /\ Len(hops) \in Nat
           /\ more[Len(hops) + 1] = url /\ Last(more) = url
           /\ \A i \in 1..Len(hops) : more[i] = hops[i]
  BY DEF Last

(* CheckCurrentUrl by what it finds: protection off, a grant, a known risk, *)
(* or nothing, so that it asks about the new hop.                           *)
Taken(v, p, url, found) ==
    LET u == [v EXCEPT !.hops = Append(@, url), !.latest = Unchecked(url)]
        i == Len(v.hops) + 1
    IN IF found = "off" THEN u
       ELSE IF found = "grant" THEN [u EXCEPT !.latest.bypass = TRUE, !.ok = @ \cup {i}]
       ELSE IF found = "risk" THEN [u EXCEPT !.risk = url]
       ELSE [u EXCEPT !.pending = @ + 1,
                      !.checks = @ \cup {[hop |-> i, url |-> url, rev |-> p.rev]}]

Requested(w, p, ans) == NavOK(w, p, ans) /\ w.st = "request" /\ Len(w.hops) > 0

LEMMA TakenOK ==
    ASSUME NEW p, p.rev \in Nat, NEW ans, NEW v, NavOK(v, p, ans), v.st = "request", ~Risky(v),
           Len(v.hops) < MaxHops, NEW url \in Urls, NEW found \in {"off", "grant", "risk", "ask"},
           p.enabled <=> found # "off", NEW w, w = Taken(v, p, url, found),
           NEW more, ans \subseteq more, found = "risk" => <<url, "phishing">> \in more
    PROVE  Requested(w, p, more)
<1> DEFINE i == Len(v.hops) + 1
           hops == Append(v.hops, url)
           c == [hop |-> i, url |-> url, rev |-> p.rev]
<1>1. /\ NavTyped(v, p.rev) /\ DOMAIN v = NavFields /\ v.throttled /\ v.risk = Blank
      /\ v.hops \in Seq(Urls) /\ v.warning = <<>>
  BY DEF NavOK, NavCore, NavTyped, Risky
<1>2. /\ hops \in Seq(Urls) /\ Len(hops) = i /\ i \in Nat /\ i > 0 /\ hops[i] = url /\ Last(hops) = url
      /\ \A j \in 1..Len(v.hops) : hops[j] = v.hops[j]
      /\ Len(v.hops) \in Nat /\ i <= MaxHops
  BY <1>1, OneMoreHop, BoundsAssumption
<1>3. url # Blank
  BY UrlsAssumption
<1>4. \A d \in v.checks : d.hop \in 1..Len(v.hops) /\ d = HopCheck(v.hops, p.rev, d.hop)
  BY <1>1 DEF NavTyped
<1>5. \A d \in v.checks : d.hop \in 1..i /\ d = HopCheck(hops, p.rev, d.hop)
  BY <1>2, <1>4 DEF HopCheck
<1>6. /\ v.checks \cup {c} = v.checks \cup {c} /\ c \notin v.checks
      /\ c.hop = i /\ c = HopCheck(hops, p.rev, c.hop)
  BY <1>2, <1>4 DEF HopCheck
<1>7. /\ IsFiniteSet(v.checks) /\ v.pending = Cardinality(v.checks)
      /\ IsFiniteSet(v.checks \cup {c}) /\ Cardinality(v.checks \cup {c}) = Cardinality(v.checks) + 1
  <2>1. IsFiniteSet(v.checks) /\ v.pending = Cardinality(v.checks)
    BY <1>1 DEF NavTyped
  <2> HIDE DEF c
  <2> QED BY <1>6, <2>1, FS_AddElement
<1> DEFINE u == [v EXCEPT !.hops = Append(@, url), !.latest = Unchecked(url)]
<1>8. w = IF found = "off" THEN u
          ELSE IF found = "grant" THEN [u EXCEPT !.latest.bypass = TRUE, !.ok = @ \cup {i}]
          ELSE IF found = "risk" THEN [u EXCEPT !.risk = url]
          ELSE [u EXCEPT !.pending = @ + 1, !.checks = @ \cup {c}]
  BY DEF Taken
<1> HIDE DEF c, i, hops
<1>9. /\ DOMAIN u = NavFields /\ u.st = "request" /\ u.hops = hops /\ u.risk = Blank /\ u.throttled
      /\ u.checks = v.checks /\ u.pending = v.pending /\ u.ok = v.ok /\ u.warning = <<>>
      /\ u.cleared = v.cleared /\ u.latest = Unchecked(url)
  BY <1>1 DEF NavFields, hops
<1> HIDE DEF u
<1>10. /\ DOMAIN w = NavFields /\ w.st = "request" /\ w.hops = hops /\ w.throttled
       /\ w.warning = <<>> /\ w.cleared = v.cleared
       /\ w.risk = IF found = "risk" THEN url ELSE Blank
       /\ w.latest.verdict = "unknown"
       /\ (found = "grant" => w.latest.bypass)
       /\ w.ok = IF found = "grant" THEN v.ok \cup {i} ELSE v.ok
       /\ IF found = "ask"
          THEN w.pending = v.pending + 1 /\ w.checks = v.checks \cup {c}
          ELSE w.pending = v.pending /\ w.checks = v.checks
  <2>1. u.latest = [verdict |-> "unknown", url |-> url, bypass |-> FALSE]
    BY <1>9 DEF Unchecked
  <2>2. CASE found = "off"
    BY <1>8, <1>9, <2>1, <2>2 DEF NavFields
  <2>3. CASE found = "grant"
    <3>1. w = [u EXCEPT !.latest.bypass = TRUE, !.ok = @ \cup {i}]
      BY <1>8, <2>3
    <3> DEFINE latest == [u.latest EXCEPT !.bypass = TRUE]
    <3>2. w = [u EXCEPT !.latest = latest, !.ok = @ \cup {i}]
      BY <3>1
    <3>3. latest.verdict = "unknown" /\ latest.bypass
      BY <2>1
    <3> HIDE DEF latest
    <3> QED BY <1>9, <2>3, <3>2, <3>3 DEF NavFields
  <2>4. CASE found = "risk"
    BY <1>8, <1>9, <2>1, <2>4 DEF NavFields
  <2>5. CASE found = "ask"
    BY <1>8, <1>9, <2>1, <2>5 DEF NavFields
  <2> QED BY <2>2, <2>3, <2>4, <2>5
<1>11. NavTyped(w, p.rev)
  <2>1. \A d \in w.checks : d.hop \in 1..Len(w.hops) /\ d = HopCheck(w.hops, p.rev, d.hop)
    BY <1>2, <1>5, <1>6, <1>10
  <2>2. w.ok \subseteq 1..Len(w.hops)
    <3>1. v.ok \subseteq 1..Len(v.hops) /\ 1..Len(v.hops) \subseteq 1..i /\ i \in 1..i
      BY <1>1, <1>2 DEF NavTyped, i
    <3> QED BY <1>2, <1>10, <3>1
  <2>3. IsFiniteSet(w.checks) /\ w.pending = Cardinality(w.checks)
    BY <1>7, <1>10
  <2> QED BY <1>1, <1>2, <1>10, <2>1, <2>2, <2>3 DEF NavTyped, States, Active, Final
<1>12. Risky(w) <=> found = "risk"
  BY <1>3, <1>10 DEF Risky
<1>13. ASSUME p.enabled PROVE HopsAccounted(w) /\ LatestOwn(w, more)
  <2>1. HopsAccounted(v)
    BY <1>1, <1>13 DEF NavOK, NavCore
  <2>2. CASE found = "risk"
    BY <1>12, <2>2 DEF HopsAccounted, LatestOwn
  <2>3. CASE found # "risk"
    <3>1. \A j \in 1..Len(v.hops) : j \in v.ok \/ \E d \in v.checks : d.hop = j
      BY <2>1 DEF HopsAccounted
    <3>2. \A j \in 1..i : j \in 1..Len(v.hops) \/ j = i
      BY <1>2 DEF i
    <3>3. i \in w.ok \/ \E d \in w.checks : d.hop = i
      BY <1>6, <1>10, <1>13, <2>3
    <3>4. v.ok \subseteq w.ok /\ v.checks \subseteq w.checks
      BY <1>10
    <3>5. w.latest.bypass \/ \E d \in w.checks : d.hop = i
      BY <1>6, <1>10, <1>13, <2>3
    <3>6. w.hops = hops /\ Len(w.hops) = i
      BY <1>2, <1>10
    <3>7. \A j \in 1..i : j \in w.ok \/ \E d \in w.checks : d.hop = j
      BY <3>1, <3>2, <3>3, <3>4
    <3>8. HopsAccounted(w)
      BY <3>6, <3>7 DEF HopsAccounted
    <3>9. LatestOwn(w, more)
      BY <3>5, <3>6 DEF LatestOwn
    <3> QED BY <3>8, <3>9
  <2> QED BY <2>2, <2>3
<1>14. NavOK(w, p, more)
  BY <1>10, <1>11, <1>12, <1>13 DEF NavOK, NavCore
<1> QED BY <1>2, <1>10, <1>14 DEF hops, Requested

(* Block, Clear.                                                            *)
LEMMA BlockOK ==
    ASSUME NEW p, NEW ans, NEW v, NavCore(v, p, ans), NEW post, NEW w, w = Block(v, p, post)
    PROVE  /\ NavOK(w, p, ans) /\ w.st = "error" /\ w.warning # <<>>
           /\ w.hops = v.hops /\ w.risk = v.risk /\ w.throttled = v.throttled
<1>1. DOMAIN v = NavFields
  BY DEF NavCore, NavTyped
<1>2. /\ DOMAIN w = NavFields /\ w.st = "error" /\ w.warning = Warning(v.risk, p, ~post)
      /\ w.hops = v.hops /\ w.risk = v.risk /\ w.throttled = v.throttled /\ w.checks = v.checks
      /\ w.pending = v.pending /\ w.ok = v.ok /\ w.cleared = v.cleared /\ w.latest = v.latest
  BY <1>1 DEF Block, NavFields
<1>3. \E x : w.warning = <<x>>
  BY <1>2 DEF Warning
<1>4. NavTyped(w, p.rev)
  BY <1>2, <1>3 DEF NavCore, NavTyped, States, Active
<1>5. (HopsAccounted(v) => HopsAccounted(w)) /\ (LatestOwn(v, ans) => LatestOwn(w, ans))
  BY <1>2 DEF HopsAccounted, LatestOwn, Risky
<1>6. w.warning # <<>>
  BY <1>3
<1> QED BY <1>2, <1>4, <1>5, <1>6 DEF NavOK, NavCore, Risky

LEMMA ClearOK ==
    ASSUME NEW p, p.rev \in Nat, NEW ans, NEW v, NavCore(v, p, ans), v.throttled, ~Risky(v),
           v.checks = {}, v.warning = <<>>, NEW w, w = Clear(v, p)
    PROVE  /\ NavOK(w, p, ans) /\ w.st = "ready"
           /\ w.hops = v.hops /\ w.risk = v.risk /\ w.throttled = v.throttled
<1>1. DOMAIN v = NavFields
  BY DEF NavCore, NavTyped
<1>2. /\ DOMAIN w = NavFields /\ w.st = "ready" /\ w.warning = v.warning
      /\ w.hops = v.hops /\ w.risk = v.risk /\ w.throttled = v.throttled /\ w.checks = v.checks
      /\ w.pending = v.pending /\ w.ok = v.ok /\ w.cleared = p.rev /\ w.latest = v.latest
  BY <1>1 DEF Clear, NavFields
<1>3. NavTyped(w, p.rev)
  <2>1. /\ w.cleared \in Nat /\ w.cleared <= p.rev /\ w.st \in States /\ w.st \in Active
        /\ w.warning = <<>> /\ w.throttled
    BY <1>2 DEF States, Active
  <2>2. NavTyped(v, p.rev)
    BY DEF NavCore
  <2> QED BY <1>2, <2>1, <2>2 DEF NavTyped
<1>4. (HopsAccounted(v) => HopsAccounted(w)) /\ (LatestOwn(v, ans) => LatestOwn(w, ans))
  BY <1>2 DEF HopsAccounted, LatestOwn, Risky
<1> QED BY <1>2, <1>3, <1>4 DEF NavOK, NavCore, Risky

(* What an answer leaves to be asked, and what the throttle reports then.   *)
LEMMA AnsweredOK ==
    ASSUME NEW p, NEW ans, NEW v, NavOK(v, p, ans), NEW c \in v.checks, NEW verdict \in Final,
           NEW more, ans \subseteq more, <<c.url, verdict>> \in more,
           NEW u, u = Answered(v, c, verdict)
    PROVE  /\ NavCore(u, p, more) /\ u.st = v.st /\ u.hops = v.hops /\ u.throttled = v.throttled
           /\ u.cleared = v.cleared /\ u.warning = v.warning /\ u.checks \subseteq v.checks
           /\ Risky(v) => Risky(u)
<1>1. NavTyped(v, p.rev) /\ DOMAIN v = NavFields /\ v.throttled
  BY DEF NavOK, NavCore, NavTyped
<1>2. \A d \in v.checks : d.hop \in 1..Len(v.hops) /\ d = HopCheck(v.hops, p.rev, d.hop)
  BY <1>1 DEF NavTyped
<1>3. c.url = v.hops[c.hop] /\ c.hop \in 1..Len(v.hops) /\ c.url \in Urls /\ c.url # Blank
  <2>1. c.url = v.hops[c.hop] /\ c.hop \in 1..Len(v.hops)
    BY <1>2 DEF HopCheck
  <2>2. v.hops \in Seq(Urls)
    BY <1>1 DEF NavTyped
  <2> QED BY <2>1, <2>2, UrlsAssumption
<1> DEFINE answer == [verdict |-> verdict, url |-> c.url, bypass |-> FALSE]
<1>4. /\ DOMAIN u = NavFields /\ u.st = v.st /\ u.hops = v.hops /\ u.throttled = v.throttled
      /\ u.warning = v.warning /\ u.cleared = v.cleared
      /\ u.checks = v.checks \ {c} /\ u.pending = v.pending - 1
      /\ u.latest = (IF c.url = Last(v.hops) THEN answer ELSE v.latest)
      /\ u.risk = (IF verdict = "phishing" /\ ~Risky(v) THEN c.url ELSE v.risk)
      /\ u.ok = IF verdict = "phishing" THEN v.ok ELSE v.ok \cup {c.hop}
  BY <1>1 DEF Answered, NavFields, Last
<1>5. answer.verdict = verdict
  OBVIOUS
<1> HIDE DEF answer
<1>6. IsFiniteSet(u.checks) /\ u.pending = Cardinality(u.checks)
  <2>1. IsFiniteSet(v.checks) /\ v.pending = Cardinality(v.checks)
    BY <1>1 DEF NavTyped
  <2> QED BY <1>4, <2>1, FS_RemoveElement
<1>7. NavTyped(u, p.rev)
  <2>1. u.risk \in Urls \cup {Blank} /\ u.latest.verdict \in Final /\ u.ok \subseteq 1..Len(u.hops)
    BY <1>1, <1>3, <1>4, <1>5 DEF NavTyped
  <2> QED BY <1>1, <1>2, <1>4, <1>6, <2>1 DEF NavTyped
<1>8. /\ Risky(u) <=> Risky(v) \/ verdict = "phishing"
      /\ Risky(v) => u.risk = v.risk
  BY <1>3, <1>4 DEF Risky
<1>9. Risky(u) => <<u.risk, "phishing">> \in more
  BY <1>4, <1>8 DEF NavOK, NavCore, Risky
<1>10. u.latest.verdict = "phishing" => Risky(u)
  BY <1>4, <1>5, <1>8 DEF NavOK, NavCore
<1>11. ASSUME p.enabled, ~Risky(u) PROVE HopsAccounted(u) /\ LatestOwn(u, more)
  <2>1. ~Risky(v) /\ verdict # "phishing" /\ HopsAccounted(v) /\ LatestOwn(v, ans)
    BY <1>1, <1>8, <1>11 DEF NavOK, NavCore
  <2>2. HopsAccounted(u)
    BY <1>4, <2>1 DEF HopsAccounted
  <2>3. LatestOwn(u, more)
    <3>1. CASE c.url = Last(v.hops)
      BY <1>4, <1>5, <3>1 DEF LatestOwn
    <3>2. CASE c.url # Last(v.hops)
      <4>1. c.hop # Len(v.hops)
        BY <1>3, <3>2 DEF Last
      <4> QED BY <1>4, <2>1, <3>2, <4>1 DEF LatestOwn
    <3> QED BY <3>1, <3>2
  <2> QED BY <2>2, <2>3
<1>12. Risky(u) => HopsAccounted(u) /\ LatestOwn(u, more)
  BY DEF HopsAccounted, LatestOwn
<1> QED BY <1>4, <1>7, <1>8, <1>9, <1>10, <1>11, <1>12 DEF NavCore

(* Every hop is asked about again, once.                                    *)
LEMMA AskedAgain ==
    ASSUME NEW hops, NEW rev, NEW S, IsFiniteSet(S)
    PROVE  LET T == {HopCheck(hops, rev, i) : i \in S}
           IN  IsFiniteSet(T) /\ Cardinality(T) = Cardinality(S)
<1> DEFINE T == {HopCheck(hops, rev, i) : i \in S}
           f == [i \in S |-> HopCheck(hops, rev, i)]
<1>1. f \in [S -> T] /\ \A t \in T : \E i \in S : f[i] = t
  OBVIOUS
<1>2. \A i, j \in S : f[i] = f[j] => i = j
  <2>1. \A i : HopCheck(hops, rev, i).hop = i
    BY DEF HopCheck
  <2> QED BY <2>1
<1>3. f \in Surjection(S, T) /\ f \in Injection(S, T)
  <2> HIDE DEF T
  <2>1. DOMAIN f = S
    OBVIOUS
  <2> HIDE DEF f
  <2> QED BY <1>1, <1>2, <2>1 DEF Surjection, Injection, IsInjective
<1> HIDE DEF T, f
<1>4. IsFiniteSet(T) /\ Cardinality(T) = Cardinality(S)
  BY <1>3, FS_Surjection
<1> QED BY <1>4 DEF T

(* OnPolicyChanged forgets what was answered under the old policy.          *)
LEMMA OnPolicyChangedOK ==
    ASSUME NEW p, p.rev \in Nat, NEW ans, NEW v, NavOK(v, p, ans), HasHop(v),
           NEW q, q.rev = p.rev + 1, NEW w, w = OnPolicyChanged(v, q)
    PROVE  /\ NavOK(w, q, {}) /\ HasHop(w) /\ w.hops = v.hops /\ w.throttled = v.throttled
           /\ w.warning = v.warning /\ (v.st \in Active <=> w.st \in Active)
           /\ (v.st = "error" <=> w.st = "error") /\ (v.st = "done" <=> w.st = "done")
<1> DEFINE again == IF q.enabled THEN DOMAIN v.hops ELSE {}
           T == {HopCheck(v.hops, q.rev, i) : i \in again}
           u == [v EXCEPT !.checks = {[hop |-> i, url |-> v.hops[i], rev |-> q.rev] : i \in again},
                          !.pending = Cardinality(again), !.risk = Blank,
                          !.latest = Unchecked(Blank), !.ok = {}]
<1>1. NavTyped(v, p.rev) /\ DOMAIN v = NavFields /\ Len(v.hops) \in Nat /\ DOMAIN v.hops = 1..Len(v.hops)
  BY DEF NavOK, NavCore, NavTyped
<1>2. w = IF ~v.throttled THEN v
          ELSE IF u.st = "deferred" /\ u.pending = 0 THEN Clear(u, q) ELSE u
  BY DEF OnPolicyChanged
<1>3. CASE ~v.throttled
  <2>1. w = v /\ v.checks = {} /\ ~Risky(v) /\ v.st \notin {"request", "deferred", "ready"}
    BY <1>1, <1>2, <1>3 DEF NavTyped, Risky
  <2>2. v.cleared <= q.rev
    BY <1>1 DEF NavTyped
  <2>3. NavTyped(v, q.rev)
    BY <1>1, <2>1, <2>2 DEF NavTyped
  <2> QED BY <1>3, <2>1, <2>3 DEF NavOK, NavCore
<1>4. CASE v.throttled
  <2>1. IsFiniteSet(again)
    <3>1. IsFiniteSet(1..Len(v.hops)) /\ IsFiniteSet({})
      BY <1>1, FS_Interval, FS_EmptySet
    <3> QED BY <1>1, <3>1
  <2>2. again \subseteq 1..Len(v.hops) /\ (q.enabled => again = 1..Len(v.hops))
    BY <1>1
  <2> HIDE DEF again
  <2>3. IsFiniteSet(T) /\ Cardinality(T) = Cardinality(again)
    BY <2>1, AskedAgain
  <2>4. /\ DOMAIN u = NavFields /\ u.st = v.st /\ u.hops = v.hops /\ u.throttled = v.throttled
        /\ u.warning = v.warning /\ u.cleared = v.cleared /\ u.checks = T
        /\ u.pending = Cardinality(again) /\ u.risk = Blank /\ u.latest = Unchecked(Blank)
        /\ u.ok = {}
    BY <1>1 DEF NavFields, HopCheck
  <2>5. u.latest.verdict = "unknown" /\ ~Risky(u)
    BY <2>4 DEF Unchecked, Risky
  <2>6. \A i : HopCheck(v.hops, q.rev, i).hop = i
    BY DEF HopCheck
  <2>7. \A c \in T : c.hop \in again /\ c = HopCheck(v.hops, q.rev, c.hop)
    BY <2>6
  <2>8. \A i \in again : \E c \in T : c.hop = i
    BY <2>6
  <2> HIDE DEF T, u
  <2>9. NavTyped(u, q.rev)
    <3>1. u.cleared \in Nat /\ u.cleared <= q.rev
      BY <1>1, <2>4 DEF NavTyped
    <3>2. u.latest.verdict \in Final
      BY <2>5 DEF Final
    <3> QED BY <1>1, <1>4, <2>2, <2>3, <2>4, <2>7, <3>1, <3>2 DEF NavTyped
  <2>10. q.enabled => HopsAccounted(u) /\ LatestOwn(u, {})
    BY <1>1, <2>2, <2>4, <2>8 DEF HopsAccounted, LatestOwn
  <2>11. NavCore(u, q, {})
    BY <2>5, <2>9, <2>10 DEF NavCore
  <2>12. u.pending = 0 <=> u.checks = {}
    BY <2>9, ChecksCounted
  <2>13. u.st = "deferred" \/ u.st = "ready" => u.warning = <<>>
    BY <2>9 DEF NavTyped
  <2>14. CASE u.st = "deferred" /\ u.pending = 0
    <3>1. w = Clear(u, q) /\ q.rev \in Nat
      BY <1>2, <1>4, <2>14
    <3>2. /\ NavOK(w, q, {}) /\ w.st = "ready" /\ w.hops = u.hops /\ w.throttled = u.throttled
      <4>1. u.throttled /\ u.checks = {} /\ u.warning = <<>>
        BY <1>4, <2>4, <2>12, <2>13, <2>14
      <4>2. /\ NavCore(u, q, {}) /\ ~Risky(u) /\ q.rev \in Nat /\ w = Clear(u, q)
        BY <2>5, <2>11, <3>1
      <4>3. NavOK(w, q, {})
        BY <4>1, <4>2, ClearOK
      <4>4. w.st = "ready" /\ w.hops = u.hops
        BY <4>1, <4>2, ClearOK
      <4>5. w.throttled = u.throttled
        BY <4>1, <4>2, ClearOK, ZenonT(40)
      <4> QED BY <4>3, <4>4, <4>5
    <3>3. w.warning = v.warning
      BY <2>4, <2>13, <2>14, <3>2 DEF NavOK, NavCore, NavTyped
    <3> QED BY <2>4, <2>14, <3>2, <3>3 DEF HasHop, Active
  <2>15. CASE ~(u.st = "deferred" /\ u.pending = 0)
    <3>1. w = u
      BY <1>2, <1>4, <2>15
    <3>2. u.cleared # q.rev
      BY <1>1, <2>4 DEF NavTyped
    <3>3. NavOK(u, q, {})
      BY <2>5, <2>11, <2>12, <2>15, <3>2 DEF NavOK
    <3> QED BY <2>4, <3>1, <3>3 DEF HasHop
  <2> QED BY <2>14, <2>15
<1> QED BY <1>3, <1>4

-----------------------------------------------------------------------------
(* The tab *)

StFields == {"current", "committed", "pending", "fresh"}
TabFields == {"st", "creq", "errpage", "checks"}
SnapshotFields == {"id", "url", "revision", "verdict"}

LEMMA Shown ==
    ASSUME NEW s \in Snapshots
    PROVE  /\ DOMAIN s = SnapshotFields /\ s.id \in Navs \cup {NoId} /\ s.url \in Urls \cup {Blank}
           /\ s.revision \in Nat /\ s.verdict \in Verdicts
  BY DEF Snapshots, SnapshotFields

(* A reset snapshot has no final verdict.                                   *)
LEMMA ResetShows ==
    ASSUME NEW old \in Snapshots, NEW rev \in Nat, NEW enabled, NEW s, s = Reset(old, rev, enabled)
    PROVE  /\ s \in Snapshots /\ s.id = old.id /\ s.url = old.url /\ s.revision = rev
           /\ s.verdict \in {"unchecked", "skipped"}
<1> DEFINE verdict == IF enabled THEN "unchecked" ELSE "skipped"
<1>1. verdict \in {"unchecked", "skipped"} /\ verdict \in Verdicts
  BY DEF Verdicts
<1>2. s = [old EXCEPT !.revision = rev, !.verdict = verdict]
  BY DEF Reset
<1> HIDE DEF verdict
<1> QED BY <1>1, <1>2 DEF Snapshots

(* Report changes the URL and the verdict on show.                          *)
LEMMA ReportShows ==
    ASSUME NEW st, DOMAIN st = StFields, st.current \in Snapshots, NEW result,
           result.verdict \in Final, Dangerous(result) => result.url \in Urls,
           NEW checking, NEW enabled, NEW r, r = Report(st, result, checking, enabled)
    PROVE  /\ DOMAIN r = StFields /\ r.current \in Snapshots /\ r.committed = st.committed
           /\ (r.pending <=> st.pending) /\ (r.fresh <=> st.fresh)
           /\ r.current.id = st.current.id /\ r.current.revision = st.current.revision
           /\ r.current.url = (IF Dangerous(result) THEN result.url ELSE st.current.url)
           /\ r.current.verdict = IF ~enabled \/ result.bypass THEN "skipped"
                                  ELSE IF checking /\ ~Dangerous(result) THEN "checking"
                                  ELSE result.verdict
<1> DEFINE url == IF Dangerous(result) THEN result.url ELSE st.current.url
           verdict == IF ~enabled \/ result.bypass THEN "skipped"
                      ELSE IF checking /\ ~Dangerous(result) THEN "checking" ELSE result.verdict
           s == [st EXCEPT !.current = [@ EXCEPT !.url = url]]
<1>1. url \in Urls \cup {Blank} /\ verdict \in Verdicts
  BY Shown DEF Verdicts, Final
<1>2. r = [s EXCEPT !.current = [@ EXCEPT !.verdict = verdict]]
  BY DEF Report
<1> HIDE DEF url, verdict
<1>3. /\ DOMAIN s = StFields /\ s.committed = st.committed /\ (s.pending <=> st.pending)
      /\ (s.fresh <=> st.fresh) /\ s.current = [st.current EXCEPT !.url = url]
  BY DEF StFields
<1>4. /\ s.current \in Snapshots /\ s.current.id = st.current.id /\ s.current.url = url
      /\ s.current.revision = st.current.revision
  BY <1>1, <1>3 DEF Snapshots
<1> HIDE DEF s
<1>5. /\ DOMAIN r = StFields /\ r.committed = s.committed /\ (r.pending <=> s.pending)
      /\ (r.fresh <=> s.fresh) /\ r.current = [s.current EXCEPT !.verdict = verdict]
  BY <1>2, <1>3 DEF StFields
<1>6. /\ r.current \in Snapshots /\ r.current.id = s.current.id /\ r.current.url = s.current.url
      /\ r.current.revision = s.current.revision /\ r.current.verdict = verdict
  BY <1>1, <1>4, <1>5 DEF Snapshots
<1> QED BY <1>3, <1>4, <1>5, <1>6 DEF url, verdict

(* t shows something else than s about the same navigation.                 *)
Frame(t, s) ==
    /\ t.st.committed = s.st.committed /\ t.st.current.id = s.st.current.id
    /\ (t.st.pending <=> s.st.pending) /\ (~s.st.pending => (t.st.fresh <=> s.st.fresh))
    /\ t.checks = s.checks /\ (t.creq <=> s.creq) /\ (t.errpage <=> s.errpage)

LEMMA TabReportShows ==
    ASSUME NEW rev, NEW t, TabTyped(t, rev), NEW p, NEW n, NEW result,
           result.verdict \in Final, Dangerous(result) => result.url \in Urls,
           NEW checking, NEW t2, t2 = TabReport(t, p, n, result, checking)
    PROVE  /\ TabTyped(t2, rev) /\ Frame(t2, t) /\ (~IsCurrent(t.st, n) => t2 = t)
           /\ LET url == IF Dangerous(result) THEN result.url ELSE t.st.current.url IN
              IsCurrent(t.st, n) =>
                 /\ t2.st.current.url = url
                 /\ t2.st.current.verdict = IF ~Enabled(p, url) \/ result.bypass THEN "skipped"
                                            ELSE IF checking /\ ~Dangerous(result) THEN "checking"
                                            ELSE result.verdict
<1> DEFINE url == IF Dangerous(result) THEN result.url ELSE t.st.current.url
           r == Report(t.st, result, checking, Enabled(p, url))
<1>1. DOMAIN t = TabFields /\ DOMAIN t.st = StFields /\ t.st.current \in Snapshots
  BY DEF TabTyped, TabFields, StFields
<1>2. CASE ~IsCurrent(t.st, n)
  BY <1>2 DEF TabReport, Frame
<1>3. CASE IsCurrent(t.st, n)
  <2>1. t2 = [t EXCEPT !.st = r]
    BY <1>3 DEF TabReport
  <2>2. /\ DOMAIN r = StFields /\ r.current \in Snapshots /\ r.committed = t.st.committed
        /\ (r.pending <=> t.st.pending) /\ (r.fresh <=> t.st.fresh)
        /\ r.current.id = t.st.current.id /\ r.current.revision = t.st.current.revision
        /\ r.current.url = url
        /\ r.current.verdict = IF ~Enabled(p, url) \/ result.bypass THEN "skipped"
                               ELSE IF checking /\ ~Dangerous(result) THEN "checking"
                               ELSE result.verdict
    BY <1>1, ReportShows
  <2> HIDE DEF r, url
  <2>3. /\ DOMAIN t2 = TabFields /\ t2.st = r /\ t2.checks = t.checks
        /\ (t2.creq <=> t.creq) /\ (t2.errpage <=> t.errpage)
    BY <1>1, <2>1 DEF TabFields
  <2>4. TabTyped(t2, rev)
    BY <2>2, <2>3 DEF TabTyped, TabFields, StFields
  <2>5. Frame(t2, t)
    BY <2>2, <2>3 DEF Frame
  <2> QED BY <1>3, <2>2, <2>3, <2>4, <2>5 DEF url
<1> QED BY <1>2, <1>3

(* What a throttle reports is its own.                                      *)
LEMMA ReportStateOwn ==
    ASSUME NEW p, NEW ans, NEW v, NavCore(v, p, ans), v.throttled, Len(v.hops) > 0,
           NEW t, TabTyped(t, p.rev), NEW n, NEW t2, t2 = ReportState(t, p, n, v)
    PROVE  /\ TabTyped(t2, p.rev) /\ Frame(t2, t) /\ (~IsCurrent(t.st, n) => t2 = t)
           /\ IsCurrent(t.st, n) => ReportedOwn(t2.st.current, v, ans)
<1> DEFINE result == IF Risky(v) THEN Risk(v.risk) ELSE v.latest
           url == IF Dangerous(result) THEN result.url ELSE t.st.current.url
<1>1. NavTyped(v, p.rev)
  BY DEF NavCore
<1>2. t2 = TabReport(t, p, n, result, v.pending > 0)
  BY DEF ReportState
<1>3. CASE Risky(v)
  <2>1. result = Risk(v.risk) /\ result.verdict = "phishing" /\ result.url = v.risk
        /\ v.risk \in Urls /\ Dangerous(result)
    BY <1>1, <1>3 DEF Risk, Dangerous, NavTyped, Risky
  <2>2. result.verdict \in Final
    BY <2>1 DEF Final
  <2> HIDE DEF result
  <2>3. /\ TabTyped(t2, p.rev) /\ Frame(t2, t) /\ (~IsCurrent(t.st, n) => t2 = t)
        /\ IsCurrent(t.st, n) =>
              /\ t2.st.current.url = v.risk
              /\ t2.st.current.verdict \in {"skipped", "phishing"}
    BY <1>2, <2>1, <2>2, TabReportShows
  <2>4. <<v.risk, "phishing">> \in ans
    BY <1>3 DEF NavCore
  <2> QED BY <1>3, <2>3, <2>4 DEF ReportedOwn, Dangerous, Final
<1>4. CASE ~Risky(v)
  <2>1. result = v.latest /\ result.verdict \in Final /\ ~Dangerous(result)
    BY <1>1, <1>4 DEF NavCore, NavTyped, Dangerous
  <2> HIDE DEF result
  <2>2. /\ TabTyped(t2, p.rev) /\ Frame(t2, t) /\ (~IsCurrent(t.st, n) => t2 = t)
        /\ IsCurrent(t.st, n) =>
              t2.st.current.verdict = IF ~Enabled(p, t.st.current.url) \/ v.latest.bypass
                                      THEN "skipped"
                                      ELSE IF v.pending > 0 THEN "checking" ELSE v.latest.verdict
    <3> DEFINE checking == v.pending > 0
    <3>1. t2 = TabReport(t, p, n, result, checking)
      BY <1>2
    <3> HIDE DEF checking
    <3>2. TabTyped(t2, p.rev) /\ Frame(t2, t) /\ (~IsCurrent(t.st, n) => t2 = t)
      BY <2>1, <3>1, TabReportShows
    <3>3. IsCurrent(t.st, n) =>
             t2.st.current.verdict = IF ~Enabled(p, t.st.current.url) \/ result.bypass
                                     THEN "skipped"
                                     ELSE IF checking /\ ~Dangerous(result) THEN "checking"
                                     ELSE result.verdict
      BY <2>1, <3>1, TabReportShows
    <3> QED BY <2>1, <3>2, <3>3 DEF checking
  <2>3. ASSUME IsCurrent(t.st, n), t2.st.current.verdict \in Final
        PROVE  /\ ~Dangerous(t2.st.current)
               /\ <<Last(v.hops), t2.st.current.verdict>> \in ans
    <3>1. /\ Enabled(p, t.st.current.url) /\ ~v.latest.bypass /\ ~(v.pending > 0)
          /\ t2.st.current.verdict = v.latest.verdict
      BY <2>2, <2>3 DEF Final
    <3>2. p.enabled
      BY <3>1 DEF Enabled
    <3>3. v.checks = {}
      BY <1>1, <3>1, ChecksCounted
    <3>4. LatestOwn(v, ans)
      BY <3>2 DEF NavCore
    <3> QED BY <1>4, <2>1, <3>1, <3>3, <3>4 DEF LatestOwn, Dangerous
  <2> QED BY <2>2, <2>3 DEF ReportedOwn
<1> QED BY <1>3, <1>4

OwnBy(s, ans) == s.verdict \in Final => <<s.url, s.verdict>> \in ans
Live(t, p, url) == \E c \in t.checks : c.latest /\ t.st.fresh /\ c.rev = p.rev /\ c.url = url

(* CheckCommittedDocument starts a check wherever one is needed.            *)
Rechecked(t2, t, p, ans, d, nv) ==
    /\ TabTyped(t2, p.rev) /\ (t2.st.pending <=> t.st.pending) /\ (t2.errpage <=> t.errpage)
    /\ OwnBy(t2.st.committed, ans) /\ (t.st.pending => t2 = t)
    /\ ~t.st.pending =>
          /\ t2.st.current = t2.st.committed /\ t2.st.committed.id = t.st.committed.id
          /\ t2.st.committed.url = t.st.committed.url
          /\ Dangerous(t2.st.committed) => Dangerous(t.st.committed)
          /\ /\ t2.st.current.verdict \in {"unchecked", "checking"}
             /\ Enabled(p, d.url) /\ d.url \in Urls /\ t2.st.current.url = d.url
             /\ ~t.errpage /\ ~Interstitial(d, nv)
             => Live(t2, p, d.url)

LEMMA CommittedCheckOK ==
    ASSUME NEW p, NEW ans, NEW t, TabTyped(t, p.rev), ~t.creq, OwnBy(t.st.committed, ans),
           ~t.st.pending => t.st.current = t.st.committed,
           NEW d, NEW nv, NEW queued, NEW t2, t2 = CheckCommittedDocument(t, p, d, nv, queued)
    PROVE  Rechecked(t2, t, p, ans, d, nv)
<1> DEFINE url == t.st.current.url
           leave == \/ ~NeedsCommittedCheck(t.st) \/ t.creq
                    \/ ~Enabled(p, url) \/ url \notin Urls \/ t.errpage \/ url # d.url
                    \/ Interstitial(d, nv)
           c == [url |-> url, rev |-> p.rev, latest |-> TRUE]
           checks == {[e EXCEPT !.latest = FALSE] : e \in t.checks} \cup {c}
           st == StartCommittedCheck(t.st)
<1>1. /\ leave => t2 = t
      /\ ~leave => t2 = [t EXCEPT !.st = st, !.creq = queued, !.checks = checks]
  BY DEF CheckCommittedDocument
<1>2. CASE leave
  <2>1. t2 = t
    BY <1>1, <1>2
  <2>2. /\ ~t.st.pending /\ t.st.current.verdict \in {"unchecked", "checking"}
        /\ Enabled(p, d.url) /\ d.url \in Urls /\ t.st.current.url = d.url
        /\ ~t.errpage
        => Interstitial(d, nv)
    BY <1>2 DEF NeedsCommittedCheck
  <2> HIDE DEF leave
  <2> QED BY <2>1, <2>2 DEF Rechecked
<1>3. CASE ~leave
  <2>1. t2 = [t EXCEPT !.st = st, !.creq = queued, !.checks = checks]
    BY <1>1, <1>3
  <2>2. ~t.st.pending /\ url = d.url
    BY <1>3 DEF NeedsCommittedCheck
  <2>3. c \in checks /\ c.url = d.url /\ c.rev = p.rev /\ c.latest
    BY <2>2
  <2>a. \A e \in checks : DOMAIN e = {"url", "rev", "latest"} /\ e.url \in Urls
    <3>1. DOMAIN c = {"url", "rev", "latest"} /\ c.url \in Urls
      BY <1>3
    <3>2. \A e \in t.checks : DOMAIN e = {"url", "rev", "latest"} /\ e.url \in Urls
      BY DEF TabTyped
    <3>3. \A e \in t.checks : LET g == [e EXCEPT !.latest = FALSE]
                              IN DOMAIN g = {"url", "rev", "latest"} /\ g.url \in Urls
      BY <3>2
    <3> QED BY <3>1, <3>3
  <2> HIDE DEF leave
  <2> HIDE DEF c, checks
  <2> DEFINE s == [t.st.current EXCEPT !.verdict = "checking"]
  <2>4. DOMAIN t = TabFields /\ DOMAIN t.st = StFields /\ t.st.current \in Snapshots
        /\ t.st.current.revision = p.rev
    BY DEF TabTyped, TabFields, StFields
  <2>5. st = [t.st EXCEPT !.current = s, !.committed = s, !.fresh = TRUE]
    BY DEF StartCommittedCheck
  <2>6. /\ s \in Snapshots /\ s.id = t.st.current.id /\ s.url = t.st.current.url
        /\ s.verdict = "checking" /\ s.revision = p.rev
    BY <2>4 DEF Snapshots, Verdicts
  <2> HIDE DEF s
  <2>7. /\ DOMAIN st = StFields /\ st.current = s /\ st.committed = s /\ st.fresh
        /\ (st.pending <=> t.st.pending)
    BY <2>4, <2>5 DEF StFields
  <2> HIDE DEF st
  <2>8. /\ DOMAIN t2 = TabFields /\ t2.st = st /\ t2.checks = checks /\ (t2.errpage <=> t.errpage)
    BY <2>1, <2>4 DEF TabFields
  <2>9. TabTyped(t2, p.rev)
    BY <2>a, <2>6, <2>7, <2>8 DEF TabTyped, TabFields, StFields
  <2>10. OwnBy(t2.st.committed, ans) /\ ~Dangerous(t2.st.committed)
    BY <2>6, <2>7, <2>8 DEF OwnBy, Final, Dangerous
  <2>11. Live(t2, p, d.url)
    BY <2>3, <2>7, <2>8 DEF Live
  <2> QED BY <2>2, <2>6, <2>7, <2>8, <2>9, <2>10, <2>11 DEF Rechecked
<1> QED BY <1>2, <1>3

-----------------------------------------------------------------------------
(* The steps of a navigation under way *)

(* A step of navigation n under one policy that leaves the document alone.  *)
LEMMA NavStep ==
    ASSUME IInv, NEW n \in Navs, NEW v, nav' = [nav EXCEPT ![n] = v],
           nav[n].st \in Active, v.st \in Active, HasHop(v), NavOK(v, policy, answers'),
           nav[n].st = "error" /\ nav[n].warning # <<>> => v.st = "error" /\ v.warning # <<>>,
           answers \subseteq answers', UNCHANGED <<policy, doc>>,
           TabTyped(tab', policy.rev), Frame(tab', tab),
           tab.st.current.id = n => ReportedOwn(tab'.st.current, v, answers'),
           tab.st.current.id # n => tab'.st.current = tab.st.current,
           BypassOK'
    PROVE  IInv'
<1>0. DOMAIN nav = Navs /\ DOMAIN nav' = Navs /\ nav'[n] = v
      /\ \A m \in Navs : m # n => nav'[m] = nav[m]
  BY DEF IInv, NavsOK
<1>1. PolicyOK'
  BY DEF IInv, PolicyOK
<1>2. NavsOK'
  <2>1. \A m \in Navs : m # n => NavOK(nav'[m], policy, answers') /\ HasHop(nav'[m])
    BY <1>0, NavOKMonotone DEF IInv, NavsOK
  <2> QED BY <1>0, <2>1 DEF NavsOK
<1>3. tab.st.current.id = n => tab.st.pending
  <2>1. n # NoId
    BY DEF Navs, NoId
  <2> QED BY <2>1 DEF IInv, TabOK, Active
<1>4. TabOK'
  <2>1. IsOwn(tab.st.committed)'
    BY DEF IInv, TabOK, IsOwn, Frame
  <2>2. ASSUME tab'.st.pending
        PROVE  /\ tab'.st.current.id \in Navs /\ nav'[tab'.st.current.id].st \in Active
               /\ tab'.checks = {} /\ ~tab'.creq
               /\ ReportedOwn(tab'.st.current, nav'[tab'.st.current.id], answers')
    <3>1. /\ tab.st.current.id \in Navs /\ nav[tab.st.current.id].st \in Active
          /\ tab.checks = {} /\ ~tab.creq
          /\ ReportedOwn(tab.st.current, nav[tab.st.current.id], answers)
      BY <2>2 DEF IInv, TabOK, Frame
    <3>2. CASE tab.st.current.id = n
      BY <1>0, <3>1, <3>2 DEF Frame
    <3>3. CASE tab.st.current.id # n
      <4>1. ReportedOwn(tab.st.current, nav[tab.st.current.id], answers')
        BY <3>1 DEF ReportedOwn
      <4> QED BY <1>0, <3>1, <3>3, <4>1 DEF Frame
    <3> QED BY <3>2, <3>3
  <2>3. ASSUME ~tab'.st.pending PROVE tab'.st.current = tab'.st.committed
    BY <1>3, <2>3 DEF IInv, TabOK, Frame
  <2>4. tab'.st.committed.id # NoId => nav'[tab'.st.committed.id].st = "done"
    <3>1. tab.st.committed.id \in Navs \cup {NoId}
      BY Shown DEF IInv, TabOK, TabTyped
    <3>2. tab.st.committed.id # NoId => nav[tab.st.committed.id].st = "done"
      BY DEF IInv, TabOK
    <3> QED BY <1>0, <3>1, <3>2 DEF Frame, Active
  <2> QED BY <2>1, <2>2, <2>3, <2>4 DEF TabOK
<1>5. Interstitial(doc, nav) => Interstitial(doc, nav')
  BY <1>0 DEF Interstitial
<1>6. DocOK'
  BY <1>5 DEF IInv, DocOK, Frame
<1>7. SeenDocumentProtected'
  BY DEF IInv, SeenDocumentProtected
<1>8. CheckingIsLive'
  <2>1. CASE tab'.st.pending
    BY <2>1 DEF CheckingIsLive, Settled
  <2>2. CASE ~tab'.st.pending
    <3>1. tab'.st.current = tab.st.current /\ ~tab.st.pending
      BY <1>3, <2>2 DEF Frame
    <3> QED BY <1>5, <3>1 DEF IInv, CheckingIsLive, Settled, Frame
  <2> QED BY <2>1, <2>2
<1> QED BY <1>1, <1>2, <1>4, <1>6, <1>7, <1>8 DEF IInv

(* The throttle's checks of a URL.                                          *)
LEMMA TakeBypassPays ==
    ASSUME BypassOK, NEW url, NEW granted,
           granted <=> policy.enabled /\ TakeBypass(url).allowed,
           bypass' = IF policy.enabled THEN TakeBypass(url).left ELSE bypass,
           credit' = IF granted THEN credit - 1 ELSE credit
    PROVE  BypassOK'
<1>0. <<[url |-> url, rev |-> policy.rev]>> # <<>>
  OBVIOUS
<1>1. granted => policy.enabled /\ bypass # <<>>
  BY <1>0 DEF TakeBypass
<1>2. policy.enabled => bypass' = <<>>
  BY DEF TakeBypass
<1>3. CASE granted
  BY <1>1, <1>2, <1>3 DEF BypassOK
<1>4. CASE ~granted
  BY <1>2, <1>4 DEF BypassOK
<1> QED BY <1>3, <1>4

(* A known risk blocks the request, whichever handler meets it.             *)
LEMMA BlockStep ==
    ASSUME IInv, NEW n \in Navs, nav[n].st = "request", Risky(nav[n]), NEW post,
           nav' = [nav EXCEPT ![n] = Block(nav[n], policy, post)],
           tab' = ReportState(tab, policy, n, nav[n]),
           UNCHANGED <<policy, doc, bypass, answers, credit>>
    PROVE  IInv'
<1>0. /\ NavOK(nav[n], policy, answers) /\ HasHop(nav[n])
      /\ NavCore(nav[n], policy, answers) /\ NavTyped(nav[n], policy.rev)
      /\ TabTyped(tab, policy.rev) /\ n # NoId
  BY DEF IInv, NavsOK, NavOK, NavCore, TabOK, Navs, NoId
<1>1. /\ nav[n].throttled /\ nav[n].warning = <<>> /\ Len(nav[n].hops) > 0
  BY <1>0 DEF NavTyped, HasHop, Active
<1> DEFINE v == Block(nav[n], policy, post)
<1>2. NavOK(v, policy, answers) /\ v.st = "error" /\ v.hops = nav[n].hops
  BY <1>0, BlockOK
<1>3. v.risk = nav[n].risk
  BY <1>0, BlockOK
<1>4. /\ TabTyped(tab', policy.rev) /\ Frame(tab', tab)
      /\ ~IsCurrent(tab.st, n) => tab' = tab
      /\ IsCurrent(tab.st, n) => ReportedOwn(tab'.st.current, nav[n], answers)
  BY <1>0, <1>1, ReportStateOwn
<1>5. nav' = [nav EXCEPT ![n] = v] /\ BypassOK'
  BY DEF IInv, BypassOK
<1> HIDE DEF v
<1>6. ReportedOwn(tab'.st.current, nav[n], answers) => ReportedOwn(tab'.st.current, v, answers)
  BY <1>2, <1>3 DEF ReportedOwn, Risky
<1>7. HasHop(v) /\ v.st \in Active /\ nav[n].st \in Active
  BY <1>0, <1>1, <1>2 DEF HasHop, Active
<1> QED BY <1>0, <1>1, <1>2, <1>4, <1>5, <1>6, <1>7, NavStep DEF IsCurrent

LEMMA WillProcessResponseStep ==
    ASSUME IInv, NEW n \in Navs, WillProcessResponse(n)
    PROVE  IInv'
<1>0. /\ nav[n].st = "request" /\ NavOK(nav[n], policy, answers) /\ HasHop(nav[n])
      /\ NavCore(nav[n], policy, answers) /\ NavTyped(nav[n], policy.rev)
      /\ policy.rev \in Nat /\ TabTyped(tab, policy.rev) /\ n # NoId
  BY BoundsAssumption DEF WillProcessResponse, IInv, NavsOK, NavOK, NavCore, PolicyOK, TabOK, Navs, NoId
<1>1. /\ nav[n].throttled /\ nav[n].warning = <<>> /\ Len(nav[n].hops) > 0 /\ DOMAIN nav[n] = NavFields
  BY <1>0 DEF NavTyped, HasHop, Active
<1>2. UNCHANGED <<policy, doc, bypass, answers, credit>> /\ BypassOK'
  BY DEF WillProcessResponse, IInv, BypassOK
<1>3. CASE Risky(nav[n])
  <2>1. PICK post \in BOOLEAN : nav' = [nav EXCEPT ![n] = Block(nav[n], policy, post)]
    BY <1>3 DEF WillProcessResponse
  <2>2. tab' = ReportState(tab, policy, n, nav[n])
    BY <1>3 DEF WillProcessResponse
  <2> QED BY <1>0, <1>2, <1>3, <2>1, <2>2, BlockStep
<1>4. CASE ~Risky(nav[n])
  <2> DEFINE v == IF nav[n].pending > 0 THEN [nav[n] EXCEPT !.st = "deferred"] ELSE Clear(nav[n], policy)
  <2>1. nav' = [nav EXCEPT ![n] = v] /\ tab' = tab
    BY <1>4 DEF WillProcessResponse
  <2>2. /\ NavOK(v, policy, answers) /\ v.hops = nav[n].hops /\ v.risk = nav[n].risk
        /\ v.st \in {"deferred", "ready"}
    <3>1. nav[n].pending \in Nat /\ (nav[n].pending = 0 <=> nav[n].checks = {})
      BY <1>0, ChecksCounted
    <3>2. CASE nav[n].pending > 0
      <4>1. v = [nav[n] EXCEPT !.st = "deferred"]
        BY <3>2
      <4> HIDE DEF v
      <4>2. /\ DOMAIN v = NavFields /\ v.st = "deferred" /\ v.warning = <<>>
            /\ v.hops = nav[n].hops /\ v.risk = nav[n].risk /\ v.throttled = nav[n].throttled
            /\ v.checks = nav[n].checks /\ v.pending = nav[n].pending /\ v.ok = nav[n].ok
            /\ v.cleared = nav[n].cleared /\ v.latest = nav[n].latest
        BY <1>1, <4>1 DEF NavFields
      <4>3. NavTyped(v, policy.rev)
        BY <1>0, <1>1, <4>2 DEF NavTyped, States, Active
      <4>4. /\ HopsAccounted(nav[n]) => HopsAccounted(v)
            /\ LatestOwn(nav[n], answers) => LatestOwn(v, answers)
        BY <4>2 DEF HopsAccounted, LatestOwn, Risky
      <4>5. NavCore(v, policy, answers)
        BY <1>0, <4>2, <4>3, <4>4 DEF NavCore, Risky
      <4>6. ~Risky(v) /\ v.checks # {}
        BY <1>4, <3>1, <3>2, <4>2 DEF Risky
      <4> QED BY <4>2, <4>5, <4>6 DEF NavOK
    <3>3. CASE ~(nav[n].pending > 0)
      <4>1. v = Clear(nav[n], policy) /\ nav[n].checks = {}
        BY <3>1, <3>3
      <4> HIDE DEF v
      <4>2. NavOK(v, policy, answers) /\ v.hops = nav[n].hops /\ v.st = "ready"
        BY <1>0, <1>1, <1>4, <4>1, ClearOK
      <4>3. v.risk = nav[n].risk
        BY <1>0, <1>1, <1>4, <4>1, ClearOK
      <4> QED BY <4>2, <4>3
    <3> QED BY <3>2, <3>3
  <2> HIDE DEF v
  <2>3. tab.st.current.id = n => ReportedOwn(tab.st.current, v, answers)
    <3>1. tab.st.current.id = n => ReportedOwn(tab.st.current, nav[n], answers)
      BY <1>0 DEF IInv, TabOK
    <3> QED BY <1>1, <2>2, <3>1 DEF ReportedOwn, Risky
  <2>4. HasHop(v) /\ v.st \in Active /\ nav[n].st \in Active
    BY <1>0, <1>1, <2>2 DEF HasHop, Active
  <2>5. TabTyped(tab', policy.rev) /\ Frame(tab', tab)
    BY <1>0, <2>1 DEF Frame
  <2> QED BY <1>0, <1>2, <2>1, <2>2, <2>3, <2>4, <2>5, NavStep
<1> QED BY <1>3, <1>4

LEMMA FailRequestStep ==
    ASSUME IInv, NEW n \in Navs, FailRequest(n)
    PROVE  IInv'
<1> DEFINE v == [nav[n] EXCEPT !.st = "error"]
<1>0. /\ nav[n].st = "request" /\ NavOK(nav[n], policy, answers) /\ HasHop(nav[n])
      /\ NavCore(nav[n], policy, answers) /\ NavTyped(nav[n], policy.rev)
      /\ TabTyped(tab, policy.rev) /\ n # NoId
  BY DEF FailRequest, IInv, NavsOK, NavOK, NavCore, TabOK, Navs, NoId
<1>1. nav' = [nav EXCEPT ![n] = v] /\ UNCHANGED <<policy, tab, doc, bypass, answers, credit>>
  BY DEF FailRequest
<1>2. /\ DOMAIN v = NavFields /\ v.st = "error" /\ v.warning = nav[n].warning
      /\ v.hops = nav[n].hops /\ v.risk = nav[n].risk /\ v.throttled = nav[n].throttled
      /\ v.checks = nav[n].checks /\ v.pending = nav[n].pending /\ v.ok = nav[n].ok
      /\ v.cleared = nav[n].cleared /\ v.latest = nav[n].latest
  BY <1>0 DEF NavFields, NavTyped
<1> HIDE DEF v
<1>3. NavTyped(v, policy.rev)
  BY <1>0, <1>2 DEF NavTyped, States, Active
<1>4. /\ HopsAccounted(nav[n]) => HopsAccounted(v)
      /\ LatestOwn(nav[n], answers) => LatestOwn(v, answers)
  BY <1>2 DEF HopsAccounted, LatestOwn, Risky
<1>5. NavOK(v, policy, answers)
  BY <1>0, <1>2, <1>3, <1>4 DEF NavOK, NavCore, Risky
<1>6. tab.st.current.id = n => ReportedOwn(tab.st.current, v, answers)
  <2>1. tab.st.current.id = n => ReportedOwn(tab.st.current, nav[n], answers)
    BY <1>0 DEF IInv, TabOK
  <2> QED BY <1>2, <2>1 DEF ReportedOwn, Risky
<1>7. HasHop(v) /\ v.st \in Active /\ nav[n].st \in Active
  BY <1>0, <1>2 DEF HasHop, Active
<1>8. TabTyped(tab', policy.rev) /\ Frame(tab', tab) /\ BypassOK'
  BY <1>0, <1>1 DEF Frame, IInv, BypassOK
<1> QED BY <1>0, <1>1, <1>5, <1>6, <1>7, <1>8, NavStep

LEMMA OnResultStep ==
    ASSUME IInv, NEW n \in Navs, OnResult(n)
    PROVE  IInv'
<1>a. PICK c \in nav[n].checks :
        \E verdict \in Verdict(c.url), post \in BOOLEAN :
           LET v == Answered(nav[n], c, verdict) IN
           /\ answers' = answers \cup {<<c.url, verdict>>}
           /\ tab' = ReportState(tab, policy, n, v)
           /\ nav' = [nav EXCEPT ![n] =
                        IF v.st # "deferred" THEN v
                        ELSE IF Risky(v) THEN Block(v, policy, post)
                        ELSE IF v.pending = 0 THEN Clear(v, policy)
                        ELSE v]
           /\ UNCHANGED <<policy, doc, bypass, credit>>
  BY DEF OnResult
<1>0. PICK verdict \in Verdict(c.url), post \in BOOLEAN :
           LET v == Answered(nav[n], c, verdict) IN
           /\ answers' = answers \cup {<<c.url, verdict>>}
           /\ tab' = ReportState(tab, policy, n, v)
           /\ nav' = [nav EXCEPT ![n] =
                        IF v.st # "deferred" THEN v
                        ELSE IF Risky(v) THEN Block(v, policy, post)
                        ELSE IF v.pending = 0 THEN Clear(v, policy)
                        ELSE v]
           /\ UNCHANGED <<policy, doc, bypass, credit>>
  BY <1>a
<1> DEFINE v == Answered(nav[n], c, verdict)
           w == IF v.st # "deferred" THEN v
                ELSE IF Risky(v) THEN Block(v, policy, post)
                ELSE IF v.pending = 0 THEN Clear(v, policy)
                ELSE v
<1>1. /\ answers' = answers \cup {<<c.url, verdict>>} /\ tab' = ReportState(tab, policy, n, v)
      /\ nav' = [nav EXCEPT ![n] = w] /\ UNCHANGED <<policy, doc, bypass, credit>>
  BY <1>0
<1>2. verdict \in Final
  BY AnswersAssumption DEF Verdict, Final
<1>3. /\ NavOK(nav[n], policy, answers) /\ HasHop(nav[n]) /\ NavTyped(nav[n], policy.rev)
      /\ policy.rev \in Nat /\ TabTyped(tab, policy.rev) /\ n # NoId
  BY BoundsAssumption DEF IInv, NavsOK, NavOK, NavCore, PolicyOK, TabOK, Navs, NoId
<1>4. nav[n].throttled /\ nav[n].checks # {} /\ nav[n].st \in Active /\ Len(nav[n].hops) > 0
  BY <1>3 DEF NavTyped, HasHop
<1>5. /\ NavCore(v, policy, answers') /\ v.st = nav[n].st /\ v.hops = nav[n].hops
      /\ v.cleared = nav[n].cleared /\ v.warning = nav[n].warning /\ v.checks \subseteq nav[n].checks
      /\ v.throttled
  <2>1. answers \subseteq answers' /\ <<c.url, verdict>> \in answers'
    BY <1>1
  <2> QED BY <1>2, <1>3, <1>4, <2>1, AnsweredOK
<1>7. v.throttled
  BY <1>5
<1> HIDE DEF v
<1>8. /\ TabTyped(tab', policy.rev) /\ Frame(tab', tab) /\ (~IsCurrent(tab.st, n) => tab' = tab)
      /\ IsCurrent(tab.st, n) => ReportedOwn(tab'.st.current, v, answers')
  <2>1. Len(v.hops) > 0
    BY <1>4, <1>5
  <2> QED BY <1>1, <1>3, <1>5, <1>7, <2>1, ReportStateOwn
<1>9. NavTyped(v, policy.rev) /\ (v.pending = 0 <=> v.checks = {})
  BY <1>5, ChecksCounted DEF NavCore
<1>10. /\ NavOK(w, policy, answers') /\ w.hops = v.hops /\ w.st \in Active
       /\ v.st = "error" => w = v
       /\ w.risk = v.risk
  <2>1. CASE v.st # "deferred"
    <3>1. w = v
      BY <2>1
    <3>2. v.st = "ready" => v.cleared # policy.rev
      BY <1>3, <1>4, <1>5 DEF NavOK
    <3> HIDE DEF w
    <3> QED BY <1>4, <1>5, <2>1, <3>1, <3>2 DEF NavOK
  <2>2. CASE v.st = "deferred" /\ Risky(v)
    <3>1. w = Block(v, policy, post)
      BY <2>2
    <3> HIDE DEF w
    <3>2. NavOK(w, policy, answers') /\ w.st = "error" /\ w.hops = v.hops /\ w.risk = v.risk
      BY <1>5, <3>1, BlockOK
    <3> QED BY <2>2, <3>2 DEF Active
  <2>3. CASE v.st = "deferred" /\ ~Risky(v) /\ v.pending = 0
    <3>1. w = Clear(v, policy) /\ v.checks = {} /\ v.warning = <<>>
      BY <1>9, <2>3 DEF NavTyped
    <3> HIDE DEF w
    <3>2. NavOK(w, policy, answers') /\ w.st = "ready" /\ w.hops = v.hops /\ w.risk = v.risk
      BY <1>3, <1>5, <1>7, <2>3, <3>1, ClearOK
    <3> QED BY <2>3, <3>2 DEF Active
  <2>4. CASE v.st = "deferred" /\ ~Risky(v) /\ v.pending # 0
    <3>1. w = v
      BY <2>4
    <3> HIDE DEF w
    <3> QED BY <1>4, <1>5, <1>9, <2>4, <3>1 DEF NavOK
  <2> QED BY <2>1, <2>2, <2>3, <2>4
<1> HIDE DEF w
<1>11. HasHop(w)
  BY <1>4, <1>5, <1>10 DEF HasHop
<1>12. ReportedOwn(tab'.st.current, v, answers') => ReportedOwn(tab'.st.current, w, answers')
  BY <1>7, <1>10 DEF ReportedOwn, Risky
<1>13. /\ nav[n].st = "error" /\ nav[n].warning # <<>> => w.st = "error" /\ w.warning # <<>>
       /\ answers \subseteq answers' /\ BypassOK'
  BY <1>1, <1>5, <1>10 DEF IInv, BypassOK
<1> QED BY <1>1, <1>3, <1>4, <1>8, <1>10, <1>11, <1>12, <1>13, NavStep DEF IsCurrent
(* DidRedirectNavigation shows no final verdict.                            *)
LEMMA RedirectShows ==
    ASSUME PolicyOK, NEW t, TabTyped(t, policy.rev), NEW n, IsCurrent(t.st, n) => t.st.pending,
           NEW url \in Urls, NEW t2, t2 = DidRedirectNavigation(t, n, url)
    PROVE  /\ TabTyped(t2, policy.rev) /\ Frame(t2, t) /\ (~IsCurrent(t.st, n) => t2 = t)
           /\ IsCurrent(t.st, n) => t2.st.current.verdict \notin Final
<1> DEFINE old == [t.st.current EXCEPT !.url = url]
           s == Reset(old, policy.rev, Enabled(policy, url))
           st == [t.st EXCEPT !.fresh = FALSE, !.current = s]
<1>1. CASE ~IsCurrent(t.st, n)
  BY <1>1 DEF DidRedirectNavigation, Frame
<1>2. CASE IsCurrent(t.st, n)
  <2>1. t2 = [t EXCEPT !.st = st]
    BY <1>2 DEF DidRedirectNavigation, Redirect
  <2>2. DOMAIN t = TabFields /\ DOMAIN t.st = StFields /\ t.st.current \in Snapshots
        /\ t.st.committed \in Snapshots /\ t.st.committed.revision = policy.rev
    BY DEF TabTyped, TabFields, StFields
  <2>3. old \in Snapshots /\ old.id = t.st.current.id
    BY <2>2 DEF Snapshots
  <2> HIDE DEF old
  <2>4. /\ s \in Snapshots /\ s.id = t.st.current.id /\ s.revision = policy.rev
        /\ s.verdict \in {"unchecked", "skipped"}
    <3>1. policy.rev \in Nat
      BY BoundsAssumption DEF PolicyOK
    <3> QED BY <2>3, <3>1, ResetShows
  <2> HIDE DEF s
  <2>5. /\ DOMAIN st = StFields /\ st.current = s /\ st.committed = t.st.committed
        /\ (st.pending <=> t.st.pending)
    BY <2>2 DEF StFields
  <2> HIDE DEF st
  <2>6. /\ DOMAIN t2 = TabFields /\ t2.st = st /\ t2.checks = t.checks
        /\ (t2.creq <=> t.creq) /\ (t2.errpage <=> t.errpage)
    BY <2>1, <2>2 DEF TabFields
  <2>7. TabTyped(t2, policy.rev)
    BY <2>2, <2>4, <2>5, <2>6 DEF TabTyped, TabFields, StFields
  <2>8. Frame(t2, t)
    BY <1>2, <2>4, <2>5, <2>6 DEF Frame
  <2> QED BY <1>2, <2>4, <2>5, <2>6, <2>7, <2>8 DEF Final
<1> QED BY <1>1, <1>2

(* What CheckHop leaves in the navigation and the tab.                      *)
LEMMA CheckHopOK ==
    ASSUME IInv, NEW n \in Navs, NEW v, NavOK(v, policy, answers), v.st = "request", ~Risky(v),
           v.throttled, Len(v.hops) < MaxHops, NEW t, TabTyped(t, policy.rev),
           IsCurrent(t.st, n) => t.st.pending,
           NEW url \in Urls, NEW redirected, CheckHop(n, v, t, url, redirected)
    PROVE  \E w : /\ nav' = [nav EXCEPT ![n] = w] /\ NavOK(w, policy, answers')
                  /\ w.st \in Active /\ HasHop(w) /\ answers \subseteq answers' /\ BypassOK'
                  /\ TabTyped(tab', policy.rev) /\ Frame(tab', t)
                  /\ ~IsCurrent(t.st, n) => tab' = t
                  /\ IsCurrent(t.st, n) => ReportedOwn(tab'.st.current, w, answers')
<1>1. PICK known \in BOOLEAN, post \in BOOLEAN :
        LET b == TakeBypass(url)
            granted == policy.enabled /\ b.allowed
            w == CheckCurrentUrl(v, policy, url, granted, known)
            reported == ReportState(t, policy, n, w)
        IN /\ known => Enabled(policy, url) /\ ~granted
           /\ bypass' = IF policy.enabled THEN b.left ELSE bypass
           /\ credit' = IF granted THEN credit - 1 ELSE credit
           /\ answers' = IF known THEN answers \cup {<<url, "phishing">>} ELSE answers
           /\ nav' = [nav EXCEPT ![n] = IF Risky(w) THEN Block(w, policy, post) ELSE w]
           /\ tab' = IF Risky(w) \/ ~redirected THEN reported
                     ELSE DidRedirectNavigation(reported, n, url)
  BY DEF CheckHop
<1> DEFINE granted == policy.enabled /\ TakeBypass(url).allowed
           u == CheckCurrentUrl(v, policy, url, granted, known)
           w == IF Risky(u) THEN Block(u, policy, post) ELSE u
           reported == ReportState(t, policy, n, u)
<1>2. /\ known => policy.enabled /\ ~granted
      /\ bypass' = IF policy.enabled THEN TakeBypass(url).left ELSE bypass
      /\ credit' = IF granted THEN credit - 1 ELSE credit
      /\ answers' = IF known THEN answers \cup {<<url, "phishing">>} ELSE answers
      /\ nav' = [nav EXCEPT ![n] = w]
      /\ tab' = IF Risky(u) \/ ~redirected THEN reported
                ELSE DidRedirectNavigation(reported, n, url)
  BY <1>1 DEF Enabled
<1>3. PolicyOK /\ policy.rev \in Nat
  BY BoundsAssumption DEF IInv, PolicyOK
<1>4. answers \subseteq answers' /\ (known => <<url, "phishing">> \in answers')
  BY <1>2
<1>5. BypassOK'
  BY <1>2, TakeBypassPays DEF IInv
<1> DEFINE found == IF ~policy.enabled THEN "off" ELSE IF granted THEN "grant"
                    ELSE IF known THEN "risk" ELSE "ask"
<1>a. u = Taken(v, policy, url, found)
  BY DEF CheckCurrentUrl, Taken
<1> HIDE DEF u
<1>b. /\ found \in {"off", "grant", "risk", "ask"} /\ (policy.enabled <=> found # "off")
      /\ (found = "risk" <=> known)
  BY <1>2
<1> HIDE DEF granted, found
<1>6. /\ NavOK(u, policy, answers') /\ u.st = "request" /\ Len(u.hops) > 0
  <2>1. found = "risk" => <<url, "phishing">> \in answers'
    BY <1>b, <1>4
  <2>2. answers \subseteq answers' /\ policy.rev \in Nat
    BY <1>3, <1>4
  <2>3. found \in {"off", "grant", "risk", "ask"} /\ (policy.enabled <=> found # "off")
    BY <1>b
  <2>4. Requested(u, policy, answers')
    BY <1>a, <2>1, <2>2, <2>3, TakenOK
  <2> QED BY <2>4 DEF Requested
<1>7. NavCore(u, policy, answers') /\ u.throttled
  BY <1>6 DEF NavOK, NavCore, NavTyped
<1>8. /\ TabTyped(reported, policy.rev) /\ Frame(reported, t)
      /\ ~IsCurrent(t.st, n) => reported = t
      /\ IsCurrent(t.st, n) => ReportedOwn(reported.st.current, u, answers')
  BY <1>6, <1>7, ReportStateOwn
<1> HIDE DEF reported
<1>9. IsCurrent(reported.st, n) <=> IsCurrent(t.st, n)
  BY <1>8 DEF IsCurrent, Frame
<1>10. CASE Risky(u)
  <2>1. w = Block(u, policy, post) /\ tab' = reported
    BY <1>2, <1>10
  <2> HIDE DEF w
  <2>2. NavOK(w, policy, answers') /\ w.st = "error" /\ w.hops = u.hops /\ w.risk = u.risk
    BY <1>7, <2>1, BlockOK
  <2>3. ReportedOwn(reported.st.current, u, answers') => ReportedOwn(reported.st.current, w, answers')
    BY <1>7, <1>10, <2>2 DEF ReportedOwn, Risky
  <2> QED BY <1>2, <1>4, <1>5, <1>6, <1>8, <2>1, <2>2, <2>3 DEF HasHop, Active
<1>11. CASE ~Risky(u)
  <2>1. w = u /\ tab' = IF redirected THEN DidRedirectNavigation(reported, n, url) ELSE reported
    BY <1>2, <1>11
  <2> HIDE DEF w
  <2>2. CASE ~redirected
    BY <1>2, <1>4, <1>5, <1>6, <1>8, <2>1, <2>2 DEF HasHop, Active
  <2>3. CASE redirected
    <3>1. IsCurrent(reported.st, n) => reported.st.pending
      BY <1>8, <1>9 DEF Frame
    <3>2. /\ TabTyped(tab', policy.rev) /\ Frame(tab', reported)
          /\ ~IsCurrent(reported.st, n) => tab' = reported
          /\ IsCurrent(reported.st, n) => tab'.st.current.verdict \notin Final
      BY <1>3, <1>8, <2>1, <2>3, <3>1, RedirectShows
    <3>3. Frame(tab', t)
      BY <1>8, <3>2 DEF Frame
    <3>4. tab'.st.current.verdict \notin Final => ReportedOwn(tab'.st.current, w, answers')
      BY DEF ReportedOwn
    <3> QED BY <1>2, <1>4, <1>5, <1>6, <1>8, <1>9, <2>1, <3>2, <3>3, <3>4 DEF HasHop, Active
  <2> QED BY <2>2, <2>3
<1> QED BY <1>10, <1>11

LEMMA WillRedirectRequestStep ==
    ASSUME IInv, NEW n \in Navs, NEW url \in Urls, WillRedirectRequest(n, url)
    PROVE  IInv'
<1>0. /\ nav[n].st = "request" /\ Len(nav[n].hops) < MaxHops /\ UNCHANGED <<policy, doc>>
      /\ NavOK(nav[n], policy, answers) /\ NavTyped(nav[n], policy.rev)
      /\ TabTyped(tab, policy.rev) /\ n # NoId
  BY DEF WillRedirectRequest, IInv, NavsOK, NavOK, NavCore, TabOK, Navs, NoId
<1>1. CASE Risky(nav[n])
  <2>1. PICK post \in BOOLEAN : nav' = [nav EXCEPT ![n] = Block(nav[n], policy, post)]
    BY <1>1 DEF WillRedirectRequest
  <2>2. tab' = ReportState(tab, policy, n, nav[n]) /\ UNCHANGED <<bypass, answers, credit>>
    BY <1>1 DEF WillRedirectRequest
  <2> QED BY <1>0, <1>1, <2>1, <2>2, BlockStep
<1>2. CASE ~Risky(nav[n])
  <2>1. CheckHop(n, nav[n], tab, url, TRUE)
    BY <1>2 DEF WillRedirectRequest
  <2>2. IsCurrent(tab.st, n) => tab.st.pending
    BY <1>0 DEF IInv, TabOK, IsCurrent
  <2>3. nav[n].throttled /\ nav[n].warning = <<>>
    BY <1>0 DEF NavTyped
  <2>4. PICK w : /\ nav' = [nav EXCEPT ![n] = w] /\ NavOK(w, policy, answers')
                 /\ w.st \in Active /\ HasHop(w) /\ answers \subseteq answers' /\ BypassOK'
                 /\ TabTyped(tab', policy.rev) /\ Frame(tab', tab)
                 /\ ~IsCurrent(tab.st, n) => tab' = tab
                 /\ IsCurrent(tab.st, n) => ReportedOwn(tab'.st.current, w, answers')
    BY <1>0, <1>2, <2>1, <2>2, <2>3, CheckHopOK
  <2>5. nav[n].st \in Active
    BY <1>0 DEF Active
  <2> QED BY <1>0, <2>3, <2>4, <2>5, NavStep DEF IsCurrent
<1> QED BY <1>1, <1>2

-----------------------------------------------------------------------------
(* The start of a navigation *)

(* A navigation that has asked nothing.                                     *)
LEMMA NothingAsked ==
    ASSUME NEW p, p.rev \in Nat, NEW ans, NEW v, DOMAIN v = NavFields,
           v.st \in {"idle", "request", "error", "done"},
           v.hops \in Seq(Urls), Len(v.hops) <= MaxHops, v.checks = {}, v.pending = 0,
           v.risk = Blank, v.latest = Unchecked(Blank), v.cleared = 0, v.ok = {},
           v.throttled => v.st = "request" /\ Len(v.hops) = 0, v.st = "request" => v.throttled,
           v.warning = <<>> \/ (v.st = "error" /\ \E w : v.warning = <<w>>)
    PROVE  NavOK(v, p, ans)
<1>1. v.latest.verdict = "unknown" /\ ~Risky(v) /\ v.latest.verdict \in Final
  BY DEF Unchecked, Risky, Final
<1>2. NavTyped(v, p.rev)
  BY <1>1, FS_EmptySet DEF NavTyped, States, Active
<1>3. v.throttled => HopsAccounted(v) /\ LatestOwn(v, ans)
  BY DEF HopsAccounted, LatestOwn
<1> QED BY <1>1, <1>2, <1>3 DEF NavOK, NavCore

LEMMA ClosedOK ==
    ASSUME NEW p, p.rev \in Nat, NEW ans, NEW state \in {"idle", "done"}
    PROVE  /\ NavOK(Closed(state), p, ans) /\ HasHop(Closed(state)) /\ Closed(state).st = state
           /\ Closed(state).warning = <<>>
<1> DEFINE v == Closed(state)
<1>1. /\ DOMAIN v = NavFields /\ v.st = state /\ v.hops = <<>> /\ v.checks = {} /\ v.pending = 0
      /\ v.risk = Blank /\ v.latest = Unchecked(Blank) /\ v.cleared = 0 /\ v.ok = {}
      /\ v.warning = <<>> /\ ~v.throttled
  BY DEF Closed, NavFields
<1> HIDE DEF v
<1>2. v.hops \in Seq(Urls) /\ Len(v.hops) = 0 /\ Len(v.hops) <= MaxHops
  BY <1>1, BoundsAssumption
<1>3. NavOK(v, p, ans)
  BY <1>1, <1>2, NothingAsked
<1>4. HasHop(v)
  BY <1>1 DEF HasHop, Active
<1> QED BY <1>1, <1>3, <1>4 DEF v

(* Begin forgets the check of the document before.                          *)
LEMMA TabBeginShows ==
    ASSUME NEW p, p.rev \in Nat, NEW t, TabTyped(t, p.rev), NEW n \in Navs, ~IsCurrent(t.st, n),
           NEW url \in Urls, NEW t2, t2 = TabBegin(t, p, n, url)
    PROVE  /\ TabTyped(t2, p.rev) /\ t2.st.pending /\ t2.st.current.id = n
           /\ t2.st.current.verdict \notin Final /\ t2.st.committed = t.st.committed
           /\ t2.checks = {} /\ ~t2.creq /\ (t2.errpage <=> t.errpage)
<1> DEFINE old == [id |-> n, url |-> url, revision |-> 0, verdict |-> "unchecked"]
           s == Reset(old, p.rev, Enabled(p, url))
           st == [t.st EXCEPT !.pending = TRUE, !.fresh = FALSE, !.current = s]
           u == [t EXCEPT !.checks = {}, !.creq = FALSE]
<1>1. /\ DOMAIN t = TabFields /\ DOMAIN t.st = StFields
      /\ t.st.committed \in Snapshots /\ t.st.committed.revision = p.rev
  BY DEF TabTyped, TabFields, StFields
<1>2. DOMAIN u = TabFields /\ u.st = t.st /\ u.checks = {} /\ ~u.creq /\ (u.errpage <=> t.errpage)
  BY <1>1 DEF TabFields
<1>3. t2 = [u EXCEPT !.st = Begin(@, n, url, p.rev, Enabled(p, url))]
  BY DEF TabBegin, CancelCommittedCheck
<1> HIDE DEF u
<1>4. t2 = [u EXCEPT !.st = st]
  BY <1>2, <1>3 DEF Begin
<1>5. old \in Snapshots /\ old.id = n
  BY DEF Snapshots, Verdicts
<1> HIDE DEF old
<1>6. /\ s \in Snapshots /\ s.id = n /\ s.revision = p.rev /\ s.verdict \in {"unchecked", "skipped"}
  BY <1>5, ResetShows
<1> HIDE DEF s
<1>7. DOMAIN st = StFields /\ st.current = s /\ st.committed = t.st.committed /\ st.pending
  BY <1>1 DEF StFields
<1> HIDE DEF st
<1>8. /\ DOMAIN t2 = TabFields /\ t2.st = st /\ t2.checks = {} /\ ~t2.creq
      /\ (t2.errpage <=> t.errpage)
  BY <1>2, <1>4 DEF TabFields
<1>9. TabTyped(t2, p.rev)
  BY <1>1, <1>6, <1>7, <1>8 DEF TabTyped, TabFields, StFields
<1> QED BY <1>6, <1>7, <1>8, <1>9 DEF Final

(* Navigation n begins and the tab shows it.                                *)
LEMMA BeginStep ==
    ASSUME IInv, NEW n \in Navs, NEW w, nav' = [nav EXCEPT ![n] = w],
           nav[n].st = "idle", w.st \in Active, HasHop(w), NavOK(w, policy, answers'),
           answers \subseteq answers', UNCHANGED <<policy, doc>>, BypassOK',
           TabTyped(tab', policy.rev), tab'.st.pending, tab'.st.current.id = n,
           ReportedOwn(tab'.st.current, w, answers'), tab'.checks = {}, ~tab'.creq,
           tab'.errpage <=> tab.errpage, IsOwn(tab.st.committed)',
           tab'.st.committed.id = tab.st.committed.id, tab'.st.committed.url = tab.st.committed.url,
           Dangerous(tab'.st.committed)
               => Dangerous(tab.st.committed) \/ (w.st = "error" /\ w.warning # <<>>)
    PROVE  IInv'
<1>0. DOMAIN nav = Navs /\ DOMAIN nav' = Navs /\ nav'[n] = w
      /\ \A m \in Navs : m # n => nav'[m] = nav[m]
  BY DEF IInv, NavsOK
<1>1. PolicyOK'
  BY DEF IInv, PolicyOK
<1>2. NavsOK'
  <2>1. \A m \in Navs : m # n => NavOK(nav'[m], policy, answers') /\ HasHop(nav'[m])
    BY <1>0, NavOKMonotone DEF IInv, NavsOK
  <2> QED BY <1>0, <2>1 DEF NavsOK
<1>3. TabOK'
  <2>1. tab'.st.committed.id # NoId => nav'[tab'.st.committed.id].st = "done"
    <3>1. tab.st.committed.id \in Navs \cup {NoId}
      BY Shown DEF IInv, TabOK, TabTyped
    <3>2. tab.st.committed.id # NoId => nav[tab.st.committed.id].st = "done"
      BY DEF IInv, TabOK
    <3> QED BY <1>0, <3>1, <3>2
  <2> QED BY <1>0, <2>1 DEF TabOK
<1>4. /\ Interstitial(doc, nav) => Interstitial(doc, nav')
      /\ w.st = "error" /\ w.warning # <<>> => Interstitial(doc, nav')
  BY <1>0 DEF Interstitial
<1>5. DocOK'
  BY <1>4 DEF IInv, DocOK
<1>6. SeenDocumentProtected' /\ CheckingIsLive'
  BY DEF IInv, SeenDocumentProtected, CheckingIsLive, Settled
<1> QED BY <1>1, <1>2, <1>3, <1>5, <1>6 DEF IInv

LEMMA IdleNotCurrent ==
    ASSUME IInv, NEW n \in Navs, nav[n].st = "idle"
    PROVE  ~IsCurrent(tab.st, n) /\ n # NoId
  BY DEF IInv, TabOK, IsCurrent, Active, Navs, NoId

LEMMA WillStartRequestStep ==
    ASSUME IInv, NEW n \in Navs, NEW url \in Urls, WillStartRequest(n, url)
    PROVE  IInv'
<1> DEFINE v == [Closed("request") EXCEPT !.throttled = TRUE]
           t == TabBegin(tab, policy, n, url)
<1>1. /\ nav[n].st = "idle" /\ CheckHop(n, v, t, url, FALSE) /\ UNCHANGED <<policy, doc>>
  BY DEF WillStartRequest, CanStart
<1>2. policy.rev \in Nat /\ TabTyped(tab, policy.rev)
  BY BoundsAssumption DEF IInv, PolicyOK, TabOK
<1>3. ~IsCurrent(tab.st, n) /\ n # NoId
  BY <1>1, IdleNotCurrent
<1>4. /\ DOMAIN v = NavFields /\ v.st = "request" /\ v.hops = <<>> /\ v.checks = {}
      /\ v.pending = 0 /\ v.risk = Blank /\ v.latest = Unchecked(Blank) /\ v.cleared = 0
      /\ v.ok = {} /\ v.warning = <<>> /\ v.throttled
  BY DEF Closed, NavFields
<1> HIDE DEF v
<1>5. v.hops \in Seq(Urls) /\ Len(v.hops) = 0 /\ Len(v.hops) < MaxHops /\ Len(v.hops) <= MaxHops
  BY <1>4, BoundsAssumption
<1>6. NavOK(v, policy, answers) /\ ~Risky(v)
  BY <1>2, <1>4, <1>5, NothingAsked DEF Risky
<1>7. /\ TabTyped(t, policy.rev) /\ t.st.pending /\ t.st.current.id = n
      /\ t.st.committed = tab.st.committed
      /\ t.checks = {} /\ ~t.creq /\ (t.errpage <=> tab.errpage)
  BY <1>2, <1>3, TabBeginShows
<1> HIDE DEF t
<1>8. IsCurrent(t.st, n)
  BY <1>3, <1>7 DEF IsCurrent
<1>9. PICK w : /\ nav' = [nav EXCEPT ![n] = w] /\ NavOK(w, policy, answers')
               /\ w.st \in Active /\ HasHop(w) /\ answers \subseteq answers' /\ BypassOK'
               /\ TabTyped(tab', policy.rev) /\ Frame(tab', t)
               /\ ~IsCurrent(t.st, n) => tab' = t
               /\ IsCurrent(t.st, n) => ReportedOwn(tab'.st.current, w, answers')
  BY <1>1, <1>4, <1>5, <1>6, <1>7, CheckHopOK
<1>10. /\ tab'.st.pending /\ tab'.st.current.id = n /\ tab'.st.committed = tab.st.committed
       /\ tab'.checks = {} /\ ~tab'.creq /\ (tab'.errpage <=> tab.errpage)
  BY <1>7, <1>9 DEF Frame
<1>11. IsOwn(tab.st.committed)'
  BY <1>1, <1>9, <1>10 DEF IInv, TabOK, IsOwn
<1> QED BY <1>1, <1>8, <1>9, <1>10, <1>11, BeginStep

-----------------------------------------------------------------------------
(* The end of a navigation *)

DocFields == {"url", "nav", "page", "warning", "seen", "late", "cacheable"}
DocTyped(d) ==
    /\ DOMAIN d = DocFields /\ d.page \in {"page", "error", "warning"}
    /\ d.page = "warning" <=> d.warning # <<>>
    /\ d.warning = <<>> \/ \E w : d.warning = <<w>>

(* Finish shows the verdict of the navigation or of the document before it. *)
LEMMA FinishShows ==
    ASSUME NEW rev, NEW st, DOMAIN st = StFields, st.current \in Snapshots,
           st.committed \in Snapshots, NEW committed \in BOOLEAN, NEW url \in Urls,
           NEW r, r = Finish(st, committed, url)
    PROVE  /\ DOMAIN r = StFields /\ ~r.pending /\ r.current = r.committed
           /\ ~committed => r.committed = st.committed
           /\ committed => /\ r.committed \in Snapshots /\ r.committed.id = st.current.id
                           /\ r.committed.revision = st.current.revision
                           /\ r.committed.verdict = st.current.verdict
                           /\ r.committed.url = IF Dangerous(st.current) THEN st.current.url ELSE url
<1> DEFINE s == IF Dangerous(st.current) THEN st.current ELSE [st.current EXCEPT !.url = url]
<1>1. /\ s \in Snapshots /\ s.id = st.current.id /\ s.revision = st.current.revision
      /\ s.verdict = st.current.verdict
      /\ s.url = IF Dangerous(st.current) THEN st.current.url ELSE url
  BY DEF Snapshots
<1>2. r = IF committed
          THEN [st EXCEPT !.pending = FALSE, !.fresh = FALSE, !.current = s, !.committed = s]
          ELSE [st EXCEPT !.pending = FALSE, !.fresh = FALSE, !.current = st.committed]
  BY DEF Finish
<1> HIDE DEF s
<1>3. CASE committed
  BY <1>1, <1>2, <1>3 DEF StFields
<1>4. CASE ~committed
  BY <1>2, <1>4 DEF StFields
<1> QED BY <1>3, <1>4

(* The tab after the end of the navigation it shows.                        *)
FinishTab(n, committed, page) ==
    [tab EXCEPT !.st = Finish(@, committed, LastHop(n)),
                !.errpage = IF committed THEN page # "page" ELSE @]
Finished(t, n, committed, page) ==
    /\ TabTyped(t, policy.rev) /\ ~t.st.pending /\ t.st.current = t.st.committed
    /\ OwnBy(t.st.committed, answers) /\ ~t.creq
    /\ ~committed => t.st.committed = tab.st.committed /\ (t.errpage <=> tab.errpage)
    /\ committed => /\ (t.errpage <=> page # "page") /\ t.st.committed.id = n
                    /\ ~Risky(nav[n]) /\ nav[n].throttled =>
                          ~Dangerous(t.st.committed) /\ t.st.committed.url = LastHop(n)

LEMMA FinishedTab ==
    ASSUME IInv, NEW n \in Navs, nav[n].st \in Active, IsCurrent(tab.st, n),
           NEW committed \in BOOLEAN, NEW page
    PROVE  Finished(FinishTab(n, committed, page), n, committed, page)
<1> DEFINE t == FinishTab(n, committed, page)
           url == LastHop(n)
<1>0. t = [tab EXCEPT !.st = Finish(@, committed, url),
                      !.errpage = IF committed THEN page # "page" ELSE @]
  BY DEF FinishTab
<1> SUFFICES Finished(t, n, committed, page)
  OBVIOUS
<1> HIDE DEF t
<1> DEFINE r == Finish(tab.st, committed, url)
<1>1. /\ DOMAIN tab = TabFields /\ DOMAIN tab.st = StFields
      /\ tab.st.current \in Snapshots /\ tab.st.committed \in Snapshots
      /\ tab.st.current.revision = policy.rev /\ tab.st.committed.revision = policy.rev
  BY DEF IInv, TabOK, TabTyped, TabFields, StFields
<1>2. tab.st.current.id = n /\ tab.st.pending
  <2>1. tab.st.current.id = n /\ n # NoId
    BY DEF IsCurrent
  <2> QED BY <2>1 DEF IInv, TabOK, Active
<1>3. ReportedOwn(tab.st.current, nav[n], answers) /\ ~tab.creq
  BY <1>2 DEF IInv, TabOK
<1>4. url \in Urls /\ url = Last(nav[n].hops)
  <2>1. nav[n].hops \in Seq(Urls) /\ Len(nav[n].hops) > 0
    BY DEF IInv, NavsOK, NavOK, NavCore, NavTyped, HasHop
  <2> QED BY <2>1 DEF LastHop, Last
<1>5. /\ DOMAIN r = StFields /\ ~r.pending /\ r.current = r.committed
      /\ ~committed => r.committed = tab.st.committed
      /\ committed => /\ r.committed \in Snapshots /\ r.committed.id = n
                      /\ r.committed.revision = policy.rev
                      /\ r.committed.verdict = tab.st.current.verdict
                      /\ r.committed.url = IF Dangerous(tab.st.current) THEN tab.st.current.url ELSE url
  BY <1>1, <1>2, <1>4, FinishShows
<1>6. /\ DOMAIN t = TabFields /\ t.st = r /\ (t.creq <=> tab.creq) /\ t.checks = tab.checks
      /\ t.errpage <=> IF committed THEN page # "page" ELSE tab.errpage
  BY <1>0, <1>1 DEF TabFields
<1> HIDE DEF r
<1>7. TabTyped(t, policy.rev)
  BY <1>1, <1>5, <1>6 DEF TabTyped, TabFields, StFields, IInv, TabOK
<1>8. CASE committed
  <2>1. OwnBy(r.committed, answers)
    BY <1>3, <1>4, <1>5, <1>8 DEF OwnBy, ReportedOwn, Dangerous
  <2>2. ~Risky(nav[n]) /\ nav[n].throttled => ~Dangerous(r.committed) /\ r.committed.url = url
    BY <1>3, <1>5, <1>8 DEF ReportedOwn, Dangerous, Final
  <2> QED BY <1>3, <1>5, <1>6, <1>7, <1>8, <2>1, <2>2 DEF Finished
<1>9. CASE ~committed
  <2>1. OwnBy(tab.st.committed, answers)
    BY DEF IInv, TabOK, IsOwn, OwnBy
  <2> QED BY <1>3, <1>5, <1>6, <1>7, <1>9, <2>1 DEF Finished
<1> QED BY <1>8, <1>9

(* The end of navigation n, whichever way it ends.                          *)
LEMMA FinishStep ==
    ASSUME IInv, NEW n \in Navs, nav[n].st \in Active, NEW committed \in BOOLEAN,
           NEW d, DocTyped(d), DidFinishNavigation(n, committed, LastHop(n), d),
           ~committed => d = doc /\ nav[n].st # "error",
           committed => ~d.seen /\ d.nav = n /\ d.url = LastHop(n),
           committed /\ d.page = "page" /\ ~d.late => nav[n].st = "ready" /\ nav[n].cleared = policy.rev
    PROVE  IInv'
<1> DEFINE seen == IsCurrent(tab.st, n)
           nv == [nav EXCEPT ![n] = Closed("done")]
           dd == IF seen /\ committed
                 THEN ProtectCurrentDocument([d EXCEPT !.seen = TRUE], policy) ELSE d
           t == FinishTab(n, committed, d.page)
<1>1. PICK queued \in BOOLEAN :
        tab' = IF seen THEN CheckCommittedDocument(t, policy, dd, nv, queued) ELSE tab
  BY DEF DidFinishNavigation, FinishTab
<1>2. nav' = nv /\ doc' = dd /\ UNCHANGED <<policy, bypass, answers, credit>>
  BY DEF DidFinishNavigation
<1>3. /\ DOMAIN nav = Navs /\ DOMAIN nav' = Navs /\ nav'[n] = Closed("done")
      /\ \A m \in Navs : m # n => nav'[m] = nav[m]
  BY <1>2 DEF IInv, NavsOK
<1>4. policy.rev \in Nat /\ n # NoId
  BY BoundsAssumption DEF IInv, PolicyOK, Navs, NoId
<1>5. /\ NavOK(nav'[n], policy, answers) /\ HasHop(nav'[n]) /\ nav'[n].st = "done"
  BY <1>3, <1>4, ClosedOK
<1>6. NavsOK'
  BY <1>2, <1>3, <1>5 DEF IInv, NavsOK
<1>7. PolicyOK' /\ BypassOK'
  BY <1>2 DEF IInv, PolicyOK, BypassOK
<1>8. tab.st.committed.id # NoId => nav'[tab.st.committed.id].st = "done"
  <2>1. tab.st.committed.id \in Navs \cup {NoId}
    BY Shown DEF IInv, TabOK, TabTyped
  <2>2. tab.st.committed.id # NoId => nav[tab.st.committed.id].st = "done"
    BY DEF IInv, TabOK
  <2> QED BY <1>3, <1>5, <2>1, <2>2
<1>9. nav[n].st # "error" => (Interstitial(doc, nav) <=> Interstitial(doc, nav'))
  BY <1>3, <1>5 DEF Interstitial
<1>10. IsOwn(tab.st.committed) /\ TabTyped(tab, policy.rev)
  BY DEF IInv, TabOK
<1> HIDE DEF nv
<1>11. CASE ~seen
  <2>1. tab' = tab /\ doc' = d
    BY <1>1, <1>2, <1>11
  <2>2. tab.st.current.id # n
    BY <1>4, <1>11 DEF IsCurrent
  <2>3. TabOK'
    <3>1. tab.st.pending => /\ tab.st.current.id \in Navs /\ nav[tab.st.current.id].st \in Active
                            /\ tab.checks = {} /\ ~tab.creq
                            /\ ReportedOwn(tab.st.current, nav[tab.st.current.id], answers)
      BY DEF IInv, TabOK
    <3>2. ~tab.st.pending => tab.st.current = tab.st.committed
      BY DEF IInv, TabOK
    <3> QED BY <1>2, <1>3, <1>8, <1>10, <2>1, <2>2, <3>1, <3>2 DEF TabOK, IsOwn
  <2>4. CASE committed
    <3>1. DocOK'
      BY <2>1, <2>4 DEF DocOK, DocTyped, DocFields
    <3>2. SeenDocumentProtected' /\ CheckingIsLive'
      BY <2>1, <2>4 DEF SeenDocumentProtected, CheckingIsLive
    <3> QED BY <1>6, <1>7, <2>3, <3>1, <3>2 DEF IInv
  <2>5. CASE ~committed
    <3>1. doc' = doc
      BY <2>1, <2>5
    <3>2. DocOK'
      BY <1>9, <2>1, <2>5, <3>1 DEF IInv, DocOK
    <3>3. SeenDocumentProtected' /\ CheckingIsLive'
      BY <1>2, <1>9, <2>1, <2>5, <3>1 DEF IInv, SeenDocumentProtected, CheckingIsLive, Settled
    <3> QED BY <1>6, <1>7, <2>3, <3>2, <3>3 DEF IInv
  <2> QED BY <2>4, <2>5
<1>12. CASE seen
  <2>1. /\ TabTyped(t, policy.rev) /\ ~t.st.pending /\ t.st.current = t.st.committed
        /\ OwnBy(t.st.committed, answers) /\ ~t.creq
        /\ ~committed => t.st.committed = tab.st.committed /\ (t.errpage <=> tab.errpage)
        /\ committed => /\ (t.errpage <=> d.page # "page") /\ t.st.committed.id = n
                        /\ ~Risky(nav[n]) /\ nav[n].throttled =>
                              ~Dangerous(t.st.committed) /\ t.st.committed.url = LastHop(n)
    <3>1. Finished(t, n, committed, d.page)
      BY <1>12, FinishedTab
    <3> HIDE DEF t
    <3> QED BY <3>1 DEF Finished
  <2>2. tab' = CheckCommittedDocument(t, policy, dd, nv, queued)
    BY <1>1, <1>12
  <2> HIDE DEF t
  <2>3. CASE committed
    <3>1. dd = ProtectCurrentDocument([d EXCEPT !.seen = TRUE], policy)
      BY <1>12, <2>3
    <3> HIDE DEF dd
    <3>2. /\ DocTyped(dd) /\ dd.seen /\ dd.nav = n /\ dd.url = LastHop(n) /\ dd.page = d.page
          /\ (dd.late <=> d.late) /\ (policy.enabled => ~dd.cacheable)
      BY <2>3, <3>1 DEF ProtectCurrentDocument, DocTyped, DocFields
    <3>3. dd.page = "page" /\ ~dd.late => ~Risky(nav[n]) /\ nav[n].throttled
      BY <2>3, <3>2 DEF IInv, NavsOK, NavOK, NavCore, NavTyped
    <3>4. /\ TabTyped(tab', policy.rev) /\ ~tab'.st.pending /\ (tab'.errpage <=> t.errpage)
          /\ OwnBy(tab'.st.committed, answers)
          /\ tab'.st.current = tab'.st.committed /\ tab'.st.committed.id = t.st.committed.id
          /\ tab'.st.committed.url = t.st.committed.url
          /\ Dangerous(tab'.st.committed) => Dangerous(t.st.committed)
          /\ /\ tab'.st.current.verdict \in {"unchecked", "checking"}
             /\ Enabled(policy, dd.url) /\ dd.url \in Urls /\ tab'.st.current.url = dd.url
             /\ ~t.errpage /\ ~Interstitial(dd, nv)
             => Live(tab', policy, dd.url)
      <4>1. Rechecked(tab', t, policy, answers, dd, nv)
        BY <2>1, <2>2, CommittedCheckOK
      <4> QED BY <2>1, <4>1 DEF Rechecked
    <3>5. TabOK'
      <4>1. IsOwn(tab.st.committed)'
        BY <1>2, <3>4 DEF IsOwn, OwnBy, TabTyped
      <4> QED BY <1>2, <1>5, <2>1, <2>3, <3>4, <4>1 DEF TabOK
    <3>6. DocOK'
      BY <1>2, <2>1, <2>3, <3>2, <3>3, <3>4 DEF DocOK, DocTyped, DocFields
    <3>7. SeenDocumentProtected'
      BY <1>2, <3>2 DEF SeenDocumentProtected
    <3>8. CheckingIsLive'
      BY <1>2, <2>1, <2>3, <3>2, <3>3, <3>4 DEF CheckingIsLive, Settled, Live
    <3> QED BY <1>6, <1>7, <3>5, <3>6, <3>7, <3>8 DEF IInv
  <2>4. CASE ~committed
    <3>1. dd = doc /\ doc' = doc
      BY <1>2, <2>4
    <3> HIDE DEF dd
    <3>4. /\ TabTyped(tab', policy.rev) /\ ~tab'.st.pending /\ (tab'.errpage <=> t.errpage)
          /\ OwnBy(tab'.st.committed, answers)
          /\ tab'.st.current = tab'.st.committed /\ tab'.st.committed.id = t.st.committed.id
          /\ tab'.st.committed.url = t.st.committed.url
          /\ Dangerous(tab'.st.committed) => Dangerous(t.st.committed)
          /\ /\ tab'.st.current.verdict \in {"unchecked", "checking"}
             /\ Enabled(policy, dd.url) /\ dd.url \in Urls /\ tab'.st.current.url = dd.url
             /\ ~t.errpage /\ ~Interstitial(dd, nv)
             => Live(tab', policy, dd.url)
      <4>1. Rechecked(tab', t, policy, answers, dd, nv)
        BY <2>1, <2>2, CommittedCheckOK
      <4> QED BY <2>1, <4>1 DEF Rechecked
    <3>5. TabOK'
      <4>1. IsOwn(tab.st.committed)'
        BY <1>2, <3>4 DEF IsOwn, OwnBy, TabTyped
      <4> QED BY <1>2, <1>8, <2>1, <2>4, <3>4, <4>1 DEF TabOK
    <3>6. DocOK'
      BY <1>9, <2>1, <2>4, <3>1, <3>4 DEF IInv, DocOK
    <3>7. SeenDocumentProtected'
      BY <1>2, <3>1 DEF IInv, SeenDocumentProtected
    <3>8. CheckingIsLive'
      <4>1. doc.page = "page" /\ doc.seen /\ ~doc.late => ~tab.errpage /\ tab.st.committed.url = doc.url
        BY DEF IInv, DocOK
      <4> QED BY <1>2, <2>1, <2>4, <3>1, <3>4, <4>1 DEF CheckingIsLive, Settled, Live
    <3> QED BY <1>6, <1>7, <3>5, <3>6, <3>7, <3>8 DEF IInv
  <2> QED BY <2>3, <2>4
<1> QED BY <1>11, <1>12

LEMMA CommittedTyped ==
    ASSUME IInv, NEW n \in Navs, NEW url, NEW page \in {"page", "error", "warning"},
           page = "warning" <=> nav[n].warning # <<>>, NEW d, d = Committed(n, url, page)
    PROVE  /\ DocTyped(d) /\ ~d.seen /\ d.nav = n /\ d.url = url /\ d.page = page
           /\ (d.late <=> page = "page" /\ nav[n].cleared # policy.rev)
<1>1. nav[n].warning = <<>> \/ \E w : nav[n].warning = <<w>>
  BY DEF IInv, NavsOK, NavOK, NavCore, NavTyped
<1> QED BY <1>1 DEF Committed, DocTyped, DocFields

LEMMA EndStep ==
    ASSUME IInv, NEW n \in Navs, CommitPage(n) \/ CommitError(n) \/ Abort(n)
    PROVE  IInv'
<1>1. CASE CommitPage(n)
  <2> DEFINE d == Committed(n, LastHop(n), "page")
  <2>1. nav[n].st = "ready" /\ DidFinishNavigation(n, TRUE, LastHop(n), d)
    BY <1>1 DEF CommitPage
  <2>2. nav[n].warning = <<>>
    BY <2>1 DEF IInv, NavsOK, NavOK, NavCore, NavTyped
  <2>3. /\ DocTyped(d) /\ ~d.seen /\ d.nav = n /\ d.url = LastHop(n)
        /\ (~d.late => nav[n].cleared = policy.rev)
    BY <2>2, CommittedTyped
  <2> HIDE DEF d
  <2>4. nav[n].st \in Active
    BY <2>1 DEF Active
  <2> QED BY <2>1, <2>3, <2>4, FinishStep
<1>2. CASE CommitError(n)
  <2> DEFINE page == IF nav[n].warning # <<>> THEN "warning" ELSE "error"
             d == Committed(n, LastHop(n), page)
  <2>1. nav[n].st = "error" /\ DidFinishNavigation(n, TRUE, LastHop(n), d)
    BY <1>2 DEF CommitError
  <2>2. page \in {"error", "warning"} /\ (page = "warning" <=> nav[n].warning # <<>>)
    OBVIOUS
  <2> HIDE DEF page
  <2>3. /\ DocTyped(d) /\ ~d.seen /\ d.nav = n /\ d.url = LastHop(n) /\ d.page # "page"
    BY <2>2, CommittedTyped
  <2> HIDE DEF d
  <2>4. nav[n].st \in Active
    BY <2>1 DEF Active
  <2> QED BY <2>1, <2>3, <2>4, FinishStep
<1>3. CASE Abort(n)
  <2>1. nav[n].st \in {"request", "deferred", "ready"} /\ DidFinishNavigation(n, FALSE, LastHop(n), doc)
    BY <1>3 DEF Abort
  <2>2. DocTyped(doc)
    BY DEF IInv, DocOK, DocTyped, DocFields
  <2>3. nav[n].st \in Active /\ nav[n].st # "error"
    BY <2>1 DEF Active
  <2> QED BY <2>1, <2>2, <2>3, FinishStep
<1> QED BY <1>1, <1>2, <1>3

-----------------------------------------------------------------------------
(* Navigations within a document *)

(* The tab before the check that follows.                                   *)
SameDocumentTab(n, url) ==
    [CancelCommittedCheck(tab) EXCEPT
        !.st = SameDocumentCommit(@, n, url, policy.rev, Enabled(policy, url))]

LEMMA SameDocumentShows ==
    ASSUME IInv, NEW n \in Navs, NEW url \in Urls, NEW t, t = SameDocumentTab(n, url)
    PROVE  /\ TabTyped(t, policy.rev) /\ (t.st.pending <=> tab.st.pending) /\ t.checks = {} /\ ~t.creq
           /\ (t.errpage <=> tab.errpage) /\ OwnBy(t.st.committed, answers)
           /\ t.st.committed.id = n /\ t.st.committed.url = url
           /\ Dangerous(t.st.committed) => Dangerous(tab.st.committed)
           /\ t.st.pending => t.st.current = tab.st.current
           /\ ~t.st.pending => t.st.current = t.st.committed
<1> DEFINE old == tab.st.committed
           keeps == old.url = url /\ old.revision = policy.rev /\ old.verdict # "checking"
           b == IF keeps THEN old ELSE Reset([old EXCEPT !.url = url], policy.rev, Enabled(policy, url))
           s == [b EXCEPT !.id = n]
           st == [tab.st EXCEPT !.fresh = FALSE, !.committed = s,
                                !.current = IF tab.st.pending THEN @ ELSE s]
           u == [tab EXCEPT !.checks = {}, !.creq = FALSE]
<1>1. /\ DOMAIN tab = TabFields /\ DOMAIN tab.st = StFields
      /\ tab.st.current \in Snapshots /\ old \in Snapshots
      /\ tab.st.current.revision = policy.rev /\ old.revision = policy.rev
  BY DEF IInv, TabOK, TabTyped, TabFields, StFields
<1>2. policy.rev \in Nat /\ OwnBy(old, answers)
  BY BoundsAssumption DEF IInv, PolicyOK, TabOK, IsOwn, OwnBy
<1>3. /\ b \in Snapshots /\ b.url = url /\ b.revision = policy.rev
      /\ b.verdict \in {"unchecked", "skipped"} \/ (old.url = url /\ b.verdict = old.verdict)
  <2>1. CASE keeps
    <3>1. b = old
      BY <2>1
    <3> QED BY <1>1, <2>1, <3>1
  <2>2. CASE ~keeps
    <3> DEFINE a == [old EXCEPT !.url = url]
    <3>1. a \in Snapshots /\ a.url = url
      BY <1>1 DEF Snapshots
    <3>2. b = Reset(a, policy.rev, Enabled(policy, url))
      BY <2>2
    <3> HIDE DEF a, b
    <3> QED BY <1>2, <3>1, <3>2, ResetShows
  <2> QED BY <2>1, <2>2
<1> HIDE DEF b
<1>4. s \in Snapshots /\ s.id = n /\ s.url = url /\ s.revision = policy.rev /\ s.verdict = b.verdict
  BY <1>3 DEF Snapshots
<1>5. OwnBy(s, answers) /\ (Dangerous(s) => Dangerous(old))
  BY <1>2, <1>3, <1>4 DEF OwnBy, Dangerous, Final
<1>6. DOMAIN u = TabFields /\ u.st = tab.st /\ u.checks = {} /\ ~u.creq /\ (u.errpage <=> tab.errpage)
  BY <1>1 DEF TabFields
<1>7. t = [u EXCEPT !.st = SameDocumentCommit(@, n, url, policy.rev, Enabled(policy, url))]
  BY DEF SameDocumentTab, CancelCommittedCheck
<1>8. SameDocumentCommit(tab.st, n, url, policy.rev, Enabled(policy, url)) = st
  BY DEF SameDocumentCommit, b
<1> HIDE DEF u, s
<1>9. /\ DOMAIN st = StFields /\ st.committed = s /\ (st.pending <=> tab.st.pending)
      /\ st.current = IF tab.st.pending THEN tab.st.current ELSE s
  BY <1>1 DEF StFields
<1> HIDE DEF st
<1>10. /\ DOMAIN t = TabFields /\ t.st = st /\ t.checks = {} /\ ~t.creq /\ (t.errpage <=> tab.errpage)
  BY <1>6, <1>7, <1>8 DEF TabFields
<1>11. TabTyped(t, policy.rev)
  BY <1>1, <1>4, <1>9, <1>10 DEF TabTyped, TabFields, StFields
<1> QED BY <1>4, <1>5, <1>9, <1>10, <1>11

LEMMA SameDocumentStep ==
    ASSUME IInv, NEW n \in Navs, NEW url \in Urls, SameDocumentNavigation(n, url)
    PROVE  IInv'
<1> DEFINE t == SameDocumentTab(n, url)
<1>1. PICK queued \in BOOLEAN : tab' = CheckCommittedDocument(t, policy, doc', nav', queued)
  BY DEF SameDocumentNavigation, SameDocumentTab
<1>2. /\ nav[n].st = "idle" /\ doc.page = "page" /\ nav' = [nav EXCEPT ![n] = Closed("done")]
      /\ doc' = [doc EXCEPT !.url = url, !.nav = n] /\ UNCHANGED <<policy, bypass, answers, credit>>
  BY DEF SameDocumentNavigation
<1>3. /\ DOMAIN nav = Navs /\ DOMAIN nav' = Navs /\ nav'[n] = Closed("done")
      /\ \A m \in Navs : m # n => nav'[m] = nav[m]
  BY <1>2 DEF IInv, NavsOK
<1>4. policy.rev \in Nat /\ n # NoId /\ ~IsCurrent(tab.st, n)
  BY <1>2, IdleNotCurrent, BoundsAssumption DEF IInv, PolicyOK
<1>5. /\ NavOK(nav'[n], policy, answers) /\ HasHop(nav'[n]) /\ nav'[n].st = "done"
  BY <1>3, <1>4, ClosedOK
<1>6. NavsOK'
  BY <1>2, <1>3, <1>5 DEF IInv, NavsOK
<1>7. PolicyOK' /\ BypassOK'
  BY <1>2 DEF IInv, PolicyOK, BypassOK
<1>8. /\ TabTyped(t, policy.rev) /\ (t.st.pending <=> tab.st.pending) /\ t.checks = {} /\ ~t.creq
      /\ (t.errpage <=> tab.errpage) /\ OwnBy(t.st.committed, answers)
      /\ t.st.committed.id = n /\ t.st.committed.url = url
      /\ Dangerous(t.st.committed) => Dangerous(tab.st.committed)
      /\ t.st.pending => t.st.current = tab.st.current
      /\ ~t.st.pending => t.st.current = t.st.committed
  BY SameDocumentShows
<1> HIDE DEF t
<1>9. Rechecked(tab', t, policy, answers, doc', nav')
  BY <1>1, <1>8, CommittedCheckOK
<1>10. /\ DOMAIN doc' = DocFields /\ doc'.page = doc.page /\ doc'.warning = doc.warning
       /\ (doc'.seen <=> doc.seen) /\ (doc'.late <=> doc.late) /\ (doc'.cacheable <=> doc.cacheable)
       /\ doc'.url = url /\ doc'.nav = n
  BY <1>2 DEF IInv, DocOK, DocFields
<1>11. Interstitial(doc, nav) <=> Interstitial(doc', nav')
  BY <1>2, <1>3, <1>5, <1>10 DEF Interstitial
<1>12. /\ tab'.st.committed.id = n /\ tab'.st.committed.url = url
       /\ Dangerous(tab'.st.committed) => Dangerous(tab.st.committed)
       /\ TabTyped(tab', policy.rev) /\ OwnBy(tab'.st.committed, answers)
       /\ (tab'.errpage <=> tab.errpage) /\ (tab'.st.pending <=> tab.st.pending)
       /\ ~tab'.st.pending => tab'.st.current = tab'.st.committed
  BY <1>8, <1>9 DEF Rechecked
<1>13. TabOK'
  <2>1. IsOwn(tab.st.committed)'
    BY <1>2, <1>12 DEF IsOwn, OwnBy, TabTyped
  <2>2. ASSUME tab'.st.pending
        PROVE  /\ tab'.st.current.id \in Navs /\ nav'[tab'.st.current.id].st \in Active
               /\ tab'.checks = {} /\ ~tab'.creq
               /\ ReportedOwn(tab'.st.current, nav'[tab'.st.current.id], answers')
    <3>1. tab' = t /\ tab'.st.current = tab.st.current
      BY <1>8, <1>9, <2>2 DEF Rechecked
    <3>2. /\ tab.st.current.id \in Navs /\ nav[tab.st.current.id].st \in Active
          /\ ReportedOwn(tab.st.current, nav[tab.st.current.id], answers)
      BY <1>12, <2>2 DEF IInv, TabOK
    <3>3. tab.st.current.id # n
      BY <1>4 DEF IsCurrent
    <3> QED BY <1>2, <1>3, <1>8, <3>1, <3>2, <3>3
  <2> QED BY <1>2, <1>5, <1>12, <2>1, <2>2 DEF TabOK
<1>14. DocOK'
  BY <1>2, <1>10, <1>11, <1>12 DEF IInv, DocOK, DocFields
<1>15. SeenDocumentProtected'
  BY <1>2, <1>10 DEF IInv, SeenDocumentProtected
<1>16. CheckingIsLive'
  <2>1. doc.seen => ~t.errpage
    BY <1>2, <1>8 DEF IInv, DocOK
  <2> QED BY <1>2, <1>8, <1>9, <1>10, <1>12, <2>1 DEF CheckingIsLive, Settled, Rechecked, Live
<1> QED BY <1>6, <1>7, <1>13, <1>14, <1>15, <1>16 DEF IInv

-----------------------------------------------------------------------------
(* The check of a committed document *)

LEMMA CompleteShows ==
    ASSUME NEW st, DOMAIN st = StFields, st.current \in Snapshots, NEW result,
           result.verdict \in Final, ~result.bypass, result.url = st.current.url,
           result.url \in Urls, NEW r, r = CompleteCommittedCheck(st, result)
    PROVE  /\ DOMAIN r = StFields /\ r.current \in Snapshots /\ r.committed = r.current
           /\ (r.pending <=> st.pending) /\ r.current.id = st.current.id
           /\ r.current.revision = st.current.revision
           /\ r.current.url = result.url /\ r.current.verdict = result.verdict
<1> DEFINE shown == [st.current EXCEPT !.url = result.url]
           s == [st EXCEPT !.current = shown]
           q == [s EXCEPT !.current = [@ EXCEPT !.verdict = result.verdict]]
<1>1. Report(st, result, FALSE, TRUE) = q
  BY DEF Report
<1>2. r = [q EXCEPT !.committed = q.current]
  BY <1>1 DEF CompleteCommittedCheck
<1>3. /\ shown \in Snapshots /\ shown.id = st.current.id /\ shown.url = result.url
      /\ shown.revision = st.current.revision
  BY DEF Snapshots
<1> HIDE DEF shown
<1>4. DOMAIN s = StFields /\ s.current = shown /\ (s.pending <=> st.pending)
  BY DEF StFields
<1> HIDE DEF s
<1>5. /\ DOMAIN q = StFields /\ (q.pending <=> st.pending)
      /\ q.current = [shown EXCEPT !.verdict = result.verdict]
  BY <1>4 DEF StFields
<1> HIDE DEF q
<1>6. /\ q.current \in Snapshots /\ q.current.id = shown.id /\ q.current.url = shown.url
      /\ q.current.revision = shown.revision /\ q.current.verdict = result.verdict
  <2>1. result.verdict \in Verdicts
    BY DEF Verdicts
  <2> QED BY <1>3, <1>5, <2>1 DEF Snapshots
<1>7. DOMAIN r = StFields /\ r.current = q.current /\ r.committed = q.current /\ (r.pending <=> q.pending)
  BY <1>2, <1>5 DEF StFields
<1> QED BY <1>3, <1>5, <1>6, <1>7

(* The answer that is accepted is about the document on show.               *)
AcceptedTab(c, result) ==
    [tab EXCEPT !.checks = @ \ {c}, !.st = CompleteCommittedCheck(@, result), !.creq = FALSE]

LEMMA AcceptedShows ==
    ASSUME IInv, NEW c \in tab.checks, NEW result, result.verdict \in Final, ~result.bypass,
           result.url = c.url, c.url = tab.st.current.url, NEW t, t = AcceptedTab(c, result)
    PROVE  /\ TabTyped(t, policy.rev) /\ ~t.st.pending /\ t.st.current = t.st.committed
           /\ t.st.committed.id = tab.st.committed.id /\ t.st.committed.url = tab.st.committed.url
           /\ t.st.committed.url = c.url /\ t.st.committed.verdict = result.verdict
           /\ (t.errpage <=> tab.errpage)
<1> DEFINE r == CompleteCommittedCheck(tab.st, result)
<1>1. /\ DOMAIN tab = TabFields /\ DOMAIN tab.st = StFields /\ tab.st.current \in Snapshots
      /\ tab.st.current.revision = policy.rev
      /\ \A e \in tab.checks : DOMAIN e = {"url", "rev", "latest"} /\ e.url \in Urls
  BY DEF IInv, TabOK, TabTyped, TabFields, StFields
<1>2. ~tab.st.pending /\ tab.st.current = tab.st.committed
  BY DEF IInv, TabOK
<1>3. /\ DOMAIN r = StFields /\ r.current \in Snapshots /\ r.committed = r.current
      /\ (r.pending <=> tab.st.pending) /\ r.current.id = tab.st.current.id
      /\ r.current.revision = tab.st.current.revision
      /\ r.current.url = result.url /\ r.current.verdict = result.verdict
  BY <1>1, CompleteShows
<1> HIDE DEF r
<1>4. /\ DOMAIN t = TabFields /\ t.st = r /\ t.checks = tab.checks \ {c} /\ (t.errpage <=> tab.errpage)
  BY <1>1 DEF AcceptedTab, TabFields, r
<1>5. TabTyped(t, policy.rev)
  BY <1>1, <1>3, <1>4 DEF TabTyped, TabFields, StFields
<1> QED BY <1>2, <1>3, <1>4, <1>5

(* The step of the tab alone: the navigations and the document stay.        *)
LEMMA CommittedStep ==
    ASSUME IInv, ~tab.st.pending, answers \subseteq answers',
           UNCHANGED <<policy, nav, doc, bypass, credit>>,
           TabTyped(tab', policy.rev), ~tab'.st.pending, tab'.st.current = tab'.st.committed,
           OwnBy(tab'.st.committed, answers'), tab'.errpage <=> tab.errpage,
           tab'.st.committed.id = tab.st.committed.id, tab'.st.committed.url = tab.st.committed.url,
           Dangerous(tab'.st.committed) => Dangerous(tab.st.committed), CheckingIsLive'
    PROVE  IInv'
<1>1. PolicyOK' /\ BypassOK' /\ SeenDocumentProtected'
  BY DEF IInv, PolicyOK, BypassOK, SeenDocumentProtected
<1>2. NavsOK'
  BY NavOKMonotone DEF IInv, NavsOK
<1>3. IsOwn(tab.st.committed)'
  BY DEF IsOwn, OwnBy, TabTyped
<1>4. TabOK'
  BY <1>3 DEF IInv, TabOK
<1>5. DocOK'
  BY DEF IInv, DocOK
<1> QED BY <1>1, <1>2, <1>4, <1>5 DEF IInv

LEMMA OnCommittedResultStep ==
    ASSUME IInv, OnCommittedResult
    PROVE  IInv'
<1>1. PICK c \in tab.checks : \E verdict \in Verdict(c.url) :
        LET result == [verdict |-> verdict, url |-> c.url, bypass |-> FALSE]
            rest == [tab EXCEPT !.checks = @ \ {c}]
            done == [rest EXCEPT !.st = CompleteCommittedCheck(@, result), !.creq = FALSE]
            accepted == /\ c.rev = policy.rev /\ c.url = doc.url
                        /\ Accepts(tab.st, c.latest, c.rev, result)
        IN /\ answers' = answers \cup {<<c.url, verdict>>}
           /\ \/ /\ ~accepted
                 /\ tab' = rest
                 /\ UNCHANGED <<nav, bypass>>
              \/ /\ accepted /\ ~Dangerous(result)
                 /\ tab' = done
                 /\ UNCHANGED <<nav, bypass>>
              \/ /\ accepted /\ Dangerous(result)
                 /\ bypass' = <<>>
                 /\ \E n \in Navs : nav[n].st = "idle" /\ ShowCommittedRisk(done, n, c.url)
           /\ UNCHANGED <<policy, doc, credit>>
  BY DEF OnCommittedResult
<1>2. PICK verdict \in Verdict(c.url) :
        LET result == [verdict |-> verdict, url |-> c.url, bypass |-> FALSE]
            rest == [tab EXCEPT !.checks = @ \ {c}]
            done == [rest EXCEPT !.st = CompleteCommittedCheck(@, result), !.creq = FALSE]
            accepted == /\ c.rev = policy.rev /\ c.url = doc.url
                        /\ Accepts(tab.st, c.latest, c.rev, result)
        IN /\ answers' = answers \cup {<<c.url, verdict>>}
           /\ \/ /\ ~accepted
                 /\ tab' = rest
                 /\ UNCHANGED <<nav, bypass>>
              \/ /\ accepted /\ ~Dangerous(result)
                 /\ tab' = done
                 /\ UNCHANGED <<nav, bypass>>
              \/ /\ accepted /\ Dangerous(result)
                 /\ bypass' = <<>>
                 /\ \E n \in Navs : nav[n].st = "idle" /\ ShowCommittedRisk(done, n, c.url)
           /\ UNCHANGED <<policy, doc, credit>>
  BY <1>1
<1> DEFINE result == [verdict |-> verdict, url |-> c.url, bypass |-> FALSE]
           rest == [tab EXCEPT !.checks = @ \ {c}]
           done == [rest EXCEPT !.st = CompleteCommittedCheck(@, result), !.creq = FALSE]
           accepted == /\ c.rev = policy.rev /\ c.url = doc.url
                       /\ Accepts(tab.st, c.latest, c.rev, result)
<1>3. answers' = answers \cup {<<c.url, verdict>>} /\ UNCHANGED <<policy, doc, credit>>
  BY <1>2
<1>4. \/ /\ ~accepted /\ tab' = rest /\ UNCHANGED <<nav, bypass>>
      \/ /\ accepted /\ ~Dangerous(result) /\ tab' = done /\ UNCHANGED <<nav, bypass>>
      \/ /\ accepted /\ Dangerous(result) /\ bypass' = <<>>
         /\ \E n \in Navs : nav[n].st = "idle" /\ ShowCommittedRisk(done, n, c.url)
  BY <1>2
<1>5. verdict \in Final
  BY AnswersAssumption DEF Verdict, Final
<1>6. /\ ~tab.st.pending /\ tab.st.current = tab.st.committed /\ TabTyped(tab, policy.rev)
      /\ OwnBy(tab.st.committed, answers) /\ policy.rev \in Nat /\ c.url \in Urls
  BY BoundsAssumption DEF IInv, TabOK, IsOwn, OwnBy, PolicyOK, TabTyped
<1>7. /\ accepted => c.url = tab.st.current.url
      /\ ~accepted => ~(/\ c.latest /\ tab.st.fresh /\ c.rev = policy.rev /\ c.url = doc.url
                        /\ c.url = tab.st.current.url)
  BY <1>6 DEF Accepts, TabTyped
<1>8. result.verdict = verdict /\ ~result.bypass /\ result.url = c.url
  OBVIOUS
<1>9. DOMAIN tab = TabFields
  BY <1>6 DEF TabTyped, TabFields
<1>10. done = AcceptedTab(c, result)
  BY <1>9 DEF AcceptedTab, TabFields
<1>11. answers \subseteq answers' /\ <<c.url, verdict>> \in answers'
  BY <1>3
<1> HIDE DEF done, result, accepted
<1>12. CASE ~accepted
  <2>1. tab' = rest /\ UNCHANGED <<nav, bypass>>
    BY <1>4, <1>12
  <2>2. /\ DOMAIN tab' = TabFields /\ tab'.st = tab.st /\ tab'.checks = tab.checks \ {c}
        /\ (tab'.errpage <=> tab.errpage)
    BY <1>9, <2>1 DEF TabFields
  <2> HIDE DEF rest
  <2>3. TabTyped(tab', policy.rev) /\ OwnBy(tab'.st.committed, answers')
    BY <1>6, <1>11, <2>2 DEF TabTyped, TabFields, OwnBy
  <2>4. CheckingIsLive'
    <3>1. SUFFICES ASSUME Settled', doc.seen, ~doc.late, ~Interstitial(doc, nav),
                          tab.st.current.verdict \in {"unchecked", "checking"},
                          Enabled(policy, tab.st.current.url), doc.url \in Urls
                   PROVE  \E e \in tab'.checks :
                             e.latest /\ tab.st.fresh /\ e.rev = policy.rev /\ e.url = doc.url
      BY <1>3, <2>1, <2>2 DEF CheckingIsLive
    <3>2. Settled /\ doc.page = "page"
      BY <1>3, <1>6, <3>1 DEF Settled
    <3>3. PICK e \in tab.checks : e.latest /\ tab.st.fresh /\ e.rev = policy.rev /\ e.url = doc.url
      BY <3>1, <3>2 DEF IInv, CheckingIsLive
    <3>4. tab.st.current.url = doc.url
      BY <1>6, <3>1, <3>2 DEF IInv, DocOK
    <3>5. e # c
      BY <1>7, <1>12, <3>3, <3>4
    <3> QED BY <2>2, <3>3, <3>5
  <2> QED BY <1>3, <1>6, <1>11, <2>1, <2>2, <2>3, <2>4, CommittedStep
<1>13. CASE accepted
  <2>1. /\ TabTyped(done, policy.rev) /\ ~done.st.pending /\ done.st.current = done.st.committed
        /\ done.st.committed.id = tab.st.committed.id /\ done.st.committed.url = tab.st.committed.url
        /\ done.st.committed.url = c.url /\ done.st.committed.verdict = verdict
        /\ (done.errpage <=> tab.errpage)
    BY <1>5, <1>7, <1>8, <1>10, <1>13, AcceptedShows
  <2>2. OwnBy(done.st.committed, answers')
    BY <1>11, <2>1 DEF OwnBy
  <2>3. CASE ~Dangerous(result)
    <3>1. tab' = done /\ UNCHANGED <<nav, bypass>>
      BY <1>4, <1>13, <2>3
    <3>2. ~Dangerous(tab'.st.committed)
      BY <1>8, <2>1, <2>3, <3>1 DEF Dangerous
    <3>3. CheckingIsLive'
      BY <1>5, <2>1, <3>1 DEF CheckingIsLive, Final
    <3> QED BY <1>3, <1>6, <1>11, <2>1, <2>2, <3>1, <3>2, <3>3, CommittedStep
  <2>4. CASE Dangerous(result)
    <3>1. PICK n \in Navs : nav[n].st = "idle" /\ ShowCommittedRisk(done, n, c.url)
      BY <1>4, <1>13, <2>4
    <3>2. bypass' = <<>> /\ verdict = "phishing"
      BY <1>4, <1>8, <1>13, <2>4 DEF Dangerous
    <3> DEFINE w == [Closed("error") EXCEPT !.hops = <<c.url>>,
                                            !.warning = Warning(c.url, policy, FALSE)]
               t == TabBegin(done, policy, n, c.url)
    <3>3. nav' = [nav EXCEPT ![n] = w] /\ tab' = TabReport(t, policy, n, Risk(c.url), FALSE)
      BY <3>1 DEF ShowCommittedRisk
    <3>4. /\ DOMAIN w = NavFields /\ w.st = "error" /\ w.hops = <<c.url>> /\ w.checks = {}
          /\ w.pending = 0 /\ w.risk = Blank /\ w.latest = Unchecked(Blank) /\ w.cleared = 0
          /\ w.ok = {} /\ w.warning = Warning(c.url, policy, FALSE) /\ ~w.throttled
      BY DEF Closed, NavFields
    <3> HIDE DEF w
    <3>5. w.hops \in Seq(Urls) /\ Len(w.hops) = 1 /\ Len(w.hops) <= MaxHops
      BY <1>6, <3>4, BoundsAssumption
    <3>6. (\E x : w.warning = <<x>>) /\ w.warning # <<>>
      BY <3>4 DEF Warning
    <3>7. NavOK(w, policy, answers') /\ HasHop(w) /\ w.st \in Active
      <4>1. NavOK(w, policy, answers')
        BY <1>6, <3>4, <3>5, <3>6, NothingAsked
      <4> QED BY <3>4, <3>5, <4>1 DEF HasHop, Active
    <3>8. n # NoId /\ ~IsCurrent(done.st, n)
      <4>1. n # NoId /\ ~IsCurrent(tab.st, n)
        BY <3>1, IdleNotCurrent
      <4> QED BY <1>6, <2>1, <4>1 DEF IsCurrent
    <3>9. /\ TabTyped(t, policy.rev) /\ t.st.pending /\ t.st.current.id = n
          /\ t.st.committed = done.st.committed /\ t.checks = {} /\ ~t.creq
          /\ (t.errpage <=> done.errpage)
      BY <1>6, <2>1, <3>8, TabBeginShows
    <3> HIDE DEF t
    <3>10. /\ Risk(c.url).verdict = "phishing" /\ Risk(c.url).url = c.url /\ Dangerous(Risk(c.url))
           /\ Risk(c.url).verdict \in Final
      BY DEF Risk, Dangerous, Final
    <3>11. IsCurrent(t.st, n)
      BY <3>8, <3>9 DEF IsCurrent
    <3>12. /\ TabTyped(tab', policy.rev) /\ Frame(tab', t) /\ tab'.st.current.url = c.url
           /\ tab'.st.current.verdict \in {"skipped", "phishing"}
      <4> DEFINE no == FALSE
      <4>1. tab' = TabReport(t, policy, n, Risk(c.url), no)
        BY <3>3
      <4> HIDE DEF no
      <4> QED BY <1>6, <3>9, <3>10, <3>11, <4>1, TabReportShows
    <3>13. ReportedOwn(tab'.st.current, w, answers')
      BY <1>11, <3>2, <3>4, <3>12 DEF ReportedOwn, Dangerous, Final
    <3>14. /\ tab'.st.pending /\ tab'.st.current.id = n /\ tab'.st.committed = done.st.committed
           /\ tab'.checks = {} /\ ~tab'.creq /\ (tab'.errpage <=> tab.errpage)
      BY <2>1, <3>9, <3>12 DEF Frame
    <3>15. IsOwn(tab.st.committed)'
      BY <1>3, <2>2, <3>12, <3>14 DEF IsOwn, OwnBy, TabTyped
    <3>16. BypassOK'
      BY <1>3, <3>2 DEF IInv, BypassOK
    <3> QED BY <1>3, <1>11, <2>1, <3>1, <3>3, <3>4, <3>6, <3>7, <3>12, <3>13, <3>14, <3>15, <3>16,
               BeginStep
  <2> QED BY <2>3, <2>4
<1> QED BY <1>12, <1>13

-----------------------------------------------------------------------------
(* Policy *)

(* The tab under policy p, before the check that follows.                   *)
PolicyTab(p) ==
    [CancelCommittedCheck(tab) EXCEPT
        !.st = PolicyChanged(@, p.rev, Enabled(p, @.current.url), Enabled(p, @.committed.url))]

LEMMA PolicyTabShows ==
    ASSUME IInv, NEW p, p.rev \in Nat, NEW t, t = PolicyTab(p)
    PROVE  /\ TabTyped(t, p.rev) /\ (t.st.pending <=> tab.st.pending) /\ t.checks = {} /\ ~t.creq
           /\ (t.errpage <=> tab.errpage) /\ t.st.current.verdict \notin Final
           /\ t.st.committed.verdict \notin Final
           /\ t.st.current.id = tab.st.current.id /\ t.st.committed.id = tab.st.committed.id
           /\ t.st.committed.url = tab.st.committed.url
           /\ ~t.st.pending => t.st.current = t.st.committed
<1> DEFINE a == Reset(tab.st.current, p.rev, Enabled(p, tab.st.current.url))
           b == Reset(tab.st.committed, p.rev, Enabled(p, tab.st.committed.url))
           st == [tab.st EXCEPT !.fresh = FALSE, !.current = a, !.committed = b]
           u == [tab EXCEPT !.checks = {}, !.creq = FALSE]
<1>1. /\ DOMAIN tab = TabFields /\ DOMAIN tab.st = StFields
      /\ tab.st.current \in Snapshots /\ tab.st.committed \in Snapshots
  BY DEF IInv, TabOK, TabTyped, TabFields, StFields
<1>2. DOMAIN u = TabFields /\ u.st = tab.st /\ u.checks = {} /\ ~u.creq /\ (u.errpage <=> tab.errpage)
  BY <1>1 DEF TabFields
<1>3. t = [u EXCEPT !.st = PolicyChanged(@, p.rev, Enabled(p, @.current.url),
                                         Enabled(p, @.committed.url))]
  BY DEF PolicyTab, CancelCommittedCheck
<1> HIDE DEF u
<1>4. t = [u EXCEPT !.st = st]
  BY <1>2, <1>3 DEF PolicyChanged
<1>5. ~tab.st.pending => a = b
  BY DEF IInv, TabOK
<1>6. /\ a \in Snapshots /\ a.id = tab.st.current.id /\ a.revision = p.rev
      /\ a.verdict \in {"unchecked", "skipped"}
  BY <1>1, ResetShows
<1>7. /\ b \in Snapshots /\ b.id = tab.st.committed.id /\ b.revision = p.rev
      /\ b.url = tab.st.committed.url /\ b.verdict \in {"unchecked", "skipped"}
  BY <1>1, ResetShows
<1> HIDE DEF a, b
<1>8. DOMAIN st = StFields /\ st.current = a /\ st.committed = b /\ (st.pending <=> tab.st.pending)
  BY <1>1 DEF StFields
<1> HIDE DEF st
<1>9. /\ DOMAIN t = TabFields /\ t.st = st /\ t.checks = {} /\ ~t.creq /\ (t.errpage <=> tab.errpage)
  BY <1>2, <1>4 DEF TabFields
<1>10. TabTyped(t, p.rev)
  BY <1>6, <1>7, <1>8, <1>9 DEF TabTyped, TabFields, StFields
<1> QED BY <1>5, <1>6, <1>7, <1>8, <1>9, <1>10 DEF Final

LEMMA PolicyChangeStep ==
    ASSUME IInv, NEW enabled \in BOOLEAN, NEW exceptions, exceptions \subseteq Urls,
           PolicyChange(enabled, exceptions)
    PROVE  IInv'
<1> DEFINE p == [rev |-> policy.rev + 1, enabled |-> enabled, exceptions |-> exceptions]
           nv == [n \in Navs |-> OnPolicyChanged(nav[n], p)]
           d == ProtectOnPolicy(doc, p)
           cur == tab.st.current.id
           t == PolicyTab(p)
<1>1. /\ policy.rev < MaxRev /\ policy' = p /\ nav' = nv /\ doc' = d
      /\ bypass' = <<>> /\ answers' = {} /\ credit' = credit
  BY DEF PolicyChange
<1>2. PICK queued \in BOOLEAN :
        LET t2 == CheckCommittedDocument(t, p, d, nav, queued)
        IN tab' = IF cur \in Navs /\ nav[cur].throttled THEN ReportState(t2, p, cur, nv[cur]) ELSE t2
  BY DEF PolicyChange, OnPolicy, PolicyTab
<1>3. /\ p.rev = policy.rev + 1 /\ p.rev \in 1..MaxRev /\ p.rev \in Nat /\ policy.rev \in Nat
      /\ (p.enabled <=> enabled) /\ p.exceptions \subseteq Urls
      /\ DOMAIN p = {"rev", "enabled", "exceptions"}
  BY <1>1, BoundsAssumption DEF IInv, PolicyOK
<1>4. PolicyOK' /\ BypassOK'
  <2>1. policy' = [rev |-> policy.rev + 1, enabled |-> enabled, exceptions |-> exceptions]
    BY <1>1
  <2>2. policy'.enabled \in BOOLEAN
    BY <2>1
  <2>3. policy'.rev \in 1..MaxRev /\ policy'.exceptions \subseteq Urls
        /\ DOMAIN policy' = {"rev", "enabled", "exceptions"}
    BY <1>1, <1>3
  <2> QED BY <1>1, <2>2, <2>3 DEF PolicyOK, IInv, BypassOK
<1> HIDE DEF p
<1>5. \A n \in Navs : nav'[n] = OnPolicyChanged(nav[n], p) /\ nv[n] = nav'[n]
  BY <1>1
<1>6. \A n \in Navs :
         /\ NavOK(nav'[n], p, {}) /\ HasHop(nav'[n]) /\ nav'[n].hops = nav[n].hops
         /\ nav'[n].warning = nav[n].warning
         /\ (nav[n].st \in Active <=> nav'[n].st \in Active)
         /\ (nav[n].st = "error" <=> nav'[n].st = "error")
         /\ (nav[n].st = "done" <=> nav'[n].st = "done")
  <2> TAKE n \in Navs
  <2>1. NavOK(nav[n], policy, answers) /\ HasHop(nav[n]) /\ nav'[n] = OnPolicyChanged(nav[n], p)
    BY <1>5 DEF IInv, NavsOK
  <2> QED BY <1>3, <2>1, OnPolicyChangedOK
<1>7. \A n \in Navs : nav[n].throttled => nav'[n].throttled
  <2> TAKE n \in Navs
  <2>1. NavOK(nav[n], policy, answers) /\ HasHop(nav[n]) /\ nav'[n] = OnPolicyChanged(nav[n], p)
    BY <1>5 DEF IInv, NavsOK
  <2>2. nav'[n].throttled = nav[n].throttled
    BY <1>3, <2>1, OnPolicyChangedOK
  <2> QED BY <2>2
<1>8. NavsOK'
  <2>1. DOMAIN nav' = Navs
    BY <1>1
  <2> QED BY <1>1, <1>6, <2>1 DEF NavsOK
<1>9. /\ DOMAIN d = DocFields /\ d.page = doc.page /\ d.warning = doc.warning
      /\ (d.seen <=> doc.seen) /\ (d.late <=> doc.late) /\ d.url = doc.url /\ d.nav = doc.nav
      /\ (p.enabled => ~d.cacheable)
  BY DEF IInv, DocOK, DocFields, ProtectOnPolicy, ProtectCurrentDocument
<1> HIDE DEF d, nv
<1>10. /\ Interstitial(doc, nav) <=> Interstitial(d, nav)
       /\ Interstitial(d, nav) <=> Interstitial(d, nav')
  BY <1>6, <1>9 DEF Interstitial
<1>11. /\ TabTyped(t, p.rev) /\ (t.st.pending <=> tab.st.pending) /\ t.checks = {} /\ ~t.creq
       /\ (t.errpage <=> tab.errpage) /\ t.st.current.verdict \notin Final
       /\ t.st.committed.verdict \notin Final
       /\ t.st.current.id = tab.st.current.id /\ t.st.committed.id = tab.st.committed.id
       /\ t.st.committed.url = tab.st.committed.url
       /\ ~t.st.pending => t.st.current = t.st.committed
  BY <1>3, PolicyTabShows
<1> HIDE DEF t
<1> DEFINE t2 == CheckCommittedDocument(t, p, d, nav, queued)
<1>12. Rechecked(t2, t, p, {}, d, nav)
  <2>1. OwnBy(t.st.committed, {})
    BY <1>11 DEF OwnBy
  <2> QED BY <1>11, <2>1, CommittedCheckOK
<1>13. tab' = IF cur \in Navs /\ nav[cur].throttled THEN ReportState(t2, p, cur, nv[cur]) ELSE t2
  BY <1>2
<1> HIDE DEF t2
<1>14. tab.st.committed.id # NoId => nav'[tab.st.committed.id].st = "done"
  <2>1. tab.st.committed.id \in Navs \cup {NoId}
    BY Shown DEF IInv, TabOK, TabTyped
  <2>2. tab.st.committed.id # NoId => nav[tab.st.committed.id].st = "done"
    BY DEF IInv, TabOK
  <2> QED BY <1>6, <2>1, <2>2
<1>15. tab.st.pending => cur \in Navs /\ nav[cur].st \in Active
  BY DEF IInv, TabOK
<1>16. SeenDocumentProtected'
  BY <1>1, <1>9 DEF SeenDocumentProtected
<1>17. CASE cur \in Navs /\ nav[cur].throttled
  <2>1. tab.st.pending
    <3>1. nav[cur].st \in Active /\ cur # NoId
      <4>1. NavTyped(nav[cur], policy.rev)
        BY <1>17 DEF IInv, NavsOK, NavOK, NavCore
      <4>2. nav[cur].throttled => nav[cur].st \in Active
        <5> HIDE DEF cur
        <5> QED BY <4>1 DEF NavTyped
      <4>3. cur # NoId
        <5> HIDE DEF cur
        <5> QED BY <1>17 DEF Navs, NoId
      <4> QED BY <1>17, <4>2, <4>3
    <3> QED BY <3>1 DEF IInv, TabOK, Active
  <2>2. t2 = t /\ tab' = ReportState(t, p, cur, nav'[cur])
    BY <1>5, <1>11, <1>12, <1>13, <1>17, <2>1 DEF Rechecked
  <2>3. /\ NavCore(nav'[cur], p, {}) /\ nav'[cur].throttled /\ Len(nav'[cur].hops) > 0
    BY <1>6, <1>7, <1>15, <1>17, <2>1 DEF NavOK, HasHop
  <2>4. IsCurrent(t.st, cur)
    BY <1>11, <1>17 DEF IsCurrent, Navs, NoId
  <2>5. TabTyped(tab', p.rev) /\ Frame(tab', t) /\ ReportedOwn(tab'.st.current, nav'[cur], {})
    BY <1>11, <2>2, <2>3, <2>4, ReportStateOwn
  <2>6. TabOK'
    <3>1. IsOwn(tab.st.committed)'
      BY <1>11, <2>5 DEF IsOwn, Frame
    <3> QED BY <1>1, <1>6, <1>11, <1>14, <1>15, <1>17, <2>1, <2>5, <3>1 DEF TabOK, Frame
  <2>7. DocOK'
    BY <1>1, <1>9, <1>11, <2>5 DEF IInv, DocOK, DocFields, Frame, Dangerous, Final
  <2>8. CheckingIsLive'
    BY <1>11, <2>1, <2>5 DEF CheckingIsLive, Settled, Frame
  <2> QED BY <1>4, <1>8, <1>16, <2>6, <2>7, <2>8 DEF IInv
<1>18. CASE ~(cur \in Navs /\ nav[cur].throttled)
  <2>1. tab' = t2
    BY <1>13, <1>18
  <2>2. /\ TabTyped(tab', p.rev) /\ (tab'.st.pending <=> tab.st.pending)
        /\ (tab'.errpage <=> tab.errpage) /\ OwnBy(tab'.st.committed, {})
        /\ (tab.st.pending => tab' = t)
        /\ (~tab.st.pending => tab'.st.current = tab'.st.committed)
        /\ tab'.st.committed.id = tab.st.committed.id /\ tab'.st.committed.url = tab.st.committed.url
        /\ ~Dangerous(tab'.st.committed)
    <3>1. ~Dangerous(t.st.committed)
      BY <1>11 DEF Dangerous, Final
    <3> QED BY <1>11, <1>12, <2>1, <3>1 DEF Rechecked
  <2>3. TabOK'
    <3>1. IsOwn(tab.st.committed)'
      BY <1>1, <2>2 DEF IsOwn, OwnBy, TabTyped
    <3>2. ASSUME tab.st.pending
          PROVE  /\ tab'.st.current.id \in Navs /\ nav'[tab'.st.current.id].st \in Active
                 /\ tab'.checks = {} /\ ~tab'.creq
                 /\ ReportedOwn(tab'.st.current, nav'[tab'.st.current.id], answers')
      BY <1>6, <1>11, <1>15, <2>2, <3>2 DEF ReportedOwn
    <3> QED BY <1>1, <1>14, <2>2, <3>1, <3>2 DEF TabOK
  <2>4. DocOK'
    BY <1>1, <1>9, <2>2 DEF IInv, DocOK, DocFields
  <2>5. CheckingIsLive'
    <3>1. SUFFICES ASSUME Settled', doc'.seen, ~doc'.late, ~Interstitial(d, nav'),
                          tab'.st.current.verdict \in {"unchecked", "checking"},
                          Enabled(p, tab'.st.current.url), doc'.url \in Urls
                   PROVE  Live(tab', p, doc'.url)
      BY <1>1 DEF CheckingIsLive, Live
    <3>2. ~tab.st.pending /\ doc.page = "page" /\ doc.seen /\ ~doc.late /\ d.url \in Urls
      BY <1>1, <1>9, <2>2, <3>1 DEF Settled
    <3>3. ~t.errpage /\ tab'.st.current.url = d.url
      BY <1>9, <1>11, <2>2, <3>2 DEF IInv, DocOK
    <3> QED BY <1>1, <1>10, <1>11, <1>12, <2>1, <3>1, <3>2, <3>3 DEF Rechecked
  <2> QED BY <1>4, <1>8, <1>16, <2>3, <2>4, <2>5 DEF IInv
<1> QED BY <1>17, <1>18

LEMMA PolicyStep ==
    ASSUME IInv, OnSources \/ \E on \in BOOLEAN : Configure(on) \/ SetSiteEnabled(on)
    PROVE  IInv'
<1>1. policy.exceptions \subseteq Urls
  BY DEF IInv, PolicyOK
<1>2. CASE OnSources
  BY <1>1, <1>2, PolicyChangeStep DEF OnSources
<1>3. ASSUME NEW on \in BOOLEAN, Configure(on) PROVE IInv'
  BY <1>1, <1>3, PolicyChangeStep DEF Configure
<1>4. ASSUME NEW on \in BOOLEAN, SetSiteEnabled(on) PROVE IInv'
  <2> DEFINE url == tab.st.current.url
             ex == IF on THEN policy.exceptions \ {url} ELSE policy.exceptions \cup {url}
  <2>1. url \in Urls /\ PolicyChange(TRUE, ex)
    BY <1>4 DEF SetSiteEnabled
  <2>2. ex \subseteq Urls
    BY <1>1, <2>1
  <2> HIDE DEF ex
  <2> QED BY <2>1, <2>2, PolicyChangeStep
<1> QED BY <1>2, <1>3, <1>4

LEMMA ProceedStep ==
    ASSUME IInv, Proceed \/ BypassExpires
    PROVE  IInv'
<1>1. CASE BypassExpires
  BY <1>1 DEF BypassExpires, IInv, PolicyOK, NavsOK, TabOK, IsOwn, DocOK, BypassOK,
              SeenDocumentProtected, CheckingIsLive, Settled
<1>2. CASE Proceed
  <2>1. /\ doc.page = "warning" /\ credit' = credit + 1 /\ UNCHANGED <<policy, tab, nav, answers>>
        /\ doc' = [doc EXCEPT !.warning[1].proceed = FALSE]
    BY <1>2 DEF Proceed
  <2>2. PICK w : doc.warning = <<w>>
    BY <2>1 DEF IInv, DocOK
  <2> DEFINE u == [w EXCEPT !.proceed = FALSE]
             ws == [doc.warning EXCEPT ![1] = [@ EXCEPT !.proceed = FALSE]]
  <2>3. doc' = [doc EXCEPT !.warning = ws]
    BY <2>1
  <2>4. ws = <<u>> /\ ws # <<>>
    <3>1. doc.warning[1] = w
      BY <2>2
    <3>2. ws = [doc.warning EXCEPT ![1] = u]
      BY <3>1
    <3> HIDE DEF ws, u
    <3> QED BY <2>2, <3>2
  <2> HIDE DEF ws, u
  <2>5. /\ DOMAIN doc' = DocFields /\ doc'.page = doc.page /\ doc'.warning = ws /\ doc'.page = "warning"
        /\ (doc'.seen <=> doc.seen) /\ (doc'.cacheable <=> doc.cacheable)
    BY <2>1, <2>3 DEF IInv, DocOK, DocFields
  <2>6. DocOK'
    BY <2>1, <2>4, <2>5 DEF IInv, DocOK, DocFields
  <2>7. PolicyOK' /\ NavsOK' /\ TabOK'
    BY <2>1 DEF IInv, PolicyOK, NavsOK, TabOK, IsOwn
  <2>8. BypassOK'
    BY <2>1 DEF IInv, BypassOK
  <2>9. SeenDocumentProtected' /\ CheckingIsLive'
    BY <2>1, <2>5 DEF IInv, SeenDocumentProtected, CheckingIsLive, Settled
  <2> QED BY <2>6, <2>7, <2>8, <2>9 DEF IInv
<1> QED BY <1>1, <1>2

-----------------------------------------------------------------------------
(* The theorems *)

LEMMA InitOK ==
    ASSUME Init
    PROVE  IInv
<1>1. PICK on \in BOOLEAN :
        /\ policy = [rev |-> 1, enabled |-> on, exceptions |-> {}]
        /\ tab = [st |-> Initialize(Blank, 1, on), creq |-> FALSE, errpage |-> FALSE, checks |-> {}]
        /\ nav = [n \in Navs |-> Closed("idle")]
        /\ doc = [url |-> Blank, nav |-> NoId, page |-> "page", warning |-> <<>>,
                  seen |-> TRUE, late |-> FALSE, cacheable |-> ~on]
        /\ bypass = <<>> /\ answers = {} /\ credit = 0
  BY DEF Init
<1>2. /\ DOMAIN policy = {"rev", "enabled", "exceptions"} /\ policy.rev = 1
      /\ (policy.enabled <=> on) /\ policy.enabled \in BOOLEAN /\ policy.exceptions = {}
  BY <1>1
<1>3. PolicyOK /\ policy.rev \in Nat
  BY <1>2, BoundsAssumption DEF PolicyOK
<1>4. NavsOK
  <2>1. DOMAIN nav = Navs /\ \A n \in Navs : nav[n] = Closed("idle")
    BY <1>1
  <2> QED BY <1>3, <2>1, ClosedOK DEF NavsOK
<1> DEFINE old == [id |-> NoId, url |-> Blank, revision |-> 0, verdict |-> "unchecked"]
           s == Reset(old, 1, on)
<1>5. /\ DOMAIN tab = TabFields /\ tab.checks = {} /\ ~tab.errpage
      /\ tab.st = [current |-> s, committed |-> s, pending |-> FALSE, fresh |-> FALSE]
  BY <1>1 DEF Initialize, TabFields
<1>6. old \in Snapshots /\ old.id = NoId /\ old.url = Blank
  BY DEF Snapshots, Verdicts
<1> HIDE DEF old
<1>7. /\ s \in Snapshots /\ s.id = NoId /\ s.url = Blank /\ s.revision = 1
      /\ s.verdict \in {"unchecked", "skipped"}
  BY <1>6, ResetShows
<1> HIDE DEF s
<1>8. /\ DOMAIN tab.st = StFields /\ tab.st.current = s /\ tab.st.committed = s /\ ~tab.st.pending
  BY <1>5 DEF StFields
<1>9. TabOK
  <2>1. TabTyped(tab, policy.rev)
    BY <1>2, <1>5, <1>7, <1>8 DEF TabTyped, TabFields, StFields
  <2>2. IsOwn(tab.st.committed)
    BY <1>7, <1>8 DEF IsOwn, Final
  <2> QED BY <1>7, <1>8, <2>1, <2>2 DEF TabOK
<1>10. /\ DOMAIN doc = DocFields /\ doc.page = "page" /\ doc.warning = <<>> /\ doc.url = Blank
       /\ doc.nav = NoId /\ (doc.cacheable <=> ~on)
  BY <1>1 DEF DocFields
<1>11. DocOK
  BY <1>5, <1>7, <1>8, <1>10 DEF DocOK, DocFields, Dangerous
<1>12. SeenDocumentProtected /\ CheckingIsLive
  BY <1>2, <1>10, UrlsAssumption DEF SeenDocumentProtected, CheckingIsLive
<1>13. BypassOK
  BY <1>1 DEF BypassOK
<1> QED BY <1>3, <1>4, <1>9, <1>11, <1>12, <1>13 DEF IInv

LEMMA NextOK ==
    ASSUME IInv, [Next]_vars
    PROVE  IInv'
<1>1. ASSUME NEW n \in Navs, NEW url \in Urls,
             WillStartRequest(n, url) \/ WillRedirectRequest(n, url) \/ SameDocumentNavigation(n, url)
      PROVE  IInv'
  BY <1>1, WillStartRequestStep, WillRedirectRequestStep, SameDocumentStep
<1>2. ASSUME NEW n \in Navs,
             \/ WillProcessResponse(n) \/ CommitPage(n) \/ CommitError(n) \/ Abort(n)
             \/ FailRequest(n) \/ OnResult(n)
      PROVE  IInv'
  BY <1>2, WillProcessResponseStep, EndStep, FailRequestStep, OnResultStep
<1>3. CASE OnCommittedResult
  BY <1>3, OnCommittedResultStep
<1>4. CASE OnSources \/ \E on \in BOOLEAN : Configure(on) \/ SetSiteEnabled(on)
  BY <1>4, PolicyStep
<1>5. CASE Proceed \/ BypassExpires
  BY <1>5, ProceedStep
<1>6. CASE UNCHANGED vars
  BY <1>6 DEF vars, IInv, PolicyOK, NavsOK, TabOK, IsOwn, DocOK, BypassOK, SeenDocumentProtected,
              CheckingIsLive, Settled
<1> QED BY <1>1, <1>2, <1>3, <1>4, <1>5, <1>6 DEF Next, Deliver

(* The inductive invariant holds of every behaviour of the tab, its         *)
(* navigations and the policy.                                              *)
THEOREM Invariance == Spec => []IInv
<1>1. Init => IInv
  BY InitOK
<1>2. IInv /\ [Next]_vars => IInv'
  BY NextOK
<1> QED BY <1>1, <1>2, PTL DEF Spec

(* Every handler keeps the records in their types; in particular the count  *)
(* of a throttle's pending checks is never negative and never exceeds the   *)
(* length of its redirect chain.                                            *)
THEOREM TypesKept == Spec => []TypeOK
<1>1. IInv => TypeOK
  <2> SUFFICES ASSUME IInv PROVE TypeOK
    OBVIOUS
  <2>1. /\ policy.rev \in 1..MaxRev /\ policy.enabled \in BOOLEAN /\ policy.exceptions \subseteq Urls
    BY DEF IInv, PolicyOK
  <2>2. ASSUME NEW s \in {tab.st.current, tab.st.committed}
        PROVE  /\ s.id \in Navs \cup {NoId} /\ s.url \in Urls \cup {Blank}
               /\ s.revision \in 0..MaxRev /\ s.verdict \in Verdicts
    <3>1. s \in Snapshots /\ s.revision = policy.rev
      BY DEF IInv, TabOK, TabTyped
    <3>2. policy.rev \in 0..MaxRev
      BY <2>1
    <3> QED BY <3>1, <3>2, Shown
  <2>3. ASSUME NEW n \in Navs
        PROVE  /\ nav[n].st \in {"idle", "request", "deferred", "ready", "error", "done"}
               /\ nav[n].hops \in Seq(Urls) /\ Len(nav[n].hops) <= MaxHops
               /\ nav[n].pending \in 0..MaxHops
    <3>1. NavTyped(nav[n], policy.rev)
      BY DEF IInv, NavsOK, NavOK, NavCore
    <3>2. nav[n].pending \in Nat /\ nav[n].pending <= Len(nav[n].hops)
      BY <3>1, ChecksCounted
    <3>3. /\ nav[n].st \in States /\ nav[n].hops \in Seq(Urls) /\ Len(nav[n].hops) <= MaxHops
      BY <3>1 DEF NavTyped
    <3> QED BY <3>2, <3>3, BoundsAssumption DEF States
  <2> QED BY <2>1, <2>2, <2>3 DEF TypeOK, IInv, DocOK
<1> QED BY <1>1, Invariance, PTL

(* A tab never shows or restores a final verdict that the service did not   *)
(* give for that URL under the policy in force, whatever the order of       *)
(* redirects, answers, commits and policy changes.                          *)
THEOREM VerdictsAreOwn == Spec => []VerdictIsOwn
<1>1. IInv => VerdictIsOwn
  BY DEF IInv, TabOK, VerdictIsOwn
<1> QED BY <1>1, Invariance, PTL

(* WillProcessResponse and OnResult let a navigation through only when each *)
(* hop of its redirect chain was answered harmless or admitted under the    *)
(* policy in force.                                                         *)
THEOREM ClearedOnlyHopByHop == Spec => []ClearedHopByHop
<1>1. IInv => ClearedHopByHop
  <2> SUFFICES ASSUME IInv, NEW n \in Navs, nav[n].st = "ready", nav[n].cleared = policy.rev,
                      policy.enabled
               PROVE  nav[n].ok = DOMAIN nav[n].hops /\ ~Risky(nav[n])
    BY DEF ClearedHopByHop
  <2>1. NavTyped(nav[n], policy.rev) /\ ~Risky(nav[n]) /\ nav[n].checks = {}
    BY DEF IInv, NavsOK, NavOK, NavCore
  <2>2. nav[n].throttled /\ nav[n].hops \in Seq(Urls) /\ nav[n].ok \subseteq 1..Len(nav[n].hops)
    BY <2>1 DEF NavTyped
  <2>3. HopsAccounted(nav[n])
    BY <2>2 DEF IInv, NavsOK, NavOK, NavCore
  <2>4. DOMAIN nav[n].hops = 1..Len(nav[n].hops)
    BY <2>2
  <2> QED BY <2>1, <2>2, <2>3, <2>4 DEF HopsAccounted
<1> QED BY <1>1, Invariance, PTL

(* A navigation that WillProcessResponse deferred has an answer under the   *)
(* policy in force on its way: no order of answers and policy changes       *)
(* leaves it waiting for nothing.                                           *)
THEOREM DeferredIsWaiting == Spec => []DeferredHasCheck
<1>1. IInv => DeferredHasCheck
  <2> SUFFICES ASSUME IInv, NEW n \in Navs, nav[n].st = "deferred"
               PROVE  ~Risky(nav[n]) /\ \E c \in nav[n].checks : c.rev = policy.rev
    BY DEF DeferredHasCheck
  <2>1. NavTyped(nav[n], policy.rev) /\ ~Risky(nav[n]) /\ nav[n].checks # {}
    BY DEF IInv, NavsOK, NavOK, NavCore
  <2>2. \A c \in nav[n].checks : c.rev = policy.rev
    BY <2>1 DEF NavTyped, HopCheck
  <2> QED BY <2>1, <2>2
<1> QED BY <1>1, Invariance, PTL

(* A committed page of a protected site without a final verdict is being    *)
(* checked, and the tab will accept the answer.                             *)
THEOREM CheckingStaysLive == Spec => []CheckingIsLive
<1>1. IInv => CheckingIsLive
  BY DEF IInv
<1> QED BY <1>1, Invariance, PTL

(* The verdict of a settled tab is about the page it saw commit.            *)
THEOREM VerdictFollowsDocument == Spec => []VerdictOfSeenDocument
<1>1. IInv => VerdictOfSeenDocument
  BY DEF IInv, TabOK, DocOK, VerdictOfSeenDocument, Settled
<1> QED BY <1>1, Invariance, PTL

(* A dangerous verdict of a settled tab is covered by a warning, unless the *)
(* page was let through under an earlier policy.                            *)
THEOREM DangerIsCovered == Spec => []DangerCoveredUnlessLate
<1>1. IInv => DangerCoveredUnlessLate
  BY DEF IInv, TabOK, DocOK, DangerCoveredUnlessLate, Settled
<1> QED BY <1>1, Invariance, PTL

(* A click on "visit anyway" admits one URL at most.                        *)
THEOREM BypassPaidFor == Spec => []BypassOnce
<1>1. IInv => BypassOnce
  BY DEF IInv, BypassOK, BypassOnce
<1> QED BY <1>1, Invariance, PTL

(* While protection is on, OnPolicy and DidFinishNavigation keep a document *)
(* whose commit the tab saw out of the back/forward cache, whatever policy  *)
(* it was committed under.  Documents whose commit was ignored for a newer  *)
(* navigation are excluded, and these may be cached.                        *)
THEOREM SeenDocumentStaysProtected == Spec => []SeenDocumentProtected
<1>1. IInv => SeenDocumentProtected
  BY DEF IInv
<1> QED BY <1>1, Invariance, PTL
=============================================================================
