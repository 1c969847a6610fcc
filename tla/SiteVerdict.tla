----------------------------- MODULE SiteVerdict -----------------------------
(***************************************************************************)
(* The verdict a tab shows: class SiteVerdictState of                      *)
(* overlay/chrome/browser/ohos/url_protection/site_verdict_state.h, one    *)
(* operator per method, each from a state to the next one.                 *)
(*                                                                         *)
(* A state is a record                                                     *)
(*   current, committed   the two Snapshots                                *)
(*   pending              pending_navigation_                              *)
(*   fresh                generation_ is still the one that the last       *)
(*                        StartCommittedCheck returned; every other method *)
(*                        that increments generation_ makes it FALSE       *)
(* and a result is [verdict, url, bypass].  Timestamps, source identifiers *)
(* and rule types follow the verdict and are left out; "phishing" stands   *)
(* for every dangerous result.                                             *)
(***************************************************************************)
EXTENDS Naturals

NoId == 0      \* the empty navigation_id

Final == {"no_match", "unknown", "phishing"}
Verdicts == {"unchecked", "checking", "skipped"} \cup Final
Dangerous(x) == x.verdict = "phishing"

Reset(snapshot, revision, enabled) ==
    [snapshot EXCEPT !.revision = revision,
                     !.verdict = IF enabled THEN "unchecked" ELSE "skipped"]

Initialize(url, revision, enabled) ==
    LET s == Reset([id |-> NoId, url |-> url, revision |-> 0, verdict |-> "unchecked"],
                   revision, enabled)
    IN [current |-> s, committed |-> s, pending |-> FALSE, fresh |-> FALSE]

IsCurrent(st, id) == id # NoId /\ st.current.id = id

Begin(st, id, url, revision, enabled) ==
    IF IsCurrent(st, id) THEN st
    ELSE [st EXCEPT !.pending = TRUE, !.fresh = FALSE,
                    !.current = Reset([id |-> id, url |-> url, revision |-> 0,
                                       verdict |-> "unchecked"], revision, enabled)]

Redirect(st, url, revision, enabled) ==
    [st EXCEPT !.fresh = FALSE,
               !.current = Reset([@ EXCEPT !.url = url], revision, enabled)]

(* Mutant: an aborted navigation leaves its snapshot on show.               *)
Finish_KeepsCurrent(st, committed, url) ==
    [st EXCEPT !.pending = FALSE, !.fresh = FALSE,
               !.current = IF Dangerous(@) THEN @ ELSE [@ EXCEPT !.url = url],
               !.committed = IF committed THEN [st.current EXCEPT !.url = url] ELSE @]

(* A blocked redirect keeps the URL that was dangerous.                     *)
Finish(st, committed, url) ==
    LET s == IF Dangerous(st.current) THEN st.current
             ELSE [st.current EXCEPT !.url = url]
    IN IF committed
       THEN [st EXCEPT !.pending = FALSE, !.fresh = FALSE, !.current = s, !.committed = s]
       ELSE [st EXCEPT !.pending = FALSE, !.fresh = FALSE, !.current = st.committed]

(* Mutant: a finished check keeps its verdict whatever the new URL.         *)
SameDocumentCommit_KeepsVerdict(st, id, url, revision, enabled) ==
    LET s == [st.committed EXCEPT !.id = id, !.url = url]
    IN [st EXCEPT !.fresh = FALSE, !.committed = s,
                  !.current = IF st.pending THEN @ ELSE s]

(* A finished verdict survives only for the same URL and policy, and a      *)
(* navigation in flight keeps its identity.                                 *)
SameDocumentCommit(st, id, url, revision, enabled) ==
    LET old == st.committed
        keeps == old.url = url /\ old.revision = revision /\ old.verdict # "checking"
        s == [IF keeps THEN old ELSE Reset([old EXCEPT !.url = url], revision, enabled)
              EXCEPT !.id = id]
    IN [st EXCEPT !.fresh = FALSE, !.committed = s,
                  !.current = IF st.pending THEN @ ELSE s]

PolicyChanged(st, revision, current_enabled, committed_enabled) ==
    [st EXCEPT !.fresh = FALSE,
               !.current = Reset(@, revision, current_enabled),
               !.committed = Reset(@, revision, committed_enabled)]

Report(st, result, checking, enabled) ==
    [st EXCEPT
        !.current.url = IF Dangerous(result) THEN result.url ELSE @,
        !.current.verdict = IF ~enabled \/ result.bypass THEN "skipped"
                            ELSE IF checking /\ ~Dangerous(result) THEN "checking"
                            ELSE result.verdict]

NeedsCommittedCheck(st) ==
    ~st.pending /\ st.current.verdict \in {"unchecked", "checking"}

StartCommittedCheck(st) ==
    LET s == [st.current EXCEPT !.verdict = "checking"]
    IN [st EXCEPT !.current = s, !.committed = s, !.fresh = TRUE]

(* When the answer to a committed check still is about what the tab shows.  *)
Accepts(st, latest, revision, result) ==
    /\ ~st.pending
    /\ latest /\ st.fresh
    /\ revision = st.current.revision /\ result.url = st.current.url

CompleteCommittedCheck(st, result) ==
    LET r == Report(st, result, FALSE, TRUE)
    IN [r EXCEPT !.committed = r.current]
=============================================================================
