----------------------- MODULE UrlCheckService_proofs -----------------------
(***************************************************************************)
(* Theorems about UrlCheckService, for any set of URLs and checks, finite  *)
(* or not, and all limits.                                                 *)
(*                                                                         *)
(* IInv is inductive.  Beside the invariants that the runs check it says   *)
(* that the tables are finite, so that their sizes can be counted, and     *)
(* where the replies on their way belong: none is of a later policy, and   *)
(* one of the policy in force was asked for with consent.  For the balance *)
(* of Acquire and Release it adds that rules_acquired_ tells whether the   *)
(* policy uses local rules, which is what their guards rely on.            *)
(***************************************************************************)
EXTENDS UrlCheckService, TLAPS, FiniteSetTheorems

Held == {u \in Urls : cache[u] # "none"}
Finite == IsFiniteSet(pending) /\ IsFiniteSet(Held) /\ IsFiniteSet(policy.exceptions)

FlightsAllowed ==
    \A f \in flights : f[2] <= policy.rev /\ (f[2] = policy.rev => UsesCloud(policy))

HoldFor(p, open) ==
    LET holds == IF open /\ UsesLocal(p) THEN 1 ELSE 0
    IN [acquired |-> UsesLocal(p), updater |-> holds, sources |-> holds]
HoldRight == hold = HoldFor(policy, alive)

IInv ==
    /\ TypeOK /\ Finite /\ FlightsAllowed
    /\ OnePlace /\ PendingWaits /\ ConsentRespected /\ ListedIsCaught /\ HoldRight

CallRecord == [url : Urls \cup {"none"}, verdict : Verdicts, local : BOOLEAN,
               cloud : BOOLEAN, rev : 0..MaxRev]

-----------------------------------------------------------------------------
(* The operators that the handlers share *)

(* A hold that is right has the type of one, and depends on the policy's    *)
(* switch and provider alone.                                               *)
LEMMA HoldTyped ==
    ASSUME NEW p, NEW q, NEW open \in BOOLEAN, UsesLocal(p) = UsesLocal(q)
    PROVE  /\ HoldFor(p, open) \in [acquired : BOOLEAN, updater : Int, sources : Int]
           /\ HoldFor(p, open) = HoldFor(q, open)
<1>1. UsesLocal(p) \in BOOLEAN
  BY DEF UsesLocal
<1> QED BY <1>1 DEF HoldFor

(* From a right hold, EnsureRules acquires what is not held and nothing     *)
(* else; Configure comes to the right hold for its policy, whatever the     *)
(* earlier one was; and the destructor gives back what is held.             *)
LEMMA HoldMoves ==
    ASSUME NEW p, NEW q
    PROVE  /\ UsesLocal(p) => EnsureRules(HoldFor(p, TRUE)) = HoldFor(p, TRUE)
           /\ (IF UsesLocal(q) THEN EnsureRules(HoldFor(p, TRUE))
               ELSE ReleaseRules(HoldFor(p, TRUE), FALSE)) = HoldFor(q, TRUE)
           /\ ReleaseRules(HoldFor(p, TRUE), TRUE) = HoldFor(p, FALSE)
           /\ (IF UsesLocal(p) THEN EnsureRules(NoHold) ELSE NoHold) = HoldFor(p, TRUE)
<1> DEFINE Full == [acquired |-> TRUE, updater |-> 1, sources |-> 1]
           Gone == [acquired |-> TRUE, updater |-> 0, sources |-> 0]
<1>1. EnsureRules(Full) = Full /\ EnsureRules(NoHold) = Full
  BY DEF EnsureRules, NoHold
<1>2. ReleaseRules(Full, TRUE) = Gone /\ ReleaseRules(NoHold, TRUE) = NoHold
  BY DEF ReleaseRules, NoHold
<1>3. ReleaseRules(Full, FALSE) = NoHold /\ ReleaseRules(NoHold, FALSE) = NoHold
  BY DEF ReleaseRules, NoHold
<1>4. ASSUME NEW s
      PROVE  /\ UsesLocal(s) => HoldFor(s, TRUE) = Full /\ HoldFor(s, FALSE) = Gone
             /\ ~UsesLocal(s) => HoldFor(s, TRUE) = NoHold /\ HoldFor(s, FALSE) = NoHold
  <2>1. UsesLocal(s) \in BOOLEAN
    BY DEF UsesLocal
  <2> QED BY <2>1 DEF HoldFor, NoHold
<1> HIDE DEF Full, Gone
<1>5. CASE UsesLocal(p)
  BY <1>1, <1>2, <1>3, <1>4, <1>5
<1>6. CASE ~UsesLocal(p)
  BY <1>1, <1>2, <1>3, <1>4, <1>6
<1> QED BY <1>5, <1>6

(* CheckLocal keeps the URL, the revision and what a check waits for.  A    *)
(* check of a listed URL comes out dangerous.                               *)
LEMMA CheckLocalResult ==
    ASSUME NEW k \in CallRecord, NEW p, NEW r
    PROVE  /\ CheckLocal(k, p, r) \in CallRecord
           /\ CheckLocal(k, p, r).url = k.url
           /\ CheckLocal(k, p, r).rev = k.rev
           /\ CheckLocal(k, p, r).local = k.local
           /\ CheckLocal(k, p, r).cloud = k.cloud
           /\ UsesLocal(p) /\ k.url \in r.listed => Dangerous(CheckLocal(k, p, r))
  BY DEF CheckLocal, CallRecord, Verdicts, Dangerous

(* MaybeComplete posts the result of each check that it takes out of        *)
(* pending_, and takes out those of the touched ones that need not wait.    *)
LEMMA MaybeCompleteMoves ==
    ASSUME TypeOK, NEW touched, NEW calls \in [Checks -> CallRecord],
           NEW waiting \in SUBSET Checks, MaybeComplete(touched, calls, waiting)
    PROVE  /\ call' = calls /\ pending' \subseteq waiting
           /\ posted' \in [Checks -> Nat]
           /\ \A d \in Checks : (IF d \in pending' THEN 1 ELSE 0) + posted'[d]
                                  = (IF d \in waiting THEN 1 ELSE 0) + posted[d]
           /\ \A d \in pending' : d \in touched => Waiting(calls[d])
           /\ \A d \in waiting : d \notin touched => d \in pending'
<1> DEFINE done == {d \in touched \cap waiting : ~Waiting(calls[d])}
<1>1. /\ call' = calls /\ pending' = waiting \ done
      /\ posted' = [d \in Checks |-> IF d \in done THEN posted[d] + 1 ELSE posted[d]]
  BY DEF MaybeComplete, PostResults
<1>2. posted \in [Checks -> Nat]
  BY DEF TypeOK
<1>3. posted' \in [Checks -> Nat]
  BY <1>1, <1>2
<1>4. ASSUME NEW d \in Checks
      PROVE  (IF d \in pending' THEN 1 ELSE 0) + posted'[d]
               = (IF d \in waiting THEN 1 ELSE 0) + posted[d]
  <2>1. posted[d] \in Nat
    BY <1>2
  <2>2. CASE d \in done
    <3>1. d \notin pending' /\ d \in waiting /\ posted'[d] = posted[d] + 1
      BY <1>1, <2>2
    <3> QED BY <2>1, <3>1
  <2>3. CASE d \notin done
    <3>1. (d \in pending' <=> d \in waiting) /\ posted'[d] = posted[d]
      BY <1>1, <2>3
    <3> QED BY <3>1
  <2> QED BY <2>2, <2>3
<1> QED BY <1>1, <1>3, <1>4

(* CancelAll posts the results of all checks in pending_.                   *)
LEMMA CancelAllMoves ==
    ASSUME TypeOK, CancelAll
    PROVE  /\ pending' = {} /\ call' = call
           /\ posted' \in [Checks -> Nat]
           /\ \A d \in Checks : posted'[d] = (IF d \in pending THEN 1 ELSE 0) + posted[d]
<1>1. /\ pending' = {} /\ call' = call
      /\ posted' = [d \in Checks |-> IF d \in pending THEN posted[d] + 1 ELSE posted[d]]
  BY DEF CancelAll, PostResults
<1>2. posted \in [Checks -> Nat]
  BY DEF TypeOK
<1> QED BY <1>1, <1>2

(* The record that Check makes, as the code builds it.                      *)
NewCall(c, url, k) ==
    /\ k \in CallRecord /\ k.url = url /\ k.rev = policy.rev
    /\ k.cloud => UsesCloud(policy)
    /\ flights' = IF k.cloud THEN flights \cup {<<c, policy.rev>>} ELSE flights
    /\ MaybeComplete({c}, [call EXCEPT ![c] = k], pending \cup {c})

LEMMA CheckMakes ==
    ASSUME TypeOK, NEW c \in Checks, NEW url \in Urls, Check(c, url)
    PROVE  \E k : NewCall(c, url, k)
<1> DEFINE k0 == [url |-> url, verdict |-> "unknown", rev |-> policy.rev, cloud |-> FALSE,
                  local |-> UsesLocal(policy) /\ (rules.loading \/ ~rules.ready)]
           k1 == CheckLocal(k0, policy, rules)
           k2 == IF Dangerous(k1) \/ ~UsesCloud(policy) THEN k1
                 ELSE IF cache[url] # "none" THEN [k1 EXCEPT !.verdict = cache[url]]
                 ELSE [k1 EXCEPT !.cloud = TRUE]
<1>1. k0 \in CallRecord
  BY LimitsAssumption DEF TypeOK, CallRecord, Verdicts, UsesLocal
<1>2. k1 \in CallRecord /\ k1.url = url /\ k1.rev = policy.rev /\ k1.cloud = FALSE
  BY <1>1, CheckLocalResult
<1>3. cache[url] # "none" => cache[url] \in Verdicts
  BY DEF TypeOK
<1> HIDE DEF k1
<1>4. k2 \in CallRecord /\ k2.url = url /\ k2.rev = policy.rev /\ (k2.cloud => UsesCloud(policy))
  BY <1>2, <1>3 DEF CallRecord
<1>5. /\ flights' = IF k2.cloud THEN flights \cup {<<c, policy.rev>>} ELSE flights
      /\ MaybeComplete({c}, [call EXCEPT ![c] = k2], pending \cup {c})
  BY DEF Check, k1
<1> HIDE DEF k2
<1>6. NewCall(c, url, k2)
  BY <1>4, <1>5 DEF NewCall
<1> QED BY <1>6

(* A part of a table is finite and within the table's limit.                *)
LEMMA PartFits ==
    ASSUME NEW S, IsFiniteSet(S), NEW n \in Nat, Cardinality(S) <= n, NEW T \in SUBSET S
    PROVE  IsFiniteSet(T) /\ Cardinality(T) <= n
<1>1. IsFiniteSet(T) /\ Cardinality(T) <= Cardinality(S)
  BY FS_Subset
<1>2. Cardinality(S) \in Nat /\ Cardinality(T) \in Nat
  BY <1>1, FS_CardinalityType
<1> QED BY <1>1, <1>2

(* One more entry fits where there is room.                                 *)
LEMMA AddFits ==
    ASSUME NEW S, IsFiniteSet(S), NEW n \in Nat, Cardinality(S) < n, NEW x
    PROVE  IsFiniteSet(S \cup {x}) /\ Cardinality(S \cup {x}) <= n
<1>1. Cardinality(S) \in Nat
  BY FS_CardinalityType
<1> QED BY <1>1, FS_AddElement

(* Remember keeps the cache within its limit: a full one gives an entry up. *)
LEMMA RememberFits ==
    ASSUME TypeOK, Finite, NEW url, NEW verdict \in Verdicts, Remember(url, verdict)
    PROVE  /\ cache' \in [Urls -> Verdicts \cup {"none"}]
           /\ IsFiniteSet(Held') /\ Cardinality(Held') <= MaxCache
<1>0. /\ cache \in [Urls -> Verdicts \cup {"none"}] /\ IsFiniteSet(Held)
      /\ Cardinality(Held) \in Nat /\ Cardinality(Held) <= MaxCache /\ MaxCache \in Nat
  BY LimitsAssumption, FS_CardinalityType DEF TypeOK, Finite, Held
<1>1. CASE /\ Cardinality(Held) < MaxCache
           /\ cache' = [cache EXCEPT ![url] = verdict]
  <2>1. cache' \in [Urls -> Verdicts \cup {"none"}]
    BY <1>0, <1>1
  <2>2. Held' \subseteq Held \cup {url}
    BY <1>0, <1>1 DEF Held
  <2>3. IsFiniteSet(Held \cup {url}) /\ Cardinality(Held \cup {url}) <= MaxCache
    BY <1>0, <1>1, AddFits
  <2> HIDE DEF Held
  <2> QED BY <1>0, <2>1, <2>2, <2>3, PartFits
<1>2. CASE /\ Cardinality(Held) >= MaxCache
           /\ \E u \in Held : cache' = [cache EXCEPT ![u] = "none", ![url] = verdict]
  <2>1. PICK u \in Held : cache' = [cache EXCEPT ![u] = "none", ![url] = verdict]
    BY <1>2
  <2>2. cache' \in [Urls -> Verdicts \cup {"none"}]
    BY <1>0, <2>1
  <2>3. Held' \subseteq (Held \ {u}) \cup {url}
    BY <1>0, <2>1 DEF Held
  <2>4. /\ IsFiniteSet(Held \ {u}) /\ Cardinality(Held \ {u}) = Cardinality(Held) - 1
    BY <1>0, <2>1, FS_RemoveElement
  <2>5. /\ IsFiniteSet((Held \ {u}) \cup {url})
        /\ Cardinality((Held \ {u}) \cup {url}) <= MaxCache
    BY <1>0, <2>4, AddFits
  <2> QED BY <1>0, <2>2, <2>3, <2>5, PartFits
<1> QED BY <1>1, <1>2 DEF Remember, Held

-----------------------------------------------------------------------------
(* Each handler keeps the invariant *)

(* The constructor.                                                         *)
LEMMA InitIInv == Init => IInv
<1> SUFFICES ASSUME Init PROVE IInv
  OBVIOUS
<1>1. policy.exceptions = {} /\ pending = {} /\ Held = {} /\ policy.rev = 1
  BY DEF Init, Held
<1>2. Cardinality({}) = 0 /\ IsFiniteSet({})
  BY FS_EmptySet
<1>3. TypeOK
  <2>1. policy \in [enabled : BOOLEAN, provider : Providers, consent : BOOLEAN,
                    rev : 1..MaxRev, exceptions : SUBSET Urls]
    <3>1. {FALSE} \subseteq BOOLEAN /\ {1} \subseteq 1..MaxRev /\ {{}} \subseteq SUBSET Urls
      BY LimitsAssumption
    <3>2. policy \in [enabled : BOOLEAN, provider : Providers, consent : {FALSE}, rev : {1},
                      exceptions : {{}}]
      BY DEF Init
    <3> QED BY <3>1, <3>2, Zenon
  <2>2. NoCall \in CallRecord
    BY LimitsAssumption DEF NoCall, CallRecord, Verdicts
  <2>3. call \in [Checks -> CallRecord]
    BY <2>2 DEF Init
  <2>4. rules \in RuleStates
    <3>1. PICK b \in BOOLEAN : rules = [loading |-> ~b, ready |-> b, usable |-> b, listed |-> {}]
      BY Zenon DEF Init
    <3>2. (~b) \in BOOLEAN /\ {} \in SUBSET Urls
      OBVIOUS
    <3> QED BY <3>1, <3>2, Zenon DEF RuleStates
  <2>5. hold \in [acquired : BOOLEAN, updater : Int, sources : Int]
    <3>1. hold = HoldFor(policy, TRUE)
      BY HoldMoves DEF Init
    <3> QED BY <3>1, HoldTyped
  <2>6. alive \in BOOLEAN
    BY DEF Init
  <2>7. /\ cache \in [Urls -> Verdicts \cup {"none"}]
        /\ posted \in [Checks -> Nat] /\ ran \in [Checks -> Nat]
        /\ news \in 0..MaxNews
    BY LimitsAssumption DEF Init
  <2>8. /\ pending \subseteq asked /\ timers \subseteq asked /\ asked \subseteq Checks
        /\ flights \subseteq Checks \X (1..MaxRev)
    BY DEF Init
  <2>9. /\ Cardinality(pending) <= MaxPending /\ Cardinality(Held) <= MaxCache
        /\ Cardinality(policy.exceptions) <= MaxExceptions
    BY <1>1, <1>2, LimitsAssumption
  <2> QED BY <2>1, <2>3, <2>4, <2>5, <2>6, <2>7, <2>8, <2>9 DEF TypeOK, CallRecord, Held
<1>4. Finite
  BY <1>1, <1>2 DEF Finite
<1>5. OnePlace
  <2> SUFFICES ASSUME NEW c \in Checks
               PROVE  (IF c \in pending THEN 1 ELSE 0) + posted[c] + ran[c]
                        = IF c \in asked THEN 1 ELSE 0
    BY DEF OnePlace
  <2>1. c \notin pending /\ posted[c] = 0 /\ ran[c] = 0 /\ c \notin asked
    BY DEF Init
  <2> QED BY <2>1
<1>6. FlightsAllowed /\ PendingWaits /\ ConsentRespected /\ ListedIsCaught
  BY DEF Init, FlightsAllowed, PendingWaits, ConsentRespected, ListedIsCaught
<1>7. HoldRight
  BY HoldMoves DEF Init, HoldRight
<1> QED BY <1>3, <1>4, <1>5, <1>6, <1>7 DEF IInv

(* What a handler leaves alone of the invariant when it touches no table    *)
(* but posted, ran and asked.                                               *)
LEMMA TablesAlone ==
    ASSUME IInv, UNCHANGED <<policy, rules, hold, pending, call, cache, flights, timers, alive>>
    PROVE  /\ Finite' /\ FlightsAllowed' /\ PendingWaits' /\ ConsentRespected'
           /\ ListedIsCaught' /\ HoldRight'
  BY DEF IInv, Finite, Held, FlightsAllowed, PendingWaits, ConsentRespected, ListedIsCaught,
         HoldRight, UsesCloud, UsesLocal

(* A check that is answered at once.                                        *)
LEMMA CheckNowKeeps ==
    ASSUME IInv, NEW c \in Checks, NEW url \in Urls, NEW late \in BOOLEAN, CheckNow(c, url, late)
    PROVE  IInv'
<1>0. TypeOK /\ OnePlace
  BY DEF IInv
<1>1. /\ c \notin asked /\ asked' = asked \cup {c} /\ ran' = ran /\ pending' = pending
      /\ posted' = [d \in Checks |-> IF d \in {c} THEN posted[d] + 1 ELSE posted[d]]
  BY DEF CheckNow, PostResults
<1>2. posted' \in [Checks -> Nat]
  BY <1>0, <1>1 DEF TypeOK
<1>3. TypeOK'
  BY <1>0, <1>1, <1>2 DEF CheckNow, TypeOK
<1>4. OnePlace'
  <2> SUFFICES ASSUME NEW d \in Checks
               PROVE  (IF d \in pending' THEN 1 ELSE 0) + posted'[d] + ran'[d]
                        = IF d \in asked' THEN 1 ELSE 0
    BY DEF OnePlace
  <2>1. /\ posted[d] \in Nat /\ ran[d] \in Nat
        /\ (IF d \in pending THEN 1 ELSE 0) + posted[d] + ran[d] = IF d \in asked THEN 1 ELSE 0
    BY <1>0 DEF TypeOK, OnePlace
  <2>2. CASE d = c
    <3>1. posted'[d] = posted[d] + 1 /\ d \notin asked /\ d \in asked'
      BY <1>1, <2>2
    <3> QED BY <1>1, <2>1, <3>1
  <2>3. CASE d # c
    BY <1>1, <2>1, <2>3
  <2> QED BY <2>2, <2>3
<1> QED BY <1>3, <1>4, TablesAlone DEF CheckNow, IInv

(* A posted result runs its callback.                                       *)
LEMMA RunCallbackKeeps == ASSUME IInv, NEW c \in Checks, RunCallback(c) PROVE IInv'
<1>0. TypeOK /\ OnePlace
  BY DEF IInv
<1>1. /\ posted[c] > 0 /\ posted' = [posted EXCEPT ![c] = @ - 1]
      /\ ran' = [ran EXCEPT ![c] = @ + 1] /\ pending' = pending /\ asked' = asked
  BY DEF RunCallback
<1>2. posted \in [Checks -> Nat] /\ ran \in [Checks -> Nat]
  BY <1>0 DEF TypeOK
<1>3. posted' \in [Checks -> Nat] /\ ran' \in [Checks -> Nat]
  BY <1>1, <1>2
<1>4. TypeOK'
  BY <1>0, <1>3 DEF RunCallback, TypeOK
<1>5. OnePlace'
  <2> SUFFICES ASSUME NEW d \in Checks
               PROVE  (IF d \in pending' THEN 1 ELSE 0) + posted'[d] + ran'[d]
                        = IF d \in asked' THEN 1 ELSE 0
    BY DEF OnePlace
  <2>1. (IF d \in pending THEN 1 ELSE 0) + posted[d] + ran[d] = IF d \in asked THEN 1 ELSE 0
    BY <1>0 DEF OnePlace
  <2>2. CASE d = c
    BY <1>1, <1>2, <2>1, <2>2
  <2>3. CASE d # c
    BY <1>1, <1>2, <2>1, <2>3
  <2> QED BY <2>2, <2>3
<1> QED BY <1>4, <1>5, TablesAlone DEF RunCallback, IInv

(* A cached verdict is dropped.                                             *)
LEMMA CacheExpiresKeeps == ASSUME IInv, NEW url \in Urls, CacheExpires(url) PROVE IInv'
<1>0. TypeOK /\ Finite
  BY DEF IInv
<1>1. cache' = [cache EXCEPT ![url] = "none"] /\ cache' \in [Urls -> Verdicts \cup {"none"}]
  BY <1>0 DEF CacheExpires, TypeOK
<1>2. Held' \subseteq Held
  BY <1>0, <1>1 DEF Held, TypeOK
<1>3. IsFiniteSet(Held') /\ Cardinality(Held') <= MaxCache
  BY <1>0, <1>2, PartFits, LimitsAssumption DEF TypeOK, Finite, Held
<1>4. TypeOK'
  BY <1>0, <1>1, <1>3 DEF CacheExpires, TypeOK, Held
<1>5. Finite'
  BY <1>0, <1>3 DEF CacheExpires, Finite
<1>6. FlightsAllowed' /\ OnePlace' /\ PendingWaits' /\ ListedIsCaught' /\ HoldRight'
  BY DEF IInv, CacheExpires, FlightsAllowed, OnePlace, PendingWaits, ListedIsCaught, HoldRight,
         UsesCloud, UsesLocal
<1>7. ConsentRespected'
  BY <1>2 DEF IInv, CacheExpires, ConsentRespected, Held, UsesCloud
<1> QED BY <1>4, <1>5, <1>6, <1>7 DEF IInv

(* A handler that makes no check moves callbacks without losing any.        *)
LEMMA OnePlaceMoves ==
    ASSUME TypeOK, OnePlace, ran' = ran, asked' = asked, posted' \in [Checks -> Nat],
           \A d \in Checks : (IF d \in pending' THEN 1 ELSE 0) + posted'[d]
                               = (IF d \in pending THEN 1 ELSE 0) + posted[d]
    PROVE  OnePlace'
<1> SUFFICES ASSUME NEW d \in Checks
             PROVE  (IF d \in pending' THEN 1 ELSE 0) + posted'[d] + ran'[d]
                      = IF d \in asked' THEN 1 ELSE 0
  BY DEF OnePlace
<1>1. /\ posted[d] \in Nat /\ posted'[d] \in Nat /\ ran[d] \in Nat
      /\ (IF d \in pending THEN 1 ELSE 0) + posted[d] + ran[d] = IF d \in asked THEN 1 ELSE 0
  BY DEF TypeOK, OnePlace
<1> QED BY <1>1

(* A timeout or a cancellation ends one check and leaves the others alone.  *)
LEMMA EndKeeps ==
    ASSUME IInv, NEW c \in Checks, NEW calls \in [Checks -> CallRecord],
           MaybeComplete({c}, calls, pending),
           \A d \in Checks \ {c} : calls[d] = call[d], c \in pending => ~Waiting(calls[c]),
           timers' \subseteq timers, timers \ {c} \subseteq timers',
           UNCHANGED <<policy, rules, hold, cache, flights, asked, ran, alive, news>>
    PROVE  IInv'
<1>0. TypeOK /\ Finite /\ OnePlace /\ pending \in SUBSET Checks
  BY DEF IInv, TypeOK
<1>1. /\ call' = calls /\ pending' \subseteq pending
      /\ posted' \in [Checks -> Nat]
      /\ \A d \in Checks : (IF d \in pending' THEN 1 ELSE 0) + posted'[d]
                             = (IF d \in pending THEN 1 ELSE 0) + posted[d]
      /\ \A d \in pending' : d \in {c} => Waiting(calls[d])
  BY <1>0, MaybeCompleteMoves
<1>2. c \notin pending' /\ \A d \in pending' : d \in Checks \ {c} /\ call'[d] = call[d]
  BY <1>0, <1>1
<1>3. IsFiniteSet(pending') /\ Cardinality(pending') <= MaxPending
  BY <1>0, <1>1, PartFits, LimitsAssumption DEF Finite, TypeOK
<1>4. TypeOK'
  BY <1>0, <1>1, <1>3 DEF TypeOK, CallRecord
<1>5. Finite'
  BY <1>0, <1>3 DEF Finite, Held
<1>6. OnePlace'
  BY <1>0, <1>1, OnePlaceMoves
<1>7. FlightsAllowed' /\ HoldRight'
  BY DEF IInv, FlightsAllowed, HoldRight, UsesCloud, UsesLocal
<1>8. PendingWaits'
  BY <1>1, <1>2 DEF IInv, PendingWaits, Waiting, Dangerous
<1>9. ConsentRespected' /\ ListedIsCaught'
  BY <1>1, <1>2 DEF IInv, ConsentRespected, ListedIsCaught, UsesCloud, UsesLocal
<1> QED BY <1>4, <1>5, <1>6, <1>7, <1>8, <1>9 DEF IInv

(* The time budget of a check ends.                                         *)
LEMMA TimeoutKeeps == ASSUME IInv, NEW c \in Checks, Timeout(c) PROVE IInv'
<1> DEFINE calls == IF c \in pending THEN [call EXCEPT ![c].local = FALSE, ![c].cloud = FALSE]
                    ELSE call
<1>1. call \in [Checks -> CallRecord]
  BY DEF IInv, TypeOK, CallRecord
<1>2. calls \in [Checks -> CallRecord]
  BY <1>1 DEF CallRecord
<1>3. c \in pending => ~Waiting(calls[c])
  BY <1>1 DEF Waiting, CallRecord
<1>4. \A d \in Checks \ {c} : calls[d] = call[d]
  BY <1>1
<1>5. MaybeComplete({c}, calls, pending) /\ timers' = timers \ {c}
  BY DEF Timeout
<1> HIDE DEF calls
<1> QED BY <1>2, <1>3, <1>4, <1>5, EndKeeps DEF Timeout

(* The caller gives a check up.                                             *)
LEMMA CancelKeeps == ASSUME IInv, NEW c \in Checks, Cancel(c) PROVE IInv'
<1> DEFINE calls == [call EXCEPT ![c].verdict = "unknown", ![c].local = FALSE, ![c].cloud = FALSE]
<1>1. call \in [Checks -> CallRecord]
  BY DEF IInv, TypeOK, CallRecord
<1>2. calls \in [Checks -> CallRecord]
  <2>1. [call[c] EXCEPT !.verdict = "unknown", !.local = FALSE, !.cloud = FALSE] \in CallRecord
    BY <1>1 DEF CallRecord, Verdicts
  <2>2. calls = [call EXCEPT ![c] = [call[c] EXCEPT !.verdict = "unknown", !.local = FALSE,
                                                    !.cloud = FALSE]]
    BY <1>1 DEF CallRecord
  <2> QED BY <1>1, <2>1, <2>2
<1>3. c \in pending => ~Waiting(calls[c])
  BY <1>1 DEF Waiting, CallRecord
<1>4. \A d \in Checks \ {c} : calls[d] = call[d]
  BY <1>1
<1>5. MaybeComplete({c}, calls, pending) /\ timers' = timers
  BY DEF Cancel
<1> HIDE DEF calls
<1> QED BY <1>2, <1>3, <1>4, <1>5, EndKeeps DEF Cancel

(* A check that is made waits with a timeout, and with a reply to come if   *)
(* it asked the cloud.                                                      *)
LEMMA CheckKeeps ==
    ASSUME IInv, NEW c \in Checks, NEW url \in Urls, Check(c, url)
    PROVE  IInv'
<1>0. TypeOK /\ Finite /\ OnePlace /\ pending \in SUBSET Checks /\ c \notin asked /\ c \notin pending
  BY DEF IInv, TypeOK, Check
<1>1. PICK k : NewCall(c, url, k)
  BY <1>0, CheckMakes
<1> DEFINE calls == [call EXCEPT ![c] = k]
           waiting == pending \cup {c}
<1>2. calls \in [Checks -> CallRecord] /\ calls[c] = k /\ \A d \in Checks \ {c} : calls[d] = call[d]
  BY <1>0, <1>1 DEF NewCall, TypeOK, CallRecord
<1>3. MaybeComplete({c}, calls, waiting) /\ waiting \in SUBSET Checks
  BY <1>0, <1>1 DEF NewCall
<1> HIDE DEF calls, waiting
<1>4. /\ call' = calls /\ pending' \subseteq waiting
      /\ posted' \in [Checks -> Nat]
      /\ \A d \in Checks : (IF d \in pending' THEN 1 ELSE 0) + posted'[d]
                             = (IF d \in waiting THEN 1 ELSE 0) + posted[d]
      /\ \A d \in pending' : d \in {c} => Waiting(calls[d])
  BY <1>0, <1>2, <1>3, MaybeCompleteMoves
<1>5. IsFiniteSet(pending') /\ Cardinality(pending') <= MaxPending
  <2>1. Cardinality(pending) < MaxPending /\ IsFiniteSet(pending)
    <3>1. ~(Cardinality(pending) >= MaxPending) /\ IsFiniteSet(pending)
      BY <1>0 DEF Check, Refuses, Finite
    <3> QED BY <3>1, FS_CardinalityType, LimitsAssumption
  <2>2. IsFiniteSet(waiting) /\ Cardinality(waiting) <= MaxPending
    BY <2>1, AddFits, LimitsAssumption DEF waiting
  <2> QED BY <1>4, <2>2, PartFits, LimitsAssumption
<1>6. /\ hold' = (IF UsesLocal(policy) THEN EnsureRules(hold) ELSE hold)
      /\ timers' = timers \cup {c} /\ asked' = asked \cup {c}
      /\ UNCHANGED <<policy, rules, cache, ran, alive, news>>
  BY DEF Check
<1>7. flights' \subseteq flights \cup {<<c, policy.rev>>} /\ flights \subseteq flights'
  BY <1>1 DEF NewCall
<1>8. TypeOK'
  <2>1. pending' \subseteq asked' /\ timers' \subseteq asked' /\ asked' \subseteq Checks
    BY <1>0, <1>4, <1>6 DEF TypeOK, waiting
  <2>2. flights' \subseteq Checks \X (1..MaxRev)
    BY <1>0, <1>7 DEF TypeOK
  <2>3. hold' = hold
    BY <1>6, HoldMoves DEF IInv, HoldRight, Check
  <2> QED BY <1>0, <1>2, <1>4, <1>5, <1>6, <2>1, <2>2, <2>3 DEF TypeOK, CallRecord
<1>9. Finite'
  BY <1>0, <1>5, <1>6 DEF Finite, Held
<1>10. FlightsAllowed'
  <2> SUFFICES ASSUME NEW f \in flights'
               PROVE  f[2] <= policy.rev /\ (f[2] = policy.rev => UsesCloud(policy))
    BY <1>6 DEF FlightsAllowed, UsesCloud
  <2>1. CASE f \in flights
    BY <2>1 DEF IInv, FlightsAllowed
  <2>2. CASE f \notin flights
    BY <1>0, <1>1, <2>2 DEF NewCall, TypeOK
  <2> QED BY <2>1, <2>2
<1>11. OnePlace'
  <2> SUFFICES ASSUME NEW d \in Checks
               PROVE  (IF d \in pending' THEN 1 ELSE 0) + posted'[d] + ran'[d]
                        = IF d \in asked' THEN 1 ELSE 0
    BY DEF OnePlace
  <2>1. /\ posted[d] \in Nat /\ posted'[d] \in Nat /\ ran[d] \in Nat /\ ran' = ran
        /\ (IF d \in pending THEN 1 ELSE 0) + posted[d] + ran[d] = IF d \in asked THEN 1 ELSE 0
    BY <1>0, <1>4, <1>6 DEF TypeOK, OnePlace
  <2>2. (IF d \in pending' THEN 1 ELSE 0) + posted'[d]
          = (IF d \in waiting THEN 1 ELSE 0) + posted[d]
    BY <1>4
  <2>3. CASE d = c
    BY <1>0, <1>6, <2>1, <2>2, <2>3 DEF waiting
  <2>4. CASE d # c
    BY <1>6, <2>1, <2>2, <2>4 DEF waiting
  <2> QED BY <2>3, <2>4
<1>12. PendingWaits'
  <2> SUFFICES ASSUME NEW d \in pending'
               PROVE  /\ Waiting(call'[d]) /\ d \in timers'
                      /\ call'[d].cloud => <<d, call'[d].rev>> \in flights'
    BY DEF PendingWaits, Waiting, Dangerous
  <2>1. CASE d = c
    BY <1>1, <1>2, <1>4, <1>6, <2>1 DEF NewCall
  <2>2. CASE d # c
    BY <1>0, <1>2, <1>4, <1>6, <1>7, <2>2 DEF IInv, PendingWaits, waiting
  <2> QED BY <2>1, <2>2
<1>13. ConsentRespected'
  <2>1. ASSUME NEW d \in pending', call'[d].cloud
        PROVE  UsesCloud(policy) /\ call'[d].rev = policy.rev
    <3>1. CASE d = c
      BY <1>1, <1>2, <1>4, <2>1, <3>1 DEF NewCall
    <3>2. CASE d # c
      BY <1>0, <1>2, <1>4, <2>1, <3>2 DEF IInv, ConsentRespected, waiting
    <3> QED BY <3>1, <3>2
  <2> QED BY <1>6, <2>1 DEF IInv, ConsentRespected, UsesCloud
<1>14. ListedIsCaught'
  <2> SUFFICES ASSUME UsesLocal(policy), NEW d \in pending' PROVE call'[d].url \notin rules.listed
    BY <1>6 DEF ListedIsCaught, UsesLocal
  <2>1. CASE d = c
    BY <1>1, <1>2, <1>4, <2>1 DEF NewCall, Check, KnownRisk
  <2>2. CASE d # c
    BY <1>0, <1>2, <1>4, <2>2 DEF IInv, ListedIsCaught, waiting
  <2> QED BY <2>1, <2>2
<1>15. HoldRight'
  <2>1. hold = HoldFor(policy, TRUE) /\ alive = TRUE
    BY <1>0 DEF IInv, HoldRight, Check, TypeOK
  <2>2. hold' = hold
    BY <1>6, <2>1, HoldMoves
  <2> QED BY <1>6, <2>1, <2>2 DEF HoldRight
<1> QED BY <1>8, <1>9, <1>10, <1>11, <1>12, <1>13, <1>14, <1>15 DEF IInv

(* A reply of the cloud ends the wait of its check, or finds it gone.  One  *)
(* that is used is of the policy in force, hence asked for with consent.    *)
LEMMA OnCloudKeeps ==
    ASSUME IInv, NEW f \in flights, NEW verdict \in Verdicts, OnCloud(f, verdict)
    PROVE  IInv'
<1> DEFINE c == f[1]
           k == call[c]
           better == verdict = "phishing" \/ k.verdict = "unknown"
           w == [k EXCEPT !.cloud = FALSE,
                          !.verdict = IF verdict # "unknown" /\ ~Dangerous(k) /\ better
                                      THEN verdict ELSE @]
           calls == [call EXCEPT ![c] = w]
<1>0. /\ TypeOK /\ Finite /\ OnePlace /\ pending \in SUBSET Checks
      /\ c \in Checks /\ f[2] \in 1..MaxRev /\ f = <<c, f[2]>>
      /\ call \in [Checks -> CallRecord]
  BY DEF IInv, TypeOK, CallRecord
<1>1. /\ flights' = flights \ {f}
      /\ UNCHANGED <<policy, rules, hold, timers, asked, ran, alive, news>>
      /\ \/ /\ ~OnCloudCurrent(c, f[2])
            /\ UNCHANGED <<cache, call, pending, posted>>
         \/ /\ OnCloudCurrent(c, f[2])
            /\ \/ verdict # "unknown" /\ Remember(k.url, verdict)
               \/ verdict = "unknown" /\ UNCHANGED cache
            /\ MaybeComplete({c}, calls, pending)
  BY DEF OnCloud
<1>2. /\ k \in CallRecord /\ w \in CallRecord /\ ~w.cloud
      /\ w.url = k.url /\ w.rev = k.rev /\ w.local = k.local
  BY <1>0 DEF CallRecord
<1>3. calls \in [Checks -> CallRecord] /\ calls[c] = w /\ \A d \in Checks \ {c} : calls[d] = call[d]
  BY <1>0, <1>2
<1> HIDE DEF c, k, w, calls
<1>4. FlightsAllowed' /\ HoldRight'
  BY <1>1 DEF IInv, FlightsAllowed, HoldRight, UsesCloud, UsesLocal
<1>5. CASE ~OnCloudCurrent(c, f[2])
  <2>1. UNCHANGED <<cache, call, pending, posted>>
    BY <1>1, <1>5
  <2>2. TypeOK'
    BY <1>0, <1>1, <2>1 DEF TypeOK
  <2>3. Finite' /\ OnePlace' /\ ConsentRespected' /\ ListedIsCaught'
    BY <1>1, <2>1 DEF IInv, Finite, Held, OnePlace, ConsentRespected, ListedIsCaught, UsesCloud,
                      UsesLocal
  <2>4. PendingWaits'
    <3> SUFFICES ASSUME NEW d \in pending
                 PROVE  /\ Waiting(call[d]) /\ d \in timers
                        /\ call[d].cloud => <<d, call[d].rev>> \in flights'
      BY <1>1, <2>1 DEF PendingWaits, Waiting, Dangerous
    <3>1. call[d].cloud => call[d].rev = policy.rev
      BY DEF IInv, ConsentRespected
    <3>2. ~(d = c /\ f[2] = policy.rev)
      BY <1>5 DEF OnCloudCurrent
    <3>3. call[d].cloud => <<d, call[d].rev>> # f
      BY <1>0, <3>1, <3>2
    <3> QED BY <1>1, <3>3 DEF IInv, PendingWaits
  <2> QED BY <1>4, <2>2, <2>3, <2>4 DEF IInv
<1>6. CASE OnCloudCurrent(c, f[2])
  <2>0. c \in pending /\ f[2] = policy.rev /\ UsesCloud(policy)
    BY <1>6 DEF OnCloudCurrent, IInv, FlightsAllowed
  <2>1. MaybeComplete({c}, calls, pending)
    BY <1>1, <1>6
  <2>2. /\ call' = calls /\ pending' \subseteq pending
        /\ posted' \in [Checks -> Nat]
        /\ \A d \in Checks : (IF d \in pending' THEN 1 ELSE 0) + posted'[d]
                               = (IF d \in pending THEN 1 ELSE 0) + posted[d]
        /\ \A d \in pending' : d \in {c} => Waiting(calls[d])
    BY <1>0, <1>3, <2>1, MaybeCompleteMoves
  <2>3. IsFiniteSet(pending') /\ Cardinality(pending') <= MaxPending
    BY <1>0, <2>2, PartFits, LimitsAssumption DEF Finite, TypeOK
  <2>4. /\ cache' \in [Urls -> Verdicts \cup {"none"}]
        /\ IsFiniteSet(Held') /\ Cardinality(Held') <= MaxCache
    <3>1. CASE Remember(k.url, verdict)
      BY <1>0, <3>1, RememberFits
    <3>2. CASE UNCHANGED cache
      BY <1>0, <3>2 DEF TypeOK, Finite, Held
    <3> QED BY <1>1, <1>6, <3>1, <3>2
  <2>5. TypeOK'
    BY <1>0, <1>1, <1>3, <2>2, <2>3, <2>4 DEF TypeOK, CallRecord, Held
  <2>6. Finite'
    BY <1>0, <1>1, <2>3, <2>4 DEF Finite
  <2>7. OnePlace'
    BY <1>0, <1>1, <2>2, OnePlaceMoves
  <2>8. ASSUME NEW d \in pending'
        PROVE  /\ d \in pending /\ Waiting(call'[d]) /\ call'[d].url = call[d].url
               /\ call'[d].rev = call[d].rev /\ (call'[d].cloud => d # c /\ call[d].cloud)
    <3>1. CASE d = c
      BY <1>2, <1>3, <2>2, <3>1 DEF k
    <3>2. CASE d # c
      BY <1>0, <1>3, <2>2, <3>2 DEF IInv, PendingWaits
    <3> QED BY <3>1, <3>2
  <2>9. PendingWaits'
    <3> SUFFICES ASSUME NEW d \in pending'
                 PROVE  /\ Waiting(call'[d]) /\ d \in timers
                        /\ call'[d].cloud => <<d, call'[d].rev>> \in flights'
      BY <1>1 DEF PendingWaits, Waiting, Dangerous
    <3>1. d \in timers /\ (call[d].cloud => <<d, call[d].rev>> \in flights)
      BY <2>8 DEF IInv, PendingWaits
    <3>2. d # c => <<d, call[d].rev>> # f
      BY <1>0
    <3> QED BY <1>1, <2>8, <3>1, <3>2
  <2>10. ConsentRespected'
    BY <1>1, <2>0, <2>8 DEF IInv, ConsentRespected, UsesCloud
  <2>11. ListedIsCaught'
    BY <1>1, <2>8 DEF IInv, ListedIsCaught, UsesLocal
  <2> QED BY <1>4, <2>5, <2>6, <2>7, <2>9, <2>10, <2>11 DEF IInv
<1> QED BY <1>5, <1>6

-----------------------------------------------------------------------------
(* Policy changes, new rules and the end *)

(* A policy change answers all checks and empties the cache, and no reply   *)
(* on its way is of the new revision.                                       *)
LEMMA ChangePolicyKeeps ==
    ASSUME IInv,
           NEW p \in [enabled : BOOLEAN, provider : Providers, consent : BOOLEAN,
                      rev : 1..MaxRev, exceptions : SUBSET Urls],
           ChangePolicy(p), IsFiniteSet(p.exceptions),
           Cardinality(p.exceptions) <= MaxExceptions,
           rules' \in RuleStates, news' \in 0..MaxNews, hold' = HoldFor(p, TRUE)
    PROVE  IInv'
<1>0. TypeOK /\ Finite /\ OnePlace
  BY DEF IInv
<1>1. /\ pending' = {} /\ call' = call
      /\ posted' \in [Checks -> Nat]
      /\ \A d \in Checks : posted'[d] = (IF d \in pending THEN 1 ELSE 0) + posted[d]
  BY <1>0, CancelAllMoves DEF ChangePolicy
<1>2. /\ alive /\ policy' = [p EXCEPT !.rev = policy.rev + 1] /\ policy.rev < MaxRev
      /\ cache' = [u \in Urls |-> "none"]
      /\ UNCHANGED <<flights, timers, asked, ran, alive>>
  BY DEF ChangePolicy, ClearCache
<1>3. /\ policy' \in [enabled : BOOLEAN, provider : Providers, consent : BOOLEAN,
                      rev : 1..MaxRev, exceptions : SUBSET Urls]
      /\ policy'.rev = policy.rev + 1 /\ policy'.exceptions = p.exceptions
      /\ policy'.enabled = p.enabled /\ policy'.provider = p.provider
  BY <1>0, <1>2, LimitsAssumption DEF TypeOK
<1>4. Held' = {} /\ cache' \in [Urls -> Verdicts \cup {"none"}]
  BY <1>2 DEF Held
<1>5. Cardinality({}) = 0 /\ IsFiniteSet({})
  BY FS_EmptySet
<1>6. TypeOK'
  <2>1. /\ Cardinality(pending') <= MaxPending /\ Cardinality(Held') <= MaxCache
        /\ Cardinality(policy'.exceptions) <= MaxExceptions
    BY <1>1, <1>3, <1>4, <1>5, LimitsAssumption
  <2>2. hold' \in [acquired : BOOLEAN, updater : Int, sources : Int]
    BY HoldTyped
  <2> QED BY <1>0, <1>1, <1>2, <1>3, <1>4, <2>1, <2>2 DEF TypeOK, Held
<1>7. Finite'
  BY <1>1, <1>3, <1>4, <1>5 DEF Finite
<1>8. FlightsAllowed'
  <2> SUFFICES ASSUME NEW f \in flights PROVE f[2] < policy'.rev
    BY <1>0, <1>2, <1>3 DEF FlightsAllowed, TypeOK
  <2> QED BY <1>0, <1>3 DEF IInv, FlightsAllowed, TypeOK
<1>9. OnePlace'
  <2>1. \A d \in Checks : (IF d \in pending' THEN 1 ELSE 0) + posted'[d]
                            = (IF d \in pending THEN 1 ELSE 0) + posted[d]
    BY <1>0, <1>1 DEF TypeOK
  <2> QED BY <1>0, <1>1, <1>2, <2>1, OnePlaceMoves
<1>10. PendingWaits' /\ ConsentRespected' /\ ListedIsCaught'
  BY <1>1, <1>2 DEF PendingWaits, ConsentRespected, ListedIsCaught
<1>11. HoldRight'
  <2>1. UsesLocal(policy') = UsesLocal(p) /\ alive' = TRUE
    BY <1>0, <1>2, <1>3 DEF UsesLocal, TypeOK
  <2>2. HoldFor(policy', TRUE) = HoldFor(p, TRUE)
    BY <2>1, HoldTyped
  <2> QED BY <2>1, <2>2 DEF HoldRight
<1> QED BY <1>6, <1>7, <1>8, <1>9, <1>10, <1>11 DEF IInv

(* The policy in force is well formed and its exceptions fit.               *)
LEMMA PolicyTyped ==
    ASSUME IInv
    PROVE  /\ policy \in [enabled : BOOLEAN, provider : Providers, consent : BOOLEAN,
                          rev : 1..MaxRev, exceptions : SUBSET Urls]
           /\ IsFiniteSet(policy.exceptions) /\ Cardinality(policy.exceptions) <= MaxExceptions
           /\ rules \in RuleStates /\ news \in 0..MaxNews /\ news \in Nat
           /\ alive => hold = HoldFor(policy, TRUE)
<1>1. alive => hold = HoldFor(policy, TRUE)
  BY DEF IInv, HoldRight, TypeOK
<1>2. news \in 0..MaxNews /\ news \in Nat
  BY LimitsAssumption DEF IInv, TypeOK
<1> QED BY <1>1, <1>2 DEF IInv, TypeOK, Finite

(* The user or the administrator sets the policy.                           *)
LEMMA ConfigureKeeps ==
    ASSUME IInv, NEW on \in BOOLEAN, NEW consent \in BOOLEAN, NEW provider \in Providers,
           Configure(on, provider, consent)
    PROVE  IInv'
<1> DEFINE p == [policy EXCEPT !.enabled = on, !.provider = provider,
                               !.consent = on /\ provider # "local" /\ consent]
<1>1. p \in [enabled : BOOLEAN, provider : Providers, consent : BOOLEAN,
             rev : 1..MaxRev, exceptions : SUBSET Urls]
  BY PolicyTyped
<1>2. p.exceptions = policy.exceptions
  BY PolicyTyped
<1>3. /\ ChangePolicy(p) /\ alive /\ rules' = rules /\ news' = news
      /\ hold' = IF UsesLocal(p) THEN EnsureRules(hold) ELSE ReleaseRules(hold, FALSE)
  BY DEF Configure, ChangePolicy
<1> HIDE DEF p
<1>4. hold' = HoldFor(p, TRUE)
  BY <1>3, PolicyTyped, HoldMoves
<1> QED BY <1>1, <1>2, <1>3, <1>4, PolicyTyped, ChangePolicyKeeps

(* The shell sets or removes a site exception.                              *)
LEMMA SetSiteEnabledKeeps ==
    ASSUME IInv, NEW url \in Urls, NEW on \in BOOLEAN, SetSiteEnabled(url, on)
    PROVE  IInv'
<1> DEFINE e == IF on THEN policy.exceptions \ {url} ELSE policy.exceptions \cup {url}
           p == [policy EXCEPT !.exceptions = e]
<1>1. /\ p \in [enabled : BOOLEAN, provider : Providers, consent : BOOLEAN,
                rev : 1..MaxRev, exceptions : SUBSET Urls]
      /\ p.exceptions = e /\ UsesLocal(p) = UsesLocal(policy)
  BY PolicyTyped DEF UsesLocal
<1>2. ChangePolicy(p) /\ alive /\ hold' = hold /\ rules' = rules /\ news' = news
  BY DEF SetSiteEnabled, ChangePolicy
<1>3. IsFiniteSet(e) /\ Cardinality(e) <= MaxExceptions
  <2>1. CASE on
    BY <2>1, PolicyTyped, PartFits, LimitsAssumption
  <2>2. CASE ~on /\ url \in policy.exceptions
    <3>1. e = policy.exceptions
      BY <2>2
    <3> QED BY <3>1, PolicyTyped
  <2>3. CASE ~on /\ Cardinality(policy.exceptions) < MaxExceptions
    BY <2>3, PolicyTyped, AddFits, LimitsAssumption
  <2> QED BY <2>1, <2>2, <2>3 DEF SetSiteEnabled
<1> HIDE DEF p, e
<1>4. hold' = HoldFor(p, TRUE)
  BY <1>1, <1>2, PolicyTyped, HoldTyped
<1> QED BY <1>1, <1>2, <1>3, <1>4, PolicyTyped, ChangePolicyKeeps

(* The subscriptions changed.                                               *)
LEMMA OnSourcesKeeps == ASSUME IInv, NEW r \in RuleStates, OnSources(r) PROVE IInv'
<1>1. /\ alive /\ news < MaxNews /\ news' = news + 1 /\ rules' = r /\ hold' = hold
  BY DEF OnSources
<1>2. news' \in 0..MaxNews
  BY <1>1, PolicyTyped, LimitsAssumption
<1>3. CASE UsesLocal(policy) /\ ChangePolicy(policy)
  BY <1>1, <1>2, <1>3, PolicyTyped, ChangePolicyKeeps
<1>4. CASE ~UsesLocal(policy) /\ UNCHANGED <<policy, pending, call, posted, cache, flights,
                                            timers, asked, ran, alive>>
  <2>1. TypeOK'
    BY <1>1, <1>2, <1>4 DEF IInv, TypeOK
  <2>2. Finite' /\ FlightsAllowed' /\ OnePlace' /\ PendingWaits' /\ ConsentRespected'
    BY <1>1, <1>4 DEF IInv, Finite, Held, FlightsAllowed, OnePlace, PendingWaits,
                      ConsentRespected, UsesCloud
  <2>3. ListedIsCaught' /\ HoldRight'
    BY <1>1, <1>4 DEF IInv, ListedIsCaught, HoldRight, UsesLocal
  <2> QED BY <2>1, <2>2, <2>3 DEF IInv
<1> QED BY <1>3, <1>4 DEF OnSources

(* New rules: all checks look at them, unless they are still loading and    *)
(* list no more than before.                                                *)
LEMMA OnRulesKeeps == ASSUME IInv, NEW r \in RuleStates, OnRules(r) PROVE IInv'
<1> DEFINE touched == OnRulesTouches(r)
           look(d) == CheckLocal([call[d] EXCEPT !.local = ~r.ready], policy, r)
           calls == [d \in Checks |-> IF d \in touched THEN look(d) ELSE call[d]]
<1>0. /\ TypeOK /\ Finite /\ OnePlace /\ pending \in SUBSET Checks
      /\ call \in [Checks -> CallRecord]
  BY DEF IInv, TypeOK, CallRecord
<1>1. /\ news < MaxNews /\ news' = news + 1 /\ rules' = r
      /\ r.loading => r.listed \subseteq rules.listed
      /\ MaybeComplete(touched, calls, pending)
      /\ UNCHANGED <<policy, hold, cache, flights, timers, asked, ran, alive>>
  BY DEF OnRules
<1>2. ASSUME NEW d \in Checks
      PROVE  /\ look(d) \in CallRecord /\ look(d).url = call[d].url
             /\ look(d).rev = call[d].rev /\ look(d).cloud = call[d].cloud
             /\ UsesLocal(policy) /\ call[d].url \in r.listed => Dangerous(look(d))
  <2> DEFINE k == [call[d] EXCEPT !.local = ~r.ready]
  <2>1. k \in CallRecord /\ k.url = call[d].url /\ k.rev = call[d].rev /\ k.cloud = call[d].cloud
    BY <1>0 DEF CallRecord
  <2>2. look(d) = CheckLocal(k, policy, r)
    OBVIOUS
  <2> HIDE DEF k, look
  <2> QED BY <2>1, <2>2, CheckLocalResult
<1> HIDE DEF look
<1>3. calls \in [Checks -> CallRecord]
  BY <1>0, <1>2
<1>4. ASSUME NEW d \in Checks
      PROVE  /\ calls[d].url = call[d].url /\ calls[d].rev = call[d].rev
             /\ calls[d].cloud = call[d].cloud
             /\ d \in touched /\ UsesLocal(policy) /\ call[d].url \in r.listed => Dangerous(calls[d])
             /\ d \notin touched => calls[d] = call[d]
  BY <1>2
<1> HIDE DEF calls
<1>5. /\ call' = calls /\ pending' \subseteq pending
      /\ posted' \in [Checks -> Nat]
      /\ \A d \in Checks : (IF d \in pending' THEN 1 ELSE 0) + posted'[d]
                             = (IF d \in pending THEN 1 ELSE 0) + posted[d]
      /\ \A d \in pending' : d \in touched => Waiting(calls[d])
  BY <1>0, <1>1, <1>3, MaybeCompleteMoves
<1>6. IsFiniteSet(pending') /\ Cardinality(pending') <= MaxPending
  BY <1>0, <1>5, PartFits, LimitsAssumption DEF Finite, TypeOK
<1>7. TypeOK'
  <2>1. news' \in 0..MaxNews
    BY <1>1, PolicyTyped, LimitsAssumption
  <2> QED BY <1>0, <1>1, <1>3, <1>5, <1>6, <2>1 DEF TypeOK, CallRecord
<1>8. Finite'
  BY <1>0, <1>1, <1>6 DEF Finite, Held
<1>9. OnePlace'
  BY <1>0, <1>1, <1>5, OnePlaceMoves
<1>10. FlightsAllowed' /\ HoldRight'
  BY <1>1 DEF IInv, FlightsAllowed, HoldRight, UsesCloud, UsesLocal
<1>11. ASSUME NEW d \in pending'
       PROVE  /\ d \in pending /\ d \in Checks /\ Waiting(call'[d]) /\ call'[d].url = call[d].url
              /\ call'[d].rev = call[d].rev /\ call'[d].cloud = call[d].cloud
  <2>1. d \in pending /\ d \in Checks /\ call' = calls
    BY <1>0, <1>5
  <2>2. Waiting(calls[d])
    <3>1. CASE d \in touched
      BY <1>5, <3>1
    <3>2. CASE d \notin touched
      <4>1. calls[d] = call[d]
        BY <1>4, <2>1, <3>2
      <4>2. Waiting(call[d])
        BY <2>1 DEF IInv, PendingWaits
      <4> QED BY <4>1, <4>2
    <3> QED BY <3>1, <3>2
  <2> QED BY <1>4, <2>1, <2>2
<1>12. PendingWaits'
  BY <1>1, <1>11 DEF IInv, PendingWaits, Waiting, Dangerous
<1>13. ConsentRespected'
  BY <1>1, <1>11 DEF IInv, ConsentRespected, UsesCloud
<1>14. ListedIsCaught'
  <2> SUFFICES ASSUME UsesLocal(policy), NEW d \in pending' PROVE call'[d].url \notin r.listed
    BY <1>1 DEF ListedIsCaught, UsesLocal
  <2>1. d \in pending /\ d \in Checks /\ call'[d].url = call[d].url
    BY <1>11
  <2>2. CASE r.loading
    BY <1>1, <2>1, <2>2 DEF IInv, ListedIsCaught
  <2>3. CASE ~r.loading
    <3>1. d \in touched
      BY <2>1, <2>3 DEF OnRulesTouches
    <3>2. Waiting(calls[d])
      BY <1>5, <3>1
    <3> QED BY <1>4, <2>1, <3>1, <3>2 DEF Waiting
  <2> QED BY <2>2, <2>3
<1> QED BY <1>7, <1>8, <1>9, <1>10, <1>12, <1>13, <1>14 DEF IInv

(* The profile closes.                                                      *)
LEMMA CloseKeeps == ASSUME IInv, Close PROVE IInv'
<1>0. TypeOK /\ Finite /\ OnePlace
  BY DEF IInv
<1>1. /\ pending' = {} /\ call' = call
      /\ posted' \in [Checks -> Nat]
      /\ \A d \in Checks : posted'[d] = (IF d \in pending THEN 1 ELSE 0) + posted[d]
  BY <1>0, CancelAllMoves DEF Close
<1>2. Cardinality({}) = 0 /\ IsFiniteSet({})
  BY FS_EmptySet
<1>3. HoldRight'
  <2>1. hold = HoldFor(policy, TRUE) /\ hold' = ReleaseRules(hold, TRUE) /\ policy' = policy /\ alive' = FALSE
    BY <1>0 DEF IInv, HoldRight, Close, TypeOK
  <2> QED BY <2>1, HoldMoves DEF HoldRight
<1>4. TypeOK'
  <2>1. Cardinality(pending') <= MaxPending
    BY <1>1, <1>2, LimitsAssumption
  <2>2. hold' \in [acquired : BOOLEAN, updater : Int, sources : Int]
    BY <1>3, HoldTyped DEF HoldRight, Close
  <2> QED BY <1>0, <1>1, <2>1, <2>2 DEF TypeOK, Close
<1>5. Finite'
  BY <1>0, <1>1, <1>2 DEF Finite, Held, Close
<1>6. OnePlace'
  <2>1. \A d \in Checks : (IF d \in pending' THEN 1 ELSE 0) + posted'[d]
                            = (IF d \in pending THEN 1 ELSE 0) + posted[d]
    BY <1>0, <1>1 DEF TypeOK
  <2> QED BY <1>0, <1>1, <2>1, OnePlaceMoves DEF Close
<1>7. FlightsAllowed' /\ PendingWaits' /\ ListedIsCaught'
  BY <1>1 DEF Close, FlightsAllowed, PendingWaits, ListedIsCaught
<1>8. ConsentRespected'
  BY <1>1 DEF IInv, Close, ConsentRespected, UsesCloud
<1> QED BY <1>3, <1>4, <1>5, <1>6, <1>7, <1>8 DEF IInv

-----------------------------------------------------------------------------
(* Theorems *)

(* Every handler, in any order, keeps the invariant.                        *)
LEMMA StepIInv == IInv /\ [Next]_vars => IInv'
<1> SUFFICES ASSUME IInv, [Next]_vars PROVE IInv'
  OBVIOUS
<1>1. ASSUME NEW c \in Checks, NEW url \in Urls, Check(c, url) PROVE IInv'
  BY <1>1, CheckKeeps
<1>2. ASSUME NEW c \in Checks, NEW url \in Urls, NEW late \in BOOLEAN, CheckNow(c, url, late)
      PROVE  IInv'
  BY <1>2, CheckNowKeeps
<1>3. ASSUME NEW c \in Checks, Timeout(c) \/ Cancel(c) \/ RunCallback(c) PROVE IInv'
  BY <1>3, TimeoutKeeps, CancelKeeps, RunCallbackKeeps
<1>4. ASSUME NEW f \in flights, NEW verdict \in Verdicts, OnCloud(f, verdict) PROVE IInv'
  BY <1>4, OnCloudKeeps
<1>5. ASSUME NEW url \in Urls, CacheExpires(url) PROVE IInv'
  BY <1>5, CacheExpiresKeeps
<1>6. ASSUME NEW url \in Urls, NEW on \in BOOLEAN, SetSiteEnabled(url, on) PROVE IInv'
  BY <1>6, SetSiteEnabledKeeps
<1>7. ASSUME NEW on \in BOOLEAN, NEW consent \in BOOLEAN, NEW provider \in Providers,
             Configure(on, provider, consent)
      PROVE  IInv'
  BY <1>7, ConfigureKeeps
<1>8. ASSUME NEW r \in RuleStates, OnSources(r) \/ OnRules(r) PROVE IInv'
  BY <1>8, OnSourcesKeeps, OnRulesKeeps
<1>9. ASSUME Close PROVE IInv'
  BY <1>9, CloseKeeps
<1>10. ASSUME UNCHANGED vars PROVE IInv'
  BY <1>10, TablesAlone DEF vars, IInv, TypeOK, OnePlace
<1> QED BY <1>1, <1>2, <1>3, <1>4, <1>5, <1>6, <1>7, <1>8, <1>9, <1>10 DEF Next

(* The invariant holds in every reachable state.                            *)
THEOREM Invariance == Spec => []IInv
  BY InitIInv, StepIInv, PTL DEF Spec

(* The members keep their types, and pending_, cache_ and site_exceptions_  *)
(* never exceed their limits, at which new entries are refused or evict an  *)
(* old one.                                                                 *)
THEOREM TablesWithinLimits == Spec => []TypeOK
  BY Invariance, PTL DEF IInv

(* However cloud replies, timeouts, cancellations, policy changes and the   *)
(* end of the profile race, a callback is never lost and never runs twice.  *)
THEOREM CallbacksInOnePlace == Spec => []OnePlace
  BY Invariance, PTL DEF IInv

(* A check in pending_ has its timeout posted, and the reply it waits for   *)
(* is on the way: what waits will be answered once tasks run.               *)
THEOREM WaitsForSomething == Spec => []PendingWaits
  BY Invariance, PTL DEF IInv

(* Nothing is asked of the cloud or remembered of it without consent: late  *)
(* replies of an earlier policy never reach the cache.                      *)
THEOREM ConsentAlwaysRespected == Spec => []ConsentRespected
  BY Invariance, PTL DEF IInv

(* New rules reach the checks that wait, also those waiting for the cloud.  *)
THEOREM ListedAlwaysCaught == Spec => []ListedIsCaught
  BY Invariance, PTL DEF IInv

(* EnsureRules, Configure and the destructor keep Acquire and Release in    *)
(* balance: for any sequence of settings, checks and site exceptions the    *)
(* service holds the updater and the sources once each while its policy     *)
(* uses local rules, and neither otherwise or after the profile closed.     *)
THEOREM RulesHeldExactly == Spec => []RulesHeld
<1>1. IInv => RulesHeld
  BY DEF IInv, HoldRight, HoldFor, RulesHeld
<1> QED BY Invariance, <1>1, PTL

-----------------------------------------------------------------------------
(* The service implements RequestReply *)

(* What the caller sees of a step that makes no check and runs no callback. *)
LEMMA PhaseAlone == ASSUME ran' = ran, asked' = asked PROVE Phase' = Phase
  BY DEF Phase

(* A check that is made is asked, whether it is answered at once or later.  *)
LEMMA CheckAsks ==
    ASSUME IInv, NEW c \in Checks, c \notin asked, asked' = asked \cup {c}, ran' = ran
    PROVE  Promise!Ask(c)
<1>1. ran[c] = 0
  <2>1. posted[c] \in Nat /\ ran[c] \in Nat
    BY DEF IInv, TypeOK
  <2> QED BY <2>1 DEF IInv, OnePlace
<1>2. Phase[c] = "idle"
  BY <1>1 DEF Phase
<1>3. ASSUME NEW d \in Checks PROVE Phase'[d] = IF d = c THEN "asked" ELSE Phase[d]
  <2>1. CASE d = c
    BY <1>1, <2>1 DEF Phase
  <2>2. CASE d # c
    <3>1. ran'[d] = ran[d] /\ (d \in asked' <=> d \in asked)
      BY <2>2
    <3> QED BY <2>2, <3>1 DEF Phase
  <2> QED BY <2>1, <2>2
<1>4. Phase' = [Phase EXCEPT ![c] = "asked"]
  BY <1>3 DEF Phase
<1> QED BY <1>2, <1>4 DEF Promise!Ask

(* The callback that runs is the answer, and the first one.                 *)
LEMMA RunCallbackAnswers ==
    ASSUME IInv, NEW c \in Checks, RunCallback(c)
    PROVE  Promise!Answer(c)
<1>1. posted[c] > 0 /\ posted[c] \in Nat /\ ran \in [Checks -> Nat]
  BY DEF IInv, TypeOK, RunCallback
<1>2. ran[c] = 0 /\ c \in asked
  BY <1>1 DEF IInv, OnePlace
<1>3. /\ ran'[c] = 1 /\ \A d \in Checks \ {c} : ran'[d] = ran[d]
      /\ asked' = asked
  BY <1>1, <1>2 DEF RunCallback
<1>4. Phase[c] = "asked"
  BY <1>2 DEF Phase
<1>5. ASSUME NEW d \in Checks PROVE Phase'[d] = IF d = c THEN "answered" ELSE Phase[d]
  <2>1. CASE d = c
    BY <1>3, <2>1 DEF Phase
  <2>2. CASE d # c
    <3>1. ran'[d] = ran[d] /\ (d \in asked' <=> d \in asked)
      BY <1>3, <2>2
    <3> QED BY <2>2, <3>1 DEF Phase
  <2> QED BY <2>1, <2>2
<1>6. Phase' = [Phase EXCEPT ![c] = "answered"]
  BY <1>5 DEF Phase
<1> QED BY <1>4, <1>6 DEF Promise!Answer

(* Every step asks for one answer, gives one, or is not seen by a caller.   *)
LEMMA StepPromise == IInv /\ [Next]_vars => [Promise!Next]_Phase
<1> SUFFICES ASSUME IInv, [Next]_vars PROVE Promise!Next \/ Phase' = Phase
  OBVIOUS
<1>1. ASSUME NEW c \in Checks, NEW url \in Urls,
             Check(c, url) \/ \E late \in BOOLEAN : CheckNow(c, url, late)
      PROVE  Promise!Next
  BY <1>1, CheckAsks DEF Check, CheckNow, Promise!Next
<1>2. ASSUME NEW c \in Checks, RunCallback(c) PROVE Promise!Next
  BY <1>2, RunCallbackAnswers DEF Promise!Next
<1>3. ASSUME ran' = ran, asked' = asked PROVE Phase' = Phase
  BY <1>3, PhaseAlone
<1>4. ASSUME NEW c \in Checks, Timeout(c) \/ Cancel(c) PROVE Phase' = Phase
  BY <1>3, <1>4 DEF Timeout, Cancel
<1>5. ASSUME NEW f \in flights, NEW verdict \in Verdicts, OnCloud(f, verdict) PROVE Phase' = Phase
  BY <1>3, <1>5 DEF OnCloud
<1>6. ASSUME NEW url \in Urls, CacheExpires(url) \/ \E on \in BOOLEAN : SetSiteEnabled(url, on)
      PROVE  Phase' = Phase
  BY <1>3, <1>6 DEF CacheExpires, SetSiteEnabled, ChangePolicy
<1>7. ASSUME NEW on \in BOOLEAN, NEW consent \in BOOLEAN, NEW provider \in Providers,
             Configure(on, provider, consent)
      PROVE  Phase' = Phase
  BY <1>3, <1>7 DEF Configure, ChangePolicy
<1>8. ASSUME NEW r \in RuleStates, OnSources(r) \/ OnRules(r) PROVE Phase' = Phase
  BY <1>3, <1>8 DEF OnSources, OnRules, ChangePolicy
<1>9. ASSUME Close \/ UNCHANGED vars PROVE Phase' = Phase
  BY <1>3, <1>9 DEF Close, vars
<1> QED BY <1>1, <1>2, <1>4, <1>5, <1>6, <1>7, <1>8, <1>9 DEF Next

(* The check service implements RequestReply: a check is answered at most   *)
(* once, later than it was made, and one step answers one check.            *)
THEOREM ImplementsRequestReply == Spec => AnsweredOnce
<1>1. Init => Promise!Init
  BY DEF Init, Promise!Init, Phase
<1> QED BY Invariance, <1>1, StepPromise, PTL DEF Spec, AnsweredOnce, Promise!Spec
=============================================================================
