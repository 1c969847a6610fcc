---------------------------- MODULE RequestReply ----------------------------
(***************************************************************************)
(* What a caller is promised by a service that takes a callback: a request *)
(* is answered at most once, only after it was made, and never inside the  *)
(* call that made it; with fairness, it is answered.  The comments that    *)
(* promise it: components/ohos_system_service/system_service_ohos.h        *)
(* ("exactly once") and url_protection.h ("always completes                *)
(* asynchronously").                                                       *)
(***************************************************************************)
CONSTANT Requests

VARIABLE phase    \* per request: "idle", "asked" or "answered"

TypeOK == phase \in [Requests -> {"idle", "asked", "answered"}]

Init == phase = [r \in Requests |-> "idle"]

Ask(r) == phase[r] = "idle" /\ phase' = [phase EXCEPT ![r] = "asked"]

Answer(r) == phase[r] = "asked" /\ phase' = [phase EXCEPT ![r] = "answered"]

(* One step may ask or answer only one request.                             *)
Next == \E r \in Requests : Ask(r) \/ Answer(r)

Spec == Init /\ [][Next]_phase
=============================================================================
