------------------------ MODULE SystemServiceBridge ------------------------
(***************************************************************************)
(* The request channel from Chromium to the services that exist only in    *)
(* ArkTS: class Bridge of                                                  *)
(* overlay/components/ohos_system_service/system_service_ohos.cc, and the  *)
(* N-API end of it in overlay/arkweb/ohos_nweb/src/aura_shell/             *)
(* ohos_aura_shell_napi.cc that registers, releases and picks the ArkTS    *)
(* handler.                                                                *)
(*                                                                         *)
(* Calls come from any sequence.  A section under Bridge::lock_ or the     *)
(* mutex of the handler table is one action, what follows it is another:   *)
(* the dispatcher that Call copied may be gone when it runs.  Handlers are *)
(* registered and released on the ArkTS main thread only, one at a time.   *)
(***************************************************************************)
EXTENDS Integers

CONSTANTS Calls,      \* the calls that are ever made; each has its own id
          Bounded,    \* those made with CallWithTimeout
          Handlers,   \* the component ids that register a handler
          Main,       \* "aura_shell", preferred when it is registered
          Refused,    \* the calls that napi_call_threadsafe_function may refuse
          MaxSets     \* handler registrations

ASSUME BoundedAssumption == Bounded \subseteq Calls /\ Refused \subseteq Calls
ASSUME MaxSetsAssumption == MaxSets \in Nat

VARIABLES
    dispatcher,   \* dispatcher_ is not null
    pending,      \* the calls in pending_
    posted,       \* per call, reply tasks posted to its sequence
    ran,          \* per call, how often its reply callback ran
    call,         \* per call: "idle", "sending" (past the lock), "made"
    timer,        \* the calls whose timeout task is posted
    functions,    \* SystemServiceFunctions()
    main,         \* the main thread: "idle", "registered" or "released"
    sent,         \* per call, the handler that holds the request, or "none",
                  \* "gone" (its handler was released), "answered"
    sets          \* registrations so far

vars == <<dispatcher, pending, posted, ran, call, timer, functions, main, sent, sets>>

None == "none"

Init ==
    /\ dispatcher = FALSE
    /\ pending = {}
    /\ posted = [c \in Calls |-> 0]
    /\ ran = [c \in Calls |-> 0]
    /\ call = [c \in Calls |-> "idle"]
    /\ timer = {}
    /\ functions = {}
    /\ main = "idle"
    /\ sent = [c \in Calls |-> None]
    /\ sets = 0

-----------------------------------------------------------------------------
(* Bridge *)

(* Mutant: the reply is posted although somebody else already took it.      *)
Complete_NoLookup(c) ==
    /\ pending' = pending \ {c}
    /\ posted' = [posted EXCEPT ![c] = @ + 1]

(* Only who takes the call out of pending_ posts its reply.                 *)
Complete(c) ==
    /\ pending' = pending \ {c}
    /\ posted' = [posted EXCEPT ![c] = IF c \in pending THEN @ + 1 ELSE @]

(* The section of Call under the lock.  Without a dispatcher the reply is   *)
(* an error, posted at once.                                                *)
Call(c) ==
    /\ call[c] = "idle"
    /\ \/ /\ dispatcher
          /\ pending' = pending \cup {c}
          /\ call' = [call EXCEPT ![c] = "sending"]
          /\ UNCHANGED posted
       \/ /\ ~dispatcher
          /\ posted' = [posted EXCEPT ![c] = @ + 1]
          /\ call' = [call EXCEPT ![c] = "made"]
          /\ UNCHANGED pending
    /\ UNCHANGED <<dispatcher, ran, timer, functions, main, sent, sets>>

(* Mutant: nobody ends a call that is never answered.                       *)
Made_NoTimer(c) ==
    /\ call' = [call EXCEPT ![c] = "made"]
    /\ UNCHANGED timer

(* CallWithTimeout posts its timeout when Call returned an id.              *)
Made(c) ==
    /\ call' = [call EXCEPT ![c] = "made"]
    /\ timer' = IF c \in Bounded THEN timer \cup {c} ELSE timer

(* The rest of Call: the request goes to the handler of the main component, *)
(* else to any; it is dropped when the table has become empty meanwhile, or *)
(* when the handler's queue refuses it.                                     *)
DispatchSystemServiceRequest(c) ==
    /\ call[c] = "sending"
    /\ Made(c)
    /\ \/ \E h \in IF Main \in functions THEN {Main} ELSE functions :
             sent' = [sent EXCEPT ![c] = h]
       \/ /\ functions = {} \/ c \in Refused
          /\ UNCHANGED sent
    /\ UNCHANGED <<dispatcher, pending, posted, ran, functions, main, sets>>

(* The request cannot be written as JSON: no id is returned.                *)
CallUnencodable(c) ==
    /\ call[c] = "sending"
    /\ call' = [call EXCEPT ![c] = "made"]
    /\ Complete(c)
    /\ UNCHANGED <<dispatcher, ran, timer, functions, main, sent, sets>>

(* The timeout task; CancelCall by the caller does the same.                *)
Timeout(c) ==
    /\ c \in timer
    /\ timer' = timer \ {c}
    /\ Complete(c)
    /\ UNCHANGED <<dispatcher, ran, call, functions, main, sent, sets>>

CancelCall(c) ==
    /\ c \in Bounded /\ call[c] = "made" /\ c \in pending
    /\ Complete(c)
    /\ UNCHANGED <<dispatcher, ran, call, timer, functions, main, sent, sets>>

(* ArkTS answers a request once; one that its released handler had begun    *)
(* may still be answered.                                                   *)
DeliverMessage(c) ==
    /\ sent[c] \in Handlers \cup {"gone"}
    /\ sent' = [sent EXCEPT ![c] = "answered"]
    /\ Complete(c)
    /\ UNCHANGED <<dispatcher, ran, call, timer, functions, main, sets>>

RunReply(c) ==
    /\ posted[c] > 0
    /\ posted' = [posted EXCEPT ![c] = @ - 1]
    /\ ran' = [ran EXCEPT ![c] = @ + 1]
    /\ UNCHANGED <<dispatcher, pending, call, timer, functions, main, sent, sets>>

-----------------------------------------------------------------------------
(* The main thread *)

(* A component that is registered already keeps its first handler.          *)
RegisterSystemServiceFunction(h) ==
    /\ main = "idle" /\ sets < MaxSets
    /\ h \notin functions
    /\ functions' = functions \cup {h}
    /\ main' = "registered"
    /\ sets' = sets + 1
    /\ UNCHANGED <<dispatcher, pending, posted, ran, call, timer, sent>>

(* The handler's queue is discarded with it.  The dispatcher is removed     *)
(* only with the last handler.                                              *)
ReleaseSystemServiceFunction(h) ==
    /\ main = "idle"
    /\ h \in functions
    /\ functions' = functions \ {h}
    /\ sent' = [c \in Calls |-> IF sent[c] = h THEN "gone" ELSE sent[c]]
    /\ main' = IF functions' = {} THEN "released" ELSE "idle"
    /\ UNCHANGED <<dispatcher, pending, posted, ran, call, timer, sets>>

(* Mutant: the calls that nobody will answer are forgotten.                 *)
SetDispatcher_Forgets(on) ==
    /\ dispatcher' = on
    /\ pending' = IF on THEN pending ELSE {}
    /\ UNCHANGED posted

(* Mutant: calls outlive the dispatcher they were made through.             *)
SetDispatcher_Keeps(on) ==
    /\ dispatcher' = on
    /\ UNCHANGED <<pending, posted>>

(* A null dispatcher answers everything outstanding with an error.          *)
SetDispatcher(on) ==
    /\ dispatcher' = on
    /\ pending' = IF on THEN pending ELSE {}
    /\ posted' = [c \in Calls |-> IF ~on /\ c \in pending THEN posted[c] + 1 ELSE posted[c]]

FinishMain ==
    /\ main # "idle"
    /\ SetDispatcher(main = "registered")
    /\ main' = "idle"
    /\ UNCHANGED <<ran, call, timer, functions, sent, sets>>

Next ==
    \/ \E c \in Calls :
          \/ Call(c) \/ DispatchSystemServiceRequest(c) \/ CallUnencodable(c)
          \/ Timeout(c) \/ CancelCall(c) \/ DeliverMessage(c) \/ RunReply(c)
    \/ \E h \in Handlers : RegisterSystemServiceFunction(h) \/ ReleaseSystemServiceFunction(h)
    \/ FinishMain

Spec == Init /\ [][Next]_vars

(* Tasks that are posted run, timers fire, and ArkTS answers what reached a *)
(* handler that stays.                                                      *)
Answers(c) == sent[c] \in Handlers /\ DeliverMessage(c)
Fairness ==
    /\ WF_vars(FinishMain)
    /\ \A c \in Calls : /\ WF_vars(DispatchSystemServiceRequest(c)) /\ WF_vars(RunReply(c))
                        /\ WF_vars(Timeout(c)) /\ WF_vars(Answers(c))
FairSpec == Spec /\ Fairness

-----------------------------------------------------------------------------
(* Properties *)

(* Every variable has the type its users keep it in.                        *)
TypeOK ==
    /\ dispatcher \in BOOLEAN
    /\ pending \subseteq Calls
    /\ posted \in [Calls -> Nat]
    /\ ran \in [Calls -> Nat]
    /\ call \in [Calls -> {"idle", "sending", "made"}]
    /\ timer \subseteq Calls
    /\ functions \subseteq Handlers
    /\ main \in {"idle", "registered", "released"}
    /\ sent \in [Calls -> Handlers \cup {None, "gone", "answered"}]
    /\ sets \in 0..MaxSets

(* The callback of a call is in one place: in pending_, in a posted task,   *)
(* or it ran.  So it runs at most once however answer, timeout,             *)
(* cancellation and the loss of the dispatcher race, and it is never lost.  *)
OnePlace ==
    \A c \in Calls :
        (IF c \in pending THEN 1 ELSE 0) + posted[c] + ran[c] = IF call[c] = "idle" THEN 0 ELSE 1

(* Without a dispatcher no call is left waiting for it.                     *)
NobodyStranded == ~dispatcher => pending = {}

(* The caller's view: asked once the lock was taken, answered once the      *)
(* callback ran.                                                            *)
Phase == [c \in Calls |-> IF ran[c] > 1 THEN "answered again"
                          ELSE IF ran[c] = 1 THEN "answered"
                          ELSE IF call[c] # "idle" THEN "asked" ELSE "idle"]
Promise == INSTANCE RequestReply WITH Requests <- Calls, phase <- Phase

(* The bridge implements the promise of exactly one answer.                 *)
AnsweredOnce == Promise!Spec

(* A call with a timeout is always answered.                                *)
BoundedAnswered == \A c \in Bounded : call[c] # "idle" ~> ran[c] = 1

(* Every call is answered, as the header promises of Call.                  *)
EveryCallAnswered == \A c \in Calls : call[c] # "idle" ~> ran[c] = 1
=============================================================================
