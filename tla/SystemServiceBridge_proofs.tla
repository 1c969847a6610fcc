--------------------- MODULE SystemServiceBridge_proofs ---------------------
(***************************************************************************)
(* Theorems about SystemServiceBridge, for any set of calls and handlers.  *)
(* IInv is inductive as it stands: OnePlace says where each callback is,   *)
(* TypeOK makes its sum arithmetic, and NobodyStranded is independent.     *)
(***************************************************************************)
EXTENDS SystemServiceBridge, TLAPS

IInv == TypeOK /\ OnePlace /\ NobodyStranded

(* Completing a call moves its callback from pending_ to a posted task and  *)
(* leaves every other one alone.                                            *)
LEMMA CompleteMoves ==
    ASSUME TypeOK, NEW c \in Calls, Complete(c)
    PROVE  /\ pending' \subseteq pending
           /\ posted' \in [Calls -> Nat]
           /\ \A d \in Calls : (IF d \in pending' THEN 1 ELSE 0) + posted'[d]
                                 = (IF d \in pending THEN 1 ELSE 0) + posted[d]
<1>1. pending' = pending \ {c} /\ posted \in [Calls -> Nat]
  BY DEF Complete, TypeOK
<1>2. posted' = [posted EXCEPT ![c] = IF c \in pending THEN @ + 1 ELSE @]
  BY DEF Complete
<1>3. posted' \in [Calls -> Nat]
  BY <1>1, <1>2
<1>4. ASSUME NEW d \in Calls
      PROVE  (IF d \in pending' THEN 1 ELSE 0) + posted'[d]
               = (IF d \in pending THEN 1 ELSE 0) + posted[d]
  <2>1. CASE d = c
    BY <1>1, <1>2, <2>1
  <2>2. CASE d # c
    BY <1>1, <1>2, <2>2
  <2> QED BY <2>1, <2>2
<1> QED BY <1>1, <1>3, <1>4

(* Init establishes the invariant: nothing was called.                      *)
LEMMA InitIInv == Init => IInv
<1> SUFFICES ASSUME Init PROVE IInv
  OBVIOUS
<1>1. TypeOK
  <2>1. posted \in [Calls -> Nat] /\ ran \in [Calls -> Nat]
    BY DEF Init
  <2>2. call \in [Calls -> {"idle", "sending", "made"}]
    BY DEF Init
  <2>3. sent \in [Calls -> Handlers \cup {None, "gone", "answered"}]
    BY DEF Init
  <2>4. sets \in 0..MaxSets
    BY MaxSetsAssumption DEF Init
  <2> QED BY <2>1, <2>2, <2>3, <2>4 DEF Init, TypeOK
<1>2. OnePlace
  <2> SUFFICES ASSUME NEW c \in Calls
               PROVE  (IF c \in pending THEN 1 ELSE 0) + posted[c] + ran[c]
                        = IF call[c] = "idle" THEN 0 ELSE 1
    BY DEF OnePlace
  <2>1. c \notin pending /\ posted[c] = 0 /\ ran[c] = 0 /\ call[c] = "idle"
    BY DEF Init
  <2> QED BY <2>1
<1>3. NobodyStranded
  BY DEF Init, NobodyStranded
<1> QED BY <1>1, <1>2, <1>3 DEF IInv

(* Every step of Call, answer, timeout, cancellation, reply, registration   *)
(* and release keeps the types.                                             *)
LEMMA StepTypeOK == TypeOK /\ OnePlace /\ [Next]_vars => TypeOK'
<1> SUFFICES ASSUME TypeOK, OnePlace, [Next]_vars PROVE TypeOK'
  OBVIOUS
<1> USE MaxSetsAssumption
<1>1. ASSUME NEW c \in Calls, Call(c) PROVE TypeOK'
  BY <1>1 DEF Call, TypeOK
<1>2. ASSUME NEW c \in Calls, DispatchSystemServiceRequest(c) PROVE TypeOK'
  <2>1. sent' = sent \/ \E h \in Handlers : sent' = [sent EXCEPT ![c] = h]
    BY <1>2 DEF DispatchSystemServiceRequest, TypeOK
  <2>2. sent' \in [Calls -> Handlers \cup {None, "gone", "answered"}]
    BY <2>1 DEF TypeOK
  <2> QED BY <1>2, <2>2 DEF DispatchSystemServiceRequest, Made, TypeOK
<1>3. ASSUME NEW c \in Calls, CallUnencodable(c) PROVE TypeOK'
  BY <1>3, CompleteMoves DEF CallUnencodable, TypeOK
<1>4. ASSUME NEW c \in Calls, Timeout(c) PROVE TypeOK'
  BY <1>4, CompleteMoves DEF Timeout, TypeOK
<1>5. ASSUME NEW c \in Calls, CancelCall(c) PROVE TypeOK'
  BY <1>5, CompleteMoves DEF CancelCall, TypeOK
<1>6. ASSUME NEW c \in Calls, DeliverMessage(c) PROVE TypeOK'
  BY <1>6, CompleteMoves DEF DeliverMessage, TypeOK
<1>7. ASSUME NEW c \in Calls, RunReply(c) PROVE TypeOK'
  BY <1>7 DEF RunReply, TypeOK
<1>8. ASSUME NEW h \in Handlers, RegisterSystemServiceFunction(h) PROVE TypeOK'
  BY <1>8 DEF RegisterSystemServiceFunction, TypeOK
<1>9. ASSUME NEW h \in Handlers, ReleaseSystemServiceFunction(h) PROVE TypeOK'
  BY <1>9 DEF ReleaseSystemServiceFunction, TypeOK
<1>10. ASSUME FinishMain PROVE TypeOK'
  <2>1. posted' \in [Calls -> Nat]
    BY <1>10 DEF FinishMain, SetDispatcher, TypeOK
  <2>2. dispatcher' \in BOOLEAN
    BY <1>10 DEF FinishMain, SetDispatcher
  <2> QED BY <1>10, <2>1, <2>2 DEF FinishMain, SetDispatcher, TypeOK
<1>11. ASSUME UNCHANGED vars PROVE TypeOK'
  BY <1>11 DEF vars, TypeOK
<1> QED BY <1>1, <1>2, <1>3, <1>4, <1>5, <1>6, <1>7, <1>8, <1>9, <1>10, <1>11 DEF Next

(* No step duplicates or loses a callback.                                  *)
LEMMA StepOnePlace == TypeOK /\ OnePlace /\ [Next]_vars => OnePlace'
<1> SUFFICES ASSUME TypeOK, OnePlace, [Next]_vars, NEW d \in Calls
             PROVE  (IF d \in pending' THEN 1 ELSE 0) + posted'[d] + ran'[d]
                      = IF call'[d] = "idle" THEN 0 ELSE 1
  BY DEF OnePlace
<1> DEFINE At == (IF d \in pending THEN 1 ELSE 0) + posted[d] + ran[d]
           Due == IF call[d] = "idle" THEN 0 ELSE 1
<1>0. At = Due /\ posted[d] \in Nat /\ ran[d] \in Nat
  BY DEF OnePlace, TypeOK
<1>a. ASSUME NEW c \in Calls, Complete(c), ran' = ran,
             \A e \in Calls : call[e] = "idle" <=> call'[e] = "idle"
      PROVE  At' = Due'
  <2>1. posted'[d] \in Nat
    BY <1>a, CompleteMoves
  <2>2. (IF d \in pending' THEN 1 ELSE 0) + posted'[d]
          = (IF d \in pending THEN 1 ELSE 0) + posted[d]
    BY <1>a, CompleteMoves
  <2> QED BY <1>0, <1>a, <2>1, <2>2
<1>1. ASSUME NEW c \in Calls, Call(c) PROVE At' = Due'
  <2>1. CASE d = c
    <3>1. call[d] = "idle" /\ call'[d] # "idle" /\ ran' = ran
      BY <1>1, <2>1 DEF Call, TypeOK
    <3>2. d \notin pending /\ posted[d] = 0 /\ ran[d] = 0
      BY <1>0, <3>1
    <3>3. \/ d \in pending' /\ posted' = posted
          \/ pending' = pending /\ posted'[d] = 1
      BY <1>1, <2>1, <3>2 DEF Call, TypeOK
    <3> QED BY <3>1, <3>2, <3>3
  <2>2. CASE d # c
    BY <1>0, <1>1, <2>2 DEF Call, TypeOK
  <2> QED BY <2>1, <2>2
<1>2. ASSUME NEW c \in Calls, DispatchSystemServiceRequest(c) PROVE At' = Due'
  BY <1>0, <1>2 DEF DispatchSystemServiceRequest, Made, TypeOK
<1>3. ASSUME NEW c \in Calls, CallUnencodable(c) PROVE At' = Due'
  <2>1. \A e \in Calls : call[e] = "idle" <=> call'[e] = "idle"
    BY <1>3 DEF CallUnencodable, TypeOK
  <2> QED BY <1>3, <1>a, <2>1 DEF CallUnencodable
<1>4. ASSUME NEW c \in Calls, Timeout(c) PROVE At' = Due'
  BY <1>4, <1>a DEF Timeout
<1>5. ASSUME NEW c \in Calls, CancelCall(c) PROVE At' = Due'
  BY <1>5, <1>a DEF CancelCall
<1>6. ASSUME NEW c \in Calls, DeliverMessage(c) PROVE At' = Due'
  BY <1>6, <1>a DEF DeliverMessage
<1>7. ASSUME NEW c \in Calls, RunReply(c) PROVE At' = Due'
  <2>1. CASE d = c
    BY <1>0, <1>7, <2>1 DEF RunReply, TypeOK
  <2>2. CASE d # c
    BY <1>0, <1>7, <2>2 DEF RunReply, TypeOK
  <2> QED BY <2>1, <2>2
<1>8. ASSUME NEW h \in Handlers, RegisterSystemServiceFunction(h) PROVE At' = Due'
  BY <1>0, <1>8 DEF RegisterSystemServiceFunction
<1>9. ASSUME NEW h \in Handlers, ReleaseSystemServiceFunction(h) PROVE At' = Due'
  BY <1>0, <1>9 DEF ReleaseSystemServiceFunction
<1>10. ASSUME FinishMain PROVE At' = Due'
  <2>1. CASE main = "registered"
    BY <1>0, <1>10, <2>1 DEF FinishMain, SetDispatcher, TypeOK
  <2>2. CASE main # "registered" /\ d \in pending
    BY <1>0, <1>10, <2>2 DEF FinishMain, SetDispatcher, TypeOK
  <2>3. CASE main # "registered" /\ d \notin pending
    BY <1>0, <1>10, <2>3 DEF FinishMain, SetDispatcher, TypeOK
  <2> QED BY <2>1, <2>2, <2>3
<1>11. ASSUME UNCHANGED vars PROVE At' = Due'
  BY <1>0, <1>11 DEF vars
<1> QED BY <1>1, <1>2, <1>3, <1>4, <1>5, <1>6, <1>7, <1>8, <1>9, <1>10, <1>11 DEF Next

(* Calls enter pending_ only while there is a dispatcher, and leave it with *)
(* the dispatcher at the latest.                                            *)
LEMMA StepNobodyStranded == TypeOK /\ NobodyStranded /\ [Next]_vars => NobodyStranded'
<1> SUFFICES ASSUME TypeOK, NobodyStranded, [Next]_vars PROVE NobodyStranded'
  OBVIOUS
<1>1. ASSUME NEW c \in Calls, Call(c) PROVE NobodyStranded'
  BY <1>1 DEF Call, NobodyStranded
<1>2. ASSUME NEW c \in Calls, Complete(c), dispatcher' = dispatcher PROVE NobodyStranded'
  BY <1>2 DEF Complete, NobodyStranded
<1>3. ASSUME dispatcher' = dispatcher, pending' = pending PROVE NobodyStranded'
  BY <1>3 DEF NobodyStranded
<1>4. ASSUME FinishMain PROVE NobodyStranded'
  BY <1>4 DEF FinishMain, SetDispatcher, NobodyStranded
<1> QED BY <1>1, <1>2, <1>3, <1>4
        DEF Next, vars, DispatchSystemServiceRequest, CallUnencodable, Timeout, CancelCall,
            DeliverMessage, RunReply, RegisterSystemServiceFunction,
            ReleaseSystemServiceFunction

(* The invariant holds in every reachable state.                            *)
THEOREM Invariance == Spec => []IInv
<1>1. IInv /\ [Next]_vars => IInv'
  BY StepTypeOK, StepOnePlace, StepNobodyStranded DEF IInv
<1> QED BY InitIInv, <1>1, PTL DEF Spec

(* However answer, timeout, cancellation and the loss of the dispatcher     *)
(* race in system_service_ohos.cc, a reply callback is never run twice and  *)
(* never dropped by the bridge.                                             *)
THEOREM CallbacksInOnePlace == Spec => []OnePlace
  BY Invariance, PTL DEF IInv

(* SetDispatcher(null) leaves no call behind, and none is added after it.   *)
THEOREM NoneStranded == Spec => []NobodyStranded
  BY Invariance, PTL DEF IInv

(* A step of the bridge asks for one answer, gives one answer, or leaves    *)
(* the caller's view alone.                                                 *)
LEMMA StepPromise == IInv /\ [Next]_vars => [Promise!Next]_Phase
<1> SUFFICES ASSUME IInv, [Next]_vars PROVE Promise!Next \/ Phase' = Phase
  OBVIOUS
<1>0. TypeOK /\ OnePlace
  BY DEF IInv
<1>a. ASSUME ran' = ran, \A e \in Calls : call[e] = "idle" <=> call'[e] = "idle"
      PROVE  Phase' = Phase
  BY <1>a DEF Phase
<1>1. ASSUME NEW c \in Calls, Call(c) PROVE Promise!Next
  <2>1. ran' = ran /\ ran[c] \in Nat
    BY <1>0, <1>1 DEF Call, TypeOK
  <2>2. ran[c] = 0
    <3>1. posted[c] \in Nat
      BY <1>0 DEF TypeOK
    <3> QED BY <1>0, <1>1, <2>1, <3>1 DEF Call, OnePlace
  <2>3. call[c] = "idle" /\ call'[c] # "idle" /\ \A e \in Calls \ {c} : call'[e] = call[e]
    BY <1>0, <1>1 DEF Call, TypeOK
  <2>4. Phase[c] = "idle"
    BY <2>2, <2>3 DEF Phase
  <2>5. ASSUME NEW e \in Calls PROVE Phase'[e] = IF e = c THEN "asked" ELSE Phase[e]
    <3>1. CASE e = c
      BY <2>1, <2>2, <2>3, <3>1 DEF Phase
    <3>2. CASE e # c
      <4>1. ran'[e] = ran[e] /\ call'[e] = call[e]
        BY <2>1, <2>3, <3>2
      <4> QED BY <3>2, <4>1 DEF Phase
    <3> QED BY <3>1, <3>2
  <2>6. Phase' = [Phase EXCEPT ![c] = "asked"]
    BY <2>5 DEF Phase
  <2> QED BY <2>4, <2>6 DEF Promise!Next, Promise!Ask
<1>2. ASSUME NEW c \in Calls, DispatchSystemServiceRequest(c) PROVE Phase' = Phase
  <2>1. \A e \in Calls : call[e] = "idle" <=> call'[e] = "idle"
    BY <1>0, <1>2 DEF DispatchSystemServiceRequest, Made, TypeOK
  <2> QED BY <1>2, <1>a, <2>1 DEF DispatchSystemServiceRequest
<1>3. ASSUME NEW c \in Calls, CallUnencodable(c) PROVE Phase' = Phase
  <2>1. \A e \in Calls : call[e] = "idle" <=> call'[e] = "idle"
    BY <1>0, <1>3 DEF CallUnencodable, TypeOK
  <2> QED BY <1>3, <1>a, <2>1 DEF CallUnencodable
<1>4. ASSUME NEW c \in Calls, RunReply(c) PROVE Promise!Next
  <2>1. posted[c] > 0 /\ posted[c] \in Nat /\ ran[c] \in Nat
    BY <1>0, <1>4 DEF RunReply, TypeOK
  <2>2. ran[c] = 0 /\ call[c] # "idle"
    BY <1>0, <2>1 DEF OnePlace
  <2>3. ran' = [ran EXCEPT ![c] = 1] /\ call' = call
    BY <1>4, <2>2 DEF RunReply
  <2>4. ran'[c] = 1 /\ \A e \in Calls \ {c} : ran'[e] = ran[e]
    BY <1>0, <2>3 DEF TypeOK
  <2>5. Phase[c] = "asked"
    BY <2>2 DEF Phase
  <2>6. ASSUME NEW e \in Calls PROVE Phase'[e] = IF e = c THEN "answered" ELSE Phase[e]
    <3>1. CASE e = c
      BY <2>4, <3>1 DEF Phase
    <3>2. CASE e # c
      <4>1. ran'[e] = ran[e] /\ call'[e] = call[e]
        BY <2>3, <2>4, <3>2
      <4> QED BY <3>2, <4>1 DEF Phase
    <3> QED BY <3>1, <3>2
  <2>7. Phase' = [Phase EXCEPT ![c] = "answered"]
    BY <2>6 DEF Phase
  <2> QED BY <2>5, <2>7 DEF Promise!Next, Promise!Answer
<1> QED BY <1>a, <1>1, <1>2, <1>3, <1>4
        DEF Next, vars, Timeout, CancelCall, DeliverMessage, FinishMain,
            RegisterSystemServiceFunction, ReleaseSystemServiceFunction

(* The bridge implements RequestReply: its callers see each call answered   *)
(* at most once, and only after it was made.                                *)
THEOREM ImplementsRequestReply == Spec => AnsweredOnce
<1>1. Init => Promise!Init
  BY DEF Init, Promise!Init, Phase
<1> QED BY Invariance, <1>1, StepPromise, PTL DEF Spec, AnsweredOnce, Promise!Spec
=============================================================================
