-------------------------- MODULE ForkServer_proofs --------------------------
(***************************************************************************)
(* Proofs about ForkServer for every set of PIDs and slots and all bounds. *)
(* IInv is the inductive invariant; each of its parts says which promise   *)
(* needs it.                                                               *)
(***************************************************************************)
EXTENDS ForkServer, TLAPS, FiniteSetTheorems

Ours == Alive \cup {"zombie"}
Starting == {"none", "forked", "armed"}

(* Where the protocol stands: one message at a time, of the outstanding     *)
(* call, and nothing before the hello.                                      *)
Protocol ==
    /\ sock => browser /\ srv # "none"
    /\ ~sock => rpc.op = "idle" /\ request = {} /\ reply = {}
    /\ srv \in {"forked", "armed"} /\ browser => sock /\ rpc.op = "hello"
    /\ rpc.op \in {"idle", "stopwait"} => request = {} /\ reply = {}
    /\ ~attempted => srv = "none"
    /\ srv \in Starting =>
          /\ request = {} /\ reply = {} /\ pending = {}
          /\ \A s \in Slots : slot[s] = None
    /\ srv = "none" => \A p \in Pids : ~entry[p].running
    /\ \A r \in request : rpc.op = r.op /\ reply = {}
    /\ \A m, n \in reply : m = n
    /\ \A m \in reply : m.pid # None => ~m.error /\ rpc.op = "launch"

(* The table is exact while the server lives: what is in it is a child, no  *)
(* child is outside, no PID is in it twice, and the word is the child's.    *)
Table ==
    srv # "gone" =>
        /\ \A s \in Slots : slot[s] # None =>
              proc[slot[s]].st \in Ours /\ progress[s] = proc[slot[s]].stage
        /\ \A s, t \in Slots : slot[s] # None /\ slot[s] = slot[t] => s = t
        /\ \A p \in Pids : proc[p].st \in Ours => \E s \in Slots : slot[s] = p

(* Every record is of a process that ended, one per PID and one per slot;   *)
(* a slot whose record is pending is free and its PID not relaunched.       *)
Distinct(records) ==
    \A x, y \in records : x.pid = y.pid \/ x.from = y.from => x = y
Truthful(records) ==
    \A x \in records : <<x.pid, x.gen, x.status, x.stage>> \in ended
Records ==
    /\ Distinct(pending) /\ Truthful(pending)
    /\ \A m \in reply : Distinct(m.exited) /\ Truthful(m.exited)
    /\ \A x \in pending :
          /\ x.gen = gen[x.pid]
          /\ \A s \in Slots : slot[s] # x.pid
          /\ slot[x.from] = None

(* The browser knows the processes that the server speaks of, or is about   *)
(* to be told.                                                              *)
LaunchReply(p) == \E m \in reply : m.pid = p
Told(p, g) == entry[p].known /\ entry[p].gen = g
InSync ==
    /\ \A p \in Pids : entry[p].gen <= gen[p] /\ (entry[p].running => entry[p].known)
    /\ \A m \in reply : \A x \in m.exited : Told(x.pid, x.gen)
    /\ sock => \A x \in pending : Told(x.pid, x.gen) \/ LaunchReply(x.pid)
    /\ sock => \A s \in Slots :
          slot[s] # None => Told(slot[s], gen[slot[s]]) \/ LaunchReply(slot[s])
    /\ srv # "gone" => \A p \in Pids : LaunchReply(p) =>
          SlotOf(p) # {} \/ \E x \in pending : x.pid = p

(* A progress word on its way was the child's own.                          *)
ProgressTrue ==
    \A m \in reply, p \in Pids :
        m.progress_pid = p /\ gen[p] = entry[p].gen /\ proc[p].st \in Alive
            => m.progress <= proc[p].stage

IInv ==
    /\ TypeOK /\ Protocol /\ NoOrphanRuns /\ Table /\ Records /\ InSync
    /\ ProgressTrue /\ ExactStatus /\ NoLostExit /\ StageReached
-----------------------------------------------------------------------------
(* The types.                                                               *)

(* An unused PID is a well-formed row of the process table.                 *)
LEMMA FreeTyped == Free \in Proc
    BY ConstantsAssumption DEF Free, Proc, ProcState, WaitStatus, Stage

(* An empty reply, the hello, is a well-formed message.                     *)
LEMMA NoMsgTyped == NoMsg \in Reply
    BY ConstantsAssumption DEF NoMsg, Reply, Stage

(* What the kernel does to a process leaves a well-formed process table.    *)
LEMMA OrphanedTyped == TypeOK => OrphanedProcs \in [Pids -> Proc]
    BY FreeTyped DEF OrphanedProcs, TypeOK

(* A process that ends, or is signalled, stays well formed.                 *)
LEMMA EndedTyped ==
    ASSUME TypeOK, NEW p \in Pids, NEW st \in ProcState, NEW status \in WaitStatus
    PROVE  [proc EXCEPT ![p].st = st, ![p].status = status] \in [Pids -> Proc]
    BY DEF TypeOK, Proc

(* A process that goes on to its next state stays well formed.              *)
LEMMA MovedTyped ==
    ASSUME TypeOK, NEW p \in Pids, NEW st \in ProcState
    PROVE  [proc EXCEPT ![p].st = st] \in [Pids -> Proc]
    BY DEF TypeOK, Proc

(* kill, on any number, leaves a well-formed process table.                 *)
LEMMA KilledTyped == ASSUME TypeOK, NEW p PROVE Killed(proc, p) \in [Pids -> Proc]
<1>1. CASE p \in Pids
    BY <1>1, EndedTyped DEF Killed, ProcState, WaitStatus, TypeOK
<1>2. CASE p \notin Pids
    BY <1>2 DEF Killed, TypeOK
<1> QED BY <1>1, <1>2

(* A reply of the server is well formed and empties the pending records.    *)
LEMMA RespondTyped ==
    ASSUME TypeOK, NEW fields \in Reply, Respond(fields)
    PROVE  reply' \subseteq Reply /\ pending' \subseteq ExitRecord /\ request' \subseteq Request
    BY DEF TypeOK, Respond, Reply

(* LoseServer, however it is reached, keeps the types.                      *)
LEMMA LoseServerTyped == TypeOK /\ LoseServer => TypeOK'
<1> SUFFICES ASSUME TypeOK, LoseServer PROVE TypeOK'
    OBVIOUS
<1>1. srv' \in ServerState /\ proc' \in [Pids -> Proc]
    BY OrphanedTyped DEF TypeOK, LoseServer, ServerDies, ServerState
<1>2. entry' \in [Pids -> Entry]
  <2> SUFFICES ASSUME NEW p \in Pids PROVE entry'[p] \in Entry
    BY DEF LoseServer
  <2> QED BY DEF TypeOK, LoseServer, Entry
<1>3. rpc' \in Rpc
    BY DEF LoseServer, Idle, Rpc
<1> QED BY <1>1, <1>2, <1>3 DEF TypeOK, LoseServer, history

(* A reply that is read leaves well-formed entries, for every call.         *)
LEMMA ReadReplyTyped ==
    ASSUME TypeOK, NEW m \in reply
    PROVE  WithExits(m) \in [Pids -> Entry] /\ ReadReply(m) \in [Pids -> Entry]
<1>1. \A p \in Pids : WithExits(m)[p] \in Entry
  <2> SUFFICES ASSUME NEW p \in Pids PROVE WithExits(m)[p] \in Entry
    OBVIOUS
  <2>1. CASE entry[p].known /\ \E x \in m.exited : x.pid = p
    <3> DEFINE y == CHOOSE x \in m.exited : x.pid = p
    <3>1. y \in ExitRecord
        BY <2>1 DEF TypeOK, Reply
    <3>2. WithExits(m)[p] = [entry[p] EXCEPT !.running = FALSE, !.status = y.status, !.stage = y.stage]
        BY <2>1 DEF WithExits
    <3> HIDE DEF y
    <3>3. entry[p] \in Entry /\ y.status \in WaitStatus /\ y.stage \in Stage
        BY <3>1 DEF TypeOK, ExitRecord
    <3> QED BY <3>2, <3>3 DEF Entry
  <2>2. CASE ~(entry[p].known /\ \E x \in m.exited : x.pid = p)
    BY <2>2 DEF WithExits, TypeOK
  <2> QED BY <2>1, <2>2
<1>2. \A p \in Pids : ReadReply(m)[p] \in Entry
    BY <1>1 DEF ReadReply, TypeOK, Reply, Entry
<1> QED BY <1>1, <1>2 DEF WithExits, ReadReply

(* Every step of the fork launcher keeps every variable in its type.        *)
LEMMA TypeStep == TypeOK /\ [Next]_vars => TypeOK'
<1> SUFFICES ASSUME TypeOK, [Next]_vars PROVE TypeOK'
    OBVIOUS
<1>1. ASSUME NEW p \in Pids, ForeignProcess(p) PROVE TypeOK'
  <2>1. [Free EXCEPT !.st = "foreign"] \in Proc
    BY FreeTyped DEF Proc, ProcState
  <2>2. proc' \in [Pids -> Proc]
    BY <1>1, <2>1, FreeTyped DEF TypeOK, ForeignProcess
  <2> QED BY <1>1, <2>2 DEF TypeOK, ForeignProcess, clientVars, serverVars, channel, history
<1>2. CASE BrowserDies
  <2>1. srv' \in ServerState /\ proc' \in [Pids -> Proc]
    BY <1>2, OrphanedTyped DEF TypeOK, BrowserDies, ServerDies, ServerState
  <2>2. rpc' \in Rpc
    BY <1>2 DEF BrowserDies, Idle, Rpc
  <2> QED BY <1>2, <2>1, <2>2 DEF TypeOK, BrowserDies, history
<1>3. CASE ServerCrash
  <2>1. srv' \in ServerState /\ proc' \in [Pids -> Proc]
    BY <1>3, OrphanedTyped DEF TypeOK, ServerCrash, ServerDies, ServerState
  <2> QED BY <1>3, <2>1 DEF TypeOK, ServerCrash, clientVars, channel, history
<1>4. ASSUME NEW p \in Pids, Child(p) PROVE TypeOK'
  <2>1. CASE ReportOhosForkStage(p)
    <3>0. proc[p].stage + 1 \in Stage
        BY <2>1, ConstantsAssumption DEF ReportOhosForkStage, TypeOK, Proc, Stage
    <3>1. proc' \in [Pids -> Proc]
        BY <2>1, <3>0 DEF ReportOhosForkStage, TypeOK, Proc
    <3>2. progress' \in [Slots -> Stage]
        BY <2>1, <3>0 DEF ReportOhosForkStage, TypeOK
    <3> QED BY <2>1, <3>1, <3>2 DEF TypeOK, ReportOhosForkStage, clientVars, channel, history
  <2>2. CASE ChildPrctl(p)
    <3>1. proc' \in [Pids -> Proc]
        BY <2>2, MovedTyped DEF ChildPrctl, ProcState
    <3> QED BY <2>2, <3>1 DEF TypeOK, ChildPrctl, clientVars, serverVars, channel, history
  <2>3. CASE ChildCheckParent(p)
    <3>1. proc' \in [Pids -> Proc]
        BY <2>3, MovedTyped, FreeTyped DEF ChildCheckParent, ProcState, TypeOK
    <3> QED BY <2>3, <3>1 DEF TypeOK, ChildCheckParent, clientVars, serverVars, channel, history
  <2>4. CASE ChildEnds(p)
    <3>1. proc' \in [Pids -> Proc]
      <4>1. PICK status \in WaitStatus :
              proc' = IF srv = "gone" THEN [proc EXCEPT ![p] = Free]
                      ELSE [proc EXCEPT ![p].st = "zombie", ![p].status = status]
        BY <2>4 DEF ChildEnds
      <4>2. "zombie" \in ProcState
        BY DEF ProcState
      <4>3. [proc EXCEPT ![p] = Free] \in [Pids -> Proc]
        BY FreeTyped DEF TypeOK
      <4> QED BY <4>1, <4>2, <4>3, EndedTyped
    <3> QED BY <2>4, <3>1 DEF TypeOK, ChildEnds, clientVars, serverVars, channel, history
  <2> QED BY <1>4, <2>1, <2>2, <2>3, <2>4 DEF Child
<1>5. CASE ServerPrctl
    BY <1>5 DEF TypeOK, ServerPrctl, ServerState, clientVars, channel, history
<1>6. CASE ServerHello
    BY <1>6, NoMsgTyped DEF TypeOK, ServerHello, ServerState, clientVars, history
<1>7. CASE ReapServerChildren
  <2>1. proc' \in [Pids -> Proc] /\ slot' \in [Slots -> Pids \cup {None}]
    BY <1>7, FreeTyped DEF TypeOK, ReapServerChildren
  <2>2. pending' \subseteq ExitRecord
    BY <1>7 DEF TypeOK, ReapServerChildren, ExitRecord, Proc
  <2>3. ended' \subseteq Pids \X Gen \X WaitStatus \X Stage
    BY <1>7 DEF TypeOK, ReapServerChildren, Proc
  <2> QED BY <1>7, <2>1, <2>2, <2>3 DEF TypeOK, ReapServerChildren, clientVars, channel
<1>8. CASE ServerHandle
  <2>1. PICK r \in request : HandleLaunch(r) \/ HandleSignal(r) \/ HandleStatus(r) \/ HandleStop(r)
    BY <1>8 DEF ServerHandle
  <2>2. Failed \in Reply
    BY NoMsgTyped DEF Failed, Reply
  <2>3. UNCHANGED <<browser, attempted, sock, rpc, entry, ended>>
    BY <1>8 DEF ServerHandle, clientVars
  <2>4. CASE HandleLaunch(r)
    <3>1. CASE Respond(Failed) /\ UNCHANGED <<slot, progress, proc, gen>>
        BY <2>2, <2>3, <2>4, <3>1, RespondTyped DEF TypeOK, HandleLaunch
    <3>2. ASSUME NEW s \in Slots, NEW p \in Pids, gen[p] < MaxGen,
                 slot' = [slot EXCEPT ![s] = p],
                 progress' = [progress EXCEPT ![s] = 0],
                 proc' = [proc EXCEPT ![p] = [Free EXCEPT !.st = "forked"]],
                 gen' = [gen EXCEPT ![p] = @ + 1],
                 Respond([NoMsg EXCEPT !.pid = p])
          PROVE  TypeOK'
      <4>1. [NoMsg EXCEPT !.pid = p] \in Reply
        BY NoMsgTyped DEF Reply
      <4>2. [Free EXCEPT !.st = "forked"] \in Proc
        BY FreeTyped DEF Proc, ProcState
      <4>3. proc' \in [Pids -> Proc] /\ slot' \in [Slots -> Pids \cup {None}]
        BY <3>2, <4>2 DEF TypeOK
      <4>4. progress' \in [Slots -> Stage]
        BY <3>2, ConstantsAssumption DEF TypeOK, Stage
      <4>5. gen' \in [Pids -> Gen]
        BY <3>2, ConstantsAssumption DEF TypeOK, Gen
      <4> QED BY <2>3, <2>4, <3>2, <4>1, <4>3, <4>4, <4>5, RespondTyped DEF TypeOK, HandleLaunch
    <3> QED BY <2>4, <3>1, <3>2 DEF HandleLaunch
  <2>5. CASE HandleSignal(r)
    <3>1. proc' \in [Pids -> Proc]
        BY <2>5, KilledTyped DEF HandleSignal, TypeOK
    <3>2. Respond(NoMsg) \/ Respond(Failed)
        BY <2>5 DEF HandleSignal
    <3> QED BY <2>2, <2>3, <2>5, <3>1, <3>2, NoMsgTyped, RespondTyped DEF TypeOK, HandleSignal
  <2>6. CASE HandleStatus(r)
    <3>1. ASSUME NEW s \in Slots,
                 Respond([NoMsg EXCEPT !.progress_pid = r.pid, !.progress = progress[s]])
          PROVE  TypeOK'
      <4>1. [NoMsg EXCEPT !.progress_pid = r.pid, !.progress = progress[s]] \in Reply
        BY NoMsgTyped DEF Reply, TypeOK, Request
      <4> QED BY <2>3, <2>6, <3>1, <4>1, RespondTyped DEF TypeOK, HandleStatus
    <3>2. CASE Respond(NoMsg)
        BY <2>3, <2>6, <3>2, NoMsgTyped, RespondTyped DEF TypeOK, HandleStatus
    <3> QED BY <2>6, <3>1, <3>2 DEF HandleStatus, SlotOf
  <2>7. CASE HandleStop(r)
    BY <2>3, <2>7, NoMsgTyped, RespondTyped DEF TypeOK, HandleStop, ServerState
  <2> QED BY <2>1, <2>4, <2>5, <2>6, <2>7
<1>9. CASE ServerShutdown
  <2>1. proc' \in [Pids -> Proc]
    BY <1>9, FreeTyped DEF TypeOK, ServerShutdown
  <2> QED BY <1>9, <2>1 DEF TypeOK, ServerShutdown, ServerState, clientVars, channel, history
<1>10. CASE StartOhosForkServer
  <2>1. rpc' \in Rpc /\ srv' \in ServerState /\ sock' \in BOOLEAN
    <3>1. [op |-> "hello", pid |-> None] \in Rpc
        BY DEF Rpc
    <3> QED BY <1>10, <3>1 DEF TypeOK, StartOhosForkServer, ServerState
  <2> QED BY <1>10, <2>1 DEF TypeOK, StartOhosForkServer, channel, history
<1>11. ASSUME NEW op \in {"launch", "status", "signal", "stop"}, NEW p \in Pids \cup {None},
              Send(op, p) PROVE TypeOK'
  <2>1. [op |-> op, pid |-> p] \in Rpc /\ [op |-> op, pid |-> p] \in Request
    BY DEF Rpc, Request
  <2> QED BY <1>11, <2>1, LoseServerTyped DEF TypeOK, Send, serverVars, history
<1>12. CASE ReceiveReply
  <2>1. PICK m \in reply :
          /\ entry' = IF rpc.op = "launch" /\ ~m.error /\ m.pid # None
                      THEN [ReadReply(m) EXCEPT ![m.pid] =
                               [known |-> TRUE, running |-> TRUE, status |-> "lost",
                                stage |-> 0, gen |-> gen[m.pid]]]
                      ELSE ReadReply(m)
          /\ rpc' = IF rpc.op = "stop" THEN [op |-> "stopwait", pid |-> None] ELSE Idle
    BY <1>12 DEF ReceiveReply
  <2>2. entry' \in [Pids -> Entry]
    <3>1. CASE rpc.op = "launch" /\ ~m.error /\ m.pid # None
      <4>1. m.pid \in Pids
        BY <3>1 DEF TypeOK, Reply
      <4>2. [known |-> TRUE, running |-> TRUE, status |-> "lost", stage |-> 0,
             gen |-> gen[m.pid]] \in Entry
        BY <4>1, ConstantsAssumption DEF TypeOK, Entry, Stage
      <4> QED BY <2>1, <3>1, <4>2, ReadReplyTyped
    <3>2. CASE ~(rpc.op = "launch" /\ ~m.error /\ m.pid # None)
        BY <2>1, <3>2, ReadReplyTyped
    <3> QED BY <3>1, <3>2
  <2>3. rpc' \in Rpc
    BY <2>1 DEF Rpc, Idle
  <2> QED BY <1>12, <2>2, <2>3 DEF TypeOK, ReceiveReply, serverVars, history
<1>13. CASE UNCHANGED vars
    BY <1>13 DEF TypeOK, vars, clientVars, serverVars, channel, history
<1> QED
    BY <1>1, <1>2, <1>3, <1>4, <1>5, <1>6, <1>7, <1>8, <1>9, <1>10, <1>11, <1>12, <1>13,
       LoseServerTyped
    DEF Next, Kernel, Server, Calls, Returns, LaunchOhosForkChild, GetOhosForkChildStatus,
        SignalOhosForkChild, StopOhosForkServer, RpcFails, StopFinishes

(* Before StartOhosForkServer everything is empty, and well formed.         *)
LEMMA TypeInit == Init => TypeOK
<1> SUFFICES ASSUME Init PROVE TypeOK
    OBVIOUS
<1>1. Idle \in Rpc
    BY DEF Idle, Rpc
<1>2. NoEntry \in Entry /\ 0 \in Stage /\ 0 \in Gen
    BY ConstantsAssumption DEF NoEntry, Entry, Stage, Gen
<1> QED BY <1>1, <1>2, FreeTyped DEF Init, TypeOK, ServerState

(* Client, server, socket and process table always hold what their types    *)
(* in fork_server_ohos.cc allow.                                            *)
THEOREM TypeCorrect == Spec => []TypeOK
    BY TypeInit, TypeStep, PTL DEF Spec

-----------------------------------------------------------------------------
(* Every action preserves IInv.  The server's handlers have two shapes: a   *)
(* launch, and an answer that leaves the table alone.                       *)

Launched(r, s, p) ==
    /\ srv = "alive" /\ r.op = "launch"
    /\ slot[s] = None
    /\ proc[p].st = "free" /\ gen[p] < MaxGen
    /\ slot' = [slot EXCEPT ![s] = p]
    /\ progress' = [progress EXCEPT ![s] = 0]
    /\ proc' = [proc EXCEPT ![p] = [Free EXCEPT !.st = "forked"]]
    /\ gen' = [gen EXCEPT ![p] = @ + 1]
    /\ Respond([NoMsg EXCEPT !.pid = p])
    /\ UNCHANGED <<browser, clientVars, srv, ended>>
Answered(m) ==
    /\ srv = "alive" /\ srv' \in {"alive", "stopping"}
    /\ request # {} /\ m.pid = None
    /\ \A s \in Slots :
          m.progress_pid # None /\ slot[s] = m.progress_pid => m.progress = progress[s]
    /\ \A p \in Pids : m.progress_pid = p => \E s \in Slots : slot[s] = p
    /\ \/ proc' = proc
       \/ \E s \in Slots :
             /\ slot[s] # None
             /\ proc' = [proc EXCEPT ![slot[s]].st = "zombie", ![slot[s]].status = "signal"]
    /\ Respond(m)
    /\ UNCHANGED <<browser, clientVars, slot, progress, gen, ended>>
Sent(op, p) ==
    /\ rpc.op = "idle" /\ browser /\ sock
    /\ rpc' = [op |-> op, pid |-> p]
    /\ request' = {[op |-> op, pid |-> p]}
    /\ UNCHANGED <<browser, attempted, sock, entry, serverVars, reply, proc, history>>

(* Other programs come and go under PIDs that are not in the table. *)
LEMMA ForeignStep ==
    ASSUME IInv, TypeOK', NEW p \in Pids, ForeignProcess(p)
    PROVE  IInv'
<1>1. Protocol' /\ Records' /\ InSync' /\ ExactStatus' /\ NoLostExit'
    BY DEF IInv, Protocol, Records, Distinct, Truthful, InSync, Told, LaunchReply, SlotOf,
        ExactStatus, NoLostExit, ForeignProcess, clientVars, serverVars, channel, history
<1>2. NoOrphanRuns'
    BY DEF IInv, TypeOK, NoOrphanRuns, ForeignProcess, Free, clientVars, serverVars, channel,
        history
<1>3. Table'
    BY DEF IInv, TypeOK, Table, Ours, Alive, ForeignProcess, Free, clientVars, serverVars, channel,
        history
<1>4. ProgressTrue'
    BY DEF IInv, TypeOK, ProgressTrue, Alive, ForeignProcess, Free, clientVars, serverVars, channel,
        history
<1>5. StageReached'
    BY DEF IInv, TypeOK, StageReached, Alive, ForeignProcess, Free, clientVars, serverVars, channel,
        history
<1> QED BY <1>1, <1>2, <1>3, <1>4, <1>5 DEF IInv

(* The browser dies: nothing is running any more, or about to be. *)
LEMMA BrowserDiesStep ==
    ASSUME IInv, TypeOK', BrowserDies
    PROVE  IInv'
<1>1. Protocol'
    BY DEF IInv, TypeOK, Protocol, Starting, BrowserDies, ServerDies, OrphanedProcs, Free, Idle,
        history
<1>2. NoOrphanRuns'
    BY DEF IInv, TypeOK, NoOrphanRuns, BrowserDies, ServerDies, OrphanedProcs, Free, Idle, history
<1>3. Table'
    BY DEF IInv, TypeOK, Table, Ours, Alive, BrowserDies, ServerDies, OrphanedProcs, Free, Idle,
        history
<1>4. Records'
    BY DEF IInv, TypeOK, Records, Distinct, Truthful, BrowserDies, ServerDies, OrphanedProcs, Free,
        Idle, history
<1>5. InSync'
    BY DEF IInv, TypeOK, InSync, Told, LaunchReply, SlotOf, BrowserDies, ServerDies, OrphanedProcs,
        Free, Idle, history
<1>6. ProgressTrue'
    BY DEF IInv, TypeOK, ProgressTrue, Alive, BrowserDies, ServerDies, OrphanedProcs, Free, Idle,
        history
<1>7. ExactStatus'
    BY DEF IInv, TypeOK, ExactStatus, BrowserDies, ServerDies, OrphanedProcs, Free, Idle, history
<1>8. NoLostExit'
    BY DEF IInv, TypeOK, NoLostExit, SlotOf, BrowserDies, ServerDies, OrphanedProcs, Free, Idle,
        history
<1>9. StageReached'
    BY DEF IInv, TypeOK, StageReached, Alive, BrowserDies, ServerDies, OrphanedProcs, Free, Idle,
        history
<1> QED BY <1>1, <1>2, <1>3, <1>4, <1>5, <1>6, <1>7, <1>8, <1>9 DEF IInv

(* The server dies: PR_SET_PDEATHSIG ends every child past prctl. *)
LEMMA ServerCrashStep ==
    ASSUME IInv, TypeOK', ServerCrash
    PROVE  IInv'
<1>1. Records' /\ ExactStatus'
    BY DEF IInv, Records, Distinct, Truthful, ExactStatus, ServerCrash, clientVars, channel, history
<1>2. Protocol'
    BY DEF IInv, TypeOK, Protocol, Starting, ServerCrash, ServerDies, OrphanedProcs, Free,
        clientVars, channel, history
<1>3. NoOrphanRuns'
    BY DEF IInv, TypeOK, NoOrphanRuns, ServerCrash, ServerDies, OrphanedProcs, Free, clientVars,
        channel, history
<1>4. Table'
    BY DEF IInv, TypeOK, Table, Ours, Alive, ServerCrash, ServerDies, OrphanedProcs, Free,
        clientVars, channel, history
<1>5. InSync'
    BY DEF IInv, TypeOK, InSync, Told, LaunchReply, SlotOf, ServerCrash, ServerDies, OrphanedProcs,
        Free, clientVars, channel, history
<1>6. ProgressTrue'
    BY DEF IInv, TypeOK, ProgressTrue, Alive, ServerCrash, ServerDies, OrphanedProcs, Free,
        clientVars, channel, history
<1>7. NoLostExit'
    BY DEF IInv, TypeOK, NoLostExit, SlotOf, ServerCrash, ServerDies, OrphanedProcs, Free,
        clientVars, channel, history
<1>8. StageReached'
    BY DEF IInv, TypeOK, StageReached, Alive, ServerCrash, ServerDies, OrphanedProcs, Free,
        clientVars, channel, history
<1> QED BY <1>1, <1>2, <1>3, <1>4, <1>5, <1>6, <1>7, <1>8 DEF IInv

(* A child reports a stage: its word in the table follows. *)
LEMMA ReportStep ==
    ASSUME IInv, TypeOK', NEW p \in Pids, ReportOhosForkStage(p)
    PROVE  IInv'
<1>1. Protocol' /\ Records' /\ InSync' /\ ExactStatus' /\ NoLostExit'
    BY DEF IInv, Protocol, Records, Distinct, Truthful, InSync, Told, LaunchReply, SlotOf,
        ExactStatus, NoLostExit, ReportOhosForkStage, clientVars, channel, history
<1>2. NoOrphanRuns'
    BY DEF IInv, TypeOK, NoOrphanRuns, ReportOhosForkStage, clientVars, channel, history
<1>3. Table'
    BY DEF IInv, TypeOK, Table, Ours, Alive, ReportOhosForkStage, clientVars, channel, history
<1>4. ProgressTrue'
  <2>1. proc' = [proc EXCEPT ![p].stage = proc[p].stage + 1] /\ proc[p].stage \in Nat
    BY ConstantsAssumption DEF IInv, TypeOK, ReportOhosForkStage, Proc, Stage
  <2> QED BY <2>1, ConstantsAssumption DEF IInv, TypeOK, ProgressTrue, Alive, Entry, Reply, Stage,
      ReportOhosForkStage, clientVars, channel, history
<1>5. StageReached'
  <2>1. proc' = [proc EXCEPT ![p].stage = proc[p].stage + 1] /\ proc[p].stage \in Nat
    BY ConstantsAssumption DEF IInv, TypeOK, ReportOhosForkStage, Proc, Stage
  <2> QED BY <2>1, ConstantsAssumption DEF IInv, TypeOK, StageReached, Alive, Entry, Reply, Stage,
      ReportOhosForkStage, clientVars, channel, history
<1> QED BY <1>1, <1>2, <1>3, <1>4, <1>5 DEF IInv

(* A child calls prctl. *)
LEMMA PrctlStep ==
    ASSUME IInv, TypeOK', NEW p \in Pids, ChildPrctl(p)
    PROVE  IInv'
<1>1. Protocol' /\ Records' /\ InSync' /\ ExactStatus' /\ NoLostExit'
    BY DEF IInv, Protocol, Records, Distinct, Truthful, InSync, Told, LaunchReply, SlotOf,
        ExactStatus, NoLostExit, ChildPrctl, clientVars, serverVars, channel, history
<1>2. NoOrphanRuns'
    BY DEF IInv, TypeOK, NoOrphanRuns, ChildPrctl, clientVars, serverVars, channel, history
<1>3. Table'
    BY DEF IInv, TypeOK, Table, Ours, Alive, ChildPrctl, clientVars, serverVars, channel, history
<1>4. ProgressTrue'
    BY DEF IInv, TypeOK, ProgressTrue, Alive, ChildPrctl, clientVars, serverVars, channel, history
<1>5. StageReached'
    BY DEF IInv, TypeOK, StageReached, Alive, ChildPrctl, clientVars, serverVars, channel, history
<1> QED BY <1>1, <1>2, <1>3, <1>4, <1>5 DEF IInv

(* A child checks its parent: past the check there is a server. *)
LEMMA CheckParentStep ==
    ASSUME IInv, TypeOK', NEW p \in Pids, ChildCheckParent(p)
    PROVE  IInv'
<1>1. Protocol' /\ Records' /\ InSync' /\ ExactStatus' /\ NoLostExit'
    BY DEF IInv, Protocol, Records, Distinct, Truthful, InSync, Told, LaunchReply, SlotOf,
        ExactStatus, NoLostExit, ChildCheckParent, clientVars, serverVars, channel, history
<1>2. NoOrphanRuns'
  <2>1. srv # "gone" => \E s \in Slots : slot[s] = p
    BY DEF IInv, Table, Ours, Alive, ChildCheckParent
  <2>2. srv # "gone" => srv \notin Starting
    BY <2>1, NoneAssumption DEF IInv, Protocol
  <2>3. srv # "gone" => srv \in {"alive", "stopping"}
    BY <2>2 DEF IInv, TypeOK, ServerState, Starting
  <2> QED BY <2>3 DEF IInv, TypeOK, NoOrphanRuns, ChildCheckParent, Free, clientVars, serverVars
<1>3. Table'
    BY DEF IInv, TypeOK, Table, Ours, Alive, ChildCheckParent, Free, clientVars, serverVars,
        channel, history
<1>4. ProgressTrue'
    BY DEF IInv, TypeOK, ProgressTrue, Alive, ChildCheckParent, Free, clientVars, serverVars,
        channel, history
<1>5. StageReached'
    BY DEF IInv, TypeOK, StageReached, Alive, ChildCheckParent, Free, clientVars, serverVars,
        channel, history
<1> QED BY <1>1, <1>2, <1>3, <1>4, <1>5 DEF IInv

(* A child ends and waits for its parent, or for init. *)
LEMMA EndsStep ==
    ASSUME IInv, TypeOK', NEW p \in Pids, ChildEnds(p)
    PROVE  IInv'
<1>1. Protocol' /\ Records' /\ InSync' /\ ExactStatus' /\ NoLostExit'
    BY DEF IInv, Protocol, Records, Distinct, Truthful, InSync, Told, LaunchReply, SlotOf,
        ExactStatus, NoLostExit, ChildEnds, clientVars, serverVars, channel, history
<1>2. NoOrphanRuns'
    BY DEF IInv, TypeOK, NoOrphanRuns, ChildEnds, Free, clientVars, serverVars, channel, history
<1>3. Table'
    BY DEF IInv, TypeOK, Table, Ours, Alive, ChildEnds, Free, clientVars, serverVars, channel,
        history
<1>4. ProgressTrue'
    BY DEF IInv, TypeOK, ProgressTrue, Alive, ChildEnds, Free, clientVars, serverVars, channel,
        history
<1>5. StageReached'
    BY DEF IInv, TypeOK, StageReached, Alive, ChildEnds, Free, clientVars, serverVars, channel,
        history
<1> QED BY <1>1, <1>2, <1>3, <1>4, <1>5 DEF IInv

(* The server calls prctl. *)
LEMMA ServerPrctlStep ==
    ASSUME IInv, TypeOK', ServerPrctl
    PROVE  IInv'
<1>1. Records' /\ ProgressTrue' /\ ExactStatus' /\ StageReached'
    BY DEF IInv, Records, Distinct, Truthful, ProgressTrue, ExactStatus, StageReached, ServerPrctl,
        clientVars, channel, history
<1>2. Protocol'
    BY DEF IInv, TypeOK, Protocol, Starting, ServerPrctl, clientVars, channel, history
<1>3. NoOrphanRuns'
    BY DEF IInv, TypeOK, NoOrphanRuns, ServerPrctl, clientVars, channel, history
<1>4. Table'
    BY DEF IInv, TypeOK, Table, Ours, Alive, ServerPrctl, clientVars, channel, history
<1>5. InSync'
    BY DEF IInv, TypeOK, InSync, Told, LaunchReply, SlotOf, ServerPrctl, clientVars, channel,
        history
<1>6. NoLostExit'
    BY DEF IInv, TypeOK, NoLostExit, SlotOf, ServerPrctl, clientVars, channel, history
<1> QED BY <1>1, <1>2, <1>3, <1>4, <1>5, <1>6 DEF IInv

(* The server checks its parent and says hello, or leaves. *)
LEMMA ServerHelloStep ==
    ASSUME IInv, TypeOK', ServerHello
    PROVE  IInv'
<1>1. ExactStatus' /\ StageReached'
    BY DEF IInv, ExactStatus, StageReached, ServerHello, clientVars, history
<1>2. Protocol'
  <2>1. CASE browser /\ srv' = "alive" /\ reply' = {NoMsg}
    <3>1. sock /\ rpc.op = "hello" /\ request = {}
        BY <2>1 DEF IInv, Protocol, ServerHello, Starting
    <3>2. NoMsg.pid = None
        BY DEF NoMsg
    <3> QED BY <2>1, <3>1, <3>2 DEF IInv, Protocol, Starting, ServerHello, clientVars, history
  <2>2. CASE srv' = "gone" /\ reply' = reply
    BY <2>2 DEF IInv, Protocol, Starting, ServerHello, clientVars, history
  <2> QED BY <2>1, <2>2 DEF ServerHello
<1>3. NoOrphanRuns'
    BY DEF IInv, TypeOK, NoOrphanRuns, ServerHello, NoMsg, clientVars, history
<1>4. Table'
    BY DEF IInv, TypeOK, Table, Ours, Alive, ServerHello, NoMsg, clientVars, history
<1>5. Records'
    BY DEF IInv, TypeOK, Records, Distinct, Truthful, ServerHello, NoMsg, clientVars, history
<1>6. InSync'
    BY NoneAssumption DEF IInv, TypeOK, Protocol, Starting, InSync, Told, LaunchReply, SlotOf,
        ServerHello, NoMsg, clientVars, history
<1>7. ProgressTrue'
    BY NoneAssumption DEF IInv, TypeOK, ProgressTrue, Alive, ServerHello, NoMsg, clientVars, history
<1>8. NoLostExit'
    BY NoneAssumption DEF IInv, TypeOK, Protocol, Starting, NoLostExit, SlotOf, ServerHello, NoMsg,
        clientVars, history
<1> QED BY <1>1, <1>2, <1>3, <1>4, <1>5, <1>6, <1>7, <1>8 DEF IInv

(* ReapServerChildren moves children from the table to the pending records. *)
LEMMA ReapStep ==
    ASSUME IInv, TypeOK', ReapServerChildren
    PROVE  IInv'
<1> DEFINE dead == {s \in Slots : slot[s] # None /\ proc[slot[s]].st = "zombie"}
           Record(s) == [pid |-> slot[s], status |-> proc[slot[s]].status, stage |-> progress[s],
                         gen |-> gen[slot[s]], from |-> s]
<1>1. /\ pending' = pending \cup {Record(s) : s \in dead}
      /\ ended' = ended \cup {<<slot[s], gen[slot[s]], proc[slot[s]].status,
                                proc[slot[s]].stage>> : s \in dead}
      /\ slot' = [s \in Slots |-> IF s \in dead THEN None ELSE slot[s]]
      /\ srv = "alive"
      /\ UNCHANGED <<sock, rpc, entry, srv, request, reply, gen>>
    BY DEF ReapServerChildren, clientVars, channel
<1>2. \A s \in dead : /\ slot[s] \in Pids /\ s \in Slots
                      /\ progress[s] = proc[slot[s]].stage
                      /\ slot'[s] = None
                      /\ Record(s).pid = slot[s] /\ Record(s).from = s
                      /\ Record(s).gen = gen[slot[s]]
                      /\ Record(s).status = proc[slot[s]].status
                      /\ Record(s).stage = progress[s]
    BY <1>1 DEF IInv, TypeOK, Table
<1>3. \A s \in Slots : s \notin dead => slot'[s] = slot[s]
    BY <1>1
<1>4. \A s, t \in Slots : slot[s] # None /\ slot[s] = slot[t] => s = t
    BY <1>1 DEF IInv, Table
<1>a. /\ \A x \in pending' : x \in pending \/ \E s \in dead : x = Record(s)
      /\ \A s \in dead : Record(s) \in pending'
      /\ \A s \in dead : <<slot[s], gen[slot[s]], proc[slot[s]].status, proc[slot[s]].stage>> \in
          ended'
      /\ pending \subseteq pending' /\ ended \subseteq ended'
    BY <1>1
<1> HIDE DEF dead, Record
<1>5. Records'
  <2>1. Distinct(pending')
    <3> SUFFICES ASSUME NEW x \in pending', NEW y \in pending',
                        x.pid = y.pid \/ x.from = y.from
                 PROVE  x = y
        BY DEF Distinct
    <3>1. CASE x \in pending /\ y \in pending
        BY <3>1 DEF IInv, Records, Distinct
    <3>2. ASSUME NEW z \in pending, NEW s \in dead, z.pid = slot[s] \/ z.from = s PROVE FALSE
        BY <1>2, <3>2, NoneAssumption DEF IInv, Records
    <3>3. ASSUME NEW s \in dead, NEW t \in dead, slot[s] = slot[t] \/ s = t PROVE s = t
        BY <1>2, <1>4, <3>3, NoneAssumption
    <3>4. CASE \E s \in dead : x = Record(s)
      <4>1. PICK s \in dead : x = Record(s)
        BY <3>4
      <4>2. CASE y \in pending
        BY <1>2, <3>2, <4>1, <4>2
      <4>3. ASSUME NEW t \in dead, y = Record(t) PROVE x = y
        BY <1>2, <3>3, <4>1, <4>3
      <4> QED BY <1>a, <4>2, <4>3
    <3>5. ASSUME x \in pending, NEW t \in dead, y = Record(t) PROVE FALSE
        BY <1>2, <3>2, <3>5
    <3> QED BY <1>a, <3>1, <3>4, <3>5
  <2>2. Truthful(pending)' /\ \A m \in reply' : Distinct(m.exited)
    <3>1. ASSUME NEW x \in pending PROVE <<x.pid, x.gen, x.status, x.stage>> \in ended'
        BY <1>a DEF IInv, Records, Truthful
    <3>2. ASSUME NEW s \in dead
          PROVE  <<Record(s).pid, Record(s).gen, Record(s).status, Record(s).stage>> \in ended'
        BY <1>a, <1>2
    <3> QED BY <1>a, <1>1, <3>1, <3>2 DEF IInv, Records, Truthful
  <2>3. \A m \in reply' : Truthful(m.exited)'
    BY <1>1 DEF IInv, Records, Truthful
  <2>4. \A x \in pending' : x.gen = gen[x.pid] /\ (\A s \in Slots : slot'[s] # x.pid) /\
      slot'[x.from] = None
    <3> SUFFICES ASSUME NEW x \in pending'
                 PROVE  x.gen = gen[x.pid] /\ (\A s \in Slots : slot'[s] # x.pid) /\ slot'[x.from] =
                     None
        OBVIOUS
    <3>1. CASE x \in pending
        BY <1>1, <1>2, <1>3, <3>1, NoneAssumption DEF IInv, Records, TypeOK, ExitRecord
    <3>2. CASE x \in {Record(s) : s \in dead}
        BY <1>2, <1>3, <1>4, <3>2, NoneAssumption
    <3> QED BY <1>1, <3>1, <3>2
  <2> QED BY <1>1, <2>1, <2>2, <2>3, <2>4 DEF Records, Distinct
<1>6. \A p \in Pids : SlotOf(p) # {} =>
         SlotOf(p)' # {} \/ \E x \in pending' : x.pid = p /\ x.gen = gen[p]
  <2> SUFFICES ASSUME NEW p \in Pids, NEW s \in Slots, slot[s] = p
               PROVE  (\E t \in Slots : slot'[t] = p) \/ \E x \in pending' : x.pid = p /\ x.gen =
                   gen[p]
    BY DEF SlotOf
  <2>1. CASE s \in dead
    BY <1>a, <1>2, <2>1
  <2>2. CASE s \notin dead
    BY <1>3, <2>2
  <2> QED BY <2>1, <2>2
<1>7. InSync'
  <2>1. \A x \in pending' : sock => Told(x.pid, x.gen) \/ LaunchReply(x.pid)
    <3>1. ASSUME NEW s \in dead, sock
          PROVE  Told(slot[s], gen[slot[s]]) \/ LaunchReply(slot[s])
        BY <1>2, <3>1, NoneAssumption DEF IInv, InSync
    <3> QED BY <1>a, <1>2, <3>1 DEF IInv, InSync
  <2>2. \A p \in Pids : LaunchReply(p) => SlotOf(p)' # {} \/ \E x \in pending' : x.pid = p
    BY <1>1, <1>6 DEF IInv, InSync
  <2>3. \A s \in Slots : sock /\ slot'[s] # None =>
            Told(slot'[s], gen[slot'[s]]) \/ LaunchReply(slot'[s])
    BY <1>1, <1>2, <1>3 DEF IInv, InSync
  <2> QED BY <1>1, <2>1, <2>2, <2>3 DEF IInv, InSync, Told, LaunchReply
<1>8. NoLostExit'
    BY <1>1, <1>6 DEF IInv, NoLostExit
<1>9. Protocol'
    BY DEF IInv, TypeOK, Protocol, Starting, ReapServerChildren, Free, clientVars, channel
<1>10. NoOrphanRuns'
    BY DEF IInv, TypeOK, NoOrphanRuns, ReapServerChildren, Free, clientVars, channel
<1>11. Table'
    BY DEF IInv, TypeOK, Table, Ours, Alive, ReapServerChildren, Free, clientVars, channel
<1>12. ProgressTrue'
    BY DEF IInv, TypeOK, ProgressTrue, Alive, ReapServerChildren, Free, clientVars, channel
<1>13. ExactStatus'
    BY DEF IInv, TypeOK, ExactStatus, ReapServerChildren, Free, clientVars, channel
<1>14. StageReached'
    BY DEF IInv, TypeOK, StageReached, Alive, ReapServerChildren, Free, clientVars, channel
<1> QED BY <1>9, <1>10, <1>11, <1>5, <1>7, <1>12, <1>13, <1>8, <1>14 DEF IInv

(* kLaunch puts a new child into the table and tells the browser. *)
LEMMA LaunchStep ==
    ASSUME IInv, TypeOK', NEW r \in request, NEW s \in Slots, NEW p \in Pids, Launched(r, s, p)
    PROVE  IInv'
<1> DEFINE M == [[NoMsg EXCEPT !.pid = p] EXCEPT !.exited = pending]
<1>1. /\ reply' = {M} /\ pending' = {}
      /\ M.pid = p /\ M.exited = pending /\ M.progress_pid = None
    BY DEF Launched, Respond, NoMsg
<1> HIDE DEF M
<1>2. sock /\ reply = {} /\ srv = "alive" /\ srv' = "alive"
    BY DEF IInv, Protocol, Launched
<1>3. /\ UNCHANGED <<sock, entry>>
      /\ gen'[p] = gen[p] + 1 /\ \A q \in Pids \ {p} : gen'[q] = gen[q] /\ proc'[q] = proc[q]
      /\ slot'[s] = p /\ \A t \in Slots \ {s} : slot'[t] = slot[t]
    BY DEF Launched, clientVars, IInv, TypeOK
<1>4. \A t \in Slots : slot[t] # p
  <2>1. proc[p].st \notin Ours
    BY DEF Launched, Ours, Alive
  <2> QED BY <1>2, <2>1, NoneAssumption DEF IInv, Table
<1>5. \A x \in pending : Told(x.pid, x.gen)
    BY <1>2 DEF IInv, InSync, LaunchReply
<1>6. InSync'
  <2>1. \A q \in Pids : entry[q].gen <= gen'[q]
    BY <1>3, ConstantsAssumption DEF IInv, InSync, TypeOK, Entry, Gen
  <2>2. \A t \in Slots : slot'[t] # None => slot'[t] = p \/ Told(slot'[t], gen'[slot'[t]])
    <3> SUFFICES ASSUME NEW t \in Slots \ {s}, slot[t] # None
                 PROVE  Told(slot[t], gen'[slot[t]])
        BY <1>3
    <3>1. slot[t] \in Pids \ {p}
        BY <1>4 DEF IInv, TypeOK
    <3> QED BY <1>2, <1>3, <3>1 DEF IInv, InSync, LaunchReply
  <2>3. \A q : LaunchReply(q)' <=> q = p
    BY <1>1 DEF LaunchReply
  <2>4. SlotOf(p)' # {}
    BY <1>3 DEF SlotOf
  <2> QED BY <1>1, <1>2, <1>3, <1>5, <2>1, <2>2, <2>3, <2>4 DEF InSync, Told, IInv
<1>7. ProgressTrue'
    BY <1>1, NoneAssumption DEF ProgressTrue
<1>8. NoLostExit'
  <2> SUFFICES ASSUME NEW q \in Pids, entry[q].running
               PROVE  \/ SlotOf(q)' # {} /\ gen'[q] = entry[q].gen
                      \/ \E x \in M.exited : x.pid = q /\ x.gen = entry[q].gen
    BY <1>1, <1>2, <1>3 DEF NoLostExit
  <2>1. \/ SlotOf(q) # {} /\ gen[q] = entry[q].gen
        \/ \E x \in pending : x.pid = q /\ x.gen = entry[q].gen
    BY <1>2 DEF IInv, NoLostExit
  <2>2. CASE SlotOf(q) # {} /\ gen[q] = entry[q].gen
    BY <1>3, <1>4, <2>2, NoneAssumption DEF SlotOf, Launched
  <2> QED BY <1>1, <2>1, <2>2
<1>9. Protocol'
    BY DEF IInv, TypeOK, Protocol, Starting, Launched, Respond, NoMsg, Free, clientVars
<1>10. NoOrphanRuns'
    BY DEF IInv, TypeOK, NoOrphanRuns, Launched, Respond, NoMsg, Free, clientVars
<1>11. Table'
    BY NoneAssumption, ConstantsAssumption, SMTT(30) DEF IInv, TypeOK, Entry, InSync, Gen, Stage, Table, Ours,
        Alive, Launched, Respond, NoMsg, Free, clientVars
<1>12. Records'
    BY DEF IInv, TypeOK, Records, Distinct, Truthful, Launched, Respond, NoMsg, Free, clientVars
<1>13. ExactStatus'
    BY DEF IInv, TypeOK, ExactStatus, Launched, Respond, NoMsg, Free, clientVars
<1>14. StageReached'
    BY NoneAssumption, ConstantsAssumption DEF IInv, TypeOK, Entry, InSync, Gen, Stage,
        StageReached, Alive, Launched, Respond, NoMsg, Free, clientVars
<1> QED BY <1>9, <1>10, <1>11, <1>12, <1>6, <1>7, <1>13, <1>8, <1>14 DEF IInv

(* kStatus, kSignal, kStop and a failed kLaunch answer the browser. *)
LEMMA AnswerStep ==
    ASSUME IInv, TypeOK', NEW m \in Reply, Answered(m)
    PROVE  IInv'
<1> DEFINE M == [m EXCEPT !.exited = pending]
<1>1. /\ reply' = {M} /\ pending' = {}
      /\ M.pid = None /\ M.exited = pending
      /\ M.progress_pid = m.progress_pid /\ M.progress = m.progress
    BY DEF Answered, Respond, Reply
<1> HIDE DEF M
<1>2. sock /\ reply = {} /\ srv = "alive" /\ srv' # "gone"
    BY DEF IInv, Protocol, Answered
<1>3. UNCHANGED <<sock, entry, slot, progress, gen>>
    BY DEF Answered, clientVars
<1>4. \A q \in Pids : /\ proc'[q].stage = proc[q].stage
                      /\ proc'[q].st \in Ours <=> proc[q].st \in Ours
                      /\ proc'[q].st \in Alive => proc[q].st \in Alive
  <2>1. CASE proc' = proc
    BY <2>1
  <2>2. ASSUME NEW s \in Slots, slot[s] # None,
               proc' = [proc EXCEPT ![slot[s]].st = "zombie", ![slot[s]].status = "signal"]
        PROVE  <1>4!:
    <3>1. slot[s] \in Pids /\ proc[slot[s]].st \in Ours
        BY <1>2, <2>2 DEF IInv, TypeOK, Table
    <3>2. proc'[slot[s]].st = "zombie" /\ proc'[slot[s]].stage = proc[slot[s]].stage
        BY <2>2, <3>1 DEF IInv, TypeOK, Proc
    <3> QED BY <2>2, <3>1, <3>2 DEF Ours, Alive, IInv, TypeOK
  <2> QED BY <2>1, <2>2 DEF Answered
<1>5. Table'
    BY <1>2, <1>3, <1>4 DEF IInv, Table, TypeOK
<1>6. InSync'
  <2>1. \A x \in pending : Told(x.pid, x.gen)
    BY <1>2 DEF IInv, InSync, LaunchReply
  <2>2. \A s \in Slots : slot[s] # None => Told(slot[s], gen[slot[s]])
    BY <1>2 DEF IInv, InSync, LaunchReply
  <2>3. \A q \in Pids : ~LaunchReply(q)'
    BY <1>1, NoneAssumption DEF LaunchReply
  <2> QED BY <1>1, <1>3, <2>1, <2>2, <2>3 DEF IInv, InSync, Told
<1>7. ProgressTrue'
  <2> SUFFICES ASSUME NEW q \in Pids, m.progress_pid = q PROVE m.progress <= proc'[q].stage
    BY <1>1 DEF ProgressTrue
  <2>1. PICK s \in Slots : slot[s] = q
    BY DEF Answered
  <2>2. m.progress = proc[q].stage
    BY <1>2, <2>1, NoneAssumption DEF Answered, IInv, Table
  <2> QED BY <1>4, <2>2, ConstantsAssumption DEF IInv, TypeOK, Proc, Stage
<1>8. NoLostExit'
    BY <1>1, <1>2, <1>3 DEF IInv, NoLostExit, SlotOf
<1>9. StageReached'
    BY <1>3, <1>4 DEF IInv, StageReached
<1>10. Protocol'
    BY DEF IInv, TypeOK, Protocol, Starting, Answered, Respond, clientVars
<1>11. NoOrphanRuns'
    BY DEF IInv, TypeOK, NoOrphanRuns, Answered, Respond, clientVars
<1>12. Records'
    BY DEF IInv, TypeOK, Records, Distinct, Truthful, Answered, Respond, clientVars
<1>13. ExactStatus'
    BY DEF IInv, TypeOK, ExactStatus, Answered, Respond, clientVars
<1> QED BY <1>10, <1>11, <1>5, <1>12, <1>6, <1>7, <1>13, <1>8, <1>9 DEF IInv

(* The server kills and reaps its children and leaves. *)
LEMMA ShutdownStep ==
    ASSUME IInv, TypeOK', ServerShutdown
    PROVE  IInv'
<1>1. Records' /\ ExactStatus'
    BY DEF IInv, Records, Distinct, Truthful, ExactStatus, ServerShutdown, clientVars, channel,
        history
<1>2. Protocol'
    BY DEF IInv, TypeOK, Protocol, Starting, ServerShutdown, Free, SlotOf, clientVars, channel,
        history
<1>3. NoOrphanRuns'
    BY DEF IInv, TypeOK, NoOrphanRuns, Table, Ours, Alive, ServerShutdown, Free, SlotOf, clientVars,
        channel, history
<1>4. Table'
    BY DEF IInv, TypeOK, Table, Ours, Alive, ServerShutdown, Free, SlotOf, clientVars, channel,
        history
<1>5. InSync'
    BY DEF IInv, TypeOK, InSync, Told, LaunchReply, SlotOf, ServerShutdown, Free, SlotOf,
        clientVars, channel, history
<1>6. ProgressTrue'
    BY DEF IInv, TypeOK, ProgressTrue, Alive, ServerShutdown, Free, SlotOf, clientVars, channel,
        history
<1>7. NoLostExit'
    BY DEF IInv, TypeOK, NoLostExit, SlotOf, ServerShutdown, Free, SlotOf, clientVars, channel,
        history
<1>8. StageReached'
    BY DEF IInv, TypeOK, StageReached, Alive, ServerShutdown, Free, SlotOf, clientVars, channel,
        history
<1> QED BY <1>1, <1>2, <1>3, <1>4, <1>5, <1>6, <1>7, <1>8 DEF IInv

(* StartOhosForkServer forks the server. *)
LEMMA StartStep ==
    ASSUME IInv, TypeOK', StartOhosForkServer
    PROVE  IInv'
<1>1. Records' /\ ProgressTrue' /\ ExactStatus' /\ StageReached'
    BY DEF IInv, Records, Distinct, Truthful, ProgressTrue, ExactStatus, StageReached,
        StartOhosForkServer, channel, history
<1>2. Protocol'
    BY DEF IInv, TypeOK, Protocol, Starting, StartOhosForkServer, channel, history
<1>3. NoOrphanRuns'
    BY DEF IInv, TypeOK, Protocol, NoOrphanRuns, StartOhosForkServer, channel, history, Starting
<1>4. Table'
    BY DEF IInv, TypeOK, Protocol, Table, Ours, Alive, StartOhosForkServer, channel, history,
        Starting
<1>5. InSync'
    BY DEF IInv, TypeOK, Protocol, InSync, Told, LaunchReply, SlotOf, StartOhosForkServer, channel,
        history, Starting
<1>6. NoLostExit'
    BY DEF IInv, TypeOK, Protocol, NoLostExit, SlotOf, StartOhosForkServer, channel, history,
        Starting
<1> QED BY <1>1, <1>2, <1>3, <1>4, <1>5, <1>6 DEF IInv

(* LoseServer leaves no child marked as running. *)
LEMMA LoseServerStep ==
    ASSUME IInv, TypeOK', LoseServer, sock
    PROVE  IInv'
<1>1. Protocol'
    BY DEF IInv, TypeOK, Protocol, Starting, LoseServer, ServerDies, OrphanedProcs, Free, Idle,
        history
<1>2. NoOrphanRuns'
  <2>1. CASE srv = "gone"
    BY <2>1 DEF IInv, NoOrphanRuns, LoseServer
  <2>2. CASE srv # "gone"
    <3>1. srv \in {"forked", "armed", "alive", "stopping"}
        BY <2>2 DEF IInv, TypeOK, Protocol, ServerState
    <3>2. srv' = "gone" /\ proc' = OrphanedProcs
        BY <3>1 DEF LoseServer, ServerDies
    <3>3. Free.st = "free"
        BY DEF Free
    <3>4. \A p \in Pids : proc'[p].st # "run"
        BY <3>2, <3>3 DEF OrphanedProcs
    <3> QED BY <3>2, <3>4 DEF NoOrphanRuns
  <2> QED BY <2>1, <2>2
<1>3. Table'
    BY DEF IInv, TypeOK, Table, Ours, Alive, LoseServer, ServerDies, OrphanedProcs, Free, Idle,
        history
<1>4. Records'
    BY DEF IInv, TypeOK, Records, Distinct, Truthful, LoseServer, ServerDies, OrphanedProcs, Free,
        Idle, history
<1>5. InSync'
  <2>1. \A p \in Pids : /\ entry'[p].gen = entry[p].gen /\ entry'[p].known = entry[p].known
                        /\ ~entry'[p].running
    BY DEF IInv, TypeOK, LoseServer, Entry
  <2>2. srv' = "gone"
    BY DEF IInv, TypeOK, Protocol, ServerState, LoseServer, ServerDies
  <2> QED BY <2>1, <2>2 DEF IInv, InSync, LoseServer, history
<1>6. ProgressTrue'
    BY DEF IInv, TypeOK, ProgressTrue, Alive, LoseServer, ServerDies, OrphanedProcs, Free, Idle,
        history
<1>7. ExactStatus'
    BY DEF IInv, TypeOK, Protocol, Entry, ExactStatus, LoseServer, ServerDies, OrphanedProcs, Free,
        Idle, history
<1>8. NoLostExit'
    BY DEF IInv, TypeOK, NoLostExit, SlotOf, LoseServer, ServerDies, OrphanedProcs, Free, Idle,
        history
<1>9. StageReached'
  <2>1. \A p \in Pids : ~entry'[p].running
    BY DEF IInv, TypeOK, LoseServer, Entry
  <2> QED BY <2>1 DEF StageReached
<1> QED BY <1>1, <1>2, <1>3, <1>4, <1>5, <1>6, <1>7, <1>8, <1>9 DEF IInv

(* A call of the browser is sent. *)
LEMMA SendStep ==
    ASSUME IInv, TypeOK', NEW op, NEW p, op \notin {"idle", "stopwait"}, Sent(op, p)
    PROVE  IInv'
<1>1. NoOrphanRuns' /\ Table' /\ Records' /\ InSync' /\ ProgressTrue' /\ ExactStatus' /\ NoLostExit'
    /\ StageReached'
    BY DEF IInv, NoOrphanRuns, Table, Records, Distinct, Truthful, InSync, Told, LaunchReply,
        SlotOf, ProgressTrue, ExactStatus, NoLostExit, StageReached, Sent, serverVars, history
<1>2. Protocol'
  <2>1. srv \notin Starting /\ reply = {}
    BY DEF IInv, Protocol, Starting, Sent
  <2>2. rpc'.op = op /\ request' = {[op |-> op, pid |-> p]}
    BY DEF Sent
  <2> QED BY <2>1, <2>2 DEF IInv, Protocol, Starting, Sent, serverVars, history
<1> QED BY <1>1, <1>2 DEF IInv


(* What ReadReply makes of one entry: an exit record of the reply ends it,  *)
(* otherwise only the stage of a running child may change.                  *)
Exited(e, m, p) ==
    /\ entry[p].known /\ ~e.running
    /\ \E x \in m.exited : x.pid = p /\ e.status = x.status /\ e.stage = x.stage
Kept(e, m, p) ==
    /\ entry[p].known => \A x \in m.exited : x.pid # p
    /\ e.running = entry[p].running /\ e.status = entry[p].status
    /\ \/ e.stage = entry[p].stage
       \/ entry[p].running /\ p = m.progress_pid /\ e.stage = m.progress

(* ReadReply keeps an entry's generation and does one of the two.           *)
LEMMA ReadReplyEffect ==
    ASSUME TypeOK, NEW m \in reply, NEW p \in Pids
    PROVE  /\ ReadReply(m)[p].known = entry[p].known /\ ReadReply(m)[p].gen = entry[p].gen
           /\ Exited(ReadReply(m)[p], m, p) \/ Kept(ReadReply(m)[p], m, p)
<1>1. entry[p] \in Entry
    BY DEF TypeOK
<1>2. CASE entry[p].known /\ \E x \in m.exited : x.pid = p
  <2> DEFINE y == CHOOSE x \in m.exited : x.pid = p
  <2>1. y \in m.exited /\ y.pid = p
    BY <1>2
  <2>2. WithExits(m)[p] = [entry[p] EXCEPT !.running = FALSE, !.status = y.status, !.stage = y.stage]
    BY <1>2 DEF WithExits
  <2> HIDE DEF y
  <2>3. /\ WithExits(m)[p].known = entry[p].known /\ WithExits(m)[p].gen = entry[p].gen
        /\ WithExits(m)[p].running = FALSE
        /\ WithExits(m)[p].status = y.status /\ WithExits(m)[p].stage = y.stage
    BY <1>1, <2>2 DEF Entry
  <2>4. ReadReply(m)[p] = WithExits(m)[p]
    BY <2>3 DEF ReadReply
  <2> QED BY <1>2, <2>1, <2>3, <2>4 DEF Exited
<1>3. CASE ~(entry[p].known /\ \E x \in m.exited : x.pid = p)
  <2>1. WithExits(m)[p] = entry[p]
    BY <1>3 DEF WithExits
  <2>2. CASE p = m.progress_pid /\ entry[p].running
    <3>1. ReadReply(m)[p] = [entry[p] EXCEPT !.stage = m.progress]
        BY <2>1, <2>2 DEF ReadReply
    <3>2. /\ ReadReply(m)[p].known = entry[p].known /\ ReadReply(m)[p].gen = entry[p].gen
          /\ ReadReply(m)[p].running = entry[p].running /\ ReadReply(m)[p].status = entry[p].status
          /\ ReadReply(m)[p].stage = m.progress
        BY <1>1, <3>1 DEF Entry
    <3> QED BY <1>3, <2>2, <3>2 DEF Kept
  <2>3. CASE ~(p = m.progress_pid /\ entry[p].running)
    <3>1. ReadReply(m)[p] = entry[p]
        BY <2>1, <2>3 DEF ReadReply
    <3> QED BY <1>3, <3>1 DEF Kept
  <2> QED BY <2>2, <2>3
<1> QED BY <1>2, <1>3

(* A reply is read, and LaunchOhosForkChild records the child it announces. *)
LEMMA ReceiveStep ==
    ASSUME IInv, TypeOK', ReceiveReply
    PROVE  IInv'
<1>0. TypeOK
    BY DEF IInv
<1>1. PICK m \in reply :
        /\ entry' = IF rpc.op = "launch" /\ ~m.error /\ m.pid # None
                    THEN [ReadReply(m) EXCEPT ![m.pid] =
                             [known |-> TRUE, running |-> TRUE, status |-> "lost",
                              stage |-> 0, gen |-> gen[m.pid]]]
                    ELSE ReadReply(m)
        /\ rpc' = IF rpc.op = "stop" THEN [op |-> "stopwait", pid |-> None] ELSE Idle
    BY DEF ReceiveReply
<1>2. /\ reply' = {} /\ sock /\ request = {}
      /\ UNCHANGED <<browser, attempted, sock, srv, slot, progress, pending, request, proc, gen, ended>>
    BY <1>1 DEF ReceiveReply, serverVars, history, IInv, Protocol
<1>3. \A n \in reply : n = m
    BY <1>1 DEF IInv, Protocol
<1>4. \A p \in Pids : p # m.pid => entry'[p] = ReadReply(m)[p]
  <2>1. ReadReply(m) \in [Pids -> Entry]
    BY <1>1, <1>0, ReadReplyTyped
  <2> QED BY <1>1, <2>1
<1>5. m.pid \in Pids => entry'[m.pid] = [known |-> TRUE, running |-> TRUE, status |-> "lost",
                                         stage |-> 0, gen |-> gen[m.pid]]
  <2>1. ReadReply(m) \in [Pids -> Entry]
    BY <1>1, <1>0, ReadReplyTyped
  <2>2. m.pid \in Pids => rpc.op = "launch" /\ ~m.error /\ m.pid # None
    BY <1>1, NoneAssumption DEF IInv, Protocol
  <2> QED BY <1>1, <2>1, <2>2
<1>7. \A p \in Pids : p # m.pid =>
        /\ entry'[p].known = entry[p].known /\ entry'[p].gen = entry[p].gen
        /\ entry'[p].running => entry[p].running
  <2> SUFFICES ASSUME NEW p \in Pids, p # m.pid
               PROVE  /\ entry'[p].known = entry[p].known /\ entry'[p].gen = entry[p].gen
                      /\ entry'[p].running => entry[p].running
    OBVIOUS
  <2>1. entry'[p] = ReadReply(m)[p]
    BY <1>4
  <2> QED BY <1>1, <1>0, <2>1, ReadReplyEffect DEF Exited, Kept
<1>8. Protocol'
  <2>1. rpc'.op \in {"stopwait", "idle"}
    BY <1>1 DEF Idle
  <2>2. srv \notin Starting
    BY <1>1 DEF IInv, Protocol
  <2> QED BY <1>2, <2>1, <2>2 DEF IInv, Protocol, Starting
<1>9. NoOrphanRuns' /\ Table' /\ Records' /\ ProgressTrue'
    BY <1>2 DEF IInv, NoOrphanRuns, Table, Records, Distinct, Truthful, ProgressTrue
<1>10. InSync'
  <2>1. \A p \in Pids : entry'[p].gen <= gen[p] /\ (entry'[p].running => entry'[p].known)
    BY <1>5, <1>0, <1>7, ConstantsAssumption DEF IInv, InSync, TypeOK, Gen
  <2>2. \A x \in pending : Told(x.pid, x.gen)'
    <3> SUFFICES ASSUME NEW x \in pending PROVE Told(x.pid, x.gen)'
        OBVIOUS
    <3>1. x.pid \in Pids /\ x.gen = gen[x.pid]
        BY <1>0 DEF TypeOK, ExitRecord, IInv, Records
    <3>2. CASE x.pid = m.pid
        BY <1>5, <3>1, <3>2 DEF Told
    <3>3. CASE x.pid # m.pid
        BY <1>2, <1>3, <1>7, <3>1, <3>3 DEF Told, IInv, InSync, LaunchReply
    <3> QED BY <3>2, <3>3
  <2>3. \A s \in Slots : slot[s] # None => Told(slot[s], gen[slot[s]])'
    <3> SUFFICES ASSUME NEW s \in Slots, slot[s] # None PROVE Told(slot[s], gen[slot[s]])'
        OBVIOUS
    <3>1. slot[s] \in Pids
        BY <1>0 DEF TypeOK
    <3>2. CASE slot[s] = m.pid
        BY <1>2, <1>5, <3>1, <3>2 DEF Told
    <3>3. CASE slot[s] # m.pid
        BY <1>2, <1>3, <1>7, <3>1, <3>3 DEF Told, IInv, InSync, LaunchReply
    <3> QED BY <3>2, <3>3
  <2> QED BY <1>2, <2>1, <2>2, <2>3 DEF InSync, LaunchReply
<1>11. ExactStatus'
  <2> SUFFICES ASSUME NEW p \in Pids, entry'[p].known, ~entry'[p].running, entry'[p].status # "lost"
               PROVE  <<p, entry'[p].gen, entry'[p].status, entry'[p].stage>> \in ended
    BY <1>2 DEF ExactStatus
  <2>1. p # m.pid
    BY <1>5
  <2>2. entry'[p] = ReadReply(m)[p]
    BY <1>4, <2>1
  <2>3. CASE Exited(entry'[p], m, p)
    BY <1>1, <1>7, <2>1, <2>3 DEF Exited, IInv, Records, Truthful, InSync, Told
  <2>4. CASE Kept(entry'[p], m, p)
    BY <1>7, <2>1, <2>4 DEF Kept, IInv, ExactStatus
  <2> QED BY <1>1, <1>0, <2>2, <2>3, <2>4, ReadReplyEffect
<1>12. NoLostExit'
  <2> SUFFICES ASSUME NEW p \in Pids, entry'[p].running, srv # "gone"
               PROVE  \/ SlotOf(p) # {} /\ gen[p] = entry'[p].gen
                      \/ \E x \in pending : x.pid = p /\ x.gen = entry'[p].gen
    BY <1>2 DEF NoLostExit, SlotOf
  <2>1. CASE p = m.pid
    BY <1>1, <1>5, <2>1 DEF IInv, InSync, LaunchReply, Records
  <2>2. CASE p # m.pid
    <3>1. entry[p].running /\ entry[p].known /\ entry'[p].gen = entry[p].gen
        BY <1>7, <2>2 DEF IInv, InSync
    <3>2. Kept(entry'[p], m, p)
        BY <1>1, <1>4, <1>0, <2>2, ReadReplyEffect DEF Exited
    <3>3. \A x \in m.exited : x.pid # p
        BY <3>1, <3>2 DEF Kept
    <3> QED BY <1>2, <1>3, <3>1, <3>3 DEF IInv, NoLostExit
  <2> QED BY <2>1, <2>2
<1>13. StageReached'
  <2> SUFFICES ASSUME NEW p \in Pids, entry'[p].running, gen[p] = entry'[p].gen, proc[p].st \in Alive
               PROVE  entry'[p].stage <= proc[p].stage
    BY <1>2 DEF StageReached
  <2>1. CASE p = m.pid
    BY <1>5, <1>0, <2>1, ConstantsAssumption DEF TypeOK, Proc, Stage
  <2>2. CASE p # m.pid
    <3>1. entry[p].running /\ gen[p] = entry[p].gen
        BY <1>7, <2>2
    <3>2. Kept(entry'[p], m, p)
        BY <1>1, <1>4, <1>0, <2>2, ReadReplyEffect DEF Exited
    <3> QED BY <1>1, <3>1, <3>2 DEF Kept, IInv, StageReached, ProgressTrue
  <2> QED BY <2>1, <2>2
<1> QED BY <1>8, <1>9, <1>10, <1>11, <1>12, <1>13 DEF IInv

(* Every step of the launcher is one of those above.                        *)
LEMMA InvStep == IInv /\ [Next]_vars => IInv'
<1> SUFFICES ASSUME IInv, [Next]_vars PROVE IInv'
    OBVIOUS
<1>1. TypeOK'
    BY TypeStep DEF IInv
<1>2. CASE Kernel
    BY <1>1, <1>2, ForeignStep, BrowserDiesStep, ServerCrashStep DEF Kernel
<1>3. ASSUME NEW p \in Pids, Child(p) PROVE IInv'
    BY <1>1, <1>3, ReportStep, PrctlStep, CheckParentStep, EndsStep DEF Child
<1>4. CASE ServerHandle
  <2>1. PICK r \in request : HandleLaunch(r) \/ HandleSignal(r) \/ HandleStatus(r) \/ HandleStop(r)
    BY <1>4 DEF ServerHandle
  <2>2. /\ srv = "alive" /\ UNCHANGED <<browser, clientVars, ended>>
        /\ r.pid \in Pids \cup {None}
    BY <1>4 DEF ServerHandle, IInv, TypeOK, Request
  <2>3. /\ Failed \in Reply /\ Failed.pid = None /\ Failed.progress_pid = None
        /\ NoMsg \in Reply /\ NoMsg.pid = None /\ NoMsg.progress_pid = None
    BY NoMsgTyped DEF Failed, NoMsg, Reply
  <2>4. CASE HandleLaunch(r)
    <3>1. CASE Respond(Failed) /\ UNCHANGED <<slot, progress, proc, gen>>
      <4>1. Answered(Failed)
        BY <2>1, <2>2, <2>3, <2>4, <3>1, NoneAssumption DEF Answered, HandleLaunch
      <4> QED BY <1>1, <2>3, <4>1, AnswerStep
    <3>2. CASE \E s \in Slots, p \in Pids : Launched(r, s, p)
        BY <1>1, <2>1, <3>2, LaunchStep
    <3> QED BY <2>2, <2>4, <3>1, <3>2 DEF HandleLaunch, Launched
  <2>5. CASE HandleSignal(r)
    <3>1. CASE SlotOf(r.pid) # {} /\ proc' \in {proc, Killed(proc, r.pid)} /\ Respond(NoMsg)
      <4>1. PICK s \in Slots : slot[s] = r.pid
        BY <3>1 DEF SlotOf
      <4>2. \/ proc' = proc
            \/ slot[s] # None /\ proc' = [proc EXCEPT ![slot[s]].st = "zombie",
                                                      ![slot[s]].status = "signal"]
        <5>1. CASE r.pid = None
            BY <3>1, <5>1, NoneAssumption DEF Killed, IInv, TypeOK
        <5>2. CASE r.pid # None
            BY <3>1, <4>1, <5>2 DEF Killed
        <5> QED BY <5>1, <5>2
      <4>3. Answered(NoMsg)
        BY <2>1, <2>2, <2>3, <2>5, <3>1, <4>2, NoneAssumption DEF Answered, HandleSignal
      <4> QED BY <1>1, <2>3, <4>3, AnswerStep
    <3>2. CASE Respond(Failed) /\ UNCHANGED proc
      <4>1. Answered(Failed)
        BY <2>1, <2>2, <2>3, <2>5, <3>2, NoneAssumption DEF Answered, HandleSignal
      <4> QED BY <1>1, <2>3, <4>1, AnswerStep
    <3> QED BY <2>5, <3>1, <3>2 DEF HandleSignal
  <2>6. CASE HandleStatus(r)
    <3>1. CASE Respond(NoMsg)
      <4>1. Answered(NoMsg)
        BY <2>1, <2>2, <2>3, <2>6, <3>1, NoneAssumption DEF Answered, HandleStatus
      <4> QED BY <1>1, <2>3, <4>1, AnswerStep
    <3>2. ASSUME NEW s \in Slots, slot[s] = r.pid,
                 Respond([NoMsg EXCEPT !.progress_pid = r.pid, !.progress = progress[s]])
          PROVE  IInv'
      <4> DEFINE M == [NoMsg EXCEPT !.progress_pid = r.pid, !.progress = progress[s]]
      <4>1. M \in Reply /\ M.pid = None /\ M.progress_pid = slot[s] /\ M.progress = progress[s]
        BY <2>2, <2>3, <3>2 DEF Reply, NoMsg, IInv, TypeOK
      <4> HIDE DEF M
      <4>2. \A t \in Slots : slot[s] # None /\ slot[t] = slot[s] => t = s
        BY <2>2 DEF IInv, Table
      <4>3. Answered(M)
        BY <2>1, <2>2, <2>6, <3>2, <4>1, <4>2 DEF Answered, HandleStatus, M
      <4> QED BY <1>1, <4>1, <4>3, AnswerStep
    <3> QED BY <2>6, <3>1, <3>2 DEF HandleStatus, SlotOf
  <2>7. CASE HandleStop(r)
    <3>1. Answered(NoMsg)
        BY <2>1, <2>2, <2>3, <2>7, NoneAssumption DEF Answered, HandleStop
    <3> QED BY <1>1, <2>3, <3>1, AnswerStep
  <2> QED BY <2>1, <2>4, <2>5, <2>6, <2>7
<1>5. CASE Server
    BY <1>1, <1>4, <1>5, ServerPrctlStep, ServerHelloStep, ReapStep, ShutdownStep DEF Server
<1>6. ASSUME NEW op \in {"launch", "status", "signal", "stop"}, NEW p, Send(op, p) PROVE IInv'
    BY <1>1, <1>6, SendStep, LoseServerStep DEF Send, Sent
<1>7. CASE Calls
    BY <1>1, <1>6, <1>7, StartStep DEF Calls, LaunchOhosForkChild, GetOhosForkChildStatus,
        SignalOhosForkChild, StopOhosForkServer
<1>8. CASE Returns
  <2>1. rpc.op \notin {"idle"} => sock
    BY DEF IInv, Protocol
  <2> QED BY <1>1, <1>8, <2>1, ReceiveStep, LoseServerStep DEF Returns, RpcFails, StopFinishes
<1>9. CASE UNCHANGED vars
    BY <1>1, <1>9 DEF IInv, Protocol, NoOrphanRuns, Table, Records, Distinct, Truthful, InSync, Told,
        LaunchReply, SlotOf, ProgressTrue, ExactStatus, NoLostExit, StageReached, vars, clientVars,
        serverVars, channel, history
<1> QED BY <1>2, <1>3, <1>5, <1>7, <1>8, <1>9 DEF Next

(* Before StartOhosForkServer there is nothing to disagree about.           *)
LEMMA InvInit == Init => IInv
<1> SUFFICES ASSUME Init PROVE IInv
    OBVIOUS
<1>1. TypeOK
    BY TypeInit
<1>2. \A p \in Pids : entry[p] = NoEntry /\ proc[p] = Free /\ gen[p] = 0
    BY DEF Init
<1>3. ~NoEntry.known /\ ~NoEntry.running /\ NoEntry.gen = 0 /\ Free.st = "free"
    BY DEF NoEntry, Free
<1>4. Protocol /\ NoOrphanRuns
    BY <1>2, <1>3 DEF Init, Protocol, NoOrphanRuns, Idle, Starting
<1>5. Table /\ Records
    BY <1>2, <1>3 DEF Init, Table, Ours, Alive, Records, Distinct, Truthful
<1>6. InSync /\ ProgressTrue
    BY <1>2, <1>3 DEF Init, InSync, ProgressTrue, LaunchReply
<1>7. ExactStatus /\ NoLostExit /\ StageReached
    BY <1>2, <1>3 DEF Init, ExactStatus, NoLostExit, StageReached
<1> QED BY <1>1, <1>4, <1>5, <1>6, <1>7 DEF IInv

(* IInv holds in every reachable state of the launcher.                     *)
THEOREM Invariance == Spec => []IInv
    BY InvInit, InvStep, PTL DEF Spec

-----------------------------------------------------------------------------
(* The results.                                                             *)

(* BindLifetime closes the parent-died-before-registration race for the     *)
(* server and for every child, wherever the deaths fall.                    *)
THEOREM LifetimesBound == Spec => []NoOrphanRuns
<1>1. IInv => NoOrphanRuns
    BY DEF IInv
<1> QED BY <1>1, Invariance, PTL

(* A status the browser reports is the exact status and last stage of the   *)
(* process it launched, for any number of PID reuses.                       *)
THEOREM StatusesExact == Spec => []ExactStatus
<1>1. IInv => ExactStatus
    BY DEF IInv
<1> QED BY <1>1, Invariance, PTL

(* While the server lives no exit is lost between its table and the browser.*)
THEOREM ExitsReported == Spec => []NoLostExit
<1>1. IInv => NoLostExit
    BY DEF IInv
<1> QED BY <1>1, Invariance, PTL

(* A reused slot shows nothing of its previous child.                       *)
THEOREM StagesReached == Spec => []StageReached
<1>1. IInv => StageReached
    BY DEF IInv
<1> QED BY <1>1, Invariance, PTL

(* Records that come from distinct slots are no more than the slots.        *)
LEMMA DistinctFit ==
    ASSUME NEW R \in SUBSET ExitRecord, Distinct(R)
    PROVE  Cardinality(R) <= Cardinality(Slots)
<1> DEFINE f == [x \in R |-> x.from]
<1>1. f \in Injection(R, Slots)
    BY DEF Injection, IsInjective, ExitRecord, Distinct
<1> HIDE DEF f
<1> QED BY <1>1, FS_Injection, ConstantsAssumption

(* Reply::exited has room for every record, for any kMaxChildren.           *)
THEOREM RecordsAlwaysFit == Spec => []RecordsFit
<1>1. IInv => RecordsFit
    BY DistinctFit DEF IInv, Records, RecordsFit, TypeOK, Reply
<1> QED BY <1>1, Invariance, PTL

(* No step of the launcher harms a process that is not its child.           *)
THEOREM ForeignNeverHarmed == Spec => ForeignUnharmed
<1>1. IInv /\ [Next]_vars =>
        [\A p \in Pids : proc[p].st = "foreign" => proc'[p].st \in {"foreign", "free"}]_vars
  <2> SUFFICES ASSUME IInv, Next, NEW p \in Pids, proc[p].st = "foreign"
               PROVE  proc'[p].st \in {"foreign", "free"}
    OBVIOUS
  <2>1. Free.st = "free" /\ proc \in [Pids -> Proc]
    BY DEF Free, IInv, TypeOK
  <2>2. srv # "gone" => SlotOf(p) = {}
    BY NoneAssumption DEF IInv, Table, SlotOf, Ours, Alive
  <2>3. OrphanedProcs[p] = proc[p]
    BY DEF OrphanedProcs
  <2>4. CASE Kernel
    BY <2>1, <2>3, <2>4 DEF Kernel, BrowserDies, ServerCrash, ServerDies, ForeignProcess
  <2>5. ASSUME NEW q \in Pids, Child(q) PROVE proc'[p] = proc[p]
    BY <2>1, <2>5 DEF Child, ReportOhosForkStage, ChildPrctl, ChildCheckParent, ChildEnds, Alive
  <2>6. CASE ServerHandle
    <3>1. PICK r \in request : HandleLaunch(r) \/ HandleSignal(r) \/ HandleStatus(r) \/ HandleStop(r)
        BY <2>6 DEF ServerHandle
    <3>2. CASE HandleLaunch(r)
        BY <2>1, <3>2 DEF HandleLaunch
    <3>3. CASE HandleSignal(r)
        BY <2>1, <2>2, <2>6, <3>3 DEF HandleSignal, Killed, ServerHandle
    <3> QED BY <3>1, <3>2, <3>3 DEF HandleStatus, HandleStop
  <2>7. CASE Server
    BY <2>1, <2>2, <2>6, <2>7 DEF Server, ServerPrctl, ServerHello, ReapServerChildren, ServerShutdown
  <2>8. CASE Calls
    BY <2>3, <2>8 DEF Calls, StartOhosForkServer, LaunchOhosForkChild, GetOhosForkChildStatus,
        SignalOhosForkChild, StopOhosForkServer, Send, LoseServer, ServerDies
  <2>9. CASE Returns
    BY <2>3, <2>9 DEF Returns, ReceiveReply, RpcFails, StopFinishes, LoseServer, ServerDies
  <2> QED BY <2>4, <2>5, <2>7, <2>8, <2>9 DEF Next
<1> QED BY <1>1, Invariance, PTL DEF Spec, ForeignUnharmed
=============================================================================
