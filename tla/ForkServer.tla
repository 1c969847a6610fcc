----------------------------- MODULE ForkServer -----------------------------
(***************************************************************************)
(* The phone fork launcher of overlay/base/process/fork_server_ohos.cc:    *)
(* the browser (client) asks a single-threaded server process, forked once *)
(* before Chromium starts, to fork, observe and signal child processes.    *)
(*                                                                         *)
(* Three programs interleave: the browser, whose calls are serialised by   *)
(* Client::mutex, so that at most one RPC is outstanding; the server loop; *)
(* and the children.  The operating system (process table, PID reuse,      *)
(* PR_SET_PDEATHSIG, the socket pair) is modelled from how the code uses   *)
(* it.  gen and ended, and the gen and from fields of records and entries,  *)
(* are history: they tell apart successive processes that got the same PID *)
(* and the slot a record came from, and no guard of the code reads them.   *)
(***************************************************************************)
EXTENDS Naturals, FiniteSets

CONSTANTS
    Pids,       \* process identifiers the kernel hands out, reused after reaping
    Slots,      \* the server's child table; kMaxChildren is Cardinality(Slots)
    MaxGen,     \* bound: how many processes may get the same PID
    MaxStage    \* bound: progress markers a child reports (OhosForkStage)

ASSUME ConstantsAssumption ==
    /\ IsFiniteSet(Pids) /\ IsFiniteSet(Slots)
    /\ MaxGen \in Nat /\ MaxStage \in Nat

None == "none"
ASSUME NoneAssumption == None \notin Pids

VARIABLES
    browser,    \* TRUE until the browser process dies
    attempted,  \* Client::attempted
    sock,       \* Client::socket is open
    rpc,        \* the call that holds Client::mutex
    entry,      \* Client::children, [known |-> FALSE] where there is no entry
    srv,        \* life of the server process
    slot,       \* ServerChild::pid, None when free
    progress,   \* ServerChild::progress, the word shared with the child
    pending,    \* exit records not yet carried by a reply
    request,    \* request queued in the socket
    reply,      \* reply queued in the socket
    proc,       \* the kernel's process table
    gen,        \* history: how many processes PID p has named
    ended       \* history: <<pid, gen, wait status, stage>> of every reaped child

clientVars == <<attempted, sock, rpc, entry>>
serverVars == <<srv, slot, progress, pending>>
channel    == <<request, reply>>
history    == <<gen, ended>>
vars == <<browser, clientVars, serverVars, channel, proc, history>>

(* Wait statuses: "exit" for WIFEXITED, "signal" for WIFSIGNALED; "lost" is the *)
(* client's -1, "the server was lost, not a clean exit".                       *)
WaitStatus == {"exit", "signal"}
Stage == 0..MaxStage
Gen == 0..MaxGen
ExitRecord == [pid : Pids, status : WaitStatus, stage : Stage, gen : Gen, from : Slots]
NoEntry == [known |-> FALSE, running |-> FALSE, status |-> "lost", stage |-> 0, gen |-> 0]
Entry == [known : BOOLEAN, running : BOOLEAN, status : WaitStatus \cup {"lost"},
          stage : Stage, gen : Gen]
Rpc == [op : {"idle", "hello", "launch", "status", "signal", "stop", "stopwait"},
        pid : Pids \cup {None}]
Request == [op : {"launch", "status", "signal", "stop"}, pid : Pids \cup {None}]
Reply == [error : BOOLEAN, pid : Pids \cup {None}, exited : SUBSET ExitRecord,
          progress_pid : Pids \cup {None}, progress : Stage]
NoMsg == [error |-> FALSE, pid |-> None, exited |-> {}, progress_pid |-> None, progress |-> 0]
Idle == [op |-> "idle", pid |-> None]

(* A child is "forked" until prctl, "armed" between prctl and the getppid check, *)
(* then "run"; "zombie" until waited for.  "foreign" is a process of somebody   *)
(* else that happens to have the PID.                                           *)
ProcState == {"free", "foreign", "forked", "armed", "run", "zombie"}
Free == [st |-> "free", status |-> "exit", stage |-> 0]
Proc == [st : ProcState, status : WaitStatus, stage : Stage]
Alive == {"forked", "armed", "run"}
ServerState == {"none", "forked", "armed", "alive", "stopping", "gone"}

Init ==
    /\ browser = TRUE /\ attempted = FALSE /\ sock = FALSE
    /\ rpc = Idle
    /\ entry = [p \in Pids |-> NoEntry]
    /\ srv = "none"
    /\ slot = [s \in Slots |-> None]
    /\ progress = [s \in Slots |-> 0]
    /\ pending = {}
    /\ request = {} /\ reply = {}
    /\ proc = [p \in Pids |-> Free]
    /\ gen = [p \in Pids |-> 0]
    /\ ended = {}

-----------------------------------------------------------------------------
(* The kernel.                                                              *)

(* What the death of the server does to its children: those that called    *)
(* prctl get SIGKILL, zombies and the killed are reaped by init, a child    *)
(* that has not reached prctl lives on with another parent.                 *)
OrphanedProcs ==
    [p \in Pids |-> IF proc[p].st \in {"armed", "run", "zombie"} THEN Free ELSE proc[p]]

(* SIGKILL or SIGTERM delivered to the process that has PID p now.          *)
Killed(table, p) ==
    IF table[p].st \in Alive \cup {"foreign"}
    THEN [table EXCEPT ![p].st = "zombie", ![p].status = "signal"]
    ELSE table

ServerDies == srv' = "gone" /\ proc' = OrphanedProcs

(* Another program of the system starts or ends under a PID.                *)
ForeignProcess(p) ==
    /\ \/ proc[p].st = "free" /\ proc' = [proc EXCEPT ![p] = [Free EXCEPT !.st = "foreign"]]
       \/ proc[p].st = "foreign" /\ proc' = [proc EXCEPT ![p] = Free]
    /\ UNCHANGED <<browser, clientVars, serverVars, channel, history>>

(* The browser is killed: its sockets close, and the server is killed with  *)
(* it from its own prctl on.                                                *)
BrowserDies ==
    /\ browser
    /\ browser' = FALSE /\ sock' = FALSE
    /\ rpc' = Idle
    /\ request' = {} /\ reply' = {}
    /\ IF srv \in {"armed", "alive", "stopping"}
       THEN ServerDies
       ELSE UNCHANGED <<srv, proc>>
    /\ UNCHANGED <<attempted, entry, slot, progress, pending, history>>

(* The server dies unexpectedly (crash, low memory kill).                   *)
ServerCrash ==
    /\ srv \in {"forked", "armed", "alive", "stopping"}
    /\ ServerDies
    /\ UNCHANGED <<browser, clientVars, slot, progress, pending, channel, history>>

-----------------------------------------------------------------------------
(* The children: RunChild.                                                  *)

SlotOf(p) == {s \in Slots : slot[s] = p}

(* ReportOhosForkStage: the child stores its next stage in its shared word. *)
ReportOhosForkStage(p) ==
    /\ proc[p].st \in Alive
    /\ proc[p].stage < MaxStage
    /\ proc' = [proc EXCEPT ![p].stage = @ + 1]
    /\ progress' = IF srv = "gone" THEN progress
                   ELSE [s \in Slots |-> IF slot[s] = p THEN proc[p].stage + 1 ELSE progress[s]]
    /\ UNCHANGED <<browser, clientVars, srv, slot, pending, channel, history>>

(* BindLifetime, first half: prctl(PR_SET_PDEATHSIG, SIGKILL).              *)
ChildPrctl(p) ==
    /\ proc[p].st = "forked"
    /\ proc' = [proc EXCEPT ![p].st = "armed"]
    /\ UNCHANGED <<browser, clientVars, serverVars, channel, history>>

(* Mutant: the child does not look at getppid() after prctl.                *)
ChildCheckParent_Unchecked(p) ==
    /\ proc[p].st = "armed"
    /\ proc' = [proc EXCEPT ![p].st = "run"]
    /\ UNCHANGED <<browser, clientVars, serverVars, channel, history>>

(* BindLifetime, second half: getppid() == parent, else _exit(77).  Once    *)
(* the server is gone, init reaps the child.                                *)
ChildCheckParent(p) ==
    /\ proc[p].st = "armed"
    /\ proc' = IF srv = "gone" THEN [proc EXCEPT ![p] = Free]
                               ELSE [proc EXCEPT ![p].st = "run"]
    /\ UNCHANGED <<browser, clientVars, serverVars, channel, history>>

(* The child returns from its entry point, fails to load it (_exit(78)) or  *)
(* crashes.                                                                 *)
ChildEnds(p) ==
    /\ proc[p].st \in Alive
    /\ \E status \in WaitStatus :
          proc' = IF srv = "gone" THEN [proc EXCEPT ![p] = Free]
                  ELSE [proc EXCEPT ![p].st = "zombie", ![p].status = status]
    /\ UNCHANGED <<browser, clientVars, serverVars, channel, history>>

-----------------------------------------------------------------------------
(* The server: ServerLoop.                                                  *)

ServerPrctl ==
    /\ srv = "forked"
    /\ srv' = "armed"
    /\ UNCHANGED <<browser, clientVars, slot, progress, pending, channel, proc, history>>

(* Second half of the server's BindLifetime, then the hello reply; an       *)
(* orphaned server, or one that cannot set up, leaves with _exit(79).       *)
ServerHello ==
    /\ srv = "armed"
    /\ \/ /\ browser
          /\ srv' = "alive"
          /\ reply' = {NoMsg}
       \/ /\ srv' = "gone"
          /\ UNCHANGED reply
    /\ UNCHANGED <<browser, clientVars, slot, progress, pending, request, proc, history>>

(* One exit record per zombie found, its slot freed.  The loop also reaps   *)
(* while idle (poll of 100 ms), so this is an action of its own; a child    *)
(* that dies after the pass is still in the table when a request is handled.*)
ReapServerChildren ==
    LET dead == {s \in Slots : slot[s] # None /\ proc[slot[s]].st = "zombie"}
    IN /\ srv = "alive"
       /\ dead # {}
       /\ pending' = pending \cup
             {[pid |-> slot[s], status |-> proc[slot[s]].status, stage |-> progress[s],
               gen |-> gen[slot[s]], from |-> s] : s \in dead}
       /\ ended' = ended \cup {<<slot[s], gen[slot[s]], proc[slot[s]].status,
                                 proc[slot[s]].stage>> : s \in dead}
       /\ proc' = [p \in Pids |-> IF \E s \in dead : slot[s] = p THEN Free ELSE proc[p]]
       /\ slot' = [s \in Slots |-> IF s \in dead THEN None ELSE slot[s]]
       /\ UNCHANGED <<browser, clientVars, srv, progress, channel, gen>>

(* Mutants: the records stay pending after the send; an error reply does    *)
(* not start from them.                                                     *)
Respond_KeepsPending(fields) ==
    /\ reply' = {[fields EXCEPT !.exited = pending]}
    /\ request' = {}
    /\ UNCHANGED pending
Respond_ErrorDropsExits(fields) ==
    /\ reply' = {[fields EXCEPT !.exited = IF fields.error THEN {} ELSE pending]}
    /\ pending' = {}
    /\ request' = {}

(* A reply carries every pending record and clears them.                    *)
Respond(fields) ==
    /\ reply' = {[fields EXCEPT !.exited = pending]}
    /\ pending' = {}
    /\ request' = {}
Failed == [NoMsg EXCEPT !.error = TRUE]

(* Mutant: the slot's progress word is not reset before the fork.           *)
HandleLaunch_KeepsProgress(r) ==
    /\ r.op = "launch"
    /\ \E s \in Slots, p \in Pids :
          /\ slot[s] = None
          /\ proc[p].st = "free" /\ gen[p] < MaxGen
          /\ slot' = [slot EXCEPT ![s] = p]
          /\ proc' = [proc EXCEPT ![p] = [Free EXCEPT !.st = "forked"]]
          /\ gen' = [gen EXCEPT ![p] = @ + 1]
          /\ Respond([NoMsg EXCEPT !.pid = p])
    /\ UNCHANGED <<srv, progress>>

(* kLaunch: the first free slot takes the child; EAGAIN without one, and    *)
(* the error of dup or fork otherwise.                                      *)
HandleLaunch(r) ==
    /\ r.op = "launch"
    /\ \/ \E s \in Slots, p \in Pids :
             /\ slot[s] = None
             /\ proc[p].st = "free" /\ gen[p] < MaxGen
             /\ slot' = [slot EXCEPT ![s] = p]
             /\ progress' = [progress EXCEPT ![s] = 0]
             /\ proc' = [proc EXCEPT ![p] = [Free EXCEPT !.st = "forked"]]
             /\ gen' = [gen EXCEPT ![p] = @ + 1]
             /\ Respond([NoMsg EXCEPT !.pid = p])
       \/ /\ Respond(Failed)
          /\ UNCHANGED <<slot, progress, proc, gen>>
    /\ UNCHANGED srv

(* Mutant: the PID is signalled whether or not it is in the table.          *)
HandleSignal_Unowned(r) ==
    /\ r.op = "signal"
    /\ proc' = Killed(proc, r.pid) /\ Respond(NoMsg)
    /\ UNCHANGED <<srv, slot, progress, gen>>

(* kSignal: only to a PID in the table; a child may catch SIGTERM.          *)
HandleSignal(r) ==
    /\ r.op = "signal"
    /\ IF SlotOf(r.pid) # {}
       THEN proc' \in {proc, Killed(proc, r.pid)} /\ Respond(NoMsg)
       ELSE Respond(Failed) /\ UNCHANGED proc
    /\ UNCHANGED <<srv, slot, progress, gen>>

(* kStatus: the child's progress word, if it is still in the table.         *)
HandleStatus(r) ==
    /\ r.op = "status"
    /\ \/ \E s \in SlotOf(r.pid) :
             Respond([NoMsg EXCEPT !.progress_pid = r.pid, !.progress = progress[s]])
       \/ SlotOf(r.pid) = {} /\ Respond(NoMsg)
    /\ UNCHANGED <<srv, slot, progress, proc, gen>>

HandleStop(r) ==
    /\ r.op = "stop"
    /\ Respond(NoMsg)
    /\ srv' = "stopping"
    /\ UNCHANGED <<slot, progress, proc, gen>>

ServerHandle ==
    /\ srv = "alive"
    /\ \E r \in request :
          HandleLaunch(r) \/ HandleSignal(r) \/ HandleStatus(r) \/ HandleStop(r)
    /\ UNCHANGED <<browser, clientVars, ended>>

(* After kStop: kill and reap every child, then exit.  End of file on the   *)
(* socket leads here too, but whoever closes the socket (LoseServer, the    *)
(* browser's death) also kills the server.                                  *)
ServerShutdown ==
    /\ srv = "stopping"
    /\ srv' = "gone"
    /\ proc' = [p \in Pids |-> IF SlotOf(p) # {} THEN Free ELSE proc[p]]
    /\ UNCHANGED <<browser, clientVars, slot, progress, pending, channel, history>>

-----------------------------------------------------------------------------
(* The browser.                                                             *)

(* StartOhosForkServer: once, whatever comes of it.                         *)
StartOhosForkServer ==
    /\ browser /\ rpc.op = "idle" /\ ~sock /\ ~attempted
    /\ attempted' = TRUE
    /\ \/ /\ srv' = "forked" /\ sock' = TRUE
          /\ rpc' = [op |-> "hello", pid |-> None]
       \/ UNCHANGED <<srv, sock, rpc>>
    /\ UNCHANGED <<browser, entry, slot, progress, pending, channel, proc, history>>

(* Mutant: the children of a lost server stay marked as running.            *)
LoseServer_KeepsRunning ==
    /\ sock' = FALSE
    /\ rpc' = Idle
    /\ request' = {} /\ reply' = {}
    /\ IF srv \in {"forked", "armed", "alive", "stopping"}
       THEN ServerDies
       ELSE UNCHANGED <<srv, proc>>
    /\ UNCHANGED <<browser, attempted, entry, slot, progress, pending, history>>

(* LoseServer: close the channel, kill and reap the server, and mark every  *)
(* child whose exit was not reported as lost.                               *)
LoseServer ==
    /\ sock' = FALSE
    /\ rpc' = Idle
    /\ request' = {} /\ reply' = {}
    /\ IF srv \in {"forked", "armed", "alive", "stopping"}
       THEN ServerDies
       ELSE UNCHANGED <<srv, proc>>
    /\ entry' = [p \in Pids |->
                    IF entry[p].running
                    THEN [entry[p] EXCEPT !.running = FALSE, !.status = "lost"]
                    ELSE entry[p]]
    /\ UNCHANGED <<browser, attempted, slot, progress, pending, history>>

(* SendRequest succeeds while the server, or a child that has not closed    *)
(* its copy yet, holds the other end; the failure, EPIPE, costs the server. *)
Send(op, p) ==
    /\ rpc.op = "idle" /\ browser
    /\ sock
    /\ \/ /\ srv # "gone" \/ \E q \in Pids : proc[q].st = "forked"
          /\ rpc' = [op |-> op, pid |-> p]
          /\ request' = {[op |-> op, pid |-> p]}
          /\ UNCHANGED <<browser, attempted, sock, entry, serverVars, reply, proc, history>>
       \/ /\ srv = "gone"
          /\ LoseServer

LaunchOhosForkChild == Send("launch", None)
GetOhosForkChildStatus(p) == entry[p].running /\ Send("status", p)
SignalOhosForkChild(p) == entry[p].running /\ Send("signal", p)
StopOhosForkServer == Send("stop", None)

(* ReadReply: exit records first, then the progress of a child that is      *)
(* still running.                                                           *)
WithExits(m) ==
    [p \in Pids |->
        IF entry[p].known /\ \E x \in m.exited : x.pid = p
        THEN LET x == CHOOSE x \in m.exited : x.pid = p
             IN [entry[p] EXCEPT !.running = FALSE, !.status = x.status, !.stage = x.stage]
        ELSE entry[p]]
ReadReply(m) ==
    [p \in Pids |->
        IF p = m.progress_pid /\ WithExits(m)[p].running
        THEN [WithExits(m)[p] EXCEPT !.stage = m.progress]
        ELSE WithExits(m)[p]]

(* Mutant: the new child is recorded before the exits of the reply.         *)
ReceiveReply_LaunchFirst ==
    /\ browser /\ rpc.op \in {"hello", "launch", "status", "signal", "stop"}
    /\ \E m \in reply :
          /\ entry' = IF rpc.op = "launch" /\ ~m.error /\ m.pid # None
                         /\ ~\E x \in m.exited : x.pid = m.pid
                      THEN [ReadReply(m) EXCEPT ![m.pid] =
                               [known |-> TRUE, running |-> TRUE, status |-> "lost",
                                stage |-> 0, gen |-> gen[m.pid]]]
                      ELSE [p \in Pids |-> IF p = m.pid
                              THEN [ReadReply(m)[p] EXCEPT !.known = TRUE, !.gen = gen[p]]
                              ELSE ReadReply(m)[p]]
          /\ rpc' = IF rpc.op = "stop" THEN [op |-> "stopwait", pid |-> None] ELSE Idle
    /\ reply' = {}
    /\ UNCHANGED <<browser, attempted, sock, serverVars, request, proc, history>>

(* The caller's part after ReadReply: LaunchOhosForkChild records the new   *)
(* child over whatever the PID meant before; StopOhosForkServer goes on to  *)
(* wait for the server.                                                     *)
ReceiveReply ==
    /\ browser /\ rpc.op \in {"hello", "launch", "status", "signal", "stop"}
    /\ \E m \in reply :
          /\ entry' = IF rpc.op = "launch" /\ ~m.error /\ m.pid # None
                      THEN [ReadReply(m) EXCEPT ![m.pid] =
                               [known |-> TRUE, running |-> TRUE, status |-> "lost",
                                stage |-> 0, gen |-> gen[m.pid]]]
                      ELSE ReadReply(m)
          /\ rpc' = IF rpc.op = "stop" THEN [op |-> "stopwait", pid |-> None] ELSE Idle
    /\ reply' = {}
    /\ UNCHANGED <<browser, attempted, sock, serverVars, request, proc, history>>

(* Mutant: no timeout, only a closed channel ends the wait.                 *)
RpcFails_NoTimeout ==
    /\ browser /\ rpc.op \in {"hello", "launch", "status", "signal", "stop"}
    /\ reply = {} /\ srv = "gone"
    /\ LoseServer

(* No reply: kRpcTimeoutMs elapsed, or the server's end was closed.         *)
RpcFails ==
    /\ browser /\ rpc.op \in {"hello", "launch", "status", "signal", "stop"}
    /\ reply = {}
    /\ LoseServer

(* StopOhosForkServer after its RPC: the server was seen to exit, or three  *)
(* seconds passed; LoseServer either way.                                   *)
StopFinishes ==
    /\ browser /\ rpc.op = "stopwait"
    /\ LoseServer

-----------------------------------------------------------------------------
Kernel == BrowserDies \/ ServerCrash \/ \E p \in Pids : ForeignProcess(p)
Child(p) ==
    ReportOhosForkStage(p) \/ ChildPrctl(p) \/ ChildCheckParent(p) \/ ChildEnds(p)
Server == ServerPrctl \/ ServerHello \/ ReapServerChildren \/ ServerHandle \/ ServerShutdown
Calls ==
    \/ StartOhosForkServer \/ LaunchOhosForkChild \/ StopOhosForkServer
    \/ \E p \in Pids : GetOhosForkChildStatus(p) \/ SignalOhosForkChild(p)
Returns == ReceiveReply \/ RpcFails \/ StopFinishes

Next == Kernel \/ Server \/ Calls \/ Returns \/ \E p \in Pids : Child(p)

Spec == Init /\ [][Next]_vars

(* Fairness: the browser's poll and 3 s wait are bounded, so a call that   *)
(* was made returns; a scheduled process runs, so BindLifetime completes and *)
(* the server keeps reaping and answering.  A thread in WaitForOhosForkChild *)
(* polls every 10 ms and, among the users of Client::mutex, gets its turn.   *)
(* Nothing obliges the application to launch, or a child to end.             *)
Fairness ==
    /\ WF_vars(Returns)
    /\ WF_vars(ReapServerChildren) /\ WF_vars(ServerHandle) /\ WF_vars(ServerShutdown)
    /\ \A p \in Pids :
          /\ WF_vars(ChildPrctl(p)) /\ WF_vars(ChildCheckParent(p))
          /\ SF_vars(GetOhosForkChildStatus(p))
FairSpec == Spec /\ Fairness

-----------------------------------------------------------------------------
(* Properties.                                                              *)

(* Every variable holds what the types of fork_server_ohos.cc allow.        *)
TypeOK ==
    /\ browser \in BOOLEAN /\ attempted \in BOOLEAN /\ sock \in BOOLEAN
    /\ rpc \in Rpc
    /\ entry \in [Pids -> Entry]
    /\ srv \in ServerState
    /\ slot \in [Slots -> Pids \cup {None}]
    /\ progress \in [Slots -> Stage]
    /\ pending \subseteq ExitRecord
    /\ request \subseteq Request /\ reply \subseteq Reply
    /\ proc \in [Pids -> Proc]
    /\ gen \in [Pids -> Gen]
    /\ ended \subseteq Pids \X Gen \X WaitStatus \X Stage

(* BindLifetime: no server serves without its browser and no child gets     *)
(* past the parent check without its server, whenever each of them dies.    *)
NoOrphanRuns ==
    /\ srv \in {"alive", "stopping"} => browser
    /\ \A p \in Pids : proc[p].st = "run" => srv \in {"alive", "stopping"}

(* "Preserve exact statuses": an exit the browser believes in is the exit,  *)
(* with the last stage, of the very process it launched, whatever the PID   *)
(* was reused for and however replies carry old exits beside new launches.  *)
ExactStatus ==
    \A p \in Pids :
        entry[p].known /\ ~entry[p].running /\ entry[p].status # "lost"
            => <<p, entry[p].gen, entry[p].status, entry[p].stage>> \in ended

(* While the channel is open, a child the browser counts as running is      *)
(* still in the server's table or its exit record is on the way.            *)
NoLostExit ==
    \A p \in Pids : sock /\ entry[p].running /\ srv # "gone" =>
        \/ SlotOf(p) # {} /\ gen[p] = entry[p].gen
        \/ \E x \in pending \cup UNION {m.exited : m \in reply} :
              x.pid = p /\ x.gen = entry[p].gen

(* "At most kMaxChildren records, because these slots are reused only after *)
(* send": Reply::exited never overflows.                                    *)
RecordsFit ==
    /\ Cardinality(pending) <= Cardinality(Slots)
    /\ \A m \in reply : Cardinality(m.exited) <= Cardinality(Slots)

(* A signal the browser sends never hits a process of somebody else that    *)
(* got the PID of a child already reaped.                                   *)
ForeignUnharmed ==
    [][\A p \in Pids : proc[p].st = "foreign" => proc'[p].st \in {"foreign", "free"}]_vars

(* A stage the browser shows was reached by that very child: the progress   *)
(* word of a reused slot shows nothing of the child that had it before.     *)
StageReached ==
    \A p \in Pids :
        entry[p].running /\ gen[p] = entry[p].gen /\ proc[p].st \in Alive
            => entry[p].stage <= proc[p].stage

(* A call of the browser returns: nobody holds Client::mutex for ever.      *)
CallsReturn == rpc.op # "idle" ~> rpc.op = "idle"

(* No child outlives the server for ever, even one forked as it died.       *)
ChildrenFollowServer ==
    srv = "gone" ~> \A p \in Pids : proc[p].st \notin Alive

(* WaitForOhosForkChild: once a child has ended, a browser that keeps       *)
(* polling learns it, exactly or as a lost server.                          *)
WaitReturns ==
    \A p \in Pids, g \in 1..MaxGen :
        entry[p].running /\ entry[p].gen = g /\ (gen[p] # g \/ proc[p].st \notin Alive)
            ~> ~entry[p].running \/ entry[p].gen # g \/ ~browser
=============================================================================
