-------------------------- MODULE OverlayChannel --------------------------
(***************************************************************************)
(* Web pages and videos as two planes that the system's render service     *)
(* puts together.  The Presenter in the GPU process sends each frame over  *)
(* a socket to the Host of the window on the browser's UI thread, which    *)
(* submits it to a session of the render service and replies when it is    *)
(* accepted, when its commands were processed, and once per plane when the *)
(* buffer is read no longer (ohos_overlay_presenter.cc,                    *)
(* ohos_overlay_host.cc, ohos_overlay_host_channel.h).                     *)
(*                                                                         *)
(* The GPU process dies, outputs time out and are made anew, and the       *)
(* window's content is detached, at any time.  A buffer is named by the    *)
(* output or the GPU process that allocated it.  Videos are the software   *)
(* kind, whose buffers are written again and again.                        *)
(***************************************************************************)
EXTENDS OverlaySession

CONSTANTS
    Buffers,        \* the primary buffers of an output, in a queue
    Videos,         \* the video buffers of a GPU process
    MaxFlights,     \* frames that a presenter keeps track of
    MaxOutgoing,    \* replies that a host keeps for a full socket
    MaxSwaps,       \* bound of the display compositor: frames not yet swapped
    MaxFrames,      \* bound: frames of each output
    MaxDetach       \* bound: times that the content is detached

VARIABLES
    gpu,        \* GPU process
    out,        \* the last output, whose presenter may be open
    presenter,  \* its presenter
    queue,      \* BufferQueue: buffers to draw into, in flight and on screen
    reads,      \* per video buffer, reads that keep it from being written
    up, down,   \* the socket to the host and back
    host,       \* the Host of the window
    session,    \* its session
    detaches    \* times that the content was detached

vars == <<gpu, out, presenter, queue, reads, up, down, host, session, detaches>>

(* What the buffers of a plane are called, and the frames on their way.     *)
Names(i) == IF i = 0 THEN {"primary"} \X Nat \X Range(Buffers) ELSE {"video"} \X Nat \X Videos
PlaneSet(i) == [buf : Names(i), reuse : BOOLEAN, content : Nat]
FrameSet ==
    LET P == PlaneSet(0) \cup PlaneSet(1)
    IN {f \in [{0} -> P] \cup [Planes -> P] : \A i \in DOMAIN f : f[i] \in PlaneSet(i)}
MessageSet == [op : {"frame"}, seq : Nat, frame : FrameSet]

ASSUME ConstantsAssumption ==
    /\ Buffers \in Seq(Range(Buffers)) /\ IsInjective(Buffers)
    /\ MaxFrames \in Seq(Nat)
    /\ {MaxFlights, MaxOutgoing, MaxSwaps, MaxDetach} \subseteq Nat
    /\ None \notin Names(0) \cup Names(1) /\ None \notin MessageSet

(* What a host may owe the presenter at one time fits into its queue.       *)
ASSUME OutgoingAssumption == MaxOutgoing >= 2 * MaxAllocations + 4

NoPlane == [buf |-> None, content |-> 0]
NoPresenter(fault) ==
    [open |-> FALSE, invalid |-> FALSE, sequence |-> 0, sent |-> 0, flights |-> <<>>,
     last |-> [i \in Planes |-> NoPlane], fault |-> fault]
NewPresenter == [NoPresenter("none") EXCEPT !.open = TRUE]
NoQueue == [free |-> <<>>, flying |-> <<>>, shown |-> None]
NewQueue == [NoQueue EXCEPT !.free = Buffers]
NewHost ==
    [active |-> 0, waiting |-> 0, stopped |-> FALSE, detached |-> FALSE, closing |-> FALSE,
     processed |-> TRUE, sequence |-> 0, pending |-> None, outgoing |-> <<>>,
     current |-> [i \in Planes |-> NoPlane], exists |-> TRUE]

Init ==
    /\ gpu = 1 /\ out = 0
    /\ presenter = NoPresenter("none")
    /\ queue = NoQueue
    /\ reads = [v \in Videos |-> 0]
    /\ up = <<>> /\ down = <<>>
    /\ host = NewHost /\ session = NewSession
    /\ detaches = 0

-----------------------------------------------------------------------------
(* Presenter *)

(* BufferQueue takes the next free buffer, or shows the last one again.     *)
(* The video is absent, the last one again, or drawn into a buffer that     *)
(* nobody reads.                                                            *)
Drawn(redraw) ==
    IF redraw THEN {<<"primary", out, b>> : b \in {Head(queue.free)}}
    ELSE {presenter.last[0].buf} \ {None}
VideoDrawn(video) ==
    CASE video = "none" -> {None}
      [] video = "same" -> {presenter.last[1].buf} \ {None}
      [] video = "new"  -> {<<"video", gpu, v>> : v \in {v \in Videos : reads[v] = 0}}

(* Flights are kept by sequence number.  They are sent in order, so that    *)
(* those up to presenter.sent are.  A flight's planes, and whether each     *)
(* shows the content before it again.                                       *)
Plane(buf, reuse, last, seq) ==
    [buf |-> buf, reuse |-> reuse, content |-> IF reuse THEN last.content ELSE seq]

(* What each plane shows after a frame.                                     *)
Contents(frame) ==
    [i \in Planes |-> IF i \in DOMAIN frame
                      THEN [buf |-> frame[i].buf, content |-> frame[i].content]
                      ELSE NoPlane]

Present(redraw, video, valid) ==
    LET seq == presenter.sequence + 1
    IN /\ presenter.open /\ seq <= MaxFrames[out]
       /\ Len(queue.flying) < MaxSwaps
       /\ redraw => queue.free # <<>>
       /\ \E primary \in Drawn(redraw), v \in VideoDrawn(video) :
             LET frame == [i \in IF v = None THEN {0} ELSE Planes |->
                              IF i = 0 THEN Plane(primary, ~redraw, presenter.last[0], seq)
                              ELSE Plane(v, video = "same", presenter.last[1], seq)]
                 flight == [frame |-> frame, accepted |-> FALSE, processed |-> FALSE,
                            done |-> FALSE, released |-> Planes \ DOMAIN frame]
             IN /\ presenter' = [presenter EXCEPT
                       !.sequence = seq,
                       !.flights = [s \in DOMAIN @ \cup {seq} |-> IF s = seq THEN flight ELSE @[s]],
                       !.last = Contents(frame),
                       !.invalid = \/ @ \/ ~valid
                                   \/ Cardinality(DOMAIN presenter.flights) >= MaxFlights]
                /\ queue' = [queue EXCEPT !.flying = Append(@, primary),
                                          !.free = IF redraw THEN Tail(@) ELSE @]
                /\ reads' = IF v = None THEN reads ELSE [reads EXCEPT ![v[3]] = @ + 1]
       /\ UNCHANGED <<gpu, out, up, down, host, session, detaches>>

(* The socket closes and every frame is answered with SWAP_FAILED.  Reads   *)
(* are not given back: nobody said that they ended.  What was sent to a     *)
(* host that has not taken the socket yet can still be read there.          *)
Gone(fault) ==
    /\ presenter' = NoPresenter(fault)
    /\ queue' = NoQueue
    /\ down' = <<>>
    /\ up' = IF host.waiting = out THEN up ELSE <<>>
    /\ UNCHANGED <<out, host, session, detaches>>

Fail(fault) == Gone(fault) /\ UNCHANGED <<gpu, reads>>

HostClosed == out \notin {host.active, host.waiting}

(* The frames in the socket once it took n more.                            *)
Sending(n) ==
    up \o [k \in 1..n |-> [op |-> "frame", seq |-> presenter.sent + k,
                           frame |-> presenter.flights[presenter.sent + k].frame]]

Expected(f, r) ==
    CASE r.op = "accepted"  -> ~f.accepted
      [] r.op = "processed" -> f.accepted /\ ~f.processed
      [] r.op = "released"  -> f.accepted /\ r.plane \notin f.released
      [] OTHER -> FALSE

(* A flight after replies, and whether each of them found it expecting it.  *)
Apply(f, seq, replies) ==
    LET mine == {r \in Range(replies) : r.seq = seq}
    IN [f EXCEPT !.accepted = @ \/ \E r \in mine : r.op = "accepted",
                 !.processed = @ \/ \E r \in mine : r.op = "processed",
                 !.released = @ \cup {r.plane : r \in {r \in mine : r.op = "released"}}]

AllExpected(fs, replies) ==
    \A n \in DOMAIN replies :
        LET r == replies[n]
        IN /\ r.seq \in DOMAIN fs
           /\ Expected(Apply(fs[r.seq], r.seq, SubSeq(replies, 1, n - 1)), r)

(* The read of a software video ends with the release of its plane.         *)
ReadsAfter(fs, gs) ==
    [v \in Videos |-> reads[v] -
        Cardinality({s \in DOMAIN gs : /\ 1 \in gs[s].released \ fs[s].released
                                       /\ gs[s].frame[1].buf = <<"video", gpu, v>>})]

(* Mutant: only the frame right before is looked at.                        *)
Ready_Previous(fs, s) ==
    /\ fs[s].processed
    /\ s - 1 \in DOMAIN fs => \/ 0 \in fs[s - 1].released
                              \/ fs[s - 1].frame[0].content = fs[s].frame[0].content

(* Mutant: the replaced video must be released as well.                     *)
Ready_Video(fs, s) ==
    /\ fs[s].processed
    /\ \A t \in DOMAIN fs : t < s => \/ fs[t].released = Planes
                                     \/ fs[t].frame[0].content = fs[s].frame[0].content

(* A frame is swapped when its commands were processed and the primary      *)
(* buffer of every other content before it was released.                    *)
Ready(fs, s) ==
    /\ fs[s].processed
    /\ \A t \in DOMAIN fs : t < s => \/ 0 \in fs[t].released
                                     \/ fs[t].frame[0].content = fs[s].frame[0].content

Swapped(fs) ==
    {s \in DOMAIN fs : \A t \in DOMAIN fs : t <= s => fs[t].done \/ Ready(fs, t)}

(* BufferQueue at a SWAP_ACK, and after n of them: the buffer shown before  *)
(* is free again.                                                           *)
SwapAck(q) ==
    LET next == Head(q.flying)
    IN [free |-> IF q.shown \in {None, next} THEN q.free ELSE Append(q.free, q.shown[3]),
        flying |-> Tail(q.flying), shown |-> next]

SwapAcks(q, n) ==
    LET After[k \in 0..n] == IF k = 0 THEN q ELSE SwapAck(After[k - 1])
    IN After[n]

Unsent == (presenter.sent + 1)..presenter.sequence

(* Poll with a socket that takes n of the frames not sent yet.              *)
Poll(n) ==
    LET flights == presenter.flights
        got == [s \in DOMAIN flights |-> Apply(flights[s], s, down)]
        swapped == Swapped(got)
        marked == [s \in DOMAIN flights |-> [got[s] EXCEPT !.done = s \in swapped]]
    IN /\ presenter.open /\ ~presenter.invalid /\ presenter.sent + n <= presenter.sequence
       /\ \/ HostClosed /\ Fail("receive")
          \/ ~HostClosed /\ presenter.sent + n = presenter.sequence
             /\ ~AllExpected(flights, down) /\ Fail("reply")
          \/ /\ ~HostClosed /\ presenter.sent + n < presenter.sequence
             /\ up' = Sending(n)
             /\ presenter' = [presenter EXCEPT !.sent = @ + n]
             /\ UNCHANGED <<gpu, out, queue, reads, down, host, session, detaches>>
          \/ /\ ~HostClosed /\ presenter.sent + n = presenter.sequence
             /\ AllExpected(flights, down)
             /\ up' = Sending(n)
             /\ down' = <<>>
             /\ presenter' = [presenter EXCEPT
                    !.sent = presenter.sequence,
                    !.flights = RestrictValues(marked, LAMBDA f : ~(f.done /\ f.released = Planes))]
             /\ queue' = SwapAcks(queue, Cardinality({s \in swapped : ~flights[s].done}))
             /\ reads' = ReadsAfter(flights, got)
             /\ UNCHANGED <<gpu, out, host, session, detaches>>

PollInvalid == presenter.open /\ presenter.invalid /\ Fail("none")

(* A frame was not swapped within 10 seconds.                               *)
PollTimeout ==
    /\ presenter.open /\ ~presenter.invalid
    /\ \E s \in DOMAIN presenter.flights : ~presenter.flights[s].done
    /\ Fail("none")

(* The output is given up for another reason: the presenter is destroyed.   *)
DestroyPresenter == presenter.open /\ Fail("none")

(* The GPU process dies with its buffers; another is started.               *)
GpuDies ==
    /\ presenter.open
    /\ gpu' = gpu + 1
    /\ reads' = [v \in Videos |-> 0]
    /\ Gone("none")

(* The next output asks for a socket: HostChannel::Connect, on another      *)
(* thread.  The sockets before it are lost, as their presenters are gone.   *)
Connect ==
    /\ ~presenter.open /\ out < Len(MaxFrames)
    /\ host.exists /\ ~host.detached /\ ~host.stopped
    /\ out' = out + 1
    /\ presenter' = NewPresenter
    /\ host' = [host EXCEPT !.waiting = out + 1]
    /\ queue' = NewQueue
    /\ up' = <<>> /\ down' = <<>>
    /\ UNCHANGED <<gpu, reads, session, detaches>>

-----------------------------------------------------------------------------
(* Host *)

(* Mutant: the session goes on, for the next output.                        *)
Disconnect_KeepsSession(h) ==
    [h EXCEPT !.active = 0, !.outgoing = <<>>, !.pending = None, !.sequence = 0,
              !.current = [i \in Planes |-> NoPlane]]

Disconnect(h) ==
    [h EXCEPT !.active = 0, !.closing = TRUE, !.outgoing = <<>>, !.pending = None,
              !.current = [i \in Planes |-> NoPlane]]

Stop(h) == [h EXCEPT !.stopped = TRUE, !.waiting = 0]

Reply(h, replies) ==
    IF h.active = 0 THEN h
    ELSE IF Len(h.outgoing) + Len(replies) > MaxOutgoing THEN Disconnect(h)
    ELSE [h EXCEPT !.outgoing = @ \o replies]

Releases(s) ==
    LET retired == SetToSeq(Retired(s))
    IN [k \in DOMAIN retired |-> [op |-> "released", seq |-> retired[k].seq, plane |-> retired[k].plane]]

Lost(socket) == socket # out \/ ~presenter.open

(* The content was detached or the peer is gone.                            *)
TickLost(h) ==
    LET stopped == IF h.detached THEN Disconnect(Stop(h)) ELSE h
    IN IF stopped.active # 0 /\ Lost(stopped.active) THEN Disconnect(stopped) ELSE stopped

TickPoll(h, polled) ==
    LET released == Reply(h, Releases(session))
    IN IF ~h.processed /\ CommandsProcessed(polled)
       THEN [Reply(released, <<[op |-> "processed", seq |-> h.sequence]>>) EXCEPT !.processed = TRUE]
       ELSE released

Activate(h) ==
    IF h.stopped \/ h.active # 0 \/ h.waiting = 0 THEN h
    ELSE [h EXCEPT !.active = h.waiting, !.waiting = 0]

(* A plane shown again must be the one the host shows.                      *)
Imported(h, frame) ==
    \A i \in DOMAIN frame : frame[i].reuse => h.current[i].content = frame[i].content

(* Host::Submit of the pending frame: the host, and the session.            *)
Submit(h, s) ==
    LET m == h.pending
        polled == PollSession(s)
        result == IF Imported(h, m.frame) THEN SubmitResult(polled, m.frame) ELSE "unsupported"
        after == IF Imported(h, m.frame) THEN polled ELSE s
        told == Reply(h, IF Imported(h, m.frame) THEN Releases(s) ELSE <<>>)
        answer(op) == [op |-> op, seq |-> m.seq]
    IN CASE result = "accepted" ->
              [host |-> Reply([told EXCEPT !.pending = None, !.processed = FALSE,
                                           !.current = Contents(m.frame)],
                              <<answer("accepted")>>),
               session |-> Accept(after, m.frame, m.seq)]
         [] result = "busy" -> [host |-> told, session |-> after]
         [] OTHER -> [host |-> Reply([told EXCEPT !.pending = None], <<answer("rejected")>>),
                      session |-> after]

(* The session has closed: the host gets another, or goes with its content. *)
TickClosed(h) ==
    /\ host' = IF h.detached THEN [Stop(h) EXCEPT !.exists = FALSE]
               ELSE [h EXCEPT !.closing = FALSE, !.processed = TRUE, !.sequence = 0]
    /\ session' = NewSession
    /\ UNCHANGED <<up, down>>

(* Tick with a socket that takes the replies or is full.                    *)
TickServe(h, s, full) ==
    LET h1 == [h EXCEPT !.outgoing = <<>>]
        m == Head(up)
        h2 == IF h.pending # None THEN h1 ELSE [h1 EXCEPT !.pending = m, !.sequence = m.seq]
    IN \/ /\ h.active = 0 \/ (full /\ h.outgoing # <<>>)
          /\ host' = h /\ session' = s
          /\ UNCHANGED <<up, down>>
       \/ /\ h.active # 0 /\ ~(full /\ h.outgoing # <<>>)
          /\ down' = down \o h.outgoing
          /\ \/ /\ ~h.processed \/ (h.pending = None /\ up = <<>>)
                /\ host' = IF h.processed /\ Lost(h.active) THEN Disconnect(h1) ELSE h1
                /\ session' = s
                /\ UNCHANGED up
             \/ /\ h.processed /\ h.pending = None /\ up # <<>> /\ m.seq <= h.sequence
                /\ host' = Disconnect(h1) /\ session' = s /\ up' = Tail(up)
             \/ /\ h.processed
                /\ h.pending = None => up # <<>> /\ m.seq > h.sequence
                /\ host' = Submit(h2, s).host /\ session' = Submit(h2, s).session
                /\ up' = IF h.pending = None THEN Tail(up) ELSE up

Tick(full) ==
    /\ host.exists
    /\ \E lost \in {TickLost(host)} :
       \E polled \in {PollSession(IF lost.closing THEN Close(session) ELSE session)} :
       \E h \in {TickPoll(lost, polled)} :
          \/ h.closing /\ polled.state = "closed" /\ TickClosed(h)
          \/ h.closing /\ polled.state # "closed" /\ host' = h /\ session' = polled
                       /\ UNCHANGED <<up, down>>
          \/ ~h.closing /\ TickServe(Activate(h), polled, full)
    /\ UNCHANGED <<gpu, out, presenter, queue, reads, detaches>>

(* DetachContent, from another thread; AttachContent once the old host went.*)
DetachContent ==
    /\ host.exists /\ ~host.detached /\ detaches < MaxDetach
    /\ host' = [host EXCEPT !.detached = TRUE]
    /\ detaches' = detaches + 1
    /\ UNCHANGED <<gpu, out, presenter, queue, reads, up, down, session>>

AttachContent ==
    /\ ~host.exists
    /\ host' = NewHost /\ session' = NewSession
    /\ UNCHANGED <<gpu, out, presenter, queue, reads, up, down, detaches>>

-----------------------------------------------------------------------------
(* The render service *)

Serve(s) == session' = s /\ UNCHANGED <<gpu, out, presenter, queue, reads, up, down, host, detaches>>

RsApply == host.exists /\ session.commands # <<>> /\ Serve(RsApplied(session))

RsComplete == /\ host.exists /\ session.commands = <<>> /\ ~session.acked
              /\ Serve([session EXCEPT !.acked = TRUE])

RsReturn == host.exists /\ \E l \in Returnable(session) : Serve(Move(session, {l}, "returned"))

Next ==
    \/ \E redraw, valid \in BOOLEAN, video \in {"none", "same", "new"} : Present(redraw, video, valid)
    \/ \E n \in 0..MaxSwaps : Poll(n)
    \/ PollInvalid \/ PollTimeout \/ DestroyPresenter \/ GpuDies \/ Connect
    \/ \E full \in BOOLEAN : Tick(full)
    \/ DetachContent \/ AttachContent
    \/ RsApply \/ RsComplete \/ RsReturn

Spec == Init /\ [][Next]_vars

-----------------------------------------------------------------------------
(* Properties *)

(* What the render service reads, or will when a frame on its way arrives.  *)
Frames == {presenter.flights[s].frame : s \in Unsent} \cup {up[k].frame : k \in DOMAIN up}
             \cup (IF host.pending = None THEN {} ELSE {host.pending.frame})
Read == {l.buf : l \in {l \in session.leases : l.rs # "returned"}}
           \cup UNION {{f[i].buf : i \in DOMAIN f} : f \in Frames}

(* What BufferQueue and the video uploader may draw into.                   *)
Writable == {<<"primary", out, b>> : b \in Range(queue.free)}
               \cup {<<"video", gpu, v>> : v \in {v \in Videos : reads[v] = 0}}

(* No buffer is drawn into while the render service reads it or a frame     *)
(* with it is on its way, whatever was shown again, cleaned up or lost.     *)
NoOverwrite == Read \cap Writable = {}

(* The presenter gives up only for reasons outside the protocol: no reply   *)
(* comes twice, too early or to the output after the one it is for, and the *)
(* host neither refuses a frame nor closes the socket of a presenter that   *)
(* lives, unless its content was detached.                                  *)
RepliesExpected ==
    /\ presenter.fault # "reply"
    /\ presenter.fault = "receive" => detaches > 0

(* Frames the display compositor waits for.                                 *)
Waiting == {s \in DOMAIN presenter.flights : ~presenter.flights[s].done}

(* Neither presenter, host nor render service has anything left to do.      *)
Settled ==
    /\ presenter.open /\ ~presenter.invalid /\ ~HostClosed /\ Unsent = {} /\ down = <<>>
    /\ host.exists /\ ~host.detached /\ host.processed /\ host.outgoing = <<>>
    /\ host.active # 0 => ~Lost(host.active)
    /\ host.closing \/ host.waiting = 0
    /\ host.closing \/ up = <<>> \/ host.pending # None
    /\ session.commands = <<>> /\ session.acked /\ session.redundant = {}
    /\ Returned(session) = {} /\ Returnable(session) = {}
    /\ PollSession(IF host.closing THEN Close(session) ELSE session) = session
    /\ session.state # "closed"
    /\ host.pending # None => SubmitResult(session, host.pending.frame) = "busy"

(* No frame waits for ever: presenter, host and render service never wait   *)
(* for each other, although the render service keeps a video buffer until   *)
(* the next one replaces it and a new output waits for the old session.     *)
NoStall == Settled => Waiting = {}
=============================================================================
