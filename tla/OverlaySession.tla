-------------------------- MODULE OverlaySession --------------------------
(***************************************************************************)
(* The browser's side of one overlay: Session, which holds a read lease on *)
(* every buffer that the render service may read, and its render service   *)
(* backend, which turns frames into transactions (ohos_overlay_session.cc, *)
(* ohos_rs_overlay_backend.cc).  Its methods run on the UI thread and are  *)
(* operators on the record of a session; OverlayChannel calls them.        *)
(*                                                                         *)
(* A lease stands for the entry of leases_ and for the slot of the backend *)
(* that routes the release of its buffer.  Its field rs is where the       *)
(* render service has the buffer: in a transaction not applied yet         *)
(* ("staged"), on screen, replaced, cleaned, or given back.  Geometry,     *)
(* formats and colours are left out; a release fence signals before        *)
(* "returned".                                                             *)
(***************************************************************************)
EXTENDS Integers, FiniteSets, Sequences, SequencesExt

CONSTANTS
    MaxAllocations,     \* max_allocations_per_plane
    None

ASSUME AllocationsAssumption == MaxAllocations \in Nat

(* A video that comes finds room beside the one on screen and the one that  *)
(* the render service keeps.                                                *)
ASSUME ProgressAssumption == MaxAllocations >= 3

Planes == 0..1

(* The backend is created with an empty transaction whose completion it     *)
(* waits for (startup_pending_).                                            *)
NewSession ==
    [state |-> "running", leases |-> {}, redundant |-> {}, current |-> [i \in Planes |-> None],
     startup |-> TRUE, cleanup |-> 0, visible |-> FALSE, submitted |-> FALSE,
     acked |-> FALSE, commands |-> <<[op |-> "start"]>>]

(* ConfirmedFlush: only the completion of the last transaction counts.      *)
ConfirmedFlush(s, command) == [s EXCEPT !.acked = FALSE, !.commands = Append(@, command)]

-----------------------------------------------------------------------------
(* Backend *)

ReadyForFrame(s) == ~s.startup /\ s.cleanup = 0

(* Replaced video buffers go in stages: the frame without video is on       *)
(* screen, then its queue is cleaned, then its node is replaced.            *)
VideoCleanup(s) ==
    IF s.state = "draining" \/ ~s.acked THEN s
    ELSE CASE s.cleanup = 1 -> [ConfirmedFlush(s, [op |-> "clean"]) EXCEPT !.cleanup = 2]
           [] s.cleanup = 2 /\ \A l \in s.leases : l.plane = 0 ->
                 [ConfirmedFlush(s, [op |-> "layer"]) EXCEPT !.cleanup = 3]
           [] s.cleanup = 3 -> [s EXCEPT !.cleanup = 0]
           [] OTHER -> s

Returned(s) == {l \in s.leases : l.rs = "returned"}

PollReleases(s) ==
    VideoCleanup([s EXCEPT !.startup = @ /\ ~s.acked, !.leases = @ \ Returned(s)])

CommandsProcessed(s) == s.acked

Commit(s, fresh, video) ==
    [ConfirmedFlush(s, [op |-> "frame", planes |-> fresh])
        EXCEPT !.cleanup = IF ~video /\ s.visible THEN 1 ELSE @,
               !.visible = video,
               !.submitted = TRUE]

-----------------------------------------------------------------------------
(* Session *)

(* What Poll gives back: the leases of frames that showed a buffer again,   *)
(* and those whose buffer the render service returned.                      *)
Retired(s) ==
    s.redundant \cup
        IF s.state = "closed" THEN {} ELSE {[plane |-> l.plane, seq |-> l.seq] : l \in Returned(s)}

BeginDrain(s) ==
    IF s.state = "waiting" /\ (s.submitted => CommandsProcessed(s))
    THEN [ConfirmedFlush(s, [op |-> "drain"]) EXCEPT !.state = "draining"]
    ELSE s

FinishDrain(s) ==
    IF s.state = "draining" /\ s.leases = {} /\ s.acked THEN [s EXCEPT !.state = "closed"] ELSE s

PollSession(s) ==
    LET t == [s EXCEPT !.redundant = {}]
    IN IF s.state = "closed" THEN t ELSE FinishDrain(BeginDrain(PollReleases(t)))

Close(s) == PollSession(IF s.state = "running" THEN [s EXCEPT !.state = "waiting"] ELSE s)

(* A plane of a frame: the buffer and whether it is shown again unchanged.  *)
Reusable(s, i, p) ==
    p.reuse => s.current[i] = p.buf /\ \E l \in s.leases : /\ l.buf = p.buf /\ l.plane = i
                                                            /\ l.rs # "returned"

Full(s, i) == Cardinality({l \in s.leases : l.plane = i}) >= MaxAllocations

Admissible(s, i, p) == p.reuse \/ (~Full(s, i) /\ \A l \in s.leases : l.buf # p.buf)

(* Submit after its Poll: a frame maps the planes it has to their buffers.  *)
SubmitResult(s, frame) ==
    IF s.state # "running" THEN "closed"
    ELSE IF ~ReadyForFrame(s) THEN "busy"
    ELSE IF \E i \in DOMAIN frame : ~Reusable(s, i, frame[i]) THEN "unsupported"
    ELSE IF \E i \in DOMAIN frame : ~Admissible(s, i, frame[i]) THEN "busy"
    ELSE "accepted"

Hold(s, frame, seq) ==
    LET fresh == {i \in DOMAIN frame : ~frame[i].reuse}
        lease(i) == [buf |-> frame[i].buf, plane |-> i, seq |-> seq, rs |-> "staged"]
    IN [s EXCEPT !.current = [i \in Planes |-> IF i \in DOMAIN frame THEN frame[i].buf ELSE None],
                 !.leases = @ \cup {lease(i) : i \in fresh},
                 !.redundant = @ \cup {[plane |-> i, seq |-> seq] : i \in DOMAIN frame \ fresh}]

Accept(s, frame, seq) ==
    Commit(Hold(s, frame, seq), {i \in DOMAIN frame : ~frame[i].reuse}, 1 \in DOMAIN frame)

-----------------------------------------------------------------------------
(* The render service, as the backend uses it: it applies transactions in   *)
(* order, and gives a buffer back some time after it stopped showing it.    *)

Move(s, ls, to) == [s EXCEPT !.leases = (@ \ ls) \cup {[l EXCEPT !.rs = to] : l \in ls}]

On(s, planes, where) == {l \in s.leases : l.plane \in planes /\ l.rs = where}

RsApplied(s) ==
    LET c == Head(s.commands)
        t == [s EXCEPT !.commands = Tail(@)]
    IN CASE c.op = "frame" -> Move(Move(t, On(s, c.planes, "shown"), "replaced"),
                                   On(s, c.planes, "staged"), "shown")
         [] c.op = "clean" -> Move(t, On(s, {1}, "shown") \cup On(s, {1}, "replaced"), "cleaned")
         [] c.op = "drain" -> Move(t, On(s, Planes, "shown") \cup On(s, Planes, "replaced"), "cleaned")
         [] OTHER -> t

(* It may keep the last replaced video buffer until another takes its place.*)
Returnable(s) ==
    On(s, Planes, "cleaned") \cup On(s, {0}, "replaced") \cup
        {l \in On(s, {1}, "replaced") : \E m \in On(s, {1}, "replaced") : m.seq > l.seq}
=============================================================================
