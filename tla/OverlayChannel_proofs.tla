----------------------- MODULE OverlayChannel_proofs -----------------------
(***************************************************************************)
(* That no buffer of an overlay is drawn into while the render service     *)
(* reads it, for every number of buffers, frames, outputs and losses.      *)
(*                                                                         *)
(* The argument: whatever the render service holds, or will hold when a    *)
(* frame on its way arrives, is either still expected by a flight of the   *)
(* open presenter, which has not been told of its release, or belongs to   *)
(* an output or a GPU process of the past.  A flight that expects the      *)
(* release of its primary is not swapped yet, or shows what is on screen.  *)
(* A video of the past keeps a read that nobody gives back.                *)
(***************************************************************************)
EXTENDS OverlayChannel, FiniteSetTheorems, SequenceTheorems, TLAPS

-----------------------------------------------------------------------------
(* Types *)

ReplySet == [op : {"accepted", "processed", "rejected"}, seq : Nat]
               \cup [op : {"released"}, seq : Nat, plane : Planes]
KeySet == [plane : Planes, seq : Nat]
Wheres == {"staged", "shown", "replaced", "cleaned", "returned"}
LeaseSet == [buf : Names(0) \cup Names(1), plane : Planes, seq : Nat, rs : Wheres]
CommandSet == [op : {"start", "clean", "layer", "drain"}] \cup [op : {"frame"}, planes : SUBSET Planes]
SessionSet ==
    [state : {"running", "waiting", "draining", "closed"}, leases : SUBSET LeaseSet,
     redundant : SUBSET KeySet, current : [Planes -> Names(0) \cup Names(1) \cup {None}],
     startup : BOOLEAN, cleanup : 0..3, visible : BOOLEAN, submitted : BOOLEAN,
     acked : BOOLEAN, commands : Seq(CommandSet)]
SessionType(s) == s \in SessionSet /\ IsFiniteSet(s.leases) /\ IsFiniteSet(s.redundant)

ContentSet == [buf : Names(0) \cup Names(1) \cup {None}, content : Nat]
HostSet ==
    [active : Nat, waiting : Nat, stopped : BOOLEAN, detached : BOOLEAN, closing : BOOLEAN,
     processed : BOOLEAN, sequence : Nat, pending : MessageSet \cup {None},
     outgoing : Seq(ReplySet), current : [Planes -> ContentSet], exists : BOOLEAN]

Faults == {"none", "receive", "reply"}
FlightSet == [frame : FrameSet, accepted : BOOLEAN, processed : BOOLEAN, done : BOOLEAN,
              released : SUBSET Planes]
PresenterSet ==
    [open : BOOLEAN, invalid : BOOLEAN, sequence : Nat, sent : Nat,
     flights : UNION {[D -> FlightSet] : D \in SUBSET Nat},
     last : [Planes -> ContentSet], fault : Faults]
QueueSet == [free : Seq(Range(Buffers)), flying : Seq(Names(0)), shown : Names(0) \cup {None}]

-----------------------------------------------------------------------------
(* What the past and the present of an output hold.  A context is what Tick *)
(* and the render service leave alone.                                      *)

Context == [presenter |-> presenter, out |-> out, gpu |-> gpu, reads |-> reads]

(* A flight expects the release of this plane.                              *)
Linked(p, seq, i, buf) ==
    /\ p.open /\ seq \in DOMAIN p.flights
    /\ i \in DOMAIN p.flights[seq].frame \ p.flights[seq].released
    /\ p.flights[seq].frame[i].buf = buf

(* The flights that expect the release of a video, and the reads of it that *)
(* were never given back: those of presenters that are gone.                *)
Owing(p, g, v) ==
    {s \in DOMAIN p.flights : /\ 1 \notin p.flights[s].released
                              /\ p.flights[s].frame[1].buf = <<"video", g, v>>}
Excess(p, g, r, v) == r[v] - Cardinality(Owing(p, g, v))

(* A plane that the render service has, or will have, may not be drawn.     *)
Held(c, seq, i, buf) ==
    /\ buf \in Names(i)
    /\ i = 0 => /\ buf[2] <= c.out
                /\ c.presenter.open /\ buf[2] = c.out => Linked(c.presenter, seq, 0, buf)
    /\ i = 1 => /\ buf[2] <= c.gpu
                /\ buf[2] = c.gpu => \/ Linked(c.presenter, seq, 1, buf)
                                     \/ Excess(c.presenter, c.gpu, c.reads, buf[3]) >= 1

FrameHeld(c, m) == \A i \in DOMAIN m.frame : Held(c, m.seq, i, m.frame[i].buf)

AllHeld(c, h, s, u) ==
    /\ \A l \in s.leases : Held(c, l.seq, l.plane, l.buf)
    /\ \A k \in 1..Len(u) : FrameHeld(c, u[k])
    /\ h.pending # None => FrameHeld(c, h.pending)

-----------------------------------------------------------------------------
(* The host and its session *)

(* The host is connected to the presenter that is open, or will be.         *)
Live(c, h) == c.presenter.open /\ h.active = c.out
Awaited(c, h) == c.presenter.open /\ h.waiting = c.out

HostOk(c, h, s) ==
    /\ h.waiting \in {0, c.out} /\ h.active <= c.out
    /\ h.active # 0 => h.waiting # h.active
    /\ h.closing => h.active = 0
    /\ h.active = 0 => h.outgoing = <<>> /\ h.pending = None
    /\ h.active = 0 /\ ~h.closing => s.leases = {} /\ s.redundant = {} /\ h.sequence = 0
    /\ h.pending # None => h.pending.seq = h.sequence /\ h.processed
    /\ c.presenter.open => c.out > 0

(* Replies to the presenter, and those that a session still owes, are for   *)
(* frames the host has seen, and a plane is released when its lease is gone.*)
Replies(h, d) == Range(h.outgoing) \cup Range(d)
Same(l, r) == l.seq = r.seq /\ l.plane = r.plane

LiveOk(c, h, s, u, d) ==
    /\ \A k \in 1..Len(u) : u[k].seq = h.sequence + k
    /\ c.presenter.sent = h.sequence + Len(u)
    /\ \A l \in s.leases \cup s.redundant : l.seq <= h.sequence
    /\ \A r \in Replies(h, d) : r.seq <= h.sequence
    /\ h.pending # None => \A l \in s.leases \cup s.redundant \cup Replies(h, d) : l.seq < h.sequence
    /\ \A l, m \in s.leases : Same(l, m) => l = m
    /\ \A l \in s.leases, r \in s.redundant : ~Same(l, r)
    /\ \A l \in s.leases, r \in Replies(h, d) : r.op = "released" => ~Same(l, r)

AwaitedOk(c, u, d) ==
    /\ d = <<>> /\ c.presenter.sent = Len(u)
    /\ \A k \in 1..Len(u) : u[k].seq = k

ChannelOk(c, h, s, u, d) ==
    /\ h \in HostSet /\ SessionType(s) /\ u \in Seq(MessageSet) /\ d \in Seq(ReplySet)
    /\ c.out \in Nat
    /\ HostOk(c, h, s)
    /\ AllHeld(c, h, s, u)
    /\ Live(c, h) => LiveOk(c, h, s, u, d)
    /\ Awaited(c, h) => AwaitedOk(c, u, d)
    /\ ~c.presenter.open => d = <<>>

-----------------------------------------------------------------------------
(* The presenter and its queue *)

Acked(p, q) == p.sequence - Len(q.flying)

(* The k-th buffer to be shown; the one on screen is the first.             *)
ShownAt(q, k) == IF k = 0 THEN q.shown ELSE q.flying[k]

FlightsOk(p, q, o, g) ==
    /\ DOMAIN p.flights \subseteq 1..p.sequence
    /\ p.sent <= p.sequence
    /\ \A s \in DOMAIN p.flights :
          /\ p.flights[s].frame[0].buf[2] = o
          /\ 1 \in DOMAIN p.flights[s].frame => p.flights[s].frame[1].buf[2] = g
          /\ Planes \ DOMAIN p.flights[s].frame \subseteq p.flights[s].released
    /\ \A s \in (p.sent + 1)..p.sequence :
          /\ s \in DOMAIN p.flights
          /\ ~p.flights[s].accepted /\ ~p.flights[s].processed
          /\ p.flights[s].released = Planes \ DOMAIN p.flights[s].frame
    /\ p.last[1].buf # None => p.last[1].buf \in Names(1) /\ p.last[1].buf[2] = g

(* Flights are swapped in order; those not yet swapped are in the queue.    *)
SwapsOk(p, q) ==
    /\ Acked(p, q) >= 0
    /\ \A s \in (Acked(p, q) + 1)..p.sequence : s \in DOMAIN p.flights
    /\ \A s \in DOMAIN p.flights :
          /\ p.flights[s].done <=> s <= Acked(p, q)
          /\ s > Acked(p, q) => q.flying[s - Acked(p, q)] = p.flights[s].frame[0].buf
          /\ s <= Acked(p, q) /\ 0 \notin p.flights[s].released
                => p.flights[s].frame[0].buf = q.shown

(* One content is in one buffer.                                            *)
ContentsOk(p) ==
    /\ \A s, t \in DOMAIN p.flights :
          p.flights[s].frame[0].content = p.flights[t].frame[0].content
             => p.flights[s].frame[0].buf = p.flights[t].frame[0].buf
    /\ \A s \in DOMAIN p.flights :
          /\ p.flights[s].frame[0].content <= p.sequence
          /\ p.flights[s].frame[0].content = p.last[0].content
                => p.flights[s].frame[0].buf = p.last[0].buf
    /\ p.last[0].content <= p.sequence

(* A buffer is shown in one go, and none of those shown or to be shown is   *)
(* free to draw into.                                                       *)
QueueOk(q, o) ==
    /\ IsInjective(q.free)
    /\ \A k \in 0..Len(q.flying) :
          /\ k > 0 => ShownAt(q, k) # None
          /\ ShownAt(q, k) # None => /\ ShownAt(q, k)[2] = o
                                     /\ ShownAt(q, k)[3] \notin Range(q.free)
    /\ \A i, j, k \in 0..Len(q.flying) :
          i <= j /\ j <= k /\ ShownAt(q, i) = ShownAt(q, k) => ShownAt(q, j) = ShownAt(q, i)

PresenterOk(p, q, o, g) ==
    /\ p \in PresenterSet /\ q \in QueueSet /\ o \in Nat /\ g \in Nat
    /\ FlightsOk(p, q, o, g) /\ SwapsOk(p, q) /\ ContentsOk(p) /\ QueueOk(q, o)
    /\ p.last[0].buf = ShownAt(q, Len(q.flying))
    /\ ~p.open => p.sequence = 0 /\ q = NoQueue

ReadsOk(p, g, r) == r \in [Videos -> Int] /\ \A v \in Videos : Excess(p, g, r, v) >= 0

IInv ==
    /\ PresenterOk(presenter, queue, out, gpu)
    /\ ReadsOk(presenter, gpu, reads)
    /\ ChannelOk(Context, host, session, up, down)

-----------------------------------------------------------------------------
(* Sets and sequences *)

(* The image of a finite set under a function is finite.                    *)
LEMMA FiniteImage ==
    ASSUME NEW S, IsFiniteSet(S), NEW T, NEW f \in [S -> T], \A t \in T : \E x \in S : f[x] = t
    PROVE  IsFiniteSet(T)
  <1>1. f \in Surjection(S, T)  BY DEF Surjection
  <1> QED  BY <1>1, FS_Surjection

LEMMA RangeOfConcat ==
    ASSUME NEW S, NEW a \in Seq(S), NEW b \in Seq(S)
    PROVE  a \o b \in Seq(S) /\ Range(a \o b) = Range(a) \cup Range(b)
  <1>1. /\ a \o b \in Seq(S) /\ Len(a \o b) = Len(a) + Len(b)
        /\ \A i \in 1..Len(a) + Len(b) :
              (a \o b)[i] = IF i <= Len(a) THEN a[i] ELSE b[i - Len(a)]
    BY ConcatProperties
  <1>2. DOMAIN (a \o b) = 1..(Len(a) + Len(b)) /\ DOMAIN a = 1..Len(a) /\ DOMAIN b = 1..Len(b)
        /\ Len(a) \in Nat /\ Len(b) \in Nat
    BY <1>1
  <1>3. ASSUME NEW x \in Range(a \o b) PROVE x \in Range(a) \cup Range(b)
    <2>1. PICK i \in 1..(Len(a) + Len(b)) : x = (a \o b)[i]  BY <1>2, <1>3 DEF Range
    <2>2. i > Len(a) => i - Len(a) \in 1..Len(b)  BY <1>2
    <2> QED  BY <1>1, <1>2, <2>1, <2>2 DEF Range
  <1>4. ASSUME NEW x \in Range(a) PROVE x \in Range(a \o b)
    <2>1. PICK i \in 1..Len(a) : x = a[i]  BY <1>2, <1>4 DEF Range
    <2>2. i \in 1..(Len(a) + Len(b)) /\ i <= Len(a)  BY <1>2
    <2> QED  BY <1>1, <1>2, <2>1, <2>2 DEF Range
  <1>5. ASSUME NEW x \in Range(b) PROVE x \in Range(a \o b)
    <2>1. PICK i \in 1..Len(b) : x = b[i]  BY <1>2, <1>5 DEF Range
    <2>2. i + Len(a) \in 1..(Len(a) + Len(b)) /\ ~(i + Len(a) <= Len(a)) /\ i + Len(a) - Len(a) = i
      BY <1>2
    <2> QED  BY <1>1, <1>2, <2>1, <2>2 DEF Range
  <1> QED  BY <1>1, <1>3, <1>4, <1>5

LEMMA RangeOfOne ==
    ASSUME NEW S, NEW x \in S
    PROVE  <<x>> \in Seq(S) /\ Range(<<x>>) = {x} /\ Len(<<x>>) = 1
  BY DEF Range

LEMMA RangeOfNone == Range(<<>>) = {}
  BY DEF Range

-----------------------------------------------------------------------------
(* The operations of a session.  None adds a lease, but the acceptance of a *)
(* frame.                                                                   *)

Keeps(s, t) ==
    /\ t.redundant \subseteq s.redundant
    /\ \A l \in t.leases : \E m \in s.leases : Same(l, m) /\ l.buf = m.buf
    /\ (\A l, m \in s.leases : Same(l, m) => l = m) => (\A l, m \in t.leases : Same(l, m) => l = m)

LEMMA KeepsFewer ==
    ASSUME NEW s, NEW t, t.leases \subseteq s.leases, t.redundant \subseteq s.redundant
    PROVE  Keeps(s, t)
  BY DEF Keeps, Same

LEMMA KeepsTwice ==
    ASSUME NEW s, NEW t, NEW u, Keeps(s, t), Keeps(t, u)
    PROVE  Keeps(s, u)
  BY DEF Keeps, Same

LEMMA MoveKeeps ==
    ASSUME NEW s, SessionType(s), NEW ls \in SUBSET s.leases, NEW to \in Wheres
    PROVE  SessionType(Move(s, ls, to)) /\ Keeps(s, Move(s, ls, to))
  <1> DEFINE moved == {[l EXCEPT !.rs = to] : l \in ls}
             left == s.leases \ ls
  <1>1. s \in SessionSet /\ IsFiniteSet(s.leases) /\ IsFiniteSet(s.redundant)  BY DEF SessionType
  <1>2. s.leases \subseteq LeaseSet  BY <1>1 DEF SessionSet
  <1>3. \A l \in ls : /\ [l EXCEPT !.rs = to] \in LeaseSet
                      /\ [l EXCEPT !.rs = to].seq = l.seq
                      /\ [l EXCEPT !.rs = to].plane = l.plane
                      /\ [l EXCEPT !.rs = to].buf = l.buf
    BY <1>2 DEF LeaseSet
  <1>4. IsFiniteSet(moved)
    <2> DEFINE f == [l \in ls |-> [l EXCEPT !.rs = to]]
    <2>1. f \in [ls -> moved] /\ \A t \in moved : \E l \in ls : f[l] = t  OBVIOUS
    <2>2. IsFiniteSet(ls)  BY <1>1, FS_Subset
    <2> HIDE DEF f
    <2> QED  BY <2>1, <2>2, FiniteImage
  <1>5. IsFiniteSet(left \cup moved)
    <2>1. IsFiniteSet(left)  BY <1>1, FS_Difference
    <2> QED  BY <2>1, <1>4, FS_Union
  <1>6. /\ Move(s, ls, to).leases = left \cup moved
        /\ Move(s, ls, to).redundant = s.redundant
        /\ left \cup moved \subseteq LeaseSet => Move(s, ls, to) \in SessionSet
    BY <1>1 DEF Move, SessionSet
  <1>7. left \cup moved \subseteq LeaseSet  BY <1>2, <1>3
  <1>8. \A l \in left \cup moved : \E m \in s.leases : Same(l, m) /\ l.buf = m.buf
    <2>1. \A l \in left : l \in s.leases /\ Same(l, l)  BY DEF Same
    <2>2. \A l \in moved : \E m \in ls : Same(l, m) /\ l.buf = m.buf  BY <1>3 DEF Same
    <2> QED  BY <2>1, <2>2
  <1>9. ASSUME \A l, m \in s.leases : Same(l, m) => l = m
        PROVE  \A l, m \in left \cup moved : Same(l, m) => l = m
    <2>1. \A l \in moved : \E k \in ls : Same(l, k) /\ l = [k EXCEPT !.rs = to]  BY <1>3 DEF Same
    <2>2. \A l, m \in moved : Same(l, m) => l = m
      <3> SUFFICES ASSUME NEW l \in moved, NEW m \in moved, Same(l, m) PROVE l = m  OBVIOUS
      <3>1. PICK j \in ls : Same(l, j) /\ l = [j EXCEPT !.rs = to]  BY <2>1
      <3>2. PICK k \in ls : Same(m, k) /\ m = [k EXCEPT !.rs = to]  BY <2>1
      <3>3. Same(j, k)  BY <3>1, <3>2 DEF Same
      <3> QED  BY <1>9, <3>1, <3>2, <3>3
    <2>3. \A l \in left, m \in moved : ~Same(l, m) /\ ~Same(m, l)
      <3> SUFFICES ASSUME NEW l \in left, NEW m \in moved, Same(l, m) \/ Same(m, l) PROVE FALSE
        OBVIOUS
      <3>1. PICK k \in ls : Same(m, k) /\ m = [k EXCEPT !.rs = to]  BY <2>1
      <3>2. Same(l, k)  BY <3>1 DEF Same
      <3> QED  BY <1>9, <3>2
    <2> QED  BY <1>9, <2>2, <2>3
  <1> HIDE DEF moved, left
  <1> QED  BY <1>1, <1>5, <1>6, <1>7, <1>8, <1>9 DEF SessionType, Keeps

LEMMA ApplyKeeps ==
    ASSUME NEW s, SessionType(s), s.commands # <<>>
    PROVE  SessionType(RsApplied(s)) /\ Keeps(s, RsApplied(s))
  <1> DEFINE t == [s EXCEPT !.commands = Tail(@)]
             c == Head(s.commands)
  <1>1. s \in SessionSet /\ IsFiniteSet(s.leases) /\ IsFiniteSet(s.redundant)  BY DEF SessionType
  <1>2. Tail(s.commands) \in Seq(CommandSet)
    <2>1. s.commands \in Seq(CommandSet)  BY <1>1 DEF SessionSet
    <2> QED  BY <2>1, HeadTailProperties
  <1>3. t \in SessionSet /\ t.leases = s.leases /\ t.redundant = s.redundant
    BY <1>1, <1>2 DEF SessionSet
  <1>4. SessionType(t) /\ Keeps(s, t)  BY <1>1, <1>3, KeepsFewer DEF SessionType
  <1> HIDE DEF t
  <1>5. ASSUME NEW ls \in SUBSET s.leases, NEW to \in Wheres
        PROVE  SessionType(Move(t, ls, to)) /\ Keeps(s, Move(t, ls, to))
    <2>1. ls \in SUBSET t.leases  BY <1>3
    <2>2. SessionType(Move(t, ls, to)) /\ Keeps(t, Move(t, ls, to))  BY <1>4, <2>1, MoveKeeps
    <2> QED  BY <1>4, <2>2, KeepsTwice
  <1>6. ASSUME NEW planes
        PROVE  LET m == Move(Move(t, On(s, planes, "shown"), "replaced"), On(s, planes, "staged"), "shown")
               IN SessionType(m) /\ Keeps(s, m)
    <2> DEFINE n == Move(t, On(s, planes, "shown"), "replaced")
    <2>1. /\ "replaced" \in Wheres /\ "shown" \in Wheres
          /\ On(s, planes, "shown") \in SUBSET s.leases
          /\ On(s, planes, "staged") \in SUBSET (s.leases \ On(s, planes, "shown"))
      BY DEF On, Wheres
    <2>2. SessionType(n) /\ Keeps(s, n)  BY <1>5, <2>1
    <2>3. s.leases \ On(s, planes, "shown") \subseteq n.leases
      BY <1>3 DEF Move, SessionSet
    <2>4. On(s, planes, "staged") \in SUBSET n.leases  BY <2>1, <2>3
    <2> HIDE DEF n
    <2>5. /\ SessionType(Move(n, On(s, planes, "staged"), "shown"))
          /\ Keeps(n, Move(n, On(s, planes, "staged"), "shown"))
      BY <2>1, <2>2, <2>4, MoveKeeps
    <2>6. Keeps(s, Move(n, On(s, planes, "staged"), "shown"))  BY <2>2, <2>5, KeepsTwice
    <2> QED  BY <2>5, <2>6 DEF n
  <1>7. /\ "cleaned" \in Wheres
        /\ On(s, {1}, "shown") \cup On(s, {1}, "replaced") \in SUBSET s.leases
        /\ On(s, Planes, "shown") \cup On(s, Planes, "replaced") \in SUBSET s.leases
    BY DEF On, Wheres
  <1>8. \/ RsApplied(s) = Move(Move(t, On(s, c.planes, "shown"), "replaced"),
                               On(s, c.planes, "staged"), "shown")
        \/ RsApplied(s) = Move(t, On(s, {1}, "shown") \cup On(s, {1}, "replaced"), "cleaned")
        \/ RsApplied(s) = Move(t, On(s, Planes, "shown") \cup On(s, Planes, "replaced"), "cleaned")
        \/ RsApplied(s) = t
    BY Zenon DEF RsApplied, t
  <1> HIDE DEF c
  <1> QED  BY <1>4, <1>5, <1>6, <1>7, <1>8

(* A flush, whatever else it changes.                                       *)
LEMMA FlushKeeps ==
    ASSUME NEW s, SessionType(s), NEW c \in CommandSet
    PROVE  LET t == ConfirmedFlush(s, c)
           IN SessionType(t) /\ t.leases = s.leases /\ t.redundant = s.redundant /\ t.state = s.state
  <1>1. s \in SessionSet /\ s.commands \in Seq(CommandSet)  BY DEF SessionType, SessionSet
  <1>2. Append(s.commands, c) \in Seq(CommandSet)  BY <1>1, AppendProperties
  <1> QED  BY <1>1, <1>2 DEF ConfirmedFlush, SessionType, SessionSet

(* What a poll does to leases: the returned ones are gone.                  *)
Polled(s, t) ==
    /\ SessionType(t) /\ t.redundant = {}
    /\ t.leases = IF s.state = "closed" THEN s.leases ELSE s.leases \ Returned(s)

LEMMA PollPolls ==
    ASSUME NEW s, SessionType(s)
    PROVE  Polled(s, PollSession(s))
  <1> DEFINE t == [s EXCEPT !.redundant = {}]
             u == [t EXCEPT !.startup = @ /\ ~t.acked, !.leases = @ \ Returned(t)]
             v == VideoCleanup(u)
             w == BeginDrain(v)
             Same4(x) == SessionType(x) /\ x.leases = s.leases \ Returned(s) /\ x.redundant = {}
  <1>1. s \in SessionSet /\ IsFiniteSet(s.leases)  BY DEF SessionType
  <1>2. t \in SessionSet /\ t.leases = s.leases /\ t.redundant = {} /\ t.state = s.state
    BY <1>1 DEF SessionSet
  <1>3. SessionType(t)  BY <1>1, <1>2, FS_EmptySet DEF SessionType
  <1> HIDE DEF t
  <1>4. Returned(t) = Returned(s)  BY <1>2 DEF Returned
  <1>5. u \in SessionSet /\ u.leases = s.leases \ Returned(s) /\ u.redundant = {}
    BY <1>2, <1>4 DEF SessionSet
  <1>6. IsFiniteSet(s.leases \ Returned(s))  BY <1>1, FS_Difference
  <1>7. Same4(u)  BY <1>5, <1>6, FS_EmptySet DEF SessionType
  <1> HIDE DEF u
  <1>8. Same4(v)
    <2>1. [op |-> "clean"] \in CommandSet /\ [op |-> "layer"] \in CommandSet  BY DEF CommandSet
    <2> DEFINE a == ConfirmedFlush(u, [op |-> "clean"])
               b == ConfirmedFlush(u, [op |-> "layer"])
    <2>2. Same4(a) /\ Same4(b)  BY <1>7, <2>1, FlushKeeps
    <2> HIDE DEF a, b
    <2>3. \A x, n : Same4(x) /\ n \in 0..3 => Same4([x EXCEPT !.cleanup = n])
      BY DEF SessionType, SessionSet
    <2>4. v \in {u, [a EXCEPT !.cleanup = 2], [b EXCEPT !.cleanup = 3], [u EXCEPT !.cleanup = 0]}
      BY Zenon DEF VideoCleanup, a, b
    <2>5. 0 \in 0..3 /\ 2 \in 0..3 /\ 3 \in 0..3  OBVIOUS
    <2> HIDE DEF v, Same4
    <2> QED  BY <1>7, <2>2, <2>3, <2>4, <2>5
  <1> HIDE DEF v
  <1>9. \A x, n : Same4(x) /\ n \in {"draining", "closed"} => Same4([x EXCEPT !.state = n])
    BY DEF SessionType, SessionSet
  <1>10. Same4(w)
    <2>1. [op |-> "drain"] \in CommandSet  BY DEF CommandSet
    <2> DEFINE a == ConfirmedFlush(v, [op |-> "drain"])
    <2>2. Same4(a)  BY <1>8, <2>1, FlushKeeps
    <2> HIDE DEF a
    <2>3. w \in {v, [a EXCEPT !.state = "draining"]}  BY Zenon DEF BeginDrain, a
    <2> HIDE DEF w, Same4
    <2> QED  BY <1>8, <1>9, <2>2, <2>3
  <1> HIDE DEF w
  <1>11. Same4(FinishDrain(w))
    <2>1. FinishDrain(w) \in {w, [w EXCEPT !.state = "closed"]}  BY Zenon DEF FinishDrain
    <2> HIDE DEF Same4
    <2> QED  BY <1>9, <1>10, <2>1
  <1>12. PollSession(s) = IF s.state = "closed" THEN t ELSE FinishDrain(w)
    BY Zenon DEF PollSession, PollReleases, t, u, v, w
  <1> QED  BY <1>2, <1>3, <1>11, <1>12 DEF Polled

LEMMA CloseKeeps ==
    ASSUME NEW s, SessionType(s)
    PROVE  SessionType(Close(s)) /\ Keeps(s, Close(s))
  <1> DEFINE t == IF s.state = "running" THEN [s EXCEPT !.state = "waiting"] ELSE s
  <1>1. SessionType(t) /\ t.leases = s.leases  BY DEF SessionType, SessionSet
  <1>2. Close(s) = PollSession(t)  BY Zenon DEF Close
  <1> HIDE DEF t
  <1>3. Polled(t, Close(s))  BY <1>1, <1>2, PollPolls
  <1>4. Close(s).leases \subseteq s.leases /\ Close(s).redundant \subseteq s.redundant
    BY <1>1, <1>3 DEF Polled
  <1> QED  BY <1>3, <1>4, KeepsFewer DEF Polled

(* What the acceptance of a frame adds.                                     *)
Accepts(s, t, m) ==
    /\ SessionType(t)
    /\ \A l \in t.leases : \/ l \in s.leases
                           \/ /\ l.seq = m.seq /\ l.plane \in DOMAIN m.frame
                              /\ ~m.frame[l.plane].reuse /\ l.buf = m.frame[l.plane].buf
                              /\ l.rs = "staged"
    /\ \A r \in t.redundant : \/ r \in s.redundant
                              \/ /\ r.seq = m.seq /\ r.plane \in DOMAIN m.frame
                                 /\ m.frame[r.plane].reuse

(* Frames have one plane or two, each with its kind of buffers.             *)
LEMMA FrameFacts ==
    ASSUME NEW f \in FrameSet
    PROVE  /\ 0 \in DOMAIN f /\ DOMAIN f \subseteq Planes /\ DOMAIN f \in {{0}, Planes}
           /\ \A i \in DOMAIN f : /\ f[i] \in PlaneSet(i) /\ f[i].buf \in Names(i)
                                  /\ f[i].reuse \in BOOLEAN /\ f[i].content \in Nat
                                  /\ f[i].buf \in Names(0) \cup Names(1)
  <1>1. DOMAIN f \in {{0}, Planes} /\ \A i \in DOMAIN f : f[i] \in PlaneSet(i)  BY DEF FrameSet
  <1>2. 0 \in DOMAIN f /\ DOMAIN f \subseteq Planes  BY <1>1 DEF Planes
  <1>3. \A i \in DOMAIN f : i \in {0, 1}  BY <1>2 DEF Planes
  <1>4. \A i \in {0, 1} : Names(i) \subseteq Names(0) \cup Names(1)  OBVIOUS
  <1>5. \A i \in DOMAIN f : f[i].buf \in Names(i) /\ f[i].reuse \in BOOLEAN /\ f[i].content \in Nat
    BY <1>1 DEF PlaneSet
  <1>6. \A i \in DOMAIN f : f[i].buf \in Names(0) \cup Names(1)  BY <1>3, <1>4, <1>5
  <1> QED  BY <1>1, <1>2, <1>5, <1>6

LEMMA AcceptAccepts ==
    ASSUME NEW s, SessionType(s), NEW m \in MessageSet
    PROVE  Accepts(s, Accept(s, m.frame, m.seq), m)
  <1> DEFINE f == m.frame
             n == m.seq
             fresh == {i \in DOMAIN f : ~f[i].reuse}
             lease(i) == [buf |-> f[i].buf, plane |-> i, seq |-> n, rs |-> "staged"]
             held == {lease(i) : i \in fresh}
             again == {[plane |-> i, seq |-> n] : i \in DOMAIN f \ fresh}
             cur == [i \in Planes |-> IF i \in DOMAIN f THEN f[i].buf ELSE None]
             h == Hold(s, f, n)
  <1>1. s \in SessionSet /\ IsFiniteSet(s.leases) /\ IsFiniteSet(s.redundant)  BY DEF SessionType
  <1>2. f \in FrameSet /\ n \in Nat  BY DEF MessageSet
  <1>3. /\ DOMAIN f \subseteq Planes
        /\ \A i \in DOMAIN f : f[i].buf \in Names(0) \cup Names(1)
    BY <1>2, FrameFacts
  <1>4. held \subseteq LeaseSet /\ again \subseteq KeySet /\ cur \in [Planes -> Names(0) \cup Names(1) \cup {None}]
    BY <1>2, <1>3 DEF LeaseSet, KeySet, Wheres
  <1>5. IsFiniteSet(held) /\ IsFiniteSet(again)
    <2>1. IsFiniteSet(Planes)
      <3>1. 0 \in Int /\ 1 \in Int  OBVIOUS
      <3> QED  BY <3>1, FS_Interval DEF Planes
    <2>2. IsFiniteSet(fresh) /\ IsFiniteSet(DOMAIN f \ fresh)
      <3>1. fresh \in SUBSET Planes /\ DOMAIN f \ fresh \in SUBSET Planes  BY <1>3
      <3> QED  BY <2>1, <3>1, FS_Subset
    <2>3. IsFiniteSet(held)
      <3> DEFINE g == [i \in fresh |-> lease(i)]
      <3>1. g \in [fresh -> held] /\ \A t \in held : \E i \in fresh : g[i] = t  OBVIOUS
      <3> HIDE DEF g, held, fresh
      <3> QED  BY <2>2, <3>1, FiniteImage
    <2>4. IsFiniteSet(again)
      <3> DEFINE rest == DOMAIN f \ fresh
                 g == [i \in rest |-> [plane |-> i, seq |-> n]]
      <3>1. g \in [rest -> again] /\ \A t \in again : \E i \in rest : g[i] = t  OBVIOUS
      <3>2. IsFiniteSet(rest)  BY <2>2
      <3> HIDE DEF g, again, rest
      <3> QED  BY <3>1, <3>2, FiniteImage
    <2> QED  BY <2>3, <2>4
  <1>6. \A l \in held : /\ l.seq = n /\ l.plane \in DOMAIN f /\ ~f[l.plane].reuse
                        /\ l.buf = f[l.plane].buf /\ l.rs = "staged"
    OBVIOUS
  <1>7. \A r \in again : r.seq = n /\ r.plane \in DOMAIN f /\ f[r.plane].reuse
    OBVIOUS
  <1>8. fresh \in SUBSET Planes  BY <1>3
  <1>9. h = [s EXCEPT !.current = cur, !.leases = @ \cup held, !.redundant = @ \cup again]
    BY Zenon DEF Hold
  <1> DEFINE c == [op |-> "frame", planes |-> fresh]
             t == ConfirmedFlush(h, c)
  <1>10. c \in CommandSet  BY <1>8 DEF CommandSet
  <1>11. Accept(s, f, n) = [t EXCEPT !.cleanup = IF ~(1 \in DOMAIN f) /\ h.visible THEN 1 ELSE @,
                                     !.visible = (1 \in DOMAIN f), !.submitted = TRUE]
    BY Zenon DEF Accept, Commit
  <1> HIDE DEF h, held, again, cur, fresh, f, n
  <1>12. h \in SessionSet /\ h.leases = s.leases \cup held /\ h.redundant = s.redundant \cup again
    BY <1>1, <1>4, <1>9 DEF SessionSet
  <1>13. SessionType(h)
    <2>1. IsFiniteSet(s.leases \cup held)  BY <1>1, <1>5, FS_Union
    <2>2. IsFiniteSet(s.redundant \cup again)  BY <1>1, <1>5, FS_Union
    <2> QED  BY <1>12, <2>1, <2>2 DEF SessionType
  <1> HIDE DEF c
  <1>14. SessionType(t) /\ t.leases = s.leases \cup held /\ t.redundant = s.redundant \cup again
    BY <1>10, <1>12, <1>13, FlushKeeps
  <1> HIDE DEF t
  <1>15. /\ SessionType(Accept(s, f, n))
         /\ Accept(s, f, n).leases = s.leases \cup held
         /\ Accept(s, f, n).redundant = s.redundant \cup again
    <2> DEFINE k == IF ~(1 \in DOMAIN f) /\ h.visible THEN 1 ELSE t.cleanup
               b == 1 \in DOMAIN f
               r == [t EXCEPT !.cleanup = k, !.visible = b, !.submitted = TRUE]
    <2>1. Accept(s, f, n) = r  BY <1>11, Zenon
    <2>2. k \in 0..3 /\ b \in BOOLEAN  BY <1>14 DEF SessionType, SessionSet
    <2> HIDE DEF k, b
    <2>3. SessionType(r) /\ r.leases = t.leases /\ r.redundant = t.redundant
      BY <1>14, <2>2 DEF SessionType, SessionSet
    <2> HIDE DEF r
    <2> QED  BY <1>14, <2>1, <2>3
  <1>16. Accepts(s, Accept(s, f, n), m)  BY <1>6, <1>7, <1>15 DEF Accepts, f, n
  <1> QED  BY <1>16 DEF f, n

(* Releases tells of leases that are redundant or returned.                 *)
LEMMA ReleasesRetired ==
    ASSUME NEW s, SessionType(s)
    PROVE  /\ Releases(s) \in Seq(ReplySet)
           /\ \A r \in Range(Releases(s)) :
                 /\ r.op = "released" /\ r \in ReplySet
                 /\ \/ \E x \in s.redundant : Same(x, r)
                    \/ s.state # "closed" /\ \E l \in Returned(s) : Same(l, r)
  <1> DEFINE key(l) == [plane |-> l.plane, seq |-> l.seq]
             keys == {key(l) : l \in Returned(s)}
             R == Retired(s)
             q == SetToSeq(R)
  <1>1. s \in SessionSet /\ IsFiniteSet(s.leases) /\ IsFiniteSet(s.redundant)  BY DEF SessionType
  <1>2. Returned(s) \subseteq LeaseSet /\ s.redundant \subseteq KeySet
    BY <1>1 DEF SessionSet, Returned
  <1>3. \A l \in Returned(s) : key(l) \in KeySet /\ Same(l, key(l))  BY <1>2 DEF LeaseSet, KeySet, Same
  <1>4. IsFiniteSet(keys)
    <2>1. IsFiniteSet(Returned(s))
      <3>1. Returned(s) \in SUBSET s.leases  BY DEF Returned
      <3> QED  BY <1>1, <3>1, FS_Subset
    <2> DEFINE g == [l \in Returned(s) |-> key(l)]
    <2>2. g \in [Returned(s) -> keys] /\ \A t \in keys : \E l \in Returned(s) : g[l] = t  OBVIOUS
    <2> HIDE DEF g, keys
    <2> QED  BY <2>1, <2>2, FiniteImage
  <1>5. R = s.redundant \cup IF s.state = "closed" THEN {} ELSE keys  BY Zenon DEF Retired
  <1>6. R \subseteq KeySet /\ IsFiniteSet(R)
    <2>1. IsFiniteSet(s.redundant \cup keys)  BY <1>1, <1>4, FS_Union
    <2>2. R \in SUBSET (s.redundant \cup keys)  BY <1>5
    <2>3. R \subseteq KeySet  BY <1>2, <1>3, <1>5
    <2> QED  BY <2>1, <2>2, <2>3, FS_Subset
  <1>7. \A x \in R : \/ x \in s.redundant
                     \/ s.state # "closed" /\ \E l \in Returned(s) : Same(l, x)
    BY <1>3, <1>5
  <1>8. Cardinality(R) \in Nat /\ \E g \in [1..Cardinality(R) -> R] : IsInjective(g)
    BY <1>6, FS_CardinalityType DEF ExistsBijection, Bijection, Injection
  <1>9. q \in [1..Cardinality(R) -> R]
    <2>1. q = CHOOSE g \in [1..Cardinality(R) -> R] : IsInjective(g)  BY DEF SetToSeq
    <2> HIDE DEF R, q
    <2> QED  BY <1>8, <2>1
  <1> HIDE DEF R, q, keys
  <1> DEFINE reply(x) == [op |-> "released", seq |-> x.seq, plane |-> x.plane]
             rs == [k \in 1..Cardinality(R) |-> reply(q[k])]
  <1>10. \A x \in R : reply(x) \in ReplySet /\ reply(x).op = "released" /\ Same(x, reply(x))
    BY <1>6 DEF KeySet, ReplySet, Same
  <1>11. Releases(s) = rs
    <2>1. DOMAIN q = 1..Cardinality(R)  BY <1>9
    <2> QED  BY <2>1, Zenon DEF Releases, q, R
  <1>12. \A k \in 1..Cardinality(R) : q[k] \in R  BY <1>9
  <1>13. rs \in Seq(ReplySet)
    <2>1. \A k \in 1..Cardinality(R) : reply(q[k]) \in ReplySet  BY <1>10, <1>12
    <2> HIDE DEF reply
    <2> QED  BY <1>8, <2>1
  <1>14. \A r \in Range(rs) : \E x \in R : r = reply(x)  BY <1>12 DEF Range
  <1> HIDE DEF rs, reply
  <1> QED  BY <1>7, <1>10, <1>11, <1>13, <1>14 DEF Same

-----------------------------------------------------------------------------
(* The steps of Host::Tick *)

LEMMA ChannelKeeps ==
    ASSUME NEW c, NEW h, NEW s, NEW u, NEW d, ChannelOk(c, h, s, u, d),
           NEW t, SessionType(t), Keeps(s, t)
    PROVE  ChannelOk(c, h, t, u, d)
  <1>1. \A l \in t.leases : \E m \in s.leases : Same(l, m) /\ l.buf = m.buf  BY DEF Keeps
  <1>2. t.redundant \subseteq s.redundant  BY DEF Keeps
  <1>3. HostOk(c, h, t)  BY <1>1, <1>2 DEF ChannelOk, HostOk
  <1>4. AllHeld(c, h, t, u)  BY <1>1 DEF ChannelOk, AllHeld, Same
  <1>5. ASSUME Live(c, h) PROVE LiveOk(c, h, t, u, d)
    <2>1. LiveOk(c, h, s, u, d)  BY <1>5 DEF ChannelOk
    <2>2. \A l, m \in t.leases : Same(l, m) => l = m  BY <2>1 DEF Keeps, LiveOk
    <2>3. \A l \in t.leases \cup t.redundant : \E m \in s.leases \cup s.redundant : l.seq = m.seq
      BY <1>1, <1>2 DEF Same
    <2>4. \A l \in t.leases \cup t.redundant : l.seq <= h.sequence  BY <2>1, <2>3 DEF LiveOk
    <2>5. h.pending # None => \A l \in t.leases \cup t.redundant \cup Replies(h, d) : l.seq < h.sequence
      BY <2>1, <2>3 DEF LiveOk
    <2>6. \A l \in t.leases, r \in t.redundant : ~Same(l, r)  BY <1>1, <1>2, <2>1 DEF LiveOk, Same
    <2>7. \A l \in t.leases, r \in Replies(h, d) : r.op = "released" => ~Same(l, r)
      BY <1>1, <2>1 DEF LiveOk, Same
    <2> QED  BY <2>1, <2>2, <2>4, <2>5, <2>6, <2>7 DEF LiveOk
  <1> QED  BY <1>3, <1>4, <1>5 DEF ChannelOk

LEMMA DisconnectType ==
    ASSUME NEW h \in HostSet
    PROVE  /\ Disconnect(h) \in HostSet
           /\ Disconnect(h).active = 0 /\ Disconnect(h).closing
           /\ Disconnect(h).outgoing = <<>> /\ Disconnect(h).pending = None
           /\ Disconnect(h).waiting = h.waiting /\ Disconnect(h).sequence = h.sequence
           /\ Disconnect(h).detached = h.detached
  <1>1. [i \in Planes |-> NoPlane] \in [Planes -> ContentSet]  BY DEF NoPlane, ContentSet
  <1>2. <<>> \in Seq(ReplySet)  OBVIOUS
  <1> QED  BY <1>1, <1>2 DEF Disconnect, HostSet

LEMMA DisconnectOk ==
    ASSUME NEW c, NEW h, NEW s, NEW u, NEW d, ChannelOk(c, h, s, u, d)
    PROVE  ChannelOk(c, Disconnect(h), s, u, d)
  <1> DEFINE g == Disconnect(h)
  <1>1. h \in HostSet /\ c.out \in Nat  BY DEF ChannelOk
  <1>2. /\ g \in HostSet /\ g.active = 0 /\ g.closing /\ g.outgoing = <<>> /\ g.pending = None
        /\ g.waiting = h.waiting /\ g.sequence = h.sequence
    BY <1>1, DisconnectType
  <1> HIDE DEF g
  <1>3. HostOk(c, g, s)  BY <1>1, <1>2 DEF ChannelOk, HostOk
  <1>4. AllHeld(c, g, s, u)  BY <1>2 DEF ChannelOk, AllHeld
  <1>5. ~Live(c, g) /\ (Awaited(c, g) <=> Awaited(c, h))
    BY <1>1, <1>2 DEF ChannelOk, HostOk, Live, Awaited
  <1> QED  BY <1>2, <1>3, <1>4, <1>5 DEF ChannelOk, g

(* Replies that a host may send with this session.                          *)
Fitting(c, h, s, replies) ==
    /\ replies \in Seq(ReplySet)
    /\ Live(c, h) => \A r \in Range(replies) :
          /\ r.seq <= h.sequence
          /\ h.pending # None => r.seq < h.sequence
          /\ r.op = "released" => \A l \in s.leases : ~Same(l, r)

LEMMA ReplyOk ==
    ASSUME NEW c, NEW h, NEW s, NEW u, NEW d, ChannelOk(c, h, s, u, d),
           NEW replies, Fitting(c, h, s, replies)
    PROVE  LET g == Reply(h, replies)
           IN /\ ChannelOk(c, g, s, u, d)
              /\ \/ g = h
                 \/ g = Disconnect(h)
                 \/ /\ h.active # 0
                    /\ g = [h EXCEPT !.outgoing = @ \o replies]
  <1> DEFINE g == [h EXCEPT !.outgoing = @ \o replies]
  <1>1. h \in HostSet /\ h.outgoing \in Seq(ReplySet) /\ replies \in Seq(ReplySet)
    BY DEF ChannelOk, HostSet, Fitting
  <1>2. /\ h.outgoing \o replies \in Seq(ReplySet)
        /\ Range(h.outgoing \o replies) = Range(h.outgoing) \cup Range(replies)
    BY <1>1, RangeOfConcat
  <1>3. /\ g \in HostSet /\ g.outgoing = h.outgoing \o replies /\ g.active = h.active
        /\ g.waiting = h.waiting /\ g.closing = h.closing /\ g.pending = h.pending
        /\ g.sequence = h.sequence /\ g.processed = h.processed
    BY <1>1, <1>2 DEF HostSet
  <1> HIDE DEF g
  <1>4. ASSUME h.active # 0 PROVE ChannelOk(c, g, s, u, d)
    <2>1. HostOk(c, g, s)  BY <1>3, <1>4 DEF ChannelOk, HostOk
    <2>2. AllHeld(c, g, s, u)  BY <1>3 DEF ChannelOk, AllHeld
    <2>3. (Live(c, g) <=> Live(c, h)) /\ (Awaited(c, g) <=> Awaited(c, h))
      BY <1>3 DEF Live, Awaited
    <2>4. Replies(g, d) = Replies(h, d) \cup Range(replies)  BY <1>2, <1>3 DEF Replies
    <2>5. ASSUME Live(c, h) PROVE LiveOk(c, g, s, u, d)
      <3>1. LiveOk(c, h, s, u, d)  BY <2>5 DEF ChannelOk
      <3>2. \A r \in Range(replies) : /\ r.seq <= h.sequence
                                      /\ h.pending # None => r.seq < h.sequence
                                      /\ r.op = "released" => \A l \in s.leases : ~Same(l, r)
        BY <2>5 DEF Fitting
      <3> QED  BY <1>3, <2>4, <3>1, <3>2 DEF LiveOk
    <2> QED  BY <1>3, <2>1, <2>2, <2>3, <2>5 DEF ChannelOk
  <1>5. ChannelOk(c, Disconnect(h), s, u, d)  BY DisconnectOk
  <1>6. \/ Reply(h, replies) = h
        \/ Reply(h, replies) = Disconnect(h)
        \/ h.active # 0 /\ Reply(h, replies) = g
    BY Zenon DEF Reply, g
  <1> QED  BY <1>4, <1>5, <1>6 DEF g

(* A poll, and the releases it tells of.                                    *)
LEMMA PollReplies ==
    ASSUME NEW c, NEW h, NEW s, NEW u, NEW d, ChannelOk(c, h, s, u, d)
    PROVE  /\ ChannelOk(c, h, PollSession(s), u, d)
           /\ Fitting(c, h, PollSession(s), Releases(s))
  <1> DEFINE t == PollSession(s)
  <1>1. SessionType(s)  BY DEF ChannelOk
  <1>2. Polled(s, t)  BY <1>1, PollPolls
  <1>3. Keeps(s, t)
    <2>1. t.leases \subseteq s.leases /\ t.redundant \subseteq s.redundant  BY <1>2 DEF Polled
    <2> QED  BY <2>1, KeepsFewer
  <1> HIDE DEF t
  <1>4. ChannelOk(c, h, t, u, d)  BY <1>2, <1>3, ChannelKeeps DEF Polled
  <1>5. /\ Releases(s) \in Seq(ReplySet)
        /\ \A r \in Range(Releases(s)) :
              \/ \E x \in s.redundant : Same(x, r)
              \/ s.state # "closed" /\ \E l \in Returned(s) : Same(l, r)
    BY <1>1, ReleasesRetired
  <1>6. ASSUME Live(c, h), NEW r \in Range(Releases(s))
        PROVE  /\ r.seq <= h.sequence
               /\ h.pending # None => r.seq < h.sequence
               /\ r.op = "released" => \A l \in t.leases : ~Same(l, r)
    <2>1. LiveOk(c, h, s, u, d)  BY <1>6 DEF ChannelOk
    <2>2. t.leases \subseteq s.leases /\ (s.state # "closed" => t.leases = s.leases \ Returned(s))
      BY <1>2 DEF Polled
    <2>3. Returned(s) \subseteq s.leases  BY DEF Returned
    <2>4. \E x \in s.leases \cup s.redundant : x.seq = r.seq  BY <1>5, <2>3 DEF Same
    <2>5. r.seq <= h.sequence /\ (h.pending # None => r.seq < h.sequence)  BY <2>1, <2>4 DEF LiveOk
    <2>6. CASE \E x \in s.redundant : Same(x, r)
      BY <2>1, <2>2, <2>5, <2>6 DEF LiveOk, Same
    <2>7. CASE s.state # "closed" /\ \E l \in Returned(s) : Same(l, r)
      <3>1. PICK l \in Returned(s) : Same(l, r)  BY <2>7
      <3>2. \A m \in s.leases : Same(m, l) => m = l  BY <2>1, <2>3 DEF LiveOk
      <3>3. \A m \in t.leases : ~Same(m, l)  BY <2>2, <2>7, <3>2
      <3>4. \A m \in t.leases : ~Same(m, r)  BY <3>1, <3>3 DEF Same
      <3> QED  BY <2>5, <3>4
    <2> QED  BY <1>5, <2>6, <2>7
  <1> QED  BY <1>4, <1>5, <1>6 DEF Fitting, t

LEMMA StopOk ==
    ASSUME NEW c, NEW h, NEW s, NEW u, NEW d, ChannelOk(c, h, s, u, d)
    PROVE  ChannelOk(c, Stop(h), s, u, d)
  <1> DEFINE g == Stop(h)
  <1>1. h \in HostSet /\ c.out \in Nat  BY DEF ChannelOk
  <1>2. /\ g \in HostSet /\ g.waiting = 0 /\ g.active = h.active /\ g.closing = h.closing
        /\ g.outgoing = h.outgoing /\ g.pending = h.pending /\ g.sequence = h.sequence
        /\ g.processed = h.processed
    BY <1>1 DEF Stop, HostSet
  <1> HIDE DEF g
  <1>3. HostOk(c, g, s)  BY <1>1, <1>2 DEF ChannelOk, HostOk
  <1>4. AllHeld(c, g, s, u)  BY <1>2 DEF ChannelOk, AllHeld
  <1>5. (Live(c, g) <=> Live(c, h)) /\ ~Awaited(c, g)
    BY <1>1, <1>2 DEF ChannelOk, HostOk, Live, Awaited
  <1>6. Live(c, h) => LiveOk(c, g, s, u, d)  BY <1>2 DEF ChannelOk, LiveOk, Replies
  <1> QED  BY <1>2, <1>3, <1>4, <1>5, <1>6 DEF ChannelOk, g

(* After the loss of the peer was noticed, a connected host has its         *)
(* presenter.                                                               *)
LEMMA TickLostOk ==
    ASSUME ChannelOk(Context, host, session, up, down)
    PROVE  /\ ChannelOk(Context, TickLost(host), session, up, down)
           /\ TickLost(host).active # 0 => Live(Context, TickLost(host))
  <1> DEFINE h == IF host.detached THEN Disconnect(Stop(host)) ELSE host
  <1>1. ChannelOk(Context, h, session, up, down)  BY StopOk, DisconnectOk
  <1>2. ChannelOk(Context, Disconnect(h), session, up, down)  BY <1>1, DisconnectOk
  <1>3. h \in HostSet  BY <1>1 DEF ChannelOk
  <1> HIDE DEF h
  <1>4. Disconnect(h).active = 0  BY <1>3, DisconnectType
  <1>5. TickLost(host) = IF h.active # 0 /\ Lost(h.active) THEN Disconnect(h) ELSE h
    BY Zenon DEF TickLost, h
  <1>6. ~Lost(h.active) <=> Live(Context, h)  BY DEF Lost, Live, Context
  <1> QED  BY <1>1, <1>2, <1>4, <1>5, <1>6

(* Fields of a host that a reply leaves alone unless it disconnects.        *)
SameHost(h, g) ==
    g.closing \/ /\ g.active = h.active /\ g.waiting = h.waiting /\ g.pending = h.pending
                 /\ g.sequence = h.sequence /\ g.stopped = h.stopped

LEMMA ReplySame ==
    ASSUME NEW h \in HostSet, NEW replies \in Seq(ReplySet)
    PROVE  LET g == Reply(h, replies)
           IN /\ g \in HostSet /\ SameHost(h, g) /\ (h.closing => g.closing)
              /\ h.active = 0 => g = h
  <1>1. h.outgoing \o replies \in Seq(ReplySet)
    <2>1. h.outgoing \in Seq(ReplySet)  BY DEF HostSet
    <2> QED  BY <2>1, RangeOfConcat
  <1> DEFINE g == [h EXCEPT !.outgoing = @ \o replies]
  <1>2. /\ g \in HostSet /\ g.active = h.active /\ g.waiting = h.waiting /\ g.pending = h.pending
        /\ g.sequence = h.sequence /\ g.stopped = h.stopped /\ g.closing = h.closing
    BY <1>1 DEF HostSet
  <1>3. Disconnect(h) \in HostSet /\ Disconnect(h).closing  BY DisconnectType
  <1>4. Reply(h, replies) = IF h.active = 0 THEN h
                            ELSE IF Len(h.outgoing) + Len(replies) > MaxOutgoing THEN Disconnect(h)
                            ELSE g
    BY Zenon DEF Reply, g
  <1> HIDE DEF g
  <1> QED  BY <1>2, <1>3, <1>4 DEF SameHost

LEMMA ProcessedOk ==
    ASSUME NEW c, NEW h, NEW s, NEW u, NEW d, ChannelOk(c, h, s, u, d)
    PROVE  ChannelOk(c, [h EXCEPT !.processed = TRUE], s, u, d)
  <1> DEFINE g == [h EXCEPT !.processed = TRUE]
  <1>1. h \in HostSet  BY DEF ChannelOk
  <1>2. /\ g \in HostSet /\ g.waiting = h.waiting /\ g.active = h.active /\ g.closing = h.closing
        /\ g.outgoing = h.outgoing /\ g.pending = h.pending /\ g.sequence = h.sequence
        /\ g.processed
    BY <1>1 DEF HostSet
  <1> HIDE DEF g
  <1>3. HostOk(c, g, s)  BY <1>2 DEF ChannelOk, HostOk
  <1>4. AllHeld(c, g, s, u)  BY <1>2 DEF ChannelOk, AllHeld
  <1>5. (Live(c, g) <=> Live(c, h)) /\ (Awaited(c, g) <=> Awaited(c, h))
    BY <1>2 DEF Live, Awaited
  <1>6. Live(c, h) => LiveOk(c, g, s, u, d)  BY <1>2 DEF ChannelOk, LiveOk, Replies
  <1> QED  BY <1>2, <1>3, <1>4, <1>5, <1>6 DEF ChannelOk, g

LEMMA TickPollOk ==
    ASSUME NEW c, NEW h, NEW polled,
           ChannelOk(c, h, session, up, down),
           polled = PollSession(IF h.closing THEN Close(session) ELSE session)
    PROVE  /\ ChannelOk(c, TickPoll(h, polled), polled, up, down)
           /\ SameHost(h, TickPoll(h, polled))
           /\ h.closing => TickPoll(h, polled).closing
  <1> DEFINE rs == Releases(session)
             g == Reply(h, rs)
             one == <<[op |-> "processed", seq |-> h.sequence]>>
             k == Reply(g, one)
  <1>1. h \in HostSet /\ SessionType(session) /\ c.out \in Nat  BY DEF ChannelOk
  <1>2. rs \in Seq(ReplySet)  BY <1>1, ReleasesRetired
  <1>3. ChannelOk(c, h, polled, up, down) /\ Fitting(c, h, polled, rs)
    <2>1. CASE ~h.closing  BY <2>1, PollReplies
    <2>2. CASE h.closing
      <3>1. SessionType(Close(session)) /\ Keeps(session, Close(session))  BY <1>1, CloseKeeps
      <3>2. ChannelOk(c, h, Close(session), up, down)  BY <3>1, ChannelKeeps
      <3>3. ChannelOk(c, h, polled, up, down)  BY <2>2, <3>2, PollReplies
      <3>4. ~Live(c, h)  BY <1>1, <2>2 DEF ChannelOk, HostOk, Live
      <3> QED  BY <1>2, <3>3, <3>4 DEF Fitting
    <2> QED  BY <2>1, <2>2
  <1>4. ChannelOk(c, g, polled, up, down)  BY <1>3, ReplyOk
  <1>5. g \in HostSet /\ SameHost(h, g) /\ (h.closing => g.closing)  BY <1>1, <1>2, ReplySame
  <1>6. [op |-> "processed", seq |-> h.sequence] \in ReplySet  BY <1>1 DEF ReplySet, HostSet
  <1>7. one \in Seq(ReplySet) /\ Range(one) = {[op |-> "processed", seq |-> h.sequence]}
    BY <1>6, RangeOfOne
  <1> HIDE DEF g, rs, one
  <1>8. ASSUME ~h.processed
        PROVE  Fitting(c, g, polled, one)
    <2>1. ASSUME Live(c, g)
          PROVE  /\ h.sequence <= g.sequence
                 /\ g.pending # None => h.sequence < g.sequence
      <3>1. g.active # 0 /\ ~g.closing  BY <1>4, <2>1, <1>1 DEF ChannelOk, HostOk, Live
      <3>2. g.sequence = h.sequence /\ g.pending = h.pending  BY <1>5, <3>1 DEF SameHost
      <3>3. h.sequence \in Nat  BY <1>1 DEF HostSet
      <3>4. h.pending = None  BY <1>8 DEF ChannelOk, HostOk
      <3> QED  BY <3>2, <3>3, <3>4
    <2> QED  BY <1>7, <2>1 DEF Fitting
  <1>9. k \in HostSet /\ SameHost(g, k) /\ (g.closing => k.closing)  BY <1>5, <1>7, ReplySame
  <1>10. ~h.processed => ChannelOk(c, k, polled, up, down)  BY <1>4, <1>8, ReplyOk
  <1> DEFINE p == [k EXCEPT !.processed = TRUE]
  <1>11. TickPoll(h, polled) = IF ~h.processed /\ CommandsProcessed(polled) THEN p ELSE g
    BY Zenon DEF TickPoll, g, rs, one
  <1> HIDE DEF k
  <1>12. /\ ~h.processed => ChannelOk(c, p, polled, up, down)
         /\ SameHost(g, p) /\ (g.closing => p.closing)
    <2>1. ASSUME ~h.processed PROVE ChannelOk(c, p, polled, up, down)
      <3>1. ChannelOk(c, k, polled, up, down)  BY <1>10, <2>1
      <3> QED  BY <1>9, <3>1, ProcessedOk
    <2>2. /\ p.closing = k.closing /\ p.active = k.active /\ p.waiting = k.waiting
          /\ p.pending = k.pending /\ p.sequence = k.sequence /\ p.stopped = k.stopped
      BY <1>9 DEF HostSet
    <2> QED  BY <1>9, <2>1, <2>2 DEF SameHost
  <1> HIDE DEF p
  <1>13. SameHost(h, p)  BY <1>5, <1>12 DEF SameHost
  <1> QED  BY <1>4, <1>5, <1>11, <1>12, <1>13

LEMMA ActivateOk ==
    ASSUME NEW c, NEW h, NEW s, NEW u, NEW d, ChannelOk(c, h, s, u, d), ~h.closing,
           h.active # 0 => Live(c, h)
    PROVE  LET g == Activate(h)
           IN /\ ChannelOk(c, g, s, u, d) /\ ~g.closing
              /\ g.active # 0 => ~Awaited(c, g) /\ (Live(c, g) \/ g.outgoing = <<>>)
  <1>1. h \in HostSet /\ c.out \in Nat /\ HostOk(c, h, s)  BY DEF ChannelOk
  <1>2. CASE h.stopped \/ h.active # 0 \/ h.waiting = 0
    <2>1. Activate(h) = h  BY <1>2 DEF Activate
    <2>2. Live(c, h) => ~Awaited(c, h)  BY <1>1 DEF HostOk, Live, Awaited
    <2> QED  BY <2>1, <2>2
  <1>3. CASE ~(h.stopped \/ h.active # 0 \/ h.waiting = 0)
    <2> DEFINE g == [h EXCEPT !.active = h.waiting, !.waiting = 0]
    <2>1. Activate(h) = g  BY <1>3 DEF Activate
    <2>2. h.waiting = c.out /\ h.active = 0 /\ c.out # 0  BY <1>1, <1>3 DEF HostOk
    <2>3. /\ g \in HostSet /\ g.waiting = 0 /\ g.active = c.out /\ ~g.closing
          /\ g.outgoing = h.outgoing /\ g.pending = h.pending /\ g.sequence = h.sequence
          /\ g.processed = h.processed
      BY <1>1, <2>2 DEF HostSet
    <2> HIDE DEF g
    <2>4. h.outgoing = <<>> /\ h.pending = None /\ s.leases = {} /\ s.redundant = {} /\ h.sequence = 0
      BY <1>1, <2>2 DEF HostOk
    <2>5. HostOk(c, g, s)  BY <1>1, <2>2, <2>3, <2>4 DEF HostOk
    <2>6. AllHeld(c, g, s, u)  BY <2>3 DEF ChannelOk, AllHeld
    <2>7. ~Awaited(c, g)  BY <2>2, <2>3 DEF Awaited
    <2>8. ASSUME Live(c, g) PROVE LiveOk(c, g, s, u, d)
      <3>1. AwaitedOk(c, u, d)  BY <2>2, <2>8 DEF ChannelOk, Awaited, Live
      <3>2. Replies(g, d) = {}  BY <2>3, <2>4, <3>1, RangeOfNone DEF Replies, AwaitedOk
      <3>3. u \in Seq(MessageSet) /\ Len(u) \in Nat  BY DEF ChannelOk
      <3> QED  BY <2>3, <2>4, <3>1, <3>2, <3>3 DEF LiveOk, AwaitedOk
    <2>9. ChannelOk(c, g, s, u, d)  BY <2>3, <2>5, <2>6, <2>7, <2>8 DEF ChannelOk
    <2> QED  BY <2>1, <2>3, <2>4, <2>7, <2>9
  <1> QED  BY <1>2, <1>3

(* The replies that were kept go into the socket.                           *)
LEMMA FlushOk ==
    ASSUME NEW c, NEW h, NEW s, NEW u, NEW d, ChannelOk(c, h, s, u, d),
           ~Awaited(c, h), Live(c, h) \/ h.outgoing = <<>>
    PROVE  ChannelOk(c, [h EXCEPT !.outgoing = <<>>], s, u, d \o h.outgoing)
  <1> DEFINE g == [h EXCEPT !.outgoing = <<>>]
             e == d \o h.outgoing
  <1>1. h \in HostSet /\ h.outgoing \in Seq(ReplySet) /\ d \in Seq(ReplySet)  BY DEF ChannelOk, HostSet
  <1>2. /\ g \in HostSet /\ g.waiting = h.waiting /\ g.active = h.active /\ g.closing = h.closing
        /\ g.outgoing = <<>> /\ g.pending = h.pending /\ g.sequence = h.sequence
        /\ g.processed = h.processed
    BY <1>1, EmptySeq DEF HostSet
  <1>3. e \in Seq(ReplySet) /\ Range(e) = Range(d) \cup Range(h.outgoing)  BY <1>1, RangeOfConcat
  <1>4. ~c.presenter.open => e = <<>>
    <2>1. ~c.presenter.open => d = <<>> /\ h.outgoing = <<>>  BY DEF ChannelOk, Live
    <2>2. <<>> \o <<>> = <<>>  OBVIOUS
    <2> QED  BY <2>1, <2>2
  <1> HIDE DEF g, e
  <1>5. Replies(g, e) = Replies(h, d)  BY <1>2, <1>3, RangeOfNone DEF Replies
  <1>6. HostOk(c, g, s)  BY <1>2 DEF ChannelOk, HostOk
  <1>7. AllHeld(c, g, s, u)  BY <1>2 DEF ChannelOk, AllHeld
  <1>8. (Live(c, g) <=> Live(c, h)) /\ ~Awaited(c, g)  BY <1>2 DEF Live, Awaited
  <1>9. Live(c, h) => LiveOk(c, g, s, u, e)  BY <1>2, <1>5 DEF ChannelOk, LiveOk
  <1> QED  BY <1>2, <1>3, <1>4, <1>6, <1>7, <1>8, <1>9 DEF ChannelOk, g, e

LEMMA TailFacts ==
    ASSUME NEW S, NEW q \in Seq(S), q # <<>>
    PROVE  /\ Head(q) \in S /\ Head(q) = q[1] /\ Tail(q) \in Seq(S)
           /\ Len(q) \in Nat /\ Len(q) > 0 /\ Len(Tail(q)) = Len(q) - 1
           /\ \A k \in 1..Len(Tail(q)) : Tail(q)[k] = q[k + 1] /\ k + 1 \in 1..Len(q)
  <1>1. /\ Tail(q) \in Seq(S) /\ Head(q) \in S /\ Head(q) = q[1]
        /\ Len(q) \in Nat /\ Len(q) > 0 /\ Len(Tail(q)) = Len(q) - 1
    OBVIOUS
  <1> QED  BY <1>1

(* The host takes the next frame out of the socket.                         *)
Received(h, u) == [h EXCEPT !.pending = Head(u), !.sequence = Head(u).seq]
Receives(h, u) ==
    /\ h.active # 0 /\ h.processed /\ h.pending = None /\ u # <<>>
    /\ Head(u).seq > h.sequence

LEMMA ReceiveOk ==
    ASSUME NEW c, NEW h, NEW s, NEW u, NEW d, ChannelOk(c, h, s, u, d), ~Awaited(c, h), Receives(h, u)
    PROVE  /\ ChannelOk(c, Received(h, u), s, Tail(u), d)
           /\ Received(h, u).pending = Head(u) /\ Head(u) \in MessageSet
           /\ Received(h, u).active = h.active
  <1> USE DEF Receives
  <1> DEFINE m == Head(u)
             v == Tail(u)
             g == Received(h, u)
  <1>1. h \in HostSet /\ u \in Seq(MessageSet)  BY DEF ChannelOk
  <1>2. /\ m \in MessageSet /\ m = u[1] /\ v \in Seq(MessageSet)
        /\ Len(u) \in Nat /\ Len(u) > 0 /\ Len(v) = Len(u) - 1
        /\ \A k \in 1..Len(v) : v[k] = u[k + 1] /\ k + 1 \in 1..Len(u)
    BY <1>1, TailFacts
  <1>3. m.seq \in Nat /\ h.sequence \in Nat  BY <1>1, <1>2 DEF MessageSet, HostSet
  <1>4. m.seq > h.sequence /\ g = [h EXCEPT !.pending = m, !.sequence = m.seq]  BY DEF Received
  <1> HIDE DEF m, v, g
  <1>5. /\ g \in HostSet /\ g.waiting = h.waiting /\ g.active = h.active /\ g.closing = h.closing
        /\ g.outgoing = h.outgoing /\ g.pending = m /\ g.sequence = m.seq
        /\ g.processed = h.processed
    BY <1>1, <1>2, <1>3, <1>4 DEF HostSet
  <1>6. HostOk(c, g, s)  BY <1>5 DEF ChannelOk, HostOk
  <1>7. AllHeld(c, g, s, v)
    <2>1. FrameHeld(c, m)  BY <1>2 DEF ChannelOk, AllHeld
    <2> QED  BY <1>2, <1>5, <2>1 DEF ChannelOk, AllHeld
  <1>8. (Live(c, g) <=> Live(c, h)) /\ ~Awaited(c, g)  BY <1>5 DEF Live, Awaited
  <1>9. ASSUME Live(c, h) PROVE LiveOk(c, g, s, v, d)
    <2>1. LiveOk(c, h, s, u, d)  BY <1>9 DEF ChannelOk
    <2>2. m.seq = h.sequence + 1  BY <1>2, <2>1 DEF LiveOk
    <2>3. Replies(g, d) = Replies(h, d)  BY <1>5 DEF Replies
    <2>4. \A k \in 1..Len(v) : v[k].seq = g.sequence + k
      <3> SUFFICES ASSUME NEW k \in 1..Len(v) PROVE v[k].seq = g.sequence + k  OBVIOUS
      <3>1. u[k + 1].seq = h.sequence + (k + 1)  BY <1>2, <2>1 DEF LiveOk
      <3>2. v[k] = u[k + 1] /\ k \in Nat  BY <1>2
      <3>3. h.sequence + (k + 1) = m.seq + k  BY <1>3, <2>2, <3>2
      <3> QED  BY <1>5, <3>1, <3>2, <3>3
    <2>5. c.presenter.sent = g.sequence + Len(v)  BY <1>2, <1>3, <1>5, <2>1, <2>2 DEF LiveOk
    <2>6. \A l : l.seq <= h.sequence /\ l.seq \in Nat => l.seq < g.sequence /\ l.seq <= g.sequence
      BY <1>3, <1>5, <2>2
    <2>7. \A l \in s.leases \cup s.redundant \cup Replies(h, d) : l.seq \in Nat
      <3>1. s.leases \subseteq LeaseSet /\ s.redundant \subseteq KeySet
        BY DEF ChannelOk, SessionType, SessionSet
      <3>2. Replies(h, d) \subseteq ReplySet
        <4>1. h.outgoing \in Seq(ReplySet) /\ d \in Seq(ReplySet)  BY <1>1 DEF ChannelOk, HostSet
        <4> QED  BY <4>1 DEF Replies, Range
      <3> QED  BY <3>1, <3>2 DEF LeaseSet, KeySet, ReplySet
    <2>8. \A l \in s.leases \cup s.redundant \cup Replies(h, d) : l.seq <= h.sequence
      BY <2>1 DEF LiveOk
    <2> QED  BY <2>1, <2>3, <2>4, <2>5, <2>6, <2>7, <2>8 DEF LiveOk
  <1>10. ChannelOk(c, g, s, v, d)  BY <1>2, <1>5, <1>6, <1>7, <1>8, <1>9 DEF ChannelOk
  <1> QED  BY <1>2, <1>5, <1>10 DEF m, v, g

(* A pending frame goes, refused or accepted.                               *)
LEMMA PendingGone ==
    ASSUME NEW c, NEW h, NEW s, NEW u, NEW d, ChannelOk(c, h, s, u, d)
    PROVE  ChannelOk(c, [h EXCEPT !.pending = None], s, u, d)
  <1> DEFINE g == [h EXCEPT !.pending = None]
  <1>1. h \in HostSet  BY DEF ChannelOk
  <1>2. /\ g \in HostSet /\ g.waiting = h.waiting /\ g.active = h.active /\ g.closing = h.closing
        /\ g.outgoing = h.outgoing /\ g.pending = None /\ g.sequence = h.sequence
        /\ g.processed = h.processed
    BY <1>1 DEF HostSet
  <1> HIDE DEF g
  <1>3. HostOk(c, g, s)  BY <1>2 DEF ChannelOk, HostOk
  <1>4. AllHeld(c, g, s, u)  BY <1>2 DEF ChannelOk, AllHeld
  <1>5. (Live(c, g) <=> Live(c, h)) /\ (Awaited(c, g) <=> Awaited(c, h))  BY <1>2 DEF Live, Awaited
  <1>6. Live(c, h) => LiveOk(c, g, s, u, d)  BY <1>2 DEF ChannelOk, LiveOk, Replies
  <1> QED  BY <1>2, <1>3, <1>4, <1>5, <1>6 DEF ChannelOk, g

LEMMA AcceptedOk ==
    ASSUME NEW c, NEW h, NEW s, NEW u, NEW d, ChannelOk(c, h, s, u, d),
           NEW m \in MessageSet, FrameHeld(c, m), h.active # 0 \/ h.closing,
           h.closing \/ h.pending = m,
           NEW t, Accepts(s, t, m), NEW current \in [Planes -> ContentSet]
    PROVE  ChannelOk(c, [h EXCEPT !.pending = None, !.processed = FALSE, !.current = current], t, u, d)
  <1> DEFINE g == [h EXCEPT !.pending = None, !.processed = FALSE, !.current = current]
  <1>1. h \in HostSet /\ HostOk(c, h, s)  BY DEF ChannelOk
  <1>2. /\ g \in HostSet /\ g.waiting = h.waiting /\ g.active = h.active /\ g.closing = h.closing
        /\ g.outgoing = h.outgoing /\ g.pending = None /\ g.sequence = h.sequence
    BY <1>1 DEF HostSet
  <1> HIDE DEF g
  <1>3. HostOk(c, g, t)  BY <1>1, <1>2 DEF HostOk
  <1>4. AllHeld(c, g, t, u)
    <2>1. ASSUME NEW l \in t.leases PROVE Held(c, l.seq, l.plane, l.buf)
      <3>1. CASE l \in s.leases  BY <3>1 DEF ChannelOk, AllHeld
      <3>2. CASE l \notin s.leases
        <4>1. l.seq = m.seq /\ l.plane \in DOMAIN m.frame /\ l.buf = m.frame[l.plane].buf
          BY <2>1, <3>2 DEF Accepts
        <4> QED  BY <4>1 DEF FrameHeld
      <3> QED  BY <3>1, <3>2
    <2> QED  BY <1>2, <2>1 DEF ChannelOk, AllHeld
  <1>5. (Live(c, g) <=> Live(c, h)) /\ (Awaited(c, g) <=> Awaited(c, h))  BY <1>2 DEF Live, Awaited
  <1>6. ASSUME Live(c, h) PROVE LiveOk(c, g, t, u, d)
    <2>1. LiveOk(c, h, s, u, d)  BY <1>6 DEF ChannelOk
    <2>2. h.pending = m /\ m # None /\ m.seq = h.sequence
      <3>1. ~h.closing  BY <1>1, <1>6 DEF HostOk, Live, ChannelOk
      <3>2. m # None  BY ConstantsAssumption
      <3> QED  BY <1>1, <3>1, <3>2 DEF HostOk
    <2>3. \A l \in s.leases \cup s.redundant \cup Replies(h, d) : l.seq < m.seq  BY <2>1, <2>2 DEF LiveOk
    <2>4. Replies(g, d) = Replies(h, d)  BY <1>2 DEF Replies
    <2>5. m.seq \in Nat  BY DEF MessageSet
    <2>6. \A l \in t.leases : /\ l \in LeaseSet
                              /\ l \in s.leases \/ /\ l.seq = m.seq /\ ~m.frame[l.plane].reuse
                                                   /\ l.buf = m.frame[l.plane].buf /\ l.rs = "staged"
      BY DEF Accepts, SessionType, SessionSet
    <2>7. \A r \in t.redundant : r \in s.redundant \/ (r.seq = m.seq /\ m.frame[r.plane].reuse)
      BY DEF Accepts
    <2>8. \A l \in t.leases \cup t.redundant : l.seq <= g.sequence
      BY <1>2, <2>1, <2>2, <2>5, <2>6, <2>7 DEF LiveOk
    <2>9. ASSUME NEW l \in t.leases, NEW k \in t.leases, Same(l, k) PROVE l = k
      <3>1. CASE l \in s.leases /\ k \in s.leases  BY <2>1, <2>9, <3>1 DEF LiveOk
      <3>2. CASE l \notin s.leases /\ k \notin s.leases
        <4>1. l.seq = k.seq /\ l.plane = k.plane /\ l.buf = k.buf /\ l.rs = k.rs
          BY <2>6, <2>9, <3>2 DEF Same
        <4> QED  BY <2>6, <4>1 DEF LeaseSet
      <3>3. CASE l \in s.leases /\ k \notin s.leases
        <4>1. l.seq < m.seq /\ k.seq = m.seq /\ l.seq = k.seq  BY <2>3, <2>6, <2>9, <3>3 DEF Same
        <4> QED  BY <2>5, <4>1
      <3>4. CASE l \notin s.leases /\ k \in s.leases
        <4>1. k.seq < m.seq /\ l.seq = m.seq /\ l.seq = k.seq  BY <2>3, <2>6, <2>9, <3>4 DEF Same
        <4> QED  BY <2>5, <4>1
      <3> QED  BY <3>1, <3>2, <3>3, <3>4
    <2>10. ASSUME NEW l \in t.leases, NEW r \in t.redundant, Same(l, r) PROVE FALSE
      <3>1. CASE l \in s.leases /\ r \in s.redundant  BY <2>1, <2>10, <3>1 DEF LiveOk
      <3>2. CASE l \notin s.leases /\ r \notin s.redundant  BY <2>6, <2>7, <2>10, <3>2 DEF Same
      <3>3. CASE l \in s.leases /\ r \notin s.redundant
        <4>1. l.seq < m.seq /\ r.seq = m.seq /\ l.seq = r.seq  BY <2>3, <2>7, <2>10, <3>3 DEF Same
        <4> QED  BY <2>5, <4>1
      <3>4. CASE l \notin s.leases /\ r \in s.redundant
        <4>1. r.seq < m.seq /\ l.seq = m.seq /\ l.seq = r.seq  BY <2>3, <2>6, <2>10, <3>4 DEF Same
        <4> QED  BY <2>5, <4>1
      <3> QED  BY <3>1, <3>2, <3>3, <3>4
    <2>11. ASSUME NEW l \in t.leases, NEW r \in Replies(h, d), r.op = "released", Same(l, r) PROVE FALSE
      <3>1. CASE l \in s.leases  BY <2>1, <2>11, <3>1 DEF LiveOk
      <3>2. CASE l \notin s.leases
        <4>1. r.seq < m.seq /\ l.seq = m.seq /\ l.seq = r.seq  BY <2>3, <2>6, <2>11, <3>2 DEF Same
        <4> QED  BY <2>5, <4>1
      <3> QED  BY <3>1, <3>2
    <2> QED  BY <1>2, <2>1, <2>4, <2>8, <2>9, <2>10, <2>11 DEF LiveOk
  <1> QED  BY <1>2, <1>3, <1>4, <1>5, <1>6 DEF ChannelOk, Accepts, g

LEMMA ContentsType ==
    ASSUME NEW f \in FrameSet
    PROVE  Contents(f) \in [Planes -> ContentSet]
  <1>1. \A i \in DOMAIN f : f[i].buf \in Names(0) \cup Names(1) /\ f[i].content \in Nat  BY FrameFacts
  <1>2. NoPlane \in ContentSet  BY DEF NoPlane, ContentSet
  <1>3. \A i \in DOMAIN f : [buf |-> f[i].buf, content |-> f[i].content] \in ContentSet
    BY <1>1 DEF ContentSet
  <1> QED  BY <1>2, <1>3 DEF Contents

(* Host::Submit, whatever becomes of the frame.                             *)
LEMMA SubmitOk ==
    ASSUME NEW c, NEW h, NEW s, NEW u, NEW d, ChannelOk(c, h, s, u, d),
           h.active # 0, h.pending # None
    PROVE  ChannelOk(c, Submit(h, s).host, Submit(h, s).session, u, d)
  <1> DEFINE m == h.pending
             polled == PollSession(s)
             imp == Imported(h, m.frame)
             after == IF imp THEN polled ELSE s
             told == Reply(h, IF imp THEN Releases(s) ELSE <<>>)
             answer(op) == [op |-> op, seq |-> m.seq]
             acc == [told EXCEPT !.pending = None, !.processed = FALSE, !.current = Contents(m.frame)]
             ref == [told EXCEPT !.pending = None]
             t == Accept(after, m.frame, m.seq)
  <1>1. h \in HostSet /\ HostOk(c, h, s) /\ SessionType(s)  BY DEF ChannelOk
  <1>2. m \in MessageSet /\ m.frame \in FrameSet /\ m.seq \in Nat /\ m.seq = h.sequence
    BY <1>1 DEF HostSet, HostOk, MessageSet
  <1>3. FrameHeld(c, m)  BY DEF ChannelOk, AllHeld
  <1>4. /\ ChannelOk(c, told, after, u, d) /\ told \in HostSet /\ SameHost(h, told)
    <2> DEFINE rs == IF imp THEN Releases(s) ELSE <<>>
    <2>1. Releases(s) \in Seq(ReplySet)  BY <1>1, ReleasesRetired
    <2>2. rs \in Seq(ReplySet)  BY <2>1, EmptySeq
    <2>3. ChannelOk(c, h, after, u, d) /\ Fitting(c, h, after, rs)
      <3>1. CASE imp  BY <3>1, PollReplies
      <3>2. CASE ~imp  BY <2>2, <3>2, RangeOfNone DEF Fitting
      <3> QED  BY <3>1, <3>2
    <2> HIDE DEF rs
    <2>4. ChannelOk(c, Reply(h, rs), after, u, d)  BY <2>3, ReplyOk
    <2>5. Reply(h, rs) \in HostSet /\ SameHost(h, Reply(h, rs))  BY <1>1, <2>2, ReplySame
    <2> QED  BY <2>4, <2>5 DEF rs
  <1>5. SessionType(after)  BY <1>4 DEF ChannelOk
  <1> HIDE DEF m, imp, after, told
  <1>6. \A op \in {"accepted", "rejected"} :
           <<answer(op)>> \in Seq(ReplySet) /\ Range(<<answer(op)>>) = {answer(op)}
    <2>1. \A op \in {"accepted", "rejected"} : answer(op) \in ReplySet  BY <1>2 DEF ReplySet
    <2> QED  BY <2>1, RangeOfOne
  <1>7. \A g, op, r : op \in {"accepted", "rejected"} /\ g.pending = None
                        /\ (g.closing => g.active = 0) /\ g.active = told.active
                        /\ g.sequence = told.sequence /\ (c.presenter.open => c.out > 0)
                        => Fitting(c, g, r, <<answer(op)>>)
    <2> SUFFICES ASSUME NEW g, NEW op \in {"accepted", "rejected"}, NEW r, g.pending = None,
                        g.closing => g.active = 0,
                        g.active = told.active, g.sequence = told.sequence, c.presenter.open => c.out > 0
                 PROVE  Fitting(c, g, r, <<answer(op)>>)
      BY Zenon
    <2>1. ASSUME Live(c, g) PROVE answer(op).seq <= g.sequence /\ answer(op).op # "released"
      <3>1. ~g.closing  BY <2>1 DEF Live
      <3>3. ~told.closing  BY <1>4, <2>1 DEF ChannelOk, HostOk, Live
      <3>4. g.sequence = h.sequence  BY <1>4, <3>3 DEF SameHost
      <3> QED  BY <1>2, <3>4
    <2> QED  BY <1>6, <2>1 DEF Fitting
  <1>8. ChannelOk(c, Reply(acc, <<answer("accepted")>>), t, u, d)
    <2>1. Contents(m.frame) \in [Planes -> ContentSet]  BY <1>2, ContentsType
    <2>2. Accepts(after, t, m)  BY <1>2, <1>5, AcceptAccepts
    <2>3. told.closing \/ told.pending = m  BY <1>4 DEF SameHost, m
    <2>4. told.active # 0 \/ told.closing  BY <1>4 DEF SameHost
    <2> HIDE DEF t
    <2>5. ChannelOk(c, acc, t, u, d)  BY <1>2, <1>3, <1>4, <2>1, <2>2, <2>3, <2>4, AcceptedOk
    <2>6. acc.pending = None /\ acc.active = told.active /\ acc.sequence = told.sequence
      BY <1>4, <2>1 DEF HostSet
    <2>7. (acc.closing => acc.active = 0) /\ (c.presenter.open => c.out > 0)
      BY <2>5 DEF ChannelOk, HostOk
    <2> HIDE DEF acc
    <2>8. Fitting(c, acc, t, <<answer("accepted")>>)  BY <1>7, <2>6, <2>7
    <2> QED  BY <2>5, <2>8, ReplyOk
  <1>9. ChannelOk(c, Reply(ref, <<answer("rejected")>>), after, u, d)
    <2>1. ChannelOk(c, ref, after, u, d)  BY <1>4, PendingGone
    <2>2. ref.pending = None /\ ref.active = told.active /\ ref.sequence = told.sequence
      BY <1>4 DEF HostSet
    <2>3. (ref.closing => ref.active = 0) /\ (c.presenter.open => c.out > 0)
      BY <2>1 DEF ChannelOk, HostOk
    <2> HIDE DEF ref
    <2>4. Fitting(c, ref, after, <<answer("rejected")>>)  BY <1>7, <2>2, <2>3
    <2> QED  BY <2>1, <2>4, ReplyOk
  <1>10. \/ Submit(h, s) = [host |-> Reply(acc, <<answer("accepted")>>), session |-> t]
         \/ Submit(h, s) = [host |-> told, session |-> after]
         \/ Submit(h, s) = [host |-> Reply(ref, <<answer("rejected")>>), session |-> after]
    BY Zenon DEF Submit, m, imp, after, told
  <1> HIDE DEF acc, ref, t, answer
  <1> QED  BY <1>4, <1>8, <1>9, <1>10

LEMMA TickServeOk ==
    ASSUME NEW h, NEW s, NEW full, ChannelOk(Context, h, s, up, down),
           h.active # 0 => ~Awaited(Context, h) /\ (Live(Context, h) \/ h.outgoing = <<>>),
           TickServe(h, s, full)
    PROVE  ChannelOk(Context, host', session', up', down')
  <1> DEFINE h1 == [h EXCEPT !.outgoing = <<>>]
             m == Head(up)
             hm == [h1 EXCEPT !.pending = m, !.sequence = m.seq]
             h2 == IF h.pending # None THEN h1 ELSE hm
  <1>1. h \in HostSet /\ up \in Seq(MessageSet)  BY DEF ChannelOk
  <1>2. /\ h1 \in HostSet /\ h1.active = h.active /\ h1.waiting = h.waiting /\ h1.pending = h.pending
        /\ h1.processed = h.processed /\ h1.sequence = h.sequence
    BY <1>1, EmptySeq DEF HostSet
  <1>3. CASE host' = h /\ session' = s /\ UNCHANGED <<up, down>>
    BY <1>3
  <1>4. CASE h.active # 0 /\ down' = down \o h.outgoing
             /\ \/ /\ ~h.processed \/ (h.pending = None /\ up = <<>>)
                   /\ host' = IF h.processed /\ Lost(h.active) THEN Disconnect(h1) ELSE h1
                   /\ session' = s
                   /\ UNCHANGED up
                \/ /\ h.processed /\ h.pending = None /\ up # <<>> /\ m.seq <= h.sequence
                   /\ host' = Disconnect(h1) /\ session' = s /\ up' = Tail(up)
                \/ /\ h.processed
                   /\ h.pending = None => up # <<>> /\ m.seq > h.sequence
                   /\ host' = Submit(h2, s).host /\ session' = Submit(h2, s).session
                   /\ up' = IF h.pending = None THEN Tail(up) ELSE up
    <2> DEFINE d == down \o h.outgoing
    <2>1. ChannelOk(Context, h1, s, up, d)  BY <1>4, FlushOk
    <2>2. ~Awaited(Context, h1)  BY <1>2, <1>4 DEF Awaited
    <2> HIDE DEF h1, d
    <2>3. CASE /\ host' = IF h.processed /\ Lost(h.active) THEN Disconnect(h1) ELSE h1
               /\ session' = s /\ UNCHANGED up
      <3>1. ChannelOk(Context, Disconnect(h1), s, up, d)  BY <2>1, DisconnectOk
      <3>2. host' \in {Disconnect(h1), h1}  BY <2>3
      <3>3. down' = d  BY <1>4 DEF d
      <3> QED  BY <2>1, <2>3, <3>1, <3>2, <3>3
    <2>4. CASE /\ up # <<>> /\ m.seq <= h.sequence
               /\ host' = Disconnect(h1) /\ session' = s /\ up' = Tail(up)
      <3> DEFINE g == Disconnect(h1)
      <3>1. ChannelOk(Context, g, s, up, d)  BY <2>1, DisconnectOk
      <3>2. /\ Tail(up) \in Seq(MessageSet)
            /\ \A k \in 1..Len(Tail(up)) : Tail(up)[k] = up[k + 1] /\ k + 1 \in 1..Len(up)
        BY <1>1, <2>4, TailFacts
      <3>3. AllHeld(Context, g, s, Tail(up))  BY <3>1, <3>2 DEF ChannelOk, AllHeld
      <3>4. ~Live(Context, g) /\ ~Awaited(Context, g)
        <4>1. g.active = 0 /\ g.waiting = h1.waiting  BY <1>2, DisconnectType
        <4> QED  BY <2>2, <3>1, <4>1 DEF ChannelOk, HostOk, Live, Awaited
      <3> HIDE DEF g
      <3>5. ChannelOk(Context, g, s, Tail(up), d)  BY <3>1, <3>2, <3>3, <3>4 DEF ChannelOk
      <3> QED  BY <1>4, <2>4, <3>5 DEF g, d
    <2>5. CASE /\ h.processed
               /\ h.pending = None => up # <<>> /\ m.seq > h.sequence
               /\ host' = Submit(h2, s).host /\ session' = Submit(h2, s).session
               /\ up' = IF h.pending = None THEN Tail(up) ELSE up
      <3> DEFINE u == IF h.pending = None THEN Tail(up) ELSE up
      <3>1. ChannelOk(Context, h2, s, u, d) /\ h2.active # 0 /\ h2.pending # None
        <4>1. CASE h.pending # None  BY <1>2, <1>4, <2>1, <4>1
        <4>2. CASE h.pending = None
          <5>1. Receives(h1, up) /\ hm = Received(h1, up) /\ m = Head(up)
            BY <1>2, <1>4, <2>5, <4>2 DEF Receives, Received
          <5> HIDE DEF hm, m
          <5>2. /\ ChannelOk(Context, hm, s, Tail(up), d) /\ hm.pending = m /\ m \in MessageSet
                /\ hm.active = h1.active
            BY <2>1, <2>2, <5>1, ReceiveOk
          <5>3. m # None  BY <5>2, ConstantsAssumption
          <5> QED  BY <1>2, <1>4, <4>2, <5>2, <5>3
        <4> QED  BY <4>1, <4>2
      <3> HIDE DEF h2, u
      <3>2. ChannelOk(Context, Submit(h2, s).host, Submit(h2, s).session, u, d)  BY <3>1, SubmitOk
      <3> QED  BY <1>4, <2>5, <3>2 DEF u, d
    <2> HIDE DEF h2
    <2> QED  BY <1>4, <2>3, <2>4, <2>5
  <1> QED  BY <1>3, <1>4, Zenon DEF TickServe

LEMMA NewSessionType == SessionType(NewSession) /\ NewSession.leases = {} /\ NewSession.redundant = {}
  <1>1. [op |-> "start"] \in CommandSet  BY DEF CommandSet
  <1>2. <<[op |-> "start"]>> \in Seq(CommandSet)  BY <1>1
  <1>3. [i \in Planes |-> None] \in [Planes -> Names(0) \cup Names(1) \cup {None}]  OBVIOUS
  <1> QED  BY <1>2, <1>3, FS_EmptySet DEF SessionType, SessionSet, NewSession

LEMMA TickClosedOk ==
    ASSUME NEW h, NEW s, ChannelOk(Context, h, s, up, down), h.closing, TickClosed(h)
    PROVE  ChannelOk(Context, host', session', up', down')
  <1> DEFINE a == [Stop(h) EXCEPT !.exists = FALSE]
             b == [h EXCEPT !.closing = FALSE, !.processed = TRUE, !.sequence = 0]
  <1>1. h \in HostSet /\ HostOk(Context, h, s) /\ Context.out \in Nat  BY DEF ChannelOk
  <1>2. /\ a \in HostSet /\ a.active = h.active /\ a.waiting = 0 /\ a.closing
        /\ a.outgoing = h.outgoing /\ a.pending = h.pending
    BY <1>1 DEF Stop, HostSet
  <1>3. /\ b \in HostSet /\ b.active = h.active /\ b.waiting = h.waiting /\ ~b.closing /\ b.processed
        /\ b.outgoing = h.outgoing /\ b.pending = h.pending /\ b.sequence = 0
    BY <1>1 DEF HostSet
  <1>4. h.active = 0 /\ h.pending = None  BY <1>1 DEF HostOk
  <1>5. SessionType(NewSession) /\ NewSession.leases = {} /\ NewSession.redundant = {}  BY NewSessionType
  <1>6. host' \in {a, b} /\ session' = NewSession /\ up' = up /\ down' = down
    BY DEF TickClosed
  <1> HIDE DEF a, b
  <1>7. ASSUME NEW g \in {a, b} PROVE ChannelOk(Context, g, NewSession, up, down)
    <2>1. HostOk(Context, g, NewSession)  BY <1>1, <1>2, <1>3, <1>4, <1>5 DEF HostOk
    <2>2. AllHeld(Context, g, NewSession, up)  BY <1>2, <1>3, <1>4, <1>5 DEF ChannelOk, AllHeld
    <2>3. ~Live(Context, g)  BY <1>1, <1>2, <1>3, <1>4 DEF HostOk, Live
    <2>4. Awaited(Context, g) => Awaited(Context, h)  BY <1>1, <1>2, <1>3 DEF HostOk, Awaited
    <2> QED  BY <1>2, <1>3, <1>5, <2>1, <2>2, <2>3, <2>4 DEF ChannelOk
  <1> QED  BY <1>6, <1>7

LEMMA TickOk ==
    ASSUME ChannelOk(Context, host, session, up, down), NEW full, Tick(full)
    PROVE  ChannelOk(Context, host, session, up, down)'
  <1>1. PICK lost \in {TickLost(host)} :
           \E polled \in {PollSession(IF lost.closing THEN Close(session) ELSE session)} :
           \E h \in {TickPoll(lost, polled)} :
              \/ h.closing /\ polled.state = "closed" /\ TickClosed(h)
              \/ h.closing /\ polled.state # "closed" /\ host' = h /\ session' = polled
                           /\ UNCHANGED <<up, down>>
              \/ ~h.closing /\ TickServe(Activate(h), polled, full)
    BY Zenon DEF Tick
  <1>2. PICK polled \in {PollSession(IF lost.closing THEN Close(session) ELSE session)} :
           \E h \in {TickPoll(lost, polled)} :
              \/ h.closing /\ polled.state = "closed" /\ TickClosed(h)
              \/ h.closing /\ polled.state # "closed" /\ host' = h /\ session' = polled
                           /\ UNCHANGED <<up, down>>
              \/ ~h.closing /\ TickServe(Activate(h), polled, full)
    BY <1>1, Zenon
  <1>3. PICK h \in {TickPoll(lost, polled)} :
              \/ h.closing /\ polled.state = "closed" /\ TickClosed(h)
              \/ h.closing /\ polled.state # "closed" /\ host' = h /\ session' = polled
                           /\ UNCHANGED <<up, down>>
              \/ ~h.closing /\ TickServe(Activate(h), polled, full)
    BY <1>2, Zenon
  <1>4. /\ ChannelOk(Context, lost, session, up, down)
        /\ lost.active # 0 => Live(Context, lost)
    BY TickLostOk
  <1>5. /\ ChannelOk(Context, h, polled, up, down) /\ SameHost(lost, h)
    BY <1>4, TickPollOk
  <1>6. ChannelOk(Context, host', session', up', down')
    <2>1. CASE h.closing /\ polled.state = "closed" /\ TickClosed(h)
      BY <1>5, <2>1, TickClosedOk
    <2>2. CASE h.closing /\ polled.state # "closed" /\ host' = h /\ session' = polled
               /\ UNCHANGED <<up, down>>
      BY <1>5, <2>2
    <2>3. CASE ~h.closing /\ TickServe(Activate(h), polled, full)
      <3>1. h.active # 0 => Live(Context, h)  BY <1>4, <1>5, <2>3 DEF SameHost, Live
      <3> DEFINE g == Activate(h)
      <3>2. /\ ChannelOk(Context, g, polled, up, down)
            /\ g.active # 0 => ~Awaited(Context, g) /\ (Live(Context, g) \/ g.outgoing = <<>>)
        BY <1>5, <2>3, <3>1, ActivateOk
      <3>3. TickServe(g, polled, full)  BY <2>3
      <3> HIDE DEF g
      <3> QED  BY <3>2, <3>3, TickServeOk
    <2> QED  BY <1>3, <2>1, <2>2, <2>3
  <1>7. Context' = Context  BY DEF Tick, Context
  <1> QED  BY <1>6, <1>7

LEMMA ServeOk ==
    ASSUME ChannelOk(Context, host, session, up, down),
           RsApply \/ RsComplete \/ RsReturn
    PROVE  ChannelOk(Context, host, session, up, down)'
  <1>1. SessionType(session)  BY DEF ChannelOk
  <1>2. SessionType(session') /\ Keeps(session, session')
    <2>1. CASE RsApply  BY <1>1, <2>1, ApplyKeeps DEF RsApply, Serve
    <2>2. CASE RsComplete
      <3> DEFINE t == [session EXCEPT !.acked = TRUE]
      <3>1. SessionType(t) /\ t.leases = session.leases /\ t.redundant = session.redundant
        BY <1>1 DEF SessionType, SessionSet
      <3>2. session' = t  BY <2>2 DEF RsComplete, Serve
      <3> HIDE DEF t
      <3> QED  BY <3>1, <3>2, KeepsFewer
    <2>3. CASE RsReturn
      <3>1. PICK l \in Returnable(session) : session' = Move(session, {l}, "returned")
        BY <2>3 DEF RsReturn, Serve
      <3>2. {l} \in SUBSET session.leases /\ "returned" \in Wheres  BY DEF Returnable, On, Wheres
      <3> QED  BY <1>1, <3>1, <3>2, MoveKeeps
    <2> QED  BY <2>1, <2>2, <2>3
  <1>3. ChannelOk(Context, host, session', up, down)  BY <1>2, ChannelKeeps
  <1>4. Context' = Context /\ host' = host /\ up' = up /\ down' = down
    BY DEF RsApply, RsComplete, RsReturn, Serve, Context
  <1> QED  BY <1>3, <1>4

LEMMA ContentOk ==
    ASSUME ChannelOk(Context, host, session, up, down), DetachContent \/ AttachContent
    PROVE  ChannelOk(Context, host, session, up, down)'
  <1>1. Context' = Context /\ up' = up /\ down' = down
    BY DEF DetachContent, AttachContent, Context
  <1>2. CASE DetachContent
    <2> DEFINE g == [host EXCEPT !.detached = TRUE]
    <2>1. host \in HostSet  BY DEF ChannelOk
    <2>2. /\ g \in HostSet /\ g.waiting = host.waiting /\ g.active = host.active
          /\ g.closing = host.closing /\ g.outgoing = host.outgoing /\ g.pending = host.pending
          /\ g.sequence = host.sequence /\ g.processed = host.processed
      BY <2>1 DEF HostSet
    <2>3. host' = g /\ session' = session  BY <1>2 DEF DetachContent
    <2> HIDE DEF g
    <2>4. HostOk(Context, g, session)  BY <2>2 DEF ChannelOk, HostOk
    <2>5. AllHeld(Context, g, session, up)  BY <2>2 DEF ChannelOk, AllHeld
    <2>6. (Live(Context, g) <=> Live(Context, host)) /\ (Awaited(Context, g) <=> Awaited(Context, host))
      BY <2>2 DEF Live, Awaited
    <2>7. Live(Context, host) => LiveOk(Context, g, session, up, down)
      BY <2>2 DEF ChannelOk, LiveOk, Replies
    <2>8. ChannelOk(Context, g, session, up, down)  BY <2>2, <2>4, <2>5, <2>6, <2>7 DEF ChannelOk
    <2> QED  BY <1>1, <2>3, <2>8
  <1>3. CASE AttachContent
    <2>1. host' = NewHost /\ session' = NewSession  BY <1>3 DEF AttachContent
    <2>2. [i \in Planes |-> NoPlane] \in [Planes -> ContentSet]  BY DEF NoPlane, ContentSet
    <2>3. /\ NewHost \in HostSet /\ NewHost.active = 0 /\ NewHost.waiting = 0 /\ ~NewHost.closing
          /\ NewHost.outgoing = <<>> /\ NewHost.pending = None /\ NewHost.sequence = 0
      BY <2>2, EmptySeq DEF HostSet, NewHost
    <2>4. SessionType(NewSession) /\ NewSession.leases = {} /\ NewSession.redundant = {}
      BY NewSessionType
    <2>5. HostOk(Context, NewHost, NewSession)  BY <2>3, <2>4 DEF ChannelOk, HostOk
    <2>6. AllHeld(Context, NewHost, NewSession, up)  BY <2>3, <2>4 DEF ChannelOk, AllHeld
    <2>7. ~Live(Context, NewHost) /\ ~Awaited(Context, NewHost)
      BY <2>3 DEF ChannelOk, HostOk, Live, Awaited
    <2>8. ChannelOk(Context, NewHost, NewSession, up, down)
      BY <2>3, <2>4, <2>5, <2>6, <2>7 DEF ChannelOk
    <2> QED  BY <1>1, <2>1, <2>8
  <1> QED  BY <1>2, <1>3

(* A set of natural numbers that is not empty has a least one.              *)
LEMMA LeastNatural ==
    ASSUME NEW T \in SUBSET Nat, T # {}
    PROVE  \E x \in T : \A y \in T : x <= y
  <1>1. PICK R : R = OpToRel(<, Nat)  OBVIOUS
  <1>2. IsWellFoundedOn(R, Nat)  BY <1>1, NatLessThanWellFounded
  <1>3. \A x, y \in Nat : <<y, x>> \in R <=> y < x  BY <1>1 DEF OpToRel
  <1>4. PICK x \in T : \A y \in T : ~(<<y, x>> \in R)  BY <1>2, WFMin
  <1>5. ASSUME NEW y \in T PROVE x <= y
    <2>1. x \in Nat /\ y \in Nat /\ ~(<<y, x>> \in R)  BY <1>4
    <2>2. ~(y < x)  BY <1>3, <2>1
    <2> QED  BY <2>1, <2>2
  <1> QED  BY <1>5

-----------------------------------------------------------------------------
(* The queue of buffers *)

LEMMA ShownType ==
    ASSUME NEW q \in QueueSet, NEW k \in 0..Len(q.flying)
    PROVE  /\ ShownAt(q, k) \in Names(0) \cup {None}
           /\ ShownAt(q, k) # None => /\ ShownAt(q, k)[3] \in Range(Buffers)
                                      /\ ShownAt(q, k)[2] \in Nat
                                      /\ ShownAt(q, k) = <<"primary", ShownAt(q, k)[2], ShownAt(q, k)[3]>>
  <1>1. q.flying \in Seq(Names(0)) /\ q.shown \in Names(0) \cup {None}  BY DEF QueueSet
  <1>2. ShownAt(q, k) \in Names(0) \cup {None}  BY <1>1 DEF ShownAt
  <1>3. \A b \in Names(0) : b[3] \in Range(Buffers) /\ b[2] \in Nat /\ b = <<"primary", b[2], b[3]>>
    BY DEF Names
  <1> QED  BY <1>2, <1>3

(* A queue after some of its buffers were shown.                            *)
Shifted(q, r, n) ==
    /\ r \in QueueSet /\ Len(r.flying) = Len(q.flying) - n
    /\ \A k \in 0..Len(r.flying) : ShownAt(r, k) = ShownAt(q, k + n)

LEMMA SwapAckOk ==
    ASSUME NEW q \in QueueSet, NEW o, QueueOk(q, o), q.flying # <<>>
    PROVE  Shifted(q, SwapAck(q), 1) /\ QueueOk(SwapAck(q), o)
  <1> DEFINE r == SwapAck(q)
             next == Head(q.flying)
             free == IF q.shown \in {None, next} THEN q.free ELSE Append(q.free, q.shown[3])
  <1>1. q.free \in Seq(Range(Buffers)) /\ q.flying \in Seq(Names(0)) /\ q.shown \in Names(0) \cup {None}
    BY DEF QueueSet
  <1>2. /\ next \in Names(0) /\ next = q.flying[1] /\ Tail(q.flying) \in Seq(Names(0))
        /\ Len(q.flying) \in Nat /\ Len(q.flying) > 0 /\ Len(Tail(q.flying)) = Len(q.flying) - 1
        /\ \A k \in 1..Len(Tail(q.flying)) : /\ Tail(q.flying)[k] = q.flying[k + 1]
                                             /\ k + 1 \in 1..Len(q.flying)
    BY <1>1, TailFacts
  <1>3. q.shown # None => q.shown[3] \in Range(Buffers) /\ q.shown[2] = o /\ q.shown[3] \notin Range(q.free)
    <2>1. 0 \in 0..Len(q.flying) /\ ShownAt(q, 0) = q.shown  BY <1>2 DEF ShownAt
    <2> QED  BY <2>1, ShownType DEF QueueOk
  <1>4. r = [free |-> free, flying |-> Tail(q.flying), shown |-> next]  BY DEF SwapAck
  <1>5. free \in Seq(Range(Buffers))
    <2>1. CASE q.shown \in {None, next}  BY <1>1, <2>1
    <2>2. CASE q.shown \notin {None, next}  BY <1>1, <1>3, <2>2, AppendProperties
    <2> QED  BY <2>1, <2>2
  <1> HIDE DEF free, next
  <1>6. r \in QueueSet /\ r.free = free /\ r.flying = Tail(q.flying) /\ r.shown = next
    BY <1>2, <1>4, <1>5 DEF QueueSet
  <1> HIDE DEF r
  <1>7. \A k \in 0..Len(r.flying) : ShownAt(r, k) = ShownAt(q, k + 1) /\ k + 1 \in 0..Len(q.flying)
    <2> SUFFICES ASSUME NEW k \in 0..Len(r.flying)
                 PROVE  ShownAt(r, k) = ShownAt(q, k + 1) /\ k + 1 \in 0..Len(q.flying)
      OBVIOUS
    <2>1. k \in Nat /\ k + 1 # 0 /\ k + 1 \in 0..Len(q.flying)  BY <1>2, <1>6
    <2>2. CASE k = 0  BY <1>2, <1>6, <2>1, <2>2 DEF ShownAt
    <2>3. CASE k # 0
      <3>1. k \in 1..Len(Tail(q.flying))  BY <1>2, <1>6, <2>3
      <3> QED  BY <1>2, <1>6, <2>1, <2>3, <3>1 DEF ShownAt
    <2> QED  BY <2>2, <2>3
  <1>8. Shifted(q, r, 1)  BY <1>2, <1>6, <1>7 DEF Shifted
  <1>9. IsInjective(free) /\ Range(free) \subseteq Range(q.free) \cup (IF q.shown \in {None, next} THEN {} ELSE {q.shown[3]})
    <2>1. CASE q.shown \in {None, next}
      <3>1. free = q.free  BY <2>1 DEF free
      <3> QED  BY <2>1, <3>1 DEF QueueOk
    <2>2. CASE q.shown \notin {None, next}
      <3> DEFINE b == q.shown[3]
      <3>1. free = Append(q.free, b)  BY <2>2 DEF free
      <3>2. b \in Range(Buffers) /\ b \notin Range(q.free)  BY <1>3, <2>2
      <3>3. IsInjective(q.free)  BY DEF QueueOk
      <3> HIDE DEF b
      <3>4. /\ DOMAIN free = 1..(Len(q.free) + 1) /\ Len(q.free) \in Nat /\ DOMAIN q.free = 1..Len(q.free)
            /\ free[Len(q.free) + 1] = b
            /\ \A k \in 1..Len(q.free) : free[k] = q.free[k]
        BY <1>1, <3>1, <3>2, AppendProperties
      <3>5. \A k \in 1..Len(q.free) : q.free[k] # b  BY <3>2, <3>4 DEF Range
      <3>6. \A k \in DOMAIN free : k \in 1..Len(q.free) \/ k = Len(q.free) + 1  BY <3>4
      <3>7. \A i, j \in 1..Len(q.free) : q.free[i] = q.free[j] => i = j  BY <3>3, <3>4 DEF IsInjective
      <3>8. IsInjective(free)  BY <3>4, <3>5, <3>6, <3>7 DEF IsInjective
      <3>9. \A x \in Range(free) : x \in Range(q.free) \/ x = b  BY <3>4, <3>6 DEF Range
      <3> QED  BY <2>2, <3>8, <3>9 DEF b
    <2> QED  BY <2>1, <2>2
  <1>10. ASSUME NEW k \in 0..Len(r.flying)
         PROVE  ShownAt(r, k) # None /\ ShownAt(r, k)[2] = o /\ ShownAt(r, k)[3] \notin Range(free)
    <2> DEFINE b == ShownAt(q, k + 1)
    <2>1. ShownAt(r, k) = b /\ k + 1 \in 0..Len(q.flying) /\ k + 1 > 0 /\ k \in Nat  BY <1>2, <1>6, <1>7
    <2>2. b # None /\ b[2] = o /\ b[3] \notin Range(q.free)  BY <2>1 DEF QueueOk
    <2>3. ASSUME q.shown \notin {None, next}, b[3] = q.shown[3] PROVE FALSE
      <3>1. 0 \in 0..Len(q.flying) /\ 1 \in 0..Len(q.flying) /\ ShownAt(q, 0) = q.shown
            /\ ShownAt(q, 1) = next
        BY <1>2 DEF ShownAt
      <3>2. b = <<"primary", b[2], b[3]>>  BY <2>1, <2>2, ShownType
      <3>3. q.shown = <<"primary", q.shown[2], q.shown[3]>>  BY <2>3, <3>1, ShownType
      <3>4. b = q.shown  BY <1>3, <2>2, <2>3, <3>2, <3>3
      <3>5. 0 <= 1 /\ 1 <= k + 1  BY <2>1
      <3>6. ShownAt(q, 1) = ShownAt(q, 0)  BY <2>1, <3>1, <3>4, <3>5 DEF QueueOk
      <3> QED  BY <2>3, <3>1, <3>6
    <2> HIDE DEF b
    <2> QED  BY <1>9, <2>1, <2>2, <2>3
  <1>11. ASSUME NEW i \in 0..Len(r.flying), NEW j \in 0..Len(r.flying), NEW k \in 0..Len(r.flying),
                i <= j, j <= k, ShownAt(r, i) = ShownAt(r, k)
         PROVE  ShownAt(r, j) = ShownAt(r, i)
    <2>1. i + 1 <= j + 1 /\ j + 1 <= k + 1  BY <1>11
    <2>2. i + 1 \in 0..Len(q.flying) /\ j + 1 \in 0..Len(q.flying) /\ k + 1 \in 0..Len(q.flying)
      BY <1>7
    <2>3. ShownAt(q, i + 1) = ShownAt(q, k + 1)  BY <1>7, <1>11
    <2>4. ShownAt(q, j + 1) = ShownAt(q, i + 1)  BY <2>1, <2>2, <2>3 DEF QueueOk
    <2> QED  BY <1>7, <2>4
  <1>12. QueueOk(r, o)  BY <1>6, <1>9, <1>10, <1>11 DEF QueueOk
  <1> QED  BY <1>8, <1>12 DEF r

(* The callbacks of several frames, one after the other.                    *)
LEMMA SwapAcksExist ==
    ASSUME NEW q, NEW n \in Nat
    PROVE  \E f : f = [k \in 0..n |-> IF k = 0 THEN q ELSE SwapAck(f[k - 1])]
  <1> DEFINE Is(f, m) == f = [k \in 0..m |-> IF k = 0 THEN q ELSE SwapAck(f[k - 1])]
             T == {m \in Nat : ~\E f : Is(f, m)}
  <1> SUFFICES ASSUME T # {} PROVE FALSE  OBVIOUS
  <1>1. PICK m \in T : \A y \in T : m <= y
    <2>1. T \in SUBSET Nat  OBVIOUS
    <2> HIDE DEF T
    <2> QED  BY <2>1, LeastNatural
  <1>2. CASE m = 0
    <2>1. Is([k \in 0..0 |-> q], 0)  OBVIOUS
    <2> QED  BY <1>1, <1>2, <2>1
  <1>3. CASE m # 0
    <2>1. m \in Nat /\ m - 1 \in Nat /\ ~(m <= m - 1)  BY <1>1, <1>3
    <2>2. m - 1 \notin T  BY <1>1, <2>1
    <2>3. PICK f : Is(f, m - 1)  BY <2>1, <2>2
    <2> DEFINE g == [k \in 0..m |-> IF k = m THEN SwapAck(f[m - 1]) ELSE f[k]]
    <2>4. ASSUME NEW k \in 0..m PROVE g[k] = IF k = 0 THEN q ELSE SwapAck(g[k - 1])
      <3>1. k # 0 => k - 1 \in 0..m /\ k - 1 # m  BY <2>1
      <3>2. k # 0 => g[k - 1] = f[k - 1]  BY <3>1
      <3>3. CASE k = m  BY <2>1, <3>2, <3>3
      <3>4. CASE k # m
        <4>1. k \in 0..(m - 1)  BY <2>1, <3>4
        <4>2. f[k] = IF k = 0 THEN q ELSE SwapAck(f[k - 1])  BY <2>3, <4>1
        <4> QED  BY <3>2, <3>4, <4>2
      <3> QED  BY <3>3, <3>4
    <2>5. g = [k \in 0..m |-> g[k]]  OBVIOUS
    <2> HIDE DEF g
    <2>6. Is(g, m)  BY <2>4, <2>5
    <2> QED  BY <1>1, <2>6
  <1> QED  BY <1>2, <1>3

LEMMA SwapAcksOk ==
    ASSUME NEW q \in QueueSet, NEW o, QueueOk(q, o), NEW n \in 0..Len(q.flying)
    PROVE  Shifted(q, SwapAcks(q, n), n) /\ QueueOk(SwapAcks(q, n), o)
  <1> DEFINE Is(f) == f = [k \in 0..n |-> IF k = 0 THEN q ELSE SwapAck(f[k - 1])]
             After == CHOOSE f : Is(f)
             Good(k) == Shifted(q, After[k], k) /\ QueueOk(After[k], o)
             T == {k \in 0..n : ~Good(k)}
  <1>1. q.flying \in Seq(Names(0)) /\ Len(q.flying) \in Nat /\ n \in Nat  BY DEF QueueSet
  <1>2. \E f : Is(f)  BY <1>1, SwapAcksExist, ZenonT(40)
  <1>3. Is(After)  BY <1>2
  <1>4. SwapAcks(q, n) = After[n]  BY DEF SwapAcks
  <1> HIDE DEF After
  <1>5. After[0] = q /\ \A k \in 1..n : After[k] = SwapAck(After[k - 1])  BY <1>1, <1>3
  <1>6. Good(0)
    <2>1. \A k \in 0..Len(q.flying) : k + 0 = k  BY <1>1
    <2>2. Shifted(q, q, 0)  BY <1>1, <2>1 DEF Shifted
    <2> QED  BY <1>5, <2>2
  <1>7. ASSUME NEW k \in 1..n, Good(k - 1) PROVE Good(k)
    <2> DEFINE r == After[k - 1]
               t == After[k]
    <2>1. t = SwapAck(r)  BY <1>5
    <2>2. /\ r \in QueueSet /\ Len(r.flying) = Len(q.flying) - (k - 1) /\ QueueOk(r, o)
          /\ \A i \in 0..Len(r.flying) : ShownAt(r, i) = ShownAt(q, i + (k - 1))
      BY <1>7 DEF Shifted
    <2> HIDE DEF r, t
    <2>3. Len(r.flying) > 0 /\ k \in Nat  BY <1>1, <2>2
    <2>4. r.flying # <<>>  BY <2>3
    <2>5. Shifted(r, t, 1) /\ QueueOk(t, o)  BY <2>1, <2>2, <2>4, SwapAckOk
    <2>6. /\ t \in QueueSet /\ Len(t.flying) = Len(r.flying) - 1
          /\ \A i \in 0..Len(t.flying) : ShownAt(t, i) = ShownAt(r, i + 1)
      BY <2>5 DEF Shifted
    <2>7. Len(t.flying) = Len(q.flying) - k  BY <1>1, <2>2, <2>3, <2>6
    <2>8. ASSUME NEW i \in 0..Len(t.flying) PROVE ShownAt(t, i) = ShownAt(q, i + k)
      <3>1. i + 1 \in 0..Len(r.flying) /\ (i + 1) + (k - 1) = i + k  BY <1>1, <2>2, <2>3, <2>6
      <3> QED  BY <2>2, <2>6, <3>1
    <2> QED  BY <2>5, <2>6, <2>7, <2>8 DEF Shifted, t
  <1> HIDE DEF Good
  <1>8. T = {}
    <2> SUFFICES ASSUME T # {} PROVE FALSE  OBVIOUS
    <2>1. T \in SUBSET Nat  BY <1>1
    <2>2. PICK k \in T : \A y \in T : k <= y
      <3> HIDE DEF T
      <3> QED  BY <2>1, LeastNatural
    <2>3. k \in 0..n /\ ~Good(k)  OBVIOUS
    <2>4. k # 0  BY <1>6, <2>3
    <2>5. k \in 1..n /\ k - 1 \in 0..n /\ ~(k <= k - 1)  BY <1>1, <2>3, <2>4
    <2>6. Good(k - 1)  BY <2>2, <2>5
    <2> QED  BY <1>7, <2>3, <2>5, <2>6
  <1>9. Good(n)  BY <1>1, <1>8
  <1> QED  BY <1>4, <1>9 DEF Good

-----------------------------------------------------------------------------
(* A presenter comes and goes *)

LEMMA OwingFinite ==
    ASSUME NEW p, NEW q, NEW o, NEW g, PresenterOk(p, q, o, g), NEW w
    PROVE  IsFiniteSet(Owing(p, w[1], w[2])) /\ Cardinality(Owing(p, w[1], w[2])) \in Nat
  <1>1. p.sequence \in Nat /\ DOMAIN p.flights \subseteq 1..p.sequence
    BY DEF PresenterOk, PresenterSet, FlightsOk
  <1>2. IsFiniteSet(1..p.sequence)
    <2>1. 1 \in Int /\ p.sequence \in Int  BY <1>1
    <2> QED  BY <2>1, FS_Interval
  <1>3. Owing(p, w[1], w[2]) \in SUBSET (1..p.sequence)  BY <1>1 DEF Owing
  <1> QED  BY <1>2, <1>3, FS_Subset, FS_CardinalityType

(* A video that a flight expects back is one of those owing.                *)
LEMMA LinkedOwing ==
    ASSUME NEW p, NEW q, NEW o, NEW g, PresenterOk(p, q, o, g), NEW r, ReadsOk(p, g, r),
           NEW seq, NEW buf \in Names(1), buf[2] = g,
           Linked(p, seq, 1, buf) \/ Excess(p, g, r, buf[3]) >= 1
    PROVE  buf[3] \in Videos /\ r[buf[3]] \in Int /\ r[buf[3]] >= 1
  <1> DEFINE v == buf[3]
             C == Cardinality(Owing(p, g, v))
  <1>1. v \in Videos /\ buf = <<"video", g, v>>  BY DEF Names
  <1>2. r[v] \in Int /\ r[v] - C >= 0  BY <1>1 DEF ReadsOk, Excess
  <1>3. IsFiniteSet(Owing(p, g, v)) /\ C \in Nat
    <2>1. <<g, v>>[1] = g /\ <<g, v>>[2] = v  OBVIOUS
    <2> QED  BY <2>1, OwingFinite
  <1>4. CASE Excess(p, g, r, v) >= 1  BY <1>1, <1>2, <1>3, <1>4 DEF Excess
  <1>5. CASE Linked(p, seq, 1, buf)
    <2>1. seq \in Owing(p, g, v)  BY <1>1, <1>5 DEF Linked, Owing
    <2>2. C # 0  BY <1>3, <2>1, FS_EmptySet
    <2> HIDE DEF C, v
    <2> QED  BY <1>1, <1>2, <1>3, <2>2
  <1> QED  BY <1>1, <1>4, <1>5

LEMMA NoFlights ==
    ASSUME NEW p, p.flights = <<>>
    PROVE  DOMAIN p.flights = {} /\ \A g, r, v : r[v] \in Int => Owing(p, g, v) = {} /\ Excess(p, g, r, v) = r[v]
  <1>1. DOMAIN p.flights = {}  OBVIOUS
  <1>2. \A g, v : Owing(p, g, v) = {}  BY <1>1 DEF Owing
  <1>3. Cardinality({}) = 0  BY FS_EmptySet
  <1>4. ASSUME NEW g, NEW r, NEW v, r[v] \in Int PROVE Excess(p, g, r, v) = r[v]
    <2>1. Cardinality(Owing(p, g, v)) = 0  BY <1>2, <1>3
    <2> QED  BY <1>4, <2>1 DEF Excess
  <1> QED  BY <1>1, <1>2, <1>4

LEMMA NoPresenterOk ==
    ASSUME NEW fault \in Faults, NEW p \in {NoPresenter(fault), [NoPresenter(fault) EXCEPT !.open = TRUE]},
           NEW q \in {NoQueue, NewQueue}, p = NoPresenter(fault) => q = NoQueue,
           NEW o \in Nat, NEW g \in Nat
    PROVE  /\ PresenterOk(p, q, o, g)
           /\ p.open <=> p # NoPresenter(fault)
           /\ p.flights = <<>> /\ p.sent = 0
  <1>1. <<>> \in [{} -> FlightSet]  OBVIOUS
  <1>2. [i \in Planes |-> NoPlane] \in [Planes -> ContentSet]  BY DEF NoPlane, ContentSet
  <1>3. <<>> \in UNION {[D -> FlightSet] : D \in SUBSET Nat}  BY <1>1
  <1> DEFINE n == NoPresenter(fault)
  <1>0. /\ n \in PresenterSet /\ n.open = FALSE /\ n.flights = <<>> /\ n.sent = 0 /\ n.sequence = 0
        /\ n.last = [i \in Planes |-> NoPlane]
    BY <1>2, <1>3 DEF NoPresenter, PresenterSet
  <1> HIDE DEF n
  <1>4. /\ p \in PresenterSet /\ (p.open <=> p # n) /\ p.flights = <<>> /\ p.sent = 0 /\ p.sequence = 0
        /\ p.last = [i \in Planes |-> NoPlane]
    <2>1. CASE p = n  BY <1>0, <2>1
    <2>2. CASE p = [n EXCEPT !.open = TRUE]
      <3>1. p \in PresenterSet /\ p.open = TRUE /\ p.flights = n.flights /\ p.sent = n.sent
            /\ p.sequence = n.sequence /\ p.last = n.last
        BY <1>0, <2>2 DEF PresenterSet
      <3> QED  BY <1>0, <3>1
    <2> QED  BY <2>1, <2>2 DEF n
  <1>5. p.last[0].buf = None /\ p.last[1].buf = None /\ p.last[0].content = 0
    BY <1>4 DEF NoPlane, Planes
  <1>6. DOMAIN p.flights = {}  BY <1>4, NoFlights
  <1>7. q \in QueueSet /\ q.flying = <<>> /\ q.shown = None /\ IsInjective(q.free)
    <2>1. <<>> \in Seq(Range(Buffers)) /\ <<>> \in Seq(Names(0)) /\ IsInjective(<<>>)
      BY DEF IsInjective
    <2>2. Buffers \in Seq(Range(Buffers)) /\ IsInjective(Buffers)  BY ConstantsAssumption
    <2>3. NoQueue = [free |-> <<>>, flying |-> <<>>, shown |-> None]  BY DEF NoQueue
    <2>4. NewQueue = [free |-> Buffers, flying |-> <<>>, shown |-> None]  BY DEF NoQueue, NewQueue
    <2>5. CASE q = NoQueue  BY <2>1, <2>3, <2>5 DEF QueueSet
    <2>6. CASE q = NewQueue  BY <2>1, <2>2, <2>4, <2>6 DEF QueueSet
    <2> QED  BY <2>5, <2>6
  <1>8. Len(q.flying) = 0 /\ \A k \in 0..0 : ShownAt(q, k) = None  BY <1>7 DEF ShownAt
  <1>9. QueueOk(q, o)  BY <1>7, <1>8 DEF QueueOk
  <1>10. FlightsOk(p, q, o, g) /\ ContentsOk(p)  BY <1>4, <1>5, <1>6 DEF FlightsOk, ContentsOk
  <1>11. SwapsOk(p, q)  BY <1>4, <1>6, <1>8 DEF SwapsOk, Acked
  <1>12. p.last[0].buf = ShownAt(q, Len(q.flying))  BY <1>5, <1>8
  <1> QED  BY <1>4, <1>7, <1>9, <1>10, <1>11, <1>12 DEF PresenterOk, n

(* The presenter goes, alone or with its process.                           *)
LEMMA GoneOk ==
    ASSUME IInv, NEW fault \in Faults, Gone(fault),
           \/ gpu' = gpu /\ reads' = reads
           \/ gpu' = gpu + 1 /\ reads' = [v \in Videos |-> 0]
    PROVE  IInv'
  <1> DEFINE p == NoPresenter(fault)
             c == Context'
  <1>1. /\ presenter' = p /\ queue' = NoQueue /\ down' = <<>> /\ up' \in {up, <<>>}
        /\ out' = out /\ host' = host /\ session' = session
    BY DEF Gone
  <1>2. PresenterOk(presenter, queue, out, gpu) /\ ReadsOk(presenter, gpu, reads)
        /\ ChannelOk(Context, host, session, up, down)
    BY DEF IInv
  <1>3. out \in Nat /\ gpu \in Nat /\ gpu' \in Nat /\ reads \in [Videos -> Int]
    BY <1>2 DEF PresenterOk, ReadsOk
  <1>4. PresenterOk(p, NoQueue, out, gpu') /\ ~p.open /\ p.flights = <<>>
    BY <1>3, NoPresenterOk
  <1> HIDE DEF p
  <1>5. \A v \in Videos : reads'[v] \in Int /\ reads'[v] >= 0
    <2>1. CASE reads' = reads
      <3> SUFFICES ASSUME NEW v \in Videos PROVE reads[v] \in Int /\ reads[v] >= 0  BY <2>1
      <3>1. reads[v] \in Int /\ reads[v] - Cardinality(Owing(presenter, gpu, v)) >= 0
        BY <1>2, <1>3 DEF ReadsOk, Excess
      <3>2. Cardinality(Owing(presenter, gpu, v)) \in Nat
        <4>1. <<gpu, v>>[1] = gpu /\ <<gpu, v>>[2] = v  OBVIOUS
        <4> QED  BY <1>2, <4>1, OwingFinite
      <3> QED  BY <3>1, <3>2
    <2>2. CASE reads' = [v \in Videos |-> 0]  BY <2>2
    <2> QED  BY <2>1, <2>2
  <1>6. \A v \in Videos : Excess(p, gpu', reads', v) = reads'[v]  BY <1>4, <1>5, NoFlights
  <1>7. ReadsOk(p, gpu', reads')
    <2>1. reads' \in [Videos -> Int]  BY <1>3
    <2> QED  BY <1>5, <1>6, <2>1 DEF ReadsOk
  <1>8. c.presenter = p /\ c.out = out /\ c.gpu = gpu' /\ c.reads = reads'  BY <1>1 DEF Context
  <1>9. /\ Context.presenter = presenter /\ Context.out = out /\ Context.gpu = gpu
        /\ Context.reads = reads
    BY DEF Context
  <1> HIDE DEF c
  <1>10. ASSUME NEW seq, NEW i \in Planes, NEW buf, Held(Context, seq, i, buf)
         PROVE  Held(c, seq, i, buf)
    <2>1. CASE i = 0  BY <1>4, <1>8, <1>9, <1>10, <2>1 DEF Held
    <2>2. CASE i = 1
      <3>1. buf \in Names(1) /\ buf[2] <= gpu /\ buf[2] \in Nat
        BY <1>9, <1>10, <2>2 DEF Held, Names
      <3>2. CASE gpu' = gpu + 1
        <4>1. buf[2] <= gpu' /\ buf[2] # gpu'  BY <1>3, <3>1, <3>2
        <4> QED  BY <1>8, <2>2, <3>1, <4>1 DEF Held
      <3>3. CASE gpu' = gpu /\ reads' = reads
        <4>1. ASSUME buf[2] = gpu PROVE Excess(p, gpu', reads', buf[3]) >= 1
          <5>1. Linked(presenter, seq, 1, buf) \/ Excess(presenter, gpu, reads, buf[3]) >= 1
            BY <1>9, <1>10, <2>2, <4>1 DEF Held
          <5>2. buf[3] \in Videos /\ reads[buf[3]] \in Int /\ reads[buf[3]] >= 1
            BY <1>2, <3>1, <4>1, <5>1, LinkedOwing
          <5> QED  BY <1>6, <3>3, <5>2
        <4> QED  BY <1>8, <2>2, <3>1, <3>3, <4>1 DEF Held
      <3> QED  BY <3>2, <3>3
    <2> QED  BY <2>1, <2>2 DEF Planes
  <1> HIDE DEF Held
  <1>11. \A m \in MessageSet : FrameHeld(Context, m) => FrameHeld(c, m)
    <2> SUFFICES ASSUME NEW m \in MessageSet, FrameHeld(Context, m) PROVE FrameHeld(c, m)  OBVIOUS
    <2>1. m.frame \in FrameSet  BY DEF MessageSet
    <2>2. DOMAIN m.frame \subseteq Planes  BY <2>1, FrameFacts
    <2> QED  BY <1>10, <2>2 DEF FrameHeld
  <1>12. /\ host \in HostSet /\ SessionType(session) /\ up \in Seq(MessageSet)
         /\ HostOk(Context, host, session) /\ AllHeld(Context, host, session, up)
    BY <1>2 DEF ChannelOk
  <1>13. up' \in Seq(MessageSet) /\ \A k \in 1..Len(up') : up'[k] \in MessageSet /\ FrameHeld(Context, up'[k])
    <2>1. <<>> \in Seq(MessageSet) /\ Len(<<>>) = 0  OBVIOUS
    <2>2. CASE up' = up  BY <1>12, <2>2 DEF AllHeld
    <2>3. CASE up' = <<>>  BY <2>1, <2>3
    <2> QED  BY <1>1, <2>2, <2>3
  <1>14. AllHeld(c, host, session, up')
    <2>1. \A l \in session.leases : l.plane \in Planes  BY <1>12 DEF SessionType, SessionSet, LeaseSet
    <2>2. \A l \in session.leases : Held(c, l.seq, l.plane, l.buf)  BY <1>10, <1>12, <2>1 DEF AllHeld
    <2>3. host.pending # None => host.pending \in MessageSet  BY <1>12 DEF HostSet
    <2> QED  BY <1>11, <1>12, <1>13, <2>2, <2>3 DEF AllHeld
  <1>15. HostOk(c, host, session)  BY <1>4, <1>8, <1>9, <1>12 DEF HostOk
  <1>16. ~Live(c, host) /\ ~Awaited(c, host)  BY <1>4, <1>8 DEF Live, Awaited
  <1>17. <<>> \in Seq(ReplySet)  OBVIOUS
  <1>18. ChannelOk(c, host, session, up', <<>>)
    BY <1>3, <1>8, <1>12, <1>13, <1>14, <1>15, <1>16, <1>17 DEF ChannelOk
  <1> QED  BY <1>1, <1>4, <1>7, <1>18 DEF IInv, c

LEMMA FlightFacts ==
    ASSUME NEW p \in PresenterSet
    PROVE  /\ DOMAIN p.flights \in SUBSET Nat /\ p.flights \in [DOMAIN p.flights -> FlightSet]
           /\ \A s \in DOMAIN p.flights :
                 /\ p.flights[s] \in FlightSet /\ p.flights[s].frame \in FrameSet
                 /\ p.flights[s].released \in SUBSET Planes
  <1>1. p.flights \in UNION {[D -> FlightSet] : D \in SUBSET Nat}  BY DEF PresenterSet
  <1>2. PICK D \in SUBSET Nat : p.flights \in [D -> FlightSet]  BY <1>1
  <1>3. \A f \in FlightSet : f.frame \in FrameSet /\ f.released \in SUBSET Planes  BY DEF FlightSet
  <1> QED  BY <1>2, <1>3

(* The next output connects.                                                *)
LEMMA ConnectOk ==
    ASSUME IInv, Connect
    PROVE  IInv'
  <1> DEFINE p == [NoPresenter("none") EXCEPT !.open = TRUE]
             g == [host EXCEPT !.waiting = out + 1]
             c == Context'
  <1>1. /\ ~presenter.open /\ out' = out + 1 /\ presenter' = p /\ host' = g /\ queue' = NewQueue
        /\ up' = <<>> /\ down' = <<>> /\ gpu' = gpu /\ reads' = reads /\ session' = session
    BY DEF Connect, NewPresenter
  <1>2. PresenterOk(presenter, queue, out, gpu) /\ ReadsOk(presenter, gpu, reads)
        /\ ChannelOk(Context, host, session, up, down)
    BY DEF IInv
  <1>3. out \in Nat /\ gpu \in Nat /\ out' \in Nat /\ reads \in [Videos -> Int]
    BY <1>1, <1>2 DEF PresenterOk, ReadsOk
  <1>4. PresenterOk(p, NewQueue, out', gpu) /\ p.open /\ p.flights = <<>> /\ p.sent = 0
    <2>1. p # NoPresenter("none")
      <3>1. p.open = TRUE /\ NoPresenter("none").open = FALSE  BY DEF NoPresenter
      <3> HIDE DEF p
      <3> QED  BY <3>1
    <2>2. "none" \in Faults  BY DEF Faults
    <2> HIDE DEF p
    <2>3. p \in {NoPresenter("none"), [NoPresenter("none") EXCEPT !.open = TRUE]}  BY DEF p
    <2> QED  BY <1>3, <2>1, <2>2, <2>3, NoPresenterOk
  <1> HIDE DEF p
  <1>5. DOMAIN presenter.flights = {}
    <2>1. presenter.sequence = 0 /\ DOMAIN presenter.flights \subseteq 1..presenter.sequence
      BY <1>1, <1>2 DEF PresenterOk, FlightsOk
    <2> QED  BY <2>1
  <1>6. \A v : Owing(presenter, gpu, v) = {} /\ Owing(p, gpu, v) = {}
    BY <1>4, <1>5, NoFlights DEF Owing
  <1>7. \A v : Excess(p, gpu, reads, v) = Excess(presenter, gpu, reads, v)  BY <1>6 DEF Excess
  <1>8. ReadsOk(p, gpu, reads)  BY <1>2, <1>7 DEF ReadsOk
  <1>9. c.presenter = p /\ c.out = out + 1 /\ c.gpu = gpu /\ c.reads = reads  BY <1>1 DEF Context
  <1>10. /\ Context.presenter = presenter /\ Context.out = out /\ Context.gpu = gpu
         /\ Context.reads = reads
    BY DEF Context
  <1> HIDE DEF c
  <1>11. ASSUME NEW seq, NEW i \in Planes, NEW buf, Held(Context, seq, i, buf)
         PROVE  Held(c, seq, i, buf)
    <2>1. CASE i = 0
      <3>1. buf \in Names(0) /\ buf[2] <= out /\ buf[2] \in Nat  BY <1>10, <1>11, <2>1 DEF Held, Names
      <3>2. buf[2] <= out + 1 /\ buf[2] # out + 1  BY <1>3, <3>1
      <3> QED  BY <1>9, <2>1, <3>1, <3>2 DEF Held
    <2>2. CASE i = 1
      <3>1. ~Linked(presenter, seq, 1, buf)  BY <1>1 DEF Linked
      <3> QED  BY <1>7, <1>9, <1>10, <1>11, <2>2, <3>1 DEF Held
    <2> QED  BY <2>1, <2>2 DEF Planes
  <1> HIDE DEF Held
  <1>12. /\ host \in HostSet /\ SessionType(session)
         /\ HostOk(Context, host, session) /\ AllHeld(Context, host, session, up)
    BY <1>2 DEF ChannelOk
  <1>13. /\ g \in HostSet /\ g.waiting = out + 1 /\ g.active = host.active /\ g.closing = host.closing
         /\ g.outgoing = host.outgoing /\ g.pending = host.pending /\ g.sequence = host.sequence
         /\ g.processed = host.processed
    BY <1>1, <1>3, <1>12 DEF HostSet
  <1> HIDE DEF g
  <1>14. <<>> \in Seq(MessageSet) /\ <<>> \in Seq(ReplySet) /\ Len(<<>>) = 0  OBVIOUS
  <1>15. AllHeld(c, g, session, <<>>)
    <2>1. \A l \in session.leases : l.plane \in Planes  BY <1>12 DEF SessionType, SessionSet, LeaseSet
    <2>2. \A l \in session.leases : Held(c, l.seq, l.plane, l.buf)  BY <1>11, <1>12, <2>1 DEF AllHeld
    <2>3. ASSUME host.pending # None PROVE FrameHeld(c, host.pending)
      <3>1. host.pending \in MessageSet /\ host.pending.frame \in FrameSet
        BY <1>12, <2>3 DEF HostSet, MessageSet
      <3>2. DOMAIN host.pending.frame \subseteq Planes  BY <3>1, FrameFacts
      <3> QED  BY <1>11, <1>12, <2>3, <3>2 DEF FrameHeld, AllHeld
    <2> QED  BY <1>13, <1>14, <2>2, <2>3 DEF AllHeld
  <1>16. HostOk(c, g, session)
    <2>1. host.active \in Nat /\ host.active <= out  BY <1>10, <1>12 DEF HostOk, HostSet
    <2>2. host.active <= out + 1 /\ host.active # out + 1 /\ out + 1 > 0  BY <1>3, <2>1
    <2> QED  BY <1>9, <1>12, <1>13, <2>2 DEF HostOk
  <1>17. ~Live(c, g)
    <2>1. host.active \in Nat /\ host.active <= out  BY <1>10, <1>12 DEF HostOk, HostSet
    <2> QED  BY <1>3, <1>9, <1>13, <2>1 DEF Live
  <1>18. AwaitedOk(c, <<>>, <<>>)  BY <1>4, <1>9, <1>14 DEF AwaitedOk
  <1>19. c.out \in Nat /\ c.presenter.open  BY <1>3, <1>4, <1>9
  <1>20. ChannelOk(c, g, session, <<>>, <<>>)
    BY <1>12, <1>13, <1>14, <1>15, <1>16, <1>17, <1>18, <1>19 DEF ChannelOk
  <1> QED  BY <1>1, <1>4, <1>8, <1>20 DEF IInv, c

LEMMA InitOk ==
    ASSUME Init
    PROVE  IInv
  <1> DEFINE p == NoPresenter("none")
  <1>1. /\ gpu = 1 /\ out = 0 /\ presenter = p /\ queue = NoQueue /\ reads = [v \in Videos |-> 0]
        /\ up = <<>> /\ down = <<>> /\ host = NewHost /\ session = NewSession
    BY DEF Init
  <1>2. PresenterOk(p, NoQueue, 0, 1) /\ ~p.open /\ p.flights = <<>>
    <2>1. "none" \in Faults /\ 0 \in Nat /\ 1 \in Nat  BY DEF Faults
    <2> QED  BY <2>1, NoPresenterOk
  <1> HIDE DEF p
  <1>3. ReadsOk(p, 1, reads)
    <2>1. reads \in [Videos -> Int] /\ \A v \in Videos : reads[v] = 0  BY <1>1
    <2>2. \A v \in Videos : Excess(p, 1, reads, v) = 0  BY <1>2, <2>1, NoFlights
    <2> QED  BY <2>1, <2>2 DEF ReadsOk
  <1>4. Context.presenter = p /\ Context.out = 0  BY <1>1 DEF Context
  <1>5. [i \in Planes |-> NoPlane] \in [Planes -> ContentSet]  BY DEF NoPlane, ContentSet
  <1>6. /\ NewHost \in HostSet /\ NewHost.active = 0 /\ NewHost.waiting = 0 /\ ~NewHost.closing
        /\ NewHost.outgoing = <<>> /\ NewHost.pending = None /\ NewHost.sequence = 0
    BY <1>5, EmptySeq DEF HostSet, NewHost
  <1>7. SessionType(NewSession) /\ NewSession.leases = {} /\ NewSession.redundant = {}
    BY NewSessionType
  <1>8. HostOk(Context, NewHost, NewSession)  BY <1>2, <1>4, <1>6, <1>7 DEF HostOk
  <1>9. <<>> \in Seq(MessageSet) /\ <<>> \in Seq(ReplySet) /\ Len(<<>>) = 0  OBVIOUS
  <1>10. AllHeld(Context, NewHost, NewSession, <<>>)  BY <1>6, <1>7, <1>9 DEF AllHeld
  <1>11. ~Live(Context, NewHost) /\ ~Awaited(Context, NewHost)  BY <1>2, <1>4 DEF Live, Awaited
  <1>12. ChannelOk(Context, NewHost, NewSession, <<>>, <<>>)
    BY <1>4, <1>6, <1>7, <1>8, <1>9, <1>10, <1>11 DEF ChannelOk
  <1> QED  BY <1>1, <1>2, <1>3, <1>12 DEF IInv

(* What the invariant says of buffers.                                      *)
LEMMA IInvNoOverwrite ==
    ASSUME IInv
    PROVE  NoOverwrite
  <1>1. PresenterOk(presenter, queue, out, gpu) /\ ReadsOk(presenter, gpu, reads)
        /\ ChannelOk(Context, host, session, up, down)
    BY DEF IInv
  <1>2. out \in Nat /\ gpu \in Nat /\ reads \in [Videos -> Int]  BY <1>1 DEF PresenterOk, ReadsOk
  <1>3. /\ Context.presenter = presenter /\ Context.out = out /\ Context.gpu = gpu
        /\ Context.reads = reads
    BY DEF Context
  <1>4. ASSUME NEW b, <<"primary", out, b>> \in Names(0), NEW seq,
               Linked(presenter, seq, 0, <<"primary", out, b>>)
        PROVE  b \notin Range(queue.free)
    <2> DEFINE buf == <<"primary", out, b>>
               A == Acked(presenter, queue)
    <2>1. /\ seq \in DOMAIN presenter.flights /\ 0 \notin presenter.flights[seq].released
          /\ presenter.flights[seq].frame[0].buf = buf
      BY <1>4 DEF Linked
    <2>2. /\ presenter.sequence \in Nat /\ Len(queue.flying) \in Nat
          /\ A = presenter.sequence - Len(queue.flying) /\ A >= 0
          /\ seq \in 1..presenter.sequence
      BY <1>1, <2>1 DEF PresenterOk, PresenterSet, QueueSet, SwapsOk, Acked, FlightsOk
    <2> DEFINE k == IF seq <= A THEN 0 ELSE seq - A
    <2>3. k \in 0..Len(queue.flying) /\ (k = 0 <=> seq <= A)  BY <2>2
    <2>4. ShownAt(queue, k) = buf
      <3>1. SwapsOk(presenter, queue)  BY <1>1 DEF PresenterOk
      <3>2. CASE seq <= A
        <4>1. k = 0 /\ buf = queue.shown  BY <2>1, <3>1, <3>2 DEF SwapsOk
        <4> QED  BY <4>1 DEF ShownAt
      <3>3. CASE ~(seq <= A)
        <4>1. seq > A  BY <2>2, <3>3
        <4>2. k = seq - A /\ queue.flying[seq - A] = buf  BY <2>1, <3>1, <3>3, <4>1 DEF SwapsOk
        <4>3. k # 0  BY <2>3, <3>3
        <4> QED  BY <4>2, <4>3 DEF ShownAt
      <3> QED  BY <3>2, <3>3
    <2>5. buf # None  BY <1>4, ConstantsAssumption
    <2>6. QueueOk(queue, out)  BY <1>1 DEF PresenterOk
    <2> HIDE DEF k, A
    <2>7. buf[3] \notin Range(queue.free)  BY <2>3, <2>4, <2>5, <2>6 DEF QueueOk
    <2> QED  BY <2>7
  <1>5. ASSUME NEW seq, NEW i \in Planes, NEW buf, Held(Context, seq, i, buf), buf \in Writable
        PROVE  FALSE
    <2>1. buf \in Names(i)  BY <1>5 DEF Held
    <2>2. CASE i = 0
      <3>1. buf[1] = "primary" /\ buf \in Names(0)  BY <2>1, <2>2 DEF Names
      <3>2. PICK b \in Range(queue.free) : buf = <<"primary", out, b>>
        <4>1. "primary" # "video"  OBVIOUS
        <4> QED  BY <1>5, <3>1, <4>1 DEF Writable
      <3>3. presenter.open
        <4>1. ASSUME ~presenter.open PROVE FALSE
          <5>1. queue.free = <<>>  BY <1>1, <4>1 DEF PresenterOk, NoQueue
          <5> QED  BY <3>2, <5>1, RangeOfNone
        <4> QED  BY <4>1
      <3>4. buf[2] = out  BY <3>2
      <3>5. Linked(presenter, seq, 0, buf)  BY <1>3, <1>5, <2>2, <3>3, <3>4 DEF Held
      <3> QED  BY <1>4, <3>1, <3>2, <3>5
    <2>3. CASE i = 1
      <3>1. buf[1] = "video" /\ buf \in Names(1)  BY <2>1, <2>3 DEF Names
      <3>2. PICK v \in Videos : reads[v] = 0 /\ buf = <<"video", gpu, v>>
        <4>1. "primary" # "video"  OBVIOUS
        <4> QED  BY <1>5, <3>1, <4>1 DEF Writable
      <3>3. buf[2] = gpu /\ buf[3] = v  BY <3>2
      <3>4. Linked(presenter, seq, 1, buf) \/ Excess(presenter, gpu, reads, buf[3]) >= 1
        BY <1>3, <1>5, <2>3, <3>3 DEF Held
      <3>5. reads[buf[3]] >= 1  BY <1>1, <3>1, <3>3, <3>4, LinkedOwing
      <3> QED  BY <3>2, <3>3, <3>5
    <2> QED  BY <2>2, <2>3 DEF Planes
  <1>6. ASSUME NEW s \in Unsent, NEW i \in DOMAIN presenter.flights[s].frame
        PROVE  /\ i \in Planes
               /\ Held(Context, s, i, presenter.flights[s].frame[i].buf)
    <2> DEFINE f == presenter.flights[s]
    <2>1. /\ s \in DOMAIN presenter.flights /\ f.released = Planes \ DOMAIN f.frame
      BY <1>1 DEF PresenterOk, FlightsOk, Unsent
    <2>2. presenter \in PresenterSet  BY <1>1 DEF PresenterOk
    <2>3. f.frame \in FrameSet  BY <2>1, <2>2, FlightFacts
    <2>4. i \in Planes /\ f.frame[i].buf \in Names(i)  BY <1>6, <2>3, FrameFacts
    <2>5. presenter.open
      <3>1. presenter.sequence \in Nat /\ presenter.sent \in Nat  BY <1>1 DEF PresenterOk, PresenterSet
      <3>2. presenter.sequence # 0  BY <3>1 DEF Unsent
      <3> QED  BY <1>1, <3>2 DEF PresenterOk
    <2>6. f.frame[0].buf[2] = out /\ (1 \in DOMAIN f.frame => f.frame[1].buf[2] = gpu)
      BY <1>1, <2>1 DEF PresenterOk, FlightsOk
    <2>7. Linked(presenter, s, i, f.frame[i].buf)  BY <1>6, <2>1, <2>4, <2>5 DEF Linked
    <2>8. i = 0 => f.frame[i].buf[2] = out  BY <2>6
    <2>9. i = 1 => f.frame[i].buf[2] = gpu  BY <1>6, <2>6
    <2> HIDE DEF f
    <2>10. Held(Context, s, i, f.frame[i].buf)  BY <1>2, <1>3, <2>4, <2>7, <2>8, <2>9 DEF Held, f
    <2> QED  BY <2>4, <2>10 DEF f
  <1>7. ASSUME NEW m \in MessageSet, FrameHeld(Context, m), NEW i \in DOMAIN m.frame
        PROVE  i \in Planes /\ Held(Context, m.seq, i, m.frame[i].buf)
    <2>1. m.frame \in FrameSet  BY DEF MessageSet
    <2>2. DOMAIN m.frame \subseteq Planes  BY <2>1, FrameFacts
    <2> QED  BY <1>7, <2>2 DEF FrameHeld
  <1>8. ASSUME NEW b \in Read PROVE \E seq, i : i \in Planes /\ Held(Context, seq, i, b)
    <2>1. AllHeld(Context, host, session, up) /\ SessionType(session) /\ host \in HostSet
          /\ up \in Seq(MessageSet)
      BY <1>1 DEF ChannelOk
    <2>2. CASE b \in {l.buf : l \in {l \in session.leases : l.rs # "returned"}}
      <3>1. PICK l \in session.leases : b = l.buf  BY <2>2
      <3>2. l.plane \in Planes  BY <2>1 DEF SessionType, SessionSet, LeaseSet
      <3> QED  BY <2>1, <3>1, <3>2 DEF AllHeld
    <2>3. CASE b \in UNION {{f[i].buf : i \in DOMAIN f} : f \in Frames}
      <3>1. PICK f \in Frames : b \in {f[i].buf : i \in DOMAIN f}  BY <2>3
      <3>2. PICK i \in DOMAIN f : b = f[i].buf  BY <3>1
      <3>3. CASE f \in {presenter.flights[s].frame : s \in Unsent}
        <4>1. PICK s \in Unsent : f = presenter.flights[s].frame  BY <3>3
        <4> QED  BY <1>6, <3>2, <4>1
      <3>4. CASE f \in {up[k].frame : k \in DOMAIN up}
        <4>1. PICK k \in DOMAIN up : f = up[k].frame  BY <3>4
        <4>2. k \in 1..Len(up) /\ up[k] \in MessageSet  BY <2>1
        <4>3. FrameHeld(Context, up[k])  BY <2>1, <4>2 DEF AllHeld
        <4> QED  BY <1>7, <3>2, <4>1, <4>2, <4>3
      <3>5. CASE host.pending # None /\ f = host.pending.frame
        <4>1. host.pending \in MessageSet  BY <2>1, <3>5 DEF HostSet
        <4>2. FrameHeld(Context, host.pending)  BY <2>1, <3>5 DEF AllHeld
        <4> QED  BY <1>7, <3>2, <3>5, <4>1, <4>2
      <3> QED  BY <3>1, <3>3, <3>4, <3>5 DEF Frames
    <2> QED  BY <2>2, <2>3 DEF Read
  <1> QED  BY <1>5, <1>8 DEF NoOverwrite

(* What is held stays held, as far as the socket, the host and the session  *)
(* can tell.                                                                *)
LEMMA ContextKeeps ==
    ASSUME NEW c, NEW h, NEW s, NEW u, NEW d, ChannelOk(c, h, s, u, d),
           NEW b, b.out = c.out, b.presenter.open <=> c.presenter.open,
           b.presenter.sent = c.presenter.sent,
           \A seq, buf : \A i \in Planes : Held(c, seq, i, buf) => Held(b, seq, i, buf)
    PROVE  ChannelOk(b, h, s, u, d)
  <1>1. /\ h \in HostSet /\ SessionType(s) /\ u \in Seq(MessageSet) /\ AllHeld(c, h, s, u)
    BY DEF ChannelOk
  <1>2. \A m \in MessageSet : FrameHeld(c, m) => FrameHeld(b, m)
    <2> SUFFICES ASSUME NEW m \in MessageSet, FrameHeld(c, m) PROVE FrameHeld(b, m)  OBVIOUS
    <2>1. m.frame \in FrameSet  BY DEF MessageSet
    <2>2. DOMAIN m.frame \subseteq Planes  BY <2>1, FrameFacts
    <2> QED  BY <2>2 DEF FrameHeld
  <1>3. AllHeld(b, h, s, u)
    <2>1. \A l \in s.leases : l.plane \in Planes  BY <1>1 DEF SessionType, SessionSet, LeaseSet
    <2>2. \A l \in s.leases : Held(b, l.seq, l.plane, l.buf)  BY <1>1, <2>1 DEF AllHeld
    <2>3. h.pending # None => h.pending \in MessageSet  BY <1>1 DEF HostSet
    <2>4. \A k \in 1..Len(u) : u[k] \in MessageSet  BY <1>1
    <2> QED  BY <1>1, <1>2, <2>2, <2>3, <2>4 DEF AllHeld
  <1>4. HostOk(b, h, s)  BY DEF ChannelOk, HostOk
  <1>5. (Live(b, h) <=> Live(c, h)) /\ (Awaited(b, h) <=> Awaited(c, h))  BY DEF Live, Awaited
  <1>6. Live(c, h) => LiveOk(b, h, s, u, d)  BY DEF ChannelOk, LiveOk
  <1>7. Awaited(c, h) => AwaitedOk(b, u, d)  BY DEF ChannelOk, AwaitedOk
  <1> QED  BY <1>3, <1>4, <1>5, <1>6, <1>7 DEF ChannelOk

(* The queue with one more buffer to show: a free one or the last again.    *)
Grown(q, buf, free) == [q EXCEPT !.flying = Append(@, buf), !.free = free]
Grows(q, buf, free) ==
    \/ q.free # <<>> /\ free = Tail(q.free) /\ buf[3] = Head(q.free)
    \/ free = q.free /\ buf = ShownAt(q, Len(q.flying))

LEMMA QueueGrows ==
    ASSUME NEW q \in QueueSet, NEW o, QueueOk(q, o), NEW buf \in Names(0), buf[2] = o, NEW free,
           Grows(q, buf, free), NEW r, r = Grown(q, buf, free)
    PROVE  /\ r \in QueueSet /\ QueueOk(r, o) /\ Len(r.flying) = Len(q.flying) + 1
           /\ ShownAt(r, Len(r.flying)) = buf
           /\ \A k \in 0..Len(q.flying) : ShownAt(r, k) = ShownAt(q, k)
           /\ r.shown = q.shown
  <1> USE DEF Grown, Grows
  <1> DEFINE N == Len(q.flying)
  <1>1. /\ q.free \in Seq(Range(Buffers)) /\ q.flying \in Seq(Names(0)) /\ N \in Nat
        /\ q.shown \in Names(0) \cup {None}
    BY DEF QueueSet
  <1>2. /\ Append(q.flying, buf) \in Seq(Names(0)) /\ Len(Append(q.flying, buf)) = N + 1
        /\ Append(q.flying, buf)[N + 1] = buf
        /\ \A k \in 1..N : Append(q.flying, buf)[k] = q.flying[k]
    BY <1>1, AppendProperties
  <1>3. free \in Seq(Range(Buffers)) /\ IsInjective(free) /\ Range(free) \subseteq Range(q.free)
        /\ (free = q.free \/ (buf[3] \in Range(q.free) /\ buf[3] \notin Range(free)))
    <2>1. CASE free = q.free  BY <1>1, <2>1 DEF QueueOk
    <2>2. CASE q.free # <<>> /\ free = Tail(q.free) /\ buf[3] = Head(q.free)
      <3>1. /\ Head(q.free) = q.free[1] /\ free \in Seq(Range(Buffers))
            /\ Len(q.free) \in Nat /\ Len(q.free) > 0 /\ Len(free) = Len(q.free) - 1
            /\ \A k \in 1..Len(free) : free[k] = q.free[k + 1] /\ k + 1 \in 1..Len(q.free)
        BY <1>1, <2>2, TailFacts
      <3>2. DOMAIN free = 1..Len(free) /\ DOMAIN q.free = 1..Len(q.free)  BY <1>1, <3>1
      <3>3. \A i, j \in 1..Len(q.free) : q.free[i] = q.free[j] => i = j
        BY <3>2 DEF QueueOk, IsInjective
      <3>4. ASSUME NEW i \in 1..Len(free), NEW j \in 1..Len(free), free[i] = free[j] PROVE i = j
        <4>1. i + 1 \in 1..Len(q.free) /\ j + 1 \in 1..Len(q.free) /\ q.free[i + 1] = q.free[j + 1]
          BY <3>1, <3>4
        <4>2. i + 1 = j + 1  BY <3>3, <4>1
        <4> QED  BY <4>2
      <3>5. IsInjective(free)  BY <3>2, <3>4 DEF IsInjective
      <3>6. Range(free) \subseteq Range(q.free)  BY <3>1, <3>2 DEF Range
      <3>7. 1 \in 1..Len(q.free)  BY <3>1
      <3>8. buf[3] \in Range(q.free)  BY <2>2, <3>1, <3>2, <3>7 DEF Range
      <3>9. ASSUME NEW k \in 1..Len(free), free[k] = buf[3] PROVE FALSE
        <4>1. k + 1 = 1  BY <2>2, <3>1, <3>3, <3>7, <3>9, SMTT(30)
        <4> QED  BY <4>1
      <3>10. buf[3] \notin Range(free)  BY <3>2, <3>9 DEF Range
      <3> QED  BY <3>1, <3>5, <3>6, <3>8, <3>10
    <2> QED  BY <2>1, <2>2
  <1>4. /\ r \in QueueSet /\ r.free = free /\ r.flying = Append(q.flying, buf) /\ r.shown = q.shown
    BY <1>2, <1>3 DEF QueueSet
  <1>5. Len(r.flying) = N + 1  BY <1>2, <1>4
  <1>6. ShownAt(r, N + 1) = buf
    <2>1. N + 1 # 0  BY <1>1
    <2> QED  BY <1>2, <1>4, <2>1 DEF ShownAt
  <1>7. \A k \in 0..N : ShownAt(r, k) = ShownAt(q, k)
    <2> SUFFICES ASSUME NEW k \in 0..N PROVE ShownAt(r, k) = ShownAt(q, k)  OBVIOUS
    <2>1. k = 0 \/ k \in 1..N  BY <1>1
    <2> QED  BY <1>2, <1>4, <2>1 DEF ShownAt
  <1>8. \A k \in 0..(N + 1) : k \in 0..N \/ k = N + 1  BY <1>1
  <1>9. buf # None  BY ConstantsAssumption
  <1>10. buf[3] \notin Range(free) /\ buf[2] = o
    <2>1. CASE free = q.free /\ buf = ShownAt(q, N)
      <3>1. N \in 0..N  BY <1>1
      <3> QED  BY <1>9, <2>1, <3>1 DEF QueueOk
    <2>2. CASE buf[3] \notin Range(free)  BY <2>2
    <2>3. CASE q.free # <<>> /\ free = Tail(q.free) /\ buf[3] = Head(q.free) /\ free = q.free
      <3>1. Len(Tail(q.free)) = Len(q.free) - 1 /\ Len(q.free) \in Nat  BY <1>1, <2>3, TailFacts
      <3> QED  BY <2>3, <3>1
    <2> QED  BY <1>3, <2>1, <2>2, <2>3
  <1>11. ASSUME NEW k \in 0..(N + 1)
         PROVE  /\ k > 0 => ShownAt(r, k) # None
                /\ ShownAt(r, k) # None => ShownAt(r, k)[2] = o /\ ShownAt(r, k)[3] \notin Range(free)
    <2>1. CASE k = N + 1  BY <1>6, <1>9, <1>10, <2>1
    <2>2. CASE k \in 0..N  BY <1>3, <1>7, <2>2 DEF QueueOk
    <2> QED  BY <1>8, <2>1, <2>2
  <1>12. ASSUME NEW i \in 0..(N + 1), NEW j \in 0..(N + 1), NEW k \in 0..(N + 1),
                i <= j, j <= k, ShownAt(r, i) = ShownAt(r, k)
         PROVE  ShownAt(r, j) = ShownAt(r, i)
    <2>1. CASE k \in 0..N
      <3>1. i \in 0..N /\ j \in 0..N  BY <1>1, <1>12, <2>1
      <3>2. ShownAt(q, i) = ShownAt(q, k)  BY <1>7, <1>12, <2>1, <3>1
      <3>3. ShownAt(q, j) = ShownAt(q, i)  BY <1>12, <2>1, <3>1, <3>2 DEF QueueOk
      <3> QED  BY <1>7, <3>1, <3>3
    <2>2. CASE k = N + 1 /\ j = N + 1  BY <1>12, <2>2
    <2>3. CASE k = N + 1 /\ j \in 0..N
      <3>1. i \in 0..N /\ N \in 0..N /\ j <= N  BY <1>1, <1>12, <2>3
      <3>2. ShownAt(q, i) = buf  BY <1>6, <1>7, <1>12, <2>3, <3>1
      <3>3. CASE buf = ShownAt(q, N)
        <4>1. ShownAt(q, j) = ShownAt(q, i)  BY <1>12, <2>3, <3>1, <3>2, <3>3 DEF QueueOk
        <4> QED  BY <1>7, <2>3, <3>1, <4>1
      <3>4. CASE buf[3] \in Range(q.free)
        <4>1. buf[3] \notin Range(q.free)  BY <1>9, <3>1, <3>2 DEF QueueOk
        <4> QED  BY <3>4, <4>1
      <3>5. CASE q.free # <<>> /\ free = Tail(q.free) /\ buf[3] = Head(q.free)
        <4>1. buf[3] = q.free[1] /\ 1 \in 1..Len(q.free) /\ DOMAIN q.free = 1..Len(q.free)
          BY <1>1, <3>5, TailFacts
        <4>2. buf[3] \in Range(q.free)  BY <4>1 DEF Range
        <4> QED  BY <3>4, <4>2
      <3> QED  BY <3>3, <3>5
    <2> QED  BY <1>8, <2>1, <2>2, <2>3
  <1>13. QueueOk(r, o)  BY <1>3, <1>4, <1>5, <1>11, <1>12 DEF QueueOk
  <1> QED  BY <1>4, <1>5, <1>6, <1>7, <1>13

(* A frame is drawn.                                                        *)
LEMMA DrawnFacts ==
    ASSUME IInv, presenter.open, NEW redraw \in BOOLEAN, redraw => queue.free # <<>>,
           NEW primary \in Drawn(redraw)
    PROVE  /\ primary \in Names(0) /\ primary[2] = out
           /\ redraw => primary[3] = Head(queue.free)
           /\ ~redraw => primary = ShownAt(queue, Len(queue.flying)) /\ primary = presenter.last[0].buf
  <1>1. PresenterOk(presenter, queue, out, gpu)  BY DEF IInv
  <1>2. queue \in QueueSet /\ QueueOk(queue, out) /\ out \in Nat  BY <1>1 DEF PresenterOk
  <1>3. CASE redraw
    <2>1. primary = <<"primary", out, Head(queue.free)>>  BY <1>3 DEF Drawn
    <2>2. queue.free \in Seq(Range(Buffers))  BY <1>2 DEF QueueSet
    <2>3. Head(queue.free) \in Range(Buffers)  BY <1>3, <2>2, TailFacts
    <2> QED  BY <1>2, <1>3, <2>1, <2>3 DEF Names
  <1>4. CASE ~redraw
    <2>1. primary = presenter.last[0].buf /\ primary # None  BY <1>4 DEF Drawn
    <2>2. primary = ShownAt(queue, Len(queue.flying))  BY <1>1, <2>1 DEF PresenterOk
    <2>3. Len(queue.flying) \in 0..Len(queue.flying)  BY <1>2 DEF QueueSet
    <2>4. primary \in Names(0) \cup {None}  BY <1>2, <2>2, <2>3, ShownType
    <2>5. primary[2] = out  BY <1>2, <2>1, <2>2, <2>3 DEF QueueOk
    <2> QED  BY <1>4, <2>1, <2>2, <2>4, <2>5
  <1> QED  BY <1>3, <1>4

LEMMA VideoFacts ==
    ASSUME IInv, NEW video \in {"none", "same", "new"}, NEW v \in VideoDrawn(video)
    PROVE  v = None \/ (v \in Names(1) /\ v[2] = gpu)
  <1>1. PresenterOk(presenter, queue, out, gpu)  BY DEF IInv
  <1>2. CASE video = "none"
    <2>1. v \in {None}  BY <1>2 DEF VideoDrawn
    <2> QED  BY <2>1
  <1>3. CASE video = "same"
    <2>1. v \in {presenter.last[1].buf} \ {None}
      <3>1. video # "none"  BY <1>3
      <3> QED  BY <1>3, <3>1 DEF VideoDrawn
    <2> QED  BY <1>1, <2>1 DEF PresenterOk, FlightsOk
  <1>4. CASE video = "new"
    <2>1. v \in {<<"video", gpu, w>> : w \in {w \in Videos : reads[w] = 0}}
      <3>1. video # "none" /\ video # "same"  BY <1>4
      <3> QED  BY <1>4, <3>1 DEF VideoDrawn
    <2>2. gpu \in Nat  BY <1>1 DEF PresenterOk
    <2> QED  BY <2>1, <2>2 DEF Names
  <1> QED  BY <1>2, <1>3, <1>4

(* The presenter and its queue after a frame.                               *)
Presented(p, q, f, seq, redraw, invalid) ==
    [presenter |-> [p EXCEPT
        !.sequence = seq,
        !.flights = [s \in DOMAIN @ \cup {seq} |->
                        IF s = seq THEN [frame |-> f, accepted |-> FALSE, processed |-> FALSE,
                                         done |-> FALSE, released |-> Planes \ DOMAIN f]
                        ELSE @[s]],
        !.last = Contents(f), !.invalid = invalid],
     queue |-> [q EXCEPT !.flying = Append(@, f[0].buf), !.free = IF redraw THEN Tail(@) ELSE @]]

LEMMA PresentedOk ==
    ASSUME NEW p, NEW q, NEW o, NEW g, PresenterOk(p, q, o, g), p.open,
           NEW f \in FrameSet, f[0].buf[2] = o, 1 \in DOMAIN f => f[1].buf[2] = g,
           NEW redraw \in BOOLEAN, NEW invalid \in BOOLEAN,
           redraw => /\ q.free # <<>> /\ f[0].buf[3] = Head(q.free)
                     /\ f[0].content = p.sequence + 1,
           ~redraw => /\ f[0].buf = ShownAt(q, Len(q.flying)) /\ f[0].buf = p.last[0].buf
                      /\ f[0].content = p.last[0].content
    PROVE  LET n == Presented(p, q, f, p.sequence + 1, redraw, invalid)
           IN /\ PresenterOk(n.presenter, n.queue, o, g)
              /\ n.presenter.open /\ n.presenter.sent = p.sent
              /\ DOMAIN n.presenter.flights = DOMAIN p.flights \cup {p.sequence + 1}
              /\ p.sequence + 1 \notin DOMAIN p.flights
              /\ \A s \in DOMAIN p.flights : n.presenter.flights[s] = p.flights[s]
              /\ n.presenter.flights[p.sequence + 1].frame = f
              /\ n.presenter.flights[p.sequence + 1].released = Planes \ DOMAIN f
  <1> DEFINE seq == p.sequence + 1
             n == Presented(p, q, f, seq, redraw, invalid)
             a == n.presenter
             r == n.queue
             flight == [frame |-> f, accepted |-> FALSE, processed |-> FALSE,
                        done |-> FALSE, released |-> Planes \ DOMAIN f]
             fs == [s \in DOMAIN p.flights \cup {seq} |-> IF s = seq THEN flight ELSE p.flights[s]]
             free == IF redraw THEN Tail(q.free) ELSE q.free
             last == Contents(f)
  <1>1. /\ p \in PresenterSet /\ q \in QueueSet /\ o \in Nat /\ g \in Nat
        /\ FlightsOk(p, q, o, g) /\ SwapsOk(p, q) /\ ContentsOk(p) /\ QueueOk(q, o)
    BY DEF PresenterOk
  <1>2. p.sequence \in Nat /\ p.sent \in Nat /\ seq \in Nat /\ p.sent <= p.sequence
    BY <1>1 DEF PresenterSet, FlightsOk
  <1>3. DOMAIN p.flights \subseteq 1..p.sequence /\ seq \notin DOMAIN p.flights
    BY <1>1, <1>2 DEF FlightsOk
  <1>4. flight \in FlightSet  BY DEF FlightSet
  <1>5. DOMAIN p.flights \in SUBSET Nat /\ p.flights \in [DOMAIN p.flights -> FlightSet]
    BY <1>1, FlightFacts
  <1>6. fs \in [DOMAIN p.flights \cup {seq} -> FlightSet]  BY <1>4, <1>5
  <1>7. fs \in UNION {[D -> FlightSet] : D \in SUBSET Nat}
    <2>1. DOMAIN p.flights \cup {seq} \in SUBSET Nat  BY <1>2, <1>5
    <2> QED  BY <1>6, <2>1
  <1>8. last \in [Planes -> ContentSet]  BY ContentsType
  <1>9. /\ 0 \in DOMAIN f /\ DOMAIN f \subseteq Planes /\ f[0].buf \in Names(0) /\ f[0].content \in Nat
        /\ 1 \in DOMAIN f => f[1].buf \in Names(1)
    BY FrameFacts
  <1>10. /\ last[0].buf = f[0].buf /\ last[0].content = f[0].content
         /\ last[1].buf # None => last[1].buf \in Names(1) /\ last[1].buf[2] = g
    BY <1>9 DEF Contents, NoPlane, Planes
  <1>11. a = [p EXCEPT !.sequence = seq, !.flights = fs, !.last = last, !.invalid = invalid]
    BY DEF Presented
  <1>12. r = Grown(q, f[0].buf, free)
    BY DEF Presented, Grown
  <1>13. /\ DOMAIN fs = DOMAIN p.flights \cup {seq} /\ fs[seq] = flight
         /\ \A s \in DOMAIN p.flights : fs[s] = p.flights[s]
    BY <1>3
  <1>14. /\ flight.frame = f /\ flight.done = FALSE /\ flight.accepted = FALSE
         /\ flight.processed = FALSE /\ flight.released = Planes \ DOMAIN f
    OBVIOUS
  <1> HIDE DEF n, fs, last, flight
  <1>15. /\ a \in PresenterSet /\ a.open = p.open /\ a.sent = p.sent /\ a.sequence = seq
         /\ a.flights = fs /\ a.last = last
    BY <1>1, <1>2, <1>7, <1>8, <1>11, ZenonT(40) DEF PresenterSet
  <1>16. /\ r \in QueueSet /\ QueueOk(r, o) /\ Len(r.flying) = Len(q.flying) + 1
         /\ ShownAt(r, Len(r.flying)) = f[0].buf
         /\ \A k \in 0..Len(q.flying) : ShownAt(r, k) = ShownAt(q, k)
         /\ r.shown = q.shown
    <2>1. Grows(q, f[0].buf, free)  BY DEF Grows
    <2> HIDE DEF free, r
    <2>2. f[0].buf[2] = o  OBVIOUS
    <2> QED  BY <1>1, <1>9, <1>12, <2>1, <2>2, QueueGrows
  <1> HIDE DEF a, r, free
  <1>17. Len(q.flying) \in Nat  BY <1>1 DEF QueueSet
  <1>18. FlightsOk(a, r, o, g)
    <2>1. DOMAIN fs \subseteq 1..seq  BY <1>2, <1>3, <1>13
    <2>2. p.sent <= seq  BY <1>2
    <2>3. \A s \in DOMAIN fs :
             /\ fs[s].frame[0].buf[2] = o
             /\ 1 \in DOMAIN fs[s].frame => fs[s].frame[1].buf[2] = g
             /\ Planes \ DOMAIN fs[s].frame \subseteq fs[s].released
      BY <1>1, <1>13, <1>14 DEF FlightsOk
    <2>4. ASSUME NEW s \in (p.sent + 1)..seq
          PROVE  /\ s \in DOMAIN fs /\ ~fs[s].accepted /\ ~fs[s].processed
                 /\ fs[s].released = Planes \ DOMAIN fs[s].frame
      <3>1. CASE s = seq  BY <1>13, <1>14, <3>1
      <3>2. CASE s # seq
        <4>1. s \in (p.sent + 1)..p.sequence  BY <1>2, <3>2
        <4> QED  BY <1>1, <1>13, <4>1 DEF FlightsOk
      <3> QED  BY <3>1, <3>2
    <2> QED  BY <1>10, <1>15, <2>1, <2>2, <2>3, <2>4 DEF FlightsOk
  <1>19. SwapsOk(a, r)
    <2> DEFINE A == Acked(p, q)
    <2>1. A = p.sequence - Len(q.flying) /\ A \in Int /\ A >= 0  BY <1>1, <1>2, <1>17 DEF SwapsOk, Acked
    <2>2. Acked(a, r) = A  BY <1>2, <1>15, <1>16, <1>17, <2>1, SMTT(30) DEF Acked
    <2> HIDE DEF A
    <2>3. /\ \A s \in (A + 1)..p.sequence : s \in DOMAIN p.flights
          /\ \A s \in DOMAIN p.flights :
                /\ p.flights[s].done <=> s <= A
                /\ s > A => q.flying[s - A] = p.flights[s].frame[0].buf
                /\ s <= A /\ 0 \notin p.flights[s].released => p.flights[s].frame[0].buf = q.shown
      BY <1>1 DEF SwapsOk, A
    <2>4. \A s \in (A + 1)..seq : s \in DOMAIN fs
      <3> SUFFICES ASSUME NEW s \in (A + 1)..seq PROVE s \in DOMAIN fs  OBVIOUS
      <3>1. s = seq \/ s \in (A + 1)..p.sequence  BY <1>2, <2>1
      <3> QED  BY <1>13, <2>3, <3>1
    <2>5. ASSUME NEW s \in DOMAIN p.flights
          PROVE  s > A => r.flying[s - A] = q.flying[s - A]
      <3>1. ASSUME s > A PROVE s - A \in 0..Len(q.flying) /\ s - A # 0
        <4>1. s \in 1..p.sequence  BY <1>3
        <4> QED  BY <1>2, <1>17, <2>1, <3>1, <4>1
      <3> QED  BY <1>16, <3>1 DEF ShownAt
    <2>6. ~(seq <= A) /\ r.flying[seq - A] = f[0].buf
      <3>1. seq - A = Len(r.flying) /\ seq - A # 0 /\ ~(seq <= A)  BY <1>2, <1>16, <1>17, <2>1
      <3>2. ShownAt(r, seq - A) = f[0].buf  BY <1>16, <3>1
      <3> QED  BY <3>1, <3>2 DEF ShownAt
    <2>7. ASSUME NEW s \in DOMAIN fs
          PROVE  /\ fs[s].done <=> s <= A
                 /\ s > A => r.flying[s - A] = fs[s].frame[0].buf
                 /\ s <= A /\ 0 \notin fs[s].released => fs[s].frame[0].buf = r.shown
      <3>1. CASE s = seq  BY <1>13, <1>14, <2>6, <3>1
      <3>2. CASE s \in DOMAIN p.flights  BY <1>13, <1>16, <2>3, <2>5, <3>2
      <3> QED  BY <1>13, <3>1, <3>2
    <2> QED  BY <1>15, <2>1, <2>2, <2>4, <2>7 DEF SwapsOk
  <1>20. ContentsOk(a)
    <2>1. /\ \A s, t \in DOMAIN p.flights :
                p.flights[s].frame[0].content = p.flights[t].frame[0].content
                   => p.flights[s].frame[0].buf = p.flights[t].frame[0].buf
          /\ \A s \in DOMAIN p.flights :
                /\ p.flights[s].frame[0].content <= p.sequence
                /\ p.flights[s].frame[0].content = p.last[0].content
                      => p.flights[s].frame[0].buf = p.last[0].buf
          /\ p.last[0].content <= p.sequence
      BY <1>1 DEF ContentsOk
    <2>2. \A s \in DOMAIN p.flights : p.flights[s].frame[0].content \in Nat
      <3> SUFFICES ASSUME NEW s \in DOMAIN p.flights PROVE p.flights[s].frame[0].content \in Nat
        OBVIOUS
      <3>1. p.flights[s].frame \in FrameSet  BY <1>1, FlightFacts
      <3> QED  BY <3>1, FrameFacts
    <2>3. f[0].content <= seq  BY <1>2, <1>9, <2>1
    <2>4. \A s \in DOMAIN p.flights : p.flights[s].frame[0].content = f[0].content
                                         => p.flights[s].frame[0].buf = f[0].buf
      <3>1. CASE redraw
        <4>1. f[0].content = seq  BY <3>1
        <4>2. \A s \in DOMAIN p.flights : p.flights[s].frame[0].content # seq  BY <1>2, <2>1, <2>2
        <4> QED  BY <4>1, <4>2
      <3>2. CASE ~redraw  BY <2>1, <3>2
      <3> QED  BY <3>1, <3>2
    <2>5. \A s \in DOMAIN p.flights : p.flights[s].frame[0].content <= seq  BY <1>2, <2>1, <2>2
    <2>6. \A s \in DOMAIN fs : s = seq \/ s \in DOMAIN p.flights  BY <1>13
    <2>7. \A s, t \in DOMAIN fs : fs[s].frame[0].content = fs[t].frame[0].content
                                     => fs[s].frame[0].buf = fs[t].frame[0].buf
      BY <1>13, <1>14, <2>1, <2>4, <2>6
    <2>8. \A s \in DOMAIN fs : /\ fs[s].frame[0].content <= seq
                               /\ fs[s].frame[0].content = f[0].content => fs[s].frame[0].buf = f[0].buf
      BY <1>13, <1>14, <2>3, <2>4, <2>5, <2>6
    <2> QED  BY <1>10, <1>15, <2>3, <2>7, <2>8 DEF ContentsOk
  <1>21. PresenterOk(a, r, o, g)
    BY <1>1, <1>10, <1>15, <1>16, <1>18, <1>19, <1>20 DEF PresenterOk
  <1> QED  BY <1>3, <1>13, <1>14, <1>15, <1>21, ZenonT(40) DEF a, r, n

(* The reads after a frame with this video.                                 *)
ReadsWith(r, f) == IF 1 \in DOMAIN f THEN [r EXCEPT ![f[1].buf[3]] = @ + 1] ELSE r

LEMMA PresentedReads ==
    ASSUME NEW p, NEW q, NEW o, NEW g, PresenterOk(p, q, o, g), NEW r, ReadsOk(p, g, r),
           NEW a, NEW seq, NEW f \in FrameSet, 1 \in DOMAIN f => f[1].buf \in Names(1) /\ f[1].buf[2] = g,
           DOMAIN a.flights = DOMAIN p.flights \cup {seq}, seq \notin DOMAIN p.flights,
           \A s \in DOMAIN p.flights : a.flights[s] = p.flights[s],
           a.flights[seq].frame = f, a.flights[seq].released = Planes \ DOMAIN f,
           NEW t, t = ReadsWith(r, f)
    PROVE  ReadsOk(a, g, t) /\ \A v \in Videos : Excess(a, g, t, v) = Excess(p, g, r, v)
  <1> USE DEF ReadsWith
  <1>1. r \in [Videos -> Int]  BY DEF ReadsOk
  <1>2. t \in [Videos -> Int]
    <2>1. CASE 1 \in DOMAIN f
      <3>1. f[1].buf[3] \in Videos  BY <2>1 DEF Names
      <3>2. t = [r EXCEPT ![f[1].buf[3]] = @ + 1]  BY <2>1
      <3>3. r[f[1].buf[3]] + 1 \in Int  BY <1>1, <3>1
      <3> QED  BY <1>1, <3>1, <3>2, <3>3
    <2>2. CASE 1 \notin DOMAIN f  BY <1>1, <2>2
    <2> QED  BY <2>1, <2>2
  <1>3. ASSUME NEW v \in Videos PROVE Excess(a, g, t, v) = Excess(p, g, r, v)
    <2> DEFINE O == Owing(p, g, v)
               C == Cardinality(O)
               mine == 1 \in DOMAIN f /\ f[1].buf = <<"video", g, v>>
    <2>1. IsFiniteSet(O) /\ C \in Nat
      <3>1. <<g, v>>[1] = g /\ <<g, v>>[2] = v  OBVIOUS
      <3> QED  BY <3>1, OwingFinite
    <2>2. seq \notin O /\ r[v] \in Int  BY <1>1 DEF Owing
    <2>3. CASE mine
      <3>1. Owing(a, g, v) = O \cup {seq}
        <4>1. 1 \notin a.flights[seq].released /\ a.flights[seq].frame[1].buf = <<"video", g, v>>
          BY <2>3
        <4> QED  BY <4>1 DEF Owing
      <3>2. t[v] = r[v] + 1
        <4>1. f[1].buf[3] = v  BY <2>3
        <4> QED  BY <1>1, <2>3, <4>1
      <3> HIDE DEF O
      <3>3. Cardinality(O \cup {seq}) = C + 1  BY <2>1, <2>2, FS_AddElement
      <3>4. Cardinality(Owing(a, g, v)) = C + 1  BY <3>1, <3>3
      <3> HIDE DEF C
      <3>5. Excess(a, g, t, v) = r[v] - C  BY <2>1, <2>2, <3>2, <3>4 DEF Excess
      <3> QED  BY <3>5 DEF Excess, C, O
    <2>4. CASE ~mine
      <3>1. seq \notin Owing(a, g, v)
        <4>1. CASE 1 \notin DOMAIN f
          <5>1. 1 \in a.flights[seq].released  BY <4>1 DEF Planes
          <5> QED  BY <5>1 DEF Owing
        <4>2. CASE 1 \in DOMAIN f /\ f[1].buf # <<"video", g, v>>  BY <4>2 DEF Owing
        <4> QED  BY <2>4, <4>1, <4>2
      <3>2. Owing(a, g, v) = O  BY <3>1, <2>2 DEF Owing
      <3>3. t[v] = r[v]
        <4>1. CASE 1 \notin DOMAIN f  BY <4>1
        <4>2. CASE 1 \in DOMAIN f
          <5>1. f[1].buf = <<"video", g, f[1].buf[3]>>  BY <4>2 DEF Names
          <5>2. f[1].buf[3] # v  BY <2>4, <4>2, <5>1
          <5> QED  BY <1>1, <4>2, <5>2
        <4> QED  BY <4>1, <4>2
      <3> QED  BY <3>2, <3>3 DEF Excess
    <2> QED  BY <2>3, <2>4
  <1> QED  BY <1>2, <1>3 DEF ReadsOk

LEMMA PlaneFacts ==
    ASSUME NEW i, NEW b \in Names(i), NEW again \in BOOLEAN, NEW l, l.content \in Nat, NEW seq \in Nat
    PROVE  /\ Plane(b, again, l, seq) \in PlaneSet(i) /\ Plane(b, again, l, seq).buf = b
           /\ Plane(b, again, l, seq).content = IF again THEN l.content ELSE seq
  BY DEF Plane, PlaneSet

LEMMA PresentOk ==
    ASSUME IInv, NEW redraw \in BOOLEAN, NEW valid \in BOOLEAN, NEW video \in {"none", "same", "new"},
           Present(redraw, video, valid)
    PROVE  IInv'
  <1> DEFINE seq == presenter.sequence + 1
             frame(primary, v) ==
                [i \in IF v = None THEN {0} ELSE Planes |->
                    IF i = 0 THEN Plane(primary, ~redraw, presenter.last[0], seq)
                    ELSE Plane(v, video = "same", presenter.last[1], seq)]
             invalid == \/ presenter.invalid \/ ~valid
                        \/ Cardinality(DOMAIN presenter.flights) >= MaxFlights
             new(primary, v) == Presented(presenter, queue, frame(primary, v), seq, redraw, invalid)
  <1>1. /\ presenter.open /\ (redraw => queue.free # <<>>)
        /\ gpu' = gpu /\ out' = out /\ up' = up /\ down' = down /\ host' = host /\ session' = session
    BY DEF Present
  <1>2. PICK primary \in Drawn(redraw), v \in VideoDrawn(video) :
           /\ presenter' = [presenter EXCEPT
                 !.sequence = seq,
                 !.flights = [s \in DOMAIN @ \cup {seq} |->
                                 IF s = seq THEN [frame |-> frame(primary, v), accepted |-> FALSE,
                                                  processed |-> FALSE, done |-> FALSE,
                                                  released |-> Planes \ DOMAIN frame(primary, v)]
                                 ELSE @[s]],
                 !.last = Contents(frame(primary, v)),
                 !.invalid = \/ @ \/ ~valid
                             \/ Cardinality(DOMAIN presenter.flights) >= MaxFlights]
           /\ queue' = [queue EXCEPT !.flying = Append(@, primary), !.free = IF redraw THEN Tail(@) ELSE @]
           /\ reads' = IF v = None THEN reads ELSE [reads EXCEPT ![v[3]] = @ + 1]
    BY Zenon DEF Present
  <1> DEFINE f == frame(primary, v)
             n == new(primary, v)
  <1>3. PresenterOk(presenter, queue, out, gpu) /\ ReadsOk(presenter, gpu, reads)
        /\ ChannelOk(Context, host, session, up, down)
    BY DEF IInv
  <1>4. /\ primary \in Names(0) /\ primary[2] = out
        /\ redraw => primary[3] = Head(queue.free)
        /\ ~redraw => primary = ShownAt(queue, Len(queue.flying)) /\ primary = presenter.last[0].buf
    BY <1>1, DrawnFacts
  <1>5. v = None \/ (v \in Names(1) /\ v[2] = gpu)  BY VideoFacts
  <1>6. /\ presenter.sequence \in Nat /\ seq \in Nat /\ presenter.invalid \in BOOLEAN
        /\ \A i \in Planes : presenter.last[i].content \in Nat
    BY <1>3 DEF PresenterOk, PresenterSet, ContentSet
  <1>7. invalid \in BOOLEAN  BY <1>6
  <1>9. 0 \in Planes /\ 1 \in Planes /\ \A i \in Planes : i = 0 \/ i = 1  BY DEF Planes
  <1> DEFINE x == Plane(primary, ~redraw, presenter.last[0], seq)
             y == Plane(v, video = "same", presenter.last[1], seq)
  <1>10. /\ x \in PlaneSet(0) /\ x.buf = primary
         /\ x.content = IF redraw THEN seq ELSE presenter.last[0].content
    <2> DEFINE again == ~redraw
    <2>1. again \in BOOLEAN /\ (again <=> ~redraw) /\ x = Plane(primary, again, presenter.last[0], seq)
      OBVIOUS
    <2>2. presenter.last[0].content \in Nat  BY <1>6, <1>9
    <2> HIDE DEF again, x
    <2>3. /\ x \in PlaneSet(0) /\ x.buf = primary
          /\ x.content = IF again THEN presenter.last[0].content ELSE seq
      BY <1>4, <1>6, <2>1, <2>2, PlaneFacts
    <2> QED  BY <2>1, <2>3
  <1>11. v # None => y \in PlaneSet(1) /\ y.buf = v
    <2> DEFINE again == video = "same"
    <2>1. again \in BOOLEAN /\ y = Plane(v, again, presenter.last[1], seq)  OBVIOUS
    <2>2. presenter.last[1].content \in Nat  BY <1>6, <1>9
    <2> HIDE DEF again, y
    <2> QED  BY <1>5, <1>6, <2>1, <2>2, PlaneFacts
  <1>12. /\ DOMAIN f = IF v = None THEN {0} ELSE Planes
         /\ f[0] = x /\ (v # None => f[1] = y)
         /\ f = [i \in DOMAIN f |-> IF i = 0 THEN x ELSE y]
    BY <1>9
  <1> HIDE DEF x, y, invalid, f
  <1>13. f \in FrameSet
    <2>1. CASE v = None
      <3>1. f \in [{0} -> PlaneSet(0) \cup PlaneSet(1)]  BY <1>10, <1>12, <2>1
      <3> QED  BY <1>10, <1>12, <2>1, <3>1 DEF FrameSet
    <2>2. CASE v # None
      <3>1. f \in [Planes -> PlaneSet(0) \cup PlaneSet(1)]  BY <1>9, <1>10, <1>11, <1>12, <2>2
      <3>2. \A i \in DOMAIN f : f[i] \in PlaneSet(i)  BY <1>9, <1>10, <1>11, <1>12, <2>2
      <3> QED  BY <3>1, <3>2 DEF FrameSet
    <2> QED  BY <2>1, <2>2
  <1>14. /\ f[0].buf = primary /\ f[0].content = (IF redraw THEN seq ELSE presenter.last[0].content)
         /\ (1 \in DOMAIN f <=> v # None)
         /\ 1 \in DOMAIN f => f[1].buf = v /\ f[1].buf \in Names(1) /\ f[1].buf[2] = gpu
    BY <1>5, <1>9, <1>10, <1>11, <1>12
  <1>15. presenter' = n.presenter /\ queue' = n.queue
    <2>1. n.presenter = [presenter EXCEPT
                 !.sequence = seq,
                 !.flights = [s \in DOMAIN @ \cup {seq} |->
                                 IF s = seq THEN [frame |-> f, accepted |-> FALSE,
                                                  processed |-> FALSE, done |-> FALSE,
                                                  released |-> Planes \ DOMAIN f]
                                 ELSE @[s]],
                 !.last = Contents(f), !.invalid = invalid]
      BY DEF Presented, f
    <2>2. n.queue = [queue EXCEPT !.flying = Append(@, f[0].buf), !.free = IF redraw THEN Tail(@) ELSE @]
      BY DEF Presented, f
    <2>3. presenter' = n.presenter  BY <1>2, <2>1, Zenon DEF f, invalid
    <2>4. queue' = n.queue  BY <1>2, <1>14, <2>2
    <2> QED  BY <2>3, <2>4
  <1>16. /\ PresenterOk(n.presenter, n.queue, out, gpu)
         /\ n.presenter.open /\ n.presenter.sent = presenter.sent
         /\ DOMAIN n.presenter.flights = DOMAIN presenter.flights \cup {seq}
         /\ seq \notin DOMAIN presenter.flights
         /\ \A s \in DOMAIN presenter.flights : n.presenter.flights[s] = presenter.flights[s]
         /\ n.presenter.flights[seq].frame = f
         /\ n.presenter.flights[seq].released = Planes \ DOMAIN f
    <2>1. n = Presented(presenter, queue, f, presenter.sequence + 1, redraw, invalid)  BY DEF f
    <2> HIDE DEF n
    <2>2. redraw => queue.free # <<>> /\ f[0].buf[3] = Head(queue.free) /\ f[0].content = presenter.sequence + 1
      BY <1>1, <1>4, <1>14
    <2>3. ~redraw => /\ f[0].buf = ShownAt(queue, Len(queue.flying)) /\ f[0].buf = presenter.last[0].buf
                     /\ f[0].content = presenter.last[0].content
      BY <1>4, <1>14
    <2>4. f[0].buf[2] = out /\ (1 \in DOMAIN f => f[1].buf[2] = gpu)  BY <1>4, <1>14
    <2> QED  BY <1>1, <1>3, <1>7, <1>13, <2>1, <2>2, <2>3, <2>4, PresentedOk
  <1> HIDE DEF n
  <1> DEFINE a == n.presenter
  <1>17. ReadsOk(a, gpu, reads') /\ \A w \in Videos : Excess(a, gpu, reads', w) = Excess(presenter, gpu, reads, w)
    <2>1. reads' = ReadsWith(reads, f)  BY <1>2, <1>14 DEF ReadsWith
    <2>2. 1 \in DOMAIN f => f[1].buf \in Names(1) /\ f[1].buf[2] = gpu  BY <1>14
    <2>3. /\ DOMAIN a.flights = DOMAIN presenter.flights \cup {seq} /\ seq \notin DOMAIN presenter.flights
          /\ \A s \in DOMAIN presenter.flights : a.flights[s] = presenter.flights[s]
          /\ a.flights[seq].frame = f /\ a.flights[seq].released = Planes \ DOMAIN f
      BY <1>16
    <2> HIDE DEF a, seq
    <2> QED  BY <1>3, <1>13, <2>1, <2>2, <2>3, PresentedReads
  <1> DEFINE c == Context'
  <1>18. c.presenter = a /\ c.out = out /\ c.gpu = gpu /\ c.reads = reads'  BY <1>1, <1>15 DEF Context
  <1>19. /\ Context.presenter = presenter /\ Context.out = out /\ Context.gpu = gpu
         /\ Context.reads = reads
    BY DEF Context
  <1> HIDE DEF c, a
  <1>20. ASSUME NEW s, NEW i \in Planes, NEW buf, Held(Context, s, i, buf)
         PROVE  Held(c, s, i, buf)
    <2>1. Linked(presenter, s, i, buf) => Linked(a, s, i, buf)  BY <1>16 DEF Linked, a
    <2>2. i = 1 => buf[3] \in Videos  BY <1>20 DEF Held, Names
    <2> QED  BY <1>17, <1>18, <1>19, <1>20, <2>1, <2>2, <1>1, <1>9 DEF Held
  <1>21. ChannelOk(c, host, session, up, down)
    <2>1. c.out = Context.out /\ (c.presenter.open <=> Context.presenter.open)
          /\ c.presenter.sent = Context.presenter.sent
      BY <1>1, <1>16, <1>18, <1>19 DEF a
    <2> QED  BY <1>3, <1>20, <2>1, ContextKeeps
  <1> QED  BY <1>1, <1>15, <1>16, <1>17, <1>21 DEF IInv, c, a

-----------------------------------------------------------------------------
(* Presenter::Poll *)

(* Presenter, reads and the channel, with this presenter.                   *)
With(p) == [presenter |-> p, out |-> out, gpu |-> gpu, reads |-> reads]

LEMMA ConcatFacts ==
    ASSUME NEW S, NEW a \in Seq(S), NEW b \in Seq(S)
    PROVE  /\ a \o b \in Seq(S) /\ Len(a \o b) = Len(a) + Len(b) /\ Len(a) \in Nat
           /\ \A k \in 1..(Len(a) + Len(b)) :
                 (a \o b)[k] = IF k <= Len(a) THEN a[k] ELSE b[k - Len(a)]
  BY ConcatProperties

(* A frame not yet sent is held once it is in the socket.                   *)
LEMMA UnsentHeld ==
    ASSUME NEW p, NEW q, PresenterOk(p, q, out, gpu), p.open, NEW c, c.presenter.open, c.out = out, c.gpu = gpu,
           c.presenter.flights = p.flights,
           NEW s \in (p.sent + 1)..p.sequence, NEW m, m.seq = s, m.frame = p.flights[s].frame
    PROVE  p.flights[s].frame \in FrameSet /\ FrameHeld(c, m)
  <1> DEFINE f == p.flights[s]
  <1>1. s \in DOMAIN p.flights /\ f.released = Planes \ DOMAIN f.frame  BY DEF PresenterOk, FlightsOk
  <1>2. p \in PresenterSet /\ out \in Nat /\ gpu \in Nat  BY DEF PresenterOk
  <1>3. f.frame \in FrameSet  BY <1>1, <1>2, FlightFacts
  <1>4. f.frame[0].buf[2] = out /\ (1 \in DOMAIN f.frame => f.frame[1].buf[2] = gpu)
    BY <1>1 DEF PresenterOk, FlightsOk
  <1>5. ASSUME NEW i \in DOMAIN f.frame PROVE Held(c, s, i, f.frame[i].buf)
    <2>1. i \in Planes /\ f.frame[i].buf \in Names(i)  BY <1>3, FrameFacts
    <2>2. Linked(c.presenter, s, i, f.frame[i].buf)  BY <1>1, <2>1 DEF Linked
    <2>3. i = 0 => f.frame[i].buf[2] = out  BY <1>4
    <2>4. i = 1 => f.frame[i].buf[2] = gpu  BY <1>4
    <2> HIDE DEF f
    <2> QED  BY <1>2, <2>1, <2>2, <2>3, <2>4 DEF Held
  <1> QED  BY <1>3, <1>5 DEF FrameHeld

(* The socket takes some frames.                                            *)
LEMMA SendOk ==
    ASSUME IInv, presenter.open, NEW n \in Nat, presenter.sent + n <= presenter.sequence,
           NEW p, p = [presenter EXCEPT !.sent = @ + n]
    PROVE  /\ PresenterOk(p, queue, out, gpu) /\ ReadsOk(p, gpu, reads)
           /\ ChannelOk(With(p), host, session, Sending(n), down)
           /\ p.open /\ p.sent = presenter.sent + n /\ p.flights = presenter.flights
           /\ p.sequence = presenter.sequence /\ p.last = presenter.last /\ p.invalid = presenter.invalid
  <1> DEFINE c == With(p)
             u == Sending(n)
             msg(k) == [op |-> "frame", seq |-> presenter.sent + k,
                        frame |-> presenter.flights[presenter.sent + k].frame]
             more == [k \in 1..n |-> msg(k)]
  <1>1. PresenterOk(presenter, queue, out, gpu) /\ ReadsOk(presenter, gpu, reads)
        /\ ChannelOk(Context, host, session, up, down)
    BY DEF IInv
  <1>2. presenter \in PresenterSet /\ presenter.sent \in Nat /\ presenter.sequence \in Nat
    BY <1>1 DEF PresenterOk, PresenterSet
  <1>3. /\ p \in PresenterSet /\ p.open = presenter.open /\ p.sent = presenter.sent + n
        /\ p.flights = presenter.flights /\ p.sequence = presenter.sequence /\ p.last = presenter.last
        /\ p.invalid = presenter.invalid
    <2> DEFINE k == presenter.sent + n
    <2>1. k \in Nat /\ p = [presenter EXCEPT !.sent = k]  BY <1>2
    <2> HIDE DEF k
    <2>2. /\ p \in PresenterSet /\ p.open = presenter.open /\ p.sent = k
          /\ p.flights = presenter.flights /\ p.sequence = presenter.sequence /\ p.last = presenter.last
          /\ p.invalid = presenter.invalid
      BY <1>2, <2>1 DEF PresenterSet
    <2> QED  BY <2>2 DEF k
  <1>4. PresenterOk(p, queue, out, gpu)
    <2>1. \A s \in (p.sent + 1)..p.sequence : s \in (presenter.sent + 1)..presenter.sequence
      BY <1>2, <1>3
    <2>2. FlightsOk(p, queue, out, gpu)
      <3>1. p.sent <= p.sequence  BY <1>3
      <3>2. FlightsOk(presenter, queue, out, gpu)  BY <1>1 DEF PresenterOk
      <3> QED  BY <1>3, <2>1, <3>1, <3>2 DEF FlightsOk
    <2>3. SwapsOk(p, queue) /\ ContentsOk(p)  BY <1>1, <1>3 DEF PresenterOk, SwapsOk, ContentsOk, Acked
    <2> QED  BY <1>1, <1>3, <2>2, <2>3 DEF PresenterOk
  <1>5. \A g, r, v : Excess(p, g, r, v) = Excess(presenter, g, r, v)  BY <1>3 DEF Excess, Owing
  <1>6. ReadsOk(p, gpu, reads)  BY <1>1, <1>5 DEF ReadsOk
  <1>7. c.presenter = p /\ c.out = out /\ c.gpu = gpu /\ c.reads = reads  BY DEF With
  <1>8. /\ Context.presenter = presenter /\ Context.out = out /\ Context.gpu = gpu
        /\ Context.reads = reads
    BY DEF Context
  <1> HIDE DEF c
  <1>9. \A seq, i, buf : Held(Context, seq, i, buf) => Held(c, seq, i, buf)
    BY <1>3, <1>5, <1>7, <1>8 DEF Held, Linked
  <1>10. /\ host \in HostSet /\ SessionType(session) /\ up \in Seq(MessageSet) /\ down \in Seq(ReplySet)
         /\ HostOk(Context, host, session) /\ AllHeld(Context, host, session, up)
         /\ (Live(Context, host) => LiveOk(Context, host, session, up, down))
         /\ (Awaited(Context, host) => AwaitedOk(Context, up, down))
    BY <1>1 DEF ChannelOk
  <1>11. ASSUME NEW k \in 1..n
         PROVE  msg(k) \in MessageSet /\ FrameHeld(c, msg(k)) /\ msg(k).seq = presenter.sent + k
    <2>1. presenter.sent + k \in (presenter.sent + 1)..presenter.sequence /\ presenter.sent + k \in Nat
      BY <1>2
    <2>2. msg(k).seq = presenter.sent + k /\ msg(k).frame = presenter.flights[presenter.sent + k].frame
          /\ msg(k).op = "frame"
      OBVIOUS
    <2>3. presenter.flights[presenter.sent + k].frame \in FrameSet /\ FrameHeld(c, msg(k))
      <3> HIDE DEF msg
      <3> QED  BY <1>1, <1>3, <1>7, <2>1, <2>2, UnsentHeld
    <2>4. msg(k) \in MessageSet  BY <2>1, <2>3 DEF MessageSet
    <2> QED  BY <2>2, <2>3, <2>4
  <1> HIDE DEF msg
  <1>12. more \in Seq(MessageSet) /\ Len(more) = n /\ \A k \in 1..n : more[k] = msg(k)
    BY <1>11
  <1>13. u = up \o more  BY DEF Sending, msg
  <1> HIDE DEF more, u
  <1>14. /\ u \in Seq(MessageSet) /\ Len(u) = Len(up) + n /\ Len(up) \in Nat
         /\ \A k \in 1..(Len(up) + n) : u[k] = IF k <= Len(up) THEN up[k] ELSE more[k - Len(up)]
    <2>1. /\ up \o more \in Seq(MessageSet) /\ Len(up \o more) = Len(up) + Len(more) /\ Len(up) \in Nat
          /\ \A k \in 1..(Len(up) + Len(more)) :
                (up \o more)[k] = IF k <= Len(up) THEN up[k] ELSE more[k - Len(up)]
      BY <1>10, <1>12, ConcatFacts
    <2> QED  BY <1>12, <1>13, <2>1
  <1>15. \A k \in 1..(Len(up) + n) : ~(k <= Len(up)) => k - Len(up) \in 1..n  BY <1>14
  <1>16. \A k \in 1..Len(u) : \/ k \in 1..Len(up) /\ u[k] = up[k]
                              \/ k - Len(up) \in 1..n /\ u[k] = msg(k - Len(up))
    BY <1>12, <1>14, <1>15
  <1>17. AllHeld(c, host, session, u)
    <2>1. \A m : FrameHeld(Context, m) => FrameHeld(c, m)  BY <1>9 DEF FrameHeld
    <2>2. ASSUME NEW k \in 1..Len(u) PROVE FrameHeld(c, u[k])
      <3>1. CASE k \in 1..Len(up) /\ u[k] = up[k]
        <4>1. FrameHeld(Context, up[k])  BY <1>10, <3>1 DEF AllHeld
        <4> QED  BY <2>1, <3>1, <4>1
      <3>2. CASE k - Len(up) \in 1..n /\ u[k] = msg(k - Len(up))  BY <1>11, <3>2
      <3> QED  BY <1>16, <3>1, <3>2
    <2>3. \A l \in session.leases : Held(c, l.seq, l.plane, l.buf)  BY <1>9, <1>10 DEF AllHeld
    <2>4. host.pending # None => FrameHeld(c, host.pending)  BY <1>10, <2>1 DEF AllHeld
    <2> QED  BY <2>2, <2>3, <2>4 DEF AllHeld
  <1>18. HostOk(c, host, session)  BY <1>3, <1>7, <1>8, <1>10 DEF HostOk
  <1>19. (Live(c, host) <=> Live(Context, host)) /\ (Awaited(c, host) <=> Awaited(Context, host))
    BY <1>3, <1>7, <1>8 DEF Live, Awaited
  <1>20. ASSUME NEW base \in Nat, \A k \in 1..Len(up) : up[k].seq = base + k,
                presenter.sent = base + Len(up)
         PROVE  (\A k \in 1..Len(u) : u[k].seq = base + k) /\ p.sent = base + Len(u)
    <2>1. p.sent = base + Len(u)  BY <1>2, <1>3, <1>14, <1>20
    <2>2. ASSUME NEW k \in 1..Len(u) PROVE u[k].seq = base + k
      <3>1. CASE k \in 1..Len(up) /\ u[k] = up[k]  BY <1>20, <3>1
      <3>2. CASE k - Len(up) \in 1..n /\ u[k] = msg(k - Len(up))
        <4>1. u[k].seq = presenter.sent + (k - Len(up))  BY <1>11, <3>2
        <4>2. presenter.sent + (k - Len(up)) = base + k  BY <1>14, <1>20
        <4> QED  BY <4>1, <4>2
      <3> QED  BY <1>16, <3>1, <3>2
    <2> QED  BY <2>1, <2>2
  <1>21. ASSUME Live(c, host) PROVE LiveOk(c, host, session, u, down)
    <2>1. LiveOk(Context, host, session, up, down)  BY <1>10, <1>19, <1>21
    <2>2. host.sequence \in Nat  BY <1>10 DEF HostSet
    <2>3. (\A k \in 1..Len(u) : u[k].seq = host.sequence + k) /\ p.sent = host.sequence + Len(u)
      BY <1>8, <1>20, <2>1, <2>2 DEF LiveOk
    <2> QED  BY <1>7, <2>1, <2>3 DEF LiveOk
  <1>22. ASSUME Awaited(c, host) PROVE AwaitedOk(c, u, down)
    <2>1. AwaitedOk(Context, up, down)  BY <1>10, <1>19, <1>22
    <2>2. \A k \in 1..Len(up) : up[k].seq = 0 + k  BY <1>14, <2>1 DEF AwaitedOk
    <2>3. presenter.sent = 0 + Len(up)  BY <1>8, <1>14, <2>1 DEF AwaitedOk
    <2>4. (\A k \in 1..Len(u) : u[k].seq = 0 + k) /\ p.sent = 0 + Len(u)  BY <1>20, <2>2, <2>3
    <2>5. (\A k \in 1..Len(u) : 0 + k = k) /\ 0 + Len(u) = Len(u)  BY <1>14
    <2> QED  BY <1>7, <2>1, <2>4, <2>5 DEF AwaitedOk
  <1>23. c.out \in Nat /\ c.presenter.open  BY <1>1, <1>3, <1>7 DEF PresenterOk
  <1>24. ChannelOk(c, host, session, u, down)
    BY <1>10, <1>14, <1>17, <1>18, <1>19, <1>21, <1>22, <1>23 DEF ChannelOk
  <1> QED  BY <1>3, <1>4, <1>6, <1>24 DEF c, u

LEMMA ApplyFacts ==
    ASSUME NEW f \in FlightSet, NEW seq, NEW d \in Seq(ReplySet)
    PROVE  LET a == Apply(f, seq, d)
           IN /\ a \in FlightSet /\ a.frame = f.frame /\ a.done = f.done /\ f.released \subseteq a.released
              /\ \A i \in a.released \ f.released :
                    \E r \in Range(d) : r.op = "released" /\ r.seq = seq /\ r.plane = i
  <1> DEFINE mine == {r \in Range(d) : r.seq = seq}
             acc == f.accepted \/ \E r \in mine : r.op = "accepted"
             pro == f.processed \/ \E r \in mine : r.op = "processed"
             rel == f.released \cup {r.plane : r \in {r \in mine : r.op = "released"}}
             a == Apply(f, seq, d)
  <1>1. a = [f EXCEPT !.accepted = acc, !.processed = pro, !.released = rel]
    BY Zenon DEF Apply
  <1>2. acc \in BOOLEAN /\ pro \in BOOLEAN  BY DEF FlightSet
  <1>3. Range(d) \subseteq ReplySet  BY DEF Range
  <1>4. \A r \in ReplySet : r.op = "released" => r.plane \in Planes  BY DEF ReplySet
  <1>5. rel \in SUBSET Planes
    <2>1. f.released \in SUBSET Planes  BY DEF FlightSet
    <2> QED  BY <1>3, <1>4, <2>1
  <1>6. \A i \in rel \ f.released : \E r \in Range(d) : r.op = "released" /\ r.seq = seq /\ r.plane = i
    OBVIOUS
  <1>7. f.released \subseteq rel  OBVIOUS
  <1> HIDE DEF acc, pro, rel, a
  <1>8. a \in FlightSet /\ a.frame = f.frame /\ a.done = f.done /\ a.released = rel
    BY <1>1, <1>2, <1>5 DEF FlightSet
  <1> QED  BY <1>6, <1>7, <1>8 DEF a

(* The frames swapped are the first ones.                                   *)
LEMMA SwapPrefix ==
    ASSUME NEW p, NEW q, NEW o, NEW g, PresenterOk(p, q, o, g), NEW gs, DOMAIN gs = DOMAIN p.flights,
           \A s \in DOMAIN gs : gs[s].done = p.flights[s].done
    PROVE  \E b \in Acked(p, q)..p.sequence :
              /\ \A s \in DOMAIN gs : s \in Swapped(gs) <=> s <= b
              /\ {s \in Swapped(gs) : ~p.flights[s].done} = (Acked(p, q) + 1)..b
              /\ b > Acked(p, q) => b \in DOMAIN gs /\ ~gs[b].done /\ b \in Swapped(gs)
  <1> DEFINE A == Acked(p, q)
             N == p.sequence
             W == Swapped(gs)
             T == {s \in (A + 1)..(N + 1) : s \notin W}
  <1>1. /\ p \in PresenterSet /\ q \in QueueSet /\ SwapsOk(p, q)  BY DEF PresenterOk
  <1>2. N \in Nat /\ DOMAIN gs \subseteq 1..N /\ Len(q.flying) \in Nat
    BY <1>1 DEF PresenterOk, FlightsOk, PresenterSet, QueueSet
  <1>3. A \in Nat /\ A <= N  BY <1>1, <1>2 DEF SwapsOk, Acked
  <1>4. /\ \A s \in (A + 1)..N : s \in DOMAIN gs
        /\ \A s \in DOMAIN gs : gs[s].done <=> s <= A
    BY <1>1 DEF SwapsOk
  <1>5. W = {s \in DOMAIN gs : \A t \in DOMAIN gs : t <= s => gs[t].done \/ Ready(gs, t)}
    BY DEF Swapped
  <1> HIDE DEF A, W
  <1>6. N + 1 \in T
    <2>1. N + 1 \notin DOMAIN gs /\ N + 1 \in (A + 1)..(N + 1)  BY <1>2, <1>3
    <2> QED  BY <1>5, <2>1
  <1>7. PICK x \in T : \A y \in T : x <= y
    <2>1. T \in SUBSET Nat  BY <1>2, <1>3
    <2> HIDE DEF T
    <2> QED  BY <1>6, <2>1, LeastNatural
  <1> DEFINE b == x - 1
  <1>8. x \in (A + 1)..(N + 1) /\ x \notin W /\ x \in Int  BY <1>2, <1>3
  <1>9. b \in A..N /\ b \in Int  BY <1>2, <1>3, <1>8
  <1>10. ASSUME NEW s \in DOMAIN gs PROVE s \in W <=> s <= b
    <2>1. s \in 1..N /\ s \in Int  BY <1>2
    <2>2. CASE s <= A
      <3>1. \A t \in DOMAIN gs : t \in Int /\ (t <= s => t <= A)  BY <1>2, <1>3, <2>1, <2>2
      <3>2. s \in W  BY <1>4, <1>5, <3>1
      <3>3. s <= b  BY <1>3, <1>9, <2>1, <2>2
      <3> QED  BY <3>2, <3>3
    <2>3. CASE s > A /\ s <= b
      <3>1. s \in (A + 1)..(N + 1) /\ ~(x <= s)  BY <1>2, <1>3, <1>8, <2>1, <2>3
      <3>2. s \in W  BY <1>7, <3>1
      <3> QED  BY <2>3, <3>2
    <2>4. CASE s > b
      <3>1. x <= s /\ x \in (A + 1)..N  BY <1>2, <1>3, <1>8, <2>1, <2>4
      <3>2. x \in DOMAIN gs  BY <1>4, <3>1
      <3>3. ASSUME s \in W PROVE FALSE
        <4>1. \A t \in DOMAIN gs : t \in Int /\ (t <= x => t <= s)  BY <1>2, <1>8, <2>1, <3>1
        <4>2. x \in W  BY <1>5, <3>2, <3>3, <4>1
        <4> QED  BY <1>8, <4>2
      <3>4. ~(s <= b)  BY <1>9, <2>1, <2>4
      <3> QED  BY <3>3, <3>4
    <2>5. s <= A \/ (s > A /\ s <= b) \/ s > b  BY <1>3, <1>9, <2>1
    <2> QED  BY <2>2, <2>3, <2>4, <2>5
  <1> HIDE DEF b
  <1>11. {s \in W : ~p.flights[s].done} = (A + 1)..b
    <2>1. ASSUME NEW s \in W, ~p.flights[s].done PROVE s \in (A + 1)..b
      <3>1. s \in DOMAIN gs /\ s \in 1..N  BY <1>2, <1>5, <2>1
      <3>2. s <= b /\ ~(s <= A)  BY <1>4, <1>10, <2>1, <3>1
      <3> QED  BY <1>2, <1>3, <1>9, <3>1, <3>2
    <2>2. ASSUME NEW s \in (A + 1)..b PROVE s \in W /\ ~p.flights[s].done
      <3>1. s \in (A + 1)..N /\ s <= b /\ ~(s <= A)  BY <1>2, <1>3, <1>9
      <3>2. s \in DOMAIN gs  BY <1>4, <3>1
      <3> QED  BY <1>4, <1>10, <3>1, <3>2
    <2> QED  BY <2>1, <2>2
  <1>12. ASSUME b > A PROVE b \in DOMAIN gs /\ ~gs[b].done /\ b \in W
    <2>1. b \in (A + 1)..N /\ ~(b <= A) /\ b <= b  BY <1>2, <1>3, <1>9, <1>12
    <2>2. b \in DOMAIN gs  BY <1>4, <2>1
    <2> QED  BY <1>4, <1>10, <2>1, <2>2
  <1> QED  BY <1>9, <1>10, <1>11, <1>12 DEF A, W

(* The flights after replies: those that expect one more, or are not        *)
(* swapped, are kept.                                                       *)
Got(fs, d) == [s \in DOMAIN fs |-> Apply(fs[s], s, d)]
Marked(fs, d) == [s \in DOMAIN fs |-> [Got(fs, d)[s] EXCEPT !.done = s \in Swapped(Got(fs, d))]]
Left(fs, d) == RestrictValues(Marked(fs, d), LAMBDA f : ~(f.done /\ f.released = Planes))

LEMMA LeftFacts ==
    ASSUME NEW p \in PresenterSet, NEW d \in Seq(ReplySet)
    PROVE  LET fs == p.flights
               G == Got(fs, d)
               L == Left(fs, d)
           IN /\ DOMAIN G = DOMAIN fs /\ DOMAIN L \subseteq DOMAIN fs
              /\ \A s \in DOMAIN fs :
                    /\ G[s] \in FlightSet /\ G[s].frame = fs[s].frame /\ G[s].done = fs[s].done
                    /\ fs[s].released \subseteq G[s].released
                    /\ \A i \in G[s].released \ fs[s].released :
                          \E r \in Range(d) : r.op = "released" /\ r.seq = s /\ r.plane = i
              /\ L \in [DOMAIN L -> FlightSet]
              /\ \A s \in DOMAIN L : /\ L[s].frame = fs[s].frame /\ L[s].released = G[s].released
                                     /\ L[s].done <=> s \in Swapped(G)
              /\ \A s \in DOMAIN fs : s \notin DOMAIN L => s \in Swapped(G) /\ G[s].released = Planes
  <1> DEFINE fs == p.flights
             G == Got(fs, d)
             M == Marked(fs, d)
             L == Left(fs, d)
  <1>1. \A s \in DOMAIN fs : fs[s] \in FlightSet  BY FlightFacts
  <1>2. DOMAIN G = DOMAIN fs /\ \A s \in DOMAIN fs : G[s] = Apply(fs[s], s, d)  BY DEF Got
  <1>3. ASSUME NEW s \in DOMAIN fs
        PROVE  /\ G[s] \in FlightSet /\ G[s].frame = fs[s].frame /\ G[s].done = fs[s].done
               /\ fs[s].released \subseteq G[s].released
               /\ \A i \in G[s].released \ fs[s].released :
                     \E r \in Range(d) : r.op = "released" /\ r.seq = s /\ r.plane = i
    BY <1>1, <1>2, ApplyFacts
  <1>4. /\ DOMAIN M = DOMAIN fs
        /\ \A s \in DOMAIN fs : M[s] = [G[s] EXCEPT !.done = s \in Swapped(G)]
    BY DEF Marked
  <1>5. L = [s \in {s \in DOMAIN M : ~(M[s].done /\ M[s].released = Planes)} |-> M[s]]
    BY DEF Left, RestrictValues, Restrict
  <1> HIDE DEF G, M
  <1>6. ASSUME NEW s \in DOMAIN fs
        PROVE  /\ M[s] \in FlightSet /\ M[s].frame = fs[s].frame /\ M[s].released = G[s].released
               /\ M[s].done <=> s \in Swapped(G)
    <2> DEFINE b == s \in Swapped(G)
    <2>1. b \in BOOLEAN /\ M[s] = [G[s] EXCEPT !.done = b]  BY <1>4
    <2> HIDE DEF b
    <2>2. M[s] \in FlightSet /\ M[s].frame = G[s].frame /\ M[s].released = G[s].released /\ M[s].done = b
      BY <1>3, <2>1 DEF FlightSet
    <2> QED  BY <1>3, <2>2 DEF b
  <1>7. /\ DOMAIN L = {s \in DOMAIN fs : ~(M[s].done /\ M[s].released = Planes)}
        /\ \A s \in DOMAIN L : L[s] = M[s]
    BY <1>4, <1>5
  <1>8. L \in [DOMAIN L -> FlightSet]
    <2>1. L = [s \in DOMAIN L |-> L[s]]  BY <1>5
    <2>2. \A s \in DOMAIN L : L[s] \in FlightSet  BY <1>6, <1>7
    <2> QED  BY <2>1, <2>2
  <1> HIDE DEF L
  <1> QED  BY <1>2, <1>3, <1>6, <1>7, <1>8 DEF G, L

LEMMA AppliedPresenter ==
    ASSUME NEW p, NEW q, NEW o, NEW g, PresenterOk(p, q, o, g), p.open, p.sent = p.sequence,
           NEW d \in Seq(ReplySet), NEW a, a = [p EXCEPT !.flights = Left(p.flights, d)],
           NEW r, r = SwapAcks(q, Cardinality({s \in Swapped(Got(p.flights, d)) : ~p.flights[s].done}))
    PROVE  PresenterOk(a, r, o, g)
  <1> DEFINE fs == p.flights
             G == Got(fs, d)
             L == Left(fs, d)
             A == Acked(p, q)
             N == p.sequence
  <1>1. /\ p \in PresenterSet /\ q \in QueueSet /\ o \in Nat /\ g \in Nat
        /\ FlightsOk(p, q, o, g) /\ SwapsOk(p, q) /\ ContentsOk(p) /\ QueueOk(q, o)
        /\ p.last[0].buf = ShownAt(q, Len(q.flying))
    BY DEF PresenterOk
  <1>2. /\ DOMAIN G = DOMAIN fs /\ DOMAIN L \subseteq DOMAIN fs
        /\ \A s \in DOMAIN fs :
              /\ G[s] \in FlightSet /\ G[s].frame = fs[s].frame /\ G[s].done = fs[s].done
              /\ fs[s].released \subseteq G[s].released
        /\ L \in [DOMAIN L -> FlightSet]
        /\ \A s \in DOMAIN L : /\ L[s].frame = fs[s].frame /\ L[s].released = G[s].released
                               /\ L[s].done <=> s \in Swapped(G)
        /\ \A s \in DOMAIN fs : s \notin DOMAIN L => s \in Swapped(G) /\ G[s].released = Planes
    BY <1>1, LeftFacts
  <1>3. N \in Nat /\ Len(q.flying) \in Nat /\ A = N - Len(q.flying) /\ A >= 0
    BY <1>1 DEF PresenterSet, QueueSet, SwapsOk, Acked
  <1>4. DOMAIN fs \subseteq 1..N  BY <1>1 DEF FlightsOk
  <1>5. PICK b \in A..N :
           /\ \A s \in DOMAIN G : s \in Swapped(G) <=> s <= b
           /\ {s \in Swapped(G) : ~fs[s].done} = (A + 1)..b
           /\ b > A => b \in DOMAIN G /\ ~G[b].done /\ b \in Swapped(G)
    BY <1>2, SwapPrefix, SMTT(30)
  <1> DEFINE n == b - A
  <1>6. n \in 0..Len(q.flying) /\ b \in Int /\ A \in Int  BY <1>3
  <1>7. Cardinality({s \in Swapped(G) : ~fs[s].done}) = n
    <2>1. A + 1 \in Int /\ b \in Int  BY <1>6
    <2>2. Cardinality((A + 1)..b) = IF A + 1 > b THEN 0 ELSE b - (A + 1) + 1  BY <2>1, FS_Interval
    <2>3. (IF A + 1 > b THEN 0 ELSE b - (A + 1) + 1) = n  BY <1>3, <1>6
    <2> QED  BY <1>5, <2>2, <2>3
  <1>8. r = SwapAcks(q, n)  BY <1>7
  <1> HIDE DEF G, L, A, n
  <1>9. Shifted(q, r, n) /\ QueueOk(r, o)  BY <1>1, <1>6, <1>8, SwapAcksOk
  <1>10. /\ r \in QueueSet /\ Len(r.flying) = Len(q.flying) - n
         /\ \A k \in 0..Len(r.flying) : ShownAt(r, k) = ShownAt(q, k + n)
    BY <1>9 DEF Shifted
  <1>11. /\ a \in PresenterSet /\ a.open = p.open /\ a.sent = p.sent /\ a.sequence = N
         /\ a.flights = L /\ a.last = p.last
    <2>1. DOMAIN fs \in SUBSET Nat  BY <1>1, FlightFacts
    <2>2. L \in UNION {[D -> FlightSet] : D \in SUBSET Nat}  BY <1>2, <2>1
    <2>3. a = [p EXCEPT !.flights = L]  BY DEF L
    <2> QED  BY <1>1, <2>2, <2>3 DEF PresenterSet
  <1>12. Acked(a, r) = b
    <2>1. Acked(a, r) = N - (Len(q.flying) - n)  BY <1>10, <1>11 DEF Acked
    <2> QED  BY <1>3, <1>6, <2>1, SMTT(30) DEF n
  <1>13. FlightsOk(a, r, o, g)
    <2>1. \A s \in DOMAIN L : /\ L[s].frame[0].buf[2] = o
                              /\ 1 \in DOMAIN L[s].frame => L[s].frame[1].buf[2] = g
                              /\ Planes \ DOMAIN L[s].frame \subseteq L[s].released
      BY <1>1, <1>2 DEF FlightsOk
    <2>2. (a.sent + 1)..a.sequence = {}  BY <1>3, <1>11
    <2>3. a.sent <= a.sequence  BY <1>3, <1>11
    <2>4. a.last[1].buf # None => a.last[1].buf \in Names(1) /\ a.last[1].buf[2] = g
      BY <1>1, <1>11 DEF FlightsOk
    <2> QED  BY <1>2, <1>4, <1>11, <2>1, <2>2, <2>3, <2>4 DEF FlightsOk
  <1>14. SwapsOk(a, r)
    <2>1. b >= 0  BY <1>3, <1>6
    <2>2. ASSUME NEW s \in (b + 1)..N PROVE s \in DOMAIN L
      <3>1. s \in (A + 1)..N /\ ~(s <= b)  BY <1>3, <1>6
      <3>2. s \in DOMAIN fs  BY <1>1, <3>1 DEF SwapsOk, A
      <3> QED  BY <1>2, <1>5, <3>1, <3>2
    <2>3. ASSUME NEW s \in DOMAIN L PROVE L[s].done <=> s <= b
      BY <1>2, <1>5
    <2>4. ASSUME NEW s \in DOMAIN L, s > b PROVE r.flying[s - b] = L[s].frame[0].buf
      <3>1. s \in 1..N /\ s \in DOMAIN fs  BY <1>2, <1>4
      <3>2. /\ s - b \in 0..Len(r.flying) /\ s - b # 0 /\ (s - b) + n = s - A /\ s - A # 0 /\ s > A
        <4>1. n = b - A /\ A <= b /\ s \in Int /\ s <= N  BY <1>3, <3>1 DEF n
        <4>2. Len(r.flying) = N - b  BY <1>3, <1>6, <1>10, <4>1, SMTT(30)
        <4>3. s - b \in 0..Len(r.flying) /\ s - b # 0  BY <1>3, <1>6, <2>4, <4>1, <4>2, SMTT(30)
        <4>4. (s - b) + n = s - A /\ s - A # 0 /\ s > A  BY <1>3, <1>6, <2>4, <4>1, SMTT(30)
        <4> QED  BY <4>3, <4>4
      <3>3. r.flying[s - b] = q.flying[s - A]
        <4>1. ShownAt(r, s - b) = ShownAt(q, s - A)  BY <1>10, <3>2
        <4> QED  BY <3>2, <4>1 DEF ShownAt
      <3>4. q.flying[s - A] = fs[s].frame[0].buf  BY <1>1, <3>1, <3>2 DEF SwapsOk, A
      <3> QED  BY <1>2, <3>3, <3>4
    <2>5. ASSUME NEW s \in DOMAIN L, s <= b, 0 \notin L[s].released PROVE L[s].frame[0].buf = r.shown
      <3>1. s \in 1..N /\ s \in DOMAIN fs /\ 0 \notin G[s].released /\ 0 \notin fs[s].released
        BY <1>2, <1>4, <2>5
      <3>2. r.shown = ShownAt(q, n)
        <4>1. 0 \in 0..Len(r.flying) /\ 0 + n = n  BY <1>3, <1>6, <1>10
        <4> QED  BY <1>10, <4>1 DEF ShownAt
      <3>3. CASE n = 0
        <4>1. s <= A  BY <1>6, <2>5, <3>3 DEF n
        <4>2. fs[s].frame[0].buf = q.shown  BY <1>1, <3>1, <4>1 DEF SwapsOk, A
        <4> QED  BY <1>2, <3>2, <3>3, <4>2 DEF ShownAt
      <3>4. CASE n # 0
        <4>1. b > A  BY <1>3, <1>6, <3>4 DEF n
        <4>2. b \in DOMAIN fs /\ ~G[b].done /\ b \in Swapped(G)  BY <1>2, <1>5, <4>1
        <4>3. r.shown = fs[b].frame[0].buf
          <5>1. q.flying[b - A] = fs[b].frame[0].buf  BY <1>1, <4>1, <4>2 DEF SwapsOk, A
          <5> QED  BY <3>2, <3>4, <5>1 DEF ShownAt, n
        <4>4. Ready(G, b)
          <5>1. b <= b  BY <1>6
          <5> QED  BY <1>2, <4>2, <5>1 DEF Swapped
        <4>5. CASE s = b  BY <1>2, <4>3, <4>5
        <4>6. CASE s # b
          <5>1. s < b  BY <1>6, <2>5, <3>1, <4>6
          <5>2. G[s].frame[0].content = G[b].frame[0].content  BY <1>2, <3>1, <4>4, <5>1 DEF Ready
          <5>3. fs[s].frame[0].content = fs[b].frame[0].content  BY <1>2, <3>1, <4>2, <5>2
          <5>4. fs[s].frame[0].buf = fs[b].frame[0].buf  BY <1>1, <3>1, <4>2, <5>3 DEF ContentsOk
          <5> QED  BY <1>2, <4>3, <5>4
        <4> QED  BY <4>5, <4>6
      <3> QED  BY <3>3, <3>4
    <2> QED  BY <1>11, <1>12, <2>1, <2>2, <2>3, <2>4, <2>5 DEF SwapsOk
  <1>15. ContentsOk(a)
    <2>1. /\ \A s, t \in DOMAIN fs : fs[s].frame[0].content = fs[t].frame[0].content
                                        => fs[s].frame[0].buf = fs[t].frame[0].buf
          /\ \A s \in DOMAIN fs : /\ fs[s].frame[0].content <= N
                                  /\ fs[s].frame[0].content = p.last[0].content
                                        => fs[s].frame[0].buf = p.last[0].buf
          /\ p.last[0].content <= N
      BY <1>1 DEF ContentsOk
    <2>2. \A s \in DOMAIN L : s \in DOMAIN fs /\ L[s].frame = fs[s].frame  BY <1>2
    <2> QED  BY <1>11, <2>1, <2>2 DEF ContentsOk
  <1>16. p.last[0].buf = ShownAt(r, Len(r.flying))
    <2>1. Len(r.flying) \in 0..Len(r.flying) /\ Len(r.flying) + n = Len(q.flying)  BY <1>3, <1>6, <1>10
    <2> QED  BY <1>1, <1>10, <2>1
  <1> QED  BY <1>1, <1>9, <1>10, <1>11, <1>13, <1>14, <1>15, <1>16 DEF PresenterOk

LEMMA AppliedReads ==
    ASSUME NEW p, NEW q, NEW o, PresenterOk(p, q, o, gpu), ReadsOk(p, gpu, reads),
           NEW d \in Seq(ReplySet), NEW a, a.flights = Left(p.flights, d),
           NEW t, t = ReadsAfter(p.flights, Got(p.flights, d))
    PROVE  ReadsOk(a, gpu, t) /\ \A v \in Videos : Excess(a, gpu, t, v) = Excess(p, gpu, reads, v)
  <1> DEFINE fs == p.flights
             G == Got(fs, d)
             L == Left(fs, d)
             given(v) == {s \in DOMAIN G : /\ 1 \in G[s].released \ fs[s].released
                                           /\ G[s].frame[1].buf = <<"video", gpu, v>>}
  <1>1. p \in PresenterSet /\ reads \in [Videos -> Int]  BY DEF PresenterOk, ReadsOk
  <1>2. /\ DOMAIN G = DOMAIN fs /\ DOMAIN L \subseteq DOMAIN fs
        /\ \A s \in DOMAIN fs :
              /\ G[s].frame = fs[s].frame
              /\ fs[s].released \subseteq G[s].released
        /\ \A s \in DOMAIN L : /\ L[s].frame = fs[s].frame /\ L[s].released = G[s].released
        /\ \A s \in DOMAIN fs : s \notin DOMAIN L => G[s].released = Planes
    BY <1>1, LeftFacts
  <1>3. t = [v \in Videos |-> reads[v] - Cardinality(given(v))]  BY DEF ReadsAfter
  <1>4. 1 \in Planes  BY DEF Planes
  <1> HIDE DEF G, L
  <1>5. ASSUME NEW v \in Videos PROVE t[v] \in Int /\ Excess(a, gpu, t, v) = Excess(p, gpu, reads, v)
    <2> DEFINE O == Owing(p, gpu, v)
    <2>1. IsFiniteSet(O) /\ Cardinality(O) \in Nat
      <3>1. <<gpu, v>>[1] = gpu /\ <<gpu, v>>[2] = v  OBVIOUS
      <3> QED  BY <3>1, OwingFinite
    <2>2. given(v) \subseteq O
      <3> SUFFICES ASSUME NEW s \in given(v) PROVE s \in O  OBVIOUS
      <3>1. s \in DOMAIN fs /\ 1 \notin fs[s].released /\ fs[s].frame[1].buf = <<"video", gpu, v>>
        BY <1>2
      <3> QED  BY <3>1 DEF Owing
    <2>3. Owing(a, gpu, v) = O \ given(v)
      <3>1. ASSUME NEW s \in Owing(a, gpu, v) PROVE s \in O \ given(v)
        <4>1. s \in DOMAIN L /\ 1 \notin L[s].released /\ L[s].frame[1].buf = <<"video", gpu, v>>
          BY <3>1 DEF Owing, L
        <4>2. s \in DOMAIN fs /\ 1 \notin G[s].released /\ 1 \notin fs[s].released
              /\ fs[s].frame[1].buf = <<"video", gpu, v>>
          BY <1>2, <4>1
        <4> QED  BY <4>2 DEF Owing
      <3>2. ASSUME NEW s \in O, s \notin given(v) PROVE s \in Owing(a, gpu, v)
        <4>1. s \in DOMAIN fs /\ 1 \notin fs[s].released /\ fs[s].frame[1].buf = <<"video", gpu, v>>
          BY DEF Owing
        <4>2. 1 \notin G[s].released  BY <1>2, <3>2, <4>1
        <4>3. s \in DOMAIN L /\ 1 \notin L[s].released /\ L[s].frame[1].buf = <<"video", gpu, v>>
          BY <1>2, <1>4, <4>1, <4>2
        <4> QED  BY <4>3 DEF Owing, L
      <3> QED  BY <3>1, <3>2
    <2> HIDE DEF O, given
    <2>4. given(v) \in SUBSET O /\ O \cap given(v) = given(v)  BY <2>2
    <2>5. IsFiniteSet(given(v)) /\ Cardinality(given(v)) \in Nat  BY <2>1, <2>4, FS_Subset, FS_CardinalityType
    <2>6. Cardinality(O \ given(v)) = Cardinality(O) - Cardinality(given(v))  BY <2>1, <2>4, FS_Difference
    <2>7. t[v] = reads[v] - Cardinality(given(v)) /\ reads[v] \in Int  BY <1>1, <1>3
    <2>8. Cardinality(Owing(a, gpu, v)) = Cardinality(O) - Cardinality(given(v))  BY <2>3, <2>6
    <2>9. Excess(a, gpu, t, v) = reads[v] - Cardinality(O)  BY <2>1, <2>5, <2>7, <2>8 DEF Excess
    <2> QED  BY <2>5, <2>7, <2>9 DEF Excess, O
  <1>6. t \in [Videos -> Int]  BY <1>3, <1>5
  <1> QED  BY <1>5, <1>6 DEF ReadsOk

(* The replies of the socket reach the flights.                             *)
LEMMA AppliedChannel ==
    ASSUME NEW p, NEW q, PresenterOk(p, q, out, gpu), ReadsOk(p, gpu, reads), p.open,
           NEW h, NEW s, NEW u, NEW d, ChannelOk(With(p), h, s, u, d), out \in {h.active, h.waiting},
           NEW a, a.flights = Left(p.flights, d), a.open, a.sent = p.sent,
           NEW b, b.presenter = a, b.out = out, b.gpu = gpu,
           b.reads = ReadsAfter(p.flights, Got(p.flights, d))
    PROVE  ChannelOk(b, h, s, u, <<>>)
  <1> DEFINE c == With(p)
             fs == p.flights
             G == Got(fs, d)
             L == Left(fs, d)
  <1>1. c.presenter = p /\ c.out = out /\ c.gpu = gpu /\ c.reads = reads  BY DEF With
  <1> HIDE DEF c
  <1>2. /\ h \in HostSet /\ SessionType(s) /\ u \in Seq(MessageSet) /\ d \in Seq(ReplySet)
        /\ out \in Nat /\ HostOk(c, h, s) /\ AllHeld(c, h, s, u)
        /\ (Live(c, h) => LiveOk(c, h, s, u, d)) /\ (Awaited(c, h) => AwaitedOk(c, u, d))
    BY <1>1 DEF ChannelOk, c
  <1>3. p \in PresenterSet  BY DEF PresenterOk
  <1>4. /\ DOMAIN G = DOMAIN fs /\ DOMAIN L \subseteq DOMAIN fs
        /\ \A x \in DOMAIN fs :
              /\ fs[x].released \subseteq G[x].released
              /\ \A i \in G[x].released \ fs[x].released :
                    \E r \in Range(d) : r.op = "released" /\ r.seq = x /\ r.plane = i
        /\ \A x \in DOMAIN L : L[x].frame = fs[x].frame /\ L[x].released = G[x].released
        /\ \A x \in DOMAIN fs : x \notin DOMAIN L => G[x].released = Planes
    BY <1>2, <1>3, LeftFacts
  <1>5. \A v \in Videos : Excess(a, gpu, b.reads, v) = Excess(p, gpu, reads, v)
    BY <1>2, AppliedReads
  <1> HIDE DEF G, L
  <1>6. ASSUME NEW seq, NEW i \in Planes, NEW buf, Held(c, seq, i, buf),
               \A r \in Range(d) : ~(r.op = "released" /\ r.seq = seq /\ r.plane = i)
        PROVE  Held(b, seq, i, buf)
    <2>1. ASSUME Linked(p, seq, i, buf) PROVE Linked(a, seq, i, buf)
      <3>1. /\ seq \in DOMAIN fs /\ i \in DOMAIN fs[seq].frame /\ i \notin fs[seq].released
            /\ fs[seq].frame[i].buf = buf
        BY <2>1 DEF Linked
      <3>2. i \notin G[seq].released  BY <1>4, <1>6, <3>1
      <3>3. seq \in DOMAIN L  BY <1>4, <3>1, <3>2
      <3> QED  BY <1>4, <3>1, <3>2, <3>3 DEF Linked, L
    <2>2. i = 1 => buf[3] \in Videos  BY <1>6 DEF Held, Names
    <2>3. i = 0 \/ i = 1  BY DEF Planes
    <2> QED  BY <1>1, <1>5, <1>6, <2>1, <2>2, <2>3 DEF Held
  <1>7. Live(c, h) \/ Awaited(c, h)  BY <1>1 DEF Live, Awaited
  <1>8. Awaited(c, h) => Range(d) = {}  BY <1>2, RangeOfNone DEF AwaitedOk
  <1>9. ASSUME NEW m \in MessageSet, FrameHeld(c, m), \A r \in Range(d) : r.seq # m.seq
        PROVE  FrameHeld(b, m)
    <2>1. m.frame \in FrameSet  BY DEF MessageSet
    <2>2. DOMAIN m.frame \subseteq Planes  BY <2>1, FrameFacts
    <2>3. \A i \in DOMAIN m.frame : Held(c, m.seq, i, m.frame[i].buf)  BY <1>9 DEF FrameHeld
    <2>4. \A i \in DOMAIN m.frame : Held(b, m.seq, i, m.frame[i].buf)  BY <1>6, <1>9, <2>2, <2>3
    <2> QED  BY <2>4 DEF FrameHeld
  <1>10. \A r \in Range(d) : r \in ReplySet /\ r \in Replies(h, d)  BY <1>2 DEF Range, Replies
  <1>11. \A r \in ReplySet : r.seq \in Nat  BY DEF ReplySet
  <1>12. h.sequence \in Nat  BY <1>2 DEF HostSet
  <1>13. ASSUME NEW l \in s.leases PROVE Held(b, l.seq, l.plane, l.buf)
    <2>1. l.plane \in Planes  BY <1>2 DEF SessionType, SessionSet, LeaseSet
    <2>2. Held(c, l.seq, l.plane, l.buf)  BY <1>2 DEF AllHeld
    <2>3. \A r \in Range(d) : ~(r.op = "released" /\ r.seq = l.seq /\ r.plane = l.plane)
      BY <1>2, <1>7, <1>8, <1>10 DEF LiveOk, Same
    <2> QED  BY <1>6, <2>1, <2>2, <2>3
  <1>14. ASSUME NEW k \in 1..Len(u) PROVE FrameHeld(b, u[k])
    <2>1. u[k] \in MessageSet /\ FrameHeld(c, u[k])  BY <1>2 DEF AllHeld
    <2>2. ASSUME NEW r \in Range(d) PROVE r.seq # u[k].seq
      <3>1. Live(c, h)  BY <1>7, <1>8, <2>2
      <3>2. r.seq <= h.sequence /\ u[k].seq = h.sequence + k  BY <1>2, <1>10, <3>1 DEF LiveOk
      <3> QED  BY <1>10, <1>11, <1>12, <3>2
    <2> QED  BY <1>9, <2>1, <2>2
  <1>15. ASSUME h.pending # None PROVE FrameHeld(b, h.pending)
    <2>1. h.pending \in MessageSet /\ FrameHeld(c, h.pending) /\ h.pending.seq = h.sequence
      BY <1>2, <1>15 DEF AllHeld, HostSet, HostOk
    <2>2. ASSUME NEW r \in Range(d) PROVE r.seq # h.pending.seq
      <3>1. Live(c, h)  BY <1>7, <1>8, <2>2
      <3>2. r.seq < h.sequence  BY <1>2, <1>10, <1>15, <3>1 DEF LiveOk
      <3> QED  BY <1>10, <1>11, <1>12, <2>1, <3>2
    <2> QED  BY <1>9, <2>1, <2>2
  <1>16. AllHeld(b, h, s, u)  BY <1>13, <1>14, <1>15 DEF AllHeld
  <1>17. HostOk(b, h, s)  BY <1>1, <1>2 DEF HostOk
  <1>18. (Live(b, h) <=> Live(c, h)) /\ (Awaited(b, h) <=> Awaited(c, h))  BY <1>1 DEF Live, Awaited
  <1>19. <<>> \in Seq(ReplySet) /\ Replies(h, <<>>) \subseteq Replies(h, d)
    BY RangeOfNone DEF Replies
  <1>20. Live(c, h) => LiveOk(b, h, s, u, <<>>)  BY <1>1, <1>2, <1>19 DEF LiveOk
  <1>21. Awaited(c, h) => AwaitedOk(b, u, <<>>)  BY <1>1, <1>2 DEF AwaitedOk
  <1> QED  BY <1>2, <1>16, <1>17, <1>18, <1>19, <1>20, <1>21 DEF ChannelOk

LEMMA PollOk ==
    ASSUME IInv, NEW n \in Nat, Poll(n)
    PROVE  IInv'
  <1> DEFINE flights == presenter.flights
             got == [s \in DOMAIN flights |-> Apply(flights[s], s, down)]
             swapped == Swapped(got)
             marked == [s \in DOMAIN flights |-> [got[s] EXCEPT !.done = s \in swapped]]
  <1>1. /\ presenter.open /\ presenter.sent + n <= presenter.sequence
        /\ \/ Fail("receive")
           \/ Fail("reply")
           \/ /\ up' = Sending(n)
              /\ presenter' = [presenter EXCEPT !.sent = @ + n]
              /\ UNCHANGED <<gpu, out, queue, reads, down, host, session, detaches>>
           \/ /\ ~HostClosed /\ presenter.sent + n = presenter.sequence
              /\ up' = Sending(n)
              /\ down' = <<>>
              /\ presenter' = [presenter EXCEPT
                    !.sent = presenter.sequence,
                    !.flights = RestrictValues(marked, LAMBDA f : ~(f.done /\ f.released = Planes))]
              /\ queue' = SwapAcks(queue, Cardinality({s \in swapped : ~flights[s].done}))
              /\ reads' = ReadsAfter(flights, got)
              /\ UNCHANGED <<gpu, out, host, session, detaches>>
    BY Zenon DEF Poll
  <1>2. CASE Fail("receive") \/ Fail("reply")
    <2>1. "receive" \in Faults /\ "reply" \in Faults  BY DEF Faults
    <2> QED  BY <1>2, <2>1, GoneOk DEF Fail
  <1> DEFINE p == [presenter EXCEPT !.sent = @ + n]
  <1>3. /\ PresenterOk(p, queue, out, gpu) /\ ReadsOk(p, gpu, reads)
        /\ ChannelOk(With(p), host, session, Sending(n), down)
        /\ p.open /\ p.sent = presenter.sent + n /\ p.flights = presenter.flights
        /\ p.sequence = presenter.sequence /\ p.last = presenter.last /\ p.invalid = presenter.invalid
    BY <1>1, SendOk
  <1>4. CASE /\ up' = Sending(n)
             /\ presenter' = [presenter EXCEPT !.sent = @ + n]
             /\ UNCHANGED <<gpu, out, queue, reads, down, host, session, detaches>>
    <2>1. Context' = With(p)  BY <1>4 DEF Context, With
    <2> QED  BY <1>3, <1>4, <2>1 DEF IInv
  <1>5. CASE /\ ~HostClosed /\ presenter.sent + n = presenter.sequence
             /\ up' = Sending(n)
             /\ down' = <<>>
             /\ presenter' = [presenter EXCEPT
                    !.sent = presenter.sequence,
                    !.flights = RestrictValues(marked, LAMBDA f : ~(f.done /\ f.released = Planes))]
             /\ queue' = SwapAcks(queue, Cardinality({s \in swapped : ~flights[s].done}))
             /\ reads' = ReadsAfter(flights, got)
             /\ UNCHANGED <<gpu, out, host, session, detaches>>
    <2> DEFINE L == Left(flights, down)
               G == Got(flights, down)
    <2>1. got = G  BY DEF Got
    <2>2. L = RestrictValues(marked, LAMBDA f : ~(f.done /\ f.released = Planes))
      BY Zenon DEF Left, Marked, Got
    <2>3. presenter' = [presenter EXCEPT !.sent = presenter.sequence, !.flights = L]  BY <1>5, <2>2
    <2>4. /\ queue' = SwapAcks(queue, Cardinality({s \in Swapped(G) : ~flights[s].done}))
          /\ reads' = ReadsAfter(flights, G)
      BY <1>5, <2>1
    <2> HIDE DEF L, G, got, swapped, marked
    <2>5. presenter \in PresenterSet /\ p \in PresenterSet /\ presenter.sequence \in Nat
      BY <1>3 DEF IInv, PresenterOk, PresenterSet
    <2>6. p.sent = p.sequence  BY <1>3, <1>5
    <2>7. presenter' = [p EXCEPT !.flights = L]
      <3>1. p = [presenter EXCEPT !.sent = presenter.sequence]  BY <1>5
      <3>2. DOMAIN presenter = {"open", "invalid", "sequence", "sent", "flights", "last", "fault"}
        BY <2>5 DEF PresenterSet
      <3> HIDE DEF p
      <3> QED  BY <2>3, <2>5, <3>1 DEF PresenterSet
    <2> DEFINE a == presenter'
    <2>8. a.flights = L /\ a.open = p.open /\ a.sent = p.sent
      <3> HIDE DEF p
      <3> QED  BY <2>5, <2>7 DEF PresenterSet
    <2>9. down \in Seq(ReplySet)  BY DEF IInv, ChannelOk
    <2> HIDE DEF p
    <2>10. PresenterOk(a, queue', out, gpu)
      <3>1. a = [p EXCEPT !.flights = Left(p.flights, down)]  BY <1>3, <2>7 DEF L
      <3>2. queue' = SwapAcks(queue, Cardinality({s \in Swapped(Got(p.flights, down)) : ~p.flights[s].done}))
        BY <1>3, <2>4 DEF G
      <3> HIDE DEF a
      <3> QED  BY <1>3, <2>6, <2>9, <3>1, <3>2, AppliedPresenter
    <2>11. a.flights = Left(p.flights, down) /\ reads' = ReadsAfter(p.flights, Got(p.flights, down))
      BY <1>3, <2>4, <2>8 DEF L, G
    <2>12. ReadsOk(a, gpu, reads')
      <3> HIDE DEF a
      <3> QED  BY <1>3, <2>9, <2>11, AppliedReads
    <2>13. ChannelOk(Context', host, session, Sending(n), <<>>)
      <3> DEFINE b == Context'
      <3>1. b.presenter = a /\ b.out = out /\ b.gpu = gpu /\ b.reads = reads'
        BY <1>5 DEF Context
      <3>2. out \in {host.active, host.waiting}  BY <1>5 DEF HostClosed
      <3>3. a.open /\ a.sent = p.sent  BY <1>3, <2>8
      <3> HIDE DEF a, b
      <3>4. b.reads = ReadsAfter(p.flights, Got(p.flights, down))  BY <2>11, <3>1
      <3>5. ChannelOk(b, host, session, Sending(n), <<>>)
        BY <1>3, <2>11, <3>1, <3>2, <3>3, <3>4, AppliedChannel
      <3> QED  BY <3>5 DEF b
    <2> QED  BY <1>5, <2>10, <2>12, <2>13 DEF IInv
  <1> HIDE DEF p
  <1> QED  BY <1>1, <1>2, <1>4, <1>5

-----------------------------------------------------------------------------
LEMMA NextOk ==
    ASSUME IInv, [Next]_vars
    PROVE  IInv'
  <1>1. PresenterOk(presenter, queue, out, gpu) /\ ReadsOk(presenter, gpu, reads)
        /\ ChannelOk(Context, host, session, up, down)
    BY DEF IInv
  <1>2. ASSUME NEW redraw \in BOOLEAN, NEW valid \in BOOLEAN, NEW video \in {"none", "same", "new"},
               Present(redraw, video, valid)
        PROVE  IInv'
    BY <1>2, PresentOk
  <1>3. ASSUME NEW n \in 0..MaxSwaps, Poll(n) PROVE IInv'
    <2>1. n \in Nat  BY ConstantsAssumption
    <2> QED  BY <1>3, <2>1, PollOk
  <1>4. CASE PollInvalid \/ PollTimeout \/ DestroyPresenter \/ GpuDies
    <2>1. "none" \in Faults  BY DEF Faults
    <2>2. /\ Gone("none")
          /\ \/ gpu' = gpu /\ reads' = reads
             \/ gpu' = gpu + 1 /\ reads' = [v \in Videos |-> 0]
      BY <1>4 DEF PollInvalid, PollTimeout, DestroyPresenter, GpuDies, Fail
    <2> QED  BY <2>1, <2>2, GoneOk
  <1>5. CASE Connect  BY <1>5, ConnectOk
  <1>6. ASSUME UNCHANGED <<presenter, queue, out, gpu, reads>>,
               ChannelOk(Context, host, session, up, down)'
        PROVE  IInv'
    BY <1>1, <1>6 DEF IInv
  <1>7. ASSUME NEW full \in BOOLEAN, Tick(full) PROVE IInv'
    <2>1. UNCHANGED <<presenter, queue, out, gpu, reads>>  BY <1>7 DEF Tick
    <2> QED  BY <1>1, <1>6, <1>7, <2>1, TickOk
  <1>8. CASE DetachContent \/ AttachContent
    <2>1. UNCHANGED <<presenter, queue, out, gpu, reads>>  BY <1>8 DEF DetachContent, AttachContent
    <2> QED  BY <1>1, <1>6, <1>8, <2>1, ContentOk
  <1>9. CASE RsApply \/ RsComplete \/ RsReturn
    <2>1. UNCHANGED <<presenter, queue, out, gpu, reads>>
      BY <1>9 DEF RsApply, RsComplete, RsReturn, Serve
    <2> QED  BY <1>1, <1>6, <1>9, <2>1, ServeOk
  <1>10. CASE UNCHANGED vars
    <2>1. UNCHANGED <<presenter, queue, out, gpu, reads, host, session, up, down>>
      BY <1>10 DEF vars
    <2>2. Context' = Context  BY <2>1 DEF Context
    <2> QED  BY <1>1, <2>1, <2>2 DEF IInv
  <1> QED  BY <1>2, <1>3, <1>4, <1>5, <1>7, <1>8, <1>9, <1>10 DEF Next

(* Whatever frames are shown again, sent, lost or cleaned up, whichever     *)
(* process dies and however many outputs follow one another: neither        *)
(* BufferQueue nor the video uploader draws into a buffer that the render   *)
(* service reads, or will read when a frame on its way arrives.             *)
THEOREM NoOverwriteTheorem == Spec => []NoOverwrite
  <1>1. Init => IInv  BY InitOk
  <1>2. IInv /\ [Next]_vars => IInv'  BY NextOk
  <1>3. IInv => NoOverwrite  BY IInvNoOverwrite
  <1> QED  BY <1>1, <1>2, <1>3, PTL DEF Spec
=============================================================================
