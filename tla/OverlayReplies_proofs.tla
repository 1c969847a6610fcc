----------------------- MODULE OverlayReplies_proofs -----------------------
(***************************************************************************)
(* That no reply surprises the presenter of an overlay, that the host      *)
(* neither refuses a frame nor gives up the socket of a presenter that     *)
(* lives, and that presenter, host and render service never all wait for   *)
(* each other: for every number of buffers, frames, outputs and losses.    *)
(***************************************************************************)
EXTENDS OverlayChannel_proofs

-----------------------------------------------------------------------------
(* What a flight was told, by the replies in R too                          *)

Acc(f, R, seq) == f.accepted \/ \E r \in R : r.op = "accepted" /\ r.seq = seq
Pro(f, R, seq) == f.processed \/ \E r \in R : r.op = "processed" /\ r.seq = seq
Rel(f, R, seq, i) == i \in f.released \/ \E r \in R : r.op = "released" /\ r.seq = seq /\ r.plane = i

Expects(f, R, r) ==
    /\ r.op # "rejected"
    /\ r.op = "accepted" => ~Acc(f, R, r.seq)
    /\ r.op = "processed" => Acc(f, R, r.seq) /\ ~Pro(f, R, r.seq)
    /\ r.op = "released" => Acc(f, R, r.seq) /\ ~Rel(f, R, r.seq, r.plane)

(* Every reply of q is expected after R and those before it.                *)
Prefix(q, k) == {q[j] : j \in 1..k}
Orderly(fs, R, q) ==
    \A n \in 1..Len(q) :
        q[n].seq \in DOMAIN fs /\ Expects(fs[q[n].seq], R \cup Prefix(q, n - 1), q[n])

(* What the host still owes is expected after the replies under way.        *)
Awaits(fs, R, l) ==
    l.seq \in DOMAIN fs /\ Acc(fs[l.seq], R, l.seq) /\ ~Rel(fs[l.seq], R, l.seq, l.plane)
Owed(fs, h, s, R) ==
    /\ \A l \in s.leases \cup s.redundant : Awaits(fs, R, l)
    /\ ~h.processed => /\ h.sequence \in DOMAIN fs
                       /\ Acc(fs[h.sequence], R, h.sequence) /\ ~Pro(fs[h.sequence], R, h.sequence)

-----------------------------------------------------------------------------
(* Frames on their way *)

NoPlanes == [i \in Planes |-> NoPlane]

(* The frames that the host has not accepted begin after this one.          *)
Taken(h) == IF h.pending = None THEN h.sequence ELSE h.sequence - 1

FreshFrames(p, n) ==
    \A s \in (n + 1)..p.sequence :
        /\ s \in DOMAIN p.flights
        /\ ~p.flights[s].accepted /\ ~p.flights[s].processed
        /\ p.flights[s].released = Planes \ DOMAIN p.flights[s].frame

(* Planes shown again show what the frame before shows; before the first of *)
(* them that is base.                                                       *)
Before(p, n, base, s) == IF s = n + 1 THEN base ELSE Contents(p.flights[s - 1].frame)
Chained(p, n, base) ==
    /\ \A s \in (n + 1)..p.sequence : \A i \in DOMAIN p.flights[s].frame :
          p.flights[s].frame[i].reuse =>
              Before(p, n, base, s)[i] = Contents(p.flights[s].frame)[i]
    /\ p.last = Before(p, n, base, p.sequence + 1)

Sent(p, u) == \A k \in 1..Len(u) : u[k].frame = p.flights[u[k].seq].frame

-----------------------------------------------------------------------------
(* The session of a host that is not closing *)

Coming(s, i) ==
    s.commands # <<>> /\ Head(s.commands).op = "frame" /\ i \in Head(s.commands).planes

(* What the session shows has a lease, which is on screen once the          *)
(* transaction was applied.                                                 *)
Leased(s, i) ==
    \E l \in s.leases : /\ l.buf = s.current[i] /\ l.plane = i
                        /\ l.rs = IF Coming(s, i) THEN "staged" ELSE "shown"

(* At most one transaction is under way, and none that takes the layers.    *)
OneCommand(s) ==
    \/ s.commands = <<>>
    \/ /\ ~s.acked
       /\ \E c \in CommandSet : /\ s.commands = <<c>> /\ c.op # "drain"
                                /\ c.op = "clean" => s.cleanup # 0

Showing(s) ==
    /\ s.visible <=> s.current[1] # None
    /\ s.cleanup # 0 => s.current[1] = None
    /\ \A i \in Planes : s.current[i] # None => Leased(s, i)

SessionRuns(h, s) ==
    /\ s.state = "running"
    /\ OneCommand(s) /\ Showing(s)
    /\ s.acked \/ s.startup \/ s.cleanup # 0 \/ ~h.processed
    /\ \A i \in Planes : s.current[i] = h.current[i].buf

(* What the host may still have to say fits into its queue of replies.      *)
Limit == 2 * MaxAllocations + 4
Debt(h, s) ==
    Len(h.outgoing) + Cardinality(s.leases) + Cardinality(s.redundant) + (IF h.processed THEN 0 ELSE 1)
OnPlane(s, i) == {l \in s.leases : l.plane = i}
Bounded(h, s) ==
    /\ \A i \in Planes : Cardinality(OnPlane(s, i)) <= MaxAllocations
    /\ Debt(h, s) <= Limit

-----------------------------------------------------------------------------
(* The invariant *)

HostRuns(h, s) ==
    /\ h.active = 0 => h.current = NoPlanes /\ (h.closing \/ h.processed)
    /\ ~h.closing => SessionRuns(h, s) /\ Bounded(h, s)

LiveRuns(c, h, s, u, d) ==
    LET p == c.presenter
    IN /\ Orderly(p.flights, {}, d) /\ Orderly(p.flights, Range(d), h.outgoing)
       /\ Owed(p.flights, h, s, Replies(h, d))
       /\ FreshFrames(p, Taken(h)) /\ Chained(p, Taken(h), h.current)
       /\ Sent(p, u)
       /\ h.pending # None => /\ h.sequence > 0
                              /\ h.pending.frame = p.flights[h.sequence].frame

AwaitedRuns(c, u) ==
    FreshFrames(c.presenter, 0) /\ Chained(c.presenter, 0, NoPlanes) /\ Sent(c.presenter, u)

ChannelRuns(c, h, s, u, d) ==
    /\ HostRuns(h, s)
    /\ Live(c, h) => LiveRuns(c, h, s, u, d)
    /\ Awaited(c, h) => AwaitedRuns(c, u)

(* The host gives up a presenter that lives only when it was detached.      *)
Connected(c, h, n) ==
    /\ c.presenter.open => c.out \in {h.active, h.waiting} \/ n > 0
    /\ h.detached \/ h.stopped \/ ~h.exists => n > 0

FlightsTold(p) ==
    \A s \in DOMAIN p.flights : /\ p.flights[s].done => p.flights[s].processed
                                /\ p.flights[s].processed => p.flights[s].accepted

Runs(c, h, s, u, d, n) == n \in Nat /\ ChannelRuns(c, h, s, u, d) /\ Connected(c, h, n)

RInv ==
    /\ Runs(Context, host, session, up, down, detaches)
    /\ FlightsTold(presenter)
    /\ RepliesExpected

-----------------------------------------------------------------------------
(* Sessions that run *)

(* A session that runs, without what is given back.                         *)
Emptied(s) == [s EXCEPT !.redundant = {}, !.startup = @ /\ ~s.acked, !.leases = @ \ Returned(s)]

LEMMA PollOfRunning ==
    ASSUME NEW s, SessionType(s), s.state = "running"
    PROVE  /\ PollSession(s) = VideoCleanup(Emptied(s)) /\ Emptied(s) \in SessionSet
           /\ Emptied(s).leases = s.leases \ Returned(s) /\ Emptied(s).redundant = {}
           /\ Emptied(s).state = "running" /\ Emptied(s).current = s.current
           /\ Emptied(s).commands = s.commands /\ Emptied(s).acked = s.acked
           /\ Emptied(s).cleanup = s.cleanup /\ Emptied(s).visible = s.visible
           /\ Emptied(s).startup <=> s.startup /\ ~s.acked
  <1> DEFINE t == [s EXCEPT !.redundant = {}]
             u == [t EXCEPT !.startup = @ /\ ~t.acked, !.leases = @ \ Returned(t)]
             v == VideoCleanup(u)
             w == BeginDrain(v)
  <1>1. s \in SessionSet  BY DEF SessionType
  <1>2. t \in SessionSet /\ t.leases = s.leases /\ t.acked = s.acked  BY <1>1 DEF SessionSet
  <1>3. Returned(t) = Returned(s)  BY <1>2 DEF Returned
  <1>4. u = Emptied(s)  BY <1>1, <1>2, <1>3 DEF Emptied, SessionSet
  <1>5. /\ Emptied(s) \in SessionSet
        /\ Emptied(s).leases = s.leases \ Returned(s) /\ Emptied(s).redundant = {}
        /\ Emptied(s).state = "running" /\ Emptied(s).current = s.current
        /\ Emptied(s).commands = s.commands /\ Emptied(s).acked = s.acked
        /\ Emptied(s).cleanup = s.cleanup /\ Emptied(s).visible = s.visible
        /\ Emptied(s).startup <=> s.startup /\ ~s.acked
    BY <1>1 DEF SessionSet, Emptied
  <1>6. PollSession(s) = FinishDrain(w)
    <2>1. PollSession(s) = IF s.state = "closed" THEN t ELSE FinishDrain(w)
      BY Zenon DEF PollSession, PollReleases
    <2> QED  BY <2>1
  <1> HIDE DEF u
  <1>7. v.state = "running"
    <2> DEFINE a == ConfirmedFlush(u, [op |-> "clean"])
               b == ConfirmedFlush(u, [op |-> "layer"])
    <2>1. SessionType(u)
      <3>1. PollSession(s) = PollSession(s)  OBVIOUS
      <3>2. IsFiniteSet(s.leases \ Returned(s))  BY FS_Difference DEF SessionType
      <3> QED  BY <1>4, <1>5, <3>2, FS_EmptySet DEF SessionType
    <2>2. [op |-> "clean"] \in CommandSet /\ [op |-> "layer"] \in CommandSet  BY DEF CommandSet
    <2>3. SessionType(a) /\ a.state = u.state /\ SessionType(b) /\ b.state = u.state
      BY <2>1, <2>2, FlushKeeps
    <2>4. v \in {u, [a EXCEPT !.cleanup = 2], [b EXCEPT !.cleanup = 3], [u EXCEPT !.cleanup = 0]}
      BY Zenon DEF VideoCleanup
    <2> HIDE DEF a, b, v
    <2> QED  BY <1>4, <1>5, <2>1, <2>3, <2>4 DEF SessionType, SessionSet
  <1> HIDE DEF v
  <1>8. w = v  BY <1>7 DEF BeginDrain
  <1>9. FinishDrain(w) = v  BY <1>7, <1>8 DEF FinishDrain
  <1> QED  BY <1>4, <1>5, <1>6, <1>9 DEF v

LEMMA PollRuns ==
    ASSUME NEW h, NEW s, SessionType(s), SessionRuns(h, s)
    PROVE  SessionRuns(h, PollSession(s))
  <1> DEFINE u == Emptied(s)
             v == PollSession(s)
  <1>1. s \in SessionSet /\ s.state = "running"  BY DEF SessionType, SessionRuns
  <1>2. /\ v = VideoCleanup(u) /\ u \in SessionSet /\ u.leases = s.leases \ Returned(s)
        /\ u.state = "running" /\ u.current = s.current /\ u.commands = s.commands
        /\ u.acked = s.acked /\ u.cleanup = s.cleanup /\ u.visible = s.visible
        /\ u.startup <=> s.startup /\ ~s.acked
    BY <1>1, PollOfRunning
  <1> HIDE DEF u
  <1>3. Showing(u)
    <2>1. \A i \in Planes : Coming(u, i) <=> Coming(s, i)  BY <1>2 DEF Coming
    <2>2. \A l \in s.leases : l.rs \in {"staged", "shown"} => l \in u.leases
      BY <1>2 DEF Returned
    <2>3. ASSUME NEW i \in Planes, Leased(s, i) PROVE Leased(u, i)
      BY <1>2, <2>1, <2>2, <2>3 DEF Leased
    <2> QED  BY <1>2, <2>3 DEF Showing, SessionRuns
  <1>4. OneCommand(u)  BY <1>2 DEF OneCommand, SessionRuns
  <1>5. SessionRuns(h, u)  BY <1>2, <1>3, <1>4 DEF SessionRuns
  <1> HIDE DEF v
  <1>6. CASE ~u.acked
    <2>1. u.state = "draining" \/ ~u.acked  BY <1>6
    <2>2. v = u  BY <1>2, <2>1, Zenon DEF VideoCleanup
    <2> QED  BY <1>5, <2>2 DEF v
  <1>7. CASE u.acked /\ u.cleanup \notin {1, 2, 3}
    <2>1. v = u  BY <1>2, <1>7 DEF VideoCleanup
    <2> QED  BY <1>5, <2>1 DEF v
  <1>8. CASE u.acked /\ u.cleanup = 2 /\ ~\A l \in u.leases : l.plane = 0
    <2>1. v = u  BY <1>2, <1>8 DEF VideoCleanup
    <2> QED  BY <1>5, <2>1 DEF v
  <1>9. CASE u.acked /\ u.cleanup = 3
    <2>1. v = [u EXCEPT !.cleanup = 0]  BY <1>2, <1>9 DEF VideoCleanup
    <2>2. /\ v.leases = u.leases /\ v.state = u.state /\ v.current = u.current
          /\ v.commands = u.commands /\ v.acked = u.acked /\ v.visible = u.visible /\ v.cleanup = 0
      BY <1>2, <2>1 DEF SessionSet
    <2>3. OneCommand(v)  BY <1>4, <1>9, <2>2 DEF OneCommand
    <2>4. \A i \in Planes : Leased(u, i) => Leased(v, i)  BY <2>2 DEF Leased, Coming
    <2> QED  BY <1>5, <1>9, <2>2, <2>3, <2>4 DEF SessionRuns, Showing, v
  <1>10. ASSUME NEW c \in {[op |-> "clean"], [op |-> "layer"]}, NEW n \in {2, 3}, u.acked, u.cleanup # 0,
                v = [ConfirmedFlush(u, c) EXCEPT !.cleanup = n]
         PROVE  SessionRuns(h, v)
    <2>1. u.commands = <<>>  BY <1>4, <1>10 DEF OneCommand
    <2>2. c \in CommandSet /\ c.op # "drain" /\ c.op # "frame"  BY DEF CommandSet
    <2>3. /\ v.leases = u.leases /\ v.state = u.state /\ v.current = u.current
          /\ v.commands = Append(u.commands, c) /\ v.acked = FALSE /\ v.visible = u.visible /\ v.cleanup = n
      BY <1>2, <1>10 DEF SessionSet, ConfirmedFlush
    <2>4. v.commands = <<c>> /\ v.commands # <<>> /\ Head(v.commands) = c  BY <2>1, <2>3
    <2>5. OneCommand(v)  BY <2>2, <2>3, <2>4 DEF OneCommand
    <2>6. \A i \in Planes : ~Coming(v, i) /\ ~Coming(u, i)  BY <2>1, <2>2, <2>4 DEF Coming
    <2>7. \A i \in Planes : Leased(u, i) => Leased(v, i)  BY <2>3, <2>6 DEF Leased
    <2> QED  BY <1>5, <1>10, <2>3, <2>5, <2>7 DEF SessionRuns, Showing
  <1>11. CASE u.acked /\ u.cleanup = 1
    <2>1. v = [ConfirmedFlush(u, [op |-> "clean"]) EXCEPT !.cleanup = 2]
      BY <1>2, <1>11 DEF VideoCleanup
    <2> QED  BY <1>10, <1>11, <2>1 DEF v
  <1>12. CASE u.acked /\ u.cleanup = 2 /\ \A l \in u.leases : l.plane = 0
    <2>1. v = [ConfirmedFlush(u, [op |-> "layer"]) EXCEPT !.cleanup = 3]
      BY <1>2, <1>12 DEF VideoCleanup
    <2> QED  BY <1>10, <1>12, <2>1 DEF v
  <1> QED  BY <1>6, <1>7, <1>8, <1>9, <1>11, <1>12
-----------------------------------------------------------------------------
(* The render service moves leases; it makes none.                          *)

LEMMA ImageCount ==
    ASSUME NEW S, IsFiniteSet(S), NEW T, NEW f \in [S -> T], \A t \in T : \E x \in S : f[x] = t
    PROVE  Cardinality(T) <= Cardinality(S) /\ Cardinality(T) \in Nat /\ Cardinality(S) \in Nat
  <1>1. f \in Surjection(S, T)  BY DEF Surjection
  <1> QED  BY <1>1, FS_Surjection, FS_CardinalityType

LEMMA OnPlaneFinite ==
    ASSUME NEW s, SessionType(s), NEW i
    PROVE  /\ IsFiniteSet(OnPlane(s, i)) /\ Cardinality(OnPlane(s, i)) \in Nat
           /\ IsFiniteSet(s.leases) /\ Cardinality(s.leases) \in Nat
           /\ IsFiniteSet(s.redundant) /\ Cardinality(s.redundant) \in Nat
  <1>1. OnPlane(s, i) \in SUBSET s.leases  BY DEF OnPlane
  <1>2. IsFiniteSet(s.leases) /\ IsFiniteSet(s.redundant)  BY DEF SessionType
  <1> QED  BY <1>1, <1>2, FS_Subset, FS_CardinalityType

Fewer(s, t) ==
    /\ SessionType(t)
    /\ Cardinality(t.redundant) <= Cardinality(s.redundant)
    /\ Cardinality(t.leases) <= Cardinality(s.leases)
    /\ \A i \in Planes : Cardinality(OnPlane(t, i)) <= Cardinality(OnPlane(s, i))

LEMMA FewerTwice ==
    ASSUME NEW s, SessionType(s), NEW t, NEW u, Fewer(s, t), Fewer(t, u)
    PROVE  Fewer(s, u)
  <1>1. SessionType(t) /\ SessionType(u)  BY DEF Fewer
  <1>2. /\ Cardinality(s.leases) \in Nat /\ Cardinality(s.redundant) \in Nat
        /\ Cardinality(t.leases) \in Nat /\ Cardinality(t.redundant) \in Nat
        /\ Cardinality(u.leases) \in Nat /\ Cardinality(u.redundant) \in Nat
        /\ \A i : Cardinality(OnPlane(s, i)) \in Nat
        /\ \A i : Cardinality(OnPlane(t, i)) \in Nat
        /\ \A i : Cardinality(OnPlane(u, i)) \in Nat
    BY <1>1, OnPlaneFinite
  <1>3. \A i \in Planes : /\ Cardinality(OnPlane(t, i)) <= Cardinality(OnPlane(s, i))
                          /\ Cardinality(OnPlane(u, i)) <= Cardinality(OnPlane(t, i))
    BY DEF Fewer
  <1>4. \A i \in Planes : Cardinality(OnPlane(u, i)) <= Cardinality(OnPlane(s, i))
    BY <1>2, <1>3
  <1>5. /\ Cardinality(u.redundant) <= Cardinality(s.redundant)
        /\ Cardinality(u.leases) <= Cardinality(s.leases)
    BY <1>2 DEF Fewer
  <1> QED  BY <1>1, <1>4, <1>5 DEF Fewer

LEMMA FewerBounded ==
    ASSUME NEW h \in HostSet, NEW s, SessionType(s), Bounded(h, s), NEW t, Fewer(s, t)
    PROVE  Bounded(h, t)
  <1>1. SessionType(t)  BY DEF Fewer
  <1>2. /\ Cardinality(s.leases) \in Nat /\ Cardinality(s.redundant) \in Nat
        /\ Cardinality(t.leases) \in Nat /\ Cardinality(t.redundant) \in Nat
        /\ \A i : Cardinality(OnPlane(s, i)) \in Nat
        /\ \A i : Cardinality(OnPlane(t, i)) \in Nat
    BY <1>1, OnPlaneFinite
  <1>3. Len(h.outgoing) \in Nat  BY DEF HostSet
  <1>4. MaxAllocations \in Nat /\ Limit \in Nat  BY AllocationsAssumption DEF Limit
  <1>5. \A i \in Planes : /\ Cardinality(OnPlane(t, i)) <= Cardinality(OnPlane(s, i))
                          /\ Cardinality(OnPlane(s, i)) <= MaxAllocations
    BY DEF Fewer, Bounded
  <1>6. \A i \in Planes : Cardinality(OnPlane(t, i)) <= MaxAllocations  BY <1>2, <1>4, <1>5
  <1>7. /\ Cardinality(t.redundant) <= Cardinality(s.redundant)
        /\ Cardinality(t.leases) <= Cardinality(s.leases)
    BY DEF Fewer
  <1>8. Debt(h, s) <= Limit  BY DEF Bounded
  <1>9. Debt(h, t) <= Limit  BY <1>2, <1>3, <1>4, <1>7, <1>8 DEF Debt
  <1> QED  BY <1>6, <1>9 DEF Bounded

Moved(s, ls, to, t) ==
    /\ Fewer(s, t)
    /\ t.state = s.state /\ t.current = s.current /\ t.commands = s.commands
    /\ t.acked = s.acked /\ t.cleanup = s.cleanup /\ t.visible = s.visible
    /\ t.startup = s.startup /\ t.redundant = s.redundant
    /\ s.leases \ ls \subseteq t.leases
    /\ \A l \in ls : \E m \in t.leases : m.buf = l.buf /\ m.plane = l.plane /\ m.rs = to

LEMMA MoveFacts ==
    ASSUME NEW s, SessionType(s), NEW ls \in SUBSET s.leases, NEW to \in Wheres
    PROVE  Moved(s, ls, to, Move(s, ls, to))
  <1> DEFINE t == Move(s, ls, to)
             moved == {[l EXCEPT !.rs = to] : l \in ls}
             left == s.leases \ ls
             f == [l \in s.leases |-> IF l \in ls THEN [l EXCEPT !.rs = to] ELSE l]
  <1>1. s \in SessionSet  BY DEF SessionType
  <1>2. s.leases \subseteq LeaseSet  BY <1>1 DEF SessionSet
  <1>3. \A l \in ls : /\ [l EXCEPT !.rs = to].rs = to
                      /\ [l EXCEPT !.rs = to].plane = l.plane
                      /\ [l EXCEPT !.rs = to].buf = l.buf
    BY <1>2 DEF LeaseSet
  <1>4. /\ t.leases = left \cup moved
        /\ t.state = s.state /\ t.current = s.current /\ t.commands = s.commands
        /\ t.acked = s.acked /\ t.cleanup = s.cleanup /\ t.visible = s.visible
        /\ t.startup = s.startup /\ t.redundant = s.redundant
    BY <1>1 DEF Move, SessionSet
  <1>5. \A l \in s.leases : f[l] \in t.leases /\ f[l].plane = l.plane  BY <1>3, <1>4
  <1>6. \A m \in t.leases : \E l \in s.leases : f[l] = m
    <2>1. \A m \in left : m \in s.leases /\ f[m] = m  OBVIOUS
    <2>2. \A l \in ls : f[l] = [l EXCEPT !.rs = to]  OBVIOUS
    <2>3. \A m \in moved : \E l \in ls : f[l] = m  BY <2>2
    <2> QED  BY <1>4, <2>1, <2>3
  <1>7. SessionType(t)  BY MoveKeeps
  <1> HIDE DEF f
  <1>8. IsFiniteSet(s.leases) /\ Cardinality(s.leases) \in Nat  BY OnPlaneFinite
  <1>9. DOMAIN f = s.leases /\ f = [l \in s.leases |-> f[l]]  BY DEF f
  <1>10. Cardinality(t.leases) <= Cardinality(s.leases)
    <2>1. f \in [s.leases -> t.leases]  BY <1>5, <1>9
    <2> QED  BY <1>6, <1>8, <2>1, ImageCount
  <1>11. ASSUME NEW i \in Planes PROVE Cardinality(OnPlane(t, i)) <= Cardinality(OnPlane(s, i))
    <2> DEFINE S == OnPlane(s, i)
               T == OnPlane(t, i)
               g == [l \in S |-> f[l]]
    <2>1. S \subseteq s.leases /\ T \subseteq t.leases  BY DEF OnPlane
    <2>2. g \in [S -> T]  BY <1>5 DEF OnPlane
    <2>3. \A m \in T : \E l \in S : g[l] = m
      <3> SUFFICES ASSUME NEW m \in T PROVE \E l \in S : f[l] = m  OBVIOUS
      <3>1. PICK l \in s.leases : f[l] = m  BY <1>6, <2>1
      <3>2. l \in S  BY <1>5, <3>1 DEF OnPlane
      <3> QED  BY <3>1, <3>2
    <2>4. IsFiniteSet(S)  BY OnPlaneFinite
    <2> HIDE DEF S, T, g
    <2>5. Cardinality(T) <= Cardinality(S)  BY <2>2, <2>3, <2>4, ImageCount
    <2> QED  BY <2>5 DEF S, T
  <1>12. Cardinality(t.redundant) <= Cardinality(s.redundant)
    <2>1. Cardinality(s.redundant) \in Nat  BY OnPlaneFinite
    <2> QED  BY <1>4, <2>1
  <1>13. Fewer(s, t)  BY <1>7, <1>10, <1>11, <1>12 DEF Fewer
  <1>14. \A l \in ls : \E m \in t.leases : m.buf = l.buf /\ m.plane = l.plane /\ m.rs = to
    <2>1. \A l \in ls : [l EXCEPT !.rs = to] \in t.leases  BY <1>4
    <2> QED  BY <1>3, <2>1
  <1> HIDE DEF moved, t
  <1>15. Moved(s, ls, to, t)  BY <1>4, <1>13, <1>14 DEF Moved
  <1> QED  BY <1>15 DEF t

LEMMA ReturnRuns ==
    ASSUME NEW h, NEW s, SessionType(s), NEW l \in Returnable(s), NEW t, t = Move(s, {l}, "returned")
    PROVE  Fewer(s, t) /\ (SessionRuns(h, s) => SessionRuns(h, t))
  <1>1. l \in s.leases /\ l.rs \in {"cleaned", "replaced"}  BY DEF Returnable, On
  <1>2. {l} \in SUBSET s.leases /\ "returned" \in Wheres  BY <1>1 DEF Wheres
  <1>3. /\ Fewer(s, t)
        /\ t.state = s.state /\ t.current = s.current /\ t.commands = s.commands
        /\ t.acked = s.acked /\ t.cleanup = s.cleanup /\ t.visible = s.visible
        /\ t.startup = s.startup
        /\ s.leases \ {l} \subseteq t.leases
    <2>1. Moved(s, {l}, "returned", t)  BY <1>2, MoveFacts
    <2> QED  BY <2>1 DEF Moved
  <1>4. \A i \in Planes : Coming(t, i) <=> Coming(s, i)  BY <1>3 DEF Coming
  <1>5. \A m \in s.leases : m.rs \in {"staged", "shown"} => m \in t.leases  BY <1>1, <1>3
  <1>6. \A i \in Planes : Leased(s, i) => Leased(t, i)  BY <1>3, <1>4, <1>5 DEF Leased
  <1>7. OneCommand(s) => OneCommand(t)  BY <1>3 DEF OneCommand
  <1> QED  BY <1>3, <1>6, <1>7 DEF SessionRuns, Showing

LEMMA CompleteRuns ==
    ASSUME NEW h, NEW s, SessionType(s), s.commands = <<>>, NEW t, t = [s EXCEPT !.acked = TRUE]
    PROVE  Fewer(s, t) /\ (SessionRuns(h, s) => SessionRuns(h, t))
  <1>1. s \in SessionSet /\ IsFiniteSet(s.leases) /\ IsFiniteSet(s.redundant)  BY DEF SessionType
  <1>2. /\ t \in SessionSet /\ t.state = s.state /\ t.current = s.current /\ t.commands = s.commands
        /\ t.acked /\ t.cleanup = s.cleanup /\ t.visible = s.visible
        /\ t.startup = s.startup /\ t.leases = s.leases /\ t.redundant = s.redundant
    BY <1>1 DEF SessionSet
  <1>3. \A i \in Planes : Leased(s, i) => Leased(t, i)  BY <1>2 DEF Leased, Coming
  <1>4. OneCommand(t)  BY <1>2 DEF OneCommand
  <1>5. Fewer(s, t)
    <2>1. \A i : OnPlane(t, i) = OnPlane(s, i)  BY <1>2 DEF OnPlane
    <2>2. /\ Cardinality(s.leases) \in Nat /\ Cardinality(s.redundant) \in Nat
          /\ \A i : Cardinality(OnPlane(s, i)) \in Nat
      BY OnPlaneFinite
    <2>3. SessionType(t)  BY <1>1, <1>2 DEF SessionType
    <2>4. \A i : Cardinality(OnPlane(t, i)) <= Cardinality(OnPlane(s, i))
      <3> SUFFICES ASSUME NEW i PROVE Cardinality(OnPlane(t, i)) <= Cardinality(OnPlane(s, i))  OBVIOUS
      <3>1. Cardinality(OnPlane(t, i)) = Cardinality(OnPlane(s, i))  BY <2>1
      <3>2. Cardinality(OnPlane(s, i)) \in Nat  BY <2>2
      <3> HIDE <2>1
      <3> QED  BY <3>1, <3>2
    <2>5. Cardinality(t.leases) = Cardinality(s.leases) /\ Cardinality(t.redundant) = Cardinality(s.redundant)
      BY <1>2
    <2>6. Cardinality(t.leases) <= Cardinality(s.leases) /\ Cardinality(t.redundant) <= Cardinality(s.redundant)
      BY <2>2, <2>5
    <2> QED  BY <2>3, <2>4, <2>6 DEF Fewer
  <1> QED  BY <1>2, <1>3, <1>4, <1>5 DEF SessionRuns, Showing

LEMMA AppliedRuns ==
    ASSUME NEW h, NEW s, SessionType(s), SessionRuns(h, s), s.commands # <<>>
    PROVE  Fewer(s, RsApplied(s)) /\ SessionRuns(h, RsApplied(s))
  <1> DEFINE c == Head(s.commands)
             t == [s EXCEPT !.commands = Tail(@)]
             r == RsApplied(s)
  <1>1. s \in SessionSet /\ IsFiniteSet(s.leases) /\ IsFiniteSet(s.redundant)  BY DEF SessionType
  <1>2. PICK b \in CommandSet : /\ s.commands = <<b>> /\ b.op # "drain"
                                /\ b.op = "clean" => s.cleanup # 0
    BY DEF SessionRuns, OneCommand
  <1>3. c = b /\ Tail(s.commands) = <<>>  BY <1>2
  <1>4. /\ t \in SessionSet /\ t.state = s.state /\ t.current = s.current /\ t.commands = <<>>
        /\ t.acked = s.acked /\ t.cleanup = s.cleanup /\ t.visible = s.visible
        /\ t.startup = s.startup /\ t.leases = s.leases /\ t.redundant = s.redundant
    BY <1>1, <1>3, EmptySeq DEF SessionSet
  <1>5. SessionType(t)  BY <1>1, <1>4 DEF SessionType
  <1> HIDE DEF t
  <1>6. Fewer(s, t)
    <2>1. \A i : OnPlane(t, i) = OnPlane(s, i)  BY <1>4 DEF OnPlane
    <2>2. /\ Cardinality(s.leases) \in Nat /\ Cardinality(s.redundant) \in Nat
          /\ \A i : Cardinality(OnPlane(s, i)) \in Nat
      BY OnPlaneFinite
    <2>3. \A i : Cardinality(OnPlane(t, i)) <= Cardinality(OnPlane(s, i))
      <3> SUFFICES ASSUME NEW i PROVE Cardinality(OnPlane(t, i)) <= Cardinality(OnPlane(s, i))  OBVIOUS
      <3>1. Cardinality(OnPlane(t, i)) = Cardinality(OnPlane(s, i))  BY <2>1
      <3>2. Cardinality(OnPlane(s, i)) \in Nat  BY <2>2
      <3> HIDE <2>1
      <3> QED  BY <3>1, <3>2
    <2> QED  BY <1>4, <1>5, <2>2, <2>3 DEF Fewer
  (* What remains, once the leases are known to be on screen.               *)
  <1>7. ASSUME NEW v, Fewer(s, v), v.state = s.state, v.current = s.current, v.commands = <<>>,
               v.acked = s.acked, v.cleanup = s.cleanup, v.visible = s.visible, v.startup = s.startup,
               \A i \in Planes : s.current[i] # None =>
                  \E l \in v.leases : l.buf = s.current[i] /\ l.plane = i /\ l.rs = "shown"
        PROVE  SessionRuns(h, v)
    <2>1. \A i \in Planes : ~Coming(v, i)  BY <1>7 DEF Coming
    <2>2. \A i \in Planes : v.current[i] # None => Leased(v, i)  BY <1>7, <2>1 DEF Leased
    <2>3. OneCommand(v)  BY <1>7 DEF OneCommand
    <2> QED  BY <1>7, <2>2, <2>3 DEF SessionRuns, Showing
  <1>8. \A i \in Planes : Coming(s, i) <=> b.op = "frame" /\ i \in b.planes  BY <1>2, <1>3 DEF Coming
  <1>9. \A i \in Planes : s.current[i] # None =>
           \E l \in s.leases : l.buf = s.current[i] /\ l.plane = i
                               /\ l.rs = IF b.op = "frame" /\ i \in b.planes THEN "staged" ELSE "shown"
    BY <1>8 DEF SessionRuns, Showing, Leased
  <1>10. CASE b.op = "frame"
    <2> DEFINE shown == On(s, b.planes, "shown")
               staged == On(s, b.planes, "staged")
               m == Move(t, shown, "replaced")
               n == Move(m, staged, "shown")
    <2>1. r = n  BY <1>3, <1>10 DEF RsApplied, t
    <2>2. /\ shown \in SUBSET s.leases /\ staged \in SUBSET (s.leases \ shown)
          /\ "replaced" \in Wheres /\ "shown" \in Wheres
      BY DEF On, Wheres
    <2>3. shown \in SUBSET t.leases  BY <1>4, <2>2
    <2> HIDE DEF shown, staged, m
    <2>4. /\ Fewer(t, m)
          /\ m.state = t.state /\ m.current = t.current /\ m.commands = t.commands
          /\ m.acked = t.acked /\ m.cleanup = t.cleanup /\ m.visible = t.visible
          /\ m.startup = t.startup
          /\ t.leases \ shown \subseteq m.leases
      <3>1. Moved(t, shown, "replaced", m)  BY <1>5, <2>2, <2>3, MoveFacts DEF m
      <3> QED  BY <3>1 DEF Moved
    <2>5. staged \in SUBSET m.leases /\ SessionType(m)  BY <1>4, <2>2, <2>4 DEF Fewer
    <2> HIDE DEF n
    <2>6. /\ Fewer(m, n)
          /\ n.state = m.state /\ n.current = m.current /\ n.commands = m.commands
          /\ n.acked = m.acked /\ n.cleanup = m.cleanup /\ n.visible = m.visible
          /\ n.startup = m.startup
          /\ m.leases \ staged \subseteq n.leases
          /\ \A l \in staged : \E k \in n.leases : k.buf = l.buf /\ k.plane = l.plane /\ k.rs = "shown"
      <3>1. Moved(m, staged, "shown", n)  BY <2>2, <2>5, MoveFacts DEF n
      <3> QED  BY <3>1 DEF Moved
    <2>7. Fewer(s, n)
      <3>1. Fewer(t, n)  BY <1>5, <2>4, <2>6, FewerTwice
      <3> QED  BY <1>6, <3>1, FewerTwice
    <2>8. ASSUME NEW i \in Planes, s.current[i] # None
          PROVE  \E l \in n.leases : l.buf = s.current[i] /\ l.plane = i /\ l.rs = "shown"
      <3>1. PICK l \in s.leases : /\ l.buf = s.current[i] /\ l.plane = i
                                  /\ l.rs = IF i \in b.planes THEN "staged" ELSE "shown"
        BY <1>9, <1>10, <2>8
      <3>2. CASE i \in b.planes
        <4>1. l \in staged  BY <3>1, <3>2 DEF staged, On
        <4> QED  BY <2>6, <3>1, <4>1
      <3>3. CASE i \notin b.planes
        <4>1. l \notin staged /\ l \notin shown /\ l.rs = "shown"  BY <3>1, <3>3 DEF staged, shown, On
        <4>2. l \in n.leases  BY <1>4, <2>4, <2>6, <3>1, <4>1
        <4> QED  BY <3>1, <4>1, <4>2
      <3> QED  BY <3>2, <3>3
    <2>9. SessionRuns(h, n)  BY <1>4, <1>7, <2>4, <2>6, <2>7, <2>8
    <2> QED  BY <2>1, <2>7, <2>9
  <1>11. CASE b.op = "clean"
    <2> DEFINE ls == On(s, {1}, "shown") \cup On(s, {1}, "replaced")
               n == Move(t, ls, "cleaned")
    <2>1. r = n  BY <1>3, <1>11 DEF RsApplied, t
    <2>2. ls \in SUBSET t.leases /\ "cleaned" \in Wheres  BY <1>4 DEF On, Wheres
    <2>3. \A l \in ls : l.plane = 1  BY DEF On
    <2> HIDE DEF n, ls
    <2>4. /\ Fewer(t, n)
          /\ n.state = t.state /\ n.current = t.current /\ n.commands = t.commands
          /\ n.acked = t.acked /\ n.cleanup = t.cleanup /\ n.visible = t.visible
          /\ n.startup = t.startup
          /\ t.leases \ ls \subseteq n.leases
      <3>1. Moved(t, ls, "cleaned", n)  BY <1>5, <2>2, MoveFacts DEF n
      <3> QED  BY <3>1 DEF Moved
    <2>5. Fewer(s, n)  BY <1>6, <2>4, FewerTwice
    <2>6. s.current[1] = None  BY <1>2, <1>11 DEF SessionRuns, Showing
    <2>7. ASSUME NEW i \in Planes, s.current[i] # None
          PROVE  \E l \in n.leases : l.buf = s.current[i] /\ l.plane = i /\ l.rs = "shown"
      <3>1. i = 0  BY <2>6, <2>7 DEF Planes
      <3>2. PICK l \in s.leases : l.buf = s.current[i] /\ l.plane = i /\ l.rs = "shown"
        BY <1>9, <1>11, <2>7
      <3>3. l \in n.leases  BY <1>4, <2>3, <2>4, <3>1, <3>2
      <3> QED  BY <3>2, <3>3
    <2>8. SessionRuns(h, n)  BY <1>4, <1>7, <2>4, <2>5, <2>7
    <2> QED  BY <2>1, <2>5, <2>8
  <1>12. CASE b.op \in {"start", "layer"}
    <2>1. r = t  BY <1>3, <1>12 DEF RsApplied, t
    <2>2. \A i \in Planes : s.current[i] # None =>
             \E l \in t.leases : l.buf = s.current[i] /\ l.plane = i /\ l.rs = "shown"
      BY <1>4, <1>9, <1>12
    <2>3. SessionRuns(h, t)  BY <1>4, <1>6, <1>7, <2>2
    <2> QED  BY <1>6, <2>1, <2>3
  <1>13. b.op \in {"start", "clean", "layer", "drain", "frame"}  BY DEF CommandSet
  <1> QED  BY <1>2, <1>10, <1>11, <1>12, <1>13
-----------------------------------------------------------------------------
(* The acceptance of a frame *)

Fresh(f) == {i \in DOMAIN f : ~f[i].reuse}
NewLease(f, n, i) == [buf |-> f[i].buf, plane |-> i, seq |-> n, rs |-> "staged"]
NewLeases(f, n) == {NewLease(f, n, i) : i \in Fresh(f)}
NewKeys(f, n) == {[plane |-> i, seq |-> n] : i \in DOMAIN f \ Fresh(f)}
Shown(f) == [i \in Planes |-> IF i \in DOMAIN f THEN f[i].buf ELSE None]
FrameCommand(f) == [op |-> "frame", planes |-> Fresh(f)]

Accepted(s, f, n, t) ==
    /\ t.leases = s.leases \cup NewLeases(f, n) /\ t.redundant = s.redundant \cup NewKeys(f, n)
    /\ t.current = Shown(f) /\ t.commands = Append(s.commands, FrameCommand(f)) /\ t.acked = FALSE
    /\ t.state = s.state /\ t.visible = (1 \in DOMAIN f)
    /\ t.cleanup = IF 1 \notin DOMAIN f /\ s.visible THEN 1 ELSE s.cleanup
    /\ FrameCommand(f) \in CommandSet /\ t.submitted

LEMMA AcceptFields ==
    ASSUME NEW s, SessionType(s), NEW f \in FrameSet, NEW n \in Nat
    PROVE  Accepted(s, f, n, Accept(s, f, n))
  <1> DEFINE t == Accept(s, f, n)
             h == Hold(s, f, n)
             k == ConfirmedFlush(h, FrameCommand(f))
  <1>1. s \in SessionSet  BY DEF SessionType
  <1>2. h = [s EXCEPT !.current = Shown(f), !.leases = @ \cup NewLeases(f, n),
                      !.redundant = @ \cup NewKeys(f, n)]
    BY Zenon DEF Hold, Shown, NewLeases, NewKeys, NewLease, Fresh
  <1>3. t = [k EXCEPT !.cleanup = IF ~(1 \in DOMAIN f) /\ h.visible THEN 1 ELSE @,
                      !.visible = (1 \in DOMAIN f), !.submitted = TRUE]
    BY Zenon DEF Accept, Commit, FrameCommand, Fresh
  <1> HIDE DEF h
  <1>4. /\ DOMAIN h = DOMAIN s /\ h.leases = s.leases \cup NewLeases(f, n)
        /\ h.redundant = s.redundant \cup NewKeys(f, n)
        /\ h.current = Shown(f) /\ h.commands = s.commands /\ h.state = s.state
        /\ h.visible = s.visible /\ h.cleanup = s.cleanup
    BY <1>1, <1>2 DEF SessionSet
  <1>5. DOMAIN s = {"state", "leases", "redundant", "current", "startup", "cleanup", "visible",
                    "submitted", "acked", "commands"}
    BY <1>1 DEF SessionSet
  <1>6. k = [h EXCEPT !.acked = FALSE, !.commands = Append(@, FrameCommand(f))]
    BY Zenon DEF ConfirmedFlush
  <1> HIDE DEF k
  <1>7. /\ DOMAIN k = DOMAIN s /\ k.leases = h.leases /\ k.redundant = h.redundant
        /\ k.current = h.current /\ k.commands = Append(h.commands, FrameCommand(f)) /\ k.state = h.state
        /\ k.acked = FALSE /\ k.cleanup = h.cleanup
    BY <1>4, <1>5, <1>6
  <1> DEFINE b == 1 \in DOMAIN f
             v == h.visible
             e == IF ~b /\ v THEN 1 ELSE k.cleanup
  <1>8. t = [k EXCEPT !.cleanup = e, !.visible = b, !.submitted = TRUE]
    BY <1>3, Zenon
  <1> HIDE DEF b, e, t
  <1>9. /\ t.leases = k.leases /\ t.redundant = k.redundant /\ t.current = k.current
        /\ t.commands = k.commands /\ t.acked = k.acked /\ t.state = k.state
        /\ t.visible = b /\ t.cleanup = e /\ t.submitted = TRUE
    BY <1>5, <1>7, <1>8
  <1>10. FrameCommand(f) \in CommandSet
    <2>1. Fresh(f) \in SUBSET Planes  BY FrameFacts DEF Fresh
    <2> QED  BY <2>1 DEF FrameCommand, CommandSet
  <1>11. t.cleanup = IF 1 \notin DOMAIN f /\ s.visible THEN 1 ELSE s.cleanup
    BY <1>4, <1>7, <1>9 DEF b, e
  <1>12. Accepted(s, f, n, t)  BY <1>4, <1>7, <1>9, <1>10, <1>11 DEF Accepted, b
  <1> QED  BY <1>12 DEF t

LEMMA PlanesCount == IsFiniteSet(Planes) /\ Cardinality(Planes) = 2
  <1>1. 0 \in Int /\ 1 \in Int  OBVIOUS
  <1>2. IsFiniteSet(0..1) /\ Cardinality(0..1) = IF 0 > 1 THEN 0 ELSE 1 - 0 + 1  BY <1>1, FS_Interval
  <1>3. Cardinality(0..1) = 2  BY <1>2
  <1> QED  BY <1>2, <1>3 DEF Planes

LEMMA LeasesCount ==
    ASSUME NEW s, SessionType(s)
    PROVE  Cardinality(s.leases) <= Cardinality(OnPlane(s, 0)) + Cardinality(OnPlane(s, 1))
  <1> DEFINE S == OnPlane(s, 0)
             T == OnPlane(s, 1)
  <1>1. IsFiniteSet(S) /\ IsFiniteSet(T)  BY OnPlaneFinite
  <1>2. s.leases = S \cup T  BY DEF OnPlane, SessionType, SessionSet, LeaseSet, Planes
  <1> HIDE DEF S, T
  <1>3. /\ Cardinality(S \cup T) = Cardinality(S) + Cardinality(T) - Cardinality(S \cap T)
        /\ IsFiniteSet(S \cap T)
    BY <1>1, FS_Union, FS_Intersection
  <1>4. Cardinality(S \cap T) \in Nat /\ Cardinality(S) \in Nat /\ Cardinality(T) \in Nat
    BY <1>1, <1>3, FS_CardinalityType
  <1>5. Cardinality(s.leases) <= Cardinality(S) + Cardinality(T)  BY <1>2, <1>3, <1>4
  <1> QED  BY <1>5 DEF S, T

LEMMA AcceptRuns ==
    ASSUME NEW h, NEW s, SessionType(s), SessionRuns(h, s), h.processed = TRUE,
           \A i \in Planes : Cardinality(OnPlane(s, i)) <= MaxAllocations,
           NEW m \in MessageSet, SubmitResult(s, m.frame) = "accepted",
           NEW g, g.processed = FALSE, g.current = Contents(m.frame),
           NEW t, t = Accept(s, m.frame, m.seq)
    PROVE  /\ SessionRuns(g, t)
           /\ \A i \in Planes : Cardinality(OnPlane(t, i)) <= MaxAllocations
  <1> DEFINE f == m.frame
             n == m.seq
  <1>1. f \in FrameSet /\ n \in Nat  BY DEF MessageSet
  <1>2. DOMAIN f \subseteq Planes /\ \A i \in DOMAIN f : f[i].buf \in Names(0) \cup Names(1)
    BY <1>1, FrameFacts
  <1>3. \A i \in DOMAIN f : f[i].buf # None  BY <1>2, ConstantsAssumption
  <1> HIDE DEF f, n
  <1>4. /\ t.leases = s.leases \cup NewLeases(f, n)
        /\ t.current = Shown(f) /\ t.commands = Append(s.commands, FrameCommand(f)) /\ t.acked = FALSE
        /\ t.state = s.state /\ t.visible = (1 \in DOMAIN f)
        /\ t.cleanup = IF 1 \notin DOMAIN f /\ s.visible THEN 1 ELSE s.cleanup
        /\ FrameCommand(f) \in CommandSet
    <2>1. Accepted(s, f, n, t)  BY <1>1, AcceptFields DEF f, n
    <2> QED  BY <2>1 DEF Accepted
  <1>5. s.state = "running" /\ SubmitResult(s, f) = "accepted"  BY DEF SessionRuns, f
  <1>6. /\ ~s.startup /\ s.cleanup = 0
        /\ \A i \in DOMAIN f : Reusable(s, i, f[i]) /\ Admissible(s, i, f[i])
    <2>1. ReadyForFrame(s) /\ \A i \in DOMAIN f : Reusable(s, i, f[i]) /\ Admissible(s, i, f[i])
      BY <1>5 DEF SubmitResult
    <2> QED  BY <2>1 DEF ReadyForFrame
  <1>7. s.acked = TRUE /\ s.commands = <<>>
    <2>1. s.acked /\ s.acked \in BOOLEAN  BY <1>6 DEF SessionRuns, SessionType, SessionSet
    <2> QED  BY <2>1 DEF SessionRuns, OneCommand
  <1>8. t.commands = <<FrameCommand(f)>> /\ t.commands # <<>> /\ Head(t.commands) = FrameCommand(f)
    BY <1>4, <1>7
  <1>9. \A i \in Planes : Coming(t, i) <=> i \in Fresh(f)
    BY <1>8 DEF Coming, FrameCommand
  <1>10. ASSUME NEW i \in DOMAIN f PROVE Leased(t, i)
    <2>1. t.current[i] = f[i].buf /\ i \in Planes  BY <1>2, <1>4 DEF Shown
    <2>2. CASE i \in Fresh(f)
      <3>1. NewLease(f, n, i) \in t.leases  BY <1>4, <2>2 DEF NewLeases
      <3>2. /\ NewLease(f, n, i).buf = f[i].buf /\ NewLease(f, n, i).plane = i
            /\ NewLease(f, n, i).rs = "staged"
        BY DEF NewLease
      <3> QED  BY <1>9, <2>1, <2>2, <3>1, <3>2 DEF Leased
    <2>3. CASE i \notin Fresh(f)
      <3>1. f[i].reuse  BY <2>3 DEF Fresh
      <3>2. s.current[i] = f[i].buf  BY <1>6, <3>1 DEF Reusable
      <3>3. Leased(s, i)  BY <1>3, <2>1, <3>2 DEF SessionRuns, Showing
      <3>4. ~Coming(s, i)  BY <1>7 DEF Coming
      <3>5. ~Coming(t, i)  BY <1>9, <2>1, <2>3
      <3> QED  BY <1>4, <2>1, <3>2, <3>3, <3>4, <3>5 DEF Leased
    <2> QED  BY <2>2, <2>3
  <1>11. \A i \in Planes : t.current[i] # None => i \in DOMAIN f  BY <1>4 DEF Shown
  <1>12. Showing(t)
    <2>1. 1 \in Planes  BY DEF Planes
    <2>2. t.visible <=> t.current[1] # None  BY <1>3, <1>4, <2>1, ZenonT(60) DEF Shown
    <2>3. t.cleanup # 0 => t.current[1] = None  BY <1>4, <1>6, <2>1 DEF Shown
    <2> QED  BY <1>10, <1>11, <2>2, <2>3 DEF Showing
  <1>13. OneCommand(t)
    <2>1. FrameCommand(f).op = "frame"  BY DEF FrameCommand
    <2> QED  BY <1>4, <1>8, <2>1 DEF OneCommand
  <1>14. \A i \in Planes : t.current[i] = g.current[i].buf  BY <1>4 DEF Shown, Contents, NoPlane, f
  <1>15. SessionRuns(g, t)  BY <1>4, <1>5, <1>12, <1>13, <1>14 DEF SessionRuns
  <1>16. ASSUME NEW i \in Planes PROVE Cardinality(OnPlane(t, i)) <= MaxAllocations
    <2>1. IsFiniteSet(OnPlane(s, i)) /\ Cardinality(OnPlane(s, i)) \in Nat  BY OnPlaneFinite
    <2>2. CASE i \in Fresh(f)
      <3>1. OnPlane(t, i) = OnPlane(s, i) \cup {NewLease(f, n, i)}
        BY <1>4, <2>2 DEF OnPlane, NewLeases, NewLease
      <3>2. Cardinality(OnPlane(t, i)) <= Cardinality(OnPlane(s, i)) + 1
        <4>1. Cardinality(OnPlane(t, i)) = IF NewLease(f, n, i) \in OnPlane(s, i)
                 THEN Cardinality(OnPlane(s, i)) ELSE Cardinality(OnPlane(s, i)) + 1
          BY <2>1, <3>1, FS_AddElement
        <4> QED  BY <2>1, <4>1
      <3>3. ~Full(s, i)  BY <1>6, <2>2 DEF Admissible, Fresh
      <3>4. ~(Cardinality(OnPlane(s, i)) >= MaxAllocations)  BY <3>3 DEF Full, OnPlane
      <3>5. MaxAllocations \in Nat  BY AllocationsAssumption
      <3>6. Cardinality(OnPlane(t, i)) \in Int
        <4>1. IsFiniteSet(OnPlane(s, i) \cup {NewLease(f, n, i)})  BY <2>1, FS_AddElement
        <4> QED  BY <3>1, <4>1, FS_CardinalityType
      <3> QED  BY <2>1, <3>2, <3>4, <3>5, <3>6
    <2>3. CASE i \notin Fresh(f)
      <3>1. OnPlane(t, i) = OnPlane(s, i)
        BY <1>4, <2>3 DEF OnPlane, NewLeases, NewLease
      <3> QED  BY <3>1
    <2> QED  BY <2>2, <2>3
  <1> QED  BY <1>15, <1>16

(* What the host owes after it has accepted a frame with no reply kept.     *)
LEMMA AcceptBounded ==
    ASSUME NEW s, SessionType(s), s.redundant = {}, NEW m \in MessageSet,
           NEW t, t = Accept(s, m.frame, m.seq),
           \A i \in Planes : Cardinality(OnPlane(t, i)) <= MaxAllocations,
           NEW g, Len(g.outgoing) = 1, g.processed = FALSE
    PROVE  Bounded(g, t)
  <1> DEFINE f == m.frame
             n == m.seq
             D == DOMAIN f \ Fresh(f)
             key == [i \in D |-> [plane |-> i, seq |-> n]]
  <1>1. f \in FrameSet /\ n \in Nat  BY DEF MessageSet
  <1>2. t.redundant = NewKeys(f, n)
    <2>1. Accepted(s, f, n, t)  BY <1>1, AcceptFields
    <2> QED  BY <2>1 DEF Accepted
  <1>3. SessionType(t)  BY AcceptAccepts DEF Accepts
  <1>4. key \in [D -> NewKeys(f, n)] /\ \A k \in NewKeys(f, n) : \E i \in D : key[i] = k
    BY DEF NewKeys
  <1>5. D \in SUBSET Planes  BY <1>1, FrameFacts
  <1> HIDE DEF f, n, D, key
  <1>6. IsFiniteSet(D) /\ Cardinality(D) <= 2 /\ Cardinality(D) \in Nat
    BY <1>5, PlanesCount, FS_Subset, FS_CardinalityType
  <1>7. Cardinality(t.redundant) <= Cardinality(D) /\ Cardinality(t.redundant) \in Nat
    BY <1>2, <1>4, <1>6, ImageCount
  <1>8. /\ Cardinality(t.leases) \in Nat
        /\ Cardinality(OnPlane(t, 0)) \in Nat /\ Cardinality(OnPlane(t, 1)) \in Nat
    BY <1>3, OnPlaneFinite
  <1>9. Cardinality(t.leases) <= Cardinality(OnPlane(t, 0)) + Cardinality(OnPlane(t, 1))
    BY <1>3, LeasesCount
  <1>10. Cardinality(OnPlane(t, 0)) <= MaxAllocations /\ Cardinality(OnPlane(t, 1)) <= MaxAllocations
    BY DEF Planes
  <1>11. MaxAllocations \in Nat  BY AllocationsAssumption
  <1>12. Cardinality(t.leases) <= 2 * MaxAllocations  BY <1>8, <1>9, <1>10, <1>11
  <1>13. Cardinality(t.redundant) <= 2  BY <1>6, <1>7
  <1>14. Debt(g, t) = 1 + Cardinality(t.leases) + Cardinality(t.redundant) + 1  BY DEF Debt
  <1>15. Debt(g, t) <= Limit  BY <1>7, <1>8, <1>11, <1>12, <1>13, <1>14 DEF Limit
  <1> QED  BY <1>15 DEF Bounded
-----------------------------------------------------------------------------
(* Releases are told once each *)

LEMMA ReleasesOnce ==
    ASSUME NEW s, SessionType(s)
    PROVE  /\ Releases(s) \in Seq(ReplySet) /\ Len(Releases(s)) \in Nat
           /\ Len(Releases(s)) <= Cardinality(s.redundant) + Cardinality(Returned(s))
           /\ Cardinality(Returned(s)) \in Nat /\ Returned(s) \in SUBSET s.leases
           /\ \A j, k \in 1..Len(Releases(s)) : Same(Releases(s)[j], Releases(s)[k]) => j = k
  <1> DEFINE key(l) == [plane |-> l.plane, seq |-> l.seq]
             keys == {key(l) : l \in Returned(s)}
             R == Retired(s)
             q == SetToSeq(R)
  <1>1. s \in SessionSet /\ IsFiniteSet(s.leases) /\ IsFiniteSet(s.redundant)  BY DEF SessionType
  <1>2. Returned(s) \subseteq LeaseSet /\ s.redundant \subseteq KeySet
    BY <1>1 DEF SessionSet, Returned
  <1>3. Returned(s) \in SUBSET s.leases  BY DEF Returned
  <1>4. IsFiniteSet(Returned(s)) /\ Cardinality(Returned(s)) \in Nat
    BY <1>1, <1>3, FS_Subset, FS_CardinalityType
  <1>5. /\ IsFiniteSet(keys) /\ Cardinality(keys) \in Nat
        /\ Cardinality(keys) <= Cardinality(Returned(s))
    <2> DEFINE g == [l \in Returned(s) |-> key(l)]
    <2>1. g \in [Returned(s) -> keys] /\ \A t \in keys : \E l \in Returned(s) : g[l] = t  OBVIOUS
    <2> HIDE DEF g, keys
    <2> QED  BY <1>4, <2>1, FiniteImage, ImageCount
  <1>6. R = s.redundant \cup IF s.state = "closed" THEN {} ELSE keys  BY Zenon DEF Retired
  <1>7. R \subseteq KeySet
    <2>1. \A l \in Returned(s) : key(l) \in KeySet  BY <1>2 DEF LeaseSet, KeySet
    <2> QED  BY <1>2, <1>6, <2>1
  <1> HIDE DEF keys
  <1>8. /\ IsFiniteSet(R) /\ Cardinality(R) \in Nat
        /\ Cardinality(R) <= Cardinality(s.redundant) + Cardinality(Returned(s))
    <2> DEFINE U == s.redundant \cup keys
               V == s.redundant \cap keys
    <2>1. /\ IsFiniteSet(U)
          /\ Cardinality(U) = Cardinality(s.redundant) + Cardinality(keys) - Cardinality(V)
      BY <1>1, <1>5, FS_Union
    <2>2. IsFiniteSet(V)  BY <1>1, FS_Intersection
    <2>3. R \in SUBSET U  BY <1>6
    <2> HIDE DEF U, V, R
    <2>4. IsFiniteSet(R) /\ Cardinality(R) <= Cardinality(U)  BY <2>1, <2>3, FS_Subset
    <2>5. /\ Cardinality(U) \in Nat /\ Cardinality(V) \in Nat /\ Cardinality(s.redundant) \in Nat
          /\ Cardinality(R) \in Nat
      BY <1>1, <2>1, <2>2, <2>4, FS_CardinalityType
    <2> QED  BY <1>4, <1>5, <2>1, <2>4, <2>5
  <1>9. \E g \in [1..Cardinality(R) -> R] : IsInjective(g)
    BY <1>8, FS_CardinalityType DEF ExistsBijection, Bijection, Injection
  <1>10. q \in [1..Cardinality(R) -> R] /\ IsInjective(q)
    <2>1. q = CHOOSE g \in [1..Cardinality(R) -> R] : IsInjective(g)  BY DEF SetToSeq
    <2> HIDE DEF R, q
    <2> QED  BY <1>9, <2>1
  <1> HIDE DEF R, q
  <1> DEFINE reply(x) == [op |-> "released", seq |-> x.seq, plane |-> x.plane]
             rs == [k \in 1..Cardinality(R) |-> reply(q[k])]
  <1>11. Releases(s) = rs
    <2>1. DOMAIN q = 1..Cardinality(R)  BY <1>10
    <2> QED  BY <2>1, Zenon DEF Releases, q, R
  <1>12. Releases(s) \in Seq(ReplySet)  BY ReleasesRetired
  <1>13. Len(rs) = Cardinality(R)  BY <1>8, <1>11, <1>12
  <1>14. ASSUME NEW j \in 1..Cardinality(R), NEW k \in 1..Cardinality(R), Same(rs[j], rs[k])
         PROVE  j = k
    <2>1. q[j] \in KeySet /\ q[k] \in KeySet  BY <1>7, <1>10
    <2>2. q[j].seq = q[k].seq /\ q[j].plane = q[k].plane  BY <1>14 DEF Same
    <2>3. q[j] = q[k]  BY <2>1, <2>2 DEF KeySet
    <2> QED  BY <1>10, <2>3 DEF IsInjective
  <1> HIDE DEF rs
  <1> QED  BY <1>3, <1>4, <1>8, <1>11, <1>12, <1>13, <1>14

LEMMA NothingReleased ==
    ASSUME NEW s, SessionType(s), s.redundant = {}, Returned(s) = {}
    PROVE  Releases(s) = <<>>
  <1>1. Releases(s) \in Seq(ReplySet) /\ Len(Releases(s)) \in Nat
        /\ Len(Releases(s)) <= Cardinality({}) + Cardinality({})
    BY ReleasesOnce
  <1>2. Len(Releases(s)) = 0  BY <1>1, FS_EmptySet
  <1> QED  BY <1>1, <1>2, EmptySeq

-----------------------------------------------------------------------------
(* Replies in order *)

LEMMA PrefixRange ==
    ASSUME NEW S, NEW q \in Seq(S)
    PROVE  Prefix(q, Len(q)) = Range(q)
  BY DEF Prefix, Range

LEMMA OrderlyConcat ==
    ASSUME NEW fs, NEW R, NEW a \in Seq(ReplySet), NEW b \in Seq(ReplySet),
           Orderly(fs, R, a), Orderly(fs, R \cup Range(a), b)
    PROVE  Orderly(fs, R, a \o b)
  <1> DEFINE q == a \o b
  <1>1. /\ q \in Seq(ReplySet) /\ Len(q) = Len(a) + Len(b) /\ Len(a) \in Nat
        /\ \A k \in 1..(Len(a) + Len(b)) : q[k] = IF k <= Len(a) THEN a[k] ELSE b[k - Len(a)]
    BY ConcatFacts
  <1>2. Len(b) \in Nat  OBVIOUS
  <1> HIDE DEF q
  <1>3. \A n \in 0..Len(a) : Prefix(q, n) = Prefix(a, n)
    <2> SUFFICES ASSUME NEW n \in 0..Len(a) PROVE Prefix(q, n) = Prefix(a, n)  OBVIOUS
    <2>1. \A k \in 1..n : q[k] = a[k]  BY <1>1, <1>2
    <2> QED  BY <2>1 DEF Prefix
  <1>4. \A n \in 0..Len(b) : Prefix(q, Len(a) + n) = Range(a) \cup Prefix(b, n)
    <2> SUFFICES ASSUME NEW n \in 0..Len(b) PROVE Prefix(q, Len(a) + n) = Range(a) \cup Prefix(b, n)
      OBVIOUS
    <2>1. \A k \in 1..Len(a) : q[k] = a[k] /\ k \in 1..(Len(a) + n)  BY <1>1, <1>2
    <2>2. \A k \in 1..n : q[Len(a) + k] = b[k] /\ Len(a) + k \in 1..(Len(a) + n)
      <3> SUFFICES ASSUME NEW k \in 1..n PROVE q[Len(a) + k] = b[k] /\ Len(a) + k \in 1..(Len(a) + n)
        OBVIOUS
      <3>1. Len(a) + k \in 1..(Len(a) + Len(b)) /\ ~(Len(a) + k <= Len(a)) /\ Len(a) + k - Len(a) = k
        BY <1>1, <1>2
      <3>2. q[Len(a) + k] = b[Len(a) + k - Len(a)]  BY <1>1, <3>1
      <3> QED  BY <1>1, <1>2, <3>1, <3>2
    <2>3. \A k \in 1..(Len(a) + n) : k \in 1..Len(a) \/ (k - Len(a) \in 1..n /\ k = Len(a) + (k - Len(a)))
      BY <1>1, <1>2
    <2>4. Range(a) = Prefix(a, Len(a))  BY PrefixRange
    <2>5. \A x \in Prefix(q, Len(a) + n) : x \in Prefix(a, Len(a)) \/ x \in Prefix(b, n)
      <3> SUFFICES ASSUME NEW k \in 1..(Len(a) + n)
                   PROVE  q[k] \in Prefix(a, Len(a)) \/ q[k] \in Prefix(b, n)
        BY DEF Prefix
      <3>1. CASE k \in 1..Len(a)  BY <2>1, <3>1 DEF Prefix
      <3>2. CASE k - Len(a) \in 1..n /\ k = Len(a) + (k - Len(a))
        <4>1. q[k] = b[k - Len(a)]  BY <2>2, <3>2
        <4> QED  BY <3>2, <4>1 DEF Prefix
      <3> QED  BY <2>3, <3>1, <3>2
    <2>6. \A x \in Prefix(a, Len(a)) : x \in Prefix(q, Len(a) + n)  BY <2>1 DEF Prefix
    <2>7. \A x \in Prefix(b, n) : x \in Prefix(q, Len(a) + n)  BY <2>2 DEF Prefix
    <2> QED  BY <2>4, <2>5, <2>6, <2>7
  <1>5. ASSUME NEW n \in 1..Len(q)
        PROVE  q[n].seq \in DOMAIN fs /\ Expects(fs[q[n].seq], R \cup Prefix(q, n - 1), q[n])
    <2>1. CASE n <= Len(a)
      <3>1. n \in 1..Len(a) /\ n - 1 \in 0..Len(a) /\ q[n] = a[n]  BY <1>1, <1>2, <2>1
      <3>2. Prefix(q, n - 1) = Prefix(a, n - 1)  BY <1>3, <3>1
      <3> QED  BY <3>1, <3>2 DEF Orderly
    <2>2. CASE n > Len(a)
      <3>1. PICK k \in 1..Len(b) : n = Len(a) + k
        <4>1. n - Len(a) \in 1..Len(b) /\ n = Len(a) + (n - Len(a))  BY <1>1, <1>2, <2>2
        <4> QED  BY <4>1
      <3>2. ~(n <= Len(a)) /\ n - Len(a) = k /\ k - 1 \in 0..Len(b) /\ n - 1 = Len(a) + (k - 1)
            /\ n \in 1..(Len(a) + Len(b))
        BY <1>1, <1>2, <3>1
      <3>3. q[n] = b[k]  BY <1>1, <3>2
      <3>4. Prefix(q, n - 1) = Range(a) \cup Prefix(b, k - 1)  BY <1>4, <3>2
      <3>5. R \cup Prefix(q, n - 1) = (R \cup Range(a)) \cup Prefix(b, k - 1)  BY <3>4
      <3>6. b[k].seq \in DOMAIN fs /\ Expects(fs[b[k].seq], (R \cup Range(a)) \cup Prefix(b, k - 1), b[k])
        BY DEF Orderly
      <3> QED  BY <3>3, <3>5, <3>6
    <2>3. n \in Int /\ Len(a) \in Int  BY <1>1
    <2> QED  BY <2>1, <2>2, <2>3
  <1>6. Orderly(fs, R, q)  BY <1>5 DEF Orderly
  <1> QED  BY <1>6 DEF q

LEMMA OrderlyNone ==
    ASSUME NEW fs, NEW R
    PROVE  Orderly(fs, R, <<>>)
  BY DEF Orderly

LEMMA OrderlyOne ==
    ASSUME NEW fs, NEW R, NEW r, r.seq \in DOMAIN fs, Expects(fs[r.seq], R, r)
    PROVE  Orderly(fs, R, <<r>>)
  <1>1. Len(<<r>>) = 1 /\ <<r>>[1] = r /\ 1 - 1 = 0 /\ 1..1 = {1}  OBVIOUS
  <1>2. Prefix(<<r>>, 0) = {}  BY DEF Prefix
  <1>3. R \cup Prefix(<<r>>, 0) = R  BY <1>2
  <1> QED  BY <1>1, <1>3 DEF Orderly

(* Releases of planes that are awaited.                                     *)
LEMMA OrderlyReleases ==
    ASSUME NEW fs, NEW R, NEW q \in Seq(ReplySet),
           \A j, k \in 1..Len(q) : Same(q[j], q[k]) => j = k,
           \A r \in Range(q) : r.op = "released" /\ Awaits(fs, R, r)
    PROVE  Orderly(fs, R, q)
  <1> SUFFICES ASSUME NEW n \in 1..Len(q)
               PROVE  q[n].seq \in DOMAIN fs /\ Expects(fs[q[n].seq], R \cup Prefix(q, n - 1), q[n])
    BY DEF Orderly
  <1> DEFINE r == q[n]
             P == Prefix(q, n - 1)
  <1>1. DOMAIN q = 1..Len(q) /\ Len(q) \in Nat  OBVIOUS
  <1>2. \A k \in 1..Len(q) : q[k] \in Range(q) /\ q[k].op = "released"  BY <1>1 DEF Range
  <1>3. Awaits(fs, R, r) /\ r.op = "released"  BY <1>2
  <1>4. \A x \in P : x.op = "released" /\ ~Same(x, r)
    <2> SUFFICES ASSUME NEW k \in 1..(n - 1) PROVE q[k].op = "released" /\ ~Same(q[k], q[n])
      BY DEF Prefix
    <2>1. k \in 1..Len(q) /\ k # n  BY <1>1
    <2> QED  BY <1>2, <2>1
  <1> HIDE DEF r, P
  <1>5. Acc(fs[r.seq], R \cup P, r.seq)  BY <1>3 DEF Awaits, Acc
  <1>6. ~Rel(fs[r.seq], R \cup P, r.seq, r.plane)  BY <1>3, <1>4 DEF Awaits, Rel, Same
  <1>7. r.seq \in DOMAIN fs /\ Expects(fs[r.seq], R \cup P, r)  BY <1>3, <1>5, <1>6 DEF Awaits, Expects
  <1> QED  BY <1>7 DEF r, P

(* The presenter takes replies in this order.                               *)
LEMMA OrderlyExpected ==
    ASSUME NEW p \in PresenterSet, NEW d \in Seq(ReplySet), Orderly(p.flights, {}, d)
    PROVE  AllExpected(p.flights, d)
  <1> DEFINE fs == p.flights
  <1> SUFFICES ASSUME NEW n \in DOMAIN d
               PROVE  /\ d[n].seq \in DOMAIN fs
                      /\ Expected(Apply(fs[d[n].seq], d[n].seq, SubSeq(d, 1, n - 1)), d[n])
    BY DEF AllExpected
  <1> DEFINE r == d[n]
             q == SubSeq(d, 1, n - 1)
             f == fs[r.seq]
             P == Prefix(d, n - 1)
             a == Apply(f, r.seq, q)
             mine == {x \in Range(q) : x.seq = r.seq}
  <1>1. DOMAIN d = 1..Len(d) /\ Len(d) \in Nat /\ n \in 1..Len(d)  OBVIOUS
  <1>2. r.seq \in DOMAIN fs /\ Expects(f, {} \cup P, r)  BY <1>1 DEF Orderly
  <1>3. {} \cup P = P  OBVIOUS
  <1>4. r \in ReplySet  BY <1>1
  <1>5. Range(q) = P
    <2>1. q \in Seq(ReplySet) /\ Len(q) = n - 1 /\ \A k \in 1..(n - 1) : q[k] = d[k]
      BY <1>1, SubSeqProperties
    <2>2. DOMAIN q = 1..(n - 1)  BY <2>1
    <2> QED  BY <2>1, <2>2 DEF Range, Prefix
  <1>6. f \in FlightSet  BY <1>2, FlightFacts
  <1>7. /\ a.accepted <=> Acc(f, P, r.seq)
        /\ a.processed <=> Pro(f, P, r.seq)
        /\ a.released = f.released \cup {x.plane : x \in {x \in mine : x.op = "released"}}
    BY <1>5, <1>6 DEF Apply, Acc, Pro, FlightSet
  <1>8. r.plane \in a.released <=> Rel(f, P, r.seq, r.plane)  BY <1>5, <1>7 DEF Rel
  <1> HIDE DEF r, a, f, P
  <1>9. r.op \in {"accepted", "processed", "rejected", "released"}  BY <1>4 DEF ReplySet
  <1>10. Expected(a, r)  BY <1>2, <1>3, <1>7, <1>8, <1>9 DEF Expects, Expected
  <1> QED  BY <1>2, <1>10 DEF a, r, f
-----------------------------------------------------------------------------
(* The steps of Host::Tick, once more *)

LEMMA LimitFits == Limit \in Nat /\ MaxOutgoing \in Nat /\ Limit <= MaxOutgoing
  BY AllocationsAssumption, OutgoingAssumption, ConstantsAssumption DEF Limit

LEMMA RunsSame ==
    ASSUME NEW c, NEW h, NEW s, NEW u, NEW d, ChannelRuns(c, h, s, u, d),
           NEW g, g.active = h.active, g.waiting = h.waiting, g.closing = h.closing,
           g.processed = h.processed, g.sequence = h.sequence, g.pending = h.pending,
           g.outgoing = h.outgoing, g.current = h.current
    PROVE  ChannelRuns(c, g, s, u, d)
  <1>1. SessionRuns(h, s) => SessionRuns(g, s)  BY DEF SessionRuns
  <1>2. Bounded(h, s) => Bounded(g, s)  BY DEF Bounded, Debt
  <1>3. HostRuns(g, s)  BY <1>1, <1>2 DEF ChannelRuns, HostRuns
  <1>4. (Live(c, g) <=> Live(c, h)) /\ (Awaited(c, g) <=> Awaited(c, h))  BY DEF Live, Awaited
  <1>5. Taken(g) = Taken(h)  BY DEF Taken
  <1>6. Live(c, h) => LiveRuns(c, g, s, u, d)
    BY <1>5 DEF ChannelRuns, LiveRuns, Owed, Replies
  <1> QED  BY <1>3, <1>4, <1>6 DEF ChannelRuns

LEMMA DisconnectRuns ==
    ASSUME NEW c, NEW h, NEW s, NEW u, NEW d, ChannelOk(c, h, s, u, d), ChannelRuns(c, h, s, u, d)
    PROVE  ChannelRuns(c, Disconnect(h), s, u, d)
  <1> DEFINE g == Disconnect(h)
  <1>1. h \in HostSet /\ HostOk(c, h, s) /\ c.out \in Nat  BY DEF ChannelOk
  <1>2. g.active = 0 /\ g.closing /\ g.waiting = h.waiting  BY <1>1, DisconnectType
  <1>3. g.current = NoPlanes  BY <1>1 DEF Disconnect, HostSet, NoPlanes
  <1> HIDE DEF g
  <1>4. HostRuns(g, s)  BY <1>2, <1>3 DEF HostRuns
  <1>5. ~Live(c, g) /\ (Awaited(c, g) <=> Awaited(c, h))  BY <1>1, <1>2 DEF Live, Awaited, HostOk
  <1>6. ChannelRuns(c, g, s, u, d)  BY <1>4, <1>5 DEF ChannelRuns
  <1> QED  BY <1>6 DEF g

LEMMA StopRuns ==
    ASSUME NEW c, NEW h, NEW s, NEW u, NEW d, ChannelOk(c, h, s, u, d), ChannelRuns(c, h, s, u, d)
    PROVE  ChannelRuns(c, Stop(h), s, u, d)
  <1> DEFINE g == Stop(h)
             k == [h EXCEPT !.stopped = TRUE]
  <1>1. h \in HostSet /\ HostOk(c, h, s) /\ c.out \in Nat  BY DEF ChannelOk
  <1>2. /\ g.waiting = 0 /\ g.active = h.active /\ g.closing = h.closing
        /\ g.outgoing = h.outgoing /\ g.pending = h.pending /\ g.sequence = h.sequence
        /\ g.processed = h.processed /\ g.current = h.current
    BY <1>1 DEF Stop, HostSet
  <1> HIDE DEF g
  <1>3. SessionRuns(h, s) => SessionRuns(g, s)  BY <1>2 DEF SessionRuns
  <1>4. Bounded(h, s) => Bounded(g, s)  BY <1>2 DEF Bounded, Debt
  <1>5. HostRuns(g, s)  BY <1>2, <1>3, <1>4 DEF ChannelRuns, HostRuns
  <1>6. (Live(c, g) <=> Live(c, h)) /\ ~Awaited(c, g)  BY <1>1, <1>2 DEF Live, Awaited, HostOk
  <1>7. Taken(g) = Taken(h)  BY <1>2 DEF Taken
  <1>8. Live(c, h) => LiveRuns(c, g, s, u, d)
    BY <1>2, <1>7 DEF ChannelRuns, LiveRuns, Owed, Replies
  <1>9. ChannelRuns(c, g, s, u, d)  BY <1>5, <1>6, <1>8 DEF ChannelRuns
  <1> QED  BY <1>9 DEF g

(* A lease, a key and a reply that name the same plane are awaited alike.   *)
LEMMA AwaitsSame ==
    ASSUME NEW fs, NEW R, NEW l, NEW m, Same(l, m), Awaits(fs, R, m)
    PROVE  Awaits(fs, R, l)
  BY DEF Awaits, Same

LEMMA SessionKeepsRuns ==
    ASSUME NEW c, NEW h, NEW s, NEW u, NEW d, ChannelRuns(c, h, s, u, d), NEW t, Keeps(s, t),
           ~h.closing => SessionRuns(h, t) /\ Bounded(h, t)
    PROVE  ChannelRuns(c, h, t, u, d)
  <1>1. HostRuns(h, t)  BY DEF ChannelRuns, HostRuns
  <1>2. ASSUME Live(c, h) PROVE LiveRuns(c, h, t, u, d)
    <2>1. LiveRuns(c, h, s, u, d)  BY <1>2 DEF ChannelRuns
    <2> DEFINE fs == c.presenter.flights
               R == Replies(h, d)
    <2>2. \A l \in s.leases \cup s.redundant : Awaits(fs, R, l)  BY <2>1 DEF LiveRuns, Owed
    <2>3. \A l \in t.leases : \E m \in s.leases : Same(l, m)  BY DEF Keeps
    <2>4. \A l \in t.leases : Awaits(fs, R, l)  BY <2>2, <2>3, AwaitsSame
    <2>5. \A l \in t.redundant : Awaits(fs, R, l)  BY <2>2 DEF Keeps
    <2>6. Owed(fs, h, t, R)  BY <2>1, <2>4, <2>5 DEF LiveRuns, Owed
    <2> QED  BY <2>1, <2>6 DEF LiveRuns
  <1> QED  BY <1>1, <1>2 DEF ChannelRuns

LEMMA TickLostRuns ==
    ASSUME ChannelOk(Context, host, session, up, down), NEW n, Runs(Context, host, session, up, down, n)
    PROVE  Runs(Context, TickLost(host), session, up, down, n)
  <1> DEFINE h == IF host.detached THEN Disconnect(Stop(host)) ELSE host
             g == TickLost(host)
  <1>1. ChannelRuns(Context, host, session, up, down) /\ Connected(Context, host, n) /\ n \in Nat
    BY DEF Runs
  <1>2. /\ ChannelOk(Context, Stop(host), session, up, down)
        /\ ChannelRuns(Context, Stop(host), session, up, down)
    BY <1>1, StopOk, StopRuns
  <1>3. /\ ChannelOk(Context, Disconnect(Stop(host)), session, up, down)
        /\ ChannelRuns(Context, Disconnect(Stop(host)), session, up, down)
    BY <1>2, DisconnectOk, DisconnectRuns
  <1>4. ChannelOk(Context, h, session, up, down) /\ ChannelRuns(Context, h, session, up, down)
    BY <1>1, <1>3
  <1>5. ~host.detached => h = host  OBVIOUS
  <1>6. h \in HostSet /\ HostOk(Context, h, session)  BY <1>4 DEF ChannelOk
  <1> HIDE DEF h
  <1>7. ChannelRuns(Context, Disconnect(h), session, up, down)  BY <1>4, DisconnectRuns
  <1>8. g = IF h.active # 0 /\ Lost(h.active) THEN Disconnect(h) ELSE h
    BY Zenon DEF TickLost, h
  <1>9. ChannelRuns(Context, g, session, up, down)  BY <1>4, <1>7, <1>8
  <1>10. CASE host.detached
    <2>1. n > 0  BY <1>1, <1>10 DEF Connected
    <2> QED  BY <1>1, <1>9, <2>1 DEF Runs, Connected
  <1>11. CASE ~host.detached
    <2>1. h = host  BY <1>5, <1>11
    <2>2. CASE h.active # 0 /\ Lost(h.active)
      <3>1. g = Disconnect(h)  BY <1>8, <2>2
      <3>2. /\ g.waiting = h.waiting /\ g.detached = h.detached /\ g.stopped = h.stopped
            /\ g.exists = h.exists
        BY <1>6, <3>1 DEF Disconnect, HostSet
      <3>3. Context.presenter.open => Context.out # h.active  BY <2>2 DEF Lost, Context
      <3>4. Connected(Context, g, n)  BY <1>1, <2>1, <3>2, <3>3 DEF Connected
      <3> QED  BY <1>1, <1>9, <3>4 DEF Runs
    <2>3. CASE ~(h.active # 0 /\ Lost(h.active))
      <3>1. g = host  BY <1>8, <2>1, <2>3
      <3> QED  BY <3>1
    <2> QED  BY <2>2, <2>3
  <1> QED  BY <1>10, <1>11
(* A host whose queue of replies has grown.                                 *)
Told(h, replies) == [h EXCEPT !.outgoing = @ \o replies]

IsTold(h, replies, g) ==
    /\ g \in HostSet /\ g.outgoing = h.outgoing \o replies
    /\ g.active = h.active /\ g.waiting = h.waiting /\ g.closing = h.closing
    /\ g.processed = h.processed /\ g.sequence = h.sequence /\ g.pending = h.pending
    /\ g.current = h.current /\ g.detached = h.detached
    /\ g.stopped = h.stopped /\ g.exists = h.exists
    /\ Range(h.outgoing \o replies) = Range(h.outgoing) \cup Range(replies)
    /\ Len(h.outgoing \o replies) = Len(h.outgoing) + Len(replies)
    /\ h.outgoing \in Seq(ReplySet) /\ Len(h.outgoing) \in Nat /\ Len(replies) \in Nat

LEMMA ToldFacts ==
    ASSUME NEW h \in HostSet, NEW replies \in Seq(ReplySet)
    PROVE  IsTold(h, replies, Told(h, replies))
  <1> DEFINE g == Told(h, replies)
  <1>1. h.outgoing \in Seq(ReplySet)  BY DEF HostSet
  <1>2. /\ h.outgoing \o replies \in Seq(ReplySet)
        /\ Range(h.outgoing \o replies) = Range(h.outgoing) \cup Range(replies)
    BY <1>1, RangeOfConcat
  <1>3. Len(h.outgoing \o replies) = Len(h.outgoing) + Len(replies)  BY <1>1, ConcatProperties
  <1>4. /\ g \in HostSet /\ g.outgoing = h.outgoing \o replies
        /\ g.active = h.active /\ g.waiting = h.waiting /\ g.closing = h.closing
        /\ g.processed = h.processed /\ g.sequence = h.sequence /\ g.pending = h.pending
        /\ g.current = h.current /\ g.detached = h.detached
        /\ g.stopped = h.stopped /\ g.exists = h.exists
    BY <1>1, <1>2 DEF HostSet, Told
  <1>5. Len(h.outgoing) \in Nat /\ Len(replies) \in Nat  BY <1>1
  <1> HIDE DEF g
  <1>6. IsTold(h, replies, g)  BY <1>1, <1>2, <1>3, <1>4, <1>5 DEF IsTold
  <1> QED  BY <1>6 DEF g

LEMMA ReplyFits ==
    ASSUME NEW h \in HostSet, NEW replies \in Seq(ReplySet), h.active # 0,
           Len(h.outgoing) + Len(replies) <= MaxOutgoing
    PROVE  Reply(h, replies) = Told(h, replies)
  <1>1. Len(h.outgoing) \in Nat /\ Len(replies) \in Nat  BY DEF HostSet
  <1>2. MaxOutgoing \in Nat  BY LimitFits
  <1>3. ~(Len(h.outgoing) + Len(replies) > MaxOutgoing)  BY <1>1, <1>2
  <1> QED  BY <1>3, Zenon DEF Reply, Told

LEMMA DebtPaid ==
    ASSUME NEW o \in Nat, NEW l \in Nat, NEW k \in Nat, NEW r \in Nat, NEW m \in Nat, NEW e \in Nat,
           NEW max \in Nat, o + l + k + e <= max, m <= k + r, r <= l
    PROVE  /\ o + (l - r) + 0 + e <= max
           /\ (o + m) + (l - r) + 0 + e <= max
           /\ o + m <= max
  OBVIOUS

(* Releases are told, the leases are gone, and nothing else is owed less.   *)
LEMMA PollReplyRuns ==
    ASSUME NEW c, NEW h, NEW s, NEW u, NEW d, NEW n, ChannelOk(c, h, s, u, d), Runs(c, h, s, u, d, n),
           ~h.closing, NEW g, g = Reply(h, Releases(s)), NEW t, t = PollSession(s)
    PROVE  /\ Runs(c, g, t, u, d, n)
           /\ g = IF h.active = 0 THEN h ELSE Told(h, Releases(s))
           /\ t.redundant = {} /\ Returned(t) = {} /\ SessionType(t)
  <1> DEFINE rs == Releases(s)
  <1>1. h \in HostSet /\ SessionType(s) /\ HostOk(c, h, s) /\ d \in Seq(ReplySet)  BY DEF ChannelOk
  <1>2. ChannelRuns(c, h, s, u, d) /\ Connected(c, h, n) /\ n \in Nat  BY DEF Runs
  <1>3. SessionRuns(h, s) /\ Bounded(h, s)  BY <1>2 DEF ChannelRuns, HostRuns
  <1>4. SessionRuns(h, t)  BY <1>1, <1>3, PollRuns
  <1>5. Polled(s, t)  BY <1>1, PollPolls
  <1>6. t.redundant = {} /\ SessionType(t) /\ t.leases = s.leases \ Returned(s)
    BY <1>3, <1>5 DEF Polled, SessionRuns
  <1>7. Returned(t) = {}  BY <1>6 DEF Returned
  <1>8. /\ rs \in Seq(ReplySet) /\ Len(rs) \in Nat
        /\ Len(rs) <= Cardinality(s.redundant) + Cardinality(Returned(s))
        /\ Cardinality(Returned(s)) \in Nat /\ Returned(s) \in SUBSET s.leases
        /\ \A j, k \in 1..Len(rs) : Same(rs[j], rs[k]) => j = k
    BY <1>1, ReleasesOnce
  <1>9. /\ Cardinality(s.leases) \in Nat /\ Cardinality(s.redundant) \in Nat /\ IsFiniteSet(s.leases)
        /\ Cardinality(t.leases) \in Nat
    BY <1>1, <1>6, OnPlaneFinite
  <1>10. Cardinality(t.leases) = Cardinality(s.leases) - Cardinality(Returned(s))
    <2>1. s.leases \cap Returned(s) = Returned(s)  BY <1>8
    <2>2. Cardinality(s.leases \ Returned(s)) = Cardinality(s.leases) - Cardinality(s.leases \cap Returned(s))
      BY <1>9, FS_Difference
    <2> QED  BY <1>6, <2>1, <2>2
  <1>11. Cardinality(t.redundant) = 0  BY <1>6, FS_EmptySet
  <1>12. \A i \in Planes : Cardinality(OnPlane(t, i)) <= MaxAllocations
    <2> SUFFICES ASSUME NEW i \in Planes PROVE Cardinality(OnPlane(t, i)) <= MaxAllocations  OBVIOUS
    <2>1. OnPlane(t, i) \in SUBSET OnPlane(s, i)  BY <1>6 DEF OnPlane
    <2>2. /\ IsFiniteSet(OnPlane(s, i)) /\ Cardinality(OnPlane(s, i)) \in Nat
          /\ Cardinality(OnPlane(t, i)) \in Nat
      BY <1>1, <1>6, OnPlaneFinite
    <2>3. Cardinality(OnPlane(t, i)) <= Cardinality(OnPlane(s, i))  BY <2>1, <2>2, FS_Subset
    <2>4. Cardinality(OnPlane(s, i)) <= MaxAllocations /\ MaxAllocations \in Nat
      BY <1>3, AllocationsAssumption DEF Bounded
    <2> QED  BY <2>2, <2>3, <2>4
  <1>13. Debt(h, s) <= Limit /\ Len(h.outgoing) \in Nat  BY <1>1, <1>3 DEF Bounded, HostSet
  <1> DEFINE e == IF h.processed THEN 0 ELSE 1
  <1>14. e \in {0, 1} /\ Debt(h, s) = Len(h.outgoing) + Cardinality(s.leases) + Cardinality(s.redundant) + e
    BY DEF Debt
  <1>15. Cardinality(Returned(s)) <= Cardinality(s.leases)  BY <1>8, <1>9, FS_Subset
  <1> HIDE DEF e
  <1>16. /\ Len(h.outgoing) + Len(rs) <= Limit
         /\ Len(h.outgoing) + Cardinality(t.leases) + Cardinality(t.redundant) + e <= Limit
         /\ (Len(h.outgoing) + Len(rs)) + Cardinality(t.leases) + Cardinality(t.redundant) + e <= Limit
    <2>1. e \in Nat /\ Limit \in Nat  BY <1>14, LimitFits
    <2>2. Len(h.outgoing) + Cardinality(s.leases) + Cardinality(s.redundant) + e <= Limit  BY <1>13, <1>14
    <2> DEFINE o == Len(h.outgoing)
               m == Len(rs)
               l == Cardinality(s.leases)
               k == Cardinality(s.redundant)
               r == Cardinality(Returned(s))
    <2>3. o \in Nat /\ m \in Nat /\ l \in Nat /\ k \in Nat /\ r \in Nat
          /\ o + l + k + e <= Limit /\ m <= k + r /\ r <= l
      BY <1>8, <1>9, <1>13, <1>15, <2>2
    <2>4. Cardinality(t.leases) = l - r /\ Cardinality(t.redundant) = 0  BY <1>10, <1>11
    <2> HIDE DEF o, m, l, k, r
    <2>5. o + (l - r) + 0 + e <= Limit /\ (o + m) + (l - r) + 0 + e <= Limit /\ o + m <= Limit
      BY <2>1, <2>3, DebtPaid
    <2>6. /\ o + m <= Limit
          /\ o + Cardinality(t.leases) + Cardinality(t.redundant) + e <= Limit
          /\ (o + m) + Cardinality(t.leases) + Cardinality(t.redundant) + e <= Limit
      BY <2>4, <2>5
    <2> QED  BY <2>6 DEF o, m
  <1>17. Keeps(s, t)
    <2>1. t.leases \subseteq s.leases /\ t.redundant \subseteq s.redundant  BY <1>6
    <2> QED  BY <2>1, KeepsFewer
  <1>18. CASE h.active = 0
    <2>1. g = h  BY <1>18 DEF Reply
    <2>2. Debt(h, t) = Len(h.outgoing) + Cardinality(t.leases) + Cardinality(t.redundant) + e
      BY DEF Debt, e
    <2>3. Debt(h, t) <= Limit  BY <1>16, <2>2
    <2>4. Bounded(h, t)  BY <1>12, <2>3 DEF Bounded
    <2>5. ChannelRuns(c, h, t, u, d)  BY <1>2, <1>4, <1>17, <2>4, SessionKeepsRuns
    <2> QED  BY <1>2, <1>6, <1>7, <1>18, <2>1, <2>5 DEF Runs
  <1>19. CASE h.active # 0
    <2>1. g = Told(h, rs)
      <3>1. Len(h.outgoing) + Len(rs) <= MaxOutgoing  BY <1>8, <1>13, <1>16, LimitFits
      <3> QED  BY <1>1, <1>8, <1>19, <3>1, ReplyFits
    <2>2. /\ g \in HostSet /\ g.outgoing = h.outgoing \o rs
          /\ g.active = h.active /\ g.waiting = h.waiting /\ g.closing = h.closing
          /\ g.processed = h.processed /\ g.sequence = h.sequence /\ g.pending = h.pending
          /\ g.current = h.current /\ g.detached = h.detached
          /\ g.stopped = h.stopped /\ g.exists = h.exists
          /\ Range(h.outgoing \o rs) = Range(h.outgoing) \cup Range(rs)
          /\ Len(h.outgoing \o rs) = Len(h.outgoing) + Len(rs)
          /\ h.outgoing \in Seq(ReplySet)
      <3>1. IsTold(h, rs, g)  BY <1>1, <1>8, <2>1, ToldFacts
      <3> QED  BY <3>1 DEF IsTold
    <2>3. Connected(c, g, n)  BY <1>2, <2>2 DEF Connected
    <2>4. SessionRuns(g, t)  BY <1>4, <2>2 DEF SessionRuns
    <2>5. Bounded(g, t)
      <3>1. Debt(g, t) = (Len(h.outgoing) + Len(rs)) + Cardinality(t.leases) + Cardinality(t.redundant) + e
        BY <2>2 DEF Debt, e
      <3>2. Debt(g, t) <= Limit  BY <1>16, <3>1
      <3> QED  BY <1>12, <3>2 DEF Bounded
    <2>6. HostRuns(g, t)  BY <1>19, <2>2, <2>4, <2>5 DEF HostRuns
    <2>7. (Live(c, g) <=> Live(c, h)) /\ (Awaited(c, g) <=> Awaited(c, h))
      BY <2>2 DEF Live, Awaited
    <2>8. ASSUME Live(c, h) PROVE LiveRuns(c, g, t, u, d)
      <3> DEFINE fs == c.presenter.flights
                 R == Replies(h, d)
      <3>1. LiveRuns(c, h, s, u, d)  BY <1>2, <2>8 DEF ChannelRuns
      <3>2. Orderly(fs, Range(d), h.outgoing) /\ Owed(fs, h, s, R)  BY <3>1 DEF LiveRuns
      <3>3. R = Range(d) \cup Range(h.outgoing)  BY DEF Replies
      <3>4. \A r \in Range(rs) :
               /\ r.op = "released"
               /\ \/ \E x \in s.redundant : Same(x, r)
                  \/ s.state # "closed" /\ \E l \in Returned(s) : Same(l, r)
        BY <1>1, ReleasesRetired
      <3> HIDE DEF rs
      <3>5. \A r \in Range(rs) : \E x \in s.leases \cup s.redundant : Same(r, x)
        BY <1>8, <3>4 DEF Same
      <3>6. \A x \in s.leases \cup s.redundant : Awaits(fs, R, x)  BY <3>2 DEF Owed
      <3>7. \A r \in Range(rs) : r.op = "released" /\ Awaits(fs, R, r)  BY <3>4, <3>5, <3>6, AwaitsSame
      <3>8. Orderly(fs, R, rs)  BY <1>8, <3>7, OrderlyReleases
      <3>9. Orderly(fs, Range(d), g.outgoing)
        <4>1. Orderly(fs, Range(d) \cup Range(h.outgoing), rs)  BY <3>3, <3>8
        <4>2. Orderly(fs, Range(d), h.outgoing \o rs)  BY <1>8, <2>2, <3>2, <4>1, OrderlyConcat
        <4> QED  BY <2>2, <4>2
      <3>10. Replies(g, d) = R \cup Range(rs)  BY <2>2 DEF Replies
      <3>11. Fitting(c, h, t, rs)  BY PollReplies DEF rs
      <3>12. ASSUME NEW l \in t.leases PROVE Awaits(fs, R \cup Range(rs), l)
        <4>1. Awaits(fs, R, l)  BY <1>6, <3>6
        <4>2. \A r \in Range(rs) : ~Same(l, r)  BY <2>8, <3>4, <3>11 DEF Fitting
        <4> QED  BY <4>1, <4>2 DEF Awaits, Acc, Rel, Same
      <3>13. Owed(fs, g, t, R \cup Range(rs))
        <4>1. ASSUME ~g.processed
              PROVE  /\ h.sequence \in DOMAIN fs
                     /\ Acc(fs[h.sequence], R \cup Range(rs), h.sequence)
                     /\ ~Pro(fs[h.sequence], R \cup Range(rs), h.sequence)
          <5>1. /\ h.sequence \in DOMAIN fs
                /\ Acc(fs[h.sequence], R, h.sequence) /\ ~Pro(fs[h.sequence], R, h.sequence)
            BY <2>2, <3>2, <4>1 DEF Owed
          <5> QED  BY <3>4, <5>1 DEF Acc, Pro
        <4> QED  BY <1>6, <2>2, <3>12, <4>1 DEF Owed
      <3>14. Taken(g) = Taken(h)  BY <2>2 DEF Taken
      <3> QED  BY <2>2, <3>1, <3>9, <3>10, <3>13, <3>14 DEF LiveRuns
    <2>9. ChannelRuns(c, g, t, u, d)  BY <1>2, <2>6, <2>7, <2>8 DEF ChannelRuns
    <2> QED  BY <1>2, <1>6, <1>7, <1>19, <2>1, <2>3, <2>9 DEF Runs
  <1> QED  BY <1>18, <1>19
(* The commands of the frame accepted last were processed.                  *)
LEMMA ProcessedRuns ==
    ASSUME NEW c, NEW h, NEW s, NEW u, NEW d, NEW n, ChannelOk(c, h, s, u, d), Runs(c, h, s, u, d, n),
           ~h.closing, ~h.processed, s.acked,
           NEW g, g = [Reply(h, <<[op |-> "processed", seq |-> h.sequence]>>) EXCEPT !.processed = TRUE]
    PROVE  Runs(c, g, s, u, d, n)
  <1> DEFINE r == [op |-> "processed", seq |-> h.sequence]
             k == Told(h, <<r>>)
  <1>1. h \in HostSet /\ SessionType(s) /\ HostOk(c, h, s) /\ d \in Seq(ReplySet)  BY DEF ChannelOk
  <1>2. ChannelRuns(c, h, s, u, d) /\ Connected(c, h, n) /\ n \in Nat  BY DEF Runs
  <1>3. SessionRuns(h, s) /\ Bounded(h, s) /\ h.active # 0  BY <1>2 DEF ChannelRuns, HostRuns
  <1>4. r \in ReplySet /\ r.op = "processed" /\ r.seq = h.sequence  BY <1>1 DEF ReplySet, HostSet
  <1>5. g = [Reply(h, <<r>>) EXCEPT !.processed = TRUE]  OBVIOUS
  <1> HIDE DEF r
  <1>6. <<r>> \in Seq(ReplySet) /\ Range(<<r>>) = {r} /\ Len(<<r>>) = 1  BY <1>4, RangeOfOne
  <1>7. /\ Cardinality(s.leases) \in Nat /\ Cardinality(s.redundant) \in Nat  BY <1>1, OnPlaneFinite
  <1>8. Len(h.outgoing) \in Nat /\ Debt(h, s) <= Limit
        /\ Debt(h, s) = Len(h.outgoing) + Cardinality(s.leases) + Cardinality(s.redundant) + 1
    BY <1>1, <1>3 DEF HostSet, Debt, Bounded
  <1>9. Len(h.outgoing) + Len(<<r>>) <= MaxOutgoing  BY <1>6, <1>7, <1>8, LimitFits
  <1>10. Reply(h, <<r>>) = k  BY <1>1, <1>3, <1>6, <1>9, ReplyFits
  <1>11. IsTold(h, <<r>>, k)  BY <1>1, <1>6, ToldFacts
  <1> HIDE DEF k
  <1>12. /\ k \in HostSet /\ k.outgoing = h.outgoing \o <<r>>
         /\ k.active = h.active /\ k.waiting = h.waiting /\ k.closing = h.closing
         /\ k.sequence = h.sequence /\ k.pending = h.pending
         /\ k.current = h.current /\ k.detached = h.detached
         /\ k.stopped = h.stopped /\ k.exists = h.exists
         /\ Range(h.outgoing \o <<r>>) = Range(h.outgoing) \cup Range(<<r>>)
         /\ Len(h.outgoing \o <<r>>) = Len(h.outgoing) + Len(<<r>>)
         /\ h.outgoing \in Seq(ReplySet)
    BY <1>11 DEF IsTold
  <1>13. g = [k EXCEPT !.processed = TRUE]  BY <1>5, <1>10
  <1>14. /\ g.outgoing = h.outgoing \o <<r>> /\ g.processed
         /\ g.active = h.active /\ g.waiting = h.waiting /\ g.closing = h.closing
         /\ g.sequence = h.sequence /\ g.pending = h.pending
         /\ g.current = h.current /\ g.detached = h.detached
         /\ g.stopped = h.stopped /\ g.exists = h.exists
    BY <1>12, <1>13, ZenonT(60) DEF HostSet
  <1> HIDE <1>13, <1>5
  <1>15. Connected(c, g, n)  BY <1>2, <1>14 DEF Connected
  <1>16. SessionRuns(g, s)  BY <1>3, <1>14 DEF SessionRuns
  <1>17. Bounded(g, s)
    <2>1. Debt(g, s) = (Len(h.outgoing) + 1) + Cardinality(s.leases) + Cardinality(s.redundant) + 0
      BY <1>6, <1>12, <1>14 DEF Debt
    <2>2. Debt(g, s) = Debt(h, s)  BY <1>7, <1>8, <2>1
    <2> QED  BY <1>3, <2>2 DEF Bounded
  <1>18. HostRuns(g, s)  BY <1>3, <1>14, <1>16, <1>17 DEF HostRuns
  <1>19. (Live(c, g) <=> Live(c, h)) /\ (Awaited(c, g) <=> Awaited(c, h))
    BY <1>14 DEF Live, Awaited
  <1>20. ASSUME Live(c, h) PROVE LiveRuns(c, g, s, u, d)
    <2> DEFINE fs == c.presenter.flights
               R == Replies(h, d)
    <2>1. LiveRuns(c, h, s, u, d)  BY <1>2, <1>20 DEF ChannelRuns
    <2>2. Orderly(fs, Range(d), h.outgoing) /\ Owed(fs, h, s, R)  BY <2>1 DEF LiveRuns
    <2>3. R = Range(d) \cup Range(h.outgoing)  BY DEF Replies
    <2>4. /\ h.sequence \in DOMAIN fs
          /\ Acc(fs[h.sequence], R, h.sequence) /\ ~Pro(fs[h.sequence], R, h.sequence)
      BY <2>2 DEF Owed
    <2>5. r.seq \in DOMAIN fs /\ Expects(fs[r.seq], R, r)  BY <1>4, <2>4 DEF Expects
    <2>6. Orderly(fs, R, <<r>>)  BY <2>5, OrderlyOne
    <2>7. Orderly(fs, Range(d), g.outgoing)
      <3>1. Orderly(fs, Range(d) \cup Range(h.outgoing), <<r>>)  BY <2>3, <2>6
      <3>2. Orderly(fs, Range(d), h.outgoing \o <<r>>)  BY <1>6, <1>12, <2>2, <3>1, OrderlyConcat
      <3> QED  BY <1>14, <3>2
    <2>8. Replies(g, d) = R \cup {r}  BY <1>6, <1>12, <1>14 DEF Replies
    <2>9. \A l \in s.leases \cup s.redundant : Awaits(fs, R \cup {r}, l)
      <3>1. \A l \in s.leases \cup s.redundant : Awaits(fs, R, l)  BY <2>2 DEF Owed
      <3> QED  BY <1>4, <3>1 DEF Awaits, Acc, Rel
    <2>10. Owed(fs, g, s, R \cup {r})  BY <1>14, <2>9 DEF Owed
    <2>11. Taken(g) = Taken(h)  BY <1>14 DEF Taken
    <2> QED  BY <1>14, <2>1, <2>7, <2>8, <2>10, <2>11 DEF LiveRuns
  <1>21. ChannelRuns(c, g, s, u, d)  BY <1>2, <1>18, <1>19, <1>20 DEF ChannelRuns
  <1> QED  BY <1>2, <1>15, <1>21 DEF Runs

LEMMA TickPollRuns ==
    ASSUME NEW c, NEW h, NEW polled, NEW n,
           ChannelOk(c, h, session, up, down), Runs(c, h, session, up, down, n),
           polled = PollSession(IF h.closing THEN Close(session) ELSE session)
    PROVE  /\ Runs(c, TickPoll(h, polled), polled, up, down, n)
           /\ ~h.closing => /\ ~TickPoll(h, polled).closing
                            /\ polled.redundant = {} /\ Returned(polled) = {}
           /\ TickPoll(h, polled).detached = h.detached
  <1> DEFINE rs == Releases(session)
             g == Reply(h, rs)
             p == [Reply(g, <<[op |-> "processed", seq |-> h.sequence]>>) EXCEPT !.processed = TRUE]
             k == TickPoll(h, polled)
  <1>1. h \in HostSet /\ SessionType(session) /\ HostOk(c, h, session) /\ c.out \in Nat
    BY DEF ChannelOk
  <1>2. k = IF ~h.processed /\ CommandsProcessed(polled) THEN p ELSE g
    BY Zenon DEF TickPoll
  <1>3. ChannelRuns(c, h, session, up, down) /\ Connected(c, h, n) /\ n \in Nat  BY DEF Runs
  <1> HIDE DEF rs
  <1>4. CASE h.closing
    <2>1. h.active = 0  BY <1>1, <1>4 DEF HostOk
    <2>2. g = h  BY <2>1 DEF Reply
    <2>3. p = [h EXCEPT !.processed = TRUE]  BY <2>1, <2>2 DEF Reply
    <2> HIDE DEF g, p
    <2>4. ASSUME NEW q \in {h, [h EXCEPT !.processed = TRUE]}
          PROVE  Runs(c, q, polled, up, down, n) /\ q.detached = h.detached
      <3>1. /\ q.active = 0 /\ q.waiting = h.waiting /\ q.closing /\ q.current = h.current
            /\ q.detached = h.detached /\ q.stopped = h.stopped /\ q.exists = h.exists
        BY <1>1, <1>4, <2>1 DEF HostSet
      <3>2. HostRuns(q, polled)  BY <1>3, <2>1, <3>1 DEF ChannelRuns, HostRuns
      <3>3. ~Live(c, q) /\ (Awaited(c, q) <=> Awaited(c, h))  BY <1>1, <3>1 DEF HostOk, Live, Awaited
      <3>4. Connected(c, q, n)  BY <1>3, <2>1, <3>1 DEF Connected
      <3> QED  BY <1>3, <3>1, <3>2, <3>3, <3>4 DEF Runs, ChannelRuns
    <2>5. k \in {h, [h EXCEPT !.processed = TRUE]}  BY <1>2, <2>2, <2>3
    <2> HIDE DEF k
    <2>6. Runs(c, k, polled, up, down, n) /\ k.detached = h.detached  BY <2>4, <2>5
    <2> QED  BY <1>4, <2>6 DEF k
  <1>5. CASE ~h.closing
    <2>1. polled = PollSession(session)  BY <1>5
    <2>2. /\ Runs(c, g, polled, up, down, n)
          /\ g = IF h.active = 0 THEN h ELSE Told(h, rs)
          /\ polled.redundant = {} /\ Returned(polled) = {} /\ SessionType(polled)
      BY <1>5, <2>1, PollReplyRuns DEF rs
    <2>3. rs \in Seq(ReplySet)  BY <1>1, ReleasesRetired DEF rs
    <2>4. /\ g \in HostSet /\ ~g.closing /\ g.processed = h.processed /\ g.sequence = h.sequence
          /\ g.detached = h.detached
      <3>1. IsTold(h, rs, Told(h, rs))  BY <1>1, <2>3, ToldFacts
      <3> HIDE DEF g
      <3> QED  BY <1>1, <1>5, <2>2, <3>1 DEF IsTold
    <2>5. ChannelOk(c, g, polled, up, down)
      <3>1. ChannelOk(c, h, polled, up, down) /\ Fitting(c, h, polled, rs)  BY <2>1, PollReplies DEF rs
      <3> QED  BY <3>1, ReplyOk
    <2> HIDE DEF g
    <2>6. ASSUME ~h.processed, polled.acked
          PROVE  Runs(c, p, polled, up, down, n) /\ ~p.closing /\ p.detached = h.detached
      <3>1. p = [Reply(g, <<[op |-> "processed", seq |-> g.sequence]>>) EXCEPT !.processed = TRUE]
        BY <2>4
      <3> DEFINE one == <<[op |-> "processed", seq |-> g.sequence]>>
      <3>2. Runs(c, p, polled, up, down, n)  BY <2>2, <2>4, <2>5, <2>6, <3>1, ProcessedRuns
      <3>3. Reply(g, one) = Told(g, one) /\ one \in Seq(ReplySet)
        <4>1. [op |-> "processed", seq |-> g.sequence] \in ReplySet  BY <2>4 DEF ReplySet, HostSet
        <4>2. one \in Seq(ReplySet) /\ Len(one) = 1  BY <4>1, RangeOfOne
        <4>3. Bounded(g, polled) /\ g.active # 0
          BY <2>2, <2>4, <2>6 DEF Runs, ChannelRuns, HostRuns
        <4>4. Cardinality(polled.leases) \in Nat /\ Cardinality(polled.redundant) \in Nat
          BY <2>2, OnPlaneFinite
        <4>5. Len(g.outgoing) \in Nat /\ Debt(g, polled) <= Limit
              /\ Debt(g, polled) = Len(g.outgoing) + Cardinality(polled.leases) + Cardinality(polled.redundant) + 1
          BY <2>4, <2>6, <4>3 DEF HostSet, Debt, Bounded
        <4>6. Len(g.outgoing) + Len(one) <= MaxOutgoing  BY <4>2, <4>4, <4>5, LimitFits
        <4> HIDE DEF one
        <4> QED  BY <2>4, <4>2, <4>3, <4>6, ReplyFits
      <3>4. IsTold(g, one, Told(g, one))  BY <2>4, <3>3, ToldFacts
      <3> HIDE DEF one, p
      <3>5. p = [Told(g, one) EXCEPT !.processed = TRUE]  BY <3>1, <3>3 DEF one
      <3>6. p.closing = g.closing /\ p.detached = g.detached  BY <3>4, <3>5 DEF IsTold, HostSet
      <3> QED  BY <2>4, <3>2, <3>6
    <2>7. CASE ~h.processed /\ CommandsProcessed(polled)
      <3>1. k = p  BY <1>2, <2>7
      <3>2. polled.acked  BY <2>7 DEF CommandsProcessed
      <3> HIDE DEF p, k
      <3> QED  BY <1>5, <2>2, <2>6, <2>7, <3>1, <3>2 DEF k
    <2>8. CASE ~(~h.processed /\ CommandsProcessed(polled))
      <3>1. k = g  BY <1>2, <2>8
      <3> HIDE DEF p, k
      <3> QED  BY <1>5, <2>2, <2>4, <3>1 DEF k
    <2> QED  BY <2>7, <2>8
  <1> QED  BY <1>4, <1>5

LEMMA ActivateRuns ==
    ASSUME NEW c, NEW h, NEW s, NEW u, NEW d, NEW n, ChannelOk(c, h, s, u, d), Runs(c, h, s, u, d, n),
           ~h.closing
    PROVE  Runs(c, Activate(h), s, u, d, n)
  <1>1. h \in HostSet /\ c.out \in Nat /\ HostOk(c, h, s)  BY DEF ChannelOk
  <1>2. ChannelRuns(c, h, s, u, d) /\ Connected(c, h, n) /\ n \in Nat  BY DEF Runs
  <1>3. CASE h.stopped \/ h.active # 0 \/ h.waiting = 0
    <2>1. Activate(h) = h  BY <1>3 DEF Activate
    <2> QED  BY <2>1
  <1>4. CASE ~(h.stopped \/ h.active # 0 \/ h.waiting = 0)
    <2> DEFINE g == [h EXCEPT !.active = h.waiting, !.waiting = 0]
    <2>1. Activate(h) = g  BY <1>4 DEF Activate
    <2>2. h.waiting = c.out /\ h.active = 0 /\ c.out # 0  BY <1>1, <1>4 DEF HostOk
    <2>3. /\ g.waiting = 0 /\ g.active = c.out /\ ~g.closing
          /\ g.outgoing = h.outgoing /\ g.pending = h.pending /\ g.sequence = h.sequence
          /\ g.processed = h.processed /\ g.current = h.current
          /\ g.detached = h.detached /\ g.stopped = h.stopped /\ g.exists = h.exists
      BY <1>1, <2>2 DEF HostSet
    <2> HIDE DEF g
    <2>4. h.outgoing = <<>> /\ h.pending = None /\ s.leases = {} /\ s.redundant = {} /\ h.sequence = 0
      BY <1>1, <2>2 DEF HostOk
    <2>5. HostRuns(h, s) /\ h.current = NoPlanes /\ h.processed  BY <1>2, <2>2 DEF ChannelRuns, HostRuns
    <2>6. SessionRuns(g, s) /\ Bounded(g, s)
      BY <2>3, <2>5 DEF HostRuns, SessionRuns, Bounded, Debt
    <2>7. HostRuns(g, s)  BY <2>2, <2>3, <2>6 DEF HostRuns
    <2>8. ~Awaited(c, g) /\ (Live(c, g) => Awaited(c, h))  BY <2>2, <2>3 DEF Awaited, Live
    <2>9. ASSUME Awaited(c, h) PROVE LiveRuns(c, g, s, u, d)
      <3>1. AwaitedOk(c, u, d) /\ AwaitedRuns(c, u)  BY <1>2, <2>9 DEF ChannelOk, ChannelRuns
      <3>2. d = <<>>  BY <3>1 DEF AwaitedOk
      <3>3. /\ Orderly(c.presenter.flights, {}, <<>>)
            /\ Orderly(c.presenter.flights, Range(d), <<>>)
        BY OrderlyNone
      <3>4. Taken(g) = 0  BY <2>3, <2>4 DEF Taken
      <3>5. Owed(c.presenter.flights, g, s, Replies(g, d))  BY <2>3, <2>4, <2>5 DEF Owed
      <3> QED  BY <2>3, <2>4, <2>5, <3>1, <3>2, <3>3, <3>4, <3>5 DEF LiveRuns, AwaitedRuns
    <2>10. Connected(c, g, n)  BY <1>2, <2>3 DEF Connected
    <2>11. Runs(c, g, s, u, d, n)  BY <1>2, <2>7, <2>8, <2>9, <2>10 DEF Runs, ChannelRuns
    <2> QED  BY <2>1, <2>11
  <1> QED  BY <1>3, <1>4

LEMMA FlushRuns ==
    ASSUME NEW c, NEW h, NEW s, NEW u, NEW d, NEW n, ChannelOk(c, h, s, u, d), Runs(c, h, s, u, d, n),
           ~Awaited(c, h), h.active # 0, ~h.closing
    PROVE  Runs(c, [h EXCEPT !.outgoing = <<>>], s, u, d \o h.outgoing, n)
  <1> DEFINE g == [h EXCEPT !.outgoing = <<>>]
             e == d \o h.outgoing
  <1>1. h \in HostSet /\ h.outgoing \in Seq(ReplySet) /\ d \in Seq(ReplySet) /\ SessionType(s)
    BY DEF ChannelOk, HostSet
  <1>2. ChannelRuns(c, h, s, u, d) /\ Connected(c, h, n) /\ n \in Nat  BY DEF Runs
  <1>3. /\ g.waiting = h.waiting /\ g.active = h.active /\ g.closing = h.closing
        /\ g.outgoing = <<>> /\ g.pending = h.pending /\ g.sequence = h.sequence
        /\ g.processed = h.processed /\ g.current = h.current
        /\ g.detached = h.detached /\ g.stopped = h.stopped /\ g.exists = h.exists
    BY <1>1, EmptySeq DEF HostSet
  <1>4. e \in Seq(ReplySet) /\ Range(e) = Range(d) \cup Range(h.outgoing)  BY <1>1, RangeOfConcat
  <1> HIDE DEF g
  <1>5. Replies(g, e) = Replies(h, d)  BY <1>3, <1>4, RangeOfNone DEF Replies
  <1>6. SessionRuns(h, s) /\ Bounded(h, s)  BY <1>2 DEF ChannelRuns, HostRuns
  <1>7. Bounded(g, s)
    <2> DEFINE o == Len(h.outgoing)
               x == Cardinality(s.leases)
               y == Cardinality(s.redundant)
               z == IF h.processed THEN 0 ELSE 1
    <2>1. o \in Nat /\ x \in Nat /\ y \in Nat /\ z \in Nat  BY <1>1, OnPlaneFinite
    <2>2. o + x + y + z <= Limit  BY <1>6 DEF Bounded, Debt
    <2>3. Len(g.outgoing) = 0  BY <1>3
    <2>4. Debt(g, s) = 0 + x + y + z  BY <1>3, <2>3 DEF Debt
    <2> HIDE DEF o, x, y, z
    <2>5. 0 + x + y + z <= Limit  BY <2>1, <2>2, LimitFits
    <2>6. Debt(g, s) <= Limit  BY <2>4, <2>5
    <2> QED  BY <1>6, <2>6 DEF Bounded
  <1>8. SessionRuns(g, s)  BY <1>3, <1>6 DEF SessionRuns
  <1>9. HostRuns(g, s)  BY <1>3, <1>7, <1>8 DEF HostRuns
  <1>10. (Live(c, g) <=> Live(c, h)) /\ ~Awaited(c, g)  BY <1>3 DEF Live, Awaited
  <1>11. ASSUME Live(c, h) PROVE LiveRuns(c, g, s, u, e)
    <2> DEFINE fs == c.presenter.flights
    <2>1. LiveRuns(c, h, s, u, d)  BY <1>2, <1>11 DEF ChannelRuns
    <2>2. Orderly(fs, {}, d) /\ Orderly(fs, Range(d), h.outgoing)  BY <2>1 DEF LiveRuns
    <2>3. {} \cup Range(d) = Range(d)  OBVIOUS
    <2>4. Orderly(fs, {} \cup Range(d), h.outgoing)  BY <2>2, <2>3
    <2>5. Orderly(fs, {}, e)  BY <1>1, <2>2, <2>4, OrderlyConcat
    <2>6. Orderly(fs, Range(e), g.outgoing)  BY <1>3, OrderlyNone
    <2>7. Owed(fs, g, s, Replies(g, e))  BY <1>3, <1>5, <2>1 DEF LiveRuns, Owed
    <2>8. Taken(g) = Taken(h)  BY <1>3 DEF Taken
    <2> HIDE DEF e
    <2> QED  BY <1>3, <2>1, <2>5, <2>6, <2>7, <2>8 DEF LiveRuns
  <1>12. Connected(c, g, n)  BY <1>2, <1>3 DEF Connected
  <1> HIDE DEF e
  <1>13. Runs(c, g, s, u, e, n)  BY <1>2, <1>9, <1>10, <1>11, <1>12 DEF Runs, ChannelRuns
  <1> QED  BY <1>13 DEF g, e

LEMMA ReceiveRuns ==
    ASSUME NEW c, NEW h, NEW s, NEW u, NEW d, NEW n, ChannelOk(c, h, s, u, d), Runs(c, h, s, u, d, n),
           ~Awaited(c, h), Receives(h, u)
    PROVE  /\ Runs(c, Received(h, u), s, Tail(u), d, n)
           /\ Received(h, u).outgoing = h.outgoing /\ Received(h, u).closing = h.closing
  <1> DEFINE m == Head(u)
             v == Tail(u)
             g == Received(h, u)
  <1>1. h \in HostSet /\ u \in Seq(MessageSet) /\ u # <<>> /\ h.active # 0 /\ h.pending = None
    BY DEF ChannelOk, Receives
  <1>2. ChannelRuns(c, h, s, u, d) /\ Connected(c, h, n) /\ n \in Nat  BY DEF Runs
  <1>3. /\ m \in MessageSet /\ m = u[1] /\ v \in Seq(MessageSet)
        /\ Len(u) \in Nat /\ Len(u) > 0 /\ Len(v) = Len(u) - 1
        /\ \A k \in 1..Len(v) : v[k] = u[k + 1] /\ k + 1 \in 1..Len(u)
    BY <1>1, TailFacts
  <1>4. m.seq \in Nat /\ h.sequence \in Nat  BY <1>1, <1>3 DEF MessageSet, HostSet
  <1>5. g = [h EXCEPT !.pending = m, !.sequence = m.seq]  BY DEF Received
  <1> HIDE DEF m, v, g
  <1>6. /\ g.waiting = h.waiting /\ g.active = h.active /\ g.closing = h.closing
        /\ g.outgoing = h.outgoing /\ g.pending = m /\ g.sequence = m.seq
        /\ g.processed = h.processed /\ g.current = h.current
        /\ g.detached = h.detached /\ g.stopped = h.stopped /\ g.exists = h.exists
    BY <1>1, <1>5 DEF HostSet
  <1>7. SessionRuns(h, s) => SessionRuns(g, s)  BY <1>6 DEF SessionRuns
  <1>8. Bounded(h, s) => Bounded(g, s)  BY <1>6 DEF Bounded, Debt
  <1>9. HostRuns(g, s)  BY <1>2, <1>6, <1>7, <1>8 DEF ChannelRuns, HostRuns
  <1>10. (Live(c, g) <=> Live(c, h)) /\ ~Awaited(c, g)  BY <1>6 DEF Live, Awaited
  <1>11. ASSUME Live(c, h) PROVE LiveRuns(c, g, s, v, d)
    <2> DEFINE p == c.presenter
    <2>1. LiveRuns(c, h, s, u, d) /\ LiveOk(c, h, s, u, d)  BY <1>2, <1>11 DEF ChannelRuns, ChannelOk
    <2>2. m.seq = h.sequence + 1  BY <1>3, <2>1 DEF LiveOk
    <2>3. m # None  BY <1>3, ConstantsAssumption
    <2>4. Taken(g) = Taken(h)  BY <1>1, <1>4, <1>6, <2>2, <2>3 DEF Taken
    <2>5. Sent(p, u)  BY <2>1 DEF LiveRuns
    <2>6. m.frame = p.flights[m.seq].frame  BY <1>3, <2>5 DEF Sent
    <2>7. Sent(p, v)  BY <1>3, <2>5 DEF Sent
    <2>8. Replies(g, d) = Replies(h, d)  BY <1>6 DEF Replies
    <2>9. h.processed  BY DEF Receives
    <2>10. Owed(p.flights, g, s, Replies(g, d))  BY <1>6, <2>1, <2>8, <2>9 DEF LiveRuns, Owed
    <2>11. g.sequence > 0  BY <1>4, <1>6, <2>2
    <2> QED  BY <1>6, <2>1, <2>4, <2>6, <2>7, <2>10, <2>11 DEF LiveRuns
  <1>12. Connected(c, g, n)  BY <1>2, <1>6 DEF Connected
  <1>13. Runs(c, g, s, v, d, n)  BY <1>2, <1>9, <1>10, <1>11, <1>12 DEF Runs, ChannelRuns
  <1> QED  BY <1>6, <1>13 DEF g, v

-----------------------------------------------------------------------------
(* Host::Submit *)

(* What is shown again is on screen or on its way there.                    *)
LEMMA SubmitSupported ==
    ASSUME NEW h, NEW s, SessionType(s), SessionRuns(h, s), NEW f \in FrameSet,
           \A i \in DOMAIN f : f[i].reuse => h.current[i] = Contents(f)[i]
    PROVE  Imported(h, f) /\ SubmitResult(s, f) \in {"accepted", "busy"}
  <1>1. DOMAIN f \subseteq Planes /\ \A i \in DOMAIN f : f[i].buf \in Names(0) \cup Names(1)
    BY FrameFacts
  <1>2. \A i \in DOMAIN f : f[i].buf # None  BY <1>1, ConstantsAssumption
  <1>3. ASSUME NEW i \in DOMAIN f, f[i].reuse
        PROVE  h.current[i].content = f[i].content /\ Reusable(s, i, f[i])
    <2>1. Contents(f)[i] = [buf |-> f[i].buf, content |-> f[i].content]  BY <1>1 DEF Contents
    <2>2. h.current[i].buf = f[i].buf /\ h.current[i].content = f[i].content  BY <1>3, <2>1
    <2>3. s.current[i] = f[i].buf  BY <1>1, <2>2 DEF SessionRuns
    <2>4. Leased(s, i)  BY <1>1, <1>2, <2>3 DEF SessionRuns, Showing
    <2>5. \E l \in s.leases : l.buf = f[i].buf /\ l.plane = i /\ l.rs # "returned"
      BY <2>3, <2>4 DEF Leased
    <2> QED  BY <2>2, <2>3, <2>5 DEF Reusable
  <1>4. Imported(h, f)  BY <1>3 DEF Imported
  <1>5. \A i \in DOMAIN f : Reusable(s, i, f[i])  BY <1>3 DEF Reusable
  <1>6. s.state = "running"  BY DEF SessionRuns
  <1> QED  BY <1>4, <1>5, <1>6 DEF SubmitResult

(* The frames that a presenter has sent are among its own.                  *)
Sender(p) == p \in PresenterSet /\ p.sent <= p.sequence

(* The frame that the host holds is not answered yet, and shows again what  *)
(* the host shows.                                                          *)
Unanswered(p, h, R) ==
    LET q == h.sequence
    IN /\ h.pending.seq = q /\ q \in DOMAIN p.flights /\ q \in 1..p.sequence
       /\ h.pending.frame = p.flights[q].frame /\ p.flights[q] \in FlightSet
       /\ ~p.flights[q].accepted /\ ~p.flights[q].processed
       /\ p.flights[q].released = Planes \ DOMAIN h.pending.frame
       /\ \A r \in R : r.seq # q
       /\ \A i \in DOMAIN h.pending.frame :
             h.pending.frame[i].reuse => h.current[i] = Contents(h.pending.frame)[i]

LEMMA PendingFacts ==
    ASSUME NEW c, NEW h, NEW s, NEW u, NEW d, ChannelOk(c, h, s, u, d), ChannelRuns(c, h, s, u, d),
           Sender(c.presenter), Live(c, h), h.pending # None
    PROVE  Unanswered(c.presenter, h, Replies(h, d))
  <1> DEFINE p == c.presenter
             q == h.sequence
  <1>1. LiveOk(c, h, s, u, d) /\ LiveRuns(c, h, s, u, d) /\ h \in HostSet /\ HostOk(c, h, s)
        /\ u \in Seq(MessageSet)
    BY DEF ChannelOk, ChannelRuns
  <1>2. q \in Nat /\ q > 0 /\ Taken(h) = q - 1 /\ h.pending.seq = q
    BY <1>1 DEF HostSet, LiveRuns, Taken, HostOk
  <1>3. p \in PresenterSet /\ p.sequence \in Nat /\ p.sent \in Nat /\ p.sent <= p.sequence
    BY DEF Sender, PresenterSet
  <1>4. Len(u) \in Nat /\ p.sent = q + Len(u)  BY <1>1 DEF LiveOk
  <1>5. q \in 1..p.sequence /\ q \in (Taken(h) + 1)..p.sequence /\ q = Taken(h) + 1
    BY <1>2, <1>3, <1>4
  <1>6. FreshFrames(p, Taken(h)) /\ Chained(p, Taken(h), h.current)
        /\ h.pending.frame = p.flights[q].frame
    BY <1>1 DEF LiveRuns
  <1>7. /\ q \in DOMAIN p.flights /\ ~p.flights[q].accepted /\ ~p.flights[q].processed
        /\ p.flights[q].released = Planes \ DOMAIN p.flights[q].frame
    BY <1>5, <1>6 DEF FreshFrames
  <1>8. p.flights[q] \in FlightSet  BY <1>3, <1>7, FlightFacts
  <1>9. \A r \in Replies(h, d) : r.seq # q
    <2>1. \A r \in Replies(h, d) : r.seq < q  BY <1>1 DEF LiveOk
    <2>2. \A r \in Replies(h, d) : r.seq \in Nat
      <3>1. Replies(h, d) \subseteq ReplySet  BY <1>1 DEF ChannelOk, HostSet, Replies, Range
      <3> QED  BY <3>1 DEF ReplySet
    <2> QED  BY <1>2, <2>1, <2>2
  <1>10. \A i \in DOMAIN p.flights[q].frame :
            p.flights[q].frame[i].reuse => h.current[i] = Contents(p.flights[q].frame)[i]
    <2>1. Before(p, Taken(h), h.current, q) = h.current  BY <1>5 DEF Before
    <2> QED  BY <1>5, <1>6, <2>1 DEF Chained
  <1> QED  BY <1>2, <1>5, <1>6, <1>7, <1>8, <1>9, <1>10 DEF Unanswered

(* A host without replies kept takes one more.                              *)
LEMMA ReplyOne ==
    ASSUME NEW h \in HostSet, h.active # 0, h.outgoing = <<>>, NEW r \in ReplySet
    PROVE  /\ Reply(h, <<r>>) = Told(h, <<r>>) /\ IsTold(h, <<r>>, Told(h, <<r>>))
           /\ Told(h, <<r>>).outgoing = <<r>> /\ Len(<<r>>) = 1
           /\ <<r>> \in Seq(ReplySet) /\ Range(<<r>>) = {r}
  <1>1. <<r>> \in Seq(ReplySet) /\ Range(<<r>>) = {r} /\ Len(<<r>>) = 1  BY RangeOfOne
  <1>2. Len(h.outgoing) = 0  OBVIOUS
  <1>3. MaxOutgoing \in Nat /\ MaxOutgoing >= 4
    BY AllocationsAssumption, OutgoingAssumption, ConstantsAssumption
  <1>4. Len(h.outgoing) + Len(<<r>>) <= MaxOutgoing  BY <1>1, <1>2, <1>3
  <1>5. Reply(h, <<r>>) = Told(h, <<r>>)  BY <1>1, <1>4, ReplyFits
  <1>6. IsTold(h, <<r>>, Told(h, <<r>>))  BY <1>1, ToldFacts
  <1>7. Told(h, <<r>>).outgoing = <<>> \o <<r>>  BY <1>6 DEF IsTold
  <1>8. <<>> \o <<r>> = <<r>>  OBVIOUS
  <1> QED  BY <1>1, <1>5, <1>6, <1>7, <1>8

(* The frame is accepted: the flight awaits what the session now owes.      *)
LEMMA AcceptedOwed ==
    ASSUME NEW c, NEW h, NEW s, NEW u, NEW d, ChannelOk(c, h, s, u, d), ChannelRuns(c, h, s, u, d),
           Sender(c.presenter), Live(c, h), h.pending # None, h.outgoing = <<>>,
           NEW r, r = [op |-> "accepted", seq |-> h.pending.seq],
           NEW t, t = Accept(s, h.pending.frame, h.pending.seq),
           NEW g, g.sequence = h.sequence, g.outgoing = <<r>>
    PROVE  /\ Orderly(c.presenter.flights, Range(d), g.outgoing)
           /\ Owed(c.presenter.flights, g, t, Replies(g, d))
  <1> DEFINE p == c.presenter
             fs == p.flights
             q == h.sequence
             f == h.pending.frame
             R == Range(d) \cup {r}
  <1>1. /\ h.pending.seq = q /\ q \in DOMAIN fs /\ f = fs[q].frame
        /\ ~fs[q].accepted /\ ~fs[q].processed /\ fs[q].released = Planes \ DOMAIN f
        /\ \A x \in Replies(h, d) : x.seq # q
    <2>1. Unanswered(p, h, Replies(h, d))  BY PendingFacts
    <2> QED  BY <2>1 DEF Unanswered
  <1>2. Replies(h, d) = Range(d)  BY RangeOfNone DEF Replies
  <1>3. h.pending \in MessageSet /\ SessionType(s) /\ h \in HostSet  BY DEF ChannelOk, HostSet
  <1>4. f \in FrameSet /\ h.pending.seq \in Nat  BY <1>3 DEF MessageSet
  <1>5. DOMAIN f \subseteq Planes  BY <1>4, FrameFacts
  <1>6. t.leases = s.leases \cup NewLeases(f, q) /\ t.redundant = s.redundant \cup NewKeys(f, q)
    <2>1. Accepted(s, f, q, t)  BY <1>1, <1>3, <1>4, AcceptFields
    <2> QED  BY <2>1 DEF Accepted
  <1>7. \A l \in s.leases \cup s.redundant : Awaits(fs, Range(d), l)
    BY <1>2 DEF ChannelRuns, LiveRuns, Owed
  <1>8. r.op = "accepted" /\ r.seq = q  BY <1>1
  <1>9. Replies(g, d) = R
    <2>1. Range(<<r>>) = {r}  BY RangeOfOne
    <2> QED  BY <2>1 DEF Replies
  <1> HIDE DEF fs, f, q, p
  <1>10. \A l \in s.leases \cup s.redundant : Awaits(fs, R, l)
    BY <1>7, <1>8 DEF Awaits, Acc, Rel
  <1>11. \A l : l.seq = q /\ l.plane \in DOMAIN f => Awaits(fs, R, l)
    <2> SUFFICES ASSUME NEW l, l.seq = q, l.plane \in DOMAIN f PROVE Awaits(fs, R, l)  OBVIOUS
    <2>1. Acc(fs[q], R, q)  BY <1>8 DEF Acc
    <2>2. ~Rel(fs[q], R, q, l.plane)  BY <1>1, <1>2, <1>8 DEF Rel
    <2> QED  BY <1>1, <2>1, <2>2 DEF Awaits
  <1>12. \A l \in NewLeases(f, q) \cup NewKeys(f, q) : l.seq = q /\ l.plane \in DOMAIN f
    BY DEF NewLeases, NewLease, NewKeys, Fresh
  <1>13. \A l \in t.leases \cup t.redundant : Awaits(fs, R, l)  BY <1>6, <1>10, <1>11, <1>12
  <1>14. Acc(fs[q], R, q) /\ ~Pro(fs[q], R, q)  BY <1>1, <1>2, <1>8 DEF Acc, Pro
  <1>15. Owed(fs, g, t, R)  BY <1>1, <1>13, <1>14 DEF Owed, q
  <1>16. Expects(fs[q], Range(d), r)  BY <1>1, <1>2, <1>8 DEF Expects, Acc
  <1>17. Orderly(fs, Range(d), <<r>>)  BY <1>1, <1>8, <1>16, OrderlyOne
  <1> QED  BY <1>9, <1>15, <1>17 DEF fs, p

(* The next frame shows again what this one shows.                          *)
LEMMA AcceptedChain ==
    ASSUME NEW p \in PresenterSet, NEW q \in Nat, q > 0, NEW base,
           FreshFrames(p, q - 1), Chained(p, q - 1, base), q \in 1..p.sequence
    PROVE  FreshFrames(p, q) /\ Chained(p, q, Contents(p.flights[q].frame))
  <1> DEFINE m == Contents(p.flights[q].frame)
  <1>1. p.sequence \in Nat  BY DEF PresenterSet
  <1>2. \A s \in (q + 1)..p.sequence : s \in ((q - 1) + 1)..p.sequence  BY <1>1
  <1>3. \A s \in (q + 1)..(p.sequence + 1) : Before(p, q, m, s) = Before(p, q - 1, base, s)
    <2> SUFFICES ASSUME NEW s \in (q + 1)..(p.sequence + 1)
                 PROVE  Before(p, q, m, s) = Before(p, q - 1, base, s)
      OBVIOUS
    <2>1. s # (q - 1) + 1  BY <1>1
    <2>2. Before(p, q - 1, base, s) = Contents(p.flights[s - 1].frame)  BY <2>1 DEF Before
    <2>3. s = q + 1 => s - 1 = q  BY <1>1
    <2> QED  BY <2>2, <2>3 DEF Before
  <1>4. p.sequence + 1 \in (q + 1)..(p.sequence + 1)  BY <1>1
  <1>5. \A s \in (q + 1)..p.sequence : s \in (q + 1)..(p.sequence + 1)  BY <1>1
  <1> HIDE DEF m
  <1>6. Chained(p, q, m)  BY <1>2, <1>3, <1>4, <1>5 DEF Chained
  <1>7. FreshFrames(p, q)  BY <1>2 DEF FreshFrames
  <1> QED  BY <1>6, <1>7 DEF m

LEMMA SubmitAcceptedRuns ==
    ASSUME NEW c, NEW h, NEW s, NEW u, NEW d, NEW n, ChannelOk(c, h, s, u, d), Runs(c, h, s, u, d, n),
           Sender(c.presenter), ~h.closing, h.active # 0, h.pending # None, h.outgoing = <<>>,
           s.redundant = {}, SubmitResult(s, h.pending.frame) = "accepted",
           NEW t, t = Accept(s, h.pending.frame, h.pending.seq),
           NEW r, r = [op |-> "accepted", seq |-> h.pending.seq]
    PROVE  Runs(c, Reply([h EXCEPT !.pending = None, !.processed = FALSE,
                                   !.current = Contents(h.pending.frame)], <<r>>), t, u, d, n)
  <1> DEFINE m == h.pending
             acc == [h EXCEPT !.pending = None, !.processed = FALSE, !.current = Contents(m.frame)]
             g == Told(acc, <<r>>)
  <1>1. h \in HostSet /\ SessionType(s) /\ HostOk(c, h, s) /\ d \in Seq(ReplySet)  BY DEF ChannelOk
  <1>2. ChannelRuns(c, h, s, u, d) /\ Connected(c, h, n) /\ n \in Nat  BY DEF Runs
  <1>3. m \in MessageSet /\ m.frame \in FrameSet /\ m.seq \in Nat /\ m.seq = h.sequence
    BY <1>1 DEF HostSet, HostOk, MessageSet
  <1>4. Contents(m.frame) \in [Planes -> ContentSet]  BY <1>3, ContentsType
  <1>5. r \in ReplySet  BY <1>3 DEF ReplySet
  <1>6. /\ acc \in HostSet /\ acc.active = h.active /\ acc.outgoing = <<>>
        /\ acc.waiting = h.waiting /\ acc.closing = h.closing /\ acc.pending = None
        /\ acc.processed = FALSE /\ acc.sequence = h.sequence /\ acc.current = Contents(m.frame)
        /\ acc.detached = h.detached /\ acc.stopped = h.stopped /\ acc.exists = h.exists
    BY <1>1, <1>4 DEF HostSet
  <1> HIDE DEF acc
  <1>7. Reply(acc, <<r>>) = g /\ IsTold(acc, <<r>>, g) /\ g.outgoing = <<r>> /\ Len(<<r>>) = 1
    BY <1>5, <1>6, ReplyOne
  <1> HIDE DEF g
  <1>8. /\ g.active = h.active /\ g.waiting = h.waiting /\ g.closing = h.closing /\ g.pending = None
        /\ g.processed = FALSE /\ g.sequence = h.sequence /\ g.current = Contents(m.frame)
        /\ g.detached = h.detached /\ g.stopped = h.stopped /\ g.exists = h.exists
        /\ Len(g.outgoing) = 1
    BY <1>6, <1>7 DEF IsTold
  <1>9. SessionRuns(h, s) /\ Bounded(h, s) /\ h.processed = TRUE
    BY <1>1, <1>2 DEF ChannelRuns, HostRuns, HostOk, HostSet
  <1>10. /\ SessionRuns(g, t)
         /\ \A i \in Planes : Cardinality(OnPlane(t, i)) <= MaxAllocations
    <2>1. \A i \in Planes : Cardinality(OnPlane(s, i)) <= MaxAllocations  BY <1>9 DEF Bounded
    <2>2. t = Accept(s, m.frame, m.seq) /\ SubmitResult(s, m.frame) = "accepted"  OBVIOUS
    <2>3. m \in MessageSet /\ g.current = Contents(m.frame) /\ g.processed = FALSE  BY <1>3, <1>8
    <2> HIDE DEF m
    <2> QED  BY <1>1, <1>9, <2>1, <2>2, <2>3, AcceptRuns
  <1>11. Bounded(g, t)  BY <1>1, <1>3, <1>8, <1>10, AcceptBounded
  <1>12. HostRuns(g, t)  BY <1>8, <1>10, <1>11 DEF HostRuns
  <1>13. (Live(c, g) <=> Live(c, h)) /\ (Awaited(c, g) <=> Awaited(c, h))
    BY <1>8 DEF Live, Awaited
  <1>14. ASSUME Live(c, h) PROVE LiveRuns(c, g, t, u, d)
    <2> DEFINE p == c.presenter
               q == h.sequence
    <2>1. LiveRuns(c, h, s, u, d)  BY <1>2, <1>14 DEF ChannelRuns
    <2>2. /\ Orderly(p.flights, Range(d), g.outgoing)
          /\ Owed(p.flights, g, t, Replies(g, d))
      BY <1>2, <1>7, <1>8, <1>14, AcceptedOwed
    <2>3. q \in 1..p.sequence /\ m.frame = p.flights[q].frame
      <3>1. Unanswered(p, h, Replies(h, d))  BY <1>2, <1>14, PendingFacts
      <3> QED  BY <3>1 DEF Unanswered
    <2>4. q \in Nat /\ q > 0 /\ Taken(h) = q - 1 /\ Taken(g) = q
      BY <1>1, <1>8, <2>1 DEF HostSet, LiveRuns, Taken
    <2>5. FreshFrames(p, q - 1) /\ Chained(p, q - 1, h.current)  BY <2>1, <2>4 DEF LiveRuns
    <2>6. p \in PresenterSet  BY DEF Sender
    <2>7. FreshFrames(p, q) /\ Chained(p, q, Contents(p.flights[q].frame))
      BY <2>3, <2>4, <2>5, <2>6, AcceptedChain
    <2>8. FreshFrames(p, Taken(g)) /\ Chained(p, Taken(g), g.current)  BY <1>8, <2>3, <2>4, <2>7
    <2> QED  BY <1>8, <2>1, <2>2, <2>8 DEF LiveRuns
  <1>15. ChannelRuns(c, g, t, u, d)  BY <1>2, <1>12, <1>13, <1>14 DEF ChannelRuns
  <1>16. Connected(c, g, n)  BY <1>2, <1>8 DEF Connected
  <1>17. Runs(c, g, t, u, d, n)  BY <1>2, <1>15, <1>16 DEF Runs
  <1> QED  BY <1>7, <1>17 DEF acc

(* Only a frame of a presenter that is gone is refused.                     *)
LEMMA SubmitRejectedRuns ==
    ASSUME NEW c, NEW h, NEW s, NEW u, NEW d, NEW n, ChannelOk(c, h, s, u, d), Runs(c, h, s, u, d, n),
           ~Live(c, h), ~h.closing, h.active # 0, h.pending # None, h.outgoing = <<>>,
           s.redundant = {}, NEW r, r = [op |-> "rejected", seq |-> h.pending.seq]
    PROVE  Runs(c, Reply([h EXCEPT !.pending = None], <<r>>), s, u, d, n)
  <1> DEFINE ref == [h EXCEPT !.pending = None]
             g == Told(ref, <<r>>)
  <1>1. h \in HostSet /\ SessionType(s) /\ HostOk(c, h, s)  BY DEF ChannelOk
  <1>2. ChannelRuns(c, h, s, u, d) /\ Connected(c, h, n) /\ n \in Nat  BY DEF Runs
  <1>3. h.pending \in MessageSet /\ h.pending.seq \in Nat  BY <1>1 DEF HostSet, MessageSet
  <1>4. r \in ReplySet  BY <1>3 DEF ReplySet
  <1>5. /\ ref \in HostSet /\ ref.active = h.active /\ ref.outgoing = <<>>
        /\ ref.waiting = h.waiting /\ ref.closing = h.closing /\ ref.pending = None
        /\ ref.processed = h.processed /\ ref.sequence = h.sequence /\ ref.current = h.current
        /\ ref.detached = h.detached /\ ref.stopped = h.stopped /\ ref.exists = h.exists
    BY <1>1 DEF HostSet
  <1> HIDE DEF ref
  <1>6. Reply(ref, <<r>>) = g /\ IsTold(ref, <<r>>, g) /\ g.outgoing = <<r>> /\ Len(<<r>>) = 1
    BY <1>4, <1>5, ReplyOne
  <1> HIDE DEF g
  <1>7. /\ g.active = h.active /\ g.waiting = h.waiting /\ g.closing = h.closing
        /\ g.processed = h.processed /\ g.current = h.current
        /\ g.detached = h.detached /\ g.stopped = h.stopped /\ g.exists = h.exists
        /\ Len(g.outgoing) = 1
    BY <1>5, <1>6 DEF IsTold
  <1>8. SessionRuns(h, s) /\ Bounded(h, s)  BY <1>2 DEF ChannelRuns, HostRuns
  <1>9. SessionRuns(g, s)  BY <1>7, <1>8 DEF SessionRuns
  <1>10. Bounded(g, s)
    <2>1. /\ Cardinality(s.leases) \in Nat
          /\ Cardinality(OnPlane(s, 0)) \in Nat /\ Cardinality(OnPlane(s, 1)) \in Nat
      BY <1>1, OnPlaneFinite
    <2>2. Cardinality(s.leases) <= Cardinality(OnPlane(s, 0)) + Cardinality(OnPlane(s, 1))
      BY <1>1, LeasesCount
    <2>3. Cardinality(OnPlane(s, 0)) <= MaxAllocations /\ Cardinality(OnPlane(s, 1)) <= MaxAllocations
      BY <1>8 DEF Bounded, Planes
    <2>4. MaxAllocations \in Nat  BY AllocationsAssumption
    <2>5. Cardinality(s.leases) <= 2 * MaxAllocations  BY <2>1, <2>2, <2>3, <2>4
    <2>6. Cardinality(s.redundant) = 0  BY FS_EmptySet
    <2> DEFINE e == IF g.processed THEN 0 ELSE 1
    <2>7. e \in 0..1 /\ Debt(g, s) = 1 + Cardinality(s.leases) + 0 + e  BY <1>7, <2>6 DEF Debt
    <2> HIDE DEF e
    <2>8. Debt(g, s) <= Limit  BY <2>1, <2>4, <2>5, <2>7 DEF Limit
    <2> QED  BY <1>8, <2>8 DEF Bounded
  <1>11. HostRuns(g, s)  BY <1>7, <1>9, <1>10 DEF HostRuns
  <1>12. ~Live(c, g) /\ (Awaited(c, g) <=> Awaited(c, h))  BY <1>7 DEF Live, Awaited
  <1>13. ChannelRuns(c, g, s, u, d)  BY <1>2, <1>11, <1>12 DEF ChannelRuns
  <1>14. Connected(c, g, n)  BY <1>2, <1>7 DEF Connected
  <1>15. Runs(c, g, s, u, d, n)  BY <1>2, <1>13, <1>14 DEF Runs
  <1> QED  BY <1>6, <1>15 DEF ref

LEMMA SubmitRuns ==
    ASSUME NEW c, NEW h, NEW s, NEW u, NEW d, NEW n, ChannelOk(c, h, s, u, d), Runs(c, h, s, u, d, n),
           Sender(c.presenter), ~h.closing, h.active # 0, h.pending # None, h.outgoing = <<>>,
           s.redundant = {}, Returned(s) = {}
    PROVE  Runs(c, Submit(h, s).host, Submit(h, s).session, u, d, n)
  <1> DEFINE m == h.pending
             polled == PollSession(s)
             imp == Imported(h, m.frame)
             result == IF imp THEN SubmitResult(polled, m.frame) ELSE "unsupported"
             after == IF imp THEN polled ELSE s
             told == Reply(h, IF imp THEN Releases(s) ELSE <<>>)
             answer(op) == [op |-> op, seq |-> m.seq]
             acc == [told EXCEPT !.pending = None, !.processed = FALSE, !.current = Contents(m.frame)]
             ref == [told EXCEPT !.pending = None]
             t == Accept(after, m.frame, m.seq)
  <1>1. h \in HostSet /\ SessionType(s)  BY DEF ChannelOk
  <1>2. Releases(s) = <<>>  BY <1>1, NothingReleased
  <1>3. told = h
    <2>1. Reply(h, <<>>) = Told(h, <<>>)
      <3>1. <<>> \in Seq(ReplySet) /\ Len(<<>>) = 0  BY EmptySeq
      <3>2. Len(h.outgoing) + Len(<<>>) <= MaxOutgoing  BY <3>1, LimitFits
      <3> QED  BY <1>1, <3>1, <3>2, ReplyFits
    <2>2. Told(h, <<>>) = [h EXCEPT !.outgoing = <<>>]  BY DEF Told
    <2>3. [h EXCEPT !.outgoing = <<>>] = h  BY <1>1 DEF HostSet
    <2> QED  BY <1>2, <2>1, <2>2, <2>3
  <1>4. ChannelOk(c, h, polled, u, d)  BY PollReplies
  <1>5. Runs(c, h, polled, u, d, n) /\ polled.redundant = {}
    <2>1. Reply(h, Releases(s)) = h  BY <1>2, <1>3
    <2> QED  BY <2>1, PollReplyRuns
  <1>6. /\ ChannelOk(c, h, after, u, d) /\ Runs(c, h, after, u, d, n) /\ after.redundant = {}
    BY <1>4, <1>5
  <1>7. Submit(h, s) = IF result = "accepted"
           THEN [host |-> Reply(acc, <<answer("accepted")>>), session |-> t]
           ELSE IF result = "busy" THEN [host |-> told, session |-> after]
           ELSE [host |-> Reply(ref, <<answer("rejected")>>), session |-> after]
    BY DEF Submit
  <1>8. Live(c, h) => result \in {"accepted", "busy"}
    <2> SUFFICES ASSUME Live(c, h) PROVE result \in {"accepted", "busy"}  OBVIOUS
    <2>1. ChannelRuns(c, h, polled, u, d) /\ SessionType(polled)  BY <1>4, <1>5 DEF Runs, ChannelOk
    <2>2. SessionRuns(h, polled)  BY <2>1 DEF ChannelRuns, HostRuns
    <2>3. \A i \in DOMAIN m.frame : m.frame[i].reuse => h.current[i] = Contents(m.frame)[i]
      <3>1. Unanswered(c.presenter, h, Replies(h, d))  BY <1>4, <2>1, PendingFacts
      <3> QED  BY <3>1 DEF Unanswered
    <2>4. m.frame \in FrameSet  BY <1>1 DEF HostSet, MessageSet
    <2> HIDE DEF polled, m
    <2>5. Imported(h, m.frame) /\ SubmitResult(polled, m.frame) \in {"accepted", "busy"}
      BY <2>1, <2>2, <2>3, <2>4, SubmitSupported
    <2> QED  BY <2>5
  <1> HIDE DEF polled, imp, after, told
  <1>9. CASE result = "accepted"
    <2>1. imp /\ SubmitResult(after, m.frame) = "accepted"  BY <1>9 DEF after
    <2> HIDE DEF result
    <2>2. Runs(c, Reply([h EXCEPT !.pending = None, !.processed = FALSE,
                                   !.current = Contents(h.pending.frame)], <<answer("accepted")>>), t, u, d, n)
      BY <1>6, <2>1, SubmitAcceptedRuns
    <2>3. Submit(h, s).host = Reply(acc, <<answer("accepted")>>) /\ Submit(h, s).session = t
      BY <1>7, <1>9
    <2> QED  BY <1>3, <2>2, <2>3
  <1>10. CASE result = "busy"
    <2>1. Submit(h, s).host = told /\ Submit(h, s).session = after  BY <1>7, <1>10
    <2> QED  BY <1>3, <1>6, <2>1
  <1>11. CASE result \notin {"accepted", "busy"}
    <2>1. ~Live(c, h)  BY <1>8, <1>11
    <2>2. Runs(c, Reply([h EXCEPT !.pending = None], <<answer("rejected")>>), after, u, d, n)
      BY <1>6, <2>1, SubmitRejectedRuns
    <2>3. Submit(h, s).host = Reply(ref, <<answer("rejected")>>) /\ Submit(h, s).session = after
      BY <1>7, <1>11
    <2> QED  BY <1>3, <2>2, <2>3
  <1> HIDE DEF result
  <1> QED  BY <1>9, <1>10, <1>11

-----------------------------------------------------------------------------
(* Host::Tick *)

(* The host gives up a socket whose presenter is gone.                      *)
LEMMA DisconnectGoneRuns ==
    ASSUME NEW c, NEW h, NEW s, NEW u, NEW d, NEW n, ChannelOk(c, h, s, u, d), Runs(c, h, s, u, d, n),
           ~Live(c, h)
    PROVE  Runs(c, Disconnect(h), s, u, d, n)
  <1> DEFINE g == Disconnect(h)
  <1>1. h \in HostSet  BY DEF ChannelOk
  <1>2. ChannelRuns(c, h, s, u, d) /\ Connected(c, h, n) /\ n \in Nat  BY DEF Runs
  <1>3. ChannelRuns(c, g, s, u, d)  BY <1>2, DisconnectRuns
  <1>4. /\ g.waiting = h.waiting /\ g.detached = h.detached /\ g.stopped = h.stopped
        /\ g.exists = h.exists
    BY <1>1 DEF Disconnect, HostSet
  <1> HIDE DEF g
  <1>5. Connected(c, g, n)  BY <1>2, <1>4 DEF Connected, Live
  <1>6. Runs(c, g, s, u, d, n)  BY <1>2, <1>3, <1>5 DEF Runs
  <1> QED  BY <1>6 DEF g

LEMMA TickServeRuns ==
    ASSUME NEW h, NEW s, NEW full, NEW n, ChannelOk(Context, h, s, up, down),
           Runs(Context, h, s, up, down, n), Sender(presenter), ~h.closing,
           h.active # 0 => ~Awaited(Context, h) /\ (Live(Context, h) \/ h.outgoing = <<>>),
           s.redundant = {}, Returned(s) = {}, TickServe(h, s, full)
    PROVE  Runs(Context, host', session', up', down', n)
  <1> DEFINE h1 == [h EXCEPT !.outgoing = <<>>]
             m == Head(up)
             hm == [h1 EXCEPT !.pending = m, !.sequence = m.seq]
             h2 == IF h.pending # None THEN h1 ELSE hm
  <1>1. h \in HostSet /\ up \in Seq(MessageSet)  BY DEF ChannelOk
  <1>2. /\ h1 \in HostSet /\ h1.active = h.active /\ h1.waiting = h.waiting /\ h1.pending = h.pending
        /\ h1.processed = h.processed /\ h1.sequence = h.sequence /\ h1.outgoing = <<>>
        /\ h1.closing = h.closing
    BY <1>1, EmptySeq DEF HostSet
  <1>3. CASE host' = h /\ session' = s /\ UNCHANGED <<up, down>>
    BY <1>3
  <1>4. CASE h.active # 0 /\ down' = down \o h.outgoing
             /\ \/ /\ ~h.processed \/ (h.pending = None /\ up = <<>>)
                   /\ host' = IF h.processed /\ Lost(h.active) THEN Disconnect(h1) ELSE h1
                   /\ session' = s
                   /\ UNCHANGED up
                \/ /\ h.processed /\ h.pending = None /\ up # <<>> /\ m.seq <= h.sequence
                   /\ host' = Disconnect(h1) /\ session' = s /\ up' = Tail(up)
                \/ /\ h.processed
                   /\ h.pending = None => up # <<>> /\ m.seq > h.sequence
                   /\ host' = Submit(h2, s).host /\ session' = Submit(h2, s).session
                   /\ up' = IF h.pending = None THEN Tail(up) ELSE up
    <2> DEFINE d == down \o h.outgoing
    <2>1. ChannelOk(Context, h1, s, up, d)  BY <1>4, FlushOk
    <2>2. ~Awaited(Context, h1)  BY <1>2, <1>4 DEF Awaited
    <2>3. Runs(Context, h1, s, up, d, n)  BY <1>4, FlushRuns
    <2> HIDE DEF h1, d
    <2>4. CASE /\ host' = IF h.processed /\ Lost(h.active) THEN Disconnect(h1) ELSE h1
               /\ session' = s /\ UNCHANGED up
      <3>1. CASE h.processed /\ Lost(h.active)
        <4>1. ~Live(Context, h1)  BY <1>2, <3>1 DEF Lost, Live, Context
        <4>2. Runs(Context, Disconnect(h1), s, up, d, n)  BY <2>1, <2>3, <4>1, DisconnectGoneRuns
        <4>3. host' = Disconnect(h1) /\ down' = d  BY <1>4, <2>4, <3>1 DEF d
        <4> QED  BY <2>4, <4>2, <4>3
      <3>2. CASE ~(h.processed /\ Lost(h.active))
        <4>1. host' = h1 /\ down' = d  BY <1>4, <2>4, <3>2 DEF d
        <4> QED  BY <2>3, <2>4, <4>1
      <3> QED  BY <3>1, <3>2
    <2>5. CASE /\ up # <<>> /\ m.seq <= h.sequence
               /\ host' = Disconnect(h1) /\ session' = s /\ up' = Tail(up)
      <3> DEFINE g == Disconnect(h1)
      <3>1. ~Live(Context, h1)
        <4> SUFFICES ASSUME Live(Context, h1) PROVE FALSE  OBVIOUS
        <4>1. LiveOk(Context, h1, s, up, d)  BY <2>1 DEF ChannelOk
        <4>2. Len(up) \in Nat /\ Len(up) > 0 /\ m = up[1] /\ m \in MessageSet
          BY <1>1, <2>5, TailFacts
        <4>3. up[1].seq = h.sequence + 1  BY <1>2, <4>1, <4>2 DEF LiveOk
        <4>4. h.sequence \in Nat  BY <1>1 DEF HostSet
        <4> HIDE DEF m
        <4> QED  BY <2>5, <4>2, <4>3, <4>4
      <3>2. Runs(Context, g, s, up, d, n)  BY <2>1, <2>3, <3>1, DisconnectGoneRuns
      <3>3. ~Live(Context, g) /\ ~Awaited(Context, g)
        <4>1. g.active = 0 /\ g.waiting = h1.waiting  BY <1>2, DisconnectType
        <4> QED  BY <2>1, <2>2, <4>1 DEF ChannelOk, HostOk, Live, Awaited
      <3> HIDE DEF g
      <3>4. Runs(Context, g, s, Tail(up), d, n)  BY <3>2, <3>3 DEF Runs, ChannelRuns
      <3> QED  BY <1>4, <2>5, <3>4 DEF g, d
    <2>6. CASE /\ h.processed
               /\ h.pending = None => up # <<>> /\ m.seq > h.sequence
               /\ host' = Submit(h2, s).host /\ session' = Submit(h2, s).session
               /\ up' = IF h.pending = None THEN Tail(up) ELSE up
      <3> DEFINE u == IF h.pending = None THEN Tail(up) ELSE up
      <3>1. /\ ChannelOk(Context, h2, s, u, d) /\ h2.active # 0 /\ h2.pending # None
            /\ Runs(Context, h2, s, u, d, n) /\ ~h2.closing /\ h2.outgoing = <<>>
        <4>1. CASE h.pending # None  BY <1>2, <1>4, <2>1, <2>3, <4>1
        <4>2. CASE h.pending = None
          <5>1. Receives(h1, up) /\ hm = Received(h1, up) /\ m = Head(up)
            BY <1>2, <1>4, <2>6, <4>2 DEF Receives, Received
          <5> HIDE DEF hm, m
          <5>2. /\ ChannelOk(Context, hm, s, Tail(up), d) /\ hm.pending = m /\ m \in MessageSet
                /\ hm.active = h1.active
            BY <2>1, <2>2, <5>1, ReceiveOk
          <5>3. /\ Runs(Context, hm, s, Tail(up), d, n)
                /\ hm.outgoing = h1.outgoing /\ hm.closing = h1.closing
            BY <2>1, <2>2, <2>3, <5>1, ReceiveRuns
          <5>4. m # None  BY <5>2, ConstantsAssumption
          <5> QED  BY <1>2, <1>4, <4>2, <5>2, <5>3, <5>4
        <4> QED  BY <4>1, <4>2
      <3>2. Sender(Context.presenter)  BY DEF Context
      <3> HIDE DEF h2, u
      <3>3. Runs(Context, Submit(h2, s).host, Submit(h2, s).session, u, d, n)
        BY <3>1, <3>2, SubmitRuns
      <3> QED  BY <1>4, <2>6, <3>3 DEF u, d
    <2> HIDE DEF h2
    <2> QED  BY <1>4, <2>4, <2>5, <2>6
  <1> QED  BY <1>3, <1>4, Zenon DEF TickServe

LEMMA NewSessionRuns ==
    ASSUME NEW h, h.current = NoPlanes, h.outgoing = <<>>, h.processed
    PROVE  SessionRuns(h, NewSession) /\ Bounded(h, NewSession)
  <1> DEFINE s == NewSession
  <1>1. /\ s.state = "running" /\ s.leases = {} /\ s.redundant = {} /\ s.startup /\ s.cleanup = 0
        /\ s.visible = FALSE /\ s.acked = FALSE /\ s.commands = <<[op |-> "start"]>>
        /\ s.current = [i \in Planes |-> None]
    BY DEF NewSession
  <1>2. [op |-> "start"] \in CommandSet  BY DEF CommandSet
  <1> HIDE DEF s
  <1>3. OneCommand(s)  BY <1>1, <1>2 DEF OneCommand
  <1>4. \A i \in Planes : s.current[i] = None /\ h.current[i].buf = None  BY <1>1 DEF NoPlanes, NoPlane
  <1>5. 1 \in Planes  BY DEF Planes
  <1>6. Showing(s)  BY <1>1, <1>4, <1>5 DEF Showing
  <1>7. SessionRuns(h, s)  BY <1>1, <1>3, <1>4, <1>6 DEF SessionRuns
  <1>8. \A i : OnPlane(s, i) = {}  BY <1>1 DEF OnPlane
  <1>9. Cardinality({}) = 0  BY FS_EmptySet
  <1>10. \A i : Cardinality(OnPlane(s, i)) = 0  BY <1>8, <1>9
  <1>11. MaxAllocations \in Nat  BY AllocationsAssumption
  <1>12. Len(h.outgoing) = 0  OBVIOUS
  <1>13. Debt(h, s) = 0 + 0 + 0 + 0  BY <1>1, <1>9, <1>12 DEF Debt
  <1>14. Debt(h, s) <= Limit  BY <1>13, LimitFits
  <1>15. Bounded(h, s)  BY <1>10, <1>11, <1>14 DEF Bounded
  <1> QED  BY <1>7, <1>15 DEF s

LEMMA TickClosedRuns ==
    ASSUME NEW h, NEW s, NEW n, ChannelOk(Context, h, s, up, down), Runs(Context, h, s, up, down, n),
           h.closing, TickClosed(h)
    PROVE  Runs(Context, host', session', up', down', n)
  <1> DEFINE a == [Stop(h) EXCEPT !.exists = FALSE]
             b == [h EXCEPT !.closing = FALSE, !.processed = TRUE, !.sequence = 0]
  <1>1. h \in HostSet /\ HostOk(Context, h, s) /\ Context.out \in Nat  BY DEF ChannelOk
  <1>2. ChannelRuns(Context, h, s, up, down) /\ Connected(Context, h, n) /\ n \in Nat  BY DEF Runs
  <1>3. h.active = 0 /\ h.outgoing = <<>>  BY <1>1 DEF HostOk
  <1>4. h.current = NoPlanes  BY <1>2, <1>3 DEF ChannelRuns, HostRuns
  <1>5. session' = NewSession /\ up' = up /\ down' = down /\ host' = IF h.detached THEN a ELSE b
    BY DEF TickClosed
  <1>6. CASE h.detached
    <2>1. a.active = h.active /\ a.waiting = 0 /\ a.closing = h.closing /\ a.current = h.current
      BY <1>1 DEF Stop, HostSet
    <2>2. n > 0  BY <1>2, <1>6 DEF Connected
    <2> HIDE DEF a
    <2>3. HostRuns(a, NewSession)  BY <1>3, <1>4, <2>1 DEF HostRuns
    <2>4. ~Live(Context, a) /\ ~Awaited(Context, a)
      BY <1>1, <1>3, <2>1 DEF HostOk, Live, Awaited
    <2>5. Connected(Context, a, n)  BY <2>2 DEF Connected
    <2>6. Runs(Context, a, NewSession, up, down, n)  BY <1>2, <2>3, <2>4, <2>5 DEF Runs, ChannelRuns
    <2> QED  BY <1>5, <1>6, <2>6
  <1>7. CASE ~h.detached
    <2>1. /\ b.active = h.active /\ b.waiting = h.waiting /\ ~b.closing /\ b.current = h.current
          /\ b.processed /\ b.outgoing = h.outgoing
          /\ b.detached = h.detached /\ b.stopped = h.stopped /\ b.exists = h.exists
      BY <1>1 DEF HostSet
    <2> HIDE DEF b
    <2>2. SessionRuns(b, NewSession) /\ Bounded(b, NewSession)
      BY <1>3, <1>4, <2>1, NewSessionRuns
    <2>3. HostRuns(b, NewSession)  BY <1>4, <2>1, <2>2 DEF HostRuns
    <2>4. ~Live(Context, b) /\ (Awaited(Context, b) <=> Awaited(Context, h))
      BY <1>1, <1>3, <2>1 DEF HostOk, Live, Awaited
    <2>5. Connected(Context, b, n)  BY <1>2, <2>1 DEF Connected
    <2>6. Runs(Context, b, NewSession, up, down, n)  BY <1>2, <2>3, <2>4, <2>5 DEF Runs, ChannelRuns
    <2> QED  BY <1>5, <1>7, <2>6
  <1> QED  BY <1>6, <1>7

LEMMA TickRuns ==
    ASSUME ChannelOk(Context, host, session, up, down), Sender(presenter),
           Runs(Context, host, session, up, down, detaches), NEW full, Tick(full)
    PROVE  Runs(Context, host, session, up, down, detaches)'
  <1>1. PICK lost \in {TickLost(host)} :
           \E polled \in {PollSession(IF lost.closing THEN Close(session) ELSE session)} :
           \E h \in {TickPoll(lost, polled)} :
              \/ h.closing /\ polled.state = "closed" /\ TickClosed(h)
              \/ h.closing /\ polled.state # "closed" /\ host' = h /\ session' = polled
                           /\ UNCHANGED <<up, down>>
              \/ ~h.closing /\ TickServe(Activate(h), polled, full)
    BY Zenon DEF Tick
  <1>2. PICK polled \in {PollSession(IF lost.closing THEN Close(session) ELSE session)} :
           \E h \in {TickPoll(lost, polled)} :
              \/ h.closing /\ polled.state = "closed" /\ TickClosed(h)
              \/ h.closing /\ polled.state # "closed" /\ host' = h /\ session' = polled
                           /\ UNCHANGED <<up, down>>
              \/ ~h.closing /\ TickServe(Activate(h), polled, full)
    BY <1>1, Zenon
  <1>3. PICK h \in {TickPoll(lost, polled)} :
              \/ h.closing /\ polled.state = "closed" /\ TickClosed(h)
              \/ h.closing /\ polled.state # "closed" /\ host' = h /\ session' = polled
                           /\ UNCHANGED <<up, down>>
              \/ ~h.closing /\ TickServe(Activate(h), polled, full)
    BY <1>2, Zenon
  <1> DEFINE n == detaches
  <1>4. /\ ChannelOk(Context, lost, session, up, down)
        /\ lost.active # 0 => Live(Context, lost)
    BY TickLostOk
  <1>5. Runs(Context, lost, session, up, down, n)  BY TickLostRuns
  <1>6. /\ ChannelOk(Context, h, polled, up, down) /\ SameHost(lost, h)
        /\ lost.closing => h.closing
    BY <1>4, TickPollOk
  <1>7. /\ Runs(Context, h, polled, up, down, n)
        /\ ~lost.closing => polled.redundant = {} /\ Returned(polled) = {}
    BY <1>4, <1>5, TickPollRuns
  <1>8. Runs(Context, host', session', up', down', n)
    <2>1. CASE h.closing /\ polled.state = "closed" /\ TickClosed(h)
      BY <1>6, <1>7, <2>1, TickClosedRuns
    <2>2. CASE h.closing /\ polled.state # "closed" /\ host' = h /\ session' = polled
               /\ UNCHANGED <<up, down>>
      BY <1>7, <2>2
    <2>3. CASE ~h.closing /\ TickServe(Activate(h), polled, full)
      <3>1. h.active # 0 => Live(Context, h)  BY <1>4, <1>6, <2>3 DEF SameHost, Live
      <3> DEFINE g == Activate(h)
      <3>2. /\ ChannelOk(Context, g, polled, up, down) /\ ~g.closing
            /\ g.active # 0 => ~Awaited(Context, g) /\ (Live(Context, g) \/ g.outgoing = <<>>)
        BY <1>6, <2>3, <3>1, ActivateOk
      <3>3. TickServe(g, polled, full)  BY <2>3
      <3>4. Runs(Context, g, polled, up, down, n)  BY <1>6, <1>7, <2>3, ActivateRuns
      <3>5. polled.redundant = {} /\ Returned(polled) = {}  BY <1>6, <1>7, <2>3
      <3> HIDE DEF g
      <3> QED  BY <3>2, <3>3, <3>4, <3>5, TickServeRuns
    <2> QED  BY <1>3, <2>1, <2>2, <2>3
  <1>9. Context' = Context /\ detaches' = detaches  BY DEF Tick, Context
  <1> QED  BY <1>8, <1>9
-----------------------------------------------------------------------------
(* The render service, the content, and presenters that come and go *)

LEMMA ServeRuns ==
    ASSUME ChannelOk(Context, host, session, up, down),
           Runs(Context, host, session, up, down, detaches),
           RsApply \/ RsComplete \/ RsReturn
    PROVE  Runs(Context, host, session, up, down, detaches)'
  <1>1. SessionType(session) /\ host \in HostSet  BY DEF ChannelOk
  <1>2. ~host.closing => SessionRuns(host, session) /\ Bounded(host, session)
    BY DEF Runs, ChannelRuns, HostRuns
  <1>3. /\ Keeps(session, session')
        /\ ~host.closing => Fewer(session, session') /\ SessionRuns(host, session')
    <2>1. CASE RsApply
      BY <1>1, <1>2, <2>1, ApplyKeeps, AppliedRuns DEF RsApply, Serve
    <2>2. CASE RsComplete
      <3> DEFINE t == [session EXCEPT !.acked = TRUE]
      <3>1. t.leases = session.leases /\ t.redundant = session.redundant
        BY <1>1 DEF SessionType, SessionSet
      <3>2. session' = t /\ session.commands = <<>>  BY <2>2 DEF RsComplete, Serve
      <3>3. Fewer(session, t) /\ (SessionRuns(host, session) => SessionRuns(host, t))
        BY <1>1, <3>2, CompleteRuns
      <3> HIDE DEF t
      <3>4. Keeps(session, t)  BY <3>1, KeepsFewer
      <3> QED  BY <1>2, <3>2, <3>3, <3>4
    <2>3. CASE RsReturn
      <3>1. PICK l \in Returnable(session) : session' = Move(session, {l}, "returned")
        BY <2>3 DEF RsReturn, Serve
      <3>2. {l} \in SUBSET session.leases /\ "returned" \in Wheres  BY DEF Returnable, On, Wheres
      <3>3. Keeps(session, session')  BY <1>1, <3>1, <3>2, MoveKeeps
      <3>4. Fewer(session, session') /\ (SessionRuns(host, session) => SessionRuns(host, session'))
        BY <1>1, <3>1, ReturnRuns
      <3> QED  BY <1>2, <3>3, <3>4
    <2> QED  BY <2>1, <2>2, <2>3
  <1>4. ~host.closing => SessionRuns(host, session') /\ Bounded(host, session')
    BY <1>1, <1>2, <1>3, FewerBounded
  <1>5. ChannelRuns(Context, host, session', up, down)
    BY <1>3, <1>4, SessionKeepsRuns DEF Runs
  <1>6. Context' = Context /\ host' = host /\ up' = up /\ down' = down /\ detaches' = detaches
    BY DEF RsApply, RsComplete, RsReturn, Serve, Context
  <1> QED  BY <1>5, <1>6 DEF Runs

LEMMA ContentRuns ==
    ASSUME ChannelOk(Context, host, session, up, down),
           Runs(Context, host, session, up, down, detaches), DetachContent \/ AttachContent
    PROVE  Runs(Context, host, session, up, down, detaches)'
  <1>1. Context' = Context /\ up' = up /\ down' = down
    BY DEF DetachContent, AttachContent, Context
  <1>2. /\ ChannelRuns(Context, host, session, up, down) /\ Connected(Context, host, detaches)
        /\ detaches \in Nat
    BY DEF Runs
  <1>3. CASE DetachContent
    <2> DEFINE g == [host EXCEPT !.detached = TRUE]
    <2>1. host \in HostSet  BY DEF ChannelOk
    <2>2. /\ g.waiting = host.waiting /\ g.active = host.active
          /\ g.closing = host.closing /\ g.outgoing = host.outgoing /\ g.pending = host.pending
          /\ g.sequence = host.sequence /\ g.processed = host.processed /\ g.current = host.current
      BY <2>1 DEF HostSet
    <2>3. host' = g /\ session' = session /\ detaches' = detaches + 1  BY <1>3 DEF DetachContent
    <2> HIDE DEF g
    <2>4. ChannelRuns(Context, g, session, up, down)  BY <1>2, <2>2, RunsSame
    <2>5. detaches + 1 \in Nat /\ detaches + 1 > 0  BY <1>2
    <2>6. Connected(Context, g, detaches + 1)  BY <2>5 DEF Connected
    <2>7. Runs(Context, g, session, up, down, detaches + 1)  BY <2>4, <2>5, <2>6 DEF Runs
    <2> QED  BY <1>1, <2>3, <2>7
  <1>4. CASE AttachContent
    <2>1. host' = NewHost /\ session' = NewSession /\ detaches' = detaches /\ ~host.exists
      BY <1>4 DEF AttachContent
    <2>2. detaches > 0  BY <1>2, <2>1 DEF Connected
    <2>3. /\ NewHost.active = 0 /\ NewHost.waiting = 0 /\ ~NewHost.closing /\ NewHost.processed
          /\ NewHost.outgoing = <<>> /\ NewHost.current = NoPlanes
      BY DEF NewHost, NoPlanes
    <2>4. SessionRuns(NewHost, NewSession) /\ Bounded(NewHost, NewSession)
      BY <2>3, NewSessionRuns
    <2>5. HostRuns(NewHost, NewSession)  BY <2>3, <2>4 DEF HostRuns
    <2>6. ~Live(Context, NewHost) /\ ~Awaited(Context, NewHost)
      BY <2>3 DEF ChannelOk, HostOk, Live, Awaited
    <2>7. Connected(Context, NewHost, detaches)  BY <2>2 DEF Connected
    <2>8. Runs(Context, NewHost, NewSession, up, down, detaches)
      BY <1>2, <2>5, <2>6, <2>7 DEF Runs, ChannelRuns
    <2> QED  BY <1>1, <2>1, <2>8
  <1> QED  BY <1>3, <1>4

(* Nothing is asked of a presenter that is not open.                        *)
LEMMA NobodyRuns ==
    ASSUME NEW c, ~c.presenter.open, NEW h, NEW s, HostRuns(h, s), NEW u, NEW d, NEW n \in Nat,
           h.detached \/ h.stopped \/ ~h.exists => n > 0
    PROVE  Runs(c, h, s, u, d, n)
  BY DEF Runs, ChannelRuns, Live, Awaited, Connected

LEMMA GoneRuns ==
    ASSUME IInv, RInv, presenter.open, NEW fault \in {"none", "receive"}, Gone(fault),
           fault = "receive" => HostClosed
    PROVE  RInv'
  <1> DEFINE p == NoPresenter(fault)
             c == Context'
  <1>1. presenter' = p /\ host' = host /\ session' = session /\ detaches' = detaches  BY DEF Gone
  <1>2. ~p.open /\ p.flights = <<>> /\ p.fault = fault  BY DEF NoPresenter
  <1>3. c.presenter = p  BY <1>1 DEF Context
  <1>4. /\ HostRuns(host, session) /\ Connected(Context, host, detaches) /\ detaches \in Nat
    BY DEF RInv, Runs, ChannelRuns
  <1>5. Context.presenter = presenter /\ Context.out = out  BY DEF Context
  <1> HIDE DEF p, c
  <1>6. ~c.presenter.open  BY <1>2, <1>3
  <1>7. host.detached \/ host.stopped \/ ~host.exists => detaches > 0  BY <1>4 DEF Connected
  <1>8. Runs(c, host, session, up', down', detaches)  BY <1>4, <1>6, <1>7, NobodyRuns
  <1>9. FlightsTold(p)
    <2>1. DOMAIN p.flights = {}  BY <1>2, NoFlights
    <2> QED  BY <2>1 DEF FlightsTold
  <1>10. fault = "receive" => detaches > 0  BY <1>4, <1>5 DEF Connected, HostClosed
  <1>11. RepliesExpected'  BY <1>1, <1>2, <1>10 DEF RepliesExpected
  <1> QED  BY <1>1, <1>8, <1>9, <1>11 DEF RInv, c

LEMMA ConnectRuns ==
    ASSUME IInv, RInv, Connect
    PROVE  RInv'
  <1> DEFINE p == [NoPresenter("none") EXCEPT !.open = TRUE]
             g == [host EXCEPT !.waiting = out + 1]
             c == Context'
  <1>1. /\ out' = out + 1 /\ presenter' = p /\ host' = g
        /\ up' = <<>> /\ down' = <<>> /\ session' = session /\ detaches' = detaches
    BY DEF Connect, NewPresenter
  <1>2. /\ p.open /\ p.flights = <<>> /\ p.sequence = 0 /\ p.last = NoPlanes /\ p.fault = "none"
    BY DEF NoPresenter, NoPlanes
  <1>3. c.presenter = p /\ c.out = out + 1  BY <1>1 DEF Context
  <1>4. /\ HostRuns(host, session) /\ Connected(Context, host, detaches) /\ detaches \in Nat
    BY DEF RInv, Runs, ChannelRuns
  <1>5. host \in HostSet /\ HostOk(Context, host, session) /\ out \in Nat /\ Context.out = out
    BY DEF IInv, ChannelOk, Context
  <1>6. /\ g.waiting = out + 1 /\ g.active = host.active /\ g.closing = host.closing
        /\ g.outgoing = host.outgoing /\ g.processed = host.processed /\ g.current = host.current
        /\ g.detached = host.detached /\ g.stopped = host.stopped /\ g.exists = host.exists
    BY <1>1, <1>5 DEF HostSet
  <1> HIDE DEF p, c, g
  <1>7. HostRuns(g, session)
    BY <1>4, <1>6 DEF HostRuns, SessionRuns, Bounded, Debt
  <1>8. ~Live(c, g)
    <2>1. host.active \in Nat /\ host.active <= out  BY <1>5 DEF HostOk, HostSet
    <2> QED  BY <1>3, <1>5, <1>6, <2>1 DEF Live
  <1>9. AwaitedRuns(c, <<>>)
    <2>1. FreshFrames(p, 0)  BY <1>2 DEF FreshFrames
    <2>2. Chained(p, 0, NoPlanes)  BY <1>2 DEF Chained, Before
    <2>3. Sent(p, <<>>)  BY DEF Sent
    <2> QED  BY <1>3, <2>1, <2>2, <2>3 DEF AwaitedRuns
  <1>10. Connected(c, g, detaches)  BY <1>3, <1>4, <1>6 DEF Connected
  <1>11. Runs(c, g, session, <<>>, <<>>, detaches)
    BY <1>4, <1>7, <1>8, <1>9, <1>10 DEF Runs, ChannelRuns
  <1>12. FlightsTold(p)
    <2>1. DOMAIN p.flights = {}  BY <1>2, NoFlights
    <2> QED  BY <2>1 DEF FlightsTold
  <1>13. RepliesExpected'  BY <1>1, <1>2 DEF RepliesExpected
  <1> QED  BY <1>1, <1>11, <1>12, <1>13 DEF RInv, c

LEMMA InitRuns ==
    ASSUME Init
    PROVE  RInv
  <1> DEFINE p == NoPresenter("none")
  <1>1. /\ presenter = p /\ up = <<>> /\ down = <<>> /\ host = NewHost /\ session = NewSession
        /\ detaches = 0 /\ Context.presenter = p
    BY DEF Init, Context
  <1>2. ~p.open /\ p.flights = <<>> /\ p.fault = "none"  BY DEF NoPresenter
  <1>3. /\ ~NewHost.closing /\ NewHost.processed
        /\ NewHost.outgoing = <<>> /\ NewHost.current = NoPlanes
        /\ ~NewHost.detached /\ ~NewHost.stopped /\ NewHost.exists
    BY DEF NewHost, NoPlanes
  <1> HIDE DEF p
  <1>4. SessionRuns(NewHost, NewSession) /\ Bounded(NewHost, NewSession)
    BY <1>3, NewSessionRuns
  <1>5. HostRuns(NewHost, NewSession)  BY <1>3, <1>4 DEF HostRuns
  <1>6. ~Context.presenter.open /\ 0 \in Nat  BY <1>1, <1>2
  <1>7. Runs(Context, NewHost, NewSession, up, down, 0)  BY <1>3, <1>5, <1>6, NobodyRuns
  <1>8. FlightsTold(p)
    <2>1. DOMAIN p.flights = {}  BY <1>2, NoFlights
    <2> QED  BY <2>1 DEF FlightsTold
  <1>9. RepliesExpected  BY <1>1, <1>2 DEF RepliesExpected
  <1> QED  BY <1>1, <1>7, <1>8, <1>9 DEF RInv
-----------------------------------------------------------------------------
(* Presenter::Present: another frame, which shows again what the last did *)

Adds(p, a) ==
    LET seq == p.sequence + 1
    IN /\ a.open = p.open /\ a.sequence = seq
       /\ DOMAIN a.flights = DOMAIN p.flights \cup {seq}
       /\ \A s \in DOMAIN p.flights : a.flights[s] = p.flights[s]
       /\ ~a.flights[seq].accepted /\ ~a.flights[seq].processed /\ ~a.flights[seq].done
       /\ a.flights[seq].released = Planes \ DOMAIN a.flights[seq].frame
       /\ a.last = Contents(a.flights[seq].frame)
       /\ \A i \in DOMAIN a.flights[seq].frame :
             a.flights[seq].frame[i].reuse => p.last[i] = Contents(a.flights[seq].frame)[i]

(* The frame is drawn into buffers that no frame before it still shows.     *)
Unused(p, a) ==
    LET f == a.flights[p.sequence + 1].frame
    IN \A i \in DOMAIN f : ~f[i].reuse =>
          \A x \in DOMAIN p.flights :
              i \in DOMAIN p.flights[x].frame \ p.flights[x].released => p.flights[x].frame[i].buf # f[i].buf

LEMMA AddedFrames ==
    ASSUME NEW p, NEW a, p.sequence \in Nat, Adds(p, a), NEW k \in Int, k <= p.sequence, NEW base,
           FreshFrames(p, k), Chained(p, k, base)
    PROVE  FreshFrames(a, k) /\ Chained(a, k, base)
  <1> DEFINE seq == p.sequence + 1
  <1>1. a.sequence = seq /\ seq \in Nat  BY DEF Adds
  <1>2. \A s \in (k + 1)..seq : s = seq \/ s \in (k + 1)..p.sequence  OBVIOUS
  <1>3. \A s \in (k + 1)..p.sequence : s \in DOMAIN p.flights /\ a.flights[s] = p.flights[s]
    BY DEF FreshFrames, Adds
  <1>4. /\ DOMAIN a.flights = DOMAIN p.flights \cup {seq}
        /\ ~a.flights[seq].accepted /\ ~a.flights[seq].processed
        /\ a.flights[seq].released = Planes \ DOMAIN a.flights[seq].frame
        /\ a.last = Contents(a.flights[seq].frame)
        /\ \A i \in DOMAIN a.flights[seq].frame :
              a.flights[seq].frame[i].reuse => p.last[i] = Contents(a.flights[seq].frame)[i]
    BY DEF Adds
  <1> HIDE DEF seq
  <1>5. FreshFrames(a, k)
    <2> SUFFICES ASSUME NEW s \in (k + 1)..seq
                 PROVE  /\ s \in DOMAIN a.flights
                        /\ ~a.flights[s].accepted /\ ~a.flights[s].processed
                        /\ a.flights[s].released = Planes \ DOMAIN a.flights[s].frame
      BY <1>1 DEF FreshFrames
    <2>1. CASE s = seq  BY <1>4, <2>1
    <2>2. CASE s \in (k + 1)..p.sequence
      <3>1. /\ ~p.flights[s].accepted /\ ~p.flights[s].processed
            /\ p.flights[s].released = Planes \ DOMAIN p.flights[s].frame
        BY <2>2 DEF FreshFrames
      <3> QED  BY <1>3, <1>4, <2>2, <3>1
    <2> QED  BY <1>2, <2>1, <2>2
  <1>6. \A s \in (k + 1)..seq : Before(a, k, base, s) = Before(p, k, base, s)
    <2> SUFFICES ASSUME NEW s \in (k + 1)..seq PROVE Before(a, k, base, s) = Before(p, k, base, s)
      OBVIOUS
    <2>1. CASE s = k + 1  BY <2>1 DEF Before
    <2>2. CASE s # k + 1
      <3>1. s - 1 \in (k + 1)..p.sequence  BY <2>2 DEF seq
      <3> QED  BY <1>3, <2>2, <3>1 DEF Before
    <2> QED  BY <2>1, <2>2
  <1>7. p.last = Before(p, k, base, seq)  BY DEF Chained, seq
  <1>8. seq \in (k + 1)..seq  BY DEF seq
  <1>9. ASSUME NEW s \in (k + 1)..seq, NEW i \in DOMAIN a.flights[s].frame, a.flights[s].frame[i].reuse
        PROVE  Before(a, k, base, s)[i] = Contents(a.flights[s].frame)[i]
    <2>1. CASE s = seq  BY <1>4, <1>6, <1>7, <1>8, <1>9, <2>1
    <2>2. CASE s \in (k + 1)..p.sequence
      <3>1. Before(p, k, base, s)[i] = Contents(p.flights[s].frame)[i]
        BY <1>3, <1>9, <2>2 DEF Chained
      <3> QED  BY <1>3, <1>6, <2>2, <3>1
    <2> QED  BY <1>2, <2>1, <2>2 DEF seq
  <1>10. a.last = Before(a, k, base, seq + 1)
    <2>1. seq + 1 # k + 1 /\ (seq + 1) - 1 = seq  BY DEF seq
    <2> QED  BY <1>4, <2>1 DEF Before
  <1>11. Chained(a, k, base)  BY <1>1, <1>9, <1>10 DEF Chained
  <1> QED  BY <1>5, <1>11

(* A reply or a debt for a flight is for the same flight as long as the     *)
(* presenter has it.                                                        *)
LEMMA AddedReplies ==
    ASSUME NEW fs, NEW gs, DOMAIN fs \subseteq DOMAIN gs, \A s \in DOMAIN fs : gs[s] = fs[s],
           NEW h, NEW s, NEW R, Owed(fs, h, s, R)
    PROVE  /\ Owed(gs, h, s, R)
           /\ \A Q, q : Orderly(fs, Q, q) => Orderly(gs, Q, q)
  <1>1. \A Q, q : Orderly(fs, Q, q) => Orderly(gs, Q, q)  BY DEF Orderly
  <1>2. Owed(gs, h, s, R)  BY DEF Owed, Awaits
  <1> QED  BY <1>1, <1>2

LEMMA SentFresh ==
    ASSUME NEW c, NEW h, NEW s, NEW u, NEW d, ChannelOk(c, h, s, u, d), Sender(c.presenter)
    PROVE  /\ Live(c, h) => /\ Taken(h) \in Int /\ Taken(h) <= c.presenter.sequence
                            /\ h.pending # None => h.sequence \in (Taken(h) + 1)..c.presenter.sequence
                            /\ \A k \in 1..Len(u) : u[k].seq \in (Taken(h) + 1)..c.presenter.sequence
           /\ Awaited(c, h) => \A k \in 1..Len(u) : u[k].seq \in 1..c.presenter.sequence
  <1>1. c.presenter.sent \in Nat /\ c.presenter.sequence \in Nat /\ c.presenter.sent <= c.presenter.sequence
    BY DEF Sender, PresenterSet
  <1>2. h \in HostSet /\ h.sequence \in Nat /\ u \in Seq(MessageSet) /\ Len(u) \in Nat
    BY DEF ChannelOk, HostSet
  <1>3. Live(c, h) => LiveOk(c, h, s, u, d)  BY DEF ChannelOk
  <1>4. Awaited(c, h) => AwaitedOk(c, u, d)  BY DEF ChannelOk
  <1>5. Taken(h) \in Int /\ Taken(h) <= h.sequence /\ (h.pending # None => h.sequence = Taken(h) + 1)
    BY <1>2 DEF Taken
  <1>6. CASE Live(c, h)
    <2>1. c.presenter.sent = h.sequence + Len(u) /\ \A k \in 1..Len(u) : u[k].seq = h.sequence + k
      BY <1>3, <1>6 DEF LiveOk
    <2>2. ASSUME NEW k \in 1..Len(u) PROVE u[k].seq \in (Taken(h) + 1)..c.presenter.sequence
      <3>1. u[k].seq = h.sequence + k  BY <2>1
      <3> QED  BY <1>1, <1>2, <1>5, <2>1, <3>1, SMTT(30)
    <2>3. Taken(h) <= c.presenter.sequence /\ h.sequence <= c.presenter.sequence
      BY <1>1, <1>2, <1>5, <2>1
    <2>4. h.pending # None => h.sequence \in (Taken(h) + 1)..c.presenter.sequence
      BY <1>2, <1>5, <2>3
    <2>5. ~Awaited(c, h)
      <3>1. HostOk(c, h, s) /\ c.out \in Nat  BY DEF ChannelOk
      <3> QED  BY <1>6, <3>1 DEF HostOk, Live, Awaited
    <2> QED  BY <1>5, <2>2, <2>3, <2>4, <2>5
  <1>7. CASE ~Live(c, h)
    <2>1. ASSUME Awaited(c, h), NEW k \in 1..Len(u) PROVE u[k].seq \in 1..c.presenter.sequence
      <3>1. c.presenter.sent = Len(u) /\ u[k].seq = k  BY <1>4, <2>1 DEF AwaitedOk
      <3> QED  BY <1>1, <1>2, <3>1
    <2> QED  BY <1>7, <2>1
  <1> QED  BY <1>6, <1>7

LEMMA AddedRuns ==
    ASSUME NEW c, NEW h, NEW s, NEW u, NEW d, NEW n, ChannelOk(c, h, s, u, d), Sender(c.presenter),
           Runs(c, h, s, u, d, n), NEW b, b.out = c.out, Adds(c.presenter, b.presenter)
    PROVE  Runs(b, h, s, u, d, n)
  <1> DEFINE p == c.presenter
             a == b.presenter
  <1>1. p.sequence \in Nat /\ 0 <= p.sequence /\ 0 \in Int  BY DEF Sender, PresenterSet
  <1>2. ChannelRuns(c, h, s, u, d) /\ Connected(c, h, n) /\ n \in Nat  BY DEF Runs
  <1>3. /\ DOMAIN p.flights \subseteq DOMAIN a.flights /\ a.open = p.open
        /\ \A x \in DOMAIN p.flights : a.flights[x] = p.flights[x]
    BY DEF Adds
  <1>4. (Live(b, h) <=> Live(c, h)) /\ (Awaited(b, h) <=> Awaited(c, h))  BY <1>3 DEF Live, Awaited
  <1>5. Connected(b, h, n)  BY <1>2, <1>3 DEF Connected
  <1>6. ASSUME Live(c, h) PROVE LiveRuns(b, h, s, u, d)
    <2> DEFINE k == Taken(h)
    <2>1. /\ k \in Int /\ k <= p.sequence
          /\ h.pending # None => h.sequence \in (k + 1)..p.sequence
          /\ \A j \in 1..Len(u) : u[j].seq \in (k + 1)..p.sequence
      BY <1>6, SentFresh
    <2>2. /\ Orderly(p.flights, {}, d) /\ Orderly(p.flights, Range(d), h.outgoing)
          /\ Owed(p.flights, h, s, Replies(h, d))
          /\ FreshFrames(p, k) /\ Chained(p, k, h.current) /\ Sent(p, u)
          /\ h.pending # None => h.sequence > 0 /\ h.pending.frame = p.flights[h.sequence].frame
      BY <1>2, <1>6 DEF ChannelRuns, LiveRuns
    <2> HIDE DEF k
    <2>3. FreshFrames(a, k) /\ Chained(a, k, h.current)
      BY <1>1, <2>1, <2>2, AddedFrames
    <2>4. /\ Orderly(a.flights, {}, d) /\ Orderly(a.flights, Range(d), h.outgoing)
          /\ Owed(a.flights, h, s, Replies(h, d))
      BY <1>3, <2>2, AddedReplies
    <2>5. \A x \in (k + 1)..p.sequence : a.flights[x] = p.flights[x]
      BY <1>3, <2>2 DEF FreshFrames
    <2>6. Sent(a, u)  BY <2>1, <2>2, <2>5 DEF Sent
    <2>7. h.pending # None => h.pending.frame = a.flights[h.sequence].frame  BY <2>1, <2>2, <2>5
    <2> QED  BY <2>2, <2>3, <2>4, <2>6, <2>7 DEF LiveRuns, k
  <1>7. ASSUME Awaited(c, h) PROVE AwaitedRuns(b, u)
    <2>1. FreshFrames(p, 0) /\ Chained(p, 0, NoPlanes) /\ Sent(p, u)
      BY <1>2, <1>7 DEF ChannelRuns, AwaitedRuns
    <2>2. \A j \in 1..Len(u) : u[j].seq \in 1..p.sequence  BY <1>7, SentFresh
    <2>3. FreshFrames(a, 0) /\ Chained(a, 0, NoPlanes)  BY <1>1, <2>1, AddedFrames
    <2>4. \A x \in (0 + 1)..p.sequence : a.flights[x] = p.flights[x]
      BY <1>3, <2>1 DEF FreshFrames
    <2>5. Sent(a, u)  BY <2>1, <2>2, <2>4 DEF Sent
    <2> QED  BY <2>3, <2>5 DEF AwaitedRuns
  <1> QED  BY <1>2, <1>4, <1>5, <1>6, <1>7 DEF Runs, ChannelRuns

LEMMA DrawnUnused ==
    ASSUME IInv, presenter.open, queue.free # <<>>, NEW primary \in Drawn(TRUE),
           NEW x \in DOMAIN presenter.flights, 0 \notin presenter.flights[x].released
    PROVE  presenter.flights[x].frame[0].buf # primary
  <1> DEFINE A == Acked(presenter, queue)
             b == presenter.flights[x].frame[0].buf
  <1>1. primary[3] = Head(queue.free)  BY DrawnFacts
  <1>2. PresenterOk(presenter, queue, out, gpu)  BY DEF IInv
  <1>3. /\ presenter.sequence \in Nat /\ queue.free \in Seq(Range(Buffers)) /\ Len(queue.flying) \in Nat
        /\ x \in 1..presenter.sequence
    BY <1>2 DEF PresenterOk, PresenterSet, QueueSet, FlightsOk
  <1>4. Head(queue.free) \in Range(queue.free)
    <2>1. 1 \in DOMAIN queue.free /\ Head(queue.free) = queue.free[1]  BY <1>3
    <2> QED  BY <2>1 DEF Range
  <1>5. A = presenter.sequence - Len(queue.flying) /\ A >= 0  BY <1>2 DEF PresenterOk, SwapsOk, Acked
  <1>6. \E k \in 0..Len(queue.flying) : b = ShownAt(queue, k)
    <2>1. CASE x <= A
      <3>1. b = queue.shown  BY <1>2, <2>1 DEF PresenterOk, SwapsOk
      <3>2. b = ShownAt(queue, 0) /\ 0 \in 0..Len(queue.flying)  BY <1>3, <3>1 DEF ShownAt
      <3> QED  BY <3>2
    <2>2. CASE ~(x <= A)
      <3>1. x > A /\ x - A \in 0..Len(queue.flying) /\ x - A # 0  BY <1>3, <1>5, <2>2
      <3>2. b = queue.flying[x - A]  BY <1>2, <3>1 DEF PresenterOk, SwapsOk
      <3> QED  BY <3>1, <3>2 DEF ShownAt
    <2> QED  BY <2>1, <2>2
  <1>7. b # None
    <2>1. 0 \in DOMAIN presenter.flights[x].frame /\ b \in Names(0)
      <3>1. presenter.flights[x].frame \in FrameSet  BY <1>2, FlightFacts DEF PresenterOk
      <3> DEFINE f == presenter.flights[x].frame
      <3>2. 0 \in DOMAIN f  BY <3>1 DEF FrameSet, Planes
      <3>3. f[0] \in PlaneSet(0)  BY <3>1, <3>2 DEF FrameSet
      <3>4. f[0].buf \in Names(0)  BY <3>3 DEF PlaneSet
      <3> QED  BY <3>2, <3>4
    <2> QED  BY <2>1, ConstantsAssumption
  <1> HIDE DEF b
  <1>8. b[3] \notin Range(queue.free)  BY <1>2, <1>6, <1>7 DEF PresenterOk, QueueOk
  <1> QED  BY <1>1, <1>4, <1>8 DEF b

LEMMA VideoUnused ==
    ASSUME IInv, NEW v \in VideoDrawn("new"), NEW x \in DOMAIN presenter.flights,
           1 \notin presenter.flights[x].released
    PROVE  presenter.flights[x].frame[1].buf # v
  <1>1. PICK w \in Videos : v = <<"video", gpu, w>> /\ reads[w] = 0
    <2>1. VideoDrawn("new") = {<<"video", gpu, u>> : u \in {u \in Videos : reads[u] = 0}}
      BY DEF VideoDrawn
    <2> QED  BY <2>1
  <1>2. PresenterOk(presenter, queue, out, gpu) /\ ReadsOk(presenter, gpu, reads)  BY DEF IInv
  <1> DEFINE O == Owing(presenter, gpu, w)
  <1>3. IsFiniteSet(O) /\ Cardinality(O) \in Nat
    <2>1. gpu = <<gpu, w>>[1] /\ w = <<gpu, w>>[2]  OBVIOUS
    <2>2. IsFiniteSet(Owing(presenter, <<gpu, w>>[1], <<gpu, w>>[2]))
          /\ Cardinality(Owing(presenter, <<gpu, w>>[1], <<gpu, w>>[2])) \in Nat
      BY <1>2, OwingFinite
    <2> QED  BY <2>1, <2>2
  <1>4. reads[w] - Cardinality(O) >= 0  BY <1>2 DEF ReadsOk, Excess
  <1>5. Cardinality(O) = 0  BY <1>1, <1>3, <1>4
  <1>6. O = {}  BY <1>3, <1>5, FS_EmptySet
  <1> QED  BY <1>1, <1>6 DEF Owing

LEMMA PresentAdds ==
    ASSUME IInv, NEW redraw \in BOOLEAN, NEW valid \in BOOLEAN, NEW video \in {"none", "same", "new"},
           Present(redraw, video, valid)
    PROVE  /\ Adds(presenter, presenter') /\ Unused(presenter, presenter')
           /\ presenter'.fault = presenter.fault
           /\ UNCHANGED <<out, up, down, host, session, detaches>>
  <1> DEFINE p == presenter
             seq == presenter.sequence + 1
             frame(primary, v) ==
                [i \in IF v = None THEN {0} ELSE Planes |->
                    IF i = 0 THEN Plane(primary, ~redraw, presenter.last[0], seq)
                    ELSE Plane(v, video = "same", presenter.last[1], seq)]
             flight(f) == [frame |-> f, accepted |-> FALSE, processed |-> FALSE, done |-> FALSE,
                           released |-> Planes \ DOMAIN f]
             flights(f) == [s \in DOMAIN presenter.flights \cup {seq} |->
                               IF s = seq THEN flight(f) ELSE presenter.flights[s]]
             invalid == \/ presenter.invalid \/ ~valid
                        \/ Cardinality(DOMAIN presenter.flights) >= MaxFlights
  <1>1. /\ out' = out /\ up' = up /\ down' = down /\ host' = host /\ session' = session
        /\ detaches' = detaches
    BY DEF Present
  <1>2. PICK primary \in Drawn(redraw), v \in VideoDrawn(video) :
           presenter' = [presenter EXCEPT !.sequence = seq, !.flights = flights(frame(primary, v)),
                                          !.last = Contents(frame(primary, v)), !.invalid = invalid]
    BY ZenonT(60) DEF Present
  <1> DEFINE f == frame(primary, v)
             fs == flights(f)
             a == presenter'
             x == Plane(primary, ~redraw, presenter.last[0], seq)
             y == Plane(v, video = "same", presenter.last[1], seq)
  <1>3. PresenterOk(presenter, queue, out, gpu) /\ ChannelOk(Context, host, session, up, down)
    BY DEF IInv
  <1>4. /\ presenter \in PresenterSet /\ presenter.sequence \in Nat
        /\ DOMAIN presenter.flights \subseteq 1..presenter.sequence
        /\ Sender(presenter)
        /\ \A i \in Planes : presenter.last[i] \in ContentSet
    BY <1>3 DEF PresenterOk, PresenterSet, FlightsOk, Sender
  <1>5. seq \notin DOMAIN presenter.flights  BY <1>4
  <1>6. 0 \in Planes /\ 1 \in Planes /\ \A i \in Planes : i = 0 \/ i = 1  BY DEF Planes
  <1>7. DOMAIN f = (IF v = None THEN {0} ELSE Planes) /\ \A i \in DOMAIN f : f[i] = IF i = 0 THEN x ELSE y
    OBVIOUS
  <1>8. /\ x.reuse = ~redraw /\ x.buf = primary /\ (~redraw => x.content = presenter.last[0].content)
        /\ y.reuse = (video = "same") /\ y.buf = v
        /\ (video = "same" => y.content = presenter.last[1].content)
    BY DEF Plane
  <1>9. ~redraw => primary = presenter.last[0].buf  BY DEF Drawn
  <1>10. video = "same" => v = presenter.last[1].buf
    <2>1. ASSUME video = "same" PROVE v \in {presenter.last[1].buf} \ {None}
      <3>1. video # "none"  BY <2>1
      <3> QED  BY <2>1, <3>1 DEF VideoDrawn
    <2> QED  BY <2>1
  <1> HIDE DEF x, y
  <1>11. ASSUME NEW i \in DOMAIN f, f[i].reuse PROVE presenter.last[i] = Contents(f)[i]
    <2>1. i \in Planes  BY <1>6, <1>7
    <2>2. presenter.last[i] = [buf |-> presenter.last[i].buf, content |-> presenter.last[i].content]
      BY <1>4, <2>1 DEF ContentSet
    <2>3. f[i].buf = presenter.last[i].buf /\ f[i].content = presenter.last[i].content
      BY <1>6, <1>7, <1>8, <1>9, <1>10, <1>11, <2>1
    <2> HIDE DEF f
    <2> QED  BY <2>1, <2>2, <2>3 DEF Contents
  <1> HIDE DEF f
  <1>12. /\ DOMAIN fs = DOMAIN presenter.flights \cup {seq} /\ fs[seq] = flight(f)
         /\ \A s \in DOMAIN presenter.flights : fs[s] = presenter.flights[s]
    BY <1>5
  <1>13. a = [presenter EXCEPT !.sequence = seq, !.flights = fs, !.last = Contents(f), !.invalid = invalid]
    BY <1>2 DEF f
  <1> HIDE DEF fs, invalid
  <1>14. /\ a.open = presenter.open /\ a.sequence = seq /\ a.flights = fs /\ a.last = Contents(f)
         /\ a.fault = presenter.fault
    BY <1>4, <1>13 DEF PresenterSet
  <1>15. /\ flight(f).frame = f /\ flight(f).accepted = FALSE /\ flight(f).processed = FALSE
         /\ flight(f).done = FALSE /\ flight(f).released = Planes \ DOMAIN f
    OBVIOUS
  <1> DEFINE b == Context'
             fl == flight(f)
  <1>16. /\ fl.frame = f /\ ~fl.accepted /\ ~fl.processed /\ ~fl.done
         /\ fl.released = Planes \ DOMAIN f /\ fs[seq] = fl
    BY <1>12, <1>15
  <1>17. b.presenter = a /\ b.out = out /\ Context.presenter = presenter /\ Context.out = out
    BY <1>1 DEF Context
  <1> HIDE DEF a, b, fl, flight
  <1>18. Adds(presenter, a)  BY <1>11, <1>12, <1>14, <1>16 DEF Adds
  <1>19. ASSUME NEW i \in DOMAIN f, ~f[i].reuse, NEW s \in DOMAIN presenter.flights,
                i \in DOMAIN presenter.flights[s].frame \ presenter.flights[s].released
         PROVE  presenter.flights[s].frame[i].buf # f[i].buf
    <2>1. CASE i = 0
      <3>1. f[i] = x /\ redraw = TRUE  BY <1>7, <1>8, <1>19, <2>1
      <3>2. presenter.open /\ queue.free # <<>>  BY <3>1 DEF Present
      <3>3. primary \in Drawn(TRUE)  BY <3>1
      <3> QED  BY <1>8, <1>19, <2>1, <3>1, <3>2, <3>3, DrawnUnused
    <2>2. CASE i = 1
      <3>5. f[i] = y /\ v # None  BY <1>7, <1>19, <2>2
      <3>6. video # "same"
        <4>1. SUFFICES ASSUME video = "same" PROVE FALSE  OBVIOUS
        <4>2. y.reuse = TRUE  BY <1>8, <4>1
        <4> QED  BY <1>19, <3>5, <4>2
      <3>1. f[i] = y /\ video # "same" /\ v # None  BY <3>5, <3>6
      <3>2. VideoDrawn("none") = {None}  BY DEF VideoDrawn
      <3>3. video = "new"  BY <3>1, <3>2
      <3>4. v \in VideoDrawn("new")  BY <3>3
      <3> QED  BY <1>8, <1>19, <2>2, <3>1, <3>4, VideoUnused
    <2> QED  BY <1>6, <1>7, <2>1, <2>2
  <1>20. Unused(presenter, a)  BY <1>14, <1>16, <1>19 DEF Unused
  <1> QED  BY <1>1, <1>14, <1>18, <1>20 DEF a

LEMMA PresentRuns ==
    ASSUME IInv, RInv, NEW redraw \in BOOLEAN, NEW valid \in BOOLEAN, NEW video \in {"none", "same", "new"},
           Present(redraw, video, valid)
    PROVE  RInv'
  <1> DEFINE a == presenter'
             b == Context'
  <1>1. /\ Adds(presenter, a) /\ a.fault = presenter.fault
        /\ UNCHANGED <<out, up, down, host, session, detaches>>
    BY PresentAdds
  <1>2. PresenterOk(presenter, queue, out, gpu) /\ ChannelOk(Context, host, session, up, down)
    BY DEF IInv
  <1>3. Sender(presenter)  BY <1>2 DEF PresenterOk, FlightsOk, Sender
  <1>4. b.presenter = a /\ b.out = out /\ Context.presenter = presenter /\ Context.out = out
    BY <1>1 DEF Context
  <1> HIDE DEF a, b
  <1>5. Runs(b, host, session, up, down, detaches)
    <2>1. Runs(Context, host, session, up, down, detaches)  BY DEF RInv
    <2>2. Sender(Context.presenter) /\ b.out = Context.out /\ Adds(Context.presenter, b.presenter)
      BY <1>1, <1>3, <1>4
    <2> QED  BY <1>2, <2>1, <2>2, AddedRuns
  <1>6. FlightsTold(a)
    <2>1. FlightsTold(presenter)  BY DEF RInv
    <2> QED  BY <1>1, <2>1 DEF FlightsTold, Adds
  <1>7. RepliesExpected'
    BY <1>1 DEF RInv, RepliesExpected, a
  <1> QED  BY <1>1, <1>5, <1>6, <1>7 DEF RInv, a, b
-----------------------------------------------------------------------------
(* Presenter::Poll: frames are sent, replies are taken *)

LEMMA SentRuns ==
    ASSUME NEW c, NEW h, NEW s, NEW u, NEW d, NEW n, Runs(c, h, s, u, d, n),
           NEW b, b.out = c.out, b.presenter.open = c.presenter.open,
           b.presenter.flights = c.presenter.flights, b.presenter.sequence = c.presenter.sequence,
           b.presenter.last = c.presenter.last,
           NEW w, Sent(c.presenter, u) => Sent(b.presenter, w)
    PROVE  Runs(b, h, s, w, d, n)
  <1>1. (Live(b, h) <=> Live(c, h)) /\ (Awaited(b, h) <=> Awaited(c, h))  BY DEF Live, Awaited
  <1>2. Connected(b, h, n)  BY DEF Runs, Connected
  <1>3. \A k : FreshFrames(c.presenter, k) => FreshFrames(b.presenter, k)  BY DEF FreshFrames
  <1>4. \A k, base : Chained(c.presenter, k, base) => Chained(b.presenter, k, base)
    <2>1. SUFFICES ASSUME NEW k, NEW base, Chained(c.presenter, k, base)
                   PROVE  Chained(b.presenter, k, base)
      OBVIOUS
    <2>2. \A x : Before(b.presenter, k, base, x) = Before(c.presenter, k, base, x)  BY DEF Before
    <2> QED  BY <2>1, <2>2 DEF Chained
  <1>5. LiveRuns(c, h, s, u, d) => LiveRuns(b, h, s, w, d)  BY <1>3, <1>4 DEF LiveRuns
  <1>6. AwaitedRuns(c, u) => AwaitedRuns(b, w)  BY <1>3, <1>4 DEF AwaitedRuns
  <1> QED  BY <1>1, <1>2, <1>5, <1>6 DEF Runs, ChannelRuns

LEMMA SendingSent ==
    ASSUME IInv, NEW n \in Nat, Sent(presenter, up)
    PROVE  Sent(presenter, Sending(n))
  <1> DEFINE msg(k) == [op |-> "frame", seq |-> presenter.sent + k,
                        frame |-> presenter.flights[presenter.sent + k].frame]
             S == {msg(k) : k \in 1..n} \cup MessageSet
             more == [k \in 1..n |-> msg(k)]
             u == up \o more
  <1>1. up \in Seq(MessageSet)  BY DEF IInv, ChannelOk
  <1>2. up \in Seq(S)
    <2> HIDE DEF msg
    <2> QED  BY <1>1
  <1>3. more \in Seq(S) /\ Len(more) = n /\ \A k \in 1..n : more[k] = msg(k)
    <2> HIDE DEF msg
    <2> QED  OBVIOUS
  <1>4. \A k : msg(k).frame = presenter.flights[msg(k).seq].frame  OBVIOUS
  <1>5. u = Sending(n)  BY DEF Sending
  <1> HIDE DEF msg, S, more
  <1>6. /\ Len(u) = Len(up) + Len(more) /\ Len(up) \in Nat
        /\ \A k \in 1..(Len(up) + Len(more)) : u[k] = IF k <= Len(up) THEN up[k] ELSE more[k - Len(up)]
    BY <1>2, <1>3, ConcatFacts
  <1> HIDE DEF u
  <1>7. ASSUME NEW k \in 1..Len(u) PROVE u[k].frame = presenter.flights[u[k].seq].frame
    <2>1. CASE k <= Len(up)
      <3>1. k \in 1..Len(up) /\ u[k] = up[k]  BY <1>3, <1>6, <2>1
      <3> QED  BY <3>1 DEF Sent
    <2>2. CASE ~(k <= Len(up))
      <3>1. k - Len(up) \in 1..n /\ u[k] = more[k - Len(up)]  BY <1>3, <1>6, <2>2
      <3> QED  BY <1>3, <1>4, <3>1
    <2> QED  BY <2>1, <2>2
  <1>8. Sent(presenter, u)  BY <1>7 DEF Sent
  <1> QED  BY <1>5, <1>8

(* What the flights gs, which are left of fs, have heard from the replies.  *)
Heard(fs, d, gs) ==
    /\ DOMAIN gs \subseteq DOMAIN fs
    /\ \A s \in DOMAIN gs :
          /\ gs[s].frame = fs[s].frame
          /\ gs[s].accepted <=> Acc(fs[s], Range(d), s)
          /\ gs[s].processed <=> Pro(fs[s], Range(d), s)
          /\ \A i : i \in gs[s].released <=> Rel(fs[s], Range(d), s, i)
          /\ gs[s].done => Pro(fs[s], Range(d), s)
    /\ \A s \in DOMAIN fs \ DOMAIN gs :
          Pro(fs[s], Range(d), s) /\ \A i \in Planes : Rel(fs[s], Range(d), s, i)

LEMMA ApplyTold ==
    ASSUME NEW f \in FlightSet, NEW seq, NEW d \in Seq(ReplySet)
    PROVE  /\ Apply(f, seq, d).accepted <=> Acc(f, Range(d), seq)
           /\ Apply(f, seq, d).processed <=> Pro(f, Range(d), seq)
           /\ \A i : i \in Apply(f, seq, d).released <=> Rel(f, Range(d), seq, i)
           /\ Apply(f, seq, d).done = f.done
  <1> DEFINE mine == {r \in Range(d) : r.seq = seq}
             acc == f.accepted \/ \E r \in mine : r.op = "accepted"
             pro == f.processed \/ \E r \in mine : r.op = "processed"
             rel == f.released \cup {r.plane : r \in {r \in mine : r.op = "released"}}
             a == Apply(f, seq, d)
  <1>1. a = [f EXCEPT !.accepted = acc, !.processed = pro, !.released = rel]
    BY Zenon DEF Apply
  <1>2. acc <=> Acc(f, Range(d), seq)  BY DEF Acc
  <1>3. pro <=> Pro(f, Range(d), seq)  BY DEF Pro
  <1>4. \A i : i \in rel <=> Rel(f, Range(d), seq, i)  BY DEF Rel
  <1> HIDE DEF acc, pro, rel, a
  <1>5. a.accepted = acc /\ a.processed = pro /\ a.released = rel /\ a.done = f.done
    BY <1>1 DEF FlightSet
  <1> QED  BY <1>2, <1>3, <1>4, <1>5 DEF a

LEMMA LeftHeard ==
    ASSUME NEW p \in PresenterSet, FlightsTold(p), NEW d \in Seq(ReplySet)
    PROVE  Heard(p.flights, d, Left(p.flights, d))
  <1> DEFINE fs == p.flights
             G == Got(fs, d)
             M == Marked(fs, d)
             L == Left(fs, d)
             R == Range(d)
  <1>1. \A s \in DOMAIN fs : fs[s] \in FlightSet  BY FlightFacts
  <1>2. DOMAIN G = DOMAIN fs /\ \A s \in DOMAIN fs : G[s] = Apply(fs[s], s, d)  BY DEF Got
  <1>3. /\ DOMAIN M = DOMAIN fs
        /\ \A s \in DOMAIN fs : M[s] = [G[s] EXCEPT !.done = s \in Swapped(G)]
    BY DEF Marked
  <1>4. L = [s \in {s \in DOMAIN M : ~(M[s].done /\ M[s].released = Planes)} |-> M[s]]
    BY DEF Left, RestrictValues, Restrict
  <1>5. \A s \in DOMAIN fs : s \in Swapped(G) => G[s].done \/ G[s].processed
    <2> SUFFICES ASSUME NEW s \in DOMAIN fs, s \in Swapped(G) PROVE G[s].done \/ G[s].processed
      OBVIOUS
    <2>1. s \in Nat  BY FlightFacts
    <2>2. s <= s  BY <2>1
    <2> HIDE DEF G
    <2>3. G[s].done \/ Ready(G, s)  BY <1>2, <2>2 DEF Swapped
    <2> QED  BY <2>3 DEF Ready
  <1> HIDE DEF G, M
  <1>6. ASSUME NEW s \in DOMAIN fs
        PROVE  /\ M[s].frame = fs[s].frame
               /\ M[s].accepted <=> Acc(fs[s], R, s)
               /\ M[s].processed <=> Pro(fs[s], R, s)
               /\ \A i : i \in M[s].released <=> Rel(fs[s], R, s, i)
               /\ M[s].done => Pro(fs[s], R, s)
    <2> DEFINE b == s \in Swapped(G)
               x == Apply(fs[s], s, d)
    <2>1. /\ x.accepted <=> Acc(fs[s], R, s)
          /\ x.processed <=> Pro(fs[s], R, s)
          /\ \A i : i \in x.released <=> Rel(fs[s], R, s, i)
          /\ x.done = fs[s].done
      BY <1>1, ApplyTold
    <2>2. x \in FlightSet /\ x.frame = fs[s].frame  BY <1>1, ApplyFacts
    <2>3. G[s] = x  BY <1>2
    <2> HIDE DEF b, x
    <2>4. M[s] = [x EXCEPT !.done = b]  BY <1>3, <2>3 DEF b
    <2>5. /\ M[s].frame = x.frame /\ M[s].accepted = x.accepted /\ M[s].processed = x.processed
          /\ M[s].released = x.released /\ M[s].done = b
      BY <2>2, <2>4 DEF FlightSet
    <2>6. fs[s].done => Pro(fs[s], R, s)  BY DEF FlightsTold, Pro
    <2>7. b => x.done \/ x.processed  BY <1>5, <2>3 DEF b
    <2>8. b => Pro(fs[s], R, s)  BY <2>1, <2>6, <2>7
    <2> QED  BY <2>1, <2>2, <2>5, <2>8
  <1>7. /\ DOMAIN L = {s \in DOMAIN fs : ~(M[s].done /\ M[s].released = Planes)}
        /\ \A s \in DOMAIN L : L[s] = M[s]
    BY <1>3, <1>4
  <1> HIDE DEF L, R
  <1>8. ASSUME NEW s \in DOMAIN fs \ DOMAIN L
        PROVE  Pro(fs[s], R, s) /\ \A i \in Planes : Rel(fs[s], R, s, i)
    BY <1>6, <1>7
  <1>9. ASSUME NEW s \in DOMAIN L
        PROVE  /\ L[s].frame = fs[s].frame
               /\ L[s].accepted <=> Acc(fs[s], R, s)
               /\ L[s].processed <=> Pro(fs[s], R, s)
               /\ \A i : i \in L[s].released <=> Rel(fs[s], R, s, i)
               /\ L[s].done => Pro(fs[s], R, s)
    <2>1. s \in DOMAIN fs /\ L[s] = M[s]  BY <1>7
    <2> QED  BY <1>6, <2>1
  <1>10. DOMAIN L \subseteq DOMAIN fs  BY <1>7
  <1> QED  BY <1>8, <1>9, <1>10 DEF Heard, L, R

LEMMA HeardMore ==
    ASSUME NEW fs, NEW d, NEW gs, Heard(fs, d, gs), NEW s \in DOMAIN gs, NEW R
    PROVE  /\ Acc(gs[s], R, s) <=> Acc(fs[s], Range(d) \cup R, s)
           /\ Pro(gs[s], R, s) <=> Pro(fs[s], Range(d) \cup R, s)
           /\ \A i : Rel(gs[s], R, s, i) <=> Rel(fs[s], Range(d) \cup R, s, i)
  <1>1. /\ gs[s].accepted <=> Acc(fs[s], Range(d), s)
        /\ gs[s].processed <=> Pro(fs[s], Range(d), s)
        /\ \A i : i \in gs[s].released <=> Rel(fs[s], Range(d), s, i)
    BY DEF Heard
  <1>2. Acc(gs[s], R, s) <=> Acc(fs[s], Range(d) \cup R, s)  BY <1>1 DEF Acc
  <1>3. Pro(gs[s], R, s) <=> Pro(fs[s], Range(d) \cup R, s)  BY <1>1 DEF Pro
  <1>4. \A i : Rel(gs[s], R, s, i) <=> Rel(fs[s], Range(d) \cup R, s, i)  BY <1>1 DEF Rel
  <1> QED  BY <1>2, <1>3, <1>4

(* No flight is processed before it is accepted.                            *)
LEMMA HeardInOrder ==
    ASSUME NEW p, FlightsTold(p), NEW d \in Seq(ReplySet), Orderly(p.flights, {}, d),
           NEW s \in DOMAIN p.flights, Pro(p.flights[s], Range(d), s)
    PROVE  Acc(p.flights[s], Range(d), s)
  <1>1. CASE p.flights[s].processed  BY <1>1 DEF FlightsTold, Acc
  <1>2. CASE \E r \in Range(d) : r.op = "processed" /\ r.seq = s
    <2>1. PICK n \in 1..Len(d) : d[n].op = "processed" /\ d[n].seq = s  BY <1>2 DEF Range
    <2>2. Expects(p.flights[s], {} \cup Prefix(d, n - 1), d[n])  BY <2>1 DEF Orderly
    <2>3. Acc(p.flights[s], {} \cup Prefix(d, n - 1), s)  BY <2>1, <2>2 DEF Expects
    <2>4. Prefix(d, n - 1) \subseteq Range(d)  BY DEF Prefix, Range
    <2> QED  BY <2>3, <2>4 DEF Acc
  <1> QED  BY <1>1, <1>2 DEF Pro

LEMMA HeardTold ==
    ASSUME NEW p, FlightsTold(p), NEW d \in Seq(ReplySet), Orderly(p.flights, {}, d),
           NEW a, Heard(p.flights, d, a.flights)
    PROVE  FlightsTold(a)
  <1> SUFFICES ASSUME NEW s \in DOMAIN a.flights
               PROVE  /\ a.flights[s].done => a.flights[s].processed
                      /\ a.flights[s].processed => a.flights[s].accepted
    BY DEF FlightsTold
  <1>1. /\ s \in DOMAIN p.flights
        /\ a.flights[s].accepted <=> Acc(p.flights[s], Range(d), s)
        /\ a.flights[s].processed <=> Pro(p.flights[s], Range(d), s)
        /\ a.flights[s].done => Pro(p.flights[s], Range(d), s)
    BY DEF Heard
  <1>2. Pro(p.flights[s], Range(d), s) => Acc(p.flights[s], Range(d), s)  BY <1>1, HeardInOrder
  <1> QED  BY <1>1, <1>2

(* What was expected after the replies is still expected once they are      *)
(* taken: a flight that is gone expected nothing.                           *)
LEMMA HeardOrderly ==
    ASSUME NEW p, FlightsTold(p), NEW d \in Seq(ReplySet), Orderly(p.flights, {}, d),
           NEW gs, Heard(p.flights, d, gs), NEW q \in Seq(ReplySet), Orderly(p.flights, Range(d), q)
    PROVE  Orderly(gs, {}, q)
  <1> DEFINE fs == p.flights
  <1> SUFFICES ASSUME NEW n \in 1..Len(q)
               PROVE  q[n].seq \in DOMAIN gs /\ Expects(gs[q[n].seq], {} \cup Prefix(q, n - 1), q[n])
    BY DEF Orderly
  <1> DEFINE r == q[n]
             x == r.seq
             P == Prefix(q, n - 1)
  <1>1. x \in DOMAIN fs /\ Expects(fs[x], Range(d) \cup P, r)  BY DEF Orderly
  <1>2. r \in ReplySet  OBVIOUS
  <1>3. /\ r.op \in {"accepted", "processed", "rejected", "released"}
        /\ r.op = "released" => r.plane \in Planes
    BY <1>2 DEF ReplySet
  <1> HIDE DEF P, r
  <1>4. x \in DOMAIN gs
    <2>1. SUFFICES ASSUME x \notin DOMAIN gs PROVE FALSE  OBVIOUS
    <2>2. Pro(fs[x], Range(d), x) /\ \A i \in Planes : Rel(fs[x], Range(d), x, i)
      BY <1>1, <2>1 DEF Heard
    <2>3. Acc(fs[x], Range(d), x)  BY <1>1, <2>2, HeardInOrder
    <2>4. Acc(fs[x], Range(d) \cup P, x)  BY <2>3 DEF Acc
    <2>5. Pro(fs[x], Range(d) \cup P, x)  BY <2>2 DEF Pro
    <2>6. \A i \in Planes : Rel(fs[x], Range(d) \cup P, x, i)  BY <2>2 DEF Rel
    <2> QED  BY <1>1, <1>3, <2>4, <2>5, <2>6 DEF Expects
  <1>5. /\ Acc(gs[x], P, x) <=> Acc(fs[x], Range(d) \cup P, x)
        /\ Pro(gs[x], P, x) <=> Pro(fs[x], Range(d) \cup P, x)
        /\ \A i : Rel(gs[x], P, x, i) <=> Rel(fs[x], Range(d) \cup P, x, i)
    BY <1>4, HeardMore
  <1>6. Expects(gs[x], P, r)  BY <1>1, <1>5 DEF Expects
  <1>7. {} \cup P = P  OBVIOUS
  <1> QED  BY <1>4, <1>6, <1>7 DEF P, r

LEMMA HeardOwed ==
    ASSUME NEW fs, NEW d, NEW gs, Heard(fs, d, gs), NEW h, NEW s, SessionType(s),
           Owed(fs, h, s, Replies(h, d))
    PROVE  Owed(gs, h, s, Replies(h, <<>>))
  <1> DEFINE R == Range(h.outgoing)
  <1>1. Replies(h, <<>>) = R /\ Replies(h, d) = Range(d) \cup R  BY RangeOfNone DEF Replies
  <1> HIDE DEF R
  <1>2. ASSUME NEW l \in s.leases \cup s.redundant PROVE Awaits(gs, R, l)
    <2>1. l.plane \in Planes  BY DEF SessionType, SessionSet, LeaseSet, KeySet
    <2>2. /\ l.seq \in DOMAIN fs /\ Acc(fs[l.seq], Range(d) \cup R, l.seq)
          /\ ~Rel(fs[l.seq], Range(d) \cup R, l.seq, l.plane)
      BY <1>1 DEF Owed, Awaits
    <2>3. ~Rel(fs[l.seq], Range(d), l.seq, l.plane)  BY <2>2 DEF Rel
    <2>4. l.seq \in DOMAIN gs  BY <2>1, <2>2, <2>3 DEF Heard
    <2>5. /\ Acc(gs[l.seq], R, l.seq) <=> Acc(fs[l.seq], Range(d) \cup R, l.seq)
          /\ \A i : Rel(gs[l.seq], R, l.seq, i) <=> Rel(fs[l.seq], Range(d) \cup R, l.seq, i)
      BY <2>4, HeardMore
    <2> QED  BY <2>2, <2>4, <2>5 DEF Awaits
  <1>3. ASSUME ~h.processed
        PROVE  /\ h.sequence \in DOMAIN gs
               /\ Acc(gs[h.sequence], R, h.sequence) /\ ~Pro(gs[h.sequence], R, h.sequence)
    <2> DEFINE x == h.sequence
    <2>1. x \in DOMAIN fs /\ Acc(fs[x], Range(d) \cup R, x) /\ ~Pro(fs[x], Range(d) \cup R, x)
      BY <1>1, <1>3 DEF Owed
    <2> HIDE DEF x
    <2>2. ~Pro(fs[x], Range(d), x)  BY <2>1 DEF Pro
    <2>3. x \in DOMAIN gs  BY <2>1, <2>2 DEF Heard
    <2>4. /\ Acc(gs[x], R, x) <=> Acc(fs[x], Range(d) \cup R, x)
          /\ Pro(gs[x], R, x) <=> Pro(fs[x], Range(d) \cup R, x)
      BY <2>3, HeardMore
    <2> QED  BY <2>1, <2>3, <2>4 DEF x
  <1> QED  BY <1>1, <1>2, <1>3 DEF Owed

(* Frames that the replies are not about.                                   *)
LEMMA HeardFresh ==
    ASSUME NEW p, p.sequence \in Nat, NEW a, a.sequence = p.sequence, a.last = p.last, NEW d \in Seq(ReplySet),
           Heard(p.flights, d, a.flights), \A s \in DOMAIN a.flights : a.flights[s] \in FlightSet,
           \A s \in DOMAIN p.flights : p.flights[s].released \in SUBSET Planes,
           NEW k \in Int, k <= p.sequence, \A r \in Range(d) : r.seq <= k, NEW base,
           FreshFrames(p, k), Chained(p, k, base)
    PROVE  /\ FreshFrames(a, k) /\ Chained(a, k, base)
           /\ \A s \in (k + 1)..p.sequence : a.flights[s].frame = p.flights[s].frame
  <1> DEFINE fs == p.flights
             gs == a.flights
  <1>1. \A r \in Range(d) : r.seq \in Nat  BY DEF Range, ReplySet
  <1>2. ASSUME NEW s \in (k + 1)..p.sequence
        PROVE  /\ s \in DOMAIN gs /\ gs[s].frame = fs[s].frame
               /\ ~gs[s].accepted /\ ~gs[s].processed
               /\ gs[s].released = Planes \ DOMAIN gs[s].frame
    <2>1. /\ s \in DOMAIN fs /\ ~fs[s].accepted /\ ~fs[s].processed
          /\ fs[s].released = Planes \ DOMAIN fs[s].frame
      BY DEF FreshFrames
    <2>2. \A r \in Range(d) : r.seq # s  BY <1>1
    <2>3. ~Acc(fs[s], Range(d), s)  BY <2>1, <2>2 DEF Acc
    <2>4. ~Pro(fs[s], Range(d), s)  BY <2>1, <2>2 DEF Pro
    <2>5. \A i : Rel(fs[s], Range(d), s, i) <=> i \in fs[s].released  BY <2>2 DEF Rel
    <2>6. s \in DOMAIN gs  BY <2>1, <2>4 DEF Heard
    <2>7. /\ gs[s].frame = fs[s].frame
          /\ ~gs[s].accepted /\ ~gs[s].processed
          /\ \A i : i \in gs[s].released <=> i \in fs[s].released
      BY <2>3, <2>4, <2>5, <2>6 DEF Heard
    <2>8. gs[s].released \in SUBSET Planes /\ fs[s].released \in SUBSET Planes
      BY <2>1, <2>6 DEF FlightSet
    <2>9. gs[s].released = fs[s].released  BY <2>7, <2>8
    <2> QED  BY <2>1, <2>6, <2>7, <2>9
  <1>3. FreshFrames(a, k)  BY <1>2 DEF FreshFrames
  <1>4. \A s \in (k + 1)..(p.sequence + 1) : Before(a, k, base, s) = Before(p, k, base, s)
    <2> SUFFICES ASSUME NEW s \in (k + 1)..(p.sequence + 1), s # k + 1
                 PROVE  Before(a, k, base, s) = Before(p, k, base, s)
      BY DEF Before
    <2>1. s - 1 \in (k + 1)..p.sequence  OBVIOUS
    <2>2. a.flights[s - 1].frame = p.flights[s - 1].frame  BY <1>2, <2>1
    <2> QED  BY <2>2 DEF Before
  <1>5. p.last = Before(p, k, base, p.sequence + 1)  BY DEF Chained
  <1>6. Before(a, k, base, p.sequence + 1) = Before(p, k, base, p.sequence + 1)
    <2>1. p.sequence + 1 \in (k + 1)..(p.sequence + 1)  OBVIOUS
    <2> QED  BY <1>4, <2>1
  <1>7. ASSUME NEW s \in (k + 1)..p.sequence, NEW i \in DOMAIN a.flights[s].frame, a.flights[s].frame[i].reuse
        PROVE  Before(a, k, base, s)[i] = Contents(a.flights[s].frame)[i]
    <2>1. Before(p, k, base, s)[i] = Contents(p.flights[s].frame)[i]
      BY <1>2, <1>7 DEF Chained
    <2>2. s \in (k + 1)..(p.sequence + 1)  OBVIOUS
    <2> QED  BY <1>2, <1>4, <2>1, <2>2
  <1>8. Chained(a, k, base)  BY <1>5, <1>6, <1>7 DEF Chained
  <1> QED  BY <1>2, <1>3, <1>8

LEMMA TakenRuns ==
    ASSUME NEW c, NEW h, NEW s, NEW u, NEW d, NEW n, ChannelOk(c, h, s, u, d), Runs(c, h, s, u, d, n),
           Sender(c.presenter), FlightsTold(c.presenter), c.presenter.open, c.out \in {h.active, h.waiting},
           NEW b, b.out = c.out, b.presenter.open, b.presenter.flights = Left(c.presenter.flights, d),
           b.presenter.sequence = c.presenter.sequence, b.presenter.last = c.presenter.last
    PROVE  Runs(b, h, s, u, <<>>, n) /\ FlightsTold(b.presenter)
  <1> DEFINE p == c.presenter
             a == b.presenter
  <1>1. /\ d \in Seq(ReplySet) /\ SessionType(s) /\ h \in HostSet /\ HostOk(c, h, s) /\ c.out \in Nat
        /\ (Live(c, h) => LiveOk(c, h, s, u, d)) /\ (Awaited(c, h) => AwaitedOk(c, u, d))
    BY DEF ChannelOk
  <1>2. p \in PresenterSet /\ p.sequence \in Nat  BY DEF Sender, PresenterSet
  <1>3. Heard(p.flights, d, a.flights)  BY <1>1, <1>2, LeftHeard
  <1>4. \A x \in DOMAIN a.flights : a.flights[x] \in FlightSet
    <2> DEFINE fs == p.flights
               L == Left(fs, d)
    <2>1. L \in [DOMAIN L -> FlightSet]  BY <1>1, <1>2, LeftFacts
    <2>2. a.flights = L  OBVIOUS
    <2> HIDE DEF L, a
    <2> QED  BY <2>1, <2>2
  <1>5. \A x \in DOMAIN p.flights : p.flights[x].released \in SUBSET Planes  BY <1>2, FlightFacts
  <1>6. ChannelRuns(c, h, s, u, d) /\ Connected(c, h, n) /\ n \in Nat  BY DEF Runs
  <1>7. Live(c, h) \/ Awaited(c, h)  BY DEF Live, Awaited
  <1>8. (Live(b, h) <=> Live(c, h)) /\ (Awaited(b, h) <=> Awaited(c, h))  BY DEF Live, Awaited
  <1>9. Connected(b, h, n)  BY <1>6 DEF Connected
  <1>10. Orderly(p.flights, {}, d)
    <2>1. Live(c, h) => Orderly(p.flights, {}, d)  BY <1>6 DEF ChannelRuns, LiveRuns
    <2>2. Awaited(c, h) => d = <<>>  BY <1>1 DEF AwaitedOk
    <2> QED  BY <1>7, <2>1, <2>2, OrderlyNone
  <1>11. FlightsTold(a)  BY <1>1, <1>3, <1>10, HeardTold
  <1>12. ASSUME Live(c, h) PROVE LiveRuns(b, h, s, u, <<>>)
    <2> DEFINE k == Taken(h)
    <2>1. /\ k \in Int /\ k <= p.sequence
          /\ h.pending # None => h.sequence \in (k + 1)..p.sequence
          /\ \A j \in 1..Len(u) : u[j].seq \in (k + 1)..p.sequence
      BY <1>12, SentFresh
    <2>2. /\ Orderly(p.flights, Range(d), h.outgoing)
          /\ Owed(p.flights, h, s, Replies(h, d))
          /\ FreshFrames(p, k) /\ Chained(p, k, h.current) /\ Sent(p, u)
          /\ h.pending # None => h.sequence > 0 /\ h.pending.frame = p.flights[h.sequence].frame
      BY <1>6, <1>12 DEF ChannelRuns, LiveRuns
    <2>3. \A r \in Range(d) : r.seq <= k
      <3> SUFFICES ASSUME NEW r \in Range(d) PROVE r.seq <= k  OBVIOUS
      <3>1. r \in ReplySet /\ r \in Replies(h, d)  BY <1>1 DEF Range, Replies
      <3>2. r.seq \in Nat  BY <3>1 DEF ReplySet
      <3>3. h.sequence \in Nat  BY <1>1 DEF HostSet
      <3>4. r.seq <= h.sequence /\ (h.pending # None => r.seq < h.sequence)
        BY <1>1, <1>12, <3>1 DEF LiveOk
      <3> QED  BY <3>2, <3>3, <3>4 DEF Taken
    <2>4. h.outgoing \in Seq(ReplySet)  BY <1>1 DEF HostSet
    <2> HIDE DEF k, a
    <2>5. a.sequence = p.sequence /\ a.last = p.last  BY DEF a
    <2>6. /\ FreshFrames(a, k) /\ Chained(a, k, h.current)
          /\ \A x \in (k + 1)..p.sequence : a.flights[x].frame = p.flights[x].frame
      BY <1>1, <1>2, <1>3, <1>4, <1>5, <2>1, <2>2, <2>3, <2>5, HeardFresh
    <2>7. Orderly(a.flights, {}, h.outgoing)  BY <1>1, <1>3, <1>10, <2>2, <2>4, HeardOrderly
    <2>8. Owed(a.flights, h, s, Replies(h, <<>>))  BY <1>1, <1>3, <2>2, HeardOwed
    <2>9. Orderly(a.flights, {}, <<>>) /\ Range(<<>>) = {}  BY OrderlyNone, RangeOfNone
    <2>10. Sent(a, u)  BY <2>1, <2>2, <2>6 DEF Sent
    <2>11. h.pending # None => h.pending.frame = a.flights[h.sequence].frame  BY <2>1, <2>2, <2>6
    <2> QED  BY <2>2, <2>6, <2>7, <2>8, <2>9, <2>10, <2>11 DEF LiveRuns, k, a
  <1>13. ASSUME Awaited(c, h) PROVE AwaitedRuns(b, u)
    <2>1. d = <<>>  BY <1>1, <1>13 DEF AwaitedOk
    <2>2. FreshFrames(p, 0) /\ Chained(p, 0, NoPlanes) /\ Sent(p, u)
      BY <1>6, <1>13 DEF ChannelRuns, AwaitedRuns
    <2>3. \A j \in 1..Len(u) : u[j].seq \in 1..p.sequence  BY <1>13, SentFresh
    <2>4. 0 \in Int /\ 0 <= p.sequence /\ \A r \in Range(d) : r.seq <= 0  BY <1>2, <2>1, RangeOfNone
    <2> HIDE DEF a
    <2>5. a.sequence = p.sequence /\ a.last = p.last  BY DEF a
    <2>6. /\ FreshFrames(a, 0) /\ Chained(a, 0, NoPlanes)
          /\ \A x \in (0 + 1)..p.sequence : a.flights[x].frame = p.flights[x].frame
      BY <1>1, <1>2, <1>3, <1>4, <1>5, <2>2, <2>4, <2>5, HeardFresh
    <2>7. Sent(a, u)  BY <2>2, <2>3, <2>6 DEF Sent
    <2> QED  BY <2>6, <2>7 DEF AwaitedRuns, a
  <1>14. HostRuns(h, s)  BY <1>6 DEF ChannelRuns
  <1>15. ChannelRuns(b, h, s, u, <<>>)  BY <1>8, <1>12, <1>13, <1>14 DEF ChannelRuns
  <1> QED  BY <1>6, <1>9, <1>11, <1>15 DEF Runs

LEMMA PresenterPollRuns ==
    ASSUME IInv, RInv, NEW n \in Nat, Poll(n)
    PROVE  RInv'
  <1> DEFINE flights == presenter.flights
             got == [s \in DOMAIN flights |-> Apply(flights[s], s, down)]
             swapped == Swapped(got)
             marked == [s \in DOMAIN flights |-> [got[s] EXCEPT !.done = s \in swapped]]
  <1>1. /\ presenter.open /\ presenter.sent + n <= presenter.sequence
        /\ \/ HostClosed /\ Fail("receive")
           \/ ~HostClosed /\ ~AllExpected(flights, down)
           \/ /\ up' = Sending(n)
              /\ presenter' = [presenter EXCEPT !.sent = @ + n]
              /\ UNCHANGED <<gpu, out, queue, reads, down, host, session, detaches>>
           \/ /\ ~HostClosed /\ presenter.sent + n = presenter.sequence
              /\ up' = Sending(n)
              /\ down' = <<>>
              /\ presenter' = [presenter EXCEPT
                    !.sent = presenter.sequence,
                    !.flights = RestrictValues(marked, LAMBDA f : ~(f.done /\ f.released = Planes))]
              /\ UNCHANGED <<gpu, out, host, session, detaches>>
    BY Zenon DEF Poll
  <1>2. CASE HostClosed /\ Fail("receive")
    BY <1>1, <1>2, GoneRuns DEF Fail
  <1>3. PresenterOk(presenter, queue, out, gpu) /\ ChannelOk(Context, host, session, up, down)
    BY DEF IInv
  <1>4. /\ Context.presenter = presenter /\ Context.out = out  BY DEF Context
  <1>5. /\ presenter \in PresenterSet /\ down \in Seq(ReplySet) /\ presenter.sequence \in Nat
        /\ presenter.sent \in Nat
    BY <1>3 DEF PresenterOk, PresenterSet, ChannelOk
  <1>6. Runs(Context, host, session, up, down, detaches) /\ FlightsTold(presenter) /\ RepliesExpected
    BY DEF RInv
  <1>7. ASSUME ~HostClosed PROVE AllExpected(flights, down)
    <2>1. Live(Context, host) \/ Awaited(Context, host)
      BY <1>1, <1>4, <1>7 DEF HostClosed, Live, Awaited
    <2>2. Live(Context, host) => Orderly(flights, {}, down)
      BY <1>4, <1>6 DEF Runs, ChannelRuns, LiveRuns
    <2>3. Awaited(Context, host) => down = <<>>  BY <1>3 DEF ChannelOk, AwaitedOk
    <2>4. Orderly(flights, {}, down)  BY <2>1, <2>2, <2>3, OrderlyNone
    <2> QED  BY <1>5, <2>4, OrderlyExpected
  <1> DEFINE p == [presenter EXCEPT !.sent = @ + n]
             c == With(p)
  <1>8. /\ PresenterOk(p, queue, out, gpu)
        /\ ChannelOk(c, host, session, Sending(n), down)
        /\ p.open /\ p.sent = presenter.sent + n /\ p.flights = presenter.flights
        /\ p.sequence = presenter.sequence /\ p.last = presenter.last /\ p.invalid = presenter.invalid
    BY <1>1, SendOk
  <1>9. p.fault = presenter.fault /\ p \in PresenterSet  BY <1>5, <1>8 DEF PresenterSet, PresenterOk
  <1>10. c.presenter = p /\ c.out = out  BY DEF With
  <1>11. FlightsTold(p)
    <2> HIDE DEF p
    <2> QED  BY <1>6, <1>8 DEF FlightsTold
  <1>12. Runs(c, host, session, Sending(n), down, detaches)
    <2>1. Sent(presenter, up) => Sent(presenter, Sending(n))  BY SendingSent
    <2> HIDE DEF p, c
    <2>2. Sent(presenter, up) => Sent(p, Sending(n))  BY <1>8, <2>1 DEF Sent
    <2>3. p.open = presenter.open  BY <1>1, <1>5, <1>8, <1>9 DEF PresenterSet
    <2>4. /\ c.out = Context.out /\ c.presenter.open = Context.presenter.open
          /\ c.presenter.flights = Context.presenter.flights
          /\ c.presenter.sequence = Context.presenter.sequence
          /\ c.presenter.last = Context.presenter.last
          /\ (Sent(Context.presenter, up) => Sent(c.presenter, Sending(n)))
      BY <1>4, <1>8, <1>10, <2>2, <2>3
    <2> QED  BY <1>6, <2>4, SentRuns
  <1>13. CASE /\ up' = Sending(n)
              /\ presenter' = [presenter EXCEPT !.sent = @ + n]
              /\ UNCHANGED <<gpu, out, queue, reads, down, host, session, detaches>>
    <2>1. Context' = c  BY <1>13 DEF Context, With
    <2>2. presenter' = p  BY <1>13
    <2> HIDE DEF p, c
    <2>3. RepliesExpected'  BY <1>6, <1>9, <1>13, <2>2 DEF RepliesExpected
    <2> QED  BY <1>11, <1>12, <1>13, <2>1, <2>2, <2>3 DEF RInv
  <1>14. CASE /\ ~HostClosed /\ presenter.sent + n = presenter.sequence
              /\ up' = Sending(n)
              /\ down' = <<>>
              /\ presenter' = [presenter EXCEPT
                    !.sent = presenter.sequence,
                    !.flights = RestrictValues(marked, LAMBDA f : ~(f.done /\ f.released = Planes))]
              /\ UNCHANGED <<gpu, out, host, session, detaches>>
    <2> DEFINE L == Left(flights, down)
               a == presenter'
               b == Context'
    <2>1. L = RestrictValues(marked, LAMBDA f : ~(f.done /\ f.released = Planes))
      BY Zenon DEF Left, Marked, Got
    <2>2. a = [presenter EXCEPT !.sent = presenter.sequence, !.flights = L]  BY <1>14, <2>1
    <2> HIDE DEF L, got, swapped, marked
    <2>3. /\ a.flights = L /\ a.open = presenter.open /\ a.sequence = presenter.sequence
          /\ a.last = presenter.last /\ a.fault = presenter.fault
      <3> HIDE DEF a
      <3> QED  BY <1>5, <2>2 DEF PresenterSet
    <2>4. b.presenter = a /\ b.out = out  BY <1>14 DEF Context
    <2>5. Sender(p)  BY <1>1, <1>8, <1>9 DEF Sender
    <2>6. out \in {host.active, host.waiting}  BY <1>14 DEF HostClosed
    <2> HIDE DEF p, c, a, b
    <2>7. /\ b.out = c.out /\ b.presenter.open /\ b.presenter.flights = Left(c.presenter.flights, down)
          /\ b.presenter.sequence = c.presenter.sequence /\ b.presenter.last = c.presenter.last
      BY <1>1, <1>8, <1>10, <2>3, <2>4 DEF L
    <2>8. Runs(b, host, session, Sending(n), <<>>, detaches) /\ FlightsTold(b.presenter)
      BY <1>8, <1>10, <1>11, <1>12, <2>5, <2>6, <2>7, TakenRuns
    <2>9. RepliesExpected'  BY <1>6, <1>14, <2>3 DEF RepliesExpected, a
    <2> QED  BY <1>14, <2>4, <2>8, <2>9 DEF RInv, a, b
  <1> HIDE DEF p, c
  <1> QED  BY <1>1, <1>2, <1>7, <1>13, <1>14

-----------------------------------------------------------------------------
LEMMA NextRuns ==
    ASSUME IInv, RInv, [Next]_vars
    PROVE  RInv'
  <1>1. /\ ChannelOk(Context, host, session, up, down) /\ Sender(presenter)
    BY DEF IInv, PresenterOk, FlightsOk, Sender
  <1>2. /\ Runs(Context, host, session, up, down, detaches) /\ FlightsTold(presenter) /\ RepliesExpected
    BY DEF RInv
  <1>3. ASSUME NEW redraw \in BOOLEAN, NEW valid \in BOOLEAN, NEW video \in {"none", "same", "new"},
               Present(redraw, video, valid)
        PROVE  RInv'
    BY <1>3, PresentRuns
  <1>4. ASSUME NEW n \in 0..MaxSwaps, Poll(n) PROVE RInv'
    <2>1. n \in Nat  BY ConstantsAssumption
    <2> QED  BY <1>4, <2>1, PresenterPollRuns
  <1>5. CASE PollInvalid \/ PollTimeout \/ DestroyPresenter \/ GpuDies
    <2>1. presenter.open /\ Gone("none")
      BY <1>5 DEF PollInvalid, PollTimeout, DestroyPresenter, GpuDies, Fail
    <2> QED  BY <2>1, GoneRuns
  <1>6. CASE Connect  BY <1>6, ConnectRuns
  <1>7. ASSUME presenter' = presenter, detaches' \in Nat, detaches > 0 => detaches' > 0,
               Runs(Context, host, session, up, down, detaches)'
        PROVE  RInv'
    <2>1. FlightsTold(presenter')  BY <1>2, <1>7
    <2>2. RepliesExpected'  BY <1>2, <1>7 DEF RepliesExpected
    <2> QED  BY <1>7, <2>1, <2>2 DEF RInv
  <1>8. detaches \in Nat  BY <1>2 DEF Runs
  <1>9. ASSUME NEW full \in BOOLEAN, Tick(full) PROVE RInv'
    <2>1. presenter' = presenter /\ detaches' = detaches  BY <1>9 DEF Tick
    <2>2. Runs(Context, host, session, up, down, detaches)'  BY <1>1, <1>2, <1>9, TickRuns
    <2> QED  BY <1>7, <1>8, <2>1, <2>2
  <1>10. CASE DetachContent \/ AttachContent
    <2>1. presenter' = presenter /\ detaches' \in {detaches, detaches + 1}
      BY <1>10 DEF DetachContent, AttachContent
    <2>2. Runs(Context, host, session, up, down, detaches)'  BY <1>1, <1>2, <1>10, ContentRuns
    <2>3. detaches' \in Nat /\ (detaches > 0 => detaches' > 0)  BY <1>8, <2>1
    <2> QED  BY <1>7, <2>1, <2>2, <2>3
  <1>11. CASE RsApply \/ RsComplete \/ RsReturn
    <2>1. presenter' = presenter /\ detaches' = detaches
      BY <1>11 DEF RsApply, RsComplete, RsReturn, Serve
    <2>2. Runs(Context, host, session, up, down, detaches)'  BY <1>1, <1>2, <1>11, ServeRuns
    <2> QED  BY <1>7, <1>8, <2>1, <2>2
  <1>12. CASE UNCHANGED vars
    <2>1. UNCHANGED <<presenter, out, gpu, reads, host, session, up, down, detaches>>
      BY <1>12 DEF vars
    <2>2. Context' = Context  BY <2>1 DEF Context
    <2> QED  BY <1>2, <1>7, <1>8, <2>1, <2>2
  <1> QED  BY <1>3, <1>4, <1>5, <1>6, <1>9, <1>10, <1>11, <1>12 DEF Next

(* No reply comes twice, too early, or to an output it is not for, and the  *)
(* host neither refuses a frame nor closes the socket of a presenter that   *)
(* lives unless its content was detached: however many buffers are read,    *)
(* frames shown again and outputs made anew, Presenter::Poll gives up only  *)
(* for reasons outside the protocol.                                        *)
THEOREM RepliesExpectedTheorem == Spec => []RepliesExpected
  <1>1. Init => IInv /\ RInv  BY InitOk, InitRuns
  <1>2. IInv /\ RInv /\ [Next]_vars => IInv' /\ RInv'  BY NextOk, NextRuns
  <1>3. RInv => RepliesExpected  BY DEF RInv
  <1> QED  BY <1>1, <1>2, <1>3, PTL DEF Spec

-----------------------------------------------------------------------------
(* That nothing waits for ever *)

(* A session that closes, or that runs, makes progress: its transactions    *)
(* come to an end, and what it shows no longer is given back.               *)
Given == {"cleaned", "returned"}

(* The commands of a session that drains.                                   *)
Draining(s) ==
    \/ s.commands = <<>> /\ \A l \in s.leases : l.rs \in Given
    \/ s.commands = <<[op |-> "drain"]>>
    \/ s.leases = {} /\ s.commands = <<[op |-> "start"], [op |-> "drain"]>>

(* The command of a session that does not drain.                            *)
Serving(s) ==
    \/ s.commands = <<>> /\ (s.cleanup = 2 => \A l \in s.leases : l.plane = 1 => l.rs \in Given)
    \/ \E c \in CommandSet : /\ s.commands = <<c>> /\ c.op # "drain"
                             /\ s.cleanup = 2 => c.op = "clean"
                             /\ ~s.submitted => c.op = "start"

Staged(s) == \A l \in s.leases : l.rs = "staged" => Coming(s, l.plane)

OneShown(s) ==
    \A l, m \in s.leases : l.plane = m.plane /\ l.rs = m.rs /\ l.rs \in {"staged", "shown"} => l = m

SessionRests(s) ==
    /\ s.acked => s.commands = <<>>
    /\ s.state = "closed" => s.commands = <<>>
    /\ s.state = "draining" => Draining(s)
    /\ s.state \in {"running", "waiting"} => Serving(s)
    /\ ~s.submitted => s.leases = {} /\ s.cleanup = 0
    /\ Staged(s) /\ OneShown(s)

LEMMA NewSessionRests == SessionRests(NewSession)
  <1> DEFINE s == NewSession
  <1>1. /\ s.state = "running" /\ s.leases = {} /\ s.cleanup = 0
        /\ s.acked = FALSE /\ s.submitted = FALSE /\ s.commands = <<[op |-> "start"]>>
    BY DEF NewSession
  <1>2. [op |-> "start"] \in CommandSet  BY DEF CommandSet
  <1> HIDE DEF s
  <1>3. Serving(s)  BY <1>1, <1>2 DEF Serving
  <1>4. SessionRests(s)  BY <1>1, <1>3 DEF SessionRests, Staged, OneShown
  <1> QED  BY <1>4 DEF s

(* Fewer leases, and nothing else.                                          *)
LEMMA FewerRests ==
    ASSUME NEW s, SessionRests(s), NEW t, t.state = s.state, t.commands = s.commands,
           t.cleanup = s.cleanup, t.submitted = s.submitted, t.leases \subseteq s.leases,
           t.acked => s.acked \/ s.commands = <<>>
    PROVE  SessionRests(t)
  <1>1. Draining(s) => Draining(t)  BY DEF Draining
  <1>2. Serving(s) => Serving(t)  BY DEF Serving
  <1>3. Staged(t)  BY DEF SessionRests, Staged, Coming
  <1>4. OneShown(t)  BY DEF SessionRests, OneShown
  <1> QED  BY <1>1, <1>2, <1>3, <1>4 DEF SessionRests

LEMMA FlushFields ==
    ASSUME NEW s, SessionType(s), NEW c \in CommandSet
    PROVE  /\ SessionType(ConfirmedFlush(s, c))
           /\ ConfirmedFlush(s, c).leases = s.leases /\ ConfirmedFlush(s, c).redundant = s.redundant
           /\ ConfirmedFlush(s, c).state = s.state /\ ConfirmedFlush(s, c).cleanup = s.cleanup
           /\ ConfirmedFlush(s, c).submitted = s.submitted /\ ConfirmedFlush(s, c).acked = FALSE
           /\ ConfirmedFlush(s, c).commands = Append(s.commands, c)
  <1>1. s \in SessionSet /\ s.commands \in Seq(CommandSet)  BY DEF SessionType, SessionSet
  <1>2. Append(s.commands, c) \in Seq(CommandSet)  BY <1>1, AppendProperties
  <1> QED  BY <1>1, <1>2 DEF ConfirmedFlush, SessionType, SessionSet

(* The stages of a poll, for a session that is not closed.                  *)
LEMMA PollStages ==
    ASSUME NEW s, SessionType(s)
    PROVE  /\ SessionType(Emptied(s))
           /\ Emptied(s).leases = s.leases \ Returned(s)
           /\ Emptied(s).state = s.state /\ Emptied(s).commands = s.commands
           /\ Emptied(s).acked = s.acked /\ Emptied(s).cleanup = s.cleanup
           /\ Emptied(s).submitted = s.submitted
           /\ s.state # "closed" =>
                 PollSession(s) = FinishDrain(BeginDrain(VideoCleanup(Emptied(s))))
           /\ s.state = "closed" => PollSession(s) = [s EXCEPT !.redundant = {}]
  <1> DEFINE t == [s EXCEPT !.redundant = {}]
             u == [t EXCEPT !.startup = @ /\ ~t.acked, !.leases = @ \ Returned(t)]
  <1>1. s \in SessionSet /\ IsFiniteSet(s.leases)  BY DEF SessionType
  <1>2. t \in SessionSet /\ t.leases = s.leases /\ t.acked = s.acked  BY <1>1 DEF SessionSet
  <1>3. Returned(t) = Returned(s)  BY <1>2 DEF Returned
  <1>4. u = Emptied(s)  BY <1>1, <1>2, <1>3 DEF Emptied, SessionSet
  <1>5. /\ Emptied(s) \in SessionSet
        /\ Emptied(s).leases = s.leases \ Returned(s) /\ Emptied(s).redundant = {}
        /\ Emptied(s).state = s.state /\ Emptied(s).commands = s.commands
        /\ Emptied(s).acked = s.acked /\ Emptied(s).cleanup = s.cleanup
        /\ Emptied(s).submitted = s.submitted
    BY <1>1 DEF SessionSet, Emptied
  <1>6. SessionType(Emptied(s))
    <2>1. IsFiniteSet(s.leases \ Returned(s))  BY <1>1, FS_Difference
    <2> QED  BY <1>5, <2>1, FS_EmptySet DEF SessionType
  <1>7. PollSession(s) = IF s.state = "closed" THEN t ELSE FinishDrain(BeginDrain(VideoCleanup(u)))
    BY Zenon DEF PollSession, PollReleases
  <1> HIDE DEF u
  <1> QED  BY <1>4, <1>5, <1>6, <1>7

LEMMA CleanupRests ==
    ASSUME NEW s, SessionType(s), SessionRests(s), s.state # "closed"
    PROVE  /\ SessionType(VideoCleanup(s)) /\ SessionRests(VideoCleanup(s))
           /\ VideoCleanup(s).state = s.state /\ VideoCleanup(s).leases = s.leases
  <1> DEFINE v == VideoCleanup(s)
  <1>1. s \in SessionSet  BY DEF SessionType
  <1>2. ASSUME NEW c \in {[op |-> "clean"], [op |-> "layer"]}, NEW n \in {2, 3},
               n = 2 => c.op = "clean", s.cleanup # 0, s.state # "draining", s.acked,
               v = [ConfirmedFlush(s, c) EXCEPT !.cleanup = n]
        PROVE  SessionType(v) /\ SessionRests(v) /\ v.state = s.state /\ v.leases = s.leases
    <2> DEFINE a == ConfirmedFlush(s, c)
    <2>1. c \in CommandSet /\ c.op # "drain" /\ c.op # "frame"  BY DEF CommandSet
    <2>2. s.commands = <<>> /\ s.submitted  BY <1>2 DEF SessionRests
    <2>3. /\ SessionType(a) /\ a.leases = s.leases /\ a.state = s.state /\ a.submitted = s.submitted
          /\ a.acked = FALSE /\ a.commands = Append(s.commands, c)
      BY <2>1, FlushFields
    <2>4. v = [a EXCEPT !.cleanup = n]  BY <1>2
    <2> HIDE DEF a, v
    <2>5. /\ SessionType(v) /\ v.leases = s.leases /\ v.state = s.state /\ v.cleanup = n
          /\ v.submitted = s.submitted /\ v.acked = FALSE /\ v.commands = Append(s.commands, c)
      BY <2>3, <2>4, SMTT(30) DEF SessionType, SessionSet
    <2>6. v.commands = <<c>>  BY <2>2, <2>5
    <2>7. Serving(v)  BY <1>2, <2>1, <2>2, <2>5, <2>6 DEF Serving
    <2>8. \A l \in s.leases : l.rs # "staged"  BY <2>2 DEF SessionRests, Staged, Coming
    <2>9. Staged(v) /\ OneShown(v)  BY <2>5, <2>8 DEF Staged, OneShown, SessionRests
    <2> QED  BY <1>2, <2>2, <2>5, <2>6, <2>7, <2>9 DEF SessionRests
  <1>3. CASE s.state = "draining" \/ ~s.acked
    <2>1. v = s  BY <1>3, Zenon DEF VideoCleanup
    <2> QED  BY <2>1
  <1>4. CASE ~(s.state = "draining" \/ ~s.acked) /\ s.cleanup = 1
    <2>1. v = [ConfirmedFlush(s, [op |-> "clean"]) EXCEPT !.cleanup = 2]
      BY <1>4 DEF VideoCleanup
    <2> HIDE DEF v
    <2>2. SessionType(v) /\ SessionRests(v) /\ v.state = s.state /\ v.leases = s.leases
      BY <1>2, <1>4, <2>1
    <2> QED  BY <2>2 DEF v
  <1>5. CASE ~(s.state = "draining" \/ ~s.acked) /\ s.cleanup = 2 /\ \A l \in s.leases : l.plane = 0
    <2>1. v = [ConfirmedFlush(s, [op |-> "layer"]) EXCEPT !.cleanup = 3]
      BY <1>5 DEF VideoCleanup
    <2> HIDE DEF v
    <2>2. SessionType(v) /\ SessionRests(v) /\ v.state = s.state /\ v.leases = s.leases
      BY <1>2, <1>5, <2>1
    <2> QED  BY <2>2 DEF v
  <1>6. CASE ~(s.state = "draining" \/ ~s.acked) /\ s.cleanup = 3
    <2>1. v = [s EXCEPT !.cleanup = 0]  BY <1>6 DEF VideoCleanup
    <2> HIDE DEF v
    <2>2. /\ SessionType(v) /\ v.leases = s.leases /\ v.state = s.state /\ v.cleanup = 0
          /\ v.submitted = s.submitted /\ v.acked = s.acked /\ v.commands = s.commands
      BY <1>1, <2>1 DEF SessionType, SessionSet
    <2>3. s.commands = <<>>  BY <1>6 DEF SessionRests
    <2>4. Serving(v)  BY <2>2, <2>3 DEF Serving
    <2>5. Staged(v) /\ OneShown(v)  BY <2>2 DEF Staged, OneShown, SessionRests, Coming
    <2>6. SessionRests(v)  BY <1>6, <2>2, <2>3, <2>4, <2>5 DEF SessionRests
    <2> QED  BY <2>2, <2>6 DEF v
  <1>7. CASE ~(s.state = "draining" \/ ~s.acked) /\ s.cleanup \notin {1, 3}
             /\ ~(s.cleanup = 2 /\ \A l \in s.leases : l.plane = 0)
    <2>1. v = s  BY <1>7 DEF VideoCleanup
    <2> QED  BY <2>1
  <1> QED  BY <1>3, <1>4, <1>5, <1>6, <1>7

LEMMA DrainRests ==
    ASSUME NEW s, SessionType(s), SessionRests(s), s.state # "closed"
    PROVE  /\ SessionType(BeginDrain(s)) /\ SessionRests(BeginDrain(s))
           /\ SessionType(FinishDrain(s)) /\ SessionRests(FinishDrain(s))
           /\ BeginDrain(s).state # "closed"
  <1>1. s \in SessionSet  BY DEF SessionType
  <1>2. SessionType(BeginDrain(s)) /\ SessionRests(BeginDrain(s)) /\ BeginDrain(s).state # "closed"
    <2> DEFINE c == [op |-> "drain"]
               a == ConfirmedFlush(s, c)
               w == BeginDrain(s)
    <2>1. CASE s.state = "waiting" /\ (s.submitted => s.acked)
      <3>1. w = [a EXCEPT !.state = "draining"]  BY <2>1 DEF BeginDrain, CommandsProcessed
      <3>2. c \in CommandSet  BY DEF CommandSet
      <3> HIDE DEF c
      <3>3. /\ SessionType(a) /\ a.leases = s.leases /\ a.cleanup = s.cleanup
            /\ a.submitted = s.submitted /\ a.acked = FALSE /\ a.commands = Append(s.commands, c)
        BY <3>2, FlushFields
      <3> HIDE DEF a, w
      <3>4. /\ SessionType(w) /\ w.leases = s.leases /\ w.state = "draining" /\ w.cleanup = s.cleanup
            /\ w.submitted = s.submitted /\ w.acked = FALSE /\ w.commands = Append(s.commands, c)
        BY <3>1, <3>3 DEF SessionType, SessionSet
      <3>5. Serving(s)  BY <2>1 DEF SessionRests
      <3>6. CASE s.commands = <<>>
        <4>1. w.commands = <<c>>  BY <3>4, <3>6
        <4>2. Draining(w)  BY <4>1 DEF Draining, c
        <4>3. \A l \in s.leases : l.rs # "staged"  BY <3>6 DEF SessionRests, Staged, Coming
        <4>4. Staged(w) /\ OneShown(w)  BY <3>4, <4>3 DEF Staged, OneShown, SessionRests
        <4> QED  BY <3>4, <4>2, <4>4 DEF SessionRests, w
      <3>7. CASE s.commands # <<>>
        <4>1. ~s.submitted  BY <2>1, <3>7 DEF SessionRests
        <4>2. PICK b \in CommandSet : s.commands = <<b>> /\ b.op = "start"
          BY <3>5, <3>7, <4>1 DEF Serving
        <4>3. b = [op |-> "start"]  BY <4>2 DEF CommandSet
        <4>4. w.commands = <<[op |-> "start"], c>>
          <5>1. <<b>> \in Seq(CommandSet) /\ <<b, c>> \in Seq(CommandSet) /\ Len(<<b>>) = 1
                /\ Len(<<b, c>>) = 2 /\ <<b, c>>[1] = b /\ <<b, c>>[2] = c /\ <<b>>[1] = b
            BY <3>2
          <5>2. /\ Append(<<b>>, c) \in Seq(CommandSet) /\ Len(Append(<<b>>, c)) = 2
                /\ Append(<<b>>, c)[1] = b /\ Append(<<b>>, c)[2] = c
            BY <3>2, <5>1, AppendProperties
          <5>3. Append(<<b>>, c) = <<b, c>>
            <6> DEFINE x == Append(<<b>>, c)
                       y == <<b, c>>
            <6>1. /\ x \in Seq(CommandSet) /\ y \in Seq(CommandSet) /\ Len(x) = 2 /\ Len(y) = 2
                  /\ x[1] = y[1] /\ x[2] = y[2]
              BY <5>1, <5>2
            <6> HIDE DEF x, y
            <6>2. \A i \in 1..Len(x) : i \in {1, 2}  BY <6>1
            <6>3. \A i \in 1..Len(x) : x[i] = y[i]  BY <6>1, <6>2
            <6>4. x = y  BY <6>1, <6>3, SeqEqual
            <6> QED  BY <6>4 DEF x, y
          <5> QED  BY <3>4, <4>2, <4>3, <5>3
        <4>5. w.leases = {}  BY <3>4, <4>1 DEF SessionRests
        <4>6. Draining(w)  BY <4>4, <4>5 DEF Draining, c
        <4>7. Staged(w) /\ OneShown(w)  BY <4>5 DEF Staged, OneShown
        <4> QED  BY <3>4, <4>1, <4>6, <4>7 DEF SessionRests, w
      <3> QED  BY <3>6, <3>7
    <2>2. CASE ~(s.state = "waiting" /\ (s.submitted => s.acked))
      <3>1. w = s  BY <2>2 DEF BeginDrain, CommandsProcessed
      <3> QED  BY <3>1
    <2> QED  BY <2>1, <2>2
  <1>3. SessionType(FinishDrain(s)) /\ SessionRests(FinishDrain(s))
    <2> DEFINE w == FinishDrain(s)
    <2>1. CASE s.state = "draining" /\ s.leases = {} /\ s.acked
      <3>1. w = [s EXCEPT !.state = "closed"]  BY <2>1 DEF FinishDrain
      <3> HIDE DEF w
      <3>2. /\ SessionType(w) /\ w.leases = s.leases /\ w.state = "closed" /\ w.cleanup = s.cleanup
            /\ w.submitted = s.submitted /\ w.acked = s.acked /\ w.commands = s.commands
        BY <1>1, <3>1 DEF SessionType, SessionSet
      <3>3. Staged(w) /\ OneShown(w)  BY <2>1, <3>2 DEF Staged, OneShown
      <3>4. SessionRests(w)  BY <2>1, <3>2, <3>3 DEF SessionRests
      <3> QED  BY <3>2, <3>4 DEF w
    <2>2. CASE ~(s.state = "draining" /\ s.leases = {} /\ s.acked)
      <3>1. w = s  BY <2>2 DEF FinishDrain
      <3> QED  BY <3>1
    <2> QED  BY <2>1, <2>2
  <1> QED  BY <1>2, <1>3

LEMMA PollRests ==
    ASSUME NEW s, SessionType(s), SessionRests(s)
    PROVE  SessionRests(PollSession(s))
  <1> DEFINE u == Emptied(s)
             v == VideoCleanup(u)
             w == BeginDrain(v)
  <1>1. /\ SessionType(u) /\ u.leases = s.leases \ Returned(s)
        /\ u.state = s.state /\ u.commands = s.commands
        /\ u.acked = s.acked /\ u.cleanup = s.cleanup /\ u.submitted = s.submitted
        /\ s.state # "closed" => PollSession(s) = FinishDrain(w)
        /\ s.state = "closed" => PollSession(s) = [s EXCEPT !.redundant = {}]
    BY PollStages
  <1> HIDE DEF u
  <1>2. SessionRests(u)  BY <1>1, FewerRests
  <1>3. CASE s.state # "closed"
    <2>1. SessionType(v) /\ SessionRests(v) /\ v.state # "closed"  BY <1>1, <1>2, <1>3, CleanupRests
    <2> HIDE DEF v
    <2>2. SessionType(w) /\ SessionRests(w) /\ w.state # "closed"  BY <2>1, DrainRests
    <2> HIDE DEF w
    <2> QED  BY <1>1, <1>3, <2>2, DrainRests
  <1>4. CASE s.state = "closed"
    <2> DEFINE t == [s EXCEPT !.redundant = {}]
    <2>1. /\ t.state = s.state /\ t.commands = s.commands /\ t.cleanup = s.cleanup
          /\ t.submitted = s.submitted /\ t.leases \subseteq s.leases /\ t.acked = s.acked
      BY DEF SessionType, SessionSet
    <2>2. PollSession(s) = t  BY <1>1, <1>4
    <2> HIDE DEF t
    <2>3. SessionRests(t)  BY <2>1, FewerRests
    <2> QED  BY <2>2, <2>3
  <1> QED  BY <1>3, <1>4

LEMMA CloseRests ==
    ASSUME NEW s, SessionType(s), SessionRests(s)
    PROVE  SessionRests(Close(s))
  <1> DEFINE t == [s EXCEPT !.state = "waiting"]
  <1>1. CASE s.state = "running"
    <2>1. /\ SessionType(t) /\ t.state = "waiting" /\ t.commands = s.commands /\ t.cleanup = s.cleanup
          /\ t.submitted = s.submitted /\ t.leases = s.leases /\ t.acked = s.acked
      BY DEF SessionType, SessionSet
    <2>2. Close(s) = PollSession(t)  BY <1>1 DEF Close
    <2> HIDE DEF t
    <2>3. Serving(t)  BY <1>1, <2>1 DEF SessionRests, Serving
    <2>4. Staged(t) /\ OneShown(t)  BY <2>1 DEF SessionRests, Staged, OneShown, Coming
    <2>5. SessionRests(t)  BY <1>1, <2>1, <2>3, <2>4 DEF SessionRests
    <2> QED  BY <2>1, <2>2, <2>5, PollRests
  <1>2. CASE s.state # "running"
    <2>1. Close(s) = PollSession(s)  BY <1>2 DEF Close
    <2> QED  BY <2>1, PollRests
  <1> QED  BY <1>1, <1>2

-----------------------------------------------------------------------------
(* The render service makes progress *)

(* Where a lease is after a command.                                        *)
After(c, l) ==
    IF c.op = "frame" /\ l.plane \in c.planes /\ l.rs = "shown" THEN "replaced"
    ELSE IF c.op = "frame" /\ l.plane \in c.planes /\ l.rs = "staged" THEN "shown"
    ELSE IF ((c.op = "clean" /\ l.plane = 1) \/ c.op = "drain") /\ l.rs \in {"shown", "replaced"}
         THEN "cleaned"
    ELSE l.rs

Becomes(l, m, to) == Same(l, m) /\ m.buf = l.buf /\ m.rs = to

AllMoved(s, ls, to, t) ==
    /\ SessionType(t) /\ t.state = s.state /\ t.commands = s.commands /\ t.acked = s.acked
    /\ t.cleanup = s.cleanup /\ t.submitted = s.submitted /\ t.redundant = s.redundant
    /\ \A m \in t.leases : m \in s.leases \ ls \/ \E l \in ls : Becomes(l, m, to)
    /\ \A l \in ls : \E m \in t.leases : Becomes(l, m, to)
    /\ s.leases \ ls \subseteq t.leases

LEMMA MoveAll ==
    ASSUME NEW s, SessionType(s), NEW ls \in SUBSET s.leases, NEW to \in Wheres
    PROVE  AllMoved(s, ls, to, Move(s, ls, to))
  <1> DEFINE t == Move(s, ls, to)
             moved == {[l EXCEPT !.rs = to] : l \in ls}
  <1>1. s \in SessionSet /\ s.leases \subseteq LeaseSet  BY DEF SessionType, SessionSet
  <1>2. \A l \in ls : Becomes(l, [l EXCEPT !.rs = to], to)
    BY <1>1 DEF LeaseSet, Becomes, Same
  <1>3. /\ t.leases = (s.leases \ ls) \cup moved
        /\ t.state = s.state /\ t.commands = s.commands /\ t.acked = s.acked
        /\ t.cleanup = s.cleanup /\ t.submitted = s.submitted /\ t.redundant = s.redundant
    BY <1>1 DEF Move, SessionSet
  <1>4. SessionType(t)  BY MoveKeeps
  <1>5. \A m \in moved : \E l \in ls : Becomes(l, m, to)  BY <1>2
  <1>6. \A l \in ls : \E m \in moved : Becomes(l, m, to)  BY <1>2
  <1> HIDE DEF t, moved
  <1>7. AllMoved(s, ls, to, t)  BY <1>3, <1>4, <1>5, <1>6 DEF AllMoved
  <1> QED  BY <1>7 DEF t

Steps(s, c, t) ==
    /\ SessionType(t) /\ t.state = s.state /\ t.commands = Tail(s.commands) /\ t.acked = s.acked
    /\ t.cleanup = s.cleanup /\ t.submitted = s.submitted /\ t.redundant = s.redundant
    /\ \A m \in t.leases : \E l \in s.leases : Becomes(l, m, After(c, l))
    /\ \A l \in s.leases : \E m \in t.leases : Becomes(l, m, After(c, l))

LEMMA ApplySteps ==
    ASSUME NEW s, SessionType(s), s.commands # <<>>
    PROVE  Steps(s, Head(s.commands), RsApplied(s))
  <1> DEFINE c == Head(s.commands)
             t == [s EXCEPT !.commands = Tail(@)]
             r == RsApplied(s)
  <1>1. s \in SessionSet /\ IsFiniteSet(s.leases) /\ IsFiniteSet(s.redundant)
        /\ s.commands \in Seq(CommandSet)
    BY DEF SessionType, SessionSet
  <1>2. c \in CommandSet /\ Tail(s.commands) \in Seq(CommandSet)  BY <1>1, HeadTailProperties
  <1>3. /\ SessionType(t) /\ t.state = s.state /\ t.commands = Tail(s.commands)
        /\ t.acked = s.acked /\ t.cleanup = s.cleanup /\ t.submitted = s.submitted
        /\ t.leases = s.leases /\ t.redundant = s.redundant
    BY <1>1, <1>2 DEF SessionType, SessionSet
  <1>4. c.op \in {"start", "clean", "layer", "drain", "frame"}  BY <1>2 DEF CommandSet
  <1>5. r = CASE c.op = "frame" -> Move(Move(t, On(s, c.planes, "shown"), "replaced"),
                                        On(s, c.planes, "staged"), "shown")
              [] c.op = "clean" -> Move(t, On(s, {1}, "shown") \cup On(s, {1}, "replaced"), "cleaned")
              [] c.op = "drain" -> Move(t, On(s, Planes, "shown") \cup On(s, Planes, "replaced"), "cleaned")
              [] OTHER -> t
    BY Zenon DEF RsApplied
  <1>6. {"replaced", "shown", "cleaned"} \subseteq Wheres  BY DEF Wheres
  <1>7. \A l \in s.leases : l.plane \in Planes  BY <1>1 DEF SessionSet, LeaseSet
  <1> HIDE DEF t, c, r
  (* A command that moves these leases only.                                *)
  <1>8. ASSUME NEW ls \in SUBSET s.leases, NEW to \in Wheres, r = Move(t, ls, to),
               \A l \in s.leases : After(c, l) = IF l \in ls THEN to ELSE l.rs
        PROVE  Steps(s, c, r)
    <2>1. AllMoved(t, ls, to, r)  BY <1>3, <1>8, MoveAll
    <2>2. \A l \in s.leases \ ls : Becomes(l, l, After(c, l))  BY <1>8 DEF Becomes, Same
    <2>3. \A l \in ls : After(c, l) = to  BY <1>8
    <2> QED  BY <1>3, <2>1, <2>2, <2>3 DEF AllMoved, Steps
  <1>9. CASE c.op = "clean"
    <2> DEFINE ls == On(s, {1}, "shown") \cup On(s, {1}, "replaced")
    <2>1. r = Move(t, ls, "cleaned")  BY <1>5, <1>9
    <2>2. \A l \in s.leases : After(c, l) = IF l \in ls THEN "cleaned" ELSE l.rs
      BY <1>9 DEF After, On
    <2>3. ls \in SUBSET s.leases  BY DEF On
    <2> HIDE DEF ls
    <2>4. Steps(s, c, r)  BY <1>6, <1>8, <2>1, <2>2, <2>3
    <2> QED  BY <2>4 DEF c, r
  <1>10. CASE c.op = "drain"
    <2> DEFINE ls == On(s, Planes, "shown") \cup On(s, Planes, "replaced")
    <2>1. r = Move(t, ls, "cleaned")  BY <1>5, <1>10
    <2>2. \A l \in s.leases : After(c, l) = IF l \in ls THEN "cleaned" ELSE l.rs
      BY <1>7, <1>10 DEF After, On
    <2>3. ls \in SUBSET s.leases  BY DEF On
    <2> HIDE DEF ls
    <2>4. Steps(s, c, r)  BY <1>6, <1>8, <2>1, <2>2, <2>3
    <2> QED  BY <2>4 DEF c, r
  <1>11. CASE c.op \in {"start", "layer"}
    <2>1. r = t  BY <1>5, <1>11
    <2>2. \A l \in s.leases : Becomes(l, l, After(c, l))  BY <1>11 DEF After, Becomes, Same
    <2>3. Steps(s, c, r)  BY <1>3, <2>1, <2>2 DEF Steps
    <2> QED  BY <2>3 DEF c, r
  <1>12. CASE c.op = "frame"
    <2> DEFINE shown == On(s, c.planes, "shown")
               staged == On(s, c.planes, "staged")
               m == Move(t, shown, "replaced")
    <2>1. r = Move(m, staged, "shown")  BY <1>5, <1>12
    <2>2. shown \in SUBSET s.leases /\ staged \in SUBSET (s.leases \ shown)  BY DEF On
    <2>3. \A l \in s.leases : After(c, l) = IF l \in shown THEN "replaced"
                                            ELSE IF l \in staged THEN "shown" ELSE l.rs
      BY <1>12 DEF After, On
    <2> HIDE DEF shown, staged, m
    <2>4. AllMoved(t, shown, "replaced", m)
      <3>1. shown \in SUBSET t.leases  BY <1>3, <2>2
      <3> QED  BY <1>3, <1>6, <3>1, MoveAll DEF m
    <2>5. staged \in SUBSET m.leases /\ SessionType(m)  BY <1>3, <2>2, <2>4 DEF AllMoved
    <2>6. AllMoved(m, staged, "shown", r)  BY <1>6, <2>1, <2>5, MoveAll
    <2>7. ASSUME NEW k \in r.leases PROVE \E l \in s.leases : Becomes(l, k, After(c, l))
      <3>1. CASE \E l \in staged : Becomes(l, k, "shown")  BY <2>2, <2>3, <3>1
      <3>2. CASE k \in m.leases \ staged
        <4>1. CASE \E l \in shown : Becomes(l, k, "replaced")  BY <2>2, <2>3, <4>1
        <4>2. CASE k \in t.leases \ shown
          <5>1. k \in s.leases /\ After(c, k) = k.rs  BY <1>3, <2>3, <3>2, <4>2
          <5> QED  BY <5>1 DEF Becomes, Same
        <4> QED  BY <2>4, <3>2, <4>1, <4>2 DEF AllMoved
      <3> QED  BY <2>6, <3>1, <3>2 DEF AllMoved
    <2>8. ASSUME NEW l \in s.leases PROVE \E k \in r.leases : Becomes(l, k, After(c, l))
      <3>1. CASE l \in staged
        <4>1. After(c, l) = "shown"  BY <2>2, <2>3, <3>1
        <4> QED  BY <2>6, <3>1, <4>1 DEF AllMoved
      <3>2. CASE l \in shown
        <4>1. PICK k \in m.leases : Becomes(l, k, "replaced")  BY <2>4, <3>2 DEF AllMoved
        <4>2. k \notin staged  BY <4>1 DEF staged, On, Becomes
        <4> QED  BY <2>3, <2>6, <3>2, <4>1, <4>2 DEF AllMoved
      <3>3. CASE l \notin shown /\ l \notin staged
        <4>1. l \in r.leases /\ After(c, l) = l.rs  BY <1>3, <2>3, <2>4, <2>6, <3>3 DEF AllMoved
        <4> QED  BY <4>1 DEF Becomes, Same
      <3> QED  BY <3>1, <3>2, <3>3
    <2>9. Steps(s, c, r)
      <3>1. /\ SessionType(r) /\ r.state = s.state /\ r.commands = Tail(s.commands) /\ r.acked = s.acked
            /\ r.cleanup = s.cleanup /\ r.submitted = s.submitted /\ r.redundant = s.redundant
        BY <1>3, <2>4, <2>6 DEF AllMoved
      <3> QED  BY <2>7, <2>8, <3>1 DEF Steps
    <2> QED  BY <2>9 DEF c, r
  <1> QED  BY <1>4, <1>9, <1>10, <1>11, <1>12

(* What the primary shows last, once what is under way is applied.          *)
Newest(s, l) == l.plane = 0 /\ l.rs = IF Coming(s, 0) THEN "staged" ELSE "shown"

Follows(s, t) ==
    \A m \in t.leases : \E l \in s.leases :
        Same(l, m) /\ m.buf = l.buf /\ (Newest(t, m) => Newest(s, l))

Loses(s, t, gone) ==
    \A l \in s.leases \cup s.redundant : \/ \E m \in t.leases \cup t.redundant : Same(l, m)
                                         \/ \E r \in gone : Same(l, r)

LEMMA SameLease ==
    ASSUME NEW s, SessionType(s), NEW l \in s.leases, NEW m \in s.leases,
           NEW k, Same(k, l), Same(k, m), l.buf = k.buf, m.buf = k.buf, l.rs = m.rs
    PROVE  l = m
  <1>1. l \in LeaseSet /\ m \in LeaseSet  BY DEF SessionType, SessionSet
  <1>2. \A x \in LeaseSet : x = [buf |-> x.buf, plane |-> x.plane, seq |-> x.seq, rs |-> x.rs]
    BY DEF LeaseSet
  <1>3. l.seq = m.seq /\ l.plane = m.plane  BY DEF Same
  <1> QED  BY <1>1, <1>2, <1>3

LEMMA ApplyRests ==
    ASSUME NEW s, SessionType(s), SessionRests(s), s.commands # <<>>
    PROVE  /\ SessionRests(RsApplied(s))
           /\ s.state \in {"running", "waiting"} => Follows(s, RsApplied(s))
           /\ Loses(s, RsApplied(s), {})
  <1> DEFINE c == Head(s.commands)
             t == RsApplied(s)
  <1>1. Steps(s, c, t)  BY ApplySteps
  <1>2. s.commands \in Seq(CommandSet) /\ s \in SessionSet  BY DEF SessionType, SessionSet
  <1>3. c \in CommandSet  BY <1>2, HeadTailProperties
  <1> HIDE DEF c, t
  <1>4. /\ SessionType(t) /\ t.state = s.state /\ t.commands = Tail(s.commands) /\ t.acked = s.acked
        /\ t.cleanup = s.cleanup /\ t.submitted = s.submitted /\ t.redundant = s.redundant
    BY <1>1 DEF Steps
  <1>5. \A l \in s.leases : l.rs = "staged" => c.op = "frame" /\ l.plane \in c.planes
    BY DEF SessionRests, Staged, Coming, c
  <1>6. ASSUME NEW m \in t.leases
        PROVE  \E l \in s.leases : Becomes(l, m, After(c, l))
    BY <1>1 DEF Steps
  <1>7. \A m \in t.leases : m.rs # "staged"  BY <1>5, <1>6 DEF Becomes, After
  <1>8. Staged(t)  BY <1>7 DEF Staged
  <1>9. OneShown(t)
    <2> SUFFICES ASSUME NEW k \in t.leases, NEW m \in t.leases, k.plane = m.plane, k.rs = "shown", m.rs = "shown"
                 PROVE  k = m
      BY <1>7 DEF OneShown
    <2>1. PICK l \in s.leases : Becomes(l, k, After(c, l))  BY <1>6
    <2>2. PICK n \in s.leases : Becomes(n, m, After(c, n))  BY <1>6
    <2>3. l.plane = n.plane  BY <2>1, <2>2 DEF Becomes, Same
    <2>4. After(c, l) = "shown" /\ After(c, n) = "shown"  BY <2>1, <2>2 DEF Becomes
    <2>5. l.rs = n.rs /\ l.rs \in {"staged", "shown"}  BY <2>3, <2>4 DEF After
    <2>6. l = n  BY <2>3, <2>5 DEF SessionRests, OneShown
    <2> QED  BY <1>4, <2>1, <2>2, <2>6, SameLease DEF Becomes
  <1>10. ~s.acked /\ s.state # "closed"  BY DEF SessionRests
  <1>11. s.leases = {} => t.leases = {}  BY <1>6
  <1>12. ASSUME s.state \in {"running", "waiting"} PROVE SessionRests(t) /\ Follows(s, t)
    <2>1. PICK b \in CommandSet : /\ s.commands = <<b>> /\ b.op # "drain"
                                  /\ s.cleanup = 2 => b.op = "clean"
      BY <1>12 DEF SessionRests, Serving
    <2>2. c = b /\ t.commands = <<>>  BY <1>4, <2>1 DEF c
    <2>3. ASSUME t.cleanup = 2, NEW m \in t.leases, m.plane = 1 PROVE m.rs \in Given
      <3>1. c.op = "clean"  BY <1>4, <2>1, <2>2, <2>3
      <3>2. PICK l \in s.leases : Becomes(l, m, After(c, l))  BY <1>6
      <3>3. l.plane = 1 /\ l.rs # "staged"  BY <1>5, <2>3, <3>1, <3>2 DEF Becomes, Same
      <3>4. l.rs \in Wheres  BY <1>2 DEF SessionSet, LeaseSet
      <3> QED  BY <3>1, <3>2, <3>3, <3>4 DEF Becomes, After, Given, Wheres
    <2>4. Serving(t)  BY <2>2, <2>3 DEF Serving
    <2>5. SessionRests(t)
      BY <1>4, <1>8, <1>9, <1>10, <1>11, <1>12, <2>4 DEF SessionRests
    <2>6. ~Coming(t, 0)  BY <2>2 DEF Coming
    <2>7. Coming(s, 0) <=> c.op = "frame" /\ 0 \in c.planes  BY DEF Coming, c
    <2>8. ASSUME NEW m \in t.leases
          PROVE  \E l \in s.leases : Same(l, m) /\ m.buf = l.buf /\ (Newest(t, m) => Newest(s, l))
      <3>1. PICK l \in s.leases : Becomes(l, m, After(c, l))  BY <1>6
      <3>2. Newest(t, m) => Newest(s, l)
        BY <1>5, <2>6, <2>7, <3>1 DEF Newest, Becomes, Same, After
      <3> QED  BY <3>1, <3>2 DEF Becomes
    <2>9. Follows(s, t)  BY <2>8 DEF Follows
    <2> QED  BY <2>5, <2>9
  <1>13. ASSUME s.state = "draining" PROVE SessionRests(t)
    <2>1. Draining(s)  BY <1>13 DEF SessionRests
    <2>2. ASSUME s.commands = <<[op |-> "drain"]>> PROVE Draining(t)
      <3>1. c.op = "drain" /\ t.commands = <<>>  BY <1>4, <2>2 DEF c
      <3>2. ASSUME NEW m \in t.leases PROVE m.rs \in Given
        <4>1. PICK l \in s.leases : Becomes(l, m, After(c, l))  BY <1>6
        <4>2. l.rs # "staged" /\ l.rs \in Wheres  BY <1>2, <1>5, <3>1 DEF SessionSet, LeaseSet
        <4> QED  BY <3>1, <4>1, <4>2 DEF Becomes, After, Given, Wheres
      <3> QED  BY <3>1, <3>2 DEF Draining
    <2>3. ASSUME s.leases = {}, s.commands = <<[op |-> "start"], [op |-> "drain"]>> PROVE Draining(t)
      <3>1. t.commands = <<[op |-> "drain"]>>  BY <1>4, <2>3
      <3> QED  BY <3>1 DEF Draining
    <2>4. Draining(t)  BY <2>1, <2>2, <2>3 DEF Draining
    <2>5. SessionRests(t)
      BY <1>4, <1>8, <1>9, <1>10, <1>11, <1>13, <2>4 DEF SessionRests
    <2> QED  BY <2>5
  <1>14. s.state \in {"running", "waiting", "draining", "closed"}  BY <1>2 DEF SessionSet
  <1>15. Loses(s, t, {})
    <2>1. \A l \in s.leases : \E m \in t.leases : Same(l, m)  BY <1>1 DEF Steps, Becomes
    <2>2. \A l \in s.redundant : l \in t.redundant /\ Same(l, l)  BY <1>4 DEF Same
    <2> QED  BY <2>1, <2>2 DEF Loses
  <1> QED  BY <1>10, <1>12, <1>13, <1>14, <1>15 DEF t

LEMMA ReturnRests ==
    ASSUME NEW s, SessionType(s), SessionRests(s), NEW l \in Returnable(s)
    PROVE  /\ SessionRests(Move(s, {l}, "returned"))
           /\ Follows(s, Move(s, {l}, "returned")) /\ Loses(s, Move(s, {l}, "returned"), {})
  <1> DEFINE t == Move(s, {l}, "returned")
  <1>1. l \in s.leases /\ l.rs \in {"cleaned", "replaced"}  BY DEF Returnable, On
  <1>2. {l} \in SUBSET s.leases /\ "returned" \in Wheres  BY <1>1 DEF Wheres
  <1>3. AllMoved(s, {l}, "returned", t)  BY <1>2, MoveAll
  <1> HIDE DEF t
  <1>4. /\ SessionType(t) /\ t.state = s.state /\ t.commands = s.commands /\ t.acked = s.acked
        /\ t.cleanup = s.cleanup /\ t.submitted = s.submitted /\ t.redundant = s.redundant
    BY <1>3 DEF AllMoved
  <1>5. \A m \in t.leases : m \in s.leases \/ (m.rs = "returned" /\ Becomes(l, m, "returned"))
    BY <1>3 DEF AllMoved, Becomes
  <1>6. \A i \in Planes : Coming(t, i) <=> Coming(s, i)  BY <1>4 DEF Coming
  <1>7. Staged(t)
    <2>1. \A m \in t.leases : m.rs = "staged" => m \in s.leases  BY <1>5
    <2> QED  BY <1>4, <2>1 DEF Staged, SessionRests, Coming
  <1>8. OneShown(t)  BY <1>5 DEF OneShown, SessionRests
  <1>9. Draining(s) => Draining(t)
    <2>1. s.leases = {} => FALSE  BY <1>1
    <2>2. (\A m \in s.leases : m.rs \in Given) => (\A m \in t.leases : m.rs \in Given)
      BY <1>5 DEF Given
    <2> QED  BY <1>4, <2>1, <2>2 DEF Draining
  <1>10. Serving(s) => Serving(t)  BY <1>4, <1>5 DEF Serving, Given
  <1>11. s.leases # {}  BY <1>1
  <1>12. SessionRests(t)  BY <1>4, <1>7, <1>8, <1>9, <1>10, <1>11 DEF SessionRests
  <1>13. Follows(s, t)
    <2> SUFFICES ASSUME NEW m \in t.leases
                 PROVE  \E k \in s.leases : Same(k, m) /\ m.buf = k.buf /\ (Newest(t, m) => Newest(s, k))
      BY DEF Follows
    <2>1. CASE m \in s.leases
      <3>1. Same(m, m) /\ (Newest(t, m) => Newest(s, m))  BY <1>4 DEF Same, Newest, Coming
      <3> QED  BY <2>1, <3>1
    <2>2. CASE m.rs = "returned" /\ Becomes(l, m, "returned")
      <3>1. ~Newest(t, m)  BY <2>2 DEF Newest
      <3> QED  BY <1>1, <2>2, <3>1 DEF Becomes
    <2> QED  BY <1>5, <2>1, <2>2
  <1>14. Loses(s, t, {})
    <2>1. ASSUME NEW k \in s.leases PROVE \E m \in t.leases : Same(k, m)
      <3>1. CASE k = l  BY <1>3, <3>1 DEF AllMoved, Becomes
      <3>2. CASE k # l
        <4>1. k \in t.leases /\ Same(k, k)  BY <1>3, <3>2 DEF AllMoved, Same
        <4> QED  BY <4>1
      <3> QED  BY <3>1, <3>2
    <2>2. \A k \in s.redundant : k \in t.redundant /\ Same(k, k)  BY <1>4 DEF Same
    <2> QED  BY <2>1, <2>2 DEF Loses
  <1> QED  BY <1>12, <1>13, <1>14 DEF t

LEMMA CompleteRests ==
    ASSUME NEW s, SessionType(s), SessionRests(s), s.commands = <<>>, NEW t, t = [s EXCEPT !.acked = TRUE]
    PROVE  SessionRests(t) /\ Follows(s, t) /\ Loses(s, t, {})
  <1>1. /\ t.state = s.state /\ t.commands = s.commands /\ t.cleanup = s.cleanup
        /\ t.submitted = s.submitted /\ t.leases = s.leases /\ t.redundant = s.redundant
    BY DEF SessionType, SessionSet
  <1>2. SessionRests(t)  BY <1>1, FewerRests
  <1>3. \A l : Same(l, l)  BY DEF Same
  <1>4. Follows(s, t)  BY <1>1, <1>3 DEF Follows, Newest, Coming
  <1>5. Loses(s, t, {})  BY <1>1, <1>3 DEF Loses
  <1> QED  BY <1>2, <1>4, <1>5

-----------------------------------------------------------------------------
(* What the presenter of a host that is connected can know *)

(* A frame that the host took is accepted, it is processed unless it is the *)
(* last, and each plane is released or the session still owes its release.  *)
Answers(fs, h, s, R) ==
    \A x \in DOMAIN fs : x <= Taken(h) =>
        /\ Acc(fs[x], R, x)
        /\ x # h.sequence \/ h.processed => Pro(fs[x], R, x)
        /\ \A i \in Planes : \/ Rel(fs[x], R, x, i)
                             \/ \E l \in s.leases \cup s.redundant : l.seq = x /\ l.plane = i

LeasesTrue(fs, s) ==
    \A l \in s.leases : /\ l.plane \in DOMAIN fs[l.seq].frame
                        /\ fs[l.seq].frame[l.plane].buf = l.buf

(* What the primary shows last is what all frames since show.               *)
Latest(fs, h, s) ==
    \A l \in s.leases : Newest(s, l) =>
        \A x \in DOMAIN fs : l.seq <= x /\ x <= Taken(h)
                                => fs[x].frame[0].content = h.current[0].content

Knows(fs, h, s, R) == Answers(fs, h, s, R) /\ LeasesTrue(fs, s) /\ Latest(fs, h, s)

Rests(c, h, s, d) ==
    /\ SessionRests(s)
    /\ Live(c, h) => Knows(c.presenter.flights, h, s, Replies(h, d))

LEMMA KnowsMore ==
    ASSUME NEW fs, NEW h, NEW s, NEW R, Knows(fs, h, s, R),
           NEW g, Taken(g) = Taken(h), g.current = h.current, g.processed = h.processed,
           g.processed \/ g.sequence = h.sequence,
           NEW t, Follows(s, t), NEW gone, Loses(s, t, gone), \A r \in gone : r.op = "released",
           NEW Q, R \cup gone \subseteq Q
    PROVE  Knows(fs, g, t, Q)
  <1>1. ASSUME NEW x \in DOMAIN fs, x <= Taken(g)
        PROVE  /\ Acc(fs[x], Q, x)
               /\ x # g.sequence \/ g.processed => Pro(fs[x], Q, x)
    BY <1>1 DEF Knows, Answers, Acc, Pro
  <1>2. ASSUME NEW x \in DOMAIN fs, x <= Taken(g), NEW i \in Planes, ~Rel(fs[x], Q, x, i)
        PROVE  \E l \in t.leases \cup t.redundant : l.seq = x /\ l.plane = i
    <2>1. ~Rel(fs[x], R, x, i)  BY <1>2 DEF Rel
    <2>2. PICK l \in s.leases \cup s.redundant : l.seq = x /\ l.plane = i
      BY <1>2, <2>1 DEF Knows, Answers
    <2>3. ~\E r \in gone : Same(l, r)  BY <1>2, <2>2 DEF Rel, Same
    <2>4. \E m \in t.leases \cup t.redundant : Same(l, m)  BY <2>3 DEF Loses
    <2> QED  BY <2>2, <2>4 DEF Same
  <1>3. Answers(fs, g, t, Q)  BY <1>1, <1>2 DEF Answers
  <1>4. LeasesTrue(fs, t)  BY DEF LeasesTrue, Knows, Follows, Same
  <1>5. Latest(fs, g, t)
    <2> SUFFICES ASSUME NEW m \in t.leases, Newest(t, m), NEW x \in DOMAIN fs, m.seq <= x, x <= Taken(g)
                 PROVE  fs[x].frame[0].content = g.current[0].content
      BY DEF Latest
    <2>1. PICK l \in s.leases : Same(l, m) /\ Newest(s, l)  BY DEF Follows
    <2>2. l.seq <= x  BY <2>1 DEF Same
    <2> QED  BY <2>1, <2>2 DEF Knows, Latest
  <1> QED  BY <1>3, <1>4, <1>5 DEF Knows

LEMMA FollowsItself ==
    ASSUME NEW s
    PROVE  Follows(s, s) /\ Loses(s, s, {})
  BY DEF Follows, Loses, Same

(* Every lease that is redundant or returned is told of.                    *)
LEMMA ReleasesAll ==
    ASSUME NEW s, SessionType(s), s.state # "closed", NEW l \in s.redundant \cup Returned(s)
    PROVE  \E r \in Range(Releases(s)) : r.op = "released" /\ Same(l, r)
  <1> DEFINE key(x) == [plane |-> x.plane, seq |-> x.seq]
             keys == {key(x) : x \in Returned(s)}
             R == Retired(s)
             q == SetToSeq(R)
  <1>1. s \in SessionSet /\ IsFiniteSet(s.leases) /\ IsFiniteSet(s.redundant)  BY DEF SessionType
  <1>2. R = s.redundant \cup keys  BY DEF Retired
  <1>3. \E x \in R : Same(l, x)
    <2>1. CASE l \in s.redundant
      <3>1. Same(l, l)  BY DEF Same
      <3> QED  BY <1>2, <2>1, <3>1
    <2>2. CASE l \in Returned(s)
      <3>1. key(l) \in keys /\ Same(l, key(l))  BY <2>2 DEF Same
      <3> QED  BY <1>2, <3>1
    <2> QED  BY <2>1, <2>2
  <1>4. IsFiniteSet(keys)
    <2>1. Returned(s) \in SUBSET s.leases  BY DEF Returned
    <2>2. IsFiniteSet(Returned(s))  BY <1>1, <2>1, FS_Subset
    <2> DEFINE g == [x \in Returned(s) |-> key(x)]
    <2>3. g \in [Returned(s) -> keys] /\ \A y \in keys : \E x \in Returned(s) : g[x] = y  OBVIOUS
    <2> HIDE DEF g, keys
    <2> QED  BY <2>2, <2>3, FiniteImage
  <1> HIDE DEF keys
  <1>5. IsFiniteSet(R) /\ Cardinality(R) \in Nat  BY <1>1, <1>2, <1>4, FS_Union, FS_CardinalityType
  <1>6. \E g \in [1..Cardinality(R) -> R] : IsInjective(g)
    BY <1>5, FS_CardinalityType DEF ExistsBijection, Bijection, Injection
  <1>7. q \in [1..Cardinality(R) -> R] /\ IsInjective(q)
    <2>1. q = CHOOSE g \in [1..Cardinality(R) -> R] : IsInjective(g)  BY DEF SetToSeq
    <2> HIDE DEF R, q
    <2> QED  BY <1>6, <2>1
  <1> HIDE DEF R, q
  <1>8. \A x \in R : \E k \in 1..Cardinality(R) : q[k] = x
    <2> DEFINE n == Cardinality(R)
    <2>1. q \in Injection(1..n, R)  BY <1>7 DEF Injection, IsInjective
    <2>2. Cardinality(1..n) = n
      <3>1. 1 \in Int /\ n \in Int  BY <1>5
      <3>2. Cardinality(1..n) = IF 1 > n THEN 0 ELSE n - 1 + 1  BY <3>1, FS_Interval
      <3> QED  BY <1>5, <3>2
    <2> HIDE DEF n
    <2>3. Cardinality(1..n) = Cardinality(R)  BY <2>2 DEF n
    <2>4. q \in Surjection(1..n, R)  BY <1>5, <2>1, <2>3, FS_Injection
    <2> QED  BY <2>4 DEF Surjection, n
  <1> DEFINE reply(x) == [op |-> "released", seq |-> x.seq, plane |-> x.plane]
             rs == [k \in 1..Cardinality(R) |-> reply(q[k])]
  <1>9. Releases(s) = rs
    <2>1. DOMAIN q = 1..Cardinality(R)  BY <1>7
    <2> QED  BY <2>1, Zenon DEF Releases, q, R
  <1>10. PICK k \in 1..Cardinality(R) : Same(l, q[k])  BY <1>3, <1>8
  <1>11. rs[k] \in Range(rs) /\ rs[k].op = "released" /\ Same(l, rs[k])
    BY <1>10 DEF Range, Same
  <1> HIDE DEF rs
  <1> QED  BY <1>9, <1>11

LEMMA PollFollows ==
    ASSUME NEW s, SessionType(s), SessionRests(s), s.state = "running", NEW t, t = PollSession(s)
    PROVE  Follows(s, t) /\ Loses(s, t, Range(Releases(s)))
  <1> DEFINE u == Emptied(s)
  <1>1. t = VideoCleanup(u) /\ u \in SessionSet /\ u.leases = s.leases \ Returned(s)
        /\ u.commands = s.commands /\ u.acked = s.acked
    BY PollOfRunning
  <1>2. Polled(s, t)  BY PollPolls
  <1>3. t.leases = s.leases \ Returned(s)  BY <1>2 DEF Polled
  <1> HIDE DEF u
  <1>4. Coming(t, 0) <=> Coming(s, 0)
    <2>1. CASE t.commands = s.commands  BY <2>1 DEF Coming
    <2>2. ASSUME NEW c \in {[op |-> "clean"], [op |-> "layer"]}, u.acked, t.commands = Append(u.commands, c)
          PROVE  Coming(t, 0) <=> Coming(s, 0)
      <3>1. s.commands = <<>>  BY <1>1, <2>2 DEF SessionRests
      <3>2. t.commands = <<c>>  BY <1>1, <2>2, <3>1
      <3>3. c.op # "frame"  OBVIOUS
      <3> QED  BY <3>1, <3>2, <3>3 DEF Coming
    <2>3. \/ t.commands = u.commands
          \/ u.acked /\ \E c \in {[op |-> "clean"], [op |-> "layer"]} : t.commands = Append(u.commands, c)
      <3> DEFINE a == ConfirmedFlush(u, [op |-> "clean"])
                 b == ConfirmedFlush(u, [op |-> "layer"])
      <3>1. a.commands = Append(u.commands, [op |-> "clean"]) /\ b.commands = Append(u.commands, [op |-> "layer"])
            /\ DOMAIN a = DOMAIN u /\ DOMAIN b = DOMAIN u
        BY <1>1 DEF ConfirmedFlush, SessionSet
      <3>2. \/ t = u
            \/ u.acked /\ t \in {[a EXCEPT !.cleanup = 2], [b EXCEPT !.cleanup = 3]}
            \/ t = [u EXCEPT !.cleanup = 0]
        <4>1. CASE u.acked  BY <1>1, <4>1 DEF VideoCleanup
        <4>2. CASE ~u.acked  BY <1>1, <4>2 DEF VideoCleanup
        <4> QED  BY <4>1, <4>2
      <3> HIDE DEF a, b
      <3>3. "commands" \in DOMAIN u  BY <1>1 DEF SessionSet
      <3> QED  BY <3>1, <3>2, <3>3
    <2> QED  BY <1>1, <2>1, <2>2, <2>3
  <1>5. \A l : Same(l, l)  BY DEF Same
  <1>6. Follows(s, t)  BY <1>3, <1>4, <1>5 DEF Follows, Newest
  <1>7. ASSUME NEW l \in s.redundant \cup Returned(s)
        PROVE  \E r \in Range(Releases(s)) : Same(l, r)
    BY ReleasesAll
  <1>8. Loses(s, t, Range(Releases(s)))  BY <1>3, <1>5, <1>7 DEF Loses
  <1> QED  BY <1>6, <1>8

(* A session that accepts a frame rests.                                    *)
LEMMA Accepting ==
    ASSUME NEW h, NEW s, SessionType(s), SessionRuns(h, s), h.processed = TRUE, NEW f,
           SubmitResult(s, f) = "accepted"
    PROVE  s.state = "running" /\ s.cleanup = 0 /\ s.acked /\ s.commands = <<>>
  <1>1. s.state = "running"  BY DEF SessionRuns
  <1>2. ReadyForFrame(s)  BY <1>1 DEF SubmitResult
  <1>3. ~s.startup /\ s.cleanup = 0  BY <1>2 DEF ReadyForFrame
  <1>4. s.acked /\ s.acked \in BOOLEAN  BY <1>3 DEF SessionRuns, SessionType, SessionSet
  <1> QED  BY <1>1, <1>3, <1>4 DEF SessionRuns, OneCommand

LEMMA AcceptRests ==
    ASSUME NEW s, SessionType(s), SessionRests(s), s.state = "running", s.cleanup = 0, s.commands = <<>>,
           NEW f \in FrameSet, NEW n \in Nat, NEW t, t = Accept(s, f, n)
    PROVE  SessionRests(t)
  <1>1. /\ t.leases = s.leases \cup NewLeases(f, n)
        /\ t.commands = Append(s.commands, FrameCommand(f)) /\ t.acked = FALSE
        /\ t.state = s.state /\ t.submitted
        /\ t.cleanup = IF 1 \notin DOMAIN f /\ s.visible THEN 1 ELSE s.cleanup
        /\ FrameCommand(f) \in CommandSet
    <2>1. Accepted(s, f, n, t)  BY AcceptFields
    <2> QED  BY <2>1 DEF Accepted
  <1>2. t.commands = <<FrameCommand(f)>> /\ Head(t.commands) = FrameCommand(f) /\ t.commands # <<>>
    BY <1>1
  <1>3. FrameCommand(f).op = "frame" /\ FrameCommand(f).planes = Fresh(f)  BY DEF FrameCommand
  <1>4. t.cleanup # 2  BY <1>1
  <1>5. Serving(t)  BY <1>1, <1>2, <1>3, <1>4 DEF Serving
  <1>6. \A l \in s.leases : l.rs # "staged"  BY DEF SessionRests, Staged, Coming
  <1>7. \A l \in NewLeases(f, n) : l = NewLease(f, n, l.plane) /\ l.plane \in Fresh(f) /\ l.rs = "staged"
    BY DEF NewLeases, NewLease
  <1>8. Staged(t)  BY <1>1, <1>2, <1>3, <1>6, <1>7 DEF Staged, Coming
  <1>9. OneShown(t)
    <2> SUFFICES ASSUME NEW l \in t.leases, NEW m \in t.leases, l.plane = m.plane, l.rs = m.rs,
                        l.rs \in {"staged", "shown"}
                 PROVE  l = m
      BY DEF OneShown
    <2>1. CASE l.rs = "staged"
      <3>1. l \in NewLeases(f, n) /\ m \in NewLeases(f, n)  BY <1>1, <1>6, <2>1
      <3>2. l = NewLease(f, n, l.plane) /\ m = NewLease(f, n, m.plane)  BY <1>7, <3>1
      <3>3. NewLease(f, n, l.plane) = NewLease(f, n, m.plane)  OBVIOUS
      <3> QED  BY <3>2, <3>3
    <2>2. CASE l.rs = "shown"
      <3>1. l \in s.leases /\ m \in s.leases  BY <1>1, <1>7, <2>2
      <3> QED  BY <2>2, <3>1 DEF SessionRests, OneShown
    <2> QED  BY <2>1, <2>2
  <1> QED  BY <1>1, <1>5, <1>8, <1>9 DEF SessionRests

LEMMA AcceptKnows ==
    ASSUME NEW p \in PresenterSet, NEW h \in HostSet, NEW s, SessionType(s), SessionRests(s), NEW R,
           Knows(p.flights, h, s, R), Unanswered(p, h, R), h.processed, h.pending # None,
           s.commands = <<>>,
           NEW g, g.pending = None, g.processed = FALSE, g.sequence = h.sequence,
           g.current = Contents(h.pending.frame),
           NEW t, t = Accept(s, h.pending.frame, h.pending.seq),
           NEW Q, R \subseteq Q, [op |-> "accepted", seq |-> h.sequence] \in Q
    PROVE  Knows(p.flights, g, t, Q)
  <1> DEFINE fs == p.flights
             q == h.sequence
             f == h.pending.frame
  <1>1. /\ h.pending.seq = q /\ q \in DOMAIN fs /\ q \in 1..p.sequence
        /\ f = fs[q].frame /\ fs[q].released = Planes \ DOMAIN f
        /\ \A i \in DOMAIN f : f[i].reuse => h.current[i] = Contents(f)[i]
    BY DEF Unanswered
  <1>2. q \in Nat /\ p.sequence \in Nat /\ h.pending \in MessageSet  BY DEF HostSet, PresenterSet
  <1>3. f \in FrameSet  BY <1>2 DEF MessageSet
  <1>4. 0 \in DOMAIN f /\ DOMAIN f \subseteq Planes /\ 0 \in Planes  BY <1>3, FrameFacts DEF Planes
  <1>5. Taken(h) = q - 1 /\ Taken(g) = q  BY DEF Taken
  <1>6. \A x \in DOMAIN fs : x \in Nat  BY DEF PresenterSet
  <1> HIDE DEF fs, q, f
  <1>7. /\ t.leases = s.leases \cup NewLeases(f, q) /\ t.redundant = s.redundant \cup NewKeys(f, q)
        /\ t.commands = Append(s.commands, FrameCommand(f))
    <2>1. t = Accept(s, f, q)  BY <1>1 DEF f
    <2>2. Accepted(s, f, q, t)  BY <1>2, <1>3, <2>1, AcceptFields
    <2> QED  BY <2>2 DEF Accepted
  <1>8. g.current[0].content = f[0].content /\ Contents(f)[0].content = f[0].content
    BY <1>4 DEF Contents, f
  <1>9. ASSUME NEW x \in DOMAIN fs, x <= Taken(g)
        PROVE  /\ Acc(fs[x], Q, x)
               /\ x # g.sequence \/ g.processed => Pro(fs[x], Q, x)
               /\ \A i \in Planes : \/ Rel(fs[x], Q, x, i)
                                    \/ \E l \in t.leases \cup t.redundant : l.seq = x /\ l.plane = i
    <2>1. CASE x = q
      <3>1. Acc(fs[x], Q, x)  BY <2>1 DEF Acc, q
      <3>2. ASSUME NEW i \in Planes
            PROVE  \/ Rel(fs[x], Q, x, i)
                   \/ \E l \in t.leases \cup t.redundant : l.seq = x /\ l.plane = i
        <4>1. CASE i \notin DOMAIN f  BY <1>1, <2>1, <4>1 DEF Rel
        <4>2. CASE i \in Fresh(f)
          <5>1. NewLease(f, q, i) \in t.leases  BY <1>7, <4>2 DEF NewLeases
          <5>2. NewLease(f, q, i).seq = x /\ NewLease(f, q, i).plane = i  BY <2>1 DEF NewLease
          <5> QED  BY <5>1, <5>2
        <4>3. CASE i \in DOMAIN f \ Fresh(f)
          <5>1. [plane |-> i, seq |-> q] \in t.redundant  BY <1>7, <4>3 DEF NewKeys
          <5>2. [plane |-> i, seq |-> q].seq = x /\ [plane |-> i, seq |-> q].plane = i  BY <2>1
          <5> QED  BY <5>1, <5>2
        <4> QED  BY <4>1, <4>2, <4>3 DEF Fresh
      <3> QED  BY <2>1, <3>1, <3>2 DEF q
    <2>2. CASE x # q
      <3>1. x <= Taken(h)  BY <1>2, <1>5, <1>6, <1>9, <2>2
      <3>2. Answers(fs, h, s, R)  BY DEF Knows, fs
      <3>3. /\ Acc(fs[x], R, x) /\ Pro(fs[x], R, x)
            /\ \A i \in Planes : \/ Rel(fs[x], R, x, i)
                                 \/ \E l \in s.leases \cup s.redundant : l.seq = x /\ l.plane = i
        BY <3>1, <3>2 DEF Answers
      <3> QED  BY <1>7, <3>3 DEF Acc, Pro, Rel
    <2> QED  BY <2>1, <2>2
  <1>10. Answers(fs, g, t, Q)  BY <1>9 DEF Answers
  <1>11. LeasesTrue(fs, t)
    <2>1. \A l \in NewLeases(f, q) : l.plane \in DOMAIN f /\ l.seq = q /\ l.buf = f[l.plane].buf
      BY DEF NewLeases, NewLease, Fresh
    <2>2. LeasesTrue(fs, s)  BY DEF Knows, fs
    <2> QED  BY <1>1, <1>7, <2>1, <2>2 DEF LeasesTrue
  <1>12. ASSUME NEW l \in t.leases, Newest(t, l), NEW x \in DOMAIN fs, l.seq <= x, x <= Taken(g)
         PROVE  fs[x].frame[0].content = g.current[0].content
    <2>1. Head(t.commands) = FrameCommand(f) /\ t.commands # <<>>  BY <1>7
    <2>2. Coming(t, 0) <=> 0 \in Fresh(f)  BY <2>1 DEF Coming, FrameCommand
    <2>3. CASE x = q  BY <1>1, <1>8, <2>3
    <2>4. CASE x # q
      <3>1. x <= Taken(h)  BY <1>2, <1>5, <1>6, <1>12, <2>4
      <3>2. \A m \in s.leases : m.rs # "staged"  BY DEF SessionRests, Staged, Coming
      <3>3. l \in s.leases
        <4>1. \A m \in NewLeases(f, q) : m.seq = q  BY DEF NewLeases, NewLease
        <4>2. l \in NewLeases(f, q) => FALSE
          <5> SUFFICES ASSUME l \in NewLeases(f, q) PROVE FALSE  OBVIOUS
          <5>1. l.seq = q  BY <4>1
          <5> QED  BY <1>2, <1>5, <1>6, <1>12, <2>4, <5>1
        <4> QED  BY <1>7, <4>2
      <3>4. ~Coming(t, 0) /\ l.rs = "shown" /\ l.plane = 0  BY <1>12, <3>2, <3>3 DEF Newest
      <3>5. ~Coming(s, 0)  BY DEF Coming
      <3>6. Newest(s, l)  BY <3>4, <3>5 DEF Newest
      <3>7. fs[x].frame[0].content = h.current[0].content
        BY <1>12, <3>1, <3>3, <3>6 DEF Knows, Latest, fs
      <3>8. f[0].reuse  BY <1>4, <2>2, <3>4 DEF Fresh
      <3> QED  BY <1>1, <1>4, <1>8, <3>7, <3>8
    <2> QED  BY <2>3, <2>4
  <1>13. Latest(fs, g, t)  BY <1>12 DEF Latest
  <1> QED  BY <1>10, <1>11, <1>13 DEF Knows, fs

-----------------------------------------------------------------------------
(* The steps of a host *)

LEMMA RestsSame ==
    ASSUME NEW c, NEW h, NEW s, NEW d, Rests(c, h, s, d), NEW g, NEW e,
           Live(c, g) => /\ Live(c, h) /\ g.pending = h.pending /\ g.sequence = h.sequence
                         /\ g.processed = h.processed /\ g.current = h.current
                         /\ Replies(h, d) \subseteq Replies(g, e)
    PROVE  Rests(c, g, s, e)
  <1>1. SessionRests(s)  BY DEF Rests
  <1>2. ASSUME Live(c, g) PROVE Knows(c.presenter.flights, g, s, Replies(g, e))
    <2> DEFINE fs == c.presenter.flights
               R == Replies(h, d)
               Q == Replies(g, e)
    <2>1. Knows(fs, h, s, R) /\ R \cup {} \subseteq Q  BY <1>2 DEF Rests
    <2>2. Taken(g) = Taken(h) /\ g.current = h.current /\ g.processed = h.processed
          /\ g.sequence = h.sequence
      BY <1>2 DEF Taken
    <2>3. Follows(s, s) /\ Loses(s, s, {})  BY FollowsItself
    <2> HIDE DEF fs, R, Q
    <2>4. Knows(fs, g, s, Q)  BY <2>1, <2>2, <2>3, KnowsMore
    <2> QED  BY <2>4 DEF fs, Q
  <1> QED  BY <1>1, <1>2 DEF Rests

(* A host without a socket knows nothing.                                   *)
LEMMA IdleRests ==
    ASSUME NEW c, NEW g, NEW s, NEW d, SessionRests(s), g.active = 0,
           c.out \in Nat, c.presenter.open => c.out > 0
    PROVE  Rests(c, g, s, d)
  <1>1. ~Live(c, g)  BY DEF Live
  <1> QED  BY <1>1 DEF Rests

LEMMA TickLostRests ==
    ASSUME ChannelOk(Context, host, session, up, down), Rests(Context, host, session, down)
    PROVE  Rests(Context, TickLost(host), session, down)
  <1> DEFINE h == IF host.detached THEN Disconnect(Stop(host)) ELSE host
             g == TickLost(host)
  <1>1. host \in HostSet /\ HostOk(Context, host, session) /\ Context.out \in Nat  BY DEF ChannelOk
  <1>2. Context.presenter.open => Context.out > 0  BY <1>1 DEF HostOk
  <1>3. Stop(host) \in HostSet  BY <1>1 DEF Stop, HostSet
  <1>4. host.detached => h.active = 0  BY <1>3, DisconnectType
  <1>5. h \in HostSet  BY <1>1, <1>3, DisconnectType
  <1>6. ~host.detached => h = host  OBVIOUS
  <1>7. g = IF h.active # 0 /\ Lost(h.active) THEN Disconnect(h) ELSE h
    BY Zenon DEF TickLost, h
  <1> HIDE DEF h, g
  <1>8. Disconnect(h).active = 0  BY <1>5, DisconnectType
  <1>9. g = host \/ g.active = 0  BY <1>4, <1>6, <1>7, <1>8
  <1>10. SessionRests(session)  BY DEF Rests
  <1>11. g.active = 0 => Rests(Context, g, session, down)  BY <1>1, <1>2, <1>10, IdleRests
  <1>12. Rests(Context, g, session, down)  BY <1>9, <1>11
  <1> QED  BY <1>12 DEF g

(* Releases are told of, and the leases are gone.                           *)
LEMMA PollReplyRests ==
    ASSUME NEW c, NEW h, NEW s, NEW u, NEW d, NEW n, ChannelOk(c, h, s, u, d), Runs(c, h, s, u, d, n),
           Rests(c, h, s, d), ~h.closing, NEW g, g = Reply(h, Releases(s)), NEW t, t = PollSession(s)
    PROVE  Rests(c, g, t, d)
  <1> DEFINE rs == Releases(s)
  <1>1. h \in HostSet /\ SessionType(s) /\ HostOk(c, h, s) /\ c.out \in Nat  BY DEF ChannelOk
  <1>2. SessionRests(s) /\ SessionRests(t)  BY <1>1, PollRests DEF Rests
  <1>3. g = IF h.active = 0 THEN h ELSE Told(h, rs)  BY PollReplyRuns
  <1>4. s.state = "running"  BY DEF Runs, ChannelRuns, HostRuns, SessionRuns
  <1>5. Follows(s, t) /\ Loses(s, t, Range(rs))  BY <1>1, <1>2, <1>4, PollFollows
  <1>6. rs \in Seq(ReplySet) /\ \A r \in Range(rs) : r.op = "released"
    <2>1. rs \in Seq(ReplySet)  BY <1>1, ReleasesRetired
    <2>2. \A r \in Range(rs) : r.op = "released"
      <3> DEFINE q == SetToSeq(Retired(s))
      <3>1. rs = [k \in DOMAIN q |-> [op |-> "released", seq |-> q[k].seq, plane |-> q[k].plane]]
        BY Zenon DEF Releases
      <3> HIDE DEF q
      <3>2. \A k \in DOMAIN rs : rs[k].op = "released"  BY <3>1
      <3> HIDE DEF rs
      <3> QED  BY <3>2 DEF Range
    <2> QED  BY <2>1, <2>2
  <1> HIDE DEF rs
  <1>7. CASE h.active = 0
    <2>1. g.active = 0  BY <1>3, <1>7
    <2>2. c.presenter.open => c.out > 0  BY <1>1 DEF HostOk
    <2> QED  BY <1>1, <1>2, <2>1, <2>2, IdleRests
  <1>8. CASE h.active # 0
    <2>1. IsTold(h, rs, g)  BY <1>1, <1>3, <1>6, <1>8, ToldFacts
    <2>2. /\ g.outgoing = h.outgoing \o rs
          /\ g.active = h.active /\ g.pending = h.pending
          /\ g.processed = h.processed /\ g.sequence = h.sequence /\ g.current = h.current
          /\ Range(h.outgoing \o rs) = Range(h.outgoing) \cup Range(rs)
      BY <2>1 DEF IsTold
    <2>3. ASSUME Live(c, g) PROVE Knows(c.presenter.flights, g, t, Replies(g, d))
      <3> DEFINE fs == c.presenter.flights
                 R == Replies(h, d)
                 Q == Replies(g, d)
      <3>1. Live(c, h)  BY <2>2, <2>3 DEF Live
      <3>2. Knows(fs, h, s, R)  BY <3>1 DEF Rests
      <3>3. R \cup Range(rs) \subseteq Q  BY <2>2 DEF Replies
      <3>4. Taken(g) = Taken(h)  BY <2>2 DEF Taken
      <3> HIDE DEF fs, R, Q
      <3>5. Knows(fs, g, t, Q)  BY <1>5, <1>6, <2>2, <3>2, <3>3, <3>4, KnowsMore, ZenonT(60)
      <3> QED  BY <3>5 DEF fs, Q
    <2> QED  BY <1>2, <2>3 DEF Rests
  <1> QED  BY <1>7, <1>8

(* The commands of the frame accepted last were processed.                  *)
LEMMA ProcessedRests ==
    ASSUME NEW c, NEW h, NEW s, NEW d, Rests(c, h, s, d),
           NEW g, g.active = h.active, g.pending = h.pending, g.sequence = h.sequence,
           g.current = h.current, Replies(h, d) \subseteq Replies(g, d),
           [op |-> "processed", seq |-> h.sequence] \in Replies(g, d)
    PROVE  Rests(c, g, s, d)
  <1>1. SessionRests(s)  BY DEF Rests
  <1>2. ASSUME Live(c, g) PROVE Knows(c.presenter.flights, g, s, Replies(g, d))
    <2> DEFINE fs == c.presenter.flights
               R == Replies(h, d)
               Q == Replies(g, d)
    <2>1. Live(c, h)  BY <1>2 DEF Live
    <2>2. Knows(fs, h, s, R)  BY <2>1 DEF Rests
    <2>3. Taken(g) = Taken(h)  BY DEF Taken
    <2> HIDE DEF fs, R, Q
    <2>4. ASSUME NEW x \in DOMAIN fs, x <= Taken(g)
          PROVE  /\ Acc(fs[x], Q, x) /\ Pro(fs[x], Q, x)
                 /\ \A i \in Planes : \/ Rel(fs[x], Q, x, i)
                                      \/ \E l \in s.leases \cup s.redundant : l.seq = x /\ l.plane = i
      <3>1. /\ Acc(fs[x], R, x) /\ (x # h.sequence => Pro(fs[x], R, x))
            /\ \A i \in Planes : \/ Rel(fs[x], R, x, i)
                                 \/ \E l \in s.leases \cup s.redundant : l.seq = x /\ l.plane = i
        BY <2>2, <2>3, <2>4 DEF Knows, Answers
      <3>2. R \subseteq Q /\ [op |-> "processed", seq |-> h.sequence] \in Q  BY DEF R, Q
      <3>3. x = h.sequence => Pro(fs[x], Q, x)  BY <3>2 DEF Pro
      <3>4. Pro(fs[x], Q, x)  BY <3>1, <3>2, <3>3 DEF Pro
      <3> QED  BY <3>1, <3>2, <3>4 DEF Acc, Rel
    <2>5. Answers(fs, g, s, Q)  BY <2>4 DEF Answers
    <2>6. LeasesTrue(fs, s) /\ Latest(fs, g, s)  BY <2>2, <2>3 DEF Knows, Latest
    <2>7. Knows(fs, g, s, Q)  BY <2>5, <2>6 DEF Knows
    <2> QED  BY <2>7 DEF fs, Q
  <1> QED  BY <1>1, <1>2 DEF Rests

LEMMA TickPollRests ==
    ASSUME NEW c, NEW h, NEW polled, NEW n,
           ChannelOk(c, h, session, up, down), Runs(c, h, session, up, down, n),
           Rests(c, h, session, down),
           polled = PollSession(IF h.closing THEN Close(session) ELSE session)
    PROVE  Rests(c, TickPoll(h, polled), polled, down)
  <1> DEFINE rs == Releases(session)
             g == Reply(h, rs)
             one == <<[op |-> "processed", seq |-> h.sequence]>>
             p == [Reply(g, one) EXCEPT !.processed = TRUE]
             k == TickPoll(h, polled)
  <1>1. h \in HostSet /\ SessionType(session) /\ HostOk(c, h, session) /\ c.out \in Nat
    BY DEF ChannelOk
  <1>2. k = IF ~h.processed /\ CommandsProcessed(polled) THEN p ELSE g
    BY Zenon DEF TickPoll
  <1>3. SessionRests(session) /\ (c.presenter.open => c.out > 0)  BY <1>1 DEF Rests, HostOk
  <1> HIDE DEF rs
  <1>4. CASE h.closing
    <2>1. h.active = 0  BY <1>1, <1>4 DEF HostOk
    <2>2. g = h  BY <2>1 DEF Reply
    <2>3. p = [h EXCEPT !.processed = TRUE]  BY <2>1, <2>2 DEF Reply
    <2>4. k.active = 0  BY <1>1, <1>2, <2>1, <2>2, <2>3 DEF HostSet
    <2>5. SessionRests(polled)
      <3>1. SessionRests(Close(session)) /\ SessionType(Close(session))
        BY <1>1, <1>3, CloseRests, CloseKeeps
      <3> QED  BY <1>4, <3>1, PollRests
    <2> HIDE DEF k
    <2> QED  BY <1>1, <1>3, <2>4, <2>5, IdleRests DEF k
  <1>5. CASE ~h.closing
    <2>1. polled = PollSession(session)  BY <1>5
    <2>2. /\ Runs(c, g, polled, up, down, n)
          /\ g = IF h.active = 0 THEN h ELSE Told(h, rs)
          /\ SessionType(polled)
      BY <1>5, <2>1, PollReplyRuns DEF rs
    <2>3. Rests(c, g, polled, down)  BY <1>5, <2>1, PollReplyRests DEF rs
    <2>4. rs \in Seq(ReplySet)  BY <1>1, ReleasesRetired DEF rs
    <2>5. g \in HostSet /\ ~g.closing /\ g.processed = h.processed /\ g.sequence = h.sequence
      <3>1. IsTold(h, rs, Told(h, rs))  BY <1>1, <2>4, ToldFacts
      <3> HIDE DEF g
      <3> QED  BY <1>1, <1>5, <2>2, <3>1 DEF IsTold
    <2> HIDE DEF g
    <2>6. ASSUME ~h.processed, polled.acked
          PROVE  Rests(c, p, polled, down)
      <3>1. [op |-> "processed", seq |-> h.sequence] \in ReplySet  BY <1>1 DEF ReplySet, HostSet
      <3>2. /\ one \in Seq(ReplySet) /\ Len(one) = 1
            /\ Range(one) = {[op |-> "processed", seq |-> h.sequence]}
        BY <3>1, RangeOfOne
      <3> HIDE DEF one
      <3>3. Reply(g, one) = Told(g, one)
        <4>1. Bounded(g, polled) /\ g.active # 0
          BY <2>2, <2>5, <2>6 DEF Runs, ChannelRuns, HostRuns
        <4>2. Cardinality(polled.leases) \in Nat /\ Cardinality(polled.redundant) \in Nat
          BY <2>2, OnPlaneFinite
        <4>3. Len(g.outgoing) \in Nat /\ Debt(g, polled) <= Limit
              /\ Debt(g, polled) = Len(g.outgoing) + Cardinality(polled.leases) + Cardinality(polled.redundant) + 1
          BY <2>5, <2>6, <4>1 DEF HostSet, Debt, Bounded
        <4>4. Len(g.outgoing) + Len(one) <= MaxOutgoing  BY <3>2, <4>2, <4>3, LimitFits
        <4> QED  BY <2>5, <3>2, <4>1, <4>4, ReplyFits
      <3>4. IsTold(g, one, Told(g, one))  BY <2>5, <3>2, ToldFacts
      <3>5. /\ p.active = g.active /\ p.pending = g.pending /\ p.sequence = g.sequence
            /\ p.current = g.current /\ p.outgoing = g.outgoing \o one
            /\ Range(g.outgoing \o one) = Range(g.outgoing) \cup Range(one)
        BY <3>3, <3>4 DEF IsTold, HostSet
      <3> HIDE DEF p
      <3>6. Replies(p, down) = Replies(g, down) \cup {[op |-> "processed", seq |-> g.sequence]}
        BY <2>5, <3>2, <3>5 DEF Replies
      <3> QED  BY <2>3, <3>5, <3>6, ProcessedRests
    <2>7. CASE ~h.processed /\ CommandsProcessed(polled)
      <3>1. k = p  BY <1>2, <2>7
      <3>2. polled.acked  BY <2>7 DEF CommandsProcessed
      <3> HIDE DEF p, k
      <3> QED  BY <2>6, <2>7, <3>1, <3>2 DEF k
    <2>8. CASE ~(~h.processed /\ CommandsProcessed(polled))
      <3>1. k = g  BY <1>2, <2>8
      <3> HIDE DEF p, k
      <3> QED  BY <2>3, <3>1 DEF k
    <2> QED  BY <2>7, <2>8
  <1> QED  BY <1>4, <1>5

(* A host that takes a socket has taken no frame.                           *)
LEMMA ActivateRests ==
    ASSUME NEW c, NEW h, NEW s, NEW u, NEW d, ChannelOk(c, h, s, u, d), Rests(c, h, s, d),
           Sender(c.presenter), DOMAIN c.presenter.flights \subseteq 1..c.presenter.sequence, ~h.closing
    PROVE  Rests(c, Activate(h), s, d)
  <1>1. h \in HostSet /\ c.out \in Nat /\ HostOk(c, h, s)  BY DEF ChannelOk
  <1>2. CASE h.stopped \/ h.active # 0 \/ h.waiting = 0
    <2>1. Activate(h) = h  BY <1>2 DEF Activate
    <2> QED  BY <2>1
  <1>3. CASE ~(h.stopped \/ h.active # 0 \/ h.waiting = 0)
    <2> DEFINE g == [h EXCEPT !.active = h.waiting, !.waiting = 0]
               fs == c.presenter.flights
    <2>1. Activate(h) = g  BY <1>3 DEF Activate
    <2>2. h.pending = None /\ s.leases = {} /\ h.sequence = 0  BY <1>1, <1>3 DEF HostOk
    <2>3. g.pending = None /\ g.sequence = 0  BY <1>1, <2>2 DEF HostSet
    <2> HIDE DEF g
    <2>4. Taken(g) = 0  BY <2>3 DEF Taken
    <2>5. \A x \in DOMAIN fs : ~(x <= Taken(g))
      <3>1. c.presenter.sequence \in Nat  BY DEF Sender, PresenterSet
      <3> QED  BY <2>4, <3>1
    <2>6. Knows(fs, g, s, Replies(g, d))
      BY <2>2, <2>5 DEF Knows, Answers, LeasesTrue, Latest
    <2> QED  BY <2>1, <2>6 DEF Rests
  <1> QED  BY <1>2, <1>3

LEMMA FlushRests ==
    ASSUME NEW c, NEW h, NEW s, NEW u, NEW d, ChannelOk(c, h, s, u, d), Rests(c, h, s, d)
    PROVE  Rests(c, [h EXCEPT !.outgoing = <<>>], s, d \o h.outgoing)
  <1> DEFINE g == [h EXCEPT !.outgoing = <<>>]
             e == d \o h.outgoing
  <1>1. h \in HostSet /\ h.outgoing \in Seq(ReplySet) /\ d \in Seq(ReplySet)  BY DEF ChannelOk, HostSet
  <1>2. /\ g.active = h.active /\ g.outgoing = <<>> /\ g.pending = h.pending
        /\ g.sequence = h.sequence /\ g.processed = h.processed /\ g.current = h.current
    BY <1>1, EmptySeq DEF HostSet
  <1>3. Range(e) = Range(d) \cup Range(h.outgoing)  BY <1>1, RangeOfConcat
  <1> HIDE DEF g, e
  <1>4. Replies(h, d) \subseteq Replies(g, e)  BY <1>3 DEF Replies
  <1>5. Live(c, g) => Live(c, h)  BY <1>2 DEF Live
  <1>6. Rests(c, g, s, e)  BY <1>2, <1>4, <1>5, RestsSame
  <1> QED  BY <1>6 DEF g, e

LEMMA ReceiveRests ==
    ASSUME NEW c, NEW h, NEW s, NEW u, NEW d, ChannelOk(c, h, s, u, d), Rests(c, h, s, d), Receives(h, u)
    PROVE  Rests(c, Received(h, u), s, d)
  <1> DEFINE m == Head(u)
             g == Received(h, u)
  <1>1. h \in HostSet /\ u \in Seq(MessageSet) /\ u # <<>> /\ h.pending = None /\ h.processed
    BY DEF ChannelOk, Receives
  <1>2. m \in MessageSet /\ m = u[1] /\ Len(u) \in Nat /\ Len(u) > 0  BY <1>1, TailFacts
  <1>3. m.seq \in Nat /\ h.sequence \in Nat  BY <1>1, <1>2 DEF MessageSet, HostSet
  <1>4. g = [h EXCEPT !.pending = m, !.sequence = m.seq]  BY DEF Received
  <1> HIDE DEF m, g
  <1>5. /\ g.active = h.active /\ g.outgoing = h.outgoing /\ g.pending = m /\ g.sequence = m.seq
        /\ g.processed = h.processed /\ g.current = h.current
    BY <1>1, <1>4 DEF HostSet
  <1>6. SessionRests(s)  BY DEF Rests
  <1>7. ASSUME Live(c, g) PROVE Knows(c.presenter.flights, g, s, Replies(g, d))
    <2> DEFINE fs == c.presenter.flights
               R == Replies(h, d)
    <2>1. Live(c, h)  BY <1>5, <1>7 DEF Live
    <2>2. LiveOk(c, h, s, u, d) /\ Knows(fs, h, s, R)  BY <2>1 DEF ChannelOk, Rests
    <2>3. m.seq = h.sequence + 1  BY <1>2, <2>2 DEF LiveOk
    <2>4. m # None  BY <1>2, ConstantsAssumption
    <2>5. Taken(g) = Taken(h)  BY <1>1, <1>3, <1>5, <2>3, <2>4 DEF Taken
    <2>6. Replies(g, d) = R  BY <1>5 DEF Replies
    <2>7. Follows(s, s) /\ Loses(s, s, {})  BY FollowsItself
    <2>8. R \cup {} \subseteq R /\ g.processed  BY <1>1, <1>5
    <2> HIDE DEF fs, R
    <2>9. Knows(fs, g, s, R)  BY <1>5, <2>2, <2>5, <2>7, <2>8, KnowsMore
    <2> QED  BY <2>6, <2>9 DEF fs
  <1>8. Rests(c, g, s, d)  BY <1>6, <1>7 DEF Rests
  <1> QED  BY <1>8 DEF g

LEMMA SubmitAcceptedRests ==
    ASSUME NEW c, NEW h, NEW s, NEW u, NEW d, ChannelOk(c, h, s, u, d), ChannelRuns(c, h, s, u, d),
           Rests(c, h, s, d), Sender(c.presenter), ~h.closing, h.active # 0, h.pending # None,
           h.outgoing = <<>>, SubmitResult(s, h.pending.frame) = "accepted",
           NEW t, t = Accept(s, h.pending.frame, h.pending.seq),
           NEW r, r = [op |-> "accepted", seq |-> h.pending.seq]
    PROVE  Rests(c, Reply([h EXCEPT !.pending = None, !.processed = FALSE,
                                    !.current = Contents(h.pending.frame)], <<r>>), t, d)
  <1> DEFINE m == h.pending
             acc == [h EXCEPT !.pending = None, !.processed = FALSE, !.current = Contents(m.frame)]
             g == Told(acc, <<r>>)
  <1>1. h \in HostSet /\ SessionType(s) /\ HostOk(c, h, s)  BY DEF ChannelOk
  <1>2. m \in MessageSet /\ m.frame \in FrameSet /\ m.seq \in Nat /\ m.seq = h.sequence
    BY <1>1 DEF HostSet, HostOk, MessageSet
  <1>3. Contents(m.frame) \in [Planes -> ContentSet]  BY <1>2, ContentsType
  <1>4. r \in ReplySet /\ r = [op |-> "accepted", seq |-> h.sequence]  BY <1>2 DEF ReplySet
  <1>5. /\ acc \in HostSet /\ acc.active = h.active /\ acc.outgoing = <<>> /\ acc.pending = None
        /\ acc.processed = FALSE /\ acc.sequence = h.sequence /\ acc.current = Contents(m.frame)
    BY <1>1, <1>3 DEF HostSet
  <1> HIDE DEF acc
  <1>6. Reply(acc, <<r>>) = g /\ IsTold(acc, <<r>>, g) /\ g.outgoing = <<r>> /\ Range(<<r>>) = {r}
    BY <1>4, <1>5, ReplyOne
  <1> HIDE DEF g
  <1>7. /\ g.active = h.active /\ g.pending = None /\ g.processed = FALSE
        /\ g.sequence = h.sequence /\ g.current = Contents(m.frame)
    BY <1>5, <1>6 DEF IsTold
  <1>8. SessionRuns(h, s) /\ h.processed = TRUE /\ h.processed
    BY <1>1 DEF ChannelRuns, HostRuns, HostOk, HostSet
  <1>9. s.state = "running" /\ s.cleanup = 0 /\ s.acked /\ s.commands = <<>>
    <2> DEFINE f == m.frame
    <2>1. SubmitResult(s, f) = "accepted"  OBVIOUS
    <2> HIDE DEF f
    <2> QED  BY <1>1, <1>8, <2>1, Accepting
  <1>10. SessionRests(s)  BY DEF Rests
  <1>11. SessionRests(t)
    <2> DEFINE f == m.frame
               k == m.seq
    <2>1. f \in FrameSet /\ k \in Nat /\ t = Accept(s, f, k)  BY <1>2
    <2> HIDE DEF f, k
    <2> QED  BY <1>1, <1>9, <1>10, <2>1, AcceptRests
  <1>12. ASSUME Live(c, g) PROVE Knows(c.presenter.flights, g, t, Replies(g, d))
    <2> DEFINE p == c.presenter
               R == Replies(h, d)
               Q == Replies(g, d)
    <2>1. Live(c, h)  BY <1>7, <1>12 DEF Live
    <2>2. Unanswered(p, h, R)  BY <2>1, PendingFacts
    <2>3. Knows(p.flights, h, s, R) /\ p \in PresenterSet  BY <2>1 DEF Rests, Sender
    <2>4. R \subseteq Q /\ [op |-> "accepted", seq |-> h.sequence] \in Q
      BY <1>4, <1>6, RangeOfNone DEF Replies
    <2> HIDE DEF p, R, Q
    <2>5. Knows(p.flights, g, t, Q)
      BY <1>1, <1>7, <1>8, <1>9, <1>10, <2>2, <2>3, <2>4, AcceptKnows
    <2> QED  BY <2>5 DEF p, Q
  <1>13. Rests(c, g, t, d)  BY <1>11, <1>12 DEF Rests
  <1> QED  BY <1>6, <1>13 DEF acc

LEMMA SubmitRests ==
    ASSUME NEW c, NEW h, NEW s, NEW u, NEW d, NEW n, ChannelOk(c, h, s, u, d), Runs(c, h, s, u, d, n),
           Rests(c, h, s, d), Sender(c.presenter), ~h.closing, h.active # 0, h.pending # None,
           h.outgoing = <<>>, s.redundant = {}, Returned(s) = {}
    PROVE  Rests(c, Submit(h, s).host, Submit(h, s).session, d)
  <1> DEFINE m == h.pending
             polled == PollSession(s)
             imp == Imported(h, m.frame)
             result == IF imp THEN SubmitResult(polled, m.frame) ELSE "unsupported"
             after == IF imp THEN polled ELSE s
             told == Reply(h, IF imp THEN Releases(s) ELSE <<>>)
             answer(op) == [op |-> op, seq |-> m.seq]
             acc == [told EXCEPT !.pending = None, !.processed = FALSE, !.current = Contents(m.frame)]
             ref == [told EXCEPT !.pending = None]
             t == Accept(after, m.frame, m.seq)
  <1>1. h \in HostSet /\ SessionType(s) /\ HostOk(c, h, s) /\ c.out \in Nat  BY DEF ChannelOk
  <1>2. Releases(s) = <<>>  BY <1>1, NothingReleased
  <1>3. told = h
    <2>1. Reply(h, <<>>) = Told(h, <<>>)
      <3>1. <<>> \in Seq(ReplySet) /\ Len(<<>>) = 0  BY EmptySeq
      <3>2. Len(h.outgoing) + Len(<<>>) <= MaxOutgoing  BY <3>1, LimitFits
      <3> QED  BY <1>1, <3>1, <3>2, ReplyFits
    <2>2. Told(h, <<>>) = [h EXCEPT !.outgoing = <<>>]  BY DEF Told
    <2>3. [h EXCEPT !.outgoing = <<>>] = h  BY <1>1 DEF HostSet
    <2> QED  BY <1>2, <2>1, <2>2, <2>3
  <1>4. ChannelOk(c, h, polled, u, d)  BY PollReplies
  <1>5. Runs(c, h, polled, u, d, n) /\ Rests(c, h, polled, d)
    <2>1. Reply(h, Releases(s)) = h  BY <1>2, <1>3
    <2> QED  BY <2>1, PollReplyRuns, PollReplyRests
  <1>6. ChannelOk(c, h, after, u, d) /\ ChannelRuns(c, h, after, u, d) /\ Rests(c, h, after, d)
    BY <1>4, <1>5 DEF Runs
  <1>7. Submit(h, s) = IF result = "accepted"
           THEN [host |-> Reply(acc, <<answer("accepted")>>), session |-> t]
           ELSE IF result = "busy" THEN [host |-> told, session |-> after]
           ELSE [host |-> Reply(ref, <<answer("rejected")>>), session |-> after]
    BY DEF Submit
  <1>8. Live(c, h) => result \in {"accepted", "busy"}
    <2> SUFFICES ASSUME Live(c, h) PROVE result \in {"accepted", "busy"}  OBVIOUS
    <2>1. ChannelRuns(c, h, polled, u, d) /\ SessionType(polled)  BY <1>4, <1>5 DEF Runs, ChannelOk
    <2>2. SessionRuns(h, polled)  BY <2>1 DEF ChannelRuns, HostRuns
    <2>3. \A i \in DOMAIN m.frame : m.frame[i].reuse => h.current[i] = Contents(m.frame)[i]
      <3>1. Unanswered(c.presenter, h, Replies(h, d))  BY <1>4, <2>1, PendingFacts
      <3> QED  BY <3>1 DEF Unanswered
    <2>4. m.frame \in FrameSet  BY <1>1 DEF HostSet, MessageSet
    <2> HIDE DEF polled, m
    <2>5. Imported(h, m.frame) /\ SubmitResult(polled, m.frame) \in {"accepted", "busy"}
      BY <2>1, <2>2, <2>3, <2>4, SubmitSupported
    <2> QED  BY <2>5
  <1> HIDE DEF polled, imp, after, told
  <1>9. CASE result = "accepted"
    <2>1. imp /\ SubmitResult(after, m.frame) = "accepted"  BY <1>9 DEF after
    <2> HIDE DEF result
    <2>2. Rests(c, Reply([h EXCEPT !.pending = None, !.processed = FALSE,
                                   !.current = Contents(h.pending.frame)], <<answer("accepted")>>), t, d)
      BY <1>6, <2>1, SubmitAcceptedRests
    <2>3. Submit(h, s).host = Reply(acc, <<answer("accepted")>>) /\ Submit(h, s).session = t
      BY <1>7, <1>9
    <2> QED  BY <1>3, <2>2, <2>3
  <1>10. CASE result = "busy"
    <2>1. Submit(h, s).host = told /\ Submit(h, s).session = after  BY <1>7, <1>10
    <2> QED  BY <1>3, <1>6, <2>1
  <1>11. CASE result \notin {"accepted", "busy"}
    <2> DEFINE g == Reply(ref, <<answer("rejected")>>)
    <2>1. ~Live(c, h)  BY <1>8, <1>11
    <2>2. Submit(h, s).host = g /\ Submit(h, s).session = after  BY <1>7, <1>11
    <2>3. g.active = h.active
      <3>1. ref \in HostSet /\ ref.active = h.active /\ ref.outgoing = <<>>  BY <1>1, <1>3 DEF HostSet
      <3>2. answer("rejected") \in ReplySet  BY <1>1 DEF ReplySet, HostSet, MessageSet
      <3> HIDE DEF ref, answer
      <3>3. g = Told(ref, <<answer("rejected")>>)
            /\ IsTold(ref, <<answer("rejected")>>, Told(ref, <<answer("rejected")>>))
        BY <3>1, <3>2, ReplyOne
      <3> QED  BY <3>1, <3>3 DEF IsTold
    <2> HIDE DEF g
    <2>4. ~Live(c, g)  BY <2>1, <2>3 DEF Live
    <2>5. Rests(c, g, after, d)  BY <1>6, <2>4 DEF Rests
    <2> QED  BY <2>2, <2>5
  <1> HIDE DEF result
  <1> QED  BY <1>9, <1>10, <1>11

LEMMA TickServeRests ==
    ASSUME NEW h, NEW s, NEW full, NEW n, ChannelOk(Context, h, s, up, down),
           Runs(Context, h, s, up, down, n), Rests(Context, h, s, down), Sender(presenter), ~h.closing,
           h.active # 0 => ~Awaited(Context, h) /\ (Live(Context, h) \/ h.outgoing = <<>>),
           s.redundant = {}, Returned(s) = {}, TickServe(h, s, full)
    PROVE  Rests(Context, host', session', down')
  <1> DEFINE h1 == [h EXCEPT !.outgoing = <<>>]
             m == Head(up)
             hm == [h1 EXCEPT !.pending = m, !.sequence = m.seq]
             h2 == IF h.pending # None THEN h1 ELSE hm
  <1>1. h \in HostSet /\ up \in Seq(MessageSet)  BY DEF ChannelOk
  <1>2. /\ h1 \in HostSet /\ h1.active = h.active /\ h1.waiting = h.waiting /\ h1.pending = h.pending
        /\ h1.processed = h.processed /\ h1.sequence = h.sequence /\ h1.outgoing = <<>>
        /\ h1.closing = h.closing
    BY <1>1, EmptySeq DEF HostSet
  <1>3. CASE host' = h /\ session' = s /\ UNCHANGED <<up, down>>
    BY <1>3
  <1>4. CASE h.active # 0 /\ down' = down \o h.outgoing
             /\ \/ /\ ~h.processed \/ (h.pending = None /\ up = <<>>)
                   /\ host' = IF h.processed /\ Lost(h.active) THEN Disconnect(h1) ELSE h1
                   /\ session' = s
                   /\ UNCHANGED up
                \/ /\ h.processed /\ h.pending = None /\ up # <<>> /\ m.seq <= h.sequence
                   /\ host' = Disconnect(h1) /\ session' = s /\ up' = Tail(up)
                \/ /\ h.processed
                   /\ h.pending = None => up # <<>> /\ m.seq > h.sequence
                   /\ host' = Submit(h2, s).host /\ session' = Submit(h2, s).session
                   /\ up' = IF h.pending = None THEN Tail(up) ELSE up
    <2> DEFINE d == down \o h.outgoing
    <2>1. ChannelOk(Context, h1, s, up, d)  BY <1>4, FlushOk
    <2>2. ~Awaited(Context, h1)  BY <1>2, <1>4 DEF Awaited
    <2>3. Runs(Context, h1, s, up, d, n)  BY <1>4, FlushRuns
    <2>4. Rests(Context, h1, s, d)  BY FlushRests
    <2>5. Disconnect(h1).active = 0  BY <1>2, DisconnectType
    <2>6. Context.out \in Nat /\ (Context.presenter.open => Context.out > 0)
      BY <2>1 DEF ChannelOk, HostOk
    <2> HIDE DEF h1, d
    <2>7. SessionRests(s)  BY <2>4 DEF Rests
    <2>8. Rests(Context, Disconnect(h1), s, d)  BY <2>5, <2>6, <2>7, IdleRests
    <2>9. CASE /\ host' = IF h.processed /\ Lost(h.active) THEN Disconnect(h1) ELSE h1
               /\ session' = s /\ UNCHANGED up
      <3>1. host' \in {Disconnect(h1), h1} /\ down' = d  BY <1>4, <2>9 DEF d
      <3> QED  BY <2>4, <2>8, <2>9, <3>1
    <2>10. CASE /\ up # <<>> /\ m.seq <= h.sequence
                /\ host' = Disconnect(h1) /\ session' = s /\ up' = Tail(up)
      <3>1. down' = d  BY <1>4 DEF d
      <3> QED  BY <2>8, <2>10, <3>1
    <2>11. CASE /\ h.processed
                /\ h.pending = None => up # <<>> /\ m.seq > h.sequence
                /\ host' = Submit(h2, s).host /\ session' = Submit(h2, s).session
                /\ up' = IF h.pending = None THEN Tail(up) ELSE up
      <3> DEFINE u == IF h.pending = None THEN Tail(up) ELSE up
      <3>1. /\ ChannelOk(Context, h2, s, u, d) /\ h2.active # 0 /\ h2.pending # None
            /\ Runs(Context, h2, s, u, d, n) /\ ~h2.closing /\ h2.outgoing = <<>>
            /\ Rests(Context, h2, s, d)
        <4>1. CASE h.pending # None  BY <1>2, <1>4, <2>1, <2>3, <2>4, <4>1
        <4>2. CASE h.pending = None
          <5>1. Receives(h1, up) /\ hm = Received(h1, up) /\ m = Head(up)
            BY <1>2, <1>4, <2>11, <4>2 DEF Receives, Received
          <5> HIDE DEF hm, m
          <5>2. /\ ChannelOk(Context, hm, s, Tail(up), d) /\ hm.pending = m /\ m \in MessageSet
                /\ hm.active = h1.active
            BY <2>1, <2>2, <5>1, ReceiveOk
          <5>3. /\ Runs(Context, hm, s, Tail(up), d, n)
                /\ hm.outgoing = h1.outgoing /\ hm.closing = h1.closing
            BY <2>1, <2>2, <2>3, <5>1, ReceiveRuns
          <5>4. m # None  BY <5>2, ConstantsAssumption
          <5>5. Rests(Context, hm, s, d)  BY <2>1, <2>4, <5>1, ReceiveRests
          <5> QED  BY <1>2, <1>4, <4>2, <5>2, <5>3, <5>4, <5>5
        <4> QED  BY <4>1, <4>2
      <3>2. Sender(Context.presenter)  BY DEF Context
      <3> HIDE DEF h2, u
      <3>3. Rests(Context, Submit(h2, s).host, Submit(h2, s).session, d)
        BY <3>1, <3>2, SubmitRests
      <3> QED  BY <1>4, <2>11, <3>3 DEF d
    <2> HIDE DEF h2
    <2> QED  BY <1>4, <2>9, <2>10, <2>11
  <1> QED  BY <1>3, <1>4, Zenon DEF TickServe

LEMMA TickClosedRests ==
    ASSUME NEW h, NEW s, ChannelOk(Context, h, s, up, down), h.closing, TickClosed(h)
    PROVE  Rests(Context, host', session', down')
  <1> DEFINE a == [Stop(h) EXCEPT !.exists = FALSE]
             b == [h EXCEPT !.closing = FALSE, !.processed = TRUE, !.sequence = 0]
  <1>1. h \in HostSet /\ HostOk(Context, h, s) /\ Context.out \in Nat  BY DEF ChannelOk
  <1>2. h.active = 0 /\ (Context.presenter.open => Context.out > 0)  BY <1>1 DEF HostOk
  <1>3. session' = NewSession /\ down' = down /\ host' = IF h.detached THEN a ELSE b
    BY DEF TickClosed
  <1>4. a.active = 0 /\ b.active = 0  BY <1>1, <1>2 DEF Stop, HostSet
  <1> HIDE DEF a, b
  <1>5. Rests(Context, a, NewSession, down) /\ Rests(Context, b, NewSession, down)
    BY <1>1, <1>2, <1>4, NewSessionRests, IdleRests
  <1> QED  BY <1>3, <1>5

LEMMA TickRests ==
    ASSUME ChannelOk(Context, host, session, up, down), Sender(presenter),
           DOMAIN presenter.flights \subseteq 1..presenter.sequence,
           Runs(Context, host, session, up, down, detaches), Rests(Context, host, session, down),
           NEW full, Tick(full)
    PROVE  Rests(Context, host, session, down)'
  <1>1. PICK lost \in {TickLost(host)} :
           \E polled \in {PollSession(IF lost.closing THEN Close(session) ELSE session)} :
           \E h \in {TickPoll(lost, polled)} :
              \/ h.closing /\ polled.state = "closed" /\ TickClosed(h)
              \/ h.closing /\ polled.state # "closed" /\ host' = h /\ session' = polled
                           /\ UNCHANGED <<up, down>>
              \/ ~h.closing /\ TickServe(Activate(h), polled, full)
    BY Zenon DEF Tick
  <1>2. PICK polled \in {PollSession(IF lost.closing THEN Close(session) ELSE session)} :
           \E h \in {TickPoll(lost, polled)} :
              \/ h.closing /\ polled.state = "closed" /\ TickClosed(h)
              \/ h.closing /\ polled.state # "closed" /\ host' = h /\ session' = polled
                           /\ UNCHANGED <<up, down>>
              \/ ~h.closing /\ TickServe(Activate(h), polled, full)
    BY <1>1, Zenon
  <1>3. PICK h \in {TickPoll(lost, polled)} :
              \/ h.closing /\ polled.state = "closed" /\ TickClosed(h)
              \/ h.closing /\ polled.state # "closed" /\ host' = h /\ session' = polled
                           /\ UNCHANGED <<up, down>>
              \/ ~h.closing /\ TickServe(Activate(h), polled, full)
    BY <1>2, Zenon
  <1> DEFINE n == detaches
  <1>4. /\ ChannelOk(Context, lost, session, up, down)
        /\ lost.active # 0 => Live(Context, lost)
    BY TickLostOk
  <1>5. Runs(Context, lost, session, up, down, n) /\ Rests(Context, lost, session, down)
    BY TickLostRuns, TickLostRests
  <1>6. /\ ChannelOk(Context, h, polled, up, down) /\ SameHost(lost, h)
        /\ lost.closing => h.closing
    BY <1>4, TickPollOk
  <1>7. /\ Runs(Context, h, polled, up, down, n)
        /\ ~lost.closing => polled.redundant = {} /\ Returned(polled) = {}
    BY <1>4, <1>5, TickPollRuns
  <1>8. Rests(Context, h, polled, down)  BY <1>4, <1>5, TickPollRests
  <1>9. Sender(Context.presenter)
        /\ DOMAIN Context.presenter.flights \subseteq 1..Context.presenter.sequence
    BY DEF Context
  <1>10. Rests(Context, host', session', down')
    <2>1. CASE h.closing /\ polled.state = "closed" /\ TickClosed(h)
      BY <1>6, <2>1, TickClosedRests
    <2>2. CASE h.closing /\ polled.state # "closed" /\ host' = h /\ session' = polled
               /\ UNCHANGED <<up, down>>
      BY <1>8, <2>2
    <2>3. CASE ~h.closing /\ TickServe(Activate(h), polled, full)
      <3>1. h.active # 0 => Live(Context, h)  BY <1>4, <1>6, <2>3 DEF SameHost, Live
      <3> DEFINE g == Activate(h)
      <3>2. /\ ChannelOk(Context, g, polled, up, down) /\ ~g.closing
            /\ g.active # 0 => ~Awaited(Context, g) /\ (Live(Context, g) \/ g.outgoing = <<>>)
        BY <1>6, <2>3, <3>1, ActivateOk
      <3>3. TickServe(g, polled, full)  BY <2>3
      <3>4. Runs(Context, g, polled, up, down, n)  BY <1>6, <1>7, <2>3, ActivateRuns
      <3>5. polled.redundant = {} /\ Returned(polled) = {}  BY <1>6, <1>7, <2>3
      <3>6. Rests(Context, g, polled, down)  BY <1>6, <1>8, <1>9, <2>3, ActivateRests
      <3> HIDE DEF g
      <3> QED  BY <3>2, <3>3, <3>4, <3>5, <3>6, TickServeRests
    <2> QED  BY <1>3, <2>1, <2>2, <2>3
  <1>11. Context' = Context  BY DEF Tick, Context
  <1> QED  BY <1>10, <1>11
-----------------------------------------------------------------------------
(* The render service, the content, and presenters that come and go *)

LEMMA ServeRests ==
    ASSUME ChannelOk(Context, host, session, up, down),
           Runs(Context, host, session, up, down, detaches), Rests(Context, host, session, down),
           RsApply \/ RsComplete \/ RsReturn
    PROVE  Rests(Context, host, session, down)'
  <1> DEFINE s == session
             t == session'
  <1>1. SessionType(s) /\ host \in HostSet /\ HostOk(Context, host, s) /\ Context.out \in Nat
    BY DEF ChannelOk
  <1>2. SessionRests(s)  BY DEF Rests
  <1>3. /\ SessionRests(t) /\ Loses(s, t, {})
        /\ s.state \in {"running", "waiting"} => Follows(s, t)
    <2>1. CASE RsApply
      BY <1>1, <1>2, <2>1, ApplyRests DEF RsApply, Serve
    <2>2. CASE RsComplete
      <3>1. t = [s EXCEPT !.acked = TRUE] /\ s.commands = <<>>  BY <2>2 DEF RsComplete, Serve
      <3> HIDE DEF s, t
      <3>2. SessionType(s) /\ SessionRests(s)  BY <1>1, <1>2
      <3> QED  BY <3>1, <3>2, CompleteRests
    <2>3. CASE RsReturn
      <3>1. PICK l \in Returnable(s) : t = Move(s, {l}, "returned")
        BY <2>3 DEF RsReturn, Serve
      <3> QED  BY <1>1, <1>2, <3>1, ReturnRests
    <2> QED  BY <2>1, <2>2, <2>3
  <1>4. Context' = Context /\ host' = host /\ down' = down
    BY DEF RsApply, RsComplete, RsReturn, Serve, Context
  <1>5. ASSUME Live(Context, host)
        PROVE  Knows(Context.presenter.flights, host, t, Replies(host, down))
    <2> DEFINE fs == Context.presenter.flights
               R == Replies(host, down)
    <2>1. ~host.closing  BY <1>1, <1>5 DEF HostOk, Live
    <2>2. s.state = "running"  BY <2>1 DEF Runs, ChannelRuns, HostRuns, SessionRuns
    <2>3. Knows(fs, host, s, R) /\ R \cup {} \subseteq R  BY <1>5 DEF Rests
    <2>4. Follows(s, t) /\ Loses(s, t, {}) /\ \A r \in {} : r.op = "released"  BY <1>3, <2>2
    <2> HIDE DEF fs, R, s, t
    <2>5. Knows(fs, host, t, R)  BY <2>3, <2>4, KnowsMore
    <2> QED  BY <2>5 DEF fs, R, t
  <1>6. Rests(Context, host, t, down)  BY <1>3, <1>5 DEF Rests
  <1> QED  BY <1>4, <1>6

LEMMA ContentRests ==
    ASSUME ChannelOk(Context, host, session, up, down), Rests(Context, host, session, down),
           DetachContent \/ AttachContent
    PROVE  Rests(Context, host, session, down)'
  <1>1. Context' = Context /\ down' = down
    BY DEF DetachContent, AttachContent, Context
  <1>2. host \in HostSet /\ Context.out \in Nat /\ (Context.presenter.open => Context.out > 0)
    BY DEF ChannelOk, HostOk
  <1>3. CASE DetachContent
    <2> DEFINE g == [host EXCEPT !.detached = TRUE]
    <2>1. /\ g.active = host.active /\ g.outgoing = host.outgoing /\ g.pending = host.pending
          /\ g.sequence = host.sequence /\ g.processed = host.processed /\ g.current = host.current
      BY <1>2 DEF HostSet
    <2>2. host' = g /\ session' = session  BY <1>3 DEF DetachContent
    <2> HIDE DEF g
    <2>3. (Live(Context, g) => Live(Context, host)) /\ Replies(host, down) \subseteq Replies(g, down)
      BY <2>1 DEF Live, Replies
    <2>4. Rests(Context, g, session, down)  BY <2>1, <2>3, RestsSame
    <2> QED  BY <1>1, <2>2, <2>4
  <1>4. CASE AttachContent
    <2>1. host' = NewHost /\ session' = NewSession  BY <1>4 DEF AttachContent
    <2>2. NewHost.active = 0  BY DEF NewHost
    <2>3. Rests(Context, NewHost, NewSession, down)  BY <1>2, <2>2, NewSessionRests, IdleRests
    <2> QED  BY <1>1, <2>1, <2>3
  <1> QED  BY <1>3, <1>4

LEMMA GoneRests ==
    ASSUME Rests(Context, host, session, down), NEW fault, Gone(fault)
    PROVE  Rests(Context, host, session, down)'
  <1>1. presenter' = NoPresenter(fault) /\ session' = session  BY DEF Gone
  <1>2. ~NoPresenter(fault).open  BY DEF NoPresenter
  <1>3. SessionRests(session')  BY <1>1 DEF Rests
  <1>4. ~Live(Context', host')  BY <1>1, <1>2 DEF Context, Live
  <1> QED  BY <1>3, <1>4 DEF Rests

LEMMA ConnectRests ==
    ASSUME ChannelOk(Context, host, session, up, down), Rests(Context, host, session, down), Connect
    PROVE  Rests(Context, host, session, down)'
  <1>1. out' = out + 1 /\ session' = session /\ host' = [host EXCEPT !.waiting = out + 1]
    BY DEF Connect
  <1>2. host \in HostSet /\ HostOk(Context, host, session) /\ out \in Nat /\ Context.out = out
    BY DEF ChannelOk, Context
  <1>3. host'.active = host.active  BY <1>1, <1>2 DEF HostSet
  <1>4. host.active \in Nat /\ host.active <= out  BY <1>2 DEF HostOk, HostSet
  <1>5. ~Live(Context', host')  BY <1>1, <1>2, <1>3, <1>4 DEF Context, Live
  <1>6. SessionRests(session')  BY <1>1 DEF Rests
  <1> QED  BY <1>5, <1>6 DEF Rests

LEMMA InitRests ==
    ASSUME Init
    PROVE  Rests(Context, host, session, down)
  <1>1. Context.presenter = NoPresenter("none") /\ session = NewSession  BY DEF Init, Context
  <1>2. ~NoPresenter("none").open  BY DEF NoPresenter
  <1>3. ~Live(Context, host)  BY <1>1, <1>2 DEF Live
  <1> QED  BY <1>1, <1>3, NewSessionRests DEF Rests
-----------------------------------------------------------------------------
(* The presenter *)

(* A frame is drawn into a buffer that no frame before it still shows, and  *)
(* Poll has swapped what can be swapped.                                    *)
NewBuffers(fs) ==
    \A x, y \in DOMAIN fs : x < y =>
        \A i \in DOMAIN fs[x].frame \cap DOMAIN fs[y].frame :
            ~fs[y].frame[i].reuse /\ i \notin fs[x].released => fs[x].frame[i].buf # fs[y].frame[i].buf
AllSwapped(fs) == \A x \in Swapped(fs) : fs[x].done

LEMMA AddedRests ==
    ASSUME NEW c, NEW h, NEW s, NEW u, NEW d, NEW n, ChannelOk(c, h, s, u, d), Sender(c.presenter),
           Runs(c, h, s, u, d, n), Rests(c, h, s, d), DOMAIN c.presenter.flights \subseteq 1..c.presenter.sequence,
           NEW b, b.out = c.out, Adds(c.presenter, b.presenter)
    PROVE  Rests(b, h, s, d)
  <1> DEFINE p == c.presenter
             fs == p.flights
             gs == b.presenter.flights
             seq == p.sequence + 1
             R == Replies(h, d)
  <1>1. SessionRests(s)  BY DEF Rests
  <1>2. p.sequence \in Nat  BY DEF Sender, PresenterSet
  <1>3. b.presenter.open = p.open /\ DOMAIN gs = DOMAIN fs \cup {seq} /\ \A x \in DOMAIN fs : gs[x] = fs[x]
    BY DEF Adds
  <1>4. ASSUME Live(b, h) PROVE Knows(gs, h, s, R)
    <2>1. Live(c, h)  BY <1>3, <1>4 DEF Live
    <2>2. Taken(h) \in Int /\ Taken(h) <= p.sequence  BY <2>1, SentFresh
    <2>3. Owed(fs, h, s, R)  BY <2>1 DEF Runs, ChannelRuns, LiveRuns
    <2>4. Knows(fs, h, s, R)  BY <2>1 DEF Rests
    <2>5. ~(seq <= Taken(h))  BY <1>2, <2>2
    <2> HIDE DEF fs, gs, seq, R
    <2>6. \A x \in DOMAIN gs : x <= Taken(h) => x \in DOMAIN fs /\ gs[x] = fs[x]  BY <1>3, <2>5
    <2>7. \A l \in s.leases : gs[l.seq] = fs[l.seq]  BY <1>3, <2>3 DEF Owed, Awaits
    <2>8. Answers(gs, h, s, R)  BY <2>4, <2>6 DEF Knows, Answers
    <2>9. LeasesTrue(gs, s)  BY <2>4, <2>7 DEF Knows, LeasesTrue
    <2>10. Latest(gs, h, s)  BY <2>4, <2>6 DEF Knows, Latest
    <2> QED  BY <2>8, <2>9, <2>10 DEF Knows
  <1> QED  BY <1>1, <1>4 DEF Rests

LEMMA AddedSwaps ==
    ASSUME NEW p, p \in PresenterSet, DOMAIN p.flights \subseteq 1..p.sequence,
           NewBuffers(p.flights), AllSwapped(p.flights),
           NEW a, Adds(p, a), Unused(p, a)
    PROVE  NewBuffers(a.flights) /\ AllSwapped(a.flights)
  <1> DEFINE fs == p.flights
             gs == a.flights
             seq == p.sequence + 1
  <1>1. /\ DOMAIN gs = DOMAIN fs \cup {seq} /\ ~gs[seq].done /\ ~gs[seq].processed
        /\ \A x \in DOMAIN fs : gs[x] = fs[x]
    BY DEF Adds
  <1>2. p.sequence \in Nat /\ DOMAIN fs \subseteq 1..p.sequence  BY DEF PresenterSet
  <1>3. \A x \in DOMAIN fs : x \in Nat /\ x < seq  BY <1>2
  <1>4. \A i \in DOMAIN gs[seq].frame : ~gs[seq].frame[i].reuse =>
           \A x \in DOMAIN fs : i \in DOMAIN fs[x].frame \ fs[x].released => fs[x].frame[i].buf # gs[seq].frame[i].buf
    BY DEF Unused
  <1>5. seq \in Nat  BY <1>2
  <1> HIDE DEF fs, gs, seq
  <1>6. NewBuffers(gs)
    <2> SUFFICES ASSUME NEW x \in DOMAIN gs, NEW y \in DOMAIN gs, x < y,
                        NEW i \in DOMAIN gs[x].frame \cap DOMAIN gs[y].frame,
                        ~gs[y].frame[i].reuse, i \notin gs[x].released
                 PROVE  gs[x].frame[i].buf # gs[y].frame[i].buf
      BY DEF NewBuffers
    <2>1. x \in DOMAIN fs  BY <1>1, <1>3, <1>5
    <2>2. CASE y = seq  BY <1>1, <1>4, <2>1, <2>2
    <2>3. CASE y \in DOMAIN fs
      <3>1. NewBuffers(fs)  BY DEF fs
      <3> QED  BY <1>1, <2>1, <2>3, <3>1 DEF NewBuffers
    <2> QED  BY <1>1, <2>2, <2>3
  <1>7. AllSwapped(gs)
    <2> SUFFICES ASSUME NEW x \in Swapped(gs) PROVE gs[x].done
      BY DEF AllSwapped
    <2>1. x \in DOMAIN gs /\ \A t \in DOMAIN gs : t <= x => gs[t].done \/ Ready(gs, t)
      BY DEF Swapped
    <2>2. x # seq
      <3>1. SUFFICES ASSUME x = seq PROVE FALSE  OBVIOUS
      <3>2. gs[seq].done \/ Ready(gs, seq)  BY <1>5, <2>1, <3>1
      <3> QED  BY <1>1, <3>2 DEF Ready
    <2>3. x \in DOMAIN fs  BY <1>1, <2>1, <2>2
    <2>4. ASSUME NEW t \in DOMAIN fs, t <= x PROVE fs[t].done \/ Ready(fs, t)
      <3>1. gs[t].done \/ Ready(gs, t)  BY <1>1, <2>1, <2>4
      <3> QED  BY <1>1, <3>1 DEF Ready
    <2>5. x \in Swapped(fs)  BY <2>3, <2>4 DEF Swapped
    <2>6. AllSwapped(fs)  BY DEF fs
    <2> QED  BY <1>1, <2>3, <2>5, <2>6 DEF AllSwapped
  <1> QED  BY <1>6, <1>7 DEF gs

(* What is left once the replies are taken.                                 *)
LEMMA LeftRests ==
    ASSUME NEW c, NEW h, NEW s, NEW u, NEW d, NEW n, ChannelOk(c, h, s, u, d), Runs(c, h, s, u, d, n),
           Rests(c, h, s, d), Sender(c.presenter), FlightsTold(c.presenter),
           NEW b, b.out = c.out, b.presenter.open = c.presenter.open,
           b.presenter.flights = Left(c.presenter.flights, d)
    PROVE  Rests(b, h, s, <<>>)
  <1> DEFINE p == c.presenter
             fs == p.flights
             gs == b.presenter.flights
             R == Range(h.outgoing)
             Q == Range(d) \cup R
  <1>1. SessionRests(s)  BY DEF Rests
  <1>2. d \in Seq(ReplySet) /\ SessionType(s)  BY DEF ChannelOk
  <1>3. Heard(fs, d, gs)  BY <1>2, LeftHeard DEF Sender
  <1>4. Replies(h, <<>>) = R /\ Replies(h, d) = Q  BY RangeOfNone DEF Replies
  <1>5. ASSUME Live(b, h) PROVE Knows(gs, h, s, R)
    <2>1. Live(c, h)  BY <1>5 DEF Live
    <2>2. Owed(fs, h, s, Replies(h, d))  BY <2>1 DEF Runs, ChannelRuns, LiveRuns
    <2>3. Knows(fs, h, s, Q)  BY <1>4, <2>1 DEF Rests
    <2> HIDE DEF fs, gs
    <2>10. Owed(gs, h, s, Replies(h, <<>>))  BY <1>2, <1>3, <2>2, HeardOwed
    <2> HIDE DEF R, Q
    <2>4. Owed(gs, h, s, R)  BY <1>4, <2>10
    <2>5. ASSUME NEW x \in DOMAIN gs
          PROVE  /\ x \in DOMAIN fs /\ gs[x].frame = fs[x].frame
                 /\ Acc(gs[x], R, x) <=> Acc(fs[x], Q, x)
                 /\ Pro(gs[x], R, x) <=> Pro(fs[x], Q, x)
                 /\ \A i : Rel(gs[x], R, x, i) <=> Rel(fs[x], Q, x, i)
      BY <1>3, HeardMore DEF Heard, Q
    <2>6. \A l \in s.leases : l.seq \in DOMAIN gs  BY <2>4 DEF Owed, Awaits
    <2>7. Answers(gs, h, s, R)  BY <2>3, <2>5 DEF Knows, Answers
    <2>8. LeasesTrue(gs, s)  BY <2>3, <2>5, <2>6 DEF Knows, LeasesTrue
    <2>9. Latest(gs, h, s)  BY <2>3, <2>5 DEF Knows, Latest
    <2> QED  BY <2>7, <2>8, <2>9 DEF Knows
  <1> QED  BY <1>1, <1>4, <1>5 DEF Rests

LEMMA LeftSwaps ==
    ASSUME NEW p \in PresenterSet, FlightsTold(p), NEW d \in Seq(ReplySet), NewBuffers(p.flights)
    PROVE  NewBuffers(Left(p.flights, d)) /\ AllSwapped(Left(p.flights, d))
  <1> DEFINE fs == p.flights
             G == Got(fs, d)
             L == Left(fs, d)
  <1>1. /\ DOMAIN G = DOMAIN fs /\ DOMAIN L \subseteq DOMAIN fs
        /\ \A s \in DOMAIN fs :
              G[s].frame = fs[s].frame /\ fs[s].released \subseteq G[s].released
        /\ \A s \in DOMAIN L : /\ L[s].frame = fs[s].frame /\ L[s].released = G[s].released
                               /\ L[s].done <=> s \in Swapped(G)
        /\ \A s \in DOMAIN fs : s \notin DOMAIN L => s \in Swapped(G) /\ G[s].released = Planes
    BY LeftFacts
  <1>2. Heard(fs, d, L)  BY LeftHeard
  <1>3. \A s \in DOMAIN fs : s \in Nat /\ fs[s] \in FlightSet  BY FlightFacts
  <1>4. ASSUME NEW s \in DOMAIN L PROVE L[s].processed <=> G[s].processed
    <2>1. s \in DOMAIN fs /\ (L[s].processed <=> Pro(fs[s], Range(d), s))  BY <1>1, <1>2 DEF Heard
    <2>2. Apply(fs[s], s, d).processed <=> Pro(fs[s], Range(d), s)  BY <1>3, <2>1, ApplyTold
    <2>3. G[s] = Apply(fs[s], s, d)  BY <2>1 DEF Got
    <2> HIDE DEF L, G
    <2> QED  BY <2>1, <2>2, <2>3
  <1>5. NewBuffers(fs)  OBVIOUS
  <1> HIDE DEF fs, G, L
  <1>6. NewBuffers(L)
    <2> SUFFICES ASSUME NEW x \in DOMAIN L, NEW y \in DOMAIN L, x < y,
                        NEW i \in DOMAIN L[x].frame \cap DOMAIN L[y].frame,
                        ~L[y].frame[i].reuse, i \notin L[x].released
                 PROVE  L[x].frame[i].buf # L[y].frame[i].buf
      BY DEF NewBuffers
    <2>1. x \in DOMAIN fs /\ y \in DOMAIN fs /\ i \notin fs[x].released  BY <1>1
    <2>2. L[x].frame = fs[x].frame /\ L[y].frame = fs[y].frame  BY <1>1
    <2> QED  BY <1>5, <2>1, <2>2 DEF NewBuffers
  <1>7. ASSUME NEW t \in DOMAIN L, Ready(L, t) PROVE Ready(G, t)
    <2>1. L[t].processed /\ t \in DOMAIN fs  BY <1>1, <1>7 DEF Ready
    <2>2. ASSUME NEW x \in DOMAIN G, x < t
          PROVE  0 \in G[x].released \/ G[x].frame[0].content = G[t].frame[0].content
      <3>1. CASE x \in DOMAIN L
        <4>1. 0 \in L[x].released \/ L[x].frame[0].content = L[t].frame[0].content
          BY <1>7, <2>2, <3>1 DEF Ready
        <4> QED  BY <1>1, <2>1, <3>1, <4>1
      <3>2. CASE x \notin DOMAIN L
        <4>1. G[x].released = Planes  BY <1>1, <3>2
        <4> QED  BY <4>1 DEF Planes
      <3> QED  BY <3>1, <3>2
    <2> QED  BY <1>4, <2>1, <2>2 DEF Ready
  <1>8. \A t \in Swapped(G) : t \in DOMAIN G /\ (G[t].done \/ Ready(G, t))
    <2> SUFFICES ASSUME NEW t \in Swapped(G) PROVE t \in DOMAIN G /\ (G[t].done \/ Ready(G, t))
      OBVIOUS
    <2>1. t \in DOMAIN G  BY DEF Swapped
    <2>2. t <= t  BY <1>1, <1>3, <2>1
    <2> QED  BY <2>1, <2>2 DEF Swapped
  <1>9. AllSwapped(L)
    <2> SUFFICES ASSUME NEW x \in Swapped(L) PROVE L[x].done
      BY DEF AllSwapped
    <2>1. x \in DOMAIN L /\ \A t \in DOMAIN L : t <= x => L[t].done \/ Ready(L, t)
      BY DEF Swapped
    <2>2. ASSUME NEW t \in DOMAIN G, t <= x PROVE G[t].done \/ Ready(G, t)
      <3>1. CASE t \in DOMAIN L
        <4>1. L[t].done \/ Ready(L, t)  BY <2>1, <2>2, <3>1
        <4> QED  BY <1>1, <1>7, <1>8, <3>1, <4>1
      <3>2. CASE t \notin DOMAIN L
        BY <1>1, <1>8, <3>2
      <3> QED  BY <3>1, <3>2
    <2>3. x \in Swapped(G)  BY <1>1, <2>1, <2>2 DEF Swapped
    <2> QED  BY <1>1, <2>1, <2>3
  <1> QED  BY <1>6, <1>9 DEF fs, L

-----------------------------------------------------------------------------
(* The invariant of progress *)

NInv ==
    /\ Rests(Context, host, session, down)
    /\ NewBuffers(presenter.flights) /\ AllSwapped(presenter.flights)

LEMMA InitNothing ==
    ASSUME Init
    PROVE  NInv
  <1>1. presenter.flights = <<>>  BY DEF Init, NoPresenter
  <1>2. DOMAIN presenter.flights = {}  BY <1>1, NoFlights
  <1> QED  BY <1>2, InitRests DEF NInv, NewBuffers, AllSwapped, Swapped

LEMMA PresentRests ==
    ASSUME IInv, RInv, NInv,
           NEW redraw \in BOOLEAN, NEW valid \in BOOLEAN, NEW video \in {"none", "same", "new"},
           Present(redraw, video, valid)
    PROVE  NInv'
  <1> DEFINE a == presenter'
             b == Context'
  <1>1. /\ Adds(presenter, a) /\ Unused(presenter, a)
        /\ UNCHANGED <<out, up, down, host, session, detaches>>
    BY PresentAdds
  <1>2. PresenterOk(presenter, queue, out, gpu) /\ ChannelOk(Context, host, session, up, down)
    BY DEF IInv
  <1>3. /\ presenter \in PresenterSet /\ Sender(presenter)
        /\ DOMAIN presenter.flights \subseteq 1..presenter.sequence
    BY <1>2 DEF PresenterOk, FlightsOk, Sender
  <1>4. b.presenter = a /\ b.out = out /\ Context.presenter = presenter /\ Context.out = out
    BY <1>1 DEF Context
  <1>5. Runs(Context, host, session, up, down, detaches) /\ Rests(Context, host, session, down)
        /\ NewBuffers(presenter.flights) /\ AllSwapped(presenter.flights)
    BY DEF RInv, NInv
  <1> HIDE DEF a, b
  <1>6. NewBuffers(a.flights) /\ AllSwapped(a.flights)  BY <1>1, <1>3, <1>5, AddedSwaps
  <1>7. Rests(b, host, session, down)
    <2>1. /\ Sender(Context.presenter) /\ b.out = Context.out /\ Adds(Context.presenter, b.presenter)
          /\ DOMAIN Context.presenter.flights \subseteq 1..Context.presenter.sequence
      BY <1>1, <1>3, <1>4
    <2> QED  BY <1>2, <1>5, <2>1, AddedRests
  <1> QED  BY <1>1, <1>6, <1>7 DEF NInv, a, b

LEMMA PresenterGoneRests ==
    ASSUME NInv, NEW fault, Gone(fault)
    PROVE  NInv'
  <1>1. presenter'.flights = <<>>  BY DEF Gone, NoPresenter
  <1>2. DOMAIN presenter'.flights = {}  BY <1>1, NoFlights
  <1>3. Rests(Context, host, session, down)'  BY GoneRests DEF NInv
  <1> QED  BY <1>2, <1>3 DEF NInv, NewBuffers, AllSwapped, Swapped

LEMMA PresenterPollRests ==
    ASSUME IInv, RInv, NInv, NEW n \in Nat, Poll(n)
    PROVE  NInv'
  <1> DEFINE flights == presenter.flights
             got == [s \in DOMAIN flights |-> Apply(flights[s], s, down)]
             swapped == Swapped(got)
             marked == [s \in DOMAIN flights |-> [got[s] EXCEPT !.done = s \in swapped]]
  <1>1. \/ Fail("receive") \/ Fail("reply")
        \/ /\ presenter' = [presenter EXCEPT !.sent = @ + n]
           /\ UNCHANGED <<gpu, out, queue, reads, down, host, session, detaches>>
        \/ /\ down' = <<>>
           /\ presenter' = [presenter EXCEPT
                 !.sent = presenter.sequence,
                 !.flights = RestrictValues(marked, LAMBDA f : ~(f.done /\ f.released = Planes))]
           /\ UNCHANGED <<gpu, out, host, session, detaches>>
    BY Zenon DEF Poll
  <1>2. CASE Fail("receive") \/ Fail("reply")
    BY <1>2, PresenterGoneRests DEF Fail
  <1>3. PresenterOk(presenter, queue, out, gpu) /\ ChannelOk(Context, host, session, up, down)
    BY DEF IInv
  <1>4. Context.presenter = presenter /\ Context.out = out  BY DEF Context
  <1>5. presenter \in PresenterSet /\ down \in Seq(ReplySet) /\ Sender(presenter)
    BY <1>3 DEF PresenterOk, ChannelOk, FlightsOk, Sender
  <1>6. Runs(Context, host, session, up, down, detaches) /\ FlightsTold(presenter)
    BY DEF RInv
  <1>7. Rests(Context, host, session, down) /\ NewBuffers(flights) /\ AllSwapped(flights)
    BY DEF NInv
  <1> DEFINE a == presenter'
             b == Context'
  <1>8. CASE /\ presenter' = [presenter EXCEPT !.sent = @ + n]
             /\ UNCHANGED <<gpu, out, queue, reads, down, host, session, detaches>>
    <2>1. a.flights = flights /\ a.open = presenter.open  BY <1>5, <1>8 DEF PresenterSet
    <2>2. b.presenter = a /\ b.out = out  BY <1>8 DEF Context
    <2> HIDE DEF a, b, flights
    <2>3. (Live(b, host) <=> Live(Context, host)) /\ b.presenter.flights = Context.presenter.flights
      BY <1>4, <2>1, <2>2 DEF Live, flights
    <2>4. Rests(b, host, session, down)  BY <1>7, <2>3 DEF Rests
    <2>5. NewBuffers(a.flights) /\ AllSwapped(a.flights)  BY <1>7, <2>1
    <2> QED  BY <1>8, <2>4, <2>5 DEF NInv, a, b
  <1>9. CASE /\ down' = <<>>
             /\ presenter' = [presenter EXCEPT
                   !.sent = presenter.sequence,
                   !.flights = RestrictValues(marked, LAMBDA f : ~(f.done /\ f.released = Planes))]
             /\ UNCHANGED <<gpu, out, host, session, detaches>>
    <2> DEFINE L == Left(flights, down)
    <2>1. L = RestrictValues(marked, LAMBDA f : ~(f.done /\ f.released = Planes))
      BY Zenon DEF Left, Marked, Got
    <2>2. a = [presenter EXCEPT !.sent = presenter.sequence, !.flights = L]  BY <1>9, <2>1
    <2> HIDE DEF L, got, swapped, marked
    <2>3. a.flights = L /\ a.open = presenter.open
      <3> HIDE DEF a
      <3> QED  BY <1>5, <2>2 DEF PresenterSet
    <2>4. b.presenter = a /\ b.out = out  BY <1>9 DEF Context
    <2>5. NewBuffers(L) /\ AllSwapped(L)  BY <1>5, <1>6, <1>7, LeftSwaps DEF L
    <2> HIDE DEF a, b
    <2>6. /\ b.out = Context.out /\ b.presenter.open = Context.presenter.open
          /\ b.presenter.flights = Left(Context.presenter.flights, down)
          /\ Sender(Context.presenter) /\ FlightsTold(Context.presenter)
      BY <1>4, <1>5, <1>6, <2>3, <2>4 DEF L
    <2>7. Rests(b, host, session, <<>>)  BY <1>3, <1>6, <1>7, <2>6, LeftRests
    <2> QED  BY <1>9, <2>3, <2>5, <2>7 DEF NInv, a, b
  <1> QED  BY <1>1, <1>2, <1>8, <1>9

LEMMA NextRests ==
    ASSUME IInv, RInv, NInv, [Next]_vars
    PROVE  NInv'
  <1>1. /\ ChannelOk(Context, host, session, up, down) /\ Sender(presenter)
        /\ DOMAIN presenter.flights \subseteq 1..presenter.sequence
    BY DEF IInv, PresenterOk, FlightsOk, Sender
  <1>2. Runs(Context, host, session, up, down, detaches)  BY DEF RInv
  <1>3. Rests(Context, host, session, down) /\ NewBuffers(presenter.flights) /\ AllSwapped(presenter.flights)
    BY DEF NInv
  <1>4. ASSUME NEW redraw \in BOOLEAN, NEW valid \in BOOLEAN, NEW video \in {"none", "same", "new"},
               Present(redraw, video, valid)
        PROVE  NInv'
    BY <1>4, PresentRests
  <1>5. ASSUME NEW n \in 0..MaxSwaps, Poll(n) PROVE NInv'
    <2>1. n \in Nat  BY ConstantsAssumption
    <2> QED  BY <1>5, <2>1, PresenterPollRests
  <1>6. CASE PollInvalid \/ PollTimeout \/ DestroyPresenter \/ GpuDies
    <2>1. Gone("none")
      BY <1>6 DEF PollInvalid, PollTimeout, DestroyPresenter, GpuDies, Fail
    <2> QED  BY <2>1, PresenterGoneRests
  <1>7. CASE Connect
    <2>1. presenter'.flights = <<>>  BY <1>7 DEF Connect, NewPresenter, NoPresenter
    <2>2. DOMAIN presenter'.flights = {}  BY <2>1, NoFlights
    <2>3. Rests(Context, host, session, down)'  BY <1>1, <1>3, <1>7, ConnectRests
    <2> QED  BY <2>2, <2>3 DEF NInv, NewBuffers, AllSwapped, Swapped
  <1>8. ASSUME presenter' = presenter, Rests(Context, host, session, down)' PROVE NInv'
    BY <1>3, <1>8 DEF NInv
  <1>9. ASSUME NEW full \in BOOLEAN, Tick(full) PROVE NInv'
    <2>1. presenter' = presenter  BY <1>9 DEF Tick
    <2>2. Rests(Context, host, session, down)'  BY <1>1, <1>2, <1>3, <1>9, TickRests
    <2> QED  BY <1>8, <2>1, <2>2
  <1>10. CASE DetachContent \/ AttachContent
    <2>1. presenter' = presenter  BY <1>10 DEF DetachContent, AttachContent
    <2>2. Rests(Context, host, session, down)'  BY <1>1, <1>3, <1>10, ContentRests
    <2> QED  BY <1>8, <2>1, <2>2
  <1>11. CASE RsApply \/ RsComplete \/ RsReturn
    <2>1. presenter' = presenter  BY <1>11 DEF RsApply, RsComplete, RsReturn, Serve
    <2>2. Rests(Context, host, session, down)'  BY <1>1, <1>2, <1>3, <1>11, ServeRests
    <2> QED  BY <1>8, <2>1, <2>2
  <1>12. CASE UNCHANGED vars
    <2>1. UNCHANGED <<presenter, out, gpu, reads, host, session, down>>  BY <1>12 DEF vars
    <2>2. Context' = Context  BY <2>1 DEF Context
    <2> QED  BY <1>3, <1>8, <2>1, <2>2
  <1> QED  BY <1>4, <1>5, <1>6, <1>7, <1>9, <1>10, <1>11, <1>12 DEF Next
-----------------------------------------------------------------------------
(* A channel with nothing left to do *)

LEMMA CleanupFields ==
    ASSUME NEW a, SessionType(a), NEW n \in 0..3, NEW v, v = [a EXCEPT !.cleanup = n]
    PROVE  SessionType(v) /\ v.state = a.state /\ v.leases = a.leases /\ v.acked = a.acked
  BY DEF SessionType, SessionSet

(* A session that waits sends another transaction; one that drains and was  *)
(* answered, closes; and none of them runs again.                           *)
LEMMA PollAdvances ==
    ASSUME NEW s, SessionType(s), NEW t, t = PollSession(s)
    PROVE  /\ SessionType(t)
           /\ t.acked => s.acked
           /\ s.state = "waiting" => ~t.acked
           /\ s.state = "draining" /\ s.acked /\ s.leases \ Returned(s) = {} => t.state = "closed"
           /\ s.state = "closed" => t.state = "closed"
           /\ s.state # "running" => t.state # "running"
  <1> DEFINE u == Emptied(s)
             v == VideoCleanup(u)
             w == BeginDrain(v)
  <1>1. /\ SessionType(u) /\ u.leases = s.leases \ Returned(s)
        /\ u.state = s.state /\ u.acked = s.acked
        /\ s.state # "closed" => t = FinishDrain(w)
        /\ s.state = "closed" => t = [s EXCEPT !.redundant = {}]
    BY PollStages
  <1>2. SessionType(t)  BY PollPolls DEF Polled
  <1>3. CASE s.state = "closed"
    <2>1. t.acked = s.acked /\ t.state = s.state  BY <1>1, <1>3 DEF SessionType, SessionSet
    <2> QED  BY <1>2, <1>3, <2>1
  <1>4. CASE s.state # "closed"
    <2> HIDE DEF u
    <2>1. /\ SessionType(v) /\ v.state = u.state /\ v.leases = u.leases
          /\ v.acked => u.acked
          /\ u.state = "draining" => v = u
      <3>1. ASSUME NEW c \in {[op |-> "clean"], [op |-> "layer"]}, NEW n \in {2, 3},
                   v = [ConfirmedFlush(u, c) EXCEPT !.cleanup = n]
            PROVE  SessionType(v) /\ v.state = u.state /\ v.leases = u.leases /\ ~v.acked
        <4> DEFINE a == ConfirmedFlush(u, c)
        <4>1. c \in CommandSet  BY DEF CommandSet
        <4>2. SessionType(a) /\ a.leases = u.leases /\ a.state = u.state /\ a.acked = FALSE
          BY <1>1, <4>1, FlushFields
        <4>3. v = [a EXCEPT !.cleanup = n]  BY <3>1
        <4> HIDE DEF a, v
        <4>4. SessionType(v) /\ v.state = a.state /\ v.leases = a.leases /\ v.acked = FALSE
          <5>1. n \in 0..3  OBVIOUS
          <5>2. SessionType(a) /\ a.acked = FALSE  BY <4>2
          <5> QED  BY <4>3, <5>1, <5>2, CleanupFields
        <4> QED  BY <4>2, <4>4 DEF v
      <3>2. \/ v = u
            \/ u.state # "draining" /\ v = [ConfirmedFlush(u, [op |-> "clean"]) EXCEPT !.cleanup = 2]
            \/ u.state # "draining" /\ v = [ConfirmedFlush(u, [op |-> "layer"]) EXCEPT !.cleanup = 3]
            \/ u.state # "draining" /\ v = [u EXCEPT !.cleanup = 0]
        <4>1. CASE u.state = "draining" \/ ~u.acked  BY <4>1 DEF VideoCleanup
        <4>2. CASE ~(u.state = "draining" \/ ~u.acked)  BY <4>2 DEF VideoCleanup
        <4> QED  BY <4>1, <4>2
      <3>3. CASE v = u  BY <1>1, <3>3
      <3>4. CASE u.state # "draining" /\ v = [u EXCEPT !.cleanup = 0]
        <4> HIDE DEF v
        <4>1. SessionType(v) /\ v.state = u.state /\ v.leases = u.leases /\ v.acked = u.acked
          <5>1. SessionType(u) /\ 0 \in 0..3 /\ v = [u EXCEPT !.cleanup = 0]  BY <1>1, <3>4
          <5> QED  BY <5>1, CleanupFields
        <4> QED  BY <3>4, <4>1 DEF v
      <3> HIDE DEF v
      <3>5. CASE /\ u.state # "draining"
                 /\ \E c \in {[op |-> "clean"], [op |-> "layer"]}, n \in {2, 3} :
                       v = [ConfirmedFlush(u, c) EXCEPT !.cleanup = n]
        BY <3>1, <3>5 DEF v
      <3> QED  BY <3>2, <3>3, <3>4, <3>5 DEF v
    <2> HIDE DEF v
    <2>2. /\ SessionType(w) /\ w.leases = v.leases /\ (w.acked => v.acked)
          /\ v.state = "waiting" => ~w.acked
          /\ v.state # "waiting" => w = v
          /\ v.state # "running" => w.state # "running"
      <3> DEFINE c == [op |-> "drain"]
                 a == ConfirmedFlush(v, c)
      <3>1. CASE v.state = "waiting" /\ (v.submitted => v.acked)
        <4>1. w = [a EXCEPT !.state = "draining"]  BY <3>1 DEF BeginDrain, CommandsProcessed
        <4>2. c \in CommandSet  BY DEF CommandSet
        <4> HIDE DEF c
        <4>3. SessionType(a) /\ a.leases = v.leases /\ a.acked = FALSE  BY <2>1, <4>2, FlushFields
        <4> HIDE DEF a, w
        <4>4. SessionType(w) /\ w.leases = v.leases /\ w.acked = FALSE /\ w.state = "draining"
          BY <4>1, <4>3 DEF SessionType, SessionSet
        <4>5. SessionType(w) /\ w.leases = v.leases /\ ~w.acked /\ w.state # "running"  BY <4>4
        <4> QED  BY <3>1, <4>5 DEF w
      <3>2. CASE ~(v.state = "waiting" /\ (v.submitted => v.acked))
        <4>1. w = v  BY <3>2 DEF BeginDrain, CommandsProcessed
        <4>2. v.state = "waiting" => ~v.acked  BY <3>2
        <4> QED  BY <2>1, <4>1, <4>2
      <3> QED  BY <3>1, <3>2
    <2> HIDE DEF w
    <2>3. /\ t.acked = w.acked /\ (w.state # "running" => t.state # "running")
          /\ w.state = "draining" /\ w.leases = {} /\ w.acked => t.state = "closed"
      <3>1. t = FinishDrain(w) /\ w \in SessionSet  BY <1>1, <1>4, <2>2 DEF SessionType
      <3>2. CASE w.state = "draining" /\ w.leases = {} /\ w.acked
        <4>1. t = [w EXCEPT !.state = "closed"]  BY <3>1, <3>2 DEF FinishDrain
        <4>2. t.acked = w.acked /\ t.state = "closed"  BY <3>1, <4>1 DEF SessionSet
        <4> QED  BY <4>2
      <3>3. CASE ~(w.state = "draining" /\ w.leases = {} /\ w.acked)
        <4>1. t = w  BY <3>1, <3>3 DEF FinishDrain
        <4> QED  BY <3>3, <4>1
      <3> QED  BY <3>2, <3>3
    <2> QED  BY <1>1, <1>2, <1>4, <2>1, <2>2, <2>3
  <1> QED  BY <1>3, <1>4

(* What a session that rests still leases.                                  *)
LEMMA SettledLeases ==
    ASSUME NEW s, SessionType(s), SessionRests(s), s.commands = <<>>, Returned(s) = {}, Returnable(s) = {},
           NEW l \in s.leases
    PROVE  /\ l.rs \in {"shown", "replaced"} /\ l.plane \in Planes
           /\ l.plane = 0 => l.rs = "shown"
  <1>1. l.rs \in Wheres /\ l.plane \in Planes  BY DEF SessionType, SessionSet, LeaseSet
  <1>2. l.rs # "staged"  BY DEF SessionRests, Staged, Coming
  <1>3. l.rs # "returned"  BY DEF Returned
  <1>4. l.rs # "cleaned"  BY <1>1 DEF Returnable, On
  <1>5. l.plane = 0 => l.rs # "replaced"  BY DEF Returnable, On
  <1> QED  BY <1>1, <1>2, <1>3, <1>4, <1>5 DEF Wheres

(* A session that is closed does not come to rest before.                   *)
LEMMA ClosingMoves ==
    ASSUME NEW s, SessionType(s), SessionRests(s), s.commands = <<>>, s.acked, Returned(s) = {}, Returnable(s) = {},
           s.state # "closed", PollSession(Close(s)) = s
    PROVE  FALSE
  <1> DEFINE p == Close(s)
             r == [s EXCEPT !.state = "waiting"]
  <1>1. s.state \in {"running", "waiting", "draining", "closed"}  BY DEF SessionType, SessionSet
  <1>2. CASE s.state = "running"
    <2>1. p = PollSession(r)  BY <1>2 DEF Close
    <2>2. SessionType(r) /\ r.state = "waiting"  BY DEF SessionType, SessionSet
    <2> HIDE DEF p, r
    <2>3. SessionType(p) /\ p.state # "running"  BY <2>1, <2>2, PollAdvances
    <2>4. s = PollSession(p)  BY DEF p
    <2>5. s.state # "running"  BY <2>3, <2>4, PollAdvances
    <2> QED  BY <1>2, <2>5
  <1>3. ASSUME s.state \in {"waiting", "draining"} PROVE FALSE
    <2>1. p = PollSession(s)  BY <1>3 DEF Close
    <2>2. s = PollSession(p)  OBVIOUS
    <2> HIDE DEF p
    <2>3. /\ SessionType(p) /\ (s.state = "waiting" => ~p.acked)
          /\ s.state = "draining" /\ s.acked /\ s.leases \ Returned(s) = {} => p.state = "closed"
      BY <2>1, PollAdvances
    <2>4. p.acked /\ p.state # "closed"
      <3>1. (s.acked => p.acked) /\ (p.state = "closed" => s.state = "closed")
        BY <2>2, <2>3, PollAdvances
      <3> QED  BY <3>1
    <2>5. s.state = "draining"  BY <1>3, <2>3, <2>4
    <2>6. s.leases = {}
      <3>1. \A l \in s.leases : l.rs \in Given  BY <2>5 DEF SessionRests, Draining
      <3>2. \A l \in s.leases : l.rs \in {"shown", "replaced"}  BY SettledLeases
      <3> QED  BY <3>1, <3>2 DEF Given
    <2> QED  BY <2>3, <2>4, <2>5, <2>6
  <1> QED  BY <1>1, <1>2, <1>3

(* The stages of the cleanup of a session whose transactions were processed.*)
LEMMA VideoCleans ==
    ASSUME NEW u, u.acked, u.state # "draining", u.cleanup \in 0..3
    PROVE  /\ u.cleanup = 0 => VideoCleanup(u) = u
           /\ u.cleanup = 1 => VideoCleanup(u) = [ConfirmedFlush(u, [op |-> "clean"]) EXCEPT !.cleanup = 2]
           /\ u.cleanup = 2 /\ (\A l \in u.leases : l.plane = 0)
                 => VideoCleanup(u) = [ConfirmedFlush(u, [op |-> "layer"]) EXCEPT !.cleanup = 3]
           /\ u.cleanup = 3 => VideoCleanup(u) = [u EXCEPT !.cleanup = 0]
  <1> DEFINE a == [ConfirmedFlush(u, [op |-> "clean"]) EXCEPT !.cleanup = 2]
             b == [ConfirmedFlush(u, [op |-> "layer"]) EXCEPT !.cleanup = 3]
             e == [u EXCEPT !.cleanup = 0]
             Q == \A l \in u.leases : l.plane = 0
  <1>1. VideoCleanup(u) = CASE u.cleanup = 1 -> a
                            [] u.cleanup = 2 /\ Q -> b
                            [] u.cleanup = 3 -> e
                            [] OTHER -> u
    BY Zenon DEF VideoCleanup
  <1> HIDE DEF a, b, e, Q
  <1>2. /\ u.cleanup = 0 => VideoCleanup(u) = u
        /\ u.cleanup = 1 => VideoCleanup(u) = a
        /\ u.cleanup = 2 /\ Q => VideoCleanup(u) = b
        /\ u.cleanup = 3 => VideoCleanup(u) = e
    BY <1>1
  <1> QED  BY <1>2 DEF a, b, e, Q

(* A session that runs and rests is ready for a frame.                      *)
LEMMA SettledReady ==
    ASSUME NEW s, SessionType(s), SessionRests(s), s.state = "running", s.commands = <<>>, s.acked,
           Returned(s) = {}, Returnable(s) = {}, PollSession(s) = s
    PROVE  ReadyForFrame(s)
  <1> DEFINE u == Emptied(s)
  <1>1. /\ s = VideoCleanup(u) /\ u \in SessionSet /\ u.leases = s.leases \ Returned(s)
        /\ u.state = "running" /\ u.acked = s.acked /\ u.cleanup = s.cleanup /\ u.commands = s.commands
        /\ u.startup <=> s.startup /\ ~s.acked
    BY PollOfRunning
  <1>2. s \in SessionSet /\ s.cleanup \in 0..3  BY DEF SessionType, SessionSet
  <1> HIDE DEF u
  <1>9. u.acked /\ u.state # "draining"  BY <1>1
  <1>10. s = VideoCleanup(u) /\ u.cleanup = s.cleanup  BY <1>1
  <1>11. u.cleanup \in 0..3  BY <1>2, <1>10
  <1>3. s.cleanup # 1
    <2>1. SUFFICES ASSUME s.cleanup = 1 PROVE FALSE  OBVIOUS
    <2>2. s = [ConfirmedFlush(u, [op |-> "clean"]) EXCEPT !.cleanup = 2]
      BY <1>9, <1>10, <1>11, <2>1, VideoCleans
    <2> DEFINE a == ConfirmedFlush(u, [op |-> "clean"])
    <2>3. "cleanup" \in DOMAIN a  BY <1>1 DEF ConfirmedFlush, SessionSet
    <2> HIDE DEF a
    <2>4. s = [a EXCEPT !.cleanup = 2]  BY <2>2 DEF a
    <2>5. s.cleanup = 2  BY <2>3, <2>4
    <2> QED  BY <2>1, <2>5
  <1>4. s.cleanup # 2
    <2>1. SUFFICES ASSUME s.cleanup = 2 PROVE FALSE  OBVIOUS
    <2>2. \A l \in s.leases : l.plane = 1 => l.rs \in Given  BY <2>1 DEF SessionRests, Serving
    <2>3. \A l \in s.leases : l.rs \in {"shown", "replaced"} /\ l.plane \in Planes  BY SettledLeases
    <2>4. \A l \in u.leases : l.plane = 0  BY <1>1, <2>2, <2>3 DEF Given, Planes
    <2>5. s = [ConfirmedFlush(u, [op |-> "layer"]) EXCEPT !.cleanup = 3]
      BY <1>9, <1>10, <1>11, <2>1, <2>4, VideoCleans
    <2> DEFINE a == ConfirmedFlush(u, [op |-> "layer"])
    <2>6. "cleanup" \in DOMAIN a  BY <1>1 DEF ConfirmedFlush, SessionSet
    <2> HIDE DEF a
    <2>7. s = [a EXCEPT !.cleanup = 3]  BY <2>5 DEF a
    <2>8. s.cleanup = 3  BY <2>6, <2>7
    <2> QED  BY <2>1, <2>8
  <1>5. s.cleanup # 3
    <2>1. SUFFICES ASSUME s.cleanup = 3 PROVE FALSE  OBVIOUS
    <2>2. s = [u EXCEPT !.cleanup = 0]  BY <1>9, <1>10, <1>11, <2>1, VideoCleans
    <2>3. s.cleanup = 0  BY <1>1, <2>2 DEF SessionSet
    <2> QED  BY <2>1, <2>3
  <1>6. s.cleanup = 0  BY <1>2, <1>3, <1>4, <1>5
  <1>7. s = u  BY <1>6, <1>9, <1>10, <1>11, VideoCleans
  <1>8. ~s.startup  BY <1>1, <1>7
  <1> QED  BY <1>6, <1>8 DEF ReadyForFrame

LEMMA AtMostOne ==
    ASSUME NEW S, IsFiniteSet(S), \A x, y \in S : x = y
    PROVE  Cardinality(S) \in Nat /\ Cardinality(S) <= 1
  <1>1. CASE S = {}  BY <1>1, FS_EmptySet
  <1>2. CASE S # {}
    <2>1. PICK x : x \in S  BY <1>2
    <2>2. S = {x}  BY <2>1
    <2> QED  BY <2>2, FS_Singleton
  <1> QED  BY <1>1, <1>2

(* The render service keeps one buffer on screen and, of a video, one that  *)
(* was replaced.                                                            *)
LEMMA SettledRoom ==
    ASSUME NEW s, SessionType(s), SessionRests(s), s.commands = <<>>, Returned(s) = {}, Returnable(s) = {},
           \A l, m \in s.leases : Same(l, m) => l = m, NEW i \in Planes
    PROVE  ~Full(s, i)
  <1> DEFINE L == {l \in s.leases : l.plane = i}
             S == {l \in L : l.rs = "shown"}
             R == {l \in L : l.rs = "replaced"}
  <1>1. IsFiniteSet(s.leases) /\ s.leases \subseteq LeaseSet  BY DEF SessionType, SessionSet
  <1>2. IsFiniteSet(S) /\ IsFiniteSet(R)
    <2>1. S \subseteq s.leases /\ R \subseteq s.leases  OBVIOUS
    <2> QED  BY <1>1, <2>1, FS_Subset
  <1>3. L = S \cup R  BY SettledLeases
  <1>4. \A l, m \in S : l = m  BY DEF SessionRests, OneShown
  <1>5. \A l, m \in R : l = m
    <2>1. SUFFICES ASSUME NEW l \in R, NEW m \in R, l.seq # m.seq PROVE FALSE  BY DEF Same
    <2>2. l.seq \in Nat /\ m.seq \in Nat  BY <1>1 DEF LeaseSet
    <2>3. l.plane = 1 /\ m.plane = 1  BY SettledLeases DEF Planes
    <2>4. l \in On(s, {1}, "replaced") /\ m \in On(s, {1}, "replaced")  BY <2>3 DEF On
    <2>5. l.seq > m.seq \/ m.seq > l.seq  BY <2>1, <2>2
    <2> QED  BY <2>4, <2>5 DEF Returnable
  <1>6. Cardinality(L) <= 2
    <2>1. Cardinality(S) \in Nat /\ Cardinality(S) <= 1  BY <1>2, <1>4, AtMostOne
    <2>2. Cardinality(R) \in Nat /\ Cardinality(R) <= 1  BY <1>2, <1>5, AtMostOne
    <2> HIDE DEF S, R, L
    <2>3. /\ IsFiniteSet(S \cup R) /\ IsFiniteSet(S \cap R)
          /\ Cardinality(S \cup R) = Cardinality(S) + Cardinality(R) - Cardinality(S \cap R)
      BY <1>2, FS_Union, FS_Intersection
    <2>4. Cardinality(S \cap R) \in Nat  BY <2>3, FS_CardinalityType
    <2> QED  BY <1>3, <2>1, <2>2, <2>3, <2>4
  <1>7. IsFiniteSet(L)  BY <1>1, FS_Subset
  <1>8. Cardinality(L) \in Nat  BY <1>7, FS_CardinalityType
  <1> HIDE DEF L
  <1>9. ~(Cardinality(L) >= MaxAllocations)
    BY <1>6, <1>8, AllocationsAssumption, ProgressAssumption
  <1> QED  BY <1>9 DEF Full, L

(* A channel with nothing left to do is connected, and its session runs.    *)
LEMMA SettledLive ==
    ASSUME IInv, RInv, NInv, Settled
    PROVE  /\ Live(Context, host) /\ ~host.closing /\ host.active # 0
           /\ session.state = "running" /\ ReadyForFrame(session)
  <1>1. /\ host \in HostSet /\ SessionType(session) /\ HostOk(Context, host, session)
    BY DEF IInv, ChannelOk
  <1>2. SessionRests(session)  BY DEF NInv, Rests
  <1>3. /\ session.commands = <<>> /\ session.acked
        /\ Returned(session) = {} /\ Returnable(session) = {} /\ session.state # "closed"
    BY DEF Settled
  <1>4. ~host.closing
    <2>1. SUFFICES ASSUME host.closing PROVE FALSE  OBVIOUS
    <2>2. PollSession(Close(session)) = session  BY <2>1 DEF Settled
    <2> QED  BY <1>1, <1>2, <1>3, <2>2, ClosingMoves
  <1>5. session.state = "running"  BY <1>4 DEF RInv, Runs, ChannelRuns, HostRuns, SessionRuns
  <1>6. PollSession(session) = session  BY <1>4 DEF Settled
  <1>7. ReadyForFrame(session)  BY <1>1, <1>2, <1>3, <1>5, <1>6, SettledReady
  <1>8. presenter.open /\ out \in {host.active, host.waiting} /\ host.waiting = 0
    BY <1>4 DEF Settled, HostClosed
  <1>9. out > 0 /\ out \in Nat  BY <1>1, <1>8 DEF HostOk, Context, IInv, PresenterOk
  <1>10. host.active = out /\ host.active # 0  BY <1>8, <1>9
  <1> QED  BY <1>4, <1>5, <1>7, <1>8, <1>10 DEF Live, Context

(* It has taken a frame that came.                                          *)
LEMMA SettledTaken ==
    ASSUME IInv, RInv, NInv, Settled
    PROVE  host.pending = None
  <1> DEFINE f == host.pending.frame
             fs == presenter.flights
             n == host.sequence
  <1>1. SUFFICES ASSUME host.pending # None PROVE FALSE  OBVIOUS
  <1>2. /\ Live(Context, host) /\ session.state = "running" /\ ReadyForFrame(session) /\ ~host.closing
    BY SettledLive
  <1>3. /\ host \in HostSet /\ SessionType(session) /\ HostOk(Context, host, session)
        /\ AllHeld(Context, host, session, up) /\ LiveOk(Context, host, session, up, down)
        /\ up \in Seq(MessageSet)
    BY <1>2 DEF IInv, ChannelOk
  <1>4. /\ LiveRuns(Context, host, session, up, down)
    BY <1>2 DEF RInv, Runs, ChannelRuns
  <1>5. SessionRests(session) /\ Knows(fs, host, session, Replies(host, down)) /\ NewBuffers(fs)
    BY <1>2 DEF NInv, Rests, Context
  <1>6. n \in Nat /\ n > 0 /\ f = fs[n].frame
    BY <1>1, <1>3, <1>4 DEF HostSet, LiveRuns, Context
  <1>7. n \in DOMAIN fs
    <2>1. presenter.sent = n + Len(up)  BY <1>3 DEF LiveOk, Context
    <2>2. presenter.sent <= presenter.sequence /\ presenter.sequence \in Nat
      BY DEF IInv, PresenterOk, FlightsOk, PresenterSet
    <2>3. Len(up) \in Nat  BY <1>3, LenProperties
    <2>4. FreshFrames(presenter, n - 1)  BY <1>1, <1>4 DEF LiveRuns, Context, Taken
    <2>5. n \in (n - 1 + 1)..presenter.sequence  BY <1>6, <2>1, <2>2, <2>3
    <2> QED  BY <2>4, <2>5 DEF FreshFrames
  <1>8. SubmitResult(session, f) = "busy"  BY <1>1 DEF Settled
  <1>9. \E i \in DOMAIN f : ~Admissible(session, i, f[i])
    BY <1>2, <1>8, Zenon DEF SubmitResult
  <1>10. PICK i \in DOMAIN f : ~Admissible(session, i, f[i])  BY <1>9
  <1>11. i \in Planes /\ f[i].buf \in Names(i)
    <2>1. f \in FrameSet  BY <1>1, <1>3 DEF HostSet, MessageSet
    <2> HIDE DEF f
    <2>2. DOMAIN f \subseteq Planes /\ f[i] \in PlaneSet(i)  BY <2>1 DEF FrameSet, Planes
    <2> QED  BY <2>2 DEF PlaneSet
  <1>12. ~Full(session, i)
    <2>1. \A l, m \in session.leases : Same(l, m) => l = m  BY <1>3 DEF LiveOk
    <2>2. session.commands = <<>> /\ Returned(session) = {} /\ Returnable(session) = {}
      BY DEF Settled
    <2> QED  BY <1>3, <1>5, <1>11, <2>1, <2>2, SettledRoom
  <1>13. ~f[i].reuse /\ \E l \in session.leases : l.buf = f[i].buf
    BY <1>10, <1>12 DEF Admissible
  <1>14. PICK l \in session.leases : l.buf = f[i].buf  BY <1>13
  <1>15. l.plane = i
    <2>1. l.buf \in Names(l.plane)  BY <1>3 DEF AllHeld, Held
    <2>2. l.plane \in Planes  BY <1>3 DEF SessionType, SessionSet, LeaseSet
    <2>3. l.buf \in Names(i)  BY <1>11, <1>14
    <2> QED  BY <1>11, <2>1, <2>2, <2>3 DEF Names, Planes
  <1>16. /\ l.seq \in DOMAIN fs /\ i \notin fs[l.seq].released
    <2>1. Awaits(fs, Replies(host, down), l)  BY <1>4 DEF LiveRuns, Owed, Context
    <2> QED  BY <1>15, <2>1 DEF Awaits, Rel
  <1>17. i \in DOMAIN fs[l.seq].frame /\ fs[l.seq].frame[i].buf = f[i].buf
    BY <1>5, <1>14, <1>15 DEF Knows, LeasesTrue
  <1>18. l.seq < n  BY <1>1, <1>3 DEF LiveOk
  <1> HIDE DEF f, fs, n
  <1> QED  BY <1>5, <1>6, <1>7, <1>10, <1>13, <1>16, <1>17, <1>18 DEF NewBuffers

(* And it has answered every frame, so that each is swapped.                *)
LEMMA SettledSwapped ==
    ASSUME IInv, RInv, NInv, Settled
    PROVE  Waiting = {}
  <1> DEFINE fs == presenter.flights
             n == host.sequence
  <1>1. host.pending = None  BY SettledTaken
  <1>2. Live(Context, host) /\ session.state = "running" /\ ~host.closing  BY SettledLive
  <1>3. /\ host \in HostSet /\ SessionType(session) /\ LiveOk(Context, host, session, up, down)
    BY <1>2 DEF IInv, ChannelOk
  <1>4. SessionRests(session) /\ Knows(fs, host, session, {}) /\ AllSwapped(fs)
    <2>1. host.outgoing = <<>> /\ down = <<>>  BY DEF Settled
    <2>2. Replies(host, down) = {}  BY <2>1, RangeOfNone DEF Replies
    <2> QED  BY <1>2, <2>2 DEF NInv, Rests, Context
  <1>5. /\ session.commands = <<>> /\ session.redundant = {} /\ host.processed
        /\ Returned(session) = {} /\ Returnable(session) = {}
    BY DEF Settled
  <1>6. Taken(host) = n /\ n \in Nat  BY <1>1, <1>3 DEF Taken, HostSet
  <1>7. \A x \in DOMAIN fs : x \in Nat /\ x <= n
    <2>1. up = <<>>  BY <1>1, <1>2 DEF Settled
    <2>2. presenter.sent = n  BY <1>3, <1>6, <2>1 DEF LiveOk, Context
    <2>3. /\ DOMAIN fs \subseteq 1..presenter.sequence /\ presenter.sequence \in Nat
          /\ presenter.sent <= presenter.sequence
      BY DEF IInv, PresenterOk, FlightsOk, PresenterSet
    <2>4. ~(presenter.sent < presenter.sequence)
      <3>1. (presenter.sent + 1)..presenter.sequence = {}  BY DEF Settled, Unsent
      <3> QED  BY <1>6, <2>2, <2>3, <3>1
    <2> QED  BY <1>6, <2>2, <2>3, <2>4
  <1>8. ASSUME NEW x \in DOMAIN fs PROVE fs[x].processed
    BY <1>4, <1>5, <1>6, <1>7 DEF Knows, Answers, Pro
  <1>9. ASSUME NEW x \in DOMAIN fs, NEW y \in DOMAIN fs, y < x, 0 \notin fs[y].released
        PROVE  fs[y].frame[0].content = fs[x].frame[0].content
    <2>1. PICK l \in session.leases : l.seq = y /\ l.plane = 0
      <3>1. 0 \in Planes  BY DEF Planes
      <3>2. ~Rel(fs[y], {}, y, 0)  BY <1>9 DEF Rel
      <3> QED  BY <1>4, <1>5, <1>6, <1>7, <3>1, <3>2 DEF Knows, Answers
    <2>2. l.rs = "shown"  BY <1>3, <1>4, <1>5, <2>1, SettledLeases
    <2>3. Newest(session, l)  BY <1>5, <2>1, <2>2 DEF Newest, Coming
    <2>4. l.seq <= y /\ l.seq <= x  BY <1>7, <1>9, <2>1
    <2> QED  BY <1>4, <1>6, <1>7, <2>3, <2>4 DEF Knows, Latest
  <1>10. ASSUME NEW x \in DOMAIN fs PROVE fs[x].done
    <2>1. \A y \in DOMAIN fs : Ready(fs, y)  BY <1>8, <1>9 DEF Ready
    <2>2. x \in Swapped(fs)  BY <2>1 DEF Swapped
    <2> QED  BY <1>4, <2>2 DEF AllSwapped
  <1> QED  BY <1>10 DEF Waiting

(* Presenter, host and render service never wait for each other: a frame    *)
(* that the display compositor waits for finds one of them with something   *)
(* to do.                                                                   *)
THEOREM NoStallTheorem == Spec => []NoStall
  <1>1. Init => IInv /\ RInv /\ NInv  BY InitOk, InitRuns, InitNothing
  <1>2. IInv /\ RInv /\ NInv /\ [Next]_vars => IInv' /\ RInv' /\ NInv'
    BY NextOk, NextRuns, NextRests
  <1>3. IInv /\ RInv /\ NInv => NoStall  BY SettledSwapped DEF NoStall
  <1> QED  BY <1>1, <1>2, <1>3, PTL DEF Spec
=============================================================================
