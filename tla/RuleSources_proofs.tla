------------------------ MODULE RuleSources_proofs ------------------------
(***************************************************************************)
(* Proofs about RuleSources: what a source matches with is of its own URL, *)
(* all rules together keep within the limit, a removed source leaves no    *)
(* file, and refreshing goes on.                                           *)
(*                                                                         *)
(* The invariant says where the work of the active source is.  Every piece *)
(* of work whose generation is current belongs to the active source and to *)
(* the URL it has now, and there is exactly one: the download, a task of   *)
(* the worker or a reply.  Until the files are restored there is nothing   *)
(* but the restoring.  A second invariant is about sums: a list that was   *)
(* measured still fits when it is installed, because meanwhile the other   *)
(* sources can only lose rules.                                            *)
(***************************************************************************)
EXTENDS RuleSources, FiniteSetTheorems, SequenceTheorems, TLAPS

Typed ==
    /\ entries \in [Ids -> Entries \cup {None}]
    /\ sys \in [clients : Nat, ready : BOOLEAN, active : Ids \cup {None}, timer : BOOLEAN]
    /\ disk \in [cache : [Ids -> Lists \cup {None}], configs : [Ids -> Configs \cup {None}]]
    /\ used \subseteq Ids /\ crashes \in Nat

(* A source is never due before its next refresh is allowed.                *)
Timing ==
    \A id \in Known :
        /\ entries[id].notBefore <= entries[id].due /\ entries[id].notBefore <= Period
        /\ ~sys.ready => entries[id].notBefore = 0

(* Ids are given out once.                                                  *)
Allotted ==
    /\ \A id \in Ids : entries[id] # None \/ disk.configs[id] # None => id \in used
    /\ ~sys.ready /\ crashes = 0 => used = {}

(* The rules found by Restore, in its reply.                                *)
Found(w) ==
    /\ DOMAIN w.rules \subseteq Known
    /\ \A id \in DOMAIN w.rules : w.rules[id] \in Lists /\ w.rules[id].url = entries[id].url

Booting ==
    ~sys.ready =>
        /\ sys.active = None /\ loader = None /\ ~sys.timer
        /\ \E w : /\ DOMAIN w = DOMAIN RestoreTask /\ w.kind = "restore"
                  /\ \/ tasks = <<w>> /\ replies = <<>>
                     \/ tasks = <<>> /\ replies = <<w>> /\ Found(w)

(* Work that belongs to the active source a and to the URL it has in e, if  *)
(* it is current, and that carries rules of its own URL, if it carries any. *)
Live(a, e) ==
    {w \in Works : /\ w.rules # None => w.rules.url = w.url
                   /\ w.kind # "delete" => w.url \in Urls
                   /\ w.current => /\ w.kind # "delete" /\ w.id = a
                                  /\ e[a] # None /\ w.url = e[a].url}

Dead(q) == \A i \in 1..Len(q) : ~q[i].current
One(q) == \E i \in 1..Len(q) : q[i].current /\ \A j \in 1..Len(q) : j # i => ~q[j].current

(* The current work is in one place.                                        *)
OneOf(ld, ts, rs) ==
    \/ ld # None /\ Dead(ts) /\ Dead(rs)
    \/ ld = None /\ One(ts) /\ Dead(rs)
    \/ ld = None /\ Dead(ts) /\ One(rs)

WorkOK(a, e, ld, ts, rs) ==
    /\ ts \in Seq(Live(a, e)) /\ rs \in Seq(Live(a, e))
    /\ ld # None => ld \in Live(a, e) /\ ld.current
    /\ a # None => OneOf(ld, ts, rs)

Working == sys.ready => WorkOK(sys.active, entries, loader, tasks, replies)

Scheduled ==
    /\ sys.active # None => sys.active \in Enabled(entries) /\ sys.clients > 0
    /\ sys.ready /\ sys.clients > 0 /\ sys.active = None /\ Enabled(entries) # {} => sys.timer
    /\ sys.timer => sys.clients > 0 /\ sys.active = None

(* The writes of a removed source are followed by a deletion.               *)
Deleting(q, id) == \E j \in 1..Len(q) : q[j].id = id /\ q[j].kind = "delete"
Followed(q, id) ==
    \A i \in 1..Len(q) : q[i].id = id /\ q[i].kind = "install"
        => \E j \in 1..Len(q) : j > i /\ q[j].id = id /\ q[j].kind = "delete"
Cleaned ==
    \A id \in Removed :
        /\ Followed(tasks, id)
        /\ disk.cache[id] # None => Deleting(tasks, id) \/ crashes > 0

IInv ==
    /\ Typed /\ Timing /\ Allotted /\ Booting /\ Working /\ Scheduled /\ OwnRules /\ Cleaned

-----------------------------------------------------------------------------
(* Queues of work *)

LEMMA SupersededEach ==
    ASSUME NEW S, NEW q \in Seq(S), NEW id
    PROVE  /\ DOMAIN Superseded(q, id) = 1..Len(q)
           /\ \A i \in 1..Len(q) :
                 Superseded(q, id)[i] = IF q[i].id = id THEN [q[i] EXCEPT !.current = FALSE] ELSE q[i]
  <1>1. DOMAIN q = 1..Len(q)  OBVIOUS
  <1> QED  BY <1>1 DEF Superseded

LEMMA SupersededSeq ==
    ASSUME NEW S, NEW q \in Seq(S), NEW id, NEW T,
           \A i \in 1..Len(q) : Superseded(q, id)[i] \in T
    PROVE  Superseded(q, id) \in Seq(T) /\ Len(Superseded(q, id)) = Len(q)
  <1> DEFINE s == Superseded(q, id)
  <1>1. s = [i \in 1..Len(q) |-> s[i]]  BY SupersededEach DEF Superseded
  <1>2. Len(q) \in Nat  OBVIOUS
  <1> HIDE DEF s
  <1>3. s \in [1..Len(q) -> T]  BY <1>1 DEF s
  <1> QED  BY <1>2, <1>3 DEF s

(* When the active source is superseded no current work is left.            *)
LEMMA SupersededActive ==
    ASSUME NEW a, NEW e, NEW q \in Seq(Live(a, e)), NEW b, NEW f
    PROVE  /\ Superseded(q, a) \in Seq(Live(b, f))
           /\ Dead(Superseded(q, a))
           /\ Len(Superseded(q, a)) = Len(q)
  <1>1. \A i \in 1..Len(q) : q[i] \in Live(a, e)  OBVIOUS
  <1>2. ASSUME NEW i \in 1..Len(q)
        PROVE  Superseded(q, a)[i] \in Live(b, f) /\ ~Superseded(q, a)[i].current
    <2> DEFINE w == q[i]
    <2>1. w \in Live(a, e) /\ Superseded(q, a)[i] = IF w.id = a THEN [w EXCEPT !.current = FALSE] ELSE w
      BY <1>1, SupersededEach
    <2> HIDE DEF w
    <2>2. CASE w.id = a
      BY <2>1, <2>2 DEF Live, Works
    <2>3. CASE w.id # a
      BY <2>1, <2>3 DEF Live, Works
    <2> QED  BY <2>2, <2>3
  <1>3. Superseded(q, a) \in Seq(Live(b, f)) /\ Len(Superseded(q, a)) = Len(q)
    BY <1>2, SupersededSeq
  <1> QED  BY <1>2, <1>3 DEF Dead

(* Work of any other source is not current in the first place.              *)
LEMMA SupersededOther ==
    ASSUME NEW a, NEW e, NEW q \in Seq(Live(a, e)), NEW id, id # a
    PROVE  Superseded(q, id) = q
  <1>1. ASSUME NEW i \in 1..Len(q)
        PROVE  Superseded(q, id)[i] = q[i]
    <2> DEFINE w == q[i]
    <2>1. w \in Live(a, e) /\ Superseded(q, id)[i] = IF w.id = id THEN [w EXCEPT !.current = FALSE] ELSE w
      BY SupersededEach
    <2> HIDE DEF w
    <2>2. CASE w.id = id
      <3>1. w \in Works /\ ~w.current  BY <2>1, <2>2 DEF Live
      <3>2. w.current = FALSE  BY <3>1 DEF Works
      <3>3. [w EXCEPT !.current = FALSE] = w  BY <3>1, <3>2 DEF Works
      <3> QED  BY <2>1, <2>2, <3>3 DEF w
    <2>3. CASE w.id # id
      BY <2>1, <2>3 DEF w
    <2> QED  BY <2>2, <2>3
  <1>2. Superseded(q, id) = [i \in 1..Len(q) |-> Superseded(q, id)[i]]
    BY SupersededEach DEF Superseded
  <1>3. q = [i \in 1..Len(q) |-> q[i]]  OBVIOUS
  <1> QED  BY <1>1, <1>2, <1>3

(* Without an active source no work is current.                             *)
LEMMA NoneActive ==
    ASSUME NEW e, NEW f, NEW b, NEW q \in Seq(Live(None, e))
    PROVE  /\ Dead(q) /\ q \in Seq(Live(b, f))
           /\ \A w \in Live(None, e) : ~w.current
  <1>1. \A w \in Live(None, e) : ~w.current /\ w \in Live(b, f)
    BY NoneAssumption DEF Live, Works
  <1>2. \A i \in 1..Len(q) : q[i] \in Live(None, e)  OBVIOUS
  <1>3. Live(None, e) \subseteq Live(b, f)  BY <1>1
  <1>4. Dead(q)  BY <1>1, <1>2 DEF Dead
  <1> QED  BY <1>1, <1>3, <1>4

LEMMA DeadLive ==
    ASSUME NEW a, NEW e, NEW b, NEW f, NEW q \in Seq(Live(a, e)), Dead(q)
    PROVE  q \in Seq(Live(b, f))
  <1>1. \A i \in 1..Len(q) : q[i] \in Live(b, f)
    BY DEF Dead, Live
  <1> QED  BY <1>1

LEMMA TailWork ==
    ASSUME NEW S, NEW q \in Seq(S), q # <<>>
    PROVE  /\ Tail(q) \in Seq(S) /\ Head(q) \in S /\ Head(q) = q[1]
           /\ Dead(q) => Dead(Tail(q)) /\ ~Head(q).current
           /\ One(q) /\ Head(q).current => Dead(Tail(q))
           /\ One(q) /\ ~Head(q).current => One(Tail(q))
  <1>1. /\ Tail(q) \in Seq(S) /\ Head(q) \in S /\ Head(q) = q[1]
        /\ Len(q) \in Nat /\ Len(q) > 0 /\ Len(Tail(q)) = Len(q) - 1
    OBVIOUS
  <1>2. \A i \in 1..Len(Tail(q)) : Tail(q)[i] = q[i + 1] /\ i + 1 \in 1..Len(q)  BY <1>1
  <1>3. Dead(q) => Dead(Tail(q)) /\ ~Head(q).current  BY <1>1, <1>2 DEF Dead
  <1>4. ASSUME One(q), Head(q).current
        PROVE  Dead(Tail(q))
    BY <1>1, <1>2, <1>4 DEF Dead, One
  <1>5. ASSUME One(q), ~Head(q).current
        PROVE  One(Tail(q))
    <2>1. PICK i \in 1..Len(q) : q[i].current /\ \A j \in 1..Len(q) : j # i => ~q[j].current
      BY <1>5 DEF One
    <2>2. i # 1  BY <1>1, <1>5, <2>1
    <2>3. i - 1 \in 1..Len(Tail(q)) /\ Tail(q)[i - 1] = q[i]
      BY <1>1, <1>2, <2>2
    <2>4. \A j \in 1..Len(Tail(q)) : j # i - 1 => ~Tail(q)[j].current
      BY <1>1, <1>2, <2>1
    <2> QED  BY <2>1, <2>3, <2>4 DEF One
  <1> QED  BY <1>1, <1>3, <1>4, <1>5

LEMMA AppendWork ==
    ASSUME NEW S, NEW q \in Seq(S), NEW w \in S
    PROVE  /\ Append(q, w) \in Seq(S)
           /\ Dead(q) /\ w.current => One(Append(q, w))
           /\ Dead(q) /\ ~w.current => Dead(Append(q, w))
           /\ One(q) /\ ~w.current => One(Append(q, w))
  <1> DEFINE p == Append(q, w)
  <1>1. /\ p \in Seq(S) /\ Len(q) \in Nat /\ Len(p) = Len(q) + 1
        /\ p[Len(p)] = w /\ \A i \in 1..Len(q) : p[i] = q[i]
    OBVIOUS
  <1> HIDE DEF p
  <1>2. ASSUME Dead(q), w.current
        PROVE  One(p)
    <2>1. Len(p) \in 1..Len(p) /\ p[Len(p)].current  BY <1>1, <1>2
    <2>2. \A j \in 1..Len(p) : j # Len(p) => ~p[j].current  BY <1>1, <1>2 DEF Dead
    <2> QED  BY <2>1, <2>2 DEF One
  <1>3. ASSUME Dead(q), ~w.current
        PROVE  Dead(p)
    <2> SUFFICES ASSUME NEW j \in 1..Len(p) PROVE ~p[j].current
      BY DEF Dead
    <2>1. CASE j = Len(p)  BY <1>1, <1>3, <2>1
    <2>2. CASE j # Len(p)
      <3>1. j \in 1..Len(q)  BY <1>1, <2>2
      <3> QED  BY <1>1, <1>3, <3>1 DEF Dead
    <2> QED  BY <2>1, <2>2
  <1>4. ASSUME One(q), ~w.current
        PROVE  One(p)
    <2>1. PICK i \in 1..Len(q) : q[i].current /\ \A j \in 1..Len(q) : j # i => ~q[j].current
      BY <1>4 DEF One
    <2>2. i \in 1..Len(p) /\ p[i].current  BY <1>1, <2>1
    <2>3. ASSUME NEW j \in 1..Len(p), j # i PROVE ~p[j].current
      <3>1. CASE j = Len(p)  BY <1>1, <1>4, <3>1
      <3>2. CASE j # Len(p)
        <4>1. j \in 1..Len(q)  BY <1>1, <3>2
        <4> QED  BY <1>1, <2>1, <2>3, <4>1
      <3> QED  BY <3>1, <3>2
    <2> QED  BY <2>2, <2>3 DEF One
  <1> QED  BY <1>1, <1>2, <1>3, <1>4 DEF p

(* Tail, Append and the writes and deletions of a source.                   *)
LEMMA TailCleans ==
    ASSUME NEW S, NEW q \in Seq(S), q # <<>>, NEW id
    PROVE  /\ Followed(q, id) => Followed(Tail(q), id)
           /\ Followed(q, id) /\ Head(q).id = id /\ Head(q).kind = "install"
              => Deleting(Tail(q), id)
           /\ Deleting(q, id) /\ (Head(q).id # id \/ Head(q).kind # "delete")
              => Deleting(Tail(q), id)
  <1> DEFINE p == Tail(q)
  <1>1. /\ Head(q) = q[1] /\ Len(q) \in Nat /\ Len(q) > 0 /\ Len(p) = Len(q) - 1
        /\ \A i \in 1..Len(p) : p[i] = q[i + 1]
    OBVIOUS
  <1> HIDE DEF p
  <1>2. ASSUME NEW j \in 1..Len(q), j > 1
        PROVE  j - 1 \in 1..Len(p) /\ p[j - 1] = q[j]
    BY <1>1, <1>2
  <1>3. ASSUME Followed(q, id)
        PROVE  Followed(p, id)
    <2> SUFFICES ASSUME NEW i \in 1..Len(p), p[i].id = id, p[i].kind = "install"
                 PROVE  \E j \in 1..Len(p) : j > i /\ p[j].id = id /\ p[j].kind = "delete"
      BY DEF Followed
    <2>1. i + 1 \in 1..Len(q) /\ q[i + 1] = p[i]  BY <1>1
    <2>2. PICK j \in 1..Len(q) : j > i + 1 /\ q[j].id = id /\ q[j].kind = "delete"
      BY <1>3, <2>1 DEF Followed
    <2>3. j - 1 \in 1..Len(p) /\ p[j - 1] = q[j] /\ j - 1 > i  BY <1>2, <2>2
    <2> QED  BY <2>2, <2>3
  <1>4. ASSUME Followed(q, id), Head(q).id = id, Head(q).kind = "install"
        PROVE  Deleting(p, id)
    <2>1. PICK j \in 1..Len(q) : j > 1 /\ q[j].id = id /\ q[j].kind = "delete"
      BY <1>1, <1>4 DEF Followed
    <2> QED  BY <1>2, <2>1 DEF Deleting
  <1>5. ASSUME Deleting(q, id), Head(q).id # id \/ Head(q).kind # "delete"
        PROVE  Deleting(p, id)
    <2>1. PICK j \in 1..Len(q) : q[j].id = id /\ q[j].kind = "delete"
      BY <1>5 DEF Deleting
    <2>2. j > 1  BY <1>1, <1>5, <2>1
    <2> QED  BY <1>2, <2>1, <2>2 DEF Deleting
  <1> QED  BY <1>3, <1>4, <1>5 DEF p

LEMMA AppendCleans ==
    ASSUME NEW S, NEW q \in Seq(S), NEW w, NEW id
    PROVE  /\ Deleting(q, id) => Deleting(Append(q, w), id)
           /\ Followed(q, id) /\ (w.id # id \/ w.kind # "install") => Followed(Append(q, w), id)
           /\ w.id = id /\ w.kind = "delete"
              => Deleting(Append(q, w), id) /\ Followed(Append(q, w), id)
  <1> DEFINE p == Append(q, w)
  <1>1. /\ Len(q) \in Nat /\ Len(p) = Len(q) + 1
        /\ p[Len(p)] = w /\ \A i \in 1..Len(q) : p[i] = q[i] /\ i \in 1..Len(p)
        /\ Len(p) \in 1..Len(p)
    OBVIOUS
  <1> HIDE DEF p
  <1>2. ASSUME Deleting(q, id)
        PROVE  Deleting(p, id)
    BY <1>1, <1>2 DEF Deleting
  <1>3. ASSUME Followed(q, id), w.id # id \/ w.kind # "install"
        PROVE  Followed(p, id)
    <2> SUFFICES ASSUME NEW i \in 1..Len(p), p[i].id = id, p[i].kind = "install"
                 PROVE  \E j \in 1..Len(p) : j > i /\ p[j].id = id /\ p[j].kind = "delete"
      BY DEF Followed
    <2>1. i # Len(p)  BY <1>1, <1>3
    <2>2. i \in 1..Len(q) /\ q[i] = p[i]  BY <1>1, <2>1
    <2>3. PICK j \in 1..Len(q) : j > i /\ q[j].id = id /\ q[j].kind = "delete"
      BY <1>3, <2>2 DEF Followed
    <2> QED  BY <1>1, <2>3
  <1>4. ASSUME w.id = id, w.kind = "delete"
        PROVE  Deleting(p, id) /\ Followed(p, id)
    <2>1. Deleting(p, id)  BY <1>1, <1>4 DEF Deleting
    <2>2. ASSUME NEW i \in 1..Len(p), p[i].id = id, p[i].kind = "install"
          PROVE  \E j \in 1..Len(p) : j > i /\ p[j].id = id /\ p[j].kind = "delete"
      <3>1. i # Len(p)  BY <1>1, <1>4, <2>2
      <3>2. Len(p) > i  BY <1>1, <3>1
      <3> QED  BY <1>1, <1>4, <3>2
    <2> QED  BY <2>1, <2>2 DEF Followed
  <1> QED  BY <1>2, <1>3, <1>4 DEF p

LEMMA SupersededCleans ==
    ASSUME NEW S, NEW q \in Seq(S), NEW a, NEW id,
           \A w \in S : w \in Works
    PROVE  /\ Followed(Superseded(q, a), id) <=> Followed(q, id)
           /\ Deleting(Superseded(q, a), id) <=> Deleting(q, id)
  <1> DEFINE s == Superseded(q, a)
  <1>1. ASSUME NEW i \in 1..Len(q)
        PROVE  s[i].id = q[i].id /\ s[i].kind = q[i].kind /\ s[i] \in Works
    <2> DEFINE w == q[i]
    <2>1. w \in Works /\ s[i] = IF w.id = a THEN [w EXCEPT !.current = FALSE] ELSE w
      BY SupersededEach
    <2> HIDE DEF w, s
    <2>2. s[i].id = w.id /\ s[i].kind = w.kind /\ s[i] \in Works  BY <2>1, ZenonT(40) DEF Works
    <2> QED  BY <2>2 DEF w
  <1>2. Len(s) = Len(q)  BY <1>1, SupersededSeq
  <1> HIDE DEF s
  <1>3. Followed(s, id) <=> Followed(q, id)  BY <1>1, <1>2, SMTT(30) DEF Followed
  <1>4. Deleting(s, id) <=> Deleting(q, id)  BY <1>1, <1>2 DEF Deleting
  <1> QED  BY <1>3, <1>4 DEF s

LEMMA ConcatDeletes ==
    ASSUME NEW S, NEW q \in Seq(S), NEW id \in Ids, Delete(id) \in S,
           NEW d \in {<<>>, <<Delete(id)>>, <<Delete(id), Delete(id)>>}
    PROVE  /\ q \o d \in Seq(S)
           /\ Dead(q) => Dead(q \o d)
           /\ One(q) => One(q \o d)
           /\ \A x : /\ Deleting(q, x) => Deleting(q \o d, x)
                     /\ Followed(q, x) => Followed(q \o d, x)
           /\ d # <<>> => Deleting(q \o d, id) /\ Followed(q \o d, id)
  <1> DEFINE w == Delete(id)
  <1> DEFINE p == Append(q, w)
  <1>1. w \in S /\ ~w.current /\ w.id = id /\ w.kind = "delete"  BY DEF Delete
  <1> HIDE DEF w
  <1>2. /\ p \in Seq(S) /\ (Dead(q) => Dead(p)) /\ (One(q) => One(p))
        /\ \A x : (Deleting(q, x) => Deleting(p, x)) /\ (Followed(q, x) => Followed(p, x))
        /\ Deleting(p, id) /\ Followed(p, id)
    BY <1>1, AppendWork, AppendCleans
  <1>3. q \o <<>> = q /\ q \o <<w>> = p /\ q \o <<w, w>> = Append(p, w)
    BY <1>1
  <1> HIDE DEF p
  <1>4. /\ Append(p, w) \in Seq(S) /\ (Dead(p) => Dead(Append(p, w))) /\ (One(p) => One(Append(p, w)))
        /\ \A x : /\ Deleting(p, x) => Deleting(Append(p, w), x)
                  /\ Followed(p, x) => Followed(Append(p, w), x)
    BY <1>1, <1>2, AppendWork, AppendCleans
  <1>5. CASE d = <<>>  BY <1>3, <1>5
  <1>6. CASE d = <<w>>  BY <1>2, <1>3, <1>6
  <1>7. CASE d = <<w, w>>  BY <1>2, <1>3, <1>4, <1>7
  <1> QED  BY <1>5, <1>6, <1>7 DEF w

-----------------------------------------------------------------------------
(* The operators that the handlers share *)

Systems == [clients : Nat, ready : BOOLEAN, active : Ids \cup {None}, timer : BOOLEAN]

LEMMA ScheduleKeeps ==
    ASSUME NEW s \in Systems, NEW e
    PROVE  /\ Schedule(s, e) \in Systems
           /\ Schedule(s, e).clients = s.clients /\ Schedule(s, e).active = s.active
           /\ Schedule(s, e).ready <=> s.ready
           /\ Schedule(s, e).timer <=>
                 s.ready /\ s.clients > 0 /\ s.active = None /\ Enabled(e) # {}
  BY DEF Schedule, Systems

(* The sources and their URLs are the same in e and f.                      *)
SameSources(e, f) ==
    \A x \in Ids : (f[x] = None <=> e[x] = None) /\ f[x].url = e[x].url

LEMMA SameLive ==
    ASSUME NEW e, NEW f, SameSources(e, f), NEW a \in Ids
    PROVE  Live(a, e) = Live(a, f)
  BY DEF SameSources, Live

(* Outside of restoring there is no work to restore, and the reverse.       *)
LEMMA WorkerReady ==
    ASSUME IInv, tasks # <<>>
    PROVE  /\ Head(tasks).kind # "restore" => sys.ready
           /\ sys.ready => Head(tasks) \in Live(sys.active, entries)
                           /\ Head(tasks).kind # "restore"
  <1>1. sys.ready => Head(tasks) \in Live(sys.active, entries)
    <2>1. sys.ready => tasks \in Seq(Live(sys.active, entries))  BY DEF IInv, Working, WorkOK
    <2> QED  BY <2>1
  <1>2. ASSUME ~sys.ready PROVE Head(tasks).kind = "restore"
    <2>1. tasks[1].kind = "restore"  BY <1>2 DEF IInv, Booting
    <2> QED  BY <2>1
  <1> QED  BY <1>1, <1>2 DEF Live, Works

LEMMA ReplyReady ==
    ASSUME IInv, replies # <<>>
    PROVE  /\ Head(replies).kind # "restore" => sys.ready
           /\ sys.ready => Head(replies) \in Live(sys.active, entries)
                           /\ Head(replies).kind # "restore"
  <1>1. sys.ready => Head(replies) \in Live(sys.active, entries)
    <2>1. sys.ready => replies \in Seq(Live(sys.active, entries))  BY DEF IInv, Working, WorkOK
    <2> QED  BY <2>1
  <1>2. ASSUME ~sys.ready PROVE Head(replies).kind = "restore"
    <2>1. replies[1].kind = "restore"  BY <1>2 DEF IInv, Booting
    <2> QED  BY <2>1
  <1> QED  BY <1>1, <1>2 DEF Live, Works

-----------------------------------------------------------------------------
(* The invariant holds initially, and each action keeps it *)

LEMMA InitInv == Init => IInv
  <1> SUFFICES ASSUME Init PROVE IInv  OBVIOUS
  <1>1. Typed  BY DEF Init, Typed
  <1>2. Known = {} /\ ~sys.ready /\ Enabled(entries) = {}  BY DEF Init, Known, Enabled
  <1>3. Timing /\ OwnRules /\ Working /\ Scheduled
    BY <1>2 DEF Init, Timing, OwnRules, Working, Scheduled
  <1>4. Allotted  BY DEF Init, Allotted
  <1>5. Booting  BY DEF Init, Booting, RestoreTask
  <1>6. Cleaned  BY <1>2 DEF Cleaned, Removed
  <1> QED  BY <1>1, <1>3, <1>4, <1>5, <1>6 DEF IInv

LEMMA CommitInv == IInv /\ CommitPendingWrite => IInv'
  <1> SUFFICES ASSUME IInv, CommitPendingWrite PROVE IInv'  OBVIOUS
  <1> USE DEF CommitPendingWrite
  <1>1. disk' = [disk EXCEPT !.configs = [id \in Ids |-> Config(entries[id])]]
    OBVIOUS
  <1>2. \A id \in Ids : Config(entries[id]) \in Configs \cup {None}
                        /\ (Config(entries[id]) # None => entries[id] # None)
    BY DEF IInv, Typed, Config, Configs, Entries
  <1>3. disk'.cache = disk.cache /\ \A id \in Ids : disk'.configs[id] = Config(entries[id])
    BY <1>1 DEF IInv, Typed
  <1>4. Typed'  BY <1>1, <1>2 DEF IInv, Typed
  <1>5. Allotted'  BY <1>2, <1>3 DEF IInv, Allotted
  <1>6. Timing' /\ OwnRules' /\ Scheduled'
    BY DEF IInv, Timing, OwnRules, Scheduled, Known
  <1>7. Booting' /\ Working'  BY DEF IInv, Booting, Working, Found, Known
  <1>8. Cleaned'  BY <1>3 DEF IInv, Cleaned, Removed
  <1> QED  BY <1>4, <1>5, <1>6, <1>7, <1>8 DEF IInv

LEMMA CrashInv == IInv /\ Crash => IInv'
  <1> SUFFICES ASSUME IInv, Crash PROVE IInv'  OBVIOUS
  <1> DEFINE c == disk.configs
  <1>1. /\ entries' = [id \in Ids |-> IF c[id] = None THEN None ELSE NewEntry(c[id])]
        /\ sys' = [clients |-> 0, ready |-> FALSE, active |-> None, timer |-> FALSE]
        /\ loader' = None /\ tasks' = <<RestoreTask>> /\ replies' = <<>>
        /\ disk' = disk /\ used' = used /\ crashes' = crashes + 1
    BY DEF Crash, Start
  <1>2. c \in [Ids -> Configs \cup {None}]  BY DEF IInv, Typed
  <1> HIDE DEF c
  <1>3. \A id \in Ids : c[id] # None =>
           /\ NewEntry(c[id]) \in Entries /\ NewEntry(c[id]).notBefore = 0
           /\ NewEntry(c[id]).due >= 0 /\ NewEntry(c[id]).rules = None
    BY <1>2, DelaysAssumption, NoneAssumption DEF NewEntry, Entries, Configs
  <1>4. \A id \in Ids : entries'[id] # None => entries'[id] = NewEntry(c[id]) /\ c[id] # None
    BY <1>1
  <1>5. Typed'  BY <1>1, <1>3 DEF IInv, Typed
  <1>6. Timing' /\ OwnRules'
    BY <1>3, <1>4, DelaysAssumption DEF Timing, OwnRules, Known
  <1>7. Allotted'  BY <1>1, <1>4 DEF IInv, Typed, Allotted, c
  <1>8. Booting'  BY <1>1 DEF Booting, RestoreTask
  <1>9. Working' /\ Scheduled' /\ Cleaned'
    BY <1>1 DEF Working, Scheduled, Cleaned, Removed
  <1> QED  BY <1>5, <1>6, <1>7, <1>8, <1>9 DEF IInv

LEMMA TimeInv == IInv /\ TimePasses => IInv'
  <1> SUFFICES ASSUME IInv, TimePasses PROVE IInv'  OBVIOUS
  <1> DEFINE older(x) == [x EXCEPT !.due = Larger(@ - 1, 0), !.notBefore = Larger(@ - 1, 0)]
  <1>1. /\ entries' = [id \in Ids |-> IF entries[id] = None THEN None ELSE older(entries[id])]
        /\ UNCHANGED <<sys, loader, tasks, replies, disk, used, crashes>>
    BY DEF TimePasses
  <1>2. ASSUME NEW x \in Entries
        PROVE  /\ older(x) \in Entries /\ older(x).url = x.url /\ older(x).rules = x.rules
               /\ older(x).enabled <=> x.enabled
               /\ x.notBefore <= x.due => older(x).notBefore <= older(x).due
               /\ older(x).notBefore <= x.notBefore
    <2>1. \A n \in Nat : Larger(n - 1, 0) \in Nat /\ Larger(n - 1, 0) <= n
      BY DEF Larger
    <2>2. \A n, m \in Nat : n <= m => Larger(n - 1, 0) <= Larger(m - 1, 0)
      BY DEF Larger
    <2>3. /\ x.due \in Nat /\ x.notBefore \in Nat
          /\ older(x).due = Larger(x.due - 1, 0) /\ older(x).notBefore = Larger(x.notBefore - 1, 0)
          /\ older(x).url = x.url /\ older(x).rules = x.rules /\ (older(x).enabled <=> x.enabled)
      BY DEF Entries
    <2>4. older(x) \in Entries  BY <2>1, <2>3 DEF Entries
    <2> QED  BY <2>1, <2>2, <2>3, <2>4
  <1> HIDE DEF older
  <1>3. \A id \in Ids : entries[id] # None => entries[id] \in Entries  BY DEF IInv, Typed
  <1>4. \A id \in Ids : /\ entries[id] = None => entries'[id] = None
                        /\ entries[id] # None => entries'[id] = older(entries[id]) /\ entries'[id] # None
    BY <1>1, <1>2, <1>3, NoneAssumption
  <1>5. SameSources(entries, entries')
    BY <1>2, <1>3, <1>4 DEF SameSources
  <1>6. Known' = Known /\ Enabled(entries') = Enabled(entries)
    BY <1>2, <1>3, <1>4 DEF Known, Enabled
  <1>7. Typed'  BY <1>1, <1>2, <1>3 DEF IInv, Typed
  <1>8. Timing'
    <2>1. SUFFICES ASSUME NEW id \in Known
                   PROVE  /\ entries'[id].notBefore <= entries'[id].due
                          /\ entries'[id].notBefore <= Period
                          /\ ~sys.ready => entries'[id].notBefore = 0
      BY <1>1, <1>6 DEF Timing
    <2> DEFINE x == entries[id]
    <2>2. x \in Entries /\ entries'[id] = older(x)  BY <1>3, <1>4 DEF Known
    <2>3. x.notBefore <= x.due /\ x.notBefore <= Period /\ (~sys.ready => x.notBefore = 0)
      BY DEF IInv, Timing
    <2> HIDE DEF x
    <2>4. x.notBefore \in Nat /\ older(x).notBefore \in Nat  BY <1>2, <2>2 DEF Entries
    <2> QED  BY <1>2, <2>2, <2>3, <2>4, DelaysAssumption
  <1>9. OwnRules'  BY <1>2, <1>3, <1>4, <1>6 DEF IInv, OwnRules, Known
  <1>10. Allotted'  BY <1>1, <1>4 DEF IInv, Allotted
  <1>11. Booting'
    BY <1>1, <1>5, <1>6 DEF IInv, Booting, Found, SameSources, Known
  <1>12. Working'
    <2>1. CASE sys.active = None
      <3> SUFFICES ASSUME sys.ready PROVE Working'
        BY <1>1 DEF Working
      <3>1. WorkOK(None, entries, loader, tasks, replies)  BY <2>1 DEF IInv, Working
      <3>2. loader = None
        BY <3>1, NoneActive DEF WorkOK
      <3>3. tasks \in Seq(Live(None, entries')) /\ replies \in Seq(Live(None, entries'))
        BY <3>1, NoneActive DEF WorkOK
      <3> QED  BY <1>1, <2>1, <3>2, <3>3 DEF Working, WorkOK
    <2>2. CASE sys.active # None
      <3>1. Live(sys.active, entries) = Live(sys.active, entries')
        BY <1>5, <2>2, SameLive DEF IInv, Typed
      <3> QED  BY <1>1, <3>1 DEF IInv, Working, WorkOK
    <2> QED  BY <2>1, <2>2
  <1>13. Scheduled'  BY <1>1, <1>6 DEF IInv, Scheduled
  <1>14. Cleaned'  BY <1>1, <1>4 DEF IInv, Typed, Cleaned, Removed
  <1> QED  BY <1>7, <1>8, <1>9, <1>10, <1>11, <1>12, <1>13, <1>14 DEF IInv

LEMMA AcquireInv == IInv /\ Acquire => IInv'
  <1> SUFFICES ASSUME IInv, Acquire PROVE IInv'  OBVIOUS
  <1> DEFINE s == [sys EXCEPT !.clients = @ + 1]
  <1>1. sys' = Schedule(s, entries) /\ UNCHANGED <<entries, loader, tasks, replies, disk, used, crashes>>
    BY DEF Acquire
  <1>2. /\ s \in Systems /\ s.clients = sys.clients + 1 /\ s.active = sys.active
        /\ s.ready <=> sys.ready
    BY DEF IInv, Typed, Systems
  <1> HIDE DEF s
  <1>3. /\ sys' \in Systems /\ sys'.clients = sys.clients + 1 /\ sys'.active = sys.active
        /\ sys'.ready <=> sys.ready
        /\ sys'.timer <=> s.ready /\ s.clients > 0 /\ s.active = None /\ Enabled(entries) # {}
    BY <1>1, <1>2, ScheduleKeeps
  <1>4. sys.clients \in Nat  BY DEF IInv, Typed
  <1>5. Typed'  BY <1>1, <1>3 DEF IInv, Typed, Systems
  <1>6. Timing' /\ OwnRules' /\ Allotted'
    BY <1>1, <1>3 DEF IInv, Timing, OwnRules, Known, Allotted
  <1>7. Booting'  BY <1>1, <1>2, <1>3 DEF IInv, Booting, Found, Known
  <1>8. Working'  BY <1>1, <1>3 DEF IInv, Working
  <1>9. Scheduled'  BY <1>1, <1>2, <1>3, <1>4 DEF IInv, Scheduled
  <1>10. Cleaned'  BY <1>1, <1>3 DEF IInv, Cleaned, Removed
  <1> QED  BY <1>5, <1>6, <1>7, <1>8, <1>9, <1>10 DEF IInv

LEMMA SupersededShort ==
    ASSUME NEW w, NEW id, DOMAIN w = DOMAIN RestoreTask
    PROVE  /\ Superseded(<<>>, id) = <<>>
           /\ \E v : /\ Superseded(<<w>>, id) = <<v>> /\ DOMAIN v = DOMAIN w
                     /\ v.kind = w.kind /\ v.rules = w.rules
  <1> DEFINE v == IF w.id = id THEN [w EXCEPT !.current = FALSE] ELSE w
  <1>1. Superseded(<<>>, id) = <<>>  BY DEF Superseded
  <1>2. "kind" \in DOMAIN w /\ "rules" \in DOMAIN w  BY DEF RestoreTask
  <1>3. DOMAIN v = DOMAIN w /\ v.kind = w.kind /\ v.rules = w.rules  BY <1>2
  <1> DEFINE q == <<w>>
  <1>4. q \in Seq({w}) /\ Len(q) = 1 /\ q[1] = w  OBVIOUS
  <1> HIDE DEF q
  <1>5. DOMAIN Superseded(q, id) = 1..1  BY <1>4, SupersededEach
  <1>6. Superseded(q, id)[1] = v
    <2>1. \A i \in 1..Len(q) :
             Superseded(q, id)[i] = IF q[i].id = id THEN [q[i] EXCEPT !.current = FALSE] ELSE q[i]
      BY <1>4, SupersededEach
    <2>2. 1 \in 1..Len(q)  BY <1>4
    <2>3. Superseded(q, id)[1] = IF q[1].id = id THEN [q[1] EXCEPT !.current = FALSE] ELSE q[1]
      BY <2>1, <2>2
    <2> QED  BY <1>4, <2>3, Zenon
  <1>7. Superseded(q, id) = [i \in 1..1 |-> Superseded(q, id)[i]]
    BY <1>4, <1>5 DEF Superseded
  <1> HIDE DEF v
  <1>8. Superseded(q, id) = <<v>>  BY <1>6, <1>7
  <1> QED  BY <1>1, <1>3, <1>8 DEF q

LEMMA ReleaseInv == IInv /\ Release => IInv'
  <1> SUFFICES ASSUME IInv, Release PROVE IInv'  OBVIOUS
  <1>1. UNCHANGED <<entries, disk, used, crashes>> /\ sys.clients > 0  BY DEF Release
  <1>2. sys \in Systems  BY DEF IInv, Typed, Systems
  <1>3. CASE /\ sys.clients > 1 /\ sys' = [sys EXCEPT !.clients = @ - 1]
             /\ UNCHANGED <<loader, tasks, replies>>
    <2>1. /\ sys' \in Systems /\ sys'.clients > 0 /\ sys'.active = sys.active
          /\ (sys'.ready <=> sys.ready) /\ (sys'.timer <=> sys.timer)
      BY <1>2, <1>3 DEF Systems
    <2>2. Typed'  BY <1>1, <2>1 DEF IInv, Typed, Systems
    <2>3. Timing' /\ OwnRules' /\ Allotted'
      BY <1>1, <2>1 DEF IInv, Timing, OwnRules, Known, Allotted
    <2>4. Booting'  BY <1>1, <1>3, <2>1 DEF IInv, Booting, Found, Known
    <2>5. Working'  BY <1>1, <1>3, <2>1 DEF IInv, Working
    <2>6. Scheduled'  BY <1>1, <1>3, <2>1 DEF IInv, Scheduled
    <2>7. Cleaned'  BY <1>1, <1>3, <2>1 DEF IInv, Cleaned, Removed
    <2> QED  BY <2>2, <2>3, <2>4, <2>5, <2>6, <2>7 DEF IInv
  <1>4. CASE /\ sys' = [sys EXCEPT !.clients = 0, !.timer = FALSE, !.active = None]
             /\ loader' = None
             /\ tasks' = Superseded(tasks, sys.active)
             /\ replies' = Superseded(replies, sys.active)
    <2>1. /\ sys' \in Systems /\ sys'.clients = 0 /\ sys'.active = None
          /\ (sys'.ready <=> sys.ready) /\ ~sys'.timer
      BY <1>2, <1>4 DEF Systems
    <2>2. Typed'  BY <1>1, <2>1 DEF IInv, Typed, Systems
    <2>3. Timing' /\ OwnRules' /\ Allotted'
      BY <1>1, <2>1 DEF IInv, Timing, OwnRules, Known, Allotted
    <2>4. Booting'
      <3> SUFFICES ASSUME ~sys.ready PROVE Booting'  BY <2>1 DEF Booting
      <3>1. PICK w : /\ DOMAIN w = DOMAIN RestoreTask /\ w.kind = "restore"
                     /\ \/ tasks = <<w>> /\ replies = <<>>
                        \/ tasks = <<>> /\ replies = <<w>> /\ Found(w)
        BY DEF IInv, Booting
      <3>2. PICK v : /\ Superseded(<<w>>, sys.active) = <<v>> /\ DOMAIN v = DOMAIN w
                     /\ v.kind = w.kind /\ v.rules = w.rules
        BY <3>1, SupersededShort
      <3>3. Superseded(<<>>, sys.active) = <<>>  BY <3>1, SupersededShort
      <3>4. Found(w) => Found(v)'  BY <1>1, <3>2 DEF Found, Known
      <3> QED  BY <1>4, <2>1, <3>1, <3>2, <3>3, <3>4 DEF Booting
    <2>5. Working'
      <3> SUFFICES ASSUME sys.ready PROVE Working'  BY <2>1 DEF Working
      <3>1. /\ tasks \in Seq(Live(sys.active, entries))
            /\ replies \in Seq(Live(sys.active, entries))
        BY DEF IInv, Working, WorkOK
      <3>2. tasks' \in Seq(Live(None, entries')) /\ replies' \in Seq(Live(None, entries'))
        BY <1>4, <3>1, SupersededActive
      <3> QED  BY <1>4, <2>1, <3>2 DEF Working, WorkOK
    <2>6. Scheduled'  BY <2>1 DEF Scheduled
    <2>7. Cleaned'
      <3> SUFFICES ASSUME sys.ready PROVE Cleaned'
        BY <2>1 DEF Cleaned, Removed
      <3>1. tasks \in Seq(Live(sys.active, entries))  BY DEF IInv, Working, WorkOK
      <3>2. \A id : /\ Followed(tasks', id) <=> Followed(tasks, id)
                    /\ Deleting(tasks', id) <=> Deleting(tasks, id)
        BY <1>4, <3>1, SupersededCleans DEF Live
      <3> QED  BY <1>1, <2>1, <3>2 DEF IInv, Cleaned, Removed
    <2> QED  BY <2>2, <2>3, <2>4, <2>5, <2>6, <2>7 DEF IInv
  <1> QED  BY <1>3, <1>4 DEF Release

LEMMA RestoreInv ==
    ASSUME IInv, NEW kept \in SUBSET Ids, Restore(kept)
    PROVE  IInv'
  <1>0. PICK r : r = [RestoreTask EXCEPT !.rules = [id \in kept |-> disk.cache[id]]]
    OBVIOUS
  <1>1. /\ tasks # <<>> /\ Head(tasks).kind = "restore"
        /\ kept \subseteq {id \in Known : DecodeSubscriptionCache(disk.cache[id], entries[id].url)}
        /\ tasks' = Tail(tasks) /\ replies' = Append(replies, r)
        /\ UNCHANGED <<entries, sys, loader, disk, used, crashes>>
    BY <1>0 DEF Restore
  <1>2. ~sys.ready  BY <1>1, WorkerReady
  <1>3. PICK w : tasks = <<w>> /\ replies = <<>>
    BY <1>1, <1>2 DEF IInv, Booting
  <1>4. DOMAIN r = DOMAIN RestoreTask /\ r.kind = "restore" /\ r.rules = [id \in kept |-> disk.cache[id]]
    BY <1>0 DEF RestoreTask
  <1>5. Found(r)'
    <2>1. \A id \in kept : /\ id \in Known /\ disk.cache[id] \in Lists
                           /\ disk.cache[id].url = entries[id].url
      BY <1>1 DEF IInv, Typed, DecodeSubscriptionCache, Known
    <2>2. Known' = Known /\ entries' = entries  BY <1>1 DEF Known
    <2>3. DOMAIN r.rules = kept /\ \A id \in kept : r.rules[id] = disk.cache[id]  BY <1>4
    <2> QED  BY <2>1, <2>2, <2>3 DEF Found
  <1>6. tasks' = <<>> /\ replies' = <<r>>  BY <1>1, <1>3
  <1>7. Booting'  BY <1>1, <1>4, <1>5, <1>6 DEF IInv, Booting
  <1>8. Typed' /\ Timing' /\ OwnRules' /\ Allotted' /\ Scheduled'
    BY <1>1 DEF IInv, Typed, Timing, OwnRules, Known, Allotted, Scheduled
  <1>9. Working' /\ Cleaned'  BY <1>1, <1>2 DEF Working, Cleaned, Removed
  <1> QED  BY <1>7, <1>8, <1>9 DEF IInv

LEMMA RestoredInv ==
    ASSUME IInv, NEW delay \in {Soon, Period}, OnRestored(delay)
    PROVE  IInv'
  <1> DEFINE restored == Head(replies).rules
  <1> DEFINE e == [id \in Ids |-> IF id \in DOMAIN restored
                                  THEN [entries[id] EXCEPT !.rules = restored[id], !.due = delay]
                                  ELSE entries[id]]
  <1> DEFINE s == [sys EXCEPT !.ready = TRUE]
  <1>1. /\ replies # <<>> /\ Head(replies).kind = "restore"
        /\ replies' = Tail(replies) /\ entries' = e /\ sys' = Schedule(s, e)
        /\ UNCHANGED <<loader, tasks, disk, used, crashes>>
    BY DEF OnRestored
  <1>2. ~sys.ready  BY <1>1, ReplyReady
  <1>3. PICK w : tasks = <<>> /\ replies = <<w>> /\ Found(w)
    BY <1>1, <1>2 DEF IInv, Booting
  <1>4. restored = w.rules /\ replies' = <<>> /\ tasks' = <<>> /\ loader' = None
    <2>1. loader = None  BY <1>2 DEF IInv, Booting
    <2>2. Head(replies) = w /\ Tail(replies) = <<>>  BY <1>3
    <2> QED  BY <1>1, <1>3, <2>1, <2>2
  <1>5. /\ s \in Systems /\ s.ready /\ s.clients = sys.clients /\ s.active = None
    BY <1>2 DEF IInv, Typed, Systems, Booting
  <1> HIDE DEF s, restored
  <1>6. delay \in Nat /\ Period \in Nat  BY DelaysAssumption
  <1>7. ASSUME NEW id \in Ids
        PROVE  /\ entries[id] = None => e[id] = None
               /\ entries[id] # None =>
                     /\ e[id] \in Entries /\ e[id].url = entries[id].url
                     /\ e[id].notBefore = 0 /\ e[id].due \in Nat
                     /\ e[id].rules # None => e[id].rules.url = e[id].url
    <2>1. CASE id \in DOMAIN restored
      <3>1. id \in Known /\ restored[id] \in Lists /\ restored[id].url = entries[id].url
        BY <1>3, <1>4, <2>1 DEF Found
      <3>2. entries[id] \in Entries /\ entries[id] # None /\ entries[id].notBefore = 0
        BY <1>2, <3>1 DEF IInv, Typed, Timing, Known
      <3> DEFINE x == entries[id]
      <3> DEFINE y == [x EXCEPT !.rules = restored[id], !.due = delay]
      <3>3. e[id] = y  BY <2>1
      <3> HIDE DEF e
      <3>4. /\ y \in Entries /\ y.url = x.url /\ y.notBefore = x.notBefore
            /\ y.due = delay /\ y.rules = restored[id]
        BY <1>6, <3>1, <3>2 DEF Entries
      <3> QED  BY <1>6, <3>1, <3>2, <3>3, <3>4
    <2>2. CASE id \notin DOMAIN restored
      <3>1. e[id] = entries[id]  BY <2>2
      <3> HIDE DEF e
      <3>2. entries[id] # None => entries[id] \in Entries /\ entries[id].notBefore = 0
        BY <1>2 DEF IInv, Typed, Timing, Known
      <3>3. entries[id] # None /\ entries[id].rules # None => entries[id].rules.url = entries[id].url
        BY DEF IInv, OwnRules, Known
      <3> QED  BY <3>1, <3>2, <3>3 DEF Entries
    <2> QED  BY <2>1, <2>2
  <1>8. DOMAIN e = Ids /\ e = [id \in Ids |-> e[id]]  OBVIOUS
  <1> HIDE DEF e
  <1>9. /\ sys' \in Systems /\ sys'.active = None /\ sys'.ready
        /\ sys'.timer <=> sys'.clients > 0 /\ Enabled(e) # {}
    BY <1>1, <1>5, ScheduleKeeps
  <1>10. Typed'
    <2>1. e \in [Ids -> Entries \cup {None}]  BY <1>7, <1>8 DEF IInv, Typed
    <2> QED  BY <1>1, <1>9, <2>1 DEF IInv, Typed, Systems
  <1>11. Timing' /\ OwnRules'
    BY <1>1, <1>6, <1>7, <1>9 DEF Timing, OwnRules, Known
  <1>12. Allotted'  BY <1>1, <1>7, <1>9 DEF IInv, Allotted
  <1>13. Booting'  BY <1>9 DEF Booting
  <1>14. Working'  BY <1>4, <1>9 DEF Working, WorkOK
  <1>15. Scheduled'  BY <1>1, <1>9 DEF Scheduled
  <1>16. Cleaned'
    <2>1. \A id : Followed(<<>>, id)  BY DEF Followed
    <2>2. crashes = 0 => used = {}  BY <1>2 DEF IInv, Allotted
    <2> QED  BY <1>1, <1>4, <2>1, <2>2 DEF IInv, Typed, Cleaned, Removed
  <1> QED  BY <1>10, <1>11, <1>12, <1>13, <1>14, <1>15, <1>16 DEF IInv

GoodEntry(y) ==
    /\ y \in Entries /\ y.notBefore <= y.due /\ y.notBefore <= Period
    /\ y.rules # None => y.rules.url = y.url

(* What follows when a handler changes one entry.                           *)
LEMMA EntryChange ==
    ASSUME IInv, sys.ready, sys'.ready, NEW id \in Ids, NEW y, y = None \/ GoodEntry(y),
           entries' = [entries EXCEPT ![id] = y]
    PROVE  /\ entries' \in [Ids -> Entries \cup {None}]
           /\ entries'[id] = y
           /\ \A x \in Ids : x # id => entries'[x] = entries[x]
           /\ Timing' /\ OwnRules'
  <1>1. entries \in [Ids -> Entries \cup {None}]  BY DEF IInv, Typed
  <1>2. entries'[id] = y /\ \A x \in Ids : x # id => entries'[x] = entries[x]  BY <1>1
  <1>3. entries' \in [Ids -> Entries \cup {None}]  BY <1>1 DEF GoodEntry
  <1>4. Timing'  BY <1>2 DEF IInv, Timing, Known, GoodEntry
  <1>5. OwnRules'  BY <1>2 DEF IInv, OwnRules, Known, GoodEntry
  <1> QED  BY <1>2, <1>3, <1>4, <1>5

LEMMA EntryGood ==
    ASSUME IInv, NEW id \in Known
    PROVE  GoodEntry(entries[id]) /\ id \in Ids
  BY DEF IInv, Typed, Timing, OwnRules, Known, GoodEntry

LEMMA RefreshInv ==
    ASSUME IInv, NEW id \in Ids, sys.ready, MayRefresh(id), Refresh(id),
           UNCHANGED <<disk, used, crashes>>
    PROVE  IInv'
  <1> DEFINE x == entries[id]
  <1> DEFINE y == [x EXCEPT !.notBefore = Minute, !.due = Minute]
  <1>1. /\ sys.clients > 0 /\ id \in Enabled(entries) /\ sys.active = None /\ id \in Known
    BY DEF MayRefresh, Enabled, Known
  <1>2. GoodEntry(x) /\ x # None /\ x.enabled  BY <1>1, EntryGood DEF Enabled
  <1>3. /\ sys' = [sys EXCEPT !.timer = FALSE, !.active = id]
        /\ loader' = Work("download", id, None)
        /\ tasks' = Superseded(tasks, id) /\ replies' = Superseded(replies, id)
    BY DEF Refresh
  <1>4. entries' = [entries EXCEPT ![id] = y]
    BY DEF Refresh, IInv, Typed
  <1>5. /\ sys' \in Systems /\ sys'.active = id /\ sys'.clients = sys.clients
        /\ sys'.ready /\ ~sys'.timer
    BY <1>3 DEF IInv, Typed, Systems
  <1> HIDE DEF x
  <1>6. GoodEntry(y) /\ y # None /\ y.url = x.url /\ y.enabled
    <2>1. Minute \in Nat /\ Minute <= Period  BY DelaysAssumption
    <2>2. x \in Entries  BY <1>2 DEF GoodEntry
    <2>3. y \in Entries  BY <2>1, <2>2 DEF Entries
    <2>4. /\ y.url = x.url /\ y.rules = x.rules /\ (y.enabled <=> x.enabled)
          /\ y.notBefore = Minute /\ y.due = Minute
      BY <2>2 DEF Entries
    <2> HIDE DEF y
    <2> QED  BY <1>2, <2>1, <2>3, <2>4, NoneAssumption DEF GoodEntry
  <1> HIDE DEF y
  <1>7. /\ entries' \in [Ids -> Entries \cup {None}]
        /\ entries'[id] = y /\ \A z \in Ids : z # id => entries'[z] = entries[z]
        /\ Timing' /\ OwnRules'
    BY <1>4, <1>5, <1>6, EntryChange
  <1>8. Typed'  BY <1>5, <1>7 DEF IInv, Typed, Systems
  <1>9. Allotted'
    BY <1>1, <1>5, <1>7 DEF IInv, Allotted, Known
  <1>10. Booting'  BY <1>5 DEF Booting
  <1>11. tasks \in Seq(Live(None, entries)) /\ replies \in Seq(Live(None, entries))
    BY <1>1 DEF IInv, Working, WorkOK
  <1>12. tasks' = tasks /\ replies' = replies
    BY <1>3, <1>11, SupersededOther, NoneAssumption
  <1>13. Working'
    <2>1. /\ tasks' \in Seq(Live(id, entries')) /\ replies' \in Seq(Live(id, entries'))
          /\ Dead(tasks') /\ Dead(replies')
      BY <1>11, <1>12, NoneActive
    <2>2. loader' = [kind |-> "download", id |-> id, current |-> TRUE, url |-> x.url, rules |-> None]
      BY <1>3 DEF Work, x
    <2>3. loader' \in Works /\ loader'.current /\ loader'.id = id /\ loader'.url = x.url
          /\ loader'.rules = None /\ loader'.kind = "download" /\ x.url \in Urls
      BY <1>2, <2>2 DEF Works, GoodEntry, Entries
    <2>4. loader' \in Live(id, entries')  BY <1>6, <1>7, <2>3 DEF Live
    <2>5. loader' # None  BY <2>3, NoneAssumption
    <2> QED  BY <1>5, <2>1, <2>3, <2>4, <2>5 DEF Working, WorkOK, OneOf
  <1>14. Scheduled'
    <2>1. id \in Enabled(entries')  BY <1>6, <1>7 DEF Enabled
    <2> QED  BY <1>1, <1>5, <2>1, NoneAssumption DEF Scheduled
  <1>15. Cleaned'
    BY <1>2, <1>5, <1>6, <1>7, <1>12 DEF IInv, Typed, Cleaned, Removed, x
  <1> QED  BY <1>7, <1>8, <1>9, <1>10, <1>13, <1>14, <1>15 DEF IInv

LEMMA TickInv ==
    ASSUME IInv, NEW id \in Ids, Tick(id)
    PROVE  IInv'
  <1>1. sys.timer /\ id \in Enabled(entries) /\ entries[id].due = 0  BY DEF Tick
  <1>2. sys.ready  BY <1>1 DEF IInv, Booting
  <1>3. sys.clients > 0 /\ sys.active = None  BY <1>1 DEF IInv, Scheduled
  <1>4. id \in Known  BY <1>1 DEF Enabled, Known
  <1>5. entries[id].notBefore = 0
    <2>1. entries[id].notBefore <= 0 /\ entries[id].notBefore \in Nat
      BY <1>1, <1>4, EntryGood DEF GoodEntry, Entries
    <2> QED  BY <2>1
  <1>6. MayRefresh(id)  BY <1>1, <1>3, <1>5 DEF MayRefresh
  <1> QED  BY <1>2, <1>6, RefreshInv DEF Tick

(* Failing ends the work of the active source.                              *)
LEMMA FailEffect ==
    ASSUME IInv, sys.ready, NEW id \in Ids, id = sys.active, Fail(id)
    PROVE  /\ entries' \in [Ids -> Entries \cup {None}]
           /\ SameSources(entries, entries')
           /\ Timing' /\ OwnRules' /\ Scheduled' /\ Booting'
           /\ sys' \in Systems /\ sys'.active = None /\ sys'.ready
  <1>1. id \in Enabled(entries) /\ id \in Known  BY NoneAssumption DEF IInv, Scheduled, Enabled, Known
  <1>2. PICK delay \in Base..Retry :
           /\ entries' = [entries EXCEPT ![id] = Failed(@, delay)]
           /\ sys' = Schedule([sys EXCEPT !.active = None], entries')
    BY DEF Fail
  <1> DEFINE x == entries[id]
  <1> DEFINE y == Failed(x, delay)
  <1> DEFINE s == [sys EXCEPT !.active = None]
  <1>3. GoodEntry(x) /\ x # None  BY <1>1, EntryGood DEF Known
  <1>4. entries' = [entries EXCEPT ![id] = y]  BY <1>2
  <1>5. s \in Systems /\ s.active = None /\ s.clients = sys.clients /\ s.ready
    BY DEF IInv, Typed, Systems
  <1> HIDE DEF x, s
  <1>6. delay \in Nat /\ delay <= Period  BY DelaysAssumption
  <1>7. GoodEntry(y) /\ y # None /\ y.url = x.url
    <2>1. x \in Entries  BY <1>3 DEF GoodEntry
    <2>2. y \in Entries  BY <1>6, <2>1 DEF Entries, Failed
    <2>3. y.url = x.url /\ y.rules = x.rules /\ y.notBefore = delay /\ y.due = delay
      BY <2>1 DEF Entries, Failed
    <2> HIDE DEF y
    <2> QED  BY <1>3, <1>6, <2>2, <2>3, NoneAssumption DEF GoodEntry
  <1> HIDE DEF y
  <1>8. /\ sys' \in Systems /\ sys'.active = None /\ sys'.ready
        /\ sys'.timer <=> sys'.clients > 0 /\ Enabled(entries') # {}
    BY <1>2, <1>5, ScheduleKeeps, ZenonT(40) DEF s
  <1>9. /\ entries' \in [Ids -> Entries \cup {None}]
        /\ entries'[id] = y /\ \A z \in Ids : z # id => entries'[z] = entries[z]
        /\ Timing' /\ OwnRules'
    BY <1>4, <1>7, <1>8, EntryChange
  <1>10. SameSources(entries, entries')
    BY <1>3, <1>7, <1>9 DEF SameSources, x
  <1>11. Scheduled' /\ Booting'  BY <1>8 DEF Scheduled, Booting
  <1> QED  BY <1>8, <1>9, <1>10, <1>11

-----------------------------------------------------------------------------
(* Work that moves on *)

Steps == {"parse", "install", "installed", "write_failed"}

LEMMA LiveKind ==
    ASSUME NEW a, NEW e, NEW w \in Live(a, e), w.kind # "delete",
           NEW k \in Steps
    PROVE  LET v == [w EXCEPT !.kind = k]
           IN  /\ v \in Live(a, e) /\ v.kind = k /\ v.id = w.id
               /\ v.current <=> w.current
  <1> DEFINE v == [w EXCEPT !.kind = k]
  <1>1. w \in Works  BY DEF Live
  <1>2. v \in Works /\ v.kind = k /\ v.id = w.id /\ v.url = w.url /\ v.rules = w.rules
        /\ (v.current <=> w.current)
    BY <1>1 DEF Works, Steps
  <1> HIDE DEF v
  <1>3. v \in Live(a, e)  BY <1>2 DEF Live, Steps
  <1> QED  BY <1>2, <1>3 DEF v

LEMMA LiveRules ==
    ASSUME NEW a, NEW e, NEW w \in Live(a, e), NEW r \in Lists \cup {None},
           r # None => r.url = w.url
    PROVE  LET v == [w EXCEPT !.rules = r]
           IN  /\ v \in Live(a, e) /\ v.kind = w.kind /\ v.id = w.id
               /\ v.current <=> w.current
  <1> DEFINE v == [w EXCEPT !.rules = r]
  <1>1. w \in Works  BY DEF Live
  <1>2. v \in Works /\ v.kind = w.kind /\ v.id = w.id /\ v.url = w.url /\ v.rules = r
        /\ (v.current <=> w.current)
    BY <1>1 DEF Works
  <1> HIDE DEF v
  <1>3. v \in Live(a, e)  BY <1>2 DEF Live
  <1> QED  BY <1>2, <1>3 DEF v

(* The first task is answered with v.                                       *)
LEMMA Answered ==
    ASSUME NEW S, NEW ld, NEW ts \in Seq(S), NEW rs \in Seq(S), ts # <<>>, NEW v \in S,
           v.current <=> Head(ts).current
    PROVE  /\ Tail(ts) \in Seq(S) /\ Append(rs, v) \in Seq(S)
           /\ OneOf(ld, ts, rs) => OneOf(ld, Tail(ts), Append(rs, v))
  <1>1. Tail(ts) \in Seq(S) /\ Append(rs, v) \in Seq(S)  BY TailWork, AppendWork
  <1>2. ASSUME Head(ts).current, OneOf(ld, ts, rs)
        PROVE  OneOf(ld, Tail(ts), Append(rs, v))
    <2>1. ~Dead(ts)  BY <1>2, TailWork
    <2>2. ld = None /\ One(ts) /\ Dead(rs)  BY <1>2, <2>1 DEF OneOf
    <2>3. Dead(Tail(ts))  BY <1>2, <2>2, TailWork
    <2>4. One(Append(rs, v))  BY <1>2, <2>2, AppendWork
    <2> QED  BY <2>2, <2>3, <2>4 DEF OneOf
  <1>3. ASSUME ~Head(ts).current, OneOf(ld, ts, rs)
        PROVE  OneOf(ld, Tail(ts), Append(rs, v))
    <2>1. (Dead(ts) => Dead(Tail(ts))) /\ (One(ts) => One(Tail(ts)))  BY <1>3, TailWork
    <2>2. (Dead(rs) => Dead(Append(rs, v))) /\ (One(rs) => One(Append(rs, v)))
      BY <1>3, AppendWork
    <2> QED  BY <1>3, <2>1, <2>2 DEF OneOf
  <1> QED  BY <1>1, <1>2, <1>3

(* A piece of work that is not current is dropped.                          *)
LEMMA Dropped ==
    ASSUME NEW S, NEW ld, NEW ts \in Seq(S), NEW rs \in Seq(S)
    PROVE  /\ ts # <<>> /\ ~Head(ts).current /\ OneOf(ld, ts, rs) => OneOf(ld, Tail(ts), rs)
           /\ rs # <<>> /\ ~Head(rs).current /\ OneOf(ld, ts, rs) => OneOf(ld, ts, Tail(rs))
  BY TailWork DEF OneOf

(* When the first reply is current, nothing else is.                        *)
LEMMA LastReply ==
    ASSUME NEW S, NEW ld, NEW ts \in Seq(S), NEW rs \in Seq(S), rs # <<>>,
           Head(rs).current, OneOf(ld, ts, rs)
    PROVE  ld = None /\ Dead(ts) /\ Dead(Tail(rs))
  <1>1. ~Dead(rs)  BY TailWork
  <1>2. ld = None /\ Dead(ts) /\ One(rs)  BY <1>1 DEF OneOf
  <1> QED  BY <1>2, TailWork

LEMMA CurrentIff ==
    ASSUME IInv, sys.ready, NEW w \in Live(sys.active, entries)
    PROVE  w.current <=> Current(w)
  <1>1. w.current => w.id = sys.active /\ w.id \in Ids  BY DEF Live, Works
  <1>2. w.current => sys.active # None  BY <1>1, NoneAssumption
  <1> QED  BY <1>1, <1>2 DEF IInv, Scheduled, Current

(* What follows when a step moves work and may change a cache file.         *)
LEMMA QueuesMove ==
    ASSUME IInv, sys.ready, UNCHANGED <<entries, sys, used, crashes>>,
           disk' \in [cache : [Ids -> Lists \cup {None}], configs : [Ids -> Configs \cup {None}]],
           disk'.configs = disk.configs,
           WorkOK(sys.active, entries, loader', tasks', replies'), Cleaned'
    PROVE  IInv'
  <1>1. Typed' /\ Timing' /\ OwnRules' /\ Allotted'
    BY DEF IInv, Typed, Timing, OwnRules, Known, Allotted
  <1>2. Scheduled' /\ Booting' /\ Working'
    BY DEF IInv, Scheduled, Booting, Working
  <1> QED  BY <1>1, <1>2 DEF IInv

LEMMA FailInv ==
    ASSUME IInv, sys.ready, NEW id \in Ids, id = sys.active, Fail(id),
           loader' = None, tasks' = tasks, Dead(tasks),
           replies' \in Seq(Live(id, entries)), Dead(replies'),
           UNCHANGED <<disk, used, crashes>>
    PROVE  IInv'
  <1>1. /\ entries' \in [Ids -> Entries \cup {None}]
        /\ SameSources(entries, entries')
        /\ Timing' /\ OwnRules' /\ Scheduled' /\ Booting'
        /\ sys' \in Systems /\ sys'.active = None /\ sys'.ready
    BY FailEffect
  <1>2. Typed'  BY <1>1 DEF IInv, Typed, Systems
  <1>3. Allotted'  BY <1>1 DEF IInv, Allotted, SameSources
  <1>4. tasks \in Seq(Live(id, entries))  BY DEF IInv, Working, WorkOK
  <1>5. tasks' \in Seq(Live(None, entries')) /\ replies' \in Seq(Live(None, entries'))
    BY <1>4, DeadLive
  <1>6. Working'  BY <1>1, <1>5 DEF Working, WorkOK
  <1>7. Cleaned'  BY <1>1 DEF IInv, Typed, Cleaned, Removed, SameSources
  <1> QED  BY <1>1, <1>2, <1>3, <1>6, <1>7 DEF IInv

-----------------------------------------------------------------------------
(* The download, the worker and the replies *)

LEMMA DownloadedInv == IInv /\ Downloaded => IInv'
  <1> SUFFICES ASSUME IInv, Downloaded PROVE IInv'  OBVIOUS
  <1>1. /\ loader # None /\ loader' = None
        /\ UNCHANGED <<replies, disk, used, crashes>>
        /\ \/ tasks' = Append(tasks, [loader EXCEPT !.kind = "parse"]) /\ UNCHANGED <<entries, sys>>
           \/ Fail(loader.id) /\ UNCHANGED tasks
    BY DEF Downloaded, OnDownloaded
  <1>2. sys.ready  BY <1>1 DEF IInv, Booting
  <1> DEFINE L == Live(sys.active, entries)
  <1>3. /\ tasks \in Seq(L) /\ replies \in Seq(L) /\ loader \in L /\ loader.current
        /\ sys.active # None => OneOf(loader, tasks, replies)
    BY <1>1, <1>2 DEF IInv, Working, WorkOK
  <1>4. loader.id = sys.active /\ loader.id \in Ids /\ loader.kind # "delete"
    BY <1>3 DEF Live, Works
  <1>5. Dead(tasks) /\ Dead(replies)
    BY <1>1, <1>3, <1>4, NoneAssumption DEF OneOf
  <1>6. CASE Fail(loader.id) /\ UNCHANGED tasks
    <2>1. replies' \in Seq(Live(loader.id, entries)) /\ Dead(replies')  BY <1>1, <1>3, <1>4, <1>5
    <2> QED  BY <1>1, <1>2, <1>4, <1>5, <1>6, <2>1, FailInv
  <1>7. CASE tasks' = Append(tasks, [loader EXCEPT !.kind = "parse"]) /\ UNCHANGED <<entries, sys>>
    <2> DEFINE k == "parse"
    <2> DEFINE v == [loader EXCEPT !.kind = k]
    <2>0. k \in Steps /\ k = "parse"  BY DEF Steps
    <2>1. v \in L /\ v.kind = "parse" /\ v.current
      <3> HIDE DEF k, L
      <3> QED  BY <1>3, <1>4, <2>0, LiveKind DEF L
    <2>2. tasks' = Append(tasks, v)  BY <1>7
    <2> HIDE DEF v, L
    <2>3. tasks' \in Seq(L) /\ One(tasks')  BY <1>3, <1>5, <2>1, <2>2, AppendWork
    <2>4. WorkOK(sys.active, entries, loader', tasks', replies')
      BY <1>1, <1>3, <1>5, <2>3 DEF WorkOK, OneOf, L
    <2>5. \A x : /\ Followed(tasks, x) => Followed(tasks', x)
                 /\ Deleting(tasks, x) => Deleting(tasks', x)
      BY <1>3, <2>1, <2>2, AppendCleans
    <2>6. Cleaned'  BY <1>1, <1>7, <2>5 DEF IInv, Cleaned, Removed
    <2>7. disk' = disk /\ disk' \in [cache : [Ids -> Lists \cup {None}],
                                     configs : [Ids -> Configs \cup {None}]]
      BY <1>1 DEF IInv, Typed
    <2> QED  BY <1>1, <1>2, <1>7, <2>4, <2>6, <2>7, QueuesMove
  <1> QED  BY <1>1, <1>6, <1>7

LEMMA ParseInv ==
    ASSUME IInv, NEW size \in Sizes \cup {None}, ParseDownload(size)
    PROVE  IInv'
  <1> DEFINE w == Head(tasks)
  <1> DEFINE r == IF size = None THEN None ELSE [url |-> w.url, size |-> size]
  <1> DEFINE v == [w EXCEPT !.rules = r]
  <1> DEFINE L == Live(sys.active, entries)
  <1>1. /\ tasks # <<>> /\ w.kind = "parse" /\ tasks' = Tail(tasks) /\ replies' = Append(replies, v)
        /\ UNCHANGED <<entries, sys, loader, disk, used, crashes>>
    BY DEF ParseDownload
  <1>2. sys.ready /\ w \in L  BY <1>1, WorkerReady
  <1>3. /\ tasks \in Seq(L) /\ replies \in Seq(L) /\ (loader # None => loader \in L /\ loader.current)
        /\ sys.active # None => OneOf(loader, tasks, replies)
    BY <1>2 DEF IInv, Working, WorkOK
  <1>4. r \in Lists \cup {None} /\ (r # None => r.url = w.url)
    <2>1. w.url \in Urls  BY <1>1, <1>2 DEF Live
    <2> HIDE DEF w
    <2> QED  BY <2>1, NoneAssumption DEF Lists
  <1> HIDE DEF r
  <1>5. v \in L /\ (v.current <=> w.current)  BY <1>2, <1>4, LiveRules
  <1> HIDE DEF v, L
  <1>6. /\ tasks' \in Seq(L) /\ replies' \in Seq(L)
        /\ OneOf(loader, tasks, replies) => OneOf(loader, tasks', replies')
    BY <1>1, <1>3, <1>5, Answered
  <1>7. WorkOK(sys.active, entries, loader', tasks', replies')
    BY <1>1, <1>3, <1>6 DEF WorkOK, L
  <1>8. \A x : /\ Followed(tasks, x) => Followed(tasks', x)
               /\ Deleting(tasks, x) => Deleting(tasks', x)
    BY <1>1, <1>3, TailCleans
  <1>9. Cleaned'  BY <1>1, <1>8 DEF IInv, Cleaned, Removed
  <1>10. disk' = disk /\ disk' \in [cache : [Ids -> Lists \cup {None}],
                                    configs : [Ids -> Configs \cup {None}]]
    BY <1>1 DEF IInv, Typed
  <1> QED  BY <1>1, <1>2, <1>7, <1>9, <1>10, QueuesMove

LEMMA ParsedInv == IInv /\ OnParsed => IInv'
  <1> SUFFICES ASSUME IInv, OnParsed PROVE IInv'  OBVIOUS
  <1> DEFINE w == Head(replies)
  <1> DEFINE L == Live(sys.active, entries)
  <1>1. /\ replies # <<>> /\ w.kind = "parse" /\ replies' = Tail(replies)
        /\ UNCHANGED <<loader, disk, used, crashes>>
    BY DEF OnParsed
  <1>2. \/ ~Current(w) /\ UNCHANGED <<entries, sys, tasks>>
        \/ Current(w) /\ Fail(w.id) /\ UNCHANGED tasks
        \/ /\ Current(w) /\ tasks' = Append(tasks, [w EXCEPT !.kind = "install"])
           /\ UNCHANGED <<entries, sys>>
    BY DEF OnParsed
  <1>3. sys.ready /\ w \in L  BY <1>1, ReplyReady
  <1>4. /\ tasks \in Seq(L) /\ replies \in Seq(L) /\ (loader # None => loader \in L /\ loader.current)
        /\ sys.active # None => OneOf(loader, tasks, replies)
    BY <1>3 DEF IInv, Working, WorkOK
  <1>5. w.current <=> Current(w)  BY <1>3, CurrentIff
  <1>6. replies' \in Seq(L)  BY <1>1, <1>4, TailWork
  <1>7. disk' = disk /\ disk' \in [cache : [Ids -> Lists \cup {None}],
                                   configs : [Ids -> Configs \cup {None}]]
    BY <1>1 DEF IInv, Typed
  <1>8. CASE ~Current(w) /\ UNCHANGED <<entries, sys, tasks>>
    <2> HIDE DEF L
    <2>1. OneOf(loader, tasks, replies) => OneOf(loader, tasks, Tail(replies))
      BY <1>1, <1>4, <1>5, <1>8, Dropped
    <2>2. WorkOK(sys.active, entries, loader', tasks', replies')
      BY <1>1, <1>4, <1>6, <1>8, <2>1 DEF WorkOK, L
    <2>3. Cleaned'  BY <1>1, <1>8 DEF IInv, Cleaned, Removed
    <2> QED  BY <1>1, <1>3, <1>7, <1>8, <2>2, <2>3, QueuesMove
  <1>9. ASSUME Current(w)
        PROVE  /\ w.id = sys.active /\ w.id \in Ids /\ entries[w.id] # None
               /\ loader = None /\ Dead(tasks) /\ Dead(replies')
    <2>1. w.id = sys.active /\ w.id \in Ids /\ entries[w.id] # None
      BY <1>9 DEF Current, Enabled
    <2>2. OneOf(loader, tasks, replies)  BY <1>4, <2>1, NoneAssumption
    <2> HIDE DEF L
    <2>3. loader = None /\ Dead(tasks) /\ Dead(Tail(replies))
      BY <1>1, <1>4, <1>5, <1>9, <2>2, LastReply
    <2> QED  BY <1>1, <2>1, <2>3
  <1>10. CASE Current(w) /\ Fail(w.id) /\ UNCHANGED tasks
    <2>1. replies' \in Seq(Live(w.id, entries))  BY <1>6, <1>9, <1>10
    <2> HIDE DEF w, L
    <2> QED  BY <1>1, <1>3, <1>9, <1>10, <2>1, FailInv
  <1>11. CASE /\ Current(w) /\ tasks' = Append(tasks, [w EXCEPT !.kind = "install"])
              /\ UNCHANGED <<entries, sys>>
    <2> DEFINE k == "install"
    <2> DEFINE v == [w EXCEPT !.kind = k]
    <2>0. k \in Steps /\ k = "install"  BY DEF Steps
    <2>1. v \in L /\ v.kind = "install" /\ v.current /\ v.id = w.id
      <3>1. w.kind # "delete" /\ w.current  BY <1>1, <1>5, <1>11
      <3> HIDE DEF k, L, w
      <3> QED  BY <1>3, <2>0, <3>1, LiveKind DEF L
    <2>2. tasks' = Append(tasks, v)  BY <1>11
    <2> HIDE DEF v, L
    <2>3. tasks' \in Seq(L) /\ One(tasks')  BY <1>4, <1>9, <1>11, <2>1, <2>2, AppendWork
    <2>4. WorkOK(sys.active, entries, loader', tasks', replies')
      BY <1>1, <1>6, <1>9, <1>11, <2>3 DEF WorkOK, OneOf, L
    <2>5. \A x : /\ x # w.id /\ Followed(tasks, x) => Followed(tasks', x)
                 /\ Deleting(tasks, x) => Deleting(tasks', x)
      BY <1>4, <2>1, <2>2, AppendCleans
    <2>6. w.id \notin Removed'  BY <1>9, <1>11 DEF Removed
    <2>7. Cleaned'  BY <1>1, <1>11, <2>5, <2>6 DEF IInv, Cleaned, Removed
    <2> QED  BY <1>1, <1>3, <1>7, <1>11, <2>4, <2>7, QueuesMove
  <1> QED  BY <1>2, <1>8, <1>10, <1>11

LEMMA InstallInv == IInv /\ (\E ok \in BOOLEAN : Install(ok)) => IInv'
  <1> SUFFICES ASSUME IInv, \E ok \in BOOLEAN : Install(ok) PROVE IInv'  OBVIOUS
  <1> DEFINE w == Head(tasks)
  <1> DEFINE L == Live(sys.active, entries)
  <1>1. /\ tasks # <<>> /\ w.kind = "install" /\ tasks' = Tail(tasks)
        /\ disk' = disk \/ disk' = [disk EXCEPT !.cache[w.id] = w.rules]
        /\ \/ replies' = Append(replies, [w EXCEPT !.kind = "installed"])
           \/ replies' = Append(replies, [w EXCEPT !.kind = "write_failed"])
        /\ UNCHANGED <<entries, sys, loader, used, crashes>>
    BY DEF Install
  <1>2. PICK k \in Steps : replies' = Append(replies, [w EXCEPT !.kind = k])
    BY <1>1 DEF Steps
  <1> DEFINE v == [w EXCEPT !.kind = k]
  <1>3. sys.ready /\ w \in L  BY <1>1, WorkerReady
  <1>4. /\ tasks \in Seq(L) /\ replies \in Seq(L) /\ (loader # None => loader \in L /\ loader.current)
        /\ sys.active # None => OneOf(loader, tasks, replies)
    BY <1>3 DEF IInv, Working, WorkOK
  <1>5. v \in L /\ (v.current <=> w.current)
    <2>1. w.kind # "delete"  BY <1>1
    <2> HIDE DEF w, L
    <2> QED  BY <1>3, <2>1, LiveKind DEF L
  <1>6. w.id \in Ids /\ w.rules \in Lists \cup {None}  BY <1>3 DEF Live, Works
  <1>7. replies' = Append(replies, v)  BY <1>2
  <1> HIDE DEF v, L
  <1>8. /\ tasks' \in Seq(L) /\ replies' \in Seq(L)
        /\ OneOf(loader, tasks, replies) => OneOf(loader, tasks', replies')
    BY <1>1, <1>4, <1>5, <1>7, Answered
  <1>9. WorkOK(sys.active, entries, loader', tasks', replies')
    BY <1>1, <1>4, <1>8 DEF WorkOK, L
  <1>10. \A x : /\ Followed(tasks, x) => Followed(tasks', x)
                /\ Deleting(tasks, x) => Deleting(tasks', x)
                /\ Followed(tasks, x) /\ x = w.id => Deleting(tasks', x)
    BY <1>1, <1>4, TailCleans
  <1>11. /\ disk' \in [cache : [Ids -> Lists \cup {None}], configs : [Ids -> Configs \cup {None}]]
         /\ disk'.configs = disk.configs
         /\ \A x \in Ids : x # w.id => disk'.cache[x] = disk.cache[x]
    <2> DEFINE D == [cache : [Ids -> Lists \cup {None}], configs : [Ids -> Configs \cup {None}]]
    <2>1. disk \in D  BY DEF IInv, Typed
    <2>2. disk' = disk \/ disk' = [disk EXCEPT !.cache[w.id] = w.rules]  BY <1>1
    <2> HIDE DEF w
    <2>3. CASE disk' = disk  BY <2>1, <2>3
    <2>4. CASE disk' = [disk EXCEPT !.cache[w.id] = w.rules]
      <3>1. disk'.configs = disk.configs /\ disk'.cache = [disk.cache EXCEPT ![w.id] = w.rules]
        BY <2>1, <2>4
      <3>2. disk'.cache \in [Ids -> Lists \cup {None}]  BY <1>6, <2>1, <3>1
      <3>3. disk' = [cache |-> disk'.cache, configs |-> disk'.configs]  BY <2>1, <2>4
      <3> QED  BY <2>1, <3>1, <3>2, <3>3
    <2> QED  BY <2>2, <2>3, <2>4
  <1>12. Cleaned'
    <2> SUFFICES ASSUME NEW x \in Removed
                 PROVE  /\ Followed(tasks', x)
                        /\ disk'.cache[x] # None => Deleting(tasks', x) \/ crashes > 0
      BY <1>1 DEF Cleaned, Removed
    <2>1. /\ x \in Ids /\ Followed(tasks, x)
          /\ disk.cache[x] # None => Deleting(tasks, x) \/ crashes > 0
      BY DEF IInv, Typed, Cleaned, Removed
    <2> QED  BY <1>10, <1>11, <2>1
  <1> QED  BY <1>1, <1>3, <1>9, <1>11, <1>12, QueuesMove

LEMMA DeleteInv == IInv /\ DeleteFile => IInv'
  <1> SUFFICES ASSUME IInv, DeleteFile PROVE IInv'  OBVIOUS
  <1> DEFINE w == Head(tasks)
  <1> DEFINE L == Live(sys.active, entries)
  <1>1. /\ tasks # <<>> /\ w.kind = "delete" /\ tasks' = Tail(tasks)
        /\ disk' = [disk EXCEPT !.cache[w.id] = None]
        /\ UNCHANGED <<entries, sys, loader, replies, used, crashes>>
    BY DEF DeleteFile
  <1>2. sys.ready /\ w \in L  BY <1>1, WorkerReady
  <1>3. /\ tasks \in Seq(L) /\ replies \in Seq(L) /\ (loader # None => loader \in L /\ loader.current)
        /\ sys.active # None => OneOf(loader, tasks, replies)
    BY <1>2 DEF IInv, Working, WorkOK
  <1>4. w.id \in Ids /\ ~w.current  BY <1>1, <1>2 DEF Live, Works
  <1> HIDE DEF L
  <1>5. /\ tasks' \in Seq(L)
        /\ OneOf(loader, tasks, replies) => OneOf(loader, tasks', replies)
    BY <1>1, <1>3, <1>4, TailWork, Dropped
  <1>6. WorkOK(sys.active, entries, loader', tasks', replies')
    BY <1>1, <1>3, <1>5 DEF WorkOK, L
  <1>7. \A x : /\ Followed(tasks, x) => Followed(tasks', x)
               /\ x # w.id /\ Deleting(tasks, x) => Deleting(tasks', x)
    BY <1>1, <1>3, TailCleans
  <1>8. /\ disk' \in [cache : [Ids -> Lists \cup {None}], configs : [Ids -> Configs \cup {None}]]
        /\ disk'.configs = disk.configs /\ disk'.cache[w.id] = None
        /\ \A x \in Ids : x # w.id => disk'.cache[x] = disk.cache[x]
    <2> HIDE DEF w
    <2> QED  BY <1>1, <1>4 DEF IInv, Typed
  <1>9. Cleaned'
    <2> SUFFICES ASSUME NEW x \in Removed
                 PROVE  /\ Followed(tasks', x)
                        /\ disk'.cache[x] # None => Deleting(tasks', x) \/ crashes > 0
      BY <1>1 DEF Cleaned, Removed
    <2>1. /\ x \in Ids /\ Followed(tasks, x)
          /\ disk.cache[x] # None => Deleting(tasks, x) \/ crashes > 0
      BY DEF IInv, Typed, Cleaned, Removed
    <2> QED  BY <1>7, <1>8, <2>1
  <1> QED  BY <1>1, <1>2, <1>6, <1>8, <1>9, QueuesMove

LEMMA InstalledInv == IInv /\ OnInstalled => IInv'
  <1> SUFFICES ASSUME IInv, OnInstalled PROVE IInv'  OBVIOUS
  <1> DEFINE w == Head(replies)
  <1> DEFINE L == Live(sys.active, entries)
  <1> DEFINE e == [entries EXCEPT ![w.id].rules = w.rules, ![w.id].due = Period]
  <1>1. /\ replies # <<>> /\ w.kind \in {"installed", "write_failed"} /\ replies' = Tail(replies)
        /\ UNCHANGED <<loader, tasks, disk, used, crashes>>
        /\ \/ ~Current(w) /\ UNCHANGED <<entries, sys>>
           \/ Current(w) /\ Fail(w.id)
           \/ Current(w) /\ entries' = e /\ sys' = Schedule([sys EXCEPT !.active = None], e)
    BY DEF OnInstalled
  <1>2. sys.ready /\ w \in L
    <2>1. w.kind # "restore"  BY <1>1
    <2> QED  BY <1>1, <2>1, ReplyReady
  <1>3. /\ tasks \in Seq(L) /\ replies \in Seq(L) /\ (loader # None => loader \in L /\ loader.current)
        /\ sys.active # None => OneOf(loader, tasks, replies)
    BY <1>2 DEF IInv, Working, WorkOK
  <1>4. w.current <=> Current(w)  BY <1>2, CurrentIff
  <1>5. replies' \in Seq(L)  BY <1>1, <1>3, TailWork
  <1>6. CASE ~Current(w) /\ UNCHANGED <<entries, sys>>
    <2> HIDE DEF L
    <2>1. OneOf(loader, tasks, replies) => OneOf(loader, tasks, Tail(replies))
      BY <1>1, <1>3, <1>4, <1>6, Dropped
    <2>2. WorkOK(sys.active, entries, loader', tasks', replies')
      BY <1>1, <1>3, <1>5, <2>1 DEF WorkOK, L
    <2>3. Cleaned'  BY <1>1, <1>6 DEF IInv, Cleaned, Removed
    <2>4. disk' = disk /\ disk' \in [cache : [Ids -> Lists \cup {None}],
                                     configs : [Ids -> Configs \cup {None}]]
      BY <1>1 DEF IInv, Typed
    <2> QED  BY <1>1, <1>2, <1>6, <2>2, <2>3, <2>4, QueuesMove
  <1>7. ASSUME Current(w)
        PROVE  /\ w.id = sys.active /\ w.id \in Ids /\ w.id \in Known
               /\ loader = None /\ Dead(tasks) /\ Dead(replies')
    <2>1. w.id = sys.active /\ w.id \in Ids /\ w.id \in Known
      BY <1>7 DEF Current, Enabled, Known
    <2>2. OneOf(loader, tasks, replies)  BY <1>3, <2>1, NoneAssumption
    <2> HIDE DEF L
    <2>3. loader = None /\ Dead(tasks) /\ Dead(Tail(replies))
      BY <1>1, <1>3, <1>4, <1>7, <2>2, LastReply
    <2> QED  BY <1>1, <2>1, <2>3
  <1>8. CASE Current(w) /\ Fail(w.id)
    <2>1. replies' \in Seq(Live(w.id, entries))  BY <1>5, <1>7, <1>8
    <2> HIDE DEF w, L
    <2> QED  BY <1>1, <1>2, <1>7, <1>8, <2>1, FailInv
  <1>9. CASE Current(w) /\ entries' = e /\ sys' = Schedule([sys EXCEPT !.active = None], e)
    <2> DEFINE id == w.id
    <2> DEFINE x == entries[id]
    <2> DEFINE y == [x EXCEPT !.rules = w.rules, !.due = Period]
    <2> DEFINE s == [sys EXCEPT !.active = None]
    <2>1. id = sys.active /\ id \in Known /\ id \in Ids  BY <1>7, <1>9
    <2>2. GoodEntry(x) /\ x # None  BY <2>1, EntryGood DEF Known
    <2>3. w.rules \in Lists \cup {None} /\ (w.rules # None => w.rules.url = x.url)
      BY <1>2, <1>4, <1>9, <2>1 DEF Live, Works
    <2>4. entries' = [entries EXCEPT ![id] = y]
      BY <1>9, <2>1 DEF IInv, Typed
    <2>5. s \in Systems /\ s.active = None /\ s.clients = sys.clients /\ s.ready
      BY <1>2 DEF IInv, Typed, Systems
    <2>6. sys' = Schedule(s, entries')  BY <1>9
    <2> HIDE DEF x, s, e, w, id, L
    <2>7. GoodEntry(y) /\ y # None /\ y.url = x.url
      <3>1. Period \in Nat /\ x \in Entries  BY <2>2, DelaysAssumption DEF GoodEntry
      <3>2. y \in Entries  BY <2>3, <3>1 DEF Entries
      <3>3. y.url = x.url /\ y.rules = w.rules /\ y.notBefore = x.notBefore /\ y.due = Period
        BY <3>1 DEF Entries
      <3> HIDE DEF y
      <3> QED  BY <2>2, <2>3, <3>1, <3>2, <3>3, NoneAssumption DEF GoodEntry
    <2> HIDE DEF y
    <2>8. /\ sys' \in Systems /\ sys'.active = None /\ sys'.ready
          /\ sys'.timer <=> sys'.clients > 0 /\ Enabled(entries') # {}
      BY <2>5, <2>6, ScheduleKeeps
    <2>9. /\ entries' \in [Ids -> Entries \cup {None}]
          /\ entries'[id] = y /\ \A z \in Ids : z # id => entries'[z] = entries[z]
          /\ Timing' /\ OwnRules'
      BY <1>2, <2>1, <2>4, <2>7, <2>8, EntryChange
    <2>10. SameSources(entries, entries')
      BY <2>2, <2>7, <2>9 DEF SameSources, x
    <2>11. Typed'  BY <1>1, <2>8, <2>9 DEF IInv, Typed, Systems
    <2>12. Allotted'  BY <1>1, <2>8, <2>10 DEF IInv, Allotted, SameSources
    <2>13. Scheduled' /\ Booting'  BY <2>8 DEF Scheduled, Booting
    <2>14. tasks' \in Seq(Live(None, entries')) /\ replies' \in Seq(Live(None, entries'))
      BY <1>1, <1>3, <1>5, <1>7, <1>9, DeadLive DEF L
    <2>15. Working'  BY <1>1, <1>7, <1>9, <2>8, <2>14 DEF Working, WorkOK
    <2>16. Cleaned'
      BY <1>1, <1>2, <2>8, <2>10 DEF IInv, Typed, Cleaned, Removed, SameSources
    <2> QED  BY <2>9, <2>11, <2>12, <2>13, <2>15, <2>16 DEF IInv
  <1> QED  BY <1>1, <1>6, <1>8, <1>9

-----------------------------------------------------------------------------
(* Commands of the user *)

LEMMA WorkKept ==
    ASSUME NEW a, NEW e, NEW f, NEW ld, NEW ts, NEW rs,
           WorkOK(a, e, ld, ts, rs), a # None => e[a] = f[a]
    PROVE  WorkOK(a, f, ld, ts, rs)
  <1>1. CASE a = None
    <2>1. ld = None  BY <1>1, NoneActive DEF WorkOK
    <2>2. ts \in Seq(Live(None, f)) /\ rs \in Seq(Live(None, f))
      BY <1>1, NoneActive DEF WorkOK
    <2> QED  BY <1>1, <2>1, <2>2 DEF WorkOK
  <1>2. CASE a # None
    <2>1. Live(a, e) = Live(a, f)  BY <1>2 DEF Live
    <2> QED  BY <2>1 DEF WorkOK
  <1> QED  BY <1>1, <1>2

LEMMA NewEntryGood ==
    ASSUME NEW config \in Configs
    PROVE  GoodEntry(NewEntry(config)) /\ NewEntry(config) # None
  <1> DEFINE y == NewEntry(config)
  <1>1. config.url \in Urls /\ config.enabled \in BOOLEAN /\ Soon \in Nat
    BY DelaysAssumption DEF Configs
  <1>2. y \in Entries  BY <1>1 DEF NewEntry, Entries
  <1>3. y.notBefore = 0 /\ y.due = Soon /\ y.rules = None  BY DEF NewEntry
  <1> HIDE DEF y
  <1>4. GoodEntry(y)  BY <1>1, <1>2, <1>3, DelaysAssumption DEF GoodEntry
  <1>5. y # None  BY <1>2, NoneAssumption
  <1> QED  BY <1>4, <1>5 DEF y

LEMMA AddInv ==
    ASSUME IInv, NEW id \in Ids, NEW config \in Configs, Add(id, config)
    PROVE  IInv'
  <1> DEFINE y == NewEntry(config)
  <1> DEFINE s == [sys EXCEPT !.active = sys.active]
  <1>1. /\ sys.ready /\ id \notin used /\ used' = used \cup {id}
        /\ entries' = [entries EXCEPT ![id] = y] /\ sys' = Schedule(s, entries')
        /\ UNCHANGED <<loader, tasks, replies, disk, crashes>>
    BY DEF Add, Changed
  <1>2. s \in Systems /\ s.active = sys.active /\ s.clients = sys.clients /\ s.ready
    BY <1>1 DEF IInv, Typed, Systems
  <1>3. GoodEntry(y) /\ y # None  BY NewEntryGood
  <1> HIDE DEF s, y
  <1>4. /\ sys' \in Systems /\ sys'.active = sys.active /\ sys'.clients = sys.clients /\ sys'.ready
        /\ sys'.timer <=> sys'.clients > 0 /\ sys'.active = None /\ Enabled(entries') # {}
    BY <1>1, <1>2, ScheduleKeeps
  <1>5. /\ entries' \in [Ids -> Entries \cup {None}]
        /\ entries'[id] = y /\ \A z \in Ids : z # id => entries'[z] = entries[z]
        /\ Timing' /\ OwnRules'
    BY <1>1, <1>3, <1>4, EntryChange
  <1>6. entries[id] = None  BY <1>1 DEF IInv, Allotted
  <1>7. sys.active # None =>
           /\ entries[sys.active] = entries'[sys.active]
           /\ sys.active \in Enabled(entries') /\ sys.clients > 0
    BY <1>5, <1>6 DEF IInv, Scheduled, Enabled
  <1>8. Typed'  BY <1>1, <1>4, <1>5 DEF IInv, Typed, Systems
  <1>9. Allotted'  BY <1>1, <1>4, <1>5 DEF IInv, Allotted
  <1>10. Booting'  BY <1>4 DEF Booting
  <1>11. WorkOK(sys.active, entries, loader, tasks, replies)  BY <1>1 DEF IInv, Working
  <1>12. WorkOK(sys.active, entries', loader, tasks, replies)  BY <1>7, <1>11, WorkKept
  <1>13. Working'  BY <1>1, <1>4, <1>12 DEF Working
  <1>14. Scheduled'  BY <1>4, <1>7 DEF Scheduled
  <1>15. Cleaned'
    BY <1>1, <1>3, <1>4, <1>5 DEF IInv, Typed, Cleaned, Removed
  <1> QED  BY <1>5, <1>8, <1>9, <1>10, <1>13, <1>14, <1>15 DEF IInv

LEMMA DeleteLive ==
    ASSUME NEW id \in Ids, NEW a, NEW e
    PROVE  Delete(id) \in Live(a, e)
  BY DEF Delete, Live, Works

LEMMA ConcatShort ==
    ASSUME NEW S, NEW w \in S
    PROVE  /\ <<>> \o <<>> = <<>> /\ <<w>> \o <<>> = <<w>>
           /\ <<>> \o <<w>> = <<w>> /\ <<w>> \o <<w>> = <<w, w>>
           /\ <<w>> # <<>> /\ <<w, w>> # <<>>
  <1>1. <<w>> \in Seq(S) /\ <<>> \in Seq(S) /\ <<w, w>> \in Seq(S)  OBVIOUS
  <1>2. <<>> \o <<>> = <<>> /\ <<w>> \o <<>> = <<w>> /\ <<>> \o <<w>> = <<w>>  BY <1>1
  <1>3. ASSUME NEW q \in Seq(S), Len(q) = 1, q[1] = w
        PROVE  q \o <<w>> = <<w, w>>
    <2>1. q \o <<w>> = Append(q, w)  OBVIOUS
    <2>2. Append(q, w) \in Seq(S) /\ Len(Append(q, w)) = Len(q) + 1  OBVIOUS
    <2>3. Append(q, w)[Len(q) + 1] = w /\ Append(q, w)[1] = q[1]
      <3>1. Append(q, w)[Len(q) + 1] = w  BY AppendProperties
      <3>2. \A i \in 1..Len(q) : Append(q, w)[i] = q[i]  BY AppendProperties
      <3>3. 1 \in 1..Len(q)  BY <1>3
      <3> QED  BY <3>1, <3>2, <3>3
    <2>4. PICK p : p = Append(q, w)  OBVIOUS
    <2>5. p \in Seq(S) /\ Len(p) = 2 /\ p[1] = w /\ p[2] = w  BY <1>3, <2>2, <2>3, <2>4
    <2>6. p = <<w, w>>  BY <2>5
    <2> QED  BY <2>1, <2>4, <2>6
  <1>4. Len(<<w>>) = 1 /\ Len(<<w, w>>) = 2 /\ Len(<<>>) = 0  OBVIOUS
  <1>5. <<w>> \o <<w>> = <<w, w>>
    <2>1. Len(<<w>>) = 1 /\ <<w>>[1] = w  OBVIOUS
    <2> QED  BY <1>1, <1>3, <2>1
  <1> QED  BY <1>2, <1>4, <1>5

(* An entry y takes the place of the source id, and its work is cancelled.  *)
LEMMA CancelInv ==
    ASSUME IInv, sys.ready, NEW id \in Known, NEW y, y = None \/ GoodEntry(y),
           NEW d \in {<<>>, <<Delete(id)>>, <<Delete(id), Delete(id)>>},
           y = None => d # <<>>,
           entries' = [entries EXCEPT ![id] = y],
           NEW a, a = IF sys.active = id THEN None ELSE sys.active,
           sys' = Schedule([sys EXCEPT !.active = a], entries'),
           Cancel(id, d), UNCHANGED <<disk, used, crashes>>
    PROVE  IInv'
  <1> DEFINE s == [sys EXCEPT !.active = a]
  <1>1. id \in Ids /\ a \in Ids \cup {None} /\ a # id
    BY NoneAssumption DEF IInv, Typed, Known
  <1>2. s \in Systems /\ s.active = a /\ s.clients = sys.clients /\ s.ready
    BY <1>1 DEF IInv, Typed, Systems
  <1>3. sys' = Schedule(s, entries')  OBVIOUS
  <1> HIDE DEF s
  <1>4. /\ sys' \in Systems /\ sys'.active = a /\ sys'.clients = sys.clients /\ sys'.ready
        /\ sys'.timer <=> sys'.clients > 0 /\ sys'.active = None /\ Enabled(entries') # {}
    <2> DEFINE e == entries'
    <2> HIDE DEF e
    <2>1. /\ Schedule(s, e) \in Systems
          /\ Schedule(s, e).clients = s.clients /\ Schedule(s, e).active = s.active
          /\ Schedule(s, e).ready <=> s.ready
          /\ Schedule(s, e).timer <=>
                s.ready /\ s.clients > 0 /\ s.active = None /\ Enabled(e) # {}
      BY <1>2, ScheduleKeeps
    <2> QED  BY <1>2, <1>3, <2>1 DEF e
  <1>5. /\ entries' \in [Ids -> Entries \cup {None}]
        /\ entries'[id] = y /\ \A z \in Ids : z # id => entries'[z] = entries[z]
        /\ Timing' /\ OwnRules'
    BY <1>1, <1>4, EntryChange
  <1>6. Typed'  BY <1>4, <1>5 DEF IInv, Typed, Systems
  <1>7. Allotted'  BY <1>4, <1>5 DEF IInv, Allotted, Known
  <1>8. Booting'  BY <1>4 DEF Booting
  <1>9. a # None => entries[a] = entries'[a] /\ a \in Enabled(entries') /\ sys.clients > 0
    BY <1>1, <1>5 DEF IInv, Scheduled, Enabled
  <1>10. Scheduled'  BY <1>4, <1>9 DEF Scheduled
  <1>11. WorkOK(sys.active, entries, loader, tasks, replies)  BY DEF IInv, Working
  <1>12. /\ loader' = IF sys.active = id THEN None ELSE loader
         /\ tasks' = Superseded(tasks, id) \o d /\ replies' = Superseded(replies, id)
    BY DEF Cancel
  <1> DEFINE L == Live(a, entries')
  <1> DEFINE q == Superseded(tasks, id)
  <1>13. Delete(id) \in L  BY <1>1, DeleteLive
  <1>14. /\ q \in Seq(L) /\ replies' \in Seq(L)
         /\ loader' # None => loader' \in L /\ loader'.current
         /\ a # None => OneOf(loader', q, replies')
    <2>1. CASE sys.active = id
      <3>1. tasks \in Seq(Live(id, entries)) /\ replies \in Seq(Live(id, entries))
        BY <1>11, <2>1 DEF WorkOK
      <3> QED  BY <1>12, <2>1, <3>1, SupersededActive
    <2>2. CASE sys.active # id
      <3>1. q = tasks /\ replies' = replies /\ loader' = loader /\ a = sys.active
        BY <1>11, <1>12, <2>2, SupersededOther DEF WorkOK
      <3>2. WorkOK(a, entries', loader, tasks, replies)
        <4> DEFINE e == entries'
        <4>1. WorkOK(a, entries, loader, tasks, replies) /\ (a # None => entries[a] = e[a])
          BY <1>9, <1>11, <3>1
        <4> HIDE DEF e
        <4>2. WorkOK(a, e, loader, tasks, replies)  BY <4>1, WorkKept
        <4> QED  BY <4>2 DEF e
      <3> QED  BY <3>1, <3>2 DEF WorkOK
    <2> QED  BY <2>1, <2>2
  <1>15. /\ tasks' \in Seq(L) /\ (Dead(q) => Dead(tasks')) /\ (One(q) => One(tasks'))
         /\ \A x : /\ Deleting(q, x) => Deleting(tasks', x)
                   /\ Followed(q, x) => Followed(tasks', x)
         /\ d # <<>> => Deleting(tasks', id) /\ Followed(tasks', id)
    <2> HIDE DEF L, q
    <2> QED  BY <1>1, <1>12, <1>13, <1>14, ConcatDeletes DEF q
  <1>16. Working'
    <2> HIDE DEF q
    <2>1. a # None => OneOf(loader', tasks', replies')  BY <1>14, <1>15 DEF OneOf
    <2> QED  BY <1>4, <1>14, <1>15, <2>1 DEF Working, WorkOK
  <1>17. Cleaned'
    <2>1. \A x : (Followed(q, x) <=> Followed(tasks, x)) /\ (Deleting(q, x) <=> Deleting(tasks, x))
      BY <1>11, SupersededCleans DEF WorkOK, Live
    <2> HIDE DEF q
    <2> SUFFICES ASSUME NEW x \in Removed'
                 PROVE  /\ Followed(tasks', x)
                        /\ disk'.cache[x] # None => Deleting(tasks', x) \/ crashes' > 0
      BY DEF Cleaned
    <2>2. CASE x = id
      <3>1. y = None  BY <1>5, <2>2 DEF Removed
      <3> QED  BY <1>15, <2>2, <3>1
    <2>3. CASE x # id
      <3>1. x \in Removed  BY <1>5, <2>3 DEF IInv, Typed, Removed
      <3>2. Followed(tasks, x) /\ (disk.cache[x] # None => Deleting(tasks, x) \/ crashes > 0)
        BY <3>1 DEF IInv, Cleaned
      <3> QED  BY <1>15, <2>1, <3>2
    <2> QED  BY <2>2, <2>3
  <1> QED  BY <1>5, <1>6, <1>7, <1>8, <1>10, <1>16, <1>17 DEF IInv

LEMMA RemoveInv ==
    ASSUME IInv, NEW id \in Ids, Remove(id)
    PROVE  IInv'
  <1> DEFINE a == IF sys.active = id THEN None ELSE sys.active
  <1> DEFINE d == Deletes(id, TRUE)
  <1>0. Delete(id) \in Works  BY DEF Delete, Works
  <1>1. /\ sys.ready /\ id \in Known /\ Cancel(id, d)
        /\ entries' = [entries EXCEPT ![id] = None]
        /\ sys' = Schedule([sys EXCEPT !.active = a], entries')
        /\ UNCHANGED <<disk, used, crashes>>
    BY DEF Remove, Changed
  <1>2. d \in {<<>>, <<Delete(id)>>, <<Delete(id), Delete(id)>>} /\ d # <<>>
    <2>1. CASE sys.active = id
      <3>1. d = <<Delete(id)>> \o <<Delete(id)>>  BY <2>1 DEF Deletes
      <3> QED  BY <3>1, <1>0, ConcatShort
    <2>2. CASE sys.active # id
      <3>1. d = <<>> \o <<Delete(id)>>  BY <2>2 DEF Deletes
      <3> QED  BY <3>1, <1>0, ConcatShort
    <2> QED  BY <2>1, <2>2
  <1>3. a = IF sys.active = id THEN None ELSE sys.active  OBVIOUS
  <1> HIDE DEF a, d
  <1> QED  BY <1>1, <1>2, <1>3, CancelInv

LEMMA UpdateInv ==
    ASSUME IInv, NEW id \in Ids, NEW config \in Configs, Update(id, config)
    PROVE  IInv'
  <1> DEFINE x == entries[id]
  <1> DEFINE moved == config.url # x.url
  <1> DEFINE r == IF moved THEN None ELSE x.rules
  <1> DEFINE due == Larger(x.notBefore, Soon)
  <1> DEFINE y == [x EXCEPT !.url = config.url, !.enabled = config.enabled,
                            !.rules = IF moved THEN None ELSE @, !.due = due]
  <1> DEFINE a == IF sys.active = id THEN None ELSE sys.active
  <1> DEFINE d == Deletes(id, moved)
  <1>0. Delete(id) \in Works  BY DEF Delete, Works
  <1>1. /\ sys.ready /\ id \in Known /\ Cancel(id, d)
        /\ entries' = [entries EXCEPT ![id] = y]
        /\ sys' = Schedule([sys EXCEPT !.active = a], entries')
        /\ UNCHANGED <<disk, used, crashes>>
    BY DEF Update, Changed
  <1>2. d \in {<<>>, <<Delete(id)>>, <<Delete(id), Delete(id)>>}
    <2> DEFINE w == Delete(id)
    <2>1. d \in {<<>> \o <<>>, <<w>> \o <<>>, <<>> \o <<w>>, <<w>> \o <<w>>}
      BY DEF Deletes
    <2> HIDE DEF w, d
    <2> QED  BY <1>0, <2>1, ConcatShort DEF w
  <1>3. a = IF sys.active = id THEN None ELSE sys.active  OBVIOUS
  <1>4. GoodEntry(x)  BY <1>1, EntryGood
  <1>5. GoodEntry(y) /\ y # None
    <2> HIDE DEF x
    <2>1. x \in Entries /\ config.url \in Urls /\ config.enabled \in BOOLEAN
      BY <1>4 DEF GoodEntry, Configs
    <2>2. due \in Nat /\ x.notBefore <= due
      BY <2>1, DelaysAssumption DEF Entries, Larger
    <2>3. r \in Lists \cup {None} /\ (r # None => r.url = config.url)
      BY <1>4, <2>1 DEF GoodEntry, Entries
    <2>4. y = [x EXCEPT !.url = config.url, !.enabled = config.enabled, !.rules = r, !.due = due]
      OBVIOUS
    <2> HIDE DEF due, r, y
    <2>5. y \in Entries  BY <2>1, <2>2, <2>3, <2>4 DEF Entries
    <2>6. y.url = config.url /\ y.rules = r /\ y.due = due /\ y.notBefore = x.notBefore
      BY <2>1, <2>4 DEF Entries
    <2> QED  BY <1>4, <2>2, <2>3, <2>5, <2>6, NoneAssumption DEF GoodEntry
  <1> HIDE DEF a, d, y
  <1> QED  BY <1>1, <1>2, <1>3, <1>5, CancelInv

-----------------------------------------------------------------------------
(* Theorems *)

LEMMA NextInv == IInv /\ [Next]_vars => IInv'
  <1> SUFFICES ASSUME IInv, [Next]_vars PROVE IInv'  OBVIOUS
  <1>1. CASE Worker
    BY <1>1, RestoreInv, ParseInv, InstallInv, DeleteInv DEF Worker
  <1>2. CASE Reply
    BY <1>2, RestoredInv, ParsedInv, InstalledInv DEF Reply
  <1>3. CASE Downloaded  BY <1>3, DownloadedInv
  <1>4. CASE Timer  BY <1>4, TickInv DEF Timer
  <1>5. CASE TimePasses  BY <1>5, TimeInv
  <1>6. CASE Acquire  BY <1>6, AcquireInv
  <1>7. CASE Release  BY <1>7, ReleaseInv
  <1>8. CASE \E id \in Ids : RefreshCommand(id)
    BY <1>8, RefreshInv DEF RefreshCommand
  <1>9. CASE \E id \in Ids : Remove(id)  BY <1>9, RemoveInv
  <1>10. CASE \E id \in Ids : \E config \in Configs : Add(id, config)  BY <1>10, AddInv
  <1>11. CASE \E id \in Ids : \E config \in Configs : Update(id, config)  BY <1>11, UpdateInv
  <1>12. CASE CommitPendingWrite  BY <1>12, CommitInv
  <1>13. CASE Crash  BY <1>13, CrashInv
  <1>14. CASE UNCHANGED vars
    <2> USE <1>14 DEF vars
    <2>1. Typed' /\ Timing' /\ Allotted' /\ OwnRules' /\ Scheduled'
      BY DEF IInv, Typed, Timing, Allotted, OwnRules, Scheduled, Known
    <2>2. Booting' /\ Working' /\ Cleaned'
      BY DEF IInv, Booting, Found, Known, Working, Cleaned, Removed
    <2> QED  BY <2>1, <2>2 DEF IInv
  <1> QED
    BY <1>1, <1>2, <1>3, <1>4, <1>5, <1>6, <1>7, <1>8, <1>9, <1>10, <1>11, <1>12, <1>13, <1>14
    DEF Next

(* The inductive invariant.                                                 *)
THEOREM Invariance == Spec => []IInv
  <1>1. Init => IInv  BY InitInv
  <1>2. IInv /\ [Next]_vars => IInv'  BY NextInv
  <1> QED  BY <1>1, <1>2, PTL DEF Spec

(* The rules a source matches with were downloaded from the URL it has now, *)
(* for any number of sources, whatever OnParsed, OnInstalled and OnRestored *)
(* are overtaken by.                                                        *)
THEOREM RulesOfOwnUrl == Spec => []OwnRules
  <1>1. IInv => OwnRules  BY DEF IInv
  <1> QED  BY <1>1, Invariance, PTL

(* A source that was removed leaves no cache file behind: its deletion is   *)
(* behind every write of it in the worker's queue.                          *)
THEOREM RemovedForGood == Spec => []StaysRemoved
  <1>1. ASSUME IInv PROVE StaysRemoved
    <2> SUFFICES ASSUME NEW id \in Removed
                 PROVE  /\ \A i \in LastTask(id, "install") : \E j \in LastTask(id, "delete") : j > i
                        /\ disk.cache[id] # None => LastTask(id, "delete") # {} \/ crashes > 0
      BY DEF StaysRemoved
    <2>1. Followed(tasks, id) /\ (disk.cache[id] # None => Deleting(tasks, id) \/ crashes > 0)
      BY <1>1 DEF IInv, Cleaned
    <2>2. DOMAIN tasks = 1..Len(tasks)
      <3>1. sys.ready  BY DEF Removed
      <3>2. tasks \in Seq(Live(sys.active, entries))  BY <1>1, <3>1 DEF IInv, Working, WorkOK
      <3> QED  BY <3>2
    <2> QED  BY <2>1, <2>2 DEF Followed, Deleting, LastTask
  <1> QED  BY <1>1, Invariance, PTL

(* The pieces of work of a queue that CurrentWork counts.                   *)
Counted(q, a) == {j \in DOMAIN q : q[j].current /\ q[j].id = a}

LEMMA CountedWork ==
    ASSUME NEW a, NEW e, NEW q \in Seq(Live(a, e))
    PROVE  /\ Dead(q) => Counted(q, a) = {}
           /\ One(q) => \E i : Counted(q, a) = {i}
  <1>1. DOMAIN q = 1..Len(q) /\ \A i \in 1..Len(q) : q[i] \in Live(a, e)  OBVIOUS
  <1>2. \A i \in 1..Len(q) : q[i].current => q[i].id = a  BY <1>1 DEF Live
  <1>3. Dead(q) => Counted(q, a) = {}  BY <1>1 DEF Dead, Counted
  <1>4. ASSUME One(q) PROVE \E i : Counted(q, a) = {i}
    <2>1. PICK i \in 1..Len(q) : q[i].current /\ \A j \in 1..Len(q) : j # i => ~q[j].current
      BY <1>4 DEF One
    <2>2. Counted(q, a) = {i}  BY <1>1, <1>2, <2>1 DEF Counted
    <2> QED  BY <2>2
  <1> QED  BY <1>3, <1>4

(* While somebody uses the rules and a source is enabled, refreshing goes   *)
(* on: exactly one piece of current work, or the timer, and Tick is never   *)
(* refused by the rate limit.                                               *)
THEOREM RefreshingGoesOn == Spec => []RefreshGoesOn
  <1>1. ASSUME IInv PROVE RefreshGoesOn
    <2>1. ASSUME sys.active # None PROVE Cardinality(CurrentWork) = 1
      <3> DEFINE a == sys.active
      <3>1. WorkOK(a, entries, loader, tasks, replies)
        BY <1>1, <2>1 DEF IInv, Booting, Working
      <3>2. /\ OneOf(loader, tasks, replies)
            /\ tasks \in Seq(Live(a, entries)) /\ replies \in Seq(Live(a, entries))
        BY <2>1, <3>1 DEF WorkOK
      <3>3. CurrentWork = {<<"task", i>> : i \in Counted(tasks, a)}
                          \cup {<<"reply", i>> : i \in Counted(replies, a)}
                          \cup {<<"loader", 0>> : x \in {loader} \ {None}}
        BY DEF CurrentWork, Counted
      <3>4. \E w : CurrentWork = {w}
        <4>1. CASE loader # None /\ Dead(tasks) /\ Dead(replies)
          <5>1. Counted(tasks, a) = {} /\ Counted(replies, a) = {}  BY <3>2, <4>1, CountedWork
          <5>2. CurrentWork = {<<"loader", 0>>}  BY <3>3, <4>1, <5>1
          <5> QED  BY <5>2
        <4>2. CASE loader = None /\ One(tasks) /\ Dead(replies)
          <5>1. Counted(replies, a) = {}  BY <3>2, <4>2, CountedWork
          <5>2. PICK i : Counted(tasks, a) = {i}  BY <3>2, <4>2, CountedWork
          <5>3. CurrentWork = {<<"task", i>>}  BY <3>3, <4>2, <5>1, <5>2
          <5> QED  BY <5>3
        <4>3. CASE loader = None /\ Dead(tasks) /\ One(replies)
          <5>1. Counted(tasks, a) = {}  BY <3>2, <4>3, CountedWork
          <5>2. PICK i : Counted(replies, a) = {i}  BY <3>2, <4>3, CountedWork
          <5>3. CurrentWork = {<<"reply", i>>}  BY <3>3, <4>3, <5>1, <5>2
          <5> QED  BY <5>3
        <4> QED  BY <3>2, <4>1, <4>2, <4>3 DEF OneOf
      <3> QED  BY <3>4, FS_Singleton
    <2>2. \A id \in Known : entries[id].notBefore <= entries[id].due
      BY <1>1 DEF IInv, Timing
    <2> QED  BY <1>1, <2>1, <2>2 DEF IInv, Scheduled, RefreshGoesOn
  <1> QED  BY <1>1, Invariance, PTL

-----------------------------------------------------------------------------
(* Sums *)

(* A set of natural numbers that is not empty has a least one.              *)
LEMMA LeastNatural ==
    ASSUME NEW T \in SUBSET Nat, T # {}
    PROVE  \E x \in T : \A y \in T : x <= y
  <1>1. PICK R : R = OpToRel(<, Nat)  OBVIOUS
  <1>2. IsWellFoundedOn(R, Nat)  BY <1>1, NatLessThanWellFounded
  <1>3. \A x, y \in Nat : <<y, x>> \in R <=> y < x  BY <1>1 DEF OpToRel
  <1>4. PICK x \in T : \A y \in T : ~(<<y, x>> \in R)  BY <1>2, WFMin
  <1>5. ASSUME NEW y \in T PROVE x <= y
    <2>1. x \in Nat /\ y \in Nat /\ ~(<<y, x>> \in R)  BY <1>4
    <2>2. ~(y < x)  BY <1>3, <2>1
    <2> QED  BY <2>1, <2>2
  <1> QED  BY <1>5

(* Among subsets of a finite set one is smallest: no other is a part of it. *)
LEMMA SmallestSet ==
    ASSUME NEW S, IsFiniteSet(S), NEW B \in SUBSET (SUBSET S), B # {}
    PROVE  \E T \in B : \A U \in SUBSET T : U # T => U \notin B
  <1> DEFINE N == {Cardinality(T) : T \in B}
  <1>1. \A T \in B : IsFiniteSet(T) /\ Cardinality(T) \in Nat  BY FS_Subset, FS_CardinalityType
  <1>2. N \in SUBSET Nat /\ N # {}  BY <1>1
  <1>3. PICK n \in N : \A m \in N : n <= m
    <2> HIDE DEF N
    <2> QED  BY <1>2, LeastNatural
  <1>4. PICK T \in B : n = Cardinality(T)  BY <1>3
  <1>5. ASSUME NEW U \in SUBSET T, U # T, U \in B PROVE FALSE
    <2>1. Cardinality(U) <= Cardinality(T) /\ Cardinality(U) # Cardinality(T)
      BY <1>1, <1>5, FS_Subset
    <2>2. Cardinality(T) <= Cardinality(U)  BY <1>3, <1>4, <1>5
    <2>3. Cardinality(T) \in Nat /\ Cardinality(U) \in Nat  BY <1>1, <1>5
    <2> QED  BY <2>1, <2>2, <2>3
  <1> QED  BY <1>5

(* The partial sums of w over the subsets of S, as MapThenSumSet has them.  *)
Pick(s) == CHOOSE x \in s : TRUE
IsSum(it, w, S) ==
    it = [s \in SUBSET S |-> IF s = {} THEN 0 ELSE w[Pick(s)] + it[s \ {Pick(s)}]]
Sum(w, S) == (CHOOSE it : IsSum(it, w, S))[S]

(* Sums of the same weights agree.                                          *)
LEMMA SumsAgree ==
    ASSUME NEW S, IsFiniteSet(S), NEW R \in SUBSET S, NEW w, NEW f, NEW g,
           IsSum(f, w, S), IsSum(g, w, R)
    PROVE  \A T \in SUBSET R : f[T] = g[T]
  <1> DEFINE B == {T \in SUBSET R : f[T] # g[T]}
  <1> SUFFICES ASSUME B # {} PROVE FALSE  OBVIOUS
  <1>1. PICK T \in B : \A U \in SUBSET T : U # T => U \notin B
    <2>1. IsFiniteSet(R) /\ B \in SUBSET (SUBSET R)  BY FS_Subset
    <2> HIDE DEF B
    <2> QED  BY <2>1, SmallestSet
  <1>2. T \in SUBSET R /\ T \in SUBSET S /\ f[T] # g[T]  BY <1>1
  <1> HIDE DEF B
  <1>3. /\ f[T] = IF T = {} THEN 0 ELSE w[Pick(T)] + f[T \ {Pick(T)}]
        /\ g[T] = IF T = {} THEN 0 ELSE w[Pick(T)] + g[T \ {Pick(T)}]
    BY <1>2, Zenon DEF IsSum
  <1>4. T # {} /\ Pick(T) \in T  BY <1>2, <1>3 DEF Pick
  <1>5. f[T \ {Pick(T)}] = g[T \ {Pick(T)}]  BY <1>1, <1>2, <1>4 DEF B
  <1> QED  BY <1>2, <1>3, <1>5

LEMMA SumExists ==
    ASSUME NEW S, IsFiniteSet(S), NEW w
    PROVE  \E it : IsSum(it, w, S)
  <1> DEFINE B == {T \in SUBSET S : ~\E it : IsSum(it, w, T)}
             V(T) == (CHOOSE it : IsSum(it, w, T))[T]
  <1> SUFFICES ASSUME B # {} PROVE FALSE  OBVIOUS
  <1>1. PICK T \in B : \A U \in SUBSET T : U # T => U \notin B
    <2>1. B \in SUBSET (SUBSET S)  OBVIOUS
    <2> HIDE DEF B
    <2> QED  BY <2>1, SmallestSet
  <1>2. T \in SUBSET S /\ ~\E it : IsSum(it, w, T)  BY <1>1
  <1>3. ASSUME NEW U \in SUBSET T, U # T PROVE IsSum(CHOOSE it : IsSum(it, w, U), w, U)
    BY <1>1, <1>2, <1>3
  <1> HIDE DEF B
  <1>4. ASSUME NEW U \in SUBSET T, U # T
        PROVE  V(U) = IF U = {} THEN 0 ELSE w[Pick(U)] + V(U \ {Pick(U)})
    <2> DEFINE f == CHOOSE it : IsSum(it, w, U)
               R == U \ {Pick(U)}
               g == CHOOSE it : IsSum(it, w, R)
    <2>1. IsSum(f, w, U)  BY <1>3, <1>4
    <2>2. V(U) = f[U] /\ V(R) = g[R]  OBVIOUS
    <2> HIDE DEF f
    <2>3. f[U] = IF U = {} THEN 0 ELSE w[Pick(U)] + f[R]
      <3>1. U \in SUBSET U  OBVIOUS
      <3> QED  BY <2>1, <3>1, Zenon DEF IsSum
    <2>4. ASSUME U # {} PROVE f[R] = g[R]
      <3>1. Pick(U) \in U  BY <2>4 DEF Pick
      <3>2. R \in SUBSET T /\ R # T /\ R \in SUBSET U  BY <1>4, <3>1
      <3>3. IsSum(g, w, R)  BY <1>3, <3>2
      <3>4. IsFiniteSet(U)  BY <1>2, <1>4, FS_Subset
      <3>5. R \in SUBSET R  OBVIOUS
      <3> HIDE DEF g, R
      <3> QED  BY <2>1, <3>2, <3>3, <3>4, <3>5, SumsAgree
    <2> HIDE DEF V, R, g
    <2> QED  BY <2>2, <2>3, <2>4 DEF R
  <1> DEFINE h == [s \in SUBSET T |-> IF s = {} THEN 0 ELSE w[Pick(s)] + V(s \ {Pick(s)})]
  <1>5. ASSUME NEW s \in SUBSET T
        PROVE  h[s] = IF s = {} THEN 0 ELSE w[Pick(s)] + h[s \ {Pick(s)}]
    <2> HIDE DEF V
    <2>1. CASE s = {}  BY <2>1
    <2>2. CASE s # {}
      <3> DEFINE U == s \ {Pick(s)}
      <3>1. Pick(s) \in s  BY <2>2 DEF Pick
      <3>2. U \in SUBSET T /\ U # T  BY <3>1
      <3>3. h[U] = V(U)
        <4> HIDE DEF U
        <4>1. h[U] = IF U = {} THEN 0 ELSE w[Pick(U)] + V(U \ {Pick(U)})  BY <3>2
        <4>2. V(U) = IF U = {} THEN 0 ELSE w[Pick(U)] + V(U \ {Pick(U)})  BY <3>2, <1>4
        <4> QED  BY <4>1, <4>2, Zenon
      <3>4. h[s] = w[Pick(s)] + V(U)  BY <2>2
      <3> QED  BY <2>2, <3>3, <3>4
    <2> QED  BY <2>1, <2>2
  <1>6. h = [s \in SUBSET T |-> h[s]]  OBVIOUS
  <1> HIDE DEF h
  <1>7. IsSum(h, w, T)  BY <1>5, <1>6 DEF IsSum
  <1> QED  BY <1>2, <1>7

(* A sum is that of any element and the others.                             *)
LEMMA SumParts ==
    ASSUME NEW S, IsFiniteSet(S), NEW w, \A x \in S : w[x] \in Nat, NEW f, IsSum(f, w, S)
    PROVE  \A T \in SUBSET S : f[T] \in Nat /\ \A x \in T : f[T] = w[x] + f[T \ {x}]
  <1> DEFINE Good(T) == f[T] \in Nat /\ \A x \in T : f[T] = w[x] + f[T \ {x}]
             B == {T \in SUBSET S : ~Good(T)}
  <1> SUFFICES ASSUME B # {} PROVE FALSE  OBVIOUS
  <1>1. PICK T \in B : \A U \in SUBSET T : U # T => U \notin B
    <2>1. B \in SUBSET (SUBSET S)  OBVIOUS
    <2> HIDE DEF B
    <2> QED  BY <2>1, SmallestSet
  <1>2. T \in SUBSET S /\ ~Good(T)  BY <1>1
  <1>3. ASSUME NEW U \in SUBSET T, U # T PROVE Good(U)  BY <1>1, <1>2, <1>3
  <1> HIDE DEF B
  <1> DEFINE y == Pick(T)
  <1>4. f[T] = IF T = {} THEN 0 ELSE w[y] + f[T \ {y}]  BY <1>2, Zenon DEF IsSum
  <1>5. CASE T = {}  BY <1>2, <1>4, <1>5
  <1>6. CASE T # {}
    <2>1. y \in T /\ y \in S  BY <1>2, <1>6 DEF Pick
    <2> HIDE DEF y
    <2>2. T \ {y} \in SUBSET T /\ T \ {y} # T  BY <2>1
    <2>3. f[T \ {y}] \in Nat /\ w[y] \in Nat  BY <1>3, <2>1, <2>2
    <2>4. f[T] = w[y] + f[T \ {y}]  BY <1>4, <1>6
    <2>5. ASSUME NEW x \in T, x # y PROVE f[T] = w[x] + f[T \ {x}]
      <3> DEFINE R == (T \ {y}) \ {x}
      <3>1. T \ {x} \in SUBSET T /\ T \ {x} # T /\ x \in T \ {y} /\ y \in T \ {x}
        BY <2>1, <2>5
      <3>2. R \in SUBSET T /\ R # T /\ R = (T \ {x}) \ {y}  BY <2>1
      <3>3. f[T \ {y}] = w[x] + f[R]  BY <1>3, <2>2, <3>1
      <3>4. f[T \ {x}] = w[y] + f[R]  BY <1>3, <3>1, <3>2
      <3>5. f[R] \in Nat /\ w[x] \in Nat  BY <1>2, <1>3, <2>5, <3>2
      <3> HIDE DEF R
      <3> QED  BY <2>3, <2>4, <3>3, <3>4, <3>5
    <2>6. f[T] \in Nat  BY <2>3, <2>4
    <2>7. \A x \in T : f[T] = w[x] + f[T \ {x}]  BY <2>4, <2>5
    <2> QED  BY <1>2, <2>6, <2>7
  <1> QED  BY <1>5, <1>6

LEMMA SumSplit ==
    ASSUME NEW S, IsFiniteSet(S), NEW w, \A x \in S : w[x] \in Nat
    PROVE  Sum(w, S) \in Nat /\ \A x \in S : Sum(w, S) = w[x] + Sum(w, S \ {x})
  <1> DEFINE f == CHOOSE it : IsSum(it, w, S)
  <1>1. IsSum(f, w, S)  BY SumExists
  <1>2. Sum(w, S) = f[S]  BY DEF Sum
  <1> HIDE DEF f
  <1>3. S \in SUBSET S  OBVIOUS
  <1>4. f[S] \in Nat /\ \A x \in S : f[S] = w[x] + f[S \ {x}]  BY <1>1, <1>3, SumParts
  <1>5. ASSUME NEW x \in S PROVE f[S \ {x}] = Sum(w, S \ {x})
    <2> DEFINE R == S \ {x}
               g == CHOOSE it : IsSum(it, w, R)
    <2>1. R \in SUBSET S /\ R \in SUBSET R  OBVIOUS
    <2>2. IsFiniteSet(R)  BY <2>1, FS_Subset
    <2>3. Sum(w, R) = g[R]  BY DEF Sum
    <2> HIDE DEF R
    <2>4. IsSum(g, w, R)  BY <2>2, SumExists
    <2> HIDE DEF g
    <2>5. f[R] = g[R]  BY <1>1, <2>1, <2>4, SumsAgree
    <2> QED  BY <2>3, <2>5 DEF R
  <1> QED  BY <1>2, <1>4, <1>5

LEMMA SumEmpty ==
    ASSUME NEW w
    PROVE  Sum(w, {}) = 0
  <1> DEFINE f == CHOOSE it : IsSum(it, w, {})
  <1>1. IsSum(f, w, {})  BY SumExists, FS_EmptySet
  <1>2. Sum(w, {}) = f[{}]  BY DEF Sum
  <1> HIDE DEF f
  <1>3. {} \in SUBSET {}  OBVIOUS
  <1>4. f[{}] = 0  BY <1>1, <1>3 DEF IsSum
  <1> QED  BY <1>2, <1>4

(* Smaller weights have a smaller sum.                                      *)
LEMMA SumMonotone ==
    ASSUME NEW S, IsFiniteSet(S), NEW w, NEW v,
           \A x \in S : w[x] \in Nat /\ v[x] \in Nat /\ w[x] <= v[x]
    PROVE  Sum(w, S) <= Sum(v, S)
  <1> DEFINE B == {T \in SUBSET S : ~(Sum(w, T) <= Sum(v, T))}
  <1> SUFFICES ASSUME B # {} PROVE FALSE  OBVIOUS
  <1>1. PICK T \in B : \A U \in SUBSET T : U # T => U \notin B
    <2>1. B \in SUBSET (SUBSET S)  OBVIOUS
    <2> HIDE DEF B
    <2> QED  BY <2>1, SmallestSet
  <1>2. T \in SUBSET S /\ ~(Sum(w, T) <= Sum(v, T))  BY <1>1
  <1>3. T # {}  BY <1>2, SumEmpty
  <1>4. PICK x : x \in T  BY <1>3
  <1> DEFINE U == T \ {x}
  <1>5. U \in SUBSET T /\ U # T /\ U \in SUBSET S  BY <1>2, <1>4
  <1>6. Sum(w, U) <= Sum(v, U)  BY <1>1, <1>5
  <1>7. IsFiniteSet(T) /\ IsFiniteSet(U)  BY <1>2, <1>5, FS_Subset
  <1> HIDE DEF B
  <1>8. Sum(w, T) = w[x] + Sum(w, U) /\ Sum(v, T) = v[x] + Sum(v, U)
    BY <1>2, <1>4, <1>7, SumSplit
  <1>9. Sum(w, U) \in Nat /\ Sum(v, U) \in Nat
    <2>1. \A z \in U : w[z] \in Nat /\ v[z] \in Nat  BY <1>5
    <2> HIDE DEF U
    <2> QED  BY <1>7, <2>1, SumSplit
  <1>10. w[x] \in Nat /\ v[x] \in Nat /\ w[x] <= v[x]  BY <1>2, <1>4
  <1> HIDE DEF U
  <1> QED  BY <1>2, <1>6, <1>8, <1>9, <1>10

(* The records of each source, which TotalRecords sums.                     *)
Records(e) ==
    [id \in Ids |-> IF e[id] # None /\ e[id].rules # None THEN e[id].rules.size ELSE 0]

LEMMA TotalIsSum ==
    ASSUME NEW e, NEW ids \in SUBSET Ids
    PROVE  TotalRecords(e, ids) = Sum(Records(e), ids)
  <1> DEFINE w == Records(e)
             Raw(it) == [s \in SUBSET ids |->
                 IF s = {} THEN 0
                 ELSE LET x == CHOOSE x \in s : TRUE
                      IN (IF e[x] # None /\ e[x].rules # None THEN e[x].rules.size ELSE 0)
                         + it[s \ {x}]]
             F == CHOOSE it : it = Raw(it)
             G == CHOOSE it : IsSum(it, w, ids)
  <1>1. TotalRecords(e, ids) = F[ids]
    BY DEF TotalRecords, MapThenSumSet, MapThenFoldSet
  <1>2. ASSUME NEW it PROVE it = Raw(it) <=> IsSum(it, w, ids)
    <2> DEFINE Other == [s \in SUBSET ids |-> IF s = {} THEN 0 ELSE w[Pick(s)] + it[s \ {Pick(s)}]]
    <2>1. ASSUME NEW s \in SUBSET ids PROVE Raw(it)[s] = Other[s]
      <3>1. CASE s = {}  BY <3>1
      <3>2. CASE s # {}
        <4>1. Pick(s) \in Ids  BY <3>2 DEF Pick
        <4>2. w[Pick(s)] = IF e[Pick(s)] # None /\ e[Pick(s)].rules # None
                           THEN e[Pick(s)].rules.size ELSE 0
          BY <4>1 DEF Records
        <4> QED  BY <3>2, <4>2 DEF Pick
      <3> QED  BY <3>1, <3>2
    <2>2. Raw(it) = Other  BY <2>1
    <2> QED  BY <2>2 DEF IsSum
  <1>3. IsFiniteSet(ids)  BY BoundsAssumption, FS_Subset
  <1>4. \E it : IsSum(it, w, ids)  BY <1>3, SumExists
  <1>5. \E it : it = Raw(it)  BY <1>2, <1>4
  <1>6. F = Raw(F)  BY <1>5
  <1>7. IsSum(F, w, ids)  BY <1>2, <1>6
  <1>8. IsSum(G, w, ids)  BY <1>4
  <1>9. Sum(w, ids) = G[ids]  BY DEF Sum
  <1> HIDE DEF F, G, w
  <1>10. ids \in SUBSET ids  OBVIOUS
  <1>11. F[ids] = G[ids]  BY <1>3, <1>7, <1>8, <1>10, SumsAgree
  <1> QED  BY <1>1, <1>9, <1>11 DEF w

LEMMA KeptIsSum ==
    ASSUME NEW w, NEW kept \in SUBSET Ids,
           \A id \in Ids : w[id] = IF id \in kept THEN disk.cache[id].size ELSE 0
    PROVE  Sum(w, kept) = MapThenSumSet(LAMBDA id : disk.cache[id].size, kept)
  <1> DEFINE Raw(it) == [s \in SUBSET kept |->
                 IF s = {} THEN 0
                 ELSE LET x == CHOOSE x \in s : TRUE IN disk.cache[x].size + it[s \ {x}]]
             F == CHOOSE it : it = Raw(it)
             G == CHOOSE it : IsSum(it, w, kept)
  <1>1. MapThenSumSet(LAMBDA id : disk.cache[id].size, kept) = F[kept]
    BY DEF MapThenSumSet, MapThenFoldSet
  <1>2. ASSUME NEW it PROVE it = Raw(it) <=> IsSum(it, w, kept)
    <2> DEFINE Other == [s \in SUBSET kept |-> IF s = {} THEN 0 ELSE w[Pick(s)] + it[s \ {Pick(s)}]]
    <2>1. ASSUME NEW s \in SUBSET kept PROVE Raw(it)[s] = Other[s]
      <3>1. CASE s = {}  BY <3>1
      <3>2. CASE s # {}
        <4>1. Pick(s) \in kept /\ Pick(s) \in Ids  BY <3>2 DEF Pick
        <4>2. w[Pick(s)] = disk.cache[Pick(s)].size  BY <4>1
        <4> QED  BY <3>2, <4>2 DEF Pick
      <3> QED  BY <3>1, <3>2
    <2>2. Raw(it) = Other  BY <2>1
    <2> QED  BY <2>2 DEF IsSum
  <1>3. IsFiniteSet(kept)  BY BoundsAssumption, FS_Subset
  <1>4. \E it : IsSum(it, w, kept)  BY <1>3, SumExists
  <1>5. \E it : it = Raw(it)
    <2>1. PICK g : IsSum(g, w, kept)  BY <1>4
    <2> HIDE DEF Raw
    <2>2. g = Raw(g)  BY <1>2, <2>1
    <2> QED  BY <2>2
  <1>6. F = Raw(F)  BY <1>5
  <1>7. IsSum(F, w, kept)  BY <1>2, <1>6
  <1>8. IsSum(G, w, kept)  BY <1>4
  <1>9. Sum(w, kept) = G[kept]  BY DEF Sum
  <1> HIDE DEF F, G
  <1>10. kept \in SUBSET kept  OBVIOUS
  <1>11. F[kept] = G[kept]  BY <1>3, <1>7, <1>8, <1>10, SumsAgree
  <1> QED  BY <1>1, <1>9, <1>11

(* What weighs nothing adds nothing.                                        *)
LEMMA SumOutside ==
    ASSUME NEW w, NEW kept \in SUBSET Ids, \A x \in kept : w[x] \in Nat,
           \A x \in Ids \ kept : w[x] = 0
    PROVE  Sum(w, Ids) = Sum(w, kept)
  <1> DEFINE B == {T \in SUBSET Ids : Sum(w, T) # Sum(w, T \cap kept)}
  <1>1. \A x \in Ids : w[x] \in Nat  OBVIOUS
  <1>2. Ids \in SUBSET Ids /\ Ids \cap kept = kept  OBVIOUS
  <1> SUFFICES ASSUME B # {} PROVE FALSE  BY <1>2
  <1>3. PICK T \in B : \A U \in SUBSET T : U # T => U \notin B
    <2>1. B \in SUBSET (SUBSET Ids)  OBVIOUS
    <2> HIDE DEF B
    <2> QED  BY <2>1, BoundsAssumption, SmallestSet
  <1>4. T \in SUBSET Ids /\ Sum(w, T) # Sum(w, T \cap kept)  BY <1>3
  <1>5. PICK x : x \in T /\ x \notin kept
    <2>1. T # T \cap kept  BY <1>4
    <2> QED  BY <2>1
  <1> DEFINE U == T \ {x}
  <1>6. U \in SUBSET T /\ U # T /\ U \in SUBSET Ids /\ U \cap kept = T \cap kept  BY <1>4, <1>5
  <1>7. Sum(w, U) = Sum(w, U \cap kept)  BY <1>3, <1>6
  <1>8. IsFiniteSet(T) /\ IsFiniteSet(U)  BY <1>4, <1>6, BoundsAssumption, FS_Subset
  <1>9. Sum(w, T) = w[x] + Sum(w, U)  BY <1>1, <1>4, <1>5, <1>8, SumSplit
  <1>10. Sum(w, U) \in Nat
    <2>1. \A z \in U : w[z] \in Nat  BY <1>1, <1>6
    <2> HIDE DEF U
    <2> QED  BY <1>8, <2>1, SumSplit
  <1>11. w[x] = 0  BY <1>4, <1>5
  <1> HIDE DEF U
  <1> QED  BY <1>4, <1>6, <1>7, <1>9, <1>10, <1>11

-----------------------------------------------------------------------------
(* The limit of all rules together *)

(* A list that was measured still fits beside those of the other sources.   *)
Measured(e, w) == w.rules # None /\ w.rules.size + Sum(Records(e), Ids \ {w.id}) <= MaxTotal
Writing(w) == w.current /\ w.kind \in {"install", "installed"}
MeasuredIn(q, e) == \A i \in 1..Len(q) : Writing(q[i]) => Measured(e, q[i])

(* The records of the rules that Restore found.                             *)
Restored(w) == [id \in Ids |-> IF id \in DOMAIN w.rules THEN w.rules[id].size ELSE 0]

Limited ==
    /\ Sum(Records(entries), Ids) <= MaxTotal
    /\ sys.ready => MeasuredIn(tasks, entries) /\ MeasuredIn(replies, entries)
    /\ ~sys.ready =>
           /\ \A id \in Ids : entries[id] # None => entries[id].rules = None
           /\ replies # <<>> => Sum(Restored(replies[1]), Ids) <= MaxTotal

(* f holds no rules that e does not hold.                                   *)
Fewer(e, f) ==
    \A id \in Ids : f[id] # None /\ f[id].rules # None => e[id] # None /\ e[id].rules = f[id].rules

LEMMA RecordsType ==
    ASSUME NEW e \in [Ids -> Entries \cup {None}], NEW ids \in SUBSET Ids
    PROVE  IsFiniteSet(ids) /\ (\A x \in ids : Records(e)[x] \in Nat) /\ Sum(Records(e), ids) \in Nat
  <1>1. ASSUME NEW x \in ids PROVE Records(e)[x] \in Nat
    <2>1. e[x] # None /\ e[x].rules # None => e[x].rules.size \in Nat
      <3>1. e[x] # None => e[x] \in Entries  OBVIOUS
      <3>2. e[x] # None => e[x].rules \in Lists \cup {None}  BY <3>1 DEF Entries
      <3> QED  BY <3>2, BoundsAssumption DEF Lists
    <2> QED  BY <2>1 DEF Records
  <1>2. IsFiniteSet(ids)  BY BoundsAssumption, FS_Subset
  <1> QED  BY <1>1, <1>2, SumSplit

LEMMA FewerSum ==
    ASSUME NEW e \in [Ids -> Entries \cup {None}], NEW f \in [Ids -> Entries \cup {None}],
           Fewer(e, f), NEW ids \in SUBSET Ids
    PROVE  /\ Sum(Records(f), ids) <= Sum(Records(e), ids)
           /\ Sum(Records(f), ids) \in Nat /\ Sum(Records(e), ids) \in Nat
  <1>1. /\ IsFiniteSet(ids) /\ Sum(Records(f), ids) \in Nat /\ Sum(Records(e), ids) \in Nat
        /\ \A x \in ids : Records(e)[x] \in Nat /\ Records(f)[x] \in Nat
    BY RecordsType
  <1>2. ASSUME NEW x \in ids PROVE Records(f)[x] <= Records(e)[x]
    <2>1. Records(f)[x] = 0 \/ Records(f)[x] = Records(e)[x]  BY DEF Fewer, Records
    <2> QED  BY <1>1, <2>1
  <1>3. Sum(Records(f), ids) <= Sum(Records(e), ids)  BY <1>1, <1>2, SumMonotone
  <1> QED  BY <1>1, <1>3

LEMMA FewerMeasured ==
    ASSUME NEW e \in [Ids -> Entries \cup {None}], NEW f \in [Ids -> Entries \cup {None}],
           Fewer(e, f), NEW w, w.rules # None => w.rules \in Lists, Measured(e, w)
    PROVE  Measured(f, w)
  <1> DEFINE a == Sum(Records(e), Ids \ {w.id})
             b == Sum(Records(f), Ids \ {w.id})
  <1>1. b <= a /\ a \in Nat /\ b \in Nat  BY FewerSum
  <1>2. w.rules # None /\ w.rules.size + a <= MaxTotal  BY DEF Measured
  <1>3. w.rules.size \in Nat /\ MaxTotal \in Nat  BY <1>2, BoundsAssumption DEF Lists
  <1> HIDE DEF a, b
  <1>4. w.rules.size + b <= MaxTotal  BY <1>1, <1>2, <1>3
  <1> QED  BY <1>2, <1>4 DEF Measured, b

LEMMA NoRecords ==
    ASSUME NEW e \in [Ids -> Entries \cup {None}],
           \A id \in Ids : e[id] # None => e[id].rules = None
    PROVE  Sum(Records(e), Ids) = 0
  <1> DEFINE B == {T \in SUBSET Ids : Sum(Records(e), T) # 0}
  <1>1. \A x \in Ids : Records(e)[x] = 0  BY DEF Records
  <1> SUFFICES ASSUME B # {} PROVE FALSE  OBVIOUS
  <1>2. PICK T \in B : \A U \in SUBSET T : U # T => U \notin B
    <2>1. B \in SUBSET (SUBSET Ids)  OBVIOUS
    <2> HIDE DEF B
    <2> QED  BY <2>1, BoundsAssumption, SmallestSet
  <1>3. T \in SUBSET Ids /\ Sum(Records(e), T) # 0  BY <1>2
  <1>4. PICK x : x \in T  BY <1>3, SumEmpty
  <1>5. Sum(Records(e), T \ {x}) = 0  BY <1>2, <1>3, <1>4
  <1> HIDE DEF B
  <1>6. Sum(Records(e), T) = Records(e)[x] + Sum(Records(e), T \ {x})
    BY <1>3, <1>4, RecordsType, SumSplit
  <1> QED  BY <1>1, <1>3, <1>4, <1>5, <1>6

(* What follows when a step only gives up rules.                            *)
LEMMA FewerLimited ==
    ASSUME IInv, IInv', Limited, sys.ready, sys'.ready, Fewer(entries, entries'),
           MeasuredIn(tasks', entries), MeasuredIn(replies', entries)
    PROVE  Limited'
  <1>1. /\ entries \in [Ids -> Entries \cup {None}]
        /\ entries' \in [Ids -> Entries \cup {None}]
    BY DEF IInv, Typed
  <1>2. Sum(Records(entries'), Ids) <= MaxTotal
    <2> DEFINE a == Sum(Records(entries), Ids)
               b == Sum(Records(entries'), Ids)
    <2>1. b <= a /\ a \in Nat /\ b \in Nat  BY <1>1, FewerSum
    <2>2. a <= MaxTotal /\ MaxTotal \in Nat  BY BoundsAssumption DEF Limited
    <2> HIDE DEF a, b
    <2>3. b <= MaxTotal  BY <2>1, <2>2
    <2> QED  BY <2>3 DEF b
  <1>3. /\ tasks' \in Seq(Live(sys'.active, entries'))
        /\ replies' \in Seq(Live(sys'.active, entries'))
    BY DEF IInv, Working, WorkOK
  <1>4. /\ \A i \in 1..Len(tasks') : tasks'[i].rules # None => tasks'[i].rules \in Lists
        /\ \A i \in 1..Len(replies') : replies'[i].rules # None => replies'[i].rules \in Lists
    <2>1. \A a, e : \A w \in Live(a, e) : w.rules # None => w.rules \in Lists  BY DEF Live, Works
    <2> QED  BY <1>3, <2>1
  <1>5. MeasuredIn(tasks', entries') /\ MeasuredIn(replies', entries')
    <2>1. ASSUME NEW i \in 1..Len(tasks'), Writing(tasks'[i]) PROVE Measured(entries', tasks'[i])
      <3>1. Measured(entries, tasks'[i])  BY <2>1 DEF MeasuredIn
      <3> QED  BY <1>1, <1>4, <3>1, FewerMeasured
    <2>2. ASSUME NEW i \in 1..Len(replies'), Writing(replies'[i]) PROVE Measured(entries', replies'[i])
      <3>1. Measured(entries, replies'[i])  BY <2>2 DEF MeasuredIn
      <3> QED  BY <1>1, <1>4, <3>1, FewerMeasured
    <2> QED  BY <2>1, <2>2 DEF MeasuredIn
  <1> QED  BY <1>2, <1>5 DEF Limited

(* Queues of work *)
LEMMA MeasuredTail ==
    ASSUME NEW S, NEW q \in Seq(S), q # <<>>, NEW e, MeasuredIn(q, e)
    PROVE  MeasuredIn(Tail(q), e) /\ (Writing(Head(q)) => Measured(e, Head(q)))
  <1>1. /\ Len(Tail(q)) = Len(q) - 1 /\ Len(q) \in Nat /\ Len(q) # 0 /\ Head(q) = q[1]
        /\ \A i \in 1..Len(Tail(q)) : Tail(q)[i] = q[i + 1] /\ i + 1 \in 1..Len(q)
    OBVIOUS
  <1> QED  BY <1>1 DEF MeasuredIn

LEMMA MeasuredAppend ==
    ASSUME NEW S, NEW q \in Seq(S), NEW e, MeasuredIn(q, e), NEW v, Writing(v) => Measured(e, v)
    PROVE  MeasuredIn(Append(q, v), e)
  <1>1. /\ Len(Append(q, v)) = Len(q) + 1 /\ Len(q) \in Nat
        /\ \A i \in 1..(Len(q) + 1) : Append(q, v)[i] = IF i = Len(q) + 1 THEN v ELSE q[i]
    OBVIOUS
  <1> QED  BY <1>1 DEF MeasuredIn

LEMMA MeasuredSuperseded ==
    ASSUME NEW a, NEW f, NEW q \in Seq(Live(a, f)), NEW e, MeasuredIn(q, e), NEW id
    PROVE  MeasuredIn(Superseded(q, id), e)
  <1>1. \A i \in 1..Len(q) : q[i] \in Live(a, f)  OBVIOUS
  <1>2. ASSUME NEW i \in 1..Len(q)
        PROVE  Writing(Superseded(q, id)[i]) => Superseded(q, id)[i] = q[i]
    <2>1. Superseded(q, id)[i] = IF q[i].id = id THEN [q[i] EXCEPT !.current = FALSE] ELSE q[i]
      BY SupersededEach
    <2>2. q[i] \in Works  BY <1>1 DEF Live
    <2>3. ~[q[i] EXCEPT !.current = FALSE].current  BY <2>2 DEF Works
    <2> QED  BY <2>1, <2>3 DEF Writing
  <1>3. Len(Superseded(q, id)) = Len(q)
    <2>1. DOMAIN Superseded(q, id) = 1..Len(q)  BY SupersededEach
    <2> DEFINE T == {Superseded(q, id)[i] : i \in 1..Len(q)}
    <2>2. \A i \in 1..Len(q) : Superseded(q, id)[i] \in T  OBVIOUS
    <2> HIDE DEF T
    <2> QED  BY <2>2, SupersededSeq
  <1> QED  BY <1>2, <1>3 DEF MeasuredIn

LEMMA MeasuredConcat ==
    ASSUME NEW S, NEW q \in Seq(S), NEW e, MeasuredIn(q, e),
           NEW R, NEW d \in Seq(R), \A i \in 1..Len(d) : ~d[i].current
    PROVE  MeasuredIn(q \o d, e)
  <1>1. /\ Len(q \o d) = Len(q) + Len(d) /\ Len(q) \in Nat /\ Len(d) \in Nat
        /\ \A i \in 1..(Len(q) + Len(d)) : (q \o d)[i] = IF i <= Len(q) THEN q[i] ELSE d[i - Len(q)]
    OBVIOUS
  <1>2. ASSUME NEW i \in 1..Len(q \o d), Writing((q \o d)[i]) PROVE Measured(e, (q \o d)[i])
    <2>1. CASE i <= Len(q)
      <3>1. i \in 1..Len(q) /\ (q \o d)[i] = q[i]  BY <1>1, <2>1
      <3> QED  BY <1>2, <3>1 DEF MeasuredIn
    <2>2. CASE ~(i <= Len(q))
      <3>1. i - Len(q) \in 1..Len(d) /\ (q \o d)[i] = d[i - Len(q)]  BY <1>1, <2>2
      <3> QED  BY <1>2, <3>1 DEF Writing
    <2> QED  BY <2>1, <2>2
  <1> QED  BY <1>2 DEF MeasuredIn

LEMMA ReadyWork ==
    ASSUME IInv, Limited, sys.ready
    PROVE  /\ tasks \in Seq(Live(sys.active, entries)) /\ replies \in Seq(Live(sys.active, entries))
           /\ MeasuredIn(tasks, entries) /\ MeasuredIn(replies, entries)
           /\ entries \in [Ids -> Entries \cup {None}] /\ sys \in Systems
  BY DEF IInv, Working, WorkOK, Limited, Typed, Systems

LEMMA FewerSame == \A e : Fewer(e, e)
  BY DEF Fewer

(* One entry changes and keeps its rules or gives them up.                  *)
LEMMA FewerChange ==
    ASSUME NEW e \in [Ids -> Entries \cup {None}], NEW id \in Ids, NEW y,
           y # None => y.rules = None \/ (e[id] # None /\ y.rules = e[id].rules)
    PROVE  Fewer(e, [e EXCEPT ![id] = y])
  BY DEF Fewer

-----------------------------------------------------------------------------
(* Each action keeps the limit *)

LEMMA InitLimited == Init => Limited
  <1> SUFFICES ASSUME Init PROVE Limited  OBVIOUS
  <1> DEFINE e == entries
             z == [id \in Ids |-> 0]
  <1>1. e \in [Ids -> Entries \cup {None}] /\ \A id \in Ids : e[id] = None  BY DEF Init
  <1>2. Records(e) = z  BY <1>1 DEF Records
  <1>3. ~sys.ready /\ replies = <<>>  BY DEF Init
  <1>4. Sum(Records(e), Ids) = 0  BY <1>1, NoRecords
  <1> QED  BY <1>1, <1>3, <1>4, BoundsAssumption DEF Limited

LEMMA CommitLimited ==
    ASSUME IInv, Limited, CommitPendingWrite
    PROVE  Limited'
  BY DEF CommitPendingWrite, Limited

LEMMA CrashLimited ==
    ASSUME IInv, IInv', Limited, Crash
    PROVE  Limited'
  <1>1. /\ entries' = [id \in Ids |-> IF disk.configs[id] = None THEN None ELSE NewEntry(disk.configs[id])]
        /\ ~sys'.ready /\ replies' = <<>>
    BY DEF Crash, Start
  <1>2. \A id \in Ids : entries'[id] # None => entries'[id].rules = None
    BY <1>1 DEF NewEntry
  <1>3. entries' \in [Ids -> Entries \cup {None}]  BY DEF IInv, Typed
  <1>4. Sum(Records(entries'), Ids) = 0  BY <1>2, <1>3, NoRecords
  <1> QED  BY <1>1, <1>2, <1>4, BoundsAssumption DEF Limited

(* Nothing but times changes.                                               *)
LEMMA SameLimited ==
    ASSUME IInv, IInv', Limited, Fewer(entries, entries'), tasks' = tasks, replies' = replies,
           sys'.ready <=> sys.ready
    PROVE  Limited'
  <1>1. CASE sys.ready
    <2>1. MeasuredIn(tasks', entries) /\ MeasuredIn(replies', entries)  BY <1>1 DEF Limited
    <2> QED  BY <1>1, <2>1, FewerLimited
  <1>2. CASE ~sys.ready
    <2>1. \A id \in Ids : entries'[id] # None => entries'[id].rules = None
      BY <1>2 DEF Limited, Fewer
    <2>2. Sum(Records(entries'), Ids) = 0  BY <2>1, NoRecords DEF IInv, Typed
    <2> QED  BY <1>2, <2>1, <2>2, BoundsAssumption DEF Limited
  <1> QED  BY <1>1, <1>2

LEMMA TimeLimited ==
    ASSUME IInv, IInv', Limited, TimePasses
    PROVE  Limited'
  <1>1. /\ entries' = [id \in Ids |-> IF entries[id] = None THEN None
                                      ELSE [entries[id] EXCEPT !.due = Larger(@ - 1, 0),
                                                               !.notBefore = Larger(@ - 1, 0)]]
        /\ UNCHANGED <<sys, tasks, replies>>
    BY DEF TimePasses
  <1>2. ASSUME NEW id \in Ids, entries[id] # None PROVE entries'[id].rules = entries[id].rules
    <2>1. entries[id] \in Entries  BY <1>2 DEF IInv, Typed
    <2> QED  BY <1>1, <1>2, <2>1 DEF Entries
  <1>3. Fewer(entries, entries')  BY <1>1, <1>2 DEF Fewer
  <1> QED  BY <1>1, <1>3, SameLimited

LEMMA AcquireLimited ==
    ASSUME IInv, IInv', Limited, Acquire
    PROVE  Limited'
  <1> DEFINE s == [sys EXCEPT !.clients = @ + 1]
  <1>1. sys' = Schedule(s, entries) /\ UNCHANGED <<entries, tasks, replies>>  BY DEF Acquire
  <1>2. s \in Systems /\ (s.ready <=> sys.ready)  BY DEF IInv, Typed, Systems
  <1> HIDE DEF s
  <1>3. sys'.ready <=> sys.ready  BY <1>1, <1>2, ScheduleKeeps
  <1> QED  BY <1>1, <1>3, FewerSame, SameLimited

LEMMA ReleaseLimited ==
    ASSUME IInv, IInv', Limited, Release
    PROVE  Limited'
  <1>1. /\ entries' = entries /\ sys'.ready = sys.ready
        /\ \/ UNCHANGED <<tasks, replies>>
           \/ tasks' = Superseded(tasks, sys.active) /\ replies' = Superseded(replies, sys.active)
    BY DEF Release, IInv, Typed
  <1>2. CASE UNCHANGED <<tasks, replies>>  BY <1>1, <1>2, FewerSame, SameLimited
  <1>3. CASE tasks' = Superseded(tasks, sys.active) /\ replies' = Superseded(replies, sys.active)
    <2>1. CASE sys.ready
      <3>1. MeasuredIn(tasks', entries) /\ MeasuredIn(replies', entries)
        BY <1>3, <2>1, ReadyWork, MeasuredSuperseded
      <3> QED  BY <1>1, <2>1, <3>1, FewerSame, FewerLimited
    <2>2. CASE ~sys.ready
      <3>1. replies' # <<>> => replies # <<>> /\ replies'[1].rules = replies[1].rules
        <4>1. CASE replies = <<>>  BY <1>3, <4>1 DEF Superseded
        <4>2. CASE replies # <<>>
          <5>1. PICK w : replies = <<w>> /\ DOMAIN w = DOMAIN RestoreTask
            BY <2>2, <4>2 DEF IInv, Booting
          <5>2. replies'[1] = IF w.id = sys.active THEN [w EXCEPT !.current = FALSE] ELSE w
            <6>1. DOMAIN replies = {1} /\ replies[1] = w  BY <5>1
            <6> QED  BY <1>3, <6>1 DEF Superseded
          <5>3. [w EXCEPT !.current = FALSE].rules = w.rules  OBVIOUS
          <5> QED  BY <4>2, <5>1, <5>2, <5>3
        <4> QED  BY <4>1, <4>2
      <3>2. replies' # <<>> => Restored(replies'[1]) = Restored(replies[1])  BY <3>1 DEF Restored
      <3> QED  BY <1>1, <2>2, <3>1, <3>2 DEF Limited
    <2> QED  BY <2>1, <2>2
  <1> QED  BY <1>1, <1>2, <1>3

LEMMA RestoreLimited ==
    ASSUME IInv, IInv', Limited, NEW kept \in SUBSET Ids, Restore(kept)
    PROVE  Limited'
  <1> DEFINE r == [RestoreTask EXCEPT !.rules = [id \in kept |-> disk.cache[id]]]
             w == Restored(r)
  <1>1. /\ tasks # <<>> /\ Head(tasks).kind = "restore"
        /\ kept \subseteq {id \in Known : DecodeSubscriptionCache(disk.cache[id], entries[id].url)}
        /\ MapThenSumSet(LAMBDA id : disk.cache[id].size, kept) <= MaxTotal
        /\ replies' = Append(replies, r)
        /\ UNCHANGED <<entries, sys>>
    BY DEF Restore
  <1>2. ~sys.ready  BY <1>1, WorkerReady
  <1>3. replies = <<>>  BY <1>1, <1>2 DEF IInv, Booting
  <1>4. r.rules = [id \in kept |-> disk.cache[id]]  BY DEF RestoreTask
  <1>5. \A id \in Ids : w[id] = IF id \in kept THEN disk.cache[id].size ELSE 0
    BY <1>4 DEF Restored
  <1>6. \A id \in kept : disk.cache[id].size \in Nat
    <2>1. \A id \in kept : disk.cache[id] \in Lists
      BY <1>1 DEF IInv, Typed, DecodeSubscriptionCache
    <2> QED  BY <2>1, BoundsAssumption DEF Lists
  <1>7. Sum(w, kept) = MapThenSumSet(LAMBDA id : disk.cache[id].size, kept)
    <2> HIDE DEF w
    <2> QED  BY <1>5, KeptIsSum
  <1>8. Sum(w, Ids) = Sum(w, kept)
    <2> HIDE DEF w
    <2> QED  BY <1>5, <1>6, SumOutside
  <1>9. replies'[1] = r /\ replies' # <<>>
    <2> HIDE DEF r
    <2> QED  BY <1>1, <1>3
  <1> HIDE DEF r, w
  <1>10. Sum(Restored(replies'[1]), Ids) <= MaxTotal  BY <1>1, <1>7, <1>8, <1>9 DEF w
  <1> QED  BY <1>1, <1>2, <1>10 DEF Limited

LEMMA RestoredLimited ==
    ASSUME IInv, IInv', Limited, NEW delay \in {Soon, Period}, OnRestored(delay)
    PROVE  Limited'
  <1> DEFINE restored == Head(replies).rules
             e == [id \in Ids |-> IF id \in DOMAIN restored
                                  THEN [entries[id] EXCEPT !.rules = restored[id], !.due = delay]
                                  ELSE entries[id]]
             s == [sys EXCEPT !.ready = TRUE]
  <1>1. /\ replies # <<>> /\ Head(replies).kind = "restore"
        /\ replies' = Tail(replies) /\ entries' = e /\ sys' = Schedule(s, e) /\ tasks' = tasks
    BY DEF OnRestored
  <1>2. ~sys.ready  BY <1>1, ReplyReady
  <1>3. PICK w : tasks = <<>> /\ replies = <<w>> /\ Found(w)
    BY <1>1, <1>2 DEF IInv, Booting
  <1>4. restored = w.rules /\ replies' = <<>> /\ tasks' = <<>> /\ replies[1] = w
    <2>1. Head(replies) = w /\ Tail(replies) = <<>>  BY <1>3
    <2> QED  BY <1>1, <1>3, <2>1
  <1>5. s \in Systems /\ s.ready  BY DEF IInv, Typed, Systems
  <1> HIDE DEF s, restored
  <1>6. sys'.ready  BY <1>1, <1>5, ScheduleKeeps
  <1>7. ASSUME NEW id \in Ids
        PROVE  Records(e)[id] = Restored(w)[id]
    <2>1. CASE id \in DOMAIN restored
      <3>1. id \in Known /\ restored[id] \in Lists  BY <1>3, <1>4, <2>1 DEF Found
      <3>2. entries[id] \in Entries /\ entries[id] # None  BY <3>1 DEF IInv, Typed, Known
      <3> DEFINE y == [entries[id] EXCEPT !.rules = restored[id], !.due = delay]
      <3>3. e[id] = y  BY <2>1
      <3> HIDE DEF e
      <3>4. y.rules = restored[id] /\ y \in Entries
        BY <3>1, <3>2, DelaysAssumption DEF Entries
      <3>5. y # None /\ restored[id] # None  BY <3>1, <3>4, NoneAssumption
      <3> HIDE DEF y
      <3> QED  BY <1>4, <2>1, <3>3, <3>4, <3>5 DEF Records, Restored
    <2>2. CASE id \notin DOMAIN restored
      <3>1. e[id] = entries[id]  BY <2>2
      <3> HIDE DEF e
      <3>2. entries[id] # None => entries[id].rules = None  BY <1>2 DEF Limited
      <3> QED  BY <1>4, <2>2, <3>1, <3>2 DEF Records, Restored
    <2> QED  BY <2>1, <2>2
  <1>8. e \in [Ids -> Entries \cup {None}]  BY <1>1 DEF IInv, Typed
  <1> HIDE DEF e
  <1>9. Sum(Records(e), Ids) <= Sum(Restored(w), Ids)
    BY <1>7, <1>8, RecordsType, SumMonotone
  <1>10. Sum(Restored(w), Ids) <= MaxTotal  BY <1>1, <1>2, <1>4 DEF Limited
  <1>11. Sum(Records(e), Ids) \in Nat /\ Sum(Restored(w), Ids) \in Nat
    <2>1. \A id \in Ids : Restored(w)[id] \in Nat  BY <1>7, <1>8, RecordsType
    <2> QED  BY <1>8, <2>1, BoundsAssumption, RecordsType, SumSplit
  <1>12. Sum(Records(e), Ids) <= MaxTotal  BY <1>9, <1>10, <1>11, BoundsAssumption
  <1>13. MeasuredIn(<<>>, e)  BY DEF MeasuredIn
  <1> QED  BY <1>1, <1>4, <1>6, <1>12, <1>13 DEF Limited

LEMMA RefreshLimited ==
    ASSUME IInv, IInv', Limited, sys.ready, NEW id \in Ids, id \in Known, Refresh(id)
    PROVE  Limited'
  <1> DEFINE y == [entries[id] EXCEPT !.notBefore = Minute, !.due = Minute]
  <1>1. /\ sys' = [sys EXCEPT !.timer = FALSE, !.active = id]
        /\ entries' = [entries EXCEPT ![id].notBefore = Minute, ![id].due = Minute]
        /\ tasks' = Superseded(tasks, id) /\ replies' = Superseded(replies, id)
    BY DEF Refresh
  <1>2. sys'.ready  BY <1>1, ReadyWork DEF Systems
  <1>3. MeasuredIn(tasks', entries) /\ MeasuredIn(replies', entries)
    BY <1>1, ReadyWork, MeasuredSuperseded
  <1>4. entries[id] # None /\ entries[id] \in Entries  BY ReadyWork DEF Known
  <1>5. y.rules = entries[id].rules  BY <1>4 DEF Entries
  <1>6. entries' = [entries EXCEPT ![id] = y]  BY <1>1, ReadyWork
  <1> HIDE DEF y
  <1>7. Fewer(entries, entries')  BY <1>4, <1>5, <1>6, ReadyWork, FewerChange
  <1> QED  BY <1>2, <1>3, <1>7, FewerLimited

LEMMA TickLimited ==
    ASSUME IInv, IInv', Limited, NEW id \in Ids, Tick(id)
    PROVE  Limited'
  <1>1. sys.ready  BY DEF Tick, IInv, Booting
  <1>2. id \in Known  BY DEF Tick, Enabled, Known
  <1>3. CASE Refresh(id)  BY <1>1, <1>2, <1>3, RefreshLimited
  <1>4. CASE sys' = [sys EXCEPT !.timer = FALSE] /\ UNCHANGED <<entries, loader, tasks, replies>>
    <2>1. sys'.ready <=> sys.ready  BY <1>4 DEF IInv, Typed
    <2> QED  BY <1>4, <2>1, FewerSame, SameLimited
  <1> QED  BY <1>3, <1>4 DEF Tick

LEMMA FailLimited ==
    ASSUME IInv, IInv', Limited, sys.ready, NEW id \in Ids, id = sys.active, Fail(id),
           tasks' = tasks, MeasuredIn(replies', entries)
    PROVE  Limited'
  <1>1. sys'.ready  BY FailEffect
  <1>2. PICK delay : entries' = [entries EXCEPT ![id] = Failed(@, delay)]  BY DEF Fail
  <1>3. entries[id] # None /\ entries[id] \in Entries
    BY NoneAssumption DEF IInv, Typed, Scheduled, Enabled
  <1>4. Failed(entries[id], delay).rules = entries[id].rules  BY <1>3 DEF Failed, Entries
  <1>5. Fewer(entries, entries')  BY <1>2, <1>3, <1>4, ReadyWork, FewerChange
  <1>6. MeasuredIn(tasks', entries)  BY ReadyWork
  <1> QED  BY <1>1, <1>5, <1>6, FewerLimited

LEMMA DownloadedLimited ==
    ASSUME IInv, IInv', Limited, Downloaded
    PROVE  Limited'
  <1> DEFINE v == [loader EXCEPT !.kind = "parse"]
  <1>1. /\ loader # None /\ replies' = replies
        /\ \/ tasks' = Append(tasks, v) /\ UNCHANGED <<entries, sys>>
           \/ Fail(loader.id) /\ UNCHANGED tasks
    BY DEF Downloaded, OnDownloaded
  <1>2. sys.ready  BY <1>1 DEF IInv, Booting
  <1>3. loader \in Live(sys.active, entries) /\ loader.current
    BY <1>1, <1>2 DEF IInv, Working, WorkOK
  <1>4. loader \in Works /\ loader.id = sys.active /\ loader.id \in Ids
    BY <1>3 DEF Live, Works
  <1>5. MeasuredIn(tasks, entries) /\ MeasuredIn(replies, entries)  BY <1>2, ReadyWork
  <1>6. CASE Fail(loader.id) /\ UNCHANGED tasks
    BY <1>1, <1>2, <1>4, <1>5, <1>6, FailLimited
  <1>7. CASE tasks' = Append(tasks, v) /\ UNCHANGED <<entries, sys>>
    <2>1. ~Writing(v)  BY <1>4 DEF Works, Writing
    <2> HIDE DEF v
    <2>2. MeasuredIn(tasks', entries)  BY <1>2, <1>7, <2>1, ReadyWork, MeasuredAppend
    <2> QED  BY <1>1, <1>2, <1>5, <1>7, <2>2, FewerSame, FewerLimited
  <1> QED  BY <1>1, <1>6, <1>7

(* The worker takes a task and answers with v.                              *)
LEMMA AnsweredLimited ==
    ASSUME IInv, IInv', Limited, sys.ready, tasks # <<>>, tasks' = Tail(tasks),
           UNCHANGED <<entries, sys>>, NEW v, replies' = Append(replies, v),
           Writing(v) => Measured(entries, v)
    PROVE  Limited'
  <1>1. MeasuredIn(tasks', entries) /\ MeasuredIn(replies', entries)
    BY ReadyWork, MeasuredTail, MeasuredAppend
  <1> QED  BY <1>1, FewerSame, FewerLimited

LEMMA ParseLimited ==
    ASSUME IInv, IInv', Limited, NEW size \in Sizes \cup {None}, ParseDownload(size)
    PROVE  Limited'
  <1> DEFINE w == Head(tasks)
             v == [w EXCEPT !.rules = IF size = None THEN None ELSE [url |-> w.url, size |-> size]]
  <1>1. /\ tasks # <<>> /\ w.kind = "parse" /\ tasks' = Tail(tasks) /\ replies' = Append(replies, v)
        /\ UNCHANGED <<entries, sys>>
    BY DEF ParseDownload
  <1>2. sys.ready /\ w \in Live(sys.active, entries)  BY <1>1, WorkerReady
  <1>3. w \in Works  BY <1>2 DEF Live
  <1>4. v.kind = "parse"  BY <1>1, <1>3 DEF Works
  <1>5. ~Writing(v)  BY <1>4 DEF Writing
  <1> HIDE DEF v
  <1> QED  BY <1>1, <1>2, <1>5, AnsweredLimited

LEMMA InstallLimited ==
    ASSUME IInv, IInv', Limited, NEW ok \in BOOLEAN, Install(ok)
    PROVE  Limited'
  <1> DEFINE w == Head(tasks)
             v == [w EXCEPT !.kind = IF ok THEN "installed" ELSE "write_failed"]
  <1>1. /\ tasks # <<>> /\ w.kind = "install" /\ tasks' = Tail(tasks) /\ replies' = Append(replies, v)
        /\ UNCHANGED <<entries, sys>>
    BY DEF Install
  <1>2. sys.ready /\ w \in Live(sys.active, entries)  BY <1>1, WorkerReady
  <1>3. w \in Works  BY <1>2 DEF Live
  <1>4. v.id = w.id /\ v.rules = w.rules /\ (v.current <=> w.current)  BY <1>3 DEF Works
  <1>5. Writing(w) => Measured(entries, w)  BY <1>1, <1>2, ReadyWork, MeasuredTail
  <1> HIDE DEF v
  <1>6. Writing(v) => Measured(entries, v)  BY <1>1, <1>4, <1>5 DEF Writing, Measured
  <1> QED  BY <1>1, <1>2, <1>6, AnsweredLimited

LEMMA DeleteLimited ==
    ASSUME IInv, IInv', Limited, DeleteFile
    PROVE  Limited'
  <1>1. /\ tasks # <<>> /\ Head(tasks).kind = "delete" /\ tasks' = Tail(tasks)
        /\ UNCHANGED <<entries, sys, replies>>
    BY DEF DeleteFile
  <1>2. sys.ready  BY <1>1, WorkerReady
  <1>3. MeasuredIn(tasks', entries) /\ MeasuredIn(replies', entries)
    BY <1>1, <1>2, ReadyWork, MeasuredTail
  <1> QED  BY <1>1, <1>2, <1>3, FewerSame, FewerLimited

LEMMA ParsedLimited ==
    ASSUME IInv, IInv', Limited, OnParsed
    PROVE  Limited'
  <1> DEFINE w == Head(replies)
             v == [w EXCEPT !.kind = "install"]
  <1>1. /\ replies # <<>> /\ w.kind = "parse" /\ replies' = Tail(replies)
        /\ \/ UNCHANGED <<entries, sys, tasks>>
           \/ Current(w) /\ Fail(w.id) /\ UNCHANGED tasks
           \/ Fits(w) /\ tasks' = Append(tasks, v) /\ UNCHANGED <<entries, sys>>
    BY DEF OnParsed
  <1>2. sys.ready /\ w \in Live(sys.active, entries)  BY <1>1, ReplyReady
  <1>3. MeasuredIn(tasks, entries) /\ MeasuredIn(replies', entries)
    BY <1>1, <1>2, ReadyWork, MeasuredTail
  <1>4. CASE UNCHANGED <<entries, sys, tasks>>
    BY <1>2, <1>3, <1>4, FewerSame, FewerLimited
  <1>5. CASE Current(w) /\ Fail(w.id) /\ UNCHANGED tasks
    <2>1. w.id = sys.active /\ w.id \in Ids  BY <1>5 DEF Current, Enabled
    <2> HIDE DEF w
    <2> QED  BY <1>2, <1>3, <1>5, <2>1, FailLimited
  <1>6. CASE Fits(w) /\ tasks' = Append(tasks, v) /\ UNCHANGED <<entries, sys>>
    <2>1. w \in Works  BY <1>2 DEF Live
    <2>2. v.id = w.id /\ v.rules = w.rules  BY <2>1 DEF Works
    <2>3. Ids \ {w.id} \in SUBSET Ids  OBVIOUS
    <2>4. TotalRecords(entries, Ids \ {w.id}) = Sum(Records(entries), Ids \ {w.id})
      BY <2>3, TotalIsSum
    <2>5. Measured(entries, v)  BY <1>6, <2>2, <2>4 DEF Fits, Measured
    <2> HIDE DEF v
    <2>6. MeasuredIn(tasks', entries)  BY <1>2, <1>6, <2>5, ReadyWork, MeasuredAppend
    <2> QED  BY <1>2, <1>3, <1>6, <2>6, FewerSame, FewerLimited
  <1> QED  BY <1>1, <1>4, <1>5, <1>6

LEMMA InstalledLimited ==
    ASSUME IInv, IInv', Limited, OnInstalled
    PROVE  Limited'
  <1> DEFINE w == Head(replies)
             L == Live(sys.active, entries)
             e == [entries EXCEPT ![w.id].rules = w.rules, ![w.id].due = Period]
             s == [sys EXCEPT !.active = None]
  <1>1. /\ replies # <<>> /\ w.kind \in {"installed", "write_failed"} /\ replies' = Tail(replies)
        /\ UNCHANGED <<loader, tasks>>
        /\ \/ ~Current(w) /\ UNCHANGED <<entries, sys>>
           \/ Current(w) /\ Fail(w.id)
           \/ Current(w) /\ w.kind = "installed" /\ entries' = e /\ sys' = Schedule(s, e)
    BY DEF OnInstalled
  <1>2. sys.ready /\ w \in L
    <2>1. w.kind # "restore"  BY <1>1
    <2> QED  BY <1>1, <2>1, ReplyReady
  <1>3. /\ MeasuredIn(tasks, entries) /\ MeasuredIn(replies', entries)
        /\ Writing(w) => Measured(entries, w)
    BY <1>1, <1>2, ReadyWork, MeasuredTail
  <1>4. CASE UNCHANGED <<entries, sys>>
    BY <1>1, <1>2, <1>3, <1>4, FewerSame, FewerLimited
  <1>5. CASE Current(w) /\ Fail(w.id)
    <2>1. w.id = sys.active /\ w.id \in Ids  BY <1>5 DEF Current, Enabled
    <2> HIDE DEF w
    <2> QED  BY <1>1, <1>2, <1>3, <1>5, <2>1, FailLimited
  <1>6. CASE Current(w) /\ w.kind = "installed" /\ entries' = e /\ sys' = Schedule(s, e)
    <2>1. w.id = sys.active /\ w.id \in Ids /\ entries[w.id] # None /\ w.current
      BY <1>6 DEF Current, Enabled
    <2>2. /\ tasks \in Seq(L) /\ replies \in Seq(L) /\ OneOf(loader, tasks, replies)
      BY <1>2, <2>1, NoneAssumption DEF IInv, Working, WorkOK
    <2>3. s \in Systems /\ s.ready  BY <1>2 DEF IInv, Typed, Systems
    <2>4. Writing(w)  BY <1>6, <2>1 DEF Writing
    <2>5. Measured(entries, w)  BY <1>3, <2>4
    <2>6. w.rules \in Lists /\ w.rules # None
      BY <1>2, <2>5 DEF Live, Works, Measured
    <2>7. entries[w.id] \in Entries  BY <2>1 DEF IInv, Typed
    <2> HIDE DEF s
    <2>8. sys'.ready  BY <1>6, <2>3, ScheduleKeeps
    <2> HIDE DEF L
    <2>9. Dead(tasks) /\ Dead(Tail(replies))  BY <1>1, <2>1, <2>2, LastReply
    <2> HIDE DEF w
    <2>10. MeasuredIn(tasks', entries') /\ MeasuredIn(replies', entries')
      BY <1>1, <2>9 DEF MeasuredIn, Writing, Dead
    <2> DEFINE y == [entries[w.id] EXCEPT !.rules = w.rules, !.due = Period]
    <2>11. e = [entries EXCEPT ![w.id] = y]  BY <2>1 DEF IInv, Typed
    <2>12. y.rules = w.rules /\ y \in Entries /\ Period \in Nat
      BY <2>6, <2>7, DelaysAssumption DEF Entries
    <2>13. y # None  BY <2>12, NoneAssumption
    <2> HIDE DEF e, y
    <2>14. e[w.id] = y /\ (\A x \in Ids : x # w.id => e[x] = entries[x])
           /\ e \in [Ids -> Entries \cup {None}] /\ entries \in [Ids -> Entries \cup {None}]
      BY <2>1, <2>11, <2>12 DEF IInv, Typed
    <2> DEFINE others == Ids \ {w.id}
    <2>15. Records(e)[w.id] = w.rules.size  BY <2>1, <2>6, <2>12, <2>13, <2>14 DEF Records
    <2>16. \A x \in others : Records(e)[x] = Records(entries)[x]  BY <2>14 DEF Records
    <2>17. others \in SUBSET Ids /\ Ids \in SUBSET Ids  OBVIOUS
    <2>18. Sum(Records(e), Ids) = Records(e)[w.id] + Sum(Records(e), others)
      BY <2>1, <2>14, <2>17, RecordsType, SumSplit
    <2>19. w.rules.size + Sum(Records(entries), others) <= MaxTotal  BY <2>5 DEF Measured
    <2> HIDE DEF others
    <2>20. Sum(Records(e), others) <= Sum(Records(entries), others)
      <3>1. \A x \in others : /\ Records(e)[x] \in Nat /\ Records(entries)[x] \in Nat
                              /\ Records(e)[x] <= Records(entries)[x]
        BY <2>14, <2>16, <2>17, RecordsType
      <3> QED  BY <2>14, <2>17, <3>1, RecordsType, SumMonotone
    <2>21. /\ Sum(Records(e), others) \in Nat /\ Sum(Records(entries), others) \in Nat
           /\ w.rules.size \in Nat /\ MaxTotal \in Nat
      BY <2>6, <2>14, <2>17, RecordsType, BoundsAssumption DEF Lists
    <2>22. Sum(Records(e), Ids) <= MaxTotal  BY <2>15, <2>18, <2>19, <2>20, <2>21
    <2> QED  BY <1>6, <2>8, <2>10, <2>22 DEF Limited
  <1> QED  BY <1>1, <1>4, <1>5, <1>6

LEMMA ChangedReady ==
    ASSUME IInv, Limited, sys.ready, NEW e, NEW a \in Ids \cup {None}, Changed(e, a)
    PROVE  entries' = e /\ sys'.ready
  <1> DEFINE s == [sys EXCEPT !.active = a]
  <1>1. entries' = e /\ sys' = Schedule(s, e)  BY DEF Changed
  <1>2. s \in Systems /\ s.ready  BY ReadyWork DEF Systems
  <1> HIDE DEF s
  <1> QED  BY <1>1, <1>2, ScheduleKeeps

LEMMA AddLimited ==
    ASSUME IInv, IInv', Limited, NEW id \in Ids, NEW config, Add(id, config)
    PROVE  Limited'
  <1> DEFINE y == NewEntry(config)
             e == [entries EXCEPT ![id] = y]
  <1>1. sys.ready /\ Changed(e, sys.active) /\ UNCHANGED <<tasks, replies>>  BY DEF Add
  <1>2. sys.active \in Ids \cup {None}  BY DEF IInv, Typed
  <1>3. y.rules = None  BY DEF NewEntry
  <1> HIDE DEF y
  <1>4. Fewer(entries, e)
    <2>1. y # None => y.rules = None \/ (entries[id] # None /\ y.rules = entries[id].rules)
      BY <1>3
    <2>2. entries \in [Ids -> Entries \cup {None}]  BY <1>1, ReadyWork
    <2> QED  BY <2>1, <2>2, FewerChange
  <1> HIDE DEF e
  <1>5. entries' = e /\ sys'.ready  BY <1>1, <1>2, ChangedReady
  <1> QED  BY <1>1, <1>4, <1>5, SameLimited

(* The work of the source is cancelled and y takes its place.               *)
LEMMA CancelLimited ==
    ASSUME IInv, IInv', Limited, sys.ready, NEW id \in Ids, id \in Known, NEW also,
           Cancel(id, Deletes(id, also)), NEW y, y # None => y.rules \in {None, entries[id].rules},
           Changed([entries EXCEPT ![id] = y], IF sys.active = id THEN None ELSE sys.active)
    PROVE  Limited'
  <1> DEFINE e == [entries EXCEPT ![id] = y]
             a == IF sys.active = id THEN None ELSE sys.active
             d == Deletes(id, also)
             x == Delete(id)
  <1>1. a \in Ids \cup {None}  BY DEF IInv, Typed
  <1>2. Fewer(entries, e)
    <2>1. y # None => y.rules = None \/ (entries[id] # None /\ y.rules = entries[id].rules)
      BY DEF Known
    <2>2. entries \in [Ids -> Entries \cup {None}]  BY ReadyWork
    <2> QED  BY <2>1, <2>2, FewerChange
  <1>3. entries' = e /\ sys'.ready
    <2> HIDE DEF e, a
    <2> QED  BY <1>1, ChangedReady DEF e, a
  <1>4. tasks' = Superseded(tasks, id) \o d /\ replies' = Superseded(replies, id)
    BY DEF Cancel
  <1>5. ~x.current  BY DEF Delete
  <1>6. d \in {<<>>, <<x>>, <<x, x>>}
    <2>1. d = (IF sys.active = id THEN <<x>> ELSE <<>>) \o (IF also THEN <<x>> ELSE <<>>)
      BY DEF Deletes
    <2>2. x \in {x}  OBVIOUS
    <2> HIDE DEF x, d
    <2>3. /\ <<>> \o <<>> = <<>> /\ <<x>> \o <<>> = <<x>>
          /\ <<>> \o <<x>> = <<x>> /\ <<x>> \o <<x>> = <<x, x>>
      BY <2>2, ConcatShort
    <2> QED  BY <2>1, <2>3
  <1> HIDE DEF d, e
  <1>7. d \in Seq({x}) /\ \A i \in 1..Len(d) : ~d[i].current
    <2> HIDE DEF x
    <2>0. <<>> \in Seq({x}) /\ <<x>> \in Seq({x}) /\ <<x, x>> \in Seq({x})  OBVIOUS
    <2>1. d \in Seq({x})  BY <1>6, <2>0
    <2>2. \A i \in 1..Len(d) : d[i] = x  BY <2>1
    <2> QED  BY <1>5, <2>1, <2>2
  <1>8. MeasuredIn(Superseded(tasks, id), entries) /\ MeasuredIn(replies', entries)
    BY <1>4, ReadyWork, MeasuredSuperseded
  <1> DEFINE q == Superseded(tasks, id)
             T == {q[i] : i \in 1..Len(tasks)}
  <1>9. q \in Seq(T)
    <2>1. \A i \in 1..Len(tasks) : q[i] \in T  OBVIOUS
    <2> HIDE DEF T
    <2> QED  BY <2>1, ReadyWork, SupersededSeq
  <1> HIDE DEF q, T, x
  <1>10. MeasuredIn(q \o d, entries)
    <2>1. MeasuredIn(q, entries)  BY <1>8 DEF q
    <2> QED  BY <1>7, <1>9, <2>1, MeasuredConcat
  <1>11. MeasuredIn(tasks', entries)  BY <1>4, <1>10 DEF q
  <1> QED  BY <1>2, <1>3, <1>8, <1>11, FewerLimited

LEMMA RemoveLimited ==
    ASSUME IInv, IInv', Limited, NEW id \in Ids, Remove(id)
    PROVE  Limited'
  <1>1. /\ sys.ready /\ id \in Known /\ Cancel(id, Deletes(id, TRUE))
        /\ Changed([entries EXCEPT ![id] = None], IF sys.active = id THEN None ELSE sys.active)
    BY DEF Remove
  <1> QED  BY <1>1, CancelLimited

LEMMA UpdateLimited ==
    ASSUME IInv, IInv', Limited, NEW id \in Ids, NEW config, Update(id, config)
    PROVE  Limited'
  <1> DEFINE moved == config.url # entries[id].url
             y == [entries[id] EXCEPT !.url = config.url, !.enabled = config.enabled,
                                      !.rules = IF moved THEN None ELSE @,
                                      !.due = Larger(entries[id].notBefore, Soon)]
  <1>1. /\ sys.ready /\ id \in Known /\ Cancel(id, Deletes(id, moved))
        /\ Changed([entries EXCEPT ![id] = y], IF sys.active = id THEN None ELSE sys.active)
    BY DEF Update
  <1>2. entries[id] \in Entries  BY <1>1, ReadyWork DEF Known
  <1>3. y.rules \in {None, entries[id].rules}  BY <1>2 DEF Entries
  <1> HIDE DEF moved, y
  <1> QED  BY <1>1, <1>3, CancelLimited

LEMMA NextLimited == IInv /\ Limited /\ [Next]_vars => Limited'
  <1> SUFFICES ASSUME IInv, Limited, [Next]_vars PROVE Limited'  OBVIOUS
  <1>0. IInv'  BY NextInv
  <1>1. CASE Worker
    BY <1>0, <1>1, RestoreLimited, ParseLimited, InstallLimited, DeleteLimited DEF Worker
  <1>2. CASE Reply
    BY <1>0, <1>2, RestoredLimited, ParsedLimited, InstalledLimited DEF Reply
  <1>3. CASE Downloaded  BY <1>0, <1>3, DownloadedLimited
  <1>4. CASE Timer  BY <1>0, <1>4, TickLimited DEF Timer
  <1>5. CASE TimePasses  BY <1>0, <1>5, TimeLimited
  <1>6. CASE Acquire  BY <1>0, <1>6, AcquireLimited
  <1>7. CASE Release  BY <1>0, <1>7, ReleaseLimited
  <1>8. CASE \E id \in Ids : RefreshCommand(id)
    BY <1>0, <1>8, RefreshLimited DEF RefreshCommand, MayRefresh, Enabled, Known
  <1>9. CASE \E id \in Ids : Remove(id)  BY <1>0, <1>9, RemoveLimited
  <1>10. CASE \E id \in Ids : \E config \in Configs : Add(id, config)  BY <1>0, <1>10, AddLimited
  <1>11. CASE \E id \in Ids : \E config \in Configs : Update(id, config)
    BY <1>0, <1>11, UpdateLimited
  <1>12. CASE CommitPendingWrite  BY <1>12, CommitLimited
  <1>13. CASE Crash  BY <1>0, <1>13, CrashLimited
  <1>14. CASE UNCHANGED vars  BY <1>14 DEF vars, Limited
  <1> QED
    BY <1>1, <1>2, <1>3, <1>4, <1>5, <1>6, <1>7, <1>8, <1>9, <1>10, <1>11, <1>12, <1>13, <1>14
    DEF Next

(* The rules a source matches with are of the URL it has now, and all rules *)
(* together keep within the limit of OnParsed, for any number of sources    *)
(* and any limit, although each list was measured before it was written.    *)
THEOREM LimitKept == Spec => []RulesInForce
  <1>1. Init => IInv /\ Limited  BY InitInv, InitLimited
  <1>2. IInv /\ Limited /\ [Next]_vars => IInv' /\ Limited'  BY NextInv, NextLimited
  <1>3. IInv /\ Limited => RulesInForce
    <2>1. Ids \in SUBSET Ids  OBVIOUS
    <2> QED  BY <2>1, TotalIsSum DEF IInv, Limited, RulesInForce, TotalLimited
  <1> QED  BY <1>1, <1>2, <1>3, PTL DEF Spec
=============================================================================
