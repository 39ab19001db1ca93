------------------------------ MODULE MscpOrder ------------------------------
(***************************************************************************)
(* The order of a unit's commands in Mscp, for every number of packets and *)
(* descriptors and every scenario.                                         *)
(*                                                                         *)
(* A reference is given out once, in the order in which the driver issues  *)
(* its commands.  Line says that they are in this order wherever they      *)
(* wait, for every unit: the last one that ran, those on its queue, those  *)
(* in the command ring from the controller's index on, and the one the     *)
(* driver will issue next.  Most routines move no command (Unmoved).       *)
(***************************************************************************)
EXTENDS MscpProofs

\* The commands on queue q, after the one that ran last; they are before r.
Growing(q, pak, last) ==
  /\ \A i \in 1 .. Len(q) : pak[q[i]].ref \in Nat /\ last < pak[q[i]].ref
  /\ \A i, j \in 1 .. Len(q) : i < j => pak[q[i]].ref < pak[q[j]].ref

Below(q, pak, r) == \A i \in 1 .. Len(q) : pak[q[i]].ref < r

\* The commands in the ring, and the references of those to come.
Pending(c) == {i \in 0 .. CmdRing - 1 : c.cmd[i].own}
Later(c, g) == {c.cmd[i].d.ref : i \in Pending(c)} \cup {g.ref}

\* What has run, and what is queued as well, comes before X.
Lasts(c, X) ==
  /\ "lastrun" \in DOMAIN c /\ c.lastrun \in [Unit -> Nat]
  /\ \A u \in Unit, r \in X : c.lastrun[u] < r

InLine(c, u, X) ==
  /\ Growing(c.pktq[u], c.pak, c.lastrun[u])
  /\ \A r \in X : Below(c.pktq[u], c.pak, r)

Standing(c, X) == Lasts(c, X) /\ \A u \in Unit : InLine(c, u, X)

\* How far descriptor i is from the controller's, and the one n places on.
Ahead(ci, i) == IF i >= ci THEN i - ci ELSE i - ci + CmdRing
Onward(ci, n) == IF ci + n >= CmdRing THEN ci + n - CmdRing ELSE ci + n

\* There are n commands in the ring, in a row and in order, and the driver's
\* index is behind them.
Issued(c, g, n) ==
  /\ Pending(c) = {i \in 0 .. CmdRing - 1 : Ahead(c.ci, i) < n}
  /\ g.hc = Onward(c.ci, n)
  /\ \A i \in Pending(c) : c.cmd[i].d.ref \in Nat /\ c.cmd[i].d.ref < g.ref
  /\ \A i, j \in Pending(c) : Ahead(c.ci, i) < Ahead(c.ci, j) => c.cmd[i].d.ref < c.cmd[j].d.ref

Line(c, g) ==
  /\ Lasts(c, {g.ref})
  /\ Ok(c) => Standing(c, Later(c, g)) /\ \E n \in 0 .. CmdRing : Issued(c, g, n)

\* The controller goes up with both indices at the start of the ring.
OInv ==
  /\ Line(ctlr, host)
  /\ host.step # "up" => host.hc = 0
  /\ ctlr.csta = "S4" => ctlr.ci = 0

-----------------------------------------------------------------------------
(* Queues in order *)

LEMMA GrowEmpty == \A pak, last, r : Growing(<<>>, pak, last) /\ Below(<<>>, pak, r)
  BY DEF Growing, Below

LEMMA GrowSame ==
  ASSUME NEW q, NEW pak, NEW pak2, \A i \in 1 .. Len(q) : pak2[q[i]].ref = pak[q[i]].ref
  PROVE  /\ \A last : Growing(q, pak, last) => Growing(q, pak2, last)
         /\ \A r : Below(q, pak, r) => Below(q, pak2, r)
  BY DEF Growing, Below

LEMMA GrowTail ==
  ASSUME NEW q \in Seq(Packet), q # <<>>, NEW pak
  PROVE  /\ \A last : Growing(q, pak, last) =>
              /\ pak[Head(q)].ref \in Nat /\ last < pak[Head(q)].ref
              /\ Growing(Tail(q), pak, last) /\ Growing(Tail(q), pak, pak[Head(q)].ref)
         /\ \A r : Below(q, pak, r) => pak[Head(q)].ref < r /\ Below(Tail(q), pak, r)
  <1> DEFINE t == Tail(q)
  <1>1. /\ Len(q) \in Nat \ {0} /\ Len(t) = Len(q) - 1 /\ Head(q) = q[1]
        /\ \A i \in 1 .. Len(t) : t[i] = q[i + 1]
    OBVIOUS
  <1> HIDE DEF t
  <1>2. 1 \in 1 .. Len(q) /\ \A i \in 1 .. Len(t) : i + 1 \in 1 .. Len(q) /\ 1 < i + 1
    BY <1>1
  <1>3. \A i, j \in 1 .. Len(t) : i < j => i + 1 < j + 1
    OBVIOUS
  <1>4. ASSUME NEW last, Growing(q, pak, last)
        PROVE  /\ pak[q[1]].ref \in Nat /\ last < pak[q[1]].ref
               /\ Growing(t, pak, last) /\ Growing(t, pak, pak[q[1]].ref)
    <2>1. \A i \in 1 .. Len(q) : pak[q[i]].ref \in Nat /\ last < pak[q[i]].ref
      BY <1>4 DEF Growing
    <2>2. \A i, j \in 1 .. Len(q) : i < j => pak[q[i]].ref < pak[q[j]].ref
      BY <1>4 DEF Growing
    <2>3. \A i \in 1 .. Len(t) : /\ pak[t[i]].ref \in Nat /\ last < pak[t[i]].ref
                                 /\ pak[q[1]].ref < pak[t[i]].ref
      BY <1>1, <1>2, <2>1, <2>2
    <2>4. \A i, j \in 1 .. Len(t) : i < j => pak[t[i]].ref < pak[t[j]].ref
      BY <1>1, <1>2, <1>3, <2>2
    <2> QED  BY <1>2, <2>1, <2>3, <2>4 DEF Growing
  <1>5. ASSUME NEW r, Below(q, pak, r) PROVE pak[q[1]].ref < r /\ Below(t, pak, r)
    BY <1>1, <1>2, <1>5 DEF Below
  <1> QED  BY <1>1, <1>4, <1>5 DEF t

LEMMA GrowRemove ==
  ASSUME NEW q \in Seq(Packet), NEW k \in 1 .. Len(q), NEW pak
  PROVE  /\ \A last : Growing(q, pak, last) => Growing(RemoveAt(q, k), pak, last)
         /\ \A r : Below(q, pak, r) => Below(RemoveAt(q, k), pak, r)
  <1> DEFINE t == RemoveAt(q, k)
             At(i) == IF i < k THEN i ELSE i + 1
  <1>1. /\ Len(q) \in Nat /\ Len(t) = Len(q) - 1
        /\ \A i \in 1 .. Len(t) : t[i] = q[At(i)]
    <2>1. /\ Len(t) = Len(q) - 1 /\ Len(q) \in Nat
          /\ \A i \in 1 .. Len(q) - 1 : t[i] = IF i < k THEN q[i] ELSE q[i + 1]
      BY WithoutOne
    <2> QED  BY <2>1
  <1>2. /\ \A i \in 1 .. Len(t) : At(i) \in 1 .. Len(q)
        /\ \A i, j \in 1 .. Len(t) : i < j => At(i) < At(j)
    BY <1>1
  <1> HIDE DEF t, At
  <1> QED  BY <1>1, <1>2 DEF Growing, Below, t

LEMMA GrowAppend ==
  ASSUME NEW q \in Seq(Packet), NEW p \in Packet, NEW pak, pak[p].ref \in Nat
  PROVE  /\ \A last : Growing(q, pak, last) /\ last < pak[p].ref /\ Below(q, pak, pak[p].ref)
                      => Growing(Append(q, p), pak, last)
         /\ \A r : Below(q, pak, r) /\ pak[p].ref < r => Below(Append(q, p), pak, r)
  <1> DEFINE t == Append(q, p)
  <1>1. /\ Len(q) \in Nat /\ Len(t) = Len(q) + 1 /\ t[Len(q) + 1] = p
        /\ \A i \in 1 .. Len(q) : t[i] = q[i]
    OBVIOUS
  <1> HIDE DEF t
  <1>2. \A i \in 1 .. Len(t) : i \in 1 .. Len(q) \/ i = Len(q) + 1
    BY <1>1
  <1>3. \A i, j \in 1 .. Len(t) : i < j => i \in 1 .. Len(q)
    BY <1>1
  <1> QED  BY <1>1, <1>2, <1>3 DEF Growing, Below, t

-----------------------------------------------------------------------------
(* What moves no command *)

\* The fields that the routines below move about.
Listed(c) ==
  /\ Viewed \cup {"lastrun"} \subseteq DOMAIN c
  /\ c.pktq \in [Unit -> Seq(Packet)]
  /\ DOMAIN c.pak = Packet /\ \A p \in Packet : "ref" \in DOMAIN c.pak[p]

\* d shows the same commands in the same order, unless it ended in rq_fatal.
Unmoved(c, d) ==
  /\ "lastrun" \in DOMAIN d /\ d.lastrun = c.lastrun
  /\ Ok(d) => /\ Ok(c) /\ d.cmd = c.cmd /\ d.ci = c.ci /\ d.pktq = c.pktq
              /\ \A u \in Unit : \A i \in 1 .. Len(c.pktq[u]) :
                   d.pak[c.pktq[u][i]].ref = c.pak[c.pktq[u][i]].ref

\* What a routine makes of c, when the commands in X are still to come.
Onto(c, d, X) ==
  /\ Lasts(d, X) /\ \A u \in Unit : c.lastrun[u] <= d.lastrun[u]
  /\ Ok(d) => Ok(c) /\ d.cmd = c.cmd /\ d.ci = c.ci /\ Standing(d, X)

LEMMA UnmovedTrans ==
  ASSUME NEW c, NEW d, NEW e, Unmoved(c, d), Unmoved(d, e)
  PROVE  Unmoved(c, e)
  BY DEF Unmoved

LEMMA UnmovedOnto ==
  ASSUME NEW c, NEW d, NEW X, Lasts(c, X), Ok(c) => Standing(c, X), Unmoved(c, d)
  PROVE  Onto(c, d, X)
  <1>1. Lasts(d, X) /\ \A u \in Unit : c.lastrun[u] <= d.lastrun[u]
    BY DEF Lasts, Unmoved
  <1>2. ASSUME Ok(d), NEW u \in Unit PROVE InLine(d, u, X)
    <2>1. /\ Growing(c.pktq[u], c.pak, c.lastrun[u])
          /\ \A r \in X : Below(c.pktq[u], c.pak, r)
      BY <1>2 DEF Unmoved, Standing, InLine
    <2>2. \A i \in 1 .. Len(c.pktq[u]) : d.pak[c.pktq[u][i]].ref = c.pak[c.pktq[u][i]].ref
      BY <1>2 DEF Unmoved
    <2>3. /\ Growing(c.pktq[u], d.pak, c.lastrun[u])
          /\ \A r \in X : Below(c.pktq[u], d.pak, r)
      BY <2>1, <2>2, GrowSame
    <2> QED  BY <1>2, <2>3 DEF InLine, Unmoved
  <1>3. Ok(d) => Ok(c) /\ d.cmd = c.cmd /\ d.ci = c.ci
    BY DEF Unmoved
  <1> QED  BY <1>1, <1>2, <1>3 DEF Onto, Standing

LEMMA OntoTrans ==
  ASSUME NEW c, NEW d, NEW e, NEW X, c.lastrun \in [Unit -> Nat], Onto(c, d, X), Onto(d, e, X)
  PROVE  Onto(c, e, X)
  <1>1. d.lastrun \in [Unit -> Nat] /\ e.lastrun \in [Unit -> Nat]
    BY DEF Onto, Lasts
  <1>2. ASSUME NEW u \in Unit PROVE c.lastrun[u] <= e.lastrun[u]
    BY <1>1 DEF Onto
  <1> QED  BY <1>2 DEF Onto

LEMMA FatalUnmoved == ASSUME NEW c, Listed(c) PROVE Unmoved(c, Fatal(c))
  <1>1. DOMAIN Fatal(c) = DOMAIN c /\ Fatal(c).csta = "DEAD" /\ Fatal(c).lastrun = c.lastrun
    BY DEF Fatal, Reset, Listed, Viewed, Fields
  <1> QED  BY <1>1 DEF Unmoved, Listed, Ok

\* d has the fields of c that matter here.
Level(c, d) ==
  /\ DOMAIN d = DOMAIN c /\ d.csta = c.csta /\ d.lastrun = c.lastrun
  /\ d.pktq = c.pktq /\ d.pak = c.pak /\ d.cmd = c.cmd /\ d.ci = c.ci

LEMMA LevelUnmoved ==
  ASSUME NEW c, NEW d, Listed(c), Level(c, d)
  PROVE  Listed(d) /\ Unmoved(c, d)
  BY DEF Listed, Level, Unmoved, Ok

LEMMA PutPktLevel ==
  ASSUME NEW c, Listed(c), NEW p, NEW qt
  PROVE  Level(c, PutPkt(c, p, qt))
  <1>1. CASE ~c.rsp[c.ri].own
    BY <1>1 DEF PutPkt, Level, Listed, Viewed, Fields
  <1>2. CASE c.rsp[c.ri].own
    <2> DEFINE d == [c EXCEPT !.credits = @ - Cr(c, p), !.freq = <<p>> \o @,
                              !.pbsy = @ - 1,
                              !.hat = IF c.pbsy = 1 THEN c.htmo ELSE @]
               answer == [c.pak[p] EXCEPT !.arg =
                            IF c.pak[p].typ = "seq" /\ c.pak[p].end
                            THEN Cr(c, p) + 1 ELSE 0]
               e == [d EXCEPT !.rsp[d.ri] = Returned(answer), !.ri = (@ + 1) % RspRing]
               f == ReturnRsp(d, answer)
    <2>1. PutPkt(c, p, qt) = f
      BY <1>2, OfOne DEF PutPkt, The
    <2>2. Level(c, d)
      BY DEF Level, Listed, Viewed, Fields
    <2> HIDE DEF d, answer
    <2>3. Level(d, e)
      BY <2>2 DEF Level, Listed, Viewed, Fields
    <2>4. f = e \/ f = InitInt(e)
      BY DEF ReturnRsp, RingInt, InitInt
    <2> HIDE DEF e, f
    <2>5. Level(e, InitInt(e))
      BY <2>2, <2>3 DEF Level, Listed, Viewed, Fields, InitInt
    <2> QED  BY <2>1, <2>2, <2>3, <2>4, <2>5 DEF Level
  <1> QED  BY <1>1, <1>2

LEMMA RespondUnmoved ==
  ASSUME NEW c, Listed(c), NEW p \in Packet, NEW sts
  PROVE  Listed(Respond(c, p, sts)) /\ Unmoved(c, Respond(c, p, sts))
  <1> DEFINE d == Answer(c, p, sts)
             k == [c.pak[p] EXCEPT !.typ = "seq", !.end = TRUE, !.sts = sts]
  <1>1. /\ DOMAIN d = DOMAIN c /\ d.csta = c.csta /\ d.lastrun = c.lastrun
        /\ d.pktq = c.pktq /\ d.cmd = c.cmd /\ d.ci = c.ci
        /\ d.pak = [c.pak EXCEPT ![p] = k]
    BY DEF Answer, Listed, Viewed, Fields
  <1>2. k.ref = c.pak[p].ref /\ "ref" \in DOMAIN k
    BY DEF Listed
  <1>3. Respond(c, p, sts) = PutPkt(d, p, TRUE)
    BY OfOne DEF Respond, The
  <1> HIDE DEF d, k
  <1>4. /\ DOMAIN d.pak = Packet
        /\ \A x \in Packet : "ref" \in DOMAIN d.pak[x] /\ d.pak[x].ref = c.pak[x].ref
    BY <1>1, <1>2 DEF Listed
  <1>5. Listed(d)
    BY <1>1, <1>4 DEF Listed
  <1>6. Unmoved(c, d)
    <2>1. \A u \in Unit : \A i \in 1 .. Len(c.pktq[u]) : c.pktq[u][i] \in Packet
      BY DEF Listed
    <2> QED  BY <1>1, <1>4, <2>1 DEF Unmoved, Listed, Ok
  <1>7. Listed(PutPkt(d, p, TRUE)) /\ Unmoved(d, PutPkt(d, p, TRUE))
    BY <1>5, PutPktLevel, LevelUnmoved
  <1> QED  BY <1>3, <1>6, <1>7, UnmovedTrans

LEMMA SoundListed ==
  ASSUME NEW c, NEW a, NEW b, NEW g, Sound(c, a, b, g), "lastrun" \in DOMAIN c
  PROVE  Listed(c)
  BY DEF Sound, Firm, Typed, Tagged, Wf, Listed

\* A packet of the controller's own was free.
LEMMA SendUnmoved ==
  ASSUME NEW c, NEW g, Sound(c, 0, 0, g), "lastrun" \in DOMAIN c,
         NEW typ, NEW sts, NEW unit
  PROVE  Unmoved(c, Send(c, typ, sts, unit))
  <1>1. Listed(c) /\ Typed(c) /\ Wf(c)
    BY SoundListed DEF Sound, Firm, Typed
  <1>2. CASE c.freq = <<>>
    BY <1>1, <1>2, FatalUnmoved DEF Send
  <1>3. CASE c.freq # <<>>
    <2> DEFINE p == Head(c.freq)
               k == [NoPacket EXCEPT !.typ = typ, !.sts = sts, !.unit = unit]
               q == DeqF(c)
               d == [q EXCEPT !.pak[p] = k]
    <2>1. p \in Packet /\ ~Uses(c, 0, 0, p)
      <3>1. p \in Packet
        BY <1>1, <1>3, Popped DEF Wf
      <3> QED  BY <1>1, <1>3, <3>1, HeadFresh DEF Sound, Firm
    <2>2. Send(c, typ, sts, unit) = PutPkt(d, p, TRUE)
      BY <1>3 DEF Send
    <2>3. "ref" \in DOMAIN k
      BY DEF NoPacket
    <2>4. q = [c EXCEPT !.freq = Tail(@), !.pbsy = @ + 1]
      BY <1>3 DEF DeqF
    <2> HIDE DEF p, k, q
    <2>5. Level(c, q)
      BY <1>1, <2>4 DEF Level, Listed, Viewed, Fields
    <2>6. /\ DOMAIN d = DOMAIN c /\ d.csta = c.csta /\ d.lastrun = c.lastrun
          /\ d.pktq = c.pktq /\ d.cmd = c.cmd /\ d.ci = c.ci
          /\ d.pak = [c.pak EXCEPT ![p] = k]
      BY <1>1, <2>5 DEF Level, Listed, Viewed, Fields
    <2> HIDE DEF d
    <2>7. /\ DOMAIN d.pak = Packet /\ \A x \in Packet : "ref" \in DOMAIN d.pak[x]
          /\ \A x \in Packet : x # p => d.pak[x] = c.pak[x]
      BY <1>1, <2>1, <2>3, <2>6 DEF Listed
    <2>8. Listed(d)
      BY <1>1, <2>6, <2>7 DEF Listed
    <2>9. \A u \in Unit : \A i \in 1 .. Len(c.pktq[u]) : c.pktq[u][i] \in Packet \ {p}
      <3> TAKE u \in Unit
      <3>1. c.pktq[u] \in Seq(Packet) /\ p \notin ToSet(c.pktq[u])
        BY <1>1, <2>1 DEF Listed, Uses
      <3> QED  BY <3>1 DEF ToSet
    <2>10. Unmoved(c, d)
      BY <1>1, <2>6, <2>7, <2>9 DEF Unmoved, Listed, Ok
    <2>11. Unmoved(d, PutPkt(d, p, TRUE))
      BY <2>8, PutPktLevel, LevelUnmoved
    <2> QED  BY <2>2, <2>10, <2>11, UnmovedTrans
  <1> QED  BY <1>2, <1>3

LEMMA LogUnmoved ==
  ASSUME NEW c, NEW g, Sound(c, 0, 0, g), "lastrun" \in DOMAIN c, NEW u
  PROVE  /\ Unmoved(c, LogError(c, u)) /\ Unmoved(c, LogFailure(c))
         /\ Unmoved(c, Attention(c, u))
  <1>1. Unmoved(c, c)
    BY DEF Unmoved
  <1> QED  BY <1>1, SendUnmoved DEF LogError, LogFailure, Attention

-----------------------------------------------------------------------------
(* Commands *)

\* It is packet p's turn: its command comes after all of its unit that have
\* run, after those on the queue when it joins them and before them when it
\* runs, and before those in X.
Turn(c, p, q, X) ==
  LET u == c.pak[p].unit
      ref == c.pak[p].ref
  IN  /\ ref \in Nat /\ \A r \in X : ref < r
      /\ u \in Unit => /\ c.lastrun[u] < ref
                       /\ IF q /\ c.cpkt[u] # 0 THEN Below(c.pktq[u], c.pak, ref)
                          ELSE Growing(c.pktq[u], c.pak, ref)

\* The commands that are answered at once.
LEMMA SimpleUnmoved ==
  ASSUME NEW c, Listed(c), NEW p \in Packet,
         NEW d \in {Available(c, p), Online(c, p), SetUnit(c, p), Format(c, p),
                    SetController(c, p), UnitStatus(c, p),
                    Respond(c, p, "suc"), Respond(c, p, "ofl"), Respond(c, p, "avl"),
                    Respond(c, p, "cmd")}
  PROVE  Unmoved(c, d)
  <1> DEFINE u == c.pak[p].unit
             a == [c EXCEPT !.onl[u] = FALSE, !.att[u] = @ /\ c.pak[p].arg = 0]
             o == [c EXCEPT !.onl[u] = TRUE]
             f == [c EXCEPT !.onl[u] = FALSE]
             t == [c EXCEPT !.ths = c.pak[p].arg > 0, !.atn = c.pak[p].arg > 0,
                            !.htmo = IF c.pak[p].len = 0 THEN 0 ELSE c.pak[p].len + 2]
  <1>1. Level(c, c) /\ Level(c, a) /\ Level(c, o) /\ Level(c, f) /\ Level(c, t)
    BY DEF Level, Listed, Viewed, Fields
  <1> HIDE DEF a, o, f, t
  <1>2. PICK b \in {c, a, o, f, t}, sts \in {"suc", "ofl", "avl", "cmd"} :
          d = Respond(b, p, sts)
    BY DEF Available, Online, SetUnit, Format, SetController, UnitStatus, a, o, f, t
  <1>3. Listed(b) /\ Unmoved(c, b)
    BY <1>1, LevelUnmoved
  <1>4. Unmoved(b, Respond(b, p, sts))
    BY <1>3, RespondUnmoved
  <1> QED  BY <1>2, <1>3, <1>4, UnmovedTrans

LEMMA TransferUnmoved ==
  ASSUME NEW c, Listed(c), NEW p \in Packet
  PROVE  Unmoved(c, Transfer(c, p))
  <1> DEFINE u == c.pak[p].unit
             d == [c EXCEPT !.cpkt[u] = p, !.uon[u] = TRUE]
  <1>1. Level(c, d)
    BY DEF Level, Listed, Viewed, Fields
  <1>2. Transfer(c, p) = d \/ \E sts \in {"ofl", "avl", "cmd"} : Transfer(c, p) = Respond(c, p, sts)
    BY DEF Transfer
  <1> HIDE DEF d
  <1> QED  BY <1>1, <1>2, LevelUnmoved, RespondUnmoved

\* rq_abo: the target leaves its unit.
LEMMA AbortOnto ==
  ASSUME NEW c, Wf(c), Listed(c), NEW p \in Packet, NEW X, Ok(c), Standing(c, X)
  PROVE  Onto(c, Abort(c, p), X)
  <1> DEFINE u == c.pak[p].unit
             ref == c.pak[p].arg
             queued == {i \in 1 .. Len(c.pktq[u]) : c.pak[c.pktq[u][i]].ref = ref}
             i == CHOOSE j \in queued : \A l \in queued : j <= l
             cur == [c EXCEPT !.cpkt[u] = 0, !.uon[u] = FALSE, !.qon = TRUE]
             que == [c EXCEPT !.pktq[u] = RemoveAt(@, i)]
             d == IF u \notin Present THEN c
                  ELSE IF c.cpkt[u] # 0 /\ c.pak[c.cpkt[u]].ref = ref
                  THEN Respond(cur, c.cpkt[u], "abo")
                  ELSE IF queued # {} THEN Respond(que, c.pktq[u][i], "abo") ELSE c
  <1>1. Abort(c, p) = IF Ok(d) THEN Respond(d, p, "suc") ELSE d
    BY DEF Abort
  <1>2. c.lastrun \in [Unit -> Nat] /\ Lasts(c, X)
    BY DEF Standing, Lasts
  <1>3. Listed(d) /\ Onto(c, d, X)
    <2>1. CASE u \in Present /\ c.cpkt[u] # 0 /\ c.pak[c.cpkt[u]].ref = ref
      <3>1. Level(c, cur)
        BY DEF Level, Listed, Viewed, Fields
      <3>2. c.cpkt[u] \in Packet
        BY <2>1, MscpAssumption DEF Wf, Unit
      <3> HIDE DEF cur
      <3>3. Listed(cur) /\ Unmoved(c, cur)
        BY <3>1, LevelUnmoved
      <3> DEFINE e == Respond(cur, c.cpkt[u], "abo")
      <3>4. Listed(e) /\ Unmoved(cur, e)
        BY <3>2, <3>3, RespondUnmoved
      <3>5. Onto(c, e, X)
        BY <1>2, <3>3, <3>4, UnmovedTrans, UnmovedOnto
      <3> QED  BY <2>1, <3>4, <3>5
    <2>2. CASE /\ u \in Present /\ ~(c.cpkt[u] # 0 /\ c.pak[c.cpkt[u]].ref = ref)
               /\ queued # {}
      <3>1. u \in Unit /\ c.pktq[u] \in Seq(Packet)
        BY <2>2, MscpAssumption DEF Wf, Unit
      <3>2. queued \in SUBSET Nat
        OBVIOUS
      <3>3. i \in 1 .. Len(c.pktq[u])
        BY <2>2, <3>2, First
      <3> HIDE DEF i, queued
      <3> DEFINE t == RemoveAt(c.pktq[u], i)
                 x == c.pktq[u][i]
      <3>4. x \in Packet /\ t \in Seq(Packet)
        BY <3>1, <3>3, Removed
      <3>5. que = [c EXCEPT !.pktq = [c.pktq EXCEPT ![u] = t]]
        BY <3>1 DEF Listed, Viewed, Fields
      <3>6. \A pak : /\ \A last : Growing(c.pktq[u], pak, last) => Growing(t, pak, last)
                     /\ \A r : Below(c.pktq[u], pak, r) => Below(t, pak, r)
        BY <3>1, <3>3, GrowRemove
      <3> HIDE DEF que, t
      <3>7. /\ DOMAIN que = DOMAIN c /\ que.csta = c.csta /\ que.lastrun = c.lastrun
            /\ que.pak = c.pak /\ que.cmd = c.cmd /\ que.ci = c.ci
            /\ que.pktq = [c.pktq EXCEPT ![u] = t]
        BY <3>5 DEF Listed, Viewed, Fields
      <3>8. Listed(que) /\ Ok(que)
        BY <3>1, <3>4, <3>7 DEF Listed, Ok
      <3>9. \A v \in Unit : InLine(que, v, X)
        <4> TAKE v \in Unit
        <4>1. InLine(c, v, X) /\ que.pktq[v] = IF v = u THEN t ELSE c.pktq[v]
          BY <3>1, <3>7 DEF Standing, Listed
        <4> QED  BY <3>6, <3>7, <4>1 DEF InLine
      <3>10. Standing(que, X) /\ Onto(c, que, X)
        BY <3>7, <3>8, <3>9 DEF Standing, Onto, Lasts
      <3> DEFINE e == Respond(que, x, "abo")
      <3> HIDE DEF x
      <3>11. Listed(e) /\ Unmoved(que, e)
        BY <3>4, <3>8, RespondUnmoved
      <3>12. Onto(que, e, X)
        BY <3>10, <3>11, UnmovedOnto DEF Standing
      <3>13. d = e
        BY <2>2 DEF x
      <3> QED  BY <1>2, <3>10, <3>11, <3>12, <3>13, OntoTrans
    <2>3. CASE d = c
      <3>1. Unmoved(c, c)
        BY DEF Unmoved, Listed, Viewed
      <3> QED  BY <1>2, <2>3, <3>1, UnmovedOnto
    <2> QED  BY <2>1, <2>2, <2>3
  <1> HIDE DEF d
  <1>4. ASSUME Ok(d) PROVE Onto(d, Respond(d, p, "suc"), X)
    BY <1>3, <1>4, RespondUnmoved, UnmovedOnto DEF Onto
  <1> QED  BY <1>1, <1>2, <1>3, <1>4, OntoTrans

LEMMA EnqueueOnto ==
  ASSUME NEW c, Listed(c), NEW p \in Packet, NEW X, Ok(c), Standing(c, X),
         c.pak[p].unit \in Unit, c.cpkt[c.pak[p].unit] # 0, Turn(c, p, TRUE, X)
  PROVE  Onto(c, Enqueue(c, p, c.pak[p].unit), X)
  <1> DEFINE u == c.pak[p].unit
             q == Append(c.pktq[u], p)
             d == [c EXCEPT !.pktq = [c.pktq EXCEPT ![u] = q]]
  <1>1. u \in Unit /\ c.pktq[u] \in Seq(Packet) /\ c.pak[p].ref \in Nat
    BY DEF Listed, Turn
  <1>2. Enqueue(c, p, u) = d
    BY DEF Enqueue, Listed, Viewed, Fields
  <1>3. /\ DOMAIN d = DOMAIN c /\ d.csta = c.csta /\ d.lastrun = c.lastrun
        /\ d.pak = c.pak /\ d.cmd = c.cmd /\ d.ci = c.ci
        /\ d.pktq = [c.pktq EXCEPT ![u] = q]
    BY DEF Listed, Viewed, Fields
  <1>4. /\ \A last : Growing(c.pktq[u], c.pak, last) /\ last < c.pak[p].ref
                       /\ Below(c.pktq[u], c.pak, c.pak[p].ref) => Growing(q, c.pak, last)
        /\ \A r : Below(c.pktq[u], c.pak, r) /\ c.pak[p].ref < r => Below(q, c.pak, r)
    BY <1>1, GrowAppend
  <1> HIDE DEF d, q
  <1>5. \A v \in Unit : InLine(d, v, X)
    <2> TAKE v \in Unit
    <2>1. InLine(c, v, X) /\ d.pktq[v] = IF v = u THEN q ELSE c.pktq[v]
      BY <1>1, <1>3 DEF Standing, Listed
    <2>2. /\ c.lastrun[u] < c.pak[p].ref /\ Below(c.pktq[u], c.pak, c.pak[p].ref)
          /\ \A r \in X : c.pak[p].ref < r
      BY DEF Turn
    <2> QED  BY <1>3, <1>4, <2>1, <2>2 DEF InLine
  <1> QED  BY <1>2, <1>3, <1>5 DEF Standing, Onto, Lasts, Ok

\* The command is the last one that ran.
LEMMA RanOnto ==
  ASSUME NEW c, Listed(c), NEW p \in Packet, NEW X, Ok(c), Standing(c, X),
         NEW q \in BOOLEAN, c.pak[p].unit \in Unit, ~(q /\ c.cpkt[c.pak[p].unit] # 0),
         Turn(c, p, q, X)
  PROVE  /\ Listed(Ran(c, p)) /\ Onto(c, Ran(c, p), X) /\ Ok(Ran(c, p))
         /\ Ran(c, p).pak = c.pak
  <1> DEFINE u == c.pak[p].unit
             ref == c.pak[p].ref
             d == Ran(c, p)
  <1>1. /\ c.lastrun \in [Unit -> Nat] /\ u \in Unit /\ ref \in Nat /\ c.lastrun[u] < ref
        /\ Growing(c.pktq[u], c.pak, ref) /\ \A r \in X : ref < r
    BY DEF Standing, Lasts, Turn
  <1>2. /\ DOMAIN d = DOMAIN c /\ d.csta = c.csta
        /\ d.lastrun = [c.lastrun EXCEPT ![u] = ref]
        /\ d.pktq = c.pktq /\ d.pak = c.pak /\ d.cmd = c.cmd /\ d.ci = c.ci
    BY DEF Ran, Listed, Viewed, Fields
  <1> HIDE DEF u, ref, d
  <1>3. \A v \in Unit : d.lastrun[v] = IF v = u THEN ref ELSE c.lastrun[v]
    BY <1>1, <1>2
  <1>4. d.lastrun \in [Unit -> Nat] /\ \A v \in Unit : c.lastrun[v] <= d.lastrun[v]
    <2>1. d.lastrun \in [Unit -> Nat]
      BY <1>1, <1>2
    <2> QED  BY <1>1, <1>3, <2>1
  <1>5. Lasts(d, X)
    <2>1. "lastrun" \in DOMAIN d
      BY <1>2 DEF Standing, Lasts
    <2> QED  BY <1>1, <1>3, <1>4, <2>1 DEF Standing, Lasts
  <1>6. \A v \in Unit : InLine(d, v, X)
    BY <1>1, <1>2, <1>3 DEF Standing, InLine
  <1>7. Listed(d) /\ Ok(d)
    BY <1>2 DEF Listed, Ok
  <1> QED  BY <1>2, <1>4, <1>5, <1>6, <1>7 DEF Standing, Onto, d

\* rq_mscp.
LEMMA MscpOnto ==
  ASSUME NEW c, Wf(c), Listed(c), NEW p \in Packet, NEW X, Ok(c), Standing(c, X),
         NEW q \in BOOLEAN, Turn(c, p, q, X)
  PROVE  Onto(c, Mscp(c, p, q), X)
  <1> DEFINE u == c.pak[p].unit
             r == Ran(c, p)
  <1>1. u \in Present => u \in Unit
    BY MscpAssumption DEF Unit
  <1>2. c.lastrun \in [Unit -> Nat] /\ Lasts(c, X)
    BY DEF Standing, Lasts
  <1>3. CASE u \in Present /\ c.pak[p].op \in Deferrable /\ q /\ c.cpkt[u] # 0
    <2>1. Mscp(c, p, q) = Enqueue(c, p, u)
      BY <1>3 DEF Mscp
    <2>2. Turn(c, p, TRUE, X)
      BY <1>3 DEF Turn
    <2> QED  BY <1>1, <1>3, <2>1, <2>2, EnqueueOnto
  <1>4. CASE u \in Present /\ c.pak[p].op \in Deferrable /\ ~(q /\ c.cpkt[u] # 0)
    <2>1. Listed(r) /\ Onto(c, r, X) /\ Ok(r) /\ r.pak = c.pak
      BY <1>1, <1>4, RanOnto
    <2>2. Mscp(c, p, q) = OnUnit(r, p)
      BY <1>4 DEF Mscp
    <2> HIDE DEF r
    <2>3. OnUnit(r, p) \in {Available(r, p), Online(r, p), SetUnit(r, p), Format(r, p)}
            \/ OnUnit(r, p) = Transfer(r, p)
      BY <1>4, <2>1 DEF OnUnit, Deferrable
    <2>4. Unmoved(r, OnUnit(r, p))
      BY <2>1, <2>3, SimpleUnmoved, TransferUnmoved
    <2>5. Onto(r, OnUnit(r, p), X)
      BY <2>1, <2>4, UnmovedOnto DEF Onto, Standing
    <2> QED  BY <1>2, <2>1, <2>2, <2>5, OntoTrans
  <1>5. CASE c.pak[p].op \in Deferrable /\ u \notin Present
    BY <1>2, <1>5, SimpleUnmoved, UnmovedOnto DEF Mscp
  <1>6. CASE c.pak[p].op = "abo"
    BY <1>6, AbortOnto DEF Mscp, Deferrable
  <1>7. CASE c.pak[p].op \notin Deferrable \cup {"abo"}
    <2>1. Mscp(c, p, q) \in {SetController(c, p), UnitStatus(c, p),
                             Respond(c, p, "suc"), Respond(c, p, "cmd")}
      BY <1>7 DEF Mscp
    <2> HIDE DEF r
    <2> QED  BY <1>2, <2>1, SimpleUnmoved, UnmovedOnto
  <1> QED  BY <1>3, <1>4, <1>5, <1>6, <1>7

-----------------------------------------------------------------------------
(* The queue service *)

\* What a part of it makes of c.
Moved(c, d, g) == Line(d, g) /\ \A u \in Unit : c.lastrun[u] <= d.lastrun[u]

LEMMA OntoMoved ==
  ASSUME NEW c, NEW d, NEW g, Onto(c, d, Later(c, g)), Line(c, g)
  PROVE  Moved(c, d, g)
  <1>1. Lasts(d, {g.ref})
    BY DEF Onto, Lasts, Later
  <1>2. ASSUME Ok(d) PROVE Standing(d, Later(d, g)) /\ \E n \in 0 .. CmdRing : Issued(d, g, n)
    <2>1. d.cmd = c.cmd /\ d.ci = c.ci /\ Standing(d, Later(c, g)) /\ Ok(c)
      BY <1>2 DEF Onto
    <2>2. Later(d, g) = Later(c, g)
      BY <2>1 DEF Later, Pending
    <2>3. \A n \in 0 .. CmdRing : Issued(c, g, n) => Issued(d, g, n)
      BY <2>1 DEF Issued, Pending
    <2> QED  BY <2>1, <2>2, <2>3 DEF Line
  <1> QED  BY <1>1, <1>2 DEF Moved, Line, Onto

LEMMA UnmovedMoved ==
  ASSUME NEW c, NEW d, NEW g, Line(c, g), Unmoved(c, d)
  PROVE  Moved(c, d, g)
  <1>1. CASE Ok(c)
    <2>1. Standing(c, Later(c, g)) /\ Lasts(c, Later(c, g))
      BY <1>1 DEF Line, Standing
    <2> QED  BY <2>1, UnmovedOnto, OntoMoved
  <1>2. CASE ~Ok(c)
    BY <1>2 DEF Line, Lasts, Unmoved, Moved
  <1> QED  BY <1>1, <1>2

LEMMA MovedTrans ==
  ASSUME NEW c, NEW d, NEW e, NEW g, Line(c, g), Moved(c, d, g), Moved(d, e, g)
  PROVE  Moved(c, e, g)
  <1>1. /\ c.lastrun \in [Unit -> Nat] /\ d.lastrun \in [Unit -> Nat]
        /\ e.lastrun \in [Unit -> Nat]
    BY DEF Moved, Line, Lasts
  <1>2. ASSUME NEW u \in Unit PROVE c.lastrun[u] <= e.lastrun[u]
    BY <1>1 DEF Moved
  <1> QED  BY <1>2 DEF Moved

LEMMA MovedSelf == ASSUME NEW c, NEW g, Line(c, g) PROVE Moved(c, c, g)
  BY DEF Moved, Line, Lasts

\* A unit that is idle takes the first of its queue.
LEMMA ServeUnitMoved ==
  ASSUME NEW c, NEW g, Resting(c, g), Line(c, g), NEW u \in Unit
  PROVE  Moved(c, ServeUnit(c, u), g)
  <1>1. CASE Ok(c) /\ c.cpkt[u] = 0 /\ c.pktq[u] # <<>>
    <2> DEFINE X == Later(c, g)
               p == Head(c.pktq[u])
               t == Tail(c.pktq[u])
               d == [c EXCEPT !.pktq = [c.pktq EXCEPT ![u] = t], !.pkt = p]
               e == Mscp(d, p, FALSE)
    <2>1. Wf(c) /\ Standing(c, X) /\ c.lastrun \in [Unit -> Nat] /\ Listed(c)
      <3>1. Standing(c, X)
        BY <1>1 DEF Line
      <3> QED  BY <3>1, SoundListed DEF Resting, Sound, Firm, Typed, Standing, Lasts
    <2>2. c.pktq[u] \in Seq(Packet)
      BY <2>1 DEF Listed
    <2>3. p \in Packet /\ t \in Seq(Packet) /\ c.pak[p].unit = u
      <3>1. p \in Packet /\ t \in Seq(Packet)
        BY <1>1, <2>2, Popped
      <3>2. p \in ToSet(c.pktq[u])
        BY <1>1, <2>2, SetOfPop
      <3> QED  BY <3>1, <3>2 DEF Resting, Sound, Firm, Homed
    <2>4. ServeUnit(c, u) = e
      BY <1>1, <2>1 DEF ServeUnit, Wf, Fields
    <2>5. InLine(c, u, X)
      BY <2>1 DEF Standing
    <2>6. /\ c.pak[p].ref \in Nat /\ c.lastrun[u] < c.pak[p].ref
          /\ Growing(t, c.pak, c.lastrun[u]) /\ Growing(t, c.pak, c.pak[p].ref)
          /\ \A r \in X : c.pak[p].ref < r /\ Below(t, c.pak, r)
      BY <1>1, <2>2, <2>5, GrowTail DEF InLine
    <2> HIDE DEF X, p, t, e
    <2>7. /\ DOMAIN d = DOMAIN c /\ d.csta = c.csta /\ d.lastrun = c.lastrun
          /\ d.pak = c.pak /\ d.cmd = c.cmd /\ d.ci = c.ci /\ d.cpkt = c.cpkt
          /\ d.pktq = [c.pktq EXCEPT ![u] = t]
      BY <2>1 DEF Listed, Viewed, Fields
    <2>8. Wf(d)
      BY <2>1, <2>3 DEF Wf, Fields
    <2> HIDE DEF d
    <2>9. /\ d.pktq[u] = t /\ \A v \in Unit : v # u => d.pktq[v] = c.pktq[v]
          /\ Listed(d) /\ Ok(d)
      BY <1>1, <2>1, <2>3, <2>7 DEF Listed, Ok
    <2>10. \A v \in Unit : InLine(d, v, X)
      BY <2>1, <2>6, <2>7, <2>9 DEF Standing, InLine
    <2>11. Standing(d, X) /\ Onto(c, d, X)
      BY <1>1, <2>1, <2>7, <2>9, <2>10 DEF Standing, Onto, Lasts
    <2>12. Turn(d, p, FALSE, X)
      BY <2>3, <2>6, <2>7, <2>9 DEF Turn
    <2>13. Onto(d, e, X)
      BY <2>3, <2>8, <2>9, <2>11, <2>12, MscpOnto DEF e
    <2> QED  BY <2>1, <2>4, <2>11, <2>13, OntoTrans, OntoMoved DEF X
  <1>2. CASE ~(Ok(c) /\ c.cpkt[u] = 0 /\ c.pktq[u] # <<>>)
    BY <1>2, MovedSelf DEF ServeUnit
  <1> QED  BY <1>1, <1>2

\* The command ring, when its first command is read.
LEMMA NextAhead ==
  ASSUME NEW ci \in 0 .. CmdRing - 1, NEW n \in 1 .. CmdRing
  PROVE  LET k == (ci + 1) % CmdRing
         IN  /\ k \in 0 .. CmdRing - 1 /\ Ahead(ci, ci) = 0 /\ Ahead(k, ci) = CmdRing - 1
             /\ Onward(k, n - 1) = Onward(ci, n)
             /\ \A i \in 0 .. CmdRing - 1 :
                  i # ci => Ahead(ci, i) \in 1 .. CmdRing - 1 /\ Ahead(k, i) = Ahead(ci, i) - 1
  <1> DEFINE k == (ci + 1) % CmdRing
  <1>1. CmdRing \in Nat \ {0}
    BY MscpAssumption
  <1>2. k = IF ci + 1 = CmdRing THEN 0 ELSE ci + 1
    BY <1>1, RingIndex
  <1> HIDE DEF k
  <1>3. k \in 0 .. CmdRing - 1 /\ Ahead(ci, ci) = 0 /\ Ahead(k, ci) = CmdRing - 1
    BY <1>1, <1>2 DEF Ahead
  <1>4. Onward(k, n - 1) = Onward(ci, n)
    BY <1>1, <1>2 DEF Onward
  <1>5. \A i \in 0 .. CmdRing - 1 :
          i # ci => Ahead(ci, i) \in 1 .. CmdRing - 1 /\ Ahead(k, i) = Ahead(ci, i) - 1
    BY <1>1, <1>2 DEF Ahead
  <1> QED  BY <1>3, <1>4, <1>5 DEF k

\* The command that is read comes before the ones that stay in the ring.
LEMMA ReadIssued ==
  ASSUME NEW c, NEW d, NEW g, NEW n \in 0 .. CmdRing, Issued(c, g, n),
         c.ci \in 0 .. CmdRing - 1, DOMAIN c.cmd = 0 .. CmdRing - 1, c.cmd[c.ci].own,
         d.cmd = [c.cmd EXCEPT ![c.ci] = Returned(NoPacket)], d.ci = (c.ci + 1) % CmdRing
  PROVE  /\ n - 1 \in 0 .. CmdRing /\ Issued(d, g, n - 1)
         /\ Later(d, g) \subseteq Later(c, g) /\ c.cmd[c.ci].d.ref \in Later(c, g) \cap Nat
         /\ \A r \in Later(d, g) : c.cmd[c.ci].d.ref < r
  <1> DEFINE k == (c.ci + 1) % CmdRing
  <1>1. CmdRing \in Nat \ {0}
    BY MscpAssumption
  <1>2. Pending(c) = {i \in 0 .. CmdRing - 1 : Ahead(c.ci, i) < n} /\ c.ci \in Pending(c)
    BY DEF Issued, Pending
  <1>3. Ahead(c.ci, c.ci) = 0
    BY <1>1 DEF Ahead
  <1>4. n \in 1 .. CmdRing
    BY <1>2, <1>3
  <1>5. /\ k \in 0 .. CmdRing - 1 /\ Ahead(k, c.ci) = CmdRing - 1
        /\ Onward(k, n - 1) = Onward(c.ci, n)
        /\ \A i \in 0 .. CmdRing - 1 :
             i # c.ci => Ahead(c.ci, i) \in 1 .. CmdRing - 1 /\ Ahead(k, i) = Ahead(c.ci, i) - 1
    BY <1>4, NextAhead
  <1> HIDE DEF k
  <1>6. d.ci = k
    BY DEF k
  <1>7. \A i \in 0 .. CmdRing - 1 : d.cmd[i] = IF i = c.ci THEN Returned(NoPacket) ELSE c.cmd[i]
    OBVIOUS
  <1>8. Pending(d) = Pending(c) \ {c.ci}
    BY <1>7 DEF Pending, Returned
  <1>9. Pending(d) = {i \in 0 .. CmdRing - 1 : Ahead(d.ci, i) < n - 1}
    BY <1>1, <1>2, <1>4, <1>5, <1>6, <1>8
  <1>10. \A i \in Pending(d) :
           /\ i \in Pending(c) /\ d.cmd[i] = c.cmd[i] /\ Ahead(c.ci, c.ci) < Ahead(c.ci, i)
           /\ Ahead(c.ci, i) \in Int /\ Ahead(d.ci, i) = Ahead(c.ci, i) - 1
    BY <1>3, <1>5, <1>6, <1>7, <1>8 DEF Pending
  <1>11. \A i \in Pending(d) : d.cmd[i].d.ref \in Nat /\ d.cmd[i].d.ref < g.ref
    BY <1>10 DEF Issued
  <1>12. \A i, j \in Pending(d) :
           Ahead(d.ci, i) < Ahead(d.ci, j) => d.cmd[i].d.ref < d.cmd[j].d.ref
    <2> SUFFICES ASSUME NEW i \in Pending(d), NEW j \in Pending(d), Ahead(d.ci, i) < Ahead(d.ci, j)
                 PROVE  d.cmd[i].d.ref < d.cmd[j].d.ref
      OBVIOUS
    <2>1. Ahead(c.ci, i) < Ahead(c.ci, j)
      BY <1>10
    <2> QED  BY <1>10, <2>1 DEF Issued
  <1>13. Issued(d, g, n - 1) /\ n - 1 \in 0 .. CmdRing
    BY <1>1, <1>4, <1>5, <1>6, <1>9, <1>11, <1>12 DEF Issued
  <1>14. Later(d, g) \subseteq Later(c, g)
    BY <1>10 DEF Later
  <1>15. c.cmd[c.ci].d.ref \in Later(c, g) /\ c.cmd[c.ci].d.ref \in Nat
    BY <1>2 DEF Later, Issued
  <1>16. \A r \in Later(d, g) : c.cmd[c.ci].d.ref < r
    BY <1>2, <1>10 DEF Later, Issued
  <1> QED  BY <1>13, <1>14, <1>15, <1>16

\* rq_getpkt: the command that is read is next in its unit's order; a unit
\* that is idle has none waiting.
LEMMA GetPktInTurn ==
  ASSUME NEW c, NEW g, Sound(c, 0, 0, g), Line(c, g), Ok(c), c.cmd[c.ci].own,
         \A u \in Unit : c.cpkt[u] = 0 => c.pktq[u] = <<>>
  PROVE  LET d == GetPkt(c)
         IN  \/ d = Fatal(c)
             \/ /\ Ok(d) /\ Wf(d) /\ Listed(d) /\ d.pkt \in Packet /\ Moved(c, d, g)
                /\ Standing(d, Later(d, g)) /\ Turn(d, d.pkt, TRUE, Later(d, g))
  <1>1. CASE c.freq = <<>>
    BY <1>1 DEF GetPkt
  <1>2. CASE c.freq # <<>>
    <2> DEFINE p == Head(c.freq)
               k == c.cmd[c.ci].d
               q == DeqF(c)
               d == [q EXCEPT !.hat = 0, !.pkt = p, !.pak[p] = k]
               e == [d EXCEPT !.cmd[d.ci] = Returned(NoPacket), !.ci = (@ + 1) % CmdRing]
               z == ReturnCmd(d)
               X == Later(z, g)
    <2>1. /\ Wf(c) /\ Typed(c) /\ Standing(c, Later(c, g)) /\ c.lastrun \in [Unit -> Nat]
          /\ Listed(c)
      <3>1. Standing(c, Later(c, g))
        BY DEF Line
      <3> QED  BY <3>1, SoundListed DEF Sound, Firm, Typed, Standing, Lasts
    <2>2. p \in Packet /\ ~Uses(c, 0, 0, p)
      <3>1. p \in Packet
        BY <1>2, <2>1, Popped DEF Wf
      <3> QED  BY <1>2, <2>1, <3>1, HeadFresh DEF Sound, Firm
    <2>3. GetPkt(c) = z
      BY <1>2 DEF GetPkt
    <2>4. Tagged(k) /\ "ref" \in DOMAIN k
      BY <2>1 DEF Typed, RingsTyped, Asked, Tagged
    <2>5. q = [c EXCEPT !.freq = Tail(@), !.pbsy = @ + 1]
      BY <1>2 DEF DeqF
    <2> HIDE DEF p, k, q, X
    <2>6. Level(c, q) /\ q.cpkt = c.cpkt
      BY <2>1, <2>5 DEF Level, Listed, Viewed, Fields
    <2>7. /\ DOMAIN d = DOMAIN c /\ d.csta = c.csta /\ d.lastrun = c.lastrun
          /\ d.pktq = c.pktq /\ d.cmd = c.cmd /\ d.ci = c.ci /\ d.cpkt = c.cpkt
          /\ d.pak = [c.pak EXCEPT ![p] = k] /\ d.pkt = p
      BY <2>1, <2>6 DEF Level, Listed, Viewed, Fields
    <2> HIDE DEF d
    <2>8. /\ DOMAIN e = DOMAIN c /\ e.csta = c.csta /\ e.lastrun = c.lastrun
          /\ e.pktq = c.pktq /\ e.cpkt = c.cpkt /\ e.pak = d.pak /\ e.pkt = p
          /\ e.cmd = [c.cmd EXCEPT ![c.ci] = Returned(NoPacket)]
          /\ e.ci = (c.ci + 1) % CmdRing
      BY <2>1, <2>7 DEF Listed, Viewed, Fields
    <2>9. z = e \/ z = InitInt(e)
      BY DEF ReturnCmd, RingInt, InitInt
    <2> HIDE DEF e, z
    <2>10. /\ DOMAIN z = DOMAIN c /\ z.csta = c.csta /\ z.lastrun = c.lastrun
           /\ z.pktq = c.pktq /\ z.cpkt = c.cpkt /\ z.pkt = p
           /\ z.pak = [c.pak EXCEPT ![p] = k]
           /\ z.cmd = [c.cmd EXCEPT ![c.ci] = Returned(NoPacket)]
           /\ z.ci = (c.ci + 1) % CmdRing
      <3>1. /\ DOMAIN z = DOMAIN e /\ z.csta = e.csta /\ z.lastrun = e.lastrun
            /\ z.pktq = e.pktq /\ z.cpkt = e.cpkt /\ z.pkt = e.pkt
            /\ z.pak = e.pak /\ z.cmd = e.cmd /\ z.ci = e.ci
        BY <2>1, <2>8, <2>9 DEF InitInt, Listed, Viewed, Fields
      <3>2. e.pak = [c.pak EXCEPT ![p] = k]
        BY <2>7, <2>8
      <3> QED  BY <2>8, <3>1, <3>2
    <2>11. /\ DOMAIN z.pak = Packet /\ z.pak[p] = k
           /\ \A x \in Packet : "ref" \in DOMAIN z.pak[x] /\ (x # p => z.pak[x] = c.pak[x])
      BY <2>1, <2>2, <2>4, <2>10 DEF Listed
    <2>12. Listed(z) /\ Ok(z) /\ Wf(z) /\ z.pkt \in Packet
      <3>1. Listed(z) /\ Ok(z)
        BY <2>1, <2>10, <2>11 DEF Listed, Ok
      <3>2. Sound(z, z.pkt, 0, g) \/ z = Fatal(c)
        BY <2>3, GetPktSound
      <3>3. z # Fatal(c)
        BY <2>1, <3>1, ResetIdle DEF Ok, Wf
      <3> QED  BY <2>2, <2>10, <3>1, <3>2, <3>3 DEF Sound, Firm, Typed
    <2>13. PICK n \in 0 .. CmdRing : Issued(c, g, n)
      BY DEF Line
    <2>14. /\ n - 1 \in 0 .. CmdRing /\ Issued(z, g, n - 1)
           /\ X \subseteq Later(c, g) /\ k.ref \in Later(c, g) \cap Nat
           /\ \A r \in X : k.ref < r
      <3>1. c.ci \in 0 .. CmdRing - 1 /\ DOMAIN c.cmd = 0 .. CmdRing - 1
        BY <2>1 DEF Typed, RingsTyped
      <3> QED  BY <2>10, <2>13, <3>1, ReadIssued DEF X, k
    <2>15. \A u \in Unit : \A i \in 1 .. Len(c.pktq[u]) : c.pktq[u][i] \in Packet \ {p}
      <3> TAKE u \in Unit
      <3>1. c.pktq[u] \in Seq(Packet) /\ p \notin ToSet(c.pktq[u])
        BY <2>1, <2>2 DEF Listed, Uses
      <3> QED  BY <3>1 DEF ToSet
    <2>16. ASSUME NEW u \in Unit
           PROVE  /\ \A last : Growing(c.pktq[u], c.pak, last) => Growing(z.pktq[u], z.pak, last)
                  /\ \A r : Below(c.pktq[u], c.pak, r) => Below(z.pktq[u], z.pak, r)
      <3>1. \A i \in 1 .. Len(c.pktq[u]) : z.pak[c.pktq[u][i]].ref = c.pak[c.pktq[u][i]].ref
        BY <2>11, <2>15
      <3>2. z.pktq = c.pktq
        BY <2>10
      <3>3. /\ \A last : Growing(c.pktq[u], c.pak, last) => Growing(c.pktq[u], z.pak, last)
            /\ \A r : Below(c.pktq[u], c.pak, r) => Below(c.pktq[u], z.pak, r)
        BY <3>1, GrowSame
      <3> QED  BY <3>2, <3>3
    <2>17. Lasts(z, X) /\ Lasts(z, {g.ref})
      BY <2>1, <2>10, <2>14 DEF Standing, Lasts, Later
    <2>18. \A u \in Unit : InLine(z, u, X)
      BY <2>1, <2>10, <2>14, <2>16 DEF Standing, InLine
    <2>19. Standing(z, X) /\ Line(z, g)
      BY <2>14, <2>17, <2>18 DEF Standing, Line, X
    <2>20. Moved(c, z, g)
      BY <2>1, <2>10, <2>19 DEF Moved
    <2>21. Turn(z, p, TRUE, X)
      <3>1. ASSUME NEW u \in Unit
            PROVE  /\ c.lastrun[u] < k.ref /\ Below(z.pktq[u], z.pak, k.ref)
                   /\ z.cpkt[u] = 0 => Growing(z.pktq[u], z.pak, k.ref)
        <4>1. c.lastrun[u] < k.ref /\ Below(c.pktq[u], c.pak, k.ref)
          BY <2>1, <2>14 DEF Standing, Lasts, InLine
        <4>2. z.cpkt[u] = 0 => Growing(z.pktq[u], z.pak, k.ref)
          BY <2>10, GrowEmpty
        <4> QED  BY <2>16, <4>1, <4>2
      <3> QED  BY <2>10, <2>11, <2>14, <3>1 DEF Turn
    <2> QED  BY <2>3, <2>10, <2>12, <2>19, <2>20, <2>21 DEF X
  <1> QED  BY <1>1, <1>2

LEMMA PollDispatchMoved ==
  ASSUME NEW c, NEW g, Resting(c, g), Line(c, g),
         Ok(c) /\ c.pkt = 0 => \A u \in Unit : c.cpkt[u] = 0 => c.pktq[u] = <<>>
  PROVE  Moved(c, Dispatch(c, PollHost(c)), g)
  <1> DEFINE d == PollHost(c)
             e == Dispatch(c, d)
  <1>1. Sound(c, 0, 0, g) /\ Listed(c)
    BY SoundListed DEF Resting, Line, Lasts
  <1>2. CASE Ok(c) /\ c.pkt = 0 /\ c.pip /\ c.cmd[c.ci].own
    <2>1. d = GetPkt(c)
      BY <1>2 DEF PollHost
    <2>2. CASE d = Fatal(c)
      <3>1. d.csta = "DEAD" /\ Unmoved(c, d)
        BY <1>1, <2>2, FatalUnmoved, ResetIdle DEF Sound, Firm, Typed, Wf
      <3> HIDE DEF d
      <3>2. e = d
        BY <3>1 DEF Dispatch, Ok
      <3> QED  BY <3>1, <3>2, UnmovedMoved DEF d
    <2>3. CASE /\ Ok(d) /\ Wf(d) /\ Listed(d) /\ d.pkt \in Packet /\ Moved(c, d, g)
               /\ Standing(d, Later(d, g)) /\ Turn(d, d.pkt, TRUE, Later(d, g))
      <3> HIDE DEF d
      <3>1. Line(d, g)
        BY <2>3 DEF Moved
      <3>2. Moved(d, Mscp(d, d.pkt, TRUE), g)
        BY <2>3, <3>1, MscpOnto, OntoMoved
      <3>3. Unmoved(d, Fatal(d)) /\ Unmoved(d, Respond(d, d.pkt, "cmd"))
        BY <2>3, FatalUnmoved, RespondUnmoved
      <3>4. Moved(d, Fatal(d), g) /\ Moved(d, Respond(d, d.pkt, "cmd"), g)
        BY <3>1, <3>3, UnmovedMoved
      <3>5. e \in {d, Fatal(d), Respond(d, d.pkt, "cmd"), Mscp(d, d.pkt, TRUE)}
        BY DEF Dispatch
      <3>6. Moved(d, e, g)
        BY <3>1, <3>2, <3>4, <3>5, MovedSelf
      <3> QED  BY <2>3, <3>6, MovedTrans DEF d
    <2> QED  BY <1>1, <1>2, <2>1, <2>2, <2>3, GetPktInTurn
  <1>3. CASE Ok(c) /\ c.pkt = 0 /\ c.pip /\ ~c.cmd[c.ci].own
    <2>1. d = [c EXCEPT !.pip = FALSE]
      BY <1>3 DEF PollHost
    <2>2. Level(c, d) /\ d.pkt = 0
      BY <1>1, <1>3, <2>1 DEF Level, Listed, Viewed, Fields
    <2>3. e = d
      BY <2>2 DEF Dispatch
    <2> HIDE DEF d
    <2> QED  BY <1>1, <2>2, <2>3, LevelUnmoved, UnmovedMoved DEF d
  <1>4. CASE ~(Ok(c) /\ c.pkt = 0 /\ c.pip)
    <2>1. d = c
      BY <1>4 DEF PollHost
    <2> QED  BY <2>1, MovedSelf DEF Dispatch
  <1> QED  BY <1>2, <1>3, <1>4

LEMMA PutQueuedMoved ==
  ASSUME NEW c, NEW g, Listed(c), Line(c, g)
  PROVE  Moved(c, PutQueued(c), g)
  <1> DEFINE p == Head(c.rspq)
             d == [c EXCEPT !.rspq = Tail(@), !.pkt = Head(c.rspq)]
  <1>1. PutQueued(c) = c \/ PutQueued(c) = PutPkt(d, p, FALSE)
    BY DEF PutQueued
  <1>2. Level(c, d)
    BY DEF Level, Listed, Viewed, Fields
  <1> HIDE DEF d, p
  <1>3. Level(d, PutPkt(d, p, FALSE))
    BY <1>2, LevelUnmoved, PutPktLevel
  <1>4. Level(c, PutPkt(d, p, FALSE))
    BY <1>2, <1>3 DEF Level
  <1> QED  BY <1>1, <1>4, LevelUnmoved, UnmovedMoved, MovedSelf

LEMMA QueueServiceMoved ==
  ASSUME NEW hang \in BOOLEAN, Scheduled(ctlr, hang), Sound(ctlr, 0, 0, host),
         DriverTyped(host), Line(ctlr, host), QueueService
  PROVE  Moved(ctlr, ctlr', host)
  <1> DEFINE c == [ctlr EXCEPT !.qon = FALSE, !.pkt = 0]
             c0 == ServeUnit(c, 0)
             c1 == ServeUnit(c0, 1)
             c2 == ServeUnit(c1, 2)
             c3 == ServeUnit(c2, 3)
             c5 == Dispatch(c3, PollHost(c3))
             c6 == PutQueued(c5)
             d == GoOn(c6)
  <1>1. Wf(ctlr) /\ Ok(ctlr) /\ Listed(ctlr)
    BY SoundListed DEF Sound, Firm, Typed, QueueService, Line, Lasts
  <1>2. Alike(ctlr, c) /\ Level(ctlr, c)
    BY <1>1 DEF Alike, Wf, Fields, Level, Listed, Viewed
  <1>3. Handled(c, {}, hang)
    BY <1>1 DEF Scheduled, Handled, Between, Wf, Fields, UnitsScheduled, Ok, Idle
  <1> HIDE DEF c, c0, c1, c2, c3, c5, c6, d
  <1>4. ctlr' = d
    BY Zenon DEF QueueService, Become, c, c0, c1, c2, c3, c5, c6, d
  <1>5. Resting(c, host) /\ Moved(ctlr, c, host)
    <2>1. Resting(c, host)
      BY <1>1, <1>2, AlikeSound DEF Resting, Ok, Alike
    <2> QED  BY <1>1, <1>2, <2>1, LevelUnmoved, UnmovedMoved
  <1>6. {0, 1, 2, 3} = Unit
    BY DEF Unit
  <1>7. ASSUME NEW x, NEW U \in SUBSET Unit, Handled(x, U, hang), Resting(x, host),
               Moved(ctlr, x, host), NEW u \in Unit
        PROVE  /\ Handled(ServeUnit(x, u), U \cup {u}, hang)
               /\ Resting(ServeUnit(x, u), host) /\ Moved(ctlr, ServeUnit(x, u), host)
    <2>1. Handled(ServeUnit(x, u), U \cup {u}, hang)
      BY <1>7, ServeUnitHandled
    <2>2. Resting(ServeUnit(x, u), host)
      BY <1>7, ServeUnitSound
    <2>3. Moved(x, ServeUnit(x, u), host)
      BY <1>7, ServeUnitMoved DEF Moved
    <2> QED  BY <1>7, <2>1, <2>2, <2>3, MovedTrans
  <1>8. Handled(c0, {0}, hang) /\ Resting(c0, host) /\ Moved(ctlr, c0, host)
    BY <1>3, <1>5, <1>6, <1>7 DEF c0
  <1>9. Handled(c1, {0, 1}, hang) /\ Resting(c1, host) /\ Moved(ctlr, c1, host)
    BY <1>6, <1>7, <1>8 DEF c1
  <1>10. Handled(c2, {0, 1, 2}, hang) /\ Resting(c2, host) /\ Moved(ctlr, c2, host)
    BY <1>6, <1>7, <1>9 DEF c2
  <1>11. Handled(c3, Unit, hang) /\ Resting(c3, host) /\ Moved(ctlr, c3, host)
    BY <1>6, <1>7, <1>10 DEF c3
  <1>12. Resting(c5, host) /\ Moved(ctlr, c5, host)
    <2>1. Resting(c5, host)
      BY <1>11, PollDispatchSound DEF c5
    <2>2. Moved(c3, c5, host)
      BY <1>11, PollDispatchMoved DEF c5, Handled, Moved
    <2> QED  BY <1>11, <2>1, <2>2, MovedTrans
  <1>13. Resting(c6, host) /\ Moved(ctlr, c6, host)
    <2>1. Resting(c6, host)
      BY <1>12, PutQueuedSound DEF c6
    <2>2. Listed(c5) /\ Line(c5, host)
      BY <1>12, SoundListed DEF Resting, Moved, Line, Lasts
    <2>3. Moved(c5, c6, host)
      BY <2>2, PutQueuedMoved DEF c6
    <2> QED  BY <1>12, <2>1, <2>3, MovedTrans
  <1>14. Listed(c6) /\ Line(c6, host)
    BY <1>13, SoundListed DEF Resting, Moved, Line, Lasts
  <1>15. Level(c6, d)
    BY <1>14 DEF GoOn, d, Level, Listed, Viewed, Fields
  <1>16. Moved(c6, d, host)
    BY <1>14, <1>15, LevelUnmoved, UnmovedMoved
  <1> QED  BY <1>4, <1>13, <1>16, MovedTrans

-----------------------------------------------------------------------------
(* The units, the clock and the initialisation *)

\* rq_rw_end: the unit's command was none of those waiting.
LEMMA RwEndUnmoved ==
  ASSUME NEW c, Listed(c), Wf(c), NEW u \in Unit, c.cpkt[u] # 0, NEW sts
  PROVE  Unmoved(c, RwEnd(c, u, sts))
  <1> DEFINE a == [c EXCEPT !.cpkt[u] = 0]
             p == c.cpkt[u]
             d == Respond(a, p, sts)
             e == [d EXCEPT !.qon = @ \/ (Ok(d) /\ d.pktq[u] # <<>>)]
  <1>1. p \in Packet
    BY DEF Wf
  <1>2. Level(c, a)
    BY DEF Level, Listed, Viewed, Fields
  <1>3. RwEnd(c, u, sts) = e
    BY DEF RwEnd
  <1> HIDE DEF a, p
  <1>4. Listed(a) /\ Unmoved(c, a)
    BY <1>2, LevelUnmoved
  <1>5. Listed(d) /\ Unmoved(a, d)
    BY <1>1, <1>4, RespondUnmoved
  <1> HIDE DEF d
  <1>6. Level(d, e)
    BY <1>5 DEF Level, Listed, Viewed, Fields
  <1>7. Unmoved(d, e)
    BY <1>5, <1>6, LevelUnmoved
  <1> QED  BY <1>3, <1>4, <1>5, <1>7, UnmovedTrans

LEMMA RwErrorUnmoved ==
  ASSUME NEW c, NEW g, Sound(c, 0, 0, g), DriverTyped(g), Ok(c), "lastrun" \in DOMAIN c,
         NEW u \in Unit, c.cpkt[u] # 0, NEW sts
  PROVE  Unmoved(c, RwError(c, u, sts))
  <1> DEFINE d == LogError(c, u)
  <1>1. Sends(c, d, g)
    BY LogSound
  <1>2. Unmoved(c, d)
    BY LogUnmoved
  <1>3. RwError(c, u, sts) = IF Ok(d) THEN RwEnd(d, u, sts) ELSE d
    BY DEF RwError
  <1> HIDE DEF d
  <1>4. CASE Ok(d)
    <2>1. d # Fatal(c)
      BY <1>4, ResetIdle DEF Sound, Firm, Typed, Wf, Ok
    <2>2. Listed(d) /\ Wf(d) /\ d.cpkt[u] # 0
      BY <1>1, <1>2, <2>1, SoundListed DEF Sends, Kept, Unmoved, Sound, Firm, Typed
    <2>3. Unmoved(d, RwEnd(d, u, sts))
      BY <2>2, RwEndUnmoved
    <2> QED  BY <1>2, <1>3, <1>4, <2>3, UnmovedTrans
  <1>5. CASE ~Ok(d)
    BY <1>2, <1>3, <1>5
  <1> QED  BY <1>4, <1>5

LEMMA RelabelledUnmoved ==
  ASSUME NEW c, NEW d, Listed(c), Relabelled(c, d), d.lastrun = c.lastrun
  PROVE  Unmoved(c, d)
  <1>1. \A u \in Unit : \A i \in 1 .. Len(c.pktq[u]) : c.pktq[u][i] \in Packet
    BY DEF Listed
  <1> QED  BY <1>1 DEF Unmoved, Relabelled, Listed, Ok

\* rq_svc, its two halves.
LEMMA StartIoUnmoved ==
  ASSUME NEW c, Listed(c), NEW u \in Unit, NEW status
  PROVE  Unmoved(c, StartIo(c, u, status))
  <1> DEFINE d == [c EXCEPT !.io[u] = status, !.buf[u] = Work(c, u), !.uon[u] = TRUE]
  <1>1. StartIo(c, u, status) = c \/ StartIo(c, u, status) = d
    BY DEF StartIo
  <1>2. Level(c, d) /\ Level(c, c)
    BY DEF Level, Listed, Viewed, Fields
  <1> HIDE DEF d
  <1> QED  BY <1>1, <1>2, LevelUnmoved

LEMMA FinishIoUnmoved ==
  ASSUME NEW c0, NEW g, Sound(c0, 0, 0, g), DriverTyped(g), Ok(c0), "lastrun" \in DOMAIN c0,
         NEW u \in Unit, c0.cpkt[u] # 0, NEW memory
  PROVE  Unmoved(c0, FinishIo(c0, u, memory))
  <1> DEFINE c == [c0 EXCEPT !.io[u] = "none"]
             more == [c EXCEPT !.pak[c.cpkt[u]].len = @ - 1]
             again == [more EXCEPT !.uon[u] = TRUE]
             d == FinishIo(c0, u, memory)
  <1>1. Wf(c0) /\ Typed(c0) /\ Listed(c0)
    BY SoundListed DEF Sound, Firm, Typed
  <1>2. Relabelled(c0, c) /\ Relabelled(c0, more)
    BY <1>1, PartDone
  <1>3. c.lastrun = c0.lastrun /\ more.lastrun = c0.lastrun
    BY <1>1 DEF Listed
  <1>4. \/ \E sts \in {"hst", "drv"} : d = RwError(c, u, sts)
        \/ d = RwEnd(c, u, "cmp") \/ d = RwEnd(more, u, "suc") \/ d = again
    BY DEF FinishIo, c, more, d
  <1> HIDE DEF c, more, d
  <1>5. ASSUME NEW x \in {c, more}
        PROVE  /\ Unmoved(c0, x) /\ Sound(x, 0, 0, g) /\ Ok(x) /\ x.cpkt[u] # 0
               /\ Listed(x) /\ Wf(x)
    <2>1. Unmoved(c0, x) /\ Sound(x, 0, 0, g) /\ Ok(x) /\ x.cpkt[u] # 0
      BY <1>1, <1>2, <1>3, RelabelledUnmoved, RelabelledSound DEF Relabelled, Ok
    <2> QED  BY <2>1, SoundListed DEF Sound, Firm, Typed, Unmoved
  <1>6. \A sts \in {"hst", "drv"} : Unmoved(c, RwError(c, u, sts))
    BY <1>5, RwErrorUnmoved DEF Unmoved
  <1>7. Unmoved(c, RwEnd(c, u, "cmp")) /\ Unmoved(more, RwEnd(more, u, "suc"))
    BY <1>5, RwEndUnmoved
  <1>8. Unmoved(more, again)
    <2>1. Level(more, again)
      BY <1>5 DEF Level, Listed, Viewed, Fields
    <2> QED  BY <1>5, <2>1, LevelUnmoved
  <1>9. Unmoved(c, d) \/ Unmoved(more, d)
    BY <1>4, <1>6, <1>7, <1>8
  <1> QED  BY <1>5, <1>9, UnmovedTrans DEF d

LEMMA UnitServiceMoved ==
  ASSUME Sound(ctlr, 0, 0, host), DriverTyped(host), ~Ok(ctlr) => Idle(ctlr),
         Line(ctlr, host), NEW u \in Unit, UnitService(u)
  PROVE  Moved(ctlr, ctlr', host)
  <1> DEFINE c == [ctlr EXCEPT !.uon[u] = FALSE]
  <1>1. Ok(ctlr) /\ ctlr.cpkt[u] # 0
    BY DEF UnitService, Idle
  <1>2. Wf(ctlr) /\ Listed(ctlr)
    BY SoundListed DEF Sound, Firm, Typed, Line, Lasts
  <1>3. \/ ctlr' = RwEnd(c, u, "ofl") \/ ctlr' = RwEnd(c, u, "suc")
        \/ \E status \in {"ok", "bad", "nothing"} : ctlr' = StartIo(c, u, status)
        \/ \E fault : ctlr' = FinishIo(c, u, fault)
    BY DEF UnitService
  <1>4. Alike(ctlr, c) /\ Level(ctlr, c)
    BY <1>2 DEF Alike, Wf, Fields, Level, Listed, Viewed
  <1> HIDE DEF c
  <1>5. /\ Sound(c, 0, 0, host) /\ Ok(c) /\ c.cpkt[u] # 0 /\ Wf(c) /\ Listed(c)
        /\ "lastrun" \in DOMAIN c /\ Unmoved(ctlr, c)
    <2>1. Sound(c, 0, 0, host) /\ Ok(c) /\ c.cpkt[u] # 0 /\ Wf(c)
      BY <1>1, <1>4, AlikeSound DEF Alike, Ok
    <2> QED  BY <1>2, <1>4, <2>1, LevelUnmoved DEF Unmoved
  <1>6. Unmoved(c, RwEnd(c, u, "ofl")) /\ Unmoved(c, RwEnd(c, u, "suc"))
    BY <1>5, RwEndUnmoved
  <1>7. \A status : Unmoved(c, StartIo(c, u, status))
    BY <1>5, StartIoUnmoved
  <1>8. \A fault : Unmoved(c, FinishIo(c, u, fault))
    BY <1>5, FinishIoUnmoved
  <1>9. Unmoved(c, ctlr')
    BY <1>3, <1>6, <1>7, <1>8
  <1> QED  BY <1>5, <1>9, UnmovedTrans, UnmovedMoved

\* rq_tmrsvc.
LEMMA AttendUnmoved ==
  ASSUME NEW c, NEW g, Sound(c, 0, 0, g), DriverTyped(g), "lastrun" \in DOMAIN c, NEW u
  PROVE  Unmoved(c, Attend(c, u))
  <1> DEFINE d == IF c.atp[u] /\ c.att[u] /\ c.atn THEN Attention(c, u) ELSE c
             e == [d EXCEPT !.atp[u] = FALSE]
  <1>1. Unmoved(c, c) /\ Unmoved(c, d)
    BY LogUnmoved DEF Unmoved
  <1>2. Attend(c, u) \in {c, e, d} /\ (Attend(c, u) = e => Ok(c) \/ Attend(c, u) = c)
    BY DEF Attend
  <1>3. CASE Attend(c, u) \in {c, d}
    BY <1>1, <1>3
  <1>4. CASE Ok(c) /\ Attend(c, u) = e
    <2>1. Sends(c, Attention(c, u), g) /\ Sends(c, c, g)
      BY <1>4, LogSound DEF Sends, Kept
    <2>2. Sound(d, 0, 0, g)
      BY <2>1 DEF Sends
    <2> HIDE DEF d
    <2>3. Listed(d)
      BY <1>1, <2>2, SoundListed DEF Unmoved
    <2>4. Level(d, e)
      BY <2>3 DEF Level, Listed, Viewed, Fields
    <2> QED  BY <1>1, <1>4, <2>3, <2>4, LevelUnmoved, UnmovedTrans
  <1> QED  BY <1>1, <1>2, <1>3, <1>4

LEMMA HostTimerUnmoved ==
  ASSUME NEW c, Listed(c)
  PROVE  Unmoved(c, HostTimer(c))
  <1> DEFINE d == [c EXCEPT !.hat = @ - 1]
  <1>1. HostTimer(c) \in {c, d, Fatal(c)}
    BY DEF HostTimer
  <1>2. Level(c, d) /\ Level(c, c)
    BY DEF Level, Listed, Viewed, Fields
  <1> HIDE DEF d
  <1> QED  BY <1>1, <1>2, LevelUnmoved, FatalUnmoved

LEMMA TimerServiceMoved ==
  ASSUME Sound(ctlr, 0, 0, host), DriverTyped(host), Line(ctlr, host), TimerService
  PROVE  Moved(ctlr, ctlr', host)
  <1> DEFINE c0 == Attend(ctlr, 0)
             c1 == Attend(c0, 1)
             c2 == Attend(c1, 2)
             c3 == Attend(c2, 3)
             d == HostTimer(c3)
  <1> HIDE DEF c0, c1, c2, c3, d
  <1>1. ctlr' = d
    BY Zenon DEF TimerService, Become, c0, c1, c2, c3, d
  <1>2. ASSUME NEW x, NEW u, Sound(x, 0, 0, host), Unmoved(ctlr, x)
        PROVE  Sound(Attend(x, u), 0, 0, host) /\ Unmoved(ctlr, Attend(x, u))
    <2>1. "lastrun" \in DOMAIN x
      BY <1>2 DEF Unmoved
    <2> QED  BY <1>2, <2>1, AttendSound, AttendUnmoved, UnmovedTrans DEF Timed
  <1>3. Sound(c0, 0, 0, host) /\ Unmoved(ctlr, c0)
    BY <1>2 DEF c0, Unmoved, Line, Lasts
  <1>4. Sound(c1, 0, 0, host) /\ Unmoved(ctlr, c1)
    BY <1>2, <1>3 DEF c1
  <1>5. Sound(c2, 0, 0, host) /\ Unmoved(ctlr, c2)
    BY <1>2, <1>4 DEF c2
  <1>6. Sound(c3, 0, 0, host) /\ Unmoved(ctlr, c3)
    BY <1>2, <1>5 DEF c3
  <1>7. Unmoved(c3, d)
    BY <1>6, SoundListed, HostTimerUnmoved DEF d, Unmoved
  <1> QED  BY <1>1, <1>6, <1>7, UnmovedTrans, UnmovedMoved

\* The controller goes up: no command is in the ring and none on a queue.
LEMMA GoUpMoved ==
  ASSUME NEW c, NEW g, Sound(c, 0, 0, g), DriverTyped(g), Agree(c, g), Idle(c),
         Lasts(c, {g.ref}), c.csta = "S4", c.saw \in {"go", "golf"},
         c.ci = 0, g.hc = 0
  PROVE  Moved(c, GoUp(c), g)
  <1> DEFINE up == [c EXCEPT !.csta = "UP", !.sa = "zero", !.ton = TRUE]
             d == IF c.saw = "golf" /\ c.perr THEN LogFailure(up) ELSE up
             e == [d EXCEPT !.perr = FALSE]
  <1>1. Listed(c) /\ \A i \in 0 .. CmdRing - 1 : ~c.cmd[i].own
    BY SoundListed DEF Lasts, Agree
  <1>2. /\ DOMAIN up = DOMAIN c /\ up.csta = "UP" /\ up.lastrun = c.lastrun
        /\ up.pktq = c.pktq /\ up.cmd = c.cmd /\ up.ci = c.ci
    BY <1>1 DEF Listed, Viewed, Fields
  <1>3. GoUp(c) = e
    BY DEF GoUp
  <1>4. Sound(up, 0, 0, g) /\ Ok(up)
    BY UpSound
  <1> HIDE DEF up
  <1>5. Pending(up) = {} /\ Later(up, g) = {g.ref}
    BY <1>1, <1>2 DEF Pending, Later
  <1>6. Issued(up, g, 0) /\ 0 \in 0 .. CmdRing
    <2>1. CmdRing \in Nat \ {0}
      BY MscpAssumption
    <2>2. Onward(0, 0) = 0 /\ \A i \in 0 .. CmdRing - 1 : ~(Ahead(0, i) < 0)
      BY <2>1 DEF Onward, Ahead
    <2> QED  BY <1>2, <1>5, <2>1, <2>2 DEF Issued
  <1>7. Lasts(up, {g.ref})
    BY <1>2 DEF Lasts
  <1>8. \A u \in Unit : InLine(up, u, {g.ref})
    BY <1>2, GrowEmpty DEF Idle, InLine
  <1>9. Line(up, g)
    BY <1>5, <1>6, <1>7, <1>8 DEF Line, Standing
  <1>10. Moved(c, up, g)
    BY <1>2, <1>9 DEF Moved, Lasts
  <1>11. Unmoved(up, up) /\ Unmoved(up, d)
    BY <1>4, <1>7, LogUnmoved DEF Unmoved, Lasts
  <1>12. Sound(d, 0, 0, g)
    BY <1>4, LogSound DEF Sends
  <1> HIDE DEF d
  <1>13. Listed(d)
    BY <1>11, <1>12, SoundListed DEF Unmoved
  <1>14. Level(d, e)
    BY <1>13 DEF Level, Listed, Viewed, Fields
  <1>15. Unmoved(up, e)
    BY <1>11, <1>13, <1>14, LevelUnmoved, UnmovedTrans
  <1>16. Line(c, g)
    BY DEF Line, Ok
  <1> QED  BY <1>3, <1>9, <1>10, <1>15, <1>16, UnmovedMoved, MovedTrans

\* A controller that is not up has nothing in line.
LEMMA OffMoved ==
  ASSUME NEW c, NEW d, NEW g, Lasts(c, {g.ref}), "lastrun" \in DOMAIN d,
         d.lastrun = c.lastrun, ~Ok(d)
  PROVE  Moved(c, d, g)
  BY DEF Moved, Line, Lasts

LEMMA Step4Off ==
  ASSUME NEW c, Listed(c)
  PROVE  /\ Step4(c).csta = "S4" /\ Step4(c).ci = 0
         /\ "lastrun" \in DOMAIN Step4(c) /\ Step4(c).lastrun = c.lastrun
  BY DEF Step4, InitInt, Listed, Viewed, Fields

LEMMA InitStepMoved ==
  ASSUME NEW c, NEW g, Sound(c, 0, 0, g), DriverTyped(g), Agree(c, g), Idle(c),
         Lasts(c, {g.ref}), c.csta \notin {"UP", "DEAD"},
         c.csta = "S4" => c.ci = 0, g.step # "up" => g.hc = 0
  PROVE  Moved(c, InitStep(c), g) /\ (InitStep(c).csta = "S4" => InitStep(c).ci = 0)
  <1> DEFINE d == InitStep(c)
  <1>1. Listed(c)
    BY SoundListed DEF Lasts
  <1>2. CASE c.csta = "S4" /\ c.saw \in {"go", "golf"}
    <2>1. d = GoUp(c)
      BY <1>2 DEF InitStep
    <2>2. g.hc = 0
      BY <1>2 DEF Agree
    <2>3. Moved(c, d, g)
      BY <1>2, <2>1, <2>2, GoUpMoved
    <2>4. d.csta # "S4"
      BY <1>2, <2>1, GoUpSound
    <2> QED  BY <2>3, <2>4
  <1>3. CASE c.csta = "S3" /\ c.saw # "purge"
    <2>1. d = Step4(c)
      BY <1>3 DEF InitStep
    <2> QED  BY <1>1, <2>1, Step4Off, OffMoved DEF Ok
  <1>4. CASE c.csta = "S3_PPA" /\ c.saw # "zero"
    <2>1. d = Fatal(c)
      BY <1>4 DEF InitStep
    <2>2. "lastrun" \in DOMAIN d /\ d.lastrun = c.lastrun /\ d.csta = "DEAD"
      BY <1>1, <2>1, FatalUnmoved, ResetIdle DEF Sound, Firm, Typed, Wf, Unmoved
    <2> QED  BY <2>2, OffMoved DEF Ok
  <1>5. CASE \/ c.csta = "S1" /\ c.saw \in {"s1", "wrap"}
             \/ c.csta = "S2"
             \/ c.csta = "S3" /\ c.saw = "purge"
             \/ c.csta = "S3_PPA" /\ c.saw = "zero"
    <2>1. /\ "lastrun" \in DOMAIN d /\ d.lastrun = c.lastrun
          /\ d.csta \in {"S1_WR", "S2", "S3", "S3_PPA", "S3_PPB"}
      <3>1. CASE c.csta = "S1" /\ c.saw = "s1"
        BY <1>1, <3>1 DEF InitStep, InitInt, Listed, Viewed, Fields
      <3>2. CASE c.csta = "S1" /\ c.saw = "wrap"
        BY <1>1, <3>2 DEF InitStep, Listed, Viewed, Fields
      <3>3. CASE c.csta = "S2"
        BY <1>1, <3>3 DEF InitStep, InitInt, Listed, Viewed, Fields
      <3>4. CASE c.csta = "S3" /\ c.saw = "purge"
        BY <1>1, <3>4 DEF InitStep, Listed, Viewed, Fields
      <3>5. CASE c.csta = "S3_PPA" /\ c.saw = "zero"
        BY <1>1, <3>5 DEF InitStep, Listed, Viewed, Fields
      <3> QED  BY <1>5, <3>1, <3>2, <3>3, <3>4, <3>5
    <2> HIDE DEF d
    <2> QED  BY <2>1, OffMoved DEF Ok, d
  <1>6. CASE d = c
    BY <1>6, OffMoved DEF Ok, Lasts
  <1>7. \/ d = c
        \/ c.csta \in {"S2", "S3", "S3_PPA"}
        \/ c.csta = "S4" /\ c.saw \in {"go", "golf"}
        \/ c.csta = "S1" /\ c.saw \in {"s1", "wrap"}
    BY DEF InitStep
  <1> QED  BY <1>2, <1>3, <1>4, <1>5, <1>6, <1>7 DEF d

LEMMA InitServiceMoved ==
  ASSUME SInv, ~Ok(ctlr) => Idle(ctlr), OInv, InitService
  PROVE  Moved(ctlr, ctlr', host) /\ (ctlr'.csta = "S4" => ctlr'.ci = 0)
  <1> DEFINE c == [ctlr EXCEPT !.qon = FALSE]
  <1>1. ctlr' = InitStep(c) /\ ctlr.csta \notin {"UP", "DEAD"}
    BY DEF InitService, Become
  <1>2. Wf(ctlr) /\ Typed(ctlr) /\ Lasts(ctlr, {host.ref}) /\ Listed(ctlr)
    BY SoundListed DEF SInv, Sound, Firm, Typed, OInv, Line, Lasts
  <1>3. Alike(ctlr, c) /\ c.saw = ctlr.saw /\ Level(ctlr, c)
    BY <1>2 DEF Alike, Wf, Fields, Typed, Viewed, Level, Listed
  <1>4. Idle(c)
    <2>1. Idle(ctlr)
      BY <1>1 DEF Ok
    <2> QED  BY <1>2, <2>1 DEF Idle, Wf, Fields
  <1> HIDE DEF c
  <1>5. Sound(c, 0, 0, host) /\ Agree(c, host) /\ c.csta = ctlr.csta
    BY <1>3, AlikeSound, AgreeSame DEF SInv, Alike
  <1>6. Lasts(c, {host.ref}) /\ (c.csta = "S4" => c.ci = 0)
    BY <1>2, <1>3 DEF Lasts, Level, OInv
  <1>7. Moved(c, InitStep(c), host) /\ (InitStep(c).csta = "S4" => InitStep(c).ci = 0)
    BY <1>1, <1>4, <1>5, <1>6, InitStepMoved DEF SInv, OInv
  <1> QED  BY <1>1, <1>3, <1>7 DEF Moved, Level

-----------------------------------------------------------------------------
(* The operator and the driver *)

LEMMA LevelMoved ==
  ASSUME NEW c, NEW d, NEW g, NEW h, Line(c, g), Listed(c), Level(c, d),
         h.hc = g.hc, h.ref = g.ref
  PROVE  Moved(c, d, h)
  <1>1. Moved(c, d, g)
    BY LevelUnmoved, UnmovedMoved
  <1>2. Later(d, h) = Later(d, g)
    BY DEF Later
  <1>3. \A n \in 0 .. CmdRing : Issued(d, g, n) => Issued(d, h, n)
    BY DEF Issued
  <1>4. Lasts(d, {h.ref})
    BY <1>1 DEF Moved, Line
  <1>5. Ok(d) => Standing(d, Later(d, h)) /\ \E n \in 0 .. CmdRing : Issued(d, h, n)
    BY <1>1, <1>2, <1>3 DEF Moved, Line
  <1> QED  BY <1>1, <1>4, <1>5 DEF Moved, Line

\* The command ring, when a command joins the others.
LEMMA AddIssued ==
  ASSUME NEW c, NEW d, NEW g, NEW h, NEW k, NEW n \in 0 .. CmdRing, Issued(c, g, n),
         c.ci \in 0 .. CmdRing - 1, DOMAIN c.cmd = 0 .. CmdRing - 1,
         g.hc \in 0 .. CmdRing - 1, g.ref \in Nat, ~c.cmd[g.hc].own,
         d.cmd = [c.cmd EXCEPT ![g.hc] = k], d.ci = c.ci, k.own = TRUE, k.d.ref = g.ref,
         h.hc = (g.hc + 1) % CmdRing, h.ref = g.ref + 1
  PROVE  /\ n + 1 \in 0 .. CmdRing /\ Issued(d, h, n + 1)
         /\ Later(d, h) \subseteq Later(c, g) \cup {g.ref + 1}
  <1>1. CmdRing \in Nat \ {0}
    BY MscpAssumption
  <1>2. g.hc \notin Pending(c) /\ g.hc = Onward(c.ci, n)
    BY DEF Pending, Issued
  <1>3. ~(Ahead(c.ci, g.hc) < n)
    BY <1>2 DEF Issued
  <1>4. PICK x \in 0 .. CmdRing - 1, y \in 0 .. CmdRing - 1 : x = c.ci /\ y = g.hc
    OBVIOUS
  <1>5. n < CmdRing /\ Ahead(x, y) = n
    <2>1. y = Onward(x, n) /\ ~(Ahead(x, y) < n)
      BY <1>2, <1>3, <1>4
    <2> QED  BY <1>1, <2>1 DEF Onward, Ahead
  <1>6. \A i \in 0 .. CmdRing - 1 :
          Ahead(x, i) \in 0 .. CmdRing - 1 /\ (Ahead(x, i) = n <=> i = y)
    <2>1. \A i \in 0 .. CmdRing - 1 : Ahead(x, i) \in 0 .. CmdRing - 1
      <3>1. 1 \in 1 .. CmdRing
        BY <1>1
      <3>2. Ahead(x, x) = 0 /\ \A i \in 0 .. CmdRing - 1 : i # x => Ahead(x, i) \in 1 .. CmdRing - 1
        BY <3>1, NextAhead
      <3> QED  BY <1>1, <3>2
    <2>2. ASSUME NEW i \in 0 .. CmdRing - 1, Ahead(x, i) = Ahead(x, y) PROVE i = y
      <3>1. CASE i >= x /\ y >= x
        BY <2>2, <3>1 DEF Ahead
      <3>2. CASE i < x /\ y < x
        BY <1>1, <2>2, <3>2 DEF Ahead
      <3>3. CASE i >= x /\ y < x
        BY <1>1, <2>2, <3>3 DEF Ahead
      <3>4. CASE i < x /\ y >= x
        BY <1>1, <2>2, <3>4 DEF Ahead
      <3> QED  BY <3>1, <3>2, <3>3, <3>4
    <2> QED  BY <1>5, <2>1, <2>2
  <1>7. (y + 1) % CmdRing = Onward(x, n + 1)
    <2>1. (y + 1) % CmdRing = IF y + 1 = CmdRing THEN 0 ELSE y + 1
      BY <1>1, RingIndex
    <2>2. y = Onward(x, n)
      BY <1>2, <1>4
    <2> QED  BY <1>1, <1>5, <2>1, <2>2 DEF Onward
  <1>8. \A i \in 0 .. CmdRing - 1 : d.cmd[i] = IF i = y THEN k ELSE c.cmd[i]
    BY <1>4
  <1>9. Pending(d) = Pending(c) \cup {y}
    BY <1>4, <1>8 DEF Pending
  <1>10. Pending(c) = {i \in 0 .. CmdRing - 1 : Ahead(x, i) < n}
    BY <1>4 DEF Issued
  <1>11. Pending(d) = {i \in 0 .. CmdRing - 1 : Ahead(d.ci, i) < n + 1}
    <2>1. ASSUME NEW i \in 0 .. CmdRing - 1
          PROVE  Ahead(x, i) < n + 1 <=> (Ahead(x, i) < n \/ i = y)
      <3>1. PICK a \in Int : a = Ahead(x, i)
        BY <1>6
      <3>2. a < n + 1 <=> a < n \/ a = n
        BY <3>1
      <3> QED  BY <1>6, <3>1, <3>2
    <2> QED  BY <1>4, <1>9, <1>10, <2>1
  <1>12. \A i \in Pending(c) : d.cmd[i] = c.cmd[i] /\ i # y
    BY <1>2, <1>4, <1>8 DEF Pending
  <1>13. d.cmd[y].d.ref = g.ref
    BY <1>8
  <1>14. \A i \in Pending(c) : c.cmd[i].d.ref \in Nat /\ c.cmd[i].d.ref < g.ref
    BY DEF Issued
  <1>15. \A i \in Pending(d) : d.cmd[i].d.ref \in Nat /\ d.cmd[i].d.ref < h.ref
    <2> TAKE i \in Pending(d)
    <2>1. CASE i = y
      BY <1>13, <2>1
    <2>2. CASE i \in Pending(c)
      BY <1>12, <1>14, <2>2
    <2> QED  BY <1>9, <2>1, <2>2
  <1>16. \A i, j \in Pending(d) :
           Ahead(d.ci, i) < Ahead(d.ci, j) => d.cmd[i].d.ref < d.cmd[j].d.ref
    <2> SUFFICES ASSUME NEW i \in Pending(d), NEW j \in Pending(d),
                        Ahead(x, i) < Ahead(x, j)
                 PROVE  d.cmd[i].d.ref < d.cmd[j].d.ref
      BY <1>4
    <2>1. i # y
      <3>1. i \in 0 .. CmdRing - 1 /\ j \in 0 .. CmdRing - 1 /\ Ahead(x, j) < n + 1
        BY <1>4, <1>11
      <3> QED  BY <1>5, <1>6, <3>1
    <2>2. i \in Pending(c)
      BY <1>9, <2>1
    <2>3. CASE j = y
      BY <1>12, <1>13, <1>14, <2>2, <2>3
    <2>4. CASE j \in Pending(c)
      BY <1>4, <1>12, <2>2, <2>4 DEF Issued
    <2> QED  BY <1>9, <2>3, <2>4
  <1>17. h.hc = Onward(d.ci, n + 1) /\ n + 1 \in 0 .. CmdRing
    BY <1>1, <1>4, <1>5, <1>7
  <1>18. Issued(d, h, n + 1)
    BY <1>11, <1>15, <1>16, <1>17 DEF Issued
  <1>19. Later(d, h) \subseteq Later(c, g) \cup {g.ref + 1}
    BY <1>9, <1>12, <1>13 DEF Later
  <1> QED  BY <1>17, <1>18, <1>19

LEMMA IssueMoved ==
  ASSUME SInv, OInv, Issue
  PROVE  OInv' /\ Moved(ctlr, ctlr', host')
  <1> DEFINE op == Head(left.prog)
             d == [NoPacket EXCEPT !.ref = host.ref, !.op = op.op, !.unit = op.unit,
                                   !.arg = op.arg, !.len = op.len]
             k == [own |-> TRUE, d |-> d]
             X == Later(ctlr', host')
  <1>1. Typed(ctlr) /\ Listed(ctlr) /\ Line(ctlr, host)
    BY SoundListed DEF SInv, Sound, Firm, OInv, Line, Lasts
  <1>2. /\ host.step = "up" /\ ~ctlr.cmd[host.hc].own /\ ctlr' = [ctlr EXCEPT !.cmd[host.hc] = k]
        /\ host' = [host EXCEPT !.hc = (@ + 1) % CmdRing, !.credits = @ - 1,
                                !.ref = @ + 1, !.out = @ \cup {host.ref}, !.poll = TRUE]
    BY DEF Issue
  <1>3. host'.step = "up" /\ host'.hc = (host.hc + 1) % CmdRing /\ host'.ref = host.ref + 1
    BY <1>2 DEF SInv, DriverTyped
  <1>4. k.own = TRUE /\ k.d.ref = host.ref
    BY DEF NoPacket
  <1> HIDE DEF k, X
  <1>5. /\ DOMAIN ctlr' = DOMAIN ctlr /\ ctlr'.csta = ctlr.csta /\ ctlr'.ci = ctlr.ci
        /\ ctlr'.lastrun = ctlr.lastrun /\ ctlr'.pktq = ctlr.pktq /\ ctlr'.pak = ctlr.pak
        /\ ctlr'.cmd = [ctlr.cmd EXCEPT ![host.hc] = k]
    BY <1>1, <1>2 DEF Listed, Viewed, Fields
  <1>6. host.hc \in 0 .. CmdRing - 1 /\ host.ref \in Nat
    BY DEF SInv, DriverTyped
  <1>7. Lasts(ctlr', {host'.ref})
    <2>1. ctlr.lastrun \in [Unit -> Nat] /\ \A u \in Unit : ctlr.lastrun[u] < host.ref
      BY <1>1 DEF Line, Lasts
    <2>2. \A u \in Unit : ctlr.lastrun[u] < host.ref + 1
      BY <1>6, <2>1
    <2> QED  BY <1>1, <1>3, <1>5, <2>1, <2>2 DEF Lasts, Listed
  <1>8. ASSUME Ok(ctlr')
        PROVE  Standing(ctlr', X) /\ \E n \in 0 .. CmdRing : Issued(ctlr', host', n)
    <2>1. Ok(ctlr) /\ Standing(ctlr, Later(ctlr, host))
      BY <1>1, <1>5, <1>8 DEF Line, Ok
    <2>2. PICK n \in 0 .. CmdRing : Issued(ctlr, host, n)
      BY <1>1, <2>1 DEF Line
    <2>3. ctlr.ci \in 0 .. CmdRing - 1 /\ DOMAIN ctlr.cmd = 0 .. CmdRing - 1
      BY <1>1 DEF Typed, RingsTyped
    <2>4. /\ n + 1 \in 0 .. CmdRing /\ Issued(ctlr', host', n + 1)
          /\ X \subseteq Later(ctlr, host) \cup {host.ref + 1}
      BY <1>2, <1>3, <1>4, <1>5, <1>6, <2>2, <2>3, AddIssued DEF X
    <2>5. host.ref \in Later(ctlr, host)
      BY DEF Later
    <2>6. ASSUME NEW u \in Unit, NEW r \in X
          PROVE  ctlr.lastrun[u] < r /\ Below(ctlr.pktq[u], ctlr.pak, r)
      <3>1. \A s \in Later(ctlr, host) :
              ctlr.lastrun[u] < s /\ Below(ctlr.pktq[u], ctlr.pak, s)
        BY <2>1 DEF Standing, Lasts, InLine
      <3>2. CASE r = host.ref + 1
        <4>1. ctlr.lastrun[u] \in Nat /\ ctlr.lastrun[u] < host.ref
          BY <2>1, <2>5, <3>1 DEF Standing, Lasts
        <4>2. \A i \in 1 .. Len(ctlr.pktq[u]) :
                /\ ctlr.pak[ctlr.pktq[u][i]].ref \in Nat
                /\ ctlr.pak[ctlr.pktq[u][i]].ref < host.ref
          BY <2>1, <2>5, <3>1 DEF Standing, InLine, Growing, Below
        <4> QED  BY <1>6, <3>2, <4>1, <4>2 DEF Below
      <3> QED  BY <2>4, <2>6, <3>1, <3>2
    <2>7. Lasts(ctlr', X)
      BY <1>5, <2>1, <2>6 DEF Standing, Lasts
    <2>8. \A u \in Unit : InLine(ctlr', u, X)
      BY <1>5, <2>1, <2>6 DEF Standing, InLine
    <2> QED  BY <2>4, <2>7, <2>8 DEF Standing
  <1>9. Line(ctlr', host')
    BY <1>7, <1>8 DEF Line, X
  <1>10. Moved(ctlr, ctlr', host')
    BY <1>1, <1>5, <1>9 DEF Moved, Line, Lasts
  <1> QED  BY <1>3, <1>5, <1>9, <1>10 DEF OInv

\* A write of IP.
LEMMA WriteIPMoved ==
  ASSUME SInv, OInv, WriteIP
  PROVE  OInv' /\ Moved(ctlr, ctlr', host')
  <1>1. Listed(ctlr) /\ Lasts(ctlr, {host.ref})
    BY SoundListed DEF SInv, OInv, Line, Lasts
  <1>2. ctlr' = Reset(ctlr) /\ host'.hc = 0 /\ host'.ref = host.ref
    BY DEF WriteIP, NewHost
  <1>3. ctlr'.csta = "S1" /\ "lastrun" \in DOMAIN ctlr' /\ ctlr'.lastrun = ctlr.lastrun
    BY <1>1, <1>2 DEF Reset, Listed, Viewed, Fields
  <1>4. Moved(ctlr, ctlr', host')
    BY <1>1, <1>2, <1>3, OffMoved DEF Ok
  <1> QED  BY <1>2, <1>3, <1>4 DEF OInv, Moved

\* The initialisation by the driver.
LEMMA InitialiseMoved ==
  ASSUME SInv, OInv, Initialise
  PROVE  OInv' /\ Moved(ctlr, ctlr', host')
  <1> DEFINE c == [ctlr EXCEPT !.rsp = [i \in DOMAIN @ |-> Given]]
  <1>1. Listed(ctlr)
    BY SoundListed DEF SInv, OInv, Line, Lasts
  <1>2. /\ host.step # "up"
        /\ \E next \in {"wrap", "S2", "S3", "S4", "pp", "pp2", "wait"} :
             host' = [host EXCEPT !.step = next]
        /\ \E x \in {ctlr, c} : \E word : ctlr' = SaWritten(x, word)
    BY DEF Initialise, WriteSA, WriteGo
  <1>3. Level(ctlr, c) /\ Level(ctlr, ctlr)
    BY <1>1 DEF Level, Listed, Viewed, Fields
  <1> HIDE DEF c
  <1>4. PICK x \in {ctlr, c} : \E word : ctlr' = SaWritten(x, word)
    BY <1>2
  <1>5. Listed(x) /\ Level(ctlr, x)
    BY <1>1, <1>3, LevelUnmoved
  <1>6. Level(x, ctlr')
    BY <1>4, <1>5 DEF SaWritten, Level, Listed, Viewed, Fields
  <1>7. Level(ctlr, ctlr')
    BY <1>5, <1>6 DEF Level
  <1>8. host'.step # "up" /\ host'.hc = host.hc /\ host'.ref = host.ref
    BY <1>2 DEF SInv, DriverTyped
  <1>9. Moved(ctlr, ctlr', host')
    BY <1>1, <1>7, <1>8, LevelMoved DEF OInv
  <1> QED  BY <1>2, <1>7, <1>8, <1>9 DEF OInv, Moved, Level

LEMMA ReadIPMoved ==
  ASSUME SInv, OInv, ReadIP
  PROVE  OInv' /\ Moved(ctlr, ctlr', host')
  <1> DEFINE c == [ctlr EXCEPT !.pip = TRUE, !.qon = TRUE]
  <1>1. Listed(ctlr) /\ Lasts(ctlr, {host.ref})
    BY SoundListed DEF SInv, OInv, Line, Lasts
  <1>2. /\ ctlr' = IpRead(ctlr)
        /\ host' \in {[host EXCEPT !.step = "S4"], [host EXCEPT !.poll = FALSE]}
        /\ host'.step = "up" \/ host.step # "up"
    BY DEF ReadIP, SInv, DriverTyped
  <1>3. host'.hc = host.hc /\ host'.ref = host.ref
    BY <1>2 DEF SInv, DriverTyped
  <1>4. ctlr' \in {ctlr, c, Step4(ctlr)}
    BY <1>2 DEF IpRead
  <1>5. CASE ctlr' = Step4(ctlr)
    <2>1. /\ ctlr'.csta = "S4" /\ ctlr'.ci = 0
          /\ "lastrun" \in DOMAIN ctlr' /\ ctlr'.lastrun = ctlr.lastrun
      BY <1>1, <1>5, Step4Off
    <2>2. Moved(ctlr, ctlr', host')
      BY <1>1, <1>3, <2>1, OffMoved DEF Ok
    <2> QED  BY <1>2, <1>3, <2>1, <2>2 DEF OInv, Moved
  <1>6. CASE ctlr' \in {ctlr, c}
    <2>1. Level(ctlr, c) /\ Level(ctlr, ctlr)
      BY <1>1 DEF Level, Listed, Viewed, Fields
    <2> HIDE DEF c
    <2>2. Level(ctlr, ctlr')
      BY <1>6, <2>1
    <2>3. Moved(ctlr, ctlr', host')
      BY <1>1, <1>3, <2>2, LevelMoved DEF OInv
    <2> QED  BY <1>2, <1>3, <2>2, <2>3 DEF OInv, Moved, Level
  <1> QED  BY <1>4, <1>5, <1>6

\* What touches neither a queue nor the command ring.
LEMMA AsideMoved ==
  ASSUME SInv, OInv,
         \/ \E u \in Unit : Attach(u) \/ Detach(u)
         \/ StartUp \/ Interrupt \/ Take \/ Sleep \/ UNCHANGED vars
  PROVE  OInv' /\ Moved(ctlr, ctlr', host')
  <1>1. Listed(ctlr)
    BY SoundListed DEF SInv, OInv, Line, Lasts
  <1>2. Level(ctlr, ctlr')
    <2>1. CASE ctlr' = ctlr
      BY <2>1 DEF Level
    <2>2. CASE \E u \in Unit : Attach(u) \/ Detach(u)
      BY <1>1, <2>2 DEF Attach, Detach, Level, Listed, Viewed, Fields
    <2>3. CASE Interrupt \/ Take
      BY <1>1, <2>3 DEF Interrupt, Take, Level, Listed, Viewed, Fields
    <2> QED  BY <2>1, <2>2, <2>3 DEF StartUp, Sleep, vars
  <1>3. /\ host'.hc = host.hc /\ host'.ref = host.ref
        /\ host'.step = host.step \/ host'.step = "up"
    <2>1. {"step", "hc", "ref"} \subseteq DOMAIN host
      BY DEF SInv, DriverTyped
    <2>2. CASE host' = host
      BY <2>2
    <2>3. CASE StartUp
      BY <2>1, <2>3 DEF StartUp
    <2>4. CASE Interrupt \/ Take \/ Sleep
      BY <2>1, <2>4 DEF Interrupt, Take, Sleep
    <2> QED  BY <2>2, <2>3, <2>4 DEF Attach, Detach, vars
  <1>4. Moved(ctlr, ctlr', host')
    BY <1>1, <1>2, <1>3, LevelMoved DEF OInv
  <1> QED  BY <1>2, <1>3, <1>4 DEF OInv, Moved, Level

LEMMA InitOInv == ASSUME Init PROVE OInv
  <1>1. /\ "lastrun" \in DOMAIN ctlr /\ ctlr.lastrun = [u \in Unit |-> 0]
        /\ ctlr.csta = "S1" /\ host.ref = 1 /\ host.hc = 0
    BY DEF Init, Reset, PowerUp, NewHost
  <1>2. Lasts(ctlr, {host.ref})
    BY <1>1 DEF Lasts
  <1> QED  BY <1>1, <1>2 DEF OInv, Line, Ok

LEMMA NextOrder ==
  ASSUME SInv, IInv, OInv, [Next]_vars
  PROVE  OInv' /\ Moved(ctlr, ctlr', host')
  <1>1. /\ Sound(ctlr, 0, 0, host) /\ DriverTyped(host) /\ Line(ctlr, host)
        /\ ~Ok(ctlr) => Idle(ctlr)
    BY DEF SInv, OInv, IInv, Scheduled, Between
  <1>2. CASE InitService
    <2>1. host' = host
      BY <1>2 DEF InitService, Become
    <2>2. Moved(ctlr, ctlr', host) /\ (ctlr'.csta = "S4" => ctlr'.ci = 0)
      BY <1>1, <1>2, InitServiceMoved
    <2> QED  BY <2>1, <2>2 DEF OInv, Moved
  <1>3. CASE QueueService
    <2>1. host' = host
      BY <1>3 DEF QueueService, Become
    <2>2. ctlr'.csta # "S4"
      BY <1>1, <1>3, QueueServiceSound DEF Resting
    <2>3. Moved(ctlr, ctlr', host)
      <3> DEFINE hang == "nothing" \in left.faults
      <3>1. hang \in BOOLEAN /\ Scheduled(ctlr, hang)
        BY DEF IInv
      <3> HIDE DEF hang
      <3> QED  BY <1>1, <1>3, <3>1, QueueServiceMoved
    <2> QED  BY <2>1, <2>2, <2>3 DEF OInv, Moved
  <1>4. CASE TimerService
    <2>1. Timed(ctlr, ctlr', host) /\ host' = host
      BY <1>1, <1>4, TimerServiceSound
    <2>2. Moved(ctlr, ctlr', host)
      BY <1>1, <1>4, TimerServiceMoved
    <2> QED  BY <2>1, <2>2 DEF OInv, Moved, Timed
  <1>5. CASE \E u \in Unit : UnitService(u)
    <2>1. Done(ctlr, ctlr', host) /\ host' = host
      BY <1>1, <1>5, UnitServiceSound
    <2>2. Moved(ctlr, ctlr', host)
      BY <1>1, <1>5, UnitServiceMoved
    <2> QED  BY <2>1, <2>2 DEF OInv, Moved, Done
  <1>6. CASE Initialise \/ ReadIP \/ Issue \/ WriteIP
    BY <1>6, InitialiseMoved, ReadIPMoved, IssueMoved, WriteIPMoved
  <1>7. CASE \/ \E u \in Unit : Attach(u) \/ Detach(u)
             \/ StartUp \/ Interrupt \/ Take \/ Sleep \/ UNCHANGED vars
    BY <1>7, AsideMoved
  <1> QED  BY <1>2, <1>3, <1>4, <1>5, <1>6, <1>7 DEF Next, Driver

\* OInv always holds: every unit's commands stand in line, from the last that
\* ran to the next one to be issued, through every call and initialisation.
THEOREM OInvAlways == Spec => []OInv
  <1>1. ASSUME SInv, IInv, OInv, [Next]_vars PROVE OInv'
    BY <1>1, NextOrder
  <1> QED  BY <1>1, InitOInv, SInvAlways, PTL DEF Spec

\* The commands of a unit that are not immediate run in the order in which
\* the driver issued them, for every number of packets and descriptors and
\* every scenario, aborts, full rings and initialisations included.
THEOREM UnitInOrder == Spec => UnitOrder
  <1>1. ASSUME OInv, Moved(ctlr, ctlr', host')
        PROVE  \A u \in Unit : ctlr'.lastrun[u] >= ctlr.lastrun[u]
    <2>1. ctlr.lastrun \in [Unit -> Nat] /\ ctlr'.lastrun \in [Unit -> Nat]
      BY <1>1 DEF OInv, Moved, Line, Lasts
    <2> TAKE u \in Unit
    <2>2. ctlr.lastrun[u] <= ctlr'.lastrun[u]
      BY <1>1 DEF Moved
    <2> QED  BY <2>1, <2>2
  <1>2. ASSUME SInv, IInv, OInv, [Next]_vars
        PROVE  OInv' /\ [\A u \in Unit : ctlr'.lastrun[u] >= ctlr.lastrun[u]]_vars
    BY <1>1, <1>2, NextOrder
  <1> QED  BY <1>2, InitOInv, SInvAlways, PTL DEF Spec, UnitOrder

=============================================================================
