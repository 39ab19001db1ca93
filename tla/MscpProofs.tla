----------------------------- MODULE MscpProofs -----------------------------
(***************************************************************************)
(* The controller of Mscp never leaves work without a service that will do *)
(* it, has every packet on one list and every command at one place, stops  *)
(* the host timer while it works, and loses no interrupt and no credit,    *)
(* for every number of packets and descriptors and every scenario.         *)
(*                                                                         *)
(* Wf types the lists a service walks, Idle says that a controller that is *)
(* not up has nothing to do, and a routine of the controller is described  *)
(* by Kept: what it leaves alone when it does not end in rq_fatal.  The    *)
(* second half carries Sound through the same routines.                    *)
(***************************************************************************)
EXTENDS Mscp, FiniteSetTheorems, WellFoundedInduction, TLAPS

Fields == {"csta", "freq", "rspq", "pip", "qon", "uon", "cpkt", "pktq", "pkt"}

Wf(c) ==
  /\ Fields \subseteq DOMAIN c
  /\ c.freq \in Seq(Packet) /\ c.rspq \in Seq(Packet)
  /\ c.pktq \in [Unit -> Seq(Packet)]
  /\ c.cpkt \in [Unit -> Packet \cup {0}]
  /\ c.uon \in [Unit -> BOOLEAN]
  /\ c.qon \in BOOLEAN /\ c.pip \in BOOLEAN
  /\ c.pkt \in Packet \cup {0}

Idle(c) ==
  /\ ~c.pip /\ c.rspq = <<>>
  /\ c.pktq = [u \in Unit |-> <<>>] /\ c.cpkt = [u \in Unit |-> 0]
  /\ c.uon = [u \in Unit |-> FALSE]

\* What a routine that sends a packet leaves alone.
Kept(c, d) ==
  /\ d.csta = c.csta /\ d.pip = c.pip /\ d.pkt = c.pkt
  /\ d.uon = c.uon /\ d.cpkt = c.cpkt /\ d.pktq = c.pktq
  /\ c.qon => d.qon
  /\ d.qon \/ d.rspq = c.rspq

Same(c, d) ==
  /\ Kept(c, d) /\ DOMAIN d = DOMAIN c
  /\ d.freq = c.freq /\ d.rspq = c.rspq /\ d.qon = c.qon

\* It may end in rq_fatal instead.
Dead(d) == d.csta = "DEAD" /\ Idle(d) /\ Wf(d)

\* The controller between two services, and while one is under way, when the
\* service itself looks after the queues.
Between(c, hang) ==
  /\ Wf(c) /\ UnitsScheduled(c, hang)
  /\ ~Ok(c) => Idle(c)

Scheduled(c, hang) == Between(c, hang) /\ QueueScheduled(c)

IInv ==
  /\ {"prog", "errs", "faults", "swaps", "inits"} \subseteq DOMAIN left
  /\ Scheduled(ctlr, "nothing" \in left.faults)

-----------------------------------------------------------------------------
(* Lists *)

LEMMA OfOne == ASSUME NEW x PROVE The({x}) = x
  BY DEF The

LEMMA Pushed ==
  ASSUME NEW s \in Seq(Packet), NEW p \in Packet
  PROVE  <<p>> \o s \in Seq(Packet) /\ Append(s, p) \in Seq(Packet)
  OBVIOUS

LEMMA Popped ==
  ASSUME NEW s \in Seq(Packet), s # <<>>
  PROVE  Head(s) \in Packet /\ Tail(s) \in Seq(Packet) /\ Head(s) # 0
  <1>1. Head(s) \in Packet /\ Tail(s) \in Seq(Packet)
    OBVIOUS
  <1> QED  BY <1>1, MscpAssumption DEF Packet

LEMMA Removed ==
  ASSUME NEW s \in Seq(Packet), NEW i \in 1 .. Len(s)
  PROVE  s[i] \in Packet /\ RemoveAt(s, i) \in Seq(Packet)
  BY DEF RemoveAt

LEMMA First ==
  ASSUME NEW S \in SUBSET Nat, S # {}
  PROVE  \E i \in S : \A j \in S : i <= j
  <1>1. PICK i \in S : \A j \in S : ~(<<j, i>> \in OpToRel(<, Nat))
    BY WFMin, NatLessThanWellFounded, Zenon
  <1>2. \A j \in S : ~(j < i)
    BY <1>1 DEF OpToRel
  <1> QED  BY <1>2

-----------------------------------------------------------------------------
(* The routines that send a packet *)

LEMMA ResetIdle ==
  ASSUME NEW c, Fields \subseteq DOMAIN c, c.pkt \in Packet \cup {0}
  PROVE  /\ Wf(Reset(c)) /\ Idle(Reset(c)) /\ Reset(c).csta = "S1"
         /\ Wf(Fatal(c)) /\ Idle(Fatal(c)) /\ Fatal(c).csta = "DEAD"
  <1> DEFINE r == Reset(c)
             f == Fatal(c)
  <1>1. [i \in 1 .. NPkts - 1 |-> i] \in Seq(Packet)
    BY MscpAssumption DEF Packet
  <1>2. <<>> \in Seq(Packet)
    OBVIOUS
  <1>3. /\ DOMAIN r = DOMAIN c /\ r.csta = "S1"
        /\ r.freq = [i \in 1 .. NPkts - 1 |-> i] /\ r.rspq = <<>>
        /\ r.pip = FALSE /\ r.qon = FALSE /\ r.pkt = c.pkt
    BY DEF Reset, Fields
  <1>4. /\ r.uon = [u \in Unit |-> FALSE] /\ r.cpkt = [u \in Unit |-> 0]
        /\ r.pktq = [u \in Unit |-> <<>>]
    BY DEF Reset, Fields
  <1>5. /\ DOMAIN f = DOMAIN r /\ f.csta = "DEAD"
        /\ f.freq = r.freq /\ f.rspq = r.rspq /\ f.pip = r.pip /\ f.qon = r.qon
        /\ f.uon = r.uon /\ f.cpkt = r.cpkt /\ f.pktq = r.pktq /\ f.pkt = r.pkt
    BY <1>3 DEF Fatal, Fields
  <1> HIDE DEF r, f
  <1>6. Wf(r) /\ Wf(f)
    <2>1. Fields \subseteq DOMAIN r
      BY <1>3
    <2>2. r.freq \in Seq(Packet) /\ r.rspq \in Seq(Packet)
      BY <1>1, <1>2, <1>3
    <2>3. r.pktq \in [Unit -> Seq(Packet)] 
      BY <1>2, <1>4
    <2>4. r.cpkt \in [Unit -> Packet \cup {0}] /\ r.uon \in [Unit -> BOOLEAN]
      BY <1>4
    <2>5. r.qon \in BOOLEAN /\ r.pip \in BOOLEAN /\ r.pkt \in Packet \cup {0}
      BY <1>3
    <2> QED  BY <2>1, <2>2, <2>3, <2>4, <2>5, <1>5 DEF Wf
  <1>7. Idle(r) /\ Idle(f)
    BY <1>3, <1>4, <1>5 DEF Idle
  <1> QED  BY <1>3, <1>5, <1>6, <1>7 DEF r, f

LEMMA FatalDead == ASSUME NEW c, Wf(c) PROVE Dead(Fatal(c))
  BY ResetIdle DEF Dead, Wf

\* What such a routine makes of c.
Sent(c, d) == Dead(d) \/ (Kept(c, d) /\ Wf(d))

LEMMA SameWf == ASSUME NEW c, NEW d, Wf(c), Same(c, d) PROVE Wf(d)
  BY DEF Same, Kept, Wf

LEMMA KeptTrans ==
  ASSUME NEW c, NEW d, NEW e, Kept(c, d), Sent(d, e)
  PROVE  Sent(c, e)
  BY DEF Kept, Sent

LEMMA RingIntSame ==
  ASSUME NEW c, Wf(c), NEW ring, NEW idx, NEW len
  PROVE  Same(c, RingInt(c, ring, idx, len))
  BY DEF RingInt, Same, Kept, Wf, Fields

LEMMA ReturnSame ==
  ASSUME NEW c, Wf(c), NEW content
  PROVE  Same(c, ReturnRsp(c, content)) /\ Same(c, ReturnCmd(c))
  <1> DEFINE d == [c EXCEPT !.rsp[c.ri] = Returned(content), !.ri = (@ + 1) % RspRing]
             e == [c EXCEPT !.cmd[c.ci] = Returned(NoPacket), !.ci = (@ + 1) % CmdRing]
  <1>1. Same(c, d) /\ Same(c, e)
    BY DEF Same, Kept, Wf, Fields
  <1>2. Wf(d) /\ Wf(e)
    BY <1>1, SameWf
  <1>3. /\ Same(d, RingInt(d, [c.rsp EXCEPT ![c.ri].own = FALSE], c.ri, RspRing))
        /\ Same(e, RingInt(e, [c.cmd EXCEPT ![c.ci].own = FALSE], c.ci, CmdRing))
    BY <1>2, RingIntSame
  <1> QED  BY <1>1, <1>3 DEF ReturnRsp, ReturnCmd, Same, Kept

\* rq_putpkt sends the packet or leaves it to the queue service.
LEMMA PutPktSent ==
  ASSUME NEW c, Wf(c), NEW p \in Packet, NEW qt \in BOOLEAN
  PROVE  Sent(c, PutPkt(c, p, qt))
  <1>1. CASE ~c.rsp[c.ri].own
    <2> DEFINE q == IF qt THEN Append(c.rspq, p) ELSE <<p>> \o c.rspq
               d == [c EXCEPT !.rspq = q, !.qon = TRUE]
    <2>1. q \in Seq(Packet)
      BY Pushed DEF Wf
    <2>2. PutPkt(c, p, qt) = d
      BY <1>1 DEF PutPkt, Wf, Fields
    <2> HIDE DEF q
    <2>3. /\ Kept(c, d) /\ DOMAIN d = DOMAIN c
          /\ d.freq = c.freq /\ d.rspq = q /\ d.qon = TRUE
      BY DEF Kept, Wf, Fields
    <2>4. Wf(d)
      BY <2>1, <2>3 DEF Wf, Kept
    <2> QED  BY <2>2, <2>3, <2>4 DEF Sent
  <1>2. CASE c.rsp[c.ri].own
    <2> DEFINE d == [c EXCEPT !.credits = @ - Cr(c, p), !.freq = <<p>> \o @,
                              !.pbsy = @ - 1,
                              !.hat = IF c.pbsy = 1 THEN c.htmo ELSE @]
               answer == [c.pak[p] EXCEPT !.arg =
                            IF c.pak[p].typ = "seq" /\ c.pak[p].end
                            THEN Cr(c, p) + 1 ELSE 0]
               e == ReturnRsp(d, answer)
    <2>1. PutPkt(c, p, qt) = e
      BY <1>2, OfOne DEF PutPkt, The
    <2>2. /\ Kept(c, d) /\ DOMAIN d = DOMAIN c
          /\ d.freq = <<p>> \o c.freq /\ d.rspq = c.rspq /\ d.qon = c.qon
      BY DEF Kept, Wf, Fields
    <2>3. <<p>> \o c.freq \in Seq(Packet)
      BY Pushed DEF Wf
    <2> HIDE DEF d, answer
    <2>4. Wf(d)
      BY <2>2, <2>3 DEF Wf, Kept
    <2>5. Same(d, e) /\ Wf(e)
      BY <2>4, ReturnSame, SameWf
    <2> QED  BY <2>1, <2>2, <2>5 DEF Sent, Same, Kept
  <1> QED  BY <1>1, <1>2

LEMMA RespondSent ==
  ASSUME NEW c, Wf(c), NEW p \in Packet, NEW sts
  PROVE  Sent(c, Respond(c, p, sts))
  <1> DEFINE d == Answer(c, p, sts)
  <1>1. Same(c, d)
    BY DEF Answer, Same, Kept, Wf, Fields
  <1>2. Wf(d)
    BY <1>1, SameWf
  <1>3. Respond(c, p, sts) = PutPkt(d, p, TRUE)
    BY OfOne DEF Respond, The
  <1> HIDE DEF d
  <1>4. Sent(d, PutPkt(d, p, TRUE))
    BY <1>2, PutPktSent
  <1> QED  BY <1>1, <1>3, <1>4, KeptTrans DEF Same

LEMMA DeqFKept ==
  ASSUME NEW c, Wf(c), c.freq # <<>>
  PROVE  Kept(c, DeqF(c)) /\ Wf(DeqF(c)) /\ Head(c.freq) \in Packet
  <1> DEFINE d == [c EXCEPT !.freq = Tail(@), !.pbsy = @ + 1]
  <1>1. /\ Kept(c, d) /\ DOMAIN d = DOMAIN c /\ d.freq = Tail(c.freq)
        /\ d.rspq = c.rspq /\ d.qon = c.qon /\ DeqF(c) = d
    BY DEF Kept, Wf, Fields, DeqF
  <1>2. Head(c.freq) \in Packet /\ Tail(c.freq) \in Seq(Packet)
    BY Popped DEF Wf
  <1> HIDE DEF d
  <1> QED  BY <1>1, <1>2 DEF Wf, Kept

\* A packet of the controller's own: an error log or an attention.
LEMMA SendSent ==
  ASSUME NEW c, Wf(c), NEW typ, NEW sts, NEW unit
  PROVE  Sent(c, Send(c, typ, sts, unit))
  <1>1. CASE c.freq = <<>>
    BY <1>1, FatalDead DEF Send, Sent
  <1>2. CASE c.freq # <<>>
    <2> DEFINE p == Head(c.freq)
               q == DeqF(c)
               d == [q EXCEPT !.pak[p] =
                       [NoPacket EXCEPT !.typ = typ, !.sts = sts, !.unit = unit]]
    <2>1. Kept(c, q) /\ Wf(q) /\ p \in Packet
      BY <1>2, DeqFKept
    <2>2. Send(c, typ, sts, unit) = PutPkt(d, p, TRUE)
      BY <1>2 DEF Send
    <2> HIDE DEF p, q
    <2>3. Same(q, d)
      BY <2>1 DEF Same, Kept, Wf, Fields
    <2>4. Wf(d)
      BY <2>1, <2>3, SameWf
    <2> HIDE DEF d
    <2>5. Sent(d, PutPkt(d, p, TRUE))
      BY <2>1, <2>4, PutPktSent
    <2> QED  BY <2>1, <2>2, <2>3, <2>5 DEF Sent, Kept, Same
  <1> QED  BY <1>1, <1>2

LEMMA LogSent ==
  ASSUME NEW c, Wf(c), NEW u
  PROVE  /\ Sent(c, LogError(c, u)) /\ Sent(c, LogFailure(c))
         /\ Sent(c, Attention(c, u))
  <1>1. Sent(c, c)
    BY DEF Sent, Kept
  <1> QED  BY <1>1, SendSent DEF LogError, LogFailure, Attention

-----------------------------------------------------------------------------
(* The state between two routines of a service *)

LEMMA SentBetween ==
  ASSUME NEW c, NEW d, NEW hang \in BOOLEAN, Between(c, hang), Ok(c), Sent(c, d)
  PROVE  /\ Between(d, hang) /\ (Ok(d) => d.pkt = c.pkt)
         /\ QueueScheduled(c) => QueueScheduled(d)
  <1>1. CASE Dead(d)
    BY <1>1 DEF Dead, Between, UnitsScheduled, QueueScheduled, Ok, Idle, Wf
  <1>2. CASE Kept(c, d) /\ Wf(d)
    BY <1>2 DEF Between, UnitsScheduled, QueueScheduled, Ok, Kept, Wf
  <1> QED  BY <1>1, <1>2 DEF Sent

\* A command that changes nothing a service looks at before it is answered.
LEMMA Answered1 ==
  ASSUME NEW c, NEW d, NEW hang \in BOOLEAN, Between(c, hang), Ok(c), Same(c, d),
         NEW p \in Packet, NEW sts
  PROVE  /\ Between(Respond(d, p, sts), hang)
         /\ Ok(Respond(d, p, sts)) => Respond(d, p, sts).pkt = c.pkt
  <1>1. Wf(d) /\ Ok(d) /\ Between(d, hang) /\ d.pkt = c.pkt
    BY SameWf DEF Between, UnitsScheduled, Ok, Same, Kept
  <1>2. Sent(d, Respond(d, p, sts))
    BY <1>1, RespondSent
  <1> QED  BY <1>1, <1>2, SentBetween

LEMMA SameSelf == ASSUME NEW c PROVE Same(c, c)
  BY DEF Same, Kept

\* rq_abo, when the target is current or on the unit's queue.
LEMMA AbortBetween ==
  ASSUME NEW c, NEW hang \in BOOLEAN, Between(c, hang), Ok(c), NEW p \in Packet
  PROVE  LET d == Abort(c, p) IN Between(d, hang) /\ (Ok(d) => d.pkt = c.pkt)
  <1> DEFINE u == c.pak[p].unit
             ref == c.pak[p].arg
             queued == {i \in 1 .. Len(c.pktq[u]) : c.pak[c.pktq[u][i]].ref = ref}
             i == CHOOSE j \in queued : \A l \in queued : j <= l
             cur == [c EXCEPT !.cpkt[u] = 0, !.uon[u] = FALSE, !.qon = TRUE]
             que == [c EXCEPT !.pktq[u] = RemoveAt(@, i)]
             d == IF u \notin Present THEN c
                  ELSE IF c.cpkt[u] # 0 /\ c.pak[c.cpkt[u]].ref = ref
                  THEN Respond(cur, c.cpkt[u], "abo")
                  ELSE IF queued # {} THEN Respond(que, c.pktq[u][i], "abo") ELSE c
  <1>1. Abort(c, p) = IF Ok(d) THEN Respond(d, p, "suc") ELSE d
    BY DEF Abort
  <1>2. Between(d, hang) /\ (Ok(d) => d.pkt = c.pkt)
    <2>1. CASE u \in Present /\ c.cpkt[u] # 0 /\ c.pak[c.cpkt[u]].ref = ref
      <3>1. u \in Unit /\ c.cpkt[u] \in Packet
        BY <2>1, MscpAssumption DEF Between, Wf, Unit
      <3>2. Between(cur, hang) /\ Ok(cur) /\ cur.pkt = c.pkt
        BY <3>1 DEF Between, Wf, Fields, UnitsScheduled, Ok
      <3> HIDE DEF cur
      <3>3. Sent(cur, Respond(cur, c.cpkt[u], "abo"))
        BY <3>1, <3>2, RespondSent DEF Between
      <3> QED  BY <2>1, <3>2, <3>3, SentBetween
    <2>2. CASE /\ u \in Present /\ ~(c.cpkt[u] # 0 /\ c.pak[c.cpkt[u]].ref = ref)
               /\ queued # {}
      <3>1. u \in Unit /\ c.pktq[u] \in Seq(Packet)
        BY <2>2, MscpAssumption DEF Between, Wf, Unit
      <3>2. queued \in SUBSET Nat
        OBVIOUS
      <3>3. i \in 1 .. Len(c.pktq[u])
        BY <2>2, <3>2, First
      <3> HIDE DEF i, queued
      <3>4. c.pktq[u][i] \in Packet /\ RemoveAt(c.pktq[u], i) \in Seq(Packet)
        BY <3>1, <3>3, Removed
      <3>5. Between(que, hang) /\ Ok(que) /\ que.pkt = c.pkt
        BY <3>1, <3>4 DEF Between, Wf, Fields, UnitsScheduled, Ok
      <3> HIDE DEF que
      <3>6. Sent(que, Respond(que, c.pktq[u][i], "abo"))
        BY <3>4, <3>5, RespondSent DEF Between
      <3> QED  BY <2>2, <3>5, <3>6, SentBetween
    <2> QED  BY <2>1, <2>2
  <1> HIDE DEF d
  <1> DEFINE e == Abort(c, p)
  <1>3. CASE Ok(d)
    <2>1. Between(e, hang) /\ (Ok(e) => e.pkt = d.pkt)
      BY <1>1, <1>2, <1>3, Answered1, SameSelf
    <2> QED  BY <1>2, <1>3, <2>1
  <1>4. CASE ~Ok(d)
    BY <1>1, <1>2, <1>4
  <1> QED  BY <1>3, <1>4

\* The commands that are answered at once.
LEMMA SimpleBetween ==
  ASSUME NEW c, NEW hang \in BOOLEAN, Between(c, hang), Ok(c), NEW p \in Packet,
         NEW d \in {Available(c, p), Online(c, p), SetUnit(c, p), Format(c, p),
                    SetController(c, p), UnitStatus(c, p),
                    Respond(c, p, "suc"), Respond(c, p, "ofl"), Respond(c, p, "cmd")}
  PROVE  Between(d, hang) /\ (Ok(d) => d.pkt = c.pkt)
  <1> DEFINE u == c.pak[p].unit
             a == [c EXCEPT !.onl[u] = FALSE, !.att[u] = @ /\ c.pak[p].arg = 0]
             o == [c EXCEPT !.onl[u] = TRUE]
             f == [c EXCEPT !.onl[u] = FALSE]
             t == [c EXCEPT !.ths = c.pak[p].arg > 0, !.atn = c.pak[p].arg > 0,
                            !.htmo = IF c.pak[p].len = 0 THEN 0 ELSE c.pak[p].len + 2]
  <1>1. Same(c, c) /\ Same(c, a) /\ Same(c, o) /\ Same(c, f) /\ Same(c, t)
    BY DEF Same, Kept, Between, Wf, Fields
  <1> HIDE DEF a, o, f, t
  <1>2. \E b \in {c, a, o, f, t}, sts \in {"suc", "ofl", "avl", "cmd"} :
          d = Respond(b, p, sts)
    BY DEF Available, Online, SetUnit, Format, SetController, UnitStatus, a, o, f, t
  <1>3. PICK b \in {c, a, o, f, t}, sts \in {"suc", "ofl", "avl", "cmd"} :
          d = Respond(b, p, sts)
    BY <1>2
  <1>4. Same(c, b)
    BY <1>1
  <1> QED  BY <1>3, <1>4, Answered1

\* What a command leaves, done or waiting.
Served(c, d, hang) == Between(d, hang) /\ (Ok(d) => d.pkt = c.pkt)

LEMMA TransferBetween ==
  ASSUME NEW c, NEW hang \in BOOLEAN, Between(c, hang), Ok(c),
         NEW p \in Packet, c.pak[p].unit \in Unit
  PROVE  Served(c, Transfer(c, p), hang)
  <1> DEFINE u == c.pak[p].unit
             d == [c EXCEPT !.cpkt[u] = p, !.uon[u] = TRUE]
  <1>1. Served(c, d, hang)
    <2>1. p # 0
      BY MscpAssumption DEF Packet
    <2> QED  BY <2>1 DEF Served, Between, Wf, Fields, UnitsScheduled, Ok
  <1>2. Transfer(c, p) = d \/ \E sts \in {"ofl", "avl", "cmd"} : Transfer(c, p) = Respond(c, p, sts)
    BY DEF Transfer
  <1> HIDE DEF d
  <1>3. Served(c, Respond(c, p, "ofl"), hang) /\ Served(c, Respond(c, p, "cmd"), hang)
    BY SimpleBetween DEF Served
  <1>4. Served(c, Respond(c, p, "avl"), hang)
    BY Answered1, SameSelf DEF Served
  <1> QED  BY <1>1, <1>2, <1>3, <1>4

LEMMA EnqueueBetween ==
  ASSUME NEW c, NEW hang \in BOOLEAN, Between(c, hang), Ok(c),
         NEW p \in Packet, NEW u \in Unit
  PROVE  Served(c, Enqueue(c, p, u), hang)
  <1> DEFINE q == Append(c.pktq[u], p)
  <1>1. q \in Seq(Packet)
    BY Pushed DEF Between, Wf
  <1>2. Enqueue(c, p, u) = [c EXCEPT !.pktq[u] = q]
    BY DEF Enqueue, Between, Wf, Fields
  <1> HIDE DEF q
  <1> QED  BY <1>1, <1>2 DEF Served, Between, Wf, Fields, UnitsScheduled, Ok

\* rq_mscp.
LEMMA MscpBetween ==
  ASSUME NEW c, NEW hang \in BOOLEAN, Between(c, hang), Ok(c),
         NEW p \in Packet, NEW q \in BOOLEAN
  PROVE  Served(c, Mscp(c, p, q), hang)
  <1> DEFINE u == c.pak[p].unit
             r == Ran(c, p)
  <1>1. u \in Present => u \in Unit
    BY MscpAssumption DEF Unit
  <1>2. Between(r, hang) /\ Ok(r) /\ r.pkt = c.pkt /\ r.pak = c.pak
    BY DEF Ran, Between, Wf, Fields, UnitsScheduled, Ok
  <1>3. CASE u \in Present /\ c.pak[p].op \in Deferrable /\ q /\ c.cpkt[u] # 0
    BY <1>1, <1>3, EnqueueBetween DEF Mscp
  <1>4. CASE u \in Present /\ c.pak[p].op \in Deferrable /\ ~(q /\ c.cpkt[u] # 0)
    <2> HIDE DEF r
    <2>1. Mscp(c, p, q) = OnUnit(r, p)
      BY <1>4 DEF Mscp, r
    <2>2. OnUnit(r, p) \in {Available(r, p), Online(r, p), SetUnit(r, p), Format(r, p)}
            \/ OnUnit(r, p) = Transfer(r, p)
      BY <1>2, <1>4 DEF OnUnit, Deferrable
    <2>3. Served(r, OnUnit(r, p), hang)
      BY <1>1, <1>2, <1>4, <2>2, TransferBetween, SimpleBetween DEF Served
    <2> QED  BY <1>2, <2>1, <2>3 DEF Served
  <1>5. CASE c.pak[p].op \in Deferrable /\ u \notin Present
    BY <1>5, SimpleBetween DEF Mscp, Served
  <1>6. CASE c.pak[p].op = "abo"
    BY <1>6, AbortBetween DEF Mscp, Served, Deferrable
  <1>7. CASE c.pak[p].op \notin Deferrable \cup {"abo"}
    <2>1. Mscp(c, p, q) \in {SetController(c, p), UnitStatus(c, p),
                             Respond(c, p, "suc"), Respond(c, p, "cmd")}
      BY <1>7 DEF Mscp
    <2> QED  BY <2>1, SimpleBetween DEF Served
  <1> QED  BY <1>3, <1>4, <1>5, <1>6, <1>7

-----------------------------------------------------------------------------
(* The queue service: it goes on while it has handled a packet *)

\* The queues of the units in U have been looked at.
Handled(c, U, hang) ==
  /\ Between(c, hang)
  /\ Ok(c) /\ c.pkt = 0 => \A u \in U : c.cpkt[u] = 0 => c.pktq[u] = <<>>

\* The command ring has been looked at, and then the response queue.
Polled(c, hang) == Handled(c, Unit, hang) /\ (Ok(c) /\ c.pkt = 0 => ~c.pip)
Emptied(c, hang) == Polled(c, hang) /\ (Ok(c) /\ c.pkt = 0 => c.rspq = <<>>)

LEMMA ServeUnitHandled ==
  ASSUME NEW c, NEW hang \in BOOLEAN, NEW U \in SUBSET Unit, Handled(c, U, hang),
         NEW u \in Unit
  PROVE  Handled(ServeUnit(c, u), U \cup {u}, hang)
  <1>1. CASE Ok(c) /\ c.cpkt[u] = 0 /\ c.pktq[u] # <<>>
    <2> DEFINE p == Head(c.pktq[u])
               t == Tail(c.pktq[u])
               d == [c EXCEPT !.pktq[u] = Tail(@), !.pkt = Head(c.pktq[u])]
               e == Mscp(d, p, FALSE)
    <2>1. p \in Packet /\ t \in Seq(Packet) /\ p # 0
      BY <1>1, Popped DEF Handled, Between, Wf
    <2>2. d = [c EXCEPT !.pktq[u] = t, !.pkt = p]
      BY DEF Handled, Between, Wf, Fields
    <2>3. ServeUnit(c, u) = e
      BY <1>1 DEF ServeUnit
    <2> HIDE DEF p, t, d
    <2>4. Between(d, hang) /\ Ok(d) /\ d.pkt = p
      BY <1>1, <2>1, <2>2 DEF Handled, Between, Wf, Fields, UnitsScheduled, Ok
    <2>5. Served(d, e, hang)
      BY <2>1, <2>4, MscpBetween
    <2> QED  BY <2>1, <2>3, <2>4, <2>5 DEF Served, Handled
  <1>2. CASE ~(Ok(c) /\ c.cpkt[u] = 0 /\ c.pktq[u] # <<>>)
    BY <1>2 DEF ServeUnit, Handled
  <1> QED  BY <1>1, <1>2

\* rq_getpkt
LEMMA GetPktBetween ==
  ASSUME NEW c, NEW hang \in BOOLEAN, Between(c, hang), Ok(c)
  PROVE  Between(GetPkt(c), hang) /\ (Ok(GetPkt(c)) => GetPkt(c).pkt # 0)
  <1>1. CASE c.freq = <<>>
    <2>1. GetPkt(c) = Fatal(c) /\ Dead(Fatal(c))
      BY <1>1, FatalDead DEF GetPkt, Between
    <2> QED  BY <2>1 DEF Dead, Between, UnitsScheduled, Ok, Idle, Wf
  <1>2. CASE c.freq # <<>>
    <2> DEFINE p == Head(c.freq)
               q == DeqF(c)
               d == [q EXCEPT !.hat = 0, !.pkt = p, !.pak[p] = c.cmd[c.ci].d]
    <2>1. Kept(c, q) /\ Wf(q) /\ p \in Packet /\ p # 0
      BY <1>2, DeqFKept, MscpAssumption DEF Between, Packet
    <2>2. GetPkt(c) = ReturnCmd(d)
      BY <1>2 DEF GetPkt
    <2> HIDE DEF p, q
    <2>3. Between(d, hang) /\ d.pkt = p
      BY <2>1 DEF Between, Wf, Fields, UnitsScheduled, Ok, Kept
    <2> HIDE DEF d
    <2>4. Same(d, ReturnCmd(d)) /\ Wf(ReturnCmd(d))
      BY <2>3, ReturnSame, SameWf DEF Between
    <2>5. Between(ReturnCmd(d), hang) /\ ReturnCmd(d).pkt = p
      BY <2>3, <2>4 DEF Same, Kept, Between, UnitsScheduled, Ok, Idle
    <2> QED  BY <2>1, <2>2, <2>5
  <1> QED  BY <1>1, <1>2

LEMMA PollHostPolled ==
  ASSUME NEW c, NEW hang \in BOOLEAN, Handled(c, Unit, hang)
  PROVE  Polled(PollHost(c), hang)
  <1>1. CASE Ok(c) /\ c.pkt = 0 /\ c.pip /\ c.cmd[c.ci].own
    BY <1>1, GetPktBetween DEF PollHost, Polled, Handled
  <1>2. CASE Ok(c) /\ c.pkt = 0 /\ c.pip /\ ~c.cmd[c.ci].own
    <2>1. PollHost(c) = [c EXCEPT !.pip = FALSE]
      BY <1>2 DEF PollHost
    <2> QED  BY <1>2, <2>1 DEF Polled, Handled, Between, Wf, Fields, UnitsScheduled, Ok
  <1>3. CASE ~(Ok(c) /\ c.pkt = 0 /\ c.pip)
    BY <1>3 DEF PollHost, Polled, Handled, Between, Wf
  <1> QED  BY <1>1, <1>2, <1>3

LEMMA DispatchPolled ==
  ASSUME NEW c, NEW d, NEW hang \in BOOLEAN, Polled(d, hang)
  PROVE  Polled(Dispatch(c, d), hang)
  <1>1. CASE ~(Ok(d) /\ c.pkt = 0 /\ d.pkt # 0)
    BY <1>1 DEF Dispatch
  <1>2. CASE Ok(d) /\ c.pkt = 0 /\ d.pkt # 0
    <2> DEFINE e == Dispatch(c, d)
    <2>1. Between(d, hang) /\ d.pkt \in Packet
      BY <1>2 DEF Polled, Handled, Between, Wf
    <2>2. CASE d.pak[d.pkt].op = "invalid"
      <3>1. e = Fatal(d) /\ Dead(Fatal(d))
        BY <1>2, <2>1, <2>2, FatalDead DEF Dispatch, Between
      <3> QED  BY <3>1 DEF Dead, Polled, Handled, Between, UnitsScheduled, Ok, Idle, Wf
    <2>3. CASE d.pak[d.pkt].op # "invalid"
      <3>1. e = Respond(d, d.pkt, "cmd") \/ e = Mscp(d, d.pkt, TRUE)
        BY <1>2, <2>3 DEF Dispatch
      <3> HIDE DEF e
      <3>2. Served(d, e, hang)
        <4>1. Served(d, Mscp(d, d.pkt, TRUE), hang)
          BY <1>2, <2>1, MscpBetween
        <4>2. Served(d, Respond(d, d.pkt, "cmd"), hang)
          BY <1>2, <2>1, SimpleBetween DEF Served
        <4> QED  BY <3>1, <4>1, <4>2
      <3>3. Between(e, hang) /\ (Ok(e) => e.pkt # 0)
        BY <1>2, <3>2 DEF Served
      <3>4. Polled(e, hang)
        BY <3>3 DEF Polled, Handled
      <3> QED  BY <3>4 DEF e
    <2> QED  BY <2>2, <2>3
  <1> QED  BY <1>1, <1>2

LEMMA PutQueuedEmptied ==
  ASSUME NEW c, NEW hang \in BOOLEAN, Polled(c, hang)
  PROVE  Emptied(PutQueued(c), hang)
  <1>1. CASE Ok(c) /\ c.rspq # <<>>
    <2> DEFINE p == Head(c.rspq)
               t == Tail(c.rspq)
               d == [c EXCEPT !.rspq = Tail(@), !.pkt = Head(c.rspq)]
               e == PutPkt(d, p, FALSE)
    <2>1. p \in Packet /\ t \in Seq(Packet) /\ p # 0
      BY <1>1, Popped DEF Polled, Handled, Between, Wf
    <2>2. d = [c EXCEPT !.rspq = t, !.pkt = p] /\ PutQueued(c) = e
      BY <1>1 DEF PutQueued, Polled, Handled, Between, Wf, Fields
    <2> HIDE DEF p, t, d
    <2>3. Between(d, hang) /\ Ok(d) /\ d.pkt = p
      BY <1>1, <2>1, <2>2 DEF Polled, Handled, Between, Wf, Fields, UnitsScheduled, Ok
    <2>4. Sent(d, e)
      BY <2>1, <2>3, PutPktSent DEF Between
    <2>5. Between(e, hang) /\ (Ok(e) => e.pkt # 0)
      BY <2>1, <2>3, <2>4, SentBetween
    <2> HIDE DEF e
    <2>6. Emptied(e, hang)
      BY <2>5 DEF Emptied, Polled, Handled
    <2> QED  BY <2>2, <2>6
  <1>2. CASE ~(Ok(c) /\ c.rspq # <<>>)
    BY <1>2 DEF PutQueued, Emptied, Polled, Handled, Between, Idle
  <1> QED  BY <1>1, <1>2

LEMMA GoOnScheduled ==
  ASSUME NEW c, NEW hang \in BOOLEAN, Emptied(c, hang)
  PROVE  Scheduled(GoOn(c), hang)
  <1> DEFINE d == GoOn(c)
  <1>1. Between(c, hang) /\ c.pkt \in Packet \cup {0} /\ c.qon \in BOOLEAN
    BY DEF Emptied, Polled, Handled, Between, Wf
  <1>2. d = [c EXCEPT !.qon = c.qon \/ (Ok(c) /\ c.pkt # 0), !.pkt = 0]
    BY <1>1 DEF GoOn, Between, Wf, Fields
  <1> HIDE DEF d
  <1>3. Between(d, hang)
    BY <1>1, <1>2 DEF Between, Wf, Fields, UnitsScheduled, Ok, Idle
  <1>4. QueueScheduled(d)
    BY <1>1, <1>2 DEF Emptied, Polled, Handled, Between, Wf, Fields, Ok, Idle, QueueScheduled
  <1> QED  BY <1>3, <1>4 DEF Scheduled, d

-----------------------------------------------------------------------------
(* Steps of the controller *)

LEMMA QueueServiceScheduled ==
  ASSUME NEW hang \in BOOLEAN, Scheduled(ctlr, hang), QueueService
  PROVE  Scheduled(ctlr', hang)
  <1> DEFINE c == [ctlr EXCEPT !.qon = FALSE, !.pkt = 0]
             c0 == ServeUnit(c, 0)
             c1 == ServeUnit(c0, 1)
             c2 == ServeUnit(c1, 2)
             c3 == ServeUnit(c2, 3)
             c4 == PollHost(c3)
             c5 == Dispatch(c3, c4)
             c6 == PutQueued(c5)
  <1>1. Handled(c, {}, hang)
    BY DEF Scheduled, Handled, Between, Wf, Fields, UnitsScheduled, Ok, Idle
  <1> HIDE DEF c, c0, c1, c2, c3, c4, c5, c6
  <1>2. ctlr' = GoOn(c6)
    BY Zenon DEF QueueService, Become, c, c0, c1, c2, c3, c4, c5, c6
  <1>4. {0, 1, 2, 3} = Unit
    BY DEF Unit
  <1>5. Handled(c0, {0}, hang)
    BY <1>1, <1>4, ServeUnitHandled DEF c0
  <1>6. Handled(c1, {0, 1}, hang)
    BY <1>4, <1>5, ServeUnitHandled DEF c1
  <1>7. Handled(c2, {0, 1, 2}, hang)
    BY <1>4, <1>6, ServeUnitHandled DEF c2
  <1>8. Handled(c3, {0, 1, 2, 3}, hang)
    BY <1>4, <1>7, ServeUnitHandled DEF c3
  <1>9. Polled(c4, hang)
    BY <1>4, <1>8, PollHostPolled DEF c4
  <1>10. Polled(c5, hang)
    BY <1>9, DispatchPolled DEF c5
  <1>11. Emptied(c6, hang)
    BY <1>10, PutQueuedEmptied DEF c6
  <1> QED  BY <1>2, <1>11, GoOnScheduled

\* The service of unit u has begun: u is working, and not scheduled.
Freed(c, u, hang) ==
  /\ Wf(c) /\ Ok(c) /\ QueueScheduled(c)
  /\ c.cpkt[u] # 0 /\ ~c.uon[u]
  /\ \A v \in Unit \ {u} : IF c.cpkt[v] = 0 THEN ~c.uon[v] ELSE c.uon[v] \/ hang

\* rq_rw_end frees the unit and calls the queue service for its queue.
LEMMA RwEndScheduled ==
  ASSUME NEW c, NEW hang \in BOOLEAN, NEW u \in Unit, Freed(c, u, hang), NEW sts
  PROVE  Scheduled(RwEnd(c, u, sts), hang)
  <1> DEFINE p == c.cpkt[u]
             a == [c EXCEPT !.cpkt[u] = 0]
             d == Respond(a, p, sts)
             e == [d EXCEPT !.qon = @ \/ (Ok(d) /\ d.pktq[u] # <<>>)]
  <1>1. p \in Packet
    BY DEF Freed, Wf
  <1>2. Between(a, hang) /\ Ok(a) /\ a.pktq = c.pktq
    BY DEF Freed, Between, Wf, Fields, UnitsScheduled, Ok
  <1>3. a.pip = c.pip /\ a.rspq = c.rspq /\ a.qon = c.qon
        /\ \A v \in Unit \ {u} : a.cpkt[v] = c.cpkt[v]
    BY DEF Freed, Wf, Fields
  <1>4. RwEnd(c, u, sts) = e
    BY DEF RwEnd
  <1> HIDE DEF a, p
  <1>5. Sent(a, d)
    BY <1>1, <1>2, RespondSent DEF Between
  <1> HIDE DEF d
  <1>6. Between(d, hang)
    BY <1>2, <1>5, SentBetween
  <1>7. Between(e, hang)
    BY <1>6 DEF Between, Wf, Fields, UnitsScheduled, Ok, Idle
  <1>8. CASE Dead(d)
    <2>1. ~Ok(d) /\ Idle(d) /\ Wf(d)
      BY <1>8 DEF Dead, Ok
    <2>2. QueueScheduled(e)
      BY <2>1 DEF QueueScheduled, Idle, Wf, Fields
    <2> QED  BY <1>4, <1>7, <2>2 DEF Scheduled
  <1>9. CASE Kept(a, d) /\ Wf(d)
    <2>1. Ok(d) /\ d.pip = c.pip /\ d.pktq = c.pktq /\ d.cpkt = a.cpkt
          /\ (c.qon => d.qon) /\ (d.qon \/ d.rspq = c.rspq)
      BY <1>2, <1>3, <1>9 DEF Kept, Ok
    <2>2. e.qon = (d.qon \/ d.pktq[u] # <<>>) /\ e.pip = d.pip /\ e.rspq = d.rspq
          /\ e.pktq = d.pktq /\ e.cpkt = d.cpkt
      BY <1>9, <2>1 DEF Wf, Fields
    <2> HIDE DEF e
    <2>3. e.pip \/ e.rspq # <<>> => e.qon
      BY <2>1, <2>2 DEF Freed, QueueScheduled
    <2>4. ASSUME NEW v \in Unit, e.cpkt[v] = 0, e.pktq[v] # <<>> PROVE e.qon
      BY <1>3, <2>1, <2>2, <2>4 DEF Freed, QueueScheduled
    <2>5. QueueScheduled(e)
      BY <2>3, <2>4 DEF QueueScheduled
    <2> QED  BY <1>4, <1>7, <2>5 DEF Scheduled
  <1> QED  BY <1>5, <1>8, <1>9 DEF Sent

LEMMA SameScheduled ==
  ASSUME NEW c, NEW d, NEW hang \in BOOLEAN, Same(c, d), Scheduled(c, hang)
  PROVE  Scheduled(d, hang)
  <1>1. Wf(c) => Wf(d)
    BY SameWf
  <1> QED
    BY <1>1 DEF Same, Kept, Scheduled, Between, UnitsScheduled, QueueScheduled, Ok, Idle

LEMMA SameFreed ==
  ASSUME NEW c, NEW d, NEW hang \in BOOLEAN, Same(c, d), NEW u \in Unit,
         Freed(c, u, hang)
  PROVE  Freed(d, u, hang)
  <1>1. Wf(c) => Wf(d)
    BY SameWf
  <1> QED
    BY <1>1 DEF Same, Kept, QueueScheduled, Ok, Freed

LEMMA IdleScheduled ==
  ASSUME NEW c, NEW hang \in BOOLEAN, Wf(c), Idle(c)
  PROVE  Scheduled(c, hang)
  BY DEF Scheduled, Between, UnitsScheduled, QueueScheduled, Idle, Wf

LEMMA RwErrorScheduled ==
  ASSUME NEW c, NEW hang \in BOOLEAN, NEW u \in Unit, Freed(c, u, hang), NEW sts
  PROVE  Scheduled(RwError(c, u, sts), hang)
  <1> DEFINE d == LogError(c, u)
  <1>1. Sent(c, d)
    BY LogSent DEF Freed
  <1>2. RwError(c, u, sts) = IF Ok(d) THEN RwEnd(d, u, sts) ELSE d
    BY DEF RwError
  <1> HIDE DEF d
  <1>3. CASE Dead(d)
    BY <1>2, <1>3, IdleScheduled DEF Dead, Ok
  <1>4. CASE Kept(c, d) /\ Wf(d)
    <2>1. Freed(d, u, hang) /\ Ok(d)
      BY <1>4 DEF Freed, Kept, QueueScheduled, Ok
    <2> QED  BY <1>2, <2>1, RwEndScheduled
  <1> QED  BY <1>1, <1>3, <1>4 DEF Sent

LEMMA StartIoScheduled ==
  ASSUME NEW c, NEW hang \in BOOLEAN, NEW u \in Unit, Freed(c, u, hang),
         NEW status, status = "nothing" => hang
  PROVE  Scheduled(StartIo(c, u, status), hang)
  <1>1. CASE status = "nothing"
    BY <1>1 DEF StartIo, Freed, Scheduled, Between, UnitsScheduled
  <1>2. CASE status # "nothing"
    <2> DEFINE d == [c EXCEPT !.io[u] = status, !.buf[u] = Work(c, u), !.uon[u] = TRUE]
    <2>1. StartIo(c, u, status) = d
      BY <1>2 DEF StartIo
    <2>2. Wf(d) /\ Ok(d) /\ UnitsScheduled(d, hang)
      BY DEF Freed, Wf, Fields, Ok, UnitsScheduled
    <2>3. QueueScheduled(d)
      BY DEF Freed, Wf, Fields, QueueScheduled
    <2> QED  BY <2>1, <2>2, <2>3 DEF Scheduled, Between
  <1> QED  BY <1>1, <1>2

LEMMA FinishIoScheduled ==
  ASSUME NEW c0, NEW hang \in BOOLEAN, NEW u \in Unit, Freed(c0, u, hang), NEW memory
  PROVE  Scheduled(FinishIo(c0, u, memory), hang)
  <1> DEFINE c == [c0 EXCEPT !.io[u] = "none"]
             more == [c EXCEPT !.pak[c.cpkt[u]].len = @ - 1]
             again == [more EXCEPT !.uon[u] = TRUE]
             d == FinishIo(c0, u, memory)
  <1>1. Same(c0, c) /\ Same(c0, more)
    BY DEF Same, Kept, Freed, Wf, Fields
  <1> HIDE DEF c, more, d
  <1>2. Freed(c, u, hang) /\ Freed(more, u, hang)
    BY <1>1, SameFreed
  <1>3. \/ \E sts \in {"hst", "drv"} : d = RwError(c, u, sts)
        \/ d = RwEnd(c, u, "cmp") \/ d = RwEnd(more, u, "suc") \/ d = again
    BY DEF FinishIo, c, more, d
  <1>4. Wf(again) /\ Ok(again) /\ UnitsScheduled(again, hang)
    BY <1>2 DEF Freed, Wf, Fields, Ok, UnitsScheduled
  <1>5. QueueScheduled(again)
    BY <1>2 DEF Freed, Wf, Fields, QueueScheduled
  <1>6. Scheduled(again, hang)
    BY <1>4, <1>5 DEF Scheduled, Between
  <1>7. Scheduled(RwEnd(c, u, "cmp"), hang) /\ Scheduled(RwEnd(more, u, "suc"), hang)
    BY <1>2, RwEndScheduled
  <1>8. \A sts \in {"hst", "drv"} : Scheduled(RwError(c, u, sts), hang)
    BY <1>2, RwErrorScheduled
  <1> QED  BY <1>3, <1>6, <1>7, <1>8 DEF d

LEMMA UnitServiceScheduled ==
  ASSUME IInv, NEW u \in Unit, UnitService(u)
  PROVE  IInv'
  <1> DEFINE hang == "nothing" \in left.faults
             c == [ctlr EXCEPT !.uon[u] = FALSE]
  <1>1. PICK fault \in {"none"} \cup (IF left.errs > 0 THEN left.faults ELSE {}) :
          /\ left' = [left EXCEPT !.errs = IF fault = "none" THEN @ ELSE @ - 1]
          /\ \/ ctlr' = RwEnd(c, u, "ofl") \/ ctlr' = RwEnd(c, u, "suc")
             \/ ctlr' = StartIo(c, u, IF fault = "none" THEN "ok" ELSE fault)
             \/ ctlr' = FinishIo(c, u, fault)
    BY DEF UnitService
  <1>2. DOMAIN left' = DOMAIN left /\ left'.faults = left.faults
    BY <1>1 DEF IInv
  <1>3. Ok(ctlr) /\ ctlr.cpkt[u] # 0
    BY DEF UnitService, IInv, Scheduled, Between, Idle
  <1>4. Wf(c) /\ Ok(c) /\ c.cpkt = ctlr.cpkt /\ c.pktq = ctlr.pktq /\ c.qon = ctlr.qon
        /\ c.pip = ctlr.pip /\ c.rspq = ctlr.rspq /\ ~c.uon[u]
        /\ \A v \in Unit \ {u} : c.uon[v] = ctlr.uon[v]
    BY <1>3 DEF IInv, Scheduled, Between, Wf, Fields, Ok
  <1> HIDE DEF c
  <1>5. Freed(c, u, hang)
    BY <1>3, <1>4 DEF IInv, Scheduled, Between, Freed, UnitsScheduled, QueueScheduled
  <1>6. hang \in BOOLEAN
    OBVIOUS
  <1>7. (IF fault = "none" THEN "ok" ELSE fault) = "nothing" => hang
    BY <1>1
  <1> HIDE DEF hang
  <1>8. Scheduled(ctlr', hang)
    BY <1>1, <1>5, <1>6, <1>7, RwEndScheduled, StartIoScheduled, FinishIoScheduled
  <1> QED  BY <1>2, <1>8 DEF IInv, hang

\* An attention packet, for one unit.
LEMMA AttendScheduled ==
  ASSUME NEW c, NEW hang \in BOOLEAN, Scheduled(c, hang), NEW u \in Unit
  PROVE  Scheduled(Attend(c, u), hang)
  <1>1. CASE ~Ok(c)
    BY <1>1 DEF Attend
  <1>2. CASE Ok(c)
    <2> DEFINE d == IF c.atp[u] /\ c.att[u] /\ c.atn THEN Attention(c, u) ELSE c
               e == [d EXCEPT !.atp[u] = FALSE]
    <2>1. Attend(c, u) = IF Ok(d) THEN e ELSE d
      BY <1>2 DEF Attend
    <2>2. Sent(c, Attention(c, u))
      BY LogSent DEF Scheduled, Between
    <2>3. Scheduled(Attention(c, u), hang)
      BY <1>2, <2>2, SentBetween DEF Scheduled
    <2>4. Scheduled(d, hang)
      BY <2>3
    <2> HIDE DEF d
    <2>5. Same(d, e)
      BY <2>4 DEF Same, Kept, Scheduled, Between, Wf, Fields
    <2>6. Scheduled(e, hang)
      BY <2>4, <2>5, SameScheduled
    <2> QED  BY <2>1, <2>4, <2>6
  <1> QED  BY <1>1, <1>2

LEMMA TimerServiceScheduled ==
  ASSUME NEW hang \in BOOLEAN, Scheduled(ctlr, hang), TimerService
  PROVE  Scheduled(ctlr', hang)
  <1> DEFINE c0 == Attend(ctlr, 0)
             c1 == Attend(c0, 1)
             c2 == Attend(c1, 2)
             c3 == Attend(c2, 3)
             d == [c3 EXCEPT !.hat = @ - 1]
  <1>1. 0 \in Unit /\ 1 \in Unit /\ 2 \in Unit /\ 3 \in Unit
    BY DEF Unit
  <1> HIDE DEF c0, c1, c2, c3
  <1>2. ctlr' = HostTimer(c3)
    BY Zenon DEF TimerService, Become, c0, c1, c2, c3
  <1>3. Scheduled(c0, hang)
    BY <1>1, AttendScheduled DEF c0
  <1>4. Scheduled(c1, hang)
    BY <1>1, <1>3, AttendScheduled DEF c1
  <1>5. Scheduled(c2, hang)
    BY <1>1, <1>4, AttendScheduled DEF c2
  <1>6. Scheduled(c3, hang)
    BY <1>1, <1>5, AttendScheduled DEF c3
  <1>7. Same(c3, d)
    BY <1>6 DEF Same, Kept, Scheduled, Between, Wf, Fields
  <1> HIDE DEF d
  <1>8. Scheduled(d, hang)
    BY <1>6, <1>7, SameScheduled
  <1>9. Scheduled(Fatal(c3), hang)
    BY <1>6, FatalDead, IdleScheduled DEF Scheduled, Between, Dead
  <1>10. ctlr' \in {c3, d, Fatal(c3)}
    BY <1>2 DEF HostTimer, d
  <1> QED  BY <1>6, <1>8, <1>9, <1>10

\* While the controller is initialised its lists are empty.
LEMMA InitServiceScheduled ==
  ASSUME NEW hang \in BOOLEAN, Scheduled(ctlr, hang), InitService
  PROVE  Scheduled(ctlr', hang)
  <1> DEFINE c == [ctlr EXCEPT !.qon = FALSE]
             up == [c EXCEPT !.csta = "UP", !.sa = "zero", !.ton = TRUE]
             logged == IF c.saw = "golf" /\ c.perr THEN LogFailure(up) ELSE up
             d == [logged EXCEPT !.perr = FALSE]
  <1>1. Wf(ctlr) /\ Idle(ctlr) /\ ctlr' = InitStep(c)
    BY DEF InitService, Become, Scheduled, Between, Ok
  <1>2. Wf(c) /\ Idle(c)
    BY <1>1 DEF Wf, Idle, Fields
  <1> HIDE DEF c
  <1>3. Wf(up) /\ Idle(up) /\ Ok(up)
    BY <1>2 DEF Wf, Idle, Fields, Ok
  <1> HIDE DEF up
  <1>4. Scheduled(up, hang) /\ Sent(up, LogFailure(up))
    BY <1>3, IdleScheduled, LogSent
  <1>5. Scheduled(logged, hang)
    BY <1>3, <1>4, SentBetween DEF Scheduled
  <1> HIDE DEF logged
  <1>6. Same(logged, d)
    BY <1>5 DEF Same, Kept, Scheduled, Between, Wf, Fields
  <1> HIDE DEF d
  <1>7. Scheduled(d, hang)
    BY <1>5, <1>6, SameScheduled
  <1>8. GoUp(c) = d
    BY DEF GoUp, d, logged, up
  <1>9. Scheduled(Fatal(c), hang)
    BY <1>2, FatalDead, IdleScheduled DEF Dead
  <1>10. CASE ctlr' \in {GoUp(c), Fatal(c)}
    BY <1>7, <1>8, <1>9, <1>10
  <1>11. CASE ctlr' \notin {GoUp(c), Fatal(c)}
    <2>1. Wf(InitStep(c)) /\ Idle(InitStep(c))
      BY <1>1, <1>2, <1>11 DEF InitStep, InitInt, Step4, Wf, Idle, Fields
    <2> QED  BY <1>1, <2>1, IdleScheduled
  <1> QED  BY <1>10, <1>11

-----------------------------------------------------------------------------
(* The registers, the operator and the driver *)

LEMMA RegistersScheduled ==
  ASSUME NEW c, NEW hang \in BOOLEAN, Scheduled(c, hang)
  PROVE  /\ \A word : Scheduled(SaWritten(c, word), hang)
         /\ Scheduled(IpRead(c), hang) /\ Scheduled(Reset(c), hang)
  <1>1. Wf(c) /\ (~Ok(c) => Idle(c))
    BY DEF Scheduled, Between
  <1>2. ASSUME NEW word PROVE Scheduled(SaWritten(c, word), hang)
    <2> DEFINE d == SaWritten(c, word)
    <2>1. /\ DOMAIN d = DOMAIN c /\ d.csta = c.csta /\ d.freq = c.freq
          /\ d.rspq = c.rspq /\ d.pip = c.pip /\ d.uon = c.uon
          /\ d.cpkt = c.cpkt /\ d.pktq = c.pktq /\ d.pkt = c.pkt
          /\ d.qon = (c.qon \/ c.csta \notin {"UP", "DEAD"})
      BY <1>1 DEF SaWritten, Wf, Fields
    <2> HIDE DEF d
    <2>2. Wf(d) /\ (~Ok(d) => Idle(d)) /\ UnitsScheduled(d, hang)
      BY <1>1, <2>1 DEF Wf, Ok, Idle, UnitsScheduled, Scheduled, Between
    <2>3. QueueScheduled(d)
      BY <1>1, <2>1 DEF QueueScheduled, Scheduled, Wf
    <2> QED  BY <2>2, <2>3 DEF Scheduled, Between, d
  <1>3. Scheduled(IpRead(c), hang)
    <2>1. CASE c.csta = "S3_PPB"
      <3>1. IpRead(c) = Step4(c) /\ Idle(c)
        BY <1>1, <2>1 DEF IpRead, Ok
      <3>2. Wf(Step4(c)) /\ Idle(Step4(c))
        BY <1>1, <3>1 DEF Step4, InitInt, Wf, Idle, Fields
      <3> QED  BY <3>1, <3>2, IdleScheduled
    <2>2. CASE c.csta = "UP"
      <3> DEFINE d == [c EXCEPT !.pip = TRUE, !.qon = TRUE]
      <3>1. IpRead(c) = d
        BY <2>2 DEF IpRead
      <3>2. Wf(d) /\ Ok(d) /\ UnitsScheduled(d, hang) /\ QueueScheduled(d)
        BY <1>1, <2>2 DEF Wf, Fields, Ok, UnitsScheduled, QueueScheduled, Scheduled, Between
      <3> QED  BY <3>1, <3>2 DEF Scheduled, Between
    <2>3. CASE c.csta \notin {"S3_PPB", "UP"}
      BY <2>3 DEF IpRead
    <2> QED  BY <2>1, <2>2, <2>3
  <1>4. Scheduled(Reset(c), hang)
    BY <1>1, ResetIdle, IdleScheduled DEF Wf
  <1> QED  BY <1>2, <1>3, <1>4

\* What the driver does to the rings and the operator to a drive is nothing
\* that a service looks at.
LEMMA OutsideScheduled ==
  ASSUME IInv,
         \/ \E u \in Unit : Attach(u) \/ Detach(u)
         \/ Initialise \/ ReadIP \/ StartUp \/ Issue \/ Interrupt \/ Take \/ Sleep
         \/ WriteIP
  PROVE  IInv'
  <1> DEFINE hang == "nothing" \in left.faults
  <1>1. hang \in BOOLEAN /\ Scheduled(ctlr, hang) /\ Wf(ctlr)
        /\ {"prog", "errs", "faults", "swaps", "inits"} \subseteq DOMAIN left
    BY DEF IInv, Scheduled, Between
  <1>2. DOMAIN left' = DOMAIN left /\ left'.faults = left.faults
    BY <1>1 DEF Attach, Detach, Initialise, WriteSA, WriteGo, ReadIP, StartUp, Issue,
                Interrupt, Take, Sleep, WriteIP
  <1> HIDE DEF hang
  <1>3. Scheduled(ctlr', hang)
    <2>1. CASE Initialise
      <3> DEFINE g == [ctlr EXCEPT !.rsp = [i \in DOMAIN @ |-> Given]]
      <3>1. Same(ctlr, g)
        BY <1>1 DEF Same, Kept, Wf, Fields
      <3>2. Scheduled(g, hang)
        BY <1>1, <3>1, SameScheduled
      <3>3. \E word : ctlr' = SaWritten(ctlr, word) \/ ctlr' = SaWritten(g, word)
        BY <2>1 DEF Initialise, WriteSA, WriteGo
      <3> HIDE DEF g
      <3> QED  BY <1>1, <3>2, <3>3, RegistersScheduled
    <2>2. CASE ReadIP \/ WriteIP
      <3>1. ctlr' \in {IpRead(ctlr), Reset(ctlr)}
        BY <2>2 DEF ReadIP, WriteIP
      <3> QED  BY <1>1, <3>1, RegistersScheduled
    <2>3. CASE \/ \E u \in Unit : Attach(u) \/ Detach(u)
               \/ StartUp \/ Issue \/ Interrupt \/ Take \/ Sleep
      <3>1. Same(ctlr, ctlr')
        BY <1>1, <2>3 DEF Attach, Detach, StartUp, Issue, Interrupt, Take, Sleep,
                          Same, Kept, Wf, Fields
      <3> QED  BY <1>1, <3>1, SameScheduled
    <2> QED  BY <2>1, <2>2, <2>3
  <1> QED  BY <1>1, <1>2, <1>3 DEF IInv, hang

-----------------------------------------------------------------------------
(* The theorem *)

LEMMA InitIInv == ASSUME Init PROVE IInv
  <1>1. Fields \subseteq DOMAIN PowerUp /\ PowerUp.pkt = 0
    BY DEF PowerUp, Fields
  <1>2. Wf(ctlr) /\ Idle(ctlr)
    BY <1>1, ResetIdle DEF Init
  <1>3. left \in Scenarios
    BY DEF Init
  <1>4. ("nothing" \in left.faults) \in BOOLEAN
    OBVIOUS
  <1>5. Scheduled(ctlr, "nothing" \in left.faults)
    BY <1>2, <1>4, IdleScheduled
  <1>6. {"prog", "errs", "faults", "swaps", "inits"} \subseteq DOMAIN left
    BY <1>3, MscpAssumption
  <1> QED  BY <1>5, <1>6 DEF IInv

LEMMA NextIInv == ASSUME IInv, [Next]_vars PROVE IInv'
  <1>1. ("nothing" \in left.faults) \in BOOLEAN /\ Scheduled(ctlr, "nothing" \in left.faults)
    BY DEF IInv
  <1>2. CASE InitService
    BY <1>1, <1>2, InitServiceScheduled DEF IInv, InitService, Become
  <1>3. CASE QueueService
    <2>1. UNCHANGED left
      BY <1>3 DEF QueueService, Become
    <2> QED  BY <1>1, <1>3, <2>1, QueueServiceScheduled DEF IInv
  <1>4. CASE TimerService
    <2>1. UNCHANGED left
      BY <1>4 DEF TimerService, Become
    <2> QED  BY <1>1, <1>4, <2>1, TimerServiceScheduled DEF IInv
  <1>5. CASE \E u \in Unit : UnitService(u)
    BY <1>5, UnitServiceScheduled
  <1>6. CASE \/ \E u \in Unit : Attach(u) \/ Detach(u)
             \/ Driver \/ WriteIP
    BY <1>6, OutsideScheduled DEF Driver
  <1>7. CASE UNCHANGED vars
    BY <1>7 DEF vars, IInv
  <1> QED  BY <1>2, <1>3, <1>4, <1>5, <1>6, <1>7 DEF Next

THEOREM IInvAlways == Spec => []IInv
  BY InitIInv, NextIInv, PTL DEF Spec

\* Work that is left always has a service scheduled that will do it: no
\* response waits, no unit's queue stands, no transfer is forgotten, whatever
\* the driver, the operator and the disks do.
THEOREM WorkAlwaysScheduled == Spec => []WorkScheduled
  <1>1. IInv => WorkScheduled
    BY DEF IInv, Scheduled, Between, WorkScheduled
  <1> QED  BY <1>1, IInvAlways, PTL

-----------------------------------------------------------------------------
(***************************************************************************)
(* The packets, the response ring and the driver.  Sound(c, a, b, g) holds *)
(* of a controller in the middle of a routine that has packets a and b in  *)
(* hand (0 for none), on no list, while the driver is in state g.  Firm    *)
(* types them and counts packets and responses; Placed says where the      *)
(* commands the driver waits for are, and that the credits add up.         *)
(***************************************************************************)

States == {"S1", "S1_WR", "S2", "S3", "S3_PPA", "S3_PPB", "S4", "UP", "DEAD"}

\* The fields the argument looks at.
Viewed == Fields \cup {"sa", "ci", "ri", "credits", "pbsy", "irq", "ton", "io", "pak",
                       "cmd", "rsp", "hat", "saw"}

\* What a packet or a descriptor holds: a message about a command has its
\* reference, the controller's own have none.
Tagged(d) ==
  /\ {"ref", "unit", "typ", "end", "arg"} \subseteq DOMAIN d
  /\ d.end \in BOOLEAN /\ (d.ref = 0 \/ d.typ = "seq")

\* It is an answer exactly when it has a reference.
Closed(d) == d.ref # 0 <=> d.end

\* A descriptor of the command ring, and one of the response ring.
Asked(k) == {"own", "d"} \subseteq DOMAIN k /\ Tagged(k.d) /\ (k.own => k.d.ref # 0)

Said(k) ==
  /\ "own" \in DOMAIN k /\ k.own \in BOOLEAN
  /\ ~k.own => /\ "d" \in DOMAIN k /\ Tagged(k.d) /\ Closed(k.d)
               /\ k.d.end => k.d.arg \in Int

RingsTyped(c) ==
  /\ DOMAIN c.cmd = 0 .. CmdRing - 1
  /\ \A i \in 0 .. CmdRing - 1 : Asked(c.cmd[i])
  /\ DOMAIN c.rsp = 0 .. RspRing - 1
  /\ \A i \in 0 .. RspRing - 1 : Said(c.rsp[i])

Typed(c) ==
  /\ Wf(c) /\ Viewed \subseteq DOMAIN c
  /\ c.csta \in States /\ c.sa \in {"S1", "S2", "S3", "S4", "echo", "zero", "error"}
  /\ c.csta = "S4" <=> c.sa = "S4"
  /\ c.ci \in 0 .. CmdRing - 1 /\ c.ri \in 0 .. RspRing - 1
  /\ c.credits \in 0 .. NPkts \div 2 - 1 /\ c.pbsy \in Int
  /\ c.irq \in BOOLEAN /\ c.ton \in BOOLEAN
  /\ c.io \in [Unit -> {"none", "ok", "bad"}]
  /\ DOMAIN c.pak = Packet /\ \A p \in Packet : Tagged(c.pak[p])
  /\ RingsTyped(c)

\* Packets in hand, on the lists of a unit and of all units.
One(a) == IF a = 0 THEN 0 ELSE 1
Load(c, u) == Len(c.pktq[u]) + One(c.cpkt[u])
Total(c) == Load(c, 0) + Load(c, 1) + Load(c, 2) + Load(c, 3)

\* The lists have as many places as there are packets (and, Covered, every
\* packet has one of them, hence only one).
Counted(c, a, b) ==
  /\ c.pbsy = Len(c.rspq) + Total(c) + One(a) + One(b)
  /\ Len(c.freq) + c.pbsy = NPkts - 1

\* Packet p is not free.
Uses(c, a, b, p) ==
  \/ p = a \/ p = b \/ p \in ToSet(c.rspq)
  \/ \E u \in Unit : p = c.cpkt[u] \/ p \in ToSet(c.pktq[u])

\* Every packet is free or in use.
Covered(c, a, b) == \A p \in Packet : p \in ToSet(c.freq) \/ Uses(c, a, b, p)

\* A unit has commands only, its own on its queue, and the response queue
\* no commands.
Homed(c) ==
  /\ \A u \in Unit : \A p \in ToSet(c.pktq[u]) : c.pak[p].unit = u /\ c.pak[p].ref # 0
  /\ \A u \in Unit : c.cpkt[u] # 0 => c.pak[c.cpkt[u]].ref # 0
  /\ \A p \in ToSet(c.rspq) : Closed(c.pak[p])

\* The host timer runs while no packet holds a command.
Quiet(c, a, b) == c.hat # 0 => \A p \in Packet : Uses(c, a, b, p) => c.pak[p].ref = 0

\* How far descriptor i is from the one the driver reads next, and the
\* descriptor n places on.
Place(hr, i) == IF i >= hr THEN i - hr ELSE i - hr + RspRing
Behind(hr, n) == IF hr + n >= RspRing THEN hr + n - RspRing ELSE hr + n

\* The n descriptors from hr on are the driver's, the controller's index is
\* right behind them, and a driver that sleeps on them will be interrupted.
Waiting(c, g, n) ==
  /\ \A i \in 0 .. RspRing - 1 : c.rsp[i].own <=> Place(g.hr, i) >= n
  /\ c.ri = Behind(g.hr, n)
  /\ g.awake \/ n = 0 \/ c.irq

RingOk(c, g) == Ok(c) => \E n \in 0 .. RspRing : Waiting(c, g, n)

Firm(c, a, b, g) ==
  Typed(c) /\ Counted(c, a, b) /\ Covered(c, a, b) /\ Homed(c) /\ Quiet(c, a, b) /\ RingOk(c, g)

\* The command at a place: a descriptor of the command ring, a packet that is
\* not free, or a descriptor of the response ring; 0 for none.
Kinds == {"cmd", "pak", "rsp"}

Ref(c, k, n) ==
  CASE k = "cmd" -> IF n \in 0 .. CmdRing - 1 /\ c.cmd[n].own THEN c.cmd[n].d.ref ELSE 0
    [] k = "pak" -> IF n \in Packet /\ n \notin ToSet(c.freq) THEN c.pak[n].ref ELSE 0
    [] k = "rsp" -> IF n \in 0 .. RspRing - 1 /\ ~c.rsp[n].own THEN c.rsp[n].d.ref ELSE 0

\* Each command the driver waits for is at one place, and no other at any.
Located(c, g) ==
  /\ \A k \in Kinds, n \in Int : Ref(c, k, n) \in g.out \cup {0}
  /\ \A r \in g.out : \E k \in Kinds, n \in Int : Ref(c, k, n) = r
  /\ \A k, l \in Kinds, m, n \in Int :
       Ref(c, k, m) = Ref(c, l, n) /\ Ref(c, k, m) # 0 => k = l /\ m = n

\* Half the packets are credits: the controller's, the driver's, those on their
\* way in responses, and one for each command the driver waits for.
Balanced(c, g) ==
  c.credits + Carried(c.rsp) + g.credits + Cardinality(g.out) = NPkts \div 2

\* A controller that is not up has no command in its packets.
Placed(c, g) ==
  IF Ok(c) THEN Located(c, g) /\ Balanced(c, g) ELSE \A p \in Packet : c.pak[p].ref = 0

Sound(c, a, b, g) == Firm(c, a, b, g) /\ Placed(c, g)

DriverTyped(g) ==
  /\ {"step", "hr", "awake", "poll", "hc", "ref", "out", "credits"} \subseteq DOMAIN g
  /\ g.credits \in Int /\ g.hr \in 0 .. RspRing - 1 /\ g.awake \in BOOLEAN /\ g.poll \in BOOLEAN
  /\ g.hc \in 0 .. CmdRing - 1 /\ g.ref \in Nat \ {0} /\ g.out \subseteq 1 .. g.ref - 1

\* How far the driver is with the initialisation, against the controller's
\* phase: the go bit is only ever set after the rings were handed over.
Agree(c, g) ==
  /\ g.step \in {"wait", "up"} => c.csta \in {"S4", "UP", "DEAD"}
  /\ g.step = "up" => c.csta # "S4"
  /\ c.csta = "UP" => g.step \in {"wait", "up"}
  /\ c.csta \notin {"S1", "S1_WR", "DEAD", "UP"} /\ g.step \notin {"wait", "up"}
     => c.saw \notin {"go", "golf"}
  /\ c.csta = "S4" => c.ri = 0
  /\ c.csta = "S4" /\ g.step = "wait" => \A i \in 0 .. RspRing - 1 : c.rsp[i].own
  /\ c.csta = "S4" => \A i \in 0 .. CmdRing - 1 : ~c.cmd[i].own
  /\ c.csta \notin {"UP", "DEAD"} => c.credits = NPkts \div 2 - 1
  /\ g.step # "up" => g.hr = 0 /\ g.awake /\ g.out = {} /\ g.credits = 1

SInv == Sound(ctlr, 0, 0, host) /\ DriverTyped(host) /\ Agree(ctlr, host) /\ ctlr.pkt = 0

-----------------------------------------------------------------------------
(* Lists as sets *)

LEMMA SetOfPush ==
  ASSUME NEW s \in Seq(Packet), NEW p \in Packet
  PROVE  /\ ToSet(<<p>> \o s) = ToSet(s) \cup {p} /\ Len(<<p>> \o s) = Len(s) + 1
         /\ ToSet(Append(s, p)) = ToSet(s) \cup {p} /\ Len(Append(s, p)) = Len(s) + 1
  <1> DEFINE t == <<p>> \o s
             v == Append(s, p)
  <1>1. /\ t \in Seq(Packet) /\ Len(t) = Len(s) + 1 /\ t[1] = p
        /\ \A i \in 1 .. Len(s) : t[i + 1] = s[i]
    OBVIOUS
  <1>2. /\ v \in Seq(Packet) /\ Len(v) = Len(s) + 1 /\ v[Len(s) + 1] = p
        /\ \A i \in 1 .. Len(s) : v[i] = s[i]
    OBVIOUS
  <1>3. \A i \in 1 .. Len(s) + 1 : t[i] = IF i = 1 THEN p ELSE s[i - 1]
    OBVIOUS
  <1> HIDE DEF t, v
  <1>4. ToSet(t) = ToSet(s) \cup {p}
    <2>1. \A x \in ToSet(t) : x = p \/ x \in ToSet(s)
      BY <1>1, <1>3 DEF ToSet
    <2>2. p \in ToSet(t)
      BY <1>1 DEF ToSet
    <2>3. \A i \in 1 .. Len(s) : s[i] \in ToSet(t)
      BY <1>1 DEF ToSet
    <2>4. ToSet(s) \subseteq ToSet(t)
      BY <2>3 DEF ToSet
    <2> QED  BY <2>1, <2>2, <2>4
  <1>5. ToSet(v) = ToSet(s) \cup {p}
    <2>1. \A x \in ToSet(v) : x = p \/ x \in ToSet(s)
      BY <1>2 DEF ToSet
    <2>2. p \in ToSet(v)
      BY <1>2 DEF ToSet
    <2>3. \A i \in 1 .. Len(s) : s[i] \in ToSet(v)
      BY <1>2 DEF ToSet
    <2>4. ToSet(s) \subseteq ToSet(v)
      BY <2>3 DEF ToSet
    <2> QED  BY <2>1, <2>2, <2>4
  <1> QED  BY <1>1, <1>2, <1>4, <1>5 DEF t, v

LEMMA SetOfPop ==
  ASSUME NEW s \in Seq(Packet), s # <<>>
  PROVE  ToSet(s) = ToSet(Tail(s)) \cup {Head(s)} /\ Len(Tail(s)) = Len(s) - 1
  <1> DEFINE t == Tail(s)
  <1>1. /\ Len(s) \in Nat /\ Len(s) > 0 /\ t \in Seq(Packet) /\ Len(t) = Len(s) - 1
        /\ Head(s) = s[1] /\ \A i \in 1 .. Len(s) - 1 : t[i] = s[i + 1]
    OBVIOUS
  <1> HIDE DEF t
  <1>2. \A i \in 1 .. Len(s) : s[i] = Head(s) \/ s[i] \in ToSet(t)
    <2> TAKE i \in 1 .. Len(s)
    <2>1. CASE i = 1
      BY <1>1, <2>1
    <2>2. CASE i # 1
      <3>1. i - 1 \in 1 .. Len(t) /\ t[i - 1] = s[i]
        BY <1>1, <2>2
      <3> QED  BY <1>1, <3>1 DEF ToSet
    <2> QED  BY <2>1, <2>2
  <1>3. \A i \in 1 .. Len(t) : t[i] \in ToSet(s)
    BY <1>1 DEF ToSet
  <1>4. Head(s) \in ToSet(s)
    BY <1>1 DEF ToSet
  <1>5. ToSet(t) \subseteq ToSet(s)
    BY <1>1, <1>3 DEF ToSet
  <1>6. ToSet(s) \subseteq ToSet(t) \cup {Head(s)}
    BY <1>1, <1>2 DEF ToSet
  <1> QED  BY <1>1, <1>4, <1>5, <1>6 DEF t

LEMMA WithoutOne ==
  ASSUME NEW s \in Seq(Packet), NEW i \in 1 .. Len(s)
  PROVE  LET t == RemoveAt(s, i)
         IN  /\ t \in Seq(Packet) /\ Len(t) = Len(s) - 1 /\ Len(s) \in Nat
             /\ \A j \in 1 .. Len(s) - 1 : t[j] = IF j < i THEN s[j] ELSE s[j + 1]
  <1> DEFINE t == RemoveAt(s, i)
  <1>1. t = SubSeq(s, 1, i - 1) \o SubSeq(s, i + 1, Len(s))
    BY DEF RemoveAt
  <1>2. /\ SubSeq(s, 1, i - 1) \in Seq(Packet) /\ Len(SubSeq(s, 1, i - 1)) = i - 1
        /\ \A j \in 1 .. i - 1 : SubSeq(s, 1, i - 1)[j] = s[j]
    OBVIOUS
  <1>3. /\ SubSeq(s, i + 1, Len(s)) \in Seq(Packet)
        /\ Len(SubSeq(s, i + 1, Len(s))) = Len(s) - i
        /\ \A j \in 1 .. Len(s) - i : SubSeq(s, i + 1, Len(s))[j] = s[j + i]
    OBVIOUS
  <1> DEFINE L == Len(s)
             x == SubSeq(s, 1, i - 1)
             y == SubSeq(s, i + 1, L)
  <1>4. L \in Nat /\ i \in 1 .. L
    OBVIOUS
  <1> HIDE DEF L, x, y, t
  <1>5. /\ x \o y \in Seq(Packet) /\ Len(x \o y) = Len(x) + Len(y)
        /\ \A j \in 1 .. Len(x) + Len(y) :
             (x \o y)[j] = IF j <= Len(x) THEN x[j] ELSE y[j - Len(x)]
    <2>1. x \in Seq(Packet) /\ y \in Seq(Packet)
      BY <1>2, <1>3 DEF x, y, L
    <2> QED  BY <2>1
  <1>6. Len(x) = i - 1 /\ Len(y) = L - i
    BY <1>2, <1>3 DEF x, y, L
  <1>7. \A j \in 1 .. L - 1 : (x \o y)[j] = IF j < i THEN s[j] ELSE s[j + 1]
    <2> TAKE j \in 1 .. L - 1
    <2>1. CASE j < i
      <3>1. j \in 1 .. i - 1 /\ j \in 1 .. Len(x) + Len(y) /\ j <= Len(x)
        BY <1>4, <1>6, <2>1
      <3> QED  BY <1>2, <1>5, <2>1, <3>1 DEF x
    <2>2. CASE ~(j < i)
      <3>1. /\ j - (i - 1) \in 1 .. L - i /\ j \in 1 .. Len(x) + Len(y)
            /\ ~(j <= Len(x)) /\ j - (i - 1) + i = j + 1
        BY <1>4, <1>6, <2>2
      <3>2. y[j - (i - 1)] = s[j + 1]
        BY <1>3, <3>1 DEF y, L
      <3> QED  BY <1>5, <1>6, <2>2, <3>1, <3>2
    <2> QED  BY <2>1, <2>2
  <1>8. (i - 1) + (L - i) = L - 1
    BY <1>4
  <1>9. t \in Seq(Packet) /\ Len(t) = L - 1 /\ L \in Nat
    BY <1>1, <1>4, <1>5, <1>6, <1>8 DEF x, y, L
  <1>10. \A j \in 1 .. L - 1 : t[j] = IF j < i THEN s[j] ELSE s[j + 1]
    BY <1>1, <1>7 DEF x, y, L
  <1> QED  BY <1>9, <1>10 DEF t, L

LEMMA SetOfRemove ==
  ASSUME NEW s \in Seq(Packet), NEW i \in 1 .. Len(s)
  PROVE  /\ ToSet(s) = ToSet(RemoveAt(s, i)) \cup {s[i]}
         /\ Len(RemoveAt(s, i)) = Len(s) - 1
  <1> DEFINE t == RemoveAt(s, i)
  <1>1. /\ t \in Seq(Packet) /\ Len(t) = Len(s) - 1 /\ Len(s) \in Nat
        /\ \A j \in 1 .. Len(s) - 1 : t[j] = IF j < i THEN s[j] ELSE s[j + 1]
    BY WithoutOne
  <1> HIDE DEF t
  <1>2. \A j \in 1 .. Len(s) : s[j] = s[i] \/ s[j] \in ToSet(t)
    <2> TAKE j \in 1 .. Len(s)
    <2>1. CASE j < i
      <3>1. j \in 1 .. Len(t) /\ t[j] = s[j]
        BY <1>1, <2>1
      <3> QED  BY <1>1, <3>1 DEF ToSet
    <2>2. CASE j > i
      <3>1. j - 1 \in 1 .. Len(t) /\ t[j - 1] = s[j]
        BY <1>1, <2>2
      <3> QED  BY <1>1, <3>1 DEF ToSet
    <2> QED  BY <2>1, <2>2
  <1>3. \A j \in 1 .. Len(t) : t[j] \in ToSet(s)
    BY <1>1 DEF ToSet
  <1>4. s[i] \in ToSet(s)
    BY DEF ToSet
  <1>5. ToSet(t) \subseteq ToSet(s)
    BY <1>1, <1>3 DEF ToSet
  <1>6. ToSet(s) \subseteq ToSet(t) \cup {s[i]}
    BY <1>1, <1>2 DEF ToSet
  <1> QED  BY <1>1, <1>4, <1>5, <1>6 DEF t

\* The numbers on the units' lists change with one unit.
LEMMA LoadNat == ASSUME NEW c, Wf(c), NEW u \in Unit PROVE Load(c, u) \in Nat
  <1>1. c.pktq[u] \in Seq(Packet)
    BY DEF Wf
  <1>2. Len(c.pktq[u]) \in Nat
    BY <1>1
  <1>3. One(c.cpkt[u]) \in Nat
    BY DEF One
  <1> QED  BY <1>2, <1>3 DEF Load

LEMMA TotalNat == ASSUME NEW c, Wf(c) PROVE Total(c) \in Nat
  BY LoadNat DEF Total, Unit

LEMMA TotalStep ==
  ASSUME NEW c, NEW d, Wf(c), Wf(d), NEW u \in Unit,
         \A v \in Unit \ {u} : d.pktq[v] = c.pktq[v] /\ d.cpkt[v] = c.cpkt[v]
  PROVE  /\ Load(c, u) \in Nat /\ Load(d, u) \in Nat /\ Total(c) \in Nat /\ Total(d) \in Nat
         /\ Total(d) = Total(c) + Load(d, u) - Load(c, u)
  <1>1. \A v \in Unit : Load(c, v) \in Nat /\ Load(d, v) \in Nat
    BY LoadNat
  <1>2. \A v \in Unit \ {u} : Load(d, v) = Load(c, v)
    BY DEF Load
  <1> QED  BY <1>1, <1>2 DEF Total, Unit

LEMMA TotalSame ==
  ASSUME NEW c, NEW d, d.pktq = c.pktq, d.cpkt = c.cpkt
  PROVE  Total(d) = Total(c)
  BY DEF Total, Load

-----------------------------------------------------------------------------
(* The lists together *)

LEMMA SetOfBoth ==
  ASSUME NEW s \in Seq(Packet), NEW t \in Seq(Packet)
  PROVE  /\ s \o t \in Seq(Packet) /\ Len(s \o t) = Len(s) + Len(t)
         /\ ToSet(s \o t) = ToSet(s) \cup ToSet(t)
  <1> DEFINE v == s \o t
  <1>1. /\ v \in Seq(Packet) /\ Len(v) = Len(s) + Len(t)
        /\ Len(s) \in Nat /\ Len(t) \in Nat
        /\ \A i \in 1 .. Len(s) : v[i] = s[i]
        /\ \A i \in 1 .. Len(t) : v[Len(s) + i] = t[i]
    OBVIOUS
  <1> HIDE DEF v
  <1>2. \A i \in 1 .. Len(v) : v[i] \in ToSet(s) \/ v[i] \in ToSet(t)
    <2> TAKE i \in 1 .. Len(v)
    <2>1. CASE i <= Len(s)
      <3>1. i \in 1 .. Len(s)
        BY <1>1, <2>1
      <3> QED  BY <1>1, <3>1 DEF ToSet
    <2>2. CASE i > Len(s)
      <3>1. i - Len(s) \in 1 .. Len(t) /\ Len(s) + (i - Len(s)) = i
        BY <1>1, <2>2
      <3>2. v[i] = t[i - Len(s)]
        BY <1>1, <3>1
      <3> QED  BY <3>1, <3>2 DEF ToSet
    <2> QED  BY <1>1, <2>1, <2>2
  <1>3. \A i \in 1 .. Len(s) : s[i] \in ToSet(v)
    <2> TAKE i \in 1 .. Len(s)
    <2>1. i \in 1 .. Len(v)
      BY <1>1
    <2> QED  BY <1>1, <2>1 DEF ToSet
  <1>4. \A i \in 1 .. Len(t) : t[i] \in ToSet(v)
    <2> TAKE i \in 1 .. Len(t)
    <2>1. Len(s) + i \in 1 .. Len(v)
      BY <1>1
    <2> QED  BY <1>1, <2>1 DEF ToSet
  <1>5. ToSet(s) \subseteq ToSet(v) /\ ToSet(t) \subseteq ToSet(v)
    BY <1>3, <1>4 DEF ToSet
  <1>6. ToSet(v) \subseteq ToSet(s) \cup ToSet(t)
    BY <1>1, <1>2 DEF ToSet
  <1> QED  BY <1>1, <1>5, <1>6 DEF v

LEMMA HeldSet ==
  ASSUME NEW c, Wf(c), NEW u \in Unit
  PROVE  /\ Held(c, u) \in Seq(Packet) /\ Len(Held(c, u)) = Load(c, u)
         /\ ToSet(Held(c, u)) = ToSet(c.pktq[u]) \cup ({c.cpkt[u]} \ {0})
  <1>1. c.pktq[u] \in Seq(Packet) /\ c.cpkt[u] \in Packet \cup {0}
    BY DEF Wf
  <1>2. CASE c.cpkt[u] = 0
    <2>1. Len(c.pktq[u]) \in Nat
      BY <1>1
    <2> QED  BY <1>1, <1>2, <2>1 DEF Held, Load, One
  <1>3. CASE c.cpkt[u] # 0
    <2>1. c.cpkt[u] \in Packet /\ Held(c, u) = <<c.cpkt[u]>> \o c.pktq[u]
      BY <1>1, <1>3 DEF Held
    <2>2. Held(c, u) \in Seq(Packet)
      BY <1>1, <2>1, Pushed
    <2> QED  BY <1>1, <1>3, <2>1, <2>2, SetOfPush DEF Load, One
  <1> QED  BY <1>2, <1>3

LEMMA BusySet ==
  ASSUME NEW c, Wf(c)
  PROVE  /\ Busy(c) \in Seq(Packet) /\ Len(Busy(c)) = Len(c.rspq) + Total(c)
         /\ ToSet(Busy(c)) = {p \in Packet : Uses(c, 0, 0, p)}
         /\ Len(c.freq) \in Nat /\ Len(c.rspq) \in Nat
  <1> DEFINE h0 == Held(c, 0)
             h1 == Held(c, 1)
             h2 == Held(c, 2)
             h3 == Held(c, 3)
             r == c.rspq
             S == {p \in Packet : Uses(c, 0, 0, p)}
  <1>1. /\ r \in Seq(Packet) /\ c.freq \in Seq(Packet) /\ Busy(c) = r \o h0 \o h1 \o h2 \o h3
        /\ Unit = {0, 1, 2, 3}
    BY DEF Wf, Busy, Unit
  <1>2. /\ h0 \in Seq(Packet) /\ h1 \in Seq(Packet) /\ h2 \in Seq(Packet) /\ h3 \in Seq(Packet)
        /\ Len(h0) = Load(c, 0) /\ Len(h1) = Load(c, 1)
        /\ Len(h2) = Load(c, 2) /\ Len(h3) = Load(c, 3)
    BY <1>1, HeldSet
  <1>3. \A u \in Unit : ToSet(Held(c, u)) = ToSet(c.pktq[u]) \cup ({c.cpkt[u]} \ {0})
    BY HeldSet
  <1>4. S = ToSet(r) \cup UNION {ToSet(Held(c, u)) : u \in Unit}
    <2>1. \A u \in Unit : ToSet(Held(c, u)) \subseteq Packet
      BY HeldSet DEF ToSet
    <2>2. ToSet(r) \subseteq Packet
      BY <1>1 DEF ToSet
    <2>3. 0 \notin Packet
      BY DEF Packet
    <2> QED  BY <1>3, <2>1, <2>2, <2>3 DEF Uses
  <1>5. UNION {ToSet(Held(c, u)) : u \in Unit}
          = ToSet(h0) \cup ToSet(h1) \cup ToSet(h2) \cup ToSet(h3)
    BY <1>1
  <1> HIDE DEF h0, h1, h2, h3, r, S
  <1>6. /\ r \o h0 \in Seq(Packet) /\ Len(r \o h0) = Len(r) + Len(h0)
        /\ ToSet(r \o h0) = ToSet(r) \cup ToSet(h0)
    BY <1>1, <1>2, SetOfBoth
  <1>7. /\ r \o h0 \o h1 \in Seq(Packet) /\ Len(r \o h0 \o h1) = Len(r) + Len(h0) + Len(h1)
        /\ ToSet(r \o h0 \o h1) = ToSet(r) \cup ToSet(h0) \cup ToSet(h1)
    BY <1>2, <1>6, SetOfBoth
  <1>8. /\ r \o h0 \o h1 \o h2 \in Seq(Packet)
        /\ Len(r \o h0 \o h1 \o h2) = Len(r) + Len(h0) + Len(h1) + Len(h2)
        /\ ToSet(r \o h0 \o h1 \o h2) = ToSet(r) \cup ToSet(h0) \cup ToSet(h1) \cup ToSet(h2)
    BY <1>2, <1>7, SetOfBoth
  <1>9. /\ Busy(c) \in Seq(Packet)
        /\ Len(Busy(c)) = Len(r) + Len(h0) + Len(h1) + Len(h2) + Len(h3)
        /\ ToSet(Busy(c)) = ToSet(r) \cup ToSet(h0) \cup ToSet(h1) \cup ToSet(h2) \cup ToSet(h3)
    <2> DEFINE x == r \o h0 \o h1 \o h2
    <2>1. x \in Seq(Packet) /\ Busy(c) = x \o h3
      BY <1>1, <1>8
    <2> HIDE DEF x
    <2>2. /\ x \o h3 \in Seq(Packet) /\ Len(x \o h3) = Len(x) + Len(h3)
          /\ ToSet(x \o h3) = ToSet(x) \cup ToSet(h3)
      BY <1>2, <2>1, SetOfBoth
    <2> QED  BY <1>8, <2>1, <2>2 DEF x
  <1>10. /\ Len(r) \in Nat /\ Len(c.freq) \in Nat /\ Len(h0) \in Nat /\ Len(h1) \in Nat
         /\ Len(h2) \in Nat /\ Len(h3) \in Nat
    BY <1>1, <1>2
  <1>11. Len(Busy(c)) = Len(r) + Total(c)
    BY <1>2, <1>9, <1>10 DEF Total
  <1>12. ToSet(Busy(c)) = S
    BY <1>4, <1>5, <1>9
  <1>13. Len(c.rspq) \in Nat /\ Len(Busy(c)) = Len(c.rspq) + Total(c)
    BY <1>10, <1>11 DEF r
  <1>14. ToSet(Busy(c)) = {p \in Packet : Uses(c, 0, 0, p)}
    BY <1>12, Zenon DEF S
  <1>15. Busy(c) \in Seq(Packet) /\ Len(c.freq) \in Nat
    BY <1>9, <1>10
  <1> QED  BY <1>13, <1>14, <1>15, Zenon

\* A list with a place for every packet, that has every packet, has it once.
LEMMA OnlyOnce ==
  ASSUME NEW s \in Seq(Packet), Len(s) = NPkts - 1, ToSet(s) = Packet
  PROVE  \A i, j \in 1 .. Len(s) : s[i] = s[j] => i = j
  <1>1. s \in [1 .. Len(s) -> Packet] /\ 1 .. Len(s) = Packet
    BY DEF Packet
  <1>2. IsFiniteSet(Packet)
    BY FS_Interval, MscpAssumption DEF Packet
  <1>3. \A p \in Packet : \E i \in Packet : s[i] = p
    BY <1>1 DEF ToSet
  <1>4. s \in Surjection(Packet, Packet)
    BY <1>1, <1>3 DEF Surjection
  <1>5. s \in Injection(Packet, Packet)
    BY <1>2, <1>4, FS_SurjSameCardinalityImpliesInj
  <1> QED  BY <1>1, <1>5 DEF Injection, IsInjective

\* Every packet is on one list, and pbsy counts those that are not free.
LEMMA AllOnce ==
  ASSUME NEW c, Wf(c), Counted(c, 0, 0), Covered(c, 0, 0)
  PROVE  /\ c.freq \o Busy(c) \in Seq(Packet) /\ Len(c.freq \o Busy(c)) = NPkts - 1
         /\ ToSet(c.freq \o Busy(c)) = Packet /\ c.pbsy = Len(Busy(c))
  <1>1. c.freq \in Seq(Packet) /\ Busy(c) \in Seq(Packet)
    BY BusySet DEF Wf
  <1>2. c.pbsy = Len(Busy(c)) /\ Len(c.freq) + Len(Busy(c)) = NPkts - 1
    <2>1. Total(c) \in Nat /\ Len(c.rspq) \in Nat
      BY BusySet, TotalNat
    <2>2. One(0) = 0
      BY DEF One
    <2>3. /\ c.pbsy = Len(c.rspq) + Total(c) + 0 + 0 /\ Len(c.freq) + c.pbsy = NPkts - 1
          /\ Len(Busy(c)) = Len(c.rspq) + Total(c)
      BY <2>2, BusySet DEF Counted
    <2> QED  BY <2>1, <2>3
  <1>3. \A p \in Packet : p \in ToSet(c.freq) \cup ToSet(Busy(c))
    BY BusySet DEF Covered
  <1>4. ToSet(c.freq) \subseteq Packet /\ ToSet(Busy(c)) \subseteq Packet
    BY <1>1 DEF ToSet
  <1> QED  BY <1>1, <1>2, <1>3, <1>4, SetOfBoth

\* The first free packet is on no other list.
LEMMA HeadFresh ==
  ASSUME NEW c, Wf(c), Counted(c, 0, 0), Covered(c, 0, 0), c.freq # <<>>
  PROVE  ~Uses(c, 0, 0, Head(c.freq))
  <1> DEFINE f == c.freq
             b == Busy(c)
             s == f \o b
  <1>1. /\ f \in Seq(Packet) /\ b \in Seq(Packet) /\ f # <<>>
        /\ Head(f) \in Packet
    BY BusySet, Popped DEF Wf
  <1>2. \A i, j \in 1 .. Len(s) : s[i] = s[j] => i = j
    BY AllOnce, OnlyOnce
  <1>3. /\ Len(f) \in Nat \ {0} /\ Len(b) \in Nat /\ Len(s) = Len(f) + Len(b)
        /\ s[1] = Head(f) /\ \A i \in 1 .. Len(b) : s[Len(f) + i] = b[i]
    BY <1>1
  <1> HIDE DEF f, b, s
  <1>4. ASSUME NEW i \in 1 .. Len(b), b[i] = Head(f) PROVE FALSE
    <2>1. 1 \in 1 .. Len(s) /\ Len(f) + i \in 1 .. Len(s) /\ Len(f) + i # 1
      BY <1>3
    <2> QED  BY <1>2, <1>3, <1>4, <2>1
  <1>5. Head(f) \notin ToSet(b)
    BY <1>1, <1>4 DEF ToSet
  <1> QED  BY <1>1, <1>5, BusySet DEF f, b

-----------------------------------------------------------------------------
(* The sum of the credits in the response ring *)

\* s has the sums of Extra over the first n descriptors, for n up to k.
Sums(s, ring, k) ==
  /\ s \in [0 .. k -> Int] /\ s[0] = 0
  /\ \A n \in 1 .. k : s[n] = s[n - 1] + Extra(ring[n - 1])

Payable(ring) == \A i \in 0 .. RspRing - 1 : Extra(ring[i]) \in Int

\* A set of numbers that has 0, and with n < k also n + 1, goes up to k.
LEMMA UpTo ==
  ASSUME NEW k \in Nat, NEW S, 0 \in S, \A n \in 0 .. k - 1 : n \in S => n + 1 \in S
  PROVE  0 .. k \subseteq S
  <1> SUFFICES ASSUME 0 .. k \ S # {} PROVE FALSE
    OBVIOUS
  <1>1. PICK n \in 0 .. k \ S : \A j \in 0 .. k \ S : n <= j
    <2>1. (0 .. k) \ S \in SUBSET Nat
      OBVIOUS
    <2> QED  BY <2>1, First
  <1>2. n - 1 \in 0 .. k - 1 /\ (n - 1) + 1 = n /\ n - 1 \in S
    BY <1>1
  <1> QED  BY <1>1, <1>2

LEMMA SumsExist ==
  ASSUME NEW ring, Payable(ring)
  PROVE  \E s : Sums(s, ring, RspRing) /\ Carried(ring) = s[RspRing]
  <1> DEFINE R == RspRing
             S == {k \in 0 .. R : \E s : Sums(s, ring, k)}
  <1>0. R \in Nat
    BY MscpAssumption
  <1> HIDE DEF R
  <1>1. 0 \in S
    <2>1. Sums([n \in 0 .. 0 |-> 0], ring, 0)
      BY DEF Sums
    <2> QED  BY <1>0, <2>1
  <1>2. ASSUME NEW k \in 0 .. R - 1, k \in S PROVE k + 1 \in S
    <2>1. PICK s : Sums(s, ring, k)
      BY <1>2
    <2> DEFINE t == [n \in 0 .. k + 1 |-> IF n = k + 1 THEN s[k] + Extra(ring[k]) ELSE s[n]]
    <2>2. Extra(ring[k]) \in Int /\ s[k] \in Int
      BY <1>0, <2>1 DEF Payable, Sums, R
    <2>3. t \in [0 .. k + 1 -> Int] /\ t[0] = 0
      BY <1>0, <2>1, <2>2 DEF Sums
    <2>4. \A n \in 1 .. k + 1 : t[n] = t[n - 1] + Extra(ring[n - 1])
      <3> TAKE n \in 1 .. k + 1
      <3>1. k \in Int /\ t[n - 1] = s[n - 1]
        BY <1>0
      <3>2. CASE n = k + 1
        <4>1. t[n] = s[k] + Extra(ring[k]) /\ n - 1 = k
          BY <3>1, <3>2
        <4> QED  BY <3>1, <4>1
      <3>3. CASE n # k + 1
        <4>1. n \in 1 .. k /\ t[n] = s[n]
          BY <3>1, <3>3
        <4> QED  BY <2>1, <3>1, <4>1 DEF Sums
      <3> QED  BY <3>2, <3>3
    <2>5. Sums(t, ring, k + 1)
      BY <2>3, <2>4 DEF Sums
    <2> QED  BY <1>0, <2>5
  <1>3. 0 .. R \subseteq S
    <2> HIDE DEF S
    <2> QED  BY <1>0, <1>1, <1>2, UpTo
  <1>4. PICK s : Sums(s, ring, R)
    BY <1>0, <1>3
  <1> DEFINE F(g) == [n \in 0 .. R |-> IF n = 0 THEN 0 ELSE g[n - 1] + Extra(ring[n - 1])]
             c == CHOOSE g : g = F(g)
             T == {n \in 0 .. R : c[n] = s[n]}
  <1>5. s = F(s)
    BY <1>0, <1>4 DEF Sums
  <1>6. c = F(c)
    <2> HIDE DEF F
    <2> QED  BY <1>5
  <1>7. Carried(ring) = c[R]
    BY DEF Carried, R
  <1> HIDE DEF c
  <1>8. 0 \in T /\ \A n \in 0 .. R - 1 : n \in T => n + 1 \in T
    <2>1. c[0] = 0 /\ \A n \in 0 .. R - 1 : c[n + 1] = c[n] + Extra(ring[n])
      BY <1>0, <1>6
    <2>2. s[0] = 0 /\ \A n \in 0 .. R - 1 : s[n + 1] = s[n] + Extra(ring[n])
      BY <1>0, <1>4 DEF Sums
    <2> QED  BY <1>0, <2>1, <2>2
  <1>9. 0 .. R \subseteq T
    <2> HIDE DEF T
    <2> QED  BY <1>0, <1>8, UpTo
  <1>10. c[R] = s[R]
    BY <1>0, <1>9
  <1> QED  BY <1>4, <1>7, <1>10 DEF R

\* The sum follows the one descriptor that changes.
LEMMA CarriedStep ==
  ASSUME NEW ring, NEW next, Payable(ring), Payable(next), NEW j \in 0 .. RspRing - 1,
         \A i \in 0 .. RspRing - 1 : i # j => Extra(next[i]) = Extra(ring[i])
  PROVE  /\ Carried(ring) \in Int /\ Carried(next) \in Int
         /\ Carried(next) = Carried(ring) + (Extra(next[j]) - Extra(ring[j]))
  <1> DEFINE R == RspRing
             x == Extra(next[j]) - Extra(ring[j])
             T(s, t) == {n \in 0 .. R : t[n] = s[n] + (IF n > j THEN x ELSE 0)}
  <1>1. PICK s : Sums(s, ring, R) /\ Carried(ring) = s[R]
    BY SumsExist
  <1>2. PICK t : Sums(t, next, R) /\ Carried(next) = t[R]
    BY SumsExist
  <1>3. R \in Nat /\ j \in 0 .. R - 1
    BY MscpAssumption
  <1>4. \A i \in 0 .. R - 1 : i # j => Extra(next[i]) = Extra(ring[i])
    OBVIOUS
  <1>5. Extra(next[j]) \in Int /\ Extra(ring[j]) \in Int /\ x \in Int
    BY DEF Payable
  <1> HIDE DEF R
  <1>6. 0 \in T(s, t)
    BY <1>1, <1>2, <1>3 DEF Sums
  <1>7. ASSUME NEW n \in 0 .. R - 1, n \in T(s, t) PROVE n + 1 \in T(s, t)
    <2>1. /\ s[n + 1] = s[n] + Extra(ring[n]) /\ t[n + 1] = t[n] + Extra(next[n])
          /\ s[n] \in Int /\ t[n] \in Int
      BY <1>1, <1>2, <1>3 DEF Sums
    <2>2. Extra(ring[n]) \in Int /\ Extra(next[n]) \in Int
      BY <1>3 DEF Payable, R
    <2>3. t[n] = s[n] + (IF n > j THEN x ELSE 0)
      BY <1>7
    <2>4. CASE n = j
      <3>1. t[n + 1] = s[n] + Extra(next[j]) /\ s[n + 1] = s[n] + Extra(ring[j])
        BY <1>3, <2>1, <2>3, <2>4
      <3>2. t[n + 1] = s[n + 1] + x
        BY <1>5, <2>1, <3>1
      <3> QED  BY <1>3, <2>4, <3>2
    <2>5. CASE n # j
      <3>1. Extra(next[n]) = Extra(ring[n]) /\ (n + 1 > j <=> n > j)
        BY <1>3, <1>4, <2>5
      <3>2. t[n + 1] = s[n + 1] + (IF n + 1 > j THEN x ELSE 0)
        BY <1>5, <2>1, <2>2, <2>3, <3>1
      <3> QED  BY <1>3, <3>2
    <2> QED  BY <2>4, <2>5
  <1>8. 0 .. R \subseteq T(s, t)
    <2> HIDE DEF T
    <2> QED  BY <1>3, <1>6, <1>7, UpTo
  <1>9. t[R] = s[R] + x /\ s[R] \in Int /\ t[R] \in Int
    BY <1>1, <1>2, <1>3, <1>8 DEF Sums
  <1> QED  BY <1>1, <1>2, <1>9

LEMMA CarriedNone ==
  ASSUME NEW ring, \A i \in 0 .. RspRing - 1 : Extra(ring[i]) = 0
  PROVE  Carried(ring) = 0
  <1>1. PICK s : Sums(s, ring, RspRing) /\ Carried(ring) = s[RspRing]
    BY SumsExist DEF Payable
  <1> DEFINE S == {n \in 0 .. RspRing : s[n] = 0}
  <1>2. RspRing \in Nat
    BY MscpAssumption
  <1>3. 0 \in S /\ \A n \in 0 .. RspRing - 1 : n \in S => n + 1 \in S
    BY <1>1, <1>2 DEF Sums
  <1>4. 0 .. RspRing \subseteq S
    <2> HIDE DEF S
    <2> QED  BY <1>2, <1>3, UpTo
  <1> QED  BY <1>1, <1>2, <1>4

LEMMA RingPayable == ASSUME NEW c, RingsTyped(c) PROVE Payable(c.rsp)
  BY DEF RingsTyped, Said, Tagged, Payable, Extra

LEMMA RingCarried == ASSUME NEW c, RingsTyped(c) PROVE Carried(c.rsp) \in Int
  <1>1. PICK s : Sums(s, c.rsp, RspRing) /\ Carried(c.rsp) = s[RspRing]
    BY RingPayable, SumsExist
  <1> QED  BY <1>1, MscpAssumption DEF Sums

\* The commands that the driver waits for can be counted.
LEMMA OutCounted ==
  ASSUME NEW g, DriverTyped(g)
  PROVE  IsFiniteSet(g.out) /\ Cardinality(g.out) \in Nat
  <1>1. g.ref - 1 \in Int /\ g.out \subseteq 1 .. g.ref - 1
    BY DEF DriverTyped
  <1>2. IsFiniteSet(1 .. g.ref - 1)
    BY <1>1, FS_Interval
  <1> QED  BY <1>1, <1>2, FS_Subset, FS_CardinalityType

-----------------------------------------------------------------------------
(* What a routine keeps *)

\* The commands are where they were.
LEMMA SamePlaces ==
  ASSUME NEW c, NEW d, NEW g, NEW h, Located(c, g), h.out = g.out,
         \A k \in Kinds, n \in Int : Ref(d, k, n) = Ref(c, k, n)
  PROVE  Located(d, h)
  BY DEF Located

\* The command at one place has moved to another, where there was none.
LEMMA MovedPlace ==
  ASSUME NEW c, NEW d, NEW g, Located(c, g),
         NEW k \in Kinds, NEW m \in Int, NEW l \in Kinds, NEW n \in Int, k # l,
         Ref(c, l, n) = 0, Ref(d, l, n) = Ref(c, k, m), Ref(d, k, m) = 0,
         \A j \in Kinds, i \in Int :
           ~(j = k /\ i = m) /\ ~(j = l /\ i = n) => Ref(d, j, i) = Ref(c, j, i)
  PROVE  Located(d, g)
  <1>1. \A j \in Kinds, i \in Int : Ref(d, j, i) \in g.out \cup {0}
    BY DEF Located
  <1>2. ASSUME NEW r \in g.out PROVE \E j \in Kinds, i \in Int : Ref(d, j, i) = r
    <2>1. PICK j \in Kinds, i \in Int : Ref(c, j, i) = r
      BY DEF Located
    <2>2. CASE j = k /\ i = m
      BY <2>1, <2>2
    <2>3. CASE j = l /\ i = n
      BY <2>1, <2>3
    <2> QED  BY <2>1, <2>2, <2>3
  <1>3. ASSUME NEW j1 \in Kinds, NEW j2 \in Kinds, NEW i1 \in Int, NEW i2 \in Int,
               Ref(d, j1, i1) = Ref(d, j2, i2), Ref(d, j1, i1) # 0
        PROVE  j1 = j2 /\ i1 = i2
    <2>1. ~(j1 = k /\ i1 = m) /\ ~(j2 = k /\ i2 = m)
      BY <1>3
    <2>2. \A a, b \in Kinds, x, y \in Int :
            Ref(c, a, x) = Ref(c, b, y) /\ Ref(c, a, x) # 0 => a = b /\ x = y
      BY DEF Located
    <2>3. CASE ~(j1 = l /\ i1 = n) /\ ~(j2 = l /\ i2 = n)
      BY <1>3, <2>1, <2>2, <2>3
    <2>4. CASE j1 = l /\ i1 = n /\ ~(j2 = l /\ i2 = n)
      <3>1. Ref(c, k, m) = Ref(c, j2, i2) /\ Ref(c, k, m) # 0
        BY <1>3, <2>1, <2>4
      <3> QED  BY <2>1, <2>2, <3>1
    <2>5. CASE j2 = l /\ i2 = n /\ ~(j1 = l /\ i1 = n)
      <3>1. Ref(c, j1, i1) = Ref(c, k, m) /\ Ref(c, j1, i1) # 0
        BY <1>3, <2>1, <2>5
      <3> QED  BY <2>1, <2>2, <3>1
    <2> QED  BY <2>3, <2>4, <2>5
  <1> QED  BY <1>1, <1>2, <1>3 DEF Located

\* A new command at a place where there was none.
LEMMA NewPlace ==
  ASSUME NEW c, NEW d, NEW g, NEW h, Located(c, g), NEW k \in Kinds, NEW m \in Int,
         NEW r, r # 0, r \notin g.out, 0 \notin g.out, h.out = g.out \cup {r},
         Ref(c, k, m) = 0, Ref(d, k, m) = r,
         \A j \in Kinds, i \in Int : ~(j = k /\ i = m) => Ref(d, j, i) = Ref(c, j, i)
  PROVE  Located(d, h)
  <1>1. \A j \in Kinds, i \in Int : Ref(c, j, i) # r
    BY DEF Located
  <1>2. \A j \in Kinds, i \in Int : Ref(d, j, i) \in h.out \cup {0}
    BY DEF Located
  <1>3. ASSUME NEW x \in h.out PROVE \E j \in Kinds, i \in Int : Ref(d, j, i) = x
    <2>1. CASE x = r
      BY <2>1
    <2>2. CASE x \in g.out
      <3>1. PICK j \in Kinds, i \in Int : Ref(c, j, i) = x
        BY <2>2 DEF Located
      <3>2. ~(j = k /\ i = m)
        BY <2>2, <3>1
      <3> QED  BY <3>1, <3>2
    <2> QED  BY <2>1, <2>2
  <1>4. \A j, l \in Kinds, i, n \in Int :
          Ref(d, j, i) = Ref(d, l, n) /\ Ref(d, j, i) # 0 => j = l /\ i = n
    BY <1>1 DEF Located
  <1> QED  BY <1>2, <1>3, <1>4 DEF Located

\* The command at a place is there no more, and not waited for.
LEMMA OldPlace ==
  ASSUME NEW c, NEW d, NEW g, NEW h, Located(c, g), NEW k \in Kinds, NEW m \in Int,
         NEW r, 0 \notin g.out, h.out = g.out \ {r}, Ref(c, k, m) = r, Ref(d, k, m) = 0,
         \A j \in Kinds, i \in Int : ~(j = k /\ i = m) => Ref(d, j, i) = Ref(c, j, i)
  PROVE  Located(d, h)
  <1>1. ASSUME NEW j \in Kinds, NEW i \in Int PROVE Ref(d, j, i) \in h.out \cup {0}
    <2>1. CASE j = k /\ i = m
      BY <2>1
    <2>2. CASE ~(j = k /\ i = m)
      <3>1. Ref(d, j, i) = Ref(c, j, i) /\ Ref(c, j, i) \in g.out \cup {0}
        BY <2>2 DEF Located
      <3>2. Ref(c, j, i) = r => r = 0
        BY <2>2 DEF Located
      <3> QED  BY <3>1, <3>2
    <2> QED  BY <2>1, <2>2
  <1>2. ASSUME NEW x \in h.out PROVE \E j \in Kinds, i \in Int : Ref(d, j, i) = x
    <2>1. PICK j \in Kinds, i \in Int : Ref(c, j, i) = x
      BY DEF Located
    <2>2. ~(j = k /\ i = m)
      BY <2>1
    <2> QED  BY <2>1, <2>2
  <1>3. ASSUME NEW j \in Kinds, NEW l \in Kinds, NEW i \in Int, NEW n \in Int,
               Ref(d, j, i) = Ref(d, l, n), Ref(d, j, i) # 0
        PROVE  j = l /\ i = n
    <2>1. ~(j = k /\ i = m) /\ ~(l = k /\ n = m)
      BY <1>3
    <2>2. Ref(d, j, i) = Ref(c, j, i) /\ Ref(d, l, n) = Ref(c, l, n)
      BY <2>1
    <2>3. \A a, b \in Kinds, x, y \in Int :
            Ref(c, a, x) = Ref(c, b, y) /\ Ref(c, a, x) # 0 => a = b /\ x = y
      BY DEF Located
    <2>4. Ref(c, j, i) = Ref(c, l, n) /\ Ref(c, j, i) # 0
      BY <1>3, <2>2
    <2> QED  BY <2>3, <2>4
  <1> QED  BY <1>1, <1>2, <1>3 DEF Located

\* d has the packets and the rings of c.
LEMMA PlacedSame ==
  ASSUME NEW c, NEW d, NEW g, NEW h, Placed(c, g), h.out = g.out, d.csta = c.csta,
         d.cmd = c.cmd, d.rsp = c.rsp, ToSet(d.freq) = ToSet(c.freq),
         d.credits = c.credits, h.credits = g.credits,
         \A p \in Packet : d.pak[p].ref = c.pak[p].ref
  PROVE  Placed(d, h)
  <1>1. \A k \in Kinds, n \in Int : Ref(d, k, n) = Ref(c, k, n)
    BY DEF Ref, Kinds
  <1> QED  BY <1>1, SamePlaces DEF Placed, Ok, Balanced

\* Two lists with a place for every packet together, that have every packet,
\* have none in common.
LEMMA Apart ==
  ASSUME NEW s \in Seq(Packet), NEW t \in Seq(Packet), Len(s) + Len(t) = NPkts - 1,
         Packet \subseteq ToSet(s) \cup ToSet(t)
  PROVE  ToSet(s) \cap ToSet(t) = {}
  <1> DEFINE v == s \o t
  <1>1. /\ v \in Seq(Packet) /\ Len(v) = Len(s) + Len(t)
        /\ ToSet(v) = ToSet(s) \cup ToSet(t)
    BY SetOfBoth
  <1>2. /\ Len(s) \in Nat /\ Len(t) \in Nat
        /\ \A i \in 1 .. Len(s) : v[i] = s[i]
        /\ \A i \in 1 .. Len(t) : v[Len(s) + i] = t[i]
    OBVIOUS
  <1> HIDE DEF v
  <1>3. ToSet(v) = Packet
    <2>1. ToSet(s) \subseteq Packet /\ ToSet(t) \subseteq Packet
      BY DEF ToSet
    <2> QED  BY <1>1, <2>1
  <1>4. \A i, j \in 1 .. Len(v) : v[i] = v[j] => i = j
    BY <1>1, <1>3, OnlyOnce
  <1>5. ASSUME NEW i \in 1 .. Len(s), NEW j \in 1 .. Len(t), s[i] = t[j] PROVE FALSE
    <2>1. i \in 1 .. Len(v) /\ Len(s) + j \in 1 .. Len(v) /\ Len(s) + j # i
      BY <1>1, <1>2
    <2> QED  BY <1>2, <1>4, <1>5, <2>1
  <1> QED  BY <1>5 DEF ToSet

\* The packet in hand is not free.
LEMMA InHand ==
  ASSUME NEW c, Wf(c), NEW p \in Packet, NEW b \in Packet \cup {0},
         Counted(c, p, b), Covered(c, p, b)
  PROVE  p \notin ToSet(c.freq)
  <1> DEFINE t == IF b = 0 THEN <<>> ELSE <<b>>
             h == <<p>> \o t
             v == Busy(c) \o h
  <1>1. t \in Seq(Packet) /\ Len(t) = One(b) /\ (b # 0 => b \in ToSet(t))
    <2>1. CASE b = 0
      BY <2>1 DEF One
    <2>2. CASE b # 0
      <3>1. b \in Packet /\ t = <<b>>
        BY <2>2
      <3>2. ToSet(<<b>>) = {b}
        BY DEF ToSet
      <3> QED  BY <2>2, <3>1, <3>2 DEF One
    <2> QED  BY <2>1, <2>2
  <1> HIDE DEF t
  <1>2. h \in Seq(Packet) /\ Len(h) = Len(t) + 1 /\ ToSet(h) = ToSet(t) \cup {p}
    BY <1>1, Pushed, SetOfPush
  <1> HIDE DEF h
  <1>3. /\ Busy(c) \in Seq(Packet) /\ Len(Busy(c)) = Len(c.rspq) + Total(c)
        /\ ToSet(Busy(c)) = {x \in Packet : Uses(c, 0, 0, x)}
        /\ Len(c.freq) \in Nat /\ Len(c.rspq) \in Nat /\ Total(c) \in Nat
        /\ c.freq \in Seq(Packet)
    BY BusySet, TotalNat DEF Wf
  <1>4. v \in Seq(Packet) /\ Len(v) = Len(Busy(c)) + Len(h) /\ ToSet(v) = ToSet(Busy(c)) \cup ToSet(h)
    BY <1>2, <1>3, SetOfBoth
  <1> HIDE DEF v
  <1>5. Len(c.freq) + Len(v) = NPkts - 1
    <2>1. One(p) = 1 /\ One(b) \in Nat /\ NPkts \in Nat
      BY MscpAssumption DEF One, Packet
    <2>2. /\ c.pbsy = Len(c.rspq) + Total(c) + 1 + One(b)
          /\ Len(c.freq) + c.pbsy = NPkts - 1
      BY <2>1 DEF Counted
    <2>3. PICK x \in Nat, y \in Nat, z \in Nat, o \in Nat :
            x = Len(c.freq) /\ y = Len(c.rspq) /\ z = Total(c) /\ o = One(b)
      BY <1>3, <2>1
    <2>4. Len(v) = y + z + (o + 1)
      BY <1>1, <1>2, <1>3, <1>4, <2>3
    <2>5. x + (y + z + 1 + o) = NPkts - 1
      BY <2>2, <2>3
    <2>6. x + (y + z + (o + 1)) = NPkts - 1
      BY <2>1, <2>5
    <2> QED  BY <2>3, <2>4, <2>6
  <1>6. Packet \subseteq ToSet(c.freq) \cup ToSet(v)
    BY <1>1, <1>2, <1>3, <1>4 DEF Covered, Uses
  <1>7. p \in ToSet(v)
    BY <1>2, <1>4
  <1> QED  BY <1>3, <1>4, <1>5, <1>6, <1>7, Apart

\* The first free packet is free once only.
LEMMA HeadAlone ==
  ASSUME NEW c, Wf(c), Counted(c, 0, 0), Covered(c, 0, 0), c.freq # <<>>
  PROVE  Head(c.freq) \notin ToSet(Tail(c.freq))
  <1> DEFINE p == Head(c.freq)
             t == Tail(c.freq)
             v == <<p>> \o Busy(c)
  <1>1. /\ c.freq \in Seq(Packet) /\ p \in Packet /\ t \in Seq(Packet)
        /\ ToSet(c.freq) = ToSet(t) \cup {p} /\ Len(t) = Len(c.freq) - 1
    BY Popped, SetOfPop DEF Wf
  <1>2. /\ Busy(c) \in Seq(Packet) /\ Len(c.freq) \in Nat /\ Len(Busy(c)) \in Nat
        /\ Len(c.freq) + Len(Busy(c)) = NPkts - 1
        /\ Packet \subseteq ToSet(c.freq) \cup ToSet(Busy(c))
    <2>1. /\ Len(c.freq \o Busy(c)) = NPkts - 1 /\ ToSet(c.freq \o Busy(c)) = Packet
          /\ Busy(c) \in Seq(Packet)
      BY AllOnce, BusySet
    <2> QED  BY <1>1, <2>1, SetOfBoth
  <1> HIDE DEF p, t
  <1>3. v \in Seq(Packet) /\ Len(v) = Len(Busy(c)) + 1 /\ ToSet(v) = ToSet(Busy(c)) \cup {p}
    BY <1>1, <1>2, Pushed, SetOfPush
  <1> HIDE DEF v
  <1>4. Len(t) + Len(v) = NPkts - 1 /\ Packet \subseteq ToSet(t) \cup ToSet(v)
    <2>1. PICK x \in Int, y \in Int, n \in Int : x = Len(c.freq) /\ y = Len(Busy(c)) /\ n = NPkts
      BY <1>2, MscpAssumption
    <2>2. x + y = n - 1
      BY <1>2, <2>1
    <2>3. (x - 1) + (y + 1) = n - 1
      BY <2>2
    <2> QED  BY <1>1, <1>2, <1>3, <2>1, <2>3
  <1>5. p \notin ToSet(t)
    BY <1>1, <1>3, <1>4, Apart
  <1> QED  BY <1>5 DEF p, t

\* d differs from c in nothing that Sound looks at, except what Wf types.
Alike(c, d) ==
  /\ Wf(d) /\ DOMAIN d = DOMAIN c
  /\ d.csta = c.csta /\ d.sa = c.sa /\ d.ci = c.ci /\ d.ri = c.ri
  /\ d.credits = c.credits /\ d.pbsy = c.pbsy /\ d.irq = c.irq /\ d.ton = c.ton
  /\ d.io = c.io /\ d.pak = c.pak /\ d.cmd = c.cmd /\ d.rsp = c.rsp /\ d.hat = c.hat
  /\ d.freq = c.freq /\ d.rspq = c.rspq /\ d.pktq = c.pktq /\ d.cpkt = c.cpkt

\* The lists are as they were.
LEMMA SameLists ==
  ASSUME NEW c, NEW d, NEW a, NEW b, d.freq = c.freq, d.rspq = c.rspq,
         d.pktq = c.pktq, d.cpkt = c.cpkt, d.pbsy = c.pbsy
  PROVE  /\ Counted(c, a, b) => Counted(d, a, b)
         /\ Covered(c, a, b) => Covered(d, a, b)
         /\ \A p : Uses(d, a, b, p) => Uses(c, a, b, p)
  <1>1. Total(d) = Total(c)
    BY TotalSame
  <1>2. \A p : Uses(d, a, b, p) <=> Uses(c, a, b, p)
    BY DEF Uses
  <1> QED  BY <1>1, <1>2 DEF Counted, Covered

LEMMA AlikeSound ==
  ASSUME NEW c, NEW d, NEW a, NEW b, NEW g, Sound(c, a, b, g), Alike(c, d)
  PROVE  Sound(d, a, b, g)
  <1>1. Typed(d)
    BY DEF Sound, Firm, Typed, RingsTyped, Alike
  <1>2. /\ Counted(d, a, b) /\ Covered(d, a, b)
        /\ \A p : Uses(d, a, b, p) => Uses(c, a, b, p)
    BY SameLists DEF Sound, Firm, Alike
  <1>3. Homed(d) /\ Quiet(d, a, b)
    BY <1>2 DEF Sound, Firm, Homed, Quiet, Alike
  <1>4. RingOk(d, g)
    BY DEF Sound, Firm, RingOk, Waiting, Ok, Alike
  <1>5. Placed(d, g)
    BY PlacedSame DEF Sound, Alike
  <1> QED  BY <1>1, <1>2, <1>3, <1>4, <1>5 DEF Sound, Firm

\* What rq_reset does not overwrite.
Startable(c) ==
  /\ Viewed \subseteq DOMAIN c /\ c.pkt \in Packet \cup {0}
  /\ c.io \in [Unit -> {"none", "ok", "bad"}]
  /\ RingsTyped(c)

LEMMA StartSound ==
  ASSUME NEW c, NEW g, Startable(c)
  PROVE  Sound(Reset(c), 0, 0, g) /\ Sound(Fatal(c), 0, 0, g)
  <1> DEFINE r == Reset(c)
             f == Fatal(c)
             all == [i \in 1 .. NPkts - 1 |-> i]
  <1>1. /\ DOMAIN r = DOMAIN c /\ r.csta = "S1" /\ r.sa = "S1"
        /\ r.freq = all /\ r.rspq = <<>> /\ r.pbsy = 0 /\ r.ci = 0 /\ r.ri = 0
        /\ r.credits = NPkts \div 2 - 1 /\ r.irq = FALSE /\ r.ton = FALSE
    BY DEF Reset, Startable, Viewed, Fields
  <1>2. /\ r.cpkt = [u \in Unit |-> 0] /\ r.pktq = [u \in Unit |-> <<>>]
        /\ r.pak = [p \in Packet |-> NoPacket]
        /\ r.io = c.io /\ r.cmd = c.cmd /\ r.rsp = c.rsp
    BY DEF Reset, Startable, Viewed, Fields
  <1>3. /\ DOMAIN f = DOMAIN r /\ f.csta = "DEAD" /\ f.sa = "error"
        /\ f.freq = r.freq /\ f.rspq = r.rspq /\ f.pbsy = r.pbsy /\ f.ci = r.ci /\ f.ri = r.ri
        /\ f.credits = r.credits /\ f.irq = r.irq /\ f.ton = r.ton
    BY <1>1 DEF Fatal, Startable, Viewed, Fields
  <1>4. /\ f.cpkt = r.cpkt /\ f.pktq = r.pktq /\ f.pak = r.pak
        /\ f.io = r.io /\ f.cmd = r.cmd /\ f.rsp = r.rsp
    BY <1>1 DEF Fatal, Startable, Viewed, Fields
  <1>5. Wf(r) /\ Wf(f)
    BY ResetIdle DEF Startable, Viewed
  <1> HIDE DEF r, f
  <1>6. Typed(r) /\ Typed(f)
    <2>1. NPkts \div 2 - 1 \in 0 .. NPkts \div 2 - 1
      BY MscpAssumption
    <2>2. 0 \in 0 .. CmdRing - 1 /\ 0 \in 0 .. RspRing - 1
      BY MscpAssumption
    <2>3. \A p \in Packet : Tagged(NoPacket)
      BY DEF Tagged, NoPacket
    <2>4. /\ Viewed \subseteq DOMAIN r /\ r.csta \in States /\ r.sa = "S1"
          /\ r.irq \in BOOLEAN /\ r.ton \in BOOLEAN
      BY <1>1 DEF Startable, States
    <2>5. /\ r.ci \in 0 .. CmdRing - 1 /\ r.ri \in 0 .. RspRing - 1 /\ r.pbsy \in Int
          /\ r.credits \in 0 .. NPkts \div 2 - 1
      BY <1>1, <2>1, <2>2
    <2>6. DOMAIN r.pak = Packet /\ \A p \in Packet : Tagged(r.pak[p])
      BY <1>2, <2>3
    <2>7. Typed(r)
      BY <1>1, <1>2, <1>5, <2>4, <2>5, <2>6 DEF Startable, RingsTyped, Typed
    <2> QED  BY <1>1, <1>3, <1>4, <1>5, <2>7 DEF Typed, RingsTyped, States
  <1>7. \A x \in {r, f} : Counted(x, 0, 0) /\ Covered(x, 0, 0)
    <2>1. Len(all) = NPkts - 1 /\ \A p \in Packet : all[p] = p /\ p \in DOMAIN all
      BY MscpAssumption DEF Packet
    <2> HIDE DEF all
    <2>2. \A p \in Packet : p \in ToSet(all)
      BY <2>1 DEF ToSet
    <2>4. Len(<<>>) = 0 /\ NPkts \in Nat
      BY MscpAssumption
    <2>6. \A x \in {r, f} : \A u \in Unit : x.cpkt[u] = 0 /\ x.pktq[u] = <<>>
      BY <1>2, <1>4
    <2>7. \A x \in {r, f} : \A u \in Unit : Load(x, u) = 0
      <3> TAKE x \in {r, f}
      <3> TAKE u \in Unit
      <3>1. Len(x.pktq[u]) = 0 /\ One(x.cpkt[u]) = 0
        BY <2>4, <2>6 DEF One
      <3> QED  BY <3>1 DEF Load
    <2>3. \A x \in {r, f} : Total(x) = 0
      BY <2>7 DEF Total, Unit
    <2>5. /\ \A x \in {r, f} : x.freq = all /\ x.rspq = <<>> /\ x.pbsy = 0
      BY <1>1, <1>3
    <2> QED  BY <2>1, <2>2, <2>3, <2>4, <2>5 DEF Counted, Covered, One
  <1>8. \A x \in {r, f} : Homed(x) /\ Quiet(x, 0, 0) /\ Placed(x, g)
    <2>1. ToSet(<<>>) = {}
      BY DEF ToSet
    <2>2. \A x \in {r, f} : \A p \in Packet : x.pak[p].ref = 0
      BY <1>2, <1>4 DEF NoPacket
    <2>3. \A x \in {r, f} : ~Ok(x) /\ x.rspq = <<>>
      BY <1>1, <1>3 DEF Ok
    <2> QED  BY <1>2, <1>4, <2>1, <2>2, <2>3 DEF Homed, Quiet, Placed
  <1>9. RingOk(r, g) /\ RingOk(f, g)
    BY <1>1, <1>3 DEF RingOk, Ok
  <1> QED  BY <1>6, <1>7, <1>8, <1>9 DEF Sound, Firm, r, f

LEMMA ResetSound ==
  ASSUME NEW c, NEW g, Typed(c)
  PROVE  Sound(Reset(c), 0, 0, g) /\ Sound(Fatal(c), 0, 0, g)
  <1>1. Startable(c)
    BY DEF Typed, Wf, Startable
  <1> QED  BY <1>1, StartSound

-----------------------------------------------------------------------------
(* The response ring *)

LEMMA RingIndex ==
  ASSUME NEW m \in Nat \ {0}, NEW x \in 0 .. m - 1
  PROVE  /\ (x + 1) % m = IF x + 1 = m THEN 0 ELSE x + 1
         /\ (x + m - 1) % m = IF x = 0 THEN m - 1 ELSE x - 1
  <1>1. \A y \in 0 .. m - 1 : y % m = y
    OBVIOUS
  <1>2. \A y \in 0 .. m - 1 : (y + m) % m = y
    <2> TAKE y \in 0 .. m - 1
    <2>1. /\ (y + m) % m \in 0 .. m - 1 /\ (y + m) \div m \in Int
          /\ y + m = m * ((y + m) \div m) + ((y + m) % m)
      OBVIOUS
    <2> DEFINE q == (y + m) \div m
               r == (y + m) % m
    <2>2. q \in Int /\ r \in 0 .. m - 1 /\ y + m = m * q + r
      BY <2>1
    <2> HIDE DEF q, r
    <2>3. q = 1
      <3>1. CASE q <= 0
        <4>1. m * q <= 0
          BY <2>2, <3>1
        <4> QED  BY <2>2, <4>1
      <3>2. CASE q >= 2
        <4>1. m * q >= m * 2
          BY <2>2, <3>2
        <4> QED  BY <2>2, <4>1
      <3> QED  BY <2>2, <3>1, <3>2
    <2>4. m * q = m
      BY <2>3
    <2>5. r = y
      BY <2>2, <2>4
    <2> QED  BY <2>5 DEF r
  <1>3. CASE x + 1 = m
    <2>1. 0 \in 0 .. m - 1 /\ x + 1 = 0 + m
      BY <1>3
    <2>2. (0 + m) % m = 0
      BY <1>2, <2>1
    <2> QED  BY <1>3, <2>1, <2>2
  <1>4. CASE x + 1 # m
    BY <1>1, <1>4
  <1>5. (x + m - 1) % m = IF x = 0 THEN m - 1 ELSE x - 1
    <2>1. CASE x = 0
      <3>1. x + m - 1 = m - 1 /\ m - 1 \in 0 .. m - 1
        BY <2>1
      <3> QED  BY <1>1, <2>1, <3>1
    <2>2. CASE x # 0
      <3>1. x + m - 1 = (x - 1) + m /\ x - 1 \in 0 .. m - 1
        BY <2>2
      <3>2. ((x - 1) + m) % m = x - 1
        BY <1>2, <3>1
      <3> QED  BY <2>2, <3>1, <3>2
    <2> QED  BY <2>1, <2>2
  <1>6. (x + 1) % m = IF x + 1 = m THEN 0 ELSE x + 1
    BY <1>3, <1>4
  <1> QED  BY <1>5, <1>6

LEMMA Wrapped ==
  ASSUME NEW h \in 0 .. RspRing - 1, NEW n \in 0 .. RspRing - 1
  PROVE  /\ Behind(h, n) \in 0 .. RspRing - 1 /\ Place(h, Behind(h, n)) = n
         /\ (Behind(h, n) + 1) % RspRing = Behind(h, n + 1)
         /\ \A i \in 0 .. RspRing - 1 :
              Place(h, i) >= n + 1 <=> Place(h, i) >= n /\ i # Behind(h, n)
         /\ RspRing # 1 => /\ (Behind(h, n) + RspRing - 1) % RspRing \in 0 .. RspRing - 1
                           /\ (Behind(h, n) + RspRing - 1) % RspRing # Behind(h, n)
  <1>1. RspRing \in Nat \ {0}
    BY MscpAssumption
  <1>2. Behind(h, n) \in 0 .. RspRing - 1
    BY <1>1 DEF Behind
  <1>3. /\ (Behind(h, n) + 1) % RspRing =
             IF Behind(h, n) + 1 = RspRing THEN 0 ELSE Behind(h, n) + 1
        /\ (Behind(h, n) + RspRing - 1) % RspRing =
             IF Behind(h, n) = 0 THEN RspRing - 1 ELSE Behind(h, n) - 1
    BY <1>1, <1>2, RingIndex
  <1>4. (Behind(h, n) + 1) % RspRing = Behind(h, n + 1)
    BY <1>1, <1>2, <1>3 DEF Behind
  <1>5. Place(h, Behind(h, n)) = n
    BY <1>1 DEF Behind, Place
  <1>6. \A i \in 0 .. RspRing - 1 :
          Place(h, i) >= n + 1 <=> Place(h, i) >= n /\ i # Behind(h, n)
    BY <1>1 DEF Behind, Place
  <1>7. RspRing # 1 => /\ (Behind(h, n) + RspRing - 1) % RspRing \in 0 .. RspRing - 1
                       /\ (Behind(h, n) + RspRing - 1) % RspRing # Behind(h, n)
    BY <1>1, <1>2, <1>3
  <1> QED  BY <1>2, <1>4, <1>5, <1>6, <1>7

\* A host that is interrupted is no worse off.
LEMMA InterruptFirm ==
  ASSUME NEW c, NEW a, NEW b, NEW g, Firm(c, a, b, g)
  PROVE  LET d == InitInt(c)
         IN  /\ Firm(d, a, b, g) /\ d.rsp = c.rsp /\ d.credits = c.credits
             /\ d.pak = c.pak /\ d.cmd = c.cmd /\ d.freq = c.freq
  <1> DEFINE d == InitInt(c)
  <1>1. Wf(d)
    BY DEF InitInt, Firm, Typed, Wf, Fields
  <1>2. /\ DOMAIN d = DOMAIN c /\ d.irq = TRUE
        /\ d.csta = c.csta /\ d.sa = c.sa /\ d.ci = c.ci /\ d.ri = c.ri
        /\ d.credits = c.credits /\ d.pbsy = c.pbsy /\ d.ton = c.ton
    BY DEF InitInt, Firm, Typed, Viewed
  <1>3. /\ d.io = c.io /\ d.pak = c.pak /\ d.cmd = c.cmd /\ d.rsp = c.rsp /\ d.hat = c.hat
        /\ d.freq = c.freq /\ d.rspq = c.rspq /\ d.pktq = c.pktq /\ d.cpkt = c.cpkt
    BY DEF InitInt, Firm, Typed, Viewed
  <1> HIDE DEF d
  <1>4. Typed(d)
    BY <1>1, <1>2, <1>3 DEF Firm, Typed, RingsTyped
  <1>5. /\ Counted(d, a, b) /\ Covered(d, a, b)
        /\ \A p : Uses(d, a, b, p) => Uses(c, a, b, p)
    BY <1>2, <1>3, SameLists DEF Firm
  <1>6. Homed(d) /\ Quiet(d, a, b)
    BY <1>3, <1>5 DEF Firm, Homed, Quiet
  <1>7. RingOk(d, g)
    BY <1>2, <1>3 DEF Firm, RingOk, Waiting, Ok
  <1> QED  BY <1>2, <1>3, <1>4, <1>5, <1>6, <1>7 DEF Firm, d

\* A response is put into the ring; the driver, if it sleeps on an empty
\* ring, is interrupted.
LEMMA ReturnRspFirm ==
  ASSUME NEW c, NEW a, NEW b, NEW g, Firm(c, a, b, g), DriverTyped(g), Ok(c),
         c.rsp[c.ri].own, NEW content, Tagged(content), Closed(content),
         content.end => content.arg \in Int
  PROVE  LET d == ReturnRsp(c, content)
         IN  /\ Firm(d, a, b, g) /\ d.rsp = [c.rsp EXCEPT ![c.ri] = Returned(content)]
             /\ d.pak = c.pak /\ d.cmd = c.cmd /\ d.freq = c.freq /\ d.credits = c.credits
  <1> DEFINE i0 == c.ri
             d == [c EXCEPT !.rsp[c.ri] = Returned(content), !.ri = (@ + 1) % RspRing]
             ring == [c.rsp EXCEPT ![i0].own = FALSE]
             prev == (i0 + RspRing - 1) % RspRing
             e == ReturnRsp(c, content)
  <1>1. Wf(d)
    BY DEF Firm, Typed, Wf, Fields
  <1>2. /\ DOMAIN d = DOMAIN c /\ d.ri = (i0 + 1) % RspRing
        /\ d.rsp = [c.rsp EXCEPT ![i0] = Returned(content)]
        /\ d.csta = c.csta /\ d.sa = c.sa /\ d.ci = c.ci /\ d.irq = c.irq
        /\ d.credits = c.credits /\ d.pbsy = c.pbsy /\ d.ton = c.ton
    BY DEF Firm, Typed, Viewed
  <1>3. /\ d.io = c.io /\ d.pak = c.pak /\ d.cmd = c.cmd /\ d.hat = c.hat
        /\ d.freq = c.freq /\ d.rspq = c.rspq /\ d.pktq = c.pktq /\ d.cpkt = c.cpkt
    BY DEF Firm, Typed, Viewed
  <1>4. e = IF RspRing = 1 \/ ring[prev].own THEN InitInt(d) ELSE d
    BY DEF ReturnRsp, RingInt, InitInt
  <1>5. /\ i0 \in 0 .. RspRing - 1 /\ DOMAIN c.rsp = 0 .. RspRing - 1
        /\ g.hr \in 0 .. RspRing - 1
    BY DEF Firm, Typed, RingsTyped, DriverTyped
  <1>6. PICK n \in 0 .. RspRing : Waiting(c, g, n)
    BY DEF Firm, RingOk
  <1>7. n \in 0 .. RspRing - 1 /\ i0 = Behind(g.hr, n)
    <2>1. c.rsp[i0].own /\ i0 = Behind(g.hr, n)
      BY <1>6 DEF Waiting
    <2>2. Place(g.hr, i0) >= n
      BY <1>5, <1>6, <2>1 DEF Waiting
    <2> HIDE DEF i0
    <2>3. Place(g.hr, i0) <= RspRing - 1
      BY <1>5, MscpAssumption DEF Place
    <2>4. n # RspRing
      <3>1. Place(g.hr, i0) \in Int /\ RspRing \in Nat
        BY <1>5, MscpAssumption DEF Place
      <3> QED  BY <2>2, <2>3, <3>1
    <2> QED  BY <2>1, <2>4, MscpAssumption
  <1> HIDE DEF d, e, i0
  <1>8. /\ (i0 + 1) % RspRing = Behind(g.hr, n + 1)
        /\ \A i \in 0 .. RspRing - 1 :
             Place(g.hr, i) >= n + 1 <=> Place(g.hr, i) >= n /\ i # i0
        /\ RspRing # 1 => prev \in 0 .. RspRing - 1 /\ prev # i0
    BY <1>5, <1>7, Wrapped
  <1>9. n = 0 => (RspRing = 1 \/ ring[prev].own)
    <2>1. ASSUME n = 0, RspRing # 1 PROVE ring[prev].own
      <3>1. prev \in DOMAIN c.rsp /\ prev # i0
        BY <1>5, <1>8, <2>1
      <3> HIDE DEF prev
      <3>2. ring[prev] = c.rsp[prev]
        BY <1>5, <3>1
      <3>3. Place(g.hr, prev) >= 0
        BY <1>5, <3>1, MscpAssumption DEF Place
      <3>4. c.rsp[prev].own
        BY <1>5, <1>6, <2>1, <3>1, <3>3 DEF Waiting
      <3> QED  BY <3>2, <3>4
    <2> QED  BY <2>1
  <1> HIDE DEF ring, prev
  <1>10. /\ \A i \in 0 .. RspRing - 1 : d.rsp[i].own <=> Place(g.hr, i) >= n + 1
         /\ DOMAIN d.rsp = 0 .. RspRing - 1
         /\ \A i \in 0 .. RspRing - 1 : "own" \in DOMAIN d.rsp[i] /\ d.rsp[i].own \in BOOLEAN
    <2>1. /\ d.rsp[i0] = Returned(content) /\ DOMAIN d.rsp = 0 .. RspRing - 1
          /\ \A i \in 0 .. RspRing - 1 : i # i0 => d.rsp[i] = c.rsp[i]
      BY <1>2, <1>5
    <2>2. Returned(content).own = FALSE /\ "own" \in DOMAIN Returned(content)
      BY DEF Returned
    <2>3. \A i \in 0 .. RspRing - 1 : "own" \in DOMAIN c.rsp[i] /\ c.rsp[i].own \in BOOLEAN
      BY DEF Firm, Typed, RingsTyped, Said
    <2>4. \A i \in 0 .. RspRing - 1 : c.rsp[i].own <=> Place(g.hr, i) >= n
      BY <1>6 DEF Waiting
    <2> QED  BY <1>8, <2>1, <2>2, <2>3, <2>4
  <1>11. Typed(d)
    <2>1. d.ri \in 0 .. RspRing - 1
      <3>1. (i0 + 1) % RspRing \in 0 .. RspRing - 1
        BY <1>5, MscpAssumption
      <3> QED  BY <1>2, <3>1
    <2>2. \A i \in 0 .. RspRing - 1 : Said(d.rsp[i])
      <3>1. /\ d.rsp[i0] = Returned(content)
            /\ \A i \in 0 .. RspRing - 1 : i # i0 => d.rsp[i] = c.rsp[i]
        BY <1>2, <1>5
      <3>2. Said(Returned(content))
        BY DEF Returned, Said
      <3> QED  BY <3>1, <3>2 DEF Firm, Typed, RingsTyped
    <2> QED  BY <1>1, <1>2, <1>3, <1>10, <2>1, <2>2 DEF Firm, Typed, RingsTyped
  <1>12. /\ Counted(d, a, b) /\ Covered(d, a, b)
         /\ \A p : Uses(d, a, b, p) => Uses(c, a, b, p)
    BY <1>2, <1>3, SameLists DEF Firm
  <1>13. Homed(d) /\ Quiet(d, a, b)
    BY <1>3, <1>12 DEF Firm, Homed, Quiet
  <1>14. CASE RspRing = 1 \/ ring[prev].own
    <2> DEFINE x == InitInt(d)
    <2>1. /\ DOMAIN x = DOMAIN d /\ x.irq = TRUE
          /\ x.csta = d.csta /\ x.sa = d.sa /\ x.ci = d.ci /\ x.ri = d.ri
          /\ x.credits = d.credits /\ x.pbsy = d.pbsy /\ x.ton = d.ton
      BY <1>11 DEF InitInt, Typed, Viewed
    <2>2. /\ x.io = d.io /\ x.pak = d.pak /\ x.cmd = d.cmd /\ x.rsp = d.rsp /\ x.hat = d.hat
          /\ x.freq = d.freq /\ x.rspq = d.rspq /\ x.pktq = d.pktq /\ x.cpkt = d.cpkt
      BY <1>11 DEF InitInt, Typed, Viewed
    <2>3. Wf(x)
      BY <1>11 DEF InitInt, Typed, Wf, Fields
    <2> HIDE DEF x
    <2>4. Typed(x)
      BY <1>11, <2>1, <2>2, <2>3 DEF Typed, RingsTyped
    <2>5. /\ Counted(x, a, b) /\ Covered(x, a, b)
          /\ \A p : Uses(x, a, b, p) => Uses(d, a, b, p)
      BY <1>12, <2>1, <2>2, SameLists
    <2>6. Homed(x) /\ Quiet(x, a, b)
      BY <1>13, <2>2, <2>5 DEF Homed, Quiet
    <2>7. Waiting(x, g, n + 1) /\ n + 1 \in 0 .. RspRing
      <3>1. n + 1 \in 0 .. RspRing
        BY <1>7, MscpAssumption
      <3> QED  BY <1>2, <1>8, <1>10, <2>1, <2>2, <3>1 DEF Waiting
    <2>8. RingOk(x, g)
      BY <2>7 DEF RingOk
    <2>9. Firm(x, a, b, g)
      BY <2>4, <2>5, <2>6, <2>8 DEF Firm
    <2> QED  BY <1>2, <1>3, <1>4, <1>14, <2>1, <2>2, <2>9 DEF x, e, i0
  <1>15. CASE ~(RspRing = 1 \/ ring[prev].own)
    <2>1. Waiting(d, g, n + 1) /\ n + 1 \in 0 .. RspRing
      <3>1. n + 1 \in 0 .. RspRing
        BY <1>7, MscpAssumption
      <3>2. g.awake \/ d.irq
        BY <1>2, <1>6, <1>9, <1>15 DEF Waiting
      <3> QED  BY <1>2, <1>8, <1>10, <3>1, <3>2 DEF Waiting
    <2>2. RingOk(d, g)
      BY <2>1 DEF RingOk
    <2>3. Firm(d, a, b, g)
      BY <1>11, <1>12, <1>13, <2>2 DEF Firm
    <2> QED  BY <1>2, <1>3, <1>4, <1>15, <2>3 DEF e, i0
  <1> QED  BY <1>14, <1>15

\* A command's descriptor goes back to the driver.
LEMMA ReturnCmdFirm ==
  ASSUME NEW c, NEW a, NEW b, NEW g, Firm(c, a, b, g)
  PROVE  LET d == ReturnCmd(c)
         IN  /\ Firm(d, a, b, g) /\ d.cmd = [c.cmd EXCEPT ![c.ci] = Returned(NoPacket)]
             /\ d.pak = c.pak /\ d.rsp = c.rsp /\ d.freq = c.freq /\ d.credits = c.credits
  <1> DEFINE d == [c EXCEPT !.cmd[c.ci] = Returned(NoPacket), !.ci = (@ + 1) % CmdRing]
  <1>1. Wf(d)
    BY DEF Firm, Typed, Wf, Fields
  <1>2. /\ DOMAIN d = DOMAIN c /\ d.ci = (c.ci + 1) % CmdRing
        /\ d.cmd = [c.cmd EXCEPT ![c.ci] = Returned(NoPacket)]
        /\ d.csta = c.csta /\ d.sa = c.sa /\ d.ri = c.ri /\ d.irq = c.irq
        /\ d.credits = c.credits /\ d.pbsy = c.pbsy /\ d.ton = c.ton
    BY DEF Firm, Typed, Viewed
  <1>3. /\ d.io = c.io /\ d.pak = c.pak /\ d.rsp = c.rsp /\ d.hat = c.hat
        /\ d.freq = c.freq /\ d.rspq = c.rspq /\ d.pktq = c.pktq /\ d.cpkt = c.cpkt
    BY DEF Firm, Typed, Viewed
  <1>4. ReturnCmd(c) = d \/ ReturnCmd(c) = InitInt(d)
    BY DEF ReturnCmd, RingInt, InitInt
  <1> HIDE DEF d
  <1>5. Typed(d)
    <2>1. c.ci \in 0 .. CmdRing - 1 /\ CmdRing \in Nat \ {0}
      BY MscpAssumption DEF Firm, Typed
    <2>2. d.ci \in 0 .. CmdRing - 1
      BY <1>2, <2>1
    <2>3. Asked(Returned(NoPacket))
      BY DEF Returned, Tagged, NoPacket, Asked
    <2>4. DOMAIN c.cmd = 0 .. CmdRing - 1 /\ \A i \in 0 .. CmdRing - 1 : Asked(c.cmd[i])
      BY DEF Firm, Typed, RingsTyped
    <2>5. /\ DOMAIN d.cmd = 0 .. CmdRing - 1
          /\ \A i \in 0 .. CmdRing - 1 : d.cmd[i] \in {c.cmd[i], Returned(NoPacket)}
      BY <1>2, <2>1, <2>4
    <2>6. \A i \in 0 .. CmdRing - 1 : Asked(d.cmd[i])
      BY <2>3, <2>4, <2>5
    <2> QED  BY <1>1, <1>2, <1>3, <2>2, <2>5, <2>6 DEF Firm, Typed, RingsTyped
  <1>6. /\ Counted(d, a, b) /\ Covered(d, a, b)
        /\ \A p : Uses(d, a, b, p) => Uses(c, a, b, p)
    BY <1>2, <1>3, SameLists DEF Firm
  <1>7. Homed(d) /\ Quiet(d, a, b)
    BY <1>3, <1>6 DEF Firm, Homed, Quiet
  <1>8. RingOk(d, g)
    BY <1>2, <1>3 DEF Firm, RingOk, Waiting, Ok
  <1>9. Firm(d, a, b, g)
    BY <1>5, <1>6, <1>7, <1>8 DEF Firm
  <1>10. LET x == InitInt(d)
         IN  /\ Firm(x, a, b, g) /\ x.rsp = d.rsp /\ x.credits = d.credits
             /\ x.pak = d.pak /\ x.cmd = d.cmd /\ x.freq = d.freq
    BY <1>9, InterruptFirm
  <1> QED  BY <1>2, <1>3, <1>4, <1>9, <1>10

-----------------------------------------------------------------------------
(* The routines that send a packet *)

LEMMA AnswerSound ==
  ASSUME NEW c, NEW a, NEW b, NEW g, Sound(c, a, b, g), NEW p \in Packet,
         c.pak[p].ref # 0, NEW sts
  PROVE  LET d == Answer(c, p, sts)
         IN  /\ Sound(d, a, b, g) /\ Same(c, d) /\ Closed(d.pak[p])
             /\ \A x \in Packet : d.pak[x].ref = c.pak[x].ref
  <1> DEFINE d == Answer(c, p, sts)
             k == [c.pak[p] EXCEPT !.typ = "seq", !.end = TRUE, !.sts = sts]
  <1>1. Wf(d) /\ Same(c, d)
    BY DEF Answer, Sound, Firm, Typed, Wf, Fields, Same, Kept
  <1>2. /\ DOMAIN d = DOMAIN c /\ d.pak = [c.pak EXCEPT ![p] = k]
        /\ d.csta = c.csta /\ d.sa = c.sa /\ d.ci = c.ci /\ d.ri = c.ri /\ d.irq = c.irq
        /\ d.credits = c.credits /\ d.pbsy = c.pbsy /\ d.ton = c.ton
    BY DEF Answer, Sound, Firm, Typed, Viewed
  <1>3. /\ d.io = c.io /\ d.cmd = c.cmd /\ d.rsp = c.rsp /\ d.hat = c.hat
        /\ d.freq = c.freq /\ d.rspq = c.rspq /\ d.pktq = c.pktq /\ d.cpkt = c.cpkt
    BY DEF Answer, Sound, Firm, Typed, Viewed
  <1>4. Tagged(c.pak[p]) /\ DOMAIN c.pak = Packet /\ \A x \in Packet : Tagged(c.pak[x])
    BY DEF Sound, Firm, Typed
  <1>5. k.ref = c.pak[p].ref /\ k.unit = c.pak[p].unit /\ Tagged(k) /\ Closed(k)
    BY <1>4 DEF Tagged, Closed
  <1> HIDE DEF d, k
  <1>6. /\ DOMAIN d.pak = Packet
        /\ \A x \in Packet : /\ Tagged(d.pak[x]) /\ d.pak[x].ref = c.pak[x].ref
                             /\ d.pak[x].unit = c.pak[x].unit
                             /\ Closed(c.pak[x]) => Closed(d.pak[x])
        /\ Closed(d.pak[p])
    BY <1>2, <1>4, <1>5
  <1>7. Typed(d)
    BY <1>1, <1>2, <1>3, <1>6 DEF Sound, Firm, Typed, RingsTyped
  <1>8. /\ Counted(d, a, b) /\ Covered(d, a, b)
        /\ \A x : Uses(d, a, b, x) => Uses(c, a, b, x)
    BY <1>2, <1>3, SameLists DEF Sound, Firm
  <1>9. Homed(d)
    <2>1. /\ ToSet(c.rspq) \subseteq Packet /\ \A u \in Unit : ToSet(c.pktq[u]) \subseteq Packet
          /\ \A u \in Unit : c.cpkt[u] \in Packet \cup {0}
      BY <1>1 DEF Sound, Firm, Typed, Wf, ToSet
    <2> QED  BY <1>3, <1>6, <2>1 DEF Sound, Firm, Homed
  <1>10. Quiet(d, a, b)
    BY <1>3, <1>6, <1>8 DEF Sound, Firm, Quiet
  <1>11. RingOk(d, g)
    BY <1>2, <1>3 DEF Sound, Firm, RingOk, Waiting, Ok
  <1>12. Placed(d, g)
    BY <1>2, <1>3, <1>6, PlacedSame DEF Sound
  <1> QED  BY <1>1, <1>6, <1>7, <1>8, <1>9, <1>10, <1>11, <1>12 DEF Sound, Firm, d

\* With one packet in use, the one in hand, nothing else is in use.
LEMMA LastOne ==
  ASSUME NEW c, Wf(c), NEW p \in Packet, NEW b, Counted(c, p, b), c.pbsy = 1
  PROVE  c.rspq = <<>> /\ b = 0 /\ \A u \in Unit : c.cpkt[u] = 0 /\ c.pktq[u] = <<>>
  <1>1. p # 0 /\ One(p) = 1
    BY DEF Packet, One
  <1>2. Len(c.rspq) \in Nat /\ One(b) \in Nat /\ \A u \in Unit : Load(c, u) \in Nat
    BY BusySet, LoadNat DEF One
  <1>3. Len(c.rspq) + Total(c) + 1 + One(b) = 1
    BY <1>1 DEF Counted
  <1>4. Len(c.rspq) = 0 /\ One(b) = 0 /\ \A u \in Unit : Load(c, u) = 0
    <2>1. Total(c) = Load(c, 0) + Load(c, 1) + Load(c, 2) + Load(c, 3)
      BY DEF Total
    <2>2. /\ Load(c, 0) \in Nat /\ Load(c, 1) \in Nat /\ Load(c, 2) \in Nat
          /\ Load(c, 3) \in Nat
      BY <1>2 DEF Unit
    <2>3. Total(c) = 0 /\ Total(c) \in Nat /\ Len(c.rspq) = 0 /\ One(b) = 0
      <3>1. PICK t \in Nat : t = Total(c)
        BY <2>1, <2>2
      <3>2. PICK l \in Nat : l = Len(c.rspq)
        BY <1>2
      <3>3. PICK o \in Nat : o = One(b)
        BY <1>2
      <3>4. l + t + 1 + o = 1
        BY <1>3, <3>1, <3>2, <3>3
      <3>5. l = 0 /\ t = 0 /\ o = 0
        BY <3>4
      <3> QED  BY <3>1, <3>2, <3>3, <3>5
    <2>4. Load(c, 0) = 0 /\ Load(c, 1) = 0 /\ Load(c, 2) = 0 /\ Load(c, 3) = 0
      BY <2>1, <2>2, <2>3
    <2> QED  BY <2>3, <2>4 DEF Unit
  <1>5. ASSUME NEW u \in Unit PROVE c.cpkt[u] = 0 /\ c.pktq[u] = <<>>
    <2>1. c.pktq[u] \in Seq(Packet) /\ Len(c.pktq[u]) \in Nat /\ One(c.cpkt[u]) \in Nat
      BY DEF Wf, One
    <2>2. Len(c.pktq[u]) = 0 /\ One(c.cpkt[u]) = 0
      BY <1>4, <2>1 DEF Load
    <2> QED  BY <2>1, <2>2 DEF One
  <1>6. c.rspq \in Seq(Packet)
    BY DEF Wf
  <1>7. c.rspq = <<>> /\ b = 0
    BY <1>4, <1>6 DEF One
  <1> QED  BY <1>5, <1>7

\* rq_putpkt: the packet in hand is queued, or in the ring and free again.
LEMMA PutPktSound ==
  ASSUME NEW c, NEW p \in Packet, NEW b \in Packet \cup {0}, NEW g, Sound(c, p, b, g),
         DriverTyped(g), Ok(c), Closed(c.pak[p]), NEW qt \in BOOLEAN
  PROVE  LET d == PutPkt(c, p, qt) IN Sound(d, 0, b, g) /\ Kept(c, d) /\ d.pak = c.pak
  <1> DEFINE z == PutPkt(c, p, qt)
  <1>1. Typed(c) /\ Wf(c) /\ p # 0 /\ One(p) = 1 /\ One(0) = 0 /\ 0 \notin Packet
    BY DEF Sound, Firm, Typed, Packet, One
  <1>2. CASE ~c.rsp[c.ri].own
    <2> DEFINE q == IF qt THEN Append(c.rspq, p) ELSE <<p>> \o c.rspq
               d == [c EXCEPT !.rspq = q, !.qon = TRUE]
    <2>1. q \in Seq(Packet) /\ ToSet(q) = ToSet(c.rspq) \cup {p} /\ Len(q) = Len(c.rspq) + 1
      BY <1>1, Pushed, SetOfPush DEF Wf
    <2>2. z = d
      BY <1>1, <1>2 DEF PutPkt, Wf, Fields
    <2> HIDE DEF q, z
    <2>3. Kept(c, d) /\ Wf(d)
      BY <1>1, <2>1 DEF Kept, Wf, Fields
    <2>4. /\ DOMAIN d = DOMAIN c /\ d.rspq = q
          /\ d.csta = c.csta /\ d.sa = c.sa /\ d.ci = c.ci /\ d.ri = c.ri /\ d.irq = c.irq
          /\ d.credits = c.credits /\ d.pbsy = c.pbsy /\ d.ton = c.ton
      BY <1>1 DEF Typed, Viewed, Fields
    <2>5. /\ d.io = c.io /\ d.pak = c.pak /\ d.cmd = c.cmd /\ d.rsp = c.rsp /\ d.hat = c.hat
          /\ d.freq = c.freq /\ d.pktq = c.pktq /\ d.cpkt = c.cpkt
      BY <1>1 DEF Typed, Viewed, Fields
    <2> HIDE DEF d
    <2>6. Typed(d)
      BY <1>1, <2>3, <2>4, <2>5 DEF Typed, RingsTyped
    <2>7. Counted(d, 0, b)
      <3>1. Total(d) = Total(c) /\ Total(c) \in Nat /\ Len(c.rspq) \in Nat
        BY <1>1, <2>5, TotalSame, TotalNat, BusySet
      <3>2. One(b) \in Nat
        BY DEF One
      <3>3. /\ c.pbsy = Len(c.rspq) + Total(c) + 1 + One(b) /\ Len(c.freq) + c.pbsy = NPkts - 1
        BY <1>1 DEF Sound, Firm, Counted
      <3>4. c.pbsy = (Len(c.rspq) + 1) + Total(c) + 0 + One(b)
        BY <3>1, <3>2, <3>3
      <3> QED  BY <1>1, <2>1, <2>4, <2>5, <3>1, <3>3, <3>4 DEF Counted
    <2>8. \A x \in Packet : Uses(d, 0, b, x) <=> Uses(c, p, b, x)
      BY <1>1, <2>1, <2>4, <2>5 DEF Uses
    <2>9. Covered(d, 0, b) /\ Homed(d) /\ Quiet(d, 0, b)
      BY <2>1, <2>4, <2>5, <2>8 DEF Sound, Firm, Covered, Homed, Quiet
    <2>10. RingOk(d, g)
      BY <2>4, <2>5 DEF Sound, Firm, RingOk, Waiting, Ok
    <2>11. Placed(d, g)
      BY <2>4, <2>5, PlacedSame DEF Sound
    <2> QED  BY <2>2, <2>3, <2>5, <2>6, <2>7, <2>9, <2>10, <2>11 DEF Sound, Firm, z
  <1>3. CASE c.rsp[c.ri].own
    <2> DEFINE cr == Cr(c, p)
               h == IF c.pbsy = 1 THEN c.htmo ELSE c.hat
               f == <<p>> \o c.freq
               d == [c EXCEPT !.credits = @ - cr, !.freq = f, !.pbsy = @ - 1, !.hat = h]
               answer == [c.pak[p] EXCEPT !.arg =
                            IF c.pak[p].typ = "seq" /\ c.pak[p].end THEN cr + 1 ELSE 0]
    <2>1. z = ReturnRsp(d, answer)
      BY <1>1, <1>3, OfOne DEF PutPkt, The, Typed, Viewed, Fields
    <2>2. cr \in 0 .. c.credits /\ c.credits \in 0 .. NPkts \div 2 - 1
      BY <1>1, MscpAssumption DEF Cr, Typed
    <2>3. f \in Seq(Packet) /\ ToSet(f) = ToSet(c.freq) \cup {p} /\ Len(f) = Len(c.freq) + 1
      BY <1>1, Pushed, SetOfPush DEF Wf
    <2> HIDE DEF cr, f, h, answer, z
    <2>4. Kept(c, d) /\ Wf(d)
      BY <1>1, <2>3 DEF Kept, Wf, Fields
    <2>5. /\ DOMAIN d = DOMAIN c /\ d.freq = f /\ d.pbsy = c.pbsy - 1 /\ d.hat = h
          /\ d.credits = c.credits - cr
          /\ d.csta = c.csta /\ d.sa = c.sa /\ d.ci = c.ci /\ d.ri = c.ri /\ d.irq = c.irq
          /\ d.ton = c.ton
      BY <1>1 DEF Typed, Viewed, Fields
    <2>6. /\ d.io = c.io /\ d.pak = c.pak /\ d.cmd = c.cmd /\ d.rsp = c.rsp
          /\ d.rspq = c.rspq /\ d.pktq = c.pktq /\ d.cpkt = c.cpkt
      BY <1>1 DEF Typed, Viewed, Fields
    <2> HIDE DEF d
    <2>7. Typed(d)
      <3>1. d.credits \in 0 .. NPkts \div 2 - 1
        <4>1. NPkts \div 2 \in Nat
          BY MscpAssumption
        <4> QED  BY <2>2, <2>5, <4>1
      <3>2. d.pbsy \in Int
        BY <1>1, <2>5 DEF Typed
      <3> QED  BY <1>1, <2>4, <2>5, <2>6, <3>1, <3>2 DEF Typed, RingsTyped
    <2>8. Counted(d, 0, b)
      <3>1. Total(d) = Total(c) /\ Total(c) \in Nat /\ Len(c.rspq) \in Nat /\ Len(c.freq) \in Nat
        BY <1>1, <2>6, TotalSame, TotalNat, BusySet
      <3>2. One(b) \in Nat /\ NPkts \in Nat
        BY MscpAssumption DEF One
      <3>3. /\ c.pbsy = Len(c.rspq) + Total(c) + 1 + One(b) /\ Len(c.freq) + c.pbsy = NPkts - 1
        BY <1>1 DEF Sound, Firm, Counted
      <3>4. /\ c.pbsy - 1 = Len(c.rspq) + Total(c) + 0 + One(b)
            /\ (Len(c.freq) + 1) + (c.pbsy - 1) = NPkts - 1
        <4>1. c.pbsy \in Int
          BY <1>1 DEF Typed
        <4>2. PICK x \in Int : x = c.pbsy
          BY <4>1
        <4>3. PICK r \in Int, t \in Int, o \in Int, m \in Int, n \in Int :
                r = Len(c.rspq) /\ t = Total(c) /\ o = One(b) /\ m = Len(c.freq) /\ n = NPkts
          BY <3>1, <3>2
        <4>4. x = r + t + 1 + o /\ m + x = n - 1
          BY <3>3, <4>2, <4>3
        <4>5. x - 1 = r + t + 0 + o /\ (m + 1) + (x - 1) = n - 1
          BY <4>4
        <4> QED  BY <4>2, <4>3, <4>5
      <3> QED  BY <1>1, <2>3, <2>5, <2>6, <3>1, <3>4 DEF Counted
    <2>9. \A x \in Packet : /\ Uses(d, 0, b, x) => Uses(c, p, b, x)
                            /\ Uses(c, p, b, x) => Uses(d, 0, b, x) \/ x = p
      BY <1>1, <2>6 DEF Uses
    <2>10. Covered(d, 0, b) /\ Homed(d)
      BY <2>3, <2>5, <2>6, <2>9 DEF Sound, Firm, Covered, Homed
    <2>11. Quiet(d, 0, b)
      <3>1. CASE c.pbsy = 1
        <4>1. c.rspq = <<>> /\ b = 0 /\ \A u \in Unit : c.cpkt[u] = 0 /\ c.pktq[u] = <<>>
          BY <1>1, <3>1, LastOne DEF Sound, Firm
        <4>2. ToSet(<<>>) = {}
          BY DEF ToSet
        <4>3. \A x \in Packet : ~Uses(d, 0, b, x)
          BY <1>1, <2>6, <4>1, <4>2 DEF Uses
        <4> QED  BY <4>3 DEF Quiet
      <3>2. CASE c.pbsy # 1
        BY <2>5, <2>6, <2>9, <3>2 DEF Sound, Firm, Quiet, h
      <3> QED  BY <3>1, <3>2
    <2>12. RingOk(d, g)
      BY <2>5, <2>6 DEF Sound, Firm, RingOk, Waiting, Ok
    <2>13. Firm(d, 0, b, g) /\ Ok(d) /\ d.rsp[d.ri].own
      BY <1>3, <2>5, <2>6, <2>7, <2>8, <2>10, <2>11, <2>12 DEF Firm, Ok
    <2>14. /\ Tagged(answer) /\ Closed(answer) /\ answer.ref = c.pak[p].ref
           /\ answer.end => answer.arg = cr + 1
           /\ ~answer.end => cr = 0
      <3>1. Tagged(c.pak[p])
        BY <1>1 DEF Typed
      <3>2. Tagged(answer) /\ Closed(answer) /\ answer.ref = c.pak[p].ref
        BY <3>1 DEF answer, Tagged, Closed
      <3>3. answer.end <=> c.pak[p].typ = "seq" /\ c.pak[p].end
        BY <3>1 DEF answer, Tagged, Closed
      <3>4. ~answer.end => cr = 0
        BY <3>3 DEF cr, Cr
      <3>5. answer.end => answer.arg = cr + 1
        BY <3>1, <3>3 DEF answer, Tagged
      <3> QED  BY <3>2, <3>4, <3>5
    <2>15. /\ Firm(z, 0, b, g) /\ Same(d, z)
           /\ z.rsp = [c.rsp EXCEPT ![c.ri] = Returned(answer)]
           /\ z.pak = c.pak /\ z.cmd = c.cmd /\ z.freq = f /\ z.credits = c.credits - cr
      <3>1. answer.end => answer.arg \in Int
        BY <2>2, <2>14
      <3> QED  BY <3>1, <2>1, <2>4, <2>5, <2>6, <2>13, <2>14, ReturnRspFirm, ReturnSame
    <2>16. Located(z, g)
      <3>1. /\ c.ri \in 0 .. RspRing - 1 /\ DOMAIN c.rsp = 0 .. RspRing - 1
            /\ p \notin ToSet(c.freq)
        BY <1>1, InHand DEF Sound, Firm, Typed, RingsTyped
      <3>2. /\ z.rsp[c.ri] = Returned(answer)
            /\ \A i \in 0 .. RspRing - 1 : i # c.ri => z.rsp[i] = c.rsp[i]
        BY <2>15, <3>1
      <3>3. ~z.rsp[c.ri].own /\ z.rsp[c.ri].d.ref = c.pak[p].ref
        BY <2>14, <3>2 DEF Returned
      <3>4. /\ Ref(c, "rsp", c.ri) = 0 /\ Ref(z, "rsp", c.ri) = Ref(c, "pak", p)
            /\ Ref(z, "pak", p) = 0
        BY <1>3, <2>3, <2>15, <3>1, <3>3 DEF Ref
      <3>5. /\ \A i \in Int : Ref(z, "cmd", i) = Ref(c, "cmd", i)
            /\ \A i \in Int : i # p => Ref(z, "pak", i) = Ref(c, "pak", i)
            /\ \A i \in Int : i # c.ri => Ref(z, "rsp", i) = Ref(c, "rsp", i)
        BY <2>3, <2>15, <3>2 DEF Ref
      <3>6. p \in Int /\ c.ri \in Int /\ Located(c, g)
        BY <3>1 DEF Packet, Sound, Placed
      <3> QED  BY <3>4, <3>5, <3>6, MovedPlace DEF Kinds
    <2>18. Balanced(z, g)
      <3> DEFINE j == c.ri
      <3>1. j \in 0 .. RspRing - 1 /\ DOMAIN c.rsp = 0 .. RspRing - 1
        BY <1>1 DEF Typed, RingsTyped
      <3>2. /\ z.rsp[j] = Returned(answer)
            /\ \A i \in 0 .. RspRing - 1 : i # j => z.rsp[i] = c.rsp[i]
        BY <2>15, <3>1
      <3>3. Payable(c.rsp) /\ Payable(z.rsp)
        BY <1>1, <2>15, RingPayable DEF Firm, Typed
      <3>4. Extra(c.rsp[j]) = 0
        BY <1>3 DEF Extra
      <3>5. Extra(z.rsp[j]) = cr
        <4>1. ~z.rsp[j].own /\ z.rsp[j].d = answer
          BY <3>2 DEF Returned
        <4> QED  BY <2>2, <2>14, <4>1 DEF Extra
      <3> HIDE DEF j
      <3>6. /\ Carried(c.rsp) \in Int /\ Carried(z.rsp) \in Int
            /\ Carried(z.rsp) = Carried(c.rsp) + (cr - 0)
        BY <3>1, <3>2, <3>3, <3>4, <3>5, CarriedStep
      <3>7. g.credits \in Int /\ Cardinality(g.out) \in Int
        BY OutCounted DEF DriverTyped
      <3>8. c.credits + Carried(c.rsp) + g.credits + Cardinality(g.out) = NPkts \div 2
        BY DEF Sound, Placed, Balanced
      <3>9. z.credits = c.credits - cr /\ c.credits \in Int /\ cr \in Int
        BY <2>2, <2>15
      <3>10. PICK x \in Int, y \in Int, v \in Int, w \in Int, m \in Int :
               /\ x = c.credits /\ y = Carried(c.rsp) /\ v = g.credits
               /\ w = Cardinality(g.out) /\ m = cr
        BY <3>6, <3>7, <3>9
      <3>11. (x - m) + (y + (m - 0)) + v + w = x + y + v + w
        BY <3>10
      <3> QED  BY <3>6, <3>8, <3>9, <3>10, <3>11 DEF Balanced
    <2>17. Placed(z, g)
      BY <2>4, <2>15, <2>16, <2>18 DEF Placed, Same, Kept, Ok
    <2> QED  BY <2>4, <2>15, <2>17 DEF Sound, Same, Kept, z
  <1> QED  BY <1>2, <1>3

LEMMA RespondSound ==
  ASSUME NEW c, NEW p \in Packet, NEW b \in Packet \cup {0}, NEW g, Sound(c, p, b, g),
         DriverTyped(g), Ok(c), c.pak[p].ref # 0, NEW sts
  PROVE  LET d == Respond(c, p, sts)
         IN  /\ Sound(d, 0, b, g) /\ Kept(c, d)
             /\ \A x \in Packet : d.pak[x].ref = c.pak[x].ref
  <1> DEFINE d == Answer(c, p, sts)
  <1>1. /\ Sound(d, p, b, g) /\ Same(c, d) /\ Closed(d.pak[p])
        /\ \A x \in Packet : d.pak[x].ref = c.pak[x].ref
    BY AnswerSound
  <1>2. Respond(c, p, sts) = PutPkt(d, p, TRUE)
    BY OfOne DEF Respond, The
  <1> HIDE DEF d
  <1>3. Ok(d) /\ TRUE \in BOOLEAN
    BY <1>1 DEF Same, Kept, Ok
  <1>4. /\ Sound(PutPkt(d, p, TRUE), 0, b, g) /\ Kept(d, PutPkt(d, p, TRUE))
        /\ PutPkt(d, p, TRUE).pak = d.pak
    BY <1>1, <1>3, PutPktSound
  <1> QED  BY <1>1, <1>2, <1>4 DEF Same, Kept

\* The first free packet is taken in hand and filled with k: d is c with it.
Taken(c, d, k) ==
  /\ Wf(d) /\ DOMAIN d = DOMAIN c
  /\ d.freq = Tail(c.freq) /\ d.pbsy = c.pbsy + 1
  /\ d.pak = [c.pak EXCEPT ![Head(c.freq)] = k]
  /\ d.hat = 0 \/ (d.hat = c.hat /\ k.ref = 0)
  /\ d.csta = c.csta /\ d.sa = c.sa /\ d.ci = c.ci /\ d.ri = c.ri /\ d.irq = c.irq
  /\ d.credits = c.credits /\ d.ton = c.ton /\ d.io = c.io /\ d.cmd = c.cmd
  /\ d.rsp = c.rsp /\ d.rspq = c.rspq /\ d.pktq = c.pktq /\ d.cpkt = c.cpkt

LEMMA TakenFirm ==
  ASSUME NEW c, NEW d, NEW k, NEW g, Firm(c, 0, 0, g), c.freq # <<>>, Tagged(k),
         Taken(c, d, k)
  PROVE  Firm(d, Head(c.freq), 0, g)
  <1> DEFINE p == Head(c.freq)
  <1>1. Typed(c) /\ Wf(c) /\ 0 \notin Packet
    BY DEF Firm, Typed, Packet
  <1>2. /\ p \in Packet /\ p # 0 /\ Tail(c.freq) \in Seq(Packet)
        /\ ToSet(c.freq) = ToSet(Tail(c.freq)) \cup {p} /\ Len(Tail(c.freq)) = Len(c.freq) - 1
    BY <1>1, Popped, SetOfPop DEF Wf
  <1>3. ~Uses(c, 0, 0, p)
    BY <1>1, HeadFresh DEF Firm
  <1> HIDE DEF p
  <1>4. /\ DOMAIN d.pak = Packet /\ d.pak[p] = k
        /\ \A x \in Packet : Tagged(d.pak[x]) /\ (x # p => d.pak[x] = c.pak[x])
    BY <1>1, <1>2 DEF Taken, Typed, p
  <1>5. Typed(d)
    <2>1. d.pbsy \in Int
      BY <1>1 DEF Typed, Taken
    <2> QED  BY <1>1, <1>4, <2>1 DEF Typed, RingsTyped, Taken
  <1>6. Counted(d, p, 0)
    <2>1. Total(d) = Total(c) /\ Total(c) \in Nat /\ Len(c.rspq) \in Nat /\ Len(c.freq) \in Nat
      BY <1>1, TotalSame, TotalNat, BusySet DEF Taken
    <2>2. One(0) = 0 /\ One(p) = 1 /\ NPkts \in Nat /\ c.pbsy \in Int
      BY <1>1, <1>2, MscpAssumption DEF One, Typed
    <2>3. /\ c.pbsy = Len(c.rspq) + Total(c) + 0 + 0 /\ Len(c.freq) + c.pbsy = NPkts - 1
      BY <2>2 DEF Firm, Counted
    <2>4. /\ c.pbsy + 1 = Len(c.rspq) + Total(c) + 1 + 0
          /\ (Len(c.freq) - 1) + (c.pbsy + 1) = NPkts - 1
      BY <2>1, <2>2, <2>3
    <2> QED  BY <1>2, <2>1, <2>2, <2>4 DEF Counted, Taken
  <1>7. \A x \in Packet : Uses(d, p, 0, x) <=> Uses(c, 0, 0, x) \/ x = p
    BY <1>1 DEF Uses, Taken
  <1>8. Covered(d, p, 0)
    BY <1>2, <1>7 DEF Firm, Covered, Taken
  <1>9. Homed(d)
    <2>1. \A u \in Unit : ToSet(c.pktq[u]) \subseteq Packet /\ p \notin ToSet(c.pktq[u])
      BY <1>1, <1>3 DEF Wf, ToSet, Uses
    <2>2. ToSet(c.rspq) \subseteq Packet /\ p \notin ToSet(c.rspq)
      BY <1>1, <1>3 DEF Wf, ToSet, Uses
    <2>3. \A u \in Unit : c.cpkt[u] \in Packet \cup {0} /\ p # c.cpkt[u]
      BY <1>1, <1>3 DEF Wf, Uses
    <2> QED  BY <1>4, <2>1, <2>2, <2>3 DEF Firm, Homed, Taken
  <1>10. Quiet(d, p, 0)
    BY <1>4, <1>7 DEF Firm, Quiet, Taken
  <1>11. RingOk(d, g)
    BY DEF Firm, RingOk, Waiting, Ok, Taken
  <1> QED  BY <1>5, <1>6, <1>8, <1>9, <1>10, <1>11 DEF Firm, p

\* A packet of the controller's own, or rq_fatal.
LEMMA SendSound ==
  ASSUME NEW c, NEW g, Sound(c, 0, 0, g), DriverTyped(g), Ok(c), NEW typ, NEW sts, NEW unit
  PROVE  LET d == Send(c, typ, sts, unit)
         IN  Sound(d, 0, 0, g) /\ (d = Fatal(c) \/ Kept(c, d))
  <1>1. Typed(c) /\ Wf(c)
    BY DEF Sound, Firm, Typed
  <1>2. CASE c.freq = <<>>
    BY <1>1, <1>2, ResetSound DEF Send
  <1>3. CASE c.freq # <<>>
    <2> DEFINE p == Head(c.freq)
               k == [NoPacket EXCEPT !.typ = typ, !.sts = sts, !.unit = unit]
               q == DeqF(c)
               d == [q EXCEPT !.pak[p] = k]
    <2>1. Kept(c, q) /\ Wf(q) /\ p \in Packet
      BY <1>1, <1>3, DeqFKept
    <2>2. Send(c, typ, sts, unit) = PutPkt(d, p, TRUE)
      BY <1>3 DEF Send
    <2>3. k.ref = 0 /\ Tagged(k) /\ Closed(k)
      BY DEF NoPacket, Tagged, Closed
    <2>4. q = [c EXCEPT !.freq = Tail(@), !.pbsy = @ + 1]
      BY <1>3 DEF DeqF
    <2> HIDE DEF p, k, q
    <2>5. /\ DOMAIN q = DOMAIN c /\ q.freq = Tail(c.freq) /\ q.pbsy = c.pbsy + 1
          /\ q.csta = c.csta /\ q.sa = c.sa /\ q.ci = c.ci /\ q.ri = c.ri /\ q.irq = c.irq
          /\ q.credits = c.credits /\ q.ton = c.ton /\ q.io = c.io /\ q.cmd = c.cmd
          /\ q.rsp = c.rsp /\ q.rspq = c.rspq /\ q.pktq = c.pktq /\ q.cpkt = c.cpkt
          /\ q.pak = c.pak /\ q.hat = c.hat
      BY <1>1, <2>4 DEF Typed, Viewed, Fields
    <2>6. Same(q, d) /\ Wf(d)
      BY <2>1 DEF Same, Kept, Wf, Fields
    <2>7. /\ DOMAIN d = DOMAIN q /\ d.freq = q.freq /\ d.pbsy = q.pbsy
          /\ d.csta = q.csta /\ d.sa = q.sa /\ d.ci = q.ci /\ d.ri = q.ri /\ d.irq = q.irq
          /\ d.credits = q.credits /\ d.ton = q.ton /\ d.io = q.io /\ d.cmd = q.cmd
          /\ d.rsp = q.rsp /\ d.rspq = q.rspq /\ d.pktq = q.pktq /\ d.cpkt = q.cpkt
          /\ d.hat = q.hat /\ d.pak = [q.pak EXCEPT ![p] = k]
      BY <1>1, <2>5 DEF Typed, Viewed
    <2> HIDE DEF d
    <2>8. Taken(c, d, k)
      BY <2>3, <2>5, <2>6, <2>7 DEF Taken, p
    <2>9. Firm(d, p, 0, g) /\ Kept(c, d) /\ Ok(d)
      BY <1>3, <2>1, <2>3, <2>6, <2>8, TakenFirm DEF p, Same, Kept, Ok, Sound
    <2>11. Placed(d, g) /\ d.pak[p] = k
      <3>1. /\ ToSet(c.freq) = ToSet(Tail(c.freq)) \cup {p} /\ c.freq \in Seq(Packet)
            /\ DOMAIN c.pak = Packet
        BY <1>1, <1>3, SetOfPop DEF p, Wf, Typed
      <3>2. \A x \in Packet : d.pak[x] = IF x = p THEN k ELSE c.pak[x]
        BY <2>1, <2>5, <2>7, <3>1
      <3>3. \A n \in Int : Ref(d, "pak", n) = Ref(c, "pak", n)
        BY <2>1, <2>3, <2>5, <2>7, <3>1, <3>2 DEF Ref
      <3>4. \A j \in Kinds, n \in Int : Ref(d, j, n) = Ref(c, j, n)
        BY <2>5, <2>7, <3>3 DEF Ref, Kinds
      <3>5. Balanced(c, g) => Balanced(d, g)
        BY <2>5, <2>7 DEF Balanced
      <3> QED  BY <2>1, <2>9, <3>2, <3>4, <3>5, SamePlaces DEF Sound, Placed
    <2>10. Sound(PutPkt(d, p, TRUE), 0, 0, g) /\ Kept(d, PutPkt(d, p, TRUE))
      BY <2>1, <2>3, <2>9, <2>11, PutPktSound DEF Sound
    <2> QED  BY <2>2, <2>9, <2>10 DEF Kept
  <1> QED  BY <1>2, <1>3

\* What a routine that may be fatal makes of c.
Sends(c, d, g) == Sound(d, 0, 0, g) /\ (d = Fatal(c) \/ Kept(c, d))

LEMMA LogSound ==
  ASSUME NEW c, NEW g, Sound(c, 0, 0, g), DriverTyped(g), Ok(c), NEW u
  PROVE  /\ Sends(c, LogError(c, u), g) /\ Sends(c, LogFailure(c), g)
         /\ Sends(c, Attention(c, u), g)
  <1>1. Sends(c, c, g)
    BY DEF Sends, Kept
  <1> QED  BY <1>1, SendSound DEF LogError, LogFailure, Attention, Sends

\* rq_getpkt: the packet that is read is in hand.
LEMMA GetPktSound ==
  ASSUME NEW c, NEW g, Sound(c, 0, 0, g), Ok(c), c.cmd[c.ci].own
  PROVE  LET d == GetPkt(c)
         IN  \/ d = Fatal(c) /\ Sound(d, 0, 0, g)
             \/ /\ Ok(d) /\ d.pkt \in Packet /\ Sound(d, d.pkt, 0, g)
                /\ d.pak[d.pkt].ref # 0
  <1>1. Typed(c) /\ Wf(c)
    BY DEF Sound, Firm, Typed
  <1>2. CASE c.freq = <<>>
    BY <1>1, <1>2, ResetSound DEF GetPkt
  <1>3. CASE c.freq # <<>>
    <2> DEFINE p == Head(c.freq)
               k == c.cmd[c.ci].d
               q == DeqF(c)
               d == [q EXCEPT !.hat = 0, !.pkt = p, !.pak[p] = k]
    <2>1. Kept(c, q) /\ Wf(q) /\ p \in Packet
      BY <1>1, <1>3, DeqFKept
    <2>2. GetPkt(c) = ReturnCmd(d)
      BY <1>3 DEF GetPkt
    <2>3. Tagged(k) /\ k.ref # 0
      BY <1>1 DEF Typed, RingsTyped, Asked
    <2>4. q = [c EXCEPT !.freq = Tail(@), !.pbsy = @ + 1]
      BY <1>3 DEF DeqF
    <2> HIDE DEF p, k, q
    <2>5. /\ DOMAIN q = DOMAIN c /\ q.freq = Tail(c.freq) /\ q.pbsy = c.pbsy + 1
          /\ q.csta = c.csta /\ q.sa = c.sa /\ q.ci = c.ci /\ q.ri = c.ri /\ q.irq = c.irq
          /\ q.credits = c.credits /\ q.ton = c.ton /\ q.io = c.io /\ q.cmd = c.cmd
          /\ q.rsp = c.rsp /\ q.rspq = c.rspq /\ q.pktq = c.pktq /\ q.cpkt = c.cpkt
          /\ q.pak = c.pak
      BY <1>1, <2>4 DEF Typed, Viewed, Fields
    <2>6. Wf(d) /\ d.pkt = p
      BY <2>1 DEF Kept, Wf, Fields
    <2>7. /\ DOMAIN d = DOMAIN q /\ d.freq = q.freq /\ d.pbsy = q.pbsy
          /\ d.csta = q.csta /\ d.sa = q.sa /\ d.ci = q.ci /\ d.ri = q.ri /\ d.irq = q.irq
          /\ d.credits = q.credits /\ d.ton = q.ton /\ d.io = q.io /\ d.cmd = q.cmd
          /\ d.rsp = q.rsp /\ d.rspq = q.rspq /\ d.pktq = q.pktq /\ d.cpkt = q.cpkt
          /\ d.hat = 0 /\ d.pak = [q.pak EXCEPT ![p] = k]
      BY <1>1, <2>5 DEF Typed, Viewed
    <2> HIDE DEF d
    <2>8. Taken(c, d, k)
      BY <2>5, <2>6, <2>7 DEF Taken, p
    <2>9. Firm(d, p, 0, g)
      BY <1>3, <2>3, <2>8, TakenFirm DEF p, Sound
    <2> DEFINE z == ReturnCmd(d)
    <2>10. /\ Firm(z, p, 0, g) /\ z.cmd = [d.cmd EXCEPT ![d.ci] = Returned(NoPacket)]
           /\ z.pak = d.pak /\ z.rsp = d.rsp /\ z.freq = d.freq /\ z.credits = d.credits
      BY <2>9, ReturnCmdFirm
    <2>11. z.pkt = p /\ Ok(z)
      BY <2>5, <2>6, <2>7, ReturnSame DEF Same, Kept, Ok
    <2> HIDE DEF z
    <2>12. Located(z, g)
      <3>1. /\ c.ci \in 0 .. CmdRing - 1 /\ DOMAIN c.cmd = 0 .. CmdRing - 1
            /\ DOMAIN c.pak = Packet /\ c.freq \in Seq(Packet)
        BY <1>1 DEF Typed, RingsTyped, Wf
      <3>2. /\ p \in ToSet(c.freq) /\ p \notin ToSet(z.freq)
            /\ \A x : x # p => (x \in ToSet(z.freq) <=> x \in ToSet(c.freq))
        <4>1. ToSet(c.freq) = ToSet(Tail(c.freq)) \cup {p} /\ p \notin ToSet(Tail(c.freq))
          BY <1>1, <1>3, <3>1, SetOfPop, HeadAlone DEF p, Sound, Firm
        <4> QED  BY <2>5, <2>7, <2>10, <4>1
      <3>3. \A x \in Packet : z.pak[x] = IF x = p THEN k ELSE c.pak[x]
        BY <2>1, <2>5, <2>7, <2>10, <3>1
      <3>4. /\ z.cmd[c.ci] = Returned(NoPacket)
            /\ \A i \in 0 .. CmdRing - 1 : i # c.ci => z.cmd[i] = c.cmd[i]
        <4>1. z.cmd = [c.cmd EXCEPT ![c.ci] = Returned(NoPacket)]
          BY <2>5, <2>7, <2>10
        <4> QED  BY <3>1, <4>1
      <3>5. /\ Ref(c, "pak", p) = 0 /\ Ref(z, "pak", p) = Ref(c, "cmd", c.ci)
            /\ Ref(z, "cmd", c.ci) = 0
        BY <2>1, <3>1, <3>2, <3>3, <3>4 DEF Ref, Returned, k
      <3>6. /\ \A i \in Int : i # c.ci => Ref(z, "cmd", i) = Ref(c, "cmd", i)
            /\ \A i \in Int : i # p => Ref(z, "pak", i) = Ref(c, "pak", i)
            /\ \A i \in Int : Ref(z, "rsp", i) = Ref(c, "rsp", i)
        BY <2>5, <2>7, <2>10, <3>2, <3>3, <3>4 DEF Ref
      <3>7. p \in Int /\ c.ci \in Int /\ Located(c, g)
        BY <2>1, <3>1 DEF Packet, Sound, Placed
      <3> QED  BY <3>5, <3>6, <3>7, MovedPlace DEF Kinds
    <2>13. Balanced(z, g)
      BY <2>5, <2>7, <2>10 DEF Sound, Placed, Balanced
    <2>14. z.pak[p] = k
      BY <1>1, <2>1, <2>5, <2>7, <2>10 DEF Typed
    <2> QED  BY <2>1, <2>2, <2>3, <2>10, <2>11, <2>12, <2>13, <2>14 DEF Sound, Placed, z
  <1> QED  BY <1>2, <1>3

-----------------------------------------------------------------------------
(* Commands *)

LEMMA SwapSound ==
  ASSUME NEW c, NEW a, NEW b, NEW g, Sound(c, a, b, g)
  PROVE  Sound(c, b, a, g)
  <1>1. \A x : Uses(c, b, a, x) <=> Uses(c, a, b, x)
    BY DEF Uses
  <1>2. Counted(c, b, a)
    <2>1. Len(c.rspq) \in Nat /\ Total(c) \in Nat
      BY BusySet, TotalNat DEF Sound, Firm, Typed
    <2>2. One(a) \in Nat /\ One(b) \in Nat
      BY DEF One
    <2>3. Len(c.rspq) + Total(c) + One(a) + One(b) = Len(c.rspq) + Total(c) + One(b) + One(a)
      BY <2>1, <2>2
    <2> QED  BY <2>3 DEF Sound, Firm, Counted
  <1> QED  BY <1>1, <1>2 DEF Sound, Firm, Covered, Quiet

\* d differs from c in the lists of unit u only, between which and the hand a
\* packet has moved.
Shifted(c, d, u, a, a2) ==
  /\ Wf(d) /\ DOMAIN d = DOMAIN c
  /\ d.csta = c.csta /\ d.sa = c.sa /\ d.ci = c.ci /\ d.ri = c.ri
  /\ d.credits = c.credits /\ d.pbsy = c.pbsy /\ d.irq = c.irq /\ d.ton = c.ton
  /\ d.io = c.io /\ d.pak = c.pak /\ d.cmd = c.cmd /\ d.rsp = c.rsp /\ d.hat = c.hat
  /\ d.freq = c.freq /\ d.rspq = c.rspq
  /\ \A v \in Unit \ {u} : d.pktq[v] = c.pktq[v] /\ d.cpkt[v] = c.cpkt[v]
  /\ Load(d, u) + One(a2) = Load(c, u) + One(a)
  /\ \A x \in Packet : x = a2 \/ x = d.cpkt[u] \/ x \in ToSet(d.pktq[u])
                       <=> x = a \/ x = c.cpkt[u] \/ x \in ToSet(c.pktq[u])
  /\ \A x \in ToSet(d.pktq[u]) : d.pak[x].unit = u /\ d.pak[x].ref # 0
  /\ d.cpkt[u] # 0 => d.pak[d.cpkt[u]].ref # 0

LEMMA ShiftedSound ==
  ASSUME NEW c, NEW d, NEW u \in Unit, NEW a, NEW a2, NEW b, NEW g,
         Sound(c, a, b, g), Shifted(c, d, u, a, a2)
  PROVE  Sound(d, a2, b, g)
  <1>1. Typed(d)
    BY DEF Sound, Firm, Typed, RingsTyped, Shifted
  <1>2. Counted(d, a2, b)
    <2>1. /\ Load(c, u) \in Nat /\ Load(d, u) \in Nat /\ Total(c) \in Nat /\ Total(d) \in Nat
          /\ Total(d) = Total(c) + Load(d, u) - Load(c, u)
      BY TotalStep DEF Sound, Firm, Typed, Shifted
    <2>2. One(a) \in Nat /\ One(a2) \in Nat /\ One(b) \in Nat
      BY DEF One
    <2>3. Len(c.rspq) \in Nat
      BY BusySet DEF Sound, Firm, Typed
    <2>4. Load(d, u) + One(a2) = Load(c, u) + One(a)
      BY DEF Shifted
    <2>5. Total(d) + One(a2) = Total(c) + One(a)
      BY <2>1, <2>2, <2>4
    <2>6. Len(c.rspq) + Total(d) + One(a2) + One(b) = Len(c.rspq) + Total(c) + One(a) + One(b)
      <3>1. PICK x \in Int : x = Total(d)
        BY <2>1
      <3>2. PICK y \in Int : y = One(a2)
        BY <2>2
      <3>3. PICK z \in Int : z = Total(c)
        BY <2>1
      <3>4. PICK v \in Int : v = One(a)
        BY <2>2
      <3>5. PICK r \in Int : r = Len(c.rspq)
        BY <2>3
      <3>6. PICK w \in Int : w = One(b)
        BY <2>2
      <3>7. r + x + y + w = r + z + v + w
        BY <2>5, <3>1, <3>2, <3>3, <3>4
      <3> QED  BY <3>1, <3>2, <3>3, <3>4, <3>5, <3>6, <3>7
    <2> QED  BY <2>6 DEF Sound, Firm, Counted, Shifted
  <1>3. \A x \in Packet : Uses(d, a2, b, x) <=> Uses(c, a, b, x)
    <2> TAKE x \in Packet
    <2>1. x = a2 \/ x = d.cpkt[u] \/ x \in ToSet(d.pktq[u])
          <=> x = a \/ x = c.cpkt[u] \/ x \in ToSet(c.pktq[u])
      BY DEF Shifted
    <2>2. \A v \in Unit \ {u} : d.pktq[v] = c.pktq[v] /\ d.cpkt[v] = c.cpkt[v]
      BY DEF Shifted
    <2>3. d.rspq = c.rspq
      BY DEF Shifted
    <2> QED  BY <2>1, <2>2, <2>3 DEF Uses
  <1>4. Covered(d, a2, b) /\ Quiet(d, a2, b)
    BY <1>3 DEF Sound, Firm, Covered, Quiet, Shifted
  <1>5. Homed(d)
    <2>1. \A v \in Unit \ {u} :
            /\ \A x \in ToSet(d.pktq[v]) : d.pak[x].unit = v /\ d.pak[x].ref # 0
            /\ d.cpkt[v] # 0 => d.pak[d.cpkt[v]].ref # 0
      BY DEF Sound, Firm, Homed, Shifted
    <2>2. /\ \A x \in ToSet(d.pktq[u]) : d.pak[x].unit = u /\ d.pak[x].ref # 0
          /\ d.cpkt[u] # 0 => d.pak[d.cpkt[u]].ref # 0
      BY DEF Shifted
    <2> QED  BY <2>1, <2>2 DEF Homed, Sound, Firm, Shifted
  <1>6. RingOk(d, g)
    BY DEF Sound, Firm, RingOk, Waiting, Ok, Shifted
  <1>7. Placed(d, g)
    BY PlacedSame DEF Sound, Shifted
  <1> QED  BY <1>1, <1>2, <1>4, <1>5, <1>6, <1>7 DEF Sound, Firm

\* The current packet of a unit is taken in hand.
LEMMA FreedSound ==
  ASSUME NEW c, NEW d, NEW u \in Unit, NEW b, NEW g, Sound(c, 0, b, g), c.cpkt[u] # 0,
         Wf(d), DOMAIN d = DOMAIN c, d.cpkt = [c.cpkt EXCEPT ![u] = 0], d.pktq = c.pktq,
         d.csta = c.csta, d.sa = c.sa, d.ci = c.ci, d.ri = c.ri,
         d.credits = c.credits, d.pbsy = c.pbsy, d.irq = c.irq, d.ton = c.ton,
         d.io = c.io, d.pak = c.pak, d.cmd = c.cmd, d.rsp = c.rsp, d.hat = c.hat,
         d.freq = c.freq, d.rspq = c.rspq
  PROVE  /\ c.cpkt[u] \in Packet /\ Sound(d, c.cpkt[u], b, g)
         /\ d.pak[c.cpkt[u]].ref # 0
  <1>1. c.cpkt \in [Unit -> Packet \cup {0}] /\ 0 \notin Packet
    BY DEF Sound, Firm, Typed, Wf, Packet
  <1>2. c.cpkt[u] \in Packet /\ d.cpkt[u] = 0 /\ \A v \in Unit \ {u} : d.cpkt[v] = c.cpkt[v]
    BY <1>1
  <1>3. Load(d, u) + One(c.cpkt[u]) = Load(c, u) + One(0)
    <2>1. Len(c.pktq[u]) \in Nat
      <3>1. c.pktq[u] \in Seq(Packet)
        BY DEF Sound, Firm, Typed, Wf
      <3> QED  BY <3>1
    <2>2. One(c.cpkt[u]) = 1 /\ One(d.cpkt[u]) = 0 /\ One(0) = 0
      BY <1>2 DEF One
    <2> QED  BY <2>1, <2>2 DEF Load
  <1>4. Shifted(c, d, u, 0, c.cpkt[u])
    BY <1>1, <1>2, <1>3 DEF Shifted, Sound, Firm, Homed
  <1>5. Sound(d, c.cpkt[u], b, g)
    BY <1>4, ShiftedSound
  <1>6. c.pak[c.cpkt[u]].ref # 0
    BY DEF Sound, Firm, Homed
  <1> QED  BY <1>2, <1>5, <1>6

\* A waiting packet p of unit u is taken in hand; t is the queue without it.
Unqueued(c, d, u, p, t) ==
  /\ p \in Packet /\ t \in Seq(Packet)
  /\ ToSet(c.pktq[u]) = ToSet(t) \cup {p} /\ Len(t) = Len(c.pktq[u]) - 1
  /\ Wf(d) /\ DOMAIN d = DOMAIN c /\ d.pktq = [c.pktq EXCEPT ![u] = t] /\ d.cpkt = c.cpkt
  /\ d.csta = c.csta /\ d.sa = c.sa /\ d.ci = c.ci /\ d.ri = c.ri
  /\ d.credits = c.credits /\ d.pbsy = c.pbsy /\ d.irq = c.irq /\ d.ton = c.ton
  /\ d.io = c.io /\ d.pak = c.pak /\ d.cmd = c.cmd /\ d.rsp = c.rsp /\ d.hat = c.hat
  /\ d.freq = c.freq /\ d.rspq = c.rspq

LEMMA UnqueuedSound ==
  ASSUME NEW c, NEW d, NEW u \in Unit, NEW b, NEW g, Sound(c, 0, b, g),
         NEW p, NEW t, Unqueued(c, d, u, p, t)
  PROVE  Sound(d, p, b, g)
  <1> USE DEF Unqueued
  <1>1. c.pktq \in [Unit -> Seq(Packet)] /\ 0 \notin Packet
    BY DEF Sound, Firm, Typed, Wf, Packet
  <1>2. d.pktq[u] = t /\ \A v \in Unit \ {u} : d.pktq[v] = c.pktq[v]
    BY <1>1
  <1>3. Load(d, u) + One(p) = Load(c, u) + One(0)
    <2>1. Len(c.pktq[u]) \in Nat
      <3>1. c.pktq[u] \in Seq(Packet)
        BY <1>1
      <3> QED  BY <3>1
    <2>2. One(p) = 1 /\ One(0) = 0 /\ One(c.cpkt[u]) \in Nat
      BY <1>1 DEF One
    <2> QED  BY <1>2, <2>1, <2>2 DEF Load
  <1>4. /\ \A x \in ToSet(c.pktq[u]) : c.pak[x].unit = u /\ c.pak[x].ref # 0
        /\ c.cpkt[u] # 0 => c.pak[c.cpkt[u]].ref # 0
    BY DEF Sound, Firm, Homed
  <1>5. Shifted(c, d, u, 0, p)
    BY <1>1, <1>2, <1>3, <1>4 DEF Shifted
  <1> QED  BY <1>5, ShiftedSound

\* A routine has done with the packet that was in hand.
Done(c, d, g) == Sound(d, 0, 0, g) /\ d.pkt = c.pkt /\ d.csta \in {"UP", "DEAD"}

LEMMA AnsweredSound ==
  ASSUME NEW c, NEW e, NEW p \in Packet, NEW g, Sound(c, p, 0, g), DriverTyped(g), Ok(c),
         c.pak[p].ref # 0, Alike(c, e), e.pkt = c.pkt, NEW sts
  PROVE  Done(c, Respond(e, p, sts), g)
  <1>1. Sound(e, p, 0, g) /\ Ok(e) /\ e.pak[p].ref # 0
    BY AlikeSound DEF Alike, Ok
  <1>2. Sound(Respond(e, p, sts), 0, 0, g) /\ Kept(e, Respond(e, p, sts))
    BY <1>1, RespondSound
  <1> QED  BY <1>1, <1>2 DEF Done, Kept, Ok

LEMMA AlikeSelf == ASSUME NEW c, Wf(c) PROVE Alike(c, c)
  BY DEF Alike

\* The commands that are answered at once.
LEMMA SimpleSound ==
  ASSUME NEW c, NEW p \in Packet, NEW g, Sound(c, p, 0, g), DriverTyped(g), Ok(c),
         c.pak[p].ref # 0,
         NEW d \in {Available(c, p), Online(c, p), SetUnit(c, p), Format(c, p),
                    SetController(c, p), UnitStatus(c, p),
                    Respond(c, p, "suc"), Respond(c, p, "ofl"), Respond(c, p, "avl"),
                    Respond(c, p, "cmd")}
  PROVE  Done(c, d, g)
  <1> DEFINE u == c.pak[p].unit
             a == [c EXCEPT !.onl[u] = FALSE, !.att[u] = @ /\ c.pak[p].arg = 0]
             o == [c EXCEPT !.onl[u] = TRUE]
             f == [c EXCEPT !.onl[u] = FALSE]
             t == [c EXCEPT !.ths = c.pak[p].arg > 0, !.atn = c.pak[p].arg > 0,
                            !.htmo = IF c.pak[p].len = 0 THEN 0 ELSE c.pak[p].len + 2]
  <1>1. Wf(c) /\ Typed(c)
    BY DEF Sound, Firm, Typed
  <1>2. Alike(c, c) /\ Alike(c, a) /\ Alike(c, o) /\ Alike(c, f) /\ Alike(c, t)
    BY <1>1 DEF Alike, Wf, Fields
  <1>3. c.pkt = c.pkt /\ a.pkt = c.pkt /\ o.pkt = c.pkt /\ f.pkt = c.pkt /\ t.pkt = c.pkt
    BY <1>1 DEF Wf, Fields
  <1> HIDE DEF a, o, f, t
  <1>4. PICK b \in {c, a, o, f, t}, sts \in {"suc", "ofl", "avl", "cmd"} :
          d = Respond(b, p, sts)
    BY DEF Available, Online, SetUnit, Format, SetController, UnitStatus, a, o, f, t
  <1>5. Alike(c, b) /\ b.pkt = c.pkt
    BY <1>2, <1>3
  <1> QED  BY <1>4, <1>5, AnsweredSound

\* rq_abo: the target is in hand beside the command itself.
LEMMA AbortSound ==
  ASSUME NEW c, NEW p \in Packet, NEW g, Sound(c, p, 0, g), DriverTyped(g), Ok(c),
         c.pak[p].ref # 0
  PROVE  Done(c, Abort(c, p), g)
  <1> DEFINE u == c.pak[p].unit
             ref == c.pak[p].arg
             queued == {i \in 1 .. Len(c.pktq[u]) : c.pak[c.pktq[u][i]].ref = ref}
             i == CHOOSE j \in queued : \A l \in queued : j <= l
             cur == [c EXCEPT !.cpkt[u] = 0, !.uon[u] = FALSE, !.qon = TRUE]
             que == [c EXCEPT !.pktq[u] = RemoveAt(@, i)]
             d == IF u \notin Present THEN c
                  ELSE IF c.cpkt[u] # 0 /\ c.pak[c.cpkt[u]].ref = ref
                  THEN Respond(cur, c.cpkt[u], "abo")
                  ELSE IF queued # {} THEN Respond(que, c.pktq[u][i], "abo") ELSE c
  <1>1. Abort(c, p) = IF Ok(d) THEN Respond(d, p, "suc") ELSE d
    BY DEF Abort
  <1>2. Wf(c) /\ Typed(c) /\ Sound(c, 0, p, g) /\ 0 \notin Packet
    BY SwapSound DEF Sound, Firm, Typed, Packet
  <1>3. Sound(d, 0, p, g) /\ Ok(d) /\ d.pkt = c.pkt /\ d.pak[p].ref # 0
    <2>1. CASE u \in Present /\ c.cpkt[u] # 0 /\ c.pak[c.cpkt[u]].ref = ref
      <3>1. u \in Unit
        BY <2>1, MscpAssumption DEF Unit
      <3>2. /\ Wf(cur) /\ DOMAIN cur = DOMAIN c /\ cur.cpkt = [c.cpkt EXCEPT ![u] = 0]
            /\ cur.pktq = c.pktq /\ cur.freq = c.freq /\ cur.rspq = c.rspq
            /\ cur.csta = c.csta /\ cur.pkt = c.pkt
        BY <1>2, <3>1 DEF Wf, Fields
      <3>3. /\ cur.sa = c.sa /\ cur.ci = c.ci /\ cur.ri = c.ri
            /\ cur.credits = c.credits /\ cur.pbsy = c.pbsy /\ cur.irq = c.irq
            /\ cur.ton = c.ton /\ cur.io = c.io /\ cur.pak = c.pak /\ cur.cmd = c.cmd
            /\ cur.rsp = c.rsp /\ cur.hat = c.hat
        BY <1>2 DEF Typed, Viewed
      <3> HIDE DEF cur
      <3>4. /\ c.cpkt[u] \in Packet /\ Sound(cur, c.cpkt[u], p, g)
            /\ cur.pak[c.cpkt[u]].ref # 0
        BY <1>2, <2>1, <3>1, <3>2, <3>3, FreedSound
      <3>5. LET x == Respond(cur, c.cpkt[u], "abo")
            IN  Sound(x, 0, p, g) /\ Kept(cur, x) /\ x.pak[p].ref # 0
        BY <3>2, <3>3, <3>4, RespondSound DEF Ok
      <3> QED  BY <2>1, <3>2, <3>5 DEF Kept, Ok
    <2>2. CASE /\ u \in Present /\ ~(c.cpkt[u] # 0 /\ c.pak[c.cpkt[u]].ref = ref)
               /\ queued # {}
      <3>1. u \in Unit /\ c.pktq[u] \in Seq(Packet)
        BY <1>2, <2>2, MscpAssumption DEF Wf, Unit
      <3>2. queued \in SUBSET Nat
        OBVIOUS
      <3>3. i \in 1 .. Len(c.pktq[u])
        BY <2>2, <3>2, First
      <3> HIDE DEF i, queued
      <3> DEFINE t == RemoveAt(c.pktq[u], i)
                 x == c.pktq[u][i]
      <3>4. /\ x \in Packet /\ t \in Seq(Packet)
            /\ ToSet(c.pktq[u]) = ToSet(t) \cup {x} /\ Len(t) = Len(c.pktq[u]) - 1
        BY <3>1, <3>3, Removed, SetOfRemove
      <3>5. que = [c EXCEPT !.pktq[u] = t]
        BY <1>2, <3>1 DEF Wf, Fields
      <3> HIDE DEF t, x
      <3>6. /\ Wf(que) /\ DOMAIN que = DOMAIN c /\ que.pktq = [c.pktq EXCEPT ![u] = t]
            /\ que.cpkt = c.cpkt /\ que.freq = c.freq /\ que.rspq = c.rspq
            /\ que.csta = c.csta /\ que.pkt = c.pkt
        BY <1>2, <3>1, <3>4, <3>5 DEF Wf, Fields
      <3>7. /\ que.sa = c.sa /\ que.ci = c.ci /\ que.ri = c.ri
            /\ que.credits = c.credits /\ que.pbsy = c.pbsy /\ que.irq = c.irq
            /\ que.ton = c.ton /\ que.io = c.io /\ que.pak = c.pak /\ que.cmd = c.cmd
            /\ que.rsp = c.rsp /\ que.hat = c.hat
        BY <1>2 DEF Typed, Viewed
      <3> HIDE DEF que
      <3>8. Sound(que, x, p, g) /\ que.pak[x].ref # 0
        <4>1. Unqueued(c, que, u, x, t)
          BY <3>4, <3>6, <3>7 DEF Unqueued
        <4>2. Sound(c, 0, p, g)
          BY <1>2
        <4>3. Sound(que, x, p, g)
          BY <3>1, <4>1, <4>2, UnqueuedSound
        <4>4. que.pak[x].ref # 0
          BY <3>1, <4>1, <4>2 DEF Unqueued, Sound, Firm, Homed
        <4> QED  BY <4>3, <4>4
      <3>9. LET y == Respond(que, x, "abo")
            IN  Sound(y, 0, p, g) /\ Kept(que, y) /\ y.pak[p].ref # 0
        BY <3>4, <3>6, <3>7, <3>8, RespondSound DEF Ok
      <3> QED  BY <2>2, <3>6, <3>9 DEF Kept, Ok, x
    <2> QED  BY <1>2, <2>1, <2>2
  <1> HIDE DEF d
  <1>4. Sound(d, p, 0, g) /\ Wf(d)
    BY <1>3, SwapSound DEF Sound, Firm, Typed
  <1>5. Done(d, Respond(d, p, "suc"), g)
    BY <1>3, <1>4, AlikeSelf, AnsweredSound
  <1> QED  BY <1>1, <1>3, <1>5 DEF Done

\* The unit is idle, and takes the packet in hand.
LEMMA TransferSound ==
  ASSUME NEW c, NEW p \in Packet, NEW g, Sound(c, p, 0, g), DriverTyped(g), Ok(c),
         c.pak[p].ref # 0, c.pak[p].unit \in Unit, c.cpkt[c.pak[p].unit] = 0
  PROVE  Done(c, Transfer(c, p), g)
  <1> DEFINE u == c.pak[p].unit
             d == [c EXCEPT !.cpkt[u] = p, !.uon[u] = TRUE]
  <1>1. Wf(c) /\ Typed(c) /\ 0 \notin Packet /\ u \in Unit
    BY DEF Sound, Firm, Typed, Packet
  <1>2. Transfer(c, p) = d \/ \E sts \in {"ofl", "avl", "cmd"} : Transfer(c, p) = Respond(c, p, sts)
    BY DEF Transfer
  <1>3. /\ Wf(d) /\ DOMAIN d = DOMAIN c /\ d.cpkt = [c.cpkt EXCEPT ![u] = p]
        /\ d.pktq = c.pktq /\ d.freq = c.freq /\ d.rspq = c.rspq
        /\ d.csta = c.csta /\ d.pkt = c.pkt
    BY <1>1 DEF Wf, Fields
  <1>4. /\ d.sa = c.sa /\ d.ci = c.ci /\ d.ri = c.ri
        /\ d.credits = c.credits /\ d.pbsy = c.pbsy /\ d.irq = c.irq
        /\ d.ton = c.ton /\ d.io = c.io /\ d.pak = c.pak /\ d.cmd = c.cmd
        /\ d.rsp = c.rsp /\ d.hat = c.hat
    BY <1>1 DEF Typed, Viewed
  <1> HIDE DEF d
  <1>5. Load(d, u) + One(0) = Load(c, u) + One(p)
    <2>1. One(0) = 0 /\ One(p) = 1 /\ One(d.cpkt[u]) = 1 /\ One(c.cpkt[u]) = 0
      BY <1>1, <1>3 DEF One, Wf
    <2>2. c.pktq[u] \in Seq(Packet)
      BY <1>1 DEF Wf
    <2>3. Len(c.pktq[u]) \in Nat
      BY <2>2
    <2> QED  BY <1>3, <2>1, <2>3 DEF Load
  <1>6. Shifted(c, d, u, p, 0)
    <2>1. d.cpkt[u] = p /\ \A v \in Unit \ {u} : d.cpkt[v] = c.cpkt[v]
      BY <1>1, <1>3 DEF Wf
    <2>2. /\ \A x \in ToSet(d.pktq[u]) : d.pak[x].unit = u /\ d.pak[x].ref # 0
          /\ d.pak[p].ref # 0
      BY <1>1, <1>3, <1>4 DEF Sound, Firm, Homed
    <2> QED  BY <1>1, <1>3, <1>4, <1>5, <2>1, <2>2 DEF Shifted
  <1>7. Done(c, d, g)
    BY <1>1, <1>3, <1>6, ShiftedSound DEF Done, Ok
  <1>8. \A sts \in {"ofl", "avl", "cmd"} : Done(c, Respond(c, p, sts), g)
    BY SimpleSound
  <1> QED  BY <1>2, <1>7, <1>8

\* The unit is busy, and the packet in hand waits on its queue.
LEMMA EnqueueSound ==
  ASSUME NEW c, NEW p \in Packet, NEW g, Sound(c, p, 0, g), Ok(c), c.pak[p].unit \in Unit,
         c.pak[p].ref # 0
  PROVE  Done(c, Enqueue(c, p, c.pak[p].unit), g)
  <1> DEFINE u == c.pak[p].unit
             q == Append(c.pktq[u], p)
             d == [c EXCEPT !.pktq[u] = q]
  <1>1. Wf(c) /\ Typed(c) /\ 0 \notin Packet /\ u \in Unit /\ c.pktq[u] \in Seq(Packet)
    <2>1. Wf(c) /\ Typed(c) /\ 0 \notin Packet
      BY DEF Sound, Firm, Typed, Packet
    <2> QED  BY <2>1 DEF Wf
  <1>2. q \in Seq(Packet) /\ ToSet(q) = ToSet(c.pktq[u]) \cup {p} /\ Len(q) = Len(c.pktq[u]) + 1
    BY <1>1, Pushed, SetOfPush
  <1>3. Enqueue(c, p, u) = d
    BY <1>1 DEF Enqueue, Wf, Fields
  <1> HIDE DEF q
  <1>4. /\ Wf(d) /\ DOMAIN d = DOMAIN c /\ d.pktq = [c.pktq EXCEPT ![u] = q]
        /\ d.cpkt = c.cpkt /\ d.freq = c.freq /\ d.rspq = c.rspq
        /\ d.csta = c.csta /\ d.pkt = c.pkt
    BY <1>1, <1>2 DEF Wf, Fields
  <1>5. /\ d.sa = c.sa /\ d.ci = c.ci /\ d.ri = c.ri
        /\ d.credits = c.credits /\ d.pbsy = c.pbsy /\ d.irq = c.irq
        /\ d.ton = c.ton /\ d.io = c.io /\ d.pak = c.pak /\ d.cmd = c.cmd
        /\ d.rsp = c.rsp /\ d.hat = c.hat
    BY <1>1 DEF Typed, Viewed
  <1> HIDE DEF d
  <1>6. d.pktq[u] = q /\ \A v \in Unit \ {u} : d.pktq[v] = c.pktq[v]
    BY <1>1, <1>4 DEF Wf
  <1>7. Load(d, u) + One(0) = Load(c, u) + One(p)
    <2>1. One(0) = 0 /\ One(p) = 1 /\ One(c.cpkt[u]) \in Nat /\ Len(c.pktq[u]) \in Nat
      BY <1>1 DEF One
    <2>2. Load(d, u) = Len(c.pktq[u]) + 1 + One(c.cpkt[u])
      <3>1. Len(d.pktq[u]) = Len(c.pktq[u]) + 1 /\ d.cpkt[u] = c.cpkt[u]
        BY <1>2, <1>4, <1>6
      <3> QED  BY <3>1 DEF Load
    <2>3. Load(c, u) = Len(c.pktq[u]) + One(c.cpkt[u])
      BY DEF Load
    <2>4. PICK x \in Nat, y \in Nat : x = Len(c.pktq[u]) /\ y = One(c.cpkt[u])
      BY <2>1
    <2>5. x + 1 + y + 0 = x + y + 1
      OBVIOUS
    <2> QED  BY <2>1, <2>2, <2>3, <2>4, <2>5
  <1>8. Shifted(c, d, u, p, 0)
    <2>1. /\ \A x \in ToSet(d.pktq[u]) : d.pak[x].unit = u /\ d.pak[x].ref # 0
          /\ d.cpkt[u] # 0 => d.pak[d.cpkt[u]].ref # 0
      BY <1>1, <1>2, <1>4, <1>5, <1>6 DEF Sound, Firm, Homed
    <2>2. \A x \in Packet : x = 0 \/ x = d.cpkt[u] \/ x \in ToSet(d.pktq[u])
                            <=> x = p \/ x = c.cpkt[u] \/ x \in ToSet(c.pktq[u])
      BY <1>1, <1>2, <1>4, <1>6
    <2> QED  BY <1>4, <1>5, <1>6, <1>7, <2>1, <2>2 DEF Shifted
  <1> QED  BY <1>1, <1>3, <1>4, <1>8, ShiftedSound DEF Done, Ok

\* rq_mscp: a command that does not come from the host finds its unit idle.
LEMMA MscpSound ==
  ASSUME NEW c, NEW p \in Packet, NEW g, Sound(c, p, 0, g), DriverTyped(g), Ok(c),
         c.pak[p].ref # 0, NEW q \in BOOLEAN, q \/ c.cpkt[c.pak[p].unit] = 0
  PROVE  Done(c, Mscp(c, p, q), g)
  <1> DEFINE u == c.pak[p].unit
             r == Ran(c, p)
  <1>1. u \in Present => u \in Unit
    BY MscpAssumption DEF Unit
  <1>2. Alike(c, r) /\ r.pkt = c.pkt /\ r.pak = c.pak /\ r.cpkt = c.cpkt /\ Ok(r)
    BY DEF Ran, Alike, Sound, Firm, Typed, Wf, Fields, Ok
  <1>3. CASE u \in Present /\ c.pak[p].op \in Deferrable /\ q /\ c.cpkt[u] # 0
    BY <1>1, <1>3, EnqueueSound DEF Mscp
  <1>4. CASE u \in Present /\ c.pak[p].op \in Deferrable /\ ~(q /\ c.cpkt[u] # 0)
    <2> HIDE DEF r
    <2>1. Mscp(c, p, q) = OnUnit(r, p)
      BY <1>4 DEF Mscp, r
    <2>2. OnUnit(r, p) \in {Available(r, p), Online(r, p), SetUnit(r, p), Format(r, p)}
            \/ OnUnit(r, p) = Transfer(r, p)
      BY <1>2, <1>4 DEF OnUnit, Deferrable
    <2>3. Sound(r, p, 0, g)
      BY <1>2, AlikeSound
    <2>4. Done(r, OnUnit(r, p), g)
      <3>1. Done(r, Transfer(r, p), g)
        BY <1>1, <1>2, <1>4, <2>3, TransferSound
      <3>2. \A d \in {Available(r, p), Online(r, p), SetUnit(r, p), Format(r, p)} : Done(r, d, g)
        BY <1>2, <2>3, SimpleSound
      <3> QED  BY <2>2, <3>1, <3>2
    <2> QED  BY <1>2, <2>1, <2>4 DEF Done
  <1>5. CASE c.pak[p].op \in Deferrable /\ u \notin Present
    BY <1>5, SimpleSound DEF Mscp
  <1>6. CASE c.pak[p].op = "abo"
    BY <1>6, AbortSound DEF Mscp, Deferrable
  <1>7. CASE c.pak[p].op \notin Deferrable \cup {"abo"}
    <2>1. Mscp(c, p, q) \in {SetController(c, p), UnitStatus(c, p),
                             Respond(c, p, "suc"), Respond(c, p, "cmd")}
      BY <1>7 DEF Mscp
    <2> QED  BY <2>1, SimpleSound
  <1> QED  BY <1>3, <1>4, <1>5, <1>6, <1>7

-----------------------------------------------------------------------------
(* The queue service *)

\* Between its parts nothing is in hand, and the controller is up or dead.
Resting(c, g) == Sound(c, 0, 0, g) /\ c.csta \in {"UP", "DEAD"}

LEMMA ServeUnitSound ==
  ASSUME NEW c, NEW g, Resting(c, g), DriverTyped(g), NEW u \in Unit
  PROVE  Resting(ServeUnit(c, u), g)
  <1>1. CASE Ok(c) /\ c.cpkt[u] = 0 /\ c.pktq[u] # <<>>
    <2> DEFINE p == Head(c.pktq[u])
               t == Tail(c.pktq[u])
               d == [c EXCEPT !.pktq[u] = t, !.pkt = p]
    <2>1. Wf(c) /\ Typed(c) /\ c.pktq[u] \in Seq(Packet)
      BY DEF Resting, Sound, Firm, Typed, Wf
    <2>2. /\ p \in Packet /\ t \in Seq(Packet) /\ ToSet(c.pktq[u]) = ToSet(t) \cup {p}
          /\ Len(t) = Len(c.pktq[u]) - 1
      BY <1>1, <2>1, Popped, SetOfPop
    <2>3. ServeUnit(c, u) = Mscp(d, p, FALSE)
      BY <1>1, <2>1 DEF ServeUnit, Wf, Fields
    <2> HIDE DEF p, t
    <2>4. /\ Wf(d) /\ DOMAIN d = DOMAIN c /\ d.pktq = [c.pktq EXCEPT ![u] = t]
          /\ d.cpkt = c.cpkt /\ d.freq = c.freq /\ d.rspq = c.rspq /\ d.csta = c.csta
      BY <2>1, <2>2 DEF Wf, Fields
    <2>5. /\ d.sa = c.sa /\ d.ci = c.ci /\ d.ri = c.ri
          /\ d.credits = c.credits /\ d.pbsy = c.pbsy /\ d.irq = c.irq
          /\ d.ton = c.ton /\ d.io = c.io /\ d.pak = c.pak /\ d.cmd = c.cmd
          /\ d.rsp = c.rsp /\ d.hat = c.hat
      BY <2>1 DEF Typed, Viewed
    <2> HIDE DEF d
    <2>6. Unqueued(c, d, u, p, t)
      BY <2>2, <2>4, <2>5 DEF Unqueued
    <2>7. Sound(d, p, 0, g) /\ c.pak[p].unit = u /\ d.pak[p].ref # 0
      <3>1. Sound(c, 0, 0, g)
        BY DEF Resting
      <3>2. Sound(d, p, 0, g)
        BY <2>6, <3>1, UnqueuedSound
      <3>3. c.pak[p].unit = u /\ d.pak[p].ref # 0
        BY <2>6, <3>1 DEF Unqueued, Sound, Firm, Homed
      <3> QED  BY <3>2, <3>3
    <2>8. Ok(d) /\ d.cpkt[d.pak[p].unit] = 0
      BY <1>1, <2>4, <2>5, <2>7 DEF Ok
    <2>9. Done(d, Mscp(d, p, FALSE), g)
      BY <2>2, <2>7, <2>8, MscpSound
    <2> QED  BY <2>3, <2>9 DEF Done, Resting
  <1>2. CASE ~(Ok(c) /\ c.cpkt[u] = 0 /\ c.pktq[u] # <<>>)
    BY <1>2 DEF ServeUnit
  <1> QED  BY <1>1, <1>2

\* The packet that was read from the ring, if any, is in hand until it is
\* dispatched.
LEMMA PollDispatchSound ==
  ASSUME NEW c, NEW g, Resting(c, g), DriverTyped(g)
  PROVE  Resting(Dispatch(c, PollHost(c)), g)
  <1> DEFINE d == PollHost(c)
             e == Dispatch(c, d)
  <1>1. Wf(c) /\ Typed(c) /\ Sound(c, 0, 0, g)
    BY DEF Resting, Sound, Firm, Typed
  <1>2. CASE Ok(c) /\ c.pkt = 0 /\ c.pip /\ c.cmd[c.ci].own
    <2>1. d = GetPkt(c)
      BY <1>2 DEF PollHost
    <2> HIDE DEF d
    <2>2. CASE d = Fatal(c) /\ Sound(d, 0, 0, g)
      <3>1. d.csta = "DEAD"
        BY <1>1, <2>2, ResetIdle DEF Wf
      <3> QED  BY <2>2, <3>1 DEF Dispatch, Resting, Ok, d
    <2>3. CASE Ok(d) /\ d.pkt \in Packet /\ Sound(d, d.pkt, 0, g) /\ d.pak[d.pkt].ref # 0
      <3>1. Typed(d) /\ d.pkt # 0
        BY <2>3 DEF Sound, Firm, Packet
      <3>2. Sound(Fatal(d), 0, 0, g) /\ Fatal(d).csta = "DEAD"
        BY <3>1, ResetSound, ResetIdle DEF Typed, Wf
      <3>3. Done(d, Respond(d, d.pkt, "cmd"), g)
        BY <2>3, SimpleSound
      <3>4. Done(d, Mscp(d, d.pkt, TRUE), g)
        BY <2>3, MscpSound
      <3>5. e \in {Fatal(d), Respond(d, d.pkt, "cmd"), Mscp(d, d.pkt, TRUE)}
        BY <1>2, <2>3, <3>1 DEF Dispatch
      <3> QED  BY <3>2, <3>3, <3>4, <3>5 DEF Done, Resting, d
    <2> QED  BY <1>1, <1>2, <2>1, <2>2, <2>3, GetPktSound
  <1>3. CASE Ok(c) /\ c.pkt = 0 /\ c.pip /\ ~c.cmd[c.ci].own
    <2>1. d = [c EXCEPT !.pip = FALSE]
      BY <1>3 DEF PollHost
    <2>2. Alike(c, d) /\ d.pkt = 0
      BY <1>1, <1>3, <2>1 DEF Alike, Wf, Fields
    <2>3. e = d
      BY <2>2 DEF Dispatch
    <2> HIDE DEF d
    <2>4. Sound(d, 0, 0, g)
      BY <1>1, <2>2, AlikeSound
    <2> QED  BY <2>2, <2>3, <2>4 DEF Resting, Alike, d
  <1>4. CASE ~(Ok(c) /\ c.pkt = 0 /\ c.pip)
    <2>1. d = c
      BY <1>4 DEF PollHost
    <2> QED  BY <2>1 DEF Dispatch
  <1> QED  BY <1>2, <1>3, <1>4

LEMMA PutQueuedSound ==
  ASSUME NEW c, NEW g, Resting(c, g), DriverTyped(g)
  PROVE  Resting(PutQueued(c), g)
  <1>1. CASE Ok(c) /\ c.rspq # <<>>
    <2> DEFINE p == Head(c.rspq)
               t == Tail(c.rspq)
               d == [c EXCEPT !.rspq = t, !.pkt = p]
    <2>1. Wf(c) /\ Typed(c) /\ c.rspq \in Seq(Packet) /\ 0 \notin Packet
      BY DEF Resting, Sound, Firm, Typed, Wf, Packet
    <2>2. /\ p \in Packet /\ t \in Seq(Packet) /\ ToSet(c.rspq) = ToSet(t) \cup {p}
          /\ Len(t) = Len(c.rspq) - 1
      BY <1>1, <2>1, Popped, SetOfPop
    <2>3. PutQueued(c) = PutPkt(d, p, FALSE)
      BY <1>1, <2>1 DEF PutQueued, Wf, Fields
    <2> HIDE DEF p, t
    <2>4. /\ Wf(d) /\ DOMAIN d = DOMAIN c /\ d.rspq = t
          /\ d.pktq = c.pktq /\ d.cpkt = c.cpkt /\ d.freq = c.freq /\ d.csta = c.csta
      BY <2>1, <2>2 DEF Wf, Fields
    <2>5. /\ d.sa = c.sa /\ d.ci = c.ci /\ d.ri = c.ri
          /\ d.credits = c.credits /\ d.pbsy = c.pbsy /\ d.irq = c.irq
          /\ d.ton = c.ton /\ d.io = c.io /\ d.pak = c.pak /\ d.cmd = c.cmd
          /\ d.rsp = c.rsp /\ d.hat = c.hat
      BY <2>1 DEF Typed, Viewed
    <2> HIDE DEF d
    <2>6. Typed(d)
      BY <2>1, <2>4, <2>5 DEF Typed, RingsTyped
    <2>7. Counted(d, p, 0)
      <3>1. Total(d) = Total(c) /\ Total(c) \in Nat /\ Len(c.rspq) \in Nat
        BY <2>1, <2>4, TotalSame, TotalNat, BusySet
      <3>2. One(0) = 0 /\ One(p) = 1
        BY <2>1, <2>2 DEF One
      <3>3. c.pbsy = Len(c.rspq) + Total(c) + 0 + 0 /\ Len(c.freq) + c.pbsy = NPkts - 1
        BY <3>2 DEF Resting, Sound, Firm, Counted
      <3>4. c.pbsy = (Len(c.rspq) - 1) + Total(c) + 1 + 0
        BY <3>1, <3>3
      <3> QED  BY <2>2, <2>4, <2>5, <3>1, <3>2, <3>3, <3>4 DEF Counted
    <2>8. \A x \in Packet : Uses(d, p, 0, x) <=> Uses(c, 0, 0, x)
      BY <2>1, <2>2, <2>4 DEF Uses
    <2>9. Covered(d, p, 0) /\ Homed(d) /\ Quiet(d, p, 0)
      BY <2>2, <2>4, <2>5, <2>8 DEF Resting, Sound, Firm, Covered, Homed, Quiet
    <2>10. RingOk(d, g)
      BY <2>4, <2>5 DEF Resting, Sound, Firm, RingOk, Waiting, Ok
    <2>13. Placed(d, g) /\ Closed(d.pak[p])
      BY <2>2, <2>4, <2>5, PlacedSame DEF Resting, Sound, Firm, Homed
    <2>11. Sound(d, p, 0, g) /\ Ok(d)
      BY <1>1, <2>4, <2>6, <2>7, <2>9, <2>10, <2>13 DEF Sound, Firm, Ok
    <2>12. Sound(PutPkt(d, p, FALSE), 0, 0, g) /\ Kept(d, PutPkt(d, p, FALSE))
      BY <2>2, <2>11, <2>13, PutPktSound
    <2> QED  BY <2>3, <2>11, <2>12 DEF Resting, Kept, Ok
  <1>2. CASE ~(Ok(c) /\ c.rspq # <<>>)
    BY <1>2 DEF PutQueued
  <1> QED  BY <1>1, <1>2

LEMMA QueueServiceSound ==
  ASSUME Sound(ctlr, 0, 0, host), DriverTyped(host), QueueService
  PROVE  Resting(ctlr', host) /\ ctlr'.pkt = 0
  <1> DEFINE c == [ctlr EXCEPT !.qon = FALSE, !.pkt = 0]
             c0 == ServeUnit(c, 0)
             c1 == ServeUnit(c0, 1)
             c2 == ServeUnit(c1, 2)
             c3 == ServeUnit(c2, 3)
             c4 == PollHost(c3)
             c5 == Dispatch(c3, c4)
             c6 == PutQueued(c5)
             d == GoOn(c6)
  <1>1. Resting(c, host)
    <2>1. Wf(ctlr) /\ Ok(ctlr)
      BY DEF Sound, Firm, Typed, QueueService
    <2>2. Alike(ctlr, c) /\ c.csta = ctlr.csta
      BY <2>1 DEF Alike, Wf, Fields
    <2> HIDE DEF c
    <2> QED  BY <2>1, <2>2, AlikeSound DEF Resting, Ok
  <1> HIDE DEF c, c0, c1, c2, c3, c4, c5, c6, d
  <1>2. ctlr' = d
    BY Zenon DEF QueueService, Become, c, c0, c1, c2, c3, c4, c5, c6, d
  <1>3. 0 \in Unit /\ 1 \in Unit /\ 2 \in Unit /\ 3 \in Unit
    BY DEF Unit
  <1>4. Resting(c0, host)
    BY <1>1, <1>3, ServeUnitSound DEF c0
  <1>5. Resting(c1, host)
    BY <1>3, <1>4, ServeUnitSound DEF c1
  <1>6. Resting(c2, host)
    BY <1>3, <1>5, ServeUnitSound DEF c2
  <1>7. Resting(c3, host)
    BY <1>3, <1>6, ServeUnitSound DEF c3
  <1>8. Resting(c5, host)
    BY <1>7, PollDispatchSound DEF c4, c5
  <1>9. Resting(c6, host)
    BY <1>8, PutQueuedSound DEF c6
  <1>10. Wf(c6) /\ d.pkt = 0 /\ Alike(c6, d) /\ d.csta = c6.csta
    <2>1. Wf(c6)
      BY <1>9 DEF Resting, Sound, Firm, Typed
    <2> QED  BY <2>1 DEF GoOn, d, Alike, Wf, Fields
  <1>11. Resting(d, host)
    BY <1>9, <1>10, AlikeSound DEF Resting
  <1> QED  BY <1>2, <1>10, <1>11

-----------------------------------------------------------------------------
(* The units and the clock *)

\* rq_rw_end
LEMMA RwEndSound ==
  ASSUME NEW c, NEW g, Sound(c, 0, 0, g), DriverTyped(g), Ok(c),
         NEW u \in Unit, c.cpkt[u] # 0, NEW sts
  PROVE  Done(c, RwEnd(c, u, sts), g)
  <1> DEFINE p == c.cpkt[u]
             a == [c EXCEPT !.cpkt[u] = 0]
             d == Respond(a, p, sts)
             e == [d EXCEPT !.qon = @ \/ (Ok(d) /\ d.pktq[u] # <<>>)]
  <1>1. Wf(c) /\ Typed(c)
    BY DEF Sound, Firm, Typed
  <1>2. /\ Wf(a) /\ DOMAIN a = DOMAIN c /\ a.cpkt = [c.cpkt EXCEPT ![u] = 0]
        /\ a.pktq = c.pktq /\ a.freq = c.freq /\ a.rspq = c.rspq
        /\ a.csta = c.csta /\ a.pkt = c.pkt
    BY <1>1 DEF Wf, Fields
  <1>3. /\ a.sa = c.sa /\ a.ci = c.ci /\ a.ri = c.ri
        /\ a.credits = c.credits /\ a.pbsy = c.pbsy /\ a.irq = c.irq
        /\ a.ton = c.ton /\ a.io = c.io /\ a.pak = c.pak /\ a.cmd = c.cmd
        /\ a.rsp = c.rsp /\ a.hat = c.hat
    BY <1>1 DEF Typed, Viewed
  <1>4. RwEnd(c, u, sts) = e
    BY DEF RwEnd
  <1> HIDE DEF a
  <1>5. p \in Packet /\ Sound(a, p, 0, g) /\ a.pak[p].ref # 0
    BY <1>2, <1>3, FreedSound
  <1> HIDE DEF p
  <1>6. Sound(d, 0, 0, g) /\ Kept(a, d)
    BY <1>2, <1>5, RespondSound DEF Ok
  <1> HIDE DEF d
  <1>7. Alike(d, e) /\ e.pkt = d.pkt
    BY <1>6 DEF Sound, Firm, Typed, Alike, Wf, Fields
  <1>8. Sound(e, 0, 0, g)
    BY <1>6, <1>7, AlikeSound
  <1> QED  BY <1>2, <1>4, <1>6, <1>7, <1>8 DEF Done, Kept, Alike, Ok

LEMMA FatalDone ==
  ASSUME NEW c, NEW g, Typed(c)
  PROVE  Done(c, Fatal(c), g)
  <1>1. Fatal(c).pkt = c.pkt
    BY DEF Fatal, Reset, Typed, Wf, Fields
  <1>2. Fatal(c).csta = "DEAD"
    BY ResetIdle DEF Typed, Wf
  <1> QED  BY <1>1, <1>2, ResetSound DEF Done

LEMMA RwErrorSound ==
  ASSUME NEW c, NEW g, Sound(c, 0, 0, g), DriverTyped(g), Ok(c),
         NEW u \in Unit, c.cpkt[u] # 0, NEW sts
  PROVE  Done(c, RwError(c, u, sts), g)
  <1> DEFINE d == LogError(c, u)
  <1>1. Sends(c, d, g)
    BY LogSound
  <1>2. RwError(c, u, sts) = IF Ok(d) THEN RwEnd(d, u, sts) ELSE d
    BY DEF RwError
  <1> HIDE DEF d
  <1>3. CASE d = Fatal(c)
    <2>1. Done(c, d, g) /\ ~Ok(d)
      BY <1>3, FatalDone, ResetIdle DEF Sound, Firm, Typed, Wf, Ok
    <2> QED  BY <1>2, <2>1
  <1>4. CASE Kept(c, d)
    <2>1. Ok(d) /\ d.cpkt[u] # 0 /\ Sound(d, 0, 0, g) /\ d.pkt = c.pkt
      BY <1>1, <1>4 DEF Sends, Kept, Ok
    <2>2. Done(d, RwEnd(d, u, sts), g)
      BY <2>1, RwEndSound
    <2> QED  BY <1>2, <2>1, <2>2 DEF Done
  <1> QED  BY <1>1, <1>3, <1>4 DEF Sends

\* The two halves of a transfer change a packet's length and io_complete.
Relabelled(c, d) ==
  /\ Wf(d) /\ DOMAIN d = DOMAIN c /\ d.pkt = c.pkt
  /\ d.io \in [Unit -> {"none", "ok", "bad"}]
  /\ DOMAIN d.pak = Packet
  /\ \A x \in Packet : /\ DOMAIN d.pak[x] = DOMAIN c.pak[x]
                       /\ d.pak[x].ref = c.pak[x].ref /\ d.pak[x].unit = c.pak[x].unit
                       /\ d.pak[x].typ = c.pak[x].typ /\ d.pak[x].end = c.pak[x].end
  /\ d.csta = c.csta /\ d.sa = c.sa /\ d.ci = c.ci /\ d.ri = c.ri
  /\ d.credits = c.credits /\ d.pbsy = c.pbsy /\ d.irq = c.irq /\ d.ton = c.ton
  /\ d.cmd = c.cmd /\ d.rsp = c.rsp /\ d.hat = c.hat
  /\ d.freq = c.freq /\ d.rspq = c.rspq /\ d.pktq = c.pktq /\ d.cpkt = c.cpkt

LEMMA RelabelledSound ==
  ASSUME NEW c, NEW d, NEW g, Sound(c, 0, 0, g), Relabelled(c, d)
  PROVE  Sound(d, 0, 0, g)
  <1>1. Typed(d)
    <2>1. \A x \in Packet : Tagged(d.pak[x])
      BY DEF Sound, Firm, Typed, Tagged, Relabelled
    <2> QED  BY <2>1 DEF Sound, Firm, Typed, RingsTyped, Relabelled
  <1>2. /\ Counted(d, 0, 0) /\ Covered(d, 0, 0)
        /\ \A p : Uses(d, 0, 0, p) => Uses(c, 0, 0, p)
    BY SameLists DEF Sound, Firm, Relabelled
  <1>3. Homed(d) /\ Quiet(d, 0, 0)
    <2>1. /\ ToSet(c.rspq) \subseteq Packet /\ \A u \in Unit : ToSet(c.pktq[u]) \subseteq Packet
          /\ \A u \in Unit : c.cpkt[u] \in Packet \cup {0}
      <3>1. /\ c.pktq \in [Unit -> Seq(Packet)] /\ c.rspq \in Seq(Packet)
            /\ c.cpkt \in [Unit -> Packet \cup {0}]
        BY DEF Sound, Firm, Typed, Wf
      <3> QED  BY <3>1 DEF ToSet
    <2> QED  BY <1>2, <2>1 DEF Sound, Firm, Homed, Quiet, Relabelled, Closed
  <1>4. RingOk(d, g)
    BY DEF Sound, Firm, RingOk, Waiting, Ok, Relabelled
  <1>5. Placed(d, g)
    BY PlacedSame DEF Sound, Relabelled
  <1> QED  BY <1>1, <1>2, <1>3, <1>4, <1>5 DEF Sound, Firm

\* Some halves: the buffer is filled, or a part of the transfer is done.
LEMMA StartIoSound ==
  ASSUME NEW c, NEW g, Sound(c, 0, 0, g), Ok(c), NEW u \in Unit,
         NEW status \in {"ok", "bad", "nothing"}
  PROVE  Done(c, StartIo(c, u, status), g)
  <1>1. CASE status = "nothing"
    BY <1>1 DEF StartIo, Done, Ok
  <1>2. CASE status # "nothing"
    <2> DEFINE d == [c EXCEPT !.io[u] = status, !.buf[u] = Work(c, u), !.uon[u] = TRUE]
    <2>1. Wf(c) /\ Typed(c)
      BY DEF Sound, Firm, Typed
    <2>2. d.io \in [Unit -> {"none", "ok", "bad"}]
      BY <1>2, <2>1 DEF Typed, Viewed
    <2>3. Relabelled(c, d)
      BY <2>1, <2>2 DEF Relabelled, Typed, Viewed, Wf, Fields
    <2>4. StartIo(c, u, status) = d
      BY <1>2 DEF StartIo
    <2> HIDE DEF d
    <2> QED  BY <2>3, <2>4, RelabelledSound DEF Done, Relabelled, Ok
  <1> QED  BY <1>1, <1>2

LEMMA PartDone ==
  ASSUME NEW c0, Typed(c0), NEW u \in Unit, c0.cpkt[u] # 0
  PROVE  LET c == [c0 EXCEPT !.io[u] = "none"]
         IN  Relabelled(c0, c) /\ Relabelled(c0, [c EXCEPT !.pak[c.cpkt[u]].len = @ - 1])
  <1> DEFINE c == [c0 EXCEPT !.io[u] = "none"]
             p == c0.cpkt[u]
             k == [c0.pak[p] EXCEPT !.len = @ - 1]
             more == [c EXCEPT !.pak[c.cpkt[u]].len = @ - 1]
  <1>1. Wf(c0) /\ Typed(c0)
    BY DEF Typed
  <1>2. c0.io \in [Unit -> {"none", "ok", "bad"}] /\ p \in Packet
    BY <1>1 DEF Typed, Wf
  <1>3. Relabelled(c0, c)
    BY <1>1, <1>2 DEF Relabelled, Typed, Viewed, Wf, Fields
  <1>4. more = [c EXCEPT !.pak = [c0.pak EXCEPT ![p] = k]]
    BY <1>1 DEF Typed, Viewed, Fields, Wf
  <1>5. /\ DOMAIN k = DOMAIN c0.pak[p] /\ k.ref = c0.pak[p].ref /\ k.unit = c0.pak[p].unit
        /\ k.typ = c0.pak[p].typ /\ k.end = c0.pak[p].end
    BY <1>1, <1>2 DEF Typed, Tagged
  <1> HIDE DEF c, p, k, more
  <1>6. /\ DOMAIN more = DOMAIN c /\ more.pak = [c0.pak EXCEPT ![p] = k] /\ Wf(more)
        /\ more.io = c.io /\ more.pkt = c.pkt
        /\ more.csta = c.csta /\ more.sa = c.sa /\ more.ci = c.ci /\ more.ri = c.ri
        /\ more.credits = c.credits /\ more.pbsy = c.pbsy /\ more.irq = c.irq
        /\ more.ton = c.ton /\ more.cmd = c.cmd /\ more.rsp = c.rsp /\ more.hat = c.hat
        /\ more.freq = c.freq /\ more.rspq = c.rspq /\ more.pktq = c.pktq
        /\ more.cpkt = c.cpkt /\ more.uon = c.uon
    BY <1>1, <1>3, <1>4 DEF Typed, Viewed, Relabelled, Wf, Fields
  <1>7. Relabelled(c0, more)
    <2>1. /\ DOMAIN more.pak = Packet
          /\ \A x \in Packet :
               /\ DOMAIN more.pak[x] = DOMAIN c0.pak[x]
               /\ more.pak[x].ref = c0.pak[x].ref /\ more.pak[x].unit = c0.pak[x].unit
               /\ more.pak[x].typ = c0.pak[x].typ /\ more.pak[x].end = c0.pak[x].end
      BY <1>1, <1>2, <1>5, <1>6 DEF Typed
    <2> QED  BY <1>3, <1>6, <2>1 DEF Relabelled
  <1> QED  BY <1>3, <1>7 DEF c, more

LEMMA FinishIoSound ==
  ASSUME NEW c0, NEW g, Sound(c0, 0, 0, g), DriverTyped(g), Ok(c0),
         NEW u \in Unit, c0.cpkt[u] # 0, NEW memory
  PROVE  Done(c0, FinishIo(c0, u, memory), g)
  <1> DEFINE c == [c0 EXCEPT !.io[u] = "none"]
             more == [c EXCEPT !.pak[c.cpkt[u]].len = @ - 1]
             again == [more EXCEPT !.uon[u] = TRUE]
             d == FinishIo(c0, u, memory)
  <1>1. Relabelled(c0, c) /\ Relabelled(c0, more)
    BY PartDone DEF Sound, Firm
  <1> HIDE DEF c, more
  <1>2. Sound(c, 0, 0, g) /\ Sound(more, 0, 0, g)
    BY <1>1, RelabelledSound
  <1>3. /\ Ok(c) /\ c.cpkt[u] # 0 /\ c.pkt = c0.pkt
        /\ Ok(more) /\ more.cpkt[u] # 0 /\ more.pkt = c0.pkt
    BY <1>1 DEF Relabelled, Ok
  <1>4. \/ \E sts \in {"hst", "drv"} : d = RwError(c, u, sts)
        \/ d = RwEnd(c, u, "cmp") \/ d = RwEnd(more, u, "suc") \/ d = again
    BY DEF FinishIo, c, more, d
  <1> HIDE DEF d
  <1>5. Alike(more, again) /\ again.pkt = more.pkt
    BY <1>1 DEF Relabelled, Alike, Wf, Fields
  <1>6. Done(c0, again, g)
    BY <1>2, <1>3, <1>5, AlikeSound DEF Done, Alike, Ok
  <1>7. Done(c, RwEnd(c, u, "cmp"), g) /\ Done(more, RwEnd(more, u, "suc"), g)
    BY <1>2, <1>3, RwEndSound
  <1>8. \A sts \in {"hst", "drv"} : Done(c, RwError(c, u, sts), g)
    BY <1>2, <1>3, RwErrorSound
  <1> QED  BY <1>3, <1>4, <1>6, <1>7, <1>8 DEF Done, d

LEMMA UnitServiceSound ==
  ASSUME Sound(ctlr, 0, 0, host), DriverTyped(host), ~Ok(ctlr) => Idle(ctlr),
         NEW u \in Unit, UnitService(u)
  PROVE  Ok(ctlr) /\ Done(ctlr, ctlr', host) /\ host' = host
  <1> DEFINE c == [ctlr EXCEPT !.uon[u] = FALSE]
  <1>1. Ok(ctlr) /\ ctlr.cpkt[u] # 0
    BY DEF UnitService, Idle
  <1>2. Wf(ctlr)
    BY DEF Sound, Firm, Typed
  <1>3. /\ host' = host
        /\ \/ ctlr' = RwEnd(c, u, "ofl") \/ ctlr' = RwEnd(c, u, "suc")
           \/ \E status \in {"ok", "bad", "nothing"} : ctlr' = StartIo(c, u, status)
           \/ \E fault : ctlr' = FinishIo(c, u, fault)
    BY DEF UnitService
  <1>4. Alike(ctlr, c) /\ c.pkt = ctlr.pkt
    BY <1>2 DEF Alike, Wf, Fields
  <1> HIDE DEF c
  <1>5. Sound(c, 0, 0, host) /\ Ok(c) /\ c.cpkt[u] # 0
    BY <1>1, <1>4, AlikeSound DEF Alike, Ok
  <1>6. Done(c, RwEnd(c, u, "ofl"), host) /\ Done(c, RwEnd(c, u, "suc"), host)
    BY <1>5, RwEndSound
  <1>7. \A status \in {"ok", "bad", "nothing"} : Done(c, StartIo(c, u, status), host)
    BY <1>5, StartIoSound
  <1>8. \A fault : Done(c, FinishIo(c, u, fault), host)
    BY <1>5, FinishIoSound
  <1>9. Done(c, ctlr', host)
    BY <1>3, <1>6, <1>7, <1>8
  <1> QED  BY <1>1, <1>3, <1>4, <1>9 DEF Done

\* What the clock makes of a controller.
Timed(c, d, g) ==
  /\ Sound(d, 0, 0, g) /\ d.pkt = c.pkt
  /\ IF Ok(c) THEN d.csta \in {"UP", "DEAD"} ELSE d = c

LEMMA AttendSound ==
  ASSUME NEW c, NEW g, Sound(c, 0, 0, g), DriverTyped(g), NEW u
  PROVE  Timed(c, Attend(c, u), g)
  <1>1. CASE ~Ok(c)
    BY <1>1 DEF Attend, Timed
  <1>2. CASE Ok(c)
    <2> DEFINE d == IF c.atp[u] /\ c.att[u] /\ c.atn THEN Attention(c, u) ELSE c
               e == [d EXCEPT !.atp[u] = FALSE]
    <2>1. Attend(c, u) = IF Ok(d) THEN e ELSE d
      BY <1>2 DEF Attend
    <2>2. Sends(c, Attention(c, u), g) /\ Sends(c, c, g)
      BY <1>2, LogSound DEF Sends, Kept
    <2>3. Sends(c, d, g)
      BY <2>2
    <2> HIDE DEF d
    <2>4. Done(c, d, g)
      BY <1>2, <2>3, FatalDone DEF Sends, Kept, Done, Ok, Sound, Firm
    <2>5. Wf(d)
      BY <2>4 DEF Done, Sound, Firm, Typed
    <2>6. Alike(d, e) /\ e.pkt = d.pkt
      BY <2>5 DEF Alike, Wf, Fields
    <2>7. Done(c, e, g)
      BY <2>4, <2>6, AlikeSound DEF Done, Alike
    <2> QED  BY <1>2, <2>1, <2>4, <2>7 DEF Timed, Done
  <1> QED  BY <1>1, <1>2

LEMMA HostTimerSound ==
  ASSUME NEW c, NEW g, Sound(c, 0, 0, g)
  PROVE  Timed(c, HostTimer(c), g)
  <1> DEFINE d == [c EXCEPT !.hat = @ - 1]
  <1>1. Wf(c) /\ Typed(c)
    BY DEF Sound, Firm, Typed
  <1>2. CASE ~Ok(c) \/ c.hat = 0
    BY <1>2 DEF HostTimer, Timed, Ok
  <1>3. CASE Ok(c) /\ c.hat = 1
    <2>1. HostTimer(c) = Fatal(c)
      BY <1>3 DEF HostTimer
    <2> QED  BY <1>1, <1>3, <2>1, FatalDone DEF Timed, Done
  <1>4. CASE Ok(c) /\ c.hat # 0 /\ c.hat # 1
    <2>1. HostTimer(c) = d
      BY <1>4 DEF HostTimer
    <2>2. /\ Wf(d) /\ DOMAIN d = DOMAIN c /\ d.csta = c.csta /\ d.pkt = c.pkt
          /\ d.freq = c.freq /\ d.rspq = c.rspq /\ d.pktq = c.pktq /\ d.cpkt = c.cpkt
      BY <1>1 DEF Wf, Fields
    <2>3. /\ d.sa = c.sa /\ d.ci = c.ci /\ d.ri = c.ri
          /\ d.credits = c.credits /\ d.pbsy = c.pbsy /\ d.irq = c.irq
          /\ d.ton = c.ton /\ d.io = c.io /\ d.pak = c.pak /\ d.cmd = c.cmd
          /\ d.rsp = c.rsp
      BY <1>1 DEF Typed, Viewed
    <2> HIDE DEF d
    <2>4. Typed(d)
      BY <1>1, <2>2, <2>3 DEF Typed, RingsTyped
    <2>5. /\ Counted(d, 0, 0) /\ Covered(d, 0, 0)
          /\ \A p : Uses(d, 0, 0, p) => Uses(c, 0, 0, p)
      BY <2>2, <2>3, SameLists DEF Sound, Firm
    <2>6. Homed(d) /\ Quiet(d, 0, 0)
      BY <1>4, <2>2, <2>3, <2>5 DEF Sound, Firm, Homed, Quiet
    <2>7. RingOk(d, g)
      BY <2>2, <2>3 DEF Sound, Firm, RingOk, Waiting, Ok
    <2>8. Placed(d, g)
      BY <2>2, <2>3, PlacedSame DEF Sound
    <2> QED  BY <1>4, <2>1, <2>2, <2>4, <2>5, <2>6, <2>7, <2>8 DEF Sound, Firm, Timed, Ok
  <1> QED  BY <1>2, <1>3, <1>4

LEMMA TimerServiceSound ==
  ASSUME Sound(ctlr, 0, 0, host), DriverTyped(host), TimerService
  PROVE  Timed(ctlr, ctlr', host) /\ host' = host
  <1> DEFINE c0 == Attend(ctlr, 0)
             c1 == Attend(c0, 1)
             c2 == Attend(c1, 2)
             c3 == Attend(c2, 3)
             d == HostTimer(c3)
  <1> HIDE DEF c0, c1, c2, c3, d
  <1>1. ctlr' = d /\ host' = host
    BY Zenon DEF TimerService, Become, c0, c1, c2, c3, d
  <1>2. Timed(ctlr, c0, host)
    BY AttendSound DEF c0
  <1>3. Timed(c0, c1, host)
    BY <1>2, AttendSound DEF c1, Timed
  <1>4. Timed(c1, c2, host)
    BY <1>3, AttendSound DEF c2, Timed
  <1>5. Timed(c2, c3, host)
    BY <1>4, AttendSound DEF c3, Timed
  <1>6. Timed(c3, d, host)
    BY <1>5, HostTimerSound DEF d, Timed
  <1> QED  BY <1>1, <1>2, <1>3, <1>4, <1>5, <1>6 DEF Timed, Ok

-----------------------------------------------------------------------------
(* The phases, the registers and the rings *)

\* d differs from c in the phase and the registers, in the rings and in what
\* Sound does not look at.
Beside(c, d) ==
  /\ Wf(d) /\ DOMAIN d = DOMAIN c /\ d.pkt = c.pkt
  /\ d.csta \in States /\ d.sa \in {"S1", "S2", "S3", "S4", "echo", "zero", "error"}
  /\ (d.csta = "S4" <=> d.sa = "S4")
  /\ d.ci \in 0 .. CmdRing - 1 /\ d.ri \in 0 .. RspRing - 1
  /\ d.irq \in BOOLEAN /\ d.ton \in BOOLEAN
  /\ RingsTyped(d)
  /\ d.credits = c.credits /\ d.pbsy = c.pbsy
  /\ d.io = c.io /\ d.pak = c.pak /\ d.hat = c.hat
  /\ d.freq = c.freq /\ d.rspq = c.rspq /\ d.pktq = c.pktq /\ d.cpkt = c.cpkt

LEMMA BesideSound ==
  ASSUME NEW c, NEW d, NEW g, NEW h, Sound(c, 0, 0, g), Beside(c, d), RingOk(d, h),
         Placed(d, h)
  PROVE  Sound(d, 0, 0, h) /\ d.pkt = c.pkt
  <1>1. Typed(d)
    BY DEF Sound, Firm, Typed, Beside
  <1>2. /\ Counted(d, 0, 0) /\ Covered(d, 0, 0)
        /\ \A p : Uses(d, 0, 0, p) => Uses(c, 0, 0, p)
    BY SameLists DEF Sound, Firm, Beside
  <1>3. Homed(d) /\ Quiet(d, 0, 0)
    BY <1>2 DEF Sound, Firm, Homed, Quiet, Beside
  <1> QED  BY <1>1, <1>2, <1>3 DEF Sound, Firm, Beside

\* A record that differs from c in what no phase and no ring shows.
LEMMA SameBeside ==
  ASSUME NEW c, Typed(c), NEW d, Wf(d), DOMAIN d = DOMAIN c, d.pkt = c.pkt,
         d.ton \in BOOLEAN, d.csta = c.csta, d.sa = c.sa, d.ci = c.ci, d.ri = c.ri,
         d.credits = c.credits, d.pbsy = c.pbsy, d.irq = c.irq,
         d.io = c.io, d.pak = c.pak, d.cmd = c.cmd, d.rsp = c.rsp, d.hat = c.hat,
         d.freq = c.freq, d.rspq = c.rspq, d.pktq = c.pktq, d.cpkt = c.cpkt
  PROVE  Beside(c, d)
  BY DEF Typed, RingsTyped, Beside

\* The driver's step goes with a controller that is up, or has died.
LEMMA AgreeUp ==
  ASSUME NEW c, NEW d, NEW g, Agree(c, g), Ok(c), d.csta \in {"UP", "DEAD"}
  PROVE  Agree(d, g)
  BY DEF Agree, Ok

LEMMA AgreeSame ==
  ASSUME NEW c, NEW d, NEW g, Agree(c, g), d.csta = c.csta, d.saw = c.saw,
         d.ri = c.ri, d.rsp = c.rsp, d.cmd = c.cmd, d.credits = c.credits
  PROVE  Agree(d, g)
  BY DEF Agree

\* rq_step4: the rings are cleared.
LEMMA Step4Sound ==
  ASSUME NEW c, NEW g, NEW h, Sound(c, 0, 0, g), ~Ok(c)
  PROVE  /\ Sound(Step4(c), 0, 0, h) /\ Step4(c).pkt = c.pkt
         /\ Step4(c).csta = "S4" /\ Step4(c).ri = 0 /\ Step4(c).saw = c.saw
         /\ Step4(c).credits = c.credits
         /\ \A i \in 0 .. CmdRing - 1 : ~Step4(c).cmd[i].own
  <1> DEFINE d == Step4(c)
  <1>1. Typed(c) /\ Wf(c)
    BY DEF Sound, Firm, Typed
  <1>2. /\ DOMAIN d = DOMAIN c /\ d.sa = "S4" /\ d.csta = "S4" /\ d.ci = 0 /\ d.ri = 0
        /\ d.irq = TRUE /\ d.ton = c.ton /\ d.saw = c.saw
        /\ d.cmd = [i \in 0 .. CmdRing - 1 |-> Returned(NoPacket)]
        /\ d.rsp = [i \in 0 .. RspRing - 1 |-> Returned(NoPacket)]
    BY <1>1 DEF Step4, InitInt, Typed, RingsTyped, Viewed
  <1>3. /\ d.credits = c.credits /\ d.pbsy = c.pbsy /\ d.pkt = c.pkt
        /\ d.io = c.io /\ d.pak = c.pak /\ d.hat = c.hat /\ d.uon = c.uon
        /\ d.freq = c.freq /\ d.rspq = c.rspq /\ d.pktq = c.pktq /\ d.cpkt = c.cpkt
        /\ d.qon = c.qon /\ d.pip = c.pip
    BY <1>1 DEF Step4, InitInt, Typed, Viewed, Fields
  <1> HIDE DEF d
  <1>4. Wf(d)
    BY <1>1, <1>2, <1>3 DEF Wf
  <1>5. Asked(Returned(NoPacket)) /\ Said(Returned(NoPacket)) /\ ~Returned(NoPacket).own
    BY DEF Returned, NoPacket, Tagged, Closed, Asked, Said
  <1>6. 0 \in 0 .. CmdRing - 1 /\ 0 \in 0 .. RspRing - 1
    BY MscpAssumption
  <1>7. Beside(c, d)
    <2>1. \A i \in 0 .. CmdRing - 1 : d.cmd[i] = Returned(NoPacket)
      BY <1>2
    <2>2. \A i \in 0 .. RspRing - 1 : d.rsp[i] = Returned(NoPacket)
      BY <1>2
    <2>3. DOMAIN d.cmd = 0 .. CmdRing - 1 /\ DOMAIN d.rsp = 0 .. RspRing - 1
      BY <1>2
    <2>4. \A i \in 0 .. CmdRing - 1 : Asked(d.cmd[i])
      BY <1>5, <2>1
    <2>5. \A i \in 0 .. RspRing - 1 : Said(d.rsp[i])
      BY <1>5, <2>2
    <2>6. d.csta \in States /\ d.ton \in BOOLEAN /\ d.irq \in BOOLEAN
      BY <1>1, <1>2 DEF Typed, States
    <2>7. d.ci \in 0 .. CmdRing - 1 /\ d.ri \in 0 .. RspRing - 1
      BY <1>2, <1>6
    <2> QED  BY <1>2, <1>3, <1>4, <2>3, <2>4, <2>5, <2>6, <2>7 DEF Beside, RingsTyped
  <1>8. RingOk(d, h)
    BY <1>2 DEF RingOk, Ok
  <1>9. Placed(d, h)
    BY <1>2, <1>3 DEF Sound, Placed, Ok
  <1>10. \A i \in 0 .. CmdRing - 1 : ~d.cmd[i].own
    BY <1>2, <1>5
  <1> QED  BY <1>2, <1>3, <1>7, <1>8, <1>9, <1>10, BesideSound DEF d

\* The last step of the initialisation: the controller goes up, and may send
\* the packet about its last failure.
LEMMA UpSound ==
  ASSUME NEW c, NEW g, Sound(c, 0, 0, g), DriverTyped(g), Agree(c, g),
         c.csta = "S4", c.saw \in {"go", "golf"}
  PROVE  LET up == [c EXCEPT !.csta = "UP", !.sa = "zero", !.ton = TRUE]
         IN  Sound(up, 0, 0, g) /\ Ok(up) /\ up.pkt = c.pkt
  <1> DEFINE up == [c EXCEPT !.csta = "UP", !.sa = "zero", !.ton = TRUE]
  <1>1. Typed(c) /\ Wf(c)
    BY DEF Sound, Firm, Typed
  <1>2. /\ g.step = "wait" /\ g.hr = 0 /\ g.awake /\ c.ri = 0 /\ g.out = {}
        /\ g.credits = 1 /\ c.credits = NPkts \div 2 - 1
        /\ \A i \in 0 .. RspRing - 1 : c.rsp[i].own
        /\ \A i \in 0 .. CmdRing - 1 : ~c.cmd[i].own
    BY DEF Agree
  <1>3. /\ DOMAIN up = DOMAIN c /\ up.csta = "UP" /\ up.sa = "zero" /\ up.ton = TRUE
        /\ up.ci = c.ci /\ up.ri = c.ri /\ up.irq = c.irq /\ up.cmd = c.cmd /\ up.rsp = c.rsp
        /\ up.credits = c.credits /\ up.pbsy = c.pbsy /\ up.pkt = c.pkt
        /\ up.io = c.io /\ up.pak = c.pak /\ up.hat = c.hat
    BY <1>1 DEF Typed, Viewed, Fields
  <1>4. /\ up.freq = c.freq /\ up.rspq = c.rspq /\ up.pktq = c.pktq /\ up.cpkt = c.cpkt
        /\ Wf(up)
    BY <1>1 DEF Wf, Fields
  <1> HIDE DEF up
  <1>6. Beside(c, up)
    BY <1>1, <1>3, <1>4 DEF Beside, RingsTyped, Typed, States
  <1>7. Waiting(up, g, 0)
    <2>1. \A i \in 0 .. RspRing - 1 : Place(0, i) >= 0
      BY DEF Place
    <2>2. Behind(0, 0) = 0
      BY MscpAssumption DEF Behind
    <2> QED  BY <1>2, <1>3, <2>1, <2>2 DEF Waiting
  <1>8. RingOk(up, g)
    <2>1. 0 \in 0 .. RspRing
      BY MscpAssumption
    <2> QED  BY <1>7, <2>1 DEF RingOk
  <1>16. Placed(up, g)
    <2>1. \A p \in Packet : up.pak[p].ref = 0
      BY <1>3 DEF Sound, Placed, Ok
    <2>2. \A k \in Kinds, n \in Int : Ref(up, k, n) = 0
      BY <1>2, <1>3, <2>1 DEF Ref, Kinds
    <2>3. Carried(up.rsp) = 0
      BY <1>2, <1>3, CarriedNone DEF Extra
    <2>4. Cardinality(g.out) = 0 /\ NPkts \div 2 \in Int
      BY <1>2, FS_EmptySet, MscpAssumption
    <2>5. Balanced(up, g)
      BY <1>2, <1>3, <2>3, <2>4 DEF Balanced
    <2> QED  BY <1>2, <1>3, <2>2, <2>5 DEF Placed, Located, Ok
  <1>9. Sound(up, 0, 0, g) /\ Ok(up)
    BY <1>3, <1>6, <1>8, <1>16, BesideSound DEF Ok
  <1> QED  BY <1>3, <1>9 DEF up

LEMMA GoUpSound ==
  ASSUME NEW c, NEW g, Sound(c, 0, 0, g), DriverTyped(g), Agree(c, g),
         c.csta = "S4", c.saw \in {"go", "golf"}
  PROVE  /\ Sound(GoUp(c), 0, 0, g) /\ Agree(GoUp(c), g)
         /\ GoUp(c).pkt = c.pkt /\ GoUp(c).csta \in {"UP", "DEAD"}
  <1> DEFINE up == [c EXCEPT !.csta = "UP", !.sa = "zero", !.ton = TRUE]
             d == IF c.saw = "golf" /\ c.perr THEN LogFailure(up) ELSE up
             e == [d EXCEPT !.perr = FALSE]
  <1>1. Sound(up, 0, 0, g) /\ Ok(up) /\ up.pkt = c.pkt
    BY UpSound
  <1>2. GoUp(c) = e
    BY DEF GoUp
  <1> HIDE DEF up
  <1>3. Sends(up, LogFailure(up), g) /\ Sends(up, up, g)
    BY <1>1, LogSound DEF Sends, Kept
  <1>4. Sends(up, d, g)
    BY <1>3
  <1> HIDE DEF d
  <1>5. Done(up, d, g)
    BY <1>1, <1>4, FatalDone DEF Sends, Kept, Done, Ok, Sound, Firm
  <1>6. Alike(d, e) /\ e.pkt = d.pkt
    <2>1. Wf(d)
      BY <1>5 DEF Done, Sound, Firm, Typed
    <2> QED  BY <2>1 DEF Alike, Wf, Fields
  <1>7. Sound(e, 0, 0, g) /\ e.csta \in {"UP", "DEAD"} /\ e.pkt = c.pkt
    BY <1>1, <1>5, <1>6, AlikeSound DEF Done, Alike
  <1>8. Agree(e, g)
    BY <1>7 DEF Agree
  <1> QED  BY <1>2, <1>7, <1>8

\* The queue service while the controller is being initialised.
LEMMA InitStepSound ==
  ASSUME NEW c, NEW g, Sound(c, 0, 0, g), DriverTyped(g), Agree(c, g),
         c.csta \notin {"UP", "DEAD"}
  PROVE  /\ Sound(InitStep(c), 0, 0, g) /\ Agree(InitStep(c), g)
         /\ InitStep(c).pkt = c.pkt
  <1> DEFINE d == InitStep(c)
  <1>1. Typed(c) /\ Wf(c)
    BY DEF Sound, Firm, Typed
  <1>2. CASE c.csta = "S4" /\ c.saw \in {"go", "golf"}
    <2>1. d = GoUp(c)
      BY <1>2 DEF InitStep
    <2> QED  BY <1>2, <2>1, GoUpSound
  <1>3. CASE c.csta = "S3" /\ c.saw # "purge"
    <2>1. d = Step4(c)
      BY <1>3 DEF InitStep
    <2>2. /\ Sound(d, 0, 0, g) /\ d.pkt = c.pkt /\ d.csta = "S4" /\ d.ri = 0 /\ d.saw = c.saw
          /\ d.credits = c.credits /\ \A i \in 0 .. CmdRing - 1 : ~d.cmd[i].own
      BY <2>1, Step4Sound DEF Ok
    <2>3. Agree(d, g)
      BY <1>3, <2>2 DEF Agree
    <2> QED  BY <2>2, <2>3
  <1>4. CASE c.csta = "S3_PPA" /\ c.saw # "zero"
    <2>1. d = Fatal(c)
      BY <1>4 DEF InitStep
    <2>2. Done(c, d, g) /\ d.csta = "DEAD"
      BY <1>1, <2>1, FatalDone, ResetIdle DEF Wf
    <2>3. Agree(d, g)
      BY <1>4, <2>2 DEF Agree
    <2> QED  BY <2>2, <2>3 DEF Done
  <1>5. CASE \/ c.csta = "S1" /\ c.saw \in {"s1", "wrap"}
             \/ c.csta = "S2"
             \/ c.csta = "S3" /\ c.saw = "purge"
             \/ c.csta = "S3_PPA" /\ c.saw = "zero"
    <2>1. c.sa # "S4" /\ c.sa \in {"S1", "S2", "S3", "echo", "zero", "error"}
      BY <1>1, <1>5 DEF Typed
    <2>2. /\ DOMAIN d = DOMAIN c /\ d.csta \in {"S1_WR", "S2", "S3", "S3_PPA", "S3_PPB"}
          /\ d.sa \in {c.sa, "S2", "S3", "echo", "zero"} /\ d.irq \in {TRUE, c.irq}
          /\ (c.csta = "S1" => d.csta = "S1_WR" \/ c.saw = "s1")
          /\ d.ci = c.ci /\ d.ri = c.ri /\ d.cmd = c.cmd /\ d.rsp = c.rsp /\ d.ton = c.ton
          /\ d.credits = c.credits /\ d.pbsy = c.pbsy /\ d.pkt = c.pkt
          /\ d.io = c.io /\ d.pak = c.pak /\ d.hat = c.hat /\ d.saw = c.saw
          /\ d.freq = c.freq /\ d.rspq = c.rspq /\ d.pktq = c.pktq /\ d.cpkt = c.cpkt
          /\ d.uon = c.uon /\ d.qon = c.qon /\ d.pip = c.pip
      <3>1. CASE c.csta = "S1" /\ c.saw = "s1"
        BY <1>1, <3>1 DEF InitStep, InitInt, Typed, Viewed, Fields
      <3>2. CASE c.csta = "S1" /\ c.saw = "wrap"
        BY <1>1, <3>2 DEF InitStep, Typed, Viewed, Fields
      <3>3. CASE c.csta = "S2"
        BY <1>1, <3>3 DEF InitStep, InitInt, Typed, Viewed, Fields
      <3>4. CASE c.csta = "S3" /\ c.saw = "purge"
        BY <1>1, <3>4 DEF InitStep, Typed, Viewed, Fields
      <3>5. CASE c.csta = "S3_PPA" /\ c.saw = "zero"
        BY <1>1, <3>5 DEF InitStep, Typed, Viewed, Fields
      <3> QED  BY <1>5, <3>1, <3>2, <3>3, <3>4, <3>5
    <2> HIDE DEF d
    <2>3. Wf(d)
      BY <1>1, <2>2 DEF Wf
    <2>4. Beside(c, d)
      <3>1. d.sa \in {"S1", "S2", "S3", "echo", "zero", "error"} /\ d.irq \in BOOLEAN
        BY <1>1, <2>1, <2>2 DEF Typed
      <3>2. d.csta \in States \ {"S4"}
        BY <2>2 DEF States
      <3> QED  BY <1>1, <2>2, <2>3, <3>1, <3>2 DEF Beside, RingsTyped, Typed
    <2>5. RingOk(d, g)
      BY <2>2 DEF RingOk, Ok
    <2>6. Agree(d, g)
      BY <1>5, <2>2 DEF Agree
    <2>7. Placed(d, g)
      BY <2>2 DEF Sound, Placed, Ok
    <2> QED  BY <2>4, <2>5, <2>6, <2>7, BesideSound DEF d
  <1>6. CASE d = c
    BY <1>6
  <1>7. \/ d = c
        \/ c.csta \in {"S2", "S3", "S3_PPA"}
        \/ c.csta = "S4" /\ c.saw \in {"go", "golf"}
        \/ c.csta = "S1" /\ c.saw \in {"s1", "wrap"}
    BY DEF InitStep
  <1> QED  BY <1>2, <1>3, <1>4, <1>5, <1>6, <1>7 DEF d

LEMMA InitServiceSound ==
  ASSUME SInv, InitService
  PROVE  SInv'
  <1> DEFINE c == [ctlr EXCEPT !.qon = FALSE]
  <1>1. /\ ctlr' = InitStep(c) /\ host' = host
        /\ ctlr.csta \notin {"UP", "DEAD"}
    BY DEF InitService, Become
  <1>2. Wf(ctlr) /\ Typed(ctlr)
    BY DEF SInv, Sound, Firm, Typed
  <1>3. /\ Alike(ctlr, c) /\ c.pkt = ctlr.pkt
        /\ c.saw = ctlr.saw
    BY <1>2 DEF Alike, Wf, Fields, Typed, Viewed
  <1> HIDE DEF c
  <1>4. Sound(c, 0, 0, host) /\ Agree(c, host) /\ c.csta = ctlr.csta
    BY <1>3, AlikeSound, AgreeSame DEF SInv, Alike
  <1>5. Sound(InitStep(c), 0, 0, host) /\ Agree(InitStep(c), host) /\ InitStep(c).pkt = c.pkt
    BY <1>1, <1>4, InitStepSound DEF SInv
  <1> QED  BY <1>1, <1>3, <1>5 DEF SInv

-----------------------------------------------------------------------------
(* The operator and the driver *)

\* What another driver state, of the same place in the ring, leaves of Sound.
LEMMA SameHost ==
  ASSUME NEW c, NEW g, NEW h, Sound(c, 0, 0, g), h.hr = g.hr, h.awake = g.awake,
         h.out = g.out, h.credits = g.credits
  PROVE  Sound(c, 0, 0, h)
  <1>1. Placed(c, h)
    BY PlacedSame DEF Sound
  <1> QED  BY <1>1 DEF Sound, Firm, RingOk, Waiting

LEMMA SaWrittenAlike ==
  ASSUME NEW c, Typed(c), NEW word
  PROVE  LET d == SaWritten(c, word)
         IN  Alike(c, d) /\ d.pkt = c.pkt /\ d.saw = word
  BY DEF SaWritten, Alike, Typed, Viewed, Wf, Fields

\* ATTACH and DETACH.
LEMMA SwapKeeps ==
  ASSUME SInv, NEW u \in Unit, Attach(u) \/ Detach(u)
  PROVE  SInv'
  <1>1. Typed(ctlr)
    BY DEF SInv, Sound, Firm
  <1>2. /\ Alike(ctlr, ctlr') /\ ctlr'.pkt = ctlr.pkt /\ ctlr'.saw = ctlr.saw
        /\ host' = host
    <2>1. Wf(ctlr)
      BY <1>1 DEF Typed
    <2>2. CASE Attach(u)
      <3>1. /\ ctlr' = [ctlr EXCEPT !.att[u] = TRUE, !.atp[u] = @ \/ Ok(ctlr)]
            /\ host' = host
        BY <2>2 DEF Attach
      <3>2. Wf(ctlr')
        BY <2>1, <3>1 DEF Wf, Fields
      <3> QED  BY <1>1, <3>1, <3>2 DEF Alike, Typed, Viewed, Fields
    <2>3. CASE Detach(u)
      <3>1. /\ ctlr' = [ctlr EXCEPT !.att[u] = FALSE, !.onl[u] = FALSE, !.atp[u] = FALSE]
            /\ host' = host
        BY <2>3 DEF Detach
      <3>2. Wf(ctlr')
        BY <2>1, <3>1 DEF Wf, Fields
      <3> QED  BY <1>1, <3>1, <3>2 DEF Alike, Typed, Viewed, Fields
    <2> QED  BY <2>2, <2>3
  <1>3. Sound(ctlr', 0, 0, host) /\ Agree(ctlr', host)
    BY <1>2, AlikeSound, AgreeSame DEF SInv, Alike
  <1> QED  BY <1>2, <1>3 DEF SInv

\* A write of IP.
LEMMA WriteIPKeeps ==
  ASSUME SInv, WriteIP
  PROVE  SInv'
  <1>1. Typed(ctlr)
    BY DEF SInv, Sound, Firm
  <1>2. ctlr' = Reset(ctlr) /\ host' = [NewHost EXCEPT !.ref = host.ref]
    BY DEF WriteIP
  <1>3. /\ host'.step = "S1" /\ host'.hr = 0 /\ host'.awake = TRUE /\ host'.poll = FALSE
        /\ host'.hc = 0 /\ host'.ref = host.ref /\ host'.out = {} /\ host'.credits = 1
        /\ DOMAIN host' = DOMAIN NewHost
        /\ {"step", "hr", "awake", "poll", "hc", "ref", "out", "credits"} \subseteq DOMAIN NewHost
    BY <1>2 DEF NewHost
  <1>4. DriverTyped(host')
    <2>1. 0 \in 0 .. RspRing - 1 /\ 0 \in 0 .. CmdRing - 1
      BY MscpAssumption
    <2>2. host.ref \in Nat \ {0}
      BY DEF SInv, DriverTyped
    <2>3. host'.credits \in Int /\ host'.ref \in Nat \ {0}
          /\ host'.out \subseteq 1 .. host'.ref - 1
      BY <1>3, <2>2
    <2>4. host'.hr \in 0 .. RspRing - 1 /\ host'.hc \in 0 .. CmdRing - 1
      BY <1>3, <2>1
    <2>5. host'.awake \in BOOLEAN
      BY <1>3
    <2>6. host'.poll \in BOOLEAN
      BY <1>3
    <2> QED  BY <1>3, <2>3, <2>4, <2>5, <2>6 DEF DriverTyped
  <1>5. Sound(ctlr', 0, 0, host')
    BY <1>1, <1>2, ResetSound
  <1>6. ctlr'.csta = "S1" /\ ctlr'.pkt = ctlr.pkt /\ ctlr'.credits = NPkts \div 2 - 1
    BY <1>1, <1>2 DEF Reset, Typed, Wf, Viewed, Fields
  <1>7. Agree(ctlr', host')
    BY <1>3, <1>6 DEF Agree
  <1> QED  BY <1>4, <1>5, <1>6, <1>7 DEF SInv

\* The initialisation by the driver: a word into SA for each step.
LEMMA WriteSAKeeps ==
  ASSUME SInv, NEW step, NEW sa, NEW word, NEW next, WriteSA(step, sa, word, next),
         step \notin {"wait", "up"}, next \notin {"wait", "up"},
         word \notin {"go", "golf"}
  PROVE  SInv'
  <1>1. Typed(ctlr)
    BY DEF SInv, Sound, Firm
  <1>2. /\ ctlr' = SaWritten(ctlr, word) /\ host' = [host EXCEPT !.step = next]
        /\ host.step = step
    BY DEF WriteSA
  <1>3. /\ host'.step = next /\ host'.hr = host.hr /\ host'.awake = host.awake
        /\ host'.poll = host.poll /\ DOMAIN host' = DOMAIN host
        /\ host'.hc = host.hc /\ host'.ref = host.ref /\ host'.out = host.out
        /\ host'.credits = host.credits
    BY <1>2 DEF SInv, DriverTyped
  <1>4. Alike(ctlr, ctlr') /\ ctlr'.pkt = ctlr.pkt /\ ctlr'.saw = word
    BY <1>1, <1>2, SaWrittenAlike
  <1>5. Sound(ctlr', 0, 0, host')
    BY <1>3, <1>4, AlikeSound, SameHost DEF SInv
  <1>6. Agree(ctlr', host')
    BY <1>2, <1>3, <1>4 DEF SInv, Agree, Alike
  <1> QED  BY <1>3, <1>4, <1>5, <1>6 DEF SInv, DriverTyped

\* The last word gives the controller every descriptor of the response ring.
LEMMA WriteGoKeeps ==
  ASSUME SInv, NEW word, WriteGo(word)
  PROVE  SInv'
  <1> DEFINE c == [ctlr EXCEPT !.rsp = [i \in DOMAIN @ |-> Given]]
  <1>1. Typed(ctlr) /\ Wf(ctlr)
    BY DEF SInv, Sound, Firm, Typed
  <1>2. /\ ctlr' = SaWritten(c, word) /\ host' = [host EXCEPT !.step = "wait"]
        /\ host.step = "S4" /\ ctlr.sa = "S4"
    BY DEF WriteGo
  <1>3. /\ host'.step = "wait" /\ host'.hr = host.hr /\ host'.awake = host.awake
        /\ host'.poll = host.poll /\ DOMAIN host' = DOMAIN host
        /\ host'.hc = host.hc /\ host'.ref = host.ref /\ host'.out = host.out
        /\ host'.credits = host.credits
    BY <1>2 DEF SInv, DriverTyped
  <1>4. c.rsp = [i \in 0 .. RspRing - 1 |-> Given]
    BY <1>1 DEF Typed, RingsTyped, Viewed
  <1>5. \A i \in 0 .. RspRing - 1 : c.rsp[i].own = TRUE /\ Said(c.rsp[i])
    <2> HIDE DEF c
    <2>1. \A i \in 0 .. RspRing - 1 : c.rsp[i] = Given
      BY <1>4
    <2>2. Given.own = TRUE /\ Said(Given)
      BY DEF Given, Said
    <2> QED  BY <2>1, <2>2
  <1>6. /\ DOMAIN c = DOMAIN ctlr /\ c.csta = ctlr.csta /\ c.sa = ctlr.sa
        /\ c.ci = ctlr.ci /\ c.ri = ctlr.ri /\ c.irq = ctlr.irq /\ c.cmd = ctlr.cmd
        /\ c.credits = ctlr.credits /\ c.pbsy = ctlr.pbsy /\ c.pkt = ctlr.pkt
        /\ c.io = ctlr.io /\ c.pak = ctlr.pak /\ c.hat = ctlr.hat /\ c.ton = ctlr.ton
    BY <1>1 DEF Typed, Viewed, Fields
  <1>7. /\ c.freq = ctlr.freq /\ c.rspq = ctlr.rspq /\ c.pktq = ctlr.pktq
        /\ c.cpkt = ctlr.cpkt /\ Wf(c)
    BY <1>1 DEF Wf, Fields
  <1>8. DOMAIN c.rsp = 0 .. RspRing - 1
    BY <1>4
  <1> HIDE DEF c
  <1>9. Beside(ctlr, c)
    BY <1>1, <1>5, <1>6, <1>7, <1>8 DEF Beside, RingsTyped, Typed
  <1>10. c.csta = "S4"
    BY <1>1, <1>2, <1>6 DEF Typed
  <1>11. RingOk(c, host')
    BY <1>10 DEF RingOk, Ok
  <1>16. Placed(c, host')
    BY <1>6, <1>10 DEF SInv, Sound, Placed, Ok
  <1>12. Sound(c, 0, 0, host')
    BY <1>9, <1>11, <1>16, BesideSound DEF SInv
  <1>13. Alike(c, ctlr') /\ ctlr'.pkt = c.pkt
    <2>1. Typed(c)
      BY <1>12 DEF Sound, Firm
    <2> QED  BY <1>2, <2>1, SaWrittenAlike
  <1>14. Sound(ctlr', 0, 0, host')
    BY <1>12, <1>13, AlikeSound
  <1>15. Agree(ctlr', host')
    <2>1. /\ ctlr'.csta = "S4" /\ ctlr'.ri = ctlr.ri /\ ctlr'.rsp = c.rsp /\ ctlr.csta = "S4"
          /\ ctlr'.cmd = ctlr.cmd /\ ctlr'.credits = ctlr.credits
      BY <1>6, <1>10, <1>13 DEF Alike
    <2> QED  BY <1>2, <1>3, <1>5, <2>1 DEF SInv, Agree
  <1> QED  BY <1>3, <1>6, <1>13, <1>14, <1>15 DEF SInv, DriverTyped

LEMMA InitialiseKeeps ==
  ASSUME SInv, Initialise
  PROVE  SInv'
  <1>1. CASE WriteSA("S1", "S1", "wrap", "wrap")
    BY <1>1, WriteSAKeeps
  <1>2. CASE WriteSA("S1", "S1", "s1", "S2")
    BY <1>2, WriteSAKeeps
  <1>3. CASE WriteSA("S2", "S2", "s2", "S3")
    BY <1>3, WriteSAKeeps
  <1>4. CASE WriteSA("S3", "S3", "s3", "S4")
    BY <1>4, WriteSAKeeps
  <1>5. CASE WriteSA("S3", "S3", "purge", "pp")
    BY <1>5, WriteSAKeeps
  <1>6. CASE WriteSA("pp", "zero", "zero", "pp2")
    BY <1>6, WriteSAKeeps
  <1>7. CASE WriteGo(left.go)
    BY <1>7, WriteGoKeeps
  <1> QED  BY <1>1, <1>2, <1>3, <1>4, <1>5, <1>6, <1>7 DEF Initialise

\* A read of IP: the last step of an initialisation with purge and poll, or
\* the call for a poll of the command ring.
LEMMA ReadIPKeeps ==
  ASSUME SInv, ReadIP
  PROVE  SInv'
  <1>1. Typed(ctlr) /\ Wf(ctlr)
    BY DEF SInv, Sound, Firm, Typed
  <1>2. CASE /\ host.step = "pp2" /\ ctlr' = IpRead(ctlr)
             /\ host' = [host EXCEPT !.step = "S4"]
    <2>1. /\ host'.step = "S4" /\ host'.hr = host.hr /\ host'.awake = host.awake
          /\ host'.poll = host.poll /\ DOMAIN host' = DOMAIN host
          /\ host'.hc = host.hc /\ host'.ref = host.ref /\ host'.out = host.out
          /\ host'.credits = host.credits
      BY <1>2 DEF SInv, DriverTyped
    <2>2. CASE ctlr.csta = "S3_PPB"
      <3>1. ctlr' = Step4(ctlr)
        BY <1>2, <2>2 DEF IpRead
      <3>2. /\ Sound(ctlr', 0, 0, host') /\ ctlr'.pkt = ctlr.pkt
            /\ ctlr'.csta = "S4" /\ ctlr'.ri = 0 /\ ctlr'.saw = ctlr.saw
            /\ ctlr'.credits = ctlr.credits
            /\ \A i \in 0 .. CmdRing - 1 : ~ctlr'.cmd[i].own
        BY <2>2, <3>1, Step4Sound DEF SInv, Ok
      <3>3. Agree(ctlr', host')
        BY <1>2, <2>1, <2>2, <3>2 DEF SInv, Agree
      <3> QED  BY <2>1, <3>2, <3>3 DEF SInv, DriverTyped
    <2>3. CASE ctlr.csta # "S3_PPB"
      <3>1. ctlr' = ctlr
        BY <1>2, <2>3 DEF IpRead, SInv, Agree
      <3>2. Sound(ctlr, 0, 0, host')
        BY <2>1, SameHost DEF SInv
      <3>3. Agree(ctlr, host')
        BY <1>2, <2>1 DEF SInv, Agree
      <3> QED  BY <2>1, <3>1, <3>2, <3>3 DEF SInv, DriverTyped
    <2> QED  BY <2>2, <2>3
  <1>3. CASE /\ host.step = "up" /\ ctlr' = IpRead(ctlr)
             /\ host' = [host EXCEPT !.poll = FALSE]
    <2> DEFINE c == [ctlr EXCEPT !.pip = TRUE, !.qon = TRUE]
    <2>1. /\ host'.step = host.step /\ host'.hr = host.hr /\ host'.awake = host.awake
          /\ host'.poll = FALSE /\ DOMAIN host' = DOMAIN host
          /\ host'.hc = host.hc /\ host'.ref = host.ref /\ host'.out = host.out
          /\ host'.credits = host.credits
      BY <1>3 DEF SInv, DriverTyped
    <2>2. /\ Alike(ctlr, c) /\ c.pkt = ctlr.pkt /\ c.saw = ctlr.saw
          /\ Alike(ctlr, ctlr)
      BY <1>1 DEF Alike, Wf, Fields, Typed, Viewed
    <2>3. ctlr' = c \/ ctlr' = ctlr
      BY <1>3 DEF IpRead, SInv, Agree
    <2> HIDE DEF c
    <2>4. Alike(ctlr, ctlr') /\ ctlr'.pkt = ctlr.pkt /\ ctlr'.saw = ctlr.saw
      BY <2>2, <2>3
    <2>5. Sound(ctlr', 0, 0, host')
      BY <2>1, <2>4, AlikeSound, SameHost DEF SInv
    <2>6. Agree(ctlr', host)
      BY <2>4, AgreeSame DEF SInv, Alike
    <2>7. Agree(ctlr', host')
      BY <2>1, <2>6 DEF Agree
    <2> QED  BY <2>1, <2>4, <2>5, <2>7 DEF SInv, DriverTyped
  <1> QED  BY <1>2, <1>3 DEF ReadIP

LEMMA StartUpKeeps ==
  ASSUME SInv, StartUp
  PROVE  SInv'
  <1>1. /\ host.step = "wait" /\ ctlr.sa = "zero" /\ ctlr' = ctlr
        /\ host' = [host EXCEPT !.step = "up"]
    BY DEF StartUp
  <1>2. /\ host'.step = "up" /\ host'.hr = host.hr /\ host'.awake = host.awake
        /\ host'.poll = host.poll /\ DOMAIN host' = DOMAIN host
        /\ host'.hc = host.hc /\ host'.ref = host.ref /\ host'.out = host.out
        /\ host'.credits = host.credits
    BY <1>1 DEF SInv, DriverTyped
  <1>3. ctlr.csta \in {"UP", "DEAD"}
    BY <1>1 DEF SInv, Sound, Firm, Typed, Agree
  <1>4. Agree(ctlr, host')
    BY <1>2, <1>3 DEF Agree
  <1> QED  BY <1>1, <1>2, <1>4, SameHost DEF SInv, DriverTyped

\* A command is put into its ring.
LEMMA IssueKeeps ==
  ASSUME SInv, Issue
  PROVE  SInv'
  <1> DEFINE op == Head(left.prog)
             d == [NoPacket EXCEPT !.ref = host.ref, !.op = op.op, !.unit = op.unit,
                                   !.arg = op.arg, !.len = op.len]
             k == [own |-> TRUE, d |-> d]
  <1>1. Typed(ctlr) /\ Wf(ctlr)
    BY DEF SInv, Sound, Firm, Typed
  <1>2. /\ host.step = "up" /\ ~ctlr.cmd[host.hc].own /\ ctlr' = [ctlr EXCEPT !.cmd[host.hc] = k]
        /\ host' = [host EXCEPT !.hc = (@ + 1) % CmdRing, !.credits = @ - 1,
                                !.ref = @ + 1, !.out = @ \cup {host.ref}, !.poll = TRUE]
    BY DEF Issue
  <1>3. /\ host'.step = "up" /\ host'.hr = host.hr /\ host'.awake = host.awake
        /\ host'.poll \in BOOLEAN /\ DOMAIN host' = DOMAIN host
        /\ host'.hc = (host.hc + 1) % CmdRing /\ host'.ref = host.ref + 1
        /\ host'.out = host.out \cup {host.ref} /\ host'.credits = host.credits - 1
    BY <1>2 DEF SInv, DriverTyped
  <1>4. Asked(k) /\ k.own = TRUE /\ k.d.ref = host.ref
    <2>1. host.ref # 0
      BY DEF SInv, DriverTyped
    <2> QED  BY <2>1 DEF Tagged, NoPacket, Asked
  <1> HIDE DEF k
  <1>12. /\ host.hc \in 0 .. CmdRing - 1 /\ host.ref \in Nat \ {0}
         /\ host.out \subseteq 1 .. host.ref - 1 /\ CmdRing \in Nat \ {0}
    BY MscpAssumption DEF SInv, DriverTyped
  <1>5. /\ DOMAIN ctlr' = DOMAIN ctlr /\ ctlr'.csta = ctlr.csta /\ ctlr'.sa = ctlr.sa
        /\ ctlr'.ci = ctlr.ci /\ ctlr'.ri = ctlr.ri /\ ctlr'.irq = ctlr.irq
        /\ ctlr'.cmd = [ctlr.cmd EXCEPT ![host.hc] = k] /\ ctlr'.rsp = ctlr.rsp
        /\ ctlr'.credits = ctlr.credits /\ ctlr'.pbsy = ctlr.pbsy /\ ctlr'.pkt = ctlr.pkt
        /\ ctlr'.io = ctlr.io /\ ctlr'.pak = ctlr.pak /\ ctlr'.hat = ctlr.hat
        /\ ctlr'.ton = ctlr.ton /\ ctlr'.saw = ctlr.saw
    BY <1>1, <1>2 DEF Typed, Viewed, Fields
  <1>6. /\ ctlr'.freq = ctlr.freq /\ ctlr'.rspq = ctlr.rspq /\ ctlr'.pktq = ctlr.pktq
        /\ ctlr'.cpkt = ctlr.cpkt /\ Wf(ctlr')
    BY <1>1, <1>2 DEF Wf, Fields
  <1>7. /\ DOMAIN ctlr'.cmd = 0 .. CmdRing - 1
        /\ \A i \in 0 .. CmdRing - 1 : Asked(ctlr'.cmd[i])
    <2>1. /\ DOMAIN ctlr.cmd = 0 .. CmdRing - 1
          /\ \A i \in 0 .. CmdRing - 1 : Asked(ctlr.cmd[i])
      BY <1>1 DEF Typed, RingsTyped
    <2>2. \A i \in 0 .. CmdRing - 1 : ctlr'.cmd[i] = IF i = host.hc THEN k ELSE ctlr.cmd[i]
      BY <1>5, <2>1
    <2> QED  BY <1>4, <1>5, <2>1, <2>2
  <1>8. Beside(ctlr, ctlr')
    BY <1>1, <1>5, <1>6, <1>7 DEF Beside, RingsTyped, Typed
  <1>9. RingOk(ctlr', host')
    BY <1>3, <1>5 DEF SInv, Sound, Firm, RingOk, Waiting, Ok
  <1>13. Placed(ctlr', host')
    <2>1. CASE Ok(ctlr)
      <3>1. DOMAIN ctlr.cmd = 0 .. CmdRing - 1 /\ Located(ctlr, host)
        BY <1>1, <2>1 DEF Typed, RingsTyped, SInv, Sound, Placed
      <3>2. /\ ctlr'.cmd[host.hc] = k
            /\ \A i \in 0 .. CmdRing - 1 : i # host.hc => ctlr'.cmd[i] = ctlr.cmd[i]
        BY <1>5, <1>12, <3>1
      <3>3. Ref(ctlr, "cmd", host.hc) = 0 /\ Ref(ctlr', "cmd", host.hc) = host.ref
        BY <1>2, <1>4, <1>12, <3>2 DEF Ref
      <3>4. /\ \A n \in Int : n # host.hc => Ref(ctlr', "cmd", n) = Ref(ctlr, "cmd", n)
            /\ \A n \in Int : Ref(ctlr', "pak", n) = Ref(ctlr, "pak", n)
            /\ \A n \in Int : Ref(ctlr', "rsp", n) = Ref(ctlr, "rsp", n)
        BY <1>5, <1>6, <3>2 DEF Ref
      <3>5. host.ref \notin host.out /\ 0 \notin host.out /\ host.ref # 0 /\ host.hc \in Int
        BY <1>12
      <3>6. Located(ctlr', host')
        BY <1>3, <3>1, <3>3, <3>4, <3>5, NewPlace DEF Kinds
      <3>7. Balanced(ctlr', host')
        <4>1. IsFiniteSet(host.out) /\ Cardinality(host.out) \in Nat
          BY OutCounted DEF SInv
        <4>2. Cardinality(host'.out) = Cardinality(host.out) + 1
          BY <1>3, <3>5, <4>1, FS_AddElement
        <4>3. Carried(ctlr.rsp) \in Int
          BY <1>1, RingCarried DEF Typed
        <4>4. host.credits \in Int /\ ctlr.credits \in Int
          BY <1>1 DEF SInv, DriverTyped, Typed
        <4>5. ctlr.credits + Carried(ctlr.rsp) + host.credits + Cardinality(host.out)
                = NPkts \div 2
          BY <2>1 DEF SInv, Sound, Placed, Balanced
        <4>6. PICK x \in Int, y \in Int, v \in Int, w \in Int :
                /\ x = ctlr.credits /\ y = Carried(ctlr.rsp) /\ v = host.credits
                /\ w = Cardinality(host.out)
          BY <4>1, <4>3, <4>4
        <4>7. x + y + (v - 1) + (w + 1) = x + y + v + w
          BY <4>6
        <4> QED  BY <1>3, <1>5, <4>2, <4>5, <4>6, <4>7 DEF Balanced
      <3> QED  BY <1>5, <2>1, <3>6, <3>7 DEF Placed, Ok
    <2>2. CASE ~Ok(ctlr)
      BY <1>5, <2>2 DEF SInv, Sound, Placed, Ok
    <2> QED  BY <2>1, <2>2
  <1>10. Sound(ctlr', 0, 0, host')
    BY <1>8, <1>9, <1>13, BesideSound DEF SInv
  <1>11. Agree(ctlr', host')
    BY <1>2, <1>3, <1>5 DEF SInv, Agree
  <1>14. DriverTyped(host')
    <2>1. host'.hc \in 0 .. CmdRing - 1
      BY <1>3, <1>12
    <2>2. host'.ref \in Nat \ {0} /\ host'.out \subseteq 1 .. host'.ref - 1
      BY <1>3, <1>12
    <2>3. host'.credits \in Int
      BY <1>3 DEF SInv, DriverTyped
    <2> QED  BY <1>3, <2>1, <2>2, <2>3 DEF SInv, DriverTyped
  <1> QED  BY <1>5, <1>10, <1>11, <1>14 DEF SInv

\* The interrupt wakes the driver.
LEMMA InterruptKeeps ==
  ASSUME SInv, Interrupt
  PROVE  SInv'
  <1>1. Typed(ctlr) /\ Wf(ctlr)
    BY DEF SInv, Sound, Firm, Typed
  <1>2. ctlr' = [ctlr EXCEPT !.irq = FALSE] /\ host' = [host EXCEPT !.awake = TRUE]
    BY DEF Interrupt
  <1>3. /\ host'.step = host.step /\ host'.hr = host.hr /\ host'.awake = TRUE
        /\ host'.poll = host.poll /\ DOMAIN host' = DOMAIN host
        /\ host'.hc = host.hc /\ host'.ref = host.ref /\ host'.out = host.out
        /\ host'.credits = host.credits
    BY <1>2 DEF SInv, DriverTyped
  <1>4. /\ DOMAIN ctlr' = DOMAIN ctlr /\ ctlr'.csta = ctlr.csta /\ ctlr'.sa = ctlr.sa
        /\ ctlr'.ci = ctlr.ci /\ ctlr'.ri = ctlr.ri /\ ctlr'.irq = FALSE
        /\ ctlr'.cmd = ctlr.cmd /\ ctlr'.rsp = ctlr.rsp
        /\ ctlr'.credits = ctlr.credits /\ ctlr'.pbsy = ctlr.pbsy /\ ctlr'.pkt = ctlr.pkt
        /\ ctlr'.io = ctlr.io /\ ctlr'.pak = ctlr.pak /\ ctlr'.hat = ctlr.hat
        /\ ctlr'.ton = ctlr.ton /\ ctlr'.saw = ctlr.saw
    BY <1>1, <1>2 DEF Typed, Viewed, Fields
  <1>5. /\ ctlr'.freq = ctlr.freq /\ ctlr'.rspq = ctlr.rspq /\ ctlr'.pktq = ctlr.pktq
        /\ ctlr'.cpkt = ctlr.cpkt /\ Wf(ctlr')
    BY <1>1, <1>2 DEF Wf, Fields
  <1>6. Beside(ctlr, ctlr')
    BY <1>1, <1>4, <1>5 DEF Beside, RingsTyped, Typed
  <1>7. RingOk(ctlr', host')
    BY <1>3, <1>4 DEF SInv, Sound, Firm, RingOk, Waiting, Ok
  <1>10. Placed(ctlr', host')
    BY <1>3, <1>4, <1>5, PlacedSame DEF SInv, Sound
  <1>8. Sound(ctlr', 0, 0, host')
    BY <1>6, <1>7, <1>10, BesideSound DEF SInv
  <1>9. Agree(ctlr', host')
    <2>1. Agree(ctlr', host)
      BY <1>4, AgreeSame DEF SInv
    <2> QED  BY <1>3, <2>1 DEF Agree
  <1> QED  BY <1>3, <1>4, <1>8, <1>9 DEF SInv, DriverTyped

\* One response consumed: one descriptor fewer waits for the driver.
LEMMA TakenWaits ==
  ASSUME NEW c, NEW d, NEW g, NEW h, NEW n \in 0 .. RspRing, Waiting(c, g, n),
         g.hr \in 0 .. RspRing - 1, DOMAIN c.rsp = 0 .. RspRing - 1, ~c.rsp[g.hr].own,
         d.rsp = [c.rsp EXCEPT ![g.hr] = Given], d.ri = c.ri,
         h.hr = (g.hr + 1) % RspRing, h.awake
  PROVE  n - 1 \in 0 .. RspRing /\ Waiting(d, h, n - 1) /\ h.hr \in 0 .. RspRing - 1
  <1>1. PICK m \in Nat \ {0} : m = RspRing
    BY MscpAssumption
  <1>2. PICK x \in 0 .. m - 1 : x = g.hr
    BY <1>1
  <1>3. PICK y \in 0 .. m - 1 : y = h.hr /\ y = IF x + 1 = m THEN 0 ELSE x + 1
    <2>1. (x + 1) % m = IF x + 1 = m THEN 0 ELSE x + 1
      BY <1>1, <1>2, RingIndex
    <2>2. (IF x + 1 = m THEN 0 ELSE x + 1) \in 0 .. m - 1
      BY <1>1, <1>2
    <2> QED  BY <1>1, <1>2, <2>1, <2>2
  <1>4. n > 0
    <2>1. Place(x, x) = 0
      BY <1>2 DEF Place
    <2>2. ~(0 >= n)
      BY <1>1, <1>2, <2>1 DEF Waiting
    <2> QED  BY <2>2
  <1>5. \A i \in 0 .. m - 1 : d.rsp[i].own <=> Place(y, i) >= n - 1
    <2> TAKE i \in 0 .. m - 1
    <2>1. CASE i = x
      <3>1. d.rsp[i].own
        BY <1>1, <1>2, <2>1 DEF Given
      <3>2. Place(y, i) >= n - 1
        BY <1>1, <1>2, <1>3, <2>1 DEF Place
      <3> QED  BY <3>1, <3>2
    <2>2. CASE i # x
      <3>1. d.rsp[i] = c.rsp[i]
        BY <1>1, <1>2, <2>2
      <3>2. c.rsp[i].own <=> Place(x, i) >= n
        BY <1>1, <1>2 DEF Waiting
      <3>3. PICK a \in Int : a = Place(x, i) /\ a = IF i >= x THEN i - x ELSE i - x + m
        BY <1>1, <1>2 DEF Place
      <3>4. PICK b \in Int : b = Place(y, i) /\ b = IF i >= y THEN i - y ELSE i - y + m
        BY <1>1, <1>3 DEF Place
      <3>5. a >= n <=> b >= n - 1
        <4>1. PICK k \in Int : k = n
          OBVIOUS
        <4>2. b = a - 1
          <5>1. CASE x + 1 = m
            <6>1. y = 0 /\ i < x
              BY <1>1, <1>3, <2>2, <5>1
            <6>2. b = i /\ a = i - x + m
              BY <3>3, <3>4, <6>1
            <6> QED  BY <5>1, <6>2
          <5>2. CASE x + 1 # m
            <6>1. y = x + 1
              BY <1>3, <5>2
            <6>2. CASE i > x
              BY <3>3, <3>4, <6>1, <6>2
            <6>3. CASE i < x
              BY <3>3, <3>4, <6>1, <6>3
            <6> QED  BY <2>2, <6>2, <6>3
          <5> QED  BY <5>1, <5>2
        <4>3. a >= k <=> b >= k - 1
          BY <4>2
        <4> QED  BY <4>1, <4>3
      <3> QED  BY <3>1, <3>2, <3>3, <3>4, <3>5
    <2> QED  BY <2>1, <2>2
  <1>6. Behind(y, n - 1) = Behind(x, n)
    <2>1. PICK k \in 1 .. m : k = n
      BY <1>1, <1>4
    <2>2. /\ Behind(x, k) = IF x + k >= m THEN x + k - m ELSE x + k
          /\ Behind(y, k - 1) = IF y + (k - 1) >= m THEN y + (k - 1) - m ELSE y + (k - 1)
      BY <1>1 DEF Behind
    <2>3. Behind(y, k - 1) = Behind(x, k)
      <3>1. CASE x + 1 = m
        <4>1. y = 0 /\ x = m - 1
          BY <1>3, <3>1
        <4> QED  BY <2>2, <4>1
      <3>2. CASE x + 1 # m
        <4>1. y + (k - 1) = x + k
          BY <1>3, <3>2
        <4> QED  BY <2>2, <4>1
      <3> QED  BY <3>1, <3>2
    <2> QED  BY <2>1, <2>3
  <1>7. Waiting(d, h, n - 1)
    <2>1. c.ri = Behind(x, n)
      BY <1>2 DEF Waiting
    <2> QED  BY <1>1, <1>3, <1>5, <1>6, <2>1 DEF Waiting
  <1> QED  BY <1>1, <1>3, <1>4, <1>7

LEMMA TakeKeeps ==
  ASSUME SInv, Take
  PROVE  SInv'
  <1>1. Typed(ctlr) /\ Wf(ctlr)
    BY DEF SInv, Sound, Firm, Typed
  <1>2. /\ host.step = "up" /\ host.awake /\ ~ctlr.rsp[host.hr].own
        /\ ctlr' = [ctlr EXCEPT !.rsp[host.hr] = Given]
        /\ host' = [host EXCEPT !.hr = (@ + 1) % RspRing,
             !.credits = @ + IF ctlr.rsp[host.hr].d.end THEN ctlr.rsp[host.hr].d.arg ELSE 0,
             !.out = IF ctlr.rsp[host.hr].d.end THEN @ \ {ctlr.rsp[host.hr].d.ref} ELSE @]
    BY DEF Take
  <1>3. /\ host'.step = "up" /\ host'.hr = (host.hr + 1) % RspRing
        /\ host'.awake = host.awake /\ host'.poll = host.poll /\ DOMAIN host' = DOMAIN host
        /\ host'.hc = host.hc /\ host'.ref = host.ref
        /\ host'.out = IF ctlr.rsp[host.hr].d.end
                       THEN host.out \ {ctlr.rsp[host.hr].d.ref} ELSE host.out
        /\ host'.credits = host.credits + IF ctlr.rsp[host.hr].d.end
                                          THEN ctlr.rsp[host.hr].d.arg ELSE 0
    BY <1>2 DEF SInv, DriverTyped
  <1>4. /\ DOMAIN ctlr' = DOMAIN ctlr /\ ctlr'.csta = ctlr.csta /\ ctlr'.sa = ctlr.sa
        /\ ctlr'.ci = ctlr.ci /\ ctlr'.ri = ctlr.ri /\ ctlr'.irq = ctlr.irq
        /\ ctlr'.cmd = ctlr.cmd /\ ctlr'.rsp = [ctlr.rsp EXCEPT ![host.hr] = Given]
        /\ ctlr'.credits = ctlr.credits /\ ctlr'.pbsy = ctlr.pbsy /\ ctlr'.pkt = ctlr.pkt
        /\ ctlr'.io = ctlr.io /\ ctlr'.pak = ctlr.pak /\ ctlr'.hat = ctlr.hat
        /\ ctlr'.ton = ctlr.ton /\ ctlr'.saw = ctlr.saw
    BY <1>1, <1>2 DEF Typed, Viewed, Fields
  <1>5. /\ ctlr'.freq = ctlr.freq /\ ctlr'.rspq = ctlr.rspq /\ ctlr'.pktq = ctlr.pktq
        /\ ctlr'.cpkt = ctlr.cpkt /\ Wf(ctlr')
    BY <1>1, <1>2 DEF Wf, Fields
  <1>6. DOMAIN ctlr.rsp = 0 .. RspRing - 1 /\ \A i \in 0 .. RspRing - 1 : Said(ctlr.rsp[i])
    BY <1>1 DEF Typed, RingsTyped
  <1>7. Said(Given) /\ Given.own = TRUE
    BY DEF Given, Said
  <1>8. Beside(ctlr, ctlr')
    <2>1. \A i \in 0 .. RspRing - 1 :
            ctlr'.rsp[i] = IF i = host.hr THEN Given ELSE ctlr.rsp[i]
      BY <1>4, <1>6
    <2>2. DOMAIN ctlr'.rsp = 0 .. RspRing - 1
      BY <1>4, <1>6
    <2>3. \A i \in 0 .. RspRing - 1 : Said(ctlr'.rsp[i])
      BY <1>6, <1>7, <2>1
    <2> QED  BY <1>1, <1>4, <1>5, <2>2, <2>3 DEF Beside, RingsTyped, Typed
  <1>9. host.hr \in 0 .. RspRing - 1
    BY DEF SInv, DriverTyped
  <1>10. RingOk(ctlr', host')
    <2>1. SUFFICES ASSUME Ok(ctlr') PROVE \E n \in 0 .. RspRing : Waiting(ctlr', host', n)
      BY DEF RingOk
    <2>2. PICK n \in 0 .. RspRing : Waiting(ctlr, host, n)
      BY <1>4, <2>1 DEF SInv, Sound, Firm, RingOk, Ok
    <2>3. n - 1 \in 0 .. RspRing /\ Waiting(ctlr', host', n - 1)
      BY <1>2, <1>3, <1>4, <1>6, <1>9, <2>2, TakenWaits
    <2> QED  BY <2>3
  <1>11. host'.hr \in 0 .. RspRing - 1
    <2>1. RspRing \in Nat \ {0}
      BY MscpAssumption
    <2> QED  BY <1>3, <1>9, <2>1
  <1>14. Placed(ctlr', host')
    <2>1. CASE Ok(ctlr)
      <3> DEFINE r == ctlr.rsp[host.hr].d.ref
      <3>1. /\ Located(ctlr, host) /\ Closed(ctlr.rsp[host.hr].d)
        BY <1>2, <1>6, <1>9, <2>1 DEF Said, SInv, Sound, Placed
      <3>2. /\ ctlr'.rsp[host.hr] = Given
            /\ \A i \in 0 .. RspRing - 1 : i # host.hr => ctlr'.rsp[i] = ctlr.rsp[i]
        BY <1>4, <1>6, <1>9
      <3>3. Ref(ctlr, "rsp", host.hr) = r /\ Ref(ctlr', "rsp", host.hr) = 0
        BY <1>2, <1>7, <1>9, <3>2 DEF Ref
      <3>4. /\ \A n \in Int : n # host.hr => Ref(ctlr', "rsp", n) = Ref(ctlr, "rsp", n)
            /\ \A n \in Int : Ref(ctlr', "pak", n) = Ref(ctlr, "pak", n)
            /\ \A n \in Int : Ref(ctlr', "cmd", n) = Ref(ctlr, "cmd", n)
        BY <1>4, <1>5, <3>2 DEF Ref
      <3>5. 0 \notin host.out
        BY DEF SInv, DriverTyped
      <3>6. host'.out = host.out \ {r}
        BY <1>3, <3>1, <3>5 DEF Closed
      <3> HIDE DEF r
      <3>7. Located(ctlr', host')
        BY <1>9, <3>1, <3>3, <3>4, <3>5, <3>6, OldPlace DEF Kinds
      <3>8. Balanced(ctlr', host')
        <4> DEFINE j == host.hr
                   k == ctlr.rsp[j].d
        <4>1. IsFiniteSet(host.out) /\ Cardinality(host.out) \in Nat
          BY OutCounted DEF SInv
        <4>2. r = k.ref /\ (r # 0 <=> k.end) /\ (k.end => k.arg \in Int)
              /\ k.end \in BOOLEAN
          BY <1>2, <1>6, <1>9 DEF Said, Closed, Tagged, r
        <4>3. RingsTyped(ctlr')
          BY <1>8 DEF Beside
        <4>4. Extra(ctlr'.rsp[j]) = 0 /\ Extra(ctlr.rsp[j]) = IF k.end THEN k.arg - 1 ELSE 0
          BY <1>2, <1>7, <3>2 DEF Extra
        <4>5. /\ Carried(ctlr.rsp) \in Int
              /\ Carried(ctlr'.rsp) = Carried(ctlr.rsp)
                   + (0 - IF k.end THEN k.arg - 1 ELSE 0)
          <5>1. Payable(ctlr.rsp) /\ Payable(ctlr'.rsp)
            BY <1>1, <4>3, RingPayable DEF Typed
          <5>2. \A i \in 0 .. RspRing - 1 : i # j => Extra(ctlr'.rsp[i]) = Extra(ctlr.rsp[i])
            BY <3>2
          <5> HIDE DEF j, k
          <5> QED  BY <1>9, <4>4, <5>1, <5>2, CarriedStep DEF j
        <4>6. host.credits \in Int /\ ctlr.credits \in Int
          BY <1>1 DEF SInv, DriverTyped, Typed
        <4>7. ctlr.credits + Carried(ctlr.rsp) + host.credits + Cardinality(host.out)
                = NPkts \div 2
          BY <2>1 DEF SInv, Sound, Placed, Balanced
        <4>8. PICK x \in Int, y \in Int, v \in Int, w \in Int :
                /\ x = ctlr.credits /\ y = Carried(ctlr.rsp) /\ v = host.credits
                /\ w = Cardinality(host.out)
          BY <4>1, <4>5, <4>6
        <4>9. CASE k.end
          <5>1. r \in host.out
            BY <1>9, <3>1, <3>3, <4>2, <4>9 DEF Located, Kinds
          <5>2. Cardinality(host'.out) = w - 1
            BY <3>6, <4>1, <4>8, <5>1, FS_RemoveElement
          <5>3. host'.credits = v + k.arg /\ Carried(ctlr'.rsp) = y + (0 - (k.arg - 1))
            BY <1>3, <4>5, <4>8, <4>9
          <5>4. PICK m \in Int : m = k.arg
            BY <4>2, <4>9
          <5>5. x + (y + (0 - (m - 1))) + (v + m) + (w - 1) = x + y + v + w
            BY <4>8
          <5> QED  BY <1>4, <4>7, <4>8, <5>2, <5>3, <5>4, <5>5 DEF Balanced
        <4>10. CASE ~k.end
          <5>1. host'.credits = v /\ Carried(ctlr'.rsp) = y /\ host'.out = host.out
            BY <1>3, <4>5, <4>8, <4>10
          <5> QED  BY <1>4, <4>7, <4>8, <5>1 DEF Balanced
        <4> QED  BY <4>9, <4>10
      <3> QED  BY <1>4, <2>1, <3>7, <3>8 DEF Placed, Ok
    <2>2. CASE ~Ok(ctlr)
      BY <1>4, <2>2 DEF SInv, Sound, Placed, Ok
    <2> QED  BY <2>1, <2>2
  <1>12. Sound(ctlr', 0, 0, host')
    BY <1>8, <1>10, <1>14, BesideSound DEF SInv
  <1>13. Agree(ctlr', host')
    BY <1>2, <1>3, <1>4 DEF SInv, Agree
  <1>15. host'.out \subseteq 1 .. host'.ref - 1 /\ host'.credits \in Int
    <2>1. ctlr.rsp[host.hr].d.end => ctlr.rsp[host.hr].d.arg \in Int
      BY <1>2, <1>6, <1>9 DEF Said
    <2> QED  BY <1>3, <2>1 DEF SInv, DriverTyped
  <1> QED  BY <1>3, <1>4, <1>11, <1>12, <1>13, <1>15 DEF SInv, DriverTyped

\* The driver sleeps when no response waits for it.
LEMMA SleepKeeps ==
  ASSUME SInv, Sleep
  PROVE  SInv'
  <1>1. /\ host.step = "up" /\ ctlr.rsp[host.hr].own /\ ctlr' = ctlr
        /\ host' = [host EXCEPT !.awake = FALSE]
    BY DEF Sleep
  <1>2. /\ host'.step = "up" /\ host'.hr = host.hr /\ host'.awake = FALSE
        /\ host'.poll = host.poll /\ DOMAIN host' = DOMAIN host
        /\ host'.hc = host.hc /\ host'.ref = host.ref /\ host'.out = host.out
        /\ host'.credits = host.credits
    BY <1>1 DEF SInv, DriverTyped
  <1>3. RingOk(ctlr, host')
    <2>1. SUFFICES ASSUME Ok(ctlr) PROVE \E n \in 0 .. RspRing : Waiting(ctlr, host', n)
      BY DEF RingOk
    <2>2. PICK n \in 0 .. RspRing : Waiting(ctlr, host, n)
      BY <2>1 DEF SInv, Sound, Firm, RingOk
    <2>3. n = 0
      <3>1. PICK x \in 0 .. RspRing - 1 : x = host.hr
        BY DEF SInv, DriverTyped
      <3>2. Place(x, x) = 0
        BY <3>1 DEF Place
      <3>3. 0 >= n
        BY <1>1, <2>2, <3>1, <3>2 DEF Waiting
      <3> QED  BY <3>3
    <2>4. Waiting(ctlr, host', 0)
      BY <1>2, <2>2, <2>3 DEF Waiting
    <2> QED  BY <2>3, <2>4
  <1>4. Sound(ctlr, 0, 0, host')
    <2>1. Placed(ctlr, host')
      BY <1>2, PlacedSame DEF SInv, Sound
    <2> QED  BY <1>3, <2>1 DEF SInv, Sound, Firm
  <1>5. Agree(ctlr, host')
    BY <1>1, <1>2 DEF SInv, Agree
  <1> QED  BY <1>1, <1>2, <1>4, <1>5 DEF SInv, DriverTyped

-----------------------------------------------------------------------------
(* The theorems *)

\* What rq_reset makes of the controller after power up.
LEMMA InitSound == ASSUME Init PROVE SInv
  <1>1. ctlr = Reset(PowerUp) /\ host = NewHost
    BY DEF Init
  <1>2. Startable(PowerUp)
    <2>1. Viewed \subseteq DOMAIN PowerUp
      BY DEF PowerUp, Viewed, Fields
    <2>2. PowerUp.pkt = 0 /\ PowerUp.io = [u \in Unit |-> "none"]
          /\ PowerUp.cmd = [i \in 0 .. CmdRing - 1 |-> Returned(NoPacket)]
          /\ PowerUp.rsp = [i \in 0 .. RspRing - 1 |-> Returned(NoPacket)]
      BY DEF PowerUp
    <2>3. Asked(Returned(NoPacket)) /\ Said(Returned(NoPacket))
      BY DEF Returned, NoPacket, Tagged, Closed, Asked, Said
    <2> QED  BY <2>1, <2>2, <2>3 DEF Startable, RingsTyped
  <1>3. Sound(ctlr, 0, 0, host)
    BY <1>1, <1>2, StartSound
  <1>4. ctlr.csta = "S1" /\ ctlr.pkt = 0 /\ ctlr.credits = NPkts \div 2 - 1
    BY <1>1 DEF Reset, PowerUp
  <1>5. /\ host.step = "S1" /\ host.hr = 0 /\ host.awake = TRUE /\ host.poll = FALSE
        /\ host.hc = 0 /\ host.ref = 1 /\ host.out = {} /\ host.credits = 1
        /\ {"step", "hr", "awake", "poll", "hc", "ref", "out", "credits"} \subseteq DOMAIN host
    BY <1>1 DEF NewHost
  <1>6. 0 \in 0 .. RspRing - 1 /\ 0 \in 0 .. CmdRing - 1
    BY MscpAssumption
  <1>7. DriverTyped(host)
    <2>1. host.out \subseteq 1 .. host.ref - 1 /\ host.ref \in Nat \ {0}
      BY <1>5
    <2>2. host.hr \in 0 .. RspRing - 1 /\ host.hc \in 0 .. CmdRing - 1
      BY <1>5, <1>6
    <2>3. host.awake \in BOOLEAN
      BY <1>5
    <2>4. host.poll \in BOOLEAN
      BY <1>5
    <2>5. host.credits \in Int
      BY <1>5
    <2> QED  BY <1>5, <2>1, <2>2, <2>3, <2>4, <2>5 DEF DriverTyped
  <1>8. Agree(ctlr, host)
    BY <1>1, <1>4, <1>5 DEF Agree
  <1> QED  BY <1>3, <1>4, <1>7, <1>8 DEF SInv

LEMMA NextSound ==
  ASSUME SInv, IInv, [Next]_vars
  PROVE  SInv'
  <1>1. /\ Sound(ctlr, 0, 0, host) /\ DriverTyped(host) /\ Agree(ctlr, host)
        /\ ctlr.pkt = 0
    BY DEF SInv
  <1>2. CASE InitService
    BY <1>2, InitServiceSound
  <1>3. CASE QueueService
    <2>1. Ok(ctlr) /\ host' = host
      BY <1>3 DEF QueueService, Become
    <2>2. Resting(ctlr', host) /\ ctlr'.pkt = 0
      BY <1>1, <1>3, QueueServiceSound
    <2> QED  BY <1>1, <2>1, <2>2, AgreeUp DEF SInv, Resting
  <1>4. CASE TimerService
    <2>1. Timed(ctlr, ctlr', host) /\ host' = host
      BY <1>1, <1>4, TimerServiceSound
    <2>2. Agree(ctlr', host)
      BY <1>1, <2>1, AgreeUp DEF Timed
    <2> QED  BY <1>1, <2>1, <2>2 DEF SInv, Timed
  <1>5. CASE \E u \in Unit : UnitService(u)
    <2>1. ~Ok(ctlr) => Idle(ctlr)
      BY DEF IInv, Scheduled, Between
    <2>2. Ok(ctlr) /\ Done(ctlr, ctlr', host) /\ host' = host
      BY <1>1, <1>5, <2>1, UnitServiceSound
    <2> QED  BY <1>1, <2>2, AgreeUp DEF SInv, Done
  <1>6. CASE \E u \in Unit : Attach(u) \/ Detach(u)
    BY <1>6, SwapKeeps
  <1>7. CASE Driver \/ WriteIP
    BY <1>7, InitialiseKeeps, ReadIPKeeps, StartUpKeeps, IssueKeeps, InterruptKeeps,
       TakeKeeps, SleepKeeps, WriteIPKeeps DEF Driver
  <1>8. CASE UNCHANGED vars
    BY <1>8 DEF vars, SInv
  <1> QED  BY <1>2, <1>3, <1>4, <1>5, <1>6, <1>7, <1>8 DEF Next

THEOREM SInvAlways == Spec => [](SInv /\ IInv)
  BY InitIInv, NextIInv, InitSound, NextSound, PTL DEF Spec

\* The state has its types; the credits of the controller never leave their
\* range, no index runs past its ring, and no more packets are busy than
\* there are.
THEOREM TypeCorrect == Spec => []TypeOK
  <1>1. SInv => TypeOK
    <2> HAVE SInv
    <2>1. Typed(ctlr) /\ Wf(ctlr) /\ DriverTyped(host) /\ ctlr.pkt = 0
      BY DEF SInv, Sound, Firm, Typed
    <2>2. ctlr.pbsy \in 0 .. NPkts - 1
      <3>1. ctlr.pbsy = Len(Busy(ctlr)) /\ Busy(ctlr) \in Seq(Packet)
        BY <2>1, AllOnce, BusySet DEF SInv, Sound, Firm
      <3>2. Len(ctlr.freq) + ctlr.pbsy = NPkts - 1 /\ Len(ctlr.freq) \in Nat
        BY <2>1, BusySet DEF SInv, Sound, Firm, Counted
      <3>3. Len(Busy(ctlr)) \in Nat
        BY <3>1
      <3> QED  BY <3>1, <3>2, <3>3, MscpAssumption
    <2>3. /\ ctlr.csta \in States
          /\ ctlr.sa \in {"S1", "S2", "S3", "S4", "echo", "zero", "error"}
          /\ ctlr.ci \in 0 .. CmdRing - 1 /\ ctlr.ri \in 0 .. RspRing - 1
          /\ ctlr.credits \in 0 .. NPkts \div 2 - 1
          /\ ctlr.io \in [Unit -> {"none", "ok", "bad"}]
      BY <2>1 DEF Typed
    <2>4. /\ ctlr.freq \in Seq(Packet) /\ ctlr.rspq \in Seq(Packet)
          /\ \A u \in Unit : ctlr.cpkt[u] \in Packet \cup {0} /\ ctlr.pktq[u] \in Seq(Packet)
      BY <2>1 DEF Wf
    <2>5. {ctlr.qon, ctlr.ton, ctlr.pip, ctlr.irq, host.awake, host.poll} \subseteq BOOLEAN
      BY <2>1 DEF Wf, Typed, DriverTyped
    <2> QED  BY <2>1, <2>2, <2>3, <2>4, <2>5 DEF TypeOK, States
  <1> QED  BY <1>1, SInvAlways, PTL

\* Every packet is at any time on exactly one list: the free list, the
\* response queue, a unit's queue, or in a unit's hands; pbsy counts those
\* that are not free.
THEOREM PacketsAccounted == Spec => []Accounted
  <1>1. SInv => Accounted
    BY AllOnce DEF SInv, Sound, Firm, Typed, Accounted
  <1> QED  BY <1>1, SInvAlways, PTL

\* The timer that declares the host dead stands still while a packet with a
\* command's reference is in work.
THEOREM TimerStops == Spec => []TimerWhenIdle
  <1>1. SInv => TimerWhenIdle
    <2> HAVE SInv
    <2>1. SUFFICES ASSUME ctlr.hat > 0, NEW p \in ToSet(Busy(ctlr))
                   PROVE  ctlr.pak[p].ref = 0
      BY DEF TimerWhenIdle
    <2>2. p \in Packet /\ Uses(ctlr, 0, 0, p)
      BY <2>1, BusySet DEF SInv, Sound, Firm, Typed
    <2>3. ctlr.hat # 0
      BY <2>1
    <2> QED  BY <2>2, <2>3 DEF SInv, Sound, Firm, Quiet
  <1> QED  BY <1>1, SInvAlways, PTL

\* A driver that sleeps while a response lies in the ring is about to be
\* interrupted, though the controller interrupts only for the first one.
THEOREM InterruptNotLost == Spec => []NoLostInterrupt
  <1>1. SInv => NoLostInterrupt
    <2> HAVE SInv
    <2>1. SUFFICES ASSUME Ok(ctlr), ~host.awake, ~ctlr.rsp[host.hr].own
                   PROVE  ctlr.irq
      BY DEF NoLostInterrupt
    <2>2. PICK n \in 0 .. RspRing : Waiting(ctlr, host, n)
      BY <2>1 DEF SInv, Sound, Firm, RingOk
    <2>3. PICK x \in 0 .. RspRing - 1 : x = host.hr
      BY DEF SInv, DriverTyped
    <2>4. Place(x, x) = 0
      BY <2>3 DEF Place
    <2>5. ~(0 >= n)
      BY <2>1, <2>2, <2>3, <2>4 DEF Waiting
    <2>6. n # 0
      BY <2>5
    <2> QED  BY <2>1, <2>2, <2>6 DEF Waiting
  <1> QED  BY <1>1, SInvAlways, PTL

\* Half the packets are credits, at any time: with the controller, with the
\* driver, on their way in responses, or one for each command the driver waits
\* for.  None is lost or minted, responses that must wait included.
THEOREM NoCreditLost == Spec => []CreditsConserved
  <1>1. SInv => CreditsConserved
    <2> HAVE SInv
    <2>1. SUFFICES ASSUME Ok(ctlr)
                   PROVE  host.credits + ctlr.credits + Carried(ctlr.rsp)
                            + Cardinality(host.out) = NPkts \div 2
      BY DEF CreditsConserved
    <2>2. host.credits \in Int /\ ctlr.credits \in Int
      BY DEF SInv, DriverTyped, Sound, Firm, Typed
    <2>3. Carried(ctlr.rsp) \in Int /\ Cardinality(host.out) \in Int
      BY RingCarried, OutCounted DEF SInv, Sound, Firm, Typed
    <2>4. PICK x \in Int, y \in Int, v \in Int, w \in Int :
            /\ x = ctlr.credits /\ y = Carried(ctlr.rsp) /\ v = host.credits
            /\ w = Cardinality(host.out)
      BY <2>2, <2>3
    <2>5. x + y + v + w = NPkts \div 2
      BY <2>1, <2>4 DEF SInv, Sound, Placed, Balanced
    <2>6. v + x + y + w = x + y + v + w
      OBVIOUS
    <2> QED  BY <2>4, <2>5, <2>6
  <1> QED  BY <1>1, SInvAlways, PTL

\* What Answers counts for a command are the places that Ref gives it, and a
\* packet that is not free has one place among the busy ones.
LEMMA Counts ==
  ASSUME SInv, Ok(ctlr), NEW r, r # 0
  PROVE  /\ \A i \in DOMAIN ctlr.cmd :
              ctlr.cmd[i].own /\ ctlr.cmd[i].d.ref = r <=> Ref(ctlr, "cmd", i) = r
         /\ \A i \in DOMAIN Busy(ctlr) :
              LET d == ctlr.pak[Busy(ctlr)[i]] IN
              d.ref = r /\ d.typ = "seq" <=> Ref(ctlr, "pak", Busy(ctlr)[i]) = r
         /\ \A i \in DOMAIN ctlr.rsp :
              ~ctlr.rsp[i].own /\ ctlr.rsp[i].d.ref = r /\ ctlr.rsp[i].d.end
                <=> Ref(ctlr, "rsp", i) = r
         /\ DOMAIN ctlr.cmd = 0 .. CmdRing - 1 /\ DOMAIN ctlr.rsp = 0 .. RspRing - 1
         /\ Busy(ctlr) \in Seq(Packet)
         /\ \A i, j \in DOMAIN Busy(ctlr) : Busy(ctlr)[i] = Busy(ctlr)[j] => i = j
         /\ \A n : Ref(ctlr, "pak", n) = r => \E i \in DOMAIN Busy(ctlr) : Busy(ctlr)[i] = n
  <1> DEFINE q == Busy(ctlr)
             f == ctlr.freq
  <1>1. /\ Typed(ctlr) /\ Wf(ctlr) /\ RingsTyped(ctlr)
        /\ Counted(ctlr, 0, 0) /\ Covered(ctlr, 0, 0)
    BY DEF SInv, Sound, Firm, Typed
  <1>2. /\ q \in Seq(Packet) /\ f \in Seq(Packet)
        /\ f \o q \in Seq(Packet) /\ Len(f \o q) = NPkts - 1 /\ ToSet(f \o q) = Packet
    BY <1>1, AllOnce, BusySet DEF Wf
  <1> HIDE DEF q
  <1>3. \A i, j \in 1 .. Len(f \o q) : (f \o q)[i] = (f \o q)[j] => i = j
    BY <1>2, OnlyOnce
  <1>4. /\ Len(f) \in Nat /\ Len(q) \in Nat /\ Len(f \o q) = Len(f) + Len(q)
        /\ \A i \in 1 .. Len(f) : (f \o q)[i] = f[i]
        /\ \A i \in 1 .. Len(q) : (f \o q)[Len(f) + i] = q[i]
        /\ DOMAIN q = 1 .. Len(q)
    BY <1>2
  <1>5. ASSUME NEW i \in 1 .. Len(q), NEW j \in 1 .. Len(q), q[i] = q[j] PROVE i = j
    <2>1. PICK x \in Nat, y \in Nat : x = Len(f) /\ y = Len(q)
      BY <1>4
    <2>2. x + i \in 1 .. x + y /\ x + j \in 1 .. x + y
      BY <2>1
    <2>3. x + i \in 1 .. Len(f \o q) /\ x + j \in 1 .. Len(f \o q)
      BY <1>4, <2>1, <2>2
    <2>4. (f \o q)[x + i] = (f \o q)[x + j]
      BY <1>4, <1>5, <2>1
    <2>5. x + i = x + j
      BY <1>3, <2>3, <2>4
    <2> QED  BY <2>5
  <1>6. ToSet(f) \cap ToSet(q) = {}
    <2>1. ToSet(f) \cup ToSet(q) = Packet /\ Len(f) + Len(q) = NPkts - 1
      BY <1>2, <1>4, SetOfBoth
    <2> QED  BY <1>2, <2>1, Apart
  <1>7. ASSUME NEW i \in 1 .. Len(q)
        PROVE  Ref(ctlr, "pak", q[i]) = ctlr.pak[q[i]].ref /\ Tagged(ctlr.pak[q[i]])
    <2>1. q[i] \in Packet
      BY <1>2
    <2>2. q[i] \in ToSet(q)
      BY <1>4 DEF ToSet
    <2> QED  BY <1>1, <1>6, <2>1, <2>2 DEF Ref, Typed
  <1>8. ASSUME NEW n, Ref(ctlr, "pak", n) = r
        PROVE  \E i \in 1 .. Len(q) : q[i] = n
    <2>1. n \in Packet /\ n \notin ToSet(f)
      BY <1>8 DEF Ref
    <2>2. n \in ToSet(q)
      BY <1>2, <2>1, SetOfBoth
    <2> QED  BY <1>4, <2>2 DEF ToSet
  <1>9. \A i \in DOMAIN q : LET d == ctlr.pak[q[i]] IN
          d.ref = r /\ d.typ = "seq" <=> Ref(ctlr, "pak", q[i]) = r
    BY <1>4, <1>7 DEF Tagged
  <1>10. \A i \in DOMAIN ctlr.cmd :
           ctlr.cmd[i].own /\ ctlr.cmd[i].d.ref = r <=> Ref(ctlr, "cmd", i) = r
    BY <1>1 DEF RingsTyped, Ref
  <1>11. \A i \in DOMAIN ctlr.rsp :
           ~ctlr.rsp[i].own /\ ctlr.rsp[i].d.ref = r /\ ctlr.rsp[i].d.end
             <=> Ref(ctlr, "rsp", i) = r
    <2> TAKE i \in DOMAIN ctlr.rsp
    <2>1. i \in 0 .. RspRing - 1 /\ Said(ctlr.rsp[i])
      BY <1>1 DEF RingsTyped
    <2>2. ~ctlr.rsp[i].own => /\ Ref(ctlr, "rsp", i) = ctlr.rsp[i].d.ref
                              /\ ctlr.rsp[i].d.end \in BOOLEAN
                              /\ ctlr.rsp[i].d.ref # 0 <=> ctlr.rsp[i].d.end
      BY <2>1 DEF Said, Ref, Closed, Tagged
    <2>3. ctlr.rsp[i].own => Ref(ctlr, "rsp", i) = 0
      BY <2>1 DEF Said, Ref
    <2>4. r # 0
      OBVIOUS
    <2> QED  BY <2>1, <2>2, <2>3, <2>4 DEF Said
  <1> QED  BY <1>1, <1>2, <1>4, <1>5, <1>8, <1>9, <1>10, <1>11 DEF RingsTyped, q

\* A command the driver waits for is at one place: a descriptor of the command
\* ring, a busy packet or a response.  So each is answered, and once only,
\* whatever is aborted, refused or put off on the way.
THEOREM EveryCommandOnce == Spec => []OneAnswer
  <1>1. SInv => OneAnswer
    <2>1. SUFFICES ASSUME SInv, Ok(ctlr), NEW r \in 1 .. host.ref - 1
                   PROVE  Answers(r) = IF r \in host.out THEN 1 ELSE 0
      BY DEF OneAnswer
    <2> DEFINE q == Busy(ctlr)
               A == {i \in DOMAIN ctlr.cmd : ctlr.cmd[i].own /\ ctlr.cmd[i].d.ref = r}
               B == {i \in DOMAIN q : ctlr.pak[q[i]].ref = r /\ ctlr.pak[q[i]].typ = "seq"}
               C == {i \in DOMAIN ctlr.rsp : ~ctlr.rsp[i].own /\ ctlr.rsp[i].d.ref = r
                                               /\ ctlr.rsp[i].d.end}
    <2>2. Answers(r) = Cardinality(A) + Cardinality(B) + Cardinality(C)
      BY DEF Answers
    <2>3. r # 0 /\ r \in Int
      BY <2>1 DEF SInv, DriverTyped
    <2>4. Located(ctlr, host)
      BY <2>1 DEF SInv, Sound, Placed
    <2>5. /\ A = {i \in 0 .. CmdRing - 1 : Ref(ctlr, "cmd", i) = r}
          /\ B = {i \in DOMAIN q : Ref(ctlr, "pak", q[i]) = r}
          /\ C = {i \in 0 .. RspRing - 1 : Ref(ctlr, "rsp", i) = r}
          /\ q \in Seq(Packet)
          /\ \A i, j \in DOMAIN q : q[i] = q[j] => i = j
          /\ \A n : Ref(ctlr, "pak", n) = r => \E i \in DOMAIN q : q[i] = n
      <3>1. /\ \A i \in DOMAIN ctlr.cmd :
                 ctlr.cmd[i].own /\ ctlr.cmd[i].d.ref = r <=> Ref(ctlr, "cmd", i) = r
            /\ \A i \in DOMAIN q :
                 ctlr.pak[q[i]].ref = r /\ ctlr.pak[q[i]].typ = "seq"
                   <=> Ref(ctlr, "pak", q[i]) = r
            /\ \A i \in DOMAIN ctlr.rsp :
                 ~ctlr.rsp[i].own /\ ctlr.rsp[i].d.ref = r /\ ctlr.rsp[i].d.end
                   <=> Ref(ctlr, "rsp", i) = r
            /\ DOMAIN ctlr.cmd = 0 .. CmdRing - 1 /\ DOMAIN ctlr.rsp = 0 .. RspRing - 1
            /\ q \in Seq(Packet)
            /\ \A i, j \in DOMAIN q : q[i] = q[j] => i = j
            /\ \A n : Ref(ctlr, "pak", n) = r => \E i \in DOMAIN q : q[i] = n
        BY <2>1, <2>3, Counts
      <3> HIDE DEF q
      <3>2. A = {i \in 0 .. CmdRing - 1 : Ref(ctlr, "cmd", i) = r}
        BY <3>1
      <3>3. B = {i \in DOMAIN q : Ref(ctlr, "pak", q[i]) = r}
        BY <3>1
      <3>4. C = {i \in 0 .. RspRing - 1 : Ref(ctlr, "rsp", i) = r}
        BY <3>1
      <3> QED  BY <3>1, <3>2, <3>3, <3>4
    <2>6. \A i \in DOMAIN q : q[i] \in Int
      <3>1. \A i \in DOMAIN q : q[i] \in Packet
        BY <2>5
      <3> QED  BY <3>1, MscpAssumption DEF Packet
    <2> HIDE DEF q, A, B, C
    <2>7. Cardinality({}) = 0 /\ \A x : Cardinality({x}) = 1
      BY FS_EmptySet, FS_Singleton
    <2>8. CASE r \notin host.out
      <3>1. \A k \in Kinds, n \in Int : Ref(ctlr, k, n) # r
        BY <2>3, <2>4, <2>8 DEF Located
      <3>2. A = {} /\ B = {} /\ C = {}
        BY <2>5, <2>6, <3>1 DEF Kinds
      <3> QED  BY <2>2, <2>7, <2>8, <3>2
    <2>9. CASE r \in host.out
      <3>1. PICK k \in Kinds, n \in Int : Ref(ctlr, k, n) = r
        BY <2>4, <2>9 DEF Located
      <3>2. \A l \in Kinds, m \in Int : Ref(ctlr, l, m) = r => l = k /\ m = n
        BY <2>3, <2>4, <3>1 DEF Located
      <3>3. CASE k = "cmd"
        <4>1. n \in 0 .. CmdRing - 1
          BY <2>3, <3>1, <3>3 DEF Ref
        <4>2. A = {n} /\ B = {} /\ C = {}
          BY <2>5, <2>6, <3>1, <3>2, <3>3, <4>1 DEF Kinds
        <4>3. Cardinality(A) = 1 /\ Cardinality(B) = 0 /\ Cardinality(C) = 0
          BY <2>7, <4>2
        <4> QED  BY <2>2, <2>9, <4>3
      <3>4. CASE k = "pak"
        <4>1. PICK i \in DOMAIN q : q[i] = n
          BY <2>5, <3>1, <3>4
        <4>2. A = {} /\ B = {i} /\ C = {}
          BY <2>5, <2>6, <3>1, <3>2, <3>4, <4>1 DEF Kinds
        <4>3. Cardinality(A) = 0 /\ Cardinality(B) = 1 /\ Cardinality(C) = 0
          BY <2>7, <4>2
        <4> QED  BY <2>2, <2>9, <4>3
      <3>5. CASE k = "rsp"
        <4>1. n \in 0 .. RspRing - 1
          BY <2>3, <3>1, <3>5 DEF Ref
        <4>2. A = {} /\ B = {} /\ C = {n}
          BY <2>5, <2>6, <3>1, <3>2, <3>5, <4>1 DEF Kinds
        <4>3. Cardinality(A) = 0 /\ Cardinality(B) = 0 /\ Cardinality(C) = 1
          BY <2>7, <4>2
        <4> QED  BY <2>2, <2>9, <4>3
      <3> QED  BY <3>3, <3>4, <3>5 DEF Kinds
    <2> QED  BY <2>8, <2>9
  <1> QED  BY <1>1, SInvAlways, PTL

=============================================================================
