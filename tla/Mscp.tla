-------------------------------- MODULE Mscp --------------------------------
(***************************************************************************)
(* The MSCP disk controller (PDP11/pdp11_rq.c): initialisation by SA and   *)
(* IP, the packets and their lists, the command and the response ring in   *)
(* host memory, credits, the queue service, data transfers in two halves   *)
(* around the disk access, error log and attention packets, the host       *)
(* timeout and fatal errors.  The host driver is external.                 *)
(*                                                                         *)
(* The controller is a record, with the rings it shares with the host;     *)
(* routines are operators from record to record.  A routine that returns   *)
(* ERR has called rq_fatal, which leaves csta = "DEAD".                    *)
(*                                                                         *)
(* Left out: memory errors on the rings, the test for 'reasonable' block   *)
(* numbers and counts and write locks (a command is valid or not), vector  *)
(* and interrupt enable (both are set), the flag bit of a descriptor (the  *)
(* driver gives every one with it set, to be interrupted), the fields of a *)
(* response that no property looks at, and the stop of the simulator after *)
(* a data error (rq_svc returns SCPE_IOERR): nothing of the controller     *)
(* changes with it, and the operator is taken to continue.                 *)
(***************************************************************************)
EXTENDS Integers, Sequences, FiniteSets, SequencesExt

CONSTANTS
  NPkts,       \* RQ_NPKTS: packets, number 0 is not used
  MaxCr,       \* 14: the most credits given beside the one of the response
  CmdRing,     \* descriptors in the command ring, a power of two
  RspRing,     \* descriptors in the response ring, a power of two
  Present,     \* the units that are not disabled
  Htmo,        \* host timeout in seconds, 0 for none
  Scenarios    \* the commands of the driver, and what else may happen

ASSUME MscpAssumption ==
  /\ NPkts \in Nat /\ NPkts >= 4 /\ MaxCr \in Nat
  /\ CmdRing \in Nat \ {0} /\ RspRing \in Nat \ {0}
  /\ Present \subseteq 0 .. 3 /\ Htmo \in Nat
  /\ \A s \in Scenarios :
       {"prog", "errs", "faults", "swaps", "inits"} \subseteq DOMAIN s

VARIABLES
  ctlr,        \* the controller (MSC), its units and the rings
  host,        \* the driver
  left         \* the scenario: commands to come, events that may still happen

vars == <<ctlr, host, left>>

Unit == 0 .. 3                      \* RQ_NUMDR
Packet == 1 .. NPkts - 1

\* The element of a set with one element: {F(d) : d \in {e}} names e once.
The(S) == CHOOSE x \in S : TRUE

NoPacket == [ref |-> 0, op |-> "none", unit |-> 0, arg |-> 0, len |-> 0,
             typ |-> "seq", end |-> FALSE, sts |-> "none"]
Returned(content) == [own |-> FALSE, d |-> content]
Given == [own |-> TRUE, d |-> NoPacket]

(***************************************************************************)
(* rq_reset: what an initialisation leaves.  Units stay attached, and      *)
(* io_complete, the status and the buffer of a unit are not touched.       *)
(***************************************************************************)
Reset(c) ==
  [c EXCEPT !.csta = "S1", !.sa = "S1", !.ths = FALSE, !.atn = FALSE,
            !.htmo = Htmo, !.hat = Htmo, !.ci = 0, !.ri = 0,
            !.credits = NPkts \div 2 - 1,
            !.freq = [i \in 1 .. NPkts - 1 |-> i],
            !.pak = [p \in Packet |-> NoPacket],
            !.rspq = <<>>, !.pbsy = 0, !.pip = FALSE, !.irq = FALSE,
            !.qon = FALSE, !.ton = FALSE, !.uon = [u \in Unit |-> FALSE],
            !.onl = [u \in Unit |-> FALSE], !.atp = [u \in Unit |-> FALSE],
            !.cpkt = [u \in Unit |-> 0], !.pktq = [u \in Unit |-> <<>>]]

\* Before the first reset; lastrun is history: the last command that was
\* started or done for a unit.
PowerUp ==
  [csta |-> "S1", sa |-> "S1", saw |-> "none", ths |-> FALSE, atn |-> FALSE,
   perr |-> FALSE, htmo |-> 0, hat |-> 0, ci |-> 0, ri |-> 0, credits |-> 0,
   freq |-> <<>>, pak |-> <<>>, rspq |-> <<>>, pbsy |-> 0, pip |-> FALSE,
   irq |-> FALSE, qon |-> FALSE, ton |-> FALSE,
   uon |-> [u \in Unit |-> FALSE], onl |-> [u \in Unit |-> FALSE],
   atp |-> [u \in Unit |-> FALSE], cpkt |-> [u \in Unit |-> 0],
   pktq |-> [u \in Unit |-> <<>>],
   att |-> [u \in Unit |-> u \in Present],
   io |-> [u \in Unit |-> "none"], buf |-> [u \in Unit |-> 0],
   cmd |-> [i \in 0 .. CmdRing - 1 |-> Returned(NoPacket)],
   rsp |-> [i \in 0 .. RspRing - 1 |-> Returned(NoPacket)],
   pkt |-> 0, lastrun |-> [u \in Unit |-> 0]]

Fatal(c) == [Reset(c) EXCEPT !.sa = "error", !.csta = "DEAD", !.perr = TRUE]

Ok(c) == c.csta = "UP"

-----------------------------------------------------------------------------
(* Packets and descriptors *)

InitInt(c) == [c EXCEPT !.irq = TRUE]

\* Mutant: the host is interrupted when it has not yet emptied the ring.
RingInt_Inverted(c, ring, idx, len) ==
  IF len = 1 \/ ~ring[(idx + len - 1) % len].own
  THEN [c EXCEPT !.irq = TRUE] ELSE c

\* The host is interrupted when a ring stops being empty or full: when the
\* descriptor before the one that is returned is still the controller's.
RingInt(c, ring, idx, len) ==
  IF len = 1 \/ ring[(idx + len - 1) % len].own
  THEN [c EXCEPT !.irq = TRUE] ELSE c

\* Mutant: the index runs past the end of the ring.
ReturnRsp_NoWrap(c, content) ==
  RingInt([c EXCEPT !.rsp[c.ri] = Returned(content), !.ri = @ + 1],
          [c.rsp EXCEPT ![c.ri].own = FALSE], c.ri, RspRing)

\* Mutant: the command's descriptor stays the controller's.
ReturnCmd_Kept(c) == RingInt([c EXCEPT !.ci = (@ + 1) % CmdRing], c.cmd, c.ci, CmdRing)

\* rq_putdesc for the response ring and for the command ring.
ReturnRsp(c, content) ==
  RingInt([c EXCEPT !.rsp[c.ri] = Returned(content), !.ri = (@ + 1) % RspRing],
          [c.rsp EXCEPT ![c.ri].own = FALSE], c.ri, RspRing)

ReturnCmd(c) ==
  RingInt([c EXCEPT !.cmd[c.ci] = Returned(NoPacket), !.ci = (@ + 1) % CmdRing],
          [c.cmd EXCEPT ![c.ci].own = FALSE], c.ci, CmdRing)

\* rq_deqf: the packet that is taken is the Head of the list.
DeqF(c) ==
  IF c.freq = <<>> THEN Fatal(c)
  ELSE [c EXCEPT !.freq = Tail(@), !.pbsy = @ + 1]

\* Mutant: credits are taken for every packet.
Cr_AnyPacket(c, p) == IF c.credits >= MaxCr THEN MaxCr ELSE c.credits

\* The credits an end packet carries beside its own.
Cr(c, p) ==
  IF c.pak[p].typ = "seq" /\ c.pak[p].end
  THEN IF c.credits >= MaxCr THEN MaxCr ELSE c.credits
  ELSE 0

\* rq_putpkt: into the ring, or while the host owns the descriptor onto the
\* response queue: at its end, or at its head when it comes from there.
PutPkt(c, p, qt) ==
  IF ~c.rsp[c.ri].own
  THEN [c EXCEPT !.rspq = IF qt THEN Append(@, p) ELSE <<p>> \o @, !.qon = TRUE]
  ELSE LET d == c.pak[p]
           cr == Cr(c, p)
           due == IF d.typ = "seq" /\ d.end THEN cr + 1 ELSE 0
           sent == [c EXCEPT !.credits = @ - cr, !.freq = <<p>> \o @,
                             !.pbsy = @ - 1,
                             !.hat = IF c.pbsy = 1 THEN c.htmo ELSE @]
       IN  The({ReturnRsp(e, [d EXCEPT !.arg = due]) : e \in {sent}})

\* rq_putr, and rq_putpkt: an end packet for the command in packet p.
Answer(c, p, sts) ==
  [c EXCEPT !.pak[p] = [@ EXCEPT !.typ = "seq", !.end = TRUE, !.sts = sts]]

Respond(c, p, sts) == The({PutPkt(d, p, TRUE) : d \in {Answer(c, p, sts)}})

\* A packet the controller sends of its own accord.
Send(c, typ, sts, unit) ==
  IF c.freq = <<>> THEN Fatal(c)
  ELSE PutPkt([DeqF(c) EXCEPT !.pak[Head(c.freq)] =
                 [NoPacket EXCEPT !.typ = typ, !.sts = sts, !.unit = unit]],
              Head(c.freq), TRUE)

\* rq_dte and rq_hbe log when the host wants it.
LogError(c, u) == IF c.ths THEN Send(c, "dat", "log", u) ELSE c
LogFailure(c) == Send(c, "dat", "plf", 0)                 \* rq_plf
Attention(c, u) == Send(c, "seq", "una", u)               \* rq_una

-----------------------------------------------------------------------------
(* Commands (rq_mscp) *)

Deferrable == {"avl", "onl", "suc", "fmt", "rw"}

\* Mutant: a command that must wait goes to the front.
Enqueue_First(c, p, u) == [c EXCEPT !.pktq[u] = <<p>> \o @]

Enqueue(c, p, u) == [c EXCEPT !.pktq[u] = Append(@, p)]

Ran(c, p) == [c EXCEPT !.lastrun[c.pak[p].unit] = c.pak[p].ref]

\* Mutant: the target stays current.
Abort_Current(c, p) ==
  LET u == c.pak[p].unit
      d == IF u \in Present /\ c.cpkt[u] # 0 /\ c.pak[c.cpkt[u]].ref = c.pak[p].arg
           THEN Respond(c, c.cpkt[u], "abo") ELSE c
  IN  IF Ok(d) THEN Respond(d, p, "suc") ELSE d

\* rq_abo: the target is the current command of the unit, or on its queue.
Abort(c, p) ==
  LET u == c.pak[p].unit
      ref == c.pak[p].arg
      queued == {i \in 1 .. Len(c.pktq[u]) : c.pak[c.pktq[u][i]].ref = ref}
      i == CHOOSE j \in queued : \A l \in queued : j <= l
      d == IF u \notin Present THEN c
           ELSE IF c.cpkt[u] # 0 /\ c.pak[c.cpkt[u]].ref = ref
           THEN Respond([c EXCEPT !.cpkt[u] = 0, !.uon[u] = FALSE, !.qon = TRUE],
                        c.cpkt[u], "abo")
           ELSE IF queued # {}
           THEN Respond([c EXCEPT !.pktq[u] = RemoveAt(@, i)], c.pktq[u][i], "abo")
           ELSE c
  IN  IF Ok(d) THEN Respond(d, p, "suc") ELSE d

\* rq_avl: the volume is released; unloaded too when the command says so.
Available(c, p) ==
  LET u == c.pak[p].unit
  IN  Respond([c EXCEPT !.onl[u] = FALSE,
                        !.att[u] = @ /\ c.pak[p].arg = 0], p, "suc")

\* sim_disk_isavailable: the drive of a raw disk may have lost its medium.
Usable(c, p) == c.pak[p].arg = 0

Online(c, p) ==                                           \* rq_onl
  LET u == c.pak[p].unit
  IN  IF c.att[u] /\ (c.onl[u] \/ Usable(c, p))
      THEN Respond([c EXCEPT !.onl[u] = TRUE], p, "suc")
      ELSE Respond(c, p, "ofl")

SetUnit(c, p) == Respond(c, p, IF c.att[c.pak[p].unit] THEN "suc" ELSE "ofl") \* rq_suc

\* rq_fmt: arg = 0 when the drive or the command is not fit for it.
Format(c, p) ==
  LET u == c.pak[p].unit
  IN  IF c.pak[p].arg = 0 THEN Respond(c, p, "cmd")
      ELSE IF ~c.att[u] THEN Respond(c, p, "ofl")
      ELSE IF c.onl[u] THEN Respond([c EXCEPT !.onl[u] = FALSE], p, "avl")
      ELSE Respond(c, p, "suc")

\* rq_rw and rq_rw_valid: arg = 0 when the command is not valid.
Transfer(c, p) ==
  LET u == c.pak[p].unit
  IN  IF ~c.att[u] THEN Respond(c, p, "ofl")
      ELSE IF ~c.onl[u] THEN Respond(c, p, "avl")
      ELSE IF c.pak[p].arg = 0 THEN Respond(c, p, "cmd")
      ELSE [c EXCEPT !.cpkt[u] = p, !.uon[u] = TRUE]

\* rq_scc: arg > 0 when the host wants error logs and attention, len its
\* timeout.
SetController(c, p) ==
  LET tmo == c.pak[p].len
  IN  Respond([c EXCEPT !.ths = c.pak[p].arg > 0, !.atn = c.pak[p].arg > 0,
                        !.htmo = IF tmo = 0 THEN 0 ELSE tmo + 2], p, "suc")

UnitStatus(c, p) ==                                       \* rq_gus
  LET u == c.pak[p].unit
  IN  Respond(c, p, IF u \notin Present \/ ~c.att[u] THEN "ofl"
                    ELSE IF c.onl[u] THEN "suc" ELSE "avl")

OnUnit(c, p) ==
  CASE c.pak[p].op = "avl" -> Available(c, p)
    [] c.pak[p].op = "onl" -> Online(c, p)
    [] c.pak[p].op = "suc" -> SetUnit(c, p)
    [] c.pak[p].op = "fmt" -> Format(c, p)
    [] c.pak[p].op = "rw" -> Transfer(c, p)

\* q: the packet comes from the host, and waits while its unit is busy.
Mscp(c, p, q) ==
  LET d == c.pak[p]
  IN  IF d.op \in Deferrable
      THEN IF d.unit \notin Present THEN Respond(c, p, "ofl")
           ELSE IF q /\ c.cpkt[d.unit] # 0 THEN Enqueue(c, p, d.unit)
           ELSE OnUnit(Ran(c, p), p)
      ELSE CASE d.op = "abo" -> Abort(c, p)
             [] d.op = "scc" -> SetController(c, p)
             [] d.op = "gus" -> UnitStatus(c, p)
             [] d.op \in {"gcs", "nop"} -> Respond(c, p, "suc")
             [] OTHER -> Respond(c, p, "cmd")

-----------------------------------------------------------------------------
(* The queue service (rq_quesvc) when the controller is up *)

\* Unit u is idle and has commands waiting: the first one is taken.
ServeUnit(c, u) ==
  IF Ok(c) /\ c.cpkt[u] = 0 /\ c.pktq[u] # <<>>
  THEN Mscp([c EXCEPT !.pktq[u] = Tail(@), !.pkt = Head(c.pktq[u])],
            Head(c.pktq[u]), FALSE)
  ELSE c

\* Mutant: the host timer goes on.
GetPkt_TimerRuns(c) ==
  IF c.freq = <<>> THEN Fatal(c)
  ELSE ReturnCmd([DeqF(c) EXCEPT !.pkt = Head(c.freq),
                                 !.pak[Head(c.freq)] = c.cmd[c.ci].d])

\* rq_getpkt: the command is read and its descriptor returned.
GetPkt(c) ==
  LET p == Head(c.freq)
  IN  IF c.freq = <<>> THEN Fatal(c)
      ELSE ReturnCmd([DeqF(c) EXCEPT !.hat = 0, !.pkt = p,
                                     !.pak[p] = c.cmd[c.ci].d])

\* With nothing from the units' queues the command ring is looked at.
PollHost(c) ==
  IF ~(Ok(c) /\ c.pkt = 0 /\ c.pip) THEN c
  ELSE IF c.cmd[c.ci].own THEN GetPkt(c) ELSE [c EXCEPT !.pip = FALSE]

\* The packet that PollHost added to c, if it did.  One of another type or
\* for another connection is fatal.
Dispatch(c, d) ==
  IF ~(Ok(d) /\ c.pkt = 0 /\ d.pkt # 0) THEN d
  ELSE IF d.pak[d.pkt].op = "invalid" THEN Fatal(d)
  ELSE IF d.pak[d.pkt].op = "dup" THEN Respond(d, d.pkt, "cmd")
  ELSE Mscp(d, d.pkt, TRUE)

\* One packet of the response queue.
PutQueued(c) ==
  IF Ok(c) /\ c.rspq # <<>>
  THEN PutPkt([c EXCEPT !.rspq = Tail(@), !.pkt = Head(c.rspq)], Head(c.rspq), FALSE)
  ELSE c

\* Mutant: the service does not schedule itself.
GoOn_Once(c) == [c EXCEPT !.pkt = 0]

\* "More to do?"
GoOn(c) == [c EXCEPT !.qon = @ \/ (Ok(c) /\ c.pkt # 0), !.pkt = 0]

-----------------------------------------------------------------------------
(* Initialisation, data transfers and the clock *)

\* rq_step4: the rings in host memory are cleared.
Step4(c) ==
  InitInt([c EXCEPT !.sa = "S4", !.csta = "S4", !.ci = 0, !.ri = 0,
                    !.cmd = [i \in DOMAIN @ |-> Returned(NoPacket)],
                    !.rsp = [i \in DOMAIN @ |-> Returned(NoPacket)]])

\* The go bit of the last SA word; "golf" asks for the last failure too.
GoUp(c) ==
  LET d == [c EXCEPT !.csta = "UP", !.sa = "zero", !.ton = TRUE]
  IN  [(IF c.saw = "golf" /\ c.perr THEN LogFailure(d) ELSE d) EXCEPT !.perr = FALSE]

\* The queue service while the controller is being initialised.
InitStep(c) ==
  CASE c.csta = "S1" /\ c.saw = "s1" -> InitInt([c EXCEPT !.sa = "S2", !.csta = "S2"])
    [] c.csta = "S1" /\ c.saw = "wrap" -> [c EXCEPT !.sa = "echo", !.csta = "S1_WR"]
    [] c.csta = "S2" -> InitInt([c EXCEPT !.sa = "S3", !.csta = "S3"])
    [] c.csta = "S3" /\ c.saw = "purge" -> [c EXCEPT !.sa = "zero", !.csta = "S3_PPA"]
    [] c.csta = "S3" /\ c.saw # "purge" -> Step4(c)
    [] c.csta = "S3_PPA" /\ c.saw = "zero" -> [c EXCEPT !.csta = "S3_PPB"]
    [] c.csta = "S3_PPA" /\ c.saw # "zero" -> Fatal(c)
    [] c.csta = "S4" /\ c.saw \in {"go", "golf"} -> GoUp(c)
    [] OTHER -> c

\* Mutant: the unit's queue waits for the next poll.
RwEnd_NoKick(c, u, sts) == Respond([c EXCEPT !.cpkt[u] = 0], c.cpkt[u], sts)

\* rq_rw_end: the answer, and the unit is free for its next command.
RwEnd(c, u, sts) ==
  LET d == Respond([c EXCEPT !.cpkt[u] = 0], c.cpkt[u], sts)
  IN  [d EXCEPT !.qon = @ \/ (Ok(d) /\ d.pktq[u] # <<>>)]

\* rq_hbe or rq_dte, and the answer when that went well.
RwError(c, u, sts) ==
  LET d == LogError(c, u) IN IF Ok(d) THEN RwEnd(d, u, sts) ELSE d

Work(c, u) == [ref |-> c.pak[c.cpkt[u]].ref, len |-> c.pak[c.cpkt[u]].len]

\* The top half: the disk access fills the unit's buffer and calls back
\* rq_io_complete.  A write none of whose words can be read starts nothing.
StartIo(c, u, status) ==
  IF status = "nothing" THEN c
  ELSE [c EXCEPT !.io[u] = status, !.buf[u] = Work(c, u), !.uon[u] = TRUE]

\* The bottom half, when memory and data are good ("none") or not.
FinishIo(c0, u, memory) ==
  LET c == [c0 EXCEPT !.io[u] = "none"]
      more == [c EXCEPT !.pak[c.cpkt[u]].len = @ - 1]
  IN  CASE memory = "nxm" -> RwError(c, u, "hst")
        [] memory = "cmp" /\ c0.io[u] = "ok" -> RwEnd(c, u, "cmp")
        [] memory # "nxm" /\ c0.io[u] = "bad" -> RwError(c, u, "drv")
        [] OTHER -> IF c.pak[c.cpkt[u]].len > 1 THEN [more EXCEPT !.uon[u] = TRUE]
                    ELSE RwEnd(more, u, "suc")

\* rq_tmrsvc: one unit's pending attention.
Attend(c, u) ==
  IF ~Ok(c) THEN c
  ELSE LET d == IF c.atp[u] /\ c.att[u] /\ c.atn THEN Attention(c, u) ELSE c
       IN  IF Ok(d) THEN [d EXCEPT !.atp[u] = FALSE] ELSE d

HostTimer(c) ==
  IF ~Ok(c) \/ c.hat = 0 THEN c
  ELSE IF c.hat = 1 THEN Fatal(c) ELSE [c EXCEPT !.hat = @ - 1]

-----------------------------------------------------------------------------
(* Actions of the controller *)

NewHost ==
  [step |-> "S1", hc |-> 0, hr |-> 0, credits |-> 1, ref |-> 1, out |-> {},
   awake |-> TRUE, poll |-> FALSE]

Init ==
  /\ ctlr = Reset(PowerUp)
  /\ left \in Scenarios
  /\ host = NewHost

Become(c) == ctlr' = c /\ UNCHANGED <<host, left>>

InitService ==
  /\ ctlr.qon /\ ctlr.csta \notin {"UP", "DEAD"}
  /\ Become(InitStep([ctlr EXCEPT !.qon = FALSE]))

QueueService ==
  /\ ctlr.qon /\ Ok(ctlr)
  /\ \E c0 \in {ServeUnit([ctlr EXCEPT !.qon = FALSE, !.pkt = 0], 0)} :
     \E c1 \in {ServeUnit(c0, 1)} :
     \E c2 \in {ServeUnit(c1, 2)} :
     \E c3 \in {ServeUnit(c2, 3)} :
     \E c4 \in {PollHost(c3)} :
     \E c5 \in {Dispatch(c3, c4)} :
     \E c6 \in {PutQueued(c5)} : Become(GoOn(c6))

\* rq_svc of a unit.  Which disk access or which word of memory fails is the
\* scenario's choice.
UnitService(u) ==
  /\ ctlr.uon[u] /\ ctlr.cpkt[u] # 0
  /\ UNCHANGED host
  /\ \E fault \in {"none"} \cup IF left.errs > 0 THEN left.faults ELSE {} :
     \E c \in {[ctlr EXCEPT !.uon[u] = FALSE]} :
       /\ left' = [left EXCEPT !.errs = IF fault = "none" THEN @ ELSE @ - 1]
       /\ \/ ~c.att[u] /\ fault = "none" /\ ctlr' = RwEnd(c, u, "ofl")
          \/ /\ c.att[u] /\ Work(c, u).len = 0 /\ fault = "none"
             /\ ctlr' = RwEnd(c, u, "suc")
          \/ /\ c.att[u] /\ Work(c, u).len > 0 /\ c.io[u] = "none"
             /\ fault \in {"none", "bad", "nothing"}
             /\ ctlr' = StartIo(c, u, IF fault = "none" THEN "ok" ELSE fault)
          \/ /\ c.att[u] /\ Work(c, u).len > 0 /\ c.io[u] # "none"
             /\ fault \in {"none", "nxm", "cmp"}
             /\ ctlr' = FinishIo(c, u, fault)

TimerService ==
  /\ ctlr.ton
  /\ \E c0 \in {Attend(ctlr, 0)} :
     \E c1 \in {Attend(c0, 1)} :
     \E c2 \in {Attend(c1, 2)} :
     \E c3 \in {Attend(c2, 3)} : Become(HostTimer(c3))

\* The operator's ATTACH and DETACH.
Attach(u) ==
  /\ u \in Present /\ ~ctlr.att[u] /\ left.swaps > 0
  /\ ctlr' = [ctlr EXCEPT !.att[u] = TRUE, !.atp[u] = @ \/ Ok(ctlr)]
  /\ left' = [left EXCEPT !.swaps = @ - 1]
  /\ UNCHANGED host

Detach(u) ==
  /\ u \in Present /\ ctlr.att[u] /\ left.swaps > 0
  /\ ctlr' = [ctlr EXCEPT !.att[u] = FALSE, !.onl[u] = FALSE, !.atp[u] = FALSE]
  /\ left' = [left EXCEPT !.swaps = @ - 1]
  /\ UNCHANGED host

-----------------------------------------------------------------------------
(* The registers, and the driver that uses them (external) *)

\* rq_wr: a write of SA starts the queue service while initialising.
SaWritten(c, word) == [c EXCEPT !.saw = word, !.qon = @ \/ c.csta \notin {"UP", "DEAD"}]

\* rq_rd: a read of IP makes an initialised controller poll.
IpRead(c) ==
  CASE c.csta = "S3_PPB" -> Step4(c)
    [] c.csta = "UP" -> [c EXCEPT !.pip = TRUE, !.qon = TRUE]
    [] OTHER -> c

\* A write of IP initialises; the driver forgets its commands.
WriteIP ==
  /\ left.inits > 0
  /\ ctlr' = Reset(ctlr)
  /\ host' = [NewHost EXCEPT !.ref = host.ref]
  /\ left' = [left EXCEPT !.inits = @ - 1]

\* The driver has seen SA show sa, and writes word.
WriteSA(step, sa, word, next) ==
  /\ host.step = step /\ ctlr.sa = sa
  /\ ctlr' = SaWritten(ctlr, word)
  /\ host' = [host EXCEPT !.step = next]
  /\ UNCHANGED left

\* The last word gives the controller the response ring.
WriteGo(word) ==
  /\ host.step = "S4" /\ ctlr.sa = "S4"
  /\ ctlr' = SaWritten([ctlr EXCEPT !.rsp = [i \in DOMAIN @ |-> Given]], word)
  /\ host' = [host EXCEPT !.step = "wait"]
  /\ UNCHANGED left

Initialise ==
  \/ WriteSA("S1", "S1", "wrap", "wrap") /\ left.wrap
  \/ WriteSA("S1", "S1", "s1", "S2")
  \/ WriteSA("S2", "S2", "s2", "S3")
  \/ WriteSA("S3", "S3", "s3", "S4") /\ ~left.purge
  \/ WriteSA("S3", "S3", "purge", "pp") /\ left.purge
  \/ WriteSA("pp", "zero", "zero", "pp2")
  \/ WriteGo(left.go)

ReadIP ==
  \/ /\ host.step = "pp2"
     /\ ctlr' = IpRead(ctlr) /\ host' = [host EXCEPT !.step = "S4"]
     /\ UNCHANGED left
  \/ /\ host.step = "up" /\ host.poll
     /\ ctlr' = IpRead(ctlr) /\ host' = [host EXCEPT !.poll = FALSE]
     /\ UNCHANGED left

StartUp ==
  /\ host.step = "wait" /\ ctlr.sa = "zero"
  /\ host' = [host EXCEPT !.step = "up"]
  /\ UNCHANGED <<ctlr, left>>

\* The next command of the program, when there is a credit and a descriptor.
Issue ==
  /\ host.step = "up" /\ host.credits > 0 /\ left.prog # <<>>
  /\ ~ctlr.cmd[host.hc].own
  /\ ctlr' = [ctlr EXCEPT !.cmd[host.hc] =
                [own |-> TRUE, d |-> [NoPacket EXCEPT
                   !.ref = host.ref, !.op = Head(left.prog).op,
                   !.unit = Head(left.prog).unit, !.arg = Head(left.prog).arg,
                   !.len = Head(left.prog).len]]]
  /\ host' = [host EXCEPT !.hc = (@ + 1) % CmdRing, !.credits = @ - 1,
                          !.ref = @ + 1, !.out = @ \cup {host.ref}, !.poll = TRUE]
  /\ left' = [left EXCEPT !.prog = Tail(@)]

\* rq_inta: the interrupt is taken.
Interrupt ==
  /\ ctlr.irq
  /\ ctlr' = [ctlr EXCEPT !.irq = FALSE]
  /\ host' = [host EXCEPT !.awake = TRUE]
  /\ UNCHANGED left

\* The next response is consumed and its descriptor given back.
Take ==
  /\ host.step = "up" /\ host.awake /\ ~ctlr.rsp[host.hr].own
  /\ LET d == ctlr.rsp[host.hr].d
     IN  host' = [host EXCEPT !.hr = (@ + 1) % RspRing,
                              !.credits = @ + IF d.end THEN d.arg ELSE 0,
                              !.out = IF d.end THEN @ \ {d.ref} ELSE @]
  /\ ctlr' = [ctlr EXCEPT !.rsp[host.hr] = Given]
  /\ UNCHANGED left

\* Nothing left to do until the next interrupt.
Sleep ==
  /\ host.step = "up" /\ host.awake /\ ctlr.rsp[host.hr].own
  /\ host' = [host EXCEPT !.awake = FALSE]
  /\ UNCHANGED <<ctlr, left>>

Driver == Initialise \/ ReadIP \/ StartUp \/ Issue \/ Interrupt \/ Take \/ Sleep

Next ==
  \/ InitService \/ QueueService \/ TimerService
  \/ \E u \in Unit : UnitService(u) \/ Attach(u) \/ Detach(u)
  \/ Driver \/ WriteIP

Spec == Init /\ [][Next]_vars

\* Scheduled services run, and the driver goes on with what it can do.
Fairness ==
  /\ WF_vars(InitService) /\ WF_vars(QueueService)
  /\ \A u \in Unit : WF_vars(UnitService(u))
  /\ WF_vars(Initialise \/ ReadIP \/ StartUp) /\ WF_vars(Issue)
  /\ WF_vars(Interrupt) /\ WF_vars(Take)

FairSpec == Spec /\ Fairness

-----------------------------------------------------------------------------
(* Properties *)

\* The state has the types the code declares.
TypeOK ==
  /\ ctlr.csta \in {"S1", "S1_WR", "S2", "S3", "S3_PPA", "S3_PPB", "S4", "UP", "DEAD"}
  /\ ctlr.sa \in {"S1", "S2", "S3", "S4", "echo", "zero", "error"}
  /\ ctlr.ci \in 0 .. CmdRing - 1 /\ ctlr.ri \in 0 .. RspRing - 1
  /\ ctlr.credits \in 0 .. NPkts \div 2 - 1 /\ ctlr.pbsy \in 0 .. NPkts - 1
  /\ ctlr.freq \in Seq(Packet) /\ ctlr.rspq \in Seq(Packet)
  /\ \A u \in Unit : ctlr.cpkt[u] \in Packet \cup {0} /\ ctlr.pktq[u] \in Seq(Packet)
  /\ \A u \in Unit : ctlr.io[u] \in {"none", "ok", "bad"}
  /\ {ctlr.qon, ctlr.ton, ctlr.pip, ctlr.irq, host.awake, host.poll} \subseteq BOOLEAN
  /\ ctlr.pkt = 0

\* The packets in the hands of a unit, and all that are not free.
Held(c, u) == IF c.cpkt[u] = 0 THEN c.pktq[u] ELSE <<c.cpkt[u]>> \o c.pktq[u]

Busy(c) == c.rspq \o Held(c, 0) \o Held(c, 1) \o Held(c, 2) \o Held(c, 3)

\* The lists are threaded through one link per packet: a packet is on
\* exactly one of the free list, the response queue and the queues and
\* current commands of the units, and pbsy counts those not free.
Accounted ==
  /\ Len(ctlr.freq \o Busy(ctlr)) = NPkts - 1
  /\ ToSet(ctlr.freq \o Busy(ctlr)) = Packet
  /\ ctlr.pbsy = Len(Busy(ctlr))

\* A command of the driver is in one place only: the command ring, a packet
\* or a response, so it is answered once and none is forgotten (aborts, full
\* rings and unit queues included).
Answers(r) ==
  LET q == Busy(ctlr) IN
  Cardinality({i \in DOMAIN ctlr.cmd : ctlr.cmd[i].own /\ ctlr.cmd[i].d.ref = r})
  + Cardinality({i \in DOMAIN q : ctlr.pak[q[i]].ref = r /\ ctlr.pak[q[i]].typ = "seq"})
  + Cardinality({i \in DOMAIN ctlr.rsp : ~ctlr.rsp[i].own /\ ctlr.rsp[i].d.ref = r
                                         /\ ctlr.rsp[i].d.end})

OneAnswer == Ok(ctlr) => \A r \in 1 .. host.ref - 1 : Answers(r) = IF r \in host.out THEN 1 ELSE 0

\* The credits that the answers in the response ring carry, each beside the
\* one of its command.
Extra(k) == IF ~k.own /\ k.d.end THEN k.d.arg - 1 ELSE 0

Carried(ring) ==
  LET sum[n \in 0 .. RspRing] == IF n = 0 THEN 0 ELSE sum[n - 1] + Extra(ring[n - 1])
  IN  sum[RspRing]

\* "The clever hack about credits" neither loses nor mints one: those of the
\* driver, of the controller, on their way in responses, and one per command
\* without an answer are always half the packets.
CreditsConserved ==
  Ok(ctlr) /\ host.step = "up" =>
    host.credits + ctlr.credits + Carried(ctlr.rsp) + Cardinality(host.out) = NPkts \div 2

\* Whatever is left to do has a service scheduled that will do it: a poll of
\* the ring, waiting responses, the queue of an idle unit, a transfer.  A unit
\* whose transfer was not even started is not scheduled again.
QueueScheduled(c) ==
  /\ c.pip \/ c.rspq # <<>> => c.qon
  /\ \A u \in Unit : c.cpkt[u] = 0 /\ c.pktq[u] # <<>> => c.qon

UnitsScheduled(c, hang) ==
  \A u \in Unit : IF c.cpkt[u] = 0 THEN ~c.uon[u] ELSE c.uon[u] \/ hang

WorkScheduled ==
  Ok(ctlr) => QueueScheduled(ctlr) /\ UnitsScheduled(ctlr, "nothing" \in left.faults)

\* The driver is interrupted only when the ring was empty, and yet does not
\* sleep on a response unless the interrupt is on its way.
NoLostInterrupt ==
  Ok(ctlr) /\ host.step = "up" /\ ~host.awake /\ ~ctlr.rsp[host.hr].own => ctlr.irq

\* The timer that declares the host dead does not run while a command is
\* being worked on.
TimerWhenIdle ==
  Ok(ctlr) /\ ctlr.hat > 0 =>
    \A p \in ToSet(Busy(ctlr)) : ctlr.pak[p].ref = 0 \/ ctlr.pak[p].typ = "dat"

\* The data a transfer goes on with in its bottom half were read for it.
OwnData ==
  \A u \in Unit : ctlr.cpkt[u] # 0 /\ ctlr.io[u] # "none" => ctlr.buf[u] = Work(ctlr, u)

\* The commands of a unit that are not immediate run in the order in which
\* the driver issued them, though they wait on two kinds of queues.
UnitOrder == [][\A u \in Unit : ctlr'.lastrun[u] >= ctlr.lastrun[u]]_vars

\* Every command is answered, unless the controller dies; a command hangs
\* only when nothing can be read for a write.
Answered == []<>(host.out = {} \/ ~Ok(ctlr) \/ "nothing" \in left.faults)

=============================================================================
