------------------------------- MODULE Ddcmp -------------------------------
(***************************************************************************)
(* Two DMC11 controllers and the DDCMP link between them                   *)
(* (PDP11/pdp11_dmc.c): the protocol's state table, the five buffer queues *)
(* of each controller, the socket that carries the line, and the drivers   *)
(* that give buffers and take completions.                                 *)
(*                                                                         *)
(* A controller is a record; every routine of the source that works on it  *)
(* is an operator from record to record, and an action is one entry from   *)
(* outside: a register command, the poll, the transmit service, the timer. *)
(* The state table is scanned in its order by Scan; what a rule puts on    *)
(* the line is gathered in out and leaves with the action.  The routines   *)
(* call each other: the calls that are still to be made are the list todo, *)
(* which an action fills and Perform empties.  Pool is free_queue->size:   *)
(* the buffers of a controller.                                            *)
(*                                                                         *)
(* Left out: maintenance mode, the HALT command, the NAK reasons, the      *)
(* DMP11 register set and the RQI/RDYI/RDYO handshake around a command.    *)
(***************************************************************************)
EXTENDS DdcmpNumber, Sequences, FiniteSets, SequencesExt

CONSTANTS
  Station,     \* the two stations
  Scenarios,   \* what is tried: the speed of the lines ("limited" when
               \* byte_wait # 0, else "full"), the messages each driver sends,
               \* and the faults: packets the corruption troll eats or bites,
               \* writes that stall, connections that break, master clears
  MaxXmt,      \* transmit buffers a driver has outstanding
  MaxRcv,      \* receive buffers a driver has outstanding
  MaxWire,     \* bound: a timer expires while fewer packets than this are in flight
  MaxCalls,    \* bound: the routines one action calls
  WriteFails   \* fault: a write is the first to notice a broken connection

\* A driver never has all the buffers of its controller outstanding (14 or
\* 128, half of them for what it sends).
ASSUME DdcmpAssumption ==
  /\ \E a, b \in Station : a # b /\ Station = {a, b}
  /\ Scenarios \subseteq [speed : {"limited", "full"}, supply : [Station -> Nat],
                          loss : Nat, troll : BOOLEAN, stall : Nat, break : Nat,
                          clear : Nat]
  /\ MaxXmt \in Nat \ {0} /\ MaxRcv \in Nat /\ MaxXmt + MaxRcv < Pool
  /\ 3 * MaxXmt <= Modulus
  /\ MaxWire \in Nat /\ MaxCalls \in Nat /\ WriteFails \in BOOLEAN

VARIABLES
  ctlr,        \* the controllers (CTLR, with its DDCMP link)
  wire,        \* wire[s]: packets in flight to s, or in its receive buffer
  sock,        \* the socket between the two is up
  left         \* the scenario, with the faults that may still happen

vars == <<ctlr, wire, sock, left>>

Peer(s) == CHOOSE t \in Station : t # s

Kinds == {"data", "start", "stack", "ack", "nak", "rep"}
NoPacket == [k |-> "none", num |-> 0, id |-> 0]

(***************************************************************************)
(* A fresh controller.  A buffer on a queue is its packet: k = "raw" while *)
(* the header is zero, id = 0 for a control packet.  The line has taken in *)
(* here packets; during an action they are unread, and room is what it can *)
(* still put out (Pool: any number).  got, round, taken, floor and shuffled*)
(* are history: the peer's messages the driver has, those of them since the*)
(* link was started, the messages of this driver reported as sent, the ones*)
(* a master clear has thrown away, and whether a reset has left messages   *)
(* on the queue in another order than the driver gave them.                *)
(***************************************************************************)
Controller ==
  [link |-> "Halt", running |-> FALSE, dtr |-> FALSE,
   conn |-> FALSE, car |-> FALSE, fail |-> FALSE, room |-> Pool,
   R |-> 0, N |-> 0, A |-> 0, T |-> 1, X |-> 0, NAKed |-> 0,
   SACK |-> FALSE, SNAK |-> FALSE, SREP |-> FALSE, timer |-> "off",
   rcv |-> 0, comp |-> <<>>, xmtq |-> <<>>, ackw |-> <<>>, busy |-> 0,
   ev |-> "none", pkt |-> NoPacket, done |-> NoPacket,
   again |-> FALSE, out |-> <<>>, here |-> 0, unread |-> <<>>, todo |-> <<>>,
   fatal |-> FALSE,
   sup |-> 0, got |-> {}, round |-> {}, taken |-> {}, floor |-> 0,
   shuffled |-> FALSE]

\* F of c.  (So written TLC evaluates c once, also under ENABLED.)
Then(c, F(_)) == CHOOSE d \in {F(e) : e \in {c}} : TRUE

Free(c) ==
  Pool - (c.rcv + Len(c.comp) + Len(c.xmtq) + Len(c.ackw))

-----------------------------------------------------------------------------
(* The transmitter *)

Built(p) == p.k # "raw"

\* The number of members of q before the first of the positions S.
Before(q, S) ==
  IF S = {} THEN Len(q) ELSE (CHOOSE i \in S : \A j \in S : i <= j) - 1

\* The number of packets at the head of the queue whose header is built.
BuiltPrefix(q) == Before(q, {i \in 1 .. Len(q) : ~Built(q[i])})

\* What goes on the line: RESP is brought up to date as the packet leaves.
Sent(c, q) == [i \in 1 .. Len(q) |->
                [k |-> q[i].k, num |-> q[i].num, resp |-> c.R,
                 id |-> q[i].id, bad |-> FALSE]]

IsData(p) == p.id # 0

\* The messages among the packets of q, in their order.
Messages(q) ==
  LET some[n \in 0 .. Len(q)] ==
        IF n = 0 THEN <<>>
        ELSE IF IsData(q[n]) THEN Append(some[n - 1], q[n]) ELSE some[n - 1]
  IN  some[Len(q)]

\* The packets the line takes: while the last one is not all written the
\* next write stalls.
Taken(c) ==
  LET n == BuiltPrefix(c.xmtq) IN IF c.room < n THEN c.room ELSE n

\* dmc_ddcmp_start_transmitter.  At full speed every packet completes as it
\* is put, inside the scan; limited, the first one stays the current one.  A
\* packet the line does not take stays where it is.
StartTransmitter(c) ==
  LET n == IF left.speed = "limited" /\ Taken(c) > 0 THEN 1 ELSE Taken(c)
      go == SubSeq(c.xmtq, 1, n)
      d == [c EXCEPT !.out = @ \o Sent(c, go),
                     !.room = IF @ = Pool THEN @ ELSE @ - n]
  IN  IF c.busy # 0 \/ BuiltPrefix(c.xmtq) = 0 \/ ~c.conn THEN c
      ELSE IF c.fail THEN [c EXCEPT !.conn = FALSE]
      ELSE IF n = 0 THEN c
      ELSE IF left.speed = "limited" THEN [d EXCEPT !.busy = 1]
      ELSE [d EXCEPT !.xmtq = SubSeq(@, n + 1, Len(@)),
                     !.ackw = @ \o Messages(go),
                     !.again = TRUE]

\* The place of a current packet that a reset has put on the free queue: the
\* next packet takes its buffer, and counts as the one being sent.
Freed == -1

\* A control packet takes a free buffer and goes to the head of the queue.
SendControl(c, kind, num) ==
  IF Free(c) = 0 THEN [c EXCEPT !.fatal = TRUE]
  ELSE Then([c EXCEPT !.xmtq = <<[k |-> kind, num |-> num, id |-> 0]>> \o @,
                      !.busy = CASE @ = 0 -> 0 [] @ = Freed -> 1 [] OTHER -> @ + 1],
            StartTransmitter)

-----------------------------------------------------------------------------
(* Actions of the state table *)

StartTimer(c) == [c EXCEPT !.timer = "on"]
StopTimer(c) == [c EXCEPT !.timer = "off"]

Zeroed(q) == [i \in 1 .. Len(q) |-> [q[i] EXCEPT !.k = "raw", !.num = 0]]

\* The control packets at the head of a queue.
ControlPrefix(q) == Before(q, {i \in 1 .. Len(q) : q[i].k \in {"raw", "data"}})

\* Some message is before one the driver gave earlier.
OutOfOrder(q) ==
  \E i, j \in 1 .. Len(q) : i < j /\ IsData(q[j]) /\ q[i].id > q[j].id

\* Where the current packet is when the queue has moved by n.
Place(busy, n) ==
  CASE busy = 0 -> 0 [] busy > 0 /\ busy + n > 0 -> busy + n [] OTHER -> Freed

\* Mutant: the messages on the queues are forgotten.
ResetVariables_Lost(c) ==
  [c EXCEPT !.R = 0, !.N = 0, !.A = 0, !.T = 1, !.X = 0,
            !.SACK = FALSE, !.SNAK = FALSE, !.SREP = FALSE,
            !.link = "Halt", !.ackw = <<>>, !.xmtq = <<>>, !.round = {},
            !.busy = Place(@, 0 - Len(c.xmtq))]

\* ddcmp_ResetVariables: what waits for an acknowledgement goes back to the
\* head of the transmit queue.  The loop that removes control packets looks
\* at the head of the queue at every turn: it removes those before the first
\* data packet and zeroes the header of everything else.
ResetVariables(c) ==
  LET q == c.ackw \o c.xmtq
  IN  [c EXCEPT !.R = 0, !.N = 0, !.A = 0, !.T = 1, !.X = 0,
                !.SACK = FALSE, !.SNAK = FALSE, !.SREP = FALSE,
                !.link = "Halt", !.ackw = <<>>,
                !.xmtq = Zeroed(SubSeq(q, ControlPrefix(q) + 1, Len(q))),
                !.busy = Place(@, Len(c.ackw) - ControlPrefix(q)),
                !.round = {}, !.shuffled = @ \/ OutOfOrder(q)]

SendStrt(c) == SendControl(c, "start", 0)
SendStack(c) == SendControl(c, "stack", 0)
SendAck(c) == SendControl(c, "ack", 0)
SendNak(c) == SendControl(c, "nak", 0)
SendRep(c) == SendControl(c, "rep", c.N)

SetSACK(c) == [c EXCEPT !.SACK = TRUE]
ClearSACK(c) == [c EXCEPT !.SACK = FALSE]
SetSNAK(c) == [c EXCEPT !.SNAK = TRUE]
ClearSNAK(c) == [c EXCEPT !.SNAK = FALSE]
SetSREP(c) == [c EXCEPT !.SREP = TRUE]
ClearSREP(c) == [c EXCEPT !.SREP = FALSE]
\* Mutant: everything sent counts as acknowledged.
SetAeqRESP_All(c) == [c EXCEPT !.A = c.N]

SetAeqRESP(c) == [c EXCEPT !.A = c.pkt.resp]
SetTequalAplus1(c) == [c EXCEPT !.T = Succ(c.A)]
IncrementT(c) == [c EXCEPT !.T = Succ(@)]

\* A NAK for the missing packet is built unless one "was already sent",
\* which the code takes to be so while NUM is not before NAKed.
NAKMissingPacket(c) ==
  IF ~GE(c.pkt.num, c.R) THEN StartTransmitter(c)
  ELSE IF Free(c) = 0 THEN StartTransmitter([c EXCEPT !.fatal = TRUE])
  ELSE IF GE(c.pkt.num, c.NAKed) THEN StartTransmitter(c)
  ELSE SendControl([c EXCEPT !.NAKed = c.R], "nak", 0)

IfTleAthenSetTeqAplus1(c) ==
  IF LE(c.T, c.A) THEN SetTequalAplus1(c) ELSE c
IfAltXthenStartTimer(c) == IF LT(c.A, c.X) THEN StartTimer(c) ELSE c
IfAgeXthenStopTimer(c) == IF GE(c.A, c.X) THEN StopTimer(c) ELSE c

\* The packet's data goes to the memory of the driver's next buffer.
GiveBufferToUser(c) ==
  IF c.rcv = 0 THEN SetSNAK(c)
  ELSE SetSACK([c EXCEPT !.rcv = @ - 1,
                         !.comp = Append(@, [t |-> "rcv", id |-> c.pkt.id]),
                         !.got = @ \cup {c.pkt.id},
                         !.round = @ \cup {c.pkt.id},
                         !.R = Succ(@)])

\* The first n messages of the ack wait queue are reported to the driver.
Complete(c, n) ==
  [c EXCEPT !.ackw = SubSeq(@, n + 1, Len(@)),
            !.comp = @ \o [i \in 1 .. n |-> [t |-> "xmt", id |-> c.ackw[i].id]],
            !.taken = @ \cup {c.ackw[i].id : i \in 1 .. n},
            !.shuffled = @ /\ n < Len(Messages(c.ackw \o c.xmtq))]

\* Mutant: RESP itself is not included.
CompleteAckedTransmits_Before(c) ==
  Complete(c, Before(c.ackw, {i \in 1 .. Len(c.ackw) : GE(c.ackw[i].num, c.pkt.resp)}))

\* Mutant: all of the ack wait queue.
CompleteAckedTransmits_All(c) == Complete(c, Len(c.ackw))

\* From the head of the ack wait queue up to the first one after RESP.
CompleteAckedTransmits(c) ==
  Complete(c, Before(c.ackw, {i \in 1 .. Len(c.ackw) : GT(c.ackw[i].num, c.pkt.resp)}))

\* The message numbered T moves back to the end of the transmit queue.
ReTransmitMessageT(c) ==
  LET here == {i \in 1 .. Len(c.ackw) : c.ackw[i].num = c.T}
      i == CHOOSE j \in here : \A l \in here : j <= l
  IN  IF here = {} THEN c
      ELSE [c EXCEPT !.ackw = RemoveAt(@, i),
                     !.xmtq = Append(@, [c.ackw[i] EXCEPT !.k = "data"])]

\* The first message of the queue gets the next number.
SendDataMessage(c) ==
  LET n == Succ(c.N)
  IN  Then([c EXCEPT !.xmtq[1] = [@ EXCEPT !.k = "data", !.num = n],
                     !.N = n, !.T = Succ(n), !.SACK = FALSE],
           StartTransmitter)

SetXSetNUM(c) == [c EXCEPT !.X = c.done.num]
-----------------------------------------------------------------------------
(* Conditions of the state table *)

Received(c, kind) == c.ev = "rcvd" /\ c.pkt.k = kind /\ ~c.pkt.bad
ReceiveMessageError(c) == c.ev = "rcvd" /\ c.pkt.bad
TimerExpired(c) == c.ev = "timer"
TimerNotRunning(c) == c.timer = "off"
TransmitterIdle_Always(c) == TRUE   \* Mutant: a transmission is not waited for.
TransmitterIdle(c) == c.busy = 0
UserSendMessage(c) == c.xmtq # <<>> /\ ~Built(Head(c.xmtq))
ALtRESPleN(c) == LT(c.A, c.pkt.resp) /\ LE(c.pkt.resp, c.N)
ALeRESPleN(c) == LE(c.A, c.pkt.resp) /\ LE(c.pkt.resp, c.N)
TltNplus1(c) == LT(c.T, Succ(c.N))
TeqNplus1(c) == c.T = Succ(c.N)
DataMessageSent(c) == c.ev = "xmit" /\ c.done.k = "data"
REPMessageSent(c) == c.ev = "xmit" /\ c.done.k = "rep"

-----------------------------------------------------------------------------
(* DDCMP_TABLE: one line per rule, in the order they are tried.  A rule    *)
(* that matches acts and sets the state, and the scan goes on after it.    *)

Rule(c, state, condition, acted, new) ==
  IF c.link = state /\ condition THEN [acted EXCEPT !.link = new] ELSE c

ScanHalt(c) ==                                                    \* rule 1
  Rule(c, "Halt", c.dtr /\ c.car, StopTimer(Then(ResetVariables(c), SendStrt)), "IStart")

R4(c) == Rule(c, "IStart", TimerNotRunning(c), StartTimer(c), "IStart")
R5(c) == Rule(c, "IStart", Received(c, "stack"), StopTimer(SetSACK(c)), "Run")
R6(c) == Rule(c, "IStart", Received(c, "start"), StartTimer(SendStack(c)), "AStart")
R7(c) == Rule(c, "IStart", TimerExpired(c),
              StartTimer(Then(ResetVariables(c), SendStrt)), "IStart")
R10(c) == Rule(c, "IStart", UserSendMessage(c) /\ TimerNotRunning(c), StartTimer(c), "IStart")
R11(c) == Rule(c, "IStart", ~c.car, StopTimer(c), "Halt")

ScanIStart(c) == Then(Then(Then(Then(Then(Then(c, R4), R5), R6), R7), R10), R11)

R12(c) == Rule(c, "AStart", ~c.car, StopTimer(c), "Halt")
R13(c) == Rule(c, "AStart", Received(c, "ack"), StopTimer(c), "Run")
R14(c) == Rule(c, "AStart", Received(c, "data"), StopTimer(c), "Run")
R15(c) == Rule(c, "AStart", Received(c, "stack"), StopTimer(SetSACK(c)), "Run")
R16(c) == Rule(c, "AStart", TimerExpired(c), StartTimer(SendStack(c)), "AStart")

ScanAStart(c) == Then(Then(Then(Then(Then(c, R12), R13), R14), R15), R16)

Acknowledged(c) ==
  IfAgeXthenStopTimer(IfTleAthenSetTeqAplus1(SetAeqRESP(CompleteAckedTransmits(c))))

R19(c) == Rule(c, "Run", ~c.car, StopTimer(c), "Halt")
R20(c) == Rule(c, "Run", Received(c, "start"), c, "Halt")
R22(c) == Rule(c, "Run", Received(c, "stack"), SetSACK(c), "Run")
R23(c) == Rule(c, "Run", Received(c, "data") /\ GT(c.pkt.num, Succ(c.R)),
               NAKMissingPacket(c), "Run")
R24(c) == Rule(c, "Run", Received(c, "data") /\ c.pkt.num = Succ(c.R),
               GiveBufferToUser(c), "Run")
R25(c) == Rule(c, "Run", ReceiveMessageError(c), SetSNAK(c), "Run")
R26(c) == Rule(c, "Run", Received(c, "rep") /\ c.pkt.num = c.R, SetSACK(c), "Run")
R27(c) == Rule(c, "Run", Received(c, "rep") /\ c.pkt.num # c.R, SetSNAK(c), "Run")
R29(c) == Rule(c, "Run", (Received(c, "data") \/ Received(c, "ack")) /\ ALtRESPleN(c),
               Acknowledged(c), "Run")
R32(c) == Rule(c, "Run", Received(c, "nak") /\ ALeRESPleN(c),
               StopTimer(SetTequalAplus1(SetAeqRESP(CompleteAckedTransmits(c)))), "Run")
R34(c) == Rule(c, "Run", TimerExpired(c), SetSREP(c), "Run")

ScanRunReceive(c) ==
  Then(Then(Then(Then(Then(Then(Then(Then(Then(Then(Then(
    c, R19), R20), R22), R23), R24), R25), R26), R27), R29), R32), R34)

Ready(c) == TransmitterIdle(c) /\ ~c.SNAK /\ ~c.SREP

R35(c) == Rule(c, "Run", TransmitterIdle(c) /\ c.SNAK, ClearSNAK(SendNak(c)), "Run")
R36(c) == Rule(c, "Run", TransmitterIdle(c) /\ ~c.SNAK /\ c.SREP,
               ClearSREP(SendRep(c)), "Run")
R37(c) == Rule(c, "Run", Ready(c) /\ TltNplus1(c),
               ClearSACK(IncrementT(ReTransmitMessageT(c))), "Run")
R38(c) == Rule(c, "Run", Ready(c) /\ UserSendMessage(c) /\ TeqNplus1(c),
               ClearSACK(SendDataMessage(c)), "Run")
R39(c) == Rule(c, "Run", Ready(c) /\ c.SACK /\ TeqNplus1(c), ClearSACK(SendAck(c)), "Run")
R40(c) == Rule(c, "Run", DataMessageSent(c),
               IfAgeXthenStopTimer(IfAltXthenStartTimer(SetXSetNUM(c))), "Run")
R41(c) == Rule(c, "Run", REPMessageSent(c), StartTimer(c), "Run")

ScanRunTransmit(c) == Then(Then(Then(Then(Then(Then(Then(c, R35), R36), R37), R38), R39), R40), R41)

Scan(c) ==
  Then(Then(Then(Then(Then(c, ScanHalt), ScanIStart), ScanAStart), ScanRunReceive),
       ScanRunTransmit)

-----------------------------------------------------------------------------
(* Services.  What a routine calls goes to the head of the list of calls.  *)

Calls(c, calls) == [c EXCEPT !.todo = calls \o @]

\* A transmission that completes during the scan calls ddcmp_dispatch again:
\* that call is kept for the end of the scan and followed by dmc_svc.
Again(c) == IF c.again THEN Calls([c EXCEPT !.again = FALSE], <<"xmit", "svc">>) ELSE c

\* ddcmp_dispatch.
Dispatch(c, event) ==
  Then([Then([c EXCEPT !.ev = event], Scan) EXCEPT !.ev = "none"], Again)

\* Mutant: the packet leaves the queue and stays the current one.
CompleteTransmit_Current(c) ==
  [c EXCEPT !.done = NoPacket, !.xmtq = RemoveAt(@, c.busy)]

\* dmc_complete_transmit, reached from dmc_svc, once the rules have seen the
\* packet that is done while the transmitter still counted as busy.
CompleteTransmit(c) ==
  LET p == c.xmtq[c.busy]
  IN  [c EXCEPT !.done = NoPacket, !.busy = 0, !.xmtq = RemoveAt(@, c.busy),
                !.ackw = IF IsData(p) THEN Append(@, p) ELSE @]

\* The part of dmc_svc that is not the delayed register command: the current
\* packet completes and the next one starts, the queue is looked at, and what
\* has come in is read.
Service(c) ==
  IF c.busy = 0 THEN Calls(c, <<"queued", "fill">>)
  ELSE Calls([c EXCEPT !.done = c.xmtq[c.busy]],
             <<"xmit", "complete", "start", "queued", "fill">>)

Queued(c) == IF c.xmtq # <<>> THEN Calls(c, <<"none">>) ELSE c

\* dmc_buffer_fill_receive_buffers reads while the driver has a buffer.
Readable(c) == c.unread # <<>> /\ c.conn /\ c.running /\ c.rcv > 0

\* It goes on when all that the packet has led to is done.
Fill(c) ==
  IF Readable(c)
  THEN Dispatch([Calls(c, <<"fill">>) EXCEPT !.pkt = Head(c.unread), !.unread = Tail(@)],
                "rcvd")
  ELSE c

\* dmc_svc after a register command.
AfterCommand(c) == IF c.busy # 0 THEN c ELSE Service(c)

\* dmc_poll_svc for a line: the carrier is gone, and something is to be sent.
Carrier(c) ==
  IF c.car /\ ~c.conn THEN Dispatch([c EXCEPT !.car = FALSE], "none") ELSE c
SendPending(c) == IF c.busy # 0 \/ UserSendMessage(c) THEN Service(c) ELSE c
Incoming(c) == IF Readable(c) THEN Calls(c, <<"fill", "svc">>) ELSE c

\* The next call is made, if there is one.
Step(c0) ==
  LET call == Head(c0.todo)
      c == [c0 EXCEPT !.todo = Tail(@)]
  IN  IF c0.todo = <<>> THEN c0
      ELSE CASE call \in {"none", "xmit", "timer"} -> Dispatch(c, call)
             [] call = "fill" -> Fill(c)
             [] call = "svc" -> Service(c)
             [] call = "complete" -> CompleteTransmit(c)
             [] call = "start" -> StartTransmitter(c)
             [] call = "queued" -> Queued(c)
             [] call = "command" -> AfterCommand(c)
             [] call = "carrier" -> Carrier(c)
             [] call = "send" -> SendPending(c)
             [] OTHER -> Incoming(c)

\* c after calls and all they call.
Perform(c, calls) ==
  LET after[n \in 0 .. MaxCalls] ==
        IF n = 0 THEN [c EXCEPT !.todo = calls] ELSE Then(after[n - 1], Step)
  IN  after[MaxCalls]

-----------------------------------------------------------------------------
(* Actions *)

Alive == \A s \in Station : ~ctlr[s].fatal

Init ==
  /\ ctlr = [s \in Station |-> Controller]
  /\ wire = [s \in Station |-> <<>>]
  /\ sock = FALSE
  /\ left \in Scenarios

\* Whether writes of s report a broken connection during this action, and the
\* packets the line takes.
Writes(s) ==
  IF WriteFails /\ ctlr[s].conn /\ ~sock THEN BOOLEAN ELSE {FALSE}
Rooms(s) == IF left.stall > 0 /\ ctlr[s].conn THEN {Pool, 0, 1} ELSE {Pool}

\* s, as it is in c0, makes calls when n packets of its wire are in: what it
\* has sent leaves, and what it has not read stays in the line's buffer.
Leave(s, c0, calls, n) ==
  \E fails \in Writes(s), room \in Rooms(s) :
  \E c \in {Perform([c0 EXCEPT !.fail = fails, !.room = room,
                              !.unread = SubSeq(wire[s], 1, n)], calls)} :
    LET lost == ctlr[s].conn /\ ~c.conn
    IN  /\ c.todo = <<>>
        /\ ctlr' = [ctlr EXCEPT ![s] =
                      [c EXCEPT !.out = <<>>, !.fail = FALSE, !.room = Pool,
                                !.pkt = NoPacket, !.unread = <<>>,
                                !.here = IF lost THEN 0 ELSE Len(c.unread)]]
        /\ wire' = [wire EXCEPT
                      ![s] = IF lost THEN <<>> ELSE c.unread \o SubSeq(@, n + 1, Len(@)),
                      ![Peer(s)] = IF sock THEN @ \o c.out ELSE @]
        /\ left' = [left EXCEPT !.stall = IF room = Pool THEN @ ELSE @ - 1]
        /\ UNCHANGED sock

\* CNTL IN: the driver raises DTR.
ControlIn(s) ==
  /\ Alive /\ ~ctlr[s].dtr
  /\ Leave(s, [ctlr[s] EXCEPT !.dtr = TRUE], <<"none", "command">>, ctlr[s].here)

Outstanding(c, type) == Cardinality({i \in 1 .. Len(c.comp) : c.comp[i].t = type})

\* BA/CC IN, receive: one more receive buffer, for what has waited.  (Bound: of
\* free ones the driver gives no more than there are messages to come.)
ReceiveRequest(s) ==
  LET c == ctlr[s]
      c1 == IF Free(c) > 0 THEN [c EXCEPT !.rcv = @ + 1] ELSE [c EXCEPT !.fatal = TRUE]
  IN  /\ Alive /\ c.dtr
      /\ c.rcv + Outstanding(c, "rcv") < MaxRcv
      /\ c.rcv = 0 \/ c.rcv < left.supply[Peer(s)]
      /\ Leave(s, c1, <<"fill", "none", "command">>, c.here)

DataOf(q) == Cardinality({i \in 1 .. Len(q) : IsData(q[i])})

\* BA/CC IN, transmit: one more message; the first makes the controller run.
TransmitRequest(s) ==
  LET c == ctlr[s]
      c1 == [c EXCEPT !.sup = @ + 1, !.running = TRUE, !.dtr = TRUE,
                      !.xmtq = Append(@, [k |-> "raw", num |-> 0, id |-> c.sup + 1])]
  IN  /\ Alive /\ c.dtr /\ c.sup < left.supply[s]
      /\ DataOf(c.xmtq) + Len(c.ackw) + Outstanding(c, "xmt") < MaxXmt
      /\ IF Free(c) = 0 THEN Leave(s, [c EXCEPT !.fatal = TRUE], <<>>, c.here)
         ELSE Leave(s, c1, <<"none", "command">>, c.here)

\* BA/CC OUT: the driver takes the first completion.
CompletionTaken(s) ==
  /\ Alive /\ ctlr[s].comp # <<>>
  /\ Leave(s, [ctlr[s] EXCEPT !.comp = Tail(@)], <<"command">>, ctlr[s].here)

\* SEL0 with MCLR: the driver starts over; DTR drops and the line with it.
\* The packet that was being sent stays the current one with a zeroed buffer,
\* which the service of the same command takes from the free queue and puts
\* back: all that is left of it is that the transmitter is idle.
MasterClear(s) ==
  /\ Alive /\ ctlr[s].dtr /\ left.clear > 0
  /\ ctlr' = [ctlr EXCEPT ![s] =
                [@ EXCEPT !.link = "Halt", !.running = FALSE, !.dtr = FALSE,
                          !.conn = FALSE, !.car = FALSE, !.busy = 0, !.here = 0,
                          !.rcv = 0, !.comp = <<>>, !.xmtq = <<>>, !.ackw = <<>>,
                          !.floor = ctlr[s].sup, !.shuffled = FALSE]]
  /\ wire' = [wire EXCEPT ![s] = <<>>]
  /\ sock' = (sock /\ ~ctlr[s].conn)
  /\ left' = [left EXCEPT !.clear = @ - 1]

\* dmc_poll_svc for one line: accept sets up a line that is waiting, notice
\* sees that the socket is gone, n packets are in.
Poll(s, accept, notice, n) ==
  LET c == ctlr[s]
      c1 == [c EXCEPT !.conn = (@ \/ accept) /\ ~notice, !.car = @ \/ accept]
  IN  /\ Alive
      /\ accept => ~c.conn /\ c.dtr /\ sock
      /\ notice => c.conn /\ ~sock
      /\ n > c.here => c.conn
      /\ Leave(s, c1, (IF accept THEN <<"none">> ELSE <<>>) \o
                        <<"carrier", "send", "incoming">>, n)

Connect(s) == Poll(s, TRUE, FALSE, 0)
Disconnect(s) == Poll(s, FALSE, TRUE, 0)
Receive(s) ==
  \E n \in 1 .. 2 :
    /\ ctlr[s].here + n <= Len(wire[s])
    /\ Poll(s, FALSE, FALSE, ctlr[s].here + n)
PollQuiet(s) ==
  /\ \/ UserSendMessage(ctlr[s]) \/ ctlr[s].busy # 0
     \/ ctlr[s].car /\ ~ctlr[s].conn
  /\ Poll(s, FALSE, FALSE, ctlr[s].here)

\* dmc_svc by itself: the time of the current packet is over, or the
\* controller keeps itself awake while the driver has something to take.
Wake(s) ==
  /\ Alive /\ ctlr[s].xmtq # <<>>
  /\ Leave(s, ctlr[s], <<"svc">>, ctlr[s].here)

\* dmc_timer_svc: the timer stays "running" with no time remaining.  It is set
\* to seconds, and every poll completes the current packet: nothing the start
\* of the link has put on the line is still being sent when it expires.
Expire(s) ==
  /\ Alive /\ ctlr[s].timer = "on"
  /\ ctlr[s].link \in {"IStart", "AStart"} => ctlr[s].busy = 0
  /\ Len(wire[s]) + Len(wire[Peer(s)]) < MaxWire
  /\ Leave(s, [ctlr[s] EXCEPT !.timer = "spent"], <<"timer">>, ctlr[s].here)

-----------------------------------------------------------------------------
(* The line (external): a TCP connection and the corruption troll *)

SockUp ==
  /\ ~sock /\ \A s \in Station : ctlr[s].dtr /\ ~ctlr[s].conn
  /\ sock' = TRUE
  /\ wire' = [s \in Station |-> <<>>]
  /\ UNCHANGED <<ctlr, left>>

Break ==
  /\ sock /\ left.break > 0
  /\ sock' = FALSE
  /\ wire' = [s \in Station |-> SubSeq(wire[s], 1, ctlr[s].here)]
  /\ left' = [left EXCEPT !.break = @ - 1]
  /\ UNCHANGED ctlr

\* ddcmp_feedCorruptionTroll: a packet is eaten or bitten.
Lose(s) ==
  /\ left.loss > 0
  /\ \E i \in ctlr[s].here + 1 .. Len(wire[s]) : wire' = [wire EXCEPT ![s] = RemoveAt(@, i)]
  /\ left' = [left EXCEPT !.loss = @ - 1]
  /\ UNCHANGED <<ctlr, sock>>

Bite(s) ==
  /\ left.loss > 0
  /\ \E i \in ctlr[s].here + 1 .. Len(wire[s]) :
       /\ ~wire[s][i].bad
       /\ wire' = [wire EXCEPT ![s][i].bad = TRUE]
  /\ left' = [left EXCEPT !.loss = @ - 1]
  /\ UNCHANGED <<ctlr, sock>>

-----------------------------------------------------------------------------
DriverStep(s) ==
  \/ ControlIn(s) \/ ReceiveRequest(s) \/ TransmitRequest(s)
  \/ CompletionTaken(s) \/ MasterClear(s)

PollStep(s) == Connect(s) \/ Disconnect(s) \/ Receive(s) \/ PollQuiet(s)

LineStep(s) == PollStep(s) \/ Wake(s) \/ Expire(s)

Next ==
  \/ \E s \in Station : DriverStep(s) \/ LineStep(s) \/ Lose(s) \/ Bite(s)
  \/ SockUp \/ Break

Spec == Init /\ [][Next]_vars

-----------------------------------------------------------------------------
(* Properties *)

NumberOk(c) ==
  /\ {c.R, c.N, c.A, c.T, c.X, c.NAKed} \subseteq Number
  /\ c.rcv \in Nat /\ Free(c) \in 0 .. Pool
  /\ c.busy \in 0 .. Len(c.xmtq)

\* The buffers of a controller are on one queue each, its numbers are bytes
\* and the current packet is on the transmit queue (BUFFER, DDCMP).
TypeOK ==
  /\ sock \in BOOLEAN /\ left.speed \in {"limited", "full"}
  /\ \A s \in Station :
       LET c == ctlr[s]
       IN  /\ c.link \in {"Halt", "IStart", "AStart", "Run"}
           /\ c.timer \in {"off", "on", "spent"}
           /\ {c.xmtq[i].k : i \in 1 .. Len(c.xmtq)} \subseteq Kinds \cup {"raw"}
           /\ NumberOk(c)

\* How many messages after the one numbered a comes the one numbered b.
Ahead(a, b) == IF a <= b THEN b - a ELSE b - a + Modulus

\* The messages a controller has: what waits for an acknowledgement, then the
\* transmit queue.
Buffers(c) == c.ackw \o c.xmtq

\* No message is lost between the driver, the transmit queue, the line and the
\* ack wait queue, however often it is sent again: each one is reported to the
\* driver or on a queue.  And while the link runs, every number after A up to
\* N is that of a message on a queue, and no two have the same number.
Accounted ==
  \A s \in Station :
    LET c == ctlr[s]
        q == Buffers(c)
        numbered == {i \in 1 .. Len(q) : q[i].k = "data"}
    IN  /\ \A m \in c.floor + 1 .. c.sup :
             m \in c.taken \/ \E i \in 1 .. Len(q) : q[i].id = m
        /\ c.link = "Run" =>
             /\ \A d \in 1 .. Ahead(c.A, c.N) :
                  \E i \in numbered : Ahead(c.A, q[i].num) = d
             /\ \A i, j \in numbered : i # j => q[i].num # q[j].num

\* When both ends run, what one has acknowledged is between what the other
\* knows to be acknowledged and what it has sent (A, R and N of DDCMP).  On a
\* slow line this takes writes that do not stall: a reset zeroes the header
\* of the packet being written, and with one more stall that packet is put on
\* the ack wait queue of the new link, with the number 0.
Agreement ==
  \A s \in Station :
    LET c == ctlr[s]  d == ctlr[Peer(s)]
    IN  c.link = "Run" /\ d.link = "Run" => Ahead(c.A, d.R) <= Ahead(c.A, c.N)

\* "This is a fatal error which should never happen": no controller runs out
\* of buffers for a packet (dmc_buffer_allocate).
NeverExhausted == \A s \in Station : ~ctlr[s].fatal

\* "Also make sure that the transmit queue has no control packets in it":
\* what ddcmp_ResetVariables leaves on the queue with a zero header, to be
\* numbered and sent as a message, is a message of the driver.
NoControlQueued ==
  \A s \in Station : \A i \in 1 .. Len(ctlr[s].xmtq) :
    Built(ctlr[s].xmtq[i]) \/ IsData(ctlr[s].xmtq[i])

Link == INSTANCE ReliableLink WITH
  sent <- [s \in Station |-> ctlr[s].sup],
  given <- [s \in Station |-> ctlr[s].floor],
  done <- [s \in Station |-> ctlr[s].taken],
  got <- [s \in Station |-> ctlr[s].got],
  round <- [s \in Station |-> ctlr[s].round],
  shuffled <- [s \in Station |-> ctlr[s].shuffled]

\* The protocol machines, their queues and the line implement the link of
\* module ReliableLink between the two drivers, over lost and damaged packets,
\* connections that break, master clears and any mixture of them: in order,
\* but for the messages a restart of the link has put in another order.
Reliable == Link!Spec

\* The poll, the services and the timer are units of the event queue, which
\* serves every unit in time; the drivers take completions, give receive
\* buffers back and keep DTR up; the socket is connected again.
Fairness ==
  /\ \A s \in Station :
       /\ WF_vars(Connect(s) \/ Disconnect(s) \/ Receive(s))
       /\ WF_vars(PollQuiet(s))
       /\ WF_vars(Expire(s))
  /\ WF_vars(SockUp \/ \E s \in Station :
               ControlIn(s) \/ CompletionTaken(s) \/ ReceiveRequest(s))

FairSpec == Spec /\ Fairness

BothRun == \A s \in Station : ctlr[s].running

Undisturbed == BothRun /\ ~left.troll

\* Without the troll every message arrives at last, whatever connections
\* break, unless a master clear stops one of the two for good: the restart
\* rules 1, 7 and 19 bring the link up again, and ddcmp_ResetVariables sends
\* once more what was not acknowledged.  (Writes do not stall: a message of
\* which the line has taken a part waits for the next one to be sent.)
Delivered ==
  \A s \in Station :
    []<>(Undisturbed =>
           ctlr[s].floor + 1 .. ctlr[s].sup \subseteq ctlr[Peer(s)].got)

\* At full speed its driver is told so at last: no buffer stays behind on
\* the ack wait queue (ddcmp_CompleteAckedTransmits).
Completed ==
  \A s \in Station :
    []<>(Undisturbed /\ left.speed = "full" =>
           ctlr[s].floor + 1 .. ctlr[s].sup \subseteq ctlr[s].taken)
=============================================================================
