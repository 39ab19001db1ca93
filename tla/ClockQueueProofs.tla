-------------------------- MODULE ClockQueueProofs --------------------------
(***************************************************************************)
(* Theorems about ClockQueue, for any units, delays, tick counts and       *)
(* lengths of a tick and of a calibration: the lists never share a unit,   *)
(* the rest of a long delay always belongs to a unit on one of them, and   *)
(* the ticks the code counts are the ones still due until a first unit is  *)
(* cancelled.                                                              *)
(***************************************************************************)
EXTENDS ClockQueue, ListProofs

USE ClockAssumption

-----------------------------------------------------------------------------
(* The invariant *)

Dispatched == ToSet(gathered)
Agenda == ToSet(agenda)

\* No list has a unit twice, and no two lists have one in common.
Apart ==
  /\ Once(cosched) /\ Once(gathered) /\ Once(agenda)
  /\ Coscheduled \cap Dispatched = {}
  /\ Coscheduled \cap Agenda = {}
  /\ Dispatched \cap Agenda = {}

\* Who is bound to the cancel routine, and where the tick is.
Places ==
  /\ \A u \in UNITS : bound[u] <=> u \in Coscheduled \cup Dispatched
  /\ Tick \in Agenda

\* The unit of a scan is on no list yet; a tick gathers from a list that is
\* not empty, and nothing else is under way then.
CallSound ==
  /\ call.op = "scan" => ~sim_is_active(call.unit) /\ call.prv <= Len(cosched)
  /\ ctx = "gather" => call = NoCall /\ cosched # <<>>

IInv == TypeOK /\ Apart /\ Places /\ CallSound /\ RemnantScheduled

\* Setting one value of an integer-valued function to 0 keeps it one.
LEMMA Zeroed ==
  ASSUME NEW D, NEW f \in [D -> Int], NEW x \in D
  PROVE  [f EXCEPT ![x] = 0] \in [D -> Int]
<1>1. [f EXCEPT ![x] = 0] = [y \in D |-> IF y = x THEN 0 ELSE f[y]]
  OBVIOUS
<1>2. \A y \in D : (IF y = x THEN 0 ELSE f[y]) \in Int
  OBVIOUS
<1> QED
  BY <1>1, <1>2

\* A scan that goes on keeps a scan's record.
LEMMA ScanRecord ==
  ASSUME NEW c \in [op : {"scan"}, unit : UNITS, ticks : Nat, accum : Int, prv : Nat],
         NEW t \in Int,
         NEW d, d = [c EXCEPT !.accum = c.accum + t, !.prv = c.prv + 1]
  PROVE  /\ d \in [op : {"scan"}, unit : UNITS, ticks : Nat, accum : Int, prv : Nat]
         /\ d.op = "scan" /\ d.unit = c.unit /\ d.prv = c.prv + 1
<1>1. c.accum \in Int /\ c.prv \in Nat /\ c.unit \in UNITS /\ c.ticks \in Nat /\ c.op = "scan"
  OBVIOUS
<1> DEFINE a == c.accum + t
           p == c.prv + 1
<1>2. a \in Int /\ p \in Nat
  BY <1>1
<1>3. d = [c EXCEPT !.accum = a, !.prv = p]
  OBVIOUS
<1> HIDE DEF a, p
<1>4. d = [op |-> "scan", unit |-> c.unit, ticks |-> c.ticks, accum |-> a, prv |-> p]
  BY <1>1, <1>3
<1>5. d \in [op : {"scan"}, unit : UNITS, ticks : Nat, accum : Int, prv : Nat]
  BY <1>1, <1>2, <1>4
<1> QED
  BY <1>4, <1>5 DEF p

\* Every member of a list is a unit, and only the agenda has the tick.
LEMMA OnLists ==
  ASSUME TypeOK
  PROVE  /\ Coscheduled \subseteq UNITS /\ Dispatched \subseteq UNITS
         /\ Agenda \subseteq UNITS \cup {Tick}
         /\ \A i \in 1 .. Len(cosched) : cosched[i] \in Coscheduled
         /\ \A i \in 1 .. Len(agenda) : agenda[i] \in Agenda
         /\ cosched # <<>> => Head(cosched) \in Coscheduled
         /\ gathered # <<>> => Head(gathered) \in Dispatched
         /\ agenda # <<>> => Head(agenda) \in Agenda
         /\ cosched = <<>> => Coscheduled = {}
         /\ gathered = <<>> => Dispatched = {}
         /\ Len(cosched) \in Nat
<1>1. cosched \in Seq(UNITS) /\ gathered \in Seq(UNITS) /\ agenda \in Seq(UNITS \cup {Tick})
  BY DEF TypeOK
<1>2. /\ Coscheduled \subseteq UNITS
      /\ \A x : x \in Coscheduled <=> \E i \in 1 .. Len(cosched) : cosched[i] = x
      /\ cosched = <<>> <=> Len(cosched) = 0
      /\ cosched # <<>> => Head(cosched) = cosched[1]
  BY <1>1, Members DEF Coscheduled
<1>3. /\ Dispatched \subseteq UNITS
      /\ \A x : x \in Dispatched <=> \E i \in 1 .. Len(gathered) : gathered[i] = x
      /\ gathered = <<>> <=> Len(gathered) = 0
      /\ gathered # <<>> => Head(gathered) = gathered[1]
  BY <1>1, Members DEF Dispatched
<1>4. /\ Agenda \subseteq UNITS \cup {Tick}
      /\ \A x : x \in Agenda <=> \E i \in 1 .. Len(agenda) : agenda[i] = x
      /\ agenda = <<>> <=> Len(agenda) = 0
      /\ agenda # <<>> => Head(agenda) = agenda[1]
  BY <1>1, Members DEF Agenda
<1>5. Len(cosched) \in Nat /\ Len(gathered) \in Nat /\ Len(agenda) \in Nat
  BY <1>1
<1> QED
  BY <1>2, <1>3, <1>4, <1>5

\* _sim_activate puts an inactive unit on the list.
LEMMA Scheduled ==
  ASSUME NEW ag \in Seq(UNITS \cup {Tick}), Once(ag),
         NEW u \in UNITS \cup {Tick}, u \notin ToSet(ag),
         NEW d \in Int, wait \in [UNITS \cup {Tick} -> Int], Schedule(u, d, ag)
  PROVE  /\ agenda' \in Seq(UNITS \cup {Tick})
         /\ ToSet(agenda') = ToSet(ag) \cup {u}
         /\ Once(agenda')
         /\ wait' \in [UNITS \cup {Tick} -> Int]
<1>1. PICK p \in 0 .. Len(ag) : agenda' = InsertAt(ag, p + 1, u)
  BY DEF Schedule
<1>2. p + 1 \in 1 .. Len(ag) + 1
  OBVIOUS
<1>3. wait' \in [UNITS \cup {Tick} -> Int]
  BY DEF Schedule
<1> QED
  BY <1>1, <1>2, <1>3, InsertOnce

\* The entry of sim_clock_coschedule_tmr.
LEMMA Entered ==
  ASSUME TypeOK, NEW u \in UNITS, NEW n \in Nat, EnterCosched(u, n)
  PROVE  /\ time' \in [UNITS -> Int]
         /\ call' \in Calls /\ call'.op = "scan" /\ call'.unit = u /\ call'.prv = 0
         /\ UNCHANGED <<cosched, interval, cut>>
<1>1. cosched # <<>> => Head(cosched) \in UNITS
  BY OnLists
<1>2. time' \in [UNITS -> Int]
  BY <1>1 DEF EnterCosched, TypeOK
<1>3. call' = [op |-> "scan", unit |-> u, ticks |-> n, accum |-> 0, prv |-> 0]
  BY DEF EnterCosched
<1> QED
  BY <1>2, <1>3 DEF EnterCosched, Calls

\* sim_timer_activate_after: a scan of the list begins, or the unit is on the
\* standard queue with nothing left of its delay.
LEMMA ActivatedAfter ==
  ASSUME TypeOK, NEW u \in UNITS, NEW d \in Nat,
         NEW ag \in Seq(UNITS \cup {Tick}), Once(ag), u \notin ToSet(ag),
         ActivateAfter(u, d, ag)
  PROVE  /\ UNCHANGED <<cosched, interval, cut>>
         /\ time' \in [UNITS -> Int]
         /\ wait' \in [UNITS \cup {Tick} -> Int]
         /\ remaining' \in [UNITS -> Nat]
         /\ \A v \in UNITS : v # u => remaining'[v] = remaining[v]
         /\ agenda' \in Seq(UNITS \cup {Tick}) /\ Once(agenda')
         /\ \/ /\ ToSet(agenda') = ToSet(ag)
               /\ call' \in Calls /\ call'.op = "scan" /\ call'.unit = u /\ call'.prv = 0
            \/ /\ ToSet(agenda') = ToSet(ag) \cup {u}
               /\ call' = call
               /\ remaining'[u] = 0
<1>1. CASE /\ d > InstTilCalib
           /\ EnterCosched(u, TicksTilCalib - 1)
           /\ remaining' = [remaining EXCEPT ![u] = d - AtLeast0(InstTilCalib)]
           /\ agenda' = ag
           /\ UNCHANGED wait
  <2>1. rtc_ticks \in Int /\ rtc_ticks <= Hz - 1 /\ Hz \in Nat /\ TickSize \in Nat
    BY DEF TypeOK
  <2>2. TicksTilCalib - 1 \in Nat
    BY <2>1 DEF TicksTilCalib
  <2>3. InstTilTick \in Int
    BY DEF InstTilTick, TypeOK
  <2>4. (TicksTilCalib - 1) * TickSize \in Int
    BY <2>1, <2>2
  <2>5. InstTilCalib \in Int
    BY <2>3, <2>4 DEF InstTilCalib
  <2>6. d - AtLeast0(InstTilCalib) \in Nat
    BY <1>1, <2>5 DEF AtLeast0
  <2>7. remaining' \in [UNITS -> Nat]
    BY <1>1, <2>6 DEF TypeOK
  <2>8. \A v \in UNITS : v # u => remaining'[v] = remaining[v]
    BY <1>1 DEF TypeOK
  <2>9. wait' \in [UNITS \cup {Tick} -> Int]
    BY <1>1 DEF TypeOK
  <2> QED
    BY <1>1, <2>2, <2>7, <2>8, <2>9, Entered
<1>2. CASE /\ Schedule(u, d, ag)
           /\ remaining' = [remaining EXCEPT ![u] = 0]
           /\ UNCHANGED <<cosched, time, interval, cut, call>>
  <2>1. wait \in [UNITS \cup {Tick} -> Int] /\ d \in Int /\ u \in UNITS \cup {Tick}
    BY DEF TypeOK
  <2>2. /\ agenda' \in Seq(UNITS \cup {Tick}) /\ ToSet(agenda') = ToSet(ag) \cup {u}
        /\ Once(agenda') /\ wait' \in [UNITS \cup {Tick} -> Int]
    BY <1>2, <2>1, Scheduled
  <2>3. remaining' \in [UNITS -> Nat] /\ remaining'[u] = 0
    BY <1>2 DEF TypeOK
  <2>4. \A v \in UNITS : v # u => remaining'[v] = remaining[v]
    BY <1>2 DEF TypeOK
  <2>5. time' \in [UNITS -> Int]
    BY <1>2 DEF TypeOK
  <2> QED
    BY <1>2, <2>2, <2>3, <2>4, <2>5
<1> QED
  BY <1>1, <1>2 DEF ActivateAfter

\* The unit u, on no list, is given the delay d or what is left of it.
LEMMA Rearmed ==
  ASSUME IInv, NEW u \in UNITS, NEW d \in Nat, NEW ag \in Seq(UNITS \cup {Tick}),
         Once(ag), Once(gathered)', gathered' \in Seq(UNITS),
         Coscheduled \cap Dispatched' = {}, Coscheduled \cap ToSet(ag) = {},
         Dispatched' \cap ToSet(ag) = {},
         u \notin Coscheduled \cup Dispatched' \cup ToSet(ag), Tick \in ToSet(ag),
         \A v \in UNITS : bound'[v] <=> v \in Coscheduled \cup Dispatched',
         bound' \in [UNITS -> BOOLEAN],
         ctx' \in Contexts \ {"gather"}, call = NoCall,
         \A v \in UNITS \ {u} : remaining[v] > 0 =>
           v \in Coscheduled \cup Dispatched' \cup ToSet(ag),
         ActivateAfter(u, d, ag), UNCHANGED clk,
         due' \in [UNITS -> Int], left' \in [UNITS -> Nat]
  PROVE  IInv'
<1>1. TypeOK /\ Once(cosched)
  BY DEF IInv, Apart
<1>2. /\ UNCHANGED <<cosched, interval, cut>>
      /\ time' \in [UNITS -> Int]
      /\ wait' \in [UNITS \cup {Tick} -> Int]
      /\ remaining' \in [UNITS -> Nat]
      /\ \A v \in UNITS : v # u => remaining'[v] = remaining[v]
      /\ agenda' \in Seq(UNITS \cup {Tick}) /\ Once(agenda')
      /\ \/ /\ ToSet(agenda') = ToSet(ag)
            /\ call' \in Calls /\ call'.op = "scan" /\ call'.unit = u /\ call'.prv = 0
         \/ /\ ToSet(agenda') = ToSet(ag) \cup {u}
            /\ call' = call
            /\ remaining'[u] = 0
  BY <1>1, ActivatedAfter
<1>3. Coscheduled' = Coscheduled /\ Once(cosched)' /\ Coscheduled \subseteq UNITS /\ Tick \notin UNITS
  BY <1>1, <1>2, OnLists DEF Coscheduled
<1>4. TypeOK'
  BY <1>1, <1>2 DEF TypeOK, clk, Calls
<1>5. Agenda' = ToSet(ag) \/ Agenda' = ToSet(ag) \cup {u}
  BY <1>2 DEF Agenda
<1>6. Apart'
  BY <1>2, <1>3, <1>5 DEF Apart
<1>7. Places'
  BY <1>3, <1>5 DEF Places
<1>8. CallSound'
  <2>1. CASE /\ ToSet(agenda') = ToSet(ag)
             /\ call'.op = "scan" /\ call'.unit = u /\ call'.prv = 0
    <3>1. ~sim_is_active(u)'
      BY <1>3, <2>1 DEF sim_is_active, Dispatched
    <3>2. 0 <= Len(cosched')
      BY <1>1, <1>2, OnLists
    <3> QED
      BY <2>1, <3>1, <3>2 DEF CallSound, sim_is_active, Coscheduled
  <2>2. CASE call' = call
    BY <2>2 DEF CallSound, NoCall
  <2> QED
    BY <1>2, <2>1, <2>2
<1>9. RemnantScheduled'
  <2> SUFFICES ASSUME NEW v \in UNITS, remaining'[v] > 0
               PROVE  sim_is_active(v)' \/ (call'.op = "scan" /\ call'.unit = v)
    BY DEF RemnantScheduled
  <2>1. CASE v # u
    <3>1. v \in Coscheduled \cup Dispatched' \cup ToSet(ag)
      BY <1>2, <2>1
    <3> QED
      BY <1>3, <1>5, <3>1 DEF sim_is_active, Dispatched, Agenda
  <2>2. CASE v = u
    BY <1>2, <2>2
  <2> QED
    BY <2>1, <2>2
<1> QED
  BY <1>4, <1>6, <1>7, <1>8, <1>9 DEF IInv

-----------------------------------------------------------------------------
(* Calls *)

\* What IInv says when no routine is in progress.
LEMMA Idle ==
  ASSUME IInv, call = NoCall
  PROVE  /\ \A v \in UNITS : remaining[v] > 0 => v \in Coscheduled \cup Dispatched \cup Agenda
         /\ \A v \in UNITS : sim_is_active(v) <=> v \in Coscheduled \cup Dispatched \cup Agenda
  BY DEF IInv, RemnantScheduled, NoCall, sim_is_active, Dispatched, Agenda

LEMMA CoscheduleStep ==
  ASSUME IInv, NEW u \in UNITS, NEW n \in Nat, sim_clock_coschedule(u, n)
  PROVE  IInv'
<1>1. /\ TypeOK /\ ctx # "gather" /\ call = NoCall /\ ~sim_is_active(u)
      /\ UNCHANGED <<bound, gathered, remaining, clk, ctx, due, left>>
      /\ \A v \in UNITS : remaining[v] > 0 => v \in Coscheduled \cup Dispatched \cup Agenda
      /\ u \notin Coscheduled \cup Dispatched \cup Agenda
  <2>1. call = NoCall /\ ~sim_is_active(u)
    BY DEF sim_clock_coschedule, CanCall
  <2> QED
    BY <2>1, Idle DEF IInv, sim_clock_coschedule, CanCall
<1>2. Dispatched' = Dispatched
  BY <1>1 DEF Dispatched
<1>3. CASE EnterCosched(u, n) /\ UNCHANGED stdq
  <2>1. /\ time' \in [UNITS -> Int]
        /\ call' \in Calls /\ call'.op = "scan" /\ call'.unit = u /\ call'.prv = 0
        /\ UNCHANGED <<cosched, interval, cut>>
    BY <1>1, <1>3, Entered
  <2>2. TypeOK'
    BY <1>1, <1>3, <2>1 DEF TypeOK, stdq, clk
  <2>3. Coscheduled' = Coscheduled /\ Agenda' = Agenda
    BY <1>3, <2>1 DEF Coscheduled, Agenda, stdq
  <2>4. Apart'
    BY <1>1, <1>2, <1>3, <2>1, <2>3 DEF IInv, Apart, stdq
  <2>5. Places'
    BY <1>1, <1>2, <2>3 DEF IInv, Places
  <2>6. CallSound'
    <3>1. ~sim_is_active(u)'
      BY <1>1, <1>2, <2>3 DEF sim_is_active, Dispatched, Agenda
    <3>2. 0 <= Len(cosched')
      BY <1>1, <2>1, OnLists
    <3>3. ctx' # "gather"
      BY <1>1
    <3> QED
      BY <2>1, <3>1, <3>2, <3>3 DEF CallSound, sim_is_active, Coscheduled
  <2>7. RemnantScheduled'
    <3>1. \A v \in UNITS : remaining'[v] > 0 => v \in Coscheduled' \cup Dispatched' \cup Agenda'
      BY <1>1, <1>2, <2>3
    <3> QED
      BY <3>1 DEF RemnantScheduled, sim_is_active, Dispatched, Agenda
  <2> QED
    BY <2>2, <2>4, <2>5, <2>6, <2>7 DEF IInv
<1>4. CASE /\ Schedule(u, n * TickSize, agenda)
           /\ UNCHANGED <<cosched, time, interval, cut, call>>
  <2>1. /\ agenda \in Seq(UNITS \cup {Tick}) /\ Once(agenda) /\ u \notin ToSet(agenda)
        /\ u \in UNITS \cup {Tick} /\ wait \in [UNITS \cup {Tick} -> Int]
    BY <1>1 DEF IInv, TypeOK, Apart, Agenda
  <2>2. n * TickSize \in Int
    OBVIOUS
  <2>3. /\ agenda' \in Seq(UNITS \cup {Tick}) /\ Once(agenda')
        /\ ToSet(agenda') = ToSet(agenda) \cup {u}
        /\ wait' \in [UNITS \cup {Tick} -> Int]
    BY <1>4, <2>1, <2>2, Scheduled
  <2>4. Coscheduled' = Coscheduled /\ Agenda' = Agenda \cup {u}
    BY <1>4, <2>3 DEF Coscheduled, Agenda
  <2>5. TypeOK'
    BY <1>1, <1>4, <2>3 DEF TypeOK, clk
  <2>6. Apart'
    BY <1>1, <1>2, <1>4, <2>3, <2>4 DEF IInv, Apart
  <2>7. Places'
    BY <1>1, <1>2, <2>4 DEF IInv, Places
  <2>8. CallSound'
    BY <1>1, <1>4 DEF CallSound, NoCall
  <2>9. RemnantScheduled'
    <3>1. \A v \in UNITS : remaining'[v] > 0 => v \in Coscheduled' \cup Dispatched' \cup Agenda'
      BY <1>1, <1>2, <2>4
    <3> QED
      BY <3>1 DEF RemnantScheduled, sim_is_active, Dispatched, Agenda
  <2> QED
    BY <2>5, <2>6, <2>7, <2>8, <2>9 DEF IInv
<1> QED
  BY <1>3, <1>4 DEF sim_clock_coschedule

LEMMA ActivateStep ==
  ASSUME IInv, NEW u \in UNITS, NEW d \in Nat, sim_activate_after(u, d)
  PROVE  IInv'
<1>1. /\ TypeOK /\ ctx # "gather" /\ call = NoCall /\ ~sim_is_active(u)
      /\ ActivateAfter(u, d, agenda)
      /\ UNCHANGED <<bound, gathered, clk, ctx, due>>
      /\ left' = [left EXCEPT ![u] = d]
  BY DEF IInv, sim_activate_after, CanCall
<1>2. /\ \A v \in UNITS : remaining[v] > 0 => v \in Coscheduled \cup Dispatched \cup Agenda
      /\ u \notin Coscheduled \cup Dispatched \cup Agenda
  BY <1>1, Idle
<1>3. Dispatched' = Dispatched /\ gathered' = gathered /\ bound' = bound /\ ctx' = ctx
  BY <1>1 DEF Dispatched
<1>4. /\ Once(gathered)' /\ gathered' \in Seq(UNITS) /\ Once(agenda)
      /\ agenda \in Seq(UNITS \cup {Tick}) /\ bound' \in [UNITS -> BOOLEAN]
      /\ due' \in [UNITS -> Int] /\ left' \in [UNITS -> Nat]
      /\ ctx' \in Contexts \ {"gather"}
  BY <1>1, <1>3 DEF IInv, TypeOK, Apart
<1>5. /\ Coscheduled \cap Dispatched' = {} /\ Coscheduled \cap Agenda = {}
      /\ Dispatched' \cap Agenda = {} /\ Tick \in Agenda
      /\ \A v \in UNITS : bound'[v] <=> v \in Coscheduled \cup Dispatched'
  BY <1>3 DEF IInv, Apart, Places
<1>6. Agenda = ToSet(agenda) /\ UNCHANGED clk
  BY <1>1 DEF Agenda
<1> QED
  BY <1>1, <1>2, <1>3, <1>4, <1>5, <1>6, Rearmed

\* A unit taken off one list, its delay given up.
LEMMA CancelStep ==
  ASSUME IInv, NEW u \in UNITS, sim_cancel(u)
  PROVE  IInv'
<1>1. /\ TypeOK /\ ctx # "gather" /\ call = NoCall
      /\ UNCHANGED <<gathered, clk, ctx, call>>
      /\ remaining' = [remaining EXCEPT ![u] = 0]
      /\ due' = [due EXCEPT ![u] = 0]
      /\ left' = [left EXCEPT ![u] = 0]
  BY DEF IInv, sim_cancel, CanCall, ClearRemaining
<1>2. /\ remaining' \in [UNITS -> Nat] /\ due' \in [UNITS -> Int] /\ left' \in [UNITS -> Nat]
      /\ remaining'[u] = 0
      /\ \A v \in UNITS : v # u => remaining'[v] = remaining[v]
  BY <1>1 DEF TypeOK
<1>3. \A v \in UNITS : remaining[v] > 0 => v \in Coscheduled \cup Dispatched \cup Agenda
  BY <1>1, Idle
<1>4. /\ Apart /\ Places /\ Dispatched' = Dispatched /\ Once(gathered)' /\ Tick \notin UNITS
      /\ gathered \in Seq(UNITS) /\ cosched \in Seq(UNITS) /\ agenda \in Seq(UNITS \cup {Tick})
  BY <1>1 DEF IInv, Apart, Dispatched, TypeOK
<1>5. CallSound'
  BY <1>1 DEF CallSound, NoCall
<1>6. ASSUME Coscheduled' \cup Dispatched' \cup Agenda' = (Coscheduled \cup Dispatched \cup Agenda) \ {u}
      PROVE  RemnantScheduled'
  <2>1. \A v \in UNITS : remaining'[v] > 0 => v \in Coscheduled' \cup Dispatched' \cup Agenda'
    BY <1>2, <1>3, <1>6
  <2> QED
    BY <2>1 DEF RemnantScheduled, sim_is_active, Dispatched, Agenda
<1>7. CASE \E i \in 1 .. Len(cosched) :
             cosched[i] = u /\ CoschedCancelAt(i) /\ UNCHANGED stdq
  <2>1. PICK i \in 1 .. Len(cosched) : cosched[i] = u /\ CoschedCancelAt(i) /\ UNCHANGED stdq
    BY <1>7
  <2>2. /\ cosched' = RemoveAt(cosched, i) /\ bound' = [bound EXCEPT ![u] = FALSE]
        /\ interval' = interval /\ agenda' = agenda /\ wait' = wait
    BY <2>1 DEF CoschedCancelAt, Unbind, stdq
  <2>3. /\ cosched' \in Seq(UNITS) /\ Coscheduled' = Coscheduled \ {u} /\ Once(cosched)'
    BY <1>4, <2>1, <2>2, RemoveOnce DEF Apart, Coscheduled
  <2>4. u \in Coscheduled /\ Agenda' = Agenda
    BY <1>1, <2>1, <2>2, OnLists DEF Agenda
  <2>5. time' \in [UNITS -> Int]
    <3>1. time' = [v \in UNITS |->
             IF v = u THEN 0
             ELSE IF i < Len(cosched) /\ v = cosched[i + 1] THEN time[v] + time[u]
                  ELSE time[v]]
      BY <2>1 DEF CoschedCancelAt
    <3> QED
      BY <1>1, <3>1 DEF TypeOK
  <2>6. cut' \in BOOLEAN
    BY <2>1 DEF CoschedCancelAt
  <2>7. bound' \in [UNITS -> BOOLEAN]
    BY <1>1, <2>2 DEF TypeOK
  <2>8. TypeOK'
    BY <1>1, <1>2, <2>2, <2>3, <2>5, <2>6, <2>7 DEF TypeOK, clk
  <2>9. Apart'
    BY <1>4, <2>2, <2>3, <2>4 DEF Apart
  <2>10. Places'
    <3>1. \A v \in UNITS : bound'[v] <=> v # u /\ bound[v]
      BY <1>1, <2>2 DEF TypeOK
    <3>2. u \notin Dispatched
      BY <1>4, <2>4 DEF Apart
    <3> QED
      BY <1>4, <2>3, <2>4, <3>1, <3>2 DEF Places
  <2>11. Coscheduled' \cup Dispatched' \cup Agenda' = (Coscheduled \cup Dispatched \cup Agenda) \ {u}
    BY <1>4, <2>3, <2>4 DEF Apart
  <2> QED
    BY <1>5, <1>6, <2>8, <2>9, <2>10, <2>11 DEF IInv
<1>8. CASE \E i \in 1 .. Len(agenda) :
             /\ agenda[i] = u /\ agenda' = RemoveAt(agenda, i)
             /\ wait' = [wait EXCEPT ![u] = 0] /\ UNCHANGED lists
  <2>1. PICK i \in 1 .. Len(agenda) :
             /\ agenda[i] = u /\ agenda' = RemoveAt(agenda, i)
             /\ wait' = [wait EXCEPT ![u] = 0] /\ UNCHANGED lists
    BY <1>8
  <2>2. /\ agenda' \in Seq(UNITS \cup {Tick}) /\ Agenda' = Agenda \ {u} /\ Once(agenda)'
    BY <1>4, <2>1, RemoveOnce DEF Apart, Agenda
  <2>3. /\ cosched' = cosched /\ time' = time /\ interval' = interval
        /\ bound' = bound /\ cut' = cut /\ Coscheduled' = Coscheduled
    BY <2>1 DEF lists, Coscheduled
  <2>4. u \in Agenda
    BY <1>1, <2>1, OnLists
  <2>5. wait' \in [UNITS \cup {Tick} -> Int]
    BY <1>1, <2>1 DEF TypeOK
  <2>6. TypeOK'
    BY <1>1, <1>2, <2>2, <2>3, <2>5 DEF TypeOK, clk
  <2>7. Apart'
    BY <1>4, <2>2, <2>3 DEF Apart
  <2>8. Places'
    BY <1>4, <2>2, <2>3 DEF Places
  <2>9. Coscheduled' \cup Dispatched' \cup Agenda' = (Coscheduled \cup Dispatched \cup Agenda) \ {u}
    BY <1>4, <2>2, <2>3, <2>4 DEF Apart
  <2> QED
    BY <1>5, <1>6, <2>6, <2>7, <2>8, <2>9 DEF IInv
<1> QED
  BY <1>7, <1>8 DEF sim_cancel

-----------------------------------------------------------------------------
(* The scan *)

LEMMA ScanStep ==
  ASSUME IInv, ScanOn
  PROVE  IInv'
<1>1. /\ TypeOK /\ call.op = "scan" /\ ~AtPlace
      /\ UNCHANGED <<lists, gathered, stdq, remaining, clk, ctx, due, left>>
      /\ call' = [call EXCEPT !.accum = @ + time[cosched[call.prv + 1]], !.prv = @ + 1]
  BY DEF IInv, ScanOn
<1>2. call \in [op : {"scan"}, unit : UNITS, ticks : Nat, accum : Int, prv : Nat]
  BY <1>1 DEF TypeOK, Calls, NoCall
<1>3. call.prv < Len(cosched) /\ Len(cosched) \in Nat
  BY <1>1, OnLists DEF AtPlace
<1>4. call.prv + 1 \in 1 .. Len(cosched)
  BY <1>2, <1>3
<1>5. time[cosched[call.prv + 1]] \in Int
  BY <1>1, <1>4, OnLists DEF TypeOK
<1>6. call' \in Calls /\ call'.op = "scan" /\ call'.unit = call.unit /\ call'.prv = call.prv + 1
  <2> DEFINE t == time[cosched[call.prv + 1]]
  <2>1. call' = [call EXCEPT !.accum = call.accum + t, !.prv = call.prv + 1]
    BY <1>1
  <2>2. t \in Int
    BY <1>5
  <2> HIDE DEF t
  <2>3. /\ call' \in [op : {"scan"}, unit : UNITS, ticks : Nat, accum : Int, prv : Nat]
        /\ call'.op = "scan" /\ call'.unit = call.unit /\ call'.prv = call.prv + 1
    BY <1>2, <2>1, <2>2, ScanRecord
  <2> QED
    BY <2>3 DEF Calls
<1>7. TypeOK'
  BY <1>1, <1>6 DEF TypeOK, lists, stdq, clk
<1>8. /\ Coscheduled' = Coscheduled /\ Dispatched' = Dispatched /\ Agenda' = Agenda
      /\ cosched' = cosched /\ gathered' = gathered /\ agenda' = agenda /\ bound' = bound
      /\ remaining' = remaining /\ ctx' = ctx
  BY <1>1 DEF Coscheduled, Dispatched, Agenda, lists, stdq
<1>9. Apart' /\ Places'
  BY <1>8 DEF IInv, Apart, Places
<1>10. CallSound'
  <2>1. ctx # "gather"
    BY <1>1 DEF IInv, CallSound, NoCall
  <2>2. ~sim_is_active(call.unit)
    BY <1>1 DEF IInv, CallSound
  <2>3. ~sim_is_active(call.unit)'
    BY <1>6, <1>8, <2>2 DEF sim_is_active, Dispatched, Agenda
  <2>4. call'.prv <= Len(cosched')
    BY <1>4, <1>6, <1>8
  <2> QED
    BY <1>8, <2>1, <2>3, <2>4 DEF CallSound
<1>11. RemnantScheduled'
  BY <1>1, <1>6, <1>8 DEF IInv, RemnantScheduled, sim_is_active, Dispatched, Agenda
<1> QED
  BY <1>7, <1>9, <1>10, <1>11 DEF IInv

LEMMA LinkStep ==
  ASSUME IInv, Link
  PROVE  IInv'
<1> DEFINE u == call.unit
           t == call.ticks - call.accum
<1>1. /\ TypeOK /\ call.op = "scan" /\ call' = NoCall
      /\ cosched' = InsertAt(cosched, call.prv + 1, u)
      /\ interval' = IF call.prv = 0 THEN t ELSE interval
      /\ bound' = [bound EXCEPT ![u] = TRUE]
      /\ due' = [due EXCEPT ![u] = call.ticks]
      /\ UNCHANGED <<gathered, cut, stdq, remaining, clk, ctx, left>>
  BY DEF IInv, Link
<1>2. call \in [op : {"scan"}, unit : UNITS, ticks : Nat, accum : Int, prv : Nat]
  BY <1>1 DEF TypeOK, Calls, NoCall
<1>3. u \in UNITS /\ t \in Int /\ call.ticks \in Int /\ call.prv \in Nat
  BY <1>2
<1>4. /\ cosched \in Seq(UNITS) /\ Len(cosched) \in Nat /\ call.prv <= Len(cosched)
      /\ ~sim_is_active(u) /\ Apart /\ Places
  BY <1>1, OnLists DEF IInv, CallSound, TypeOK
<1>5. u \notin Coscheduled \cup Dispatched \cup Agenda
  BY <1>4 DEF sim_is_active, Dispatched, Agenda
<1>6. call.prv + 1 \in 1 .. Len(cosched) + 1
  BY <1>3, <1>4
<1>7. /\ cosched' \in Seq(UNITS) /\ Coscheduled' = Coscheduled \cup {u} /\ Once(cosched)'
  BY <1>1, <1>3, <1>4, <1>5, <1>6, InsertOnce DEF Apart, Coscheduled
<1>8. time' \in [UNITS -> Int]
  <2>1. time' = [v \in UNITS |->
          IF v = u THEN t
          ELSE IF call.prv < Len(cosched) /\ v = cosched[call.prv + 1] THEN time[v] - t
               ELSE time[v]]
    BY DEF Link
  <2>2. time \in [UNITS -> Int]
    BY <1>1 DEF TypeOK
  <2> HIDE DEF t, u
  <2> QED
    BY <1>3, <2>1, <2>2
<1>9. bound' \in [UNITS -> BOOLEAN] /\ due' \in [UNITS -> Int] /\ interval' \in Int
  BY <1>1, <1>3 DEF TypeOK
<1>10. NoCall \in Calls
  BY DEF Calls
<1>11. TypeOK'
  BY <1>1, <1>7, <1>8, <1>9, <1>10 DEF TypeOK, stdq, clk
<1>12. Dispatched' = Dispatched /\ Agenda' = Agenda
  BY <1>1 DEF Dispatched, Agenda, stdq
<1>13. Apart'
  BY <1>1, <1>4, <1>5, <1>7, <1>12 DEF Apart, stdq
<1>14. Places'
  <2>1. \A v \in UNITS : bound'[v] <=> v = u \/ bound[v]
    BY <1>1, <1>3 DEF TypeOK
  <2> QED
    BY <1>4, <1>7, <1>12, <2>1 DEF Places
<1>15. CallSound'
  BY <1>1 DEF IInv, CallSound, NoCall
<1>16. RemnantScheduled'
  BY <1>1, <1>7, <1>12 DEF IInv, RemnantScheduled, sim_is_active, Dispatched, Agenda
<1> QED
  BY <1>11, <1>13, <1>14, <1>15, <1>16 DEF IInv

-----------------------------------------------------------------------------
(* Ticks and events *)

\* Steps that leave all lists alone, and no call in progress.
LEMMA ListsKept ==
  ASSUME IInv, TypeOK', call = NoCall,
         UNCHANGED <<cosched, bound, gathered, remaining>>,
         Once(agenda)', Agenda' = Agenda,
         call' = NoCall \/ call'.op = "stop",
         ctx' = "gather" => call' = NoCall /\ cosched # <<>>
  PROVE  IInv'
<1>1. Coscheduled' = Coscheduled /\ Dispatched' = Dispatched
  BY DEF Coscheduled, Dispatched
<1>2. Apart' /\ Places'
  BY <1>1 DEF IInv, Apart, Places
<1>3. CallSound'
  BY DEF CallSound, NoCall
<1>4. \A v \in UNITS : remaining'[v] > 0 => v \in Coscheduled' \cup Dispatched' \cup Agenda'
  BY <1>1, Idle
<1>5. RemnantScheduled'
  BY <1>4 DEF RemnantScheduled, sim_is_active, Dispatched, Agenda
<1> QED
  BY <1>2, <1>3, <1>5 DEF IInv

LEMMA ExecuteStep ==
  ASSUME IInv, Execute
  PROVE  IInv'
<1>1. /\ TypeOK /\ ctx = "run" /\ call = NoCall /\ agenda # <<>>
      /\ UNCHANGED <<lists, gathered, agenda, remaining, clk, ctx, call, due>>
  BY DEF IInv, Execute
<1>2. First \in UNITS \cup {Tick}
  BY <1>1, OnLists DEF First
<1>3. PICK n \in 1 .. wait[First] :
        /\ wait' = [u \in UNITS \cup {Tick} |->
             IF u \in ToSet(agenda) THEN wait[u] - n ELSE wait[u]]
        /\ left' = [u \in UNITS |-> AtLeast0(left[u] - n)]
  BY DEF Execute
<1>4. n \in Int
  OBVIOUS
<1>5. wait' \in [UNITS \cup {Tick} -> Int]
  BY <1>1, <1>3, <1>4 DEF TypeOK
<1>6. left' \in [UNITS -> Nat]
  BY <1>1, <1>3, <1>4 DEF TypeOK, AtLeast0
<1>7. TypeOK'
  BY <1>1, <1>5, <1>6 DEF TypeOK, lists, clk
<1>8. Once(agenda)' /\ Agenda' = Agenda
  BY <1>1 DEF IInv, Apart, Agenda
<1> QED
  BY <1>1, <1>7, <1>8, ListsKept DEF lists

\* The tick is taken from the front of the agenda and put back.
LEMMA NextTick ==
  ASSUME IInv, Fires(Tick), Schedule(Tick, TickSize, Tail(agenda)), rtc_ticks' = NextTicks,
         rtc_hz' = Hz
  PROVE  /\ agenda' \in Seq(UNITS \cup {Tick}) /\ Once(agenda)' /\ Agenda' = Agenda
         /\ wait' \in [UNITS \cup {Tick} -> Int]
         /\ rtc_ticks' \in 0 .. Hz - 1 /\ rtc_hz' \in {0, Hz}
<1>1. /\ agenda \in Seq(UNITS \cup {Tick}) /\ agenda # <<>> /\ Head(agenda) = Tick
      /\ Once(agenda) /\ wait \in [UNITS \cup {Tick} -> Int] /\ Tick \in Agenda
  BY DEF IInv, TypeOK, Fires, First, Apart, Places
<1>2. /\ Tail(agenda) \in Seq(UNITS \cup {Tick}) /\ Once(Tail(agenda))
      /\ ToSet(Tail(agenda)) = ToSet(agenda) \ {Tick}
  BY <1>1, TailOnce
<1>3. Tick \in UNITS \cup {Tick} /\ TickSize \in Int /\ Tick \notin ToSet(Tail(agenda))
  BY <1>2
<1>4. /\ agenda' \in Seq(UNITS \cup {Tick})
      /\ ToSet(agenda') = ToSet(Tail(agenda)) \cup {Tick}
      /\ Once(agenda')
      /\ wait' \in [UNITS \cup {Tick} -> Int]
  BY <1>1, <1>2, <1>3, Scheduled
<1>5. Agenda' = Agenda
  BY <1>1, <1>2, <1>4 DEF Agenda
<1>6. rtc_ticks' \in 0 .. Hz - 1
  <2>1. rtc_ticks + 1 \in Int /\ Hz \in Nat \ {0}
    BY DEF IInv, TypeOK
  <2> QED
    BY <2>1 DEF NextTicks
<1> QED
  BY <1>4, <1>5, <1>6

LEMMA TickServiceStep ==
  ASSUME IInv, TickService
  PROVE  IInv'
<1>1. /\ TypeOK /\ call = NoCall
      /\ UNCHANGED <<cosched, bound, cut, gathered, remaining, assist, call, left>>
  BY DEF IInv, TickService, Fires
<1>2. /\ agenda' \in Seq(UNITS \cup {Tick}) /\ Once(agenda)' /\ Agenda' = Agenda
      /\ wait' \in [UNITS \cup {Tick} -> Int]
      /\ rtc_ticks' \in 0 .. Hz - 1 /\ rtc_hz' \in {0, Hz}
  BY NextTick DEF TickService
<1>3. cosched # <<>> => Head(cosched) \in UNITS
  BY <1>1, OnLists
<1>4. Counted \in Int
  BY <1>1 DEF TypeOK, Counted
<1>5. interval' \in Int
  BY <1>4 DEF TickService
<1>6. time' \in [UNITS -> Int]
  BY <1>1, <1>3, <1>4 DEF TickService, TypeOK
<1>7. due' \in [UNITS -> Int]
  BY <1>1 DEF TickService, TypeOK
<1>8. ctx' \in Contexts
  BY DEF TickService, Contexts
<1>9. TypeOK'
  BY <1>1, <1>2, <1>5, <1>6, <1>7, <1>8 DEF TypeOK
<1>10. ctx' = "gather" => call' = NoCall /\ cosched # <<>>
  BY <1>1 DEF TickService
<1> QED
  BY <1>1, <1>2, <1>9, <1>10, ListsKept

LEMMA ClockServiceStep ==
  ASSUME IInv, ClockService
  PROVE  IInv'
<1>1. /\ TypeOK /\ ctx = "run" /\ call = NoCall /\ assist' = TRUE
      /\ UNCHANGED <<lists, gathered, remaining, ctx, call, due, left>>
  BY DEF IInv, ClockService, Fires
<1>2. /\ agenda' \in Seq(UNITS \cup {Tick}) /\ Once(agenda)' /\ Agenda' = Agenda
      /\ wait' \in [UNITS \cup {Tick} -> Int]
      /\ rtc_ticks' \in 0 .. Hz - 1 /\ rtc_hz' \in {0, Hz}
  BY NextTick DEF ClockService
<1>3. TypeOK'
  BY <1>1, <1>2 DEF TypeOK, lists
<1> QED
  BY <1>1, <1>2, <1>3, ListsKept DEF lists

LEMMA GatherStep ==
  ASSUME IInv, Gather
  PROVE  IInv'
<1> DEFINE u == Head(cosched)
           rest == Tail(cosched)
           next == IF rest = <<>> THEN 0 ELSE time[Head(rest)] + interval
<1>1. /\ TypeOK /\ call = NoCall /\ cosched # <<>> /\ Apart /\ Places
      /\ cosched \in Seq(UNITS) /\ gathered \in Seq(UNITS) /\ Once(cosched) /\ Once(gathered)
  BY DEF IInv, Gather, CallSound, TypeOK, Apart
<1>2. /\ cosched' = rest /\ gathered' = Append(gathered, u) /\ interval' = next
      /\ ctx' = IF rest # <<>> /\ GatherOn(next) THEN "gather" ELSE "dispatch"
      /\ cut' = (cut /\ rest # <<>>)
      /\ UNCHANGED <<bound, stdq, remaining, clk, call, due, left>>
      /\ time' = [v \in UNITS |->
           IF v = u THEN 0
           ELSE IF rest # <<>> /\ v = Head(rest) THEN next ELSE time[v]]
  BY DEF Gather
<1>3. /\ rest \in Seq(UNITS) /\ u \in UNITS /\ u \in Coscheduled
      /\ ToSet(rest) = Coscheduled \ {u} /\ Once(rest)
  BY <1>1, TailOnce DEF Coscheduled
<1>4. rest # <<>> => Head(rest) \in UNITS
  BY <1>3, HeadTailProperties
<1> HIDE DEF u, rest
<1>5. next \in Int
  <2>1. time \in [UNITS -> Int] /\ interval \in Int
    BY <1>1 DEF TypeOK
  <2>2. rest # <<>> => time[Head(rest)] \in Int
    BY <1>4, <2>1
  <2> QED
    BY <2>1, <2>2
<1> HIDE DEF next
<1>6. u \notin ToSet(gathered)
  BY <1>1, <1>3 DEF Apart, Dispatched
<1>7. /\ gathered' \in Seq(UNITS) /\ Once(gathered)' /\ Dispatched' = Dispatched \cup {u}
  BY <1>1, <1>2, <1>3, <1>6, AppendOnce DEF Dispatched
<1>8. /\ Coscheduled' = Coscheduled \ {u} /\ Once(cosched)' /\ Agenda' = Agenda
  BY <1>2, <1>3 DEF Coscheduled, Agenda, stdq
<1>9. time' \in [UNITS -> Int]
  BY <1>1, <1>2, <1>5 DEF TypeOK
<1>10. ctx' \in Contexts /\ cut' \in BOOLEAN
  BY <1>2 DEF Contexts
<1>11. TypeOK'
  BY <1>1, <1>2, <1>3, <1>5, <1>7, <1>9, <1>10 DEF TypeOK, stdq, clk
<1>12. Apart'
  BY <1>1, <1>2, <1>3, <1>7, <1>8 DEF Apart, stdq
<1>13. Places'
  BY <1>1, <1>2, <1>3, <1>7, <1>8 DEF Places
<1>14. CallSound'
  BY <1>1, <1>2 DEF CallSound, NoCall
<1>15. RemnantScheduled'
  <2>1. \A v \in UNITS : remaining'[v] > 0 => v \in Coscheduled' \cup Dispatched' \cup Agenda'
    BY <1>1, <1>2, <1>7, <1>8, Idle
  <2> QED
    BY <2>1 DEF RemnantScheduled, sim_is_active, Dispatched, Agenda
<1> QED
  BY <1>11, <1>12, <1>13, <1>14, <1>15 DEF IInv

LEMMA DispatchStep ==
  ASSUME IInv, Dispatch
  PROVE  IInv'
<1> DEFINE u == Head(gathered)
<1>1. /\ TypeOK /\ ctx = "dispatch" /\ call = NoCall /\ gathered # <<>> /\ Apart /\ Places
      /\ gathered \in Seq(UNITS) /\ Once(gathered) /\ Once(agenda)
      /\ agenda \in Seq(UNITS \cup {Tick})
  BY DEF IInv, Dispatch, TypeOK, Apart
<1>2. /\ gathered' = Tail(gathered) /\ bound' = [bound EXCEPT ![u] = FALSE]
      /\ due' = [due EXCEPT ![u] = 0] /\ UNCHANGED <<clk, ctx, left>>
  BY DEF Dispatch, Unbind
<1>3. /\ gathered' \in Seq(UNITS) /\ u \in UNITS /\ u \in Dispatched
      /\ Dispatched' = Dispatched \ {u} /\ Once(gathered)'
  BY <1>1, <1>2, TailOnce DEF Dispatched
<1> HIDE DEF u
<1>4. u \notin Coscheduled /\ u \notin Agenda
  BY <1>1, <1>3 DEF Apart
<1>5. \A v \in UNITS : bound'[v] <=> v # u /\ bound[v]
  BY <1>1, <1>2, <1>3 DEF TypeOK
<1>6. \A v \in UNITS : bound'[v] <=> v \in Coscheduled \cup Dispatched'
  BY <1>1, <1>3, <1>4, <1>5 DEF Places
<1>7. bound' \in [UNITS -> BOOLEAN] /\ due' \in [UNITS -> Int]
  <2>1. bound \in [UNITS -> BOOLEAN] /\ due \in [UNITS -> Int]
    BY <1>1 DEF TypeOK
  <2>2. bound' \in [UNITS -> BOOLEAN]
    BY <1>2, <2>1
  <2>3. due' = [due EXCEPT ![u] = 0]
    BY <1>2
  <2>4. due' \in [UNITS -> Int]
    BY <1>3, <2>1, <2>3, Zeroed
  <2> QED
    BY <2>2, <2>4
<1>8. \A v \in UNITS \ {u} : remaining[v] > 0 => v \in Coscheduled \cup Dispatched' \cup Agenda
  BY <1>1, <1>3, Idle
<1>9. CASE /\ remaining[u] = 0 /\ Schedule(u, 0, agenda)
           /\ UNCHANGED <<cosched, time, interval, cut, remaining, call>>
  <2>1. u \in UNITS \cup {Tick} /\ u \notin ToSet(agenda) /\ wait \in [UNITS \cup {Tick} -> Int]
    BY <1>1, <1>3, <1>4 DEF Agenda, TypeOK
  <2>2. /\ agenda' \in Seq(UNITS \cup {Tick}) /\ Agenda' = Agenda \cup {u}
        /\ Once(agenda)' /\ wait' \in [UNITS \cup {Tick} -> Int]
    BY <1>1, <1>9, <2>1, Scheduled DEF Agenda
  <2>3. TypeOK'
    BY <1>1, <1>2, <1>3, <1>7, <1>9, <2>2 DEF TypeOK, clk
  <2>4. Coscheduled' = Coscheduled
    BY <1>9 DEF Coscheduled
  <2>5. Apart'
    BY <1>1, <1>3, <1>4, <1>9, <2>2, <2>4 DEF Apart
  <2>6. Places'
    BY <1>1, <1>6, <2>2, <2>4 DEF Places
  <2>7. CallSound'
    BY <1>1, <1>2, <1>9 DEF CallSound, NoCall
  <2>8. \A v \in UNITS : remaining'[v] > 0 => v \in Coscheduled' \cup Dispatched' \cup Agenda'
    BY <1>8, <1>9, <2>2, <2>4
  <2>9. RemnantScheduled'
    BY <2>8 DEF RemnantScheduled, sim_is_active, Dispatched, Agenda
  <2> QED
    BY <2>3, <2>5, <2>6, <2>7, <2>9 DEF IInv
<1>10. CASE remaining[u] > 0 /\ ActivateAfter(u, remaining[u], agenda)
  <2>1. remaining[u] \in Nat /\ left' \in [UNITS -> Nat] /\ ctx' \in Contexts \ {"gather"}
    BY <1>1, <1>2, <1>3 DEF TypeOK, Contexts
  <2>2. /\ Coscheduled \cap Dispatched' = {} /\ Coscheduled \cap Agenda = {}
        /\ Dispatched' \cap Agenda = {} /\ Tick \in Agenda
        /\ u \notin Coscheduled \cup Dispatched' \cup Agenda
    BY <1>1, <1>3, <1>4 DEF Apart, Places
  <2>3. Agenda = ToSet(agenda) /\ UNCHANGED clk
    BY <1>2 DEF Agenda
  <2> QED
    BY <1>1, <1>3, <1>6, <1>7, <1>8, <1>10, <2>1, <2>2, <2>3, Rearmed
<1> QED
  BY <1>9, <1>10 DEF Dispatch, u

LEMMA DispatchDoneStep ==
  ASSUME IInv, DispatchDone
  PROVE  IInv'
<1>1. /\ TypeOK /\ call = NoCall /\ ctx' = "run"
      /\ UNCHANGED <<lists, gathered, stdq, remaining, clk, call, due, left>>
  BY DEF IInv, DispatchDone
<1>2. TypeOK'
  BY <1>1 DEF TypeOK, lists, stdq, clk, Contexts
<1>3. Once(agenda)' /\ Agenda' = Agenda
  BY <1>1 DEF IInv, Apart, Agenda, stdq
<1> QED
  BY <1>1, <1>2, <1>3, ListsKept DEF lists

\* sim_process_event takes the first unit.
LEMMA Taken ==
  ASSUME IInv, NEW u \in UNITS, Fires(u)
  PROVE  /\ ctx = "run" /\ call = NoCall /\ TypeOK /\ u \in Agenda
         /\ Tail(agenda) \in Seq(UNITS \cup {Tick}) /\ Once(Tail(agenda))
         /\ ToSet(Tail(agenda)) = Agenda \ {u}
         /\ Tick \in ToSet(Tail(agenda))
<1>1. /\ ctx = "run" /\ call = NoCall /\ TypeOK /\ agenda # <<>> /\ Head(agenda) = u
      /\ agenda \in Seq(UNITS \cup {Tick}) /\ Once(agenda) /\ Tick \in Agenda /\ Tick # u
  BY DEF IInv, TypeOK, Fires, First, Apart, Places
<1>2. /\ Tail(agenda) \in Seq(UNITS \cup {Tick}) /\ Head(agenda) \in ToSet(agenda)
      /\ ToSet(Tail(agenda)) = ToSet(agenda) \ {Head(agenda)}
      /\ Once(Tail(agenda))
  BY <1>1, TailOnce
<1> QED
  BY <1>1, <1>2 DEF Agenda

LEMMA FireRemnantStep ==
  ASSUME IInv, FireRemnant
  PROVE  IInv'
<1>1. PICK u \in UNITS :
        Fires(u) /\ remaining[u] > 0 /\ ActivateAfter(u, remaining[u], Tail(agenda))
  BY DEF FireRemnant
<1>2. /\ ctx = "run" /\ call = NoCall /\ TypeOK /\ u \in Agenda
      /\ Tail(agenda) \in Seq(UNITS \cup {Tick}) /\ Once(Tail(agenda))
      /\ ToSet(Tail(agenda)) = Agenda \ {u} /\ Tick \in ToSet(Tail(agenda))
  BY <1>1, Taken
<1>3. UNCHANGED <<bound, gathered, clk, ctx, due, left>> /\ Dispatched' = Dispatched
  BY DEF FireRemnant, Dispatched
<1>4. /\ remaining[u] \in Nat /\ Once(gathered)' /\ gathered' \in Seq(UNITS)
      /\ bound' \in [UNITS -> BOOLEAN] /\ due' \in [UNITS -> Int] /\ left' \in [UNITS -> Nat]
      /\ ctx' \in Contexts \ {"gather"} /\ UNCHANGED clk
  BY <1>2, <1>3 DEF TypeOK, IInv, Apart, Contexts
<1>5. /\ Coscheduled \cap Dispatched' = {} /\ Coscheduled \cap ToSet(Tail(agenda)) = {}
      /\ Dispatched' \cap ToSet(Tail(agenda)) = {}
      /\ u \notin Coscheduled \cup Dispatched' \cup ToSet(Tail(agenda))
  BY <1>2, <1>3 DEF IInv, Apart
<1>6. \A v \in UNITS : bound'[v] <=> v \in Coscheduled \cup Dispatched'
  BY <1>3 DEF IInv, Places
<1>7. \A v \in UNITS \ {u} : remaining[v] > 0 =>
        v \in Coscheduled \cup Dispatched' \cup ToSet(Tail(agenda))
  BY <1>2, <1>3, Idle
<1> QED
  BY <1>1, <1>2, <1>4, <1>5, <1>6, <1>7, Rearmed

LEMMA FireUnitStep ==
  ASSUME IInv, FireUnit
  PROVE  IInv'
<1>1. PICK u \in UNITS : Fires(u) /\ remaining[u] = 0 /\ left' = [left EXCEPT ![u] = 0]
  BY DEF FireUnit
<1>2. /\ ctx = "run" /\ call = NoCall /\ TypeOK /\ u \in Agenda
      /\ Tail(agenda) \in Seq(UNITS \cup {Tick}) /\ Once(Tail(agenda))
      /\ ToSet(Tail(agenda)) = Agenda \ {u} /\ Tick \in ToSet(Tail(agenda))
  BY <1>1, Taken
<1>3. /\ agenda' = Tail(agenda)
      /\ UNCHANGED <<lists, gathered, wait, remaining, clk, ctx, call, due>>
  BY DEF FireUnit
<1>4. left' \in [UNITS -> Nat]
  BY <1>1, <1>2 DEF TypeOK
<1>5. TypeOK'
  BY <1>2, <1>3, <1>4 DEF TypeOK, lists, clk
<1>6. /\ Coscheduled' = Coscheduled /\ Dispatched' = Dispatched /\ Agenda' = Agenda \ {u}
      /\ cosched' = cosched /\ bound' = bound /\ Once(agenda)'
  BY <1>2, <1>3 DEF Coscheduled, Dispatched, Agenda, lists
<1>7. Apart'
  BY <1>3, <1>6 DEF IInv, Apart
<1>8. Places'
  BY <1>2, <1>3, <1>6 DEF IInv, Places, Agenda
<1>9. CallSound'
  BY <1>2, <1>3 DEF CallSound, NoCall
<1>10. \A v \in UNITS : remaining'[v] > 0 => v \in Coscheduled' \cup Dispatched' \cup Agenda'
  BY <1>1, <1>2, <1>3, <1>6, Idle
<1>11. RemnantScheduled'
  BY <1>10 DEF RemnantScheduled, sim_is_active, Dispatched, Agenda
<1> QED
  BY <1>5, <1>7, <1>8, <1>9, <1>11 DEF IInv

-----------------------------------------------------------------------------
(* Stops and starts *)

LEMMA StopServicesStep ==
  ASSUME IInv, StopServices
  PROVE  IInv'
<1>1. /\ TypeOK /\ ctx = "run" /\ call = NoCall /\ ctx' = "stopping" /\ assist' = FALSE
      /\ UNCHANGED <<lists, gathered, remaining, rtc_ticks, rtc_hz, due, left>>
      /\ agenda \in Seq(UNITS \cup {Tick}) /\ Once(agenda) /\ Tick \in Agenda
      /\ wait \in [UNITS \cup {Tick} -> Int]
  BY DEF IInv, StopServices, TypeOK, Apart, Places
<1>2. call' \in Calls /\ call'.op = "stop"
  <2>1. wait[Tick] + 1 \in Int
    BY <1>1
  <2>2. \E b \in Int : call' = [op |-> "stop", base |-> b, accum |-> 0]
    BY <2>1 DEF StopServices
  <2> QED
    BY <2>2 DEF Calls
<1>3. /\ agenda' \in Seq(UNITS \cup {Tick}) /\ Once(agenda)' /\ Agenda' = Agenda
      /\ wait' \in [UNITS \cup {Tick} -> Int]
  <2>1. CASE UNCHANGED stdq
    BY <1>1, <2>1 DEF stdq, Agenda
  <2>2. CASE \E i \in 1 .. Len(agenda) :
               /\ agenda[i] = Tick
               /\ Schedule(Tick, wait[Tick] + 1, RemoveAt(agenda, i))
    <3>1. PICK i \in 1 .. Len(agenda) :
               /\ agenda[i] = Tick
               /\ Schedule(Tick, wait[Tick] + 1, RemoveAt(agenda, i))
      BY <2>2
    <3>2. /\ RemoveAt(agenda, i) \in Seq(UNITS \cup {Tick})
          /\ ToSet(RemoveAt(agenda, i)) = ToSet(agenda) \ {Tick}
          /\ Once(RemoveAt(agenda, i))
      BY <1>1, <3>1, RemoveOnce
    <3>3. wait[Tick] + 1 \in Int /\ Tick \in UNITS \cup {Tick}
      BY <1>1
    <3>4. /\ agenda' \in Seq(UNITS \cup {Tick}) /\ Once(agenda')
          /\ ToSet(agenda') = ToSet(RemoveAt(agenda, i)) \cup {Tick}
          /\ wait' \in [UNITS \cup {Tick} -> Int]
      BY <1>1, <3>1, <3>2, <3>3, Scheduled
    <3> QED
      BY <1>1, <3>2, <3>4 DEF Agenda
  <2> QED
    BY <2>1, <2>2 DEF StopServices
<1>4. TypeOK'
  BY <1>1, <1>2, <1>3 DEF TypeOK, lists, Contexts
<1> QED
  BY <1>1, <1>2, <1>3, <1>4, ListsKept DEF lists

LEMMA StopMoveStep ==
  ASSUME IInv, StopMove
  PROVE  IInv'
<1> DEFINE u == Head(cosched)
           accum == call.accum + time[u]
<1>1. /\ TypeOK /\ call.op = "stop" /\ cosched # <<>> /\ Apart /\ Places
      /\ cosched \in Seq(UNITS) /\ Once(cosched)
      /\ agenda \in Seq(UNITS \cup {Tick}) /\ Once(agenda)
      /\ wait \in [UNITS \cup {Tick} -> Int]
  BY DEF IInv, StopMove, TypeOK, Apart
<1>2. /\ cosched' = Tail(cosched) /\ bound' = [bound EXCEPT ![u] = FALSE]
      /\ call' = [call EXCEPT !.accum = accum]
      /\ Schedule(u, call.base + accum * TickSize, agenda)
      /\ time' = [time EXCEPT ![u] = 0] /\ due' = [due EXCEPT ![u] = 0]
      /\ cut' = (cut /\ cosched' # <<>>)
      /\ UNCHANGED <<interval, gathered, remaining, clk, ctx, left>>
  BY DEF StopMove, Unbind
<1>3. /\ cosched' \in Seq(UNITS) /\ u \in UNITS /\ u \in Coscheduled
      /\ Coscheduled' = Coscheduled \ {u} /\ Once(cosched)'
  BY <1>1, <1>2, TailOnce DEF Coscheduled
<1> HIDE DEF u
<1>4. call \in [op : {"stop"}, base : Int, accum : Int]
  BY <1>1 DEF TypeOK, Calls, NoCall
<1>5. accum \in Int
  BY <1>1, <1>3, <1>4 DEF TypeOK
<1> HIDE DEF accum
<1>6. call' \in Calls /\ call'.op = "stop"
  <2>1. call' \in [op : {"stop"}, base : Int, accum : Int]
    BY <1>2, <1>4, <1>5
  <2> QED
    BY <2>1 DEF Calls
<1>7. call.base + accum * TickSize \in Int
  BY <1>4, <1>5
<1>8. u \notin Agenda /\ u \notin Dispatched
  BY <1>1, <1>3 DEF Apart
<1>9. /\ agenda' \in Seq(UNITS \cup {Tick}) /\ Agenda' = Agenda \cup {u} /\ Once(agenda)'
      /\ wait' \in [UNITS \cup {Tick} -> Int]
  <2>1. u \in UNITS \cup {Tick} /\ u \notin ToSet(agenda)
    BY <1>3, <1>8 DEF Agenda
  <2> QED
    BY <1>1, <1>2, <1>7, <2>1, Scheduled DEF Agenda
<1>10. bound' \in [UNITS -> BOOLEAN] /\ time' \in [UNITS -> Int] /\ due' \in [UNITS -> Int]
  <2>1. bound \in [UNITS -> BOOLEAN] /\ time \in [UNITS -> Int] /\ due \in [UNITS -> Int]
    BY <1>1 DEF TypeOK
  <2>2. bound' \in [UNITS -> BOOLEAN]
    BY <1>2, <2>1
  <2>3. time' = [time EXCEPT ![u] = 0] /\ due' = [due EXCEPT ![u] = 0]
    BY <1>2
  <2>4. time' \in [UNITS -> Int] /\ due' \in [UNITS -> Int]
    BY <1>3, <2>1, <2>3, Zeroed
  <2> QED
    BY <2>2, <2>4
<1>11. cut' \in BOOLEAN
  BY <1>2
<1>12. TypeOK'
  BY <1>1, <1>2, <1>3, <1>6, <1>9, <1>10, <1>11 DEF TypeOK, clk
<1>13. Dispatched' = Dispatched
  BY <1>2 DEF Dispatched
<1>14. Apart'
  BY <1>1, <1>2, <1>3, <1>8, <1>9, <1>13 DEF Apart
<1>15. Places'
  <2>1. \A v \in UNITS : bound'[v] <=> v # u /\ bound[v]
    BY <1>1, <1>2, <1>3 DEF TypeOK
  <2> QED
    BY <1>1, <1>3, <1>8, <1>9, <1>13, <2>1 DEF Places
<1>16. CallSound'
  <2>1. ctx # "gather"
    BY <1>1 DEF IInv, CallSound, NoCall
  <2> QED
    BY <1>2, <1>6, <2>1 DEF CallSound
<1>17. RemnantScheduled'
  <2>1. \A v \in UNITS : remaining[v] > 0 => v \in Coscheduled \cup Dispatched \cup Agenda
    BY <1>1 DEF IInv, RemnantScheduled, sim_is_active, Dispatched, Agenda
  <2>2. \A v \in UNITS : remaining'[v] > 0 => v \in Coscheduled' \cup Dispatched' \cup Agenda'
    BY <1>2, <1>3, <1>9, <1>13, <2>1
  <2> QED
    BY <2>2 DEF RemnantScheduled, sim_is_active, Dispatched, Agenda
<1> QED
  BY <1>12, <1>14, <1>15, <1>16, <1>17 DEF IInv

\* The stop is done, or the services start again.
LEMMA DoneStep ==
  ASSUME IInv, StopDone \/ StartServices
  PROVE  IInv'
<1>1. /\ TypeOK /\ call' = NoCall /\ ctx' \in {"console", "run"} /\ interval' \in Int
      /\ call = NoCall \/ call.op = "stop"
      /\ UNCHANGED <<cosched, time, bound, cut, gathered, stdq, remaining, due, left>>
      /\ rtc_ticks' \in 0 .. Hz - 1 /\ rtc_hz' \in {0, Hz} /\ assist' \in BOOLEAN
  <2>1. 0 \in 0 .. Hz - 1
    OBVIOUS
  <2> QED
    BY <2>1 DEF IInv, TypeOK, StopDone, StartServices, lists, clk
<1>2. TypeOK'
  BY <1>1 DEF TypeOK, stdq, Contexts, Calls
<1>3. Coscheduled' = Coscheduled /\ Dispatched' = Dispatched /\ Agenda' = Agenda
  BY <1>1 DEF Coscheduled, Dispatched, Agenda, stdq
<1>4. Apart' /\ Places'
  BY <1>1, <1>3 DEF IInv, Apart, Places, stdq
<1>5. CallSound'
  BY <1>1 DEF CallSound, NoCall
<1>6. RemnantScheduled'
  <2>1. \A v \in UNITS : remaining[v] > 0 => v \in Coscheduled \cup Dispatched \cup Agenda
    BY <1>1 DEF IInv, RemnantScheduled, sim_is_active, Dispatched, Agenda, NoCall
  <2>2. \A v \in UNITS : remaining'[v] > 0 => v \in Coscheduled' \cup Dispatched' \cup Agenda'
    BY <1>1, <1>3, <2>1
  <2> QED
    BY <2>2 DEF RemnantScheduled, sim_is_active, Dispatched, Agenda
<1> QED
  BY <1>2, <1>4, <1>5, <1>6 DEF IInv

-----------------------------------------------------------------------------
(* Theorems *)

\* A run in which the line clock has just ticked for the first time.
LEMMA InitIInv == Init => IInv
<1> SUFFICES ASSUME Init PROVE IInv
  OBVIOUS
<1>1. <<>> \in Seq(UNITS) /\ Tick \in UNITS \cup {Tick}
  OBVIOUS
<1>2. agenda \in Seq(UNITS \cup {Tick}) /\ Len(agenda) = 1 /\ agenda[1] = Tick
  BY <1>1 DEF Init
<1>3. Once(agenda) /\ Agenda = {Tick}
  <2>1. \A x : x \in Agenda <=> \E i \in 1 .. Len(agenda) : agenda[i] = x
    BY <1>2, Members DEF Agenda
  <2>2. \A i \in 1 .. Len(agenda) : i = 1
    BY <1>2
  <2>3. 1 \in 1 .. Len(agenda)
    BY <1>2
  <2> QED
    BY <1>2, <2>1, <2>2, <2>3 DEF Once
<1>4. /\ Once(cosched) /\ Once(gathered) /\ Coscheduled = {} /\ Dispatched = {}
      /\ cosched = <<>> /\ gathered = <<>>
  <2>1. cosched = <<>> /\ gathered = <<>> /\ Len(<<>>) = 0
    BY DEF Init
  <2>2. cosched \in Seq(UNITS) /\ gathered \in Seq(UNITS)
    BY <2>1
  <2>3. /\ \A x : x \in Coscheduled <=> \E i \in 1 .. Len(cosched) : cosched[i] = x
        /\ \A x : x \in Dispatched <=> \E i \in 1 .. Len(gathered) : gathered[i] = x
    BY <2>2, Members DEF Coscheduled, Dispatched
  <2>4. \A i \in 1 .. 0 : FALSE
    OBVIOUS
  <2> QED
    BY <2>1, <2>3, <2>4 DEF Once
<1>5. TypeOK
  <2>1. 1 \in 0 .. Hz - 1
    OBVIOUS
  <2>2. wait \in [UNITS \cup {Tick} -> Int]
    BY DEF Init
  <2>3. call \in Calls /\ ctx \in Contexts
    BY DEF Init, Calls, Contexts
  <2>4. /\ time \in [UNITS -> Int] /\ bound \in [UNITS -> BOOLEAN]
        /\ remaining \in [UNITS -> Nat] /\ due \in [UNITS -> Int] /\ left \in [UNITS -> Nat]
    BY DEF Init
  <2>5. /\ cosched = <<>> /\ gathered = <<>> /\ interval = 0 /\ rtc_ticks = 1
        /\ assist \in BOOLEAN /\ cut \in BOOLEAN /\ rtc_hz \in {0, Hz}
    BY DEF Init
  <2>6. rtc_ticks \in 0 .. Hz - 1 /\ interval \in Int
    BY <2>1, <2>5
  <2> QED
    BY <1>1, <1>2, <2>2, <2>3, <2>4, <2>5, <2>6 DEF TypeOK
<1>6. Apart
  BY <1>3, <1>4 DEF Apart
<1>7. Places
  BY <1>3, <1>4 DEF Places, Init
<1>8. CallSound
  BY DEF Init, CallSound, NoCall
<1>9. RemnantScheduled
  BY DEF Init, RemnantScheduled
<1> QED
  BY <1>5, <1>6, <1>7, <1>8, <1>9 DEF IInv

\* Every step of the simulator, the timer and the units keeps the invariant.
LEMMA Inductive == IInv /\ [Next]_vars => IInv'
<1> SUFFICES ASSUME IInv, [Next]_vars PROVE IInv'
  OBVIOUS
<1>1. CASE Calling
  <2>1. PICK u \in UNITS :
          \/ \E n \in Ticks : sim_clock_coschedule(u, n)
          \/ \E d \in Delays : sim_activate_after(u, d)
          \/ sim_cancel(u)
    BY <1>1 DEF Calling
  <2>2. Ticks \subseteq Nat /\ Delays \subseteq Nat
    OBVIOUS
  <2>3. CASE \E n \in Ticks : sim_clock_coschedule(u, n)
    BY <2>2, <2>3, CoscheduleStep
  <2>4. CASE \E d \in Delays : sim_activate_after(u, d)
    BY <2>2, <2>4, ActivateStep
  <2>5. CASE sim_cancel(u)
    BY <2>5, CancelStep
  <2> QED
    BY <2>1, <2>3, <2>4, <2>5
<1>2. CASE ScanOn \/ Link \/ Execute
  BY <1>2, ScanStep, LinkStep, ExecuteStep
<1>3. CASE Ticking
  BY <1>3, TickServiceStep, ClockServiceStep, GatherStep, DispatchStep, DispatchDoneStep
  DEF Ticking
<1>4. CASE Firing
  BY <1>4, FireRemnantStep, FireUnitStep DEF Firing
<1>5. CASE StopServices \/ StopMove \/ StopDone \/ StartServices
  BY <1>5, StopServicesStep, StopMoveStep, DoneStep
<1>6. CASE UNCHANGED vars
  <2>1. /\ TypeOK' /\ Coscheduled' = Coscheduled /\ Dispatched' = Dispatched /\ Agenda' = Agenda
        /\ UNCHANGED <<cosched, gathered, agenda, bound, remaining, ctx, call>>
    BY <1>6 DEF IInv, TypeOK, vars, lists, stdq, clk, Coscheduled, Dispatched, Agenda
  <2>2. Apart' /\ Places'
    BY <2>1 DEF IInv, Apart, Places
  <2>3. CallSound' /\ RemnantScheduled'
    BY <2>1 DEF IInv, CallSound, RemnantScheduled, sim_is_active, Dispatched, Agenda
  <2> QED
    BY <2>1, <2>2, <2>3 DEF IInv
<1> QED
  BY <1>1, <1>2, <1>3, <1>4, <1>5, <1>6 DEF Next

LEMMA IInvAlways == Spec => []IInv
  BY InitIInv, Inductive, PTL DEF Spec

\* Every variable keeps its type: what waits is never given a negative rest,
\* and the ticks since the last calibration stay below the number of one.
THEOREM TypeCorrect == Spec => []TypeOK
<1>1. IInv => TypeOK
  BY DEF IInv
<1> QED
  BY <1>1, IInvAlways, PTL

\* A unit is on one of the three lists at most, and once, whatever is started,
\* cancelled, stopped or served in between; its cancel routine fits its list.
THEOREM ListsApart == Spec => []OneList
<1>1. IInv => OneList
  <2> SUFFICES ASSUME IInv PROVE OneList
    OBVIOUS
  <2> DEFINE S == UNITS \cup {Tick}
             two == cosched \o gathered
             all == two \o agenda
  <2>1. /\ cosched \in Seq(UNITS) /\ gathered \in Seq(UNITS) /\ agenda \in Seq(S)
        /\ Apart /\ Places
    BY DEF IInv, TypeOK
  <2>2. two \in Seq(UNITS) /\ ToSet(two) = Coscheduled \cup Dispatched /\ Once(two)
    BY <2>1, ConcatOnce DEF Apart, Coscheduled, Dispatched
  <2>3. two \in Seq(S) /\ ToSet(two) \cap ToSet(agenda) = {} /\ Once(agenda)
    <3>1. Seq(UNITS) \subseteq Seq(S)
      OBVIOUS
    <3> QED
      BY <2>1, <2>2, <3>1 DEF Apart, Agenda
  <2> HIDE DEF two, S
  <2>4. Once(all)
    BY <2>1, <2>2, <2>3, ConcatOnce
  <2>5. all = cosched \o gathered \o agenda
    BY DEF two
  <2> QED
    BY <2>1, <2>4, <2>5 DEF OneList, Once, Places, Dispatched, Agenda
<1> QED
  BY <1>1, IInvAlways, PTL

\* The rest of a delay that reaches beyond a calibration always belongs to a
\* unit that is on a list, or is being put on one.
THEOREM NoDelayLost == Spec => []RemnantScheduled
<1>1. IInv => RemnantScheduled
  BY DEF IInv
<1> QED
  BY <1>1, IInvAlways, PTL

-----------------------------------------------------------------------------
(* The ticks as the code counts them *)

\* The counts b: the relative times are their differences, they are in order
\* and never ahead of the ticks still due; they agree until a cancellation.
Reckoned(b) ==
  /\ \A i \in 2 .. Len(cosched) :
       time[cosched[i]] = b[cosched[i]] - b[cosched[i - 1]]
  /\ \A i, j \in 1 .. Len(cosched) : i <= j => b[cosched[i]] <= b[cosched[j]]
  /\ \A i \in 1 .. Len(cosched) :
       b[cosched[i]] <= due[cosched[i]] /\ (~cut => b[cosched[i]] = due[cosched[i]])

\* sim_cosched_interval is the count of the first unit, and not negative but
\* while a tick gathers.
FirstUnit(b) ==
  cosched # <<>> /\ call.op # "stop" =>
    /\ b[cosched[1]] = interval
    /\ ~cut \/ call.op = "scan" => time[cosched[1]] = interval
    /\ IF ctx = "gather" THEN interval <= 0 ELSE interval >= 0

\* What a scan has added up, and that the new unit belongs behind it.
Scanned(b) ==
  call.op = "scan" =>
    /\ call.accum = IF call.prv = 0 THEN 0 ELSE b[cosched[call.prv]]
    /\ \A i \in 1 .. call.prv : b[cosched[i]] <= call.ticks

Counts(b) == Reckoned(b) /\ FirstUnit(b) /\ Scanned(b)

\* There are such counts.
TicksCounted == \E b \in [UNITS -> Int] : Counts(b)

\* The places on the list.
LEMMA Positions ==
  ASSUME IInv
  PROVE  /\ TypeOK /\ Once(cosched) /\ Len(cosched) \in Nat
         /\ \A i \in 1 .. Len(cosched) : cosched[i] \in UNITS
         /\ \A i, j \in 1 .. Len(cosched) : cosched[i] = cosched[j] => i = j
         /\ cosched = <<>> <=> Len(cosched) = 0
         /\ cosched # <<>> => Head(cosched) = cosched[1] /\ Len(cosched) >= 1
         /\ \A u : u \in Coscheduled <=> \E i \in 1 .. Len(cosched) : cosched[i] = u
<1>1. cosched \in Seq(UNITS) /\ Once(cosched) /\ TypeOK
  BY DEF IInv, TypeOK, Apart
<1>2. /\ \A x : x \in Coscheduled <=> \E i \in 1 .. Len(cosched) : cosched[i] = x
      /\ cosched = <<>> <=> Len(cosched) = 0
      /\ cosched # <<>> => Head(cosched) = cosched[1]
  BY <1>1, Members DEF Coscheduled
<1> QED
  BY <1>1, <1>2 DEF Once

LEMMA PositionsNext ==
  ASSUME IInv'
  PROVE  /\ Len(cosched') \in Nat /\ (cosched' = <<>> <=> Len(cosched') = 0)
         /\ \A i \in 1 .. Len(cosched') : cosched'[i] \in UNITS
         /\ due' \in [UNITS -> Int] /\ interval' \in Int
         /\ \A v : v \in ToSet(cosched') <=> \E i \in 1 .. Len(cosched') : cosched'[i] = v
<1>1. cosched' \in Seq(UNITS) /\ due' \in [UNITS -> Int] /\ interval' \in Int
  BY DEF IInv, TypeOK
<1>2. /\ \A x : x \in ToSet(cosched') <=> \E i \in 1 .. Len(cosched') : cosched'[i] = x
      /\ cosched' = <<>> <=> Len(cosched') = 0
  BY <1>1, Members
<1> QED
  BY <1>1, <1>2

\* Steps that leave the list alone.
LEMMA CountsKept ==
  ASSUME IInv, NEW b \in [UNITS -> Int], Counts(b),
         UNCHANGED <<cosched, time, interval, cut>>,
         \A i \in 1 .. Len(cosched) : due'[cosched[i]] = due[cosched[i]],
         call' = call \/ call'.op = "stop",
         ctx' = "gather" <=> ctx = "gather"
  PROVE  Counts(b)'
<1>1. Reckoned(b)'
  BY DEF Counts, Reckoned
<1>2. FirstUnit(b)'
  BY DEF Counts, FirstUnit
<1>3. Scanned(b)'
  BY DEF Counts, Scanned
<1> QED
  BY <1>1, <1>2, <1>3 DEF Counts

\* A scan begins: the first unit's time is brought up to date.
LEMMA CountsEntered ==
  ASSUME IInv, NEW b \in [UNITS -> Int], Counts(b), call = NoCall,
         NEW u \in UNITS, NEW n \in Nat, EnterCosched(u, n),
         \A i \in 1 .. Len(cosched) : due'[cosched[i]] = due[cosched[i]],
         ctx # "gather", ctx' # "gather"
  PROVE  Counts(b)'
<1>1. /\ TypeOK /\ Len(cosched) \in Nat
      /\ \A i \in 1 .. Len(cosched) : cosched[i] \in UNITS
      /\ \A i, j \in 1 .. Len(cosched) : cosched[i] = cosched[j] => i = j
      /\ cosched = <<>> <=> Len(cosched) = 0
      /\ cosched # <<>> => Head(cosched) = cosched[1] /\ Len(cosched) >= 1
  BY Positions
<1>2. /\ call' = [op |-> "scan", unit |-> u, ticks |-> n, accum |-> 0, prv |-> 0]
      /\ UNCHANGED <<cosched, interval, cut>>
      /\ time' = IF cosched = <<>> THEN time ELSE [time EXCEPT ![cosched[1]] = interval]
      /\ time \in [UNITS -> Int]
  BY <1>1 DEF EnterCosched, TypeOK
<1>3. \A i \in 2 .. Len(cosched) : time'[cosched[i]] = time[cosched[i]]
  BY <1>1, <1>2
<1>4. cosched # <<>> => time'[cosched[1]] = interval
  BY <1>1, <1>2
<1>5. Reckoned(b)'
  BY <1>2, <1>3 DEF Counts, Reckoned
<1>6. FirstUnit(b)'
  BY <1>2, <1>4 DEF Counts, FirstUnit, NoCall
<1>7. Scanned(b)'
  BY <1>2 DEF Scanned
<1> QED
  BY <1>5, <1>6, <1>7 DEF Counts

\* sim_timer_activate_after, from an instruction, an event or a tick.
LEMMA CountsActivated ==
  ASSUME IInv, NEW b \in [UNITS -> Int], Counts(b), call = NoCall,
         NEW u \in UNITS, NEW d, NEW ag, ActivateAfter(u, d, ag),
         \A i \in 1 .. Len(cosched) : due'[cosched[i]] = due[cosched[i]],
         ctx # "gather", ctx' # "gather"
  PROVE  Counts(b)'
<1>1. TicksTilCalib - 1 \in Nat
  <2>1. rtc_ticks \in Int /\ rtc_ticks <= Hz - 1 /\ Hz \in Nat
    BY DEF IInv, TypeOK
  <2> QED
    BY <2>1 DEF TicksTilCalib
<1>2. CASE EnterCosched(u, TicksTilCalib - 1)
  BY <1>1, <1>2, CountsEntered
<1>3. CASE UNCHANGED <<cosched, time, interval, cut, call>>
  BY <1>3, CountsKept
<1> QED
  BY <1>2, <1>3 DEF ActivateAfter

LEMMA CountsScan ==
  ASSUME IInv, NEW b \in [UNITS -> Int], Counts(b), ScanOn
  PROVE  Counts(b)'
<1>1. /\ TypeOK /\ call.op = "scan" /\ ~AtPlace
      /\ UNCHANGED <<cosched, time, interval, cut, ctx, due>>
      /\ call' = [call EXCEPT !.accum = @ + time[cosched[call.prv + 1]], !.prv = @ + 1]
  BY DEF IInv, ScanOn, lists
<1>2. /\ call \in [op : {"scan"}, unit : UNITS, ticks : Nat, accum : Int, prv : Nat]
      /\ time \in [UNITS -> Int]
  BY <1>1 DEF TypeOK, Calls, NoCall
<1>3. /\ Len(cosched) \in Nat /\ \A i \in 1 .. Len(cosched) : cosched[i] \in UNITS
      /\ cosched = <<>> <=> Len(cosched) = 0
  BY Positions
<1> DEFINE p == call.prv
           c == cosched[p + 1]
<1>4. /\ p < Len(cosched) /\ call.accum + time[c] <= call.ticks
  <2>1. p < Len(cosched) /\ ~(call.ticks < call.accum + time[c])
    BY <1>1 DEF AtPlace
  <2>2. c \in UNITS
    BY <1>2, <1>3, <2>1
  <2> QED
    BY <1>2, <2>1, <2>2
<1>5. p \in Nat /\ p + 1 \in 1 .. Len(cosched) /\ c \in UNITS
  BY <1>2, <1>3, <1>4
<1>6. call.accum + time[c] = b[c]
  <2>1. CASE p = 0
    <3>1. call.accum = 0 /\ time[c] = interval /\ b[c] = interval
      BY <1>1, <1>3, <1>5, <2>1 DEF Counts, FirstUnit, Scanned
    <3> QED
      BY <1>5, <3>1
  <2>2. CASE p # 0
    <3>1. p + 1 \in 2 .. Len(cosched) /\ (p + 1) - 1 = p /\ p \in 1 .. Len(cosched)
      BY <1>3, <1>5, <2>2
    <3>2. time[c] = b[c] - b[cosched[p]]
      BY <3>1 DEF Counts, Reckoned
    <3>3. call.accum = b[cosched[p]] /\ cosched[p] \in UNITS
      BY <1>1, <1>3, <2>2, <3>1 DEF Counts, Scanned
    <3> QED
      BY <1>5, <3>2, <3>3
  <2> QED
    BY <2>1, <2>2
<1>7. call'.op = "scan" /\ call'.prv = p + 1 /\ call'.accum = b[c] /\ call'.ticks = call.ticks
  BY <1>1, <1>2, <1>6
<1>8. Reckoned(b)'
  BY <1>1 DEF Counts, Reckoned
<1>9. FirstUnit(b)'
  BY <1>1, <1>7 DEF Counts, FirstUnit
<1>10. Scanned(b)'
  <2>1. \A i \in 1 .. p : b[cosched[i]] <= call.ticks
    BY <1>1 DEF Counts, Scanned
  <2>2. \A i \in 1 .. p + 1 : b[cosched[i]] <= call.ticks
    <3> TAKE i \in 1 .. p + 1
    <3>1. i \in 1 .. p \/ i = p + 1
      BY <1>5
    <3> QED
      BY <1>4, <1>6, <2>1, <3>1
  <2>3. p + 1 # 0
    BY <1>5
  <2> QED
    BY <1>1, <1>7, <2>2, <2>3 DEF Scanned
<1> QED
  BY <1>8, <1>9, <1>10 DEF Counts

\* The list with the unit of the scan in its place.
LEMMA Linked ==
  ASSUME cosched \in Seq(UNITS), NEW u \in UNITS, NEW i \in 1 .. Len(cosched) + 1,
         cosched' = InsertAt(cosched, i, u)
  PROVE  /\ Len(cosched') = Len(cosched) + 1
         /\ \A j \in 1 .. Len(cosched) + 1 :
              cosched'[j] = IF j < i THEN cosched[j] ELSE IF j = i THEN u ELSE cosched[j - 1]
<1>1. /\ InsertAt(cosched, i, u) \in Seq(UNITS)
      /\ Len(InsertAt(cosched, i, u)) = Len(cosched) + 1
      /\ \A j \in 1 .. Len(cosched) + 1 :
           InsertAt(cosched, i, u)[j] =
             IF j < i THEN cosched[j] ELSE IF j = i THEN u ELSE cosched[j - 1]
  BY InsertAtIndex, SMTT(60)
<1> QED
  BY <1>1

\* The list without a unit.
LEMMA Unlinked ==
  ASSUME cosched \in Seq(UNITS), NEW i \in 1 .. Len(cosched), cosched' = RemoveAt(cosched, i)
  PROVE  /\ Len(cosched') = Len(cosched) - 1 /\ cosched' \in Seq(UNITS)
         /\ \A j \in 1 .. Len(cosched) - 1 :
              cosched'[j] = IF j < i THEN cosched[j] ELSE cosched[j + 1]
BY RemoveAtIndex

LEMMA CountsLink ==
  ASSUME IInv, NEW b \in [UNITS -> Int], Counts(b), Link
  PROVE  \E c \in [UNITS -> Int] : Counts(c)'
<1> DEFINE u == call.unit
           n == call.ticks
           p == call.prv
           t == n - call.accum
           L == Len(cosched)
<1>1. /\ TypeOK /\ call.op = "scan" /\ call' = NoCall /\ AtPlace
      /\ cosched' = InsertAt(cosched, p + 1, u)
      /\ interval' = IF p = 0 THEN t ELSE interval
      /\ due' = [due EXCEPT ![u] = n]
      /\ time' = [v \in UNITS |->
           IF v = u THEN t
           ELSE IF p < L /\ v = cosched[p + 1] THEN time[v] - t ELSE time[v]]
      /\ UNCHANGED <<cut, ctx>>
  BY DEF IInv, Link
<1>2. /\ call \in [op : {"scan"}, unit : UNITS, ticks : Nat, accum : Int, prv : Nat]
      /\ time \in [UNITS -> Int] /\ due \in [UNITS -> Int] /\ cosched \in Seq(UNITS)
  BY <1>1 DEF TypeOK, Calls, NoCall
<1>3. /\ u \in UNITS /\ n \in Nat /\ p \in Nat /\ p <= L /\ call.accum \in Int /\ t \in Int
      /\ ~sim_is_active(u)
  BY <1>1, <1>2 DEF IInv, CallSound
<1>4. /\ L \in Nat /\ \A i \in 1 .. L : cosched[i] \in UNITS
      /\ \A i, j \in 1 .. L : cosched[i] = cosched[j] => i = j
      /\ cosched = <<>> <=> L = 0
      /\ \A v : v \in Coscheduled <=> \E i \in 1 .. L : cosched[i] = v
  BY Positions
<1>5. \A i \in 1 .. L : cosched[i] # u
  BY <1>3, <1>4 DEF sim_is_active
<1>6. /\ Len(cosched') = L + 1
      /\ \A j \in 1 .. L + 1 :
           cosched'[j] = IF j < p + 1 THEN cosched[j] ELSE IF j = p + 1 THEN u ELSE cosched[j - 1]
  <2>1. p + 1 \in 1 .. L + 1
    BY <1>3, <1>4
  <2> QED
    BY <1>1, <1>2, <1>3, <2>1, Linked
\* What the scan has found.
<1>7. /\ \A i \in 1 .. p : b[cosched[i]] <= n
      /\ call.accum = IF p = 0 THEN 0 ELSE b[cosched[p]]
  BY <1>1 DEF Counts, Scanned
<1>8. p < L => b[cosched[p + 1]] = call.accum + time[cosched[p + 1]] /\ n < b[cosched[p + 1]]
  <2> SUFFICES ASSUME p < L
               PROVE  b[cosched[p + 1]] = call.accum + time[cosched[p + 1]] /\ n < b[cosched[p + 1]]
    OBVIOUS
  <2>1. p + 1 \in 1 .. L /\ cosched[p + 1] \in UNITS
    BY <1>3, <1>4
  <2>2. n < call.accum + time[cosched[p + 1]]
    BY <1>1 DEF AtPlace
  <2>3. b[cosched[p + 1]] = call.accum + time[cosched[p + 1]]
    <3>1. CASE p = 0
      <4>1. time[cosched[1]] = interval /\ b[cosched[1]] = interval /\ call.accum = 0
        BY <1>1, <1>4, <1>7, <2>1, <3>1 DEF Counts, FirstUnit
      <4> QED
        BY <2>1, <3>1, <4>1, <1>2
    <3>2. CASE p # 0
      <4>1. p + 1 \in 2 .. L /\ p + 1 - 1 = p /\ cosched[p] \in UNITS
        BY <1>3, <1>4, <2>1, <3>2
      <4>2. time[cosched[p + 1]] = b[cosched[p + 1]] - b[cosched[p]]
        BY <1>3, <4>1 DEF Counts, Reckoned
      <4> QED
        BY <1>7, <2>1, <3>2, <4>1, <4>2
    <3> QED
      BY <3>1, <3>2
  <2> QED
    BY <2>2, <2>3
<1>9. \A i \in p + 1 .. L : n <= b[cosched[i]]
  <2> TAKE i \in p + 1 .. L
  <2>1. p + 1 <= i /\ p + 1 \in 1 .. L /\ i \in 1 .. L /\ p < L
    BY <1>3, <1>4
  <2>2. b[cosched[p + 1]] <= b[cosched[i]]
    BY <2>1 DEF Counts, Reckoned
  <2> QED
    BY <1>3, <1>4, <1>8, <2>1, <2>2
<1>10. PICK c \in [UNITS -> Int] : c[u] = n /\ \A i \in 1 .. L : c[cosched[i]] = b[cosched[i]]
  <2>1. [b EXCEPT ![u] = n] \in [UNITS -> Int]
    BY <1>3
  <2> QED
    BY <1>3, <1>4, <1>5, <2>1
<1>11. /\ time'[u] = t /\ due'[u] = n
       /\ \A i \in 1 .. L : due'[cosched[i]] = due[cosched[i]]
       /\ \A i \in 1 .. L : i # p + 1 => time'[cosched[i]] = time[cosched[i]]
       /\ p < L => time'[cosched[p + 1]] = time[cosched[p + 1]] - t
  <2>1. time'[u] = t /\ due'[u] = n
    BY <1>1, <1>2, <1>3
  <2>2. \A i \in 1 .. L : due'[cosched[i]] = due[cosched[i]]
    BY <1>1, <1>2, <1>4, <1>5
  <2>3. \A i \in 1 .. L : i # p + 1 => time'[cosched[i]] = time[cosched[i]]
    <3> SUFFICES ASSUME NEW i \in 1 .. L, i # p + 1
                 PROVE  time'[cosched[i]] = time[cosched[i]]
      OBVIOUS
    <3>1. ~(p < L /\ cosched[i] = cosched[p + 1])
      BY <1>3, <1>4
    <3> QED
      BY <1>1, <1>4, <1>5, <3>1
  <2>4. p < L => time'[cosched[p + 1]] = time[cosched[p + 1]] - t
    <3> SUFFICES ASSUME p < L PROVE time'[cosched[p + 1]] = time[cosched[p + 1]] - t
      OBVIOUS
    <3>1. p + 1 \in 1 .. L
      BY <1>3, <1>4
    <3> QED
      BY <1>1, <1>4, <1>5, <3>1
  <2> QED
    BY <2>1, <2>2, <2>3, <2>4
<1>12. \A i \in 1 .. L : time[cosched[i]] \in Int /\ b[cosched[i]] \in Int /\ due[cosched[i]] \in Int
  BY <1>2, <1>4
<1> HIDE DEF t, n, p, u, L
<1>13. \A j \in 2 .. L + 1 : time'[cosched'[j]] = c[cosched'[j]] - c[cosched'[j - 1]]
  <2> TAKE j \in 2 .. L + 1
  <2>1. CASE j < p + 1
    <3>1. /\ cosched'[j] = cosched[j] /\ cosched'[j - 1] = cosched[j - 1]
          /\ j \in 2 .. L /\ j \in 1 .. L /\ j - 1 \in 1 .. L /\ j # p + 1
      BY <1>3, <1>4, <1>6, <2>1
    <3>2. time[cosched[j]] = b[cosched[j]] - b[cosched[j - 1]]
      BY <3>1 DEF Counts, Reckoned, L
    <3> QED
      BY <1>10, <1>11, <3>1, <3>2
  <2>2. CASE j = p + 1
    <3>1. /\ cosched'[j] = u /\ cosched'[j - 1] = cosched[p] /\ p \in 1 .. L /\ p # 0
      BY <1>3, <1>4, <1>6, <2>2
    <3>2. t = n - b[cosched[p]]
      BY <1>7, <3>1 DEF t
    <3> QED
      BY <1>10, <1>11, <3>1, <3>2
  <2>3. CASE j = p + 2
    <3>1. /\ cosched'[j] = cosched[p + 1] /\ cosched'[j - 1] = u /\ p < L /\ p + 1 \in 1 .. L
      BY <1>3, <1>4, <1>6, <2>3
    <3>2. /\ b[cosched[p + 1]] = call.accum + time[cosched[p + 1]]
          /\ time'[cosched[p + 1]] = time[cosched[p + 1]] - t
      BY <1>8, <1>11, <3>1
    <3>3. time[cosched[p + 1]] - t = b[cosched[p + 1]] - n
      BY <1>3, <1>12, <3>1, <3>2 DEF t
    <3> QED
      BY <1>10, <3>1, <3>2, <3>3
  <2>4. CASE j > p + 2
    <3>1. /\ cosched'[j] = cosched[j - 1] /\ cosched'[j - 1] = cosched[(j - 1) - 1]
          /\ j - 1 \in 2 .. L /\ j - 1 \in 1 .. L /\ (j - 1) - 1 \in 1 .. L /\ j - 1 # p + 1
      BY <1>3, <1>4, <1>6, <2>4
    <3>2. time[cosched[j - 1]] = b[cosched[j - 1]] - b[cosched[(j - 1) - 1]]
      BY <3>1 DEF Counts, Reckoned, L
    <3> QED
      BY <1>10, <1>11, <3>1, <3>2
  <2>5. j < p + 1 \/ j = p + 1 \/ j = p + 2 \/ j > p + 2
    BY <1>3
  <2> QED
    BY <2>1, <2>2, <2>3, <2>4, <2>5
<1>14. \A i, j \in 1 .. L + 1 : i <= j => c[cosched'[i]] <= c[cosched'[j]]
  <2>1. \A i, j \in 1 .. L : i <= j => b[cosched[i]] <= b[cosched[j]]
    BY DEF Counts, Reckoned, L
  <2> SUFFICES ASSUME NEW i \in 1 .. L + 1, NEW j \in 1 .. L + 1, i < j
               PROVE  c[cosched'[i]] <= c[cosched'[j]]
    <3>1. \A i \in 1 .. L + 1 : c[cosched'[i]] \in Int
      <4> TAKE i \in 1 .. L + 1
      <4>1. cosched'[i] \in UNITS
        BY <1>3, <1>4, <1>6
      <4> QED
        BY <1>10, <4>1
    <3>2. \A i \in 1 .. L + 1 : c[cosched'[i]] <= c[cosched'[i]]
      BY <3>1
    <3> QED
      BY <1>4, <3>2
  <2>2. CASE j < p + 1
    <3>1. cosched'[i] = cosched[i] /\ cosched'[j] = cosched[j] /\ i \in 1 .. L /\ j \in 1 .. L
      BY <1>3, <1>4, <1>6, <2>2
    <3> QED
      BY <1>10, <2>1, <3>1
  <2>3. CASE j = p + 1
    <3>1. cosched'[i] = cosched[i] /\ cosched'[j] = u /\ i \in 1 .. L /\ i \in 1 .. p
      BY <1>3, <1>4, <1>6, <2>3
    <3> QED
      BY <1>7, <1>10, <3>1
  <2>4. CASE j > p + 1
    <3>1. cosched'[j] = cosched[j - 1] /\ j - 1 \in 1 .. L /\ j - 1 \in p + 1 .. L
      BY <1>3, <1>4, <1>6, <2>4
    <3>2. CASE i < p + 1
      <4>1. cosched'[i] = cosched[i] /\ i \in 1 .. L /\ i <= j - 1
        BY <1>3, <1>4, <1>6, <3>2
      <4> QED
        BY <1>10, <2>1, <3>1, <4>1
    <3>3. CASE i = p + 1
      BY <1>6, <1>9, <1>10, <3>1, <3>3
    <3>4. CASE i > p + 1
      <4>1. cosched'[i] = cosched[i - 1] /\ i - 1 \in 1 .. L /\ i - 1 <= j - 1
        BY <1>3, <1>4, <1>6, <3>4
      <4> QED
        BY <1>10, <2>1, <3>1, <4>1
    <3> QED
      BY <1>3, <3>2, <3>3, <3>4
  <2> QED
    BY <1>3, <2>2, <2>3, <2>4
<1>15. \A i \in 1 .. L + 1 :
         c[cosched'[i]] <= due'[cosched'[i]] /\ (~cut => c[cosched'[i]] = due'[cosched'[i]])
  <2> TAKE i \in 1 .. L + 1
  <2>1. CASE cosched'[i] = u
    BY <1>3, <1>10, <1>11, <2>1
  <2>2. CASE \E k \in 1 .. L : cosched'[i] = cosched[k]
    <3>1. PICK k \in 1 .. L : cosched'[i] = cosched[k]
      BY <2>2
    <3>2. b[cosched[k]] <= due[cosched[k]] /\ (~cut => b[cosched[k]] = due[cosched[k]])
      BY DEF Counts, Reckoned, L
    <3> QED
      BY <1>10, <1>11, <3>1, <3>2
  <2>3. i < p + 1 => i \in 1 .. L
    BY <1>3, <1>4
  <2>4. i > p + 1 => i - 1 \in 1 .. L
    BY <1>3, <1>4
  <2>5. i < p + 1 \/ i = p + 1 \/ i > p + 1
    BY <1>3
  <2> QED
    BY <1>6, <2>1, <2>2, <2>3, <2>4, <2>5
<1>16. Reckoned(c)'
  BY <1>1, <1>6, <1>13, <1>14, <1>15 DEF Reckoned
<1>17. FirstUnit(c)'
  <2>1. ctx # "gather"
    BY <1>1 DEF IInv, CallSound, NoCall
  <2>2. 1 \in 1 .. L + 1
    BY <1>4
  <2>3. CASE p = 0
    <3>1. cosched'[1] = u
      BY <1>6, <2>2, <2>3
    <3>2. t = n
      BY <1>3, <1>7, <2>3 DEF t
    <3> QED
      BY <1>1, <1>3, <1>10, <1>11, <2>1, <2>3, <3>1, <3>2 DEF FirstUnit, NoCall
  <2>4. CASE p # 0
    <3>1. cosched'[1] = cosched[1] /\ 1 \in 1 .. L /\ cosched # <<>> /\ 1 # p + 1
      BY <1>3, <1>4, <1>6, <2>2, <2>4
    <3>2. b[cosched[1]] = interval /\ time[cosched[1]] = interval /\ interval >= 0
      BY <1>1, <2>1, <3>1 DEF Counts, FirstUnit
    <3> QED
      BY <1>1, <1>10, <1>11, <2>1, <2>4, <3>1, <3>2 DEF FirstUnit
  <2> QED
    BY <2>3, <2>4
<1>18. Scanned(c)'
  BY <1>1 DEF Scanned, NoCall
<1> QED
  BY <1>10, <1>16, <1>17, <1>18 DEF Counts

\* The first unit goes, and each of the others is counted d less.
FirstGone(b, c, d) ==
  /\ Len(cosched') = Len(cosched) - 1
  /\ \A j \in 1 .. Len(cosched) - 1 : cosched'[j] = cosched[j + 1]
  /\ \A i \in 2 .. Len(cosched) :
       c[cosched[i]] = b[cosched[i]] - d /\ due'[cosched[i]] = due[cosched[i]]
  /\ \A i \in 3 .. Len(cosched) : time'[cosched[i]] = time[cosched[i]]
  /\ ~cut' /\ Len(cosched) > 1 => ~cut /\ d = 0

LEMMA Behind ==
  ASSUME IInv, NEW b \in [UNITS -> Int], Counts(b), cosched # <<>>,
         NEW c \in [UNITS -> Int], NEW d \in Int, d >= 0, FirstGone(b, c, d)
  PROVE  Reckoned(c)'
<1> DEFINE L == Len(cosched)
<1>1. /\ L \in Nat \ {0} /\ \A i \in 1 .. L : cosched[i] \in UNITS
      /\ cosched \in Seq(UNITS) /\ due \in [UNITS -> Int]
  BY Positions DEF TypeOK
<1>2. Len(cosched') = L - 1 /\ \A j \in 1 .. L - 1 : cosched'[j] = cosched[j + 1]
  BY DEF FirstGone
<1>h. /\ \A i \in 2 .. L : c[cosched[i]] = b[cosched[i]] - d /\ due'[cosched[i]] = due[cosched[i]]
      /\ \A i \in 3 .. L : time'[cosched[i]] = time[cosched[i]]
      /\ ~cut' /\ L > 1 => ~cut /\ d = 0
  BY DEF FirstGone
<1> HIDE DEF L
<1>3. \A j \in 2 .. L - 1 : time'[cosched'[j]] = c[cosched'[j]] - c[cosched'[j - 1]]
  <2> TAKE j \in 2 .. L - 1
  <2>1. /\ j + 1 \in 3 .. L /\ j + 1 \in 2 .. L /\ j \in 2 .. L /\ j - 1 \in 1 .. L - 1
        /\ j \in 1 .. L - 1 /\ j + 1 - 1 = j /\ (j - 1) + 1 = j /\ j \in 1 .. L /\ j + 1 \in 1 .. L
    BY <1>1
  <2>2. cosched'[j] = cosched[j + 1] /\ cosched'[j - 1] = cosched[j]
    BY <1>2, <2>1
  <2>3. time[cosched[j + 1]] = b[cosched[j + 1]] - b[cosched[j]]
    BY <2>1 DEF Counts, Reckoned, L
  <2>4. b[cosched[j + 1]] \in Int /\ b[cosched[j]] \in Int
    BY <1>1, <2>1
  <2>5. /\ time'[cosched'[j]] = b[cosched[j + 1]] - b[cosched[j]]
        /\ c[cosched'[j]] = b[cosched[j + 1]] - d /\ c[cosched'[j - 1]] = b[cosched[j]] - d
    BY <1>h, <2>1, <2>2, <2>3
  <2> QED
    BY <2>4, <2>5
<1>4. \A i, j \in 1 .. L - 1 : i <= j => c[cosched'[i]] <= c[cosched'[j]]
  <2> SUFFICES ASSUME NEW i \in 1 .. L - 1, NEW j \in 1 .. L - 1, i <= j
               PROVE  c[cosched'[i]] <= c[cosched'[j]]
    OBVIOUS
  <2>1. /\ i + 1 \in 2 .. L /\ j + 1 \in 2 .. L /\ i + 1 \in 1 .. L /\ j + 1 \in 1 .. L
        /\ i + 1 <= j + 1
    BY <1>1
  <2>2. b[cosched[i + 1]] <= b[cosched[j + 1]]
    BY <2>1 DEF Counts, Reckoned, L
  <2>3. PICK x \in Int : x = b[cosched[i + 1]]
    BY <1>1, <2>1
  <2>4. PICK y \in Int : y = b[cosched[j + 1]]
    BY <1>1, <2>1
  <2>5. c[cosched'[i]] = x - d /\ c[cosched'[j]] = y - d /\ x <= y
    BY <1>2, <1>h, <2>1, <2>2, <2>3, <2>4
  <2>6. x - d <= y - d
    BY <2>5
  <2> QED
    BY <2>5, <2>6
<1>5. \A i \in 1 .. L - 1 : c[cosched'[i]] <= due'[cosched'[i]]
                              /\ (~cut' => c[cosched'[i]] = due'[cosched'[i]])
  <2> TAKE i \in 1 .. L - 1
  <2>1. i + 1 \in 2 .. L /\ i + 1 \in 1 .. L /\ L > 1
    BY <1>1
  <2>2. b[cosched[i + 1]] <= due[cosched[i + 1]] /\ (~cut => b[cosched[i + 1]] = due[cosched[i + 1]])
    BY <2>1 DEF Counts, Reckoned, L
  <2>3. /\ b[cosched[i + 1]] \in Int /\ due[cosched[i + 1]] \in Int
        /\ c[cosched[i + 1]] = b[cosched[i + 1]] - d
        /\ due'[cosched[i + 1]] = due[cosched[i + 1]]
        /\ cosched'[i] = cosched[i + 1]
    BY <1>1, <1>2, <1>h, <2>1
  <2>4. ~cut' => ~cut /\ d = 0
    BY <1>h, <2>1
  <2>5. PICK x \in Int : x = b[cosched[i + 1]]
    BY <2>3
  <2>6. PICK y \in Int : y = due[cosched[i + 1]]
    BY <2>3
  <2>7. c[cosched'[i]] = x - d /\ due'[cosched'[i]] = y
    BY <2>3, <2>5, <2>6
  <2>8. x <= y /\ (~cut' => x = y /\ d = 0)
    BY <2>2, <2>4, <2>5, <2>6
  <2>9. x - d <= y /\ (d = 0 => x - d = x)
    BY <2>8
  <2> QED
    BY <2>7, <2>8, <2>9
<1>6. Reckoned(c)'
  BY <1>2, <1>3, <1>4, <1>5 DEF Reckoned
<1> QED
  BY <1>6

LEMMA CountsGather ==
  ASSUME IInv, NEW b \in [UNITS -> Int], Counts(b), Gather
  PROVE  Counts(b)'
<1> DEFINE L == Len(cosched)
           rest == Tail(cosched)
           next == IF rest = <<>> THEN 0 ELSE time[Head(rest)] + interval
<1>1. /\ ctx = "gather" /\ call = NoCall /\ cosched # <<>> /\ call' = NoCall
      /\ cosched \in Seq(UNITS) /\ time \in [UNITS -> Int] /\ interval \in Int
  BY DEF IInv, CallSound, TypeOK, Gather
<1>2. /\ cosched' = rest /\ interval' = next
      /\ ctx' = IF rest # <<>> /\ GatherOn(next) THEN "gather" ELSE "dispatch"
      /\ cut' = (cut /\ rest # <<>>)
      /\ UNCHANGED <<call, due>>
      /\ time' = [v \in UNITS |->
           IF v = Head(cosched) THEN 0
           ELSE IF rest # <<>> /\ v = Head(rest) THEN next ELSE time[v]]
  BY DEF Gather
<1>3. /\ L \in Nat \ {0} /\ \A i \in 1 .. L : cosched[i] \in UNITS
      /\ \A i, j \in 1 .. L : cosched[i] = cosched[j] => i = j
      /\ Head(cosched) = cosched[1]
  BY <1>1, Positions
<1>4. /\ rest \in Seq(UNITS) /\ Len(rest) = L - 1 /\ \A j \in 1 .. L - 1 : rest[j] = cosched[j + 1]
  BY <1>1, TailIndex
<1> HIDE DEF L, rest
<1>5. /\ rest = <<>> <=> L = 1
      /\ rest # <<>> => Head(rest) = cosched[2] /\ 2 \in 1 .. L /\ 2 \in 2 .. L
  <2>1. /\ rest = <<>> <=> Len(rest) = 0
        /\ rest # <<>> => Head(rest) = rest[1]
    BY <1>4, Members
  <2>2. rest = <<>> <=> L = 1
    BY <1>3, <1>4, <2>1
  <2>3. rest # <<>> => 1 \in 1 .. L - 1
    BY <1>3, <2>2
  <2> QED
    BY <1>3, <1>4, <2>1, <2>2, <2>3
<1>6. \A i \in 3 .. L : time'[cosched[i]] = time[cosched[i]]
  <2> TAKE i \in 3 .. L
  <2>1. i \in 1 .. L /\ cosched[i] # cosched[1]
    BY <1>3
  <2>2. rest # <<>> => cosched[i] # Head(rest)
    BY <1>3, <1>5, <2>1
  <2> QED
    BY <1>2, <1>3, <2>1, <2>2
<1>7. rest # <<>> => next = b[cosched[2]] /\ time'[cosched[2]] = next
  <2> SUFFICES ASSUME rest # <<>> PROVE next = b[cosched[2]] /\ time'[cosched[2]] = next
    OBVIOUS
  <2>1. Head(rest) = cosched[2] /\ cosched[2] \in UNITS /\ cosched[2] # cosched[1]
    BY <1>3, <1>5
  <2>2. b[cosched[1]] = interval
    BY <1>1 DEF Counts, FirstUnit, NoCall
  <2>3. time[cosched[2]] = b[cosched[2]] - b[cosched[1]]
    <3>1. 2 - 1 = 1 /\ 2 \in 2 .. L
      BY <1>5
    <3>2. time[cosched[2]] = b[cosched[2]] - b[cosched[2 - 1]]
      BY <3>1 DEF Counts, Reckoned, L
    <3> QED
      BY <3>1, <3>2
  <2>4. next = b[cosched[2]]
    <3>1. b[cosched[2]] \in Int /\ b[cosched[1]] \in Int
      <4>1. 1 \in 1 .. L
        BY <1>3
      <4> QED
        BY <1>3, <2>1, <4>1
    <3>2. next = time[cosched[2]] + interval
      BY <2>1
    <3> HIDE DEF next
    <3> QED
      BY <2>2, <2>3, <3>1, <3>2
  <2> QED
    BY <1>2, <1>3, <2>1, <2>4
<1>8. /\ Reckoned(b)' /\ Len(cosched') = L - 1
      /\ \A j \in 1 .. L - 1 : cosched'[j] = cosched[j + 1]
  <2>1. \A i \in 2 .. L : b[cosched[i]] = b[cosched[i]] - 0
    <3> TAKE i \in 2 .. L
    <3>1. i \in 1 .. L
      OBVIOUS
    <3>2. b[cosched[i]] \in Int
      BY <1>3, <3>1
    <3> QED
      BY <3>2
  <2>2. ~cut' /\ L > 1 => ~cut
    <3>1. L > 1 => rest # <<>>
      BY <1>3, <1>5
    <3>2. cut' = (cut /\ rest # <<>>)
      BY <1>2
    <3> QED
      BY <3>1, <3>2, Zenon
  <2>3. /\ Len(cosched') = L - 1 /\ \A j \in 1 .. L - 1 : cosched'[j] = cosched[j + 1]
        /\ \A i \in 2 .. L : due'[cosched[i]] = due[cosched[i]]
    BY <1>2, <1>4
  <2>4. 0 \in Int /\ 0 >= 0
    OBVIOUS
  <2>5. Reckoned(b)'
    BY <1>1, <1>6, <2>1, <2>2, <2>3, <2>4, Behind DEF L, FirstGone
  <2> QED
    BY <2>3, <2>5
<1>9. FirstUnit(b)'
  <2> SUFFICES ASSUME rest # <<>>
               PROVE  /\ b[cosched'[1]] = interval' /\ time'[cosched'[1]] = interval'
                      /\ IF ctx' = "gather" THEN interval' <= 0 ELSE interval' >= 0
    BY <1>2 DEF FirstUnit
  <2>1. cosched'[1] = cosched[2] /\ cosched[2] \in UNITS
    <3>1. 1 \in 1 .. L - 1 /\ 1 + 1 = 2
      BY <1>3, <1>5
    <3> QED
      BY <1>3, <1>5, <1>8, <3>1
  <2>2. next \in Int
    BY <1>7, <2>1
  <2> HIDE DEF next
  <2>3. IF ctx' = "gather" THEN next <= 0 ELSE next >= 0
    BY <1>2, <2>2 DEF GatherOn
  <2> QED
    BY <1>2, <1>7, <2>1, <2>3
<1>10. Scanned(b)'
  BY <1>1 DEF Scanned, NoCall
<1> QED
  BY <1>8, <1>9, <1>10 DEF Counts

LEMMA CountsStopMove ==
  ASSUME IInv, NEW b \in [UNITS -> Int], Counts(b), StopMove
  PROVE  Counts(b)'
<1>1. /\ call.op = "stop" /\ cosched # <<>> /\ cosched' = Tail(cosched)
      /\ call' = [call EXCEPT !.accum = call.accum + time[Head(cosched)]]
      /\ time' = [time EXCEPT ![Head(cosched)] = 0]
      /\ due' = [due EXCEPT ![Head(cosched)] = 0]
      /\ cut' = (cut /\ cosched' # <<>>)
      /\ time \in [UNITS -> Int] /\ due \in [UNITS -> Int] /\ call \in Calls
  BY DEF IInv, TypeOK, StopMove
<1>2. /\ Len(cosched) \in Nat \ {0} /\ \A i \in 1 .. Len(cosched) : cosched[i] \in UNITS
      /\ \A i, j \in 1 .. Len(cosched) : cosched[i] = cosched[j] => i = j
      /\ Head(cosched) = cosched[1] /\ cosched \in Seq(UNITS)
  BY <1>1, Positions DEF TypeOK
<1>3. call'.op = "stop"
  BY <1>1 DEF Calls, NoCall
<1>4. \A i \in 2 .. Len(cosched) :
        /\ b[cosched[i]] = b[cosched[i]] - 0
        /\ due'[cosched[i]] = due[cosched[i]] /\ time'[cosched[i]] = time[cosched[i]]
  <2> TAKE i \in 2 .. Len(cosched)
  <2>1. i \in 1 .. Len(cosched) /\ 1 \in 1 .. Len(cosched) /\ i # 1
    BY <1>2
  <2>2. cosched[i] \in UNITS /\ cosched[i] # cosched[1]
    BY <1>2, <2>1
  <2>3. b[cosched[i]] \in Int
    BY <2>2
  <2>4. b[cosched[i]] = b[cosched[i]] - 0
    BY <2>3
  <2>5. due'[cosched[i]] = due[cosched[i]] /\ time'[cosched[i]] = time[cosched[i]]
    BY <1>1, <1>2, <2>2
  <2> QED
    BY <2>4, <2>5
<1>5. \A i \in 3 .. Len(cosched) : i \in 2 .. Len(cosched)
  BY <1>2
<1>6. ~cut' /\ Len(cosched) > 1 => ~cut
  <2>1. Len(cosched') = Len(cosched) - 1 /\ cosched' \in Seq(UNITS)
    BY <1>1, <1>2, TailIndex
  <2>2. cosched' = <<>> => Len(cosched') = 0
    OBVIOUS
  <2>3. Len(cosched) > 1 => cosched' # <<>>
    BY <1>2, <2>1, <2>2
  <2> QED
    BY <1>1, <2>3
<1>7. Reckoned(b)'
  <2>1. /\ 0 \in Int /\ 0 >= 0
        /\ \A i \in 2 .. Len(cosched) : b[cosched[i]] = b[cosched[i]] - 0
        /\ \A i \in 2 .. Len(cosched) : due'[cosched[i]] = due[cosched[i]]
        /\ \A i \in 3 .. Len(cosched) : time'[cosched[i]] = time[cosched[i]]
        /\ ~cut' /\ Len(cosched) > 1 => ~cut /\ 0 = 0
    BY <1>4, <1>5, <1>6
  <2>2. /\ Len(cosched') = Len(cosched) - 1
        /\ \A j \in 1 .. Len(cosched) - 1 : cosched'[j] = cosched[j + 1]
    BY <1>1, <1>2, TailIndex
  <2>3. FirstGone(b, b, 0)
    BY <2>1, <2>2 DEF FirstGone
  <2> QED
    BY <1>1, <2>1, <2>3, Behind
<1> QED
  BY <1>3, <1>7 DEF Counts, FirstUnit, Scanned

LEMMA CountsStopDone ==
  ASSUME IInv, NEW b \in [UNITS -> Int], Counts(b), StopDone
  PROVE  Counts(b)'
<1>1. cosched = <<>> /\ cosched' = <<>> /\ call' = NoCall /\ Len(cosched) = 0
  BY DEF StopDone
<1>2. \A i \in 1 .. 0 : FALSE
  OBVIOUS
<1>3. \A i \in 2 .. 0 : FALSE
  OBVIOUS
<1> QED
  BY <1>1, <1>2, <1>3 DEF Counts, Reckoned, FirstUnit, Scanned, NoCall

\* _sim_coschedule_cancel of the first unit.
LEMMA CountsCancelFirst ==
  ASSUME IInv, NEW b \in [UNITS -> Int], Counts(b), call = NoCall, ctx # "gather",
         cosched # <<>>, CoschedCancelAt(1), UNCHANGED <<call, ctx>>,
         due' = [due EXCEPT ![cosched[1]] = 0]
  PROVE  \E c \in [UNITS -> Int] : Counts(c)'
<1> DEFINE L == Len(cosched)
<1>1. /\ L \in Nat \ {0} /\ \A i \in 1 .. L : cosched[i] \in UNITS
      /\ \A i, j \in 1 .. L : cosched[i] = cosched[j] => i = j
      /\ cosched \in Seq(UNITS) /\ time \in [UNITS -> Int] /\ due \in [UNITS -> Int]
      /\ Head(cosched) = cosched[1]
  BY Positions DEF TypeOK
<1>2. /\ cosched' = RemoveAt(cosched, 1) /\ interval' = interval
      /\ time' = [u \in UNITS |->
           IF u = cosched[1] THEN 0
           ELSE IF 1 < L /\ u = cosched[2] THEN time[u] + time[cosched[1]] ELSE time[u]]
      /\ cut' = (cosched' # <<>> /\ (cut \/ time'[Head(cosched')] # time[Head(cosched)]))
  BY DEF CoschedCancelAt
<1>3. 1 \in 1 .. L
  BY <1>1
<1>4. /\ Len(cosched') = L - 1 /\ cosched' \in Seq(UNITS)
      /\ \A j \in 1 .. L - 1 : cosched'[j] = cosched[j + 1]
  BY <1>1, <1>2, <1>3, Unlinked
<1>5. \A i \in 2 .. L : i \in 1 .. L /\ cosched[i] \in UNITS /\ cosched[i] # cosched[1]
  BY <1>1, <1>3
<1>6. cosched' # <<>> => L > 1 /\ 2 \in 2 .. L /\ Head(cosched') = cosched[2] /\ cosched'[1] = cosched[2]
  <2>1. cosched' = <<>> <=> Len(cosched') = 0
    BY <1>4, Members
  <2>2. cosched' # <<>> => Head(cosched') = cosched'[1]
    BY <1>4, Members
  <2> HIDE DEF L
  <2>3. cosched' # <<>> => L > 1 /\ 2 \in 2 .. L /\ 1 \in 1 .. L - 1
    BY <1>1, <1>4, <2>1
  <2> QED
    BY <1>4, <2>2, <2>3
<1> DEFINE d == IF L > 1 THEN time[cosched[2]] ELSE 0
<1>7. L > 1 => /\ 2 \in 2 .. L /\ time[cosched[2]] = b[cosched[2]] - b[cosched[1]]
               /\ b[cosched[1]] <= b[cosched[2]]
  <2> SUFFICES ASSUME L > 1
               PROVE  /\ 2 \in 2 .. L /\ time[cosched[2]] = b[cosched[2]] - b[cosched[1]]
                      /\ b[cosched[1]] <= b[cosched[2]]
    OBVIOUS
  <2>1. 2 \in 2 .. L /\ 2 \in 1 .. L /\ 2 - 1 = 1
    BY <1>1
  <2>2. time[cosched[2]] = b[cosched[2]] - b[cosched[2 - 1]]
    BY <2>1 DEF Counts, Reckoned
  <2>3. b[cosched[1]] <= b[cosched[2]]
    BY <1>3, <2>1 DEF Counts, Reckoned
  <2> QED
    BY <2>1, <2>2, <2>3
<1>8. b[cosched[1]] = interval /\ interval >= 0 /\ (~cut => time[cosched[1]] = interval)
  BY DEF Counts, FirstUnit, NoCall
<1>9. d \in Int /\ d >= 0
  <2>1. CASE L > 1
    <3>1. b[cosched[1]] \in Int /\ b[cosched[2]] \in Int
      BY <1>1, <1>3, <1>5, <1>7, <2>1
    <3>2. d = b[cosched[2]] - b[cosched[1]]
      BY <1>7, <2>1
    <3> HIDE DEF d
    <3> QED
      BY <1>7, <2>1, <3>1, <3>2
  <2>2. CASE ~(L > 1)
    BY <2>2
  <2> QED
    BY <2>1, <2>2
<1> HIDE DEF L
<1>10. PICK c \in [UNITS -> Int] : \A v \in UNITS : c[v] = b[v] - d
  <2> HIDE DEF d
  <2>1. [v \in UNITS |-> b[v] - d] \in [UNITS -> Int]
    BY <1>9
  <2> QED
    BY <2>1
<1>11. \A i \in 3 .. L : time'[cosched[i]] = time[cosched[i]]
  <2> TAKE i \in 3 .. L
  <2>1. i \in 2 .. L /\ 2 \in 1 .. L /\ i \in 1 .. L /\ i # 2
    BY <1>1
  <2>2. cosched[i] # cosched[1] /\ cosched[i] # cosched[2] /\ cosched[i] \in UNITS
    BY <1>1, <1>5, <2>1
  <2> QED
    BY <1>2, <2>2
<1>12. L > 1 => cosched' # <<>> /\ time'[cosched[2]] = d + time[cosched[1]]
  <2> SUFFICES ASSUME L > 1 PROVE cosched' # <<>> /\ time'[cosched[2]] = d + time[cosched[1]]
    OBVIOUS
  <2>1. cosched' # <<>>
    <3>1. L - 1 # 0
      BY <1>1
    <3> QED
      BY <1>4, <3>1
  <2>2. cosched[2] \in UNITS /\ cosched[2] # cosched[1]
    BY <1>5, <1>7
  <2>3. time'[cosched[2]] = time[cosched[2]] + time[cosched[1]]
    BY <1>2, <2>2 DEF L
  <2> QED
    BY <2>1, <2>3
<1>13. ~cut' /\ L > 1 => ~cut /\ d = 0
  <2> SUFFICES ASSUME ~cut', L > 1 PROVE ~cut /\ d = 0
    OBVIOUS
  <2>1. ~cut /\ time'[cosched[2]] = time[cosched[1]]
    BY <1>1, <1>2, <1>6, <1>12
  <2>2. d + time[cosched[1]] = time[cosched[1]] /\ time[cosched[1]] \in Int
    BY <1>1, <1>3, <1>12, <2>1
  <2> HIDE DEF d
  <2> QED
    BY <1>9, <2>1, <2>2
<1> HIDE DEF d
<1>14. \A i \in 2 .. L : c[cosched[i]] = b[cosched[i]] - d /\ due'[cosched[i]] = due[cosched[i]]
  BY <1>1, <1>5, <1>10
<1>15. Reckoned(c)'
  BY <1>4, <1>9, <1>11, <1>13, <1>14, Behind DEF L, FirstGone
<1>16. FirstUnit(c)'
  <2> SUFFICES ASSUME cosched' # <<>>
               PROVE  /\ c[cosched'[1]] = interval'
                      /\ ~cut' => time'[cosched'[1]] = interval'
                      /\ ctx' # "gather" /\ interval' >= 0
    BY DEF FirstUnit, NoCall
  <2>1. L > 1 /\ cosched'[1] = cosched[2] /\ cosched[2] \in UNITS
    BY <1>5, <1>6
  <2>2. b[cosched[1]] \in Int /\ b[cosched[2]] \in Int
    BY <1>1, <1>3, <2>1
  <2>3. d = b[cosched[2]] - b[cosched[1]]
    BY <1>7, <2>1 DEF d
  <2>4. c[cosched[2]] = b[cosched[1]]
    BY <1>10, <2>1, <2>2, <2>3
  <2>5. ASSUME ~cut' PROVE time'[cosched[2]] = interval
    <3>1. time'[cosched[2]] = d + time[cosched[1]] /\ d = 0 /\ time[cosched[1]] = interval
      BY <1>8, <1>12, <1>13, <2>1, <2>5
    <3>2. interval \in Int
      BY <1>8, <2>2
    <3> QED
      BY <3>1, <3>2
  <2> QED
    BY <1>2, <1>8, <2>1, <2>4, <2>5
<1>17. Scanned(c)'
  BY DEF Scanned, NoCall
<1> QED
  BY <1>10, <1>15, <1>16, <1>17 DEF Counts
\* A place on the list that is not the first.
LaterAt(k) == 2 <= k /\ k <= Len(cosched)

\* _sim_coschedule_cancel of another one: its successor gets its ticks.
LEMMA CountsCancelLater ==
  ASSUME IInv, NEW b \in [UNITS -> Int], Counts(b), call = NoCall, ctx # "gather",
         NEW k \in Nat, LaterAt(k), CoschedCancelAt(k), UNCHANGED <<call, ctx>>,
         due' = [due EXCEPT ![cosched[k]] = 0]
  PROVE  Counts(b)'
<1> DEFINE L == Len(cosched)
<1>1. /\ L \in Nat \ {0} /\ \A i \in 1 .. L : cosched[i] \in UNITS
      /\ \A i, j \in 1 .. L : cosched[i] = cosched[j] => i = j
      /\ cosched \in Seq(UNITS) /\ time \in [UNITS -> Int] /\ due \in [UNITS -> Int]
      /\ Head(cosched) = cosched[1] /\ cosched # <<>>
  <2>1. /\ Len(cosched) \in Nat /\ \A i \in 1 .. Len(cosched) : cosched[i] \in UNITS
        /\ \A i, j \in 1 .. Len(cosched) : cosched[i] = cosched[j] => i = j
        /\ cosched = <<>> <=> Len(cosched) = 0
        /\ cosched # <<>> => Head(cosched) = cosched[1]
        /\ TypeOK
    BY Positions
  <2>2. Len(cosched) # 0 /\ Len(cosched) \in Nat
    BY <2>1 DEF LaterAt
  <2>3. cosched \in Seq(UNITS) /\ time \in [UNITS -> Int] /\ due \in [UNITS -> Int]
    BY <2>1 DEF TypeOK
  <2> QED
    BY <2>1, <2>2, <2>3
<1>2. /\ cosched' = RemoveAt(cosched, k) /\ interval' = interval
      /\ time' = [u \in UNITS |->
           IF u = cosched[k] THEN 0
           ELSE IF k < L /\ u = cosched[k + 1] THEN time[u] + time[cosched[k]] ELSE time[u]]
      /\ cut' = (cosched' # <<>> /\ (cut \/ time'[Head(cosched')] # time[Head(cosched)]))
  BY DEF CoschedCancelAt
<1>3. k \in 1 .. L /\ 1 \in 1 .. L /\ k > 1 /\ k \in Nat /\ k <= L /\ L \in Nat
  BY <1>1 DEF LaterAt
<1>4. /\ Len(cosched') = L - 1 /\ cosched' \in Seq(UNITS)
      /\ \A j \in 1 .. L - 1 : cosched'[j] = IF j < k THEN cosched[j] ELSE cosched[j + 1]
  BY <1>1, <1>2, <1>3, Unlinked
<1>5. \A i \in 1 .. L : i # k => cosched[i] # cosched[k]
  BY <1>1, <1>3
<1>6. \A i \in 1 .. L : i # k => due'[cosched[i]] = due[cosched[i]]
  BY <1>1, <1>3, <1>5
<1>r. /\ \A i \in 2 .. L : time[cosched[i]] = b[cosched[i]] - b[cosched[i - 1]]
      /\ \A i, j \in 1 .. L : i <= j => b[cosched[i]] <= b[cosched[j]]
      /\ \A i \in 1 .. L : b[cosched[i]] <= due[cosched[i]] /\ (~cut => b[cosched[i]] = due[cosched[i]])
  BY DEF Counts, Reckoned
<1> HIDE DEF L
<1>7. \A i \in 1 .. L : i # k /\ i # k + 1 => time'[cosched[i]] = time[cosched[i]]
  <2> SUFFICES ASSUME NEW i \in 1 .. L, i # k, i # k + 1
               PROVE  time'[cosched[i]] = time[cosched[i]]
    OBVIOUS
  <2>1. ~(k < L /\ cosched[i] = cosched[k + 1])
    <3>1. k < L => k + 1 \in 1 .. L
      BY <1>3
    <3> QED
      BY <1>1, <3>1
  <2> QED
    BY <1>1, <1>2, <1>5, <2>1 DEF L
<1>8. k < L => /\ k + 1 \in 1 .. L
               /\ time'[cosched[k + 1]] = time[cosched[k + 1]] + time[cosched[k]]
  <2> SUFFICES ASSUME k < L
               PROVE  /\ k + 1 \in 1 .. L
                      /\ time'[cosched[k + 1]] = time[cosched[k + 1]] + time[cosched[k]]
    OBVIOUS
  <2>1. k + 1 \in 1 .. L /\ k + 1 # k
    BY <1>3
  <2> QED
    BY <1>1, <1>2, <1>5, <2>1 DEF L
<1>9. cosched' # <<>> /\ Head(cosched') = cosched[1] /\ cosched'[1] = cosched[1]
  <2>1. (cosched' = <<>> <=> Len(cosched') = 0) /\ (cosched' # <<>> => Head(cosched') = cosched'[1])
    BY <1>4, Members
  <2>2. L - 1 # 0 /\ 1 \in 1 .. L - 1 /\ 1 < k
    BY <1>3
  <2> QED
    BY <1>4, <2>1, <2>2
<1>10. time'[cosched[1]] = time[cosched[1]]
  <2>1. 1 # k /\ 1 # k + 1
    BY <1>3
  <2> QED
    BY <1>3, <1>7, <2>1
<1>11. cut' = cut
  BY <1>1, <1>2, <1>9, <1>10 DEF IInv, TypeOK
<1>12. \A j \in 2 .. L - 1 : time'[cosched'[j]] = b[cosched'[j]] - b[cosched'[j - 1]]
  <2> TAKE j \in 2 .. L - 1
  <2>1. CASE j < k
    <3>1. /\ cosched'[j] = cosched[j] /\ cosched'[j - 1] = cosched[j - 1]
          /\ j \in 2 .. L /\ j \in 1 .. L /\ j # k /\ j # k + 1
      <4>1. /\ j \in 2 .. L /\ j \in 1 .. L /\ j # k /\ j # k + 1
            /\ j \in 1 .. L - 1 /\ j - 1 \in 1 .. L - 1 /\ j - 1 < k
        BY <1>3, <2>1
      <4> QED
        BY <1>4, <2>1, <4>1
    <3> QED
      BY <1>7, <1>r, <3>1
  <2>2. CASE j = k
    <3>1. /\ cosched'[j] = cosched[k + 1] /\ cosched'[j - 1] = cosched[k - 1]
          /\ k < L /\ k + 1 \in 2 .. L /\ k \in 2 .. L /\ k - 1 \in 1 .. L /\ k + 1 - 1 = k
          /\ k + 1 \in 1 .. L
      BY <1>1, <1>3, <1>4, <2>2
    <3>2. /\ time[cosched[k + 1]] = b[cosched[k + 1]] - b[cosched[k]]
          /\ time[cosched[k]] = b[cosched[k]] - b[cosched[k - 1]]
      BY <1>r, <3>1
    <3>3. b[cosched[k + 1]] \in Int /\ b[cosched[k]] \in Int /\ b[cosched[k - 1]] \in Int
      BY <1>1, <1>3, <3>1
    <3>4. time[cosched[k + 1]] + time[cosched[k]] = b[cosched[k + 1]] - b[cosched[k - 1]]
      BY <3>2, <3>3
    <3> QED
      BY <1>8, <3>1, <3>4
  <2>3. CASE j > k
    <3>1. /\ cosched'[j] = cosched[j + 1] /\ cosched'[j - 1] = cosched[j]
          /\ j + 1 \in 2 .. L /\ j + 1 \in 1 .. L /\ j + 1 # k /\ j + 1 # k + 1 /\ j + 1 - 1 = j
      <4>1. /\ j + 1 \in 2 .. L /\ j + 1 \in 1 .. L /\ j + 1 # k /\ j + 1 # k + 1 /\ j + 1 - 1 = j
            /\ j \in 1 .. L - 1 /\ j - 1 \in 1 .. L - 1 /\ ~(j < k) /\ ~(j - 1 < k)
            /\ (j - 1) + 1 = j
        BY <1>3, <2>3
      <4> QED
        BY <1>4, <4>1
    <3>2. time[cosched[j + 1]] = b[cosched[j + 1]] - b[cosched[j]]
      BY <1>r, <3>1
    <3> QED
      BY <1>7, <3>1, <3>2
  <2> QED
    BY <1>3, <2>1, <2>2, <2>3
\* Each position of the new list is one of the old, in the same order.
<1>13. \A i \in 1 .. L - 1 : \E m \in 1 .. L :
         m # k /\ cosched'[i] = cosched[m] /\ m = IF i < k THEN i ELSE i + 1
  <2> TAKE i \in 1 .. L - 1
  <2>1. CASE i < k
    <3>1. i \in 1 .. L /\ i # k /\ cosched'[i] = cosched[i]
      <4>1. i \in 1 .. L /\ i # k
        BY <1>3, <2>1
      <4> QED
        BY <1>4, <2>1, <4>1
    <3> QED
      BY <2>1, <3>1
  <2>2. CASE ~(i < k)
    <3>1. i + 1 \in 1 .. L /\ i + 1 # k /\ cosched'[i] = cosched[i + 1]
      BY <1>1, <1>3, <1>4, <2>2
    <3> QED
      BY <2>2, <3>1
  <2> QED
    BY <2>1, <2>2
<1>14. \A i, j \in 1 .. L - 1 : i <= j => b[cosched'[i]] <= b[cosched'[j]]
  <2> SUFFICES ASSUME NEW i \in 1 .. L - 1, NEW j \in 1 .. L - 1, i <= j
               PROVE  b[cosched'[i]] <= b[cosched'[j]]
    OBVIOUS
  <2>1. PICK m \in 1 .. L : cosched'[i] = cosched[m] /\ m = IF i < k THEN i ELSE i + 1
    BY <1>13
  <2>2. PICK n \in 1 .. L : cosched'[j] = cosched[n] /\ n = IF j < k THEN j ELSE j + 1
    BY <1>13
  <2>3. m <= n
    BY <1>3, <2>1, <2>2
  <2> QED
    BY <1>r, <2>1, <2>2, <2>3
<1>15. \A i \in 1 .. L - 1 :
         b[cosched'[i]] <= due'[cosched'[i]] /\ (~cut' => b[cosched'[i]] = due'[cosched'[i]])
  <2> TAKE i \in 1 .. L - 1
  <2>1. PICK m \in 1 .. L : m # k /\ cosched'[i] = cosched[m]
    BY <1>13
  <2> QED
    BY <1>6, <1>11, <1>r, <2>1
<1>16. Reckoned(b)'
  BY <1>4, <1>12, <1>14, <1>15 DEF Reckoned
<1>17. FirstUnit(b)'
  BY <1>1, <1>2, <1>9, <1>10, <1>11 DEF Counts, FirstUnit, NoCall
<1>18. Scanned(b)'
  BY DEF Scanned, NoCall
<1> QED
  BY <1>16, <1>17, <1>18 DEF Counts

\* A tick counts for every unit on the list.
LEMMA CountsTick ==
  ASSUME IInv, NEW b \in [UNITS -> Int], Counts(b), TickService
  PROVE  \E c \in [UNITS -> Int] : Counts(c)'
<1> DEFINE L == Len(cosched)
<1>1. /\ L \in Nat /\ \A i \in 1 .. L : cosched[i] \in UNITS
      /\ \A i, j \in 1 .. L : cosched[i] = cosched[j] => i = j
      /\ time \in [UNITS -> Int] /\ due \in [UNITS -> Int] /\ interval \in Int
      /\ cosched # <<>> => Head(cosched) = cosched[1] /\ L >= 1
      /\ \A u : u \in Coscheduled <=> \E i \in 1 .. L : cosched[i] = u
      /\ cosched = <<>> => L = 0
  BY Positions DEF TypeOK
<1>2. /\ ctx = "run" /\ call = NoCall /\ call' = NoCall /\ UNCHANGED <<cosched, cut>>
      /\ interval' = IF cosched = <<>> THEN 0 ELSE interval - 1
      /\ time' = IF cosched = <<>> THEN time ELSE [time EXCEPT ![Head(cosched)] = interval - 1]
      /\ due' = [u \in UNITS |->
           IF u \in Coscheduled /\ due[u] >= 0 THEN due[u] - 1 ELSE due[u]]
      /\ ctx' = IF interval - 1 <= 0 /\ cosched # <<>> THEN "gather" ELSE "run"
  BY DEF TickService, Fires, Counted
<1>3. PICK c \in [UNITS -> Int] : \A v \in UNITS : c[v] = b[v] - 1
  <2>1. [v \in UNITS |-> b[v] - 1] \in [UNITS -> Int]
    OBVIOUS
  <2> QED
    BY <2>1
<1>r. /\ \A i \in 2 .. L : time[cosched[i]] = b[cosched[i]] - b[cosched[i - 1]]
      /\ \A i, j \in 1 .. L : i <= j => b[cosched[i]] <= b[cosched[j]]
      /\ \A i \in 1 .. L : b[cosched[i]] <= due[cosched[i]] /\ (~cut => b[cosched[i]] = due[cosched[i]])
  BY DEF Counts, Reckoned
<1>f. L >= 1 => b[cosched[1]] = interval /\ interval >= 0
  <2>1. L >= 1 => cosched # <<>>
    BY <1>1
  <2> QED
    BY <1>2, <2>1 DEF Counts, FirstUnit, NoCall
<1> HIDE DEF L
<1>4. \A i \in 1 .. L : b[cosched[i]] \in Int /\ due[cosched[i]] \in Int /\ b[cosched[i]] >= 0
  <2> TAKE i \in 1 .. L
  <2>1. 1 \in 1 .. L /\ 1 <= i /\ L >= 1
    BY <1>1
  <2>2. b[cosched[1]] <= b[cosched[i]] /\ b[cosched[1]] >= 0
    BY <1>f, <1>r, <2>1
  <2>3. b[cosched[i]] \in Int /\ due[cosched[i]] \in Int /\ b[cosched[1]] \in Int
    BY <1>1, <2>1
  <2> QED
    BY <2>2, <2>3
<1>5. \A i \in 1 .. L : due'[cosched[i]] = due[cosched[i]] - 1 /\ c[cosched[i]] = b[cosched[i]] - 1
  <2> TAKE i \in 1 .. L
  <2>1. cosched[i] \in Coscheduled /\ cosched[i] \in UNITS
    BY <1>1
  <2>2. due[cosched[i]] >= 0
    <3>1. PICK x \in Int : x = b[cosched[i]]
      BY <1>4
    <3>2. PICK y \in Int : y = due[cosched[i]]
      BY <1>4
    <3>3. x >= 0 /\ x <= y
      BY <1>4, <1>r, <3>1, <3>2
    <3> QED
      BY <3>2, <3>3
  <2> QED
    BY <1>2, <1>3, <2>1, <2>2
<1>6. \A i \in 2 .. L : time'[cosched[i]] = time[cosched[i]]
  <2> TAKE i \in 2 .. L
  <2>1. i \in 1 .. L /\ 1 \in 1 .. L /\ i # 1
    BY <1>1
  <2>2. cosched[i] # cosched[1]
    BY <1>1, <2>1
  <2> QED
    BY <1>1, <1>2, <2>1, <2>2
<1>7. \A i \in 2 .. L : time'[cosched[i]] = c[cosched[i]] - c[cosched[i - 1]]
  <2> TAKE i \in 2 .. L
  <2>1. i \in 1 .. L /\ i - 1 \in 1 .. L
    BY <1>1
  <2>2. PICK x \in Int : x = b[cosched[i]]
    BY <1>4, <2>1
  <2>3. PICK y \in Int : y = b[cosched[i - 1]]
    BY <1>4, <2>1
  <2>4. c[cosched[i]] = x - 1 /\ c[cosched[i - 1]] = y - 1 /\ time'[cosched[i]] = x - y
    BY <1>5, <1>6, <1>r, <2>1, <2>2, <2>3
  <2>5. x - y = (x - 1) - (y - 1)
    OBVIOUS
  <2> QED
    BY <2>4, <2>5
<1>8. \A i, j \in 1 .. L : i <= j => c[cosched[i]] <= c[cosched[j]]
  <2> SUFFICES ASSUME NEW i \in 1 .. L, NEW j \in 1 .. L, i <= j
               PROVE  c[cosched[i]] <= c[cosched[j]]
    OBVIOUS
  <2>1. PICK x \in Int : x = b[cosched[i]]
    BY <1>4
  <2>2. PICK y \in Int : y = b[cosched[j]]
    BY <1>4
  <2>3. c[cosched[i]] = x - 1 /\ c[cosched[j]] = y - 1 /\ x <= y
    BY <1>5, <1>r, <2>1, <2>2
  <2>4. x - 1 <= y - 1
    BY <2>3
  <2> QED
    BY <2>3, <2>4
<1>9. \A i \in 1 .. L :
        c[cosched[i]] <= due'[cosched[i]] /\ (~cut => c[cosched[i]] = due'[cosched[i]])
  <2> TAKE i \in 1 .. L
  <2>1. PICK x \in Int : x = b[cosched[i]]
    BY <1>4
  <2>2. PICK y \in Int : y = due[cosched[i]]
    BY <1>4
  <2>3. /\ c[cosched[i]] = x - 1 /\ due'[cosched[i]] = y - 1
        /\ x <= y /\ (~cut => x = y)
    BY <1>5, <1>r, <2>1, <2>2
  <2>4. x - 1 <= y - 1
    BY <2>3
  <2> QED
    BY <2>3, <2>4
<1>10. Reckoned(c)'
  BY <1>2, <1>7, <1>8, <1>9 DEF Reckoned, L
<1>11. FirstUnit(c)'
  <2> SUFFICES ASSUME cosched # <<>>
               PROVE  /\ c[cosched[1]] = interval' /\ time'[cosched[1]] = interval'
                      /\ IF ctx' = "gather" THEN interval' <= 0 ELSE interval' >= 0
    BY <1>2 DEF FirstUnit
  <2>1. L >= 1 /\ 1 \in 1 .. L /\ Head(cosched) = cosched[1] /\ cosched[1] \in UNITS
    BY <1>1
  <2>2. interval' = interval - 1 /\ time'[cosched[1]] = interval - 1
    BY <1>1, <1>2, <2>1
  <2>3. c[cosched[1]] = interval - 1
    BY <1>5, <1>f, <2>1
  <2>4. IF ctx' = "gather" THEN interval - 1 <= 0 ELSE interval - 1 >= 0
    BY <1>1, <1>2
  <2> QED
    BY <2>2, <2>3, <2>4
<1>12. Scanned(c)'
  BY <1>2 DEF Scanned, NoCall
<1> QED
  BY <1>3, <1>10, <1>11, <1>12 DEF Counts
LEMMA CountsCancel ==
  ASSUME IInv, NEW b \in [UNITS -> Int], Counts(b), NEW u \in UNITS, sim_cancel(u)
  PROVE  \E c \in [UNITS -> Int] : Counts(c)'
<1>1. /\ ctx # "gather" /\ call = NoCall /\ UNCHANGED <<ctx, call>>
      /\ due' = [due EXCEPT ![u] = 0] /\ due \in [UNITS -> Int]
  BY DEF sim_cancel, CanCall, IInv, TypeOK
<1>2. CASE \E i \in 1 .. Len(cosched) : cosched[i] = u /\ CoschedCancelAt(i)
  <2>1. PICK i \in 1 .. Len(cosched) : cosched[i] = u /\ CoschedCancelAt(i)
    BY <1>2
  <2>2. i \in Nat /\ cosched # <<>> /\ (i = 1 \/ LaterAt(i))
    BY Positions DEF LaterAt
  <2>3. CASE i = 1
    BY <1>1, <2>1, <2>2, <2>3, CountsCancelFirst
  <2>4. CASE LaterAt(i)
    BY <1>1, <2>1, <2>2, <2>4, CountsCancelLater
  <2> QED
    BY <2>2, <2>3, <2>4
<1>3. CASE /\ \E i \in 1 .. Len(agenda) : agenda[i] = u
           /\ UNCHANGED lists
  <2>1. u \in Agenda
    BY <1>3, OnLists DEF IInv
  <2>2. u \notin Coscheduled
    BY <2>1 DEF IInv, Apart
  <2>3. \A i \in 1 .. Len(cosched) : due'[cosched[i]] = due[cosched[i]]
    BY <1>1, <2>2, Positions
  <2> QED
    BY <1>1, <1>3, <2>3, CountsKept DEF lists
<1> QED
  BY <1>2, <1>3 DEF sim_cancel

LEMMA CountsDispatch ==
  ASSUME IInv, NEW b \in [UNITS -> Int], Counts(b), Dispatch
  PROVE  Counts(b)'
<1> DEFINE u == Head(gathered)
<1>1. /\ ctx = "dispatch" /\ ctx' = ctx /\ call = NoCall /\ gathered # <<>>
      /\ due' = [due EXCEPT ![u] = 0] /\ due \in [UNITS -> Int]
      /\ \/ UNCHANGED <<cosched, time, interval, cut, call>>
         \/ ActivateAfter(u, remaining[u], agenda)
  BY DEF Dispatch, IInv, TypeOK
<1>2. u \in Dispatched /\ Dispatched \subseteq UNITS
  BY <1>1, OnLists DEF IInv
<1>3. u \in UNITS /\ u \notin Coscheduled
  BY <1>2 DEF IInv, Apart
<1> HIDE DEF u
<1>4. \A i \in 1 .. Len(cosched) : due'[cosched[i]] = due[cosched[i]]
  BY <1>1, <1>3, Positions
<1>5. CASE UNCHANGED <<cosched, time, interval, cut, call>>
  BY <1>1, <1>4, <1>5, CountsKept
<1>6. CASE ActivateAfter(u, remaining[u], agenda)
  <2>1. ctx # "gather" /\ ctx' # "gather"
    BY <1>1
  <2> QED
    BY <1>1, <1>3, <1>4, <1>6, <2>1, CountsActivated
<1> QED
  BY <1>1, <1>5, <1>6

\* Steps of the processor and of the console that leave the list alone, or
\* only begin to put a unit on it.
LEMMA CountsElsewhere ==
  ASSUME IInv, NEW b \in [UNITS -> Int], Counts(b),
         \/ Execute \/ ClockService \/ FireUnit \/ FireRemnant \/ DispatchDone
         \/ StopServices \/ StartServices \/ UNCHANGED vars
         \/ \E u \in UNITS : \/ \E n \in Ticks : sim_clock_coschedule(u, n)
                             \/ \E d \in Delays : sim_activate_after(u, d)
  PROVE  Counts(b)'
<1>1. CASE \/ Execute \/ ClockService \/ FireUnit \/ DispatchDone
           \/ StopServices \/ StartServices
  <2>1. /\ UNCHANGED <<cosched, time, interval, cut, due>>
        /\ call' = call \/ call'.op = "stop"
        /\ ctx' = "gather" <=> ctx = "gather"
    BY <1>1 DEF Execute, ClockService, Fires, FireUnit, DispatchDone, StopServices, StartServices,
                lists
  <2> QED
    BY <2>1, CountsKept
<1>2. CASE UNCHANGED vars
  BY <1>2, CountsKept DEF vars, lists
<1>3. CASE FireRemnant
  <2>1. PICK u \in UNITS : Fires(u) /\ ActivateAfter(u, remaining[u], Tail(agenda))
    BY <1>3 DEF FireRemnant
  <2>2. ctx = "run" /\ call = NoCall /\ UNCHANGED <<ctx, due>>
    BY <1>3, <2>1 DEF FireRemnant, Fires
  <2>3. ctx # "gather" /\ ctx' # "gather"
    BY <2>2
  <2> QED
    BY <2>1, <2>2, <2>3, CountsActivated
<1>4. ASSUME NEW u \in UNITS, NEW n \in Ticks, sim_clock_coschedule(u, n)
      PROVE  Counts(b)'
  <2>1. /\ ctx # "gather" /\ ctx' # "gather" /\ call = NoCall /\ due' = due /\ n \in Nat
        /\ EnterCosched(u, n) \/ UNCHANGED <<cosched, time, interval, cut, call>>
    BY <1>4 DEF sim_clock_coschedule, CanCall
  <2>2. CASE EnterCosched(u, n)
    BY <2>1, <2>2, CountsEntered
  <2>3. CASE UNCHANGED <<cosched, time, interval, cut, call>>
    BY <2>1, <2>3, CountsKept
  <2> QED
    BY <2>1, <2>2, <2>3
<1>5. ASSUME NEW u \in UNITS, NEW d \in Delays, sim_activate_after(u, d)
      PROVE  Counts(b)'
  <2>1. /\ ctx # "gather" /\ ctx' # "gather" /\ call = NoCall /\ due' = due
        /\ ActivateAfter(u, d, agenda)
    BY <1>5 DEF sim_activate_after, CanCall
  <2> QED
    BY <2>1, CountsActivated
<1> QED
  BY <1>1, <1>2, <1>3, <1>4, <1>5

LEMMA CountsInit == Init => TicksCounted
<1> SUFFICES ASSUME Init PROVE TicksCounted
  OBVIOUS
<1>1. PICK b \in [UNITS -> Int] : TRUE
  <2>1. [u \in UNITS |-> 0] \in [UNITS -> Int]
    OBVIOUS
  <2> QED
    BY <2>1
<1>2. cosched = <<>> /\ Len(cosched) = 0 /\ call.op # "scan"
  BY DEF Init, NoCall
<1>3. \A i \in 1 .. 0 : FALSE
  OBVIOUS
<1>4. \A i \in 2 .. 0 : FALSE
  OBVIOUS
<1>5. Counts(b)
  BY <1>2, <1>3, <1>4 DEF Counts, Reckoned, FirstUnit, Scanned
<1> QED
  BY <1>5 DEF TicksCounted

LEMMA CountsNext == IInv /\ TicksCounted /\ [Next]_vars => TicksCounted'
<1> SUFFICES ASSUME IInv, TicksCounted, [Next]_vars
             PROVE  \E c \in [UNITS -> Int] : Counts(c)'
  BY DEF TicksCounted
<1>1. PICK b \in [UNITS -> Int] : Counts(b)
  BY DEF TicksCounted
<1>2. CASE Calling
  <2>1. PICK u \in UNITS :
          \/ \E n \in Ticks : sim_clock_coschedule(u, n)
          \/ \E d \in Delays : sim_activate_after(u, d)
          \/ sim_cancel(u)
    BY <1>2 DEF Calling
  <2> QED
    BY <1>1, <2>1, CountsElsewhere, CountsCancel
<1>3. CASE ScanOn \/ Link
  BY <1>1, <1>3, CountsScan, CountsLink
<1>4. CASE TickService
  BY <1>1, <1>4, CountsTick
<1>5. CASE Gather \/ Dispatch
  BY <1>1, <1>5, CountsGather, CountsDispatch
<1>6. CASE StopMove \/ StopDone
  BY <1>1, <1>6, CountsStopMove, CountsStopDone
<1>7. CASE \/ Execute \/ ClockService \/ FireUnit \/ FireRemnant \/ DispatchDone
           \/ StopServices \/ StartServices \/ UNCHANGED vars
  BY <1>1, <1>7, CountsElsewhere
<1> QED
  BY <1>2, <1>3, <1>4, <1>5, <1>6, <1>7 DEF Next, Ticking, Firing

LEMMA CountsAlways == Spec => []TicksCounted
  BY CountsInit, CountsNext, IInvAlways, PTL DEF Spec

\* The list is in tick order, its times are relative and the count of the
\* first unit is that of the code, until a first unit is cancelled; even then
\* nobody on it is thought to be due later than it is.
THEOREM CoschedCorrect == Spec => []CoschedConsistent
<1>1. IInv /\ TicksCounted => CoschedConsistent
  <2> SUFFICES ASSUME IInv, TicksCounted PROVE CoschedConsistent
    OBVIOUS
  <2>1. PICK b \in [UNITS -> Int] : Counts(b)
    BY DEF TicksCounted
  <2> DEFINE L == Len(cosched)
  <2>2. /\ L \in Nat /\ (cosched # <<>> => Head(cosched) = cosched[1] /\ 1 \in 1 .. L)
    BY Positions
  <2>3. /\ \A i \in 2 .. L : time[cosched[i]] = b[cosched[i]] - b[cosched[i - 1]]
        /\ \A i, j \in 1 .. L : i <= j => b[cosched[i]] <= b[cosched[j]]
        /\ \A i \in 1 .. L : b[cosched[i]] <= due[cosched[i]] /\ (~cut => b[cosched[i]] = due[cosched[i]])
    BY <2>1 DEF Counts, Reckoned
  <2>4. cosched # <<>> /\ call.op # "stop" =>
          b[cosched[1]] = interval /\ (~cut => time[cosched[1]] = interval)
    BY <2>1 DEF Counts, FirstUnit
  <2>5. \A i \in 2 .. L : i \in 1 .. L /\ i - 1 \in 1 .. L
    BY <2>2
  <2> HIDE DEF L
  <2>6. cosched # <<>> /\ call.op # "stop" => interval <= due[Head(cosched)]
    BY <2>2, <2>3, <2>4
  <2>7. cosched # <<>> /\ call.op # "stop" /\ ~cut =>
          interval = due[Head(cosched)] /\ time[Head(cosched)] = interval
    BY <2>2, <2>3, <2>4
  <2>8. ~cut => /\ \A i, j \in 1 .. L : i <= j => due[cosched[i]] <= due[cosched[j]]
                /\ \A i \in 2 .. L : time[cosched[i]] = due[cosched[i]] - due[cosched[i - 1]]
    BY <2>3, <2>5
  <2> QED
    BY <2>6, <2>7, <2>8 DEF CoschedConsistent, L
<1> QED
  BY <1>1, IInvAlways, CountsAlways, PTL

\* A tick takes off the list all units that are due and, unless a first unit
\* has been cancelled, no other.
THEOREM TicksExact == Spec => TickExact
<1>1. IInv /\ TicksCounted /\ [Next]_vars => [GatherExact]_vars
  <2> SUFFICES ASSUME IInv, TicksCounted, Next, ctx = "gather"
               PROVE  /\ ~cut => due'[Head(cosched)] <= 0
                      /\ ctx' = "dispatch" => \A u \in ToSet(cosched') : due'[u] > 0
    BY DEF GatherExact
  <2>1. call = NoCall /\ cosched # <<>>
    BY DEF IInv, CallSound
  <2>2. Gather
    BY <2>1 DEF Next, Calling, sim_clock_coschedule, sim_activate_after, sim_cancel, CanCall,
                ScanOn, Link, Execute, Ticking, TickService, ClockService, Dispatch, DispatchDone,
                Firing, FireRemnant, FireUnit, Fires, StopServices, StopMove, StopDone,
                StartServices, NoCall
  <2>3. PICK b \in [UNITS -> Int] : Counts(b)
    BY DEF TicksCounted
  <2>4. Counts(b)' /\ IInv'
    BY <2>2, <2>3, CountsGather, GatherStep
  <2>5. due' = due /\ call' = NoCall
    BY <2>1, <2>2 DEF Gather
  <2>6. ASSUME ~cut PROVE due'[Head(cosched)] <= 0
    <3>1. Head(cosched) = cosched[1] /\ 1 \in 1 .. Len(cosched)
      BY <2>1, Positions
    <3>2. b[cosched[1]] = interval /\ interval <= 0
      BY <2>1, <2>3 DEF Counts, FirstUnit, NoCall
    <3>3. b[cosched[1]] = due[cosched[1]]
      BY <2>3, <2>6, <3>1 DEF Counts, Reckoned
    <3> QED
      BY <2>5, <3>1, <3>2, <3>3
  <2>7. ASSUME ctx' = "dispatch", NEW u \in ToSet(cosched')
        PROVE  due'[u] > 0
    <3>1. /\ Len(cosched') \in Nat /\ (cosched' = <<>> <=> Len(cosched') = 0)
          /\ \A i \in 1 .. Len(cosched') : cosched'[i] \in UNITS
          /\ due' \in [UNITS -> Int] /\ interval' \in Int
          /\ \A v : v \in ToSet(cosched') <=> \E i \in 1 .. Len(cosched') : cosched'[i] = v
      BY <2>4, PositionsNext
    <3>2. PICK i \in 1 .. Len(cosched') : cosched'[i] = u
      BY <3>1
    <3>3. 1 \in 1 .. Len(cosched') /\ 1 <= i /\ cosched' # <<>>
      BY <3>1
    <3>4. interval' > 0
      BY <2>2, <2>7, <3>1, <3>3 DEF Gather, GatherOn
    <3>5. b[cosched'[1]] = interval'
      BY <2>4, <2>5, <3>3 DEF Counts, FirstUnit, NoCall
    <3>6. b[cosched'[1]] <= b[cosched'[i]] /\ b[cosched'[i]] <= due'[cosched'[i]]
      BY <2>4, <3>3 DEF Counts, Reckoned
    <3>7. b[cosched'[i]] \in Int /\ due'[cosched'[i]] \in Int
      BY <3>1
    <3> QED
      BY <3>1, <3>2, <3>4, <3>5, <3>6, <3>7
  <2> QED
    BY <2>6, <2>7
<1> QED
  BY <1>1, IInvAlways, CountsAlways, PTL DEF Spec, TickExact
=============================================================================
