----------------------------- MODULE ClockQueue -----------------------------
(***************************************************************************)
(* Units co-scheduled with the line clock (sim_timer.c, "Clock             *)
(* coscheduling routines").  A unit that polls once per clock tick, or     *)
(* whose delay reaches beyond the next calibration, waits on the clock's   *)
(* own list: times are counted in ticks, relative to the unit before, and  *)
(* sim_cosched_interval counts down for the first one.                     *)
(*                                                                         *)
(* The event queue (module EventQueue) appears here as the agenda it       *)
(* implements (module EventAgenda): units in firing order, with exact      *)
(* waits in instructions.  Tick stands for the next tick, which is carried *)
(* by the clock assist unit (assist) or, after a stop, by the clock unit.  *)
(*                                                                         *)
(* One clock, which is the calibrated one and runs at a constant TickSize  *)
(* instructions per tick; delays in microseconds are given in instructions.*)
(* From the start of a run to the clock's first tick its rate is unknown   *)
(* (rtc_hz = 0) and sim_timer.c calibrates an internal timer instead, with *)
(* a list of its own, whose units the first tick moves to the event queue; *)
(* a long delay that is asked for in between is put on the clock's list    *)
(* here.                                                                   *)
(* due, left and cut are history variables: the ticks a co-scheduled unit  *)
(* must still see, the instructions before the end of a delay asked for,   *)
(* and whether sim_cosched_interval has been left behind by a cancellation.*)
(***************************************************************************)
EXTENDS Integers, Sequences, SequencesExt

CONSTANTS
  UNITS,       \* units that are co-scheduled or wait for a long delay
  Tick,        \* the tick of the line clock
  Hz,          \* the clock's rate: ticks from one calibration to the next
  TickSize,    \* rtc_currd: instructions from one tick to the next
  Ticks,       \* tick counts units are co-scheduled with
  Delays,      \* delays given to sim_activate_after
  MaxTickWait  \* bound: each stop delays the tick by one, up to this wait

ASSUME ClockAssumption ==
  /\ Tick \notin UNITS
  /\ Hz \in Nat \ {0, 1} /\ TickSize \in Nat \ {0}
  /\ Ticks \subseteq Nat /\ Delays \subseteq Nat \ {0}
  /\ MaxTickWait \in Nat

VARIABLES
  cosched,     \* sim_clock_cosched_queue
  time,        \* uptr->time of the units on it, 0 for the others
  interval,    \* sim_cosched_interval; a tick resets it while the list is empty
  bound,       \* uptr->cancel = &_sim_coschedule_cancel
  gathered,    \* units taken off the list by the tick being served
  agenda,      \* sim_clock_queue, in firing order
  wait,        \* instructions until each unit on it fires
  remaining,   \* uptr->usecs_remaining
  rtc_ticks,   \* ticks since the last calibration
  rtc_hz,      \* the clock's rate, 0 from the start of a run to its first tick
  assist,      \* the next tick is carried by sim_timer_units
  ctx,         \* where the simulator's thread is
  call,        \* the routine in progress
  due,         \* history: ticks a co-scheduled unit must still see
  left,        \* history: instructions until the delay asked for is over
  cut          \* history: a cancelled first unit has left its count to the rest

lists == <<cosched, time, interval, bound, cut>>
stdq == <<agenda, wait>>
clk == <<rtc_ticks, rtc_hz, assist>>
vars == <<lists, gathered, stdq, remaining, clk, ctx, call, due, left>>

Contexts == {"console", "run", "gather", "dispatch", "stopping"}

NoCall == [op |-> "none"]

Calls == {NoCall}
  \cup [op : {"scan"}, unit : UNITS, ticks : Nat, accum : Int, prv : Nat]
  \cup [op : {"stop"}, base : Int, accum : Int]

TypeOK ==
  /\ cosched \in Seq(UNITS)
  /\ time \in [UNITS -> Int]
  /\ interval \in Int
  /\ bound \in [UNITS -> BOOLEAN]
  /\ gathered \in Seq(UNITS)
  /\ agenda \in Seq(UNITS \cup {Tick})
  /\ wait \in [UNITS \cup {Tick} -> Int]
  /\ remaining \in [UNITS -> Nat]
  /\ rtc_ticks \in 0 .. Hz - 1
  /\ rtc_hz \in {0, Hz}
  /\ assist \in BOOLEAN
  /\ ctx \in Contexts
  /\ call \in Calls
  /\ due \in [UNITS -> Int]
  /\ left \in [UNITS -> Nat]
  /\ cut \in BOOLEAN

-----------------------------------------------------------------------------
Coscheduled == ToSet(cosched)

sim_is_active(u) == u \in Coscheduled \cup ToSet(gathered) \cup ToSet(agenda)

\* Floor at zero, for the history and for a conversion to uint32.
AtLeast0(n) == IF n < 0 THEN 0 ELSE n

\* _sim_activate on the list ag: behind the units due no later.
Schedule(u, d, ag) ==
  /\ \E p \in 0 .. Len(ag) :
       /\ \A i \in 1 .. p : wait[ag[i]] <= d
       /\ \A i \in p + 1 .. Len(ag) : d < wait[ag[i]]
       /\ agenda' = InsertAt(ag, p + 1, u)
  /\ wait' = [wait EXCEPT ![u] = d]

\* sim_clock_coschedule_tmr of an inactive unit, up to its scan of the list.
EnterCosched(u, n) ==
  /\ time' = IF cosched = <<>> THEN time
             ELSE [time EXCEPT ![Head(cosched)] = interval]
  /\ call' = [op |-> "scan", unit |-> u, ticks |-> n, accum |-> 0, prv |-> 0]
  /\ UNCHANGED <<cosched, interval, cut>>

TicksTilCalib == Hz - rtc_ticks

\* sim_activate_time of the clock assist unit, less one.
InstTilTick == IF assist /\ Tick \in ToSet(agenda) THEN wait[Tick] ELSE -1

InstTilCalib == InstTilTick + (TicksTilCalib - 1) * TickSize

\* sim_timer_activate_after of an inactive unit, ag being the standard queue.
ActivateAfter(u, d, ag) ==
  \/ /\ ctx # "console" /\ d > InstTilCalib
     /\ EnterCosched(u, TicksTilCalib - 1)
     /\ remaining' = [remaining EXCEPT ![u] = d - AtLeast0(InstTilCalib)]
     /\ agenda' = ag
     /\ UNCHANGED wait
  \/ /\ ~(ctx # "console" /\ d > InstTilCalib)
     /\ Schedule(u, d, ag)
     /\ remaining' = [remaining EXCEPT ![u] = 0]
     /\ UNCHANGED <<cosched, time, interval, cut, call>>

-----------------------------------------------------------------------------
(* Calls from instructions, unit actions and the console.                  *)

CanCall == ctx \in {"console", "run"} /\ call = NoCall

\* sim_clock_coschedule_tmr
sim_clock_coschedule(u, n) ==
  /\ CanCall
  /\ ~sim_is_active(u)
  /\ \/ /\ rtc_hz # 0
        /\ EnterCosched(u, n)
        /\ UNCHANGED stdq
     \/ /\ rtc_hz = 0
        /\ Schedule(u, n * TickSize, agenda)
        /\ UNCHANGED <<cosched, time, interval, cut, call>>
  /\ UNCHANGED <<bound, gathered, remaining, clk, ctx, due, left>>

sim_activate_after(u, d) ==
  /\ CanCall
  /\ ~sim_is_active(u)
  /\ ActivateAfter(u, d, agenda)
  /\ left' = [left EXCEPT ![u] = d]
  /\ UNCHANGED <<bound, gathered, clk, ctx, due>>

\* Mutant: the cancel routine stays bound to the unit.
Unbind_Kept(u) == bound

Unbind(u) == [bound EXCEPT ![u] = FALSE]

\* _sim_coschedule_cancel: the successor gets the unit's ticks, but
\* sim_cosched_interval is not set for a new head.
CoschedCancelAt(i) ==
  /\ cosched' = RemoveAt(cosched, i)
  /\ time' = [u \in UNITS |->
       IF u = cosched[i] THEN 0
       ELSE IF i < Len(cosched) /\ u = cosched[i + 1]
            THEN time[u] + time[cosched[i]]
            ELSE time[u]]
  /\ bound' = Unbind(cosched[i])
  /\ cut' = (cosched' # <<>> /\ (cut \/ time'[Head(cosched')] # time[Head(cosched)]))
  /\ UNCHANGED interval

\* Mutant: a cancelled unit keeps the rest of its long delay.
ClearRemaining_Not(u) == remaining

ClearRemaining(u) == [remaining EXCEPT ![u] = 0]

\* sim_cancel
sim_cancel(u) ==
  /\ CanCall
  /\ \/ \E i \in 1 .. Len(cosched) :
          /\ cosched[i] = u
          /\ CoschedCancelAt(i)
          /\ UNCHANGED stdq
     \/ \E i \in 1 .. Len(agenda) :
          /\ agenda[i] = u
          /\ agenda' = RemoveAt(agenda, i)
          /\ wait' = [wait EXCEPT ![u] = 0]
          /\ UNCHANGED lists
  /\ remaining' = ClearRemaining(u)
  /\ due' = [due EXCEPT ![u] = 0]
  /\ left' = [left EXCEPT ![u] = 0]
  /\ UNCHANGED <<gathered, clk, ctx, call>>

-----------------------------------------------------------------------------
(* The scan of sim_clock_coschedule_tmr                                    *)

\* Mutant: the tick count is compared with a relative time.
AtPlace_Relative ==
  call.prv < Len(cosched) => call.ticks < time[cosched[call.prv + 1]]

AtPlace ==
  call.prv < Len(cosched) =>
    call.ticks < call.accum + time[cosched[call.prv + 1]]

ScanOn ==
  /\ call.op = "scan"
  /\ ~AtPlace
  /\ call' = [call EXCEPT !.accum = @ + time[cosched[call.prv + 1]],
                          !.prv = @ + 1]
  /\ UNCHANGED <<lists, gathered, stdq, remaining, clk, ctx, due, left>>

Link ==
  LET u == call.unit
      t == call.ticks - call.accum
      p == call.prv
  IN
  /\ call.op = "scan"
  /\ AtPlace
  /\ cosched' = InsertAt(cosched, p + 1, u)
  /\ time' = [v \in UNITS |->
       IF v = u THEN t
       ELSE IF p < Len(cosched) /\ v = cosched[p + 1] THEN time[v] - t
       ELSE time[v]]
  /\ interval' = IF p = 0 THEN t ELSE interval
  /\ bound' = [bound EXCEPT ![u] = TRUE]
  /\ due' = [due EXCEPT ![u] = call.ticks]
  /\ call' = NoCall
  /\ UNCHANGED <<gathered, cut, stdq, remaining, clk, ctx, left>>

-----------------------------------------------------------------------------
(* Instructions, ticks and events                                          *)

First == Head(agenda)

Fires(u) ==
  /\ ctx = "run" /\ call = NoCall
  /\ agenda # <<>>
  /\ First = u
  /\ wait[u] = 0

\* n instructions, never past the next event.
Execute ==
  /\ ctx = "run" /\ call = NoCall
  /\ agenda # <<>>
  /\ \E n \in 1 .. wait[First] :
       /\ wait' = [u \in UNITS \cup {Tick} |->
            IF u \in ToSet(agenda) THEN wait[u] - n ELSE wait[u]]
       /\ left' = [u \in UNITS |-> AtLeast0(left[u] - n)]
  /\ UNCHANGED <<lists, gathered, agenda, remaining, clk, ctx, call, due>>

\* Mutant: the seconds are not counted.
NextTicks_NoReset == rtc_ticks + 1

\* sim_rtcn_calb: a calibration every Hz ticks.
NextTicks == (rtc_ticks + 1) % Hz

\* A tick counts.
Counted == interval - 1

\* sim_timer_tick_svc: the clock's action (clk_svc) counts the tick and starts
\* the next one; then the tick counts for the co-scheduled units.
TickService ==
  /\ Fires(Tick) /\ assist
  /\ rtc_ticks' = NextTicks
  /\ rtc_hz' = Hz
  /\ Schedule(Tick, TickSize, Tail(agenda))
  /\ interval' = IF cosched = <<>> THEN 0 ELSE Counted
  /\ time' = IF cosched = <<>> THEN time
             ELSE [time EXCEPT ![Head(cosched)] = Counted]
  /\ due' = [u \in UNITS |->
       IF u \in Coscheduled /\ due[u] >= 0 THEN due[u] - 1 ELSE due[u]]
  /\ ctx' = IF Counted <= 0 /\ cosched # <<>> THEN "gather" ELSE "run"
  /\ UNCHANGED <<cosched, bound, cut, gathered, remaining, assist, call, left>>

\* The first tick after a stop: sim_process_event calls clk_svc itself.
ClockService ==
  /\ Fires(Tick) /\ ~assist
  /\ rtc_ticks' = NextTicks
  /\ rtc_hz' = Hz
  /\ assist' = TRUE
  /\ Schedule(Tick, TickSize, Tail(agenda))
  /\ UNCHANGED <<lists, gathered, remaining, ctx, call, due, left>>

\* Mutant: the loop ends at a unit that is due now.
GatherOn_Strict(n) == n < 0

\* The condition of the gathering loop, for the new sim_cosched_interval.
GatherOn(n) == n <= 0

\* One turn of the loop that takes the units due now off the list.
Gather ==
  LET u == Head(cosched)
      rest == Tail(cosched)
      next == IF rest = <<>> THEN 0 ELSE time[Head(rest)] + interval
  IN
  /\ ctx = "gather"
  /\ cosched' = rest
  /\ gathered' = Append(gathered, u)
  /\ interval' = next
  /\ time' = [v \in UNITS |->
       IF v = u THEN 0
       ELSE IF rest # <<>> /\ v = Head(rest) THEN next ELSE time[v]]
  /\ ctx' = IF rest # <<>> /\ GatherOn(next) THEN "gather" ELSE "dispatch"
  /\ cut' = (cut /\ rest # <<>>)
  /\ UNCHANGED <<bound, stdq, remaining, clk, call, due, left>>

\* Hand a gathered unit to the event queue, or schedule the rest of its delay.
Dispatch ==
  LET u == Head(gathered) IN
  /\ ctx = "dispatch" /\ call = NoCall
  /\ gathered # <<>>
  /\ gathered' = Tail(gathered)
  /\ bound' = Unbind(u)
  /\ due' = [due EXCEPT ![u] = 0]
  /\ \/ /\ remaining[u] = 0
        /\ Schedule(u, 0, agenda)
        /\ UNCHANGED <<cosched, time, interval, cut, remaining, call>>
     \/ /\ remaining[u] > 0
        /\ ActivateAfter(u, remaining[u], agenda)
  /\ UNCHANGED <<clk, ctx, left>>

DispatchDone ==
  /\ ctx = "dispatch" /\ call = NoCall
  /\ gathered = <<>>
  /\ ctx' = "run"
  /\ UNCHANGED <<lists, gathered, stdq, remaining, clk, call, due, left>>

\* sim_process_event takes a unit whose delay is not over.
FireRemnant ==
  /\ \E u \in UNITS :
       /\ Fires(u)
       /\ remaining[u] > 0
       /\ ActivateAfter(u, remaining[u], Tail(agenda))
  /\ UNCHANGED <<bound, gathered, clk, ctx, due, left>>

\* sim_process_event takes a unit and runs its action.
FireUnit ==
  /\ \E u \in UNITS :
       /\ Fires(u)
       /\ remaining[u] = 0
       /\ left' = [left EXCEPT ![u] = 0]
  /\ agenda' = Tail(agenda)
  /\ UNCHANGED <<lists, gathered, wait, remaining, clk, ctx, call, due>>

-----------------------------------------------------------------------------
(* sim_stop_timer_services and sim_start_timer_services                    *)

\* The tick goes back to the clock unit.
StopServices ==
  /\ ctx = "run" /\ call = NoCall
  /\ ctx' = "stopping"
  /\ assist' = FALSE
  /\ \/ /\ assist
        /\ wait[Tick] < MaxTickWait
        /\ \E i \in 1 .. Len(agenda) :
             /\ agenda[i] = Tick
             /\ Schedule(Tick, wait[Tick] + 1, RemoveAt(agenda, i))
        /\ call' = [op |-> "stop", base |-> wait[Tick] + 1, accum |-> 0]
     \/ /\ ~assist
        /\ call' = [op |-> "stop", base |-> 0, accum |-> 0]
        /\ UNCHANGED stdq
  /\ UNCHANGED <<lists, gathered, remaining, rtc_ticks, rtc_hz, due, left>>

\* "Move coscheduled units to the standard event queue", one at a time.
StopMove ==
  LET u == Head(cosched)
      accum == call.accum + time[u]
  IN
  /\ call.op = "stop"
  /\ cosched # <<>>
  /\ cosched' = Tail(cosched)
  /\ bound' = Unbind(u)
  /\ call' = [call EXCEPT !.accum = accum]
  /\ Schedule(u, call.base + accum * TickSize, agenda)
  /\ time' = [time EXCEPT ![u] = 0]
  /\ due' = [due EXCEPT ![u] = 0]
  /\ cut' = (cut /\ cosched' # <<>>)
  /\ UNCHANGED <<interval, gathered, remaining, clk, ctx, left>>

StopDone ==
  /\ call.op = "stop"
  /\ cosched = <<>>
  /\ interval' = 0
  /\ call' = NoCall
  /\ ctx' = "console"
  /\ UNCHANGED <<cosched, time, bound, cut, gathered, stdq, remaining, clk, due, left>>

\* run_cmd, with the sim_rtcn_init_all before it.
StartServices ==
  /\ ctx = "console" /\ call = NoCall
  /\ ctx' = "run"
  /\ rtc_ticks' = 0
  /\ rtc_hz' = 0
  /\ UNCHANGED <<lists, gathered, stdq, remaining, assist, call, due, left>>

-----------------------------------------------------------------------------
\* A run in which the line clock has just ticked for the first time.
Init ==
  /\ cosched = <<>>
  /\ time = [u \in UNITS |-> 0]
  /\ interval = 0
  /\ bound = [u \in UNITS |-> FALSE]
  /\ gathered = <<>>
  /\ agenda = <<Tick>>
  /\ wait = [u \in UNITS \cup {Tick} |-> IF u = Tick THEN TickSize ELSE 0]
  /\ remaining = [u \in UNITS |-> 0]
  /\ rtc_ticks = 1
  /\ rtc_hz = Hz
  /\ assist = TRUE
  /\ ctx = "run"
  /\ call = NoCall
  /\ due = [u \in UNITS |-> 0]
  /\ left = [u \in UNITS |-> 0]
  /\ cut = FALSE

Calling == \E u \in UNITS :
  \/ \E n \in Ticks : sim_clock_coschedule(u, n)
  \/ \E d \in Delays : sim_activate_after(u, d)
  \/ sim_cancel(u)

Ticking == TickService \/ ClockService \/ Gather \/ Dispatch \/ DispatchDone

Firing == FireRemnant \/ FireUnit

Next ==
  \/ Calling
  \/ ScanOn \/ Link
  \/ Execute
  \/ Ticking
  \/ Firing
  \/ StopServices \/ StopMove \/ StopDone \/ StartServices

Spec == Init /\ [][Next]_vars

-----------------------------------------------------------------------------
(* Properties *)

\* uptr->next is shared by all lists: a unit is on one of them at most, once,
\* and its cancel routine is the one for the list it is on.
OneList ==
  LET all == cosched \o gathered \o agenda IN
  /\ \A i, j \in 1 .. Len(all) : all[i] = all[j] => i = j
  /\ \A u \in UNITS : bound[u] <=> u \in Coscheduled \cup ToSet(gathered)
  /\ Tick \in ToSet(agenda)

\* The list is in tick order, its times are relative, sim_cosched_interval is
\* the time of the first unit, and all agree with the ticks still due, until a
\* first unit is cancelled; even then nobody is thought to be due later.
CoschedConsistent ==
  /\ cosched # <<>> /\ call.op # "stop" => interval <= due[Head(cosched)]
  /\ cosched # <<>> /\ call.op # "stop" /\ ~cut =>
       interval = due[Head(cosched)] /\ time[Head(cosched)] = interval
  /\ ~cut => \A i, j \in 1 .. Len(cosched) :
       i <= j => due[cosched[i]] <= due[cosched[j]]
  /\ ~cut => \A i \in 2 .. Len(cosched) :
       time[cosched[i]] = due[cosched[i]] - due[cosched[i - 1]]

\* A tick gathers all units that are due, and no other unless a first unit has
\* been cancelled: nobody is ever served late.
GatherExact ==
  ctx = "gather" =>
    /\ ~cut => due'[Head(cosched)] <= 0
    /\ ctx' = "dispatch" => \A u \in ToSet(cosched') : due'[u] > 0

TickExact == [][GatherExact]_vars

\* The rest of a long delay is never held by a unit that is not scheduled.
RemnantScheduled ==
  \A u \in UNITS : remaining[u] > 0 =>
    sim_is_active(u) \/ (call.op = "scan" /\ call.unit = u)
=============================================================================
