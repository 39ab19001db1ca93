----------------------------- MODULE EventQueue -----------------------------
(***************************************************************************)
(* The event queue of the simulator (scp.c, "Event queue package"), driven *)
(* by the instruction loop of the PDP-11 (pdp11_cpu.c, sim_instr), by the  *)
(* unit actions it calls and by the RUN, STEP and BOOT commands.           *)
(*                                                                         *)
(* sim_clock_queue is a list of units in firing order; time[u] is relative *)
(* to the unit before it, and the time of the first unit is counted down   *)
(* in sim_interval, not in the unit.  UPDATE_SIM_TIME reconciles the two   *)
(* whenever a routine of the package is about to change the list.          *)
(*                                                                         *)
(* One thread runs all of it.  ctx says where it is, call holds a          *)
(* _sim_activate in progress, whose scan of the list is one step per       *)
(* element.  left and clock are history variables: the cycles that must    *)
(* still pass before a unit is due, recorded when it is linked, and the    *)
(* cycles the CPU has really executed (modulo RtMod).                      *)
(***************************************************************************)
EXTENDS Integers, Sequences, SequencesExt

CONSTANTS
  UNITS,          \* the units (device event sources)
  NoUnit,         \* "no unit"
  StepUnit,       \* sim_step_unit: its action ends the run (SCPE_STEP)
  NOQUEUE_WAIT,   \* interval used while the queue is empty
  Delays,         \* the delays units are activated with
  RtMod,          \* 2^32 of the uint32 sim_rtime
  BreakAfterDevice  \* may a data breakpoint follow a device access?

ASSUME UnitsAssumption == NoUnit \notin UNITS /\ StepUnit \in UNITS
ASSUME DelaysAssumption == Delays \subseteq Nat /\ NOQUEUE_WAIT \in Nat \ {0}
ASSUME RtModAssumption == RtMod \in Nat \ {0, 1} /\ RtMod % 2 = 0
ASSUME BreakAssumption == BreakAfterDevice \in BOOLEAN

VARIABLES
  queue,          \* sim_clock_queue and uptr->next
  time,           \* uptr->time
  sim_interval,   \* cycles to the next event
  noqueue_time,   \* what sim_interval was set to while the queue is empty
  sim_rtime,      \* global time with rollover
  remnant,        \* units with usecs_remaining # 0
  stop_cpu,       \* a stop was requested (^E, SIGTERM)
  saved_interval, \* saved_sim_interval of the instruction in progress
  ctx,            \* where the simulator's thread is
  current,        \* the unit whose event is being processed
  call,           \* the _sim_activate in progress
  left,           \* history: cycles until a queued unit is due
  clock           \* history: cycles executed, modulo RtMod

qvars == <<queue, time, sim_interval, noqueue_time, sim_rtime>>
cpuvars == <<stop_cpu, saved_interval, current>>
hist == <<left, clock>>
vars == <<qvars, remnant, cpuvars, ctx, call, hist>>

Contexts ==
  {"console",     \* at the prompt, no run in progress
   "fetch",       \* top of the instruction loop
   "execute",     \* in an instruction, no device touched yet
   "device",      \* in an instruction that called a queue routine
   "dispatch",    \* in sim_process_event, about to take the first unit
   "action",      \* in the action of current
   "rearm",       \* in sim_process_event, re-scheduling a long delay
   "stopped"}     \* sim_instr has returned to run_cmd

NoCall == [op |-> "none"]

Calls == {NoCall}
  \cup [op : {"enter"}, unit : UNITS, delay : Nat, more : BOOLEAN]
  \cup [op : {"scan"}, unit : UNITS, delay : Nat, more : BOOLEAN,
        accum : Int, prv : Nat]

TypeOK ==
  /\ queue \in Seq(UNITS)
  /\ time \in [UNITS -> Int]
  /\ sim_interval \in Int
  /\ noqueue_time \in Int
  /\ sim_rtime \in 0 .. RtMod - 1
  /\ remnant \subseteq UNITS
  /\ stop_cpu \in BOOLEAN
  /\ saved_interval \in Int
  /\ ctx \in Contexts
  /\ current \in UNITS \cup {NoUnit}
  /\ call \in Calls
  /\ left \in [UNITS -> Int]
  /\ clock \in 0 .. RtMod - 1

-----------------------------------------------------------------------------
Queued == ToSet(queue)

sim_is_active(u) == u \in Queued

\* Mutant: noqueue_time is not kept.
LastInterval_Const ==
  IF queue = <<>> THEN NOQUEUE_WAIT ELSE time[Head(queue)]

\* What sim_interval was when the queue was last touched.
LastInterval == IF queue = <<>> THEN noqueue_time ELSE time[Head(queue)]

\* Mutant: the time does not roll over.
sim_grtime_NoRollover == sim_rtime + (LastInterval - sim_interval)

\* The value sim_grtime returns.
sim_grtime == (sim_rtime + (LastInterval - sim_interval)) % RtMod

\* uptr->time of every unit after UPDATE_SIM_TIME.
UpdatedTime ==
  IF queue = <<>> THEN time ELSE [time EXCEPT ![Head(queue)] = sim_interval]

UPDATE_SIM_TIME ==
  /\ sim_rtime' = sim_grtime
  /\ time' = UpdatedTime
  /\ noqueue_time' = IF queue = <<>> THEN sim_interval ELSE noqueue_time
  /\ UNCHANGED <<queue, sim_interval>>

\* Mutant: a new head does not start a new countdown.
Rearm_Kept ==
  IF queue' = <<>>
  THEN sim_interval' = NOQUEUE_WAIT /\ noqueue_time' = NOQUEUE_WAIT
  ELSE UNCHANGED <<sim_interval, noqueue_time>>

\* The interval to wait for, once the list and its times are settled.
Rearm ==
  IF queue' = <<>>
  THEN sim_interval' = NOQUEUE_WAIT /\ noqueue_time' = NOQUEUE_WAIT
  ELSE sim_interval' = time'[Head(queue')] /\ UNCHANGED noqueue_time

\* sim_cancel of the unit at position i: its time goes to its successor.
UnlinkAt(i) ==
  /\ queue' = RemoveAt(queue, i)
  /\ time' = [u \in UNITS |->
       IF u = queue[i] THEN 0
       ELSE IF i < Len(queue) /\ u = queue[i + 1]
            THEN UpdatedTime[u] + UpdatedTime[queue[i]]
            ELSE UpdatedTime[u]]
  /\ Rearm
  /\ sim_rtime' = sim_grtime
  /\ remnant' = remnant \ {queue[i]}
  /\ left' = [left EXCEPT ![queue[i]] = 0]
  /\ UNCHANGED clock

\* sim_cancel
CancelUnit(u) ==
  \/ \E i \in 1 .. Len(queue) : queue[i] = u /\ UnlinkAt(i)
  \/ /\ queue # <<>>
     /\ ~sim_is_active(u)
     /\ UPDATE_SIM_TIME
     /\ UNCHANGED <<remnant, hist>>
  \/ /\ queue = <<>>
     /\ UNCHANGED <<qvars, remnant, hist>>

-----------------------------------------------------------------------------
(* Calls from the console, from an instruction and from a unit's action.   *)

CanCall == call = NoCall /\ ctx \in {"console", "execute", "device", "action"}

CalledFrom == IF ctx = "execute" THEN "device" ELSE ctx

EnterActivate(u, d, m) ==
  call' = [op |-> "enter", unit |-> u, delay |-> d, more |-> m]

\* sim_activate, and sim_activate_after whose delay m says is not complete
sim_activate(u, d, m) ==
  /\ CanCall
  /\ ctx' = CalledFrom
  /\ EnterActivate(u, d, m)
  /\ UNCHANGED <<qvars, remnant, cpuvars, hist>>

sim_activate_abs(u, d, m) ==
  /\ CanCall
  /\ CancelUnit(u)
  /\ ctx' = CalledFrom
  /\ EnterActivate(u, d, m)
  /\ UNCHANGED cpuvars

\* A time more than half the range ahead is taken to be in the past.
sim_activate_notbefore(u, rtime) ==
  LET ahead == (rtime - sim_grtime) % RtMod IN
  /\ CanCall
  /\ CancelUnit(u)
  /\ ctx' = CalledFrom
  /\ EnterActivate(u, IF RtMod \div 2 <= ahead THEN 0 ELSE ahead, FALSE)
  /\ UNCHANGED cpuvars

sim_cancel(u) ==
  /\ CanCall
  /\ CancelUnit(u)
  /\ ctx' = CalledFrom
  /\ UNCHANGED <<cpuvars, call>>

-----------------------------------------------------------------------------
(* _sim_activate                                                           *)

AlreadyActive ==
  /\ call.op = "enter"
  /\ sim_is_active(call.unit)
  /\ call' = NoCall
  /\ UNCHANGED <<qvars, remnant, cpuvars, ctx, hist>>

StartScan ==
  /\ call.op = "enter"
  /\ ~sim_is_active(call.unit)
  /\ UPDATE_SIM_TIME
  /\ call' = [op |-> "scan", unit |-> call.unit, delay |-> call.delay,
              more |-> call.more, accum |-> 0, prv |-> 0]
  /\ UNCHANGED <<remnant, cpuvars, ctx, hist>>

\* Mutant: a unit goes before those due at the same time.
AtPlace_First ==
  call.prv < Len(queue) =>
    call.delay <= call.accum + time[queue[call.prv + 1]]

\* Mutant: the delay is compared with a relative time.
AtPlace_Relative ==
  call.prv < Len(queue) => call.delay < time[queue[call.prv + 1]]

\* The unit belongs before the element after prv, or prv is the last one.
AtPlace ==
  call.prv < Len(queue) =>
    call.delay < call.accum + time[queue[call.prv + 1]]

ScanOn ==
  /\ call.op = "scan"
  /\ ~AtPlace
  /\ call' = [call EXCEPT !.accum = @ + time[queue[call.prv + 1]],
                          !.prv = @ + 1]
  /\ UNCHANGED <<qvars, remnant, cpuvars, ctx, hist>>

Link ==
  LET u == call.unit
      t == call.delay - call.accum
      p == call.prv
  IN
  /\ call.op = "scan"
  /\ AtPlace
  /\ queue' = InsertAt(queue, p + 1, u)
  /\ time' = [v \in UNITS |->
       IF v = u THEN t
       ELSE IF p < Len(queue) /\ v = queue[p + 1] THEN time[v] - t
       ELSE time[v]]
  /\ sim_interval' = time'[Head(queue')]
  /\ remnant' = IF call.more THEN remnant \cup {u} ELSE remnant \ {u}
  /\ left' = [left EXCEPT ![u] = call.delay]
  /\ call' = NoCall
  /\ UNCHANGED <<noqueue_time, sim_rtime, cpuvars, ctx, clock>>

-----------------------------------------------------------------------------
(* The instruction loop                                                    *)

\* n cycles pass: the history variables count them for every queued unit.
Elapsed(n) ==
  /\ left' = [u \in UNITS |-> IF u \in Queued THEN left[u] - n ELSE left[u]]
  /\ clock' = (clock + n) % RtMod

Execute ==
  /\ ctx = "fetch" /\ call = NoCall
  /\ sim_interval > 0
  /\ saved_interval' = sim_interval
  /\ sim_interval' = sim_interval - 1
  /\ ctx' = "execute"
  /\ Elapsed(1)
  /\ UNCHANGED <<queue, time, noqueue_time, sim_rtime, remnant, stop_cpu,
                 current, call>>

\* WAIT state: sim_idle counts down at most to the next event.
Idle ==
  /\ ctx = "fetch" /\ call = NoCall
  /\ \E n \in 1 .. sim_interval :
       /\ sim_interval' = sim_interval - n
       /\ Elapsed(n)
  /\ UNCHANGED <<queue, time, noqueue_time, sim_rtime, remnant, cpuvars, ctx,
                 call>>

EndInstruction ==
  /\ ctx \in {"execute", "device"} /\ call = NoCall
  /\ ctx' = "fetch"
  /\ UNCHANGED <<qvars, remnant, cpuvars, call, hist>>

\* HALT, a console halt, a stop condition: the loop ends.
StopRun ==
  /\ ctx \in {"fetch", "execute", "device"} /\ call = NoCall
  /\ ctx' = "stopped"
  /\ UNCHANGED <<qvars, remnant, cpuvars, call, hist>>

\* A data breakpoint: the instruction will be replayed from its start.
Breakpoint ==
  /\ ctx = "execute" \/ (ctx = "device" /\ BreakAfterDevice)
  /\ call = NoCall
  /\ sim_interval' = saved_interval
  /\ ctx' = "stopped"
  /\ Elapsed(-1)
  /\ UNCHANGED <<queue, time, noqueue_time, sim_rtime, remnant, cpuvars, call>>

\* int_handler
StopRequest ==
  /\ ctx # "console"
  /\ stop_cpu' = TRUE
  /\ UNCHANGED <<qvars, remnant, saved_interval, current, ctx, call, hist>>

-----------------------------------------------------------------------------
(* sim_process_event                                                       *)

\* Mutant: the loop looks for events one cycle too late.
Expired_Late == ctx = "fetch" /\ call = NoCall /\ sim_interval < 0

Expired == ctx = "fetch" /\ call = NoCall /\ sim_interval <= 0

ProcessStop ==
  /\ Expired
  /\ stop_cpu
  /\ stop_cpu' = FALSE
  /\ ctx' = "stopped"
  /\ UNCHANGED <<qvars, remnant, saved_interval, current, call, hist>>

ProcessEmpty ==
  /\ Expired
  /\ ~stop_cpu
  /\ queue = <<>>
  /\ sim_rtime' = sim_grtime
  /\ sim_interval' = NOQUEUE_WAIT
  /\ noqueue_time' = NOQUEUE_WAIT
  /\ UNCHANGED <<queue, time, remnant, cpuvars, ctx, call, hist>>

ProcessEvents ==
  /\ Expired
  /\ ~stop_cpu
  /\ queue # <<>>
  /\ UPDATE_SIM_TIME
  /\ ctx' = "dispatch"
  /\ UNCHANGED <<remnant, cpuvars, call, hist>>

\* Take the first unit off the list, then run its action or, when it has
\* time left that one delay could not express, schedule it again.
Dispatch ==
  LET u == Head(queue) IN
  /\ ctx = "dispatch"
  /\ queue' = Tail(queue)
  /\ time' = [time EXCEPT ![u] = 0]
  /\ Rearm
  /\ current' = u
  /\ \/ /\ u \notin remnant
        /\ ctx' = "action"
        /\ UNCHANGED <<remnant, call>>
     \/ /\ u \in remnant
        /\ ctx' = "rearm"
        /\ remnant' = remnant \ {u}
        /\ \E d \in Delays \ {0}, m \in BOOLEAN : EnterActivate(u, d, m)
  /\ UNCHANGED <<sim_rtime, stop_cpu, saved_interval, hist>>

\* Mutant: a stop request does not interrupt a chain of events.
MoreEvents_NoStop(ok) == ok /\ sim_interval <= 0 /\ queue # <<>>

\* sim_process_event goes on with the next unit.
MoreEvents(ok) == ok /\ sim_interval <= 0 /\ queue # <<>> /\ ~stop_cpu

\* The action returns; ok is reason == SCPE_OK.
ActionReturn(ok) ==
  /\ ctx \in {"action", "rearm"} /\ call = NoCall
  /\ ctx = "rearm" => ok
  /\ ctx = "action" /\ current = StepUnit => ~ok
  /\ current' = NoUnit
  /\ \/ /\ MoreEvents(ok)
        /\ ctx' = "dispatch"
        /\ UNCHANGED <<qvars, stop_cpu>>
     \/ /\ ~MoreEvents(ok)
        /\ IF queue = <<>>
           THEN sim_interval' = NOQUEUE_WAIT /\ noqueue_time' = NOQUEUE_WAIT
           ELSE UNCHANGED <<sim_interval, noqueue_time>>
        /\ ctx' = IF ok /\ ~stop_cpu THEN "fetch" ELSE "stopped"
        /\ stop_cpu' = (stop_cpu /\ ~ok)
        /\ UNCHANGED <<queue, time, sim_rtime>>
  /\ UNCHANGED <<remnant, saved_interval, call, hist>>

-----------------------------------------------------------------------------
(* run_cmd                                                                 *)

\* sim_run_boot_prep: RUN and BOOT empty the queue and restart the clock.
sim_run_boot_prep ==
  /\ ctx = "console" /\ call = NoCall
  /\ queue' = <<>>
  /\ time' = [u \in UNITS |-> IF u \in Queued THEN 0 ELSE time[u]]
  /\ sim_interval' = 0
  /\ noqueue_time' = 0
  /\ sim_rtime' = IF queue = <<>> THEN 0 ELSE time[Head(queue)] % RtMod
  /\ remnant' = remnant \ Queued
  /\ left' = [u \in UNITS |-> 0]
  /\ clock' = sim_rtime'
  /\ UNCHANGED <<cpuvars, ctx, call>>

\* The part common to RUN, STEP, CONTINUE and BOOT that starts sim_instr.
StartRun ==
  /\ ctx = "console" /\ call = NoCall
  /\ stop_cpu' = FALSE
  /\ ctx' = "fetch"
  /\ \/ call' = call
     \/ \E n \in Delays \ {0} : EnterActivate(StepUnit, n, FALSE)
  /\ UNCHANGED <<qvars, remnant, saved_interval, current, hist>>

\* After sim_instr: cancel the step timer and bring the time up to date.
EndRun ==
  /\ ctx = "stopped"
  /\ \/ \E i \in 1 .. Len(queue) : queue[i] = StepUnit /\ UnlinkAt(i)
     \/ /\ ~sim_is_active(StepUnit)
        /\ UPDATE_SIM_TIME
        /\ UNCHANGED <<remnant, hist>>
  /\ ctx' = "console"
  /\ UNCHANGED <<cpuvars, call>>

-----------------------------------------------------------------------------
Init ==
  /\ queue = <<>>
  /\ time = [u \in UNITS |-> 0]
  /\ sim_interval = 0
  /\ noqueue_time = 0
  /\ sim_rtime = 0
  /\ remnant = {}
  /\ stop_cpu = FALSE
  /\ saved_interval = 0
  /\ ctx = "console"
  /\ current = NoUnit
  /\ call = NoCall
  /\ left = [u \in UNITS |-> 0]
  /\ clock = 0

Calling ==
  \/ \E u \in UNITS \ {StepUnit} :
       \/ \E d \in Delays, m \in BOOLEAN :
            sim_activate(u, d, m) \/ sim_activate_abs(u, d, m)
       \/ \E r \in 0 .. RtMod - 1 : sim_activate_notbefore(u, r)
       \/ sim_cancel(u)

Activating == AlreadyActive \/ StartScan \/ ScanOn \/ Link

Processing == ProcessStop \/ ProcessEmpty \/ ProcessEvents \/ Dispatch

Next ==
  \/ Calling
  \/ Activating
  \/ Execute \/ Idle \/ EndInstruction \/ StopRun \/ Breakpoint
  \/ StopRequest
  \/ Processing
  \/ \E ok \in BOOLEAN : ActionReturn(ok)
  \/ sim_run_boot_prep \/ StartRun \/ EndRun

Spec == Init /\ [][Next]_vars

\* The thread keeps running.  Instructions and unit actions return after
\* finitely many calls, so their ends are strongly fair.
Fairness ==
  /\ WF_vars(Activating)
  /\ WF_vars(Execute)
  /\ WF_vars(Processing)
  /\ SF_vars(EndInstruction)
  /\ SF_vars(\E ok \in BOOLEAN : ActionReturn(ok))
  /\ WF_vars(EndRun)

FairSpec == Spec /\ Fairness

-----------------------------------------------------------------------------
(* Safety                                                                  *)

\* A unit is on the list at most once.
NoDuplicates ==
  \A i, j \in 1 .. Len(queue) : queue[i] = queue[j] => i = j

\* "The event queue is maintained in clock order".
ClockOrder ==
  \A i, j \in 1 .. Len(queue) : i <= j => left[queue[i]] <= left[queue[j]]

\* "entry timeouts are RELATIVE to the time in the previous entry", and the
\* first one is counted down in sim_interval.
RelativeTimes ==
  /\ queue # <<>> => sim_interval = left[Head(queue)]
  /\ \A i \in 2 .. Len(queue) :
       time[queue[i]] = left[queue[i]] - left[queue[i - 1]]

\* The list, its relative times and sim_interval always agree with the times
\* at which the queued units are really due (scp.c, sim_activate to
\* sim_process_event, called in any order from anywhere).
QueueConsistent == NoDuplicates /\ ClockOrder /\ RelativeTimes

\* sim_grtime is the number of cycles executed, whatever was queued, cancelled
\* or processed meanwhile and however often the time was brought up to date.
GlobalTimeTrue == sim_grtime = clock

\* The queue implements the agenda: exact times, first come first served.
Agenda == INSTANCE EventAgenda WITH agenda <- queue, running <- current

AgendaSpec == Agenda!Spec

(* Why it holds: the parts of the inductive invariant that the properties   *)
(* above do not state.                                                     *)

LeftBounds ==
  \A u \in UNITS : left[u] >= 0 /\ (u \notin Queued => left[u] = 0)

\* Where a _sim_activate may be in progress.
CallPlace ==
  call # NoCall => ctx \in {"console", "fetch", "device", "action", "rearm"}

\* What the scan has established about the elements it has passed.
ScanSound ==
  call.op = "scan" =>
    /\ call.unit \notin Queued
    /\ call.prv \in 0 .. Len(queue)
    /\ call.accum = IF call.prv = 0 THEN 0 ELSE left[queue[call.prv]]
    /\ queue # <<>> => time[Head(queue)] = sim_interval
    /\ \A i \in 1 .. call.prv : left[queue[i]] <= call.delay

\* sim_process_event takes a unit only when it is due.
DispatchSound ==
  ctx = "dispatch" => queue # <<>> /\ left[Head(queue)] = 0

\* What a breakpoint restores differs by the instruction alone.
ReplaySound ==
  ctx = "execute" => saved_interval = sim_interval + 1

ProcessingSound == current = NoUnit <=> ctx \notin {"action", "rearm"}

\* Within an event and a scan no cycle has passed since the last update.
Settled ==
  ctx \in {"dispatch", "action", "rearm"} \/ call.op = "scan" => LastInterval = sim_interval

IInv ==
  /\ TypeOK
  /\ QueueConsistent
  /\ LeftBounds
  /\ CallPlace
  /\ ScanSound
  /\ DispatchSound
  /\ ReplaySound
  /\ ProcessingSound

(* Liveness *)

\* A step of an instruction that takes a unit off the queue.
InstructionUnlinks ==
  ctx \in {"execute", "device"} /\ Len(queue') < Len(queue)

\* A stop request gets the user back to the prompt even when units keep
\* re-scheduling themselves at zero delay, unless the program goes on taking
\* units off the queue for ever (sim_process_event, stop_cpu).
StopHonoured ==
  <>[][~InstructionUnlinks]_vars => (stop_cpu ~> ctx = "console")

\* Unless units are scheduled at zero delay for ever, a queued unit fires or
\* is cancelled, or the run ends.
EventFires ==
  <>[][~(Link /\ call.delay = 0)]_vars =>
    \A u \in UNITS : (sim_is_active(u) ~> (~sim_is_active(u) \/ ctx = "console"))
=============================================================================
