# A TLA+ model of the PDP-11 emulator (SimH 4.x with REALCONS)

The emulator in `src/02.3_simh/4.x+realcons/src` is SimH's PDP-11 simulator with the REALCONS
extension, which lets a physical or simulated operator panel run it. The TLA+ modules here are
translated from its C sources. TLC checks them on small instances; what matters most is proved
with TLAPS for every value of the constants. Paths below are relative to that directory;
`REALCONS/` is one of its subdirectories.

## 1. Inventory

### The system

One thread does nearly everything. `scp.c` reads commands (`process_stdin_commands`); RUN, STEP,
CONTINUE and BOOT (`run_cmd`) call `sim_instr` in `PDP11/pdp11_cpu.c`, which executes instructions
until something stops it. Devices have no threads: a device asks to be called after so many
instructions (`sim_activate`), and `sim_instr` calls `sim_process_event` when `sim_interval` has
counted down to zero. `sim_timer.c` ties this simulated time to the wall clock by calibrating the
line clock, and offers co-scheduling with its ticks. A device that wants the CPU's attention sets a
request bit; the loop takes traps and interrupts before it fetches the next instruction. Every
hundred turns of the loop at most, and at most every 20 ms, `realcons_service` polls the panel;
what its switches ask for becomes a command line that the prompt reads as if it had been typed.
Around that thread there are a signal handler (`int_handler`) and, while a panel is connected and
the prompt waits, a helper thread that blocks in `readline`. The build does not define
SIM_ASYNCH_IO, so the asynchronous queues are not there. Concurrency in this program is therefore
mostly that of callbacks, of interrupts, of a protocol with its peer over the network, and of the
emulated machine's driver with the controller that shares its memory.

### Components

| Component | State | Operations | Talks to | What is hard |
|---|---|---|---|---|
| Event queue (`scp.c` 10109-10478) | `sim_clock_queue`, `uptr->time`, `sim_interval`, `noqueue_time`, `sim_rtime` | `sim_activate`, `_abs`, `_notbefore`, `_after`, `sim_cancel`, `sim_process_event`, `sim_grtime` | called by every device, the CPU loop, the timers, `run_cmd`; calls unit actions | times are relative to the previous unit and the first one lives in another variable; re-entrant calls from unit actions; zero delays; rollover; stop requests |
| Clock co-scheduling, long delays (`sim_timer.c`) | `sim_clock_cosched_queue`, `sim_cosched_interval`, `rtc_ticks`, `usecs_remaining`, `uptr->cancel` | `sim_clock_coschedule`, `sim_timer_tick_svc`, `_sim_coschedule_cancel`, `sim_timer_activate_after`, start and stop of the services | event queue, line clock, terminal and tape polling | one link field for three lists; units that return to the list while a tick empties it; delays pieced together over calibrations |
| Clock calibration, throttling, idling (`sim_timer.c`) | `rtc_*` arrays, throttle state | `sim_rtcn_calb`, `sim_idle`, `sim_throt_svc` | host clock | depends on wall-clock skew; catch-up ticks |
| CPU loop and run control (`PDP11/pdp11_cpu.c`, `run_cmd`) | PC, PSW, `wait_state`, `trap_req`, `sim_is_running`, step timer | `sim_instr`, `cpu_reset`, RUN, STEP, CONTINUE, BOOT | everything | order of the tests in the loop: WAIT before HALT, events before traps; breakpoints that replay an instruction |
| REALCONS framework (`REALCONS/realcons.c`) | connection, command buffer, prescaler | connect, disconnect, service, event dispatch | panel server, `scp.c`, CPU loop | polling in between instructions; commands executed later than they were given |
| Panel logic (`REALCONS/realcons_console_pdp11_*.c`) | switches, console address, step switch, error status | the service function and the machine's events | CPU signals, command buffer | state spread over the panel, the command buffer and the CPU; both update the address |
| Interrupts and traps (`pdp11_cpu.c`, `pdp11_io.c`) | `int_req`, `trap_req`, PIRQ, the PSW in ten variables, `STACKFILE`, `REGFILE` | `calc_ints`, `get_vector`, the trap loop, entry, RTI, RTT, SPL, RESET, PSW and PIRQ writes, stops | devices, event queue | a cached summary of the requests; state that is partly assembled; aborts in the middle of an entry; nesting across modes, register sets and stack limits |
| Memory management (`pdp11_cpu.c` 2690-3240) | `APRFILE`, `MMR0` to `MMR3`, `reg_mods` | `relocR`, `relocW`, their tests, `reloc_abort`, `GeteaW`, `GeteaB`, `calc_MMR1` | CPU loop, the operating system that serves the aborts | an abort in the middle of an instruction that has changed registers; MMR0 to MMR2 frozen by the first error; the W bit that says whether a page must be kept |
| FP11, CIS | registers | instruction semantics | CPU | arithmetic; CIS instructions that process events in their middle |
| Terminal, clock, paper tape (`pdp11_stddev.c`) | device registers | unit actions, register access | event queue, interrupts | requests that follow two bits and three kinds of access |
| MSCP disk and tape (`pdp11_rq.c`, `pdp11_tq.c`) | packet lists, credits, rings, port state | initialisation, polling, the commands, transfers, timer | event queue, the driver's memory | ring ownership, list surgery, credits, transfers in two halves, aborts |
| DDCMP lines (`pdp11_dmc.c`) | protocol variables, five buffer queues | the state table, transmitter, poll, timer, driver commands | peer over a socket, event queue | retransmission, restart after a lost connection, re-entrant scan, numbers modulo 256 |
| Ethernet, multiplexers (`pdp11_xq.c`, `pdp11_xu.c`, `sim_tmxr.c`) | connections, buffers | polling | sockets | connection states |
| Other peripherals | one controller each | unit actions | event queue | none of their own |
| Command interpreter, host I/O | files, terminal, breakpoints | parsing, reading and writing | the user | text |
| Blinkenlight API (`src/07.0_blinkenlight_api`) | control values | get and set by RPC | panel server | remote call fails |
| History buffer (`historybuffer.c`) | ring of lamp values | add, low-pass query | panel server | wrap-around |
| Java panel, vendored code | | | | not part of the core |

What makes each correct: the event queue fires every unit exactly when it is due, first come first
served, and keeps global time; co-scheduling serves a unit at its tick and never has a unit on two
lists; run control stops when it is asked to; the panel does what the DEC manual kept in
`REALCONS/realcons_pdp11_70.txt` says; no interrupt is overlooked or made up, and an interrupted
program finds everything as it was; a DDCMP pair delivers messages in order and reports as sent
only what has arrived; an MSCP controller answers every command once, in order, and always has
work it has accepted scheduled; a program under an operating system that pages does not notice that
its instructions are given up and begun again. `PROJECT.json` lists the components with what is modelled of each,
and the hazards at their lines.

## 2. Plan

Done in this order: the event queue, because everything runs on it, with its abstract
specification and proofs; co-scheduling, which builds on it; the 11/70 console, where the user, the
prompt and the CPU meet; the two device protocols with the hardest behaviour, DDCMP and MSCP, each
composed with the driver or peer it talks to; interrupts and traps with the devices of
`pdp11_stddev.c`; memory management with the operating system it is made for.

What would come next: the theorems about Ddcmp for slow lines and for writes that fail or stall; the refinement
of ReliableLink as a theorem; the tape controller, which is built on the lists of the disk controller; an abstract operator console, and the 11/40 and 11/20 controllers;
catch-up ticks and `sim_idle`; the low-pass query of the history buffer as a pure algorithm.

## 3. Modules

| Module | Models |
|---|---|
| `EventAgenda` | abstract: a sequence of pending units with the exact cycles left until each fires |
| `EventQueue` | the event queue, `run_cmd` around it and the parts of `sim_instr` that drive it |
| `EventQueueProofs` | theorems about EventQueue |
| `ListProofs` | lemmas about lists without duplicates, for both queues |
| `ClockQueue` | co-scheduling with the line clock and delays that reach beyond a calibration |
| `ClockQueueProofs` | theorems about ClockQueue |
| `Console` | the 11/70 panel, its service, the prompt and the CPU loop as the panel sees it |
| `ConsoleProofs` | theorems about Console |
| `Machine` | traps and interrupts of the 11/70, its modes and stacks, terminal and clock |
| `MachineProofs` | theorems about Machine |
| `PdpWord` | words, registers, virtual addresses and the halves of a word |
| `Plain` | abstract: a program whose memory is all there and whose instructions happen as a whole |
| `Paging` | memory management, operands and instructions of a program that is paged |
| `ReliableLink` | abstract: what two drivers may rely on between two DDCMP stations |
| `DdcmpNumber` | DDCMP's message numbers and their comparison |
| `Ddcmp` | two DMC11s, the line between them and their drivers |
| `DdcmpProofs` | theorems about the comparison and about Ddcmp at full speed |
| `Mscp` | the MSCP disk controller with the driver that shares its rings |
| `MscpProofs`, `MscpOrder` | theorems about Mscp |
| `MC...` | the instances for TLC |

EventQueue implements EventAgenda (`AgendaSpec`), Ddcmp implements ReliableLink (`Reliable`), Paging
implements Plain (`Transparent`).
ClockQueue uses the same agenda, an exact ordered list, for the standard queue. Ddcmp composes two
controllers, two drivers and a line; Mscp a controller and a driver; Machine the CPU and three
devices; Paging a processor and an operating system. What the event queue promises to devices, that a unit which is scheduled is served, is the
fairness of their services. Ddcmp, Mscp, Machine and Paging are written in one style: the state of the code's
routines is a record, a routine is an operator from record to record, an action is one call from
outside.

### EventQueue

Variables have the names of the C globals; `queue` is the linked list as a sequence. `ctx` is the
place of the one thread: at the prompt, at the top of the loop (`fetch`), in an instruction that
has not touched a device (`execute`) or has (`device`), in `sim_process_event` (`dispatch`), in a
unit's action (`action`), in the re-scheduling of a long delay (`rearm`), or out of `sim_instr`
and not yet through the end of `run_cmd` (`stopped`). `call` is a `_sim_activate` in progress: the
scan of the list is one step per element, so that a stop request can come in between; the scan
keeps what the C code keeps, the accumulated time and the predecessor. Cancelling is one step: it
reads nothing another thread writes.

`left` and `clock` are history: how many cycles each queued unit has still to wait, set from the
delay asked for when the unit is linked and counted down by every cycle executed, and the number
of cycles executed since the queue was last emptied by RUN. The properties compare the list, which
the code maintains by relative arithmetic, with these.

`remnant` is the set of units whose `usecs_remaining` is not zero: `sim_process_event` re-schedules
such a unit instead of calling its action. How long the rest is depends on the calibration and is
chosen freely here; ClockQueue has the arithmetic. After RUN `sim_rtime` restarts at what remained
of the first unit's time, as the code leaves it; `clock` restarts with it. The delays' int32 width,
and `sim_processing_event`, which only the catch-up code reads, are left out.

### ClockQueue

`cosched`, `time`, `interval` and `bound` are the co-schedule list, the relative ticks, the
counter `sim_cosched_interval` and the cancel routine; `gathered` is the list a tick has taken off
and is dispatching. `Tick` stands for the unit that carries the next tick: the clock assist unit
while the services run, the clock's own unit at the first tick after a stop, which does not go
through `sim_timer_tick_svc`. Starting a run forgets the clock's rate (`rtc_hz`, `sim_rtcn_init_all`) until
that tick: a unit that is co-scheduled in between goes straight to the standard queue. `Gather` moves one unit per step, `Dispatch` runs one per step.
`sim_activate_after` splits a long delay at the next calibration as `sim_timer_activate_after`
does. A stop moves the list to the standard queue, one unit per step, and a start leaves it there.

`due` and `left` are history: the ticks a unit must still see and the instructions of the delay
that was asked for; an overdue unit's `due` stays at -1.

One clock is modelled, and a tick always lasts `TickSize` instructions: what a calibration changes
is the size, which no property here depends on, and catch-up ticks need the wall clock. While the clock's rate is
unknown the code calibrates an internal timer instead (the test at `sim_timer.c:2505` is about that one) and puts
long delays on that timer's list, which the line clock's first tick moves to the standard queue, each unit with wait 1 and what
is left of its delay (2611-2617). Here such a delay goes on the clock's list at once. Two values
that nothing reads are normalised so that the state space is finite: `time` of a unit that is
on no list is 0, and `interval` is set to 0 by a tick that finds the list empty. Stopping and
continuing delays the tick by an instruction each time, since `sim_activate_time` returns one more
than is left; `MaxTickWait` bounds how far.

### Console

The panel's switches, switch register and knob are the values of the last poll. A poll
(`Service` between two instructions or in the 10 ms of a RESET, `PromptTurn` at the prompt) finds
any positions of the switches in `Operated`, runs the whole service function
(`ServicePowered`, `ServicePowerOff`, `ServiceCommand`) and leaves a command in `simh_cmd_buffer`.
At the prompt it is handed on at once to `line`, which stands for the characters pushed into the
terminal; `PanelCommand` executes it as `process_stdin_commands` does. `TypedCommand` is the
keyboard. Each command includes the REALCONS events it raises: `EventSR` ("PC -> SR"),
`EventAccess`, `ResetPC`. `console_mode` uses the HALT switch of the previous poll, as the code
does, and the positions of the switches are the ones of both polls, so that START sees both edges.

The CPU is what the panel can tell of it: an instruction ends with a new PC, HALT stops, WAIT
enters the wait state, RESET keeps the panel served; the HALT switch is tested at the end of an
instruction, and not in the wait state. Trap and interrupt are one action.

The console address is `Banks * LowSize` bytes instead of 2^22, with LowSize for 2^16 and the
registers near the top. Six virtual knob positions are one. `last` is history: the last operation
of a sequence of panel operations and the address it used; anything that is not LOAD ADRS, EXAM or
DEPOSIT with success ends the sequence (START ends the stepping, not the sequence). `fresh` is history
as well: the line at the prompt is what the last poll asked for, not something that was left in the buffer
while the CPU ran. `session` says what the user and the program do in a run;
of a session that is not lively nothing is expected to happen, and fairness is not assumed for it.

Simplifications, none of them about the order of things: at most one poll per turn of the CPU loop
(`serviced`; the code polls much more rarely); a line handed to the terminal is read before the
next poll 20 ms later and does not mix with keystrokes; the statuses of virtual accesses are an
arbitrary choice of success and NXM; the command file that a power-off reads holds a command that
ends the simulator; lamps and lamp test are not there, and the service always reaches the display.

### Machine

The record `m` holds what `sim_instr` keeps in variables while it runs (`cm`, `pm`, `rs`, `ipl`,
`t`, `sp`, `r`, `pc`, `wait`, `traps` for `trap_req` with "INT" for TRAP_INT) and what it keeps in
memory and registers (`psw` the assembled PSW, `stk` STACKFILE, `regs` REGFILE, `int` for
`int_req`, `pirq`, the devices' `done` and `ie`, `mem` the stacks). Which of the two is up to date
when is what the component is about, so every copy is modelled: `Assemble` before an event and at a
stop, `Resume` when `sim_instr` is entered, `SwapSet` when the register set changes, `Saved` and
`Entered` around the pushes of an entry. R0 to R5 change together, so one value stands for them.

One action is one turn of the loop: the first trap (`TakeTrap`), an interrupt (`TakeInterrupt`), a
PC breakpoint, or an instruction (`Run`). Accesses of the I/O page end in `CalcInts`, as `iopageR`
and `iopageW` do. Events come between two turns: a key, a tick, a printed character, another unit, a
stop. A word pushed is a PSW, a PC or data, and a stack counts words; `bad` are the words of a stack
that do not exist, which is how entries and returns abort. The red and yellow zones are `Red` and
`Yellow` words high. `frames`, `acked` and `found` are history: the contexts that handlers have
interrupted, the requests acknowledged since they were made, the context at the last breakpoint.
`hit` and `spent` are `time_fired` of the breakpoints: one that has fired is passed over while
`sim_time` has not moved on.

A scenario gives the instructions that may stand at each place of the main program and of the
handlers, the new PSWs of the vectors, and the events that may happen. Of the traps those are there
that differ by more than their number. Memory management is off, condition codes are not there.
`ScenarioAssumption` says that a program is all there: every vector, and every PC that is pushed, leads to
an instruction, and every PSW in it names a mode (mode 2 is not modelled). A word that is taken for a PSW
or a PC although it was not made for it is 0 (`AsPsw`, `AsPc`).

### Paging

The record `m` is the processor: registers, carry, page registers (`apr`: access field, length,
direction, frame, W), physical memory, the error bits `err` and the page of MMR0, MMR1 as the list of
its changes, MMR2, `mods` for `reg_mods`, `request` for TRAP_MME, and the local variables of an
instruction in progress. A routine is an operator from `m` to `m`; ABORT is a longjmp in the code, and
here `abort`, after which `Go` does nothing. One action is one turn of the instruction loop: an
instruction (`Turn`, whole or up to its abort), the trap (`TakeTrap`), and, for the kernel, the turns
that matter to MMR1 and MMR2 (`Work`, `Return`).

The operating system `os` is external, and does what the processor's handbook tells one to do: it
undoes the changes that MMR1 lists, takes MMR2 for the PC, brings in, opens or extends the page of
MMR0 (`Serve`), moves a page out when its frames are full or when an interrupt comes (`Steal`), and
writes it to the disk only if its W bit was set. `SeenRegisters` and `SeenMemory` are the refinement
mapping: the registers as the handler would restore them, and each page from memory or disk, wherever
it is. Under it every aborted attempt, trap and page move is a stutter of Plain, and the attempt that
succeeds is its Step. Plain says that Step is taken again and again, by `[]<><<Step>>_vars`: a Step
can always be taken, so this is its weak fairness.

A word is two bytes of `Bytes` values each. Words in memory stand for instructions, which `code` decodes, so
that fetching one is a reference like any other. Left out: the pages of the other modes, 16 and 18 bit
mapping, odd addresses, parity and missing memory, the A bit, and condition codes other than C. CLR and
its like are not among the instructions: they set the condition codes before a write that may abort,
which Plain would see, although the instruction sets them again when it is begun again.

### Ddcmp

A controller is a record with the DDCMP variables (`R`, `N`, `A`, `T`, `X`, the three send flags, the
timer) and the queues: `rcv` counts the receive buffers, `comp` is the completion queue, `xmtq` and
`ackw` the transmit and the ack wait queue, and `Free` is what is left of the pool. The state table
is scanned in its order, one operator per rule (`R4` to `R41`, with the numbers of `DDCMP_TABLE`); `ev`
is the event, `again` the second call that a transmission inside the
scan leaves for its end. The routines call each other: `ddcmp_dispatch` itself and `dmc_svc`, `dmc_svc`
the transmitter and the scan, the poll all of them. What is still to be called is the list `todo`, in the
order of the C stack; `Step` makes the next call and `Perform` all of them, as one action, because one
thread does. At full speed a packet completes as it is written, so the scan is entered
again at once; with `byte_wait` (speed "limited") the transmit service completes it later, and a reset may
put its buffer on the free queue meanwhile (`Freed`: the next control packet takes that buffer and counts as the one
being sent). A write that the line takes only in part returns SCPE_STALL and leaves its packet at the head of the
transmit queue: `room` is how many packets the line takes during an action.

`wire` is what is under way to a station or in its receive buffer. The first `here` packets of it have come in and
were left there, because the poll, and every service, reads only while the driver has a receive buffer (`Fill`); an action that
gives one reads on, and what it has to read is `unread` while it lasts. The corruption troll eats or bites packets that
have not come in, connections break, writes stall, drivers clear their controllers, and a new connection starts with
an empty line (`left` counts what may still happen). `sup`, `got`, `round`, `taken`, `floor` and `shuffled` are
history: the number of messages given by the driver, the peer's messages it has received, those of them since its
link was started, its own messages reported as sent, how many were thrown away by a master clear, and whether a reset has
put what is still to be sent in another order than the driver's. The socket and the drivers are external.

ReliableLink says what two drivers may rely on, in terms of these alone. Each message comes after those given
before it and never after it was reported, once between two starts of the receiver's link, with one exception, which is the
code's: a restart of the link may shuffle the messages that are not reported yet (section 7), and these come in any
order until all of them are reported. That is what Reliable promises, in every mixture of faults.

Left out: maintenance mode, the HALT command, the registers of the DMP11 and the handshake around a
command. A connection that is made reads nothing in its own poll. The packet a slow line is sending when its controller is cleared is taken to be done
with the clear: the code leaves it the current packet, and waits for its return time with `sim_activate_notbefore`, which is
wrong in the second half of the range of the time (section 7). A timer of the start-up expires
when nothing is being sent: it is set to seconds, and every poll completes the current packet. A driver gives no
more free receive buffers than there are messages to come. `WriteFails = FALSE` says that the poll, not a write, notices a broken
connection first: with TRUE the error of section 7 breaks Reliable and Delivered too.

### Mscp

A controller is a record: port state, `freq`, `rspq`, the queues `pktq` and current commands `cpkt` of
the units, credits, the rings, and what is scheduled (`qon`, `uon`, `ton`). A packet keeps of its 28
words what the properties look at. `QueueService` is one call of `rq_quesvc` with its four units, one
poll, dispatch and one response; `UnitService` is one call of `rq_svc`: the first half starts the disk
access, which fills the buffer `buf` and sets `io` (`io_complete`), the second half moves the data.
The driver fills command descriptors within its credits, reads IP, takes responses when it has been
interrupted and sleeps when there is none; it waits for SA to become 0 when it has initialised the
controller. Which access fails and how is the scenario's choice. Asynchronous I/O is not in the build:
the callback comes from within the first half.

The driver sets the flag F of every descriptor, so that each one of a ring asks for an interrupt when the ring changes from
empty or full; it is not modelled. A transfer whose data meet an error of the host's file stops the simulator
(SCPE_IOERR, `pdp11_rq.c:2247`) after the response is sent; here the program goes on, as it does when the user
continues. ONLINE of a unit whose disk is not there is answered with an error (`Usable`).

Left out: memory errors on the rings themselves, the tests of block numbers, counts and write locks (a
command is valid or not), vectors and interrupt enable, and what responses say.

## 4. Runs

| Run | Instance | Shows |
|---|---|---|
| `queue` | 3 units, one of them the step timer, delays 0 and 2, 2-bit time | TypeOK, QueueConsistent, GlobalTimeTrue, AgendaSpec |
| `queue_live` | 3 units, delays 0 and 1, 1-bit time, fairness | StopHonoured, EventFires |
| `clock` | 3 units, 0 to 2 ticks, delays across a calibration every 3 ticks | TypeOK, OneList, CoschedConsistent, RemnantScheduled, TickExact |
| `panel` | five sessions, nine typed commands, all opcodes, failing panel, fairness | TypeOK, AddressSequence, HaltShowsPC, StartsAtLoaded, HaltStopsInstructions, PowerOffExits |
| `machine` | twelve programs, fairness | TypeOK, RequestsSeen, ContextRestored, UserConfined, Progress |
| `paging` | twelve programs, four frames, one page taken, fairness | TypeOK, Transparent |
| `machine_bkpt` | a breakpoint in a handler | BreakTransparent is violated |
| `ddcmp` | seven scenarios: two packets lost or bitten; a packet lost and the connection broken, twice; a break and a master clear; a write that stalls; a slow line that loses a packet, and one that is cleared | TypeOK, Accounted, Agreement, NeverExhausted, Reliable |
| `ddcmp_live` | connections that break twice, and slow lines that break, with traffic both ways and with two messages one way; fairness | Delivered, Completed |
| `ddcmp_reset` | a write notices the broken connection | NoControlQueued is violated |
| `mscp` | thirteen programs of up to six commands, 5 packets, rings of 2, fairness | TypeOK, Accounted, OneAnswer, CreditsConserved, WorkScheduled, NoLostInterrupt, TimerWhenIdle, UnitOrder, Answered |
| `mscp_stale` | a transfer aborted between its halves | OwnData is violated |

Why the bounds are enough. Three units give a list with a first, a middle and a last element, each
of which may be cancelled or overtaken, and a fourth only repeats the middle. Delays 0 and 2 give
units due now, at the same time and later, and with NOQUEUE_WAIT = 2 the empty queue expires as
well. With RtMod = 4 the time rolls over in every long run. In ClockQueue a calibration every two
or three ticks and a delay of four instructions make a long delay span two calibrations. In Console
the switch register has a word below the registers (10), a word in another bank (4) and a
register (12), so that stepping meets the wrap within a bank, the error at the registers' edge and
the wrap of the registers; address 6 has no memory.

In Machine a stack of nine words takes two nested entries on the main program's data before the
yellow zone (6), a third in the red zone (4) and the emergency stack below it; six request lines have
two at one level, two of one device class and all kinds of PIRQ; the programs meet each trap at least
once with tracing and without. In Ddcmp each driver has three transmit and two receive buffers
outstanding, so that a second and a third message are under way while the first is lost, and a restart finds two messages in the
wrong order (two and one in `ddcmp_live`, so that a message also meets a driver that has none to spare); the numbers do not reach
256 in a run, which is why the comparison and the window are proved instead; the pool is two larger than what is outstanding, or more
(`ddcmp`: 7; the DMC11 has 14). `MaxCalls` bounds the routines one action
may call; an action that needed more would not be taken. 22 is too few for a connection that breaks; 25, 30 and 40 give the same states.
`Mirror` exchanges the two stations, so a scenario stands for its mirror image as well. In Mscp two descriptors per ring
make every ring full and wrap; five packets are the credits plus what error logs and attention need.

In Paging an address has four bits and a page two words of one block each, so that each of eight
pages can be there, absent, short at either end, read-only or watched, and operands lie across them. Four
frames hold the pages that one instruction of these programs needs, with the oldest one leaving
first, and fewer than the program has, so that pages go and come back, changed or not. The twelve
programs are three, with every addressing mode and instruction of the module among them, under four
habits of the operating system: pages opened fully, watched, write-protected until written, and short.

CHECK_DEADLOCK is off where the system really stops: in `panel`, when the simulator is shut down; in
the ddcmp and mscp runs, when the drivers have nothing more to say; in the machine runs, after a stop
(a HALT, a breakpoint, a red zone trap) when the scenario's `stops` are used up: `stops` bounds how often the operator stops
and continues a program. The other runs check for deadlock.

## 5. Fairness

The simulator is one thread that never waits for another while it runs, so a step it can take is
taken: weak fairness of the steps of a routine in progress, of the loop and of the events.
In EventQueue the end of an instruction and of a unit's action is strongly fair: instructions and
actions make finitely many calls, but the model lets them choose any number. `EventFires` and
`StopHonoured` exclude by their premise what the code cannot prevent: units that re-schedule
themselves at zero delay for ever, and a program that takes the due unit off the queue for ever.
In Console the loop's poll, its turn, the prompt's poll and the
execution of an injected line are weakly fair, and a step timer that is due ends the run; a turn
of the loop that completes an instruction is weakly fair too, that is, not every instruction is
aborted by a trap for ever. ClockQueue has safety properties only. Nothing says that an interrupt comes, that the user types, or that a
stop is requested.

In Machine the turns of the loop are weakly fair: `sim_interval` counts instructions, so events cannot
crowd them out. `Progress` is asked of the steady program only, whose handlers return. In Paging the loop and the operating system's handler go
on; that pages are taken is not fair.

In Ddcmp the poll, the services and the timer are weakly fair, because the event queue serves every
unit (`EventFires`); drivers take their completions, give receive buffers back, and the connection is
made again. `Delivered` and `Completed` exclude what no protocol survives, a troll that eats packets
for ever, and stations that a master clear has stopped. In Mscp the services are weakly fair for the
same reason, and the driver goes on with what it can do; the timer and the operator are not fair.
Nothing says that a driver ever issues a command.

## 6. Proofs

### The event queue

`EventQueueProofs`: `TypeStep`, every step keeps every variable's type; `Inductive`, `TypeCorrect` (Spec => []TypeOK) and `QueueCorrect`
(Spec => []QueueConsistent). QueueConsistent is not inductive: that a linked unit goes to its place
depends on what the scan has established so far (`ScanSound`: the accumulated time is the due time
of the predecessor, all units passed are due no later, and the first unit's time has been brought
up to date); that time left is never negative depends on `sim_process_event` taking a unit only
when it is due (`DispatchSound`); and a breakpoint gives back the cycle of an instruction only as
long as the instruction has not touched the queue (`ReplaySound`). `IInv` adds these, and where
a call may be in progress. The argument for a step is always the same: what the list says about the
unit at a position, in terms of `left`, before and after the step.

`GlobalTimeCorrect` (Spec => []GlobalTimeTrue) needs one more fact, `Settled`: inside an event or a scan
`sim_interval` is what it was at the last update. There the routines replace `sim_interval` and the first
unit's time without adding what has elapsed to `sim_rtime`, which is right only if nothing has. The rest is
arithmetic: the roll-over may happen before or after cycles are added (`ModShift`).

`ImplementsAgenda` (Spec => AgendaSpec): each step of the queue is a step of
the agenda or leaves it unchanged. Linking after the scan is `Insert`, by ScanSound.

The theorems assume what the module's assumptions say of the constants (the step timer is a unit,
delays are natural numbers, the range of the time is even) and `BreakAfterDevice = FALSE`. The last is
not a convenience: with TRUE QueueConsistent is false (section 7).

### Co-scheduling

`ClockQueueProofs`: `TypeCorrect` (Spec => []TypeOK), `ListsApart` (Spec => []OneList) and `NoDelayLost`
(Spec => []RemnantScheduled), for any units, delays, tick counts and lengths of a tick and of a
calibration. The code has one link field for three lists, and the only thing that says which list a
unit is on is its `cancel` pointer; `IInv` therefore says that the three lists have no unit in common
and none twice (`Apart`), and that the pointer is set exactly for units on the co-schedule list or on
the list a tick has gathered (`Places`). `CallSound` is what makes the middle of a call inductive: the unit
of a scan is on no list until the scan ends, so that linking it cannot make a second place, and while a
tick gathers nothing else is in progress and there is something to gather. RemnantScheduled follows
along with it: a unit that leaves a list with a rest to wait is the unit of the scan that
re-schedules it, or has its rest cleared by the cancel.

`CoschedCorrect` (Spec => []CoschedConsistent) and `TicksExact` (Spec => TickExact) are about the times on
the list. They are relative, each to the unit before, and cancelling the first unit leaves
`sim_cosched_interval` as it was, which shifts the times of all units behind it; after that neither
property says when a unit is due, and both still say that nobody is late. `TicksCounted` therefore
states that there are counts `b`, one for each unit on the list, that the code really keeps: the relative
times are their differences, they are in order, the first one is the interval, and none is ahead of the ticks
still due. Until a first unit is cancelled they are the ticks still due. The counts are an existential
witness, not history: each step of the code names the new counts in terms of the old ones. The middle of a scan
needs that the sum so far is the count of the predecessor, and that the new unit belongs behind it
(`Scanned`); the gathering of a tick that it takes exactly the counts that have run out.

`ListProofs` has the lemmas about sequences that both queues rest on: members of a list after
inserting, removing and taking the tail, and that these keep a list without duplicates.

### The DDCMP link

`DdcmpProofs` begins with the comparison of numbers: for any modulus larger than twice the pool, `CompareTrue` says that
`Mod256Cmp` gives the order of two true numbers that are no further apart than the pool, although it
sees only their residues, and `WindowOrder` that within a window of that size it is a strict order.
The assumption is the code's restriction: at 128 buffers, which a DMR11 may be given, two numbers
may be 128 apart and the comparison is ambiguous.

The rest is about the two controllers and their line: `TypeCorrect` (TypeOK), `NothingForgotten` (Accounted), `EndsAgree`
(Agreement), `BuffersSuffice` (NeverExhausted) and `OnlyMessagesNumbered` (NoControlQueued), each as
Spec => [](left.speed = "full" => ...). They hold for any number of messages, so that numbers wrap as often
as they like, and for any packets lost or bitten, connections broken and controllers cleared, in any combination. They assume

- lines at full speed, which a scenario says once and for all (`byte_wait` is 0 unless the user sets a speed), and
  writes that do not stall (`Calm`);
- `WriteFails = FALSE`: with TRUE, NoControlQueued is false, which is what the run `ddcmp_reset` shows, so its theorem
  says that the error needs a write that fails;
- MaxXmt + MaxRcv < Pool: one buffer to spare is enough at full speed, because a control packet is given back
  before the next one is built;
- 3 * MaxXmt <= Modulus, and the comparison's Modulus > 2 * Pool.

None of the five is inductive. `IInv` (`InvAlways`) has two parts.

Of a controller between two actions (`Settled`): nothing is being sent, what waits for an acknowledgement is a
numbered message and no buffer is a control packet (`Shaped`), a driver has no more outstanding than it may (`Room`), every
message is reported or on a queue (`Kept`), and in the states of the protocol the ack wait queue and the transmit queue
together are a `Window`: every number after A up to N is there, none twice, and T is one of them or the next. Two more parts
of the window were found by failed proofs. A message that is sent again (rule 37) leaves its place in the ack wait
queue, so the queue is not in the order of the numbers; `CompleteAckedTransmits` stops at the first number that is
after RESP, and compares modulo 256. `Recent` says that what waits to be sent again is not far behind N, and `Followed` that
a message of the ack wait queue far behind N has its successors behind it; together they keep an old number from
being taken for a new one, and this is where 3 * MaxXmt <= Modulus is needed.

Of the two ends and what is on its way between them (`Pair`, twice `Half`): a station that is in Halt while the socket is up
has been sent STARTs at most (`Silent`); START, STACK and the rest arrive in this order (`Phased`), and neither end is more than a state behind
(`InStep`); the acknowledgements on their way arrive in order and lie between A and N (`Answers`), what they acknowledge has
been received, and what has been received was sent (`Known`, which is Agreement and more); and a message on the line is no more than
`Reach` behind N, counted from what the other end has received, nor than that behind the one before it (`Behind`), so that a copy that comes late is not
taken for the next message. Lost packets leave this as it is, because it is a statement about all packets of the line and the
order of any two (`Thin`). That START in Run (rule 20) is never received at full speed falls out (`NoStart`).

The proof follows the code. Each routine and each rule has a lemma that says what it leaves alone and what it
does to the window and the line, and a scan goes through them in the order of the table; when it has sent something,
its end adds the two calls of the recursion. `Working` is what holds between two of the calls one action makes, with the rest of the
system as a frame around the controller, and `Step` keeps it; an action therefore leaves the controller settled when
no call is left, however many there were.

### The operator console

`ConsoleProofs`: `TypeCorrect` (Spec => []TypeOK), `SequencesStep` (Spec => []AddressSequence),
`HaltShowsAnAddress` (Spec => []HaltShowsPC) and `StartLoaded` (Spec => StartsAtLoaded), for any number of
banks, any even size of them, any registers in one bank, any memory and whatever a session does. What an
access must use depends on the last operation and its address, which only the history has; the code keeps
the same thing in three places, the console address (SR and SWR), the step switch and the error status.
`IInv` says that they agree whenever the prompt waits with the panel connected (`Matched`, under
`Sequenced`): the console address is the one of the last operation, and stepping is armed for EXAM after
EXAM and for DEPOSIT after DEPOSIT. Between the poll that steps the address and the access that uses it
they do not agree; then the command in `line` must be right (`FreshFormat`, AddressSequence), and the
access brings them together again, because `EventAccess` sets the console address as LOAD ADRS does.
`LastStatus` is needed because an error clears the SR at the next poll. That stepping the lower half of the
address gives the next word of the bank, or the next register, is lemma `Stepped`, on top of a few lemmas about
division.

The proof corrected the property. A first version asked the same of every access that the panel's logic had
put into the buffer, and its invariant was not inductive: a command can stay in the buffer while the CPU
runs and be executed after the sequence it belongs to (section 7). TLC found nothing because no session
mixed these operations; the session `Mixing` does.

### The MSCP controller

`MscpProofs`: `WorkAlwaysScheduled` (Spec => []WorkScheduled), for any number of packets and
descriptors, any units and any programs. WorkScheduled holds between two services only, and says
nothing of a controller that is not up. `IInv` therefore adds `Wf`, which types the lists a service
walks, and `Idle`: a controller that is not up has nothing to do, which is what `rq_reset` leaves and
what makes the initialisation's last step start with an idle controller. The routines that send a
packet are described by `Kept`: they either end in `rq_fatal` or leave everything alone but the
response queue, and schedule the queue service when they put something on it; the proof composes
these facts along the calls of each service, as the code does.

The second half of the module carries a stronger statement, `Sound`, through the same routines, and gives
`TypeCorrect` (Spec => []TypeOK), `PacketsAccounted` (Spec => []Accounted), `EveryCommandOnce`
(Spec => []OneAnswer), `NoCreditLost` (Spec => []CreditsConserved), `TimerStops` (Spec => []TimerWhenIdle)
and `InterruptNotLost` (Spec => []NoLostInterrupt). A routine has packets in hand
that are on no list yet or no more, so `Sound(c, a, b, g)` counts up to two of them: `rq_abo` has its own
packet and the one it aborts. Its parts:

- `Counted` and `Covered`: the lists have as many places as there are packets, and each packet has one.
  That no packet has two follows by counting (`OnlyOnce`, the pigeonhole principle for finite sets), and
  with it that the packet `rq_deqf` takes is on no other list (`HeadFresh`), which is what writing into it
  requires. Stated as lists without duplicates this would have to be kept for each pair of lists.
- `Homed`: a command waits on the queue of its own unit; without it a command taken from a queue could be
  started on another unit, whose current command would be lost. On the response queue are only end
  messages and the controller's own ones, so that a command is not mistaken for its answer.
- `Placed`: while the controller works, each command the driver waits for is at one place, and nothing else
  is at any: a descriptor of the command ring, a packet that is not free, or a descriptor of the response
  ring (`Located`). OneAnswer counts over three sets, which no step of a proof can follow; this says the
  same by a function from places to commands (`Ref`), and each routine moves one command to a new place
  (`MovedPlace`), brings one (`NewPlace`), takes one away (`OldPlace`) or leaves all where they are
  (`SamePlaces`). The counts follow at the end, once (`Counts`).
- `Balanced`, the other half of `Placed`: the credits of both sides, those in the answers under way and one for
  each command the driver waits for make half the packets. An answer that is put into the ring takes from the
  controller what it carries, an answer that is taken gives it to the driver, and a command that is issued
  costs one. What the ring carries is a sum over its descriptors (`Carried`, a function by recursion on their
  number), and the proof needs of it only that it changes by what one descriptor changes by (`CarriedStep`; `CarriedNone`
  for an empty ring). The library's induction takes an operator as its parameter, which the prover cannot instantiate; the
  lemmas use the least counterexample instead (`First`, `UpTo`): a set of naturals without a least member is
  empty.
- `Quiet`: while the host timer runs no packet holds a command. The timer is started by the packet that
  leaves pbsy at 1, and `LastOne` shows that then nothing else is in use.
- `RingOk`: there is a number n such that the n descriptors from the driver's index on are the driver's and
  the controller's index is right behind them, and if n > 0 and the driver sleeps, the interrupt is
  requested. The controller tests only the descriptor before the one it returns; `InterruptSound` shows that
  this one is the controller's exactly when n was 0 (or the ring has one descriptor).
- `Agree`: while the controller is being initialised, how far the driver is, so that the controller goes up
  with both indices at 0 and all descriptors of the response ring given to it.

`SInv` is Sound with empty hands, together with the driver's types; it is inductive with IInv
(`SInvAlways`). TLC had checked it on the instance of the run `mscp` first.

`MscpOrder`: `UnitInOrder` (Spec => UnitOrder). References are given out in the order of issue, and `OInv`
(`OInvAlways`) says that each unit's commands keep that order wherever they wait: the last one that ran, those
on the unit's queue, those in the command ring from the controller's index on, and the next one to be issued
(`Growing`, `Below`, `Later`). For the ring this takes that the n commands in it are in a row, in order, and
the driver's index right behind them (`Issued`). Most routines move no command (`Unmoved`); `rq_getpkt` takes the
first of the ring, a unit takes the head of its queue, and either has its turn then (`Turn`). That a command
from the ring does not overtake one that waits needs Sound: when the ring is polled, a unit without a current
command has an empty queue (`Handled`); and that its packet is on no queue, so that writing into it changes none
(`HeadFresh`). After a fatal error or an initialisation the ring starts anew: the controller goes up with
both indices at 0, and the references go on.

### Interrupt requests

`MachineProofs`: `NoRequestOverlooked` (Spec => []RequestsSeen), for every program, vector, stack size and
device behaviour that `Scenarios` may hold. RequestsSeen is inductive with the types of three fields
(`Wf`), so `IInv` (`IInvAlways`) adds only these. The argument follows the code: what `int_req`, PIRQ and the
devices' bits say of each other (`Stands`) is kept by each access and each service; TRAP_INT may be stale
inside a routine, and each routine that changes a request or the level ends in `calc_ints` (`CalcInts`),
clears both (RESET), or leaves `sim_instr`, which calculates anew when it is entered again. No fact about the
stacks is needed: an entry whose pushes abort stops, or ends in `calc_ints` as well.

### User programs

`UserStaysConfined` (Spec => UserConfined): a user program leaves user mode, or changes its level, only by
entering a handler, whatever it pushes for RTI and RTT, and wherever it is interrupted, stopped and continued.
It assumes that there are no PC breakpoints, which put back an old PSW (`machine_bkpt`, section 7), and that
no instruction writes to the PSW's address: with memory management left out, nothing else keeps a user from it.
`OnlyExposedSteps` assumes neither, of any program: it says the same of each step at which no such breakpoint
stands and no such instruction may be next. Two facts about the state carry the proof (`UInv`). `Sound`: modes
exist, the PC and each PC on a stack lead to an instruction, each PSW on a stack names a mode, and the traps
and requests that are set have a vector, so that what TakeTrap and TakeInterrupt find first does too (`FirstOf`,
`Orders`). `Held`: a machine that stands shows the mode and the level it stands in, because every way out of
`sim_instr` assembles the PSW (`StopCalm`); so CONTINUE goes on in them (`ResumeObeys`). Most routines leave
mode, level, PC and memory alone (`Calm`); RTI and RTT of a user cannot lower the mode because it is the highest
code and a protected `put_PSW` only raises (`HigherMode`, `PoppedObeys`).

### What is only model-checked

- Liveness, which is out of the prover's reach: StopHonoured, EventFires, HaltStopsInstructions,
  PowerOffExits, Progress, Delivered, Completed, Answered, and the liveness in Transparent.
- Ddcmp on slow lines and with writes that stall, where a packet stays on the transmit queue while the protocol goes on. And
  Reliable, with the exception to the order that it states: the runs include scenarios that lose a packet and break the
  connection, so that the exception is met. A larger one, three messages and one with a loss and a break (331,000 states), was checked
  outside the runs.
- TypeOK and ContextRestored in Machine, TypeOK and Transparent in Paging: they hold because the
  programs in Scenarios and Programs keep to a discipline (a handler returns with RTI, a stack stays in its
  page), not for every memory, so a theorem would be about these programs. UserConfined is also checked on
  programs beyond the theorem's assumptions: one that writes to the PSW's address, and one with a breakpoint.

## 7. Findings

By runs:

- `machine_bkpt`: a PC breakpoint puts PSW back to a copy that is only up to date after events and
  explicit accesses (`PDP11/pdp11_cpu.c:1079`). In a handler it restores the PSW of the interrupted
  program, stores the kernel's stack pointer as the user's, and CONTINUE goes on in user mode.
- `ddcmp_reset`: the loop that removes control packets from the transmit queue looks at the head of the
  queue at every turn, so one behind a data packet stays, is numbered and sent as a message
  (`PDP11/pdp11_dmc.c:3070`).
- `mscp_stale`: an aborted transfer leaves `io_complete` set, and the next one of that unit begins with
  its second half, on the data of the first (`PDP11/pdp11_rq.c:2197`).

By changing a constant of a run, or noticed while modelling.

Event queue and timers:

- With BreakAfterDevice = TRUE `queue` finds GlobalTimeTrue and QueueConsistent violated: a data breakpoint restores the
  `sim_interval` of before the instruction, although the instruction may have called the queue
  meanwhile (`pdp11_cpu.c:900`).
- Cancelling the first of several co-scheduled units leaves the counter as it was, so the next unit is
  served at the tick of the cancelled one, early (`sim_timer.c:2758`). The history variable `cut` marks this:
  CoschedConsistent and TickExact say that units are served exactly at their ticks while it is FALSE, and never late
  in any case.
- A long delay ends a tick early for each calibration it spans (`sim_timer.c:2513`; the comment at 2497
  promises an accurate expiration).
- 0 and 1 tick of co-scheduling mean the same, although the comment at `sim_timer.c:2668` tells them
  apart (`sim_timer.c:1939`).

Console:

- With a panel connected, RUN with an argument starts at the console address: the reset of the CPU
  overwrites the PC after the argument was deposited (`realcons_console_pdp11_70.c:500`; `scp.c:871`
  says that RUN deposits its argument and starts execution). START is not affected: it uses the same
  address for both.
- An EXAM or DEPOSIT pressed while a CPU in WAIT has HALT on already is only handed to the prompt after the next
  stop, and at the address it was pressed with: after a LOAD ADRS in the poll that hands it on, the access
  is made at the old address, and makes that the console address again (`realcons_console_pdp11_70.c:934`,
  `realcons.c:647`).
- START between two EXAMs ends the stepping: the second one uses the same address again
  (`realcons_console_pdp11_70.c:892`).
- HALT has no effect on a CPU in WAIT until an interrupt comes (`pdp11_cpu.c:1067`).
- START gives a command while the processor is still running, when HALT is on
  (`realcons_console_pdp11_70.c:815`); the invalid console address "never visible!" is displayed between
  HALT and the next end of an instruction (`realcons_console_pdp11_70.c:1045`); a RUN refused because of
  the HALT switch has already reset the machine (`scp.c:7213`); two switch actions before the prompt
  reads the buffer leave one command (`realcons_console_pdp11_70.c:934`).

Machine (`PDP11/pdp11_cpu.c`):

- The trace trap is requested (1065) before the PC breakpoint is tested (1081): a breakpoint on a traced
  instruction is followed by a trace trap before the instruction.
- Undoing register changes at a breakpoint, `reg_mods` is shifted right as a signed value, and a
  negative second change never lets the loop end (910-917).
- PIRQ's requests are made anew after every event (981), whether they were acknowledged or not; an
  interrupt whose entry aborts is lost; the red zone trap does not clear MME (387-390).
- `sim_brk_test` marks a breakpoint with the time of the last update while `sim_brk_fnd_ex` compares it
  with the current time (`scp.c:10866`, `scp.c:10590`): after CONTINUE a breakpoint may fire once more
  with no instruction executed.
- Setting IE of the line clock while DONE is set makes no request (`pdp11_stddev.c:438-451`), other than
  for the terminal.
- A key given by the panel overwrites a character that was not read yet (`pdp11_stddev.c:297`).

Memory management (`PDP11/pdp11_cpu.c`):

- With PcBreaks = TRUE `paging` finds Transparent violated: while PC breakpoints are set the loop
  relocates the PC (1082) before it notes it in MMR2 and clears MMR1 (1088), so a page fault on the
  fetch leaves the MMR1 and MMR2 of the instruction before, and the operating system begins that one
  again.
- The comment on MMR1 in the list of changes (36) says that it does not track changes of the PC; a
  change of the PC is in it when another register changes after it in the same instruction (248, 2697).
  A handler that takes the PC from MMR2 does not notice.
- `relocW` sets the W bit in a copy of the page register that it read before its test, so the A bit
  that the test has set is lost (3228-3233).

DDCMP (`PDP11/pdp11_dmc.c`):

- A message that is sent again moves to the end of the transmit queue (3257), and when the link is then
  reset, what waits for an acknowledgement is put in front of it (3060) and everything is numbered anew: messages
  arrive in another order than the driver gave them. It takes a lost packet and a broken connection. ReliableLink states it as its
  exception (`shuffled`); without it `ddcmp` finds Reliable violated.
- A station whose driver never gives a message does not enter the running state (2909).
- A message that is acknowledged while its copy waits in the transmit queue completes only when a later
  one is acknowledged, out of order.
- At full speed the timer's rules find nothing to repeat: a lost last message is sent again only after
  the next one. A NAK for a missing message is not followed by a start of the transmitter.
- On a slow line the packet being written when the link is reset has its header zeroed; when the write that restarts the link
  stalls as well, the packet completes in the new link and is put on the ack wait queue with the number 0 (3060, 3602). Agreement is
  violated with Case("limited", 1, 1, 0, 1, 0, 0), so writes stall at full speed only in the runs.
- A data message that stalls in the running state stays on the transmit queue with its header built, where no rule looks for it, until something else
  is sent (3602): Delivered is violated with Case("full", 2, 1, 0, 1, 0, 0), so no write stalls in `ddcmp_live`. With a pool of 6 for two
  transmit and two receive buffers, the control packets of a stalled line exhaust it.
- A controller on a slow line that is cleared while it sends keeps the packet for the current one, with a return time of 0
  (2508, 2710); `sim_activate_notbefore` takes 0 for the past only in the first half of the time's range, so in the second half the service waits
  until the time rolls over, or until something else schedules it (2563, `scp.c:10265`).
- On a slow line `Pool` buffers must exceed what the driver has outstanding by two, or a control packet meets the
  "fatal error which should never happen" (2722). On a fast line one is enough (BuffersSuffice).

MSCP (`PDP11/pdp11_rq.c`):

- A write none of whose words can be read starts nothing and is never answered (2191).
- A response may overtake those that wait for a descriptor; an IP read before the controller is up is
  ignored.

## 8. Not modelled

The semantics of most instructions, EIS, floating point and CIS are sequential computations on data, and so
are 16 and 18 bit mapping, the Unibus map and the pages of supervisor and kernel;
an interruptible CIS instruction calls `sim_process_event` in its middle (`PDP11/pdp11_cis.c:1630`),
which the event queue sees as a call between two instructions. Peripherals other than those above have
one sequential controller each, and repeat what the event queue and Machine show. Asynchronous I/O is
not in the build. Calibration, throttling, idling and
catch-up ticks (`sim_timer.c:1460`) depend on the host's clock. Ethernet and
the multiplexers hand frames and characters to sockets; parsing, printing, files and terminals are I/O.
The tape controller, the 11/40 and 11/20 panels and the history buffer are in section 2. The Java panel,
slirp, the display library and jsap are not the program's own core.

## 9. Running

    tlc -config queue.cfg MCEventQueue        (and so on, see PROJECT.json)
    tlapm MscpOrder.tla

`clock`, `queue_live`, `ddcmp_live`, `machine`, `mscp`, `paging` and `panel` take a minute or two each, the
proofs of ConsoleProofs, ClockQueueProofs, EventQueueProofs, DdcmpProofs, MscpProofs and MscpOrder up to fifteen minutes each.
