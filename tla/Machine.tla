------------------------------- MODULE Machine -------------------------------
(***************************************************************************)
(* Interrupts and traps of the PDP-11/70 (PDP11/pdp11_cpu.c, pdp11_io.c)   *)
(* with the devices of pdp11_stddev.c: the instruction loop of sim_instr,  *)
(* the assembled and the split PSW, the stack pointers and register sets   *)
(* of the modes, request bits and PIRQ, trap and interrupt entry, RTI and  *)
(* RTT, trace traps, WAIT, RESET, the stack limit, and stopping and        *)
(* continuing.                                                             *)
(*                                                                         *)
(* The machine is a record m; the routines are operators from record to    *)
(* record, and an action is one turn of the loop.  A program is a set of   *)
(* instructions for each place of the main program and of the handlers.    *)
(* Stacks count words, and every mode has its own.                         *)
(*                                                                         *)
(* Left out: memory management, condition codes, the traps that differ     *)
(* from BPT in their number only (illegal, EMT, TRAP), parity, power fail, *)
(* vectors that are not in memory, a stack limit register other than 0.    *)
(***************************************************************************)
EXTENDS Integers, Sequences, FiniteSets, SequencesExt

CONSTANTS
  Depth,       \* words of a stack
  Yellow,      \* STKL_Y: a kernel stack pointer below it is in the yellow zone
  Red,         \* STKL_R: and below this one in the red zone
  Scenarios    \* programs by name, and what devices and the operator may do

ASSUME MachineAssumption ==
  /\ Red \in Nat /\ Yellow \in Nat /\ Depth \in Nat
  /\ 4 <= Red /\ Red < Yellow /\ Yellow < Depth

VARIABLES
  m,           \* the machine
  left         \* the program, and what may still happen

vars == <<m, left>>

\* MD_KER, MD_SUP, MD_USR
KER == 0
SUP == 1
USR == 3
Mode == {KER, SUP, USR}

Device == {"CLK", "TTI", "TTO"}
PIR == {"PIR7", "PIR6", "PIR4"}
Source == Device \cup PIR

\* int_req: the highest level first, within a level the lowest bit.
SearchOrder == <<"PIR7", "PIR6", "CLK", "PIR4", "TTI", "TTO">>
Level == [s \in Source |->
  CASE s = "PIR7" -> 7 [] s \in {"PIR6", "CLK"} -> 6 [] OTHER -> 4]

\* trap_req in the order of its bits; "INT" is the bit above them.
TrapOrder == <<"RED", "NXM", "PRV", "BPT", "IOT", "TRC", "YEL">>
Trap == {"RED", "NXM", "PRV", "BPT", "IOT", "TRC", "YEL"}

Clears == [t \in Trap |->                                  \* trap_clear
  CASE t = "RED" -> {"RED", "YEL", "TRC", "NXM"}
    [] t = "NXM" -> {"NXM", "YEL", "TRC"}
    [] t \in {"PRV", "BPT", "IOT"} -> {t, "TRC"}
    [] OTHER -> {t}]

\* trap_vec, the vectors of the devices and PIRQ's: a handler for each.
Handler == [v \in Trap \cup Source |->
  CASE v \in {"RED", "NXM", "PRV", "YEL"} -> "v4"
    [] v \in {"BPT", "TRC"} -> "v14"
    [] v = "IOT" -> "v20"
    [] v = "CLK" -> "v100"
    [] v = "TTI" -> "v60"
    [] v = "TTO" -> "v64"
    [] OTHER -> "v240"]

First(order, S) == order[CHOOSE i \in DOMAIN order :
  order[i] \in S /\ \A j \in DOMAIN order : order[j] \in S => i <= j]

Program == Scenarios[left.name]

\* F of c.  (So written TLC evaluates c once, also under ENABLED.)
Then(c, F(_)) == CHOOSE d \in {F(e) : e \in {c}} : TRUE

PswWord(w) == <<"psw", w>>
PcWord(pc) == <<"pc", pc>>
DataWord == <<"data">>

\* What a word is when it is taken for a PSW, or for a PC: one that was not
\* made for it is 0, and the main program begins there.
AsPsw(word) ==
  IF word[1] = "psw" THEN word[2]
  ELSE [cm |-> KER, pm |-> KER, rs |-> 0, ipl |-> 0, t |-> FALSE]
AsPc(word) == IF word[1] = "pc" THEN word[2] ELSE [at |-> "main", n |-> 1]

\* There is no such word: memory ends with the stacks.
Missing(mode, a) == a \notin 0 .. Depth - 1 \/ <<mode, a>> \in Program.bad

\* What a PSW may be: there is no mode 2.
PSW == [cm : Mode, pm : Mode, rs : 0 .. 1, ipl : 0 .. 7, t : BOOLEAN]

\* A program is all there: each vector, and each PC on a stack, leads to an
\* instruction, and each PSW names a mode.
At(p, pc) ==
  /\ pc = [at |-> pc.at, n |-> pc.n]
  /\ pc.at \in DOMAIN p.code /\ pc.n \in DOMAIN p.code[pc.at]

Fair(p, word) ==
  /\ word[1] = "psw" => word[2].cm \in Mode
  /\ word[1] = "pc" => At(p, word[2])

ASSUME ScenarioAssumption ==
  \A name \in DOMAIN Scenarios :
    LET p == Scenarios[name]
    IN  /\ p.start \in PSW /\ At(p, [at |-> "main", n |-> 1])
        /\ \A v \in Trap \cup Source :
             p.vector[Handler[v]] \in PSW /\ At(p, [at |-> Handler[v], n |-> 1])
        /\ \A at \in DOMAIN p.code :
             /\ Len(p.code[at]) \in Nat /\ DOMAIN p.code[at] = 1 .. Len(p.code[at])
             /\ \A n \in DOMAIN p.code[at] : \A i \in p.code[at][n] :
                  /\ i.op = "push" => Fair(p, i.arg)
                  /\ i.op = "psw" => i.arg \in PSW

-----------------------------------------------------------------------------
(* The PSW *)

\* get_PSW
Psw(c) == [cm |-> c.cm, pm |-> c.pm, rs |-> c.rs, ipl |-> c.ipl, t |-> c.t]

Or(a, b) == IF a > b THEN a ELSE b   \* of two mode codes, of two bits

\* Mutant: a program can give itself any mode.
PutPSW_Unprotected(c, w, prot) ==
  [c EXCEPT !.cm = w.cm, !.pm = w.pm, !.rs = w.rs, !.ipl = w.ipl, !.t = w.t]

\* put_PSW: protected, modes and register set only rise and ipl stays.
PutPSW(c, w, prot) ==
  IF prot
  THEN [c EXCEPT !.cm = Or(@, w.cm), !.pm = Or(@, w.pm), !.rs = Or(@, w.rs),
                 !.t = w.t]
  ELSE [c EXCEPT !.cm = w.cm, !.pm = w.pm, !.rs = w.rs, !.ipl = w.ipl, !.t = w.t]

\* Registers R0-R5 change with the register set; their content is a value.
SwapSet(c, oldrs) ==
  IF c.rs = oldrs THEN c
  ELSE [c EXCEPT !.regs[oldrs] = c.r, !.r = c.regs[c.rs]]

\* The running variables are saved where the operator sees them.
Assemble(c) ==
  [c EXCEPT !.psw = Psw(c), !.regs[c.rs] = c.r, !.stk[c.cm] = c.sp]

\* What a program must find again when it goes on.
Context(c) == [psw |-> Psw(c), pc |-> c.pc, sp |-> c.sp, r |-> c.r]

-----------------------------------------------------------------------------
(* Requests *)

Requests(c, ipl) == {s \in c.int : Level[s] > ipl}

\* calc_ints
CalcInts(c) ==
  [c EXCEPT !.traps = IF Requests(c, c.ipl) # {} THEN @ \cup {"INT"}
                      ELSE @ \ {"INT"}]

\* SET_INT and CLR_INT; acked is history: the requests that were
\* acknowledged since they were made.
SetInt(c, s) == [c EXCEPT !.int = @ \cup {s}, !.acked = @ \ {s}]
ClrInt(c, s) == [c EXCEPT !.int = @ \ {s}]

\* put_PIRQ
PutPIRQ(c, levels) ==
  [c EXCEPT !.pirq = levels, !.int = (@ \ PIR) \cup levels, !.acked = @ \ levels]

\* UPDATE_SIM_TIME: a breakpoint is marked with the time of the last update.
UpdateTime(c) ==
  [c EXCEPT !.hit = IF c.spent THEN {} ELSE @, !.spent = FALSE]

-----------------------------------------------------------------------------
(* Leaving and entering sim_instr *)

Stop(c, why) == [UpdateTime(Assemble(c)) EXCEPT !.why = why]

Resume(c) ==
  LET w == PutPSW(c, c.psw, FALSE)
      r == [w EXCEPT !.r = w.regs[w.rs], !.sp = w.stk[w.cm], !.why = "run"]
  IN  CalcInts(PutPIRQ(r, c.pirq))

-----------------------------------------------------------------------------
(* Traps and interrupts *)

\* An abort while the PSW and the PC are pushed stops the simulator; on the
\* kernel stack it also asks for a red zone trap on an emergency stack.
PushAbort(c, mode) ==
  LET e == [c EXCEPT !.traps = @ \cup {"NXM", "RED"}, !.stk[KER] = 2,
                     !.sp = IF c.cm = KER THEN 2 ELSE @]
  IN  Stop(IF mode = KER THEN e ELSE [c EXCEPT !.traps = @ \cup {"NXM"}], "spabort")

\* set_stack_trap
StackTrap(c, sp) ==
  IF sp >= Red THEN [c EXCEPT !.traps = @ \cup {"YEL"}]
  ELSE [c EXCEPT !.traps = @ \cup {"RED"}, !.stk[KER] = 2, !.sp = 2]

\* Mutant: the pushes of an entry are not checked.
Limit_Off(c) == c

Limit(c) == IF c.cm = KER /\ c.sp < Yellow THEN StackTrap(c, c.sp) ELSE c

\* Mutant: the stack pointer of the interrupted mode is not saved.
Saved_Forgotten(c) == [c EXCEPT !.wait = FALSE, !.psw = Psw(c)]

\* The interrupted context goes where the entry finds it.
Saved(c) == [c EXCEPT !.wait = FALSE, !.stk[c.cm] = c.sp, !.psw = Psw(c)]

\* The new PC and PSW, when the old ones are pushed; of is the context that
\* is interrupted.
Entered(c, new, v, of) ==
  LET In(d) == [d EXCEPT !.sp = d.stk[d.cm] - 2, !.pc = [at |-> Handler[v], n |-> 1],
                         !.frames = Append(@, [mode |-> d.cm, sp |-> d.stk[d.cm] - 2,
                                               of |-> of])]
  IN  CalcInts(Then(SwapSet(PutPSW(c, [new EXCEPT !.pm = c.cm], FALSE), c.rs), In))

\* The handler of v takes over; checked when the stack limit is.
Enter(c0, v, checked) ==
  LET new == Program.vector[Handler[v]]
      Pushed(c) ==
        LET top == c.stk[new.cm]
            d == [c EXCEPT !.mem[new.cm][top - 1] = PswWord(c.psw)]
            e == [d EXCEPT !.mem[new.cm][top - 2] = PcWord(c.pc)]
        IN  IF Missing(new.cm, top - 1) THEN PushAbort(c, new.cm)
            ELSE IF Missing(new.cm, top - 2) THEN PushAbort(d, new.cm)
            ELSE IF checked THEN Then(Entered(e, new, v, Context(c0)), Limit)
            ELSE Entered(e, new, v, Context(c0))
  IN  Then(Saved(c0), Pushed)

Running == m.why = "run"

\* The first trap; a red zone trap stops the simulator (stop_trap).
TakeTrap ==
  /\ Running /\ m.traps \ {"INT"} # {}
  /\ \E t \in {First(TrapOrder, m.traps)} :
     \E c \in {Enter([m EXCEPT !.traps = @ \ Clears[t]], t, t \notin {"RED", "YEL"})} :
       m' = IF t = "RED" /\ c.why = "run" THEN Stop(c, "red") ELSE c
  /\ UNCHANGED left

\* get_vector
TakeInterrupt ==
  /\ Running /\ m.traps = {"INT"}
  /\ \E due \in {Requests(m, m.ipl)} :
     \E s \in {IF due = {} THEN "none" ELSE First(SearchOrder, due)} :
       m' = IF due = {} THEN CalcInts(m)
            ELSE Enter([m EXCEPT !.int = @ \ {s}, !.acked = @ \cup {s}], s, TRUE)
  /\ UNCHANGED left

-----------------------------------------------------------------------------
(* Events: sim_process_event between two instructions *)

Ready(c, d) ==
  LET e == [c EXCEPT !.done = @ \cup {d}]
  IN  IF d \in c.ie THEN SetInt(e, d) ELSE e

AfterEvents(c) == UpdateTime(CalcInts(PutPIRQ(c, c.pirq)))

\* tti_svc, with a character
Key ==
  /\ Running /\ left.keys > 0
  /\ m' = AfterEvents(Ready(Assemble(m), "TTI"))
  /\ left' = [left EXCEPT !.keys = @ - 1]

\* clk_svc
Tick ==
  /\ Running /\ left.ticks > 0
  /\ m' = AfterEvents(Ready(Assemble(m), "CLK"))
  /\ left' = [left EXCEPT !.ticks = @ - 1]

\* tto_svc
Printed ==
  /\ Running /\ m.printing
  /\ m' = AfterEvents(Ready([Assemble(m) EXCEPT !.printing = FALSE], "TTO"))
  /\ UNCHANGED left

\* Any other unit.
OtherEvent ==
  /\ Running
  /\ m' = AfterEvents(Assemble(m))
  /\ UNCHANGED left

\* A stop is asked for: stop_cpu, or a unit's status.
StopEvent ==
  /\ Running /\ left.stops > 0
  /\ m' = Stop(AfterEvents(Assemble(m)), "stop")
  /\ left' = [left EXCEPT !.stops = @ - 1]

\* CONTINUE.  (Bound: after a red zone trap, as often as the operator stops.)
Continue ==
  /\ ~Running
  /\ m.why = "red" => left.stops > 0
  /\ m' = Resume(m)
  /\ left' = [left EXCEPT !.stops = IF m.why = "red" THEN @ - 1 ELSE @]

-----------------------------------------------------------------------------
(* Instructions *)

Code == Program.code[m.pc.at]

Following(pc) == [pc EXCEPT !.n = IF @ = Len(Program.code[pc.at]) THEN 1 ELSE @ + 1]

Traced(c) == IF c.t THEN [c EXCEPT !.traps = @ \cup {"TRC"}] ELSE c

AtBreak == m.pc \in Program.breaks \ m.hit

\* A PC breakpoint: PC and PSW are put back to what was saved before the
\* instruction.  For the PSW that is the assembled one.
Breakpoint ==
  /\ Running /\ m.traps = {} /\ ~m.wait /\ AtBreak
  /\ LET c == [Traced(m) EXCEPT !.hit = @ \cup {m.pc}, !.found = <<Context(m)>>]
     IN  m' = Stop(PutPSW(c, c.psw, FALSE), "bkpt")
  /\ UNCHANGED left

\* The instruction at the PC, when it is one with operation op.
Run(op, Result(_, _)) ==
  /\ Running /\ m.traps = {} /\ ~m.wait /\ ~AtBreak
  /\ \E i \in {j \in Code[m.pc.n] : j.op = op} :
     \E c \in {[Traced(m) EXCEPT !.pc = Following(@), !.found = <<>>,
                                  !.spent = Program.breaks # {}]} :
       m' = Result(c, i)
  /\ UNCHANGED left

Aborted(c, t) == [c EXCEPT !.traps = @ \cup {t}]

Other(c, i) == c                             \* nothing of interest
Bad(c, i) == Aborted(c, "NXM")               \* no such memory
Bpt(c, i) == Aborted(c, "BPT")
Iot(c, i) == Aborted(c, "IOT")
Wait(c, i) == [c EXCEPT !.wait = TRUE]
Load(c, i) == [c EXCEPT !.r = i.arg]         \* a register is changed

Halt(c, i) == IF c.cm = KER THEN Stop(c, "halt") ELSE Aborted(c, "PRV")

\* Mutant: requests at the new level are not looked at.
Spl_Blind(c, i) == IF c.cm = KER THEN [c EXCEPT !.ipl = i.arg] ELSE c

Spl(c, i) == CalcInts(IF c.cm = KER THEN [c EXCEPT !.ipl = i.arg] ELSE c)

\* The devices' resets, and what RESET clears itself.
Reset(c, i) ==
  IF c.cm # KER THEN c
  ELSE UpdateTime([c EXCEPT !.done = {"TTO", "CLK"}, !.ie = {}, !.printing = FALSE,
                            !.pirq = {}, !.int = {}, !.traps = @ \ {"INT"}])

\* -(SP) as the destination of a move.
Push(c, i) ==
  LET d == Limit([c EXCEPT !.sp = @ - 1])
  IN  IF "RED" \in d.traps THEN d
      ELSE IF Missing(c.cm, d.sp) THEN Aborted(d, "NXM")
      ELSE [d EXCEPT !.mem[c.cm][d.sp] = i.arg]

\* (SP)+ as its source.
Pop(c, i) ==
  IF Missing(c.cm, c.sp) THEN Aborted([c EXCEPT !.sp = @ + 1], "NXM")
  ELSE [c EXCEPT !.sp = @ + 1]

\* frames is history: the contexts that handlers have interrupted.
Unwound(c) ==
  IF /\ c.frames # <<>> /\ Last(c.frames).mode = c.cm
     /\ Last(c.frames).sp = c.sp
  THEN [c EXCEPT !.frames = Front(@)] ELSE c

Popped(c, pc, w) ==
  LET In(d) == [d EXCEPT !.sp = d.stk[d.cm], !.pc = pc]
      up == [Unwound(c) EXCEPT !.stk[c.cm] = c.sp + 2]
  IN  CalcInts(Then(SwapSet(PutPSW(up, w, c.cm # KER), c.rs), In))

Return(c, immediate) ==
  LET Trace(d) == IF immediate /\ d.t THEN Aborted(d, "TRC") ELSE d
  IN  IF Missing(c.cm, c.sp) \/ Missing(c.cm, c.sp + 1) THEN Aborted(c, "NXM")
      ELSE Then(Popped(c, AsPc(c.mem[c.cm][c.sp]), AsPsw(c.mem[c.cm][c.sp + 1])), Trace)

\* Mutant: RTT traces at once as RTI does.
Rtt_Traced(c, i) == Return(c, TRUE)

Rti(c, i) == Return(c, TRUE)
Rtt(c, i) == Return(c, FALSE)

-----------------------------------------------------------------------------
(* Accesses to the I/O page: iopageR and iopageW recalculate *)

\* PSW_wr: the T bit stays.
WritePSW(c, i) ==
  LET In(d) == [d EXCEPT !.sp = d.stk[d.cm]]
      s == [c EXCEPT !.stk[c.cm] = c.sp]
  IN  CalcInts(Then(SwapSet(PutPSW(s, [i.arg EXCEPT !.t = c.t], FALSE), c.rs), In))

\* PIRQ_wr: the register keeps its request bits only.
WritePIRQ(c, i) == CalcInts(PutPIRQ(c, i.arg \cap PIR))

\* tti_rd, the buffer
ReadTTI(c, i) ==
  CalcInts(UpdateTime(ClrInt([c EXCEPT !.done = @ \ {"TTI"}], "TTI")))

\* tto_wr, the buffer; sim_activate leaves a unit alone that is waiting.
WriteTTO(c, i) ==
  LET e == ClrInt([c EXCEPT !.done = @ \ {"TTO"}, !.printing = TRUE], "TTO")
  IN  CalcInts(IF c.printing THEN e ELSE UpdateTime(e))

\* The unit whose register is written: tti_wr or tto_wr.
Terminal(i) == IF i.arg = "TTI" THEN "TTI" ELSE "TTO"

Enable(c, i) ==
  LET d == Terminal(i)
      e == [c EXCEPT !.ie = @ \cup {d}]
  IN  CalcInts(IF d \in c.done \ c.ie THEN SetInt(e, d) ELSE e)

Disable(c, i) ==
  CalcInts(ClrInt([c EXCEPT !.ie = @ \ {Terminal(i)}], Terminal(i)))

\* clk_wr: arg = IE and the monitor bit
WriteCLK(c, i) ==
  LET e == [c EXCEPT !.ie = IF i.arg[1] THEN @ \cup {"CLK"} ELSE @ \ {"CLK"},
                     !.done = IF i.arg[2] THEN @ ELSE @ \ {"CLK"}]
  IN  CalcInts(IF "CLK" \in e.ie \cap e.done THEN e ELSE ClrInt(e, "CLK"))

-----------------------------------------------------------------------------
Init ==
  /\ left \in {[name |-> p, keys |-> Scenarios[p].keys, ticks |-> Scenarios[p].ticks,
                stops |-> Scenarios[p].stops] : p \in DOMAIN Scenarios}
  /\ \E w \in {Program.start} :
     m = [cm |-> w.cm, pm |-> w.pm, rs |-> w.rs, ipl |-> w.ipl, t |-> w.t,
          psw |-> w, pc |-> [at |-> "main", n |-> 1], sp |-> Depth, r |-> 0,
          stk |-> [mode \in Mode |-> Depth], regs |-> [set \in 0 .. 1 |-> 0],
          mem |-> [mode \in Mode |-> [a \in 0 .. Depth - 1 |-> DataWord]],
          wait |-> FALSE, traps |-> {}, int |-> {}, pirq |-> {},
          done |-> {"TTO", "CLK"}, ie |-> Program.ie, printing |-> FALSE,
          why |-> "run", hit |-> {}, spent |-> FALSE,
          acked |-> {"TTO"}, frames |-> <<>>, found |-> <<>>]

Control ==
  \/ Run("other", Other) \/ Run("load", Load) \/ Run("nxm", Bad)
  \/ Run("bpt", Bpt) \/ Run("iot", Iot)
  \/ Run("halt", Halt) \/ Run("wait", Wait) \/ Run("spl", Spl)
  \/ Run("reset", Reset) \/ Run("rti", Rti) \/ Run("rtt", Rtt)
  \/ Run("push", Push) \/ Run("pop", Pop)

Access ==
  \/ Run("psw", WritePSW) \/ Run("pirq", WritePIRQ)
  \/ Run("tti", ReadTTI) \/ Run("tto", WriteTTO)
  \/ Run("enable", Enable) \/ Run("disable", Disable) \/ Run("clk", WriteCLK)

Turn == TakeTrap \/ TakeInterrupt \/ Control \/ Access \/ Breakpoint

Event == Key \/ Tick \/ Printed \/ OtherEvent \/ StopEvent

Next == Turn \/ Event \/ Continue

Spec == Init /\ [][Next]_vars

\* The loop turns: sim_interval counts instructions, so between two events
\* there are some.  Only of steady programs something is expected.
FairSpec == Spec /\ WF_vars(Program.steady /\ Turn)

-----------------------------------------------------------------------------
(* Properties *)

\* The machine has the types of the code's variables, and no kernel push has
\* gone below the emergency stack.
TypeOK ==
  /\ {Psw(m), m.psw} \subseteq PSW /\ At(Program, m.pc)
  /\ m.sp \in 0 .. Depth /\ \A mode \in Mode : m.stk[mode] \in 0 .. Depth
  /\ m.traps \subseteq Trap \cup {"INT"} /\ m.int \subseteq Source
  /\ m.pirq \subseteq PIR /\ m.done \cup m.ie \subseteq Device
  /\ {m.wait, m.printing, m.spent} \subseteq BOOLEAN
  /\ m.why \in {"run", "halt", "stop", "bkpt", "spabort", "red"}

\* calc_ints is called wherever a request or the level may have changed: at
\* the head of the loop TRAP_INT says exactly whether an interrupt is due.
IntFlag == Running => ("INT" \in m.traps <=> Requests(m, m.ipl) # {})

\* A request stands for something: the device is done and enabled, the bit
\* of PIRQ is set.  And what is done and enabled is requested, unless it was
\* acknowledged.  (The clock's register does not request by itself.)
RequestsTrue ==
  /\ m.int \cap Device \subseteq m.done \cap m.ie
  /\ (m.done \cap m.ie) \ {"CLK"} \subseteq m.int \cup m.acked
  /\ m.int \cap PIR \subseteq m.pirq /\ m.pirq \subseteq m.int \cup m.acked

\* No request is overlooked and none is made up, whatever order instructions,
\* register accesses, events, traps and stops come in.
RequestsSeen == IntFlag /\ RequestsTrue

\* A handler in kernel mode that returns puts the interrupted program back
\* exactly: modes, level, T bit, PC, the stack pointer of its mode and its
\* registers, however traps and interrupts were nested.
ContextRestored ==
  [][ Len(m'.frames) < Len(m.frames) /\ Last(m.frames).mode = KER
        => Context(m') = Last(m.frames).of ]_vars

\* A user program leaves user mode, or gets another level, only by entering
\* a handler: RTI and RTT with a PSW of its own making do not help it.
Confined ==
  m.cm = USR => \/ m'.cm = USR /\ m'.ipl = m.ipl
                \/ m'.pc.at # "main" /\ m'.pc.n = 1

UserConfined == [][Confined]_vars

\* A program that is interrupted, trapped and traced by handlers that return
\* with RTT goes on.
Progress ==
  \A n \in 1 .. 2 :
    []<>(Program.steady /\ Running => m.pc = [at |-> "main", n |-> n])

\* "That representation is up to date at this point": a stop at a breakpoint
\* shows, and CONTINUE finds, the PSW, the stack pointer and the registers
\* that the program had there.
BreakTransparent ==
  m.why = "bkpt" =>
    LET of == m.found[1]
    IN  /\ m.psw = of.psw /\ m.pc = of.pc
        /\ m.stk[of.psw.cm] = of.sp /\ m.regs[of.psw.rs] = of.r
=============================================================================
