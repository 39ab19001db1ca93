------------------------------ MODULE Console ------------------------------
(***************************************************************************)
(* The 11/70 operator console: the panel logic                             *)
(* (REALCONS/realcons_console_pdp11_70.c), its polling service             *)
(* (REALCONS/realcons.c), the command loop of SimH that executes what the  *)
(* panel asks for (scp.c) and the part of the CPU's instruction loop that  *)
(* the HALT switch acts on (PDP11/pdp11_cpu.c).                            *)
(*                                                                         *)
(* A switch never changes the machine itself: it writes a SimH             *)
(* command into simh_cmd_buffer, which the prompt reads as if it had been  *)
(* typed; the command then signals its effect back to the panel logic.     *)
(* The user is the environment: each poll finds the switches wherever they *)
(* have been put.                                                          *)
(*                                                                         *)
(* The 22-bit console address is SWR<21:16> over SR<15:0>; LowSize stands  *)
(* for 2^16.  last and fresh are history variables: the last operation of  *)
(* a panel sequence with the address it used, and whether the line at the  *)
(* prompt is what the last poll asked for.                                 *)
(***************************************************************************)
EXTENDS Integers, Sequences, SequencesExt

CONSTANTS
  Sessions,    \* what the user and the program do (see session)
  LowSize,     \* 2^16
  Banks,       \* number of values of the address bits 21:16
  FirstReg, LastReg, \* the general registers, 017777700 to 017777717
  PCReg,       \* the register that is the PC, 017777707
  NXM,         \* addresses without memory
  InvalidSR    \* 0x123456, what RUN leaves in the data path SR

Momentary == <<"LOAD_ADRS", "EXAM", "DEPOSIT", "CONT", "START">>
Switches == ToSet(Momentary) \cup {"HALT", "PANEL_LOCK", "POWER"}

Low == 0 .. LowSize - 1
Addresses == 0 .. Banks * LowSize - 1

\* Commands of the keyboard, with the arguments SimH accepts.
Keyboard ==
  [op : {"reset", "step", "cont", "shutdown", "run_here", "boot"}]
  \cup [op : {"run"}, pc : Nat]
  \cup [op : {"go"}, pc : Low]
  \cup [op : {"examine"}, addr : Addresses, virt : BOOLEAN]
  \cup [op : {"deposit"}, addr : Addresses, virt : BOOLEAN, val : Low]

ASSUME ConsoleAssumption ==
  /\ LowSize \in Nat \ {0} /\ LowSize % 2 = 0
  /\ Banks \in Nat \ {0}
  /\ FirstReg \in Addresses /\ FirstReg % 2 = 0 /\ FirstReg > 1
  /\ LastReg \in Addresses /\ FirstReg < LastReg
  /\ FirstReg \div LowSize = LastReg \div LowSize
  /\ PCReg \in FirstReg .. LastReg
  /\ NXM \subseteq Addresses
  /\ InvalidSR \in Nat \ Low
  /\ \A s \in Sessions :
       /\ s.operated \subseteq Switches
       /\ s.sr \subseteq Addresses
       /\ s.knob \subseteq {"CONS_PHY", "PROG_PHY", "VIRTUAL"} /\ s.knob # {}
       /\ s.pcs \subseteq Low
       /\ s.opcodes \subseteq {"any", "halt", "wait", "reset"}
       /\ s.typed \subseteq Keyboard
       /\ {s.mayfail, s.lively} \subseteq BOOLEAN

VARIABLES
  connected,         \* the panel server is connected
  switch,            \* switch positions of the last poll
  switch_SR,         \* switch register of the last poll
  ADDR_SELECT,       \* knob position of the last poll
  console_halt,      \* realcons_console_halt
  simh_cmd_buffer,   \* command of the panel for the SimH prompt
  line,              \* the line the prompt has got from the panel
  datapathSR,        \* loaded_address_15_00_datapathSR
  datapathSWR,       \* bits 21:16 of loaded_address_datapathSWR
  autoinc,           \* autoinc_addr_action_switch
  memory_status,     \* realcons_memory_status: is it SCPE_NXM?
  last_memory_status,\* the same, for the panel: the error has been raised
  ctx,               \* what the simulator's thread is doing
  PC,                \* the program counter
  wait_state,        \* the CPU is in a WAIT instruction
  step,              \* the step timer of STEP: off, armed or due
  serviced,          \* the panel was polled in this turn of the loop
  last,              \* history: last operation of a panel sequence
  fresh,             \* history: line is an access the last poll asked for
  session            \* what is used of the panel and the machine

Operated == session.operated   \* the switches the user moves
SRValues == session.sr         \* what the user sets the switch register to
Knob == session.knob           \* positions of ADDR_SELECT used
Typed == session.typed         \* commands typed at the keyboard
Opcodes == session.opcodes     \* kinds of instructions the program executes
PCs == session.pcs             \* values an instruction or an interrupt gives the PC
MayFail == session.mayfail     \* may the connection to the panel fail?
Lively == session.lively       \* is something expected to happen at last?

panel == <<connected, switch, switch_SR, ADDR_SELECT, console_halt>>
logic == <<datapathSR, datapathSWR, autoinc, memory_status, last_memory_status>>
cmdvars == <<simh_cmd_buffer, line, fresh>>
cpu == <<ctx, PC, wait_state, step>>
vars == <<panel, logic, cmdvars, cpu, serviced, last>>

Contexts == {"prompt", "run", "reset", "exit"}

sim_is_running == ctx \in {"run", "reset"}

NoCmd == [op |-> "none"]

Commands == {NoCmd}
  \cup [op : {"reset", "step", "cont", "shutdown"}]
  \cup [op : {"run"}, pc : Nat]
  \cup [op : {"examine"}, addr : Addresses, virt : BOOLEAN]
  \cup [op : {"deposit"}, addr : Addresses, virt : BOOLEAN, val : Low]

NoOperation == [op |-> "none"]

TypeOK ==
  /\ connected \in BOOLEAN
  /\ switch \in [Switches -> BOOLEAN]
  /\ switch_SR \in Addresses
  /\ ADDR_SELECT \in {"CONS_PHY", "PROG_PHY", "VIRTUAL"}
  /\ console_halt \in BOOLEAN
  /\ simh_cmd_buffer \in Commands
  /\ line \in Commands
  /\ datapathSR \in Low \cup {InvalidSR}
  /\ datapathSWR \in 0 .. Banks - 1
  /\ autoinc \in {"none", "EXAM", "DEPOSIT"}
  /\ memory_status \in {"OK", "NXM"}
  /\ last_memory_status \in {"OK", "NXM"}
  /\ ctx \in Contexts
  /\ PC \in Low
  /\ wait_state \in BOOLEAN
  /\ step \in {"off", "armed", "due"}
  /\ serviced \in BOOLEAN
  /\ last \in {NoOperation}
       \cup [op : {"LOAD_ADRS", "EXAM", "DEPOSIT", "START"}, addr : Addresses]
  /\ fresh \in BOOLEAN

-----------------------------------------------------------------------------
(* Addresses *)

LowBits(a) == a % LowSize
Bank(a) == a \div LowSize
Word(a) == a - (a % 2)

IsReg(a) == a \in FirstReg .. LastReg

loaded_address_22bit(sr, swr) == LowBits(sr) + swr * LowSize

LastWord == FirstReg - 2

\* Mutant: the registers are stepped through by two.
increment_address_Words(a) == (a + 2) % (Banks * LowSize)

increment_address(a) ==
  IF a = LastReg THEN FirstReg
  ELSE IF IsReg(a) THEN a + 1
  ELSE (a + 2) % (Banks * LowSize)

Virtual(knob) == knob = "VIRTUAL"

\* The address in the command, as realcons_console_pdp11_70_addr_panel2simh.
addr_panel2simh(a, knob) ==
  IF Virtual(knob) THEN LowBits(a) ELSE IF IsReg(a) THEN a ELSE Word(a)

-----------------------------------------------------------------------------
(* realcons_console_pdp11_70_service, for the positions sw, sr and knob    *)

\* START acts on both edges, the others when they are pressed.
Moved(s, sw) == IF s = "START" THEN sw[s] # switch[s] ELSE sw[s] /\ ~switch[s]

console_mode == ~sim_is_running \/ console_halt

\* At most one switch acts per poll, and only in console mode.
action_switch(sw) ==
  LET moved == {i \in DOMAIN Momentary : Moved(Momentary[i], sw)} IN
  IF sw["PANEL_LOCK"] \/ ~console_mode \/ moved = {} THEN "none"
  ELSE Momentary[Min(moved)]

\* ADRS ERR: the first time it is seen the console address is cleared.
AddressError == memory_status = "NXM"
ErrorRaised == AddressError /\ console_mode /\ last_memory_status # "NXM"
ErrorSR == IF ErrorRaised THEN 0 ELSE datapathSR

ErrorAutoinc == IF AddressError THEN "none" ELSE autoinc

ErrorLast ==
  IF ~AddressError THEN "OK"
  ELSE IF console_mode THEN "NXM" ELSE last_memory_status

Stepping(act) == act # "none" /\ act = ErrorAutoinc

\* Stepping from memory into the registers is an error.
StepError(act) ==
  Stepping(act) /\ loaded_address_22bit(ErrorSR, datapathSWR) = LastWord

\* Mutant: LOAD ADRS sets the upper bits only.
ActionSR_KeptByLoad(act, sr) ==
  IF StepError(act) THEN LowBits(sr)
  ELSE IF Stepping(act)
    THEN LowBits(increment_address(loaded_address_22bit(ErrorSR, datapathSWR)))
  ELSE ErrorSR

\* Mutant: LOAD ADRS takes all 22 bits.
ActionSR_Wide(act, sr) ==
  IF act = "LOAD_ADRS" \/ StepError(act) THEN sr
  ELSE IF Stepping(act)
    THEN LowBits(increment_address(loaded_address_22bit(ErrorSR, datapathSWR)))
  ELSE ErrorSR

\* The data path SR after the action.
ActionSR(act, sr) ==
  IF act = "LOAD_ADRS" \/ StepError(act) THEN LowBits(sr)
  ELSE IF Stepping(act)
    THEN LowBits(increment_address(loaded_address_22bit(ErrorSR, datapathSWR)))
  ELSE ErrorSR

ActionSWR(act, sr) == IF act = "LOAD_ADRS" THEN Bank(sr) ELSE datapathSWR

ActionAutoinc(act) ==
  IF act = "none" THEN ErrorAutoinc
  ELSE IF act \in {"EXAM", "DEPOSIT"} /\ ~StepError(act) THEN act
  ELSE "none"

ActionStatus(act, sw) ==
  IF StepError(act) THEN "NXM"
  ELSE IF act = "LOAD_ADRS" \/ (act = "START" /\ sw["START"] /\ sw["HALT"])
    THEN "OK"
  ELSE memory_status

\* The command the action writes into simh_cmd_buffer.
ActionCommand(act, sw, sr, knob) ==
  LET a == loaded_address_22bit(ActionSR(act, sr), datapathSWR) IN
  CASE act = "EXAM" /\ ~StepError(act) ->
         [op |-> "examine", addr |-> addr_panel2simh(a, knob),
          virt |-> Virtual(knob)]
    [] act = "DEPOSIT" /\ ~StepError(act) ->
         [op |-> "deposit", addr |-> addr_panel2simh(a, knob),
          virt |-> Virtual(knob), val |-> LowBits(sr)]
    [] act = "START" /\ sw["START"] /\ sw["HALT"] -> [op |-> "reset"]
    [] act = "START" /\ ~sw["START"] /\ ~sw["HALT"] ->
         [op |-> "run", pc |-> ActionSR(act, sr)]
    [] act = "CONT" /\ sw["HALT"] -> [op |-> "step"]
    [] act = "CONT" /\ ~sw["HALT"] -> [op |-> "cont"]
    [] OTHER -> simh_cmd_buffer

\* While the CPU runs, the display of CONS PHY destroys the SR.
DisplayedSR(act, sr, knob) ==
  IF ~console_mode /\ knob = "CONS_PHY" THEN InvalidSR ELSE ActionSR(act, sr)

\* What the operation of a sequence is, and when the sequence is over.  START
\* breaks off stepping, but not the sequence.
Follow(act, sr, knob) ==
  IF act = "LOAD_ADRS" THEN [op |-> act, addr |-> sr]
  ELSE IF StepError(act) \/ ErrorRaised \/ act = "CONT" \/ knob # ADDR_SELECT
    THEN NoOperation
  ELSE IF act = "START" /\ last.op \in {"EXAM", "DEPOSIT"} THEN [last EXCEPT !.op = act]
  ELSE last

ServicePowered(sw, sr, knob) ==
  LET act == action_switch(sw) IN
  /\ sw["POWER"]
  /\ console_halt' = (sw["HALT"] /\ ~sw["PANEL_LOCK"])
  /\ datapathSR' = DisplayedSR(act, sr, knob)
  /\ datapathSWR' = ActionSWR(act, sr)
  /\ autoinc' = ActionAutoinc(act)
  /\ memory_status' = ActionStatus(act, sw)
  /\ last_memory_status' = IF StepError(act) THEN "NXM" ELSE ErrorLast
  /\ last' = Follow(act, sr, knob)

\* Mutant: HALT is followed while the power is off.
ServicePowerOff_HaltFollowed(sw) ==
  /\ ~sw["POWER"]
  /\ console_halt' = (switch["POWER"] \/ sw["HALT"])
  /\ UNCHANGED <<logic, last>>

\* Turning the power off asks SimH to shut down.
ServicePowerOff(sw) ==
  /\ ~sw["POWER"]
  /\ console_halt' = (console_halt \/ switch["POWER"])
  /\ UNCHANGED <<logic, last>>

\* What the buffer holds after the service.
ServiceCommand(sw, sr, knob) ==
  IF sw["POWER"] THEN ActionCommand(action_switch(sw), sw, sr, knob)
  ELSE IF switch["POWER"] THEN [op |-> "shutdown"]
  ELSE simh_cmd_buffer

\* The service has asked for an access.
Accessing(sw) ==
  LET act == action_switch(sw)
  IN  sw["POWER"] /\ act \in {"EXAM", "DEPOSIT"} /\ ~StepError(act)

-----------------------------------------------------------------------------
(* realcons_service: poll the panel, run its logic                         *)

Positions == {sw \in [Switches -> BOOLEAN] :
  \A s \in Switches \ Operated : sw[s] = switch[s]}

\* The command is left in simh_cmd_buffer; the prompt takes it at once.
Poll ==
  /\ connected
  /\ connected' \in {TRUE, ~MayFail}
  /\ \E sw \in Positions, sr \in SRValues, knob \in Knob :
       /\ switch' = sw
       /\ switch_SR' = sr
       /\ ADDR_SELECT' = knob
       /\ ServicePowered(sw, sr, knob) \/ ServicePowerOff(sw)
       /\ LET command == ServiceCommand(sw, sr, knob) IN
          IF ctx = "prompt" /\ connected'
          THEN line' = command /\ simh_cmd_buffer' = NoCmd /\ fresh' = Accessing(sw)
          ELSE simh_cmd_buffer' = command /\ UNCHANGED <<line, fresh>>
  /\ UNCHANGED cpu

\* The high-speed call in the instruction loop, or the one while a RESET lasts.
Service ==
  /\ sim_is_running /\ ~serviced
  /\ Poll
  /\ serviced' = TRUE

\* A turn of the prompt's loop: poll, then feed the command to the prompt.
PromptTurn ==
  /\ ctx = "prompt" /\ line = NoCmd
  /\ Poll
  /\ UNCHANGED serviced

realcons_disconnect ==
  /\ MayFail /\ connected
  /\ connected' = FALSE
  /\ UNCHANGED <<switch, switch_SR, ADDR_SELECT, console_halt, logic, cmdvars,
                 cpu, last>>

\* The switches cannot be read: the panel is given up before its logic runs.
ServiceFails ==
  /\ sim_is_running /\ ~serviced
  /\ realcons_disconnect
  /\ serviced' = TRUE

\* The user disconnects, or the poll of the prompt fails.
PromptDisconnect ==
  /\ ctx = "prompt" /\ line = NoCmd
  /\ realcons_disconnect
  /\ UNCHANGED serviced

\* realcons_connect: a new controller, whose reset empties the command buffer,
\* one poll, and "initialize console panel state to HALT mode".
realcons_connect ==
  /\ ctx = "prompt" /\ line = NoCmd /\ ~connected
  /\ connected' = TRUE
  /\ switch' \in Positions
  /\ switch_SR' \in SRValues
  /\ ADDR_SELECT' \in Knob
  /\ console_halt' = FALSE
  /\ datapathSR' = PC
  /\ datapathSWR' = 0
  /\ autoinc' = "none"
  /\ last_memory_status' = "OK"
  /\ last' = NoOperation
  /\ simh_cmd_buffer' = NoCmd
  /\ UNCHANGED <<memory_status, line, fresh, cpu, serviced>>

-----------------------------------------------------------------------------
(* The commands, typed or from the panel, and their REALCONS events        *)

\* Mutant: a stopped CPU does not show where it stopped.
EventSR_Kept(pc) == datapathSR' = datapathSR

\* "PC -> SR": the halt events and the start of a step.
EventSR(pc) == datapathSR' = IF connected THEN pc ELSE datapathSR

\* event_operator_exam_deposit: an access sets the console address as LOAD
\* ADRS does, unless the knob is in a virtual position.
EventAccess(a) ==
  IF connected /\ ~Virtual(ADDR_SELECT)
  THEN datapathSR' = LowBits(a) /\ datapathSWR' = Bank(a)
  ELSE UNCHANGED <<datapathSR, datapathSWR>>

\* The status of a memory access; that of a virtual one depends on the MMU.
Statuses(c) == IF c.virt THEN {"OK", "NXM"}
               ELSE IF c.addr \in NXM THEN {"NXM"} ELSE {"OK"}

Access(c, byPanel) ==
  /\ c.op \in {"examine", "deposit"}
  /\ \/ /\ ~c.virt /\ IsReg(c.addr)
        /\ EventAccess(c.addr)
        /\ UNCHANGED memory_status
     \/ /\ c.virt \/ ~IsReg(c.addr)
        /\ memory_status' \in Statuses(c)
        /\ IF c.op = "examine" /\ memory_status' = "NXM"
           THEN UNCHANGED <<datapathSR, datapathSWR>>
           ELSE EventAccess(c.addr)
  /\ PC' = IF c.op = "deposit" /\ ~c.virt /\ c.addr = PCReg THEN c.val ELSE PC
  /\ last' = IF byPanel /\ fresh /\ ~c.virt /\ memory_status' = "OK"
             THEN [op |-> IF c.op = "examine" THEN "EXAM" ELSE "DEPOSIT",
                   addr |-> c.addr]
             ELSE NoOperation
  /\ UNCHANGED <<ctx, wait_state, step, autoinc, last_memory_status>>

\* cpu_reset, with its event: the PC is set to the console address.
ResetPC(pc) == IF connected THEN LowBits(datapathSR) ELSE pc

ResetAll(c) ==
  /\ c.op = "reset"
  /\ PC' = ResetPC(PC)
  /\ wait_state' = FALSE
  /\ UNCHANGED <<ctx, step, logic, last>>

Refused == connected /\ console_halt

\* RUN deposits its argument, resets all devices, and only then finds out that
\* the HALT switch is on; "run" of a pc too wide for the PC is an error.
Run(c) ==
  /\ c.op \in {"run", "run_here"}
  /\ IF c.op = "run" /\ c.pc \notin Low
     THEN UNCHANGED <<cpu, last>>
     ELSE /\ PC' = ResetPC(IF c.op = "run" THEN c.pc ELSE PC)
          /\ wait_state' = FALSE
          /\ step' = "off"
          /\ ctx' = IF Refused THEN "prompt" ELSE "run"
          /\ last' = NoOperation
  /\ UNCHANGED logic

\* BOOT resets likewise, then the boot routine of the device sets the PC.
Boot(c) ==
  /\ c.op = "boot"
  /\ PC' \in PCs
  /\ wait_state' = FALSE
  /\ step' = "off"
  /\ ctx' = IF Refused THEN "prompt" ELSE "run"
  /\ last' = NoOperation
  /\ UNCHANGED logic

\* CONTINUE, and GO to an address.
Continue(c) ==
  /\ c.op \in {"cont", "go"}
  /\ PC' = IF c.op = "go" THEN c.pc ELSE PC
  /\ step' = "off"
  /\ ctx' = IF Refused THEN "prompt" ELSE "run"
  /\ last' = NoOperation
  /\ UNCHANGED <<wait_state, logic>>

\* STEP 1 is never refused: "real console may or may not be in HALT mode".
Step(c) ==
  /\ c.op = "step"
  /\ EventSR(PC)
  /\ step' = "armed"
  /\ ctx' = "run"
  /\ last' = NoOperation
  /\ UNCHANGED <<PC, wait_state, datapathSWR, autoinc, memory_status,
                 last_memory_status>>

Quit(c) ==
  /\ c.op = "shutdown"
  /\ ctx' = "exit"
  /\ UNCHANGED <<PC, wait_state, step, logic, last>>

Execute(c, byPanel) ==
  /\ ctx = "prompt"
  /\ \/ Access(c, byPanel)
     \/ ResetAll(c) \/ Run(c) \/ Boot(c) \/ Continue(c) \/ Step(c) \/ Quit(c)
  /\ UNCHANGED <<panel, simh_cmd_buffer, serviced>>

\* The prompt reads the line the panel has fed to it.
PanelCommand ==
  /\ line # NoCmd
  /\ Execute(line, TRUE)
  /\ line' = NoCmd
  /\ fresh' = FALSE

TypedCommand(c) ==
  /\ line = NoCmd
  /\ Execute(c, FALSE)
  /\ UNCHANGED <<line, fresh>>

-----------------------------------------------------------------------------
(* sim_instr *)

\* The loop ends: every halt event sets the SR to the PC.
HaltedAt(pc) ==
  /\ ctx' = "prompt"
  /\ step' = "off"
  /\ EventSR(pc)
  /\ last' = NoOperation

\* Mutant: the HALT switch is not looked at.
HaltSwitch_Ignored == FALSE

\* "check if the ENABLE/HALT switch was set to HALT"
HaltSwitch == connected /\ console_halt

\* The end of an instruction that leaves pc in the PC.
EndInstruction(pc, halt) ==
  /\ IF halt \/ HaltSwitch
     THEN HaltedAt(pc)
     ELSE /\ ctx' = "run"
          /\ step' = IF step = "armed" THEN "due" ELSE step
          /\ UNCHANGED <<datapathSR, last>>
  /\ PC' = pc
  /\ serviced' = FALSE

KeepLogic ==
  UNCHANGED <<panel, cmdvars, datapathSWR, autoinc, memory_status,
              last_memory_status>>

\* An instruction other than RESET.
Instruction ==
  /\ ctx = "run" /\ step # "due" /\ ~wait_state
  /\ \E opcode \in Opcodes \ {"reset"}, pc \in PCs :
       /\ EndInstruction(pc, opcode = "halt")
       /\ wait_state' = (opcode = "wait")
  /\ KeepLogic

\* RESET: event_opcode_reset keeps the panel served for 10 ms.
BeginReset ==
  /\ ctx = "run" /\ step # "due" /\ ~wait_state
  /\ "reset" \in Opcodes
  /\ ctx' = "reset"
  /\ UNCHANGED <<panel, logic, cmdvars, PC, wait_state, step, serviced, last>>

EndReset ==
  /\ ctx = "reset"
  /\ \E pc \in PCs : EndInstruction(pc, FALSE)
  /\ UNCHANGED wait_state
  /\ KeepLogic

\* A turn in the wait state: time passes, and nothing looks at HALT.
Idle ==
  /\ ctx = "run" /\ step # "due" /\ wait_state
  /\ step' = IF step = "armed" THEN "due" ELSE step
  /\ serviced' = FALSE
  /\ UNCHANGED <<panel, logic, cmdvars, ctx, PC, wait_state, last>>

\* A trap or an interrupt ends the wait state; an instruction may be aborted by
\* one as well.
Interrupt ==
  /\ ctx = "run" /\ step # "due"
  /\ PC' \in PCs
  /\ wait_state' = FALSE
  /\ UNCHANGED <<panel, logic, cmdvars, ctx, step, serviced, last>>

\* sim_process_event or a breakpoint ends the loop: ^E, a step, an error.
StopEvent ==
  /\ ctx = "run"
  /\ HaltedAt(PC)
  /\ serviced' = FALSE
  /\ UNCHANGED <<PC, wait_state>>
  /\ KeepLogic

-----------------------------------------------------------------------------
Init ==
  /\ connected = FALSE
  /\ switch = [s \in Switches |-> s = "POWER"]
  /\ switch_SR = 0
  /\ ADDR_SELECT = "CONS_PHY"
  /\ console_halt = FALSE
  /\ simh_cmd_buffer = NoCmd
  /\ line = NoCmd
  /\ datapathSR = 0
  /\ datapathSWR = 0
  /\ autoinc = "none"
  /\ memory_status = "OK"
  /\ last_memory_status = "OK"
  /\ ctx = "prompt"
  /\ PC = 0
  /\ wait_state = FALSE
  /\ step = "off"
  /\ serviced = FALSE
  /\ last = NoOperation
  /\ fresh = FALSE
  /\ session \in Sessions

Connecting == realcons_connect \/ PromptDisconnect \/ ServiceFails

CPUTurn == Instruction \/ BeginReset \/ EndReset \/ Idle

Next ==
  \/ Service \/ PromptTurn
  \/ Connecting
  \/ PanelCommand
  \/ \E c \in Typed : TypedCommand(c)
  \/ CPUTurn \/ Interrupt \/ StopEvent

Spec == Init /\ [][Next /\ UNCHANGED session]_<<vars, session>>

\* The thread keeps running: the prompt polls the panel and executes what it
\* is given, the CPU's loop turns, and a step timer that is due is processed.
\* (In the lively sessions: of the others nothing is expected.)
Fairness ==
  /\ WF_vars(Lively /\ PromptTurn)
  /\ WF_vars(Lively /\ PanelCommand)
  /\ WF_vars(Lively /\ Service)
  /\ WF_vars(Lively /\ CPUTurn)
  /\ WF_vars(Lively /\ step = "due" /\ StopEvent)

FairSpec == Spec /\ Fairness

-----------------------------------------------------------------------------
(* Properties *)

\* The address the next operation op of a sequence must use: the one loaded, or
\* the same for the other operation; the next word within 64 KB or the next
\* register for the same one again.
Expected(op) ==
  LET a == last.addr IN
  CASE IsReg(a) /\ last.op # op -> a
    [] IsReg(a) /\ last.op = op -> IF a = LastReg THEN FirstReg ELSE a + 1
    [] ~IsReg(a) /\ last.op # op -> Word(a)
    [] OTHER -> Bank(a) * LowSize + LowBits(Word(a) + 2)

\* The example of "1.1.5 Step Operations": LOAD ADRS X, EXAM X, DEP X, EXAM X,
\* EXAM X+2, DEP X+2, whatever else the switches do in between, across the
\* service, the command buffer, the prompt and the events of the commands.
\* (Not of a command left in the buffer from before the last halt.)
AddressSequence ==
  fresh /\ ~line.virt /\ last # NoOperation =>
    line.addr = Expected(IF line.op = "examine" THEN "EXAM" ELSE "DEPOSIT")

\* At the prompt the console address is a real one: "all HALTs go through
\* FLOWS 12, BRK.00, which sets SR := PC".
HaltShowsPC ==
  ctx = "prompt" /\ connected => datapathSR \in Low

\* START "starts program execution at the address previously loaded by a LOAD
\* ADRS, after resetting the system (INIT)".
StartsAtLoaded ==
  [][PanelCommand /\ line.op = "run" /\ ctx' = "run" /\ last.op = "LOAD_ADRS"
       => PC' = LowBits(last.addr) /\ ~wait_state']_vars

HaltOn == connected /\ switch["HALT"] /\ switch["POWER"] /\ ~switch["PANEL_LOCK"]

\* "HALT - Stops program execution": for good, unless the CPU stays in WAIT.
HaltStopsInstructions ==
  Lively /\ <>[]HaltOn /\ []<>~wait_state => []<>~sim_is_running

\* Turning the power off ends the simulator, unless the CPU stays in WAIT or the
\* power comes back: the instruction loop must stop, whatever the HALT switch
\* does, and the command must survive until the prompt executes it.
PowerOffExits ==
  Lively /\ (simh_cmd_buffer.op = "shutdown" \/ line.op = "shutdown")
    ~> ctx = "exit" \/ switch["POWER"] \/ wait_state
=============================================================================
