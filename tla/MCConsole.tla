----------------------------- MODULE MCConsole -----------------------------
(***************************************************************************)
(* Instances of Console for TLC: two banks of eight bytes, the general     *)
(* registers at the top (12 to 14), one address without memory, and the    *)
(* sessions of each run.                                                   *)
(***************************************************************************)
EXTENDS Console

TypedStart == {[op |-> "run", pc |-> 2], [op |-> "cont"]}
TypedAll ==
  TypedStart \cup
  {[op |-> "run_here"], [op |-> "boot"], [op |-> "go", pc |-> 2],
   [op |-> "step"], [op |-> "reset"],
   [op |-> "examine", addr |-> 4, virt |-> FALSE], [op |-> "shutdown"]}

\* Loading, examining and depositing, at an idle prompt.
Addressing ==
  [operated |-> {"LOAD_ADRS", "EXAM", "DEPOSIT"}, sr |-> {4, 10, 12},
   knob |-> {"CONS_PHY", "VIRTUAL"}, typed |-> {}, opcodes |-> {"any"},
   pcs |-> {2}, mayfail |-> FALSE, lively |-> FALSE]

\* A running program is halted or the power is switched off.
Stopping ==
  [operated |-> {"HALT", "POWER", "PANEL_LOCK"}, sr |-> {10},
   knob |-> {"CONS_PHY"}, typed |-> TypedStart,
   opcodes |-> {"any", "wait", "reset"}, pcs |-> {2}, mayfail |-> FALSE, lively |-> TRUE]

\* Programs are started and halted, from the panel and from the keyboard, and
\* the panel fails.
Starting ==
  [operated |-> {"LOAD_ADRS", "CONT", "START", "HALT"}, sr |-> {10},
   knob |-> {"CONS_PHY"}, typed |-> TypedAll,
   opcodes |-> {"any", "halt"}, pcs |-> {2}, mayfail |-> TRUE, lively |-> FALSE]

\* Programs with WAIT and RESET are started and halted.
Resetting ==
  [Starting EXCEPT !.sr = {4, 10}, !.typed = TypedStart, !.pcs = {2, 6},
                   !.opcodes = {"any", "halt", "wait", "reset"}, !.mayfail = FALSE]

\* Accesses mixed with starts and halts, of programs that wait.
Mixing ==
  [Addressing EXCEPT !.operated = {"LOAD_ADRS", "EXAM", "START", "HALT"}, !.sr = {4},
                     !.knob = {"CONS_PHY"}, !.typed = {[op |-> "cont"]},
                     !.opcodes = {"any", "wait"}]

PanelSessions == {Mixing, Addressing, Stopping, Starting, Resetting}
=============================================================================
