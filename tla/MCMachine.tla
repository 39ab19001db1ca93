----------------------------- MODULE MCMachine -----------------------------
(***************************************************************************)
(* Programs and handlers for Machine.                                      *)
(***************************************************************************)
EXTENDS Machine, TLC

I(op) == [op |-> op, arg |-> 0]
A(op, arg) == [op |-> op, arg |-> arg]

W(cm, ipl, rs) == [cm |-> cm, pm |-> KER, rs |-> rs, ipl |-> ipl, t |-> FALSE]

\* Handlers that return at once, or after what their device needs.
Handlers ==
  [v4 |-> << {I("rti")} >>, v14 |-> << {I("rtt")} >>, v20 |-> << {I("rti")} >>,
   v60 |-> << {I("tti")}, {A("load", 1)}, {I("rti")} >>,
   v64 |-> << {A("disable", "TTO")}, {I("rti")} >>,
   v100 |-> << {A("clk", <<TRUE, FALSE>>)}, {I("rti")} >>,
   v240 |-> << {A("pirq", {})}, {I("rti")} >>]

Vectors ==
  [v4 |-> W(KER, 7, 0), v14 |-> W(KER, 0, 0), v20 |-> W(KER, 0, 0),
   v60 |-> W(KER, 4, 1), v64 |-> W(KER, 4, 0), v100 |-> W(KER, 6, 0),
   v240 |-> W(KER, 7, 0)]

Case(start, main) ==
  [code |-> [at \in DOMAIN Handlers \cup {"main"} |->
               IF at = "main" THEN main ELSE Handlers[at]],
   vector |-> Vectors, start |-> start, ie |-> {}, keys |-> 0, ticks |-> 0,
   stops |-> 0, bad |-> {}, breaks |-> {}, steady |-> FALSE]

\* A user program with its stack, interrupted by all devices.
Devices ==
  [Case(W(USR, 0, 0), << {A("push", DataWord)}, {I("pop")}, {I("tto"), A("load", 1), A("load", 0)},
                            {A("enable", "TTO"), A("disable", "TTI"), A("enable", "TTI")} >>)
     EXCEPT !.ie = {"TTI", "CLK"}, !.keys = 1, !.ticks = 1]

\* A user program that makes up a PSW and does what it should not.
Forger ==
  [Case(W(USR, 0, 0),
           << {A("push", PswWord(W(KER, 7, 1))), A("push", PswWord(W(SUP, 4, 0)))},
              {A("push", PcWord([at |-> "main", n |-> 4]))}, {I("rti"), I("rtt")},
              {I("halt"), I("iot"), I("bpt"), I("nxm"), I("reset"), A("spl", 7)} >>)
     EXCEPT !.ie = {"CLK"}, !.ticks = 1, !.stops = 1]

\* A traced user program.
TracedMain ==
  [Case([W(USR, 0, 0) EXCEPT !.t = TRUE],
           << {I("other"), I("wait"), I("bpt"), I("iot"), I("nxm")}, {A("load", 1), A("load", 0)} >>)
     EXCEPT !.ie = {"CLK", "TTI"}, !.ticks = 1, !.keys = 1, !.stops = 1]

Steady ==
  [Case([W(USR, 0, 0) EXCEPT !.t = TRUE],
           << {I("other"), I("bpt"), I("iot"), I("nxm")}, {A("load", 1), A("load", 0)} >>)
     EXCEPT !.ie = {"CLK", "TTI"}, !.ticks = 1, !.keys = 1, !.stops = 1, !.steady = TRUE]

TracedAtOnce ==
  [TracedMain EXCEPT !.code.v14 = << {I("rti"), I("rtt")} >>]

\* An operating system: levels, requests by program, modes and WAIT.
Kernel ==
  [Case(W(KER, 0, 0),
           << {A("pirq", {"PIR6", "PIR4"}), A("pirq", {"PIR7"}), I("wait"), I("reset")},
              {A("spl", 0), A("spl", 5)},
              {A("psw", W(SUP, 0, 1)), I("other")}, {A("push", DataWord)},
              {I("pop")}, {A("psw", W(KER, 6, 0))}, {A("clk", <<TRUE, TRUE>>), I("halt")} >>)
     EXCEPT !.ticks = 1, !.stops = 1]

\* A kernel stack that is too small; the operator continues once.
Deep ==
  [Case(W(KER, 0, 0),
           << {A("push", DataWord), I("bpt"), I("iot")},
              {A("enable", "TTI"), I("other")} >>)
     EXCEPT !.ticks = 1, !.keys = 1, !.stops = 1, !.ie = {"CLK"}]

Hole(mode, word) ==
  [Deep EXCEPT !.code.main = << {I("bpt"), I("iot"), I("other")} >>,
               !.bad = {<<mode, word>>}, !.vector.v20 = W(SUP, 0, 0)]

\* A breakpoint in a program that nothing interrupts.
Break ==
  [Case(W(USR, 0, 0), << {I("other")}, {A("push", DataWord)}, {I("pop")} >>)
     EXCEPT !.stops = 1, !.breaks = {[at |-> "main", n |-> 2]}]

All ==
  "devices" :> Devices @@ "forger" :> Forger @@ "traced" :> TracedMain
  @@ "at once" :> TracedAtOnce @@ "steady" :> Steady @@ "kernel" :> Kernel
  @@ "deep" :> Deep @@ "break" :> Break
  @@ "hole 7" :> Hole(KER, 7) @@ "hole 6" :> Hole(KER, 6)
  @@ "hole s7" :> Hole(SUP, 7) @@ "hole s8" :> Hole(SUP, 8)

\* And one in a handler.
BreakInHandler ==
  "break" :> [Break EXCEPT !.ie = {"CLK"}, !.ticks = 1,
                           !.breaks = {[at |-> "v100", n |-> 2]}]
=============================================================================
