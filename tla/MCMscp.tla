------------------------------- MODULE MCMscp -------------------------------
(* Programs of the driver for the MSCP controller. *)
EXTENDS Mscp

C(op, unit, arg, len) == [op |-> op, unit |-> unit, arg |-> arg, len |-> len]

Online0 == C("onl", 0, 0, 0)
Move(len) == C("rw", 0, 1, len)

Case(prog, errs, faults, swaps, inits) ==
  [prog |-> prog, errs |-> errs, faults |-> faults, swaps |-> swaps,
   inits |-> inits, wrap |-> FALSE, purge |-> FALSE, go |-> "go"]

Log == C("scc", 0, 1, 1)          \* error logs and attention wanted, timeout 1
Abo(ref) == C("abo", 0, ref, 0)
Nop == C("nop", 0, 0, 0)

\* Data errors, aborts, error logs, the operator's hand on the drive, other
\* units and other commands, and initialisation in all its forms.
Programs ==
  { Case(<<Online0, Move(2), Move(1), Abo(3), Nop>>, 1, {"bad", "nxm", "cmp", "nothing"}, 0, 0),
    Case(<<Online0, Move(1), Move(0), Online0, Abo(4)>>, 0, {}, 1, 1),
    Case(<<Log, Online0, Move(1), Move(1)>>, 2, {"bad", "nxm"}, 0, 0),
    Case(<<Log, C("gus", 0, 0, 0), Nop>>, 0, {}, 2, 0),
    Case(<<Online0, C("onl", 1, 0, 0), Move(1), C("rw", 1, 1, 1), Abo(2),
           C("rw", 1, 0, 1)>>, 0, {}, 0, 0),
    Case(<<Online0, Move(1), C("fmt", 0, 1, 0), C("suc", 0, 0, 0),
           C("avl", 0, 1, 0), C("onl", 3, 0, 0)>>, 0, {}, 0, 0),
    Case(<<C("onl", 0, 1, 0), C("fmt", 0, 0, 0), C("gus", 2, 0, 0), C("bad", 0, 0, 0),
           C("dup", 0, 0, 0), C("gcs", 0, 0, 0)>>, 0, {}, 0, 0),
    [Case(<<Nop, C("invalid", 0, 0, 0)>>, 0, {}, 0, 1) EXCEPT !.wrap = TRUE, !.go = "golf"],
    [Case(<<Nop>>, 0, {}, 0, 1) EXCEPT !.purge = TRUE] }

\* Transfers in several parts, and what may happen between their halves.
Halves ==
   { Case(<<Online0, Move(2), Move(1), Abo(3), Nop>>, 1, {"bad", "nxm", "cmp"}, 0, 0),
     Case(<<Log, Online0, Move(2), Move(1), C("rw", 1, 1, 1)>>, 2, {"bad", "nxm"}, 0, 0),
     Case(<<Online0, C("onl", 1, 0, 0), Move(2), C("rw", 1, 1, 1), Abo(3)>>, 0, {}, 0, 0),
     Case(<<Online0, Move(2), C("avl", 0, 1, 0), Abo(2)>>, 0, {}, 1, 0) }

AllPrograms == Programs \cup Halves

\* A transfer is cut short and another one follows.
Cut == { Case(<<Online0, Move(1), Move(1), Abo(2)>>, 0, {}, 0, 0) }

=============================================================================
