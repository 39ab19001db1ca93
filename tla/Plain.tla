------------------------------- MODULE Plain -------------------------------
(***************************************************************************)
(* What a program may rely on that runs in virtual memory: every           *)
(* instruction happens as a whole, in a memory that is all there, and the  *)
(* program goes on for ever.                                               *)
(***************************************************************************)
EXTENDS PdpWord

CONSTANT Programs        \* by name: code, memory, registers

VARIABLES
  prog,      \* the name of the program
  r,         \* the general registers
  cc,        \* the carry
  v          \* virtual memory

vars == <<prog, r, cc, v>>

Init ==
  /\ prog \in DOMAIN Programs
  /\ r = Programs[prog].r
  /\ cc = 0
  /\ v = Programs[prog].v

-----------------------------------------------------------------------------
(* Operands: a state is a record s of r, cc and v; an operand of n bytes is *)
(* a register or a place in memory.                                         *)

Moved(s, reg, n) == [s EXCEPT !.r[reg] = Add(@, n)]

\* The operand o of n bytes, and the state after its side effects.
Operand(s, o, n) ==
  LET k == IF n = 1 /\ o.mode \in {2, 4} /\ o.reg < SP THEN 1 ELSE 2
      from == s.r[o.reg]
      down == Add(from, -k)
      sp == SpaceOf(o.reg)
      next == Moved(s, PC, 2)
      x == Add(next.r[o.reg], s.v[<<"I", s.r[PC]>>])
      Is(t, space, a) == [s |-> t, at |-> <<space, a>>]
  IN  CASE o.mode = 0 -> Is(s, "R", o.reg)
        [] o.mode = 1 -> Is(s, sp, from)
        [] o.mode = 2 -> Is(Moved(s, o.reg, k), sp, from)
        [] o.mode = 3 -> Is(Moved(s, o.reg, k), "D", s.v[<<sp, from>>])
        [] o.mode = 4 -> Is(Moved(s, o.reg, -k), sp, down)
        [] o.mode = 5 -> Is(Moved(s, o.reg, -k), "D", s.v[<<sp, down>>])
        [] o.mode = 6 -> Is(next, "D", x)
        [] o.mode = 7 -> Is(next, "D", s.v[<<"D", x>>])

Get(s, at, n) ==
  LET w == IF at[1] = "R" THEN s.r[at[2]] ELSE s.v[CellOf(at)]
  IN  IF n = 2 THEN w ELSE IF at[1] = "R" THEN w % Bytes ELSE Half(w, at[2])

Put(s, at, n, w) ==
  IF at[1] = "R" THEN [s EXCEPT !.r[at[2]] = IF n = 1 THEN SignExtended(w) ELSE w]
  ELSE [s EXCEPT !.v[CellOf(at)] = IF n = 1 THEN WithHalf(@, at[2], w) ELSE w]

InData(at) == IF at[1] = "R" THEN at ELSE <<"D", at[2]>>

Top(s) == <<"D", s.r[SP]>>

-----------------------------------------------------------------------------
(* Instructions *)

Store(s, to, sum) == [Put(s, to, 2, sum % Words) EXCEPT !.cc = sum \div Words]

Executed(s, i) ==
  CASE i.op \in {"mov", "movb"} ->
         LET n == IF i.op = "mov" THEN 2 ELSE 1
             a == Operand(s, i.src, n)
             b == Operand(a.s, i.dst, n)
         IN  Put(b.s, b.at, n, Get(a.s, a.at, n))
    [] i.op = "add" ->
         LET a == Operand(s, i.src, 2)
             b == Operand(a.s, i.dst, 2)
         IN  Store(b.s, b.at, Get(a.s, a.at, 2) + Get(b.s, b.at, 2))
    [] i.op = "adc" ->
         LET b == Operand(s, i.dst, 2)
         IN  Store(b.s, b.at, Get(b.s, b.at, 2) + s.cc)
    [] i.op = "jmp" ->
         LET b == Operand(s, i.dst, 2) IN [b.s EXCEPT !.r[PC] = b.at[2]]
    [] i.op = "jsr" ->
         LET b == Operand(s, i.dst, 2)
             t == Moved(b.s, SP, -2)
         IN  [Put(t, Top(t), 2, t.r[i.link]) EXCEPT !.r[i.link] = t.r[PC], !.r[PC] = b.at[2]]
    [] i.op = "rts" ->
         [Moved(s, SP, 2) EXCEPT !.r[PC] = s.r[i.link], !.r[i.link] = s.v[Top(s)]]
    [] i.op = "mfpd" ->
         LET b == Operand(s, i.dst, 2)
             t == Moved(b.s, SP, -2)
         IN  Put(t, Top(t), 2, Get(b.s, InData(b.at), 2))
    [] i.op = "mtpd" ->
         LET b == Operand(Moved(s, SP, 2), i.dst, 2)
         IN  Put(b.s, InData(b.at), 2, s.v[Top(s)])

Instruction == Programs[prog].code[v[<<"I", r[PC]>>]]

Step ==
  LET t == Executed(Moved([r |-> r, cc |-> cc, v |-> v], PC, 2), Instruction)
  IN  r' = t.r /\ cc' = t.cc /\ v' = t.v /\ UNCHANGED prog

\* A step can always be taken, so this is weak fairness of Step.
Spec == Init /\ [][Step]_vars /\ []<><<Step>>_vars
=============================================================================
