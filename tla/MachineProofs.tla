---------------------------- MODULE MachineProofs ----------------------------
(***************************************************************************)
(* Two theorems about Machine, for every program, vector, stack size and   *)
(* device behaviour in Scenarios: no interrupt request is overlooked or    *)
(* made up, and a user program leaves its mode and its level only through  *)
(* a handler.                                                              *)
(*                                                                         *)
(* For the requests: Good is kept by every routine that may be called with the requests      *)
(* recalculated (instructions, aborts); Wf and Stands by the others, and a *)
(* CalcInts at the end of them gives Good.  The routines that only move    *)
(* the context satisfy Kept or Same.                                       *)
(***************************************************************************)
EXTENDS Machine, WellFoundedInduction, TLAPS

\* The fields that requests live in.
Fields == {"int", "acked", "pirq", "done", "ie", "ipl", "traps", "why"}

\* What is needed of their types.
Wf(c) == Fields \subseteq DOMAIN c /\ c.pirq \subseteq PIR /\ c.done \subseteq Device

\* IntFlag and RequestsTrue of a machine c.
Flag(c) == "INT" \in c.traps <=> Requests(c, c.ipl) # {}

Stands(c) ==
  /\ c.int \cap Device \subseteq c.done \cap c.ie
  /\ (c.done \cap c.ie) \ {"CLK"} \subseteq c.int \cup c.acked
  /\ c.int \cap PIR \subseteq c.pirq /\ c.pirq \subseteq c.int \cup c.acked

\* The routine leaves the requests alone, and Same: the level and traps too.
Kept(c, d) ==
  /\ DOMAIN d = DOMAIN c
  /\ d.int = c.int /\ d.acked = c.acked /\ d.pirq = c.pirq
  /\ d.done = c.done /\ d.ie = c.ie

Same(c, d) ==
  Kept(c, d) /\ d.why = c.why /\ d.ipl = c.ipl /\ d.traps = c.traps

Good(c) == Wf(c) /\ Stands(c) /\ (c.why = "run" => Flag(c))

IInv == Good(m)

-----------------------------------------------------------------------------
(* The PSW, its modes and register sets *)

LEMMA Calculated ==
  ASSUME NEW c, Fields \subseteq DOMAIN c
  PROVE  Kept(c, CalcInts(c)) /\ Flag(CalcInts(c)) /\ CalcInts(c).why = c.why
  <1> DEFINE d == CalcInts(c)
  <1>1. Kept(c, d) /\ d.why = c.why /\ d.ipl = c.ipl
    BY DEF CalcInts, Kept, Fields
  <1>2. d.traps = IF Requests(c, c.ipl) # {} THEN c.traps \cup {"INT"}
                  ELSE c.traps \ {"INT"}
    BY DEF CalcInts, Fields
  <1>3. Requests(d, d.ipl) = Requests(c, c.ipl)
    BY <1>1 DEF Requests, Kept
  <1> QED  BY <1>1, <1>2, <1>3 DEF Flag

\* Then applies its routine.
LEMMA OfOne == ASSUME NEW x PROVE (CHOOSE d \in {x} : TRUE) = x
  OBVIOUS

LEMMA PswPut ==
  ASSUME NEW c, NEW w, NEW prot, Fields \subseteq DOMAIN c
  PROVE  Kept(c, PutPSW(c, w, prot)) /\ PutPSW(c, w, prot).why = c.why
  BY DEF PutPSW, Kept, Fields

LEMMA SetSwapped ==
  ASSUME NEW c, NEW rs, Fields \subseteq DOMAIN c
  PROVE  Kept(c, SwapSet(c, rs)) /\ SwapSet(c, rs).why = c.why
  BY DEF SwapSet, Kept, Fields

LEMMA PoppedGood ==
  ASSUME NEW c, NEW pc, NEW w, Fields \subseteq DOMAIN c
  PROVE  Kept(c, Popped(c, pc, w)) /\ Flag(Popped(c, pc, w)) /\ Popped(c, pc, w).why = c.why
  <1> DEFINE up == [Unwound(c) EXCEPT !.stk[c.cm] = c.sp + 2]
             put == PutPSW(up, w, c.cm # KER)
             swap == SwapSet(put, c.rs)
             in == [swap EXCEPT !.sp = swap.stk[swap.cm], !.pc = pc]
  <1>1. Kept(c, up) /\ up.why = c.why
    BY DEF Unwound, Kept, Fields
  <1> HIDE DEF up
  <1>2. Kept(up, put) /\ put.why = up.why
    BY <1>1 DEF PutPSW, Kept, Fields
  <1>3. Kept(put, swap) /\ swap.why = put.why
    BY <1>1, <1>2, SetSwapped DEF Kept
  <1>4. Kept(swap, in) /\ in.why = swap.why
    BY DEF Kept, Fields
  <1>5. Popped(c, pc, w) = CalcInts(in)
    BY OfOne DEF Popped, Then, up
  <1> HIDE DEF put, swap, in
  <1>6. Kept(c, in) /\ in.why = c.why
    BY <1>1, <1>2, <1>3, <1>4 DEF Kept
  <1> QED  BY <1>5, <1>6, Calculated DEF Kept

-----------------------------------------------------------------------------
(* Routines *)

LEMMA KeptGood ==
  ASSUME NEW c, NEW d, Wf(c), Stands(c), Kept(c, d)
  PROVE  Wf(d) /\ Stands(d)
  BY DEF Wf, Stands, Kept

LEMMA CalcGood ==
  ASSUME NEW c, Wf(c), Stands(c)
  PROVE  Good(CalcInts(c))
  BY Calculated, KeptGood DEF Good, Wf

LEMMA StopGood ==
  ASSUME NEW c, NEW why, Wf(c), Stands(c), why # "run"
  PROVE  Good(Stop(c, why))
  <1> DEFINE d == Stop(c, why)
  <1>1. Kept(c, d) /\ d.why = why
    <2>1. Kept(c, Assemble(c))
      BY DEF Wf, Kept, Assemble, Fields
    <2>2. Kept(Assemble(c), UpdateTime(Assemble(c)))
      BY <2>1 DEF Wf, Kept, UpdateTime, Fields
    <2>3. Kept(UpdateTime(Assemble(c)), d) /\ d.why = why
      BY <2>1, <2>2 DEF Wf, Kept, Stop, Fields
    <2> QED  BY <2>1, <2>2, <2>3 DEF Kept
  <1> QED  BY <1>1, KeptGood DEF Good

LEMMA AbortGood ==
  ASSUME NEW c, NEW t, Good(c), t # "INT"
  PROVE  Good(Aborted(c, t))
  <1> DEFINE d == Aborted(c, t)
  <1>1. Kept(c, d) /\ d.why = c.why /\ d.ipl = c.ipl /\ d.traps = c.traps \cup {t}
    BY DEF Good, Wf, Kept, Aborted, Fields
  <1>2. Requests(d, d.ipl) = Requests(c, c.ipl)
    BY <1>1 DEF Requests, Kept
  <1> QED  BY <1>1, <1>2, KeptGood DEF Good, Flag

\* It changes nothing that the invariant speaks of.
LEMMA SameGood ==
  ASSUME NEW c, NEW d, Good(c), Same(c, d)
  PROVE  Good(d)
  <1>1. Requests(d, d.ipl) = Requests(c, c.ipl)
    BY DEF Requests, Kept, Same
  <1> QED  BY <1>1, KeptGood DEF Good, Flag, Same

LEMMA LimitGood ==
  ASSUME NEW c, Good(c)
  PROVE  Good(Limit(c))
  <1>1. CASE Limit(c) = c
    BY <1>1
  <1>2. CASE Limit(c) # c
    <2>1. Limit(c) = StackTrap(c, c.sp)
      BY <1>2 DEF Limit
    <2> DEFINE d == StackTrap(c, c.sp)
    <2>2. /\ Kept(c, d) /\ d.why = c.why /\ d.ipl = c.ipl
          /\ d.traps = c.traps \cup {"YEL"} \/ d.traps = c.traps \cup {"RED"}
      <3>1. CASE c.sp >= Red
        BY <3>1 DEF StackTrap, Kept, Good, Wf, Fields
      <3>2. CASE ~(c.sp >= Red)
        BY <3>2 DEF StackTrap, Kept, Good, Wf, Fields
      <3> QED  BY <3>1, <3>2
    <2> HIDE DEF d
    <2>3. Requests(d, d.ipl) = Requests(c, c.ipl)
      BY <2>2 DEF Requests, Kept
    <2>4. Good(d)
      BY <2>2, <2>3, KeptGood DEF Good, Flag
    <2> QED  BY <2>1, <2>4 DEF d
  <1> QED  BY <1>1, <1>2

LEMMA PirqGood ==
  ASSUME NEW c, NEW levels \in SUBSET PIR, Wf(c), Stands(c)
  PROVE  Wf(PutPIRQ(c, levels)) /\ Stands(PutPIRQ(c, levels))
  <1> DEFINE d == PutPIRQ(c, levels)
  <1>1. /\ DOMAIN d = DOMAIN c /\ d.done = c.done /\ d.ie = c.ie
        /\ d.pirq = levels /\ d.int = (c.int \ PIR) \cup levels
        /\ d.acked = c.acked \ levels
    BY DEF PutPIRQ, Wf, Fields
  <1> HIDE DEF d
  <1>2. PIR \cap Device = {}
    BY DEF PIR, Device
  <1>3. Wf(d) /\ Stands(d)
    BY <1>1, <1>2 DEF Wf, Stands
  <1> QED  BY <1>3 DEF d

LEMMA ResumeGood ==
  ASSUME NEW c, Wf(c), Stands(c)
  PROVE  Good(Resume(c))
  <1> DEFINE w == PutPSW(c, c.psw, FALSE)
             r == [w EXCEPT !.r = w.regs[w.rs], !.sp = w.stk[w.cm], !.why = "run"]
  <1>1. Kept(c, w)
    BY PswPut DEF Wf
  <1>2. Kept(w, r)
    BY <1>1 DEF Kept, Wf, Fields
  <1>3. Resume(c) = CalcInts(PutPIRQ(r, c.pirq))
    BY DEF Resume
  <1> HIDE DEF w, r
  <1>4. Wf(r) /\ Stands(r)
    BY <1>1, <1>2, KeptGood
  <1>5. c.pirq \in SUBSET PIR
    BY DEF Wf
  <1> QED  BY <1>3, <1>4, <1>5, PirqGood, CalcGood

LEMMA EventsGood ==
  ASSUME NEW c, Wf(c), Stands(c)
  PROVE  Good(AfterEvents(c)) /\ Wf(AfterEvents(c)) /\ Stands(AfterEvents(c))
  <1> DEFINE p == PutPIRQ(c, c.pirq)
             d == CalcInts(p)
  <1>1. Wf(p) /\ Stands(p)
    BY PirqGood DEF Wf
  <1>2. Good(d)
    BY <1>1, CalcGood
  <1>3. AfterEvents(c) = UpdateTime(d)
    BY DEF AfterEvents
  <1> HIDE DEF p, d
  <1>4. Same(d, UpdateTime(d))
    BY <1>2 DEF Same, Kept, UpdateTime, Good, Wf, Fields
  <1> QED  BY <1>2, <1>3, <1>4, SameGood DEF Good

LEMMA EnteredGood ==
  ASSUME NEW c, NEW new, NEW v, NEW of, Wf(c), Stands(c)
  PROVE  Good(Entered(c, new, v, of))
  <1> DEFINE put == PutPSW(c, [new EXCEPT !.pm = c.cm], FALSE)
             swap == SwapSet(put, c.rs)
             in == [swap EXCEPT !.sp = swap.stk[swap.cm] - 2,
                                !.pc = [at |-> Handler[v], n |-> 1],
                                !.frames = Append(@, [mode |-> swap.cm,
                                                      sp |-> swap.stk[swap.cm] - 2,
                                                      of |-> of])]
  <1>1. Kept(c, put)
    BY PswPut DEF Wf
  <1>2. Kept(put, swap)
    BY <1>1, SetSwapped DEF Kept, Wf
  <1>3. Kept(swap, in)
    BY <1>1, <1>2 DEF Kept, Wf, Fields
  <1>4. Entered(c, new, v, of) = CalcInts(in)
    BY OfOne DEF Entered, Then
  <1> HIDE DEF put, swap, in
  <1>5. Wf(in) /\ Stands(in)
    BY <1>1, <1>2, <1>3, KeptGood
  <1> QED  BY <1>4, <1>5, CalcGood

LEMMA PushAbortGood ==
  ASSUME NEW c, NEW mode, Wf(c), Stands(c)
  PROVE  Good(PushAbort(c, mode))
  <1> DEFINE e == [c EXCEPT !.traps = @ \cup {"NXM", "RED"}, !.stk[KER] = 2,
                            !.sp = IF c.cm = KER THEN 2 ELSE @]
             f == [c EXCEPT !.traps = @ \cup {"NXM"}]
  <1>1. Kept(c, e) /\ Kept(c, f)
    BY DEF Kept, Wf, Fields
  <1>2. PushAbort(c, mode) = Stop(IF mode = KER THEN e ELSE f, "spabort")
    BY DEF PushAbort
  <1> HIDE DEF e, f
  <1>3. /\ Wf(IF mode = KER THEN e ELSE f)
        /\ Stands(IF mode = KER THEN e ELSE f)
    BY <1>1, KeptGood
  <1> QED  BY <1>2, <1>3, StopGood

\* Whether a handler is entered or a push aborts.
LEMMA EnterGood ==
  ASSUME NEW c0, NEW v, NEW checked \in BOOLEAN, Wf(c0), Stands(c0)
  PROVE  Good(Enter(c0, v, checked))
  <1> DEFINE new == Program.vector[Handler[v]]
             c == Saved(c0)
             top == c.stk[new.cm]
             d == [c EXCEPT !.mem[new.cm][top - 1] = PswWord(c.psw)]
             e == [d EXCEPT !.mem[new.cm][top - 2] = PcWord(c.pc)]
             f == Entered(e, new, v, Context(c0))
  <1>1. Kept(c0, c)
    BY DEF Saved, Kept, Wf, Fields
  <1>2. Kept(c, d)
    BY <1>1 DEF Kept, Wf, Fields
  <1>3. Kept(d, e)
    BY <1>1, <1>2 DEF Kept, Wf, Fields
  <1>4. \/ Enter(c0, v, checked) = PushAbort(c, new.cm)
        \/ Enter(c0, v, checked) = PushAbort(d, new.cm)
        \/ Enter(c0, v, checked) = Limit(f)
        \/ Enter(c0, v, checked) = f
    BY OfOne DEF Enter, Then
  <1> HIDE DEF new, c, d, e
  <1>5. /\ Wf(c) /\ Stands(c) /\ Wf(d) /\ Stands(d) /\ Wf(e) /\ Stands(e)
    BY <1>1, <1>2, <1>3, KeptGood
  <1>6. Good(f)
    BY <1>5, EnteredGood
  <1> HIDE DEF f
  <1>7. Good(Limit(f)) /\ Good(PushAbort(c, new.cm)) /\ Good(PushAbort(d, new.cm))
    BY <1>5, <1>6, LimitGood, PushAbortGood
  <1> QED  BY <1>4, <1>6, <1>7

-----------------------------------------------------------------------------
(* Instructions *)

LEMMA ReturnGood ==
  ASSUME NEW c, NEW immediate, Good(c), c.why = "run"
  PROVE  Good(Return(c, immediate))
  <1> DEFINE d == Popped(c, AsPc(c.mem[c.cm][c.sp]), AsPsw(c.mem[c.cm][c.sp + 1]))
  <1>1. \/ Return(c, immediate) = Aborted(c, "NXM")
        \/ Return(c, immediate) = Aborted(d, "TRC")
        \/ Return(c, immediate) = d
    BY OfOne DEF Return, Then
  <1>2. Good(d)
    BY PoppedGood, KeptGood DEF Good, Wf
  <1> HIDE DEF d
  <1>3. Good(Aborted(c, "NXM")) /\ Good(Aborted(d, "TRC"))
    BY <1>2, AbortGood
  <1> QED  BY <1>1, <1>2, <1>3

LEMMA SplGood ==
  ASSUME NEW c, NEW i, Good(c)
  PROVE  Good(Spl(c, i))
  <1> DEFINE d == IF c.cm = KER THEN [c EXCEPT !.ipl = i.arg] ELSE c
  <1>1. Kept(c, d)
    BY DEF Good, Wf, Kept, Fields
  <1>2. Spl(c, i) = CalcInts(d)
    BY DEF Spl
  <1> HIDE DEF d
  <1> QED  BY <1>1, <1>2, KeptGood, CalcGood DEF Good

LEMMA ResetGood ==
  ASSUME NEW c, NEW i, Good(c)
  PROVE  Good(Reset(c, i))
  <1> DEFINE d == [c EXCEPT !.done = {"TTO", "CLK"}, !.ie = {}, !.printing = FALSE,
                            !.pirq = {}, !.int = {}, !.traps = @ \ {"INT"}]
  <1>1. CASE c.cm # KER
    BY <1>1 DEF Reset
  <1>2. CASE c.cm = KER
    <2>1. /\ Fields \subseteq DOMAIN d /\ d.done = {"TTO", "CLK"} /\ d.ie = {}
          /\ d.pirq = {} /\ d.int = {} /\ d.traps = c.traps \ {"INT"}
      BY DEF Good, Wf, Fields
    <2>2. Reset(c, i) = UpdateTime(d)
      BY <1>2 DEF Reset
    <2> HIDE DEF d
    <2>3. Wf(d) /\ Stands(d)
      BY <2>1 DEF Wf, Stands, Device
    <2>4. Flag(d)
      BY <2>1 DEF Flag, Requests
    <2>5. Same(d, UpdateTime(d))
      BY <2>1 DEF Same, Kept, UpdateTime, Fields
    <2> QED  BY <2>2, <2>3, <2>4, <2>5, SameGood DEF Good
  <1> QED  BY <1>1, <1>2

LEMMA PushGood ==
  ASSUME NEW c, NEW i, Good(c)
  PROVE  Good(Push(c, i))
  <1> DEFINE e == [c EXCEPT !.sp = @ - 1]
             d == Limit(e)
             f == [d EXCEPT !.mem[c.cm][d.sp] = i.arg]
  <1>1. Same(c, e)
    BY DEF Same, Kept, Good, Wf, Fields
  <1>2. Good(d)
    BY <1>1, SameGood, LimitGood
  <1>3. Push(c, i) \in {d, Aborted(d, "NXM"), f}
    BY DEF Push
  <1> HIDE DEF d
  <1>4. Good(Aborted(d, "NXM"))
    BY <1>2, AbortGood
  <1>5. Same(d, f)
    BY <1>2 DEF Same, Kept, Good, Wf, Fields
  <1>6. Good(f)
    BY <1>2, <1>5, SameGood
  <1> QED  BY <1>2, <1>3, <1>4, <1>6

LEMMA PopGood ==
  ASSUME NEW c, NEW i, Good(c)
  PROVE  Good(Pop(c, i))
  <1> DEFINE d == [c EXCEPT !.sp = @ + 1]
  <1>1. Same(c, d)
    BY DEF Same, Kept, Good, Wf, Fields
  <1>2. Pop(c, i) \in {d, Aborted(d, "NXM")}
    BY DEF Pop
  <1> HIDE DEF d
  <1> QED  BY <1>1, <1>2, SameGood, AbortGood

LEMMA ControlGood ==
  ASSUME NEW c, NEW i, Good(c), c.why = "run"
  PROVE  /\ Good(Wait(c, i)) /\ Good(Load(c, i)) /\ Good(Halt(c, i))
         /\ Good(Bad(c, i)) /\ Good(Bpt(c, i)) /\ Good(Iot(c, i))
  <1>1. Good(Wait(c, i)) /\ Good(Load(c, i))
    <2>1. Same(c, Wait(c, i)) /\ Same(c, Load(c, i))
      BY DEF Same, Kept, Good, Wf, Fields, Wait, Load
    <2> QED  BY <2>1, SameGood
  <1>2. Good(Halt(c, i))
    BY StopGood, AbortGood DEF Halt, Good
  <1>3. Good(Bad(c, i)) /\ Good(Bpt(c, i)) /\ Good(Iot(c, i))
    BY AbortGood DEF Bad, Bpt, Iot
  <1> QED  BY <1>1, <1>2, <1>3

-----------------------------------------------------------------------------
(* Accesses to the registers *)

LEMMA WritePSWGood ==
  ASSUME NEW c, NEW i, Good(c)
  PROVE  Good(WritePSW(c, i))
  <1> DEFINE s == [c EXCEPT !.stk[c.cm] = c.sp]
             put == PutPSW(s, [i.arg EXCEPT !.t = c.t], FALSE)
             swap == SwapSet(put, c.rs)
             in == [swap EXCEPT !.sp = swap.stk[swap.cm]]
  <1>1. Kept(c, s)
    BY DEF Kept, Good, Wf, Fields
  <1> HIDE DEF s
  <1>2. Kept(s, put)
    BY <1>1 DEF PutPSW, Kept, Good, Wf, Fields
  <1>3. Kept(put, swap)
    BY <1>1, <1>2, SetSwapped DEF Kept, Good, Wf
  <1>4. Kept(swap, in)
    BY <1>1, <1>2, <1>3 DEF Kept, Good, Wf, Fields
  <1>5. WritePSW(c, i) = CalcInts(in)
    BY OfOne DEF WritePSW, Then, s
  <1> HIDE DEF put, swap, in
  <1>6. Wf(in) /\ Stands(in)
    BY <1>1, <1>2, <1>3, <1>4, KeptGood DEF Good
  <1> QED  BY <1>5, <1>6, CalcGood

LEMMA WritePIRQGood ==
  ASSUME NEW c, NEW i, Good(c)
  PROVE  Good(WritePIRQ(c, i))
  <1>1. i.arg \cap PIR \in SUBSET PIR
    OBVIOUS
  <1> QED  BY <1>1, PirqGood, CalcGood DEF Good, WritePIRQ

\* What the registers of a device do to the requests: a request is withdrawn,
\* or made of a device that is done and enabled.
LEMMA Withdrawn ==
  ASSUME NEW c, NEW e, NEW d \in Device, Wf(c), Stands(c),
         Fields \subseteq DOMAIN e,
         e.int = c.int /\ e.acked = c.acked /\ e.pirq = c.pirq,
         e.done \subseteq c.done \cup {d} /\ e.done \ {d} = c.done \ {d},
         e.ie \ {d} = c.ie \ {d},
         d # "CLK" => d \notin e.done \cap e.ie
  PROVE  Wf(ClrInt(e, d)) /\ Stands(ClrInt(e, d))
  <1> DEFINE f == ClrInt(e, d)
  <1>1. /\ Fields \subseteq DOMAIN f /\ f.int = c.int \ {d} /\ f.acked = c.acked
        /\ f.pirq = c.pirq /\ f.done = e.done /\ f.ie = e.ie
    BY DEF ClrInt, Fields
  <1> HIDE DEF f
  <1>2. d \notin PIR
    BY DEF PIR, Device
  <1>3. Wf(f) /\ Stands(f)
    BY <1>1, <1>2 DEF Wf, Stands
  <1> QED  BY <1>3 DEF f

LEMMA Requested ==
  ASSUME NEW c, NEW e, NEW d \in Device, Wf(c), Stands(c),
         Fields \subseteq DOMAIN e,
         e.int = c.int /\ e.acked = c.acked /\ e.pirq = c.pirq,
         e.done = c.done \cup {d}, e.ie \cup {d} = c.ie \cup {d}, c.ie \subseteq e.ie
  PROVE  /\ d \in e.ie => Wf(SetInt(e, d)) /\ Stands(SetInt(e, d))
         /\ d \notin e.ie => Wf(e) /\ Stands(e)
  <1> DEFINE f == SetInt(e, d)
  <1>1. /\ Fields \subseteq DOMAIN f /\ f.int = c.int \cup {d}
        /\ f.acked = c.acked \ {d}
        /\ f.pirq = c.pirq /\ f.done = e.done /\ f.ie = e.ie
    BY DEF SetInt, Fields
  <1> HIDE DEF f
  <1>2. d \notin PIR
    BY DEF PIR, Device
  <1>3. d \in e.ie => Wf(f) /\ Stands(f)
    BY <1>1, <1>2 DEF Wf, Stands
  <1>4. d \notin e.ie => Wf(e) /\ Stands(e)
    BY <1>2 DEF Wf, Stands
  <1> QED  BY <1>3, <1>4 DEF f

LEMMA ReadTTIGood ==
  ASSUME NEW c, NEW i, Good(c)
  PROVE  Good(ReadTTI(c, i))
  <1> DEFINE e == [c EXCEPT !.done = @ \ {"TTI"}]
             f == ClrInt(e, "TTI")
  <1>1. /\ Fields \subseteq DOMAIN e /\ e.done = c.done \ {"TTI"}
        /\ e.int = c.int /\ e.acked = c.acked /\ e.pirq = c.pirq /\ e.ie = c.ie
    BY DEF Good, Wf, Fields
  <1>2. ReadTTI(c, i) = CalcInts(UpdateTime(f))
    BY DEF ReadTTI
  <1> HIDE DEF e
  <1>3. Wf(f) /\ Stands(f)
    <2>1. "TTI" \in Device
      BY DEF Device
    <2> QED  BY <1>1, <2>1, Withdrawn DEF Good
  <1> HIDE DEF f
  <1>4. Kept(f, UpdateTime(f))
    BY <1>3 DEF Kept, UpdateTime, Wf, Fields
  <1> QED  BY <1>2, <1>3, <1>4, KeptGood, CalcGood

LEMMA WriteTTOGood ==
  ASSUME NEW c, NEW i, Good(c)
  PROVE  Good(WriteTTO(c, i))
  <1> DEFINE e == [c EXCEPT !.done = @ \ {"TTO"}, !.printing = TRUE]
             f == ClrInt(e, "TTO")
  <1>1. /\ Fields \subseteq DOMAIN e /\ e.done = c.done \ {"TTO"}
        /\ e.int = c.int /\ e.acked = c.acked /\ e.pirq = c.pirq /\ e.ie = c.ie
    BY DEF Good, Wf, Fields
  <1>2. WriteTTO(c, i) = CalcInts(f) \/ WriteTTO(c, i) = CalcInts(UpdateTime(f))
    <2>1. CASE c.printing
      BY <2>1 DEF WriteTTO
    <2>2. CASE ~c.printing
      BY <2>2 DEF WriteTTO
    <2> QED  BY <2>1, <2>2
  <1> HIDE DEF e
  <1>3. Wf(f) /\ Stands(f)
    <2>1. "TTO" \in Device
      BY DEF Device
    <2> QED  BY <1>1, <2>1, Withdrawn DEF Good
  <1> HIDE DEF f
  <1>4. Kept(f, UpdateTime(f))
    BY <1>3 DEF Kept, UpdateTime, Wf, Fields
  <1> QED  BY <1>2, <1>3, <1>4, KeptGood, CalcGood

LEMMA EnableGood ==
  ASSUME NEW c, NEW i, Good(c)
  PROVE  Good(Enable(c, i))
  <1> DEFINE d == Terminal(i)
             e == [c EXCEPT !.ie = @ \cup {d}]
             f == IF d \in c.done \ c.ie THEN SetInt(e, d) ELSE e
  <1>1. d \in Device
    BY DEF Terminal, Device
  <1>2. /\ Fields \subseteq DOMAIN e /\ e.ie = c.ie \cup {d} /\ e.done = c.done
        /\ e.int = c.int /\ e.acked = c.acked /\ e.pirq = c.pirq
    BY DEF Good, Wf, Fields
  <1>3. Enable(c, i) = CalcInts(f)
    BY DEF Enable
  <1> HIDE DEF d, e
  <1>4. Wf(f) /\ Stands(f)
    <2>1. CASE d \in c.done \ c.ie
      <3>1. e.done = c.done \cup {d} /\ d \in e.ie
        BY <1>2, <2>1
      <3>2. Wf(SetInt(e, d)) /\ Stands(SetInt(e, d))
        BY <1>1, <1>2, <3>1, Requested DEF Good
      <3> QED  BY <2>1, <3>2
    <2>2. CASE d \notin c.done \ c.ie
      <3>1. Wf(e) /\ Stands(e)
        BY <1>1, <1>2, <2>2 DEF Good, Wf, Stands
      <3> QED  BY <2>2, <3>1
    <2> QED  BY <2>1, <2>2
  <1> QED  BY <1>3, <1>4, CalcGood

LEMMA DisableGood ==
  ASSUME NEW c, NEW i, Good(c)
  PROVE  Good(Disable(c, i))
  <1> DEFINE d == Terminal(i)
             e == [c EXCEPT !.ie = @ \ {d}]
             f == ClrInt(e, d)
  <1>1. d \in Device
    BY DEF Terminal, Device
  <1>2. /\ Fields \subseteq DOMAIN e /\ e.ie = c.ie \ {d} /\ e.done = c.done
        /\ e.int = c.int /\ e.acked = c.acked /\ e.pirq = c.pirq
    BY DEF Good, Wf, Fields
  <1>3. Disable(c, i) = CalcInts(f)
    BY DEF Disable
  <1> HIDE DEF d, e
  <1>4. Wf(f) /\ Stands(f)
    BY <1>1, <1>2, Withdrawn DEF Good
  <1> QED  BY <1>3, <1>4, CalcGood

LEMMA WriteCLKGood ==
  ASSUME NEW c, NEW i, Good(c)
  PROVE  Good(WriteCLK(c, i))
  <1> DEFINE e == [c EXCEPT !.ie = IF i.arg[1] THEN @ \cup {"CLK"} ELSE @ \ {"CLK"},
                            !.done = IF i.arg[2] THEN @ ELSE @ \ {"CLK"}]
             f == ClrInt(e, "CLK")
  <1>1. /\ Fields \subseteq DOMAIN e
        /\ e.int = c.int /\ e.acked = c.acked /\ e.pirq = c.pirq
        /\ e.ie = IF i.arg[1] THEN c.ie \cup {"CLK"} ELSE c.ie \ {"CLK"}
        /\ e.done = IF i.arg[2] THEN c.done ELSE c.done \ {"CLK"}
    BY DEF Good, Wf, Fields
  <1>2. /\ "CLK" \in e.ie \cap e.done => WriteCLK(c, i) = CalcInts(e)
        /\ "CLK" \notin e.ie \cap e.done => WriteCLK(c, i) = CalcInts(f)
    BY DEF WriteCLK
  <1> HIDE DEF e
  <1>3. e.ie \ {"CLK"} = c.ie \ {"CLK"} /\ e.done \ {"CLK"} = c.done \ {"CLK"}
        /\ e.done \subseteq c.done
    BY <1>1
  <1>4. CASE "CLK" \in e.ie \cap e.done
    <2>1. Wf(e) /\ Stands(e)
      BY <1>1, <1>3, <1>4 DEF Good, Wf, Stands
    <2> QED  BY <1>2, <1>4, <2>1, CalcGood
  <1>5. CASE "CLK" \notin e.ie \cap e.done
    <2>1. "CLK" \in Device
      BY DEF Device
    <2>2. Wf(f) /\ Stands(f)
      BY <1>1, <1>3, <2>1, Withdrawn DEF Good
    <2> QED  BY <1>2, <1>5, <2>2, CalcGood
  <1> QED  BY <1>4, <1>5

-----------------------------------------------------------------------------
(* Steps *)

\* The machine when an instruction is fetched.
Fetched ==
  [Traced(m) EXCEPT !.pc = Following(@), !.found = <<>>, !.spent = Program.breaks # {}]

LEMMA FetchGood ==
  ASSUME Good(m), m.why = "run"
  PROVE  Good(Fetched) /\ Fetched.why = "run"
  <1>1. Good(Traced(m)) /\ Traced(m).why = "run"
    <2>1. Traced(m) = Aborted(m, "TRC") \/ Traced(m) = m
      BY DEF Traced, Aborted
    <2>2. Aborted(m, "TRC").why = "run"
      BY DEF Aborted, Good, Wf, Fields
    <2> QED  BY <2>1, <2>2, AbortGood
  <1>2. Same(Traced(m), Fetched)
    BY <1>1 DEF Fetched, Same, Kept, Good, Wf, Fields
  <1> QED  BY <1>1, <1>2, SameGood DEF Same

LEMMA ControlKeeps ==
  ASSUME Good(m), Control
  PROVE  Good(m')
  <1>1. Good(Fetched) /\ Fetched.why = "run"
    BY FetchGood DEF Control, Run, Running
  <1>2. CASE Run("other", Other)
    <2>1. PICK i : m' = Other(Fetched, i)
      BY <1>2 DEF Run, Fetched
    <2> QED  BY <1>1, <2>1 DEF Other
  <1>3. CASE Run("load", Load)
    <2>1. PICK i : m' = Load(Fetched, i)
      BY <1>3 DEF Run, Fetched
    <2> QED  BY <1>1, <2>1, ControlGood
  <1>4. CASE Run("nxm", Bad)
    <2>1. PICK i : m' = Bad(Fetched, i)
      BY <1>4 DEF Run, Fetched
    <2> QED  BY <1>1, <2>1, ControlGood
  <1>5. CASE Run("bpt", Bpt)
    <2>1. PICK i : m' = Bpt(Fetched, i)
      BY <1>5 DEF Run, Fetched
    <2> QED  BY <1>1, <2>1, ControlGood
  <1>6. CASE Run("iot", Iot)
    <2>1. PICK i : m' = Iot(Fetched, i)
      BY <1>6 DEF Run, Fetched
    <2> QED  BY <1>1, <2>1, ControlGood
  <1>7. CASE Run("halt", Halt)
    <2>1. PICK i : m' = Halt(Fetched, i)
      BY <1>7 DEF Run, Fetched
    <2> QED  BY <1>1, <2>1, ControlGood
  <1>8. CASE Run("wait", Wait)
    <2>1. PICK i : m' = Wait(Fetched, i)
      BY <1>8 DEF Run, Fetched
    <2> QED  BY <1>1, <2>1, ControlGood
  <1>9. CASE Run("spl", Spl)
    <2>1. PICK i : m' = Spl(Fetched, i)
      BY <1>9 DEF Run, Fetched
    <2> QED  BY <1>1, <2>1, SplGood
  <1>10. CASE Run("reset", Reset)
    <2>1. PICK i : m' = Reset(Fetched, i)
      BY <1>10 DEF Run, Fetched
    <2> QED  BY <1>1, <2>1, ResetGood
  <1>11. CASE Run("rti", Rti)
    <2>1. PICK i : m' = Rti(Fetched, i)
      BY <1>11 DEF Run, Fetched
    <2> QED  BY <1>1, <2>1, ReturnGood DEF Rti
  <1>12. CASE Run("rtt", Rtt)
    <2>1. PICK i : m' = Rtt(Fetched, i)
      BY <1>12 DEF Run, Fetched
    <2> QED  BY <1>1, <2>1, ReturnGood DEF Rtt
  <1>13. CASE Run("push", Push)
    <2>1. PICK i : m' = Push(Fetched, i)
      BY <1>13 DEF Run, Fetched
    <2> QED  BY <1>1, <2>1, PushGood
  <1>14. CASE Run("pop", Pop)
    <2>1. PICK i : m' = Pop(Fetched, i)
      BY <1>14 DEF Run, Fetched
    <2> QED  BY <1>1, <2>1, PopGood
  <1> QED
    BY <1>2, <1>3, <1>4, <1>5, <1>6, <1>7, <1>8, <1>9, <1>10, <1>11, <1>12, <1>13, <1>14 DEF Control

LEMMA AccessKeeps ==
  ASSUME Good(m), Access
  PROVE  Good(m')
  <1>1. Good(Fetched) /\ Fetched.why = "run"
    BY FetchGood DEF Access, Run, Running
  <1>2. CASE Run("psw", WritePSW)
    <2>1. PICK i : m' = WritePSW(Fetched, i)
      BY <1>2 DEF Run, Fetched
    <2> QED  BY <1>1, <2>1, WritePSWGood
  <1>3. CASE Run("pirq", WritePIRQ)
    <2>1. PICK i : m' = WritePIRQ(Fetched, i)
      BY <1>3 DEF Run, Fetched
    <2> QED  BY <1>1, <2>1, WritePIRQGood
  <1>4. CASE Run("tti", ReadTTI)
    <2>1. PICK i : m' = ReadTTI(Fetched, i)
      BY <1>4 DEF Run, Fetched
    <2> QED  BY <1>1, <2>1, ReadTTIGood
  <1>5. CASE Run("tto", WriteTTO)
    <2>1. PICK i : m' = WriteTTO(Fetched, i)
      BY <1>5 DEF Run, Fetched
    <2> QED  BY <1>1, <2>1, WriteTTOGood
  <1>6. CASE Run("enable", Enable)
    <2>1. PICK i : m' = Enable(Fetched, i)
      BY <1>6 DEF Run, Fetched
    <2> QED  BY <1>1, <2>1, EnableGood
  <1>7. CASE Run("disable", Disable)
    <2>1. PICK i : m' = Disable(Fetched, i)
      BY <1>7 DEF Run, Fetched
    <2> QED  BY <1>1, <2>1, DisableGood
  <1>8. CASE Run("clk", WriteCLK)
    <2>1. PICK i : m' = WriteCLK(Fetched, i)
      BY <1>8 DEF Run, Fetched
    <2> QED  BY <1>1, <2>1, WriteCLKGood
  <1> QED  BY <1>2, <1>3, <1>4, <1>5, <1>6, <1>7, <1>8 DEF Access

LEMMA EventKeeps ==
  ASSUME Good(m), Event
  PROVE  Good(m')
  <1> DEFINE a == Assemble(m)
             p == [a EXCEPT !.printing = FALSE]
  <1>1. Wf(a) /\ Stands(a)
    <2>1. Kept(m, a)
      BY DEF Assemble, Kept, Good, Wf, Fields
    <2> QED  BY <2>1, KeptGood DEF Good
  <1>2. Wf(p) /\ Stands(p)
    <2>1. Kept(a, p)
      BY <1>1 DEF Kept, Wf, Fields
    <2> QED  BY <1>1, <2>1, KeptGood
  <1> HIDE DEF a, p
  <1>3. ASSUME NEW c, NEW d \in Device, Wf(c), Stands(c)
        PROVE  Wf(Ready(c, d)) /\ Stands(Ready(c, d))
    <2> DEFINE e == [c EXCEPT !.done = @ \cup {d}]
    <2>1. /\ Fields \subseteq DOMAIN e /\ e.ie = c.ie /\ e.done = c.done \cup {d}
          /\ e.int = c.int /\ e.acked = c.acked /\ e.pirq = c.pirq
      BY <1>3 DEF Wf, Fields
    <2>2. Ready(c, d) = IF d \in c.ie THEN SetInt(e, d) ELSE e
      BY DEF Ready
    <2> HIDE DEF e
    <2>3. /\ d \in e.ie => Wf(SetInt(e, d)) /\ Stands(SetInt(e, d))
          /\ d \notin e.ie => Wf(e) /\ Stands(e)
      BY <1>3, <2>1, Requested
    <2> QED  BY <2>1, <2>2, <2>3
  <1>4. CASE Key \/ Tick \/ Printed
    <2>1. PICK d \in Device : m' \in {AfterEvents(Ready(a, d)), AfterEvents(Ready(p, d))}
      BY <1>4 DEF Key, Tick, Printed, Device, a, p
    <2> QED  BY <1>1, <1>2, <1>3, <2>1, EventsGood
  <1>5. CASE OtherEvent \/ StopEvent
    <2>1. m' \in {AfterEvents(a), Stop(AfterEvents(a), "stop")}
      BY <1>5 DEF OtherEvent, StopEvent, a
    <2> QED  BY <1>1, <2>1, EventsGood, StopGood
  <1> QED  BY <1>4, <1>5 DEF Event

LEMMA EntryKeeps ==
  ASSUME Good(m), TakeTrap \/ TakeInterrupt
  PROVE  Good(m')
  <1>1. CASE TakeTrap
    <2> DEFINE C(t) == [m EXCEPT !.traps = @ \ Clears[t]]
    <2>1. PICK t, c : /\ c = Enter(C(t), t, t \notin {"RED", "YEL"})
                      /\ m' \in {Stop(c, "red"), c}
      BY <1>1 DEF TakeTrap
    <2>2. Wf(C(t)) /\ Stands(C(t))
      <3>1. Kept(m, C(t))
        BY DEF Kept, Good, Wf, Fields
      <3> QED  BY <3>1, KeptGood DEF Good
    <2> HIDE DEF C
    <2>3. Good(c)
      BY <2>1, <2>2, EnterGood
    <2> QED  BY <2>1, <2>3, StopGood DEF Good
  <1>2. CASE TakeInterrupt
    <2> DEFINE C(s) == [m EXCEPT !.int = @ \ {s}, !.acked = @ \cup {s}]
    <2>1. PICK s : m' \in {CalcInts(m), Enter(C(s), s, TRUE)}
      BY <1>2 DEF TakeInterrupt
    <2>2. Wf(C(s)) /\ Stands(C(s))
      <3> DEFINE c == C(s)
      <3>1. /\ Fields \subseteq DOMAIN c /\ c.int = m.int \ {s}
            /\ c.acked = m.acked \cup {s} /\ c.pirq = m.pirq
            /\ c.done = m.done /\ c.ie = m.ie
        BY DEF Good, Wf, Fields
      <3> HIDE DEF c
      <3>2. Wf(c) /\ Stands(c)
        BY <3>1 DEF Good, Wf, Stands
      <3> QED  BY <3>2 DEF c
    <2> HIDE DEF C
    <2> QED  BY <2>1, <2>2, EnterGood, CalcGood DEF Good
  <1> QED  BY <1>1, <1>2

LEMMA StoppedKeeps ==
  ASSUME Good(m), Breakpoint \/ Continue
  PROVE  Good(m')
  <1>1. CASE Continue
    BY <1>1, ResumeGood DEF Continue, Good
  <1>2. CASE Breakpoint
    <2> DEFINE c == [Traced(m) EXCEPT !.hit = @ \cup {m.pc}, !.found = <<Context(m)>>]
               p == PutPSW(c, c.psw, FALSE)
    <2>1. Kept(m, c)
      BY DEF Traced, Kept, Good, Wf, Fields
    <2> HIDE DEF c
    <2>2. Kept(c, p)
      BY <2>1 DEF PutPSW, Good, Wf, Kept, Fields
    <2>3. m' = Stop(p, "bkpt")
      BY <1>2 DEF Breakpoint, c
    <2> HIDE DEF p
    <2>4. Wf(p) /\ Stands(p)
      BY <2>1, <2>2, KeptGood DEF Good
    <2> QED  BY <2>3, <2>4, StopGood
  <1> QED  BY <1>1, <1>2

LEMMA InitGood == Init => Good(m)
  <1> SUFFICES ASSUME Init PROVE Good(m)
    OBVIOUS
  <1>1. /\ Fields \subseteq DOMAIN m /\ m.int = {} /\ m.acked = {"TTO"}
        /\ m.pirq = {} /\ m.done = {"TTO", "CLK"} /\ m.traps = {}
    BY DEF Init, Fields
  <1>2. Wf(m) /\ Stands(m)
    BY <1>1 DEF Wf, Stands, Device
  <1>3. Flag(m)
    BY <1>1 DEF Flag, Requests
  <1> QED  BY <1>2, <1>3 DEF Good

\* Whatever step is taken, the requests stand for what the devices and PIRQ
\* say, and a machine that runs has calculated TRAP_INT from them.
THEOREM IInvAlways == Spec => []IInv
  <1> USE DEF IInv
  <1>1. IInv /\ [Next]_vars => IInv'
    <2> SUFFICES ASSUME Good(m), [Next]_vars PROVE Good(m')
      OBVIOUS
    <2>1. CASE Next
      BY <2>1, ControlKeeps, AccessKeeps, EventKeeps, EntryKeeps, StoppedKeeps
         DEF Next, Turn
    <2>2. CASE UNCHANGED vars
      BY <2>2 DEF vars, Good, Wf, Stands, Flag, Requests
    <2> QED  BY <2>1, <2>2
  <1>2. Init => IInv
    BY InitGood
  <1> QED  BY <1>1, <1>2, PTL DEF Spec

\* TRAP_INT is set exactly when a request is above the level, and requests are
\* made and withdrawn with what they stand for (calc_ints, SET_INT, CLR_INT,
\* put_PIRQ and their callers).
THEOREM NoRequestOverlooked == Spec => []RequestsSeen
  <1>1. IInv => RequestsSeen
    BY DEF IInv, Good, Stands, Flag, RequestsSeen, IntFlag, RequestsTrue, Running
  <1> QED  BY <1>1, IInvAlways, PTL

-----------------------------------------------------------------------------
(***************************************************************************)
(* A user program stays confined.                                          *)
(*                                                                         *)
(* Sound is what a step needs of the machine it starts from: modes there   *)
(* are, memory and PC that lead somewhere, and requests that have a        *)
(* vector.  Held says that a machine that stands shows the mode and the    *)
(* level it stands in, so that CONTINUE goes on in them.  Most routines    *)
(* are Calm: they leave mode, level, PC and memory alone.                  *)
(***************************************************************************)

Parts == {"cm", "ipl", "psw", "pc", "mem", "traps", "int", "pirq", "why"}

\* Every stack is whole and no word on it leads out of the program.
Stored(mem) ==
  /\ DOMAIN mem = Mode
  /\ \A mode \in Mode : /\ DOMAIN mem[mode] = 0 .. Depth - 1
                        /\ \A a \in 0 .. Depth - 1 : Fair(Program, mem[mode][a])

Sound(c) ==
  /\ Parts \subseteq DOMAIN c
  /\ c.cm \in Mode /\ c.psw.cm \in Mode
  /\ At(Program, c.pc) /\ Stored(c.mem)
  /\ c.traps \subseteq Trap \cup {"INT"} /\ c.int \subseteq Source /\ c.pirq \subseteq PIR

Shown(c) == c.psw.cm = c.cm /\ c.psw.ipl = c.ipl

Held(c) == c.why # "run" => Shown(c)

Calm(c, d) ==
  /\ DOMAIN d = DOMAIN c
  /\ d.cm = c.cm /\ d.ipl = c.ipl /\ d.pc = c.pc /\ d.mem = c.mem
  /\ (d.why = c.why /\ d.psw = c.psw) \/ Shown(d)
  /\ d.traps \subseteq c.traps \cup Trap \cup {"INT"}
  /\ d.int \subseteq c.int \cup Source /\ d.pirq \subseteq c.pirq \cup PIR

\* What an instruction does to the machine it is fetched in.
Obeys(c, d) ==
  Sound(d) /\ Held(d) /\ (c.cm = USR => d.cm = USR /\ d.ipl = c.ipl)

UInv == "name" \in DOMAIN left /\ left.name \in DOMAIN Scenarios /\ Sound(m) /\ Held(m)

LEMMA Modes == Mode = {0, 1, 3} /\ KER = 0 /\ SUP = 1 /\ USR = 3
  BY DEF Mode, KER, SUP, USR

\* A program of Scenarios is as they are assumed to be.
LEMMA OfProgram ==
  ASSUME left.name \in DOMAIN Scenarios
  PROVE  /\ Program.start \in PSW /\ At(Program, [at |-> "main", n |-> 1])
         /\ \A v \in Trap \cup Source : /\ Program.vector[Handler[v]] \in PSW
                                        /\ At(Program, [at |-> Handler[v], n |-> 1])
         /\ \A at \in DOMAIN Program.code :
              /\ Len(Program.code[at]) \in Nat
              /\ DOMAIN Program.code[at] = 1 .. Len(Program.code[at])
              /\ \A n \in DOMAIN Program.code[at] : \A i \in Program.code[at][n] :
                   /\ i.op = "push" => Fair(Program, i.arg)
                   /\ i.op = "psw" => i.arg \in PSW
  BY ScenarioAssumption, Zenon DEF Program

LEMMA CalmSound ==
  ASSUME NEW c, NEW d, Sound(c), Calm(c, d)
  PROVE  Sound(d)
  <1>1. d.psw.cm \in Mode
    BY DEF Sound, Calm, Shown
  <1> QED  BY <1>1 DEF Sound, Calm

LEMMA CalmHeld ==
  ASSUME NEW c, NEW d, Held(c), Calm(c, d)
  PROVE  Held(d)
  BY DEF Held, Calm, Shown

LEMMA CalmTwice ==
  ASSUME NEW c, NEW d, NEW e, Calm(c, d), Calm(d, e)
  PROVE  Calm(c, e)
  BY DEF Calm, Shown

LEMMA CalmObeys ==
  ASSUME NEW c, NEW d, Sound(c), Held(c), Calm(c, d)
  PROVE  Obeys(c, d)
  <1>1. Sound(d) /\ Held(d)
    BY CalmSound, CalmHeld
  <1> QED  BY <1>1 DEF Obeys, Calm

\* A word is stored, or there is no such word and nothing changes.
LEMMA WordStored ==
  ASSUME NEW mem, NEW mode, NEW a, NEW word, Stored(mem), Fair(Program, word)
  PROVE  Stored([mem EXCEPT ![mode][a] = word])
  <1> DEFINE new == [mem EXCEPT ![mode][a] = word]
  <1>1. DOMAIN new = Mode
    BY DEF Stored
  <1>2. ASSUME NEW k \in Mode
        PROVE  /\ DOMAIN new[k] = 0 .. Depth - 1
               /\ \A b \in 0 .. Depth - 1 : new[k][b] = mem[k][b] \/ new[k][b] = word
    BY <1>1 DEF Stored
  <1> HIDE DEF new
  <1>3. Stored(new)
    BY <1>1, <1>2 DEF Stored
  <1> QED  BY <1>3 DEF new

\* The machine with a word on a stack.
With(c, mode, a, word) == [c EXCEPT !.mem[mode][a] = word]

LEMMA WordSound ==
  ASSUME NEW c, NEW mode, NEW a, NEW word, Sound(c), Fair(Program, word)
  PROVE  /\ Sound(With(c, mode, a, word))
         /\ With(c, mode, a, word).cm = c.cm /\ With(c, mode, a, word).ipl = c.ipl
         /\ With(c, mode, a, word).psw = c.psw /\ With(c, mode, a, word).why = c.why
  <1> DEFINE d == With(c, mode, a, word)
             new == [c.mem EXCEPT ![mode][a] = word]
  <1>1. /\ DOMAIN d = DOMAIN c /\ d.cm = c.cm /\ d.ipl = c.ipl /\ d.pc = c.pc
        /\ d.psw = c.psw /\ d.why = c.why /\ d.traps = c.traps /\ d.int = c.int
        /\ d.pirq = c.pirq /\ d.mem = new
    BY DEF With, Sound, Parts
  <1>2. Stored(new)
    BY WordStored DEF Sound
  <1> HIDE DEF new, d
  <1>3. Sound(d)
    BY <1>1, <1>2 DEF Sound
  <1> QED  BY <1>1, <1>3 DEF d

-----------------------------------------------------------------------------
(* Calm routines *)

LEMMA CalcCalm ==
  ASSUME NEW c, Sound(c)
  PROVE  Calm(c, CalcInts(c))
  BY DEF Sound, Parts, Calm, CalcInts

LEMMA TimeCalm ==
  ASSUME NEW c, Sound(c)
  PROVE  Calm(c, UpdateTime(c))
  BY DEF Sound, Parts, Calm, UpdateTime

LEMMA AssembleCalm ==
  ASSUME NEW c, Sound(c)
  PROVE  Calm(c, Assemble(c)) /\ Shown(Assemble(c))
  BY DEF Sound, Parts, Calm, Assemble, Psw, Shown

LEMMA AbortCalm ==
  ASSUME NEW c, NEW t \in Trap, Sound(c)
  PROVE  Calm(c, Aborted(c, t))
  BY DEF Sound, Parts, Calm, Aborted

LEMMA TracedCalm ==
  ASSUME NEW c, Sound(c)
  PROVE  Calm(c, Traced(c))
  <1>1. Traced(c) = Aborted(c, "TRC") \/ Traced(c) = c
    BY DEF Traced, Aborted
  <1>2. Calm(c, c)
    BY DEF Calm
  <1> QED  BY <1>1, <1>2, AbortCalm DEF Trap

LEMMA PirqCalm ==
  ASSUME NEW c, NEW levels \in SUBSET PIR, Sound(c)
  PROVE  Calm(c, PutPIRQ(c, levels))
  BY DEF Sound, Parts, Calm, PutPIRQ, Source

LEMMA RequestCalm ==
  ASSUME NEW c, NEW d \in Device, Sound(c)
  PROVE  Calm(c, SetInt(c, d)) /\ Calm(c, ClrInt(c, d))
  BY DEF Sound, Parts, Calm, SetInt, ClrInt, Source

LEMMA StopCalm ==
  ASSUME NEW c, NEW why, Sound(c)
  PROVE  Calm(c, Stop(c, why)) /\ Sound(Stop(c, why)) /\ Held(Stop(c, why))
  <1> DEFINE a == Assemble(c)
             u == UpdateTime(a)
             d == [u EXCEPT !.why = why]
  <1>1. Calm(c, a) /\ Shown(a) /\ Sound(a)
    BY AssembleCalm, CalmSound
  <1>2. Stop(c, why) = d
    BY DEF Stop
  <1> HIDE DEF a
  <1>3. u = [a EXCEPT !.hit = IF a.spent THEN {} ELSE @, !.spent = FALSE]
    BY DEF UpdateTime
  <1>4. Calm(a, d) /\ Shown(d)
    BY <1>1, <1>3 DEF Sound, Parts, Calm, Shown
  <1> HIDE DEF d
  <1>5. Calm(c, d) /\ Held(d)
    BY <1>1, <1>4, CalmTwice DEF Held
  <1> QED  BY <1>2, <1>5, CalmSound

LEMMA StackTrapCalm ==
  ASSUME NEW c, NEW sp, Sound(c)
  PROVE  Calm(c, StackTrap(c, sp))
  <1>1. CASE sp >= Red
    BY <1>1 DEF Sound, Parts, Calm, StackTrap, Trap
  <1>2. CASE ~(sp >= Red)
    BY <1>2 DEF Sound, Parts, Calm, StackTrap, Trap
  <1> QED  BY <1>1, <1>2

LEMMA LimitCalm ==
  ASSUME NEW c, Sound(c)
  PROVE  Calm(c, Limit(c))
  <1>1. Limit(c) = StackTrap(c, c.sp) \/ Limit(c) = c
    BY DEF Limit
  <1>2. Calm(c, c)
    BY DEF Calm
  <1> QED  BY <1>1, <1>2, StackTrapCalm

LEMMA EventsCalm ==
  ASSUME NEW c, Sound(c)
  PROVE  Calm(c, AfterEvents(c)) /\ Sound(AfterEvents(c))
  <1> DEFINE p == PutPIRQ(c, c.pirq)
             d == CalcInts(p)
  <1>1. Calm(c, p) /\ Sound(p)
    BY PirqCalm, CalmSound DEF Sound
  <1>2. AfterEvents(c) = UpdateTime(d)
    BY DEF AfterEvents
  <1> HIDE DEF p
  <1>3. Calm(c, d) /\ Sound(d)
    BY <1>1, CalcCalm, CalmTwice, CalmSound
  <1> HIDE DEF d
  <1>4. Calm(c, UpdateTime(d)) /\ Sound(UpdateTime(d))
    BY <1>3, TimeCalm, CalmTwice, CalmSound
  <1> QED  BY <1>2, <1>4

-----------------------------------------------------------------------------
(* Routines that change the mode, the level or the PC *)

LEMMA PswPutParts ==
  ASSUME NEW c, NEW w, NEW prot, Sound(c)
  PROVE  LET d == PutPSW(c, w, prot)
         IN  /\ DOMAIN d = DOMAIN c /\ d.psw = c.psw /\ d.pc = c.pc /\ d.mem = c.mem
             /\ d.traps = c.traps /\ d.int = c.int /\ d.pirq = c.pirq /\ d.why = c.why
             /\ prot => d.cm = Or(c.cm, w.cm) /\ d.ipl = c.ipl
             /\ ~prot => d.cm = w.cm /\ d.ipl = w.ipl
  BY DEF PutPSW, Sound, Parts

LEMMA HigherMode ==
  ASSUME NEW a \in Mode, NEW b \in Mode
  PROVE  Or(a, b) \in Mode /\ (a = USR => Or(a, b) = USR)
  BY Modes DEF Or

LEMMA PswPutSound ==
  ASSUME NEW c, NEW w, NEW prot \in BOOLEAN, Sound(c), w.cm \in Mode
  PROVE  Sound(PutPSW(c, w, prot))
  <1> DEFINE d == PutPSW(c, w, prot)
  <1>1. d.cm \in Mode
    BY PswPutParts, HigherMode DEF Sound
  <1> QED  BY <1>1, PswPutParts DEF Sound

LEMMA SetSwapCalm ==
  ASSUME NEW c, NEW rs, Sound(c)
  PROVE  Calm(c, SwapSet(c, rs)) /\ Sound(SwapSet(c, rs))
  <1>1. Calm(c, SwapSet(c, rs))
    BY DEF SwapSet, Sound, Parts, Calm
  <1> QED  BY <1>1, CalmSound

\* The entry of a handler: the new mode is the vector's, the PC its first
\* instruction.
LEMMA EnteredSound ==
  ASSUME NEW c, NEW new \in PSW, NEW v, NEW of, Sound(c), c.why = "run",
         At(Program, [at |-> Handler[v], n |-> 1])
  PROVE  LET d == Entered(c, new, v, of)
         IN  Sound(d) /\ d.why = "run" /\ d.pc = [at |-> Handler[v], n |-> 1]
  <1> DEFINE put == PutPSW(c, [new EXCEPT !.pm = c.cm], FALSE)
             swap == SwapSet(put, c.rs)
             in == [swap EXCEPT !.sp = swap.stk[swap.cm] - 2,
                                !.pc = [at |-> Handler[v], n |-> 1],
                                !.frames = Append(@, [mode |-> swap.cm,
                                                      sp |-> swap.stk[swap.cm] - 2,
                                                      of |-> of])]
  <1>1. Sound(put) /\ put.why = "run"
    <2> DEFINE w == [new EXCEPT !.pm = c.cm]
    <2>1. w.cm \in Mode
      BY DEF PSW
    <2> HIDE DEF w
    <2>2. Sound(PutPSW(c, w, FALSE))
      BY <2>1, PswPutSound
    <2>3. PutPSW(c, w, FALSE).why = "run"
      BY DEF PutPSW, Sound, Parts
    <2> QED  BY <2>2, <2>3 DEF w
  <1> HIDE DEF put
  <1>2. Sound(swap) /\ swap.why = "run"
    <2>1. swap.why = put.why
      BY <1>1 DEF SwapSet, Sound, Parts
    <2> QED  BY <1>1, <2>1, SetSwapCalm
  <1> HIDE DEF swap
  <1>3. Sound(in) /\ in.why = "run" /\ in.pc = [at |-> Handler[v], n |-> 1]
    BY <1>2 DEF Sound, Parts
  <1>4. Entered(c, new, v, of) = CalcInts(in)
    BY OfOne DEF Entered, Then, put, swap
  <1> HIDE DEF in
  <1>5. CalcInts(in).why = in.why
    BY <1>3 DEF CalcInts, Sound, Parts
  <1>6. Calm(in, CalcInts(in)) /\ Sound(CalcInts(in))
    BY <1>3, CalcCalm, CalmSound
  <1> QED  BY <1>3, <1>4, <1>5, <1>6 DEF Calm

\* A push that aborts leaves the machine as it was, and stopped.
LEMMA PushAbortSound ==
  ASSUME NEW c, NEW mode, Sound(c)
  PROVE  Calm(c, PushAbort(c, mode)) /\ Sound(PushAbort(c, mode)) /\ Held(PushAbort(c, mode))
  <1> DEFINE e == [c EXCEPT !.traps = @ \cup {"NXM", "RED"}, !.stk[KER] = 2,
                            !.sp = IF c.cm = KER THEN 2 ELSE @]
             f == [c EXCEPT !.traps = @ \cup {"NXM"}]
             g == IF mode = KER THEN e ELSE f
  <1>1. Calm(c, e) /\ Calm(c, f)
    BY DEF Sound, Parts, Calm, Trap
  <1>2. PushAbort(c, mode) = Stop(g, "spabort")
    BY DEF PushAbort
  <1> HIDE DEF e, f
  <1>3. Calm(c, g) /\ Sound(g)
    BY <1>1, CalmSound
  <1> HIDE DEF g
  <1>4. Calm(g, Stop(g, "spabort")) /\ Sound(Stop(g, "spabort")) /\ Held(Stop(g, "spabort"))
    BY <1>3, StopCalm
  <1> QED  BY <1>2, <1>3, <1>4, CalmTwice

\* What an entry does: the handler begins, or the mode and the level stay.
LEMMA EnterSound ==
  ASSUME NEW c0, NEW v \in Trap \cup Source, NEW checked \in BOOLEAN,
         left.name \in DOMAIN Scenarios, Sound(c0), c0.why = "run"
  PROVE  LET d == Enter(c0, v, checked)
         IN  /\ Sound(d) /\ Held(d)
             /\ \/ d.pc = [at |-> Handler[v], n |-> 1]
                \/ d.cm = c0.cm /\ d.ipl = c0.ipl
  <1> DEFINE new == Program.vector[Handler[v]]
             c == Saved(c0)
             top == c.stk[new.cm]
             d == With(c, new.cm, top - 1, PswWord(c.psw))
             e == With(d, new.cm, top - 2, PcWord(c.pc))
             f == Entered(e, new, v, Context(c0))
             first == [at |-> Handler[v], n |-> 1]
  <1>1. new \in PSW /\ At(Program, first)
    BY OfProgram
  <1>2. /\ Sound(c) /\ c.why = "run" /\ c.cm = c0.cm /\ c.ipl = c0.ipl
    BY DEF Saved, Sound, Parts, Psw
  <1>3. \/ Enter(c0, v, checked) = PushAbort(c, new.cm)
        \/ Enter(c0, v, checked) = PushAbort(d, new.cm)
        \/ Enter(c0, v, checked) = Limit(f)
        \/ Enter(c0, v, checked) = f
    BY OfOne DEF Enter, Then, With
  <1> HIDE DEF new, c, top, first
  <1>4. Fair(Program, PswWord(c.psw)) /\ Fair(Program, PcWord(c.pc))
    BY <1>2 DEF Fair, PswWord, PcWord, Sound
  <1>5. Sound(d) /\ d.cm = c0.cm /\ d.ipl = c0.ipl /\ d.why = "run"
    BY <1>2, <1>4, WordSound
  <1> HIDE DEF d
  <1>6. Sound(e) /\ e.why = "run"
    BY <1>4, <1>5, WordSound
  <1> HIDE DEF e
  <1>7. Sound(f) /\ f.why = "run" /\ f.pc = first
    BY <1>1, <1>6, EnteredSound DEF first
  <1> HIDE DEF f
  <1>8. Held(f) /\ Calm(f, Limit(f))
    BY <1>7, LimitCalm DEF Held
  <1>9. Sound(Limit(f)) /\ Held(Limit(f)) /\ Limit(f).pc = first
    BY <1>7, <1>8, CalmSound, CalmHeld DEF Calm
  <1>10. CASE Enter(c0, v, checked) \in {PushAbort(c, new.cm), PushAbort(d, new.cm)}
    <2>1. PICK b \in {c, d} : Enter(c0, v, checked) = PushAbort(b, new.cm)
      BY <1>10
    <2>2. Sound(b) /\ b.cm = c0.cm /\ b.ipl = c0.ipl
      BY <1>2, <1>5, <2>1
    <2> QED  BY <2>1, <2>2, PushAbortSound DEF Calm
  <1>11. CASE Enter(c0, v, checked) \in {f, Limit(f)}
    BY <1>7, <1>8, <1>9, <1>11 DEF first
  <1> QED  BY <1>3, <1>10, <1>11

LEMMA ResumeObeys ==
  ASSUME NEW c, Sound(c), Held(c), c.why # "run"
  PROVE  Obeys(c, Resume(c))
  <1> DEFINE w == PutPSW(c, c.psw, FALSE)
             r == [w EXCEPT !.r = w.regs[w.rs], !.sp = w.stk[w.cm], !.why = "run"]
             p == PutPIRQ(r, c.pirq)
  <1>1. Resume(c) = CalcInts(p)
    BY DEF Resume
  <1>2. Sound(w) /\ w.cm = c.cm /\ w.ipl = c.ipl /\ w.psw = c.psw
    <2>1. c.psw.cm \in Mode /\ c.psw.cm = c.cm /\ c.psw.ipl = c.ipl
      BY DEF Sound, Held, Shown
    <2>2. Sound(w)
      BY <2>1, PswPutSound
    <2>3. w.cm = c.psw.cm /\ w.ipl = c.psw.ipl /\ w.psw = c.psw
      BY DEF PutPSW, Sound, Parts
    <2> QED  BY <2>1, <2>2, <2>3
  <1> HIDE DEF w
  <1>3. Sound(r) /\ Shown(r) /\ r.cm = c.cm /\ r.ipl = c.ipl
    BY <1>2 DEF Sound, Parts, Held, Shown
  <1> HIDE DEF r
  <1>4. Calm(r, p) /\ Sound(p) /\ Held(r)
    BY <1>3, PirqCalm, CalmSound DEF Sound, Held
  <1>5. Held(p)
    BY <1>4, CalmHeld
  <1> HIDE DEF p
  <1>6. Calm(p, CalcInts(p))
    BY <1>4, CalcCalm
  <1>7. Calm(r, CalcInts(p))
    BY <1>4, <1>6, CalmTwice
  <1>8. Sound(CalcInts(p)) /\ Held(CalcInts(p))
    BY <1>4, <1>5, <1>6, CalmSound, CalmHeld
  <1> QED  BY <1>1, <1>3, <1>7, <1>8 DEF Obeys, Calm

-----------------------------------------------------------------------------
(* Instructions of a program that may be a user's *)

LEMMA SimpleObey ==
  ASSUME NEW c, NEW i, Sound(c), Held(c), c.why = "run"
  PROVE  /\ Obeys(c, Other(c, i)) /\ Obeys(c, Wait(c, i)) /\ Obeys(c, Load(c, i))
         /\ Obeys(c, Bad(c, i)) /\ Obeys(c, Bpt(c, i)) /\ Obeys(c, Iot(c, i))
         /\ Obeys(c, Halt(c, i)) /\ Obeys(c, Pop(c, i))
  <1>1. Calm(c, Other(c, i)) /\ Calm(c, Wait(c, i)) /\ Calm(c, Load(c, i))
    BY DEF Other, Wait, Load, Sound, Parts, Calm
  <1>2. Calm(c, Bad(c, i)) /\ Calm(c, Bpt(c, i)) /\ Calm(c, Iot(c, i))
    BY AbortCalm DEF Bad, Bpt, Iot, Trap
  <1>3. Calm(c, Halt(c, i))
    BY AbortCalm, StopCalm DEF Halt, Trap
  <1>4. Calm(c, Pop(c, i))
    <2> DEFINE d == [c EXCEPT !.sp = @ + 1]
    <2>1. Calm(c, d)
      BY DEF Sound, Parts, Calm
    <2>2. Pop(c, i) \in {d, Aborted(d, "NXM")}
      BY DEF Pop
    <2> HIDE DEF d
    <2>3. Sound(d)
      BY <2>1, CalmSound
    <2>4. Calm(d, Aborted(d, "NXM"))
      BY <2>3, AbortCalm DEF Trap
    <2> QED  BY <2>1, <2>2, <2>4, CalmTwice
  <1> QED  BY <1>1, <1>2, <1>3, <1>4, CalmObeys

\* SPL and RESET do nothing for a user.
LEMMA SplObeys ==
  ASSUME NEW c, NEW i, Sound(c), Held(c), c.why = "run"
  PROVE  Obeys(c, Spl(c, i))
  <1> DEFINE d == IF c.cm = KER THEN [c EXCEPT !.ipl = i.arg] ELSE c
  <1>1. /\ Sound(d) /\ d.why = "run" /\ d.cm = c.cm
        /\ c.cm = USR => d.ipl = c.ipl
    BY Modes DEF Sound, Parts
  <1>2. Spl(c, i) = CalcInts(d)
    BY DEF Spl
  <1> HIDE DEF d
  <1>3. Calm(d, CalcInts(d)) /\ Held(d)
    BY <1>1, CalcCalm DEF Held
  <1>4. Sound(CalcInts(d)) /\ Held(CalcInts(d))
    BY <1>1, <1>3, CalmSound, CalmHeld
  <1> QED  BY <1>1, <1>2, <1>3, <1>4 DEF Obeys, Calm

LEMMA ResetObeys ==
  ASSUME NEW c, NEW i, Sound(c), Held(c)
  PROVE  Obeys(c, Reset(c, i))
  <1> DEFINE d == [c EXCEPT !.done = {"TTO", "CLK"}, !.ie = {}, !.printing = FALSE,
                            !.pirq = {}, !.int = {}, !.traps = @ \ {"INT"}]
  <1>1. Calm(c, c) /\ Calm(c, d)
    BY DEF Sound, Parts, Calm
  <1>2. Reset(c, i) \in {c, UpdateTime(d)}
    BY DEF Reset
  <1> HIDE DEF d
  <1>3. Calm(c, UpdateTime(d))
    BY <1>1, CalmSound, TimeCalm, CalmTwice
  <1> QED  BY <1>1, <1>2, <1>3, CalmObeys

LEMMA PushObeys ==
  ASSUME NEW c, NEW i, Sound(c), Held(c), c.why = "run", Fair(Program, i.arg)
  PROVE  Obeys(c, Push(c, i))
  <1> DEFINE e == [c EXCEPT !.sp = @ - 1]
             d == Limit(e)
             f == With(d, c.cm, d.sp, i.arg)
  <1>1. Calm(c, e) /\ Sound(e)
    <2>1. Calm(c, e)
      BY DEF Sound, Parts, Calm
    <2> QED  BY <2>1, CalmSound
  <1>2. Push(c, i) \in {d, Aborted(d, "NXM"), f}
    BY DEF Push, With
  <1> HIDE DEF e
  <1>3. Calm(c, d) /\ Sound(d) /\ Held(d)
    BY <1>1, LimitCalm, CalmTwice, CalmSound, CalmHeld
  <1> HIDE DEF d
  <1>4. Obeys(c, d) /\ Obeys(c, Aborted(d, "NXM"))
    BY <1>3, AbortCalm, CalmTwice, CalmObeys DEF Trap
  <1>5. Obeys(c, f)
    <2>1. /\ Sound(f) /\ f.cm = d.cm /\ f.ipl = d.ipl /\ f.psw = d.psw /\ f.why = d.why
      BY <1>3, WordSound
    <2> HIDE DEF f
    <2> QED  BY <1>3, <2>1 DEF Obeys, Calm, Held, Shown
  <1> QED  BY <1>2, <1>4, <1>5

\* Whatever the user has pushed, the protected PutPSW keeps it in its mode.
LEMMA PoppedObeys ==
  ASSUME NEW c, NEW pc, NEW w, Sound(c), c.why = "run",
         At(Program, pc), w.cm \in Mode
  PROVE  Obeys(c, Popped(c, pc, w)) /\ Popped(c, pc, w).why = "run"
  <1> DEFINE up == [Unwound(c) EXCEPT !.stk[c.cm] = c.sp + 2]
             put == PutPSW(up, w, c.cm # KER)
             swap == SwapSet(put, c.rs)
             in == [swap EXCEPT !.sp = swap.stk[swap.cm], !.pc = pc]
  <1>1. Sound(up) /\ up.why = "run" /\ up.cm = c.cm /\ up.ipl = c.ipl
    <2>1. /\ DOMAIN up = DOMAIN c /\ up.why = c.why /\ up.cm = c.cm /\ up.ipl = c.ipl
          /\ up.psw = c.psw /\ up.pc = c.pc /\ up.mem = c.mem /\ up.traps = c.traps
          /\ up.int = c.int /\ up.pirq = c.pirq
      BY DEF Unwound, Sound, Parts
    <2> HIDE DEF up
    <2> QED  BY <2>1 DEF Sound
  <1>2. Popped(c, pc, w) = CalcInts(in)
    BY OfOne DEF Popped, Then
  <1> HIDE DEF up
  <1>3. Sound(put) /\ put.why = "run" /\ (c.cm = USR => put.cm = USR /\ put.ipl = c.ipl)
    <2>1. Sound(put)
      BY <1>1, PswPutSound
    <2>2. put.why = "run"
      BY <1>1 DEF PutPSW, Sound, Parts
    <2>3. ASSUME c.cm = USR
          PROVE  put.cm = USR /\ put.ipl = c.ipl
      <3>1. put = [up EXCEPT !.cm = Or(@, w.cm), !.pm = Or(@, w.pm), !.rs = Or(@, w.rs),
                             !.t = w.t]
        BY <2>3, Modes DEF PutPSW
      <3>2. put.cm = Or(up.cm, w.cm) /\ put.ipl = up.ipl
        BY <1>1, <3>1 DEF Sound, Parts
      <3>3. Or(USR, w.cm) = USR
        BY HigherMode, Modes
      <3> QED  BY <1>1, <2>3, <3>2, <3>3
    <2> QED  BY <2>1, <2>2, <2>3
  <1> HIDE DEF put
  <1>4. Sound(swap) /\ swap.why = "run" /\ swap.cm = put.cm /\ swap.ipl = put.ipl
    <2>1. swap.why = put.why
      BY <1>3 DEF SwapSet, Sound, Parts
    <2> QED  BY <1>3, <2>1, SetSwapCalm DEF Calm
  <1> HIDE DEF swap
  <1>5. Sound(in) /\ in.why = "run" /\ in.cm = swap.cm /\ in.ipl = swap.ipl
    BY <1>4 DEF Sound, Parts
  <1> HIDE DEF in
  <1>6. Calm(in, CalcInts(in)) /\ Sound(CalcInts(in)) /\ CalcInts(in).why = "run"
    <2>1. CalcInts(in).why = in.why
      BY <1>5 DEF CalcInts, Sound, Parts
    <2> QED  BY <1>5, <2>1, CalcCalm, CalmSound
  <1> QED  BY <1>2, <1>3, <1>4, <1>5, <1>6 DEF Obeys, Calm, Held

LEMMA ReturnObeys ==
  ASSUME NEW c, NEW immediate, left.name \in DOMAIN Scenarios,
         Sound(c), Held(c), c.why = "run"
  PROVE  Obeys(c, Return(c, immediate))
  <1> DEFINE pc == AsPc(c.mem[c.cm][c.sp])
             w == AsPsw(c.mem[c.cm][c.sp + 1])
             d == Popped(c, pc, w)
  <1>1. CASE Missing(c.cm, c.sp) \/ Missing(c.cm, c.sp + 1)
    BY <1>1, AbortCalm, CalmObeys DEF Return, Trap
  <1>2. CASE ~(Missing(c.cm, c.sp) \/ Missing(c.cm, c.sp + 1))
    <2>1. /\ Fair(Program, c.mem[c.cm][c.sp])
          /\ Fair(Program, c.mem[c.cm][c.sp + 1])
      <3>1. c.sp \in 0 .. Depth - 1 /\ c.sp + 1 \in 0 .. Depth - 1
        BY <1>2 DEF Missing
      <3> QED  BY <3>1 DEF Sound, Stored
    <2>2. At(Program, pc)
      BY <2>1, OfProgram DEF AsPc, Fair
    <2>3. w.cm \in Mode
      BY <2>1, Modes DEF AsPsw, Fair
    <2>4. Return(c, immediate) \in {Aborted(d, "TRC"), d}
      BY <1>2, OfOne DEF Return, Then
    <2> HIDE DEF pc, w
    <2>5. Obeys(c, d) /\ d.why = "run"
      BY <2>2, <2>3, PoppedObeys
    <2> HIDE DEF d
    <2>6. Calm(d, Aborted(d, "TRC"))
      BY <2>5, AbortCalm DEF Obeys, Trap
    <2>7. Obeys(d, Aborted(d, "TRC"))
      BY <2>5, <2>6, CalmObeys DEF Obeys
    <2>8. Obeys(c, Aborted(d, "TRC"))
      BY <2>5, <2>7 DEF Obeys
    <2> QED  BY <2>4, <2>5, <2>8
  <1> QED  BY <1>1, <1>2

\* The registers of the devices.
LEMMA AccessObeys ==
  ASSUME NEW c, NEW i, Sound(c), Held(c)
  PROVE  /\ Obeys(c, WritePIRQ(c, i)) /\ Obeys(c, ReadTTI(c, i)) /\ Obeys(c, WriteTTO(c, i))
         /\ Obeys(c, Enable(c, i)) /\ Obeys(c, Disable(c, i)) /\ Obeys(c, WriteCLK(c, i))
  <1>1. ASSUME NEW d, Calm(c, d)
        PROVE  Obeys(c, CalcInts(d)) /\ Obeys(c, CalcInts(UpdateTime(d)))
    <2>1. Sound(d)
      BY <1>1, CalmSound
    <2>2. Calm(c, UpdateTime(d)) /\ Sound(UpdateTime(d))
      BY <1>1, <2>1, TimeCalm, CalmTwice, CalmSound
    <2>3. Calm(c, CalcInts(d)) /\ Calm(c, CalcInts(UpdateTime(d)))
      BY <1>1, <2>1, <2>2, CalcCalm, CalmTwice
    <2> QED  BY <2>3, CalmObeys
  <1>2. ASSUME NEW d, Calm(c, d), NEW dev \in Device
        PROVE  Calm(c, SetInt(d, dev)) /\ Calm(c, ClrInt(d, dev))
    BY <1>2, CalmSound, RequestCalm, CalmTwice
  <1>3. "TTI" \in Device /\ "TTO" \in Device /\ "CLK" \in Device /\ Terminal(i) \in Device
    BY DEF Device, Terminal
  <1>4. Obeys(c, WritePIRQ(c, i))
    <2>1. Calm(c, PutPIRQ(c, i.arg \cap PIR))
      BY PirqCalm
    <2> QED  BY <1>1, <2>1 DEF WritePIRQ
  <1>5. Obeys(c, ReadTTI(c, i))
    <2> DEFINE e == [c EXCEPT !.done = @ \ {"TTI"}]
    <2>1. Calm(c, e)
      BY DEF Sound, Parts, Calm
    <2>2. ReadTTI(c, i) = CalcInts(UpdateTime(ClrInt(e, "TTI")))
      BY DEF ReadTTI
    <2> HIDE DEF e
    <2> QED  BY <1>1, <1>2, <1>3, <2>1, <2>2
  <1>6. Obeys(c, WriteTTO(c, i))
    <2> DEFINE e == [c EXCEPT !.done = @ \ {"TTO"}, !.printing = TRUE]
               f == ClrInt(e, "TTO")
    <2>1. Calm(c, e)
      BY DEF Sound, Parts, Calm
    <2>2. WriteTTO(c, i) \in {CalcInts(f), CalcInts(UpdateTime(f))}
      BY DEF WriteTTO
    <2> HIDE DEF e
    <2> QED  BY <1>1, <1>2, <1>3, <2>1, <2>2
  <1>7. Obeys(c, Enable(c, i))
    <2> DEFINE d == Terminal(i)
               e == [c EXCEPT !.ie = @ \cup {d}]
    <2>1. Calm(c, e)
      BY DEF Sound, Parts, Calm
    <2>2. Enable(c, i) \in {CalcInts(SetInt(e, d)), CalcInts(e)}
      BY DEF Enable
    <2> HIDE DEF e, d
    <2>3. d \in Device
      BY <1>3 DEF d
    <2> QED  BY <1>1, <1>2, <2>1, <2>2, <2>3
  <1>8. Obeys(c, Disable(c, i))
    <2> DEFINE d == Terminal(i)
               e == [c EXCEPT !.ie = @ \ {d}]
    <2>1. Calm(c, e)
      BY DEF Sound, Parts, Calm
    <2>2. Disable(c, i) = CalcInts(ClrInt(e, d))
      BY DEF Disable
    <2> HIDE DEF e, d
    <2>3. d \in Device
      BY <1>3 DEF d
    <2> QED  BY <1>1, <1>2, <2>1, <2>2, <2>3
  <1>9. Obeys(c, WriteCLK(c, i))
    <2> DEFINE e == [c EXCEPT !.ie = IF i.arg[1] THEN @ \cup {"CLK"} ELSE @ \ {"CLK"},
                              !.done = IF i.arg[2] THEN @ ELSE @ \ {"CLK"}]
    <2>1. Calm(c, e)
      BY DEF Sound, Parts, Calm
    <2>2. WriteCLK(c, i) \in {CalcInts(e), CalcInts(ClrInt(e, "CLK"))}
      BY DEF WriteCLK
    <2> HIDE DEF e
    <2> QED  BY <1>1, <1>2, <1>3, <2>1, <2>2
  <1> QED  BY <1>4, <1>5, <1>6, <1>7, <1>8, <1>9

\* The PSW's address is open to every program that can reach it.
LEMMA WritePSWSound ==
  ASSUME NEW c, NEW i, Sound(c), c.why = "run", i.arg \in PSW
  PROVE  Sound(WritePSW(c, i)) /\ Held(WritePSW(c, i))
  <1> DEFINE s == [c EXCEPT !.stk[c.cm] = c.sp]
             w == [i.arg EXCEPT !.t = c.t]
             put == PutPSW(s, w, FALSE)
             swap == SwapSet(put, c.rs)
             in == [swap EXCEPT !.sp = swap.stk[swap.cm]]
  <1>1. Sound(s) /\ s.why = "run"
    BY DEF Sound, Parts
  <1>2. WritePSW(c, i) = CalcInts(in)
    BY OfOne DEF WritePSW, Then
  <1>3. w.cm \in Mode
    BY DEF PSW
  <1> HIDE DEF s, w
  <1>4. Sound(put) /\ put.why = "run"
    <2>1. Sound(put)
      BY <1>1, <1>3, PswPutSound
    <2>2. put.why = s.why
      BY <1>1 DEF PutPSW, Sound, Parts
    <2> QED  BY <1>1, <2>1, <2>2
  <1> HIDE DEF put
  <1>5. Sound(swap) /\ swap.why = "run"
    <2>1. swap.why = put.why
      BY <1>4 DEF SwapSet, Sound, Parts
    <2> QED  BY <1>4, <2>1, SetSwapCalm
  <1> HIDE DEF swap
  <1>6. Sound(in) /\ in.why = "run"
    BY <1>5 DEF Sound, Parts
  <1> HIDE DEF in
  <1>7. Held(in) /\ Calm(in, CalcInts(in))
    BY <1>6, CalcCalm DEF Held
  <1> QED  BY <1>2, <1>6, <1>7, CalmSound, CalmHeld

-----------------------------------------------------------------------------
(* Which trap, which request *)

LEMMA Least ==
  ASSUME NEW S \in SUBSET Nat, S # {}
  PROVE  \E i \in S : \A j \in S : i <= j
  <1>1. PICK i \in S : \A j \in S : ~(<<j, i>> \in OpToRel(<, Nat))
    BY WFMin, NatLessThanWellFounded, Zenon
  <1>2. \A j \in S : ~(j < i)
    BY <1>1 DEF OpToRel
  <1> QED  BY <1>2

\* If a member of S is named in the order, the first of them is.
LEMMA FirstOf ==
  ASSUME NEW order, NEW S, NEW n \in Nat, DOMAIN order = 1 .. n,
         \E i \in 1 .. n : order[i] \in S
  PROVE  \E i \in 1 .. n : First(order, S) = order[i] /\ order[i] \in S
  <1> DEFINE Named == {i \in 1 .. n : order[i] \in S}
             Is(i) == order[i] \in S /\ \A j \in 1 .. n : order[j] \in S => i <= j
  <1>1. PICK i \in Named : \A j \in Named : i <= j
    <2>1. Named \in SUBSET Nat /\ Named # {}
      OBVIOUS
    <2> HIDE DEF Named
    <2> QED  BY <2>1, Least
  <1>2. i \in 1 .. n /\ Is(i)
    BY <1>1
  <1> DEFINE k == CHOOSE j \in 1 .. n : Is(j)
  <1>3. k \in 1 .. n /\ Is(k)
    BY <1>2
  <1>4. First(order, S) = order[k]
    BY DEF First
  <1> QED  BY <1>3, <1>4

LEMMA Orders ==
  /\ DOMAIN TrapOrder = 1 .. 7 /\ \A t \in Trap : \E i \in 1 .. 7 : TrapOrder[i] = t
  /\ \A i \in 1 .. 7 : TrapOrder[i] \in Trap
  /\ DOMAIN SearchOrder = 1 .. 6 /\ \A s \in Source : \E i \in 1 .. 6 : SearchOrder[i] = s
  /\ \A i \in 1 .. 6 : SearchOrder[i] \in Source
  <1>1. DOMAIN TrapOrder = 1 .. 7 /\ \A i \in 1 .. 7 : TrapOrder[i] \in Trap
    BY DEF TrapOrder, Trap
  <1>2. \A t \in Trap : \E i \in 1 .. 7 : TrapOrder[i] = t
    <2>1. /\ TrapOrder[1] = "RED" /\ TrapOrder[2] = "NXM" /\ TrapOrder[3] = "PRV"
          /\ TrapOrder[4] = "BPT" /\ TrapOrder[5] = "IOT" /\ TrapOrder[6] = "TRC"
          /\ TrapOrder[7] = "YEL"
      BY DEF TrapOrder
    <2> QED  BY <2>1 DEF Trap
  <1>3. DOMAIN SearchOrder = 1 .. 6 /\ \A i \in 1 .. 6 : SearchOrder[i] \in Source
    BY DEF SearchOrder, Source, Device, PIR
  <1>4. \A s \in Source : \E i \in 1 .. 6 : SearchOrder[i] = s
    <2>1. /\ SearchOrder[1] = "PIR7" /\ SearchOrder[2] = "PIR6" /\ SearchOrder[3] = "CLK"
          /\ SearchOrder[4] = "PIR4" /\ SearchOrder[5] = "TTI" /\ SearchOrder[6] = "TTO"
      BY DEF SearchOrder
    <2> QED  BY <2>1 DEF Source, Device, PIR
  <1> QED  BY <1>1, <1>2, <1>3, <1>4

LEMMA FirstTrap ==
  ASSUME NEW S, S \subseteq Trap \cup {"INT"}, S \ {"INT"} # {}
  PROVE  First(TrapOrder, S) \in Trap
  <1>1. PICK t \in Trap : t \in S
    OBVIOUS
  <1>2. \E i \in 1 .. 7 : TrapOrder[i] \in S
    BY <1>1, Orders
  <1>3. \E i \in 1 .. 7 : First(TrapOrder, S) = TrapOrder[i]
    <2>1. 7 \in Nat /\ DOMAIN TrapOrder = 1 .. 7
      BY Orders
    <2> QED  BY <1>2, <2>1, FirstOf
  <1> QED  BY <1>3, Orders

LEMMA FirstRequest ==
  ASSUME NEW S \in SUBSET Source, S # {}
  PROVE  First(SearchOrder, S) \in Source
  <1>1. PICK s \in Source : s \in S
    OBVIOUS
  <1>2. \E i \in 1 .. 6 : SearchOrder[i] \in S
    BY <1>1, Orders
  <1>3. \E i \in 1 .. 6 : First(SearchOrder, S) = SearchOrder[i]
    <2>1. 6 \in Nat /\ DOMAIN SearchOrder = 1 .. 6
      BY Orders
    <2> QED  BY <1>2, <2>1, FirstOf
  <1> QED  BY <1>3, Orders

\* A handler is not the main program.
LEMMA HandlerIs ==
  ASSUME NEW v \in Trap \cup Source
  PROVE  Handler[v] # "main"
  BY DEF Handler, Trap, Source, Device, PIR

-----------------------------------------------------------------------------
(* Steps *)

LEMMA FollowingAt ==
  ASSUME left.name \in DOMAIN Scenarios, NEW pc, At(Program, pc)
  PROVE  At(Program, Following(pc))
  <1> DEFINE k == Len(Program.code[pc.at])
             n == IF pc.n = k THEN 1 ELSE pc.n + 1
  <1>1. /\ pc = [at |-> pc.at, n |-> pc.n] /\ pc.at \in DOMAIN Program.code
        /\ pc.n \in DOMAIN Program.code[pc.at]
    BY DEF At
  <1>2. DOMAIN Program.code[pc.at] = 1 .. k /\ k \in Nat
    BY <1>1, OfProgram
  <1>3. n \in 1 .. k
    BY <1>1, <1>2
  <1>4. Following(pc) = [at |-> pc.at, n |-> n]
    BY <1>1 DEF Following
  <1> HIDE DEF n, k
  <1> QED  BY <1>1, <1>2, <1>3, <1>4 DEF At

\* Fetching an instruction moves the PC.
LEMMA FetchSound ==
  ASSUME left.name \in DOMAIN Scenarios, Sound(m), m.why = "run"
  PROVE  /\ Sound(Fetched) /\ Held(Fetched) /\ Fetched.why = "run"
         /\ Fetched.cm = m.cm /\ Fetched.ipl = m.ipl
  <1> DEFINE t == Traced(m)
  <1>1. Calm(m, t) /\ Sound(t)
    BY TracedCalm, CalmSound
  <1>2. t.why = "run"
    BY DEF Traced, Sound, Parts
  <1>3. Fetched = [t EXCEPT !.pc = Following(@), !.found = <<>>,
                            !.spent = Program.breaks # {}]
    BY DEF Fetched
  <1>4. At(Program, Following(t.pc))
    BY <1>1, FollowingAt DEF Sound
  <1> HIDE DEF t
  <1>5. /\ DOMAIN Fetched = DOMAIN t /\ Fetched.pc = Following(t.pc)
        /\ Fetched.cm = t.cm /\ Fetched.ipl = t.ipl /\ Fetched.psw = t.psw
        /\ Fetched.mem = t.mem /\ Fetched.traps = t.traps /\ Fetched.int = t.int
        /\ Fetched.pirq = t.pirq /\ Fetched.why = t.why
    BY <1>1, <1>3 DEF Sound, Parts
  <1>6. Sound(Fetched)
    BY <1>1, <1>4, <1>5 DEF Sound
  <1> QED  BY <1>1, <1>2, <1>5, <1>6 DEF Calm, Held

\* The instructions at the PC are of the program.
LEMMA AtCode ==
  ASSUME left.name \in DOMAIN Scenarios, Sound(m), NEW i \in Code[m.pc.n]
  PROVE  (i.op = "push" => Fair(Program, i.arg)) /\ (i.op = "psw" => i.arg \in PSW)
  <1>1. m.pc.at \in DOMAIN Program.code /\ m.pc.n \in DOMAIN Program.code[m.pc.at]
    BY DEF Sound, At
  <1> QED  BY <1>1, OfProgram DEF Code

\* The machine may change the PSW otherwise: a PC breakpoint restores one
\* that was assembled earlier, and an instruction may write to its address.
Exposed == AtBreak \/ \E i \in Code[m.pc.n] : i.op = "psw"

Step == Sound(m') /\ Held(m') /\ (~Exposed => Confined)

LEMMA ObeyedStep ==
  ASSUME Sound(m), NEW c, c.cm = m.cm, c.ipl = m.ipl, Obeys(c, m')
  PROVE  Step
  BY DEF Obeys, Step, Confined

LEMMA ControlConfined ==
  ASSUME UInv, Control
  PROVE  Step
  <1>1. /\ left.name \in DOMAIN Scenarios /\ Sound(m)
        /\ Sound(Fetched) /\ Held(Fetched) /\ Fetched.why = "run"
        /\ Fetched.cm = m.cm /\ Fetched.ipl = m.ipl
    BY FetchSound DEF Control, Run, Running, UInv
  <1>2. SUFFICES Obeys(Fetched, m')
    BY <1>1, <1>2, ObeyedStep
  <1>3. CASE Run("other", Other)
    <2>1. PICK i : m' = Other(Fetched, i)
      BY <1>3 DEF Run, Fetched
    <2> QED  BY <1>1, <2>1, SimpleObey
  <1>4. CASE Run("load", Load)
    <2>1. PICK i : m' = Load(Fetched, i)
      BY <1>4 DEF Run, Fetched
    <2> QED  BY <1>1, <2>1, SimpleObey
  <1>5. CASE Run("nxm", Bad)
    <2>1. PICK i : m' = Bad(Fetched, i)
      BY <1>5 DEF Run, Fetched
    <2> QED  BY <1>1, <2>1, SimpleObey
  <1>6. CASE Run("bpt", Bpt)
    <2>1. PICK i : m' = Bpt(Fetched, i)
      BY <1>6 DEF Run, Fetched
    <2> QED  BY <1>1, <2>1, SimpleObey
  <1>7. CASE Run("iot", Iot)
    <2>1. PICK i : m' = Iot(Fetched, i)
      BY <1>7 DEF Run, Fetched
    <2> QED  BY <1>1, <2>1, SimpleObey
  <1>8. CASE Run("halt", Halt)
    <2>1. PICK i : m' = Halt(Fetched, i)
      BY <1>8 DEF Run, Fetched
    <2> QED  BY <1>1, <2>1, SimpleObey
  <1>9. CASE Run("wait", Wait)
    <2>1. PICK i : m' = Wait(Fetched, i)
      BY <1>9 DEF Run, Fetched
    <2> QED  BY <1>1, <2>1, SimpleObey
  <1>10. CASE Run("spl", Spl)
    <2>1. PICK i : m' = Spl(Fetched, i)
      BY <1>10 DEF Run, Fetched
    <2> QED  BY <1>1, <2>1, SplObeys
  <1>11. CASE Run("reset", Reset)
    <2>1. PICK i : m' = Reset(Fetched, i)
      BY <1>11 DEF Run, Fetched
    <2> QED  BY <1>1, <2>1, ResetObeys
  <1>12. CASE Run("rti", Rti)
    <2>1. PICK i : m' = Rti(Fetched, i)
      BY <1>12 DEF Run, Fetched
    <2> QED  BY <1>1, <2>1, ReturnObeys DEF Rti
  <1>13. CASE Run("rtt", Rtt)
    <2>1. PICK i : m' = Rtt(Fetched, i)
      BY <1>13 DEF Run, Fetched
    <2> QED  BY <1>1, <2>1, ReturnObeys DEF Rtt
  <1>14. CASE Run("push", Push)
    <2>1. PICK i \in Code[m.pc.n] : i.op = "push" /\ m' = Push(Fetched, i)
      BY <1>14 DEF Run, Fetched
    <2>2. Fair(Program, i.arg)
      BY <1>1, <2>1, AtCode
    <2> QED  BY <1>1, <2>1, <2>2, PushObeys
  <1>15. CASE Run("pop", Pop)
    <2>1. PICK i : m' = Pop(Fetched, i)
      BY <1>15 DEF Run, Fetched
    <2> QED  BY <1>1, <2>1, SimpleObey
  <1> QED
    BY <1>3, <1>4, <1>5, <1>6, <1>7, <1>8, <1>9, <1>10, <1>11, <1>12, <1>13, <1>14,
       <1>15 DEF Control

LEMMA AccessConfined ==
  ASSUME UInv, Access
  PROVE  Step
  <1>1. /\ left.name \in DOMAIN Scenarios /\ Sound(m)
        /\ Sound(Fetched) /\ Held(Fetched) /\ Fetched.why = "run"
        /\ Fetched.cm = m.cm /\ Fetched.ipl = m.ipl
    BY FetchSound DEF Access, Run, Running, UInv
  <1>2. CASE Run("psw", WritePSW)
    <2>1. PICK i \in Code[m.pc.n] : i.op = "psw" /\ m' = WritePSW(Fetched, i)
      BY <1>2 DEF Run, Fetched
    <2>2. i.arg \in PSW
      BY <1>1, <2>1, AtCode
    <2> QED  BY <1>1, <2>1, <2>2, WritePSWSound DEF Step, Exposed
  <1>3. CASE \/ Run("pirq", WritePIRQ) \/ Run("tti", ReadTTI) \/ Run("tto", WriteTTO)
             \/ Run("enable", Enable) \/ Run("disable", Disable) \/ Run("clk", WriteCLK)
    <2>1. PICK i : m' \in {WritePIRQ(Fetched, i), ReadTTI(Fetched, i), WriteTTO(Fetched, i),
                           Enable(Fetched, i), Disable(Fetched, i), WriteCLK(Fetched, i)}
      BY <1>3 DEF Run, Fetched
    <2>2. Obeys(Fetched, m')
      BY <1>1, <2>1, AccessObeys
    <2> QED  BY <1>1, <2>2, ObeyedStep
  <1> QED  BY <1>2, <1>3 DEF Access

LEMMA EventConfined ==
  ASSUME UInv, Event
  PROVE  Step
  <1> DEFINE a == Assemble(m)
             p == [a EXCEPT !.printing = FALSE]
  <1>1. Sound(m) /\ Held(m)
    BY DEF UInv
  <1>2. Calm(m, a) /\ Sound(a)
    BY <1>1, AssembleCalm, CalmSound
  <1> HIDE DEF a
  <1>3. Calm(m, p) /\ Sound(p)
    <2>1. Calm(a, p)
      BY <1>2 DEF Sound, Parts, Calm
    <2> QED  BY <1>2, <2>1, CalmTwice, CalmSound
  <1>4. ASSUME NEW c, NEW d \in Device, Calm(m, c), Sound(c)
        PROVE  Calm(m, AfterEvents(Ready(c, d)))
    <2> DEFINE e == [c EXCEPT !.done = @ \cup {d}]
    <2>1. Calm(c, e) /\ Sound(e)
      <3>1. Calm(c, e)
        BY <1>4 DEF Sound, Parts, Calm
      <3> QED  BY <1>4, <3>1, CalmSound
    <2>2. Ready(c, d) \in {SetInt(e, d), e}
      BY DEF Ready
    <2> HIDE DEF e
    <2>3. Calm(c, Ready(c, d))
      BY <1>4, <2>1, <2>2, RequestCalm, CalmTwice
    <2>4. Calm(m, Ready(c, d)) /\ Sound(Ready(c, d))
      BY <1>4, <2>3, CalmTwice, CalmSound
    <2> QED  BY <2>4, EventsCalm, CalmTwice
  <1>5. SUFFICES Calm(m, m')
    <2>1. Obeys(m, m')
      BY <1>1, <1>5, CalmObeys
    <2> QED  BY <1>1, <2>1, ObeyedStep
  <1>6. CASE Key \/ Tick \/ Printed
    <2>1. PICK d \in Device : m' \in {AfterEvents(Ready(a, d)), AfterEvents(Ready(p, d))}
      BY <1>6 DEF Key, Tick, Printed, Device, a, p
    <2> HIDE DEF p
    <2> QED  BY <1>2, <1>3, <1>4, <2>1
  <1>7. CASE OtherEvent \/ StopEvent
    <2>1. m' \in {AfterEvents(a), Stop(AfterEvents(a), "stop")}
      BY <1>7 DEF OtherEvent, StopEvent, a
    <2>2. Calm(m, AfterEvents(a)) /\ Sound(AfterEvents(a))
      BY <1>2, EventsCalm, CalmTwice
    <2>3. Calm(m, Stop(AfterEvents(a), "stop"))
      BY <2>2, StopCalm, CalmTwice
    <2> QED  BY <2>1, <2>2, <2>3
  <1> QED  BY <1>6, <1>7 DEF Event

LEMMA EntryConfined ==
  ASSUME UInv, TakeTrap \/ TakeInterrupt
  PROVE  Step
  <1>1. left.name \in DOMAIN Scenarios /\ Sound(m) /\ m.why = "run" /\ Held(m)
    BY DEF UInv, TakeTrap, TakeInterrupt, Running
  <1>2. ASSUME NEW c, NEW v \in Trap \cup Source, NEW checked \in BOOLEAN,
               Sound(c), c.why = "run", c.cm = m.cm, c.ipl = m.ipl, NEW d,
               Calm(Enter(c, v, checked), d), Held(d)
        PROVE  /\ Sound(d) /\ Held(d)
               /\ \/ d.cm = m.cm /\ d.ipl = m.ipl
                  \/ d.pc.at # "main" /\ d.pc.n = 1
    <2> DEFINE e == Enter(c, v, checked)
    <2>1. /\ Sound(e)
          /\ \/ e.pc = [at |-> Handler[v], n |-> 1]
             \/ e.cm = c.cm /\ e.ipl = c.ipl
      BY <1>1, <1>2, EnterSound
    <2> HIDE DEF e
    <2>2. Calm(e, d)
      BY <1>2 DEF e
    <2>3. Sound(d) /\ d.pc = e.pc /\ d.cm = e.cm /\ d.ipl = e.ipl
      BY <2>1, <2>2, CalmSound DEF Calm
    <2>4. Held(d) /\ c.cm = m.cm /\ c.ipl = m.ipl
      BY <1>2
    <2>5. Handler[v] # "main"
      BY HandlerIs
    <2> QED  BY <2>1, <2>3, <2>4, <2>5
  <1>3. \A c : Calm(c, c)
    BY DEF Calm
  <1>4. CASE TakeTrap
    <2> DEFINE C(t) == [m EXCEPT !.traps = @ \ Clears[t]]
               t == First(TrapOrder, m.traps)
               e == Enter(C(t), t, t \notin {"RED", "YEL"})
    <2>1. m' \in {e, Stop(e, "red")}
      BY <1>4 DEF TakeTrap
    <2>2. t \in Trap
      BY <1>1, <1>4, FirstTrap DEF TakeTrap, Sound
    <2>3. Sound(C(t)) /\ C(t).why = "run" /\ C(t).cm = m.cm /\ C(t).ipl = m.ipl
      BY <1>1 DEF Sound, Parts
    <2> HIDE DEF t, C
    <2>4. Sound(e) /\ Held(e)
      BY <1>1, <2>2, <2>3, EnterSound
    <2>5. Calm(e, Stop(e, "red")) /\ Held(Stop(e, "red"))
      BY <2>4, StopCalm
    <2>6. Calm(e, m') /\ Held(m')
      BY <1>3, <2>1, <2>4, <2>5
    <2> QED  BY <1>2, <2>2, <2>3, <2>6 DEF Step, Confined
  <1>5. CASE TakeInterrupt
    <2> DEFINE C(s) == [m EXCEPT !.int = @ \ {s}, !.acked = @ \cup {s}]
               due == Requests(m, m.ipl)
               s == First(SearchOrder, due)
               e == Enter(C(s), s, TRUE)
    <2>1. CASE due = {}
      <3>1. m' = CalcInts(m)
        BY <1>5, <2>1 DEF TakeInterrupt
      <3> QED  BY <1>1, <3>1, CalcCalm, CalmObeys, ObeyedStep
    <2>2. CASE due # {}
      <3>1. m' = e
        BY <1>5, <2>2 DEF TakeInterrupt
      <3>2. s \in Source
        <4>1. due \in SUBSET Source
          BY <1>1 DEF Sound, Requests
        <4> HIDE DEF due
        <4> QED  BY <2>2, <4>1, FirstRequest
      <3>3. Sound(C(s)) /\ C(s).why = "run" /\ C(s).cm = m.cm /\ C(s).ipl = m.ipl
        BY <1>1 DEF Sound, Parts
      <3> HIDE DEF s, C
      <3>4. Sound(e) /\ Held(e)
        BY <1>1, <3>2, <3>3, EnterSound
      <3>5. Calm(e, m') /\ Held(m')
        BY <1>3, <3>1, <3>4
      <3> QED  BY <1>2, <3>2, <3>3, <3>5 DEF Step, Confined
    <2> QED  BY <2>1, <2>2
  <1> QED  BY <1>4, <1>5

LEMMA StoppedConfined ==
  ASSUME UInv, Breakpoint \/ Continue
  PROVE  Step
  <1>1. Sound(m) /\ Held(m)
    BY DEF UInv
  <1>2. CASE Continue
    <2>1. Obeys(m, m')
      BY <1>1, <1>2, ResumeObeys DEF Continue, Running
    <2> QED  BY <1>1, <2>1, ObeyedStep
  <1>3. CASE Breakpoint
    <2> DEFINE t == Traced(m)
               c == [t EXCEPT !.hit = @ \cup {m.pc}, !.found = <<Context(m)>>]
               p == PutPSW(c, c.psw, FALSE)
    <2>1. m' = Stop(p, "bkpt") /\ Exposed
      BY <1>3 DEF Breakpoint, Exposed
    <2>2. Sound(t)
      BY <1>1, TracedCalm, CalmSound
    <2> HIDE DEF t
    <2>3. Sound(c)
      BY <2>2 DEF Sound, Parts
    <2> HIDE DEF c
    <2>4. Sound(p)
      BY <2>3, PswPutSound DEF Sound
    <2> HIDE DEF p
    <2> QED  BY <2>1, <2>4, StopCalm DEF Step
  <1> QED  BY <1>2, <1>3

LEMMA InitUInv == Init => UInv
  <1> SUFFICES ASSUME Init PROVE UInv
    OBVIOUS
  <1>1. "name" \in DOMAIN left /\ left.name \in DOMAIN Scenarios
    BY DEF Init
  <1>2. Program.start \in PSW /\ At(Program, [at |-> "main", n |-> 1])
    BY <1>1, OfProgram
  <1>3. /\ Parts \subseteq DOMAIN m /\ m.cm = Program.start.cm /\ m.psw = Program.start
        /\ m.pc = [at |-> "main", n |-> 1] /\ m.why = "run"
        /\ m.traps = {} /\ m.int = {} /\ m.pirq = {}
        /\ m.mem = [mode \in Mode |-> [a \in 0 .. Depth - 1 |-> DataWord]]
    BY DEF Init, Parts
  <1>4. Stored(m.mem)
    BY <1>3 DEF Stored, Fair, DataWord
  <1>5. Program.start.cm \in Mode
    BY <1>2 DEF PSW
  <1> QED  BY <1>1, <1>2, <1>3, <1>4, <1>5 DEF UInv, Sound, Held

LEMMA NextConfined ==
  ASSUME UInv, [Next]_vars
  PROVE  UInv' /\ (~Exposed => [Confined]_vars)
  <1>1. CASE Next
    <2>1. Step
      BY <1>1, ControlConfined, AccessConfined, EventConfined, EntryConfined,
         StoppedConfined DEF Next, Turn
    <2>2. "name" \in DOMAIN left' /\ left'.name = left.name
      <3>1. \/ UNCHANGED left
            \/ left' = [left EXCEPT !.keys = @ - 1] \/ left' = [left EXCEPT !.ticks = @ - 1]
            \/ left' = [left EXCEPT !.stops = @ - 1]
            \/ left' = [left EXCEPT !.stops = IF m.why = "red" THEN @ - 1 ELSE @]
        BY <1>1 DEF Next, Turn, Event, Control, Access, Run, TakeTrap, TakeInterrupt,
           Breakpoint, Key, Tick, Printed, OtherEvent, StopEvent, Continue
      <3> QED  BY <3>1 DEF UInv
    <2>3. UInv'
      BY <2>1, <2>2 DEF UInv, Step, Sound, Held, Shown, Stored, Program
    <2> QED  BY <2>1, <2>3 DEF Step
  <1>2. CASE UNCHANGED vars
    BY <1>2 DEF vars, UInv, Sound, Held, Shown, Stored, Program
  <1> QED  BY <1>1, <1>2

\* In any program, handlers and all: a step in which no PC breakpoint stands
\* and no instruction writes to the PSW's address leaves a user in user mode
\* at its level, or enters a handler (put_PSW, get_vector, the trap entry and
\* what sim_instr restores when it is called again).
THEOREM OnlyExposedSteps == Spec => [][~Exposed => Confined]_vars
  <1>1. Init => UInv
    BY InitUInv
  <1>2. UInv /\ [Next]_vars => UInv'
    BY NextConfined
  <1>3. UInv /\ [Next]_vars => [~Exposed => Confined]_vars
    BY NextConfined
  <1> QED  BY <1>1, <1>2, <1>3, PTL DEF Spec

\* So with no PC breakpoint, and the PSW's address out of the programs'
\* reach (memory management does that to a user), a user program leaves user
\* mode or changes its level only through a handler.
THEOREM UserStaysConfined ==
  ASSUME \A name \in DOMAIN Scenarios :
           LET p == Scenarios[name]
           IN  /\ p.breaks = {}
               /\ \A at \in DOMAIN p.code : \A n \in DOMAIN p.code[at] :
                    \A i \in p.code[at][n] : i.op # "psw"
  PROVE  Spec => UserConfined
  <1>1. Init => UInv
    BY InitUInv
  <1>2. UInv /\ [Next]_vars => UInv'
    BY NextConfined
  <1>3. UInv => ~Exposed
    <2> SUFFICES ASSUME UInv PROVE ~Exposed
      OBVIOUS
    <2>1. m.pc.at \in DOMAIN Program.code /\ m.pc.n \in DOMAIN Program.code[m.pc.at]
      BY DEF UInv, Sound, At
    <2>2. /\ Program.breaks = {}
          /\ \A at \in DOMAIN Program.code : \A n \in DOMAIN Program.code[at] :
               \A i \in Program.code[at][n] : i.op # "psw"
      BY DEF UInv, Program
    <2> QED  BY <2>1, <2>2 DEF Exposed, AtBreak, Code
  <1>4. UInv /\ [Next]_vars => [Confined]_vars
    BY <1>3, NextConfined
  <1> QED  BY <1>1, <1>2, <1>4, PTL DEF Spec, UserConfined
=============================================================================
