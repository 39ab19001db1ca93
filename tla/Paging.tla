------------------------------- MODULE Paging -------------------------------
(***************************************************************************)
(* Memory management of the PDP-11/70 (PDP11/pdp11_cpu.c) under a program  *)
(* whose pages are brought in when it refers to them: relocation with its  *)
(* aborts and traps, MMR0 to MMR2, operands and their side effects, and    *)
(* instructions that are given up in their middle and begun again by the   *)
(* operating system, which is external.                                    *)
(*                                                                         *)
(* A routine is an operator from the record of the machine to its next     *)
(* value; ABORT sets abort, and what would come after it does not happen   *)
(* (Go).  One action is one turn of the instruction loop.                  *)
(*                                                                         *)
(* Left out: the other modes' pages, 16 and 18 bit mapping, parity and     *)
(* memory that is not there, the A bit, N, Z and V.                        *)
(***************************************************************************)
EXTENDS PdpWord, Sequences, FiniteSets, SequencesExt

CONSTANTS
  Programs,    \* by name: code, memory, registers, what its pages are like
  PageBytes,   \* of a page: 8K
  BlockBytes,  \* of a block, in which page lengths count: 64
  Frames,      \* pages of physical memory
  Steals,      \* pages taken from the program between two instructions
  PcBreaks     \* BPT_SUMM_PC: a PC breakpoint is set, somewhere else

VARIABLES
  prog,        \* the name of the program
  m,           \* the machine
  os           \* the operating system

vars == <<prog, m, os>>

Page == Space \X (0 .. (Words \div PageBytes) - 1)
Frame == 0 .. Frames - 1
Offset == {a \in 0 .. PageBytes - 1 : a % 2 = 0}
Place == Frame \X Offset
LastBlock == (PageBytes \div BlockBytes) - 1

PageOf(va) == <<va[1], va[2] \div PageBytes>>
CellIn(p, offset) == <<p[1], p[2] * PageBytes + offset>>

\* F of c, unless c has been aborted.  (So written TLC evaluates c once.)
Go(c, F(_)) == CHOOSE d \in {IF e.abort THEN e ELSE F(e) : e \in {c}} : TRUE

-----------------------------------------------------------------------------
(* Relocation: err are the error bits of MMR0, mmt its trap bit and page    *)
(* its page; request is TRAP_MME of trap_req.                               *)

update_MM(c) == c.err = {}

\* Mutant: MMR0 is not frozen by the first error.
reloc_abort_Page(c, err, p) ==
  [c EXCEPT !.abort = TRUE, !.request = TRUE, !.page = p]

reloc_abort(c, err, p) ==
  [c EXCEPT !.abort = TRUE, !.request = TRUE, !.err = @ \cup err,
            !.page = IF update_MM(c) THEN p ELSE @]

PLF_test(va, apr) ==
  LET dbn == (va[2] % PageBytes) \div BlockBytes
  IN  IF apr.ed THEN dbn < apr.plf ELSE dbn > apr.plf

TooFar(va, apr) == IF PLF_test(va, apr) THEN {"PL"} ELSE {}

\* The page is accessible, but the operating system wants to know.
MMTrap(c, p) ==
  IF Programs[prog].tenb
  THEN [c EXCEPT !.mmt = TRUE, !.request = TRUE,
                 !.page = IF update_MM(c) THEN p ELSE @]
  ELSE c

NonResident == {0, 3, 7}

relocR_test(c, va, p) ==
  CASE c.apr[p].acf \in {1, 4} -> MMTrap(c, p)
    [] c.apr[p].acf \in NonResident -> reloc_abort(c, {"NR"} \cup TooFar(va, c.apr[p]), p)
    [] OTHER -> c

relocW_test(c, va, p) ==
  CASE c.apr[p].acf \in {4, 5} -> MMTrap(c, p)
    [] c.apr[p].acf \in NonResident -> reloc_abort(c, {"NR"} \cup TooFar(va, c.apr[p]), p)
    [] c.apr[p].acf \in {1, 2} -> reloc_abort(c, {"RO"} \cup TooFar(va, c.apr[p]), p)
    [] OTHER -> c

\* The physical address of va, to be written when write is set.
Relocated(c, va, write) ==
  LET p == PageOf(va)
      apr == c.apr[p]
      Located(d) ==
        IF PLF_test(va, apr) THEN reloc_abort(d, {"PL"}, p)
        ELSE [d EXCEPT !.pa = <<apr.frame, va[2] % PageBytes>>, !.apr[p].w = @ \/ write]
  IN  Go(IF write THEN relocW_test(c, va, p) ELSE relocR_test(c, va, p), Located)

relocR(c, va) == Relocated(c, va, FALSE)
relocW(c, va) == Relocated(c, va, TRUE)

-----------------------------------------------------------------------------
(* Reads and writes of n bytes; a read leaves what it read in val.          *)

At(pa) == <<pa[1], pa[2] - (pa[2] % 2)>>

PRead(c, n) ==
  [c EXCEPT !.val = IF n = 2 THEN c.mem[c.pa] ELSE Half(c.mem[At(c.pa)], c.pa[2])]

PWrite(c, n, data) ==
  [c EXCEPT !.mem[At(c.pa)] = IF n = 2 THEN data ELSE WithHalf(@, c.pa[2], data)]

Read(c, va, n) == Go(relocR(c, va), LAMBDA d : PRead(d, n))
ReadM(c, va) == Go(relocW(c, va), LAMBDA d : PRead(d, 2))
Write(c, data, va, n) == Go(relocW(c, va), LAMBDA d : PWrite(d, n, data))

-----------------------------------------------------------------------------
(* Operands: Getea leaves the effective address in ea.                      *)

\* A register is changed; calc_MMR1 puts the last change first.
Moved_Unnoted(c, reg, n) == [c EXCEPT !.r[reg] = Add(@, n)]

Moved(c, reg, n) ==
  LET mods == <<[reg |-> reg, by |-> n]>> \o c.mods
  IN  [c EXCEPT !.r[reg] = Add(@, n), !.mods = mods,
                !.mmr1 = IF update_MM(c) /\ reg # PC THEN mods ELSE @]

Indirect(c, va) == Go(Read(c, va, 2), LAMBDA d : [d EXCEPT !.ea = <<"D", d.val>>])

\* The word after the instruction added to a register.
Indexed(c, reg) ==
  Go(Read(c, <<"I", c.r[PC]>>, 2),
     LAMBDA d : LET e == [d EXCEPT !.r[PC] = Add(@, 2)]
                IN  [e EXCEPT !.ea = <<"D", Add(e.r[reg], e.val)>>])

\* GeteaW and GeteaB
Getea(c, o, n) ==
  LET k == IF n = 1 /\ o.mode \in {2, 4} /\ o.reg < SP THEN 1 ELSE 2
      from == <<SpaceOf(o.reg), c.r[o.reg]>>
      down == <<SpaceOf(o.reg), Add(c.r[o.reg], -k)>>
  IN  CASE o.mode = 1 -> [c EXCEPT !.ea = from]
        [] o.mode = 2 -> [Moved(c, o.reg, k) EXCEPT !.ea = from]
        [] o.mode = 3 -> Indirect(Moved(c, o.reg, k), from)
        [] o.mode = 4 -> [Moved(c, o.reg, -k) EXCEPT !.ea = down]
        [] o.mode = 5 -> Indirect(Moved(c, o.reg, -k), down)
        [] o.mode = 6 -> Indexed(c, o.reg)
        [] o.mode = 7 -> Go(Indexed(c, o.reg), LAMBDA d : Indirect(d, d.ea))

\* The source operand goes to src.
Source(c, o, n) ==
  Go(IF o.mode = 0
     THEN [c EXCEPT !.val = IF n = 2 THEN c.r[o.reg] ELSE c.r[o.reg] % Bytes]
     ELSE Go(Getea(c, o, n), LAMBDA d : Read(d, d.ea, n)),
     LAMBDA d : [d EXCEPT !.src = d.val])

-----------------------------------------------------------------------------
(* Instructions *)

mov(c, i) ==
  Go(Source(c, i.src, 2),
     LAMBDA d : IF i.dst.mode = 0 THEN [d EXCEPT !.r[i.dst.reg] = d.src]
                ELSE Go(Getea(d, i.dst, 2), LAMBDA e : Write(e, e.src, e.ea, 2)))

movb(c, i) ==
  Go(Source(c, i.src, 1),
     LAMBDA d : IF i.dst.mode = 0 THEN [d EXCEPT !.r[i.dst.reg] = SignExtended(d.src)]
                ELSE Go(Getea(d, i.dst, 1), LAMBDA e : Write(e, e.src, e.ea, 1)))

\* The operand o is read to be written (ReadMW), and the sum with what Term
\* says put back.
Modify(c, o, Term(_)) ==
  LET Result(d) == [d EXCEPT !.val = (@ + Term(d)) % Words, !.cc = (d.val + Term(d)) \div Words]
  IN  IF o.mode = 0
      THEN Go(Result([c EXCEPT !.val = c.r[o.reg]]), LAMBDA d : [d EXCEPT !.r[o.reg] = d.val])
      ELSE Go(Go(Go(Getea(c, o, 2), LAMBDA d : ReadM(d, d.ea)), Result),
              LAMBDA d : PWrite(d, 2, d.val))

add(c, i) == Go(Source(c, i.src, 2), LAMBDA d : Modify(d, i.dst, LAMBDA e : e.src))

adc(c, i) == Modify(c, i.dst, LAMBDA e : e.cc)

jmp(c, i) == Go(Getea(c, i.dst, 2), LAMBDA d : [d EXCEPT !.r[PC] = d.ea[2]])

Pushed(c) == Write(c, c.val, <<"D", c.r[SP]>>, 2)

jsr(c, i) ==
  LET Down(d) == LET e == Moved(d, SP, -2) IN Pushed([e EXCEPT !.val = e.r[i.link]])
  IN  Go(Go(Getea(c, i.dst, 2), Down),
         LAMBDA d : [d EXCEPT !.r[i.link] = d.r[PC], !.r[PC] = d.ea[2]])

rts(c, i) ==
  LET d == [c EXCEPT !.r[PC] = c.r[i.link]]
  IN  Go(Read(d, <<"D", d.r[SP]>>, 2),
         LAMBDA e : LET f == [e EXCEPT !.r[i.link] = e.val]
                    IN  IF i.link = SP THEN f ELSE [f EXCEPT !.r[SP] = Add(@, 2)])

InData(va) == <<"D", va[2]>>     \* calc_ds of the previous mode, which is user

mfpd(c, i) ==
  LET Fetched == IF i.dst.mode = 0 THEN [c EXCEPT !.val = c.r[i.dst.reg]]
                 ELSE Go(Getea(c, i.dst, 2), LAMBDA d : Read(d, InData(d.ea), 2))
  IN  Go(Fetched, LAMBDA d : Pushed(Moved(d, SP, -2)))

\* The change of SP is the first one, whatever was noted before.
mtpd(c, i) ==
  LET Popped(d) == Moved([d EXCEPT !.src = d.val, !.mods = <<>>], SP, 2)
      Kept(d) == IF i.dst.mode = 0 THEN [d EXCEPT !.r[i.dst.reg] = d.src]
                 ELSE Go(Getea(d, i.dst, 2), LAMBDA e : Write(e, e.src, InData(e.ea), 2))
  IN  Go(Go(Read(c, <<"D", c.r[SP]>>, 2), Popped), Kept)

Execute(c) ==
  LET i == Programs[prog].code[c.val]
  IN  CASE i.op = "mov" -> mov(c, i)
        [] i.op = "movb" -> movb(c, i)
        [] i.op = "add" -> add(c, i)
        [] i.op = "adc" -> adc(c, i)
        [] i.op = "jmp" -> jmp(c, i)
        [] i.op = "jsr" -> jsr(c, i)
        [] i.op = "rts" -> rts(c, i)
        [] i.op = "mfpd" -> mfpd(c, i)
        [] i.op = "mtpd" -> mtpd(c, i)

-----------------------------------------------------------------------------
(* The instruction loop *)

\* MMR1 and MMR2 follow the instruction, if they are not frozen.
Noted(c) == IF update_MM(c) THEN [c EXCEPT !.mmr1 = <<>>, !.mmr2 = c.r[PC]] ELSE c

\* Mutant: reg_mods still has the changes of the last instruction.
Begun_Kept(c) == c

Begun(c) == [c EXCEPT !.mods = <<>>]

\* While PC breakpoints are set the PC is relocated before MMR2 notes it.
Fetch(c) ==
  LET at == <<"I", c.r[PC]>>
      Looked == IF PcBreaks THEN relocR(Begun(c), at) ELSE Begun(c)
  IN  Go(Go(Looked, LAMBDA d : Read(Noted(d), at, 2)),
         LAMBDA d : [d EXCEPT !.r[PC] = Add(@, 2)])

\* The local variables of an instruction are gone with it, and an abort has
\* come to the handler.
Left(c) == [c EXCEPT !.abort = FALSE, !.val = 0, !.src = 0, !.ea = <<"I", 0>>, !.pa = <<0, 0>>]

Turn ==
  /\ os.at = "user" /\ ~m.request
  /\ m' = Left(Go(Fetch(m), Execute))
  /\ UNCHANGED <<prog, os>>

\* An address of the kernel: its instructions', of which nothing else is said,
\* and the vector's.  Its pages are there.
KernelPC == 0

TakeTrap ==
  /\ os.at = "user" /\ m.request
  /\ m' = [m EXCEPT !.request = FALSE, !.r[PC] = KernelPC,
                    !.mmr2 = IF update_MM(m) THEN KernelPC ELSE @]
  /\ os' = [os EXCEPT !.at = "entry", !.pc = m.r[PC], !.cc = m.cc]
  /\ UNCHANGED prog

\* The kernel executes instructions before it looks at MMR0 to MMR2.
Work ==
  /\ os.at = "entry"
  /\ m' = Noted(Begun(m))
  /\ os' = [os EXCEPT !.at = "handler"]
  /\ UNCHANGED prog

\* RTI
Return ==
  /\ os.at = "return"
  /\ m' = [Noted(Begun(m)) EXCEPT !.r[PC] = os.pc, !.cc = os.cc]
  /\ os' = [os EXCEPT !.at = "user", !.pc = KernelPC, !.cc = 0]
  /\ UNCHANGED prog

-----------------------------------------------------------------------------
(* The operating system, external: s is a record of m and os.               *)

Resident == ToSet(os.pages)

\* A write to a page register clears its W bit (APR_wr), so the system keeps
\* what it has seen of it.
SetApr_NotKept(s, p, apr) == [s EXCEPT !.m.apr[p] = [apr EXCEPT !.w = FALSE]]

SetApr(s, p, apr) ==
  [s EXCEPT !.m.apr[p] = [apr EXCEPT !.w = FALSE],
            !.os.dirty = IF s.m.apr[p].w THEN @ \cup {p} ELSE @]

\* A page is written to the disk if it has been changed.
PageOut(s, p) ==
  LET apr == s.m.apr[p]
      t == SetApr(s, p, [apr EXCEPT !.acf = Programs[prog].absent])
      Saved(c) == IF PageOf(c) = p THEN s.m.mem[<<apr.frame, c[2] % PageBytes>>]
                  ELSE s.os.disk[c]
  IN  [t EXCEPT !.os.disk = IF p \in t.os.dirty THEN [c \in Cell |-> Saved(c)] ELSE @,
                !.os.dirty = @ \ {p}, !.os.pages = SelectSeq(@, LAMBDA q : q # p)]

\* A page comes into a free frame, with the access acf.
PageIn(s, p, acf) ==
  LET f == CHOOSE g \in Frame : \A q \in ToSet(s.os.pages) : s.m.apr[q].frame # g
      t == SetApr(s, p, [s.m.apr[p] EXCEPT !.acf = acf, !.frame = f])
  IN  [t EXCEPT !.os.pages = Append(@, p),
                !.m.mem = [x \in Place |-> IF x[1] = f THEN s.os.disk[CellIn(p, x[2])]
                                           ELSE @[x]]]

\* The oldest page makes room.
Room(s) == IF Len(s.os.pages) = Frames THEN PageOut(s, Head(s.os.pages)) ELSE s

Extended(s, p) ==
  LET apr == s.m.apr[p]
  IN  SetApr(s, p, [apr EXCEPT !.plf = IF apr.ed THEN 0 ELSE LastBlock])

Access6(s, p) == SetApr(s, p, [s.m.apr[p] EXCEPT !.acf = 6])

\* What MMR1 says of the registers is undone; MMR2 says where to begin again.
Undone(r, mods) ==
  FoldSeq(LAMBDA x, q : [q EXCEPT ![x.reg] = Add(@, -x.by)], r, mods)

\* The page is made what the program needs, and the instruction of an abort
\* begun again; a write to MMR0 clears the errors and the trap bit.
Serve ==
  /\ os.at = "handler"
  /\ \E acf \in Programs[prog].access :
       LET s == [m |-> m, os |-> os]
           p == m.page
           t == IF "NR" \in m.err THEN PageIn(Room(s), p, acf)
                ELSE IF "RO" \in m.err \/ m.err = {} THEN Access6(s, p) ELSE s
           u == IF "PL" \in m.err THEN Extended(t, p) ELSE t
       IN  /\ m' = [u.m EXCEPT !.err = {}, !.mmt = FALSE,
                      !.r = IF m.err = {} THEN @ ELSE [Undone(@, m.mmr1) EXCEPT ![PC] = KernelPC]]
           /\ os' = [u.os EXCEPT !.at = "return", !.pc = IF m.err = {} THEN @ ELSE m.mmr2]
  /\ UNCHANGED prog

\* An interrupt, at which a page is taken.
Steal ==
  /\ os.at = "user" /\ ~m.request /\ os.steals > 0
  /\ \E p \in Resident :
       LET s == PageOut([m |-> m, os |-> os], p)
       IN  /\ m' = [Noted(Begun([s.m EXCEPT !.r[PC] = KernelPC])) EXCEPT !.r[PC] = m.r[PC]]
           /\ os' = [s.os EXCEPT !.steals = @ - 1]
  /\ UNCHANGED prog

-----------------------------------------------------------------------------
(* The specification *)

Init ==
  /\ prog \in DOMAIN Programs
  /\ LET q == Programs[prog]
         Apr(p) == [acf |-> q.absent, ed |-> p \in q.down, frame |-> 0, w |-> FALSE,
                    plf |-> IF (p \in q.down) = (p \in q.short) THEN LastBlock ELSE 0]
     IN  /\ m = [r |-> q.r, cc |-> 0, mods |-> <<>>, apr |-> [p \in Page |-> Apr(p)],
                 mem |-> [x \in Place |-> 0], err |-> {}, mmt |-> FALSE,
                 page |-> <<"I", 0>>, mmr1 |-> <<>>, mmr2 |-> 0, request |-> FALSE,
                 abort |-> FALSE, val |-> 0, src |-> 0, ea |-> <<"I", 0>>, pa |-> <<0, 0>>]
         /\ os = [at |-> "user", pc |-> KernelPC, cc |-> 0, pages |-> <<>>, dirty |-> {},
                  disk |-> q.v, steals |-> Steals]

Next == Turn \/ TakeTrap \/ Work \/ Serve \/ Return \/ Steal

Spec == Init /\ [][Next]_vars

\* The loop goes on, and the handler returns; it need not take pages.
FairSpec == Spec /\ WF_vars(Turn \/ TakeTrap \/ Work \/ Serve \/ Return)

-----------------------------------------------------------------------------
(* Properties *)

\* Types; an instruction notes two changes at most, which is what MMR1 and
\* reg_mods can hold; pages that are there have frames of their own.
TypeOK ==
  /\ m.r \in [Reg -> Word] /\ m.cc \in {0, 1} /\ m.mmr2 \in Word
  /\ Len(m.mods) <= 2 /\ Len(m.mmr1) <= 2
  /\ m.err \in SUBSET {"NR", "PL", "RO"} /\ m.page \in Page
  /\ m.mem \in [Place -> Word] /\ os.disk \in [Cell -> Word]
  /\ Resident = {p \in Page : m.apr[p].acf \notin NonResident}
  /\ \A p, q \in Resident : p # q => m.apr[p].frame # m.apr[q].frame

\* What the program sees: after an abort the registers of before the
\* instruction, and every page, wherever it is.
SeenRegisters ==
  IF m.err # {} THEN [Undone(m.r, m.mmr1) EXCEPT ![PC] = m.mmr2]
  ELSE IF os.at = "user" THEN m.r ELSE [m.r EXCEPT ![PC] = os.pc]

SeenMemory ==
  [c \in Cell |-> IF PageOf(c) \in Resident
                  THEN m.mem[<<m.apr[PageOf(c)].frame, c[2] % PageBytes>>] ELSE os.disk[c]]

P == INSTANCE Plain WITH
  r <- SeenRegisters, v <- SeenMemory, cc <- IF os.at = "user" THEN m.cc ELSE os.cc

\* A program does not notice that its pages come and go, that instructions
\* are begun again and that the system sees its accesses; and it goes on.
Transparent == P!Spec
=============================================================================
