------------------------------ MODULE MCPaging ------------------------------
(***************************************************************************)
(* Programs for Paging.  An instruction is a word of its own choosing: the *)
(* code says what the words mean.                                          *)
(***************************************************************************)
EXTENDS Paging, TLC

O(mode, reg) == [mode |-> mode, reg |-> reg]
Two(op, src, dst) == [op |-> op, src |-> src, dst |-> dst]
One(op, dst) == [op |-> op, dst |-> dst]
Jsr(link, dst) == [op |-> "jsr", link |-> link, dst |-> dst]
Rts(link) == [op |-> "rts", link |-> link]

\* Both spaces from the words of eight places each.
Image(i, d) == [c \in Cell |-> IF c[1] = "I" THEN i[c[2] \div 2 + 1] ELSE d[c[2] \div 2 + 1]]

Registers(r0, r1, sp) == (0 :> r0) @@ (1 :> r1) @@ (SP :> sp) @@ (PC :> 0)

Case(code, i, d, r) ==
  [code |-> [w \in 0 .. Len(code) - 1 |-> code[w + 1]], v |-> Image(i, d), r |-> r,
   tenb |-> FALSE, access |-> {6}, absent |-> 0, down |-> {}, short |-> {}]

\* Two changes of registers in one instruction, and an addition that must
\* not happen twice.
Move ==
  Case(<< Two("mov", O(2, 0), O(4, 1)), Two("add", O(2, 1), O(4, 0)),
          One("adc", O(3, 0)), One("adc", O(5, 0)), One("jmp", O(3, PC)) >>,
       << 0, 1, 2, 3, 4, 0, 0, 0 >>, << 4, 7, 8, 3, 12, 0, 15, 1 >>, Registers(2, 12, 0))

\* Calls, and the stack that pages are moved through.
Call ==
  Case(<< One("mfpd", O(2, 0)), One("mtpd", O(4, 0)), Jsr(PC, O(6, 1)), One("jmp", O(1, 1)),
          Jsr(PC, O(3, SP)), Rts(PC) >>,
       << 0, 1, 2, 12, 4, 3, 4, 5 >>, << 3, 8, 0, 2, 9, 0, 0, 0 >>, Registers(2, 0, 14))

\* Bytes, an immediate word, an index.
Index ==
  Case(<< Two("movb", O(2, 0), O(2, 1)), Two("mov", O(2, PC), O(4, 1)),
          Two("add", O(5, 0), O(6, 1)), One("jmp", O(7, 1)) >>,
       << 0, 0, 1, 11, 2, 0, 3, 2 >>, << 4, 14, 7, 0, 5, 0, 0, 9 >>, Registers(2, 8, 0))

\* What the system may do with the pages: ask to be told of accesses, keep them
\* from being written, leave a page short that can grow.
Watched(q, access) == [q EXCEPT !.access = access, !.tenb = TRUE]
Clean(q, access) == [q EXCEPT !.access = access, !.absent = 7]
Short(q) ==
  [q EXCEPT !.absent = 3, !.down = {<<"D", 3>>, <<"D", 1>>},
            !.short = {<<"D", 3>>, <<"D", 1>>, <<"D", 0>>, <<"I", 1>>}]

All ==
  "move" :> Move @@ "call" :> Call @@ "index" :> Index
  @@ "watched move" :> Watched(Move, {4}) @@ "clean move" :> Clean(Move, {2})
  @@ "short move" :> Short(Move)
  @@ "watched call" :> Watched(Call, {5}) @@ "clean call" :> Clean(Call, {1})
  @@ "short call" :> Short(Watched(Call, {4}))
  @@ "watched index" :> Watched(Index, {1, 4}) @@ "clean index" :> Clean(Index, {5})
  @@ "short index" :> Short(Clean(Index, {2}))
=============================================================================
