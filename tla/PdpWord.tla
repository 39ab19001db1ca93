------------------------------ MODULE PdpWord ------------------------------
(***************************************************************************)
(* Words of two bytes, the general registers, and the pseudo virtual       *)
(* addresses of PDP11/pdp11_cpu.c: a space and a byte address.             *)
(***************************************************************************)
EXTENDS Integers

CONSTANT Bytes        \* values of a byte: 2^8

ASSUME BytesAssumption == Bytes \in Nat /\ Bytes % 2 = 0 /\ Bytes > 0

Words == Bytes * Bytes
Word == 0 .. Words - 1

SP == 6
PC == 7
Reg == {0, 1, SP, PC}          \* R0 and R1 stand for R0 to R5

Add(w, n) == (w + n) % Words

Half(w, a) == IF a % 2 = 1 THEN w \div Bytes ELSE w % Bytes

WithHalf(w, a, b) ==
  IF a % 2 = 1 THEN b * Bytes + (w % Bytes) ELSE (w \div Bytes) * Bytes + b

SignExtended(b) == IF 2 * b >= Bytes THEN Words - Bytes + b ELSE b

\* Spaces with their word addresses.  (An odd one is an error of the program,
\* and no program of an instance makes one.)
Space == {"I", "D"}
Cell == Space \X {a \in Word : a % 2 = 0}

CellOf(va) == <<va[1], va[2] - (va[2] % 2)>>
SpaceOf(reg) == IF reg = PC THEN "I" ELSE "D"
=============================================================================
