---------------------------- MODULE DdcmpNumber ----------------------------
(***************************************************************************)
(* Message numbers of the DDCMP link (PDP11/pdp11_dmc.c): eight bit        *)
(* counters that wrap, compared "modulo 256" by Mod256Cmp.  Two numbers no *)
(* further apart than the pool is large are compared as integers, two      *)
(* numbers further apart the other way round, as one must have wrapped.    *)
(***************************************************************************)
EXTENDS Integers

CONSTANTS
  Modulus,     \* 256: the numbers are uint8
  Pool         \* queue_size: the buffers of the controller

ASSUME NumberAssumption ==
  /\ Modulus \in Nat \ {0} /\ Pool \in Nat
  /\ Modulus > 2 * Pool

Number == 0 .. Modulus - 1

Succ(n) == (n + 1) % Modulus

Distance(a, b) == IF a < b THEN b - a ELSE a - b

(***************************************************************************)
(* Mod256Cmp (a, b, queue_size): negative, zero or positive.               *)
(***************************************************************************)
Mod256Cmp(a, b) ==
  LET ans == IF a = b THEN 0 ELSE IF b < a THEN -1 ELSE 1
  IN  IF Distance(a, b) <= Pool THEN -ans ELSE ans

LT(a, b) == Mod256Cmp(a, b) < 0
LE(a, b) == Mod256Cmp(a, b) <= 0
GT(a, b) == Mod256Cmp(a, b) > 0
GE(a, b) == Mod256Cmp(a, b) >= 0
=============================================================================
