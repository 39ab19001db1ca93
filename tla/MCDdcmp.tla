------------------------------ MODULE MCDdcmp ------------------------------
(***************************************************************************)
(* Instances of Ddcmp for TLC: two stations, the scenarios of each run.    *)
(***************************************************************************)
EXTENDS Ddcmp, TLC

CONSTANTS A, B

TwoStations == {A, B}

Case(speed, a, b, loss, stall, break, clear) ==
  [speed |-> speed, supply |-> A :> a @@ B :> b,
   loss |-> loss, troll |-> loss > 0, stall |-> stall,
   break |-> break, clear |-> clear]

\* A fast line on which two packets are lost or damaged, two on which a
\* packet is lost and the connection breaks, with traffic both ways and with
\* three messages one way, one that breaks and is cleared, and one that
\* stalls; a slow line with traffic both ways on which a packet is lost or
\* damaged, and one that is cleared.
Faults ==
  {Case("full", 2, 1, 2, 0, 0, 0), Case("full", 1, 1, 1, 0, 1, 0),
   Case("full", 3, 0, 1, 0, 1, 0), Case("full", 1, 1, 0, 0, 1, 1),
   Case("full", 2, 1, 0, 1, 0, 0),
   Case("limited", 1, 1, 1, 0, 0, 0), Case("limited", 1, 1, 0, 0, 0, 1)}

\* Fast lines that break twice and slow ones that break, each with traffic
\* both ways and with two messages one way.
Breaks ==
  {Case("full", 1, 1, 0, 0, 2, 0), Case("full", 2, 0, 0, 0, 2, 0),
   Case("limited", 1, 1, 0, 0, 1, 0), Case("limited", 2, 0, 0, 0, 1, 0)}

\* A connection that breaks, and a master clear after it.
Clears == {Case("full", 2, 1, 0, 0, 1, 1)}

\* The stations may be exchanged: a scenario stands for its mirror image.
Mirror == Permutations(TwoStations)
=============================================================================
