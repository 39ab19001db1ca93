---------------------------- MODULE ReliableLink ---------------------------
(***************************************************************************)
(* What a pair of drivers may rely on between two stations, whatever the   *)
(* line does: a message reaches the peer only after all those given before *)
(* it, at most once between two starts of the peer's link, and never after *)
(* it was reported as sent; it is reported only when the peer has it.      *)
(* Messages that a driver gave up by a master clear may be missing.        *)
(*                                                                         *)
(* The order has one exception, which is the code's: when a link is        *)
(* started again, messages that were not reported yet go back to the queue *)
(* in the order they were sent last (ddcmp_ResetVariables), which is not   *)
(* the driver's once one of them was sent again                            *)
(* (ddcmp_ReTransmitMessageT).  Until all of them are reported these       *)
(* messages may come in any order.                                         *)
(***************************************************************************)
EXTENDS Integers, FiniteSets

CONSTANT Station

VARIABLES
  sent,      \* sent[s]: messages the driver of s has given, 1 .. sent[s]
  given,     \* given[s]: of these, the first ones it has given up
  done,      \* done[s]: of these, the ones reported as sent
  got,       \* got[s]: the messages of the peer that were delivered to s
  round,     \* round[s]: those of them since the link of s was started
  shuffled   \* shuffled[s]: a start has put messages of s in another order

vars == <<sent, given, done, got, round, shuffled>>

Other(s) == CHOOSE t \in Station : t # s

Init ==
  /\ sent = [s \in Station |-> 0] /\ given = [s \in Station |-> 0]
  /\ done = [s \in Station |-> {}] /\ got = [s \in Station |-> {}]
  /\ round = [s \in Station |-> {}]
  /\ shuffled = [s \in Station |-> FALSE]

\* The messages of s that are neither reported nor given up.
Open(s) == (given[s] + 1 .. sent[s]) \ done[s]

\* What may come next to s, which has had the messages now since its start.
MayCome(s, n, now) ==
  LET p == Other(s)
  IN  /\ n \in 1 .. sent[p] /\ n \notin done[p] \cup now
      /\ shuffled[p] \/ \A m \in given[p] + 1 .. n - 1 : m \in done[p] \cup now

\* One message arrives, or two.  The link may be started in the same step.
Deliver(s) ==
  \E n, m \in 1 .. sent[Other(s)] :
    /\ MayCome(s, n, round[s])
    /\ m = n \/ MayCome(s, m, round[s] \cup {n})
    /\ got' = [got EXCEPT ![s] = @ \cup {n, m}]
    /\ \E now \in {round[s] \cup {n, m}, {}} : round' = [round EXCEPT ![s] = now]

\* The link of s starts anew, with two messages or more to send again.
Start(s) ==
  /\ round' = [round EXCEPT ![s] = {}]
  /\ \/ UNCHANGED shuffled
     \/ Cardinality(Open(s)) > 1 /\ shuffled' = [shuffled EXCEPT ![s] = TRUE]
  /\ UNCHANGED got

Give(s) ==
  /\ sent' = [sent EXCEPT ![s] = @ + 1]
  /\ UNCHANGED <<given, done>>

Clear(s) ==
  /\ given' = [given EXCEPT ![s] = sent[s]]
  /\ UNCHANGED <<sent, done>>

\* Messages are reported when the peer has them.
Report(s) ==
  \E D \in SUBSET (got[Other(s)] \ 1 .. given[s]) :
    /\ done' = [done EXCEPT ![s] = @ \cup D]
    /\ UNCHANGED <<sent, given>>

\* With nothing left to send the order is the driver's again.
Settle(s) == Open(s)' = {} /\ shuffled' = [shuffled EXCEPT ![s] = FALSE]

\* A station may at once take what comes in and report what went out.
Next ==
  \E s \in Station :
    /\ Deliver(s) \/ Start(s) \/ UNCHANGED <<got, round>>
    /\ Give(s) \/ Clear(s) \/ Report(s) \/ UNCHANGED <<sent, given, done>>
    /\ Settle(s) \/ Start(s) \/ UNCHANGED shuffled

Spec == Init /\ [][Next]_vars
=============================================================================
