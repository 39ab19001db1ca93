---------------------------- MODULE EventAgenda ----------------------------
(***************************************************************************)
(* What the event queue package of scp.c promises to the devices, without  *)
(* the relative-time list it is built from.  The agenda is the sequence of *)
(* the pending units in the order in which they will fire; left[u] is the  *)
(* number of simulated cycles that must still elapse before u fires.  Time *)
(* never passes a pending event, an event fires exactly when its time has  *)
(* come, and units due at the same time fire in the order in which they    *)
(* were activated.                                                         *)
(***************************************************************************)
EXTENDS Naturals, Sequences, SequencesExt

CONSTANTS
  UNITS,      \* the units (device event sources)
  NoUnit      \* "no unit's event is being processed"

VARIABLES
  agenda,     \* pending units, first to fire first
  left,       \* cycles until each pending unit fires, 0 for the others
  running     \* the unit whose event is being processed, or NoUnit

avars == <<agenda, left, running>>

Pending == ToSet(agenda)

Shift(n) == [u \in UNITS |-> IF u \in Pending THEN left[u] + n ELSE left[u]]

Init ==
  /\ agenda = <<>>
  /\ left = [u \in UNITS |-> 0]
  /\ running = NoUnit

\* n cycles of simulated execution: never past the first pending event.
Elapse ==
  /\ running = NoUnit
  /\ agenda # <<>>
  /\ \E n \in 1 .. left[agenda[1]] : left' = [u \in UNITS |->
       IF u \in Pending THEN left[u] - n ELSE left[u]]
  /\ UNCHANGED <<agenda, running>>

\* The instruction that was just counted is abandoned and will be replayed.
Undo ==
  /\ running = NoUnit
  /\ left' = Shift(1)
  /\ UNCHANGED <<agenda, running>>

\* u is scheduled behind every pending unit that is due no later than it.
Insert(u) ==
  /\ u \notin Pending
  /\ left'[u] \in Nat
  /\ left' = [left EXCEPT ![u] = left'[u]]
  /\ \E p \in 0 .. Len(agenda) :
       /\ \A i \in 1 .. p : left[agenda[i]] <= left'[u]
       /\ \A i \in p + 1 .. Len(agenda) : left'[u] < left[agenda[i]]
       /\ agenda' = InsertAt(agenda, p + 1, u)
  /\ UNCHANGED running

Withdraw ==
  /\ \E i \in 1 .. Len(agenda) :
       /\ agenda' = RemoveAt(agenda, i)
       /\ left' = [left EXCEPT ![agenda[i]] = 0]
  /\ UNCHANGED running

\* RUN and BOOT empty the agenda.
Clear ==
  /\ running = NoUnit
  /\ agenda' = <<>>
  /\ left' = [u \in UNITS |-> 0]
  /\ UNCHANGED running

\* The first event fires, at its time.
Fire ==
  /\ running = NoUnit
  /\ agenda # <<>>
  /\ left[agenda[1]] = 0
  /\ running' = agenda[1]
  /\ agenda' = Tail(agenda)
  /\ UNCHANGED left

Return ==
  /\ running # NoUnit
  /\ running' = NoUnit
  /\ UNCHANGED <<agenda, left>>

Next ==
  \/ Elapse
  \/ Undo
  \/ \E u \in UNITS : Insert(u)
  \/ Withdraw
  \/ Clear
  \/ Fire
  \/ Return

Spec == Init /\ [][Next]_avars
=============================================================================
