-------------------------- MODULE EventQueueProofs --------------------------
(***************************************************************************)
(* Theorems about EventQueue, for every set of units, all delays and any   *)
(* width of sim_rtime: its types, the consistency of the list, its times   *)
(* and the due times, and that it implements EventAgenda.  IInv is         *)
(* inductive when no data breakpoint follows a device access               *)
(* (BreakAfterDevice = FALSE).                                             *)
(***************************************************************************)
EXTENDS EventQueue, ListProofs

-----------------------------------------------------------------------------
(* Typing *)

USE UnitsAssumption, DelaysAssumption, RtModAssumption, BreakAssumption

\* The rolled-over global time stays in its range.
LEMMA ModRange ==
  ASSUME NEW x \in Int
  PROVE  x % RtMod \in 0 .. RtMod - 1
  OBVIOUS

\* UPDATE_SIM_TIME keeps the types of the times and of sim_rtime.
LEMMA TimeTyped ==
  ASSUME TypeOK
  PROVE  /\ sim_grtime \in 0 .. RtMod - 1
         /\ UpdatedTime \in [UNITS -> Int]
         /\ queue # <<>> => Head(queue) \in UNITS
         /\ \A i \in 1 .. Len(queue) : queue[i] \in UNITS
<1>1. queue # <<>> => Head(queue) \in UNITS
  BY HeadTailProperties DEF TypeOK
<1>2. \A i \in 1 .. Len(queue) : queue[i] \in UNITS
  BY ElementOfSeq DEF TypeOK
<1>3. LastInterval \in Int
  BY <1>1 DEF TypeOK, LastInterval
<1>4. sim_grtime \in 0 .. RtMod - 1
  <2>1. sim_rtime + (LastInterval - sim_interval) \in Int
    BY <1>3 DEF TypeOK
  <2> QED
    BY <2>1, ModRange DEF sim_grtime
<1>5. UpdatedTime \in [UNITS -> Int]
  BY <1>1 DEF TypeOK, UpdatedTime
<1> QED
  BY <1>1, <1>2, <1>4, <1>5

\* The operation in progress is one of the three kinds of Calls.
LEMMA CallTyped ==
  ASSUME TypeOK
  PROVE  /\ call.op = "enter" =>
              call \in [op : {"enter"}, unit : UNITS, delay : Nat, more : BOOLEAN]
         /\ call.op = "scan" =>
              call \in [op : {"scan"}, unit : UNITS, delay : Nat,
                        more : BOOLEAN, accum : Int, prv : Nat]
         /\ call # NoCall => call.op \in {"enter", "scan"}
  BY DEF TypeOK, Calls, NoCall

\* The interval is an integer once the list and its times are typed.
LEMMA RearmTyped ==
  ASSUME TypeOK, Rearm, time' \in [UNITS -> Int],
         queue' # <<>> => Head(queue') \in UNITS
  PROVE  sim_interval' \in Int /\ noqueue_time' \in Int
<1>1. CASE queue' = <<>>
  BY <1>1 DEF Rearm
<1>2. CASE queue' # <<>>
  <2>1. sim_interval' = time'[Head(queue')] /\ noqueue_time' = noqueue_time
    BY <1>2 DEF Rearm
  <2>2. time'[Head(queue')] \in Int
    BY <1>2
  <2> QED
    BY <2>1, <2>2 DEF TypeOK
<1> QED
  BY <1>1, <1>2

\* sim_cancel of a queued unit keeps the types and the start of the others.
LEMMA UnlinkTyped ==
  ASSUME TypeOK, NEW i \in 1 .. Len(queue), UnlinkAt(i)
  PROVE  /\ queue' \in Seq(UNITS) /\ time' \in [UNITS -> Int]
         /\ sim_interval' \in Int /\ noqueue_time' \in Int
         /\ sim_rtime' \in 0 .. RtMod - 1
         /\ remnant' \subseteq UNITS
         /\ left' \in [UNITS -> Int] /\ clock' \in 0 .. RtMod - 1
<1>1. queue' \in Seq(UNITS)
  BY RemoveAtIndex DEF TypeOK, UnlinkAt
<1>2. time' \in [UNITS -> Int]
  BY TimeTyped DEF UnlinkAt
<1>3. queue' # <<>> => Head(queue') \in UNITS
  BY <1>1, HeadTailProperties
<1>4. sim_interval' \in Int /\ noqueue_time' \in Int
  BY <1>2, <1>3, RearmTyped DEF UnlinkAt
<1>5. sim_rtime' \in 0 .. RtMod - 1
  BY TimeTyped DEF UnlinkAt
<1>6. left' \in [UNITS -> Int] /\ clock' \in 0 .. RtMod - 1 /\ remnant' \subseteq UNITS
  BY DEF UnlinkAt, TypeOK
<1> QED
  BY <1>1, <1>2, <1>4, <1>5, <1>6

\* UPDATE_SIM_TIME on its own keeps the types of the queue's variables.
LEMMA UpdateTyped ==
  ASSUME TypeOK, UPDATE_SIM_TIME
  PROVE  /\ queue' \in Seq(UNITS) /\ time' \in [UNITS -> Int]
         /\ sim_interval' \in Int /\ noqueue_time' \in Int
         /\ sim_rtime' \in 0 .. RtMod - 1
  BY TimeTyped DEF UPDATE_SIM_TIME, TypeOK

\* sim_cancel keeps the types whether or not the unit is queued.
LEMMA CancelTyped ==
  ASSUME TypeOK, NEW u \in UNITS, CancelUnit(u)
  PROVE  /\ queue' \in Seq(UNITS) /\ time' \in [UNITS -> Int]
         /\ sim_interval' \in Int /\ noqueue_time' \in Int
         /\ sim_rtime' \in 0 .. RtMod - 1
         /\ remnant' \subseteq UNITS
         /\ left' \in [UNITS -> Int] /\ clock' \in 0 .. RtMod - 1
<1>1. CASE \E i \in 1 .. Len(queue) : queue[i] = u /\ UnlinkAt(i)
  BY <1>1, UnlinkTyped
<1>2. CASE UPDATE_SIM_TIME /\ UNCHANGED <<remnant, hist>>
  BY <1>2, UpdateTyped DEF hist, TypeOK
<1>3. CASE UNCHANGED <<qvars, remnant, hist>>
  BY <1>3 DEF qvars, hist, TypeOK
<1> QED
  BY <1>1, <1>2, <1>3 DEF CancelUnit

\* A call of _sim_activate is one of Calls.
LEMMA EnterTyped ==
  ASSUME NEW u \in UNITS, NEW d \in Nat, NEW m \in BOOLEAN, EnterActivate(u, d, m)
  PROVE  call' \in Calls
  BY DEF EnterActivate, Calls

\* Linking a unit into the list keeps the types.
LEMMA LinkTyped ==
  ASSUME TypeOK, ScanSound, Link
  PROVE  TypeOK'
<1> DEFINE u == call.unit
           t == call.delay - call.accum
<1>1. u \in UNITS /\ t \in Int /\ call.delay \in Nat /\ call.prv + 1 \in 1 .. Len(queue) + 1
  BY CallTyped DEF Link, ScanSound
<1>2. queue' \in Seq(UNITS) /\ Len(queue') = Len(queue) + 1
  <2>1. queue \in Seq(UNITS)
    BY DEF TypeOK
  <2>2. queue' = InsertAt(queue, call.prv + 1, call.unit)
    BY DEF Link
  <2> HIDE DEF u, t
  <2>3. call.unit \in UNITS
    BY <1>1 DEF u
  <2> QED
    BY <1>1, <2>1, <2>2, <2>3, InsertAtIndex
<1>3. queue' # <<>> /\ Head(queue') \in UNITS
  BY <1>2, HeadTailProperties DEF TypeOK
<1>4. time' \in [UNITS -> Int]
  BY <1>1 DEF Link, TypeOK
<1>5. sim_interval' \in Int
  BY <1>3, <1>4 DEF Link
<1>6. left' \in [UNITS -> Int] /\ remnant' \subseteq UNITS
  BY <1>1 DEF Link, TypeOK
<1>7. call' \in Calls
  BY DEF Link, Calls
<1> QED
  BY <1>2, <1>4, <1>5, <1>6, <1>7 DEF Link, TypeOK, cpuvars

\* Every call a device or the console makes keeps the types.
LEMMA CallingTyped ==
  ASSUME TypeOK, Calling
  PROVE  TypeOK'
<1>0. Delays \subseteq Nat
  BY DelaysAssumption
<1>1. CalledFrom \in Contexts
  BY DEF TypeOK, CalledFrom, Contexts
<1>2. ASSUME NEW u \in UNITS, NEW d \in Delays, NEW m \in BOOLEAN, sim_activate(u, d, m)
      PROVE  TypeOK'
  <2>1. call' \in Calls
    BY <1>0, <1>2, EnterTyped DEF sim_activate
  <2> QED
    BY <1>1, <1>2, <2>1 DEF sim_activate, TypeOK, qvars, cpuvars, hist
<1>3. ASSUME NEW u \in UNITS, NEW d \in Delays, NEW m \in BOOLEAN, sim_activate_abs(u, d, m)
      PROVE  TypeOK'
  <2>1. call' \in Calls
    BY <1>0, <1>3, EnterTyped DEF sim_activate_abs
  <2> QED
    BY <1>1, <1>3, <2>1, CancelTyped DEF sim_activate_abs, TypeOK, cpuvars
<1>4. ASSUME NEW u \in UNITS, NEW r \in 0 .. RtMod - 1, sim_activate_notbefore(u, r)
      PROVE  TypeOK'
  <2>0. r - sim_grtime \in Int
    BY TimeTyped
  <2>a. (r - sim_grtime) % RtMod \in 0 .. RtMod - 1
    BY ONLY <2>0, ModRange
  <2>1. (r - sim_grtime) % RtMod \in Nat
    BY <2>a
  <2>2. call' \in Calls
    BY <1>4, <2>1, EnterTyped DEF sim_activate_notbefore
  <2> QED
    BY <1>1, <1>4, <2>2, CancelTyped DEF sim_activate_notbefore, TypeOK, cpuvars
<1>5. ASSUME NEW u \in UNITS, sim_cancel(u)
      PROVE  TypeOK'
  BY <1>1, <1>5, CancelTyped DEF sim_cancel, TypeOK, cpuvars
<1> QED
  BY <1>2, <1>3, <1>4, <1>5 DEF Calling

\* Taking the first unit off the list keeps the types.
LEMMA DispatchTyped ==
  ASSUME TypeOK, queue # <<>>, Dispatch
  PROVE  TypeOK'
<1>1. Head(queue) \in UNITS /\ queue' \in Seq(UNITS)
  BY TimeTyped, TailIndex DEF Dispatch, TypeOK
<1>2. time' \in [UNITS -> Int]
  BY <1>1 DEF Dispatch, TypeOK
<1>3. queue' # <<>> => Head(queue') \in UNITS
  BY <1>1, HeadTailProperties
<1>4. sim_interval' \in Int /\ noqueue_time' \in Int
  BY <1>2, <1>3, RearmTyped DEF Dispatch
<1>5. Delays \subseteq Nat
  BY DelaysAssumption
<1>6. call' \in Calls /\ remnant' \subseteq UNITS /\ ctx' \in Contexts
  <2>1. CASE ctx' = "action" /\ UNCHANGED <<remnant, call>>
    BY <2>1 DEF TypeOK, Contexts
  <2>2. ASSUME NEW d \in Delays \ {0}, NEW m \in BOOLEAN,
               EnterActivate(Head(queue), d, m), ctx' = "rearm",
               remnant' = remnant \ {Head(queue)}
        PROVE  call' \in Calls /\ remnant' \subseteq UNITS /\ ctx' \in Contexts
    BY <1>1, <1>5, <2>2, EnterTyped DEF TypeOK, Contexts
  <2> QED
    BY <2>1, <2>2 DEF Dispatch
<1> QED
  BY <1>1, <1>2, <1>4, <1>6 DEF Dispatch, TypeOK, hist

\* Counting cycles keeps the types of the history variables.
LEMMA ElapsedTyped ==
  ASSUME TypeOK, NEW n \in Int, Elapsed(n)
  PROVE  left' \in [UNITS -> Int] /\ clock' \in 0 .. RtMod - 1
<1>1. clock + n \in Int
  BY DEF TypeOK
<1>2. clock' \in 0 .. RtMod - 1
  BY <1>1, ModRange DEF Elapsed
<1> QED
  BY <1>2 DEF Elapsed, TypeOK

\* Every step keeps the types; the scan of _sim_activate never leaves the
\* list, and sim_process_event never takes a unit off an empty one.
LEMMA TypeStep ==
  ASSUME TypeOK, ScanSound, DispatchSound, [Next]_vars
  PROVE  TypeOK'
<1>1. CASE Calling
  BY <1>1, CallingTyped
<1>2. CASE AlreadyActive
  BY <1>2 DEF AlreadyActive, TypeOK, Calls, qvars, cpuvars, hist
<1>3. CASE StartScan
  <2>1. call' \in Calls
    BY <1>3, CallTyped DEF StartScan, Calls
  <2> QED
    BY <1>3, <2>1, UpdateTyped DEF StartScan, TypeOK, cpuvars, hist
<1>4. CASE ScanOn
  <2>1. /\ call \in [op : {"scan"}, unit : UNITS, delay : Nat, more : BOOLEAN,
                     accum : Int, prv : Nat]
        /\ call.prv + 1 \in 1 .. Len(queue)
    BY <1>4, CallTyped DEF ScanOn, AtPlace, ScanSound
  <2>2. time[queue[call.prv + 1]] \in Int
    BY <2>1, TimeTyped DEF TypeOK
  <2> DEFINE t == time[queue[call.prv + 1]]
  <2>3. call' = [call EXCEPT !.accum = call.accum + t, !.prv = call.prv + 1]
    BY <1>4 DEF ScanOn
  <2>4. call.accum + t \in Int /\ call.prv + 1 \in Nat
    BY <2>1, <2>2
  <2> HIDE DEF t
  <2>5. call' \in Calls
    BY <2>1, <2>3, <2>4 DEF Calls
  <2> QED
    BY <1>4, <2>5 DEF ScanOn, TypeOK, qvars, cpuvars, hist
<1>5. CASE Link
  BY <1>5, LinkTyped
<1>6. CASE Execute
  BY <1>6, ElapsedTyped DEF Execute, TypeOK, Contexts
<1>7. CASE Idle
  BY <1>7, ElapsedTyped DEF Idle, TypeOK, Contexts, cpuvars
<1>8. CASE EndInstruction \/ StopRun
  BY <1>8 DEF EndInstruction, StopRun, TypeOK, Contexts, qvars, cpuvars, hist
<1>9. CASE Breakpoint
  BY <1>9, ElapsedTyped DEF Breakpoint, TypeOK, Contexts, cpuvars
<1>10. CASE StopRequest
  BY <1>10 DEF StopRequest, TypeOK, qvars, hist
<1>11. CASE ProcessStop
  BY <1>11 DEF ProcessStop, TypeOK, Contexts, qvars, hist
<1>12. CASE ProcessEmpty
  BY <1>12, TimeTyped DEF ProcessEmpty, TypeOK, cpuvars, hist
<1>13. CASE ProcessEvents
  BY <1>13, UpdateTyped DEF ProcessEvents, TypeOK, Contexts, cpuvars, hist
<1>14. CASE Dispatch
  BY <1>14, DispatchTyped DEF Dispatch, DispatchSound
<1>15. ASSUME NEW ok \in BOOLEAN, ActionReturn(ok)
       PROVE  TypeOK'
  <2>1. CASE ctx' = "dispatch" /\ UNCHANGED <<qvars, stop_cpu>>
    BY <1>15, <2>1 DEF ActionReturn, TypeOK, Contexts, qvars, hist
  <2>2. CASE /\ ctx' = IF ok /\ ~stop_cpu THEN "fetch" ELSE "stopped"
             /\ stop_cpu' = (stop_cpu /\ ~ok)
             /\ IF queue = <<>>
                THEN sim_interval' = NOQUEUE_WAIT /\ noqueue_time' = NOQUEUE_WAIT
                ELSE UNCHANGED <<sim_interval, noqueue_time>>
             /\ UNCHANGED <<queue, time, sim_rtime>>
    <3>1. ctx' \in Contexts /\ stop_cpu' \in BOOLEAN
      BY <2>2 DEF Contexts
    <3>2. sim_interval' \in Int /\ noqueue_time' \in Int
      BY <2>2 DEF TypeOK
    <3> QED
      BY <1>15, <2>2, <3>1, <3>2 DEF ActionReturn, TypeOK, hist
  <2> QED
    BY <1>15, <2>1, <2>2 DEF ActionReturn
<1>16. CASE sim_run_boot_prep
  <2>1. sim_rtime' \in 0 .. RtMod - 1
    <3>1. CASE queue = <<>>
      BY <1>16, <3>1 DEF sim_run_boot_prep
    <3>2. CASE queue # <<>>
      <4>1. time[Head(queue)] \in Int
        BY <3>2, TimeTyped DEF TypeOK
      <4>2. time[Head(queue)] % RtMod \in 0 .. RtMod - 1
        BY <4>1, ModRange
      <4> QED
        BY <1>16, <3>2, <4>2 DEF sim_run_boot_prep
    <3> QED
      BY <3>1, <3>2
  <2> QED
    BY <1>16, <2>1 DEF sim_run_boot_prep, TypeOK, cpuvars
<1>17. CASE StartRun
  <2>1. call' \in Calls
    BY <1>17, EnterTyped DEF StartRun, TypeOK
  <2> QED
    BY <1>17, <2>1 DEF StartRun, TypeOK, Contexts, qvars, hist
<1>18. CASE EndRun
  <2>1. CASE \E i \in 1 .. Len(queue) : queue[i] = StepUnit /\ UnlinkAt(i)
    BY <1>18, <2>1, UnlinkTyped DEF EndRun, TypeOK, Contexts, cpuvars
  <2>2. CASE UPDATE_SIM_TIME /\ UNCHANGED <<remnant, hist>>
    BY <1>18, <2>2, UpdateTyped DEF EndRun, TypeOK, Contexts, cpuvars, hist
  <2> QED
    BY <1>18, <2>1, <2>2 DEF EndRun
<1>19. CASE UNCHANGED vars
  BY <1>19 DEF vars, TypeOK, qvars, cpuvars, hist
<1> QED
  BY <1>1, <1>2, <1>3, <1>4, <1>5, <1>6, <1>7, <1>8, <1>9, <1>10, <1>11,
     <1>12, <1>13, <1>14, <1>15, <1>16, <1>17, <1>18, <1>19
     DEF Next, Activating, Processing
-----------------------------------------------------------------------------
(* The consistency of the list                                             *)

\* What the list, its times and the due times have to do with each other.
Consistent == TypeOK /\ QueueConsistent /\ LeftBounds

\* A unit is queued when and only when it is at some position of the list.
LEMMA QueuedAt ==
  ASSUME TypeOK
  PROVE  /\ Queued \subseteq UNITS
         /\ \A i \in 1 .. Len(queue) : queue[i] \in Queued
         /\ \A u \in Queued : \E i \in 1 .. Len(queue) : queue[i] = u
         /\ queue = <<>> <=> Len(queue) = 0
         /\ queue # <<>> => Head(queue) = queue[1]
         /\ Len(queue) \in Nat
  BY Members, LenProperties DEF TypeOK, Queued

\* UPDATE_SIM_TIME makes every time relative to the one before it, the first
\* one to the present.
LEMMA UpdatedIsRelative ==
  ASSUME Consistent
  PROVE  /\ queue # <<>> => UpdatedTime[queue[1]] = left[queue[1]]
         /\ \A i \in 2 .. Len(queue) :
              UpdatedTime[queue[i]] = left[queue[i]] - left[queue[i - 1]]
<1>1. queue # <<>> => /\ Head(queue) = queue[1] /\ queue[1] \in UNITS
                      /\ 1 \in 1 .. Len(queue)
  BY QueuedAt, TimeTyped DEF Consistent
<1>2. ASSUME queue # <<>>
      PROVE  UpdatedTime[queue[1]] = left[queue[1]]
  BY <1>1, <1>2 DEF Consistent, TypeOK, QueueConsistent, RelativeTimes, UpdatedTime
<1>3. ASSUME NEW i \in 2 .. Len(queue)
      PROVE  UpdatedTime[queue[i]] = left[queue[i]] - left[queue[i - 1]]
  <2>1. queue # <<>> /\ i \in 1 .. Len(queue) /\ i # 1
    BY <1>3, QueuedAt DEF Consistent
  <2>2. queue[i] # queue[1] /\ queue[i] \in UNITS
    BY <1>1, <2>1, TimeTyped DEF Consistent, QueueConsistent, NoDuplicates
  <2>3. UpdatedTime[queue[i]] = time[queue[i]]
    BY <1>1, <2>1, <2>2 DEF UpdatedTime, Consistent, TypeOK
  <2> QED
    BY <2>3 DEF Consistent, QueueConsistent, RelativeTimes
<1> QED
  BY <1>2, <1>3

\* UPDATE_SIM_TIME changes no due time, so a consistent list stays so.
LEMMA UpdateKeeps ==
  ASSUME Consistent, UPDATE_SIM_TIME, UNCHANGED left
  PROVE  /\ QueueConsistent' /\ LeftBounds'
         /\ queue # <<>> => time'[Head(queue)] = sim_interval
<1>1. queue' = queue /\ time' = UpdatedTime /\ sim_interval' = sim_interval /\ left' = left
  BY DEF UPDATE_SIM_TIME
<1>2. RelativeTimes'
  BY <1>1, UpdatedIsRelative DEF RelativeTimes, Consistent, QueueConsistent
<1>3. LeftBounds'
  BY <1>1 DEF LeftBounds, Consistent, Queued
<1>4. queue # <<>> => time'[Head(queue)] = sim_interval
  BY <1>1, TimeTyped DEF UpdatedTime, Consistent, TypeOK
<1> QED
  BY <1>1, <1>2, <1>3, <1>4
     DEF Consistent, QueueConsistent, NoDuplicates, ClockOrder

\* A list with one element removed: position j of the new one is position
\* At(j) of the old one, and the gap is between i - 1 and i.
LEMMA UnlinkedPositions ==
  ASSUME Consistent, NEW i \in 1 .. Len(queue), UnlinkAt(i),
         NEW j \in 1 .. Len(queue')
  PROVE  LET At(k) == IF k < i THEN k ELSE k + 1 IN
         /\ Len(queue') = Len(queue) - 1
         /\ At(j) \in 1 .. Len(queue) /\ At(j) # i
         /\ queue'[j] = queue[At(j)]
         /\ queue'[j] \in UNITS
         /\ queue'[j] # queue[i]
         /\ left'[queue'[j]] = left[queue[At(j)]]
<1> DEFINE a == IF j < i THEN j ELSE j + 1
<1>1. /\ Len(queue') = Len(queue) - 1
      /\ \A k \in 1 .. Len(queue) - 1 :
           queue'[k] = IF k < i THEN queue[k] ELSE queue[k + 1]
  BY RemoveAtIndex DEF UnlinkAt, Consistent, TypeOK
<1>2. Len(queue) \in Nat
  BY QueuedAt DEF Consistent
<1>3. a \in 1 .. Len(queue) /\ a # i
  BY <1>1, <1>2
<1>4. queue'[j] = queue[a]
  BY <1>1
<1>5. queue[a] \in UNITS /\ queue[a] # queue[i]
  BY <1>3, TimeTyped DEF Consistent, QueueConsistent, NoDuplicates
<1>6. left'[queue[a]] = left[queue[a]]
  BY <1>5 DEF UnlinkAt, Consistent, TypeOK
<1> HIDE DEF a
<1>7. left'[queue'[j]] = left[queue[a]] /\ queue'[j] \in UNITS /\ queue'[j] # queue[i]
  BY <1>4, <1>5, <1>6
<1> QED
  BY <1>1, <1>3, <1>4, <1>7 DEF a

\* sim_cancel keeps the list consistent: the time of the unit it removes goes
\* to the successor, and sim_interval follows a new head.
LEMMA UnlinkKeeps ==
  ASSUME Consistent, NEW i \in 1 .. Len(queue), UnlinkAt(i)
  PROVE  QueueConsistent' /\ LeftBounds'
<1> DEFINE At(k) == IF k < i THEN k ELSE k + 1
<1>0. /\ Len(queue) \in Nat /\ Len(queue') = Len(queue) - 1
      /\ queue' \in Seq(UNITS) /\ queue # <<>>
  <2>1. Len(queue') = Len(queue) - 1 /\ queue' \in Seq(UNITS)
    BY RemoveAtIndex DEF UnlinkAt, Consistent, TypeOK
  <2>2. Len(queue) \in Nat /\ queue # <<>>
    BY QueuedAt DEF Consistent
  <2> QED
    BY <2>1, <2>2
<1>1. ASSUME NEW j \in 1 .. Len(queue')
      PROVE  /\ At(j) \in 1 .. Len(queue) /\ At(j) # i
             /\ queue'[j] = queue[At(j)] /\ queue'[j] \in UNITS
             /\ queue'[j] # queue[i]
             /\ left'[queue'[j]] = left[queue[At(j)]]
  BY UnlinkedPositions
<1>2. NoDuplicates'
  <2> SUFFICES ASSUME NEW j \in 1 .. Len(queue'), NEW k \in 1 .. Len(queue'),
                      queue'[j] = queue'[k]
               PROVE  j = k
    BY DEF NoDuplicates
  <2>1. At(j) = At(k)
    BY <1>1 DEF Consistent, QueueConsistent, NoDuplicates
  <2> QED
    BY <1>0, <2>1
<1>3. ClockOrder'
  <2> SUFFICES ASSUME NEW j \in 1 .. Len(queue'), NEW k \in 1 .. Len(queue'), j <= k
               PROVE  left'[queue'[j]] <= left'[queue'[k]]
    BY DEF ClockOrder
  <2>1. At(j) <= At(k)
    BY <1>0
  <2>2. left[queue[At(j)]] <= left[queue[At(k)]]
    BY <1>1, <2>1 DEF Consistent, QueueConsistent, ClockOrder
  <2> QED
    BY <1>1, <2>2
<1>4. ASSUME NEW j \in 1 .. Len(queue')
      PROVE  time'[queue'[j]] =
               IF j = 1 THEN left'[queue'[1]]
               ELSE left'[queue'[j]] - left'[queue'[j - 1]]
  <2> DEFINE a == At(j)
  <2>1. time'[queue[a]] =
          IF i < Len(queue) /\ queue[a] = queue[i + 1]
          THEN UpdatedTime[queue[a]] + UpdatedTime[queue[i]]
          ELSE UpdatedTime[queue[a]]
    BY <1>1, TimeTyped DEF UnlinkAt, Consistent
  <2>2. i < Len(queue) => (queue[a] = queue[i + 1] <=> a = i + 1)
    BY <1>0, <1>1 DEF Consistent, QueueConsistent, NoDuplicates
  <2>3. /\ left \in [UNITS -> Int] /\ queue[a] \in UNITS /\ queue[i] \in UNITS
        /\ a - 1 \in 1 .. Len(queue) => queue[a - 1] \in UNITS
        /\ i - 1 \in 1 .. Len(queue) => queue[i - 1] \in UNITS
    BY <1>1, TimeTyped DEF Consistent, TypeOK
  <2>4. CASE a = i + 1
    <3>1. j = i /\ i < Len(queue)
      BY <1>0, <1>1, <2>4
    <3>2. time'[queue[a]] = UpdatedTime[queue[a]] + UpdatedTime[queue[i]]
      BY <2>1, <2>2, <2>4, <3>1
    <3>3. UpdatedTime[queue[a]] = left[queue[a]] - left[queue[i]]
      <4>1. a \in 2 .. Len(queue) /\ a - 1 = i
        BY <1>1, <2>4
      <4> QED
        BY <4>1, UpdatedIsRelative
    <3>4. CASE i = 1
      <4>1. UpdatedTime[queue[i]] = left[queue[i]]
        BY <1>0, <3>4, UpdatedIsRelative
      <4>2. left[queue[a]] \in Int /\ left[queue[i]] \in Int
        BY <2>3
      <4>3. time'[queue[a]] = left[queue[a]]
        BY <3>2, <3>3, <4>1, <4>2
      <4> QED
        BY <1>1, <3>1, <3>4, <4>3
    <3>5. CASE i # 1
      <4>1. i \in 2 .. Len(queue) /\ i - 1 \in 1 .. Len(queue') /\ i - 1 < i
        BY <1>0, <3>1, <3>5
      <4>2. UpdatedTime[queue[i]] = left[queue[i]] - left[queue[i - 1]]
        BY <4>1, UpdatedIsRelative
      <4>3. left'[queue'[i - 1]] = left[queue[i - 1]]
        BY <1>1, <4>1
      <4>4. left[queue[a]] \in Int /\ left[queue[i]] \in Int /\ left[queue[i - 1]] \in Int
        BY <1>0, <2>3, <4>1
      <4>5. time'[queue[a]] = left[queue[a]] - left[queue[i - 1]]
        BY <3>2, <3>3, <4>2, <4>4
      <4> QED
        BY <1>1, <3>1, <3>5, <4>3, <4>5
    <3> QED
      BY <3>4, <3>5
  <2>5. CASE a # i + 1
    <3>1. time'[queue[a]] = UpdatedTime[queue[a]]
      BY <2>1, <2>2, <2>5
    <3>2. CASE j = 1
      <4>1. a = 1
        BY <1>0, <2>5, <3>2
      <4> QED
        BY <1>0, <1>1, <3>1, <3>2, <4>1, UpdatedIsRelative
    <3>3. CASE j # 1
      <4>1. /\ a \in 2 .. Len(queue) /\ j - 1 \in 1 .. Len(queue')
            /\ At(j - 1) = a - 1
        BY <1>0, <1>1, <2>5, <3>3
      <4>2. left'[queue'[j - 1]] = left[queue[a - 1]]
        BY <1>1, <4>1
      <4>3. UpdatedTime[queue[a]] = left[queue[a]] - left[queue[a - 1]]
        BY <4>1, UpdatedIsRelative
      <4> QED
        BY <1>1, <3>1, <3>3, <4>2, <4>3
    <3> QED
      BY <3>2, <3>3
  <2> QED
    BY <2>4, <2>5
<1>5. RelativeTimes'
  <2>1. \A k \in 2 .. Len(queue') : k \in 1 .. Len(queue') /\ k # 1
    BY <1>0
  <2>2. ASSUME queue' # <<>>
        PROVE  sim_interval' = left'[Head(queue')]
    <3>1. 1 \in 1 .. Len(queue') /\ Head(queue') = queue'[1]
      BY <1>0, <2>2, Members
    <3>2. sim_interval' = time'[Head(queue')]
      BY <2>2 DEF UnlinkAt, Rearm
    <3> QED
      BY <1>4, <3>1, <3>2
  <2> QED
    BY <1>4, <2>1, <2>2 DEF RelativeTimes
<1>6. LeftBounds'
  <2> SUFFICES ASSUME NEW u \in UNITS
               PROVE  left'[u] >= 0 /\ (u \notin Queued' => left'[u] = 0)
    BY DEF LeftBounds
  <2>1. CASE u = queue[i]
    BY <2>1 DEF UnlinkAt, Consistent, TypeOK
  <2>2. CASE u # queue[i]
    <3>1. left'[u] = left[u]
      BY <2>2 DEF UnlinkAt, Consistent, TypeOK
    <3>2. ASSUME u \in Queued
          PROVE  u \in Queued'
      <4>1. PICK k \in 1 .. Len(queue) : queue[k] = u
        BY <3>2, QueuedAt DEF Consistent
      <4> DEFINE j == IF k < i THEN k ELSE k - 1
      <4>2. k # i
        BY <2>2, <4>1
      <4>3. j \in 1 .. Len(queue') /\ At(j) = k
        BY <1>0, <4>2
      <4>4. queue'[j] = u
        BY <1>1, <4>1, <4>3
      <4> QED
        BY <1>0, <4>3, <4>4, Members DEF Queued
    <3> QED
      BY <3>1, <3>2 DEF Consistent, LeftBounds
  <2> QED
    BY <2>1, <2>2
<1> QED
  BY <1>2, <1>3, <1>5, <1>6 DEF QueueConsistent

\* sim_cancel keeps the list consistent, whether or not the unit is queued.
LEMMA CancelKeeps ==
  ASSUME Consistent, NEW u \in UNITS, CancelUnit(u)
  PROVE  QueueConsistent' /\ LeftBounds'
<1>1. CASE \E i \in 1 .. Len(queue) : queue[i] = u /\ UnlinkAt(i)
  BY <1>1, UnlinkKeeps
<1>2. CASE UPDATE_SIM_TIME /\ UNCHANGED <<remnant, hist>>
  BY <1>2, UpdateKeeps DEF hist
<1>3. CASE UNCHANGED <<qvars, remnant, hist>>
  BY <1>3 DEF qvars, hist, Consistent, QueueConsistent, NoDuplicates,
              ClockOrder, RelativeTimes, LeftBounds, Queued
<1> QED
  BY <1>1, <1>2, <1>3 DEF CancelUnit

-----------------------------------------------------------------------------
(* _sim_activate *)

\* What the scan compares the delay with is when the next element is due.
LEMMA NextDue ==
  ASSUME Consistent, ScanSound, call.op = "scan", call.prv < Len(queue)
  PROVE  call.accum + time[queue[call.prv + 1]] = left[queue[call.prv + 1]]
<1> DEFINE p == call.prv
<1>1. p \in 0 .. Len(queue) /\ Len(queue) \in Nat
  BY QueuedAt DEF Consistent, ScanSound
<1>2. p + 1 \in 1 .. Len(queue) /\ queue[p + 1] \in UNITS
  BY <1>1, TimeTyped DEF Consistent
<1>3. CASE p = 0
  <2>1. queue # <<>> /\ Head(queue) = queue[1]
    BY <1>1, <1>3, QueuedAt DEF Consistent
  <2>2. call.accum = 0 /\ time[queue[1]] = left[queue[1]]
    BY <1>3, <2>1 DEF ScanSound, Consistent, QueueConsistent, RelativeTimes
  <2>3. left[queue[1]] \in Int
    BY <1>2, <1>3 DEF Consistent, TypeOK
  <2> QED
    BY <1>3, <2>2, <2>3
<1>4. CASE p # 0
  <2>1. p + 1 \in 2 .. Len(queue) /\ (p + 1) - 1 = p /\ p \in 1 .. Len(queue)
    BY <1>1, <1>2, <1>4
  <2>2. call.accum = left[queue[p]]
    BY <1>4 DEF ScanSound
  <2>3. time[queue[p + 1]] = left[queue[p + 1]] - left[queue[p]]
    BY <2>1 DEF Consistent, QueueConsistent, RelativeTimes
  <2>4. left[queue[p + 1]] \in Int /\ left[queue[p]] \in Int
    BY <1>2, <2>1, TimeTyped DEF Consistent, TypeOK
  <2> QED
    BY <2>2, <2>3, <2>4
<1> QED
  BY <1>3, <1>4

\* Where the scan stops, every unit before is due no later than the new one
\* and every unit after is due later.
LEMMA PlaceFound ==
  ASSUME Consistent, ScanSound, call.op = "scan", AtPlace
  PROVE  /\ call \in [op : {"scan"}, unit : UNITS, delay : Nat, more : BOOLEAN,
                      accum : Int, prv : Nat]
         /\ call.prv \in 0 .. Len(queue)
         /\ \A i \in 1 .. call.prv : left[queue[i]] <= call.delay
         /\ \A i \in call.prv + 1 .. Len(queue) : call.delay < left[queue[i]]
<1> DEFINE p == call.prv
<1>1. /\ call \in [op : {"scan"}, unit : UNITS, delay : Nat, more : BOOLEAN,
                   accum : Int, prv : Nat]
      /\ p \in 0 .. Len(queue) /\ Len(queue) \in Nat
      /\ \A i \in 1 .. p : left[queue[i]] <= call.delay
  BY CallTyped, QueuedAt DEF Consistent, ScanSound
<1>2. ASSUME p < Len(queue)
      PROVE  call.delay < left[queue[p + 1]]
  <2>1. call.delay < call.accum + time[queue[p + 1]]
    BY <1>2 DEF AtPlace
  <2>2. p + 1 \in 1 .. Len(queue) /\ queue[p + 1] \in UNITS
    BY <1>1, <1>2, TimeTyped DEF Consistent
  <2>3. call.accum + time[queue[p + 1]] = left[queue[p + 1]]
    BY <1>2, NextDue
  <2> QED
    BY <2>1, <2>3
<1>3. ASSUME NEW i \in p + 1 .. Len(queue)
      PROVE  call.delay < left[queue[i]]
  <2>1. p < Len(queue) /\ p + 1 \in 1 .. Len(queue) /\ i \in 1 .. Len(queue) /\ p + 1 <= i
    BY <1>1
  <2>2. left[queue[p + 1]] <= left[queue[i]]
    BY <2>1 DEF Consistent, QueueConsistent, ClockOrder
  <2>3. left[queue[p + 1]] \in Int /\ left[queue[i]] \in Int /\ call.delay \in Nat
    BY <1>1, <2>1, TimeTyped DEF Consistent, TypeOK
  <2> QED
    BY <1>2, <2>1, <2>2, <2>3
<1> QED
  BY <1>1, <1>3

\* The list after Link: the new unit at p + 1, the others around it.
LEMMA LinkedPositions ==
  ASSUME Consistent, ScanSound, Link
  PROVE  LET u == call.unit
             p == call.prv IN
         /\ u \in UNITS /\ u \notin Queued /\ p \in 0 .. Len(queue) /\ call.delay \in Nat
         /\ queue' \in Seq(UNITS) /\ Len(queue') = Len(queue) + 1 /\ Len(queue) \in Nat
         /\ queue'[p + 1] = u /\ left'[u] = call.delay
         /\ \A j \in 1 .. p : queue'[j] = queue[j]
         /\ \A j \in p + 2 .. Len(queue) + 1 : queue'[j] = queue[j - 1]
         /\ \A v \in UNITS \ {u} : left'[v] = left[v]
         /\ \A j \in 1 .. Len(queue) :
              queue[j] \in UNITS \ {u} /\ left'[queue[j]] = left[queue[j]]
<1> DEFINE u == call.unit
           p == call.prv
<1>1. u \in UNITS /\ call.delay \in Nat /\ p \in 0 .. Len(queue)
  BY PlaceFound DEF Link
<1>2. u \notin Queued /\ Len(queue) \in Nat /\ queue \in Seq(UNITS) /\ p + 1 \in 1 .. Len(queue) + 1
  <2>1. Len(queue) \in Nat /\ queue \in Seq(UNITS)
    BY QueuedAt DEF Consistent, TypeOK
  <2>2. u \notin Queued
    BY DEF Link, ScanSound
  <2>3. p + 1 \in 1 .. Len(queue) + 1
    BY <1>1, <2>1
  <2> QED
    BY <2>1, <2>2, <2>3
<1>3. queue' = InsertAt(queue, p + 1, u)
  BY DEF Link
<1>4. /\ queue' \in Seq(UNITS) /\ Len(queue') = Len(queue) + 1
      /\ \A j \in 1 .. Len(queue) + 1 :
           queue'[j] = IF j < p + 1 THEN queue[j]
                       ELSE IF j = p + 1 THEN u ELSE queue[j - 1]
  <2> DEFINE i == p + 1
  <2>1. u \in UNITS /\ queue \in Seq(UNITS) /\ i \in 1 .. Len(queue) + 1
    BY <1>1, <1>2
  <2>2. queue' = InsertAt(queue, i, u)
    BY <1>3
  <2> HIDE DEF i, u
  <2>i. /\ InsertAt(queue, i, u) \in Seq(UNITS)
        /\ Len(InsertAt(queue, i, u)) = Len(queue) + 1
        /\ \A j \in 1 .. Len(queue) + 1 :
             InsertAt(queue, i, u)[j] =
               IF j < i THEN queue[j] ELSE IF j = i THEN u ELSE queue[j - 1]
    BY ONLY <2>1, InsertAtIndex, SMTT(60)
  <2>3. /\ queue' \in Seq(UNITS) /\ Len(queue') = Len(queue) + 1
        /\ \A j \in 1 .. Len(queue) + 1 :
             queue'[j] = IF j < i THEN queue[j] ELSE IF j = i THEN u ELSE queue[j - 1]
    BY ONLY <2>2, <2>i, Zenon
  <2> QED
    BY <2>3 DEF i
<1>5. left'[u] = call.delay /\ \A v \in UNITS \ {u} : left'[v] = left[v]
  BY <1>1 DEF Link, Consistent, TypeOK
<1>6. \A j \in 1 .. Len(queue) : queue[j] \in UNITS \ {u} /\ left'[queue[j]] = left[queue[j]]
  BY <1>2, <1>5, QueuedAt DEF Consistent
<1>7. queue'[p + 1] = u
  BY <1>2, <1>4
<1>8. \A j \in 1 .. p : queue'[j] = queue[j]
  BY <1>1, <1>2, <1>4
<1>9. \A j \in p + 2 .. Len(queue) + 1 : queue'[j] = queue[j - 1]
  BY <1>1, <1>2, <1>4
<1> QED
  BY <1>1, <1>2, <1>4, <1>5, <1>6, <1>7, <1>8, <1>9

\* _sim_activate keeps the list consistent: the new unit comes after those due
\* no later than it, and the unit behind it waits for the difference.
LEMMA LinkKeeps ==
  ASSUME Consistent, ScanSound, Link
  PROVE  QueueConsistent' /\ LeftBounds'
<1> DEFINE u == call.unit
           p == call.prv
           n == Len(queue)
           Old(j) == IF j <= p THEN j ELSE j - 1
<1>1. /\ u \in UNITS /\ u \notin Queued /\ p \in 0 .. n /\ call.delay \in Nat
      /\ queue' \in Seq(UNITS) /\ Len(queue') = n + 1 /\ n \in Nat
      /\ queue'[p + 1] = u /\ left'[u] = call.delay
      /\ \A j \in 1 .. p : queue'[j] = queue[j]
      /\ \A j \in p + 2 .. n + 1 : queue'[j] = queue[j - 1]
      /\ \A v \in UNITS \ {u} : left'[v] = left[v]
      /\ \A j \in 1 .. n : queue[j] \in UNITS \ {u} /\ left'[queue[j]] = left[queue[j]]
  BY LinkedPositions
<1>2. ASSUME NEW j \in 1 .. n + 1, j # p + 1
      PROVE  /\ Old(j) \in 1 .. n /\ queue'[j] = queue[Old(j)]
             /\ left'[queue'[j]] = left[queue[Old(j)]]
             /\ queue'[j] # u /\ left[queue[Old(j)]] \in Int
  <2>1. Old(j) \in 1 .. n
    BY <1>1, <1>2
  <2>2. CASE j <= p
    <3>1. j \in 1 .. p /\ Old(j) = j
      BY <1>1, <2>2
    <3> QED
      BY <1>1, <2>1, <3>1 DEF Consistent, TypeOK
  <2>3. CASE ~(j <= p)
    <3>1. j \in p + 2 .. n + 1 /\ Old(j) = j - 1
      BY <1>1, <1>2, <2>3
    <3>2. queue'[j] = queue[Old(j)]
      BY <1>1, <3>1
    <3> HIDE DEF Old
    <3> QED
      BY <1>1, <2>1, <3>2 DEF Consistent, TypeOK
  <2> QED
    BY <2>2, <2>3
<1>3. /\ \A j \in 1 .. p : left[queue[j]] <= call.delay
      /\ \A j \in p + 1 .. n : call.delay < left[queue[j]]
  BY PlaceFound DEF Link
<1>4. NoDuplicates'
  <2> SUFFICES ASSUME NEW j \in 1 .. n + 1, NEW k \in 1 .. n + 1, queue'[j] = queue'[k]
               PROVE  j = k
    BY <1>1 DEF NoDuplicates
  <2>1. CASE j = p + 1 \/ k = p + 1
    BY <1>1, <1>2, <2>1
  <2>2. CASE j # p + 1 /\ k # p + 1
    <3>1. Old(j) = Old(k)
      BY <1>2, <2>2 DEF Consistent, QueueConsistent, NoDuplicates
    <3> QED
      BY <1>1, <2>2, <3>1
  <2> QED
    BY <2>1, <2>2
<1>5. ClockOrder'
  <2> SUFFICES ASSUME NEW j \in 1 .. n + 1, NEW k \in 1 .. n + 1, j <= k
               PROVE  left'[queue'[j]] <= left'[queue'[k]]
    BY <1>1 DEF ClockOrder
  <2>1. CASE j # p + 1 /\ k # p + 1
    <3>1. Old(j) <= Old(k)
      BY <1>1, <2>1
    <3> QED
      BY <1>2, <2>1, <3>1 DEF Consistent, QueueConsistent, ClockOrder
  <2>2. CASE j = p + 1 /\ k # p + 1
    <3>1. Old(k) \in p + 1 .. n
      BY <1>1, <1>2, <2>2
    <3>2. call.delay < left[queue[Old(k)]]
      BY <1>3, <3>1
    <3>3. left'[queue'[k]] = left[queue[Old(k)]] /\ left[queue[Old(k)]] \in Int
      BY <1>2, <2>2
    <3>4. left'[queue'[j]] = call.delay
      BY <1>1, <2>2
    <3> HIDE DEF Old
    <3> QED
      BY <1>1, <3>2, <3>3, <3>4
  <2>3. CASE j # p + 1 /\ k = p + 1
    <3>1. Old(j) \in 1 .. p
      BY <1>1, <1>2, <2>3
    <3> QED
      BY <1>1, <1>2, <1>3, <2>3, <3>1
  <2>4. CASE j = p + 1 /\ k = p + 1
    BY <1>1, <2>4
  <2> QED
    BY <2>1, <2>2, <2>3, <2>4
<1>6. /\ \A v \in UNITS :
           time'[v] = IF v = u THEN call.delay - call.accum
                      ELSE IF p < n /\ v = queue[p + 1]
                           THEN time[v] - (call.delay - call.accum)
                           ELSE time[v]
      /\ call.accum \in Int
      /\ call.accum = IF p = 0 THEN 0 ELSE left[queue[p]]
  BY PlaceFound DEF Link, ScanSound
<1>7. /\ n > 0 => time[queue[1]] = left[queue[1]]
      /\ \A j \in 2 .. n : time[queue[j]] = left[queue[j]] - left[queue[j - 1]]
  BY QueuedAt DEF Link, ScanSound, Consistent, QueueConsistent, RelativeTimes
<1>8. ASSUME NEW j \in 1 .. n + 1
      PROVE  time'[queue'[j]] =
               IF j = 1 THEN left'[queue'[1]]
               ELSE left'[queue'[j]] - left'[queue'[j - 1]]
  <2>1. CASE j = p + 1
    <3>1. time'[queue'[j]] = call.delay - call.accum
      BY <1>1, <1>6, <2>1
    <3>2. CASE p = 0
      BY <1>1, <1>6, <2>1, <3>1, <3>2
    <3>3. CASE p # 0
      <4>1. j - 1 = p /\ p \in 1 .. n + 1 /\ p # p + 1 /\ p \in 1 .. p /\ j # 1
        BY <1>1, <2>1, <3>3
      <4>2. left'[queue'[p]] = left[queue[p]]
        BY <1>2, <4>1
      <4> QED
        BY <1>1, <1>6, <2>1, <3>1, <3>3, <4>1, <4>2
    <3> QED
      BY <3>2, <3>3
  <2>2. CASE j = p + 2
    <3> DEFINE v == queue[p + 1]
    <3>1. /\ p < n /\ p + 1 \in 1 .. n /\ j \in p + 2 .. n + 1 /\ j - 1 = p + 1 /\ j # 1
          /\ j # p + 1
      BY <1>1, <2>2
    <3>2. queue'[j] = v /\ v \in UNITS \ {u} /\ left'[v] = left[v] /\ left[v] \in Int
      <4>1. Old(j) = p + 1
        BY <1>1, <2>2, <3>1
      <4>2. queue'[j] = v /\ left[v] \in Int
        BY <1>2, <3>1, <4>1
      <4>3. v \in UNITS \ {u} /\ left'[v] = left[v]
        BY <1>1, <3>1
      <4> QED
        BY <4>2, <4>3
    <3>3. time'[v] = time[v] - (call.delay - call.accum)
      BY <1>6, <3>1, <3>2
    <3>4. time[v] = left[v] - call.accum
      <4>1. CASE p = 0
        BY <1>6, <1>7, <3>1, <3>2, <4>1
      <4>2. CASE p # 0
        <5>1. p + 1 \in 2 .. n /\ (p + 1) - 1 = p
          BY <1>1, <3>1, <4>2
        <5> QED
          BY <1>6, <1>7, <4>2, <5>1
      <4> QED
        BY <4>1, <4>2
    <3> HIDE DEF v
    <3>5. time'[v] = left[v] - call.delay
      BY <1>1, <1>6, <3>2, <3>3, <3>4
    <3>6. left'[queue'[j - 1]] = call.delay
      BY <1>1, <3>1
    <3> QED
      BY <3>1, <3>2, <3>5, <3>6
  <2>3. CASE j # p + 1 /\ j # p + 2
    <3> DEFINE v == queue[Old(j)]
    <3>1. Old(j) \in 1 .. n /\ Old(j) # p + 1 /\ queue'[j] = v /\ left'[queue'[j]] = left[v]
      BY <1>1, <1>2, <2>3
    <3>2. v \in UNITS \ {u} /\ (p < n => v # queue[p + 1])
      BY <1>1, <3>1 DEF Consistent, QueueConsistent, NoDuplicates
    <3>3. time'[v] = time[v]
      BY <1>6, <3>2
    <3>4. CASE j = 1
      <4>1. Old(j) = 1 /\ n > 0
        BY <1>1, <2>3, <3>4
      <4> QED
        BY <1>7, <3>1, <3>3, <3>4, <4>1
    <3>5. CASE j # 1
      <4>1. j - 1 \in 1 .. n + 1 /\ j - 1 # p + 1 /\ Old(j - 1) = Old(j) - 1 /\ Old(j) \in 2 .. n
        BY <1>1, <2>3, <3>1, <3>5
      <4>2. left'[queue'[j - 1]] = left[queue[Old(j - 1)]]
        BY <1>2, <4>1
      <4>3. time[v] = left[v] - left[queue[Old(j) - 1]]
        BY <1>7, <4>1
      <4>4. left[queue[Old(j) - 1]] = left[queue[Old(j - 1)]]
        BY <4>1
      <4> HIDE DEF Old, v
      <4> QED
        BY <3>1, <3>3, <3>5, <4>2, <4>3, <4>4
    <3> QED
      BY <3>4, <3>5
  <2> QED
    BY <2>1, <2>2, <2>3
<1>9. RelativeTimes'
  <2>1. queue' # <<>> /\ Head(queue') = queue'[1] /\ 1 \in 1 .. n + 1
    BY <1>1, Members
  <2>2. sim_interval' = time'[queue'[1]]
    BY <2>1 DEF Link
  <2>3. \A j \in 2 .. n + 1 : j \in 1 .. n + 1 /\ j # 1
    BY <1>1
  <2> QED
    BY <1>1, <1>8, <2>1, <2>2, <2>3 DEF RelativeTimes
<1>10. LeftBounds'
  <2> SUFFICES ASSUME NEW v \in UNITS
               PROVE  left'[v] >= 0 /\ (v \notin Queued' => left'[v] = 0)
    BY DEF LeftBounds
  <2>1. CASE v = u
    <3>1. p + 1 \in 1 .. Len(queue')
      BY <1>1
    <3>2. u \in Queued'
      BY <1>1, <3>1, Members DEF Queued
    <3> QED
      BY <1>1, <2>1, <3>2
  <2>2. CASE v # u
    <3>1. left'[v] = left[v]
      BY <1>1, <2>2
    <3>2. ASSUME v \in Queued
          PROVE  v \in Queued'
      <4>1. PICK k \in 1 .. n : queue[k] = v
        BY <3>2, QueuedAt DEF Consistent
      <4> DEFINE j == IF k <= p THEN k ELSE k + 1
      <4>2. j \in 1 .. n + 1 /\ j # p + 1 /\ Old(j) = k
        BY <1>1
      <4>3. queue'[j] = v
        BY <1>2, <4>1, <4>2
      <4> QED
        BY <1>1, <4>2, <4>3, Members DEF Queued
    <3> QED
      BY <3>1, <3>2 DEF Consistent, LeftBounds
  <2> QED
    BY <2>1, <2>2
<1> QED
  BY <1>4, <1>5, <1>9, <1>10 DEF QueueConsistent

-----------------------------------------------------------------------------
(* Time passes, and sim_process_event takes the first unit                 *)

\* Counting sim_interval down by no more than it holds, or back up, moves
\* every queued unit by the same amount.
LEMMA ElapsedKeeps ==
  ASSUME Consistent, NEW n \in Int, Elapsed(n), n <= sim_interval \/ n <= 0,
         queue' = queue, time' = time, sim_interval' = sim_interval - n
  PROVE  QueueConsistent' /\ LeftBounds'
<1>1. \A u \in UNITS : left'[u] = IF u \in Queued THEN left[u] - n ELSE left[u]
  BY DEF Elapsed
<1>2. \A i \in 1 .. Len(queue) :
        /\ queue[i] \in UNITS /\ left[queue[i]] \in Int
        /\ left'[queue[i]] = left[queue[i]] - n
  BY <1>1, QueuedAt DEF Consistent, TypeOK
<1>3. NoDuplicates'
  BY DEF NoDuplicates, Consistent, QueueConsistent
<1>4. ClockOrder'
  BY <1>2 DEF ClockOrder, Consistent, QueueConsistent
<1>5. RelativeTimes'
  <2>1. queue # <<>> => Head(queue) = queue[1] /\ 1 \in 1 .. Len(queue)
    BY QueuedAt DEF Consistent
  <2>2. queue # <<>> => sim_interval' = left'[Head(queue)]
    BY <1>2, <2>1 DEF Consistent, QueueConsistent, RelativeTimes
  <2>3. ASSUME NEW i \in 2 .. Len(queue)
        PROVE  time[queue[i]] = left'[queue[i]] - left'[queue[i - 1]]
    <3>1. i \in 1 .. Len(queue) /\ i - 1 \in 1 .. Len(queue)
      BY QueuedAt DEF Consistent
    <3>2. time[queue[i]] = left[queue[i]] - left[queue[i - 1]]
      BY DEF Consistent, QueueConsistent, RelativeTimes
    <3>3. /\ left[queue[i]] \in Int /\ left'[queue[i]] = left[queue[i]] - n
          /\ left[queue[i - 1]] \in Int /\ left'[queue[i - 1]] = left[queue[i - 1]] - n
      BY <1>2, <3>1
    <3> QED
      BY <3>2, <3>3
  <2> QED
    BY <2>2, <2>3 DEF RelativeTimes
<1>6. LeftBounds'
  <2> SUFFICES ASSUME NEW u \in UNITS
               PROVE  left'[u] >= 0 /\ (u \notin Queued => left'[u] = 0)
    BY DEF LeftBounds, Queued
  <2>1. CASE u \notin Queued
    BY <1>1, <2>1 DEF Consistent, LeftBounds
  <2>2. CASE u \in Queued
    <3>1. PICK i \in 1 .. Len(queue) : queue[i] = u
      BY <2>2, QueuedAt DEF Consistent
    <3>2. /\ 1 \in 1 .. Len(queue) /\ 1 <= i /\ queue # <<>>
          /\ Head(queue) = queue[1]
      BY QueuedAt DEF Consistent
    <3>3. left[queue[1]] <= left[u] /\ sim_interval = left[queue[1]]
      BY <3>1, <3>2 DEF Consistent, QueueConsistent, ClockOrder, RelativeTimes
    <3>4. left[u] >= 0 /\ left[u] \in Int /\ sim_interval \in Int
      BY DEF Consistent, LeftBounds, TypeOK
    <3> QED
      BY <1>1, <2>2, <3>3, <3>4
  <2> QED
    BY <2>1, <2>2
<1> QED
  BY <1>3, <1>4, <1>5, <1>6 DEF QueueConsistent

\* sim_process_event takes off a unit that is due: the others' due times stay.
LEMMA DispatchKeeps ==
  ASSUME Consistent, DispatchSound, Dispatch
  PROVE  QueueConsistent' /\ LeftBounds'
<1> DEFINE h == Head(queue)
<1>1. /\ queue # <<>> /\ left[h] = 0 /\ h = queue[1] /\ Len(queue) \in Nat
      /\ 1 \in 1 .. Len(queue) /\ h \in UNITS
  BY QueuedAt, TimeTyped DEF Dispatch, DispatchSound, Consistent
<1>2. /\ queue' \in Seq(UNITS) /\ Len(queue') = Len(queue) - 1
      /\ \A j \in 1 .. Len(queue') : queue'[j] = queue[j + 1]
  BY <1>1, TailIndex DEF Dispatch, Consistent, TypeOK
<1>3. ASSUME NEW j \in 1 .. Len(queue')
      PROVE  /\ j + 1 \in 2 .. Len(queue) /\ j + 1 \in 1 .. Len(queue)
             /\ queue'[j] = queue[j + 1] /\ queue'[j] # h /\ queue'[j] \in UNITS
             /\ time'[queue'[j]] = left[queue[j + 1]] - left[queue[j]]
  <2>1. j + 1 \in 2 .. Len(queue) /\ j + 1 \in 1 .. Len(queue) /\ j + 1 # 1
        /\ (j + 1) - 1 = j
    BY <1>1, <1>2
  <2>2. queue[j + 1] # h /\ queue[j + 1] \in UNITS
    BY <1>1, <2>1, TimeTyped DEF Consistent, QueueConsistent, NoDuplicates
  <2>3. time'[queue[j + 1]] = time[queue[j + 1]]
    BY <2>2 DEF Dispatch, Consistent, TypeOK
  <2>4. time[queue[j + 1]] = left[queue[j + 1]] - left[queue[j]]
    BY <2>1 DEF Consistent, QueueConsistent, RelativeTimes
  <2> QED
    BY <1>2, <2>1, <2>2, <2>3, <2>4
<1>4. left' = left
  BY DEF Dispatch, hist
<1>5. NoDuplicates'
  <2> SUFFICES ASSUME NEW j \in 1 .. Len(queue'), NEW k \in 1 .. Len(queue'),
                      queue'[j] = queue'[k]
               PROVE  j = k
    BY DEF NoDuplicates
  <2>1. j + 1 = k + 1
    BY <1>3 DEF Consistent, QueueConsistent, NoDuplicates
  <2> QED
    BY <2>1
<1>6. ClockOrder'
  <2> SUFFICES ASSUME NEW j \in 1 .. Len(queue'), NEW k \in 1 .. Len(queue'), j <= k
               PROVE  left[queue'[j]] <= left[queue'[k]]
    BY <1>4 DEF ClockOrder
  <2>1. j + 1 <= k + 1
    OBVIOUS
  <2> QED
    BY <1>3, <2>1 DEF Consistent, QueueConsistent, ClockOrder
<1>7. RelativeTimes'
  <2>1. ASSUME queue' # <<>>
        PROVE  sim_interval' = left'[Head(queue')]
    <3>1. 1 \in 1 .. Len(queue') /\ Head(queue') = queue'[1]
      BY <1>2, <2>1, Members
    <3>2. sim_interval' = time'[queue'[1]]
      BY <2>1, <3>1 DEF Dispatch, Rearm
    <3>3. time'[queue'[1]] = left[queue[2]] - left[queue[1]] /\ queue'[1] = queue[2]
      BY <1>3, <3>1
    <3>4. left[queue[2]] \in Int
      BY <1>3, <3>1 DEF Consistent, TypeOK
    <3> QED
      BY <1>1, <1>4, <3>1, <3>2, <3>3, <3>4
  <2>2. ASSUME NEW j \in 2 .. Len(queue')
        PROVE  time'[queue'[j]] = left'[queue'[j]] - left'[queue'[j - 1]]
    <3>1. j \in 1 .. Len(queue') /\ j - 1 \in 1 .. Len(queue') /\ (j - 1) + 1 = j
      BY <1>1, <1>2
    <3> QED
      BY <1>3, <1>4, <3>1
  <2> QED
    BY <2>1, <2>2 DEF RelativeTimes
<1>8. LeftBounds'
  <2> SUFFICES ASSUME NEW u \in UNITS
               PROVE  left[u] >= 0 /\ (u \notin Queued' => left[u] = 0)
    BY <1>4 DEF LeftBounds
  <2>1. ASSUME u \in Queued, u # h
        PROVE  u \in Queued'
    <3>1. PICK k \in 1 .. Len(queue) : queue[k] = u
      BY <2>1, QueuedAt DEF Consistent
    <3>2. k # 1
      BY <1>1, <2>1, <3>1
    <3>3. k - 1 \in 1 .. Len(queue') /\ (k - 1) + 1 = k
      BY <1>1, <1>2, <3>2
    <3>4. queue'[k - 1] = u
      BY <1>2, <3>1, <3>3
    <3> QED
      BY <1>2, <3>3, <3>4, Members DEF Queued
  <2> QED
    BY <1>1, <2>1 DEF Consistent, LeftBounds
<1> QED
  BY <1>5, <1>6, <1>7, <1>8 DEF QueueConsistent

-----------------------------------------------------------------------------
(* The inductive invariant                                                 *)

\* A step that leaves the list and its times alone keeps them consistent.
LEMMA UntouchedKeeps ==
  ASSUME Consistent, UNCHANGED <<queue, time, left>>,
         queue = <<>> \/ UNCHANGED sim_interval
  PROVE  QueueConsistent' /\ LeftBounds'
<1>1. queue = <<>> => Len(queue) = 0
  BY QueuedAt DEF Consistent
<1> QED
  BY <1>1 DEF Consistent, QueueConsistent, NoDuplicates, ClockOrder,
              RelativeTimes, LeftBounds, Queued

\* Every step keeps the list consistent with the times the units are due at.
LEMMA ConsistentStep ==
  ASSUME IInv, [Next]_vars, BreakAfterDevice = FALSE
  PROVE  QueueConsistent' /\ LeftBounds'
<1>0. Consistent
  BY DEF IInv, Consistent
<1>1. CASE Calling
  <2>1. ASSUME NEW u \in UNITS, CancelUnit(u)
        PROVE  QueueConsistent' /\ LeftBounds'
    BY <1>0, <2>1, CancelKeeps
  <2>2. ASSUME UNCHANGED <<qvars, remnant, cpuvars, hist>>
        PROVE  QueueConsistent' /\ LeftBounds'
    BY <1>0, <2>2, UntouchedKeeps DEF qvars, hist
  <2>3. ASSUME NEW u \in UNITS \ {StepUnit}, NEW d \in Delays, NEW m \in BOOLEAN,
               sim_activate(u, d, m) \/ sim_activate_abs(u, d, m)
        PROVE  QueueConsistent' /\ LeftBounds'
    BY <2>1, <2>2, <2>3 DEF sim_activate, sim_activate_abs
  <2>4. ASSUME NEW u \in UNITS \ {StepUnit}, NEW r \in 0 .. RtMod - 1,
               sim_activate_notbefore(u, r)
        PROVE  QueueConsistent' /\ LeftBounds'
    BY <2>1, <2>4 DEF sim_activate_notbefore
  <2>5. ASSUME NEW u \in UNITS \ {StepUnit}, sim_cancel(u)
        PROVE  QueueConsistent' /\ LeftBounds'
    BY <2>1, <2>5 DEF sim_cancel
  <2> QED
    BY <1>1, <2>3, <2>4, <2>5 DEF Calling
<1>2. CASE AlreadyActive \/ ScanOn
  BY <1>0, <1>2, UntouchedKeeps DEF AlreadyActive, ScanOn, qvars, hist
<1>3. CASE StartScan
  BY <1>0, <1>3, UpdateKeeps DEF StartScan, hist
<1>4. CASE Link
  BY <1>0, <1>4, LinkKeeps DEF IInv
<1>5. CASE Execute
  <2>1. sim_interval \in Int
    BY <1>0 DEF Consistent, TypeOK
  <2>2. 1 <= sim_interval
    BY <1>5, <2>1 DEF Execute
  <2> QED
    BY <1>0, <1>5, <2>2, ElapsedKeeps DEF Execute
<1>6. CASE Idle
  <2>1. PICK n \in 1 .. sim_interval : sim_interval' = sim_interval - n /\ Elapsed(n)
    BY <1>6 DEF Idle
  <2>2. n \in Int /\ n <= sim_interval
    BY <1>0 DEF Consistent, TypeOK
  <2> QED
    BY <1>0, <1>6, <2>1, <2>2, ElapsedKeeps DEF Idle
<1>7. CASE EndInstruction \/ StopRun
  BY <1>0, <1>7, UntouchedKeeps DEF EndInstruction, StopRun, qvars, hist
<1>8. CASE Breakpoint
  <2>1. saved_interval = sim_interval + 1 /\ sim_interval \in Int
    BY <1>0, <1>8 DEF Breakpoint, IInv, ReplaySound, Consistent, TypeOK
  <2>2. sim_interval' = sim_interval - (-1) /\ -1 \in Int /\ -1 <= 0
    BY <1>8, <2>1 DEF Breakpoint
  <2> QED
    BY <1>0, <1>8, <2>2, ElapsedKeeps DEF Breakpoint
<1>9. CASE StopRequest
  BY <1>0, <1>9, UntouchedKeeps DEF StopRequest, qvars, hist
<1>10. CASE ProcessStop \/ ProcessEmpty
  BY <1>0, <1>10, UntouchedKeeps DEF ProcessStop, ProcessEmpty, qvars, hist
<1>11. CASE ProcessEvents
  BY <1>0, <1>11, UpdateKeeps DEF ProcessEvents, hist
<1>12. CASE Dispatch
  BY <1>0, <1>12, DispatchKeeps DEF IInv
<1>13. ASSUME NEW ok \in BOOLEAN, ActionReturn(ok)
       PROVE  QueueConsistent' /\ LeftBounds'
  BY <1>0, <1>13, UntouchedKeeps DEF ActionReturn, qvars, hist
<1>14. CASE sim_run_boot_prep
  <2>1. queue' = <<>> /\ left' = [u \in UNITS |-> 0] /\ Len(queue') = 0
    BY <1>14 DEF sim_run_boot_prep
  <2> QED
    BY <2>1 DEF QueueConsistent, NoDuplicates, ClockOrder, RelativeTimes, LeftBounds
<1>15. CASE StartRun
  BY <1>0, <1>15, UntouchedKeeps DEF StartRun, qvars, hist
<1>16. CASE EndRun
  <2>1. CASE \E i \in 1 .. Len(queue) : queue[i] = StepUnit /\ UnlinkAt(i)
    BY <1>0, <2>1, UnlinkKeeps
  <2>2. CASE UPDATE_SIM_TIME /\ UNCHANGED <<remnant, hist>>
    BY <1>0, <2>2, UpdateKeeps DEF hist
  <2> QED
    BY <1>16, <2>1, <2>2 DEF EndRun
<1>17. CASE UNCHANGED vars
  BY <1>0, <1>17, UntouchedKeeps DEF vars, qvars, hist
<1> QED
  BY <1>1, <1>2, <1>3, <1>4, <1>5, <1>6, <1>7, <1>8, <1>9, <1>10, <1>11,
     <1>12, <1>13, <1>14, <1>15, <1>16, <1>17 DEF Next, Activating, Processing

\* What may happen to the operation in progress in one step.
LEMMA CallStep ==
  ASSUME IInv, [Next]_vars
  PROVE  \/ call' = NoCall
         \/ /\ call'.op = "enter"
            /\ ctx' \in {"console", "fetch", "device", "action", "rearm"}
         \/ StartScan
         \/ ScanOn
         \/ UNCHANGED <<qvars, call, ctx, hist>>
<1> USE DEF EnterActivate
<1>1. CASE Calling
  BY <1>1 DEF Calling, sim_activate, sim_activate_abs, sim_activate_notbefore,
              sim_cancel, CanCall, CalledFrom
<1>2. CASE AlreadyActive \/ Link
  BY <1>2 DEF AlreadyActive, Link
<1>3. CASE Execute \/ Idle \/ EndInstruction \/ StopRun \/ Breakpoint
  BY <1>3 DEF Execute, Idle, EndInstruction, StopRun, Breakpoint
<1>4. CASE StopRequest
  BY <1>4 DEF StopRequest
<1>5. CASE ProcessStop \/ ProcessEmpty \/ ProcessEvents
  BY <1>5 DEF ProcessStop, ProcessEmpty, ProcessEvents, Expired
<1>6. CASE Dispatch
  BY <1>6 DEF Dispatch, IInv, CallPlace
<1>7. CASE \E ok \in BOOLEAN : ActionReturn(ok)
  BY <1>7 DEF ActionReturn
<1>8. CASE sim_run_boot_prep \/ StartRun
  BY <1>8 DEF sim_run_boot_prep, StartRun
<1>9. CASE EndRun
  BY <1>9 DEF EndRun, IInv, CallPlace
<1>10. CASE UNCHANGED vars
  BY <1>10 DEF vars
<1> QED
  BY <1>1, <1>2, <1>3, <1>4, <1>5, <1>6, <1>7, <1>8, <1>9, <1>10
     DEF Next, Activating, Processing

\* The scan: each element it passes is due no later than the new unit.
LEMMA ScanStep ==
  ASSUME IInv, [Next]_vars
  PROVE  ScanSound' /\ CallPlace'
<1>0. Consistent /\ CallPlace /\ ScanSound
  BY DEF IInv, Consistent
<1>1. CASE call' = NoCall
  BY <1>1 DEF ScanSound, CallPlace, NoCall
<1>2. CASE /\ call'.op = "enter"
           /\ ctx' \in {"console", "fetch", "device", "action", "rearm"}
  BY <1>2 DEF ScanSound, CallPlace
<1>3. CASE StartScan
  <2>1. /\ queue' = queue /\ sim_interval' = sim_interval /\ ctx' = ctx /\ call # NoCall
    BY <1>3 DEF StartScan, UPDATE_SIM_TIME, NoCall
  <2>2. /\ call'.unit = call.unit /\ call'.accum = 0 /\ call'.prv = 0
        /\ call'.unit \notin Queued
    BY <1>3 DEF StartScan, sim_is_active
  <2>3. queue # <<>> => time'[Head(queue)] = sim_interval
    BY <1>0, <1>3, UpdateKeeps DEF StartScan, hist
  <2>4. Len(queue) \in Nat
    BY <1>0, QueuedAt DEF Consistent
  <2>5. ScanSound'
    BY <2>1, <2>2, <2>3, <2>4 DEF ScanSound, Queued
  <2> QED
    BY <1>0, <2>1, <2>5 DEF CallPlace
<1>4. CASE ScanOn
  <2> DEFINE p == call.prv
  <2>1. /\ call.op = "scan" /\ p < Len(queue) /\ call # NoCall
        /\ ~(call.delay < call.accum + time[queue[p + 1]])
        /\ UNCHANGED <<queue, time, sim_interval, left, ctx>>
    BY <1>4 DEF ScanOn, AtPlace, NoCall, qvars, hist
  <2>2. /\ call \in [op : {"scan"}, unit : UNITS, delay : Nat, more : BOOLEAN,
                     accum : Int, prv : Nat]
        /\ Len(queue) \in Nat /\ p + 1 \in 1 .. Len(queue) /\ queue[p + 1] \in UNITS
        /\ left[queue[p + 1]] \in Int
    <3>1. call \in [op : {"scan"}, unit : UNITS, delay : Nat, more : BOOLEAN,
                   accum : Int, prv : Nat]
      BY <1>0, <2>1, CallTyped DEF Consistent
    <3>2. Len(queue) \in Nat
      BY <1>0, QueuedAt DEF Consistent
    <3>3. p + 1 \in 1 .. Len(queue)
      BY <2>1, <3>1, <3>2
    <3>4. queue[p + 1] \in UNITS
      BY <1>0, <3>3, TimeTyped DEF Consistent
    <3> QED
      BY <1>0, <3>1, <3>2, <3>3, <3>4 DEF Consistent, TypeOK
  <2>3. call.accum + time[queue[p + 1]] = left[queue[p + 1]]
    BY <1>0, <2>1, NextDue
  <2>4. call' = [call EXCEPT !.accum = left[queue[p + 1]], !.prv = p + 1]
    BY <1>4, <2>3 DEF ScanOn
  <2>5. /\ call'.op = "scan" /\ call'.unit = call.unit /\ call'.delay = call.delay
        /\ call'.prv = p + 1 /\ call'.accum = left[queue[p + 1]]
    BY <2>2, <2>4
  <2>6. left[queue[p + 1]] <= call.delay
    BY <2>1, <2>2, <2>3
  <2>7. \A i \in 1 .. p + 1 : left[queue[i]] <= call.delay
    <3>1. \A i \in 1 .. p + 1 : i \in 1 .. p \/ i = p + 1
      BY <2>2
    <3> QED
      BY <1>0, <2>1, <2>6, <3>1 DEF ScanSound
  <2>8. p + 1 \in 0 .. Len(queue) /\ p + 1 # 0
    BY <2>2
  <2>9. ScanSound'
    BY <1>0, <2>1, <2>5, <2>7, <2>8 DEF ScanSound, Queued
  <2> QED
    BY <1>0, <2>1, <2>9 DEF CallPlace
<1>5. CASE UNCHANGED <<qvars, call, ctx, hist>>
  BY <1>0, <1>5 DEF ScanSound, CallPlace, Queued, qvars, hist
<1> QED
  BY <1>1, <1>2, <1>3, <1>4, <1>5, CallStep

\* sim_process_event takes a unit only when it is due; what a breakpoint puts
\* back is what the instruction counted; an action runs for a unit.
LEMMA ControlStep ==
  ASSUME IInv, [Next]_vars
  PROVE  DispatchSound' /\ ReplaySound' /\ ProcessingSound'
<1>0. /\ Consistent /\ CallPlace /\ DispatchSound /\ ReplaySound /\ ProcessingSound
  BY DEF IInv, Consistent
<1>1. queue # <<>> /\ sim_interval <= 0 => left[Head(queue)] = 0
  BY <1>0, TimeTyped DEF Consistent, TypeOK, QueueConsistent, RelativeTimes, LeftBounds
<1>2. CASE Calling
  BY <1>0, <1>2 DEF Calling, sim_activate, sim_activate_abs, sim_activate_notbefore,
       sim_cancel, CanCall, CalledFrom, DispatchSound, ReplaySound, ProcessingSound, cpuvars
<1>3. CASE Activating
  <2>1. call # NoCall /\ ctx' = ctx /\ current' = current
    BY <1>3 DEF Activating, AlreadyActive, StartScan, ScanOn, Link, NoCall, cpuvars
  <2> QED
    BY <1>0, <2>1 DEF CallPlace, DispatchSound, ReplaySound, ProcessingSound
<1>4. CASE Execute \/ Idle \/ EndInstruction \/ StopRun \/ Breakpoint
  <2>1. sim_interval \in Int
    BY <1>0 DEF Consistent, TypeOK
  <2>2. current' = current
    BY <1>4 DEF Execute, Idle, EndInstruction, StopRun, Breakpoint, cpuvars
  <2>3. ctx \in {"fetch", "execute", "device"} /\ ctx' \in {"fetch", "execute", "stopped"}
    BY <1>4 DEF Execute, Idle, EndInstruction, StopRun, Breakpoint
  <2>4. ctx' = "execute" => Execute
    BY <1>4 DEF Idle, EndInstruction, StopRun, Breakpoint
  <2>5. ReplaySound'
    BY <2>1, <2>4 DEF ReplaySound, Execute
  <2> QED
    BY <1>0, <2>2, <2>3, <2>5 DEF DispatchSound, ProcessingSound
<1>5. CASE StopRequest
  BY <1>0, <1>5 DEF StopRequest, DispatchSound, ReplaySound, ProcessingSound, qvars, hist
<1>6. CASE ProcessStop \/ ProcessEmpty \/ ProcessEvents
  BY <1>0, <1>1, <1>6 DEF ProcessStop, ProcessEmpty, ProcessEvents, Expired, UPDATE_SIM_TIME,
     DispatchSound, ReplaySound, ProcessingSound, cpuvars, hist
<1>7. CASE Dispatch
  <2>1. current' \in UNITS /\ ctx' \in {"action", "rearm"}
    BY <1>0, <1>7, TimeTyped DEF Dispatch, DispatchSound, Consistent
  <2>2. current' # NoUnit
    BY <2>1, UnitsAssumption
  <2> QED
    BY <2>1, <2>2 DEF DispatchSound, ReplaySound, ProcessingSound
<1>8. ASSUME NEW ok \in BOOLEAN, ActionReturn(ok)
      PROVE  DispatchSound' /\ ReplaySound' /\ ProcessingSound'
  BY <1>0, <1>1, <1>8 DEF ActionReturn, MoreEvents, DispatchSound, ReplaySound, ProcessingSound, qvars, hist
<1>9. CASE sim_run_boot_prep \/ StartRun \/ EndRun
  BY <1>0, <1>9 DEF sim_run_boot_prep, StartRun, EndRun, DispatchSound, ReplaySound,
     ProcessingSound, cpuvars
<1>10. CASE UNCHANGED vars
  BY <1>0, <1>10 DEF vars, qvars, cpuvars, hist, DispatchSound, ReplaySound, ProcessingSound
<1> QED
  BY <1>2, <1>3, <1>4, <1>5, <1>6, <1>7, <1>8, <1>9, <1>10 DEF Next, Processing

\* The state main leaves before the first command satisfies the invariant.
THEOREM InitIInv ==
  Init => IInv
<1> SUFFICES ASSUME Init PROVE IInv
  OBVIOUS
<1>1. queue = <<>> /\ Len(queue) = 0 /\ queue \in Seq(UNITS)
  BY EmptySeq DEF Init
<1>2. TypeOK
  <2>1. 0 \in 0 .. RtMod - 1
    BY RtModAssumption
  <2>2. call \in Calls /\ ctx \in Contexts
    BY DEF Init, Calls, Contexts
  <2>3. /\ time \in [UNITS -> Int] /\ left \in [UNITS -> Int]
        /\ sim_interval \in Int /\ noqueue_time \in Int /\ saved_interval \in Int
    BY DEF Init
  <2>4. sim_rtime \in 0 .. RtMod - 1 /\ clock \in 0 .. RtMod - 1
    BY <2>1 DEF Init
  <2>5. remnant \subseteq UNITS /\ stop_cpu \in BOOLEAN /\ current \in UNITS \cup {NoUnit}
    BY DEF Init
  <2> QED
    BY <1>1, <2>2, <2>3, <2>4, <2>5 DEF TypeOK
<1>3. QueueConsistent /\ LeftBounds
  BY <1>1 DEF Init, QueueConsistent, NoDuplicates, ClockOrder, RelativeTimes, LeftBounds
<1>4. CallPlace /\ ScanSound /\ DispatchSound /\ ReplaySound /\ ProcessingSound
  BY DEF Init, NoCall, CallPlace, ScanSound, DispatchSound, ReplaySound, ProcessingSound
<1> QED
  BY <1>2, <1>3, <1>4 DEF IInv

\* In a run without a data breakpoint after a device access, the types, the
\* consistency of the list and the strengthening hold for ever.
THEOREM Inductive ==
  ASSUME BreakAfterDevice = FALSE
  PROVE  Spec => []IInv
<1>1. IInv /\ [Next]_vars => IInv'
  <2> SUFFICES ASSUME IInv, [Next]_vars PROVE IInv'
    OBVIOUS
  <2>1. TypeOK'
    BY TypeStep DEF IInv
  <2>2. QueueConsistent' /\ LeftBounds'
    BY ConsistentStep
  <2>3. ScanSound' /\ CallPlace' /\ DispatchSound' /\ ReplaySound' /\ ProcessingSound'
    BY ScanStep, ControlStep
  <2> QED
    BY <2>1, <2>2, <2>3 DEF IInv
<1> QED
  BY <1>1, InitIInv, PTL DEF Spec

\* No state of the event queue is ill-typed (scp.c, event queue package).
THEOREM TypeCorrect ==
  ASSUME BreakAfterDevice = FALSE
  PROVE  Spec => []TypeOK
<1>1. IInv => TypeOK
  BY DEF IInv
<1> QED
  BY <1>1, Inductive, PTL

\* Whatever devices, console and sim_process_event schedule, cancel and fire,
\* in any order, the list stays in clock order with relative times that agree
\* with sim_interval and with the times the units are due at.
THEOREM QueueCorrect ==
  ASSUME BreakAfterDevice = FALSE
  PROVE  Spec => []QueueConsistent
<1>1. IInv => QueueConsistent
  BY DEF IInv
<1> QED
  BY <1>1, Inductive, PTL
-----------------------------------------------------------------------------
(* The global time                                                         *)

\* A number and its remainder are a multiple apart.
LEMMA ModSplit ==
  ASSUME NEW x \in Int, NEW m \in Nat \ {0}
  PROVE  /\ x % m \in 0 .. m - 1
         /\ \E q \in Int : x = (x % m) + q * m
<1> DEFINE q == x \div m
           r == x % m
<1>1. x = m * q + r
  OBVIOUS
<1>2. q \in Int /\ r \in 0 .. m - 1
  OBVIOUS
<1> HIDE DEF q, r
<1>3. x = r + q * m
  BY <1>1, <1>2
<1> QED
  BY <1>2, <1>3 DEF r

LEMMA ModUnique ==
  ASSUME NEW q \in Int, NEW m \in Nat \ {0}, NEW r \in 0 .. m - 1
  PROVE  (r + q * m) % m = r
OBVIOUS

\* The roll-over may happen before or after cycles are added.
LEMMA ModShift ==
  ASSUME NEW x \in Int, NEW n \in Int, NEW m \in Nat \ {0}
  PROVE  ((x % m) + n) % m = (x + n) % m
<1> DEFINE a == x % m
           y == a + n
           b == y % m
<1>1. a \in Int /\ a \in 0 .. m - 1
  BY ModSplit
<1>2. PICK q \in Int : x = a + q * m
  BY ModSplit
<1> HIDE DEF a
<1>3. y \in Int
  BY <1>1
<1> HIDE DEF y
<1>4. PICK p \in Int : y = b + p * m
  BY <1>3, ModSplit
<1>5. b \in 0 .. m - 1
  BY <1>3, ModSplit
<1> HIDE DEF b
<1>6. x + n = b + (p + q) * m /\ p + q \in Int
  BY <1>1, <1>2, <1>4, <1>5 DEF y
<1>7. (x + n) % m = b
  BY <1>5, <1>6, ModUnique
<1> QED
  BY <1>7 DEF a, b, y

\* GlobalTimeTrue is inductive with Settled: where cycles cannot pass, the
\* routines change sim_interval and the times without adding the difference.
TimeInv == GlobalTimeTrue /\ Settled

LEMMA LastTyped ==
  ASSUME TypeOK
  PROVE  LastInterval \in Int
  BY TimeTyped DEF TypeOK, LastInterval

\* Once the time has been brought up to date, sim_rtime is the time.
LEMMA SettledTime ==
  ASSUME TypeOK', UNCHANGED clock, sim_rtime' = clock, LastInterval' = sim_interval'
  PROVE  TimeInv'
<1>1. clock \in 0 .. RtMod - 1 /\ clock \in Int /\ sim_interval' \in Int
  BY DEF TypeOK
<1>2. sim_rtime' + (LastInterval' - sim_interval') = clock
  <2>1. LastInterval' - sim_interval' = 0
    <3>1. \A x \in Int : x - x = 0
      OBVIOUS
    <3> QED
      BY <1>1, <3>1, Zenon
  <2>2. clock + 0 = clock
    BY <1>1
  <2> QED
    BY <2>1, <2>2
<1>3. clock % RtMod = clock
  BY <1>1, RtModAssumption
<1> QED
  BY <1>2, <1>3 DEF TimeInv, GlobalTimeTrue, Settled, sim_grtime

LEMMA SettledNow ==
  ASSUME TypeOK, GlobalTimeTrue, LastInterval = sim_interval
  PROVE  sim_rtime = clock
<1>1. sim_rtime \in 0 .. RtMod - 1 /\ sim_interval \in Int
  BY DEF TypeOK
<1>2. sim_rtime + (LastInterval - sim_interval) = sim_rtime
  BY <1>1
<1>3. sim_rtime % RtMod = sim_rtime
  BY <1>1, RtModAssumption
<1> QED
  BY <1>2, <1>3 DEF GlobalTimeTrue, sim_grtime

\* The routines that bring the time up to date.
LEMMA UpdateSettles ==
  ASSUME TypeOK, UPDATE_SIM_TIME
  PROVE  LastInterval' = sim_interval' /\ sim_rtime' = sim_grtime
  BY TimeTyped DEF UPDATE_SIM_TIME, LastInterval, UpdatedTime, TypeOK

LEMMA RearmSettles ==
  ASSUME Rearm
  PROVE  LastInterval' = sim_interval'
  BY DEF Rearm, LastInterval

LEMMA UntouchedTime ==
  ASSUME TimeInv, UNCHANGED <<qvars, clock>>,
         LastInterval = sim_interval
           \/ ~(ctx' \in {"dispatch", "action", "rearm"} \/ call'.op = "scan")
  PROVE  TimeInv'
  BY DEF TimeInv, GlobalTimeTrue, Settled, sim_grtime, LastInterval, qvars

LEMMA CancelTime ==
  ASSUME TypeOK, TypeOK', TimeInv, NEW u, CancelUnit(u),
         ctx' \in {"action", "dispatch", "rearm"} => ctx' = ctx,
         call'.op # "scan" \/ call' = call
  PROVE  TimeInv'
<1>1. CASE \E i \in 1 .. Len(queue) : queue[i] = u /\ UnlinkAt(i)
  <2>1. Rearm /\ sim_rtime' = sim_grtime /\ UNCHANGED clock
    BY <1>1 DEF UnlinkAt
  <2> QED
    BY <2>1, RearmSettles, SettledTime DEF TimeInv, GlobalTimeTrue
<1>2. CASE UPDATE_SIM_TIME /\ UNCHANGED <<remnant, hist>>
  BY <1>2, UpdateSettles, SettledTime DEF TimeInv, GlobalTimeTrue, hist
<1>3. CASE UNCHANGED <<qvars, remnant, hist>>
  BY <1>3, UntouchedTime DEF TimeInv, Settled, hist
<1> QED
  BY <1>1, <1>2, <1>3 DEF CancelUnit

LEMMA CallingTime ==
  ASSUME TypeOK, TypeOK', TimeInv, Calling
  PROVE  TimeInv'
<1>1. CanCall /\ ctx' = CalledFrom
  BY DEF Calling, sim_activate, sim_activate_abs, sim_activate_notbefore, sim_cancel
<1>2. call = NoCall /\ (ctx' \in {"action", "dispatch", "rearm"} => ctx' = ctx)
  BY <1>1 DEF CanCall, CalledFrom
<1>3. ASSUME NEW u, NEW d, NEW m, sim_activate(u, d, m)
      PROVE  TimeInv'
  <2>1. UNCHANGED <<qvars, clock>> /\ call'.op = "enter"
    BY <1>3 DEF sim_activate, EnterActivate, hist
  <2> QED
    BY <1>2, <2>1, UntouchedTime DEF TimeInv, Settled
<1>4. ASSUME NEW u, NEW d, NEW m, sim_activate_abs(u, d, m)
      PROVE  TimeInv'
  BY <1>2, <1>4, CancelTime DEF sim_activate_abs, EnterActivate
<1>5. ASSUME NEW u, NEW r, sim_activate_notbefore(u, r)
      PROVE  TimeInv'
  BY <1>2, <1>5, CancelTime DEF sim_activate_notbefore, EnterActivate
<1>6. ASSUME NEW u, sim_cancel(u)
      PROVE  TimeInv'
  BY <1>2, <1>6, CancelTime DEF sim_cancel
<1> QED
  BY <1>3, <1>4, <1>5, <1>6 DEF Calling

LEMMA ActivatingTime ==
  ASSUME IInv, TypeOK', TimeInv, Activating
  PROVE  TimeInv'
<1>1. CASE AlreadyActive
  BY <1>1, UntouchedTime DEF AlreadyActive, TimeInv, Settled, hist, NoCall
<1>2. CASE StartScan
  BY <1>2, UpdateSettles, SettledTime DEF StartScan, TimeInv, GlobalTimeTrue, hist, IInv
<1>3. CASE ScanOn
  BY <1>3, UntouchedTime DEF ScanOn, TimeInv, Settled, hist
<1>4. CASE Link
  <2>1. sim_rtime = clock
    BY <1>4, SettledNow DEF Link, TimeInv, Settled, IInv
  <2>2. queue' # <<>>
    <3>1. queue' \in Seq(UNITS) /\ Len(queue') = Len(queue) + 1 /\ Len(queue) \in Nat
      BY <1>4, LinkedPositions DEF IInv, Consistent
    <3> QED
      BY <3>1, LenProperties
  <2>3. LastInterval' = sim_interval'
    BY <1>4, <2>2 DEF Link, LastInterval
  <2> QED
    BY <1>4, <2>1, <2>3, SettledTime DEF Link
<1> QED
  BY <1>1, <1>2, <1>3, <1>4 DEF Activating

\* Cycles pass on the countdown and on the clock alike.
LEMMA CountdownTime ==
  ASSUME TypeOK, GlobalTimeTrue, NEW n \in Int, sim_interval' = sim_interval - n,
         UNCHANGED <<queue, time, noqueue_time, sim_rtime>>,
         clock' = (clock + n) % RtMod
  PROVE  GlobalTimeTrue'
<1> DEFINE x == sim_rtime + (LastInterval - sim_interval)
<1>1. LastInterval \in Int /\ sim_rtime \in Int /\ sim_interval \in Int
  BY LastTyped DEF TypeOK
<1>2. x \in Int
  BY <1>1
<1>3. LastInterval' = LastInterval
  BY DEF LastInterval
<1>4. sim_rtime' + (LastInterval' - sim_interval') = x + n
  BY <1>1, <1>3
<1>5. clock = x % RtMod
  BY DEF GlobalTimeTrue, sim_grtime
<1> HIDE DEF x
<1>6. ((x % RtMod) + n) % RtMod = (x + n) % RtMod
  BY <1>2, ModShift, RtModAssumption
<1> QED
  BY <1>4, <1>5, <1>6 DEF GlobalTimeTrue, sim_grtime

LEMMA LoopTime ==
  ASSUME BreakAfterDevice = FALSE, IInv, TypeOK', TimeInv,
         Execute \/ Idle \/ EndInstruction \/ StopRun \/ Breakpoint \/ StopRequest
  PROVE  TimeInv'
<1>1. CASE Execute
  <2>1. GlobalTimeTrue'
    BY <1>1, CountdownTime DEF Execute, Elapsed, TimeInv, IInv
  <2> QED
    BY <1>1, <2>1 DEF Execute, TimeInv, Settled, NoCall
<1>2. CASE Idle
  <2>1. GlobalTimeTrue'
    BY <1>2, CountdownTime DEF Idle, Elapsed, TimeInv, IInv
  <2> QED
    BY <1>2, <2>1 DEF Idle, TimeInv, Settled, NoCall
<1>3. CASE EndInstruction \/ StopRun
  BY <1>3, UntouchedTime DEF EndInstruction, StopRun, NoCall, hist
<1>4. CASE Breakpoint
  <2>1. ctx = "execute" /\ saved_interval = sim_interval + 1 /\ sim_interval \in Int
    BY <1>4 DEF Breakpoint, IInv, ReplaySound, TypeOK
  <2>2. sim_interval' = sim_interval - (-1)
    BY <1>4, <2>1 DEF Breakpoint
  <2>3. GlobalTimeTrue'
    BY <1>4, <2>2, CountdownTime DEF Breakpoint, Elapsed, TimeInv, IInv
  <2> QED
    BY <1>4, <2>3 DEF Breakpoint, TimeInv, Settled, NoCall
<1>5. CASE StopRequest
  BY <1>5, UntouchedTime DEF StopRequest, TimeInv, Settled, hist
<1> QED
  BY <1>1, <1>2, <1>3, <1>4, <1>5

LEMMA ProcessingTime ==
  ASSUME IInv, TypeOK', TimeInv, Processing
  PROVE  TimeInv'
<1>1. CASE ProcessStop
  BY <1>1, UntouchedTime DEF ProcessStop, Expired, NoCall, hist
<1>2. CASE ProcessEmpty
  <2>1. LastInterval' = sim_interval'
    BY <1>2 DEF ProcessEmpty, LastInterval
  <2> QED
    BY <1>2, <2>1, SettledTime DEF ProcessEmpty, TimeInv, GlobalTimeTrue, hist
<1>3. CASE ProcessEvents
  BY <1>3, UpdateSettles, SettledTime DEF ProcessEvents, TimeInv, GlobalTimeTrue, hist, IInv
<1>4. CASE Dispatch
  <2>1. sim_rtime = clock
    BY <1>4, SettledNow DEF Dispatch, TimeInv, Settled, IInv
  <2> QED
    BY <1>4, <2>1, RearmSettles, SettledTime DEF Dispatch, hist
<1> QED
  BY <1>1, <1>2, <1>3, <1>4 DEF Processing

LEMMA ActionReturnTime ==
  ASSUME IInv, TypeOK', TimeInv, NEW ok \in BOOLEAN, ActionReturn(ok)
  PROVE  TimeInv'
<1>1. LastInterval = sim_interval /\ UNCHANGED <<clock, sim_rtime, queue, time>>
  BY DEF ActionReturn, TimeInv, Settled, hist, qvars
<1>2. sim_rtime = clock
  BY <1>1, SettledNow DEF TimeInv, IInv
<1>3. LastInterval' = sim_interval'
  BY <1>1 DEF ActionReturn, LastInterval, qvars
<1> QED
  BY <1>1, <1>2, <1>3, SettledTime

LEMMA CommandTime ==
  ASSUME IInv, TypeOK', TimeInv, sim_run_boot_prep \/ StartRun \/ EndRun
  PROVE  TimeInv'
<1>1. CASE sim_run_boot_prep
  <2>1. LastInterval' = 0 /\ sim_interval' = 0 /\ clock' = sim_rtime'
    BY <1>1 DEF sim_run_boot_prep, LastInterval
  <2>2. sim_rtime' \in 0 .. RtMod - 1
    BY DEF TypeOK
  <2>3. sim_rtime' % RtMod = sim_rtime' /\ sim_rtime' + (0 - 0) = sim_rtime'
    <3>1. \A x \in 0 .. RtMod - 1 : x % RtMod = x /\ x + (0 - 0) = x
      BY RtModAssumption
    <3> QED
      BY <2>2, <3>1
  <2> QED
    BY <2>1, <2>3 DEF TimeInv, GlobalTimeTrue, Settled, sim_grtime
<1>2. CASE StartRun
  BY <1>2, UntouchedTime DEF StartRun, EnterActivate, NoCall, hist
<1>3. CASE EndRun
  <2>1. CASE \E i \in 1 .. Len(queue) : queue[i] = StepUnit /\ UnlinkAt(i)
    <3>1. Rearm /\ sim_rtime' = sim_grtime /\ UNCHANGED clock
      BY <2>1 DEF UnlinkAt
    <3> QED
      BY <3>1, RearmSettles, SettledTime DEF TimeInv, GlobalTimeTrue
  <2>2. CASE UPDATE_SIM_TIME /\ UNCHANGED <<remnant, hist>>
    BY <2>2, UpdateSettles, SettledTime DEF TimeInv, GlobalTimeTrue, hist, IInv
  <2> QED
    BY <1>3, <2>1, <2>2 DEF EndRun
<1> QED
  BY <1>1, <1>2, <1>3

\* Whatever is queued, cancelled or processed, and however often the time is
\* brought up to date, sim_grtime counts the cycles executed (scp.c, sim_grtime).
THEOREM GlobalTimeCorrect ==
  ASSUME BreakAfterDevice = FALSE
  PROVE  Spec => []GlobalTimeTrue
<1>1. Init => TimeInv
  <2> SUFFICES ASSUME Init PROVE TimeInv
    OBVIOUS
  <2>1. LastInterval = 0 /\ sim_interval = 0 /\ sim_rtime = 0 /\ clock = 0
    BY DEF Init, LastInterval
  <2>2. 0 + (0 - 0) = 0 /\ 0 % RtMod = 0
    BY RtModAssumption
  <2> QED
    BY <2>1, <2>2 DEF TimeInv, GlobalTimeTrue, Settled, sim_grtime
<1>2. IInv /\ IInv' /\ TimeInv /\ [Next]_vars => TimeInv'
  <2> SUFFICES ASSUME IInv, IInv', TimeInv, [Next]_vars PROVE TimeInv'
    OBVIOUS
  <2>1. TypeOK /\ TypeOK'
    BY DEF IInv
  <2>2. CASE UNCHANGED vars
    BY <2>2, UntouchedTime DEF vars, hist, TimeInv, Settled
  <2>3. CASE Next
    BY <2>1, <2>3, CallingTime, ActivatingTime, LoopTime, ProcessingTime, ActionReturnTime, CommandTime
    DEF Next
  <2> QED
    BY <2>2, <2>3
<1>3. TimeInv => GlobalTimeTrue
  BY DEF TimeInv
<1> QED
  BY <1>1, <1>2, <1>3, Inductive, PTL DEF Spec

-----------------------------------------------------------------------------
(***************************************************************************)
(* The list of relative times implements the agenda of exact times, for    *)
(* every set of units, all delays and any width of sim_rtime.              *)
(***************************************************************************)

\* The cycles left of every queued unit are a natural number, as the agenda has them.
LEMMA LeftTyped ==
  ASSUME TypeOK
  PROVE  /\ Agenda!Pending = Queued
         /\ queue \in Seq(UNITS)
         /\ left = [u \in UNITS |-> left[u]]
  BY DEF TypeOK, Agenda!Pending, Queued, ToSet, Agenda!ToSet

\* sim_cancel of a queued unit withdraws it from the agenda.
LEMMA UnlinkWithdraws ==
  ASSUME NEW i \in 1 .. Len(queue), UnlinkAt(i), UNCHANGED current
  PROVE  Agenda!Withdraw
  BY DEF UnlinkAt, Agenda!Withdraw, RemoveAt, Agenda!RemoveAt

\* sim_cancel withdraws a unit from the agenda or leaves the agenda alone.
LEMMA CancelWithdraws ==
  ASSUME NEW u \in UNITS, CancelUnit(u), UNCHANGED current
  PROVE  Agenda!Withdraw \/ UNCHANGED <<queue, left, current>>
<1>1. CASE \E i \in 1 .. Len(queue) : queue[i] = u /\ UnlinkAt(i)
  BY <1>1, UnlinkWithdraws
<1>2. CASE UPDATE_SIM_TIME /\ UNCHANGED <<remnant, hist>>
  BY <1>2 DEF UPDATE_SIM_TIME, hist
<1>3. CASE UNCHANGED <<qvars, remnant, hist>>
  BY <1>3 DEF qvars, hist
<1> QED
  BY <1>1, <1>2, <1>3 DEF CancelUnit

\* _sim_activate links a unit where the agenda wants it.
LEMMA LinkInserts ==
  ASSUME Consistent, ScanSound, Link
  PROVE  Agenda!Insert(call.unit)
<1> DEFINE u == call.unit
           p == call.prv
<1>1. /\ u \in UNITS /\ u \notin Queued /\ p \in 0 .. Len(queue)
      /\ call.delay \in Nat /\ left'[u] = call.delay
  BY LinkedPositions
<1>2. /\ \A i \in 1 .. p : left[queue[i]] <= call.delay
      /\ \A i \in p + 1 .. Len(queue) : call.delay < left[queue[i]]
  BY PlaceFound DEF Link
<1>3. /\ queue' = InsertAt(queue, p + 1, u) /\ current' = current
      /\ left' = [left EXCEPT ![u] = left'[u]]
  BY <1>1 DEF Link, cpuvars
<1>4. u \notin Agenda!Pending
  BY <1>1, LeftTyped DEF Consistent
<1>5. InsertAt(queue, p + 1, u) = Agenda!InsertAt(queue, p + 1, u)
  BY DEF InsertAt, Agenda!InsertAt
<1> HIDE DEF u, p
<1> QED
  BY <1>1, <1>2, <1>3, <1>4, <1>5 DEF Agenda!Insert, u

\* Counting sim_interval down lets the same time pass on the agenda.
LEMMA ElapsedElapses ==
  ASSUME Consistent, NEW n \in 1 .. sim_interval, Elapsed(n), current = NoUnit,
         UNCHANGED <<queue, current>>
  PROVE  Agenda!Elapse \/ UNCHANGED <<queue, left, current>>
<1>1. Agenda!Pending = Queued /\ left = [u \in UNITS |-> left[u]]
  BY LeftTyped DEF Consistent
<1>2. CASE queue = <<>>
  <2>1. \A u \in UNITS : u \notin Queued
    BY <1>2, QueuedAt DEF Consistent
  <2>2. left' = [u \in UNITS |-> left[u]]
    BY <2>1 DEF Elapsed
  <2> QED
    BY <1>1, <2>2
<1>3. CASE queue # <<>>
  <2>1. sim_interval = left[queue[1]]
    BY <1>3, QueuedAt DEF Consistent, QueueConsistent, RelativeTimes
  <2>2. n \in 1 .. left[queue[1]]
    BY <2>1
  <2>3. left' = [u \in UNITS |-> IF u \in Agenda!Pending THEN left[u] - n ELSE left[u]]
    BY <1>1 DEF Elapsed
  <2> QED
    BY <1>3, <2>2, <2>3 DEF Agenda!Elapse
<1> QED
  BY <1>2, <1>3

\* Every step of the detailed queue is a step of the agenda or leaves it alone.
LEMMA AgendaStep ==
  ASSUME IInv, [Next]_vars, BreakAfterDevice = FALSE
  PROVE  Agenda!Next \/ UNCHANGED <<queue, left, current>>
<1>0. /\ Consistent /\ ScanSound /\ DispatchSound /\ ReplaySound
      /\ ctx \notin {"action", "rearm"} => current = NoUnit
      /\ ctx \in {"action", "rearm"} => current # NoUnit
  BY DEF IInv, Consistent, ProcessingSound
<1> USE DEF Agenda!Next
<1>1. CASE Calling
  <2>1. ASSUME NEW u \in UNITS, CancelUnit(u), UNCHANGED cpuvars
        PROVE  Agenda!Next \/ UNCHANGED <<queue, left, current>>
    BY <2>1, CancelWithdraws DEF cpuvars
  <2>2. ASSUME UNCHANGED <<qvars, remnant, cpuvars, hist>>
        PROVE  UNCHANGED <<queue, left, current>>
    BY <2>2 DEF qvars, cpuvars, hist
  <2> QED
    BY <1>1, <2>1, <2>2 DEF Calling, sim_activate, sim_activate_abs,
                             sim_activate_notbefore, sim_cancel
<1>2. CASE AlreadyActive \/ StartScan \/ ScanOn
  BY <1>2 DEF AlreadyActive, StartScan, ScanOn, UPDATE_SIM_TIME, qvars, cpuvars, hist
<1>3. CASE Link
  BY <1>0, <1>3, LinkInserts, LinkedPositions
<1>4. CASE Execute
  <2>1. 1 \in 1 .. sim_interval
    BY <1>0, <1>4 DEF Execute, Consistent, TypeOK
  <2> QED
    BY <1>0, <1>4, <2>1, ElapsedElapses DEF Execute
<1>5. CASE Idle
  BY <1>0, <1>5, ElapsedElapses DEF Idle, cpuvars
<1>6. CASE EndInstruction \/ StopRun \/ StopRequest
  BY <1>6 DEF EndInstruction, StopRun, StopRequest, qvars, cpuvars, hist
<1>7. CASE Breakpoint
  <2>1. Agenda!Pending = Queued /\ left \in [UNITS -> Int]
    BY <1>0, LeftTyped DEF Consistent, TypeOK
  <2>2. \A u \in UNITS : left[u] - (-1) = left[u] + 1
    BY <2>1
  <2>3. left' = Agenda!Shift(1)
    BY <1>7, <2>1, <2>2 DEF Breakpoint, Elapsed, Agenda!Shift
  <2> QED
    BY <1>0, <1>7, <2>3 DEF Breakpoint, Agenda!Undo, cpuvars
<1>8. CASE ProcessStop \/ ProcessEmpty \/ ProcessEvents
  BY <1>8 DEF ProcessStop, ProcessEmpty, ProcessEvents, UPDATE_SIM_TIME, qvars, cpuvars, hist
<1>9. CASE Dispatch
  <2>1. queue # <<>> /\ left[queue[1]] = 0 /\ Head(queue) = queue[1] /\ queue[1] \in UNITS
    BY <1>0, <1>9, QueuedAt, TimeTyped DEF Dispatch, DispatchSound, Consistent
  <2> QED
    BY <1>0, <1>9, <2>1 DEF Dispatch, Agenda!Fire, hist
<1>10. ASSUME NEW ok \in BOOLEAN, ActionReturn(ok)
       PROVE  Agenda!Next
  BY <1>0, <1>10 DEF ActionReturn, Agenda!Return, qvars, hist
<1>11. CASE sim_run_boot_prep
  BY <1>0, <1>11 DEF sim_run_boot_prep, Agenda!Clear, cpuvars
<1>12. CASE StartRun
  BY <1>12 DEF StartRun, qvars, hist
<1>13. CASE EndRun
  <2>1. CASE \E i \in 1 .. Len(queue) : queue[i] = StepUnit /\ UnlinkAt(i)
    BY <1>13, <2>1, UnlinkWithdraws DEF EndRun, cpuvars
  <2>2. CASE UPDATE_SIM_TIME /\ UNCHANGED <<remnant, hist>>
    BY <1>13, <2>2 DEF EndRun, UPDATE_SIM_TIME, cpuvars, hist
  <2> QED
    BY <1>13, <2>1, <2>2 DEF EndRun
<1>14. CASE UNCHANGED vars
  BY <1>14 DEF vars, qvars, cpuvars, hist
<1> QED
  BY <1>1, <1>2, <1>3, <1>4, <1>5, <1>6, <1>7, <1>8, <1>9, <1>10, <1>11,
     <1>12, <1>13, <1>14 DEF Next, Activating, Processing

\* The event queue package keeps its promise to the devices: an event fires at
\* its time, first come first served, and no cycle passes a pending event.
THEOREM ImplementsAgenda ==
  ASSUME BreakAfterDevice = FALSE
  PROVE  Spec => AgendaSpec
<1>1. Init => Agenda!Init
  BY DEF Init, Agenda!Init
<1>2. IInv /\ [Next]_vars => [Agenda!Next]_(Agenda!avars)
  BY AgendaStep DEF Agenda!avars
<1> QED
  BY <1>1, <1>2, Inductive, PTL DEF Spec, AgendaSpec, Agenda!Spec
=============================================================================
