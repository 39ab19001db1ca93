---------------------------- MODULE ConsoleProofs ----------------------------
(***************************************************************************)
(* Theorems about Console, for every size of the address space, every      *)
(* place of the registers and whatever the user and the program do.        *)
(***************************************************************************)
EXTENDS Console, TLAPS

-----------------------------------------------------------------------------
(* Numbers *)

LEMMA Division ==
  ASSUME NEW a \in Nat, NEW n \in Nat \ {0}
  PROVE  /\ a = n * (a \div n) + (a % n)
         /\ a % n \in 0 .. n - 1
         /\ a \div n \in Nat
<1>1. a = n * (a \div n) + (a % n)
  OBVIOUS
<1>2. a % n \in 0 .. n - 1
  OBVIOUS
<1>3. a \div n \in Nat
  OBVIOUS
<1> QED
  BY <1>1, <1>2, <1>3

LEMMA DivisionUnique ==
  ASSUME NEW q \in Nat, NEW n \in Nat \ {0}, NEW r \in 0 .. n - 1
  PROVE  (r + q * n) % n = r /\ (r + q * n) \div n = q
OBVIOUS

LEMMA QuotientBound ==
  ASSUME NEW a \in Nat, NEW n \in Nat \ {0}, NEW b \in Nat, a < b * n
  PROVE  a \div n < b
OBVIOUS

LEMMA ProductBound ==
  ASSUME NEW q \in Nat, NEW n \in Nat \ {0}, NEW r \in 0 .. n - 1, NEW b \in Nat, q < b
  PROVE  r + q * n < b * n
OBVIOUS

LEMMA QuotientMonotone ==
  ASSUME NEW a \in Nat, NEW b \in Nat, NEW n \in Nat \ {0}, a <= b
  PROVE  a \div n <= b \div n
OBVIOUS

\* A remainder of a remainder.
LEMMA Remainder ==
  ASSUME NEW a \in Nat, NEW b \in Nat \ {0}, NEW n \in Nat \ {0}
  PROVE  (a % (b * n)) % n = a % n
<1> DEFINE q == a \div (b * n)
           y == a % (b * n)
           p == y \div n
           r == y % n
<1>1. b * n \in Nat \ {0}
  OBVIOUS
<1>2. a = (b * n) * q + y /\ q \in Nat /\ y \in 0 .. (b * n) - 1
  BY <1>1, Division
<1>3. y \in Nat
  BY <1>1, <1>2
<1>4. y = n * p + r /\ p \in Nat /\ r \in 0 .. n - 1
  BY <1>3, Division
<1> HIDE DEF q, p, r, y
<1>5. a = r + (b * q + p) * n /\ b * q + p \in Nat
  BY <1>2, <1>4
<1>6. a % n = r
  BY <1>4, <1>5, DivisionUnique
<1> QED
  BY <1>6 DEF r, y

\* A sum has the parity of its part when the rest is a multiple of an even n.
LEMMA Parity ==
  ASSUME NEW r \in Nat, NEW q \in Nat, NEW n \in Nat, n % 2 = 0
  PROVE  (r + q * n) % 2 = r % 2
<1> DEFINE h == n \div 2
           k == q * h
<1>1. n = 2 * h /\ h \in Nat
  BY Division
<1> HIDE DEF h
<1>2. k \in Nat
  BY <1>1
<1>3. r + q * n = r + 2 * k
  BY <1>1
<1> HIDE DEF k
<1>4. (r + 2 * k) % 2 = r % 2
  BY <1>2
<1> QED
  BY <1>3, <1>4

-----------------------------------------------------------------------------
(* Addresses *)

LEMMA Sizes ==
  /\ LowSize \in Nat \ {0} /\ Banks \in Nat \ {0} /\ LowSize % 2 = 0
  /\ Banks * LowSize \in Nat \ {0}
  /\ Addresses \subseteq Nat /\ Low \subseteq Addresses
  /\ FirstReg \in Addresses /\ LastReg \in Addresses
<1>1. LowSize \in Nat \ {0} /\ Banks \in Nat \ {0}
  BY ConsoleAssumption
<1>2. LowSize <= Banks * LowSize /\ Banks * LowSize \in Nat \ {0}
  BY <1>1
<1> QED
  BY <1>1, <1>2, ConsoleAssumption DEF Addresses, Low

\* An address is its low bits and its bank.
LEMMA Split ==
  ASSUME NEW a \in Addresses
  PROVE  /\ LowBits(a) \in Low /\ Bank(a) \in 0 .. Banks - 1
         /\ LowBits(a) + Bank(a) * LowSize = a
<1>1. a \in Nat /\ a < Banks * LowSize
  BY Sizes DEF Addresses
<1>2. /\ a = LowSize * Bank(a) + LowBits(a)
      /\ LowBits(a) \in Low /\ Bank(a) \in Nat
  BY <1>1, Sizes, Division DEF LowBits, Bank, Low
<1>3. Bank(a) < Banks
  BY <1>1, Sizes, QuotientBound DEF Bank
<1> DEFINE q == Bank(a)
           r == LowBits(a)
<1> HIDE DEF q, r
<1>4. q \in Nat /\ r \in Nat /\ a = LowSize * q + r
  BY <1>2, Sizes DEF q, r, Low, Addresses
<1>5. r + q * LowSize = a
  BY <1>4, Sizes
<1> QED
  BY <1>2, <1>3, <1>5, Sizes DEF q, r

LEMMA LowTyped ==
  ASSUME NEW a \in Nat
  PROVE  LowBits(a) \in Low
BY Sizes, Division DEF LowBits, Low

\* The address of a data path, and what it is made of.
LEMMA Loaded ==
  ASSUME NEW sr \in Nat, NEW swr \in 0 .. Banks - 1
  PROVE  /\ loaded_address_22bit(sr, swr) \in Addresses
         /\ LowBits(loaded_address_22bit(sr, swr)) = LowBits(sr)
         /\ Bank(loaded_address_22bit(sr, swr)) = swr
         /\ loaded_address_22bit(sr, swr) % 2 = LowBits(sr) % 2
         /\ sr \in Low => LowBits(sr) = sr
<1> DEFINE r == LowBits(sr)
<1>1. r \in 0 .. LowSize - 1 /\ swr \in Nat /\ swr < Banks
  BY LowTyped, Sizes DEF Low
<1>2. loaded_address_22bit(sr, swr) = r + swr * LowSize
  BY DEF loaded_address_22bit
<1>3. sr \in Low => LowBits(sr) = sr
  BY Sizes DEF Low, LowBits
<1> HIDE DEF r
<1>4. LowBits(r + swr * LowSize) = r /\ Bank(r + swr * LowSize) = swr
  BY <1>1, Sizes, DivisionUnique DEF LowBits, Bank
<1>5. r + swr * LowSize < Banks * LowSize
  BY <1>1, Sizes, ProductBound
<1>6. r + swr * LowSize \in Nat
  BY <1>1, Sizes
<1>7. (r + swr * LowSize) % 2 = r % 2
  <2>1. r \in Nat /\ swr \in Nat /\ LowSize \in Nat /\ LowSize % 2 = 0
    BY <1>1, Sizes
  <2> QED
    BY <2>1, Parity, Zenon
<1>8. loaded_address_22bit(sr, swr) \in Addresses
  BY <1>2, <1>5, <1>6, Sizes DEF Addresses
<1>9. r = LowBits(sr)
  BY DEF r
<1> DEFINE a == loaded_address_22bit(sr, swr)
<1>10. a = r + swr * LowSize /\ a \in Addresses
  BY <1>2, <1>8
<1> HIDE DEF a
<1>11. LowBits(a) = r /\ Bank(a) = swr
  BY <1>4, <1>10
<1>12. a % 2 = r % 2
  BY <1>7, <1>10
<1>13. a % 2 = LowBits(sr) % 2
  BY <1>9, <1>12
<1>14. LowBits(a) = LowBits(sr)
  BY <1>9, <1>11
<1> HIDE DEF r
<1> QED
  BY <1>3, <1>10, <1>11, <1>13, <1>14, Zenon DEF a

LEMMA WordTyped ==
  ASSUME NEW a \in Addresses
  PROVE  /\ Word(a) \in Addresses /\ Word(a) % 2 = 0
         /\ a % 2 = 0 => Word(a) = a
<1>1. a \in Nat /\ a < Banks * LowSize /\ a % 2 \in 0 .. 1
  BY Sizes DEF Addresses
<1>2. Word(a) \in Nat /\ Word(a) <= a /\ Word(a) % 2 = 0
  BY <1>1 DEF Word
<1> QED
  BY <1>1, <1>2, Sizes DEF Addresses, Word

LEMMA IncrementTyped ==
  ASSUME NEW a \in Addresses
  PROVE  increment_address(a) \in Nat
<1> DEFINE n == (a + 2) % (Banks * LowSize)
<1>1. a \in Nat /\ FirstReg \in Nat /\ a + 1 \in Nat /\ a + 2 \in Nat
  BY Sizes
<1>2. n \in Nat
  BY <1>1, Sizes, Division
<1>3. increment_address(a) \in {FirstReg, a + 1, n}
  BY DEF increment_address
<1> QED
  BY <1>1, <1>2, <1>3

LEMMA CommandAddress ==
  ASSUME NEW a \in Addresses, NEW knob
  PROVE  addr_panel2simh(a, knob) \in Addresses
BY Sizes, LowTyped, WordTyped DEF addr_panel2simh

\* An address an access can have: a word or a register.
Aligned(a) == IsReg(a) \/ a % 2 = 0

\* What the next access of a sequence must use (see Expected): after the same
\* operation the next register, which wraps, or the next word of the bank.
NextOf(a) ==
  IF IsReg(a) THEN IF a = LastReg THEN FirstReg ELSE a + 1
  ELSE Bank(a) * LowSize + LowBits(Word(a) + 2)

\* The registers are all in one bank.
LEMMA RegisterBank ==
  ASSUME NEW a \in Addresses, IsReg(a)
  PROVE  Bank(a) = Bank(FirstReg)
<1>1. FirstReg <= a /\ a <= LastReg /\ FirstReg \in Nat /\ LastReg \in Nat /\ a \in Nat
  BY Sizes DEF IsReg
<1>2. FirstReg \div LowSize <= a \div LowSize /\ a \div LowSize <= LastReg \div LowSize
  BY <1>1, Sizes, QuotientMonotone
<1>3. FirstReg \div LowSize \in Nat /\ a \div LowSize \in Nat
  BY <1>1, Sizes, Division
<1> QED
  BY <1>2, <1>3, ConsoleAssumption DEF Bank

\* Stepping the low bits only gives the next address, and the command has it.
LEMMA Stepped ==
  ASSUME NEW sr \in Low, NEW swr \in 0 .. Banks - 1, NEW knob, ~Virtual(knob),
         NEW a, a = loaded_address_22bit(sr, swr), Aligned(a)
  PROVE  LET next == loaded_address_22bit(LowBits(increment_address(a)), swr)
         IN  addr_panel2simh(next, knob) = NextOf(a) /\ Aligned(NextOf(a))
<1> DEFINE b == increment_address(a)
           next == loaded_address_22bit(LowBits(b), swr)
<1>1. sr \in Nat /\ a \in Addresses /\ Bank(a) = swr
  BY Sizes, Loaded
<1>2. b \in Nat /\ LowBits(b) \in Nat /\ LowBits(b) \in Low
  BY <1>1, IncrementTyped, LowTyped, Sizes
<1>3. /\ next \in Addresses /\ next = LowBits(b) + swr * LowSize
      /\ next % 2 = LowBits(b) % 2
  <2>1. LowBits(LowBits(b)) = LowBits(b)
    BY <1>2, Loaded
  <2> QED
    BY <1>2, <2>1, Loaded DEF loaded_address_22bit
<1>4. CASE IsReg(a)
  <2>0. b = NextOf(a) /\ b = IF a = LastReg THEN FirstReg ELSE a + 1
    BY <1>4 DEF increment_address, NextOf
  <2>1. b \in FirstReg .. LastReg /\ b \in Addresses
    BY <1>1, <1>4, <2>0, Sizes, ConsoleAssumption DEF IsReg, Addresses
  <2>2. Bank(b) = swr
    BY <1>1, <1>4, <2>1, RegisterBank DEF IsReg
  <2>3. next = b
    BY <1>3, <2>1, <2>2, Split
  <2> QED
    BY <2>0, <2>1, <2>3 DEF addr_panel2simh, IsReg, Aligned
<1>5. CASE ~IsReg(a)
  <2>1. a % 2 = 0 /\ Word(a) = a
    BY <1>1, <1>5, WordTyped DEF Aligned
  <2>2. a \in Nat /\ a # LastReg
    BY <1>1, <1>5, Sizes, ConsoleAssumption DEF IsReg
  <2>3. LowBits(b) = LowBits(a + 2)
    <3>1. b = (a + 2) % (Banks * LowSize)
      BY <1>5, <2>2 DEF increment_address
    <3>2. a + 2 \in Nat /\ Banks \in Nat \ {0} /\ LowSize \in Nat \ {0}
      BY <2>2, Sizes
    <3>3. ((a + 2) % (Banks * LowSize)) % LowSize = (a + 2) % LowSize
      BY <3>2, Remainder, Zenon
    <3> QED
      BY <3>1, <3>3, Zenon DEF LowBits
  <2>4. next = NextOf(a)
    <3>1. swr * LowSize \in Nat /\ LowBits(b) \in Nat
      BY <1>2, Sizes
    <3> QED
      BY <1>1, <1>3, <1>5, <2>1, <2>3, <3>1 DEF NextOf
  <2>5. LowBits(a + 2) % 2 = 0
    <3> DEFINE q == (a + 2) \div LowSize
               r == LowBits(a + 2)
    <3>0. a + 2 \in Nat
      BY <2>2
    <3>1. a + 2 = LowSize * q + r /\ q \in Nat /\ r \in 0 .. LowSize - 1
      BY <3>0, Sizes, Division DEF LowBits
    <3> HIDE DEF q, r
    <3>2. a + 2 = r + q * LowSize /\ r \in Nat
      BY <3>1, Sizes
    <3>3. (a + 2) % 2 = r % 2
      <4>1. (r + q * LowSize) % 2 = r % 2
        <5>1. r \in Nat /\ q \in Nat /\ LowSize \in Nat /\ LowSize % 2 = 0
          BY <3>1, <3>2, Sizes
        <5> QED
          BY <5>1, Parity, Zenon
      <4> QED
        BY <3>2, <4>1
    <3>4. (a + 2) % 2 = 0
      BY <2>1, <2>2
    <3> QED
      BY <3>3, <3>4 DEF r
  <2>6. next % 2 = 0
    BY <1>3, <2>3, <2>5
  <2>7. addr_panel2simh(next, knob) = next
    BY <1>3, <2>6, WordTyped DEF addr_panel2simh
  <2> QED
    BY <2>4, <2>6, <2>7 DEF Aligned
<1> QED
  BY <1>4, <1>5
-----------------------------------------------------------------------------
(* What the panel's service computes *)

Actions == {"none", "LOAD_ADRS", "EXAM", "DEPOSIT", "CONT", "START"}

LEMMA ActionSwitch ==
  ASSUME NEW sw
  PROVE  action_switch(sw) \in Actions
<1> DEFINE moved == {i \in DOMAIN Momentary : Moved(Momentary[i], sw)}
<1>1. DOMAIN Momentary = 1 .. 5
  BY DEF Momentary
<1>2. CASE moved = {}
  BY <1>2 DEF action_switch, Actions
<1>3. CASE moved # {}
  <2>1. moved \subseteq 1 .. 5
    BY <1>1
  <2> HIDE DEF moved
  <2>2. \E i \in moved : \A j \in moved : i <= j
    <3>1. \A k \in moved : k = 1 \/ k = 2 \/ k = 3 \/ k = 4 \/ k = 5
      BY <2>1
    <3>2. CASE 1 \in moved
      BY <3>1, <3>2
    <3>3. CASE 1 \notin moved /\ 2 \in moved
      BY <3>1, <3>3
    <3>4. CASE 1 \notin moved /\ 2 \notin moved /\ 3 \in moved
      BY <3>1, <3>4
    <3>5. CASE 1 \notin moved /\ 2 \notin moved /\ 3 \notin moved
      BY <1>3, <3>1, <3>5
    <3> QED
      BY <3>2, <3>3, <3>4, <3>5
  <2>3. Min(moved) \in 1 .. 5
    BY <2>1, <2>2 DEF Min
  <2>4. \A i \in 1 .. 5 : Momentary[i] \in Actions
    BY DEF Momentary, Actions
  <2> QED
    BY <2>3, <2>4 DEF action_switch, moved, Actions
<1> QED
  BY <1>2, <1>3

\* The data path SR is a number, and what its value stands for an address.
LEMMA ServiceAddress ==
  ASSUME TypeOK, NEW act, NEW sr \in Addresses
  PROVE  /\ ErrorSR \in Low \cup {InvalidSR}
         /\ datapathSR \in Low => ErrorSR \in Low
         /\ loaded_address_22bit(ErrorSR, datapathSWR) \in Addresses
         /\ ActionSR(act, sr) \in Low \cup {InvalidSR}
         /\ datapathSR \in Low => ActionSR(act, sr) \in Low
         /\ ActionSR(act, sr) \in Nat
         /\ loaded_address_22bit(ActionSR(act, sr), datapathSWR) \in Addresses
         /\ ActionSWR(act, sr) \in 0 .. Banks - 1
<1> DEFINE next == increment_address(loaded_address_22bit(ErrorSR, datapathSWR))
<1>1. /\ datapathSR \in Low \cup {InvalidSR} /\ datapathSWR \in 0 .. Banks - 1
  BY DEF TypeOK
<1>2. Low \cup {InvalidSR} \subseteq Nat /\ 0 \in Low
  BY Sizes, ConsoleAssumption DEF Low
<1>3. ErrorSR \in Low \cup {InvalidSR} /\ (datapathSR \in Low => ErrorSR \in Low)
  BY <1>1, <1>2 DEF ErrorSR
<1>4. loaded_address_22bit(ErrorSR, datapathSWR) \in Addresses
  BY <1>1, <1>2, <1>3, Loaded
<1>5. LowBits(next) \in Low
  BY <1>4, IncrementTyped, LowTyped
<1>6. LowBits(sr) \in Low /\ Bank(sr) \in 0 .. Banks - 1
  BY Split
<1>7. ActionSR(act, sr) \in {LowBits(sr), LowBits(next), ErrorSR}
  BY DEF ActionSR
<1>8. /\ ActionSR(act, sr) \in Low \cup {InvalidSR}
      /\ datapathSR \in Low => ActionSR(act, sr) \in Low
  BY <1>3, <1>5, <1>6, <1>7
<1>9. loaded_address_22bit(ActionSR(act, sr), datapathSWR) \in Addresses
  BY <1>1, <1>2, <1>8, Loaded
<1>10. ActionSWR(act, sr) \in 0 .. Banks - 1
  BY <1>1, <1>6 DEF ActionSWR
<1> QED
  BY <1>2, <1>3, <1>4, <1>8, <1>9, <1>10

\* The command is one the prompt knows.
LEMMA ServiceCommandTyped ==
  ASSUME TypeOK, NEW sw, NEW sr \in Addresses, NEW knob
  PROVE  ServiceCommand(sw, sr, knob) \in Commands
<1> DEFINE act == action_switch(sw)
           x == ActionSR(act, sr)
           a == loaded_address_22bit(x, datapathSWR)
<1>1. x \in Nat /\ a \in Addresses
  BY ServiceAddress
<1>2. addr_panel2simh(a, knob) \in Addresses /\ Virtual(knob) \in BOOLEAN
  BY <1>1, CommandAddress DEF Virtual
<1>3. LowBits(sr) \in Low
  BY Split
<1>4. simh_cmd_buffer \in Commands
  BY DEF TypeOK
<1> HIDE DEF act, x, a
<1>5. ActionCommand(act, sw, sr, knob) \in Commands
  <2> DEFINE e == [op |-> "examine", addr |-> addr_panel2simh(a, knob), virt |-> Virtual(knob)]
             d == [op |-> "deposit", addr |-> addr_panel2simh(a, knob), virt |-> Virtual(knob),
                   val |-> LowBits(sr)]
  <2>1. e \in Commands /\ d \in Commands
    BY <1>2, <1>3 DEF Commands
  <2>2. [op |-> "reset"] \in Commands /\ [op |-> "run", pc |-> x] \in Commands
    BY <1>1 DEF Commands
  <2>3. [op |-> "step"] \in Commands /\ [op |-> "cont"] \in Commands
    BY DEF Commands
  <2> HIDE DEF e, d
  <2>4. ActionCommand(act, sw, sr, knob) \in
          {e, d, [op |-> "reset"], [op |-> "run", pc |-> x], [op |-> "step"],
           [op |-> "cont"], simh_cmd_buffer}
    BY DEF ActionCommand, x, a, e, d
  <2> QED
    BY <1>4, <2>1, <2>2, <2>3, <2>4
<1>6. [op |-> "shutdown"] \in Commands
  BY DEF Commands
<1> QED
  BY <1>4, <1>5, <1>6 DEF ServiceCommand, act

LEMMA ServiceLogicTyped ==
  ASSUME TypeOK, NEW sw, NEW act \in Actions, NEW sr \in Addresses, NEW knob
  PROVE  /\ ActionAutoinc(act) \in {"none", "EXAM", "DEPOSIT"}
         /\ ActionStatus(act, sw) \in {"OK", "NXM"}
         /\ ErrorLast \in {"OK", "NXM"}
         /\ Follow(act, sr, knob) \in {NoOperation}
              \cup [op : {"LOAD_ADRS", "EXAM", "DEPOSIT", "START"}, addr : Addresses]
<1>1. ActionAutoinc(act) \in {"none", "EXAM", "DEPOSIT"}
  BY DEF TypeOK, ActionAutoinc, ErrorAutoinc
<1>2. ActionStatus(act, sw) \in {"OK", "NXM"} /\ ErrorLast \in {"OK", "NXM"}
  BY DEF TypeOK, ActionStatus, ErrorLast
<1> DEFINE Operations == [op : {"LOAD_ADRS", "EXAM", "DEPOSIT", "START"}, addr : Addresses]
<1>3. last \in {NoOperation} \cup Operations
  BY DEF TypeOK
<1>4. [op |-> "LOAD_ADRS", addr |-> sr] \in Operations
  OBVIOUS
<1>5. last.op \in {"EXAM", "DEPOSIT"} => [last EXCEPT !.op = "START"] \in Operations
  BY <1>3 DEF NoOperation
<1> QED
  BY <1>1, <1>2, <1>3, <1>4, <1>5 DEF Follow
-----------------------------------------------------------------------------
(* Type correctness *)

LEMMA SessionTyped ==
  ASSUME session \in Sessions
  PROVE  /\ SRValues \subseteq Addresses
         /\ Knob \subseteq {"CONS_PHY", "PROG_PHY", "VIRTUAL"}
         /\ PCs \subseteq Low
         /\ Typed \subseteq Keyboard
BY ConsoleAssumption DEF SRValues, Knob, PCs, Typed

\* The arguments of a command.
LEMMA CommandFields ==
  ASSUME NEW c \in Commands \cup Keyboard
  PROVE  /\ c.op \in {"examine", "deposit"} => c.addr \in Addresses /\ c.virt \in BOOLEAN
         /\ c.op = "deposit" => c.val \in Low
         /\ c.op = "go" => c.pc \in Low
<1>1. ASSUME c.op = "examine"
      PROVE  c.addr \in Addresses /\ c.virt \in BOOLEAN
  BY <1>1 DEF Commands, Keyboard, NoCmd
<1>2. ASSUME c.op = "deposit"
      PROVE  c.addr \in Addresses /\ c.virt \in BOOLEAN /\ c.val \in Low
  BY <1>2 DEF Commands, Keyboard, NoCmd
<1>3. ASSUME c.op = "go"
      PROVE  c.pc \in Low
  BY <1>3 DEF Commands, Keyboard, NoCmd
<1> QED
  BY <1>1, <1>2, <1>3

\* What the powered service leaves in the panel's logic.
LEMMA ServiceTyped ==
  ASSUME TypeOK, NEW sw \in [Switches -> BOOLEAN], NEW sr \in Addresses, NEW knob,
         ServicePowered(sw, sr, knob) \/ ServicePowerOff(sw)
  PROVE  /\ console_halt' \in BOOLEAN
         /\ datapathSR' \in Low \cup {InvalidSR}
         /\ datapathSWR' \in 0 .. Banks - 1
         /\ autoinc' \in {"none", "EXAM", "DEPOSIT"}
         /\ memory_status' \in {"OK", "NXM"}
         /\ last_memory_status' \in {"OK", "NXM"}
         /\ last' \in {NoOperation}
              \cup [op : {"LOAD_ADRS", "EXAM", "DEPOSIT", "START"}, addr : Addresses]
<1>1. CASE ServicePowered(sw, sr, knob)
  <2> DEFINE act == action_switch(sw)
  <2>1. act \in Actions
    BY ActionSwitch
  <2>2. console_halt' \in BOOLEAN
    BY <1>1 DEF ServicePowered
  <2>3. datapathSR' \in Low \cup {InvalidSR}
    BY <1>1, ServiceAddress DEF ServicePowered, DisplayedSR
  <2>4. datapathSWR' \in 0 .. Banks - 1
    BY <1>1, ServiceAddress DEF ServicePowered
  <2>5. /\ autoinc' = ActionAutoinc(act) /\ memory_status' = ActionStatus(act, sw)
        /\ last_memory_status' = IF StepError(act) THEN "NXM" ELSE ErrorLast
        /\ last' = Follow(act, sr, knob)
    BY <1>1 DEF ServicePowered
  <2> HIDE DEF act
  <2> QED
    BY <2>1, <2>2, <2>3, <2>4, <2>5, ServiceLogicTyped
<1>2. CASE ServicePowerOff(sw)
  BY <1>2 DEF ServicePowerOff, TypeOK, logic
<1> QED
  BY <1>1, <1>2

LEMMA PollTyped ==
  ASSUME TypeOK, session \in Sessions, Poll, serviced' \in BOOLEAN
  PROVE  TypeOK'
<1>1. PICK sw \in Positions, sr \in SRValues, knob \in Knob :
        /\ switch' = sw /\ switch_SR' = sr /\ ADDR_SELECT' = knob
        /\ ServicePowered(sw, sr, knob) \/ ServicePowerOff(sw)
        /\ LET command == ServiceCommand(sw, sr, knob) IN
           IF ctx = "prompt" /\ connected'
           THEN line' = command /\ simh_cmd_buffer' = NoCmd /\ fresh' = Accessing(sw)
           ELSE simh_cmd_buffer' = command /\ UNCHANGED <<line, fresh>>
  BY DEF Poll
<1>2. /\ sw \in [Switches -> BOOLEAN] /\ sr \in Addresses
      /\ knob \in {"CONS_PHY", "PROG_PHY", "VIRTUAL"}
  BY SessionTyped DEF Positions
<1>3. ServiceCommand(sw, sr, knob) \in Commands /\ NoCmd \in Commands
  BY <1>2, ServiceCommandTyped DEF Commands
<1>4. line' \in Commands /\ simh_cmd_buffer' \in Commands /\ fresh' \in BOOLEAN
  BY <1>1, <1>3 DEF TypeOK, Accessing
<1>5. /\ connected' \in BOOLEAN
      /\ UNCHANGED <<ctx, PC, wait_state, step>>
  BY DEF Poll, cpu, TypeOK, MayFail
<1>6. /\ console_halt' \in BOOLEAN
      /\ datapathSR' \in Low \cup {InvalidSR}
      /\ datapathSWR' \in 0 .. Banks - 1
      /\ autoinc' \in {"none", "EXAM", "DEPOSIT"}
      /\ memory_status' \in {"OK", "NXM"}
      /\ last_memory_status' \in {"OK", "NXM"}
      /\ last' \in {NoOperation}
           \cup [op : {"LOAD_ADRS", "EXAM", "DEPOSIT", "START"}, addr : Addresses]
  BY <1>1, <1>2, ServiceTyped
<1> QED
  BY <1>1, <1>2, <1>4, <1>5, <1>6 DEF TypeOK

LEMMA ConnectingTyped ==
  ASSUME TypeOK, session \in Sessions, Connecting
  PROVE  TypeOK'
<1>1. CASE realcons_connect
  <2>1. /\ switch' \in [Switches -> BOOLEAN] /\ switch_SR' \in Addresses
        /\ ADDR_SELECT' \in {"CONS_PHY", "PROG_PHY", "VIRTUAL"}
    BY <1>1, SessionTyped DEF realcons_connect, Positions
  <2>2. 0 \in 0 .. Banks - 1
    BY Sizes
  <2> QED
    BY <1>1, <2>1, <2>2 DEF realcons_connect, TypeOK, cmdvars, cpu
<1>2. CASE PromptDisconnect \/ ServiceFails
  <2>1. UNCHANGED <<switch, switch_SR, ADDR_SELECT, console_halt, logic, cmdvars, cpu, last>>
    BY <1>2 DEF PromptDisconnect, ServiceFails, realcons_disconnect
  <2>2. connected' \in BOOLEAN /\ serviced' \in BOOLEAN
    BY <1>2 DEF PromptDisconnect, ServiceFails, realcons_disconnect, TypeOK
  <2> QED
    BY <2>1, <2>2 DEF TypeOK, cmdvars, cpu, logic, Contexts
<1> QED
  BY <1>1, <1>2 DEF Connecting

LEMMA AccessTyped ==
  ASSUME TypeOK, NEW c \in Commands \cup Keyboard, NEW byPanel, Access(c, byPanel)
  PROVE  /\ datapathSR' \in Low \cup {InvalidSR} /\ datapathSWR' \in 0 .. Banks - 1
         /\ memory_status' \in {"OK", "NXM"}
         /\ PC' \in Low
         /\ last' \in {NoOperation}
              \cup [op : {"LOAD_ADRS", "EXAM", "DEPOSIT", "START"}, addr : Addresses]
         /\ UNCHANGED <<ctx, wait_state, step, autoinc, last_memory_status>>
<1>1. c.op \in {"examine", "deposit"} /\ c.addr \in Addresses
  BY CommandFields DEF Access
<1>2. LowBits(c.addr) \in Low /\ Bank(c.addr) \in 0 .. Banks - 1
  BY <1>1, Split
<1>3. EventAccess(c.addr) \/ UNCHANGED <<datapathSR, datapathSWR>>
  BY DEF Access
<1>4. datapathSR' \in Low \cup {InvalidSR} /\ datapathSWR' \in 0 .. Banks - 1
  BY <1>2, <1>3 DEF EventAccess, TypeOK
<1>5. memory_status' \in {"OK", "NXM"}
  BY DEF Access, Statuses, TypeOK
<1>6. PC' \in Low
  BY CommandFields DEF Access, TypeOK
<1>7. last' \in {NoOperation}
        \cup [op : {"LOAD_ADRS", "EXAM", "DEPOSIT", "START"}, addr : Addresses]
  BY <1>1 DEF Access
<1> QED
  BY <1>4, <1>5, <1>6, <1>7 DEF Access

LEMMA ExecuteTyped ==
  ASSUME TypeOK, session \in Sessions, NEW c \in Commands \cup Keyboard, NEW byPanel,
         Execute(c, byPanel), line' \in {line, NoCmd}, fresh' \in {fresh, FALSE}
  PROVE  TypeOK'
<1>1. /\ UNCHANGED <<panel, simh_cmd_buffer, serviced>>
      /\ line' \in Commands /\ fresh' \in BOOLEAN
  BY DEF Execute, TypeOK, Commands
<1>2. PC \in Low /\ \A pc \in Low : ResetPC(pc) \in Low
  BY Sizes, ConsoleAssumption, LowTyped DEF TypeOK, ResetPC
<1>3. CASE Access(c, byPanel)
  BY <1>1, <1>3, AccessTyped DEF TypeOK, panel
<1>4. CASE ResetAll(c)
  <2>1. UNCHANGED <<ctx, step, logic, last>> /\ PC' \in Low /\ wait_state' \in BOOLEAN
    BY <1>2, <1>4 DEF ResetAll
  <2> QED
    BY <1>1, <2>1 DEF TypeOK, panel, logic, Contexts
<1>5. CASE Run(c)
  <2>1. /\ UNCHANGED logic
        /\ PC' \in Low /\ wait_state' \in BOOLEAN /\ step' \in {"off", "armed", "due"}
    BY <1>2, <1>5 DEF Run, TypeOK, cpu
  <2>2. ctx' \in Contexts /\ last' \in {last, NoOperation}
    BY <1>5 DEF Run, TypeOK, cpu, Contexts
  <2> QED
    BY <1>1, <2>1, <2>2 DEF TypeOK, panel, logic
<1>6. CASE Boot(c)
  BY <1>1, <1>6, SessionTyped DEF Boot, TypeOK, panel, logic, Contexts
<1>7. CASE Continue(c)
  BY <1>1, <1>2, <1>7, CommandFields DEF Continue, TypeOK, panel, logic, Contexts
<1>8. CASE Step(c)
  BY <1>1, <1>2, <1>8 DEF Step, EventSR, TypeOK, panel, logic, Contexts
<1>9. CASE Quit(c)
  BY <1>1, <1>9 DEF Quit, TypeOK, panel, logic, Contexts
<1> QED
  BY <1>3, <1>4, <1>5, <1>6, <1>7, <1>8, <1>9 DEF Execute

LEMMA CPUTyped ==
  ASSUME TypeOK, session \in Sessions, CPUTurn \/ Interrupt \/ StopEvent
  PROVE  TypeOK'
<1>0. PCs \subseteq Low
  BY SessionTyped
<1>1. ASSUME NEW pc \in PCs, NEW halt, EndInstruction(pc, halt), KeepLogic,
             wait_state' \in BOOLEAN
      PROVE  TypeOK'
  BY <1>0, <1>1 DEF EndInstruction, HaltedAt, EventSR, KeepLogic, TypeOK, panel, cmdvars, Contexts
<1>2. CASE Instruction
  BY <1>1, <1>2 DEF Instruction
<1>3. CASE BeginReset
  BY <1>3 DEF BeginReset, TypeOK, panel, logic, cmdvars, Contexts
<1>4. CASE EndReset
  BY <1>1, <1>4 DEF EndReset, TypeOK
<1>5. CASE Idle
  <2>1. UNCHANGED <<panel, logic, cmdvars, ctx, PC, wait_state, last>>
    BY <1>5 DEF Idle
  <2>2. step' \in {"off", "armed", "due"} /\ serviced' \in BOOLEAN
    BY <1>5 DEF Idle, TypeOK
  <2> QED
    BY <2>1, <2>2 DEF TypeOK, panel, logic, cmdvars, Contexts
<1>6. CASE Interrupt
  <2>1. UNCHANGED <<panel, logic, cmdvars, ctx, step, serviced, last>>
    BY <1>6 DEF Interrupt
  <2>2. PC' \in Low /\ wait_state' \in BOOLEAN
    BY <1>0, <1>6 DEF Interrupt
  <2> QED
    BY <2>1, <2>2 DEF TypeOK, panel, logic, cmdvars, Contexts
<1>7. CASE StopEvent
  BY <1>7 DEF StopEvent, HaltedAt, EventSR, KeepLogic, TypeOK, panel, cmdvars, Contexts
<1> QED
  BY <1>2, <1>3, <1>4, <1>5, <1>6, <1>7 DEF CPUTurn

LEMMA TypeStep ==
  ASSUME TypeOK, session \in Sessions, [Next /\ UNCHANGED session]_<<vars, session>>
  PROVE  TypeOK' /\ (session \in Sessions)'
<1>1. CASE UNCHANGED <<vars, session>>
  BY <1>1 DEF TypeOK, vars, panel, logic, cmdvars, cpu
<1>2. CASE Next /\ UNCHANGED session
  <2>1. CASE Service
    BY <2>1, PollTyped DEF Service
  <2>2. CASE PromptTurn
    BY <2>2, PollTyped DEF PromptTurn, TypeOK
  <2>3. CASE Connecting
    BY <2>3, ConnectingTyped
  <2>4. CASE PanelCommand
    BY <2>4, ExecuteTyped DEF PanelCommand, TypeOK
  <2>5. ASSUME NEW c \in Typed, TypedCommand(c)
        PROVE  TypeOK'
    BY <2>5, ExecuteTyped, SessionTyped DEF TypedCommand
  <2>6. CASE CPUTurn \/ Interrupt \/ StopEvent
    BY <2>6, CPUTyped
  <2> QED
    BY <1>2, <2>1, <2>2, <2>3, <2>4, <2>5, <2>6 DEF Next
<1> QED
  BY <1>1, <1>2

LEMMA TypeInit ==
  Init => TypeOK
<1>1. 0 \in Low /\ 0 \in Addresses /\ 0 \in 0 .. Banks - 1 /\ NoCmd \in Commands
  BY Sizes DEF Low, Commands
<1> QED
  BY <1>1 DEF Init, TypeOK, Contexts
-----------------------------------------------------------------------------
(* The inductive invariant                                                 *)
(*                                                                         *)
(* Between two accesses of a sequence the console address and the panel's  *)
(* stepping must agree with what the user has done: with the address and   *)
(* the operation in last.  Only while the command of an access is on its   *)
(* way they do not, since the address was stepped and the access has not   *)
(* been made; then it is the command that must be right.                   *)

\* The access that a command asks for.
Operation(c) == IF c.op = "examine" THEN "EXAM" ELSE "DEPOSIT"

\* The line is taken before anything else happens.
LinePlace == line # NoCmd => ctx = "prompt" /\ connected

\* What the panel asks for.
FreshFormat ==
  fresh => /\ line.op \in {"examine", "deposit"}
           /\ line.virt = Virtual(ADDR_SELECT)
           /\ ~line.virt => Aligned(line.addr)
           /\ autoinc = Operation(line)

LastStatus == last # NoOperation => memory_status = "OK"

AlignedLast ==
  last # NoOperation /\ last.op \in {"EXAM", "DEPOSIT"} => Aligned(last.addr)

\* The panel's logic is where the sequence has got to.
Matched ==
  last # NoOperation =>
    /\ loaded_address_22bit(datapathSR, datapathSWR) = last.addr
    /\ autoinc = IF last.op \in {"EXAM", "DEPOSIT"} THEN last.op ELSE "none"

Sequenced == ctx = "prompt" /\ connected /\ ~fresh => Matched

IInv ==
  /\ TypeOK /\ session \in Sessions
  /\ HaltShowsPC
  /\ LinePlace /\ FreshFormat /\ LastStatus /\ AlignedLast
  /\ Sequenced
  /\ AddressSequence

LEMMA NotFresh ==
  ASSUME IInv, line = NoCmd
  PROVE  ~fresh
BY DEF IInv, FreshFormat, NoCmd

-----------------------------------------------------------------------------
(* The service *)

\* A sequence that goes on had no error, and keeps its address.
LEMMA Followed ==
  ASSUME TypeOK, LastStatus, NEW act \in Actions, NEW sr, NEW knob,
         act # "LOAD_ADRS", Follow(act, sr, knob) # NoOperation
  PROVE  /\ last # NoOperation /\ memory_status = "OK"
         /\ ~StepError(act) /\ act # "CONT"
         /\ ErrorSR = datapathSR /\ ErrorAutoinc = autoinc
         /\ Follow(act, sr, knob).addr = last.addr
         /\ Follow(act, sr, knob).op =
              IF act = "START" /\ last.op \in {"EXAM", "DEPOSIT"} THEN "START" ELSE last.op
         /\ act \in {"EXAM", "DEPOSIT"} => Follow(act, sr, knob) = last
<1>1. last # NoOperation
  <2>1. NoOperation.op \notin {"EXAM", "DEPOSIT"}
    BY DEF NoOperation
  <2> QED
    BY <2>1 DEF Follow
<1>2. memory_status = "OK" /\ ~StepError(act) /\ act # "CONT"
  BY <1>1 DEF LastStatus, Follow
<1>3. ErrorSR = datapathSR /\ ErrorAutoinc = autoinc
  BY <1>2 DEF ErrorSR, ErrorRaised, AddressError, ErrorAutoinc
<1>4. Follow(act, sr, knob) =
        IF act = "START" /\ last.op \in {"EXAM", "DEPOSIT"} THEN [last EXCEPT !.op = act]
        ELSE last
  BY DEF Follow
<1>5. last \in [op : {"LOAD_ADRS", "EXAM", "DEPOSIT", "START"}, addr : Addresses]
  BY <1>1 DEF TypeOK
<1> QED
  BY <1>1, <1>2, <1>3, <1>4, <1>5

\* LOAD ADRS begins a sequence.
LEMMA LoadBegins ==
  ASSUME TypeOK, NEW sw, NEW sr \in Addresses, NEW knob, console_mode,
         ServicePowered(sw, sr, knob), action_switch(sw) = "LOAD_ADRS"
  PROVE  /\ last' = [op |-> "LOAD_ADRS", addr |-> sr]
         /\ loaded_address_22bit(datapathSR, datapathSWR)' = sr
         /\ autoinc' = "none"
         /\ memory_status' = "OK"
<1>1. ~Stepping("LOAD_ADRS")
  BY DEF Stepping, ErrorAutoinc, TypeOK
<1>2. /\ datapathSR' = LowBits(sr) /\ datapathSWR' = Bank(sr)
      /\ autoinc' = "none" /\ memory_status' = "OK"
      /\ last' = [op |-> "LOAD_ADRS", addr |-> sr]
  BY <1>1 DEF ServicePowered, DisplayedSR, ActionSR, ActionSWR, ActionAutoinc, ActionStatus,
     StepError, Follow
<1>3. LowBits(sr) \in Low /\ Bank(sr) \in 0 .. Banks - 1 /\ LowBits(sr) + Bank(sr) * LowSize = sr
  BY Split
<1>4. LowBits(LowBits(sr)) = LowBits(sr)
  BY <1>3, Loaded, Sizes
<1> QED
  BY <1>2, <1>3, <1>4 DEF loaded_address_22bit

\* The history after any service.
LEMMA ServiceHistory ==
  ASSUME TypeOK, LastStatus, AlignedLast, NEW sw, NEW sr \in Addresses, NEW knob,
         ServicePowered(sw, sr, knob)
  PROVE  LastStatus' /\ AlignedLast'
<1> DEFINE act == action_switch(sw)
<1>1. act \in Actions
  BY ActionSwitch
<1>2. last' = Follow(act, sr, knob) /\ memory_status' = ActionStatus(act, sw)
  BY DEF ServicePowered
<1> HIDE DEF act
<1>3. CASE act = "LOAD_ADRS"
  <2>1. ~StepError(act)
    BY <1>3 DEF StepError, Stepping, ErrorAutoinc, TypeOK
  <2>2. last' = [op |-> "LOAD_ADRS", addr |-> sr] /\ memory_status' = "OK"
    BY <1>2, <1>3, <2>1 DEF Follow, ActionStatus
  <2> QED
    BY <2>2 DEF LastStatus, AlignedLast
<1>4. CASE act # "LOAD_ADRS" /\ last' # NoOperation
  <2>1. /\ last # NoOperation /\ memory_status = "OK" /\ ~StepError(act)
        /\ last'.addr = last.addr /\ last'.op \in {"START", last.op}
    BY <1>1, <1>2, <1>4, Followed
  <2>2. memory_status' = "OK"
    BY <1>2, <2>1 DEF ActionStatus
  <2>3. AlignedLast'
    BY <2>1 DEF AlignedLast, Aligned, IsReg
  <2> QED
    BY <2>2, <2>3 DEF LastStatus
<1>5. CASE last' = NoOperation
  BY <1>5 DEF LastStatus, AlignedLast, NoOperation
<1> QED
  BY <1>3, <1>4, <1>5

\* A service that asks for no access keeps the logic with the sequence.
LEMMA ServiceMatched ==
  ASSUME TypeOK, LastStatus, Matched, NEW sw, NEW sr \in Addresses, NEW knob,
         console_mode, ServicePowered(sw, sr, knob), ~Accessing(sw)
  PROVE  Matched'
<1> DEFINE act == action_switch(sw)
<1>1. act \in Actions
  BY ActionSwitch
<1>2. CASE act = "LOAD_ADRS"
  <2>1. /\ last' = [op |-> "LOAD_ADRS", addr |-> sr] /\ autoinc' = "none"
        /\ loaded_address_22bit(datapathSR, datapathSWR)' = sr
    BY <1>2, LoadBegins
  <2> QED
    BY <2>1 DEF Matched
<1>3. CASE act # "LOAD_ADRS" /\ last' # NoOperation
  <2>1. /\ last' = Follow(act, sr, knob)
        /\ datapathSR' = ActionSR(act, sr) /\ datapathSWR' = ActionSWR(act, sr)
        /\ autoinc' = ActionAutoinc(act)
    BY DEF ServicePowered, DisplayedSR
  <2>2. sw["POWER"]
    BY DEF ServicePowered
  <2> HIDE DEF act
  <2>3. /\ last # NoOperation /\ ~StepError(act) /\ act # "CONT"
        /\ ErrorSR = datapathSR /\ ErrorAutoinc = autoinc
        /\ last'.addr = last.addr
        /\ last'.op = IF act = "START" /\ last.op \in {"EXAM", "DEPOSIT"} THEN "START" ELSE last.op
    BY <1>1, <1>3, <2>1, Followed
  <2>4. act \in {"none", "START"}
    BY <1>1, <1>3, <2>2, <2>3 DEF Accessing, Actions, act
  <2>5. ~Stepping(act)
    BY <2>3, <2>4 DEF Stepping, TypeOK
  <2>6. datapathSR' = datapathSR /\ datapathSWR' = datapathSWR
    BY <1>3, <2>1, <2>3, <2>5 DEF ActionSR, ActionSWR
  <2>7. autoinc' = IF act = "none" THEN autoinc ELSE "none"
    BY <2>1, <2>3, <2>4 DEF ActionAutoinc
  <2>8. autoinc' = IF last'.op \in {"EXAM", "DEPOSIT"} THEN last'.op ELSE "none"
    BY <2>3, <2>4, <2>7 DEF Matched
  <2>9. loaded_address_22bit(datapathSR, datapathSWR)' = last'.addr
    BY <2>3, <2>6 DEF Matched, loaded_address_22bit, LowBits
  <2> QED
    BY <2>8, <2>9 DEF Matched
<1>4. CASE last' = NoOperation
  BY <1>4 DEF Matched
<1> QED
  BY <1>2, <1>3, <1>4
\* The access that the service asks for is the next one of the sequence.
LEMMA AccessAsked ==
  ASSUME TypeOK, LastStatus, AlignedLast, Matched, datapathSR \in Low,
         NEW sw, NEW sr \in Addresses, NEW knob,
         ServicePowered(sw, sr, knob), Accessing(sw), console_mode,
         NEW c, c = ServiceCommand(sw, sr, knob)
  PROVE  /\ c.op \in {"examine", "deposit"}
         /\ c.virt = Virtual(knob)
         /\ ~c.virt => Aligned(c.addr)
         /\ autoinc' = Operation(c)
         /\ last' # NoOperation /\ ~c.virt =>
              last' = last /\ last # NoOperation /\ c.addr = Expected(Operation(c))
<1> DEFINE act == action_switch(sw)
           a == loaded_address_22bit(ActionSR(act, sr), datapathSWR)
<1>1. sw["POWER"] /\ act \in {"EXAM", "DEPOSIT"} /\ ~StepError(act)
  BY DEF Accessing
<1>2. a \in Addresses
  BY ServiceAddress
<1>3. last' = Follow(act, sr, knob) /\ autoinc' = ActionAutoinc(act)
  BY DEF ServicePowered
<1>4. c = ActionCommand(act, sw, sr, knob)
  BY <1>1 DEF ServiceCommand
<1>5. autoinc' = act
  BY <1>1, <1>3 DEF ActionAutoinc
<1> HIDE DEF act
<1>6. c = IF act = "EXAM"
          THEN [op |-> "examine", addr |-> addr_panel2simh(a, knob), virt |-> Virtual(knob)]
          ELSE [op |-> "deposit", addr |-> addr_panel2simh(a, knob), virt |-> Virtual(knob),
                val |-> LowBits(sr)]
  BY <1>1, <1>4 DEF ActionCommand
<1> HIDE DEF a
<1>7. /\ c.op \in {"examine", "deposit"} /\ Operation(c) = act
      /\ c.addr = addr_panel2simh(a, knob) /\ c.virt = Virtual(knob)
  BY <1>1, <1>6 DEF Operation
<1>8. ~c.virt => Aligned(c.addr)
  BY <1>2, <1>7, WordTyped DEF addr_panel2simh, Aligned
<1>9. ASSUME last' # NoOperation, ~c.virt
      PROVE  last' = last /\ last # NoOperation /\ c.addr = Expected(act)
  <2>1. /\ last # NoOperation /\ last' = last
        /\ ErrorSR = datapathSR /\ ErrorAutoinc = autoinc
    <3>1. act \in Actions /\ act # "LOAD_ADRS"
      BY <1>1 DEF Actions
    <3> QED
      BY <1>1, <1>3, <1>9, <3>1, Followed
  <2>2. /\ loaded_address_22bit(datapathSR, datapathSWR) = last.addr
        /\ autoinc = IF last.op \in {"EXAM", "DEPOSIT"} THEN last.op ELSE "none"
    BY <2>1 DEF Matched
  <2>3. Stepping(act) <=> last.op = act
    BY <1>1, <2>1, <2>2 DEF Stepping
  <2>4. last.addr \in Addresses
    BY <2>1 DEF TypeOK
  <2>5. CASE Stepping(act)
    <3>1. last.op = act /\ Aligned(last.addr)
      BY <1>1, <2>1, <2>3, <2>5 DEF AlignedLast
    <3>2. ActionSR(act, sr) = LowBits(increment_address(last.addr))
      BY <1>1, <2>1, <2>2, <2>5 DEF ActionSR
    <3>3. datapathSWR \in 0 .. Banks - 1 /\ ~Virtual(knob)
      BY <1>7, <1>9 DEF TypeOK
    <3>4. addr_panel2simh(a, knob) = NextOf(last.addr)
      BY <2>2, <3>1, <3>2, <3>3, Stepped DEF a
    <3>5. Expected(act) = NextOf(last.addr)
      BY <3>1 DEF Expected, NextOf
    <3> QED
      BY <1>7, <2>1, <3>4, <3>5
  <2>6. CASE ~Stepping(act)
    <3>1. a = last.addr /\ last.op # act
      BY <1>1, <2>1, <2>2, <2>3, <2>6 DEF ActionSR, a
    <3>2. addr_panel2simh(a, knob) = IF IsReg(a) THEN a ELSE Word(a)
      BY <1>7, <1>9 DEF addr_panel2simh
    <3>3. Expected(act) = IF IsReg(a) THEN a ELSE Word(a)
      BY <3>1 DEF Expected
    <3> QED
      BY <1>7, <2>1, <3>2, <3>3
  <2> QED
    BY <2>5, <2>6
<1> QED
  BY <1>5, <1>7, <1>8, <1>9

\* Any poll of the panel.
LEMMA PollKeeps ==
  ASSUME IInv, TypeOK', session' = session, Poll, ctx = "prompt" => line = NoCmd
  PROVE  IInv'
<1>1. PICK sw \in Positions, sr \in SRValues, knob \in Knob :
        /\ ADDR_SELECT' = knob
        /\ ServicePowered(sw, sr, knob) \/ ServicePowerOff(sw)
        /\ LET command == ServiceCommand(sw, sr, knob) IN
           IF ctx = "prompt" /\ connected'
           THEN line' = command /\ simh_cmd_buffer' = NoCmd /\ fresh' = Accessing(sw)
           ELSE simh_cmd_buffer' = command /\ UNCHANGED <<line, fresh>>
  BY DEF Poll
<1>2. sr \in Addresses
  BY SessionTyped DEF IInv
<1>3. connected /\ ctx' = ctx
  BY DEF Poll, cpu
<1>4. line = NoCmd /\ ~fresh
  BY NotFresh DEF IInv, LinePlace
<1>5. LastStatus' /\ AlignedLast'
  <2>1. CASE ServicePowered(sw, sr, knob)
    BY <1>2, <2>1, ServiceHistory DEF IInv
  <2>2. CASE ServicePowerOff(sw)
    BY <2>2 DEF ServicePowerOff, IInv, LastStatus, AlignedLast, logic, Aligned, IsReg, NoOperation
  <2> QED
    BY <1>1, <2>1, <2>2
<1>6. CASE ctx = "prompt" /\ connected'
  <2>1. /\ line' = ServiceCommand(sw, sr, knob) /\ fresh' = Accessing(sw)
    BY <1>1, <1>6
  <2>2. datapathSR \in Low /\ Matched /\ console_mode
    BY <1>3, <1>4, <1>6 DEF IInv, HaltShowsPC, Sequenced, console_mode, sim_is_running
  <2>3. CASE ServicePowered(sw, sr, knob)
    <3>1. datapathSR' \in Low
      BY <1>2, <2>2, <2>3, ServiceAddress DEF IInv, ServicePowered, DisplayedSR
    <3>2. CASE Accessing(sw)
      <4>1. /\ line'.op \in {"examine", "deposit"} /\ line'.virt = Virtual(knob)
            /\ ~line'.virt => Aligned(line'.addr)
            /\ autoinc' = Operation(line')
            /\ last' # NoOperation /\ ~line'.virt =>
                 last' = last /\ last # NoOperation /\ line'.addr = Expected(Operation(line'))
        BY <1>2, <2>1, <2>2, <2>3, <3>2, AccessAsked DEF IInv
      <4>2. FreshFormat'
        BY <1>1, <4>1 DEF FreshFormat, Aligned, IsReg, Operation, Virtual
      <4>3. AddressSequence'
        BY <4>1 DEF AddressSequence, Expected, Operation, IsReg, Word, Bank, LowBits, NoOperation
      <4>4. Sequenced' /\ LinePlace' /\ HaltShowsPC'
        BY <1>3, <1>6, <2>1, <3>1, <3>2 DEF Sequenced, LinePlace, HaltShowsPC, Low
      <4> QED
        BY <1>5, <4>2, <4>3, <4>4 DEF IInv
    <3>3. CASE ~Accessing(sw)
      <4>1. Matched'
        BY <1>2, <2>2, <2>3, <3>3, ServiceMatched DEF IInv
      <4>2. Sequenced' /\ LinePlace' /\ HaltShowsPC'
        BY <1>3, <1>6, <3>1, <4>1 DEF Sequenced, LinePlace, HaltShowsPC, Low
      <4>3. FreshFormat' /\ AddressSequence'
        BY <2>1, <3>3 DEF FreshFormat, AddressSequence
      <4> QED
        BY <1>5, <4>2, <4>3 DEF IInv
    <3> QED
      BY <3>2, <3>3
  <2>4. CASE ServicePowerOff(sw)
    <3>1. ~fresh' /\ UNCHANGED <<datapathSR, datapathSWR, autoinc, last>>
      BY <2>1, <2>4 DEF ServicePowerOff, Accessing, logic
    <3>2. Matched'
      BY <2>2, <3>1 DEF Matched, loaded_address_22bit, LowBits, NoOperation
    <3>3. Sequenced' /\ LinePlace' /\ HaltShowsPC' /\ FreshFormat' /\ AddressSequence'
      BY <1>3, <1>6, <2>2, <3>1, <3>2
      DEF Sequenced, LinePlace, HaltShowsPC, FreshFormat, AddressSequence, Low
    <3> QED
      BY <1>5, <3>3 DEF IInv
  <2> QED
    BY <1>1, <2>3, <2>4
<1>7. CASE ~(ctx = "prompt" /\ connected')
  <2>1. line' = NoCmd /\ ~fresh'
    BY <1>1, <1>4, <1>7
  <2>2. Sequenced' /\ LinePlace' /\ HaltShowsPC' /\ FreshFormat' /\ AddressSequence'
    BY <1>3, <1>7, <2>1 DEF Sequenced, LinePlace, HaltShowsPC, FreshFormat, AddressSequence, NoCmd
  <2> QED
    BY <1>5, <2>2 DEF IInv
<1> QED
  BY <1>6, <1>7
-----------------------------------------------------------------------------
(* The other steps *)

LEMMA ConnectingKeeps ==
  ASSUME IInv, TypeOK', session' = session, Connecting
  PROVE  IInv'
<1>1. line = NoCmd /\ ~fresh
  BY NotFresh DEF IInv, LinePlace, Connecting, realcons_connect, PromptDisconnect, ServiceFails,
     sim_is_running
<1>2. UNCHANGED <<line, fresh>>
  BY DEF Connecting, realcons_connect, PromptDisconnect, ServiceFails, realcons_disconnect, cmdvars
<1>3. LinePlace' /\ FreshFormat' /\ AddressSequence'
  BY <1>1, <1>2 DEF LinePlace, FreshFormat, AddressSequence, NoCmd
<1>4. CASE realcons_connect
  <2>1. last' = NoOperation /\ datapathSR' = PC /\ PC \in Low
    BY <1>4 DEF realcons_connect, IInv, TypeOK
  <2>2. HaltShowsPC' /\ LastStatus' /\ AlignedLast' /\ Sequenced'
    BY <2>1 DEF HaltShowsPC, LastStatus, AlignedLast, Sequenced, Matched, Low, NoOperation
  <2> QED
    BY <1>3, <2>2 DEF IInv
<1>5. CASE PromptDisconnect \/ ServiceFails
  <2>1. ~connected' /\ UNCHANGED <<logic, last>>
    BY <1>5 DEF PromptDisconnect, ServiceFails, realcons_disconnect
  <2>2. HaltShowsPC' /\ Sequenced'
    BY <2>1 DEF HaltShowsPC, Sequenced
  <2>3. LastStatus' /\ AlignedLast'
    BY <2>1 DEF IInv, LastStatus, AlignedLast, Aligned, IsReg, NoOperation, logic
  <2> QED
    BY <1>3, <2>2, <2>3 DEF IInv
<1> QED
  BY <1>4, <1>5 DEF Connecting

\* An access leaves the console address and the sequence where they agree.
LEMMA AccessMatched ==
  ASSUME IInv, NEW c \in Commands \cup Keyboard, NEW byPanel, Access(c, byPanel),
         ctx = "prompt", UNCHANGED panel, byPanel => c = line
  PROVE  /\ LastStatus' /\ AlignedLast'
         /\ connected => Matched'
         /\ datapathSR \in Low => datapathSR' \in Low
<1>1. c.op \in {"examine", "deposit"} /\ c.addr \in Addresses
  BY CommandFields DEF Access
<1>2. /\ LowBits(c.addr) \in Low /\ Bank(c.addr) \in 0 .. Banks - 1
      /\ LowBits(c.addr) + Bank(c.addr) * LowSize = c.addr
  BY <1>1, Split
<1>3. datapathSR \in Low => datapathSR' \in Low
  BY <1>2 DEF Access, EventAccess
<1>4. CASE last' = NoOperation
  BY <1>3, <1>4 DEF LastStatus, AlignedLast, Matched, NoOperation
<1>5. CASE last' # NoOperation
  <2>1. /\ byPanel /\ fresh /\ ~c.virt /\ memory_status' = "OK"
        /\ last' = [op |-> Operation(c), addr |-> c.addr]
    BY <1>5 DEF Access, Operation
  <2>2. c = line /\ ~Virtual(ADDR_SELECT) /\ Aligned(c.addr) /\ autoinc = Operation(c)
    BY <2>1 DEF IInv, FreshFormat
  <2>3. connected => datapathSR' = LowBits(c.addr) /\ datapathSWR' = Bank(c.addr)
    BY <1>5, <2>1, <2>2 DEF Access, EventAccess
  <2>4. autoinc' = Operation(c) /\ Operation(c) \in {"EXAM", "DEPOSIT"}
    BY <2>2 DEF Access, Operation
  <2>5. LowBits(LowBits(c.addr)) = LowBits(c.addr)
    BY <1>2, Loaded, Sizes
  <2>6. connected => loaded_address_22bit(datapathSR, datapathSWR)' = c.addr
    BY <1>2, <2>3, <2>5 DEF loaded_address_22bit
  <2>7. connected => Matched'
    BY <2>1, <2>4, <2>6 DEF Matched
  <2>8. LastStatus' /\ AlignedLast'
    BY <2>1, <2>2 DEF LastStatus, AlignedLast, Aligned, IsReg
  <2> QED
    BY <1>3, <2>7, <2>8
<1> QED
  BY <1>4, <1>5

\* Any command.
LEMMA ExecuteKeeps ==
  ASSUME IInv, TypeOK', session' = session, NEW c \in Commands \cup Keyboard, NEW byPanel,
         Execute(c, byPanel), byPanel => c = line, ~byPanel => line = NoCmd,
         line' = NoCmd, ~fresh'
  PROVE  IInv'
<1>1. ctx = "prompt" /\ UNCHANGED panel /\ connected' = connected
  BY DEF Execute, panel
<1>2. LinePlace' /\ FreshFormat' /\ AddressSequence'
  BY DEF LinePlace, FreshFormat, AddressSequence
<1>3. connected => datapathSR \in Low
  BY <1>1 DEF IInv, HaltShowsPC
<1>4. SUFFICES /\ LastStatus' /\ AlignedLast'
               /\ ctx' = "prompt" /\ connected => Matched' /\ datapathSR' \in Low
  BY <1>1, <1>2 DEF IInv, HaltShowsPC, Sequenced, Low
<1>5. CASE Access(c, byPanel)
  BY <1>1, <1>3, <1>5, AccessMatched
<1>6. ASSUME c.op \notin {"examine", "deposit"}
      PROVE  ~fresh
  BY <1>6, NotFresh DEF IInv, FreshFormat
<1>7. ASSUME ~fresh, UNCHANGED <<logic, last>>
      PROVE  LastStatus' /\ AlignedLast' /\ (connected => Matched' /\ datapathSR' \in Low)
  <2>1. connected => Matched
    BY <1>1, <1>7 DEF IInv, Sequenced
  <2>2. LastStatus' /\ AlignedLast'
    BY <1>7 DEF IInv, LastStatus, AlignedLast, Aligned, IsReg, NoOperation, logic
  <2> QED
    BY <1>3, <1>7, <2>1, <2>2 DEF Matched, logic, loaded_address_22bit, LowBits, NoOperation
<1>8. ASSUME last' = NoOperation, UNCHANGED logic
      PROVE  LastStatus' /\ AlignedLast' /\ (connected => Matched' /\ datapathSR' \in Low)
  BY <1>3, <1>8 DEF LastStatus, AlignedLast, Matched, logic, NoOperation
<1>9. CASE ResetAll(c) \/ Quit(c)
  BY <1>6, <1>7, <1>9 DEF ResetAll, Quit
<1>10. CASE Run(c)
  <2>1. UNCHANGED logic /\ (UNCHANGED last \/ last' = NoOperation) /\ ~fresh
    BY <1>6, <1>10 DEF Run
  <2> QED
    BY <1>7, <1>8, <2>1
<1>11. CASE Boot(c) \/ Continue(c)
  BY <1>8, <1>11 DEF Boot, Continue
<1>12. CASE Step(c)
  BY <1>12 DEF Step, LastStatus, AlignedLast, NoOperation
<1> QED
  BY <1>5, <1>9, <1>10, <1>11, <1>12 DEF Execute

LEMMA CPUKeeps ==
  ASSUME IInv, TypeOK', session' = session, CPUTurn \/ Interrupt \/ StopEvent
  PROVE  IInv'
<1>1. ctx \in {"run", "reset"} /\ line = NoCmd /\ ~fresh
  BY NotFresh DEF CPUTurn, Instruction, BeginReset, EndReset, Idle, Interrupt, StopEvent, IInv, LinePlace
<1>2. UNCHANGED <<line, fresh, connected>>
  BY DEF CPUTurn, Instruction, BeginReset, EndReset, Idle, Interrupt, StopEvent, KeepLogic, panel, cmdvars
<1>3. LinePlace' /\ FreshFormat' /\ AddressSequence'
  BY <1>1, <1>2 DEF LinePlace, FreshFormat, AddressSequence
<1>4. ASSUME ctx' # "prompt", UNCHANGED <<memory_status, last>>
      PROVE  IInv'
  BY <1>3, <1>4 DEF IInv, HaltShowsPC, LastStatus, AlignedLast, Sequenced, Aligned, IsReg, NoOperation
<1>5. ASSUME NEW pc \in Low, HaltedAt(pc), UNCHANGED memory_status
      PROVE  IInv'
  BY <1>2, <1>3, <1>5 DEF HaltedAt, EventSR, IInv, HaltShowsPC, LastStatus, AlignedLast, Sequenced, Matched,
     NoOperation, Low
<1>6. ASSUME NEW pc \in PCs, NEW halt, EndInstruction(pc, halt), KeepLogic
      PROVE  IInv'
  <2>1. pc \in Low /\ UNCHANGED memory_status
    BY <1>6, SessionTyped DEF IInv, KeepLogic
  <2>2. HaltedAt(pc) \/ (ctx' = "run" /\ UNCHANGED last)
    BY <1>6 DEF EndInstruction
  <2> QED
    BY <1>4, <1>5, <2>1, <2>2
<1>7. CASE Instruction
  BY <1>6, <1>7 DEF Instruction
<1>8. CASE EndReset
  BY <1>6, <1>8 DEF EndReset
<1>9. CASE BeginReset \/ Idle \/ Interrupt
  BY <1>4, <1>9 DEF BeginReset, Idle, Interrupt, logic
<1>10. CASE StopEvent
  BY <1>5, <1>10 DEF StopEvent, KeepLogic, IInv, TypeOK
<1> QED
  BY <1>7, <1>8, <1>9, <1>10 DEF CPUTurn

LEMMA IInvInit ==
  Init => IInv
<1> SUFFICES ASSUME Init PROVE IInv
  OBVIOUS
<1>1. TypeOK /\ session \in Sessions
  BY TypeInit DEF Init
<1>2. 0 \in Low
  BY Sizes DEF Low
<1>3. /\ HaltShowsPC /\ LinePlace /\ FreshFormat /\ LastStatus /\ AlignedLast
      /\ Sequenced /\ AddressSequence
  BY <1>2 DEF Init, HaltShowsPC, LinePlace, FreshFormat, LastStatus, AlignedLast, Sequenced, AddressSequence
<1> QED
  BY <1>1, <1>3 DEF IInv

LEMMA IInvStep ==
  IInv /\ [Next /\ UNCHANGED session]_<<vars, session>> => IInv'
<1> SUFFICES ASSUME IInv, [Next /\ UNCHANGED session]_<<vars, session>>
             PROVE  IInv'
  OBVIOUS
<1>1. TypeOK' /\ session' = session
  BY TypeStep DEF IInv
<1>2. CASE UNCHANGED <<vars, session>>
  BY <1>1, <1>2 DEF IInv, vars, panel, logic, cmdvars, cpu, HaltShowsPC, LinePlace, FreshFormat, LastStatus,
     AlignedLast, Sequenced, Matched, AddressSequence, Aligned, IsReg, Operation, Virtual, Expected, Word,
     Bank, LowBits, loaded_address_22bit, Low, NoOperation, NoCmd
<1>3. CASE Service
  BY <1>1, <1>3, PollKeeps DEF Service, sim_is_running
<1>4. CASE PromptTurn
  BY <1>1, <1>4, PollKeeps DEF PromptTurn
<1>5. CASE Connecting
  BY <1>1, <1>5, ConnectingKeeps
<1>6. CASE PanelCommand
  <2>1. line \in Commands \cup Keyboard
    BY DEF IInv, TypeOK
  <2> QED
    BY <1>1, <1>6, <2>1, ExecuteKeeps DEF PanelCommand
<1>7. ASSUME NEW c \in Typed, TypedCommand(c)
      PROVE  IInv'
  <2>1. c \in Commands \cup Keyboard
    BY SessionTyped DEF IInv
  <2>2. Execute(c, FALSE) /\ line = NoCmd /\ line' = NoCmd /\ ~fresh'
    BY <1>7, NotFresh DEF TypedCommand
  <2> QED
    BY <1>1, <2>1, <2>2, ExecuteKeeps
<1>8. CASE CPUTurn \/ Interrupt \/ StopEvent
  BY <1>1, <1>8, CPUKeeps
<1> QED
  BY <1>2, <1>3, <1>4, <1>5, <1>6, <1>7, <1>8 DEF Next

-----------------------------------------------------------------------------
(* The theorems *)

THEOREM Invariance ==
  Spec => []IInv
<1>1. Init => IInv
  BY IInvInit
<1>2. IInv /\ [Next /\ UNCHANGED session]_<<vars, session>> => IInv'
  BY IInvStep
<1> QED
  BY <1>1, <1>2, PTL DEF Spec

\* Every variable of the panel, its logic, the command loop and the CPU keeps
\* its type, and no action depends on a value of another one.
THEOREM TypeCorrect ==
  Spec => []TypeOK
<1>1. IInv => TypeOK
  BY DEF IInv
<1> QED
  BY <1>1, Invariance, PTL

\* The panel shows a console address whenever the CPU is halted: RUN has left
\* no 0x123456 in the data path SR (realcons_console_pdp11_70.c).
THEOREM HaltShowsAnAddress ==
  Spec => []HaltShowsPC
<1>1. IInv => HaltShowsPC
  BY DEF IInv
<1> QED
  BY <1>1, Invariance, PTL

\* Repeated EXAM and DEPOSIT step through memory and the registers as the manual
\* says, whatever else happens between them.
THEOREM SequencesStep ==
  Spec => []AddressSequence
<1>1. IInv => AddressSequence
  BY DEF IInv
<1> QED
  BY <1>1, Invariance, PTL

\* START runs the program from the address LOAD ADRS has loaded.
THEOREM StartLoaded ==
  Spec => StartsAtLoaded
<1>1. ASSUME IInv, PanelCommand, line.op = "run", ctx' = "run", last.op = "LOAD_ADRS"
      PROVE  PC' = LowBits(last.addr) /\ ~wait_state'
  <2>1. ctx = "prompt" /\ connected /\ ~fresh /\ last # NoOperation
    <3>1. LinePlace /\ FreshFormat /\ line # NoCmd
      BY <1>1 DEF IInv, PanelCommand
    <3> QED
      BY <1>1, <3>1 DEF LinePlace, FreshFormat, NoOperation
  <2>2. loaded_address_22bit(datapathSR, datapathSWR) = last.addr
    <3>1. Matched
      BY <1>1, <2>1 DEF IInv, Sequenced
    <3> QED
      BY <2>1, <3>1 DEF Matched
  <2>3. datapathSR \in Nat /\ datapathSWR \in 0 .. Banks - 1
    BY <1>1, Sizes, ConsoleAssumption DEF IInv, TypeOK
  <2>4. LowBits(last.addr) = LowBits(datapathSR)
    BY <2>2, <2>3, Loaded
  <2>5. Run(line)
    BY <1>1 DEF PanelCommand, Execute, Access, ResetAll, Run, Boot, Continue, Step, Quit
  <2>6. \E pc : PC' = ResetPC(pc) /\ wait_state' = FALSE
    BY <1>1, <2>1, <2>5 DEF Run, cpu
  <2> QED
    BY <2>1, <2>4, <2>6 DEF ResetPC
<1>2. IInv /\ [Next /\ UNCHANGED session]_<<vars, session>> =>
        [PanelCommand /\ line.op = "run" /\ ctx' = "run" /\ last.op = "LOAD_ADRS"
           => PC' = LowBits(last.addr) /\ ~wait_state']_vars
  BY <1>1
<1> QED
  BY <1>2, Invariance, PTL DEF Spec, StartsAtLoaded
=============================================================================
