--------------------------- MODULE UsbLinesProofs ---------------------------
(***************************************************************************)
(* Proofs about the settings of the USB driver: for every set of settings, *)
(* tasks, requests and reports, the chip runs in the format and at the     *)
(* rate that the tty layer asked for, and drives the control lines that    *)
(* the driver believes it drives.                                          *)
(***************************************************************************)
EXTENDS UsbLines, TLAPS

-----------------------------------------------------------------------------
(* The factor of the clock                                                 *)

\* A quotient is the whole number of times the divisor fits.
LEMMA Quotient ==
    ASSUME NEW c \in Nat, NEW d \in Nat \ {0}
    PROVE  /\ c \div d \in Nat
           /\ (c \div d) * d <= c
           /\ c < (c \div d + 1) * d
<1> DEFINE q == c \div d
<1>1. q \in Int
  OBVIOUS
<1>2. q >= 0
  OBVIOUS
<1>3. d * q <= c /\ c < d * q + d
  OBVIOUS
<1> HIDE DEF q
<1>4. q * d = d * q /\ (q + 1) * d = d * q + d
  BY <1>1
<1>5. q \in Nat /\ q * d <= c /\ c < (q + 1) * d
  BY <1>1, <1>2, <1>3, <1>4
<1> QED
  BY <1>5 DEF q

\* A larger divisor fits less often.
LEMMA FitsLess ==
    ASSUME NEW c \in Nat, NEW d \in Nat \ {0}, NEW e \in Nat \ {0}, d <= e
    PROVE  c \div e <= c \div d
<1> DEFINE p == c \div d
           q == c \div e
<1>1. p \in Nat /\ c < (p + 1) * d
  BY Quotient
<1>2. q \in Nat /\ q * e <= c
  BY Quotient
<1>3. SUFFICES ASSUME p + 1 <= q PROVE FALSE
  BY <1>1, <1>2
<1> HIDE DEF p, q
<1>4. (p + 1) * d <= q * d
  BY <1>1, <1>2, <1>3
<1>5. q * d <= q * e
  BY <1>2
<1> QED
  BY <1>1, <1>2, <1>4, <1>5

\* What divided by b fits at least a times, divided by a is at least b.
LEMMA Swapped ==
    ASSUME NEW c \in Nat, NEW b \in Nat \ {0}, c \div b \in Nat \ {0}
    PROVE  /\ c \div (c \div b) >= b
           /\ c \div (c \div b + 1) <= b
<1> DEFINE a == c \div b
<1>1. a \in Nat \ {0} /\ a * b <= c /\ c < (a + 1) * b
  BY Quotient
<1> HIDE DEF a
<1>2. c \div a \in Nat /\ c < (c \div a + 1) * a
  BY <1>1, Quotient
<1>3. c \div (a + 1) \in Nat /\ (c \div (a + 1)) * (a + 1) <= c
  BY <1>1, Quotient
<1>4. c \div a >= b
  <2> DEFINE q == c \div a
  <2>1. q \in Nat /\ a * b < (q + 1) * a
    BY <1>1, <1>2
  <2> HIDE DEF q
  <2>2. SUFFICES ASSUME q + 1 <= b PROVE FALSE
    BY <2>1 DEF q
  <2>3. (q + 1) * a <= b * a
    BY <1>1, <2>1, <2>2
  <2> QED
    BY <1>1, <2>1, <2>3
<1>5. c \div (a + 1) <= b
  <2> DEFINE q == c \div (a + 1)
  <2>1. q \in Nat /\ q * (a + 1) < (a + 1) * b
    BY <1>1, <1>3
  <2> HIDE DEF q
  <2>2. SUFFICES ASSUME b + 1 <= q PROVE FALSE
    BY <2>1 DEF q
  <2>3. (b + 1) * (a + 1) <= q * (a + 1)
    BY <1>1, <2>1, <2>2
  <2> QED
    BY <1>1, <2>1, <2>3
<1> QED
  BY <1>4, <1>5 DEF a

Distance(rate, b) == IF rate > b THEN rate - b ELSE b - rate

\* The factor the driver rounds to.
Rounded(c, b) ==
    LET a == c \div b IN
    IF c \div a - b > b - c \div (a + 1) THEN a + 1 ELSE a

\* It is c / b or one more, and no other one comes nearer.
LEMMA Nearest ==
    ASSUME NEW c \in Nat, NEW b \in Nat \ {0}, c \div b \in Nat \ {0},
           NEW d \in Nat \ {0}
    PROVE  Distance(c \div Rounded(c, b), b) <= Distance(c \div d, b)
<1> DEFINE a    == c \div b
           low  == c \div (a + 1)
           high == c \div a
           x    == c \div d
<1>1. /\ a \in Nat \ {0} /\ a + 1 \in Nat \ {0}
  OBVIOUS
<1>2. low \in Nat /\ high \in Nat /\ x \in Nat
  BY <1>1, Quotient
<1>3. high >= b /\ low <= b
  BY Swapped
<1>4. x >= high \/ x <= low
  <2>1. CASE d <= a
    BY <1>1, <2>1, FitsLess
  <2>2. CASE a + 1 <= d
    BY <1>1, <2>2, FitsLess
  <2> QED
    BY <1>1, <2>1, <2>2
<1>5. c \div Rounded(c, b) = IF high - b > b - low THEN low ELSE high
  BY DEF Rounded
<1> HIDE DEF a, low, high, x
<1>6. Distance(IF high - b > b - low THEN low ELSE high, b) <= Distance(x, b)
  BY <1>2, <1>3, <1>4 DEF Distance
<1> QED
  BY <1>5, <1>6 DEF x

-----------------------------------------------------------------------------
(* The registers                                                           *)

\* The prescaled clock of a rate that the chip has a factor for.
LEMMA Clock ==
    ASSUME NEW b \in Nat, 46 <= b, b <= 6000000
    PROVE  /\ Prescaled(b)[1] \in Nat
           /\ Prescaled(b)[1] \div b \in 1 .. 254
<1>1. CASE b > 23529
  <2>1. Prescaled(b)[1] = 6000000
    BY SMT, <1>1 DEF Prescaled
  <2>2. 6000000 \div b \in 1 .. 254
    BY SMT, <1>1
  <2> QED
    BY SMT, <2>1, <2>2
<1>2. CASE b > 2941 /\ ~(b > 23529)
  <2>1. Prescaled(b)[1] = 750000
    BY SMT, <1>2 DEF Prescaled
  <2>2. 750000 \div b \in 1 .. 254
    BY SMT, <1>2
  <2> QED
    BY SMT, <2>1, <2>2
<1>3. CASE b > 367 /\ ~(b > 2941)
  <2>1. Prescaled(b)[1] = 93750
    BY SMT, <1>3 DEF Prescaled
  <2>2. 93750 \div b \in 1 .. 254
    BY SMT, <1>3
  <2> QED
    BY SMT, <2>1, <2>2
<1>4. CASE ~(b > 367)
  <2>1. Prescaled(b)[1] = 11719
    BY SMT, <1>4 DEF Prescaled
  <2>2. 11719 \div b \in 1 .. 254
    BY SMT, <1>4
  <2> QED
    BY SMT, <2>1, <2>2
<1> QED
  BY SMT, <1>1, <1>2, <1>3, <1>4

\* For these rates nothing is cut off: the register holds the rounded factor.
LEMMA Factor ==
    ASSUME NEW b \in Nat, 46 <= b, b <= 6000000
    PROVE  /\ Rounded(Prescaled(b)[1], b) \in 1 .. 255
           /\ Divided(b) = <<256 - Rounded(Prescaled(b)[1], b),
                             Prescaled(b)[2]>>
<1> DEFINE c == Prescaled(b)[1]
           a == c \div b
<1>1. c \in Nat /\ a \in 1 .. 254 /\ b \in Nat \ {0}
  BY SMT, Clock
<1>2. c \div (a + 1) <= b /\ c \div (a + 1) \in Nat
  BY SMT, <1>1, Swapped, Quotient
<1>3. Rounded(c, b) = IF c \div a - b > b - c \div (a + 1) THEN a + 1 ELSE a
  BY SMT DEF Rounded
<1>4. a % 256 = a /\ a \notin {0, 255}
  BY SMT, <1>1
<1>5. Rounded(c, b) \in 1 .. 255
  BY SMT, <1>1, <1>3
<1>6. Divided(b) = <<256 - Rounded(c, b), Prescaled(b)[2]>>
  BY SMT, <1>2, <1>3, <1>4 DEF Divided
<1> QED
  BY SMT, <1>5, <1>6

\* Any other rate leaves two bytes too.
LEMMA DividedBytes ==
    ASSUME NEW b \in Nat \ {0}
    PROVE  Divided(b)[1] \in 0 .. 255 /\ Divided(b)[2] \in 0 .. 3
<1> DEFINE c == Prescaled(b)[1]
           a == (c \div b) % 256
           up == IF c \div (a + 1) <= b
                      /\ c \div a - b > b - c \div (a + 1)
                 THEN a + 1 ELSE a
<1>1. c \in Nat /\ Prescaled(b)[2] \in 0 .. 3
  BY SMT DEF Prescaled
<1>2. c \div b \in Int
  BY SMT, <1>1
<1>3. a \in 0 .. 255
  BY SMT, <1>2
<1>4. a \notin {0, 255} => 256 - up \in 0 .. 255
  <2> HIDE DEF c
  <2>1. up \in {a, a + 1}
    BY SMT
  <2> HIDE DEF a, up
  <2> QED
    BY SMT, <1>3, <2>1
<1>5. Divided(b) = IF a \in {0, 255} THEN <<0, 0>>
                   ELSE <<256 - up, Prescaled(b)[2]>>
  BY SMT DEF Divided
<1> HIDE DEF a, up
<1> QED
  BY SMT, <1>1, <1>4, <1>5

LEMMA RateBytes ==
    ASSUME termios \in Termios
    PROVE  Rate[1] \in 0 .. 255 /\ Rate[2] \in 0 .. 7
<1>1. termios.baud \in Nat
  BY SMT DEF Termios
<1>2. CASE termios.baud = 0
  BY SMT, <1>2 DEF Rate
<1>3. CASE termios.baud # 0
  <2>1. Rate = BaudRate(termios.baud)
    BY SMT, <1>3 DEF Rate
  <2>2. CASE termios.baud \in {921600, 307200}
    BY SMT, <2>1, <2>2 DEF BaudRate
  <2>3. CASE termios.baud \notin {921600, 307200}
    BY SMT, <1>1, <1>3, <2>1, <2>3, DividedBytes DEF BaudRate
  <2> QED
    BY SMT, <2>2, <2>3
<1> QED
  BY SMT, <1>2, <1>3

\* Both registers have sixteen bits.
LEMMA InitWord ==
    ASSUME NEW s \in Termios, NEW rate, rate[1] \in 0 .. 255, rate[2] \in 0 .. 7
    PROVE  /\ SerialInit(s, rate) \in [value : Nat, index : Nat]
           /\ SerialInit(s, rate).value < 65536
           /\ SerialInit(s, rate).index < 65536
<1> DEFINE stop == IF s.stop2 THEN 4 ELSE 0
           value == 156 + 256 * (192 + s.size - 5 + stop + ParityBits(s.parity))
           r1 == rate[1]
           r2 == rate[2]
           index == 128 + r2 + 256 * r1
<1>1. s.size \in 5 .. 8 /\ s.parity \in Parities
  BY SMT DEF Termios
<1>2. ParityBits(s.parity) \in 0 .. 56
  BY SMT, <1>1 DEF ParityBits, Parities
<1>3. stop \in 0 .. 4
  BY SMT
<1>4. SerialInit(s, rate) = [value |-> value, index |-> index]
  BY SMT DEF SerialInit
<1> HIDE DEF stop
<1>5. value \in Nat /\ value < 65536
  BY SMT, <1>1, <1>2, <1>3
<1>6. r1 \in 0 .. 255 /\ r2 \in 0 .. 7
  OBVIOUS
<1> HIDE DEF r1, r2
<1>7. index \in Nat /\ index < 65536
  BY SMT, <1>6
<1> HIDE DEF value, index
<1> QED
  BY SMT, <1>4, <1>5, <1>7

-----------------------------------------------------------------------------
(* Types                                                                   *)

LEMMA StandardIsTermios == Standard \in Termios
  BY SMT DEF Standard, Termios, Parities

\* TypeOK in parts: flags, values, registers, and where the contexts are.
FlagsOK ==
    /\ initialized \in BOOLEAN /\ listening \in BOOLEAN /\ chipFlow \in BOOLEAN
    /\ oops \in BOOLEAN /\ unset \in BOOLEAN /\ stale \in BOOLEAN

ValuesOK ==
    /\ termios \in Termios
    /\ old \subseteq Termios
    /\ lineControl \subseteq Byte
    /\ lines \subseteq CONTROL
    /\ faults \in 0 .. MaxFaults

ChipOK ==
    /\ chip \in [value : Nat, index : Nat]
    /\ chip.value < 65536 /\ chip.index < 65536

PlacesOK ==
    /\ port \in {"closed", "opening", "open", "closing"}
    /\ pc \in [Contexts -> Steps]
    /\ \A t \in Tasks : pc[t] \in {"idle", "send"}
    /\ control \in [Contexts -> SUBSET Byte]
    /\ newest \subseteq Contexts

LEMMA TypeParts == TypeOK <=> FlagsOK /\ ValuesOK /\ ChipOK /\ PlacesOK
  BY DEF TypeOK, FlagsOK, ValuesOK, ChipOK, PlacesOK

LEMMA TypeInit ==
    ASSUME UsbLinesAssumption, Init
    PROVE  TypeOK
<1>0. FlagsOK
  BY DEF Init, FlagsOK
<1>1. ValuesOK
  BY SMT DEF UsbLinesAssumption, Init, ValuesOK
<1>2. ChipOK
  BY SMT DEF Init, ChipOK
<1>3. PlacesOK
  BY SMT DEF Init, PlacesOK, Contexts, Steps
<1> QED
  BY <1>0, <1>1, <1>2, <1>3, TypeParts

\* A context moves on; a task only between the two places it has.
LEMMA Moves ==
    ASSUME UsbLinesAssumption, PlacesOK, NEW c \in Contexts, NEW s \in Steps,
           Goto(c, s), c = Tty \/ s \in {"idle", "send"}
    PROVE  /\ pc' \in [Contexts -> Steps]
           /\ \A t \in Tasks : pc'[t] \in {"idle", "send"}
<1> USE DEF PlacesOK, Goto, Contexts
<1>1. pc' \in [Contexts -> Steps]
  BY SMT
<1>2. ASSUME NEW t \in Tasks PROVE pc'[t] \in {"idle", "send"}
  BY SMT DEF UsbLinesAssumption
<1> QED
  BY <1>1, <1>2

\* The context of the tty layer may be at any step.
LEMMA TtyMoves ==
    ASSUME UsbLinesAssumption, PlacesOK, NEW s \in Steps, Goto(Tty, s)
    PROVE  /\ pc' \in [Contexts -> Steps]
           /\ \A t \in Tasks : pc'[t] \in {"idle", "send"}
  BY Moves DEF Contexts

LEMMA PlacesStep ==
    ASSUME UsbLinesAssumption, TypeOK, [Next]_vars
    PROVE  PlacesOK'
<1>0. PlacesOK /\ lineControl \subseteq Byte
  BY DEF TypeOK, PlacesOK
<1> DEFINE Rest == /\ port' \in {"closed", "opening", "open", "closing"}
                   /\ control' \in [Contexts -> SUBSET Byte]
                   /\ newest' \subseteq Contexts
           Tidy == \E s \in Steps : Goto(Tty, s)
<1>t. ASSUME Tidy, Rest PROVE PlacesOK'
  BY <1>0, <1>t, TtyMoves DEF PlacesOK
<1> USE DEF Steps
<1>1. CASE Open
  <2>1. Tidy
    BY <1>1 DEF Open
  <2>2. Rest
    BY SMT, <1>0, <1>1 DEF Open, PlacesOK
  <2> QED
    BY <1>t, <2>1, <2>2
<1>2. CASE Filter
  <2>1. Tidy
    BY <1>2 DEF Filter
  <2>2. Rest
    BY SMT, <1>0, <1>2 DEF Filter, PlacesOK
  <2> QED
    BY <1>t, <2>1, <2>2
<1>3. CASE Trap
  <2>1. Tidy
    BY <1>3 DEF Trap
  <2>2. Rest
    BY SMT, <1>0, <1>3 DEF Trap, PlacesOK
  <2> QED
    BY <1>t, <2>1, <2>2
<1>4. CASE SendInit
  <2>1. Tidy
    BY <1>4 DEF SendInit
  <2>2. Rest
    BY SMT, <1>0, <1>4 DEF SendInit, PlacesOK
  <2> QED
    BY <1>t, <2>1, <2>2
<1>5. CASE ChangeLines
  <2>1. Tidy
    BY <1>5 DEF ChangeLines
  <2>2. Wanted \in SUBSET Byte
    BY SMT, <1>0 DEF Wanted, CONTROL, DTR, RTS, Byte
  <2>3. Rest
    BY SMT, <1>0, <1>5, <2>2 DEF ChangeLines, Capture, PlacesOK, Contexts
  <2> QED
    BY <1>t, <2>1, <2>3
<1>6. CASE SendFlow
  <2>1. Tidy
    BY <1>6 DEF SendFlow
  <2>2. Rest
    BY SMT, <1>0, <1>6 DEF SendFlow, PlacesOK
  <2> QED
    BY <1>t, <2>1, <2>2
<1>7. CASE Return
  <2>1. Tidy
    BY <1>7 DEF Return
  <2>2. Rest
    BY SMT, <1>0, <1>7 DEF Return, PlacesOK
  <2> QED
    BY <1>t, <2>1, <2>2
<1>8. CASE Close
  <2>1. Tidy
    BY <1>8 DEF Close
  <2>2. Rest
    BY SMT, <1>0, <1>8 DEF Close, PlacesOK
  <2> QED
    BY <1>t, <2>1, <2>2
<1>9. CASE HangUp
  <2>1. Tidy
    BY <1>9 DEF HangUp
  <2>2. Rest
    BY SMT, <1>0, <1>9 DEF HangUp, Capture, PlacesOK, Contexts
  <2> QED
    BY <1>t, <2>1, <2>2
<1>10. CASE \E s \in Settings : SetTermios(s)
  <2>1. Tidy
    BY <1>10 DEF SetTermios
  <2>2. Rest
    BY SMT, <1>0, <1>10 DEF SetTermios, PlacesOK
  <2> QED
    BY <1>t, <2>1, <2>2
<1>11. ASSUME NEW c \in Contexts, Send(c)
       PROVE  PlacesOK'
  <2> DEFINE to == IF c = Tty /\ pc[c] = "send" THEN "flow" ELSE "idle"
  <2>1. Goto(c, to) /\ to \in Steps /\ (c = Tty \/ to = "idle")
    BY SMT, <1>11 DEF Send
  <2> HIDE DEF to
  <2>2. /\ pc' \in [Contexts -> Steps]
        /\ \A t \in Tasks : pc'[t] \in {"idle", "send"}
    BY <1>0, <2>1, Moves
  <2>3. control' \in [Contexts -> SUBSET Byte] /\ newest' \subseteq Contexts
    BY SMT, <1>0, <1>11 DEF Send, PlacesOK
  <2>4. port' \in {"closed", "opening", "open", "closing"}
    BY SMT, <1>0, <1>11 DEF Send, PlacesOK
  <2> QED
    BY <2>2, <2>3, <2>4 DEF PlacesOK
<1>12. ASSUME NEW t \in Tasks, NEW r \in Requests, Tiocmset(t, r[1], r[2])
       PROVE  PlacesOK'
  <2>1. r[1] \subseteq Byte
    BY SMT DEF UsbLinesAssumption, CONTROL, DTR, RTS, Byte
  <2>2. t \in Contexts /\ Goto(t, "send")
    BY <1>12 DEF Tiocmset, Contexts
  <2>3. /\ pc' \in [Contexts -> Steps]
        /\ \A u \in Tasks : pc'[u] \in {"idle", "send"}
    BY <1>0, <2>2, Moves
  <2>4. /\ control' \in [Contexts -> SUBSET Byte] /\ newest' \subseteq Contexts
        /\ port' \in {"closed", "opening", "open", "closing"}
    BY SMT, <1>0, <1>12, <2>1, <2>2 DEF Tiocmset, Capture, PlacesOK
  <2> QED
    BY <2>3, <2>4 DEF PlacesOK
<1>13. CASE \E portb \in PortBytes : UpdateLineStatus(portb)
  BY SMT, <1>0, <1>13 DEF UpdateLineStatus, PlacesOK
<1>14. CASE UNCHANGED vars
  BY <1>0, <1>14 DEF vars, PlacesOK
<1> QED
  BY <1>1, <1>2, <1>3, <1>4, <1>5, <1>6, <1>7, <1>8, <1>9, <1>10, <1>11,
     <1>12, <1>13, <1>14 DEF Next

LEMMA ChipStep ==
    ASSUME UsbLinesAssumption, TypeOK, [Next]_vars
    PROVE  ChipOK'
<1>1. ChipOK /\ termios \in Termios
  BY DEF TypeOK, ChipOK
<1>2. CASE SendInit
  <2>1. Rate[1] \in 0 .. 255 /\ Rate[2] \in 0 .. 7
    BY <1>1, RateBytes
  <2>2. /\ SerialInit(termios, Rate) \in [value : Nat, index : Nat]
        /\ SerialInit(termios, Rate).value < 65536
        /\ SerialInit(termios, Rate).index < 65536
    BY <1>1, <2>1, InitWord
  <2>3. chip' = SerialInit(termios, Rate) \/ chip' = chip
    BY <1>2 DEF SendInit
  <2> QED
    BY <1>1, <2>2, <2>3 DEF ChipOK
<1>3. CASE ~SendInit
  <2>1. chip' = chip
    BY <1>3 DEF Next, vars, device, settings, Open, Filter, Trap, ChangeLines,
       SendFlow, Return, Close, HangUp, SetTermios, Send, Tiocmset,
       UpdateLineStatus
  <2> QED
    BY <1>1, <2>1 DEF ChipOK
<1> QED
  BY <1>2, <1>3

LEMMA ValuesStep ==
    ASSUME UsbLinesAssumption, TypeOK, [Next]_vars
    PROVE  ValuesOK'
<1>0. ValuesOK /\ control \in [Contexts -> SUBSET Byte]
  BY DEF TypeOK, ValuesOK
<1> USE DEF ValuesOK, settings, device, Arrives, Fails, UsbLinesAssumption
<1>1. CASE Open
  BY SMT, <1>0, <1>1 DEF Open
<1>2. CASE Filter
  BY SMT, <1>0, <1>2, StandardIsTermios DEF Filter
<1>3. CASE Trap
  BY SMT, <1>0, <1>3 DEF Trap
<1>4. CASE SendInit
  BY SMT, <1>0, <1>4 DEF SendInit
<1>5. CASE ChangeLines
  <2>1. Wanted \subseteq Byte
    BY SMT, <1>0 DEF Wanted, CONTROL, DTR, RTS, Byte
  <2>2. lineControl' = Wanted \/ lineControl' = lineControl
    BY <1>5 DEF ChangeLines, Capture
  <2>3. lineControl' \subseteq Byte
    BY <1>0, <2>1, <2>2
  <2>4. /\ termios' = termios /\ old' = old /\ lines' = lines
        /\ faults' = faults
    BY <1>5 DEF ChangeLines
  <2> QED
    BY <1>0, <2>3, <2>4
<1>6. CASE SendFlow
  BY SMT, <1>0, <1>6 DEF SendFlow
<1>7. CASE Return
  BY SMT, <1>0, <1>7 DEF Return
<1>8. CASE Close
  BY SMT, <1>0, <1>8 DEF Close
<1>9. CASE HangUp
  BY SMT, <1>0, <1>9 DEF HangUp, Capture
<1>10. CASE \E s \in Settings : SetTermios(s)
  BY SMT, <1>0, <1>10 DEF SetTermios
<1>11. ASSUME NEW c \in Contexts, Send(c)
       PROVE  ValuesOK'
  BY SMT, <1>0, <1>11 DEF Send
<1>12. ASSUME NEW t \in Tasks, NEW r \in Requests, Tiocmset(t, r[1], r[2])
       PROVE  ValuesOK'
  <2>1. r[1] \subseteq Byte
    BY SMT DEF CONTROL, DTR, RTS, Byte
  <2> QED
    BY SMT, <1>0, <1>12, <2>1 DEF Tiocmset, Capture
<1>13. CASE \E portb \in PortBytes : UpdateLineStatus(portb)
  BY SMT, <1>0, <1>13 DEF UpdateLineStatus
<1>14. CASE UNCHANGED vars
  BY <1>0, <1>14 DEF vars
<1> QED
  BY <1>1, <1>2, <1>3, <1>4, <1>5, <1>6, <1>7, <1>8, <1>9, <1>10, <1>11,
     <1>12, <1>13, <1>14 DEF Next

LEMMA FlagsStep ==
    ASSUME UsbLinesAssumption, TypeOK, [Next]_vars
    PROVE  FlagsOK'
<1>0. FlagsOK
  BY DEF TypeOK, FlagsOK
<1> USE DEF FlagsOK, settings, device
<1>1. CASE Open
  BY <1>0, <1>1 DEF Open
<1>2. CASE Filter
  BY <1>0, <1>2 DEF Filter
<1>3. CASE Trap
  BY <1>0, <1>3 DEF Trap
<1>4. CASE SendInit
  BY <1>0, <1>4 DEF SendInit
<1>5. CASE ChangeLines
  BY <1>0, <1>5 DEF ChangeLines
<1>6. CASE SendFlow
  BY <1>0, <1>6 DEF SendFlow
<1>7. CASE Return
  BY <1>0, <1>7 DEF Return
<1>8. CASE Close
  BY <1>0, <1>8 DEF Close
<1>9. CASE HangUp
  BY <1>0, <1>9 DEF HangUp
<1>10. CASE \E s \in Settings : SetTermios(s)
  BY <1>0, <1>10 DEF SetTermios
<1>11. CASE \E c \in Contexts : Send(c)
  BY <1>0, <1>11 DEF Send
<1>12. CASE \E t \in Tasks, r \in Requests : Tiocmset(t, r[1], r[2])
  BY <1>0, <1>12 DEF Tiocmset
<1>13. CASE \E portb \in PortBytes : UpdateLineStatus(portb)
  BY <1>0, <1>13 DEF UpdateLineStatus
<1>14. CASE UNCHANGED vars
  BY <1>0, <1>14 DEF vars
<1> QED
  BY <1>1, <1>2, <1>3, <1>4, <1>5, <1>6, <1>7, <1>8, <1>9, <1>10, <1>11,
     <1>12, <1>13, <1>14 DEF Next

LEMMA TypeStep ==
    ASSUME UsbLinesAssumption, TypeOK, [Next]_vars
    PROVE  TypeOK'
<1>1. FlagsOK' /\ ValuesOK' /\ ChipOK' /\ PlacesOK'
  BY FlagsStep, ValuesStep, ChipStep, PlacesStep
<1> QED
  BY <1>1 DEF TypeOK, FlagsOK, ValuesOK, ChipOK, PlacesOK

\* The settings, the lines and the chip's two registers stay what they are.
THEOREM TypeCorrect == Spec => []TypeOK
<1>1. Init => TypeOK
  BY UsbLinesAssumption, TypeInit
<1>2. TypeOK /\ [Next]_vars => TypeOK'
  BY UsbLinesAssumption, TypeStep
<1> QED
  BY <1>1, <1>2, PTL DEF Spec

-----------------------------------------------------------------------------
(* The control lines                                                       *)

Sending(c) == pc[c] \in {"send", "drop"}

\* A copy that is still line_control's is on its way, and there is only one;
\* with none on its way the lines are what line_control says, unless stale.
Followed ==
    /\ \A c \in newest : Sending(c) /\ control[c] = lineControl
    /\ \A c, d \in newest : c = d
    /\ newest = {} /\ ~stale => lines = lineControl \cap CONTROL

\* Steps that leave all of this alone, but for where one context is that was
\* not sending.
LEMMA FollowedApart ==
    ASSUME TypeOK, Followed, NEW c \in Contexts, NEW s, ~Sending(c), Goto(c, s),
           UNCHANGED <<lineControl, control, lines, newest, stale>>
    PROVE  Followed'
<1>1. pc \in [Contexts -> Steps] /\ newest \subseteq Contexts
  BY DEF TypeOK
<1>2. ASSUME NEW d \in newest' PROVE Sending(d)' /\ control'[d] = lineControl'
  <2>1. d \in newest /\ d # c
    BY DEF Followed
  <2> QED
    BY <1>1, <2>1 DEF Followed, Sending, Goto
<1> QED
  BY <1>2 DEF Followed

\* A context takes its copy.
LEMMA FollowedCapture ==
    ASSUME TypeOK, NEW c \in Contexts, NEW value, Capture(c, value),
           NEW s \in {"send", "drop"}, Goto(c, s)
    PROVE  Followed'
<1>1. pc \in [Contexts -> Steps] /\ control \in [Contexts -> SUBSET Byte]
  BY DEF TypeOK
<1>2. newest' = {c} /\ lineControl' = value /\ control'[c] = value
  BY <1>1 DEF Capture
<1>3. pc'[c] = s
  BY <1>1 DEF Goto
<1> QED
  BY <1>2, <1>3 DEF Followed, Sending

\* A copy is sent.
LEMMA FollowedSend ==
    ASSUME TypeOK, Followed, NEW c \in Contexts, Send(c)
    PROVE  Followed'
<1>1. pc \in [Contexts -> Steps] /\ control \in [Contexts -> SUBSET Byte]
      /\ newest \subseteq Contexts
  BY DEF TypeOK
<1>2. newest' = newest \ {c} /\ lineControl' = lineControl
      /\ control' = [control EXCEPT ![c] = {}]
      /\ \E s : Goto(c, s)
  BY DEF Send
<1>3. ASSUME NEW d \in newest' PROVE Sending(d)' /\ control'[d] = lineControl'
  <2>1. d \in newest /\ d # c
    BY <1>2
  <2> QED
    BY <1>1, <1>2, <2>1 DEF Followed, Sending, Goto
<1>4. ASSUME ~stale' PROVE lines' = lineControl' \cap CONTROL
  <2>1. lines' = control[c] \cap CONTROL /\ c \in newest
    BY <1>4 DEF Send
  <2> QED
    BY <1>2, <2>1 DEF Followed
<1> QED
  BY <1>2, <1>3, <1>4 DEF Followed

LEMMA FollowedStep ==
    ASSUME UsbLinesAssumption, TypeOK, Followed, [Next]_vars
    PROVE  Followed'
<1>0. Tty \in Contexts /\ Tasks \subseteq Contexts
  BY DEF Contexts
<1> USE DEF Sending
<1>1. CASE Open
  BY <1>0, <1>1, FollowedApart DEF Open, device
<1>2. CASE Filter
  BY <1>0, <1>2, FollowedApart DEF Filter, device
<1>3. CASE Trap
  BY <1>0, <1>3, FollowedApart DEF Trap, device
<1>4. CASE SendInit
  BY <1>0, <1>4, FollowedApart DEF SendInit
<1>5. CASE ChangeLines
  BY <1>0, <1>5, FollowedApart, FollowedCapture DEF ChangeLines, device
<1>6. CASE SendFlow
  BY <1>0, <1>6, FollowedApart DEF SendFlow
<1>7. CASE Return
  BY <1>0, <1>7, FollowedApart DEF Return, device
<1>8. CASE Close
  BY <1>0, <1>8, FollowedApart DEF Close, device
<1>9. CASE HangUp
  BY <1>0, <1>9, FollowedApart, FollowedCapture DEF HangUp, device
<1>10. CASE \E s \in Settings : SetTermios(s)
  BY <1>0, <1>10, FollowedApart DEF SetTermios, device
<1>11. CASE \E c \in Contexts : Send(c)
  BY <1>11, FollowedSend
<1>12. CASE \E t \in Tasks, r \in Requests : Tiocmset(t, r[1], r[2])
  BY <1>0, <1>12, FollowedCapture DEF Tiocmset
<1>13. CASE \E portb \in PortBytes : UpdateLineStatus(portb)
  BY <1>13 DEF UpdateLineStatus, Followed
<1>14. CASE UNCHANGED vars
  BY <1>14 DEF vars, device, Followed
<1> QED
  BY <1>1, <1>2, <1>3, <1>4, <1>5, <1>6, <1>7, <1>8, <1>9, <1>10, <1>11,
     <1>12, <1>13, <1>14 DEF Next

\* With nobody changing them, the control lines are those tiocmget reports,
\* unless the last change was overtaken, lost or overwritten by a report.
THEOREM LinesFollowControl == Spec => []LinesFollow
<1>1. Init => TypeOK /\ Followed
  BY UsbLinesAssumption, TypeInit DEF Init, Followed
<1>2. TypeOK /\ Followed /\ [Next]_vars => TypeOK' /\ Followed'
  BY UsbLinesAssumption, TypeStep, FollowedStep
<1>3. TypeOK /\ Followed => LinesFollow
  <2>1. SUFFICES ASSUME TypeOK, Followed, AtRest, ~stale
                 PROVE  lines = lineControl \cap CONTROL
    BY DEF LinesFollow
  <2>2. newest = {}
    BY <2>1 DEF TypeOK, Followed, AtRest, Sending
  <2> QED
    BY <2>1, <2>2 DEF Followed
<1> QED
  BY <1>1, <1>2, <1>3, PTL DEF Spec

-----------------------------------------------------------------------------
(* Closing                                                                 *)

\* Only an open port has tasks in tiocmset and an interrupt URB; what they did
\* to line_control is undone on the way to "closed", where it stays undone.
Hung ==
    /\ port # "open" => ~listening /\ \A t \in Tasks : pc[t] = "idle"
    /\ pc[Tty] \in {"hangup", "drop"} => port = "closing"
    /\ port = "closed" => pc[Tty] = "idle"
    /\ pc[Tty] = "drop" => lineControl = {}
    /\ port = "closed" /\ termios.hupcl => lineControl = {}

LEMMA HungStep ==
    ASSUME UsbLinesAssumption, TypeOK, Hung, [Next]_vars
    PROVE  Hung'
<1>0. pc \in [Contexts -> Steps] /\ Tty \in Contexts /\ Tty \notin Tasks
      /\ Tasks \subseteq Contexts /\ \A t \in Tasks : pc[t] \in {"idle", "send"}
  BY DEF TypeOK, Contexts, UsbLinesAssumption
<1>t. ASSUME NEW s, Goto(Tty, s)
      PROVE  pc'[Tty] = s /\ \A t \in Tasks : pc'[t] = pc[t]
  BY <1>0, <1>t DEF Goto
<1> USE DEF Hung, settings, device
<1>1. CASE Open
  BY <1>0, <1>1, <1>t DEF Open
<1>2. CASE Filter
  BY <1>0, <1>2, <1>t DEF Filter
<1>3. CASE Trap
  BY <1>0, <1>3, <1>t DEF Trap
<1>4. CASE SendInit
  BY <1>0, <1>4, <1>t DEF SendInit
<1>5. CASE ChangeLines
  BY <1>0, <1>5, <1>t DEF ChangeLines
<1>6. CASE SendFlow
  BY <1>0, <1>6, <1>t DEF SendFlow
<1>7. CASE Return
  BY <1>0, <1>7, <1>t DEF Return
<1>8. CASE Close
  BY <1>0, <1>8, <1>t DEF Close
<1>9. CASE HangUp
  BY <1>0, <1>9, <1>t DEF HangUp, Capture
<1>10. CASE \E s \in Settings : SetTermios(s)
  BY <1>0, <1>10, <1>t DEF SetTermios
<1>11. ASSUME NEW c \in Contexts, Send(c)
       PROVE  Hung'
  <2>1. CASE c = Tty
    BY <1>0, <1>11, <1>t, <2>1 DEF Send
  <2>2. CASE c \in Tasks
    <3>1. pc[c] = "send" /\ port = "open"
      BY <1>0, <1>11, <2>2 DEF Send
    <3>2. Goto(c, "idle") /\ c # Tty
      BY <1>0, <1>11, <2>2 DEF Send
    <3>3. pc'[Tty] = pc[Tty]
      BY <1>0, <3>2 DEF Goto
    <3> QED
      BY <1>11, <3>1, <3>3 DEF Send
  <2> QED
    BY <2>1, <2>2 DEF Contexts
<1>12. ASSUME NEW t \in Tasks, NEW r \in Requests, Tiocmset(t, r[1], r[2])
       PROVE  Hung'
  <2>1. pc'[Tty] = pc[Tty]
    BY <1>0, <1>12 DEF Tiocmset, Goto
  <2> QED
    BY <1>12, <2>1 DEF Tiocmset
<1>13. CASE \E portb \in PortBytes : UpdateLineStatus(portb)
  BY <1>13 DEF UpdateLineStatus
<1>14. CASE UNCHANGED vars
  BY <1>14 DEF vars
<1> QED
  BY <1>1, <1>2, <1>3, <1>4, <1>5, <1>6, <1>7, <1>8, <1>9, <1>10, <1>11,
     <1>12, <1>13, <1>14 DEF Next

\* A port closed with HUPCL has dropped DTR and RTS, whatever was done before.
THEOREM HangupDropsLines == Spec => []HangupDrops
<1>1. Init => TypeOK /\ Hung
  <2>1. ASSUME Init PROVE \A t \in Tasks : pc[t] = "idle"
    BY <2>1 DEF Init, Contexts
  <2>2. ASSUME Init PROVE pc[Tty] = "idle"
    BY <2>2 DEF Init, Contexts
  <2> QED
    BY <2>1, <2>2, UsbLinesAssumption, TypeInit DEF Init, Hung
<1>2. TypeOK /\ Hung /\ [Next]_vars => TypeOK' /\ Hung'
  BY UsbLinesAssumption, TypeStep, HungStep
<1>3. Hung /\ LinesFollow => HangupDrops
  BY DEF Hung, LinesFollow, HangupDrops
<1> QED
  BY <1>1, <1>2, <1>3, LinesFollowControl, PTL DEF Spec

-----------------------------------------------------------------------------
(* The registers, read back                                                *)

RateOf(s) == IF s.baud = 0 THEN <<0, 0>> ELSE BaudRate(s.baud)

\* The bits of the value and the index are those that were put there.
LEMMA ReadBack ==
    ASSUME NEW s \in Termios, NEW rate, rate[1] \in 0 .. 255, rate[2] \in 0 .. 7,
           chip = SerialInit(s, rate)
    PROVE  /\ ChipSize = s.size /\ ChipStop2 = s.stop2 /\ ChipParity = s.parity
           /\ chip.index % 128 = rate[2]
           /\ ChipFactor = 256 - rate[1]
<1> DEFINE z == s.size - 5
           stop == IF s.stop2 THEN 4 ELSE 0
           p == ParityBits(s.parity)
           k == 192 + z + stop + p
           r1 == rate[1]
           r2 == rate[2]
<1>1. z \in 0 .. 3 /\ s.size = z + 5
  BY SMT DEF Termios
<1>2. s.stop2 \in BOOLEAN /\ s.parity \in Parities
  BY DEF Termios
<1>3. stop \in {0, 4} /\ (s.stop2 <=> stop = 4)
  BY SMT
<1>4. p \in {0, 8, 24, 40, 56}
  BY SMT, <1>2 DEF ParityBits, Parities
<1>5. r1 \in 0 .. 255 /\ r2 \in 0 .. 7
  OBVIOUS
<1>6. chip.value = 156 + 256 * k /\ chip.index = 128 + r2 + 256 * r1
  BY SMT DEF SerialInit
<1> HIDE DEF z, stop, r1, r2
<1>7. /\ p = 0 => s.parity = "none"
      /\ p = 8 => s.parity = "odd"
      /\ p = 24 => s.parity = "even"
      /\ p = 40 => s.parity = "mark"
      /\ p = 56 => s.parity = "space"
  BY SMT, <1>2 DEF ParityBits, Parities
<1> HIDE DEF p
<1>8. k \in Nat
  BY SMT, <1>1, <1>3, <1>4
<1>9. k % 4 = z /\ ((k \div 4) % 2 = 1 <=> stop = 4)
  BY SMT, <1>1, <1>3, <1>4
<1>10. /\ (k \div 8) % 2 = 1 <=> p # 0
       /\ p = 8 => (k \div 16) % 4 = 0
       /\ p = 24 => (k \div 16) % 4 = 1
       /\ p = 40 => (k \div 16) % 4 = 2
       /\ p = 56 => (k \div 16) % 4 = 3
  BY SMT, <1>1, <1>3, <1>4
<1> HIDE DEF k
<1>11. /\ chip.value \div 256 = k /\ chip.value \div 1024 = k \div 4
       /\ chip.value \div 2048 = k \div 8 /\ chip.value \div 4096 = k \div 16
  BY SMT, <1>6, <1>8
<1>12. ChipSize = s.size
  BY SMT, <1>1, <1>9, <1>11 DEF ChipSize
<1>13. ChipStop2 = s.stop2
  <2>1. ChipStop2 <=> s.stop2
    BY <1>3, <1>9, <1>11 DEF ChipStop2
  <2>2. ChipStop2 \in BOOLEAN
    BY DEF ChipStop2
  <2> QED
    BY <1>2, <2>1, <2>2
<1>14. ChipParity = s.parity
  BY SMT, <1>4, <1>7, <1>10, <1>11 DEF ChipParity
<1>15. chip.index % 128 = r2 /\ chip.index \div 256 = r1
  BY SMT, <1>5, <1>6
<1>16. ChipFactor = 256 - r1
  BY <1>15 DEF ChipFactor
<1> QED
  BY <1>12, <1>13, <1>14, <1>15, <1>16 DEF r1, r2

-----------------------------------------------------------------------------
(* Settings                                                                *)

\* The chip was given these settings, and flow control if they ask for it.
Loaded(s)  == chip = SerialInit(s, RateOf(s))
Flowing(s) == s.flow => chipFlow

\* What set_termios compares with is what the chip has; what it has sent is
\* what the tty layer has.
Configured ==
    ~unset =>
      /\ pc[Tty] \notin {"set", "init", "trapped"} => Loaded(termios)
      /\ pc[Tty] \in {"idle", "opened", "hangup", "drop"} => Flowing(termios)
      /\ pc[Tty] = "set" => \A o \in old : Loaded(o) /\ Flowing(o)

\* Settings that seem the same are the same to the chip.
LEMMA SameIsSame ==
    ASSUME TypeOK, NEW s \in Termios, SameHardware(s)
    PROVE  \E o \in old : SerialInit(o, RateOf(o)) = SerialInit(s, RateOf(s))
                              /\ o.flow = s.flow
<1>1. PICK o \in old : [o EXCEPT !.hupcl = s.hupcl] = s
  BY DEF SameHardware
<1>2. /\ o.baud = s.baud /\ o.size = s.size /\ o.stop2 = s.stop2
      /\ o.parity = s.parity /\ o.flow = s.flow
  BY <1>1 DEF TypeOK, Termios
<1> QED
  BY <1>2 DEF SerialInit, RateOf

LEMMA ConfiguredStep ==
    ASSUME UsbLinesAssumption, TypeOK, Configured, [Next]_vars
    PROVE  Configured'
<1>0. pc \in [Contexts -> Steps] /\ Tty \in Contexts /\ Tty \notin Tasks
  BY DEF TypeOK, Contexts, UsbLinesAssumption
<1>t. ASSUME NEW s, Goto(Tty, s) PROVE pc'[Tty] = s
  BY <1>0, <1>t DEF Goto
<1> DEFINE Same == chip' = chip /\ chipFlow' = chipFlow
<1> USE DEF Configured, settings, device
<1>1. CASE Open
  BY <1>0, <1>1, <1>t DEF Open
<1>2. CASE Filter
  <2>1. CASE unset' \/ pc'[Tty] = "init"
    BY <1>0, <2>1
  <2>2. CASE ~unset' /\ pc'[Tty] # "init"
    <3>1. SameHardware(termios') /\ pc'[Tty] = "opened" /\ ~unset
      BY <1>2, <1>t, <2>2 DEF Filter
    <3>2. termios' \in Termios
      BY TypeStep DEF TypeOK
    <3>3. PICK o \in old :
             /\ SerialInit(o, RateOf(o))
                  = SerialInit(termios', RateOf(termios'))
             /\ o.flow = termios'.flow
      BY <3>1, <3>2, SameIsSame
    <3>4. chip = SerialInit(o, RateOf(o)) /\ (o.flow => chipFlow)
      BY <1>2, <3>1 DEF Filter, Loaded, Flowing
    <3>5. chip' = chip /\ chipFlow' = chipFlow
      BY <1>2 DEF Filter
    <3>6. Loaded(termios)' /\ Flowing(termios)'
      BY <3>3, <3>4, <3>5 DEF Loaded, Flowing, RateOf
    <3> QED
      BY <3>1, <3>6
  <2> QED
    BY <2>1, <2>2
<1>3. CASE Trap
  BY <1>0, <1>3, <1>t DEF Trap
<1>4. CASE SendInit
  <2>1. pc'[Tty] = "lines"
    BY <1>4, <1>t DEF SendInit
  <2>2. ASSUME ~unset' PROVE Loaded(termios)'
    <3>1. chip' = SerialInit(termios, Rate) /\ termios' = termios
      BY <1>4, <2>2 DEF SendInit
    <3> QED
      BY <3>1 DEF Loaded, Rate, RateOf
  <2> QED
    BY <2>1, <2>2
<1>5. CASE ChangeLines
  BY <1>0, <1>5, <1>t DEF ChangeLines, Loaded, Flowing
<1>6. CASE SendFlow
  BY <1>0, <1>6, <1>t DEF SendFlow, Arrives, Fails, Loaded, Flowing
<1>7. CASE Return
  BY <1>0, <1>7, <1>t DEF Return, Loaded, Flowing
<1>8. CASE Close
  BY <1>0, <1>8, <1>t DEF Close, Loaded, Flowing
<1>9. CASE HangUp
  BY <1>0, <1>9, <1>t DEF HangUp, Loaded, Flowing
<1>10. CASE \E s \in Settings : SetTermios(s)
  BY <1>0, <1>10, <1>t DEF SetTermios, Loaded, Flowing
<1>11. ASSUME NEW c \in Contexts, Send(c)
       PROVE  Configured'
  <2>1. UNCHANGED <<termios, old, chip, chipFlow, unset>>
    BY <1>11 DEF Send
  <2>2. CASE c = Tty
    <3>1. \/ pc[Tty] = "send" /\ pc'[Tty] = "flow"
          \/ pc[Tty] = "drop" /\ pc'[Tty] = "idle"
      BY <1>11, <1>t, <2>2 DEF Send
    <3> QED
      BY <2>1, <3>1 DEF Loaded, Flowing
  <2>3. CASE c # Tty
    <3>1. pc'[Tty] = pc[Tty]
      BY <1>0, <1>11, <2>3 DEF Send, Goto
    <3> QED
      BY <2>1, <3>1 DEF Loaded, Flowing
  <2> QED
    BY <2>2, <2>3
<1>12. ASSUME NEW t \in Tasks, NEW r \in Requests, Tiocmset(t, r[1], r[2])
       PROVE  Configured'
  <2>1. pc'[Tty] = pc[Tty]
    BY <1>0, <1>12 DEF Tiocmset, Goto
  <2> QED
    BY <1>12, <2>1 DEF Tiocmset, Loaded, Flowing
<1>13. CASE \E portb \in PortBytes : UpdateLineStatus(portb)
  BY <1>13 DEF UpdateLineStatus, Loaded, Flowing
<1>14. CASE UNCHANGED vars
  BY <1>14 DEF vars, Loaded, Flowing
<1> QED
  BY <1>1, <1>2, <1>3, <1>4, <1>5, <1>6, <1>7, <1>8, <1>9, <1>10, <1>11,
     <1>12, <1>13, <1>14 DEF Next

LEMMA AlwaysConfigured == Spec => [](TypeOK /\ Configured)
<1>1. Init => TypeOK /\ Configured
  BY UsbLinesAssumption, TypeInit DEF Init, Configured
<1>2. TypeOK /\ Configured /\ [Next]_vars => TypeOK' /\ Configured'
  BY UsbLinesAssumption, TypeStep, ConfiguredStep
<1> QED
  BY <1>1, <1>2, PTL DEF Spec

\* What the chip reads from its registers when the port is open and at rest.
LEMMA ReadAtRest ==
    ASSUME TypeOK, Configured, port = "open", pc[Tty] = "idle", ~unset
    PROVE  /\ ChipSize = termios.size /\ ChipStop2 = termios.stop2
           /\ ChipParity = termios.parity /\ (termios.flow => chipFlow)
           /\ chip.index % 128 = Rate[2] /\ ChipFactor = 256 - Rate[1]
<1>1. termios \in Termios
  BY DEF TypeOK
<1>2. chip = SerialInit(termios, Rate) /\ (termios.flow => chipFlow)
  BY DEF Configured, Loaded, Flowing, RateOf, Rate
<1>3. Rate[1] \in 0 .. 255 /\ Rate[2] \in 0 .. 7
  BY <1>1, RateBytes
<1> HIDE DEF Rate
<1> QED
  BY <1>1, <1>2, <1>3, ReadBack

\* An open port runs in the format that was asked for, filtered or not, and
\* with flow control if that was asked for.
THEOREM ConfigIsFollowed == Spec => []ConfigFollows
<1>1. TypeOK /\ Configured => ConfigFollows
  BY ReadAtRest DEF ConfigFollows
<1> QED
  BY <1>1, AlwaysConfigured, PTL

-----------------------------------------------------------------------------
(* The rate                                                                *)

\* The factor is the rounded one: also of the two rates that have a clock of
\* their own.
LEMMA RoundedFactor ==
    ASSUME TypeOK, 46 <= termios.baud, termios.baud <= 6000000,
           chip.index % 128 = Rate[2], ChipFactor = 256 - Rate[1]
    PROVE  /\ ChipClock \in Nat /\ ChipClock \div termios.baud \in Nat \ {0}
           /\ ChipFactor = Rounded(ChipClock, termios.baud)
<1> DEFINE b == termios.baud
<1>1. b \in Nat
  BY SMT DEF TypeOK, Termios
<1>2. Rate = BaudRate(b)
  BY SMT, <1>1 DEF Rate
<1> HIDE DEF b
<1>3. CASE b = 921600
  <2>1. Rate = <<243, 7>>
    BY SMT, <1>2, <1>3 DEF BaudRate
  <2>2. ChipClock = 12000000 /\ ChipFactor = 13
    BY SMT, <2>1 DEF ChipClock
  <2>3. 12000000 \div b = 13
    BY SMT, <1>3
  <2>4. 12000000 \div 13 - b <= b - 12000000 \div (13 + 1)
    BY SMT, <1>3
  <2>5. Rounded(12000000, b) = 13
    BY SMT, <1>1, <2>3, <2>4 DEF Rounded
  <2> QED
    BY SMT, <2>2, <2>3, <2>5 DEF b
<1>4. CASE b = 307200
  <2>1. Rate = <<217, 7>>
    BY SMT, <1>2, <1>4 DEF BaudRate
  <2>2. ChipClock = 12000000 /\ ChipFactor = 39
    BY SMT, <2>1 DEF ChipClock
  <2>3. 12000000 \div b = 39
    BY SMT, <1>4
  <2>4. 12000000 \div 39 - b <= b - 12000000 \div (39 + 1)
    BY SMT, <1>4
  <2>5. Rounded(12000000, b) = 39
    BY SMT, <1>1, <2>3, <2>4 DEF Rounded
  <2> QED
    BY SMT, <2>2, <2>3, <2>5 DEF b
<1>5. CASE b # 921600 /\ b # 307200
  <2>1. Rate = Divided(b)
    BY SMT, <1>2, <1>5 DEF BaudRate
  <2>2. 46 <= b /\ b <= 6000000
    BY DEF b
  <2>3. /\ Prescaled(b)[1] \in Nat /\ Prescaled(b)[1] \div b \in 1 .. 254
    BY SMT, <1>1, <2>2, Clock
  <2>4. /\ Rounded(Prescaled(b)[1], b) \in 1 .. 255
        /\ Rate = <<256 - Rounded(Prescaled(b)[1], b), Prescaled(b)[2]>>
    BY SMT, <1>1, <2>1, <2>2, Factor
  <2>5. chip.index % 128 = Prescaled(b)[2]
    BY SMT, <2>4
  <2>6. ChipClock = Prescaled(b)[1]
    BY SMT, <2>5 DEF ChipClock, Prescaled
  <2>7. ChipFactor = Rounded(Prescaled(b)[1], b)
    BY SMT, <2>4
  <2> QED
    BY SMT, <2>3, <2>6, <2>7 DEF b
<1> QED
  BY <1>3, <1>4, <1>5

\* No other factor of the chosen clock comes nearer to the rate asked for.
THEOREM RateIsNearest == Spec => []RateNearest
<1>1. ASSUME TypeOK, Configured, port = "open", pc[Tty] = "idle", ~unset,
             46 <= termios.baud, termios.baud <= 6000000, NEW d \in 1 .. 255
      PROVE  Off(ChipClock \div ChipFactor) <= Off(ChipClock \div d)
  <2>1. /\ ChipClock \in Nat /\ ChipClock \div termios.baud \in Nat \ {0}
        /\ ChipFactor = Rounded(ChipClock, termios.baud)
    BY SMT, <1>1, ReadAtRest, RoundedFactor
  <2>2. termios.baud \in Nat \ {0} /\ d \in Nat \ {0}
    BY SMT, <1>1 DEF TypeOK, Termios
  <2> DEFINE c == ChipClock
             b == termios.baud
  <2>3. c \in Nat /\ c \div b \in Nat \ {0} /\ b \in Nat \ {0}
    BY <2>1, <2>2
  <2> HIDE DEF c, b
  <2>4. Distance(c \div Rounded(c, b), b) <= Distance(c \div d, b)
    BY <2>2, <2>3, Nearest
  <2>5. Distance(ChipClock \div ChipFactor, termios.baud)
          <= Distance(ChipClock \div d, termios.baud)
    BY <2>1, <2>4 DEF c, b
  <2> QED
    BY SMT, <2>5 DEF Off, Distance
<1>2. TypeOK /\ Configured => RateNearest
  BY SMT, <1>1 DEF RateNearest
<1> QED
  BY <1>2, AlwaysConfigured, PTL

=============================================================================
