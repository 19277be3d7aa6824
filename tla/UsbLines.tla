------------------------------ MODULE UsbLines ------------------------------
(***************************************************************************)
(* The settings of the host's USB driver                                   *)
(* (src/avr-experiments/ch34x/ch34x.c): speed, format and control lines of *)
(* the chip, as ch34x_set_termios, ch34x_tiocmset and ch34x_close set them *)
(* by control messages, sent after the lock on line_control is released.   *)
(* The interrupt URB's callback writes the modem lines it is told of to    *)
(* the same line_control.                                                  *)
(*                                                                         *)
(* The tty layer calls open, set_termios and close one after the other     *)
(* (context Tty) and tiocmset from any task that has the port open.  A     *)
(* byte of lines is the set of its bits, by value.                         *)
(***************************************************************************)
EXTENDS Integers

CONSTANTS
    Tty,        \* the context of open, set_termios and close
    Tasks,      \* tasks that may call tiocmset
    Settings,   \* the settings a user may ask for
    Requests,   \* the pairs of lines to set and to clear in tiocmset
    PortBytes,  \* what the interrupt URB may report of the lines
    MaxFaults   \* bound on control messages that fail

DTR == 32       \* CONTROL_DTR
RTS == 64       \* CONTROL_RTS
CONTROL == {DTR, RTS}
Byte == {1, 2, 4, 8, 16, 32, 64, 128}

Parities == {"none", "odd", "even", "mark", "space"}
Termios == [baud : Nat, size : 5 .. 8, stop2 : BOOLEAN, parity : Parities,
            flow : BOOLEAN, hupcl : BOOLEAN]

ASSUME UsbLinesAssumption ==
    /\ Tty \notin Tasks
    /\ Settings \subseteq Termios
    /\ Requests \subseteq (SUBSET CONTROL) \X (SUBSET CONTROL)
    /\ PortBytes \subseteq SUBSET Byte
    /\ MaxFaults \in Nat

Contexts == {Tty} \cup Tasks

-----------------------------------------------------------------------------
(* Registers                                                               *)

\* ch34x_get_baud_rate: the factor c / baud, rounded to the nearer of two, and
\* a prescaler.  <<0, 0>> stands for EINVAL, which the caller does not look at.
\* The quotient has eight bits; where that cuts it short, the second difference
\* wraps around and is the larger one.  (Slips would be never to round up, and
\* not to cut it.)
Prescaled(baud) ==
    IF baud > 6000000 \div 255 THEN <<6000000, 3>>
    ELSE IF baud > 750000 \div 255 THEN <<750000, 2>>
    ELSE IF baud > 93750 \div 255 THEN <<93750, 1>>
    ELSE <<11719, 0>>

DividedWide(baud) ==
    <<256 - Prescaled(baud)[1] \div baud, Prescaled(baud)[2]>>
DividedDown(baud) ==
    LET c == Prescaled(baud)[1]
        a == (c \div baud) % 256
    IN  IF a \in {0, 255} THEN <<0, 0>> ELSE <<256 - a, Prescaled(baud)[2]>>
Divided(baud) ==
    LET c  == Prescaled(baud)[1]
        a  == (c \div baud) % 256
        up == IF c \div (a + 1) <= baud
                   /\ c \div a - baud > baud - c \div (a + 1)
              THEN a + 1 ELSE a
    IN  IF a \in {0, 255} THEN <<0, 0>> ELSE <<256 - up, Prescaled(baud)[2]>>

BaudRate(baud) ==
    CASE baud = 921600 -> <<243, 7>>
      [] baud = 307200 -> <<217, 7>>
      [] OTHER -> Divided(baud)

ParityBits(parity) ==
    CASE parity = "none"  -> 0
      [] parity = "odd"   -> 8
      [] parity = "even"  -> 24
      [] parity = "mark"  -> 40
      [] parity = "space" -> 56

\* The value and index of VENDOR_SERIAL_INIT.  (A slip would be to take the
\* second stop bit for a bit of the size.)
SerialInitShort(s, rate) ==
    [value |-> 156 + 256 * (192 + s.size - 5 + (IF s.stop2 THEN 2 ELSE 0)
                              + ParityBits(s.parity)),
     index |-> 128 + rate[2] + 256 * rate[1]]
SerialInit(s, rate) ==
    [value |-> 156 + 256 * (192 + s.size - 5 + (IF s.stop2 THEN 4 ELSE 0)
                              + ParityBits(s.parity)),
     index |-> 128 + rate[2] + 256 * rate[1]]

-----------------------------------------------------------------------------
VARIABLES
    termios,     \* the tty's settings
    old,         \* those before, as set_termios is told: one, or garbage ({})
    initialized, \* priv->termios_initialized
    lineControl, \* priv->line_control
    listening,   \* the interrupt URB is at work
    port,        \* "closed", "opening", "open", "closing"
    pc,          \* where each context is
    control,     \* its copy of line_control, not yet sent
    chip,        \* the chip: value and index of the last SERIAL_INIT
    lines,       \* the control lines it drives
    chipFlow,    \* its hardware flow control
    oops,        \* history: the driver divided by zero
    faults,      \* history: control messages that failed
    unset,       \* history: settings were not sent, or not received
    newest,      \* history: contexts whose control is still line_control's
    stale        \* history: the lines were last set from an old control

settings == <<termios, old, initialized>>
device   == <<chip, lines, chipFlow>>
vars     == <<settings, lineControl, listening, port, pc, control, device,
              oops, faults, unset, newest, stale>>

\* tty_std_termios at 9600 baud.
Standard == [baud |-> 9600, size |-> 8, stop2 |-> FALSE, parity |-> "none",
             flow |-> FALSE, hupcl |-> TRUE]

Steps == {"idle", "set", "init", "trapped", "lines", "send", "flow", "opened",
          "hangup", "drop"}

TypeOK ==
    /\ termios \in Termios
    /\ old \subseteq Termios
    /\ initialized \in BOOLEAN /\ listening \in BOOLEAN /\ chipFlow \in BOOLEAN
    /\ oops \in BOOLEAN /\ unset \in BOOLEAN /\ stale \in BOOLEAN
    /\ lineControl \subseteq Byte
    /\ port \in {"closed", "opening", "open", "closing"}
    /\ pc \in [Contexts -> Steps]
    /\ \A t \in Tasks : pc[t] \in {"idle", "send"}
    /\ control \in [Contexts -> SUBSET Byte]
    /\ chip \in [value : Nat, index : Nat]
    /\ chip.value < 65536 /\ chip.index < 65536
    /\ lines \subseteq CONTROL
    /\ newest \subseteq Contexts
    /\ faults \in 0 .. MaxFaults

\* After ch34x_attach.  The settings are those another board had there.
Init ==
    /\ termios \in Settings /\ old = {} /\ initialized = FALSE
    /\ lineControl = {} /\ listening = FALSE /\ port = "closed"
    /\ pc = [c \in Contexts |-> "idle"] /\ control = [c \in Contexts |-> {}]
    /\ chip = [value |-> 0, index |-> 0] /\ lines = {} /\ chipFlow = FALSE
    /\ oops = FALSE /\ faults = 0 /\ unset = TRUE
    /\ newest = {} /\ stale = FALSE

Goto(c, step) == pc' = [pc EXCEPT ![c] = step]

\* A control message arrives, or fails and nobody notices.
Arrives == UNCHANGED faults
Fails   == faults < MaxFaults /\ faults' = faults + 1

\* line_control under the lock, and the context's copy of it.
Capture(c, value) ==
    /\ lineControl' = value
    /\ control' = [control EXCEPT ![c] = value]
    /\ newest' = {c}

-----------------------------------------------------------------------------
(* ch34x_set_termios                                                       *)

\* ch34x_open calls it with settings that nobody initialized.
Open ==
    /\ pc[Tty] = "idle" /\ port = "closed"
    /\ port' = "opening" /\ old' = {}
    /\ Goto(Tty, "set")
    /\ UNCHANGED <<termios, initialized, lineControl, listening, control,
                   device, oops, faults, unset, newest, stale>>

SetTermios(s) ==
    /\ pc[Tty] = "idle" /\ port = "open"
    /\ old' = {termios} /\ termios' = s
    /\ Goto(Tty, "set")
    /\ UNCHANGED <<initialized, lineControl, listening, port, control, device,
                   oops, faults, unset, newest, stale>>

\* tty_termios_hw_change; it does not look at HUPCL.
SameHardware(s) == \E o \in old : [o EXCEPT !.hupcl = s.hupcl] = s

\* The first settings are the standard ones.  Settings that are those of
\* before are not sent again; compared with garbage, they may seem so.
Filter ==
    /\ pc[Tty] = "set"
    /\ initialized' = TRUE
    /\ termios' = IF initialized THEN termios ELSE Standard
    /\ old' = {}
    /\ \/ /\ ~SameHardware(termios')
          /\ Goto(Tty, "init")
          /\ UNCHANGED unset
       \/ /\ SameHardware(termios')
          /\ Goto(Tty, "opened")
          /\ UNCHANGED unset
       \/ /\ old = {}
          /\ Goto(Tty, "opened")
          /\ unset' = TRUE
    /\ UNCHANGED <<lineControl, listening, port, control, device, oops, faults,
                   newest, stale>>

-----------------------------------------------------------------------------
(* The messages of ch34x_set_termios                                       *)

\* A division by zero traps, or has the quotient 0: EINVAL.
Rate == IF termios.baud = 0 THEN <<0, 0>> ELSE BaudRate(termios.baud)

Trap ==
    /\ pc[Tty] = "init" /\ termios.baud = 0
    /\ oops' = TRUE
    /\ Goto(Tty, "trapped")
    /\ UNCHANGED <<settings, lineControl, listening, port, control, device,
                   faults, unset, newest, stale>>

SendInit ==
    /\ pc[Tty] = "init"
    /\ oops' = (oops \/ termios.baud = 0)
    /\ \/ /\ Arrives
          /\ chip' = SerialInit(termios, Rate) /\ unset' = FALSE
       \/ /\ Fails
          /\ unset' = TRUE /\ UNCHANGED chip
    /\ Goto(Tty, "lines")
    /\ UNCHANGED <<settings, lineControl, listening, port, control, lines,
                   chipFlow, newest, stale>>

\* Switching to or from B0.
Wanted ==
    IF termios.baud = 0 THEN lineControl \ CONTROL
    ELSE lineControl \cup CONTROL

ChangeLines ==
    /\ pc[Tty] = "lines"
    /\ \/ /\ Wanted # lineControl
          /\ Capture(Tty, Wanted)
          /\ Goto(Tty, "send")
       \/ /\ Wanted = lineControl
          /\ Goto(Tty, "flow")
          /\ UNCHANGED <<lineControl, control, newest>>
    /\ UNCHANGED <<settings, listening, port, device, oops, faults, unset,
                   stale>>

\* Flow control is switched on where the settings ask for it, and never off.
SendFlow ==
    /\ pc[Tty] = "flow"
    /\ \/ /\ termios.flow /\ Arrives
          /\ chipFlow' = TRUE /\ UNCHANGED unset
       \/ /\ termios.flow /\ Fails
          /\ unset' = TRUE /\ UNCHANGED chipFlow
       \/ /\ ~termios.flow
          /\ UNCHANGED <<chipFlow, unset, faults>>
    /\ Goto(Tty, "opened")
    /\ UNCHANGED <<settings, lineControl, listening, port, control, chip,
                   lines, oops, newest, stale>>

-----------------------------------------------------------------------------
(* set_control_lines, after the lock was released                          *)

Send(c) ==
    /\ pc[c] \in {"send", "drop"}
    /\ \/ /\ Arrives
          /\ lines' = control[c] \cap CONTROL /\ stale' = (c \notin newest)
       \/ /\ Fails
          /\ stale' = TRUE /\ UNCHANGED lines
    /\ control' = [control EXCEPT ![c] = {}]
    /\ newest' = newest \ {c}
    /\ Goto(c, IF c = Tty /\ pc[c] = "send" THEN "flow" ELSE "idle")
    /\ port' = IF pc[c] = "drop" THEN "closed" ELSE port
    /\ UNCHANGED <<settings, lineControl, listening, chip, chipFlow, oops,
                   unset>>

\* ch34x_tiocmset, up to the message.  (A slip would be to send the lines that
\* were set, not those that are.)
TiocmsetOnly(t, set, clear) ==
    /\ pc[t] = "idle" /\ port = "open"
    /\ lineControl' = (lineControl \cup set) \ clear
    /\ control' = [control EXCEPT ![t] = set \ clear]
    /\ newest' = {t}
    /\ Goto(t, "send")
    /\ UNCHANGED <<settings, listening, port, device, oops, faults, unset,
                   stale>>
Tiocmset(t, set, clear) ==
    /\ pc[t] = "idle" /\ port = "open"
    /\ Capture(t, (lineControl \cup set) \ clear)
    /\ Goto(t, "send")
    /\ UNCHANGED <<settings, listening, port, device, oops, faults, unset,
                   stale>>

\* ch34x_update_line_status: what the chip reports of its port replaces the
\* lines that were asked for.
UpdateLineStatus(portb) ==
    /\ listening
    /\ lineControl' = portb
    /\ newest' = {} /\ stale' = TRUE
    /\ UNCHANGED <<settings, listening, port, pc, control, device, oops,
                   faults, unset>>

-----------------------------------------------------------------------------
(* The rest of ch34x_open, and ch34x_close                                 *)

\* ch34x_set_termios is over.  In ch34x_open the URBs are submitted next, or
\* everything is undone.
Return ==
    /\ pc[Tty] = "opened"
    /\ \/ /\ port = "open"
          /\ Goto(Tty, "idle")
          /\ UNCHANGED <<port, listening, faults>>
       \/ /\ port = "opening" /\ Arrives
          /\ port' = "open" /\ listening' = TRUE
          /\ Goto(Tty, "idle")
       \/ /\ port = "opening" /\ Fails
          /\ port' = "closing"
          /\ Goto(Tty, "hangup")
          /\ UNCHANGED listening
    /\ UNCHANGED <<settings, lineControl, control, device, oops, unset, newest,
                   stale>>

\* The URBs are killed.  Nobody else has the port open any more.
Close ==
    /\ port = "open" /\ \A c \in Contexts : pc[c] = "idle"
    /\ listening' = FALSE /\ port' = "closing"
    /\ Goto(Tty, "hangup")
    /\ UNCHANGED <<settings, lineControl, control, device, oops, faults,
                   unset, newest, stale>>

\* (A slip would be to drop the lines in line_control only.)
HangUpQuietly ==
    /\ pc[Tty] = "hangup"
    /\ lineControl' = IF termios.hupcl THEN {} ELSE lineControl
    /\ port' = "closed"
    /\ Goto(Tty, "idle")
    /\ UNCHANGED <<settings, listening, control, device, oops, faults, unset,
                   newest, stale>>
HangUp ==
    /\ pc[Tty] = "hangup"
    /\ \/ /\ termios.hupcl
          /\ Capture(Tty, {})
          /\ Goto(Tty, "drop")
          /\ UNCHANGED port
       \/ /\ ~termios.hupcl
          /\ port' = "closed"
          /\ Goto(Tty, "idle")
          /\ UNCHANGED <<lineControl, control, newest>>
    /\ UNCHANGED <<settings, listening, device, oops, faults, unset, stale>>

-----------------------------------------------------------------------------

Next ==
    \/ Open \/ Filter \/ Trap \/ SendInit \/ ChangeLines \/ SendFlow
    \/ Return \/ Close \/ HangUp
    \/ \E s \in Settings : SetTermios(s)
    \/ \E c \in Contexts : Send(c)
    \/ \E t \in Tasks, r \in Requests : Tiocmset(t, r[1], r[2])
    \/ \E portb \in PortBytes : UpdateLineStatus(portb)

Spec == Init /\ [][Next]_vars

-----------------------------------------------------------------------------
(* What the driver keeps                                                   *)

AtRest == \A c \in Contexts : pc[c] = "idle"

\* When nobody is changing them, the control lines are those that tiocmget
\* reports, although they are sent after the lock was released: if the last
\* message to arrive is that of the last change, and the interrupt URB has not
\* overwritten line_control meanwhile, the chip drives what line_control says.
LinesFollow == AtRest /\ ~stale => lines = lineControl \cap CONTROL

\* A port closed with HUPCL, or one that could not be opened, has dropped DTR
\* and RTS, whatever tasks and the device did to them before.
HangupDrops ==
    port = "closed" /\ AtRest /\ termios.hupcl /\ ~stale => lines = {}

\* The chip's reading of the two registers.
ChipSize   == ((chip.value \div 256) % 4) + 5
ChipStop2  == (chip.value \div 1024) % 2 = 1
ChipParity ==
    LET enabled == (chip.value \div 2048) % 2 = 1
        kind    == (chip.value \div 4096) % 4
    IN  IF ~enabled THEN "none"
        ELSE CASE kind = 0 -> "odd"  [] kind = 1 -> "even"
               [] kind = 2 -> "mark" [] kind = 3 -> "space"
ChipClock ==
    LET b == chip.index % 128 IN
    CASE b = 0 -> 11719   [] b = 1 -> 93750 [] b = 2 -> 750000
      [] b = 3 -> 6000000 [] b = 7 -> 12000000
ChipFactor == 256 - chip.index \div 256

\* An open port at rest runs with the character size, the stop bits and the
\* parity the user sees, also when settings that seemed the same were filtered
\* out, and with flow control if the user asks for it.  (Not only if: nothing
\* switches flow control off again, ch34x.c:518.)
ConfigFollows ==
    port = "open" /\ pc[Tty] = "idle" /\ ~unset
        => /\ ChipSize = termios.size /\ ChipStop2 = termios.stop2
           /\ ChipParity = termios.parity
           /\ termios.flow => chipFlow

\* The chip runs at the rate that was asked for as nearly as any factor of
\* that clock allows.  Below 46 baud the factor no longer fits.
Off(rate) == IF rate > termios.baud THEN rate - termios.baud
             ELSE termios.baud - rate
RateNearest ==
    port = "open" /\ pc[Tty] = "idle" /\ ~unset
            /\ 46 <= termios.baud /\ termios.baud <= 6000000
        => \A d \in 1 .. 255 :
              Off(ChipClock \div ChipFactor) <= Off(ChipClock \div d)

-----------------------------------------------------------------------------
(* What the comments say                                                   *)

\* The control lines change "if we are switching to or from B0"
\* (ch34x.c:502), which is a setting like another: the way there divides by no
\* zero.
B0IsASetting == ~oops

=============================================================================
