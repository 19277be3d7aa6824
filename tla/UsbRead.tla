------------------------------- MODULE UsbRead -------------------------------
(***************************************************************************)
(* The receiving side of the host's USB driver                             *)
(* (src/avr-experiments/ch34x/ch34x.c): ch34x_open and ch34x_close, the    *)
(* callbacks of the read URB and of the interrupt URB, which submit their  *)
(* URBs again, the status both of them keep in line_status, and tasks that *)
(* wait for it to change (TIOCMIWAIT).                                     *)
(*                                                                         *)
(* A status byte is the set of its bits, by value.  The same four bits     *)
(* mean errors to the read callback and modem lines to the tasks that      *)
(* wait.  The USB core is modelled as in UsbWrite.                         *)
(***************************************************************************)
EXTENDS Naturals

CONSTANTS
    Tasks,      \* tasks that may wait
    Reports,    \* status bytes the device may report
    Mask,       \* the modem lines each of them waits for
    MaxFaults   \* bound on failures of the USB core and the device

OVERRUN   == {1}
PARITY    == {2}
FRAME     == {2, 4}
TRANSIENT == {1, 2, 4}
Bits      == {1, 2, 4, 8}

ASSUME UsbReadAssumption ==
    /\ Reports \subseteq SUBSET Bits
    /\ Mask \in [Tasks -> SUBSET Bits]     \* CTS, DSR, RING, DCD
    /\ MaxFaults \in Nat

READ == "read"
INT  == "interrupt"
Urbs == {READ, INT}

VARIABLES
    port,       \* where ch34x_open or ch34x_close is
    flying,     \* the URBs that are with the USB core
    reject,     \* the URBs usb_kill_urb is at work on
    cb,         \* where the callback of each URB is
    lineStatus, \* priv->line_status
    flag,       \* tty_flag of the read callback
    waitFlag,   \* wait_flag, one for all ports and tasks
    pc,         \* where each task is in wait_modem_info
    prev,       \* its prevstatus
    signalled,  \* tasks with a signal pending
    stopped,    \* history: URBs that will not be submitted any more
    faults,     \* history: failures
    fresh,      \* history: an error was reported since a read took the status
    touched     \* history: tasks whose lines changed since they looked

usb    == <<flying, reject, cb>>
status == <<lineStatus, waitFlag, fresh, touched>>
tasks  == <<pc, prev, signalled>>
vars   == <<port, usb, status, tasks, flag, stopped, faults>>

TypeOK ==
    /\ port \in {"closed", "reading", "listening", "open", "kill int",
                 "killing int", "kill read", "killing read"}
    /\ flying \subseteq Urbs /\ reject \subseteq Urbs /\ stopped \subseteq Urbs
    /\ cb \in [Urbs -> {"idle", "ok", "push", "notify", "exit"}]
    /\ cb[READ] # "notify" /\ cb[INT] # "push"
    /\ lineStatus \subseteq Bits
    /\ waitFlag \in BOOLEAN /\ fresh \in BOOLEAN
    /\ pc \in [Tasks -> {"idle", "wait", "asleep", "woken", "look"}]
    /\ prev \in [Tasks -> SUBSET Bits]
    /\ signalled \subseteq Tasks /\ touched \subseteq Tasks
    /\ flag \in {"normal", "parity", "overrun", "frame"}
    /\ faults \in 0 .. MaxFaults

Init ==
    /\ port = "closed"
    /\ flying = {} /\ reject = {} /\ stopped = {}
    /\ cb = [u \in Urbs |-> "idle"]
    /\ lineStatus = {} /\ waitFlag = FALSE
    /\ pc = [t \in Tasks |-> "idle"]
    /\ prev = [t \in Tasks |-> {}]
    /\ signalled = {} /\ touched = {}
    /\ flag = "normal" /\ faults = 0 /\ fresh = FALSE

Differ(s, t) == (s \ t) \cup (t \ s)

\* line_status changes while tasks may be between two looks at it.
SetStatus(s) ==
    /\ lineStatus' = s
    /\ touched' = touched \cup
          {t \in Tasks : /\ pc[t] # "idle"
                         /\ Differ(lineStatus, s) \cap Mask[t] # {}}

-----------------------------------------------------------------------------
(* The USB core                                                            *)

Accepts(u) == u \notin flying \cup reject

Fails(u) ==
    \/ ~Accepts(u) /\ UNCHANGED faults
    \/ faults < MaxFaults /\ faults' = faults + 1

\* The URB is given back and its callback begins with the step that the status
\* makes it go to.
Returns(u, step) ==
    /\ u \in flying /\ cb[u] = "idle"
    /\ flying' = flying \ {u}
    /\ cb' = [cb EXCEPT ![u] = step]
    /\ UNCHANGED <<port, reject, status, tasks, flag>>

Complete(u) == Returns(u, "ok") /\ UNCHANGED <<stopped, faults>>

\* Killed: both callbacks return at once.
Ended(u) ==
    /\ u \in reject
    /\ Returns(u, "idle")
    /\ UNCHANGED <<stopped, faults>>

\* Any other error is submitted again by the interrupt callback, and by the
\* read callback if it is EPROTO.
Again(u) ==
    /\ faults < MaxFaults
    /\ Returns(u, "exit")
    /\ faults' = faults + 1
    /\ UNCHANGED stopped

\* Another error of the read URB: reading stops until the port is opened anew.
Stops ==
    /\ faults < MaxFaults
    /\ Returns(READ, "idle")
    /\ faults' = faults + 1
    /\ stopped' = stopped \cup {READ}

-----------------------------------------------------------------------------
(* The callbacks                                                           *)

\* ch34x_update_line_status under the lock, or a report that is too short.
Update ==
    /\ cb[INT] = "ok"
    /\ \/ \E r \in Reports :
            /\ SetStatus(r)
            /\ fresh' = (fresh \/ r \cap TRANSIENT # {})
            /\ cb' = [cb EXCEPT ![INT] = "notify"]
       \/ /\ cb' = [cb EXCEPT ![INT] = "exit"]
          /\ UNCHANGED <<lineStatus, fresh, touched>>
    /\ UNCHANGED <<port, flying, reject, waitFlag, tasks, flag, stopped,
                   faults>>

\* wait_flag is set; delta_msr_wait is woken, on which nobody sleeps.
Notify ==
    /\ cb[INT] = "notify"
    /\ waitFlag' = TRUE
    /\ cb' = [cb EXCEPT ![INT] = "exit"]
    /\ UNCHANGED <<port, flying, reject, lineStatus, fresh, touched, tasks,
                   flag, stopped, faults>>

\* (A slip would be to call a framing error a break.)
TtyFlagBreak(s) ==
    IF s \cap FRAME = FRAME THEN "break"
    ELSE IF s \cap PARITY # {} THEN "parity"
    ELSE IF s \cap OVERRUN # {} THEN "overrun"
    ELSE "normal"
TtyFlag(s) ==
    IF s \cap PARITY # {} THEN "parity"
    ELSE IF s \cap OVERRUN # {} THEN "overrun"
    ELSE IF s \cap FRAME # {} THEN "frame"
    ELSE "normal"

\* The read callback takes the status, clears the errors in it, and chooses the
\* flag of its bytes.  (A slip would be to leave the errors.)
SampleOnly ==
    /\ cb[READ] = "ok"
    /\ flag' = TtyFlag(lineStatus)
    /\ fresh' = FALSE
    /\ cb' = [cb EXCEPT ![READ] = "push"]
    /\ UNCHANGED <<port, flying, reject, lineStatus, touched, waitFlag, tasks,
                   stopped, faults>>
Sample ==
    /\ cb[READ] = "ok"
    /\ flag' = TtyFlag(lineStatus)
    /\ SetStatus(lineStatus \ TRANSIENT)
    /\ fresh' = FALSE
    /\ cb' = [cb EXCEPT ![READ] = "push"]
    /\ UNCHANGED <<port, flying, reject, waitFlag, tasks, stopped, faults>>

\* The bytes, if there are any, go to the tty with the flag.
Push ==
    /\ cb[READ] = "push"
    /\ waitFlag' = TRUE
    /\ flag' = "normal"
    /\ cb' = [cb EXCEPT ![READ] = "exit"]
    /\ UNCHANGED <<port, flying, reject, lineStatus, fresh, touched, tasks,
                   stopped, faults>>

\* The last step of either callback.  (A slip would be to end without it.)
LeaveOut(u) ==
    /\ cb[u] = "exit"
    /\ cb' = [cb EXCEPT ![u] = "idle"]
    /\ UNCHANGED <<port, flying, reject, status, tasks, flag, stopped, faults>>
Resubmit(u) ==
    /\ cb[u] = "exit"
    /\ cb' = [cb EXCEPT ![u] = "idle"]
    /\ \/ /\ Accepts(u)
          /\ flying' = flying \cup {u}
          /\ UNCHANGED <<stopped, faults>>
       \/ /\ Fails(u)
          /\ stopped' = stopped \cup {u}
          /\ UNCHANGED flying
    /\ UNCHANGED <<port, reject, status, tasks, flag>>

-----------------------------------------------------------------------------
(* ch34x_open and ch34x_close                                              *)

Open ==
    /\ port = "closed"
    /\ port' = "reading"
    /\ UNCHANGED <<usb, status, tasks, flag, stopped, faults>>

\* Submit u and go on to the next step; or fail and close again.  (A slip
\* would be to return the error only.)
SubmitOrReturn(u, next) ==
    /\ \/ /\ Accepts(u)
          /\ flying' = flying \cup {u} /\ stopped' = stopped \ {u}
          /\ port' = next
          /\ UNCHANGED faults
       \/ /\ Fails(u)
          /\ port' = "closed"
          /\ UNCHANGED <<flying, stopped>>
    /\ UNCHANGED <<reject, cb, status, tasks, flag>>
SubmitOrClose(u, next) ==
    /\ \/ /\ Accepts(u)
          /\ flying' = flying \cup {u} /\ stopped' = stopped \ {u}
          /\ port' = next
          /\ UNCHANGED faults
       \/ /\ Fails(u)
          /\ port' = "kill int"
          /\ UNCHANGED <<flying, stopped>>
    /\ UNCHANGED <<reject, cb, status, tasks, flag>>

OpenRead   == port = "reading" /\ SubmitOrClose(READ, "listening")
OpenListen == port = "listening" /\ SubmitOrClose(INT, "open")

Close ==
    /\ port = "open"
    /\ port' = "kill int"
    /\ UNCHANGED <<usb, status, tasks, flag, stopped, faults>>

KillBegins(u, from, to) ==
    /\ port = from
    /\ port' = to
    /\ reject' = reject \cup {u}
    /\ UNCHANGED <<flying, cb, status, tasks, flag, stopped, faults>>

\* (A slip would be to unlink the URB and not to wait for its callback.)
KillEndsEarly(u, from, to) ==
    /\ port = from /\ u \notin flying
    /\ port' = to
    /\ reject' = reject \ {u}
    /\ UNCHANGED <<flying, cb, status, tasks, flag, stopped, faults>>
KillEnds(u, from, to) ==
    /\ port = from /\ u \notin flying /\ cb[u] = "idle"
    /\ port' = to
    /\ reject' = reject \ {u}
    /\ UNCHANGED <<flying, cb, status, tasks, flag, stopped, faults>>

KillUrbs ==
    \/ KillBegins(INT, "kill int", "killing int")
    \/ KillEnds(INT, "killing int", "kill read")
    \/ KillBegins(READ, "kill read", "killing read")
    \/ KillEnds(READ, "killing read", "closed")

-----------------------------------------------------------------------------
(* wait_modem_info                                                         *)

\* The ioctl of an open tty.  The port may be closed under the task that waits,
\* by a hang-up.
Ask(t) ==
    /\ port = "open"
    /\ pc[t] = "idle"
    /\ pc' = [pc EXCEPT ![t] = "wait"]
    /\ prev' = [prev EXCEPT ![t] = lineStatus]
    /\ touched' = touched \ {t}
    /\ UNCHANGED <<port, usb, lineStatus, waitFlag, fresh, signalled, flag,
                   stopped, faults>>

\* wait_event_interruptible: on when the flag is set or a signal is pending,
\* to sleep otherwise.
Wait(t) ==
    /\ pc[t] = "wait"
    /\ pc' = [pc EXCEPT ![t] =
                IF waitFlag \/ t \in signalled THEN "woken" ELSE "asleep"]
    /\ UNCHANGED <<port, usb, status, prev, signalled, flag, stopped,
                   faults>>

\* Nobody wakes wq: only a signal ends the sleep.
Wake(t) ==
    /\ pc[t] = "asleep" /\ t \in signalled
    /\ pc' = [pc EXCEPT ![t] = "woken"]
    /\ UNCHANGED <<port, usb, status, prev, signalled, flag, stopped,
                   faults>>

\* The flag is cleared for every task; a signal ends the call.  (A slip would
\* be to sleep again.)
TakeFlagDeaf(t) ==
    /\ pc[t] = "woken"
    /\ waitFlag' = FALSE
    /\ pc' = [pc EXCEPT ![t] = "look"]
    /\ signalled' = signalled \ {t}
    /\ UNCHANGED <<port, usb, lineStatus, fresh, touched, prev, flag,
                   stopped, faults>>
TakeFlag(t) ==
    /\ pc[t] = "woken"
    /\ waitFlag' = FALSE
    /\ \/ /\ t \in signalled
          /\ pc' = [pc EXCEPT ![t] = "idle"]
          /\ prev' = [prev EXCEPT ![t] = {}]
          /\ touched' = touched \ {t}
       \/ /\ t \notin signalled
          /\ pc' = [pc EXCEPT ![t] = "look"]
          /\ UNCHANGED <<prev, touched>>
    /\ signalled' = signalled \ {t}
    /\ UNCHANGED <<port, usb, lineStatus, fresh, flag, stopped,
                   faults>>

Changed(t) == Differ(prev[t], lineStatus) \cap Mask[t] # {}

\* (A slip would be to look at the status and not at the difference.)
LookAtStatus(t) ==
    /\ pc[t] = "look"
    /\ touched' = touched \ {t}
    /\ \/ /\ lineStatus \cap Mask[t] # {}
          /\ pc' = [pc EXCEPT ![t] = "idle"]
          /\ prev' = [prev EXCEPT ![t] = {}]
          /\ signalled' = signalled \ {t}
       \/ /\ lineStatus \cap Mask[t] = {}
          /\ pc' = [pc EXCEPT ![t] = "wait"]
          /\ prev' = [prev EXCEPT ![t] = lineStatus]
          /\ UNCHANGED signalled
    /\ UNCHANGED <<port, usb, lineStatus, waitFlag, fresh, flag, stopped,
                   faults>>
Look(t) ==
    /\ pc[t] = "look"
    /\ touched' = touched \ {t}
    /\ \/ /\ Changed(t)
          /\ pc' = [pc EXCEPT ![t] = "idle"]
          /\ prev' = [prev EXCEPT ![t] = {}]
          /\ signalled' = signalled \ {t}
       \/ /\ ~Changed(t)
          /\ pc' = [pc EXCEPT ![t] = "wait"]
          /\ prev' = [prev EXCEPT ![t] = lineStatus]
          /\ UNCHANGED signalled
    /\ UNCHANGED <<port, usb, lineStatus, waitFlag, fresh, flag, stopped,
                   faults>>

\* wait_flag is one for all boards: another one's callbacks set it, and the
\* tasks that wait there clear it.
OtherBoard ==
    /\ waitFlag' = ~waitFlag
    /\ UNCHANGED <<port, usb, lineStatus, fresh, touched, tasks, flag, stopped,
                   faults>>

Signal(t) ==
    /\ pc[t] # "idle" /\ t \notin signalled
    /\ signalled' = signalled \cup {t}
    /\ UNCHANGED <<port, usb, status, pc, prev, flag, stopped, faults>>

-----------------------------------------------------------------------------

Core == \E u \in Urbs : Complete(u) \/ Ended(u) \/ Again(u) \/ Stops

Callbacks ==
    \/ Update \/ Notify \/ Sample \/ Push
    \/ \E u \in Urbs : Resubmit(u)

Task(t) == Wait(t) \/ Wake(t) \/ TakeFlag(t) \/ Look(t)

Next ==
    \/ Core \/ Callbacks
    \/ Open \/ OpenRead \/ OpenListen \/ Close \/ KillUrbs
    \/ OtherBoard
    \/ \E t \in Tasks : Ask(t) \/ Task(t) \/ Signal(t)

Spec == Init /\ [][Next]_vars

\* Tasks that are not asleep run on.  Nothing is assumed of the device.
FairSpec == Spec /\ \A t \in Tasks : WF_vars(Task(t))

-----------------------------------------------------------------------------
(* What the driver keeps                                                   *)

\* An open port listens: each URB is with the USB core, or in its callback
\* which will submit it again.  The exceptions are a submission that failed
\* and a read URB that ended with an error other than EPROTO; then the port
\* must be reopened.
ListensWhileOpen ==
    port = "open"
        => \A u \in Urbs : u \in flying \cup stopped \/ cb[u] # "idle"

\* A closed port is quiet, also one that could not be opened: a callback that
\* was under way when the URB was killed has not submitted it again.
QuietWhenClosed ==
    port = "closed" => flying = {} /\ \A u \in Urbs : cb[u] = "idle"

\* A reported error flags the bytes of one transfer: bytes are flagged only if
\* an error was reported since the transfer before them.  (It may have been
\* reported in an earlier session: opening the port does not clear it.)
FlaggedOnce == [][ flag = "normal" /\ flag' # "normal" => fresh ]_vars

\* A task that returns without a signal has seen a bit it asked for change
\* since it last looked.  (The change may be the read callback's, which clears
\* the bits of CTS, DSR and RING as errors.)
ReturnsOnChange ==
    [][ \A t \in Tasks :
            pc[t] = "look" /\ pc'[t] = "idle" => t \in touched ]_vars

\* A signal ends the wait, however the status changes meanwhile and whoever
\* takes the flag.
SignalEndsWait ==
    \A t \in Tasks : (t \in signalled) ~> (pc[t] = "idle")

-----------------------------------------------------------------------------
(* What the comments say                                                   *)

\* On an open port a modem line that the task asked for (not one of the error
\* bits) differs from what it saw last, and the interrupt callback has set the
\* flag that says so.
Told(t) ==
    /\ port = "open" /\ waitFlag /\ cb[INT] # "notify"
    /\ Differ(prev[t], lineStatus) \cap (Mask[t] \ TRANSIENT) # {}

\* The status is saved "for others to look at" (ch34x.c:1070): a task that
\* sleeps while it was told of a new one gets to look at it, unless another
\* task takes the flag or the line changes back.
StatusIsLookedAt ==
    \A t \in Tasks :
        (pc[t] = "asleep" /\ Told(t)) ~> (pc[t] # "asleep" \/ ~Told(t))

=============================================================================
