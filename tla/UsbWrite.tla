------------------------------ MODULE UsbWrite ------------------------------
(***************************************************************************)
(* The write side of the host's USB driver                                 *)
(* (src/avr-experiments/ch34x/ch34x.c): callers of ch34x_write, which may  *)
(* be several (a user's write and the line discipline's echo), the         *)
(* completion callback of the one write URB, and ch34x_close.  They share  *)
(* the circular buffer under a spinlock, and write_urb_in_use, which is    *)
(* tested and set under the lock but cleared without it.                   *)
(*                                                                         *)
(* The USB core is modelled from how the driver uses it: an URB that was   *)
(* submitted is given back once, with a status, to a callback that does    *)
(* not run twice at the same time; usb_kill_urb refuses submissions,       *)
(* takes the URB back and waits for its callback.                          *)
(*                                                                         *)
(* Bytes are numbered in the order in which they are accepted.             *)
(***************************************************************************)
EXTENDS Ring, FiniteSets

CONSTANTS
    Writers,        \* contexts that may be inside ch34x_write
    Callback,       \* the context of ch34x_write_bulk_callback
    BULK_OUT_SIZE,  \* bytes the write URB carries at most
    MaxBytes,       \* bound on the bytes accepted in a behaviour
    MaxSessions,    \* bound on how often the port is opened
    MaxFaults       \* bound on failures of the USB core and the device

ASSUME UsbWriteAssumption ==
    /\ Callback \notin Writers
    /\ BULK_OUT_SIZE \in Nat \ {0}
    /\ {MaxBytes, MaxSessions, MaxFaults} \subseteq Nat

Contexts == Writers \cup {Callback}

VARIABLES
    ring,       \* priv->buf
    inUse,      \* priv->write_urb_in_use
    buffer,     \* the URB's transfer_buffer, as long as its length says
    flying,     \* the URB is with the USB core
    reject,     \* usb_kill_urb is at work on it
    pc,         \* where each context is in its function
    port,       \* "open", "kill" and "killing" (in ch34x_close), "closed"
    opened,     \* how often it was opened
    accepted,   \* history: how many bytes ch34x_write accepted
    line,       \* history: the bytes that reached the device
    faults,     \* history: failures of the USB core and the device
    fault,      \* history: a transfer failed, or the port was closed
    late        \* history: a write overlapped with a close

urb   == <<buffer, flying, reject>>
place == <<port, opened>>
vars  == <<ring, inUse, urb, pc, place, accepted, line, faults, fault, late>>

Steps == {"idle", "send", "submit", "failed", "resubmit", "release",
          "terminated"}

TypeOK ==
    /\ ring \in Buffers(Nat) /\ Contents(ring) \in Seq(1 .. accepted)
    /\ buffer \in Seq(1 .. accepted) /\ Len(buffer) <= BULK_OUT_SIZE
    /\ line \in Seq(1 .. accepted)
    /\ {inUse, flying, reject, fault, late} \subseteq BOOLEAN
    /\ pc \in [Contexts -> Steps]
    /\ \A w \in Writers : pc[w] \in {"idle", "send", "submit", "failed"}
    /\ port \in {"open", "kill", "killing", "closed"}
    /\ {opened, accepted, faults} \subseteq Nat

Init ==
    /\ ring = Alloc([i \in Index |-> 0])
    /\ inUse = FALSE
    /\ buffer = <<>> /\ flying = FALSE /\ reject = FALSE
    /\ pc = [c \in Contexts |-> "idle"]
    /\ port = "closed" /\ opened = 0
    /\ accepted = 0 /\ line = <<>>
    /\ faults = 0 /\ fault = FALSE /\ late = FALSE

Goto(c, step) == pc' = [pc EXCEPT ![c] = step]

-----------------------------------------------------------------------------
(* Callers                                                                 *)

\* ch34x_write of n bytes, up to its call of ch34x_send.  (A slip would be to
\* report all n as written.)
WriteAll(w, n) ==
    /\ pc[w] = "idle" /\ port # "closed" /\ accepted + n <= MaxBytes
    /\ ring' = Put(ring, [i \in 1 .. n |-> accepted + i])
    /\ accepted' = accepted + n
    /\ Goto(w, "send")
    /\ late' = (late \/ port # "open")
    /\ UNCHANGED <<inUse, urb, place, line, faults, fault>>
Write(w, n) ==
    /\ pc[w] = "idle" /\ port # "closed" /\ accepted + n <= MaxBytes
    /\ LET count == Moved(n, SpaceAvail(ring)) IN
          /\ ring' = Put(ring, [i \in 1 .. n |-> accepted + i])
          /\ accepted' = accepted + count
    /\ Goto(w, "send")
    /\ late' = (late \/ port # "open")
    /\ UNCHANGED <<inUse, urb, place, line, faults, fault>>

\* ch34x_chars_in_buffer: at 0 the tty layer stops waiting for the end of the
\* output.  What the URB carries is not counted.
CharsInBuffer == DataAvail(ring)

-----------------------------------------------------------------------------
(* ch34x_send, in any context                                              *)

Busy(c) ==
    /\ pc[c] = "send" /\ (inUse \/ DataAvail(ring) = 0)
    /\ Goto(c, "idle")
    /\ UNCHANGED <<ring, inUse, urb, place, accepted, line, faults, fault,
                   late>>

\* The bytes go to the transfer buffer and the URB is ours.  Slips would be
\* not to look whether it is in use, and to take more than the URB carries.
TakeAll(c) ==
    /\ pc[c] = "send" /\ ~inUse /\ DataAvail(ring) > 0
    /\ buffer' = Contents(ring)
    /\ ring' = Clear(ring)
    /\ inUse' = TRUE
    /\ Goto(c, "submit")
    /\ UNCHANGED <<flying, reject, place, accepted, line, faults, fault, late>>
TakeAnyway(c) ==
    /\ pc[c] = "send" /\ DataAvail(ring) > 0
    /\ buffer' = Got(ring, BULK_OUT_SIZE)
    /\ ring' = Get(ring, BULK_OUT_SIZE)
    /\ inUse' = TRUE
    /\ Goto(c, "submit")
    /\ UNCHANGED <<flying, reject, place, accepted, line, faults, fault, late>>
Take(c) ==
    /\ pc[c] = "send" /\ ~inUse /\ DataAvail(ring) > 0
    /\ buffer' = Got(ring, BULK_OUT_SIZE)
    /\ ring' = Get(ring, BULK_OUT_SIZE)
    /\ inUse' = TRUE
    /\ Goto(c, "submit")
    /\ UNCHANGED <<flying, reject, place, accepted, line, faults, fault, late>>

\* usb_submit_urb
Accepts == ~flying /\ ~reject
MayFail == flying \/ reject \/ faults < MaxFaults

Submit(c) ==
    /\ pc[c] = "submit" /\ Accepts
    /\ flying' = TRUE
    /\ Goto(c, "idle")
    /\ UNCHANGED <<ring, inUse, buffer, reject, place, accepted, line, faults,
                   fault, late>>

SubmitFails(c) ==
    /\ pc[c] = "submit" /\ MayFail
    /\ Goto(c, "failed")
    /\ faults' = IF Accepts THEN faults + 1 ELSE faults
    /\ fault' = TRUE
    /\ UNCHANGED <<ring, inUse, urb, place, accepted, line, late>>

\* The URB is given up without the lock; nobody sends again.
GiveUp(c) ==
    /\ pc[c] = "failed"
    /\ inUse' = FALSE
    /\ Goto(c, "idle")
    /\ UNCHANGED <<ring, urb, place, accepted, line, faults, fault, late>>

-----------------------------------------------------------------------------
(* The USB core gives the URB back                                         *)

Returns(k, step) ==
    /\ flying /\ pc[Callback] = "idle"
    /\ flying' = FALSE
    /\ line' = line \o SubSeq(buffer, 1, k)
    /\ Goto(Callback, step)
    /\ UNCHANGED <<ring, inUse, buffer, reject, place, accepted, late>>

Complete ==
    /\ Returns(Len(buffer), "release")
    /\ UNCHANGED <<faults, fault>>

\* A status that is neither success nor the end of the URB; k bytes got out.
CompleteBadly(k) ==
    /\ faults < MaxFaults
    /\ Returns(k, "resubmit")
    /\ faults' = faults + 1 /\ fault' = TRUE

Killed(k) ==
    /\ reject
    /\ Returns(k, "terminated")
    /\ fault' = TRUE
    /\ UNCHANGED faults

-----------------------------------------------------------------------------
(* ch34x_write_bulk_callback                                               *)

\* Success, or an URB that could not be resubmitted: ch34x_send follows.  (A
\* slip would be to leave that to the next write.)
ReleaseOnly ==
    /\ pc[Callback] = "release"
    /\ inUse' = FALSE
    /\ Goto(Callback, "idle")
    /\ UNCHANGED <<ring, urb, place, accepted, line, faults, fault, late>>
Release ==
    /\ pc[Callback] = "release"
    /\ inUse' = FALSE
    /\ Goto(Callback, "send")
    /\ UNCHANGED <<ring, urb, place, accepted, line, faults, fault, late>>

\* ECONNRESET, ENOENT, ESHUTDOWN: no more is sent.
Terminated ==
    /\ pc[Callback] = "terminated"
    /\ inUse' = FALSE
    /\ Goto(Callback, "idle")
    /\ UNCHANGED <<ring, urb, place, accepted, line, faults, fault, late>>

\* Any other status: the first byte is sent again, the others are forgotten.
Resubmit ==
    /\ pc[Callback] = "resubmit"
    /\ buffer' = SubSeq(buffer, 1, 1)
    /\ \/ /\ Accepts
          /\ flying' = TRUE
          /\ Goto(Callback, "idle")
          /\ UNCHANGED faults
       \/ /\ MayFail
          /\ Goto(Callback, "release")
          /\ faults' = IF Accepts THEN faults + 1 ELSE faults
          /\ UNCHANGED flying
    /\ UNCHANGED <<ring, inUse, reject, place, accepted, line, fault, late>>

-----------------------------------------------------------------------------
(* ch34x_open and ch34x_close                                              *)

\* The writers of an earlier session are gone by then.  Neither the buffer nor
\* write_urb_in_use is touched.
Open ==
    /\ port = "closed" /\ opened < MaxSessions
    /\ \A w \in Writers : pc[w] = "idle"
    /\ port' = "open" /\ opened' = opened + 1
    /\ UNCHANGED <<ring, inUse, urb, pc, accepted, line, faults, fault, late>>

\* What is in the buffer is dropped (the wait for it to drain is commented
\* out).  (A slip would be to leave it there.)
CloseKeep ==
    /\ port = "open"
    /\ port' = "kill"
    /\ fault' = TRUE
    /\ late' = (late \/ \E w \in Writers : pc[w] # "idle")
    /\ UNCHANGED <<ring, inUse, urb, pc, opened, accepted, line, faults>>
Close ==
    /\ port = "open"
    /\ ring' = Clear(ring)
    /\ port' = "kill"
    /\ fault' = TRUE
    /\ late' = (late \/ \E w \in Writers : pc[w] # "idle")
    /\ UNCHANGED <<inUse, urb, pc, opened, accepted, line, faults>>

Kill ==
    /\ port = "kill"
    /\ reject' = TRUE /\ port' = "killing"
    /\ UNCHANGED <<ring, inUse, buffer, flying, pc, opened, accepted, line,
                   faults, fault, late>>

\* usb_kill_urb returns when the URB is back and its callback is over.
KillReturns ==
    /\ port = "killing" /\ ~flying /\ pc[Callback] = "idle"
    /\ reject' = FALSE /\ port' = "closed"
    /\ UNCHANGED <<ring, inUse, buffer, flying, pc, opened, accepted, line,
                   faults, fault, late>>

-----------------------------------------------------------------------------

Caller == \E w \in Writers, n \in 1 .. BUF_SIZE : Write(w, n)

Sender(c) == Busy(c) \/ Take(c) \/ Submit(c) \/ SubmitFails(c) \/ GiveUp(c)

Core ==
    \/ Complete
    \/ \E k \in 0 .. Len(buffer) : CompleteBadly(k) \/ Killed(k)

CallbackStep == Release \/ Terminated \/ Resubmit

Next ==
    \/ Caller
    \/ \E c \in Contexts : Sender(c)
    \/ Core \/ CallbackStep
    \/ Open \/ Close \/ Kill \/ KillReturns

Spec == Init /\ [][Next]_vars

\* Contexts run on, the device takes what it is sent, and usb_kill_urb
\* returns.  Writing, opening and closing are up to the user.
FairSpec ==
    /\ Spec
    /\ \A c \in Contexts : WF_vars(Sender(c))
    /\ WF_vars(Core) /\ WF_vars(CallbackStep)
    /\ WF_vars(Kill) /\ WF_vars(KillReturns)

-----------------------------------------------------------------------------
(* What the driver keeps                                                   *)

\* The contexts that act on the URB as its owner.
Owners == {c \in Contexts :
              pc[c] \in {"submit", "failed", "resubmit", "release",
                         "terminated"}}

\* write_urb_in_use, which is cleared without the lock, still says exactly
\* whether somebody has the URB, the USB core or one context: no one fills its
\* transfer buffer while another does, or while it is being sent.
OwnedOnce ==
    /\ inUse <=> (flying \/ Owners # {})
    /\ \A c, d \in Owners : c = d
    /\ ~(flying /\ Owners # {})

\* While chars_in_buffer returns 0, no more is on its way than the one URB
\* carries, and nothing if that is not in use: output is over soon after the
\* tty layer believes it is.
TailInUrb ==
    ~fault /\ CharsInBuffer = 0
        => accepted - Len(line) <= IF inUse THEN BULK_OUT_SIZE ELSE 0

\* After a close that no write overlapped with, the URB is at rest and the
\* next session starts with an empty buffer.
QuietAfterClose ==
    port = "closed" /\ ~late
        => ~flying /\ ~inUse /\ DataAvail(ring) = 0 /\ Owners = {}

\* A byte accepted reaches the device, unless a transfer failed or the port
\* was closed.  In particular no byte is left in the buffer because a writer
\* saw the URB in use while the callback no longer looked at the buffer.
Delivered ==
    \A n \in 1 .. MaxBytes :
        (accepted >= n) ~> (fault \/ \E i \in 1 .. Len(line) : line[i] = n)

\* The bytes on their way: in the transfer buffer, as far as it will still be
\* sent, and behind them in the circular buffer.
Outgoing ==
    IF flying \/ \E c \in Contexts : pc[c] = "submit" THEN buffer
    ELSE IF pc[Callback] = "resubmit" THEN SubSeq(buffer, 1, 1)
    ELSE <<>>

Queue == Outgoing \o Contents(ring)

Out == INSTANCE Stream WITH queue <- Queue

\* The write side is an ordered stream.
StreamSpec == Out!Spec

\* Until a transfer fails or the port is closed, no byte is lost, repeated or
\* overtaken between ch34x_write and the device.
NothingLost == Out!Whole

=============================================================================
