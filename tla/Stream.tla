------------------------------- MODULE Stream -------------------------------
(***************************************************************************)
(* What the write side of the host's USB driver promises to its callers:   *)
(* bytes leave in the order in which they were accepted.  As long as       *)
(* nothing went wrong and the port stayed open, none is lost and none      *)
(* comes twice.  When a transfer fails, some of the bytes at the front may *)
(* be lost and the first of them repeated; closing the port throws away    *)
(* what waits at the back.                                                 *)
(*                                                                         *)
(* The bytes are numbered in the order in which they are accepted.         *)
(***************************************************************************)
EXTENDS Integers, Sequences

VARIABLES
    queue,      \* bytes accepted, not yet at the device
    line,       \* bytes that reached the device
    accepted,   \* how many bytes were accepted
    fault       \* has a transfer failed, or the port been closed?

vars == <<queue, line, accepted, fault>>

Front(n) == SubSeq(queue, 1, n)
Rest(n)  == SubSeq(queue, n + 1, Len(queue))

Init ==
    /\ queue = <<>> /\ line = <<>>
    /\ accepted = 0 /\ fault = FALSE

Accept ==
    /\ accepted' \in Nat /\ accepted' >= accepted
    /\ queue' = queue \o [i \in 1 .. accepted' - accepted |-> accepted + i]
    /\ UNCHANGED <<line, fault>>

\* The first n bytes leave; of these, the first k reach the device.
Leave(n, k) ==
    /\ line' = line \o Front(k)
    /\ queue' = Rest(n)
    /\ fault' = (fault \/ k < n)
    /\ UNCHANGED accepted

\* The same, but the very first byte will be sent again.
Repeat(n, k) ==
    /\ line' = line \o Front(k)
    /\ queue' = Front(1) \o Rest(n)
    /\ fault' = TRUE
    /\ UNCHANGED accepted

\* All but the first n bytes are thrown away.
Discard(n) ==
    /\ queue' = Front(n)
    /\ fault' = TRUE
    /\ UNCHANGED <<line, accepted>>

Next ==
    \/ Accept
    \/ \E n \in 0 .. Len(queue) :
          \/ Discard(n)
          \/ \E k \in 0 .. n : Leave(n, k) \/ (n > 0 /\ Repeat(n, k))

Spec == Init /\ [][Next]_vars

\* Until something goes wrong, every byte accepted is either at the device or
\* still waiting, once, and in order.
Whole == ~fault => line \o queue = [i \in 1 .. accepted |-> i]

=============================================================================
