---------------------------- MODULE Conversation ----------------------------
(***************************************************************************)
(* What a user of the client may rely on: messages are asked one after the *)
(* other, the board handles them in that order, each once, and a call that *)
(* waits for an answer returns after the board has handled its message.    *)
(* Bytes, buffers and interrupts do not occur.                             *)
(***************************************************************************)
EXTENDS Naturals, Sequences

VARIABLES
    asked,      \* the messages of the calls
    handled,    \* the messages the board has handled
    waiting,    \* a call waits for its answer
    broken      \* from here on nothing is promised

vars == <<asked, handled, waiting, broken>>

Init ==
    /\ asked = <<>> /\ handled = <<>>
    /\ waiting = FALSE /\ broken = FALSE

\* A call, which may wait for an answer or not.
Ask ==
    /\ ~waiting
    /\ Len(asked') = Len(asked) + 1
    /\ asked' = Append(asked, asked'[Len(asked) + 1])
    /\ waiting' \in BOOLEAN
    /\ UNCHANGED <<handled, broken>>

\* The board handles the first message it has not handled.
Handle ==
    /\ Len(handled) < Len(asked)
    /\ handled' = Append(handled, asked[Len(handled) + 1])
    /\ UNCHANGED <<asked, waiting, broken>>

\* A call returns.
Answer ==
    /\ waiting /\ handled = asked
    /\ waiting' = FALSE
    /\ UNCHANGED <<asked, handled, broken>>

Break == broken' = TRUE

Next == Ask \/ Handle \/ Answer \/ Break

Spec == Init /\ [][Next]_vars

=============================================================================
