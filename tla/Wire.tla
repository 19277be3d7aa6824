-------------------------------- MODULE Wire --------------------------------
(***************************************************************************)
(* The serial line between the Python client (src/minitasks.py,            *)
(* src/miniserial.py) and the receive interrupt of src/minitasks.c, byte   *)
(* by byte: what the client writes for a call and how many bytes it then   *)
(* reads, the USART's small receive buffer, the handler that reads the     *)
(* rest of a message inside the interrupt, and the bytes it answers.       *)
(*                                                                         *)
(* A byte of an answer is modelled by the number of the message it answers *)
(* (the k-th the board handled): what matters is whose answer it is.       *)
(***************************************************************************)
EXTENDS Naturals, Sequences, SequencesExt

CONSTANTS
    MAX_TASKS,      \* task ids the board knows
    RX_CAPACITY,    \* bytes the USART holds before one is lost
    OFFSETS_LEN,    \* bytes of the answer to GET_OFFSETS
    BUILTINS_LEN,   \* bytes of the answer to GET_BUILTIN_LOCATIONS
    COUNT_LEN,      \* of these, the count of builtins, which comes first
    INSPECT_LEN,    \* bytes of the answer to INSPECT_TASK
    SIZES_LEN,      \* of these, the sizes of code and heap, which come first
    GOT_LEN,        \* bytes of "Got: 0x..", the answer to a byte of plain data
    Calls,          \* the calls a user may make: [type, id, data, heap]
    MaxCalls,       \* bound on the calls of a behaviour
    StartsCached    \* may the client know the offsets from the start?

ASSUME WireAssumption ==
    /\ MAX_TASKS \in 1 .. 255
    /\ RX_CAPACITY \in Nat \ {0}
    /\ {OFFSETS_LEN, BUILTINS_LEN, INSPECT_LEN, GOT_LEN, COUNT_LEN, SIZES_LEN}
          \subseteq Nat \ {0}
    /\ COUNT_LEN < BUILTINS_LEN /\ SIZES_LEN < INSPECT_LEN
    /\ MaxCalls \in Nat
    /\ StartsCached \in BOOLEAN

ESC  == 255
WORD == 65536

PING                  == 0
GET_OFFSETS           == 1
GET_BUILTIN_LOCATIONS == 2
LOAD_TASK             == 3
START_TASK            == 4
STOP_TASK             == 5
INSPECT_TASK          == 6
GET_MEMORY            == 10
SET_MEMORY            == 11

\* Plain bytes from the user's terminal; not a message type of the protocol.
DATA == 99

IdTypes == {LOAD_TASK, START_TASK, STOP_TASK, INSPECT_TASK}
MessageTypes == IdTypes \cup {PING, GET_OFFSETS, GET_BUILTIN_LOCATIONS,
                              GET_MEMORY, SET_MEMORY}

\* 16-bit numbers travel low byte first.
U16(n) == <<n % 256, n \div 256>>
U16At(m, i) == m[i] + 256 * m[i + 1]

\* Calls as a user may make them: load_task refuses what does not fit a slot
\* before it writes anything, the terminal hands over single bytes.
WellFormed(c) ==
    /\ c.type \in MessageTypes \cup {DATA}
    /\ c.id \in Nat /\ c.len \in Nat
    /\ c.data \in Seq(0 .. 255) /\ c.heap \in Seq(0 .. 255)
    /\ c.type = DATA => Len(c.data) = 1
    /\ c.type = LOAD_TASK => Len(c.data) + Len(c.heap) < WORD

\* Arguments that make one message.  Nothing refuses the others in time: ping
\* takes any string, encode_uint16 raises when the header is out, a range of
\* set_memory may wrap around the address space.
Fits(c) ==
    /\ c.type = PING => Len(c.data) = 1
    /\ c.type = GET_MEMORY => c.id < WORD /\ c.len < WORD
    /\ c.type = SET_MEMORY => c.id + Len(c.data) < WORD

ASSUME CallsAssumption == \A c \in Calls : WellFormed(c)

-----------------------------------------------------------------------------
VARIABLES
    cached,     \* does the client hold the board's offsets?
    busy,       \* the client is inside a call that reads an answer
    want,       \* bytes it reads next
    more,       \* bytes it reads after these
    rest,       \* bytes it writes once it has read them
    hung,       \* the adapter is gone
    toBoard,    \* bytes written by the client, not yet at the USART
    fifo,       \* the USART's receive buffer
    deaf,       \* the main thread has interrupts off
    msg,        \* bytes of a message the handler has read so far
    out,        \* bytes the handler still has to put
    dead,       \* the board is in die()
    toClient,   \* bytes the client has not read
    issued,     \* history: the messages the user asked for
    handled,    \* history: the messages the board handled
    lost,       \* history: the USART dropped a byte
    torn,       \* history: a call did not keep to one message and its answer
    chatty      \* history: plain data was typed

client == <<cached, busy, want, more, rest, hung>>
board  == <<fifo, msg, out, dead, handled, lost>>
vars == <<client, board, toBoard, deaf, toClient, issued, torn, chatty>>

TypeOK ==
    /\ {cached, busy, hung, deaf, dead, lost, torn, chatty} \subseteq BOOLEAN
    /\ {want, more} \subseteq Nat
    /\ {rest, toBoard, fifo, msg} \subseteq Seq(0 .. 255)
    /\ Len(fifo) <= RX_CAPACITY
    /\ {out, toClient} \subseteq Seq(1 .. Len(handled))
    /\ Len(issued) <= MaxCalls

Init ==
    /\ cached = StartsCached
    /\ busy = FALSE /\ want = 0 /\ more = 0 /\ rest = <<>> /\ hung = FALSE
    /\ toBoard = <<>> /\ fifo = <<>> /\ deaf = FALSE
    /\ msg = <<>> /\ out = <<>> /\ dead = FALSE
    /\ toClient = <<>> /\ issued = <<>> /\ handled = <<>>
    /\ lost = FALSE /\ torn = FALSE /\ chatty = FALSE

-----------------------------------------------------------------------------
(* The client                                                              *)

\* The bytes of the message that call c stands for.  The data of LOAD_TASK
\* and SET_MEMORY is counted, not escaped; plain data is escaped.
Message(c) ==
    CASE c.type = DATA -> c.data
      [] c.type = PING -> <<ESC, PING>> \o c.data
      [] c.type \in {GET_OFFSETS, GET_BUILTIN_LOCATIONS} -> <<ESC, c.type>>
      [] c.type = LOAD_TASK ->
            <<ESC, LOAD_TASK, c.id>> \o U16(Len(c.data)) \o U16(Len(c.heap))
              \o c.data \o c.heap
      [] c.type \in {START_TASK, STOP_TASK, INSPECT_TASK} ->
            <<ESC, c.type, c.id>>
      [] c.type = GET_MEMORY -> <<ESC, GET_MEMORY>> \o U16(c.id) \o U16(c.len)
      [] c.type = SET_MEMORY ->
            <<ESC, SET_MEMORY>> \o U16(c.id) \o U16(Len(c.data)) \o c.data

\* What reaches the line of a call whose arguments do not fit.
Written(c) ==
    CASE c.type = PING -> Message(c)
      [] c.type # PING /\ c.id >= WORD -> <<ESC, c.type>>
      [] c.type = SET_MEMORY /\ c.id < WORD /\ Len(c.data) < WORD -> Message(c)
      [] OTHER -> <<ESC, c.type>> \o U16(c.id)

\* How many bytes the call reads.
Wanted(c) ==
    CASE c.type = PING -> 1
      [] c.type = GET_OFFSETS -> OFFSETS_LEN
      [] c.type = GET_BUILTIN_LOCATIONS -> BUILTINS_LEN
      [] c.type = INSPECT_TASK -> INSPECT_LEN
      [] c.type = GET_MEMORY -> c.len
      [] OTHER -> 0

\* And how many before it looks at them: how many builtins, how much code and
\* heap there are, the board says first.
First(c) ==
    CASE c.type = GET_BUILTIN_LOCATIONS -> COUNT_LEN
      [] c.type = INSPECT_TASK -> SIZES_LEN
      [] OTHER -> Wanted(c)

\* A call starts when the one before it has returned; once the adapter is gone
\* every write fails.  A slip would be not to wait for the answer.
MayCallPipelined == ~hung /\ Len(issued) < MaxCalls
MayCall == ~busy /\ ~hung /\ Len(issued) < MaxCalls

\* handle_stdin_read writes what was typed as it is: an escape byte begins a
\* message that nobody completes.
Type(c) ==
    /\ MayCall /\ c.type = DATA
    /\ toBoard' = toBoard \o c.data
    /\ issued' = Append(issued, Message(c))
    /\ chatty' = TRUE
    /\ torn' = (torn \/ c.data = <<ESC>>)
    /\ UNCHANGED <<client, board, deaf, toClient>>

\* A call whose arguments are fine and, where an id is checked against the
\* offsets, whose offsets are known: the whole message, then the answer.
Whole(c) ==
    /\ MayCall /\ c.type # DATA /\ Fits(c)
    /\ c.type \in IdTypes => cached /\ c.id <= 255
    /\ toBoard' = toBoard \o Message(c)
    /\ issued' = Append(issued, Message(c))
    /\ busy' = (Wanted(c) > 0)
    /\ want' = First(c) /\ more' = Wanted(c) - First(c)
    /\ UNCHANGED <<cached, rest, hung, board, deaf, toClient, torn, chatty>>

\* One whose arguments do not fit: ping reads one byte for however many, the
\* others raise inside the message or return.
Unfit(c) ==
    /\ MayCall /\ ~Fits(c)
    /\ toBoard' = toBoard \o Written(c)
    /\ issued' = Append(issued, Written(c))
    /\ busy' = (c.type = PING) /\ want' = IF busy' THEN 1 ELSE 0
    /\ torn' = TRUE
    /\ UNCHANGED <<cached, more, rest, hung, board, deaf, toClient, chatty>>

\* load_task and inspect_task (and the offsets property itself) ask for the
\* offsets before anything else.
FetchOffsets ==
    /\ MayCall /\ ~cached
    /\ toBoard' = toBoard \o <<ESC, GET_OFFSETS>>
    /\ issued' = Append(issued, <<ESC, GET_OFFSETS>>)
    /\ busy' = TRUE /\ want' = OFFSETS_LEN
    /\ cached' = TRUE
    /\ UNCHANGED <<more, rest, hung, board, deaf, toClient, torn, chatty>>

\* start_task and stop_task write their header and only then look at the
\* offsets: GET_OFFSETS goes out inside the message.  (A slip would be to let
\* any id through.)
NestedUnchecked(c) ==
    /\ MayCall /\ ~cached /\ c.type \in {START_TASK, STOP_TASK}
    /\ toBoard' = toBoard \o <<ESC, c.type, ESC, GET_OFFSETS>>
    /\ issued' = Append(issued, Message(c))
    /\ busy' = TRUE /\ want' = OFFSETS_LEN
    /\ rest' = <<c.id>>
    /\ cached' = TRUE
    /\ torn' = TRUE
    /\ UNCHANGED <<more, hung, board, deaf, toClient, chatty>>
Nested(c) ==
    /\ MayCall /\ ~cached /\ c.type \in {START_TASK, STOP_TASK}
    /\ toBoard' = toBoard \o <<ESC, c.type, ESC, GET_OFFSETS>>
    /\ issued' = Append(issued, Message(c))
    /\ busy' = TRUE /\ want' = OFFSETS_LEN
    /\ rest' = IF c.id <= 255 THEN <<c.id>> ELSE <<>>
    /\ cached' = TRUE
    /\ torn' = TRUE
    /\ UNCHANGED <<more, hung, board, deaf, toClient, chatty>>

\* send_task_id raises, after the header went out.
Raise(c) ==
    /\ MayCall /\ cached /\ c.type \in IdTypes /\ c.id > 255
    /\ toBoard' = toBoard \o <<ESC, c.type>>
    /\ issued' = Append(issued, <<ESC, c.type>>)
    /\ torn' = TRUE
    /\ UNCHANGED <<client, board, deaf, toClient, chatty>>

\* The answer is complete: the call takes its bytes and returns.  (A slip would
\* be a read that times out.)
ReturnAnyway ==
    /\ busy /\ more = 0
    /\ toClient' = SubSeq(toClient, want + 1, Len(toClient))
    /\ toBoard' = toBoard \o rest
    /\ busy' = FALSE /\ want' = 0 /\ rest' = <<>>
    /\ UNCHANGED <<cached, more, hung, board, deaf, issued, torn, chatty>>
Return ==
    /\ busy /\ more = 0 /\ want <= Len(toClient)
    /\ toClient' = SubSeq(toClient, want + 1, Len(toClient))
    /\ toBoard' = toBoard \o rest
    /\ busy' = FALSE /\ want' = 0 /\ rest' = <<>>
    /\ UNCHANGED <<cached, more, hung, board, deaf, issued, torn, chatty>>

\* The first part is there, and what it says is what the client knows: a full
\* list of builtins, a slot's worth of memory.
ReadOn ==
    /\ busy /\ more > 0 /\ want <= Len(toClient)
    /\ toClient' = SubSeq(toClient, want + 1, Len(toClient))
    /\ want' = more /\ more' = 0
    /\ UNCHANGED <<cached, busy, rest, hung, board, toBoard, deaf, issued,
                   torn, chatty>>

\* It says something else: another number of builtins, and the call raises with
\* the list unread; or, in a slot whose fields were overwritten, more code and
\* heap than a slot holds, and the call reads on beyond the answer.
Misread ==
    /\ busy /\ more > 0 /\ want <= Len(toClient)
    /\ toClient' = SubSeq(toClient, want + 1, Len(toClient))
    /\ busy' = (Last(issued) # <<ESC, GET_BUILTIN_LOCATIONS>>)
    /\ want' = (IF busy' THEN more + 1 ELSE 0) /\ more' = 0
    /\ torn' = TRUE
    /\ UNCHANGED <<cached, rest, hung, board, toBoard, deaf, issued, chatty>>

\* The adapter is unplugged: what its driver held is gone in both directions.
HangUp ==
    /\ ~hung
    /\ hung' = TRUE /\ torn' = TRUE
    /\ toBoard' = <<>> /\ toClient' = <<>>
    /\ UNCHANGED <<cached, busy, want, more, rest, board, deaf, issued, chatty>>

\* From then on a read returns at once with what it has, and the call with it.
ShortRead ==
    /\ busy /\ hung /\ want > Len(toClient)
    /\ busy' = FALSE /\ want' = 0 /\ more' = 0 /\ rest' = <<>>
    /\ UNCHANGED <<cached, hung, board, toBoard, deaf, toClient, issued, torn,
                   chatty>>

Refresh ==
    /\ MayCall /\ cached
    /\ cached' = FALSE
    /\ UNCHANGED <<busy, want, more, rest, hung, board, toBoard, deaf, toClient,
                   issued, torn, chatty>>

\* main's loop prints whatever came when no call is running.
Show ==
    /\ ~busy /\ toClient # <<>>
    /\ toClient' = <<>>
    /\ UNCHANGED <<client, board, toBoard, deaf, issued, torn, chatty>>

-----------------------------------------------------------------------------
(* The board                                                               *)

\* The sizes of LOAD_TASK and SET_MEMORY are 16 bits wide; SET_MEMORY and
\* GET_MEMORY touch nothing when the range wraps around the address space.
LoadLen(m) == (U16At(m, 4) + U16At(m, 6)) % WORD
\* Slips would be one byte too many and one too few.
Range16Closed(m) ==
    IF U16At(m, 3) + U16At(m, 5) < WORD THEN U16At(m, 5) + 1 ELSE 0
Range16Open(m) ==
    IF U16At(m, 3) + U16At(m, 5) < WORD THEN U16At(m, 5) - 1 ELSE 0
Range16(m) == IF U16At(m, 3) + U16At(m, 5) < WORD THEN U16At(m, 5) ELSE 0

\* Has the handler read the last byte of m?  (A slip would be to forget that
\* LOAD_TASK carries a heap.)
CompleteNoHeap(m) ==
    \/ m[1] # ESC
    \/ Len(m) = 2 /\ m[2] \in {ESC, GET_OFFSETS, GET_BUILTIN_LOCATIONS}
    \/ Len(m) = 3 /\ m[2] \in {PING, START_TASK, STOP_TASK, INSPECT_TASK}
    \/ Len(m) >= 7 /\ m[2] = LOAD_TASK /\ Len(m) = 7 + U16At(m, 4)
    \/ Len(m) = 6 /\ m[2] = GET_MEMORY
    \/ Len(m) >= 6 /\ m[2] = SET_MEMORY /\ Len(m) = 6 + Range16(m)
Complete(m) ==
    \/ m[1] # ESC
    \/ Len(m) = 2 /\ m[2] \in {ESC, GET_OFFSETS, GET_BUILTIN_LOCATIONS}
    \/ Len(m) = 3 /\ m[2] \in {PING, START_TASK, STOP_TASK, INSPECT_TASK}
    \/ Len(m) >= 7 /\ m[2] = LOAD_TASK /\ Len(m) = 7 + LoadLen(m)
    \/ Len(m) = 6 /\ m[2] = GET_MEMORY
    \/ Len(m) >= 6 /\ m[2] = SET_MEMORY /\ Len(m) = 6 + Range16(m)

\* handle_message's default case, and get_task_id.
Dies(m) ==
    \/ Len(m) = 2 /\ m[1] = ESC /\ m[2] \notin MessageTypes \cup {ESC}
    \/ Len(m) = 3 /\ m[1] = ESC /\ m[2] \in IdTypes /\ m[3] >= MAX_TASKS

ReplyLen(m) ==
    IF m[1] # ESC \/ m[2] = ESC THEN GOT_LEN
    ELSE CASE m[2] = PING -> 1
           [] m[2] = GET_OFFSETS -> OFFSETS_LEN
           [] m[2] = GET_BUILTIN_LOCATIONS -> BUILTINS_LEN
           [] m[2] = INSPECT_TASK -> INSPECT_LEN
           [] m[2] = GET_MEMORY -> Range16(m)
           [] OTHER -> 0

\* The handler waits for the transmitter before it reads on, and starts only
\* when interrupts are on.
CanRead == fifo # <<>> /\ out = <<>> /\ ~dead /\ (msg = <<>> => ~deaf)

\* A byte reaches the USART.  The processor is much faster than the line, so
\* this happens only when the handler has nothing it could read.
Arrive ==
    /\ toBoard # <<>> /\ ~CanRead
    /\ toBoard' = Tail(toBoard)
    /\ IF Len(fifo) < RX_CAPACITY
       THEN fifo' = Append(fifo, Head(toBoard)) /\ UNCHANGED lost
       ELSE lost' = TRUE /\ UNCHANGED fifo
    /\ UNCHANGED <<client, msg, out, dead, handled, deaf, toClient, issued,
                   torn, chatty>>

\* uart_get, and what the handler does with the byte.
Read ==
    /\ CanRead
    /\ fifo' = Tail(fifo)
    /\ LET m == Append(msg, Head(fifo)) IN
       \/ /\ Dies(m)
          /\ dead' = TRUE
          /\ UNCHANGED <<msg, out, handled>>
       \/ /\ ~Dies(m) /\ Complete(m)
          /\ msg' = <<>>
          /\ handled' = Append(handled, m)
          /\ out' = [i \in 1 .. ReplyLen(m) |-> Len(handled')]
          /\ UNCHANGED dead
       \/ /\ ~Dies(m) /\ ~Complete(m)
          /\ msg' = m
          /\ UNCHANGED <<out, dead, handled>>
    /\ UNCHANGED <<client, lost, toBoard, deaf, toClient, issued, torn, chatty>>

\* uart_put, which does not know whether anyone reads.
Put ==
    /\ out # <<>>
    /\ toClient' = IF hung THEN toClient ELSE Append(toClient, Head(out))
    /\ out' = Tail(out)
    /\ UNCHANGED <<client, fifo, msg, dead, handled, lost, toBoard, deaf,
                   issued, torn, chatty>>

\* The main thread enters and leaves an atomic block (or main's start).
Deafen ==
    /\ ~deaf /\ msg = <<>> /\ out = <<>> /\ ~dead
    /\ deaf' = TRUE
    /\ UNCHANGED <<client, board, toBoard, toClient, issued, torn, chatty>>

Hear ==
    /\ deaf
    /\ deaf' = FALSE
    /\ UNCHANGED <<client, board, toBoard, toClient, issued, torn, chatty>>

Next ==
    \/ \E c \in Calls : Type(c) \/ Whole(c) \/ Unfit(c) \/ Nested(c) \/ Raise(c)
    \/ FetchOffsets \/ Return \/ ReadOn \/ Misread \/ HangUp \/ ShortRead
    \/ Refresh \/ Show
    \/ Arrive \/ Read \/ Put \/ Deafen \/ Hear

Spec == Init /\ [][Next]_vars

\* The line delivers, the transmitter sends, reads return.  A waiting byte
\* raises the interrupt as soon as interrupts come on: there are instructions
\* between the SEI that ends one atomic block and the CLI of the next, so a task
\* that keeps entering them does not put the handler off for ever.  That they
\* come on again is not assumed: a task may halt in an atomic block.
FairSpec ==
    Spec /\ WF_vars(Arrive) /\ SF_vars(Read) /\ WF_vars(Put)
         /\ WF_vars(Return) /\ WF_vars(ReadOn)

-----------------------------------------------------------------------------
(* What the line keeps                                                     *)

InOneStream == ~lost /\ ~torn

\* The handler finds the end of a message by its type and sizes alone.  As long
\* as no byte was dropped and every call kept to one message, it finds the ends
\* the client meant: the board handles the messages of the calls, in order, each
\* once.
InOrder == InOneStream => IsPrefix(handled, issued)

\* And it dies of nothing but an id: of the message whose turn it is, all those
\* before it handled, when that names a slot the table has not (the client's
\* check lets it out: it compares with the size of a slot).  No byte of a
\* payload, whatever its value, is taken for a message type.
DeathHasCause ==
    InOneStream /\ dead =>
        /\ Len(handled) < Len(issued)
        /\ issued[Len(handled) + 1][2] \in IdTypes
        /\ issued[Len(handled) + 1][3] >= MAX_TASKS

\* A call that takes bytes, the first part of an answer or the last, takes the
\* answer to its own message, unless plain data made the board talk of itself.
OwnAnswer ==
    [][ (Return \/ ReadOn) /\ InOneStream /\ ~chatty
        => \A i \in 1 .. want : toClient[i] = Len(issued) ]_vars

\* The USART drops a byte only while interrupts are off for longer than it can
\* hold, or while the handler answers plain data, a broken message or nobody.
OverrunHasCause ==
    [][ lost' /\ ~lost => deaf \/ chatty \/ torn \/ dead ]_vars

Talk == INSTANCE Conversation
        WITH asked <- issued, waiting <- busy, broken <- ~InOneStream \/ chatty

\* Until one of these causes, client and board do what a user sees them do: a
\* message is handled once, after those before it and before the call that waits
\* for its answer returns, however the bytes of both sides interleave.
ConversationSpec == Talk!Spec

\* A GET_MEMORY whose range wraps around the address space: the board sends
\* nothing, the client reads its size.
Wraps(m) == m[2] = GET_MEMORY /\ U16At(m, 3) + U16At(m, 5) >= WORD

\* Every other call returns if interrupts come on again and again, unless one
\* of the above happened or the board died.  (Kernel: HearsAgain says when they
\* do.  After a halt, a failed assertion or a jump out of an atomic block they
\* stay off and the call waits for ever.)
CallsReturn ==
    ([]<> ~deaf) =>
        ((busy /\ ~Wraps(issued[Len(issued)]))
            ~> (~busy \/ lost \/ torn \/ chatty \/ dead))

-----------------------------------------------------------------------------
(* What the documentation and the client's own checks say                  *)

\* send_task_id raises "Invalid task ID" for an id that is no slot's, so no
\* call kills the board (minitasks.py:174-177).
BoardSurvives == ~dead

=============================================================================
