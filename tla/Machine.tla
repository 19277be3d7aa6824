------------------------------- MODULE Machine -------------------------------
(***************************************************************************)
(* What the instructions of tasklang promise to a program: a stack of      *)
(* unsigned words, memory the words can point to, and a heap that grows.   *)
(* Nothing is said of bytes on the stack, of carries or of their order.    *)
(*                                                                         *)
(* A word is two bytes, of which the memory holds the lower one first.     *)
(***************************************************************************)
EXTENDS Integers, Sequences

CONSTANTS
    BYTE,   \* number of values of a byte: 256 on the chip
    FIRST,  \* the memory of the task that pointers refer to: first address
    LAST,   \* and last one
    BitOps  \* the bitwise operators on two bytes

W     == BYTE * BYTE
Byte  == 0 .. BYTE - 1
Word  == 0 .. W - 1
Cells == FIRST .. LAST

VARIABLES
    words,      \* the stack, its top last
    mem,        \* the bytes of memory
    free,       \* where the heap ends
    test,       \* outcome of the last test: a jump that was taken, the LED on
    stopped     \* the program has ended

vars == <<words, mem, free, test, stopped>>

Init ==
    /\ words = <<>>
    /\ mem \in [Cells -> Byte]
    /\ free = FIRST
    /\ test = FALSE /\ stopped = FALSE

-----------------------------------------------------------------------------

Nth(n) == words[Len(words) - n + 1]
Top    == Nth(1)

\* The n words on top give way to those of ws.
Replace(n, ws) ==
    /\ ~stopped /\ Len(words) >= n
    /\ words' = SubSeq(words, 1, Len(words) - n) \o ws

WordAt(a) == mem[a] + BYTE * mem[a + 1]
SetWord(a, w) ==
    mem' = [mem EXCEPT ![a] = w % BYTE, ![a + 1] = w \div BYTE]
Within(a, size) == a \in Cells /\ a + size - 1 \in Cells
PointsTo(size) == Len(words) >= 1 /\ Within(Top, size)

Truth(b) == IF b THEN 1 ELSE 0

\* x y op
Result(op, x, y) ==
    CASE op = "add" -> IF x + y < W THEN x + y ELSE x + y - W
      [] op = "sub" -> IF x >= y THEN x - y ELSE x - y + W
      [] op = "eq"  -> Truth(x = y)
      [] op = "ne"  -> Truth(x # y)
      [] op = "lt"  -> Truth(x < y)
      [] op = "gt"  -> Truth(x > y)
      [] op = "le"  -> Truth(x <= y)
      [] op = "ge"  -> Truth(x >= y)

Ops == {"add", "sub", "eq", "ne", "lt", "gt", "le", "ge"}

\* Bit by bit, so byte by byte.
BitNames == {"bitand", "bitor", "bitxor"}
BitResult(op, x, y) ==
    BitOps[op][x % BYTE][y % BYTE]
      + BYTE * BitOps[op][x \div BYTE][y \div BYTE]

\* Steps on the stack alone.
Stack ==
    /\ \/ \E w \in Word : Replace(0, <<w>>)
       \/ Replace(0, <<free>>)
       \/ \E a \in Cells : Within(a, 2) /\ Replace(0, <<WordAt(a)>>)
       \/ \E op \in Ops : Replace(2, <<Result(op, Nth(2), Top)>>)
       \/ \E op \in BitNames : Replace(2, <<BitResult(op, Nth(2), Top)>>)
       \/ Replace(1, <<W - 1 - Top>>)
       \/ Replace(1, <<Truth(Top = 0)>>)
       \/ Replace(1, <<>>)
       \/ Replace(1, <<Top, Top>>)
       \/ Replace(2, <<Top, Nth(2)>>)
       \/ PointsTo(2) /\ Replace(1, <<WordAt(Top)>>)
       \/ PointsTo(1) /\ Replace(1, <<mem[Top]>>)
    /\ UNCHANGED <<mem, free, test, stopped>>

\* Steps that write to memory: a variable, what a pointer refers to, the heap.
Memory ==
    /\ \/ \E a \in Cells :
             Within(a, 2) /\ Replace(1, <<>>) /\ SetWord(a, Top)
       \/ PointsTo(2) /\ Replace(2, <<>>) /\ SetWord(Top, Nth(2))
       \/ /\ PointsTo(1) /\ Replace(2, <<>>)
          /\ mem' = [mem EXCEPT ![Top] = Nth(2) % BYTE]
    /\ UNCHANGED <<free, test, stopped>>

Grow ==
    /\ Replace(1, <<>>)
    /\ \/ /\ Within(free, 2) /\ SetWord(free, Top)
          /\ free' = free + 2
       \/ /\ Within(free, 1)
          /\ mem' = [mem EXCEPT ![free] = Top % BYTE]
          /\ free' = free + 1
    /\ UNCHANGED <<test, stopped>>

Test ==
    /\ Replace(1, <<>>)
    /\ test' = (Top # 0) \/ test' = (Top = 0)
    /\ UNCHANGED <<mem, free, stopped>>

Assert ==
    /\ Replace(1, <<>>)
    /\ stopped' = (Top = 0)
    /\ UNCHANGED <<mem, free, test>>

Stop ==
    /\ ~stopped /\ stopped' = TRUE
    /\ UNCHANGED <<words, mem, free, test>>

Next == Stack \/ Memory \/ Grow \/ Test \/ Assert \/ Stop

Spec == Init /\ [][Next]_vars

=============================================================================
