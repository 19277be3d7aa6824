------------------------------- MODULE Runtime -------------------------------
(***************************************************************************)
(* The instructions of src/tasklang.S with their values: what each routine *)
(* pops and pushes, byte by byte, what it does with the carry between two  *)
(* bytes, and what it reads and writes through X and Z.                    *)
(*                                                                         *)
(* A task may execute any instruction next, one at a time: an interrupt in *)
(* the middle saves the registers.  Where its stack lies, the instruction  *)
(* pointer and the I flag are Kernel's and TaskCode's.                     *)
(***************************************************************************)
EXTENDS Integers, Sequences

CONSTANTS
    BYTE,       \* number of values of a byte
    FIRST,      \* addresses of the task's memory that pointers refer to
    LAST,
    BitOps,     \* what and, or, eor make of two bytes
    MaxDepth    \* bound on the words on the stack

W     == BYTE * BYTE
Byte  == 0 .. BYTE - 1
Word  == 0 .. W - 1
Cells == FIRST .. LAST

BitNames == {"bitand", "bitor", "bitxor"}

ASSUME RuntimeAssumption ==
    /\ BYTE \in Nat /\ BYTE >= 2
    /\ FIRST \in Nat /\ LAST \in Nat
    /\ FIRST <= LAST + 1 /\ LAST + 1 < W
    /\ BitOps \in [BitNames -> [Byte -> [Byte -> Byte]]]
    /\ MaxDepth \in Nat

VARIABLES
    stack,      \* the bytes the task has pushed, in that order
    mem,        \* the bytes of its memory
    x,          \* register X: where the heap ends
    test,       \* the last test branched where it branches for "true"
    stopped     \* the task is in loop_forever

vars == <<stack, mem, x, test, stopped>>

\* A register pair.  The program is loaded with any heap.
Pair == [l : Byte, h : Byte]
Value(p) == p.l + BYTE * p.h
PairOf(w) == [l |-> w % BYTE, h |-> w \div BYTE]

Init ==
    /\ stack = <<>>
    /\ mem \in [Cells -> Byte]
    /\ x = FIRST
    /\ test = FALSE /\ stopped = FALSE

-----------------------------------------------------------------------------
(* push and pop                                                            *)

\* The n-th pair from the top: the higher byte was pushed last.
Popped(n) == [l |-> stack[Len(stack) - 2 * n + 1],
              h |-> stack[Len(stack) - 2 * n + 2]]

\* The bytes of the pairs ps, pushed one after the other.
Bytes(ps) ==
    [i \in 1 .. 2 * Len(ps) |->
        IF i % 2 = 1 THEN ps[(i + 1) \div 2].l ELSE ps[i \div 2].h]

\* An instruction that pops n pairs and pushes those of ps.
Instruction(n, ps) ==
    /\ ~stopped
    /\ Len(stack) >= 2 * n
    /\ Len(stack) - 2 * n + 2 * Len(ps) <= 2 * MaxDepth
    /\ stack' = SubSeq(stack, 1, Len(stack) - 2 * n) \o Bytes(ps)

Computes == UNCHANGED <<mem, x, test, stopped>>

-----------------------------------------------------------------------------
(* The arithmetic unit                                                     *)

\* A register holds n modulo BYTE, where n is off by one carry at most.
Wrap(n) == IF n >= BYTE THEN n - BYTE ELSE IF n < 0 THEN n + BYTE ELSE n
Carry(n) == IF n >= BYTE \/ n < 0 THEN 1 ELSE 0

\* add, adc.  (A slip would be a second add.)
AddAdd(p, q) == [l |-> Wrap(p.l + q.l), h |-> Wrap(p.h + q.h)]
Add(p, q) ==
    [l |-> Wrap(p.l + q.l), h |-> Wrap(p.h + q.h + Carry(p.l + q.l))]

\* sub, sbc
Sub(p, q) ==
    [l |-> Wrap(p.l - q.l), h |-> Wrap(p.h - q.h - Carry(p.l - q.l))]

\* cp, cpc: the flags of the subtraction.
CarrySet(p, q) == Carry(p.h - q.h - Carry(p.l - q.l)) = 1
ZeroSet(p, q)  == Sub(p, q) = [l |-> 0, h |-> 0]

\* or: are all the bits 0?
IsZero(p) == p.l = 0 /\ p.h = 0

True  == [l |-> 1, h |-> 0]
False == [l |-> 0, h |-> 0]
Return(b) == IF b THEN True ELSE False

-----------------------------------------------------------------------------
(* Operators                                                               *)

\* _BINARYPOP, and one word pushed.
Binary(result) == Instruction(2, <<result>>) /\ Computes

Eq(p, q) == Return(ZeroSet(p, q))
Ne(p, q) == Return(~ZeroSet(p, q))
Lt(p, q) == Return(CarrySet(p, q))
Gt(p, q) == Return(CarrySet(q, p))
Le(p, q) == Return(~CarrySet(q, p))
Ge(p, q) == Return(~CarrySet(p, q))

\* One instruction for the lower bytes, one for the higher ones.
Bits(op, p, q) == [l |-> BitOps[op][p.l][q.l], h |-> BitOps[op][p.h][q.h]]

\* p is the one below, q the one on top.
Operator ==
    LET p == Popped(2)
        q == Popped(1)
    IN  \/ Binary(Add(p, q)) \/ Binary(Sub(p, q))
        \/ Binary(Eq(p, q)) \/ Binary(Ne(p, q)) \/ Binary(Lt(p, q))
        \/ Binary(Gt(p, q)) \/ Binary(Le(p, q)) \/ Binary(Ge(p, q))
        \/ \E op \in BitNames : Binary(Bits(op, p, q))

Not ==
    /\ Instruction(1, <<Return(IsZero(Popped(1)))>>)
    /\ Computes

Bitnot ==
    /\ Instruction(1, <<[l |-> BYTE - 1 - Popped(1).l,
                         h |-> BYTE - 1 - Popped(1).h]>>)
    /\ Computes

\* The result is computed, and not pushed.
Neg == Instruction(1, <<>>) /\ Computes

Dup  == Instruction(1, <<Popped(1), Popped(1)>>) /\ Computes
Swap == Instruction(2, <<Popped(1), Popped(2)>>) /\ Computes
Drop == Instruction(1, <<>>) /\ Computes

-----------------------------------------------------------------------------
(* Memory                                                                  *)

\* Pointers outside the task's memory are not considered.
Within(a, size) == a \in Cells /\ a + size - 1 \in Cells

PairAt(a) == [l |-> mem[a], h |-> mem[a + 1]]
StorePair(a, p) == mem' = [mem EXCEPT ![a] = p.l, ![a + 1] = p.h]

Literal(w) == Instruction(0, <<PairOf(w)>>) /\ Computes

Load(a) == Within(a, 2) /\ Instruction(0, <<PairAt(a)>>) /\ Computes

Store(a) ==
    /\ Within(a, 2) /\ Instruction(1, <<>>)
    /\ StorePair(a, Popped(1))
    /\ UNCHANGED <<x, test, stopped>>

\* The pointer is on top of the stack, and goes to Z.
Z == Value(Popped(1))
PointsTo(size) == Len(stack) >= 2 /\ Within(Z, size)

Getptr ==
    /\ PointsTo(2)
    /\ Instruction(1, <<PairAt(Z)>>) /\ Computes

Getptrc ==
    /\ PointsTo(1)
    /\ Instruction(1, <<[l |-> mem[Z], h |-> 0]>>) /\ Computes

Setptr ==
    /\ PointsTo(2)
    /\ Instruction(2, <<>>)
    /\ StorePair(Z, Popped(2))
    /\ UNCHANGED <<x, test, stopped>>

Setptrc ==
    /\ PointsTo(1)
    /\ Instruction(2, <<>>)
    /\ mem' = [mem EXCEPT ![Z] = Popped(2).l]
    /\ UNCHANGED <<x, test, stopped>>

Heap == Instruction(0, <<PairOf(x)>>) /\ Computes

Hpush ==
    /\ Within(x, 2) /\ Instruction(1, <<>>)
    /\ StorePair(x, Popped(1)) /\ x' = x + 2
    /\ UNCHANGED <<test, stopped>>

Hpushc ==
    /\ Within(x, 1) /\ Instruction(1, <<>>)
    /\ mem' = [mem EXCEPT ![x] = Popped(1).l] /\ x' = x + 1
    /\ UNCHANGED <<test, stopped>>

-----------------------------------------------------------------------------
(* Tests, and the end                                                      *)

\* jumpif and set_led: on if any bit is 1.
JumpIf ==
    /\ Instruction(1, <<>>)
    /\ test' = ~IsZero(Popped(1))
    /\ UNCHANGED <<mem, x, stopped>>

JumpIfNot ==
    /\ Instruction(1, <<>>)
    /\ test' = IsZero(Popped(1))
    /\ UNCHANGED <<mem, x, stopped>>

Assert ==
    /\ Instruction(1, <<>>)
    /\ stopped' = IsZero(Popped(1))
    /\ UNCHANGED <<mem, x, test>>

\* halt, pause, error, and every builtin that is not written yet (mul, div,
\* mod, the shifts, sleep, the streams and the logs).
Halt ==
    /\ ~stopped /\ stopped' = TRUE
    /\ UNCHANGED <<stack, mem, x, test>>

-----------------------------------------------------------------------------

Next ==
    \/ Operator \/ Not \/ Bitnot \/ Neg \/ Dup \/ Swap \/ Drop
    \/ \E w \in Word : Literal(w)
    \/ \E a \in Cells : Load(a) \/ Store(a)
    \/ Getptr \/ Getptrc \/ Setptr \/ Setptrc
    \/ Heap \/ Hpush \/ Hpushc
    \/ JumpIf \/ JumpIfNot \/ Assert \/ Halt

Spec == Init /\ [][Next]_vars

-----------------------------------------------------------------------------
(* What the instructions promise                                           *)

\* The words on the stack.
Words ==
    [i \in 1 .. Len(stack) \div 2 |-> stack[2 * i - 1] + BYTE * stack[2 * i]]

M == INSTANCE Machine WITH words <- Words, free <- x

\* A program sees a stack of unsigned words with arithmetic modulo 65536, and
\* memory with the lower byte first: no carry gets lost between two bytes, no
\* comparison goes by one byte only, and what is pushed is popped the same way
\* round, also by a routine that shares no code with the one that pushed it.
MachineSpec == M!Spec

-----------------------------------------------------------------------------
(* What the comments say                                                   *)

\* neg is the "two's compliment" (tasklang.S:341): it takes the place of its
\* operand on the stack.
NegNegates ==
    [][ Neg => Words' = [Words EXCEPT ![Len(Words)] = (W - @) % W] ]_vars

=============================================================================
