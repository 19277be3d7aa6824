---------------------------- MODULE RuntimeProofs ----------------------------
(***************************************************************************)
(* Proofs about the instructions of tasklang: for every number of values a *)
(* byte can have and every memory, the routines that work byte by byte     *)
(* implement the machine of words.                                         *)
(***************************************************************************)
EXTENDS Runtime, SequenceTheorems, TLAPS

-----------------------------------------------------------------------------
(* Two bytes and their word                                                *)

\* The machine's assumption on the constants is the runtime's.
LEMMA Assumptions == BYTE \in Nat /\ BYTE >= 2 /\ W \in Nat /\ W = BYTE * BYTE
  BY RuntimeAssumption DEF W

\* A step in the higher byte outweighs the lower one.
LEMMA Times ==
    ASSUME NEW a \in Nat, NEW b \in Nat, a < b
    PROVE  BYTE * a + BYTE <= BYTE * b
<1>1. PICK d \in Nat : b = a + 1 + d
  <2>1. b - a - 1 \in Nat /\ b = a + 1 + (b - a - 1)
    OBVIOUS
  <2> QED
    BY <2>1
<1>2. BYTE * b = BYTE * a + BYTE + BYTE * d
  BY <1>1, Assumptions
<1>3. BYTE * d >= 0
  BY Assumptions
<1> QED
  BY <1>2, <1>3, Assumptions

\* The value of a pair is a word.
LEMMA ValueIsWord ==
    ASSUME NEW p \in Pair
    PROVE  Value(p) \in Word /\ p.l \in Byte /\ p.h \in Byte
<1>1. p.l \in 0 .. BYTE - 1 /\ p.h \in Nat /\ p.h < BYTE
  BY Assumptions DEF Pair, Byte
<1>2. BYTE * p.h + BYTE <= BYTE * BYTE
  BY <1>1, Assumptions, Times
<1>3. BYTE * p.h \in Nat
  BY <1>1, Assumptions
<1> QED
  BY <1>1, <1>2, <1>3, Assumptions DEF Value, Word, Byte, Pair

\* Two pairs with one value are one pair.
LEMMA ValueOnce ==
    ASSUME NEW p \in Pair, NEW q \in Pair, Value(p) = Value(q)
    PROVE  p = q
<1>1. /\ p.l \in 0 .. BYTE - 1 /\ p.h \in Nat
      /\ q.l \in 0 .. BYTE - 1 /\ q.h \in Nat
  BY Assumptions DEF Pair, Byte
<1>2. /\ BYTE * p.h \in Nat /\ BYTE * q.h \in Nat
      /\ p.l + BYTE * p.h = q.l + BYTE * q.h
  BY <1>1, Assumptions DEF Value
<1>3. ~(p.h < q.h)
  <2>1. SUFFICES ASSUME p.h < q.h PROVE FALSE
    OBVIOUS
  <2>2. BYTE * p.h + BYTE <= BYTE * q.h
    BY <1>1, <2>1, Times
  <2> QED
    BY <1>1, <1>2, <2>2, Assumptions
<1>4. ~(q.h < p.h)
  <2>1. SUFFICES ASSUME q.h < p.h PROVE FALSE
    OBVIOUS
  <2>2. BYTE * q.h + BYTE <= BYTE * p.h
    BY <1>1, <2>1, Times
  <2> QED
    BY <1>1, <1>2, <2>2, Assumptions
<1>5. p.h = q.h
  BY <1>1, <1>3, <1>4
<1>6. p.l = q.l
  BY <1>1, <1>2, <1>5
<1> QED
  BY <1>5, <1>6 DEF Pair

\* A word is taken apart into its pair.
LEMMA PairOfWord ==
    ASSUME NEW w \in Word
    PROVE  PairOf(w) \in Pair /\ Value(PairOf(w)) = w
<1>1. w \in Nat /\ w < BYTE * BYTE
  BY Assumptions DEF Word, W
<1> DEFINE q == w \div BYTE
           r == w % BYTE
<1>2. q \in Int /\ r \in 0 .. BYTE - 1 /\ w = BYTE * q + r
  BY <1>1, Assumptions
<1> HIDE DEF q, r
<1>3. q >= 0
  <2>1. SUFFICES ASSUME q <= -1 PROVE FALSE
    BY <1>2
  <2>2. BYTE * q <= -BYTE
    BY <1>2, <2>1, Assumptions
  <2> QED
    BY <1>1, <1>2, <2>2, Assumptions
<1>4. q < BYTE
  <2>1. SUFFICES ASSUME BYTE <= q PROVE FALSE
    BY <1>2, Assumptions
  <2>2. BYTE * BYTE <= BYTE * q
    BY <1>2, <2>1, Assumptions
  <2> QED
    BY <1>1, <1>2, <2>2, Assumptions
<1>5. [l |-> r, h |-> q] \in Pair
  BY <1>2, <1>3, <1>4, Assumptions DEF Pair, Byte
<1>6. Value([l |-> r, h |-> q]) = w
  BY <1>2, Assumptions DEF Value
<1> QED
  BY <1>5, <1>6 DEF PairOf, q, r

\* ...and the pair of a pair's value is the pair.
LEMMA ValueApart ==
    ASSUME NEW p \in Pair
    PROVE  Value(p) % BYTE = p.l /\ Value(p) \div BYTE = p.h
<1>1. PairOf(Value(p)) \in Pair /\ Value(PairOf(Value(p))) = Value(p)
  BY ValueIsWord, PairOfWord
<1>2. PairOf(Value(p)) = p
  BY <1>1, ValueOnce
<1> QED
  BY <1>2 DEF PairOf

-----------------------------------------------------------------------------
(* The arithmetic unit                                                     *)

\* One register and one carry.
LEMMA Register ==
    ASSUME NEW n \in Int, -BYTE <= n, n <= 2 * BYTE - 1
    PROVE  /\ Wrap(n) \in Byte
           /\ n >= BYTE => n = Wrap(n) + BYTE /\ Carry(n) = 1
           /\ n < 0 => n = Wrap(n) - BYTE /\ Carry(n) = 1
           /\ n \in Byte => n = Wrap(n) /\ Carry(n) = 0
           /\ Carry(n) \in {0, 1}
  BY Assumptions DEF Wrap, Carry, Byte

LEMMA AddWords ==
    ASSUME NEW p \in Pair, NEW q \in Pair
    PROVE  /\ Add(p, q) \in Pair
           /\ Value(Add(p, q)) = M!Result("add", Value(p), Value(q))
<1> DEFINE low  == p.l + q.l
           c    == Carry(low)
           high == p.h + q.h + c
           r    == [l |-> Wrap(low), h |-> Wrap(high)]
<1>1. p.l \in Byte /\ p.h \in Byte /\ q.l \in Byte /\ q.h \in Byte
  BY DEF Pair
<1>2. low \in Nat /\ low <= 2 * BYTE - 2
  BY <1>1, Assumptions DEF Byte
<1>3. /\ Wrap(low) \in Byte /\ c \in {0, 1} /\ low = Wrap(low) + BYTE * c
  <2>1. Wrap(low) \in Byte /\ c \in {0, 1}
    BY <1>2, Register, Assumptions
  <2>2. CASE low >= BYTE
    BY <1>2, <2>1, <2>2, Register, Assumptions DEF Byte
  <2>3. CASE low < BYTE
    <3>1. low \in Byte
      BY <1>2, <2>3, Assumptions DEF Byte
    <3> QED
      BY <1>2, <2>1, <3>1, Register, Assumptions DEF Byte
  <2> QED
    BY <1>2, <2>2, <2>3, Assumptions
<1> HIDE DEF c
<1>4. high \in Nat /\ high <= 2 * BYTE - 1
  BY <1>1, <1>3, Assumptions DEF Byte
<1>5. Wrap(high) \in Byte
  BY <1>4, Register, Assumptions
<1>6. r \in Pair
  BY <1>3, <1>5 DEF Pair
<1>7. Add(p, q) = r
  BY DEF Add, c
<1>8. Value(p) + Value(q) = Wrap(low) + BYTE * high
  <2>1. Value(p) + Value(q) = low + BYTE * (p.h + q.h)
    BY <1>1, Assumptions DEF Value, Byte
  <2>2. BYTE * high = BYTE * (p.h + q.h) + BYTE * c
    BY <1>1, <1>3, Assumptions DEF Byte
  <2> HIDE DEF low, high
  <2>3. BYTE * (p.h + q.h) \in Nat /\ BYTE * c \in Nat
    BY <1>1, <1>3, Assumptions DEF Byte
  <2> QED
    BY <1>2, <1>3, <2>1, <2>2, <2>3, Assumptions DEF Byte
<1>9. Value(r) = Wrap(low) + BYTE * Wrap(high)
  BY DEF Value
<1>10. Value(r) \in Word /\ Value(p) \in Word /\ Value(q) \in Word
  BY <1>6, ValueIsWord
<1> HIDE DEF low, r
<1>11. CASE high >= BYTE
  <2>1. high = Wrap(high) + BYTE
    BY <1>4, <1>11, Register, Assumptions
  <2> HIDE DEF high
  <2>2. BYTE * high = BYTE * Wrap(high) + W
    BY <1>5, <2>1, Assumptions DEF Byte
  <2>3. Value(p) + Value(q) = Value(r) + W
    BY <1>3, <1>5, <1>8, <1>9, <2>2, Assumptions DEF Byte
  <2> QED
    BY <1>6, <1>7, <1>10, <2>3, Assumptions DEF M!Result, M!W, Word, W
<1>12. CASE high < BYTE
  <2>1. high \in Byte
    BY <1>4, <1>12, Assumptions DEF Byte
  <2>2. high = Wrap(high)
    BY <1>4, <2>1, Register, Assumptions
  <2>3. Value(p) + Value(q) = Value(r)
    BY <1>8, <1>9, <2>2
  <2> QED
    BY <1>6, <1>7, <1>10, <2>3, Assumptions DEF M!Result, M!W, Word, W
<1> QED
  BY <1>4, <1>11, <1>12, Assumptions

\* What sub leaves, and what cp and cpc say of it.
LEMMA SubWords ==
    ASSUME NEW p \in Pair, NEW q \in Pair
    PROVE  /\ Sub(p, q) \in Pair
           /\ Value(Sub(p, q)) = M!Result("sub", Value(p), Value(q))
           /\ CarrySet(p, q) <=> Value(p) < Value(q)
           /\ ZeroSet(p, q) <=> Value(p) = Value(q)
<1> DEFINE low  == p.l - q.l
           c    == Carry(low)
           high == p.h - q.h - c
           r    == [l |-> Wrap(low), h |-> Wrap(high)]
<1>1. p.l \in Byte /\ p.h \in Byte /\ q.l \in Byte /\ q.h \in Byte
  BY DEF Pair
<1>2. low \in Int /\ -BYTE <= low /\ low < BYTE
  BY <1>1, Assumptions DEF Byte
<1>3. /\ Wrap(low) \in Byte /\ c \in {0, 1} /\ low = Wrap(low) - BYTE * c
  <2>1. Wrap(low) \in Byte /\ c \in {0, 1}
    BY <1>2, Register, Assumptions
  <2>2. CASE low < 0
    BY <1>2, <2>1, <2>2, Register, Assumptions DEF Byte
  <2>3. CASE low >= 0
    <3>1. low \in Byte
      BY <1>2, <2>3, Assumptions DEF Byte
    <3> QED
      BY <1>2, <2>1, <3>1, Register, Assumptions DEF Byte
  <2> QED
    BY <1>2, <2>2, <2>3, Assumptions
<1> HIDE DEF c
<1>4. high \in Int /\ -BYTE <= high /\ high < BYTE
  BY <1>1, <1>3, Assumptions DEF Byte
<1>5. Wrap(high) \in Byte
  BY <1>4, Register, Assumptions
<1>6. r \in Pair
  BY <1>3, <1>5 DEF Pair
<1>7. Sub(p, q) = r /\ (CarrySet(p, q) <=> Carry(high) = 1)
  BY DEF Sub, CarrySet, c
<1>8. Value(p) - Value(q) = Wrap(low) + BYTE * high
  <2>1. Value(p) - Value(q) = low + BYTE * (p.h - q.h)
    BY <1>1, Assumptions DEF Value, Byte
  <2>2. BYTE * high = BYTE * (p.h - q.h) - BYTE * c
    BY <1>1, <1>3, Assumptions DEF Byte
  <2> HIDE DEF low, high
  <2>3. BYTE * (p.h - q.h) \in Int /\ BYTE * c \in Int
    BY <1>1, <1>3, Assumptions DEF Byte
  <2> QED
    BY <1>2, <1>3, <2>1, <2>2, <2>3, Assumptions DEF Byte
<1>9. Value(r) = Wrap(low) + BYTE * Wrap(high)
  BY DEF Value
<1>10. /\ Value(r) \in Nat /\ Value(p) \in Nat /\ Value(q) \in Nat
       /\ Value(r) < W /\ Value(p) < W /\ Value(q) < W
  BY <1>6, ValueIsWord, Assumptions DEF Word
<1>11. Value(r) = 0 <=> r = [l |-> 0, h |-> 0]
  <2>1. [l |-> 0, h |-> 0] \in Pair /\ Value([l |-> 0, h |-> 0]) = 0
    BY Assumptions DEF Pair, Byte, Value
  <2> QED
    BY <1>6, <2>1, ValueOnce
<1>12. CASE high < 0
  <2>1. high = Wrap(high) - BYTE /\ Carry(high) = 1
    BY <1>4, <1>12, Register, Assumptions
  <2>2. BYTE * high = BYTE * Wrap(high) - W
    <3> HIDE DEF high
    <3> QED
      BY <1>5, <2>1, Assumptions DEF Byte
  <2> HIDE DEF low, high, r
  <2>3. Value(p) - Value(q) = Value(r) - W
    BY <1>3, <1>5, <1>8, <1>9, <2>2, Assumptions DEF Byte
  <2>4. Value(p) < Value(q) /\ Value(r) = Value(p) - Value(q) + W
    BY <1>10, <2>3, Assumptions
  <2>5. ~(Value(r) = 0)
    BY <1>10, <2>3, <2>4, Assumptions
  <2>6. M!Result("sub", Value(p), Value(q)) = Value(p) - Value(q) + W
    BY <1>10, <2>4 DEF M!Result, M!W, W
  <2> QED
    BY <1>6, <1>7, <1>10, <1>11, <2>1, <2>4, <2>5, <2>6 DEF ZeroSet
<1>13. CASE high >= 0
  <2>1. high \in Byte
    BY <1>4, <1>13, Assumptions DEF Byte
  <2>2. high = Wrap(high) /\ Carry(high) = 0
    BY <1>4, <2>1, Register, Assumptions
  <2>3. Value(p) - Value(q) = Value(r)
    BY <1>8, <1>9, <2>2
  <2> HIDE DEF low, high, r
  <2>4. Value(p) >= Value(q) /\ (Value(r) = 0 <=> Value(p) = Value(q))
    BY <1>10, <2>3
  <2>5. M!Result("sub", Value(p), Value(q)) = Value(p) - Value(q)
    BY <1>10, <2>4 DEF M!Result
  <2> QED
    BY <1>6, <1>7, <1>10, <1>11, <2>2, <2>3, <2>4, <2>5 DEF ZeroSet
<1> QED
  BY <1>4, <1>12, <1>13, Assumptions

\* 1 and 0, as a comparison returns them.
LEMMA Truths ==
    ASSUME NEW b \in BOOLEAN
    PROVE  Return(b) \in Pair /\ Value(Return(b)) = M!Truth(b)
<1>1. True \in Pair /\ Value(True) = 1
  BY Assumptions DEF True, Pair, Byte, Value
<1>2. False \in Pair /\ Value(False) = 0
  BY Assumptions DEF False, Pair, Byte, Value
<1> QED
  BY <1>1, <1>2 DEF Return, M!Truth

LEMMA Comparisons ==
    ASSUME NEW p \in Pair, NEW q \in Pair
    PROVE  /\ {Eq(p, q), Ne(p, q), Lt(p, q), Gt(p, q), Le(p, q), Ge(p, q)}
                \subseteq Pair
           /\ Value(Eq(p, q)) = M!Result("eq", Value(p), Value(q))
           /\ Value(Ne(p, q)) = M!Result("ne", Value(p), Value(q))
           /\ Value(Lt(p, q)) = M!Result("lt", Value(p), Value(q))
           /\ Value(Gt(p, q)) = M!Result("gt", Value(p), Value(q))
           /\ Value(Le(p, q)) = M!Result("le", Value(p), Value(q))
           /\ Value(Ge(p, q)) = M!Result("ge", Value(p), Value(q))
<1> DEFINE a == Value(p)
           b == Value(q)
<1>1. a \in Nat /\ b \in Nat
  BY ValueIsWord, Assumptions DEF Word
<1>2. /\ ZeroSet(p, q) <=> a = b
      /\ CarrySet(p, q) <=> a < b
      /\ CarrySet(q, p) <=> b < a
  BY SubWords
<1>3. /\ {ZeroSet(p, q), CarrySet(p, q), CarrySet(q, p)} \subseteq BOOLEAN
      /\ {a = b, a # b, a < b, a > b, a <= b, a >= b} \subseteq BOOLEAN
  BY DEF ZeroSet, CarrySet
<1> HIDE DEF a, b
<1>4. /\ ~CarrySet(q, p) <=> a <= b
      /\ ~CarrySet(p, q) <=> a >= b
      /\ CarrySet(q, p) <=> a > b
      /\ ~ZeroSet(p, q) <=> a # b
  BY <1>1, <1>2
<1>5. Eq(p, q) \in Pair /\ Value(Eq(p, q)) = M!Truth(a = b)
  BY <1>2, <1>3, Truths DEF Eq
<1>6. Ne(p, q) \in Pair /\ Value(Ne(p, q)) = M!Truth(a # b)
  BY <1>3, <1>4, Truths DEF Ne
<1>7. Lt(p, q) \in Pair /\ Value(Lt(p, q)) = M!Truth(a < b)
  BY <1>2, <1>3, Truths DEF Lt
<1>8. Gt(p, q) \in Pair /\ Value(Gt(p, q)) = M!Truth(a > b)
  BY <1>3, <1>4, Truths DEF Gt
<1>9. Le(p, q) \in Pair /\ Value(Le(p, q)) = M!Truth(a <= b)
  BY <1>3, <1>4, Truths DEF Le
<1>10. Ge(p, q) \in Pair /\ Value(Ge(p, q)) = M!Truth(a >= b)
  BY <1>3, <1>4, Truths DEF Ge
<1>11. /\ M!Result("eq", a, b) = M!Truth(a = b)
       /\ M!Result("ne", a, b) = M!Truth(a # b)
       /\ M!Result("lt", a, b) = M!Truth(a < b)
       /\ M!Result("gt", a, b) = M!Truth(a > b)
       /\ M!Result("le", a, b) = M!Truth(a <= b)
       /\ M!Result("ge", a, b) = M!Truth(a >= b)
  BY DEF M!Result
<1> QED
  BY <1>5, <1>6, <1>7, <1>8, <1>9, <1>10, <1>11 DEF a, b

\* No bit is 1.
LEMMA Zero ==
    ASSUME NEW p \in Pair
    PROVE  IsZero(p) <=> Value(p) = 0
<1>1. [l |-> 0, h |-> 0] \in Pair /\ Value([l |-> 0, h |-> 0]) = 0
  BY Assumptions DEF Pair, Byte, Value
<1>2. Value(p) = 0 <=> p = [l |-> 0, h |-> 0]
  BY <1>1, ValueOnce
<1> QED
  BY <1>2 DEF IsZero, Pair

LEMMA Complement ==
    ASSUME NEW p \in Pair
    PROVE  LET r == [l |-> BYTE - 1 - p.l, h |-> BYTE - 1 - p.h]
           IN  r \in Pair /\ Value(r) = W - 1 - Value(p)
<1> DEFINE r == [l |-> BYTE - 1 - p.l, h |-> BYTE - 1 - p.h]
<1>1. p.l \in Byte /\ p.h \in Byte
  BY DEF Pair
<1>2. r \in Pair
  BY <1>1, Assumptions DEF Pair, Byte
<1>3. BYTE * (BYTE - 1 - p.h) = W - BYTE - BYTE * p.h
  BY <1>1, Assumptions DEF Byte
<1>4. BYTE * p.h \in Nat
  BY <1>1, Assumptions DEF Byte
<1>5. Value(r) = W - 1 - Value(p)
  <2>1. Value(r) = (BYTE - 1 - p.l) + BYTE * (BYTE - 1 - p.h)
    BY DEF Value
  <2>2. Value(p) = p.l + BYTE * p.h
    BY DEF Value
  <2> DEFINE m == BYTE * p.h
  <2>3. p.l \in Int /\ m \in Int
    BY <1>1, <1>4, Assumptions DEF Byte
  <2> HIDE DEF m
  <2> QED
    BY <1>3, <2>1, <2>2, <2>3, Assumptions DEF m
<1> QED
  BY <1>2, <1>5

\* The bitwise operators work on the bytes of a word independently.
LEMMA BitsWords ==
    ASSUME NEW p \in Pair, NEW q \in Pair, NEW op \in BitNames
    PROVE  /\ Bits(op, p, q) \in Pair
           /\ Value(Bits(op, p, q)) = M!BitResult(op, Value(p), Value(q))
<1> DEFINE f == BitOps[op]
           r == Bits(op, p, q)
<1>1. /\ p.l \in Byte /\ p.h \in Byte /\ q.l \in Byte /\ q.h \in Byte
  BY DEF Pair
<1>2. f \in [Byte -> [Byte -> Byte]]
  BY RuntimeAssumption
<1>3. r = [l |-> f[p.l][q.l], h |-> f[p.h][q.h]]
  BY DEF Bits
<1> HIDE DEF f, r
<1>4. f[p.l][q.l] \in Byte /\ f[p.h][q.h] \in Byte
  BY <1>1, <1>2
<1>5. r \in Pair
  BY <1>3, <1>4 DEF Pair
<1>6. /\ Value(p) % BYTE = p.l /\ Value(p) \div BYTE = p.h
      /\ Value(q) % BYTE = q.l /\ Value(q) \div BYTE = q.h
  BY ValueApart
<1>7. M!BitResult(op, Value(p), Value(q))
        = f[Value(p) % BYTE][Value(q) % BYTE]
            + BYTE * f[Value(p) \div BYTE][Value(q) \div BYTE]
  BY DEF M!BitResult, f
<1>8. Value(r) = f[p.l][q.l] + BYTE * f[p.h][q.h]
  BY <1>3 DEF Value
<1> QED
  BY <1>5, <1>6, <1>7, <1>8 DEF r

-----------------------------------------------------------------------------
(* The stack                                                               *)

\* Whole pairs of bytes, and bytes in memory.
BytesOK ==
    /\ stack \in Seq(Byte)
    /\ \E n \in Nat : Len(stack) = 2 * n
    /\ mem \in [Cells -> Byte]
    /\ x \in Nat /\ FIRST <= x /\ x <= LAST + 1

LEMMA WordsLen ==
    ASSUME BytesOK
    PROVE  /\ Len(Words) \in Nat /\ Len(stack) = 2 * Len(Words)
           /\ Words = [i \in 1 .. Len(Words) |->
                         stack[2 * i - 1] + BYTE * stack[2 * i]]
<1>1. PICK n \in Nat : Len(stack) = 2 * n
  BY DEF BytesOK
<1>2. Len(stack) \div 2 = n
  BY <1>1
<1>3. Words = [i \in 1 .. n |-> stack[2 * i - 1] + BYTE * stack[2 * i]]
  BY <1>2 DEF Words
<1>4. Len(Words) = n
  BY <1>3
<1> QED
  BY <1>1, <1>3, <1>4

\* What is popped is the word the machine has there.
LEMMA PoppedWord ==
    ASSUME BytesOK, NEW n \in {1, 2}, Len(stack) >= 2 * n
    PROVE  /\ Popped(n) \in Pair /\ Value(Popped(n)) = M!Nth(n)
           /\ Len(Words) >= n
<1>1. Len(Words) \in Nat /\ Len(stack) = 2 * Len(Words)
  BY WordsLen
<1> DEFINE k == Len(Words)
           i == k - n + 1
<1>2. k \in Nat /\ k >= n /\ i \in 1 .. k
  BY <1>1
<1>3. /\ Len(stack) - 2 * n + 1 = 2 * i - 1 /\ Len(stack) - 2 * n + 2 = 2 * i
      /\ 2 * i - 1 \in 1 .. Len(stack) /\ 2 * i \in 1 .. Len(stack)
  BY <1>1, <1>2
<1>4. stack[2 * i - 1] \in Byte /\ stack[2 * i] \in Byte
  BY <1>3 DEF BytesOK
<1>5. Popped(n) = [l |-> stack[2 * i - 1], h |-> stack[2 * i]]
  BY <1>3 DEF Popped
<1>6. Words[i] = stack[2 * i - 1] + BYTE * stack[2 * i]
  <2> HIDE DEF i
  <2> QED
    BY <1>2, WordsLen
<1>7. M!Nth(n) = Words[i]
  BY DEF M!Nth
<1> HIDE DEF i
<1> QED
  BY <1>2, <1>4, <1>5, <1>6, <1>7 DEF Pair, Value

\* The bytes that are pushed.
LEMMA BytesOf ==
    ASSUME NEW ps \in Seq(Pair)
    PROVE  /\ Bytes(ps) \in Seq(Byte) /\ Len(Bytes(ps)) = 2 * Len(ps)
           /\ \A j \in 1 .. Len(ps) : /\ Bytes(ps)[2 * j - 1] = ps[j].l
                                      /\ Bytes(ps)[2 * j] = ps[j].h
<1> DEFINE m == Len(ps)
<1>1. m \in Nat /\ 2 * m \in Nat
  OBVIOUS
<1>2. ASSUME NEW j \in 1 .. m
      PROVE  /\ 2 * j - 1 \in 1 .. 2 * m /\ 2 * j \in 1 .. 2 * m
             /\ (2 * j - 1) % 2 = 1 /\ (2 * j) % 2 = 0
             /\ (2 * j - 1 + 1) \div 2 = j /\ (2 * j) \div 2 = j
  BY <1>1
<1>3. ASSUME NEW j \in 1 .. m
      PROVE  Bytes(ps)[2 * j - 1] = ps[j].l /\ Bytes(ps)[2 * j] = ps[j].h
  BY <1>2 DEF Bytes
<1>4. ASSUME NEW i \in 1 .. 2 * m
      PROVE  Bytes(ps)[i] \in Byte
  <2>1. PICK j \in 1 .. m : i = 2 * j - 1 \/ i = 2 * j
    <3>1. (i + 1) \div 2 \in 1 .. m
          /\ (i = 2 * ((i + 1) \div 2) - 1 \/ i = 2 * ((i + 1) \div 2))
      BY <1>1
    <3> QED
      BY <3>1
  <2>2. ps[j] \in Pair
    OBVIOUS
  <2>3. ps[j].l \in Byte /\ ps[j].h \in Byte
    BY <2>2 DEF Pair
  <2> QED
    BY <1>3, <2>1, <2>3
<1>5. Bytes(ps) = [i \in 1 .. 2 * m |-> Bytes(ps)[i]]
  BY DEF Bytes
<1>6. Bytes(ps) \in Seq(Byte) /\ Len(Bytes(ps)) = 2 * m
  BY <1>1, <1>4, <1>5
<1> QED
  BY <1>3, <1>6

\* An instruction that pops n pairs and pushes some replaces n words by theirs.
LEMMA Replaces ==
    ASSUME BytesOK, NEW n \in Nat, NEW ps \in Seq(Pair), Instruction(n, ps)
    PROVE  /\ M!Replace(n, [j \in 1 .. Len(ps) |-> Value(ps[j])])
           /\ stack' \in Seq(Byte) /\ \E k \in Nat : Len(stack') = 2 * k
<1> DEFINE k  == Len(Words)
           m  == Len(ps)
           bs == Bytes(ps)
           ws == [j \in 1 .. m |-> Value(ps[j])]
<1>1. k \in Nat /\ Len(stack) = 2 * k /\ m \in Nat
  BY WordsLen
<1>2. k >= n /\ ~stopped
  BY <1>1 DEF Instruction
<1>3. bs \in Seq(Byte) /\ Len(bs) = 2 * m
  BY BytesOf
<1>4. stack' = SubSeq(stack, 1, 2 * (k - n)) \o bs
  <2>1. Len(stack) - 2 * n = 2 * (k - n)
    BY <1>1
  <2> QED
    BY <2>1 DEF Instruction
<1> DEFINE r == k - n
           s == SubSeq(stack, 1, 2 * r)
<1>5. r \in Nat /\ 2 * r <= Len(stack)
  BY <1>1, <1>2
<1>6. s \in Seq(Byte) /\ Len(s) = 2 * r
      /\ \A i \in 1 .. 2 * r : s[i] = stack[i]
  <2> HIDE DEF r
  <2> QED
    BY <1>1, <1>5 DEF BytesOK
<1> HIDE DEF bs, ws, r
<1>7. stack' = s \o bs
  BY <1>4 DEF r
<1> HIDE DEF s
<1>8. /\ stack' \in Seq(Byte) /\ Len(stack') = 2 * (r + m)
      /\ \A i \in 1 .. 2 * r : stack'[i] = stack[i]
      /\ \A i \in 1 .. 2 * m : stack'[2 * r + i] = bs[i]
  <2>1. /\ s \o bs \in Seq(Byte) /\ Len(s \o bs) = Len(s) + Len(bs)
        /\ \A i \in 1 .. Len(s) + Len(bs) :
              (s \o bs)[i] = IF i <= Len(s) THEN s[i] ELSE bs[i - Len(s)]
    BY <1>3, <1>6, ConcatProperties
  <2>2. Len(s) + Len(bs) = 2 * (r + m)
    BY <1>1, <1>3, <1>5, <1>6
  <2>3. ASSUME NEW i \in 1 .. 2 * r PROVE stack'[i] = stack[i]
    <3>1. i \in 1 .. Len(s) + Len(bs) /\ i <= Len(s)
      BY <1>1, <1>3, <1>5, <1>6
    <3> QED
      BY <1>6, <1>7, <2>1, <3>1
  <2>4. ASSUME NEW i \in 1 .. 2 * m PROVE stack'[2 * r + i] = bs[i]
    <3> DEFINE at == 2 * r + i
    <3>1. at \in 1 .. Len(s) + Len(bs) /\ ~(at <= Len(s)) /\ at - Len(s) = i
      BY <1>1, <1>3, <1>5, <1>6
    <3> HIDE DEF at
    <3>2. (s \o bs)[at] = bs[at - Len(s)]
      BY <2>1, <3>1
    <3> QED
      BY <1>7, <3>1, <3>2 DEF at
  <2> QED
    BY <1>7, <2>1, <2>2, <2>3, <2>4
<1>9. Words' = [i \in 1 .. r + m |-> stack'[2 * i - 1] + BYTE * stack'[2 * i]]
  <2>1. Len(stack') \div 2 = r + m
    <3> DEFINE half == r + m
    <3>1. half \in Nat /\ Len(stack') = 2 * half
      BY <1>1, <1>5, <1>8
    <3> HIDE DEF half
    <3>2. Len(stack') \div 2 = half
      BY <3>1
    <3> QED
      BY <3>2 DEF half
  <2> QED
    BY <2>1 DEF Words
<1>10. ASSUME NEW i \in 1 .. r PROVE Words'[i] = Words[i]
  <2>1. 2 * i - 1 \in 1 .. 2 * r /\ 2 * i \in 1 .. 2 * r /\ i \in 1 .. r + m
    BY <1>1, <1>5
  <2>2. i \in 1 .. k
    BY <1>1, <1>2, <1>5 DEF r
  <2>3. Words[i] = stack[2 * i - 1] + BYTE * stack[2 * i]
    BY <2>2, WordsLen
  <2> QED
    BY <1>8, <1>9, <2>1, <2>3
<1>11. ASSUME NEW j \in 1 .. m PROVE Words'[r + j] = ws[j]
  <2>1. 2 * j - 1 \in 1 .. 2 * m /\ 2 * j \in 1 .. 2 * m /\ r + j \in 1 .. r + m
    BY <1>1, <1>5
  <2>2. stack'[2 * r + (2 * j - 1)] = bs[2 * j - 1]
        /\ stack'[2 * r + 2 * j] = bs[2 * j]
    BY <1>8, <2>1
  <2>3. 2 * (r + j) - 1 = 2 * r + (2 * j - 1) /\ 2 * (r + j) = 2 * r + 2 * j
    BY <1>5, <1>1
  <2>4. bs[2 * j - 1] = ps[j].l /\ bs[2 * j] = ps[j].h
    BY BytesOf DEF bs
  <2> QED
    BY <1>9, <2>1, <2>2, <2>3, <2>4 DEF ws, Value
<1>12. Words' = SubSeq(Words, 1, r) \o ws
  <2> DEFINE a == SubSeq(Words, 1, r)
  <2>1. Words \in Seq(Int)
    <3>1. ASSUME NEW i \in 1 .. k PROVE Words[i] \in Int
      <4>1. 2 * i - 1 \in 1 .. Len(stack) /\ 2 * i \in 1 .. Len(stack)
        BY <1>1
      <4>2. stack[2 * i - 1] \in Byte /\ stack[2 * i] \in Byte
        BY <4>1 DEF BytesOK
      <4>3. Words[i] = stack[2 * i - 1] + BYTE * stack[2 * i]
        BY WordsLen
      <4> QED
        BY <4>2, <4>3, Assumptions DEF Byte
    <3>2. Words = [i \in 1 .. k |-> Words[i]]
      BY WordsLen
    <3> HIDE DEF k
    <3> QED
      BY <1>1, <3>1, <3>2
  <2>2. r <= Len(Words)
    BY <1>1, <1>2, <1>5 DEF r
  <2>3. a \in Seq(Int) /\ Len(a) = r /\ \A i \in 1 .. r : a[i] = Words[i]
    BY <1>5, <2>1, <2>2
  <2>4. ws \in Seq(Int) /\ Len(ws) = m
    <3>1. ASSUME NEW j \in 1 .. m PROVE Value(ps[j]) \in Int
      BY ValueIsWord, Assumptions DEF Word
    <3> QED
      BY <1>1, <3>1 DEF ws
  <2> HIDE DEF a
  <2>5. /\ Len(a \o ws) = r + m
        /\ \A i \in 1 .. r + m :
              (a \o ws)[i] = IF i <= r THEN a[i] ELSE ws[i - r]
    BY <2>3, <2>4, ConcatProperties
  <2>6. ASSUME NEW i \in 1 .. r + m PROVE Words'[i] = (a \o ws)[i]
    <3>1. CASE i <= r
      <4>1. i \in 1 .. r
        BY <1>1, <1>5, <3>1
      <4>2. Words'[i] = Words[i]
        BY <1>10, <4>1
      <4>3. a[i] = Words[i]
        BY <2>3, <4>1
      <4>4. (a \o ws)[i] = a[i]
        BY <2>5, <3>1
      <4> QED
        BY <4>2, <4>3, <4>4
    <3>2. CASE ~(i <= r)
      <4>1. i - r \in 1 .. m /\ r + (i - r) = i
        BY <1>1, <1>5, <3>2
      <4>2. Words'[r + (i - r)] = ws[i - r]
        BY <1>11, <4>1
      <4> QED
        BY <2>5, <3>2, <4>1, <4>2
    <3> QED
      BY <3>1, <3>2
  <2>7. a \o ws = [i \in 1 .. r + m |-> (a \o ws)[i]]
    <3> DEFINE t == a \o ws
    <3>1. t \in Seq(Int) /\ Len(t) = r + m
      BY <2>3, <2>4, <2>5, ConcatProperties
    <3> HIDE DEF t
    <3>2. t = [i \in 1 .. r + m |-> t[i]]
      BY <3>1
    <3> QED
      BY <3>2 DEF t
  <2>8. Words' = [i \in 1 .. r + m |-> Words'[i]]
    BY <1>9
  <2> QED
    BY <2>6, <2>7, <2>8 DEF a
<1>13. M!Replace(n, ws)
  BY <1>2, <1>12 DEF M!Replace, r
<1>14. r + m \in Nat
  BY <1>1, <1>5
<1> QED
  BY <1>8, <1>13, <1>14 DEF ws

\* The three shapes an instruction has.
LEMMA PushesNone ==
    ASSUME BytesOK, NEW n \in Nat, Instruction(n, <<>>)
    PROVE  /\ M!Replace(n, <<>>)
           /\ stack' \in Seq(Byte) /\ \E k \in Nat : Len(stack') = 2 * k
<1> DEFINE ps == <<>>
<1>1. ps \in Seq(Pair) /\ [j \in 1 .. Len(ps) |-> Value(ps[j])] = <<>>
  OBVIOUS
<1> QED
  BY <1>1, Replaces

LEMMA PushesOne ==
    ASSUME BytesOK, NEW n \in Nat, NEW p \in Pair, Instruction(n, <<p>>)
    PROVE  /\ M!Replace(n, <<Value(p)>>)
           /\ stack' \in Seq(Byte) /\ \E k \in Nat : Len(stack') = 2 * k
<1> DEFINE ps == <<p>>
<1>1. ps \in Seq(Pair) /\ [j \in 1 .. Len(ps) |-> Value(ps[j])] = <<Value(p)>>
  OBVIOUS
<1> QED
  BY <1>1, Replaces

LEMMA PushesTwo ==
    ASSUME BytesOK, NEW n \in Nat, NEW p \in Pair, NEW q \in Pair,
           Instruction(n, <<p, q>>)
    PROVE  /\ M!Replace(n, <<Value(p), Value(q)>>)
           /\ stack' \in Seq(Byte) /\ \E k \in Nat : Len(stack') = 2 * k
<1> DEFINE ps == <<p, q>>
<1>1. ps \in Seq(Pair)
      /\ [j \in 1 .. Len(ps) |-> Value(ps[j])] = <<Value(p), Value(q)>>
  OBVIOUS
<1> QED
  BY <1>1, Replaces

-----------------------------------------------------------------------------
(* Every instruction is a step of the machine                              *)

StackWhole == stack \in Seq(Byte) /\ \E k \in Nat : Len(stack) = 2 * k

\* Instructions that only compute: the machine pushes the same word.
LEMMA ComputesOne ==
    ASSUME BytesOK, NEW n \in {0, 1, 2}, NEW p \in Pair,
           Instruction(n, <<p>>), Computes
    PROVE  /\ BytesOK' /\ M!Replace(n, <<Value(p)>>)
           /\ UNCHANGED <<mem, x, test, stopped>>
  BY PushesOne DEF Computes, BytesOK

\* A pointer on top of the stack is the machine's.
LEMMA Pointer ==
    ASSUME BytesOK, NEW size \in {1, 2}, PointsTo(size)
    PROVE  M!PointsTo(size) /\ Z = M!Top /\ Z \in Cells
           /\ (size = 2 => Z + 1 \in Cells)
<1>1. Popped(1) \in Pair /\ Value(Popped(1)) = M!Nth(1) /\ Len(Words) >= 1
  BY PoppedWord DEF PointsTo
<1>2. Z = M!Top
  BY <1>1 DEF Z, M!Top
<1>3. Z \in Cells /\ Z + size - 1 \in Cells
  BY DEF PointsTo, Within
<1>4. M!Cells = Cells
  BY DEF M!Cells, Cells
<1>5. M!PointsTo(size)
  BY <1>1, <1>2, <1>3, <1>4 DEF M!PointsTo, M!Within
<1>6. size = 2 => Z + 1 \in Cells
  <2>1. Z \in Int
    BY <1>3, RuntimeAssumption DEF Cells
  <2> QED
    BY <1>3, <2>1
<1> QED
  BY <1>2, <1>3, <1>5, <1>6

\* What lies in memory is a pair, and its value the machine's word.
LEMMA InMemory ==
    ASSUME BytesOK, NEW a \in Cells, a + 1 \in Cells
    PROVE  PairAt(a) \in Pair /\ Value(PairAt(a)) = M!WordAt(a)
  BY DEF BytesOK, PairAt, Pair, Value, M!WordAt

\* A pair is stored as the machine stores its value.
LEMMA Stores ==
    ASSUME BytesOK, NEW a \in Cells, NEW p \in Pair, StorePair(a, p)
    PROVE  M!SetWord(a, Value(p)) /\ mem' \in [Cells -> Byte]
<1>1. p.l \in Byte /\ p.h \in Byte
  BY DEF Pair
<1> QED
  BY <1>1, ValueApart DEF StorePair, M!SetWord, BytesOK

LEMMA OperatorStep ==
    ASSUME BytesOK, Operator
    PROVE  BytesOK' /\ M!Stack
<1> DEFINE p == Popped(2)
           q == Popped(1)
<1>1. Len(stack) >= 4 /\ Computes
  <2>1. (\E r : Instruction(2, <<r>>)) /\ Computes
    BY Zenon DEF Operator, Binary
  <2> QED
    BY <2>1 DEF Instruction
<1>2. /\ p \in Pair /\ Value(p) = M!Nth(2)
      /\ q \in Pair /\ Value(q) = M!Top
  <2>1. Len(stack) \in Nat /\ Len(stack) >= 2 * 1 /\ Len(stack) >= 2 * 2
    BY <1>1 DEF BytesOK
  <2> QED
    BY <2>1, PoppedWord DEF M!Top
<1> HIDE DEF p, q
<1>3. ASSUME NEW r \in Pair, NEW op \in M!Ops, Instruction(2, <<r>>),
             Value(r) = M!Result(op, Value(p), Value(q))
      PROVE  BytesOK' /\ M!Stack
  <2>1. /\ BytesOK' /\ M!Replace(2, <<Value(r)>>)
        /\ UNCHANGED <<mem, x, test, stopped>>
    BY <1>1, <1>3, ComputesOne
  <2>2. M!Replace(2, <<M!Result(op, M!Nth(2), M!Top)>>)
    BY <1>2, <1>3, <2>1
  <2> QED
    BY <2>1, <2>2 DEF M!Stack
<1>4. /\ Add(p, q) \in Pair /\ Value(Add(p, q)) = M!Result("add", Value(p), Value(q))
      /\ Sub(p, q) \in Pair /\ Value(Sub(p, q)) = M!Result("sub", Value(p), Value(q))
  BY <1>2, AddWords, SubWords
<1>5. {"add", "sub", "eq", "ne", "lt", "gt", "le", "ge"} \subseteq M!Ops
  BY DEF M!Ops
<1>6. CASE Instruction(2, <<Add(p, q)>>)
  BY <1>3, <1>4, <1>5, <1>6
<1>7. CASE Instruction(2, <<Sub(p, q)>>)
  BY <1>3, <1>4, <1>5, <1>7
<1>8. CASE Instruction(2, <<Eq(p, q)>>)
  BY <1>2, <1>3, <1>5, <1>8, Comparisons
<1>9. CASE Instruction(2, <<Ne(p, q)>>)
  BY <1>2, <1>3, <1>5, <1>9, Comparisons
<1>10. CASE Instruction(2, <<Lt(p, q)>>)
  BY <1>2, <1>3, <1>5, <1>10, Comparisons
<1>11. CASE Instruction(2, <<Gt(p, q)>>)
  BY <1>2, <1>3, <1>5, <1>11, Comparisons
<1>12. CASE Instruction(2, <<Le(p, q)>>)
  BY <1>2, <1>3, <1>5, <1>12, Comparisons
<1>13. CASE Instruction(2, <<Ge(p, q)>>)
  BY <1>2, <1>3, <1>5, <1>13, Comparisons
<1>14. ASSUME NEW op \in BitNames, Instruction(2, <<Bits(op, p, q)>>)
       PROVE  BytesOK' /\ M!Stack
  <2> DEFINE r == Bits(op, p, q)
  <2>1. r \in Pair /\ Value(r) = M!BitResult(op, M!Nth(2), M!Top)
    BY <1>2, BitsWords
  <2> HIDE DEF r
  <2>2. /\ BytesOK' /\ M!Replace(2, <<Value(r)>>)
        /\ UNCHANGED <<mem, x, test, stopped>>
    BY <1>1, <1>14, <2>1, ComputesOne DEF r
  <2>3. op \in M!BitNames
    BY DEF M!BitNames, BitNames
  <2> QED
    BY <2>1, <2>2, <2>3 DEF M!Stack
<1> QED
  BY <1>6, <1>7, <1>8, <1>9, <1>10, <1>11, <1>12, <1>13, <1>14
  DEF Operator, Binary, p, q

\* The other instructions that work on the stack alone.
LEMMA StackStep ==
    ASSUME BytesOK,
           Not \/ Bitnot \/ Neg \/ Dup \/ Swap \/ Drop \/ Heap
             \/ (\E w \in Word : Literal(w)) \/ (\E a \in Cells : Load(a))
             \/ Getptr \/ Getptrc
    PROVE  BytesOK' /\ M!Stack
<1>0. M!Word = Word /\ M!W = W /\ M!Cells = Cells
  BY DEF M!Word, M!W, M!Cells, Word, W, Cells
<1>p. ASSUME NEW n \in {1, 2}, Len(stack) >= 2 * n
      PROVE  Popped(n) \in Pair /\ Value(Popped(n)) = M!Nth(n)
  BY <1>p, PoppedWord
<1>l. Len(stack) \in Nat
  BY DEF BytesOK
<1>1. CASE Not
  <2>1. Popped(1) \in Pair /\ Value(Popped(1)) = M!Top
    BY <1>1, <1>l, <1>p DEF Not, Instruction, M!Top
  <2> DEFINE b == IsZero(Popped(1))
  <2>2. b \in BOOLEAN /\ (b <=> M!Top = 0)
    BY <2>1, Zero DEF IsZero
  <2>3. Return(b) \in Pair /\ Value(Return(b)) = M!Truth(M!Top = 0)
    BY <2>2, Truths DEF M!Truth
  <2>4. Instruction(1, <<Return(b)>>) /\ Computes
    BY <1>1 DEF Not
  <2> HIDE DEF b
  <2>5. /\ BytesOK' /\ M!Replace(1, <<M!Truth(M!Top = 0)>>)
        /\ UNCHANGED <<mem, x, test, stopped>>
    BY <2>3, <2>4, ComputesOne
  <2> QED
    BY <2>5 DEF M!Stack
<1>2. CASE Bitnot
  <2>1. Popped(1) \in Pair /\ Value(Popped(1)) = M!Top
    BY <1>2, <1>l, <1>p DEF Bitnot, Instruction, M!Top
  <2> DEFINE r == [l |-> BYTE - 1 - Popped(1).l, h |-> BYTE - 1 - Popped(1).h]
  <2>2. r \in Pair /\ Value(r) = M!W - 1 - M!Top
    BY <1>0, <2>1, Complement
  <2>3. Instruction(1, <<r>>) /\ Computes
    BY <1>2 DEF Bitnot
  <2> HIDE DEF r
  <2>4. /\ BytesOK' /\ M!Replace(1, <<M!W - 1 - M!Top>>)
        /\ UNCHANGED <<mem, x, test, stopped>>
    BY <2>2, <2>3, ComputesOne
  <2> QED
    BY <2>4 DEF M!Stack
<1>3. CASE Neg \/ Drop
  <2>1. Instruction(1, <<>>) /\ Computes
    BY <1>3 DEF Neg, Drop
  <2>2. M!Replace(1, <<>>) /\ StackWhole'
    BY <2>1, PushesNone DEF StackWhole
  <2> QED
    BY <2>1, <2>2 DEF M!Stack, Computes, BytesOK, StackWhole
<1>4. CASE Dup
  <2>1. Popped(1) \in Pair /\ Value(Popped(1)) = M!Top
    BY <1>4, <1>l, <1>p DEF Dup, Instruction, M!Top
  <2>2. Instruction(1, <<Popped(1), Popped(1)>>) /\ Computes
    BY <1>4 DEF Dup
  <2>3. M!Replace(1, <<M!Top, M!Top>>) /\ StackWhole'
    BY <2>1, <2>2, PushesTwo DEF StackWhole
  <2> QED
    BY <2>2, <2>3 DEF M!Stack, Computes, BytesOK, StackWhole
<1>5. CASE Swap
  <2>1. /\ Popped(1) \in Pair /\ Value(Popped(1)) = M!Top
        /\ Popped(2) \in Pair /\ Value(Popped(2)) = M!Nth(2)
    BY <1>5, <1>l, <1>p DEF Swap, Instruction, M!Top
  <2>2. Instruction(2, <<Popped(1), Popped(2)>>) /\ Computes
    BY <1>5 DEF Swap
  <2>3. M!Replace(2, <<M!Top, M!Nth(2)>>) /\ StackWhole'
    BY <2>1, <2>2, PushesTwo DEF StackWhole
  <2> QED
    BY <2>2, <2>3 DEF M!Stack, Computes, BytesOK, StackWhole
<1>6. CASE Heap
  <2>1. x \in Word
    BY RuntimeAssumption, Assumptions DEF BytesOK, Word
  <2>2. PairOf(x) \in Pair /\ Value(PairOf(x)) = x
    BY <2>1, PairOfWord
  <2>3. Instruction(0, <<PairOf(x)>>) /\ Computes
    BY <1>6 DEF Heap
  <2>4. /\ BytesOK' /\ M!Replace(0, <<x>>)
        /\ UNCHANGED <<mem, x, test, stopped>>
    BY <2>2, <2>3, ComputesOne
  <2> QED
    BY <2>4 DEF M!Stack
<1>7. ASSUME NEW w \in Word, Literal(w)
      PROVE  BytesOK' /\ M!Stack
  <2>1. PairOf(w) \in Pair /\ Value(PairOf(w)) = w
    BY PairOfWord
  <2>2. Instruction(0, <<PairOf(w)>>) /\ Computes
    BY <1>7 DEF Literal
  <2>3. /\ BytesOK' /\ M!Replace(0, <<w>>)
        /\ UNCHANGED <<mem, x, test, stopped>>
    BY <2>1, <2>2, ComputesOne
  <2> QED
    BY <1>0, <2>3 DEF M!Stack
<1>8. ASSUME NEW a \in Cells, Load(a)
      PROVE  BytesOK' /\ M!Stack
  <2>1. a + 1 \in Cells
    <3>1. a \in Int /\ a + 2 - 1 \in Cells
      BY <1>8, RuntimeAssumption DEF Load, Within, Cells
    <3> QED
      BY <3>1
  <2>2. PairAt(a) \in Pair /\ Value(PairAt(a)) = M!WordAt(a)
    BY <2>1, InMemory
  <2>3. Instruction(0, <<PairAt(a)>>) /\ Computes
    BY <1>8 DEF Load
  <2>4. /\ BytesOK' /\ M!Replace(0, <<M!WordAt(a)>>)
        /\ UNCHANGED <<mem, x, test, stopped>>
    BY <2>2, <2>3, ComputesOne
  <2>5. a \in M!Cells /\ M!Within(a, 2)
    BY <1>0, <1>8 DEF Load, Within, M!Within
  <2> QED
    BY <2>4, <2>5 DEF M!Stack
<1>9. CASE Getptr
  <2>1. PointsTo(2) /\ Instruction(1, <<PairAt(Z)>>) /\ Computes
    BY <1>9 DEF Getptr
  <2>2. M!PointsTo(2) /\ Z = M!Top /\ Z \in Cells /\ Z + 1 \in Cells
    BY <2>1, Pointer
  <2>3. PairAt(Z) \in Pair /\ Value(PairAt(Z)) = M!WordAt(M!Top)
    BY <2>2, InMemory
  <2>4. /\ BytesOK' /\ M!Replace(1, <<M!WordAt(M!Top)>>)
        /\ UNCHANGED <<mem, x, test, stopped>>
    BY <2>1, <2>3, ComputesOne
  <2> QED
    BY <2>2, <2>4 DEF M!Stack
<1>10. CASE Getptrc
  <2> DEFINE p == [l |-> mem[Z], h |-> 0]
  <2>1. PointsTo(1) /\ Instruction(1, <<p>>) /\ Computes
    BY <1>10 DEF Getptrc
  <2>2. M!PointsTo(1) /\ Z = M!Top /\ Z \in Cells
    BY <2>1, Pointer
  <2>3. mem[Z] \in Byte
    BY <2>2 DEF BytesOK
  <2>4. p \in Pair /\ Value(p) = mem[M!Top]
    BY <2>2, <2>3, Assumptions DEF Pair, Byte, Value
  <2> HIDE DEF p
  <2>5. /\ BytesOK' /\ M!Replace(1, <<mem[M!Top]>>)
        /\ UNCHANGED <<mem, x, test, stopped>>
    BY <2>1, <2>4, ComputesOne
  <2> QED
    BY <2>2, <2>5 DEF M!Stack
<1> QED
  BY <1>1, <1>2, <1>3, <1>4, <1>5, <1>6, <1>7, <1>8, <1>9, <1>10

\* Instructions that store a word or a byte.
LEMMA MemoryStep ==
    ASSUME BytesOK, (\E a \in Cells : Store(a)) \/ Setptr \/ Setptrc
    PROVE  BytesOK' /\ M!Memory
<1>0. M!Cells = Cells
  BY DEF M!Cells, Cells
<1>l. Len(stack) \in Nat
  BY DEF BytesOK
<1>p. ASSUME NEW n \in {1, 2}, Len(stack) >= 2 * n
      PROVE  Popped(n) \in Pair /\ Value(Popped(n)) = M!Nth(n)
  BY <1>p, PoppedWord
<1>1. ASSUME NEW a \in Cells, Store(a)
      PROVE  BytesOK' /\ M!Memory
  <2>1. /\ Within(a, 2) /\ Instruction(1, <<>>)
        /\ StorePair(a, Popped(1)) /\ UNCHANGED <<x, test, stopped>>
    BY <1>1 DEF Store
  <2>2. Popped(1) \in Pair /\ Value(Popped(1)) = M!Top
    BY <1>l, <1>p, <2>1 DEF Instruction, M!Top
  <2>3. M!SetWord(a, M!Top) /\ mem' \in [Cells -> Byte]
    BY <2>1, <2>2, Stores
  <2>4. M!Replace(1, <<>>) /\ StackWhole'
    BY <2>1, PushesNone DEF StackWhole
  <2>5. a \in M!Cells /\ M!Within(a, 2)
    BY <1>0, <2>1 DEF Within, M!Within
  <2> QED
    BY <2>1, <2>3, <2>4, <2>5 DEF M!Memory, BytesOK, StackWhole
<1>2. CASE Setptr
  <2>1. /\ PointsTo(2) /\ Instruction(2, <<>>)
        /\ StorePair(Z, Popped(2)) /\ UNCHANGED <<x, test, stopped>>
    BY <1>2 DEF Setptr
  <2>2. Popped(2) \in Pair /\ Value(Popped(2)) = M!Nth(2)
    BY <1>l, <1>p, <2>1 DEF Instruction
  <2>3. M!PointsTo(2) /\ Z = M!Top /\ Z \in Cells
    BY <2>1, Pointer
  <2>4. M!SetWord(M!Top, M!Nth(2)) /\ mem' \in [Cells -> Byte]
    BY <2>1, <2>2, <2>3, Stores
  <2>5. M!Replace(2, <<>>) /\ StackWhole'
    BY <2>1, PushesNone DEF StackWhole
  <2> QED
    BY <2>1, <2>3, <2>4, <2>5 DEF M!Memory, BytesOK, StackWhole
<1>3. CASE Setptrc
  <2>1. /\ PointsTo(1) /\ Instruction(2, <<>>)
        /\ mem' = [mem EXCEPT ![Z] = Popped(2).l] /\ UNCHANGED <<x, test, stopped>>
    BY <1>3 DEF Setptrc
  <2>2. Popped(2) \in Pair /\ Value(Popped(2)) = M!Nth(2)
    BY <1>l, <1>p, <2>1 DEF Instruction
  <2>3. M!PointsTo(1) /\ Z = M!Top /\ Z \in Cells
    BY <2>1, Pointer
  <2>4. Popped(2).l = M!Nth(2) % BYTE /\ Popped(2).l \in Byte
    BY <2>2, ValueApart DEF Pair
  <2>5. M!Replace(2, <<>>) /\ StackWhole'
    BY <2>1, PushesNone DEF StackWhole
  <2>6. mem' = [mem EXCEPT ![M!Top] = M!Nth(2) % BYTE]
    BY <2>1, <2>3, <2>4
  <2>7. mem' \in [Cells -> Byte]
    BY <2>1, <2>4 DEF BytesOK
  <2> QED
    BY <2>1, <2>3, <2>5, <2>6, <2>7 DEF M!Memory, BytesOK, StackWhole
<1> QED
  BY <1>1, <1>2, <1>3

\* The heap grows within the task's memory.
LEMMA GrowStep ==
    ASSUME BytesOK, Hpush \/ Hpushc
    PROVE  BytesOK' /\ M!Grow
<1>0. M!Cells = Cells
  BY DEF M!Cells, Cells
<1>1. Instruction(1, <<>>) /\ UNCHANGED <<test, stopped>>
  BY DEF Hpush, Hpushc
<1>2. Popped(1) \in Pair /\ Value(Popped(1)) = M!Top
  <2>1. Len(stack) \in Nat /\ Len(stack) >= 2 * 1
    BY <1>1 DEF BytesOK, Instruction
  <2> QED
    BY <2>1, PoppedWord DEF M!Top
<1>3. M!Replace(1, <<>>) /\ StackWhole'
  BY <1>1, PushesNone DEF StackWhole
<1>4. CASE Hpush
  <2>1. Within(x, 2) /\ StorePair(x, Popped(1)) /\ x' = x + 2
    BY <1>4 DEF Hpush
  <2>2. M!Within(x, 2) /\ x \in Cells
    BY <1>0, <2>1 DEF Within, M!Within
  <2>3. M!SetWord(x, M!Top) /\ mem' \in [Cells -> Byte]
    BY <1>2, <2>1, <2>2, Stores
  <2>4. x' \in Nat /\ FIRST <= x' /\ x' <= LAST + 1
    BY <2>1, RuntimeAssumption DEF Within, Cells, BytesOK
  <2> QED
    BY <1>1, <1>3, <2>1, <2>2, <2>3, <2>4 DEF M!Grow, BytesOK, StackWhole
<1>5. CASE Hpushc
  <2>1. Within(x, 1) /\ mem' = [mem EXCEPT ![x] = Popped(1).l] /\ x' = x + 1
    BY <1>5 DEF Hpushc
  <2>2. M!Within(x, 1) /\ x \in Cells
    BY <1>0, <2>1 DEF Within, M!Within
  <2>3. Popped(1).l = M!Top % BYTE /\ Popped(1).l \in Byte
    BY <1>2, ValueApart DEF Pair
  <2>4. mem' = [mem EXCEPT ![x] = M!Top % BYTE]
    BY <2>1, <2>3
  <2>5. mem' \in [Cells -> Byte]
    BY <2>1, <2>3 DEF BytesOK
  <2>6. x' \in Nat /\ FIRST <= x' /\ x' <= LAST + 1
    BY <2>1, <2>2, RuntimeAssumption DEF Cells, BytesOK
  <2> QED
    BY <1>1, <1>3, <2>1, <2>2, <2>4, <2>5, <2>6
    DEF M!Grow, BytesOK, StackWhole
<1> QED
  BY <1>4, <1>5

\* A test of the bytes is a test of the word.
LEMMA TestStep ==
    ASSUME BytesOK, JumpIf \/ JumpIfNot \/ Assert
    PROVE  BytesOK' /\ (M!Test \/ M!Assert)
<1>1. Instruction(1, <<>>) /\ UNCHANGED <<mem, x>>
  BY DEF JumpIf, JumpIfNot, Assert
<1>2. IsZero(Popped(1)) <=> M!Top = 0
  <2>1. Len(stack) \in Nat /\ Len(stack) >= 2 * 1
    BY <1>1 DEF BytesOK, Instruction
  <2>2. Popped(1) \in Pair /\ Value(Popped(1)) = M!Top
    BY <2>1, PoppedWord DEF M!Top
  <2> QED
    BY <2>2, Zero
<1>b. IsZero(Popped(1)) \in BOOLEAN
  BY DEF IsZero
<1>3. M!Replace(1, <<>>) /\ StackWhole'
  BY <1>1, PushesNone DEF StackWhole
<1>4. BytesOK'
  BY <1>1, <1>3 DEF BytesOK, StackWhole
<1> DEFINE zero == IsZero(Popped(1))
<1> HIDE DEF zero
<1>5. CASE JumpIf
  <2>1. test' = ~IsZero(Popped(1)) /\ UNCHANGED <<mem, x, stopped>>
    BY <1>5 DEF JumpIf
  <2>2. test' = (M!Top # 0)
    BY <1>2, <1>b, <2>1, Zenon
  <2> QED
    BY <1>3, <1>4, <2>1, <2>2 DEF M!Test
<1>6. CASE JumpIfNot
  <2>1. test' = IsZero(Popped(1)) /\ UNCHANGED <<mem, x, stopped>>
    BY <1>6 DEF JumpIfNot
  <2>2. test' = (M!Top = 0)
    BY <1>2, <1>b, <2>1, Zenon
  <2> QED
    BY <1>3, <1>4, <2>1, <2>2 DEF M!Test
<1>7. CASE Assert
  <2>1. stopped' = IsZero(Popped(1)) /\ UNCHANGED <<mem, x, test>>
    BY <1>7 DEF Assert
  <2>2. stopped' = (M!Top = 0)
    BY <1>2, <1>b, <2>1, Zenon
  <2> QED
    BY <1>3, <1>4, <2>1, <2>2 DEF M!Assert
<1> QED
  BY <1>5, <1>6, <1>7

\* A task begins with an empty stack.
LEMMA InitImplements ==
    ASSUME Init
    PROVE  BytesOK /\ M!Init
<1>1. stack = <<>> /\ mem \in [Cells -> Byte] /\ x = FIRST
      /\ test = FALSE /\ stopped = FALSE
  BY DEF Init
<1>2. BytesOK
  <2>1. stack \in Seq(Byte) /\ Len(stack) = 2 * 0
    BY <1>1
  <2>2. x \in Nat /\ FIRST <= x /\ x <= LAST + 1
    BY <1>1, RuntimeAssumption
  <2> QED
    BY <1>1, <2>1, <2>2 DEF BytesOK
<1>3. Words = <<>>
  <2>1. Len(Words) = 0
    BY <1>1, <1>2, WordsLen
  <2>2. Words = [i \in 1 .. 0 |-> stack[2 * i - 1] + BYTE * stack[2 * i]]
    BY <1>2, <2>1, WordsLen
  <2> QED
    BY <2>2
<1> QED
  BY <1>1, <1>2, <1>3 DEF M!Init, M!Cells, M!Byte, Cells, Byte

LEMMA EveryStep ==
    ASSUME BytesOK, [Next]_vars
    PROVE  BytesOK' /\ [M!Next]_(M!vars)
<1>1. CASE UNCHANGED vars
  BY <1>1 DEF vars, BytesOK, M!vars, Words
<1>2. CASE Operator
  BY <1>2, OperatorStep DEF M!Next
<1>3. CASE Not \/ Bitnot \/ Neg \/ Dup \/ Swap \/ Drop \/ Heap
             \/ (\E w \in Word : Literal(w)) \/ (\E a \in Cells : Load(a))
             \/ Getptr \/ Getptrc
  BY <1>3, StackStep DEF M!Next
<1>4. CASE (\E a \in Cells : Store(a)) \/ Setptr \/ Setptrc
  BY <1>4, MemoryStep DEF M!Next
<1>5. CASE Hpush \/ Hpushc
  BY <1>5, GrowStep DEF M!Next
<1>6. CASE JumpIf \/ JumpIfNot \/ Assert
  BY <1>6, TestStep DEF M!Next
<1>7. CASE Halt
  BY <1>7 DEF Halt, BytesOK, M!Next, M!Stop, Words
<1> QED
  BY <1>1, <1>2, <1>3, <1>4, <1>5, <1>6, <1>7 DEF Next

-----------------------------------------------------------------------------

\* The routines of tasklang.S implement the machine of words, for bytes of any
\* number of values and any memory: the carry between two bytes, the order of
\* the bytes on the stack and in memory, comparisons and tests are right.
THEOREM ImplementsMachine == Spec => MachineSpec
<1>1. Init => BytesOK /\ M!Init
  BY InitImplements
<1>2. BytesOK /\ [Next]_vars => BytesOK' /\ [M!Next]_(M!vars)
  BY EveryStep
<1> QED
  BY <1>1, <1>2, PTL DEF Spec, MachineSpec, M!Spec

=============================================================================
