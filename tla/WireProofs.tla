----------------------------- MODULE WireProofs -----------------------------
(***************************************************************************)
(* Proofs about the serial line: for every set of well-formed calls, every *)
(* size of the receive buffer and of the answers, the board handles the    *)
(* messages of the calls in order, a call reads its own answer, and the    *)
(* receive buffer overruns only for the causes that Wire names.            *)
(***************************************************************************)
EXTENDS Wire, SequenceTheorems, WellFoundedInduction, TLAPS

Byte == 0 .. 255
Bytes == Seq(Byte)

\* The line and its assumptions, as numbers.
LEMMA Sizes ==
    /\ OFFSETS_LEN \in Nat /\ OFFSETS_LEN > 0
    /\ BUILTINS_LEN \in Nat /\ BUILTINS_LEN > 0
    /\ INSPECT_LEN \in Nat /\ INSPECT_LEN > 0
    /\ GOT_LEN \in Nat /\ GOT_LEN > 0
    /\ COUNT_LEN \in Nat /\ COUNT_LEN > 0 /\ COUNT_LEN < BUILTINS_LEN
    /\ SIZES_LEN \in Nat /\ SIZES_LEN > 0 /\ SIZES_LEN < INSPECT_LEN
    /\ RX_CAPACITY \in Nat /\ RX_CAPACITY > 0
    /\ MaxCalls \in Nat
BY WireAssumption

-----------------------------------------------------------------------------
(* Sequences                                                               *)

\* Taking the first element of one sequence to the end of the one before it
\* changes nothing of their concatenation.
LEMMA Shift ==
    ASSUME NEW S, NEW a \in Seq(S), NEW b \in Seq(S), b # <<>>
    PROVE  /\ Append(a, Head(b)) \in Seq(S) /\ Tail(b) \in Seq(S)
           /\ Append(a, Head(b)) \o Tail(b) = a \o b
<1>1. /\ Head(b) \in S /\ Tail(b) \in Seq(S) /\ Len(Tail(b)) = Len(b) - 1
      /\ \A i \in 1 .. Len(Tail(b)) : Tail(b)[i] = b[i + 1]
  BY HeadTailProperties
<1>2. Head(b) = b[1] /\ Len(b) \in Nat /\ Len(b) > 0 /\ Len(a) \in Nat
  BY EmptySeq
<1> DEFINE m == Append(a, Head(b))
<1>3. /\ m \in Seq(S) /\ Len(m) = Len(a) + 1
      /\ \A i \in 1 .. Len(a) : m[i] = a[i]
      /\ m[Len(a) + 1] = Head(b)
  BY <1>1, AppendProperties
<1> DEFINE x == m \o Tail(b)
           y == a \o b
<1>4. /\ x \in Seq(S) /\ Len(x) = Len(m) + Len(Tail(b))
      /\ \A i \in 1 .. Len(m) + Len(Tail(b)) :
           x[i] = IF i <= Len(m) THEN m[i] ELSE Tail(b)[i - Len(m)]
  BY <1>1, <1>3, ConcatProperties
<1>5. /\ y \in Seq(S) /\ Len(y) = Len(a) + Len(b)
      /\ \A i \in 1 .. Len(a) + Len(b) :
           y[i] = IF i <= Len(a) THEN a[i] ELSE b[i - Len(a)]
  BY ConcatProperties
<1> HIDE DEF m, x, y
<1>6. Len(x) = Len(y)
  BY <1>1, <1>2, <1>3, <1>4, <1>5
<1>7. ASSUME NEW i \in 1 .. Len(x) PROVE x[i] = y[i]
  <2>1. CASE i <= Len(a)
    <3>1. /\ i <= Len(m) /\ i \in 1 .. Len(a)
          /\ i \in 1 .. Len(m) + Len(Tail(b)) /\ i \in 1 .. Len(a) + Len(b)
      BY <2>1, <1>1, <1>2, <1>3
    <3>2. x[i] = m[i] /\ y[i] = a[i]
      BY <3>1, <2>1, <1>4, <1>5
    <3> QED
      BY <3>1, <3>2, <1>3
  <2>2. CASE i = Len(a) + 1
    <3>1. /\ i <= Len(m) /\ ~(i <= Len(a)) /\ i - Len(a) = 1
          /\ i \in 1 .. Len(m) + Len(Tail(b)) /\ i \in 1 .. Len(a) + Len(b)
      BY <2>2, <1>1, <1>2, <1>3
    <3>2. x[i] = m[i] /\ y[i] = b[1]
      BY <3>1, <1>4, <1>5
    <3> QED
      BY <3>2, <2>2, <1>2, <1>3
  <2>3. CASE i > Len(a) + 1
    <3>1. i - Len(m) \in 1 .. Len(Tail(b)) /\ ~(i <= Len(m)) /\ ~(i <= Len(a))
      BY <2>3, <1>1, <1>2, <1>3, <1>4
    <3>2. x[i] = Tail(b)[i - Len(m)] /\ y[i] = b[i - Len(a)]
      BY <3>1, <1>4, <1>5, <1>6
    <3>3. Tail(b)[i - Len(m)] = b[i - Len(m) + 1]
      BY <3>1, <1>1
    <3>4. i - Len(m) + 1 = i - Len(a)
      BY <1>2, <1>3
    <3> QED
      BY <3>2, <3>3, <3>4
  <2> QED
    BY <2>1, <2>2, <2>3, <1>2, <1>4, <1>1, <1>3
<1>8. x = y
  BY <1>4, <1>5, <1>6, <1>7, SeqEqual
<1> QED
  BY <1>1, <1>3, <1>8 DEF m, x, y

\* What a concatenation of three begins with.
LEMMA Begins ==
    ASSUME NEW S, NEW a \in Seq(S), NEW b \in Seq(S), NEW c \in Seq(S)
    PROVE  /\ a \o b \o c \in Seq(S)
           /\ Len(a \o b \o c) = Len(a) + Len(b) + Len(c)
           /\ \A i \in 1 .. Len(a) : (a \o b \o c)[i] = a[i]
           /\ \A i \in 1 .. Len(b) + Len(c) :
                (a \o b \o c)[Len(a) + i] = (b \o c)[i]
<1>1. /\ a \o (b \o c) = a \o b \o c
      /\ b \o c \in Seq(S) /\ Len(b \o c) = Len(b) + Len(c)
  BY ConcatProperties, ConcatAssociative
<1> DEFINE r == b \o c
           x == a \o r
<1>2. /\ x \in Seq(S) /\ Len(x) = Len(a) + Len(r)
      /\ \A i \in 1 .. Len(a) + Len(r) :
           x[i] = IF i <= Len(a) THEN a[i] ELSE r[i - Len(a)]
  BY <1>1, ConcatProperties
<1>3. Len(a) \in Nat /\ Len(b) \in Nat /\ Len(c) \in Nat
  BY LenProperties
<1>4. r \in Seq(S) /\ Len(r) = Len(b) + Len(c)
  BY <1>1
<1> HIDE DEF r, x
<1>5. \A i \in 1 .. Len(a) : x[i] = a[i]
  BY <1>2, <1>3, <1>4
<1>6. ASSUME NEW i \in 1 .. Len(b) + Len(c) PROVE x[Len(a) + i] = r[i]
  <2>1. /\ Len(a) + i \in 1 .. Len(a) + Len(r)
        /\ ~(Len(a) + i <= Len(a)) /\ Len(a) + i - Len(a) = i
    BY <1>3, <1>4
  <2> QED
    BY <2>1, <1>2
<1>7. Len(x) = Len(a) + Len(b) + Len(c)
  BY <1>2, <1>3, <1>4
<1>8. x = a \o b \o c
  BY <1>1 DEF r, x
<1> QED
  BY <1>2, <1>5, <1>6, <1>7, <1>8 DEF r

\* A sequence of bytes and its elements.
LEMMA BytesType ==
    ASSUME NEW m \in Bytes
    PROVE  /\ Len(m) \in Nat /\ (m # <<>> <=> Len(m) >= 1)
           /\ \A i \in 1 .. Len(m) : m[i] \in Nat /\ m[i] <= 255
<1> DEFINE n == Len(m)
<1>1. n \in Nat /\ (m = <<>> => n = 0) /\ (m # <<>> => n # 0)
  BY EmptySeq, LenProperties DEF Bytes
<1>2. ASSUME NEW i \in 1 .. n PROVE m[i] \in Byte
  BY ElementOfSeq DEF Bytes
<1> HIDE DEF n
<1>3. ASSUME NEW i \in 1 .. n PROVE m[i] \in Nat /\ m[i] <= 255
  BY <1>2 DEF Byte
<1>4. n \in Nat /\ (m # <<>> <=> n >= 1)
  BY <1>1
<1> QED
  BY <1>3, <1>4 DEF n

\* Concatenations of bytes are bytes.
LEMMA BytesConcat ==
    ASSUME NEW a \in Bytes, NEW b \in Bytes
    PROVE  /\ a \o b \in Bytes /\ Len(a \o b) = Len(a) + Len(b)
           /\ \A i \in 1 .. Len(a) + Len(b) :
                (a \o b)[i] = IF i <= Len(a) THEN a[i] ELSE b[i - Len(a)]
BY ConcatProperties DEF Bytes

-----------------------------------------------------------------------------
(* Messages                                                                *)

\* What the handler expects of a message: its first bytes say where it ends.
Proper(m) ==
    /\ m \in Bytes /\ Len(m) >= 1
    /\ \/ Len(m) = 1 /\ m[1] # ESC
       \/ /\ m[1] = ESC /\ Len(m) >= 2
          /\ \/ Len(m) = 2 /\ m[2] \in {GET_OFFSETS, GET_BUILTIN_LOCATIONS}
             \/ Len(m) = 3 /\ m[2] \in {PING, START_TASK, STOP_TASK, INSPECT_TASK}
             \/ /\ m[2] = LOAD_TASK /\ Len(m) >= 7
                /\ Len(m) = 7 + U16At(m, 4) + U16At(m, 6)
                /\ U16At(m, 4) + U16At(m, 6) < WORD
             \/ m[2] = GET_MEMORY /\ Len(m) = 6
             \/ /\ m[2] = SET_MEMORY /\ Len(m) >= 6
                /\ Len(m) = 6 + U16At(m, 5)
                /\ U16At(m, 3) + U16At(m, 5) < WORD

\* Two bytes are a number.
LEMMA TwoBytes ==
    ASSUME NEW a \in Nat, NEW b \in Nat
    PROVE  a + 256 * b \in Nat
OBVIOUS

\* A 16-bit number survives the line.
LEMMA Word16 ==
    ASSUME NEW n \in Nat, n < WORD
    PROVE  /\ n % 256 \in Byte /\ n \div 256 \in Byte
           /\ (n % 256) + 256 * (n \div 256) = n
BY DEF Byte, WORD

\* The handler stops reading at the end of a message, not before and not
\* after, or it dies.
LEMMA Parsed ==
    ASSUME NEW M, Proper(M), NEW m \in Bytes, m # <<>>, Len(m) <= Len(M),
           \A i \in 1 .. Len(m) : m[i] = M[i], ~Dies(m)
    PROVE  Complete(m) <=> Len(m) = Len(M)
<1> DEFINE k == Len(m)
           K == Len(M)
<1>1. /\ k \in Nat /\ k >= 1 /\ K \in Nat /\ k <= K
      /\ \A i \in 1 .. k : m[i] \in Nat /\ m[i] <= 255 /\ m[i] = M[i]
  BY BytesType DEF Proper
<1>2. Complete(m) <=>
        \/ m[1] # ESC
        \/ k = 2 /\ m[2] \in {ESC, GET_OFFSETS, GET_BUILTIN_LOCATIONS}
        \/ k = 3 /\ m[2] \in {PING, START_TASK, STOP_TASK, INSPECT_TASK}
        \/ k >= 7 /\ m[2] = LOAD_TASK /\ k = 7 + LoadLen(m)
        \/ k = 6 /\ m[2] = GET_MEMORY
        \/ k >= 6 /\ m[2] = SET_MEMORY /\ k = 6 + Range16(m)
  BY Zenon DEF Complete
<1>3. \/ K = 1 /\ M[1] # ESC
      \/ /\ M[1] = ESC /\ K >= 2
         /\ \/ K = 2 /\ M[2] \in {GET_OFFSETS, GET_BUILTIN_LOCATIONS}
            \/ K = 3 /\ M[2] \in {PING, START_TASK, STOP_TASK, INSPECT_TASK}
            \/ /\ M[2] = LOAD_TASK /\ K >= 7
               /\ K = 7 + U16At(M, 4) + U16At(M, 6)
               /\ U16At(M, 4) + U16At(M, 6) < WORD
            \/ M[2] = GET_MEMORY /\ K = 6
            \/ /\ M[2] = SET_MEMORY /\ K >= 6
               /\ K = 6 + U16At(M, 5)
               /\ U16At(M, 3) + U16At(M, 5) < WORD
  BY Zenon DEF Proper
<1> HIDE DEF k, K
<1> USE DEF ESC, PING, GET_OFFSETS, GET_BUILTIN_LOCATIONS, LOAD_TASK, START_TASK,
            STOP_TASK, INSPECT_TASK, GET_MEMORY, SET_MEMORY
<1>4. Complete(m) <=> k = K
  <2>1. CASE K = 1 /\ M[1] # ESC
    BY <2>1, <1>1, <1>2
  <2>2. CASE M[1] = ESC /\ K >= 2 /\ k = 1
    BY <2>2, <1>1, <1>2
  <2>3. CASE M[1] = ESC /\ K >= 2 /\ k >= 2
    <3>1. m[1] = M[1] /\ m[2] = M[2]
      BY <2>3, <1>1
    <3>2. CASE K = 2 /\ M[2] \in {GET_OFFSETS, GET_BUILTIN_LOCATIONS}
      BY <2>3, <3>1, <3>2, <1>1, <1>2
    <3>3. CASE K = 3 /\ M[2] \in {PING, START_TASK, STOP_TASK, INSPECT_TASK}
      BY <2>3, <3>1, <3>3, <1>1, <1>2
    <3>4. CASE K = 6 /\ M[2] = GET_MEMORY
      BY <2>3, <3>1, <3>4, <1>1, <1>2
    <3>5. CASE /\ M[2] = LOAD_TASK /\ K >= 7
               /\ K = 7 + U16At(M, 4) + U16At(M, 6)
               /\ U16At(M, 4) + U16At(M, 6) < WORD
      <4>1. Complete(m) <=> k >= 7 /\ k = 7 + LoadLen(m)
        BY <2>3, <3>1, <3>5, <1>2
      <4>2. ASSUME k >= 7
            PROVE  7 + LoadLen(m) = K
        <5>1. /\ m[4] = M[4] /\ m[5] = M[5] /\ m[6] = M[6] /\ m[7] = M[7]
              /\ m[4] \in Nat /\ m[5] \in Nat /\ m[6] \in Nat /\ m[7] \in Nat
          BY <4>2, <1>1
        <5>2. /\ U16At(m, 4) = U16At(M, 4) /\ U16At(m, 4) \in Nat
              /\ U16At(m, 6) = U16At(M, 6) /\ U16At(m, 6) \in Nat
          <6>1. /\ U16At(m, 4) = m[4] + 256 * m[5]
                /\ U16At(m, 6) = m[6] + 256 * m[7]
                /\ U16At(M, 4) = M[4] + 256 * M[5]
                /\ U16At(M, 6) = M[6] + 256 * M[7]
            BY DEF U16At
          <6>2. U16At(m, 4) \in Nat
            BY <5>1, <6>1, TwoBytes
          <6>3. U16At(m, 6) \in Nat
            BY <5>1, <6>1, TwoBytes
          <6> QED
            BY <6>1, <6>2, <6>3, <5>1, Zenon
        <5>3. U16At(m, 4) + U16At(m, 6) < WORD
          BY <5>2, <3>5
        <5>4. LoadLen(m) = U16At(m, 4) + U16At(m, 6)
          BY <5>2, <5>3 DEF LoadLen, WORD
        <5> QED
          BY <5>2, <5>4, <3>5
      <4> QED
        BY <4>1, <4>2, <3>5, <1>1
    <3>6. CASE /\ M[2] = SET_MEMORY /\ K >= 6
               /\ K = 6 + U16At(M, 5)
               /\ U16At(M, 3) + U16At(M, 5) < WORD
      <4>1. Complete(m) <=> k >= 6 /\ k = 6 + Range16(m)
        BY <2>3, <3>1, <3>6, <1>2
      <4>2. ASSUME k >= 6
            PROVE  6 + Range16(m) = K
        <5>1. /\ m[3] = M[3] /\ m[4] = M[4] /\ m[5] = M[5] /\ m[6] = M[6]
              /\ m[3] \in Nat /\ m[4] \in Nat /\ m[5] \in Nat /\ m[6] \in Nat
          BY <4>2, <1>1
        <5>2. U16At(m, 3) = U16At(M, 3) /\ U16At(m, 5) = U16At(M, 5)
          BY <5>1 DEF U16At
        <5> QED
          BY <5>2, <3>6 DEF Range16
      <4> QED
        BY <4>1, <4>2, <3>6, <1>1
    <3> QED
      BY <3>2, <3>3, <3>4, <3>5, <3>6, <2>3, <1>3
  <2>4. k = 1 \/ k >= 2
    BY <1>1
  <2> QED
    BY <2>1, <2>2, <2>3, <2>4, <1>3, Zenon
<1> QED
  BY <1>4 DEF k, K

\* Two and three elements are a sequence.
LEMMA Short ==
    ASSUME NEW S, NEW a \in S, NEW b \in S, NEW c \in S
    PROVE  /\ <<a, b>> \in Seq(S) /\ Len(<<a, b>>) = 2
           /\ <<a, b, c>> \in Seq(S) /\ Len(<<a, b, c>>) = 3
           /\ <<a, b>>[1] = a /\ <<a, b>>[2] = b
           /\ <<a, b, c>>[1] = a /\ <<a, b, c>>[2] = b /\ <<a, b, c>>[3] = c
OBVIOUS

\* Two 16-bit numbers behind a header.
LEMMA Header ==
    ASSUME NEW S, NEW h \in Seq(S), NEW p \in Seq(S), NEW q \in Seq(S)
    PROVE  Len(p) = 2 /\ Len(q) = 2 =>
             /\ h \o p \o q \in Seq(S) /\ Len(h \o p \o q) = Len(h) + 4
             /\ \A i \in 1 .. Len(h) : (h \o p \o q)[i] = h[i]
             /\ (h \o p \o q)[Len(h) + 1] = p[1]
             /\ (h \o p \o q)[Len(h) + 2] = p[2]
             /\ (h \o p \o q)[Len(h) + 3] = q[1]
             /\ (h \o p \o q)[Len(h) + 4] = q[2]
<1> DEFINE m == h \o p \o q
           r == p \o q
           n == Len(h)
           u == Len(p)
           v == Len(q)
<1>1. /\ m \in Seq(S) /\ Len(m) = n + u + v
      /\ \A i \in 1 .. n : m[i] = h[i]
      /\ \A i \in 1 .. u + v : m[n + i] = r[i]
  BY Begins
<1>2. \A i \in 1 .. u + v : r[i] = IF i <= u THEN p[i] ELSE q[i - u]
  BY ConcatProperties, Zenon
<1>3. n \in Nat
  OBVIOUS
<1> HIDE DEF m, r, n, u, v
<1>4. ASSUME u = 2, v = 2
      PROVE  /\ m \in Seq(S) /\ Len(m) = n + 4
             /\ \A i \in 1 .. n : m[i] = h[i]
             /\ m[n + 1] = p[1] /\ m[n + 2] = p[2]
             /\ m[n + 3] = q[1] /\ m[n + 4] = q[2]
  <2>1. \A i \in 1 .. 4 : r[i] = IF i <= 2 THEN p[i] ELSE q[i - 2]
    BY <1>2, <1>4
  <2>2. r[1] = p[1] /\ r[2] = p[2] /\ r[3] = q[1] /\ r[4] = q[2]
    BY <2>1
  <2>3. \A i \in 1 .. 4 : m[n + i] = r[i]
    BY <1>1, <1>4
  <2>4. m[n + 1] = r[1] /\ m[n + 2] = r[2] /\ m[n + 3] = r[3] /\ m[n + 4] = r[4]
    BY <2>3
  <2>5. Len(m) = n + 4
    BY <1>1, <1>3, <1>4
  <2> QED
    BY <1>1, <2>2, <2>4, <2>5, Zenon
<1> QED
  BY <1>4, Zenon DEF m, n, u, v

\* The same behind a header of two bytes, and of three.
LEMMA HeaderTwo ==
    ASSUME NEW S, NEW h \in Seq(S), NEW d \in S, NEW e \in S,
           NEW f \in S, NEW g \in S
    PROVE  Len(h) = 2 =>
             /\ h \o <<d, e>> \o <<f, g>> \in Seq(S)
             /\ Len(h \o <<d, e>> \o <<f, g>>) = 6
             /\ (h \o <<d, e>> \o <<f, g>>)[1] = h[1]
             /\ (h \o <<d, e>> \o <<f, g>>)[2] = h[2]
             /\ (h \o <<d, e>> \o <<f, g>>)[3] = d
             /\ (h \o <<d, e>> \o <<f, g>>)[4] = e
             /\ (h \o <<d, e>> \o <<f, g>>)[5] = f
             /\ (h \o <<d, e>> \o <<f, g>>)[6] = g
<1> DEFINE p == <<d, e>>
           q == <<f, g>>
           m == h \o p \o q
           n == Len(h)
<1>1. /\ p \in Seq(S) /\ Len(p) = 2 /\ p[1] = d /\ p[2] = e
      /\ q \in Seq(S) /\ Len(q) = 2 /\ q[1] = f /\ q[2] = g
  BY Short
<1> HIDE DEF p, q
<1>2. /\ m \in Seq(S) /\ Len(m) = n + 4
      /\ \A i \in 1 .. n : m[i] = h[i]
      /\ m[n + 1] = p[1] /\ m[n + 2] = p[2]
      /\ m[n + 3] = q[1] /\ m[n + 4] = q[2]
  BY <1>1, Header
<1> HIDE DEF m, n
<1>3. ASSUME n = 2
      PROVE  /\ m \in Seq(S) /\ Len(m) = 6 /\ m[1] = h[1] /\ m[2] = h[2]
             /\ m[3] = d /\ m[4] = e /\ m[5] = f /\ m[6] = g
  BY <1>1, <1>2, <1>3
<1> QED
  BY <1>3 DEF m, n, p, q

LEMMA HeaderThree ==
    ASSUME NEW S, NEW h \in Seq(S), NEW d \in S, NEW e \in S,
           NEW f \in S, NEW g \in S
    PROVE  Len(h) = 3 =>
             /\ h \o <<d, e>> \o <<f, g>> \in Seq(S)
             /\ Len(h \o <<d, e>> \o <<f, g>>) = 7
             /\ (h \o <<d, e>> \o <<f, g>>)[1] = h[1]
             /\ (h \o <<d, e>> \o <<f, g>>)[2] = h[2]
             /\ (h \o <<d, e>> \o <<f, g>>)[4] = d
             /\ (h \o <<d, e>> \o <<f, g>>)[5] = e
             /\ (h \o <<d, e>> \o <<f, g>>)[6] = f
             /\ (h \o <<d, e>> \o <<f, g>>)[7] = g
<1> DEFINE p == <<d, e>>
           q == <<f, g>>
           m == h \o p \o q
           n == Len(h)
<1>1. /\ p \in Seq(S) /\ Len(p) = 2 /\ p[1] = d /\ p[2] = e
      /\ q \in Seq(S) /\ Len(q) = 2 /\ q[1] = f /\ q[2] = g
  BY Short
<1> HIDE DEF p, q
<1>2. /\ m \in Seq(S) /\ Len(m) = n + 4
      /\ \A i \in 1 .. n : m[i] = h[i]
      /\ m[n + 1] = p[1] /\ m[n + 2] = p[2]
      /\ m[n + 3] = q[1] /\ m[n + 4] = q[2]
  BY <1>1, Header
<1> HIDE DEF m, n
<1>3. ASSUME n = 3
      PROVE  /\ m \in Seq(S) /\ Len(m) = 7 /\ m[1] = h[1] /\ m[2] = h[2]
             /\ m[4] = d /\ m[5] = e /\ m[6] = f /\ m[7] = g
  BY <1>1, <1>2, <1>3
<1> QED
  BY <1>3 DEF m, n, p, q

\* The calls, as assumed.
LEMMA CallTypes ==
    ASSUME NEW c \in Calls
    PROVE  /\ c.id \in Nat /\ c.len \in Nat
           /\ c.data \in Bytes /\ c.heap \in Bytes
           /\ Len(c.data) \in Nat /\ Len(c.heap) \in Nat
           /\ c.type \in MessageTypes \cup {DATA}
           /\ c.type = DATA => Len(c.data) = 1
           /\ c.type = LOAD_TASK => Len(c.data) + Len(c.heap) < WORD
<1>1. WellFormed(c)
  BY CallsAssumption
<1>2. c.data \in Bytes /\ c.heap \in Bytes
  BY <1>1, Zenon DEF WellFormed, Bytes, Byte
<1>3. Len(c.data) \in Nat /\ Len(c.heap) \in Nat
  BY <1>2, BytesType
<1> QED
  BY <1>1, <1>2, <1>3, Zenon DEF WellFormed

\* Arguments that fit, and calls whose arguments always do.
LEMMA FitTypes ==
    ASSUME NEW c \in Calls
    PROVE  /\ Fits(c) => /\ c.type \in {PING, DATA} => Len(c.data) = 1
                         /\ c.type = GET_MEMORY => c.id < WORD /\ c.len < WORD
                         /\ c.type = SET_MEMORY => c.id + Len(c.data) < WORD
           /\ c.type \in {DATA, START_TASK, STOP_TASK} => Fits(c)
<1>1. c.type = DATA => Len(c.data) = 1
  BY CallTypes, Zenon
<1> QED
  BY <1>1 DEF Fits, DATA, PING, START_TASK, STOP_TASK, GET_MEMORY, SET_MEMORY

\* The bytes of each call and the bytes it reads.
LEMMA Messages ==
    ASSUME NEW c \in Calls
    PROVE  /\ c.type = DATA => Message(c) = c.data
           /\ c.type = PING => /\ Message(c) = <<ESC, PING>> \o c.data
                              /\ Wanted(c) = 1
           /\ c.type = GET_OFFSETS =>
                Message(c) = <<ESC, GET_OFFSETS>> /\ Wanted(c) = OFFSETS_LEN
           /\ c.type = GET_BUILTIN_LOCATIONS =>
                /\ Message(c) = <<ESC, GET_BUILTIN_LOCATIONS>>
                /\ Wanted(c) = BUILTINS_LEN
           /\ c.type = LOAD_TASK =>
                /\ Message(c) = <<ESC, LOAD_TASK, c.id>>
                     \o U16(Len(c.data)) \o U16(Len(c.heap)) \o c.data \o c.heap
                /\ Wanted(c) = 0
           /\ c.type \in {START_TASK, STOP_TASK} =>
                Message(c) = <<ESC, c.type, c.id>> /\ Wanted(c) = 0
           /\ c.type = INSPECT_TASK =>
                Message(c) = <<ESC, INSPECT_TASK, c.id>> /\ Wanted(c) = INSPECT_LEN
           /\ c.type = GET_MEMORY =>
                /\ Message(c) = <<ESC, GET_MEMORY>> \o U16(c.id) \o U16(c.len)
                /\ Wanted(c) = c.len
           /\ c.type = SET_MEMORY =>
                /\ Message(c) = <<ESC, SET_MEMORY>> \o U16(c.id)
                                  \o U16(Len(c.data)) \o c.data
                /\ Wanted(c) = 0
<1> DEFINE ping == <<ESC, PING>> \o c.data
           two == <<ESC, c.type>>
           three == <<ESC, c.type, c.id>>
           load == <<ESC, LOAD_TASK, c.id>> \o U16(Len(c.data))
                     \o U16(Len(c.heap)) \o c.data \o c.heap
           get == <<ESC, GET_MEMORY>> \o U16(c.id) \o U16(c.len)
           set == <<ESC, SET_MEMORY>> \o U16(c.id) \o U16(Len(c.data)) \o c.data
<1>1. Message(c) =
        CASE c.type = DATA -> c.data
          [] c.type = PING -> ping
          [] c.type \in {GET_OFFSETS, GET_BUILTIN_LOCATIONS} -> two
          [] c.type = LOAD_TASK -> load
          [] c.type \in {START_TASK, STOP_TASK, INSPECT_TASK} -> three
          [] c.type = GET_MEMORY -> get
          [] c.type = SET_MEMORY -> set
  BY DEF Message
<1> HIDE DEF ping, two, three, load, get, set
<1>2. /\ c.type = DATA => Message(c) = c.data
      /\ c.type = PING => Message(c) = ping
      /\ c.type = GET_OFFSETS => Message(c) = two
      /\ c.type = GET_BUILTIN_LOCATIONS => Message(c) = two
      /\ c.type = LOAD_TASK => Message(c) = load
      /\ c.type \in {START_TASK, STOP_TASK} => Message(c) = three
      /\ c.type = INSPECT_TASK => Message(c) = three
      /\ c.type = GET_MEMORY => Message(c) = get
      /\ c.type = SET_MEMORY => Message(c) = set
  BY <1>1 DEF DATA, PING, GET_OFFSETS, GET_BUILTIN_LOCATIONS, LOAD_TASK,
            START_TASK, STOP_TASK, INSPECT_TASK, GET_MEMORY, SET_MEMORY
<1>3. /\ c.type = PING => Wanted(c) = 1
      /\ c.type = GET_OFFSETS => Wanted(c) = OFFSETS_LEN
      /\ c.type = GET_BUILTIN_LOCATIONS => Wanted(c) = BUILTINS_LEN
      /\ c.type = LOAD_TASK => Wanted(c) = 0
      /\ c.type \in {START_TASK, STOP_TASK} => Wanted(c) = 0
      /\ c.type = INSPECT_TASK => Wanted(c) = INSPECT_LEN
      /\ c.type = GET_MEMORY => Wanted(c) = c.len
      /\ c.type = SET_MEMORY => Wanted(c) = 0
  BY DEF Wanted, DATA, PING, GET_OFFSETS, GET_BUILTIN_LOCATIONS, LOAD_TASK,
            START_TASK, STOP_TASK, INSPECT_TASK, GET_MEMORY, SET_MEMORY
<1> QED
  BY <1>2, <1>3, Zenon DEF ping, two, three, load, get, set

\* The length of the message of a call, its first bytes and the numbers in it.
Shaped(c, m, k) ==
    /\ c.type # DATA => k >= 2 /\ m[1] = ESC /\ m[2] = c.type
    /\ c.type = DATA => m = c.data /\ k = 1
    /\ c.type \in {GET_OFFSETS, GET_BUILTIN_LOCATIONS} => k = 2
    /\ c.type \in {PING, START_TASK, STOP_TASK, INSPECT_TASK} => k = 3
    /\ c.type = LOAD_TASK => /\ k = 7 + Len(c.data) + Len(c.heap)
                             /\ U16At(m, 4) = Len(c.data)
                             /\ U16At(m, 6) = Len(c.heap)
    /\ c.type = GET_MEMORY => /\ k = 6
                              /\ U16At(m, 3) = c.id /\ U16At(m, 5) = c.len
    /\ c.type = SET_MEMORY => /\ k = 6 + Len(c.data)
                              /\ U16At(m, 3) = c.id
                              /\ U16At(m, 5) = Len(c.data)

\* Messages have that shape.
LEMMA MessageShape ==
    ASSUME NEW S, Byte \subseteq S, NEW c \in Calls, Fits(c),
           c.type \in IdTypes => c.id \in S
    PROVE  Message(c) \in Seq(S) /\ Shaped(c, Message(c), Len(Message(c)))
<1> DEFINE m == Message(c)
           k == Len(m)
           n == Len(c.data)
           o == Len(c.heap)
<1>1. ESC \in S /\ \A t \in MessageTypes : t \in S
  <2>1. ESC \in Byte /\ \A t \in MessageTypes : t \in Byte
    BY DEF Byte, ESC, MessageTypes, IdTypes, DATA, PING, GET_OFFSETS, GET_BUILTIN_LOCATIONS, LOAD_TASK,
       START_TASK, STOP_TASK, INSPECT_TASK, GET_MEMORY, SET_MEMORY
  <2> QED
    BY <2>1
<1>2. \A x : x \in Bytes => x \in Seq(S)
  BY SeqMonotonic DEF Bytes
<1>3. /\ c.type \in MessageTypes \cup {DATA} /\ c.id \in Nat /\ c.len \in Nat
      /\ n \in Nat /\ o \in Nat
      /\ c.data \in Seq(S) /\ c.heap \in Seq(S)
      /\ c.type \in {PING, DATA} => n = 1
      /\ c.type = LOAD_TASK => n + o < WORD
      /\ c.type = GET_MEMORY => c.id < WORD /\ c.len < WORD
      /\ c.type = SET_MEMORY => c.id + n < WORD
  BY CallTypes, FitTypes, <1>2, Zenon
<1>4. ASSUME NEW x \in Nat, x < WORD
      PROVE  x % 256 \in S /\ x \div 256 \in S
  BY <1>4, Word16
<1>5. CASE c.type = DATA
  <2>1. m = c.data /\ k = 1 /\ m \in Seq(S)
    BY <1>5, <1>3, Messages, Zenon
  <2> HIDE DEF m, k
  <2>2. Shaped(c, m, k)
    BY <2>1, <1>5 DEF Shaped, DATA, PING, GET_OFFSETS, GET_BUILTIN_LOCATIONS, LOAD_TASK,
       START_TASK, STOP_TASK, INSPECT_TASK, GET_MEMORY, SET_MEMORY
  <2> QED
    BY <2>1, <2>2 DEF m, k
<1>6. CASE c.type \in {GET_OFFSETS, GET_BUILTIN_LOCATIONS}
  <2>1. m = <<ESC, c.type>> /\ c.type \in S
    BY <1>6, <1>1, Messages, Zenon DEF MessageTypes
  <2> DEFINE h == <<ESC, c.type>>
  <2>2. h \in Seq(S) /\ Len(h) = 2 /\ h[1] = ESC /\ h[2] = c.type
    BY <2>1, <1>1, Short, Zenon
  <2>3. m = h
    BY <2>1
  <2> HIDE DEF h
  <2>4. m \in Seq(S) /\ k = 2 /\ m[1] = ESC /\ m[2] = c.type
    BY <2>2, <2>3, Zenon
  <2> HIDE DEF m, k
  <2>5. ASSUME c.type = GET_OFFSETS PROVE Shaped(c, m, k)
    BY <2>4, <2>5 DEF Shaped, DATA, PING, GET_OFFSETS, GET_BUILTIN_LOCATIONS, LOAD_TASK,
       START_TASK, STOP_TASK, INSPECT_TASK, GET_MEMORY, SET_MEMORY
  <2>6. ASSUME c.type = GET_BUILTIN_LOCATIONS PROVE Shaped(c, m, k)
    BY <2>4, <2>6 DEF Shaped, DATA, PING, GET_OFFSETS, GET_BUILTIN_LOCATIONS, LOAD_TASK,
       START_TASK, STOP_TASK, INSPECT_TASK, GET_MEMORY, SET_MEMORY
  <2>7. Shaped(c, m, k)
    BY <2>5, <2>6, <1>6, Zenon
  <2> QED
    BY <2>4, <2>7 DEF m, k
<1>7. CASE c.type \in {START_TASK, STOP_TASK, INSPECT_TASK}
  <2>1. m = <<ESC, c.type, c.id>> /\ c.type \in S /\ c.id \in S
    BY <1>7, <1>1, Messages, Zenon DEF MessageTypes, IdTypes
  <2> DEFINE h == <<ESC, c.type, c.id>>
  <2>2. h \in Seq(S) /\ Len(h) = 3 /\ h[1] = ESC /\ h[2] = c.type
    BY <2>1, <1>1, Short, Zenon
  <2>3. m = h
    BY <2>1
  <2> HIDE DEF h
  <2>4. m \in Seq(S) /\ k = 3 /\ m[1] = ESC /\ m[2] = c.type
    BY <2>2, <2>3, Zenon
  <2> HIDE DEF m, k
  <2>5. ASSUME c.type = START_TASK PROVE Shaped(c, m, k)
    BY <2>4, <2>5 DEF Shaped, DATA, PING, GET_OFFSETS, GET_BUILTIN_LOCATIONS, LOAD_TASK,
       START_TASK, STOP_TASK, INSPECT_TASK, GET_MEMORY, SET_MEMORY
  <2>6. ASSUME c.type = STOP_TASK PROVE Shaped(c, m, k)
    BY <2>4, <2>6 DEF Shaped, DATA, PING, GET_OFFSETS, GET_BUILTIN_LOCATIONS, LOAD_TASK,
       START_TASK, STOP_TASK, INSPECT_TASK, GET_MEMORY, SET_MEMORY
  <2>7. ASSUME c.type = INSPECT_TASK PROVE Shaped(c, m, k)
    BY <2>4, <2>7 DEF Shaped, DATA, PING, GET_OFFSETS, GET_BUILTIN_LOCATIONS, LOAD_TASK,
       START_TASK, STOP_TASK, INSPECT_TASK, GET_MEMORY, SET_MEMORY
  <2>8. Shaped(c, m, k)
    BY <2>5, <2>6, <2>7, <1>7, Zenon
  <2> QED
    BY <2>4, <2>8 DEF m, k
<1>8. CASE c.type = PING
  <2>1. m = <<ESC, PING>> \o c.data /\ c.type \in S /\ n = 1
    BY <1>8, <1>1, <1>3, Messages, Zenon DEF MessageTypes
  <2> DEFINE h == <<ESC, PING>>
  <2>2. h \in Seq(S) /\ Len(h) = 2 /\ h[1] = ESC /\ h[2] = c.type
    BY <2>1, <1>8, <1>1, Short, Zenon
  <2> HIDE DEF h
  <2>3. /\ h \o c.data \in Seq(S) /\ Len(h \o c.data) = Len(h) + n
        /\ \A i \in 1 .. Len(h) + n :
             (h \o c.data)[i] = IF i <= Len(h) THEN h[i] ELSE c.data[i - Len(h)]
    BY <2>2, <1>3, ConcatProperties, Zenon
  <2>4. m = h \o c.data
    BY <2>1 DEF h
  <2> HIDE DEF m, k, n
  <2>5. /\ m \in Seq(S) /\ Len(m) = 3
        /\ \A i \in 1 .. 3 : i <= 2 => m[i] = h[i]
    BY <2>1, <2>2, <2>3, <2>4
  <2>6. m[1] = h[1] /\ m[2] = h[2] /\ k = 3
    BY <2>5 DEF k
  <2>7. Shaped(c, m, k)
    BY <2>2, <2>6, <1>8 DEF Shaped, DATA, PING, GET_OFFSETS, GET_BUILTIN_LOCATIONS, LOAD_TASK,
       START_TASK, STOP_TASK, INSPECT_TASK, GET_MEMORY, SET_MEMORY
  <2> QED
    BY <2>5, <2>7 DEF m, k
<1>9. CASE c.type = GET_MEMORY
  <2>1. m = <<ESC, GET_MEMORY>> \o U16(c.id) \o U16(c.len) /\ c.type \in S
    BY <1>9, <1>1, Messages, Zenon DEF MessageTypes
  <2> DEFINE h == <<ESC, GET_MEMORY>>
  <2>2. h \in Seq(S) /\ Len(h) = 2 /\ h[1] = ESC /\ h[2] = c.type
    BY <2>1, <1>9, <1>1, Short, Zenon
  <2>3. m = h \o <<c.id % 256, c.id \div 256>> \o <<c.len % 256, c.len \div 256>>
    BY <2>1 DEF U16
  <2>4. /\ c.id % 256 \in S /\ c.id \div 256 \in S
        /\ c.len % 256 \in S /\ c.len \div 256 \in S
    BY <1>3, <1>4, <1>9
  <2> HIDE DEF h, m, k
  <2>5. /\ m \in Seq(S) /\ Len(m) = 6 /\ m[1] = h[1] /\ m[2] = h[2]
        /\ m[3] = c.id % 256 /\ m[4] = c.id \div 256
        /\ m[5] = c.len % 256 /\ m[6] = c.len \div 256
    BY <2>2, <2>3, <2>4, HeaderTwo
  <2>6. U16At(m, 3) = c.id /\ U16At(m, 5) = c.len /\ k = 6
    <3>1. c.id \in Nat /\ c.id < WORD /\ c.len \in Nat /\ c.len < WORD
      BY <1>3, <1>9
    <3>2. /\ (c.id % 256) + 256 * (c.id \div 256) = c.id
          /\ (c.len % 256) + 256 * (c.len \div 256) = c.len
      BY <3>1, Word16
    <3>3. U16At(m, 3) = m[3] + 256 * m[4] /\ U16At(m, 5) = m[5] + 256 * m[6]
      BY DEF U16At
    <3>4. U16At(m, 3) = c.id
      BY <2>5, <3>2, <3>3, Zenon
    <3>5. U16At(m, 5) = c.len
      BY <2>5, <3>2, <3>3, Zenon
    <3>6. k = 6
      BY <2>5, Zenon DEF k
    <3> QED
      BY <3>4, <3>5, <3>6, Zenon
  <2>7. Shaped(c, m, k)
    BY <2>2, <2>5, <2>6, <1>9 DEF Shaped, DATA, PING, GET_OFFSETS, GET_BUILTIN_LOCATIONS, LOAD_TASK,
       START_TASK, STOP_TASK, INSPECT_TASK, GET_MEMORY, SET_MEMORY
  <2> QED
    BY <2>5, <2>7 DEF m, k
<1>10. CASE c.type = SET_MEMORY
  <2>1. /\ m = <<ESC, SET_MEMORY>> \o U16(c.id) \o U16(Len(c.data)) \o c.data
        /\ c.type \in S
    BY <1>10, <1>1, Messages, Zenon DEF MessageTypes
  <2> DEFINE h == <<ESC, SET_MEMORY>>
             g == h \o <<c.id % 256, c.id \div 256>> \o <<n % 256, n \div 256>>
  <2>2. h \in Seq(S) /\ Len(h) = 2 /\ h[1] = ESC /\ h[2] = c.type
    BY <2>1, <1>10, <1>1, Short, Zenon
  <2>3. m = g \o c.data
    BY <2>1 DEF U16
  <2> HIDE DEF h, m, k, n
  <2>4. /\ c.id \in Nat /\ c.id < WORD /\ n \in Nat /\ n < WORD
    BY <1>3, <1>10 DEF WORD
  <2>5. /\ c.id % 256 \in S /\ c.id \div 256 \in S
        /\ n % 256 \in S /\ n \div 256 \in S
    BY <1>4, <2>4
  <2>6. /\ g \in Seq(S) /\ Len(g) = 6 /\ g[1] = h[1] /\ g[2] = h[2]
        /\ g[3] = c.id % 256 /\ g[4] = c.id \div 256
        /\ g[5] = n % 256 /\ g[6] = n \div 256
    BY <2>2, <2>5, HeaderTwo
  <2> HIDE DEF g
  <2>7. m \in Seq(S) /\ k = 6 + n /\ \A i \in 1 .. 6 : m[i] = g[i]
    <3>1. /\ g \o c.data \in Seq(S)
          /\ Len(g \o c.data) = Len(g) + n
          /\ \A i \in 1 .. Len(g) + n :
               (g \o c.data)[i] = IF i <= Len(g) THEN g[i] ELSE c.data[i - Len(g)]
      <4>1. g \in Seq(S) /\ c.data \in Seq(S)
        BY <2>6, <1>3
      <4> QED
        BY <4>1, ConcatProperties DEF n
    <3>2. /\ m \in Seq(S) /\ k = Len(g) + n
          /\ \A i \in 1 .. Len(g) + n : i <= Len(g) => m[i] = g[i]
      BY <3>1, <2>3 DEF k
    <3> QED
      BY <3>2, <2>4, <2>6
  <2>8. /\ m[1] = g[1] /\ m[2] = g[2]
        /\ m[3] = c.id % 256 /\ m[4] = c.id \div 256
        /\ m[5] = n % 256 /\ m[6] = n \div 256
    BY <2>6, <2>7
  <2>9. U16At(m, 3) = c.id /\ U16At(m, 5) = n
    <3>1. /\ (c.id % 256) + 256 * (c.id \div 256) = c.id
          /\ (n % 256) + 256 * (n \div 256) = n
      BY <2>4, Word16
    <3>2. U16At(m, 3) = m[3] + 256 * m[4] /\ U16At(m, 5) = m[5] + 256 * m[6]
      BY DEF U16At
    <3> QED
      BY <3>1, <3>2, <2>8, Zenon
  <2>10. k >= 2
    BY <2>7, <2>4
  <2>11. m[1] = ESC /\ m[2] = c.type
    BY <2>2, <2>6, <2>8, Zenon
  <2>12. Shaped(c, m, k)
    BY <2>7, <2>9, <2>10, <2>11, <1>10 DEF Shaped, n, DATA, PING, GET_OFFSETS, GET_BUILTIN_LOCATIONS, LOAD_TASK,
       START_TASK, STOP_TASK, INSPECT_TASK, GET_MEMORY, SET_MEMORY
  <2> QED
    BY <2>7, <2>12 DEF m, k
<1>11. CASE c.type = LOAD_TASK
  <2>1. /\ m = <<ESC, LOAD_TASK, c.id>>
                \o U16(Len(c.data)) \o U16(Len(c.heap)) \o c.data \o c.heap
        /\ c.type \in S /\ c.id \in S
    BY <1>11, <1>1, Messages, Zenon DEF MessageTypes, IdTypes
  <2> DEFINE h == <<ESC, LOAD_TASK, c.id>>
             g == h \o <<n % 256, n \div 256>> \o <<o % 256, o \div 256>>
  <2>2. h \in Seq(S) /\ Len(h) = 3 /\ h[1] = ESC /\ h[2] = c.type
    BY <2>1, <1>11, <1>1, Short, Zenon
  <2>3. m = g \o c.data \o c.heap
    BY <2>1 DEF U16
  <2> HIDE DEF h, m, k, n, o
  <2>4. /\ n \in Nat /\ n < WORD /\ o \in Nat /\ o < WORD
    BY <1>3, <1>11 DEF WORD
  <2>5. /\ n % 256 \in S /\ n \div 256 \in S
        /\ o % 256 \in S /\ o \div 256 \in S
    BY <1>4, <2>4
  <2>6. /\ g \in Seq(S) /\ Len(g) = 7 /\ g[1] = h[1] /\ g[2] = h[2]
        /\ g[4] = n % 256 /\ g[5] = n \div 256
        /\ g[6] = o % 256 /\ g[7] = o \div 256
    BY <2>2, <2>5, HeaderThree
  <2> HIDE DEF g
  <2>7. m \in Seq(S) /\ k = 7 + n + o /\ \A i \in 1 .. 7 : m[i] = g[i]
    <3> DEFINE x == c.data
               y == c.heap
    <3>1. /\ g \o x \o y \in Seq(S) /\ Len(g \o x \o y) = Len(g) + Len(x) + Len(y)
          /\ \A i \in 1 .. Len(g) : (g \o x \o y)[i] = g[i]
      <4>1. g \in Seq(S) /\ x \in Seq(S) /\ y \in Seq(S)
        BY <2>6, <1>3
      <4> HIDE DEF x, y
      <4> QED
        BY <4>1, Begins
    <3>2. /\ m \in Seq(S) /\ k = Len(g) + n + o
          /\ \A i \in 1 .. Len(g) : m[i] = g[i]
      BY <3>1, <2>3, Zenon DEF k, n, o
    <3> QED
      BY <3>2, <2>4, <2>6
  <2>8. /\ m[1] = g[1] /\ m[2] = g[2]
        /\ m[4] = n % 256 /\ m[5] = n \div 256
        /\ m[6] = o % 256 /\ m[7] = o \div 256
    BY <2>6, <2>7
  <2>9. U16At(m, 4) = n /\ U16At(m, 6) = o
    <3>1. /\ (n % 256) + 256 * (n \div 256) = n
          /\ (o % 256) + 256 * (o \div 256) = o
      BY <2>4, Word16
    <3>2. U16At(m, 4) = m[4] + 256 * m[5] /\ U16At(m, 6) = m[6] + 256 * m[7]
      BY DEF U16At
    <3> QED
      BY <3>1, <3>2, <2>8, Zenon
  <2>10. k >= 2
    BY <2>7, <2>4
  <2>11. m[1] = ESC /\ m[2] = c.type
    BY <2>2, <2>6, <2>8, Zenon
  <2>12. Shaped(c, m, k)
    <3>1. c.type \notin {DATA, GET_OFFSETS, GET_BUILTIN_LOCATIONS, PING, START_TASK,
                         STOP_TASK, INSPECT_TASK, GET_MEMORY, SET_MEMORY}
      BY <1>11 DEF DATA, PING, GET_OFFSETS, GET_BUILTIN_LOCATIONS, LOAD_TASK,
          START_TASK, STOP_TASK, INSPECT_TASK, GET_MEMORY, SET_MEMORY
    <3> QED
      BY <3>1, <2>7, <2>9, <2>10, <2>11, Zenon DEF Shaped, n, o
  <2> QED
    BY <2>7, <2>12 DEF m, k
<1> QED
  BY <1>3, <1>5, <1>6, <1>7, <1>8, <1>9, <1>10, <1>11, Zenon
     DEF MessageTypes, IdTypes

\* The messages of calls whose ids fit a byte are what the handler expects,
\* and so is whatever is typed but the escape byte.
LEMMA MessageProper ==
    ASSUME NEW c \in Calls, Fits(c), c.type \in IdTypes => c.id <= 255,
           ~(c.type = DATA /\ c.data = <<ESC>>)
    PROVE  Proper(Message(c))
<1> DEFINE m == Message(c)
           k == Len(m)
           n == Len(c.data)
           o == Len(c.heap)
<1>1. m \in Bytes /\ Shaped(c, m, k)
  <2>1. c.type \in IdTypes => c.id \in Byte
    <3>1. c.id \in Nat
      BY CallTypes
    <3> QED
      BY <3>1 DEF Byte
  <2> QED
    BY <2>1, MessageShape DEF Bytes
<1>2. /\ c.type \in MessageTypes \cup {DATA} /\ n \in Nat /\ o \in Nat
      /\ c.id \in Nat /\ c.len \in Nat
      /\ c.type = LOAD_TASK => n + o < WORD
      /\ c.type = GET_MEMORY => c.id < WORD /\ c.len < WORD
      /\ c.type = SET_MEMORY => c.id + n < WORD
  BY CallTypes, FitTypes, Zenon
<1>3. c.type = DATA => m[1] # ESC
  <2>1. SUFFICES ASSUME c.type = DATA, m[1] = ESC PROVE FALSE
    OBVIOUS
  <2>2. m = c.data /\ k = 1
    BY <1>1, <2>1 DEF Shaped
  <2>3. <<ESC>> \in Bytes /\ Len(<<ESC>>) = 1 /\ <<ESC>>[1] = ESC
    BY DEF Bytes, Byte, ESC
  <2>4. \A i \in 1 .. Len(m) : m[i] = <<ESC>>[i]
    BY <2>1, <2>2, <2>3
  <2>5. m = <<ESC>>
    BY <1>1, <2>2, <2>3, <2>4, SeqEqual, Zenon DEF Bytes
  <2> QED
    BY <2>1, <2>2, <2>5
<1> HIDE DEF m, k, n, o
<1>4. Shaped(c, m, k) <=>
        /\ c.type # DATA => k >= 2 /\ m[1] = ESC /\ m[2] = c.type
        /\ c.type = DATA => m = c.data /\ k = 1
        /\ c.type \in {GET_OFFSETS, GET_BUILTIN_LOCATIONS} => k = 2
        /\ c.type \in {PING, START_TASK, STOP_TASK, INSPECT_TASK} => k = 3
        /\ c.type = LOAD_TASK => /\ k = 7 + n + o
                                 /\ U16At(m, 4) = n /\ U16At(m, 6) = o
        /\ c.type = GET_MEMORY =>
             k = 6 /\ U16At(m, 3) = c.id /\ U16At(m, 5) = c.len
        /\ c.type = SET_MEMORY =>
             k = 6 + n /\ U16At(m, 3) = c.id /\ U16At(m, 5) = n
  BY Zenon DEF Shaped, n, o
<1>5. Proper(m) <=>
        /\ m \in Bytes /\ k >= 1
        /\ \/ k = 1 /\ m[1] # ESC
           \/ /\ m[1] = ESC /\ k >= 2
              /\ \/ k = 2 /\ m[2] \in {GET_OFFSETS, GET_BUILTIN_LOCATIONS}
                 \/ k = 3 /\ m[2] \in {PING, START_TASK, STOP_TASK, INSPECT_TASK}
                 \/ /\ m[2] = LOAD_TASK /\ k >= 7
                    /\ k = 7 + U16At(m, 4) + U16At(m, 6)
                    /\ U16At(m, 4) + U16At(m, 6) < WORD
                 \/ m[2] = GET_MEMORY /\ k = 6
                 \/ /\ m[2] = SET_MEMORY /\ k >= 6
                    /\ k = 6 + U16At(m, 5)
                    /\ U16At(m, 3) + U16At(m, 5) < WORD
  BY Zenon DEF Proper, k
<1>6. Proper(m)
  <2>1. CASE c.type = DATA
    BY <2>1, <1>1, <1>3, <1>4, <1>5
  <2>2. CASE c.type \in {GET_OFFSETS, GET_BUILTIN_LOCATIONS}
    <3>1. c.type # DATA
      BY <2>2 DEF DATA, GET_OFFSETS, GET_BUILTIN_LOCATIONS
    <3> QED
      BY <2>2, <3>1, <1>1, <1>4, <1>5
  <2>3. CASE c.type \in {PING, START_TASK, STOP_TASK, INSPECT_TASK}
    <3>1. c.type # DATA
      BY <2>3 DEF DATA, PING, START_TASK, STOP_TASK, INSPECT_TASK
    <3> QED
      BY <2>3, <3>1, <1>1, <1>4, <1>5
  <2>4. CASE c.type = LOAD_TASK
    <3>1. c.type # DATA
      BY <2>4 DEF DATA, LOAD_TASK
    <3> QED
      BY <2>4, <3>1, <1>1, <1>2, <1>4, <1>5
  <2>5. CASE c.type = GET_MEMORY
    <3>1. c.type # DATA
      BY <2>5 DEF DATA, GET_MEMORY
    <3> QED
      BY <2>5, <3>1, <1>1, <1>4, <1>5
  <2>6. CASE c.type = SET_MEMORY
    <3>1. c.type # DATA
      BY <2>6 DEF DATA, SET_MEMORY
    <3> QED
      BY <2>6, <3>1, <1>1, <1>2, <1>4, <1>5
  <2> QED
    BY <1>2, <2>1, <2>2, <2>3, <2>4, <2>5, <2>6, Zenon DEF MessageTypes, IdTypes
<1> QED
  BY <1>6 DEF m

\* The board answers a call with no more than the call reads.
LEMMA ReplyWanted ==
    ASSUME NEW c \in Calls, Fits(c), c.type \in IdTypes => c.id <= 255,
           c.type # DATA
    PROVE  ReplyLen(Message(c)) \in Nat /\ ReplyLen(Message(c)) <= Wanted(c)
<1> DEFINE m == Message(c)
<1>1. m[1] = ESC /\ m[2] = c.type /\ (c.type = GET_MEMORY => U16At(m, 5) = c.len)
  <2>1. c.type \in IdTypes => c.id \in Byte
    <3>1. c.id \in Nat
      BY CallTypes
    <3> QED
      BY <3>1 DEF Byte
  <2> QED
    BY <2>1, MessageShape DEF Shaped
<1>2. /\ c.type \in MessageTypes /\ c.len \in Nat
  BY CallTypes, Zenon
<1> HIDE DEF m
<1>3. c.type = GET_MEMORY => Range16(m) \in Nat /\ Range16(m) <= c.len
  BY <1>1, <1>2 DEF Range16
<1>4. /\ c.type = PING => Wanted(c) = 1
      /\ c.type = GET_OFFSETS => Wanted(c) = OFFSETS_LEN
      /\ c.type = GET_BUILTIN_LOCATIONS => Wanted(c) = BUILTINS_LEN
      /\ c.type = LOAD_TASK => Wanted(c) = 0
      /\ c.type \in {START_TASK, STOP_TASK} => Wanted(c) = 0
      /\ c.type = INSPECT_TASK => Wanted(c) = INSPECT_LEN
      /\ c.type = GET_MEMORY => Wanted(c) = c.len
      /\ c.type = SET_MEMORY => Wanted(c) = 0
  BY Messages, Zenon
<1>5. /\ c.type = PING => ReplyLen(m) = 1
      /\ c.type = GET_OFFSETS => ReplyLen(m) = OFFSETS_LEN
      /\ c.type = GET_BUILTIN_LOCATIONS => ReplyLen(m) = BUILTINS_LEN
      /\ c.type = LOAD_TASK => ReplyLen(m) = 0
      /\ c.type \in {START_TASK, STOP_TASK} => ReplyLen(m) = 0
      /\ c.type = INSPECT_TASK => ReplyLen(m) = INSPECT_LEN
      /\ c.type = GET_MEMORY => ReplyLen(m) = Range16(m)
      /\ c.type = SET_MEMORY => ReplyLen(m) = 0
  BY <1>1 DEF ReplyLen, ESC, DATA, PING, GET_OFFSETS, GET_BUILTIN_LOCATIONS, LOAD_TASK,
       START_TASK, STOP_TASK, INSPECT_TASK, GET_MEMORY, SET_MEMORY
<1>6. ReplyLen(m) \in Nat /\ ReplyLen(m) <= Wanted(c)
  <2>1. CASE c.type = GET_MEMORY
    BY <2>1, <1>3, <1>4, <1>5
  <2>2. CASE c.type \in {PING, GET_OFFSETS, GET_BUILTIN_LOCATIONS, INSPECT_TASK}
    BY <2>2, <1>4, <1>5, Sizes
  <2>3. CASE c.type \in {LOAD_TASK, START_TASK, STOP_TASK, SET_MEMORY}
    BY <2>3, <1>4, <1>5
  <2> QED
    BY <1>2, <2>1, <2>2, <2>3, Zenon DEF MessageTypes, IdTypes
<1> QED
  BY <1>6 DEF m

\* A call reads its answer in one part or two.
LEMMA Parts ==
    ASSUME NEW c \in Calls, c.type # DATA
    PROVE  /\ Wanted(c) \in Nat /\ First(c) \in Nat
           /\ Wanted(c) - First(c) \in Nat
           /\ First(c) + (Wanted(c) - First(c)) = Wanted(c)
           /\ Wanted(c) > 0 => First(c) > 0
<1>1. c.type \in MessageTypes \cup {DATA} /\ c.len \in Nat
  BY CallTypes, Zenon
<1>2. Wanted(c) \in Nat
  <2>1. 0 \in Nat /\ 1 \in Nat
    OBVIOUS
  <2> QED
    BY <1>1, <2>1, Messages, Sizes, Zenon DEF MessageTypes, IdTypes
<1>3. /\ c.type = GET_BUILTIN_LOCATIONS =>
           First(c) = COUNT_LEN /\ Wanted(c) = BUILTINS_LEN
      /\ c.type = INSPECT_TASK => First(c) = SIZES_LEN /\ Wanted(c) = INSPECT_LEN
      /\ c.type \notin {GET_BUILTIN_LOCATIONS, INSPECT_TASK} =>
           First(c) = Wanted(c)
  <2>1. /\ c.type = GET_BUILTIN_LOCATIONS => Wanted(c) = BUILTINS_LEN
        /\ c.type = INSPECT_TASK => Wanted(c) = INSPECT_LEN
    BY Messages, Zenon
  <2> QED
    BY <2>1 DEF First, GET_BUILTIN_LOCATIONS, INSPECT_TASK
<1> DEFINE w == Wanted(c)
           f == First(c)
<1> HIDE DEF w, f
<1>4. /\ w \in Nat /\ f \in Nat /\ w - f \in Nat /\ f + (w - f) = w
      /\ w > 0 => f > 0
  <2>1. CASE f = COUNT_LEN /\ w = BUILTINS_LEN
    BY <2>1, Sizes
  <2>2. CASE f = SIZES_LEN /\ w = INSPECT_LEN
    BY <2>2, Sizes
  <2>3. CASE f = w
    BY <2>3, <1>2 DEF w
  <2> QED
    BY <1>3, <2>1, <2>2, <2>3 DEF w, f
<1> QED
  BY <1>4 DEF w, f

\* The length of an answer is a number.
LEMMA ReplyNat ==
    ASSUME NEW m \in Bytes, m # <<>>, Complete(m)
    PROVE  ReplyLen(m) \in Nat
<1> DEFINE k == Len(m)
<1>1. k \in Nat /\ \A i \in 1 .. k : m[i] \in Nat
  BY BytesType
<1>2. m[1] = ESC /\ m[2] = GET_MEMORY => k = 6
  <2>1. Complete(m) <=>
          \/ m[1] # ESC
          \/ k = 2 /\ m[2] \in {ESC, GET_OFFSETS, GET_BUILTIN_LOCATIONS}
          \/ k = 3 /\ m[2] \in {PING, START_TASK, STOP_TASK, INSPECT_TASK}
          \/ k >= 7 /\ m[2] = LOAD_TASK /\ k = 7 + LoadLen(m)
          \/ k = 6 /\ m[2] = GET_MEMORY
          \/ k >= 6 /\ m[2] = SET_MEMORY /\ k = 6 + Range16(m)
    BY Zenon DEF Complete
  <2> HIDE DEF k
  <2> QED
    BY <2>1 DEF ESC, DATA, PING, GET_OFFSETS, GET_BUILTIN_LOCATIONS, LOAD_TASK,
       START_TASK, STOP_TASK, INSPECT_TASK, GET_MEMORY, SET_MEMORY
<1> HIDE DEF k
<1>3. m[1] = ESC /\ m[2] = GET_MEMORY => Range16(m) \in Nat
  <2>1. SUFFICES ASSUME k = 6 PROVE Range16(m) \in Nat
    BY <1>2
  <2>2. m[5] \in Nat /\ m[6] \in Nat
    BY <1>1, <2>1
  <2>3. U16At(m, 5) \in Nat
    <3>1. U16At(m, 5) = m[5] + 256 * m[6]
      BY DEF U16At
    <3> QED
      BY <2>2, <3>1, TwoBytes
  <2> QED
    BY <2>3 DEF Range16
<1>4. m[1] # ESC \/ m[2] = ESC => ReplyLen(m) = GOT_LEN
  BY DEF ReplyLen
<1>5. ASSUME m[1] = ESC, m[2] # ESC
      PROVE  /\ m[2] = PING => ReplyLen(m) = 1
             /\ m[2] = GET_OFFSETS => ReplyLen(m) = OFFSETS_LEN
             /\ m[2] = GET_BUILTIN_LOCATIONS => ReplyLen(m) = BUILTINS_LEN
             /\ m[2] = INSPECT_TASK => ReplyLen(m) = INSPECT_LEN
             /\ m[2] = GET_MEMORY => ReplyLen(m) = Range16(m)
             /\ m[2] \notin {PING, GET_OFFSETS, GET_BUILTIN_LOCATIONS, INSPECT_TASK,
                           GET_MEMORY} => ReplyLen(m) = 0
  BY <1>5 DEF ReplyLen, DATA, PING, GET_OFFSETS, GET_BUILTIN_LOCATIONS, LOAD_TASK,
       START_TASK, STOP_TASK, INSPECT_TASK, GET_MEMORY, SET_MEMORY
<1>6. CASE m[1] # ESC \/ m[2] = ESC
  BY <1>4, <1>6, Sizes
<1>7. CASE m[1] = ESC /\ m[2] # ESC
  <2>1. 0 \in Nat /\ 1 \in Nat
    OBVIOUS
  <2> QED
    BY <2>1, <1>3, <1>5, <1>7, Sizes, Zenon
<1> QED
  BY <1>6, <1>7, Zenon

-----------------------------------------------------------------------------
(* Bytes under way                                                         *)

\* The bytes b are the messages h + 1 .. n of s one behind the other: message
\* k ends where e says, counted from any place.
Marks(e, s, h, n, b) ==
    /\ e \in [0 .. n -> Nat]
    /\ \A j, k \in h .. n : j <= k => e[j] <= e[k]
    /\ e[n] = e[h] + Len(b)
    /\ \A k \in h + 1 .. n : e[k] = e[k - 1] + Len(s[k])
    /\ \A k \in h + 1 .. n : \A i \in 1 .. Len(s[k]) :
         b[e[k - 1] - e[h] + i] = s[k][i]

\* The bytes under way begin with the first of the messages.
LEMMA MarksFirst ==
    ASSUME NEW e, NEW s, NEW n \in Nat, NEW h \in 0 .. n, NEW b \in Bytes,
           Marks(e, s, h, n, b), \A k \in 1 .. n : Len(s[k]) \in Nat
    PROVE  /\ h < n => /\ Len(s[h + 1]) <= Len(b)
                       /\ \A i \in 1 .. Len(s[h + 1]) : b[i] = s[h + 1][i]
           /\ h = n => b = <<>>
<1> DEFINE L == Len(b)
           l(k) == Len(s[k])
<1>1. L \in Nat /\ (b # <<>> => L >= 1)
  BY BytesType
<1>2. /\ e \in [0 .. n -> Nat]
      /\ \A j, k \in h .. n : j <= k => e[j] <= e[k]
      /\ e[n] = e[h] + L
      /\ \A k \in h + 1 .. n : e[k] = e[k - 1] + l(k)
      /\ \A k \in h + 1 .. n : \A i \in 1 .. l(k) :
           b[e[k - 1] - e[h] + i] = s[k][i]
      /\ \A k \in 1 .. n : l(k) \in Nat
  BY DEF Marks
<1> HIDE DEF L, l
<1>3. e[h] \in Nat /\ e[n] \in Nat
  BY <1>2
<1>4. ASSUME h < n
      PROVE  l(h + 1) <= L /\ \A i \in 1 .. l(h + 1) : b[i] = s[h + 1][i]
  <2>1. h + 1 \in h + 1 .. n /\ h + 1 \in h .. n /\ n \in h .. n
        /\ h + 1 - 1 = h /\ h + 1 \in 1 .. n /\ h + 1 <= n
    BY <1>4
  <2>2. e[h + 1] = e[h] + l(h + 1) /\ e[h + 1] <= e[n] /\ l(h + 1) \in Nat
    <3>1. e[h + 1] = e[h + 1 - 1] + l(h + 1)
      BY <2>1, <1>2
    <3>2. e[h + 1] <= e[n]
      BY <2>1, <1>2
    <3>3. l(h + 1) \in Nat
      BY <2>1, <1>2
    <3> QED
      BY <2>1, <3>1, <3>2, <3>3
  <2>3. l(h + 1) <= L
    BY <2>2, <1>1, <1>2, <1>3
  <2>4. ASSUME NEW i \in 1 .. l(h + 1) PROVE b[i] = s[h + 1][i]
    <3>1. b[e[h + 1 - 1] - e[h] + i] = s[h + 1][i]
      BY <2>1, <1>2
    <3>2. e[h + 1 - 1] - e[h] + i = i
      BY <2>1, <2>2, <1>3
    <3> QED
      BY <3>1, <3>2
  <2> QED
    BY <2>3, <2>4
<1>5. h = n => b = <<>>
  BY <1>1, <1>2, <1>3
<1> QED
  BY <1>4, <1>5 DEF L, l

\* A byte of a message is within the bytes of all of them.
LEMMA Within ==
    ASSUME NEW i \in Nat, NEW l \in Nat, NEW p \in Nat, NEW q \in Nat,
           NEW y \in Nat, NEW z \in Nat, NEW L \in Nat,
           1 <= i, i <= l, q = p + l, y <= p, q <= z, z = y + L
    PROVE  p - y + i \in Nat /\ 1 <= p - y + i /\ p - y + i <= L
OBVIOUS

\* Another message goes to the end.
LEMMA MarksAdd ==
    ASSUME NEW e, NEW s, NEW t, NEW n \in Nat, NEW h \in 0 .. n,
           NEW b \in Bytes, NEW m \in Bytes, Marks(e, s, h, n, b),
           \A k \in 1 .. n : Len(s[k]) \in Nat /\ t[k] = s[k], t[n + 1] = m
    PROVE  \E f : Marks(f, t, h, n + 1, b \o m)
<1> DEFINE L == Len(b)
           M == Len(m)
           c == b \o m
           l(k) == Len(t[k])
           f == [k \in 0 .. n + 1 |-> IF k <= n THEN e[k] ELSE e[n] + M]
<1>1. L \in Nat /\ M \in Nat
  BY BytesType
<1>2. /\ Len(c) = L + M
      /\ \A i \in 1 .. L + M : c[i] = IF i <= L THEN b[i] ELSE m[i - L]
  BY BytesConcat
<1>3. /\ e \in [0 .. n -> Nat]
      /\ \A j, k \in h .. n : j <= k => e[j] <= e[k]
      /\ e[n] = e[h] + L
      /\ \A k \in h + 1 .. n : e[k] = e[k - 1] + l(k)
      /\ \A k \in h + 1 .. n : \A i \in 1 .. l(k) :
           b[e[k - 1] - e[h] + i] = t[k][i]
      /\ \A k \in 1 .. n : l(k) \in Nat
      /\ l(n + 1) = M /\ t[n + 1] = m
  <2>1. \A k \in 1 .. n : t[k] = s[k] /\ Len(s[k]) \in Nat
    OBVIOUS
  <2>2. \A k \in h + 1 .. n : t[k] = s[k]
    BY <2>1
  <2>3. /\ \A k \in h + 1 .. n : e[k] = e[k - 1] + Len(s[k])
        /\ \A k \in h + 1 .. n : \A i \in 1 .. Len(s[k]) :
             b[e[k - 1] - e[h] + i] = s[k][i]
    BY DEF Marks
  <2>4. \A k \in h + 1 .. n : e[k] = e[k - 1] + l(k)
    BY <2>2, <2>3
  <2>5. ASSUME NEW k \in h + 1 .. n, NEW i \in 1 .. l(k)
        PROVE  b[e[k - 1] - e[h] + i] = t[k][i]
    BY <2>2, <2>3, <2>5, Zenon
  <2>6. /\ e \in [0 .. n -> Nat]
        /\ \A j, k \in h .. n : j <= k => e[j] <= e[k]
        /\ e[n] = e[h] + L
    BY DEF Marks
  <2>7. \A k \in 1 .. n : l(k) \in Nat
    BY <2>1
  <2> QED
    BY <2>4, <2>5, <2>6, <2>7
<1> HIDE DEF L, M, c, l
<1>4. /\ f \in [0 .. n + 1 -> Nat]
      /\ \A k \in 0 .. n : f[k] = e[k]
      /\ f[n + 1] = e[n] + M
  BY <1>1, <1>3
<1>5. \A k \in 0 .. n : e[k] \in Nat
  BY <1>3
<1> HIDE DEF f
<1>6. \A j, k \in h .. n + 1 : j <= k => f[j] <= f[k]
  <2>1. SUFFICES ASSUME NEW j \in h .. n + 1, NEW k \in h .. n + 1, j <= k
                 PROVE  f[j] <= f[k]
    OBVIOUS
  <2>2. CASE k <= n
    <3>1. j \in h .. n /\ k \in h .. n /\ j \in 0 .. n /\ k \in 0 .. n
      BY <2>1, <2>2
    <3> QED
      BY <3>1, <2>1, <1>3, <1>4
  <2>3. CASE k = n + 1 /\ j <= n
    <3>1. j \in h .. n /\ n \in h .. n /\ j \in 0 .. n /\ n \in 0 .. n
      BY <2>3
    <3>2. e[j] <= e[n] /\ f[j] = e[j] /\ e[j] \in Nat /\ e[n] \in Nat
      BY <3>1, <2>3, <1>3, <1>4, <1>5
    <3> QED
      BY <3>2, <2>3, <1>1, <1>4
  <2>4. CASE k = n + 1 /\ j = n + 1
    <3>1. f[k] \in Nat
      BY <1>4, <2>4
    <3> QED
      BY <3>1, <2>4
  <2> QED
    BY <2>1, <2>2, <2>3, <2>4
<1>7. f[n + 1] = f[h] + Len(c)
  <2>1. f[h] = e[h] /\ e[h] \in Nat /\ e[n] \in Nat
    BY <1>4, <1>5
  <2> QED
    BY <2>1, <1>1, <1>2, <1>3, <1>4
<1>8. ASSUME NEW k \in h + 1 .. n + 1 PROVE f[k] = f[k - 1] + l(k)
  <2>1. CASE k <= n
    <3>1. k \in h + 1 .. n /\ k \in 0 .. n /\ k - 1 \in 0 .. n
      BY <2>1
    <3>2. e[k] = e[k - 1] + l(k)
      BY <3>1, <1>3
    <3> QED
      BY <3>1, <3>2, <1>4
  <2>2. CASE k = n + 1
    <3>1. k - 1 = n /\ n \in 0 .. n
      BY <2>2
    <3>2. f[k - 1] = e[n]
      BY <3>1, <1>4
    <3> QED
      BY <2>2, <3>2, <1>3, <1>4
  <2> QED
    BY <2>1, <2>2
<1>9. ASSUME NEW k \in h + 1 .. n + 1, NEW i \in 1 .. l(k)
      PROVE  c[f[k - 1] - f[h] + i] = t[k][i]
  <2>0. f[h] = e[h] /\ e[h] \in Nat /\ e[n] \in Nat
    BY <1>4, <1>5
  <2>1. CASE k <= n
    <3>1. /\ k \in h + 1 .. n /\ k \in 1 .. n /\ k - 1 \in 0 .. n
          /\ k - 1 \in h .. n /\ k \in h .. n /\ h \in h .. n /\ n \in h .. n
          /\ k \in 0 .. n
      BY <2>1
    <3>2. /\ e[k] = e[k - 1] + l(k) /\ l(k) \in Nat
          /\ e[h] <= e[k - 1] /\ e[k] <= e[n]
          /\ e[k - 1] \in Nat /\ e[k] \in Nat /\ f[k - 1] = e[k - 1]
      <4>1. e[k] = e[k - 1] + l(k) /\ l(k) \in Nat
        BY <3>1, <1>3
      <4>2. e[h] <= e[k - 1] /\ e[k] <= e[n]
        BY <3>1, <1>3
      <4>3. e[k - 1] \in Nat /\ e[k] \in Nat /\ f[k - 1] = e[k - 1]
        BY <3>1, <1>4, <1>5
      <4> QED
        BY <4>1, <4>2, <4>3
    <3>3. b[e[k - 1] - e[h] + i] = t[k][i]
      BY <3>1, <1>3
    <3> DEFINE x == e[k - 1] - e[h] + i
    <3>4. x \in 1 .. L + M /\ x <= L
      <4>1. i \in Nat /\ 1 <= i /\ i <= l(k)
        BY <3>2
      <4>2. x \in Nat /\ 1 <= x /\ x <= L
        BY <4>1, <3>2, <2>0, <1>1, <1>3, Within
      <4> HIDE DEF x
      <4> QED
        BY <4>2, <1>1
    <3>5. f[k - 1] - f[h] + i = x
      BY <3>2, <2>0
    <3> HIDE DEF x
    <3>6. c[x] = b[x]
      BY <3>4, <1>2
    <3> QED
      BY <3>3, <3>5, <3>6 DEF x
  <2>2. CASE k = n + 1
    <3>1. f[k - 1] = e[n] /\ l(k) = M /\ t[k] = m
      BY <2>2, <1>3, <1>4
    <3> DEFINE x == L + i
    <3>2. f[k - 1] - f[h] + i = x /\ i \in 1 .. M
      BY <3>1, <2>0, <1>1, <1>3
    <3>3. x \in 1 .. L + M /\ ~(x <= L) /\ x - L = i
      BY <3>2, <1>1
    <3> HIDE DEF x
    <3>4. c[x] = m[x - L]
      BY <3>3, <1>2
    <3> QED
      BY <3>1, <3>2, <3>3, <3>4
  <2> QED
    BY <2>1, <2>2
<1>10. Marks(f, t, h, n + 1, c)
  BY <1>4, <1>6, <1>7, <1>8, <1>9 DEF Marks, l
<1> QED
  BY <1>10 DEF c

\* The first message is gone.
LEMMA MarksDrop ==
    ASSUME NEW e, NEW s, NEW n \in Nat, NEW h \in 0 .. n, h < n,
           NEW b \in Bytes, NEW c \in Bytes, Marks(e, s, h, n, b),
           \A k \in 1 .. n : Len(s[k]) \in Nat,
           Len(b) = Len(s[h + 1]) + Len(c),
           \A i \in 1 .. Len(c) : b[Len(s[h + 1]) + i] = c[i]
    PROVE  Marks(e, s, h + 1, n, c)
<1> DEFINE L == Len(b)
           C == Len(c)
           l(k) == Len(s[k])
<1>1. L \in Nat /\ C \in Nat
  BY BytesType
<1>2. /\ e \in [0 .. n -> Nat]
      /\ \A j, k \in h .. n : j <= k => e[j] <= e[k]
      /\ e[n] = e[h] + L
      /\ \A k \in h + 1 .. n : e[k] = e[k - 1] + l(k)
      /\ \A k \in h + 1 .. n : \A i \in 1 .. l(k) :
           b[e[k - 1] - e[h] + i] = s[k][i]
      /\ \A k \in 1 .. n : l(k) \in Nat
      /\ L = l(h + 1) + C
      /\ \A i \in 1 .. C : b[l(h + 1) + i] = c[i]
  BY DEF Marks
<1> HIDE DEF L, C, l
<1>3. \A k \in 0 .. n : e[k] \in Nat
  BY <1>2
<1>4. e[h + 1] = e[h] + l(h + 1) /\ e[h] \in Nat /\ l(h + 1) \in Nat
      /\ e[n] \in Nat
  <2>1. h + 1 \in h + 1 .. n /\ h + 1 - 1 = h /\ h + 1 \in 1 .. n
    OBVIOUS
  <2>2. e[h + 1] = e[h + 1 - 1] + l(h + 1)
    BY <2>1, <1>2
  <2> QED
    BY <2>1, <2>2, <1>2, <1>3
<1>5. e[n] = e[h + 1] + C
  BY <1>1, <1>2, <1>4
<1>6. \A j, k \in h + 1 .. n : j <= k => e[j] <= e[k]
  BY <1>2
<1>7. \A k \in h + 1 + 1 .. n : e[k] = e[k - 1] + l(k)
  BY <1>2
<1>8. ASSUME NEW k \in h + 1 + 1 .. n, NEW i \in 1 .. l(k)
      PROVE  c[e[k - 1] - e[h + 1] + i] = s[k][i]
  <2>1. /\ k \in h + 1 .. n /\ k \in 1 .. n /\ k - 1 \in 0 .. n /\ k \in 0 .. n
        /\ k - 1 \in h + 1 .. n /\ k \in h .. n /\ n \in h .. n
        /\ h + 1 \in h + 1 .. n /\ h + 1 <= k - 1 /\ k <= n
    OBVIOUS
  <2>2. e[k] = e[k - 1] + l(k) /\ l(k) \in Nat
    BY <2>1, <1>2
  <2>3. e[h + 1] <= e[k - 1] /\ e[k] <= e[n]
    BY <2>1, <1>2, <1>6
  <2>4. e[k - 1] \in Nat /\ e[k] \in Nat
    BY <2>1, <1>3
  <2>5. b[e[k - 1] - e[h] + i] = s[k][i]
    BY <2>1, <1>2
  <2> DEFINE x == e[k - 1] - e[h + 1] + i
  <2>6. x \in 1 .. C /\ e[k - 1] - e[h] + i = l(h + 1) + x
    <3>1. i \in Nat /\ 1 <= i /\ i <= l(k)
      BY <2>2
    <3>2. e[h + 1] \in Nat
      BY <1>4
    <3>3. x \in Nat /\ 1 <= x /\ x <= C
      <4>1. /\ e[k - 1] \in Nat /\ e[k] \in Nat /\ e[n] \in Nat
            /\ l(k) \in Nat /\ C \in Nat
            /\ e[k] = e[k - 1] + l(k) /\ e[h + 1] <= e[k - 1]
            /\ e[k] <= e[n] /\ e[n] = e[h + 1] + C
        BY <2>2, <2>3, <2>4, <1>1, <1>4, <1>5
      <4> QED
        BY <4>1, <3>1, <3>2, Within, SMTT(30)
    <3>4. e[k - 1] - e[h] + i = l(h + 1) + x
      BY <3>1, <2>4, <1>4
    <3> HIDE DEF x
    <3> QED
      BY <3>3, <3>4, <1>1
  <2> HIDE DEF x
  <2>7. b[l(h + 1) + x] = c[x]
    BY <2>6, <1>2
  <2> QED
    BY <2>5, <2>6, <2>7 DEF x
<1> QED
  BY <1>2, <1>5, <1>6, <1>7, <1>8 DEF Marks, C, l

-----------------------------------------------------------------------------
(* The inductive invariant                                                 *)

Answer(n) == Seq(1 .. n)
Lists == Seq(Seq(Nat))
Done == Seq(Bytes)

\* The types, and what an unbroken stream leaves unused.
WellTyped ==
    /\ cached \in BOOLEAN /\ busy \in BOOLEAN /\ deaf \in BOOLEAN
    /\ dead \in BOOLEAN /\ lost \in BOOLEAN /\ torn \in BOOLEAN
    /\ chatty \in BOOLEAN /\ hung \in BOOLEAN
    /\ want \in Nat /\ more \in Nat
    /\ rest \in Bytes /\ toBoard \in Bytes /\ fifo \in Bytes /\ msg \in Bytes
    /\ Len(fifo) <= RX_CAPACITY
    /\ issued \in Lists /\ handled \in Done
    /\ Len(issued) <= MaxCalls
    /\ out \in Answer(Len(handled)) /\ toClient \in Answer(Len(handled))
    /\ ~torn => rest = <<>> /\ ~hung

\* Everything between the client and the handler.
Underway == msg \o fifo \o toBoard

\* A message that names a slot the board has not.
Fatal(m) == m[2] \in IdTypes /\ m[3] >= MAX_TASKS

\* The messages handled are the first of those asked for, and what is under
\* way is the rest of them; the handler is inside the first of these or at
\* its beginning, or has died of the id it names.
Framed ==
    /\ Len(handled) <= Len(issued)
    /\ \A k \in 1 .. Len(handled) : handled[k] = issued[k]
    /\ \A k \in 1 .. Len(issued) : Proper(issued[k])
    /\ ~dead =>
         /\ \E e : Marks(e, issued, Len(handled), Len(issued), Underway)
         /\ msg # <<>> => /\ Len(handled) < Len(issued)
                          /\ Len(msg) < Len(issued[Len(handled) + 1])
    /\ dead => Len(handled) < Len(issued) /\ Fatal(issued[Len(handled) + 1])

\* The only answer there is, or will be, is the one to the call that waits,
\* which is the last; it is no longer than what the call reads, now and then.
Answers ==
    /\ ~busy => toClient = <<>> /\ out = <<>> /\ more = 0
    /\ busy => /\ want > 0 /\ Len(toClient) + Len(out) <= want + more
               /\ \A i \in 1 .. Len(toClient) : toClient[i] = Len(issued)
               /\ \A i \in 1 .. Len(out) : out[i] = Len(issued)
               /\ Len(handled) < Len(issued) => toClient = <<>> /\ out = <<>>
    /\ \A k \in Len(handled) + 1 .. Len(issued) :
         ReplyLen(issued[k]) <= IF busy /\ k = Len(issued) THEN want + more ELSE 0

IInv ==
    /\ WellTyped
    /\ InOneStream => Framed
    /\ InOneStream /\ ~chatty => Answers

\* The types of the invariant are those of the module.
LEMMA TypesAgree == WellTyped => TypeOK
<1>1. SUFFICES ASSUME WellTyped PROVE TypeOK
  OBVIOUS
<1>2. {cached, busy, hung, deaf, dead, lost, torn, chatty} \subseteq BOOLEAN
  BY <1>1, Zenon DEF WellTyped
<1>3. {rest, toBoard, fifo, msg} \subseteq Seq(0 .. 255)
  BY <1>1, Zenon DEF WellTyped, Bytes, Byte
<1>4. {out, toClient} \subseteq Seq(1 .. Len(handled))
  BY <1>1, Zenon DEF WellTyped, Answer
<1>5. {want, more} \subseteq Nat
  BY <1>1, Zenon DEF WellTyped
<1> QED
  BY <1>1, <1>2, <1>3, <1>4, <1>5, Zenon DEF WellTyped, TypeOK

\* The empty sequence.
LEMMA Nothing ==
    /\ <<>> \in Bytes /\ <<>> \in Lists /\ <<>> \in Done
    /\ \A n : <<>> \in Answer(n)
    /\ Len(<<>>) = 0
BY EmptySeq, Zenon DEF Bytes, Lists, Done, Answer

\* Bytes are numbers.
LEMMA BytesAreNat == \A m \in Bytes : m \in Seq(Nat)
<1>1. Byte \subseteq Nat
  BY DEF Byte
<1> QED
  BY <1>1, SeqMonotonic DEF Bytes

\* A message more.
LEMMA ListsAppend ==
    ASSUME NEW s \in Lists, NEW m \in Seq(Nat)
    PROVE  /\ Append(s, m) \in Lists /\ Len(s) \in Nat
           /\ Len(Append(s, m)) = Len(s) + 1
           /\ \A k \in 1 .. Len(s) : Append(s, m)[k] = s[k]
           /\ Append(s, m)[Len(s) + 1] = m
BY AppendProperties, LenProperties DEF Lists

LEMMA DoneAppend ==
    ASSUME NEW s \in Done, NEW m \in Bytes
    PROVE  /\ Append(s, m) \in Done /\ Len(s) \in Nat
           /\ Len(Append(s, m)) = Len(s) + 1
           /\ \A k \in 1 .. Len(s) : Append(s, m)[k] = s[k]
           /\ Append(s, m)[Len(s) + 1] = m
BY AppendProperties, LenProperties DEF Done

\* Answers to n messages are answers to n + 1 messages.
LEMMA AnswerGrows ==
    ASSUME NEW n \in Nat, NEW a \in Answer(n)
    PROVE  a \in Answer(n + 1)
<1>1. 1 .. n \subseteq 1 .. n + 1
  OBVIOUS
<1> QED
  BY <1>1, SeqMonotonic DEF Answer

\* The answer to the message that was handled last.
LEMMA AnswerNew ==
    ASSUME NEW n \in Nat, NEW r \in Nat
    PROVE  LET a == [i \in 1 .. r |-> n + 1]
           IN  /\ a \in Answer(n + 1) /\ Len(a) = r
               /\ \A i \in 1 .. Len(a) : a[i] = n + 1
               /\ r = 0 => a = <<>>
<1> DEFINE a == [i \in 1 .. r |-> n + 1]
<1>1. n + 1 \in 1 .. n + 1
  OBVIOUS
<1>2. a \in Seq(1 .. n + 1)
  <2> DEFINE S == 1 .. n + 1
             x == n + 1
  <2>1. x \in S
    BY <1>1
  <2> HIDE DEF S, x
  <2>2. [i \in 1 .. r |-> x] \in Seq(S)
    BY <2>1
  <2> QED
    BY <2>2 DEF S, x
<1>3. DOMAIN a = 1 .. r /\ \A i \in 1 .. r : a[i] = n + 1
  OBVIOUS
<1>4. Len(a) = r
  BY <1>2, <1>3, LenProperties
<1>5. r = 0 => a = <<>>
  BY <1>2, <1>4, EmptySeq
<1> QED
  BY <1>2, <1>3, <1>4, <1>5 DEF Answer

\* One byte of an answer moves to the client.
LEMMA AnswerMoves ==
    ASSUME NEW n, NEW a \in Answer(n), NEW b \in Answer(n), b # <<>>
    PROVE  /\ Append(a, Head(b)) \in Answer(n) /\ Tail(b) \in Answer(n)
           /\ Len(a) \in Nat /\ Len(b) \in Nat
           /\ Len(Append(a, Head(b))) = Len(a) + 1
           /\ Len(Tail(b)) = Len(b) - 1 /\ Len(b) >= 1
           /\ Head(b) = b[1]
           /\ \A i \in 1 .. Len(a) : Append(a, Head(b))[i] = a[i]
           /\ Append(a, Head(b))[Len(a) + 1] = b[1]
           /\ \A i \in 1 .. Len(b) - 1 : Tail(b)[i] = b[i + 1]
<1> DEFINE S == 1 .. n
<1>1. a \in Seq(S) /\ b \in Seq(S)
  BY DEF Answer
<1> HIDE DEF S
<1>2. /\ Head(b) \in S /\ Tail(b) \in Seq(S) /\ Len(Tail(b)) = Len(b) - 1
      /\ \A i \in 1 .. Len(Tail(b)) : Tail(b)[i] = b[i + 1]
  BY <1>1, HeadTailProperties
<1>3. Head(b) = b[1] /\ Len(b) \in Nat /\ Len(b) >= 1 /\ Len(a) \in Nat
  BY <1>1, EmptySeq
<1>4. /\ Append(a, Head(b)) \in Seq(S) /\ Len(Append(a, Head(b))) = Len(a) + 1
      /\ \A i \in 1 .. Len(a) : Append(a, Head(b))[i] = a[i]
      /\ Append(a, Head(b))[Len(a) + 1] = Head(b)
  BY <1>1, <1>2, AppendProperties
<1> QED
  BY <1>2, <1>3, <1>4 DEF Answer, S

\* The client takes the first bytes.
LEMMA AnswerTaken ==
    ASSUME NEW n, NEW a \in Answer(n), NEW w \in Nat, w <= Len(a)
    PROVE  /\ SubSeq(a, w + 1, Len(a)) \in Answer(n)
           /\ w = Len(a) => SubSeq(a, w + 1, Len(a)) = <<>>
<1> DEFINE S == 1 .. n
           L == Len(a)
           t == SubSeq(a, w + 1, L)
<1>1. a \in Seq(S) /\ L \in Nat
  BY LenProperties DEF Answer
<1>2. \A i \in 1 .. L : a[i] \in S
  BY <1>1, ElementOfSeq
<1> HIDE DEF S, L
<1>3. t \in Seq(S)
  <2>1. \A i \in w + 1 .. L : a[i] \in S
    BY <1>2
  <2>2. w + 1 \in Int /\ L \in Int
    BY <1>1
  <2> QED
    BY <2>1, <2>2, SubSeqProperties
<1>4. w = L => t = <<>>
  <2>1. w + 1 \in Int /\ L \in Int /\ (w = L => L < w + 1)
    BY <1>1
  <2> QED
    BY <2>1, SubSeqEmpty
<1> QED
  BY <1>3, <1>4 DEF Answer, S, L

\* What it leaves are the bytes behind them.
LEMMA AnswerRest ==
    ASSUME NEW n, NEW a \in Answer(n), NEW w \in Nat, w <= Len(a)
    PROVE  /\ Len(SubSeq(a, w + 1, Len(a))) = Len(a) - w
           /\ \A i \in 1 .. Len(a) - w : SubSeq(a, w + 1, Len(a))[i] = a[w + i]
<1> DEFINE S == 1 .. n
           L == Len(a)
           t == SubSeq(a, w + 1, L)
<1>1. a \in Seq(S) /\ L \in Nat /\ w <= L
  BY LenProperties DEF Answer
<1>2. \A i \in 1 .. L : a[i] \in S
  BY <1>1, ElementOfSeq
<1> HIDE DEF S, L
<1>3. \A i \in w + 1 .. L : a[i] \in S
  BY <1>2
<1>4. /\ Len(t) = IF w + 1 <= L THEN L - (w + 1) + 1 ELSE 0
      /\ \A i \in 1 .. L - (w + 1) + 1 : t[i] = a[w + 1 + i - 1]
  <2>1. w + 1 \in Int /\ L \in Int
    BY <1>1
  <2> QED
    BY <1>3, <2>1, SubSeqProperties
<1> HIDE DEF t
<1>5. Len(t) = L - w
  BY <1>1, <1>4
<1>6. ASSUME NEW i \in 1 .. L - w PROVE t[i] = a[w + i]
  <2>1. i \in 1 .. L - (w + 1) + 1 /\ w + 1 + i - 1 = w + i
    BY <1>1
  <2> QED
    BY <2>1, <1>4
<1> QED
  BY <1>5, <1>6 DEF t, L

\* A byte moves from one buffer to the one before it.
LEMMA BytesMove ==
    ASSUME NEW a \in Bytes, NEW b \in Bytes, b # <<>>
    PROVE  /\ Append(a, Head(b)) \in Bytes /\ Append(a, Head(b)) # <<>>
           /\ Tail(b) \in Bytes
           /\ Len(Append(a, Head(b))) = Len(a) + 1 /\ Len(a) \in Nat
           /\ \A i \in 1 .. Len(a) : Append(a, Head(b))[i] = a[i]
           /\ Append(a, Head(b)) \o Tail(b) = a \o b
<1>1. a \in Seq(Byte) /\ b \in Seq(Byte)
  BY DEF Bytes
<1>2. /\ Append(a, Head(b)) \in Seq(Byte) /\ Tail(b) \in Seq(Byte)
      /\ Append(a, Head(b)) \o Tail(b) = a \o b
  BY <1>1, Shift, Zenon
<1>3. Head(b) \in Byte
  BY <1>1, HeadTailProperties, Zenon
<1> DEFINE x == Head(b)
<1> HIDE DEF x
<1>4. /\ Append(a, x) \in Seq(Byte) /\ Len(Append(a, x)) = Len(a) + 1
      /\ \A i \in 1 .. Len(a) : Append(a, x)[i] = a[i]
  BY <1>1, <1>3, AppendProperties DEF x
<1>5. Len(a) \in Nat
  BY BytesType
<1>6. Append(a, x) # <<>>
  BY <1>4, <1>5, EmptySeq
<1> QED
  BY <1>2, <1>4, <1>5, <1>6, Zenon DEF Bytes, x

\* Messages are numbers, and bytes when their id is one.
LEMMA MessageTypesHold ==
    ASSUME NEW c \in Calls, Fits(c)
    PROVE  /\ Message(c) \in Seq(Nat)
           /\ (c.type \in IdTypes => c.id <= 255) => Message(c) \in Bytes
<1>1. c.id \in Nat
  BY CallTypes
<1>2. Byte \subseteq Nat
  BY DEF Byte
<1>3. Message(c) \in Seq(Nat)
  BY <1>1, <1>2, MessageShape
<1>4. ASSUME c.type \in IdTypes => c.id <= 255
      PROVE  Message(c) \in Bytes
  <2>1. c.type \in IdTypes => c.id \in Byte
    BY <1>1, <1>4 DEF Byte
  <2> QED
    BY <2>1, MessageShape DEF Bytes
<1> QED
  BY <1>3, <1>4

\* The short messages and parts of messages the client writes.
LEMMA ShortBytes ==
    /\ \A c \in Calls : c.type \in {START_TASK, STOP_TASK} =>
          <<ESC, c.type, ESC, GET_OFFSETS>> \in Bytes
    /\ \A c \in Calls : c.type \in IdTypes => <<ESC, c.type>> \in Bytes
    /\ <<ESC, GET_OFFSETS>> \in Bytes
    /\ \A c \in Calls : c.id <= 255 => <<c.id>> \in Bytes
<1>1. ESC \in Byte /\ GET_OFFSETS \in Byte /\ \A x \in IdTypes : x \in Byte
  BY DEF Byte, ESC, GET_OFFSETS, IdTypes, LOAD_TASK, START_TASK, STOP_TASK,
     INSPECT_TASK
<1>2. START_TASK \in IdTypes /\ STOP_TASK \in IdTypes
  BY DEF IdTypes
<1>3. \A a \in Byte : <<a>> \in Seq(Byte)
  OBVIOUS
<1>4. \A a, b \in Byte : <<a, b>> \in Seq(Byte)
  OBVIOUS
<1>5. \A a, b, c, d \in Byte : <<a, b, c, d>> \in Seq(Byte)
  OBVIOUS
<1>6. \A c \in Calls : c.id <= 255 => c.id \in Byte
  <2>1. \A c \in Calls : c.id \in Nat
    BY CallTypes
  <2> QED
    BY <2>1 DEF Byte
<1> QED
  BY <1>1, <1>2, <1>3, <1>4, <1>5, <1>6, Zenon DEF Bytes

\* What reaches the line of a call whose arguments do not fit.
LEMMA WrittenBytes ==
    ASSUME NEW c \in Calls, ~Fits(c)
    PROVE  Written(c) \in Bytes
<1> DEFINE two == <<ESC, c.type>>
           n == Len(c.data)
<1>1. /\ c.id \in Nat /\ c.data \in Bytes /\ n \in Nat
      /\ c.type \in MessageTypes
  <2>1. c.type = DATA => Fits(c)
    BY FitTypes, Zenon
  <2> QED
    BY <2>1, CallTypes, Zenon
<1>2. /\ two \in Bytes
      /\ <<ESC, PING>> \in Bytes /\ <<ESC, SET_MEMORY>> \in Bytes
  <2>1. ESC \in Byte /\ \A t \in MessageTypes : t \in Byte
    BY DEF Byte, ESC, PING, GET_OFFSETS, GET_BUILTIN_LOCATIONS, LOAD_TASK,
       START_TASK, STOP_TASK, INSPECT_TASK, GET_MEMORY, SET_MEMORY,
       MessageTypes, IdTypes
  <2>2. PING \in MessageTypes /\ SET_MEMORY \in MessageTypes
    BY DEF MessageTypes
  <2>3. \A a, b \in Byte : <<a, b>> \in Seq(Byte)
    OBVIOUS
  <2> QED
    BY <1>1, <2>1, <2>2, <2>3, Zenon DEF Bytes
<1>3. \A k \in Nat : k < WORD => U16(k) \in Bytes
  <2>1. \A a, b \in Byte : <<a, b>> \in Seq(Byte)
    OBVIOUS
  <2>2. \A k \in Nat : k < WORD => k % 256 \in Byte /\ k \div 256 \in Byte
    BY Word16
  <2> QED
    BY <2>1, <2>2, Zenon DEF U16, Bytes
<1> HIDE DEF two
<1>4. CASE c.type = PING
  <2>1. Message(c) = <<ESC, PING>> \o c.data
    BY <1>4, Messages, Zenon
  <2>2. Message(c) \in Bytes
    BY <1>1, <1>2, <2>1, BytesConcat
  <2> QED
    BY <1>4, <2>2 DEF Written
<1>5. CASE c.type # PING /\ c.id >= WORD
  <2>1. Written(c) = two
    <3>1. ~(c.id < WORD)
      BY <1>1, <1>5 DEF WORD
    <3> QED
      BY <1>5, <3>1 DEF Written, two
  <2> QED
    BY <1>2, <2>1
<1>6. CASE c.type = SET_MEMORY /\ c.id < WORD /\ n < WORD
  <2> DEFINE a == <<ESC, SET_MEMORY>> \o U16(c.id)
             b == a \o U16(n)
  <2>1. a \in Bytes
    BY <1>1, <1>2, <1>3, <1>6, BytesConcat
  <2> HIDE DEF a
  <2>2. b \in Bytes
    BY <1>1, <1>3, <1>6, <2>1, BytesConcat
  <2> HIDE DEF b
  <2>3. b \o c.data \in Bytes
    BY <1>1, <2>2, BytesConcat
  <2>4. Message(c) = b \o c.data
    BY <1>6, Messages, Zenon DEF a, b, n
  <2>5. c.type # PING /\ ~(c.id >= WORD)
    BY <1>1, <1>6 DEF PING, SET_MEMORY, WORD
  <2>6. Written(c) = Message(c)
    BY <1>6, <2>5 DEF Written, n
  <2> QED
    BY <2>3, <2>4, <2>6
<1>7. CASE /\ c.type # PING /\ ~(c.id >= WORD)
           /\ ~(c.type = SET_MEMORY /\ c.id < WORD /\ n < WORD)
  <2>1. Written(c) = two \o U16(c.id)
    BY <1>7 DEF Written, two, n
  <2>2. c.id < WORD
    BY <1>1, <1>7 DEF WORD
  <2> QED
    BY <1>1, <1>2, <1>3, <2>1, <2>2, BytesConcat
<1> QED
  BY <1>4, <1>5, <1>6, <1>7

\* Every step keeps the types.
LEMMA TypesKept == WellTyped /\ [Next]_vars => WellTyped'
<1> SUFFICES ASSUME WellTyped, [Next]_vars PROVE WellTyped'
  OBVIOUS
<1>0. Len(issued) \in Nat /\ Len(handled) \in Nat /\ MaxCalls \in Nat
  BY ListsAppend, DoneAppend, Sizes, LenProperties DEF WellTyped, Lists, Done
<1>1. ASSUME NEW c \in Calls, Type(c) PROVE WellTyped'
  <2>1. c.data \in Bytes
    BY CallTypes
  <2>2. toBoard' \in Bytes
    BY <1>1, <2>1, BytesConcat DEF Type, WellTyped
  <2>3. issued' \in Lists /\ Len(issued') = Len(issued) + 1
    <3>1. c.type = DATA => Fits(c)
      BY FitTypes, Zenon
    <3> QED
      BY <1>1, <3>1, MessageTypesHold, ListsAppend DEF Type, WellTyped
  <2>4. Len(issued') <= MaxCalls
    BY <1>0, <1>1, <2>3 DEF Type, MayCall
  <2>5. torn' \in BOOLEAN /\ (~torn' => ~torn) /\ chatty' \in BOOLEAN
    BY <1>1 DEF Type
  <2> QED
    BY <1>1, <2>2, <2>3, <2>4, <2>5, Zenon DEF Type, WellTyped, client, board
<1>2. ASSUME NEW c \in Calls, Whole(c) PROVE WellTyped'
  <2>1. Message(c) \in Bytes
    BY <1>2, MessageTypesHold DEF Whole
  <2>2. toBoard' \in Bytes
    BY <1>2, <2>1, BytesConcat DEF Whole, WellTyped
  <2>3. issued' \in Lists /\ Len(issued') = Len(issued) + 1
    BY <1>2, MessageTypesHold, ListsAppend DEF Whole, WellTyped
  <2>4. Len(issued') <= MaxCalls
    BY <1>0, <1>2, <2>3 DEF Whole, MayCall
  <2>5. busy' \in BOOLEAN /\ want' \in Nat /\ more' \in Nat
    BY <1>2, Parts DEF Whole
  <2> QED
    BY <1>2, <2>2, <2>3, <2>4, <2>5, Zenon DEF Whole, WellTyped, board
<1>3. ASSUME NEW c \in Calls, Nested(c) PROVE WellTyped'
  <2>1. toBoard' \in Bytes
    <3>1. <<ESC, c.type, ESC, GET_OFFSETS>> \in Bytes
      BY <1>3, ShortBytes, Zenon DEF Nested
    <3> QED
      BY <1>3, <3>1, BytesConcat DEF Nested, WellTyped
  <2>2. issued' \in Lists /\ Len(issued') = Len(issued) + 1
    <3>1. c.type \in {START_TASK, STOP_TASK} => Fits(c)
      BY FitTypes, Zenon
    <3> QED
      BY <1>3, <3>1, MessageTypesHold, ListsAppend DEF Nested, WellTyped
  <2>3. Len(issued') <= MaxCalls
    BY <1>0, <1>3, <2>2 DEF Nested, MayCall
  <2>4. rest' \in Bytes
    <3>1. c.id <= 255 => <<c.id>> \in Bytes
      BY ShortBytes, Zenon
    <3> QED
      BY <1>3, <3>1, Nothing DEF Nested
  <2>5. want' \in Nat
    BY <1>3, Sizes DEF Nested
  <2>6. busy' \in BOOLEAN /\ cached' \in BOOLEAN /\ torn' \in BOOLEAN /\ torn'
    BY <1>3 DEF Nested
  <2> QED
    BY <1>3, <2>1, <2>2, <2>3, <2>4, <2>5, <2>6, Zenon DEF Nested, WellTyped, board
<1>4. ASSUME NEW c \in Calls, Raise(c) PROVE WellTyped'
  <2>1. <<ESC, c.type>> \in Bytes
    BY <1>4, ShortBytes, Zenon DEF Raise
  <2>2. toBoard' \in Bytes
    BY <1>4, <2>1, BytesConcat DEF Raise, WellTyped
  <2>3. issued' \in Lists /\ Len(issued') = Len(issued) + 1
    BY <1>4, <2>1, BytesAreNat, ListsAppend DEF Raise, WellTyped
  <2>4. Len(issued') <= MaxCalls
    BY <1>0, <1>4, <2>3 DEF Raise, MayCall
  <2>5. torn' \in BOOLEAN /\ torn'
    BY <1>4 DEF Raise
  <2> QED
    BY <1>4, <2>2, <2>3, <2>4, <2>5, Zenon DEF Raise, WellTyped, client, board
<1>5. CASE FetchOffsets
  <2>1. <<ESC, GET_OFFSETS>> \in Bytes
    BY ShortBytes, Zenon
  <2>2. toBoard' \in Bytes
    BY <1>5, <2>1, BytesConcat DEF FetchOffsets, WellTyped
  <2>3. issued' \in Lists /\ Len(issued') = Len(issued) + 1
    BY <1>5, <2>1, BytesAreNat, ListsAppend DEF FetchOffsets, WellTyped
  <2>4. Len(issued') <= MaxCalls
    BY <1>0, <1>5, <2>3 DEF FetchOffsets, MayCall
  <2>5. busy' \in BOOLEAN /\ cached' \in BOOLEAN /\ want' \in Nat
    BY <1>5, Sizes DEF FetchOffsets
  <2> QED
    BY <1>5, <2>2, <2>3, <2>4, <2>5, Zenon DEF FetchOffsets, WellTyped, board
<1>6. CASE Return
  <2>1. toBoard' \in Bytes
    BY <1>6, BytesConcat DEF Return, WellTyped
  <2>2. toClient' \in Answer(Len(handled))
    BY <1>6, AnswerTaken DEF Return, WellTyped
  <2>3. /\ busy' \in BOOLEAN /\ want' \in Nat /\ rest' \in Bytes
        /\ rest' = <<>>
    BY <1>6, Nothing DEF Return
  <2> QED
    BY <1>6, <2>1, <2>2, <2>3, Zenon DEF Return, WellTyped, board
<1>7. CASE Refresh
  BY <1>7 DEF Refresh, WellTyped, board
<1>8. CASE Show
  BY <1>8, Nothing, Zenon DEF Show, WellTyped, board, client
<1>9. CASE Arrive
  <2>1. toBoard # <<>> /\ toBoard \in Bytes /\ fifo \in Bytes
    BY <1>9 DEF Arrive, WellTyped
  <2>2. /\ Append(fifo, Head(toBoard)) \in Bytes /\ Tail(toBoard) \in Bytes
        /\ Len(Append(fifo, Head(toBoard))) = Len(fifo) + 1 /\ Len(fifo) \in Nat
    BY <2>1, BytesMove
  <2>3. fifo' \in Bytes /\ lost' \in BOOLEAN /\ Len(fifo') <= RX_CAPACITY
    <3>1. CASE Len(fifo) < RX_CAPACITY
      <4>1. fifo' = Append(fifo, Head(toBoard)) /\ lost' = lost
        BY <1>9, <3>1 DEF Arrive
      <4>2. Len(fifo) + 1 <= RX_CAPACITY
        BY <2>2, <3>1, Sizes
      <4> QED
        BY <4>1, <4>2, <2>2, Zenon DEF WellTyped
    <3>2. CASE ~(Len(fifo) < RX_CAPACITY)
      BY <1>9, <3>2, Zenon DEF Arrive, WellTyped
    <3> QED
      BY <3>1, <3>2
  <2>4. toBoard' \in Bytes
    BY <1>9, <2>2 DEF Arrive
  <2> QED
    BY <1>9, <2>3, <2>4, Zenon DEF Arrive, WellTyped, client
<1>10. CASE Read
  <2> DEFINE m == Append(msg, Head(fifo))
  <2>1. fifo # <<>> /\ fifo \in Bytes /\ msg \in Bytes /\ fifo' = Tail(fifo)
    BY <1>10 DEF Read, CanRead, WellTyped
  <2>2. /\ m \in Bytes /\ m # <<>> /\ Tail(fifo) \in Bytes
    BY <2>1, BytesMove
  <2>3. Len(fifo') <= RX_CAPACITY
    <3> DEFINE L == Len(fifo)
               L2 == Len(Tail(fifo))
    <3>1. L2 = L - 1 /\ L \in Nat /\ L <= RX_CAPACITY
      <4>1. fifo \in Seq(Byte)
        BY <2>1 DEF Bytes
      <4> QED
        BY <4>1, <2>1, HeadTailProperties, LenProperties DEF WellTyped
    <3> HIDE DEF L, L2
    <3>2. L2 <= RX_CAPACITY
      BY <3>1, Sizes
    <3> QED
      BY <3>2, <2>1 DEF L2
  <2>4. /\ msg' \in Bytes /\ dead' \in BOOLEAN /\ handled' \in Done
        /\ out' \in Answer(Len(handled'))
        /\ toClient \in Answer(Len(handled'))
    <3>1. CASE Dies(m)
      BY <1>10, <3>1, Zenon DEF Read, WellTyped
    <3>2. CASE ~Dies(m) /\ Complete(m)
      <4>1. /\ msg' = <<>> /\ handled' = Append(handled, m) /\ dead' = dead
            /\ out' = [i \in 1 .. ReplyLen(m) |-> Len(handled')]
        BY <1>10, <3>2, Zenon DEF Read
      <4>2. handled' \in Done /\ Len(handled') = Len(handled) + 1
        BY <4>1, <2>2, DoneAppend, Zenon DEF WellTyped
      <4>3. ReplyLen(m) \in Nat
        BY <3>2, <2>2, ReplyNat
      <4>4. out' \in Answer(Len(handled) + 1)
        <5>1. out' = [i \in 1 .. ReplyLen(m) |-> Len(handled) + 1]
          BY <4>1, <4>2
        <5> QED
          BY <5>1, <4>3, <1>0, AnswerNew, Zenon
      <4>5. toClient \in Answer(Len(handled) + 1)
        BY <1>0, AnswerGrows, Zenon DEF WellTyped
      <4> QED
        BY <4>1, <4>2, <4>4, <4>5, Nothing, Zenon DEF WellTyped
    <3>3. CASE ~Dies(m) /\ ~Complete(m)
      BY <1>10, <3>3, <2>2, Zenon DEF Read, WellTyped
    <3> QED
      BY <3>1, <3>2, <3>3, Zenon
  <2>5. fifo' \in Bytes
    BY <2>1, <2>2
  <2> HIDE DEF m
  <2> QED
    BY <1>10, <2>3, <2>4, <2>5, Zenon DEF Read, WellTyped, client
<1>11. CASE Put
  <2>1. /\ out # <<>> /\ out' = Tail(out)
        /\ toClient' \in {toClient, Append(toClient, Head(out))}
    BY <1>11 DEF Put
  <2>2. toClient' \in Answer(Len(handled)) /\ out' \in Answer(Len(handled))
    <3>1. toClient \in Answer(Len(handled)) /\ out \in Answer(Len(handled))
      BY DEF WellTyped
    <3>2. /\ Append(toClient, Head(out)) \in Answer(Len(handled))
          /\ Tail(out) \in Answer(Len(handled))
      BY <2>1, <3>1, AnswerMoves
    <3> QED
      BY <2>1, <3>1, <3>2
  <2> QED
    BY <1>11, <2>2, Zenon DEF Put, WellTyped, client
<1>12. CASE Deafen
  BY <1>12, Zenon DEF Deafen, WellTyped, client, board
<1>13. CASE Hear
  BY <1>13, Zenon DEF Hear, WellTyped, client, board
<1>14. CASE UNCHANGED vars
  BY <1>14, Zenon DEF vars, client, board, WellTyped
<1>15. ASSUME NEW c \in Calls, Unfit(c) PROVE WellTyped'
  <2>1. Written(c) \in Bytes
    BY <1>15, WrittenBytes DEF Unfit
  <2>2. toBoard' \in Bytes
    BY <1>15, <2>1, BytesConcat DEF Unfit, WellTyped
  <2>3. issued' \in Lists /\ Len(issued') = Len(issued) + 1
    BY <1>15, <2>1, BytesAreNat, ListsAppend DEF Unfit, WellTyped
  <2>4. Len(issued') <= MaxCalls
    BY <1>0, <1>15, <2>3 DEF Unfit, MayCall
  <2>5. busy' \in BOOLEAN /\ want' \in Nat /\ torn' \in BOOLEAN /\ torn'
    BY <1>15 DEF Unfit
  <2> QED
    BY <1>15, <2>2, <2>3, <2>4, <2>5, Zenon DEF Unfit, WellTyped, board
<1>16. CASE ReadOn
  <2>1. toClient' \in Answer(Len(handled)) /\ want' \in Nat /\ more' \in Nat
    BY <1>16, AnswerTaken DEF ReadOn, WellTyped
  <2> QED
    BY <1>16, <2>1, Zenon DEF ReadOn, WellTyped, board
<1>17. CASE Misread
  <2>1. toClient' \in Answer(Len(handled))
    BY <1>17, AnswerTaken DEF Misread, WellTyped
  <2>2. /\ busy' \in BOOLEAN /\ want' \in Nat /\ more' \in Nat
        /\ torn' \in BOOLEAN /\ torn'
    BY <1>17 DEF Misread, WellTyped
  <2> QED
    BY <1>17, <2>1, <2>2, Zenon DEF Misread, WellTyped, board
<1>18. CASE HangUp
  <2>1. torn' \in BOOLEAN /\ torn' /\ hung' \in BOOLEAN
    BY <1>18 DEF HangUp
  <2> QED
    BY <1>18, <2>1, Nothing, Zenon DEF HangUp, WellTyped, board
<1>19. CASE ShortRead
  <2>1. busy' \in BOOLEAN /\ want' \in Nat /\ more' \in Nat /\ torn
    BY <1>19 DEF ShortRead, WellTyped
  <2> QED
    BY <1>19, <2>1, Nothing, Zenon DEF ShortRead, WellTyped, board
<1> QED
  BY <1>1, <1>2, <1>3, <1>4, <1>5, <1>6, <1>7, <1>8, <1>9, <1>10, <1>11, <1>12,
     <1>13, <1>14, <1>15, <1>16, <1>17, <1>18, <1>19, Zenon DEF Next

-----------------------------------------------------------------------------
(* The messages stay whole and in order                                    *)

\* The bytes under way are bytes.
LEMMA UnderwayBytes ==
    ASSUME NEW a \in Bytes, NEW b \in Bytes, NEW c \in Bytes
    PROVE  /\ a \o b \o c \in Bytes /\ b \o c \in Bytes
           /\ a \o b \o c = a \o (b \o c)
<1>1. a \o b \in Bytes /\ b \o c \in Bytes
  BY BytesConcat, Zenon
<1>2. a \o b \o c \in Bytes
  BY <1>1, BytesConcat, Zenon
<1> QED
  BY <1>1, <1>2, ConcatAssociative DEF Bytes

\* A whole message that is written keeps the messages framed.
LEMMA FramedIssue ==
    ASSUME WellTyped, Framed, NEW m, Proper(m),
           issued' = Append(issued, m), toBoard' = toBoard \o m,
           UNCHANGED <<msg, fifo, dead, handled>>
    PROVE  Framed'
<1>1. /\ m \in Bytes /\ m \in Seq(Nat)
  BY BytesAreNat DEF Proper
<1>2. /\ issued \in Lists /\ handled \in Done /\ toBoard \in Bytes
      /\ msg \in Bytes /\ fifo \in Bytes
  BY Zenon DEF WellTyped
<1>3. /\ Len(issued) \in Nat /\ Len(handled) \in Nat
      /\ Len(issued') = Len(issued) + 1
      /\ \A k \in 1 .. Len(issued) : issued'[k] = issued[k]
      /\ issued'[Len(issued) + 1] = m
  BY <1>1, <1>2, ListsAppend, DoneAppend, Nothing
<1>4. \A k \in 1 .. Len(issued) : Len(issued[k]) \in Nat
  <2>1. ASSUME NEW k \in 1 .. Len(issued) PROVE Len(issued[k]) \in Nat
    <3>1. issued[k] \in Bytes
      BY Zenon DEF Framed, Proper
    <3> QED
      BY <3>1, BytesType
  <2> QED
    BY <2>1
<1> DEFINE n == Len(issued)
           h == Len(handled)
<1>5. /\ h <= n
      /\ \A k \in 1 .. h : handled[k] = issued[k]
      /\ \A k \in 1 .. n : Proper(issued[k])
      /\ ~dead => /\ \E e : Marks(e, issued, h, n, Underway)
                  /\ msg # <<>> => h < n /\ Len(msg) < Len(issued[h + 1])
      /\ dead => h < n /\ Fatal(issued[h + 1])
  BY Zenon DEF Framed
<1>6. /\ n \in Nat /\ h \in Nat /\ Len(issued') = n + 1
      /\ \A k \in 1 .. n : issued'[k] = issued[k]
      /\ issued'[n + 1] = m
      /\ \A k \in 1 .. n : Len(issued[k]) \in Nat
  BY <1>3, <1>4, Zenon
<1>7. handled' = handled /\ msg' = msg /\ dead' = dead /\ Len(handled') = h
  OBVIOUS
<1> HIDE DEF n, h
<1>8. Len(handled') <= Len(issued')
  BY <1>5, <1>6, <1>7
<1>9. \A k \in 1 .. Len(handled') : handled'[k] = issued'[k]
  <2>1. \A k \in 1 .. h : k \in 1 .. n
    BY <1>5, <1>6
  <2> QED
    BY <2>1, <1>5, <1>6, <1>7, Zenon
<1>10. \A k \in 1 .. Len(issued') : Proper(issued'[k])
  <2>1. \A k \in 1 .. n + 1 : k \in 1 .. n \/ k = n + 1
    BY <1>6
  <2> QED
    BY <2>1, <1>5, <1>6, Zenon
<1>11. ASSUME ~dead
       PROVE  \E e : Marks(e, issued', Len(handled'), Len(issued'), Underway')
  <2>1. PICK e : Marks(e, issued, h, n, Underway)
    BY <1>5, <1>11
  <2>2. Underway' = Underway \o m
    <3> DEFINE a == msg \o fifo
    <3>1. a \in Bytes
      BY <1>2, BytesConcat
    <3>2. Underway = a \o toBoard /\ Underway' = a \o (toBoard \o m)
      BY DEF Underway
    <3> HIDE DEF a
    <3> QED
      BY <1>1, <1>2, <3>1, <3>2, UnderwayBytes
  <2>3. Underway \in Bytes
    BY <1>2, UnderwayBytes DEF Underway
  <2>4. h \in 0 .. n
    BY <1>5, <1>6
  <2>5. \A k \in 1 .. n : Len(issued[k]) \in Nat /\ issued'[k] = issued[k]
    BY <1>6, Zenon
  <2>6. \E f : Marks(f, issued', h, n + 1, Underway \o m)
    BY <1>1, <1>6, <2>1, <2>3, <2>4, <2>5, MarksAdd, Zenon
  <2> QED
    BY <2>2, <2>6, <1>6, <1>7, Zenon
<1>12. ASSUME ~dead, msg # <<>>
       PROVE  /\ Len(handled') < Len(issued')
              /\ Len(msg') < Len(issued'[Len(handled') + 1])
  <2>1. h < n /\ Len(msg) < Len(issued[h + 1])
    BY <1>5, <1>12, Zenon
  <2>2. h + 1 \in 1 .. n /\ h < n + 1
    BY <2>1, <1>6
  <2>3. issued'[h + 1] = issued[h + 1]
    BY <2>2, <1>6
  <2> QED
    BY <2>1, <2>2, <2>3, <1>6, <1>7, Zenon
<1>13. ~dead' => /\ \E e : Marks(e, issued', Len(handled'), Len(issued'), Underway')
                 /\ msg' # <<>> => /\ Len(handled') < Len(issued')
                                   /\ Len(msg') < Len(issued'[Len(handled') + 1])
  BY <1>7, <1>11, <1>12
<1>14. ASSUME dead
       PROVE  Len(handled') < Len(issued') /\ Fatal(issued'[Len(handled') + 1])
  <2>1. h < n /\ Fatal(issued[h + 1])
    BY <1>5, <1>14, Zenon
  <2>2. h + 1 \in 1 .. n /\ h < n + 1
    BY <2>1, <1>6
  <2>3. issued'[h + 1] = issued[h + 1]
    BY <2>2, <1>6
  <2> QED
    BY <2>1, <2>2, <2>3, <1>6, <1>7, Zenon
<1>15. dead' => /\ Len(handled') < Len(issued')
                /\ Fatal(issued'[Len(handled') + 1])
  BY <1>7, <1>14
<1>16. (Fatal(issued[Len(handled) + 1]))' <=> Fatal(issued'[Len(handled') + 1])
  BY DEF Fatal
<1> QED
  BY <1>8, <1>9, <1>10, <1>13, <1>15, <1>16, Zenon DEF Framed

\* So does a step that leaves the bytes under way.
LEMMA FramedStays ==
    ASSUME Framed, UNCHANGED <<issued, handled, dead, msg>>, Underway' = Underway
    PROVE  Framed'
BY DEF Framed

\* What the handler has read, with the next byte, begins the first message
\* that is not handled.
LEMMA ReadsFirst ==
    ASSUME WellTyped, Framed, ~dead, fifo # <<>>
    PROVE  LET m == Append(msg, Head(fifo))
               M == issued[Len(handled) + 1]
           IN  /\ Len(handled) < Len(issued) /\ Proper(M)
               /\ m \in Bytes /\ m # <<>> /\ Tail(fifo) \in Bytes
               /\ Len(m) <= Len(M) /\ \A i \in 1 .. Len(m) : m[i] = M[i]
               /\ Underway = m \o Tail(fifo) \o toBoard
<1> DEFINE m == Append(msg, Head(fifo))
           h == Len(handled)
           n == Len(issued)
           M == issued[h + 1]
           c == Tail(fifo) \o toBoard
<1>1. /\ issued \in Lists /\ handled \in Done /\ toBoard \in Bytes
      /\ msg \in Bytes /\ fifo \in Bytes
  BY Zenon DEF WellTyped
<1>2. n \in Nat /\ h \in Nat
  BY <1>1, ListsAppend, DoneAppend, Nothing
<1>3. /\ m \in Bytes /\ m # <<>> /\ Tail(fifo) \in Bytes
      /\ Len(m) = Len(msg) + 1 /\ Len(msg) \in Nat
      /\ m \o Tail(fifo) = msg \o fifo
  BY <1>1, BytesMove
<1>4. /\ Underway = m \o Tail(fifo) \o toBoard
      /\ Underway = m \o c /\ c \in Bytes /\ Underway \in Bytes
  <2>1. Underway = m \o Tail(fifo) \o toBoard
    BY <1>3 DEF Underway
  <2> DEFINE t == Tail(fifo)
  <2>2. m \in Bytes /\ t \in Bytes /\ toBoard \in Bytes
    BY <1>1, <1>3
  <2> HIDE DEF m, t
  <2>3. /\ m \o t \o toBoard \in Bytes /\ t \o toBoard \in Bytes
        /\ m \o t \o toBoard = m \o (t \o toBoard)
    BY <2>2, UnderwayBytes, Zenon
  <2> QED
    BY <2>1, <2>3, Zenon DEF t
<1>5. /\ h <= n
      /\ \A k \in 1 .. n : Proper(issued[k])
      /\ \E e : Marks(e, issued, h, n, Underway)
      /\ msg # <<>> => h < n /\ Len(msg) < Len(M)
  BY Zenon DEF Framed
<1>6. \A k \in 1 .. n : Len(issued[k]) \in Nat
  <2>1. ASSUME NEW k \in 1 .. n PROVE Len(issued[k]) \in Nat
    <3>1. issued[k] \in Bytes
      BY <1>5, Zenon DEF Proper
    <3> QED
      BY <3>1, BytesType
  <2> QED
    BY <2>1
<1>7. /\ Len(Underway) = Len(m) + Len(c) /\ Len(c) \in Nat
      /\ \A i \in 1 .. Len(m) + Len(c) :
           (m \o c)[i] = IF i <= Len(m) THEN m[i] ELSE c[i - Len(m)]
  <2>1. m \in Bytes /\ c \in Bytes /\ Underway = m \o c
    BY <1>3, <1>4
  <2> HIDE DEF m, c
  <2>2. /\ Len(m \o c) = Len(m) + Len(c)
        /\ \A i \in 1 .. Len(m) + Len(c) :
             (m \o c)[i] = IF i <= Len(m) THEN m[i] ELSE c[i - Len(m)]
    BY <2>1, BytesConcat, Zenon
  <2>3. Len(c) \in Nat
    BY <2>1, BytesType
  <2> QED
    BY <2>1, <2>2, <2>3, Zenon
<1>8. /\ h < n => /\ Len(M) <= Len(Underway)
                  /\ \A i \in 1 .. Len(M) : Underway[i] = M[i]
      /\ h = n => Underway = <<>>
  <2>1. PICK e : Marks(e, issued, h, n, Underway)
    BY <1>5
  <2>2. h \in 0 .. n
    BY <1>2, <1>5
  <2> HIDE DEF h, n
  <2> QED
    BY <1>2, <1>4, <1>6, <2>1, <2>2, MarksFirst
<1> DEFINE k == Len(m)
           K == Len(M)
           L == Len(msg)
           x == Len(c)
<1>9. /\ k = L + 1 /\ L \in Nat /\ x \in Nat
      /\ (Underway = <<>> => k + x = 0)
      /\ \A i \in 1 .. k + x : (m \o c)[i] = IF i <= k THEN m[i] ELSE c[i - k]
      /\ (msg = <<>> => L = 0)
  BY <1>1, <1>3, <1>7, Nothing
<1> HIDE DEF k, L, x, n, h, c
<1>10. h < n
  BY <1>2, <1>5, <1>8, <1>9
<1>11. Proper(M) /\ K \in Nat /\ K >= 1
  <2>1. h + 1 \in 1 .. n
    BY <1>2, <1>10
  <2>2. Proper(M)
    BY <2>1, <1>5
  <2> QED
    BY <2>1, <2>2, <1>6 DEF Proper
<1>12. msg # <<>> => L < K
  BY <1>5 DEF L
<1>13. \A i \in 1 .. K : Underway[i] = M[i]
  BY <1>8, <1>10 DEF K
<1> HIDE DEF M, K
<1>14. k <= K
  BY <1>9, <1>11, <1>12
<1>15. ASSUME NEW i \in 1 .. k PROVE m[i] = M[i]
  <2>1. i \in 1 .. K /\ i \in 1 .. k + x /\ i <= k
    BY <1>9, <1>11, <1>14
  <2>2. Underway[i] = M[i]
    BY <2>1, <1>13
  <2>3. (m \o c)[i] = m[i]
    BY <2>1, <1>9
  <2> QED
    BY <2>2, <2>3, <1>4
<1> QED
  BY <1>3, <1>4, <1>10, <1>11, <1>14, <1>15 DEF k, K, M, h, n

\* Reading a byte keeps the messages framed.
LEMMA FramedRead ==
    ASSUME WellTyped, Framed, Read
    PROVE  Framed'
<1> DEFINE m == Append(msg, Head(fifo))
           h == Len(handled)
           n == Len(issued)
           M == issued[h + 1]
           c == Tail(fifo) \o toBoard
<1>1. ~dead /\ fifo # <<>> /\ fifo' = Tail(fifo) /\ issued' = issued
      /\ toBoard' = toBoard
  BY DEF Read, CanRead
<1>2. /\ h < n /\ Proper(M)
      /\ m \in Bytes /\ m # <<>> /\ Tail(fifo) \in Bytes
      /\ Len(m) <= Len(M) /\ \A i \in 1 .. Len(m) : m[i] = M[i]
      /\ Underway = m \o Tail(fifo) \o toBoard
  BY <1>1, ReadsFirst
<1>3. /\ issued \in Lists /\ handled \in Done /\ toBoard \in Bytes
  BY Zenon DEF WellTyped
<1>4. n \in Nat /\ h \in Nat
  BY <1>3, ListsAppend, DoneAppend, Nothing
<1>5. /\ h <= n
      /\ \A k \in 1 .. h : handled[k] = issued[k]
      /\ \A k \in 1 .. n : Proper(issued[k])
      /\ \E e : Marks(e, issued, h, n, Underway)
  BY <1>1, Zenon DEF Framed
<1>6. M \in Bytes
  BY <1>2 DEF Proper
<1>7. CASE Dies(m)
  <2>1. dead' /\ UNCHANGED <<msg, handled, issued>>
    BY <1>7 DEF Read
  <2>2. Fatal(M)
    <3> DEFINE k == Len(m)
               K == Len(M)
    <3>1. /\ k <= K /\ k \in Nat /\ K \in Nat
          /\ \A i \in 1 .. k : m[i] = M[i]
      BY <1>2, <1>6, BytesType
    <3>2. \/ k = 2 /\ m[1] = ESC /\ m[2] \notin MessageTypes \cup {ESC}
          \/ k = 3 /\ m[1] = ESC /\ m[2] \in IdTypes /\ m[3] >= MAX_TASKS
      BY <1>7 DEF Dies
    <3>3. M[1] = ESC => M[2] \in MessageTypes
      <4>1. \/ M[1] # ESC
            \/ M[2] \in {GET_OFFSETS, GET_BUILTIN_LOCATIONS, PING, START_TASK,
                         STOP_TASK, INSPECT_TASK, LOAD_TASK, GET_MEMORY,
                         SET_MEMORY}
        BY <1>2, Zenon DEF Proper
      <4> QED
        BY <4>1, Zenon DEF MessageTypes, IdTypes
    <3> HIDE DEF k, K, m, M
    <3>4. CASE k = 2 /\ m[1] = ESC /\ m[2] \notin MessageTypes \cup {ESC}
      <4>1. m[1] = M[1] /\ m[2] = M[2]
        BY <3>1, <3>4
      <4> QED
        BY <3>3, <3>4, <4>1, Zenon
    <3>5. CASE k = 3 /\ m[1] = ESC /\ m[2] \in IdTypes /\ m[3] >= MAX_TASKS
      <4>1. m[3] = M[3] /\ m[2] = M[2]
        BY <3>1, <3>5
      <4> QED
        BY <3>5, <4>1, Zenon DEF Fatal
    <3> QED
      BY <3>2, <3>4, <3>5
  <2> QED
    BY <2>1, <2>2, <1>2, <1>5, Zenon DEF Framed
<1>8. CASE ~Dies(m) /\ Complete(m)
  <2>1. /\ msg' = <<>> /\ handled' = Append(handled, m) /\ dead' = dead
    BY <1>8, Zenon DEF Read
  <2>2. m = M
    <3>1. Len(m) = Len(M)
      BY <1>2, <1>8, Parsed, Zenon
    <3> QED
      BY <1>2, <1>6, <3>1, SeqEqual, Zenon DEF Bytes
  <2>3. /\ Len(handled') = h + 1 /\ \A k \in 1 .. h : handled'[k] = handled[k]
        /\ handled'[h + 1] = m
    BY <2>1, <1>2, <1>3, DoneAppend
  <2>4. \A k \in 1 .. n : Len(issued[k]) \in Nat
    <3>1. ASSUME NEW k \in 1 .. n PROVE Len(issued[k]) \in Nat
      <4>1. issued[k] \in Bytes
        BY <1>5, Zenon DEF Proper
      <4> QED
        BY <4>1, BytesType
    <3> QED
      BY <3>1
  <2>5. PICK e : Marks(e, issued, h, n, Underway)
    BY <1>5
  <2>6. /\ Underway = m \o c /\ c \in Bytes /\ Underway \in Bytes
    BY <1>2, <1>3, UnderwayBytes, Zenon
  <2>7. Underway' = c
    <3>1. Underway' = <<>> \o Tail(fifo) \o toBoard
      BY <2>1, <1>1 DEF Underway
    <3>2. <<>> \o Tail(fifo) = Tail(fifo)
      BY <1>2, ConcatEmptySeq DEF Bytes
    <3> QED
      BY <3>1, <3>2
  <2>8. /\ Len(Underway) = Len(M) + Len(c)
        /\ \A i \in 1 .. Len(c) : Underway[Len(M) + i] = c[i]
    <3> DEFINE k == Len(m)
               x == Len(c)
    <3>1. /\ Len(m \o c) = k + x /\ k \in Nat /\ x \in Nat
          /\ \A i \in 1 .. k + x :
               (m \o c)[i] = IF i <= k THEN m[i] ELSE c[i - k]
      BY <1>2, <2>6, BytesConcat, BytesType
    <3> HIDE DEF k, x, m, c
    <3>2. ASSUME NEW i \in 1 .. x PROVE (m \o c)[k + i] = c[i]
      <4>1. k + i \in 1 .. k + x /\ ~(k + i <= k) /\ k + i - k = i
        BY <3>1
      <4> QED
        BY <4>1, <3>1
    <3> QED
      BY <3>1, <3>2, <2>2, <2>6 DEF k, x
  <2> HIDE DEF n, h, c, m
  <2>9. Marks(e, issued, h + 1, n, c)
    <3>1. h \in 0 .. n /\ h < n
      BY <1>2, <1>4
    <3> QED
      BY <3>1, <1>4, <2>4, <2>5, <2>6, <2>8, MarksDrop, Zenon
  <2>10. \A k \in 1 .. h + 1 : handled'[k] = issued[k]
    <3>1. \A k \in 1 .. h + 1 : k \in 1 .. h \/ k = h + 1
      BY <1>4
    <3> QED
      BY <3>1, <1>5, <2>2, <2>3, Zenon
  <2>11. h + 1 <= n
    BY <1>2, <1>4
  <2>12. ~dead'
    BY <1>1, <2>1
  <2> QED
    BY <1>1, <1>5, <2>1, <2>3, <2>7, <2>9, <2>10, <2>11, <2>12, Zenon DEF Framed, n
<1>9. CASE ~Dies(m) /\ ~Complete(m)
  <2>1. msg' = m /\ UNCHANGED <<dead, handled>>
    BY <1>9, Zenon DEF Read
  <2>2. Underway' = Underway
    BY <2>1, <1>1, <1>2 DEF Underway
  <2>3. Len(m) < Len(M)
    <3>1. Len(m) # Len(M)
      BY <1>2, <1>9, Parsed, Zenon
    <3>2. Len(m) \in Nat /\ Len(M) \in Nat
      BY <1>2, <1>6, BytesType
    <3> DEFINE k == Len(m)
               K == Len(M)
    <3> HIDE DEF k, K
    <3>3. k <= K /\ k # K /\ k \in Nat /\ K \in Nat
      BY <3>1, <3>2, <1>2 DEF k, K
    <3>4. k < K
      BY <3>3
    <3> QED
      BY <3>4 DEF k, K
  <2> HIDE DEF m
  <2> QED
    BY <1>1, <1>2, <1>5, <2>1, <2>2, <2>3, Zenon DEF Framed
<1> QED
  BY <1>7, <1>8, <1>9, Zenon

\* Every step keeps the messages framed, as long as the stream is one.
LEMMA FramedKept ==
    WellTyped /\ (InOneStream => Framed) /\ [Next]_vars
      => (InOneStream' => Framed')
<1> SUFFICES ASSUME WellTyped, InOneStream => Framed, [Next]_vars, InOneStream'
             PROVE  Framed'
  OBVIOUS
<1> USE DEF InOneStream
<1>0. /\ toBoard \in Bytes /\ fifo \in Bytes /\ msg \in Bytes
      /\ (~torn => rest = <<>> /\ ~hung)
  BY Zenon DEF WellTyped
<1>1. ASSUME NEW c \in Calls, Type(c) PROVE Framed'
  <2>1. ~torn /\ ~lost /\ c.type = DATA /\ c.data # <<ESC>>
    BY <1>1 DEF Type, board
  <2>2. Message(c) = c.data
    BY <2>1, Messages
  <2>3. Proper(Message(c))
    <3>1. DATA \notin IdTypes
      BY DEF DATA, IdTypes, LOAD_TASK, START_TASK, STOP_TASK, INSPECT_TASK
    <3>2. Fits(c)
      BY <2>1, FitTypes, Zenon
    <3> QED
      BY <2>1, <3>1, <3>2, MessageProper
  <2> DEFINE m == Message(c)
  <2>4. /\ issued' = Append(issued, m) /\ toBoard' = toBoard \o m
        /\ UNCHANGED <<msg, fifo, dead, handled>>
    BY <1>1, <2>2 DEF Type, board
  <2> HIDE DEF m
  <2> QED
    BY <2>1, <2>3, <2>4, FramedIssue DEF m
<1>2. ASSUME NEW c \in Calls, Whole(c) PROVE Framed'
  <2>1. /\ ~torn /\ ~lost /\ c.type # DATA /\ (c.type \in IdTypes => c.id <= 255)
        /\ Fits(c)
    BY <1>2 DEF Whole, board
  <2>2. Proper(Message(c))
    BY <2>1, MessageProper
  <2> DEFINE m == Message(c)
  <2>3. /\ issued' = Append(issued, m) /\ toBoard' = toBoard \o m
        /\ UNCHANGED <<msg, fifo, dead, handled>>
    BY <1>2 DEF Whole, board
  <2> HIDE DEF m
  <2> QED
    BY <2>1, <2>2, <2>3, FramedIssue DEF m
<1>3. ASSUME NEW c \in Calls, Nested(c) PROVE Framed'
  BY <1>3 DEF Nested
<1>4. ASSUME NEW c \in Calls, Raise(c) PROVE Framed'
  BY <1>4 DEF Raise
<1>5. CASE FetchOffsets
  <2> DEFINE m == <<ESC, GET_OFFSETS>>
  <2>1. /\ issued' = Append(issued, m) /\ toBoard' = toBoard \o m
        /\ ~torn /\ ~lost /\ UNCHANGED <<msg, fifo, dead, handled>>
    BY <1>5 DEF FetchOffsets, board
  <2>2. Proper(m)
    <3>1. m \in Bytes
      BY ShortBytes, Zenon
    <3>2. Len(m) = 2 /\ m[1] = ESC /\ m[2] = GET_OFFSETS
      OBVIOUS
    <3>3. 2 >= 1 /\ 2 >= 2
      OBVIOUS
    <3> HIDE DEF m
    <3> QED
      BY <3>1, <3>2, <3>3, Zenon DEF Proper
  <2> HIDE DEF m
  <2> QED
    BY <2>1, <2>2, FramedIssue
<1>6. CASE Return
  <2>1. ~torn /\ ~lost /\ toBoard' = toBoard \o rest
        /\ UNCHANGED <<issued, handled, dead, msg, fifo>>
    BY <1>6 DEF Return, board
  <2>2. toBoard' = toBoard
    BY <2>1, <1>0, ConcatEmptySeq DEF Bytes
  <2> QED
    BY <2>1, <2>2, FramedStays DEF Underway
<1>7. CASE Refresh
  BY <1>7, FramedStays DEF Refresh, board, Underway
<1>8. CASE Show
  BY <1>8, FramedStays DEF Show, board, Underway
<1>9. CASE Arrive
  <2>1. /\ ~torn /\ ~lost /\ toBoard # <<>> /\ toBoard' = Tail(toBoard)
        /\ fifo' = Append(fifo, Head(toBoard))
        /\ UNCHANGED <<issued, handled, dead, msg>>
    BY <1>9 DEF Arrive
  <2>2. /\ fifo' \in Bytes /\ toBoard' \in Bytes
        /\ fifo' \o toBoard' = fifo \o toBoard
    BY <2>1, <1>0, BytesMove
  <2>3. Underway' = Underway
    <3>1. /\ msg \in Bytes /\ fifo \in Bytes /\ toBoard \in Bytes
          /\ fifo' \in Bytes /\ toBoard' \in Bytes /\ msg' = msg
      BY <1>0, <2>1, <2>2
    <3>2. \A a, b, c \in Bytes : a \o b \o c = a \o (b \o c)
      BY UnderwayBytes
    <3>3. msg \o fifo' \o toBoard' = msg \o (fifo' \o toBoard')
      BY <3>1, <3>2, Zenon
    <3>4. msg \o fifo \o toBoard = msg \o (fifo \o toBoard)
      BY <3>1, <3>2, Zenon
    <3>5. Underway' = msg \o fifo' \o toBoard'
      BY <3>1, Zenon DEF Underway
    <3> QED
      BY <2>2, <3>3, <3>4, <3>5, Zenon DEF Underway
  <2> QED
    BY <2>1, <2>3, FramedStays
<1>10. CASE Read
  BY <1>10, FramedRead DEF Read
<1>11. CASE Put
  BY <1>11, FramedStays DEF Put, board, Underway
<1>12. CASE Deafen
  BY <1>12, FramedStays DEF Deafen, board, Underway
<1>13. CASE Hear
  BY <1>13, FramedStays DEF Hear, board, Underway
<1>14. CASE UNCHANGED vars
  BY <1>14, FramedStays DEF vars, board, Underway
<1>15. CASE \/ \E c \in Calls : Unfit(c)
            \/ Misread \/ HangUp \/ ShortRead
  <2>1. torn'
    BY <1>0, <1>15 DEF Unfit, Misread, HangUp, ShortRead
  <2> QED
    BY <2>1
<1>16. CASE ReadOn
  BY <1>16, FramedStays DEF ReadOn, board, Underway
<1> QED
  BY <1>1, <1>2, <1>3, <1>4, <1>5, <1>6, <1>7, <1>8, <1>9, <1>10, <1>11, <1>12,
     <1>13, <1>14, <1>15, <1>16, Zenon DEF Next

-----------------------------------------------------------------------------
(* Answers go to the call that waits                                       *)

\* A new call waits for its own answer.
LEMMA AnswersIssue ==
    ASSUME WellTyped, Framed, Answers, ~busy, NEW m \in Seq(Nat), NEW w \in Nat,
           ReplyLen(m) \in Nat, ReplyLen(m) <= w,
           issued' = Append(issued, m), busy' = (w > 0),
           want' \in Nat, more' \in Nat, want' + more' = w, w > 0 => want' > 0,
           UNCHANGED <<toClient, out, handled>>
    PROVE  Answers'
<1> DEFINE n == Len(issued)
           h == Len(handled)
<1>1. issued \in Lists /\ handled \in Done
  BY Zenon DEF WellTyped
<1>2. /\ n \in Nat /\ h \in Nat /\ Len(issued') = n + 1
      /\ \A k \in 1 .. n : issued'[k] = issued[k]
      /\ issued'[n + 1] = m
  BY <1>1, ListsAppend, DoneAppend, Nothing
<1>3. /\ toClient' = <<>> /\ out' = <<>> /\ Len(handled') = h
      /\ Len(<<>>) = 0
  BY Nothing DEF Answers
<1>4. \A k \in h + 1 .. n : ReplyLen(issued[k]) <= 0
  BY Zenon DEF Answers
<1> HIDE DEF n, h
<1>5. ASSUME NEW k \in h + 1 .. n + 1
      PROVE  ReplyLen(issued'[k]) <= IF busy' /\ k = n + 1 THEN want' + more' ELSE 0
  <2>1. CASE k = n + 1
    <3>1. issued'[k] = m
      BY <2>1, <1>2
    <3>2. CASE w > 0
      BY <2>1, <3>1, <3>2
    <3>3. CASE ~(w > 0)
      <4>1. w = 0
        BY <3>3
      <4> QED
        BY <3>1, <3>3, <4>1
    <3> QED
      BY <3>2, <3>3
  <2>2. CASE k # n + 1
    <3>1. k \in h + 1 .. n /\ k \in 1 .. n
      BY <2>2, <1>2
    <3>2. ReplyLen(issued'[k]) <= 0
      BY <3>1, <1>2, <1>4, Zenon
    <3> QED
      BY <3>2, <2>2, Zenon
  <2> QED
    BY <2>1, <2>2
<1>6. /\ ~busy' => toClient' = <<>> /\ out' = <<>> /\ more' = 0
      /\ busy' => /\ want' > 0 /\ Len(toClient') + Len(out') <= want' + more'
                  /\ \A i \in 1 .. Len(toClient') : toClient'[i] = Len(issued')
                  /\ \A i \in 1 .. Len(out') : out'[i] = Len(issued')
                  /\ toClient' = <<>> /\ out' = <<>>
  <2>1. \A i \in 1 .. 0 : FALSE
    OBVIOUS
  <2>2. /\ busy' => want' > 0
        /\ ~busy' => more' = 0
    <3> DEFINE x == want'
               y == more'
    <3>2. x \in Nat /\ y \in Nat /\ x + y = w
      OBVIOUS
    <3> HIDE DEF x, y
    <3>1. ~(w > 0) => y = 0
      BY <3>2
    <3> USE DEF y
    <3> QED
      BY <3>1, Zenon
  <2>3. busy' => 0 + 0 <= want' + more'
    <3>1. 0 + 0 <= w
      OBVIOUS
    <3> QED
      BY <3>1
  <2> QED
    BY <1>3, <2>1, <2>2, <2>3, Zenon
<1> QED
  BY <1>2, <1>3, <1>5, <1>6, Zenon DEF Answers

\* A step that has nothing to do with calls and answers.
LEMMA AnswersStay ==
    ASSUME Answers,
           UNCHANGED <<issued, handled, busy, want, more, toClient, out>>
    PROVE  Answers'
BY DEF Answers

\* The board answers a message it has handled.
LEMMA AnswersRead ==
    ASSUME WellTyped, Framed, Answers, Read
    PROVE  Answers'
<1> DEFINE m == Append(msg, Head(fifo))
           h == Len(handled)
           n == Len(issued)
           r == ReplyLen(m)
<1>1. /\ ~dead /\ fifo # <<>> /\ out = <<>>
      /\ UNCHANGED <<issued, busy, want, more, toClient>>
  BY DEF Read, CanRead, client
<1>2. h < n /\ m \in Bytes /\ m # <<>>
  BY <1>1, ReadsFirst
<1>3. n \in Nat /\ h \in Nat /\ handled \in Done /\ want \in Nat /\ more \in Nat
  <2>1. issued \in Lists /\ handled \in Done /\ want \in Nat /\ more \in Nat
    BY Zenon DEF WellTyped
  <2> QED
    BY <2>1, ListsAppend, DoneAppend, Nothing
<1>4. CASE Dies(m) \/ ~Complete(m)
  <2>1. UNCHANGED <<out, handled>>
    BY <1>4 DEF Read
  <2> QED
    BY <2>1, <1>1, AnswersStay
<1>5. CASE ~Dies(m) /\ Complete(m)
  <2>1. /\ handled' = Append(handled, m)
        /\ out' = [i \in 1 .. r |-> Len(handled')]
    BY <1>5, Zenon DEF Read
  <2>2. Len(handled') = h + 1 /\ handled'[h + 1] = m
    BY <2>1, <1>2, <1>3, DoneAppend
  <2>3. m = issued[h + 1]
    <3>1. \A k \in 1 .. Len(handled') : handled'[k] = issued'[k]
      BY FramedRead, Zenon DEF Framed
    <3>2. h + 1 \in 1 .. h + 1
      BY <1>3
    <3> QED
      BY <1>1, <2>2, <3>1, <3>2, Zenon
  <2>4. r \in Nat
    BY <1>2, <1>5, ReplyNat
  <2>5. r <= IF busy /\ h + 1 = n THEN want + more ELSE 0
    <3>1. h + 1 \in h + 1 .. n
      BY <1>2, <1>3
    <3> QED
      BY <2>3, <3>1, Zenon DEF Answers
  <2>6. toClient = <<>>
    BY <1>2, Zenon DEF Answers
  <2>7. busy => want > 0
    BY Zenon DEF Answers
  <2>8. \A k \in h + 1 .. n :
          ReplyLen(issued[k]) <= IF busy /\ k = n THEN want + more ELSE 0
    BY Zenon DEF Answers
  <2>9. /\ Len(out') = r
        /\ \A i \in 1 .. Len(out') : out'[i] = h + 1
        /\ r = 0 => out' = <<>>
    <3>1. out' = [i \in 1 .. r |-> h + 1]
      BY <2>1, <2>2
    <3> HIDE DEF r, h
    <3> QED
      BY <3>1, <2>4, <1>3, AnswerNew
  <2>10. Len(<<>>) = 0
    BY Nothing
  <2>11. /\ toClient' = toClient /\ issued' = issued /\ busy' = busy
         /\ want' = want /\ more' = more
    BY <1>1
  <2> DEFINE x == Len(out')
             y == out'
             g == Len(handled')
             s == issued
  <2>12. x = r /\ (\A i \in 1 .. x : y[i] = h + 1) /\ (r = 0 => y = <<>>)
         /\ g = h + 1
    BY <2>2, <2>9
  <2> HIDE DEF m, h, n, r, x, y, g, s
  <2>13. \A k \in g + 1 .. n :
           ReplyLen(s[k]) <= IF busy /\ k = n THEN want + more ELSE 0
    <3>1. \A k \in g + 1 .. n : k \in h + 1 .. n
      BY <1>3, <2>12
    <3> QED
      BY <2>8, <3>1, Zenon DEF s
  <2>14. ~busy => y = <<>> /\ more = 0
    <3>1. ~busy => more = 0
      BY Zenon DEF Answers
    <3> QED
      BY <3>1, <2>4, <2>5, <2>12
  <2>15. busy => /\ want > 0 /\ 0 + x <= want + more
                 /\ \A i \in 1 .. x : y[i] = n
                 /\ g < n => y = <<>>
    <3>1. SUFFICES ASSUME busy PROVE /\ want > 0 /\ 0 + x <= want + more
                                     /\ \A i \in 1 .. x : y[i] = n
                                     /\ g < n => y = <<>>
      OBVIOUS
    <3>2. CASE h + 1 = n
      BY <3>1, <3>2, <2>4, <2>5, <2>7, <2>12, <1>3
    <3>3. CASE h + 1 # n
      <4>1. r = 0
        BY <3>3, <2>4, <2>5
      <4> QED
        BY <4>1, <3>1, <2>7, <2>12, <1>3
    <3> QED
      BY <3>2, <3>3
  <2>16. \A i \in 1 .. 0 : <<>>[i] = n
    OBVIOUS
  <2> QED
    BY <2>6, <2>10, <2>11, <2>13, <2>14, <2>15, <2>16, Zenon
       DEF Answers, x, y, g, n, s
<1> QED
  BY <1>4, <1>5, Zenon

\* The transmitter sends a byte of the answer.
LEMMA AnswersPut ==
    ASSUME WellTyped, Framed, Answers, ~hung, Put
    PROVE  Answers'
<1> DEFINE h == Len(handled)
           n == Len(issued)
<1>1. /\ out # <<>> /\ toClient' = Append(toClient, Head(out))
      /\ out' = Tail(out) /\ UNCHANGED <<issued, handled, busy, want, more>>
  BY DEF Put, client
<1>2. /\ busy /\ ~(h < n) /\ want > 0 /\ Len(toClient) + Len(out) <= want + more
      /\ \A i \in 1 .. Len(toClient) : toClient[i] = n
      /\ \A i \in 1 .. Len(out) : out[i] = n
  BY <1>1, Zenon DEF Answers
<1>3. \A k \in h + 1 .. n :
        ReplyLen(issued[k]) <= IF busy /\ k = n THEN want + more ELSE 0
  BY Zenon DEF Answers
<1>4. /\ Len(toClient) \in Nat /\ Len(out) \in Nat
      /\ Len(toClient') = Len(toClient) + 1
      /\ Len(out') = Len(out) - 1 /\ Len(out) >= 1
      /\ \A i \in 1 .. Len(toClient) : toClient'[i] = toClient[i]
      /\ toClient'[Len(toClient) + 1] = out[1]
      /\ \A i \in 1 .. Len(out) - 1 : out'[i] = out[i + 1]
  <2>1. toClient \in Answer(h) /\ out \in Answer(h)
    BY Zenon DEF WellTyped
  <2> HIDE DEF h
  <2> QED
    BY <1>1, <2>1, AnswerMoves
<1>5. want \in Nat /\ more \in Nat
  BY Zenon DEF WellTyped
<1> DEFINE x == Len(toClient)
           y == Len(out)
           x2 == Len(toClient')
           y2 == Len(out')
<1> HIDE DEF x, y, x2, y2, n, h
<1>6. x2 + y2 <= want + more
  BY <1>2, <1>4, <1>5 DEF x, y, x2, y2
<1>7. ASSUME NEW i \in 1 .. x2 PROVE toClient'[i] = n
  <2>1. x2 = x + 1 /\ x \in Nat /\ y \in Nat /\ y >= 1
    BY <1>4 DEF x, y, x2
  <2>2. CASE i = x + 1
    <3>1. 1 \in 1 .. y
      BY <2>1
    <3> QED
      BY <2>2, <3>1, <1>2, <1>4, Zenon DEF x, y
  <2>3. CASE i # x + 1
    <3>1. i \in 1 .. x
      BY <2>1, <2>3
    <3> QED
      BY <3>1, <1>2, <1>4, Zenon DEF x
  <2> QED
    BY <2>2, <2>3
<1>8. ASSUME NEW i \in 1 .. y2 PROVE out'[i] = n
  <2>1. y2 = y - 1 /\ y \in Nat
    BY <1>4 DEF y, y2
  <2>2. i \in 1 .. y - 1 /\ i + 1 \in 1 .. y
    BY <2>1
  <2> QED
    BY <2>2, <1>2, <1>4, Zenon DEF y
<1> QED
  BY <1>1, <1>2, <1>3, <1>6, <1>7, <1>8, Zenon DEF Answers, x2, y2, n, h

\* A call takes the first part of its answer and waits for the second.
LEMMA AnswersReadOn ==
    ASSUME WellTyped, Answers, ReadOn
    PROVE  Answers'
<1> DEFINE h == Len(handled)
           n == Len(issued)
           x == Len(toClient)
           y == Len(out)
           z == Len(toClient')
<1>1. /\ busy /\ busy' = busy /\ want <= x /\ more > 0
      /\ toClient' = SubSeq(toClient, want + 1, x)
      /\ want' = more /\ more' = 0
      /\ UNCHANGED <<issued, handled, out>>
  BY DEF ReadOn, board
<1>2. /\ want > 0 /\ x + y <= want + more
      /\ \A i \in 1 .. x : toClient[i] = n
      /\ \A i \in 1 .. y : out[i] = n
      /\ h < n => toClient = <<>> /\ out = <<>>
  BY <1>1, Zenon DEF Answers
<1>3. toClient \in Answer(h) /\ out \in Answer(h) /\ want \in Nat /\ more \in Nat
  BY Zenon DEF WellTyped
<1>4. /\ x \in Nat /\ y \in Nat /\ (toClient = <<>> => x = 0)
  BY <1>3, EmptySeq, LenProperties DEF Answer
<1>5. n \in Nat /\ h \in Nat
  <2>1. issued \in Lists /\ handled \in Done
    BY Zenon DEF WellTyped
  <2> QED
    BY <2>1, ListsAppend, DoneAppend, Nothing
<1>6. /\ z = x - want
      /\ \A i \in 1 .. z : toClient'[i] = toClient[want + i]
  <2> HIDE DEF h, x
  <2>1. /\ Len(SubSeq(toClient, want + 1, x)) = x - want
        /\ \A i \in 1 .. x - want :
             SubSeq(toClient, want + 1, x)[i] = toClient[want + i]
    BY <1>1, <1>3, AnswerRest DEF x
  <2> QED
    BY <1>1, <2>1
<1> HIDE DEF h, n, x, y, z
<1>7. ~(h < n)
  BY <1>1, <1>2, <1>3, <1>4
<1>8. want' > 0 /\ z + y <= want' + more'
  BY <1>1, <1>2, <1>3, <1>4, <1>6
<1>9. \A i \in 1 .. z : toClient'[i] = n
  <2>1. \A i \in 1 .. z : want + i \in 1 .. x
    BY <1>1, <1>3, <1>4, <1>6
  <2> QED
    BY <2>1, <1>2, <1>6, Zenon
<1>10. h + 1 .. n = {}
  BY <1>5, <1>7
<1>11. \A k \in h + 1 .. n :
         ReplyLen(issued[k]) <= IF busy /\ k = n THEN want' + more' ELSE 0
  BY <1>10
<1> QED
  BY <1>1, <1>2, <1>7, <1>8, <1>9, <1>11, Zenon DEF Answers, h, n, x, y, z

\* Every step keeps the answers with their calls, as long as the stream is one
\* and no plain data is typed.
LEMMA AnswersKept ==
    WellTyped /\ (InOneStream => Framed) /\ (InOneStream /\ ~chatty => Answers)
      /\ [Next]_vars => (InOneStream' /\ ~chatty' => Answers')
<1> SUFFICES ASSUME WellTyped, InOneStream => Framed,
                    InOneStream /\ ~chatty => Answers, [Next]_vars,
                    InOneStream', ~chatty'
             PROVE  Answers'
  OBVIOUS
<1> USE DEF InOneStream
<1>1. ASSUME NEW c \in Calls, Type(c) PROVE Answers'
  BY <1>1 DEF Type
<1>2. ASSUME NEW c \in Calls, Whole(c) PROVE Answers'
  <2>1. /\ ~torn /\ ~lost /\ ~chatty /\ ~busy /\ c.type # DATA /\ Fits(c)
        /\ (c.type \in IdTypes => c.id <= 255)
    BY <1>2 DEF Whole, board, MayCall
  <2> DEFINE m == Message(c)
             w == Wanted(c)
  <2>2. /\ issued' = Append(issued, m) /\ busy' = (w > 0)
        /\ UNCHANGED <<toClient, out, handled>>
    BY <1>2 DEF Whole, board
  <2>3. ReplyLen(m) \in Nat /\ ReplyLen(m) <= w
    BY <2>1, ReplyWanted
  <2>4. m \in Seq(Nat)
    BY <2>1, MessageTypesHold
  <2>5. /\ w \in Nat /\ want' \in Nat /\ more' \in Nat /\ want' + more' = w
        /\ w > 0 => want' > 0
    <3>1. want' = First(c) /\ more' = Wanted(c) - First(c)
      BY <1>2 DEF Whole
    <3> QED
      BY <2>1, <3>1, Parts, Zenon
  <2> HIDE DEF m, w
  <2> QED
    BY <2>1, <2>2, <2>3, <2>4, <2>5, AnswersIssue
<1>3. ASSUME NEW c \in Calls, Nested(c) PROVE Answers'
  BY <1>3 DEF Nested
<1>4. ASSUME NEW c \in Calls, Raise(c) PROVE Answers'
  BY <1>4 DEF Raise
<1>5. CASE FetchOffsets
  <2> DEFINE m == <<ESC, GET_OFFSETS>>
  <2>1. /\ ~torn /\ ~lost /\ ~chatty /\ ~busy
        /\ issued' = Append(issued, m) /\ busy' = TRUE
        /\ want' = OFFSETS_LEN /\ more' = more
        /\ UNCHANGED <<toClient, out, handled>>
    BY <1>5 DEF FetchOffsets, board, MayCall
  <2>6. more = 0
    BY <2>1, Zenon DEF Answers
  <2>2. ReplyLen(m) = OFFSETS_LEN
    <3>1. m[1] = ESC /\ m[2] = GET_OFFSETS
      OBVIOUS
    <3> HIDE DEF m
    <3> QED
      BY <3>1 DEF ReplyLen, ESC, PING, GET_OFFSETS, GET_BUILTIN_LOCATIONS,
                  INSPECT_TASK, GET_MEMORY
  <2>3. m \in Seq(Nat)
    BY ShortBytes, BytesAreNat
  <2>4. OFFSETS_LEN \in Nat /\ OFFSETS_LEN > 0 /\ OFFSETS_LEN <= OFFSETS_LEN
    BY Sizes
  <2>5. busy' = (OFFSETS_LEN > 0)
    BY <2>1, <2>4
  <2> HIDE DEF m
  <2>7. want' \in Nat /\ more' \in Nat /\ want' + more' = OFFSETS_LEN /\ want' > 0
    BY <2>1, <2>4, <2>6
  <2> QED
    BY <2>1, <2>2, <2>3, <2>4, <2>5, <2>7, AnswersIssue
<1>6. CASE Return
  <2> DEFINE h == Len(handled)
             n == Len(issued)
             x == Len(toClient)
             y == Len(out)
  <2>1. /\ ~torn /\ ~lost /\ ~chatty /\ busy /\ ~busy' /\ want <= x
        /\ toClient' = SubSeq(toClient, want + 1, x)
        /\ more = 0 /\ UNCHANGED <<issued, handled, out, more>>
    BY <1>6 DEF Return, board
  <2>2. /\ want > 0 /\ x + y <= want + more
        /\ h < n => toClient = <<>> /\ out = <<>>
    BY <2>1, Zenon DEF Answers
  <2>3. toClient \in Answer(h) /\ out \in Answer(h) /\ want \in Nat
    BY Zenon DEF WellTyped
  <2>4. /\ x \in Nat /\ y \in Nat /\ (y = 0 => out = <<>>)
        /\ (toClient = <<>> => x = 0)
    BY <2>3, EmptySeq, LenProperties DEF Answer
  <2>5. n \in Nat /\ h \in Nat
    <3>1. issued \in Lists /\ handled \in Done
      BY Zenon DEF WellTyped
    <3> QED
      BY <3>1, ListsAppend, DoneAppend, Nothing
  <2> HIDE DEF h, n, x, y
  <2>6. x = want /\ y = 0 /\ out = <<>>
    BY <2>1, <2>2, <2>3, <2>4
  <2>7. ~(h < n)
    BY <2>2, <2>3, <2>4, <2>6
  <2>8. toClient' = <<>>
    BY <2>1, <2>3, <2>6, AnswerTaken DEF x
  <2>9. h + 1 .. n = {}
    BY <2>5, <2>7
  <2> QED
    BY <2>1, <2>6, <2>8, <2>9, Zenon DEF Answers, h, n
<1>7. CASE Refresh
  BY <1>7, AnswersStay DEF Refresh, board
<1>8. CASE Show
  BY <1>8 DEF Show, Answers, board, client
<1>9. CASE Arrive
  BY <1>9, AnswersStay DEF Arrive, client
<1>10. CASE Read
  <2>1. ~torn /\ ~lost /\ ~chatty
    BY <1>10 DEF Read
  <2> QED
    BY <2>1, <1>10, AnswersRead
<1>11. CASE Put
  <2>1. ~torn /\ ~lost /\ ~chatty /\ ~hung
    BY <1>11, Zenon DEF Put, WellTyped
  <2> QED
    BY <2>1, <1>11, AnswersPut
<1>12. CASE Deafen
  BY <1>12, AnswersStay DEF Deafen, board, client
<1>13. CASE Hear
  BY <1>13, AnswersStay DEF Hear, board, client
<1>14. CASE UNCHANGED vars
  BY <1>14, AnswersStay DEF vars, board, client
<1>15. CASE \/ \E c \in Calls : Unfit(c)
            \/ Misread \/ HangUp \/ ShortRead
  <2>1. torn'
    <3>1. ~torn => ~hung
      BY Zenon DEF WellTyped
    <3> QED
      BY <3>1, <1>15 DEF Unfit, Misread, HangUp, ShortRead
  <2> QED
    BY <2>1
<1>16. CASE ReadOn
  BY <1>16, AnswersReadOn DEF ReadOn, board
<1> QED
  BY <1>1, <1>2, <1>3, <1>4, <1>5, <1>6, <1>7, <1>8, <1>9, <1>10, <1>11, <1>12,
     <1>13, <1>14, <1>15, <1>16, Zenon DEF Next

-----------------------------------------------------------------------------
(* The theorems                                                            *)

\* Initially nothing is under way.
LEMMA Starts == Init => IInv
<1> SUFFICES ASSUME Init PROVE IInv
  OBVIOUS
<1>1. /\ <<>> \in Bytes /\ <<>> \in Lists /\ <<>> \in Done
      /\ \A n : <<>> \in Answer(n)
      /\ Len(<<>>) = 0
  BY Nothing
<1>2. 0 <= RX_CAPACITY /\ 0 <= MaxCalls /\ 0 \in Nat
  BY Sizes
<1>3. StartsCached \in BOOLEAN
  BY WireAssumption
<1>4. WellTyped
  BY <1>1, <1>2, <1>3 DEF Init, WellTyped
<1>5. Framed
  <2>1. Underway = <<>>
    <3>1. <<>> \o <<>> = <<>>
      BY <1>1, ConcatEmptySeq DEF Bytes
    <3> QED
      BY <3>1 DEF Init, Underway
  <2>2. Marks([k \in 0 .. 0 |-> 0], issued, 0, 0, <<>>)
    <3>1. \A k \in 0 + 1 .. 0 : FALSE
      OBVIOUS
    <3> QED
      BY <1>1, <3>1 DEF Marks
  <2>3. Len(issued) = 0 /\ Len(handled) = 0 /\ msg = <<>> /\ ~dead
    BY <1>1 DEF Init
  <2>4. \A k \in 1 .. 0 : FALSE
    OBVIOUS
  <2>5. 0 <= 0
    OBVIOUS
  <2> QED
    BY <2>1, <2>2, <2>3, <2>4, <2>5, Zenon DEF Framed
<1>6. Answers
  <2>1. \A k \in 0 + 1 .. 0 : FALSE
    OBVIOUS
  <2>2. Len(issued) = 0 /\ Len(handled) = 0
    BY <1>1 DEF Init
  <2> QED
    BY <2>1, <2>2 DEF Init, Answers
<1> QED
  BY <1>4, <1>5, <1>6 DEF IInv

\* The inductive invariant holds in every state.
LEMMA Inductive == Spec => []IInv
<1>1. IInv /\ [Next]_vars => IInv'
  BY TypesKept, FramedKept, AnswersKept DEF IInv
<1> QED
  BY Starts, <1>1, PTL DEF Spec

\* Type correctness of the line, the receive buffer's limit included, whatever
\* calls are made.
THEOREM TypeCorrect == Spec => []TypeOK
<1>1. IInv => TypeOK
  BY TypesAgree DEF IInv
<1> QED
  BY Inductive, <1>1, PTL

\* The board handles the messages of the calls in order, each once, as long as
\* no byte was dropped and every call wrote a whole message: the handler, which
\* finds the end of a message by its type and sizes alone, never gets out of
\* step with the client.
THEOREM HandledInOrder == Spec => []InOrder
<1>1. ASSUME IInv PROVE InOrder
  <2>1. SUFFICES ASSUME InOneStream PROVE IsPrefix(handled, issued)
    BY DEF InOrder
  <2> DEFINE h == Len(handled)
             n == Len(issued)
  <2>2. /\ h <= n /\ \A k \in 1 .. h : handled[k] = issued[k]
    BY <1>1, <2>1, Zenon DEF IInv, Framed
  <2>3. issued \in Lists /\ handled \in Done
    BY <1>1, Zenon DEF IInv, WellTyped
  <2>4. n \in Nat /\ h \in Nat
    BY <2>3, ListsAppend, DoneAppend, Nothing
  <2> DEFINE t == SubSeq(issued, 1, h)
  <2>5. handled = t
    <3>1. handled \in Seq(Seq(Nat)) /\ issued \in Seq(Seq(Nat))
      <4>1. Bytes \subseteq Seq(Nat)
        BY BytesAreNat
      <4> QED
        BY <2>3, <4>1, SeqMonotonic DEF Done, Lists
    <3> DEFINE S == Seq(Nat)
    <3> HIDE DEF S
    <3>2. issued \in Seq(S) /\ handled \in Seq(S)
      BY <3>1 DEF S
    <3> HIDE DEF t
    <3>3. t \in Seq(S) /\ Len(t) = h /\ \A i \in 1 .. h : t[i] = issued[i]
      <4>1. \A i \in 1 .. h : issued[i] \in S
        <5>1. \A i \in 1 .. h : i \in 1 .. n
          BY <2>2, <2>4
        <5> QED
          BY <3>2, <5>1, ElementOfSeq
      <4> HIDE DEF h
      <4>2. 1 \in Int /\ h \in Int /\ (IF 1 <= h THEN h - 1 + 1 ELSE 0) = h
        BY <2>4
      <4> QED
        BY <4>1, <4>2, <2>4, SubSeqProperties DEF t
    <3> QED
      BY <3>2, <3>3, <2>2, SeqEqual
  <2> QED
    BY <2>2, <2>5 DEF IsPrefix
<1> QED
  BY Inductive, <1>1, PTL

\* The board dies, as long as the stream is one, of the id in the message whose
\* turn it is, and only when that names a slot the table has not: no byte of a
\* payload, a heap or a number is ever taken for a message type.
THEOREM DeathsHaveCause == Spec => []DeathHasCause
<1>1. IInv => DeathHasCause
  BY Zenon DEF IInv, Framed, Fatal, DeathHasCause
<1> QED
  BY Inductive, <1>1, PTL

\* A call that takes bytes takes the answer to its own message and nothing
\* else, although an answer carries no sign of what it answers, unless plain
\* data made the board talk of itself, a byte was dropped or a message broke
\* off.
THEOREM AnswersAreOwn == Spec => OwnAnswer
<1>1. ASSUME IInv, Return \/ ReadOn, InOneStream, ~chatty
      PROVE  \A i \in 1 .. want : toClient[i] = Len(issued)
  <2>1. busy /\ want <= Len(toClient)
    BY <1>1 DEF Return, ReadOn
  <2>2. \A i \in 1 .. Len(toClient) : toClient[i] = Len(issued)
    BY <1>1, <2>1, Zenon DEF IInv, Answers
  <2>3. Len(toClient) \in Nat /\ want \in Nat
    <3>1. toClient \in Answer(Len(handled)) /\ want \in Nat
      BY <1>1, Zenon DEF IInv, WellTyped
    <3> QED
      BY <3>1, LenProperties DEF Answer
  <2>4. \A i \in 1 .. want : i \in 1 .. Len(toClient)
    BY <2>1, <2>3
  <2> QED
    BY <2>2, <2>4
<1>2. IInv => [(Return \/ ReadOn) /\ InOneStream /\ ~chatty
                 => \A i \in 1 .. want : toClient[i] = Len(issued)]_vars
  BY <1>1
<1> QED
  BY Inductive, <1>2, PTL DEF OwnAnswer

\* The receive buffer overruns only while interrupts are off, or once plain
\* data was typed, a message broke off or the board died: the protocol alone,
\* in which one side is silent while the other talks, needs no flow control.
THEOREM OverrunsHaveCause == Spec => OverrunHasCause
<1>1. ASSUME IInv, [Next]_vars, lost', ~lost, ~deaf, ~chatty, ~torn, ~dead
      PROVE  FALSE
  <2>1. Arrive /\ ~(Len(fifo) < RX_CAPACITY)
    BY <1>1 DEF Next, vars, board, client, Type, Whole, Unfit, Nested, Raise,
       FetchOffsets, Return, ReadOn, Misread, HangUp, ShortRead, Refresh, Show, Arrive, Read, Put, Deafen, Hear
  <2>2. fifo # <<>>
    <3>1. Len(<<>>) = 0
      BY Nothing
    <3> QED
      BY <2>1, <3>1, Sizes
  <2>3. out # <<>>
    BY <1>1, <2>1, <2>2 DEF Arrive, CanRead
  <2>4. WellTyped /\ Framed /\ Answers
    BY <1>1 DEF IInv, InOneStream
  <2>5. ~(Len(handled) < Len(issued))
    BY <2>3, <2>4 DEF Answers
  <2> QED
    BY <1>1, <2>2, <2>4, <2>5, ReadsFirst
<1>2. IInv /\ [Next]_vars =>
        [lost' /\ ~lost => deaf \/ chatty \/ torn \/ dead]_vars
  BY <1>1
<1> QED
  BY Inductive, <1>2, PTL DEF OverrunHasCause, Spec

-----------------------------------------------------------------------------
(* What a user sees                                                        *)

\* As long as the stream is one, what a step does to the messages is a step of
\* the conversation.
LEMMA EveryStep == IInv /\ IInv' /\ [Next]_vars => [Talk!Next]_(Talk!vars)
<1> SUFFICES ASSUME IInv, IInv', [Next]_vars
             PROVE  [Talk!Next]_(Talk!vars)
  OBVIOUS
<1> DEFINE fine  == ~lost /\ ~torn /\ ~chatty
           keeps == UNCHANGED <<issued, handled, busy, lost, torn, chatty>>
           h == Len(handled)
           n == Len(issued)
<1>0. WellTyped /\ (fine => Framed /\ Answers)
  BY DEF IInv, InOneStream
<1>1. h \in Nat /\ n \in Nat /\ issued \in Lists /\ handled \in Done
  <2>1. issued \in Lists /\ handled \in Done
    BY <1>0, Zenon DEF WellTyped
  <2> QED
    BY <2>1, ListsAppend, DoneAppend, Nothing
<1>2. ASSUME lost' \/ torn' \/ chatty' PROVE Talk!Next
  BY <1>2 DEF Talk!Next, Talk!Break, InOneStream
<1>3. ASSUME keeps PROVE UNCHANGED Talk!vars
  BY <1>3 DEF Talk!vars, InOneStream
<1>4. ASSUME NEW m \in Seq(Nat), ~busy, issued' = Append(issued, m),
             busy' \in BOOLEAN, UNCHANGED <<handled, lost, torn, chatty>>
      PROVE  Talk!Next
  <2>1. Len(issued') = n + 1 /\ issued'[n + 1] = m
    BY <1>1, <1>4, ListsAppend
  <2> QED
    BY <1>4, <2>1 DEF Talk!Next, Talk!Ask, InOneStream
<1>5. ASSUME NEW c \in Calls, Type(c) PROVE Talk!Next
  BY <1>2, <1>5 DEF Type
<1>6. ASSUME NEW c \in Calls, Whole(c) PROVE Talk!Next
  <2> DEFINE m == Message(c)
  <2>1. m \in Seq(Nat)
    BY <1>6, MessageTypesHold DEF Whole
  <2>2. /\ ~busy /\ issued' = Append(issued, m) /\ busy' \in BOOLEAN
        /\ UNCHANGED <<handled, lost, torn, chatty>>
    BY <1>6 DEF Whole, MayCall, board
  <2> HIDE DEF m
  <2> QED
    BY <1>4, <2>1, <2>2
<1>7. ASSUME NEW c \in Calls, Nested(c) \/ Raise(c) \/ Unfit(c) PROVE Talk!Next
  BY <1>2, <1>7 DEF Nested, Raise, Unfit
<1>8. ASSUME FetchOffsets PROVE Talk!Next
  <2> DEFINE m == <<ESC, GET_OFFSETS>>
  <2>1. m \in Seq(Nat)
    BY ShortBytes, BytesAreNat
  <2>2. /\ ~busy /\ issued' = Append(issued, m) /\ busy' \in BOOLEAN
        /\ UNCHANGED <<handled, lost, torn, chatty>>
    BY <1>8 DEF FetchOffsets, MayCall, board
  <2> HIDE DEF m
  <2> QED
    BY <1>4, <2>1, <2>2
<1>9. ASSUME Return PROVE Talk!Next
  <2>1. /\ busy /\ busy' = FALSE /\ want <= Len(toClient)
        /\ UNCHANGED <<issued, handled, lost, torn, chatty>>
    BY <1>9 DEF Return, board
  <2>2. CASE fine
    <3>1. Framed /\ want > 0 /\ (h < n => toClient = <<>>)
      BY <1>0, <2>1, <2>2, Zenon DEF Answers
    <3>2. ~(h < n)
      <4>1. Len(<<>>) = 0
        BY Nothing
      <4>2. want \in Nat
        BY <1>0, Zenon DEF WellTyped
      <4> QED
        BY <2>1, <3>1, <4>1, <4>2
    <3>3. h <= n /\ \A k \in 1 .. h : handled[k] = issued[k]
      BY <3>1, Zenon DEF Framed
    <3>4. h = n
      BY <1>1, <3>2, <3>3
    <3>5. handled = issued
      <4> DEFINE S == Seq(Nat)
      <4>1. handled \in Seq(S) /\ issued \in Seq(S)
        <5>1. Bytes \subseteq Seq(Nat)
          BY BytesAreNat
        <5> QED
          BY <1>1, <5>1, SeqMonotonic DEF Done, Lists
      <4> HIDE DEF S
      <4> QED
        BY <3>3, <3>4, <4>1, SeqEqual
    <3> QED
      BY <2>1, <3>5 DEF Talk!Next, Talk!Answer, InOneStream
  <2>3. CASE ~fine
    BY <1>2, <2>1, <2>3
  <2> QED
    BY <2>2, <2>3
<1>10. ASSUME Refresh \/ Put \/ Deafen \/ Hear \/ ReadOn PROVE keeps
  BY <1>10 DEF Refresh, Put, Deafen, Hear, ReadOn, client, board
<1>11. ASSUME Show PROVE keeps
  BY <1>11 DEF Show, client, board
<1>12. ASSUME Arrive PROVE keeps \/ Talk!Next
  <2>1. UNCHANGED <<issued, handled, busy, torn, chatty>> /\ (lost' \/ lost' = lost)
    BY <1>12 DEF Arrive, client
  <2> QED
    BY <1>2, <2>1
<1>13. ASSUME Read PROVE keeps \/ Talk!Next
  <2> DEFINE m == Append(msg, Head(fifo))
  <2>1. /\ UNCHANGED <<issued, busy, lost, torn, chatty>> /\ fifo # <<>> /\ ~dead
    BY <1>13 DEF Read, CanRead, client
  <2>2. CASE handled' = handled
    BY <2>1, <2>2
  <2>3. CASE handled' = Append(handled, m)
    <3>1. CASE fine
      <4>1. Framed /\ Framed'
        BY <1>0, <2>1, <3>1 DEF IInv, InOneStream
      <4>2. h < n /\ m \in Bytes
        BY <1>0, <2>1, <4>1, ReadsFirst
      <4>3. Len(handled') = h + 1 /\ handled'[h + 1] = m
        BY <1>1, <2>3, <4>2, DoneAppend
      <4>4. m = issued[h + 1]
        <5>1. \A k \in 1 .. Len(handled') : handled'[k] = issued'[k]
          BY <4>1, Zenon DEF Framed
        <5>2. h + 1 \in 1 .. h + 1
          BY <1>1
        <5> QED
          BY <2>1, <4>3, <5>1, <5>2, Zenon
      <4> HIDE DEF m
      <4> QED
        BY <2>1, <2>3, <4>2, <4>4 DEF Talk!Next, Talk!Handle, InOneStream
    <3>2. CASE ~fine
      BY <1>2, <2>1, <3>2
    <3> QED
      BY <3>1, <3>2
  <2>4. handled' = handled \/ handled' = Append(handled, m)
    BY <1>13, Zenon DEF Read
  <2> QED
    BY <2>2, <2>3, <2>4
<1>14. ASSUME UNCHANGED vars PROVE keeps
  BY <1>14 DEF vars, client, board
<1>15. ASSUME Misread \/ HangUp \/ ShortRead PROVE Talk!Next
  <2>1. hung => torn
    BY <1>0, Zenon DEF WellTyped
  <2> QED
    BY <1>2, <1>15, <2>1 DEF Misread, HangUp, ShortRead
<1> HIDE DEF keeps
<1> QED
  BY <1>3, <1>5, <1>6, <1>7, <1>8, <1>9, <1>10, <1>11, <1>12, <1>13, <1>14, <1>15,
     Zenon DEF Next

\* The bytes on the line, the receive buffer and the handler inside the
\* interrupt implement the conversation a user sees: a message is handled once,
\* in its turn, and before the call that waits for its answer returns.
THEOREM ImplementsConversation == Spec => ConversationSpec
<1>1. Init => Talk!Init
  BY DEF Init, Talk!Init, InOneStream
<1> QED
  BY Inductive, EveryStep, <1>1, PTL DEF ConversationSpec, Talk!Spec, Spec

=============================================================================
