--------------------------- MODULE UsbWriteProofs ---------------------------
(***************************************************************************)
(* Proofs about the write side of the USB driver, for every number of      *)
(* callers, every size of the buffer and of the URB, and every bound; and  *)
(* the lemmas about the circular buffer they rest on: it holds what was    *)
(* put and not yet got, in that order.                                     *)
(***************************************************************************)
EXTENDS UsbWrite, SequenceTheorems, TLAPS

-----------------------------------------------------------------------------
(* Sizes and pointers                                                      *)

\* A remainder is the number itself, or less by one multiple.
LEMMA ModOnce ==
    ASSUME NEW n \in Nat \ {0}, NEW a \in 0 .. 2 * n - 1
    PROVE  a % n = IF a < n THEN a ELSE a - n
<1>1. CASE a < n
  BY <1>1
<1>2. CASE ~(a < n)
  BY <1>2
<1> QED
  BY <1>1, <1>2

\* ch34x_buf_data_avail and ch34x_buf_space_avail without a remainder.
LEMMA Available ==
    ASSUME NEW B, NEW pb \in Buffers(B)
    PROVE  /\ DataAvail(pb) = IF pb.get <= pb.put THEN pb.put - pb.get
                              ELSE BUF_SIZE + pb.put - pb.get
           /\ SpaceAvail(pb) = BUF_SIZE - 1 - DataAvail(pb)
           /\ DataAvail(pb) \in 0 .. BUF_SIZE - 1
           /\ SpaceAvail(pb) \in 0 .. BUF_SIZE - 1
<1>1. /\ BUF_SIZE \in Nat \ {0}
      /\ pb.get \in 0 .. BUF_SIZE - 1 /\ pb.put \in 0 .. BUF_SIZE - 1
  BY RingAssumption DEF Buffers, Index
<1>2. /\ BUF_SIZE + pb.put - pb.get \in 0 .. 2 * BUF_SIZE - 1
      /\ BUF_SIZE + pb.get - pb.put - 1 \in 0 .. 2 * BUF_SIZE - 1
  BY <1>1
<1>3. DataAvail(pb) = IF pb.get <= pb.put THEN pb.put - pb.get
                      ELSE BUF_SIZE + pb.put - pb.get
  BY <1>1, <1>2, ModOnce DEF DataAvail
<1>4. SpaceAvail(pb) = IF pb.put < pb.get THEN pb.get - pb.put - 1
                       ELSE BUF_SIZE + pb.get - pb.put - 1
  BY <1>1, <1>2, ModOnce DEF SpaceAvail
<1> QED
  BY <1>1, <1>3, <1>4
\* A pointer after at most as many bytes as there are in the memory.
LEMMA Pointer ==
    ASSUME NEW p \in Index, NEW count \in 0 .. BUF_SIZE - 1
    PROVE  /\ Advanced(p, count) \in Index
           /\ Advanced(p, count) = IF p + count < BUF_SIZE THEN p + count
                                   ELSE p + count - BUF_SIZE
BY RingAssumption DEF Advanced, Index

-----------------------------------------------------------------------------
(* Contents                                                                *)

\* Where the i-th of the waiting bytes is.
Slot(get, i) ==
    IF i <= BUF_SIZE - get THEN get + i - 1 ELSE get + i - 1 - BUF_SIZE

\* The bytes got are the oldest; with all of them got there is nothing else.
LEMMA ContentsAre ==
    ASSUME NEW B, NEW pb \in Buffers(B)
    PROVE  /\ Contents(pb) = [i \in 1 .. DataAvail(pb) |-> pb.buf[Slot(pb.get, i)]]
           /\ Contents(pb) \in Seq(B)
           /\ Len(Contents(pb)) = DataAvail(pb)
           /\ \A i \in 1 .. DataAvail(pb) :
                 /\ Slot(pb.get, i) \in Index
                 /\ Contents(pb)[i] = pb.buf[Slot(pb.get, i)]
<1> DEFINE n == DataAvail(pb)
<1>1. /\ BUF_SIZE \in Nat \ {0} /\ n \in 0 .. BUF_SIZE - 1
      /\ pb.get \in 0 .. BUF_SIZE - 1
      /\ pb.buf \in [Index -> B]
  BY RingAssumption, Available DEF Buffers, Index
<1> HIDE DEF n
<1>2. ASSUME NEW i \in 1 .. n
      PROVE  /\ Slot(pb.get, i) \in Index
             /\ pb.buf[Slot(pb.get, i)] \in B
             /\ (IF i <= BUF_SIZE - pb.get THEN pb.buf[pb.get + i - 1]
                 ELSE pb.buf[i - (BUF_SIZE - pb.get) - 1])
                = pb.buf[Slot(pb.get, i)]
  <2>1. Slot(pb.get, i) \in Index
    BY <1>1 DEF Slot, Index
  <2>2. i - (BUF_SIZE - pb.get) - 1 = pb.get + i - 1 - BUF_SIZE
    BY <1>1
  <2> QED
    BY <1>1, <2>1, <2>2 DEF Slot
<1>3. Moved(n, n) = n
  BY DEF Moved
<1>4. Contents(pb) = [i \in 1 .. n |-> pb.buf[Slot(pb.get, i)]]
  BY <1>2, <1>3 DEF Contents, Got, n
<1>5. Contents(pb) \in [1 .. n -> B]
  BY <1>2, <1>4
<1>6. Contents(pb) \in Seq(B) /\ Len(Contents(pb)) = n
  BY <1>1, <1>5, SeqDef, LenProperties
<1> QED
  BY <1>2, <1>4, <1>6 DEF n

\* ch34x_buf_clear leaves nothing.
LEMMA ClearEmpties ==
    ASSUME NEW B, NEW pb \in Buffers(B)
    PROVE  /\ Clear(pb) \in Buffers(B)
           /\ DataAvail(Clear(pb)) = 0
           /\ Contents(Clear(pb)) = <<>>
<1>1. Clear(pb) \in Buffers(B)
  BY DEF Clear, Buffers
<1>2. DataAvail(Clear(pb)) = 0
  <2>1. Clear(pb).get = pb.put /\ Clear(pb).put = pb.put /\ pb.put \in Int
    BY RingAssumption DEF Clear, Buffers, Index
  <2> QED
    BY <1>1, <2>1, Available
<1> QED
  BY <1>1, <1>2, ContentsAre, EmptySeq

\* Slots of the bytes that waited and of those put behind them: the former are
\* left alone, and the latter are where the two pieces are copied to.
LEMMA Slots ==
    ASSUME NEW get \in Index, NEW put \in Index, NEW n \in Nat, NEW count \in Nat,
           n = IF get <= put THEN put - get ELSE BUF_SIZE + put - get,
           n + count <= BUF_SIZE - 1,
           NEW i \in 1 .. n + count
    PROVE  LET j == Slot(get, i)
               len == BUF_SIZE - put
           IN  /\ i <= n => /\ ~(j >= put /\ j < put + count)
                            /\ ~(j < count - len)
               /\ i > n /\ i - n <= len
                    => /\ j >= put /\ j < put + count
                       /\ j - put + 1 = i - n
               /\ i > n /\ i - n > len
                    => /\ ~(j >= put)
                       /\ j < count - len
                       /\ len + j + 1 = i - n
<1>1. /\ BUF_SIZE \in Int /\ get \in Int /\ put \in Int /\ i \in Int
      /\ 0 <= get /\ get <= BUF_SIZE - 1 /\ 0 <= put /\ put <= BUF_SIZE - 1
      /\ 1 <= i /\ i <= n + count
  BY RingAssumption DEF Index
<1>2. CASE get <= put
  BY <1>1, <1>2 DEF Slot
<1>3. CASE ~(get <= put)
  BY <1>1, <1>3 DEF Slot
<1> QED
  BY <1>2, <1>3

\* What ch34x_buf_put does: it takes as many bytes as there is space for, and
\* they wait behind the others, in one piece or two.
LEMMA PutAppends ==
    ASSUME NEW B, NEW pb \in Buffers(B), NEW s \in Seq(B)
    PROVE  LET count == Moved(Len(s), SpaceAvail(pb)) IN
           /\ Put(pb, s) \in Buffers(B)
           /\ count \in 0 .. Len(s)
           /\ DataAvail(Put(pb, s)) = DataAvail(pb) + count
           /\ Contents(Put(pb, s)) = Contents(pb) \o SubSeq(s, 1, count)
<1> DEFINE count == Moved(Len(s), SpaceAvail(pb))
           new   == Put(pb, s)
           n     == DataAvail(pb)
<1>1. /\ BUF_SIZE \in Nat \ {0} /\ n \in 0 .. BUF_SIZE - 1
      /\ pb.get \in Index /\ pb.put \in Index
      /\ pb.buf \in [Index -> B]
      /\ n = IF pb.get <= pb.put THEN pb.put - pb.get
             ELSE BUF_SIZE + pb.put - pb.get
      /\ SpaceAvail(pb) = BUF_SIZE - 1 - n
  BY RingAssumption, Available DEF Buffers
<1>2. /\ Len(s) \in Nat /\ count \in Nat
      /\ count <= Len(s) /\ count <= BUF_SIZE - 1 - n
  BY <1>1, LenProperties DEF Moved
<1> HIDE DEF count, n
<1>3. /\ new.get = pb.get
      /\ new.put = Advanced(pb.put, count)
      /\ new.buf = [i \in Index |->
                      IF i >= pb.put /\ i < pb.put + count
                      THEN s[i - pb.put + 1]
                      ELSE IF i < count - (BUF_SIZE - pb.put)
                      THEN s[BUF_SIZE - pb.put + i + 1]
                      ELSE pb.buf[i]]
      /\ new = [buf |-> new.buf, get |-> new.get, put |-> new.put]
  BY DEF Put, count
<1>4. \A i \in 1 .. Len(s) : s[i] \in B
  BY ElementOfSeq
<1>5. new.put \in Index
      /\ new.put = IF pb.put + count < BUF_SIZE THEN pb.put + count
                   ELSE pb.put + count - BUF_SIZE
  <2>1. count \in 0 .. BUF_SIZE - 1
    BY <1>1, <1>2
  <2> QED
    BY <1>1, <1>3, <2>1, Pointer
<1>6. new.buf \in [Index -> B]
  <2> DEFINE put == pb.put
  <2>1. put \in Int /\ 0 <= put /\ put <= BUF_SIZE - 1
    BY <1>1 DEF Index
  <2>2. /\ new.buf = [i \in Index |->
                        IF i >= put /\ i < put + count THEN s[i - put + 1]
                        ELSE IF i < count - (BUF_SIZE - put)
                        THEN s[BUF_SIZE - put + i + 1]
                        ELSE pb.buf[i]]
    BY <1>3
  <2> HIDE DEF put
  <2>3. ASSUME NEW i \in Index PROVE new.buf[i] \in B
    <3>1. i \in Int /\ 0 <= i
      BY <1>1 DEF Index
    <3>2. CASE i >= put /\ i < put + count
      <4>1. i - put + 1 \in 1 .. Len(s)
        BY <1>1, <1>2, <2>1, <3>1, <3>2
      <4> QED
        BY <1>4, <2>2, <3>2, <4>1
    <3>3. CASE ~(i >= put /\ i < put + count) /\ i < count - (BUF_SIZE - put)
      <4>1. BUF_SIZE - put + i + 1 \in 1 .. Len(s)
        BY <1>1, <1>2, <2>1, <3>1, <3>3
      <4> QED
        BY <1>4, <2>2, <3>3, <4>1
    <3>4. CASE ~(i >= put /\ i < put + count) /\ ~(i < count - (BUF_SIZE - put))
      BY <1>1, <2>2, <3>4
    <3> QED
      BY <3>2, <3>3, <3>4
  <2> QED
    BY <2>2, <2>3
<1>7. new \in Buffers(B)
  BY <1>1, <1>3, <1>5, <1>6 DEF Buffers
<1> HIDE DEF new
<1>8. DataAvail(new) = n + count
  <2> DEFINE get == pb.get
             put == pb.put
             after == new.put
  <2>1. DataAvail(new) = IF get <= after THEN after - get
                         ELSE BUF_SIZE + after - get
    BY <1>3, <1>7, Available
  <2>2. /\ get \in Int /\ put \in Int /\ BUF_SIZE \in Int
        /\ 0 <= get /\ get <= BUF_SIZE - 1 /\ 0 <= put /\ put <= BUF_SIZE - 1
        /\ n = IF get <= put THEN put - get ELSE BUF_SIZE + put - get
        /\ after = IF put + count < BUF_SIZE THEN put + count
                   ELSE put + count - BUF_SIZE
    BY <1>1, <1>5 DEF Index
  <2> HIDE DEF get, put, after
  <2>3. CASE get <= put
    BY <1>2, <2>1, <2>2, <2>3
  <2>4. CASE ~(get <= put)
    BY <1>2, <2>1, <2>2, <2>4
  <2> QED
    BY <2>3, <2>4
<1>9. /\ SubSeq(s, 1, count) \in Seq(B)
      /\ Len(SubSeq(s, 1, count)) = count
      /\ \A i \in 1 .. count : SubSeq(s, 1, count)[i] = s[i]
  <2>1. \A i \in 1 .. count : s[i] \in B
    BY <1>2, <1>4
  <2>2. /\ SubSeq(s, 1, count) \in Seq(B)
        /\ Len(SubSeq(s, 1, count)) = IF 1 <= count THEN count - 1 + 1 ELSE 0
        /\ \A i \in 1 .. count - 1 + 1 : SubSeq(s, 1, count)[i] = s[1 + i - 1]
    BY <1>2, <2>1, SubSeqProperties
  <2> QED
    BY <1>2, <2>2
<1>10. Contents(new) = Contents(pb) \o SubSeq(s, 1, count)
  <2> DEFINE both == Contents(pb) \o SubSeq(s, 1, count)
  <2>1. /\ Contents(pb) \in Seq(B) /\ Len(Contents(pb)) = n
        /\ \A i \in 1 .. n : /\ Slot(pb.get, i) \in Index
                             /\ Contents(pb)[i] = pb.buf[Slot(pb.get, i)]
    BY ContentsAre DEF n
  <2>2. /\ Contents(new) \in Seq(B) /\ Len(Contents(new)) = n + count
        /\ \A i \in 1 .. n + count :
              /\ Slot(pb.get, i) \in Index
              /\ Contents(new)[i] = new.buf[Slot(pb.get, i)]
    <3>1. /\ Contents(new) \in Seq(B) /\ Len(Contents(new)) = DataAvail(new)
          /\ \A i \in 1 .. DataAvail(new) :
                /\ Slot(new.get, i) \in Index
                /\ Contents(new)[i] = new.buf[Slot(new.get, i)]
      BY <1>7, ContentsAre
    <3> QED
      BY <1>3, <1>8, <3>1
  <2>3. /\ both \in Seq(B) /\ Len(both) = n + count
        /\ \A i \in 1 .. n + count :
              both[i] = IF i <= n THEN Contents(pb)[i]
                        ELSE SubSeq(s, 1, count)[i - n]
    BY <1>9, <2>1, ConcatProperties
  <2> HIDE DEF both
  <2>4. ASSUME NEW i \in 1 .. n + count
        PROVE  Contents(new)[i] = both[i]
    <3> DEFINE j == Slot(pb.get, i)
               len == BUF_SIZE - pb.put
    <3>1. /\ i <= n => ~(j >= pb.put /\ j < pb.put + count) /\ ~(j < count - len)
          /\ i > n /\ i - n <= len
               => /\ j >= pb.put /\ j < pb.put + count
                  /\ j - pb.put + 1 = i - n
          /\ i > n /\ i - n > len
               => ~(j >= pb.put) /\ j < count - len /\ len + j + 1 = i - n
      <4>1. n \in Nat /\ count \in Nat /\ n + count <= BUF_SIZE - 1
        BY <1>1, <1>2
      <4> QED
        BY <1>1, <4>1, Slots
    <3>2. j \in Index /\ i \in Int /\ n \in Int /\ len \in Int
      <4>1. j \in Index
        BY <2>2
      <4>2. i \in Int /\ n \in Int
        BY <1>1, <1>2
      <4>3. len \in Int
        BY <1>1 DEF Index
      <4> QED
        BY <4>1, <4>2, <4>3
    <3> HIDE DEF j, len
    <3>3. new.buf[j] = IF j >= pb.put /\ j < pb.put + count
                       THEN s[j - pb.put + 1]
                       ELSE IF j < count - len THEN s[len + j + 1]
                       ELSE pb.buf[j]
      BY <1>3, <3>2 DEF len
    <3>4. CASE i <= n
      <4>1. i \in 1 .. n
        BY <3>2, <3>4
      <4>2. Contents(pb)[i] = pb.buf[j]
        BY <2>1, <4>1 DEF j
      <4>3. Contents(new)[i] = new.buf[j]
        BY <2>2 DEF j
      <4> QED
        BY <2>3, <3>1, <3>3, <3>4, <4>2, <4>3
    <3>5. CASE ~(i <= n)
      <4>1. i - n \in 1 .. count /\ i > n
        BY <1>2, <3>2, <3>5
      <4>2. Contents(new)[i] = new.buf[j]
        BY <2>2 DEF j
      <4>3. new.buf[j] = s[i - n]
        <5>1. CASE i - n <= len
          BY <3>1, <3>3, <4>1, <5>1
        <5>2. CASE i - n > len
          BY <3>1, <3>3, <4>1, <5>2
        <5> QED
          BY <3>2, <4>1, <5>1, <5>2
      <4>4. both[i] = s[i - n]
        BY <1>9, <2>3, <3>5, <4>1
      <4> QED
        BY <4>2, <4>3, <4>4
    <3> QED
      BY <3>4, <3>5
  <2> QED
    BY <2>2, <2>3, <2>4, SeqEqual DEF both
<1> QED
  BY <1>2, <1>7, <1>8, <1>10 DEF count, new, n
\* What ch34x_buf_get does: the bytes it copies are the oldest, the others go on
\* waiting.
LEMMA GetRemoves ==
    ASSUME NEW B, NEW pb \in Buffers(B), NEW want \in Nat
    PROVE  LET count == Moved(want, DataAvail(pb)) IN
           /\ Get(pb, want) \in Buffers(B)
           /\ Got(pb, want) \in Seq(B)
           /\ Len(Got(pb, want)) = count
           /\ count \in 0 .. DataAvail(pb) /\ count <= want
           /\ DataAvail(Get(pb, want)) = DataAvail(pb) - count
           /\ Contents(pb) = Got(pb, want) \o Contents(Get(pb, want))
<1> DEFINE count == Moved(want, DataAvail(pb))
           new   == Get(pb, want)
           n     == DataAvail(pb)
           get   == pb.get
           put   == pb.put
           after == new.get
<1>1. /\ BUF_SIZE \in Nat \ {0} /\ n \in 0 .. BUF_SIZE - 1
      /\ get \in Index /\ put \in Index
      /\ pb.buf \in [Index -> B]
      /\ n = IF get <= put THEN put - get ELSE BUF_SIZE + put - get
  BY RingAssumption, Available DEF Buffers
<1>2. count \in 0 .. n /\ count <= want
  BY <1>1 DEF Moved
<1>3. /\ new.buf = pb.buf /\ new.put = put /\ after = Advanced(get, count)
      /\ new = [buf |-> pb.buf, get |-> after, put |-> put]
  BY DEF Get
<1>4. /\ after \in Index
      /\ after = IF get + count < BUF_SIZE THEN get + count
                 ELSE get + count - BUF_SIZE
  <2>1. count \in 0 .. BUF_SIZE - 1
    BY <1>1, <1>2
  <2> HIDE DEF count, get
  <2> QED
    BY <1>1, <1>3, <2>1, Pointer
<1>5. new \in Buffers(B)
  BY <1>1, <1>3, <1>4 DEF Buffers
<1>6. \A i \in 1 .. n : /\ Slot(get, i) \in Index
                        /\ Contents(pb)[i] = pb.buf[Slot(get, i)]
  BY ContentsAre
<1>7. Contents(pb) \in Seq(B) /\ Len(Contents(pb)) = n
  BY ContentsAre
<1>8. /\ DataAvail(new) = IF after <= put THEN put - after
                          ELSE BUF_SIZE + put - after
      /\ Contents(new) \in Seq(B) /\ Len(Contents(new)) = DataAvail(new)
      /\ \A i \in 1 .. DataAvail(new) :
            Contents(new)[i] = pb.buf[Slot(after, i)]
  <2>1. /\ DataAvail(new) = IF new.get <= new.put THEN new.put - new.get
                            ELSE BUF_SIZE + new.put - new.get
        /\ Contents(new) \in Seq(B) /\ Len(Contents(new)) = DataAvail(new)
        /\ \A i \in 1 .. DataAvail(new) :
              Contents(new)[i] = new.buf[Slot(new.get, i)]
    <3> HIDE DEF new
    <3> QED
      BY <1>5, Available, ContentsAre
  <2> QED
    BY <1>3, <2>1
<1>9. Got(pb, want) = [i \in 1 .. count |->
                          IF i <= BUF_SIZE - get THEN pb.buf[get + i - 1]
                          ELSE pb.buf[i - (BUF_SIZE - get) - 1]]
  BY DEF Got
<1> HIDE DEF count, new, n, get, put, after
<1>10. /\ BUF_SIZE \in Int /\ get \in Int /\ put \in Int /\ after \in Int
       /\ 0 <= get /\ get <= BUF_SIZE - 1 /\ 0 <= put /\ put <= BUF_SIZE - 1
       /\ n \in Int /\ count \in Int /\ 0 <= count /\ count <= n
       /\ n <= BUF_SIZE - 1
  BY <1>1, <1>2, <1>4 DEF Index
<1>11. DataAvail(new) = n - count
  <2>1. CASE get <= put
    BY <1>1, <1>4, <1>8, <1>10, <2>1
  <2>2. CASE ~(get <= put)
    BY <1>1, <1>4, <1>8, <1>10, <2>2
  <2> QED
    BY <2>1, <2>2
<1>12. ASSUME NEW i \in 1 .. count
       PROVE  /\ Got(pb, want)[i] = pb.buf[Slot(get, i)]
              /\ pb.buf[Slot(get, i)] \in B
  <2>1. i - (BUF_SIZE - get) - 1 = get + i - 1 - BUF_SIZE
    BY <1>10
  <2>2. i \in 1 .. n
    BY <1>10
  <2>3. Slot(get, i) \in Index
    BY <1>6, <2>2
  <2> QED
    BY <1>1, <1>9, <2>1, <2>3 DEF Slot
<1>13. Got(pb, want) \in Seq(B) /\ Len(Got(pb, want)) = count
  <2>1. Got(pb, want) \in [1 .. count -> B]
    BY <1>9, <1>12
  <2> QED
    BY <1>10, <2>1, SeqDef, LenProperties
<1>14. Contents(pb) = Got(pb, want) \o Contents(new)
  <2> DEFINE both == Got(pb, want) \o Contents(new)
  <2>1. /\ both \in Seq(B) /\ Len(both) = n
        /\ \A i \in 1 .. n : both[i] = IF i <= count THEN Got(pb, want)[i]
                                       ELSE Contents(new)[i - count]
    <3>1. Len(Got(pb, want)) + Len(Contents(new)) = n
      BY <1>8, <1>10, <1>11, <1>13
    <3> QED
      BY <1>8, <1>13, <3>1, ConcatProperties
  <2> HIDE DEF both
  <2>2. ASSUME NEW i \in 1 .. n PROVE Contents(pb)[i] = both[i]
    <3>1. CASE i <= count
      <4>1. i \in 1 .. count
        BY <1>10, <3>1
      <4> QED
        BY <1>6, <1>12, <2>1, <3>1, <4>1
    <3>2. CASE ~(i <= count)
      <4>1. i - count \in 1 .. n - count
        BY <1>10, <3>2
      <4>2. Slot(after, i - count) = Slot(get, i)
        <5>1. CASE get + count < BUF_SIZE
          BY <1>4, <1>10, <4>1, <5>1 DEF Slot
        <5>2. CASE ~(get + count < BUF_SIZE)
          BY <1>4, <1>10, <4>1, <5>2 DEF Slot
        <5> QED
          BY <5>1, <5>2
      <4> QED
        BY <1>6, <1>8, <1>11, <2>1, <3>2, <4>1, <4>2
    <3> QED
      BY <3>1, <3>2
  <2> QED
    BY <1>7, <2>1, <2>2, SeqEqual DEF both
<1> QED
  BY <1>2, <1>5, <1>11, <1>13, <1>14 DEF count, new, n

-----------------------------------------------------------------------------
(* Sequences                                                               *)

\* A piece of a sequence, from its beginning.
LEMMA Beginning ==
    ASSUME NEW S, NEW s \in Seq(S), NEW n \in 0 .. Len(s)
    PROVE  /\ SubSeq(s, 1, n) \in Seq(S)
           /\ Len(SubSeq(s, 1, n)) = n
           /\ \A i \in 1 .. n : SubSeq(s, 1, n)[i] = s[i]
<1>1. Len(s) \in Nat /\ \A i \in 1 .. Len(s) : s[i] \in S
  BY LenProperties, ElementOfSeq
<1>2. \A i \in 1 .. n : s[i] \in S
  BY <1>1
<1>3. /\ SubSeq(s, 1, n) \in Seq(S)
      /\ Len(SubSeq(s, 1, n)) = IF 1 <= n THEN n - 1 + 1 ELSE 0
      /\ \A i \in 1 .. n - 1 + 1 : SubSeq(s, 1, n)[i] = s[1 + i - 1]
  BY <1>2, SubSeqProperties
<1> QED
  BY <1>1, <1>3

\* What is in both parts of a sequence is in the sequence.
LEMMA Parts ==
    ASSUME NEW S, NEW T, NEW s \in Seq(S), NEW t \in Seq(S), s \o t \in Seq(T)
    PROVE  s \in Seq(T) /\ t \in Seq(T)
<1>1. /\ Len(s) \in Nat /\ Len(t) \in Nat
      /\ Len(s \o t) = Len(s) + Len(t)
      /\ \A i \in 1 .. Len(s) + Len(t) :
            (s \o t)[i] = IF i <= Len(s) THEN s[i] ELSE t[i - Len(s)]
      /\ s \in [1 .. Len(s) -> S] /\ t \in [1 .. Len(t) -> S]
  BY LenProperties, ConcatProperties
<1>2. \A i \in 1 .. Len(s) + Len(t) : (s \o t)[i] \in T
  BY <1>1, ElementOfSeq
<1>3. s \in Seq(T)
  <2>1. ASSUME NEW i \in 1 .. Len(s) PROVE s[i] \in T
    <3>1. i \in 1 .. Len(s) + Len(t) /\ i <= Len(s)
      BY <1>1
    <3> QED
      BY <1>1, <1>2, <3>1
  <2>2. s \in [1 .. Len(s) -> T]
    BY <1>1, <2>1
  <2> QED
    BY <1>1, <2>2, SeqDef
<1>4. t \in Seq(T)
  <2>1. ASSUME NEW i \in 1 .. Len(t) PROVE t[i] \in T
    <3>1. /\ i + Len(s) \in 1 .. Len(s) + Len(t) /\ ~(i + Len(s) <= Len(s))
          /\ (i + Len(s)) - Len(s) = i
      BY <1>1
    <3> QED
      BY <1>1, <1>2, <3>1
  <2>2. t \in [1 .. Len(t) -> T]
    BY <1>1, <2>1
  <2> QED
    BY <1>1, <2>2, SeqDef
<1> QED
  BY <1>3, <1>4

\* Brackets do not matter.
LEMMA Associative ==
    \A s, t, u \in Seq(Nat) : s \o (t \o u) = (s \o t) \o u
<1>1. ASSUME NEW S, NEW s \in Seq(S), NEW t \in Seq(S), NEW u \in Seq(S)
      PROVE  s \o (t \o u) = (s \o t) \o u
  BY ConcatAssociative
<1> QED
  BY <1>1

-----------------------------------------------------------------------------
(* Type correctness                                                        *)

\* The bytes that are accepted by a write of n: numbered on from those before.
LEMMA Accepting ==
    ASSUME TypeOK, NEW n \in Nat
    PROVE  LET count == Moved(n, SpaceAvail(ring))
               s     == [i \in 1 .. n |-> accepted + i]
               new   == [i \in 1 .. count |-> accepted + i]
           IN  /\ count \in 0 .. n
               /\ Put(ring, s) \in Buffers(Nat)
               /\ new \in Seq(1 .. accepted + count)
               /\ Contents(Put(ring, s)) = Contents(ring) \o new
               /\ Contents(Put(ring, s)) \in Seq(1 .. accepted + count)
<1> DEFINE count == Moved(n, SpaceAvail(ring))
           s     == [i \in 1 .. n |-> accepted + i]
           new   == [i \in 1 .. count |-> accepted + i]
<1>1. ring \in Buffers(Nat) /\ Contents(ring) \in Seq(1 .. accepted)
      /\ accepted \in Nat
  BY DEF TypeOK
<1>2. s \in Seq(Nat) /\ Len(s) = n
  <2>1. s \in [1 .. n -> Nat]
    BY <1>1
  <2> QED
    BY <2>1, SeqDef, LenProperties
<1>3. /\ Put(ring, s) \in Buffers(Nat)
      /\ count \in 0 .. n
      /\ Contents(Put(ring, s)) = Contents(ring) \o SubSeq(s, 1, count)
  <2> DEFINE c == Moved(Len(s), SpaceAvail(ring))
  <2> HIDE DEF s
  <2>1. /\ Put(ring, s) \in Buffers(Nat) /\ c \in 0 .. Len(s)
        /\ Contents(Put(ring, s)) = Contents(ring) \o SubSeq(s, 1, c)
    BY <1>1, <1>2, PutAppends
  <2> QED
    BY <1>2, <2>1
<1> HIDE DEF count
<1>4. new \in Seq(1 .. accepted + count) /\ Len(new) = count
  <2>1. new \in [1 .. count -> 1 .. accepted + count] /\ count \in Nat
    BY <1>1, <1>3
  <2> QED
    BY <2>1, SeqDef, LenProperties
<1>5. SubSeq(s, 1, count) = new
  <2>1. /\ SubSeq(s, 1, count) \in Seq(Nat) /\ Len(SubSeq(s, 1, count)) = count
        /\ \A i \in 1 .. count : SubSeq(s, 1, count)[i] = s[i]
    <3> HIDE DEF s
    <3> QED
      BY <1>2, <1>3, Beginning
  <2>2. \A i \in 1 .. count : s[i] = new[i]
    BY <1>3
  <2>3. new \in Seq(Nat)
    <3>1. 1 .. accepted + count \subseteq Nat
      BY <1>1, <1>3
    <3> HIDE DEF new
    <3> QED
      BY <1>4, <3>1, SeqMonotonic
  <2> HIDE DEF s, new
  <2> QED
    BY <1>4, <2>1, <2>2, <2>3, SeqEqual
<1>6. Contents(ring) \in Seq(1 .. accepted + count)
  <2>1. 1 .. accepted \subseteq 1 .. accepted + count
    BY <1>1, <1>3
  <2> QED
    BY <1>1, <2>1, SeqMonotonic
<1> HIDE DEF new, s
<1>7. Contents(ring) \o new \in Seq(1 .. accepted + count)
  BY <1>4, <1>6, ConcatProperties
<1> QED
  BY <1>3, <1>4, <1>5, <1>7 DEF count, new, s

\* What ch34x_send takes out of the buffer.
LEMMA Taking ==
    ASSUME TypeOK
    PROVE  /\ Get(ring, BULK_OUT_SIZE) \in Buffers(Nat)
           /\ Got(ring, BULK_OUT_SIZE) \in Seq(1 .. accepted)
           /\ Len(Got(ring, BULK_OUT_SIZE)) <= BULK_OUT_SIZE
           /\ DataAvail(ring) > 0 => Len(Got(ring, BULK_OUT_SIZE)) > 0
           /\ Contents(Get(ring, BULK_OUT_SIZE)) \in Seq(1 .. accepted)
           /\ Contents(ring) = Got(ring, BULK_OUT_SIZE)
                                 \o Contents(Get(ring, BULK_OUT_SIZE))
<1> DEFINE got  == Got(ring, BULK_OUT_SIZE)
           left == Get(ring, BULK_OUT_SIZE)
<1>1. /\ ring \in Buffers(Nat) /\ Contents(ring) \in Seq(1 .. accepted)
      /\ BULK_OUT_SIZE \in Nat \ {0}
  BY UsbWriteAssumption DEF TypeOK
<1>2. /\ left \in Buffers(Nat) /\ got \in Seq(Nat)
      /\ Len(got) = Moved(BULK_OUT_SIZE, DataAvail(ring))
      /\ Len(got) <= BULK_OUT_SIZE
      /\ Contents(ring) = got \o Contents(left)
  BY <1>1, GetRemoves
<1>3. DataAvail(ring) > 0 => Len(got) > 0
  BY <1>1, <1>2 DEF Moved
<1> HIDE DEF got, left
<1>4. Contents(left) \in Seq(Nat)
  BY <1>2, ContentsAre
<1>5. got \in Seq(1 .. accepted) /\ Contents(left) \in Seq(1 .. accepted)
  BY <1>1, <1>2, <1>4, Parts
<1> QED
  BY <1>2, <1>3, <1>5 DEF got, left
\* An URB that is or will be submitted is not empty.
Loaded ==
    flying \/ (\E c \in Contexts : pc[c] \in {"submit", "resubmit"})
        => Len(buffer) > 0

\* A context goes to another step; a writer only to one of its own.
LEMMA Going ==
    ASSUME TypeOK, NEW c \in Contexts, NEW step \in Steps, Goto(c, step),
           c \in Writers => step \in {"idle", "send", "submit", "failed"}
    PROVE  /\ pc' \in [Contexts -> Steps]
           /\ \A w \in Writers : pc'[w] \in {"idle", "send", "submit", "failed"}
           /\ pc'[c] = step
           /\ \A d \in Contexts : d # c => pc'[d] = pc[d]
BY DEF TypeOK, Goto, Contexts

\* The invariant holds at first.
LEMMA TypeInit == Init => TypeOK
<1> SUFFICES ASSUME Init PROVE TypeOK
  OBVIOUS
<1>1. ring \in Buffers(Nat) /\ ring.get = 0 /\ ring.put = 0
  BY RingAssumption DEF Init, Alloc, Buffers, Index
<1>2. DataAvail(ring) = 0
  BY <1>1, Available
<1>3. Contents(ring) \in Seq(Nat) /\ Len(Contents(ring)) = 0
  BY <1>1, <1>2, ContentsAre
<1>4. Contents(ring) = <<>>
  BY <1>3, EmptySeq
<1>5. <<>> \in Seq(1 .. accepted) /\ Len(<<>>) = 0
  BY EmptySeq
<1>6. pc \in [Contexts -> Steps]
          /\ \A w \in Writers : pc[w] \in {"idle", "send", "submit", "failed"}
  BY DEF Init, Contexts, Steps
<1>7. buffer = <<>> /\ line = <<>> /\ BULK_OUT_SIZE \in Nat
  BY UsbWriteAssumption DEF Init
<1>8. buffer \in Seq(1 .. accepted) /\ Len(buffer) <= BULK_OUT_SIZE
          /\ line \in Seq(1 .. accepted)
  BY <1>5, <1>7
<1>9. /\ {inUse, flying, reject, fault, late} \subseteq BOOLEAN
      /\ port \in {"open", "kill", "killing", "closed"}
      /\ {opened, accepted, faults} \subseteq Nat
  <2>1. /\ inUse = FALSE /\ flying = FALSE /\ reject = FALSE
        /\ fault = FALSE /\ late = FALSE
    BY Zenon DEF Init
  <2>2. port = "closed" /\ opened = 0 /\ accepted = 0 /\ faults = 0
    BY DEF Init
  <2>3. {inUse, flying, reject, fault, late} \subseteq BOOLEAN
    BY <2>1, Zenon
  <2>4. /\ port \in {"open", "kill", "killing", "closed"}
        /\ {opened, accepted, faults} \subseteq Nat
    BY <2>2
  <2> QED
    BY <2>3, <2>4
<1>10. Contents(ring) \in Seq(1 .. accepted)
  BY <1>4, <1>5
<1> HIDE DEF Init
<1> QED
  BY <1>1, <1>6, <1>8, <1>9, <1>10 DEF TypeOK

\* Every step keeps it.
LEMMA TypeStep == TypeOK /\ Loaded /\ [Next]_vars => TypeOK'
<1> SUFFICES ASSUME TypeOK, Loaded, [Next]_vars PROVE TypeOK'
  OBVIOUS
<1> USE DEF urb, place
<1>1. ASSUME NEW w \in Writers, NEW n \in 1 .. BUF_SIZE, Write(w, n)
      PROVE  TypeOK'
  <2>1. w \in Contexts /\ "send" \in Steps
    BY DEF Contexts, Steps
  <2>2. /\ pc' \in [Contexts -> Steps]
        /\ \A v \in Writers : pc'[v] \in {"idle", "send", "submit", "failed"}
    BY <1>1, <2>1, Going DEF Write
  <2>3. /\ ring' \in Buffers(Nat) /\ Contents(ring') \in Seq(1 .. accepted')
        /\ accepted' \in Nat /\ accepted <= accepted'
    <3>1. n \in Nat /\ accepted \in Nat
      BY RingAssumption DEF TypeOK
    <3> DEFINE count == Moved(n, SpaceAvail(ring))
               s     == [i \in 1 .. n |-> accepted + i]
    <3>2. accepted' = accepted + count /\ ring' = Put(ring, s)
      BY <1>1 DEF Write
    <3>3. /\ count \in 0 .. n /\ Put(ring, s) \in Buffers(Nat)
          /\ Contents(Put(ring, s)) \in Seq(1 .. accepted + count)
      BY <3>1, Accepting
    <3> HIDE DEF count, s
    <3> QED
      BY <3>1, <3>2, <3>3
  <2>4. 1 .. accepted \subseteq 1 .. accepted'
    BY <2>3 DEF TypeOK
  <2>5. /\ buffer' \in Seq(1 .. accepted') /\ line' \in Seq(1 .. accepted')
        /\ Len(buffer') <= BULK_OUT_SIZE
    BY <1>1, <2>4, SeqMonotonic DEF Write, TypeOK
  <2> QED
    BY <1>1, <2>2, <2>3, <2>5 DEF Write, TypeOK
<1>2. ASSUME NEW c \in Contexts, Sender(c) PROVE TypeOK'
  <2>1. CASE Busy(c)
    <3>1. "idle" \in Steps
      BY DEF Steps
    <3> QED
      BY <2>1, <3>1, Going DEF Busy, TypeOK
  <2>2. CASE Take(c)
    <3>1. "submit" \in Steps
      BY DEF Steps
    <3>2. /\ pc' \in [Contexts -> Steps]
          /\ \A v \in Writers : pc'[v] \in {"idle", "send", "submit", "failed"}
      BY <2>2, <3>1, Going DEF Take
    <3>3. /\ ring' \in Buffers(Nat) /\ Contents(ring') \in Seq(1 .. accepted)
          /\ buffer' \in Seq(1 .. accepted) /\ Len(buffer') <= BULK_OUT_SIZE
      BY <2>2, Taking DEF Take
    <3> QED
      BY <2>2, <3>2, <3>3 DEF Take, TypeOK
  <2>3. CASE Submit(c)
    <3>1. "idle" \in Steps
      BY DEF Steps
    <3> QED
      BY <2>3, <3>1, Going DEF Submit, TypeOK
  <2>4. CASE SubmitFails(c)
    <3>1. "failed" \in Steps
      BY DEF Steps
    <3> QED
      BY <2>4, <3>1, Going DEF SubmitFails, TypeOK
  <2>5. CASE GiveUp(c)
    <3>1. "idle" \in Steps
      BY DEF Steps
    <3> QED
      BY <2>5, <3>1, Going DEF GiveUp, TypeOK
  <2> QED
    BY <1>2, <2>1, <2>2, <2>3, <2>4, <2>5 DEF Sender
<1> DEFINE Own == Callback \in Contexts /\ Callback \notin Writers
                  /\ Steps = {"idle", "send", "submit", "failed", "resubmit",
                              "release", "terminated"}
<1>3. Own
  BY UsbWriteAssumption DEF Contexts, Steps
<1>4. ASSUME NEW k \in 0 .. Len(buffer), NEW step \in {"release", "resubmit", "terminated"},
             Returns(k, step), fault' \in BOOLEAN, faults' \in Nat
      PROVE  TypeOK'
  <2>1. line' \in Seq(1 .. accepted)
    <3>1. SubSeq(buffer, 1, k) \in Seq(1 .. accepted)
      BY Beginning DEF TypeOK
    <3> QED
      BY <1>4, <3>1, ConcatProperties DEF Returns, TypeOK
  <2>2. /\ pc' \in [Contexts -> Steps]
        /\ \A v \in Writers : pc'[v] \in {"idle", "send", "submit", "failed"}
    <3>1. step \in Steps /\ Goto(Callback, step)
      BY <1>3, <1>4 DEF Returns
    <3> QED
      BY <1>3, <3>1, Going
  <2> QED
    BY <1>4, <2>1, <2>2 DEF Returns, TypeOK
<1>5. CASE Core
  <2>1. Len(buffer) \in 0 .. Len(buffer)
    BY LenProperties DEF TypeOK
  <2>2. CASE Complete
    BY <1>4, <2>1, <2>2 DEF Complete, TypeOK
  <2>3. ASSUME NEW k \in 0 .. Len(buffer), CompleteBadly(k) PROVE TypeOK'
    BY <1>4, <2>3 DEF CompleteBadly, TypeOK
  <2>4. ASSUME NEW k \in 0 .. Len(buffer), Killed(k) PROVE TypeOK'
    BY <1>4, <2>4 DEF Killed, TypeOK
  <2> QED
    BY <1>5, <2>2, <2>3, <2>4 DEF Core
<1>6. CASE Release
  BY <1>3, <1>6, Going DEF Release, TypeOK
<1>7. CASE Terminated
  BY <1>3, <1>7, Going DEF Terminated, TypeOK
<1>8. CASE Resubmit
  <2>1. pc' \in [Contexts -> Steps]
        /\ \A v \in Writers : pc'[v] \in {"idle", "send", "submit", "failed"}
    <3>1. CASE Goto(Callback, "idle")
      BY <1>3, <3>1, Going
    <3>2. CASE Goto(Callback, "release")
      BY <1>3, <3>2, Going
    <3> QED
      BY <1>8, <3>1, <3>2 DEF Resubmit
  <2>2. buffer' \in Seq(1 .. accepted) /\ Len(buffer') <= BULK_OUT_SIZE
    <3>1. Len(buffer) > 0 /\ Len(buffer) \in Nat
      BY <1>3, <1>8, LenProperties DEF Resubmit, Loaded, TypeOK
    <3>2. /\ SubSeq(buffer, 1, 1) \in Seq(1 .. accepted)
          /\ Len(SubSeq(buffer, 1, 1)) = 1
      BY <3>1, Beginning DEF TypeOK
    <3> QED
      BY <1>8, <3>2, UsbWriteAssumption DEF Resubmit
  <2>3. faults' \in Nat /\ flying' \in BOOLEAN
    <3>1. faults \in Nat /\ flying \in BOOLEAN
      BY DEF TypeOK
    <3>2. flying' = TRUE \/ flying' = flying
      BY <1>8, Zenon DEF Resubmit
    <3>3. flying' \in BOOLEAN
      BY <3>1, <3>2, Zenon
    <3>4. faults' = faults \/ faults' = faults + 1
      BY <1>8 DEF Resubmit
    <3> QED
      BY <3>1, <3>3, <3>4
  <2>4. UNCHANGED <<ring, inUse, reject, place, accepted, line, fault, late>>
    BY <1>8 DEF Resubmit
  <2> QED
    BY <2>1, <2>2, <2>3, <2>4 DEF TypeOK
<1>9. CASE Open
  BY <1>9 DEF Open, TypeOK
<1>10. CASE Close
  <2>1. ring' \in Buffers(Nat) /\ Contents(ring') \in Seq(1 .. accepted)
    BY <1>10, ClearEmpties, EmptySeq DEF Close, TypeOK
  <2> QED
    BY <1>10, <2>1 DEF Close, TypeOK
<1>11. CASE Kill
  BY <1>11 DEF Kill, TypeOK
<1>12. CASE KillReturns
  BY <1>12 DEF KillReturns, TypeOK
<1>13. CASE UNCHANGED vars
  BY <1>13 DEF vars, TypeOK
<1> QED
  BY <1>1, <1>2, <1>5, <1>6, <1>7, <1>8, <1>9, <1>10, <1>11, <1>12, <1>13
     DEF Next, Caller, CallbackStep
\* A transfer buffer is filled before it is submitted.
LEMMA LoadedStep == TypeOK /\ Loaded /\ [Next]_vars => Loaded'
<1> SUFFICES ASSUME TypeOK, Loaded, [Next]_vars PROVE Loaded'
  OBVIOUS
<1> USE DEF urb, place
<1> DEFINE Sends(c) == pc[c] \in {"submit", "resubmit"}
<1>1. ASSUME buffer' = buffer, flying' => flying,
             \A c \in Contexts : Sends(c)' => flying \/ Sends(c)
      PROVE  Loaded'
  BY <1>1 DEF Loaded
<1>2. pc \in [Contexts -> Steps] /\ Callback \in Contexts
      /\ \A w \in Writers : w \in Contexts
  BY DEF TypeOK, Contexts
<1>3. ASSUME NEW w \in Writers, NEW n \in 1 .. BUF_SIZE, Write(w, n)
      PROVE  Loaded'
  BY <1>1, <1>2, <1>3 DEF Write, Goto
<1>4. ASSUME NEW c \in Contexts, Sender(c) PROVE Loaded'
  <2>1. CASE Busy(c)
    BY <1>1, <1>2, <2>1 DEF Busy, Goto
  <2>2. CASE Take(c)
    BY <2>2, Taking DEF Take, Loaded
  <2>3. CASE Submit(c)
    BY <1>2, <2>3 DEF Submit, Goto, Loaded
  <2>4. CASE SubmitFails(c)
    BY <1>1, <1>2, <2>4 DEF SubmitFails, Goto
  <2>5. CASE GiveUp(c)
    BY <1>1, <1>2, <2>5 DEF GiveUp, Goto
  <2> QED
    BY <1>4, <2>1, <2>2, <2>3, <2>4, <2>5 DEF Sender
<1>5. CASE Core
  <2>1. PICK k \in 0 .. Len(buffer) \cup {Len(buffer)},
             step \in {"release", "resubmit", "terminated"} :
               Returns(k, step)
    BY <1>5 DEF Core, Complete, CompleteBadly, Killed
  <2> QED
    BY <1>1, <1>2, <2>1 DEF Returns, Goto
<1>6. CASE CallbackStep
  <2>1. CASE Release
    BY <1>1, <1>2, <2>1 DEF Release, Goto
  <2>2. CASE Terminated
    BY <1>1, <1>2, <2>2 DEF Terminated, Goto
  <2>3. CASE Resubmit
    <3>1. Len(buffer) > 0 /\ Len(buffer) \in Nat
      BY <1>2, <2>3, LenProperties DEF Resubmit, Loaded, TypeOK
    <3>2. Len(SubSeq(buffer, 1, 1)) = 1
      BY <3>1, Beginning DEF TypeOK
    <3> QED
      BY <2>3, <3>2 DEF Resubmit, Loaded
  <2> QED
    BY <1>6, <2>1, <2>2, <2>3 DEF CallbackStep
<1>7. CASE Open
  BY <1>1, <1>7 DEF Open
<1>8. CASE Close
  BY <1>1, <1>8 DEF Close
<1>9. CASE Kill
  BY <1>1, <1>9 DEF Kill
<1>10. CASE KillReturns
  BY <1>1, <1>10 DEF KillReturns
<1>11. CASE UNCHANGED vars
  BY <1>1, <1>11 DEF vars
<1> QED
  BY <1>3, <1>4, <1>5, <1>6, <1>7, <1>8, <1>9, <1>10, <1>11 DEF Next, Caller

\* Every variable keeps its type: the pointers stay in the memory, no byte
\* that was not accepted is ever waiting, in the URB or at the device, and the
\* URB is never filled with more than it carries.
THEOREM TypeCorrect == Spec => []TypeOK
<1>1. Init => TypeOK /\ Loaded
  <2>1. Init => Loaded
    BY DEF Init, Loaded
  <2> QED
    BY <2>1, TypeInit
<1>2. TypeOK /\ Loaded /\ [Next]_vars => TypeOK' /\ Loaded'
  BY TypeStep, LoadedStep
<1> QED
  BY <1>1, <1>2, PTL DEF Spec

-----------------------------------------------------------------------------
(* The URB has one owner                                                   *)

\* Every step keeps write_urb_in_use exact.
LEMMA OwnedStep == TypeOK /\ OwnedOnce /\ [Next]_vars => OwnedOnce'
<1> SUFFICES ASSUME TypeOK, OwnedOnce, [Next]_vars PROVE OwnedOnce'
  OBVIOUS
<1> USE DEF urb, place
<1> DEFINE Owns(c) == pc[c] \in {"submit", "failed", "resubmit", "release",
                                 "terminated"}
<1>1. /\ pc \in [Contexts -> Steps] /\ Callback \in Contexts
      /\ \A w \in Writers : w \in Contexts
      /\ inUse \in BOOLEAN /\ flying \in BOOLEAN
  BY DEF TypeOK, Contexts
<1>2. /\ inUse <=> (flying \/ \E c \in Contexts : Owns(c))
      /\ \A c, d \in Contexts : Owns(c) /\ Owns(d) => c = d
      /\ ~(flying /\ \E c \in Contexts : Owns(c))
  BY DEF OwnedOnce, Owners
<1>3. ASSUME inUse' <=> (flying' \/ \E c \in Contexts : Owns(c)'),
             \A c, d \in Contexts : Owns(c)' /\ Owns(d)' => c = d,
             ~(flying' /\ \E c \in Contexts : Owns(c)')
      PROVE  OwnedOnce'
  BY <1>3 DEF OwnedOnce, Owners
<1>4. ASSUME UNCHANGED <<inUse, flying>>,
             \A c \in Contexts : Owns(c)' <=> Owns(c)
      PROVE  OwnedOnce'
  BY <1>2, <1>3, <1>4
<1>5. ASSUME NEW w \in Writers, NEW n \in 1 .. BUF_SIZE, Write(w, n)
      PROVE  OwnedOnce'
  BY <1>1, <1>4, <1>5 DEF Write, Goto
<1>6. ASSUME NEW c \in Contexts, Sender(c) PROVE OwnedOnce'
  <2>1. CASE Busy(c)
    BY <1>1, <1>4, <2>1 DEF Busy, Goto
  <2>2. CASE Take(c)
    BY <1>1, <1>2, <1>3, <2>2 DEF Take, Goto
  <2>3. CASE Submit(c)
    BY <1>1, <1>2, <1>3, <2>3 DEF Submit, Goto
  <2>4. CASE SubmitFails(c)
    BY <1>1, <1>4, <2>4 DEF SubmitFails, Goto
  <2>5. CASE GiveUp(c)
    BY <1>1, <1>2, <1>3, <2>5 DEF GiveUp, Goto
  <2> QED
    BY <1>6, <2>1, <2>2, <2>3, <2>4, <2>5 DEF Sender
<1>7. CASE Core
  <2>1. PICK k \in 0 .. Len(buffer) \cup {Len(buffer)},
             step \in {"release", "resubmit", "terminated"} :
               Returns(k, step)
    BY <1>7 DEF Core, Complete, CompleteBadly, Killed
  <2> QED
    BY <1>1, <1>2, <1>3, <2>1 DEF Returns, Goto
<1>8. CASE CallbackStep
  <2>1. CASE Release
    BY <1>1, <1>2, <1>3, <2>1 DEF Release, Goto
  <2>2. CASE Terminated
    BY <1>1, <1>2, <1>3, <2>2 DEF Terminated, Goto
  <2>3. CASE Resubmit
    <3>1. CASE flying' = TRUE /\ Goto(Callback, "idle")
      BY <1>1, <1>2, <1>3, <2>3, <3>1 DEF Resubmit, Goto
    <3>2. CASE flying' = flying /\ Goto(Callback, "release")
      BY <1>1, <1>4, <2>3, <3>2 DEF Resubmit, Goto
    <3> QED
      BY <2>3, <3>1, <3>2 DEF Resubmit
  <2> QED
    BY <1>8, <2>1, <2>2, <2>3 DEF CallbackStep
<1>9. CASE Open
  BY <1>4, <1>9 DEF Open
<1>10. CASE Close
  BY <1>4, <1>10 DEF Close
<1>11. CASE Kill
  BY <1>4, <1>11 DEF Kill
<1>12. CASE KillReturns
  BY <1>4, <1>12 DEF KillReturns
<1>13. CASE UNCHANGED vars
  BY <1>4, <1>13 DEF vars
<1> QED
  BY <1>5, <1>6, <1>7, <1>8, <1>9, <1>10, <1>11, <1>12, <1>13 DEF Next, Caller

\* At most one of the USB core, the callers and the callback has the URB, and
\* write_urb_in_use says whether one of them does, although it is cleared
\* without the lock.
THEOREM UrbOwnedOnce == Spec => []OwnedOnce
<1>1. Init => OwnedOnce
  BY DEF Init, OwnedOnce, Owners
<1>2. TypeOK /\ OwnedOnce /\ [Next]_vars => OwnedOnce'
  BY OwnedStep
<1> QED
  BY <1>1, <1>2, TypeCorrect, PTL DEF Spec
-----------------------------------------------------------------------------
(* A closed port is quiet                                                  *)

\* What close leaves behind, if no write came between.
Left ==
    /\ ~late /\ port # "open" => /\ \A w \in Writers : pc[w] = "idle"
                                 /\ DataAvail(ring) = 0
    /\ ~late /\ port = "closed" => ~flying /\ pc[Callback] = "idle"

\* Every step keeps it so.
LEMMA LeftStep == TypeOK /\ Left /\ [Next]_vars => Left'
<1> SUFFICES ASSUME TypeOK, Left, [Next]_vars PROVE Left'
  OBVIOUS
<1> USE DEF urb, place
<1>1. /\ pc \in [Contexts -> Steps] /\ Callback \in Contexts
      /\ \A w \in Writers : w \in Contexts /\ w # Callback
      /\ late \in BOOLEAN
  BY UsbWriteAssumption DEF TypeOK, Contexts
<1>2. ASSUME NEW w \in Writers, NEW n \in 1 .. BUF_SIZE, Write(w, n)
      PROVE  Left'
  BY <1>2 DEF Write, Left
<1>3. ASSUME NEW c \in Contexts, Sender(c) PROVE Left'
  <2>1. UNCHANGED <<late, port>>
    BY <1>3 DEF Sender, Busy, Take, Submit, SubmitFails, GiveUp
  <2>2. CASE late \/ port = "open"
    BY <2>1, <2>2 DEF Left
  <2>3. CASE ~late /\ port # "open"
    <3>1. /\ \A w \in Writers : pc[w] = "idle"
          /\ DataAvail(ring) = 0
          /\ port = "closed" => ~flying /\ pc[Callback] = "idle"
      BY <2>3 DEF Left
    <3>2. pc[c] # "idle" /\ ~Take(c)
      BY <1>3, <3>1 DEF Sender, Busy, Take, Submit, SubmitFails, GiveUp
    <3>3. c = Callback /\ port # "closed"
      BY <3>1, <3>2 DEF Contexts
    <3>4. ring' = ring /\ \A w \in Writers : pc'[w] = pc[w]
      BY <1>1, <1>3, <3>2, <3>3
         DEF Sender, Busy, Submit, SubmitFails, GiveUp, Goto
    <3> QED
      BY <2>1, <3>1, <3>3, <3>4 DEF Left
  <2> QED
    BY <2>2, <2>3
<1>4. ASSUME NEW step, Goto(Callback, step), UNCHANGED <<ring, late, port>>,
             port # "closed" \/ late
      PROVE  Left'
  BY <1>1, <1>4 DEF Left, Goto
<1>5. CASE Core
  <2>1. PICK k \in 0 .. Len(buffer) \cup {Len(buffer)},
             step \in {"release", "resubmit", "terminated"} :
               Returns(k, step)
    BY <1>5 DEF Core, Complete, CompleteBadly, Killed
  <2>2. port # "closed" \/ late
    BY <2>1 DEF Returns, Left
  <2> QED
    BY <1>4, <2>1, <2>2 DEF Returns
<1>6. CASE CallbackStep
  <2>1. pc[Callback] # "idle" /\ UNCHANGED <<ring, late, port>>
    BY <1>6 DEF CallbackStep, Release, Terminated, Resubmit
  <2>2. port # "closed" \/ late
    BY <2>1 DEF Left
  <2>3. \E step : Goto(Callback, step)
    BY <1>6 DEF CallbackStep, Release, Terminated, Resubmit
  <2> QED
    BY <1>4, <2>1, <2>2, <2>3
<1>7. CASE Open
  BY <1>7 DEF Open, Left
<1>8. CASE Close
  <2>1. DataAvail(ring') = 0
    BY <1>8, ClearEmpties DEF Close, TypeOK
  <2> QED
    BY <1>8, <2>1 DEF Close, Left
<1>9. CASE Kill
  BY <1>9 DEF Kill, Left
<1>10. CASE KillReturns
  BY <1>10 DEF KillReturns, Left
<1>11. CASE UNCHANGED vars
  BY <1>11 DEF vars, Left
<1> QED
  BY <1>2, <1>3, <1>5, <1>6, <1>7, <1>8, <1>9, <1>10, <1>11 DEF Next, Caller

\* After a close that no write overlapped with, the URB is at rest and the
\* buffer empty, until the port is opened again.
THEOREM ClosedIsQuiet == Spec => []QuietAfterClose
<1>1. Init => Left
  <2> SUFFICES ASSUME Init PROVE Left
    OBVIOUS
  <2>1. ring \in Buffers(Nat) /\ ring.get = 0 /\ ring.put = 0
    BY RingAssumption DEF Init, Alloc, Buffers, Index
  <2>2. DataAvail(ring) = 0
    BY <2>1, Available
  <2> QED
    BY <2>2 DEF Init, Left, Contexts
<1>2. TypeOK /\ Left /\ [Next]_vars => Left'
  BY LeftStep
<1>3. OwnedOnce /\ Left => QuietAfterClose
  <2> SUFFICES ASSUME OwnedOnce, Left, port = "closed", ~late
               PROVE  ~flying /\ ~inUse /\ DataAvail(ring) = 0 /\ Owners = {}
    BY DEF QuietAfterClose
  <2>1. /\ \A w \in Writers : pc[w] = "idle"
        /\ DataAvail(ring) = 0 /\ ~flying /\ pc[Callback] = "idle"
    BY DEF Left
  <2>2. Owners = {}
    BY <2>1 DEF Owners, Contexts
  <2> QED
    BY <2>1, <2>2 DEF OwnedOnce
<1> QED
  BY <1>1, <1>2, <1>3, TypeCorrect, UrbOwnedOnce, PTL DEF Spec
-----------------------------------------------------------------------------
(* The write side is an ordered stream                                     *)

\* The two parts of a sequence, and the beginnings of the first.
LEMMA Pieces ==
    ASSUME NEW S, NEW s \in Seq(S), NEW t \in Seq(S), NEW k \in 0 .. Len(s)
    PROVE  /\ Len(s) \in 0 .. Len(s \o t)
           /\ SubSeq(s \o t, 1, k) = SubSeq(s, 1, k)
           /\ SubSeq(s \o t, 1, Len(s)) = s
           /\ SubSeq(s \o t, Len(s) + 1, Len(s \o t)) = t
<1>1. Len(s) \in Nat /\ Len(t) \in Nat /\ Len(s \o t) = Len(s) + Len(t)
  BY LenProperties, ConcatProperties
<1>2. ASSUME NEW j \in 0 .. Len(s)
      PROVE  SubSeq(s \o t, 1, j) = SubSeq(s, 1, j)
  <2>1. CASE j = 0
    <3>1. SubSeq(s \o t, 1, j) = <<>> /\ SubSeq(s, 1, j) = <<>>
      BY <2>1, SubSeqEmpty
    <3> QED
      BY <3>1
  <2>2. CASE j # 0
    <3>1. 1 \in 1 .. Len(s) /\ j \in 1 .. Len(s)
      BY <1>1, <2>2
    <3> QED
      BY <3>1, SubSeqOfConcat1
  <2> QED
    BY <2>1, <2>2
<1>3. SubSeq(s \o t, 1, Len(s)) = s
  <2>1. SubSeq(s, 1, Len(s)) = s
    BY SubSeqFull
  <2>2. Len(s) \in 0 .. Len(s)
    BY <1>1
  <2> QED
    BY <1>2, <2>1, <2>2
<1>4. SubSeq(s \o t, Len(s) + 1, Len(s \o t)) = t
  <2>1. CASE Len(t) = 0
    <3>1. t = <<>>
      BY <2>1, EmptySeq
    <3>2. Len(s) + 1 \in Int /\ Len(s \o t) \in Int /\ Len(s \o t) < Len(s) + 1
      BY <1>1, <2>1
    <3>3. SubSeq(s \o t, Len(s) + 1, Len(s \o t)) = <<>>
      BY <3>2, SubSeqEmpty
    <3> QED
      BY <3>1, <3>3
  <2>2. CASE Len(t) # 0
    <3>1. /\ Len(s) + 1 \in Len(s) + 1 .. Len(s) + Len(t)
          /\ Len(s \o t) \in Len(s) + 1 .. Len(s) + Len(t)
          /\ Len(s) + 1 - Len(s) = 1 /\ Len(s \o t) - Len(s) = Len(t)
      BY <1>1, <2>2
    <3>2. SubSeq(s \o t, Len(s) + 1, Len(s \o t))
            = SubSeq(t, Len(s) + 1 - Len(s), Len(s \o t) - Len(s))
      BY <3>1, SubSeqOfConcat2
    <3>3. SubSeq(t, 1, Len(t)) = t
      BY SubSeqFull
    <3> QED
      BY <3>1, <3>2, <3>3
  <2> QED
    BY <2>1, <2>2
<1> QED
  BY <1>1, <1>2, <1>3, <1>4

\* What is on its way, and when something counts as gone wrong.
LEMMA OutgoingTypes ==
    ASSUME TypeOK, Loaded
    PROVE  /\ Outgoing \in Seq(Nat) /\ Contents(ring) \in Seq(Nat)
           /\ buffer \in Seq(Nat) /\ Queue \in Seq(Nat)
<1>1. buffer \in Seq(Nat) /\ Contents(ring) \in Seq(Nat)
  <2>1. 1 .. accepted \subseteq Nat
    BY DEF TypeOK
  <2> QED
    BY <2>1, SeqMonotonic DEF TypeOK
<1>2. Outgoing \in Seq(Nat)
  <2>1. CASE flying \/ \E c \in Contexts : pc[c] = "submit"
    BY <1>1, <2>1 DEF Outgoing
  <2>2. CASE /\ ~(flying \/ \E c \in Contexts : pc[c] = "submit")
             /\ pc[Callback] = "resubmit"
    <3>1. Len(buffer) > 0 /\ Len(buffer) \in Nat
      BY <1>1, <2>2, LenProperties DEF Loaded, Contexts
    <3>2. SubSeq(buffer, 1, 1) \in Seq(Nat)
      BY <1>1, <3>1, Beginning
    <3> QED
      BY <2>2, <3>2 DEF Outgoing
  <2>3. CASE /\ ~(flying \/ \E c \in Contexts : pc[c] = "submit")
             /\ pc[Callback] # "resubmit"
    BY <2>3, EmptySeq DEF Outgoing
  <2> QED
    BY <2>1, <2>2, <2>3
<1> QED
  BY <1>1, <1>2, ConcatProperties DEF Queue

Faulty ==
    \/ port \in {"kill", "killing"}
    \/ reject
    \/ pc[Callback] = "resubmit"
  => fault = TRUE

\* Every step keeps it so.
LEMMA FaultyStep == TypeOK /\ Faulty /\ [Next]_vars => Faulty'
<1> SUFFICES ASSUME TypeOK, Faulty, [Next]_vars PROVE Faulty'
  OBVIOUS
<1> USE DEF urb, place
<1>1. /\ pc \in [Contexts -> Steps] /\ Callback \in Contexts
      /\ \A w \in Writers : w \in Contexts /\ w # Callback
  BY UsbWriteAssumption DEF TypeOK, Contexts
<1>2. ASSUME NEW w \in Writers, NEW n \in 1 .. BUF_SIZE, Write(w, n)
      PROVE  Faulty'
  BY <1>1, <1>2 DEF Write, Faulty, Goto
<1>3. ASSUME NEW c \in Contexts, Sender(c) PROVE Faulty'
  BY <1>1, <1>3
     DEF Sender, Busy, Take, Submit, SubmitFails, GiveUp, Faulty, Goto
<1>4. CASE Core
  <2>1. CASE Complete
    BY <1>1, <2>1 DEF Complete, Returns, Faulty, Goto
  <2>2. ASSUME NEW k \in 0 .. Len(buffer), CompleteBadly(k) \/ Killed(k)
        PROVE  Faulty'
    BY <2>2 DEF CompleteBadly, Killed, Faulty
  <2> QED
    BY <1>4, <2>1, <2>2 DEF Core
<1>5. CASE CallbackStep
  BY <1>1, <1>5 DEF CallbackStep, Release, Terminated, Resubmit, Faulty, Goto
<1>6. CASE Open \/ Close \/ Kill \/ KillReturns
  BY <1>6 DEF Open, Close, Kill, KillReturns, Faulty
<1>7. CASE UNCHANGED vars
  BY <1>7 DEF vars, Faulty
<1> QED
  BY <1>2, <1>3, <1>4, <1>5, <1>6, <1>7 DEF Next, Caller
\* What is in the URB leaves, and its first k bytes arrive.
LEMMA AsLeave ==
    ASSUME TypeOK, Loaded, NEW k \in 0 .. Len(Outgoing),
           Outgoing' = <<>>, ring' = ring,
           line' = line \o SubSeq(Outgoing, 1, k),
           accepted' = accepted, fault' = (fault \/ k < Len(Outgoing))
    PROVE  Out!Next
<1>1. Outgoing \in Seq(Nat) /\ Contents(ring) \in Seq(Nat)
  BY OutgoingTypes
<1>2. /\ Len(Outgoing) \in 0 .. Len(Queue)
      /\ SubSeq(Queue, 1, k) = SubSeq(Outgoing, 1, k)
      /\ SubSeq(Queue, Len(Outgoing) + 1, Len(Queue)) = Contents(ring)
  BY <1>1, Pieces DEF Queue
<1>3. Queue' = Contents(ring)
  <2>1. <<>> \o Contents(ring) = Contents(ring)
    BY <1>1, ConcatEmptySeq
  <2> QED
    BY <2>1 DEF Queue
<1>4. Out!Leave(Len(Outgoing), k)
  BY <1>2, <1>3 DEF Out!Leave, Out!Front, Out!Rest
<1> QED
  BY <1>2, <1>4 DEF Out!Next

\* The same, but its first byte will be sent again.
LEMMA AsRepeat ==
    ASSUME TypeOK, Loaded, NEW k \in 0 .. Len(Outgoing), Len(Outgoing) > 0,
           Outgoing' = SubSeq(Outgoing, 1, 1), ring' = ring,
           line' = line \o SubSeq(Outgoing, 1, k),
           accepted' = accepted, fault' = TRUE
    PROVE  Out!Next
<1>1. /\ Outgoing \in Seq(Nat) /\ Contents(ring) \in Seq(Nat)
      /\ Len(Outgoing) \in Nat
  BY OutgoingTypes, LenProperties
<1>2. 1 \in 0 .. Len(Outgoing)
  BY <1>1
<1>3. /\ Len(Outgoing) \in 0 .. Len(Queue)
      /\ SubSeq(Queue, 1, k) = SubSeq(Outgoing, 1, k)
      /\ SubSeq(Queue, 1, 1) = SubSeq(Outgoing, 1, 1)
      /\ SubSeq(Queue, Len(Outgoing) + 1, Len(Queue)) = Contents(ring)
  BY <1>1, <1>2, Pieces DEF Queue
<1>4. Queue' = SubSeq(Queue, 1, 1) \o Contents(ring)
  BY <1>3 DEF Queue
<1>5. Out!Repeat(Len(Outgoing), k)
  BY <1>3, <1>4 DEF Out!Repeat, Out!Front, Out!Rest
<1> QED
  BY <1>3, <1>5 DEF Out!Next

\* Every step of the driver is a step of the stream, or none.
LEMMA StepImplements ==
    TypeOK /\ Loaded /\ OwnedOnce /\ Faulty /\ [Next]_vars
        => [Out!Next]_(Out!vars)
<1> SUFFICES ASSUME TypeOK, Loaded, OwnedOnce, Faulty, [Next]_vars
             PROVE  Out!Next \/ UNCHANGED <<Queue, line, accepted, fault>>
  BY DEF Out!vars
<1> USE DEF urb, place
<1>1. /\ pc \in [Contexts -> Steps] /\ Callback \in Contexts
      /\ \A w \in Writers : w \in Contexts /\ w # Callback
  BY UsbWriteAssumption DEF TypeOK, Contexts
<1>2. /\ Outgoing \in Seq(Nat) /\ Contents(ring) \in Seq(Nat)
      /\ buffer \in Seq(Nat) /\ line \in Seq(Nat)
      /\ Len(Outgoing) \in Nat /\ Len(buffer) \in Nat /\ accepted \in Nat
  <2>1. 1 .. accepted \subseteq Nat
    BY DEF TypeOK
  <2> QED
    BY <2>1, OutgoingTypes, LenProperties, SeqMonotonic DEF TypeOK
<1>3. ASSUME Outgoing' = Outgoing, UNCHANGED <<ring, line, accepted, fault>>
      PROVE  UNCHANGED <<Queue, line, accepted, fault>>
  BY <1>3 DEF Queue
\* What is on its way does not change with what the other contexts do.
<1>4. ASSUME UNCHANGED <<flying, buffer>>,
             \A c \in Contexts : pc'[c] = "submit" <=> pc[c] = "submit",
             pc'[Callback] = "resubmit" <=> pc[Callback] = "resubmit"
      PROVE  Outgoing' = Outgoing
  BY <1>4 DEF Outgoing
\* Nor does it stay when nobody owns the URB.
<1>5. ASSUME ~flying', \A c \in Contexts : pc'[c] # "submit",
             pc'[Callback] # "resubmit"
      PROVE  Outgoing' = <<>>
  BY <1>5 DEF Outgoing
<1>6. flying \/ (\E c \in Contexts : pc[c] = "submit")
        => Outgoing = buffer /\ Len(buffer) > 0
  BY DEF Outgoing, Loaded
<1>7. ASSUME NEW w \in Writers, NEW n \in 1 .. BUF_SIZE, Write(w, n)
      PROVE  Out!Next
  <2> DEFINE count == Moved(n, SpaceAvail(ring))
             new   == [i \in 1 .. count |-> accepted + i]
             s     == [i \in 1 .. n |-> accepted + i]
  <2>1. Outgoing' = Outgoing
    BY <1>1, <1>4, <1>7 DEF Write, Goto
  <2>2. n \in Nat
    BY RingAssumption
  <2>3. /\ accepted' = accepted + count /\ ring' = Put(ring, s)
        /\ UNCHANGED <<line, fault>>
    BY <1>7 DEF Write
  <2>4. /\ count \in 0 .. n
        /\ new \in Seq(1 .. accepted + count)
        /\ Contents(Put(ring, s)) = Contents(ring) \o new
    BY <2>2, Accepting
  <2> HIDE DEF count, s
  <2>5. [i \in 1 .. accepted' - accepted |-> accepted + i] = new
    <3>1. accepted' - accepted = count
      BY <1>2, <2>2, <2>3, <2>4
    <3> QED
      BY <3>1
  <2>6. accepted' \in Nat /\ accepted' >= accepted
    BY <1>2, <2>2, <2>3, <2>4
  <2>7. new \in Seq(Nat)
    <3>1. 1 .. accepted + count \subseteq Nat
      BY <1>2, <2>2, <2>4
    <3> HIDE DEF new
    <3> QED
      BY <2>4, <3>1, SeqMonotonic
  <2> HIDE DEF new
  <2>8. (Outgoing \o Contents(ring)) \o new = Outgoing \o (Contents(ring) \o new)
    BY <1>2, <2>7, Associative, Zenon
  <2>9. Queue' = Queue \o new
    BY <2>1, <2>3, <2>4, <2>8 DEF Queue
  <2> QED
    BY <2>3, <2>5, <2>6, <2>9 DEF Out!Next, Out!Accept
<1>8. ASSUME NEW c \in Contexts, Sender(c)
      PROVE  Out!Next \/ UNCHANGED <<Queue, line, accepted, fault>>
  <2>1. CASE Busy(c)
    BY <1>1, <1>3, <1>4, <2>1 DEF Busy, Goto
  <2>2. CASE Take(c)
    <3>1. Outgoing = <<>>
      BY <1>1, <2>2 DEF Take, OwnedOnce, Owners, Outgoing
    <3>2. Outgoing' = buffer'
      BY <1>1, <2>2 DEF Take, Goto, Outgoing
    <3>3. Contents(ring) = buffer' \o Contents(ring')
      BY <2>2, Taking DEF Take
    <3>4. Queue = Contents(ring)
      BY <1>2, <3>1, ConcatEmptySeq DEF Queue
    <3> QED
      BY <2>2, <3>2, <3>3, <3>4 DEF Take, Queue
  <2>3. CASE Submit(c)
    <3>1. Outgoing = buffer
      BY <1>6, <2>3 DEF Submit
    <3>2. Outgoing' = buffer'
      BY <2>3 DEF Submit, Outgoing
    <3> QED
      BY <1>3, <2>3, <3>1, <3>2 DEF Submit
  <2>4. CASE SubmitFails(c)
    <3>1. pc[c] = "submit" /\ Outgoing = buffer /\ Len(buffer) > 0
      BY <1>6, <2>4 DEF SubmitFails
    <3>2. ~flying /\ \A d \in Contexts : d # c
                       => pc[d] \notin {"submit", "resubmit"}
      BY <3>1 DEF OwnedOnce, Owners
    <3>3. Outgoing' = <<>>
      BY <1>1, <1>5, <2>4, <3>2 DEF SubmitFails, Goto, TypeOK
    <3>4. line' = line \o SubSeq(Outgoing, 1, 0)
      BY <1>2, <2>4, SubSeqEmpty, ConcatEmptySeq DEF SubmitFails
    <3>5. 0 < Len(Outgoing) /\ 0 \in 0 .. Len(Outgoing)
      BY <1>2, <3>1
    <3>6. fault' = TRUE /\ ring' = ring /\ accepted' = accepted
      BY <2>4 DEF SubmitFails
    <3>7. fault' = (fault \/ 0 < Len(Outgoing))
      BY <3>5, <3>6, Zenon
    <3> QED
      BY <3>3, <3>4, <3>5, <3>6, <3>7, AsLeave
  <2>5. CASE GiveUp(c)
    BY <1>1, <1>3, <1>4, <2>5 DEF GiveUp, Goto
  <2> QED
    BY <1>8, <2>1, <2>2, <2>3, <2>4, <2>5 DEF Sender
<1>9. CASE Core
  <2>1. ASSUME NEW k \in 0 .. Len(buffer), NEW step, Returns(k, step)
        PROVE  /\ Outgoing = buffer /\ Len(buffer) > 0
               /\ line' = line \o SubSeq(Outgoing, 1, k)
               /\ UNCHANGED <<ring, buffer, accepted>>
               /\ step \in {"release", "terminated"} => Outgoing' = <<>>
               /\ step = "resubmit" => Outgoing' = SubSeq(buffer, 1, 1)
    <3>1. flying /\ \A d \in Contexts : pc[d] # "submit"
      BY <2>1 DEF Returns, OwnedOnce, Owners
    <3>2. Outgoing = buffer /\ Len(buffer) > 0
      BY <1>6, <3>1
    <3>3. /\ flying' = FALSE /\ buffer' = buffer
          /\ pc' = [pc EXCEPT ![Callback] = step]
      BY <2>1 DEF Returns, Goto
    <3>4. step \in {"release", "terminated"} => Outgoing' = <<>>
      BY <1>1, <1>5, <3>1, <3>3
    <3>5. step = "resubmit" => Outgoing' = SubSeq(buffer, 1, 1)
      BY <1>1, <3>1, <3>3 DEF Outgoing
    <3> QED
      BY <2>1, <3>2, <3>4, <3>5 DEF Returns
  <2>2. CASE Complete
    <3>1. Len(buffer) \in 0 .. Len(buffer) /\ ~(Len(buffer) < Len(buffer))
      BY <1>2
    <3>2. Returns(Len(buffer), "release") /\ fault' = fault
      BY <2>2 DEF Complete
    <3>3. /\ Outgoing = buffer /\ Outgoing' = <<>> /\ ring' = ring
          /\ line' = line \o SubSeq(Outgoing, 1, Len(buffer))
          /\ accepted' = accepted
      BY <2>1, <3>1, <3>2
    <3>4. fault' = (fault \/ Len(buffer) < Len(buffer))
      BY <3>1, <3>2 DEF TypeOK
    <3> QED
      BY <3>1, <3>3, <3>4, AsLeave
  <2>3. ASSUME NEW k \in 0 .. Len(buffer), CompleteBadly(k) PROVE Out!Next
    <3>1. Returns(k, "resubmit") /\ fault' = TRUE
      BY <2>3 DEF CompleteBadly
    <3>2. /\ Outgoing = buffer /\ Len(buffer) > 0 /\ ring' = ring
          /\ Outgoing' = SubSeq(buffer, 1, 1)
          /\ line' = line \o SubSeq(Outgoing, 1, k)
          /\ accepted' = accepted
      BY <2>1, <3>1
    <3> QED
      BY <3>1, <3>2, AsRepeat
  <2>4. ASSUME NEW k \in 0 .. Len(buffer), Killed(k) PROVE Out!Next
    <3>1. Returns(k, "terminated") /\ fault' = TRUE /\ fault = TRUE
      BY <2>4 DEF Killed, Faulty
    <3>2. /\ Outgoing = buffer /\ Outgoing' = <<>> /\ ring' = ring
          /\ line' = line \o SubSeq(Outgoing, 1, k)
          /\ accepted' = accepted
      BY <2>1, <3>1
    <3>3. fault' = (fault \/ k < Len(Outgoing))
      BY <3>1
    <3> QED
      BY <3>2, <3>3, AsLeave
  <2> QED
    BY <1>9, <2>2, <2>3, <2>4 DEF Core
<1>10. CASE Release
  BY <1>1, <1>3, <1>4, <1>10 DEF Release, Goto
<1>11. CASE Terminated
  BY <1>1, <1>3, <1>4, <1>11 DEF Terminated, Goto
<1>12. CASE Resubmit
  <2>1. /\ ~flying /\ \A d \in Contexts : pc[d] # "submit"
        /\ pc[Callback] = "resubmit" /\ fault = TRUE /\ Len(buffer) > 0
    BY <1>1, <1>12 DEF Resubmit, OwnedOnce, Owners, Faulty, Loaded
  <2>2. Outgoing = SubSeq(buffer, 1, 1) /\ Len(Outgoing) = 1
    <3>1. Outgoing = SubSeq(buffer, 1, 1)
      BY <2>1 DEF Outgoing
    <3>2. 1 \in 0 .. Len(buffer)
      BY <1>2, <2>1
    <3> QED
      BY <1>2, <3>1, <3>2, Beginning
  <2>3. /\ buffer' = SubSeq(buffer, 1, 1)
        /\ UNCHANGED <<ring, line, accepted, fault>>
    BY <1>12 DEF Resubmit
  <2>4. CASE flying' = TRUE
    <3>1. Outgoing' = buffer'
      BY <2>4 DEF Outgoing
    <3> QED
      BY <1>3, <2>2, <2>3, <3>1
  <2>5. CASE flying' = flying /\ Goto(Callback, "release")
    <3>1. Outgoing' = <<>>
      BY <1>1, <1>5, <2>1, <2>5 DEF Goto
    <3>2. line' = line \o SubSeq(Outgoing, 1, 0)
      BY <1>2, <2>3, SubSeqEmpty, ConcatEmptySeq
    <3>3. 0 < Len(Outgoing) /\ 0 \in 0 .. Len(Outgoing)
      BY <2>2
    <3>4. fault' = (fault \/ 0 < Len(Outgoing))
      BY <2>1, <2>3, <3>3, Zenon
    <3> QED
      BY <2>3, <3>1, <3>2, <3>3, <3>4, AsLeave
  <2> QED
    BY <1>12, <2>4, <2>5 DEF Resubmit
<1>13. CASE Open
  BY <1>3, <1>4, <1>13 DEF Open
<1>14. CASE Close
  <2>1. Outgoing' = Outgoing
    BY <1>4, <1>14 DEF Close
  <2>2. Contents(ring') = <<>>
    BY <1>14, ClearEmpties DEF Close, TypeOK
  <2>3. Queue' = Outgoing
    BY <1>2, <2>1, <2>2, ConcatEmptySeq DEF Queue
  <2>4. 0 \in 0 .. Len(Outgoing)
    BY <1>2
  <2>5. /\ Len(Outgoing) \in 0 .. Len(Queue)
        /\ SubSeq(Queue, 1, Len(Outgoing)) = Outgoing
    BY <1>2, <2>4, Pieces DEF Queue
  <2>6. Out!Discard(Len(Outgoing))
    BY <1>14, <2>3, <2>5 DEF Close, Out!Discard, Out!Front
  <2> QED
    BY <2>5, <2>6 DEF Out!Next
<1>15. CASE Kill
  BY <1>3, <1>4, <1>15 DEF Kill
<1>16. CASE KillReturns
  BY <1>3, <1>4, <1>16 DEF KillReturns
<1>17. CASE UNCHANGED vars
  BY <1>3, <1>4, <1>17 DEF vars
<1> QED
  BY <1>7, <1>8, <1>9, <1>10, <1>11, <1>12, <1>13, <1>14, <1>15, <1>16, <1>17
     DEF Next, Caller, CallbackStep
\* The write side, with all its callers and the callback, is an ordered stream:
\* it implements Stream with what is in the URB and in the buffer as its queue.
THEOREM ImplementsStream == Spec => StreamSpec
<1>1. Init => Out!Init
  <2> SUFFICES ASSUME Init PROVE Out!Init
    OBVIOUS
  <2>1. TypeOK
    BY TypeInit
  <2>2. Outgoing = <<>>
    BY DEF Init, Outgoing, Contexts
  <2>3. ring.get = 0 /\ ring.put = 0 /\ ring \in Buffers(Nat)
    BY RingAssumption DEF Init, Alloc, Buffers, Index
  <2>4. Contents(ring) = <<>>
    <3>1. DataAvail(ring) = 0
      BY <2>3, Available
    <3> QED
      BY <2>3, <3>1, ContentsAre, EmptySeq
  <2>5. <<>> \o <<>> = <<>>
    BY EmptySeq, ConcatEmptySeq
  <2>6. Queue = <<>>
    BY <2>2, <2>4, <2>5 DEF Queue
  <2> QED
    BY <2>6 DEF Init, Out!Init
<1>2. Init => Loaded /\ Faulty /\ OwnedOnce
  BY DEF Init, Loaded, Faulty, OwnedOnce, Owners, Contexts
<1>3. TypeOK /\ Loaded /\ Faulty /\ OwnedOnce /\ [Next]_vars
          => Loaded' /\ Faulty' /\ OwnedOnce' /\ [Out!Next]_(Out!vars)
  BY LoadedStep, FaultyStep, OwnedStep, StepImplements
<1> QED
  BY <1>1, <1>2, <1>3, TypeCorrect, PTL DEF Spec, StreamSpec, Out!Spec

SP == INSTANCE StreamProofs WITH queue <- Queue

\* Until a transfer fails or the port is closed, every byte that ch34x_write
\* accepted has reached the device, is in the URB or waits in the buffer, once
\* and in order.
THEOREM NothingIsLost == Spec => []NothingLost
<1>1. Spec => Out!Spec
  BY ImplementsStream DEF StreamSpec
<1>2. SP!Spec => []SP!Whole
  BY SP!StreamWhole
<1>3. Out!Init => SP!Init
  BY DEF Out!Init, SP!Init
<1>4. [Out!Next]_(Out!vars) => [SP!Next]_(SP!vars)
  BY DEF Out!Next, Out!Accept, Out!Leave, Out!Repeat, Out!Discard, Out!Front, Out!Rest,
         Out!vars, SP!Next, SP!Accept, SP!Leave, SP!Repeat, SP!Discard,
         SP!Front, SP!Rest, SP!vars
<1>5. SP!Whole => NothingLost
  BY DEF NothingLost, Out!Whole, SP!Whole
<1> QED
  BY <1>1, <1>2, <1>3, <1>4, <1>5, PTL DEF Out!Spec, SP!Spec
\* While chars_in_buffer returns 0, no more bytes are on their way than the URB
\* carries, and none if it is not in use.
THEOREM TailIsInUrb == Spec => []TailInUrb
<1>1. TypeOK /\ Loaded /\ OwnedOnce /\ NothingLost => TailInUrb
  <2> SUFFICES ASSUME TypeOK, Loaded, OwnedOnce, NothingLost,
                      ~fault, CharsInBuffer = 0
               PROVE  accepted - Len(line)
                        <= IF inUse THEN BULK_OUT_SIZE ELSE 0
    BY DEF TailInUrb
  <2>1. /\ Outgoing \in Seq(Nat) /\ Contents(ring) \in Seq(Nat)
        /\ buffer \in Seq(Nat) /\ Queue \in Seq(Nat)
    BY OutgoingTypes
  <2>2. /\ line \in Seq(Nat) /\ accepted \in Nat
        /\ Len(buffer) <= BULK_OUT_SIZE
        /\ Len(line) \in Nat /\ Len(Outgoing) \in Nat /\ Len(buffer) \in Nat
    <3>1. 1 .. accepted \subseteq Nat
      BY DEF TypeOK
    <3> QED
      BY <2>1, <3>1, LenProperties, SeqMonotonic DEF TypeOK
  <2>3. Contents(ring) = <<>>
    BY <2>1, ContentsAre, EmptySeq DEF CharsInBuffer, TypeOK
  <2>4. Queue = Outgoing
    BY <2>1, <2>3, ConcatEmptySeq DEF Queue
  <2>5. line \o Outgoing = [i \in 1 .. accepted |-> i]
    BY <2>4 DEF NothingLost, Out!Whole
  <2>6. Len(line \o Outgoing) = accepted
    <3>1. [i \in 1 .. accepted |-> i] \in [1 .. accepted -> Nat]
      OBVIOUS
    <3>2. Len([i \in 1 .. accepted |-> i]) = accepted
      BY <2>2, <3>1, SeqDef, LenProperties
    <3> QED
      BY <2>5, <3>2
  <2>7. Len(line) + Len(Outgoing) = accepted
    BY <2>1, <2>2, <2>6, ConcatProperties
  <2>8. inUse => Len(Outgoing) <= BULK_OUT_SIZE
    <3>1. CASE flying \/ \E c \in Contexts : pc[c] = "submit"
      BY <2>2, <3>1 DEF Outgoing
    <3>2. CASE /\ ~(flying \/ \E c \in Contexts : pc[c] = "submit")
               /\ pc[Callback] = "resubmit"
      <4>1. 1 \in 0 .. Len(buffer)
        BY <2>2, <3>2 DEF Loaded, Contexts
      <4> QED
        BY <2>1, <3>2, <4>1, Beginning, UsbWriteAssumption DEF Outgoing
    <3>3. CASE /\ ~(flying \/ \E c \in Contexts : pc[c] = "submit")
               /\ pc[Callback] # "resubmit"
      BY <3>3, EmptySeq, UsbWriteAssumption DEF Outgoing
    <3> QED
      BY <3>1, <3>2, <3>3
  <2>9. ~inUse => Len(Outgoing) = 0
    <3> SUFFICES ASSUME ~inUse PROVE Len(Outgoing) = 0
      OBVIOUS
    <3>1. /\ ~flying /\ pc[Callback] # "resubmit"
          /\ \A c \in Contexts : pc[c] # "submit"
      BY DEF OwnedOnce, Owners, Contexts
    <3> QED
      BY <3>1, EmptySeq DEF Outgoing
  <2> QED
    BY <2>2, <2>7, <2>8, <2>9, UsbWriteAssumption
<1>2. Init => Loaded
  BY DEF Init, Loaded, Contexts
<1>3. TypeOK /\ Loaded /\ [Next]_vars => Loaded'
  BY LoadedStep
<1> QED
  BY <1>1, <1>2, <1>3, TypeCorrect, UrbOwnedOnce, NothingIsLost, PTL DEF Spec

=============================================================================
