---------------------------- MODULE StreamProofs ----------------------------
(***************************************************************************)
(* The ordered stream loses nothing until something goes wrong.            *)
(***************************************************************************)
EXTENDS Stream, SequenceTheorems, TLAPS

Numbers == queue \in Seq(Nat) /\ line \in Seq(Nat) /\ accepted \in Nat

\* The first n elements of the queue and the others.
LEMMA Split ==
    ASSUME queue \in Seq(Nat), NEW n \in 0 .. Len(queue)
    PROVE  /\ Front(n) \in Seq(Nat) /\ Len(Front(n)) = n
           /\ Rest(n) \in Seq(Nat)
           /\ Front(n) \o Rest(n) = queue
<1>1. Len(queue) \in Nat
  BY LenProperties
<1>2. \A i \in 1 .. Len(queue) : queue[i] \in Nat
  BY ElementOfSeq
<1>3. Front(n) \in Seq(Nat) /\ Len(Front(n)) = n
  <2>1. \A i \in 1 .. n : queue[i] \in Nat
    BY <1>1, <1>2
  <2>2. /\ SubSeq(queue, 1, n) \in Seq(Nat)
        /\ Len(SubSeq(queue, 1, n)) = IF 1 <= n THEN n - 1 + 1 ELSE 0
    BY <2>1, SubSeqProperties
  <2> QED
    BY <1>1, <2>2 DEF Front
<1>4. Rest(n) \in Seq(Nat)
  <2>1. \A i \in n + 1 .. Len(queue) : queue[i] \in Nat
    BY <1>1, <1>2
  <2> QED
    BY <1>1, <2>1, SubSeqProperties DEF Rest
<1>5. Front(n) \o Rest(n) = queue
  <2>1. SubSeq(queue, 1, n) \o SubSeq(queue, n + 1, Len(queue))
            = SubSeq(queue, 1, Len(queue))
    <3>1. /\ 1 \in 1 .. Len(queue) + 1 /\ n \in 1 - 1 .. Len(queue)
          /\ Len(queue) \in n .. Len(queue)
      BY <1>1
    <3> QED
      BY <3>1, ConcatAdjacentSubSeq
  <2> QED
    BY <2>1, SubSeqFull DEF Front, Rest
<1> QED
  BY <1>3, <1>4, <1>5

\* A run of numbers continued is a longer run.
LEMMA RunOn ==
    ASSUME NEW m \in Nat, NEW n \in Nat, m <= n
    PROVE  /\ [i \in 1 .. m |-> i] \in Seq(Nat)
           /\ [i \in 1 .. n - m |-> m + i] \in Seq(Nat)
           /\ [i \in 1 .. m |-> i] \o [i \in 1 .. n - m |-> m + i]
                = [i \in 1 .. n |-> i]
<1> DEFINE s == [i \in 1 .. m |-> i]
           t == [i \in 1 .. n - m |-> m + i]
           u == [i \in 1 .. n |-> i]
<1>1. /\ s \in Seq(Nat) /\ Len(s) = m
      /\ t \in Seq(Nat) /\ Len(t) = n - m
      /\ u \in Seq(Nat) /\ Len(u) = n
  <2>1. /\ s \in [1 .. m -> Nat] /\ t \in [1 .. n - m -> Nat]
        /\ u \in [1 .. n -> Nat] /\ n - m \in Nat
    OBVIOUS
  <2> QED
    BY <2>1, SeqDef, LenProperties
<1>2. /\ s \o t \in Seq(Nat) /\ Len(s \o t) = n
      /\ \A i \in 1 .. n : (s \o t)[i] = IF i <= m THEN s[i] ELSE t[i - m]
  <2> HIDE DEF s, t
  <2>1. Len(s) + Len(t) = n
    BY <1>1
  <2> QED
    BY <1>1, <2>1, ConcatProperties
<1>3. ASSUME NEW i \in 1 .. n PROVE (s \o t)[i] = u[i]
  <2>1. CASE i <= m
    BY <1>2, <2>1
  <2>2. CASE ~(i <= m)
    <3>1. i - m \in 1 .. n - m /\ m + (i - m) = i
      BY <2>2
    <3>2. t[i - m] = i
      BY <3>1
    <3> QED
      BY <1>2, <2>2, <3>2
  <2> QED
    BY <2>1, <2>2
<1>4. s \o t = u
  <2> HIDE DEF s, t, u
  <2> QED
    BY <1>1, <1>2, <1>3, SeqEqual
<1> QED
  BY <1>1, <1>4
\* Brackets do not matter.
LEMMA Associative ==
    \A s, t, u \in Seq(Nat) : s \o (t \o u) = (s \o t) \o u
<1>1. ASSUME NEW S, NEW s \in Seq(S), NEW t \in Seq(S), NEW u \in Seq(S)
      PROVE  s \o (t \o u) = (s \o t) \o u
  BY ConcatAssociative
<1> QED
  BY <1>1

\* Every step keeps the bytes numbers, and the stream whole.
LEMMA StepKeepsWhole ==
    ASSUME Numbers, Whole, [Next]_vars
    PROVE  Numbers' /\ Whole'
<1>1. CASE Accept
  <2> DEFINE new == [i \in 1 .. accepted' - accepted |-> accepted + i]
  <2>1. /\ accepted' \in Nat /\ accepted <= accepted' /\ accepted \in Nat
        /\ queue' = queue \o new
        /\ line' = line /\ fault' = fault
    BY <1>1 DEF Accept, Numbers
  <2>2. /\ new \in Seq(Nat)
        /\ [i \in 1 .. accepted |-> i] \o new = [i \in 1 .. accepted' |-> i]
    BY <2>1, RunOn
  <2> HIDE DEF new
  <2>3. queue' \in Seq(Nat)
    BY <2>1, <2>2, ConcatProperties DEF Numbers
  <2>4. line \o (queue \o new) = (line \o queue) \o new
    <3>1. line \in Seq(Nat) /\ queue \in Seq(Nat)
      BY DEF Numbers
    <3> QED
      BY <2>2, <3>1, Associative, Zenon
  <2> QED
    BY <2>1, <2>2, <2>3, <2>4 DEF Numbers, Whole
<1>2. ASSUME NEW n \in 0 .. Len(queue), Discard(n)
      PROVE  Numbers' /\ Whole'
  BY <1>2, Split DEF Discard, Numbers, Whole
<1>3. ASSUME NEW n \in 0 .. Len(queue), NEW k \in 0 .. n, Leave(n, k)
      PROVE  Numbers' /\ Whole'
  <2>1. /\ line' = line \o Front(k) /\ queue' = Rest(n)
        /\ accepted' = accepted /\ fault' = (fault \/ k < n)
        /\ Len(queue) \in Nat
    BY <1>3, LenProperties DEF Leave, Numbers
  <2>2. k \in 0 .. Len(queue)
    BY <2>1
  <2>3. /\ Front(k) \in Seq(Nat) /\ Rest(n) \in Seq(Nat)
        /\ Front(n) \o Rest(n) = queue
    BY <2>2, Split DEF Numbers
  <2>4. Numbers'
    BY <2>1, <2>3, ConcatProperties DEF Numbers
  <2>5. ASSUME ~fault' PROVE line' \o queue' = [i \in 1 .. accepted' |-> i]
    <3>1. ~(k < n) /\ ~fault
      BY <2>1, <2>5, Zenon
    <3>2. k = n
      BY <2>1, <3>1
    <3>3. line \o (Front(k) \o Rest(n)) = (line \o Front(k)) \o Rest(n)
      <4>1. /\ line \in Seq(Nat) /\ Front(k) \in Seq(Nat)
            /\ Rest(n) \in Seq(Nat)
        BY <2>3 DEF Numbers
      <4> QED
        BY <4>1, Associative, Zenon
    <3> QED
      BY <2>1, <2>3, <3>1, <3>2, <3>3 DEF Whole
  <2> QED
    BY <2>4, <2>5 DEF Whole
<1>4. ASSUME NEW n \in 0 .. Len(queue), NEW k \in 0 .. n, n > 0, Repeat(n, k)
      PROVE  Numbers' /\ Whole'
  <2>1. /\ line' = line \o Front(k) /\ queue' = Front(1) \o Rest(n)
        /\ accepted' = accepted /\ fault' = TRUE
        /\ Len(queue) \in Nat
    BY <1>4, LenProperties DEF Repeat, Numbers
  <2>2. k \in 0 .. Len(queue) /\ 1 \in 0 .. Len(queue)
    BY <1>4, <2>1
  <2>3. Front(k) \in Seq(Nat) /\ Front(1) \in Seq(Nat) /\ Rest(n) \in Seq(Nat)
    BY <2>2, Split DEF Numbers
  <2> QED
    BY <2>1, <2>3, ConcatProperties DEF Numbers, Whole
<1>5. CASE UNCHANGED vars
  BY <1>5 DEF vars, Numbers, Whole
<1> QED
  BY <1>1, <1>2, <1>3, <1>4, <1>5 DEF Next

\* The abstract stream is whole as long as nothing went wrong.
THEOREM StreamWhole == Spec => []Whole
<1>1. Init => Numbers /\ Whole
  <2> SUFFICES ASSUME Init PROVE Numbers /\ Whole
    OBVIOUS
  <2>1. <<>> \in Seq(Nat)
    BY EmptySeq
  <2>2. [i \in 1 .. 0 |-> i] \in Seq(Nat) /\ Len([i \in 1 .. 0 |-> i]) = 0
    <3>1. [i \in 1 .. 0 |-> i] \in [1 .. 0 -> Nat]
      OBVIOUS
    <3> QED
      BY <3>1, SeqDef, LenProperties
  <2>3. [i \in 1 .. 0 |-> i] = <<>>
    <3> HIDE DEF Init
    <3> QED
      BY <2>2, EmptySeq
  <2>4. <<>> \o <<>> = <<>>
    BY <2>1, ConcatEmptySeq
  <2> QED
    BY <2>1, <2>3, <2>4 DEF Init, Numbers, Whole
<1>2. Numbers /\ Whole /\ [Next]_vars => Numbers' /\ Whole'
  BY StepKeepsWhole
<1> QED
  BY <1>1, <1>2, PTL DEF Spec

=============================================================================
