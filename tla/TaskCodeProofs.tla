--------------------------- MODULE TaskCodeProofs ---------------------------
(***************************************************************************)
(* Theorems about TaskCode: what compiled code does, for every text.       *)
(***************************************************************************)
EXTENDS TaskCode, SequenceTheorems, WellFoundedInduction, TLAPS

-----------------------------------------------------------------------------
(* Numbers                                                                 *)

\* A set of numbers that is not empty has a least element.
LEMMA Least ==
    ASSUME NEW T, T \subseteq Nat, T # {}
    PROVE  \E x \in T : \A z \in T : x <= z
<1> DEFINE R == OpToRel(<, Nat)
<1>1. IsWellFoundedOn(R, Nat)
  BY NatLessThanWellFounded, Zenon
<1>2. \A x, z \in Nat : x < z => <<x, z>> \in R
  BY DEF OpToRel
<1> HIDE DEF R
<1>3. \E x \in T : \A z \in T : ~(<<z, x>> \in R)
  BY <1>1, WFMin, Zenon
<1>4. PICK x \in T : \A z \in T : ~(<<z, x>> \in R)
  BY <1>3
<1>5. \A z \in T : ~(z < x)
  BY <1>2, <1>4
<1> QED
  BY <1>5

\* Induction over the numbers, said with a set.
LEMMA NatSet ==
    ASSUME NEW S, 0 \in S, \A n \in Nat : n \in S => n + 1 \in S
    PROVE  \A n \in Nat : n \in S
<1> DEFINE T == Nat \ S
<1>1. SUFFICES ASSUME T # {} PROVE FALSE
  OBVIOUS
<1>2. T \subseteq Nat
  OBVIOUS
<1>3. PICK x \in T : \A z \in T : x <= z
  BY <1>1, <1>2, Least
<1>4. x \in Nat /\ x \notin S /\ x # 0
  BY <1>3
<1>5. x - 1 \in Nat /\ x - 1 < x /\ x = x - 1 + 1
  BY <1>4
<1>6. x - 1 \notin T
  BY <1>3, <1>5
<1> QED
  BY <1>4, <1>5, <1>6

\* Min and Max are what they say.
LEMMA MinIs ==
    ASSUME NEW S, S \subseteq Nat, S # {}
    PROVE  Min(S) \in S /\ \A z \in S : Min(S) <= z
<1>1. \E x \in S : \A z \in S : x <= z
  BY Least
<1> QED
  BY <1>1 DEF Min

LEMMA MaxIs ==
    ASSUME NEW S, NEW n \in Nat, S \subseteq 0 .. n, S # {}
    PROVE  Max(S) \in S /\ \A z \in S : z <= Max(S)
<1> DEFINE T == {m \in Nat : \A z \in S : z <= m}
<1>1. T \subseteq Nat /\ n \in T
  OBVIOUS
<1>2. PICK x \in T : \A z \in T : x <= z
  BY <1>1, Least
<1>3. x \in S
  <2>1. SUFFICES ASSUME x \notin S PROVE FALSE
    OBVIOUS
  <2>2. \A z \in S : z \in Nat /\ z < x
    BY <1>2, <2>1
  <2>3. x \in Nat /\ x > 0
    <3>1. PICK z : z \in S
      OBVIOUS
    <3>2. x \in Nat
      BY <1>1, <1>2
    <3> QED
      BY <2>2, <3>1, <3>2
  <2>4. x - 1 \in Nat /\ (\A z \in Nat : z < x => z <= x - 1) /\ ~(x <= x - 1)
    BY <2>3
  <2>5. x - 1 \in T
    BY <2>2, <2>4
  <2> QED
    BY <1>2, <2>4, <2>5
<1>4. \E m \in S : \A z \in S : m >= z
  BY <1>2, <1>3
<1> QED
  BY <1>4 DEF Max

-----------------------------------------------------------------------------
(* Texts: what is open where                                               *)

\* The closing braces among the first n tokens close the innermost block.
Braced(ts, n) ==
    \A c \in 1 .. n :
       ts[c].tag = "close" =>
       /\ ts[c] = End(ts[c].data)
       /\ ts[c].data \in Around(ts, c)
       /\ \A j \in Around(ts, c) : j <= ts[c].data

\* What is around a token is before it.
LEMMA AroundIs ==
    ASSUME NEW ts, NEW k \in Nat, NEW j \in Around(ts, k)
    PROVE  j \in Nat /\ 1 <= j /\ j < k /\ ts[j].tag \in BlockTags
BY DEF Around

\* One token further on.
LEMMA AroundLeaf ==
    ASSUME NEW ts, NEW n \in Nat, Braced(ts, n), NEW k \in 1 .. n,
           ~(ts[k].tag \in BlockTags), ts[k].tag # "close"
    PROVE  Around(ts, k + 1) = Around(ts, k)
<1>1. \A j : ts[k] # End(j)
  BY DEF End
<1>2. \A j : j \in 1 .. k + 1 - 1 <=> j \in 1 .. k - 1 \/ j = k
  OBVIOUS
<1> QED
  BY <1>1, <1>2 DEF Around

LEMMA AroundOpener ==
    ASSUME NEW ts, NEW n \in Nat, Braced(ts, n), NEW k \in 1 .. n,
           ts[k].tag \in BlockTags
    PROVE  Around(ts, k + 1) = Around(ts, k) \cup {k}
<1>1. \A j : j \in 1 .. k + 1 - 1 <=> j \in 1 .. k - 1 \/ j = k
  OBVIOUS
<1>2. \A j : ts[k] # End(j)
  BY DEF End, BlockTags, StrongTags
<1>3. ASSUME NEW c \in 1 .. k - 1 PROVE ts[c] # End(k)
  <2>1. SUFFICES ASSUME ts[c] = End(k) PROVE FALSE
    OBVIOUS
  <2>2. ts[c].tag = "close" /\ ts[c].data = k /\ c \in 1 .. n
    BY <2>1 DEF End
  <2>3. k \in Around(ts, c)
    BY <2>2 DEF Braced
  <2> QED
    BY <2>3 DEF Around
<1> QED
  BY <1>1, <1>2, <1>3 DEF Around

LEMMA AroundBrace ==
    ASSUME NEW ts, NEW n \in Nat, Braced(ts, n), NEW k \in 1 .. n,
           ts[k].tag = "close"
    PROVE  Around(ts, k + 1) = Around(ts, k) \ {ts[k].data}
<1>1. \A j : j \in 1 .. k + 1 - 1 <=> j \in 1 .. k - 1 \/ j = k
  OBVIOUS
<1>2. k \notin Around(ts, k + 1)
  BY DEF Around, BlockTags, StrongTags
<1>3. ts[k] = End(ts[k].data)
  BY DEF Braced
<1>4. \A j : ts[k] = End(j) <=> j = ts[k].data
  BY <1>3 DEF End
<1> QED
  BY <1>1, <1>2, <1>4 DEF Around

\* What is around an open block is what is around a token in it, and before
\* the block.
LEMMA AroundNests ==
    ASSUME NEW ts, NEW n \in Nat, Braced(ts, n), NEW k \in 1 .. n + 1,
           NEW h \in Around(ts, k)
    PROVE  \A j : j \in Around(ts, h) <=> j \in Around(ts, k) /\ j < h
<1>1. h \in 1 .. k - 1 /\ ts[h].tag # "close"
  BY DEF Around, BlockTags, StrongTags
<1>2. ASSUME NEW j \in Around(ts, k), j < h PROVE j \in Around(ts, h)
  BY <1>1, <1>2 DEF Around
<1>3. ASSUME NEW j \in Around(ts, h) PROVE j \in Around(ts, k) /\ j < h
  <2>1. j \in 1 .. h - 1 /\ ts[j].tag \in BlockTags /\ \A c \in 1 .. h - 1 : ts[c] # End(j)
    BY <1>1 DEF Around
  <2>2. ASSUME NEW c \in 1 .. k - 1 PROVE ts[c] # End(j)
    <3>1. SUFFICES ASSUME ts[c] = End(j) PROVE FALSE
      OBVIOUS
    <3>2. ts[c].tag = "close" /\ ts[c].data = j
      BY <3>1 DEF End
    <3>3. c \in 1 .. n /\ c > h
      BY <1>1, <2>1, <3>1, <3>2
    <3>4. \A i \in Around(ts, c) : i <= j
      BY <3>2, <3>3 DEF Braced
    <3>5. h \in Around(ts, c)
      BY <1>1, <3>3 DEF Around
    <3> QED
      BY <1>1, <2>1, <3>4, <3>5
  <2> QED
    BY <1>1, <2>1, <2>2 DEF Around
<1> QED
  BY <1>2, <1>3

\* Past a block's end everything is as it was before the block.
LEMMA AroundClosed ==
    ASSUME NEW ts, NEW n \in Nat, Braced(ts, n), NEW c \in 1 .. n,
           ts[c].tag = "close"
    PROVE  Around(ts, c + 1) = Around(ts, ts[c].data)
<1> DEFINE j == ts[c].data
<1>1. j \in Around(ts, c) /\ \A i \in Around(ts, c) : i <= j
  BY DEF Braced
<1>2. \A i \in Around(ts, c) : i \in Nat
  BY AroundIs
<1>3. c \in 1 .. n + 1
  OBVIOUS
<1>4. Around(ts, c + 1) = Around(ts, c) \ {j}
  BY AroundBrace
<1> HIDE DEF j
<1>5. \A i : i \in Around(ts, j) <=> i \in Around(ts, c) /\ i < j
  BY <1>1, <1>3, AroundNests
<1>6. \A i \in Around(ts, c) : i < j <=> i # j
  BY <1>1, <1>2
<1> QED
  BY <1>4, <1>5, <1>6 DEF j

\* The end of a block is where it is closed.
LEMMA EndIs ==
    ASSUME NEW ts, Len(ts) \in Nat, Braced(ts, Len(ts)),
           NEW c \in 1 .. Len(ts), NEW j \in Nat, j # 0, ts[c] = End(j)
    PROVE  EndOf(ts, j) = c
<1>1. ASSUME NEW d \in 1 .. Len(ts), ts[d] = End(j) PROVE d = c
  <2>1. /\ ts[c].tag = "close" /\ ts[c].data = j
        /\ ts[d].tag = "close" /\ ts[d].data = j
    BY <1>1 DEF End
  <2>2. j \in Around(ts, c) /\ j \in Around(ts, d)
    BY <2>1 DEF Braced
  <2> QED
    BY <1>1, <2>2 DEF Around
<1> QED
  BY <1>1 DEF EndOf

\* A block that is not open at the end has been closed.
LEMMA ClosedIs ==
    ASSUME NEW ts, Len(ts) \in Nat, Braced(ts, Len(ts)),
           NEW j \in 1 .. Len(ts), ts[j].tag \in BlockTags,
           j \notin Around(ts, Len(ts) + 1)
    PROVE  /\ EndOf(ts, j) \in 1 .. Len(ts)
           /\ ts[EndOf(ts, j)] = End(j)
<1>1. PICK c \in 1 .. Len(ts) : ts[c] = End(j)
  BY DEF Around
<1> QED
  BY <1>1, EndIs

\* More text does not change what was around a token, nor where it ended.
Extends(us, ts) ==
    /\ Len(ts) \in Nat /\ Len(us) = Len(ts) + 1
    /\ \A k \in 1 .. Len(ts) : us[k] = ts[k]

LEMMA AroundStays ==
    ASSUME NEW ts, NEW us, Extends(us, ts), NEW k \in 1 .. Len(ts) + 1
    PROVE  Around(us, k) = Around(ts, k) /\ Home(us, k) = Home(ts, k)
<1>1. \A j \in 1 .. k - 1 : us[j] = ts[j]
  BY DEF Extends
<1>2. Around(us, k) = Around(ts, k)
  BY <1>1 DEF Around
<1>3. \A j \in Around(ts, k) : us[j] = ts[j]
  BY <1>1 DEF Around
<1>4. {j \in Around(us, k) : us[j].tag \in StrongTags} = {j \in Around(ts, k) : ts[j].tag \in StrongTags}
  BY <1>2, <1>3
<1> QED
  BY <1>2, <1>4, Zenon DEF Home

LEMMA EndStays ==
    ASSUME NEW ts, NEW us, Extends(us, ts), Braced(us, Len(us)),
           NEW j \in Nat, j # 0, NEW c \in 1 .. Len(ts), ts[c] = End(j)
    PROVE  EndOf(us, j) = c
<1>1. Len(us) \in Nat /\ c \in 1 .. Len(us) /\ us[c] = End(j)
  BY DEF Extends
<1> QED
  BY <1>1, EndIs

\* Home is what it says.
LEMMA HomeIs ==
    ASSUME NEW ts, NEW k \in Nat
    PROVE  \/ /\ Home(ts, k) = 0
              /\ \A j \in Around(ts, k) : ts[j].tag \notin StrongTags
           \/ /\ Home(ts, k) \in Around(ts, k)
              /\ Home(ts, k) # 0
              /\ ts[Home(ts, k)].tag \in StrongTags
              /\ \A j \in Around(ts, k) : ts[j].tag \in StrongTags => j <= Home(ts, k)
<1> DEFINE S == {j \in Around(ts, k) : ts[j].tag \in StrongTags}
<1>1. S \subseteq 0 .. k /\ \A j \in S : j # 0
  BY DEF Around
<1>2. Home(ts, k) = IF S = {} THEN 0 ELSE Max(S)
  BY Zenon DEF Home, Innermost
<1>3. S # {} => Max(S) \in S /\ \A z \in S : z <= Max(S)
  <2> HIDE DEF S
  <2> QED
    BY <1>1, MaxIs
<1> QED
  BY <1>1, <1>2, <1>3

LEMMA HomeUnique ==
    ASSUME NEW ts, NEW k \in Nat, NEW h,
           \/ /\ h = 0
              /\ \A j \in Around(ts, k) : ts[j].tag \notin StrongTags
           \/ /\ h \in Around(ts, k)
              /\ ts[h].tag \in StrongTags
              /\ \A j \in Around(ts, k) : ts[j].tag \in StrongTags => j <= h
    PROVE  Home(ts, k) = h
<1>1. \A j \in Around(ts, k) : j \in Nat /\ j # 0
  BY AroundIs
<1>2. \/ /\ Home(ts, k) = 0
         /\ \A j \in Around(ts, k) : ts[j].tag \notin StrongTags
      \/ /\ Home(ts, k) \in Around(ts, k)
         /\ ts[Home(ts, k)].tag \in StrongTags
         /\ \A j \in Around(ts, k) : ts[j].tag \in StrongTags => j <= Home(ts, k)
  BY HomeIs
<1> QED
  BY <1>1, <1>2

-----------------------------------------------------------------------------
(* The code of a text: where each token's words are, and what they say     *)

\* How many words token k stands for.
Width(ts, k) ==
    IF ts[k].tag \in {"int", "string", "store", "load", "while", "break",
                      "continue", "if"} THEN 2
    ELSE IF ts[k].tag \in {"builtin", "atomic"} THEN 1
    ELSE IF ts[k].tag = "close" /\ ts[ts[k].data].tag = "loop" THEN 2
    ELSE IF ts[k].tag = "close" /\ ts[ts[k].data].tag = "atomic" THEN 1
    ELSE 0

\* The words of the tokens follow each other, and there are no others among
\* the first m.
Laid(ts, ps, m) ==
    /\ Len(ts) \in Nat /\ Len(ps) = Len(ts) + 1
    /\ \A k \in 1 .. Len(ts) + 1 : ps[k] \in Nat
    /\ ps[1] = 0 /\ ps[Len(ts) + 1] = m
    /\ \A k \in 1 .. Len(ts) : ps[k + 1] = ps[k] + Width(ts, k)
    /\ \A j \in 1 .. Len(ts), k \in 1 .. Len(ts) + 1 :
          j < k => ps[j] + Width(ts, j) <= ps[k]
    /\ \A i \in 1 .. m : \E k \in 1 .. Len(ts) : ps[k] < i /\ i <= ps[k + 1]

\* Where the code of block h starts, and whether its end is known.
Start(ps, h) == IF h = 0 THEN 0 ELSE ps[h]
Closed(ts, h) == h # 0 /\ \E c \in 1 .. Len(ts) : ts[c] = End(h)

\* The first word of token k...
HasOp(ts, ps, is, k) ==
    LET w == is[ps[k] + 1]
        t == ts[k]
    IN  /\ t.tag = "builtin" => w = Builtin(t.data)
        /\ t.tag \in {"int", "string"} => w = Op("literal")
        /\ t.tag \in {"store", "load", "atomic"} => w = Op(t.tag)
        /\ t.tag = "if" => w = Op("jumpif")
        /\ t.tag = "while" => w = Op("jumpifnot")
        /\ t.tag \in {"continue", "break"} => w = Op("jump")
        /\ t.tag = "close" /\ ts[t.data].tag = "loop" => w = Op("jump")
        /\ t.tag = "close" /\ ts[t.data].tag = "atomic" => w = Op("end_atomic")

\* ...and the second: a value, the place of a cell, or where to jump.
InCell(cs, kind, id, w) ==
    \E m \in 1 .. Len(cs) : /\ cs[m].kind = kind /\ cs[m].id = id
                            /\ w = HeapAt(cs[m].loc)
HasArg(ts, ps, is, cs, k) ==
    LET w == is[ps[k] + 2]
        t == ts[k]
    IN  /\ t.tag = "int" => w = Value(t.data)
        /\ t.tag = "string" => InCell(cs, "string", t.data, w)
        /\ t.tag \in {"store", "load"} => InCell(cs, "var", t.data, w)
        /\ t.tag = "continue" => w = To(Start(ps, Home(ts, k)))
        /\ t.tag = "close" /\ ts[t.data].tag = "loop" => w = To(ps[t.data])

\* A jump ahead has its target once that is known.
IsLeave(t) == t.tag \in {"while", "break"}
HasTarget(ts, ps, is, k) ==
    LET w == is[ps[k] + 2]
        t == ts[k]
    IN  /\ t.tag = "if" /\ Closed(ts, k) => w = To(ps[EndOf(ts, k)])
        /\ IsLeave(t) /\ Closed(ts, Home(ts, k))
             => w = To(ps[EndOf(ts, Home(ts, k)) + 1])

Coded(ts, ps, is, cs) ==
    \A k \in 1 .. Len(ts) : /\ HasOp(ts, ps, is, k)
                            /\ HasArg(ts, ps, is, cs, k)
                            /\ HasTarget(ts, ps, is, k)

LEMMA WidthType ==
    \A ts, k : Width(ts, k) \in {0, 1, 2}
BY DEF Width

\* What a token before the last one is keeps its width.
LEMMA WidthStays ==
    ASSUME NEW ts, NEW us, Extends(us, ts), Braced(ts, Len(ts)),
           NEW k \in 1 .. Len(ts)
    PROVE  /\ Width(us, k) = Width(ts, k)
           /\ ts[k].tag = "close" => us[ts[k].data] = ts[ts[k].data]
<1>1. us[k] = ts[k]
  BY DEF Extends
<1>2. ts[k].tag = "close" => us[ts[k].data] = ts[ts[k].data]
  <2>1. ts[k].tag = "close" => ts[k].data \in 1 .. k - 1
    BY DEF Braced, Around
  <2> QED
    BY <2>1 DEF Extends
<1> QED
  BY <1>1, <1>2 DEF Width

\* One token more is laid behind the others.
LEMMA LaidGrows ==
    ASSUME NEW n \in Nat, NEW m \in Nat,
           NEW ts, NEW us, NEW ps, NEW zs, NEW v \in {0, 1, 2}, Len(ts) = n,
           Laid(ts, ps, m), Braced(ts, n), Extends(us, ts),
           Extends(zs, ps), Width(us, n + 1) = v, zs[n + 2] = m + v
    PROVE  Laid(us, zs, m + v)
<1>1. /\ Len(us) = n + 1 /\ Len(ps) = n + 1 /\ Len(zs) = n + 2
      /\ ps[1] = 0 /\ ps[n + 1] = m
      /\ \A k \in 1 .. n + 1 : ps[k] \in Nat
  BY DEF Laid, Extends
<1>2. \A k \in 1 .. n + 1 : zs[k] = ps[k]
  BY <1>1 DEF Extends
<1>3. \A k \in 1 .. n : Width(us, k) = Width(ts, k)
  BY WidthStays
<1>4. \A k \in 1 .. n : ps[k + 1] = ps[k] + Width(ts, k)
  BY DEF Laid
<1>5. \A j \in 1 .. n, k \in 1 .. n + 1 : j < k => ps[j] + Width(ts, j) <= ps[k]
  BY DEF Laid
<1>6. \A i \in 1 .. m : \E k \in 1 .. n : ps[k] < i /\ i <= ps[k + 1]
  BY DEF Laid
<1>7. \A k \in 1 .. n + 2 : zs[k] \in Nat
  BY <1>1, <1>2
<1>8. ASSUME NEW k \in 1 .. n + 1 PROVE zs[k + 1] = zs[k] + Width(us, k)
  <2>1. CASE k \in 1 .. n
    BY <2>1, <1>1, <1>2, <1>3, <1>4
  <2>2. CASE k = n + 1
    BY <2>2, <1>1, <1>2
  <2> QED
    BY <2>1, <2>2
<1>9. ASSUME NEW j \in 1 .. n + 1, NEW k \in 1 .. n + 2, j < k
       PROVE  zs[j] + Width(us, j) <= zs[k]
  <2>1. CASE k \in 1 .. n + 1
    <3>1. j \in 1 .. n
      BY <1>9, <2>1
    <3> QED
      BY <1>2, <1>3, <1>5, <1>9, <2>1, <3>1
  <2>2. CASE k = n + 2 /\ j = n + 1
    BY <1>1, <1>2, <2>2
  <2>3. CASE k = n + 2 /\ j \in 1 .. n
    <3>1. ps[j] + Width(ts, j) <= ps[n + 1] /\ Width(ts, j) \in {0, 1, 2}
      BY <1>5, <2>3, WidthType
    <3> QED
      BY <1>1, <1>2, <1>3, <2>3, <3>1
  <2> QED
    BY <2>1, <2>2, <2>3
<1>10. ASSUME NEW i \in 1 .. m + v
       PROVE  \E k \in 1 .. n + 1 : zs[k] < i /\ i <= zs[k + 1]
  <2>1. CASE i \in 1 .. m
    <3>1. PICK k \in 1 .. n : ps[k] < i /\ i <= ps[k + 1]
      BY <1>6, <2>1
    <3>2. k \in 1 .. n + 1 /\ k + 1 \in 1 .. n + 1
      OBVIOUS
    <3> QED
      BY <1>2, <3>1, <3>2
  <2>2. CASE ~(i \in 1 .. m)
    <3>1. zs[n + 1] < i /\ i <= zs[n + 2] /\ n + 1 + 1 = n + 2 /\ n + 1 \in 1 .. n + 1
      BY <1>1, <1>2, <2>2
    <3> QED
      BY <3>1
  <2> QED
    BY <2>1, <2>2
<1>11. m + v \in Nat /\ Len(us) + 1 = n + 2 /\ Len(zs) = Len(us) + 1
  BY <1>1
<1>12. zs[1] = 0 /\ zs[Len(us) + 1] = m + v
  BY <1>1, <1>2, <1>11
<1> QED
  BY <1>1, <1>7, <1>8, <1>9, <1>10, <1>11, <1>12 DEF Laid

\* The first m words are enough for every token, and what a token is made of
\* lies before it.
LEMMA WordsOf ==
    ASSUME NEW n \in Nat, NEW m \in Nat, NEW ts, NEW ps, Len(ts) = n,
           Laid(ts, ps, m), NEW k \in 1 .. n
    PROVE  /\ ps[k] \in Nat /\ ps[k + 1] \in Nat
           /\ Width(ts, k) \in {0, 1, 2}
           /\ ps[k + 1] = ps[k] + Width(ts, k)
           /\ ps[k + 1] <= m
<1>1. /\ k + 1 \in 1 .. n + 1 /\ k \in 1 .. n + 1 /\ n + 1 \in 1 .. n + 1
      /\ k < n + 1
  OBVIOUS
<1>2. ps[k] \in Nat /\ ps[k + 1] \in Nat /\ ps[n + 1] = m
  BY <1>1 DEF Laid
<1>3. ps[k + 1] = ps[k] + Width(ts, k)
  BY DEF Laid
<1>4. ps[k] + Width(ts, k) <= ps[n + 1]
  BY <1>1 DEF Laid
<1> QED
  BY <1>2, <1>3, <1>4, WidthType

\* No two tokens share a word.
LEMMA WordsApart ==
    ASSUME NEW n \in Nat, NEW m \in Nat, NEW ts, NEW ps, Len(ts) = n,
           Laid(ts, ps, m), NEW j \in 1 .. n, NEW k \in 1 .. n,
           Width(ts, j) = 2
    PROVE  /\ Width(ts, k) > 0 => ps[j] + 2 # ps[k] + 1
           /\ Width(ts, k) = 2 /\ ps[j] + 2 = ps[k] + 2 => j = k
<1>1. /\ ps[j] \in Nat /\ ps[k] \in Nat /\ Width(ts, k) \in {0, 1, 2}
  BY WordsOf
<1>2. \A b \in 1 .. n, c \in 1 .. n + 1 : b < c => ps[b] + Width(ts, b) <= ps[c]
  BY DEF Laid
<1>3. /\ j < k => ps[j] + Width(ts, j) <= ps[k]
      /\ k < j => ps[k] + Width(ts, k) <= ps[j]
  BY <1>2
<1> QED
  BY <1>1, <1>3

\* The operations of the tokens there were.
LEMMA OpStays ==
    ASSUME NEW ts, NEW us, NEW ps, NEW qs, NEW is, NEW js, NEW n \in Nat,
           Len(ts) = n, Extends(us, ts), Braced(ts, n), NEW k \in 1 .. n,
           HasOp(ts, ps, is, k), qs[k] = ps[k],
           Width(ts, k) > 0 => js[ps[k] + 1] = is[ps[k] + 1]
    PROVE  HasOp(us, qs, js, k)
<1>1. us[k] = ts[k]
  BY DEF Extends
<1>2. ts[k].tag = "close" => us[ts[k].data] = ts[ts[k].data]
  BY WidthStays
<1>3. CASE Width(ts, k) > 0
  BY <1>1, <1>2, <1>3 DEF HasOp
<1>4. CASE Width(ts, k) = 0
  BY <1>1, <1>2, <1>4 DEF HasOp, Width
<1> QED
  BY <1>3, <1>4, WidthType

\* Cells that are added change none.
Keeps(ds, cs) ==
    /\ Len(cs) \in Nat /\ Len(ds) \in Nat /\ Len(cs) <= Len(ds)
    /\ \A i \in 1 .. Len(cs) : ds[i] = cs[i]

LEMMA InCellStays ==
    ASSUME NEW cs, NEW ds, Keeps(ds, cs), NEW kind, NEW id, NEW w,
           InCell(cs, kind, id, w)
    PROVE  InCell(ds, kind, id, w)
BY DEF Keeps, InCell

LEMMA StartStays ==
    ASSUME NEW ts, NEW us, NEW ps, NEW qs, NEW n \in Nat,
           Len(ts) = n, Len(ps) = n + 1, Extends(us, ts), Extends(qs, ps),
           NEW k \in 1 .. n
    PROVE  Start(qs, Home(us, k)) = Start(ps, Home(ts, k))
<1>1. Home(us, k) = Home(ts, k)
  BY AroundStays
<1>2. Home(ts, k) = 0 \/ Home(ts, k) \in 1 .. n
  BY HomeIs, AroundIs
<1> QED
  BY <1>1, <1>2 DEF Start, Extends

\* Their operands.
LEMMA ArgStays ==
    ASSUME NEW ts, NEW us, NEW ps, NEW qs, NEW is, NEW js, NEW cs, NEW ds,
           NEW n \in Nat,
           Len(ts) = n, Len(ps) = n + 1, Extends(us, ts), Extends(qs, ps),
           Braced(ts, n), Keeps(ds, cs),
           NEW k \in 1 .. n, HasArg(ts, ps, is, cs, k),
           ts[k].tag \in {"int", "string", "store", "load", "continue", "close"}
           /\ Width(ts, k) = 2
             => js[ps[k] + 2] = is[ps[k] + 2]
    PROVE  HasArg(us, qs, js, ds, k)
<1>1. us[k] = ts[k] /\ qs[k] = ps[k]
  BY DEF Extends
<1>2. ts[k].tag = "close" => /\ us[ts[k].data] = ts[ts[k].data]
                             /\ ts[k].data \in 1 .. n
                             /\ qs[ts[k].data] = ps[ts[k].data]
  <2>1. ts[k].tag = "close" => ts[k].data \in 1 .. k - 1
    BY DEF Braced, Around
  <2> QED
    BY <2>1, WidthStays DEF Extends
<1>3. Start(qs, Home(us, k)) = Start(ps, Home(ts, k))
  BY StartStays
<1>4. \A kind, id, w : InCell(cs, kind, id, w) => InCell(ds, kind, id, w)
  BY InCellStays
<1>5. CASE ts[k].tag \in {"int", "string", "store", "load", "continue"}
  <2>1. js[ps[k] + 2] = is[ps[k] + 2]
    BY <1>5 DEF Width
  <2> QED
    BY <1>1, <1>3, <1>4, <1>5, <2>1 DEF HasArg
<1>6. CASE ts[k].tag = "close" /\ ts[ts[k].data].tag = "loop"
  <2>1. js[ps[k] + 2] = is[ps[k] + 2]
    BY <1>6 DEF Width
  <2> QED
    BY <1>1, <1>2, <1>6, <2>1 DEF HasArg
<1>7. CASE /\ ~(ts[k].tag \in {"int", "string", "store", "load", "continue"})
           /\ ~(ts[k].tag = "close" /\ ts[ts[k].data].tag = "loop")
  BY <1>1, <1>2, <1>7 DEF HasArg
<1> QED
  BY <1>5, <1>6, <1>7

\* Their targets: those that were known...
LEMMA TargetStays ==
    ASSUME NEW ts, NEW us, NEW ps, NEW qs, NEW is, NEW js,
           NEW n \in Nat,
           Len(ts) = n, Len(ps) = n + 1, Extends(us, ts), Extends(qs, ps),
           Braced(us, n + 1), NEW k \in 1 .. n, NEW h \in 1 .. n,
           \/ ts[k].tag = "if" /\ h = k
           \/ IsLeave(ts[k]) /\ h = Home(ts, k),
           HasTarget(ts, ps, is, k), Closed(ts, h),
           js[ps[k] + 2] = is[ps[k] + 2]
    PROVE  HasTarget(us, qs, js, k)
<1>1. us[k] = ts[k] /\ qs[k] = ps[k] /\ Len(us) = n + 1
  BY DEF Extends
<1>2. Home(us, k) = Home(ts, k)
  BY AroundStays
<1>3. PICK c \in 1 .. n : ts[c] = End(h)
  BY DEF Closed
<1>4. us[c] = ts[c] /\ c \in 1 .. Len(us) /\ us[c] = End(h) /\ Len(us) \in Nat
  BY <1>1, <1>3 DEF Extends
<1>5. Braced(us, Len(us)) /\ h # 0 /\ h \in Nat
  BY <1>1
<1>6. EndOf(us, h) = c
  BY <1>4, <1>5, EndIs
<1>7. Braced(ts, n)
  <2>1. \A d \in 1 .. n : us[d] = ts[d] /\ d \in 1 .. Len(ts) + 1
    BY DEF Extends
  <2>2. \A d \in 1 .. n : Around(us, d) = Around(ts, d)
    BY <2>1, AroundStays
  <2> QED
    BY <2>1, <2>2 DEF Braced
<1>8. EndOf(ts, h) = c
  BY <1>3, <1>5, <1>7, EndIs
<1>9. qs[c] = ps[c] /\ qs[c + 1] = ps[c + 1]
  BY <1>3 DEF Extends
<1> QED
  BY <1>1, <1>2, <1>6, <1>8, <1>9 DEF HasTarget, IsLeave

-----------------------------------------------------------------------------
(* The activations of _process, and what waits for their ends              *)

\* Which strong block the activation d is in.
Homed(bs, d) ==
    /\ bs[d].home \in 1 .. d
    /\ bs[bs[d].home].tag \in StrongTags
    /\ \A e \in bs[d].home + 1 .. d : ~(bs[e].tag \in StrongTags)

\* There is an activation for each open block, in their order, and one for the
\* whole text below them.
Stacked(ts, ps, bs) ==
    /\ Len(bs) \in Nat /\ Len(bs) > 0
    /\ bs[1] = Frame("block", 0, 1, 0)
    /\ \A d \in 2 .. Len(bs) :
          /\ bs[d].tok \in Around(ts, Len(ts) + 1)
          /\ bs[d].tag = ts[bs[d].tok].tag
          /\ bs[d].at = IF bs[d].tag = "if" THEN ps[bs[d].tok] + 2 ELSE ps[bs[d].tok]
    /\ \A j \in Around(ts, Len(ts) + 1) :
          \E d \in 2 .. Len(bs) : bs[d].tok = j
    /\ \A d, e \in 1 .. Len(bs) : d < e => bs[d].tok < bs[e].tok
    /\ \A d \in 1 .. Len(bs) : Homed(bs, d)

\* The words of while and break wait for the end of the strong block they
\* are in, as long as it is open, and nothing else does.
Waiting(ts, ps, bs, ws) ==
    /\ \A k \in 1 .. Len(ts) :
          IsLeave(ts[k]) /\ ~Closed(ts, Home(ts, k))
          => \E d \in 1 .. Len(bs) : /\ bs[d].tok = Home(ts, k)
                                     /\ <<ps[k] + 2, d>> \in ws
    /\ \A w \in ws :
          \E k \in 1 .. Len(ts), d \in 1 .. Len(bs) :
             /\ IsLeave(ts[k]) /\ bs[d].tok = Home(ts, k)
             /\ w = <<ps[k] + 2, d>>

\* What the tokens of activations are.
LEMMA FrameIs ==
    ASSUME NEW ts, NEW ps, NEW bs, NEW n \in Nat, Len(ts) = n,
           Stacked(ts, ps, bs), NEW d \in 1 .. Len(bs)
    PROVE  /\ bs[d].tok \in 0 .. n
           /\ d > 1 => /\ bs[d].tok \in 1 .. n
                       /\ bs[d].tag = ts[bs[d].tok].tag
                       /\ bs[d].tag \in BlockTags
           /\ d = 1 => bs[d].tok = 0 /\ bs[d].tag = "block"
           /\ d < Len(bs) => bs[d].tok < bs[Len(bs)].tok
<1>1. d = 1 => bs[d].tok = 0 /\ bs[d].tag = "block"
  BY DEF Stacked, Frame
<1>2. ASSUME d > 1
      PROVE  bs[d].tok \in 1 .. n /\ bs[d].tag = ts[bs[d].tok].tag /\ bs[d].tag \in BlockTags
  <2>1. d \in 2 .. Len(bs)
    BY <1>2
  <2>2. bs[d].tok \in Around(ts, n + 1) /\ bs[d].tag = ts[bs[d].tok].tag
    BY <2>1 DEF Stacked
  <2> QED
    BY <2>2, AroundIs
<1>3. d < Len(bs) => bs[d].tok < bs[Len(bs)].tok
  BY DEF Stacked
<1> QED
  BY <1>1, <1>2, <1>3

\* The innermost open block is the one on top.
LEMMA TopInner ==
    ASSUME NEW ts, NEW ps, NEW bs, NEW n \in Nat, Len(ts) = n,
           Stacked(ts, ps, bs)
    PROVE  /\ Len(bs) > 1 =>
                /\ Innermost(Around(ts, n + 1)) = bs[Len(bs)].tok
                /\ bs[Len(bs)].tok \in Around(ts, n + 1)
                /\ \A j \in Around(ts, n + 1) : j <= bs[Len(bs)].tok
           /\ Len(bs) = 1 => Around(ts, n + 1) = {}
<1> DEFINE D == Len(bs)
           S == Around(ts, n + 1)
<1>1. D \in Nat /\ \A j \in S : \E d \in 2 .. D : bs[d].tok = j
  BY DEF Stacked
<1>2. D = 1 => S = {}
  BY <1>1
<1>3. ASSUME D > 1
      PROVE  bs[D].tok \in S /\ \A j \in S : j <= bs[D].tok
  <2>1. bs[D].tok \in S
    BY <1>1, <1>3 DEF Stacked
  <2>2. \A d \in 2 .. D : d = D \/ bs[d].tok < bs[D].tok
    BY <1>1, FrameIs
  <2>3. \A j \in S : j \in Nat
    BY AroundIs
  <2> QED
    BY <1>1, <2>1, <2>2, <2>3
<1>4. S \subseteq 0 .. n
  BY AroundIs
<1> HIDE DEF S
<1>5. ASSUME D > 1 PROVE Innermost(S) = bs[D].tok
  <2>1. S # {} /\ Max(S) \in S /\ \A z \in S : z <= Max(S)
    BY <1>3, <1>4, <1>5, MaxIs
  <2>2. Max(S) <= bs[D].tok /\ bs[D].tok <= Max(S)
    BY <1>3, <1>5, <2>1
  <2>3. Max(S) \in 0 .. n /\ bs[D].tok \in 0 .. n
    BY <1>3, <1>4, <1>5, <2>1
  <2>4. Max(S) = bs[D].tok
    BY <2>2, <2>3
  <2> QED
    BY <2>1, <2>4 DEF Innermost
<1> QED
  BY <1>2, <1>3, <1>5 DEF S

\* break and continue find the strong block they are in.
LEMMA TopHome ==
    ASSUME NEW ts, NEW ps, NEW bs, NEW n \in Nat, Len(ts) = n,
           Stacked(ts, ps, bs)
    PROVE  LET h == bs[Len(bs)].home
           IN  /\ h \in 1 .. Len(bs)
               /\ bs[h].tok = Home(ts, n + 1)
               /\ bs[h].at = Start(ps, Home(ts, n + 1))
<1> DEFINE D == Len(bs)
           h == bs[D].home
<1>1. D \in Nat /\ D > 0 /\ D \in 1 .. D
  BY DEF Stacked
<1>2. /\ h \in 1 .. D /\ bs[h].tag \in StrongTags
      /\ \A e \in h + 1 .. D : ~(bs[e].tag \in StrongTags)
  BY <1>1 DEF Stacked, Homed
<1>3. \A j \in Around(ts, n + 1) : \E d \in 2 .. D : bs[d].tok = j
  BY DEF Stacked
<1>4. \A d \in 2 .. D : bs[d].tag = ts[bs[d].tok].tag
  BY DEF Stacked
<1> HIDE DEF h, D
<1>5. CASE h = 1
  <2>1. bs[1].tok = 0 /\ bs[1].at = 0
    BY DEF Stacked, Frame
  <2>2. \A j \in Around(ts, n + 1) : ~(ts[j].tag \in StrongTags)
    <3>1. \A d \in 2 .. D : d \in h + 1 .. D
      BY <1>5
    <3> QED
      BY <1>2, <1>3, <1>4, <3>1
  <2>3. Home(ts, n + 1) = 0
    BY <2>2, HomeUnique
  <2> QED
    BY <1>2, <1>5, <2>1, <2>3 DEF Start, h, D
<1>6. CASE h # 1
  <2>1. h \in 2 .. D
    BY <1>1, <1>2, <1>6
  <2>2. /\ bs[h].tok \in Around(ts, n + 1)
        /\ bs[h].tag = ts[bs[h].tok].tag
        /\ bs[h].at = IF bs[h].tag = "if" THEN ps[bs[h].tok] + 2 ELSE ps[bs[h].tok]
    BY <2>1 DEF Stacked, D
  <2>3. ASSUME NEW j \in Around(ts, n + 1), ts[j].tag \in StrongTags
        PROVE  j <= bs[h].tok
    <3>1. PICK d \in 2 .. D : bs[d].tok = j
      BY <1>3
    <3>2. bs[d].tag \in StrongTags
      BY <1>4, <2>3, <3>1
    <3>3. d <= h
      BY <1>1, <1>2, <3>2
    <3>4. d < h => bs[d].tok < bs[h].tok
      BY <1>1, <1>2 DEF Stacked, D
    <3>5. d = h => bs[d].tok = bs[h].tok
      OBVIOUS
    <3>6. j \in Nat /\ bs[h].tok \in Nat
      BY <2>2, AroundIs
    <3> QED
      BY <3>1, <3>3, <3>4, <3>5, <3>6, <1>1, <1>2
  <2>4. bs[h].tok = Home(ts, n + 1)
    BY <1>2, <2>2, <2>3, HomeUnique
  <2>5. ~(bs[h].tag = "if")
    BY <1>2 DEF StrongTags
  <2>6. bs[h].tok # 0 /\ ps[bs[h].tok] = bs[h].at
    BY <2>2, <2>5, AroundIs
  <2> QED
    BY <1>2, <2>4, <2>6 DEF Start, h, D
<1> QED
  BY <1>5, <1>6

\* A token that neither opens nor closes a block leaves the activations.
LEMMA StackLeaf ==
    ASSUME NEW ts, NEW us, NEW ps, NEW qs, NEW bs, NEW n \in Nat,
           Len(ts) = n, Len(ps) = n + 1, Extends(us, ts), Extends(qs, ps),
           Stacked(ts, ps, bs), Around(us, n + 2) = Around(ts, n + 1)
    PROVE  Stacked(us, qs, bs)
<1>1. Len(us) + 1 = n + 2
  BY DEF Extends
<1>2. Len(bs) \in Nat /\ \A d \in 2 .. Len(bs) : d \in 1 .. Len(bs) /\ d > 1
  BY DEF Stacked
<1>3. \A d \in 2 .. Len(bs) : bs[d].tok \in 1 .. n
  BY <1>2, FrameIs
<1>4. ASSUME NEW d \in 2 .. Len(bs)
      PROVE  us[bs[d].tok] = ts[bs[d].tok] /\ qs[bs[d].tok] = ps[bs[d].tok]
  BY <1>3 DEF Extends
<1> QED
  BY <1>1, <1>4 DEF Stacked

LEMMA UpTo ==
    ASSUME NEW m \in Nat, NEW h \in 1 .. m
    PROVE  \A e \in h + 1 .. m + 1 : e = m + 1 \/ (e \in h + 1 .. m /\ e \in 1 .. m)
OBVIOUS

\* One that opens a block has one more.
Pushed(cs, bs, f) ==
    /\ Len(bs) \in Nat /\ Len(cs) = Len(bs) + 1
    /\ \A d \in 1 .. Len(bs) : cs[d] = bs[d]
    /\ cs[Len(cs)] = f

LEMMA StackOpen ==
    ASSUME NEW ts, NEW us, NEW ps, NEW qs, NEW bs, NEW cs, NEW f,
           NEW n \in Nat,
           Len(ts) = n, Len(ps) = n + 1, Extends(us, ts), Extends(qs, ps),
           Stacked(ts, ps, bs), Around(us, n + 2) = Around(ts, n + 1) \cup {n + 1},
           Pushed(cs, bs, f), f.tok = n + 1, f.tag = us[n + 1].tag,
           f.at = IF f.tag = "if" THEN qs[n + 1] + 2 ELSE qs[n + 1],
           f.home = IF f.tag \in StrongTags THEN Len(bs) + 1
                    ELSE bs[Len(bs)].home
    PROVE  Stacked(us, qs, cs)
<1> DEFINE D == Len(bs)
<1>1. Len(us) + 1 = n + 2 /\ Len(us) = n + 1
  BY DEF Extends
<1>2. D \in Nat /\ D > 0 /\ Len(cs) = D + 1 /\ cs[D + 1] = f
  BY DEF Stacked, Pushed
<1>3. \A d \in 1 .. D : cs[d] = bs[d]
  BY DEF Pushed
<1>4. \A d \in 1 .. D : bs[d].tok \in 0 .. n
  BY FrameIs
<1>5. \A d \in 2 .. D : bs[d].tok \in 1 .. n
  BY <1>2, FrameIs
<1>6. \A d \in 1 .. D : Homed(bs, d)
  BY DEF Stacked
<1>7. ASSUME NEW d \in 2 .. D
      PROVE  /\ bs[d].tok \in Around(us, n + 2)
             /\ bs[d].tag = us[bs[d].tok].tag
             /\ bs[d].at = IF bs[d].tag = "if" THEN qs[bs[d].tok] + 2 ELSE qs[bs[d].tok]
  <2>1. us[bs[d].tok] = ts[bs[d].tok] /\ qs[bs[d].tok] = ps[bs[d].tok]
    BY <1>5 DEF Extends
  <2>2. /\ bs[d].tok \in Around(ts, n + 1)
        /\ bs[d].tag = ts[bs[d].tok].tag
        /\ bs[d].at = IF bs[d].tag = "if" THEN ps[bs[d].tok] + 2 ELSE ps[bs[d].tok]
    BY DEF Stacked
  <2> QED
    BY <2>1, <2>2
<1>8. \A j \in Around(ts, n + 1) : \E d \in 2 .. D : bs[d].tok = j
  BY DEF Stacked
<1>9. \A d, e \in 1 .. D : d < e => bs[d].tok < bs[e].tok
  BY DEF Stacked
<1>10. cs[1] = Frame("block", 0, 1, 0)
  BY <1>2, <1>3 DEF Stacked
<1> HIDE DEF D
<1>11. ASSUME NEW d \in 2 .. D + 1
       PROVE  /\ cs[d].tok \in Around(us, n + 2)
              /\ cs[d].tag = us[cs[d].tok].tag
              /\ cs[d].at = IF cs[d].tag = "if" THEN qs[cs[d].tok] + 2 ELSE qs[cs[d].tok]
  <2>1. CASE d \in 2 .. D
    <3>1. cs[d] = bs[d]
      BY <1>3, <2>1
    <3> QED
      BY <1>7, <2>1, <3>1
  <2>2. CASE d = D + 1
    <3>1. cs[d] = f /\ n + 1 \in Around(us, n + 2)
      BY <1>2, <2>2
    <3> QED
      BY <3>1
  <2> QED
    BY <1>2, <2>1, <2>2
<1>12. ASSUME NEW j \in Around(us, n + 2) PROVE \E d \in 2 .. D + 1 : cs[d].tok = j
  <2>1. CASE j \in Around(ts, n + 1)
    <3>1. PICK d \in 2 .. D : bs[d].tok = j
      BY <1>8, <2>1
    <3>2. d \in 2 .. D + 1 /\ d \in 1 .. D
      BY <1>2
    <3> QED
      BY <1>3, <3>1, <3>2
  <2>2. CASE j = n + 1
    <3>1. cs[D + 1].tok = j /\ D + 1 \in 2 .. D + 1
      BY <1>2, <2>2
    <3> QED
      BY <3>1
  <2> QED
    BY <2>1, <2>2
<1>13. ASSUME NEW d \in 1 .. D + 1, NEW e \in 1 .. D + 1, d < e
       PROVE  cs[d].tok < cs[e].tok
  <2>1. d \in 1 .. D /\ cs[d] = bs[d]
    BY <1>2, <1>3, <1>13
  <2>2. CASE e \in 1 .. D
    BY <1>3, <1>9, <1>13, <2>1, <2>2
  <2>3. CASE e = D + 1
    BY <1>2, <1>4, <2>1, <2>3
  <2> QED
    BY <1>2, <2>2, <2>3
<1>14. ASSUME NEW d \in 1 .. D PROVE Homed(cs, d)
  <2>1. /\ bs[d].home \in 1 .. d
        /\ bs[bs[d].home].tag \in StrongTags
        /\ \A e \in bs[d].home + 1 .. d : ~(bs[e].tag \in StrongTags)
    BY <1>6 DEF Homed
  <2>2. cs[d] = bs[d]
    BY <1>3
  <2> DEFINE h == bs[d].home
  <2> HIDE DEF h
  <2>3. h \in 1 .. D /\ \A e \in h + 1 .. d : e \in 1 .. D
    BY <1>2, <2>1 DEF h
  <2>4. cs[h] = bs[h] /\ \A e \in h + 1 .. d : cs[e] = bs[e]
    BY <1>3, <2>3
  <2>5. \A e \in h + 1 .. d : ~(cs[e].tag \in StrongTags)
    BY <2>1, <2>4 DEF h
  <2>6. h \in 1 .. d /\ cs[h].tag \in StrongTags /\ cs[d].home = h
    BY <2>1, <2>2, <2>4 DEF h
  <2> QED
    BY <2>5, <2>6 DEF Homed
<1>15. Homed(cs, D + 1)
  <2>1. cs[D + 1] = f
    BY <1>2
  <2>2. CASE f.tag \in StrongTags
    <3>1. f.home = D + 1
      BY <2>2 DEF D
    <3>2. f.home \in 1 .. D + 1 /\ \A e \in f.home + 1 .. D + 1 : FALSE
      BY <1>2, <3>1
    <3> QED
      BY <2>1, <2>2, <3>1, <3>2 DEF Homed
  <2>3. CASE ~(f.tag \in StrongTags)
    <3> DEFINE h == bs[D].home
    <3>1. f.home = h
      BY <2>3 DEF D
    <3>2. /\ h \in 1 .. D /\ bs[h].tag \in StrongTags
          /\ \A e \in h + 1 .. D : ~(bs[e].tag \in StrongTags)
      BY <1>2, <1>6 DEF Homed
    <3> HIDE DEF h
    <3>3. /\ h \in 1 .. D + 1 /\ cs[h] = bs[h]
          /\ \A e \in h + 1 .. D + 1 : e = D + 1 \/ (e \in h + 1 .. D /\ e \in 1 .. D)
      <4>1. h \in 1 .. D /\ D \in Nat
        BY <1>2, <3>2
      <4>2. h \in 1 .. D + 1
        BY <4>1
      <4>3. cs[h] = bs[h]
        BY <1>3, <4>1
      <4>4. \A e \in h + 1 .. D + 1 : e = D + 1 \/ (e \in h + 1 .. D /\ e \in 1 .. D)
        BY <4>1, UpTo
      <4> QED
        BY <4>2, <4>3, <4>4
    <3>4. \A e \in h + 1 .. D + 1 : ~(cs[e].tag \in StrongTags)
      BY <1>3, <2>1, <2>3, <3>2, <3>3
    <3>5. cs[h].tag \in StrongTags /\ cs[D + 1].home = h
      BY <2>1, <3>1, <3>2, <3>3
    <3> QED
      BY <3>3, <3>4, <3>5 DEF Homed
  <2> QED
    BY <2>2, <2>3
<1>16. \A d \in 1 .. D + 1 : d \in 1 .. D \/ d = D + 1
  BY <1>2
<1>17. \A d \in 1 .. D + 1 : Homed(cs, d)
  BY <1>14, <1>15, <1>16
<1>18. Len(cs) \in Nat /\ Len(cs) > 0
  BY <1>2
<1> QED
  BY <1>1, <1>2, <1>10, <1>11, <1>12, <1>13, <1>17, <1>18 DEF Stacked

\* One that closes the innermost block takes the activation on top away.
Popped(cs, bs) ==
    /\ Len(bs) \in Nat /\ Len(bs) > 1 /\ Len(cs) = Len(bs) - 1
    /\ \A d \in 1 .. Len(cs) : cs[d] = bs[d]

LEMMA StackClose ==
    ASSUME NEW ts, NEW us, NEW ps, NEW qs, NEW bs, NEW cs, NEW n \in Nat,
           Len(ts) = n, Len(ps) = n + 1, Extends(us, ts), Extends(qs, ps),
           Stacked(ts, ps, bs), Popped(cs, bs),
           Around(us, n + 2) = Around(ts, n + 1) \ {bs[Len(bs)].tok}
    PROVE  Stacked(us, qs, cs)
<1> DEFINE D == Len(cs)
<1>1. Len(us) + 1 = n + 2 /\ Len(us) = n + 1
  BY DEF Extends
<1>2. D \in Nat /\ D > 0 /\ Len(bs) = D + 1
  BY DEF Popped
<1>3. \A d \in 1 .. D : cs[d] = bs[d]
  BY DEF Popped
<1>4. \A d \in 1 .. D : d \in 1 .. Len(bs) /\ d < Len(bs)
  BY <1>2
<1>5. \A d \in 1 .. D : bs[d].tok \in 0 .. n /\ bs[d].tok < bs[Len(bs)].tok
  BY <1>4, FrameIs
<1>6. \A d \in 2 .. D : bs[d].tok \in 1 .. n
  BY <1>4, FrameIs
<1>7. \A d \in 2 .. D : d \in 2 .. Len(bs) /\ d \in 1 .. D
  BY <1>2
<1>8. ASSUME NEW d \in 2 .. D
      PROVE  /\ cs[d].tok \in Around(us, n + 2)
             /\ cs[d].tag = us[cs[d].tok].tag
             /\ cs[d].at = IF cs[d].tag = "if" THEN qs[cs[d].tok] + 2 ELSE qs[cs[d].tok]
  <2>1. us[bs[d].tok] = ts[bs[d].tok] /\ qs[bs[d].tok] = ps[bs[d].tok]
    BY <1>6 DEF Extends
  <2>2. /\ bs[d].tok \in Around(ts, n + 1)
        /\ bs[d].tag = ts[bs[d].tok].tag
        /\ bs[d].at = IF bs[d].tag = "if" THEN ps[bs[d].tok] + 2 ELSE ps[bs[d].tok]
    BY <1>7 DEF Stacked
  <2>3. bs[d].tok # bs[Len(bs)].tok
    BY <1>5, <1>7
  <2>4. cs[d] = bs[d]
    BY <1>3, <1>7
  <2> QED
    BY <2>1, <2>2, <2>3, <2>4
<1>9. ASSUME NEW j \in Around(us, n + 2) PROVE \E d \in 2 .. D : cs[d].tok = j
  <2>1. PICK d \in 2 .. Len(bs) : bs[d].tok = j
    BY DEF Stacked
  <2>2. d # Len(bs)
    BY <2>1
  <2>3. d \in 2 .. D /\ d \in 1 .. D
    BY <1>2, <2>2
  <2> QED
    BY <1>3, <2>1, <2>3
<1>10. \A d, e \in 1 .. Len(bs) : d < e => bs[d].tok < bs[e].tok
  BY DEF Stacked
<1>11. \A d, e \in 1 .. D : d < e => cs[d].tok < cs[e].tok
  BY <1>3, <1>4, <1>10
<1>12. cs[1] = Frame("block", 0, 1, 0)
  BY <1>2, <1>3 DEF Stacked
<1>13. ASSUME NEW d \in 1 .. D PROVE Homed(cs, d)
  <2>1. /\ bs[d].home \in 1 .. d
        /\ bs[bs[d].home].tag \in StrongTags
        /\ \A e \in bs[d].home + 1 .. d : ~(bs[e].tag \in StrongTags)
    BY <1>4 DEF Stacked, Homed
  <2>2. cs[d] = bs[d]
    BY <1>3
  <2> DEFINE h == bs[d].home
  <2> HIDE DEF h
  <2>3. h \in 1 .. D /\ \A e \in h + 1 .. d : e \in 1 .. D
    BY <1>2, <2>1 DEF h
  <2>4. cs[h] = bs[h] /\ \A e \in h + 1 .. d : cs[e] = bs[e]
    BY <1>3, <2>3
  <2>5. \A e \in h + 1 .. d : ~(cs[e].tag \in StrongTags)
    BY <2>1, <2>4 DEF h
  <2>6. h \in 1 .. d /\ cs[h].tag \in StrongTags /\ cs[d].home = h
    BY <2>1, <2>2, <2>4 DEF h
  <2> QED
    BY <2>5, <2>6 DEF Homed
<1> QED
  BY <1>1, <1>2, <1>8, <1>9, <1>11, <1>12, <1>13 DEF Stacked

\* What is closed after one more token.
LEMMA ClosedStays ==
    ASSUME NEW ts, NEW us, NEW n \in Nat, Len(ts) = n, Extends(us, ts),
           NEW h
    PROVE  Closed(us, h) <=>
             \/ Closed(ts, h)
             \/ h # 0 /\ us[n + 1] = End(h)
<1>1. /\ Len(us) = n + 1 /\ \A c \in 1 .. n : us[c] = ts[c]
      /\ \A c \in 1 .. n : c \in 1 .. n + 1
      /\ \A c \in 1 .. n + 1 : c \in 1 .. n \/ c = n + 1
      /\ n + 1 \in 1 .. n + 1
  BY DEF Extends
<1>2. CASE h = 0
  BY <1>2 DEF Closed
<1>3. ASSUME h # 0, Closed(us, h)
      PROVE  Closed(ts, h) \/ us[n + 1] = End(h)
  <2>1. PICK c \in 1 .. n + 1 : us[c] = End(h)
    BY <1>1, <1>3 DEF Closed
  <2> QED
    BY <1>1, <1>3, <2>1 DEF Closed
<1>4. ASSUME h # 0, Closed(ts, h) PROVE Closed(us, h)
  <2>1. PICK c \in 1 .. n : ts[c] = End(h)
    BY <1>4 DEF Closed
  <2>2. c \in 1 .. n + 1 /\ us[c] = End(h)
    BY <1>1, <2>1
  <2> QED
    BY <1>1, <1>4, <2>2 DEF Closed
<1>5. ASSUME h # 0, us[n + 1] = End(h) PROVE Closed(us, h)
  BY <1>1, <1>5 DEF Closed
<1> QED
  BY <1>2, <1>3, <1>4, <1>5

\* What is known of a token's home.
LEMMA HomeType ==
    ASSUME NEW ts, NEW k \in Nat
    PROVE  /\ Home(ts, k) \in Nat
           /\ Home(ts, k) # 0 => /\ Home(ts, k) \in 1 .. k - 1
                                 /\ ts[Home(ts, k)].tag \in StrongTags
BY HomeIs, AroundIs

\* A token that is no jump ahead, and closes no strong block, changes nothing
\* of what waits, as long as the activations that are waited for stay.
EndsStrong(ts, t) == \E h : t = End(h) /\ ts[h].tag \in StrongTags
HomesStay(ts, bs, cs) ==
    \A k \in 1 .. Len(ts), d \in 1 .. Len(bs) :
       bs[d].tok = Home(ts, k) => d \in 1 .. Len(cs) /\ cs[d] = bs[d]

LEMMA WaitOther ==
    ASSUME NEW ts, NEW us, NEW ps, NEW qs, NEW bs, NEW cs, NEW ws,
           NEW n \in Nat,
           Len(ts) = n, Len(ps) = n + 1, Extends(us, ts), Extends(qs, ps),
           Len(bs) \in Nat, Len(cs) \in Nat,
           Waiting(ts, ps, bs, ws),
           ~IsLeave(us[n + 1]),
           ~EndsStrong(ts, us[n + 1]), HomesStay(ts, bs, cs)
    PROVE  Waiting(us, qs, cs, ws)
<1>1. /\ Len(us) = n + 1 /\ \A k \in 1 .. n : us[k] = ts[k] /\ qs[k] = ps[k]
      /\ \A k \in 1 .. n : k \in 1 .. n + 1
      /\ \A k \in 1 .. n + 1 : k \in 1 .. n \/ k = n + 1
  BY DEF Extends
<1>2. \A k \in 1 .. n : Home(us, k) = Home(ts, k)
  BY AroundStays
<1>3. ASSUME NEW k \in 1 .. n, Closed(ts, Home(ts, k))
      PROVE  Closed(us, Home(us, k))
  BY <1>2, <1>3, ClosedStays
<1>4. ASSUME NEW k \in 1 .. n + 1,
             IsLeave(us[k]), ~Closed(us, Home(us, k))
      PROVE  \E d \in 1 .. Len(cs) : /\ cs[d].tok = Home(us, k)
                                     /\ <<qs[k] + 2, d>> \in ws
  <2>1. k \in 1 .. n
    BY <1>1, <1>4
  <2>2. PICK d \in 1 .. Len(bs) : bs[d].tok = Home(ts, k) /\ <<ps[k] + 2, d>> \in ws
    BY <1>1, <1>3, <1>4, <2>1 DEF Waiting
  <2>3. d \in 1 .. Len(cs) /\ cs[d] = bs[d]
    BY <2>1, <2>2 DEF HomesStay
  <2> QED
    BY <1>1, <1>2, <2>1, <2>2, <2>3
<1>5. ASSUME NEW w \in ws
      PROVE  \E k \in 1 .. n + 1, d \in 1 .. Len(cs) :
                /\ IsLeave(us[k]) /\ cs[d].tok = Home(us, k)
                /\ w = <<qs[k] + 2, d>>
  <2>1. PICK k \in 1 .. n, d \in 1 .. Len(bs) :
           /\ IsLeave(ts[k]) /\ bs[d].tok = Home(ts, k)
           /\ w = <<ps[k] + 2, d>>
    BY DEF Waiting
  <2>2. d \in 1 .. Len(cs) /\ cs[d] = bs[d]
    BY <2>1 DEF HomesStay
  <2> QED
    BY <1>1, <1>2, <2>1, <2>2
<1> QED
  BY <1>1, <1>4, <1>5 DEF Waiting

\* A jump ahead waits for its home.
LEMMA WaitLeave ==
    ASSUME NEW ts, NEW us, NEW ps, NEW qs, NEW bs, NEW ws, NEW zs,
           NEW n \in Nat, NEW h,
           Len(ts) = n, Len(ps) = n + 1, Extends(us, ts), Extends(qs, ps),
           Len(bs) \in Nat, Waiting(ts, ps, bs, ws),
           IsLeave(us[n + 1]),
           h \in 1 .. Len(bs), bs[h].tok = Home(us, n + 1),
           zs = ws \cup {<<qs[n + 1] + 2, h>>}
    PROVE  Waiting(us, qs, bs, zs)
<1>1. /\ Len(us) = n + 1 /\ \A k \in 1 .. n : us[k] = ts[k] /\ qs[k] = ps[k]
      /\ \A k \in 1 .. n : k \in 1 .. n + 1
      /\ \A k \in 1 .. n + 1 : k \in 1 .. n \/ k = n + 1
      /\ n + 1 \in 1 .. n + 1
  BY DEF Extends
<1>2. \A k \in 1 .. n : Home(us, k) = Home(ts, k)
  BY AroundStays
<1>3. ASSUME NEW k \in 1 .. n, Closed(ts, Home(ts, k))
      PROVE  Closed(us, Home(us, k))
  BY <1>2, <1>3, ClosedStays
<1>4. ASSUME NEW k \in 1 .. n + 1,
             IsLeave(us[k]), ~Closed(us, Home(us, k))
      PROVE  \E d \in 1 .. Len(bs) : /\ bs[d].tok = Home(us, k)
                                     /\ <<qs[k] + 2, d>> \in zs
  <2>1. CASE k \in 1 .. n
    <3>1. PICK d \in 1 .. Len(bs) : bs[d].tok = Home(ts, k) /\ <<ps[k] + 2, d>> \in ws
      BY <1>1, <1>3, <1>4, <2>1 DEF Waiting
    <3> QED
      BY <1>1, <1>2, <2>1, <3>1
  <2>2. CASE k = n + 1
    BY <2>2
  <2> QED
    BY <1>1, <2>1, <2>2
<1>5. ASSUME NEW w \in zs
      PROVE  \E k \in 1 .. n + 1, d \in 1 .. Len(bs) :
                /\ IsLeave(us[k]) /\ bs[d].tok = Home(us, k)
                /\ w = <<qs[k] + 2, d>>
  <2>1. CASE w \in ws
    <3>1. PICK k \in 1 .. n, d \in 1 .. Len(bs) :
             /\ IsLeave(ts[k]) /\ bs[d].tok = Home(ts, k)
             /\ w = <<ps[k] + 2, d>>
      BY <2>1 DEF Waiting
    <3> QED
      BY <1>1, <1>2, <3>1
  <2>2. CASE w = <<qs[n + 1] + 2, h>>
    BY <1>1, <2>2
  <2> QED
    BY <2>1, <2>2
<1> QED
  BY <1>1, <1>4, <1>5 DEF Waiting

\* The end of a strong block is what those that wait for it wait for.
LEMMA WaitClose ==
    ASSUME NEW ts, NEW us, NEW ps, NEW qs, NEW bs, NEW cs, NEW ws, NEW zs,
           NEW n \in Nat,
           Len(ts) = n, Len(ps) = n + 1, Extends(us, ts), Extends(qs, ps),
           Popped(cs, bs), Stacked(ts, ps, bs), Waiting(ts, ps, bs, ws),
           us[n + 1] = End(bs[Len(bs)].tok),
           zs = {w \in ws : w[2] # Len(bs)}
    PROVE  Waiting(us, qs, cs, zs)
<1> DEFINE D == Len(bs)
           t == bs[D].tok
<1>1. /\ Len(us) = n + 1 /\ \A k \in 1 .. n : us[k] = ts[k] /\ qs[k] = ps[k]
      /\ \A k \in 1 .. n : k \in 1 .. n + 1
      /\ \A k \in 1 .. n + 1 : k \in 1 .. n \/ k = n + 1
  BY DEF Extends
<1>2. \A k \in 1 .. n : Home(us, k) = Home(ts, k)
  BY AroundStays
<1>3. D \in Nat /\ D > 1 /\ Len(cs) = D - 1 /\ \A d \in 1 .. D : d # D => d \in 1 .. Len(cs) /\ cs[d] = bs[d]
  BY DEF Popped
<1>4. D \in 1 .. D /\ t \in 1 .. n
  BY <1>3, FrameIs
<1>5. \A k \in 1 .. n : Closed(us, Home(ts, k)) <=>
                          Closed(ts, Home(ts, k)) \/ Home(ts, k) = t
  <2>2. \A k \in 1 .. n : us[n + 1] = End(Home(ts, k)) <=> Home(ts, k) = t
    BY DEF End
  <2> QED
    BY <1>4, <2>2, ClosedStays
<1>6. ~IsLeave(us[n + 1])
  BY DEF IsLeave, End
<1> HIDE DEF t
<1>7. ASSUME NEW k \in 1 .. n + 1,
             IsLeave(us[k]), ~Closed(us, Home(us, k))
      PROVE  \E d \in 1 .. Len(cs) : /\ cs[d].tok = Home(us, k)
                                     /\ <<qs[k] + 2, d>> \in zs
  <2>1. k \in 1 .. n
    BY <1>1, <1>6, <1>7
  <2>2. IsLeave(ts[k]) /\ ~Closed(ts, Home(ts, k)) /\ Home(ts, k) # t
    BY <1>1, <1>2, <1>5, <1>7, <2>1
  <2>3. PICK d \in 1 .. D : bs[d].tok = Home(ts, k) /\ <<ps[k] + 2, d>> \in ws
    BY <2>1, <2>2 DEF Waiting
  <2>4. d # D
    BY <2>2, <2>3 DEF t
  <2>5. <<ps[k] + 2, d>>[2] = d
    OBVIOUS
  <2>6. <<ps[k] + 2, d>> \in zs
    BY <2>3, <2>4, <2>5
  <2> QED
    BY <1>1, <1>2, <1>3, <2>1, <2>3, <2>4, <2>6
<1>8. ASSUME NEW w \in zs
      PROVE  \E k \in 1 .. n + 1, d \in 1 .. Len(cs) :
                /\ IsLeave(us[k]) /\ cs[d].tok = Home(us, k)
                /\ w = <<qs[k] + 2, d>>
  <2>1. PICK k \in 1 .. n, d \in 1 .. D :
           /\ IsLeave(ts[k]) /\ bs[d].tok = Home(ts, k)
           /\ w = <<ps[k] + 2, d>>
    BY DEF Waiting
  <2>2. d # D
    BY <2>1
  <2> QED
    BY <1>1, <1>2, <1>3, <2>1, <2>2
<1> QED
  BY <1>1, <1>7, <1>8 DEF Waiting

-----------------------------------------------------------------------------
(* The code of one token more                                              *)

\* The jumps over what is still to come, and the block each jumps out of.
IsAhead(t) == t.tag = "if" \/ IsLeave(t)
Out(ts, k) == IF ts[k].tag = "if" THEN k ELSE Home(ts, k)

LEMMA AheadIs ==
    ASSUME NEW ts, NEW k, IsAhead(ts[k])
    PROVE  /\ Width(ts, k) = 2
           /\ ~(ts[k].tag \in {"int", "string", "store", "load", "continue", "close"})
BY DEF IsAhead, IsLeave, Width

\* If no block they jump out of is closed now, they stay.
LEMMA TargetSame ==
    ASSUME NEW ts, NEW us, NEW ps, NEW qs, NEW is, NEW js,
           NEW n \in Nat,
           Len(ts) = n, Len(ps) = n + 1, Extends(us, ts), Extends(qs, ps),
           Braced(us, n + 1), NEW k \in 1 .. n,
           HasTarget(ts, ps, is, k),
           IsAhead(ts[k]) => /\ js[ps[k] + 2] = is[ps[k] + 2]
                             /\ us[n + 1] # End(Out(ts, k))
    PROVE  HasTarget(us, qs, js, k)
<1>1. us[k] = ts[k]
  BY DEF Extends
<1>2. Home(us, k) = Home(ts, k)
  <2>1. k \in 1 .. Len(ts) + 1
    OBVIOUS
  <2> QED
    BY <2>1, AroundStays
<1>3. CASE ~IsAhead(ts[k])
  BY <1>1, <1>3 DEF HasTarget, IsAhead
<1>4. CASE IsAhead(ts[k])
  <2> DEFINE h == Out(ts, k)
  <2>1. h = 0 \/ h \in 1 .. n
    BY HomeType DEF Out
  <2>2. Closed(us, h) <=> Closed(ts, h)
    BY <1>4, ClosedStays
  <2>3. \/ ts[k].tag = "if" /\ h = k
        \/ IsLeave(ts[k]) /\ h = Home(ts, k)
    BY <1>4 DEF IsAhead, IsLeave, Out
  <2> HIDE DEF h
  <2>4. CASE Closed(ts, h)
    <3>1. h \in 1 .. n
      BY <2>1, <2>4 DEF Closed
    <3> QED
      BY <1>4, <2>3, <2>4, <3>1, TargetStays DEF h
  <2>5. CASE ~Closed(ts, h)
    BY <1>1, <1>2, <2>2, <2>3, <2>5 DEF HasTarget, IsLeave
  <2> QED
    BY <2>4, <2>5
<1> QED
  BY <1>3, <1>4

\* Only jumps ahead may change, and those are given their targets.
Patched(ts, ps, is, js, m) ==
    \A i \in 1 .. m :
       js[i] = is[i] \/ \E k \in 1 .. Len(ts) : IsAhead(ts[k]) /\ i = ps[k] + 2

LEMMA CodedGrows ==
    ASSUME NEW ts, NEW us, NEW ps, NEW qs, NEW is, NEW js, NEW cs, NEW ds,
           NEW n \in Nat, NEW m \in Nat,
           Len(ts) = n, Laid(ts, ps, m), Extends(us, ts), Extends(qs, ps),
           Braced(ts, n), Keeps(ds, cs), Coded(ts, ps, is, cs),
           Patched(ts, ps, is, js, m),
           \A k \in 1 .. n + 1 : IsAhead(us[k]) => HasTarget(us, qs, js, k),
           HasOp(us, qs, js, n + 1), HasArg(us, qs, js, ds, n + 1)
    PROVE  Coded(us, qs, js, ds)
<1>1. Len(us) = n + 1 /\ Len(ps) = n + 1
  BY DEF Extends, Laid
<1>2. \A k \in 1 .. n : /\ us[k] = ts[k] /\ qs[k] = ps[k]
                        /\ HasOp(ts, ps, is, k) /\ HasArg(ts, ps, is, cs, k)
  BY <1>1 DEF Extends, Coded
<1>3. \A k \in 1 .. n + 1 : HasTarget(us, qs, js, k)
  BY DEF HasTarget, IsAhead
<1>4. ASSUME NEW k \in 1 .. n
      PROVE  HasOp(us, qs, js, k) /\ HasArg(us, qs, js, ds, k)
  <2>1. /\ ps[k] \in Nat /\ Width(ts, k) \in {0, 1, 2}
        /\ ps[k] + Width(ts, k) <= m
    BY WordsOf
  <2>2. ASSUME Width(ts, k) > 0 PROVE js[ps[k] + 1] = is[ps[k] + 1]
    <3>1. ps[k] + 1 \in 1 .. m
      BY <2>1, <2>2
    <3>2. \A j \in 1 .. n : IsAhead(ts[j]) => ps[k] + 1 # ps[j] + 2
      BY <2>2, AheadIs, WordsApart
    <3> QED
      BY <3>1, <3>2 DEF Patched
  <2>3. ASSUME Width(ts, k) = 2, ~IsAhead(ts[k])
        PROVE  js[ps[k] + 2] = is[ps[k] + 2]
    <3>1. ps[k] + 2 \in 1 .. m
      BY <2>1, <2>3
    <3>2. \A j \in 1 .. n : IsAhead(ts[j]) => ps[k] + 2 # ps[j] + 2
      BY <2>3, AheadIs, WordsApart
    <3> QED
      BY <3>1, <3>2 DEF Patched
  <2>4. HasOp(us, qs, js, k)
    BY <1>2, <2>2, OpStays
  <2>5. HasArg(us, qs, js, ds, k)
    BY <1>1, <1>2, <2>3, AheadIs, ArgStays
  <2> QED
    BY <2>4, <2>5
<1>5. \A k \in 1 .. n + 1 : k \in 1 .. n \/ k = n + 1
  OBVIOUS
<1> QED
  BY <1>1, <1>3, <1>4, <1>5 DEF Coded

-----------------------------------------------------------------------------
(* The inductive invariant of the compiler                                 *)

TokenSet == Tokens \cup {End(j) : j \in Nat}
Datas  == Nat \cup {t.data : t \in Tokens}
Words  == [op : Ops \cup Operands, arg : Datas]
Frames == [tag : BlockTags, at : Nat, home : Nat, tok : Nat]
CellSet == [kind : {"string", "var"}, id : Datas, loc : Nat]
Texts  == Seq(TokenSet)
Codes  == Seq(Words)
Stacks == Seq(Frames)
Heaps  == Seq(CellSet)
Places == Seq(Nat)

WellTyped ==
    /\ phase \in {"compiling", "refused", "compiled", "running"}
    /\ toks \in Texts /\ at \in Places /\ Len(at) = Len(toks) + 1
    /\ ins \in Codes /\ blocks \in Stacks
    /\ cells \in Heaps /\ offset \in Nat

Finished == phase \in {"compiled", "running"}

\* The words of the tokens: all but the halt at the end.
Extent == IF Finished THEN Len(ins) - 1 ELSE Len(ins)

Structure ==
    /\ Braced(toks, Len(toks))
    /\ Laid(toks, at, Extent)
    /\ Coded(toks, at, ins, cells)

InBlocks ==
    ~Finished => /\ Stacked(toks, at, blocks)
                 /\ Waiting(toks, at, blocks, pending)

\* At the end of the text no block is open, and what waited for that end has
\* got it.
AtEnd ==
    Finished =>
    /\ Around(toks, Len(toks) + 1) = {}
    /\ ins[Len(ins)] = Op("halt")
    /\ blocks = <<>> /\ pending = {}
    /\ \A k \in 1 .. Len(toks) :
          IsLeave(toks[k]) /\ Home(toks, k) = 0
          => ins[at[k] + 2] = To(at[Len(toks) + 1])

\* Sequences of these, and what is appended to them.
LEMMA Lengths ==
    /\ \A s \in Texts : Len(s) \in Nat
    /\ \A s \in Places : Len(s) \in Nat
    /\ \A s \in Codes : Len(s) \in Nat
    /\ \A s \in Stacks : Len(s) \in Nat
    /\ \A s \in Heaps : Len(s) \in Nat
BY LenProperties DEF Texts, Places, Codes, Stacks, Heaps

LEMMA Appended ==
    ASSUME NEW S, NEW s \in Seq(S), NEW x \in S
    PROVE  /\ Append(s, x) \in Seq(S)
           /\ Len(s) \in Nat /\ Len(Append(s, x)) = Len(s) + 1
           /\ \A k \in 1 .. Len(s) : Append(s, x)[k] = s[k]
           /\ Append(s, x)[Len(s) + 1] = x
BY AppendProperties, LenProperties

LEMMA WordType ==
    ASSUME NEW o \in Ops \cup Operands, NEW a \in Datas
    PROVE  [op |-> o, arg |-> a] \in Words
BY DEF Words

LEMMA WordTypes ==
    /\ \A o \in Ops : Op(o) \in Words
    /\ \A a \in Datas : Value(a) \in Words /\ Builtin(a) \in Words
    /\ \A i \in Nat : To(i) \in Words /\ HeapAt(i) \in Words
<1>1. 0 \in Datas /\ \A i \in Nat : i \in Datas
  BY DEF Datas
<1>2. /\ \A o \in Ops : o \in Ops \cup Operands
      /\ {"value", "builtin", "code", "heap"} \subseteq Ops \cup Operands
  BY DEF Ops, Operands
<1> QED
  BY <1>1, <1>2, WordType DEF Op, Value, Builtin, To, HeapAt

LEMMA Emit1 ==
    ASSUME NEW s \in Codes, NEW w \in Words
    PROVE  /\ s \o <<w>> \in Codes
           /\ Len(s) \in Nat /\ Len(s \o <<w>>) = Len(s) + 1
           /\ \A i \in 1 .. Len(s) : (s \o <<w>>)[i] = s[i]
           /\ (s \o <<w>>)[Len(s) + 1] = w
<1>1. <<w>> \in Seq(Words) /\ Len(<<w>>) = 1 /\ <<w>>[1] = w
  OBVIOUS
<1>2. s \in Seq(Words)
  BY DEF Codes
<1>3. /\ s \o <<w>> \in Seq(Words)
      /\ Len(s \o <<w>>) = Len(s) + 1
      /\ \A i \in 1 .. Len(s) + 1 :
            (s \o <<w>>)[i] = IF i <= Len(s) THEN s[i] ELSE <<w>>[i - Len(s)]
  BY <1>1, <1>2, ConcatProperties
<1>4. Len(s) \in Nat
  BY Lengths
<1> QED
  BY <1>1, <1>3, <1>4 DEF Codes

LEMMA Emit2 ==
    ASSUME NEW s \in Codes, NEW v \in Words, NEW w \in Words
    PROVE  /\ s \o <<v, w>> \in Codes
           /\ Len(s) \in Nat /\ Len(s \o <<v, w>>) = Len(s) + 2
           /\ \A i \in 1 .. Len(s) : (s \o <<v, w>>)[i] = s[i]
           /\ (s \o <<v, w>>)[Len(s) + 1] = v
           /\ (s \o <<v, w>>)[Len(s) + 2] = w
<1>1. <<v, w>> \in Seq(Words) /\ Len(<<v, w>>) = 2 /\ <<v, w>>[1] = v /\ <<v, w>>[2] = w
  OBVIOUS
<1>2. s \in Seq(Words)
  BY DEF Codes
<1>3. /\ s \o <<v, w>> \in Seq(Words)
      /\ Len(s \o <<v, w>>) = Len(s) + 2
      /\ \A i \in 1 .. Len(s) + 2 :
            (s \o <<v, w>>)[i] = IF i <= Len(s) THEN s[i] ELSE <<v, w>>[i - Len(s)]
  BY <1>1, <1>2, ConcatProperties
<1>4. Len(s) \in Nat
  BY Lengths
<1> QED
  BY <1>1, <1>3, <1>4 DEF Codes

\* A token is read, and its code is there.
Grown(t) ==
    /\ phase = "compiling" /\ phase' = "compiling"
    /\ toks' \in Texts /\ Extends(toks', toks) /\ toks'[Len(toks) + 1] = t
    /\ at' \in Places /\ Extends(at', at) /\ at'[Len(toks) + 2] = Len(ins')
    /\ Len(toks') = Len(toks) + 1 /\ Len(at') = Len(toks') + 1

LEMMA ReadsGrown ==
    ASSUME WellTyped, NEW t \in TokenSet, NEW c \in Codes, Reads(t, c)
    PROVE  Grown(t) /\ ins' = c
<1>1. /\ toks' = Append(toks, t) /\ ins' = c /\ at' = Append(at, Len(c))
      /\ phase = "compiling" /\ phase' = "compiling"
  BY DEF Reads
<1>2. Len(c) \in Nat /\ Len(at) = Len(toks) + 1
  BY Lengths DEF WellTyped
<1>3. toks \in Seq(TokenSet) /\ at \in Seq(Nat)
  BY DEF WellTyped, Texts, Places
<1>4. /\ toks' \in Seq(TokenSet) /\ Len(toks) \in Nat
      /\ Len(toks') = Len(toks) + 1
      /\ \A k \in 1 .. Len(toks) : toks'[k] = toks[k]
      /\ toks'[Len(toks) + 1] = t
  BY <1>1, <1>3, Appended
<1>5. /\ at' \in Seq(Nat) /\ Len(at) \in Nat
      /\ Len(at') = Len(at) + 1
      /\ \A k \in 1 .. Len(at) : at'[k] = at[k]
      /\ at'[Len(at) + 1] = Len(c)
  BY <1>1, <1>2, <1>3, Appended
<1>6. Len(at) + 1 = Len(toks) + 2
  BY <1>2, <1>4
<1> QED
  BY <1>1, <1>2, <1>4, <1>5, <1>6 DEF Grown, Extends, Texts, Places

\* The tokens that are read.
LEMMA TokenIs ==
    ASSUME NEW t \in Tokens
    PROVE  /\ t \in TokenSet /\ t.data \in Datas
           /\ t.tag \in LeafTags \cup BlockTags
           /\ t.tag # "close"
           /\ t.tag = "string" => t.data \in DOMAIN Chars
<1>1. t \in TokenSet
  BY DEF TokenSet
<1>2. t.data \in Datas
  BY Zenon DEF Datas
<1>3. t.tag \in LeafTags \cup BlockTags /\ (t.tag = "string" => t.data \in DOMAIN Chars)
  BY CompilerAssumption, Zenon
<1>4. ~("close" \in LeafTags \cup BlockTags)
  BY DEF LeafTags, BlockTags, StrongTags
<1> QED
  BY <1>1, <1>2, <1>3, <1>4

\* No brace is open, or the innermost block is closed.
LEMMA BracedOther ==
    ASSUME NEW ts, NEW us, NEW n \in Nat, Len(ts) = n, Extends(us, ts),
           Braced(ts, n), us[n + 1].tag # "close"
    PROVE  Braced(us, n + 1)
<1>1. \A c \in 1 .. n : us[c] = ts[c] /\ c \in 1 .. Len(ts) + 1
  BY DEF Extends
<1>2. \A c \in 1 .. n : Around(us, c) = Around(ts, c)
  BY <1>1, AroundStays
<1>3. \A c \in 1 .. n + 1 : c \in 1 .. n \/ c = n + 1
  OBVIOUS
<1> QED
  BY <1>1, <1>2, <1>3 DEF Braced

LEMMA BracedClose ==
    ASSUME NEW ts, NEW us, NEW n \in Nat, Len(ts) = n, Extends(us, ts),
           Braced(ts, n), NEW j, us[n + 1] = End(j),
           j \in Around(ts, n + 1),
           \A i \in Around(ts, n + 1) : i <= j
    PROVE  Braced(us, n + 1)
<1>1. \A c \in 1 .. n : us[c] = ts[c] /\ c \in 1 .. Len(ts) + 1
  BY DEF Extends
<1>2. n + 1 \in 1 .. Len(ts) + 1
  OBVIOUS
<1>3. \A c \in 1 .. n + 1 : Around(us, c) = Around(ts, c)
  BY <1>1, <1>2, AroundStays
<1>4. \A c \in 1 .. n + 1 : c \in 1 .. n \/ c = n + 1
  OBVIOUS
<1>5. us[n + 1].data = j
  BY DEF End
<1> QED
  BY <1>1, <1>3, <1>4, <1>5 DEF Braced

-----------------------------------------------------------------------------
(* The steps of the compiler                                               *)

Inv == WellTyped /\ Structure /\ InBlocks

\* What the lemmas on texts need, while a text is compiled.
LEMMA Setting ==
    ASSUME Inv, phase = "compiling"
    PROVE  /\ Len(toks) \in Nat /\ Len(ins) \in Nat
           /\ Len(at) = Len(toks) + 1 /\ at[Len(toks) + 1] = Len(ins)
           /\ Braced(toks, Len(toks)) /\ Laid(toks, at, Len(ins))
           /\ Coded(toks, at, ins, cells)
           /\ Stacked(toks, at, blocks) /\ Waiting(toks, at, blocks, pending)
           /\ Len(blocks) \in Nat /\ Len(blocks) > 0
           /\ Len(cells) \in Nat
<1>1. ~Finished
  BY DEF Finished
<1>2. Extent = Len(ins)
  BY <1>1 DEF Extent
<1>3. Laid(toks, at, Len(ins)) /\ Braced(toks, Len(toks)) /\ Coded(toks, at, ins, cells)
  BY <1>2 DEF Inv, Structure
<1>4. Stacked(toks, at, blocks) /\ Waiting(toks, at, blocks, pending)
  BY <1>1 DEF Inv, InBlocks
<1>5. Len(toks) \in Nat /\ Len(ins) \in Nat /\ Len(cells) \in Nat
  BY Lengths DEF Inv, WellTyped
<1>6. Len(at) = Len(toks) + 1 /\ at[Len(toks) + 1] = Len(ins)
  BY <1>3 DEF Laid
<1>7. Len(blocks) \in Nat /\ Len(blocks) > 0
  BY <1>4 DEF Stacked
<1> QED
  BY <1>3, <1>4, <1>5, <1>6, <1>7

\* A token whose words are emitted as it says keeps the structure.
LEMMA StructureGrows ==
    ASSUME Inv, NEW t, Grown(t), ins' \in Codes, Keeps(cells', cells),
           Braced(toks', Len(toks) + 1),
           Len(ins') = Len(ins) + Width(toks', Len(toks) + 1),
           Patched(toks, at, ins, ins', Len(ins)),
           \A k \in 1 .. Len(toks) + 1 :
              IsAhead(toks'[k]) => HasTarget(toks', at', ins', k),
           HasOp(toks', at', ins', Len(toks) + 1),
           HasArg(toks', at', ins', cells', Len(toks) + 1)
    PROVE  Structure'
<1> DEFINE n == Len(toks)
           m == Len(ins)
           v == Width(toks', n + 1)
<1>1. /\ n \in Nat /\ m \in Nat /\ Braced(toks, n) /\ Laid(toks, at, m)
      /\ Coded(toks, at, ins, cells)
  BY Setting DEF Grown
<1>2. /\ Extends(toks', toks) /\ Extends(at', at)
      /\ Len(toks') = n + 1 /\ at'[n + 2] = m + v
      /\ phase' = "compiling"
  BY DEF Grown
<1>3. v \in {0, 1, 2}
  BY WidthType
<1>4. Laid(toks', at', m + v)
  <2> HIDE DEF n, m, v
  <2>1. Len(toks) = n /\ Width(toks', n + 1) = v
    BY DEF n, v
  <2> QED
    BY <2>1, <1>1, <1>2, <1>3, LaidGrows
<1>5. Extent' = m + v
  BY <1>2 DEF Extent, Finished
<1>6. Coded(toks', at', ins', cells')
  <2> HIDE DEF n, m, v
  <2>1. /\ Len(toks) = n /\ Patched(toks, at, ins, ins', m)
        /\ \A k \in 1 .. n + 1 : IsAhead(toks'[k]) => HasTarget(toks', at', ins', k)
        /\ HasOp(toks', at', ins', n + 1)
        /\ HasArg(toks', at', ins', cells', n + 1)
    BY DEF n, m
  <2> QED
    BY <2>1, <1>1, <1>2, CodedGrows
<1>7. Braced(toks', Len(toks'))
  BY <1>2
<1>8. Laid(toks', at', Extent')
  BY <1>4, <1>5
<1> QED
  BY <1>6, <1>7, <1>8 DEF Structure

\* A token that is no brace has its words after all others.
LEMMA StructureOther ==
    ASSUME Inv, NEW t, Grown(t), t.tag # "close", ins' \in Codes,
           Keeps(cells', cells),
           Len(ins') = Len(ins) + Width(toks', Len(toks) + 1),
           \A i \in 1 .. Len(ins) : ins'[i] = ins[i],
           HasOp(toks', at', ins', Len(toks) + 1),
           HasArg(toks', at', ins', cells', Len(toks) + 1)
    PROVE  Structure' /\ Braced(toks', Len(toks) + 1)
<1> DEFINE n == Len(toks)
           m == Len(ins)
<1>1. /\ n \in Nat /\ m \in Nat /\ Braced(toks, n) /\ Laid(toks, at, m)
      /\ Coded(toks, at, ins, cells) /\ Len(at) = n + 1
  BY Setting DEF Grown
<1>2. /\ Extends(toks', toks) /\ Extends(at', at) /\ toks'[n + 1] = t
      /\ Len(toks') = n + 1
  BY DEF Grown
<1>3. Braced(toks', n + 1)
  BY <1>1, <1>2, BracedOther
<1>4. Patched(toks, at, ins, ins', m)
  BY DEF Patched
<1>5. \A j : toks'[n + 1] # End(j)
  BY <1>2 DEF End
<1>6. ASSUME NEW k \in 1 .. n + 1, IsAhead(toks'[k])
      PROVE  HasTarget(toks', at', ins', k)
  <2>1. CASE k \in 1 .. n
    <3>1. toks'[k] = toks[k]
      BY <1>2, <2>1 DEF Extends
    <3>2. at[k] \in Nat /\ at[k] + Width(toks, k) <= m
      BY <1>1, <2>1, WordsOf
    <3>3. Width(toks, k) = 2
      BY <1>6, <3>1, AheadIs
    <3>4. at[k] + 2 \in 1 .. m
      BY <3>2, <3>3, <1>1
    <3>5. ins'[at[k] + 2] = ins[at[k] + 2]
      BY <3>4
    <3>6. HasTarget(toks, at, ins, k)
      BY <1>1, <2>1 DEF Coded
    <3> HIDE DEF n, m
    <3>7. Len(toks) = n
      BY DEF n
    <3> QED
      BY <1>1, <1>2, <1>3, <1>5, <2>1, <3>5, <3>6, <3>7, TargetSame
  <2>2. CASE k = n + 1
    <3>1. ASSUME NEW h, h \in Around(toks, n + 1) \/ h = n + 1 \/ h = 0
          PROVE  ~Closed(toks', h)
      <4>1. SUFFICES ASSUME Closed(toks', h) PROVE FALSE
        OBVIOUS
      <4>2. PICK c \in 1 .. n + 1 : toks'[c] = End(h)
        BY <1>2, <4>1 DEF Closed
      <4>3. c \in 1 .. n /\ toks[c] = End(h) /\ h # 0
        BY <1>2, <1>5, <4>1, <4>2 DEF Extends, Closed
      <4>4. toks[c].tag = "close" /\ toks[c].data = h
        BY <4>3 DEF End
      <4>5. h \in Around(toks, c)
        BY <1>1, <4>3, <4>4 DEF Braced
      <4>6. h < c
        BY <4>5, AroundIs
      <4>7. \A d \in 1 .. n : h \in Around(toks, n + 1) => toks[d] # End(h)
        BY DEF Around
      <4> QED
        BY <3>1, <4>3, <4>6, <4>7, <1>1
    <3>2. Home(toks', n + 1) = Home(toks, n + 1)
      BY <1>1, <1>2, AroundStays
    <3>3. Home(toks, n + 1) \in Around(toks, n + 1) \/ Home(toks, n + 1) = 0
      BY <1>1, HomeIs
    <3>4. ~Closed(toks', n + 1) /\ ~Closed(toks', Home(toks', n + 1))
      BY <3>1, <3>2, <3>3
    <3> QED
      BY <2>2, <3>4 DEF HasTarget
  <2> QED
    BY <1>1, <2>1, <2>2
<1>7. Structure'
  BY <1>3, <1>4, <1>6, StructureGrows
<1> QED
  BY <1>3, <1>7

\* The activations after each kind of token: those that open no block...
LEMMA BlocksLeaf ==
    ASSUME Inv, NEW t, Grown(t), Braced(toks', Len(toks) + 1),
           ~(t.tag \in BlockTags), t.tag # "close", blocks' = blocks,
           \/ ~IsLeave(t) /\ pending' = pending
           \/ IsLeave(t) /\ pending' = pending \cup {<<Len(ins) + 2, Top.home>>}
    PROVE  InBlocks'
<1> DEFINE n == Len(toks)
<1>1. /\ n \in Nat /\ Braced(toks, n) /\ Len(at) = n + 1
      /\ at[n + 1] = Len(ins) /\ Len(ins) \in Nat
      /\ Stacked(toks, at, blocks) /\ Waiting(toks, at, blocks, pending)
      /\ Len(blocks) \in Nat
  BY Setting DEF Grown
<1>2. /\ Extends(toks', toks) /\ Extends(at', at) /\ toks'[n + 1] = t
      /\ Len(toks') = n + 1
  BY DEF Grown
<1>3. n + 1 \in 1 .. Len(toks) + 1 /\ n + 1 \in 1 .. n + 1 /\ n + 1 + 1 = n + 2
  BY <1>1
<1>4. Around(toks', n + 1) = Around(toks, n + 1) /\ Home(toks', n + 1) = Home(toks, n + 1)
  BY <1>2, <1>3, AroundStays
<1>5. Around(toks', n + 2) = Around(toks, n + 1)
  <2>1. Around(toks', n + 1 + 1) = Around(toks', n + 1)
    <3>1. ~(toks'[n + 1].tag \in BlockTags) /\ toks'[n + 1].tag # "close"
      BY <1>2
    <3>2. n + 1 \in Nat /\ Braced(toks', n + 1)
      BY <1>1
    <3> HIDE DEF n
    <3> QED
      BY <1>3, <3>1, <3>2, AroundLeaf
  <2> QED
    BY <1>3, <1>4, <2>1
<1>6. Len(toks) = n
  OBVIOUS
<1>7. at'[n + 1] = Len(ins)
  BY <1>1, <1>3, <1>2 DEF Extends
<1>8. LET h == Top.home IN h \in 1 .. Len(blocks) /\ blocks[h].tok = Home(toks, n + 1)
  BY <1>1, TopHome DEF Top
<1>9. \A j : toks'[n + 1] # End(j)
  BY <1>2 DEF End
<1> HIDE DEF n
<1>10. Stacked(toks', at', blocks)
  BY <1>1, <1>2, <1>5, <1>6, StackLeaf
<1>11. CASE ~IsLeave(t) /\ pending' = pending
  <2>1. /\ ~IsLeave(toks'[n + 1])
        /\ ~EndsStrong(toks, toks'[n + 1])
        /\ HomesStay(toks, blocks, blocks)
    BY <1>2, <1>9, <1>11 DEF EndsStrong, HomesStay
  <2>2. Waiting(toks', at', blocks, pending)
    BY <1>1, <1>2, <1>6, <2>1, WaitOther
  <2> QED
    BY <1>10, <1>11, <2>2 DEF InBlocks
<1>12. CASE IsLeave(t) /\ pending' = pending \cup {<<Len(ins) + 2, Top.home>>}
  <2> DEFINE h == Top.home
  <2>1. /\ IsLeave(toks'[n + 1]) /\ h \in 1 .. Len(blocks)
        /\ blocks[h].tok = Home(toks', n + 1)
        /\ pending' = pending \cup {<<at'[n + 1] + 2, h>>}
    BY <1>2, <1>4, <1>7, <1>8, <1>12
  <2> HIDE DEF h
  <2>2. Waiting(toks', at', blocks, pending')
    BY <1>1, <1>2, <1>6, <2>1, WaitLeave
  <2> QED
    BY <1>10, <2>2 DEF InBlocks
<1> QED
  BY <1>11, <1>12

\* ...those that do...
LEMMA BlocksOpen ==
    ASSUME Inv, NEW t, Grown(t), Braced(toks', Len(toks) + 1),
           t.tag \in BlockTags, NEW f \in Frames, blocks' = Append(blocks, f),
           f.tok = Len(toks) + 1, f.tag = t.tag,
           f.at = IF f.tag = "if" THEN Len(ins) + 2 ELSE Len(ins),
           f.home = IF f.tag \in StrongTags THEN Len(blocks) + 1 ELSE Top.home,
           pending' = pending
    PROVE  InBlocks' /\ blocks' \in Stacks
<1> DEFINE n == Len(toks)
<1>1. /\ n \in Nat /\ Braced(toks, n) /\ Len(at) = n + 1
      /\ at[n + 1] = Len(ins) /\ Len(ins) \in Nat
      /\ Stacked(toks, at, blocks) /\ Waiting(toks, at, blocks, pending)
      /\ Len(blocks) \in Nat
  BY Setting DEF Grown
<1>2. /\ Extends(toks', toks) /\ Extends(at', at) /\ toks'[n + 1] = t
      /\ Len(toks') = n + 1
  BY DEF Grown
<1>3. n + 1 \in 1 .. Len(toks) + 1 /\ n + 1 \in 1 .. n + 1 /\ n + 1 + 1 = n + 2
  BY <1>1
<1>4. Around(toks', n + 1) = Around(toks, n + 1)
  BY <1>2, <1>3, AroundStays
<1>5. Around(toks', n + 2) = Around(toks, n + 1) \cup {n + 1}
  <2>1. Around(toks', n + 1 + 1) = Around(toks', n + 1) \cup {n + 1}
    <3>1. toks'[n + 1].tag \in BlockTags
      BY <1>2
    <3>2. n + 1 \in Nat /\ Braced(toks', n + 1)
      BY <1>1
    <3> HIDE DEF n
    <3> QED
      BY <1>3, <3>1, <3>2, AroundOpener
  <2> QED
    BY <1>3, <1>4, <2>1
<1>6. at'[n + 1] = Len(ins)
  BY <1>1, <1>3, <1>2 DEF Extends
<1>7. blocks \in Seq(Frames)
  BY DEF Inv, WellTyped, Stacks
<1>8. /\ blocks' \in Seq(Frames) /\ Len(blocks') = Len(blocks) + 1
      /\ \A d \in 1 .. Len(blocks) : blocks'[d] = blocks[d]
      /\ blocks'[Len(blocks) + 1] = f
  BY <1>7, Appended
<1>9. Pushed(blocks', blocks, f)
  BY <1>1, <1>8 DEF Pushed
<1>10. /\ Len(toks) = n /\ f.tok = n + 1 /\ f.tag = toks'[n + 1].tag
       /\ f.at = IF f.tag = "if" THEN at'[n + 1] + 2 ELSE at'[n + 1]
       /\ f.home = IF f.tag \in StrongTags THEN Len(blocks) + 1
                   ELSE blocks[Len(blocks)].home
  BY <1>2, <1>6 DEF Top
<1>11. blocks' \in Stacks
  BY <1>8 DEF Stacks
<1>12. /\ ~IsLeave(toks'[n + 1])
       /\ ~EndsStrong(toks, toks'[n + 1])
  BY <1>2 DEF IsLeave, EndsStrong, End, BlockTags, StrongTags
<1>13. HomesStay(toks, blocks, blocks')
  BY <1>1, <1>8 DEF HomesStay
<1>14. Len(blocks') \in Nat
  BY <1>1, <1>8
<1> HIDE DEF n
<1>15. Stacked(toks', at', blocks')
  BY <1>1, <1>2, <1>5, <1>9, <1>10, StackOpen
<1>16. Waiting(toks', at', blocks', pending)
  BY <1>1, <1>2, <1>10, <1>12, <1>13, <1>14, WaitOther
<1> QED
  BY <1>11, <1>15, <1>16 DEF InBlocks

\* ...and those that close one.
LEMMA BraceIs ==
    ASSUME Inv, phase = "compiling", Len(blocks) > 1
    PROVE  /\ Brace = End(Top.tok) /\ Brace \in TokenSet
           /\ Top.tok \in 1 .. Len(toks)
           /\ Top.tag = toks[Top.tok].tag /\ Top.tag \in BlockTags
           /\ Top.tok \in Around(toks, Len(toks) + 1)
           /\ \A j \in Around(toks, Len(toks) + 1) : j <= Top.tok
           /\ Top.at = IF Top.tag = "if" THEN at[Top.tok] + 2 ELSE at[Top.tok]
<1> DEFINE n == Len(toks)
<1>1. n \in Nat /\ Len(toks) = n /\ Stacked(toks, at, blocks) /\ Len(blocks) \in Nat
  BY Setting
<1>2. Len(blocks) \in 1 .. Len(blocks) /\ Len(blocks) \in 2 .. Len(blocks)
  BY <1>1
<1>3. Top.at = IF Top.tag = "if" THEN at[Top.tok] + 2 ELSE at[Top.tok]
  BY <1>1, <1>2 DEF Stacked, Top
<1> HIDE DEF n
<1>4. /\ Innermost(Around(toks, n + 1)) = Top.tok
      /\ Top.tok \in Around(toks, n + 1)
      /\ \A j \in Around(toks, n + 1) : j <= Top.tok
  BY <1>1, TopInner DEF Top
<1>5. Top.tok \in 1 .. n /\ Top.tag = toks[Top.tok].tag /\ Top.tag \in BlockTags
  BY <1>1, <1>2, FrameIs DEF Top
<1>6. Brace = End(Top.tok) /\ End(Top.tok) \in TokenSet
  BY <1>4, <1>5 DEF Brace, TokenSet, n
<1> QED
  BY <1>3, <1>4, <1>5, <1>6 DEF n

LEMMA BlocksClose ==
    ASSUME Inv, Grown(End(Top.tok)), Len(blocks) > 1,
           Braced(toks', Len(toks) + 1),
           blocks' = SubSeq(blocks, 1, Len(blocks) - 1),
           \/ ~(Top.tag \in StrongTags) /\ pending' = pending
           \/ Top.tag \in StrongTags /\ pending' = {p \in pending : p[2] # Len(blocks)}
    PROVE  InBlocks' /\ blocks' \in Stacks
<1> DEFINE n == Len(toks)
<1>1. /\ n \in Nat /\ Braced(toks, n) /\ Len(at) = n + 1
      /\ Stacked(toks, at, blocks) /\ Waiting(toks, at, blocks, pending)
      /\ Len(blocks) \in Nat
  BY Setting DEF Grown
<1>2. /\ Extends(toks', toks) /\ Extends(at', at)
      /\ toks'[n + 1] = End(Top.tok) /\ Len(toks') = n + 1
  BY DEF Grown
<1>3. n + 1 \in 1 .. Len(toks) + 1 /\ n + 1 \in 1 .. n + 1 /\ n + 1 + 1 = n + 2
  BY <1>1
<1>4. Around(toks', n + 1) = Around(toks, n + 1)
  BY <1>2, <1>3, AroundStays
<1>5. Around(toks', n + 2) = Around(toks, n + 1) \ {Top.tok}
  <2>1. Around(toks', n + 1 + 1) = Around(toks', n + 1) \ {toks'[n + 1].data}
    <3>1. toks'[n + 1].tag = "close"
      BY <1>2 DEF End
    <3>2. n + 1 \in Nat /\ Braced(toks', n + 1)
      BY <1>1
    <3> HIDE DEF n
    <3> QED
      BY <1>3, <3>1, <3>2, AroundBrace
  <2>2. toks'[n + 1].data = Top.tok
    BY <1>2 DEF End
  <2> QED
    BY <1>3, <1>4, <2>1, <2>2
<1>6. blocks \in Seq(Frames)
  BY DEF Inv, WellTyped, Stacks
<1>7. /\ blocks' \in Seq(Frames) /\ Len(blocks') = Len(blocks) - 1
      /\ \A d \in 1 .. Len(blocks') : blocks'[d] = blocks[d]
  BY <1>1, <1>6, SubSeqProperties
<1>8. Popped(blocks', blocks)
  BY <1>1, <1>7 DEF Popped
<1>9. blocks' \in Stacks
  BY <1>7 DEF Stacks
<1>10. /\ Top = blocks[Len(blocks)] /\ Len(toks) = n
       /\ Top.tok \in 1 .. n /\ Top.tag = toks[Top.tok].tag
  BY BraceIs DEF Top, Grown
<1>11. Len(blocks') \in Nat /\ \A d \in 1 .. Len(blocks) : d \in 1 .. Len(blocks') \/ d = Len(blocks)
  BY <1>1, <1>7
<1> HIDE DEF n
<1>12. Stacked(toks', at', blocks')
  BY <1>1, <1>2, <1>5, <1>8, <1>10, StackClose
<1>13. CASE ~(Top.tag \in StrongTags) /\ pending' = pending
  <2>1. ~IsLeave(toks'[n + 1])
    BY <1>2 DEF IsLeave, End
  <2>2. ~EndsStrong(toks, toks'[n + 1])
    <3>1. \A h : toks'[n + 1] = End(h) => h = Top.tok
      BY <1>2 DEF End
    <3> QED
      BY <1>10, <1>13, <3>1 DEF EndsStrong
  <2>3. ASSUME NEW k \in 1 .. n, NEW d \in 1 .. Len(blocks),
               blocks[d].tok = Home(toks, k)
        PROVE  d \in 1 .. Len(blocks') /\ blocks'[d] = blocks[d]
    <3>1. Home(toks, k) = 0 \/ toks[Home(toks, k)].tag \in StrongTags
      BY HomeType
    <3>2. d # Len(blocks)
      BY <1>10, <1>13, <2>3, <3>1
    <3> QED
      BY <1>7, <1>11, <3>2
  <2>4. HomesStay(toks, blocks, blocks')
    BY <1>10, <2>3 DEF HomesStay
  <2>5. Waiting(toks', at', blocks', pending)
    BY <1>1, <1>2, <1>10, <1>11, <2>1, <2>2, <2>4, WaitOther
  <2> QED
    BY <1>9, <1>12, <1>13, <2>5 DEF InBlocks
<1>14. CASE Top.tag \in StrongTags /\ pending' = {p \in pending : p[2] # Len(blocks)}
  <2>1. Waiting(toks', at', blocks', pending')
    BY <1>1, <1>2, <1>8, <1>10, <1>14, WaitClose
  <2> QED
    BY <1>9, <1>12, <2>1 DEF InBlocks
<1> QED
  BY <1>13, <1>14

\* What a token is read to.
LEMMA NewToken ==
    ASSUME Inv, NEW t, Grown(t)
    PROVE  /\ toks'[Len(toks) + 1] = t
           /\ at'[Len(toks) + 1] = Len(ins)
           /\ Home(toks', Len(toks) + 1) = Home(toks, Len(toks) + 1)
           /\ Start(at', Home(toks', Len(toks) + 1)) = Start(at, Home(toks, Len(toks) + 1))
<1> DEFINE n == Len(toks)
<1>1. n \in Nat /\ Len(at) = n + 1 /\ at[n + 1] = Len(ins)
  BY Setting DEF Grown
<1>2. Extends(toks', toks) /\ Extends(at', at) /\ toks'[n + 1] = t
  BY DEF Grown
<1>3. n + 1 \in 1 .. Len(toks) + 1 /\ n + 1 \in 1 .. n + 1
  BY <1>1
<1>4. at'[n + 1] = Len(ins)
  BY <1>1, <1>2, <1>3 DEF Extends
<1>5. Home(toks', n + 1) = Home(toks, n + 1)
  BY <1>2, <1>3, AroundStays
<1>6. Home(toks, n + 1) = 0 \/ Home(toks, n + 1) \in 1 .. n
  <2>1. n + 1 \in Nat
    BY <1>1
  <2>2. Home(toks, n + 1) # 0 => Home(toks, n + 1) \in 1 .. n + 1 - 1
    BY <2>1, HomeType
  <2> QED
    BY <1>1, <2>2
<1>7. Start(at', Home(toks', n + 1)) = Start(at, Home(toks, n + 1))
  <2>1. Home(toks, n + 1) # 0 => at'[Home(toks, n + 1)] = at[Home(toks, n + 1)]
    BY <1>1, <1>2, <1>6 DEF Extends
  <2> QED
    BY <1>5, <2>1 DEF Start
<1> QED
  BY <1>2, <1>4, <1>5, <1>7

\* No word, one word, two words.
LEMMA Emits0 ==
    ASSUME Inv, NEW t \in Tokens, t.tag \in StrongTags, Reads(t, ins),
           cells' = cells
    PROVE  Grown(t) /\ ins' \in Codes /\ Structure' /\ Braced(toks', Len(toks) + 1)
<1>1. t \in TokenSet /\ t.tag # "close" /\ ins \in Codes /\ WellTyped
  BY TokenIs DEF Inv, WellTyped
<1>2. Grown(t) /\ ins' = ins
  BY <1>1, ReadsGrown
<1>3. phase = "compiling"
  BY <1>2 DEF Grown
<1>4. Keeps(cells', cells)
  BY <1>3, Setting DEF Keeps
<1>5. toks'[Len(toks) + 1] = t
  BY <1>2, NewToken
<1>6. Width(toks', Len(toks) + 1) = 0
  BY <1>5 DEF Width, StrongTags
<1>7. Len(ins') = Len(ins) + 0 /\ Len(ins) \in Nat
  BY <1>2, <1>3, Setting
<1>8. /\ HasOp(toks', at', ins', Len(toks) + 1)
      /\ HasArg(toks', at', ins', cells', Len(toks) + 1)
  BY <1>5 DEF HasOp, HasArg, StrongTags
<1>9. \A i \in 1 .. Len(ins) : ins'[i] = ins[i]
  BY <1>2
<1> QED
  BY <1>1, <1>2, <1>4, <1>6, <1>7, <1>8, <1>9, StructureOther

LEMMA Emits1 ==
    ASSUME Inv, NEW t \in Tokens, NEW w \in Words, Reads(t, ins \o <<w>>),
           \/ t.tag = "builtin" /\ w = Builtin(t.data)
           \/ t.tag = "atomic" /\ w = Op("atomic"),
           cells' = cells
    PROVE  Grown(t) /\ ins' \in Codes /\ Structure' /\ Braced(toks', Len(toks) + 1)
<1>1. t \in TokenSet /\ t.tag # "close" /\ ins \in Codes /\ WellTyped
  BY TokenIs DEF Inv, WellTyped
<1>2. Grown(t) /\ ins' = ins \o <<w>>
  BY <1>1, ReadsGrown, Emit1
<1>3. phase = "compiling"
  BY <1>2 DEF Grown
<1>4. Keeps(cells', cells)
  BY <1>3, Setting DEF Keeps
<1>5. toks'[Len(toks) + 1] = t /\ at'[Len(toks) + 1] = Len(ins)
  BY <1>2, NewToken
<1>6. Width(toks', Len(toks) + 1) = 1
  BY <1>5 DEF Width
<1>7. /\ ins' \in Codes /\ Len(ins') = Len(ins) + 1
      /\ \A i \in 1 .. Len(ins) : ins'[i] = ins[i]
      /\ ins'[Len(ins) + 1] = w
  BY <1>1, <1>2, Emit1
<1>8. /\ HasOp(toks', at', ins', Len(toks) + 1)
      /\ HasArg(toks', at', ins', cells', Len(toks) + 1)
  BY <1>5, <1>7 DEF HasOp, HasArg
<1> QED
  BY <1>1, <1>2, <1>4, <1>6, <1>7, <1>8, StructureOther

LEMMA Emits2 ==
    ASSUME Inv, NEW t \in Tokens, NEW v \in Words, NEW w \in Words,
           Reads(t, ins \o <<v, w>>), Keeps(cells', cells),
           \/ t.tag = "int" /\ v = Op("literal") /\ w = Value(t.data)
           \/ /\ t.tag = "string" /\ v = Op("literal")
              /\ InCell(cells', "string", t.data, w)
           \/ /\ t.tag \in {"store", "load"} /\ v = Op(t.tag)
              /\ InCell(cells', "var", t.data, w)
           \/ t.tag = "while" /\ v = Op("jumpifnot")
           \/ t.tag = "break" /\ v = Op("jump")
           \/ t.tag = "if" /\ v = Op("jumpif")
           \/ /\ t.tag = "continue" /\ v = Op("jump")
              /\ w = To(Start(at, Home(toks, Len(toks) + 1)))
    PROVE  Grown(t) /\ ins' \in Codes /\ Structure' /\ Braced(toks', Len(toks) + 1)
<1>1. t \in TokenSet /\ t.tag # "close" /\ ins \in Codes /\ WellTyped
  BY TokenIs DEF Inv, WellTyped
<1>2. Grown(t) /\ ins' = ins \o <<v, w>>
  BY <1>1, ReadsGrown, Emit2
<1>3. /\ toks'[Len(toks) + 1] = t /\ at'[Len(toks) + 1] = Len(ins)
      /\ Start(at', Home(toks', Len(toks) + 1)) = Start(at, Home(toks, Len(toks) + 1))
  BY <1>2, NewToken
<1>4. Width(toks', Len(toks) + 1) = 2
  BY <1>3 DEF Width
<1>5. /\ ins' \in Codes /\ Len(ins') = Len(ins) + 2
      /\ \A i \in 1 .. Len(ins) : ins'[i] = ins[i]
      /\ ins'[Len(ins) + 1] = v /\ ins'[Len(ins) + 2] = w
  BY <1>1, <1>2, Emit2
<1>6. HasOp(toks', at', ins', Len(toks) + 1)
  BY <1>3, <1>5 DEF HasOp
<1>7. HasArg(toks', at', ins', cells', Len(toks) + 1)
  BY <1>3, <1>5 DEF HasArg
<1> QED
  BY <1>1, <1>2, <1>4, <1>5, <1>6, <1>7, StructureOther

\* What is typed, and the rest of the invariant, after a token that neither
\* opens nor closes a block...
LEMMA LeafKept ==
    ASSUME Inv, NEW t, Grown(t), ins' \in Codes, Structure',
           Braced(toks', Len(toks) + 1),
           ~(t.tag \in BlockTags), t.tag # "close", blocks' = blocks,
           \/ ~IsLeave(t) /\ pending' = pending
           \/ IsLeave(t) /\ pending' = pending \cup {<<Len(ins) + 2, Top.home>>},
           cells' \in Heaps, offset' \in Nat
    PROVE  Inv'
<1>1. InBlocks'
  BY BlocksLeaf
<1>2. WellTyped'
  <2>1. blocks \in Stacks
    BY DEF Inv, WellTyped
  <2> QED
    BY <2>1 DEF Grown, WellTyped
<1> QED
  BY <1>1, <1>2 DEF Inv

\* ...and after one that opens a block.
LEMMA OpenKept ==
    ASSUME Inv, NEW t, Grown(t), ins' \in Codes, Structure',
           Braced(toks', Len(toks) + 1),
           t.tag \in BlockTags, NEW f \in Frames, blocks' = Append(blocks, f),
           f.tok = Len(toks) + 1, f.tag = t.tag,
           f.at = IF f.tag = "if" THEN Len(ins) + 2 ELSE Len(ins),
           f.home = IF f.tag \in StrongTags THEN Len(blocks) + 1 ELSE Top.home,
           pending' = pending, cells' = cells, offset' = offset
    PROVE  Inv'
<1>1. InBlocks' /\ blocks' \in Stacks
  BY BlocksOpen
<1>2. WellTyped'
  <2>1. cells \in Heaps /\ offset \in Nat
    BY DEF Inv, WellTyped
  <2> QED
    BY <1>1, <2>1 DEF Grown, WellTyped
<1> QED
  BY <1>1, <1>2 DEF Inv

LEMMA CallKeeps ==
    ASSUME Inv, NEW t \in Tokens, Call(t)
    PROVE  Inv'
<1>1. /\ t.tag = "builtin" /\ Reads(t, ins \o <<Builtin(t.data)>>)
      /\ blocks' = blocks /\ pending' = pending /\ cells' = cells /\ offset' = offset
  BY DEF Call
<1>2. Builtin(t.data) \in Words
  BY TokenIs, WordTypes
<1>3. Grown(t) /\ ins' \in Codes /\ Structure' /\ Braced(toks', Len(toks) + 1)
  BY <1>1, <1>2, Emits1
<1>4. ~(t.tag \in BlockTags) /\ t.tag # "close" /\ ~IsLeave(t)
  BY <1>1 DEF BlockTags, StrongTags, IsLeave
<1>5. cells \in Heaps /\ offset \in Nat
  BY DEF Inv, WellTyped
<1> QED
  BY <1>1, <1>3, <1>4, <1>5, LeafKept

LEMMA LiteralKeeps ==
    ASSUME Inv, NEW t \in Tokens, Literal(t)
    PROVE  Inv'
<1>1. /\ t.tag = "int" /\ Reads(t, ins \o <<Op("literal"), Value(t.data)>>)
      /\ blocks' = blocks /\ pending' = pending /\ cells' = cells /\ offset' = offset
  BY DEF Literal
<1>2. Op("literal") \in Words /\ Value(t.data) \in Words
  BY TokenIs, WordTypes DEF Ops
<1>3. phase = "compiling"
  BY <1>1 DEF Reads
<1>4. Keeps(cells', cells)
  BY <1>1, <1>3, Setting DEF Keeps
<1>5. Grown(t) /\ ins' \in Codes /\ Structure' /\ Braced(toks', Len(toks) + 1)
  BY <1>1, <1>2, <1>4, Emits2
<1>6. ~(t.tag \in BlockTags) /\ t.tag # "close" /\ ~IsLeave(t)
  BY <1>1 DEF BlockTags, StrongTags, IsLeave
<1>7. cells \in Heaps /\ offset \in Nat
  BY DEF Inv, WellTyped
<1> QED
  BY <1>1, <1>5, <1>6, <1>7, LeafKept

LEMMA ContinueKeeps ==
    ASSUME Inv, NEW t \in Tokens, Continue(t)
    PROVE  Inv'
<1> DEFINE w == To(blocks[Top.home].at)
<1>1. /\ t.tag = "continue" /\ Reads(t, ins \o <<Op("jump"), w>>)
      /\ blocks' = blocks /\ pending' = pending /\ cells' = cells /\ offset' = offset
  BY DEF Continue
<1>2. phase = "compiling"
  BY <1>1 DEF Reads
<1>3. /\ Top.home \in 1 .. Len(blocks)
      /\ blocks[Top.home].at = Start(at, Home(toks, Len(toks) + 1))
  BY <1>2, Setting, TopHome DEF Top
<1>4. blocks[Top.home].at \in Nat
  <2>1. blocks \in Seq(Frames)
    BY DEF Inv, WellTyped, Stacks
  <2>2. blocks[Top.home] \in Frames
    BY <1>3, <2>1, ElementOfSeq
  <2> QED
    BY <2>2 DEF Frames
<1>5. Op("jump") \in Words /\ w \in Words
  BY <1>4, WordTypes DEF Ops
<1>6. w = To(Start(at, Home(toks, Len(toks) + 1)))
  BY <1>3
<1>7. Keeps(cells', cells)
  BY <1>1, <1>2, Setting DEF Keeps
<1> HIDE DEF w
<1>8. Grown(t) /\ ins' \in Codes /\ Structure' /\ Braced(toks', Len(toks) + 1)
  BY <1>1, <1>5, <1>6, <1>7, Emits2
<1>9. ~(t.tag \in BlockTags) /\ t.tag # "close" /\ ~IsLeave(t)
  BY <1>1 DEF BlockTags, StrongTags, IsLeave
<1>10. cells \in Heaps /\ offset \in Nat
  BY DEF Inv, WellTyped
<1> QED
  BY <1>1, <1>8, <1>9, <1>10, LeafKept

LEMMA LeaveKeeps ==
    ASSUME Inv, NEW t \in Tokens, Leave(t)
    PROVE  Inv'
<1> DEFINE v == Op(IF t.tag = "while" THEN "jumpifnot" ELSE "jump")
           w == To(UNSET)
<1>1. /\ t.tag \in {"while", "break"} /\ Reads(t, ins \o <<v, w>>)
      /\ pending' = pending \cup {<<Len(ins) + 2, Top.home>>}
      /\ blocks' = blocks /\ cells' = cells /\ offset' = offset
  BY DEF Leave
<1>2. phase = "compiling"
  BY <1>1 DEF Reads
<1>3. v \in Words /\ w \in Words
  BY WordTypes DEF Ops, UNSET
<1>4. Keeps(cells', cells)
  BY <1>1, <1>2, Setting DEF Keeps
<1>5. \/ t.tag = "while" /\ v = Op("jumpifnot")
      \/ t.tag = "break" /\ v = Op("jump")
  BY <1>1
<1> HIDE DEF v, w
<1>6. Grown(t) /\ ins' \in Codes /\ Structure' /\ Braced(toks', Len(toks) + 1)
  BY <1>1, <1>3, <1>4, <1>5, Emits2
<1>7. ~(t.tag \in BlockTags) /\ t.tag # "close" /\ IsLeave(t)
  BY <1>1 DEF BlockTags, StrongTags, IsLeave
<1>8. cells \in Heaps /\ offset \in Nat
  BY DEF Inv, WellTyped
<1> QED
  BY <1>1, <1>6, <1>7, <1>8, LeafKept

LEMMA IfKeeps ==
    ASSUME Inv, NEW t \in Tokens, If(t)
    PROVE  Inv'
<1> DEFINE f == Frame("if", Len(ins) + 2, Top.home, Len(toks) + 1)
           w == To(UNSET)
<1>1. /\ t.tag = "if" /\ Reads(t, ins \o <<Op("jumpif"), w>>)
      /\ blocks' = Append(blocks, f)
      /\ pending' = pending /\ cells' = cells /\ offset' = offset
  BY DEF If
<1>2. phase = "compiling"
  BY <1>1 DEF Reads
<1>3. Op("jumpif") \in Words /\ w \in Words
  BY WordTypes DEF Ops, UNSET
<1>4. Keeps(cells', cells)
  BY <1>1, <1>2, Setting DEF Keeps
<1>5. Top.home \in Nat
  BY <1>2, Setting, TopHome DEF Top
<1>6. /\ f \in Frames /\ f.tag = t.tag /\ f.tok = Len(toks) + 1
      /\ f.at = IF f.tag = "if" THEN Len(ins) + 2 ELSE Len(ins)
      /\ f.home = IF f.tag \in StrongTags THEN Len(blocks) + 1 ELSE Top.home
      /\ t.tag \in BlockTags
  BY <1>1, <1>2, <1>5, Setting DEF Frame, Frames, BlockTags, StrongTags
<1> HIDE DEF f, w
<1>7. Grown(t) /\ ins' \in Codes /\ Structure' /\ Braced(toks', Len(toks) + 1)
  BY <1>1, <1>3, <1>4, Emits2
<1> QED
  BY <1>1, <1>6, <1>7, OpenKept

LEMMA AtomicallyKeeps ==
    ASSUME Inv, NEW t \in Tokens, Atomically(t)
    PROVE  Inv'
<1> DEFINE f == Frame("atomic", Len(ins), Top.home, Len(toks) + 1)
<1>1. /\ t.tag = "atomic" /\ Reads(t, ins \o <<Op("atomic")>>)
      /\ blocks' = Append(blocks, f)
      /\ pending' = pending /\ cells' = cells /\ offset' = offset
  BY DEF Atomically
<1>2. phase = "compiling"
  BY <1>1 DEF Reads
<1>3. Op("atomic") \in Words
  BY WordTypes DEF Ops
<1>4. Top.home \in Nat
  BY <1>2, Setting, TopHome DEF Top
<1>5. /\ f \in Frames /\ f.tag = t.tag /\ f.tok = Len(toks) + 1
      /\ f.at = IF f.tag = "if" THEN Len(ins) + 2 ELSE Len(ins)
      /\ f.home = IF f.tag \in StrongTags THEN Len(blocks) + 1 ELSE Top.home
      /\ t.tag \in BlockTags
  BY <1>1, <1>2, <1>4, Setting DEF Frame, Frames, BlockTags, StrongTags
<1> HIDE DEF f
<1>6. Grown(t) /\ ins' \in Codes /\ Structure' /\ Braced(toks', Len(toks) + 1)
  BY <1>1, <1>3, Emits1
<1> QED
  BY <1>1, <1>5, <1>6, OpenKept

LEMMA StrongBlockKeeps ==
    ASSUME Inv, NEW t \in Tokens, StrongBlock(t)
    PROVE  Inv'
<1> DEFINE f == Frame(t.tag, Len(ins), Len(blocks) + 1, Len(toks) + 1)
<1>1. /\ t.tag \in StrongTags /\ Reads(t, ins)
      /\ blocks' = Append(blocks, f)
      /\ pending' = pending /\ cells' = cells /\ offset' = offset
  BY DEF StrongBlock
<1>2. phase = "compiling"
  BY <1>1 DEF Reads
<1>3. /\ f \in Frames /\ f.tag = t.tag /\ f.tok = Len(toks) + 1
      /\ f.at = IF f.tag = "if" THEN Len(ins) + 2 ELSE Len(ins)
      /\ f.home = IF f.tag \in StrongTags THEN Len(blocks) + 1 ELSE Top.home
      /\ t.tag \in BlockTags
  BY <1>1, <1>2, Setting DEF Frame, Frames, BlockTags, StrongTags
<1> HIDE DEF f
<1>4. Grown(t) /\ ins' \in Codes /\ Structure' /\ Braced(toks', Len(toks) + 1)
  BY <1>1, Emits0
<1> QED
  BY <1>1, <1>3, <1>4, OpenKept

\* getvar and get_string: what they look up is in the cells, which stay.
LEMMA LocIs ==
    ASSUME NEW cs \in Heaps, NEW kind, NEW id, NEW m \in 1 .. Len(cs),
           cs[m].kind = kind, cs[m].id = id
    PROVE  /\ InCell(cs, kind, id, HeapAt(LocOf(cs, kind, id)))
           /\ LocOf(cs, kind, id) \in Nat
<1> DEFINE k == CHOOSE k \in 1 .. Len(cs) : cs[k].kind = kind /\ cs[k].id = id
<1>1. k \in 1 .. Len(cs) /\ cs[k].kind = kind /\ cs[k].id = id
  OBVIOUS
<1>2. LocOf(cs, kind, id) = cs[k].loc
  BY DEF LocOf
<1> HIDE DEF k
<1>3. cs[k].loc \in Nat
  <2>1. cs \in Seq(CellSet)
    BY DEF Heaps
  <2>2. cs[k] \in CellSet
    BY <1>1, <2>1, ElementOfSeq
  <2> QED
    BY <2>2 DEF CellSet
<1>4. InCell(cs, kind, id, HeapAt(cs[k].loc))
  BY <1>1 DEF InCell
<1> QED
  BY <1>2, <1>3, <1>4

LEMMA GetKeeps ==
    ASSUME cells \in Heaps, offset \in Nat, NEW kind \in {"string", "var"},
           NEW id \in Datas, NEW size \in Nat, Get(kind, id, size)
    PROVE  /\ cells' \in Heaps /\ offset' \in Nat /\ Keeps(cells', cells)
           /\ InCell(cells', kind, id, HeapAt(LocOf(cells', kind, id)))
           /\ LocOf(cells', kind, id) \in Nat
<1>1. CASE Known(kind, id)
  <2>1. cells' = cells /\ offset' = offset
    BY <1>1 DEF Get
  <2>2. PICK m \in 1 .. Len(cells) : cells[m].kind = kind /\ cells[m].id = id
    BY <1>1 DEF Known
  <2>3. Len(cells) \in Nat
    BY Lengths
  <2> QED
    BY <2>1, <2>2, <2>3, LocIs DEF Keeps
<1>2. CASE ~Known(kind, id)
  <2> DEFINE c == Cell(kind, id, offset)
  <2>1. cells' = Append(cells, c) /\ offset' = offset + size
    BY <1>2 DEF Get
  <2>2. c \in CellSet
    BY DEF Cell, CellSet
  <2>3. cells \in Seq(CellSet)
    BY DEF Heaps
  <2>4. c.kind = kind /\ c.id = id
    BY DEF Cell
  <2> HIDE DEF c
  <2>5. /\ cells' \in Seq(CellSet) /\ Len(cells) \in Nat
        /\ Len(cells') = Len(cells) + 1
        /\ \A k \in 1 .. Len(cells) : cells'[k] = cells[k]
        /\ cells'[Len(cells) + 1] = c
    BY <2>1, <2>2, <2>3, Appended
  <2>6. cells' \in Heaps
    BY <2>5 DEF Heaps
  <2>7. Len(cells) + 1 \in 1 .. Len(cells') /\ Len(cells') \in Nat /\ Len(cells) <= Len(cells')
    BY <2>5
  <2>8. Keeps(cells', cells)
    BY <2>5, <2>7 DEF Keeps
  <2>9. /\ cells'[Len(cells) + 1].kind = kind /\ cells'[Len(cells) + 1].id = id
    BY <2>4, <2>5
  <2>10. offset' \in Nat
    BY <2>1
  <2>11. /\ InCell(cells', kind, id, HeapAt(LocOf(cells', kind, id)))
         /\ LocOf(cells', kind, id) \in Nat
    BY <2>6, <2>7, <2>9, LocIs
  <2> QED
    BY <2>6, <2>8, <2>10, <2>11
<1> QED
  BY <1>1, <1>2

LEMMA StringKeeps ==
    ASSUME Inv, NEW t \in Tokens, String(t)
    PROVE  Inv'
<1> DEFINE w == HeapAt(LocOf(cells', "string", t.data))
<1>1. /\ t.tag = "string" /\ Reads(t, ins \o <<Op("literal"), w>>)
      /\ Get("string", t.data, StringSize(t.data))
      /\ blocks' = blocks /\ pending' = pending
  BY DEF String
<1>2. cells \in Heaps /\ offset \in Nat
  BY DEF Inv, WellTyped
<1>3. t.data \in Datas /\ t.data \in DOMAIN Chars
  BY <1>1, TokenIs
<1>4. StringSize(t.data) \in Nat
  BY <1>3, CompilerAssumption DEF StringSize
<1>5. /\ cells' \in Heaps /\ offset' \in Nat /\ Keeps(cells', cells)
      /\ InCell(cells', "string", t.data, w)
      /\ LocOf(cells', "string", t.data) \in Nat
  BY <1>1, <1>2, <1>3, <1>4, GetKeeps
<1>6. Op("literal") \in Words /\ w \in Words
  BY <1>5, WordTypes DEF Ops
<1> HIDE DEF w
<1>7. Grown(t) /\ ins' \in Codes /\ Structure' /\ Braced(toks', Len(toks) + 1)
  BY <1>1, <1>5, <1>6, Emits2
<1>8. ~(t.tag \in BlockTags) /\ t.tag # "close" /\ ~IsLeave(t)
  BY <1>1 DEF BlockTags, StrongTags, IsLeave
<1> QED
  BY <1>1, <1>5, <1>7, <1>8, LeafKept

LEMMA VariableKeeps ==
    ASSUME Inv, NEW t \in Tokens, Variable(t)
    PROVE  Inv'
<1> DEFINE w == HeapAt(LocOf(cells', "var", t.data))
<1>1. /\ t.tag \in {"store", "load"} /\ Reads(t, ins \o <<Op(t.tag), w>>)
      /\ Get("var", t.data, VariableSize)
      /\ blocks' = blocks /\ pending' = pending
  BY DEF Variable
<1>2. cells \in Heaps /\ offset \in Nat
  BY DEF Inv, WellTyped
<1>3. t.data \in Datas /\ VariableSize \in Nat
  BY <1>1, TokenIs DEF VariableSize
<1>4. /\ cells' \in Heaps /\ offset' \in Nat /\ Keeps(cells', cells)
      /\ InCell(cells', "var", t.data, w)
      /\ LocOf(cells', "var", t.data) \in Nat
  BY <1>1, <1>2, <1>3, GetKeeps
<1>5. Op(t.tag) \in Words /\ w \in Words
  BY <1>1, <1>4, WordTypes DEF Ops
<1> HIDE DEF w
<1>6. Grown(t) /\ ins' \in Codes /\ Structure' /\ Braced(toks', Len(toks) + 1)
  BY <1>1, <1>4, <1>5, Emits2
<1>7. ~(t.tag \in BlockTags) /\ t.tag # "close" /\ ~IsLeave(t)
  BY <1>1 DEF BlockTags, StrongTags, IsLeave
<1> QED
  BY <1>1, <1>4, <1>6, <1>7, LeafKept

\* What a closing brace is read to.
LEMMA BraceRead ==
    ASSUME Inv, NEW c \in Codes, Reads(Brace, c), Len(blocks) > 1
    PROVE  /\ Grown(End(Top.tok)) /\ ins' = c /\ phase = "compiling"
           /\ Braced(toks', Len(toks) + 1)
           /\ Top.tok \in 1 .. Len(toks)
           /\ toks'[Len(toks) + 1] = End(Top.tok)
           /\ toks'[Top.tok] = toks[Top.tok] /\ at'[Top.tok] = at[Top.tok]
           /\ EndOf(toks', Top.tok) = Len(toks) + 1
<1> DEFINE n == Len(toks)
           j == Top.tok
<1>1. phase = "compiling"
  BY DEF Reads
<1>2. /\ Brace = End(j) /\ End(j) \in TokenSet /\ j \in 1 .. n
      /\ j \in Around(toks, n + 1)
      /\ \A i \in Around(toks, n + 1) : i <= j
  BY <1>1, BraceIs
<1>3. Grown(End(j)) /\ ins' = c
  BY <1>2, ReadsGrown DEF Inv
<1>4. /\ n \in Nat /\ Braced(toks, n) /\ Len(at) = n + 1
      /\ Extends(toks', toks) /\ Extends(at', at)
      /\ toks'[n + 1] = End(j) /\ Len(toks') = n + 1
  BY <1>1, <1>3, Setting DEF Grown
<1>5. Braced(toks', n + 1)
  <2> HIDE DEF n, j
  <2>1. Len(toks) = n
    BY DEF n
  <2> QED
    BY <1>2, <1>4, <2>1, BracedClose
<1>6. toks'[j] = toks[j] /\ at'[j] = at[j]
  BY <1>2, <1>4 DEF Extends
<1>7. EndOf(toks', j) = n + 1
  <2>1. Len(toks') \in Nat /\ Braced(toks', Len(toks')) /\ n + 1 \in 1 .. Len(toks')
        /\ j \in Nat /\ j # 0
    BY <1>2, <1>4, <1>5
  <2> HIDE DEF n, j
  <2> QED
    BY <1>4, <2>1, EndIs
<1> QED
  BY <1>1, <1>2, <1>3, <1>4, <1>5, <1>6, <1>7

\* How many words it stands for, and that it is no jump ahead.
LEMMA BraceWidth ==
    ASSUME NEW us, NEW k, NEW j, us[k] = End(j)
    PROVE  /\ us[k].tag = "close" /\ us[k].data = j /\ ~IsAhead(us[k])
           /\ Width(us, k) = IF us[j].tag = "loop" THEN 2
                             ELSE IF us[j].tag = "atomic" THEN 1 ELSE 0
<1>1. us[k].tag = "close" /\ us[k].data = j
  BY DEF End
<1> QED
  BY <1>1 DEF Width, IsAhead, IsLeave

\* The jumps out of other blocks than the one that is closed.
LEMMA OtherTarget ==
    ASSUME Inv, Grown(End(Top.tok)), Braced(toks', Len(toks) + 1),
           NEW k \in 1 .. Len(toks),
           IsAhead(toks[k]) => /\ ins'[at[k] + 2] = ins[at[k] + 2]
                               /\ Out(toks, k) # Top.tok
    PROVE  HasTarget(toks', at', ins', k)
<1> DEFINE n == Len(toks)
<1>1. /\ n \in Nat /\ Len(at) = n + 1 /\ Coded(toks, at, ins, cells)
  BY Setting DEF Grown
<1>2. /\ Extends(toks', toks) /\ Extends(at', at)
      /\ toks'[n + 1] = End(Top.tok)
  BY DEF Grown
<1>3. HasTarget(toks, at, ins, k)
  BY <1>1 DEF Coded
<1>4. End(Top.tok) = End(Out(toks, k)) => Top.tok = Out(toks, k)
  BY DEF End
<1>5. Len(toks) = n /\ k \in 1 .. n
  OBVIOUS
<1> HIDE DEF n
<1> QED
  BY <1>1, <1>2, <1>3, <1>4, <1>5, TargetSame

\* Where the target of a jump is.
LEMMA AheadWord ==
    ASSUME Inv, phase = "compiling", NEW k \in 1 .. Len(toks), IsAhead(toks[k])
    PROVE  at[k] \in Nat /\ at[k] + 2 \in 1 .. Len(ins)
<1>1. /\ Len(toks) \in Nat /\ Len(ins) \in Nat /\ Laid(toks, at, Len(ins))
  BY Setting
<1>2. Width(toks, k) = 2
  BY AheadIs
<1>3. at[k] \in Nat /\ at[k + 1] = at[k] + Width(toks, k) /\ at[k + 1] <= Len(ins)
  BY <1>1, WordsOf
<1> QED
  BY <1>1, <1>2, <1>3

\* A brace whose words are emitted as it says, and whose jumps have their
\* targets, keeps the invariant.
LEMMA BraceKept ==
    ASSUME Inv, NEW c \in Codes, Reads(Brace, c), Len(blocks) > 1, Pop,
           \/ ~(Top.tag \in StrongTags) /\ pending' = pending
           \/ Top.tag \in StrongTags /\ pending' = {p \in pending : p[2] # Len(blocks)},
           Len(c) = Len(ins) + Width(toks', Len(toks) + 1),
           Patched(toks, at, ins, c, Len(ins)),
           \A k \in 1 .. Len(toks) :
              IsAhead(toks[k]) => HasTarget(toks', at', c, k),
           HasOp(toks', at', c, Len(toks) + 1),
           HasArg(toks', at', c, cells, Len(toks) + 1)
    PROVE  Inv'
<1>1. /\ Grown(End(Top.tok)) /\ ins' = c /\ phase = "compiling"
      /\ Braced(toks', Len(toks) + 1)
      /\ toks'[Len(toks) + 1] = End(Top.tok)
  BY BraceRead
<1>2. blocks' = SubSeq(blocks, 1, Len(blocks) - 1) /\ cells' = cells /\ offset' = offset
  BY DEF Pop
<1>3. InBlocks' /\ blocks' \in Stacks
  BY <1>1, <1>2, BlocksClose
<1>4. Keeps(cells', cells)
  BY <1>1, <1>2, Setting DEF Keeps
<1>5. ASSUME NEW k \in 1 .. Len(toks) + 1, IsAhead(toks'[k])
      PROVE  HasTarget(toks', at', ins', k)
  <2>1. k # Len(toks) + 1
    BY <1>1, <1>5, BraceWidth
  <2>2. k \in 1 .. Len(toks)
    BY <2>1, <1>1, Setting
  <2>3. toks'[k] = toks[k]
    BY <1>1, <2>2 DEF Grown, Extends
  <2> QED
    BY <1>1, <1>5, <2>2, <2>3
<1>6. Structure'
  BY <1>1, <1>2, <1>4, <1>5, StructureGrows
<1>7. WellTyped'
  <2>1. cells \in Heaps /\ offset \in Nat
    BY DEF Inv, WellTyped
  <2> QED
    BY <1>1, <1>2, <1>3, <2>1 DEF Grown, WellTyped
<1> QED
  BY <1>3, <1>6, <1>7 DEF Inv

LEMMA CloseAtomicKeeps ==
    ASSUME Inv, CloseAtomic
    PROVE  Inv'
<1> DEFINE c == ins \o <<Op("end_atomic")>>
           n == Len(toks)
           m == Len(ins)
<1>1. /\ Len(blocks) > 1 /\ Top.tag = "atomic" /\ Reads(Brace, c)
      /\ Pop /\ pending' = pending
  BY DEF CloseAtomic
<1>2. ins \in Codes /\ Op("end_atomic") \in Words /\ phase = "compiling"
  BY <1>1, WordTypes DEF Inv, WellTyped, Ops, Reads
<1>3. /\ c \in Codes /\ m \in Nat /\ Len(c) = m + 1
      /\ \A i \in 1 .. m : c[i] = ins[i]
      /\ c[m + 1] = Op("end_atomic")
  BY <1>2, Emit1
<1>4. Top.tok \in 1 .. n /\ Top.tag = toks[Top.tok].tag /\ n \in Nat
  BY <1>1, <1>2, BraceIs, Setting
<1> HIDE DEF c
<1>5. /\ Grown(End(Top.tok)) /\ ins' = c /\ Braced(toks', n + 1)
      /\ toks'[n + 1] = End(Top.tok) /\ toks'[Top.tok] = toks[Top.tok]
  BY <1>1, <1>3, BraceRead
<1>6. Width(toks', n + 1) = 1 /\ toks'[n + 1].tag = "close" /\ toks'[n + 1].data = Top.tok
  <2>1. toks'[Top.tok].tag = "atomic"
    BY <1>1, <1>4, <1>5
  <2> HIDE DEF n
  <2>2. /\ toks'[n + 1].tag = "close" /\ toks'[n + 1].data = Top.tok
        /\ Width(toks', n + 1) = IF toks'[Top.tok].tag = "loop" THEN 2
                                 ELSE IF toks'[Top.tok].tag = "atomic" THEN 1 ELSE 0
    BY <1>5, BraceWidth
  <2> QED
    BY <2>1, <2>2
<1>7. at'[n + 1] = m
  BY <1>5, NewToken
<1>8. /\ HasOp(toks', at', c, n + 1)
      /\ HasArg(toks', at', c, cells, n + 1)
  BY <1>1, <1>3, <1>4, <1>5, <1>6, <1>7 DEF HasOp, HasArg
<1>9. Patched(toks, at, ins, c, m)
  BY <1>3 DEF Patched
<1>10. ASSUME NEW k \in 1 .. n, IsAhead(toks[k])
       PROVE  HasTarget(toks', at', c, k)
  <2>1. Out(toks, k) # Top.tok
    <3>1. k \in Nat
      BY <1>4
    <3>2. Home(toks, k) # 0 => toks[Home(toks, k)].tag \in StrongTags
      BY <3>1, HomeType
    <3> QED
      BY <1>1, <1>4, <3>2 DEF Out, StrongTags
  <2>2. at[k] + 2 \in 1 .. m
    BY <1>2, <1>10, AheadWord
  <2>3. ins'[at[k] + 2] = ins[at[k] + 2]
    BY <1>3, <1>5, <2>2
  <2> QED
    BY <1>5, <2>1, <2>3, OtherTarget
<1>11. ~(Top.tag \in StrongTags)
  BY <1>1 DEF StrongTags
<1> QED
  BY <1>1, <1>3, <1>6, <1>8, <1>9, <1>10, <1>11, BraceKept

LEMMA CloseIfKeeps ==
    ASSUME Inv, CloseIf
    PROVE  Inv'
<1> DEFINE n == Len(toks)
           m == Len(ins)
           j == Top.tok
           c == [ins EXCEPT ![Top.at] = To(m)]
<1>1. /\ Len(blocks) > 1 /\ Top.tag = "if" /\ Reads(Brace, c)
      /\ Pop /\ pending' = pending
  BY DEF CloseIf
<1>2. ins \in Codes /\ phase = "compiling" /\ m \in Nat /\ To(m) \in Words
  <2>1. ins \in Codes /\ phase = "compiling"
    BY <1>1 DEF Inv, WellTyped, Reads
  <2>2. m \in Nat
    BY <2>1, Setting
  <2> QED
    BY <2>1, <2>2, WordTypes
<1>3. /\ j \in 1 .. n /\ toks[j].tag = "if" /\ n \in Nat
      /\ Top.at = at[j] + 2
  BY <1>1, <1>2, BraceIs, Setting
<1>4. IsAhead(toks[j])
  BY <1>3 DEF IsAhead
<1>5. at[j] \in Nat /\ at[j] + 2 \in 1 .. m
  BY <1>2, <1>3, <1>4, AheadWord
<1>6. /\ c \in Codes /\ Len(c) = m
      /\ \A i \in 1 .. m : c[i] = IF i = at[j] + 2 THEN To(m) ELSE ins[i]
  <2>1. ins \in Seq(Words)
    BY <1>2 DEF Codes
  <2>2. c \in Seq(Words) /\ Len(c) = m
    BY <1>2, <1>3, <1>5, <2>1, ExceptSeq
  <2>3. \A i \in 1 .. m : c[i] = IF i = at[j] + 2 THEN To(m) ELSE ins[i]
    BY <1>2, <1>3, <1>5, <2>1, ExceptSeq
  <2> QED
    BY <2>2, <2>3 DEF Codes
<1> HIDE DEF c
<1>7. /\ Grown(End(j)) /\ ins' = c /\ Braced(toks', n + 1)
      /\ toks'[n + 1] = End(j) /\ toks'[j] = toks[j] /\ at'[j] = at[j]
      /\ EndOf(toks', j) = n + 1
  BY <1>1, <1>6, BraceRead
<1>8. Width(toks', n + 1) = 0 /\ toks'[n + 1].tag = "close" /\ toks'[n + 1].data = j
  <2>1. toks'[j].tag = "if"
    BY <1>3, <1>7
  <2> HIDE DEF n, j
  <2>2. /\ toks'[n + 1].tag = "close" /\ toks'[n + 1].data = j
        /\ Width(toks', n + 1) = IF toks'[j].tag = "loop" THEN 2
                                 ELSE IF toks'[j].tag = "atomic" THEN 1 ELSE 0
    BY <1>7, BraceWidth
  <2> QED
    BY <2>1, <2>2
<1>9. at'[n + 1] = m
  BY <1>7, NewToken
<1>10. /\ HasOp(toks', at', c, n + 1)
       /\ HasArg(toks', at', c, cells, n + 1)
  BY <1>3, <1>7, <1>8 DEF HasOp, HasArg
<1>11. Patched(toks, at, ins, c, m)
  BY <1>3, <1>4, <1>6 DEF Patched
<1>12. ASSUME NEW k \in 1 .. n, IsAhead(toks[k])
       PROVE  HasTarget(toks', at', c, k)
  <2>1. CASE k = j
    <3>1. toks'[k].tag = "if" /\ ~IsLeave(toks'[k])
      BY <1>3, <1>7, <2>1 DEF IsLeave
    <3>2. c[at'[k] + 2] = To(at'[EndOf(toks', k)])
      BY <1>5, <1>6, <1>7, <1>9, <2>1
    <3> QED
      BY <3>1, <3>2 DEF HasTarget
  <2>2. CASE k # j
    <3>1. Out(toks, k) # j
      <4>1. k \in Nat
        BY <1>3
      <4>2. Home(toks, k) # 0 => toks[Home(toks, k)].tag \in StrongTags
        BY <4>1, HomeType
      <4> QED
        BY <1>3, <2>2, <4>2 DEF Out, StrongTags
    <3>2. at[k] + 2 \in 1 .. m
      BY <1>2, <1>12, AheadWord
    <3>3. at[k] + 2 # at[j] + 2
      <4>1. Laid(toks, at, m) /\ Len(toks) = n
        BY <1>2, Setting
      <4>2. Width(toks, k) = 2 /\ Width(toks, j) = 2
        BY <1>4, <1>12, AheadIs
      <4> HIDE DEF n, m, j
      <4> QED
        BY <1>2, <1>3, <2>2, <4>1, <4>2, WordsApart
    <3>4. ins'[at[k] + 2] = ins[at[k] + 2]
      BY <1>6, <1>7, <3>2, <3>3
    <3> QED
      BY <1>7, <3>1, <3>4, OtherTarget
  <2> QED
    BY <2>1, <2>2
<1>13. ~(Top.tag \in StrongTags)
  BY <1>1 DEF StrongTags
<1>14. Len(c) = m + Width(toks', n + 1)
  BY <1>2, <1>6, <1>8
<1> QED
  BY <1>1, <1>6, <1>10, <1>11, <1>12, <1>13, <1>14, BraceKept

\* What waits for the end of the block on top gets it.
LEMMA SettledIs ==
    ASSUME Inv, NEW e \in Nat
    PROVE  /\ Settled(e) \in Codes /\ Len(ins) \in Nat /\ Len(Settled(e)) = Len(ins)
           /\ \A i \in 1 .. Len(ins) :
                 Settled(e)[i] = IF <<i, Len(blocks)>> \in pending THEN To(e)
                                 ELSE ins[i]
<1>1. ins \in Seq(Words) /\ Len(ins) \in Nat /\ To(e) \in Words
  BY Lengths, WordTypes DEF Inv, WellTyped, Codes
<1>2. \A i \in 1 .. Len(ins) : ins[i] \in Words
  BY <1>1, ElementOfSeq
<1> DEFINE w(i) == IF <<i, Len(blocks)>> \in pending THEN To(e) ELSE ins[i]
<1>3. \A i \in 1 .. Len(ins) : w(i) \in Words
  BY <1>1, <1>2
<1>4. Settled(e) = [i \in 1 .. Len(ins) |-> w(i)]
  BY DEF Settled
<1> HIDE DEF w
<1>5. Settled(e) \in Seq(Words) /\ Len(Settled(e)) = Len(ins)
  BY <1>1, <1>3, <1>4, IsASeq, LenProperties
<1>6. \A i \in 1 .. Len(ins) : Settled(e)[i] = w(i)
  BY <1>4
<1> QED
  BY <1>1, <1>5, <1>6 DEF w, Codes

\* So the jumps out of the block on top, and no others, have the word after
\* its brace as their target.
LEMMA SettledTargets ==
    ASSUME Inv, phase = "compiling", Len(blocks) > 1, Top.tag \in StrongTags,
           Grown(End(Top.tok)), Braced(toks', Len(toks) + 1),
           toks'[Top.tok] = toks[Top.tok],
           EndOf(toks', Top.tok) = Len(toks) + 1,
           \A i \in 1 .. Len(ins) : ins'[i] = Settled(Len(ins'))[i],
           Len(ins') \in Nat
    PROVE  /\ Patched(toks, at, ins, ins', Len(ins))
           /\ \A k \in 1 .. Len(toks) :
                 IsAhead(toks[k]) => HasTarget(toks', at', ins', k)
<1> DEFINE n == Len(toks)
           m == Len(ins)
           D == Len(blocks)
           j == Top.tok
           e == Len(ins')
<1>1. /\ n \in Nat /\ m \in Nat /\ Laid(toks, at, m) /\ Len(at) = n + 1
      /\ Stacked(toks, at, blocks) /\ Waiting(toks, at, blocks, pending)
      /\ D \in 1 .. D /\ D \in Nat /\ D > 1
  BY Setting
<1>2. \A i \in 1 .. m : ins'[i] = IF <<i, D>> \in pending THEN To(e) ELSE ins[i]
  BY SettledIs
<1>3. /\ j \in 1 .. n /\ toks[j].tag \in StrongTags /\ blocks[D].tok = j
      /\ j \in Around(toks, n + 1)
  BY BraceIs DEF Top
<1>4. \A d \in 1 .. D : blocks[d].tok = j => d = D
  <2>1. \A d \in 1 .. D : d < D => blocks[d].tok < blocks[D].tok
    BY <1>1 DEF Stacked
  <2> QED
    BY <1>1, <1>3, <2>1
\* A word waits for the top only if it belongs to a jump out of it.
<1>5. ASSUME NEW i, <<i, D>> \in pending
      PROVE  \E k \in 1 .. n : IsLeave(toks[k]) /\ i = at[k] + 2 /\ Home(toks, k) = j
  <2>1. PICK k \in 1 .. n, d \in 1 .. D :
            /\ IsLeave(toks[k]) /\ blocks[d].tok = Home(toks, k)
            /\ <<i, D>> = <<at[k] + 2, d>>
    BY <1>1, <1>5 DEF Waiting
  <2> QED
    BY <1>3, <2>1
<1>6. Patched(toks, at, ins, ins', m)
  <2>1. ASSUME NEW i \in 1 .. m, ins'[i] # ins[i]
        PROVE  \E k \in 1 .. n : IsAhead(toks[k]) /\ i = at[k] + 2
    <3>1. <<i, D>> \in pending
      BY <1>2, <2>1
    <3> QED
      BY <1>5, <3>1 DEF IsAhead
  <2> QED
    BY <2>1 DEF Patched
<1>7. ASSUME NEW k \in 1 .. n, IsAhead(toks[k])
      PROVE  HasTarget(toks', at', ins', k)
  <2>1. at[k] + 2 \in 1 .. m /\ Width(toks, k) = 2
    BY <1>7, AheadWord, AheadIs
  <2>2. k \in 1 .. Len(at) /\ at'[k] = at[k] /\ toks'[k] = toks[k]
    BY <1>1 DEF Grown, Extends
  <2>3. Home(toks', k) = Home(toks, k)
    <3>1. k \in 1 .. Len(toks) + 1 /\ Extends(toks', toks)
      BY <1>1 DEF Grown
    <3> QED
      BY <3>1, AroundStays
  <2>4. CASE IsLeave(toks[k]) /\ Home(toks, k) = j
    <3>1. ~Closed(toks, j)
      BY <1>3 DEF Closed, Around
    <3>2. PICK d \in 1 .. D : blocks[d].tok = j /\ <<at[k] + 2, d>> \in pending
      BY <1>1, <2>4, <3>1 DEF Waiting
    <3>3. ins'[at[k] + 2] = To(e)
      BY <1>2, <1>4, <2>1, <3>2
    <3>4. at'[n + 2] = e /\ n + 1 + 1 = n + 2
      BY <1>1 DEF Grown
    <3>5. ~(toks'[k].tag = "if")
      BY <2>2, <2>4 DEF IsLeave
    <3>6. ins'[at'[k] + 2] = To(at'[EndOf(toks', Home(toks', k)) + 1])
      BY <2>2, <2>3, <2>4, <3>3, <3>4
    <3> QED
      BY <3>5, <3>6 DEF HasTarget
  <2>5. CASE ~(IsLeave(toks[k]) /\ Home(toks, k) = j)
    <3>1. Out(toks, k) # j
      <4>1. toks[j].tag # "if"
        BY <1>3 DEF StrongTags
      <4> QED
        BY <1>7, <2>5, <4>1 DEF Out, IsAhead
    <3>2. ~(<<at[k] + 2, D>> \in pending)
      <4>1. SUFFICES ASSUME <<at[k] + 2, D>> \in pending PROVE FALSE
        OBVIOUS
      <4>2. PICK i \in 1 .. n : /\ IsLeave(toks[i]) /\ at[k] + 2 = at[i] + 2
                                /\ Home(toks, i) = j
        BY <1>5, <4>1
      <4>3. Width(toks, i) = 2
        BY <4>2, AheadIs DEF IsAhead
      <4>4. Len(toks) = n
        OBVIOUS
      <4> HIDE DEF n, m, j
      <4>5. i = k
        BY <1>1, <2>1, <4>2, <4>3, <4>4, WordsApart
      <4> QED
        BY <2>5, <4>2, <4>5
    <3>3. ins'[at[k] + 2] = ins[at[k] + 2]
      BY <1>2, <2>1, <3>2
    <3> QED
      BY <3>1, <3>3, OtherTarget
  <2> QED
    BY <2>4, <2>5
<1> QED
  BY <1>6, <1>7

LEMMA CloseBlockKeeps ==
    ASSUME Inv, CloseBlock
    PROVE  Inv'
<1> DEFINE n == Len(toks)
           m == Len(ins)
           j == Top.tok
           c == Settled(m)
<1>1. phase = "compiling" /\ Len(blocks) > 1 /\ Top.tag = "block" /\ Pop
  BY DEF CloseBlock, Reads
<1>2. n \in Nat /\ m \in Nat
  BY <1>1, Setting
<1>3. EndOfBlock(Len(ins), 0) = m
  BY <1>2 DEF EndOfBlock
<1>4. Reads(Brace, c) /\ pending' = {p \in pending : p[2] # Len(blocks)}
  BY <1>3 DEF CloseBlock, Settling
<1>5. c \in Codes /\ Len(c) = m
  BY <1>2, SettledIs
<1> HIDE DEF c
<1>6. /\ Grown(End(j)) /\ ins' = c /\ Braced(toks', n + 1)
      /\ toks'[n + 1] = End(j) /\ toks'[j] = toks[j]
      /\ EndOf(toks', j) = n + 1
  BY <1>1, <1>4, <1>5, BraceRead
<1>7. toks'[j].tag = "block" /\ Top.tag \in StrongTags
  BY <1>1, <1>6, BraceIs DEF StrongTags
<1>8. Width(toks', n + 1) = 0 /\ toks'[n + 1].tag = "close" /\ toks'[n + 1].data = j
  <2> HIDE DEF n, j
  <2>1. /\ toks'[n + 1].tag = "close" /\ toks'[n + 1].data = j
        /\ Width(toks', n + 1) = IF toks'[j].tag = "loop" THEN 2
                                 ELSE IF toks'[j].tag = "atomic" THEN 1 ELSE 0
    BY <1>6, BraceWidth
  <2> QED
    BY <1>7, <2>1
<1>9. /\ HasOp(toks', at', c, n + 1)
      /\ HasArg(toks', at', c, cells, n + 1)
  BY <1>7, <1>8 DEF HasOp, HasArg
<1>10. \A i \in 1 .. m : ins'[i] = Settled(Len(ins'))[i]
  BY <1>5, <1>6 DEF c
<1>11. /\ Patched(toks, at, ins, ins', m)
       /\ \A k \in 1 .. n : IsAhead(toks[k]) => HasTarget(toks', at', ins', k)
  BY <1>1, <1>2, <1>5, <1>6, <1>7, <1>10, SettledTargets
<1>12. Len(c) = m + Width(toks', n + 1)
  BY <1>2, <1>5, <1>8
<1> QED
  BY <1>1, <1>4, <1>5, <1>6, <1>7, <1>9, <1>11, <1>12, BraceKept

LEMMA CloseLoopKeeps ==
    ASSUME Inv, CloseLoop
    PROVE  Inv'
<1> DEFINE n == Len(toks)
           m == Len(ins)
           j == Top.tok
           b == Settled(m + 2)
           c == b \o <<Op("jump"), To(Top.at)>>
<1>1. phase = "compiling" /\ Len(blocks) > 1 /\ Top.tag = "loop" /\ Pop
  BY DEF CloseLoop, Reads
<1>2. n \in Nat /\ m \in Nat
  BY <1>1, Setting
<1>3. EndOfBlock(Len(ins), 2) = m + 2
  BY <1>2 DEF EndOfBlock
<1>4. Reads(Brace, c) /\ pending' = {p \in pending : p[2] # Len(blocks)}
  BY <1>3 DEF CloseLoop, Settling
<1>5. b \in Codes /\ Len(b) = m
  BY <1>2, SettledIs
<1>6. Top.at = at[j] /\ Top.tag = toks[j].tag /\ j \in 1 .. n
  BY <1>1, BraceIs
<1>7. Op("jump") \in Words /\ To(Top.at) \in Words
  <2>1. at \in Seq(Nat) /\ j \in 1 .. Len(at)
    BY <1>1, <1>2, <1>6, Setting DEF Inv, WellTyped, Places
  <2>2. Top.at \in Nat
    BY <1>6, <2>1, ElementOfSeq
  <2> QED
    BY <2>2, WordTypes DEF Ops
<1> HIDE DEF b
<1>8. /\ c \in Codes /\ Len(c) = m + 2
      /\ \A i \in 1 .. m : c[i] = b[i]
      /\ c[m + 1] = Op("jump") /\ c[m + 2] = To(Top.at)
  BY <1>5, <1>7, Emit2
<1> HIDE DEF c
<1>9. /\ Grown(End(j)) /\ ins' = c /\ Braced(toks', n + 1)
      /\ toks'[n + 1] = End(j) /\ toks'[j] = toks[j] /\ at'[j] = at[j]
      /\ EndOf(toks', j) = n + 1
  BY <1>1, <1>4, <1>8, BraceRead
<1>10. toks'[j].tag = "loop" /\ Top.tag \in StrongTags
  BY <1>1, <1>6, <1>9 DEF StrongTags
<1>11. Width(toks', n + 1) = 2 /\ toks'[n + 1].tag = "close" /\ toks'[n + 1].data = j
  <2> HIDE DEF n, j
  <2>1. /\ toks'[n + 1].tag = "close" /\ toks'[n + 1].data = j
        /\ Width(toks', n + 1) = IF toks'[j].tag = "loop" THEN 2
                                 ELSE IF toks'[j].tag = "atomic" THEN 1 ELSE 0
    BY <1>9, BraceWidth
  <2> QED
    BY <1>10, <2>1
<1>12. at'[n + 1] = m
  BY <1>9, NewToken
<1>13. /\ HasOp(toks', at', c, n + 1)
       /\ HasArg(toks', at', c, cells, n + 1)
  BY <1>6, <1>8, <1>9, <1>10, <1>11, <1>12 DEF HasOp, HasArg
<1>14. \A i \in 1 .. m : ins'[i] = Settled(Len(ins'))[i]
  BY <1>8, <1>9 DEF b
<1>15. Len(ins') \in Nat
  BY <1>2, <1>8, <1>9
<1>16. /\ Patched(toks, at, ins, ins', m)
       /\ \A k \in 1 .. n : IsAhead(toks[k]) => HasTarget(toks', at', ins', k)
  BY <1>1, <1>9, <1>10, <1>14, <1>15, SettledTargets
<1>17. Len(c) = m + Width(toks', n + 1)
  BY <1>8, <1>11
<1> QED
  BY <1>1, <1>4, <1>8, <1>9, <1>10, <1>13, <1>16, <1>17, BraceKept

LEMMA RefuseKeeps ==
    ASSUME Inv, Refuse
    PROVE  Inv'
<1>1. /\ toks' = toks /\ at' = at /\ ins' = ins /\ blocks' = blocks
      /\ pending' = pending /\ cells' = cells /\ offset' = offset
      /\ phase = "compiling" /\ phase' = "refused"
  BY DEF Refuse, compiler
<1>2. Extent' = Extent /\ ~Finished
  BY <1>1 DEF Extent, Finished
<1>3. Structure'
  BY <1>1, <1>2 DEF Inv, Structure
<1>4. InBlocks'
  BY <1>1, <1>2 DEF Inv, InBlocks
<1>5. WellTyped'
  BY <1>1 DEF Inv, WellTyped
<1> QED
  BY <1>3, <1>4, <1>5 DEF Inv

\* The end of the text: no block is open, and the jumps out of the whole text
\* go to the halt.
LEMMA FinishKeeps ==
    ASSUME Inv, Finish
    PROVE  Inv' /\ AtEnd'
<1> DEFINE n == Len(toks)
           m == Len(ins)
           b == Settled(m)
           c == b \o <<Op("halt")>>
<1>1. /\ phase = "compiling" /\ phase' = "compiled" /\ Len(blocks) = 1
      /\ blocks' = <<>> /\ pending' = {p \in pending : p[2] # Len(blocks)}
      /\ toks' = toks /\ at' = at /\ cells' = cells /\ offset' = offset
  BY DEF Finish, Settling
<1>2. /\ n \in Nat /\ m \in Nat /\ Len(at) = n + 1 /\ at[n + 1] = m
      /\ Braced(toks, n) /\ Laid(toks, at, m) /\ Coded(toks, at, ins, cells)
      /\ Stacked(toks, at, blocks) /\ Waiting(toks, at, blocks, pending)
      /\ Len(toks) = n
  BY <1>1, Setting
<1>3. ins' = c
  BY <1>2 DEF Finish, EndOfBlock
<1>4. /\ b \in Codes /\ Len(b) = m
      /\ \A i \in 1 .. m : b[i] = IF <<i, 1>> \in pending THEN To(m) ELSE ins[i]
  BY <1>1, <1>2, SettledIs
<1>5. Op("halt") \in Words
  BY WordTypes DEF Ops
<1> HIDE DEF b
<1>6. /\ c \in Codes /\ Len(c) = m + 1
      /\ \A i \in 1 .. m : c[i] = b[i]
      /\ c[m + 1] = Op("halt")
  <2> DEFINE w == Op("halt")
  <2> HIDE DEF w, m
  <2>1. /\ b \o <<w>> \in Codes /\ Len(b \o <<w>>) = Len(b) + 1
        /\ \A i \in 1 .. Len(b) : (b \o <<w>>)[i] = b[i]
        /\ (b \o <<w>>)[Len(b) + 1] = w
    BY <1>4, <1>5, Emit1 DEF w
  <2> QED
    BY <1>4, <2>1 DEF w
<1> HIDE DEF c
<1>7. Around(toks, n + 1) = {}
  <2> HIDE DEF n
  <2> QED
    BY <1>1, <1>2, TopInner
<1>8. blocks[1].tok = 0
  BY <1>2 DEF Stacked, Frame
<1>9. Extent' = m
  BY <1>1, <1>3, <1>6 DEF Extent, Finished
\* Only the jumps out of the whole text wait.
<1>10. ASSUME NEW i, <<i, 1>> \in pending
       PROVE  \E k \in 1 .. n : IsLeave(toks[k]) /\ i = at[k] + 2 /\ Home(toks, k) = 0
  <2>1. PICK k \in 1 .. n, d \in 1 .. Len(blocks) :
            /\ IsLeave(toks[k]) /\ blocks[d].tok = Home(toks, k)
            /\ <<i, 1>> = <<at[k] + 2, d>>
    BY <1>2, <1>10 DEF Waiting
  <2> QED
    BY <1>8, <2>1
<1>11. ASSUME NEW k \in 1 .. n
       PROVE  /\ Width(toks, k) > 0 => c[at[k] + 1] = ins[at[k] + 1]
              /\ Width(toks, k) = 2 /\ ~(IsLeave(toks[k]) /\ Home(toks, k) = 0)
                   => c[at[k] + 2] = ins[at[k] + 2]
              /\ IsLeave(toks[k]) /\ Home(toks, k) = 0 => c[at[k] + 2] = To(m)
  <2>1. /\ at[k] \in Nat /\ Width(toks, k) \in {0, 1, 2}
        /\ at[k + 1] = at[k] + Width(toks, k) /\ at[k + 1] <= m
    <3> HIDE DEF n, m
    <3> QED
      BY <1>2, WordsOf
  <2>2. ASSUME NEW i \in {at[k] + 1, at[k] + 2}, <<i, 1>> \in pending,
               i = at[k] + 1 => Width(toks, k) > 0,
               i = at[k] + 2 => Width(toks, k) = 2
        PROVE  i = at[k] + 2 /\ IsLeave(toks[k]) /\ Home(toks, k) = 0
    <3>1. PICK h \in 1 .. n : IsLeave(toks[h]) /\ i = at[h] + 2 /\ Home(toks, h) = 0
      BY <1>10, <2>2
    <3>2. Width(toks, h) = 2
      BY <3>1, AheadIs DEF IsAhead
    <3> HIDE DEF n, m
    <3>3. /\ Width(toks, k) > 0 => at[h] + 2 # at[k] + 1
          /\ Width(toks, k) = 2 /\ at[h] + 2 = at[k] + 2 => h = k
      BY <1>2, <3>2, WordsApart
    <3> QED
      BY <2>2, <3>1, <3>3
  <2>3. ASSUME Width(toks, k) > 0 PROVE c[at[k] + 1] = ins[at[k] + 1]
    <3>1. at[k] + 1 \in 1 .. m
      BY <1>2, <2>1, <2>3
    <3>2. ~(<<at[k] + 1, 1>> \in pending)
      BY <2>1, <2>2, <2>3
    <3> QED
      BY <1>4, <1>6, <3>1, <3>2
  <2>4. ASSUME Width(toks, k) = 2, ~(IsLeave(toks[k]) /\ Home(toks, k) = 0)
        PROVE  c[at[k] + 2] = ins[at[k] + 2]
    <3>1. at[k] + 2 \in 1 .. m
      BY <1>2, <2>1, <2>4
    <3>2. ~(<<at[k] + 2, 1>> \in pending)
      BY <2>1, <2>2, <2>4
    <3> QED
      BY <1>4, <1>6, <3>1, <3>2
  <2>5. ASSUME IsLeave(toks[k]), Home(toks, k) = 0 PROVE c[at[k] + 2] = To(m)
    <3>1. Width(toks, k) = 2
      BY <2>5, AheadIs DEF IsAhead
    <3>2. at[k] + 2 \in 1 .. m
      BY <1>2, <2>1, <3>1
    <3>3. ~Closed(toks, Home(toks, k))
      BY <2>5 DEF Closed
    <3>4. PICK d \in 1 .. Len(blocks) : <<at[k] + 2, d>> \in pending
      BY <1>2, <2>5, <3>3 DEF Waiting
    <3>5. d = 1
      BY <1>1
    <3> QED
      BY <1>4, <1>6, <3>2, <3>4, <3>5
  <2> QED
    BY <2>3, <2>4, <2>5
<1>12. ASSUME NEW k \in 1 .. n
       PROVE  HasOp(toks, at, c, k) /\ HasArg(toks, at, c, cells, k) /\ HasTarget(toks, at, c, k)
  <2>1. HasOp(toks, at, ins, k) /\ HasArg(toks, at, ins, cells, k) /\ HasTarget(toks, at, ins, k)
    BY <1>2 DEF Coded
  <2>2. /\ Width(toks, k) > 0 => c[at[k] + 1] = ins[at[k] + 1]
        /\ Width(toks, k) = 2 /\ ~(IsLeave(toks[k]) /\ Home(toks, k) = 0)
             => c[at[k] + 2] = ins[at[k] + 2]
    BY <1>11
  <2>3. HasOp(toks, at, c, k)
    BY <2>1, <2>2 DEF HasOp, Width
  <2>4. HasArg(toks, at, c, cells, k)
    BY <2>1, <2>2 DEF HasArg, Width, IsLeave
  <2>5. HasTarget(toks, at, c, k)
    BY <2>1, <2>2 DEF HasTarget, Width, IsLeave, Closed
  <2> QED
    BY <2>3, <2>4, <2>5
<1>13. Structure'
  <2>1. Coded(toks, at, c, cells)
    BY <1>12 DEF Coded
  <2> QED
    BY <1>1, <1>2, <1>3, <1>9, <2>1 DEF Structure
<1>14. WellTyped'
  <2>1. /\ toks \in Texts /\ at \in Places /\ Len(at) = Len(toks) + 1
        /\ cells \in Heaps /\ offset \in Nat
    BY DEF Inv, WellTyped
  <2>2. <<>> \in Stacks
    BY DEF Stacks
  <2> QED
    BY <1>1, <1>3, <1>6, <2>1, <2>2 DEF WellTyped
<1>15. Inv'
  <2>1. InBlocks'
    BY <1>1 DEF InBlocks, Finished
  <2> QED
    BY <1>13, <1>14, <2>1 DEF Inv
<1>16. pending' = {}
  <2>1. \A w \in pending : w[2] = 1
    <3>1. ASSUME NEW w \in pending PROVE w[2] = 1
      <4>1. PICK k \in 1 .. n, d \in 1 .. Len(blocks) : w = <<at[k] + 2, d>>
        BY <1>2 DEF Waiting
      <4> QED
        BY <1>1, <4>1
    <3> QED
      BY <3>1
  <2> QED
    BY <1>1, <2>1
<1>17. AtEnd'
  <2>1. c[Len(c)] = Op("halt")
    BY <1>6
  <2>2. \A k \in 1 .. n : IsLeave(toks[k]) /\ Home(toks, k) = 0
                          => c[at[k] + 2] = To(at[n + 1])
    BY <1>2, <1>11
  <2> QED
    BY <1>1, <1>2, <1>3, <1>7, <1>16, <2>1, <2>2 DEF AtEnd
<1> QED
  BY <1>15, <1>17

LEMMA CompilerStarts ==
    ASSUME CompilerInit
    PROVE  Inv /\ AtEnd
<1>1. /\ toks = <<>> /\ at = <<0>> /\ ins = <<>> /\ pending = {}
      /\ blocks = <<Frame("block", 0, 1, 0)>>
      /\ cells = <<>> /\ offset = 0 /\ phase = "compiling"
  BY DEF CompilerInit
<1>2. /\ Len(toks) = 0 /\ Len(at) = 1 /\ at[1] = 0 /\ Len(ins) = 0
      /\ Len(blocks) = 1 /\ blocks[1] = Frame("block", 0, 1, 0)
  BY <1>1
<1>3. WellTyped
  <2>1. toks \in Texts /\ at \in Places /\ ins \in Codes /\ cells \in Heaps
    BY <1>1 DEF Texts, Places, Codes, Heaps
  <2>2. Frame("block", 0, 1, 0) \in Frames
    BY DEF Frame, Frames, BlockTags, StrongTags
  <2>3. blocks \in Stacks
    BY <1>1, <2>2 DEF Stacks
  <2> QED
    BY <1>1, <1>2, <2>1, <2>3 DEF WellTyped
<1>4. ~Finished
  BY <1>1 DEF Finished
<1>5. Around(toks, 1) = {}
  BY DEF Around
<1>6. Structure
  <2>1. Braced(toks, 0) /\ Coded(toks, at, ins, cells)
    BY <1>2 DEF Braced, Coded
  <2>2. Laid(toks, at, 0)
    BY <1>2 DEF Laid
  <2> QED
    BY <1>2, <1>4, <2>1, <2>2 DEF Structure, Extent
<1>7. InBlocks
  <2>1. Homed(blocks, 1)
    BY <1>2 DEF Homed, Frame, StrongTags
  <2>2. Stacked(toks, at, blocks)
    BY <1>2, <1>5, <2>1 DEF Stacked
  <2>3. Waiting(toks, at, blocks, pending)
    BY <1>1, <1>2 DEF Waiting
  <2> QED
    BY <2>2, <2>3 DEF InBlocks
<1> QED
  BY <1>3, <1>4, <1>6, <1>7 DEF Inv, AtEnd

-----------------------------------------------------------------------------
(* The text that runs                                                      *)

\* The program is at a token that has code, and the instruction pointer at
\* that code.  In a tidy program the I flag is off exactly in atomic blocks.
Execution ==
    /\ phase = "running" =>
         /\ code = Relocated(ins, CODE_LOC) /\ heap = Heap(cells)
         /\ pos \in 1 .. Len(toks) + 1 /\ ~Silent(pos)
         /\ y = CODE_LOC + 2 * at[pos]
         /\ iflag \in BOOLEAN /\ done \in BOOLEAN
         /\ Tidy => (iflag <=> ~InAtomic(pos))
    /\ phase # "running" =>
         /\ code = <<>> /\ heap = <<>>
         /\ y = CODE_LOC /\ iflag = TRUE /\ pos = 1 /\ done = FALSE

\* What is known of a compiled text.
LEMMA Compiled ==
    ASSUME Inv, AtEnd, Finished
    PROVE  /\ Len(toks) \in Nat /\ Len(ins) \in Nat /\ Len(ins) > 0
           /\ Len(at) = Len(toks) + 1 /\ at[Len(toks) + 1] = Len(ins) - 1
           /\ at[1] = 0
           /\ \A k \in 1 .. Len(toks) + 1 : at[k] \in Nat
           /\ Braced(toks, Len(toks)) /\ Laid(toks, at, Len(ins) - 1)
           /\ Coded(toks, at, ins, cells)
           /\ Around(toks, Len(toks) + 1) = {}
           /\ ins[Len(ins)] = Op("halt")
<1>1. Len(toks) \in Nat /\ Len(ins) \in Nat
  BY Lengths DEF Inv, WellTyped
<1>2. Laid(toks, at, Len(ins) - 1) /\ Braced(toks, Len(toks)) /\ Coded(toks, at, ins, cells)
  BY DEF Inv, Structure, Extent
<1>3. /\ Len(at) = Len(toks) + 1 /\ at[Len(toks) + 1] = Len(ins) - 1
      /\ at[1] = 0
      /\ \A k \in 1 .. Len(toks) + 1 : at[k] \in Nat
  BY <1>2 DEF Laid
<1>4. Len(toks) + 1 \in 1 .. Len(toks) + 1
  BY <1>1
<1>5. Len(ins) - 1 \in Nat
  BY <1>3, <1>4
<1>6. Len(ins) > 0
  BY <1>1, <1>5
<1> QED
  BY <1>1, <1>2, <1>3, <1>6 DEF AtEnd

\* The tokens of a text.
LEMMA TagIs ==
    ASSUME Inv, NEW k \in 1 .. Len(toks)
    PROVE  /\ Tag(k) = toks[k].tag
           /\ toks[k].tag \in LeafTags \cup BlockTags \cup {"close"}
           /\ toks[k].tag = "close" =>
                /\ toks[k].data \in Around(toks, k) /\ toks[k].data \in 1 .. k - 1
                /\ Closes(k) \in BlockTags
                /\ toks[k] = End(toks[k].data)
<1>1. Len(toks) \in Nat /\ Braced(toks, Len(toks))
  BY Lengths DEF Inv, WellTyped, Structure
<1>2. Tag(k) = toks[k].tag
  BY <1>1 DEF Tag
<1>3. toks[k] \in TokenSet
  <2>1. toks \in Seq(TokenSet)
    BY DEF Inv, WellTyped, Texts
  <2> QED
    BY <2>1, ElementOfSeq
<1>4. toks[k].tag \in LeafTags \cup BlockTags \cup {"close"}
  <2>1. CASE toks[k] \in Tokens
    BY <2>1, TokenIs
  <2>2. CASE \E j \in Nat : toks[k] = End(j)
    BY <2>2 DEF End
  <2> QED
    BY <1>3, <2>1, <2>2 DEF TokenSet
<1>5. ASSUME toks[k].tag = "close"
      PROVE  /\ toks[k].data \in Around(toks, k) /\ toks[k].data \in 1 .. k - 1
             /\ Closes(k) \in BlockTags
             /\ toks[k] = End(toks[k].data)
  <2>1. toks[k].data \in Around(toks, k) /\ toks[k] = End(toks[k].data)
    BY <1>1, <1>5 DEF Braced
  <2> QED
    BY <2>1 DEF Around, Closes
<1> QED
  BY <1>2, <1>4, <1>5

\* A token without code leaves things as they are.
LEMMA SilentNext ==
    ASSUME Inv, AtEnd, Finished, NEW k \in 1 .. Len(toks) + 1, Silent(k)
    PROVE  /\ k \in 1 .. Len(toks)
           /\ at[k + 1] = at[k]
           /\ InAtomic(k + 1) <=> InAtomic(k)
<1>1. /\ Len(toks) \in Nat /\ Braced(toks, Len(toks))
      /\ Laid(toks, at, Len(ins) - 1)
      /\ \A i \in 1 .. Len(toks) + 1 : at[i] \in Nat
  BY Compiled
<1>2. k \in 1 .. Len(toks)
  <2>1. k > Len(toks) => Tag(k) = "halt"
    BY DEF Tag
  <2> QED
    BY <1>1, <2>1 DEF Silent, StrongTags
<1>3. /\ Tag(k) = toks[k].tag
      /\ toks[k].tag = "close" => toks[k].data \in Around(toks, k)
  BY <1>2, TagIs
<1>4. Width(toks, k) = 0
  BY <1>3 DEF Silent, Width, StrongTags, Closes
<1>5. at[k + 1] = at[k]
  BY <1>1, <1>2, <1>4 DEF Laid
<1>6. CASE Tag(k) \in StrongTags
  <2>1. toks[k].tag \in BlockTags /\ toks[k].tag # "atomic"
    BY <1>3, <1>6 DEF BlockTags, StrongTags
  <2>2. Around(toks, k + 1) = Around(toks, k) \cup {k}
    BY <1>1, <1>2, <2>1, AroundOpener
  <2> QED
    BY <1>2, <1>5, <2>1, <2>2 DEF InAtomic
<1>7. CASE Tag(k) = "close" /\ Closes(k) \in {"if", "block"}
  <2>1. Around(toks, k + 1) = Around(toks, k) \ {toks[k].data}
    BY <1>1, <1>2, <1>3, <1>7, AroundBrace
  <2>2. toks[toks[k].data].tag # "atomic"
    BY <1>7 DEF Closes
  <2> QED
    BY <1>2, <1>5, <2>1, <2>2 DEF InAtomic
<1> QED
  BY <1>6, <1>7 DEF Silent

\* So does going on to the first token that has code.
LEMMA SettleIs ==
    ASSUME Inv, AtEnd, Finished, NEW p \in 1 .. Len(toks) + 1
    PROVE  /\ Settle(p) \in 1 .. Len(toks) + 1 /\ ~Silent(Settle(p))
           /\ at[Settle(p)] = at[p]
           /\ InAtomic(Settle(p)) <=> InAtomic(p)
<1> DEFINE n == Len(toks)
           S == {q \in p .. n + 1 : ~Silent(q)}
           s == Settle(p)
<1>1. n \in Nat
  BY Compiled
<1>2. n + 1 \in 1 .. n + 1 /\ n + 1 \in p .. n + 1 /\ S \subseteq Nat
  BY <1>1
<1>3. ~Silent(n + 1)
  <2>1. ~(n + 1 \in 1 .. Len(toks))
    BY <1>1
  <2> QED
    BY <1>2, <2>1, SilentNext
<1>4. S # {}
  BY <1>2, <1>3
<1>5. s = Min(S)
  BY DEF Settle
<1>6. s \in S /\ \A z \in S : s <= z
  <2> HIDE DEF S
  <2> QED
    BY <1>2, <1>4, <1>5, MinIs
<1>7. s \in p .. n + 1 /\ ~Silent(s) /\ \A q \in p .. n + 1 : q < s => Silent(q)
  BY <1>1, <1>6
<1> HIDE DEF S, s
<1> DEFINE T == {i \in Nat : p + i <= s => at[p + i] = at[p]
                                           /\ (InAtomic(p + i) <=> InAtomic(p))}
<1>8. 0 \in T
  OBVIOUS
<1>9. ASSUME NEW i \in Nat, i \in T PROVE i + 1 \in T
  <2>1. SUFFICES ASSUME p + (i + 1) <= s
                 PROVE  /\ at[p + (i + 1)] = at[p]
                        /\ InAtomic(p + (i + 1)) <=> InAtomic(p)
    OBVIOUS
  <2> DEFINE q == p + i
  <2>2. q \in p .. n + 1 /\ q \in 1 .. n + 1 /\ q < s /\ q + 1 = p + (i + 1) /\ q <= s
    BY <1>1, <1>7, <2>1
  <2>3. at[q] = at[p] /\ (InAtomic(q) <=> InAtomic(p))
    BY <1>9, <2>2
  <2>4. Silent(q)
    BY <1>7, <2>2
  <2> HIDE DEF q
  <2>5. at[q + 1] = at[q] /\ (InAtomic(q + 1) <=> InAtomic(q))
    BY <2>2, <2>4, SilentNext
  <2> QED
    BY <2>2, <2>3, <2>5
<1>10. \A i \in Nat : i \in T
  <2> HIDE DEF T
  <2> QED
    BY <1>8, <1>9, NatSet
<1>11. s - p \in Nat /\ p + (s - p) = s /\ s <= s
  BY <1>1, <1>7
<1>12. at[s] = at[p] /\ (InAtomic(s) <=> InAtomic(p))
  <2>1. s - p \in T
    BY <1>10, <1>11, Zenon
  <2>2. at[p + (s - p)] = at[p] /\ (InAtomic(p + (s - p)) <=> InAtomic(p))
    BY <1>11, <2>1
  <2> QED
    BY <1>11, <2>2
<1> QED
  BY <1>1, <1>7, <1>12 DEF s

\* The words of the code as it is loaded.
LEMMA LoadedWords ==
    ASSUME Inv, NEW i \in 1 .. Len(ins)
    PROVE  LET c == Relocated(ins, CODE_LOC)
           IN  /\ Len(c) = Len(ins)
               /\ c[i].op = ins[i].op
               /\ ins[i].op = "code" => c[i] = To(CODE_LOC + 2 * ins[i].arg)
               /\ ins[i].op = "heap"
                    => c[i] = HeapAt(CODE_LOC + 2 * Len(ins) + ins[i].arg)
               /\ ~(ins[i].op \in {"code", "heap"}) => c[i] = ins[i]
<1> DEFINE c == Relocated(ins, CODE_LOC)
<1>1. Len(ins) \in Nat
  BY Lengths DEF Inv, WellTyped
<1>2. Len(c) = Len(ins)
  BY <1>1 DEF Relocated
<1>3. c[i] = CASE ins[i].op = "code" -> To(CODE_LOC + 2 * ins[i].arg)
               [] ins[i].op = "heap" -> HeapAt(CODE_LOC + 2 * Len(ins) + ins[i].arg)
               [] OTHER -> ins[i]
  BY DEF Relocated
<1> HIDE DEF c
<1>4. /\ ins[i].op = "code" => c[i] = To(CODE_LOC + 2 * ins[i].arg)
      /\ ins[i].op = "heap" => c[i] = HeapAt(CODE_LOC + 2 * Len(ins) + ins[i].arg)
      /\ ~(ins[i].op \in {"code", "heap"}) => c[i] = ins[i]
  BY <1>3
<1>5. c[i].op = ins[i].op
  BY <1>4 DEF To, HeapAt
<1> QED
  BY <1>2, <1>4, <1>5 DEF c

LEMMA WordAtIs ==
    ASSUME NEW i \in Nat, NEW a, a = CODE_LOC + 2 * i
    PROVE  WordAt(a) = code[i + 1]
<1>1. CODE_LOC \in Nat
  BY TaskCodeAssumption
<1>2. a - CODE_LOC = 2 * i /\ (2 * i) \div 2 = i
  BY <1>1
<1> QED
  BY <1>2 DEF WordAt

\* The first word of a token that has code does what the token says, and is
\* no operand.
LEMMA OpIs ==
    ASSUME Inv, AtEnd, Finished, NEW k \in 1 .. Len(toks) + 1, ~Silent(k)
    PROVE  /\ at[k] \in Nat /\ at[k] + 1 \in 1 .. Len(ins)
           /\ ins[at[k] + 1].op = OpFor(k) /\ ~(OpFor(k) \in Operands)
           /\ OpFor(k) \in Ops
           /\ k \in 1 .. Len(toks) \/ (k = Len(toks) + 1 /\ OpFor(k) = "halt")
           /\ k \in 1 .. Len(toks) =>
                /\ at[k + 1] = at[k] + Width(toks, k)
                /\ Width(toks, k) \in {1, 2}
                /\ at[k] + Width(toks, k) < Len(ins)
<1> DEFINE n == Len(toks)
           m == Len(ins) - 1
<1>1. /\ n \in Nat /\ m \in Nat /\ at[n + 1] = m
      /\ Laid(toks, at, m) /\ Coded(toks, at, ins, cells)
      /\ \A i \in 1 .. n + 1 : at[i] \in Nat
      /\ ins[m + 1] = Op("halt") /\ Len(ins) = m + 1 /\ Len(toks) = n
  BY Compiled
<1>2. CASE k = n + 1
  <2>1. Tag(k) = "halt"
    BY <1>1, <1>2 DEF Tag
  <2>2. OpFor(k) = "halt"
    BY <2>1 DEF OpFor
  <2>3. ins[at[k] + 1].op = "halt"
    BY <1>1, <1>2 DEF Op
  <2>4. ~("halt" \in Operands) /\ "halt" \in Ops
    BY DEF Operands, Ops
  <2> QED
    BY <1>1, <1>2, <2>2, <2>3, <2>4
<1>3. CASE k \in 1 .. n
  <2>1. /\ Tag(k) = toks[k].tag
        /\ toks[k].tag \in LeafTags \cup BlockTags \cup {"close"}
        /\ toks[k].tag = "close" => Closes(k) \in BlockTags
    BY <1>3, TagIs
  <2>2. Closes(k) = toks[toks[k].data].tag
    BY DEF Closes
  <2>3. /\ ~(toks[k].tag \in StrongTags)
        /\ toks[k].tag = "close" => Closes(k) \in {"loop", "atomic"}
    BY <2>1 DEF Silent, BlockTags, StrongTags
  <2>4. toks[k].tag \in LeafTags \cup {"if", "atomic", "close"}
    BY <2>1, <2>3 DEF BlockTags
  <2>5. Width(toks, k) \in {1, 2}
    BY <2>2, <2>3, <2>4 DEF Width, LeafTags
  <2>6. HasOp(toks, at, ins, k)
    BY <1>1, <1>3 DEF Coded
  <2>7. ins[at[k] + 1].op = OpFor(k)
    BY <2>1, <2>2, <2>3, <2>4, <2>6 DEF HasOp, OpFor, Op, Builtin, LeafTags
  <2>8. ~(OpFor(k) \in Operands) /\ OpFor(k) \in Ops
    BY <2>1, <2>3, <2>4 DEF OpFor, Operands, Ops, LeafTags
  <2>9. at[k] \in Nat /\ at[k + 1] = at[k] + Width(toks, k) /\ at[k + 1] <= m
    <3> HIDE DEF n, m
    <3> QED
      BY <1>1, <1>3, WordsOf
  <2>10. at[k] + 1 \in 1 .. Len(ins) /\ at[k] + Width(toks, k) < Len(ins)
    BY <1>1, <2>5, <2>9
  <2> QED
    BY <1>3, <2>5, <2>7, <2>8, <2>9, <2>10
<1> QED
  BY <1>1, <1>2, <1>3

\* Which tokens an instruction stands for.
LEMMA OpTags ==
    ASSUME Inv, AtEnd, Finished, NEW k \in 1 .. Len(toks) + 1, ~Silent(k)
    PROVE  /\ OpFor(k) # "halt" => k \in 1 .. Len(toks)
           /\ OpFor(k) = "builtin" => toks[k].tag = "builtin"
           /\ OpFor(k) \in {"literal", "store", "load"}
                => toks[k].tag \in {"int", "string", "store", "load"}
           /\ OpFor(k) = "jumpif" => toks[k].tag = "if"
           /\ OpFor(k) = "jumpifnot" => toks[k].tag = "while"
           /\ OpFor(k) = "jump"
                => \/ toks[k].tag \in {"continue", "break"}
                   \/ toks[k].tag = "close" /\ Closes(k) = "loop"
           /\ OpFor(k) = "atomic" => toks[k].tag = "atomic"
           /\ OpFor(k) = "end_atomic" => toks[k].tag = "close" /\ Closes(k) = "atomic"
<1>1. k \in 1 .. Len(toks) \/ (k = Len(toks) + 1 /\ OpFor(k) = "halt")
  BY OpIs
<1>2. CASE k \in 1 .. Len(toks)
  <2>1. /\ Tag(k) = toks[k].tag
        /\ toks[k].tag \in LeafTags \cup BlockTags \cup {"close"}
        /\ toks[k].tag = "close" => Closes(k) \in BlockTags
    BY <1>2, TagIs
  <2>2. /\ ~(toks[k].tag \in StrongTags)
        /\ toks[k].tag = "close" => Closes(k) \in {"loop", "atomic"}
    BY <2>1 DEF Silent, BlockTags, StrongTags
  <2>3. toks[k].tag \in LeafTags \cup {"if", "atomic", "close"}
    BY <2>1, <2>2 DEF BlockTags
  <2> QED
    BY <1>2, <2>1, <2>2, <2>3 DEF OpFor, LeafTags
<1>3. CASE OpFor(k) = "halt" /\ k = Len(toks) + 1
  BY <1>3
<1> QED
  BY <1>1, <1>2, <1>3

\* The targets of the jumps, and that nothing atomic lies between.
LEMMA IfTarget ==
    ASSUME Inv, AtEnd, Finished, NEW k \in 1 .. Len(toks), toks[k].tag = "if"
    PROVE  LET p == EndOf(toks, k) + 1
           IN  /\ p \in 1 .. Len(toks) + 1
               /\ ins[at[k] + 2] = To(at[p])
               /\ InAtomic(p) <=> InAtomic(k)
<1> DEFINE n == Len(toks)
           c == EndOf(toks, k)
<1>1. /\ n \in Nat /\ Laid(toks, at, Len(ins) - 1) /\ Coded(toks, at, ins, cells)
      /\ Braced(toks, n) /\ Around(toks, n + 1) = {}
      /\ \A i \in 1 .. n + 1 : at[i] \in Nat
  BY Compiled
<1>2. c \in 1 .. n /\ toks[c] = End(k)
  BY <1>1, ClosedIs DEF BlockTags
<1>3. toks[c].tag = "close" /\ toks[c].data = k
  BY <1>2 DEF End
<1>4. Closed(toks, k)
  BY <1>2 DEF Closed
<1> HIDE DEF c
<1>5. ins[at[k] + 2] = To(at[c])
  BY <1>1, <1>4 DEF Coded, HasTarget, c
<1>6. Width(toks, c) = 0
  BY <1>3 DEF Width
<1>7. at[c + 1] = at[c]
  BY <1>1, <1>2, <1>6 DEF Laid
<1>8. Around(toks, c + 1) = Around(toks, k)
  BY <1>1, <1>2, <1>3, AroundClosed
<1>9. InAtomic(c + 1) <=> InAtomic(k)
  BY <1>8 DEF InAtomic
<1>10. c + 1 \in 1 .. n + 1
  BY <1>1, <1>2
<1> QED
  BY <1>5, <1>7, <1>9, <1>10 DEF c

\* What a token's home is, in a text whose blocks are all closed.
LEMMA HomeEnds ==
    ASSUME Inv, AtEnd, Finished, NEW k \in 1 .. Len(toks)
    PROVE  LET h == Home(toks, k)
           IN  /\ h \in 0 .. k - 1
               /\ h # 0 => /\ h \in 1 .. Len(toks) /\ h \in Around(toks, k)
                           /\ toks[h].tag \in StrongTags
                           /\ EndOf(toks, h) \in 1 .. Len(toks)
                           /\ toks[EndOf(toks, h)] = End(h)
               /\ h = 0 => EndOf(toks, h) = Len(toks)
<1> DEFINE n == Len(toks)
           h == Home(toks, k)
<1>1. n \in Nat /\ Braced(toks, n) /\ Around(toks, n + 1) = {}
  BY Compiled
<1>2. k \in Nat
  OBVIOUS
<1>3. /\ h = 0 \/ (h \in Around(toks, k) /\ toks[h].tag \in StrongTags)
      /\ h \in Nat /\ (h # 0 => h \in 1 .. k - 1)
  BY <1>2, HomeIs, HomeType
<1> HIDE DEF h
<1>4. CASE h = 0
  BY <1>1, <1>4 DEF h, EndOf
<1>5. CASE h # 0
  <2>1. h \in 1 .. n /\ h \in Around(toks, k) /\ toks[h].tag \in BlockTags
    BY <1>1, <1>3, <1>5 DEF BlockTags
  <2>2. EndOf(toks, h) \in 1 .. n /\ toks[EndOf(toks, h)] = End(h)
    BY <1>1, <2>1, ClosedIs
  <2> QED
    BY <1>3, <1>5, <2>1, <2>2 DEF h
<1> QED
  BY <1>4, <1>5

\* A jump out of a block, or back to its start, leaves no atomic block in a
\* tidy program.
LEMMA TidyJump ==
    ASSUME Inv, AtEnd, Finished, NEW k \in 1 .. Len(toks), Tidy,
           toks[k].tag \in {"while", "break", "continue"}
    PROVE  LET h == Home(toks, k)
           IN  InAtomic(k) <=> (h # 0 /\ InAtomic(h))
<1> DEFINE n == Len(toks)
           h == Home(toks, k)
<1>1. n \in Nat /\ Braced(toks, n)
  BY Compiled
<1>2. \A j \in Around(toks, k) : toks[j].tag = "atomic" => j < h
  BY TagIs DEF Tidy
<1>3. CASE h = 0
  <2>1. \A j \in Around(toks, k) : j \in Nat
    BY AroundIs
  <2>2. ~InAtomic(k)
    BY <1>2, <1>3, <2>1 DEF InAtomic
  <2> QED
    BY <1>3, <2>2
<1>4. CASE h # 0
  <2>1. h \in Around(toks, k) /\ k \in 1 .. n + 1
    BY <1>1, <1>4, HomeEnds
  <2> HIDE DEF h
  <2>2. \A j : j \in Around(toks, h) <=> j \in Around(toks, k) /\ j < h
    BY <1>1, <2>1, AroundNests
  <2>3. InAtomic(k) <=> InAtomic(h)
    BY <1>2, <2>2 DEF InAtomic
  <2> QED
    BY <1>4, <2>3 DEF h
<1> QED
  BY <1>3, <1>4

LEMMA LeaveTarget ==
    ASSUME Inv, AtEnd, Finished, NEW k \in 1 .. Len(toks), IsLeave(toks[k])
    PROVE  LET p == EndOf(toks, Home(toks, k)) + 1
           IN  /\ p \in 1 .. Len(toks) + 1
               /\ ins[at[k] + 2] = To(at[p])
               /\ Tidy => (InAtomic(p) <=> InAtomic(k))
<1> DEFINE n == Len(toks)
           h == Home(toks, k)
           c == EndOf(toks, h)
<1>1. /\ n \in Nat /\ Coded(toks, at, ins, cells)
      /\ Braced(toks, n) /\ Around(toks, n + 1) = {}
  BY Compiled
<1>2. toks[k].tag \in {"while", "break", "continue"}
  BY DEF IsLeave
<1>3. Tidy => (InAtomic(k) <=> (h # 0 /\ InAtomic(h)))
  BY <1>2, TidyJump
<1>4. CASE h = 0
  <2>1. c = n
    BY <1>4, HomeEnds
  <2>2. ins[at[k] + 2] = To(at[n + 1])
    BY <1>4 DEF AtEnd
  <2>3. ~InAtomic(n + 1)
    BY <1>1 DEF InAtomic
  <2> QED
    BY <1>1, <1>3, <1>4, <2>1, <2>2, <2>3
<1>5. CASE h # 0
  <2>1. c \in 1 .. n /\ toks[c] = End(h)
    BY <1>5, HomeEnds
  <2>2. toks[c].tag = "close" /\ toks[c].data = h
    BY <2>1 DEF End
  <2>3. Closed(toks, h)
    BY <1>5, <2>1 DEF Closed
  <2>4. ins[at[k] + 2] = To(at[c + 1])
    BY <1>1, <2>3 DEF Coded, HasTarget
  <2> HIDE DEF h, c
  <2>5. Around(toks, c + 1) = Around(toks, h)
    BY <1>1, <2>1, <2>2, AroundClosed
  <2>6. InAtomic(c + 1) <=> InAtomic(h)
    BY <2>5 DEF InAtomic
  <2>7. c + 1 \in 1 .. n + 1
    BY <1>1, <2>1
  <2> QED
    BY <1>3, <1>5, <2>4, <2>6, <2>7 DEF c, h
<1> QED
  BY <1>4, <1>5

LEMMA ContinueTarget ==
    ASSUME Inv, AtEnd, Finished, NEW k \in 1 .. Len(toks), toks[k].tag = "continue"
    PROVE  LET p == Home(toks, k) + 1
           IN  /\ p \in 1 .. Len(toks) + 1
               /\ ins[at[k] + 2] = To(at[p])
               /\ Tidy => (InAtomic(p) <=> InAtomic(k))
<1> DEFINE n == Len(toks)
           h == Home(toks, k)
<1>1. /\ n \in Nat /\ Coded(toks, at, ins, cells) /\ Braced(toks, n)
      /\ Laid(toks, at, Len(ins) - 1) /\ at[1] = 0
  BY Compiled
<1>2. Tidy => (InAtomic(k) <=> (h # 0 /\ InAtomic(h)))
  BY TidyJump
<1>3. ins[at[k] + 2] = To(Start(at, h))
  BY <1>1 DEF Coded, HasArg
<1>4. CASE h = 0
  <2>1. Start(at, h) = at[h + 1] /\ h + 1 \in 1 .. n + 1 /\ h + 1 = 1
    BY <1>1, <1>4 DEF Start
  <2>2. ~InAtomic(1)
    BY DEF InAtomic, Around
  <2> QED
    BY <1>2, <1>3, <1>4, <2>1, <2>2
<1>5. CASE h # 0
  <2>1. h \in 1 .. n /\ toks[h].tag \in StrongTags
    BY <1>5, HomeEnds
  <2> HIDE DEF h
  <2>2. Width(toks, h) = 0 /\ toks[h].tag \in BlockTags /\ toks[h].tag # "atomic"
    BY <2>1 DEF Width, StrongTags, BlockTags
  <2>3. at[h + 1] = at[h] /\ Start(at, h) = at[h] /\ h + 1 \in 1 .. n + 1
    <3>1. at[h + 1] = at[h] + Width(toks, h) /\ at[h] \in Nat
      BY <1>1, <2>1 DEF Laid
    <3> QED
      BY <1>1, <1>5, <2>1, <2>2, <3>1 DEF Start
  <2>4. Around(toks, h + 1) = Around(toks, h) \cup {h}
    BY <1>1, <2>1, <2>2, AroundOpener
  <2>5. InAtomic(h + 1) <=> InAtomic(h)
    BY <2>2, <2>4 DEF InAtomic
  <2> QED
    BY <1>2, <1>3, <1>5, <2>3, <2>5 DEF h
<1> QED
  BY <1>4, <1>5

LEMMA RepeatTarget ==
    ASSUME Inv, AtEnd, Finished, NEW k \in 1 .. Len(toks),
           toks[k].tag = "close", Closes(k) = "loop"
    PROVE  LET p == toks[k].data + 1
           IN  /\ p \in 1 .. Len(toks) + 1
               /\ ins[at[k] + 2] = To(at[p])
               /\ InAtomic(p) <=> InAtomic(k)
<1> DEFINE n == Len(toks)
           h == toks[k].data
<1>1. /\ n \in Nat /\ Coded(toks, at, ins, cells) /\ Braced(toks, n)
      /\ Laid(toks, at, Len(ins) - 1)
  BY Compiled
<1>2. /\ h \in Around(toks, k) /\ h \in 1 .. n /\ toks[h].tag = "loop"
      /\ \A j \in Around(toks, k) : j <= h
  BY <1>1, TagIs DEF Braced, Closes
<1>3. ins[at[k] + 2] = To(at[h])
  BY <1>1, <1>2 DEF Coded, HasArg
<1> HIDE DEF h
<1>4. Width(toks, h) = 0 /\ toks[h].tag \in BlockTags
  BY <1>2 DEF Width, StrongTags, BlockTags
<1>5. at[h + 1] = at[h] /\ h + 1 \in 1 .. n + 1
  <2>1. at[h + 1] = at[h] + Width(toks, h) /\ at[h] \in Nat
    BY <1>1, <1>2 DEF Laid
  <2> QED
    BY <1>1, <1>2, <1>4, <2>1
<1>6. Around(toks, h + 1) = Around(toks, k)
  <2>1. Around(toks, h + 1) = Around(toks, h) \cup {h}
    BY <1>1, <1>2, <1>4, AroundOpener
  <2>2. k \in 1 .. n + 1
    BY <1>1
  <2>3. \A j : j \in Around(toks, h) <=> j \in Around(toks, k) /\ j < h
    BY <1>1, <1>2, <2>2, AroundNests
  <2>4. \A j \in Around(toks, k) : j \in Nat
    BY AroundIs
  <2>5. \A j \in Around(toks, k) : j < h \/ j = h
    BY <1>2, <2>4
  <2>6. ASSUME NEW j PROVE j \in Around(toks, h + 1) <=> j \in Around(toks, k)
    BY <1>2, <2>1, <2>3, <2>5
  <2> QED
    BY <2>6
<1>7. InAtomic(h + 1) <=> InAtomic(k)
  BY <1>6 DEF InAtomic
<1> QED
  BY <1>3, <1>5, <1>7 DEF h

\* Where the instruction pointer is.
LEMMA Here ==
    ASSUME Inv, AtEnd, Execution, phase = "running"
    PROVE  /\ pos \in 1 .. Len(toks) + 1 /\ ~Silent(pos) /\ Finished
           /\ y = CODE_LOC + 2 * at[pos] /\ at[pos] \in Nat /\ CODE_LOC \in Nat
           /\ Len(code) = Len(ins)
           /\ WordAt(y).op = OpFor(pos)
           /\ WordAt(y) = code[at[pos] + 1]
           /\ pos \in 1 .. Len(toks) /\ Width(toks, pos) = 2
                => /\ at[pos] + 2 \in 1 .. Len(ins)
                   /\ Operand = code[at[pos] + 2].arg
<1>1. /\ code = Relocated(ins, CODE_LOC)
      /\ pos \in 1 .. Len(toks) + 1 /\ ~Silent(pos) /\ Finished
      /\ y = CODE_LOC + 2 * at[pos]
  BY DEF Execution, Finished
<1>2. /\ at[pos] \in Nat /\ at[pos] + 1 \in 1 .. Len(ins)
      /\ ins[at[pos] + 1].op = OpFor(pos)
      /\ pos \in 1 .. Len(toks) =>
           /\ at[pos + 1] = at[pos] + Width(toks, pos)
           /\ at[pos] + Width(toks, pos) < Len(ins)
  BY <1>1, OpIs
<1>3. CODE_LOC \in Nat /\ Len(ins) \in Nat
  BY <1>1, TaskCodeAssumption, Compiled
<1>4. Len(code) = Len(ins) /\ code[at[pos] + 1].op = ins[at[pos] + 1].op
  BY <1>1, <1>2, LoadedWords
<1>5. WordAt(y) = code[at[pos] + 1]
  BY <1>1, <1>2, WordAtIs
<1>6. ASSUME pos \in 1 .. Len(toks), Width(toks, pos) = 2
      PROVE  /\ at[pos] + 2 \in 1 .. Len(ins)
             /\ Operand = code[at[pos] + 2].arg
  <2>1. at[pos] + 2 \in 1 .. Len(ins)
    BY <1>2, <1>3, <1>6
  <2> DEFINE a == at[pos]
  <2>2. a \in Nat /\ y = CODE_LOC + 2 * a
    BY <1>1, <1>2
  <2> HIDE DEF a
  <2>3. a + 1 \in Nat /\ a + 1 + 1 = a + 2 /\ y + 2 = CODE_LOC + 2 * (a + 1)
    BY <1>3, <2>2
  <2>4. WordAt(y + 2) = code[a + 2]
    BY <2>3, WordAtIs
  <2> QED
    BY <2>1, <2>4 DEF Operand, a
<1> QED
  BY <1>1, <1>2, <1>3, <1>4, <1>5, <1>6

\* A step of the program: it goes to token p, in code and in text.
LEMMA Arrives ==
    ASSUME Inv, AtEnd, Execution, phase = "running",
           NEW p \in 1 .. Len(toks) + 1,
           y' = CODE_LOC + 2 * at[p], pos' = Settle(p), UNCHANGED loaded,
           iflag' \in BOOLEAN, done' \in BOOLEAN,
           Tidy => (iflag' <=> ~InAtomic(p))
    PROVE  Execution'
<1>1. /\ toks' = toks /\ at' = at /\ ins' = ins /\ cells' = cells
      /\ phase' = phase /\ code' = code /\ heap' = heap
  BY DEF loaded, compiler
<1>2. Finished
  BY DEF Finished
<1>3. /\ Settle(p) \in 1 .. Len(toks) + 1 /\ ~Silent(Settle(p))
      /\ at[Settle(p)] = at[p]
      /\ InAtomic(Settle(p)) <=> InAtomic(p)
  BY <1>2, SettleIs
<1> DEFINE s == Settle(p)
<1> HIDE DEF s
<1>4. pos' = s /\ s \in 1 .. Len(toks) + 1 /\ ~Silent(s) /\ at[s] = at[p]
      /\ (InAtomic(s) <=> InAtomic(p))
  BY <1>3 DEF s
<1>5. ~Silent(pos)'
  BY <1>1, <1>4 DEF Silent, Tag, Closes
<1>6. InAtomic(pos)' <=> InAtomic(s)
  BY <1>1, <1>4 DEF InAtomic
<1>7. Tidy' <=> Tidy
  BY <1>1 DEF Tidy, Tag, InAtomic
<1>8. Tidy' => (iflag' <=> ~InAtomic(pos)')
  BY <1>4, <1>6, <1>7
<1>9. /\ code = Relocated(ins, CODE_LOC) /\ heap = Heap(cells)
  BY DEF Execution
<1>10. /\ (code = Relocated(ins, CODE_LOC))' /\ (heap = Heap(cells))'
  BY <1>1, <1>9
<1>11. (pos \in 1 .. Len(toks) + 1)' /\ (y = CODE_LOC + 2 * at[pos])'
  BY <1>1, <1>4
<1> QED
  BY <1>1, <1>5, <1>8, <1>10, <1>11 DEF Execution

\* A token that is no block token and no brace.
LEMMA GoesOn ==
    ASSUME Inv, AtEnd, Finished, NEW k \in 1 .. Len(toks),
           ~(toks[k].tag \in {"atomic", "close"} \cup StrongTags)
    PROVE  /\ k + 1 \in 1 .. Len(toks) + 1
           /\ at[k + 1] = at[k] + Width(toks, k) /\ at[k] \in Nat
           /\ InAtomic(k + 1) <=> InAtomic(k)
<1> DEFINE n == Len(toks)
<1>1. /\ n \in Nat /\ Braced(toks, n) /\ Laid(toks, at, Len(ins) - 1)
      /\ \A i \in 1 .. n + 1 : at[i] \in Nat
  BY Compiled
<1>2. at[k + 1] = at[k] + Width(toks, k)
  BY <1>1 DEF Laid
<1>3. InAtomic(k + 1) <=> InAtomic(k)
  <2>1. CASE toks[k].tag = "if"
    <3>1. Around(toks, k + 1) = Around(toks, k) \cup {k}
      BY <1>1, <2>1, AroundOpener DEF BlockTags
    <3> QED
      BY <2>1, <3>1 DEF InAtomic
  <2>2. CASE toks[k].tag # "if"
    <3>1. ~(toks[k].tag \in BlockTags) /\ toks[k].tag # "close"
      BY <2>2 DEF BlockTags
    <3>2. Around(toks, k + 1) = Around(toks, k)
      BY <1>1, <3>1, AroundLeaf
    <3> QED
      BY <3>2 DEF InAtomic
  <2> QED
    BY <2>1, <2>2
<1> QED
  BY <1>1, <1>2, <1>3

LEMMA StraightKeeps ==
    ASSUME Inv, AtEnd, Execution, Straight
    PROVE  Execution'
<1>1. /\ phase = "running" /\ UNCHANGED loaded /\ iflag' = iflag /\ done' = done
      /\ pos' = Settle(pos + 1)
      /\ \/ WordAt(y).op = "builtin" /\ y' = y + 2
         \/ WordAt(y).op \in {"literal", "store", "load"} /\ y' = y + 4
  BY DEF Straight, AtOp, Goes
<1>2. /\ pos \in 1 .. Len(toks) + 1 /\ ~Silent(pos) /\ Finished
      /\ y = CODE_LOC + 2 * at[pos] /\ at[pos] \in Nat /\ CODE_LOC \in Nat
      /\ WordAt(y).op = OpFor(pos)
  BY <1>1, Here
<1>3. /\ pos \in 1 .. Len(toks)
      /\ \/ toks[pos].tag = "builtin" /\ y' = y + 2
         \/ toks[pos].tag \in {"int", "string", "store", "load"} /\ y' = y + 4
  BY <1>1, <1>2, OpTags
<1>4. ~(toks[pos].tag \in {"atomic", "close"} \cup StrongTags)
  BY <1>3 DEF StrongTags
<1>5. /\ pos + 1 \in 1 .. Len(toks) + 1
      /\ at[pos + 1] = at[pos] + Width(toks, pos)
      /\ InAtomic(pos + 1) <=> InAtomic(pos)
  BY <1>2, <1>3, <1>4, GoesOn
<1>6. y' = CODE_LOC + 2 * at[pos + 1]
  <2>1. CASE toks[pos].tag = "builtin" /\ y' = y + 2
    <3>1. Width(toks, pos) = 1
      BY <2>1 DEF Width
    <3> QED
      BY <1>2, <1>5, <2>1, <3>1
  <2>2. CASE toks[pos].tag \in {"int", "string", "store", "load"} /\ y' = y + 4
    <3>1. Width(toks, pos) = 2
      BY <2>2 DEF Width
    <3> QED
      BY <1>2, <1>5, <2>2, <3>1
  <2> QED
    BY <1>3, <2>1, <2>2
<1>7. iflag' \in BOOLEAN /\ done' \in BOOLEAN
  BY <1>1 DEF Execution
<1>8. Tidy => (iflag' <=> ~InAtomic(pos + 1))
  BY <1>1, <1>5 DEF Execution
<1> QED
  BY <1>1, <1>5, <1>6, <1>7, <1>8, Arrives

\* What a jump's operand is as loaded.
LEMMA Target ==
    ASSUME Inv, AtEnd, Execution, phase = "running", pos \in 1 .. Len(toks),
           Width(toks, pos) = 2, NEW a \in Nat, ins[at[pos] + 2] = To(a)
    PROVE  Operand = CODE_LOC + 2 * a
<1>1. at[pos] + 2 \in 1 .. Len(ins) /\ Operand = code[at[pos] + 2].arg
  BY Here
<1>2. code = Relocated(ins, CODE_LOC)
  BY DEF Execution
<1>3. ins[at[pos] + 2].op = "code" /\ ins[at[pos] + 2].arg = a
  BY DEF To
<1>4. code[at[pos] + 2] = To(CODE_LOC + 2 * ins[at[pos] + 2].arg)
  BY <1>1, <1>2, <1>3, LoadedWords
<1> QED
  BY <1>1, <1>3, <1>4 DEF To

\* A jump that is taken, and one that is not.
LEMMA Jumps ==
    ASSUME Inv, AtEnd, Execution, phase = "running", pos \in 1 .. Len(toks),
           Width(toks, pos) = 2, NEW p \in 1 .. Len(toks) + 1,
           ins[at[pos] + 2] = To(at[p]), Tidy => (InAtomic(p) <=> InAtomic(pos)),
           y' = Operand, pos' = Settle(p), UNCHANGED loaded,
           iflag' = iflag, done' = done
    PROVE  Execution'
<1>1. at[p] \in Nat
  BY Compiled DEF Finished
<1>2. y' = CODE_LOC + 2 * at[p]
  BY <1>1, Target
<1>3. iflag' \in BOOLEAN /\ done' \in BOOLEAN
  BY DEF Execution
<1>4. Tidy => (iflag' <=> ~InAtomic(p))
  BY DEF Execution
<1> QED
  BY <1>2, <1>3, <1>4, Arrives

LEMMA NoJump ==
    ASSUME Inv, AtEnd, Execution, phase = "running", pos \in 1 .. Len(toks),
           toks[pos].tag \in {"if", "while"},
           y' = y + 4, pos' = Goes, UNCHANGED loaded,
           iflag' = iflag, done' = done
    PROVE  Execution'
<1>1. Finished /\ y = CODE_LOC + 2 * at[pos] /\ at[pos] \in Nat /\ CODE_LOC \in Nat
  BY Here
<1>2. ~(toks[pos].tag \in {"atomic", "close"} \cup StrongTags) /\ Width(toks, pos) = 2
  BY DEF StrongTags, Width
<1>3. /\ pos + 1 \in 1 .. Len(toks) + 1
      /\ at[pos + 1] = at[pos] + Width(toks, pos)
      /\ InAtomic(pos + 1) <=> InAtomic(pos)
  BY <1>1, <1>2, GoesOn
<1>4. y' = CODE_LOC + 2 * at[pos + 1]
  BY <1>1, <1>2, <1>3
<1>5. iflag' \in BOOLEAN /\ done' \in BOOLEAN
  BY DEF Execution
<1>6. Tidy => (iflag' <=> ~InAtomic(pos + 1))
  BY <1>3 DEF Execution
<1>7. pos' = Settle(pos + 1)
  BY DEF Goes
<1> QED
  BY <1>3, <1>4, <1>5, <1>6, <1>7, Arrives

LEMMA JumpIfKeeps ==
    ASSUME Inv, AtEnd, Execution, JumpIf
    PROVE  Execution'
<1>1. /\ phase = "running" /\ UNCHANGED loaded /\ iflag' = iflag /\ done' = done
      /\ WordAt(y).op = "jumpif"
      /\ \/ y' = Operand /\ pos' = Skips
         \/ y' = y + 4 /\ pos' = Goes
  BY DEF JumpIf, AtOp
<1>2. /\ pos \in 1 .. Len(toks) + 1 /\ ~Silent(pos) /\ Finished
      /\ WordAt(y).op = OpFor(pos)
  BY <1>1, Here
<1>3. pos \in 1 .. Len(toks) /\ toks[pos].tag = "if"
  BY <1>1, <1>2, OpTags
<1>4. CASE y' = Operand /\ pos' = Skips
  <2> DEFINE p == EndOf(toks, pos) + 1
  <2>1. /\ p \in 1 .. Len(toks) + 1 /\ ins[at[pos] + 2] = To(at[p])
        /\ InAtomic(p) <=> InAtomic(pos)
    BY <1>2, <1>3, IfTarget
  <2>2. pos' = Settle(p)
    BY <1>4 DEF Skips
  <2>3. Width(toks, pos) = 2
    BY <1>3 DEF Width
  <2> HIDE DEF p
  <2> QED
    BY <1>1, <1>3, <1>4, <2>1, <2>2, <2>3, Jumps
<1>5. CASE y' = y + 4 /\ pos' = Goes
  BY <1>1, <1>3, <1>5, NoJump
<1> QED
  BY <1>1, <1>4, <1>5

LEMMA JumpIfNotKeeps ==
    ASSUME Inv, AtEnd, Execution, JumpIfNot
    PROVE  Execution'
<1>1. /\ phase = "running" /\ UNCHANGED loaded /\ iflag' = iflag /\ done' = done
      /\ WordAt(y).op = "jumpifnot"
      /\ \/ y' = Operand /\ pos' = Leaves
         \/ y' = y + 4 /\ pos' = Goes
  BY DEF JumpIfNot, AtOp
<1>2. /\ pos \in 1 .. Len(toks) + 1 /\ ~Silent(pos) /\ Finished
      /\ WordAt(y).op = OpFor(pos)
  BY <1>1, Here
<1>3. pos \in 1 .. Len(toks) /\ toks[pos].tag = "while"
  BY <1>1, <1>2, OpTags
<1>4. CASE y' = Operand /\ pos' = Leaves
  <2> DEFINE p == EndOf(toks, Home(toks, pos)) + 1
  <2>1. /\ p \in 1 .. Len(toks) + 1 /\ ins[at[pos] + 2] = To(at[p])
        /\ Tidy => (InAtomic(p) <=> InAtomic(pos))
    BY <1>2, <1>3, LeaveTarget DEF IsLeave
  <2>2. pos' = Settle(p)
    BY <1>4 DEF Leaves
  <2>3. Width(toks, pos) = 2
    BY <1>3 DEF Width
  <2> HIDE DEF p
  <2> QED
    BY <1>1, <1>3, <1>4, <2>1, <2>2, <2>3, Jumps
<1>5. CASE y' = y + 4 /\ pos' = Goes
  BY <1>1, <1>3, <1>5, NoJump
<1> QED
  BY <1>1, <1>4, <1>5

LEMMA JumpKeeps ==
    ASSUME Inv, AtEnd, Execution, Jump
    PROVE  Execution'
<1>1. /\ phase = "running" /\ UNCHANGED loaded /\ iflag' = iflag /\ done' = done
      /\ WordAt(y).op = "jump" /\ y' = Operand
  BY DEF Jump, AtOp
<1>2. /\ pos \in 1 .. Len(toks) + 1 /\ ~Silent(pos) /\ Finished
      /\ WordAt(y).op = OpFor(pos)
  BY <1>1, Here
<1>3. /\ pos \in 1 .. Len(toks)
      /\ \/ toks[pos].tag \in {"continue", "break"}
         \/ toks[pos].tag = "close" /\ Closes(pos) = "loop"
  BY <1>1, <1>2, OpTags
<1>4. Tag(pos) = toks[pos].tag
  BY <1>3, TagIs
<1>5. Width(toks, pos) = 2
  BY <1>3 DEF Width, Closes
<1>6. CASE toks[pos].tag = "break"
  <2> DEFINE p == EndOf(toks, Home(toks, pos)) + 1
  <2>1. /\ p \in 1 .. Len(toks) + 1 /\ ins[at[pos] + 2] = To(at[p])
        /\ Tidy => (InAtomic(p) <=> InAtomic(pos))
    BY <1>2, <1>3, <1>6, LeaveTarget DEF IsLeave
  <2>2. pos' = Settle(p)
    BY <1>4, <1>6 DEF Jump, Leaves
  <2> HIDE DEF p
  <2> QED
    BY <1>1, <1>3, <1>5, <2>1, <2>2, Jumps
<1>7. CASE toks[pos].tag = "continue"
  <2> DEFINE p == Home(toks, pos) + 1
  <2>1. /\ p \in 1 .. Len(toks) + 1 /\ ins[at[pos] + 2] = To(at[p])
        /\ Tidy => (InAtomic(p) <=> InAtomic(pos))
    BY <1>2, <1>3, <1>7, ContinueTarget
  <2>2. pos' = Settle(p)
    BY <1>4, <1>7 DEF Jump, Restarts
  <2> HIDE DEF p
  <2> QED
    BY <1>1, <1>3, <1>5, <2>1, <2>2, Jumps
<1>8. CASE toks[pos].tag = "close" /\ Closes(pos) = "loop"
  <2> DEFINE p == toks[pos].data + 1
  <2>1. /\ p \in 1 .. Len(toks) + 1 /\ ins[at[pos] + 2] = To(at[p])
        /\ InAtomic(p) <=> InAtomic(pos)
    BY <1>2, <1>3, <1>8, RepeatTarget
  <2>2. pos' = Settle(p)
    BY <1>4, <1>8 DEF Jump, Repeats
  <2> HIDE DEF p
  <2> QED
    BY <1>1, <1>3, <1>5, <2>1, <2>2, Jumps
<1> QED
  BY <1>3, <1>6, <1>7, <1>8

LEMMA AtomicKeeps ==
    ASSUME Inv, AtEnd, Execution, Atomic
    PROVE  Execution'
<1>1. /\ phase = "running" /\ UNCHANGED loaded /\ iflag' = FALSE /\ done' = done
      /\ WordAt(y).op = "atomic" /\ y' = y + 2 /\ pos' = Settle(pos + 1)
  BY DEF Atomic, AtOp, Goes
<1>2. /\ pos \in 1 .. Len(toks) + 1 /\ ~Silent(pos) /\ Finished
      /\ y = CODE_LOC + 2 * at[pos] /\ at[pos] \in Nat /\ CODE_LOC \in Nat
      /\ WordAt(y).op = OpFor(pos)
  BY <1>1, Here
<1>3. pos \in 1 .. Len(toks) /\ toks[pos].tag = "atomic"
  BY <1>1, <1>2, OpTags
<1>4. Len(toks) \in Nat /\ Braced(toks, Len(toks)) /\ Laid(toks, at, Len(ins) - 1)
  BY <1>2, Compiled
<1>5. pos + 1 \in 1 .. Len(toks) + 1
  BY <1>3, <1>4
<1>6. Width(toks, pos) = 1
  BY <1>3 DEF Width
<1>7. at[pos + 1] = at[pos] + 1
  BY <1>3, <1>4, <1>6 DEF Laid
<1>8. y' = CODE_LOC + 2 * at[pos + 1]
  BY <1>1, <1>2, <1>7
<1>9. InAtomic(pos + 1)
  <2>1. Around(toks, pos + 1) = Around(toks, pos) \cup {pos}
    BY <1>3, <1>4, AroundOpener DEF BlockTags
  <2> QED
    BY <1>3, <2>1 DEF InAtomic
<1>10. iflag' \in BOOLEAN /\ done' \in BOOLEAN
  BY <1>1 DEF Execution
<1>11. Tidy => (iflag' <=> ~InAtomic(pos + 1))
  BY <1>1, <1>9
<1> QED
  BY <1>1, <1>5, <1>8, <1>10, <1>11, Arrives

LEMMA EndAtomicKeeps ==
    ASSUME Inv, AtEnd, Execution, EndAtomic
    PROVE  Execution'
<1>1. /\ phase = "running" /\ UNCHANGED loaded /\ iflag' = TRUE /\ done' = done
      /\ WordAt(y).op = "end_atomic" /\ y' = y + 2 /\ pos' = Settle(pos + 1)
  BY DEF EndAtomic, AtOp, Goes
<1>2. /\ pos \in 1 .. Len(toks) + 1 /\ ~Silent(pos) /\ Finished
      /\ y = CODE_LOC + 2 * at[pos] /\ at[pos] \in Nat /\ CODE_LOC \in Nat
      /\ WordAt(y).op = OpFor(pos)
  BY <1>1, Here
<1>3. pos \in 1 .. Len(toks) /\ toks[pos].tag = "close" /\ Closes(pos) = "atomic"
  BY <1>1, <1>2, OpTags
<1>4. Len(toks) \in Nat /\ Braced(toks, Len(toks)) /\ Laid(toks, at, Len(ins) - 1)
  BY <1>2, Compiled
<1>5. pos + 1 \in 1 .. Len(toks) + 1
  BY <1>3, <1>4
<1>6. Width(toks, pos) = 1
  BY <1>3 DEF Width, Closes
<1>7. at[pos + 1] = at[pos] + 1
  BY <1>3, <1>4, <1>6 DEF Laid
<1>8. y' = CODE_LOC + 2 * at[pos + 1]
  BY <1>1, <1>2, <1>7
<1>9. ASSUME Tidy PROVE ~InAtomic(pos + 1)
  <2> DEFINE j == toks[pos].data
  <2>1. Around(toks, pos + 1) = Around(toks, j)
    BY <1>3, <1>4, AroundClosed
  <2>2. j \in 1 .. Len(toks) /\ toks[j].tag = "atomic"
    BY <1>3, <1>4, TagIs DEF Closes
  <2> HIDE DEF j
  <2>3. ~InAtomic(j)
    BY <1>9, <2>2, TagIs DEF Tidy
  <2> QED
    BY <2>1, <2>3 DEF InAtomic
<1>10. iflag' \in BOOLEAN /\ done' \in BOOLEAN
  BY <1>1 DEF Execution
<1>11. Tidy => (iflag' <=> ~InAtomic(pos + 1))
  BY <1>1, <1>9
<1> QED
  BY <1>1, <1>5, <1>8, <1>10, <1>11, Arrives

LEMMA HaltKeeps ==
    ASSUME Execution, Halt
    PROVE  Execution'
<1>1. /\ phase = "running" /\ UNCHANGED loaded /\ done' = TRUE
      /\ y' = y /\ iflag' = iflag /\ pos' = pos
  BY DEF Halt, AtOp
<1>2. /\ toks' = toks /\ at' = at /\ ins' = ins /\ cells' = cells
      /\ phase' = phase /\ code' = code /\ heap' = heap
  BY <1>1 DEF loaded, compiler
<1>3. ~Silent(pos)' <=> ~Silent(pos)
  BY <1>1, <1>2 DEF Silent, Tag, Closes
<1>4. InAtomic(pos)' <=> InAtomic(pos)
  BY <1>1, <1>2 DEF InAtomic
<1>5. Tidy' <=> Tidy
  BY <1>2 DEF Tidy, Tag, InAtomic
<1>6. Tidy' => (iflag' <=> ~InAtomic(pos)')
  BY <1>1, <1>4, <1>5 DEF Execution
<1>7. /\ (code = Relocated(ins, CODE_LOC))' /\ (heap = Heap(cells))'
      /\ (pos \in 1 .. Len(toks) + 1)' /\ (y = CODE_LOC + 2 * at[pos])'
  BY <1>1, <1>2 DEF Execution
<1> QED
  BY <1>1, <1>2, <1>3, <1>6, <1>7 DEF Execution

\* The program starts at its first token.
LEMMA LoadKeeps ==
    ASSUME Inv, AtEnd, Execution, Load
    PROVE  Execution'
<1>1. /\ phase = "compiled" /\ phase' = "running"
      /\ code' = Relocated(ins, CODE_LOC) /\ heap' = Heap(cells)
      /\ pos' = Settle(1) /\ UNCHANGED <<compiler, y, iflag, done>>
  BY DEF Load
<1>2. /\ toks' = toks /\ at' = at /\ ins' = ins /\ cells' = cells
      /\ y' = y /\ iflag' = iflag /\ done' = done
  BY <1>1 DEF compiler
<1>3. y = CODE_LOC /\ iflag = TRUE /\ done = FALSE
  BY <1>1 DEF Execution
<1>4. Finished
  BY <1>1 DEF Finished
<1>5. 1 \in 1 .. Len(toks) + 1 /\ at[1] = 0 /\ CODE_LOC \in Nat
  BY <1>4, Compiled, TaskCodeAssumption
<1> DEFINE s == Settle(1)
<1>6. /\ s \in 1 .. Len(toks) + 1 /\ ~Silent(s) /\ at[s] = 0
      /\ InAtomic(s) <=> InAtomic(1)
  BY <1>4, <1>5, SettleIs
<1>7. ~InAtomic(1)
  BY DEF InAtomic, Around
<1> HIDE DEF s
<1>8. pos' = s
  BY <1>1 DEF s
<1>9. ~Silent(pos)'
  BY <1>2, <1>6, <1>8 DEF Silent, Tag, Closes
<1>10. InAtomic(pos)' <=> InAtomic(s)
  BY <1>2, <1>8 DEF InAtomic
<1>11. Tidy' => (iflag' <=> ~InAtomic(pos)')
  BY <1>2, <1>3, <1>6, <1>7, <1>10
<1>12. /\ (code = Relocated(ins, CODE_LOC))' /\ (heap = Heap(cells))'
       /\ (pos \in 1 .. Len(toks) + 1)'
  BY <1>1, <1>2, <1>6, <1>8
<1>13. (y = CODE_LOC + 2 * at[pos])'
  BY <1>2, <1>3, <1>5, <1>6, <1>8
<1> QED
  BY <1>1, <1>2, <1>3, <1>9, <1>11, <1>12, <1>13 DEF Execution

-----------------------------------------------------------------------------
(* The heap                                                                *)

\* Where a cell ends.
After(c) == c.loc + Size(c)

\* Each cell begins where the one before it ends, and no name has two.
Seated ==
    /\ \A k \in 1 .. Len(cells) :
          /\ cells[k].kind = "string" => cells[k].id \in DOMAIN Chars
          /\ cells[k].loc = IF k = 1 THEN 0 ELSE After(cells[k - 1])
          /\ After(cells[k]) <= offset
    /\ \A j, k \in 1 .. Len(cells) :
          j < k => /\ After(cells[j]) <= cells[k].loc
                   /\ <<cells[j].kind, cells[j].id>> # <<cells[k].kind, cells[k].id>>
    /\ offset = IF Len(cells) = 0 THEN 0 ELSE After(cells[Len(cells)])

LEMMA CellIs ==
    ASSUME cells \in Heaps, Seated, NEW k \in 1 .. Len(cells)
    PROVE  /\ cells[k].loc \in Nat /\ Size(cells[k]) \in Nat
           /\ After(cells[k]) \in Nat /\ Size(cells[k]) > 0
           /\ cells[k].kind = "string" => /\ cells[k].id \in DOMAIN Chars
                                          /\ Chars[cells[k].id] \in Nat
                                          /\ Bytes[cells[k].id] \in Nat
<1>1. cells[k] \in CellSet
  <2>1. cells \in Seq(CellSet)
    BY DEF Heaps
  <2> QED
    BY <2>1, ElementOfSeq
<1>2. cells[k].loc \in Nat
  BY <1>1 DEF CellSet
<1>3. cells[k].kind = "string" => cells[k].id \in DOMAIN Chars
  BY DEF Seated
<1>4. cells[k].kind = "string"
        => Chars[cells[k].id] \in Nat /\ Bytes[cells[k].id] \in Nat
  BY <1>3, CompilerAssumption
<1>5. Size(cells[k]) \in Nat /\ Size(cells[k]) > 0
  BY <1>4 DEF Size
<1> QED
  BY <1>2, <1>3, <1>4, <1>5 DEF After

LEMMA GetSeats ==
    ASSUME cells \in Heaps, offset \in Nat, Seated,
           NEW kind \in {"string", "var"}, NEW id \in Datas,
           NEW size \in Nat, Get(kind, id, size),
           kind = "string" => id \in DOMAIN Chars /\ size = Chars[id] + 1,
           kind = "var" => size = 2
    PROVE  Seated'
<1>1. CASE Known(kind, id)
  <2>1. cells' = cells /\ offset' = offset
    BY <1>1 DEF Get
  <2> QED
    BY <2>1 DEF Seated
<1>2. CASE ~Known(kind, id)
  <2> DEFINE c == Cell(kind, id, offset)
             n == Len(cells)
  <2>1. cells' = Append(cells, c) /\ offset' = offset + size
    BY <1>2 DEF Get
  <2>2. c \in CellSet /\ c.kind = kind /\ c.id = id /\ c.loc = offset
    BY DEF Cell, CellSet
  <2>3. cells \in Seq(CellSet)
    BY DEF Heaps
  <2> HIDE DEF c
  <2>4. /\ n \in Nat /\ Len(cells') = n + 1
        /\ \A k \in 1 .. n : cells'[k] = cells[k]
        /\ cells'[n + 1] = c
    BY <2>1, <2>2, <2>3, Appended
  <2>5. Size(c) = size
    BY <2>2 DEF Size
  <2>6. After(c) = offset'
    BY <2>1, <2>2, <2>5 DEF After
  <2>7. offset <= offset' /\ offset' \in Nat
    BY <2>1
  <2>8. \A k \in 1 .. n : After(cells[k]) <= offset /\ After(cells[k]) \in Nat
    BY CellIs DEF Seated
  <2>9. \A k \in 1 .. n : <<cells[k].kind, cells[k].id>> # <<kind, id>>
    BY <1>2 DEF Known
  <2>10. offset = IF n = 0 THEN 0 ELSE After(cells[n])
    BY DEF Seated
  <2>11. \A k \in 1 .. n + 1 : k \in 1 .. n \/ k = n + 1
    BY <2>4
  <2>12. ASSUME NEW k \in 1 .. n + 1
         PROVE  /\ cells'[k].kind = "string" => cells'[k].id \in DOMAIN Chars
                /\ cells'[k].loc = IF k = 1 THEN 0 ELSE After(cells'[k - 1])
                /\ After(cells'[k]) <= offset'
    <3>1. CASE k \in 1 .. n
      <4>1. k # 1 => k - 1 \in 1 .. n
        BY <2>4, <3>1
      <4>2. cells'[k] = cells[k] /\ (k # 1 => cells'[k - 1] = cells[k - 1])
        BY <2>4, <3>1, <4>1
      <4>3. /\ cells[k].kind = "string" => cells[k].id \in DOMAIN Chars
            /\ cells[k].loc = IF k = 1 THEN 0 ELSE After(cells[k - 1])
        BY <3>1 DEF Seated
      <4>4. After(cells[k]) <= offset'
        BY <2>7, <2>8, <3>1
      <4> QED
        BY <4>2, <4>3, <4>4
    <3>2. CASE k = n + 1
      <4>1. n # 0 => k - 1 = n /\ k # 1 /\ n \in 1 .. n
        BY <2>4, <3>2
      <4>2. cells'[k] = c /\ (n # 0 => cells'[k - 1] = cells[n]) /\ (n = 0 => k = 1)
        BY <2>4, <3>2, <4>1
      <4>3. c.loc = IF k = 1 THEN 0 ELSE After(cells'[k - 1])
        BY <2>2, <2>10, <4>1, <4>2
      <4> QED
        BY <2>2, <2>6, <2>7, <4>2, <4>3
    <3> QED
      BY <2>11, <3>1, <3>2
  <2>13. ASSUME NEW j \in 1 .. n + 1, NEW k \in 1 .. n + 1, j < k
         PROVE  /\ After(cells'[j]) <= cells'[k].loc
                /\ <<cells'[j].kind, cells'[j].id>> # <<cells'[k].kind, cells'[k].id>>
    <3>1. j \in 1 .. n /\ cells'[j] = cells[j]
      BY <2>4, <2>13
    <3>2. CASE k \in 1 .. n
      <4>1. cells'[k] = cells[k]
        BY <2>4, <3>2
      <4> QED
        BY <2>13, <3>1, <3>2, <4>1 DEF Seated
    <3>3. CASE k = n + 1
      <4>1. cells'[k] = c
        BY <2>4, <3>3
      <4> QED
        BY <2>2, <2>8, <2>9, <3>1, <4>1
    <3> QED
      BY <2>11, <3>2, <3>3
  <2>14. offset' = IF Len(cells') = 0 THEN 0 ELSE After(cells'[Len(cells')])
    BY <2>4, <2>6
  <2>15. Len(cells') = n + 1
    BY <2>4
  <2> HIDE DEF n
  <2> QED
    BY <2>12, <2>13, <2>14, <2>15 DEF Seated, After, Size
<1> QED
  BY <1>1, <1>2

\* heap_size adds up the cells: it is the offset the next one would get.
LEMMA HeapSizeIs ==
    ASSUME cells \in Heaps, Seated
    PROVE  HeapSize(cells) = offset
<1> DEFINE n == Len(cells)
           s(k) == IF cells[k].kind = "string" THEN Chars[cells[k].id] + 1 ELSE 2
           E(k) == IF k = 0 THEN 0 ELSE After(cells[k])
           G == [k \in 0 .. n |-> E(k)]
           f == CHOOSE g : g = [k \in 0 .. n |-> IF k = 0 THEN 0 ELSE g[k - 1] + s(k)]
<1>1. n \in Nat
  BY Lengths
<1>2. HeapSize(cells) = f[n]
  BY DEF HeapSize
<1>3. \A k \in 1 .. n : Size(cells[k]) = s(k)
  BY DEF Size
<1>4. ASSUME NEW k \in 1 .. n
      PROVE  /\ E(k) = E(k - 1) + s(k)
             /\ k - 1 \in 0 .. n
  <2>1. cells[k].loc = IF k = 1 THEN 0 ELSE After(cells[k - 1])
    BY DEF Seated
  <2>2. cells[k].loc = E(k - 1) /\ k # 0
    BY <2>1
  <2>3. E(k) = cells[k].loc + s(k)
    BY <1>3, <2>2 DEF After
  <2> QED
    BY <1>1, <2>2, <2>3
<1> HIDE DEF s, E, n
<1>5. \A k \in 0 .. n : k = 0 \/ k \in 1 .. n
  BY <1>1
<1>6. E(0) = 0
  BY DEF E
<1>7. G = [k \in 0 .. n |-> IF k = 0 THEN 0 ELSE G[k - 1] + s(k)]
  <2>1. \A k \in 0 .. n : E(k) = IF k = 0 THEN 0 ELSE G[k - 1] + s(k)
    BY <1>4, <1>5, <1>6
  <2> QED
    BY <2>1
<1>8. f = [k \in 0 .. n |-> IF k = 0 THEN 0 ELSE f[k - 1] + s(k)]
  <2>1. \E g : g = [k \in 0 .. n |-> IF k = 0 THEN 0 ELSE g[k - 1] + s(k)]
    BY <1>7
  <2> QED
    BY <2>1
<1> HIDE DEF f
<1>9. \A k \in 0 .. n : f[k] = IF k = 0 THEN 0 ELSE f[k - 1] + s(k)
  BY <1>8, Zenon
<1> DEFINE T == {k \in Nat : k <= n => f[k] = E(k)}
<1>10. 0 \in T
  BY <1>1, <1>6, <1>9
<1>11. ASSUME NEW k \in Nat, k \in T PROVE k + 1 \in T
  <2>1. SUFFICES ASSUME k + 1 <= n PROVE f[k + 1] = E(k + 1)
    OBVIOUS
  <2>2. k <= n /\ k + 1 \in 1 .. n /\ k + 1 \in 0 .. n /\ k + 1 - 1 = k /\ k + 1 # 0
    BY <1>1, <2>1
  <2>3. f[k] = E(k)
    BY <1>11, <2>2
  <2>4. f[k + 1] = f[k] + s(k + 1)
    BY <1>9, <2>2
  <2>5. E(k + 1) = E(k) + s(k + 1)
    BY <1>4, <2>2
  <2> QED
    BY <2>3, <2>4, <2>5
<1> HIDE DEF T
<1>12. n \in T
  BY <1>1, <1>10, <1>11, NatSet
<1>13. f[n] = E(n)
  BY <1>1, <1>12 DEF T
<1>14. E(n) = offset
  BY DEF E, n, Seated
<1> QED
  BY <1>2, <1>13, <1>14

-----------------------------------------------------------------------------
(* The inductive invariant                                                 *)

Sound == Inv /\ AtEnd /\ Seated /\ Execution

LEMMA SoundInit == Init => Sound
<1> SUFFICES ASSUME Init PROVE Sound
  OBVIOUS
<1>1. Inv /\ AtEnd
  BY CompilerStarts DEF Init
<1>2. Seated
  BY DEF Init, CompilerInit, Seated
<1>3. Execution
  BY DEF Init, CompilerInit, Execution
<1> QED
  BY <1>1, <1>2, <1>3 DEF Sound

\* A token that is read.
LEMMA ReadKeeps ==
    ASSUME Sound, CompilerNext, phase' = "compiling"
    PROVE  Inv' /\ Seated' /\ phase = "compiling"
<1>1. Inv /\ Seated /\ cells \in Heaps /\ offset \in Nat
  BY DEF Sound, Inv, WellTyped
<1>2. ASSUME cells' = cells, offset' = offset PROVE Seated'
  BY <1>1, <1>2 DEF Seated
<1>3. ASSUME NEW t \in Tokens, String(t) PROVE Seated'
  <2>1. t.tag = "string" /\ Get("string", t.data, StringSize(t.data))
    BY <1>3 DEF String
  <2>2. t.data \in Datas /\ t.data \in DOMAIN Chars
    BY <2>1, TokenIs
  <2>3. StringSize(t.data) = Chars[t.data] + 1 /\ StringSize(t.data) \in Nat
    BY <2>2, CompilerAssumption DEF StringSize
  <2> QED
    BY <1>1, <2>1, <2>2, <2>3, GetSeats
<1>4. ASSUME NEW t \in Tokens, Variable(t) PROVE Seated'
  <2>1. Get("var", t.data, VariableSize)
    BY <1>4 DEF Variable
  <2>2. t.data \in Datas /\ VariableSize = 2 /\ VariableSize \in Nat
    BY TokenIs DEF VariableSize
  <2> QED
    BY <1>1, <2>1, <2>2, GetSeats
<1>5. ASSUME NEW t \in Tokens, Call(t) \/ Literal(t) \/ Leave(t) \/ Continue(t)
             \/ If(t) \/ Atomically(t) \/ StrongBlock(t)
      PROVE  Inv' /\ Seated'
  <2>1. Inv'
    BY <1>1, <1>5, CallKeeps, LiteralKeeps, LeaveKeeps, ContinueKeeps, IfKeeps,
       AtomicallyKeeps, StrongBlockKeeps
  <2>2. cells' = cells /\ offset' = offset
    BY <1>5 DEF Call, Literal, Leave, Continue, If, Atomically, StrongBlock
  <2> QED
    BY <1>2, <2>1, <2>2
<1>6. ASSUME CloseIf \/ CloseAtomic \/ CloseBlock \/ CloseLoop
      PROVE  Inv' /\ Seated'
  <2>1. Inv'
    BY <1>1, <1>6, CloseIfKeeps, CloseAtomicKeeps, CloseBlockKeeps, CloseLoopKeeps
  <2>2. cells' = cells /\ offset' = offset
    BY <1>6 DEF CloseIf, CloseAtomic, CloseBlock, CloseLoop, Pop
  <2> QED
    BY <1>2, <2>1, <2>2
<1>7. ~Refuse /\ ~Finish
  BY DEF Refuse, Finish
<1>8. phase = "compiling"
  BY <1>7 DEF CompilerNext, Call, Literal, String, Variable, Leave, Continue,
              If, Atomically, StrongBlock, CloseIf, CloseAtomic, CloseBlock,
              CloseLoop, Reads
<1>9. Inv' /\ Seated'
  BY <1>1, <1>3, <1>4, <1>5, <1>6, <1>7, StringKeeps, VariableKeeps, Zenon DEF CompilerNext
<1> QED
  BY <1>8, <1>9

LEMMA CompileKeeps ==
    ASSUME Sound, Compile
    PROVE  Sound'
<1>1. CompilerNext /\ UNCHANGED task
  BY DEF Compile
<1>2. /\ code' = code /\ heap' = heap /\ y' = y /\ iflag' = iflag /\ pos' = pos
      /\ done' = done
  BY <1>1 DEF task
<1>3. Inv /\ AtEnd /\ Seated /\ Execution
  BY DEF Sound
<1>4. ASSUME phase = "compiling", phase' # "running"
      PROVE  Execution'
  BY <1>2, <1>3, <1>4 DEF Execution
<1>5. CASE Refuse
  <2>1. Inv'
    BY <1>3, <1>5, RefuseKeeps
  <2>2. /\ cells' = cells /\ offset' = offset /\ phase = "compiling"
        /\ phase' = "refused"
    BY <1>5 DEF Refuse, compiler
  <2>3. Seated' /\ AtEnd'
    BY <1>3, <2>2 DEF Seated, AtEnd, Finished
  <2> QED
    BY <1>4, <2>1, <2>2, <2>3 DEF Sound
<1>6. CASE Finish
  <2>1. Inv' /\ AtEnd'
    BY <1>3, <1>6, FinishKeeps
  <2>2. /\ cells' = cells /\ offset' = offset /\ phase = "compiling"
        /\ phase' = "compiled"
    BY <1>6 DEF Finish
  <2>3. Seated'
    BY <1>3, <2>2 DEF Seated
  <2> QED
    BY <1>4, <2>1, <2>2, <2>3 DEF Sound
<1>7. CASE phase' = "compiling"
  <2>1. Inv' /\ Seated' /\ phase = "compiling"
    BY <1>1, <1>7, ReadKeeps
  <2>2. AtEnd'
    BY <1>7 DEF AtEnd, Finished
  <2> QED
    BY <1>4, <1>7, <2>1, <2>2 DEF Sound
<1>8. Refuse \/ Finish \/ phase' = "compiling"
  BY <1>1 DEF CompilerNext, Call, Literal, String, Variable, Leave, Continue,
              If, Atomically, StrongBlock, CloseIf, CloseAtomic, CloseBlock,
              CloseLoop, Reads
<1> QED
  BY <1>5, <1>6, <1>7, <1>8

\* The compiler's part, once it is done.
LEMMA CompiledStays ==
    ASSUME Inv, AtEnd, Seated, UNCHANGED compiler,
           phase' = phase \/ (Finished /\ Finished')
    PROVE  Inv' /\ AtEnd' /\ Seated'
<1>1. /\ toks' = toks /\ at' = at /\ ins' = ins /\ cells' = cells
      /\ offset' = offset /\ blocks' = blocks /\ pending' = pending
  BY DEF compiler
<1>2. Finished' <=> Finished
  BY DEF Finished
<1>3. Extent' = Extent
  BY <1>1, <1>2 DEF Extent
<1>4. Structure'
  BY <1>1, <1>3 DEF Inv, Structure
<1>5. InBlocks'
  BY <1>1, <1>2 DEF Inv, InBlocks
<1>6. WellTyped'
  BY <1>1 DEF Inv, WellTyped, Finished
<1>7. Seated'
  BY <1>1 DEF Seated
<1>8. AtEnd'
  BY <1>1, <1>2 DEF AtEnd
<1> QED
  BY <1>4, <1>5, <1>6, <1>7, <1>8 DEF Inv

LEMMA SoundNext == Sound /\ [Next]_vars => Sound'
<1> SUFFICES ASSUME Sound, [Next]_vars PROVE Sound'
  OBVIOUS
<1>1. Inv /\ AtEnd /\ Seated /\ Execution
  BY DEF Sound
<1>2. ASSUME UNCHANGED loaded, Execution' PROVE Sound'
  BY <1>1, <1>2, CompiledStays DEF loaded, Sound
<1>3. CASE Compile
  BY <1>3, CompileKeeps
<1>4. CASE Load
  <2>1. Execution'
    BY <1>1, <1>4, LoadKeeps
  <2>2. UNCHANGED compiler /\ Finished /\ Finished'
    BY <1>4 DEF Load, Finished
  <2> QED
    BY <1>1, <2>1, <2>2, CompiledStays DEF Sound
<1>5. CASE Straight
  BY <1>1, <1>2, <1>5, StraightKeeps DEF Straight
<1>6. CASE JumpIf
  BY <1>1, <1>2, <1>6, JumpIfKeeps DEF JumpIf
<1>7. CASE JumpIfNot
  BY <1>1, <1>2, <1>7, JumpIfNotKeeps DEF JumpIfNot
<1>8. CASE Jump
  BY <1>1, <1>2, <1>8, JumpKeeps DEF Jump
<1>9. CASE Atomic
  BY <1>1, <1>2, <1>9, AtomicKeeps DEF Atomic
<1>10. CASE EndAtomic
  BY <1>1, <1>2, <1>10, EndAtomicKeeps DEF EndAtomic
<1>11. CASE Halt
  BY <1>1, <1>2, <1>11, HaltKeeps DEF Halt
<1>12. CASE UNCHANGED vars
  <2>1. /\ UNCHANGED <<compiler, phase, code, heap, y, iflag, pos, done>>
    BY <1>12 DEF vars
  <2>2. /\ toks' = toks /\ at' = at /\ cells' = cells /\ ins' = ins
    BY <2>1 DEF compiler
  <2>3. (Silent(pos)' <=> Silent(pos)) /\ (InAtomic(pos)' <=> InAtomic(pos))
    BY <2>1, <2>2 DEF Silent, Tag, Closes, InAtomic
  <2>4. Tidy' <=> Tidy
    BY <2>2 DEF Tidy, Tag, InAtomic
  <2>5. Execution'
    BY <1>1, <2>1, <2>2, <2>3, <2>4 DEF Execution
  <2> QED
    BY <1>1, <2>1, <2>5, CompiledStays DEF Sound
<1> QED
  BY <1>3, <1>4, <1>5, <1>6, <1>7, <1>8, <1>9, <1>10, <1>11, <1>12 DEF Next

\* Whatever has been read, written and executed so far, the words stand for the
\* tokens and the interpreter for the program (_process, run_task_immediate).
THEOREM SoundAlways == Spec => []Sound
<1> QED
  BY SoundInit, SoundNext, PTL DEF Spec

-----------------------------------------------------------------------------
(* What it implies                                                         *)

\* Types: every word is an instruction or an operand, and every place is one
\* of the text or of the code.
THEOREM TypeCorrect == Spec => []TypeOK
<1>1. Sound => TypeOK
  <2> SUFFICES ASSUME Sound PROVE TypeOK
    OBVIOUS
  <2> DEFINE n == Len(toks)
  <2>1. WellTyped /\ Structure /\ InBlocks /\ AtEnd /\ Seated /\ Execution
    BY DEF Sound, Inv
  <2>2. /\ n \in Nat /\ Len(ins) \in Nat /\ Len(blocks) \in Nat
        /\ Len(at) = n + 1 /\ Len(toks) = n
    BY <2>1, Lengths DEF WellTyped
  <2>3. \A i \in 1 .. Len(ins) : ins[i].op \in Ops \cup Operands
    <3>1. ins \in Seq(Words)
      BY <2>1 DEF WellTyped, Codes
    <3>2. \A i \in 1 .. Len(ins) : ins[i] \in Words
      BY <3>1, ElementOfSeq
    <3> QED
      BY <3>2 DEF Words
  <2>4. Extent \in Nat /\ Extent <= Len(ins) /\ Laid(toks, at, Extent)
    <3>1. Laid(toks, at, Extent)
      BY <2>1 DEF Structure
    <3>2. n + 1 \in 1 .. n + 1
      BY <2>2
    <3>3. Extent \in Nat
      BY <3>1, <3>2 DEF Laid
    <3> QED
      BY <2>2, <3>1, <3>3 DEF Extent
  <2>5. \A k \in 1 .. Len(at) : at[k] \in 0 .. Len(ins)
    <3>1. ASSUME NEW k \in 1 .. n + 1 PROVE at[k] \in 0 .. Len(ins)
      <4>1. at[k] \in Nat /\ at[n + 1] = Extent
        BY <2>4, <3>1 DEF Laid
      <4>2. CASE k \in 1 .. n
        <5>1. at[k] + Width(toks, k) <= at[n + 1]
          BY <2>2, <2>4, <4>2 DEF Laid
        <5> QED
          BY <2>2, <2>4, <4>1, <5>1, WidthType
      <4>3. CASE k = n + 1
        BY <2>2, <2>4, <4>1, <4>3
      <4> QED
        BY <2>2, <4>2, <4>3
    <3> QED
      BY <2>2, <3>1
  <2>6. \A d \in 1 .. Len(blocks) : /\ blocks[d].home \in 1 .. d
                                    /\ blocks[d].tok \in 0 .. Len(toks)
    <3>1. CASE Finished
      <4>1. blocks = <<>>
        BY <2>1, <3>1 DEF AtEnd
      <4> QED
        BY <4>1
    <3>2. CASE ~Finished
      <4>1. Stacked(toks, at, blocks)
        BY <2>1, <3>2 DEF InBlocks
      <4>2. \A d \in 1 .. Len(blocks) : blocks[d].home \in 1 .. d
        BY <4>1 DEF Stacked, Homed
      <4> HIDE DEF n
      <4>3. \A d \in 1 .. Len(blocks) : blocks[d].tok \in 0 .. n
        BY <2>2, <4>1, FrameIs
      <4> QED
        BY <2>2, <4>2, <4>3
    <3> QED
      BY <3>1, <3>2
  <2>7. \A p \in pending : p[1] \in 1 .. Len(ins) /\ p[2] \in 1 .. Len(blocks)
    <3>1. CASE Finished
      BY <2>1, <3>1 DEF AtEnd
    <3>2. CASE ~Finished
      <4>1. Waiting(toks, at, blocks, pending) /\ Extent = Len(ins)
        BY <2>1, <3>2 DEF InBlocks, Extent
      <4>2. ASSUME NEW p \in pending
            PROVE  p[1] \in 1 .. Len(ins) /\ p[2] \in 1 .. Len(blocks)
        <5>1. PICK k \in 1 .. n, d \in 1 .. Len(blocks) :
                  IsLeave(toks[k]) /\ p = <<at[k] + 2, d>>
          BY <4>1 DEF Waiting
        <5>2. Width(toks, k) = 2
          BY <5>1, AheadIs DEF IsAhead
        <5>3. at[k] \in Nat /\ at[k + 1] = at[k] + 2 /\ at[k + 1] <= Len(ins)
          <6>1. n \in Nat /\ Len(ins) \in Nat /\ Laid(toks, at, Len(ins))
            BY <2>2, <2>4, <4>1
          <6> HIDE DEF n
          <6> QED
            BY <2>2, <5>2, <6>1, WordsOf
        <5>4. at[k] + 2 \in 1 .. Len(ins)
          BY <2>2, <5>3
        <5> QED
          BY <5>1, <5>4
      <4> QED
        BY <4>2
    <3> QED
      BY <3>1, <3>2
  <2>8. offset \in Nat /\ \A k \in 1 .. Len(cells) : cells[k].loc \in 0 .. offset
    <3>1. cells \in Heaps /\ offset \in Nat
      BY <2>1 DEF WellTyped
    <3>2. ASSUME NEW k \in 1 .. Len(cells) PROVE cells[k].loc \in 0 .. offset
      <4>1. cells[k].loc \in Nat /\ Size(cells[k]) \in Nat
        BY <2>1, <3>1, CellIs
      <4>2. cells[k].loc + Size(cells[k]) <= offset
        BY <2>1 DEF Seated, After
      <4> QED
        BY <3>1, <4>1, <4>2
    <3> QED
      BY <3>1, <3>2
  <2>9. phase \in {"compiling", "refused", "compiled", "running"}
    BY <2>1 DEF WellTyped
  <2>10. /\ y \in Nat /\ iflag \in BOOLEAN /\ done \in BOOLEAN
         /\ pos \in 1 .. Len(toks) + 1
    <3>1. CASE phase = "running"
      <4>1. /\ pos \in 1 .. n + 1 /\ y = CODE_LOC + 2 * at[pos]
            /\ iflag \in BOOLEAN /\ done \in BOOLEAN
        BY <2>1, <3>1 DEF Execution
      <4>2. at[pos] \in Nat /\ CODE_LOC \in Nat
        BY <2>4, <4>1, TaskCodeAssumption DEF Laid
      <4> QED
        BY <4>1, <4>2
    <3>2. CASE phase # "running"
      <4>1. y = CODE_LOC /\ iflag = TRUE /\ pos = 1 /\ done = FALSE
        BY <2>1, <3>2 DEF Execution
      <4>2. y \in Nat /\ pos \in 1 .. Len(toks) + 1
        BY <2>2, <4>1, TaskCodeAssumption
      <4>3. iflag \in BOOLEAN /\ done \in BOOLEAN
        BY <4>1
      <4> QED
        BY <4>2, <4>3
    <3> QED
      BY <3>1, <3>2
  <2> QED
    BY <2>2, <2>3, <2>5, <2>6, <2>7, <2>8, <2>9, <2>10 DEF TypeOK
<1> QED
  BY <1>1, SoundAlways, PTL

\* A program whose atomic blocks are neither nested nor left in the middle has
\* interrupts off exactly inside them, whatever it computes.
THEOREM FlagFollows == Spec => []FlagFollowsBlocks
<1>1. Sound => FlagFollowsBlocks
  BY DEF Sound, Execution, FlagFollowsBlocks
<1> QED
  BY <1>1, SoundAlways, PTL

\* The cells tile the heap, and no name has two.
THEOREM CellsAreApart == Spec => []CellsApart
<1>1. Sound => CellsApart
  <2> SUFFICES ASSUME Sound PROVE CellsApart
    OBVIOUS
  <2>1. cells \in Heaps /\ Seated
    BY DEF Sound, Inv, WellTyped
  <2>2. HeapSize(cells) = offset
    BY <2>1, HeapSizeIs
  <2> QED
    BY <2>1, <2>2 DEF CellsApart, Seated, After
<1> QED
  BY <1>1, SoundAlways, PTL

\* The words of a program: operations, and operands that jumps do not use...
LEMMA OperandIs ==
    ASSUME Sound, Finished, NEW k \in 1 .. Len(toks), Width(toks, k) = 2
    PROVE  \/ \E p \in 1 .. Len(toks) + 1 : ins[at[k] + 2] = To(at[p])
           \/ ins[at[k] + 2].op \in {"value", "heap"}
<1>1. Inv /\ AtEnd
  BY DEF Sound
<1>2. HasArg(toks, at, ins, cells, k)
  BY <1>1, Compiled DEF Coded
<1>3. toks[k].tag \in LeafTags \cup BlockTags \cup {"close"}
  BY <1>1, TagIs
<1>4. CASE toks[k].tag = "int"
  BY <1>2, <1>4 DEF HasArg, Value
<1>5. CASE toks[k].tag \in {"string", "store", "load"}
  <2>1. \E kind : InCell(cells, kind, toks[k].data, ins[at[k] + 2])
    BY <1>2, <1>5 DEF HasArg
  <2>2. \E m \in 1 .. Len(cells) : ins[at[k] + 2] = HeapAt(cells[m].loc)
    BY <2>1 DEF InCell
  <2> QED
    BY <2>2 DEF HeapAt
<1>6. CASE toks[k].tag = "if"
  BY <1>1, <1>6, IfTarget
<1>7. CASE IsLeave(toks[k])
  BY <1>1, <1>7, LeaveTarget
<1>8. CASE toks[k].tag = "continue"
  BY <1>1, <1>8, ContinueTarget
<1>9. CASE toks[k].tag = "close"
  <2>1. Closes(k) = "loop"
    BY <1>9 DEF Width, Closes
  <2> QED
    BY <1>1, <1>9, <2>1, RepeatTarget
<1> QED
  BY <1>3, <1>4, <1>5, <1>6, <1>7, <1>8, <1>9 DEF Width, IsLeave

LEMMA InCodeIs ==
    ASSUME NEW j \in Nat, j + 1 \in 1 .. Len(code), NEW a, a = CODE_LOC + 2 * j
    PROVE  InCode(a)
<1> DEFINE i == j + 1
<1>1. i \in 1 .. Len(code) /\ i - 1 = j
  OBVIOUS
<1>2. a = CODE_LOC + 2 * (i - 1)
  BY <1>1
<1> HIDE DEF i
<1> QED
  BY <1>1, <1>2 DEF InCode

\* ...so that every jump goes to an instruction: none keeps the placeholder it
\* was emitted with, and none lands on an operand (push_code_location).
THEOREM JumpsLand == Spec => []JumpsLandOnOps
<1>1. Sound => JumpsLandOnOps
  <2> SUFFICES ASSUME Sound, NEW i \in 1 .. Len(code), code[i].op = "code"
               PROVE  InCode(code[i].arg) /\ WordAt(code[i].arg).op \notin Operands
    BY DEF JumpsLandOnOps
  <2> DEFINE n == Len(toks)
             m == Len(ins) - 1
  <2>1. Inv /\ AtEnd /\ Execution
    BY DEF Sound
  <2>2. phase = "running"
    <3>1. phase # "running" => code = <<>>
      BY <2>1 DEF Execution
    <3> QED
      BY <3>1
  <2>3. code = Relocated(ins, CODE_LOC) /\ Finished
    BY <2>1, <2>2 DEF Execution, Finished
  <2>4. /\ n \in Nat /\ m \in Nat /\ Len(ins) = m + 1 /\ Laid(toks, at, m)
        /\ ins[m + 1] = Op("halt")
    BY <2>1, <2>3, Compiled
  <2> HIDE DEF m
  <2>5. Len(code) = Len(ins)
    <3>1. m + 1 \in 1 .. Len(ins)
      BY <2>4
    <3> QED
      BY <2>1, <2>3, <3>1, LoadedWords
  <2>6. ins[i].op = "code" /\ code[i] = To(CODE_LOC + 2 * ins[i].arg)
    BY <2>1, <2>3, <2>5, LoadedWords
  <2>7. i # m + 1
    BY <2>4, <2>6 DEF Op
  <2>8. i \in 1 .. m
    BY <2>4, <2>5, <2>7
  <2>9. PICK k \in 1 .. n : at[k] < i /\ i <= at[k + 1]
    BY <2>4, <2>8 DEF Laid
  <2>10. /\ at[k] \in Nat /\ at[k + 1] = at[k] + Width(toks, k)
         /\ Width(toks, k) \in {0, 1, 2}
    BY <2>4, <2>9, WidthType DEF Laid
  <2>11. k \in 1 .. n + 1 /\ ~Silent(k)
    <3>1. k \in 1 .. n + 1
      BY <2>4
    <3>2. Silent(k) => at[k + 1] = at[k]
      BY <2>1, <2>3, <3>1, SilentNext
    <3> QED
      BY <2>9, <2>10, <3>1, <3>2
  <2>12. i # at[k] + 1
    <3>1. ins[at[k] + 1].op = OpFor(k) /\ ~(OpFor(k) \in Operands)
      BY <2>1, <2>3, <2>11, OpIs
    <3> QED
      BY <2>6, <3>1 DEF Operands
  <2>13. i = at[k] + 2 /\ Width(toks, k) = 2
    BY <2>9, <2>10, <2>12
  <2>14. PICK p \in 1 .. n + 1 : ins[i] = To(at[p])
    <3>1. \/ \E p \in 1 .. n + 1 : ins[i] = To(at[p])
          \/ ins[i].op \in {"value", "heap"}
      BY <2>3, <2>13, OperandIs
    <3> QED
      BY <2>6, <3>1
  <2>15. code[i].arg = CODE_LOC + 2 * at[p]
    BY <2>6, <2>14 DEF To
  <2> DEFINE s == Settle(p)
  <2>16. s \in 1 .. n + 1 /\ ~Silent(s) /\ at[s] = at[p]
    BY <2>1, <2>3, SettleIs
  <2> HIDE DEF s
  <2>17. /\ at[s] \in Nat /\ at[s] + 1 \in 1 .. Len(ins)
         /\ ins[at[s] + 1].op = OpFor(s) /\ ~(OpFor(s) \in Operands)
    BY <2>1, <2>3, <2>16, OpIs
  <2>18. WordAt(code[i].arg) = code[at[s] + 1]
    BY <2>15, <2>16, <2>17, WordAtIs
  <2>19. code[at[s] + 1].op = ins[at[s] + 1].op
    BY <2>1, <2>3, <2>17, LoadedWords
  <2>20. InCode(code[i].arg)
    BY <2>5, <2>15, <2>16, <2>17, InCodeIs
  <2> QED
    BY <2>17, <2>18, <2>19, <2>20
<1> QED
  BY <1>1, SoundAlways, PTL

\* The address of a cell, as loaded, and that it is the cell's only one.
LEMMA HeapOperand ==
    ASSUME Inv, AtEnd, Execution, phase = "running", pos \in 1 .. Len(toks),
           Width(toks, pos) = 2, NEW a, ins[at[pos] + 2] = HeapAt(a)
    PROVE  Operand = CODE_LOC + 2 * Len(code) + a
<1>1. /\ at[pos] + 2 \in 1 .. Len(ins) /\ Operand = code[at[pos] + 2].arg
      /\ Len(code) = Len(ins)
  BY Here
<1>2. code = Relocated(ins, CODE_LOC)
  BY DEF Execution
<1>3. ins[at[pos] + 2].op = "heap" /\ ins[at[pos] + 2].arg = a
  BY DEF HeapAt
<1>4. code[at[pos] + 2] = HeapAt(CODE_LOC + 2 * Len(ins) + ins[at[pos] + 2].arg)
  BY <1>1, <1>2, <1>3, LoadedWords
<1> QED
  BY <1>1, <1>3, <1>4 DEF HeapAt

LEMMA LocUnique ==
    ASSUME cells \in Heaps, Seated, NEW kind, NEW id, NEW m \in 1 .. Len(cells),
           cells[m].kind = kind, cells[m].id = id
    PROVE  LocOf(cells, kind, id) = cells[m].loc
<1> DEFINE k == CHOOSE k \in 1 .. Len(cells) : cells[k].kind = kind /\ cells[k].id = id
<1>1. k \in 1 .. Len(cells) /\ cells[k].kind = kind /\ cells[k].id = id
  OBVIOUS
<1>2. LocOf(cells, kind, id) = cells[k].loc
  BY DEF LocOf
<1> HIDE DEF k
<1>3. ~(k < m) /\ ~(m < k)
  BY <1>1 DEF Seated
<1>4. k = m
  <2>1. Len(cells) \in Nat
    BY Lengths
  <2> QED
    BY <1>1, <1>3, <2>1
<1> QED
  BY <1>2, <1>4

\* A program's instruction pointer is always at the instruction, with the
\* operand, of the token the program is at, whichever way its jumps go.
THEOREM LockstepKept == Spec => []InLockstep
<1>1. Sound => InLockstep
  <2> SUFFICES ASSUME Sound, phase = "running"
               PROVE  /\ InCode(y)
                      /\ WordAt(y).op = OpFor(pos)
                      /\ Tag(pos) = "builtin" => WordAt(y).arg = toks[pos].data
                      /\ Tag(pos) = "int" => Operand = toks[pos].data
                      /\ Tag(pos) \in {"store", "load"} =>
                           Operand = CODE_LOC + 2 * Len(code)
                                     + LocOf(cells, "var", toks[pos].data)
    BY DEF InLockstep
  <2>1. Inv /\ AtEnd /\ Execution /\ Seated /\ cells \in Heaps
    BY DEF Sound, Inv, WellTyped
  <2>2. /\ pos \in 1 .. Len(toks) + 1 /\ ~Silent(pos) /\ Finished
        /\ y = CODE_LOC + 2 * at[pos] /\ at[pos] \in Nat /\ CODE_LOC \in Nat
        /\ Len(code) = Len(ins)
        /\ WordAt(y).op = OpFor(pos)
        /\ WordAt(y) = code[at[pos] + 1]
    BY <2>1, Here
  <2>3. at[pos] + 1 \in 1 .. Len(ins)
    BY <2>1, <2>2, OpIs
  <2>4. InCode(y)
    BY <2>2, <2>3, InCodeIs
  <2>5. code = Relocated(ins, CODE_LOC)
    BY <2>1 DEF Execution
  <2>6. ASSUME Tag(pos) # "halt"
        PROVE  /\ pos \in 1 .. Len(toks) /\ Tag(pos) = toks[pos].tag
               /\ HasOp(toks, at, ins, pos) /\ HasArg(toks, at, ins, cells, pos)
    <3>1. pos \in 1 .. Len(toks)
      <4>1. Len(toks) \in Nat
        BY <2>1, <2>2, Compiled
      <4> QED
        BY <2>2, <2>6, <4>1 DEF Tag
    <3>2. Tag(pos) = toks[pos].tag
      BY <2>1, <3>1, TagIs
    <3> QED
      BY <2>1, <2>2, <3>1, <3>2, Compiled DEF Coded
  <2>7. ASSUME Tag(pos) = "builtin" PROVE WordAt(y).arg = toks[pos].data
    <3>1. ins[at[pos] + 1] = Builtin(toks[pos].data)
      BY <2>6, <2>7 DEF HasOp
    <3>2. ~(ins[at[pos] + 1].op \in {"code", "heap"})
      BY <3>1 DEF Builtin
    <3>3. code[at[pos] + 1] = ins[at[pos] + 1]
      BY <2>1, <2>3, <2>5, <3>2, LoadedWords
    <3> QED
      BY <2>2, <3>1, <3>3 DEF Builtin
  <2>8. ASSUME Tag(pos) = "int" PROVE Operand = toks[pos].data
    <3>1. Width(toks, pos) = 2 /\ pos \in 1 .. Len(toks)
      BY <2>6, <2>8 DEF Width
    <3>2. at[pos] + 2 \in 1 .. Len(ins) /\ Operand = code[at[pos] + 2].arg
      BY <2>1, <3>1, Here
    <3>3. ins[at[pos] + 2] = Value(toks[pos].data)
      BY <2>6, <2>8 DEF HasArg
    <3>4. ~(ins[at[pos] + 2].op \in {"code", "heap"})
      BY <3>3 DEF Value
    <3>5. code[at[pos] + 2] = ins[at[pos] + 2]
      BY <2>1, <2>5, <3>2, <3>4, LoadedWords
    <3> QED
      BY <3>2, <3>3, <3>5 DEF Value
  <2>9. ASSUME Tag(pos) \in {"store", "load"}
        PROVE  Operand = CODE_LOC + 2 * Len(code) + LocOf(cells, "var", toks[pos].data)
    <3>1. Width(toks, pos) = 2 /\ pos \in 1 .. Len(toks)
      BY <2>6, <2>9 DEF Width
    <3>2. InCell(cells, "var", toks[pos].data, ins[at[pos] + 2])
      BY <2>6, <2>9 DEF HasArg
    <3>3. PICK m \in 1 .. Len(cells) :
             /\ cells[m].kind = "var" /\ cells[m].id = toks[pos].data
             /\ ins[at[pos] + 2] = HeapAt(cells[m].loc)
      BY <3>2 DEF InCell
    <3>4. Operand = CODE_LOC + 2 * Len(code) + cells[m].loc
      BY <2>1, <2>2, <3>1, <3>3, HeapOperand
    <3>5. LocOf(cells, "var", toks[pos].data) = cells[m].loc
      BY <2>1, <3>3, LocUnique
    <3> QED
      BY <3>4, <3>5
  <2> QED
    BY <2>2, <2>4, <2>7, <2>8, <2>9
<1> QED
  BY <1>1, SoundAlways, PTL

-----------------------------------------------------------------------------
(* The strings                                                             *)

\* What a byte of the heap can be.
Octets == {0} \cup DOMAIN Chars
Buffers == Seq(Octets)

\* Texts whose strings have a byte for each character.
Ascii == \A s \in DOMAIN Chars : Bytes[s] = Chars[s]

LEMMA BufferIs ==
    ASSUME NEW buf \in Buffers
    PROVE  /\ Len(buf) \in Nat
           /\ \A i \in 1 .. Len(buf) : buf[i] \in Octets
           /\ buf = [i \in 1 .. Len(buf) |-> buf[i]]
<1> HIDE DEF Octets
<1>1. buf \in Seq(Octets)
  BY DEF Buffers
<1> QED
  BY <1>1, ElementOfSeq, LenProperties

LEMMA Joined ==
    ASSUME NEW s1 \in Buffers, NEW s2 \in Buffers
    PROVE  /\ s1 \o s2 \in Buffers
           /\ Len(s1 \o s2) = Len(s1) + Len(s2)
           /\ \A i \in 1 .. Len(s1) + Len(s2) :
                (s1 \o s2)[i] = IF i <= Len(s1) THEN s1[i] ELSE s2[i - Len(s1)]
<1> HIDE DEF Octets
<1>1. s1 \in Seq(Octets) /\ s2 \in Seq(Octets)
  BY DEF Buffers
<1>2. /\ s1 \o s2 \in Seq(Octets)
      /\ Len(s1 \o s2) = Len(s1) + Len(s2)
      /\ \A i \in 1 .. Len(s1) + Len(s2) :
           (s1 \o s2)[i] = IF i <= Len(s1) THEN s1[i] ELSE s2[i - Len(s1)]
  BY <1>1, ConcatProperties, Zenon
<1> QED
  BY <1>2, Zenon DEF Buffers

LEMMA Part ==
    ASSUME NEW buf \in Buffers, NEW m \in Nat, m > 0, NEW n \in Nat, n <= Len(buf)
    PROVE  /\ SubSeq(buf, m, n) \in Buffers
           /\ Len(SubSeq(buf, m, n)) = IF m <= n THEN n - m + 1 ELSE 0
           /\ \A i \in 1 .. n - m + 1 : SubSeq(buf, m, n)[i] = buf[m + i - 1]
<1> HIDE DEF Octets
<1>1. \A i \in m .. n : buf[i] \in Octets
  BY BufferIs
<1>2. m \in Int /\ n \in Int
  OBVIOUS
<1>3. /\ SubSeq(buf, m, n) \in Seq(Octets)
      /\ Len(SubSeq(buf, m, n)) = IF m <= n THEN n - m + 1 ELSE 0
      /\ \A i \in 1 .. n - m + 1 : SubSeq(buf, m, n)[i] = buf[m + i - 1]
  BY <1>1, <1>2, SubSeqProperties
<1> QED
  BY <1>3, Zenon DEF Buffers

LEMMA Filled ==
    ASSUME NEW n \in Nat, NEW id \in Octets
    PROVE  LET b == [i \in 1 .. n |-> id]
           IN  b \in Buffers /\ Len(b) = n /\ \A i \in 1 .. n : b[i] = id
<1> HIDE DEF Octets
<1> DEFINE b == [i \in 1 .. n |-> id]
<1>1. b \in Seq(Octets) /\ Len(b) = n
  OBVIOUS
<1>2. \A i \in 1 .. n : b[i] = id
  OBVIOUS
<1> HIDE DEF b
<1> QED
  BY <1>1, <1>2 DEF Buffers, b

\* A string that has a byte for each character takes the place of as many
\* bytes, and of no other.
LEMMA WriteIs ==
    ASSUME Ascii, NEW buf \in Buffers, NEW s, s.loc \in Nat, s.id \in DOMAIN Chars,
           Chars[s.id] \in Nat, s.loc + Chars[s.id] <= Len(buf)
    PROVE  Write(buf, s) = [i \in 1 .. Len(buf) |->
                              IF s.loc < i /\ i <= s.loc + Chars[s.id] THEN s.id
                              ELSE buf[i]]
<1> DEFINE l == s.loc
           c == Chars[s.id]
           L == Len(buf)
           F == SubSeq(buf, 1, l)
           G == [i \in 1 .. c |-> s.id]
           H == SubSeq(buf, l + c + 1, L)
           W == (F \o G) \o H
<1>1. Write(buf, s) = W
  BY DEF Write, Ascii
<1>2. l \in Nat /\ c \in Nat /\ L \in Nat /\ l + c <= L /\ s.id \in Octets
  BY BufferIs DEF Octets
<1> HIDE DEF l, c, L
<1>3. F \in Buffers /\ Len(F) = l /\ \A i \in 1 .. l : F[i] = buf[i]
  <2>1. l <= Len(buf) /\ 1 > 0 /\ 1 \in Nat
    BY <1>2 DEF L
  <2>2. /\ F \in Buffers
        /\ Len(F) = IF 1 <= l THEN l - 1 + 1 ELSE 0
        /\ \A i \in 1 .. l - 1 + 1 : F[i] = buf[1 + i - 1]
    BY <1>2, <2>1, Part, Zenon
  <2> HIDE DEF F
  <2> QED
    BY <1>2, <2>2
<1>4. G \in Buffers /\ Len(G) = c /\ \A i \in 1 .. c : G[i] = s.id
  BY <1>2, Filled, Zenon
<1>5. /\ H \in Buffers /\ Len(H) = L - (l + c)
      /\ \A i \in 1 .. L - (l + c) : H[i] = buf[l + c + i]
  <2>1. l + c + 1 \in Nat /\ l + c + 1 > 0 /\ L <= Len(buf)
    BY <1>2 DEF L
  <2>2. /\ H \in Buffers
        /\ Len(H) = IF l + c + 1 <= L THEN L - (l + c + 1) + 1 ELSE 0
        /\ \A i \in 1 .. L - (l + c + 1) + 1 : H[i] = buf[l + c + 1 + i - 1]
    BY <1>2, <2>1, Part, Zenon
  <2> HIDE DEF H
  <2>3. L - (l + c + 1) + 1 = L - (l + c) /\ \A i \in Nat : l + c + 1 + i - 1 = l + c + i
    BY <1>2
  <2>4. (IF l + c + 1 <= L THEN L - (l + c + 1) + 1 ELSE 0) = L - (l + c)
    BY <1>2
  <2>5. \A i \in 1 .. L - (l + c) : i \in Nat
    OBVIOUS
  <2>6. \A i \in 1 .. L - (l + c) : H[i] = buf[l + c + i]
    BY <2>2, <2>3, <2>5, Zenon
  <2>7. H \in Buffers
    BY <2>2, Zenon
  <2>8. Len(H) = L - (l + c)
    <3> DEFINE e == IF l + c + 1 <= L THEN L - (l + c + 1) + 1 ELSE 0
    <3>1. Len(H) = e /\ e = L - (l + c)
      BY <2>2, <2>4
    <3> HIDE DEF e
    <3> QED
      BY <3>1
  <2> QED
    BY <2>6, <2>7, <2>8, Zenon
<1> HIDE DEF F, G, H
<1>6. /\ F \o G \in Buffers /\ Len(F \o G) = l + c
      /\ \A i \in 1 .. l + c : (F \o G)[i] = IF i <= l THEN F[i] ELSE G[i - l]
  BY <1>3, <1>4, Joined, Zenon
<1>7. /\ W \in Buffers /\ Len(W) = (l + c) + (L - (l + c))
      /\ \A i \in 1 .. (l + c) + (L - (l + c)) :
           W[i] = IF i <= l + c THEN (F \o G)[i] ELSE H[i - (l + c)]
  <2> DEFINE X == F \o G
  <2>1. X \in Buffers /\ Len(X) = l + c
    BY <1>6
  <2> HIDE DEF X
  <2>2. /\ X \o H \in Buffers /\ Len(X \o H) = Len(X) + Len(H)
        /\ \A i \in 1 .. Len(X) + Len(H) :
             (X \o H)[i] = IF i <= Len(X) THEN X[i] ELSE H[i - Len(X)]
    BY <1>5, <2>1, Joined, Zenon
  <2>3. Len(X) + Len(H) = (l + c) + (L - (l + c))
    BY <1>5, <2>1
  <2>4. W = X \o H
    BY DEF X
  <2> HIDE DEF W
  <2> QED
    BY <2>1, <2>2, <2>3, <2>4, Zenon DEF X
<1> DEFINE FG == F \o G
<1> HIDE DEF W
<1>8. Len(W) = L
  BY <1>2, <1>7
<1>9. ASSUME NEW i \in 1 .. L
      PROVE  W[i] = IF l < i /\ i <= l + c THEN s.id ELSE buf[i]
  <2>0. i \in 1 .. (l + c) + (L - (l + c)) /\ i \in Nat /\ i > 0 /\ i <= L
    BY <1>2
  <2>1. W[i] = IF i <= l + c THEN FG[i] ELSE H[i - (l + c)]
    BY <1>7, <2>0, Zenon
  <2>2. \A j \in 1 .. l + c : FG[j] = IF j <= l THEN F[j] ELSE G[j - l]
    BY <1>6, Zenon
  <2> HIDE DEF FG
  <2>3. CASE i <= l
    BY <1>2, <1>3, <2>0, <2>1, <2>2, <2>3
  <2>4. CASE l < i /\ i <= l + c
    <3>1. i - l \in 1 .. c /\ i \in 1 .. l + c /\ ~(i <= l)
      BY <1>2, <2>0, <2>4
    <3>2. FG[i] = G[i - l]
      BY <2>2, <3>1
    <3> QED
      BY <1>4, <2>1, <2>4, <3>1, <3>2
  <2>5. CASE l + c < i
    <3>1. i - (l + c) \in 1 .. L - (l + c) /\ ~(i <= l + c)
      BY <1>2, <2>0, <2>5
    <3>2. H[i - (l + c)] = buf[l + c + (i - (l + c))]
      BY <1>5, <3>1
    <3>3. l + c + (i - (l + c)) = i
      BY <1>2, <2>0
    <3> QED
      BY <2>1, <3>1, <3>2, <3>3
  <2> QED
    BY <1>2, <2>0, <2>3, <2>4, <2>5
<1>10. W = [i \in 1 .. L |-> W[i]]
  BY <1>7, <1>8, BufferIs
<1>11. W = [i \in 1 .. L |-> IF l < i /\ i <= l + c THEN s.id ELSE buf[i]]
  BY <1>9, <1>10
<1> QED
  BY <1>1, <1>11 DEF l, c, L

-----------------------------------------------------------------------------
(* Whose byte it is                                                        *)

\* Byte i of the heap is one of string m.
Covers(m, i) ==
    /\ cells[m].kind = "string"
    /\ cells[m].loc < i /\ i <= cells[m].loc + Chars[cells[m].id]

Covered(k, i) == \E m \in 1 .. k : Covers(m, i)

\* What byte i is once the strings among the first k cells are written.
Byte(k, i) ==
    IF Covered(k, i) THEN cells[CHOOSE m \in 1 .. k : Covers(m, i)].id ELSE 0

LEMMA OneCovers ==
    ASSUME cells \in Heaps, Seated, NEW i \in Nat,
           NEW j \in 1 .. Len(cells), NEW k \in 1 .. Len(cells),
           Covers(j, i), Covers(k, i)
    PROVE  j = k
<1>1. ASSUME NEW m \in 1 .. Len(cells), Covers(m, i)
      PROVE  /\ cells[m].loc < i /\ i < After(cells[m])
             /\ cells[m].loc \in Nat /\ After(cells[m]) \in Nat
  <2>1. cells[m].loc \in Nat /\ After(cells[m]) \in Nat
    BY CellIs
  <2>2. Chars[cells[m].id] \in Nat
    BY <1>1, CellIs DEF Covers
  <2>3. After(cells[m]) = cells[m].loc + (Chars[cells[m].id] + 1)
    BY <1>1 DEF Covers, After, Size
  <2> QED
    BY <1>1, <2>1, <2>2, <2>3 DEF Covers
<1>2. ~(j < k)
  <2>1. j < k => After(cells[j]) <= cells[k].loc
    BY DEF Seated
  <2> QED
    BY <1>1, <2>1
<1>3. ~(k < j)
  <2>1. k < j => After(cells[k]) <= cells[j].loc
    BY DEF Seated
  <2> QED
    BY <1>1, <2>1
<1>4. Len(cells) \in Nat
  BY Lengths
<1> QED
  BY <1>2, <1>3, <1>4

LEMMA ByteIs ==
    ASSUME cells \in Heaps, Seated, NEW i \in Nat, NEW k \in 0 .. Len(cells),
           NEW m \in 1 .. k, Covers(m, i)
    PROVE  Byte(k, i) = cells[m].id
<1> DEFINE c == CHOOSE j \in 1 .. k : Covers(j, i)
<1>1. c \in 1 .. k /\ Covers(c, i)
  OBVIOUS
<1>2. Byte(k, i) = cells[c].id
  BY DEF Byte, Covered
<1> HIDE DEF c
<1>3. Len(cells) \in Nat
  BY Lengths
<1>4. m \in 1 .. Len(cells) /\ c \in 1 .. Len(cells)
  BY <1>1, <1>3
<1>5. c = m
  BY <1>1, <1>4, OneCovers
<1> QED
  BY <1>2, <1>5

LEMMA ByteGrows ==
    ASSUME cells \in Heaps, Seated, NEW i \in Nat, NEW k \in 1 .. Len(cells)
    PROVE  Byte(k, i) = IF Covers(k, i) THEN cells[k].id ELSE Byte(k - 1, i)
<1>1. Len(cells) \in Nat
  BY Lengths
<1>2. k \in 0 .. Len(cells) /\ k - 1 \in 0 .. Len(cells) /\ k \in 1 .. k
  BY <1>1
<1>3. \A m \in 1 .. k - 1 : m \in 1 .. k
  BY <1>1
<1>4. \A m \in 1 .. k : m = k \/ m \in 1 .. k - 1
  BY <1>1
<1>5. CASE Covers(k, i)
  BY <1>2, <1>5, ByteIs
<1>6. CASE ~Covers(k, i)
  <2>1. CASE Covered(k, i)
    <3>1. PICK m \in 1 .. k : Covers(m, i)
      BY <2>1 DEF Covered
    <3>2. m \in 1 .. k - 1
      BY <1>4, <1>6, <3>1
    <3>3. Byte(k, i) = cells[m].id /\ Byte(k - 1, i) = cells[m].id
      BY <1>2, <3>1, <3>2, ByteIs
    <3> QED
      BY <1>6, <3>3
  <2>2. CASE ~Covered(k, i)
    <3>1. ~Covered(k - 1, i)
      BY <1>3, <2>2 DEF Covered
    <3> QED
      BY <1>6, <2>2, <3>1 DEF Byte
  <2> QED
    BY <2>1, <2>2
<1> QED
  BY <1>5, <1>6

LEMMA ByteType ==
    ASSUME cells \in Heaps, Seated, NEW i \in Nat, NEW k \in 0 .. Len(cells)
    PROVE  Byte(k, i) \in Octets
<1>1. CASE Covered(k, i)
  <2>1. PICK m \in 1 .. k : Covers(m, i)
    BY <1>1 DEF Covered
  <2>2. m \in 1 .. Len(cells)
    BY Lengths
  <2>3. Byte(k, i) = cells[m].id
    BY <2>1, ByteIs
  <2>4. cells[m].id \in DOMAIN Chars
    BY <2>1, <2>2, CellIs DEF Covers
  <2> QED
    BY <2>3, <2>4 DEF Octets
<1>2. CASE ~Covered(k, i)
  BY <1>2 DEF Byte, Octets
<1> QED
  BY <1>1, <1>2

\* The heap as the client builds it (Compilation.heap).
LEMMA HeapIs ==
    ASSUME Ascii, cells \in Heaps, offset \in Nat, Seated
    PROVE  Heap(cells) = [i \in 1 .. offset |-> Byte(Len(cells), i)]
<1> DEFINE n == Len(cells)
           L == HeapSize(cells)
           H(k) == [i \in 1 .. offset |-> Byte(k, i)]
           S(g, k) == IF k = 0 THEN [i \in 1 .. L |-> 0]
                      ELSE IF cells[k].kind = "string" THEN Write(g[k - 1], cells[k])
                      ELSE g[k - 1]
           G == [k \in 0 .. n |-> H(k)]
           f == CHOOSE g : g = [k \in 0 .. n |-> S(g, k)]
<1>1. n \in Nat
  BY Lengths
<1>2. L = offset
  BY HeapSizeIs
<1>3. Heap(cells) = f[n]
  BY DEF Heap
<1>4. H(0) = [i \in 1 .. offset |-> 0]
  <2>1. \A i \in 1 .. offset : Byte(0, i) = 0
    BY DEF Byte, Covered
  <2> QED
    BY <2>1
<1>5. ASSUME NEW k \in 1 .. n, NEW g, g[k - 1] = H(k - 1)
      PROVE  H(k) = S(g, k)
  <2>1. k # 0 /\ k \in 0 .. n /\ k - 1 \in 0 .. n
    BY <1>1
  <2>2. \A i \in 1 .. offset :
           Byte(k, i) = IF Covers(k, i) THEN cells[k].id ELSE Byte(k - 1, i)
    BY ByteGrows
  <2> DEFINE B == H(k - 1)
  <2>3. B \in Buffers /\ Len(B) = offset /\ \A i \in 1 .. offset : B[i] = Byte(k - 1, i)
    <3>1. \A i \in 1 .. offset : Byte(k - 1, i) \in Octets
      BY <2>1, ByteType
    <3> HIDE DEF Octets
    <3>2. B \in Seq(Octets) /\ Len(B) = offset
      BY <3>1
    <3>3. \A i \in 1 .. offset : B[i] = Byte(k - 1, i)
      OBVIOUS
    <3> HIDE DEF B
    <3> QED
      BY <3>2, <3>3 DEF Buffers
  <2> HIDE DEF B
  <2>4. g[k - 1] = B
    BY <1>5 DEF B
  <2>5. CASE cells[k].kind = "string"
    <3> DEFINE c == cells[k]
    <3>1. /\ c.loc \in Nat /\ c.id \in DOMAIN Chars /\ Chars[c.id] \in Nat
          /\ After(c) = c.loc + (Chars[c.id] + 1) /\ After(c) <= offset
      BY <2>5, CellIs DEF After, Size, Seated
    <3>2. c.loc + Chars[c.id] <= Len(B)
      BY <2>3, <3>1
    <3>3. \A i \in 1 .. offset : Covers(k, i) <=> c.loc < i /\ i <= c.loc + Chars[c.id]
      BY <2>5 DEF Covers
    <3> HIDE DEF c
    <3>4. Write(B, c) = [i \in 1 .. Len(B) |->
                           IF c.loc < i /\ i <= c.loc + Chars[c.id] THEN c.id ELSE B[i]]
      BY <2>3, <3>1, <3>2, WriteIs
    <3>5. \A i \in 1 .. offset :
             Byte(k, i) = IF c.loc < i /\ i <= c.loc + Chars[c.id] THEN c.id ELSE B[i]
      BY <2>2, <2>3, <3>3 DEF c
    <3>6. H(k) = Write(B, c)
      BY <2>3, <3>4, <3>5
    <3> QED
      BY <2>1, <2>4, <2>5, <3>6 DEF c
  <2>6. CASE cells[k].kind # "string"
    <3>1. \A i \in 1 .. offset : Byte(k, i) = Byte(k - 1, i)
      BY <2>2, <2>6 DEF Covers
    <3>2. H(k) = B
      BY <3>1 DEF B
    <3> QED
      BY <2>1, <2>4, <2>6, <3>2
  <2> QED
    BY <2>5, <2>6
<1>6. \A k \in 0 .. n : k # 0 => k \in 1 .. n /\ k - 1 \in 0 .. n
  BY <1>1
<1>7. \A g : S(g, 0) = H(0)
  BY <1>2, <1>4
<1> HIDE DEF H, S, n, L
<1>8. G = [k \in 0 .. n |-> S(G, k)]
  <2>1. \A k \in 0 .. n : G[k] = H(k)
    OBVIOUS
  <2> HIDE DEF G
  <2>2. \A k \in 0 .. n : H(k) = S(G, k)
    BY <1>5, <1>6, <1>7, <2>1
  <2>3. G = [k \in 0 .. n |-> H(k)]
    BY DEF G
  <2> QED
    BY <2>2, <2>3
<1>9. f = [k \in 0 .. n |-> S(f, k)]
  BY <1>8
<1> HIDE DEF f
<1>10. \A k \in 0 .. n : f[k] = S(f, k)
  BY <1>9, Zenon
<1> DEFINE T == {k \in Nat : k <= n => f[k] = H(k)}
<1>11. 0 \in T
  <2>1. 0 \in 0 .. n
    BY <1>1
  <2>2. f[0] = H(0)
    BY <1>7, <1>10, <2>1
  <2> QED
    BY <2>2
<1>12. ASSUME NEW k \in Nat, k \in T PROVE k + 1 \in T
  <2>1. SUFFICES ASSUME k + 1 <= n PROVE f[k + 1] = H(k + 1)
    OBVIOUS
  <2>2. k <= n /\ k + 1 \in 1 .. n /\ k + 1 \in 0 .. n /\ k + 1 - 1 = k
    BY <1>1, <2>1
  <2>3. f[k + 1 - 1] = H(k + 1 - 1)
    BY <1>12, <2>2
  <2>4. H(k + 1) = S(f, k + 1)
    BY <1>5, <2>2, <2>3
  <2> QED
    BY <1>10, <2>2, <2>4
<1> HIDE DEF T
<1>13. n \in T
  BY <1>1, <1>11, <1>12, NatSet
<1>14. f[n] = H(n)
  BY <1>1, <1>13 DEF T
<1> QED
  BY <1>3, <1>14 DEF H, n

\* The address a string literal pushes is that of the string's characters with
\* a NUL after them, whatever variables and strings there are, if the strings
\* have a byte for each character (get_string, Compilation.heap).
THEOREM StringsEnd ==
    ASSUME Ascii
    PROVE  Spec => []StringsTerminated
<1>1. Sound => StringsTerminated
  <2> SUFFICES ASSUME Sound, phase = "running", Tag(pos) = "string"
               PROVE  LET s == toks[pos].data
                          o == Operand - (CODE_LOC + 2 * Len(code))
                      IN  \A i \in 1 .. Bytes[s] + 1 :
                             /\ o + i \in 1 .. Len(heap)
                             /\ heap[o + i] = IF i <= Bytes[s] THEN s ELSE 0
    BY DEF StringsTerminated
  <2>1. Inv /\ AtEnd /\ Execution /\ Seated /\ cells \in Heaps /\ offset \in Nat
    BY DEF Sound, Inv, WellTyped
  <2>2. /\ pos \in 1 .. Len(toks) + 1 /\ Finished /\ Len(code) = Len(ins)
        /\ CODE_LOC \in Nat
    BY <2>1, Here
  <2>3. pos \in 1 .. Len(toks)
    <3>1. Len(toks) \in Nat
      BY <2>1, <2>2, Compiled
    <3> QED
      BY <2>2, <3>1 DEF Tag
  <2>4. toks[pos].tag = "string" /\ Width(toks, pos) = 2
    BY <2>1, <2>3, TagIs DEF Width
  <2>5. InCell(cells, "string", toks[pos].data, ins[at[pos] + 2])
    BY <2>1, <2>2, <2>3, <2>4, Compiled DEF Coded, HasArg
  <2>6. PICK m \in 1 .. Len(cells) :
           /\ cells[m].kind = "string" /\ cells[m].id = toks[pos].data
           /\ ins[at[pos] + 2] = HeapAt(cells[m].loc)
    BY <2>5 DEF InCell
  <2> DEFINE s == cells[m].id
             o == cells[m].loc
             h == Operand - (CODE_LOC + 2 * Len(code))
             n == Len(cells)
  <2>7. /\ o \in Nat /\ s \in DOMAIN Chars /\ Chars[s] \in Nat /\ Bytes[s] = Chars[s]
        /\ After(cells[m]) = o + (Chars[s] + 1) /\ After(cells[m]) <= offset
    BY <2>1, <2>6, CellIs DEF After, Size, Seated, Ascii
  <2>8. n \in Nat /\ n \in 0 .. n /\ Len(code) \in Nat
    BY <2>1, <2>2, Lengths, Compiled
  <2>9. h = o
    <3>1. Operand = CODE_LOC + 2 * Len(code) + o
      BY <2>1, <2>3, <2>4, <2>6, HeapOperand
    <3> QED
      BY <2>2, <2>7, <2>8, <3>1
  <2>10. heap = [i \in 1 .. offset |-> Byte(n, i)]
    BY <2>1, HeapIs DEF Execution
  <2>11. Len(heap) = offset
    BY <2>1, <2>10
  <2>12. ASSUME NEW i \in 1 .. Bytes[s] + 1
         PROVE  /\ o + i \in 1 .. Len(heap)
                /\ heap[o + i] = IF i <= Bytes[s] THEN s ELSE 0
    <3>1. i \in Nat /\ o + i \in 1 .. offset /\ o + i \in Nat
      BY <2>1, <2>7
    <3>2. heap[o + i] = Byte(n, o + i)
      BY <2>10, <3>1
    <3>3. CASE i <= Bytes[s]
      <4>1. Covers(m, o + i)
        BY <2>6, <2>7, <3>1, <3>3 DEF Covers
      <4>2. Byte(n, o + i) = s
        BY <2>1, <2>8, <3>1, <4>1, ByteIs
      <4> QED
        BY <2>11, <3>1, <3>2, <3>3, <4>2
    <3>4. CASE i = Bytes[s] + 1
      <4>1. o + i = After(cells[m])
        BY <2>7, <3>4
      <4>2. ASSUME NEW j \in 1 .. n, Covers(j, o + i) PROVE FALSE
        <5>1. /\ cells[j].loc \in Nat /\ Chars[cells[j].id] \in Nat
              /\ After(cells[j]) = cells[j].loc + (Chars[cells[j].id] + 1)
          BY <2>1, <4>2, CellIs DEF Covers, After, Size
        <5>2. cells[j].loc < After(cells[m]) /\ After(cells[m]) < After(cells[j])
          BY <3>1, <4>1, <4>2, <5>1 DEF Covers
        <5>3. ~(m < j)
          <6>1. m < j => After(cells[m]) <= cells[j].loc
            BY <2>1 DEF Seated
          <6> QED
            BY <3>1, <4>1, <5>1, <5>2, <6>1
        <5>4. ~(j < m)
          <6>1. SUFFICES ASSUME j < m PROVE FALSE
            OBVIOUS
          <6>2. After(cells[j]) <= o
            BY <2>1, <6>1 DEF Seated
          <6> DEFINE a == After(cells[j])
                     b == After(cells[m])
          <6>3. a <= o /\ b < a /\ b = o + (Chars[s] + 1) /\ a \in Nat
            <7>1. a \in Nat
              BY <2>1, CellIs
            <7>2. a <= o
              BY <6>2
            <7>3. b < a
              BY <5>2
            <7>4. b = o + (Chars[s] + 1)
              BY <2>7
            <7> QED
              BY <7>1, <7>2, <7>3, <7>4
          <6> HIDE DEF a, b
          <6> QED
            BY <2>7, <6>3
        <5>5. j = m
          BY <2>8, <5>3, <5>4
        <5> QED
          BY <3>1, <4>1, <5>1, <5>2, <5>5
      <4>3. Byte(n, o + i) = 0
        BY <4>2 DEF Byte, Covered
      <4> QED
        BY <2>7, <2>11, <3>1, <3>2, <3>4, <4>3
    <3> QED
      BY <2>7, <3>1, <3>3, <3>4
  <2> HIDE DEF s, o, h
  <2> QED
    BY <2>6, <2>9, <2>12 DEF s, h
<1> QED
  BY <1>1, SoundAlways, PTL

=============================================================================
