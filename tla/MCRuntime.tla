------------------------------ MODULE MCRuntime ------------------------------
(***************************************************************************)
(* Runtime with bytes of two bits.                                         *)
(***************************************************************************)
EXTENDS Runtime

\* A byte out of what an operator makes of its bits.
OnBits(bit(_, _)) ==
    [a \in Byte |-> [b \in Byte |-> bit(a % 2, b % 2)
                                     + 2 * bit(a \div 2, b \div 2)]]

BothBits(a, b)  == a * b
EitherBit(a, b) == a + b - a * b
OneBit(a, b)    == (a + b) % 2

MCBitOps == [op \in BitNames |-> CASE op = "bitand" -> OnBits(BothBits)
                                   [] op = "bitor"  -> OnBits(EitherBit)
                                   [] op = "bitxor" -> OnBits(OneBit)]

=============================================================================
