------------------------------ MODULE MCKernel ------------------------------
(***************************************************************************)
(* The last two slots of the real table (337 + 3 * 389 = 1504, 384 bytes   *)
(* of mem) and two programs: "note" grows the heap in an atomic block and  *)
(* then loops, "hog" fills its slot to the last byte and halts inside an   *)
(* atomic block.                                                           *)
(***************************************************************************)
EXTENDS Kernel

I(op) == [op |-> op, to |-> 0]
J(op, to) == [op |-> op, to |-> to]

MCPrograms == {"note", "hog"}

MCCode ==
    [note |-> <<I("atomic"), I("push"), I("hpush"), I("end_atomic"),
                I("push"), I("assert"),
                I("push"), I("unary"), J("jumpif", 5), J("jump", 5)>>,
     hog  |-> <<I("push"), I("push"), I("setptr"), I("push"), I("pop"),
                I("push"), I("hpush"), I("atomic"), I("halt")>>]

MCPayloadSize == [note |-> 32, hog |-> 384]

MCDepth == [note |-> <<0, 0, 2, 0, 0, 2, 0, 2, 2, 0>>,
            hog  |-> <<0, 2, 4, 0, 2, 0, 2, 0, 0>>]

MCGrown == [note |-> <<0, 0, 0, 2, 2, 2, 2, 2, 2, 2>>,
            hog  |-> <<0, 0, 0, 0, 0, 0, 0, 2, 2>>]

MCQuiet ==
    [note |-> [i \in 1 .. 10 |-> i \in 2 .. 4],
     hog  |-> [i \in 1 .. 9 |-> i = 9]]

\* Slot 1's fields; the top of slot 0's stack.
MCPokes == {[at |-> TaskLoc(1), len |-> FIELDS_SIZE],
            [at |-> StackTop(0) - 3, len |-> 4]}

=============================================================================
