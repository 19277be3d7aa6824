------------------------------ MODULE TaskCode ------------------------------
(***************************************************************************)
(* Compiled code on the interpreter of src/tasklang.S, in lockstep with    *)
(* the text it was compiled from.                                          *)
(*                                                                         *)
(* The interpreter's half is the instruction pointer and the I flag.  The  *)
(* reader's half, the reference, knows nothing of addresses: it is the     *)
(* token the program is at.  Every instruction stands for one step of the  *)
(* text: the jumps for a loop's closing brace, continue and break.         *)
(***************************************************************************)
EXTENDS Compiler

CONSTANT CODE_LOC   \* where the slot's mem begins

ASSUME TaskCodeAssumption == CODE_LOC \in Nat

VARIABLES
    code,       \* the words of the code, as loaded
    heap,       \* the bytes of its heap, as loaded
    y,          \* instruction pointer: address of the next word
    iflag,      \* the I bit
    pos,        \* the token the program is at; past the last one at its end
    done        \* the interpreter reached halt

vars == <<compiler, phase, code, heap, y, iflag, pos, done>>
task == <<code, heap, y, iflag, pos, done>>
loaded == <<compiler, phase, code, heap>>

-----------------------------------------------------------------------------
(* The reference: what the tokens of a text mean                           *)

Tag(k) == IF k > Len(toks) THEN "halt" ELSE toks[k].tag

\* The tag of the block that the brace at k closes.
Closes(k) == toks[toks[k].data].tag

\* Entering a loop or a block, and leaving a block or the body of an "if",
\* takes no instruction.
Silent(k) ==
    \/ Tag(k) \in StrongTags
    \/ Tag(k) = "close" /\ Closes(k) \in {"if", "block"}

Settle(k) == Min({q \in k .. Len(toks) + 1 : ~Silent(q)})

Goes     == Settle(pos + 1)
Skips    == Settle(EndOf(toks, pos) + 1)
Leaves   == Settle(EndOf(toks, Home(toks, pos)) + 1)
Restarts == Settle(Home(toks, pos) + 1)
Repeats  == Settle(toks[pos].data + 1)

InAtomic(k) == \E j \in Around(toks, k) : toks[j].tag = "atomic"

\* The instruction that does what the program does at k.
OpFor(k) ==
    CASE Tag(k) \in {"int", "string"} -> "literal"
      [] Tag(k) = "if" -> "jumpif"
      [] Tag(k) = "while" -> "jumpifnot"
      [] Tag(k) \in {"continue", "break"} -> "jump"
      [] Tag(k) = "close" -> IF Closes(k) = "loop" THEN "jump" ELSE "end_atomic"
      [] OTHER -> Tag(k)

-----------------------------------------------------------------------------
(* The interpreter                                                         *)

Init ==
    /\ CompilerInit
    /\ code = <<>> /\ heap = <<>>
    /\ y = CODE_LOC /\ iflag = TRUE /\ pos = 1 /\ done = FALSE

Compile == CompilerNext /\ UNCHANGED task

\* The client relocates and loads what was compiled, and starts it.
Load ==
    /\ phase = "compiled"
    /\ phase' = "running"
    /\ code' = Relocated(ins, CODE_LOC)
    /\ heap' = Heap(cells)
    /\ pos' = Settle(1)
    /\ UNCHANGED <<compiler, y, iflag, done>>

WordAt(a) == code[(a - CODE_LOC) \div 2 + 1]
AtOp(op)  == phase = "running" /\ ~done /\ WordAt(y).op = op
Operand   == WordAt(y + 2).arg

\* Instructions that go on to the next one, past their operand.
Straight ==
    /\ \/ AtOp("builtin") /\ y' = y + 2
       \/ \E op \in {"literal", "store", "load"} : AtOp(op) /\ y' = y + 4
    /\ pos' = Goes
    /\ UNCHANGED <<loaded, iflag, done>>

\* The value popped may be zero or not.  As compiled, "if" runs its body when
\* it is zero: the jump over the body is taken when it is not.
JumpIf ==
    /\ AtOp("jumpif")
    /\ \/ y' = Operand /\ pos' = Skips
       \/ y' = y + 4   /\ pos' = Goes
    /\ UNCHANGED <<loaded, iflag, done>>

JumpIfNot ==
    /\ AtOp("jumpifnot")
    /\ \/ y' = Operand /\ pos' = Leaves
       \/ y' = y + 4   /\ pos' = Goes
    /\ UNCHANGED <<loaded, iflag, done>>

Jump ==
    /\ AtOp("jump")
    /\ y' = Operand
    /\ pos' = CASE Tag(pos) = "break" -> Leaves
                [] Tag(pos) = "continue" -> Restarts
                [] OTHER -> Repeats
    /\ UNCHANGED <<loaded, iflag, done>>

Atomic ==
    /\ AtOp("atomic")
    /\ y' = y + 2 /\ iflag' = FALSE
    /\ pos' = Goes
    /\ UNCHANGED <<loaded, done>>

\* A slip would be to forget sei.
EndAtomicWithoutSei ==
    /\ AtOp("end_atomic")
    /\ y' = y + 2
    /\ pos' = Goes
    /\ UNCHANGED <<loaded, iflag, done>>
EndAtomic ==
    /\ AtOp("end_atomic")
    /\ y' = y + 2 /\ iflag' = TRUE
    /\ pos' = Goes
    /\ UNCHANGED <<loaded, done>>

Halt ==
    /\ AtOp("halt")
    /\ done' = TRUE
    /\ UNCHANGED <<loaded, y, iflag, pos>>

Next ==
    \/ Compile \/ Load
    \/ Straight \/ JumpIf \/ JumpIfNot \/ Jump \/ Atomic \/ EndAtomic \/ Halt

Spec == Init /\ [][Next]_vars

-----------------------------------------------------------------------------
(* What the compiler promises                                              *)

Ops == {"literal", "store", "load", "jump", "jumpif", "jumpifnot", "atomic",
        "end_atomic", "halt", "builtin"}
Operands == {"value", "code", "heap"}

TypeOK ==
    /\ phase \in {"compiling", "refused", "compiled", "running"}
    /\ Len(at) = Len(toks) + 1
    /\ \A k \in 1 .. Len(at) : at[k] \in 0 .. Len(ins)
    /\ \A i \in 1 .. Len(ins) : ins[i].op \in Ops \cup Operands
    /\ \A d \in 1 .. Len(blocks) : blocks[d].home \in 1 .. d
                                   /\ blocks[d].tok \in 0 .. Len(toks)
    /\ \A p \in pending : p[1] \in 1 .. Len(ins) /\ p[2] \in 1 .. Len(blocks)
    /\ \A k \in 1 .. Len(cells) : cells[k].loc \in 0 .. offset
    /\ offset \in Nat /\ y \in Nat
    /\ iflag \in BOOLEAN /\ done \in BOOLEAN
    /\ pos \in 1 .. Len(toks) + 1

InCode(a) == a \in {CODE_LOC + 2 * (i - 1) : i \in 1 .. Len(code)}

\* The instruction pointer is at an instruction, and at the one that does what
\* the program does next, with the program's own operand: no path through
\* nested blocks, breaks and restarts leads anywhere else.
InLockstep ==
    phase = "running" =>
    /\ InCode(y)
    /\ WordAt(y).op = OpFor(pos)
    /\ Tag(pos) = "builtin" => WordAt(y).arg = toks[pos].data
    /\ Tag(pos) = "int" => Operand = toks[pos].data
    /\ Tag(pos) \in {"store", "load"} =>
         Operand = CODE_LOC + 2 * Len(code) + LocOf(cells, "var", toks[pos].data)

\* Every jump of the code, in reach or not, goes to an instruction: none keeps
\* the location it was emitted with, and none lands on an operand.
JumpsLandOnOps ==
    \A i \in 1 .. Len(code) :
        code[i].op = "code"
        => InCode(code[i].arg) /\ WordAt(code[i].arg).op \notin Operands

\* No atomic block inside another, and none that is left in the middle.
Tidy ==
    \A k \in 1 .. Len(toks) :
        /\ Tag(k) = "atomic" => ~InAtomic(k)
        /\ Tag(k) \in {"while", "break", "continue"} =>
              \A j \in Around(toks, k) :
                 toks[j].tag = "atomic" => j < Home(toks, k)

\* A program whose atomic blocks are neither nested nor left in the middle has
\* interrupts off exactly inside them.
FlagFollowsBlocks ==
    phase = "running" /\ Tidy => (iflag <=> ~InAtomic(pos))

\* The address a string literal pushes is that of the string's bytes with a
\* NUL after them (tasklang.py:376).
StringsTerminated ==
    phase = "running" /\ Tag(pos) = "string"
    => LET s == toks[pos].data
           o == Operand - (CODE_LOC + 2 * Len(code))
       IN  \A i \in 1 .. Bytes[s] + 1 :
              /\ o + i \in 1 .. Len(heap)
              /\ heap[o + i] = IF i <= Bytes[s] THEN s ELSE 0

\* Two variables, two strings, or one of each share no byte, and all lie in
\* the heap that is sent.
Size(c) == IF c.kind = "string" THEN Chars[c.id] + 1 ELSE 2
CellsApart ==
    /\ \A j, k \in 1 .. Len(cells) :
          j < k => /\ cells[j].loc + Size(cells[j]) <= cells[k].loc
                   /\ <<cells[j].kind, cells[j].id>> # <<cells[k].kind, cells[k].id>>
    /\ \A k \in 1 .. Len(cells) : cells[k].loc + Size(cells[k]) <= HeapSize(cells)

=============================================================================
