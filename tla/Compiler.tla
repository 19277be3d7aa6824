------------------------------ MODULE Compiler ------------------------------
(***************************************************************************)
(* The tasklang compiler (src/tasklang.py).  Its parser is a generator     *)
(* that the code generator drains one item at a time, so a text is         *)
(* compiled in one pass: every token is a step of the machine below, whose *)
(* stack holds the activations of _process, one for each open block.       *)
(*                                                                         *)
(* A token is [tag, data]: data is the number of an integer, a builtin, a  *)
(* variable or a string.  A block token stands for itself and its brace,   *)
(* "block" for a brace alone; parentheses, which are skipped, are left     *)
(* out.  Code is a sequence of words [op, arg], one for each two-byte word *)
(* that the client sends: an instruction, or the operand of the one before *)
(* it, marked with what the client must add to it.                         *)
(***************************************************************************)
EXTENDS Naturals, Sequences, FiniteSetsExt

CONSTANTS
    Tokens,     \* what a text is made of, closing braces apart
    Chars,      \* Chars[s]: characters of string s
    Bytes,      \* Bytes[s]: bytes of string s once encoded as UTF-8
    Bounds,     \* [tokens, length]: bounds on texts, of which each meets one
    Examples    \* texts that need not

LeafTags   == {"builtin", "int", "string", "store", "load", "while",
               "continue", "break"}
StrongTags == {"loop", "block"}
BlockTags  == StrongTags \cup {"if", "atomic"}

ASSUME CompilerAssumption ==
    /\ \A t \in Tokens : /\ t = [tag |-> t.tag, data |-> t.data]
                         /\ t.tag \in LeafTags \cup BlockTags
                         /\ t.tag = "string" => t.data \in DOMAIN Chars
    /\ \A s \in DOMAIN Chars :
          Chars[s] \in Nat /\ Bytes[s] \in Nat /\ Bytes[s] >= Chars[s]
    /\ \A b \in Bounds : b.length \in Nat

-----------------------------------------------------------------------------
(* Texts, as a reader sees them                                            *)

\* A closing brace carries the number of the token it closes.
End(j) == [tag |-> "close", data |-> j]

\* The block tokens before token k that no brace before k closes.
Around(ts, k) ==
    {j \in 1 .. k - 1 : /\ ts[j].tag \in BlockTags
                        /\ \A c \in 1 .. k - 1 : ts[c] # End(j)}

\* The innermost of these; 0 stands for the whole text.
Innermost(S) == IF S = {} THEN 0 ELSE Max(S)

\* Loops and plain blocks are what break, while and continue refer to.
Home(ts, k) ==
    Innermost({j \in Around(ts, k) : ts[j].tag \in StrongTags})

EndOf(ts, j) ==
    IF j = 0 THEN Len(ts) ELSE CHOOSE c \in 1 .. Len(ts) : ts[c] = End(j)

-----------------------------------------------------------------------------
VARIABLES
    toks,       \* history: the tokens read
    at,         \* history: at[k] words were there before token k was read
    blocks,     \* the activations of _process: [tag, at, home, tok]
    ins,        \* instructions
    pending,    \* <<i, d>>: word i waits for the end of blocks[d]
    cells,      \* vars and strings, as they were first met: [kind, id, loc]
    offset,     \* heap_offset
    phase

compiler == <<toks, at, blocks, ins, pending, cells, offset>>

Op(op)   == [op |-> op, arg |-> 0]
Value(n) == [op |-> "value", arg |-> n]     \* push_value
To(i)    == [op |-> "code", arg |-> i]      \* push_code_location
HeapAt(o) == [op |-> "heap", arg |-> o]     \* push_heap_location
Builtin(b) == [op |-> "builtin", arg |-> b] \* push_builtin

\* A jump location that is filled in later.
UNSET == 99999

\* A block's activation: where its code starts (of an "if": the word to fill
\* in), which strong block break and continue refer to, and its token.
Frame(tag, w, home, tok) ==
    [tag |-> tag, at |-> w, home |-> home, tok |-> tok]

CompilerInit ==
    /\ toks = <<>> /\ at = <<0>> /\ ins = <<>> /\ pending = {}
    /\ blocks = <<Frame("block", 0, 1, 0)>>
    /\ cells = <<>> /\ offset = 0
    /\ phase = "compiling"

Top == blocks[Len(blocks)]

MayRead(t) ==
    LET ts == Append(toks, t)
    IN  \/ \E b \in Bounds :
              /\ Len(ts) <= b.length
              /\ \A k \in 1 .. Len(ts) : ts[k].tag = "close" \/ ts[k] \in b.tokens
        \/ \E e \in Examples : Len(ts) <= Len(e) /\ ts = SubSeq(e, 1, Len(ts))

\* Token t is read and code becomes the instructions.
Reads(t, code) ==
    /\ phase = "compiling" /\ MayRead(t)
    /\ toks' = Append(toks, t)
    /\ ins' = code
    /\ at' = Append(at, Len(code))
    /\ UNCHANGED phase

Call(t) ==
    /\ t.tag = "builtin"
    /\ Reads(t, ins \o <<Builtin(t.data)>>)
    /\ UNCHANGED <<blocks, pending, cells, offset>>

Literal(t) ==
    /\ t.tag = "int"
    /\ Reads(t, ins \o <<Op("literal"), Value(t.data)>>)
    /\ UNCHANGED <<blocks, pending, cells, offset>>

Cell(kind, id, loc) == [kind |-> kind, id |-> id, loc |-> loc]
Known(kind, id) ==
    \E k \in 1 .. Len(cells) : cells[k].kind = kind /\ cells[k].id = id
LocOf(cs, kind, id) ==
    cs[CHOOSE k \in 1 .. Len(cs) : cs[k].kind = kind /\ cs[k].id = id].loc

\* getvar and get_string give a place to what they meet for the first time.
Get(kind, id, size) ==
    IF Known(kind, id) THEN UNCHANGED <<cells, offset>>
    ELSE /\ cells' = Append(cells, Cell(kind, id, offset))
         /\ offset' = offset + size

\* One more for the NUL terminator, and two bytes for a variable; slips would
\* be to forget the one, or to count one.
StringSizeNoNul(s) == Chars[s]
StringSize(s) == Chars[s] + 1
VariableSizeByte == 1
VariableSize == 2

String(t) ==
    /\ t.tag = "string"
    /\ Get("string", t.data, StringSize(t.data))
    /\ Reads(t, ins \o <<Op("literal"), HeapAt(LocOf(cells', "string", t.data))>>)
    /\ UNCHANGED <<blocks, pending>>

Variable(t) ==
    /\ t.tag \in {"store", "load"}
    /\ Get("var", t.data, VariableSize)
    /\ Reads(t, ins \o <<Op(t.tag), HeapAt(LocOf(cells', "var", t.data))>>)
    /\ UNCHANGED <<blocks, pending>>

\* while and break leave the strong block they are in: the jump waits for its
\* end.
Leave(t) ==
    /\ t.tag \in {"while", "break"}
    /\ Reads(t, ins \o <<Op(IF t.tag = "while" THEN "jumpifnot" ELSE "jump"),
                         To(UNSET)>>)
    /\ pending' = pending \cup {<<Len(ins) + 2, Top.home>>}
    /\ UNCHANGED <<blocks, cells, offset>>

Continue(t) ==
    /\ t.tag = "continue"
    /\ Reads(t, ins \o <<Op("jump"), To(blocks[Top.home].at)>>)
    /\ UNCHANGED <<blocks, pending, cells, offset>>

\* A weak block hands on the strong block it is in.
If(t) ==
    /\ t.tag = "if"
    /\ Reads(t, ins \o <<Op("jumpif"), To(UNSET)>>)
    /\ blocks' = Append(blocks,
                        Frame("if", Len(ins) + 2, Top.home, Len(toks) + 1))
    /\ UNCHANGED <<pending, cells, offset>>

Atomically(t) ==
    /\ t.tag = "atomic"
    /\ Reads(t, ins \o <<Op("atomic")>>)
    /\ blocks' = Append(blocks,
                        Frame("atomic", Len(ins), Top.home, Len(toks) + 1))
    /\ UNCHANGED <<pending, cells, offset>>

StrongBlock(t) ==
    /\ t.tag \in StrongTags
    /\ Reads(t, ins)
    /\ blocks' = Append(blocks, Frame(t.tag, Len(ins), Len(blocks) + 1,
                                      Len(toks) + 1))
    /\ UNCHANGED <<pending, cells, offset>>

\* A closing brace closes the last block token that is not closed yet.
Brace == End(Innermost(Around(toks, Len(toks) + 1)))

Pop == blocks' = SubSeq(blocks, 1, Len(blocks) - 1) /\ UNCHANGED <<cells, offset>>

\* What waits for the end of the innermost block gets it.
Settled(end) ==
    [i \in 1 .. Len(ins) |-> IF <<i, Len(blocks)>> \in pending THEN To(end)
                             ELSE ins[i]]
Settling == pending' = {p \in pending : p[2] # Len(blocks)}

\* A loop's end is past the jump back to its start that has yet to be emitted;
\* slips would be to forget that jump, or the operand of it.
EndOfBlockAtJump(n, extra) == n
EndOfBlockInJump(n, extra) == IF extra = 0 THEN n ELSE n + 1
EndOfBlock(n, extra) == n + extra

CloseIf ==
    /\ Len(blocks) > 1 /\ Top.tag = "if"
    /\ Reads(Brace, [ins EXCEPT ![Top.at] = To(Len(ins))])
    /\ Pop /\ UNCHANGED pending

CloseAtomic ==
    /\ Len(blocks) > 1 /\ Top.tag = "atomic"
    /\ Reads(Brace, ins \o <<Op("end_atomic")>>)
    /\ Pop /\ UNCHANGED pending

CloseBlock ==
    /\ Len(blocks) > 1 /\ Top.tag = "block"
    /\ Reads(Brace, Settled(EndOfBlock(Len(ins), 0)))
    /\ Pop /\ Settling

CloseLoop ==
    /\ Len(blocks) > 1 /\ Top.tag = "loop"
    /\ Reads(Brace, Settled(EndOfBlock(Len(ins), 2)) \o <<Op("jump"), To(Top.at)>>)
    /\ Pop /\ Settling

\* An unknown token, a block token without its brace, a brace too many, or the
\* end of the text inside a block.
Refuse ==
    /\ phase = "compiling"
    /\ phase' = "refused"
    /\ UNCHANGED compiler

\* The end of the text.
Finish ==
    /\ phase = "compiling" /\ Len(blocks) = 1
    /\ phase' = "compiled"
    /\ ins' = Settled(EndOfBlock(Len(ins), 0)) \o <<Op("halt")>>
    /\ blocks' = <<>> /\ Settling
    /\ UNCHANGED <<toks, at, cells, offset>>

CompilerNext ==
    \/ \E t \in Tokens : \/ Call(t) \/ Literal(t) \/ String(t) \/ Variable(t)
                         \/ Leave(t) \/ Continue(t)
                         \/ If(t) \/ Atomically(t) \/ StrongBlock(t)
    \/ CloseIf \/ CloseAtomic \/ CloseBlock \/ CloseLoop
    \/ Refuse \/ Finish

-----------------------------------------------------------------------------
(* Compilation.heap and Client.compile_task                                *)

\* The characters and terminators of the strings, and the variables.
HeapSize(cs) ==
    LET size[k \in 0 .. Len(cs)] ==
            IF k = 0 THEN 0
            ELSE size[k - 1] + IF cs[k].kind = "string" THEN Chars[cs[k].id] + 1
                               ELSE 2
    IN  size[Len(cs)]

\* The bytes of the heap as the client sends them: 0, or the number of the
\* string whose byte it is.  Each string replaces as many bytes as it has
\* characters.
Write(buf, s) ==
    SubSeq(buf, 1, s.loc)
      \o [i \in 1 .. Bytes[s.id] |-> s.id]
      \o SubSeq(buf, s.loc + Chars[s.id] + 1, Len(buf))
Heap(cs) ==
    LET buf[k \in 0 .. Len(cs)] ==
            IF k = 0 THEN [i \in 1 .. HeapSize(cs) |-> 0]
            ELSE IF cs[k].kind = "string" THEN Write(buf[k - 1], cs[k])
            ELSE buf[k - 1]
    IN  buf[Len(cs)]

\* The words LOAD_TASK carries for code at address loc.
Relocated(code, loc) ==
    [i \in 1 .. Len(code) |->
        CASE code[i].op = "code" -> To(loc + 2 * code[i].arg)
          [] code[i].op = "heap" -> HeapAt(loc + 2 * Len(code) + code[i].arg)
          [] OTHER -> code[i]]

=============================================================================
