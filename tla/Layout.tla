------------------------------- MODULE Layout -------------------------------
(***************************************************************************)
(* The task table in the microchip's data memory (src/minitasks.h) and the *)
(* address arithmetic the kernel does on it.  Addresses are real numbers   *)
(* of bytes, because every hazard of this kernel is about which byte       *)
(* belongs to whom.                                                        *)
(***************************************************************************)
EXTENDS Integers

CONSTANTS
    MAX_TASKS,      \* number of slots in TASKS
    TASK_MEM_SIZE,  \* bytes of CODE + HEAP + FREE + STACK in a slot
    TASKS_LOC       \* address the linker gave to TASKS

ASSUME LayoutAssumption ==
    /\ MAX_TASKS \in Nat \ {0}
    /\ TASK_MEM_SIZE \in Nat /\ TASK_MEM_SIZE > 1
    /\ TASKS_LOC \in Nat

\* Addresses are two bytes wide; the stack pointer is two one-byte ports.
BYTE == 256

Lo(a) == a % BYTE
Hi(a) == a \div BYTE

Tasks == 0 .. MAX_TASKS - 1

\* task_t is packed: state (1 byte), code_size (2), free (2), then mem.
STATE_OFFSET == 0
FREE_OFFSET  == 3
FIELDS_SIZE  == 5
TASK_SIZE    == FIELDS_SIZE + TASK_MEM_SIZE

TaskLoc(t) == TASKS_LOC + t * TASK_SIZE     \* &TASKS[t]
MemLoc(t)  == TaskLoc(t) + FIELDS_SIZE      \* TASKS[t].mem

\* The stack pointer of an empty stack: PUSH stores at SP and then
\* decrements it, so SP starts on the last byte of the slot (a slip would be
\* one past it).
StackTopPastSlot(t) == MemLoc(t) + TASK_MEM_SIZE
StackTop(t) == MemLoc(t) + TASK_MEM_SIZE - 1

\* Do the n bytes from a and the m bytes from b have a byte in common?
Overlap(a, n, b, m) == a < b + m /\ b < a + n

=============================================================================
