# Minitasks in TLA+

Models, model-checking runs and machine-checked proofs for *minitasks*
(`src/minitasks.c`, `src/minitasks.h`, `src/tasklang.S`, `src/minitasks.py`,
`src/miniserial.py`, `src/tasklang.py`): a small operating system for an
ATmega328P that runs tasks written in a stack language, the Python client
that compiles them and talks to the board over a serial line, and the USB
serial driver of the host (`src/avr-experiments/ch34x/ch34x.c`, for the CH341
chip on the board's USB port) that carries that line.

## 1. The system

| Part | State it keeps | Operations |
| --- | --- | --- |
| Task table (`minitasks.h`) | `TASKS[t]`: `state`, `code_size`, `free`, `mem` (code, heap, free, stack in one block of 384 bytes) | written by `tasks_init`, the handlers, and any stack or heap that outgrows its place |
| Kernel main thread (`minitasks.c:16-35, 336-374`) | SP, the I flag, `task_id` | start-up, `main`, the polling loop, dispatch |
| Interpreter (`tasklang.S`) | Y = instruction pointer, X = heap pointer, SP = the task's stack | `_next` and one routine per instruction |
| Receive interrupt (`minitasks.c:131-293`) | nothing between messages; its frame is on the current stack | PING, GET_OFFSETS, GET_BUILTIN_LOCATIONS, LOAD, START, STOP, INSPECT, GET_MEMORY, SET_MEMORY, plain data; `die` |
| USART | receive buffer of a few bytes, transmit register | `uart_get`, `uart_put`, both busy waits |
| Client (`minitasks.py:144-345`) | cached offsets and builtin locations | one method per message, `compile_task`, `refresh` |
| Command loop (`minitasks.py:348-449`) | terminal mode | typed bytes, printing of unread bytes, commands |
| Compiler (`tasklang.py`) | none | `tokenize`, `parse`, `compile` |
| USB driver, write side (`ch34x.c:104-283, 860-989, 1235-1276`) | the circular buffer, `write_urb_in_use`, one write URB | `ch34x_write`, `ch34x_send`, `ch34x_chars_in_buffer`, the write callback, what `close` does to them |
| USB driver, receiving side (`ch34x.c:619-735, 776-818, 1060-1233`) | two input URBs, `line_status`, `wait_flag` | the callbacks, `open`, `close`, `TIOCMIWAIT` |
| USB driver, settings (`ch34x.c:302-530, 638-651, 758-774`) | `line_control`, the chip's registers | `set_termios`, `get_baud_rate`, `tiocmset`, HUPCL |

How they interact: the client writes bytes and blocks in `read`; every byte
that finds the handler idle raises an interrupt, which reads the *rest* of the
message inside the interrupt, by busy waiting, and writes its answer the same
way. The handler and the main thread share the task table without locks; only
the I flag keeps them apart, and the language gives tasks `atomic { }` to clear
it. The running task, the interrupt and the table share memory: a task's stack
is the end of its slot, and an interrupt pushes its frame there.

On the host the client's `write` ends in `ch34x_write`, which fills the
circular buffer and submits the write URB if nobody else has it; the callback
of a finished transfer submits the rest. Callers, callbacks and `close` run in
different contexts and share the buffer and `line_control` under a spinlock
that is given up before the USB core is called; `write_urb_in_use`,
`line_status` and `wait_flag` are shared partly or wholly without it.

What is hard about it, and what must hold:

* **One memory, several writers.** Frames, stacks, heaps and messages write
  next to each other with nothing to check them. Correct means: in the
  situations the design allows, nobody writes a byte somebody else uses
  (`FrameHarmless`, `DamageConfined`).
* **Two-step changes under interrupts.** SP is written in two instructions,
  `free` is read in two, and `state` is checked before either.
* **A handler that may replace what it interrupted** (LOAD of the running
  slot): `CodeStaysPut`, `LoadPauses`.
* **Interrupts off.** The board must not become deaf by itself
  (`DeafOnlyInAtomic`, `HearsAgain`), because bytes are then lost
  (`OverrunHasCause`) and with them the framing of the stream. A task that halts
  inside an atomic block makes it deaf for good; that is excepted by the first
  property and by `CallsReturn`, not excluded.
* **A protocol without lengths or checksums.** A call that breaks off, or an
  answer nobody reads, shifts everything after it (`InOrder`, `OwnAnswer`), and
  the handler dies of the first type it does not know (`DeathHasCause`).
* **Words out of bytes.** Every instruction works on 16-bit words one byte at a
  time, and by hand repeats the order of bytes that all others rely on
  (`MachineSpec`).
* **Jumps fixed up after the fact.** A `break` is emitted before anybody knows
  where its block ends; each must get that place, once, whatever blocks are in
  between (`InLockstep`, `JumpsLandOnOps`, `FlagFollowsBlocks`), and each name its own
  piece of heap (`CellsApart`, `StringsTerminated`).
* **A buffer between contexts.** The URB has one owner (`OwnedOnce`), the bytes
  leave whole and in order (`StreamSpec`, `NothingLost`) and none is forgotten
  between a writer that sees the URB in use and a callback that sees the buffer
  empty (`Delivered`).
* **URBs that submit themselves again**, while `open` fails or `close` kills
  them: `ListensWhileOpen`, `QuietWhenClosed`, `QuietAfterClose`.
* **A status with two meanings and a wait on it**: `FlaggedOnce`,
  `ReturnsOnChange`, `SignalEndsWait`, `StatusIsLookedAt`.
* **Control messages sent after the lock is released**: `LinesFollow`,
  `HangupDrops`, `ConfigFollows`, `RateNearest`.
* **Progress.** Calls return (`CallsReturn`), started tasks are dispatched
  (`PolledInTurn`).

`PROJECT.json` lists every hazard with its line and the properties about it.

## 2. Modules

```
Layout          the task table and its addresses
  Kernel        main thread, interpreter, interrupt: one byte-exact memory map
    MCKernel    two slots, two programs
    KernelProofs    theorems (TLAPS)
Conversation    abstract: messages asked, handled in order, answered
Wire            client, line, USART, handler: byte by byte; implements it
  MCWire        one call of each shape
  WireProofs    theorems (TLAPS)
Compiler        parser and code generator, a token at a time; heap, relocation
  TaskCode      compiled code on the interpreter, beside the meaning of its text
    MCTaskCode      every text of a few tokens, the compiler's own test
    TaskCodeProofs  theorems (TLAPS)
Machine         abstract: a stack of words
  Runtime       the instructions with their values; implements Machine
    MCRuntime       bytes of two bits
    RuntimeProofs   the refinement (TLAPS)
Ring            the driver's circular buffer (pure operators)
Stream          abstract: bytes leave in order
  StreamProofs  it keeps them whole (TLAPS)
UsbWrite        write side of the driver (EXTENDS Ring); implements Stream
    MCUsbWrite      two writers
    UsbWriteProofs  lemmas about the ring, theorems, the refinement (TLAPS)
UsbRead         receiving side, opening and closing, TIOCMIWAIT
    MCUsbRead       a waiting task
    UsbReadProofs   theorems (TLAPS)
UsbLines        speed, format and control lines
    MCUsbLines      a list of settings
    UsbLinesProofs  theorems (TLAPS)
```

### Layout

Addresses are numbers of bytes, computed as the code computes them:
`TaskLoc`, `MemLoc`, `StackTop`. The fields are not abstracted away because the
interesting question is always which byte a write lands on. `MAX_TASKS`,
`TASK_MEM_SIZE` and `TASKS_LOC` (the linker's choice) are constants.

### Kernel

| Variable | In the code |
| --- | --- |
| `pc` | where the main thread is: `reset` (address 0), `boot` (`main` before `sei`), `poll` (the state check), `fetch`, `fetchlo`, `fetchhi` (`heap = task->free`), `sph`, `spl` (the two `out` instructions), `run` (interpreter), `halted` (`loop_forever`), `dead` (`die`), `wild` (executing bytes that are no longer code) |
| `cur` | `task_id` of `mainloop`; the slot that was dispatched |
| `x`, `sp`, `ip`, `iflag` | registers X, SP, Y, the I bit |
| `state`, `free` | the fields of `TASKS[t]` |
| `image` | the program whose bytes are in `TASKS[t].mem` |
| `damaged` | history: slots of which a byte *in use* was overwritten |

Every C statement or assembly routine that an interrupt can separate from the
next is an action. At `sph`, inside `run_task_immediate`, SP is two lower than
in `mainloop`, by the return address of that call. An instruction of a task is one action: the pushes and pops
inside it keep SP between its values before and after, or above both, so that
an interrupt in the middle writes over no more than one at either end. A
message is one action too: the interrupt pushes `ISR_FRAME` bytes at SP
(`Write({Frame})`), and then does what the handler does; if what it writes
covers its own frame, RETI goes to address 0 (the two bytes of the return
address became 0) or anywhere.

Instructions are reduced to what they do to SP, X, Y and the I flag (eleven
kinds, `Ops`; `setptr` and `setptrc` take two words off the stack). A condition that depends on values is a choice. A program is
given by its instructions and by its *discipline*: the bytes on its stack
(`Depth`), on its heap (`Grown`) and whether it is inside an atomic block
(`Quiet`) before each instruction. `Disciplined` demands that these agree with
every jump; loops that push without popping are therefore not considered.

A write of unrelated bytes over a `state` field may leave either state, over a
`free` field any pointer of `Junk` or of the table (`StatesAfter`,
`FreesAfter`).

### Wire

The calls of a client are sequences of bytes to write (`Message`) and a number
of bytes to read (`Wanted`). Two answers are read in parts: the client reads the
count of builtins, or the sizes of code and heap, and these say what it reads
next (`First`, `ReadOn`). If the count is not that of the client's own list, the
call raises with the list unread; if the sizes are those of a damaged slot, it may
read on beyond its answer (`Misread`).
`Arrive` moves a byte to the receive buffer or
drops it; `Read` is `uart_get` together with what the handler does with the
byte (`Complete` says whether the message is over, `Dies` whether the handler
calls `die`); `Put` is `uart_put`. A byte of an answer is the number of the
message it answers. `Deafen` and `Hear` stand for the atomic blocks of the
running task.

Nothing makes a call and its message one:

* `Nested`: the offsets are asked for after the header of the message they are
  needed for. `Raise`: a task id that is no byte is found out after the header.
* `Unfit`: a ping of another length than one, an address or a size of more than
  16 bits, a SET_MEMORY whose range wraps around the address space; `Written` is
  what reaches the line of each.
* `Type` of an escape byte: it begins a message that nobody completes.
* `HangUp`: the adapter is pulled out. Writes fail from then on, and a read
  returns with what it has (`ShortRead`).

`WellFormed` says what calls there are: `load_task` alone refuses arguments before
it writes.

`Conversation` is what a user sees of it: messages are asked, handled in that
order, and a call that waits returns when the board is done with all of them.
It promises nothing once a byte was dropped, a call did not keep to its message
and its answer, or plain data was typed. `ConversationSpec` maps the history
variables and `busy` to it.

`Kernel` treats a message as one step; `InOrder`, `DeathHasCause` and
`ConversationSpec` of `Wire` are what justifies this, and say when it is not
justified.

### Compiler and TaskCode

`_parse` is a generator, and `_process` drains it one item at a time, so that
parsing and code generation go through the text together, once. `Compiler` is
this pass, an action per kind of token:

| Variable | In the code |
| --- | --- |
| `blocks` | the activations of `_process` on Python's stack, one for each open block: its tag, `start_of_block` (of an `if`: `i`), and which activation `break` and `continue` refer to |
| `ins` | `instructions` with `code_locations`, `heap_locations` and `builtin_locations`: a word is marked with what `compile_task` must add to it |
| `pending` | the lists `update_with_end_of_block`, with their activation |
| `cells`, `offset` | `vars` and `strings` in the order they were met, `heap_offset` |
| `toks`, `at` | history: the text so far, and how many words each token had before it |

`CloseIf`, `CloseAtomic`, `CloseBlock` and `CloseLoop` are what happens when a
block's generator ends: the caller of `_process` goes on where it was. `Refuse`
is an exception; which texts raise one is left open, except that `Finish` needs
every block to be closed. `HeapSize`, `Heap` and `Relocated` are
`Compilation.heap_size`, `Compilation.heap` and `compile_task`.

`TaskCode` loads the relocated words and executes them (`y` is the register pair
Y). In the same step it moves `pos`, the token the *text* is at. What a token
means is said on the text alone (`Around`, `Home`, `EndOf`: which block is it in,
where does that end), without addresses, stacks or fix-ups: `break` goes past the
end of the innermost loop or plain block, `continue` to its beginning, a loop's
brace to the loop's beginning. The instruction and the token must agree at every
step (`InLockstep`). Conditions are choices. As compiled, `if` runs its body when
the value is **zero**; no document says which way it should be, and the model
follows the code.

`Kernel`'s programs are the shape that `TaskCode`'s code has after relocation,
with its values reduced to the depth of the stack.

### Machine and Runtime

`Runtime` is what `Kernel` and `TaskCode` leave open: the values. Its `stack` is
a sequence of bytes, in the order they are pushed; `Popped(n)` is the n-th
register pair from the top, `Add`, `Sub` and the comparisons are done on one
byte after the other with a carry (`Wrap`, `Carry`), and a word of memory is two
cells of `mem`. `and`, `or` and `eor` are constants (`BitOps`), any functions of
two bytes. There is one action per routine; a task may execute any of them
next. `test` is the outcome of the last `jumpif`, `jumpifnot` or `set_led`.

`Machine` is what a program may think: a stack of words, arithmetic modulo the
number of words, memory and a heap. `Words` reads the words off the bytes, and
`MachineSpec` says that every routine is a step of the machine. `neg` is one
too, of those that drop a word, which is not what it is meant to be
(`NegNegates`).

### Ring, Stream and UsbWrite

`Ring` is `struct ch34x_buf` with `buf_get` and `buf_put` as indices, and copies
in one or two pieces as the C code does; what a freshly allocated buffer holds
is a parameter. `UsbWrite` has one action for every stretch of code between two
places where another context can come in:

| Variable | In the code |
| --- | --- |
| `ring`, `inUse` | `priv->buf`, `priv->write_urb_in_use` |
| `buffer`, `flying`, `reject` | the URB's transfer buffer and length; with the USB core or not; being killed |
| `pc` | where each caller, and the callback, is in `ch34x_send` or in the callback |
| `port`, `opened` | `ch34x_open` and the steps of `ch34x_close` |
| `accepted`, `line`, `faults`, `fault`, `late` | history |

`Take` is `ch34x_send` under the lock; `Submit` and `SubmitFails` follow outside
of it, `GiveUp` clears `write_urb_in_use` without it. `CompleteBadly` is an URB
given back with an error, after which the callback submits it again with length
1 (`Resubmit`). `Killed` and `KillReturns` are `usb_kill_urb`.

`Stream` is what callers are promised. Bytes are numbered in the order they are
accepted; `Queue` maps the URB's bytes still to be sent and those in the ring to
the stream's queue. A failed transfer may lose bytes at the front or repeat the
first (`Leave`, `Repeat`), and a close discards the rest; nothing else may
happen to a byte.

### UsbRead

Both input URBs are with the USB core (`flying`) or in their callback (`cb`). A
status is the set of its bits, because the same bits are modem lines to
`wait_modem_info` and errors to the read callback. The interrupt report is two
steps (`Update` under the lock, `Notify` after it), and so is a read (`Sample`
and `Push`). A task inside `wait_modem_info` is in one of four
places (`wait`, `asleep`, `woken`, `look`), which it enters through an open port
(`Ask`); the line may hang up while it is there. `OtherBoard` is another port's
use of the one `wait_flag`. Since that, and every byte received, sets the flag with
no change of status, `Told` looks at the lines themselves: one the task asked for
differs from what it saw last.

### UsbLines

`ch34x_set_termios` is a sequence of actions, one per control message, between
which tasks may call `tiocmset` and a report may replace `line_control`.
`Divided` is `ch34x_get_baud_rate` with the width of its variables. `chip` holds
the two registers of `VENDOR_SERIAL_INIT`, and the properties read them back as
the comments of the code describe them. A control message that fails is
received or not.

## 3. Runs

| Run | Asks | Result |
| --- | --- | --- |
| `kernel` | All properties of `Kernel`, `PolledInTurn` and `HearsAgain` under `FairSpec`; the last two slots at their real addresses, a program that grows the heap in an atomic block and loops, and one that fills the slot to the last byte and halts in an atomic block; SET_MEMORY over the fields of the last slot and the stack of the one before | holds, 261,904 states |
| `kernel_load` | README:282-287, LOAD_TASK leaves a stopped task | violated: of the slot that runs, it resets the board |
| `wire` | All properties of `Wire`; a call of each shape and of each way not to fit, the adapter pulled out at any time | holds, 257,113 states |
| `wire_fresh` | a valid `start_task` does not kill the board | violated on a client that has not cached the offsets |
| `compiler` | All properties of `TaskCode`: lockstep, jump targets, interrupts around atomic blocks, heap layout | holds, 1,082,566 states |
| `usb_write` | All properties of `UsbWrite`, the refinement of `Stream` among them, and `Delivered` under `FairSpec` | holds, 157,430 states |
| `usb_read` | All properties of `UsbRead` but one, under `FairSpec` | holds, 84,546 states |
| `usb_wait` | ch34x.c:1070, a new status is there for others to look at | violated: carrier drops on an open port, and the waiting task sleeps on, on another queue than the callbacks wake |
| `usb_lines` | All properties of `UsbLines` but one | holds, 737,910 states |
| `usb_b0` | ch34x.c:502, B0 is a rate one can switch to | violated: it divides by zero first |
| `runtime` | `Runtime` implements `Machine` | holds, 52,416 states |
| `runtime_neg` | tasklang.S:341, `neg` computes the two's complement | violated: the result is not pushed |

### Bounds

* Two slots: every hazard concerns one slot, the slot next to it, or the kernel
  stack above the table. They are the last two of the real table (`TASKS_LOC` =
  337 + 3 * 389 = 1504, `TASK_MEM_SIZE` = 384), because the last slot is next to
  the kernel's stack (`KERNEL_SP` = 2299, that of `mainloop`) and because the
  carries between SPL and SPH are where things go wrong. The proofs cover any
  number of slots.
* Two programs with every kind of instruction; `hog` leaves no room for an
  interrupt, not even for the two bytes of a call below the kernel's stack, and
  ends deaf, so that every excuse in a property occurs.
* `ISR_FRAME` = 18 bytes: return address and call-saved registers.
* `MaxCalls` = 2 calls of each shape, in all pairs; a property of framing needs
  one call to go wrong and one to notice. `RX_CAPACITY` = 3 is two bytes of
  FIFO and the shift register. Answers have one or two bytes instead of 12, 98
  or 393, and those that are read in parts have one byte in each: only whether
  they are complete matters.
* `compiler`: every text of up to six tokens out of the four blocks, `while`,
  `break`, `continue` and a literal. Six is a jump in two blocks that are both
  closed, and one token before or after them: every pair of a jump and the blocks
  around it, and two blocks in a row. Then all texts of three out of two
  variables, two strings and a builtin (each cell met first, second, again), and
  the 23 tokens of the compiler's own test, with all its beginnings (`Bounds`,
  `Examples`). The proofs cover texts of any length. Programs halt and texts are
  refused, hence `CHECK_DEADLOCK FALSE`.
* `usb_write`: a ring of four, which holds three bytes, and an URB of two, so that
  the ring wraps in two pieces, fills up and does not fit into one URB; five
  bytes, so that both pointers come round; two writers, because two must meet
  in `ch34x_send`; two sessions, because of what one leaves to the next; one
  failure. The proofs cover any of these numbers.
* `wire`: all calls are in one run, so that each can follow each; among them task
  5, which the board has not, and the byte 255 in every place that takes data.
* `usb_read`: one waiting task (tasks meet in `wait_flag` only, which
  `OtherBoard` changes at any time), three reports, one failure.
* `usb_lines`: ten settings that differ from the standard in one thing or in
  several, with a rate for every clock of the chip, both special rates, one
  that is too low and B0; one task beside the tty layer, one report, one failure.
  The proofs cover every list of settings.
* `runtime`: bytes of four values, so that all 16 words can be tried against all
  others, a stack of two words (no routine takes more) and two cells of
  memory. The proof covers every size, 256 values among them. A task that has
  stopped makes no more steps, hence `CHECK_DEADLOCK FALSE`.
* The bounds on bytes, sessions and failures, and a trapped driver, end the
  behaviours of the `usb_` runs, which switch it off as well.
* `MaxCalls` ends the behaviours of `wire` and `wire_fresh`, a dead board leaves the
  client blocked and a missing adapter leaves it nothing to write to, hence
  `CHECK_DEADLOCK FALSE` there too. `Kernel` never stops.

### Fairness

* `Kernel`: weak fairness of `Cpu`, the main thread. An AVR executes at least
  one instruction of the main program after RETI before the next interrupt, so
  messages cannot stop it. Messages are never fair: no client need send any.
* `Wire`: weak fairness of the line, the transmitter, `Return` and `ReadOn`, and
  strong fairness of `Read`. Strong, because a task that enters atomic blocks
  again and again disables the interrupt again and again; a waiting byte
  interrupts as soon as interrupts come on, and between the SEI of one block
  and the CLI of the next there are several instructions. `Hear` is not fair: a
  task that halts, fails an assertion or jumps out inside an atomic block leaves
  interrupts off for ever. That they come on again and again is a condition of
  `CallsReturn` (`[]<> ~deaf`); `HearsAgain` of `Kernel` says that a program
  without these three in its atomic blocks meets it. Making calls is not fair.
* `UsbWrite`: weak fairness of each context inside `ch34x_send`, of the callback,
  of `usb_kill_urb`'s two halves, and of the USB core, which gives every URB back
  some time. Writing, opening and closing are not fair.
* `UsbRead`: weak fairness of each task that is not asleep, and of nothing else:
  the device need not report and the user need not close.
* `UsbLines` and `Runtime` have safety properties only.

## 4. Proofs

### The board

`KernelProofs` proves, for every number and size of slots, every layout and
every set of disciplined programs:

| Theorem | Says |
| --- | --- |
| `Inductive` | `Spec => []IInv` |
| `TypeCorrect` | `Spec => []TypeOK` |
| `FramesAreHarmless` | `Spec => []FrameHarmless` |
| `FreeFieldsMatch` | `Spec => []FreeMatchesImage` |
| `DeafnessIsAtomic` | `Spec => []DeafOnlyInAtomic` |
| `DamageIsConfined` | `Spec => DamageConfined` |
| `CodeIsStable` | `Spec => CodeStaysPut` |

The argument. `FrameHarmless` is not inductive: it speaks about the bytes below
SP and says nothing about why SP is there. `IInv` says it: SP is `KERNEL_SP`
until the two writes, two less once `run_task_immediate` is called (`StackInv`);
after the first write its high byte is
right; while a program runs, SP is the top of its slot's stack less `Depth` at the instruction; the I flag is
what `Quiet` says (`FlagInv`); an undamaged slot's `free` is the end of its
payload (`FreeInv`); and `main` finds an empty table (`BootInv`). The step that
needs thought is LOAD_TASK of the running slot: `image[cur]` changes under the
program, and `StackInv` survives only because the zeroes to the end of `mem`
cover the return address, so that the main thread leaves `run`
(`LoadOfRunningSlot`). `CodeIsStable` rests on the same lemma, and a handler
that did not fill the slot would break both. `FrameHarmless` then follows by
arithmetic on `Layout` (`SlotsApart`, `SlotsInOrder`, `LiveFits`).

The assumptions, all checked by TLC on the instance of the runs:

* `LayoutAssumption`: positive sizes.
* `KernelAssumption`: programs are disciplined and their payload fits the slot,
  as `load_task` of the client makes sure; a SET_MEMORY stays within the table.
* `KernelStackRoom`: the memory above the table holds `mainloop`'s frame and an
  interrupt. In the real table the five slots end at 337 + 5 * 389 = 2282, and
  2282 to 2299 are the 18 bytes of a frame, which nothing in the build checks. There
  is no room for more: during the call of `run_task_immediate` the frame takes two
  bytes of the last slot. That they are not in use is a condition of
  `FrameHarmless` (`LastSlotHasRoom`), not an assumption.

`Wire` assumes `WireAssumption` (sizes) and `CallsAssumption` (`WellFormed`): the
payload of a LOAD_TASK has less than 2^16 bytes, because `load_task` refuses one that
does not fit a slot before it writes, and plain data is typed a byte at a time.

The other modules assume little: `RingAssumption` (a buffer of at least one
byte), `UsbWriteAssumption`, `UsbReadAssumption` and `UsbLinesAssumption` (the
contexts are distinct, the inputs have their types) and `RuntimeAssumption` (a
byte has at least two values, the task's memory lies below the number of words).

### The line

`WireProofs` proves, for every set of calls, every size of the receive buffer
and of the answers, and without a bound on the number of calls (`MaxCalls` is
any number):

| Theorem | Says |
| --- | --- |
| `TypeCorrect` | `Spec => []TypeOK` |
| `HandledInOrder` | `Spec => []InOrder` |
| `DeathsHaveCause` | `Spec => []DeathHasCause` |
| `AnswersAreOwn` | `Spec => OwnAnswer` |
| `OverrunsHaveCause` | `Spec => OverrunHasCause` |
| `ImplementsConversation` | `Spec => ConversationSpec`, the refinement |

None of them is inductive. `IInv` adds `Framed`: what is under way, from the
part of a message the handler has read to what the client has just written, is
exactly the messages asked for and not yet handled, each `Proper`, which means
that its type and sizes say how long it is. The end of each message is given by a
function (`Marks`) rather than by concatenating them, so that no step of the
invariant needs an induction. A message more goes to the end (`MarksAdd`),
a handled one is taken from the front (`MarksDrop`), and in between bytes only
move. The step that matters is `Read`: what has been read begins the first
message (`ReadsFirst`), and the handler stops at its last byte, not before and
not after (`Parsed`); that the client writes messages of which this is true is
`MessageProper`. `Answers` says that the only answer in the transmitter or on
its way is the one the waiting call will read, because a call reads at least as
much as the board sends (`ReplyWanted`). With it the overrun is a contradiction:
while the board answers, all messages have been handled, so no byte is there
to be dropped, and a call that has its answer has seen all messages handled,
which is the refinement's one hard step. `DeathHasCause` is the same argument at the byte
that kills the board: it is the second or third of a message the client meant, so
it is a type of the protocol or a task id, and no type of the protocol kills it.

`Framed` and `Answers` hold as long as the stream is one (`InOneStream`), which is
what the properties say too.

### The compiler

`TaskCodeProofs` proves, for every set of tokens, texts of any length and any
address of the code:

| Theorem | Says |
| --- | --- |
| `SoundAlways` | `Spec => []Sound`, the inductive invariant |
| `TypeCorrect` | `Spec => []TypeOK` |
| `LockstepKept` | `Spec => []InLockstep` |
| `JumpsLand` | `Spec => []JumpsLandOnOps` |
| `FlagFollows` | `Spec => []FlagFollowsBlocks` |
| `CellsAreApart` | `Spec => []CellsApart` |
| `StringsEnd` | `Spec => []StringsTerminated`, if every character is a byte (`Ascii`) |

`InLockstep` compares two machines at one moment; why they agree at the next
depends on every word of the code, and these on the order in which the compiler
wrote and overwrote them. `Sound` says it in four parts.

* *The text and its words* (`Structure`). `Braced`: a closing brace closes the
  innermost open block. `Laid`: the words of the tokens follow each other, as
  many as the tag says. `Coded`: each token has its instruction, and its operand
  if that can be known yet: a jump whose block is still open has `UNSET`, one
  whose block is closed has the address after the block.
* *The activations* (`InBlocks`). `Stacked`: they are the blocks open in the
  text, in that order, and their `home` is the innermost strong one. `Waiting`:
  exactly the jumps out of open blocks wait, and each for the right one. `AtEnd`: at the end of the text
  nothing is left of either. The step that needs thought is a loop's brace: what
  is settled is the length of the code before the jump back is written, plus
  two, and that is where the next token will begin (`CloseLoopKeeps`).
* *The heap* (`Seated`). Each cell begins where the one before ends. `HeapSize`
  is then the offset the next one would get, by induction on the cells
  (`HeapSizeIs`), and a byte of `Heap` is that of the one string that covers it
  (`WriteIs`, `HeapIs`).
* *The execution* (`Execution`). The instruction pointer is at the words of the
  token `pos`, which has some. `SettleIs` says that tokens without words are
  passed without moving in the code or across an atomic block, by induction on
  their number; `LeaveTarget`, `ContinueTarget`, `RepeatTarget` and `IfTarget`, that the
  operand of each jump is where the text goes on; and `TidyJump`, that the
  jumps of a tidy text stay on their side of every atomic block.

The steps of the compiler preserve it one by one (`CallKeeps` to `FinishKeeps`),
and so do those of the interpreter (`StraightKeeps` to `LoadKeeps`). The
assumptions are `CompilerAssumption` (tokens have a tag the parser knows,
strings have a length in characters and at least as many bytes) and
`TaskCodeAssumption` (the code has an address). `StringsEnd` alone assumes `Ascii`
too, as it must: with a first string of six characters and seven bytes, TLC finds
two literals in a row that refute it.

### The interpreter's values

`RuntimeProofs` proves `ImplementsMachine`, `Spec => MachineSpec`, for every
number of values of a byte, every stack and every memory. The invariant it
needs is `BytesOK`: the stack is made of whole pairs and the heap pointer
stays within memory. The arithmetic is in lemmas about two pairs (`AddWords`,
`SubWords`, `Comparisons`, `Complement`): a carry out of the lower byte is worth
one unit of the higher, and outweighs it (`Times`). `Replaces` turns a change of
the bytes on top of the stack into one of the words.

### The USB driver

| Theorem | Says |
| --- | --- |
| `StreamProofs!StreamWhole` | the abstract stream keeps its bytes whole and in order until a fault |
| `UsbWriteProofs!TypeCorrect` | `Spec => []TypeOK` |
| `UsbWriteProofs!UrbOwnedOnce` | `Spec => []OwnedOnce` |
| `UsbWriteProofs!ClosedIsQuiet` | `Spec => []QuietAfterClose` |
| `UsbWriteProofs!ImplementsStream` | `Spec => StreamSpec`, the refinement |
| `UsbWriteProofs!NothingIsLost` | `Spec => []NothingLost`, from the two above |
| `UsbWriteProofs!TailIsInUrb` | `Spec => []TailInUrb` |
| `UsbReadProofs!TypeCorrect`, `!ClosedPortIsQuiet`, `!OpenPortListens` | `TypeOK`, `QuietWhenClosed`, `ListensWhileOpen` |
| `UsbReadProofs!ErrorsFlagOnce`, `!ReturnMeansChange` | `FlaggedOnce`, `ReturnsOnChange` |
| `UsbLinesProofs!TypeCorrect`, `!LinesFollowControl`, `!HangupDropsLines` | `TypeOK`, `LinesFollow`, `HangupDrops` |
| `UsbLinesProofs!ConfigIsFollowed`, `!RateIsNearest` | `ConfigFollows`, `RateNearest` |

`ListensWhileOpen` has two exceptions: a submission that failed, and a read URB that
ended with an error other than EPROTO, after which the port must be reopened.
`ConfigFollows` is about word size, stop bits, parity, and flow control where it is
asked for; of the speed `RateNearest` speaks, and that flow control is switched off
again nobody says, because it is not (section 5).

They hold for every size of the ring and of the URB, every set of writers and
tasks, every set of reports and every list of settings, without the bounds of
the runs.

* **Write side.** The lemmas about the ring show once that `Put` appends to
  `Contents` and `Get` takes from its front, wherever the two pointers are;
  nothing above them looks into the ring. `TypeOK` is inductive together with `Loaded` (an URB that
  is or will be submitted is not empty: the retry sends its first byte), and
  `OwnedOnce` is inductive beside it, which is the argument that clearing
  `write_urb_in_use` without the lock is safe: only the one owner clears it.
  `QuietAfterClose` needs `Left`, what each stage of `close` has already dealt
  with; the refinement needs `Faulty`, that a context on an error path has its
  fault recorded before a byte is given up. `NothingLost` is then the stream's
  own theorem, and `TailInUrb` follows from it by counting.
* **Receiving side.** `Phases` says for every place `open` and `close` may be in
  which URBs are quiet, which are submitted over and over, and which are
  refused; `ErrorsFresh`, that error bits in `line_status` were reported since
  the last read; `Noticed`, that a task no change is recorded for would see
  none.
* **Settings.** `Followed`: a copy of `line_control` that is still the newest is on
  its way, there is only one, and with none the lines are `line_control`'s.
  `Hung`: nobody but `close` changes the lines once the port is not open, and how
  far it has come. `Configured`: what `set_termios` compares with is what the
  chip has, so that filtering out equal settings is harmless. `RateNearest` is
  arithmetic on quotients (`Quotient`, `Nearest`): of two neighbouring factors
  the code takes the better one, and no other is better than both.

### Only model-checked

The liveness properties (`PolledInTurn`, `HearsAgain`, `CallsReturn`,
`Delivered`, `SignalEndsWait`), which are out of the prover's reach. Everything
else the passing runs check is a theorem; `TypeOK` of `TaskCode` is one too, and has no
run of its own. What is recursive (`HeapSize`, `Heap`) is a recursive
function, and induction over numbers is said of a set (`NatSet`), since the
library's own induction theorems take an operator, which the provers cannot
instantiate.

## 5. Findings

Five statements of the documentation or of the code's own comments are not what
the code does; each is a run that expects a violation and an entry of
`findings` in `PROJECT.json`: `kernel_load`, `wire_fresh`, `usb_wait`, `usb_b0`
and `runtime_neg`. The most serious is `kernel_load`:
loading a slot that runs (or has halted, as every finished task has) restarts
the board, which is what a user of the client does most of the time.

Others are plain from the code and have no run:

* An interrupt between the two writes to SP (`tasklang.S:35-36`) keeps its frame in
  no task's stack, at an address that mixes both; README:229-231 says that
  interrupts use the stack of the task that runs. `FrameHarmless` and
  `DamageConfined` say what may come of it.
* STOP_TASK sets a flag a running task never looks at (`minitasks.c:33`;
  README:292-296 says it halts the task), and once one task runs, a second one
  that is started never begins (`minitasks.c:354`; README:288-291).
* The client accepts task ids from 5 to 255, which the board dies of: the bound is
  the size of a task (`minitasks.py:175`).
* The assertion of `inspect_task` (`minitasks.py:284`) follows from the line before
  it whatever sizes the board sent: sizes that no slot has pass, and the call reads
  on beyond the answer.
* The compiler counts characters and writes bytes: a string with characters of two
  bytes loses its terminator to the next one (`tasklang.py:47`; 35 and 376 speak of
  the string's bytes and of its terminator). `StringsTerminated` is violated with
  such a string.
* The compiler's own test expects a `break` to go to 32, which is the jump back, and
  it goes to 34 (`tasklang.py:325-326`, `449`); the code is right.
* ch34x.c:518 switches hardware flow control on when `CRTSCTS` is set; it is never
  switched off again. `ConfigFollows` asks for one direction only.
* ch34x.c:1177 says that breaks take precedence; no break is recognised.

## 6. Not modelled

* Pointers out of bounds. In `Kernel` a program that
  writes outside its slot is not disciplined, and in `Runtime` pointers stay
  within the task's memory: what a stray pointer hits is anything at all.
* What the LED shows, delays, the board's own baud rate, the wording of answers.
* The handler's local variables: that an interrupt which overwrites its own
  frame only harms the return, not the loop it is in, assumes that the compiler
  keeps the loop's pointers in registers.
* `current_task_id` (always 0, read by nobody), the `send_` functions and
  `blink_forever` (never called).
* Of `ch34x.c`: registration and unplugging (which the USB serial core handles),
  the variants for kernels before 2.6.32, `tiocmget` (it returns `line_control`),
  the errors of URBs that are given back because the device is gone.
* The printing of memory (`TaskMemory.print`, `Memory.print`), the parsing of
  command lines and the terminal modes of the client.
* `blink.c`, `t.c`, scripts: programs of their own that tried out the board.
* The compiler's splitting of text into tokens and its reading of literals.

## 7. Plan

1. *Done*: `Layout`, `Kernel`, `Wire`, `Conversation`, `Compiler`, `TaskCode`; `Machine` and
   `Runtime`; `Ring`, `Stream`, `UsbWrite`, `UsbRead`, `UsbLines`; and the
   proof modules of section 4.
2. *Left*: `System`, which composes `Kernel` with the client's `load`, `run` and
   `inspect` sequences and its cached offsets across restarts of the board. The
   safety of `Kernel` would carry over: its messages come in any order at any
   time, so that the composition has fewer behaviours. New would be what a client
   concludes from offsets of a kernel that is no longer on the board.
