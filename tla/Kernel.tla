------------------------------- MODULE Kernel -------------------------------
(***************************************************************************)
(* The kernel of src/minitasks.c and the dispatch code of src/tasklang.S:  *)
(* one main thread (C start-up, main, mainloop, the threaded-code          *)
(* interpreter of the task it dispatched) and one interrupt handler,       *)
(* USART_RX_vect, which may come between any two steps of the main thread  *)
(* while the I flag is set, runs to its end, and keeps its frame on        *)
(* whatever stack the main thread was using.                               *)
(*                                                                         *)
(* An interrupt handles one whole client message; the bytes of a message   *)
(* are the business of another module.  A task is a program of             *)
(* instructions reduced to what they do to the stack pointer, the heap     *)
(* pointer, the instruction pointer and the I flag.                        *)
(***************************************************************************)
EXTENDS Layout, Sequences

CONSTANTS
    ISR_FRAME,    \* bytes the interrupt keeps on the stack, return address included
    KERNEL_SP,    \* stack pointer of mainloop
    Programs,     \* the programs a client may load
    Blank,        \* the image of a slot that was never loaded: all zeroes
    Code,         \* Code[p]: sequence of instructions [op, to]
    PayloadSize,  \* PayloadSize[p]: bytes of CODE and HEAP that LOAD_TASK carries
    Depth,        \* Depth[p][i]: bytes on the task's stack before instruction i
    Grown,        \* Grown[p][i]: bytes pushed on the heap before instruction i
    Quiet,        \* Quiet[p][i]: is instruction i inside an atomic block?
    Pokes,        \* SET_MEMORY requests, [at |-> address, len |-> bytes]
    Junk          \* pointers a stray write may leave in a task's "free" field

Ops == {"push", "pop", "setptr", "unary", "hpush", "jump", "jumpif", "assert",
        "atomic", "end_atomic", "halt"}

\* What an instruction adds to the bytes on the stack, and to the heap.
StackGrowth(op) ==
    CASE op = "push" -> 2
      [] op \in {"pop", "hpush", "jumpif", "assert"} -> -2
      [] op = "setptr" -> -4
      [] OTHER -> 0

HeapGrowth(op) == IF op = "hpush" THEN 2 ELSE 0

\* Is the I flag off after the instruction, if it was off (q) before?
QuietAfter(op, q) ==
    (q \/ op = "atomic") /\ op # "end_atomic"

\* The instructions that may be executed after instruction i of p.
Successors(p, i) ==
    CASE Code[p][i].op = "jump"   -> {Code[p][i].to}
      [] Code[p][i].op = "jumpif" -> {Code[p][i].to, i + 1}
      [] Code[p][i].op = "halt"   -> {}
      [] OTHER -> {i + 1}

\* The programs considered keep a stack discipline: the bytes on the stack
\* and on the heap and the I flag depend on the place in the code alone.
Disciplined(p) ==
    /\ Depth[p][1] = 0
    /\ Grown[p][1] = 0
    /\ ~Quiet[p][1]
    /\ \A i \in DOMAIN Code[p] : \A j \in Successors(p, i) :
          /\ j \in DOMAIN Code[p]
          /\ Depth[p][j] = Depth[p][i] + StackGrowth(Code[p][i].op)
          /\ Grown[p][j] = Grown[p][i] + HeapGrowth(Code[p][i].op)
          /\ Quiet[p][j] = QuietAfter(Code[p][i].op, Quiet[p][i])

ASSUME KernelAssumption ==
    /\ ISR_FRAME \in Nat /\ ISR_FRAME > 2
    /\ KERNEL_SP \in Nat
    /\ Blank \notin Programs
    /\ \A p \in Programs :
          /\ Code[p] \in Seq([op : Ops, to : Nat]) /\ Code[p] # <<>>
          /\ PayloadSize[p] \in 1 .. TASK_MEM_SIZE
          /\ Depth[p] \in [DOMAIN Code[p] -> 0 .. TASK_MEM_SIZE - 2]
          /\ Grown[p] \in [DOMAIN Code[p] -> Nat]
          /\ Quiet[p] \in [DOMAIN Code[p] -> BOOLEAN]
          /\ Disciplined(p)
    /\ \A k \in Pokes : /\ k.at \in Nat /\ k.len \in Nat \ {0}
                       /\ TASKS_LOC <= k.at
                       /\ k.at + k.len <= TaskLoc(MAX_TASKS)
    /\ Junk \subseteq Nat

\* The linker leaves mainloop and an interrupt room above the task table.
ASSUME KernelStackRoom ==
    TaskLoc(MAX_TASKS) + ISR_FRAME <= KERNEL_SP + 1

STOPPED == "stopped"
STARTED == "started"

-----------------------------------------------------------------------------
VARIABLES
    pc,       \* where the main thread is
    cur,      \* mainloop's task_id; the running task's slot once it runs
    x,        \* register pair X, the heap pointer (read in two halves)
    sp,       \* the stack pointer
    ip,       \* index of the next instruction: register pair Y
    iflag,    \* the I bit of SREG: may an interrupt fire?
    state,    \* TASKS[t].state
    free,     \* TASKS[t].free
    image,    \* the program whose bytes LOAD_TASK put in TASKS[t].mem
    damaged   \* history: slots with a byte overwritten that was in use

vars == <<pc, cur, x, sp, ip, iflag, state, free, image, damaged>>

Main_pcs == {"reset", "boot", "poll", "fetch", "fetchlo", "fetchhi",
             "sph", "spl", "run", "halted", "dead", "wild"}

\* mainloop between its state check and the last byte of the new SP.
Dispatching == pc \in {"fetch", "fetchlo", "fetchhi", "sph", "spl"}

\* The interpreter owns the stack pointer.
Executing == pc \in {"run", "halted"}

TypeOK ==
    /\ pc \in Main_pcs
    /\ cur \in Tasks
    /\ x \in Nat
    /\ sp \in Int
    /\ ip \in Nat
    /\ iflag \in BOOLEAN
    /\ state \in [Tasks -> {STOPPED, STARTED}]
    /\ free \in [Tasks -> Nat]
    /\ image \in [Tasks -> Programs \cup {Blank}]
    /\ damaged \subseteq Tasks

-----------------------------------------------------------------------------
(* Stray writes                                                            *)

Payload(p) == IF p = Blank THEN 0 ELSE PayloadSize[p]

\* The bytes of TASKS[t].mem whose value matters to the task in it.  A blank
\* slot is only as good as its first instruction word.
LiveSize(t) ==
    IF image[t] = Blank THEN 2
    ELSE PayloadSize[image[t]]
           + IF Executing /\ t = cur THEN Grown[image[t]][ip] ELSE 0

Hit(t, w) ==
    \/ Overlap(w.at, w.len, TaskLoc(t), FIELDS_SIZE)
    \/ Overlap(w.at, w.len, MemLoc(t), LiveSize(t))

\* What a set W of writes of unrelated data may do to the table.
DamagedAfter(W) == damaged \cup {t \in Tasks : \E w \in W : Hit(t, w)}

StatesAfter(W) ==
    {s \in [Tasks -> {STOPPED, STARTED}] : \A t \in Tasks :
        \/ s[t] = state[t]
        \/ \E w \in W : Overlap(w.at, w.len, TaskLoc(t) + STATE_OFFSET, 1)}

FreesAfter(W) ==
    {f \in [Tasks -> Junk \cup {free[t] : t \in Tasks}] : \A t \in Tasks :
        \/ f[t] = free[t]
        \/ \E w \in W : Overlap(w.at, w.len, TaskLoc(t) + FREE_OFFSET, 2)}

Write(W) ==
    /\ state' \in StatesAfter(W)
    /\ free' \in FreesAfter(W)
    /\ damaged' = DamagedAfter(W)

\* The interrupt pushes ISR_FRAME bytes, the first of them at sp.
Frame == [at |-> sp - ISR_FRAME + 1, len |-> ISR_FRAME]

-----------------------------------------------------------------------------
(* The main thread: start-up, main and mainloop                            *)

\* Power-on: interrupts are off and execution starts at address 0.
Init ==
    /\ pc = "reset"
    /\ cur = 0 /\ x = 0 /\ sp = KERNEL_SP /\ ip = 1
    /\ iflag = FALSE
    /\ state = [t \in Tasks |-> STOPPED]
    /\ free = [t \in Tasks |-> 0]
    /\ image = [t \in Tasks |-> Blank]
    /\ damaged = {}

\* The C library's start-up code clears SREG, sets SP and clears .bss, where
\* TASKS lives, then calls main.
Startup ==
    /\ pc = "reset"
    /\ pc' = "boot"
    /\ cur' = 0 /\ x' = 0 /\ sp' = KERNEL_SP /\ ip' = 1
    /\ iflag' = FALSE
    /\ state' = [t \in Tasks |-> STOPPED]
    /\ free' = [t \in Tasks |-> 0]
    /\ image' = [t \in Tasks |-> Blank]
    /\ damaged' = {}

\* tasks_init.  A slip would be to miss the last slot.
TasksInitShort == [t \in Tasks |-> IF t < MAX_TASKS - 1 THEN MemLoc(t) ELSE 0]
TasksInit == [t \in Tasks |-> MemLoc(t)]

\* main: tasks_init, the LED's greeting, sei, mainloop.
Main ==
    /\ pc = "boot"
    /\ pc' = "poll"
    /\ free' = TasksInit
    /\ iflag' = TRUE
    /\ UNCHANGED <<cur, x, sp, ip, state, image, damaged>>

\* mainloop's "task_id++" with the wrap of the enclosing "while (1)".
\* Slips would be "<=" in the loop's test, and no increment.
NextTaskPastEnd(t) == (t + 1) % (MAX_TASKS + 1)
NextTaskStuck(t) == t
NextTask(t) == (t + 1) % MAX_TASKS

\* The state check, for a task that is not started...
Poll ==
    /\ pc = "poll" /\ state[cur] # STARTED
    /\ cur' = NextTask(cur)
    /\ UNCHANGED <<pc, x, sp, ip, iflag, state, free, image, damaged>>

\* ...and for one that is: mainloop is committed to run it.
Dispatch ==
    /\ pc = "poll" /\ state[cur] = STARTED
    /\ pc' = "fetch"
    /\ UNCHANGED <<cur, x, sp, ip, iflag, state, free, image, damaged>>

\* "heap = task->free" is two loads of one byte; TASKS is not volatile and
\* the compiler may do them in either order.
FetchFreeFirst ==
    /\ pc = "fetch"
    /\ \/ x' = Lo(free[cur]) /\ pc' = "fetchhi"
       \/ x' = BYTE * Hi(free[cur]) /\ pc' = "fetchlo"
    /\ UNCHANGED <<cur, sp, ip, iflag, state, free, image, damaged>>

\* The call of run_task_immediate pushes a return address.
FetchFreeSecond ==
    /\ \/ pc = "fetchhi" /\ x' = x + BYTE * Hi(free[cur])
       \/ pc = "fetchlo" /\ x' = x + Lo(free[cur])
    /\ pc' = "sph"
    /\ sp' = sp - 2
    /\ UNCHANGED <<cur, ip, iflag, state, free, image, damaged>>

\* run_task_immediate changes SP in two instructions, interrupts enabled.
SetSPH ==
    /\ pc = "sph"
    /\ sp' = BYTE * Hi(StackTop(cur)) + Lo(sp)
    /\ pc' = "spl"
    /\ UNCHANGED <<cur, x, ip, iflag, state, free, image, damaged>>

SetSPL ==
    /\ pc = "spl"
    /\ sp' = BYTE * Hi(sp) + Lo(StackTop(cur))
    /\ ip' = 1
    /\ pc' = "run"
    /\ UNCHANGED <<cur, x, iflag, state, free, image, damaged>>

-----------------------------------------------------------------------------
(* The interpreter: one action per kind of instruction.  Each is one step: *)
(* the pushes and pops inside it keep SP between its value before and its  *)
(* value after, or above both.                                             *)

At(op) ==
    /\ pc = "run" /\ image[cur] # Blank
    /\ Code[image[cur]][ip].op = op

Target == Code[image[cur]][ip].to

\* literal, load, dup, heap
Push ==
    /\ At("push")
    /\ sp' = sp - 2 /\ ip' = ip + 1
    /\ Write({[at |-> sp - 1, len |-> 2]})
    /\ UNCHANGED <<pc, cur, x, iflag, image>>

\* drop, store, set_led, neg and the binary operators
Pop ==
    /\ At("pop")
    /\ sp' = sp + 2 /\ ip' = ip + 1
    /\ UNCHANGED <<pc, cur, x, iflag, state, free, image, damaged>>

\* setptr and setptrc.  The pointers considered stay within the free part of
\* the task's own heap.
SetPtr ==
    /\ At("setptr")
    /\ sp' = sp + 4 /\ ip' = ip + 1
    /\ UNCHANGED <<pc, cur, x, iflag, state, free, image, damaged>>

\* not, bitnot, getptr, getptrc, swap
Unary ==
    /\ At("unary")
    /\ ip' = ip + 1
    /\ UNCHANGED <<pc, cur, x, sp, iflag, state, free, image, damaged>>

\* hpush and hpushc: "st X+".  A slip would be "st -X", as on the stack.
HPushDown ==
    /\ At("hpush")
    /\ sp' = sp + 2 /\ x' = x - 2 /\ ip' = ip + 1
    /\ Write({[at |-> x - 2, len |-> 2]})
    /\ UNCHANGED <<pc, cur, iflag, image>>

HPush ==
    /\ At("hpush")
    /\ sp' = sp + 2 /\ x' = x + 2 /\ ip' = ip + 1
    /\ Write({[at |-> x, len |-> 2]})
    /\ UNCHANGED <<pc, cur, iflag, image>>

Jump ==
    /\ At("jump")
    /\ ip' = Target
    /\ UNCHANGED <<pc, cur, x, sp, iflag, state, free, image, damaged>>

JumpIf ==
    /\ At("jumpif")
    /\ sp' = sp + 2
    /\ ip' = Target \/ ip' = ip + 1
    /\ UNCHANGED <<pc, cur, x, iflag, state, free, image, damaged>>

Assert ==
    /\ At("assert")
    /\ sp' = sp + 2
    /\ \/ ip' = ip + 1 /\ UNCHANGED pc
       \/ pc' = "halted" /\ UNCHANGED ip
    /\ UNCHANGED <<cur, x, iflag, state, free, image, damaged>>

Atomic ==
    /\ At("atomic")
    /\ iflag' = FALSE /\ ip' = ip + 1
    /\ UNCHANGED <<pc, cur, x, sp, state, free, image, damaged>>

\* A slip would be to forget sei.
EndAtomicWithoutSei ==
    /\ At("end_atomic")
    /\ ip' = ip + 1
    /\ UNCHANGED <<pc, cur, x, sp, iflag, state, free, image, damaged>>

EndAtomic ==
    /\ At("end_atomic")
    /\ iflag' = TRUE /\ ip' = ip + 1
    /\ UNCHANGED <<pc, cur, x, sp, state, free, image, damaged>>

\* halt, and everything that jumps to it or to loop_forever
Halt ==
    /\ At("halt")
    /\ pc' = "halted"
    /\ UNCHANGED <<cur, x, sp, ip, iflag, state, free, image, damaged>>

\* A blank slot's first word is 0: ijmp goes to the reset vector.  Damaged
\* code goes anywhere.
Derail ==
    /\ pc = "run"
    /\ \/ cur \in damaged /\ pc' = "wild"
       \/ cur \notin damaged /\ image[cur] = Blank /\ pc' = "reset"
    /\ UNCHANGED <<cur, x, sp, ip, iflag, state, free, image, damaged>>

\* loop_forever, the loop of die(), and a processor that has lost its way.
Spin ==
    /\ pc \in {"halted", "dead", "wild"}
    /\ UNCHANGED vars

Cpu ==
    \/ Startup \/ Main \/ Poll \/ Dispatch
    \/ FetchFreeFirst \/ FetchFreeSecond \/ SetSPH \/ SetSPL
    \/ Push \/ Pop \/ SetPtr \/ Unary \/ HPush \/ Jump \/ JumpIf \/ Assert
    \/ Atomic \/ EndAtomic \/ Halt \/ Derail \/ Spin

-----------------------------------------------------------------------------
(* The interrupt handler.  It pushes its frame (Write({Frame})), then does *)
(* what the message asks; what the message writes over the frame decides   *)
(* where RETI goes.                                                        *)

Interruptible == iflag /\ pc \notin {"dead", "wild"}

\* handle_load_task writes the fields, the payload, and zeroes to the end of
\* mem.  A slip would be to leave the rest of mem alone.
LoadedBytesNoFill(p) == FIELDS_SIZE + PayloadSize[p]
LoadedBytes(p) == FIELDS_SIZE + TASK_MEM_SIZE

FrameLoaded(t, p) ==
    Overlap(Frame.at, Frame.len, TaskLoc(t), LoadedBytes(p))

\* Both bytes of the return address, at sp - 1 and sp, became 0.
ReturnZeroed(t, p) ==
    /\ MemLoc(t) + PayloadSize[p] <= sp - 1
    /\ sp < MemLoc(t) + TASK_MEM_SIZE

PcAfterLoad(t, p) ==
    IF ~FrameLoaded(t, p) THEN pc
    ELSE IF ReturnZeroed(t, p) THEN "reset" ELSE "wild"

\* task->free = task->mem + data_size
FreeAfterLoad(t, p) == MemLoc(t) + PayloadSize[p]

IsrLoad(t, p) ==
    /\ Interruptible
    /\ pc' = PcAfterLoad(t, p)
    /\ \E s \in StatesAfter({Frame}) : state' = [s EXCEPT ![t] = STOPPED]
    /\ \E f \in FreesAfter({Frame}) :
          free' = [f EXCEPT ![t] = FreeAfterLoad(t, p)]
    /\ damaged' = DamagedAfter({Frame}) \ {t}
    /\ image' = [image EXCEPT ![t] = p]
    /\ UNCHANGED <<cur, x, sp, ip, iflag>>

\* start_task and stop_task do no more than set the flag.
IsrSetState(t, s0) ==
    /\ Interruptible
    /\ \E s \in StatesAfter({Frame}) : state' = [s EXCEPT ![t] = s0]
    /\ free' \in FreesAfter({Frame})
    /\ damaged' = DamagedAfter({Frame})
    /\ UNCHANGED <<pc, cur, x, sp, ip, iflag, image>>

IsrStart(t) == IsrSetState(t, STARTED)
IsrStop(t)  == IsrSetState(t, STOPPED)

Die == pc' = "dead" /\ iflag' = FALSE

\* handle_inspect_task: get_heap_size dies if "free" is below mem.
IsrInspect(t) ==
    /\ Interruptible
    /\ Write({Frame})
    /\ IF free'[t] < MemLoc(t) THEN Die ELSE UNCHANGED <<pc, iflag>>
    /\ UNCHANGED <<cur, x, sp, ip, image>>

\* PING, GET_OFFSETS, GET_BUILTIN_LOCATIONS, GET_MEMORY and plain data: the
\* handler only answers.
IsrReply ==
    /\ Interruptible
    /\ Write({Frame})
    /\ UNCHANGED <<pc, cur, x, sp, ip, iflag, image>>

IsrSetMemory(k) ==
    /\ Interruptible
    /\ Write({Frame, k})
    /\ pc' = IF Overlap(Frame.at, Frame.len, k.at, k.len) THEN "wild" ELSE pc
    /\ UNCHANGED <<cur, x, sp, ip, iflag, image>>

\* A task id past the table, or a message type the switch does not know.
IsrBadMessage ==
    /\ Interruptible
    /\ Write({Frame})
    /\ Die
    /\ UNCHANGED <<cur, x, sp, ip, image>>

Isr ==
    \/ \E t \in Tasks, p \in Programs : IsrLoad(t, p)
    \/ \E t \in Tasks : IsrStart(t) \/ IsrStop(t) \/ IsrInspect(t)
    \/ IsrReply
    \/ \E k \in Pokes : IsrSetMemory(k)
    \/ IsrBadMessage

Next == Cpu \/ Isr

Spec == Init /\ [][Next]_vars

\* The processor executes at least one instruction of the main thread between
\* two interrupts, so messages cannot starve it.
FairSpec == Spec /\ WF_vars(Cpu)

-----------------------------------------------------------------------------
(* What the kernel keeps                                                   *)

\* The slot has room for the payload, the heap, the stack and an interrupt.
Fits(p) ==
    \A i \in DOMAIN Code[p] :
        PayloadSize[p] + Grown[p][i] + Depth[p][i] + ISR_FRAME <= TASK_MEM_SIZE

RunsFitting == image[cur] # Blank /\ Fits(image[cur])

\* The call of run_task_immediate takes two bytes of the kernel's stack that
\* KernelStackRoom does not provide for: they are the last slot's.
LastSlotHasRoom == LiveSize(MAX_TASKS - 1) + 2 <= TASK_MEM_SIZE

\* Outside the window of the two writes to SP (and the few instructions
\* between a clobbered return address and start-up), an interrupt's frame
\* lands on no byte in use: neither on a slot's fields nor on the code and
\* heap of any task, whichever task is running and whatever the client sent;
\* just before the window, if the last slot is not loaded to the brim.
FrameHarmless ==
    (/\ Interruptible
     /\ pc \notin {"spl", "reset"}
     /\ pc = "sph" => LastSlotHasRoom
     /\ Executing => RunsFitting)
    => \A t \in Tasks : ~Hit(t, Frame)

\* A slot that no stray write has reached has its "free" at the end of its
\* payload whenever a message may look at it, so INSPECT_TASK neither kills
\* the board nor reports a wrong heap size, and a task dispatched from such a
\* slot gets a heap pointer past its own code.
FreeMatchesImage ==
    iflag => \A t \in Tasks \ damaged :
        free[t] = MemLoc(t) + Payload(image[t])

\* Once mainloop runs, interrupts are off only inside an atomic block of the
\* running program or after a crash: no handler, and no path through the
\* dispatch, leaves the board deaf.
DeafOnlyInAtomic ==
    ~iflag /\ pc \notin {"reset", "boot", "dead", "wild"}
    => /\ Executing
       /\ image[cur] \in Programs
       /\ Quiet[image[cur]][ip]

\* The heap pointer is not the one the running image was loaded with.
Adrift == x # MemLoc(cur) + Payload(image[cur]) + Grown[image[cur]][ip]

\* Bytes in use are overwritten only by an interrupt inside the two writes to
\* SP or after a clobbered return, or just before those writes in a last slot
\* loaded to the brim, by a SET_MEMORY, by a program that leaves no room, or
\* by the heap of a task whose slot was loaded while mainloop was dispatching
\* it.
DamageConfined ==
    [][ \/ damaged' \subseteq damaged
        \/ pc \in {"spl", "reset"}
        \/ pc = "sph" /\ ~LastSlotHasRoom
        \/ \E k \in Pokes : IsrSetMemory(k)
        \/ Executing /\ ~RunsFitting
        \/ pc = "run" /\ Adrift ]_vars

\* The interpreter never finds another program under its instruction pointer:
\* a LOAD_TASK of the running slot wipes the interrupt's own return address,
\* so that it ends the task instead of switching its code.
CodeStaysPut ==
    [][ Executing /\ Executing' /\ image[cur] # Blank
        => cur' = cur /\ image'[cur] = image[cur] ]_vars

\* A started task does not wait for ever while mainloop polls.
PolledInTurn ==
    \A t \in Tasks : []<>~(pc = "poll" /\ state[t] = STARTED)

\* Atomic blocks without jumps and halts.
Brief(p) ==
    \A i \in DOMAIN Code[p] :
        Quiet[p][i] => Code[p][i].op \notin {"jump", "jumpif", "assert", "halt"}

\* A running program whose atomic blocks are brief lets the board hear again.
HearsAgain ==
    (pc = "run" /\ ~iflag /\ image[cur] # Blank /\ Brief(image[cur]))
        ~> (iflag \/ pc = "wild")

-----------------------------------------------------------------------------
(* The inductive invariant                                                 *)

InKernel == pc \in {"boot", "poll", "fetch", "fetchlo", "fetchhi", "sph"}

\* SP is mainloop's, or run_task_immediate's, until the two writes; then it
\* follows the running program's depth.
StackInv ==
    /\ InKernel => sp = IF pc = "sph" THEN KERNEL_SP - 2 ELSE KERNEL_SP
    /\ pc = "spl" => Hi(sp) = Hi(StackTop(cur))
    /\ pc = "run" /\ image[cur] = Blank => sp = StackTop(cur)
    /\ pc = "halted" => image[cur] # Blank
    /\ Executing /\ image[cur] # Blank =>
         /\ ip \in DOMAIN Code[image[cur]]
         /\ sp >= StackTop(cur) - Depth[image[cur]][ip]
         /\ sp <= StackTop(cur)
         /\ pc = "run" => sp = StackTop(cur) - Depth[image[cur]][ip]

\* The program a dispatch is about to start has not been executed yet: its
\* first instruction finds interrupts on.
FlagInv ==
    /\ pc = "boot" => ~iflag
    /\ InKernel /\ pc # "boot" => iflag
    /\ pc = "spl" => iflag
    /\ pc = "dead" => ~iflag
    /\ Executing => iflag = (image[cur] # Blank => ~Quiet[image[cur]][ip])

FreeInv ==
    (pc # "boot" /\ (pc = "reset" => iflag))
    => \A t \in Tasks \ damaged : free[t] = MemLoc(t) + Payload(image[t])

\* main finds the table as .bss left it.
BootInv == pc = "boot" => image = [t \in Tasks |-> Blank]

IInv == TypeOK /\ StackInv /\ FlagInv /\ FreeInv /\ BootInv

-----------------------------------------------------------------------------
(* What the documentation says                                             *)

\* README:282-287: LOAD_TASK leaves the slot loaded and paused; the board goes
\* on, with a program that leaves room for interrupts running.
LoadPauses ==
    [][ \A t \in Tasks, p \in Programs :
            IsrLoad(t, p) /\ Executing /\ RunsFitting
            => pc' \notin {"reset", "wild"} ]_vars

=============================================================================
