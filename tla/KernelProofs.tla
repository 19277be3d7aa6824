---------------------------- MODULE KernelProofs ----------------------------
(***************************************************************************)
(* Proofs about Kernel, for every number of slots, every size and address  *)
(* of the table, every size of the interrupt's frame and every set of      *)
(* programs that keep a stack discipline.                                  *)
(***************************************************************************)
EXTENDS Kernel, TLAPS

-----------------------------------------------------------------------------
(* Addresses                                                               *)

\* The addresses of the table are natural numbers.
LEMMA LocTypes ==
    ASSUME NEW t \in Nat
    PROVE  TaskLoc(t) \in Nat /\ MemLoc(t) \in Nat /\ StackTop(t) \in Nat
BY LayoutAssumption DEF TaskLoc, MemLoc, StackTop, TASK_SIZE, FIELDS_SIZE

\* The sizes are numbers.
LEMMA Sizes == ISR_FRAME \in Nat /\ ISR_FRAME > 2 /\ TASK_MEM_SIZE \in Nat
BY KernelAssumption, LayoutAssumption

\* A slot ends where the next one begins, or before.
LEMMA SlotsInOrder ==
    ASSUME NEW t \in Nat, NEW u \in Nat, t < u
    PROVE  TaskLoc(t) + TASK_SIZE <= TaskLoc(u)
<1> DEFINE S == TASK_SIZE
           d == u - t - 1
<1>1. S \in Nat /\ d \in Nat
  BY LayoutAssumption DEF TASK_SIZE, FIELDS_SIZE
<1>2. d * S >= 0
  BY <1>1
<1>3. u * S = t * S + S + d * S
  <2>1. u = t + 1 + d
    OBVIOUS
  <2> HIDE DEF d, S
  <2>2. (t + 1 + d) * S = t * S + S + d * S
    BY <1>1
  <2> QED
    BY <2>1, <2>2
<1>4. t * S \in Int /\ u * S \in Int /\ d * S \in Int
  BY <1>1
<1> HIDE DEF d
<1> QED
  BY <1>1, <1>2, <1>3, <1>4, LayoutAssumption DEF TaskLoc

\* Two slots share no byte, and no slot reaches past the table.
LEMMA SlotsApart ==
    ASSUME NEW t \in Tasks
    PROVE  /\ t \in Nat
           /\ TaskLoc(t) + TASK_SIZE <= TaskLoc(MAX_TASKS)
           /\ \A u \in Tasks : u # t =>
                 \/ TaskLoc(t) + TASK_SIZE <= TaskLoc(u)
                 \/ TaskLoc(u) + TASK_SIZE <= TaskLoc(t)
BY SlotsInOrder, LayoutAssumption DEF Tasks

\* An address is its two bytes put together; a new high byte is what the high
\* byte of the whole becomes.
LEMMA Bytes ==
    ASSUME NEW a \in Nat, NEW b \in Int
    PROVE  /\ Lo(a) \in Nat /\ Hi(a) \in Nat
           /\ Lo(b) \in 0 .. BYTE - 1
           /\ BYTE * Hi(a) + Lo(a) = a
           /\ Hi(BYTE * Hi(a) + Lo(b)) = Hi(a)
BY DEF Lo, Hi, BYTE


-----------------------------------------------------------------------------
(* Programs                                                                *)

\* The elements of a sequence, and the first of a sequence that has one.
LEMMA SeqElements ==
    ASSUME NEW S, NEW c \in Seq(S)
    PROVE  /\ \A i \in DOMAIN c : i \in Nat /\ c[i] \in S
           /\ c # <<>> => 1 \in DOMAIN c
OBVIOUS

\* The types of what a program says of one of its instructions.
LEMMA ProgramTypes ==
    ASSUME NEW p \in Programs, NEW i \in DOMAIN Code[p]
    PROVE  /\ i \in Nat
           /\ Code[p][i].op \in Ops
           /\ Code[p][i].to \in Nat
           /\ Depth[p][i] \in 0 .. TASK_MEM_SIZE - 2
           /\ Grown[p][i] \in Nat
           /\ Quiet[p][i] \in BOOLEAN
           /\ PayloadSize[p] \in 1 .. TASK_MEM_SIZE
<1>1. Code[p] \in Seq([op : Ops, to : Nat])
  BY KernelAssumption
<1>2. i \in Nat /\ Code[p][i] \in [op : Ops, to : Nat]
  BY <1>1, SeqElements
<1>3. /\ PayloadSize[p] \in 1 .. TASK_MEM_SIZE
      /\ Depth[p] \in [DOMAIN Code[p] -> 0 .. TASK_MEM_SIZE - 2]
      /\ Grown[p] \in [DOMAIN Code[p] -> Nat]
      /\ Quiet[p] \in [DOMAIN Code[p] -> BOOLEAN]
  BY KernelAssumption
<1> HIDE DEF Ops
<1> QED
  BY <1>2, <1>3

\* Every program starts with empty stack and heap and interrupts on.
LEMMA ProgramStart ==
    ASSUME NEW p \in Programs
    PROVE  /\ 1 \in DOMAIN Code[p]
           /\ Depth[p][1] = 0 /\ Grown[p][1] = 0 /\ ~Quiet[p][1]
<1>1. Code[p] \in Seq([op : Ops, to : Nat]) /\ Code[p] # <<>>
  BY KernelAssumption
<1>2. 1 \in DOMAIN Code[p]
  BY <1>1, SeqElements
<1> QED
  BY <1>2, KernelAssumption DEF Disciplined

\* A step from instruction i to instruction j of a disciplined program.
LEMMA ProgramStep ==
    ASSUME NEW p \in Programs, NEW i \in DOMAIN Code[p],
           NEW j \in Successors(p, i)
    PROVE  /\ j \in DOMAIN Code[p]
           /\ Depth[p][j] = Depth[p][i] + StackGrowth(Code[p][i].op)
           /\ Grown[p][j] = Grown[p][i] + HeapGrowth(Code[p][i].op)
           /\ Quiet[p][j] = QuietAfter(Code[p][i].op, Quiet[p][i])
BY KernelAssumption DEF Disciplined

-----------------------------------------------------------------------------
(* Stray writes                                                            *)

WritesOK(W) == \A w \in W : w.at \in Int /\ w.len \in Int

\* Whatever a stray write leaves in the states, they are states.
LEMMA StatesAfterFacts ==
    ASSUME TypeOK, NEW W, NEW s \in StatesAfter(W)
    PROVE  s \in [Tasks -> {STOPPED, STARTED}]
BY DEF TypeOK, StatesAfter

\* A stray write leaves pointers in the "free" fields, and the old ones in the
\* slots it did not hit.
LEMMA FreesAfterFacts ==
    ASSUME TypeOK, NEW W, WritesOK(W), NEW f \in FreesAfter(W)
    PROVE  /\ f \in [Tasks -> Nat]
           /\ \A t \in Tasks \ DamagedAfter(W) : t \notin damaged /\ f[t] = free[t]
<1>1. f \in [Tasks -> Nat]
  <2>1. \A t \in Tasks : free[t] \in Nat
    BY DEF TypeOK
  <2>2. Junk \cup {free[t] : t \in Tasks} \subseteq Nat
    BY <2>1, KernelAssumption
  <2>3. f \in [Tasks -> Junk \cup {free[t] : t \in Tasks}]
    BY DEF FreesAfter
  <2> QED
    BY <2>2, <2>3
<1>2. ASSUME NEW t \in Tasks, t \notin DamagedAfter(W)
      PROVE  t \notin damaged /\ f[t] = free[t]
  <2>1. t \notin damaged /\ \A w \in W : ~Hit(t, w)
    BY <1>2 DEF DamagedAfter
  <2>2. TaskLoc(t) \in Nat
    BY SlotsApart, LocTypes
  <2>3. \A w \in W : ~Overlap(w.at, w.len, TaskLoc(t), FIELDS_SIZE)
    BY <2>1 DEF Hit
  <2>4. \A w \in W : ~Overlap(w.at, w.len, TaskLoc(t) + FREE_OFFSET, 2)
    BY <2>2, <2>3 DEF WritesOK, Overlap, FREE_OFFSET, FIELDS_SIZE
  <2> QED
    BY <2>1, <2>4 DEF FreesAfter
<1> QED
  BY <1>1, <1>2

\* The two together, for the operations that write nothing else to the table.
LEMMA WriteFacts ==
    ASSUME TypeOK, NEW W, WritesOK(W), Write(W)
    PROVE  /\ state' \in [Tasks -> {STOPPED, STARTED}]
           /\ free' \in [Tasks -> Nat]
           /\ damaged' \subseteq Tasks
           /\ \A t \in Tasks \ damaged' : t \notin damaged /\ free'[t] = free[t]
<1>1. damaged' \subseteq Tasks
  BY DEF Write, DamagedAfter, TypeOK
<1> QED
  BY <1>1, StatesAfterFacts, FreesAfterFacts DEF Write

\* The interrupt's frame is a range of addresses.
LEMMA FrameOK ==
    ASSUME TypeOK
    PROVE  WritesOK({Frame})
BY KernelAssumption DEF TypeOK, WritesOK, Frame


-----------------------------------------------------------------------------
(* The inductive invariant: start-up and dispatch                          *)

\* The invariant holds at power-on.
LEMMA InitInv == Init => IInv
<1> SUFFICES ASSUME Init PROVE IInv
  OBVIOUS
<1>1. 0 \in Tasks
  BY LayoutAssumption DEF Tasks
<1>2. TypeOK
  BY <1>1, KernelAssumption DEF Init, TypeOK, Main_pcs, STOPPED, STARTED
<1>3. StackInv /\ FlagInv /\ FreeInv /\ BootInv
  BY DEF Init, StackInv, FlagInv, FreeInv, BootInv, InKernel, Executing
<1> QED
  BY <1>2, <1>3 DEF IInv

\* The C start-up code and main lead to a table whose "free" fields are set.
LEMMA BootStepInv == IInv /\ (Startup \/ Main) => IInv'
<1>0. 0 \in Tasks
  BY LayoutAssumption DEF Tasks
<1>1. \A t \in Tasks : MemLoc(t) \in Nat
  BY LocTypes, SlotsApart
<1>2. ASSUME IInv, Startup PROVE IInv'
  <2>1. TypeOK'
    BY <1>0, <1>2, KernelAssumption
    DEF Startup, TypeOK, Main_pcs, STOPPED, STARTED
  <2>2. StackInv' /\ FlagInv' /\ FreeInv' /\ BootInv'
    BY <1>2 DEF Startup, StackInv, FlagInv, FreeInv, BootInv, InKernel, Executing
  <2> QED
    BY <2>1, <2>2 DEF IInv
<1>3. ASSUME IInv, Main PROVE IInv'
  <2>1. TypeOK'
    BY <1>1, <1>3 DEF Main, IInv, TypeOK, Main_pcs, TasksInit
  <2>2. StackInv' /\ FlagInv' /\ BootInv'
    BY <1>3 DEF Main, IInv, StackInv, FlagInv, BootInv, InKernel, Executing
  <2>3. FreeInv'
    <3>1. pc = "boot" /\ image' = image /\ free' = TasksInit /\ damaged' = damaged
      BY <1>3 DEF Main
    <3>2. \A t \in Tasks : image[t] = Blank
      BY <1>3 DEF Main, IInv, BootInv
    <3> QED
      BY <1>1, <3>1, <3>2 DEF FreeInv, Payload, TasksInit
  <2> QED
    BY <2>1, <2>2, <2>3 DEF IInv
<1> QED
  BY <1>2, <1>3


\* mainloop polls and commits to a task with interrupts on and its own SP.
LEMMA PollStepInv ==
    IInv /\ (Poll \/ Dispatch \/ FetchFreeFirst \/ FetchFreeSecond) => IInv'
<1> SUFFICES ASSUME IInv, Poll \/ Dispatch \/ FetchFreeFirst \/ FetchFreeSecond
             PROVE  IInv'
  OBVIOUS
<1>1. /\ pc \in {"poll", "fetch", "fetchlo", "fetchhi"}
      /\ pc' \in {"poll", "fetch", "fetchlo", "fetchhi", "sph"}
      /\ UNCHANGED <<ip, iflag, state, free, image, damaged>>
      /\ sp' = IF pc' = "sph" THEN sp - 2 ELSE sp
  BY DEF Poll, Dispatch, FetchFreeFirst, FetchFreeSecond
<1>2. cur' \in Tasks
  BY LayoutAssumption
  DEF IInv, TypeOK, Tasks, NextTask, Poll, Dispatch, FetchFreeFirst, FetchFreeSecond
<1>3. x' \in Nat
  <2>1. x \in Nat /\ free[cur] \in Nat /\ BYTE \in Nat
    BY DEF IInv, TypeOK, BYTE
  <2>2. Lo(free[cur]) \in Nat /\ Hi(free[cur]) \in Nat
    BY <2>1, Bytes
  <2>3. BYTE * Hi(free[cur]) \in Nat
    BY <2>1, <2>2
  <2> QED
    BY <2>1, <2>2, <2>3 DEF Poll, Dispatch, FetchFreeFirst, FetchFreeSecond
<1>4. TypeOK'
  BY <1>1, <1>2, <1>3 DEF IInv, TypeOK, Main_pcs
<1>5. StackInv' /\ FlagInv' /\ FreeInv' /\ BootInv'
  BY <1>1 DEF IInv, StackInv, FlagInv, FreeInv, BootInv, InKernel, Executing,
              Payload
<1> QED
  BY <1>4, <1>5 DEF IInv

\* After the two writes SP is the top of the slot, whatever it was before.
LEMMA SetSPStepInv == IInv /\ (SetSPH \/ SetSPL) => IInv'
<1>1. ASSUME TypeOK
      PROVE  StackTop(cur) \in Nat /\ sp \in Int
  BY <1>1, SlotsApart, LocTypes DEF TypeOK
<1>2. ASSUME IInv, SetSPH PROVE IInv'
  <2>1. StackTop(cur) \in Nat /\ sp \in Int
    BY <1>1, <1>2 DEF IInv
  <2>2. sp' \in Int /\ Hi(sp') = Hi(StackTop(cur))
    BY <1>2, <2>1, Bytes DEF SetSPH, BYTE
  <2>3. TypeOK'
    BY <1>2, <2>2 DEF SetSPH, IInv, TypeOK, Main_pcs
  <2>4. StackInv' /\ FlagInv' /\ FreeInv' /\ BootInv'
    BY <1>2, <2>2 DEF SetSPH, IInv, StackInv, FlagInv, FreeInv, BootInv,
                      InKernel, Executing, Payload
  <2> QED
    BY <2>3, <2>4 DEF IInv
<1>3. ASSUME IInv, SetSPL PROVE IInv'
  <2>1. StackTop(cur) \in Nat /\ sp \in Int
    BY <1>1, <1>3 DEF IInv
  <2>2. Hi(sp) = Hi(StackTop(cur))
    BY <1>3 DEF SetSPL, IInv, StackInv
  <2>3. sp' = StackTop(cur)
    BY <1>3, <2>1, <2>2, Bytes DEF SetSPL
  <2>4. TypeOK'
    BY <1>3, <2>1, <2>3 DEF SetSPL, IInv, TypeOK, Main_pcs
  <2>5. /\ pc' = "run" /\ ip' = 1 /\ iflag
        /\ UNCHANGED <<cur, x, iflag, state, free, image, damaged>>
    BY <1>3 DEF SetSPL, IInv, FlagInv
  <2>6. image[cur] # Blank =>
          /\ 1 \in DOMAIN Code[image[cur]]
          /\ Depth[image[cur]][1] = 0
          /\ Quiet[image[cur]][1] = FALSE
    BY <1>3, ProgramStart, ProgramTypes DEF IInv, TypeOK
  <2>7. StackInv'
    BY <2>1, <2>3, <2>5, <2>6 DEF StackInv, InKernel, Executing
  <2>8. FlagInv'
    BY <2>5, <2>6 DEF FlagInv, InKernel, Executing
  <2>9. FreeInv' /\ BootInv'
    BY <1>3, <2>5 DEF SetSPL, IInv, FreeInv, BootInv, Payload
  <2> QED
    BY <2>4, <2>7, <2>8, <2>9 DEF IInv
<1> QED
  BY <1>2, <1>3

-----------------------------------------------------------------------------
(* The inductive invariant: the interpreter                                *)

\* What the invariant says of the instruction about to be executed.
LEMMA AtFacts ==
    ASSUME IInv, pc = "run", image[cur] # Blank
    PROVE  /\ image[cur] \in Programs
           /\ ip \in DOMAIN Code[image[cur]]
           /\ sp = StackTop(cur) - Depth[image[cur]][ip]
           /\ iflag = ~Quiet[image[cur]][ip]
           /\ StackTop(cur) \in Nat
BY SlotsApart, LocTypes DEF IInv, TypeOK, StackInv, FlagInv, Executing

\* An instruction that leaves the slots' programs alone and goes to one of its
\* successors keeps SP and the I flag where the program's maps put them.
LEMMA SuccessorInv ==
    ASSUME IInv, pc = "run", image[cur] # Blank,
           UNCHANGED <<pc, cur, image>>,
           ip' \in Successors(image[cur], ip),
           sp' = sp - StackGrowth(Code[image[cur]][ip].op),
           iflag' \in BOOLEAN,
           iflag' <=> ~QuietAfter(Code[image[cur]][ip].op, ~iflag)
    PROVE  StackInv' /\ FlagInv' /\ BootInv' /\ ip' \in Nat /\ sp' \in Int
<1> DEFINE p == image[cur]
           op == Code[p][ip].op
<1>1. /\ p \in Programs
      /\ ip \in DOMAIN Code[p]
      /\ sp = StackTop(cur) - Depth[p][ip]
      /\ iflag = ~Quiet[p][ip]
      /\ StackTop(cur) \in Nat
  BY AtFacts
<1>2. /\ ip' \in DOMAIN Code[p]
      /\ Depth[p][ip'] = Depth[p][ip] + StackGrowth(op)
      /\ Quiet[p][ip'] = QuietAfter(op, Quiet[p][ip])
  BY <1>1, ProgramStep
<1>3. Depth[p][ip] \in Nat /\ Depth[p][ip'] \in Nat /\ ip' \in Nat
  BY <1>1, <1>2, ProgramTypes, LayoutAssumption
<1>4. Quiet[p][ip] \in BOOLEAN /\ Quiet[p][ip'] \in BOOLEAN
  BY <1>1, <1>2, ProgramTypes
<1>5. StackGrowth(op) \in Int
  BY DEF StackGrowth
<1>6. sp' = StackTop(cur) - Depth[p][ip']
  BY <1>1, <1>2, <1>3, <1>5
<1>7. ~iflag = Quiet[p][ip]
  BY <1>1, <1>4
<1>8. iflag' = ~Quiet[p][ip']
  <2>1. iflag' <=> ~Quiet[p][ip']
    <3>1. Quiet[p][ip'] <=> (Quiet[p][ip] \/ op = "atomic") /\ op # "end_atomic"
      BY <1>2 DEF QuietAfter
    <3>2. iflag' <=> ~((~iflag \/ op = "atomic") /\ op # "end_atomic")
      BY DEF QuietAfter
    <3>3. iflag <=> ~Quiet[p][ip]
      BY <1>1
    <3> QED
      BY <3>1, <3>2, <3>3
  <2> QED
    BY <2>1, <1>4
<1> HIDE DEF op
<1>9. StackInv'
  BY <1>1, <1>2, <1>3, <1>6 DEF StackInv, InKernel, Executing
<1>10. FlagInv'
  BY <1>8 DEF FlagInv, InKernel, Executing
<1>11. BootInv'
  BY DEF BootInv
<1> QED
  BY <1>1, <1>3, <1>6, <1>9, <1>10, <1>11


\* Assert's two outcomes.
AssertPasses == Assert /\ pc' = "run" /\ ip' = ip + 1
AssertFails  == Assert /\ pc' = "halted" /\ ip' = ip

\* The instructions that go on to another one.
Proceeds ==
    \/ Push \/ Pop \/ SetPtr \/ Unary \/ HPush \/ Jump \/ JumpIf \/ AssertPasses
    \/ Atomic \/ EndAtomic

\* Every instruction that goes on does to SP and the I flag what its program's
\* maps say.
LEMMA ProceedsFacts ==
    ASSUME IInv, Proceeds
    PROVE  /\ pc = "run" /\ image[cur] # Blank
           /\ UNCHANGED <<pc, cur, image>>
           /\ ip' \in Successors(image[cur], ip)
           /\ sp' = sp - StackGrowth(Code[image[cur]][ip].op)
           /\ iflag' \in BOOLEAN
           /\ iflag' <=> ~QuietAfter(Code[image[cur]][ip].op, ~iflag)
           /\ x' \in Nat
<1> DEFINE op == Code[image[cur]][ip].op
<1>1. pc = "run" /\ image[cur] # Blank
  BY DEF Proceeds, Push, Pop, SetPtr, Unary, HPush, Jump, JumpIf, AssertPasses,
         Assert, Atomic, EndAtomic, At
<1>2. sp \in Int /\ ip \in Nat /\ iflag \in BOOLEAN /\ x \in Nat
  BY DEF IInv, TypeOK
<1>3. UNCHANGED <<pc, cur, image>>
  BY DEF Proceeds, Push, Pop, SetPtr, Unary, HPush, Jump, JumpIf, AssertPasses,
         Assert, Atomic, EndAtomic, At
<1>4. ip' \in Successors(image[cur], ip)
  BY DEF Proceeds, Push, Pop, SetPtr, Unary, HPush, Jump, JumpIf, AssertPasses,
         Assert, Atomic, EndAtomic, At, Successors, Target
<1>5. sp' = sp - StackGrowth(op)
  BY <1>2 DEF Proceeds, Push, Pop, SetPtr, Unary, HPush, Jump, JumpIf,
         AssertPasses, Assert, Atomic, EndAtomic, At, StackGrowth
<1>6. /\ iflag' \in BOOLEAN
      /\ iflag' <=> ~((~iflag \/ op = "atomic") /\ op # "end_atomic")
  <2>1. CASE Atomic
    BY <2>1 DEF Atomic, At
  <2>2. CASE EndAtomic
    BY <2>2 DEF EndAtomic, At
  <2>3. CASE Push \/ Pop \/ SetPtr \/ Unary \/ HPush \/ Jump \/ JumpIf
               \/ AssertPasses
    <3>1. iflag' = iflag /\ op # "atomic" /\ op # "end_atomic"
      BY <2>3 DEF Push, Pop, SetPtr, Unary, HPush, Jump, JumpIf, AssertPasses,
                   Assert, At
    <3> QED
      BY <1>2, <3>1
  <2> QED
    BY <2>1, <2>2, <2>3 DEF Proceeds
<1>7. x' \in Nat
  BY <1>2 DEF Proceeds, Push, Pop, SetPtr, Unary, HPush, Jump, JumpIf,
         AssertPasses, Assert, Atomic, EndAtomic
<1> QED
  BY <1>1, <1>3, <1>4, <1>5, <1>6, <1>7 DEF QuietAfter

\* What the instructions do to the task table.
LEMMA ProceedsTable ==
    ASSUME IInv, Proceeds
    PROVE  /\ state' \in [Tasks -> {STOPPED, STARTED}]
           /\ free' \in [Tasks -> Nat]
           /\ damaged' \subseteq Tasks
           /\ \A t \in Tasks \ damaged' : t \notin damaged /\ free'[t] = free[t]
<1>0. TypeOK
  BY DEF IInv
<1>1. CASE Push
  <2>1. WritesOK({[at |-> sp - 1, len |-> 2]})
    BY <1>0 DEF WritesOK, TypeOK
  <2> QED
    BY <1>0, <1>1, <2>1, WriteFacts DEF Push
<1>2. CASE HPush
  <2>1. WritesOK({[at |-> x, len |-> 2]})
    BY <1>0 DEF WritesOK, TypeOK
  <2> QED
    BY <1>0, <1>2, <2>1, WriteFacts DEF HPush
<1>3. CASE Pop \/ SetPtr \/ Unary \/ Jump \/ JumpIf \/ AssertPasses \/ Atomic
           \/ EndAtomic
  <2>1. UNCHANGED <<state, free, damaged>>
    BY <1>3 DEF Pop, SetPtr, Unary, Jump, JumpIf, AssertPasses, Assert, Atomic,
                   EndAtomic
  <2> QED
    BY <1>0, <2>1 DEF TypeOK
<1> QED
  BY <1>1, <1>2, <1>3 DEF Proceeds

\* An instruction that goes on to another keeps the invariant: SP, the heap
\* pointer and the I flag move as the program's discipline says.
LEMMA ProceedsStepInv == IInv /\ Proceeds => IInv'
<1> SUFFICES ASSUME IInv, Proceeds PROVE IInv'
  OBVIOUS
<1>1. /\ pc = "run" /\ image[cur] # Blank
      /\ UNCHANGED <<pc, cur, image>>
      /\ StackInv' /\ FlagInv' /\ BootInv' /\ ip' \in Nat /\ sp' \in Int
  BY ProceedsFacts, SuccessorInv
<1>2. TypeOK'
  BY <1>1, ProceedsFacts, ProceedsTable DEF IInv, TypeOK
<1>3. FreeInv'
  <2>1. \A t \in Tasks \ damaged : free[t] = MemLoc(t) + Payload(image[t])
    BY <1>1 DEF IInv, FreeInv
  <2>2. \A t \in Tasks \ damaged' : t \notin damaged /\ free'[t] = free[t]
    BY ProceedsTable
  <2> QED
    BY <1>1, <2>1, <2>2 DEF FreeInv, Payload
<1> QED
  BY <1>1, <1>2, <1>3 DEF IInv

\* A program that ends, in whichever way, leaves everything as it was.
LEMMA EndsStepInv == IInv /\ (AssertFails \/ Halt \/ Derail \/ Spin) => IInv'
<1>1. ASSUME IInv, AssertFails \/ Halt PROVE IInv'
  <2>1. /\ pc = "run" /\ image[cur] # Blank
        /\ pc' = "halted"
        /\ \/ sp' = sp
           \/ sp' = sp + 2 /\ Code[image[cur]][ip].op = "assert"
        /\ UNCHANGED <<cur, x, ip, iflag, state, free, image, damaged>>
    BY <1>1 DEF AssertFails, Assert, Halt, At
  <2>2. /\ image[cur] \in Programs
        /\ ip \in DOMAIN Code[image[cur]]
        /\ sp = StackTop(cur) - Depth[image[cur]][ip]
        /\ StackTop(cur) \in Nat
    BY <1>1, <2>1, AtFacts
  <2>3. Depth[image[cur]][ip] \in Nat
    BY <2>2, ProgramTypes, LayoutAssumption
  <2>4. Code[image[cur]][ip].op = "assert" => Depth[image[cur]][ip] >= 2
    <3>1. SUFFICES ASSUME Code[image[cur]][ip].op = "assert"
                   PROVE  Depth[image[cur]][ip] >= 2
      OBVIOUS
    <3>2. ip + 1 \in Successors(image[cur], ip)
      BY <3>1 DEF Successors
    <3>3. /\ ip + 1 \in DOMAIN Code[image[cur]]
          /\ Depth[image[cur]][ip + 1] = Depth[image[cur]][ip] - 2
      BY <2>2, <2>3, <3>1, <3>2, ProgramStep DEF StackGrowth
    <3>4. Depth[image[cur]][ip + 1] \in Nat
      BY <2>2, <3>3, ProgramTypes, LayoutAssumption
    <3> QED
      BY <2>3, <3>3, <3>4
  <2>5. TypeOK'
    BY <1>1, <2>1 DEF IInv, TypeOK, Main_pcs
  <2>6. StackInv'
    BY <2>1, <2>2, <2>3, <2>4 DEF StackInv, InKernel, Executing
  <2>7. FlagInv' /\ FreeInv' /\ BootInv'
    BY <1>1, <2>1
    DEF IInv, FlagInv, FreeInv, BootInv, InKernel, Executing, Payload
  <2> QED
    BY <2>5, <2>6, <2>7 DEF IInv
<1>2. ASSUME IInv, Derail PROVE IInv'
  <2>1. /\ pc = "run" /\ pc' \in {"wild", "reset"}
        /\ UNCHANGED <<cur, x, sp, ip, iflag, state, free, image, damaged>>
    BY <1>2 DEF Derail
  <2> QED
    BY <1>2, <2>1 DEF IInv, TypeOK, Main_pcs, StackInv, FlagInv, FreeInv,
                      BootInv, InKernel, Executing, Payload
<1>3. ASSUME IInv, Spin PROVE IInv'
  BY <1>3 DEF Spin, vars, IInv, TypeOK, StackInv, FlagInv, FreeInv, BootInv,
              InKernel, Executing, Payload
<1> QED
  BY <1>1, <1>2, <1>3


-----------------------------------------------------------------------------
(* The inductive invariant: the interrupt handler                          *)

\* A LOAD_TASK that meets its own frame does not return to the program.
LEMMA LoadOfRunningSlot ==
    ASSUME IInv, Executing, NEW p \in Programs, IsrLoad(cur, p)
    PROVE  pc' \in {"reset", "wild"}
<1> USE DEF IInv, TypeOK
<1>1. StackTop(cur) \in Nat /\ MemLoc(cur) \in Nat /\ TaskLoc(cur) \in Nat
  BY SlotsApart, LocTypes
<1>2. sp <= StackTop(cur) /\ sp > MemLoc(cur)
  <2>1. CASE image[cur] = Blank
    BY <1>1, <2>1, LayoutAssumption DEF StackInv, Executing, StackTop
  <2>2. CASE image[cur] # Blank
    <3>1. /\ image[cur] \in Programs
          /\ ip \in DOMAIN Code[image[cur]]
          /\ sp >= StackTop(cur) - Depth[image[cur]][ip]
          /\ sp <= StackTop(cur)
      BY <2>2 DEF StackInv
    <3>2. Depth[image[cur]][ip] \in 0 .. TASK_MEM_SIZE - 2
      BY <3>1, ProgramTypes
    <3> QED
      BY <1>1, <3>1, <3>2, LayoutAssumption DEF StackTop
  <2> QED
    BY <2>1, <2>2
<1>3. FrameLoaded(cur, p)
  BY <1>1, <1>2, KernelAssumption, LayoutAssumption
  DEF FrameLoaded, Overlap, Frame, LoadedBytes, FIELDS_SIZE, StackTop, MemLoc
<1> QED
  BY <1>3 DEF IsrLoad, PcAfterLoad

\* LOAD_TASK keeps the invariant; of the slot that runs, it ends the task.
LEMMA LoadStepInv ==
    ASSUME IInv, NEW t \in Tasks, NEW p \in Programs, IsrLoad(t, p)
    PROVE  IInv'
<1>0. TypeOK /\ MemLoc(t) \in Nat /\ PayloadSize[p] \in Nat
  <2>1. PayloadSize[p] \in 1 .. TASK_MEM_SIZE
    BY KernelAssumption
  <2> QED
    BY <2>1, SlotsApart, LocTypes, LayoutAssumption DEF IInv
<1>1. PICK s \in StatesAfter({Frame}) : state' = [s EXCEPT ![t] = STOPPED]
  BY DEF IsrLoad
<1>2. PICK f \in FreesAfter({Frame}) :
         free' = [f EXCEPT ![t] = FreeAfterLoad(t, p)]
  BY DEF IsrLoad
<1>3. /\ iflag /\ pc \notin {"dead", "wild"}
      /\ pc' \in {pc, "reset", "wild"}
      /\ damaged' = DamagedAfter({Frame}) \ {t}
      /\ image' = [image EXCEPT ![t] = p]
      /\ UNCHANGED <<cur, x, sp, ip, iflag>>
  BY DEF IsrLoad, Interruptible, PcAfterLoad
<1>4. s \in [Tasks -> {STOPPED, STARTED}]
  BY <1>0, StatesAfterFacts
<1>5. /\ f \in [Tasks -> Nat]
      /\ \A u \in Tasks \ DamagedAfter({Frame}) :
            u \notin damaged /\ f[u] = free[u]
  BY <1>0, FrameOK, FreesAfterFacts
<1>6. TypeOK'
  <2>1. state' \in [Tasks -> {STOPPED, STARTED}]
    BY <1>1, <1>4
  <2>2. free' \in [Tasks -> Nat]
    BY <1>0, <1>2, <1>5 DEF FreeAfterLoad
  <2>3. damaged' \subseteq Tasks /\ image' \in [Tasks -> Programs \cup {Blank}]
    BY <1>0, <1>3 DEF DamagedAfter, TypeOK
  <2> QED
    BY <1>0, <1>3, <2>1, <2>2, <2>3 DEF TypeOK, Main_pcs
<1>7. Executing' => Executing /\ t # cur /\ pc' = pc /\ image'[cur] = image[cur]
  <2>1. Executing' => Executing /\ pc' = pc
    BY <1>3 DEF Executing
  <2>2. Executing' => t # cur
    BY <2>1, LoadOfRunningSlot DEF Executing
  <2> QED
    BY <1>0, <1>3, <2>1, <2>2 DEF TypeOK
<1>8. StackInv' /\ FlagInv' /\ BootInv'
  <2>1. pc # "boot" /\ pc' # "boot" /\ (pc' = "dead" => FALSE)
    BY <1>3 DEF IInv, FlagInv
  <2>2. BootInv'
    BY <2>1 DEF BootInv
  <2>3. CASE Executing'
    BY <1>3, <1>7, <2>1, <2>2, <2>3
    DEF IInv, StackInv, FlagInv, InKernel, Executing
  <2>4. CASE ~Executing'
    BY <1>3, <2>1, <2>2, <2>4
    DEF IInv, StackInv, FlagInv, InKernel, Executing
  <2> QED
    BY <2>2, <2>3, <2>4
<1>9. FreeInv'
  <2>1. pc # "boot" /\ (pc = "reset" => iflag)
    BY <1>3 DEF IInv, FlagInv
  <2>2. SUFFICES ASSUME NEW u \in Tasks, u \notin damaged'
                 PROVE  free'[u] = MemLoc(u) + Payload(image'[u])
    BY DEF FreeInv, Payload
  <2>3. CASE u = t
    <3>1. free'[t] = MemLoc(t) + PayloadSize[p] /\ image'[t] = p
      BY <1>0, <1>2, <1>3, <1>5 DEF FreeAfterLoad, TypeOK
    <3> QED
      BY <2>3, <3>1, KernelAssumption DEF Payload
  <2>4. CASE u # t
    <3>1. u \notin damaged /\ free'[u] = free[u] /\ image'[u] = image[u]
      BY <1>0, <1>2, <1>3, <1>5, <2>2, <2>4 DEF TypeOK
    <3>2. free[u] = MemLoc(u) + Payload(image[u])
      BY <2>1, <3>1 DEF IInv, FreeInv
    <3> QED
      BY <3>1, <3>2
  <2> QED
    BY <2>3, <2>4
<1> QED
  BY <1>6, <1>8, <1>9 DEF IInv


\* The messages that neither load nor kill only leave their frame behind.
LEMMA FlagStepInv ==
    ASSUME IInv, NEW t \in Tasks, IsrStart(t) \/ IsrStop(t)
    PROVE  IInv'
<1>0. TypeOK
  BY DEF IInv
<1>1. PICK s0 \in {STOPPED, STARTED} : IsrSetState(t, s0)
  BY DEF IsrStart, IsrStop
<1>2. PICK s \in StatesAfter({Frame}) : state' = [s EXCEPT ![t] = s0]
  BY <1>1 DEF IsrSetState
<1>3. state' \in [Tasks -> {STOPPED, STARTED}]
  BY <1>0, <1>2, StatesAfterFacts
<1>4. /\ free' \in FreesAfter({Frame}) /\ damaged' = DamagedAfter({Frame})
      /\ UNCHANGED <<pc, cur, x, sp, ip, iflag, image>>
      /\ iflag
  BY <1>1 DEF IsrSetState, Interruptible
<1>5. /\ free' \in [Tasks -> Nat]
      /\ \A u \in Tasks \ damaged' : u \notin damaged /\ free'[u] = free[u]
  BY <1>0, <1>4, FrameOK, FreesAfterFacts
<1>6. damaged' \subseteq Tasks
  BY <1>0, <1>4 DEF DamagedAfter, TypeOK
<1>7. TypeOK'
  BY <1>0, <1>3, <1>4, <1>5, <1>6 DEF TypeOK
<1>8. StackInv' /\ FlagInv' /\ BootInv'
  BY <1>4 DEF IInv, StackInv, FlagInv, BootInv, InKernel, Executing
<1>9. FreeInv'
  BY <1>4, <1>5 DEF IInv, FreeInv, Payload
<1> QED
  BY <1>7, <1>8, <1>9 DEF IInv

\* The other messages write no field of the table on purpose; they go on, or
\* die, or return into a frame that SET_MEMORY replaced.
LEMMA OtherStepInv ==
    ASSUME IInv, NEW W, WritesOK(W), Write(W), Interruptible,
           UNCHANGED <<cur, x, sp, ip, image>>,
           \/ UNCHANGED <<pc, iflag>>
           \/ pc' = "dead" /\ iflag' = FALSE
           \/ pc' = "wild" /\ UNCHANGED iflag
    PROVE  IInv'
<1>0. TypeOK
  BY DEF IInv
<1>1. /\ state' \in [Tasks -> {STOPPED, STARTED}]
      /\ free' \in [Tasks -> Nat]
      /\ damaged' \subseteq Tasks
      /\ \A t \in Tasks \ damaged' : t \notin damaged /\ free'[t] = free[t]
  BY <1>0, WriteFacts
<1>2. TypeOK'
  BY <1>0, <1>1 DEF TypeOK, Main_pcs
<1>3. StackInv' /\ FlagInv' /\ BootInv'
  BY DEF IInv, StackInv, FlagInv, BootInv, InKernel, Executing
<1>4. FreeInv'
  <2>1. \A t \in Tasks \ damaged : free[t] = MemLoc(t) + Payload(image[t])
    BY DEF IInv, FreeInv, FlagInv, Interruptible
  <2> QED
    BY <1>1, <2>1 DEF FreeInv, Payload
<1> QED
  BY <1>2, <1>3, <1>4 DEF IInv

\* Every message keeps the invariant, wherever the main thread is.
LEMMA IsrStepInv == IInv /\ Isr => IInv'
<1> SUFFICES ASSUME IInv, Isr PROVE IInv'
  OBVIOUS
<1>0. TypeOK /\ WritesOK({Frame})
  BY FrameOK DEF IInv
<1>1. CASE \E t \in Tasks, p \in Programs : IsrLoad(t, p)
  BY <1>1, LoadStepInv
<1>2. CASE \E t \in Tasks : IsrStart(t) \/ IsrStop(t)
  BY <1>2, FlagStepInv
<1>3. CASE \E t \in Tasks : IsrInspect(t)
  <2>1. /\ Interruptible /\ Write({Frame})
        /\ UNCHANGED <<cur, x, sp, ip, image>>
        /\ \/ UNCHANGED <<pc, iflag>>
           \/ pc' = "dead" /\ iflag' = FALSE
    BY <1>3 DEF IsrInspect, Die
  <2> QED
    BY <1>0, <2>1, OtherStepInv
<1>4. CASE IsrReply
  <2>1. /\ Interruptible /\ Write({Frame})
        /\ UNCHANGED <<pc, cur, x, sp, ip, iflag, image>>
    BY <1>4 DEF IsrReply
  <2> QED
    BY <1>0, <2>1, OtherStepInv
<1>5. CASE \E k \in Pokes : IsrSetMemory(k)
  <2>1. PICK k \in Pokes : IsrSetMemory(k)
    BY <1>5
  <2>2. WritesOK({Frame, k})
    BY <1>0, KernelAssumption DEF WritesOK
  <2>3. /\ Interruptible /\ Write({Frame, k})
        /\ UNCHANGED <<cur, x, sp, ip, iflag, image>>
        /\ pc' = pc \/ pc' = "wild"
    BY <2>1 DEF IsrSetMemory
  <2> QED
    BY <2>2, <2>3, OtherStepInv
<1>6. CASE IsrBadMessage
  <2>1. /\ Interruptible /\ Write({Frame})
        /\ UNCHANGED <<cur, x, sp, ip, image>>
        /\ pc' = "dead" /\ iflag' = FALSE
    BY <1>6 DEF IsrBadMessage, Die
  <2> QED
    BY <1>0, <2>1, OtherStepInv
<1> QED
  BY <1>1, <1>2, <1>3, <1>4, <1>5, <1>6 DEF Isr

-----------------------------------------------------------------------------
(* The invariant of every behaviour                                        *)

\* Every step of the main thread keeps the invariant.
LEMMA CpuStepInv == IInv /\ Cpu => IInv'
<1> SUFFICES ASSUME IInv, Cpu PROVE IInv'
  OBVIOUS
<1>1. CASE Startup \/ Main
  BY <1>1, BootStepInv
<1>2. CASE Poll \/ Dispatch \/ FetchFreeFirst \/ FetchFreeSecond
  BY <1>2, PollStepInv
<1>3. CASE SetSPH \/ SetSPL
  BY <1>3, SetSPStepInv
<1>4. CASE Push \/ Pop \/ SetPtr \/ Unary \/ HPush \/ Jump \/ JumpIf \/ Atomic
           \/ EndAtomic
  BY <1>4, ProceedsStepInv DEF Proceeds
<1>5. CASE Assert
  <2>1. AssertPasses \/ AssertFails
    BY <1>5 DEF Assert, At, AssertPasses, AssertFails
  <2> QED
    BY <2>1, ProceedsStepInv, EndsStepInv DEF Proceeds
<1>6. CASE Halt \/ Derail \/ Spin
  BY <1>6, EndsStepInv
<1> QED
  BY <1>1, <1>2, <1>3, <1>4, <1>5, <1>6 DEF Cpu

\* Every reachable state satisfies the inductive invariant.
THEOREM Inductive == Spec => []IInv
<1>1. ASSUME IInv, [Next]_vars PROVE IInv'
  <2>1. CASE Cpu
    BY <1>1, <2>1, CpuStepInv
  <2>2. CASE Isr
    BY <1>1, <2>2, IsrStepInv
  <2>3. CASE UNCHANGED vars
    BY <1>1, <2>3 DEF vars, IInv, TypeOK, StackInv, FlagInv, FreeInv, BootInv,
                      InKernel, Executing, Payload
  <2> QED
    BY <1>1, <2>1, <2>2, <2>3 DEF Next
<1> QED
  BY <1>1, InitInv, PTL DEF Spec

\* Every variable keeps its type.
THEOREM TypeCorrect == Spec => []TypeOK
<1>1. IInv => TypeOK
  BY DEF IInv
<1> QED
  BY <1>1, Inductive, PTL


-----------------------------------------------------------------------------
(* Safety                                                                  *)

\* Where a slot's bytes in use end.
LEMMA LiveFits ==
    ASSUME IInv, NEW t \in Tasks, Executing => RunsFitting
    PROVE  LiveSize(t) \in Nat /\ LiveSize(t) <= TASK_MEM_SIZE
<1>1. image[t] \in Programs \cup {Blank} /\ cur \in Tasks
  BY DEF IInv, TypeOK
<1>2. CASE image[t] = Blank
  BY <1>2, LayoutAssumption DEF LiveSize
<1>3. CASE image[t] # Blank
  <2>1. image[t] \in Programs
    BY <1>1, <1>3
  <2>2. PayloadSize[image[t]] \in 1 .. TASK_MEM_SIZE
    BY <2>1, KernelAssumption
  <2>3. CASE Executing /\ t = cur
    <3>1. ip \in DOMAIN Code[image[t]]
      BY <1>3, <2>3 DEF IInv, StackInv
    <3>2. /\ Grown[image[t]][ip] \in Nat
          /\ Depth[image[t]][ip] \in 0 .. TASK_MEM_SIZE - 2
      BY <2>1, <3>1, ProgramTypes
    <3>3. PayloadSize[image[t]] + Grown[image[t]][ip] + Depth[image[t]][ip]
            + ISR_FRAME <= TASK_MEM_SIZE
      BY <2>3, <3>1 DEF RunsFitting, Fits
    <3>4. LiveSize(t) = PayloadSize[image[t]] + Grown[image[t]][ip]
      BY <1>3, <2>3 DEF LiveSize
    <3> QED
      BY <2>2, <3>2, <3>3, <3>4, KernelAssumption, LayoutAssumption
  <2>4. CASE ~(Executing /\ t = cur)
    <3>1. LiveSize(t) = PayloadSize[image[t]]
      BY <1>3, <2>2, <2>4, LayoutAssumption DEF LiveSize
    <3> QED
      BY <2>2, <3>1, LayoutAssumption
  <2> QED
    BY <2>3, <2>4
<1> QED
  BY <1>2, <1>3

\* A range between the end of the running program's bytes in use and the end
\* of its slot hits no slot.
LEMMA FreeRangeHitsNothing ==
    ASSUME IInv, Executing, RunsFitting,
           NEW at \in Int, NEW n \in Nat, NEW t \in Tasks,
           MemLoc(cur) + PayloadSize[image[cur]] + Grown[image[cur]][ip] <= at,
           at + n <= MemLoc(cur) + TASK_MEM_SIZE
    PROVE  ~Hit(t, [at |-> at, len |-> n])
<1>1. /\ cur \in Tasks /\ image[cur] \in Programs
      /\ ip \in DOMAIN Code[image[cur]]
  BY DEF IInv, TypeOK, StackInv, RunsFitting
<1>2. /\ PayloadSize[image[cur]] \in 1 .. TASK_MEM_SIZE
      /\ Grown[image[cur]][ip] \in Nat
  BY <1>1, ProgramTypes
<1>3. TaskLoc(t) \in Nat /\ TaskLoc(cur) \in Nat
  BY <1>1, SlotsApart, LocTypes
<1>4. LiveSize(t) \in Nat /\ LiveSize(t) <= TASK_MEM_SIZE
  BY LiveFits
<1>5. CASE t = cur
  <2>1. LiveSize(t) = PayloadSize[image[cur]] + Grown[image[cur]][ip]
    BY <1>5 DEF LiveSize, RunsFitting
  <2> QED
    BY <1>2, <1>3, <1>5, <2>1, LayoutAssumption
    DEF Hit, Overlap, MemLoc, FIELDS_SIZE
<1>6. CASE t # cur
  <2>1. \/ TaskLoc(t) + TASK_SIZE <= TaskLoc(cur)
        \/ TaskLoc(cur) + TASK_SIZE <= TaskLoc(t)
    BY <1>1, <1>6, SlotsApart
  <2> QED
    BY <1>2, <1>3, <1>4, <2>1, LayoutAssumption
    DEF Hit, Overlap, MemLoc, FIELDS_SIZE, TASK_SIZE
<1> QED
  BY <1>5, <1>6

\* The consequence of the invariant that a reader of the code wants: see the
\* comment on FrameHarmless.
LEMMA InvImpliesFrameHarmless == IInv => FrameHarmless
<1> SUFFICES ASSUME IInv, Interruptible, pc \notin {"spl", "reset"},
                    pc = "sph" => LastSlotHasRoom,
                    Executing => RunsFitting,
                    NEW t \in Tasks
             PROVE  ~Hit(t, Frame)
  BY DEF FrameHarmless
<1>1. TypeOK /\ StackInv /\ FlagInv
  BY DEF IInv
<1>2. CASE Executing
  <2>1. RunsFitting
    BY <1>2
  <2>2. /\ cur \in Tasks /\ image[cur] \in Programs
        /\ ip \in DOMAIN Code[image[cur]]
        /\ sp <= StackTop(cur)
        /\ sp >= StackTop(cur) - Depth[image[cur]][ip]
    BY <1>1, <1>2, <2>1 DEF TypeOK, StackInv, RunsFitting
  <2>3. /\ PayloadSize[image[cur]] \in 1 .. TASK_MEM_SIZE
        /\ Grown[image[cur]][ip] \in Nat
        /\ Depth[image[cur]][ip] \in 0 .. TASK_MEM_SIZE - 2
    BY <2>2, ProgramTypes
  <2>4. PayloadSize[image[cur]] + Grown[image[cur]][ip] + Depth[image[cur]][ip]
          + ISR_FRAME <= TASK_MEM_SIZE
    BY <2>1, <2>2 DEF RunsFitting, Fits
  <2>5. MemLoc(cur) \in Nat /\ sp \in Int /\ ISR_FRAME \in Nat
    BY <1>1, <2>2, SlotsApart, LocTypes, KernelAssumption DEF TypeOK
  <2>6. /\ MemLoc(cur) + PayloadSize[image[cur]] + Grown[image[cur]][ip]
             <= sp - ISR_FRAME + 1
        /\ (sp - ISR_FRAME + 1) + ISR_FRAME <= MemLoc(cur) + TASK_MEM_SIZE
    BY <2>2, <2>3, <2>4, <2>5, LayoutAssumption DEF StackTop
  <2>7. sp - ISR_FRAME + 1 \in Int
    BY <2>5
  <2> QED
    BY <1>2, <2>1, <2>5, <2>6, <2>7, FreeRangeHitsNothing DEF Frame
<1>3. CASE ~Executing
  <2>1. /\ sp = IF pc = "sph" THEN KERNEL_SP - 2 ELSE KERNEL_SP
        /\ sp \in Int
    BY <1>1, <1>3
    DEF TypeOK, StackInv, InKernel, Executing, Interruptible, Main_pcs
  <2>2. LiveSize(t) \in Nat /\ LiveSize(t) <= TASK_MEM_SIZE
    BY LiveFits
  <2>3. TaskLoc(t) \in Nat /\ TaskLoc(t) + TASK_SIZE <= TaskLoc(MAX_TASKS)
    BY SlotsApart, LocTypes
  <2>4. TaskLoc(MAX_TASKS) \in Nat
    BY LocTypes, LayoutAssumption
  <2>5. CASE pc # "sph"
    BY <2>1, <2>2, <2>3, <2>4, <2>5, KernelStackRoom, KernelAssumption,
       LayoutAssumption
    DEF Hit, Overlap, Frame, MemLoc, FIELDS_SIZE, TASK_SIZE
  <2>6. CASE pc = "sph" /\ t = MAX_TASKS - 1
    <3>1. LiveSize(t) + 2 <= TASK_MEM_SIZE
      BY <2>6 DEF LastSlotHasRoom
    <3> QED
      BY <2>1, <2>2, <2>3, <2>4, <2>6, <3>1, KernelStackRoom, KernelAssumption,
         LayoutAssumption
      DEF Hit, Overlap, Frame, MemLoc, FIELDS_SIZE, TASK_SIZE
  <2>7. CASE pc = "sph" /\ t # MAX_TASKS - 1
    <3>1. MAX_TASKS - 1 \in Tasks
      BY LayoutAssumption DEF Tasks
    <3>2. TaskLoc(t) + TASK_SIZE <= TaskLoc(MAX_TASKS - 1)
      BY <2>7, <3>1, SlotsInOrder, LayoutAssumption DEF Tasks
    <3>3. /\ TaskLoc(MAX_TASKS - 1) \in Nat
          /\ TaskLoc(MAX_TASKS - 1) + TASK_SIZE <= TaskLoc(MAX_TASKS)
      BY <3>1, SlotsApart, LocTypes
    <3> QED
      BY <2>1, <2>2, <2>3, <2>4, <2>7, <3>2, <3>3, KernelStackRoom,
         KernelAssumption, LayoutAssumption
      DEF Hit, Overlap, Frame, MemLoc, FIELDS_SIZE, TASK_SIZE
  <2> QED
    BY <2>5, <2>6, <2>7
<1> QED
  BY <1>2, <1>3

\* An interrupt's frame lands on no byte in use, outside the window of the two
\* writes to SP and of a clobbered return.
THEOREM FramesAreHarmless == Spec => []FrameHarmless
BY Inductive, InvImpliesFrameHarmless, PTL

\* The "free" field of every slot no stray write reached is right.
THEOREM FreeFieldsMatch == Spec => []FreeMatchesImage
<1>1. IInv => FreeMatchesImage
  BY DEF IInv, FreeInv, FlagInv, FreeMatchesImage
<1> QED
  BY <1>1, Inductive, PTL

\* Only atomic blocks and crashes turn interrupts off.
THEOREM DeafnessIsAtomic == Spec => []DeafOnlyInAtomic
<1>1. IInv => DeafOnlyInAtomic
  <2> SUFFICES ASSUME IInv, ~iflag, pc \notin {"reset", "boot", "dead", "wild"}
               PROVE  /\ Executing
                      /\ image[cur] \in Programs
                      /\ Quiet[image[cur]][ip]
    BY DEF DeafOnlyInAtomic
  <2>1. Executing
    BY DEF IInv, TypeOK, FlagInv, Executing, InKernel, Main_pcs
  <2>2. image[cur] # Blank
    BY <2>1 DEF IInv, FlagInv
  <2>3. image[cur] \in Programs
    BY <2>2 DEF IInv, TypeOK
  <2>4. ip \in DOMAIN Code[image[cur]]
    BY <2>1, <2>2 DEF IInv, StackInv
  <2>5. Quiet[image[cur]][ip] \in BOOLEAN
    BY <2>3, <2>4, ProgramTypes
  <2>6. iflag = ~Quiet[image[cur]][ip]
    BY <2>1, <2>2 DEF IInv, FlagInv
  <2> QED
    BY <2>1, <2>3, <2>5, <2>6
<1> QED
  BY <1>1, Inductive, PTL


\* One step of DamageConfined, without the box.
DamageExcused ==
    \/ damaged' \subseteq damaged
    \/ pc \in {"spl", "reset"}
    \/ pc = "sph" /\ ~LastSlotHasRoom
    \/ \E k \in Pokes : IsrSetMemory(k)
    \/ Executing /\ ~RunsFitting
    \/ pc = "run" /\ Adrift

\* A handler other than SET_MEMORY damages nothing but by its frame.
LEMMA IsrDamage == IInv /\ Isr => DamageExcused
<1> SUFFICES ASSUME IInv, Isr, pc \notin {"spl", "reset"},
                    pc = "sph" => LastSlotHasRoom,
                    Executing => RunsFitting,
                    ~\E k \in Pokes : IsrSetMemory(k)
             PROVE  damaged' \subseteq damaged
  BY DEF DamageExcused
<1>1. Interruptible /\ damaged' \subseteq DamagedAfter({Frame})
  <2>1. CASE \E t \in Tasks, p \in Programs : IsrLoad(t, p)
    BY <2>1 DEF IsrLoad
  <2>2. CASE \E t \in Tasks : IsrStart(t) \/ IsrStop(t) \/ IsrInspect(t)
    BY <2>2 DEF IsrStart, IsrStop, IsrSetState, IsrInspect, Write
  <2>3. CASE IsrReply \/ IsrBadMessage
    BY <2>3 DEF IsrReply, IsrBadMessage, Write
  <2> QED
    BY <2>1, <2>2, <2>3 DEF Isr
<1>2. \A t \in Tasks : ~Hit(t, Frame)
  BY <1>1, InvImpliesFrameHarmless DEF FrameHarmless
<1> QED
  BY <1>1, <1>2 DEF DamagedAfter

\* A push of a fitting program lands above its heap.
LEMMA PushDamage ==
    ASSUME IInv, Push, RunsFitting
    PROVE  damaged' \subseteq damaged
<1> DEFINE p == image[cur]
<1>0. pc = "run" /\ image[cur] # Blank /\ Code[image[cur]][ip].op = "push"
  BY DEF Push, At
<1>1. /\ p \in Programs /\ ip \in DOMAIN Code[p]
      /\ sp = StackTop(cur) - Depth[p][ip]
      /\ cur \in Tasks
  BY <1>0, AtFacts DEF IInv, TypeOK
<1>2. ip + 1 \in Successors(p, ip)
  BY <1>0 DEF Successors
<1>3. /\ ip + 1 \in DOMAIN Code[p]
      /\ Depth[p][ip + 1] = Depth[p][ip] + 2
      /\ Grown[p][ip + 1] = Grown[p][ip] + 0
  BY <1>0, <1>1, <1>2, ProgramStep DEF StackGrowth, HeapGrowth
<1>4. /\ PayloadSize[p] \in 1 .. TASK_MEM_SIZE
      /\ Grown[p][ip] \in Nat
      /\ Depth[p][ip] \in 0 .. TASK_MEM_SIZE - 2
  BY <1>1, ProgramTypes
<1>5. PayloadSize[p] + Grown[p][ip + 1] + Depth[p][ip + 1] + ISR_FRAME
        <= TASK_MEM_SIZE
  BY <1>3 DEF RunsFitting, Fits
<1>6. MemLoc(cur) \in Nat
  BY <1>1, SlotsApart, LocTypes
<1>7. /\ sp - 1 \in Int
      /\ MemLoc(cur) + PayloadSize[p] + Grown[p][ip] <= sp - 1
      /\ (sp - 1) + 2 <= MemLoc(cur) + TASK_MEM_SIZE
  <2> HIDE DEF p
  <2> QED
    BY <1>1, <1>3, <1>4, <1>5, <1>6, Sizes DEF StackTop
<1>8. \A t \in Tasks : ~Hit(t, [at |-> sp - 1, len |-> 2])
  BY <1>0, <1>7, FreeRangeHitsNothing DEF Executing
<1> QED
  BY <1>8 DEF Push, Write, DamagedAfter

\* A heap push of a fitting program lands on its free space, if the heap
\* pointer is the one its image was loaded with.
LEMMA HPushDamage ==
    ASSUME IInv, HPush, RunsFitting, ~Adrift
    PROVE  damaged' \subseteq damaged
<1> DEFINE p == image[cur]
<1>0. pc = "run" /\ image[cur] # Blank /\ Code[image[cur]][ip].op = "hpush"
  BY DEF HPush, At
<1>1. p \in Programs /\ ip \in DOMAIN Code[p] /\ cur \in Tasks
  BY <1>0, AtFacts DEF IInv, TypeOK
<1>2. ip + 1 \in Successors(p, ip)
  BY <1>0 DEF Successors
<1>3. /\ ip + 1 \in DOMAIN Code[p]
      /\ Grown[p][ip + 1] = Grown[p][ip] + 2
  BY <1>0, <1>1, <1>2, ProgramStep DEF HeapGrowth
<1>4. /\ PayloadSize[p] \in 1 .. TASK_MEM_SIZE
      /\ Grown[p][ip] \in Nat
      /\ Depth[p][ip + 1] \in 0 .. TASK_MEM_SIZE - 2
  BY <1>1, <1>3, ProgramTypes
<1>5. PayloadSize[p] + Grown[p][ip + 1] + Depth[p][ip + 1] + ISR_FRAME
        <= TASK_MEM_SIZE
  BY <1>3 DEF RunsFitting, Fits
<1>6. MemLoc(cur) \in Nat /\ x \in Nat
  BY <1>1, SlotsApart, LocTypes DEF IInv, TypeOK
<1>7. x = MemLoc(cur) + PayloadSize[p] + Grown[p][ip]
  BY <1>0 DEF Adrift, Payload
<1>8. x + 2 <= MemLoc(cur) + TASK_MEM_SIZE
  <2> HIDE DEF p
  <2> QED
    BY <1>3, <1>4, <1>5, <1>6, <1>7, Sizes
<1>9. \A t \in Tasks : ~Hit(t, [at |-> x, len |-> 2])
  BY <1>0, <1>6, <1>7, <1>8, FreeRangeHitsNothing DEF Executing
<1> QED
  BY <1>9 DEF HPush, Write, DamagedAfter

\* The main thread damages nothing, but for the cases the property names.
LEMMA CpuDamage == IInv /\ Cpu => DamageExcused
<1> SUFFICES ASSUME IInv, Cpu, Executing => RunsFitting,
                    pc = "run" => ~Adrift
             PROVE  damaged' \subseteq damaged
  BY DEF DamageExcused
<1>1. CASE Push
  BY <1>1, PushDamage DEF Push, At, Executing
<1>2. CASE HPush
  BY <1>2, HPushDamage DEF HPush, At, Executing
<1>3. CASE Startup
  BY <1>3 DEF Startup
<1>4. CASE Main \/ Poll \/ Dispatch \/ FetchFreeFirst \/ FetchFreeSecond
           \/ SetSPH \/ SetSPL
  BY <1>4 DEF Main, Poll, Dispatch, FetchFreeFirst, FetchFreeSecond, SetSPH, SetSPL
<1>5. CASE Pop \/ SetPtr \/ Unary \/ Jump \/ JumpIf \/ Assert \/ Atomic
           \/ EndAtomic \/ Halt \/ Derail \/ Spin
  BY <1>5 DEF Pop, SetPtr, Unary, Jump, JumpIf, Assert, Atomic, EndAtomic,
              Halt, Derail, Spin, vars
<1> QED
  BY <1>1, <1>2, <1>3, <1>4, <1>5 DEF Cpu

\* Bytes in use are overwritten only where DamageConfined says.
THEOREM DamageIsConfined == Spec => DamageConfined
<1>1. IInv /\ [Next]_vars => DamageExcused \/ UNCHANGED vars
  BY IsrDamage, CpuDamage DEF Next
<1> QED
  BY <1>1, Inductive, PTL DEF Spec, DamageConfined, DamageExcused

\* The interpreter never finds another program under its instruction pointer.
THEOREM CodeIsStable == Spec => CodeStaysPut
<1> DEFINE Stays == Executing /\ Executing' /\ image[cur] # Blank
                      => cur' = cur /\ image'[cur] = image[cur]
<1>1. ASSUME IInv, [Next]_vars PROVE Stays \/ UNCHANGED vars
  <2> SUFFICES ASSUME Executing, Executing', Next
               PROVE  cur' = cur /\ image'[cur] = image[cur]
    BY <1>1
  <2>1. CASE Cpu
    BY <2>1 DEF Cpu, Startup, Main, Poll, Dispatch, FetchFreeFirst,
                FetchFreeSecond, SetSPH, SetSPL, Push, Pop, SetPtr, Unary, HPush,
                Jump, JumpIf, Assert, Atomic, EndAtomic, Halt, Derail, Spin, vars,
                Executing
  <2>2. CASE \E t \in Tasks, p \in Programs : IsrLoad(t, p)
    <3>1. PICK t \in Tasks, p \in Programs : IsrLoad(t, p)
      BY <2>2
    <3>2. t # cur
      BY <1>1, <3>1, LoadOfRunningSlot DEF Executing
    <3> QED
      BY <1>1, <3>1, <3>2 DEF IsrLoad, IInv, TypeOK
  <2>3. CASE Isr /\ ~\E t \in Tasks, p \in Programs : IsrLoad(t, p)
    BY <2>3 DEF Isr, IsrStart, IsrStop, IsrSetState, IsrInspect, IsrReply,
                IsrSetMemory, IsrBadMessage
  <2> QED
    BY <2>1, <2>2, <2>3 DEF Next
<1> QED
  BY <1>1, Inductive, PTL DEF Spec, CodeStaysPut

=============================================================================
