---------------------------- MODULE UsbReadProofs ----------------------------
(***************************************************************************)
(* Proofs about the receiving side of the USB driver, for every set of     *)
(* tasks, of reports and of lines they wait for, and any number of         *)
(* failures.                                                               *)
(***************************************************************************)
EXTENDS UsbRead, TLAPS

-----------------------------------------------------------------------------
(* Type correctness                                                        *)

\* Status bytes that are stored are among the reports, without errors or not.
LEMMA Statuses ==
    ASSUME TypeOK, NEW s \in SUBSET Bits, SetStatus(s)
    PROVE  lineStatus' \subseteq Bits /\ touched' \subseteq Tasks
<1>1. lineStatus' = s /\ touched \subseteq Tasks
  BY DEF TypeOK, SetStatus
<1>2. \A t \in touched' : t \in touched \/ t \in Tasks
  BY Zenon DEF SetStatus
<1> QED
  BY <1>1, <1>2

\* Failures are counted up to the bound.
LEMMA Counted ==
    ASSUME TypeOK, faults < MaxFaults, faults' = faults + 1
    PROVE  faults' \in 0 .. MaxFaults
<1>1. faults \in 0 .. MaxFaults
  BY Zenon DEF TypeOK
<1>2. MaxFaults \in Nat
  BY Zenon, UsbReadAssumption
<1> QED
  BY <1>1, <1>2

\* So are those of a submission.
LEMMA FailsCounted ==
    ASSUME TypeOK, NEW u, Fails(u)
    PROVE  faults' \in 0 .. MaxFaults
<1>1. CASE UNCHANGED faults
  BY <1>1 DEF TypeOK
<1> QED
  BY <1>1, Counted DEF Fails

LEMMA TypeInit == Init => TypeOK
<1>1. MaxFaults \in Nat
  BY Zenon, UsbReadAssumption
<1> SUFFICES ASSUME Init PROVE TypeOK
  OBVIOUS
<1>2. /\ cb \in [Urbs -> {"idle", "ok", "push", "notify", "exit"}]
      /\ cb[READ] # "notify" /\ cb[INT] # "push"
  BY DEF Init, Urbs, READ, INT
<1>3. waitFlag \in BOOLEAN /\ fresh \in BOOLEAN
  BY Zenon DEF Init
<1>4. faults \in 0 .. MaxFaults
  BY <1>1 DEF Init
<1>5. /\ pc \in [Tasks -> {"idle", "wait", "asleep", "woken", "look"}]
      /\ prev \in [Tasks -> SUBSET Bits]
  BY DEF Init
<1> QED
  BY <1>2, <1>3, <1>4, <1>5 DEF Init, TypeOK

\* Every step keeps the types.
LEMMA TypeStep == TypeOK /\ [Next]_vars => TypeOK'
<1> SUFFICES ASSUME TypeOK, [Next]_vars PROVE TypeOK'
  OBVIOUS
<1> USE DEF usb, status, tasks
<1>1. READ \in Urbs /\ INT \in Urbs /\ READ # INT
      /\ \A u \in Urbs : u = READ \/ u = INT
  BY DEF Urbs, READ, INT
<1>2. ASSUME NEW u \in Urbs, NEW step \in {"idle", "ok", "exit"},
             Returns(u, step), stopped' \in SUBSET Urbs,
             faults' \in 0 .. MaxFaults
      PROVE  TypeOK'
  BY <1>1, <1>2 DEF Returns, TypeOK
<1>3. CASE Core
  <2>1. PICK u \in Urbs : Complete(u) \/ Ended(u) \/ Again(u) \/ Stops
    BY <1>3 DEF Core
  <2>2. CASE Complete(u)
    BY <1>2, <2>2 DEF Complete, TypeOK
  <2>3. CASE Ended(u)
    BY <1>2, <2>3 DEF Ended, TypeOK
  <2>4. CASE Again(u)
    <3>1. faults' \in 0 .. MaxFaults
      BY <2>4, Counted DEF Again
    <3> QED
      BY <1>2, <2>4, <3>1 DEF Again, TypeOK
  <2>5. CASE Stops
    <3>1. faults' \in 0 .. MaxFaults
      BY <2>5, Counted DEF Stops
    <3> QED
      BY <1>1, <1>2, <2>5, <3>1 DEF Stops, TypeOK
  <2> QED
    BY <2>1, <2>2, <2>3, <2>4, <2>5
<1>4. CASE Update
  <2>1. cb' = [cb EXCEPT ![INT] = "notify"] \/ cb' = [cb EXCEPT ![INT] = "exit"]
    BY <1>4 DEF Update
  <2>2. /\ cb' \in [Urbs -> {"idle", "ok", "push", "notify", "exit"}]
        /\ cb'[READ] # "notify" /\ cb'[INT] # "push"
    BY <1>1, <2>1 DEF TypeOK
  <2>3. lineStatus' \subseteq Bits /\ touched' \subseteq Tasks
    <3>1. CASE \E r \in Reports : SetStatus(r)
      BY <3>1, Statuses, UsbReadAssumption
    <3>2. CASE UNCHANGED <<lineStatus, touched>>
      BY <3>2 DEF TypeOK
    <3> QED
      BY <1>4, <3>1, <3>2 DEF Update
  <2>4. fresh' \in BOOLEAN
    BY <1>4, Zenon DEF Update, TypeOK
  <2> QED
    BY <1>4, <2>2, <2>3, <2>4 DEF Update, TypeOK
<1>5. CASE Notify
  BY <1>1, <1>5 DEF Notify, TypeOK
<1>6. CASE Sample
  <2>1. lineStatus' \subseteq Bits /\ touched' \subseteq Tasks
    <3>1. lineStatus \ TRANSIENT \in SUBSET Bits
      BY DEF TypeOK
    <3> QED
      BY <1>6, <3>1, Statuses DEF Sample
  <2>2. TtyFlag(lineStatus) \in {"normal", "parity", "overrun", "frame"}
    BY DEF TtyFlag
  <2> QED
    BY <1>1, <1>6, <2>1, <2>2 DEF Sample, TypeOK
<1>7. CASE Push
  BY <1>1, <1>7 DEF Push, TypeOK
<1>8. ASSUME NEW u \in Urbs, Resubmit(u) PROVE TypeOK'
  <2>1. faults' \in 0 .. MaxFaults
    BY <1>8, FailsCounted DEF Resubmit, TypeOK
  <2>2. flying' \subseteq Urbs /\ stopped' \subseteq Urbs
    BY <1>8 DEF Resubmit, TypeOK
  <2>3. cb' = [cb EXCEPT ![u] = "idle"]
    BY <1>8 DEF Resubmit
  <2>4. /\ cb' \in [Urbs -> {"idle", "ok", "push", "notify", "exit"}]
        /\ cb'[READ] # "notify" /\ cb'[INT] # "push"
    BY <1>1, <2>3 DEF TypeOK
  <2> QED
    BY <1>8, <2>1, <2>2, <2>4 DEF Resubmit, TypeOK
<1>9. CASE Open \/ Close
  BY <1>9 DEF Open, Close, TypeOK
<1>10. CASE OpenRead \/ OpenListen
  <2>1. ASSUME NEW u \in Urbs, NEW next \in {"listening", "open"},
               SubmitOrClose(u, next)
        PROVE  TypeOK'
    <3>1. faults' \in 0 .. MaxFaults
      BY <2>1, FailsCounted DEF SubmitOrClose, TypeOK
    <3>2. flying' \subseteq Urbs /\ stopped' \subseteq Urbs
      BY <2>1 DEF SubmitOrClose, TypeOK
    <3> QED
      BY <2>1, <3>1, <3>2 DEF SubmitOrClose, TypeOK
  <2> QED
    BY <1>1, <1>10, <2>1 DEF OpenRead, OpenListen
<1>11. CASE KillUrbs
  BY <1>1, <1>11 DEF KillUrbs, KillBegins, KillEnds, TypeOK
<1>12. CASE OtherBoard
  BY <1>12 DEF OtherBoard, TypeOK
<1>13. ASSUME NEW t \in Tasks, Ask(t) \/ Task(t) \/ Signal(t) PROVE TypeOK'
  <2>1. CASE Ask(t)
    BY <2>1 DEF Ask, TypeOK
  <2>2. CASE Wait(t)
    BY <2>2 DEF Wait, TypeOK
  <2>3. CASE Wake(t)
    BY <2>3 DEF Wake, TypeOK
  <2>4. CASE TakeFlag(t)
    BY <2>4 DEF TakeFlag, TypeOK
  <2>5. CASE Look(t)
    BY <2>5 DEF Look, TypeOK
  <2>6. CASE Signal(t)
    BY <2>6 DEF Signal, TypeOK
  <2> QED
    BY <1>13, <2>1, <2>2, <2>3, <2>4, <2>5, <2>6 DEF Task
<1>14. CASE UNCHANGED vars
  BY <1>14 DEF vars, TypeOK
<1> QED
  BY <1>3, <1>4, <1>5, <1>6, <1>7, <1>8, <1>9, <1>10, <1>11, <1>12, <1>13,
     <1>14 DEF Next, Callbacks

\* Every variable keeps its type: no callback is in a step of the other one's.
THEOREM TypeCorrect == Spec => []TypeOK
<1>1. Init => TypeOK
  BY TypeInit
<1>2. TypeOK /\ [Next]_vars => TypeOK'
  BY TypeStep
<1> QED
  BY <1>1, <1>2, PTL DEF Spec

-----------------------------------------------------------------------------
(* Opening and closing                                                     *)

\* An URB that nothing is done with, and one that is submitted over and over
\* unless a submission of it failed.
Quiet(u) == u \notin flying /\ cb[u] = "idle"
Live(u)  == u \in flying \cup stopped \/ cb[u] # "idle"

\* An URB refuses submissions while it is killed, and at no other time: what
\* its callback submits in between is refused.  What was killed stays quiet,
\* because only the open port submits it.
Phases ==
    /\ port = "killing int" => reject = {INT}
    /\ port = "killing read" => reject = {READ}
    /\ port \notin {"killing int", "killing read"} => reject = {}
    /\ port \in {"closed", "reading", "listening", "kill read",
                 "killing read"} => Quiet(INT)
    /\ port \in {"closed", "reading"} => Quiet(READ)
    /\ port \in {"listening", "open"} => Live(READ)
    /\ port = "open" => Live(INT)

\* Steps that leave the port, the URBs and their callbacks alone.
LEMMA Elsewhere ==
    ASSUME Phases, UNCHANGED <<port, flying, reject, cb, stopped>>
    PROVE  Phases'
BY Zenon DEF Phases, Quiet, Live

\* A callback goes on: its URB is in a callback before and after.
LEMMA GoesOn ==
    ASSUME TypeOK, Phases, NEW u \in Urbs, NEW step, step # "idle",
           cb[u] # "idle", cb' = [cb EXCEPT ![u] = step],
           UNCHANGED <<port, flying, reject, stopped>>
    PROVE  Phases'
<1>1. \A w \in Urbs : Quiet(w)' = Quiet(w) /\ Live(w)' = Live(w)
  BY DEF Quiet, Live, TypeOK
<1>2. READ \in Urbs /\ INT \in Urbs
  BY DEF Urbs
<1> QED
  BY <1>1, <1>2 DEF Phases

LEMMA PhasesInit == Init => Phases
BY DEF Init, Phases, Quiet, Urbs, READ, INT

LEMMA PhasesStep == TypeOK /\ Phases /\ [Next]_vars => Phases'
<1> SUFFICES ASSUME TypeOK, Phases, [Next]_vars PROVE Phases'
  OBVIOUS
<1> USE DEF usb, status, tasks
<1>1. READ \in Urbs /\ INT \in Urbs /\ READ # INT
      /\ \A u \in Urbs : u = READ \/ u = INT
  BY DEF Urbs, READ, INT
<1>2. ASSUME NEW u \in Urbs, Complete(u) \/ Ended(u) \/ Again(u) \/ Stops
      PROVE  Phases'
  <2>1. CASE Complete(u) \/ Again(u)
    BY <1>1, <2>1 DEF Complete, Again, Returns, Phases, Quiet, Live, TypeOK
  <2>2. CASE Ended(u)
    BY <1>1, <2>2 DEF Ended, Returns, Phases, Quiet, Live, TypeOK
  <2>3. CASE Stops
    BY <1>1, <2>3 DEF Stops, Returns, Phases, Quiet, Live, TypeOK
  <2> QED
    BY <1>2, <2>1, <2>2, <2>3
<1>3. CASE Update \/ Notify
  BY <1>1, <1>3, GoesOn DEF Update, Notify
<1>4. CASE Sample \/ Push
  BY <1>1, <1>4, GoesOn DEF Sample, Push
<1>5. ASSUME NEW u \in Urbs, Resubmit(u) PROVE Phases'
  <2>1. CASE /\ Accepts(u)
             /\ flying' = flying \cup {u} /\ stopped' = stopped
    BY <1>1, <1>5, <2>1
       DEF Resubmit, Accepts, Phases, Quiet, Live, TypeOK
  <2>2. CASE stopped' = stopped \cup {u} /\ flying' = flying
    BY <1>1, <1>5, <2>2 DEF Resubmit, Phases, Quiet, Live, TypeOK
  <2> QED
    BY <1>5, <2>1, <2>2 DEF Resubmit
<1>6. CASE Open \/ Close
  BY <1>1, <1>6 DEF Open, Close, Phases, Quiet, Live
<1>7. CASE OpenRead
  BY <1>1, <1>7 DEF OpenRead, SubmitOrClose, Accepts, Phases, Quiet, Live
<1>8. CASE OpenListen
  BY <1>1, <1>8 DEF OpenListen, SubmitOrClose, Accepts, Phases, Quiet, Live
<1>9. CASE KillUrbs
  BY <1>1, <1>9 DEF KillUrbs, KillBegins, KillEnds, Phases, Quiet, Live
<1>10. CASE OtherBoard
  BY <1>10, Elsewhere DEF OtherBoard
<1>11. ASSUME NEW t \in Tasks, Ask(t) \/ Task(t) \/ Signal(t) PROVE Phases'
  BY <1>11, Elsewhere DEF Ask, Task, Wait, Wake, TakeFlag, Look, Signal
<1>12. CASE UNCHANGED vars
  BY <1>12, Elsewhere DEF vars
<1> QED
  BY <1>2, <1>3, <1>4, <1>5, <1>6, <1>7, <1>8, <1>9, <1>10, <1>11, <1>12
     DEF Next, Core, Callbacks

LEMMA PhasesHold == Spec => []Phases
<1>1. Init => Phases
  BY PhasesInit
<1>2. TypeOK /\ Phases /\ [Next]_vars => Phases'
  BY PhasesStep
<1> QED
  BY <1>1, <1>2, TypeCorrect, PTL DEF Spec

\* A closed port is quiet: what a callback submits while its URB is killed is
\* refused, and the kill waits for the callback.
THEOREM ClosedPortIsQuiet == Spec => []QuietWhenClosed
<1>1. TypeOK /\ Phases => QuietWhenClosed
  <2>1. ASSUME Phases, port = "closed"
        PROVE  \A u \in Urbs : u \notin flying /\ cb[u] = "idle"
    BY <2>1 DEF Phases, Quiet, Urbs
  <2> QED
    BY <2>1 DEF QuietWhenClosed, TypeOK
<1> QED
  BY <1>1, PhasesHold, TypeCorrect, PTL

\* An open port listens on both URBs, unless a submission failed.
THEOREM OpenPortListens == Spec => []ListensWhileOpen
<1>1. Phases => ListensWhileOpen
  BY DEF Phases, ListensWhileOpen, Live, Urbs
<1> QED
  BY <1>1, PhasesHold, PTL

-----------------------------------------------------------------------------
(* The status                                                              *)

\* Errors in the status were reported since the read callback looked.
ErrorsFresh == lineStatus \cap TRANSIENT # {} => fresh

\* What no task has noticed did not change.
Noticed ==
    \A t \in Tasks :
        pc[t] # "idle" /\ t \notin touched
            => Differ(prev[t], lineStatus) \cap Mask[t] = {}

LEMMA FreshStep == TypeOK /\ ErrorsFresh /\ [Next]_vars => ErrorsFresh'
<1> SUFFICES ASSUME TypeOK, ErrorsFresh, [Next]_vars PROVE ErrorsFresh'
  OBVIOUS
<1> USE DEF usb, status, tasks
<1>1. CASE UNCHANGED <<lineStatus, fresh>>
  BY <1>1 DEF ErrorsFresh
<1>2. CASE Update
  BY <1>1, <1>2 DEF Update, SetStatus, ErrorsFresh
<1>3. CASE Sample
  BY <1>3 DEF Sample, SetStatus, ErrorsFresh
<1>4. CASE Core
  BY <1>1, <1>4 DEF Core, Complete, Ended, Again, Stops, Returns
<1>5. CASE Notify \/ Push \/ \E u \in Urbs : Resubmit(u)
  BY <1>1, <1>5 DEF Notify, Push, Resubmit
<1>6. CASE Open \/ OpenRead \/ OpenListen \/ Close
  BY <1>1, <1>6 DEF Open, OpenRead, OpenListen, SubmitOrClose, Close
<1>7. CASE KillUrbs \/ OtherBoard
  BY <1>1, <1>7 DEF KillUrbs, KillBegins, KillEnds, OtherBoard
<1>8. CASE \E t \in Tasks : Ask(t) \/ Task(t) \/ Signal(t)
  BY <1>1, <1>8 DEF Ask, Task, Wait, Wake, TakeFlag, Look, Signal
<1>9. CASE UNCHANGED vars
  BY <1>1, <1>9 DEF vars
<1> QED
  BY <1>2, <1>3, <1>4, <1>5, <1>6, <1>7, <1>8, <1>9 DEF Next, Callbacks

\* A reported error flags the bytes of one transfer.
THEOREM ErrorsFlagOnce == Spec => FlaggedOnce
<1>1. Init => ErrorsFresh
  BY DEF Init, ErrorsFresh
<1>2. TypeOK /\ ErrorsFresh /\ [Next]_vars => ErrorsFresh'
  BY FreshStep
<1>3. ASSUME ErrorsFresh, [Next]_vars
      PROVE  [flag = "normal" /\ flag' # "normal" => fresh]_vars
  <2> SUFFICES ASSUME flag = "normal", flag' # "normal" PROVE fresh
    OBVIOUS
  <2> USE DEF usb, status, tasks
  <2>1. CASE Sample
    <3>1. TtyFlag(lineStatus) # "normal" => lineStatus \cap TRANSIENT # {}
      BY DEF TtyFlag, PARITY, OVERRUN, FRAME, TRANSIENT
    <3> QED
      BY <1>3, <2>1, <3>1 DEF Sample, ErrorsFresh
  <2>2. CASE Push
    BY <2>2 DEF Push
  <2>3. CASE UNCHANGED flag
    BY <2>3
  <2>4. Next \/ UNCHANGED vars
    BY <1>3
  <2>5. CASE Core \/ Update \/ Notify \/ \E u \in Urbs : Resubmit(u)
    BY <2>3, <2>5
       DEF Core, Complete, Ended, Again, Stops, Returns, Update, Notify,
           Resubmit
  <2>6. CASE \/ Open \/ OpenRead \/ OpenListen \/ Close \/ KillUrbs
             \/ OtherBoard
    BY <2>3, <2>6
       DEF Open, OpenRead, OpenListen, SubmitOrClose, Close, KillUrbs,
           KillBegins, KillEnds, OtherBoard
  <2>7. CASE \E t \in Tasks : Ask(t) \/ Task(t) \/ Signal(t)
    BY <2>3, <2>7 DEF Ask, Task, Wait, Wake, TakeFlag, Look, Signal
  <2>8. CASE UNCHANGED vars
    BY <2>3, <2>8 DEF vars
  <2> QED
    BY <2>1, <2>2, <2>4, <2>5, <2>6, <2>7, <2>8 DEF Next, Callbacks
<1> QED
  BY <1>1, <1>2, <1>3, TypeCorrect, PTL DEF Spec, FlaggedOnce

\* A new status that differs in lines a task waits for touches the task.
LEMMA StatusNoticed ==
    ASSUME TypeOK, Noticed, NEW s, SetStatus(s), UNCHANGED <<pc, prev>>
    PROVE  Noticed'
<1> SUFFICES ASSUME NEW t \in Tasks, pc[t] # "idle", t \notin touched'
             PROVE  Differ(prev[t], s) \cap Mask[t] = {}
  BY DEF Noticed, SetStatus, Differ
<1>1. t \notin touched /\ Differ(lineStatus, s) \cap Mask[t] = {}
  BY Zenon DEF SetStatus
<1>2. Differ(prev[t], lineStatus) \cap Mask[t] = {}
  BY <1>1 DEF Noticed
<1> QED
  BY <1>1, <1>2 DEF Differ

LEMMA NoticedStep == TypeOK /\ Noticed /\ [Next]_vars => Noticed'
<1> SUFFICES ASSUME TypeOK, Noticed, [Next]_vars PROVE Noticed'
  OBVIOUS
<1> USE DEF usb, status, tasks
<1>1. CASE UNCHANGED <<lineStatus, touched, pc, prev>>
  BY <1>1, Zenon DEF Noticed, Differ
<1>2. CASE Update
  BY <1>1, <1>2, StatusNoticed DEF Update
<1>3. CASE Sample
  BY <1>3, StatusNoticed DEF Sample
<1>4. CASE Core
  BY <1>1, <1>4 DEF Core, Complete, Ended, Again, Stops, Returns
<1>5. CASE Notify \/ Push \/ \E u \in Urbs : Resubmit(u)
  BY <1>1, <1>5 DEF Notify, Push, Resubmit
<1>6. CASE Open \/ OpenRead \/ OpenListen \/ Close
  BY <1>1, <1>6 DEF Open, OpenRead, OpenListen, SubmitOrClose, Close
<1>7. CASE KillUrbs \/ OtherBoard
  BY <1>1, <1>7 DEF KillUrbs, KillBegins, KillEnds, OtherBoard
<1>8. ASSUME NEW t \in Tasks, Ask(t) \/ Task(t) \/ Signal(t) PROVE Noticed'
  <2>1. CASE Ask(t) \/ Look(t)
    BY <2>1 DEF Ask, Look, Noticed, Differ, TypeOK
  <2>2. CASE Wait(t) \/ Wake(t)
    BY <2>2 DEF Wait, Wake, Noticed, TypeOK, Differ
  <2>3. CASE TakeFlag(t)
    BY <2>3 DEF TakeFlag, Noticed, TypeOK, Differ
  <2>4. CASE Signal(t)
    BY <1>1, <2>4 DEF Signal
  <2> QED
    BY <1>8, <2>1, <2>2, <2>3, <2>4 DEF Task
<1>9. CASE UNCHANGED vars
  BY <1>1, <1>9 DEF vars
<1> QED
  BY <1>2, <1>3, <1>4, <1>5, <1>6, <1>7, <1>8, <1>9 DEF Next, Callbacks

\* A task that returns without a signal has seen a bit it asked for change.
THEOREM ReturnMeansChange == Spec => ReturnsOnChange
<1>1. Init => Noticed
  BY DEF Init, Noticed
<1>2. TypeOK /\ Noticed /\ [Next]_vars => Noticed'
  BY NoticedStep
<1>3. ASSUME TypeOK, Noticed, [Next]_vars
      PROVE  [\A t \in Tasks :
                 pc[t] = "look" /\ pc'[t] = "idle" => t \in touched]_vars
  <2> SUFFICES ASSUME NEW t \in Tasks, pc[t] = "look", pc'[t] = "idle"
               PROVE  t \in touched
    OBVIOUS
  <2> USE DEF usb, status, tasks
  <2>1. CASE UNCHANGED pc
    BY <2>1
  <2>2. Next \/ UNCHANGED vars
    BY <1>3
  <2>3. CASE Core \/ Callbacks
    BY <2>1, <2>3
       DEF Core, Complete, Ended, Again, Stops, Returns, Callbacks, Update,
           Notify, Sample, Push, Resubmit
  <2>4. CASE \/ Open \/ OpenRead \/ OpenListen \/ Close \/ KillUrbs
             \/ OtherBoard
    BY <2>1, <2>4
       DEF Open, OpenRead, OpenListen, SubmitOrClose, Close, KillUrbs,
           KillBegins, KillEnds, OtherBoard
  <2>5. ASSUME NEW u \in Tasks, Ask(u) \/ Task(u) \/ Signal(u)
        PROVE  t \in touched
    <3>1. CASE Ask(u) \/ Wait(u) \/ Wake(u) \/ TakeFlag(u) \/ Signal(u)
      BY <1>3, <3>1 DEF Ask, Wait, Wake, TakeFlag, Signal, TypeOK
    <3>2. CASE Look(u)
      <4>1. u = t
        BY <1>3, <3>2 DEF Look, TypeOK
      <4>2. Changed(t)
        BY <1>3, <3>2, <4>1 DEF Look, TypeOK
      <4> QED
        BY <1>3, <4>2 DEF Noticed, Changed
    <3> QED
      BY <2>5, <3>1, <3>2 DEF Task
  <2>6. CASE UNCHANGED vars
    BY <2>1, <2>6 DEF vars
  <2> QED
    BY <2>2, <2>3, <2>4, <2>5, <2>6 DEF Next
<1> QED
  BY <1>1, <1>2, <1>3, TypeCorrect, PTL DEF Spec, ReturnsOnChange

=============================================================================
