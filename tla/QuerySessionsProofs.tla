------------------------ MODULE QuerySessionsProofs ------------------------
(***************************************************************************)
(* Proofs about QuerySessions, for any number of sessions, requests and    *)
(* users and any limit.                                                    *)
(***************************************************************************)
EXTENDS QuerySessions, FiniteSetTheorems, TLAPS

-----------------------------------------------------------------------------
(* Types *)

\* A step of one process: the others keep their tasks.
TaskStep(p) ==
    /\ task' \in [Process -> Task]
    /\ \A q \in Process \ {p} : task'[q] = task[q]
    /\ Coherent(p)'

LEMMA FinishStep ==
    ASSUME TypeOK, NEW p \in Process, Finish(p) PROVE TaskStep(p)
BY SessionsAssumption DEF TypeOK, Task, Idle, Finish, Coherent, TaskStep, Sweeps

LEMMA ReturnStep ==
    ASSUME TypeOK, NEW p \in Process, At(p, "take") \/ At(p, "decide"), Return(p)
    PROVE  TaskStep(p)
BY DEF TypeOK, Task, Idle, Return, Goto, Coherent, TaskStep, Sweeps, At

LEMMA BeginStep ==
    ASSUME TypeOK, NEW p \in Process, NEW label, NEW op, NEW s \in Session \cup {None},
           NEW rest \in SUBSET Session, Begin(p, label, op, s, rest),
           \/ label = "sweep" /\ op = "open" /\ p \in Request
           \/ label = "sweep" /\ op = "sweep"
           \/ label = "shut" /\ op = "shutdown" /\ p = Disposer
           \/ label = "rollback" /\ op = "close" /\ p \in Request /\ s \in Session
           \/ label \in {"take", "lease"} /\ op \in Uses /\ p \in Request /\ s \in Session
    PROVE  TaskStep(p)
BY SessionsAssumption DEF TypeOK, Task, Begin, Coherent, TaskStep, Sweeps, At

LEMMA ContinueStep ==
    ASSUME TypeOK, NEW p \in Process, Continue(p) PROVE TaskStep(p)
<1> USE DEF TypeOK, Task, Sweeps, At, TaskStep
<1>0. Coherent(p)
  OBVIOUS
<1>1. CASE CheckLimit(p)
  <2>1. CASE Goto(p, "open")
    BY <1>0, <1>1, <2>1 DEF CheckLimit, Goto, Coherent
  <2> QED BY <1>1, <2>1, FinishStep DEF CheckLimit
<1>2. CASE FinishOpen(p) BY <1>2, FinishStep DEF FinishOpen
<1>3. CASE FailOpen(p) BY <1>3, FinishStep DEF FailOpen
<1>4. CASE SweepNext(p) BY <1>0, <1>4 DEF SweepNext, Coherent
<1>5. CASE TakeIdle(p)
  <2>1. CASE Goto(p, "decide") BY <1>0, <1>5, <2>1 DEF TakeIdle, Goto, Coherent
  <2> QED BY <1>5, <2>1, ReturnStep DEF TakeIdle
<1>6. CASE DecideIdle(p)
  <2>1. CASE Goto(p, "rollback")
    BY <1>0, <1>6, <2>1, SessionsAssumption DEF DecideIdle, Goto, Coherent
  <2> QED BY <1>6, <2>1, ReturnStep DEF DecideIdle
<1>7. CASE Rollback(p) BY <1>0, <1>7 DEF Rollback, Goto, Coherent
<1>8. CASE DisposeSession(p)
  <2>1. CASE Goto(p, "sweep") /\ task[p].op \in Sweeps
    BY <1>0, <1>8, <2>1 DEF DisposeSession, Goto, Coherent
  <2>2. CASE Goto(p, "shut") /\ task[p].op = "shutdown"
    BY <1>0, <1>8, <2>2 DEF DisposeSession, Goto, Coherent
  <2> QED BY <1>8, <2>1, <2>2, FinishStep DEF DisposeSession
<1>9. CASE Recheck(p)
  <2>1. CASE Goto(p, "lease") BY <1>0, <1>9, <2>1 DEF Recheck, Goto, Coherent
  <2> QED BY <1>9, <2>1, FinishStep DEF Recheck
<1>10. CASE TakeLease(p)
  <2>1. CASE Goto(p, "run") BY <1>0, <1>10, <2>1 DEF TakeLease, Goto, Coherent
  <2> QED BY <1>10, <2>1, FinishStep DEF TakeLease
<1>11. CASE Get(p) BY <1>11, FinishStep DEF Get
<1>12. CASE EndStream(p)
  <2>1. Goto(p, "after") \/ Goto(p, "settle") BY <1>12 DEF EndStream
  <2>2. task[p].at = "run" BY <1>12 DEF EndStream
  <2> QED BY <1>0, <2>1, <2>2 DEF Goto, Coherent
<1>13. CASE SettleStream(p) BY <1>0, <1>13 DEF SettleStream, Goto, Coherent
<1>14. CASE EndCommand(p)
  <2>1. Goto(p, "after") /\ At(p, "run") BY <1>14 DEF EndCommand
  <2> QED BY <1>0, <2>1 DEF Goto, Coherent
<1>15. CASE AfterUse(p)
  <2>1. CASE Goto(p, "discard") BY <1>0, <1>15, <2>1 DEF AfterUse, Goto, Coherent
  <2> QED BY <1>15, <2>1, FinishStep DEF AfterUse
<1>16. CASE Discard(p) BY <1>16, FinishStep DEF Discard
<1> QED
  BY <1>1, <1>2, <1>3, <1>4, <1>5, <1>6, <1>7, <1>8, <1>9, <1>10, <1>11, <1>12, <1>13, <1>14, <1>15, <1>16
     DEF Continue

LEMMA DisposeNextStep ==
    ASSUME TypeOK, DisposeNext PROVE TaskStep(Disposer)
<1>1. Disposer \in Process /\ Coherent(Disposer) BY DEF TypeOK, Process
<1> QED BY <1>1 DEF DisposeNext, TypeOK, Task, TaskStep, Coherent, At, Sweeps

\* In any step at most one process moves.
LEMMA OneMoves ==
    ASSUME TypeOK, Next PROVE \/ \E p \in Process : TaskStep(p)
                              \/ UNCHANGED task
<1> USE SessionsAssumption DEF Process
<1>1. ASSUME NEW p \in Process, Continue(p) PROVE TaskStep(p)
  BY <1>1, ContinueStep
<1>2. ASSUME NEW p \in Request, BeginOpen(p) PROVE TaskStep(p)
  BY <1>2, BeginStep DEF BeginOpen, TypeOK
<1>3. ASSUME NEW p \in Request, NEW s \in Session, BeginClose(p, s) PROVE TaskStep(p)
  BY <1>3, BeginStep DEF BeginClose
<1>4. ASSUME NEW p \in Request, NEW use \in Uses, NEW s \in Session, BeginUse(p, use, s)
      PROVE  TaskStep(p) \/ UNCHANGED task
  BY <1>4, BeginStep DEF BeginUse
<1>5. CASE BeginSweep BY <1>5, BeginStep DEF BeginSweep, TypeOK
<1>6. CASE EndSweep BY <1>6, FinishStep DEF EndSweep
<1>7. CASE BeginDispose BY <1>7, BeginStep DEF BeginDispose, TypeOK
<1>8. CASE DisposeNext BY <1>8, DisposeNextStep
<1>9. CASE EndDispose BY <1>9, FinishStep DEF EndDispose
<1>10. ASSUME NEW s \in Session, Expire(s) PROVE UNCHANGED task
  BY <1>10 DEF Expire
<1> QED
  BY <1>1, <1>2, <1>3, <1>4, <1>5, <1>6, <1>7, <1>8, <1>9, <1>10 DEF Next

\* What the handlers write into a session.
LEMMA SessionWrites ==
    ASSUME NEW x \in SessionState
    PROVE  /\ [x EXCEPT !.txn = FALSE] \in SessionState
           /\ [x EXCEPT !.expired = TRUE] \in SessionState
           /\ [x EXCEPT !.recorded = x.txn, !.unread = FALSE] \in SessionState
           /\ [x EXCEPT !.recorded = FALSE, !.unread = TRUE] \in SessionState
           /\ [x EXCEPT !.expired = FALSE] \in SessionState
           /\ [x EXCEPT !.expired = FALSE, !.unread = TRUE] \in SessionState
           /\ [x EXCEPT !.expired = FALSE, !.unread = FALSE, !.recorded = x.txn] \in SessionState
           /\ \A r \in Request : [x EXCEPT !.owner = OwnerOf[r], !.conn = "open"] \in SessionState
BY DEF SessionState

LEMMA EffectsTyped ==
    ASSUME NEW x \in SessionState, NEW y \in StatementEffects(x)
    PROVE  /\ y \in SessionState /\ y.owner = x.owner
           /\ y.conn \in {"open", "broken"} => x.conn \in {"open", "broken"}
<1>1. CASE x.conn = "open"
  <2>1. ASSUME NEW t \in BOOLEAN, y = [x EXCEPT !.txn = t]
        PROVE  /\ y \in SessionState /\ y.owner = x.owner /\ y.conn = x.conn
    BY <2>1 DEF SessionState
  <2>2. CASE y = [x EXCEPT !.conn = "broken", !.txn = FALSE]
    BY <1>1, <2>2 DEF SessionState
  <2> QED BY <1>1, <2>1, <2>2 DEF StatementEffects
<1>2. CASE x.conn # "open"
  BY <1>2 DEF SessionState, StatementEffects
<1> QED BY <1>1, <1>2

LEMMA StateTyped ==
    ASSUME TypeOK, Next PROVE state' \in [Session -> SessionState]
<1> USE DEF TypeOK
<1>1. ASSUME NEW p \in Process, Continue(p) PROVE state' \in [Session -> SessionState]
  <2>0. /\ task[p].at \notin {"idle", "sweep", "open", "shut"} => task[p].on \in Session
        /\ task[p].at = "open" => p \in Request
    BY DEF Coherent
  <2> DEFINE s == task[p].on
  <2>1. CASE FinishOpen(p)
    <3>1. PICK t \in Session :
            state' = [state EXCEPT ![t].owner = OwnerOf[p], ![t].conn = "open"]
      BY <2>1 DEF FinishOpen
    <3>2. p \in Request BY <2>0, <2>1 DEF FinishOpen, At
    <3> QED BY <3>1, <3>2, SessionWrites
  <2>2. CASE Rollback(p)
    <3>1. s \in Session BY <2>0, <2>2 DEF Rollback, At
    <3>2. CASE state' = [state EXCEPT ![s].txn = FALSE]
      BY <3>1, <3>2, SessionWrites
    <3> QED BY <2>2, <3>2 DEF Rollback
  <2>3. CASE DisposeSession(p) \/ Discard(p)
    <3>1. s \in Session /\ Disconnect(s) BY <2>0, <2>3 DEF DisposeSession, Discard, At
    <3> QED BY <3>1 DEF Disconnect, SessionState
  <2>4. CASE Get(p) \/ SettleStream(p)
    <3>1. s \in Session /\ (RefreshTransaction(s) \/ UNCHANGED state)
      BY <2>0, <2>4 DEF Get, SettleStream, At
    <3>2. CASE state' = [state EXCEPT ![s].recorded = state[s].txn, ![s].unread = FALSE]
      BY <3>1, <3>2, SessionWrites
    <3>3. CASE state' = [state EXCEPT ![s].recorded = FALSE, ![s].unread = TRUE]
      BY <3>1, <3>3, SessionWrites
    <3> QED BY <3>1, <3>2, <3>3 DEF RefreshTransaction
  <2>5. CASE EndStream(p) \/ EndCommand(p)
    <3>1. s \in Session /\ state[s] \in SessionState
      BY <2>0, <2>5 DEF EndStream, EndCommand, At
    <3>2. PICK x \in StatementEffects(state[s]) :
            \/ state' = [state EXCEPT ![s] = [x EXCEPT !.expired = FALSE]]
            \/ state' = [state EXCEPT ![s] = [x EXCEPT !.expired = FALSE, !.unread = TRUE]]
            \/ state' = [state EXCEPT ![s] =
                            [x EXCEPT !.expired = FALSE, !.unread = FALSE, !.recorded = x.txn]]
      BY <2>5 DEF EndStream, EndCommand
    <3>3. x \in SessionState BY <3>1, <3>2, EffectsTyped
    <3> QED BY <3>1, <3>2, <3>3, SessionWrites
  <2>6. CASE UNCHANGED state
    BY <2>6
  <2> QED
    BY <1>1, <2>1, <2>2, <2>3, <2>4, <2>5, <2>6
    DEF Continue, CheckLimit, FailOpen, SweepNext, TakeIdle, DecideIdle, Recheck, TakeLease, AfterUse
<1>2. ASSUME NEW s \in Session, Expire(s) PROVE state' \in [Session -> SessionState]
  BY <1>2, SessionWrites DEF Expire
<1> QED
  BY <1>1, <1>2 DEF Next, BeginOpen, BeginClose, BeginUse, BeginSweep, EndSweep,
     BeginDispose, DisposeNext, EndDispose

LEMMA RegistryTyped ==
    ASSUME TypeOK, Next
    PROVE  /\ sessions' \in SUBSET Session /\ missing' \in SUBSET Session
           /\ disposed' \in BOOLEAN
           /\ gate' \in [Session -> Process \cup {None}]
<1> USE DEF TypeOK, At, Enter, Release
<1>1. ASSUME NEW p \in Process, Continue(p)
      PROVE  /\ sessions' \in SUBSET Session /\ missing' \in SUBSET Session
             /\ disposed' \in BOOLEAN
             /\ gate' \in [Session -> Process \cup {None}]
  <2>0. task[p].at \notin {"idle", "sweep", "open", "shut"} => task[p].on \in Session
    BY DEF Coherent
  <2>1. CASE CheckLimit(p) \/ FinishOpen(p) \/ FailOpen(p) \/ SweepNext(p)
    BY <2>1 DEF CheckLimit, FinishOpen, FailOpen, SweepNext
  <2>2. CASE TakeIdle(p) \/ DecideIdle(p)
    BY <2>0, <2>2 DEF TakeIdle, DecideIdle
  <2>3. CASE Rollback(p) \/ DisposeSession(p)
    BY <2>0, <2>3 DEF Rollback, DisposeSession
  <2>4. CASE Recheck(p) \/ TakeLease(p)
    BY <2>0, <2>4 DEF Recheck, TakeLease
  <2>5. CASE Get(p) \/ EndStream(p) \/ SettleStream(p) \/ EndCommand(p)
    BY <2>0, <2>5 DEF Get, EndStream, SettleStream, EndCommand
  <2>6. CASE AfterUse(p) \/ Discard(p)
    BY <2>0, <2>6 DEF AfterUse, Discard
  <2> QED BY <1>1, <2>1, <2>2, <2>3, <2>4, <2>5, <2>6 DEF Continue
<1> QED
  BY <1>1 DEF Next, BeginOpen, BeginClose, BeginUse, BeginSweep, EndSweep,
     BeginDispose, DisposeNext, EndDispose, Expire

\* The state of the manager stays well-typed, and every process keeps a step, an
\* operation and a session that go together, whatever handlers, sweeper and
\* disposal do.
THEOREM TypeCorrect == Spec => []TypeOK
<1>1. Init => TypeOK
  <2> SUFFICES ASSUME Init PROVE TypeOK
    OBVIOUS
  <2>1. Unopened \in SessionState BY DEF Unopened, SessionState
  <2>2. Idle \in Task BY DEF Idle, Task, Sweeps
  <2>3. \A p \in Process : Coherent(p)
    BY SessionsAssumption DEF Init, Coherent, Idle, Sweeps
  <2> QED BY <2>1, <2>2, <2>3 DEF Init, TypeOK
<1>2. TypeOK /\ [Next]_vars => TypeOK'
  <2> SUFFICES ASSUME TypeOK, Next PROVE TypeOK'
    BY DEF vars, TypeOK, Coherent
  <2>1. task' \in [Process -> Task] /\ \A p \in Process : Coherent(p)'
    BY OneMoves DEF TaskStep, TypeOK, Coherent
  <2> QED BY <2>1, StateTyped, RegistryTyped DEF TypeOK
<1> QED BY <1>1, <1>2, PTL DEF Spec
-----------------------------------------------------------------------------
(* The slot of a session *)

\* What a step may do with the slots: leave them, take a free one on the way in,
\* give its own back on the way out.
SlotStep(p) ==
    \/ /\ UNCHANGED gate
       /\ \A s \in Session : Inside(p, s)' <=> Inside(p, s)
    \/ \E s \in Session :
        /\ GateFree(s) /\ Enter(p, s) /\ Inside(p, s)'
        /\ \A t \in Session \ {s} : Inside(p, t)' <=> Inside(p, t)
    \/ \E s \in Session :
        /\ gate[s] = p /\ Release(s) /\ ~Inside(p, s)'
        /\ \A t \in Session \ {s} : Inside(p, t)' <=> Inside(p, t)

LEMMA SlotStepKeeps ==
    ASSUME TypeOK, GateDiscipline, NEW p \in Process, TaskStep(p), SlotStep(p)
    PROVE  GateDiscipline'
<1>1. \A q \in Process \ {p}, s \in Session : Inside(q, s)' <=> Inside(q, s)
  BY DEF TaskStep, Inside
<1>2. p # None BY SessionsAssumption
<1>3. CASE UNCHANGED gate /\ \A s \in Session : Inside(p, s)' <=> Inside(p, s)
  BY <1>1, <1>3 DEF GateDiscipline
<1>4. ASSUME NEW s \in Session, GateFree(s), Enter(p, s), Inside(p, s)',
             \A t \in Session \ {s} : Inside(p, t)' <=> Inside(p, t)
      PROVE  GateDiscipline'
  <2> SUFFICES ASSUME NEW t \in Session, NEW q \in Process
               PROVE  gate'[t] = q <=> Inside(q, t)'
    BY DEF GateDiscipline
  <2> QED BY <1>1, <1>2, <1>4, SessionsAssumption
          DEF GateDiscipline, TypeOK, GateFree, Enter
<1>5. ASSUME NEW s \in Session, gate[s] = p, Release(s), ~Inside(p, s)',
             \A t \in Session \ {s} : Inside(p, t)' <=> Inside(p, t)
      PROVE  GateDiscipline'
  <2> SUFFICES ASSUME NEW t \in Session, NEW q \in Process
               PROVE  gate'[t] = q <=> Inside(q, t)'
    BY DEF GateDiscipline
  <2> QED BY <1>1, <1>2, <1>5, SessionsAssumption DEF GateDiscipline, TypeOK, Release
<1> QED BY <1>3, <1>4, <1>5 DEF SlotStep

LEMMA ContinueSlots ==
    ASSUME TypeOK, GateDiscipline, NEW p \in Process, Continue(p) PROVE SlotStep(p)
<1>0. /\ Coherent(p) /\ task[p] \in Task /\ TaskStep(p)
      /\ \A s \in Session : gate[s] = p <=> Inside(p, s)
  BY ContinueStep DEF TypeOK, GateDiscipline
<1> DEFINE s == task[p].on
<1> USE <1>0 DEF At, Goto, Finish, Return, Task, Idle, Inside, TypeOK
<1>1. CASE CheckLimit(p) \/ FinishOpen(p) \/ FailOpen(p)
  BY <1>1 DEF CheckLimit, FinishOpen, FailOpen, SlotStep
<1>2. CASE SweepNext(p)
  BY <1>2 DEF SweepNext, SlotStep
<1>3. CASE TakeIdle(p)
  BY <1>3 DEF TakeIdle, SlotStep, Coherent
<1>4. CASE DecideIdle(p)
  BY <1>4 DEF DecideIdle, SlotStep, Coherent
<1>5. CASE Rollback(p)
  BY <1>5 DEF Rollback, SlotStep
<1>6. CASE DisposeSession(p)
  BY <1>6 DEF DisposeSession, SlotStep, Coherent
<1>7. CASE Recheck(p)
  BY <1>7 DEF Recheck, SlotStep
<1>8. CASE TakeLease(p)
  BY <1>8 DEF TakeLease, SlotStep, Coherent
<1>9. CASE Get(p) \/ Discard(p)
  BY <1>9 DEF Get, Discard, SlotStep, Coherent
<1>10. CASE EndStream(p) \/ SettleStream(p) \/ EndCommand(p)
  <2>1. task[p].at \in {"run", "settle"} /\ UNCHANGED gate
    BY <1>10 DEF EndStream, SettleStream, EndCommand
  <2>2. Goto(p, "settle") \/ Goto(p, "after")
    BY <1>10 DEF EndStream, SettleStream, EndCommand
  <2> QED BY <2>1, <2>2 DEF SlotStep
<1>11. CASE AfterUse(p)
  BY <1>11 DEF AfterUse, SlotStep, Coherent
<1> QED
  BY <1>1, <1>2, <1>3, <1>4, <1>5, <1>6, <1>7, <1>8, <1>9, <1>10, <1>11 DEF Continue

\* The slot of a session is held by exactly the process inside it, for ever and
\* whatever way that process leaves: LeaseAsync and TryCloseIdleAsync exclude
\* each other, and none of their exits leaves the slot taken.
THEOREM SlotsCorrect == Spec => []GateDiscipline
<1>1. Init => GateDiscipline
  BY SessionsAssumption DEF Init, GateDiscipline, Inside, Idle
<1>2. TypeOK /\ GateDiscipline /\ [Next]_vars => GateDiscipline'
  <2> SUFFICES ASSUME TypeOK, GateDiscipline, [Next]_vars PROVE GateDiscipline'
    OBVIOUS
  <2>1. ASSUME NEW p \in Process, Continue(p) PROVE GateDiscipline'
    BY <2>1, ContinueStep, ContinueSlots, SlotStepKeeps
  <2>2. ASSUME NEW p \in Process, TaskStep(p), UNCHANGED gate,
               \A s \in Session : ~Inside(p, s) /\ ~Inside(p, s)'
        PROVE  GateDiscipline'
    BY <2>2, SlotStepKeeps DEF SlotStep
  <2>3. ASSUME NEW p \in Request, BeginOpen(p) PROVE GateDiscipline'
    <3>1. TaskStep(p) /\ p \in Process BY <2>3, BeginStep DEF BeginOpen, TypeOK, Process
    <3> QED BY <2>2, <2>3, <3>1 DEF BeginOpen, Begin, At, Inside, TypeOK
  <2>4. ASSUME NEW p \in Request, NEW s \in Session, BeginClose(p, s) PROVE GateDiscipline'
    <3>1. TaskStep(p) /\ p \in Process BY <2>4, BeginStep DEF BeginClose, Process
    <3> QED
      BY <2>2, <2>4, <3>1, SessionsAssumption DEF BeginClose, Begin, At, Inside, TypeOK, Sweeps
  <2>5. ASSUME NEW p \in Request, NEW use \in Uses, NEW s \in Session, BeginUse(p, use, s)
        PROVE  GateDiscipline'
    <3>1. CASE UNCHANGED task
      BY <2>5, <3>1 DEF BeginUse, GateDiscipline, Inside
    <3>2. CASE \E label \in {"take", "lease"} : Begin(p, label, use, s, {})
      <4>1. TaskStep(p) /\ p \in Process BY <3>2, BeginStep DEF Process
      <4> QED
        BY <2>2, <2>5, <3>2, <4>1 DEF BeginUse, Begin, At, Inside, TypeOK
    <3> QED BY <2>5, <3>1, <3>2 DEF BeginUse
  <2>6. CASE BeginSweep
    <3>1. TaskStep(Sweeper) /\ Sweeper \in Process
      BY <2>6, BeginStep DEF BeginSweep, TypeOK, Process
    <3> QED BY <2>2, <2>6, <3>1 DEF BeginSweep, Begin, At, Inside, TypeOK
  <2>7. CASE EndSweep
    <3>1. TaskStep(Sweeper) /\ Sweeper \in Process
      BY <2>7, FinishStep DEF EndSweep, Process
    <3> QED BY <2>2, <2>7, <3>1 DEF EndSweep, Finish, Idle, At, Inside, TypeOK
  <2>8. CASE BeginDispose
    <3>1. TaskStep(Disposer) /\ Disposer \in Process
      BY <2>8, BeginStep DEF BeginDispose, TypeOK, Process
    <3> QED BY <2>2, <2>8, <3>1 DEF BeginDispose, Begin, At, Inside, TypeOK
  <2>9. CASE DisposeNext
    <3>1. TaskStep(Disposer) /\ Disposer \in Process /\ UNCHANGED gate
      BY <2>9, DisposeNextStep DEF DisposeNext, Process
    <3>2. task[Disposer].at = "shut" /\ task[Disposer].op = "shutdown"
      BY <2>9, <3>1 DEF DisposeNext, At, TypeOK, Coherent
    <3>3. task'[Disposer].at \in {"shut", "dispose"} /\ task'[Disposer].op = "shutdown"
      BY <2>9, <3>1, <3>2 DEF DisposeNext, At, TypeOK, Task
    <3> QED BY <2>2, <3>1, <3>2, <3>3, SessionsAssumption DEF Inside, Sweeps
  <2>10. CASE EndDispose
    <3>1. TaskStep(Disposer) /\ Disposer \in Process
      BY <2>10, FinishStep DEF EndDispose, Process
    <3> QED BY <2>2, <2>10, <3>1 DEF EndDispose, Finish, Idle, At, Inside, TypeOK
  <2>11. CASE UNCHANGED <<gate, task>>
    BY <2>11 DEF GateDiscipline, Inside
  <2> QED
    BY <2>1, <2>3, <2>4, <2>5, <2>6, <2>7, <2>8, <2>9, <2>10, <2>11 DEF Next, vars, Expire
<1> QED BY <1>1, <1>2, TypeCorrect, PTL DEF Spec
-----------------------------------------------------------------------------
(* The life of a session: unopened, registered, being closed, gone *)

Known(s) == state[s].owner # None
Held(s) == state[s].conn \in {"open", "broken"}

\* Whatever a process works on, and whatever is or was registered, was opened.
WorkIsKnown ==
    \A p \in Process : \A s \in task[p].rest \cup {task[p].on} : s \in Session => Known(s)
NamesAreKnown == \A s \in sessions \cup missing : Known(s)

\* Who closes a session has unregistered it.
ClosingIsUnregistered == \A p \in Process, s \in Session : Closing(p, s) => s \notin sessions

LifeInv ==
    /\ WorkIsKnown /\ NamesAreKnown
    /\ ClosingIsUnregistered
    /\ NoOrphanConnection /\ NoResurrection

\* The four things a step may do to the life of sessions.
SameClosing(p) == \A s \in Session : Closing(p, s)' <=> Closing(p, s)
NothingOpened == \A s \in Session : Held(s)' => Held(s)

Quiet(p) ==
    /\ UNCHANGED sessions
    /\ SameClosing(p) /\ NothingOpened
    /\ missing' \subseteq missing \cup {s \in Session \ sessions : Known(s)}
Opens(p) ==
    \E t \in Session :
        /\ ~Known(t) /\ Known(t)'
        /\ sessions' = sessions \cup {t}
        /\ SameClosing(p) /\ UNCHANGED missing
        /\ \A s \in Session \ {t} : Held(s)' => Held(s)
Unregisters(p) ==
    \E t \in sessions :
        /\ sessions' = sessions \ {t}
        /\ NothingOpened /\ UNCHANGED missing
        /\ Closing(p, t)'
        /\ \A s \in Session : ~Closing(p, s) /\ (s # t => ~Closing(p, s)')
Disposes(p) ==
    \E t \in Session :
        /\ Closing(p, t) /\ ~Held(t)'
        /\ UNCHANGED sessions /\ NothingOpened
        /\ missing' \subseteq missing \cup {t}
        /\ \A s \in Session : ~Closing(p, s)'
LifeStep(p) == Quiet(p) \/ Opens(p) \/ Unregisters(p) \/ Disposes(p)

LEMMA LifeStepKeeps ==
    ASSUME TypeOK, LifeInv, NEW p \in Process, TaskStep(p), LifeStep(p),
           WorkIsKnown', \A s \in Session : Known(s) => Known(s)',
           sessions' \in SUBSET Session, missing' \in SUBSET Session
    PROVE  LifeInv'
<1>1. \A q \in Process \ {p}, s \in Session : Closing(q, s)' <=> Closing(q, s)
  BY DEF TaskStep, Closing
<1> USE <1>1 DEF LifeInv, TypeOK
<1>2. CASE Quiet(p)
  <2>1. NamesAreKnown' BY <1>2 DEF Quiet, NamesAreKnown
  <2>2. NoResurrection' BY <1>2 DEF Quiet, NoResurrection
  <2>3. \A q \in Process, s \in Session : Closing(q, s)' <=> Closing(q, s)
    BY <1>2 DEF Quiet, SameClosing
  <2>4. ClosingIsUnregistered' BY <1>2, <2>3 DEF Quiet, ClosingIsUnregistered
  <2>5. NoOrphanConnection'
    BY <1>2, <2>3 DEF Quiet, NothingOpened, Held, NoOrphanConnection
  <2> QED BY <2>1, <2>2, <2>4, <2>5
<1>3. CASE Opens(p)
  <2>1. PICK t \in Session :
            /\ ~Known(t) /\ Known(t)'
            /\ sessions' = sessions \cup {t}
            /\ SameClosing(p) /\ UNCHANGED missing
            /\ \A s \in Session \ {t} : Held(s)' => Held(s)
    BY <1>3 DEF Opens
  <2>2. NamesAreKnown' BY <2>1 DEF NamesAreKnown
  <2>3. NoResurrection' BY <2>1 DEF NoResurrection, NamesAreKnown
  <2>4. \A q \in Process, s \in Session : Closing(q, s)' <=> Closing(q, s)
    BY <2>1 DEF SameClosing
  <2>5. \A q \in Process : ~Closing(q, t)
    BY <2>1 DEF WorkIsKnown, Closing
  <2>6. ClosingIsUnregistered' BY <2>1, <2>4, <2>5 DEF ClosingIsUnregistered
  <2>7. NoOrphanConnection' BY <2>1, <2>4 DEF Held, NoOrphanConnection
  <2> QED BY <2>2, <2>3, <2>6, <2>7
<1>4. CASE Unregisters(p)
  <2>1. PICK t \in sessions :
            /\ sessions' = sessions \ {t}
            /\ NothingOpened /\ UNCHANGED missing
            /\ Closing(p, t)'
            /\ \A s \in Session : ~Closing(p, s) /\ (s # t => ~Closing(p, s)')
    BY <1>4 DEF Unregisters
  <2>2. NamesAreKnown' BY <2>1 DEF NamesAreKnown
  <2>3. NoResurrection' BY <2>1 DEF NoResurrection
  <2>4. ClosingIsUnregistered' BY <2>1 DEF ClosingIsUnregistered
  <2>5. \A q \in Process : ~Closing(q, t) BY <2>1 DEF ClosingIsUnregistered
  <2>6. ASSUME NEW s \in Session, Held(s)'
        PROVE  s \in sessions' \/ \E q \in Process : Closing(q, s)'
    <3>1. CASE s = t BY <2>1, <3>1
    <3>2. CASE s # t
      BY <2>1, <2>6, <3>2 DEF NothingOpened, Held, NoOrphanConnection
    <3> QED BY <3>1, <3>2
  <2>7. ASSUME NEW s \in Session, NEW q \in Process, NEW r \in Process,
               Closing(q, s)', Closing(r, s)'
        PROVE  q = r
    BY <2>1, <2>5, <2>7 DEF NoOrphanConnection
  <2>8. NoOrphanConnection' BY <2>6, <2>7 DEF NoOrphanConnection, Held
  <2> QED BY <2>2, <2>3, <2>4, <2>8
<1>5. CASE Disposes(p)
  <2>1. PICK t \in Session :
            /\ Closing(p, t) /\ ~Held(t)'
            /\ UNCHANGED sessions /\ NothingOpened
            /\ missing' \subseteq missing \cup {t}
            /\ \A s \in Session : ~Closing(p, s)'
    BY <1>5 DEF Disposes
  <2>2. t \notin sessions /\ Known(t)
    BY <2>1 DEF ClosingIsUnregistered, WorkIsKnown, Closing
  <2>3. NamesAreKnown' BY <2>1, <2>2 DEF NamesAreKnown
  <2>4. NoResurrection' BY <2>1, <2>2 DEF NoResurrection
  <2>5. ClosingIsUnregistered' BY <2>1 DEF ClosingIsUnregistered
  <2>6. ASSUME NEW s \in Session, Held(s)'
        PROVE  s \in sessions' \/ \E q \in Process : Closing(q, s)'
    <3>1. s # t /\ Held(s) BY <2>1, <2>6 DEF NothingOpened
    <3>2. CASE s \in sessions BY <2>1, <3>2
    <3>3. CASE s \notin sessions
      <4>1. PICK q \in Process : Closing(q, s)
        BY <3>1, <3>3 DEF NoOrphanConnection, Held
      <4>2. q # p BY <2>1, <3>1, <4>1 DEF Closing
      <4> QED BY <4>1, <4>2
    <3> QED BY <3>2, <3>3
  <2>7. ASSUME NEW s \in Session, NEW q \in Process, NEW r \in Process,
               Closing(q, s)', Closing(r, s)'
        PROVE  q = r
    BY <2>1, <2>7 DEF NoOrphanConnection
  <2>8. NoOrphanConnection' BY <2>6, <2>7 DEF NoOrphanConnection, Held
  <2> QED BY <2>3, <2>4, <2>5, <2>8
<1> QED BY <1>2, <1>3, <1>4, <1>5 DEF LifeStep

\* But for OpenAsync nothing opens a connection, and no session changes hands.
LEMMA OwnersStay ==
    ASSUME TypeOK, NEW p \in Process, Continue(p), ~FinishOpen(p)
    PROVE  NothingOpened /\ \A t \in Session : state'[t].owner = state[t].owner
<1> USE DEF TypeOK, NothingOpened, Held
<1> DEFINE s == task[p].on
<1>0. task[p].at \notin {"idle", "sweep", "open", "shut"} => s \in Session
  BY DEF Coherent
<1>f. \A t \in Session : state[t] \in SessionState
  OBVIOUS
<1>2. CASE Rollback(p)
  <2>1. s \in Session BY <1>0, <1>2 DEF Rollback, At
  <2>2. CASE state' = [state EXCEPT ![s].txn = FALSE]
    BY <2>1, <2>2 DEF SessionState
  <2> QED BY <1>2, <2>2 DEF Rollback
<1>3. CASE DisposeSession(p) \/ Discard(p)
  <2>1. s \in Session /\ Disconnect(s) BY <1>0, <1>3 DEF DisposeSession, Discard, At
  <2> QED BY <2>1 DEF Disconnect, SessionState
<1>4. CASE Get(p) \/ SettleStream(p)
  <2>1. s \in Session /\ (RefreshTransaction(s) \/ UNCHANGED state)
    BY <1>0, <1>4 DEF Get, SettleStream, At
  <2>2. CASE state' = [state EXCEPT ![s].recorded = state[s].txn, ![s].unread = FALSE]
    BY <2>1, <2>2 DEF SessionState
  <2>3. CASE state' = [state EXCEPT ![s].recorded = FALSE, ![s].unread = TRUE]
    BY <2>1, <2>3 DEF SessionState
  <2> QED BY <2>1, <2>2, <2>3 DEF RefreshTransaction
<1>5. CASE EndStream(p) \/ EndCommand(p)
  <2>1. s \in Session /\ state[s] \in SessionState
    BY <1>0, <1>5 DEF EndStream, EndCommand, At
  <2>2. PICK x \in StatementEffects(state[s]) :
          \/ state' = [state EXCEPT ![s] = [x EXCEPT !.expired = FALSE]]
          \/ state' = [state EXCEPT ![s] = [x EXCEPT !.expired = FALSE, !.unread = TRUE]]
          \/ state' = [state EXCEPT ![s] =
                          [x EXCEPT !.expired = FALSE, !.unread = FALSE, !.recorded = x.txn]]
    BY <1>5 DEF EndStream, EndCommand
  <2>3. x \in SessionState BY <2>1, <2>2, EffectsTyped
  <2>4. x.owner = state[s].owner /\ (x.conn \in {"open", "broken"} => Held(s))
    BY <2>1, <2>2, EffectsTyped
  <2>5. CASE state' = [state EXCEPT ![s] = [x EXCEPT !.expired = FALSE, !.unread = TRUE]]
    BY <2>1, <2>3, <2>4, <2>5 DEF SessionState
  <2>7. CASE state' = [state EXCEPT ![s] = [x EXCEPT !.expired = FALSE]]
    BY <2>1, <2>3, <2>4, <2>7 DEF SessionState
  <2>6. CASE state' = [state EXCEPT ![s] =
                          [x EXCEPT !.expired = FALSE, !.unread = FALSE, !.recorded = x.txn]]
    BY <2>1, <2>3, <2>4, <2>6 DEF SessionState
  <2> QED BY <2>2, <2>5, <2>6, <2>7
<1>6. CASE UNCHANGED state
  BY <1>6
<1> QED
  BY <1>2, <1>3, <1>4, <1>5, <1>6
  DEF Continue, CheckLimit, FailOpen, SweepNext, TakeIdle, DecideIdle, Recheck, TakeLease, AfterUse

LEMMA KnownStays ==
    ASSUME TypeOK, Next PROVE \A s \in Session : Known(s) => Known(s)'
<1>1. ASSUME NEW p \in Process, FinishOpen(p)
      PROVE  \A s \in Session : Known(s) => Known(s)'
  <2>1. OwnerOf[p] # None
    BY <1>1, SessionsAssumption DEF FinishOpen, At, TypeOK, Coherent
  <2> QED BY <1>1, <2>1 DEF FinishOpen, Known, TypeOK
<1>2. ASSUME NEW p \in Process, Continue(p)
      PROVE  \A s \in Session : Known(s) => Known(s)'
  BY <1>1, <1>2, OwnersStay DEF Known
<1>3. ASSUME NEW s \in Session, Expire(s)
      PROVE  \A t \in Session : Known(t) => Known(t)'
  BY <1>3 DEF Expire, Known, TypeOK, SessionState
<1> QED
  BY <1>2, <1>3 DEF Next, BeginOpen, BeginClose, BeginUse, BeginSweep, EndSweep,
     BeginDispose, DisposeNext, EndDispose, Known

LEMMA ContinueLife ==
    ASSUME TypeOK, LifeInv, NEW p \in Process, Continue(p) PROVE LifeStep(p)
<1> DEFINE s == task[p].on
<1>0. /\ task[p] \in Task
      /\ task[p].at \notin {"idle", "sweep", "open", "shut"} => s \in Session
      /\ s \in Session => Known(s)
      /\ sessions \in SUBSET Session
      /\ task \in [Process -> Task]
  BY DEF TypeOK, Coherent, LifeInv, WorkIsKnown
<1>f. CASE FinishOpen(p)
  <2>1. OwnerOf[p] # None
    BY <1>f, SessionsAssumption DEF FinishOpen, At, TypeOK, Coherent
  <2>2. PICK t \in Session :
          /\ state[t] = Unopened
          /\ state' = [state EXCEPT ![t].owner = OwnerOf[p], ![t].conn = "open"]
          /\ sessions' = sessions \cup {t}
    BY <1>f DEF FinishOpen
  <2>3. ~Known(t) /\ Known(t)'
    BY <2>1, <2>2 DEF Known, Unopened, TypeOK
  <2>4. \A r \in Session \ {t} : Held(r)' => Held(r)
    BY <2>2 DEF Held, TypeOK
  <2>5. SameClosing(p)
    BY <1>0, <1>f DEF FinishOpen, Finish, Idle, At, SameClosing, Closing
  <2> QED BY <1>f, <2>2, <2>3, <2>4, <2>5 DEF FinishOpen, LifeStep, Opens
<1>1. CASE ~FinishOpen(p)
  <2>0. NothingOpened BY <1>1, OwnersStay
  <2> USE <1>0, <2>0 DEF LifeStep, At, Goto, Finish, Return, Task, Idle, Closing
  <2>1. CASE CheckLimit(p) \/ FailOpen(p)
    BY <2>1 DEF CheckLimit, FailOpen, Quiet, SameClosing
  <2>8. CASE SweepNext(p)
    BY <2>8 DEF SweepNext, Quiet, SameClosing
  <2>9. CASE TakeIdle(p) \/ TakeLease(p)
    BY <2>9 DEF TakeIdle, TakeLease, Quiet, SameClosing
  <2>10. CASE Rollback(p) \/ Get(p)
    BY <2>10 DEF Rollback, Get, Quiet, SameClosing
  <2>2. CASE DecideIdle(p)
    BY <2>2 DEF DecideIdle, Quiet, SameClosing, Unregisters
  <2>3. CASE DisposeSession(p)
    BY <2>3 DEF DisposeSession, Disconnect, TypeOK, Disposes, Held
  <2>4. CASE Recheck(p)
    BY <2>4 DEF Recheck, Quiet, SameClosing
  <2>5. CASE EndStream(p) \/ SettleStream(p) \/ EndCommand(p)
    <3>1. task[p].at \in {"run", "settle"} /\ UNCHANGED <<sessions, missing>>
      BY <2>5 DEF EndStream, SettleStream, EndCommand
    <3>2. Goto(p, "settle") \/ Goto(p, "after")
      BY <2>5 DEF EndStream, SettleStream, EndCommand
    <3> QED BY <3>1, <3>2 DEF Quiet, SameClosing
  <2>6. CASE AfterUse(p)
    BY <2>6 DEF AfterUse, Quiet, SameClosing, Unregisters
  <2>7. CASE Discard(p)
    BY <2>7 DEF Discard, Disconnect, TypeOK, Disposes, Held
  <2> QED
    BY <1>1, <2>1, <2>2, <2>3, <2>4, <2>5, <2>6, <2>7, <2>8, <2>9, <2>10 DEF Continue
<1> QED BY <1>f, <1>1

LEMMA ContinueWork ==
    ASSUME TypeOK, WorkIsKnown, NEW p \in Process, Continue(p)
    PROVE  \A s \in task'[p].rest \cup {task'[p].on} : s \in Session => Known(s)
<1>0. /\ task[p] \in Task /\ task \in [Process -> Task]
      /\ \A s \in task[p].rest \cup {task[p].on} : s \in Session => Known(s)
  BY DEF TypeOK, WorkIsKnown
<1>1. CASE Finish(p)
  BY <1>0, <1>1, SessionsAssumption DEF Finish, Idle
<1>2. ASSUME NEW label, Goto(p, label)
      PROVE  \A s \in task'[p].rest \cup {task'[p].on} : s \in Session => Known(s)
  BY <1>0, <1>2 DEF Goto, Task
<1>3. CASE SweepNext(p)
  BY <1>0, <1>3 DEF SweepNext, Task
<1> QED
  BY <1>1, <1>2, <1>3
  DEF Continue, CheckLimit, FinishOpen, FailOpen, TakeIdle, DecideIdle, Return, Rollback,
      DisposeSession, Recheck, TakeLease, Get, EndStream, SettleStream, EndCommand,
      AfterUse, Discard

LEMMA BeginWork ==
    ASSUME TypeOK, NEW p \in Process, NEW label, NEW op, NEW s \in Session \cup {None},
           NEW rest \in SUBSET Session, Begin(p, label, op, s, rest),
           \A t \in rest \cup {s} : t \in Session => Known(t)
    PROVE  \A t \in task'[p].rest \cup {task'[p].on} : t \in Session => Known(t)
BY DEF TypeOK, Begin

\* Beginning anything but CloseAsync changes nothing about the life of a session.
LEMMA BeginQuiet ==
    ASSUME TypeOK, NEW p \in Process, NEW label, NEW op, NEW s \in Session \cup {None},
           NEW rest \in SUBSET Session, Begin(p, label, op, s, rest),
           label \notin {"rollback", "dispose", "discard"},
           UNCHANGED <<sessions, state, missing>>
    PROVE  Quiet(p)
BY DEF TypeOK, Begin, At, Quiet, SameClosing, Closing, NothingOpened, Held

LEMMA LifeInductive ==
    ASSUME TypeOK, LifeInv, Next PROVE LifeInv'
<1>0. /\ \A s \in Session : Known(s) => Known(s)'
      /\ sessions' \in SUBSET Session /\ missing' \in SUBSET Session
  BY KnownStays, RegistryTyped
<1>1. ASSUME NEW p \in Process, TaskStep(p), LifeStep(p),
             \A s \in task'[p].rest \cup {task'[p].on} : s \in Session => Known(s)
      PROVE  LifeInv'
  <2>1. WorkIsKnown'
    BY <1>0, <1>1 DEF TaskStep, WorkIsKnown, LifeInv
  <2> QED BY <1>0, <1>1, <2>1, LifeStepKeeps
<1>2. /\ \A s \in sessions : s \in Session /\ Known(s)
      /\ sessions \in SUBSET Session
  BY DEF LifeInv, NamesAreKnown, TypeOK
<1>3. ASSUME NEW p \in Process, Continue(p) PROVE LifeInv'
  BY <1>1, <1>3, ContinueStep, ContinueLife, ContinueWork DEF LifeInv
<1>4. ASSUME NEW p \in Request, BeginOpen(p) PROVE LifeInv'
  <2> USE DEF BeginOpen, Process, LifeStep
  <2>1. TaskStep(p) BY <1>2, <1>4, BeginStep
  <2>2. Quiet(p) BY <1>2, <1>4, BeginQuiet
  <2>3. \A s \in task'[p].rest \cup {task'[p].on} : s \in Session => Known(s)
    BY <1>2, <1>4, BeginWork, SessionsAssumption
  <2> QED BY <1>1, <2>1, <2>2, <2>3
<1>5. ASSUME NEW p \in Request, NEW s \in Session, BeginClose(p, s) PROVE LifeInv'
  <2> USE DEF BeginClose, Process
  <2>1. TaskStep(p) BY <1>5, BeginStep
  <2>2. Unregisters(p)
    BY <1>5 DEF Unregisters, NothingOpened, Held, Closing, Begin, At, TypeOK
  <2>3. \A t \in task'[p].rest \cup {task'[p].on} : t \in Session => Known(t)
    BY <1>2, <1>5, BeginWork
  <2> QED BY <1>1, <2>1, <2>2, <2>3 DEF LifeStep
<1>6. ASSUME NEW p \in Request, NEW use \in Uses, NEW s \in Session, BeginUse(p, use, s)
      PROVE  LifeInv'
  <2>1. Known(s)
    BY <1>6, SessionsAssumption DEF BeginUse, Known
  <2>2. CASE s \in sessions
    <3>1. PICK label \in {"take", "lease"} : Begin(p, label, use, s, {})
      BY <1>6, <2>2 DEF BeginUse
    <3>2. UNCHANGED <<sessions, state, missing>> BY <1>6, <2>2 DEF BeginUse
    <3>3. TaskStep(p) BY <3>1, BeginStep DEF Process
    <3>4. Quiet(p) BY <3>1, <3>2, BeginQuiet DEF Process
    <3>5. \A t \in task'[p].rest \cup {task'[p].on} : t \in Session => Known(t)
      BY <2>1, <3>1, BeginWork DEF Process
    <3> QED BY <1>1, <3>3, <3>4, <3>5 DEF LifeStep, Process
  <2>3. CASE s \notin sessions
    BY <1>6, <2>1, <2>3
    DEF BeginUse, LifeInv, WorkIsKnown, NamesAreKnown, ClosingIsUnregistered,
        NoOrphanConnection, NoResurrection, Closing, Known
  <2> QED BY <2>2, <2>3
<1>7. CASE BeginSweep
  <2> USE DEF BeginSweep, Process, LifeStep
  <2>1. TaskStep(Sweeper) BY <1>2, <1>7, BeginStep
  <2>2. Quiet(Sweeper) BY <1>2, <1>7, BeginQuiet
  <2>3. \A s \in task'[Sweeper].rest \cup {task'[Sweeper].on} : s \in Session => Known(s)
    BY <1>2, <1>7, BeginWork, SessionsAssumption
  <2> QED BY <1>1, <2>1, <2>2, <2>3
<1>8. CASE BeginDispose
  <2> USE DEF BeginDispose, Process, LifeStep
  <2>1. TaskStep(Disposer) BY <1>2, <1>8, BeginStep
  <2>2. Quiet(Disposer) BY <1>2, <1>8, BeginQuiet
  <2>3. \A s \in task'[Disposer].rest \cup {task'[Disposer].on} : s \in Session => Known(s)
    BY <1>2, <1>8, BeginWork, SessionsAssumption
  <2> QED BY <1>1, <2>1, <2>2, <2>3
<1>9. ASSUME NEW p \in {Sweeper, Disposer}, Finish(p), task[p].at \in {"sweep", "shut"},
             UNCHANGED <<sessions, state, missing>>
      PROVE  LifeInv'
  <2>1. p \in Process BY DEF Process
  <2>2. TaskStep(p) BY <1>9, <2>1, FinishStep
  <2>3. Quiet(p)
    BY <1>9, <2>1 DEF Finish, Idle, TypeOK, Quiet, SameClosing, Closing, NothingOpened, Held
  <2>4. \A s \in task'[p].rest \cup {task'[p].on} : s \in Session => Known(s)
    BY <1>9, <2>1, SessionsAssumption DEF Finish, Idle, TypeOK
  <2> QED BY <1>1, <2>1, <2>2, <2>3, <2>4 DEF LifeStep
<1>10. CASE EndSweep BY <1>9, <1>10 DEF EndSweep, At
<1>11. CASE EndDispose BY <1>9, <1>11 DEF EndDispose, At
<1>12. CASE DisposeNext
  <2>0. Disposer \in Process /\ task[Disposer] \in Task BY DEF Process, TypeOK
  <2>1. TaskStep(Disposer) BY <1>12, DisposeNextStep
  <2>2. Quiet(Disposer) \/ Unregisters(Disposer)
    BY <1>12, <2>0 DEF DisposeNext, At, TypeOK, Task, Quiet, SameClosing, Unregisters,
       Closing, NothingOpened, Held
  <2>3. \A s \in task'[Disposer].rest \cup {task'[Disposer].on} : s \in Session => Known(s)
    BY <1>12, <2>0 DEF DisposeNext, LifeInv, WorkIsKnown, TypeOK, Task
  <2> QED BY <1>1, <2>0, <2>1, <2>2, <2>3 DEF LifeStep
<1>13. ASSUME NEW s \in Session, Expire(s) PROVE LifeInv'
  <2>1. \A t \in Session : state'[t].conn = state[t].conn
    BY <1>13 DEF Expire, TypeOK, SessionState
  <2> QED
    BY <1>0, <1>13, <2>1
    DEF Expire, LifeInv, WorkIsKnown, NamesAreKnown, ClosingIsUnregistered,
        NoOrphanConnection, NoResurrection, Closing, TypeOK
<1> QED
  BY <1>3, <1>4, <1>5, <1>6, <1>7, <1>8, <1>10, <1>11, <1>12, <1>13 DEF Next

LEMMA LifeCorrect == Spec => []LifeInv
<1>1. Init => LifeInv
  BY SessionsAssumption
  DEF Init, LifeInv, WorkIsKnown, NamesAreKnown, ClosingIsUnregistered,
      NoOrphanConnection, NoResurrection, Closing, Idle, Unopened
<1>2. TypeOK /\ LifeInv /\ [Next]_vars => LifeInv'
  <2>1. CASE UNCHANGED vars
    BY <2>1 DEF vars, LifeInv, WorkIsKnown, NamesAreKnown, ClosingIsUnregistered,
       NoOrphanConnection, NoResurrection, Closing, Known
  <2> QED BY <2>1, LifeInductive
<1> QED BY <1>1, <1>2, TypeCorrect, PTL DEF Spec

\* A connection that was opened stays registered until exactly one process has
\* taken it out of the dictionary to dispose it, whichever of CloseAsync, the
\* sweep, a request that finds it expired or broken, and DisposeAsync that is.
THEOREM NoConnectionIsOrphaned == Spec => []NoOrphanConnection
BY LifeCorrect, PTL DEF LifeInv

\* A session whose owner was told that there is none never comes back.
THEOREM NoSessionResurrects == Spec => []NoResurrection
BY LifeCorrect, PTL DEF LifeInv

-----------------------------------------------------------------------------
(* The session limit *)

Opening == {p \in Process : At(p, "open")}

\* A request that passed the check counts as the session it is about to open.
OpenInv == Cardinality(sessions) + Cardinality(Opening) < Limit + Cardinality(Request)

\* Only CheckLimit lets a process open, and only FinishOpen registers a session.
LEMMA OpenSteps ==
    ASSUME TypeOK, Next
    PROVE  \/ sessions' = sessions /\ Cardinality(sessions) < Limit
           \/ \E p \in Opening, s \in Session :
                sessions' = sessions \cup {s} /\ Opening' = Opening \ {p}
           \/ sessions' \subseteq sessions /\ Opening' \subseteq Opening
<1> USE DEF Opening, At
<1>0. task \in [Process -> Task] /\ sessions \in SUBSET Session /\ Cardinality(sessions) \in Nat
  <2>1. IsFiniteSet(sessions) BY FS_Subset, SessionsAssumption DEF TypeOK
  <2> QED BY <2>1, FS_CardinalityType DEF TypeOK
<1>a. ASSUME NEW p \in Process, Finish(p) PROVE Opening' = Opening \ {p}
  BY <1>0, <1>a DEF Finish, Idle, Task
<1>b. ASSUME NEW p \in Process, NEW label, Goto(p, label), label # "open"
      PROVE  Opening' \subseteq Opening
  BY <1>0, <1>b DEF Goto, Task
<1>c. ASSUME NEW p \in Process, NEW label, NEW op, NEW s, NEW rest, Begin(p, label, op, s, rest),
             label # "open"
      PROVE  Opening' \subseteq Opening
  BY <1>0, <1>c DEF Begin, Task
<1>1. ASSUME NEW p \in Process, FinishOpen(p)
      PROVE  \E q \in Opening, s \in Session :
                sessions' = sessions \cup {s} /\ Opening' = Opening \ {q}
  BY <1>1, <1>a DEF FinishOpen
<1>2. ASSUME NEW p \in Process, CheckLimit(p)
      PROVE  \/ sessions' = sessions /\ Cardinality(sessions) < Limit
             \/ sessions' \subseteq sessions /\ Opening' \subseteq Opening
  BY <1>0, <1>2, <1>a, SessionsAssumption DEF CheckLimit
<1>3. ASSUME NEW p \in Process, Continue(p), ~FinishOpen(p), ~CheckLimit(p)
      PROVE  sessions' \subseteq sessions /\ Opening' \subseteq Opening
  <2>1. CASE SweepNext(p) BY <1>0, <2>1 DEF SweepNext, Task
  <2> QED
    BY <1>3, <2>1, <1>a, <1>b
    DEF Continue, FailOpen, TakeIdle, DecideIdle, Return, Rollback, DisposeSession, Recheck,
        TakeLease, Get, EndStream, SettleStream, EndCommand, AfterUse, Discard
<1>4. ASSUME NEW p \in Request, BeginOpen(p) PROVE Opening' \subseteq Opening
  BY <1>4, <1>c DEF BeginOpen, Process
<1>5. ASSUME NEW p \in Request, NEW s \in Session, BeginClose(p, s)
      PROVE  Opening' \subseteq Opening
  BY <1>5, <1>c DEF BeginClose, Process
<1>6. ASSUME NEW p \in Request, NEW use \in Uses, NEW s \in Session, BeginUse(p, use, s)
      PROVE  Opening' \subseteq Opening
  <2>1. PICK label \in {"take", "lease"} : Begin(p, label, use, s, {}) \/ UNCHANGED task
    BY <1>6 DEF BeginUse
  <2> QED BY <2>1, <1>c DEF Process
<1>7. CASE BeginSweep BY <1>7, <1>c DEF BeginSweep, Process
<1>8. CASE BeginDispose BY <1>8, <1>c DEF BeginDispose, Process
<1>9. CASE DisposeNext
  <2>1. Disposer \in Process BY DEF Process
  <2>2. Opening' \subseteq Opening /\ sessions' \subseteq sessions
    BY <1>0, <1>9, <2>1 DEF DisposeNext, Task
  <2> QED BY <2>2
<1>10. CASE EndSweep \/ EndDispose BY <1>10, <1>a DEF EndSweep, EndDispose, Process
<1>11. ASSUME NEW s \in Session, Expire(s) PROVE Opening' \subseteq Opening
  BY <1>11 DEF Expire
<1> QED
  BY <1>1, <1>2, <1>3, <1>4, <1>5, <1>6, <1>7, <1>8, <1>9, <1>10, <1>11
  DEF Next, BeginOpen, BeginClose, BeginUse, BeginSweep, BeginDispose, EndSweep,
      EndDispose, Expire

\* MaxQuerySessions is overrun by less than the number of requests that open at
\* the same time, whatever that number is.
THEOREM OvershootIsBounded == Spec => []OvershootBound
<1> DEFINE Sizes == /\ IsFiniteSet(sessions) /\ Cardinality(sessions) \in Nat
                    /\ IsFiniteSet(Opening) /\ Cardinality(Opening) \in Nat
                    /\ Cardinality(Opening) <= Cardinality(Request)
                    /\ Cardinality(Request) \in Nat
<1>1. TypeOK => Sizes
  <2> SUFFICES ASSUME TypeOK PROVE Sizes
    OBVIOUS
  <2>1. IsFiniteSet(sessions) BY FS_Subset, SessionsAssumption DEF TypeOK
  <2>2. Opening \subseteq Request BY DEF Opening, At, TypeOK, Coherent
  <2>3. IsFiniteSet(Opening) /\ Cardinality(Opening) <= Cardinality(Request)
    BY <2>2, FS_Subset, SessionsAssumption
  <2> QED BY <2>1, <2>3, FS_CardinalityType, SessionsAssumption
<1>2. Init => OpenInv
  <2> SUFFICES ASSUME Init PROVE OpenInv
    OBVIOUS
  <2>1. sessions = {} /\ Opening = {} BY DEF Init, Opening, At, Idle
  <2> QED
    BY <2>1, FS_EmptySet, FS_CardinalityType, SessionsAssumption DEF OpenInv
<1>3. TypeOK /\ TypeOK' /\ OpenInv /\ [Next]_vars => OpenInv'
  <2> SUFFICES ASSUME TypeOK, TypeOK', OpenInv, [Next]_vars PROVE OpenInv'
    OBVIOUS
  <2>1. Sizes /\ Sizes' BY <1>1, PTL
  <2>2. CASE UNCHANGED vars BY <2>2 DEF vars, OpenInv, Opening, At
  <2>3. CASE sessions' = sessions /\ Cardinality(sessions) < Limit
    BY <2>1, <2>3, SessionsAssumption DEF OpenInv
  <2>4. ASSUME NEW p \in Opening, NEW s \in Session,
               sessions' = sessions \cup {s}, Opening' = Opening \ {p}
        PROVE  OpenInv'
    <3>1. Cardinality(sessions') <= Cardinality(sessions) + 1
      BY <2>1, <2>4, FS_AddElement
    <3>2. Cardinality(Opening') = Cardinality(Opening) - 1
      BY <2>1, <2>4, FS_RemoveElement
    <3> QED BY <2>1, <3>1, <3>2, SessionsAssumption DEF OpenInv
  <2>5. CASE sessions' \subseteq sessions /\ Opening' \subseteq Opening
    <3>1. /\ Cardinality(sessions') <= Cardinality(sessions)
          /\ Cardinality(Opening') <= Cardinality(Opening)
      BY <2>1, <2>5, FS_Subset
    <3> QED BY <2>1, <3>1, SessionsAssumption DEF OpenInv
  <2> QED BY <2>2, <2>3, <2>4, <2>5, OpenSteps
<1>4. TypeOK /\ OpenInv => OvershootBound
  BY <1>1, SessionsAssumption DEF OpenInv, OvershootBound
<1> QED BY <1>2, <1>3, <1>4, TypeCorrect, PTL DEF Spec

-----------------------------------------------------------------------------
(* Statements, and what is recorded of them *)

LEMMA WhoTakesASession ==
    ASSUME TypeOK, GateDiscipline, Next, NEW s \in Session, NEW p \in Process, Running(p, s),
           (s \in sessions /\ s \notin sessions') \/ (Live(s) /\ ~Live(s)')
    PROVE  \E q \in Process :
              /\ task'[q] # task[q]
              /\ q = p \/ q = Disposer \/ "close" \in {task[q].op, task'[q].op}
<1> USE DEF At
<1>0. /\ task \in [Process -> Task] /\ state \in [Session -> SessionState]
      /\ \A q \in Process : Coherent(q) /\ task[q] \in Task
  BY DEF TypeOK
<1>1. \A q \in Process : Inside(q, s) => q = p
  BY DEF GateDiscipline, Running, Inside
<1>2. \A q \in Process : Inside(q, s) => task[q].at \in {"run", "settle", "after"}
  BY <1>1 DEF Running
<1>3. ASSUME NEW q \in Process, Continue(q)
      PROVE  /\ task'[q] # task[q]
             /\ q = p \/ q = Disposer \/ "close" \in {task[q].op, task'[q].op}
  <2>1. CASE FinishOpen(q)
    BY <2>1 DEF FinishOpen, Live, TypeOK, Unopened
  <2>2. CASE CheckLimit(q) \/ FailOpen(q) \/ SweepNext(q) \/ TakeIdle(q) \/ Recheck(q) \/ TakeLease(q)
    BY <2>2 DEF CheckLimit, FailOpen, SweepNext, TakeIdle, Recheck, TakeLease, Live
  <2>3. CASE DecideIdle(q)
    <3>1. task[q].on = s BY <2>3 DEF DecideIdle, Live
    <3> QED BY <1>2, <2>3, <3>1 DEF DecideIdle, Inside
  <2>4. CASE Rollback(q)
    BY <2>4, <1>0 DEF Rollback, Live, SessionState
  <2>5. CASE DisposeSession(q)
    <3>1. task[q].on = s BY <1>0, <2>5 DEF DisposeSession, Disconnect, Live
    <3>2. task[q].op \notin Uses \cup Sweeps
      BY <1>2, <2>5, <3>1 DEF DisposeSession, Inside
    <3>3. task[q].op \in {"close", "shutdown"}
      BY <1>0, <2>5, <3>2 DEF DisposeSession, Coherent, Task
    <3>4. task'[q].at # "dispose"
      BY <1>0, <2>5 DEF DisposeSession, Goto, Finish, Idle, Task
    <3> QED BY <1>0, <2>5, <3>3, <3>4 DEF DisposeSession, Coherent
  <2>6. CASE Get(q) \/ SettleStream(q)
    <3>1. UNCHANGED sessions /\ (RefreshTransaction(task[q].on) \/ UNCHANGED state)
      BY <2>6 DEF Get, SettleStream
    <3>2. Live(s) <=> Live(s)'
      BY <1>0, <3>1 DEF RefreshTransaction, Live, SessionState
    <3> QED BY <3>1, <3>2
  <2>7. CASE EndStream(q) \/ EndCommand(q)
    <3>1. UNCHANGED sessions /\ task[q].at = "run" BY <2>7 DEF EndStream, EndCommand
    <3>2. task[q].on = s
      BY <1>0, <2>7, <3>1 DEF EndStream, EndCommand, Live
    <3>3. q = p BY <1>1, <3>1, <3>2 DEF Inside
    <3>4. Goto(q, "settle") \/ Goto(q, "after") BY <2>7 DEF EndStream, EndCommand
    <3> QED BY <1>0, <3>1, <3>3, <3>4 DEF Goto, Task
  <2>8. CASE AfterUse(q)
    <3>1. task[q].on = s /\ task[q].at = "after" /\ Goto(q, "discard")
      BY <2>8 DEF AfterUse, Live
    <3>2. q = p BY <1>1, <3>1 DEF Inside
    <3> QED BY <1>0, <3>1, <3>2 DEF Goto, Task
  <2>9. CASE Discard(q)
    <3>1. task[q].on = s BY <1>0, <2>9 DEF Discard, Disconnect, Live
    <3> QED BY <1>2, <2>9, <3>1 DEF Discard, Inside
  <2> QED
    BY <1>3, <2>1, <2>2, <2>3, <2>4, <2>5, <2>6, <2>7, <2>8, <2>9 DEF Continue
<1>4. ASSUME NEW q \in Request, NEW t \in Session, BeginClose(q, t)
      PROVE  q \in Process /\ task'[q] # task[q] /\ task'[q].op = "close"
  BY <1>0, <1>4 DEF BeginClose, Begin, Process, Task
<1>5. CASE DisposeNext
  <2>1. Disposer \in Process BY DEF Process
  <2>2. task'[Disposer].rest # task[Disposer].rest
    BY <1>0, <1>5, <2>1 DEF DisposeNext, Task
  <2> QED BY <2>1, <2>2
<1>6. ~\E t \in Session : Expire(t)
  <2> SUFFICES ASSUME NEW t \in Session, Expire(t) PROVE FALSE
    OBVIOUS
  <2> QED BY <1>0 DEF Expire, Live, SessionState
<1>7. ~(\E q \in Request : BeginOpen(q)) /\ ~BeginSweep /\ ~EndSweep /\ ~BeginDispose /\ ~EndDispose
  BY DEF BeginOpen, BeginSweep, EndSweep, BeginDispose, EndDispose, Live
<1>8. ~\E q \in Request, use \in Uses, t \in Session : BeginUse(q, use, t)
  BY DEF BeginUse, Live
<1> QED BY <1>3, <1>4, <1>5, <1>6, <1>7, <1>8 DEF Next

\* Running out of time takes neither the session nor the connection away from a
\* running statement: TryCloseIdleAsync cannot get the slot the statement holds.
THEOREM StatementsSurviveExpiry == Spec => StatementSurvivesExpiry
<1>1. ASSUME TypeOK, GateDiscipline, [Next]_vars
      PROVE  [\A s \in Session, p \in Process :
                Running(p, s) /\ ((s \in sessions /\ s \notin sessions') \/ (Live(s) /\ ~Live(s)')) =>
                    \E q \in Process :
                        /\ task'[q] # task[q]
                        /\ q = p \/ q = Disposer \/ "close" \in {task[q].op, task'[q].op}]_vars
  BY <1>1, WhoTakesASession
<1> QED BY <1>1, TypeCorrect, SlotsCorrect, PTL DEF Spec, StatementSurvivesExpiry

\* What is recorded of the session is right, as far as the code can know.
Current(s) == ~Live(s) \/ state[s].unread \/ state[s].recorded = state[s].txn
\* Some statement on it has ended and its finally block has yet to read.
Pending(s) == \E p \in Process : At(p, "settle") /\ task[p].on = s

\* The slot is given back only after the status was read again, so a registered
\* session whose recorded status is out of date has a process that is about to
\* read it; the theorem then needs the discipline of the slots.
StatusInv == \A s \in sessions : Current(s) \/ Pending(s)

\* A session that a step leaves as it is needs no new reading, unless the step
\* was the one that should have read.
LEMMA StatusStays ==
    ASSUME TypeOK, StatusInv, NEW p \in Process, TaskStep(p), NEW s \in sessions,
           state'[s] = state[s], ~(At(p, "settle") /\ task[p].on = s)
    PROVE  (Current(s) \/ Pending(s))'
<1>1. CASE Current(s)
  BY <1>1 DEF Current, Live
<1>2. CASE Pending(s)
  <2>1. PICK q \in Process : At(q, "settle") /\ task[q].on = s BY <1>2 DEF Pending
  <2>2. task'[q] = task[q] BY <2>1 DEF TaskStep
  <2> QED BY <2>1, <2>2 DEF Pending, At
<1> QED BY <1>1, <1>2 DEF StatusInv

LEMMA StatusStep ==
    ASSUME TypeOK, ClosingIsUnregistered, StatusInv, Next PROVE StatusInv'
<1>0. /\ task \in [Process -> Task] /\ state \in [Session -> SessionState]
      /\ sessions \in SUBSET Session
      /\ \A q \in Process :
            task[q].at \notin {"idle", "sweep", "open", "shut"} => task[q].on \in Session
  BY DEF TypeOK, Coherent
<1>1. ASSUME NEW p \in Process, Continue(p) PROVE StatusInv'
  <2> SUFFICES ASSUME NEW CONSTANT s, s = task[p].on PROVE StatusInv'
    OBVIOUS
  <2>0. TaskStep(p) BY <1>1, ContinueStep
  <2>1. CASE UNCHANGED state /\ sessions' \subseteq sessions /\ ~At(p, "settle")
    BY <2>0, <2>1, StatusStays DEF StatusInv
  <2>2. CASE FinishOpen(p)
    <3>1. PICK t \in Session :
            /\ state[t] = Unopened
            /\ state' = [state EXCEPT ![t].owner = OwnerOf[p], ![t].conn = "open"]
            /\ sessions' = sessions \cup {t}
      BY <2>2 DEF FinishOpen
    <3>2. Current(t)' BY <1>0, <3>1 DEF Current, Unopened
    <3>3. \A u \in sessions \ {t} : (Current(u) \/ Pending(u))'
      BY <1>0, <2>0, <2>2, <3>1, StatusStays DEF FinishOpen, At
    <3> QED BY <3>1, <3>2, <3>3 DEF StatusInv
  <2>3. CASE Rollback(p) \/ DisposeSession(p) \/ Discard(p)
    <3>1. s \in Session /\ s \notin sessions /\ UNCHANGED sessions /\ ~At(p, "settle")
      BY <1>0, <2>3 DEF Rollback, DisposeSession, Discard, At, ClosingIsUnregistered, Closing
    <3>2. \A t \in Session \ {s} : state'[t] = state[t]
      BY <1>0, <2>3, <3>1 DEF Rollback, DisposeSession, Discard, Disconnect
    <3> QED BY <1>0, <2>0, <3>1, <3>2, StatusStays DEF StatusInv
  <2>4. CASE Get(p) \/ SettleStream(p)
    <3>1. s \in Session /\ UNCHANGED sessions
      BY <1>0, <2>4 DEF Get, SettleStream, At
    <3>2. RefreshTransaction(s) \/ (UNCHANGED state /\ ~Live(s))
      BY <2>4 DEF Get, SettleStream
    <3>3. CASE state' = [state EXCEPT ![s].recorded = state[s].txn, ![s].unread = FALSE]
      <4>1. Current(s)' BY <1>0, <3>1, <3>3 DEF Current, SessionState
      <4>2. \A t \in sessions \ {s} : (Current(t) \/ Pending(t))'
        BY <1>0, <2>0, <3>3, StatusStays
      <4> QED BY <3>1, <4>1, <4>2 DEF StatusInv
    <3>4. CASE state' = [state EXCEPT ![s].recorded = FALSE, ![s].unread = TRUE]
      <4>1. Current(s)' BY <1>0, <3>1, <3>4 DEF Current, SessionState
      <4>2. \A t \in sessions \ {s} : (Current(t) \/ Pending(t))'
        BY <1>0, <2>0, <3>4, StatusStays
      <4> QED BY <3>1, <4>1, <4>2 DEF StatusInv
    <3>5. CASE UNCHANGED state /\ ~Live(s)
      <4>1. Current(s)' BY <3>5 DEF Current, Live
      <4>2. \A t \in sessions \ {s} : (Current(t) \/ Pending(t))'
        BY <2>0, <3>5, StatusStays
      <4> QED BY <3>1, <4>1, <4>2 DEF StatusInv
    <3> QED BY <3>2, <3>3, <3>4, <3>5 DEF RefreshTransaction
  <2>5. CASE EndStream(p)
    <3>1. s \in Session /\ UNCHANGED sessions /\ ~At(p, "settle")
      BY <1>0, <2>5 DEF EndStream, At
    <3>2. PICK x : state' = [state EXCEPT ![s] = x] BY <2>5 DEF EndStream
    <3>3. Pending(s)'
      BY <1>0, <2>5 DEF EndStream, Goto, Pending, At, Task
    <3>4. \A t \in sessions \ {s} : (Current(t) \/ Pending(t))'
      BY <1>0, <2>0, <3>1, <3>2, StatusStays
    <3> QED BY <3>1, <3>3, <3>4 DEF StatusInv
  <2>6. CASE EndCommand(p)
    <3>1. s \in Session /\ state[s] \in SessionState /\ UNCHANGED sessions /\ ~At(p, "settle")
      BY <1>0, <2>6 DEF EndCommand, At
    <3>2. PICK x \in StatementEffects(state[s]) :
            \/ state' = [state EXCEPT ![s] = [x EXCEPT !.expired = FALSE, !.unread = TRUE]]
            \/ state' = [state EXCEPT ![s] =
                            [x EXCEPT !.expired = FALSE, !.unread = FALSE, !.recorded = x.txn]]
      BY <2>6 DEF EndCommand
    <3>3. x \in SessionState BY <3>1, <3>2, EffectsTyped
    <3>4. Current(s)'
      <4>1. CASE state' = [state EXCEPT ![s] = [x EXCEPT !.expired = FALSE, !.unread = TRUE]]
        BY <1>0, <3>1, <3>3, <4>1 DEF Current, SessionState
      <4>2. CASE state' = [state EXCEPT ![s] =
                            [x EXCEPT !.expired = FALSE, !.unread = FALSE, !.recorded = x.txn]]
        BY <1>0, <3>1, <3>3, <4>2 DEF Current, SessionState
      <4> QED BY <3>2, <4>1, <4>2
    <3>5. \A t \in sessions \ {s} : (Current(t) \/ Pending(t))'
      BY <1>0, <2>0, <3>1, <3>2, StatusStays
    <3> QED BY <3>1, <3>4, <3>5 DEF StatusInv
  <2> QED
    BY <1>1, <2>1, <2>2, <2>3, <2>4, <2>5, <2>6
    DEF Continue, CheckLimit, FailOpen, SweepNext, TakeIdle, DecideIdle, Recheck, TakeLease,
        AfterUse, At
<1>2. ASSUME NEW s \in Session, Expire(s) PROVE StatusInv'
  <2>1. UNCHANGED <<task, sessions>> BY <1>2 DEF Expire
  <2>2. \A t \in sessions : Current(t) => Current(t)'
    BY <1>0, <1>2 DEF Expire, Current, Live, SessionState
  <2> QED BY <2>1, <2>2 DEF StatusInv, Pending, At
<1>3. ASSUME NEW p \in Process, ~At(p, "settle"), TaskStep(p),
             UNCHANGED state, sessions' \subseteq sessions
      PROVE  StatusInv'
  BY <1>3, StatusStays DEF StatusInv
<1>4. ASSUME NEW p \in Request, BeginOpen(p) PROVE StatusInv'
  BY <1>3, <1>4, BeginStep DEF BeginOpen, Begin, At, TypeOK, Process
<1>5. ASSUME NEW p \in Request, NEW s \in Session, BeginClose(p, s) PROVE StatusInv'
  <2>1. p \in Process /\ TaskStep(p) BY <1>5, BeginStep DEF BeginClose, Process
  <2> QED BY <1>3, <1>5, <2>1 DEF BeginClose, Begin, At
<1>6. ASSUME NEW p \in Request, NEW use \in Uses, NEW s \in Session, BeginUse(p, use, s)
      PROVE  StatusInv'
  <2>1. UNCHANGED <<state, sessions>> BY <1>6 DEF BeginUse
  <2>2. CASE UNCHANGED task BY <2>1, <2>2 DEF StatusInv, Current, Pending, Live, At
  <2>3. CASE s \in sessions
    <3>1. p \in Process /\ TaskStep(p)
      BY <1>6, <2>3, BeginStep DEF BeginUse, Process
    <3> QED BY <1>3, <1>6, <2>1, <2>3, <3>1 DEF BeginUse, Begin, At
  <2> QED BY <1>6, <2>2, <2>3 DEF BeginUse
<1>7. CASE BeginSweep \/ EndSweep
  BY <1>3, <1>7, BeginStep, FinishStep DEF BeginSweep, EndSweep, Begin, At, TypeOK, Process
<1>8. CASE BeginDispose \/ DisposeNext \/ EndDispose
  BY <1>3, <1>8, BeginStep, DisposeNextStep, FinishStep
  DEF BeginDispose, DisposeNext, EndDispose, Begin, At, TypeOK, Process
<1> QED BY <1>1, <1>2, <1>4, <1>5, <1>6, <1>7, <1>8 DEF Next

\* The transaction status shown for a session nobody is using is the engine's,
\* whatever its statements did to the transaction: it fails if StreamAsync gives
\* the slot back without reading the status again.  Only a status that could not
\* be read, or a transaction command that failed, is excepted.
THEOREM RecordedStatusIsReal == Spec => []RecordedIsReal
<1>1. Init => StatusInv
  BY DEF Init, StatusInv
<1>2. TypeOK /\ LifeInv /\ StatusInv /\ [Next]_vars => StatusInv'
  <2>1. UNCHANGED vars /\ StatusInv => StatusInv'
    BY DEF vars, StatusInv, Current, Pending, Live, At
  <2> QED BY <2>1, StatusStep DEF LifeInv
<1>3. TypeOK /\ GateDiscipline /\ StatusInv => RecordedIsReal
  <2> SUFFICES ASSUME TypeOK, GateDiscipline, StatusInv, NEW s \in sessions, GateFree(s), Live(s),
                      ~state[s].unread
               PROVE  state[s].recorded = state[s].txn
    BY DEF RecordedIsReal
  <2>1. \A p \in Process : ~Inside(p, s)
    BY SessionsAssumption DEF GateDiscipline, GateFree, TypeOK
  <2>2. ~Pending(s) BY <2>1 DEF Pending, Inside, At
  <2> QED BY <2>2 DEF StatusInv, Current
<1> QED BY <1>1, <1>2, <1>3, TypeCorrect, LifeCorrect, SlotsCorrect, PTL DEF Spec
=============================================================================
