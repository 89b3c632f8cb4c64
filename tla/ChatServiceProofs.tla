-------------------------- MODULE ChatServiceProofs --------------------------
(***************************************************************************)
(* Proofs about ChatService, for any set of messages: the inductive        *)
(* invariant IInv, the safety properties it implies, and the step          *)
(* simulation of MessageLifecycle.                                         *)
(***************************************************************************)
EXTENDS ChatService, TLAPS

-----------------------------------------------------------------------------
(* The inductive invariant, part by part.                                  *)

\* The event _active is set exactly from the claim to the finally clause.
WorkerInv ==
  /\ active <=> wpc \in OnMessage
  /\ wpc \in {"got"} \cup OnMessage => wtask \in Messages

\* A message has a ticket once it was accepted, and no two share one.
TicketInv ==
  /\ \A m \in Messages : ticket[m] <= clock
  /\ \A m, n \in Messages : ticket[m] = ticket[n] /\ ticket[m] # 0 => m = n
  /\ \A m \in queuedTasks \cup withdrawn \cup ran : ticket[m] # 0
  /\ wpc \in {"got"} \cup OnMessage => ticket[wtask] # 0

\* The FIFO is in ticket order, behind the message the worker took last.
FifoInv ==
  /\ \A i \in DOMAIN queue : queue[i] \in Messages => ticket[queue[i]] # 0
  /\ \A i, j \in DOMAIN queue :
       i < j /\ queue[i] \in Messages /\ queue[j] \in Messages
         => ticket[queue[i]] < ticket[queue[j]]
  /\ wpc \in {"got", "claimed", "marked"} =>
       \A i \in DOMAIN queue : queue[i] \in Messages => ticket[wtask] < ticket[queue[i]]

\* A message is waiting, withdrawn or handed to Codex, never two of these.
FateInv ==
  /\ \A i \in DOMAIN queue : queue[i] \notin ran
  /\ NeverRunAgain
  /\ WithdrawnNeverRuns
  /\ withdrawn \cap queuedTasks = {}
  /\ wpc \in OnMessage => wtask \notin queuedTasks \cup withdrawn

\* What each handler that keeps the lock has checked stays true under it.
LockInv ==
  /\ ReleasedIsQuiet
  /\ QuietUnderLock
  /\ lock = "reconnect" => released
  /\ lock \in {"cancel", "resync", "settings"} => ~released
  /\ wpc = "new" => ~released

IInv ==
  /\ TypeOK /\ WorkerInv /\ TicketInv /\ FifoInv
  /\ FateInv /\ WaitingIsReachable /\ LockInv
-----------------------------------------------------------------------------
(* What appending to and taking from a FIFO does to its elements.          *)

LEMMA AppendElements ==
  ASSUME NEW T, NEW q \in Seq(T), NEW e \in T
  PROVE  /\ Append(q, e) \in Seq(T)
         /\ DOMAIN Append(q, e) = DOMAIN q \cup {Len(q) + 1}
         /\ \A i \in DOMAIN q : Append(q, e)[i] = q[i] /\ i < Len(q) + 1
         /\ Append(q, e)[Len(q) + 1] = e
  OBVIOUS

LEMMA TailElements ==
  ASSUME NEW T, NEW q \in Seq(T), q # <<>>
  PROVE  /\ Tail(q) \in Seq(T)
         /\ Head(q) = q[1] /\ q[1] \in T /\ 1 \in DOMAIN q
         /\ \A i \in DOMAIN Tail(q) :
              /\ Tail(q)[i] = q[i + 1] /\ i + 1 \in DOMAIN q
              /\ i \in Nat /\ 1 < i + 1
         /\ \A j \in DOMAIN q : j # 1 => j - 1 \in DOMAIN Tail(q) /\ Tail(q)[j - 1] = q[j]
  OBVIOUS

-----------------------------------------------------------------------------
(* Each step of the service preserves the invariant: one case per action.  *)
(* Only Submit, ClosePuts and WorkerGet touch the FIFO.                    *)
LEMMA StepKeepsIInv == IInv /\ [Next]_vars => IInv'
<1> SUFFICES ASSUME IInv, [Next]_vars PROVE IInv'
  OBVIOUS
<1> USE StopTaskAssumption
        DEF IInv, TypeOK, WorkerInv, TicketInv, FifoInv, FateInv, WaitingIsReachable, LockInv,
            ReleasedIsQuiet, QuietUnderLock, NeverRunAgain, WithdrawnNeverRuns, vars, session,
            worker, codex, history, Locks, Rows, WorkerPlaces, OnMessage, SetRow, UpdateRow,
            TakeLock, Idle, Pop
<1>1. ASSUME NEW m \in Messages, Submit(m) PROVE IInv'
  <2>1. TypeOK'
    BY <1>1, AppendElements DEF Submit
  <2>2. WorkerInv' /\ TicketInv' /\ LockInv'
    BY <1>1 DEF Submit
  <2>q. /\ DOMAIN queue' = DOMAIN queue \cup {Len(queue) + 1}
        /\ \A i \in DOMAIN queue : queue'[i] = queue[i] /\ i < Len(queue) + 1
        /\ queue'[Len(queue) + 1] = m
        /\ Len(queue) + 1 \in Nat
    BY <1>1, AppendElements DEF Submit
  <2>3. FifoInv'
    BY <1>1, <2>q DEF Submit
  <2>4. FateInv'
    BY <1>1, <2>q DEF Submit
  <2>5. WaitingIsReachable'
    BY <1>1, <2>q DEF Submit
  <2> QED BY <2>1, <2>2, <2>3, <2>4, <2>5
<1>2. ASSUME NEW m \in Messages, CancelQueued(m) PROVE IInv'
  BY <1>2 DEF CancelQueued
<1>3. CASE ClearQueued
  BY <1>3 DEF ClearQueued
<1>4. ASSUME NEW S \in removing, RemoveRows(S) PROVE IInv'
  BY <1>4 DEF RemoveRows
<1>5. CASE CancelBegin
  BY <1>5 DEF CancelBegin
<1>6. CASE CancelEnd
  BY <1>6 DEF CancelEnd
<1>7. CASE ResyncBegin
  BY <1>7 DEF ResyncBegin
<1>8. ASSUME NEW S \in SUBSET ran, ResyncEnd(S) PROVE IInv'
  <2>1. TypeOK'
    BY <1>8 DEF ResyncEnd
  <2>2. WorkerInv' /\ TicketInv' /\ FifoInv' /\ FateInv' /\ WaitingIsReachable'
    BY <1>8 DEF ResyncEnd
  <2>3. LockInv'
    BY <1>8 DEF ResyncEnd
  <2> QED BY <2>1, <2>2, <2>3
<1>9. CASE SettingsBegin
  BY <1>9 DEF SettingsBegin
<1>10. CASE SettingsEnd
  <2>1. TypeOK'
    BY <1>10 DEF SettingsEnd
  <2>2. WorkerInv' /\ TicketInv' /\ FifoInv' /\ FateInv' /\ WaitingIsReachable'
    BY <1>10 DEF SettingsEnd
  <2>3. LockInv'
    BY <1>10 DEF SettingsEnd
  <2> QED BY <2>1, <2>2, <2>3
<1>11. CASE wpc # "new" /\ Release
  BY <1>11 DEF Release
<1>12. CASE ReconnectBegin
  BY <1>12 DEF ReconnectBegin
<1>13. ASSUME NEW S \in SUBSET ran, ReconnectOk(S) PROVE IInv'
  BY <1>13 DEF ReconnectOk
<1>14. CASE ReconnectFail
  BY <1>14 DEF ReconnectFail
<1>15. CASE CloseBegin
  BY <1>15 DEF CloseBegin
<1>16. CASE ClosePuts
  <2>1. TypeOK'
    BY <1>16, AppendElements DEF ClosePuts
  <2>2. WorkerInv' /\ TicketInv' /\ LockInv'
    BY <1>16 DEF ClosePuts
  <2>q. /\ DOMAIN queue' = DOMAIN queue \cup {Len(queue) + 1}
        /\ \A i \in DOMAIN queue : queue'[i] = queue[i] /\ i < Len(queue) + 1
        /\ queue'[Len(queue) + 1] = StopTask
        /\ Len(queue) + 1 \in Nat
    BY <1>16, AppendElements DEF ClosePuts
  <2>3. FifoInv'
    BY <1>16, <2>q DEF ClosePuts
  <2>4. FateInv'
    BY <1>16, <2>q DEF ClosePuts
  <2>5. WaitingIsReachable'
    BY <1>16, <2>q DEF ClosePuts
  <2> QED BY <2>1, <2>2, <2>3, <2>4, <2>5
<1>17. CASE CloseEnds
  <2>1. TypeOK'
    BY <1>17 DEF CloseEnds
  <2>2. WorkerInv' /\ TicketInv' /\ FifoInv' /\ FateInv' /\ WaitingIsReachable'
    BY <1>17 DEF CloseEnds
  <2>3. LockInv'
    BY <1>17 DEF CloseEnds
  <2> QED BY <2>1, <2>2, <2>3
<1>18. CASE WorkerSeesIdle
  BY <1>18 DEF WorkerSeesIdle
<1>19. CASE WorkerStops
  BY <1>19 DEF WorkerStops
<1>20. CASE WorkerGetTimeout
  BY <1>20 DEF WorkerGetTimeout
<1>21. CASE WorkerGet
  <2>q. /\ queue' \in Seq(Messages \cup {StopTask})
        /\ wtask' = queue[1] /\ wtask' \in Messages \cup {StopTask} /\ 1 \in DOMAIN queue
        /\ \A i \in DOMAIN queue' :
              /\ queue'[i] = queue[i + 1] /\ i + 1 \in DOMAIN queue
              /\ i \in Nat /\ 1 < i + 1
        /\ \A j \in DOMAIN queue : j # 1 => j - 1 \in DOMAIN queue' /\ queue'[j - 1] = queue[j]
    BY <1>21, TailElements DEF WorkerGet
  <2>w. wpc = "get" /\ ~active
    BY <1>21 DEF WorkerGet
  <2>x. \/ wpc' = "exited" /\ wtask' = StopTask
        \/ wpc' = "got" /\ wtask' \in Messages
    BY <1>21, <2>q, TailElements DEF WorkerGet
  <2>1. TypeOK'
    BY <1>21, <2>q, <2>x DEF WorkerGet
  <2>2. WorkerInv' /\ LockInv'
    BY <1>21, <2>w, <2>x DEF WorkerGet
  <2>t. TicketInv'
    BY <1>21, <2>q, <2>x DEF WorkerGet
  <2>3. FifoInv'
    <3>1. \A i \in DOMAIN queue' : queue'[i] \in Messages => ticket'[queue'[i]] # 0
      BY <1>21, <2>q DEF WorkerGet
    <3>2. \A i, j \in DOMAIN queue' :
            i < j /\ queue'[i] \in Messages /\ queue'[j] \in Messages
              => ticket'[queue'[i]] < ticket'[queue'[j]]
      BY <1>21, <2>q DEF WorkerGet
    <3>3. wpc' \in {"got", "claimed", "marked"} =>
            \A i \in DOMAIN queue' : queue'[i] \in Messages => ticket'[wtask'] < ticket'[queue'[i]]
      BY <1>21, <2>q, <2>x DEF WorkerGet
    <3> QED BY <3>1, <3>2, <3>3
  <2>4. FateInv'
    BY <1>21, <2>q, <2>x DEF WorkerGet
  <2>5. WaitingIsReachable'
    <3>1. SUFFICES ASSUME NEW m \in queuedTasks
                   PROVE  (wpc' = "got" /\ wtask' = m) \/ \E i \in DOMAIN queue' : queue'[i] = m
      BY <1>21 DEF WorkerGet
    <3>2. PICK j \in DOMAIN queue : queue[j] = m
      BY <2>w
    <3>3. CASE j = 1
      BY <2>q, <2>x, <3>2, <3>3
    <3>4. CASE j # 1
      BY <2>q, <3>2, <3>4
    <3> QED BY <3>3, <3>4
  <2> QED BY <2>1, <2>2, <2>3, <2>4, <2>5, <2>t
<1>22. CASE WorkerClaim
  BY <1>22 DEF WorkerClaim
<1>23. CASE WorkerSkip
  BY <1>23 DEF WorkerSkip
<1>24. CASE WorkerMark
  BY <1>24 DEF WorkerMark
<1>25. CASE WorkerRun
  BY <1>25 DEF WorkerRun
<1>26. CASE WorkerCompletes
  BY <1>26 DEF WorkerCompletes
<1>27. CASE WorkerFails
  BY <1>27 DEF WorkerFails
<1>28. CASE WorkerFinally
  BY <1>28 DEF WorkerFinally
<1>29. CASE BusyChanges
  BY <1>29 DEF BusyChanges
<1>30. ASSUME NEW m \in Messages, ItemArrives(m) PROVE IInv'
  BY <1>30 DEF ItemArrives
<1>31. CASE WorkerReconnects
  BY <1>31 DEF WorkerReconnects
<1>32. CASE UNCHANGED vars
  BY <1>32
<1>33. CASE StartConnects
  BY <1>33 DEF StartConnects
<1>34. CASE StartOk
  BY <1>34 DEF StartOk
<1>35. CASE StartFails
  BY <1>35 DEF StartFails
<1> QED
  BY <1>1, <1>2, <1>3, <1>4, <1>5, <1>6, <1>7, <1>8, <1>9, <1>10, <1>11, <1>12, <1>13, <1>14, <1>15, <1>16,
     <1>17, <1>18, <1>19, <1>20, <1>21, <1>22, <1>23, <1>24, <1>25, <1>26, <1>27, <1>28, <1>29, <1>30, <1>31, <1>32, <1>33, <1>34, <1>35
  DEF Next, Start, Handler, Close, Worker, Codex

LEMMA InitHasIInv == Init => IInv
<1> SUFFICES ASSUME Init PROVE IInv
  OBVIOUS
<1> USE StopTaskAssumption DEF Init
<1>1. queue \in Seq(Messages \cup {StopTask}) /\ DOMAIN queue = {}
  OBVIOUS
<1>2. TypeOK
  BY <1>1 DEF TypeOK, Locks, Rows, WorkerPlaces
<1>3. WorkerInv /\ TicketInv
  BY DEF WorkerInv, TicketInv, OnMessage
<1>4. FifoInv /\ FateInv /\ WaitingIsReachable
  BY <1>1 DEF FifoInv, FateInv, WaitingIsReachable, NeverRunAgain, WithdrawnNeverRuns, OnMessage
<1>5. LockInv
  BY DEF LockInv, ReleasedIsQuiet, QuietUnderLock
<1> QED BY <1>2, <1>3, <1>4, <1>5 DEF IInv

\* The inductive invariant holds throughout.  It is needed because none of the
\* properties below is inductive alone: that a withdrawn message never runs
\* rests on the FIFO being in ticket order without repetition and on the claim
\* being made under the lock that the withdrawal takes too.
THEOREM Invariance == Spec => []IInv
BY InitHasIInv, StepKeepsIInv, PTL DEF Spec

\* The variables of LanChatService keep their types.
THEOREM TypeCorrectness == Spec => []TypeOK
BY Invariance, PTL DEF IInv

\* A message whose cancellation was confirmed (cancel_queued, clear_queued) is
\* never handed to Codex by _work_loop.
THEOREM CancelledNeverRuns == Spec => []WithdrawnNeverRuns
BY Invariance, PTL DEF IInv, FateInv

\* Every waiting message is in the FIFO or in the worker's hands, for any
\* interleaving of submissions, withdrawals and claims.
THEOREM WaitingReachable == Spec => []WaitingIsReachable
BY Invariance, PTL DEF IInv

\* release_session: while the session is released nothing waits, nothing runs,
\* no connection is held and the pages show it.
THEOREM ReleaseSafety == Spec => []ReleasedIsQuiet
BY Invariance, PTL DEF IInv, LockInv

\* resync and update_model_settings: no turn of this service begins while they
\* keep the lock over their RPC.
THEOREM LockSafety == Spec => []QuietUnderLock
BY Invariance, PTL DEF IInv, LockInv

-----------------------------------------------------------------------------
(* The rows of the projection.  A row is written before or after the table *)
(* and the event it shows, by another step; what lies between is counted.  *)

LEMMA StepKeepsRows == IInv /\ RowsAreTrue /\ [Next]_vars => RowsAreTrue'
<1> SUFFICES ASSUME IInv, RowsAreTrue, [Next]_vars PROVE RowsAreTrue'
  OBVIOUS
<1>t. TypeOK /\ WorkerInv
  BY DEF IInv
<1>n. ASSUME NEW S, pending' = SetRow(S, "none"),
             UNCHANGED <<queuedTasks, removing, active, wtask>>,
             wpc' = wpc \/ (wpc' = "finally" /\ wpc = "running" /\ wtask \in S)
      PROVE  RowsAreTrue'
  BY <1>t, <1>n DEF RowsAreTrue, SetRow, TypeOK
<1> USE DEF session, worker, codex, history
<1>1. ASSUME NEW m \in Messages, Submit(m) PROVE RowsAreTrue'
  BY <1>t, <1>1 DEF Submit, RowsAreTrue, SetRow, TypeOK
<1>2. ASSUME NEW S, Pop(S) PROVE RowsAreTrue'
  BY <1>2 DEF Pop, RowsAreTrue
<1>3. ASSUME NEW S \in removing, RemoveRows(S) PROVE RowsAreTrue'
  BY <1>t, <1>3 DEF RemoveRows, RowsAreTrue, SetRow, TypeOK
<1>4. CASE \/ CancelBegin \/ CancelEnd \/ ResyncBegin \/ SettingsBegin \/ SettingsEnd \/ Release
           \/ ReconnectBegin \/ ReconnectFail \/ CloseBegin \/ ClosePuts \/ CloseEnds
           \/ WorkerReconnects \/ BusyChanges \/ StartConnects \/ StartFails
  <2>1. UNCHANGED <<pending, queuedTasks, removing, active, wpc, wtask>>
    BY <1>4 DEF StartConnects, StartFails, CancelBegin, CancelEnd, ResyncBegin, SettingsBegin, SettingsEnd, Release, ReconnectBegin,
                ReconnectFail, CloseBegin, ClosePuts, CloseEnds, WorkerReconnects, BusyChanges, TakeLock
  <2> QED BY <2>1 DEF RowsAreTrue
<1>5. ASSUME NEW S, ResyncEnd(S) \/ ReconnectOk(S) PROVE RowsAreTrue'
  BY <1>5, <1>n DEF ResyncEnd, ReconnectOk
<1>6. CASE \/ WorkerSeesIdle \/ WorkerStops \/ WorkerGetTimeout \/ WorkerGet
           \/ WorkerSkip \/ WorkerFinally \/ StartOk
  <2>1. /\ UNCHANGED <<pending, queuedTasks, removing>>
        /\ wpc \notin {"claimed", "marked", "running"}
    BY <1>6 DEF WorkerSeesIdle, WorkerStops, WorkerGetTimeout, WorkerGet, WorkerSkip, WorkerFinally, StartOk
  <2> QED BY <2>1 DEF RowsAreTrue
<1>7. CASE WorkerClaim
  BY <1>7 DEF WorkerClaim, RowsAreTrue
<1>8. CASE WorkerMark
  BY <1>t, <1>8 DEF WorkerMark, RowsAreTrue, UpdateRow, SetRow, TypeOK, WorkerInv, OnMessage
<1>9. CASE WorkerRun
  BY <1>9 DEF WorkerRun, RowsAreTrue
<1>10. CASE WorkerCompletes
  BY <1>10, <1>n DEF WorkerCompletes
<1>11. CASE WorkerFails
  BY <1>t, <1>11 DEF WorkerFails, RowsAreTrue, UpdateRow, SetRow, TypeOK
<1>12. ASSUME NEW m \in Messages, ItemArrives(m) PROVE RowsAreTrue'
  BY <1>12, <1>n DEF ItemArrives
<1>13. CASE UNCHANGED vars
  BY <1>13 DEF vars, RowsAreTrue
<1> QED
  BY <1>1, <1>2, <1>3, <1>4, <1>5, <1>6, <1>7, <1>8, <1>9, <1>10, <1>11, <1>12, <1>13
  DEF Next, Start, Handler, Close, Worker, Codex, CancelQueued, ClearQueued

\* A row shown as queued is of a message that can still be cancelled or whose
\* row is about to change; only the worker's own message is shown as processing.
THEOREM RowsTrue == Spec => []RowsAreTrue
<1>1. Init => RowsAreTrue
  BY DEF Init, RowsAreTrue
<1> QED BY <1>1, Invariance, StepKeepsRows, PTL DEF Spec

-----------------------------------------------------------------------------
(* The simulation.  Steps that leave the table of waiting messages, the    *)
(* active event and the released flag alone are stutters of the promise.   *)

LEMMA Stutters ==
  ASSUME UNCHANGED <<queuedTasks, ticket, clock, withdrawn, active, released>>,
         active => wtask' = wtask
  PROVE  UNCHANGED Lifecycle!vars
<1>1. ASSUME NEW m \in Messages PROVE StatusOf(m)' = StatusOf(m)
  BY DEF StatusOf
<1> QED BY <1>1 DEF Lifecycle!vars

\* Submit, the withdrawals, the claim, the finally clause, Release and a
\* successful reconnect are the steps of MessageLifecycle; all others stutter.
LEMMA StepRefines == IInv /\ [Next]_vars => [Lifecycle!Next]_(Lifecycle!vars)
<1> SUFFICES ASSUME IInv, [Next]_vars PROVE Lifecycle!Next \/ UNCHANGED Lifecycle!vars
  OBVIOUS
<1> DEFINE st == [m \in Messages |-> StatusOf(m)]
<1> USE DEF IInv, TypeOK
<1>w. ASSUME NEW m \in Messages PROVE st[m] = "waiting" <=> m \in queuedTasks
  BY DEF StatusOf, TicketInv
<1>r. ASSUME NEW m \in Messages PROVE st[m] = "running" <=> active /\ wtask = m
  BY DEF StatusOf, TicketInv, WorkerInv, FateInv, OnMessage
<1>1. ASSUME NEW m \in Messages, Submit(m) PROVE Lifecycle!Next
  <2>1. st[m] = "new"
    BY <1>1 DEF Submit, StatusOf
  <2>2. \A n \in Messages : StatusOf(n)' = IF n = m THEN "waiting" ELSE StatusOf(n)
    BY <1>1 DEF Submit, StatusOf, worker, TicketInv
  <2>3. Lifecycle!Submit(m)
    BY <1>1, <2>1, <2>2 DEF Submit, Lifecycle!Submit, session
  <2> QED BY <2>3 DEF Lifecycle!Next
<1>2. ASSUME NEW S \in SUBSET Messages, Pop(S) PROVE Lifecycle!Next
  <2>1. S \subseteq Lifecycle!With("waiting")
    BY <1>2, <1>w DEF Pop, Lifecycle!With
  <2>2. \A n \in Messages : StatusOf(n)' = IF n \in S THEN "withdrawn" ELSE StatusOf(n)
    BY <1>2 DEF Pop, StatusOf, worker, TicketInv, FateInv
  <2>3. Lifecycle!Withdraw(S)
    BY <1>2, <2>1, <2>2 DEF Pop, Lifecycle!Withdraw, session
  <2> QED BY <2>3 DEF Lifecycle!Next
<1>3. CASE WorkerClaim
  <2>m. wtask \in Messages /\ wtask \in queuedTasks /\ ~active
    BY <1>3 DEF WorkerClaim, WorkerInv, OnMessage
  <2>1. st[wtask] = "waiting"
    BY <2>m, <1>w
  <2>2. Lifecycle!With("running") = {}
    BY <2>m, <1>r DEF Lifecycle!With
  <2>3. ASSUME NEW n \in Lifecycle!With("waiting") PROVE ticket[wtask] <= ticket[n]
    <3>1. n \in Messages /\ n \in queuedTasks
      BY <1>w DEF Lifecycle!With
    <3>2. n = wtask \/ \E i \in DOMAIN queue : queue[i] = n
      BY <1>3, <3>1 DEF WorkerClaim, WaitingIsReachable
    <3> QED BY <1>3, <2>m, <3>1, <3>2 DEF WorkerClaim, FifoInv
  <2>4. \A n \in Messages : StatusOf(n)' = IF n = wtask THEN "running" ELSE StatusOf(n)
    BY <1>3, <2>m DEF WorkerClaim, StatusOf, history, TicketInv, FateInv
  <2>5. Lifecycle!Begin(wtask)
    BY <1>3, <2>1, <2>2, <2>3, <2>4 DEF WorkerClaim, Lifecycle!Begin, history, session
  <2> QED BY <2>m, <2>5 DEF Lifecycle!Next
<1>4. CASE WorkerFinally
  <2>m. wtask \in Messages /\ active /\ wtask \notin queuedTasks \cup withdrawn
    BY <1>4 DEF WorkerFinally, WorkerInv, FateInv, OnMessage
  <2>1. st[wtask] = "running"
    BY <2>m, <1>r
  <2>2. \A n \in Messages : StatusOf(n)' = IF n = wtask THEN "ended" ELSE StatusOf(n)
    BY <1>4, <2>m DEF WorkerFinally, StatusOf, history, TicketInv, WorkerInv, OnMessage
  <2>3. Lifecycle!End(wtask)
    BY <1>4, <2>1, <2>2 DEF WorkerFinally, Lifecycle!End, history, session
  <2> QED BY <2>m, <2>3 DEF Lifecycle!Next
<1>5. CASE Release
  <2>1. \A n \in Messages : StatusOf(n)' = StatusOf(n)
    BY <1>5 DEF Release, StatusOf, worker, history
  <2>2. Lifecycle!With("waiting") \cup Lifecycle!With("running") = {}
    BY <1>5, <1>w, <1>r DEF Release, Idle, Lifecycle!With
  <2>3. Lifecycle!Release
    BY <1>5, <2>1, <2>2 DEF Release, Lifecycle!Release, history
  <2> QED BY <2>3 DEF Lifecycle!Next
<1>6. ASSUME NEW S \in SUBSET ran, ReconnectOk(S) PROVE Lifecycle!Next
  <2>1. \A n \in Messages : StatusOf(n)' = StatusOf(n)
    BY <1>6 DEF ReconnectOk, StatusOf, worker, history
  <2>2. Lifecycle!Reacquire
    BY <1>6, <2>1 DEF ReconnectOk, Lifecycle!Reacquire, history, LockInv
  <2> QED BY <2>2 DEF Lifecycle!Next
<1>7. ASSUME UNCHANGED <<queuedTasks, ticket, clock, withdrawn, active, released>>,
             active => wtask' = wtask
      PROVE  UNCHANGED Lifecycle!vars
  BY <1>7, Stutters
<1>8. CASE \/ \E S \in removing : RemoveRows(S)
           \/ CancelBegin \/ CancelEnd
           \/ ResyncBegin \/ \E S \in SUBSET ran : ResyncEnd(S)
           \/ SettingsBegin \/ SettingsEnd
           \/ ReconnectBegin \/ ReconnectFail
           \/ CloseBegin \/ ClosePuts \/ CloseEnds
           \/ Start \/ Codex \/ UNCHANGED vars
  BY <1>7, <1>8
  DEF Start, StartConnects, StartOk, StartFails, RemoveRows, CancelBegin, CancelEnd, ResyncBegin, ResyncEnd, SettingsBegin, SettingsEnd,
      ReconnectBegin, ReconnectFail, CloseBegin, ClosePuts, CloseEnds, Codex, BusyChanges,
      ItemArrives, TakeLock, vars, session, worker, history
<1>9. CASE \/ WorkerSeesIdle \/ WorkerStops \/ WorkerGetTimeout \/ WorkerSkip
           \/ WorkerMark \/ WorkerRun \/ WorkerReconnects \/ WorkerCompletes \/ WorkerFails
  BY <1>7, <1>9
  DEF WorkerSeesIdle, WorkerStops, WorkerGetTimeout, WorkerSkip, WorkerMark, WorkerRun,
      WorkerReconnects, WorkerCompletes, WorkerFails, session, worker, history
<1>10. CASE WorkerGet
  <2>1. ~active
    BY <1>10 DEF WorkerGet, WorkerInv, OnMessage
  <2> QED BY <1>7, <1>10, <2>1 DEF WorkerGet, session, history
<1>11. ASSUME NEW m \in Messages, CancelQueued(m) PROVE Lifecycle!Next
  BY <1>2, <1>11 DEF CancelQueued
<1>12. CASE ClearQueued
  BY <1>2, <1>12 DEF ClearQueued
<1> QED
  BY <1>1, <1>3, <1>4, <1>5, <1>6, <1>8, <1>9, <1>10, <1>11, <1>12 DEF Next, Handler, Close, Worker

LEMMA InitRefines == Init => Lifecycle!Init
BY DEF Init, Lifecycle!Init, StatusOf

\* LanChatService implements MessageLifecycle for any set of messages.
THEOREM Refinement == Spec => ImplementsLifecycle
<1>1. Init => Lifecycle!Init
  BY InitRefines
<1>2. IInv /\ [Next]_vars => [Lifecycle!Next]_(Lifecycle!vars)
  BY StepRefines
<1> QED
  BY <1>1, <1>2, Invariance, PTL DEF Spec, ImplementsLifecycle, Lifecycle!Spec
=============================================================================
