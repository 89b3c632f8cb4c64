----------------------------- MODULE ChatService -----------------------------
(***************************************************************************)
(* LanChatService (lan_service.py): one shared session.  HTTP handler      *)
(* threads submit, withdraw, cancel, resync, release, reconnect and change *)
(* the model; one worker thread takes messages from a FIFO and runs each   *)
(* as a turn of the Codex client.  The two sides share the FIFO, the table *)
(* of messages still waiting, the "active" event, and _queued_lock, which  *)
(* some handlers keep for the whole of an RPC.                             *)
(*                                                                         *)
(* The Codex client is seen through what this class reads of it: whether   *)
(* the thread is busy, whether a connection is open, and run_turn_items,   *)
(* which returns or raises (module CodexClient is the client itself).        *)
(***************************************************************************)
EXTENDS Naturals, Sequences

CONSTANTS
  Messages,   \* the messages that may be posted, each at most once (uuid4 ids)
  StopTask    \* the None that close() puts into the FIFO

ASSUME StopTaskAssumption == StopTask \notin Messages

VARIABLES
  queue,        \* _queue: FIFO of tasks, withdrawn ones included
  queuedTasks,  \* _queued_tasks: messages that have not begun
  lock,         \* _queued_lock: "free", or the handler that keeps it over an RPC
  active,       \* _active: the worker is on a message
  released,     \* _released
  stop,         \* _stop
  connection,   \* the connection state the projection shows
  pending,      \* status of each row of the projection's pending list
  removing,     \* sets of messages popped by a handler, rows not removed yet
  wpc,          \* where the worker thread is in _work_loop
  wtask,        \* the task the worker took from the FIFO last
  busy,         \* codex.thread_busy
  codexOpen,    \* the Codex client has an RPC connection
  closing,      \* how far close() is
  ran,          \* history: messages handed to run_turn_items
  withdrawn,    \* history: messages cancelled or cleared while waiting
  ticket,       \* history: order of acceptance, 0 before it
  clock         \* history: last ticket

session == <<released, connection, stop, closing>>
worker  == <<wpc, wtask, active>>
codex   == <<busy, codexOpen>>
history == <<ran, withdrawn, ticket, clock>>
vars    == <<queue, queuedTasks, lock, pending, removing, session, worker, codex, history>>

Locks == {"free", "cancel", "resync", "settings", "reconnect"}
Rows  == {"none", "queued", "processing", "failed"}

\* Places of _work_loop; "new" before start() starts the thread.  "get" lies between the thread_busy test and the
\* return of queue.get, "got" before the claim, "finally" before _active.clear.
WorkerPlaces == {"new", "poll", "get", "got", "claimed", "marked", "running", "finally", "exited"}
OnMessage    == {"claimed", "marked", "running", "finally"}

SetRow(S, row) == [m \in Messages |-> IF m \in S THEN row ELSE pending[m]]

\* update_pending finds nothing to update once the row is gone.
UpdateRow(m, row) == IF pending[m] = "none" THEN pending ELSE SetRow({m}, row)

-----------------------------------------------------------------------------
\* The constructor's work.
Init ==
  /\ queue = <<>> /\ queuedTasks = {} /\ removing = {}
  /\ lock = "free"
  /\ active = FALSE /\ wpc = "new" /\ wtask = StopTask
  /\ released = FALSE /\ connection = "connecting"
  /\ stop = FALSE /\ closing = "open"
  /\ pending = [m \in Messages |-> "none"]
  /\ busy = FALSE /\ codexOpen = FALSE
  /\ ran = {} /\ withdrawn = {}
  /\ ticket = [m \in Messages |-> 0] /\ clock = 0

-----------------------------------------------------------------------------
(* start(), before any handler can find the service in the hub.            *)

\* read_thread opens the connection; from then on busy changes.
StartConnects ==
  /\ wpc = "new" /\ connection = "connecting" /\ ~codexOpen
  /\ codexOpen' = TRUE
  /\ UNCHANGED <<queue, queuedTasks, lock, pending, removing, session, worker, busy, history>>

\* The model catalogue may fail to load; the worker starts all the same.
StartOk ==
  /\ wpc = "new" /\ connection = "connecting" /\ codexOpen
  /\ connection' = "connected"
  /\ stop' = FALSE
  /\ wpc' = "poll"
  /\ UNCHANGED <<queue, queuedTasks, lock, pending, removing, released, closing, wtask, active, codex, history>>

StartFails ==
  /\ wpc = "new" /\ connection = "connecting"
  /\ connection' = "disconnected"
  /\ UNCHANGED <<queue, queuedTasks, lock, pending, removing, released, stop, closing, worker, codex, history>>

-----------------------------------------------------------------------------
(* HTTP handler threads.  A critical section without an RPC is one step.   *)

Submit(m) ==
  /\ lock = "free" /\ ~released
  /\ ticket[m] = 0
  /\ pending' = SetRow({m}, "queued")
  /\ queuedTasks' = queuedTasks \cup {m}
  /\ queue' = Append(queue, m)
  /\ clock' = clock + 1
  /\ ticket' = [ticket EXCEPT ![m] = clock + 1]
  /\ UNCHANGED <<lock, removing, session, worker, codex, ran, withdrawn>>

\* cancel_queued and clear_queued pop under the lock and remove the rows of
\* what they popped after letting it go.
Pop(S) ==
  /\ lock = "free"
  /\ S # {} /\ S \subseteq queuedTasks
  /\ queuedTasks' = queuedTasks \ S
  /\ removing' = removing \cup {S}
  /\ withdrawn' = withdrawn \cup S
  /\ UNCHANGED <<queue, lock, pending, session, worker, codex, ran, ticket, clock>>

CancelQueued(m) == Pop({m})

ClearQueued == Pop(queuedTasks)

\* Operators named Bad... are slips of the code that the properties must notice;
\* no action or property uses them.

\* The rows are never removed.
BadRemoveRows(S) ==
  /\ S \in removing
  /\ removing' = removing \ {S}
  /\ UNCHANGED <<queue, queuedTasks, lock, pending, session, worker, codex, history>>

RemoveRows(S) ==
  /\ S \in removing
  /\ removing' = removing \ {S}
  /\ pending' = SetRow(S, "none")
  /\ UNCHANGED <<queue, queuedTasks, lock, session, worker, codex, history>>

TakeLock(handler) ==
  /\ lock = "free"
  /\ lock' = handler
  /\ UNCHANGED <<queue, queuedTasks, pending, removing, released, stop, closing, worker, history>>

\* The worker's own task is forgotten.
BadIdle == ~busy

Idle == ~active /\ ~busy

\* interrupt_turn is an RPC under the lock; its answer or its failure only
\* changes the notice.
CancelBegin == TakeLock("cancel") /\ ~released /\ UNCHANGED <<connection, codex>>

\* The lock is kept when the RPC fails.
BadCancelEnd == lock = "cancel" /\ UNCHANGED vars

CancelEnd ==
  /\ lock = "cancel"
  /\ lock' = "free"
  /\ UNCHANGED <<queue, queuedTasks, pending, removing, session, worker, codex, history>>

ResyncBegin == TakeLock("resync") /\ ~released /\ Idle /\ UNCHANGED <<connection, codex>>

\* replace_thread drops the rows of messages the thread already contains
\* (S); a read that fails leaves through the same door without replacing.
ResyncEnd(S) ==
  /\ lock = "resync"
  /\ S \subseteq ran
  /\ lock' = "free"
  /\ pending' = SetRow(S, "none")
  /\ codexOpen' \in {codexOpen, TRUE}
  /\ UNCHANGED <<queue, queuedTasks, removing, session, worker, busy, history>>

SettingsBegin ==
  /\ TakeLock("settings")
  /\ ~released /\ Idle /\ queuedTasks = {}
  /\ UNCHANGED <<connection, codex>>

SettingsEnd ==
  /\ lock = "settings"
  /\ lock' = "free"
  /\ codexOpen' \in {codexOpen, TRUE}
  /\ UNCHANGED <<queue, queuedTasks, pending, removing, session, worker, busy, history>>

Release ==
  /\ lock = "free" /\ ~released
  /\ Idle /\ queuedTasks = {}
  /\ released' = TRUE
  /\ connection' = "released"
  /\ codexOpen' = FALSE
  /\ UNCHANGED <<queue, queuedTasks, lock, pending, removing, stop, closing, worker, busy, history>>

\* read_thread opens the connection first.
ReconnectBegin ==
  /\ TakeLock("reconnect")
  /\ released
  /\ connection' = "connecting"
  /\ codexOpen' = TRUE
  /\ UNCHANGED busy

ReconnectOk(S) ==
  /\ lock = "reconnect"
  /\ S \subseteq ran
  /\ lock' = "free"
  /\ pending' = SetRow(S, "none")
  /\ released' = FALSE
  /\ connection' = "connected"
  /\ UNCHANGED <<queue, queuedTasks, removing, stop, closing, worker, codex, history>>

ReconnectFail ==
  /\ lock = "reconnect"
  /\ lock' = "free"
  /\ connection' = "released"
  /\ codexOpen' = FALSE
  /\ UNCHANGED <<queue, queuedTasks, pending, removing, released, stop, closing, worker, busy, history>>

-----------------------------------------------------------------------------
(* The worker thread.                                                      *)

WorkerSeesIdle ==
  /\ wpc = "poll" /\ ~stop /\ ~busy
  /\ wpc' = "get"
  /\ UNCHANGED <<queue, queuedTasks, lock, pending, removing, session, wtask, active, codex, history>>

WorkerStops ==
  /\ wpc = "poll" /\ stop
  /\ wpc' = "exited"
  /\ UNCHANGED <<queue, queuedTasks, lock, pending, removing, session, wtask, active, codex, history>>

WorkerGetTimeout ==
  /\ wpc = "get" /\ queue = <<>>
  /\ wpc' = "poll"
  /\ UNCHANGED <<queue, queuedTasks, lock, pending, removing, session, wtask, active, codex, history>>

\* The newest task is taken.
BadWorkerGetNewest ==
  /\ wpc = "get" /\ queue # <<>>
  /\ wtask' = queue[Len(queue)]
  /\ queue' = SubSeq(queue, 1, Len(queue) - 1)
  /\ wpc' = IF wtask' = StopTask THEN "exited" ELSE "got"
  /\ UNCHANGED <<queuedTasks, lock, pending, removing, session, active, codex, history>>

WorkerGet ==
  /\ wpc = "get" /\ queue # <<>>
  /\ wtask' = Head(queue)
  /\ queue' = Tail(queue)
  /\ wpc' = IF Head(queue) = StopTask THEN "exited" ELSE "got"
  /\ UNCHANGED <<queuedTasks, lock, pending, removing, session, active, codex, history>>

\* A withdrawn task is claimed too; the lock is not taken.
BadWorkerClaimAny ==
  /\ wpc = "got" /\ lock = "free"
  /\ queuedTasks' = queuedTasks \ {wtask}
  /\ active' = TRUE
  /\ wpc' = "claimed"
  /\ UNCHANGED <<queue, lock, pending, removing, session, wtask, codex, history>>

BadWorkerClaimUnlocked ==
  /\ wpc = "got" /\ wtask \in queuedTasks
  /\ queuedTasks' = queuedTasks \ {wtask}
  /\ active' = TRUE
  /\ wpc' = "claimed"
  /\ UNCHANGED <<queue, lock, pending, removing, session, wtask, codex, history>>

WorkerClaim ==
  /\ wpc = "got" /\ lock = "free"
  /\ wtask \in queuedTasks
  /\ queuedTasks' = queuedTasks \ {wtask}
  /\ active' = TRUE
  /\ wpc' = "claimed"
  /\ UNCHANGED <<queue, lock, pending, removing, session, wtask, codex, history>>

\* Any task may be skipped.
BadWorkerSkip ==
  /\ wpc = "got" /\ lock = "free"
  /\ wpc' = "poll"
  /\ UNCHANGED <<queue, queuedTasks, lock, pending, removing, session, wtask, active, codex, history>>

WorkerSkip ==
  /\ wpc = "got" /\ lock = "free"
  /\ wtask \notin queuedTasks
  /\ wpc' = "poll"
  /\ UNCHANGED <<queue, queuedTasks, lock, pending, removing, session, wtask, active, codex, history>>

WorkerMark ==
  /\ wpc = "claimed"
  /\ wpc' = "marked"
  /\ pending' = UpdateRow(wtask, "processing")
  /\ UNCHANGED <<queue, queuedTasks, lock, removing, session, wtask, active, codex, history>>

WorkerRun ==
  /\ wpc = "marked"
  /\ wpc' = "running"
  /\ ran' = ran \cup {wtask}
  /\ codexOpen' = TRUE
  /\ UNCHANGED <<queue, queuedTasks, lock, pending, removing, session, wtask, active, busy,
                 withdrawn, ticket, clock>>

\* run_turn_items opens a connection again when it loses the one it had, even
\* one that close() has closed under it.
WorkerReconnects ==
  /\ wpc = "running" /\ ~codexOpen
  /\ codexOpen' = TRUE
  /\ UNCHANGED <<queue, queuedTasks, lock, pending, removing, session, worker, busy, history>>

WorkerCompletes ==
  /\ wpc = "running"
  /\ wpc' = "finally"
  /\ pending' = SetRow({wtask}, "none")
  /\ UNCHANGED <<queue, queuedTasks, lock, removing, session, wtask, active, codex, history>>

WorkerFails ==
  /\ wpc = "running"
  /\ wpc' = "finally"
  /\ pending' = UpdateRow(wtask, "failed")
  /\ UNCHANGED <<queue, queuedTasks, lock, removing, session, wtask, active, codex, history>>

WorkerFinally ==
  /\ wpc = "finally"
  /\ wpc' = "poll"
  /\ active' = FALSE
  /\ UNCHANGED <<queue, queuedTasks, lock, pending, removing, session, wtask, codex, history>>

-----------------------------------------------------------------------------
(* The Codex client's reader thread, and close().                          *)

\* The user message of a turn comes back as an item with its clientId.
ItemArrives(m) ==
  /\ codexOpen /\ m \in ran
  /\ pending[m] # "none"
  /\ pending' = SetRow({m}, "none")
  /\ UNCHANGED <<queue, queuedTasks, lock, removing, session, worker, codex, history>>

BusyChanges ==
  /\ codexOpen
  /\ busy' = ~busy
  /\ UNCHANGED <<queue, queuedTasks, lock, pending, removing, session, worker, codexOpen, history>>

\* The hub closes what has started, or has failed to.
CloseBegin ==
  /\ closing = "open"
  /\ wpc # "new" \/ connection = "disconnected"
  /\ closing' = "stopping"
  /\ stop' = TRUE
  /\ UNCHANGED <<queue, queuedTasks, lock, pending, removing, released, connection, worker, codex, history>>

\* The interrupt of an active turn comes before the None.
ClosePuts ==
  /\ closing = "stopping"
  /\ closing' = "joining"
  /\ queue' = Append(queue, StopTask)
  /\ UNCHANGED <<queuedTasks, lock, pending, removing, released, connection, stop, worker, codex, history>>

\* join(timeout=10) returns whether or not the worker has exited.
CloseEnds ==
  /\ closing = "joining"
  /\ closing' = "closed"
  /\ codexOpen' = FALSE
  /\ UNCHANGED <<queue, queuedTasks, lock, pending, removing, released, connection, stop, worker, busy, history>>

-----------------------------------------------------------------------------
Start == StartConnects \/ StartOk \/ StartFails

Handler ==
  /\ wpc # "new"
  /\ \/ \E m \in Messages : Submit(m) \/ CancelQueued(m)
     \/ ClearQueued
     \/ \E S \in removing : RemoveRows(S)
     \/ CancelBegin \/ CancelEnd
     \/ ResyncBegin \/ \E S \in SUBSET ran : ResyncEnd(S)
     \/ SettingsBegin \/ SettingsEnd
     \/ Release
     \/ ReconnectBegin \/ (\E S \in SUBSET ran : ReconnectOk(S)) \/ ReconnectFail

Close == CloseBegin \/ ClosePuts \/ CloseEnds

Worker ==
  \/ WorkerSeesIdle \/ WorkerStops \/ WorkerGetTimeout \/ WorkerGet
  \/ WorkerClaim \/ WorkerSkip \/ WorkerMark \/ WorkerRun
  \/ WorkerReconnects \/ WorkerCompletes \/ WorkerFails \/ WorkerFinally

Codex == BusyChanges \/ \E m \in Messages : ItemArrives(m)

Next == Start \/ Handler \/ Close \/ Worker \/ Codex

Spec == Init /\ [][Next]_vars

\* Scheduling the liveness property needs: the worker thread runs; a handler
\* that keeps the lock over an RPC gets an answer or a timeout; and a lock the
\* worker waits for again and again is not always lost to a handler.  Nothing
\* is assumed of the thread's status.
Fairness ==
  /\ WF_vars(WorkerSeesIdle)
  /\ WF_vars(WorkerGetTimeout) /\ WF_vars(WorkerGet)
  /\ WF_vars(WorkerMark) /\ WF_vars(WorkerRun)
  /\ WF_vars(WorkerCompletes \/ WorkerFails) /\ WF_vars(WorkerFinally)
  /\ SF_vars(WorkerClaim \/ WorkerSkip)
  /\ WF_vars(CancelEnd \/ SettingsEnd \/ ReconnectFail \/ ResyncEnd({}))

FairSpec == Spec /\ Fairness

-----------------------------------------------------------------------------
(* Properties.                                                             *)

\* Every variable keeps its type.
TypeOK ==
  /\ queue \in Seq(Messages \cup {StopTask})
  /\ queuedTasks \subseteq Messages
  /\ lock \in Locks
  /\ active \in BOOLEAN /\ released \in BOOLEAN /\ stop \in BOOLEAN
  /\ busy \in BOOLEAN /\ codexOpen \in BOOLEAN
  /\ connection \in {"connected", "connecting", "disconnected", "released"}
  /\ pending \in [Messages -> Rows]
  /\ removing \in SUBSET SUBSET Messages
  /\ wpc \in WorkerPlaces
  /\ wtask \in Messages \cup {StopTask}
  /\ closing \in {"open", "stopping", "joining", "closed"}
  /\ ran \subseteq Messages /\ withdrawn \subseteq Messages
  /\ ticket \in [Messages -> Nat] /\ clock \in Nat

\* A message that waits can still be reached by the worker: it is in the FIFO
\* or in the worker's hands, whatever was withdrawn around it (a message in
\* the table only would be shown as queued for ever and keep the session from
\* being released).
WaitingIsReachable ==
  \A m \in queuedTasks :
    \/ wpc = "got" /\ wtask = m
    \/ \E i \in DOMAIN queue : queue[i] = m

\* The rows tell the truth: one shown as queued can still be cancelled, or its
\* removal or its start is under way; only the message the worker is on is shown
\* as processing.
RowsAreTrue ==
  \A m \in Messages :
    /\ pending[m] = "queued" =>
         m \in queuedTasks \cup (UNION removing) \/ (wpc = "claimed" /\ wtask = m)
    /\ pending[m] = "processing" => active /\ wtask = m /\ wpc \in {"marked", "running"}

\* A message whose cancellation was confirmed is never handed to Codex.
WithdrawnNeverRuns == withdrawn \cap ran = {}

\* No message is handed to Codex twice: what the worker takes has not run.
NeverRunAgain == wpc \in {"got", "claimed", "marked"} => wtask \notin ran

\* While a session is released nothing waits, nothing runs, and the bridge
\* has no connection with which to hold the thread, except while an explicit
\* reconnect is under way; and the pages are told so.
ReleasedIsQuiet ==
  released =>
    /\ queuedTasks = {} /\ ~active
    /\ codexOpen => lock = "reconnect"
    /\ connection = IF lock = "reconnect" THEN "connecting" ELSE "released"

\* No turn of this service begins while a handler re-reads the thread or
\* changes its model; for a model change nothing waits either.
QuietUnderLock ==
  /\ lock \in {"resync", "settings"} => ~active
  /\ lock = "settings" => queuedTasks = {}

\* What becomes of a message, seen through the promise of MessageLifecycle.
StatusOf(m) ==
  IF ticket[m] = 0 THEN "new"
  ELSE IF m \in queuedTasks THEN "waiting"
  ELSE IF m \in withdrawn THEN "withdrawn"
  ELSE IF active /\ wtask = m THEN "running"
  ELSE "ended"

Lifecycle == INSTANCE MessageLifecycle WITH
  status <- [m \in Messages |-> StatusOf(m)],
  held   <- ~released

\* The service implements the promise: one at a time, oldest first, withdrawn
\* messages never run, released only when nothing waits or runs.
ImplementsLifecycle == Lifecycle!Spec

\* A waiting message is begun or withdrawn in the end, unless the service is
\* being closed: provided that the worker, each time it asks for the status
\* (_work_loop), finds the thread idle in the end, as it does when the thread is
\* idle from some time on.  Otherwise the message may wait for ever, as in the
\* code: a status read late can show a thread busy that nobody works on
\* (codex_client.py, _apply_thread_status).
FindsItIdle == wpc = "poll" ~> wpc # "poll"

WaitingIsServed ==
  FindsItIdle => \A m \in Messages : m \in queuedTasks ~> (m \notin queuedTasks \/ stop)
=============================================================================
