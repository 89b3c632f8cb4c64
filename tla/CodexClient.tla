----------------------------- MODULE CodexClient -----------------------------
(***************************************************************************)
(* CodexClient (codex_client.py): the client of one thread of the shared   *)
(* Codex App Server.  LanChatService calls it from one thread at a time    *)
(* (_queued_lock and _active see to that): run_turn_items, and read_thread *)
(* for a resync or a reconnect.  A reader thread handles the notifications *)
(* and answers of the WebSocket one by one, so what it does interleaves    *)
(* with the calling thread at every wait.                                  *)
(*                                                                         *)
(* The App Server is not in the repository.  Modelled of it, from how the  *)
(* client uses it: a thread runs at most one turn; turn/start is refused   *)
(* with an error while one runs; the answer of a request and the           *)
(* notifications of its effect arrive in either order; what is written to  *)
(* a connection arrives in order or, when the connection drops, not at     *)
(* all; turns outlive connections.                                         *)
(***************************************************************************)
EXTENDS Naturals, Sequences, FiniteSets

CONSTANT Scenes   \* what may happen in a run: see Scene

\* faults: "external", another client starts turns; "loss", connections drop or
\* cannot be opened; "slow", the timeout of a request passes; "overrun", the
\* timeout of a turn passes; "refusal", thread/resume is answered with an error.
\* calls bounds the calls of run_turn_items, external the turns of other clients.
AllFaults == {"external", "loss", "slow", "overrun", "refusal"}
Scene     == [faults : SUBSET AllFaults, calls : Nat, external : Nat]

ASSUME ScenesAssumption == Scenes \subseteq Scene

VARIABLES
  scene,       \* the scene of this run; it never changes
  turns,       \* server: the turns of the thread, a sequence of [by, state]
  requests,    \* set of requests the server has not handled (it may never)
  wire,        \* what the server wrote and the reader thread has not handled
  conn,        \* self.rpc: "none", "open", or "closed" but not dropped
  released,    \* LanChatService has no session connected
  looked,      \* its worker has found the thread idle and has not called since
  pc, op,      \* where the calling thread is, and in which operation
  attempt,     \* the attempt of run_turn_items
  answer,      \* the answer the reader put into the pending future
  active,      \* _active_turn_id (0 for None)
  starting,    \* _starting_turn
  done,        \* _turn_done
  turnError,   \* _turn_error is set
  threadTurn,  \* _thread_turn_id (0 for None)
  busy,        \* thread_busy
  calls,       \* history: run_turn_items calls so far, the number of the last
  verdict      \* history: how the last call of run_turn_items ended

server == <<turns, requests>>
events == <<active, done, turnError, threadTurn, busy>>
caller == <<pc, op, attempt, starting, calls, verdict>>
client == <<server, wire, conn, released, answer, events, caller>>
vars   == <<scene, looked, client>>

\* "connect" is the entry of ensure_thread, "stopping" lies between the reset
\* of run_turn_items and _stop_process, "again" before its second attempt;
\* "resume", "start", "interrupt" and "read" wait for an answer.
Awaiting == {"resume", "start", "interrupt", "read"}
Places   == {"idle", "connect", "wait", "stopping", "again"} \cup Awaiting
Ops      == {"turn", "resync", "reconnect"}
Verdicts == {"none", "ok", "failed", "timeout", "error", "refused"}
NoAnswer == [type |-> "none"]

Running == {t \in DOMAIN turns : turns[t].state = "running"}

-----------------------------------------------------------------------------
Init ==
  /\ scene \in Scenes
  /\ turns = <<>> /\ requests = {} /\ wire = <<>>
  /\ conn = "none" /\ released = TRUE /\ looked = FALSE
  /\ pc = "idle" /\ op = "reconnect" /\ attempt = 0
  /\ answer = NoAnswer
  /\ active = 0 /\ starting = FALSE /\ done = FALSE /\ turnError = FALSE
  /\ threadTurn = 0 /\ busy = FALSE
  /\ calls = 0 /\ verdict = "none"

-----------------------------------------------------------------------------
(* The App Server and the connection.                                      *)

Write(messages) == wire' = IF conn = "open" THEN wire \o messages ELSE wire

\* An answer nobody waits for any more changes nothing and is left out.
Reply(r, ok, turn) ==
  IF r.live
  THEN <<[type |-> "reply", ok |-> ok, turn |-> turn, active |-> Running # {}]>>
  ELSE <<>>

Started(t)       == <<[type |-> "started", turn |-> t]>>
Completed(t, ok) == <<[type |-> "completed", turn |-> t, ok |-> ok]>>

NewTurn(c) == turns' = Append(turns, [by |-> c, state |-> "running"])
EndTurn(t, state) == turns' = [turns EXCEPT ![t].state = state]

\* thread/resume and thread/read report the status; turn/start starts a turn;
\* turn/interrupt ends the turn it names.
ServerAnswers(r) ==
  /\ r \in requests
  /\ requests' = requests \ {r}
  /\ LET next == Len(turns) + 1
     IN  \/ /\ r.kind \in {"resume", "read"}
            /\ \/ Write(Reply(r, TRUE, 0))
               \/ r.kind = "resume" /\ "refusal" \in scene.faults /\ Write(Reply(r, FALSE, 0))
            /\ UNCHANGED turns
         \/ /\ r.kind = "start" /\ Running = {}
            /\ NewTurn(r.for)
            /\ \/ Write(Reply(r, TRUE, next) \o Started(next))
               \/ Write(Started(next) \o Reply(r, TRUE, next))
         \/ /\ r.kind = "interrupt" /\ r.for \in Running
            /\ EndTurn(r.for, "failed")
            /\ \/ Write(Reply(r, TRUE, 0) \o Completed(r.for, FALSE))
               \/ Write(Completed(r.for, FALSE) \o Reply(r, TRUE, 0))
         \/ /\ \/ r.kind = "start" /\ Running # {}
               \/ r.kind = "interrupt" /\ r.for \notin Running
            /\ Write(Reply(r, FALSE, 0))
            /\ UNCHANGED turns
  /\ UNCHANGED <<conn, released, answer, events, caller>>

TurnEnds(t, state) ==
  /\ t \in Running
  /\ EndTurn(t, state)
  /\ Write(Completed(t, state = "ok"))
  /\ UNCHANGED <<requests, conn, released, answer, events, caller>>

ExternalTurnStarts ==
  /\ "external" \in scene.faults /\ Running = {}
  /\ Cardinality({t \in DOMAIN turns : turns[t].by = 0}) < scene.external
  /\ NewTurn(0)
  /\ Write(Started(Len(turns) + 1))
  /\ UNCHANGED <<requests, conn, released, answer, events, caller>>

\* The reader thread ends: pending futures fail, later requests are refused.
ConnectionDrops ==
  /\ "loss" \in scene.faults /\ conn = "open"
  /\ conn' = "closed"
  /\ wire' = <<>>
  /\ UNCHANGED <<server, released, answer, events, caller>>

-----------------------------------------------------------------------------
(* The reader thread: _dispatch and _on_notification.                      *)

ReaderTakes(type) ==
  /\ conn = "open" /\ wire # <<>>
  /\ Head(wire).type = type
  /\ wire' = Tail(wire)
  /\ UNCHANGED <<server, conn, released, caller>>

OnReply ==
  /\ ReaderTakes("reply")
  /\ answer' = Head(wire)
  /\ UNCHANGED events

\* Operators named Bad... are slips of the code that the properties must notice;
\* no action or property uses them.

\* Any turn that starts is taken for the own one.
BadOnTurnStarted ==
  /\ ReaderTakes("started")
  /\ threadTurn' = Head(wire).turn /\ active' = Head(wire).turn
  /\ busy' = TRUE
  /\ UNCHANGED <<answer, done, turnError>>

OnTurnStarted ==
  /\ ReaderTakes("started")
  /\ LET t == Head(wire).turn
     IN  /\ threadTurn' = t
         /\ active' = IF starting /\ active = 0 THEN t ELSE active
  /\ busy' = TRUE
  /\ UNCHANGED <<answer, done, turnError>>

\* The thread becomes idle with the own turn only.
BadOnTurnCompleted ==
  /\ ReaderTakes("completed")
  /\ LET t == Head(wire).turn
         own == IF active = 0 /\ starting THEN t ELSE active
     IN  /\ active' = own
         /\ threadTurn' = IF own = t THEN 0 ELSE threadTurn
         /\ busy' = IF own = t THEN FALSE ELSE busy
         /\ done' = (done \/ own = t)
         /\ turnError' = (turnError \/ (own = t /\ ~Head(wire).ok))
  /\ UNCHANGED answer

OnTurnCompleted ==
  /\ ReaderTakes("completed")
  /\ LET t == Head(wire).turn
         own == IF active = 0 /\ starting THEN t ELSE active
         last == threadTurn \in {0, t}
     IN  /\ active' = own
         /\ threadTurn' = IF last THEN 0 ELSE threadTurn
         /\ busy' = IF last THEN FALSE ELSE busy
         /\ done' = (done \/ own = t)
         /\ turnError' = (turnError \/ (own = t /\ ~Head(wire).ok))
  /\ UNCHANGED answer

-----------------------------------------------------------------------------
(* The calling thread.                                                     *)

\* The pending future is dropped.  The server may still do what the request
\* asks for; one that only asks for a state is left out with its answer.
DropFuture ==
  requests' = {[r EXCEPT !.live = FALSE] :
                 r \in {q \in requests : q.kind \in {"start", "interrupt"}}}

Unread ==
  IF \E i \in DOMAIN wire : wire[i].type = "reply"
  THEN LET i == CHOOSE j \in DOMAIN wire : wire[j].type = "reply"
       IN  SubSeq(wire, 1, i - 1) \o SubSeq(wire, i + 1, Len(wire))
  ELSE wire

Request(kind, for, live) == {[kind |-> kind, for |-> for, attempt |-> attempt, live |-> live]}

\* A closed connection takes no request: RequestFails is next.
Send(kind, for) ==
  requests' = IF conn = "open" THEN requests \cup Request(kind, for, TRUE) ELSE requests

\* _turn_done keeps the value the last turn gave it.
BadEnterAttempt ==
  \/ /\ active # 0
     /\ pc' = "idle" /\ verdict' = "refused"
     /\ UNCHANGED <<done, turnError, starting>>
  \/ /\ active = 0
     /\ turnError' = FALSE /\ starting' = TRUE
     /\ pc' = "connect"
     /\ UNCHANGED <<verdict, done>>

\* The head of _run_turn_once, at the first attempt and at the second.
EnterAttempt ==
  \/ /\ active # 0
     /\ pc' = "idle" /\ verdict' = "refused"
     /\ UNCHANGED <<done, turnError, starting>>
  \/ /\ active = 0
     /\ done' = FALSE /\ turnError' = FALSE /\ starting' = TRUE
     /\ pc' = "connect"
     /\ UNCHANGED verdict

\* The worker tests thread_busy outside of its own calls.  It calls after it has
\* got and claimed a message: what it has seen may be different by then.
WorkerLooks ==
  /\ pc = "idle" \/ op # "turn"
  /\ ~busy
  /\ looked' = TRUE
  /\ UNCHANGED client

CallTurn ==
  /\ pc = "idle" /\ ~released
  /\ looked /\ looked' = FALSE
  /\ calls < scene.calls
  /\ calls' = calls + 1 /\ op' = "turn" /\ attempt' = 0
  /\ EnterAttempt
  /\ UNCHANGED <<server, wire, conn, released, answer, active, threadTurn, busy>>

TryAgain ==
  /\ pc = "again"
  /\ attempt' = 1
  /\ EnterAttempt
  /\ UNCHANGED <<server, wire, conn, released, answer, active, threadTurn, busy, op, calls>>

\* A resync is refused while the thread is busy; a released session, or one
\* that starts, is read by a reconnect.
CallRead ==
  /\ pc = "idle" /\ (released \/ ~busy)
  /\ op' = IF released THEN "reconnect" ELSE "resync"
  /\ pc' = "connect"
  /\ UNCHANGED <<server, wire, conn, released, answer, events, attempt, starting, calls, verdict>>

Release ==
  /\ pc = "idle" /\ ~released /\ ~busy
  /\ released' = TRUE
  /\ conn' = "none"
  /\ wire' = <<>>
  /\ UNCHANGED <<server, answer, events, caller>>

\* start() keeps a connection it has, closed or not; ensure_thread then asks
\* to resume the thread.
Connect ==
  /\ pc = "connect" /\ conn # "closed"
  /\ conn' = "open"
  /\ requests' = requests \cup Request("resume", 0, TRUE)
  /\ pc' = "resume"
  /\ UNCHANGED <<turns, wire, released, answer, events, op, attempt, starting, calls, verdict>>

\* _apply_thread_status, from an answer that may be older than the
\* notifications the reader has handled since.
Resumed ==
  /\ pc = "resume" /\ answer # NoAnswer /\ answer.ok
  /\ busy' = answer.active
  /\ answer' = NoAnswer
  /\ IF op = "turn" THEN Send("start", calls) /\ pc' = "start"
                    ELSE Send("read", 0) /\ pc' = "read"
  /\ UNCHANGED <<turns, wire, conn, released, active, done, turnError, threadTurn,
                 op, attempt, starting, calls, verdict>>

TurnStarted ==
  /\ pc = "start" /\ answer # NoAnswer /\ answer.ok
  /\ active' = answer.turn
  /\ starting' = FALSE
  /\ answer' = NoAnswer
  /\ pc' = "wait"
  /\ UNCHANGED <<server, wire, conn, released, done, turnError, threadTurn, busy,
                 op, attempt, calls, verdict>>

\* A turn that ended well but left no text is reported as an error.
TurnDone ==
  /\ pc = "wait" /\ done
  /\ verdict' \in IF turnError THEN {"failed"} ELSE {"ok", "error"}
  /\ active' = 0
  /\ pc' = "idle"
  /\ UNCHANGED <<server, wire, conn, released, answer, done, turnError, threadTurn, busy,
                 op, attempt, starting, calls>>

TurnOverruns ==
  /\ pc = "wait" /\ ~done /\ conn = "open" /\ "overrun" \in scene.faults
  /\ Send("interrupt", active)
  /\ pc' = "interrupt"
  /\ UNCHANGED <<turns, wire, conn, released, answer, events, op, attempt, starting, calls, verdict>>

Interrupted ==
  /\ pc = "interrupt" /\ answer # NoAnswer /\ answer.ok
  /\ active' = 0 /\ starting' = FALSE
  /\ answer' = NoAnswer
  /\ pc' = "idle" /\ verdict' = "timeout"
  /\ UNCHANGED <<server, wire, conn, released, done, turnError, threadTurn, busy, op, attempt, calls>>

ReadAnswered ==
  /\ pc = "read" /\ answer # NoAnswer
  /\ busy' = answer.active
  /\ answer' = NoAnswer
  /\ released' = FALSE
  /\ pc' = "idle"
  /\ UNCHANGED <<server, wire, conn, active, done, turnError, threadTurn,
                 op, attempt, starting, calls, verdict>>

\* What a failed call leaves: turn/start resets _starting_turn, ensure_thread
\* and interrupt_turn reset nothing; a reconnect closes the connection, with
\* what is unread on it.
CallFails(unread) ==
  /\ pc' = "idle"
  /\ verdict' = IF op = "turn" THEN "error" ELSE verdict
  /\ conn' = IF op = "reconnect" THEN "none" ELSE conn
  /\ wire' = IF op = "reconnect" THEN <<>> ELSE unread

\* A JSON-RPC error is not retried.
ErrorAnswered ==
  /\ pc \in Awaiting /\ answer # NoAnswer /\ ~answer.ok
  /\ answer' = NoAnswer
  /\ starting' = IF pc = "start" THEN FALSE ELSE starting
  /\ CallFails(wire)
  /\ UNCHANGED <<server, released, events, op, attempt, calls>>

\* The wait for the end of a turn has no timeout when the connection is gone.
BadCannotGoOn ==
  \/ pc = "connect" /\ (conn = "closed" \/ (conn = "none" /\ "loss" \in scene.faults))
  \/ pc \in Awaiting /\ answer = NoAnswer /\ (conn = "closed" \/ "slow" \in scene.faults)

\* JsonRpcClosed, OSError or TimeoutError (an OSError) is raised: the first
\* attempt of a turn is made again, anything else fails.
CannotGoOn ==
  \/ pc = "connect" /\ (conn = "closed" \/ (conn = "none" /\ "loss" \in scene.faults))
  \/ pc \in Awaiting /\ answer = NoAnswer /\ (conn = "closed" \/ "slow" \in scene.faults)
  \/ pc = "wait" /\ ~done /\ conn = "closed" /\ "overrun" \in scene.faults

RequestFails ==
  /\ CannotGoOn
  /\ DropFuture
  /\ starting' = IF pc = "start" THEN FALSE ELSE starting
  /\ \/ /\ op = "turn" /\ attempt = 0
        /\ active' = 0 /\ done' = FALSE
        /\ pc' = "stopping" /\ wire' = Unread
        /\ UNCHANGED <<conn, verdict>>
     \/ /\ ~(op = "turn" /\ attempt = 0)
        /\ CallFails(Unread)
        /\ UNCHANGED <<active, done>>
  /\ UNCHANGED <<turns, released, answer, turnError, threadTurn, busy, op, attempt, calls>>

StopProcess ==
  /\ pc = "stopping"
  /\ pc' = "again"
  /\ conn' = "none"
  /\ wire' = <<>>
  /\ UNCHANGED <<server, released, answer, events, op, attempt, starting, calls, verdict>>

\* A user cancels the turn the client believes to be its own, one request at a
\* time (_queued_lock); nothing in the client changes with the answer.
UserInterrupts ==
  /\ active # 0 /\ conn = "open"
  /\ \A r \in requests : r.kind # "interrupt"
  /\ requests' = requests \cup Request("interrupt", active, FALSE)
  /\ UNCHANGED <<turns, wire, conn, released, answer, events, caller>>

-----------------------------------------------------------------------------
Server ==
  \/ (\E r \in requests : ServerAnswers(r)) \/ ExternalTurnStarts \/ ConnectionDrops
  \/ \E t \in Running, state \in {"ok", "failed"} : TurnEnds(t, state)

Reader == OnReply \/ OnTurnStarted \/ OnTurnCompleted

Proceeds == Resumed \/ TurnStarted \/ TurnDone \/ Interrupted \/ ReadAnswered \/ ErrorAnswered

Worker == WorkerLooks \/ CallTurn

Caller ==
  \/ CallRead \/ Release \/ UserInterrupts
  \/ Connect \/ TryAgain \/ StopProcess \/ Proceeds \/ TurnOverruns \/ RequestFails

Next ==
  /\ Worker \/ ((Server \/ Reader \/ Caller) /\ UNCHANGED looked)
  /\ UNCHANGED scene

Spec == Init /\ [][Next]_vars

\* The calling thread runs and its timeouts pass.  Nothing is asked of the
\* server or of the connection.
Fairness ==
  LET Step(A) == A /\ UNCHANGED <<scene, looked>>
  IN  /\ WF_vars(Step(Connect)) /\ WF_vars(Step(TryAgain)) /\ WF_vars(Step(StopProcess))
      /\ WF_vars(Step(Proceeds)) /\ WF_vars(Step(TurnOverruns)) /\ WF_vars(Step(RequestFails))

FairSpec == Spec /\ Fairness

-----------------------------------------------------------------------------
(* Properties.                                                             *)

Turns == 0 .. Len(turns)

\* Every variable keeps its type, and an answer is only there for a caller
\* that waits for one.
TypeOK ==
  /\ turns \in Seq([by : Nat, state : {"running", "ok", "failed"}])
  /\ requests \subseteq [kind : Awaiting, for : Nat, attempt : {0, 1}, live : BOOLEAN]
  /\ \A i \in DOMAIN wire : wire[i].type \in {"reply", "started", "completed"}
  /\ conn \in {"none", "open", "closed"} /\ released \in BOOLEAN /\ looked \in BOOLEAN
  /\ pc \in Places /\ op \in Ops /\ attempt \in {0, 1}
  /\ answer.type \in {"none", "reply"}
  /\ answer.type = "reply" => pc \in Awaiting
  /\ active \in Turns /\ threadTurn \in Turns
  /\ starting \in BOOLEAN /\ done \in BOOLEAN /\ turnError \in BOOLEAN /\ busy \in BOOLEAN
  /\ calls \in Nat /\ verdict \in Verdicts

\* A call that waits for a turn, or asks for its end, does so for a turn that
\* this very call started, whatever other clients do on the thread.
WaitsForOwnTurn ==
  pc \in {"wait", "interrupt"} =>
    /\ active \in DOMAIN turns
    /\ turns[active].by = calls

\* What a call reports is what became of a turn it started, whatever is lost or
\* late, as long as no turn of another client or of an abandoned call is around.
VerdictIsTrue ==
  /\ scene.faults \subseteq {"overrun", "refusal"} \/ \A t \in DOMAIN turns : turns[t].by = calls
  /\ pc = "idle" /\ verdict \in {"ok", "failed"}
  => \E t \in DOMAIN turns : turns[t].by = calls /\ turns[t].state = verdict

\* A call is refused only while a turn executes.
RefusedOnlyWhileRunning ==
  [][CallTurn /\ active # 0 => Running # {}]_vars

\* On a connection that holds, when everything the server wrote has been handled
\* and no call is in progress, the thread is shown busy exactly while a turn
\* executes on it.  (Answers given up and turns of others break this: README.)
BusyIsTrue ==
  /\ scene.faults \subseteq {"overrun", "refusal"}
  /\ pc = "idle" /\ conn = "open" /\ wire = <<>>
  => (busy <=> Running # {})

\* Where timeouts pass every call returns: all waits have one, and there is one
\* retry.
CallReturns == ({"slow", "overrun"} \subseteq scene.faults /\ pc # "idle") ~> (pc = "idle")
=============================================================================
