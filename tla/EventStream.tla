----------------------------- MODULE EventStream -----------------------------
(***************************************************************************)
(* How a change of a session reaches a browser.  A thread that changes the *)
(* session wakes the subscribers (lan_service.py, session_hub.py); token   *)
(* by token changes are coalesced by a timer.  The SSE handler thread of a *)
(* page (lan_web.py) reads a snapshot and writes the difference to the one *)
(* before (stream_delta.py); the page patches its copy (web/realtime.js).  *)
(*                                                                         *)
(* A wake-up carries no data the handler uses: a subscriber's queue is     *)
(* the number of its entries.                                              *)
(***************************************************************************)
EXTENDS Naturals, Sequences, FiniteSets

CONSTANTS
  Threads,        \* threads of the server that change the session
  Timer,          \* the coalescing timer's thread
  Capacity,       \* maxsize of a subscriber's queue: 4 in the code
  PageSize,       \* turns of a streamed snapshot: 20 in the code
  Letters,        \* what texts are made of
  MaxText,        \* bound on the length of a text
  MaxChanges,     \* bound on the number of changes
  MaxWire,        \* frames the connection holds before a write blocks
  MaxDisconnects  \* bound on the number of lost connections

ASSUME ConstantsAssumption ==
  /\ Timer \notin Threads
  /\ Capacity \in Nat \ {0} /\ PageSize \in Nat \ {0}
  /\ MaxText \in Nat /\ MaxChanges \in Nat /\ MaxDisconnects \in Nat
  /\ MaxWire \in Nat \ {0}

VARIABLES
  thread,      \* projection: [epoch, turns], under the projection's lock
  notice,      \* the rest of the snapshot, read after the projection
  changes,     \* number of changes so far
  armed,       \* _broadcast_timer is set
  notifier,    \* where each thread is on its way to the subscriber
  signals,     \* entries in the subscriber's queue
  handler,     \* where the SSE handler thread is
  page,        \* the thread it has read for the next snapshot, or NoThread
  previous,    \* SnapshotDelta.previous, NoSnapshot at first
  sequence,    \* SnapshotDelta.sequence
  wire,        \* frames written and not applied
  browser,     \* StreamSnapshot: [snapshot, sequence]
  disconnects  \* lost connections so far

session == <<thread, notice, changes>>
stream  == <<previous, sequence, page>>
vars    == <<session, armed, notifier, signals, handler, stream, wire, browser, disconnects>>

NoSnapshot == [epoch |-> 0]
NoThread   == [epoch |-> 0]
NoBrowser  == [snapshot |-> NoSnapshot, sequence |-> 0]
Notifiers  == Threads \cup {Timer}

\* "changed" and "direct": a change has been made, and will be coalesced or
\* broadcast at once; "put", "drop" and "refill" are the steps of _broadcast
\* for a subscriber whose queue is full.
NotifierPlaces == {"idle", "changed", "direct", "put", "drop", "refill"}
HandlerPlaces  == {"subscribe", "read", "rest", "wait", "drain"}

-----------------------------------------------------------------------------
(* SnapshotDelta and StreamSnapshot.  A snapshot is [epoch, fields, turns];*)
(* a turn is [id, fields, items], an item [id, text].                      *)

Elements(s) == {s[i] : i \in DOMAIN s}
Ids(s)      == [i \in DOMAIN s |-> s[i].id]
ById(s, id) == CHOOSE e \in Elements(s) : e.id = id
Has(s, id)  == \E e \in Elements(s) : e.id = id

StartsWith(text, prefix) ==
  Len(prefix) <= Len(text) /\ SubSeq(text, 1, Len(prefix)) = prefix

FieldsChanged(new, old) == {<<k, new[k]>> : k \in {j \in DOMAIN new : j \notin DOMAIN old \/ new[j] # old[j]}}
FieldsRemoved(new, old) == DOMAIN old \ DOMAIN new

PatchFields(fields, changed, removed) ==
  LET set == {c[1] : c \in changed}
  IN  [k \in (DOMAIN fields \cup set) \ removed |->
         IF k \in set THEN (CHOOSE c \in changed : c[1] = k)[2] ELSE fields[k]]

\* Operators named Bad... are slips of the code that the properties must notice;
\* no action or property uses them.

BadItemDelta(item, turn) ==
  IF Has(turn.items, item.id) /\ Len(ById(turn.items, item.id).text) <= Len(item.text)
  THEN [id |-> item.id, kind |-> "append",
        text |-> SubSeq(item.text, Len(ById(turn.items, item.id).text) + 1, Len(item.text))]
  ELSE [id |-> item.id, kind |-> "replace", item |-> item]

\* The text of a message may arrive as what has been appended to it.
ItemDelta(item, turn) ==
  IF Has(turn.items, item.id) /\ StartsWith(item.text, ById(turn.items, item.id).text)
  THEN [id |-> item.id, kind |-> "append",
        text |-> SubSeq(item.text, Len(ById(turn.items, item.id).text) + 1, Len(item.text))]
  ELSE [id |-> item.id, kind |-> "replace", item |-> item]

TurnDelta(turn, turns) ==
  IF ~Has(turns, turn.id) THEN [id |-> turn.id, kind |-> "replace", turn |-> turn]
  ELSE LET old == ById(turns, turn.id)
       IN  [id |-> turn.id, kind |-> "patch",
            fields  |-> FieldsChanged(turn.fields, old.fields),
            removed |-> FieldsRemoved(turn.fields, old.fields),
            items   |-> {ItemDelta(i, old) : i \in Elements(turn.items) \ Elements(old.items)},
            order   |-> Ids(turn.items)]

\* SnapshotDelta.next for a snapshot that differs from the previous one.
Frame(new, old, seq) ==
  IF old = NoSnapshot \/ new.epoch # old.epoch
  THEN [event |-> "snapshot", sequence |-> seq, snapshot |-> new]
  ELSE [event |-> "delta", sequence |-> seq, base |-> seq - 1,
        fields  |-> FieldsChanged(new.fields, old.fields),
        removed |-> FieldsRemoved(new.fields, old.fields),
        order   |-> Ids(new.turns),
        turns   |-> {TurnDelta(t, old.turns) : t \in Elements(new.turns) \ Elements(old.turns)}]

ChangeOf(deltas, id) == CHOOSE d \in deltas : d.id = id

PatchedItem(id, deltas, items) ==
  IF \A d \in deltas : d.id # id THEN ById(items, id)
  ELSE LET d == ChangeOf(deltas, id)
       IN  IF d.kind = "replace" THEN d.item
           ELSE [id |-> id, text |-> ById(items, id).text \o d.text]

PatchedTurn(id, deltas, turns) ==
  IF \A d \in deltas : d.id # id THEN ById(turns, id)
  ELSE LET d == ChangeOf(deltas, id)
       IN  IF d.kind = "replace" THEN d.turn
           ELSE [id |-> id,
                 fields |-> PatchFields(ById(turns, id).fields, d.fields, d.removed),
                 items  |-> [i \in DOMAIN d.order |->
                               PatchedItem(d.order[i], d.items, ById(turns, id).items)]]

\* Every turn and item a delta builds on is one the page has.
ItemsKnown(d, items) ==
  /\ \A i \in d.items : i.kind = "append" => Has(items, i.id)
  /\ \A j \in DOMAIN d.order : Has(items, d.order[j]) \/ \E i \in d.items : i.id = d.order[j]

Applicable(b, frame) ==
  frame.event = "delta" =>
    /\ b.snapshot # NoSnapshot
    /\ frame.base = b.sequence /\ frame.sequence = b.sequence + 1
    /\ \A d \in frame.turns : d.kind = "patch" =>
         /\ Has(b.snapshot.turns, d.id)
         /\ ItemsKnown(d, ById(b.snapshot.turns, d.id).items)
    /\ \A i \in DOMAIN frame.order :
         Has(b.snapshot.turns, frame.order[i]) \/ \E d \in frame.turns : d.id = frame.order[i]

Patched(snapshot, frame) ==
  IF frame.event = "snapshot" THEN frame.snapshot
  ELSE [epoch  |-> snapshot.epoch,
        fields |-> PatchFields(snapshot.fields, frame.fields, frame.removed),
        turns  |-> [i \in DOMAIN frame.order |->
                      PatchedTurn(frame.order[i], frame.turns, snapshot.turns)]]

\* The history page of the newest turns.
Recent(turns) == SubSeq(turns, IF Len(turns) > PageSize THEN Len(turns) - PageSize + 1 ELSE 1, Len(turns))

SnapshotOf(t, n) == [epoch |-> t.epoch, fields |-> [notice |-> n], turns |-> Recent(t.turns)]

Current == SnapshotOf(thread, notice)

-----------------------------------------------------------------------------
\* The thread start() read: a turn whose answer is about to come.
ThreadRead ==
  [epoch |-> 1,
   turns |-> <<[id |-> 1, fields |-> [status |-> "inProgress"], items |-> <<[id |-> 1, text |-> <<>>]>>]>>]

Init ==
  /\ thread = ThreadRead /\ notice = 0 /\ changes = 0
  /\ armed = FALSE
  /\ notifier = [n \in Notifiers |-> "idle"]
  /\ signals = 0
  /\ handler = "subscribe"
  /\ page = NoThread /\ previous = NoSnapshot /\ sequence = 0
  /\ wire = <<>> /\ browser = NoBrowser /\ disconnects = 0

-----------------------------------------------------------------------------
(* Changes of the session.                                                 *)

Texts == UNION {[1 .. n -> Letters] : n \in 0 .. MaxText}

Change(t, how) ==
  /\ changes < MaxChanges
  /\ changes' = changes + 1
  /\ notifier[t] = "idle"
  /\ notifier' = [notifier EXCEPT ![t] = how]
  /\ UNCHANGED <<armed, signals, handler, stream, wire, browser, disconnects>>

WithItem(items, item) ==
  IF Has(items, item.id)
  THEN [i \in DOMAIN items |-> IF items[i].id = item.id THEN item ELSE items[i]]
  ELSE Append(items, item)

Newest == Len(thread.turns)

\* item/started, item/completed and the deltas: an item of the newest turn
\* gets a text.
ItemChanges(t, item, text) ==
  /\ Newest > 0
  /\ item \in 1 .. Len(thread.turns[Newest].items) + 1
  /\ thread' = [thread EXCEPT !.turns[Newest].items = WithItem(@, [id |-> item, text |-> text])]
  /\ thread' # thread
  /\ UNCHANGED notice
  /\ Change(t, "changed")

\* turn/started: a new turn, or the newest, whose items are dropped.
TurnStarts(t, turn) ==
  /\ turn \in {Newest, Newest + 1} \ {0}
  /\ thread' = [thread EXCEPT !.turns =
       IF turn = Newest THEN [@ EXCEPT ![turn].items = <<>>]
       ELSE Append(@, [id |-> turn, fields |-> [status |-> "inProgress"], items |-> <<>>])]
  /\ thread' # thread
  /\ UNCHANGED notice
  /\ Change(t, "changed")

\* An error event adds a field to the newest turn.
TurnFails(t) ==
  /\ Newest > 0
  /\ thread' = [thread EXCEPT !.turns[Newest].fields = [status |-> "inProgress", error |-> "error"]]
  /\ thread' # thread
  /\ UNCHANGED notice
  /\ Change(t, "changed")

\* replace_thread: a thread read again, under a new history epoch.
Resync(t, n) ==
  /\ n \in 0 .. Len(thread.turns)
  /\ thread' = [epoch |-> thread.epoch + 1, turns |-> SubSeq(thread.turns, 1, n)]
  /\ UNCHANGED notice
  /\ Change(t, "changed")

\* A notice, a queue length, a status.
NoticeChanges(t) ==
  /\ notice' = notice + 1
  /\ UNCHANGED thread
  /\ Change(t, "direct")

-----------------------------------------------------------------------------
(* _projection_changed, the timer, and _broadcast.                         *)

At(n, from, to) == notifier[n] = from /\ notifier' = [notifier EXCEPT ![n] = to]

Subscribed == handler # "subscribe"

\* Whether the interval has passed since the last broadcast is left open.
\* The subscribers are copied under the hub's lock and woken after it.
BroadcastNow(t) ==
  /\ \/ notifier[t] = "direct"
     \/ notifier[t] = "changed" /\ ~armed
  /\ notifier' = [notifier EXCEPT ![t] = IF Subscribed THEN "put" ELSE "idle"]
  /\ UNCHANGED <<session, armed, signals, handler, stream, wire, browser, disconnects>>

ArmTimer(t) ==
  /\ At(t, "changed", "idle") /\ ~armed
  /\ armed' = TRUE
  /\ UNCHANGED <<session, signals, handler, stream, wire, browser, disconnects>>

LeaveToTimer(t) ==
  /\ At(t, "changed", "idle") /\ armed
  /\ UNCHANGED <<session, armed, signals, handler, stream, wire, browser, disconnects>>

TimerFires ==
  /\ armed /\ At(Timer, "idle", IF Subscribed THEN "put" ELSE "idle")
  /\ armed' = FALSE
  /\ UNCHANGED <<session, signals, handler, stream, wire, browser, disconnects>>

Full == signals = Capacity

\* A queue that is full a second time is left as it is.
Put(n) ==
  /\ notifier[n] \in {"put", "refill"}
  /\ signals' = IF Full THEN signals ELSE signals + 1
  /\ notifier' = [notifier EXCEPT ![n] = IF Full /\ @ = "put" THEN "drop" ELSE "idle"]
  /\ UNCHANGED <<session, armed, handler, stream, wire, browser, disconnects>>

BadDropOldest(n) ==
  /\ At(n, "drop", "idle")
  /\ signals' = IF signals > 0 THEN signals - 1 ELSE 0
  /\ UNCHANGED <<session, armed, handler, stream, wire, browser, disconnects>>

DropOldest(n) ==
  /\ At(n, "drop", "refill")
  /\ signals' = IF signals > 0 THEN signals - 1 ELSE 0
  /\ UNCHANGED <<session, armed, handler, stream, wire, browser, disconnects>>

-----------------------------------------------------------------------------
(* The SSE handler thread.                                                 *)

Subscribe ==
  /\ handler = "subscribe"
  /\ handler' = "read"
  /\ UNCHANGED <<session, armed, notifier, signals, stream, wire, browser, disconnects>>

\* The projection is read before the rest of the snapshot.
ReadThread ==
  /\ handler = "read"
  /\ page' = thread
  /\ handler' = "rest"
  /\ UNCHANGED <<session, armed, notifier, signals, previous, sequence, wire, browser, disconnects>>

BadReadRest ==
  /\ handler = "rest"
  /\ LET new == SnapshotOf(page, notice)
     IN  /\ sequence' = IF new = previous THEN sequence ELSE sequence + 1
         /\ wire' = IF new = previous THEN wire ELSE Append(wire, Frame(new, previous, sequence + 1))
         /\ previous' = new
  /\ handler' = "wait" /\ page' = NoThread /\ signals' = 0
  /\ UNCHANGED <<session, armed, notifier, browser, disconnects>>

ReadRest ==
  /\ handler = "rest"
  /\ LET new == SnapshotOf(page, notice)
     IN  \/ /\ new = previous
            /\ UNCHANGED <<previous, sequence, wire>>
         \/ /\ new # previous /\ Len(wire) < MaxWire
            /\ sequence' = sequence + 1
            /\ wire' = Append(wire, Frame(new, previous, sequence + 1))
            /\ previous' = new
  /\ handler' = "wait" /\ page' = NoThread
  /\ UNCHANGED <<session, armed, notifier, signals, browser, disconnects>>

WakeUp ==
  /\ handler = "wait" /\ signals > 0
  /\ signals' = signals - 1
  /\ handler' = "drain"
  /\ UNCHANGED <<session, armed, notifier, stream, wire, browser, disconnects>>

DrainOne ==
  /\ handler = "drain" /\ signals > 0
  /\ signals' = signals - 1
  /\ UNCHANGED <<session, armed, notifier, handler, stream, wire, browser, disconnects>>

DrainEnds ==
  /\ handler = "drain" /\ signals = 0
  /\ handler' = "read"
  /\ UNCHANGED <<session, armed, notifier, signals, stream, wire, browser, disconnects>>

-----------------------------------------------------------------------------
(* The browser and the connection.  A lost connection is opened again by   *)
(* the EventSource, which keeps its StreamSnapshot; the server begins with *)
(* a new subscription and a new SnapshotDelta.  What is being put into the *)
(* old queue no longer matters.                                            *)

Unconcerned == [n \in Notifiers |-> IF notifier[n] \in {"put", "drop", "refill"} THEN "idle" ELSE notifier[n]]

NewConnection ==
  /\ handler' = "subscribe" /\ signals' = 0 /\ wire' = <<>>
  /\ notifier' = Unconcerned
  /\ previous' = NoSnapshot /\ sequence' = 0 /\ page' = NoThread
  /\ UNCHANGED <<session, armed>>

Disconnect ==
  /\ Subscribed /\ disconnects < MaxDisconnects
  /\ disconnects' = disconnects + 1
  /\ NewConnection
  /\ UNCHANGED browser

\* A frame that is not applicable makes apply() throw, and the page starts
\* afresh: BrowserHasBaseline says that no frame is of this kind.
Apply ==
  /\ wire # <<>> /\ Applicable(browser, Head(wire))
  /\ browser' = [snapshot |-> Patched(browser.snapshot, Head(wire)), sequence |-> Head(wire).sequence]
  /\ wire' = Tail(wire)
  /\ UNCHANGED <<session, armed, notifier, signals, handler, stream, disconnects>>

-----------------------------------------------------------------------------
Changes(t) ==
  \/ \E item \in 1 .. MaxChanges + 1, text \in Texts : ItemChanges(t, item, text)
  \/ \E turn \in 1 .. MaxChanges + 1 : TurnStarts(t, turn)
  \/ TurnFails(t)
  \/ \E n \in 0 .. MaxChanges + 1 : Resync(t, n)
  \/ NoticeChanges(t)

Notifies(n) == BroadcastNow(n) \/ ArmTimer(n) \/ LeaveToTimer(n) \/ Put(n) \/ DropOldest(n)

Handles == Subscribe \/ ReadThread \/ ReadRest \/ WakeUp \/ DrainOne \/ DrainEnds

Next ==
  \/ \E t \in Threads : Changes(t)
  \/ \E n \in Notifiers : Notifies(n)
  \/ TimerFires
  \/ Handles \/ Apply \/ Disconnect

Spec == Init /\ [][Next]_vars

\* Every thread runs, the timer fires, the browser handles what it receives.
Fairness ==
  /\ \A n \in Notifiers : WF_vars(Notifies(n))
  /\ WF_vars(TimerFires) /\ WF_vars(Handles) /\ WF_vars(Apply)

FairSpec == Spec /\ Fairness

-----------------------------------------------------------------------------
(* Properties.                                                             *)

TypeOK ==
  /\ thread.epoch \in Nat \ {0} /\ Ids(thread.turns) = [i \in DOMAIN thread.turns |-> i]
  /\ notice \in Nat /\ changes \in 0 .. MaxChanges /\ disconnects \in 0 .. MaxDisconnects
  /\ armed \in BOOLEAN
  /\ notifier \in [Notifiers -> NotifierPlaces]
  /\ signals \in 0 .. Capacity
  /\ handler \in HandlerPlaces
  /\ sequence \in Nat /\ (sequence = 0 <=> previous = NoSnapshot)

\* No wake-up is lost, though the queue may be full, its oldest entry is
\* dropped while the handler drains it, several threads broadcast at once
\* and a change is left to a timer: a handler that waits with nothing to
\* come has sent the session as it is.
NoLostWakeup ==
  (/\ handler = "wait" /\ signals = 0 /\ ~armed
   /\ \A n \in Notifiers : notifier[n] = "idle")
  => previous = Current

\* A page never meets a delta it cannot apply, and so never has to close its
\* stream and start afresh; and when it has applied what it was sent it has what
\* the server takes for its baseline: appended text, patched fields, changed order,
\* turns that leave the streamed page and lost connections let nothing drift apart.
BrowserHasBaseline ==
  IF wire # <<>> THEN Applicable(browser, Head(wire))
  ELSE previous # NoSnapshot => browser = [snapshot |-> previous, sequence |-> sequence]

\* Once the session stops changing, the page comes to show it and keeps it.
Converges == <>[](browser.snapshot = Current)
=============================================================================
