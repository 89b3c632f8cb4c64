--------------------------------- MODULE Page ---------------------------------
(***************************************************************************)
(* A browser page (web/app.js): which session it shows, the event stream   *)
(* and the snapshot requests it shows it from, the history it has loaded   *)
(* (module HistoryTimeline), the notices of ended tasks                    *)
(* (web/notifications.js, switched on) and the login.                      *)
(*                                                                         *)
(* How a frame of the stream becomes a snapshot is in module EventStream;  *)
(* here a frame is the snapshot.  The page is single-threaded: an action   *)
(* is what runs between two awaits.                                        *)
(***************************************************************************)
EXTENDS HistoryTimeline, SequencesExt

CONSTANTS
  Sessions,
  Default,     \* the session of pages that name none (LanSessionHub)
  Nobody,      \* no session
  Turns0,      \* how many turns each session has at the beginning
  MaxTurns,    \* turns are numbered up to here
  MaxChanges,  \* changes of the sessions' histories
  MaxMoves,    \* of the reader: selections, operations, requests of history
  MaxFaults,   \* lost or refused connections, restarts, expired logins
  MaxEvents    \* of the three together

ASSUME ConstantsAssumption ==
  /\ Default \in Sessions /\ Nobody \notin Sessions
  /\ Turns0 \in [Sessions -> Nat]
  /\ MaxTurns \in Nat /\ \A s \in Sessions : Turns0[s] + MaxChanges <= MaxTurns
  /\ MaxChanges \in Nat /\ MaxMoves \in Nat /\ MaxFaults \in Nat /\ MaxEvents \in Nat

VARIABLES
  server,      \* SessionProjection of each session: [epoch, version, turns]
  login,       \* the server accepts the page's token
  authed,      \* appAuthenticated
  selected,    \* selectedSessionId
  source,      \* the EventSource and its handler in lan_web.py
  ready,       \* deltaStreamReady
  refresh,     \* the request of refresh(), and refreshQueued
  timer,       \* refreshTimer is set
  lastVersion, \* 0 for -1
  timeline,    \* historyTimeline
  loads,       \* requests of loadEarlier that have not ended
  tracker,     \* TaskCompletionTracker: the turns seen, and whether ended
  announced,   \* history: how often the end of each turn was announced
  away,        \* history: the turns that ended while the page did not look
  spent        \* what has been used of the bounds

shownVars  == <<lastVersion, timeline, loads, tracker, announced>>
streamVars == <<source, ready, refresh, timer>>
serverVars == <<server, login, away>>
vars == <<serverVars, authed, selected, streamVars, shownVars, spent>>

Bounds == [changes |-> MaxChanges, moves |-> MaxMoves, faults |-> MaxFaults]
Spend(what) ==
  /\ spent[what] < Bounds[what]
  /\ spent.changes + spent.moves + spent.faults < MaxEvents
  /\ spent' = [spent EXCEPT ![what] = @ + 1]

\* resolve_session_id of the hub, for a page that names no session.
Resolved(s) == IF s = Nobody THEN Default ELSE s

\* The page is logged in, and on this session.
Looks(s) == authed /\ Resolved(selected) = s

\* LanSessionHub.snapshot: an epoch is unique among all sessions.
Epoch(s)    == <<s, server[s].epoch>>
Snapshot(s) == [sid |-> s, version |-> server[s].version,
                page |-> LatestPage(Epoch(s), server[s].turns)]

NoSnapshot == [sid |-> Nobody, version |-> 0, page |-> NoPage]
NoSource   == [pc |-> "none", sid |-> Nobody, checking |-> FALSE, last |-> NoSnapshot, wire |-> <<>>]
NoRefresh  == [pc |-> "idle", sid |-> Nobody, fate |-> "wanted", queued |-> FALSE,
               answer |-> NoSnapshot]
AbortedLoad == [current |-> FALSE, sid |-> Nobody, epoch |-> NoEpoch, before |-> 0,
                answer |-> "none", page |-> NoPage]
NoTracker  == [sid |-> Nobody, seen |-> <<>>]

\* Operators named Bad... are slips of the code that the properties must
\* notice; no action or property uses them.

-----------------------------------------------------------------------------
(* Pieces of app.js that several handlers share.                           *)

\* startEvents, when there is no event source.
Connecting(s) == [NoSource EXCEPT !.pc = "connecting", !.sid = s]

\* reset of the timeline: its request is aborted, its generation is over.
Outdated(requests) == {AbortedLoad : l \in requests}

\* Ends are sticky.
EndedBy(old, turns) ==
  [i \in DOMAIN old \cup DOMAIN turns |->
     \/ i \in DOMAIN old /\ old[i]
     \/ i \in DOMAIN turns /\ turns[i].status = "ended"]

\* TaskNotifications.update: the first snapshot of a session is a baseline.
Announce(snapshot) ==
  LET baseline == snapshot.sid # tracker.sid
      old      == IF baseline THEN <<>> ELSE tracker.seen
      ended    == EndedBy(old, snapshot.page.turns)
      fresh    == {i \in DOMAIN ended : ended[i] /\ ~(i \in DOMAIN old /\ old[i])} IN
  /\ tracker' = [sid |-> snapshot.sid, seen |-> ended]
  /\ announced' = [announced EXCEPT ![snapshot.sid] =
                     [i \in DOMAIN @ |-> IF ~baseline /\ i \in fresh THEN @[i] + 1 ELSE @[i]]]

\* render, where "last" is the version shown before.  A page that has named no
\* session gets the server's (renderSessionSelector).
Render(snapshot, last) ==
  /\ Announce(snapshot)
  /\ selected' = snapshot.sid
  /\ lastVersion' = snapshot.version
  /\ IF snapshot.version = last THEN UNCHANGED <<timeline, loads>>
     ELSE /\ timeline' = Updated(timeline, snapshot.page)
          /\ loads' = IF MustReset(timeline, snapshot.page) THEN Outdated(loads) ELSE loads

\* refresh, up to its await.
Refreshed(r, s) ==
  IF ~authed \/ ready THEN r
  ELSE IF r.pc # "idle" THEN [r EXCEPT !.queued = TRUE]
  ELSE [NoRefresh EXCEPT !.pc = "asked", !.sid = s]

\* The finally of refresh.
RefreshOver == refresh' = NoRefresh /\ timer' = (timer \/ refresh.queued)

\* A request that is aborted ends without its answer.
Aborted(r) ==
  IF r.pc = "idle" THEN r
  ELSE [NoRefresh EXCEPT !.pc = "answered", !.fate = "aborted", !.queued = r.queued]

\* streamRevision goes on: the answer will not be shown.
Overtaken(r) == IF r.pc # "idle" /\ r.fate = "wanted" THEN [r EXCEPT !.fate = "overtaken"] ELSE r

\* The notices go on as if the page had looked all the time.
BadShowAuthentication ==
  /\ authed' = FALSE
  /\ timer' = FALSE
  /\ timeline' = EmptyTimeline /\ loads' = Outdated(loads) /\ lastVersion' = 0
  /\ source' = NoSource /\ ready' = FALSE
  /\ UNCHANGED <<serverVars, selected, tracker, announced, spent>>

\* showAuthentication, but for the request of refresh().
ShowAuthentication ==
  /\ tracker' = NoTracker /\ authed' = FALSE
  /\ timer' = FALSE
  /\ timeline' = EmptyTimeline /\ loads' = Outdated(loads) /\ lastVersion' = 0
  /\ source' = NoSource /\ ready' = FALSE
  /\ UNCHANGED <<serverVars, selected, announced, spent>>

\* ... when that request is not the one that found out.
ShowAuthenticationAndAbort ==
  ShowAuthentication /\ refresh' = [Aborted(refresh) EXCEPT !.queued = FALSE]

-----------------------------------------------------------------------------
(* The server.                                                             *)

Changes(s, history) ==
  /\ Spend("changes")
  /\ server' = [server EXCEPT ![s].turns = history, ![s].version = @ + 1]
  /\ away' = IF Last(history) = "ended" /\ ~Looks(s)
             THEN [away EXCEPT ![s] = @ \cup {Len(history)}] ELSE away
  /\ UNCHANGED <<login, authed, selected, streamVars, shownVars>>

\* turn/started and turn/completed in apply_notification; the latter may be the
\* first that is heard of a turn (_ensure_turn).
TurnBegins(s) ==
  /\ server[s].turns = <<>> \/ Last(server[s].turns) = "ended"
  /\ Changes(s, Append(server[s].turns, "running"))
TurnEnds(s) ==
  /\ server[s].turns # <<>> /\ Last(server[s].turns) = "running"
  /\ Changes(s, Append(Front(server[s].turns), "ended"))
TurnPasses(s) ==
  /\ server[s].turns = <<>> \/ Last(server[s].turns) = "ended"
  /\ Changes(s, Append(server[s].turns, "ended"))

\* replace_thread (a resync): here the same turns, under a new epoch.
Resyncs(s) ==
  /\ Spend("changes")
  /\ server' = [server EXCEPT ![s].epoch = @ + 1, ![s].version = @ + 1]
  /\ UNCHANGED <<login, away, authed, selected, streamVars, shownVars>>

\* The connection of the stream breaks: the browser connects again by itself.
\* onerror runs up to its await.
Broken == [source EXCEPT !.pc = "connecting", !.checking = TRUE, !.wire = <<>>, !.last = NoSnapshot]

\* The server is started again: versions begin anew.
Restarts ==
  /\ Spend("faults")
  /\ server' = [s \in Sessions |-> [server[s] EXCEPT !.epoch = @ + 1, !.version = 1]]
  /\ IF source.pc = "open" THEN source' = Broken /\ ready' = FALSE ELSE UNCHANGED <<source, ready>>
  /\ UNCHANGED <<login, away, authed, selected, refresh, timer, shownVars>>

Expires ==
  /\ login /\ Spend("faults") /\ login' = FALSE
  /\ UNCHANGED <<server, away, authed, selected, streamVars, shownVars>>

-----------------------------------------------------------------------------
(* The event stream.                                                       *)

\* _serve_delta_events: the first frame is a whole snapshot.
StreamOpens ==
  /\ source.pc = "connecting" /\ login
  /\ LET first == Snapshot(Resolved(source.sid)) IN
     source' = [source EXCEPT !.pc = "open", !.sid = first.sid, !.last = first,
                              !.wire = <<[event |-> "snapshot", snapshot |-> first]>>]
  /\ UNCHANGED <<serverVars, authed, selected, ready, refresh, timer, shownVars, spent>>

\* An answer that is not a stream (no login, an error, a proxy's error page):
\* the browser gives up.
Closes ==
  /\ source.pc = "connecting"
  /\ source' = [source EXCEPT !.pc = "closed", !.checking = TRUE] /\ ready' = FALSE
  /\ UNCHANGED <<serverVars, authed, selected, refresh, timer, shownVars>>
StreamIsForbidden == ~login /\ Closes /\ UNCHANGED spent
StreamIsRefused   == Spend("faults") /\ Closes

\* One frame is on its way at a time.
StreamSends ==
  /\ source.pc = "open" /\ login /\ source.wire = <<>>
  /\ LET next == Snapshot(source.sid) IN
     /\ next # source.last
     /\ source' = [source EXCEPT !.last = next,
                                 !.wire = <<[event |-> "delta", snapshot |-> next]>>]
  /\ UNCHANGED <<serverVars, authed, selected, ready, refresh, timer, shownVars, spent>>

\* The connection is lost, or ended by the server for want of a login.
Breaks ==
  /\ source.pc = "open" /\ source' = Broken /\ ready' = FALSE
  /\ UNCHANGED <<serverVars, authed, selected, refresh, timer, shownVars>>
StreamIsEnded == ~login /\ Breaks /\ UNCHANGED spent
StreamBreaks  == Spend("faults") /\ Breaks

BadFrameArrives ==
  /\ source.wire # <<>>
  /\ Render(source.wire[1].snapshot, lastVersion)
  /\ source' = [source EXCEPT !.wire = <<>>] /\ ready' = TRUE
  /\ refresh' = Overtaken(refresh)
  /\ UNCHANGED <<serverVars, authed, timer, spent>>

BadOvertakes ==
  /\ source.wire # <<>>
  /\ LET frame == source.wire[1] IN
     Render(frame.snapshot, IF frame.event = "snapshot" THEN 0 ELSE lastVersion)
  /\ source' = [source EXCEPT !.wire = <<>>] /\ ready' = TRUE
  /\ UNCHANGED <<serverVars, authed, refresh, timer, spent>>

\* The listener of "snapshot" and "delta": a request under way is overtaken.
FrameArrives ==
  /\ source.wire # <<>>
  /\ LET frame == source.wire[1] IN
     Render(frame.snapshot, IF frame.event = "snapshot" THEN 0 ELSE lastVersion)
  /\ source' = [source EXCEPT !.wire = <<>>] /\ ready' = TRUE
  /\ refresh' = Overtaken(refresh)
  /\ UNCHANGED <<serverVars, authed, timer, spent>>

\* The rest of onerror, once the status of the login is known.
CheckEnds ==
  /\ source.checking
  /\ \/ /\ login
        /\ source' = [source EXCEPT !.checking = FALSE] /\ timer' = TRUE
        /\ UNCHANGED <<serverVars, authed, selected, ready, refresh, shownVars, spent>>
     \/ ~login /\ ShowAuthenticationAndAbort

\* authForm, and startAuthenticatedApp.
LogsIn ==
  /\ ~authed
  /\ login' = TRUE /\ authed' = TRUE /\ source' = Connecting(selected) /\ ready' = FALSE
  /\ UNCHANGED <<server, away, selected, refresh, timer, shownVars, spent>>

-----------------------------------------------------------------------------
(* refresh(): a snapshot by request, while the stream is not ready.        *)

TimerFires ==
  /\ timer /\ timer' = FALSE
  /\ refresh' = Refreshed(refresh, selected)
  /\ UNCHANGED <<serverVars, authed, selected, source, ready, shownVars, spent>>

\* An operation on the session has been answered (mutate): all end in refresh().
Operates ==
  /\ authed /\ login /\ Spend("moves")
  /\ refresh' = Refreshed(refresh, selected)
  /\ UNCHANGED <<serverVars, authed, selected, source, ready, timer, shownVars>>

OperationIsForbidden == authed /\ ~login /\ ShowAuthenticationAndAbort

\* No snapshot stands for the status 401.
RefreshIsAnswered ==
  /\ refresh.pc = "asked"
  /\ refresh' = [refresh EXCEPT !.pc = "answered",
                   !.answer = IF login THEN Snapshot(Resolved(refresh.sid)) ELSE NoSnapshot]
  /\ UNCHANGED <<serverVars, authed, selected, source, ready, timer, shownVars, spent>>

RefreshFails ==
  /\ refresh.pc = "asked" /\ Spend("faults") /\ RefreshOver
  /\ UNCHANGED <<serverVars, authed, selected, source, ready, shownVars>>

\* The three ends of a request that has been answered.  A new login is asked for
\* even when the answer is overtaken.
RefreshIsDropped ==
  /\ refresh.pc = "answered"
  /\ refresh.fate = "aborted" \/ (refresh.fate = "overtaken" /\ refresh.answer # NoSnapshot)
  /\ RefreshOver
  /\ UNCHANGED <<serverVars, authed, selected, source, ready, shownVars, spent>>

RefreshIsShown ==
  /\ refresh.pc = "answered" /\ refresh.fate = "wanted" /\ refresh.answer # NoSnapshot
  /\ RefreshOver /\ Render(refresh.answer, lastVersion)
  /\ UNCHANGED <<serverVars, authed, source, ready, spent>>

RefreshIsForbidden ==
  /\ refresh.pc = "answered" /\ refresh.fate # "aborted" /\ refresh.answer = NoSnapshot
  /\ ShowAuthentication /\ refresh' = NoRefresh

-----------------------------------------------------------------------------
(* The timeline, and selecting another session.                            *)

\* The reader scrolls away from the bottom, or back to it.
Scrolls ==
  /\ timeline.entries # <<>>
  /\ timeline' = [timeline EXCEPT !.following = ~@]
  /\ UNCHANGED <<serverVars, authed, selected, streamVars, lastVersion, loads, tracker, announced, spent>>

\* loadEarlier: fetchPage asks for the session selected now.
LoadBegins ==
  /\ HasEarlier(timeline) /\ ~timeline.loading /\ Spend("moves")
  /\ timeline' = Loading(timeline)
  /\ loads' = loads \cup {[current |-> TRUE, sid |-> Resolved(selected), epoch |-> timeline.epoch,
                           before |-> Oldest(timeline) - 1, answer |-> "none", page |-> NoPage]}
  /\ UNCHANGED <<serverVars, authed, selected, streamVars, lastVersion, tracker, announced>>

\* The answer to a request that is not aborted; _page_bounds refuses a cursor of another epoch.
LoadIsAnswered(l) ==
  /\ l.current /\ l.answer = "none"
  /\ LET page == PageBefore(l.epoch, server[l.sid].turns, l.before) IN
     loads' = (loads \ {l}) \cup
       {IF ~login THEN [l EXCEPT !.answer = "login"]
        ELSE IF l.epoch # Epoch(l.sid) THEN [l EXCEPT !.answer = "error"]
        ELSE [l EXCEPT !.answer = "page", !.page = page]}
  /\ UNCHANGED <<serverVars, authed, selected, streamVars, lastVersion, timeline, tracker, announced, spent>>

\* The end of an aborted request changes nothing, whatever its answer.
LoadEnds(l) ==
  /\ ~l.current \/ l.answer \in {"page", "error"}
  /\ loads' = loads \ {l}
  /\ timeline' = IF ~l.current THEN timeline
                 ELSE IF l.answer = "error" THEN LoadFailed(timeline)
                 ELSE Loaded(timeline, l.page)
  /\ UNCHANGED <<serverVars, authed, selected, streamVars, lastVersion, tracker, announced, spent>>

LoadIsForbidden(l) == l.current /\ l.answer = "login" /\ ShowAuthenticationAndAbort

\* The button is there when more than a page is shown.
ShowsRecent ==
  /\ Cardinality(DOMAIN timeline.entries) > PageSize /\ Spend("moves")
  /\ timeline' = Recent(timeline) /\ loads' = Outdated(loads)
  /\ UNCHANGED <<serverVars, authed, selected, streamVars, lastVersion, tracker, announced>>

\* selectSession
Selects(s) ==
  /\ authed /\ s # selected /\ Spend("moves")
  /\ selected' = s
  /\ tracker' = NoTracker
  /\ refresh' = Aborted(refresh)
  /\ timeline' = EmptyTimeline /\ loads' = Outdated(loads) /\ lastVersion' = 0
  /\ source' = Connecting(s) /\ ready' = FALSE
  /\ UNCHANGED <<serverVars, authed, timer, announced>>

-----------------------------------------------------------------------------

Init ==
  /\ server = [s \in Sessions |-> [epoch |-> 0, version |-> 1,
                                   turns |-> [i \in 1 .. Turns0[s] |-> "ended"]]]
  /\ login = TRUE /\ authed = TRUE
  /\ selected \in {Nobody} \cup Sessions
  /\ source = Connecting(selected)
  /\ ready = FALSE /\ refresh = NoRefresh /\ timer = FALSE
  /\ lastVersion = 0 /\ timeline = EmptyTimeline /\ loads = {}
  /\ tracker = NoTracker
  /\ announced = [s \in Sessions |-> [i \in 1 .. MaxTurns |-> 0]]
  /\ away = [s \in Sessions |-> 1 .. Turns0[s]]
  /\ spent = [what \in DOMAIN Bounds |-> 0]

Server == Restarts \/ Expires \/ \E s \in Sessions : TurnBegins(s) \/ TurnEnds(s) \/ TurnPasses(s) \/ Resyncs(s)

Stream ==
  \/ StreamOpens \/ StreamIsForbidden \/ StreamIsRefused
  \/ StreamSends \/ StreamIsEnded \/ StreamBreaks
  \/ FrameArrives \/ CheckEnds

Request ==
  \/ TimerFires \/ RefreshIsAnswered \/ RefreshFails
  \/ RefreshIsDropped \/ RefreshIsShown \/ RefreshIsForbidden
  \/ \E l \in loads : LoadIsAnswered(l) \/ LoadEnds(l) \/ LoadIsForbidden(l)

Reader ==
  \/ LogsIn \/ Operates \/ OperationIsForbidden \/ Scrolls \/ LoadBegins \/ ShowsRecent
  \/ \E s \in Sessions : Selects(s)

Next == Server \/ Stream \/ Request \/ Reader

Spec == Init /\ [][Next]_vars

\* The browser connects again and delivers what arrives, and answers come; the
\* server notices an expired login at the next heartbeat.  Nothing is assumed of
\* the reader, of the faults or of the turns.
Fairness ==
  /\ WF_vars(StreamOpens) /\ WF_vars(StreamIsForbidden) /\ WF_vars(StreamSends)
  /\ WF_vars(StreamIsEnded) /\ WF_vars(FrameArrives) /\ WF_vars(CheckEnds)
  /\ WF_vars(TimerFires) /\ WF_vars(RefreshIsAnswered)
  /\ WF_vars(RefreshIsDropped \/ RefreshIsShown \/ RefreshIsForbidden)

FairSpec == Spec /\ Fairness

-----------------------------------------------------------------------------
(* Properties.                                                             *)

Somebody == {Nobody} \cup Sessions
Status   == {"running", "ended"}

TypeOK ==
  /\ \A s \in Sessions : /\ server[s].epoch \in Nat /\ server[s].version \in Nat
                         /\ \A i \in DOMAIN server[s].turns : server[s].turns[i] \in Status
  /\ login \in BOOLEAN /\ authed \in BOOLEAN /\ ready \in BOOLEAN /\ timer \in BOOLEAN
  /\ selected \in Somebody
  /\ source.pc \in {"none", "connecting", "open", "closed"} /\ source.sid \in Somebody
  /\ source.checking \in BOOLEAN /\ Len(source.wire) <= 1
  /\ refresh.pc \in {"idle", "asked", "answered"} /\ refresh.sid \in Somebody
  /\ refresh.fate \in {"wanted", "overtaken", "aborted"}
  /\ lastVersion \in Nat
  /\ DOMAIN timeline.entries \subseteq 1 .. MaxTurns
  /\ \A l \in loads : l.answer \in {"none", "login", "error", "page"} /\ l.before \in 0 .. MaxTurns
  /\ tracker.sid \in Somebody /\ DOMAIN tracker.seen \subseteq 1 .. MaxTurns
  /\ announced \in [Sessions -> [1 .. MaxTurns -> Nat]]
  /\ away \in [Sessions -> SUBSET (1 .. MaxTurns)]

\* The timeline says it is loading exactly while one request of its own is
\* under way: the end of a request from before a reset neither ends the loading
\* of the request that came after nor lets a second one start beside it.
OneLoad ==
  /\ timeline.loading <=> \E l \in loads : l.current
  /\ \A l, k \in loads : l.current /\ k.current => l = k

\* The first frame of a stream is shown though the answer of refresh() that is
\* shown by now may be newer: the exception that the code has.
FirstFrameArrives ==
  /\ source.wire # <<>> /\ source.wire[1].event = "snapshot"
  /\ source'.wire = <<>> /\ source'.pc = "open"
StaleFirstFrameArrives ==
  FirstFrameArrives /\ source.wire[1].snapshot.page.end < timeline.latest.end

\* A page of earlier history comes in.
ComesIn(l) == l.current /\ l.answer = "page" /\ l \notin loads'

\* However snapshots, pages, resets and reconnections come together, what is
\* shown stays one unbroken part of one history.  The exceptions are a first
\* frame that is more than a page behind, and a page that was asked for before
\* the followed timeline dropped its oldest turns and comes in after it.
TimelineStaysWhole ==
  [][Whole(timeline) =>
       \/ Whole(timeline')
       \/ StaleFirstFrameArrives
       \/ \E l \in loads : ComesIn(l) /\ l.before + 1 < Oldest(timeline)]_vars

\* Only a task that ends while the page looks is announced: not one that ended
\* before, nor on coming back from a login or from another session one that ended
\* meanwhile.  It is announced once: not again after a reconnection, a restart of
\* the server, a new login or on coming back to the session.  A turn that the page
\* showed as running is never shown as ended without a notice, unless the baseline
\* had it as ended already, or a stale first frame brought it behind a page of
\* earlier history that was asked for.
KnownToHaveEnded(i) == i \in DOMAIN tracker.seen /\ tracker.seen[i]
AnnouncedOnce ==
  [][/\ \/ StaleFirstFrameArrives
        \/ \A s \in Sessions : \A i \in 1 .. MaxTurns :
             announced'[s][i] # announced[s][i] => announced[s][i] = 0 /\ i \notin away[s]
     /\ \A i \in DOMAIN timeline.entries \cap DOMAIN timeline'.entries :
          timeline.entries[i].status = "running" /\ timeline'.entries[i].status = "ended"
            => \/ announced'[selected'][i] = 1 \/ KnownToHaveEnded(i)
               \/ \E l \in loads : ComesIn(l) /\ i <= l.before]_vars

\* What a stale first frame leaves until the next frame: the page shown last is
\* not the newest.
Behind(t) == \E i \in DOMAIN t.entries : i > t.latest.end

\* An answer from before never overwrites what has been shown since, but for the
\* first frame: a turn shown as ended is not shown as running again, and the last
\* turn shown does not move backwards.  (Going back to the recent page shows a
\* stale first frame once more.)
NothingGoesBack ==
  [][timeline'.epoch = timeline.epoch =>
       \/ FirstFrameArrives
       \/ /\ timeline'.latest.end >= timeline.latest.end
          /\ \/ Behind(timeline)
             \/ \A i \in DOMAIN timeline.entries \cap DOMAIN timeline'.entries :
                  timeline.entries[i].status = "ended" => timeline'.entries[i].status = "ended"]_vars

\* Unless the login is lost, or the browser has given up the stream, the latest
\* page of the selected session is what the page shows in the end, in whatever
\* state the reader has left it.
ShowsLatest ==
  LET page == LatestPage(Epoch(Resolved(selected)), server[Resolved(selected)].turns) IN
  \A i \in DOMAIN page.turns :
    i \in DOMAIN timeline.entries /\ timeline.entries[i] = page.turns[i]
PageConverges == <>[](authed /\ source.pc # "closed" => ShowsLatest)
=============================================================================
