------------------------------ MODULE PageProofs ------------------------------
(***************************************************************************)
(* Proofs about Page, for any sessions, page sizes and bounds.             *)
(***************************************************************************)
EXTENDS Page, TLAPS, WellFoundedInduction

\* The fields of a timeline and of a request of loadEarlier.
Timelines(t) ==
  /\ t = [epoch |-> t.epoch, entries |-> t.entries, latest |-> t.latest,
          following |-> t.following, loading |-> t.loading, failed |-> t.failed]
  /\ t.loading \in BOOLEAN
Requested(l) ==
  l = [current |-> l.current, sid |-> l.sid, epoch |-> l.epoch, before |-> l.before,
       answer |-> l.answer, page |-> l.page]

\* OneLoad, with what EXCEPT needs to be told.
LoadInv == OneLoad /\ Timelines(timeline) /\ \A l \in loads : Requested(l)

-----------------------------------------------------------------------------
(* What has been shown is true of some earlier state.  Histories only      *)
(* grow, also from one epoch to the next, so that two states of a session  *)
(* can be compared by how far they reach.                                  *)

\* The session that the page shows.
Here == Resolved(selected)

\* How far a history has come: a step for the beginning and one for the end of
\* each turn; and how far the page of a snapshot reaches.
Steps(n, ended) == IF n = 0 THEN 0 ELSE IF ended THEN 2 * n ELSE 2 * n - 1
Now(s) == Steps(Len(server[s].turns), Last(server[s].turns) = "ended")
Reach(page) == Steps(page.end, page.turns[page.end].status = "ended")

\* An end that is not to be announced: it has been, or the page did not look.
Past(s, i) == announced[s][i] > 0 \/ i \in away[s]

\* Only the last turn of a history may be running.
Histories ==
  /\ server \in [Sessions -> [epoch : Nat, version : Nat \ {0}, turns : Seq(Status)]]
  /\ \A s \in Sessions :
       /\ Turns0[s] <= Len(server[s].turns)
       /\ Len(server[s].turns) <= Turns0[s] + spent.changes
       /\ \A i \in 1 .. Len(server[s].turns) :
            i < Len(server[s].turns) \/ i <= Turns0[s] => server[s].turns[i] = "ended"
       /\ \A i \in 1 .. MaxTurns : Past(s, i) => 2 * i <= Now(s)

\* The fields of the records.
Counted ==
  /\ spent = [changes |-> spent.changes, moves |-> spent.moves, faults |-> spent.faults]
  /\ spent.changes \in 0 .. MaxChanges
Records ==
  /\ source = [pc |-> source.pc, sid |-> source.sid, checking |-> source.checking,
               last |-> source.last, wire |-> source.wire]
  /\ refresh = [pc |-> refresh.pc, sid |-> refresh.sid, fate |-> refresh.fate,
                queued |-> refresh.queued, answer |-> refresh.answer]
  /\ refresh.pc \in {"idle", "asked", "answered"}
Shapes ==
  /\ Counted /\ Records
  /\ selected \in Somebody /\ lastVersion \in Nat
  /\ announced \in [Sessions -> [1 .. MaxTurns -> Nat]]
  /\ away \in [Sessions -> SUBSET (1 .. MaxTurns)]
  /\ tracker = [sid |-> tracker.sid, seen |-> tracker.seen]
  /\ \A i \in DOMAIN tracker.seen : tracker.seen[i] \in BOOLEAN

IsTurn(turn, epoch) == turn.epoch = epoch /\ turn.status \in Status

IsPage(page) ==
  /\ page.end \in Nat
  /\ page.start = IF page.end > PageSize THEN page.end - PageSize ELSE 0
  /\ DOMAIN page.turns = page.start + 1 .. page.end
  /\ \A i \in DOMAIN page.turns :
       IsTurn(page.turns[i], page.epoch) /\ (i < page.end => page.turns[i].status = "ended")

\* A snapshot of s, taken since the page shows s.  What was announced before, or
\* not to be announced, had ended by then.
IsSnapshot(snapshot, s) ==
  /\ snapshot.sid = s /\ snapshot.version \in Nat \ {0} /\ snapshot # NoSnapshot
  /\ IsPage(snapshot.page) /\ snapshot.page.epoch # NoEpoch
  /\ Reach(snapshot.page) <= Now(s)
  /\ \A i \in 1 .. MaxTurns :
       Past(s, i) => 2 * i <= Reach(snapshot.page) \/ KnownToHaveEnded(i)

\* Nothing that t shows is from later.
UpTo(t, reach) ==
  /\ Reach(t.latest) <= reach
  /\ \A i \in DOMAIN t.entries :
       2 * i - 1 <= reach /\ (t.entries[i].status = "ended" => 2 * i <= reach)

IsTimeline(t) ==
  /\ Timelines(t) /\ IsPage(t.latest) /\ t.latest.epoch = t.epoch
  /\ t.epoch = NoEpoch => t.latest.end = 0 /\ DOMAIN t.entries = {}
  /\ DOMAIN t.entries \subseteq 1 .. MaxTurns
  /\ \A i \in DOMAIN t.entries : IsTurn(t.entries[i], t.epoch)
  /\ DOMAIN t.latest.turns \subseteq DOMAIN t.entries
  /\ \A i \in DOMAIN t.latest.turns :
       /\ t.latest.turns[i].status = "ended" => t.entries[i].status = "ended"
       /\ t.entries[i].status = "ended" => t.latest.turns[i].status = "ended" \/ Behind(t)

TimelineInv == IsTimeline(timeline) /\ UpTo(timeline, Now(Here))

\* What has ended and is unknown to the tracker is earlier than the page shown
\* last; what is shown as running has not been announced unless the tracker knows.
TrackerInv ==
  /\ tracker.sid \in {Nobody, Here}
  /\ tracker.sid = Nobody =>
       timeline.epoch = NoEpoch /\ lastVersion = 0 /\ DOMAIN tracker.seen = {}
  /\ tracker.sid = Here => \A i \in 1 .. MaxTurns :
       Past(Here, i) => KnownToHaveEnded(i) \/ i + PageSize <= timeline.latest.end
  /\ \A i \in DOMAIN timeline.entries :
       timeline.entries[i].status = "running" => announced[Here][i] = 0 \/ KnownToHaveEnded(i)

\* A delta is sent when everything shown is from before, and nothing else is
\* shown until it has come.
FrameInv(frame) ==
  /\ IsSnapshot(frame.snapshot, Here)
  /\ \/ frame.event = "delta" /\ ready /\ UpTo(timeline, Reach(frame.snapshot.page))
     \/ /\ frame.event = "snapshot"
        /\ Behind(timeline) => \A i \in DOMAIN timeline.entries : i <= frame.snapshot.page.end
StreamInv ==
  /\ source.pc \in {"connecting", "open"} => Resolved(source.sid) = Here
  /\ source.pc = "open" => source.sid = Here /\ (ready \/ source.wire # <<>>)
  /\ source.wire # <<>> =>
       source.pc = "open" /\ source.wire = <<source.wire[1]>> /\ FrameInv(source.wire[1])

\* So is an answer that is wanted.
RefreshInv ==
  refresh.pc # "idle" /\ refresh.fate = "wanted" =>
    /\ ~ready /\ Resolved(refresh.sid) = Here
    /\ refresh.pc = "answered" /\ refresh.answer # NoSnapshot =>
         IsSnapshot(refresh.answer, Here) /\ UpTo(timeline, Reach(refresh.answer.page))

\* A page of earlier history is from behind the newest turn shown.
IsEarlier(page, epoch, end) ==
  \E start \in 0 .. end :
    /\ DOMAIN page.turns = start + 1 .. end
    /\ \A i \in DOMAIN page.turns : page.turns[i].epoch = epoch /\ page.turns[i].status = "ended"
RequestInv(l) ==
  /\ l.epoch = timeline.epoch /\ l.sid = Here /\ l.before \in Nat
  /\ \E i \in DOMAIN timeline.entries : l.before < i
  /\ l.answer = "page" => IsEarlier(l.page, timeline.epoch, l.before)

AllRequests == \A l \in loads : l.current => RequestInv(l)

PageInv ==
  /\ Shapes /\ Histories /\ TimelineInv /\ TrackerInv /\ StreamInv /\ RefreshInv
  /\ LoadInv /\ AllRequests
-----------------------------------------------------------------------------
(* The least and the greatest of a set of numbers.                         *)

LEMMA Least ==
  ASSUME NEW S, S \subseteq Nat, S # {}
  PROVE  \E x \in S : \A y \in S : x <= y
<1>1. \E x \in S : \A y \in S : ~ (<<y, x>> \in OpToRel(<, Nat))
  BY NatLessThanWellFounded, WFMin
<1>2. \A x, y \in Nat : x < y => <<x, y>> \in OpToRel(<, Nat)
  BY DEF OpToRel
<1>3. PICK x \in S : \A y \in S : ~ (<<y, x>> \in OpToRel(<, Nat))
  BY <1>1
<1>4. \A y \in S : ~ (y < x)
  BY <1>2, <1>3
<1> QED
  BY <1>4

LEMMA MinIs ==
  ASSUME NEW S, S \subseteq Nat, S # {}
  PROVE  Min(S) \in S /\ \A y \in S : Min(S) <= y
  BY Least DEF Min

LEMMA MaxIs ==
  ASSUME NEW S, S \subseteq Nat, S # {}, NEW b \in Nat, \A y \in S : y <= b
  PROVE  Max(S) \in S /\ \A y \in S : y <= Max(S)
<1> DEFINE D == {n \in Nat : b - n \in S}
<1>1. D # {} /\ D \subseteq Nat
  <2>1. PICK y \in S : TRUE
    OBVIOUS
  <2>2. b - y \in D
    BY <2>1
  <2> QED BY <2>2
<1>2. PICK n \in D : \A m \in D : n <= m
  <2> HIDE DEF D
  <2> QED BY <1>1, Least
<1>3. b - n \in S /\ \A y \in S : b - n >= y
  <2>1. \A y \in S : b - y \in D
    OBVIOUS
  <2> QED BY <1>2, <2>1
<1> QED
  BY <1>3 DEF Max
-----------------------------------------------------------------------------
(* What the operators of HistoryTimeline do to "loading".                  *)

LEMMA EmptyIsNotLoading == Timelines(EmptyTimeline) /\ ~EmptyTimeline.loading
  BY DEF Timelines, EmptyTimeline

LEMMA ShownLoading ==
  ASSUME NEW t, NEW page, Timelines(t)
  PROVE  Timelines(Shown(t, page)) /\ Shown(t, page).loading = t.loading
<1> DEFINE merged == Merged(t.entries, page)
           kept   == IF t.following /\ Cardinality(DOMAIN merged) > Keep
                     THEN {i \in DOMAIN merged : i + Keep > page.end}
                     ELSE DOMAIN merged
           rest   == Restrict(merged, kept)
<1>1. Shown(t, page) = [t EXCEPT !.epoch = page.epoch, !.latest = page, !.entries = rest,
                                 !.following = @ \/ t.entries = <<>>]
  BY DEF Shown
<1> HIDE DEF rest
<1>2. Shown(t, page) = [epoch |-> page.epoch, entries |-> rest, latest |-> page,
                        following |-> t.following \/ t.entries = <<>>,
                        loading |-> t.loading, failed |-> t.failed]
  BY <1>1 DEF Timelines
<1> QED
  BY <1>2 DEF Timelines

LEMMA OutdatedIsOver ==
  ASSUME NEW S PROVE \A l \in Outdated(S) : ~l.current /\ Requested(l)
  BY DEF Outdated, AbortedLoad, Requested

LEMMA AnswerKeepsRequest ==
  ASSUME NEW l, Requested(l), NEW answer, NEW page
  PROVE  /\ Requested([l EXCEPT !.answer = answer])
         /\ [l EXCEPT !.answer = answer].current = l.current
         /\ Requested([l EXCEPT !.answer = answer, !.page = page])
         /\ [l EXCEPT !.answer = answer, !.page = page].current = l.current
<1> DEFINE m == [l EXCEPT !.answer = answer]
           n == [m EXCEPT !.page = page]
<1>1. m = [current |-> l.current, sid |-> l.sid, epoch |-> l.epoch, before |-> l.before,
           answer |-> answer, page |-> l.page]
  BY DEF Requested
<1>2. [l EXCEPT !.answer = answer, !.page = page] = n
  OBVIOUS
<1> HIDE DEF m
<1>3. n = [current |-> l.current, sid |-> l.sid, epoch |-> l.epoch, before |-> l.before,
           answer |-> answer, page |-> page]
  BY <1>1
<1> HIDE DEF n
<1>4. Requested(m) /\ m.current = l.current
  BY <1>1 DEF Requested
<1>5. Requested(n) /\ n.current = l.current
  BY <1>3 DEF Requested
<1> QED
  BY <1>2, <1>4, <1>5 DEF m

\* A reset of the timeline, to whatever is not loading.
LEMMA ResetKeepsLoadInv ==
  ASSUME Timelines(timeline'), ~timeline'.loading, loads' = Outdated(loads)
  PROVE  LoadInv'
  BY OutdatedIsOver DEF LoadInv, OneLoad

LEMMA RenderKeepsLoadInv ==
  ASSUME LoadInv, NEW snapshot, NEW last, Render(snapshot, last)
  PROVE  LoadInv'
<1>1. CASE snapshot.version = last
  BY <1>1 DEF Render, LoadInv, OneLoad
<1>2. CASE snapshot.version # last /\ MustReset(timeline, snapshot.page)
  <2>1. timeline' = Shown(EmptyTimeline, snapshot.page) /\ loads' = Outdated(loads)
    BY <1>2 DEF Render, Updated
  <2> QED
    BY <2>1, EmptyIsNotLoading, ShownLoading, ResetKeepsLoadInv
<1>3. CASE snapshot.version # last /\ ~MustReset(timeline, snapshot.page)
  <2>1. timeline' = Shown(timeline, snapshot.page) /\ loads' = loads
    BY <1>3 DEF Render, Updated
  <2>2. Timelines(timeline') /\ timeline'.loading = timeline.loading
    BY <2>1, ShownLoading DEF LoadInv
  <2> QED
    BY <2>1, <2>2 DEF LoadInv, OneLoad
<1> QED
  BY <1>1, <1>2, <1>3

LEMMA AuthenticationKeepsLoadInv == ShowAuthentication => LoadInv'
  BY EmptyIsNotLoading, ResetKeepsLoadInv DEF ShowAuthentication

-----------------------------------------------------------------------------
(* The steps.                                                              *)

LEMMA InitLoadInv == Init => LoadInv
  BY EmptyIsNotLoading DEF Init, LoadInv, OneLoad

LEMMA StepKeepsLoadInv == LoadInv /\ [Next]_vars => LoadInv'
<1> SUFFICES ASSUME LoadInv, [Next]_vars PROVE LoadInv'
  OBVIOUS
<1> USE DEF shownVars
<1>s. ASSUME UNCHANGED <<timeline, loads>> PROVE LoadInv'
  BY <1>s DEF LoadInv, OneLoad
<1>1. CASE Server
  BY <1>1, <1>s DEF Server, Restarts, Expires, TurnBegins, TurnEnds, TurnPasses, Resyncs, Changes
<1>2. CASE Stream
  <2>1. CASE FrameArrives
    BY <2>1, RenderKeepsLoadInv DEF FrameArrives
  <2>2. CASE CheckEnds
    BY <2>2, <1>s, AuthenticationKeepsLoadInv DEF CheckEnds, ShowAuthenticationAndAbort
  <2>3. CASE StreamOpens \/ StreamIsForbidden \/ StreamIsRefused \/ StreamSends \/ StreamIsEnded \/ StreamBreaks
    BY <2>3, <1>s
    DEF StreamOpens, StreamIsForbidden, StreamIsRefused, StreamSends, StreamIsEnded, StreamBreaks, Closes, Breaks
  <2> QED
    BY <1>2, <2>1, <2>2, <2>3 DEF Stream
<1>3. CASE Request
  <2>1. CASE TimerFires \/ RefreshIsAnswered \/ RefreshFails \/ RefreshIsDropped
    BY <2>1, <1>s DEF TimerFires, RefreshIsAnswered, RefreshFails, RefreshIsDropped
  <2>2. CASE RefreshIsShown
    BY <2>2, RenderKeepsLoadInv DEF RefreshIsShown
  <2>3. CASE RefreshIsForbidden
    BY <2>3, AuthenticationKeepsLoadInv DEF RefreshIsForbidden
  <2>4. ASSUME NEW l \in loads, LoadIsAnswered(l) PROVE LoadInv'
    <3>1. PICK m : Requested(m) /\ m.current /\ loads' = (loads \ {l}) \cup {m}
      <4> DEFINE page == PageBefore(l.epoch, server[l.sid].turns, l.before)
                 m == IF ~login THEN [l EXCEPT !.answer = "login"]
                      ELSE IF l.epoch # Epoch(l.sid) THEN [l EXCEPT !.answer = "error"]
                      ELSE [l EXCEPT !.answer = "page", !.page = page]
      <4>1. loads' = (loads \ {l}) \cup {m} /\ l.current
        BY <2>4 DEF LoadIsAnswered
      <4> HIDE DEF page
      <4>2. Requested(l)
        BY DEF LoadInv
      <4>3. Requested(m) /\ m.current = l.current
        BY <4>2, AnswerKeepsRequest
      <4> QED
        BY <4>1, <4>3
    <3>2. l.current /\ timeline' = timeline
      BY <2>4 DEF LoadIsAnswered
    <3> QED
      BY <3>1, <3>2 DEF LoadInv, OneLoad
  <2>5. ASSUME NEW l \in loads, LoadEnds(l) PROVE LoadInv'
    <3>1. loads' = loads \ {l}
      BY <2>5 DEF LoadEnds
    <3>2. CASE ~l.current
      BY <2>5, <3>1, <3>2 DEF LoadEnds, LoadInv, OneLoad
    <3>3. CASE l.current
      <4>1. timeline' = LoadFailed(timeline) \/ timeline' = Loaded(timeline, l.page)
        BY <2>5, <3>3 DEF LoadEnds
      <4>2. Timelines(timeline') /\ ~timeline'.loading
        BY <4>1 DEF LoadInv, Timelines, LoadFailed, Loaded
      <4> QED
        BY <3>1, <3>3, <4>2 DEF LoadInv, OneLoad
    <3> QED
      BY <3>2, <3>3
  <2>6. ASSUME NEW l \in loads, LoadIsForbidden(l) PROVE LoadInv'
    BY <2>6, AuthenticationKeepsLoadInv DEF LoadIsForbidden, ShowAuthenticationAndAbort
  <2> QED
    BY <1>3, <2>1, <2>2, <2>3, <2>4, <2>5, <2>6 DEF Request
<1>4. CASE Reader
  <2>1. CASE LogsIn \/ Operates
    BY <2>1, <1>s DEF LogsIn, Operates
  <2>2. CASE OperationIsForbidden
    BY <2>2, AuthenticationKeepsLoadInv DEF OperationIsForbidden, ShowAuthenticationAndAbort
  <2>3. CASE Scrolls
    <3>1. timeline'.loading = timeline.loading /\ Timelines(timeline') /\ loads' = loads
      BY <2>3 DEF Scrolls, LoadInv, Timelines
    <3> QED
      BY <3>1 DEF LoadInv, OneLoad
  <2>4. CASE LoadBegins
    <3>1. PICK l : Requested(l) /\ l.current /\ loads' = loads \cup {l}
      BY <2>4 DEF LoadBegins, Requested
    <3>2. ~timeline.loading /\ Timelines(timeline') /\ timeline'.loading
      BY <2>4 DEF LoadBegins, Loading, LoadInv, Timelines
    <3> QED
      BY <3>1, <3>2 DEF LoadInv, OneLoad
  <2>5. CASE ShowsRecent
    BY <2>5, EmptyIsNotLoading, ShownLoading, ResetKeepsLoadInv DEF ShowsRecent, Recent
  <2>6. ASSUME NEW s \in Sessions, Selects(s) PROVE LoadInv'
    BY <2>6, EmptyIsNotLoading, ResetKeepsLoadInv DEF Selects
  <2> QED
    BY <1>4, <2>1, <2>2, <2>3, <2>4, <2>5, <2>6 DEF Reader
<1>5. CASE UNCHANGED vars
  BY <1>5, <1>s DEF vars
<1> QED
  BY <1>1, <1>2, <1>3, <1>4, <1>5 DEF Next

\* The timeline says it is loading exactly while one request of its own
\* generation is under way (loadEarlier and reset in web/history.js).
THEOREM SingleLoad == Spec => []OneLoad
<1>1. LoadInv => OneLoad
  BY DEF LoadInv
<1> QED
  BY <1>1, InitLoadInv, StepKeepsLoadInv, PTL DEF Spec
-----------------------------------------------------------------------------
(* What the operators of HistoryTimeline keep.                             *)

LEMMA PageReach ==
  ASSUME NEW page, IsPage(page)
  PROVE  /\ Reach(page) \in Nat
         /\ Reach(page) <= 2 * page.end /\ 2 * page.end <= Reach(page) + 1
         /\ \A i \in DOMAIN page.turns :
              /\ i \in Nat \ {0} /\ i <= page.end
              /\ page.turns[i].status = "ended" <=> 2 * i <= Reach(page)
              /\ 2 * i - 1 <= Reach(page)
              /\ page.turns[i].status \in Status
<1>0. PageSize \in Nat \ {0}
  BY PagesAssumption
<1>1. page.end \in Nat /\ page.start \in Nat /\ page.start <= page.end
      /\ (page.end > 0 => page.start < page.end)
  BY <1>0 DEF IsPage
<1>2. DOMAIN page.turns = page.start + 1 .. page.end
  BY DEF IsPage
<1>3. page.end > 0 => page.end \in DOMAIN page.turns
  BY <1>1, <1>2
<1>4. \A i \in DOMAIN page.turns :
        page.turns[i].status \in Status /\ (i < page.end => page.turns[i].status = "ended")
  BY DEF IsPage, IsTurn
<1>5. Reach(page) = IF page.end = 0 THEN 0
                    ELSE IF page.turns[page.end].status = "ended" THEN 2 * page.end ELSE 2 * page.end - 1
  BY DEF Reach, Steps
<1>6. Reach(page) \in Nat /\ Reach(page) <= 2 * page.end /\ 2 * page.end <= Reach(page) + 1
  BY <1>1, <1>5
<1>7. ASSUME NEW i \in DOMAIN page.turns
      PROVE  /\ i \in Nat \ {0} /\ i <= page.end
             /\ page.turns[i].status = "ended" <=> 2 * i <= Reach(page)
             /\ 2 * i - 1 <= Reach(page)
             /\ page.turns[i].status \in Status
  <2>1. i \in Nat \ {0} /\ i <= page.end
    BY <1>1, <1>2, <1>7
  <2>2. CASE i < page.end
    BY <1>1, <1>4, <1>5, <2>1, <2>2
  <2>3. CASE i = page.end
    BY <1>1, <1>4, <1>5, <2>1, <2>3
  <2> QED BY <1>1, <2>1, <2>2, <2>3
<1> QED
  BY <1>6, <1>7

LEMMA EmptyIsTimeline ==
  /\ IsTimeline(EmptyTimeline)
  /\ EmptyTimeline.epoch = NoEpoch /\ EmptyTimeline.latest.end = 0
  /\ DOMAIN EmptyTimeline.entries = {}
  /\ \A reach \in Nat : UpTo(EmptyTimeline, reach)
<1> USE PagesAssumption
<1>1. EmptyTimeline.epoch = NoEpoch /\ EmptyTimeline.latest = NoPage /\ EmptyTimeline.entries = <<>>
  BY DEF EmptyTimeline
<1>2. DOMAIN EmptyTimeline.entries = {}
  BY <1>1
<1>3. NoPage.end = 0 /\ NoPage.start = 0 /\ DOMAIN NoPage.turns = {} /\ NoPage.epoch = NoEpoch
  BY DEF NoPage
<1>4. IsPage(NoPage)
  BY <1>3 DEF IsPage
<1>5. IsTimeline(EmptyTimeline)
  BY <1>1, <1>2, <1>3, <1>4, EmptyIsNotLoading DEF IsTimeline
<1>6. \A reach \in Nat : UpTo(EmptyTimeline, reach)
  BY <1>1, <1>2, <1>3 DEF UpTo, Reach, Steps
<1> QED
  BY <1>1, <1>2, <1>3, <1>5, <1>6

\* The newest turn shown.
LEMMA NewestIs ==
  ASSUME NEW t, DOMAIN t.entries \subseteq 1 .. MaxTurns
  PROVE  /\ Newest(t) \in Nat
         /\ \A i \in DOMAIN t.entries : i <= Newest(t)
         /\ Newest(t) = 0 \/ Newest(t) \in DOMAIN t.entries
<1> DEFINE S == {0} \cup DOMAIN t.entries
<1>1. S \subseteq Nat /\ S # {} /\ MaxTurns \in Nat /\ \A y \in S : y <= MaxTurns
  BY ConstantsAssumption
<1>2. Newest(t) = Max(S)
  BY DEF Newest
<1> HIDE DEF S
<1>3. Newest(t) \in S /\ \A y \in S : y <= Newest(t)
  BY <1>1, <1>2, MaxIs
<1> QED
  BY <1>1, <1>3 DEF S

LEMMA OldestIs ==
  ASSUME NEW t, DOMAIN t.entries \subseteq 1 .. MaxTurns, DOMAIN t.entries # {}
  PROVE  Oldest(t) \in DOMAIN t.entries /\ \A i \in DOMAIN t.entries : Oldest(t) <= i
<1>1. DOMAIN t.entries \subseteq Nat
  BY ConstantsAssumption
<1> QED
  BY <1>1, MinIs DEF Oldest

\* A page is shown: all of it, and of the rest what is not too old.
LEMMA ShownEntries ==
  ASSUME NEW t, NEW page, Timelines(t), IsPage(page), DOMAIN t.entries \subseteq Nat
  PROVE  LET u == Shown(t, page) IN
         /\ Timelines(u) /\ u.latest = page /\ u.epoch = page.epoch
         /\ DOMAIN page.turns \subseteq DOMAIN u.entries
         /\ DOMAIN u.entries \subseteq DOMAIN t.entries \cup DOMAIN page.turns
         /\ \A i \in DOMAIN u.entries :
              u.entries[i] = IF i \in DOMAIN page.turns THEN page.turns[i] ELSE t.entries[i]
         /\ \/ \A i \in DOMAIN t.entries : i \in DOMAIN u.entries
            \/ DOMAIN u.entries = {i \in DOMAIN t.entries \cup DOMAIN page.turns : i + Keep > page.end}
<1> DEFINE merged == Merged(t.entries, page)
           long   == t.following /\ Cardinality(DOMAIN merged) > Keep
           kept   == IF long THEN {i \in DOMAIN merged : i + Keep > page.end} ELSE DOMAIN merged
           rest   == Restrict(merged, kept)
           u      == Shown(t, page)
<1>1. u = [t EXCEPT !.epoch = page.epoch, !.latest = page, !.entries = rest,
                    !.following = @ \/ t.entries = <<>>]
  BY DEF Shown
<1>2. DOMAIN merged = DOMAIN t.entries \cup DOMAIN page.turns
      /\ \A i \in DOMAIN merged : merged[i] = IF i \in DOMAIN page.turns THEN page.turns[i] ELSE t.entries[i]
  BY DEF Merged
<1>3. DOMAIN rest = kept /\ \A i \in kept : rest[i] = merged[i]
  BY DEF Restrict
<1> HIDE DEF merged, rest, long
<1>4. u.epoch = page.epoch /\ u.latest = page /\ u.entries = rest
  BY <1>1 DEF Timelines
<1>5. Timelines(u)
  BY ShownLoading
<1>6. DOMAIN page.turns \subseteq kept
  <2>1. SUFFICES ASSUME NEW i \in DOMAIN page.turns PROVE i + Keep > page.end
    BY <1>2
  <2>2. page.end \in Nat /\ i \in page.start + 1 .. page.end
        /\ page.start = IF page.end > PageSize THEN page.end - PageSize ELSE 0
    BY DEF IsPage
  <2> QED BY <2>2, PagesAssumption
<1>7. \/ \A i \in DOMAIN t.entries : i \in kept
      \/ kept = {i \in DOMAIN t.entries \cup DOMAIN page.turns : i + Keep > page.end}
  BY <1>2
<1>8. kept \subseteq DOMAIN merged
  OBVIOUS
<1> HIDE DEF kept
<1> QED
  BY <1>2, <1>3, <1>4, <1>5, <1>6, <1>7, <1>8

\* A page comes in, with a reset or without.
LEMMA UpdatedIs ==
  ASSUME NEW t, NEW page, IsTimeline(t), IsPage(page), page.epoch # NoEpoch, page.end <= MaxTurns
  PROVE  LET u == Updated(t, page) IN
         /\ IsTimeline(u) /\ u.latest = page /\ u.epoch = page.epoch
         /\ \A i \in DOMAIN u.entries :
              IF i \in DOMAIN page.turns THEN u.entries[i] = page.turns[i]
              ELSE t.epoch = page.epoch /\ i \in DOMAIN t.entries /\ u.entries[i] = t.entries[i]
<1> DEFINE base == IF MustReset(t, page) THEN EmptyTimeline ELSE t
           u    == Shown(base, page)
<1>1. IsTimeline(base)
  BY EmptyIsTimeline
<1>2. MustReset(t, page) => DOMAIN base.entries = {}
  BY EmptyIsTimeline
<1>3. ~MustReset(t, page) => base = t /\ t.epoch = page.epoch
  BY DEF MustReset
<1>4. Updated(t, page) = u
  BY DEF Updated
<1> HIDE DEF base
<1>5. Timelines(base) /\ DOMAIN base.entries \subseteq 1 .. MaxTurns /\ DOMAIN base.entries \subseteq Nat
      /\ \A i \in DOMAIN base.entries : IsTurn(base.entries[i], base.epoch)
  BY <1>1, ConstantsAssumption DEF IsTimeline
<1>6. /\ Timelines(u) /\ u.latest = page /\ u.epoch = page.epoch
      /\ DOMAIN page.turns \subseteq DOMAIN u.entries
      /\ DOMAIN u.entries \subseteq DOMAIN base.entries \cup DOMAIN page.turns
      /\ \A i \in DOMAIN u.entries :
           u.entries[i] = IF i \in DOMAIN page.turns THEN page.turns[i] ELSE base.entries[i]
  BY <1>5, ShownEntries
<1> HIDE DEF u
<1>7. \A i \in DOMAIN u.entries :
        IF i \in DOMAIN page.turns THEN u.entries[i] = page.turns[i]
        ELSE t.epoch = page.epoch /\ i \in DOMAIN t.entries /\ u.entries[i] = t.entries[i]
  BY <1>2, <1>3, <1>6
<1>8. DOMAIN page.turns \subseteq 1 .. MaxTurns
  <2>1. page.end \in Nat /\ MaxTurns \in Nat
    BY ConstantsAssumption DEF IsPage
  <2> QED BY <2>1, PageReach
<1>9. DOMAIN u.entries \subseteq 1 .. MaxTurns
  BY <1>5, <1>6, <1>8
<1>10. \A i \in DOMAIN u.entries : IsTurn(u.entries[i], u.epoch)
  <2>1. ASSUME NEW i \in DOMAIN u.entries PROVE IsTurn(u.entries[i], page.epoch)
    <3>1. CASE i \in DOMAIN page.turns
      BY <1>7, <3>1 DEF IsPage
    <3>2. CASE i \notin DOMAIN page.turns
      BY <1>7, <3>2 DEF IsTimeline
    <3> QED BY <3>1, <3>2
  <2> QED BY <1>6, <2>1
<1>11. \A i \in DOMAIN page.turns : u.entries[i] = page.turns[i]
  BY <1>6
<1>12. IsTimeline(u)
  BY <1>6, <1>9, <1>10, <1>11 DEF IsTimeline
<1> QED
  BY <1>4, <1>6, <1>7, <1>12

LEMMA UpdatedUpTo ==
  ASSUME NEW t, NEW page, IsTimeline(t), IsPage(page), page.epoch # NoEpoch, page.end <= MaxTurns,
         NEW reach \in Nat, UpTo(t, reach), Reach(page) <= reach
  PROVE  UpTo(Updated(t, page), reach)
<1> DEFINE u == Updated(t, page)
<1>1. /\ u.latest = page
      /\ \A i \in DOMAIN u.entries :
           IF i \in DOMAIN page.turns THEN u.entries[i] = page.turns[i]
           ELSE i \in DOMAIN t.entries /\ u.entries[i] = t.entries[i]
  BY UpdatedIs
<1> HIDE DEF u
<1>2. ASSUME NEW i \in DOMAIN u.entries
      PROVE  2 * i - 1 <= reach /\ (u.entries[i].status = "ended" => 2 * i <= reach)
  <2>1. CASE i \in DOMAIN page.turns
    BY <1>1, <2>1, PageReach
  <2>2. CASE i \notin DOMAIN page.turns
    BY <1>1, <2>2 DEF UpTo
  <2> QED BY <2>1, <2>2
<1> QED
  BY <1>1, <1>2 DEF UpTo, u
-----------------------------------------------------------------------------
(* Histories and the snapshots of them.                                    *)

LEMMA HereIs == Shapes => Here \in Sessions
  BY ConstantsAssumption DEF Shapes, Somebody, Here, Resolved

LEMMA NowIs ==
  ASSUME Shapes, Histories, NEW s \in Sessions
  PROVE  /\ Now(s) \in Nat /\ Now(s) <= 2 * Len(server[s].turns)
         /\ 2 * Len(server[s].turns) <= Now(s) + 1
         /\ Len(server[s].turns) \in Nat /\ Len(server[s].turns) <= MaxTurns
         /\ 2 * Turns0[s] <= Now(s)
         /\ \A i \in 1 .. Len(server[s].turns) :
              server[s].turns[i] \in Status /\ (server[s].turns[i] = "ended" <=> 2 * i <= Now(s))
<1> DEFINE h == server[s].turns
<1>1. h \in Seq(Status)
  BY DEF Histories
<1>2. Len(h) \in Nat /\ \A i \in 1 .. Len(h) : h[i] \in Status
  BY <1>1
<1>3. Turns0[s] \in Nat /\ Turns0[s] <= Len(h) /\ Len(h) <= MaxTurns
  BY <1>2, ConstantsAssumption DEF Histories, Shapes, Counted
<1>4. \A i \in 1 .. Len(h) : i < Len(h) \/ i <= Turns0[s] => h[i] = "ended"
  BY DEF Histories
<1>5. Now(s) = IF Len(h) = 0 THEN 0 ELSE IF h[Len(h)] = "ended" THEN 2 * Len(h) ELSE 2 * Len(h) - 1
  BY DEF Now, Steps, Last
<1> HIDE DEF h
<1>6. Now(s) \in Nat /\ Now(s) <= 2 * Len(h) /\ 2 * Len(h) <= Now(s) + 1
  BY <1>2, <1>5
<1>7. 2 * Turns0[s] <= Now(s)
  BY <1>2, <1>3, <1>4, <1>5
<1>8. \A i \in 1 .. Len(h) : h[i] = "ended" <=> 2 * i <= Now(s)
  BY <1>2, <1>4, <1>5
<1> QED
  BY <1>2, <1>3, <1>6, <1>7, <1>8 DEF h

\* The page up to a turn of the history.
IsPageOf(page, epoch, h, n) ==
  /\ IsPage(page) /\ page.end = n /\ page.epoch = epoch /\ page.start \in 0 .. n
  /\ \A i \in DOMAIN page.turns : page.turns[i].status = h[i]
  /\ n < Len(h) => \A i \in DOMAIN page.turns : page.turns[i].status = "ended"

LEMMA PageBeforeIs ==
  ASSUME Shapes, Histories, NEW s \in Sessions, NEW h, h = server[s].turns,
         NEW n \in Nat, n <= Len(h), NEW epoch
  PROVE  IsPageOf(PageBefore(epoch, h, n), epoch, h, n)
<1> DEFINE start == IF n > PageSize THEN n - PageSize ELSE 0
           turns == [i \in start + 1 .. n |-> [epoch |-> epoch, status |-> h[i]]]
           page  == PageBefore(epoch, h, n)
<1>1. page = [epoch |-> epoch, start |-> start, end |-> n, turns |-> turns]
  BY DEF PageBefore
<1>2. n \in Nat /\ PageSize \in Nat \ {0} /\ start \in 0 .. n /\ Len(h) \in Nat /\ n <= Len(h)
  BY NowIs, PagesAssumption
<1>3. DOMAIN turns = start + 1 .. n
      /\ \A i \in DOMAIN turns : turns[i] = [epoch |-> epoch, status |-> h[i]]
  OBVIOUS
<1>4. \A i \in DOMAIN turns : i \in 1 .. Len(h) /\ i <= n
  BY <1>2, <1>3
<1>5. \A i \in 1 .. Len(h) : h[i] \in Status /\ (i < Len(h) => h[i] = "ended")
  BY NowIs DEF Histories
<1> HIDE DEF turns
<1>6. page.epoch = epoch /\ page.start = start /\ page.end = n /\ page.turns = turns
  BY <1>1
<1> HIDE DEF page
<1>7. IsPage(page)
  <2>1. page.end \in Nat /\ page.start = start /\ DOMAIN page.turns = page.start + 1 .. page.end
    BY <1>2, <1>3, <1>6
  <2>2. ASSUME NEW i \in DOMAIN page.turns
        PROVE  IsTurn(page.turns[i], page.epoch) /\ (i < page.end => page.turns[i].status = "ended")
    <3>1. i \in DOMAIN turns /\ i \in 1 .. Len(h) /\ page.turns[i] = [epoch |-> epoch, status |-> h[i]]
      BY <1>3, <1>4, <1>6
    <3>2. page.turns[i].epoch = epoch /\ page.turns[i].status = h[i] /\ h[i] \in Status
      BY <1>5, <3>1
    <3>3. i < n => h[i] = "ended"
      BY <1>2, <1>5, <3>1
    <3> QED BY <1>6, <3>2, <3>3 DEF IsTurn
  <2> QED BY <1>6, <2>1, <2>2 DEF IsPage
<1>8. \A i \in DOMAIN turns : n < Len(h) => h[i] = "ended"
  BY <1>2, <1>4, <1>5
<1>9. page.start \in 0 .. n /\ \A i \in DOMAIN page.turns : page.turns[i].status = h[i]
  <2>1. page.start \in 0 .. n
    BY <1>2, <1>6
  <2>2. ASSUME NEW i \in DOMAIN page.turns PROVE page.turns[i].status = h[i]
    <3>1. page.turns[i] = [epoch |-> epoch, status |-> h[i]]
      BY <1>3, <1>6
    <3> QED BY <3>1
  <2> QED BY <2>1, <2>2
<1>10. n < Len(h) => \A i \in DOMAIN page.turns : page.turns[i].status = "ended"
  BY <1>6, <1>8, <1>9
<1> QED
  BY <1>6, <1>7, <1>9, <1>10 DEF IsPageOf, page

LEMMA SnapshotIs ==
  ASSUME Shapes, Histories, NEW s \in Sessions
  PROVE  IsSnapshot(Snapshot(s), s) /\ Reach(Snapshot(s).page) = Now(s)
<1> DEFINE h == server[s].turns
           page == LatestPage(Epoch(s), h)
<1>1. Snapshot(s).sid = s /\ Snapshot(s).version = server[s].version /\ Snapshot(s).page = page
  BY DEF Snapshot
<1>2. Len(h) \in Nat /\ Len(h) <= Len(h)
  BY NowIs
<1>3. /\ IsPage(page) /\ page.end = Len(h) /\ page.epoch = Epoch(s)
      /\ \A i \in DOMAIN page.turns : page.turns[i].status = h[i]
  <2>1. page = PageBefore(Epoch(s), h, Len(h))
    BY DEF LatestPage
  <2>2. IsPageOf(page, Epoch(s), h, Len(h))
    BY <1>2, <2>1, PageBeforeIs
  <2> HIDE DEF page, h
  <2> QED BY <2>2 DEF IsPageOf
<1>4. Epoch(s) # NoEpoch
  BY DEF Epoch, NoEpoch
<1>5. server[s].version \in Nat \ {0}
  BY DEF Histories
<1>6. Snapshot(s) # NoSnapshot
  BY <1>1, <1>5 DEF NoSnapshot
<1> HIDE DEF page
<1>7. Len(h) # 0 => Len(h) \in DOMAIN page.turns
  BY <1>2, <1>3, PagesAssumption DEF IsPage
<1>8. Reach(page) = Now(s)
  BY <1>3, <1>7 DEF Reach, Now, Steps, Last
<1>9. \A i \in 1 .. MaxTurns : Past(s, i) => 2 * i <= Now(s)
  BY DEF Histories
<1>10. Now(s) \in Nat
  BY NowIs
<1> QED
  BY <1>1, <1>3, <1>4, <1>5, <1>6, <1>8, <1>9, <1>10 DEF IsSnapshot

LEMMA SnapshotEnd ==
  ASSUME Shapes, Histories, NEW s \in Sessions, NEW snapshot, IsSnapshot(snapshot, s)
  PROVE  snapshot.page.end \in Nat /\ snapshot.page.end <= MaxTurns /\ Reach(snapshot.page) \in Nat
<1>1. IsPage(snapshot.page) /\ Reach(snapshot.page) <= Now(s)
  BY DEF IsSnapshot
<1>2. Reach(snapshot.page) \in Nat /\ 2 * snapshot.page.end <= Reach(snapshot.page) + 1 /\ snapshot.page.end \in Nat
  BY <1>1, PageReach DEF IsPage
<1>3. Now(s) \in Nat /\ Now(s) <= 2 * Len(server[s].turns) /\ Len(server[s].turns) \in Nat /\ Len(server[s].turns) <= MaxTurns
  BY NowIs
<1>4. MaxTurns \in Nat
  BY ConstantsAssumption
<1> QED
  BY <1>1, <1>2, <1>3, <1>4

\* Histories only grow.
Grows == Histories' /\ \A s \in Sessions : Now(s) <= Now(s)'

LEMMA GrowsAlone ==
  ASSUME Shapes, Histories, UNCHANGED <<server, announced, away>>, spent'.changes \in Nat, spent.changes <= spent'.changes
  PROVE  Grows
<1>1. \A s \in Sessions : Now(s)' = Now(s) /\ Now(s) \in Nat
  BY NowIs DEF Now
<1>2. Histories'
  <2>1. \A s \in Sessions : Len(server[s].turns) \in Nat /\ Turns0[s] \in Nat
    BY NowIs, ConstantsAssumption
  <2>2. spent.changes \in Nat
    BY ConstantsAssumption DEF Shapes, Counted
  <2> QED BY <1>1, <2>1, <2>2 DEF Histories, Past
<1> QED
  BY <1>1, <1>2 DEF Grows

\* A new history or a new epoch of one session.
LEMMA GrowsByOne ==
  ASSUME Shapes, Histories, NEW s \in Sessions, NEW new,
         new \in [epoch : Nat, version : Nat \ {0}, turns : Seq(Status)],
         server' = [server EXCEPT ![s] = new], announced' = announced,
         \A q \in Sessions : \A i \in away'[q] :
           i \in away[q] \/ (q = s /\ i = Len(new.turns) /\ Last(new.turns) = "ended"),
         spent'.changes \in Nat, spent'.changes = spent.changes + 1,
         Len(new.turns) \in Len(server[s].turns) .. Len(server[s].turns) + 1,
         \A i \in 1 .. Len(new.turns) :
           i < Len(new.turns) \/ i <= Turns0[s] => new.turns[i] = "ended",
         Len(new.turns) = Len(server[s].turns) /\ Len(new.turns) > 0 =>
           (Last(server[s].turns) = "ended" => Last(new.turns) = "ended")
  PROVE  Grows
<1> DEFINE old == server[s].turns
<1>0. /\ Len(old) \in Nat /\ Len(new.turns) \in Nat /\ new.turns \in Seq(Status)
      /\ Turns0[s] \in Nat /\ spent.changes \in Nat
  <2>1. Len(old) \in Nat
    BY NowIs
  <2>2. new.turns \in Seq(Status)
    OBVIOUS
  <2> QED BY <2>1, <2>2, ConstantsAssumption DEF Shapes, Counted
<1>1. server'[s] = new /\ \A r \in Sessions \ {s} : server'[r] = server[r]
  BY DEF Histories
<1>2. Now(s)' = Steps(Len(new.turns), Last(new.turns) = "ended")
  BY <1>1 DEF Now
<1>3. Now(s) = Steps(Len(old), Last(old) = "ended")
  BY DEF Now
<1>4. Now(s) <= Now(s)' /\ Now(s)' \in Nat /\ Now(s) \in Nat
  BY <1>0, <1>2, <1>3 DEF Steps
<1>5. \A r \in Sessions \ {s} : Now(r)' = Now(r) /\ Now(r) \in Nat
  BY <1>1, NowIs DEF Now
<1>6. server' \in [Sessions -> [epoch : Nat, version : Nat \ {0}, turns : Seq(Status)]]
  BY DEF Histories
<1>7. ASSUME NEW r \in Sessions
      PROVE  /\ Turns0[r] <= Len(server'[r].turns)
             /\ Len(server'[r].turns) <= Turns0[r] + spent'.changes
             /\ \A i \in 1 .. Len(server'[r].turns) :
                  i < Len(server'[r].turns) \/ i <= Turns0[r] => server'[r].turns[i] = "ended"
             /\ \A i \in 1 .. MaxTurns : Past(r, i)' => 2 * i <= Now(r)'
  <2>0. Len(server[r].turns) \in Nat /\ Turns0[r] \in Nat /\ MaxTurns \in Nat
    BY NowIs, ConstantsAssumption
  <2>1. /\ Turns0[r] <= Len(server[r].turns) /\ Len(server[r].turns) <= Turns0[r] + spent.changes
        /\ \A i \in 1 .. Len(server[r].turns) :
             i < Len(server[r].turns) \/ i <= Turns0[r] => server[r].turns[i] = "ended"
        /\ \A i \in 1 .. MaxTurns : Past(r, i) => 2 * i <= Now(r)
    BY DEF Histories
  <2>2. ASSUME NEW i \in 1 .. MaxTurns, Past(r, i)' PROVE 2 * i <= Now(r)'
    <3>1. CASE Past(r, i)
      BY <1>4, <1>5, <2>0, <2>1, <3>1
    <3>2. CASE r = s /\ i = Len(new.turns) /\ Last(new.turns) = "ended"
      BY <1>0, <1>2, <3>2 DEF Steps
    <3> QED
      BY <2>2, <3>1, <3>2 DEF Past
  <2>3. CASE r = s
    BY <1>0, <1>1, <2>0, <2>1, <2>2, <2>3
  <2>4. CASE r # s
    BY <1>0, <1>1, <2>0, <2>1, <2>2, <2>4
  <2> QED BY <2>3, <2>4
<1>8. Histories'
  BY <1>6, <1>7 DEF Histories
<1>9. \A r \in Sessions : Now(r) <= Now(r)'
  <2>1. ASSUME NEW r \in Sessions PROVE Now(r) <= Now(r)'
    <3>1. CASE r = s
      BY <1>4, <3>1
    <3>2. CASE r # s
      BY <1>5, <3>2
    <3> QED BY <3>1, <3>2
  <2> QED BY <2>1
<1> QED
  BY <1>8, <1>9 DEF Grows
-----------------------------------------------------------------------------
(* Steps that show nothing: of the server, of the stream and of requests.  *)

LEMMA Spending ==
  ASSUME Counted
  PROVE  /\ Spend("moves") => Counted' /\ spent'.changes = spent.changes
         /\ Spend("faults") => Counted' /\ spent'.changes = spent.changes
         /\ Spend("changes") => Counted' /\ spent'.changes = spent.changes + 1
<1>0. MaxChanges \in Nat
  BY ConstantsAssumption
<1>1. ASSUME Spend("moves") PROVE Counted' /\ spent'.changes = spent.changes
  BY <1>1 DEF Spend, Counted
<1>2. ASSUME Spend("faults") PROVE Counted' /\ spent'.changes = spent.changes
  BY <1>2 DEF Spend, Counted
<1>3. ASSUME Spend("changes") PROVE Counted' /\ spent'.changes = spent.changes + 1
  <2>1. spent.changes < MaxChanges
    BY <1>3 DEF Spend, Bounds
  <2>2. spent' = [spent EXCEPT !["changes"] = @ + 1]
    BY <1>3 DEF Spend
  <2>3. spent' = [changes |-> spent.changes + 1, moves |-> spent.moves, faults |-> spent.faults]
    BY <2>2 DEF Counted
  <2> QED BY <1>0, <2>1, <2>3 DEF Counted
<1> QED
  BY <1>1, <1>2, <1>3

LEMMA SpentGrows ==
  ASSUME Shapes, Histories, UNCHANGED <<server, announced, away>>,
         UNCHANGED spent \/ Spend("moves") \/ Spend("faults")
  PROVE  Counted' /\ Grows
<1>1. Counted /\ spent.changes \in Nat
  BY ConstantsAssumption DEF Shapes, Counted
<1>2. Counted' /\ spent'.changes = spent.changes
  BY <1>1, Spending DEF Counted
<1> QED
  BY <1>1, <1>2, GrowsAlone

\* The page does not look: nothing that is shown or on its way could announce.
Blind ==
  tracker.sid = Nobody /\ source.wire = <<>> /\ (refresh.pc = "idle" \/ refresh.fate # "wanted")

Quiet ==
  /\ UNCHANGED <<selected, lastVersion, timeline, loads, tracker, announced>>
  /\ away' \in [Sessions -> SUBSET (1 .. MaxTurns)]
  /\ away'[Here] = away[Here] \/ Blind

Unmoved == UNCHANGED <<selected, lastVersion, timeline, loads, tracker, announced, away>>

LEMMA UnmovedIsQuiet == PageInv /\ Unmoved => Quiet
  BY DEF PageInv, Shapes, Unmoved, Quiet

LEMMA QuietKeeps ==
  ASSUME PageInv, Quiet, Grows
  PROVE  /\ Here' = Here /\ Here \in Sessions
         /\ TimelineInv' /\ TrackerInv' /\ LoadInv' /\ AllRequests'
         /\ away'[Here] = away[Here] => \A x : IsSnapshot(x, Here) => IsSnapshot(x, Here)'
<1> USE DEF Quiet
<1>1. Here' = Here /\ Here \in Sessions
  BY HereIs DEF PageInv, Here, Resolved
<1>2. Now(Here) \in Nat /\ Now(Here)' \in Nat /\ Now(Here) <= Now(Here)'
  <2>1. ASSUME NEW s \in Sessions PROVE Now(s) <= Now(s)' /\ Now(s)' \in Nat
    <3>1. Now(s) <= Now(s)' /\ server'[s].turns \in Seq(Status)
      BY DEF Grows, Histories
    <3> QED BY <3>1 DEF Now, Steps
  <2>2. Now(Here) \in Nat
    BY <1>1, NowIs DEF PageInv
  <2>3. Now(Here)' = Steps(Len(server'[Here].turns), Last(server'[Here].turns) = "ended")
    BY <1>1 DEF Now
  <2> QED BY <1>1, <2>1, <2>2, <2>3 DEF Now
<1>3. TimelineInv'
  <2>1. IsTimeline(timeline)'
    BY DEF PageInv, TimelineInv
  <2>2. Reach(timeline.latest) \in Nat /\ UpTo(timeline, Now(Here))
        /\ DOMAIN timeline.entries \subseteq Nat
    BY PageReach, ConstantsAssumption DEF PageInv, TimelineInv, IsTimeline
  <2>3. UpTo(timeline, Now(Here)')
    BY <1>2, <2>2 DEF UpTo
  <2> QED BY <2>1, <2>3 DEF TimelineInv
<1>4. TrackerInv'
  <2>1. Here # Nobody
    BY <1>1, ConstantsAssumption
  <2> HIDE DEF Here
  <2> QED BY <1>1, <2>1 DEF PageInv, TrackerInv, KnownToHaveEnded, Past, Blind
<1>5. LoadInv'
  BY DEF PageInv, LoadInv, OneLoad
<1>6. AllRequests'
  BY <1>1 DEF PageInv, AllRequests, RequestInv
<1>7. ASSUME NEW x, IsSnapshot(x, Here), away'[Here] = away[Here] PROVE IsSnapshot(x, Here)'
  <2>1. Reach(x.page) \in Nat /\ Reach(x.page) <= Now(Here)
    BY <1>7, PageReach DEF IsSnapshot
  <2>2. Reach(x.page) <= Now(Here)'
    BY <1>2, <2>1
  <2>3. \A i : /\ KnownToHaveEnded(i)' <=> KnownToHaveEnded(i)
               /\ Past(Here, i)' <=> Past(Here, i)
    BY <1>1, <1>7 DEF KnownToHaveEnded, Past
  <2> HIDE DEF Here
  <2> QED BY <1>1, <1>7, <2>2, <2>3 DEF IsSnapshot
<1> QED
  BY <1>1, <1>3, <1>4, <1>5, <1>6, <1>7

LEMMA QuietStream ==
  ASSUME PageInv, Quiet, Grows, UNCHANGED <<source, ready>>
  PROVE  StreamInv'
<1>1. /\ Here' = Here /\ timeline' = timeline
      /\ Blind \/ \A x : IsSnapshot(x, Here) => IsSnapshot(x, Here)'
  BY QuietKeeps DEF Quiet
<1>2. ASSUME source.wire # <<>> PROVE FrameInv(source.wire[1])'
  <2>1. FrameInv(source.wire[1])
    BY <1>2 DEF PageInv, StreamInv
  <2>2. IsSnapshot(source.wire[1].snapshot, Here)'
    BY <1>1, <1>2, <2>1 DEF FrameInv, Blind
  <2> QED BY <1>1, <2>1, <2>2 DEF FrameInv
<1> QED
  BY <1>1, <1>2 DEF PageInv, StreamInv

\* A stream that is not open.
LEMMA ClosedStream ==
  ASSUME source'.pc # "open", source'.wire = <<>>,
         source'.pc = "connecting" => Resolved(source'.sid) = Here'
  PROVE  StreamInv'
  BY DEF StreamInv, Resolved

LEMMA QuietRefresh ==
  ASSUME PageInv, Quiet, Grows, ready' => ready,
         refresh' = refresh \/ (refresh' = Refreshed(refresh, selected) /\ ready' = ready)
  PROVE  RefreshInv'
<1>1. /\ Here' = Here /\ timeline' = timeline
      /\ Blind \/ \A x : IsSnapshot(x, Here) => IsSnapshot(x, Here)'
  BY QuietKeeps DEF Quiet
<1>2. CASE refresh' = NoRefresh
  BY <1>2 DEF NoRefresh, RefreshInv
<1>3. CASE UNCHANGED <<refresh.pc, refresh.fate, refresh.sid, refresh.answer>>
  <2>1. SUFFICES ASSUME refresh.pc # "idle", refresh.fate = "wanted"
                 PROVE  /\ ~ready' /\ Resolved(refresh.sid)' = Here'
                        /\ refresh.pc = "answered" /\ refresh.answer # NoSnapshot =>
                             IsSnapshot(refresh.answer, Here)' /\ UpTo(timeline, Reach(refresh.answer.page))'
    BY <1>3 DEF RefreshInv
  <2>2. RefreshInv /\ ~ready /\ Resolved(refresh.sid) = Here
    BY <2>1 DEF PageInv, RefreshInv
  <2>3. Resolved(refresh.sid)' = Here'
    BY <1>1, <1>3, <2>2 DEF Resolved
  <2>4. ASSUME refresh.pc = "answered", refresh.answer # NoSnapshot
        PROVE  IsSnapshot(refresh.answer, Here)' /\ UpTo(timeline, Reach(refresh.answer.page))'
    <3>1. IsSnapshot(refresh.answer, Here) /\ UpTo(timeline, Reach(refresh.answer.page))
      BY <2>1, <2>4 DEF PageInv, RefreshInv
    <3>2. Reach(refresh.answer.page)' = Reach(refresh.answer.page)
      BY <1>3 DEF Reach
    <3> QED BY <1>1, <1>3, <2>1, <3>1, <3>2 DEF Blind
  <2> QED BY <2>2, <2>3, <2>4
<1>4. CASE refresh' = Refreshed(refresh, selected) /\ ready' = ready
  <2>1. CASE refresh' = refresh
    BY <1>3, <2>1
  <2>2. CASE refresh' = [refresh EXCEPT !.queued = TRUE]
    BY <1>3, <2>2 DEF PageInv, Shapes, Records
  <2>3. CASE refresh' = [NoRefresh EXCEPT !.pc = "asked", !.sid = selected] /\ ~ready
    <3>1. refresh'.pc = "asked" /\ refresh'.sid = selected
      BY <2>3 DEF NoRefresh
    <3> QED BY <1>1, <1>4, <2>3, <3>1 DEF RefreshInv, Here, Quiet, Resolved
  <2> QED BY <1>4, <2>1, <2>2, <2>3 DEF Refreshed
<1> QED
  BY <1>3, <1>4
LEMMA QuietAll ==
  ASSUME PageInv, Quiet, Grows, Counted', Records', StreamInv', RefreshInv'
  PROVE  PageInv'
<1>1. Shapes'
  BY DEF PageInv, Shapes, Quiet
<1>2. Histories'
  BY DEF Grows
<1> QED
  BY <1>1, <1>2, QuietKeeps DEF PageInv

\* A step of the server.
LEMMA ServerStep ==
  ASSUME PageInv, Quiet, Grows, Counted', UNCHANGED <<source, ready, refresh>>
  PROVE  PageInv'
<1>1. Records'
  BY DEF PageInv, Shapes, Records
<1> QED
  BY <1>1, QuietStream, QuietRefresh, QuietAll

LEMMA HistoryChanges ==
  ASSUME PageInv, authed \/ Blind, NEW s \in Sessions, NEW history, history \in Seq(Status), Changes(s, history),
         Len(history) \in Len(server[s].turns) .. Len(server[s].turns) + 1,
         history # <<>>,
         \A i \in 1 .. Len(history) : i < Len(history) \/ i <= Turns0[s] => history[i] = "ended",
         Len(history) = Len(server[s].turns) /\ Len(history) > 0 =>
           (Last(server[s].turns) = "ended" => Last(history) = "ended")
  PROVE  PageInv'
<1> DEFINE new == [epoch |-> server[s].epoch, version |-> server[s].version + 1, turns |-> history]
<1>0. Shapes /\ Histories /\ Counted /\ spent.changes \in Nat
  BY ConstantsAssumption DEF PageInv, Shapes, Counted
<1>1. Spend("changes") /\ UNCHANGED <<login, authed, selected, streamVars, shownVars>>
  BY DEF Changes
<1>a. /\ away' \in [Sessions -> SUBSET (1 .. MaxTurns)]
      /\ \A q \in Sessions : \A i \in away'[q] :
           i \in away[q] \/ (q = s /\ i = Len(history) /\ Last(history) = "ended")
      /\ away'[Here] = away[Here] \/ Blind
  <2>1. away \in [Sessions -> SUBSET (1 .. MaxTurns)] /\ Here \in Sessions
    BY <1>0, HereIs DEF Shapes
  <2>2. CASE away' = away
    BY <2>1, <2>2
  <2>3. CASE Last(history) = "ended" /\ ~Looks(s) /\ away' = [away EXCEPT ![s] = @ \cup {Len(history)}]
    <3>1. Len(history) \in 1 .. MaxTurns
      <4>1. Len(server[s].turns) \in Nat /\ Len(server[s].turns) <= Turns0[s] + spent.changes
            /\ spent.changes < MaxChanges
        BY <1>0, <1>1, NowIs DEF Histories, Spend, Bounds
      <4>2. history # <<>>
        OBVIOUS
      <4> QED BY <1>0, <4>1, <4>2, ConstantsAssumption
    <3>2. Blind \/ s # Here
      BY <2>3 DEF Looks, Here
    <3> HIDE DEF Here
    <3> QED BY <2>1, <2>3, <3>1, <3>2
  <2> QED BY <2>2, <2>3 DEF Changes
<1>2. Counted' /\ spent'.changes = spent.changes + 1
  BY <1>0, <1>1, Spending
<1>3. server \in [Sessions -> [epoch : Nat, version : Nat \ {0}, turns : Seq(Status)]]
  BY <1>0 DEF Histories
<1>4. new \in [epoch : Nat, version : Nat \ {0}, turns : Seq(Status)] /\ new.turns = history
  BY <1>3
<1>6. server' = [server EXCEPT ![s] = new]
  <2>1. server' = [server EXCEPT ![s].turns = history, ![s].version = @ + 1]
    BY DEF Changes
  <2> QED BY <1>3, <2>1
<1>5. Grows
  <2> HIDE DEF new
  <2>1. announced' = announced /\ spent'.changes \in Nat
    BY <1>0, <1>1, <1>2 DEF shownVars
  <2>2. \A q \in Sessions : \A i \in away'[q] :
          i \in away[q] \/ (q = s /\ i = Len(new.turns) /\ Last(new.turns) = "ended")
    BY <1>4, <1>a
  <2>3. /\ Len(new.turns) \in Len(server[s].turns) .. Len(server[s].turns) + 1
        /\ \A i \in 1 .. Len(new.turns) : i < Len(new.turns) \/ i <= Turns0[s] => new.turns[i] = "ended"
        /\ Len(new.turns) = Len(server[s].turns) /\ Len(new.turns) > 0 =>
             (Last(server[s].turns) = "ended" => Last(new.turns) = "ended")
    BY <1>4
  <2> QED BY <1>0, <1>2, <1>4, <1>6, <2>1, <2>2, <2>3, GrowsByOne
<1> QED
  BY <1>1, <1>2, <1>5, <1>a, ServerStep DEF Quiet, streamVars, shownVars

LEMMA TurnStep ==
  ASSUME PageInv, authed \/ Blind, NEW s \in Sessions, TurnBegins(s) \/ TurnEnds(s) \/ TurnPasses(s)
  PROVE  PageInv'
<1> DEFINE h == server[s].turns
<1>0. Shapes /\ Histories
  BY DEF PageInv
<1>1. h \in Seq(Status) /\ Len(h) \in Nat /\ Turns0[s] \in Nat /\ Turns0[s] <= Len(h)
  BY <1>0, NowIs, ConstantsAssumption DEF Histories
<1>2. \A i \in 1 .. Len(h) : i < Len(h) \/ i <= Turns0[s] => h[i] = "ended"
  BY <1>0 DEF Histories
<1>a. ASSUME NEW status \in Status, h = <<>> \/ Last(h) = "ended", Changes(s, Append(h, status)) PROVE PageInv'
  <2> DEFINE n == Append(h, status)
  <2>1. n \in Seq(Status) /\ Len(n) = Len(h) + 1
    BY <1>1
  <2>2. \A i \in 1 .. Len(n) : i < Len(n) => n[i] = h[i] /\ i \in 1 .. Len(h)
    BY <1>1
  <2>3. \A i \in 1 .. Len(h) : h[i] = "ended"
    BY <1>1, <1>2, <1>a DEF Last
  <2>4. \A i \in 1 .. Len(n) : i < Len(n) \/ i <= Turns0[s] => n[i] = "ended"
    BY <1>1, <2>1, <2>2, <2>3
  <2>5. Changes(s, n)
    BY <1>a
  <2> HIDE DEF n
  <2> QED BY <1>1, <2>1, <2>4, <2>5, HistoryChanges
<1>3. CASE TurnBegins(s)
  BY <1>3, <1>a DEF TurnBegins, Status
<1>4. CASE TurnPasses(s)
  BY <1>4, <1>a DEF TurnPasses, Status
<1>5. CASE TurnEnds(s)
  <2> DEFINE n == Append(Front(h), "ended")
  <2>1. Len(h) > 0 /\ Last(h) = "running" /\ Changes(s, n)
    BY <1>1, <1>5 DEF TurnEnds
  <2>2. Front(h) \in Seq(Status) /\ Len(Front(h)) = Len(h) - 1
        /\ \A i \in 1 .. Len(h) - 1 : Front(h)[i] = h[i]
    BY <1>1, <2>1 DEF Front
  <2> HIDE DEF h
  <2>3. n \in Seq(Status) /\ Len(n) = Len(h) /\ n[Len(h)] = "ended"
        /\ \A i \in 1 .. Len(h) - 1 : n[i] = h[i]
    BY <1>1, <2>1, <2>2 DEF Status
  <2> HIDE DEF n
  <2>4. \A i \in 1 .. Len(n) : i < Len(n) \/ i <= Turns0[s] => n[i] = "ended"
    <3>1. ASSUME NEW i \in 1 .. Len(n) PROVE n[i] = "ended"
      <4>1. CASE i = Len(h)
        BY <2>3, <4>1
      <4>2. CASE i # Len(h)
        <5>1. i \in 1 .. Len(h) - 1 /\ i < Len(h) /\ i \in 1 .. Len(h)
          BY <1>1, <2>3, <4>2
        <5> QED BY <1>2, <2>3, <5>1
      <4> QED BY <4>1, <4>2
    <3> QED BY <3>1
  <2> USE DEF h
  <2> QED BY <1>1, <2>1, <2>3, <2>4, HistoryChanges DEF Last
<1> QED
  BY <1>3, <1>4, <1>5

LEMMA ResyncStep ==
  ASSUME PageInv, NEW s \in Sessions, Resyncs(s)
  PROVE  PageInv'
<1> DEFINE h   == server[s].turns
           new == [epoch |-> server[s].epoch + 1, version |-> server[s].version + 1, turns |-> h]
<1>0. Shapes /\ Histories /\ Counted /\ spent.changes \in Nat /\ Len(h) \in Nat
  BY NowIs, ConstantsAssumption DEF PageInv, Shapes, Counted
<1>1. Spend("changes") /\ UNCHANGED <<login, away, authed, selected, streamVars, shownVars>>
  BY DEF Resyncs
<1>2. Counted' /\ spent'.changes = spent.changes + 1
  BY <1>0, <1>1, Spending
<1>3. server \in [Sessions -> [epoch : Nat, version : Nat \ {0}, turns : Seq(Status)]]
  BY <1>0 DEF Histories
<1>4. new \in [epoch : Nat, version : Nat \ {0}, turns : Seq(Status)] /\ new.turns = h
  BY <1>3
<1>5. server' = [server EXCEPT ![s] = new]
  <2>1. server' = [server EXCEPT ![s].epoch = @ + 1, ![s].version = @ + 1]
    BY DEF Resyncs
  <2> QED BY <1>3, <2>1
<1>6. \A i \in 1 .. Len(h) : i < Len(h) \/ i <= Turns0[s] => h[i] = "ended"
  BY <1>0 DEF Histories
<1>7. Grows
  <2> HIDE DEF new
  <2>1. announced' = announced /\ spent'.changes \in Nat
    BY <1>0, <1>1, <1>2 DEF shownVars
  <2>2. new.turns = server[s].turns
    BY <1>4
  <2>3. Len(new.turns) \in Len(server[s].turns) .. Len(server[s].turns) + 1
    BY <1>0, <2>2
  <2>4. \A i \in 1 .. Len(new.turns) :
          i < Len(new.turns) \/ i <= Turns0[s] => new.turns[i] = "ended"
    BY <1>6, <2>2
  <2>5. Last(server[s].turns) = "ended" => Last(new.turns) = "ended"
    BY <2>2
  <2> HIDE DEF h
  <2>6. \A q \in Sessions : \A i \in away'[q] :
          i \in away[q] \/ (q = s /\ i = Len(new.turns) /\ Last(new.turns) = "ended")
    BY <1>1
  <2> QED BY <1>0, <1>2, <1>4, <1>5, <2>1, <2>3, <2>4, <2>5, <2>6, GrowsByOne
<1>8. Quiet
  BY <1>1, UnmovedIsQuiet DEF Unmoved, shownVars
<1> QED
  BY <1>1, <1>2, <1>7, <1>8, ServerStep DEF streamVars

LEMMA ExpiresStep ==
  ASSUME PageInv, Expires
  PROVE  PageInv'
<1>1. Spend("faults") /\ UNCHANGED <<server, away, authed, selected, streamVars, shownVars>>
  BY DEF Expires
<1>2. Counted' /\ Grows
  BY <1>1, SpentGrows DEF PageInv, shownVars
<1> QED
  BY <1>1, <1>2, ServerStep, UnmovedIsQuiet DEF Unmoved, streamVars, shownVars

\* The stream breaks: nothing of it is left but the session.
LEMMA BreakStep ==
  ASSUME PageInv, Quiet, Grows, Counted', source.pc = "open",
         source' = Broken, ready' = FALSE, refresh' = refresh
  PROVE  PageInv'
<1>1. /\ Records' /\ source'.pc = "connecting" /\ source'.wire = <<>> /\ source'.sid = source.sid
  BY DEF PageInv, Shapes, Records, Broken
<1>2. Resolved(source'.sid) = Here'
  BY <1>1, QuietKeeps DEF PageInv, StreamInv
<1>3. StreamInv'
  BY <1>1, <1>2, ClosedStream
<1> QED
  BY <1>1, <1>3, QuietRefresh, QuietAll

LEMMA RestartStep ==
  ASSUME PageInv, Restarts
  PROVE  PageInv'
<1>0. Shapes /\ Histories /\ Counted
  BY DEF PageInv, Shapes
<1>1. /\ Spend("faults") /\ UNCHANGED <<login, away, authed, selected, refresh, timer, shownVars>>
      /\ server' = [s \in Sessions |-> [server[s] EXCEPT !.epoch = @ + 1, !.version = 1]]
      /\ IF source.pc = "open" THEN source' = Broken /\ ready' = FALSE ELSE UNCHANGED <<source, ready>>
  BY DEF Restarts
<1>2. Counted' /\ spent'.changes = spent.changes
  BY <1>0, <1>1, Spending
<1>3. server' \in [Sessions -> [epoch : Nat, version : Nat \ {0}, turns : Seq(Status)]]
      /\ \A s \in Sessions : server'[s].turns = server[s].turns
  <2>1. server \in [Sessions -> [epoch : Nat, version : Nat \ {0}, turns : Seq(Status)]]
    BY <1>0 DEF Histories
  <2>2. ASSUME NEW s \in Sessions
        PROVE  /\ server'[s] \in [epoch : Nat, version : Nat \ {0}, turns : Seq(Status)]
               /\ server'[s].turns = server[s].turns
    <3> DEFINE r == server[s]
    <3>1. server'[s] = [r EXCEPT !.epoch = @ + 1, !.version = 1]
      BY <1>1
    <3>2. r \in [epoch : Nat, version : Nat \ {0}, turns : Seq(Status)]
      BY <2>1
    <3> HIDE DEF r
    <3>3. server'[s] = [epoch |-> r.epoch + 1, version |-> 1, turns |-> r.turns]
      BY <3>1, <3>2
    <3>4. r.epoch + 1 \in Nat /\ r.turns \in Seq(Status) /\ 1 \in Nat \ {0}
      BY <3>2
    <3> QED BY <3>3, <3>4 DEF r
  <2>3. DOMAIN server' = Sessions /\ server' = [s \in Sessions |-> server'[s]]
    BY <1>1
  <2> QED BY <2>2, <2>3
<1>4. \A s \in Sessions : Now(s)' = Now(s) /\ Now(s) \in Nat
  BY <1>0, <1>3, NowIs DEF Now
<1>5. Grows
  <2>1. announced' = announced
    BY <1>1 DEF shownVars
  <2>2. away' = away
    BY <1>1
  <2>3. ASSUME NEW s \in Sessions, NEW i \in 1..MaxTurns
        PROVE  Past(s, i)' <=> Past(s, i)
    BY <2>1, <2>2 DEF Past
  <2>4. ASSUME NEW s \in Sessions
        PROVE  /\ Turns0[s] <= Len(server'[s].turns)
               /\ Len(server'[s].turns) <= Turns0[s] + spent'.changes
               /\ \A i \in 1 .. Len(server'[s].turns) :
                    i < Len(server'[s].turns) \/ i <= Turns0[s] => server'[s].turns[i] = "ended"
    BY <1>0, <1>2, <1>3 DEF Histories
  <2>5. ASSUME NEW s \in Sessions, NEW i \in 1 .. MaxTurns, Past(s, i)'
        PROVE  2 * i <= Now(s)'
    <3>1. 2 * i <= Now(s)
      BY <1>0, <2>3, <2>5 DEF Histories
    <3> QED BY <1>4, <3>1
  <2>6. Histories'
    BY <1>3, <2>4, <2>5 DEF Histories
  <2> QED BY <1>4, <2>6 DEF Grows
<1>6. Quiet
  BY <1>1, UnmovedIsQuiet DEF Unmoved, shownVars
<1>7. CASE source.pc = "open"
  BY <1>1, <1>2, <1>5, <1>6, <1>7, BreakStep
<1>8. CASE source.pc # "open"
  BY <1>1, <1>2, <1>5, <1>6, <1>8, ServerStep
<1> QED
  BY <1>7, <1>8

-----------------------------------------------------------------------------
LEMMA StreamBreaksStep ==
  ASSUME PageInv, StreamIsEnded \/ StreamBreaks
  PROVE  PageInv'
<1>1. /\ source.pc = "open" /\ source' = Broken /\ ready' = FALSE
      /\ UNCHANGED <<serverVars, authed, selected, refresh, timer, shownVars>>
      /\ UNCHANGED spent \/ Spend("faults")
  BY DEF StreamIsEnded, StreamBreaks, Breaks
<1>2. Counted' /\ Grows
  BY <1>1, SpentGrows DEF PageInv, shownVars, serverVars
<1> QED
  BY <1>1, <1>2, BreakStep, UnmovedIsQuiet DEF Unmoved, serverVars, shownVars

LEMMA StreamClosesStep ==
  ASSUME PageInv, StreamIsForbidden \/ StreamIsRefused
  PROVE  PageInv'
<1>1. /\ source.pc = "connecting" /\ source' = [source EXCEPT !.pc = "closed", !.checking = TRUE]
      /\ ready' = FALSE
      /\ UNCHANGED <<serverVars, authed, selected, refresh, timer, shownVars>>
      /\ UNCHANGED spent \/ Spend("faults")
  BY DEF StreamIsForbidden, StreamIsRefused, Closes
<1>2. Counted' /\ Grows
  BY <1>1, SpentGrows DEF PageInv, shownVars, serverVars
<1>3. Records' /\ source'.pc = "closed" /\ source'.wire = <<>>
  BY <1>1 DEF PageInv, Shapes, Records, StreamInv
<1>4. StreamInv'
  BY <1>3, ClosedStream
<1> QED
  BY <1>1, <1>2, <1>3, <1>4, QuietRefresh, QuietAll, UnmovedIsQuiet DEF Unmoved, serverVars, shownVars

\* A frame is sent: of what is at the server now.
LEMMA FrameIsSent ==
  ASSUME PageInv, Quiet, Grows, Counted', UNCHANGED <<server, away, ready, refresh>>,
         NEW event \in {"snapshot", "delta"}, event = "delta" => ready,
         Records', source'.pc = "open", source'.sid = Here,
         source'.wire = <<[event |-> event, snapshot |-> Snapshot(Here)]>>
  PROVE  PageInv'
<1>a. PICK x : x = Snapshot(Here)
  OBVIOUS
<1>b. PICK frame : frame = [event |-> event, snapshot |-> x]
  OBVIOUS
<1>1. Shapes /\ Histories /\ TimelineInv /\ Here \in Sessions
  BY HereIs DEF PageInv
<1>2. Here' = Here /\ timeline' = timeline /\ \A y : IsSnapshot(y, Here) => IsSnapshot(y, Here)'
  BY QuietKeeps DEF Quiet
<1>3. IsSnapshot(x, Here) /\ Reach(x.page) = Now(Here)
  BY <1>a, <1>1, SnapshotIs
<1>4. frame.event = event /\ frame.snapshot = x
  BY <1>b
<1>5. source'.wire = <<frame>>
  BY <1>a, <1>b
<1>6. source'.wire # <<>> /\ source'.wire[1] = frame /\ source'.wire = <<source'.wire[1]>>
  BY <1>5
<1>7. IsPage(x.page)
  BY <1>3 DEF IsSnapshot
<1>8. UpTo(timeline, Reach(x.page))
  BY <1>1, <1>3 DEF TimelineInv
<1>9. IsSnapshot(x, Here)'
  BY <1>2, <1>3
<1>10. \A i \in DOMAIN timeline.entries : i <= x.page.end
  <2>1. Reach(x.page) \in Nat /\ Reach(x.page) <= 2 * x.page.end
    BY <1>7, PageReach
  <2>2. x.page.end \in Nat
    BY <1>7 DEF IsPage
  <2>3. DOMAIN timeline.entries \subseteq Nat
    BY <1>1, ConstantsAssumption DEF TimelineInv, IsTimeline
  <2>4. \A i \in DOMAIN timeline.entries : 2 * i - 1 <= Reach(x.page)
    BY <1>8 DEF UpTo
  <2> QED BY <2>1, <2>2, <2>3, <2>4
<1>11. FrameInv(source.wire[1])'
  <2>1. (source.wire[1].snapshot)' = x /\ (source.wire[1].event)' = event
    BY <1>4, <1>6
  <2>2. IsSnapshot(source.wire[1].snapshot, Here)'
    BY <1>9, <2>1 DEF IsSnapshot
  <2>3. UpTo(timeline, Reach(source.wire[1].snapshot.page))'
    BY <1>2, <1>8, <2>1 DEF UpTo, Reach
  <2>4. (\A i \in DOMAIN timeline.entries : i <= source.wire[1].snapshot.page.end)'
    BY <1>2, <1>10, <2>1
  <2> QED BY <2>1, <2>2, <2>3, <2>4 DEF FrameInv
<1>12. StreamInv'
  <2>1. Resolved(source.sid)' = Here'
    BY <1>1, <1>2, ConstantsAssumption DEF Resolved
  <2>2. source'.sid = Here'
    BY <1>2
  <2> QED BY <1>6, <1>11, <2>1, <2>2 DEF StreamInv
<1> QED
  BY <1>12, QuietRefresh, QuietAll

\* The fields of a stream and of a request that have been changed.
LEMMA SourceFields ==
  ASSUME Records, NEW pc, NEW sid, NEW last, NEW wire,
         source' = [source EXCEPT !.pc = pc, !.sid = sid, !.last = last, !.wire = wire]
  PROVE  source' = [pc |-> pc, sid |-> sid, checking |-> source.checking, last |-> last, wire |-> wire]
  BY DEF Records

LEMMA StreamOpensStep ==
  ASSUME PageInv, StreamOpens
  PROVE  PageInv'
<1>0. Records /\ Resolved(source.sid) = Here /\ Here \in Sessions
  BY HereIs DEF StreamOpens, PageInv, Shapes, StreamInv
<1>1. Quiet /\ Grows /\ Counted' /\ UNCHANGED <<server, away, ready, refresh>>
  <2>1. UNCHANGED <<serverVars, authed, selected, ready, refresh, timer, shownVars, spent>>
    BY DEF StreamOpens
  <2> QED BY <2>1, SpentGrows, UnmovedIsQuiet DEF PageInv, Unmoved, shownVars, serverVars
<1>2. PICK x : x = Snapshot(Here)
  OBVIOUS
<1>3. x.sid = Here
  BY <1>2 DEF Snapshot
<1>4. PICK wire : wire = <<[event |-> "snapshot", snapshot |-> x]>>
  OBVIOUS
<1>5. source' = [source EXCEPT !.pc = "open", !.sid = x.sid, !.last = x, !.wire = wire]
  BY <1>0, <1>2, <1>4 DEF StreamOpens
<1>6. source' = [pc |-> "open", sid |-> x.sid, checking |-> source.checking, last |-> x, wire |-> wire]
  BY <1>0, <1>5, SourceFields
<1>7. Records' /\ source'.pc = "open" /\ source'.sid = Here /\ source'.wire = wire
  BY <1>0, <1>1, <1>3, <1>6 DEF Records
<1> QED
  BY <1>1, <1>2, <1>4, <1>7, FrameIsSent

LEMMA StreamSendsStep ==
  ASSUME PageInv, StreamSends
  PROVE  PageInv'
<1>0. Records /\ source.pc = "open" /\ source.wire = <<>> /\ source.sid = Here /\ Here \in Sessions /\ ready
  BY HereIs DEF StreamSends, PageInv, Shapes, StreamInv
<1>1. Quiet /\ Grows /\ Counted' /\ UNCHANGED <<server, away, ready, refresh>>
  <2>1. UNCHANGED <<serverVars, authed, selected, ready, refresh, timer, shownVars, spent>>
    BY DEF StreamSends
  <2> QED BY <2>1, SpentGrows, UnmovedIsQuiet DEF PageInv, Unmoved, shownVars, serverVars
<1>2. PICK x : x = Snapshot(Here)
  OBVIOUS
<1>3. PICK wire : wire = <<[event |-> "delta", snapshot |-> x]>>
  OBVIOUS
<1>4. source' = [source EXCEPT !.last = x, !.wire = wire]
  BY <1>0, <1>2, <1>3 DEF StreamSends
<1>5. source' = [pc |-> "open", sid |-> Here, checking |-> source.checking, last |-> x, wire |-> wire]
  BY <1>0, <1>4 DEF Records
<1>6. Records' /\ source'.pc = "open" /\ source'.sid = Here /\ source'.wire = wire
  BY <1>0, <1>1, <1>5 DEF Records
<1> QED
  BY <1>0, <1>1, <1>2, <1>3, <1>6, FrameIsSent

\* Only what the check of the login has done is noted.
LEMMA CheckedStep ==
  ASSUME PageInv, Quiet, Grows, Counted', UNCHANGED <<away, ready, refresh>>,
         source' = [source EXCEPT !.checking = FALSE]
  PROVE  PageInv'
<1>0. Records /\ StreamInv
  BY DEF PageInv, Shapes
<1>1. Here' = Here /\ timeline' = timeline /\ \A x : IsSnapshot(x, Here) => IsSnapshot(x, Here)'
  BY QuietKeeps DEF Quiet
<1>2. source' = [pc |-> source.pc, sid |-> source.sid, checking |-> FALSE,
                 last |-> source.last, wire |-> source.wire]
  BY <1>0 DEF Records
<1>3. Records' /\ UNCHANGED <<source.pc, source.sid, source.wire>>
  BY <1>0, <1>2 DEF Records
<1>4. ASSUME source.wire # <<>> PROVE FrameInv(source.wire[1])'
  <2>1. PICK frame : frame = source.wire[1]
    OBVIOUS
  <2>2. FrameInv(frame) /\ (source.wire[1])' = frame
    BY <1>0, <1>3, <1>4, <2>1 DEF StreamInv
  <2>3. IsSnapshot(frame.snapshot, Here)'
    BY <1>1, <2>2 DEF FrameInv
  <2>4. FrameInv(frame)'
    BY <1>1, <2>2, <2>3 DEF FrameInv
  <2> QED BY <2>2, <2>4 DEF FrameInv, IsSnapshot, UpTo, Reach
<1>5. StreamInv'
  <2>1. Resolved(source.sid)' = Resolved(source.sid)
    BY <1>3 DEF Resolved
  <2> QED BY <1>0, <1>1, <1>3, <1>4, <2>1 DEF StreamInv
<1> QED
  BY <1>3, <1>5, QuietRefresh, QuietAll

LEMMA LogsInStep ==
  ASSUME PageInv, LogsIn
  PROVE  PageInv'
<1>1. /\ source' = Connecting(selected) /\ ready' = FALSE
      /\ UNCHANGED <<server, away, selected, refresh, timer, shownVars, spent>>
  BY DEF LogsIn
<1>2. Quiet /\ Grows /\ Counted'
  BY <1>1, SpentGrows, UnmovedIsQuiet DEF PageInv, Unmoved, shownVars
<1>3. /\ Records' /\ source'.pc = "connecting" /\ source'.sid = selected /\ source'.wire = <<>>
  BY <1>1 DEF PageInv, Shapes, Records, Connecting, NoSource
<1>4. Resolved(source'.sid) = Here'
  BY <1>1, <1>3 DEF Here, Resolved
<1>5. StreamInv'
  BY <1>3, <1>4, ClosedStream
<1> QED
  BY <1>1, <1>2, <1>3, <1>5, QuietRefresh, QuietAll

-----------------------------------------------------------------------------
(* Requests of a snapshot.                                                 *)

LEMMA RefreshBeginsStep ==
  ASSUME PageInv, TimerFires \/ Operates
  PROVE  PageInv'
<1>1. /\ refresh' = Refreshed(refresh, selected)
      /\ UNCHANGED <<serverVars, selected, source, ready, shownVars>>
      /\ UNCHANGED spent \/ Spend("moves")
  BY DEF TimerFires, Operates
<1>2. Quiet /\ Grows /\ Counted'
  BY <1>1, SpentGrows, UnmovedIsQuiet DEF PageInv, Unmoved, shownVars, serverVars
<1>3. Records'
  <2>1. Records
    BY DEF PageInv, Shapes
  <2>2. CASE refresh' = refresh
    BY <1>1, <2>1, <2>2 DEF Records
  <2>3. CASE refresh' = [refresh EXCEPT !.queued = TRUE]
    <3>1. refresh' = [pc |-> refresh.pc, sid |-> refresh.sid, fate |-> refresh.fate,
                      queued |-> TRUE, answer |-> refresh.answer]
      BY <2>1, <2>3 DEF Records
    <3> QED BY <1>1, <2>1, <3>1 DEF Records
  <2>4. CASE refresh' = [NoRefresh EXCEPT !.pc = "asked", !.sid = selected]
    BY <1>1, <2>1, <2>4 DEF Records, NoRefresh
  <2> QED BY <1>1, <2>2, <2>3, <2>4 DEF Refreshed
<1> QED
  BY <1>1, <1>2, <1>3, QuietStream, QuietRefresh, QuietAll

LEMMA RefreshIsAnsweredStep ==
  ASSUME PageInv, RefreshIsAnswered
  PROVE  PageInv'
<1>0. Shapes /\ Histories /\ TimelineInv /\ RefreshInv /\ Records /\ refresh.pc = "asked" /\ Here \in Sessions
  BY HereIs DEF PageInv, Shapes, RefreshIsAnswered
<1>1. PICK answer :
        /\ answer = Snapshot(Resolved(refresh.sid)) \/ answer = NoSnapshot
        /\ refresh' = [refresh EXCEPT !.pc = "answered", !.answer = answer]
  BY DEF RefreshIsAnswered
<1>2. UNCHANGED <<serverVars, selected, source, ready, shownVars, spent>>
  BY DEF RefreshIsAnswered
<1>3. Quiet /\ Grows /\ Counted'
  BY <1>0, <1>2, SpentGrows, UnmovedIsQuiet DEF Unmoved, shownVars, serverVars
<1>4. refresh' = [pc |-> "answered", sid |-> refresh.sid, fate |-> refresh.fate,
                  queued |-> refresh.queued, answer |-> answer]
  BY <1>0, <1>1 DEF Records
<1>5. Records'
  BY <1>0, <1>2, <1>4 DEF Records
<1>6. RefreshInv'
  <2>1. SUFFICES ASSUME refresh.fate = "wanted"
                 PROVE  /\ ~ready' /\ Resolved(refresh.sid)' = Here'
                        /\ answer # NoSnapshot =>
                             IsSnapshot(refresh.answer, Here)' /\ UpTo(timeline, Reach(refresh.answer.page))'
    BY <1>4 DEF RefreshInv
  <2>2. ~ready /\ Resolved(refresh.sid) = Here
    BY <1>0, <2>1 DEF RefreshInv
  <2>3. Here' = Here /\ timeline' = timeline /\ Resolved(refresh.sid)' = Here
        /\ \A x : IsSnapshot(x, Here) => IsSnapshot(x, Here)'
    BY <1>2, <1>3, <1>4, <2>2, QuietKeeps DEF Quiet, Resolved, serverVars
  <2>4. ASSUME answer # NoSnapshot
        PROVE  IsSnapshot(refresh.answer, Here)' /\ UpTo(timeline, Reach(refresh.answer.page))'
    <3>1. answer = Snapshot(Here)
      BY <1>1, <2>2, <2>4
    <3>2. IsSnapshot(answer, Here) /\ Reach(answer.page) = Now(Here)
      BY <1>0, <3>1, SnapshotIs
    <3>3. UpTo(timeline, Reach(answer.page))
      BY <1>0, <3>2 DEF TimelineInv
    <3>4. IsSnapshot(answer, Here)'
      BY <2>3, <3>2
    <3>5. (refresh.answer)' = answer
      BY <1>4
    <3>6. UpTo(timeline, Reach(refresh.answer.page))'
      BY <2>3, <3>3, <3>5 DEF UpTo, Reach
    <3> QED BY <3>4, <3>5, <3>6 DEF IsSnapshot
  <2> QED BY <1>2, <2>2, <2>3, <2>4
<1> QED
  BY <1>2, <1>3, <1>5, <1>6, QuietStream, QuietAll

LEMMA RefreshIsOverStep ==
  ASSUME PageInv, RefreshFails \/ RefreshIsDropped
  PROVE  PageInv'
<1>1. /\ refresh' = NoRefresh
      /\ UNCHANGED <<serverVars, selected, source, ready, shownVars>>
      /\ UNCHANGED spent \/ Spend("faults")
  BY DEF RefreshFails, RefreshIsDropped, RefreshOver
<1>2. Quiet /\ Grows /\ Counted'
  BY <1>1, SpentGrows, UnmovedIsQuiet DEF PageInv, Unmoved, shownVars, serverVars
<1>3. Records' /\ RefreshInv'
  BY <1>1 DEF PageInv, Shapes, Records, RefreshInv, NoRefresh
<1> QED
  BY <1>1, <1>2, <1>3, QuietStream, QuietAll

LEMMA StutterStep ==
  ASSUME PageInv, UNCHANGED vars
  PROVE  PageInv'
<1>1. UNCHANGED <<server, away, spent, source, ready, refresh>> /\ Quiet
  BY DEF vars, serverVars, streamVars, shownVars, Quiet, PageInv, Shapes
<1>2. Grows /\ Counted'
  BY <1>1, SpentGrows DEF PageInv, Quiet
<1> QED
  BY <1>1, <1>2, ServerStep

-----------------------------------------------------------------------------
(* Steps that leave nothing shown.                                         *)

LEMMA NothingShown ==
  ASSUME PageInv, Counted', UNCHANGED <<server, announced, away>>, UNCHANGED spent \/ Spend("moves"),
         selected' \in Somebody, tracker' = NoTracker, timeline' = EmptyTimeline,
         loads' = Outdated(loads), lastVersion' = 0, Records', StreamInv', RefreshInv'
  PROVE  PageInv'
<1>1. Histories'
  BY SpentGrows DEF PageInv, Grows
<1>2. tracker'.sid = Nobody /\ tracker'.seen = <<>> /\ DOMAIN tracker'.seen = {}
  BY DEF NoTracker
<1>3. Shapes'
  BY <1>2 DEF PageInv, Shapes, NoTracker
<1>4. Now(Here)' \in Nat
  <2>1. Here' \in Sessions
    BY <1>3, ConstantsAssumption DEF Shapes, Somebody, Here, Resolved
  <2>2. server'[Here'].turns \in Seq(Status)
    BY <1>1, <2>1 DEF Histories
  <2>3. Now(Here)' = Steps(Len(server'[Here'].turns), Last(server'[Here'].turns) = "ended")
    BY DEF Now
  <2> HIDE DEF Here
  <2> QED BY <2>2, <2>3 DEF Steps
<1>5. /\ IsTimeline(EmptyTimeline) /\ UpTo(EmptyTimeline, Now(Here)')
      /\ timeline'.epoch = NoEpoch /\ DOMAIN timeline'.entries = {}
  BY <1>4, EmptyIsTimeline
<1>6. TimelineInv'
  <2>1. IsTimeline(timeline)'
    BY <1>5 DEF IsTimeline, IsPage, IsTurn, Behind, Timelines
  <2>2. UpTo(timeline, Now(Here))'
    BY <1>5 DEF UpTo, Reach
  <2> QED BY <2>1, <2>2 DEF TimelineInv
<1>7. TrackerInv'
  <2>1. Here' # Nobody
    BY <1>3, ConstantsAssumption DEF Shapes, Somebody, Here, Resolved
  <2> QED BY <1>2, <1>5, <2>1 DEF TrackerInv
<1>8. LoadInv' /\ AllRequests'
  BY EmptyIsNotLoading, ResetKeepsLoadInv, OutdatedIsOver DEF AllRequests
<1> QED
  BY <1>1, <1>3, <1>6, <1>7, <1>8 DEF PageInv

\* An aborted request is not wanted.
AbortedRefresh(r) ==
  /\ r = [pc |-> r.pc, sid |-> r.sid, fate |-> r.fate, queued |-> r.queued, answer |-> r.answer]
  /\ r.pc \in {"idle", "answered"} /\ (r.pc = "idle" \/ r.fate = "aborted")

LEMMA AbortedIs ==
  ASSUME Records
  PROVE  AbortedRefresh(Aborted(refresh)) /\ AbortedRefresh([Aborted(refresh) EXCEPT !.queued = FALSE])
<1>1. AbortedRefresh(Aborted(refresh))
  <2>1. CASE refresh.pc = "idle"
    BY <2>1 DEF Aborted, Records, AbortedRefresh
  <2>2. CASE refresh.pc # "idle"
    <3>1. Aborted(refresh) = [pc |-> "answered", sid |-> Nobody, fate |-> "aborted",
                              queued |-> refresh.queued, answer |-> NoSnapshot]
      BY <2>2 DEF Aborted, NoRefresh
    <3> QED BY <3>1 DEF AbortedRefresh
  <2> QED BY <2>1, <2>2
<1>2. ASSUME NEW r, AbortedRefresh(r) PROVE AbortedRefresh([r EXCEPT !.queued = FALSE])
  <2>1. PICK q : q = [r EXCEPT !.queued = FALSE]
    OBVIOUS
  <2>2. q = [pc |-> r.pc, sid |-> r.sid, fate |-> r.fate, queued |-> FALSE, answer |-> r.answer]
    BY <1>2, <2>1 DEF AbortedRefresh
  <2>3. AbortedRefresh(q)
    BY <1>2, <2>2 DEF AbortedRefresh
  <2> QED BY <2>1, <2>3
<1> QED
  BY <1>1, <1>2

\* The login is asked for.
LEMMA AuthenticationStep ==
  ASSUME PageInv, ShowAuthentication,
         refresh' = NoRefresh \/ refresh' = [Aborted(refresh) EXCEPT !.queued = FALSE]
  PROVE  PageInv'
<1>1. /\ tracker' = NoTracker /\ timeline' = EmptyTimeline /\ loads' = Outdated(loads)
      /\ lastVersion' = 0 /\ source' = NoSource
      /\ UNCHANGED <<serverVars, selected, announced, spent>>
  BY DEF ShowAuthentication
<1>2. AbortedRefresh(refresh')
  <2>1. CASE refresh' = NoRefresh
    BY <2>1 DEF NoRefresh, AbortedRefresh
  <2>2. CASE refresh' = [Aborted(refresh) EXCEPT !.queued = FALSE]
    BY <2>2, AbortedIs DEF PageInv, Shapes
  <2> QED BY <2>1, <2>2
<1>3. Records'
  <2>1. source' = [pc |-> source'.pc, sid |-> source'.sid, checking |-> source'.checking,
                   last |-> source'.last, wire |-> source'.wire]
    BY <1>1 DEF NoSource
  <2>2. refresh' = [pc |-> refresh'.pc, sid |-> refresh'.sid, fate |-> refresh'.fate,
                    queued |-> refresh'.queued, answer |-> refresh'.answer]
        /\ refresh'.pc \in {"idle", "asked", "answered"}
    BY <1>2 DEF AbortedRefresh
  <2> QED BY <2>1, <2>2 DEF Records
<1>4. RefreshInv'
  BY <1>2 DEF RefreshInv, AbortedRefresh
<1>5. source'.pc = "none" /\ source'.wire = <<>>
  BY <1>1 DEF NoSource
<1>6. StreamInv'
  BY <1>5, ClosedStream
<1>7. Counted' /\ selected' \in Somebody
  BY <1>1 DEF PageInv, Shapes, Counted
<1> QED
  BY <1>1, <1>3, <1>4, <1>6, <1>7, NothingShown DEF serverVars

LEMMA SelectsStep ==
  ASSUME PageInv, NEW s \in Sessions, Selects(s)
  PROVE  PageInv'
<1>1. /\ Spend("moves") /\ selected' = s /\ tracker' = NoTracker /\ refresh' = Aborted(refresh)
      /\ timeline' = EmptyTimeline /\ loads' = Outdated(loads) /\ lastVersion' = 0
      /\ source' = Connecting(s) /\ UNCHANGED <<server, announced, away>>
  BY DEF Selects, serverVars
<1>2. AbortedRefresh(refresh')
  BY <1>1, AbortedIs DEF PageInv, Shapes
<1>3. /\ source' = [pc |-> "connecting", sid |-> s, checking |-> FALSE, last |-> NoSnapshot, wire |-> <<>>]
  BY <1>1 DEF Connecting, NoSource
<1>4. Records'
  <2>1. refresh' = [pc |-> refresh'.pc, sid |-> refresh'.sid, fate |-> refresh'.fate,
                    queued |-> refresh'.queued, answer |-> refresh'.answer]
        /\ refresh'.pc \in {"idle", "asked", "answered"}
    BY <1>2 DEF AbortedRefresh
  <2> QED BY <1>3, <2>1 DEF Records
<1>5. RefreshInv'
  BY <1>2 DEF RefreshInv, AbortedRefresh
<1>6. StreamInv'
  <2>1. Resolved(source'.sid) = Here'
    BY <1>1, <1>3 DEF Here, Resolved
  <2> QED BY <1>3, <2>1, ClosedStream
<1>7. Counted' /\ selected' \in Somebody
  BY <1>1, Spending DEF PageInv, Shapes, Somebody
<1> QED
  BY <1>1, <1>4, <1>5, <1>6, <1>7, NothingShown

-----------------------------------------------------------------------------
(* A snapshot is shown.                                                    *)

\* What the announcement of a page leaves.
EndedIn(page, i) == i \in DOMAIN page.turns /\ page.turns[i].status = "ended"
Announced(page) ==
  /\ tracker' = [sid |-> Here, seen |-> tracker'.seen]
  /\ \A i \in DOMAIN tracker'.seen : tracker'.seen[i] \in BOOLEAN
  /\ \A i : KnownToHaveEnded(i)' <=> KnownToHaveEnded(i) \/ EndedIn(page, i)
  /\ announced' \in [Sessions -> [1 .. MaxTurns -> Nat]]
  /\ \A s \in Sessions : \A i \in 1 .. MaxTurns :
       announced'[s][i] = IF s = Here /\ tracker.sid = Here /\ EndedIn(page, i) /\ ~KnownToHaveEnded(i)
                          THEN announced[s][i] + 1 ELSE announced[s][i]

LEMMA AnnounceIs ==
  ASSUME Shapes, TrackerInv, NEW x, x.sid = Here, Announce(x)
  PROVE  Announced(x.page)
<1> DEFINE baseline == Here # tracker.sid
           old      == IF baseline THEN <<>> ELSE tracker.seen
<1>0. PICK turns : turns = x.page.turns
  OBVIOUS
<1>1. PICK ended : ended = EndedBy(old, turns)
  OBVIOUS
<1> DEFINE fresh == {i \in DOMAIN ended : ended[i] /\ ~(i \in DOMAIN old /\ old[i])}
<1>2. /\ tracker' = [sid |-> Here, seen |-> ended]
      /\ announced' = [announced EXCEPT ![Here] =
                         [i \in DOMAIN announced[Here] |->
                            IF ~baseline /\ i \in fresh THEN announced[Here][i] + 1 ELSE announced[Here][i]]]
  BY <1>0, <1>1 DEF Announce
<1>3. Here \in Sessions /\ Here # Nobody
  BY HereIs, ConstantsAssumption
<1>4. \A i : KnownToHaveEnded(i) <=> i \in DOMAIN old /\ old[i]
  <2>1. CASE baseline
    <3>1. DOMAIN tracker.seen = {} /\ DOMAIN old = {}
      BY <2>1 DEF TrackerInv
    <3> QED BY <3>1 DEF KnownToHaveEnded
  <2>2. CASE ~baseline
    BY <2>2 DEF KnownToHaveEnded
  <2> QED BY <2>1, <2>2
<1> HIDE DEF old
<1>5. DOMAIN ended = DOMAIN old \cup DOMAIN turns
      /\ \A i \in DOMAIN ended :
           ended[i] = (\/ i \in DOMAIN old /\ old[i]
                       \/ i \in DOMAIN turns /\ turns[i].status = "ended")
  BY <1>1 DEF EndedBy
<1>6. \A i \in DOMAIN ended : ended[i] \in BOOLEAN
  BY <1>5
<1>7. \A i : i \in DOMAIN ended /\ ended[i] <=> KnownToHaveEnded(i) \/ EndedIn(x.page, i)
  BY <1>0, <1>4, <1>5 DEF EndedIn
<1>8. \A i : i \in fresh <=> EndedIn(x.page, i) /\ ~KnownToHaveEnded(i)
  BY <1>4, <1>7
<1> HIDE DEF fresh
<1>9. announced \in [Sessions -> [1 .. MaxTurns -> Nat]]
  BY DEF Shapes
<1>10. /\ announced' \in [Sessions -> [1 .. MaxTurns -> Nat]]
       /\ \A s \in Sessions : \A i \in 1 .. MaxTurns :
            announced'[s][i] = IF s = Here /\ ~baseline /\ i \in fresh
                               THEN announced[s][i] + 1 ELSE announced[s][i]
  <2> DEFINE new == [i \in 1 .. MaxTurns |->
                       IF ~baseline /\ i \in fresh THEN announced[Here][i] + 1 ELSE announced[Here][i]]
  <2>1. DOMAIN announced[Here] = 1 .. MaxTurns /\ \A i \in 1 .. MaxTurns : announced[Here][i] \in Nat
    BY <1>3, <1>9
  <2>2. announced' = [announced EXCEPT ![Here] = new]
    BY <1>2, <2>1
  <2>3. new \in [1 .. MaxTurns -> Nat]
    BY <2>1
  <2>4. \A i \in 1 .. MaxTurns :
          new[i] = IF ~baseline /\ i \in fresh THEN announced[Here][i] + 1 ELSE announced[Here][i]
    OBVIOUS
  <2> HIDE DEF new
  <2>5. announced'[Here] = new /\ \A s \in Sessions : s # Here => announced'[s] = announced[s]
    BY <1>3, <1>9, <2>2
  <2> QED BY <1>9, <2>2, <2>3, <2>4, <2>5
<1>11. tracker'.sid = Here /\ tracker'.seen = ended
  BY <1>2
<1>12. \A i : KnownToHaveEnded(i)' <=> KnownToHaveEnded(i) \/ EndedIn(x.page, i)
  <2>1. \A i : KnownToHaveEnded(i)' <=> i \in DOMAIN ended /\ ended[i]
    BY <1>11 DEF KnownToHaveEnded
  <2> QED BY <1>7, <2>1
<1> QED
  BY <1>2, <1>3, <1>6, <1>8, <1>10, <1>11, <1>12 DEF Announced

\* A page that comes in without a reset takes away only what is too old.
LEMMA UpdatedKeeps ==
  ASSUME NEW t, NEW page, IsTimeline(t), IsPage(page), ~MustReset(t, page), NEW i \in DOMAIN t.entries
  PROVE  LET u == Updated(t, page) IN
         i \in DOMAIN u.entries \/ (page.end > i /\ page.end \in DOMAIN u.entries)
<1>1. Timelines(t) /\ DOMAIN t.entries \subseteq Nat
  BY ConstantsAssumption DEF IsTimeline
<1>2. PICK u : u = Updated(t, page)
  OBVIOUS
<1>3. u = Shown(t, page)
  BY <1>2 DEF Updated
<1>4. /\ DOMAIN page.turns \subseteq DOMAIN u.entries
      /\ \/ \A j \in DOMAIN t.entries : j \in DOMAIN u.entries
         \/ DOMAIN u.entries = {j \in DOMAIN t.entries \cup DOMAIN page.turns : j + Keep > page.end}
  BY <1>1, <1>3, ShownEntries
<1>5. page.end \in Nat /\ i \in Nat /\ Keep \in Nat /\ PageSize \in Nat \ {0} /\ PageSize <= Keep
  BY <1>1, PagesAssumption DEF IsPage
<1>6. CASE i \in DOMAIN u.entries
  BY <1>2, <1>6
<1>7. CASE i \notin DOMAIN u.entries
  <2>1. ~(i + Keep > page.end)
    BY <1>4, <1>7
  <2>2. page.end > i /\ page.end \in DOMAIN page.turns
    BY <1>5, <2>1 DEF IsPage
  <2> QED BY <1>2, <1>4, <2>2
<1> QED
  BY <1>6, <1>7

\* The timeline that a snapshot leaves: as it was, if it shows it already.
LEMMA RenderIs ==
  ASSUME PageInv, NEW x, IsSnapshot(x, Here), NEW last, last \in {0, lastVersion}, Render(x, last)
  PROVE  /\ Here' = Here /\ Here \in Sessions /\ selected' = Here
         /\ IsPage(x.page) /\ x.page.end <= MaxTurns /\ x.page.epoch # NoEpoch /\ Announced(x.page)
         /\ \/ UNCHANGED <<timeline, loads>> /\ tracker.sid = Here
            \/ /\ timeline' = Updated(timeline, x.page)
               /\ \/ loads' = loads /\ ~MustReset(timeline, x.page)
                  \/ loads' = Outdated(loads)
<1>1. x.sid = Here /\ IsPage(x.page) /\ x.version \in Nat \ {0} /\ x.page.epoch # NoEpoch
  BY DEF IsSnapshot
<1>2. Here \in Sessions /\ Here # Nobody
  BY HereIs, ConstantsAssumption DEF PageInv
<1>3. selected' = Here /\ Here' = Here
  BY <1>1, <1>2 DEF Render, Here, Resolved
<1>4. Announced(x.page)
  BY <1>1, AnnounceIs DEF Render, PageInv
<1>5. x.page.end <= MaxTurns
  BY <1>2, SnapshotEnd DEF PageInv
<1>6. CASE x.version = last
  <2>1. UNCHANGED <<timeline, loads>>
    BY <1>6 DEF Render
  <2>2. lastVersion # 0
    BY <1>1, <1>6
  <2>3. tracker.sid = Here
    BY <2>2 DEF PageInv, TrackerInv
  <2> QED BY <1>1, <1>2, <1>3, <1>4, <1>5, <2>1, <2>3
<1>7. CASE x.version # last
  BY <1>1, <1>2, <1>3, <1>4, <1>5, <1>7 DEF Render
<1> QED
  BY <1>6, <1>7

LEMMA RenderKeepsTimeline ==
  ASSUME PageInv, NEW x, IsSnapshot(x, Here), NEW last, last \in {0, lastVersion}, Render(x, last),
         UNCHANGED server
  PROVE  TimelineInv'
<1>1. /\ Here' = Here /\ Here \in Sessions
      /\ IsPage(x.page) /\ x.page.end <= MaxTurns /\ x.page.epoch # NoEpoch
      /\ timeline' = timeline \/ timeline' = Updated(timeline, x.page)
  BY RenderIs
<1>2. IsTimeline(timeline) /\ UpTo(timeline, Now(Here)) /\ Now(Here) \in Nat /\ Reach(x.page) <= Now(Here)
  BY <1>1, NowIs DEF PageInv, TimelineInv, IsSnapshot
<1>3. IsTimeline(Updated(timeline, x.page)) /\ UpTo(Updated(timeline, x.page), Now(Here))
  BY <1>1, <1>2, UpdatedIs, UpdatedUpTo
<1>4. PICK t : t = timeline' /\ IsTimeline(t) /\ UpTo(t, Now(Here))
  BY <1>1, <1>2, <1>3
<1>5. Now(Here)' = Now(Here)
  BY <1>1 DEF Now
<1>6. IsTimeline(timeline)'
  BY <1>4 DEF IsTimeline, IsPage, IsTurn, Behind, Timelines
<1>7. UpTo(timeline, Now(Here))'
  BY <1>4, <1>5 DEF UpTo, Reach
<1> QED
  BY <1>6, <1>7 DEF TimelineInv

\* What a snapshot says of the turns that were announced, or had ended at first.
LEMMA SnapshotTells ==
  ASSUME PageInv, NEW x, IsSnapshot(x, Here), NEW i \in 1 .. MaxTurns,
         Past(Here, i)
  PROVE  /\ KnownToHaveEnded(i) \/ EndedIn(x.page, i) \/ i + PageSize <= x.page.end
         /\ i \in DOMAIN x.page.turns /\ x.page.turns[i].status = "running" => KnownToHaveEnded(i)
<1> DEFINE page == x.page
<1>0. Here \in Sessions
  BY HereIs DEF PageInv
<1>1. IsPage(page)
  BY DEF IsSnapshot
<1>2. /\ Reach(page) \in Nat /\ Reach(page) <= 2 * page.end
      /\ \A j \in DOMAIN page.turns : page.turns[j].status = "ended" <=> 2 * j <= Reach(page)
  BY <1>1, PageReach
<1>3. i \in Nat \ {0}
  BY ConstantsAssumption
<1>4. 2 * i <= Reach(page) \/ KnownToHaveEnded(i)
  BY DEF IsSnapshot
<1>5. PageSize \in Nat \ {0} /\ page.end \in Nat
      /\ page.start = (IF page.end > PageSize THEN page.end - PageSize ELSE 0)
      /\ DOMAIN page.turns = page.start + 1 .. page.end
  BY <1>1, PagesAssumption DEF IsPage
<1> HIDE DEF page
<1>6. CASE KnownToHaveEnded(i)
  BY <1>6
<1>7. CASE 2 * i <= Reach(page)
  <2>1. i <= page.end
    BY <1>2, <1>3, <1>5, <1>7
  <2>2. CASE i \in DOMAIN page.turns
    <3>1. page.turns[i].status = "ended"
      BY <1>2, <1>7, <2>2
    <3> QED BY <2>2, <3>1 DEF EndedIn, page
  <2>3. CASE i \notin DOMAIN page.turns
    <3>1. i <= page.start
      BY <1>3, <1>5, <2>1, <2>3
    <3>2. i + PageSize <= page.end
      BY <1>3, <1>5, <3>1
    <3> QED BY <2>3, <3>2 DEF page
  <2> QED BY <2>2, <2>3
<1> QED
  BY <1>4, <1>6, <1>7

LEMMA RenderKeepsTracker ==
  ASSUME PageInv, NEW x, IsSnapshot(x, Here), NEW last, last \in {0, lastVersion}, Render(x, last),
         UNCHANGED away
  PROVE  TrackerInv'
<1>1. /\ Here' = Here /\ Here \in Sessions /\ Here # Nobody
      /\ IsPage(x.page) /\ x.page.end <= MaxTurns /\ x.page.epoch # NoEpoch /\ Announced(x.page)
      /\ \/ timeline' = timeline /\ tracker.sid = Here
         \/ timeline' = Updated(timeline, x.page)
  BY RenderIs, ConstantsAssumption
<1>2. /\ tracker'.sid = Here
      /\ \A i : KnownToHaveEnded(i)' <=> KnownToHaveEnded(i) \/ EndedIn(x.page, i)
      /\ \A i \in 1 .. MaxTurns :
           announced'[Here][i] = announced[Here][i] \/ KnownToHaveEnded(i)'
  BY <1>1 DEF Announced
<1>3. IsTimeline(timeline) /\ TrackerInv
  BY DEF PageInv, TimelineInv
<1>4. ASSUME NEW i \in 1 .. MaxTurns, Past(Here, i)'
      PROVE  KnownToHaveEnded(i)' \/ i + PageSize <= timeline'.latest.end
  <2>1. CASE KnownToHaveEnded(i)'
    BY <2>1
  <2>2. CASE ~KnownToHaveEnded(i)'
    <3>1. Past(Here, i)
      BY <1>1, <1>2, <1>4, <2>2 DEF Past
    <3>2. ~KnownToHaveEnded(i) /\ ~EndedIn(x.page, i)
      BY <1>2, <2>2
    <3>3. CASE timeline' = timeline /\ tracker.sid = Here
      BY <1>3, <3>1, <3>2, <3>3 DEF TrackerInv
    <3>4. CASE timeline' = Updated(timeline, x.page)
      <4>1. timeline'.latest = x.page
        BY <1>1, <1>3, <3>4, UpdatedIs
      <4> QED BY <3>1, <3>2, <4>1, SnapshotTells
    <3> QED BY <1>1, <3>3, <3>4
  <2> QED BY <2>1, <2>2
<1>5. ASSUME NEW i \in DOMAIN timeline'.entries, timeline'.entries[i].status = "running"
      PROVE  announced'[Here][i] = 0 \/ KnownToHaveEnded(i)'
  <2>0. i \in 1 .. MaxTurns
    <3>1. IsTimeline(Updated(timeline, x.page))
      BY <1>1, <1>3, UpdatedIs
    <3> QED BY <1>1, <1>3, <3>1 DEF IsTimeline
  <2>1. SUFFICES ASSUME ~KnownToHaveEnded(i)' PROVE announced[Here][i] = 0
    BY <1>2, <2>0
  <2>2. ~KnownToHaveEnded(i)
    BY <1>2, <2>1
  <2>3. CASE i \in DOMAIN timeline.entries /\ timeline.entries[i] = timeline'.entries[i]
    BY <1>3, <1>5, <2>2, <2>3 DEF TrackerInv
  <2>4. CASE i \in DOMAIN x.page.turns /\ timeline'.entries[i] = x.page.turns[i]
    <3>1. announced[Here][i] \in Nat
      BY <1>1, <2>0 DEF PageInv, Shapes
    <3>2. ~(announced[Here][i] > 0)
      BY <1>5, <2>0, <2>2, <2>4, SnapshotTells DEF Past
    <3> QED BY <3>1, <3>2
  <2>5. \/ i \in DOMAIN timeline.entries /\ timeline.entries[i] = timeline'.entries[i]
        \/ i \in DOMAIN x.page.turns /\ timeline'.entries[i] = x.page.turns[i]
    <3>1. CASE timeline' = timeline
      BY <3>1
    <3>2. CASE timeline' = Updated(timeline, x.page)
      BY <1>1, <1>3, <3>2, UpdatedIs
    <3> QED BY <1>1, <3>1, <3>2
  <2> QED BY <2>3, <2>4, <2>5
<1> HIDE DEF Here
<1> QED
  BY <1>1, <1>2, <1>4, <1>5 DEF TrackerInv

LEMMA RenderKeepsRequests ==
  ASSUME PageInv, NEW x, IsSnapshot(x, Here), NEW last, last \in {0, lastVersion}, Render(x, last)
  PROVE  AllRequests'
<1>1. /\ Here' = Here /\ IsPage(x.page) /\ x.page.end <= MaxTurns /\ x.page.epoch # NoEpoch
      /\ \/ UNCHANGED <<timeline, loads>>
         \/ /\ timeline' = Updated(timeline, x.page)
            /\ \/ loads' = loads /\ ~MustReset(timeline, x.page)
               \/ loads' = Outdated(loads)
  BY RenderIs
<1>2. IsTimeline(timeline) /\ AllRequests
  BY DEF PageInv, TimelineInv
<1>3. CASE UNCHANGED <<timeline, loads>>
  BY <1>1, <1>2, <1>3 DEF AllRequests, RequestInv
<1>4. CASE loads' = Outdated(loads)
  BY <1>4, OutdatedIsOver DEF AllRequests
<1>5. CASE timeline' = Updated(timeline, x.page) /\ loads' = loads /\ ~MustReset(timeline, x.page)
  <2>1. timeline'.epoch = timeline.epoch
    BY <1>1, <1>2, <1>5, UpdatedIs DEF MustReset
  <2>2. ASSUME NEW l \in loads, l.current PROVE RequestInv(l)'
    <3>1. RequestInv(l)
      BY <1>2, <2>2 DEF AllRequests
    <3>2. PICK i \in DOMAIN timeline.entries : l.before < i
      BY <3>1 DEF RequestInv
    <3>3. i \in DOMAIN timeline'.entries \/ (x.page.end > i /\ x.page.end \in DOMAIN timeline'.entries)
      BY <1>1, <1>2, <1>5, UpdatedKeeps
    <3>4. i \in Nat /\ l.before \in Nat /\ x.page.end \in Nat
      BY <1>1, <1>2, <3>1, ConstantsAssumption DEF IsTimeline, RequestInv, IsPage
    <3>5. \E j \in DOMAIN timeline'.entries : l.before < j
      BY <3>2, <3>3, <3>4
    <3> QED BY <1>1, <2>1, <3>1, <3>5 DEF RequestInv
  <2> QED BY <1>5, <2>2 DEF AllRequests
<1> QED
  BY <1>1, <1>3, <1>4, <1>5

LEMMA RenderKeepsHistories ==
  ASSUME PageInv, NEW x, IsSnapshot(x, Here), NEW last, last \in {0, lastVersion}, Render(x, last),
         UNCHANGED <<server, away, spent>>
  PROVE  Histories'
<1>1. Here \in Sessions /\ IsPage(x.page) /\ Announced(x.page)
  BY RenderIs
<1>2. Histories /\ Shapes
  BY DEF PageInv
<1>3. \A s \in Sessions : Now(s)' = Now(s)
  BY DEF Now
<1>4. ASSUME NEW s \in Sessions, NEW i \in 1 .. MaxTurns, Past(s, i)'
      PROVE  2 * i <= Now(s)
  <2>1. CASE announced'[s][i] = announced[s][i]
    BY <1>2, <1>4, <2>1 DEF Histories, Past
  <2>2. CASE s = Here /\ EndedIn(x.page, i)
    <3>1. 2 * i <= Reach(x.page) /\ Reach(x.page) \in Nat
      BY <1>1, <2>2, PageReach DEF EndedIn
    <3>2. Reach(x.page) <= Now(Here) /\ Now(Here) \in Nat
      BY <1>1, <1>2, NowIs DEF IsSnapshot
    <3> QED BY <2>2, <3>1, <3>2
  <2> QED BY <1>1, <2>1, <2>2 DEF Announced
<1> QED
  BY <1>2, <1>3, <1>4 DEF Histories

\* A snapshot shown leaves the others as good as they were.
LEMMA RenderKeepsSnapshots ==
  ASSUME PageInv, NEW x, IsSnapshot(x, Here), NEW last, last \in {0, lastVersion}, Render(x, last),
         UNCHANGED <<server, away>>, NEW y, IsSnapshot(y, Here)
  PROVE  IsSnapshot(y, Here)'
<1>1. Here' = Here /\ Here \in Sessions /\ Announced(x.page)
  BY RenderIs
<1>2. Now(Here)' = Now(Here)
  BY <1>1 DEF Now
<1>3. ASSUME NEW i \in 1 .. MaxTurns, Past(Here, i)'
      PROVE  2 * i <= Reach(y.page) \/ KnownToHaveEnded(i)'
  <2>1. CASE announced'[Here][i] = announced[Here][i]
    <3>1. 2 * i <= Reach(y.page) \/ KnownToHaveEnded(i)
      BY <1>1, <1>3, <2>1 DEF IsSnapshot, Past
    <3> QED BY <1>1, <3>1 DEF Announced
  <2>2. CASE EndedIn(x.page, i)
    BY <1>1, <2>2 DEF Announced
  <2> QED BY <1>1, <2>1, <2>2 DEF Announced
<1> HIDE DEF Here
<1> QED
  BY <1>1, <1>2, <1>3 DEF IsSnapshot, IsPage, IsTurn, Reach, Steps

LEMMA RenderStep ==
  ASSUME PageInv, NEW x, IsSnapshot(x, Here), NEW last, last \in {0, lastVersion}, Render(x, last),
         UNCHANGED <<server, away, spent>>, Records', StreamInv', RefreshInv'
  PROVE  PageInv'
<1>1. selected' = Here /\ Here \in Sessions /\ Announced(x.page)
  BY RenderIs
<1>2. lastVersion' \in Nat
  BY DEF Render, IsSnapshot
<1>3. Counted'
  BY DEF PageInv, Shapes, Counted
<1>4. tracker' = [sid |-> tracker'.sid, seen |-> tracker'.seen]
  BY <1>1 DEF Announced
<1>5. selected' \in Somebody
  BY <1>1 DEF Somebody
<1>a. away' \in [Sessions -> SUBSET (1 .. MaxTurns)]
  BY DEF PageInv, Shapes
<1>6. Shapes'
  BY <1>1, <1>2, <1>3, <1>4, <1>5, <1>a DEF Shapes, Announced
<1>7. LoadInv'
  BY RenderKeepsLoadInv DEF PageInv
<1> QED
  BY <1>6, <1>7, RenderKeepsHistories, RenderKeepsTimeline, RenderKeepsTracker, RenderKeepsRequests DEF PageInv

LEMMA FrameArrivesStep ==
  ASSUME PageInv, FrameArrives
  PROVE  PageInv'
<1>1. /\ source.wire # <<>> /\ source' = [source EXCEPT !.wire = <<>>] /\ ready' = TRUE
      /\ refresh' = Overtaken(refresh) /\ UNCHANGED <<server, away, spent>>
  BY DEF FrameArrives, serverVars
<1>2. PICK x : x = source.wire[1].snapshot
  OBVIOUS
<1>3. PICK last : last \in {0, lastVersion} /\ Render(x, last)
  BY <1>2 DEF FrameArrives
<1>4. Records /\ StreamInv
  BY DEF PageInv, Shapes
<1>5. IsSnapshot(x, Here) /\ source.pc = "open" /\ source.sid = Here
  BY <1>1, <1>2, <1>4 DEF StreamInv, FrameInv
<1>6. Here' = Here /\ Here \in Sessions
  BY <1>3, <1>5, RenderIs
<1>7. source' = [pc |-> "open", sid |-> Here, checking |-> source.checking, last |-> source.last, wire |-> <<>>]
  BY <1>1, <1>4, <1>5 DEF Records
<1>8. refresh' = [pc |-> refresh'.pc, sid |-> refresh'.sid, fate |-> refresh'.fate,
                  queued |-> refresh'.queued, answer |-> refresh'.answer]
      /\ refresh'.pc \in {"idle", "asked", "answered"}
      /\ (refresh'.pc = "idle" \/ refresh'.fate # "wanted")
  <2>1. CASE refresh.pc # "idle" /\ refresh.fate = "wanted"
    <3>1. refresh' = [refresh EXCEPT !.fate = "overtaken"]
      BY <1>1, <2>1 DEF Overtaken
    <3>2. refresh' = [pc |-> refresh.pc, sid |-> refresh.sid, fate |-> "overtaken",
                      queued |-> refresh.queued, answer |-> refresh.answer]
      BY <1>4, <3>1 DEF Records
    <3> QED BY <1>4, <3>2 DEF Records
  <2>2. CASE ~(refresh.pc # "idle" /\ refresh.fate = "wanted")
    BY <1>1, <1>4, <2>2 DEF Overtaken, Records
  <2> QED BY <2>1, <2>2
<1>9. Records' /\ RefreshInv'
  BY <1>7, <1>8 DEF Records, RefreshInv
<1>10. StreamInv'
  <2>1. Resolved(source.sid)' = Here
    BY <1>6, <1>7, ConstantsAssumption DEF Resolved
  <2>2. source'.pc = "open" /\ source'.sid = Here /\ source'.wire = <<>>
    BY <1>7
  <2> HIDE DEF Here
  <2> QED BY <1>1, <1>6, <2>1, <2>2 DEF StreamInv
<1> QED
  BY <1>1, <1>3, <1>5, <1>9, <1>10, RenderStep

LEMMA RefreshIsShownStep ==
  ASSUME PageInv, RefreshIsShown
  PROVE  PageInv'
<1>1. /\ refresh.pc = "answered" /\ refresh.fate = "wanted" /\ refresh.answer # NoSnapshot
      /\ refresh' = NoRefresh /\ UNCHANGED <<server, away, source, ready, spent>>
  BY DEF RefreshIsShown, RefreshOver, serverVars
<1>2. PICK x : x = refresh.answer
  OBVIOUS
<1>3. Render(x, lastVersion)
  BY <1>2 DEF RefreshIsShown
<1>4. ~ready /\ IsSnapshot(x, Here) /\ UpTo(timeline, Reach(x.page))
  BY <1>1, <1>2 DEF PageInv, RefreshInv
<1>5. /\ Here' = Here /\ Here \in Sessions
      /\ IsPage(x.page) /\ x.page.end <= MaxTurns /\ x.page.epoch # NoEpoch
      /\ timeline' = timeline \/ timeline' = Updated(timeline, x.page)
  BY <1>3, <1>4, RenderIs
<1>6. Records' /\ RefreshInv'
  BY <1>1 DEF PageInv, Shapes, Records, RefreshInv, NoRefresh
<1>7. StreamInv
  BY DEF PageInv
<1>8. ASSUME source.wire # <<>> PROVE FrameInv(source.wire[1])'
  <2>1. PICK frame : frame = source.wire[1]
    OBVIOUS
  <2>2. /\ frame.event = "snapshot" /\ IsSnapshot(frame.snapshot, Here)
        /\ Behind(timeline) => \A i \in DOMAIN timeline.entries : i <= frame.snapshot.page.end
    BY <1>4, <1>7, <1>8, <2>1 DEF StreamInv, FrameInv
  <2>3. IsSnapshot(frame.snapshot, Here)'
    BY <1>1, <1>3, <1>4, <2>2, RenderKeepsSnapshots
  <2>4. ASSUME timeline' = Updated(timeline, x.page), NEW i \in DOMAIN timeline'.entries
        PROVE  ~(i > timeline'.latest.end)
    <3>1. Reach(x.page) \in Nat /\ Reach(x.page) <= 2 * x.page.end /\ x.page.end \in Nat
      BY <1>5, PageReach DEF IsPage
    <3>2. IsTimeline(timeline)
      BY DEF PageInv, TimelineInv
    <3>3. UpTo(timeline', Reach(x.page))
      BY <1>4, <1>5, <2>4, <3>1, <3>2, UpdatedUpTo
    <3>4. timeline'.latest = x.page /\ DOMAIN timeline'.entries \subseteq Nat
      <4>1. PICK u : u = Updated(timeline, x.page)
        OBVIOUS
      <4>2. u.latest = x.page /\ IsTimeline(u)
        BY <1>5, <3>2, <4>1, UpdatedIs
      <4> QED BY <2>4, <4>1, <4>2, ConstantsAssumption DEF IsTimeline
    <3> QED BY <3>1, <3>3, <3>4 DEF UpTo
  <2>5. Behind(timeline)' => timeline' = timeline
    BY <1>5, <2>4 DEF Behind
  <2>6. FrameInv(frame)'
    BY <2>2, <2>3, <2>5 DEF FrameInv, Behind
  <2>7. (source.wire[1])' = frame
    BY <1>1, <2>1
  <2> QED BY <2>6, <2>7 DEF FrameInv, IsSnapshot, UpTo, Reach, Behind
<1>9. StreamInv'
  <2>1. Resolved(source.sid)' = Resolved(source.sid)
    BY <1>1 DEF Resolved
  <2> HIDE DEF Here
  <2> QED BY <1>1, <1>5, <1>7, <1>8, <2>1 DEF StreamInv
<1> QED
  BY <1>1, <1>3, <1>4, <1>6, <1>9, RenderStep

-----------------------------------------------------------------------------
(* Steps of the timeline alone.                                            *)

\* What u shows was shown by t, or is of the page shown last, or has ended and is
\* from before something shown by t.
ComesFrom(u, t) ==
  /\ IsTimeline(u) /\ u.latest = t.latest /\ u.epoch = t.epoch
  /\ \A i \in DOMAIN u.entries :
       \/ i \in DOMAIN t.entries /\ u.entries[i] = t.entries[i]
       \/ i \in DOMAIN t.latest.turns /\ u.entries[i] = t.latest.turns[i]
       \/ u.entries[i].status = "ended" /\ \E j \in DOMAIN t.entries : i < j

LEMMA ComesUpTo ==
  ASSUME NEW t, NEW u, IsTimeline(t), ComesFrom(u, t), NEW reach \in Nat, UpTo(t, reach)
  PROVE  UpTo(u, reach)
<1>1. DOMAIN u.entries \subseteq Nat /\ DOMAIN t.entries \subseteq Nat /\ IsPage(t.latest) /\ u.latest = t.latest
  BY ConstantsAssumption DEF IsTimeline, ComesFrom
<1>2. Reach(t.latest) <= reach /\ Reach(t.latest) \in Nat
  BY <1>1, PageReach DEF UpTo
<1>3. ASSUME NEW i \in DOMAIN u.entries
      PROVE  2 * i - 1 <= reach /\ (u.entries[i].status = "ended" => 2 * i <= reach)
  <2>1. CASE i \in DOMAIN t.entries /\ u.entries[i] = t.entries[i]
    BY <2>1 DEF UpTo
  <2>2. CASE i \in DOMAIN t.latest.turns /\ u.entries[i] = t.latest.turns[i]
    <3>1. 2 * i - 1 <= Reach(t.latest) /\ (u.entries[i].status = "ended" => 2 * i <= Reach(t.latest))
      BY <1>1, <2>2, PageReach
    <3> QED BY <1>1, <1>2, <3>1
  <2>3. CASE \E j \in DOMAIN t.entries : i < j
    <3>1. PICK j \in DOMAIN t.entries : i < j
      BY <2>3
    <3>2. 2 * j - 1 <= reach
      BY DEF UpTo
    <3> QED BY <1>1, <3>1, <3>2
  <2> QED BY <2>1, <2>2, <2>3 DEF ComesFrom
<1> QED
  BY <1>1, <1>2, <1>3 DEF UpTo

\* What is behind in u is behind in t, and no further.
LEMMA ComesBehind ==
  ASSUME NEW t, NEW u, IsTimeline(t), ComesFrom(u, t), NEW end \in Nat,
         Behind(t) => \A i \in DOMAIN t.entries : i <= end
  PROVE  Behind(u) => \A i \in DOMAIN u.entries : i <= end
<1>0. DOMAIN u.entries \subseteq Nat /\ DOMAIN t.entries \subseteq Nat /\ t.latest.end \in Nat
      /\ u.latest = t.latest /\ DOMAIN t.latest.turns \subseteq DOMAIN t.entries
  BY ConstantsAssumption DEF IsTimeline, IsPage, ComesFrom
<1>1. ASSUME NEW i \in DOMAIN u.entries PROVE \E j \in DOMAIN t.entries : i <= j
  <2>1. CASE i \in DOMAIN t.entries
    BY <1>0, <2>1
  <2>2. CASE \E j \in DOMAIN t.entries : i < j
    BY <1>0, <2>2
  <2> QED BY <1>0, <2>1, <2>2 DEF ComesFrom
<1>2. Behind(u) => Behind(t)
  BY <1>0, <1>1 DEF Behind
<1> QED
  BY <1>0, <1>1, <1>2

LEMMA TimelineStep ==
  ASSUME PageInv, ComesFrom(timeline', timeline),
         UNCHANGED <<server, away, selected, source, ready, refresh, lastVersion, tracker, announced>>,
         UNCHANGED spent \/ Spend("moves"), LoadInv', AllRequests'
  PROVE  PageInv'
<1>1. Counted' /\ Histories'
  BY SpentGrows DEF PageInv, Grows
<1>2. Shapes'
  BY <1>1 DEF PageInv, Shapes, Records
<1>3. Here' = Here /\ Here \in Sessions /\ Now(Here)' = Now(Here) /\ Now(Here) \in Nat
  BY HereIs, NowIs DEF PageInv, Here, Resolved, Now
<1>4. PICK u : u = timeline'
  OBVIOUS
<1>5. IsTimeline(timeline) /\ UpTo(timeline, Now(Here)) /\ ComesFrom(u, timeline) /\ IsTimeline(u)
  BY <1>4 DEF PageInv, TimelineInv, ComesFrom
<1>6. \A reach \in Nat : UpTo(timeline, reach) => UpTo(u, reach)
  BY <1>5, ComesUpTo
<1>7. TimelineInv'
  <2>1. UpTo(u, Now(Here))
    BY <1>3, <1>5, <1>6
  <2>2. IsTimeline(timeline)'
    BY <1>4, <1>5 DEF IsTimeline, IsPage, IsTurn, Behind, Timelines
  <2>3. UpTo(timeline, Now(Here))'
    BY <1>3, <1>4, <2>1 DEF UpTo, Reach
  <2> QED BY <2>2, <2>3 DEF TimelineInv
<1>8. TrackerInv'
  <2>1. TrackerInv
    BY DEF PageInv
  <2>2. \A i : KnownToHaveEnded(i)' <=> KnownToHaveEnded(i)
    BY DEF KnownToHaveEnded
  <2>3. u.latest = timeline.latest /\ u.epoch = timeline.epoch
    BY <1>5 DEF ComesFrom
  <2>4. ASSUME NEW i \in DOMAIN u.entries, u.entries[i].status = "running"
        PROVE  announced[Here][i] = 0 \/ KnownToHaveEnded(i)
    <3>1. CASE i \in DOMAIN timeline.entries /\ u.entries[i] = timeline.entries[i]
      BY <2>1, <2>4, <3>1 DEF TrackerInv
    <3>2. CASE i \in DOMAIN timeline.latest.turns
      <4>1. IsPage(timeline.latest) /\ i \in 1 .. MaxTurns
        BY <1>5, <3>2 DEF IsTimeline
      <4>2. ~(i + PageSize <= timeline.latest.end)
        BY <3>2, <4>1, PagesAssumption DEF IsPage
      <4>3. timeline.epoch # NoEpoch
        <5>1. timeline.latest.end # 0
          BY <3>2, <4>1, PagesAssumption DEF IsPage
        <5> QED BY <1>5, <5>1 DEF IsTimeline
      <4>4. tracker.sid = Here
        BY <2>1, <4>3 DEF TrackerInv
      <4>5. announced[Here][i] \in Nat
        BY <1>3, <4>1 DEF PageInv, Shapes
      <4> QED BY <2>1, <4>1, <4>2, <4>4, <4>5 DEF TrackerInv, Past
    <3> QED BY <1>5, <2>4, <3>1, <3>2 DEF ComesFrom
  <2>5. tracker.sid = Nobody => DOMAIN u.entries = {}
    <3>1. tracker.sid = Nobody => u.epoch = NoEpoch
      BY <2>1, <2>3 DEF TrackerInv
    <3> QED BY <1>5, <3>1 DEF IsTimeline
  <2> HIDE DEF Here
  <2> QED BY <1>3, <1>4, <2>1, <2>2, <2>3, <2>4, <2>5 DEF TrackerInv, Past
<1>9. \A y : IsSnapshot(y, Here) => IsSnapshot(y, Here)' /\ Reach(y.page) \in Nat /\ y.page.end \in Nat
  <2>1. ASSUME NEW y, IsSnapshot(y, Here)
        PROVE  IsSnapshot(y, Here)' /\ Reach(y.page) \in Nat /\ y.page.end \in Nat
    <3>1. \A i : KnownToHaveEnded(i)' <=> KnownToHaveEnded(i)
      BY DEF KnownToHaveEnded
    <3>2. IsSnapshot(y, Here)'
      BY <1>3, <2>1, <3>1 DEF IsSnapshot, IsPage, IsTurn, Reach, Steps, Past
    <3> QED BY <1>3, <2>1, <3>2, SnapshotEnd DEF PageInv
  <2> QED BY <2>1
<1>10. RefreshInv'
  <2>1. SUFFICES ASSUME refresh.pc # "idle", refresh.fate = "wanted"
                 PROVE  /\ ~ready' /\ Resolved(refresh.sid)' = Here'
                        /\ refresh.pc = "answered" /\ refresh.answer # NoSnapshot =>
                             IsSnapshot(refresh.answer, Here)' /\ UpTo(timeline, Reach(refresh.answer.page))'
    BY DEF RefreshInv
  <2>2. RefreshInv /\ Resolved(refresh.sid)' = Resolved(refresh.sid)
    BY DEF PageInv, Resolved
  <2>3. ASSUME refresh.pc = "answered", refresh.answer # NoSnapshot
        PROVE  IsSnapshot(refresh.answer, Here)' /\ UpTo(timeline, Reach(refresh.answer.page))'
    <3>1. PICK y : y = refresh.answer
      OBVIOUS
    <3>2. IsSnapshot(y, Here) /\ UpTo(timeline, Reach(y.page))
      BY <2>1, <2>2, <2>3, <3>1 DEF RefreshInv
    <3>3. IsSnapshot(y, Here)' /\ UpTo(u, Reach(y.page)) /\ (refresh.answer)' = y
      BY <1>6, <1>9, <3>1, <3>2
    <3>4. UpTo(timeline, Reach(y.page))'
      BY <1>4, <3>3 DEF UpTo, Reach
    <3> QED BY <3>1, <3>3, <3>4 DEF UpTo, Reach, IsSnapshot
  <2> QED BY <1>3, <2>1, <2>2, <2>3 DEF RefreshInv
<1>11. ASSUME source.wire # <<>> PROVE FrameInv(source.wire[1])'
  <2>1. PICK frame : frame = source.wire[1]
    OBVIOUS
  <2>2. FrameInv(frame)
    BY <1>11, <2>1 DEF PageInv, StreamInv
  <2>3. IsSnapshot(frame.snapshot, Here) /\ IsSnapshot(frame.snapshot, Here)'
        /\ Reach(frame.snapshot.page) \in Nat /\ frame.snapshot.page.end \in Nat
    BY <1>9, <2>2 DEF FrameInv
  <2>4. CASE frame.event = "delta"
    <3>1. ready /\ UpTo(timeline, Reach(frame.snapshot.page))
      BY <2>2, <2>4 DEF FrameInv
    <3>2. UpTo(u, Reach(frame.snapshot.page))
      BY <1>6, <2>3, <3>1
    <3>3. UpTo(timeline, Reach(frame.snapshot.page))'
      BY <1>4, <3>2 DEF UpTo, Reach
    <3>4. FrameInv(frame)'
      BY <2>3, <2>4, <3>1, <3>3 DEF FrameInv
    <3> QED BY <2>1, <3>4
  <2>5. CASE frame.event = "snapshot"
    <3>1. Behind(timeline) => \A i \in DOMAIN timeline.entries : i <= frame.snapshot.page.end
      BY <2>2, <2>5 DEF FrameInv
    <3>2. Behind(u) => \A i \in DOMAIN u.entries : i <= frame.snapshot.page.end
      BY <1>5, <2>3, <3>1, ComesBehind
    <3>3. FrameInv(frame)'
      BY <1>4, <2>3, <2>5, <3>2 DEF FrameInv, Behind
    <3> QED BY <2>1, <3>3
  <2> QED BY <2>2, <2>4, <2>5 DEF FrameInv
<1>12. StreamInv'
  <2>1. Resolved(source.sid)' = Resolved(source.sid)
    BY DEF Resolved
  <2> HIDE DEF Here
  <2> QED BY <1>3, <1>11, <2>1 DEF PageInv, StreamInv
<1> QED
  BY <1>1, <1>2, <1>7, <1>8, <1>10, <1>12 DEF PageInv

\* Without new entries.
LEMMA SameEntries ==
  ASSUME PageInv, Timelines(timeline'),
         UNCHANGED <<timeline.entries, timeline.latest, timeline.epoch>>
  PROVE  ComesFrom(timeline', timeline)
<1>1. PICK u : u = timeline'
  OBVIOUS
<1>2. /\ u.entries = timeline.entries /\ u.latest = timeline.latest /\ u.epoch = timeline.epoch
      /\ Timelines(u) /\ IsTimeline(timeline)
  BY <1>1 DEF PageInv, TimelineInv
<1>3. IsTimeline(u)
  BY <1>2 DEF IsTimeline, Behind
<1> QED
  BY <1>1, <1>2, <1>3 DEF ComesFrom

LEMMA SameRequests ==
  ASSUME PageInv, UNCHANGED <<timeline.entries, timeline.epoch, selected>>, loads' \subseteq loads
  PROVE  AllRequests'
  BY DEF PageInv, AllRequests, RequestInv, Here, Resolved

LEMMA ScrollsStep ==
  ASSUME PageInv, Scrolls
  PROVE  PageInv'
<1>1. /\ timeline' = [timeline EXCEPT !.following = ~@]
      /\ UNCHANGED <<serverVars, selected, source, ready, refresh, lastVersion, loads, tracker, announced, spent>>
  BY DEF Scrolls, streamVars
<1>2. Timelines(timeline)
  BY DEF PageInv, LoadInv
<1>3. timeline' = [epoch |-> timeline.epoch, entries |-> timeline.entries, latest |-> timeline.latest,
                   following |-> ~timeline.following, loading |-> timeline.loading, failed |-> timeline.failed]
  BY <1>1, <1>2 DEF Timelines
<1>4. Timelines(timeline') /\ UNCHANGED <<timeline.entries, timeline.latest, timeline.epoch>>
  BY <1>2, <1>3 DEF Timelines
<1>5. LoadInv'
  BY StepKeepsLoadInv DEF PageInv, Next, Reader
<1> QED
  BY <1>1, <1>4, <1>5, SameEntries, SameRequests, TimelineStep DEF serverVars

LEMMA LoadBeginsStep ==
  ASSUME PageInv, LoadBegins
  PROVE  PageInv'
<1>1. /\ timeline' = Loading(timeline) /\ DOMAIN timeline.entries # {} /\ Oldest(timeline) > 1
      /\ loads' = loads \cup {[current |-> TRUE, sid |-> Resolved(selected), epoch |-> timeline.epoch,
                               before |-> Oldest(timeline) - 1, answer |-> "none", page |-> NoPage]}
      /\ Spend("moves")
      /\ UNCHANGED <<serverVars, selected, source, ready, refresh, lastVersion, tracker, announced>>
  BY DEF LoadBegins, streamVars, HasEarlier
<1>2. Timelines(timeline) /\ IsTimeline(timeline)
  BY DEF PageInv, LoadInv, TimelineInv
<1>3. timeline' = [epoch |-> timeline.epoch, entries |-> timeline.entries, latest |-> timeline.latest,
                   following |-> FALSE, loading |-> TRUE, failed |-> FALSE]
  BY <1>1, <1>2 DEF Timelines, Loading
<1>4. Timelines(timeline') /\ UNCHANGED <<timeline.entries, timeline.latest, timeline.epoch>>
  BY <1>3 DEF Timelines
<1>5. LoadInv'
  BY StepKeepsLoadInv DEF PageInv, Next, Reader
<1>6. PICK before : before = Oldest(timeline) - 1
  OBVIOUS
<1>7. before \in Nat /\ \E i \in DOMAIN timeline.entries : before < i
  <2>1. Oldest(timeline) \in DOMAIN timeline.entries /\ DOMAIN timeline.entries \subseteq Nat
    BY <1>1, <1>2, OldestIs, ConstantsAssumption DEF IsTimeline
  <2> QED BY <1>1, <1>6, <2>1
<1>8. Here' = Here
  BY <1>1 DEF Here, Resolved
<1>9. AllRequests'
  <2>1. ASSUME NEW l \in loads', l.current PROVE RequestInv(l)'
    <3>1. CASE l \in loads
      <4>1. RequestInv(l)
        BY <2>1, <3>1 DEF PageInv, AllRequests
      <4> QED BY <1>4, <1>8, <4>1 DEF RequestInv
    <3>2. CASE l \notin loads
      <4>1. l = [current |-> TRUE, sid |-> Here, epoch |-> timeline.epoch,
                 before |-> before, answer |-> "none", page |-> NoPage]
        BY <1>1, <1>6, <2>1, <3>2 DEF Here
      <4>2. /\ l.sid = Here /\ l.epoch = timeline.epoch /\ l.before = before /\ l.answer = "none"
        BY <4>1
      <4> HIDE DEF Here
      <4> QED BY <1>4, <1>7, <1>8, <4>2 DEF RequestInv
    <3> QED BY <3>1, <3>2
  <2> QED BY <2>1 DEF AllRequests
<1> QED
  BY <1>1, <1>4, <1>5, <1>9, SameEntries, TimelineStep DEF serverVars

LEMMA LoadIsAnsweredStep ==
  ASSUME PageInv, NEW l \in loads, LoadIsAnswered(l)
  PROVE  PageInv'
<1>1. /\ l.current /\ l.answer = "none"
      /\ UNCHANGED <<serverVars, selected, source, ready, refresh, lastVersion, timeline, tracker, announced, spent>>
  BY DEF LoadIsAnswered, streamVars
<1>2. PICK page : page = PageBefore(l.epoch, server[l.sid].turns, l.before)
  OBVIOUS
<1>3. PICK m : /\ loads' = (loads \ {l}) \cup {m}
               /\ \/ m = [l EXCEPT !.answer = "login"]
                  \/ m = [l EXCEPT !.answer = "error"]
                  \/ m = [l EXCEPT !.answer = "page", !.page = page]
  BY <1>2 DEF LoadIsAnswered
<1>4. RequestInv(l) /\ Requested(l)
  BY <1>1 DEF PageInv, AllRequests, LoadInv
<1>5. m.sid = l.sid /\ m.epoch = l.epoch /\ m.before = l.before /\ (m.answer = "page" => m.page = page)
  BY <1>3, <1>4 DEF Requested
<1>6. Timelines(timeline') /\ UNCHANGED <<timeline.entries, timeline.latest, timeline.epoch>>
  BY <1>1 DEF PageInv, LoadInv
<1>7. LoadInv'
  <2>1. Request
    BY DEF Request
  <2> QED BY <2>1, StepKeepsLoadInv DEF PageInv, Next
<1>8. Here' = Here /\ Here \in Sessions
  BY <1>1, HereIs DEF Here, Resolved, PageInv
<1>9. l.sid = Here /\ l.epoch = timeline.epoch /\ l.before \in Nat
      /\ \E i \in DOMAIN timeline.entries : l.before < i
  BY <1>4 DEF RequestInv
<1>10. IsEarlier(page, timeline.epoch, l.before)
  <2>1. PICK h : h = server[Here].turns
    OBVIOUS
  <2>2. PICK i \in DOMAIN timeline.entries : l.before < i
    BY <1>9
  <2>3. l.before < Len(h) /\ l.before <= Len(h)
    <3>1. Now(Here) \in Nat /\ Now(Here) <= 2 * Len(h) /\ Len(h) \in Nat
      BY <1>8, <2>1, NowIs DEF PageInv
    <3>2. 2 * i - 1 <= Now(Here) /\ i \in Nat
      BY ConstantsAssumption DEF PageInv, TimelineInv, UpTo, IsTimeline
    <3> QED BY <1>9, <2>2, <3>1, <3>2
  <2>4. IsPageOf(page, l.epoch, h, l.before)
    BY <1>2, <1>8, <1>9, <2>1, <2>3, PageBeforeIs DEF PageInv
  <2>5. /\ IsPage(page) /\ page.end = l.before /\ page.epoch = timeline.epoch /\ page.start \in 0 .. l.before
        /\ \A j \in DOMAIN page.turns : page.turns[j].status = "ended"
    BY <1>9, <2>3, <2>4 DEF IsPageOf
  <2>6. DOMAIN page.turns = page.start + 1 .. l.before
        /\ \A j \in DOMAIN page.turns : page.turns[j].epoch = timeline.epoch
    BY <2>5 DEF IsPage, IsTurn
  <2> QED BY <2>5, <2>6 DEF IsEarlier
<1>11. AllRequests'
  <2>1. ASSUME NEW k \in loads', k.current PROVE RequestInv(k)'
    <3>1. CASE k \in loads
      <4>1. RequestInv(k)
        BY <2>1, <3>1 DEF PageInv, AllRequests
      <4> QED BY <1>1, <1>8, <4>1 DEF RequestInv
    <3>2. CASE k = m
      <4>1. k.sid = Here /\ k.epoch = timeline.epoch /\ k.before = l.before
            /\ (k.answer = "page" => k.page = page)
        BY <1>5, <1>9, <3>2
      <4> HIDE DEF Here
      <4> QED BY <1>1, <1>8, <1>9, <1>10, <4>1 DEF RequestInv
    <3> QED BY <1>3, <2>1, <3>1, <3>2
  <2> QED BY <2>1 DEF AllRequests
<1> QED
  BY <1>1, <1>6, <1>7, <1>11, SameEntries, TimelineStep DEF serverVars

\* A page of earlier history is merged.
LEMMA LoadedIs ==
  ASSUME PageInv, NEW l \in loads, l.current, l.answer = "page",
         NEW u, u = Loaded(timeline, l.page)
  PROVE  /\ ComesFrom(u, timeline)
         /\ \A i \in DOMAIN u.entries :
              IF i \in DOMAIN l.page.turns THEN u.entries[i].status = "ended" /\ i <= l.before
              ELSE i \in DOMAIN timeline.entries /\ u.entries[i] = timeline.entries[i]
         /\ DOMAIN timeline.entries \subseteq DOMAIN u.entries
<1>1. PICK page : page = l.page
  OBVIOUS
<1>2. IsTimeline(timeline) /\ Timelines(timeline) /\ RequestInv(l) /\ DOMAIN timeline.entries \subseteq 1 .. MaxTurns
  BY DEF PageInv, TimelineInv, LoadInv, AllRequests, IsTimeline
<1>3. PICK before, j : before = l.before /\ before \in Nat /\ j \in DOMAIN timeline.entries /\ before < j
  BY <1>2 DEF RequestInv
<1>4. PICK start \in 0 .. before :
        /\ DOMAIN page.turns = start + 1 .. before
        /\ \A i \in DOMAIN page.turns : page.turns[i].epoch = timeline.epoch /\ page.turns[i].status = "ended"
  BY <1>1, <1>2, <1>3 DEF RequestInv, IsEarlier
<1>5. PICK merged : merged = Merged(timeline.entries, page)
  OBVIOUS
<1>6. /\ DOMAIN merged = DOMAIN timeline.entries \cup DOMAIN page.turns
      /\ \A i \in DOMAIN merged :
           merged[i] = IF i \in DOMAIN page.turns THEN page.turns[i] ELSE timeline.entries[i]
  BY <1>5 DEF Merged
<1>7. u = [epoch |-> timeline.epoch, entries |-> merged, latest |-> timeline.latest,
           following |-> timeline.following, loading |-> FALSE, failed |-> timeline.failed]
  BY <1>1, <1>2, <1>5 DEF Loaded, Timelines
<1>8. u.entries = merged /\ u.epoch = timeline.epoch /\ u.latest = timeline.latest /\ Timelines(u)
  BY <1>7 DEF Timelines
<1>9. \A i \in DOMAIN page.turns : i \in 1 .. MaxTurns /\ i < j /\ i <= before
  <2>1. j \in Nat /\ j <= MaxTurns /\ MaxTurns \in Nat
    BY <1>2, <1>3, ConstantsAssumption
  <2> QED BY <1>3, <1>4, <2>1
<1>10. IsTimeline(u)
  <2>1. DOMAIN u.entries \subseteq 1 .. MaxTurns
    BY <1>2, <1>6, <1>8, <1>9
  <2>2. \A i \in DOMAIN u.entries : IsTurn(u.entries[i], u.epoch)
    <3>1. ASSUME NEW i \in DOMAIN u.entries PROVE IsTurn(u.entries[i], u.epoch)
      <4>1. CASE i \in DOMAIN page.turns
        <5>1. u.entries[i] = page.turns[i]
          BY <1>6, <1>8, <4>1
        <5> QED BY <1>4, <1>8, <4>1, <5>1 DEF IsTurn, Status
      <4>2. CASE i \notin DOMAIN page.turns
        BY <1>2, <1>6, <1>8, <4>2 DEF IsTimeline
      <4> QED BY <4>1, <4>2
    <3> QED BY <3>1
  <2>3. timeline.epoch # NoEpoch
    BY <1>2, <1>3 DEF IsTimeline
  <2>4. Behind(timeline) => Behind(u)
    BY <1>6, <1>8 DEF Behind
  <2>5. ASSUME NEW i \in DOMAIN u.latest.turns
        PROVE  /\ i \in DOMAIN u.entries
               /\ u.latest.turns[i].status = "ended" => u.entries[i].status = "ended"
               /\ u.entries[i].status = "ended" => u.latest.turns[i].status = "ended" \/ Behind(u)
    <3>0. i \in DOMAIN timeline.latest.turns /\ i \in DOMAIN timeline.entries
      BY <1>2, <1>8 DEF IsTimeline
    <3>1. CASE i \notin DOMAIN page.turns
      <4>1. i \in DOMAIN u.entries /\ u.entries[i] = timeline.entries[i]
        BY <1>6, <1>8, <3>0, <3>1
      <4> QED BY <1>2, <1>8, <2>4, <3>0, <4>1 DEF IsTimeline
    <3>2. CASE i \in DOMAIN page.turns
      <4>1. i \in DOMAIN u.entries /\ u.entries[i].status = "ended"
        BY <1>4, <1>6, <1>8, <3>2
      <4>2. CASE u.latest.turns[i].status = "ended"
        BY <4>1, <4>2
      <4>3. CASE u.latest.turns[i].status # "ended"
        <5>1. IsPage(timeline.latest)
          BY <1>2 DEF IsTimeline
        <5>2. i = timeline.latest.end
          BY <1>8, <3>0, <4>3, <5>1, PagesAssumption DEF IsPage
        <5>3. j \in DOMAIN u.entries /\ j > u.latest.end
          BY <1>2, <1>3, <1>6, <1>8, <1>9, <3>2, <5>2
        <5>4. Behind(u)
          BY <5>3 DEF Behind
        <5> QED BY <4>1, <4>3, <5>4
      <4> QED BY <4>2, <4>3
    <3> QED BY <3>1, <3>2
  <2> QED BY <1>2, <1>8, <2>1, <2>2, <2>3, <2>5 DEF IsTimeline
<1>11. ComesFrom(u, timeline)
  <2>1. ASSUME NEW i \in DOMAIN u.entries
        PROVE  \/ i \in DOMAIN timeline.entries /\ u.entries[i] = timeline.entries[i]
               \/ u.entries[i].status = "ended" /\ \E k \in DOMAIN timeline.entries : i < k
    <3>1. CASE i \in DOMAIN page.turns
      BY <1>3, <1>4, <1>6, <1>8, <1>9, <3>1
    <3>2. CASE i \notin DOMAIN page.turns
      BY <1>6, <1>8, <3>2
    <3> QED BY <3>1, <3>2
  <2> QED BY <1>8, <1>10, <2>1 DEF ComesFrom
<1> QED
  BY <1>1, <1>3, <1>4, <1>6, <1>8, <1>9, <1>11

LEMMA LoadEndsStep ==
  ASSUME PageInv, NEW l \in loads, LoadEnds(l)
  PROVE  PageInv'
<1>1. /\ loads' = loads \ {l}
      /\ UNCHANGED <<serverVars, selected, source, ready, refresh, lastVersion, tracker, announced, spent>>
  BY DEF LoadEnds, streamVars
<1>2. LoadInv'
  <2>1. Request
    BY DEF Request
  <2> QED BY <2>1, StepKeepsLoadInv DEF PageInv, Next
<1>3. AllRequests' /\ ComesFrom(timeline', timeline)
  <2>1. CASE ~l.current \/ l.answer = "error"
    <3>1. PICK q : q = LoadFailed(timeline)
      OBVIOUS
    <3>2. Timelines(timeline) /\ (timeline' = timeline \/ timeline' = q)
      BY <2>1, <3>1 DEF LoadEnds, PageInv, LoadInv
    <3>3. q = [epoch |-> timeline.epoch, entries |-> timeline.entries, latest |-> timeline.latest,
               following |-> timeline.following, loading |-> FALSE, failed |-> TRUE]
      BY <3>1, <3>2 DEF Timelines, LoadFailed
    <3>4. Timelines(timeline') /\ UNCHANGED <<timeline.entries, timeline.latest, timeline.epoch>>
      <4>1. Timelines(q) /\ q.entries = timeline.entries /\ q.latest = timeline.latest /\ q.epoch = timeline.epoch
        BY <3>3 DEF Timelines
      <4> QED BY <3>2, <4>1
    <3> QED BY <1>1, <3>4, SameEntries, SameRequests
  <2>2. CASE l.current /\ l.answer = "page"
    <3>1. timeline' = Loaded(timeline, l.page)
      BY <2>2 DEF LoadEnds
    <3>2. ComesFrom(timeline', timeline)
      <4>1. PICK u : u = Loaded(timeline, l.page)
        OBVIOUS
      <4>2. ComesFrom(u, timeline)
        BY <2>2, <4>1, LoadedIs
      <4> QED BY <3>1, <4>1, <4>2
    <3>3. \A k \in loads' : ~k.current
      BY <1>1, <2>2 DEF PageInv, LoadInv, OneLoad
    <3> QED BY <3>2, <3>3 DEF AllRequests
  <2> QED BY <2>1, <2>2 DEF LoadEnds
<1> QED
  BY <1>1, <1>2, <1>3, TimelineStep DEF serverVars

\* Only the page shown last is left.
LEMMA RecentIs ==
  ASSUME PageInv, NEW u, u = Recent(timeline)
  PROVE  /\ ComesFrom(u, timeline) /\ u.latest = timeline.latest
         /\ DOMAIN u.entries = DOMAIN timeline.latest.turns
         /\ \A i \in DOMAIN u.entries : u.entries[i] = timeline.latest.turns[i]
<1>1. PICK page : page = timeline.latest
  OBVIOUS
<1>2. IsTimeline(timeline) /\ IsPage(page) /\ page.epoch = timeline.epoch
  BY <1>1 DEF PageInv, TimelineInv, IsTimeline
<1>3. Timelines(EmptyTimeline) /\ DOMAIN EmptyTimeline.entries = {} /\ DOMAIN EmptyTimeline.entries \subseteq Nat
  BY EmptyIsTimeline, EmptyIsNotLoading
<1>4. /\ Timelines(u) /\ u.latest = page /\ u.epoch = page.epoch
      /\ DOMAIN u.entries = DOMAIN page.turns
      /\ \A i \in DOMAIN u.entries : u.entries[i] = page.turns[i]
  <2>1. PICK t : t = EmptyTimeline
    OBVIOUS
  <2>2. Timelines(t) /\ DOMAIN t.entries = {} /\ DOMAIN t.entries \subseteq Nat /\ u = Shown(t, page)
    BY <1>1, <1>3, <2>1 DEF Recent
  <2>3. /\ Timelines(u) /\ u.latest = page /\ u.epoch = page.epoch
        /\ DOMAIN page.turns \subseteq DOMAIN u.entries
        /\ DOMAIN u.entries \subseteq DOMAIN t.entries \cup DOMAIN page.turns
        /\ \A i \in DOMAIN u.entries :
             u.entries[i] = IF i \in DOMAIN page.turns THEN page.turns[i] ELSE t.entries[i]
    BY <1>2, <2>2, ShownEntries
  <2>4. DOMAIN u.entries = DOMAIN page.turns
    BY <2>2, <2>3
  <2> QED BY <2>3, <2>4
<1>5. IsTimeline(u)
  <2>1. DOMAIN u.entries \subseteq 1 .. MaxTurns
    BY <1>1, <1>2, <1>4 DEF IsTimeline
  <2>2. \A i \in DOMAIN u.entries : IsTurn(u.entries[i], u.epoch)
    BY <1>2, <1>4 DEF IsPage
  <2>3. u.epoch = NoEpoch => u.latest.end = 0 /\ DOMAIN u.entries = {}
    <3>1. ASSUME u.epoch = NoEpoch PROVE page.end = 0
      BY <1>1, <1>2, <1>4, <3>1 DEF IsTimeline
    <3>2. page.end = 0 => DOMAIN page.turns = {}
      BY <1>2, PagesAssumption DEF IsPage
    <3> QED BY <1>4, <3>1, <3>2
  <2> QED BY <1>2, <1>4, <2>1, <2>2, <2>3 DEF IsTimeline
<1> QED
  BY <1>1, <1>2, <1>4, <1>5 DEF ComesFrom

LEMMA ShowsRecentStep ==
  ASSUME PageInv, ShowsRecent
  PROVE  PageInv'
<1>1. /\ timeline' = Recent(timeline) /\ loads' = Outdated(loads) /\ Spend("moves")
      /\ UNCHANGED <<serverVars, selected, source, ready, refresh, lastVersion, tracker, announced>>
  BY DEF ShowsRecent, streamVars
<1>2. LoadInv'
  BY StepKeepsLoadInv DEF PageInv, Next, Reader
<1>3. ComesFrom(timeline', timeline)
  <2>1. PICK u : u = Recent(timeline)
    OBVIOUS
  <2>2. ComesFrom(u, timeline)
    BY <2>1, RecentIs
  <2> QED BY <1>1, <2>1, <2>2
<1>4. AllRequests'
  BY <1>1, OutdatedIsOver DEF AllRequests
<1> QED
  BY <1>1, <1>2, <1>3, <1>4, TimelineStep DEF serverVars

-----------------------------------------------------------------------------
(* The invariant.                                                          *)

LEMMA InitHistories == Init => Histories /\ Shapes
<1> SUFFICES ASSUME Init PROVE Histories /\ Shapes
  OBVIOUS
<1>1. MaxTurns \in Nat /\ \A s \in Sessions : Turns0[s] \in Nat
  BY ConstantsAssumption
<1>2. ASSUME NEW s \in Sessions
      PROVE  /\ server[s] \in [epoch : Nat, version : Nat \ {0}, turns : Seq(Status)]
             /\ Len(server[s].turns) = Turns0[s]
             /\ \A i \in 1 .. Turns0[s] : server[s].turns[i] = "ended"
  <2>1. PICK h : h = [i \in 1 .. Turns0[s] |-> "ended"]
    OBVIOUS
  <2>2. h \in Seq(Status) /\ Len(h) = Turns0[s] /\ \A i \in 1 .. Turns0[s] : h[i] = "ended"
    BY <1>1, <2>1 DEF Status
  <2>3. server[s] = [epoch |-> 0, version |-> 1, turns |-> h]
    BY <2>1 DEF Init
  <2> QED BY <2>2, <2>3
<1>3. server = [s \in Sessions |-> server[s]]
  BY DEF Init
<1>4. server \in [Sessions -> [epoch : Nat, version : Nat \ {0}, turns : Seq(Status)]]
  BY <1>2, <1>3
<1>5. announced \in [Sessions -> [1 .. MaxTurns -> Nat]]
      /\ \A s \in Sessions : \A i \in 1 .. MaxTurns : announced[s][i] = 0
  BY DEF Init
<1>a. /\ away \in [Sessions -> SUBSET (1 .. MaxTurns)]
      /\ \A s \in Sessions : away[s] = 1 .. Turns0[s]
  BY <1>1, ConstantsAssumption DEF Init
<1>6. spent = [changes |-> 0, moves |-> 0, faults |-> 0]
  BY DEF Init, Bounds
<1>7. Histories
  <2>1. ASSUME NEW s \in Sessions
        PROVE  /\ Turns0[s] <= Len(server[s].turns)
               /\ Len(server[s].turns) <= Turns0[s] + spent.changes
               /\ \A i \in 1 .. Len(server[s].turns) : server[s].turns[i] = "ended"
               /\ \A i \in 1 .. MaxTurns : Past(s, i) => 2 * i <= Now(s)
    <3>1. Now(s) = 2 * Turns0[s] /\ Turns0[s] \in Nat
      BY <1>1, <1>2 DEF Now, Steps, Last
    <3>2. ASSUME NEW i \in 1 .. MaxTurns, Past(s, i) PROVE i \in 1 .. Turns0[s]
      <4>1. announced[s][i] = 0 /\ away[s] = 1 .. Turns0[s]
        BY <1>5, <1>a
      <4> QED BY <3>2, <4>1 DEF Past
    <3> QED BY <1>1, <1>2, <1>6, <3>1, <3>2
  <2> QED BY <1>4, <2>1 DEF Histories
<1>8. source = [pc |-> "connecting", sid |-> selected, checking |-> FALSE, last |-> NoSnapshot, wire |-> <<>>]
  BY DEF Init, Connecting, NoSource
<1>9. Records
  BY <1>8 DEF Init, Records, NoRefresh
<1>10. Counted
  BY <1>6, ConstantsAssumption DEF Counted
<1>11. selected \in Somebody /\ lastVersion \in Nat
       /\ tracker = [sid |-> tracker.sid, seen |-> tracker.seen] /\ DOMAIN tracker.seen = {}
  BY DEF Init, Somebody, NoTracker
<1> QED
  BY <1>5, <1>7, <1>9, <1>10, <1>11, <1>a DEF Shapes

LEMMA InitPageInv == Init => PageInv
<1> SUFFICES ASSUME Init PROVE PageInv
  OBVIOUS
<1>1. Histories /\ Shapes /\ LoadInv
  BY InitHistories, InitLoadInv
<1>2. Here \in Sessions /\ Here # Nobody /\ Now(Here) \in Nat
  BY <1>1, HereIs, NowIs, ConstantsAssumption
<1>3. TimelineInv
  BY <1>2, EmptyIsTimeline DEF Init, TimelineInv
<1>4. TrackerInv
  <2>1. tracker.sid = Nobody /\ DOMAIN tracker.seen = {} /\ lastVersion = 0
    BY DEF Init, NoTracker
  <2>2. timeline.epoch = NoEpoch /\ DOMAIN timeline.entries = {}
    BY EmptyIsTimeline DEF Init
  <2> HIDE DEF Here
  <2> QED BY <1>2, <2>1, <2>2 DEF TrackerInv
<1>5. StreamInv
  <2>1. source.pc = "connecting" /\ source.sid = selected /\ source.wire = <<>>
    BY DEF Init, Connecting, NoSource
  <2> QED BY <2>1 DEF StreamInv, Here
<1>6. RefreshInv /\ AllRequests
  BY DEF Init, RefreshInv, NoRefresh, AllRequests
<1> QED
  BY <1>1, <1>3, <1>4, <1>5, <1>6 DEF PageInv

\* A page that is logged out has no stream and waits for no answer.
LoggedOut ==
  ~authed => /\ tracker.sid = Nobody /\ source = NoSource
             /\ refresh.pc = "idle" \/ (refresh.pc = "answered" /\ refresh.fate = "aborted")

LEMMA InitLoggedOut == Init => LoggedOut
  BY DEF Init, LoggedOut

LEMMA StepKeepsLoggedOut == PageInv /\ LoggedOut /\ [Next]_vars => LoggedOut'
<1> SUFFICES ASSUME PageInv, LoggedOut, [Next]_vars, ~authed' PROVE LoggedOut'
  BY DEF LoggedOut
<1>1. CASE ShowAuthentication /\ (refresh' = NoRefresh \/ refresh' = [Aborted(refresh) EXCEPT !.queued = FALSE])
  <2>1. CASE refresh' = NoRefresh
    BY <1>1, <2>1 DEF ShowAuthentication, NoTracker, NoRefresh, LoggedOut
  <2>2. CASE refresh' = [Aborted(refresh) EXCEPT !.queued = FALSE]
    <3>1. AbortedRefresh(refresh')
      BY <2>2, AbortedIs DEF PageInv, Shapes
    <3> QED BY <1>1, <3>1 DEF ShowAuthentication, NoTracker, AbortedRefresh, LoggedOut
  <2> QED BY <1>1, <2>1, <2>2
<1>2. CASE authed' = authed /\ UNCHANGED <<tracker, source>> /\ refresh' \in {refresh, NoRefresh}
  BY <1>2 DEF LoggedOut, NoRefresh
<1>3. ASSUME ~authed
      PROVE  /\ source.pc = "none" /\ source.wire = <<>> /\ source.checking = FALSE
             /\ refresh.pc = "idle" \/ (refresh.pc = "answered" /\ refresh.fate = "aborted")
  BY <1>3 DEF LoggedOut, NoSource
<1>4. CASE Server
  <2>1. CASE Restarts
    BY <1>2, <1>3, <2>1 DEF Restarts, shownVars
  <2> QED BY <1>2, <1>4, <2>1 DEF Server, Expires, TurnBegins, TurnEnds, TurnPasses, Resyncs, Changes, streamVars, shownVars
<1>5. CASE Stream
  BY <1>1, <1>3, <1>5
  DEF Stream, StreamOpens, StreamIsForbidden, StreamIsRefused, StreamSends, StreamIsEnded, StreamBreaks, Closes,
      Breaks, FrameArrives, CheckEnds, ShowAuthenticationAndAbort
<1>6. CASE Request
  BY <1>1, <1>2, <1>3, <1>6
  DEF Request, TimerFires, Refreshed, RefreshIsAnswered, RefreshFails, RefreshIsDropped, RefreshIsShown, RefreshOver,
      RefreshIsForbidden, LoadIsAnswered, LoadEnds, LoadIsForbidden, ShowAuthenticationAndAbort, streamVars, shownVars
<1>7. CASE Reader
  BY <1>1, <1>2, <1>3, <1>7
  DEF Reader, LogsIn, Operates, OperationIsForbidden, Scrolls, LoadBegins, ShowsRecent, Selects,
      ShowAuthenticationAndAbort, streamVars, shownVars
<1>8. CASE UNCHANGED vars
  BY <1>2, <1>8 DEF vars, streamVars, shownVars
<1> QED
  BY <1>4, <1>5, <1>6, <1>7, <1>8 DEF Next

LEMMA StepKeepsPageInv == PageInv /\ LoggedOut /\ [Next]_vars => PageInv'
<1> SUFFICES ASSUME PageInv, authed \/ Blind, [Next]_vars PROVE PageInv'
  BY DEF LoggedOut, Blind, NoSource
<1>a. ASSUME ShowAuthenticationAndAbort PROVE PageInv'
  BY <1>a, AuthenticationStep DEF ShowAuthenticationAndAbort
<1>1. CASE Server
  BY <1>1, RestartStep, ExpiresStep, TurnStep, ResyncStep DEF Server
<1>2. CASE Stream
  <2>1. CASE CheckEnds
    <3>1. CASE login
      <4>1. /\ source' = [source EXCEPT !.checking = FALSE]
            /\ UNCHANGED <<serverVars, selected, ready, refresh, shownVars, spent>>
        BY <2>1, <3>1 DEF CheckEnds
      <4>2. Quiet /\ Grows /\ Counted'
        BY <4>1, SpentGrows, UnmovedIsQuiet DEF PageInv, Unmoved, serverVars, shownVars
      <4> QED BY <4>1, <4>2, CheckedStep DEF serverVars
    <3>2. CASE ~login
      BY <1>a, <2>1, <3>2 DEF CheckEnds
    <3> QED BY <3>1, <3>2
  <2> QED BY <1>2, <2>1, StreamOpensStep, StreamClosesStep, StreamSendsStep, StreamBreaksStep, FrameArrivesStep
      DEF Stream
<1>3. CASE Request
  <2>1. CASE RefreshIsForbidden
    BY <2>1, AuthenticationStep DEF RefreshIsForbidden
  <2>2. ASSUME NEW l \in loads, LoadIsForbidden(l) PROVE PageInv'
    BY <1>a, <2>2 DEF LoadIsForbidden
  <2> QED BY <1>3, <2>1, <2>2, RefreshBeginsStep, RefreshIsAnsweredStep, RefreshIsOverStep, RefreshIsShownStep,
             LoadIsAnsweredStep, LoadEndsStep
      DEF Request
<1>4. CASE Reader
  <2>1. CASE OperationIsForbidden
    BY <1>a, <2>1 DEF OperationIsForbidden
  <2> QED BY <1>4, <2>1, LogsInStep, RefreshBeginsStep, ScrollsStep, LoadBeginsStep, ShowsRecentStep, SelectsStep
      DEF Reader
<1>5. CASE UNCHANGED vars
  BY <1>5, StutterStep
<1> QED
  BY <1>1, <1>2, <1>3, <1>4, <1>5 DEF Next

\* What a page shows is of the session it is on, and no later than what the server
\* has; what is on its way is no older than what was announced; the invariant of
\* the proofs below.
THEOREM Invariance == Spec => []PageInv
  BY InitPageInv, StepKeepsPageInv, InitLoggedOut, StepKeepsLoggedOut, PTL DEF Spec

-----------------------------------------------------------------------------
(* What a step does to what is shown.                                      *)

Untouched == UNCHANGED <<timeline.entries, timeline.latest, timeline.epoch, announced>>
Cleared   == timeline' = EmptyTimeline /\ UNCHANGED announced
IsFirstFrame(x) ==
  /\ FirstFrameArrives /\ x = source.wire[1].snapshot
  /\ Behind(timeline) => \A i \in DOMAIN timeline.entries : i <= x.page.end
Rendered(x) ==
  /\ IsSnapshot(x, Here) /\ \E last \in {0, lastVersion} : Render(x, last)
  /\ UpTo(timeline, Reach(x.page)) \/ IsFirstFrame(x)
Earlier(l) == ComesIn(l) /\ timeline' = Loaded(timeline, l.page) /\ UNCHANGED announced
Shortened  == timeline' = Recent(timeline) /\ UNCHANGED announced
Visible ==
  \/ Untouched \/ Cleared \/ Shortened
  \/ \E x : Rendered(x)
  \/ \E l \in loads : Earlier(l)

LEMMA VisibleSteps ==
  ASSUME PageInv, [Next]_vars
  PROVE  Visible
<1>a. ASSUME UNCHANGED shownVars PROVE Visible
  BY <1>a DEF shownVars, Untouched, Visible
<1>b. ASSUME ShowAuthentication PROVE Visible
  BY <1>b DEF ShowAuthentication, Cleared, Visible
<1>c. ASSUME ShowAuthenticationAndAbort PROVE Visible
  BY <1>b, <1>c DEF ShowAuthenticationAndAbort
<1>1. CASE Server
  BY <1>1, <1>a DEF Server, Restarts, Expires, TurnBegins, TurnEnds, TurnPasses, Resyncs, Changes
<1>2. CASE Stream
  <2>1. CASE FrameArrives
    <3>1. PICK x : x = source.wire[1].snapshot
      OBVIOUS
    <3>2. \E last \in {0, lastVersion} : Render(x, last)
      BY <2>1, <3>1 DEF FrameArrives
    <3>3. source.wire # <<>> /\ source' = [source EXCEPT !.wire = <<>>] /\ StreamInv /\ Records
      BY <2>1 DEF FrameArrives, PageInv, Shapes
    <3>4. FrameInv(source.wire[1]) /\ source.pc = "open"
      BY <3>3 DEF StreamInv
    <3>5. source'.wire = <<>> /\ source'.pc = "open"
      BY <3>3, <3>4 DEF Records
    <3>6. IsSnapshot(x, Here) /\ (UpTo(timeline, Reach(x.page)) \/ IsFirstFrame(x))
      BY <3>1, <3>3, <3>4, <3>5 DEF FrameInv, IsFirstFrame, FirstFrameArrives
    <3> QED BY <3>2, <3>6 DEF Rendered, Visible
  <2>2. CASE CheckEnds
    BY <2>2, <1>a, <1>c DEF CheckEnds
  <2>3. CASE StreamOpens \/ StreamIsForbidden \/ StreamIsRefused \/ StreamSends \/ StreamIsEnded \/ StreamBreaks
    BY <2>3, <1>a
    DEF StreamOpens, StreamIsForbidden, StreamIsRefused, StreamSends, StreamIsEnded, StreamBreaks, Closes, Breaks
  <2> QED
    BY <1>2, <2>1, <2>2, <2>3 DEF Stream
<1>3. CASE Request
  <2>1. CASE TimerFires \/ RefreshIsAnswered \/ RefreshFails \/ RefreshIsDropped
    BY <2>1, <1>a DEF TimerFires, RefreshIsAnswered, RefreshFails, RefreshIsDropped
  <2>2. CASE RefreshIsShown
    <3>1. PICK x : x = refresh.answer
      OBVIOUS
    <3>2. Render(x, lastVersion)
      BY <2>2, <3>1 DEF RefreshIsShown
    <3>3. IsSnapshot(x, Here) /\ UpTo(timeline, Reach(x.page))
      BY <2>2, <3>1 DEF RefreshIsShown, PageInv, RefreshInv
    <3> QED BY <3>2, <3>3 DEF Rendered, Visible
  <2>3. CASE RefreshIsForbidden
    BY <2>3, <1>b DEF RefreshIsForbidden
  <2>4. ASSUME NEW l \in loads, LoadIsAnswered(l) PROVE Visible
    BY <2>4 DEF LoadIsAnswered, Untouched, Visible
  <2>5. ASSUME NEW l \in loads, LoadEnds(l) PROVE Visible
    <3>1. UNCHANGED announced /\ loads' = loads \ {l}
      BY <2>5 DEF LoadEnds
    <3>2. CASE ~l.current
      BY <2>5, <3>1, <3>2 DEF LoadEnds, Untouched, Visible
    <3>3. CASE l.current /\ l.answer = "error"
      <4>1. timeline' = LoadFailed(timeline) /\ Timelines(timeline)
        BY <2>5, <3>3 DEF LoadEnds, PageInv, LoadInv
      <4>2. timeline' = [epoch |-> timeline.epoch, entries |-> timeline.entries, latest |-> timeline.latest,
                         following |-> timeline.following, loading |-> FALSE, failed |-> TRUE]
        BY <4>1 DEF Timelines, LoadFailed
      <4> QED BY <3>1, <4>2 DEF Untouched, Visible
    <3>4. CASE l.current /\ l.answer = "page"
      BY <2>5, <3>1, <3>4 DEF LoadEnds, ComesIn, Earlier, Visible
    <3> QED BY <2>5, <3>2, <3>3, <3>4 DEF LoadEnds
  <2>6. ASSUME NEW l \in loads, LoadIsForbidden(l) PROVE Visible
    BY <2>6, <1>c DEF LoadIsForbidden
  <2> QED
    BY <1>3, <2>1, <2>2, <2>3, <2>4, <2>5, <2>6 DEF Request
<1>4. CASE Reader
  <2>1. CASE LogsIn \/ Operates
    BY <2>1, <1>a DEF LogsIn, Operates
  <2>2. CASE OperationIsForbidden
    BY <2>2, <1>c DEF OperationIsForbidden
  <2>3. CASE Scrolls
    <3>1. timeline' = [timeline EXCEPT !.following = ~@] /\ Timelines(timeline) /\ UNCHANGED announced
      BY <2>3 DEF Scrolls, PageInv, LoadInv
    <3>2. timeline' = [epoch |-> timeline.epoch, entries |-> timeline.entries, latest |-> timeline.latest,
                       following |-> ~timeline.following, loading |-> timeline.loading, failed |-> timeline.failed]
      BY <3>1 DEF Timelines
    <3> QED BY <3>1, <3>2 DEF Untouched, Visible
  <2>4. CASE LoadBegins
    <3>1. timeline' = Loading(timeline) /\ Timelines(timeline) /\ UNCHANGED announced
      BY <2>4 DEF LoadBegins, PageInv, LoadInv
    <3>2. timeline' = [epoch |-> timeline.epoch, entries |-> timeline.entries, latest |-> timeline.latest,
                       following |-> FALSE, loading |-> TRUE, failed |-> FALSE]
      BY <3>1 DEF Timelines, Loading
    <3> QED BY <3>1, <3>2 DEF Untouched, Visible
  <2>5. CASE ShowsRecent
    BY <2>5 DEF ShowsRecent, Shortened, Visible
  <2>6. ASSUME NEW s \in Sessions, Selects(s) PROVE Visible
    BY <2>6 DEF Selects, Cleared, Visible
  <2> QED
    BY <1>4, <2>1, <2>2, <2>3, <2>4, <2>5, <2>6 DEF Reader
<1>5. CASE UNCHANGED vars
  BY <1>5, <1>a DEF vars
<1> QED
  BY <1>1, <1>2, <1>3, <1>4, <1>5 DEF Next

\* A snapshot that is shown: what it leaves, and that nothing shown is later, but
\* for a first frame.
LEMMA RenderedIs ==
  ASSUME PageInv, NEW x, Rendered(x)
  PROVE  /\ IsPage(x.page) /\ Announced(x.page) /\ selected' = Here /\ Here \in Sessions
         /\ x.page.epoch # NoEpoch /\ x.page.end <= MaxTurns
         /\ \/ timeline' = timeline
            \/ timeline' = Updated(timeline, x.page)
  BY RenderIs DEF Rendered

LEMMA NothingLater ==
  ASSUME PageInv, NEW x, Rendered(x), ~FirstFrameArrives
  PROVE  x.page.end >= timeline.latest.end /\ UpTo(timeline, Reach(x.page))
<1>1. UpTo(timeline, Reach(x.page))
  BY DEF Rendered, IsFirstFrame
<1>2. IsPage(x.page) /\ IsPage(timeline.latest)
  BY RenderedIs DEF PageInv, TimelineInv, IsTimeline
<1>3. /\ Reach(x.page) \in Nat /\ Reach(x.page) <= 2 * x.page.end /\ x.page.end \in Nat
      /\ Reach(timeline.latest) \in Nat /\ 2 * timeline.latest.end <= Reach(timeline.latest) + 1
      /\ timeline.latest.end \in Nat
  BY <1>2, PageReach DEF IsPage
<1> QED
  BY <1>1, <1>3 DEF UpTo

\* Nothing shown is behind a page that is not stale.
LEMMA NotStale ==
  ASSUME PageInv, NEW x, Rendered(x), ~StaleFirstFrameArrives
  PROVE  x.page.end >= timeline.latest.end /\ \A i \in DOMAIN timeline.entries : i <= x.page.end
<1>1. IsPage(x.page) /\ IsPage(timeline.latest) /\ DOMAIN timeline.entries \subseteq Nat
  BY RenderedIs, ConstantsAssumption DEF PageInv, TimelineInv, IsTimeline
<1>2. x.page.end \in Nat /\ timeline.latest.end \in Nat /\ Reach(x.page) \in Nat /\ Reach(x.page) <= 2 * x.page.end
  BY <1>1, PageReach DEF IsPage
<1>3. CASE UpTo(timeline, Reach(x.page))
  <2>1. \A i \in DOMAIN timeline.entries : i <= x.page.end
    BY <1>1, <1>2, <1>3 DEF UpTo
  <2>2. /\ Reach(timeline.latest) \in Nat /\ 2 * timeline.latest.end <= Reach(timeline.latest) + 1
        /\ Reach(timeline.latest) <= Reach(x.page)
    BY <1>1, <1>3, PageReach DEF UpTo
  <2> QED BY <1>2, <2>1, <2>2
<1>4. CASE IsFirstFrame(x)
  <2>1. ~(x.page.end < timeline.latest.end)
    BY <1>4 DEF IsFirstFrame, StaleFirstFrameArrives
  <2>2. CASE Behind(timeline)
    BY <1>2, <1>4, <2>1, <2>2 DEF IsFirstFrame
  <2>3. CASE ~Behind(timeline)
    BY <1>1, <1>2, <2>1, <2>3 DEF Behind
  <2> QED BY <2>2, <2>3
<1> QED
  BY <1>3, <1>4 DEF Rendered

-----------------------------------------------------------------------------
(* The timeline stays whole.                                               *)

Unbroken(S) == \A i, j \in S : i .. j \subseteq S

LEMMA WholeIs ==
  ASSUME NEW t, IsTimeline(t)
  PROVE  Whole(t) <=> Unbroken(DOMAIN t.entries)
  BY DEF Whole, Unbroken, IsTimeline, IsTurn

\* Two parts that leave no gap between them.
LEMMA TwoParts ==
  ASSUME NEW S, S \subseteq Nat, Unbroken(S), NEW first \in Nat, NEW end \in Nat,
         \E i \in S : first <= i + 1, \E i \in S : i <= end + 1
  PROVE  Unbroken(S \cup (first .. end))
<1> DEFINE P == first .. end
<1>1. PICK low \in S : low <= end + 1
  OBVIOUS
<1>2. PICK high \in S : first <= high + 1
  OBVIOUS
<1>3. ASSUME NEW i \in S \cup P, NEW j \in S \cup P, NEW k \in i .. j PROVE k \in S \cup P
  <2>0. /\ i \in Nat /\ j \in Nat /\ k \in Nat /\ i <= k /\ k <= j /\ low \in Nat /\ high \in Nat
        /\ \A a, b \in S : \A c \in Nat : a <= c /\ c <= b => c \in S
    <3>1. i \in Nat /\ j \in Nat /\ low \in Nat /\ high \in Nat
      OBVIOUS
    <3>2. k \in Nat /\ i <= k /\ k <= j
      BY <3>1
    <3>3. ASSUME NEW a \in S, NEW b \in S, NEW c \in Nat, a <= c, c <= b PROVE c \in S
      <4>1. a .. b \subseteq S /\ a \in Nat /\ b \in Nat
        BY DEF Unbroken
      <4>2. c \in a .. b
        BY <3>3, <4>1
      <4> QED BY <4>1, <4>2
    <3> QED BY <3>1, <3>2, <3>3
  <2>1. CASE first <= k /\ k <= end
    BY <2>0, <2>1
  <2>2. CASE k < first
    <3>1. i \in S
      BY <2>0, <2>2
    <3>2. k <= high
      BY <1>2, <2>0, <2>2
    <3> QED BY <2>0, <3>1, <3>2
  <2>3. CASE k > end
    <3>1. j \in S
      BY <2>0, <2>3
    <3>2. low <= k
      BY <1>1, <2>0, <2>3
    <3> QED BY <2>0, <3>1, <3>2
  <2> QED BY <2>0, <2>1, <2>2, <2>3
<1> QED
  BY <1>3 DEF Unbroken

\* What is not too old of an unbroken part.
LEMMA LaterPart ==
  ASSUME NEW S, S \subseteq Nat, Unbroken(S), NEW end \in Nat
  PROVE  Unbroken({i \in S : i + Keep > end})
<1>1. Keep \in Nat
  BY PagesAssumption
<1> DEFINE T == {i \in S : i + Keep > end}
<1>2. ASSUME NEW i \in T, NEW j \in T, NEW k \in i .. j PROVE k \in T
  <2>1. i .. j \subseteq S /\ i \in Nat /\ j \in Nat /\ i + Keep > end
    BY DEF Unbroken
  <2>2. k \in S /\ k \in Nat /\ k >= i
    BY <2>1
  <2> QED BY <1>1, <2>1, <2>2
<1> QED
  BY <1>2 DEF Unbroken

LEMMA UpdatedIsUnbroken ==
  ASSUME NEW t, NEW page, IsTimeline(t), IsPage(page), page.epoch # NoEpoch, page.end <= MaxTurns,
         Unbroken(DOMAIN t.entries), \A i \in DOMAIN t.entries : i <= page.end
  PROVE  Unbroken(DOMAIN Updated(t, page).entries)
<1> DEFINE S == DOMAIN t.entries
           P == DOMAIN page.turns
<1>0. /\ S \subseteq Nat /\ Timelines(t) /\ PageSize \in Nat \ {0} /\ Keep \in Nat
      /\ page.end \in Nat /\ page.start \in Nat /\ P = page.start + 1 .. page.end
  BY ConstantsAssumption, PagesAssumption DEF IsTimeline, IsPage
<1>p. Unbroken(P) /\ P \subseteq Nat
  BY <1>0 DEF Unbroken
<1>1. CASE MustReset(t, page)
  <2>1. PICK e : e = EmptyTimeline
    OBVIOUS
  <2>2. Timelines(e) /\ DOMAIN e.entries = {} /\ DOMAIN e.entries \subseteq Nat
    BY <2>1, EmptyIsTimeline, EmptyIsNotLoading
  <2>3. PICK u : u = Shown(e, page)
    OBVIOUS
  <2>4. Updated(t, page) = u
    BY <1>1, <2>1, <2>3 DEF Updated
  <2>5. P \subseteq DOMAIN u.entries /\ DOMAIN u.entries \subseteq DOMAIN e.entries \cup P
    BY <2>2, <2>3, ShownEntries
  <2>6. DOMAIN u.entries = P
    BY <2>2, <2>5
  <2> QED BY <1>p, <2>4, <2>6
<1>2. CASE ~MustReset(t, page)
  <2>1. PICK u : u = Shown(t, page)
    OBVIOUS
  <2>2. Updated(t, page) = u
    BY <1>2, <2>1 DEF Updated
  <2>3. /\ P \subseteq DOMAIN u.entries /\ DOMAIN u.entries \subseteq S \cup P
        /\ \/ \A i \in S : i \in DOMAIN u.entries
           \/ DOMAIN u.entries = {i \in S \cup P : i + Keep > page.end}
    BY <1>0, <2>1, ShownEntries
  <2>4. Unbroken(S \cup P)
    <3>1. CASE S = {}
      BY <1>p, <3>1
    <3>2. CASE S # {}
      <4>1. ~(page.start > Newest(t))
        BY <1>2, <3>2 DEF MustReset
      <4>2. Newest(t) \in Nat /\ (Newest(t) = 0 \/ Newest(t) \in S)
        BY NewestIs DEF IsTimeline
      <4>3. PICK i : i \in S
        BY <3>2
      <4>4. \E j \in S : page.start + 1 <= j + 1
        <5>1. CASE Newest(t) = 0
          BY <1>0, <4>1, <4>3, <5>1
        <5>2. CASE Newest(t) \in S
          BY <1>0, <4>1, <4>2, <5>2
        <5> QED BY <4>2, <5>1, <5>2
      <4>5. i <= page.end + 1
        BY <1>0, <4>3
      <4>6. page.start + 1 \in Nat
        BY <1>0
      <4>7. \E j \in S : j <= page.end + 1
        BY <4>3, <4>5
      <4> QED BY <1>0, <4>4, <4>6, <4>7, TwoParts
    <3> QED BY <3>1, <3>2
  <2>5. CASE \A i \in S : i \in DOMAIN u.entries
    <3>1. DOMAIN u.entries = S \cup P
      BY <2>3, <2>5
    <3> QED BY <2>2, <2>4, <3>1
  <2>6. CASE DOMAIN u.entries = {i \in S \cup P : i + Keep > page.end}
    <3>1. S \cup P \subseteq Nat
      BY <1>0, <1>p
    <3> QED BY <1>0, <2>2, <2>4, <2>6, <3>1, LaterPart
  <2> QED BY <2>3, <2>5, <2>6
<1> QED
  BY <1>1, <1>2

LEMMA WholenessKept ==
  ASSUME PageInv, PageInv', [Next]_vars, Whole(timeline), ~StaleFirstFrameArrives,
         \A l \in loads : ComesIn(l) => ~(l.before + 1 < Oldest(timeline))
  PROVE  Whole(timeline')
<1>1. IsTimeline(timeline) /\ DOMAIN timeline.entries \subseteq 1 .. MaxTurns /\ DOMAIN timeline.entries \subseteq Nat
  BY ConstantsAssumption DEF PageInv, TimelineInv, IsTimeline
<1>2. Unbroken(DOMAIN timeline.entries)
  BY <1>1, WholeIs
<1>3. PICK u : u = timeline' /\ IsTimeline(u)
  BY DEF PageInv, TimelineInv, IsTimeline, IsPage, IsTurn, Behind, Timelines
<1>4. SUFFICES Unbroken(DOMAIN u.entries)
  BY <1>3, WholeIs
<1>5. CASE Untouched
  BY <1>2, <1>3, <1>5 DEF Untouched
<1>6. CASE Cleared
  <2>1. DOMAIN u.entries = {}
    BY <1>3, <1>6, EmptyIsTimeline DEF Cleared
  <2> QED BY <2>1 DEF Unbroken
<1>7. CASE Shortened
  <2>1. DOMAIN u.entries = DOMAIN timeline.latest.turns
    BY <1>3, <1>7, RecentIs DEF Shortened
  <2>2. IsPage(timeline.latest)
    BY <1>1 DEF IsTimeline
  <2>3. /\ timeline.latest.start \in Nat /\ timeline.latest.end \in Nat
        /\ DOMAIN timeline.latest.turns = timeline.latest.start + 1 .. timeline.latest.end
    BY <2>2, PagesAssumption DEF IsPage
  <2> QED BY <2>1, <2>3 DEF Unbroken
<1>8. ASSUME NEW x, Rendered(x) PROVE Unbroken(DOMAIN u.entries)
  <2>1. /\ IsPage(x.page) /\ x.page.epoch # NoEpoch /\ x.page.end <= MaxTurns
        /\ u = timeline \/ u = Updated(timeline, x.page)
    BY <1>3, <1>8, RenderedIs
  <2>2. \A i \in DOMAIN timeline.entries : i <= x.page.end
    BY <1>8, NotStale
  <2> QED BY <1>1, <1>2, <2>1, <2>2, UpdatedIsUnbroken
<1>9. ASSUME NEW l \in loads, Earlier(l) PROVE Unbroken(DOMAIN u.entries)
  <2>1. ComesIn(l) /\ l.current /\ l.answer = "page" /\ u = Loaded(timeline, l.page)
    BY <1>3, <1>9 DEF Earlier, ComesIn
  <2>2. PICK before, epoch : before = l.before /\ epoch = timeline.epoch
    OBVIOUS
  <2>3. RequestInv(l)
    BY <2>1 DEF PageInv, AllRequests
  <2>4. /\ before \in Nat /\ \E i \in DOMAIN timeline.entries : before < i
        /\ IsEarlier(l.page, epoch, before)
    BY <2>1, <2>2, <2>3 DEF RequestInv
  <2>5. PICK start \in 0 .. before : DOMAIN l.page.turns = start + 1 .. before
    BY <2>4 DEF IsEarlier
  <2>6. DOMAIN u.entries = DOMAIN timeline.entries \cup (start + 1 .. before)
    <3>1. u.entries = Merged(timeline.entries, l.page)
      BY <2>1 DEF Loaded, PageInv, LoadInv, Timelines
    <3> QED BY <2>5, <3>1 DEF Merged
  <2>7. Oldest(timeline) \in DOMAIN timeline.entries /\ Oldest(timeline) <= before + 1
    <3>1. DOMAIN timeline.entries # {}
      BY <2>4
    <3>2. Oldest(timeline) \in DOMAIN timeline.entries
      BY <1>1, <3>1, OldestIs
    <3> QED BY <1>1, <2>1, <2>2, <2>4, <3>2
  <2>8. \E i \in DOMAIN timeline.entries : start + 1 <= i + 1
    BY <1>1, <2>4
  <2>9. start + 1 \in Nat
    OBVIOUS
  <2> QED BY <1>1, <1>2, <2>4, <2>6, <2>7, <2>8, <2>9, TwoParts
<1> QED
  BY <1>5, <1>6, <1>7, <1>8, <1>9, VisibleSteps DEF Visible

\* However snapshots, pages of earlier history, resets and reconnections come
\* together, what the page shows stays one unbroken part of one history, but for
\* the two exceptions the property names (update and loadEarlier in web/history.js).
THEOREM TimelineIsWhole == Spec => TimelineStaysWhole
<1>1. PageInv /\ PageInv' /\ [Next]_vars =>
        [Whole(timeline) =>
           \/ Whole(timeline')
           \/ StaleFirstFrameArrives
           \/ \E l \in loads : ComesIn(l) /\ l.before + 1 < Oldest(timeline)]_vars
  BY WholenessKept
<1> QED
  BY <1>1, Invariance, PTL DEF Spec, TimelineStaysWhole

-----------------------------------------------------------------------------
(* Nothing goes back.                                                      *)

LEMMA NoStepBack ==
  ASSUME PageInv, [Next]_vars, timeline'.epoch = timeline.epoch, ~FirstFrameArrives
  PROVE  /\ timeline'.latest.end >= timeline.latest.end
         /\ \/ Behind(timeline)
            \/ \A i \in DOMAIN timeline.entries \cap DOMAIN timeline'.entries :
                 timeline.entries[i].status = "ended" => timeline'.entries[i].status = "ended"
<1> DEFINE Kept == \A i \in DOMAIN timeline.entries \cap DOMAIN timeline'.entries :
                     timeline.entries[i].status = "ended" => timeline'.entries[i].status = "ended"
<1>1. IsTimeline(timeline) /\ IsPage(timeline.latest) /\ timeline.latest.end \in Nat
  BY DEF PageInv, TimelineInv, IsTimeline, IsPage
<1>2. CASE Untouched
  BY <1>1, <1>2 DEF Untouched
<1>3. CASE Cleared
  <2>1. timeline.epoch = NoEpoch /\ timeline'.latest.end = 0 /\ DOMAIN timeline'.entries = {}
    BY <1>3, EmptyIsTimeline DEF Cleared
  <2>2. timeline.latest.end = 0
    BY <1>1, <2>1 DEF IsTimeline
  <2> QED BY <2>1, <2>2
<1>4. CASE Shortened
  <2>1. PICK u : u = timeline'
    OBVIOUS
  <2>2. /\ u.latest = timeline.latest /\ DOMAIN u.entries = DOMAIN timeline.latest.turns
        /\ \A i \in DOMAIN u.entries : u.entries[i] = timeline.latest.turns[i]
    BY <1>4, <2>1, RecentIs DEF Shortened
  <2>3. ASSUME NEW i \in DOMAIN u.entries, timeline.entries[i].status = "ended", ~Behind(timeline)
        PROVE  u.entries[i].status = "ended"
    BY <1>1, <2>2, <2>3 DEF IsTimeline
  <2> QED BY <1>1, <2>1, <2>2, <2>3
<1>5. ASSUME NEW x, Rendered(x) PROVE timeline'.latest.end >= timeline.latest.end /\ Kept
  <2>1. /\ IsPage(x.page) /\ x.page.epoch # NoEpoch /\ x.page.end <= MaxTurns
        /\ timeline' = timeline \/ timeline' = Updated(timeline, x.page)
    BY <1>5, RenderedIs
  <2>2. x.page.end >= timeline.latest.end /\ UpTo(timeline, Reach(x.page))
    BY <1>5, NothingLater
  <2>3. CASE timeline' = timeline
    BY <1>1, <2>3
  <2>4. CASE timeline' = Updated(timeline, x.page)
    <3>1. PICK u : u = Updated(timeline, x.page)
      OBVIOUS
    <3>2. /\ u.latest = x.page
          /\ \A i \in DOMAIN u.entries :
               IF i \in DOMAIN x.page.turns THEN u.entries[i] = x.page.turns[i]
               ELSE i \in DOMAIN timeline.entries /\ u.entries[i] = timeline.entries[i]
      BY <1>1, <2>1, <3>1, UpdatedIs
    <3>3. ASSUME NEW i \in DOMAIN timeline.entries, i \in DOMAIN u.entries, timeline.entries[i].status = "ended"
          PROVE  u.entries[i].status = "ended"
      <4>1. CASE i \in DOMAIN x.page.turns
        <5>1. 2 * i <= Reach(x.page)
          BY <2>2, <3>3 DEF UpTo
        <5>2. x.page.turns[i].status = "ended"
          BY <2>1, <4>1, <5>1, PageReach
        <5> QED BY <3>2, <3>3, <4>1, <5>2
      <4>2. CASE i \notin DOMAIN x.page.turns
        BY <3>2, <3>3, <4>2
      <4> QED BY <4>1, <4>2
    <3> QED BY <2>2, <2>4, <3>1, <3>2, <3>3
  <2> QED BY <2>1, <2>3, <2>4
<1>6. ASSUME NEW l \in loads, Earlier(l) PROVE timeline'.latest.end >= timeline.latest.end /\ Kept
  <2>1. PICK u : u = timeline'
    OBVIOUS
  <2>2. l.current /\ l.answer = "page" /\ u = Loaded(timeline, l.page)
    BY <1>6, <2>1 DEF Earlier, ComesIn
  <2>3. /\ u.latest = timeline.latest
        /\ \A i \in DOMAIN u.entries :
             IF i \in DOMAIN l.page.turns THEN u.entries[i].status = "ended" /\ i <= l.before
             ELSE i \in DOMAIN timeline.entries /\ u.entries[i] = timeline.entries[i]
    BY <2>2, LoadedIs DEF ComesFrom
  <2> QED BY <1>1, <2>1, <2>3
<1> QED
  BY <1>2, <1>3, <1>4, <1>5, <1>6, VisibleSteps DEF Visible

\* An answer from before never overwrites what has been shown since: no turn that is
\* shown as ended is shown as running again and the last turn shown does not move
\* backwards, but for the first frame of a stream and what it leaves
\* (streamRevision and fetchState in web/app.js, update in web/history.js).
THEOREM NeverBack == Spec => NothingGoesBack
<1>1. PageInv /\ [Next]_vars =>
        [timeline'.epoch = timeline.epoch =>
           \/ FirstFrameArrives
           \/ /\ timeline'.latest.end >= timeline.latest.end
              /\ \/ Behind(timeline)
                 \/ \A i \in DOMAIN timeline.entries \cap DOMAIN timeline'.entries :
                      timeline.entries[i].status = "ended" => timeline'.entries[i].status = "ended"]_vars
  BY NoStepBack
<1> QED
  BY <1>1, Invariance, PTL DEF Spec, NothingGoesBack

-----------------------------------------------------------------------------
(* The end of a task is announced once.                                    *)

\* Only a snapshot is announced, and of it only what was not announced before.
LEMMA AnnouncedAnew ==
  ASSUME PageInv, [Next]_vars, ~StaleFirstFrameArrives,
         NEW s \in Sessions, NEW i \in 1 .. MaxTurns, announced'[s][i] # announced[s][i]
  PROVE  announced[s][i] = 0 /\ i \notin away[s]
<1>1. CASE Untouched \/ Cleared \/ Shortened \/ \E l \in loads : Earlier(l)
  BY <1>1 DEF Untouched, Cleared, Shortened, Earlier
<1>2. ASSUME NEW x, Rendered(x) PROVE announced[s][i] = 0 /\ i \notin away[s]
  <2>1. s = Here /\ tracker.sid = Here /\ EndedIn(x.page, i) /\ ~KnownToHaveEnded(i) /\ IsPage(x.page)
    BY <1>2, RenderedIs DEF Announced
  <2>2. x.page.end >= timeline.latest.end
    BY <1>2, NotStale
  <2>3. timeline.latest.end \in Nat /\ x.page.end \in Nat /\ announced[s][i] \in Nat
    BY <2>1, ConstantsAssumption DEF PageInv, Shapes, TimelineInv, IsTimeline, IsPage
  <2>4. ~(i + PageSize <= x.page.end)
    BY <2>1, PagesAssumption DEF EndedIn, IsPage
  <2>5. ~(i + PageSize <= timeline.latest.end)
    BY <2>2, <2>3, <2>4, PagesAssumption
  <2>6. ~Past(Here, i)
    BY <2>1, <2>5 DEF PageInv, TrackerInv
  <2> QED BY <2>1, <2>3, <2>6 DEF Past
<1> QED
  BY <1>1, <1>2, VisibleSteps DEF Visible

\* Whatever has been shown as running is announced when it is shown as ended.
LEMMA EndIsAnnounced ==
  ASSUME PageInv, [Next]_vars, NEW i \in DOMAIN timeline.entries, i \in DOMAIN timeline'.entries,
         timeline.entries[i].status = "running", timeline'.entries[i].status = "ended"
  PROVE  \/ announced'[selected'][i] = 1 \/ KnownToHaveEnded(i)
         \/ \E l \in loads : ComesIn(l) /\ i <= l.before
<1>1. IsTimeline(timeline) /\ TrackerInv /\ i \in 1 .. MaxTurns
  BY DEF PageInv, TimelineInv, IsTimeline
<1>2. tracker.sid = Here /\ (announced[Here][i] = 0 \/ KnownToHaveEnded(i))
  <2>1. timeline.epoch # NoEpoch
    BY <1>1 DEF IsTimeline
  <2> QED BY <1>1, <2>1 DEF TrackerInv
<1>3. CASE Untouched
  BY <1>3 DEF Untouched
<1>4. CASE Cleared
  BY <1>4, EmptyIsTimeline DEF Cleared
<1>5. CASE Shortened
  <2>1. /\ i \in DOMAIN timeline.latest.turns
        /\ timeline'.entries[i] = timeline.latest.turns[i]
    <3>1. PICK u : u = timeline'
      OBVIOUS
    <3>2. DOMAIN u.entries = DOMAIN timeline.latest.turns
          /\ \A j \in DOMAIN u.entries : u.entries[j] = timeline.latest.turns[j]
      BY <1>5, <3>1, RecentIs DEF Shortened
    <3> QED BY <3>1, <3>2
  <2> QED BY <1>1, <2>1 DEF IsTimeline
<1>6. ASSUME NEW x, Rendered(x) PROVE announced'[selected'][i] = 1 \/ KnownToHaveEnded(i)
  <2>1. /\ IsPage(x.page) /\ Announced(x.page) /\ selected' = Here /\ Here \in Sessions
        /\ x.page.epoch # NoEpoch /\ x.page.end <= MaxTurns
        /\ timeline' = timeline \/ timeline' = Updated(timeline, x.page)
    BY <1>6, RenderedIs
  <2>2. timeline' = Updated(timeline, x.page)
    BY <2>1
  <2>3. EndedIn(x.page, i)
    <3>1. PICK u : u = Updated(timeline, x.page)
      OBVIOUS
    <3>2. IF i \in DOMAIN x.page.turns THEN u.entries[i] = x.page.turns[i]
          ELSE u.entries[i] = timeline.entries[i]
      BY <1>1, <2>1, <2>2, <3>1, UpdatedIs
    <3> QED BY <2>2, <3>1, <3>2 DEF EndedIn
  <2>4. CASE ~KnownToHaveEnded(i)
    <3>1. announced'[Here][i] = announced[Here][i] + 1
      BY <1>1, <1>2, <2>1, <2>3, <2>4 DEF Announced
    <3> QED BY <1>2, <2>1, <2>4, <3>1
  <2> QED BY <2>4
<1>7. ASSUME NEW l \in loads, Earlier(l) PROVE ComesIn(l) /\ i <= l.before
  <2>1. PICK u : u = timeline'
    OBVIOUS
  <2>2. ComesIn(l) /\ l.current /\ l.answer = "page" /\ u = Loaded(timeline, l.page)
    BY <1>7, <2>1 DEF Earlier, ComesIn
  <2>3. IF i \in DOMAIN l.page.turns THEN u.entries[i].status = "ended" /\ i <= l.before
        ELSE i \in DOMAIN timeline.entries /\ u.entries[i] = timeline.entries[i]
    BY <2>1, <2>2, LoadedIs
  <2> QED BY <2>1, <2>2, <2>3
<1> QED
  BY <1>3, <1>4, <1>5, <1>6, <1>7, VisibleSteps DEF Visible

\* Only a task that ends while the page looks is announced, and once, whatever
\* reconnections, restarts, logins and selections come between; and what was shown as
\* running is announced when it is shown as ended, but for the exceptions the
\* property names (TaskCompletionTracker in web/notifications.js, render in web/app.js).
THEOREM AnnouncedOnlyOnce == Spec => AnnouncedOnce
<1>1. PageInv /\ [Next]_vars =>
        [/\ \/ StaleFirstFrameArrives
            \/ \A s \in Sessions : \A i \in 1 .. MaxTurns :
                 announced'[s][i] # announced[s][i] => announced[s][i] = 0 /\ i \notin away[s]
         /\ \A i \in DOMAIN timeline.entries \cap DOMAIN timeline'.entries :
              timeline.entries[i].status = "running" /\ timeline'.entries[i].status = "ended"
                => \/ announced'[selected'][i] = 1 \/ KnownToHaveEnded(i)
                   \/ \E l \in loads : ComesIn(l) /\ i <= l.before]_vars
  BY AnnouncedAnew, EndIsAnnounced
<1> QED
  BY <1>1, Invariance, PTL DEF Spec, AnnouncedOnce

-----------------------------------------------------------------------------
(* Type correctness.                                                       *)

Flags        == login \in BOOLEAN /\ authed \in BOOLEAN /\ ready \in BOOLEAN /\ timer \in BOOLEAN
SourceTypes  == /\ source.pc \in {"none", "connecting", "open", "closed"}
                /\ source.sid \in Somebody /\ source.checking \in BOOLEAN
RefreshTypes == refresh.sid \in Somebody /\ refresh.fate \in {"wanted", "overtaken", "aborted"}
LoadTypes    == \A l \in loads :
                  l.answer \in {"none", "login", "error", "page"} /\ l.before \in 0 .. MaxTurns
SeenTypes    == DOMAIN tracker.seen \subseteq 1 .. MaxTurns
TypeInv      == PageInv /\ Flags /\ SourceTypes /\ RefreshTypes /\ LoadTypes /\ SeenTypes

LEMMA TypeInvIsEnough == TypeInv => TypeOK
<1> SUFFICES ASSUME TypeInv PROVE TypeOK
  OBVIOUS
<1>0. Shapes /\ Histories /\ TimelineInv /\ TrackerInv /\ StreamInv
  BY DEF TypeInv, PageInv
<1>1. ASSUME NEW s \in Sessions
      PROVE  /\ server[s].epoch \in Nat /\ server[s].version \in Nat
             /\ \A i \in DOMAIN server[s].turns : server[s].turns[i] \in Status
  <2>1. server[s] \in [epoch : Nat, version : Nat \ {0}, turns : Seq(Status)]
    BY <1>0 DEF Histories
  <2>2. DOMAIN server[s].turns = 1 .. Len(server[s].turns)
    BY <2>1
  <2> QED BY <1>0, <2>1, <2>2, NowIs
<1>2. Len(source.wire) <= 1
  <2>1. source.wire # <<>> => source.wire = <<source.wire[1]>>
    BY <1>0 DEF StreamInv
  <2>2. CASE source.wire = <<>>
    BY <2>2
  <2>3. CASE source.wire # <<>>
    <3>1. PICK y : y = source.wire[1]
      OBVIOUS
    <3>2. source.wire = <<y>>
      BY <2>1, <2>3, <3>1
    <3>3. Len(<<y>>) = 1
      OBVIOUS
    <3> QED BY <3>2, <3>3
  <2> QED BY <2>2, <2>3
<1>3. DOMAIN timeline.entries \subseteq 1 .. MaxTurns
  BY <1>0 DEF TimelineInv, IsTimeline
<1>4. tracker.sid \in Somebody
  BY <1>0, HereIs DEF TrackerInv, Somebody
<1>5. selected \in Somebody /\ lastVersion \in Nat /\ announced \in [Sessions -> [1 .. MaxTurns -> Nat]]
      /\ away \in [Sessions -> SUBSET (1 .. MaxTurns)] /\ refresh.pc \in {"idle", "asked", "answered"}
  BY <1>0 DEF Shapes, Records
<1> QED
  BY <1>1, <1>2, <1>3, <1>4, <1>5
  DEF TypeInv, TypeOK, Flags, SourceTypes, RefreshTypes, LoadTypes, SeenTypes

LEMMA InitTypeInv == Init => TypeInv
<1> SUFFICES ASSUME Init PROVE TypeInv
  OBVIOUS
<1>1. source = [pc |-> "connecting", sid |-> selected, checking |-> FALSE, last |-> NoSnapshot, wire |-> <<>>]
  BY DEF Init, Connecting, NoSource
<1>2. Flags /\ LoadTypes
  BY DEF Init, Flags, LoadTypes
<1>3. SourceTypes
  <2>1. source.pc = "connecting" /\ source.sid = selected /\ source.checking = FALSE
    BY <1>1
  <2>2. selected \in Somebody
    BY DEF Init, Somebody
  <2> QED BY <2>1, <2>2 DEF SourceTypes
<1>4. RefreshTypes
  BY DEF Init, RefreshTypes, NoRefresh, Somebody
<1>5. SeenTypes
  <2>1. tracker.seen = <<>>
    BY DEF Init, NoTracker
  <2>2. DOMAIN tracker.seen = {}
    BY <2>1
  <2> QED BY <2>2 DEF SeenTypes
<1> QED
  BY <1>2, <1>3, <1>4, <1>5, InitPageInv DEF TypeInv

\* A request is one of earlier history, or over.
LEMMA OutdatedTypes ==
  ASSUME loads' = Outdated(loads) PROVE LoadTypes'
<1>1. MaxTurns \in Nat
  BY ConstantsAssumption
<1>2. AbortedLoad.answer = "none" /\ AbortedLoad.before = 0
  BY DEF AbortedLoad
<1> QED
  BY <1>1, <1>2 DEF LoadTypes, Outdated

\* A tracker that knows of no turn.
LEMMA NothingSeen ==
  ASSUME tracker' = NoTracker PROVE SeenTypes'
<1>1. tracker'.seen = <<>>
  BY DEF NoTracker
<1>2. DOMAIN tracker'.seen = {}
  BY <1>1
<1> QED
  BY <1>2 DEF SeenTypes

LEMMA AuthenticationTypes ==
  ASSUME TypeInv, ShowAuthentication,
         refresh' = NoRefresh \/ refresh' = [Aborted(refresh) EXCEPT !.queued = FALSE]
  PROVE  Flags' /\ SourceTypes' /\ RefreshTypes' /\ LoadTypes' /\ SeenTypes'
<1>1. /\ tracker' = NoTracker /\ authed' = FALSE /\ timer' = FALSE /\ source' = NoSource /\ ready' = FALSE
      /\ loads' = Outdated(loads) /\ login' = login
  BY DEF ShowAuthentication, serverVars
<1>2. Flags' /\ SourceTypes' /\ SeenTypes'
  <2>1. Flags'
    BY <1>1 DEF TypeInv, Flags
  <2>2. source'.pc = "none" /\ source'.sid = Nobody /\ source'.checking = FALSE
    BY <1>1 DEF NoSource
  <2>3. SourceTypes'
    BY <2>2 DEF SourceTypes, Somebody
  <2>4. SeenTypes'
    BY <1>1, NothingSeen
  <2> QED BY <2>1, <2>3, <2>4
<1>3. RefreshTypes'
  <2>1. CASE refresh' = NoRefresh
    BY <2>1 DEF RefreshTypes, NoRefresh, Somebody
  <2>2. CASE refresh' = [Aborted(refresh) EXCEPT !.queued = FALSE]
    <3>1. PICK r : r = Aborted(refresh)
      OBVIOUS
    <3>2. AbortedRefresh(r) /\ r.sid \in Somebody /\ r.fate \in {"wanted", "overtaken", "aborted"}
      <4>1. AbortedRefresh(r)
        BY <3>1, AbortedIs DEF TypeInv, PageInv, Shapes
      <4> QED BY <3>1, <4>1 DEF Aborted, NoRefresh, TypeInv, RefreshTypes, Somebody
    <3>3. refresh'.sid = r.sid /\ refresh'.fate = r.fate
      BY <2>2, <3>1, <3>2 DEF AbortedRefresh
    <3> QED BY <3>2, <3>3 DEF RefreshTypes, Somebody
  <2> QED BY <2>1, <2>2
<1> QED
  BY <1>1, <1>2, <1>3, OutdatedTypes

LEMMA RenderTypes ==
  ASSUME TypeInv, NEW x, IsSnapshot(x, Here), NEW last, last \in {0, lastVersion}, Render(x, last)
  PROVE  LoadTypes' /\ SeenTypes'
<1>1. /\ IsPage(x.page) /\ x.page.end <= MaxTurns /\ x.sid = Here
      /\ loads' = loads \/ loads' = Outdated(loads)
  BY RenderIs DEF TypeInv, IsSnapshot
<1>2. LoadTypes'
  <2>1. CASE loads' = loads
    BY <2>1 DEF TypeInv, LoadTypes
  <2> QED BY <1>1, <2>1, OutdatedTypes
<1>3. DOMAIN x.page.turns \subseteq 1 .. MaxTurns
  <2>1. x.page.end \in Nat /\ MaxTurns \in Nat
    BY <1>1, ConstantsAssumption DEF IsPage
  <2> QED BY <1>1, <2>1, PageReach
<1>4. DOMAIN tracker'.seen \subseteq DOMAIN tracker.seen \cup DOMAIN x.page.turns
  <2>1. PICK old : /\ old = <<>> \/ old = tracker.seen
                   /\ tracker' = [sid |-> x.sid, seen |-> EndedBy(old, x.page.turns)]
    BY DEF Render, Announce
  <2>2. DOMAIN EndedBy(old, x.page.turns) = DOMAIN old \cup DOMAIN x.page.turns
    BY DEF EndedBy
  <2> QED BY <2>1, <2>2
<1> QED
  BY <1>2, <1>3, <1>4 DEF TypeInv, SeenTypes

LEMMA RefreshedTypes ==
  ASSUME TypeInv, refresh' = Refreshed(refresh, selected)
  PROVE  RefreshTypes'
<1>1. CASE refresh' = refresh
  BY <1>1 DEF TypeInv, RefreshTypes, Somebody
<1>2. CASE refresh' = [refresh EXCEPT !.queued = TRUE]
  <2>1. refresh'.sid = refresh.sid /\ refresh'.fate = refresh.fate
    BY <1>2 DEF TypeInv, PageInv, Shapes, Records
  <2> QED BY <2>1 DEF TypeInv, RefreshTypes, Somebody
<1>3. CASE refresh' = [NoRefresh EXCEPT !.pc = "asked", !.sid = selected]
  <2>1. refresh'.sid = selected /\ refresh'.fate = "wanted"
    BY <1>3 DEF NoRefresh
  <2> QED BY <2>1 DEF TypeInv, PageInv, Shapes, RefreshTypes, Somebody
<1> QED
  BY <1>1, <1>2, <1>3 DEF Refreshed

LEMMA ServerTypes ==
  ASSUME TypeInv, Server
  PROVE  Flags' /\ SourceTypes' /\ RefreshTypes' /\ LoadTypes' /\ SeenTypes'
<1>1. UNCHANGED <<authed, timer, refresh, loads, tracker>> /\ login' \in BOOLEAN
      /\ \/ UNCHANGED <<source, ready>>
         \/ source' = Broken /\ ready' = FALSE
  <2>1. CASE Restarts
    BY <2>1 DEF Restarts, TypeInv, Flags, shownVars
  <2>2. CASE Expires
    BY <2>2 DEF Expires, shownVars, streamVars
  <2>3. ASSUME NEW s \in Sessions, TurnBegins(s) \/ TurnEnds(s) \/ TurnPasses(s) \/ Resyncs(s)
        PROVE  UNCHANGED <<login, authed, timer, refresh, loads, tracker, source, ready>>
    BY <2>3 DEF TurnBegins, TurnEnds, TurnPasses, Resyncs, Changes, shownVars, streamVars
  <2> QED BY <2>1, <2>2, <2>3 DEF Server, TypeInv, Flags
<1>2. SourceTypes'
  <2>1. CASE source' = Broken
    <3>1. source'.pc = "connecting" /\ source'.sid = source.sid /\ source'.checking = TRUE
      BY <2>1 DEF Broken, TypeInv, PageInv, Shapes, Records
    <3> QED BY <3>1 DEF TypeInv, SourceTypes, Somebody
  <2> QED BY <1>1, <2>1 DEF TypeInv, SourceTypes, Somebody
<1> QED
  BY <1>1, <1>2 DEF TypeInv, Flags, RefreshTypes, LoadTypes, SeenTypes, Somebody

LEMMA StreamTypes ==
  ASSUME TypeInv, Stream
  PROVE  Flags' /\ SourceTypes' /\ RefreshTypes' /\ LoadTypes' /\ SeenTypes'
<1>0. Records /\ StreamInv /\ Here \in Sessions
  BY HereIs DEF TypeInv, PageInv, Shapes
<1>a. ASSUME UNCHANGED <<login, authed, refresh, loads, tracker>>, ready' \in BOOLEAN, timer' \in BOOLEAN,
             source'.pc \in {"none", "connecting", "open", "closed"},
             source'.sid \in Somebody, source'.checking \in BOOLEAN
      PROVE  Flags' /\ SourceTypes' /\ RefreshTypes' /\ LoadTypes' /\ SeenTypes'
  BY <1>a DEF TypeInv, Flags, SourceTypes, RefreshTypes, LoadTypes, SeenTypes, Somebody
<1>b. source.sid \in Somebody /\ source.checking \in BOOLEAN /\ ready \in BOOLEAN /\ timer \in BOOLEAN
      /\ source.pc \in {"none", "connecting", "open", "closed"}
  BY DEF TypeInv, SourceTypes, Flags
<1>1. CASE StreamOpens
  <2>a. PICK x : x = Snapshot(Resolved(source.sid))
    OBVIOUS
  <2>b. PICK wire : wire = <<[event |-> "snapshot", snapshot |-> x]>>
    OBVIOUS
  <2>c. source' = [source EXCEPT !.pc = "open", !.sid = x.sid, !.last = x, !.wire = wire]
    BY <1>1, <2>a, <2>b DEF StreamOpens
  <2>1. source' = [source EXCEPT !.pc = "open", !.sid = x.sid, !.last = x, !.wire = wire]
                       /\ x.sid = Resolved(source.sid)
    BY <2>a, <2>c DEF Snapshot
  <2>2. source' = [pc |-> "open", sid |-> x.sid, checking |-> source.checking, last |-> x, wire |-> wire]
    BY <1>0, <2>1, SourceFields
  <2>3. Resolved(source.sid) \in Somebody
    BY <1>b, ConstantsAssumption DEF Resolved, Somebody
  <2>4. UNCHANGED <<login, authed, refresh, loads, tracker, ready, timer>>
    BY <1>1 DEF StreamOpens, serverVars, shownVars
  <2> QED BY <1>a, <1>b, <2>1, <2>2, <2>3, <2>4
<1>2. CASE StreamIsForbidden \/ StreamIsRefused
  <2>1. source' = [source EXCEPT !.pc = "closed", !.checking = TRUE] /\ ready' = FALSE
        /\ UNCHANGED <<login, authed, refresh, loads, tracker, timer>>
    BY <1>2 DEF StreamIsForbidden, StreamIsRefused, Closes, serverVars, shownVars
  <2>2. source'.pc = "closed" /\ source'.sid = source.sid /\ source'.checking = TRUE
    BY <1>0, <2>1 DEF Records
  <2> QED BY <1>a, <1>b, <2>1, <2>2
<1>3. CASE StreamSends
  <2>1. PICK x, wire : source' = [source EXCEPT !.last = x, !.wire = wire]
    BY <1>3 DEF StreamSends
  <2>2. UNCHANGED <<login, authed, refresh, loads, tracker, ready, timer>>
    BY <1>3 DEF StreamSends, serverVars, shownVars
  <2>3. source'.pc = source.pc /\ source'.sid = source.sid /\ source'.checking = source.checking
    BY <1>0, <2>1 DEF Records
  <2> QED BY <1>a, <1>b, <2>2, <2>3
<1>4. CASE StreamIsEnded \/ StreamBreaks
  <2>1. source' = Broken /\ ready' = FALSE /\ UNCHANGED <<login, authed, refresh, loads, tracker, timer>>
    BY <1>4 DEF StreamIsEnded, StreamBreaks, Breaks, serverVars, shownVars
  <2>2. source'.pc = "connecting" /\ source'.sid = source.sid /\ source'.checking = TRUE
    BY <1>0, <2>1 DEF Records, Broken
  <2> QED BY <1>a, <1>b, <2>1, <2>2
<1>5. CASE FrameArrives
  <2>1. /\ source' = [source EXCEPT !.wire = <<>>] /\ ready' = TRUE /\ refresh' = Overtaken(refresh)
        /\ UNCHANGED <<login, authed, timer>> /\ source.wire # <<>>
    BY <1>5 DEF FrameArrives, serverVars
  <2>2. PICK x : x = source.wire[1].snapshot
    OBVIOUS
  <2>3. PICK last : last \in {0, lastVersion} /\ Render(x, last)
    BY <1>5, <2>2 DEF FrameArrives
  <2>4. IsSnapshot(x, Here)
    BY <1>0, <2>1, <2>2 DEF StreamInv, FrameInv
  <2>5. LoadTypes' /\ SeenTypes'
    BY <2>3, <2>4, RenderTypes
  <2>6. source'.pc = source.pc /\ source'.sid = source.sid /\ source'.checking = source.checking
    BY <1>0, <2>1 DEF Records
  <2>7. RefreshTypes'
    <3>1. refresh'.sid = refresh.sid /\ refresh'.fate \in {refresh.fate, "overtaken"}
      <4>1. CASE refresh' = refresh
        BY <4>1
      <4>2. CASE refresh' = [refresh EXCEPT !.fate = "overtaken"]
        BY <1>0, <4>2 DEF Records
      <4> QED BY <2>1, <4>1, <4>2 DEF Overtaken
    <3> QED BY <3>1 DEF TypeInv, RefreshTypes, Somebody
  <2> QED BY <1>b, <2>1, <2>5, <2>6, <2>7 DEF TypeInv, Flags, SourceTypes, Somebody
<1>6. CASE CheckEnds
  <2>1. CASE login
    <3>1. /\ source' = [source EXCEPT !.checking = FALSE] /\ timer' = TRUE
          /\ UNCHANGED <<login, authed, refresh, loads, tracker, ready>>
      BY <1>6, <2>1 DEF CheckEnds, ShowAuthenticationAndAbort, serverVars, shownVars
    <3>2. source'.pc = source.pc /\ source'.sid = source.sid /\ source'.checking = FALSE
      BY <1>0, <3>1 DEF Records
    <3> QED BY <1>a, <1>b, <3>1, <3>2
  <2>2. CASE ~login
    BY <1>6, <2>2, AuthenticationTypes DEF CheckEnds, ShowAuthenticationAndAbort
  <2> QED BY <2>1, <2>2
<1> QED
  BY <1>1, <1>2, <1>3, <1>4, <1>5, <1>6 DEF Stream

LEMMA RequestTypes ==
  ASSUME TypeInv, Request
  PROVE  Flags' /\ SourceTypes' /\ RefreshTypes' /\ LoadTypes' /\ SeenTypes'
<1>0. Records /\ RefreshInv /\ refresh.sid \in Somebody /\ refresh.fate \in {"wanted", "overtaken", "aborted"}
  BY DEF TypeInv, PageInv, Shapes, RefreshTypes
<1>a. ASSUME UNCHANGED <<login, authed, source, ready>>, timer' \in BOOLEAN, RefreshTypes', LoadTypes', SeenTypes'
      PROVE  Flags' /\ SourceTypes' /\ RefreshTypes' /\ LoadTypes' /\ SeenTypes'
  BY <1>a DEF TypeInv, Flags, SourceTypes, Somebody
<1>b. ASSUME refresh' = NoRefresh PROVE RefreshTypes'
  BY <1>b DEF RefreshTypes, NoRefresh, Somebody
<1>c. ASSUME UNCHANGED <<loads, tracker>> PROVE LoadTypes' /\ SeenTypes'
  BY <1>c DEF TypeInv, LoadTypes, SeenTypes
<1>1. CASE TimerFires
  BY <1>1, <1>a, <1>c, RefreshedTypes DEF TimerFires, serverVars, shownVars
<1>2. CASE RefreshIsAnswered
  <2>1. PICK answer : refresh' = [refresh EXCEPT !.pc = "answered", !.answer = answer]
    BY <1>2 DEF RefreshIsAnswered
  <2>2. refresh'.sid = refresh.sid /\ refresh'.fate = refresh.fate
    BY <1>0, <2>1 DEF Records
  <2>3. RefreshTypes'
    BY <1>0, <2>2 DEF RefreshTypes, Somebody
  <2> QED BY <1>2, <1>a, <1>c, <2>3 DEF RefreshIsAnswered, serverVars, shownVars, TypeInv, Flags
<1>3. CASE RefreshFails \/ RefreshIsDropped
  BY <1>3, <1>a, <1>b, <1>c DEF RefreshFails, RefreshIsDropped, RefreshOver, serverVars, shownVars
<1>4. CASE RefreshIsShown
  <2>1. Render(refresh.answer, lastVersion) /\ IsSnapshot(refresh.answer, Here)
    BY <1>0, <1>4 DEF RefreshIsShown, RefreshInv
  <2>2. LoadTypes' /\ SeenTypes'
    BY <2>1, RenderTypes
  <2> QED BY <1>4, <1>a, <1>b, <2>2 DEF RefreshIsShown, RefreshOver, serverVars
<1>5. CASE RefreshIsForbidden
  BY <1>5, AuthenticationTypes DEF RefreshIsForbidden
<1>6. ASSUME NEW l \in loads, LoadIsAnswered(l) \/ LoadEnds(l)
      PROVE  Flags' /\ SourceTypes' /\ RefreshTypes' /\ LoadTypes' /\ SeenTypes'
  <2>1. UNCHANGED <<login, authed, source, ready, timer, refresh, tracker>>
    BY <1>6 DEF LoadIsAnswered, LoadEnds, serverVars, streamVars
  <2>2. LoadTypes'
    <3>1. CASE LoadEnds(l)
      BY <3>1 DEF LoadEnds, TypeInv, LoadTypes
    <3>2. CASE LoadIsAnswered(l)
      <4>1. PICK page : page = PageBefore(l.epoch, server[l.sid].turns, l.before)
        OBVIOUS
      <4>2. PICK m : /\ loads' = (loads \ {l}) \cup {m}
                     /\ \/ m = [l EXCEPT !.answer = "login"]
                        \/ m = [l EXCEPT !.answer = "error"]
                        \/ m = [l EXCEPT !.answer = "page", !.page = page]
        BY <3>2, <4>1 DEF LoadIsAnswered
      <4>3. Requested(l)
        BY DEF TypeInv, PageInv, LoadInv
      <4>4. m.before = l.before /\ m.answer \in {"login", "error", "page"}
        BY <4>2, <4>3 DEF Requested
      <4> QED BY <4>2, <4>4 DEF TypeInv, LoadTypes
    <3> QED BY <1>6, <3>1, <3>2
  <2> QED BY <1>a, <2>1, <2>2 DEF TypeInv, Flags, RefreshTypes, SeenTypes, Somebody
<1>7. ASSUME NEW l \in loads, LoadIsForbidden(l)
      PROVE  Flags' /\ SourceTypes' /\ RefreshTypes' /\ LoadTypes' /\ SeenTypes'
  BY <1>7, AuthenticationTypes DEF LoadIsForbidden, ShowAuthenticationAndAbort
<1> QED
  BY <1>1, <1>2, <1>3, <1>4, <1>5, <1>6, <1>7 DEF Request

LEMMA ReaderTypes ==
  ASSUME TypeInv, Reader
  PROVE  Flags' /\ SourceTypes' /\ RefreshTypes' /\ LoadTypes' /\ SeenTypes'
<1>c. ASSUME UNCHANGED <<loads, tracker>> PROVE LoadTypes' /\ SeenTypes'
  BY <1>c DEF TypeInv, LoadTypes, SeenTypes
<1>d. ASSUME UNCHANGED <<login, authed, source, ready, timer, refresh>>
      PROVE  Flags' /\ SourceTypes' /\ RefreshTypes'
  BY <1>d DEF TypeInv, Flags, SourceTypes, RefreshTypes, Somebody
<1>1. CASE LogsIn
  <2>1. /\ login' = TRUE /\ authed' = TRUE /\ source' = Connecting(selected) /\ ready' = FALSE
        /\ UNCHANGED <<timer, refresh, loads, tracker>>
    BY <1>1 DEF LogsIn, shownVars
  <2>2. source'.pc = "connecting" /\ source'.sid = selected /\ source'.checking = FALSE
    BY <2>1 DEF Connecting, NoSource
  <2> QED BY <1>c, <2>1, <2>2 DEF TypeInv, PageInv, Shapes, Flags, SourceTypes, RefreshTypes, Somebody
<1>2. CASE Operates
  BY <1>2, <1>c, RefreshedTypes DEF Operates, serverVars, shownVars, TypeInv, Flags, SourceTypes, Somebody
<1>3. CASE OperationIsForbidden
  BY <1>3, AuthenticationTypes DEF OperationIsForbidden, ShowAuthenticationAndAbort
<1>4. CASE Scrolls
  BY <1>4, <1>c, <1>d DEF Scrolls, serverVars, streamVars
<1>5. CASE ShowsRecent
  BY <1>5, <1>d, OutdatedTypes DEF ShowsRecent, serverVars, streamVars, TypeInv, SeenTypes
<1>6. CASE LoadBegins
  <2>0. PICK l : l = [current |-> TRUE, sid |-> Resolved(selected), epoch |-> timeline.epoch,
                      before |-> Oldest(timeline) - 1, answer |-> "none", page |-> NoPage]
    OBVIOUS
  <2>1. loads' = loads \cup {l} /\ l.answer = "none" /\ l.before = Oldest(timeline) - 1
    BY <1>6, <2>0 DEF LoadBegins
  <2>2. Oldest(timeline) \in 1 .. MaxTurns
    <3>1. DOMAIN timeline.entries # {} /\ DOMAIN timeline.entries \subseteq 1 .. MaxTurns
      BY <1>6 DEF LoadBegins, HasEarlier, TypeInv, PageInv, TimelineInv, IsTimeline
    <3> QED BY <3>1, OldestIs
  <2>3. l.before \in 0 .. MaxTurns
    BY <2>1, <2>2, ConstantsAssumption
  <2>4. LoadTypes'
    BY <2>1, <2>3 DEF TypeInv, LoadTypes
  <2> QED BY <1>6, <1>d, <2>4 DEF LoadBegins, serverVars, streamVars, TypeInv, SeenTypes
<1>7. ASSUME NEW s \in Sessions, Selects(s)
      PROVE  Flags' /\ SourceTypes' /\ RefreshTypes' /\ LoadTypes' /\ SeenTypes'
  <2>1. /\ tracker' = NoTracker /\ refresh' = Aborted(refresh) /\ loads' = Outdated(loads)
        /\ source' = Connecting(s) /\ ready' = FALSE /\ UNCHANGED <<login, authed, timer>>
    BY <1>7 DEF Selects, serverVars
  <2>2. source'.pc = "connecting" /\ source'.sid = s /\ source'.checking = FALSE
    BY <2>1 DEF Connecting, NoSource
  <2>3. refresh'.sid \in {refresh.sid, Nobody} /\ refresh'.fate \in {refresh.fate, "aborted"}
    BY <2>1 DEF Aborted, NoRefresh
  <2>4. Flags' /\ SourceTypes' /\ RefreshTypes' /\ SeenTypes'
    <3>1. Flags'
      BY <2>1 DEF TypeInv, Flags
    <3>2. SourceTypes'
      BY <2>2 DEF SourceTypes, Somebody
    <3>3. RefreshTypes'
      BY <2>3 DEF TypeInv, RefreshTypes, Somebody
    <3>4. SeenTypes'
      BY <2>1, NothingSeen
    <3> QED BY <3>1, <3>2, <3>3, <3>4
  <2> QED BY <2>1, <2>4, OutdatedTypes
<1> QED
  BY <1>1, <1>2, <1>3, <1>4, <1>5, <1>6, <1>7 DEF Reader

LEMMA StepKeepsTypeInv == TypeInv /\ LoggedOut /\ [Next]_vars => TypeInv'
<1> SUFFICES ASSUME TypeInv, LoggedOut, [Next]_vars PROVE TypeInv'
  OBVIOUS
<1>1. PageInv'
  BY StepKeepsPageInv DEF TypeInv
<1>2. CASE UNCHANGED vars
  BY <1>1, <1>2 DEF vars, serverVars, streamVars, shownVars, TypeInv, Flags, SourceTypes, RefreshTypes,
     LoadTypes, SeenTypes, Somebody
<1> QED
  BY <1>1, <1>2, ServerTypes, StreamTypes, RequestTypes, ReaderTypes DEF Next, TypeInv

\* The type invariant of the page.
THEOREM Typing == Spec => []TypeOK
<1>1. TypeInv => PageInv
  BY DEF TypeInv
<1> QED
  BY <1>1, InitTypeInv, StepKeepsTypeInv, InitLoggedOut, StepKeepsLoggedOut, TypeInvIsEnough, PTL DEF Spec
=============================================================================
