--------------------------- MODULE HistoryTimeline ---------------------------
(***************************************************************************)
(* The class HistoryTimeline of web/history.js and the pages it shows,     *)
(* which SessionProjection.history_page cuts from a thread's history       *)
(* (session_projection.py).                                                *)
(*                                                                         *)
(* A history is a sequence of turns; a page [epoch, start, end, turns] is  *)
(* its part from start + 1 to end.  The timeline keeps the turns it has    *)
(* loaded by index, each with the epoch it came from.                      *)
(***************************************************************************)
EXTENDS Naturals, Sequences, FiniteSetsExt, Functions

CONSTANTS
  PageSize,  \* turns of a page: 20 in the code
  Keep       \* turns a followed timeline keeps: 100 in the code

ASSUME PagesAssumption == PageSize \in Nat \ {0} /\ Keep \in Nat /\ PageSize <= Keep

NoEpoch == <<>>
NoPage  == [epoch |-> NoEpoch, start |-> 0, end |-> 0, turns |-> <<>>]

\* Operators named Bad... are slips of the code that the properties of module
\* Page must notice; nothing uses them.

\* history_page: the turns up to "before", or the latest.
PageBefore(epoch, history, end) ==
  LET start == IF end > PageSize THEN end - PageSize ELSE 0 IN
  [epoch |-> epoch, start |-> start, end |-> end,
   turns |-> [i \in start + 1 .. end |-> [epoch |-> epoch, status |-> history[i]]]]

LatestPage(epoch, history) == PageBefore(epoch, history, Len(history))

EmptyTimeline ==
  [epoch |-> NoEpoch, entries |-> <<>>, latest |-> NoPage,
   following |-> TRUE, loading |-> FALSE, failed |-> FALSE]

Newest(t) == Max({0} \cup DOMAIN t.entries)
Oldest(t) == Min(DOMAIN t.entries)

\* draw: there is an earlier page to ask for.
HasEarlier(t) == DOMAIN t.entries # {} /\ Oldest(t) > 1

Merged(entries, page) ==
  [i \in DOMAIN entries \cup DOMAIN page.turns |->
     IF i \in DOMAIN page.turns THEN page.turns[i] ELSE entries[i]]

BadMustReset(t, page) == DOMAIN t.entries # {} /\ page.start > Newest(t)

\* A page of another epoch, or one that leaves a hole behind the newest turn.
MustReset(t, page) ==
  \/ t.epoch # page.epoch
  \/ DOMAIN t.entries # {} /\ page.start > Newest(t)

\* update, where t has been reset already if it must be.
Shown(t, page) ==
  LET merged == Merged(t.entries, page)
      kept   == IF t.following /\ Cardinality(DOMAIN merged) > Keep
                THEN {i \in DOMAIN merged : i + Keep > page.end}
                ELSE DOMAIN merged IN
  [t EXCEPT !.epoch = page.epoch, !.latest = page, !.entries = Restrict(merged, kept),
            !.following = @ \/ t.entries = <<>>]

Updated(t, page) == Shown(IF MustReset(t, page) THEN EmptyTimeline ELSE t, page)

\* showRecent
Recent(t) == Shown(EmptyTimeline, t.latest)

\* loadEarlier, up to its await; then its answer, and its failure.
Loading(t)       == [t EXCEPT !.following = FALSE, !.loading = TRUE, !.failed = FALSE]
Loaded(t, page)  == [t EXCEPT !.entries = Merged(@, page), !.loading = FALSE]
LoadFailed(t)    == [t EXCEPT !.failed = TRUE, !.loading = FALSE]

\* No turn is missing between two that are shown, and all are of one epoch.
Whole(t) == /\ \A i, j \in DOMAIN t.entries : i .. j \subseteq DOMAIN t.entries
            /\ \A i \in DOMAIN t.entries : t.entries[i].epoch = t.epoch
=============================================================================
