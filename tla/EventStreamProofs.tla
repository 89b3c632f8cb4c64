-------------------------- MODULE EventStreamProofs --------------------------
(***************************************************************************)
(* No wake-up of EventStream is lost, for any number of threads, any       *)
(* capacity of the queue and any changes of the session: whoever reads too *)
(* early to see a change has something coming that makes it read again.    *)
(* And a delta, applied to the snapshot it was made from, gives the new    *)
(* one, so that the frames on the wire form a chain of snapshots from what *)
(* the page has to what the server takes for its baseline.                 *)
(***************************************************************************)
EXTENDS EventStream, SequenceTheorems, TLAPS

\* A subscriber will be woken, or is about to be.
Coming == signals > 0 \/ armed \/ \E n \in Notifiers : notifier[n] # "idle"

\* What the handler has read, or has sent, is the session as it is, unless
\* something is coming.  Between a wake-up and the next reading it may be late.
Fresh ==
  /\ handler = "rest" => page = thread \/ Coming
  /\ handler = "wait" => previous = Current \/ Coming

IInv == notifier \in [Notifiers -> NotifierPlaces] /\ signals \in Nat /\ Fresh

LEMMA InitHasIInv == Init => IInv
BY DEF Init, IInv, Fresh, NotifierPlaces

\* A change leaves its own thread on the way to the subscriber.
LEMMA ChangesKeepIInv ==
  ASSUME IInv, NEW t \in Threads, Changes(t)
  PROVE  IInv'
<1>1. PICK how \in {"changed", "direct"} :
         /\ notifier' = [notifier EXCEPT ![t] = how]
         /\ UNCHANGED <<armed, signals, handler, stream>>
  BY DEF Changes, ItemChanges, TurnStarts, TurnFails, Resync, NoticeChanges, Change
<1>2. notifier' \in [Notifiers -> NotifierPlaces]
  BY <1>1 DEF IInv, Notifiers, NotifierPlaces
<1>3. Coming'
  <2>1. t \in Notifiers /\ notifier'[t] # "idle"
    BY <1>1 DEF IInv, Notifiers
  <2>. QED BY <2>1 DEF Coming
<1>. QED BY <1>1, <1>2, <1>3 DEF IInv, Fresh

\* A thread on its way leaves something behind when it is done, or there is no
\* subscriber: an entry in the queue, the timer, or the queue full of others.
LEMMA NotifiesKeepIInv ==
  ASSUME IInv, NEW n \in Notifiers, Notifies(n) \/ (n = Timer /\ TimerFires)
  PROVE  IInv'
<1>1. UNCHANGED <<session, handler, stream>>
  BY DEF Notifies, BroadcastNow, ArmTimer, LeaveToTimer, Put, DropOldest, TimerFires
<1>2. PICK place \in NotifierPlaces : notifier' = [notifier EXCEPT ![n] = place]
  BY DEF Notifies, BroadcastNow, ArmTimer, LeaveToTimer, Put, DropOldest, TimerFires, At, NotifierPlaces
<1>3. signals' \in Nat /\ notifier' \in [Notifiers -> NotifierPlaces]
  BY <1>2 DEF IInv, Notifies, BroadcastNow, ArmTimer, LeaveToTimer, Put, DropOldest, TimerFires
<1>4. handler # "subscribe" => place # "idle" \/ armed' \/ signals' > 0
  BY <1>2, ConstantsAssumption
     DEF IInv, Notifies, BroadcastNow, ArmTimer, LeaveToTimer, Put, DropOldest, TimerFires, At, Subscribed, Full
<1>5. handler # "subscribe" => Coming'
  BY <1>2, <1>4 DEF IInv, Coming
<1>. QED BY <1>1, <1>3, <1>5 DEF IInv, Fresh, session, stream

\* The handler empties the queue only on its way to reading.
LEMMA HandlesKeepIInv ==
  ASSUME IInv, Handles \/ Apply \/ Disconnect
  PROVE  IInv'
<1>1. CASE ReadThread
  BY <1>1 DEF ReadThread, IInv, Fresh, session
<1>2. CASE ReadRest
  <2>1. SnapshotOf(page, notice) = previous'
    BY <1>2 DEF ReadRest
  <2>2. page = thread => previous' = Current'
    BY <1>2, <2>1 DEF ReadRest, session, Current
  <2>. QED BY <1>2, <2>2 DEF ReadRest, IInv, Fresh, Coming
<1>3. CASE Subscribe \/ WakeUp \/ DrainOne \/ DrainEnds
  BY <1>3 DEF Subscribe, WakeUp, DrainOne, DrainEnds, IInv, Fresh
<1>4. CASE Apply
  BY <1>4 DEF Apply, IInv, Fresh, Coming, Current, session, stream
<1>5. CASE Disconnect
  <2>1. notifier' \in [Notifiers -> NotifierPlaces]
    BY <1>5 DEF Disconnect, NewConnection, Unconcerned, IInv, NotifierPlaces
  <2>. QED BY <1>5, <2>1 DEF Disconnect, NewConnection, IInv, Fresh
<1>. QED BY <1>1, <1>2, <1>3, <1>4, <1>5 DEF Handles

LEMMA StepKeepsIInv == IInv /\ [Next]_vars => IInv'
<1> SUFFICES ASSUME IInv, [Next]_vars PROVE IInv'
  OBVIOUS
<1>1. CASE UNCHANGED vars
  BY <1>1 DEF vars, session, stream, IInv, Fresh, Coming, Current
<1>2. Timer \in Notifiers
  BY DEF Notifiers
<1>. QED BY <1>1, <1>2, ChangesKeepIInv, NotifiesKeepIInv, HandlesKeepIInv DEF Next

\* A handler that waits with nothing coming has sent the session as it is:
\* neither a full queue, nor a dropped entry, nor two threads that broadcast at
\* once, nor the timer's delay, nor a lost connection loses a change.
THEOREM NothingMissed == Spec => []NoLostWakeup
<1>1. IInv => NoLostWakeup
  BY DEF IInv, Fresh, Coming, NoLostWakeup
<1>. QED BY <1>1, InitHasIInv, StepKeepsIInv, PTL DEF Spec

----------------------------------------------------------------------------
(* What a delta is made of, and what patching makes of it.                 *)

IsMap(f)    == f = [k \in DOMAIN f |-> f[k]]
Distinct(s) == \A i, j \in DOMAIN s : s[i].id = s[j].id => i = j

Items      == [id : Nat, text : Seq(Letters)]
TurnFields == {[status |-> "inProgress"], [status |-> "inProgress", error |-> "error"]}
Turns      == {t \in [id : Nat, fields : TurnFields, items : Seq(Items)] : Distinct(t.items)}
Snapshots  == {s \in [epoch : Nat \ {0}, fields : [notice : Nat], turns : Seq(Turns)] : Distinct(s.turns)}

\* A text is what the page has and what is appended to it.
LEMMA AppendedText ==
  ASSUME NEW a \in Seq(Letters), NEW b \in Seq(Letters), StartsWith(a, b)
  PROVE  b \o SubSeq(a, Len(b) + 1, Len(a)) = a
<1>0. Len(b) <= Len(a) /\ SubSeq(a, 1, Len(b)) = b /\ Len(a) \in Nat /\ Len(b) \in Nat
  BY DEF StartsWith
<1> DEFINE c == SubSeq(a, Len(b) + 1, Len(a))
<1>1. c \in Seq(Letters) /\ Len(c) = Len(a) - Len(b) /\ \A i \in 1..Len(c) : c[i] = a[Len(b) + i]
  BY <1>0
<1>2. \A i \in 1..Len(b) : b[i] = a[i]
  BY <1>0
<1> HIDE DEF c
<1>3. Len(b \o c) = Len(a) /\ b \o c \in Seq(Letters)
  BY <1>0, <1>1
<1>4. \A i \in 1..Len(a) : (b \o c)[i] = a[i]
  BY <1>0, <1>1, <1>2
<1>5. b \o c = a
  BY <1>3, <1>4, SeqEqual
<1>. QED BY <1>5 DEF c

\* The fields that changed and those that were removed give the new fields.
LEMMA PatchedFields ==
  ASSUME NEW f, NEW g, IsMap(f)
  PROVE  PatchFields(g, FieldsChanged(f, g), FieldsRemoved(f, g)) = f
<1> DEFINE changed == FieldsChanged(f, g)
           keys    == {c[1] : c \in changed}
           value(k) == IF k \in keys THEN (CHOOSE c \in changed : c[1] = k)[2] ELSE g[k]
<1>1. keys = {j \in DOMAIN f : j \notin DOMAIN g \/ f[j] # g[j]}
  <2>1. \A c \in changed : c[1] \in DOMAIN f /\ (c[1] \notin DOMAIN g \/ f[c[1]] # g[c[1]])
    BY DEF FieldsChanged
  <2>2. ASSUME NEW j \in DOMAIN f, j \notin DOMAIN g \/ f[j] # g[j] PROVE \E c \in changed : c[1] = j
    <3>1. <<j, f[j]>> \in changed
      BY <2>2 DEF FieldsChanged
    <3>. QED BY <3>1
  <2> HIDE DEF changed
  <2>. QED BY <2>1, <2>2
<1>2. (DOMAIN g \cup keys) \ FieldsRemoved(f, g) = DOMAIN f
  BY <1>1 DEF FieldsRemoved
<1>3. ASSUME NEW k \in DOMAIN f PROVE value(k) = f[k]
  <2>1. CASE k \in keys
    <3>1. <<k, f[k]>> \in changed
      BY <1>1, <2>1 DEF FieldsChanged
    <3>2. \A c \in changed : c[1] = k => c[2] = f[k]
      BY DEF FieldsChanged
    <3>3. \E c \in changed : c[1] = k
      BY <3>1
    <3> HIDE DEF changed
    <3>. QED BY <3>2, <3>3, <2>1
  <2>2. CASE k \notin keys
    BY <1>1, <2>2
  <2>. QED BY <2>1, <2>2
<1>4. PatchFields(g, changed, FieldsRemoved(f, g)) = [k \in (DOMAIN g \cup keys) \ FieldsRemoved(f, g) |-> value(k)]
  BY DEF PatchFields
<1>5. f = [k \in DOMAIN f |-> f[k]]
  BY DEF IsMap
<1> HIDE DEF changed, keys, value
<1>. QED BY <1>2, <1>3, <1>4, <1>5 DEF changed

LEMMA FieldsAreMaps ==
  /\ \A f \in TurnFields : IsMap(f)
  /\ \A f \in [notice : Nat] : IsMap(f)
BY DEF TurnFields, IsMap

LEMMA FoundById ==
  ASSUME NEW s, Distinct(s), NEW i \in DOMAIN s
  PROVE  Has(s, s[i].id) /\ ById(s, s[i].id) = s[i]
<1>1. s[i] \in Elements(s)
  BY DEF Elements
<1>2. \A e \in Elements(s) : e.id = s[i].id => e = s[i]
  BY DEF Elements, Distinct
<1>. QED BY <1>1, <1>2 DEF Has, ById

LEMMA HasElement ==
  ASSUME NEW s, NEW id, Has(s, id)
  PROVE  ById(s, id) \in Elements(s) /\ ById(s, id).id = id
BY DEF Has, ById

LEMMA SameIdSameElement ==
  ASSUME NEW s, Distinct(s), NEW e \in Elements(s), NEW f \in Elements(s), e.id = f.id
  PROVE  e = f
BY DEF Elements, Distinct

ItemDeltas(t, old) == {ItemDelta(i, old) : i \in Elements(t.items) \ Elements(old.items)}

LEMMA ItemIsPatched ==
  ASSUME NEW t \in Turns, NEW old \in Turns, NEW j \in DOMAIN t.items
  PROVE  PatchedItem(t.items[j].id, ItemDeltas(t, old), old.items) = t.items[j]
<1> DEFINE item == t.items[j]
           deltas == ItemDeltas(t, old)
<1>1. item \in Elements(t.items) /\ item \in Items /\ Distinct(t.items) /\ Distinct(old.items)
  BY DEF Turns, Elements
<1>2. \A i : ItemDelta(i, old).id = i.id
  BY DEF ItemDelta
<1>3. \A i \in Elements(old.items) : i \in Items
  BY DEF Turns, Elements
<1>4. CASE item \in Elements(old.items)
  <2>1. \A d \in deltas : d.id # item.id
    BY <1>1, <1>2, <1>4, SameIdSameElement DEF ItemDeltas
  <2>2. ById(old.items, item.id) = item
    <3>1. PICK k \in DOMAIN old.items : old.items[k] = item
      BY <1>4 DEF Elements
    <3>. QED BY <1>1, <3>1, FoundById
  <2>. QED BY <2>1, <2>2 DEF PatchedItem
<1>5. CASE item \notin Elements(old.items)
  <2>1. ItemDelta(item, old) \in deltas /\ ItemDelta(item, old).id = item.id
    BY <1>1, <1>2, <1>5 DEF ItemDeltas
  <2>2. \A d \in deltas : d.id = item.id => d = ItemDelta(item, old)
    BY <1>1, <1>2, SameIdSameElement DEF ItemDeltas
  <2>3. ChangeOf(deltas, item.id) = ItemDelta(item, old)
    <3> HIDE DEF deltas, item
    <3>. QED BY <2>1, <2>2 DEF ChangeOf
  <2>4. PatchedItem(item.id, deltas, old.items)
          = IF ItemDelta(item, old).kind = "replace" THEN ItemDelta(item, old).item
            ELSE [id |-> item.id, text |-> ById(old.items, item.id).text \o ItemDelta(item, old).text]
    BY <2>1, <2>3 DEF PatchedItem
  <2>5. CASE Has(old.items, item.id) /\ StartsWith(item.text, ById(old.items, item.id).text)
    <3> DEFINE text == ById(old.items, item.id).text
    <3>1. text \in Seq(Letters) /\ item.text \in Seq(Letters)
      BY <1>1, <1>3, <2>5, HasElement DEF Items
    <3>2. ItemDelta(item, old).kind = "append"
          /\ ItemDelta(item, old).text = SubSeq(item.text, Len(text) + 1, Len(item.text))
      BY <2>5 DEF ItemDelta
    <3>3. text \o SubSeq(item.text, Len(text) + 1, Len(item.text)) = item.text
      BY <2>5, <3>1, AppendedText
    <3>4. item = [id |-> item.id, text |-> item.text]
      BY <1>1 DEF Items
    <3>. QED BY <2>4, <3>2, <3>3, <3>4
  <2>6. CASE ~(Has(old.items, item.id) /\ StartsWith(item.text, ById(old.items, item.id).text))
    BY <2>4, <2>6 DEF ItemDelta
  <2>. QED BY <2>5, <2>6
<1>. QED BY <1>4, <1>5

TurnDeltas(new, old) == {TurnDelta(t, old.turns) : t \in Elements(new.turns) \ Elements(old.turns)}

\* What ItemIsPatched says of one item, put together for a turn.
LEMMA ItemsArePatched ==
  ASSUME NEW t \in Turns, NEW old \in Turns
  PROVE  [i \in DOMAIN Ids(t.items) |-> PatchedItem(Ids(t.items)[i], ItemDeltas(t, old), old.items)] = t.items
<1>1. DOMAIN Ids(t.items) = DOMAIN t.items /\ \A i \in DOMAIN t.items : Ids(t.items)[i] = t.items[i].id
  BY DEF Ids
<1>2. t.items = [i \in DOMAIN t.items |-> t.items[i]]
  BY DEF Turns
<1>. QED BY <1>1, <1>2, ItemIsPatched

LEMMA TurnIsPatched ==
  ASSUME NEW new \in Snapshots, NEW old \in Snapshots, NEW j \in DOMAIN new.turns
  PROVE  PatchedTurn(new.turns[j].id, TurnDeltas(new, old), old.turns) = new.turns[j]
<1> DEFINE t == new.turns[j]
           deltas == TurnDeltas(new, old)
<1>1. t \in Elements(new.turns) /\ t \in Turns /\ Distinct(new.turns) /\ Distinct(old.turns)
  BY DEF Snapshots, Elements
<1>2. \A u : TurnDelta(u, old.turns).id = u.id
  BY DEF TurnDelta
<1>3. \A u \in Elements(old.turns) : u \in Turns
  BY DEF Snapshots, Elements
<1>4. CASE t \in Elements(old.turns)
  <2>1. \A d \in deltas : d.id # t.id
    BY <1>1, <1>2, <1>4, SameIdSameElement DEF TurnDeltas
  <2>2. ById(old.turns, t.id) = t
    <3>1. PICK k \in DOMAIN old.turns : old.turns[k] = t
      BY <1>4 DEF Elements
    <3>. QED BY <1>1, <3>1, FoundById
  <2>. QED BY <2>1, <2>2 DEF PatchedTurn
<1>5. CASE t \notin Elements(old.turns)
  <2>1. TurnDelta(t, old.turns) \in deltas /\ TurnDelta(t, old.turns).id = t.id
    BY <1>1, <1>2, <1>5 DEF TurnDeltas
  <2>2. \A d \in deltas : d.id = t.id => d = TurnDelta(t, old.turns)
    BY <1>1, <1>2, SameIdSameElement DEF TurnDeltas
  <2>3. ChangeOf(deltas, t.id) = TurnDelta(t, old.turns)
    <3> HIDE DEF deltas, t
    <3>. QED BY <2>1, <2>2 DEF ChangeOf
  <2>4. CASE ~Has(old.turns, t.id)
    BY <2>1, <2>3, <2>4 DEF PatchedTurn, TurnDelta
  <2>5. CASE Has(old.turns, t.id)
    <3> DEFINE o == ById(old.turns, t.id)
               d == TurnDelta(t, old.turns)
    <3>1. o \in Turns
      BY <1>3, <2>5, HasElement
    <3>2. /\ d.kind = "patch" /\ d.order = Ids(t.items) /\ d.items = ItemDeltas(t, o)
          /\ d.fields = FieldsChanged(t.fields, o.fields) /\ d.removed = FieldsRemoved(t.fields, o.fields)
      BY <2>5 DEF TurnDelta, ItemDeltas
    <3>3. PatchedTurn(t.id, deltas, old.turns)
            = [id |-> t.id, fields |-> PatchFields(o.fields, d.fields, d.removed),
               items |-> [i \in DOMAIN d.order |-> PatchedItem(d.order[i], d.items, o.items)]]
      <4> HIDE DEF deltas, t, d
      <4>. QED BY <2>1, <2>3, <3>2 DEF PatchedTurn, d
    <3>4. PatchFields(o.fields, d.fields, d.removed) = t.fields
      BY <1>1, <3>2, PatchedFields, FieldsAreMaps DEF Turns
    <3>5. [i \in DOMAIN d.order |-> PatchedItem(d.order[i], d.items, o.items)] = t.items
      BY <1>1, <3>1, <3>2, ItemsArePatched
    <3>6. t = [id |-> t.id, fields |-> t.fields, items |-> t.items]
      BY <1>1 DEF Turns
    <3>. QED BY <3>3, <3>4, <3>5, <3>6
  <2>. QED BY <2>4, <2>5
<1>. QED BY <1>4, <1>5

\* The difference of two snapshots of one epoch, applied to the older one, gives
\* the newer one: whatever turns and items came, went or changed their places,
\* fields and texts.
LEMMA DeltaIsExact ==
  ASSUME NEW new \in Snapshots, NEW old \in Snapshots, NEW seq, new.epoch = old.epoch
  PROVE  Patched(old, Frame(new, old, seq)) = new
<1> DEFINE f == Frame(new, old, seq)
<1>1. old # NoSnapshot
  BY DEF Snapshots, NoSnapshot
<1>2. /\ f.event = "delta" /\ f.order = Ids(new.turns) /\ f.turns = TurnDeltas(new, old)
      /\ f.fields = FieldsChanged(new.fields, old.fields) /\ f.removed = FieldsRemoved(new.fields, old.fields)
  BY <1>1 DEF Frame, TurnDeltas
<1>3. PatchFields(old.fields, f.fields, f.removed) = new.fields
  BY <1>2, PatchedFields, FieldsAreMaps DEF Snapshots
<1>4. [i \in DOMAIN f.order |-> PatchedTurn(f.order[i], f.turns, old.turns)] = new.turns
  <2>1. DOMAIN Ids(new.turns) = DOMAIN new.turns /\ \A i \in DOMAIN new.turns : Ids(new.turns)[i] = new.turns[i].id
    BY DEF Ids
  <2>2. new.turns = [i \in DOMAIN new.turns |-> new.turns[i]]
    BY DEF Snapshots
  <2>. QED BY <1>2, <2>1, <2>2, TurnIsPatched
<1>5. new = [epoch |-> new.epoch, fields |-> new.fields, turns |-> new.turns]
  BY DEF Snapshots
<1>. QED BY <1>2, <1>3, <1>4, <1>5 DEF Patched

\* And it builds on nothing that the older one does not have.
LEMMA DeltaIsApplicable ==
  ASSUME NEW new \in Snapshots, NEW old \in Snapshots, NEW n \in Nat
  PROVE  Applicable([snapshot |-> old, sequence |-> n], Frame(new, old, n + 1))
<1> DEFINE f == Frame(new, old, n + 1)
           b == [snapshot |-> old, sequence |-> n]
<1>1. old # NoSnapshot
  BY DEF Snapshots, NoSnapshot
<1>2. CASE new.epoch # old.epoch
  BY <1>2 DEF Frame, Applicable
<1>3. CASE new.epoch = old.epoch
  <2>1. /\ f.sequence = n + 1 /\ f.base = n /\ f.order = Ids(new.turns) /\ f.turns = TurnDeltas(new, old)
    BY <1>1, <1>3 DEF Frame, TurnDeltas
  <2>2. \A t : TurnDelta(t, old.turns).id = t.id
    BY DEF TurnDelta
  <2>3. ASSUME NEW d \in TurnDeltas(new, old), d.kind = "patch"
        PROVE  Has(old.turns, d.id) /\ ItemsKnown(d, ById(old.turns, d.id).items)
    <3>1. PICK t \in Elements(new.turns) : d = TurnDelta(t, old.turns)
      BY <2>3 DEF TurnDeltas
    <3>2. Has(old.turns, t.id) /\ d.id = t.id
      <4>1. ~Has(old.turns, t.id) => TurnDelta(t, old.turns).kind = "replace"
        BY DEF TurnDelta
      <4>. QED BY <2>2, <2>3, <3>1, <4>1
    <3> DEFINE o == ById(old.turns, t.id)
    <3>3. d.items = ItemDeltas(t, o) /\ d.order = Ids(t.items)
      BY <3>1, <3>2 DEF TurnDelta, ItemDeltas
    <3>4. ASSUME NEW i \in d.items, i.kind = "append" PROVE Has(o.items, i.id)
      <4>1. PICK e : i = ItemDelta(e, o)
        BY <3>3 DEF ItemDeltas
      <4>2. ~Has(o.items, e.id) => ItemDelta(e, o).kind = "replace"
        BY DEF ItemDelta
      <4>3. ItemDelta(e, o).id = e.id
        BY DEF ItemDelta
      <4>. QED BY <3>4, <4>1, <4>2, <4>3
    <3>5. ASSUME NEW j \in DOMAIN d.order
          PROVE  Has(o.items, d.order[j]) \/ \E i \in d.items : i.id = d.order[j]
      <4>1. j \in DOMAIN t.items /\ d.order[j] = t.items[j].id /\ t.items[j] \in Elements(t.items)
        BY <3>3 DEF Ids, Elements
      <4>2. CASE t.items[j] \in Elements(o.items)
        BY <4>1, <4>2 DEF Has
      <4>3. CASE t.items[j] \notin Elements(o.items)
        <5>1. ItemDelta(t.items[j], o) \in d.items /\ ItemDelta(t.items[j], o).id = t.items[j].id
          BY <3>3, <4>1, <4>3 DEF ItemDeltas, ItemDelta
        <5>. QED BY <4>1, <5>1
      <4>. QED BY <4>2, <4>3
    <3>. QED BY <3>2, <3>4, <3>5 DEF ItemsKnown
  <2>4. ASSUME NEW i \in DOMAIN f.order
        PROVE  Has(old.turns, f.order[i]) \/ \E d \in f.turns : d.id = f.order[i]
    <3>1. i \in DOMAIN new.turns /\ f.order[i] = new.turns[i].id /\ new.turns[i] \in Elements(new.turns)
      BY <2>1 DEF Ids, Elements
    <3>2. CASE new.turns[i] \in Elements(old.turns)
      BY <3>1, <3>2 DEF Has
    <3>3. CASE new.turns[i] \notin Elements(old.turns)
      <4>1. TurnDelta(new.turns[i], old.turns) \in f.turns
        BY <2>1, <3>1, <3>3 DEF TurnDeltas
      <4>. QED BY <2>2, <3>1, <4>1
    <3>. QED BY <3>2, <3>3
  <2>5. b.snapshot = old /\ b.sequence = n
    OBVIOUS
  <2>6. Applicable(b, f)
    <3> HIDE DEF f, b
    <3>. QED BY <1>1, <2>1, <2>3, <2>4, <2>5 DEF Applicable
  <2>. QED BY <2>6
<1>. QED BY <1>2, <1>3

----------------------------------------------------------------------------
(* What the server sends are snapshots of this kind.                       *)

ThreadsOf == {t \in [epoch : Nat \ {0}, turns : Seq(Turns)] : \A i \in DOMAIN t.turns : t.turns[i].id = i}

LEMMA RecentTurns ==
  ASSUME NEW t \in ThreadsOf, NEW n \in Nat
  PROVE  SnapshotOf(t, n) \in Snapshots
<1> DEFINE s == t.turns
           from == IF Len(s) > PageSize THEN Len(s) - PageSize + 1 ELSE 1
           r == SubSeq(s, from, Len(s))
<1>1. s \in Seq(Turns) /\ Len(s) \in Nat /\ t.epoch \in Nat \ {0} /\ \A i \in DOMAIN s : s[i].id = i
  BY DEF ThreadsOf
<1>2. from \in Nat \ {0}
  BY <1>1, ConstantsAssumption
<1> HIDE DEF s, from
<1>3. r \in Seq(Turns) /\ \A i \in DOMAIN r : r[i] = s[from + i - 1] /\ from + i - 1 \in DOMAIN s /\ i \in Nat
  BY <1>1, <1>2
<1> HIDE DEF r
<1>4. Distinct(r)
  <2>1. ASSUME NEW i \in DOMAIN r, NEW j \in DOMAIN r, r[i].id = r[j].id PROVE i = j
    <3>1. from + i - 1 = from + j - 1
      BY <1>1, <1>3, <2>1
    <3>. QED BY <1>2, <1>3, <3>1
  <2>. QED BY <2>1 DEF Distinct
<1>5. SnapshotOf(t, n) = [epoch |-> t.epoch, fields |-> [notice |-> n], turns |-> r]
  BY DEF SnapshotOf, Recent, r, s, from
<1>. QED BY <1>1, <1>3, <1>4, <1>5 DEF Snapshots

SessionOK == thread \in ThreadsOf /\ notice \in Nat

LEMMA TextsType == Texts \subseteq Seq(Letters)
BY ConstantsAssumption DEF Texts

LEMMA WithItemType ==
  ASSUME NEW items \in Seq(Items), Distinct(items), NEW item \in Items
  PROVE  WithItem(items, item) \in Seq(Items) /\ Distinct(WithItem(items, item))
<1>1. CASE Has(items, item.id)
  <2> DEFINE w == [i \in DOMAIN items |-> IF items[i].id = item.id THEN item ELSE items[i]]
  <2>1. w \in Seq(Items) /\ DOMAIN w = DOMAIN items
    OBVIOUS
  <2>2. \A i \in DOMAIN items : w[i].id = items[i].id
    OBVIOUS
  <2> HIDE DEF w
  <2>3. Distinct(w)
    BY <2>1, <2>2 DEF Distinct
  <2>. QED BY <1>1, <2>1, <2>3 DEF WithItem, w
<1>2. CASE ~Has(items, item.id)
  <2> DEFINE w == Append(items, item)
  <2>1. w \in Seq(Items) /\ DOMAIN w = DOMAIN items \cup {Len(items) + 1} /\ Len(items) + 1 \notin DOMAIN items
        /\ w[Len(items) + 1] = item /\ \A i \in DOMAIN items : w[i] = items[i]
    OBVIOUS
  <2>2. \A i \in DOMAIN items : items[i].id # item.id
    BY <1>2 DEF Has, Elements
  <2> HIDE DEF w
  <2>3. Distinct(w)
    BY <2>1, <2>2 DEF Distinct
  <2>. QED BY <1>2, <2>1, <2>3 DEF WithItem, w
<1>. QED BY <1>1, <1>2

\* The newest turn is changed, another one is added, or the thread is read again.
LEMMA TurnReplaced ==
  ASSUME NEW t \in ThreadsOf, NEW n \in DOMAIN t.turns, NEW u \in Turns, u.id = t.turns[n].id
  PROVE  [t EXCEPT !.turns = [@ EXCEPT ![n] = u]] \in ThreadsOf
<1>1. t.turns \in Seq(Turns) /\ \A i \in DOMAIN t.turns : t.turns[i].id = i
  BY DEF ThreadsOf
<1> DEFINE s == [t.turns EXCEPT ![n] = u]
<1>2. s \in Seq(Turns) /\ DOMAIN s = DOMAIN t.turns /\ \A i \in DOMAIN s : s[i].id = i
  BY <1>1
<1> HIDE DEF s
<1>3. [t EXCEPT !.turns = s] \in ThreadsOf
  BY <1>2 DEF ThreadsOf
<1>. QED BY <1>3 DEF s

LEMMA ChangesKeepSession ==
  ASSUME SessionOK, NEW t \in Threads, Changes(t)
  PROVE  SessionOK'
<1>0. /\ thread \in ThreadsOf /\ thread.turns \in Seq(Turns) /\ notice \in Nat
      /\ Newest \in Nat /\ DOMAIN thread.turns = 1..Newest
      /\ thread.epoch \in Nat \ {0} /\ \A i \in DOMAIN thread.turns : thread.turns[i].id = i
  BY DEF SessionOK, ThreadsOf, Newest
<1>1. ASSUME NEW item \in 1 .. MaxChanges + 1, NEW text \in Texts, ItemChanges(t, item, text) PROVE SessionOK'
  <2> DEFINE u == thread.turns[Newest]
             v == [u EXCEPT !.items = WithItem(@, [id |-> item, text |-> text])]
  <2>1. Newest \in DOMAIN thread.turns /\ u \in Turns
    BY <1>0, <1>1 DEF ItemChanges
  <2>2. [id |-> item, text |-> text] \in Items
    BY TextsType, ConstantsAssumption DEF Items
  <2>3. v \in Turns /\ v.id = u.id
    BY <2>1, <2>2, WithItemType DEF Turns
  <2>4. thread' = [thread EXCEPT !.turns = [@ EXCEPT ![Newest] = v]]
    BY <1>0, <1>1, <2>1 DEF ItemChanges, ThreadsOf, Turns
  <2>5. notice' = notice
    BY <1>1 DEF ItemChanges
  <2> HIDE DEF v
  <2>6. thread' \in ThreadsOf
    BY <1>0, <2>1, <2>3, <2>4, TurnReplaced
  <2>. QED BY <1>0, <2>5, <2>6 DEF SessionOK
<1>2. ASSUME NEW turn \in 1 .. MaxChanges + 1, TurnStarts(t, turn) PROVE SessionOK'
  <2>1. CASE turn = Newest
    <3> DEFINE u == thread.turns[Newest]
               v == [u EXCEPT !.items = <<>>]
    <3>1. Newest \in DOMAIN thread.turns /\ u \in Turns
      BY <1>0, <1>2, <2>1 DEF TurnStarts
    <3>2. <<>> \in Seq(Items) /\ Distinct(<<>>)
      BY DEF Distinct
    <3>3. v \in Turns /\ v.id = u.id
      BY <3>1, <3>2 DEF Turns
    <3>4. thread' = [thread EXCEPT !.turns = [@ EXCEPT ![Newest] = v]]
      BY <1>0, <1>2, <2>1, <3>1 DEF TurnStarts, ThreadsOf, Turns
    <3>5. notice' = notice
      BY <1>2 DEF TurnStarts
    <3> HIDE DEF v
    <3>6. thread' \in ThreadsOf
      BY <1>0, <3>1, <3>3, <3>4, TurnReplaced
    <3>. QED BY <1>0, <3>5, <3>6 DEF SessionOK
  <2>2. CASE turn # Newest
    <3> DEFINE v == [id |-> turn, fields |-> [status |-> "inProgress"], items |-> <<>>]
               s == Append(thread.turns, v)
    <3>1. turn = Newest + 1
      BY <1>2, <2>2 DEF TurnStarts
    <3>2. v \in Turns
      BY <1>0, <3>1 DEF Turns, TurnFields, Distinct
    <3>3. v.id = turn
      OBVIOUS
    <3> HIDE DEF v
    <3>4. s \in Seq(Turns) /\ \A i \in DOMAIN s : s[i].id = i
      BY <1>0, <3>1, <3>2, <3>3 DEF Newest
    <3>5. thread' = [thread EXCEPT !.turns = s]
      BY <1>0, <1>2, <2>2 DEF TurnStarts, v
    <3> HIDE DEF s
    <3>. QED BY <1>0, <1>2, <3>4, <3>5 DEF TurnStarts, SessionOK, ThreadsOf
  <2>. QED BY <2>1, <2>2
<1>3. CASE TurnFails(t)
  <2> DEFINE u == thread.turns[Newest]
             v == [u EXCEPT !.fields = [status |-> "inProgress", error |-> "error"]]
  <2>1. Newest \in DOMAIN thread.turns /\ u \in Turns
    BY <1>0, <1>3 DEF TurnFails
  <2>2. v \in Turns /\ v.id = u.id
    BY <2>1 DEF Turns, TurnFields
  <2>3. thread' = [thread EXCEPT !.turns = [@ EXCEPT ![Newest] = v]]
    BY <1>0, <1>3, <2>1 DEF TurnFails, ThreadsOf, Turns
  <2> HIDE DEF v
  <2>. QED BY <1>0, <1>3, <2>1, <2>2, <2>3, TurnReplaced DEF TurnFails, SessionOK
<1>4. ASSUME NEW n \in 0 .. MaxChanges + 1, Resync(t, n) PROVE SessionOK'
  <2> DEFINE s == SubSeq(thread.turns, 1, n)
  <2>1. n \in 0 .. Len(thread.turns)
    BY <1>4 DEF Resync
  <2>2. s \in Seq(Turns) /\ \A i \in DOMAIN s : s[i] = thread.turns[i] /\ i \in DOMAIN thread.turns
    BY <1>0, <2>1
  <2>3. thread' = [epoch |-> thread.epoch + 1, turns |-> s] /\ notice' = notice
    BY <1>4 DEF Resync
  <2> HIDE DEF s
  <2>. QED BY <1>0, <2>2, <2>3 DEF SessionOK, ThreadsOf
<1>5. CASE NoticeChanges(t)
  BY <1>0, <1>5 DEF NoticeChanges, SessionOK
<1>. QED BY <1>1, <1>2, <1>3, <1>4, <1>5 DEF Changes

----------------------------------------------------------------------------
(* The frames on the wire lead from what the page has, or from nothing, to *)
(* what the server takes for its baseline.                                 *)

Frames    == {Frame(b, a, n) : b \in Snapshots, a \in Snapshots \cup {NoSnapshot}, n \in Nat}
Baselines == [snapshot : Snapshots \cup {NoSnapshot}, sequence : Nat]

Chain(h) ==
  /\ h \in [0 .. Len(wire) -> Baselines]
  /\ h[Len(wire)] = [snapshot |-> previous, sequence |-> sequence]
  /\ h[0] = browser \/ h[0].snapshot = NoSnapshot
  /\ \A i \in 1 .. Len(wire) :
       /\ wire[i] = Frame(h[i].snapshot, h[i - 1].snapshot, h[i].sequence)
       /\ h[i].snapshot \in Snapshots /\ h[i].sequence = h[i - 1].sequence + 1

BaselineInv ==
  /\ SessionOK
  /\ handler = "rest" => page \in ThreadsOf
  /\ wire \in Seq(Frames)
  /\ previous \in Snapshots \cup {NoSnapshot} /\ sequence \in Nat
  /\ \E h : Chain(h)

\* One frame applied: from the snapshot before it, or from none at all.
LEMMA FrameIsExact ==
  ASSUME NEW b \in Snapshots, NEW a \in Snapshots \cup {NoSnapshot}, NEW n \in Nat, NEW x,
         x = a \/ a = NoSnapshot
  PROVE  Patched(x, Frame(b, a, n)) = b /\ Frame(b, a, n).sequence = n
<1>1. Frame(b, a, n).sequence = n
  BY DEF Frame
<1>2. CASE a = NoSnapshot \/ b.epoch # a.epoch
  BY <1>1, <1>2 DEF Frame, Patched
<1>3. CASE ~(a = NoSnapshot \/ b.epoch # a.epoch)
  BY <1>1, <1>3, DeltaIsExact
<1>. QED BY <1>2, <1>3

LEMMA FrameIsAFrame ==
  ASSUME NEW b \in Snapshots, NEW a \in Snapshots \cup {NoSnapshot}, NEW n \in Nat
  PROVE  Frame(b, a, n) \in Frames
BY DEF Frames

LEMMA FrameIsApplicable ==
  ASSUME NEW b \in Snapshots, NEW a \in Snapshots \cup {NoSnapshot}, NEW n \in Nat, NEW x,
         x = [snapshot |-> a, sequence |-> n] \/ a = NoSnapshot
  PROVE  Applicable(x, Frame(b, a, n + 1))
<1>1. CASE a = NoSnapshot
  BY <1>1 DEF Frame, Applicable
<1>2. CASE a # NoSnapshot
  BY <1>2, DeltaIsApplicable
<1>. QED BY <1>1, <1>2

LEMMA HeadOfChain ==
  ASSUME BaselineInv, NEW h, Chain(h), wire # <<>>
  PROVE  /\ Len(wire) \in Nat \ {0} /\ Head(wire) = wire[1]
         /\ h[0] \in Baselines /\ h[1] \in Baselines /\ h[1].snapshot \in Snapshots
         /\ h[1].sequence = h[0].sequence + 1
         /\ Head(wire) = Frame(h[1].snapshot, h[0].snapshot, h[1].sequence)
         /\ h[0] = browser \/ h[0].snapshot = NoSnapshot
BY DEF BaselineInv, Chain

LEMMA BaselineInvIsEnough == BaselineInv => BrowserHasBaseline
<1> SUFFICES ASSUME BaselineInv PROVE BrowserHasBaseline
  OBVIOUS
<1>1. PICK h : Chain(h)
  BY DEF BaselineInv
<1>2. CASE wire = <<>>
  BY <1>1, <1>2 DEF Chain, BrowserHasBaseline
<1>3. CASE wire # <<>>
  <2>1. h[0] = [snapshot |-> h[0].snapshot, sequence |-> h[0].sequence] /\ h[0].sequence \in Nat
        /\ h[0].snapshot \in Snapshots \cup {NoSnapshot}
    BY <1>1, <1>3, HeadOfChain DEF Baselines
  <2>2. Applicable(browser, Frame(h[1].snapshot, h[0].snapshot, h[0].sequence + 1))
    BY <1>1, <1>3, <2>1, HeadOfChain, FrameIsApplicable
  <2>. QED BY <1>1, <1>3, <2>2, HeadOfChain DEF BrowserHasBaseline
<1>. QED BY <1>2, <1>3

LEMMA StepKeepsBaseline == BaselineInv /\ [Next]_vars => BaselineInv'
<1> SUFFICES ASSUME BaselineInv, [Next]_vars PROVE BaselineInv'
  OBVIOUS
<1>0. PICK h : Chain(h)
  BY DEF BaselineInv
<1>1. ASSUME UNCHANGED <<wire, previous, sequence, browser>> PROVE \E g : Chain(g)'
  BY <1>0, <1>1 DEF Chain
<1>2. ASSUME NEW t \in Threads, Changes(t) PROVE BaselineInv'
  <2>1. UNCHANGED <<handler, stream, wire, browser>>
    BY <1>2 DEF Changes, ItemChanges, TurnStarts, TurnFails, Resync, NoticeChanges, Change
  <2>. QED BY <1>1, <1>2, <2>1, ChangesKeepSession DEF BaselineInv, stream
<1>3. CASE UNCHANGED <<session, handler, stream, wire, browser>>
  BY <1>1, <1>3 DEF BaselineInv, SessionOK, session, stream
<1>4. ASSUME NEW n \in Notifiers, Notifies(n) PROVE BaselineInv'
  BY <1>3, <1>4 DEF Notifies, BroadcastNow, ArmTimer, LeaveToTimer, Put, DropOldest
<1>5. CASE TimerFires
  BY <1>3, <1>5 DEF TimerFires
<1>6. CASE Subscribe \/ WakeUp \/ DrainOne \/ DrainEnds
  <2>1. UNCHANGED <<session, stream, wire, browser>> /\ handler' # "rest"
    BY <1>6 DEF Subscribe, WakeUp, DrainOne, DrainEnds
  <2>. QED BY <1>1, <2>1 DEF BaselineInv, SessionOK, session, stream
<1>7. CASE ReadThread
  BY <1>1, <1>7 DEF ReadThread, BaselineInv, SessionOK, session
<1>8. CASE ReadRest
  <2> DEFINE new == SnapshotOf(page, notice)
  <2>1. new \in Snapshots
    BY <1>8, RecentTurns DEF ReadRest, BaselineInv, SessionOK
  <2>2. SessionOK' /\ handler' # "rest" /\ browser' = browser
    BY <1>8 DEF ReadRest, BaselineInv, SessionOK, session
  <2>3. CASE UNCHANGED <<previous, sequence, wire>>
    BY <1>1, <2>2, <2>3 DEF BaselineInv
  <2>4. CASE sequence' = sequence + 1 /\ wire' = Append(wire, Frame(new, previous, sequence + 1)) /\ previous' = new
    <3> DEFINE f == Frame(new, previous, sequence + 1)
               last == Len(wire)
               extended == [i \in 0 .. last + 1 |-> IF i <= last THEN h[i] ELSE [snapshot |-> new, sequence |-> sequence + 1]]
    <3>1. /\ wire \in Seq(Frames) /\ previous \in Snapshots \cup {NoSnapshot} /\ sequence \in Nat /\ last \in Nat
      BY DEF BaselineInv
    <3>2. f \in Frames
      <4>1. sequence + 1 \in Nat
        BY <3>1
      <4>. QED BY <2>1, <3>1, <4>1, FrameIsAFrame
    <3>3. [snapshot |-> new, sequence |-> sequence + 1] \in Baselines
      BY <2>1, <3>1 DEF Baselines
    <3> HIDE DEF new, f
    <3>4. /\ wire' \in Seq(Frames) /\ Len(wire') = last + 1
          /\ wire'[last + 1] = f /\ \A i \in 1 .. last : wire'[i] = wire[i]
      BY <2>4, <3>1, <3>2 DEF f
    <3>5. /\ h \in [0 .. last -> Baselines] /\ h[last] = [snapshot |-> previous, sequence |-> sequence]
          /\ h[0] = browser \/ h[0].snapshot = NoSnapshot
          /\ \A i \in 1 .. last :
               /\ wire[i] = Frame(h[i].snapshot, h[i - 1].snapshot, h[i].sequence)
               /\ h[i].snapshot \in Snapshots /\ h[i].sequence = h[i - 1].sequence + 1
      BY <1>0 DEF Chain
    <3>6. /\ extended \in [0 .. last + 1 -> Baselines]
          /\ extended[last + 1] = [snapshot |-> new, sequence |-> sequence + 1]
          /\ \A i \in 0 .. last : extended[i] = h[i]
      BY <3>1, <3>3, <3>5
    <3>7. PICK g : /\ g \in [0 .. last + 1 -> Baselines]
                   /\ g[last + 1] = [snapshot |-> new, sequence |-> sequence + 1]
                   /\ \A i \in 0 .. last : g[i] = h[i]
      BY <3>6
    <3>8. ASSUME NEW i \in 1 .. last + 1
          PROVE  /\ wire'[i] = Frame(g[i].snapshot, g[i - 1].snapshot, g[i].sequence)
                 /\ g[i].snapshot \in Snapshots /\ g[i].sequence = g[i - 1].sequence + 1
      <4>1. CASE i = last + 1
        BY <2>1, <3>1, <3>4, <3>5, <3>7, <4>1 DEF f, new
      <4>2. CASE i \in 1 .. last
        <5>1. g[i] = h[i] /\ g[i - 1] = h[i - 1] /\ wire'[i] = wire[i]
          BY <3>1, <3>4, <3>7, <4>2
        <5>. QED BY <3>5, <4>2, <5>1
      <4>. QED BY <3>1, <4>1, <4>2
    <3>9. Chain(g)'
      <4>1. g[0] = h[0] /\ previous' = new /\ sequence' = sequence + 1
        BY <2>4, <3>1, <3>7
      <4>. QED BY <2>2, <3>4, <3>5, <3>7, <3>8, <4>1 DEF Chain
    <3>. QED BY <2>1, <2>2, <2>4, <3>1, <3>4, <3>9 DEF BaselineInv, new
  <2>. QED BY <1>8, <2>3, <2>4 DEF ReadRest
<1>9. CASE Apply
  <2>1. wire # <<>> /\ wire' = Tail(wire) /\ UNCHANGED <<session, handler, stream>>
        /\ browser' = [snapshot |-> Patched(browser.snapshot, Head(wire)), sequence |-> Head(wire).sequence]
    BY <1>9 DEF Apply
  <2>2. browser' = h[1]
    <3>1. h[1] = [snapshot |-> h[1].snapshot, sequence |-> h[1].sequence] /\ h[1].sequence \in Nat
          /\ h[0].snapshot \in Snapshots \cup {NoSnapshot}
      BY <1>0, <2>1, HeadOfChain DEF Baselines
    <3>2. /\ Head(wire) = Frame(h[1].snapshot, h[0].snapshot, h[1].sequence) /\ h[1].snapshot \in Snapshots
          /\ browser.snapshot = h[0].snapshot \/ h[0].snapshot = NoSnapshot
      BY <1>0, <2>1, HeadOfChain
    <3>3. Patched(browser.snapshot, Head(wire)) = h[1].snapshot /\ Head(wire).sequence = h[1].sequence
      <4>1. /\ Patched(browser.snapshot, Frame(h[1].snapshot, h[0].snapshot, h[1].sequence)) = h[1].snapshot
            /\ Frame(h[1].snapshot, h[0].snapshot, h[1].sequence).sequence = h[1].sequence
        <5> DEFINE b == h[1].snapshot  a == h[0].snapshot  n == h[1].sequence  x == browser.snapshot
        <5>1. b \in Snapshots /\ a \in Snapshots \cup {NoSnapshot} /\ n \in Nat /\ (x = a \/ a = NoSnapshot)
          BY <3>1, <3>2
        <5> HIDE DEF b, a, n, x
        <5>2. Patched(x, Frame(b, a, n)) = b /\ Frame(b, a, n).sequence = n
          BY <5>1, FrameIsExact
        <5>. QED BY <5>2 DEF b, a, n, x
      <4>. QED BY <3>2, <4>1
    <3>. QED BY <2>1, <3>1, <3>3
  <2> DEFINE rest == [i \in 0 .. Len(wire) - 1 |-> h[i + 1]]
  <2>3. /\ wire' \in Seq(Frames) /\ Len(wire') = Len(wire) - 1 /\ Len(wire) \in Nat \ {0}
        /\ \A i \in 1 .. Len(wire) - 1 : wire'[i] = wire[i + 1]
    BY <2>1 DEF BaselineInv
  <2>4. /\ h \in [0 .. Len(wire) -> Baselines] /\ h[Len(wire)] = [snapshot |-> previous, sequence |-> sequence]
        /\ \A i \in 1 .. Len(wire) :
             /\ wire[i] = Frame(h[i].snapshot, h[i - 1].snapshot, h[i].sequence)
             /\ h[i].snapshot \in Snapshots /\ h[i].sequence = h[i - 1].sequence + 1
    BY <1>0 DEF Chain
  <2>5. /\ rest \in [0 .. Len(wire) - 1 -> Baselines] /\ rest[0] = h[1] /\ rest[Len(wire) - 1] = h[Len(wire)]
        /\ \A i \in 1 .. Len(wire) - 1 : rest[i] = h[i + 1] /\ rest[i - 1] = h[i]
    BY <2>3, <2>4
  <2>6. PICK g : /\ g \in [0 .. Len(wire) - 1 -> Baselines] /\ g[0] = h[1] /\ g[Len(wire) - 1] = h[Len(wire)]
                 /\ \A i \in 1 .. Len(wire) - 1 : g[i] = h[i + 1] /\ g[i - 1] = h[i]
    BY <2>5
  <2>7. ASSUME NEW i \in 1 .. Len(wire) - 1
        PROVE  /\ wire'[i] = Frame(g[i].snapshot, g[i - 1].snapshot, g[i].sequence)
               /\ g[i].snapshot \in Snapshots /\ g[i].sequence = g[i - 1].sequence + 1
    <3>1. i + 1 \in 1 .. Len(wire) /\ (i + 1) - 1 = i
      BY <2>3
    <3>. QED BY <2>3, <2>4, <2>6, <3>1
  <2>8. Chain(g)'
    BY <2>1, <2>2, <2>3, <2>4, <2>6, <2>7 DEF Chain, stream
  <2>. QED BY <2>1, <2>3, <2>8 DEF BaselineInv, SessionOK, session, stream
<1>10. CASE Disconnect
  <2> DEFINE g == [i \in 0 .. 0 |-> NoBrowser]
  <2>1. wire' = <<>> /\ previous' = NoSnapshot /\ sequence' = 0 /\ handler' # "rest" /\ UNCHANGED session
    BY <1>10 DEF Disconnect, NewConnection
  <2>2. Chain(g)'
    BY <2>1 DEF Chain, Baselines, NoBrowser
  <2>. QED BY <2>1, <2>2 DEF BaselineInv, SessionOK, session
<1>11. CASE UNCHANGED vars
  BY <1>3, <1>11 DEF vars
<1>. QED
  BY <1>2, <1>4, <1>5, <1>6, <1>7, <1>8, <1>9, <1>10, <1>11 DEF Next, Handles

LEMMA InitHasBaseline == Init => BaselineInv
<1> SUFFICES ASSUME Init PROVE BaselineInv
  OBVIOUS
<1>1. SessionOK
  <2> DEFINE item == [id |-> 1, text |-> <<>>]
             turn == [id |-> 1, fields |-> [status |-> "inProgress"], items |-> <<item>>]
  <2>1. item \in Items
    BY DEF Items
  <2>2. <<item>> \in Seq(Items) /\ Distinct(<<item>>)
    BY <2>1 DEF Distinct
  <2> HIDE DEF item
  <2>3. turn \in Turns /\ turn.id = 1
    BY <2>2 DEF Turns, TurnFields
  <2> HIDE DEF turn
  <2>4. thread = [epoch |-> 1, turns |-> <<turn>>] /\ notice = 0
    BY DEF Init, ThreadRead, turn, item
  <2>. QED BY <2>3, <2>4 DEF SessionOK, ThreadsOf
<1>2. \E h : Chain(h)
  <2> DEFINE g == [i \in 0 .. 0 |-> NoBrowser]
  <2>1. Chain(g)
    BY DEF Init, Chain, Baselines, NoBrowser
  <2>. QED BY <2>1
<1>. QED BY <1>1, <1>2 DEF Init, BaselineInv

\* SnapshotDelta and StreamSnapshot: over any changes, lost connections and
\* delays, each delta can be applied to what the page has when it arrives, and a
\* page that has applied them all has exactly what the server last sent.
THEOREM PageKeepsBaseline == Spec => []BrowserHasBaseline
BY InitHasBaseline, StepKeepsBaseline, BaselineInvIsEnough, PTL DEF Spec
=============================================================================
