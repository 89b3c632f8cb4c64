-------------------------- MODULE CodexClientProofs --------------------------
(***************************************************************************)
(* Proofs about CodexClient, for any scenes: any faults, any number of     *)
(* calls, any turns of other clients.                                      *)
(***************************************************************************)
EXTENDS CodexClient, SequenceTheorems, TLAPS

Replies  == [type : {"reply"}, ok : BOOLEAN, turn : Nat, active : BOOLEAN]
Starts   == [type : {"started"}, turn : Nat]
Ends     == [type : {"completed"}, turn : Nat, ok : BOOLEAN]
Messages == Replies \cup Starts \cup Ends

Turn    == [by : Nat, state : {"running", "ok", "failed"}]
Requested == [kind : Awaiting, for : Nat, attempt : {0, 1}, live : BOOLEAN]

\* A message on the wire, of a type.
On(type) == \E i \in DOMAIN wire : wire[i].type = type
Live     == {r \in requests : r.live}

Types ==
  /\ turns \in Seq(Turn) /\ requests \subseteq Requested
  /\ wire \in Seq(Messages) /\ answer \in Replies \cup {NoAnswer}
  /\ conn \in {"none", "open", "closed"} /\ released \in BOOLEAN /\ looked \in BOOLEAN
  /\ pc \in Places /\ op \in Ops /\ attempt \in {0, 1}
  /\ active \in Nat /\ threadTurn \in Nat
  /\ starting \in BOOLEAN /\ done \in BOOLEAN /\ turnError \in BOOLEAN /\ busy \in BOOLEAN
  /\ calls \in Nat /\ verdict \in Verdicts

\* One future at a time: its request, its answer on the wire, or its answer in
\* the caller's hands, and only while the caller waits for it.
OneFuture ==
  /\ \A r \in Live : pc = r.kind /\ (r.kind = "start" => r.for = calls)
  /\ \A r, q \in Live : r = q
  /\ Live # {} => ~On("reply") /\ answer = NoAnswer
  /\ On("reply") => pc \in Awaiting /\ answer = NoAnswer
  /\ \A i, j \in DOMAIN wire : wire[i].type = "reply" /\ wire[j].type = "reply" => i = j
  /\ answer # NoAnswer => pc \in Awaiting

\* What the caller is told of turn/start is a turn of its own.
OfThisCall(t) == t \in DOMAIN turns /\ turns[t].by = calls
TellsOwn(m)   == m.type = "reply" /\ m.ok => OfThisCall(m.turn)

OwnAnswer == pc = "start" => (\A i \in DOMAIN wire : TellsOwn(wire[i])) /\ TellsOwn(answer)

OwnInv == OwnAnswer /\ WaitsForOwnTurn

\* Every turn the client has heard of, or is about to, is one of the thread.
KnownTurns ==
  /\ active \in Turns /\ threadTurn \in Turns
  /\ \A i \in DOMAIN wire : wire[i].turn \in Turns
  /\ answer # NoAnswer => answer.turn \in Turns

-----------------------------------------------------------------------------
(* What is said of ended turns, in any scene.                              *)

SomeEnded(state) == \E t \in DOMAIN turns : turns[t].state = state

EndsAreTrue ==
  /\ \A i \in DOMAIN wire : wire[i].type = "completed" =>
       /\ wire[i].turn \in DOMAIN turns
       /\ turns[wire[i].turn].state = IF wire[i].ok THEN "ok" ELSE "failed"
  /\ done /\ ~turnError => SomeEnded("ok")
  /\ turnError => SomeEnded("failed")
  /\ verdict \in {"ok", "failed"} => SomeEnded(verdict)

-----------------------------------------------------------------------------
(* A thread nobody else uses, over a connection that holds.                *)

Calm   == scene.faults \subseteq {"overrun", "refusal"}
Newest == Len(turns)

StartComing == On("started")
EndComing   == On("completed")

\* Connections are made and closed by the caller only, and a connection is
\* there for whoever waits on it.
CalmConnection ==
  /\ conn # "closed" /\ pc \notin {"stopping", "again"}
  /\ conn = "none" => wire = <<>> /\ pc \in {"idle", "connect"}
  /\ released => IF pc = "idle" THEN conn = "none" ELSE op = "reconnect"

\* On the wire are events of the newest turn, each once and in order.
CalmWire ==
  /\ \A i \in DOMAIN wire : wire[i].type # "reply" => wire[i].turn = Newest
  /\ \A i, j \in DOMAIN wire : wire[i].type = wire[j].type => i = j
  /\ \A i, j \in DOMAIN wire : wire[i].type = "started" /\ wire[j].type = "completed" => i < j

\* Only the newest turn runs, and the client knows of it, or will, until it
\* has been told of its end.
CalmBusy ==
  /\ Running \subseteq {Newest}
  /\ (StartComing \/ busy) <=> (Running # {} \/ EndComing)
  /\ ~(StartComing /\ busy) /\ ~(Running # {} /\ EndComing)
  /\ threadTurn = IF busy THEN Newest ELSE 0

Quiet == Running = {} /\ ~StartComing /\ ~EndComing /\ ~busy

StartPending == \E r \in requests : r.kind = "start"
Fresh        == active = 0 /\ ~done /\ ~turnError

\* The call has a turn, the newest, and is told of its end as it ends.
HasTurn ==
  /\ Newest > 0 /\ turns[Newest].by = calls
  /\ active = IF pc = "start" /\ StartComing THEN 0 ELSE Newest
  /\ done <=> ~StartComing /\ ~busy
  /\ turnError <=> done /\ turns[Newest].state = "failed"

CalmCaller ==
  /\ pc \in {"start", "wait", "interrupt"} => op = "turn"
  /\ pc = "read" => op # "turn"
  /\ pc \in {"connect", "resume", "read"} => Quiet
  /\ pc \in {"connect", "resume"} /\ op = "turn" => Fresh /\ starting
  /\ pc = "idle" => Running = {} /\ ~StartComing
  /\ pc = "start" => starting
  /\ pc = "start" /\ StartPending => Quiet /\ Fresh
  /\ pc \in {"wait", "interrupt"} \/ (pc = "start" /\ ~StartPending) => HasTurn

CalmRequests ==
  \A r \in requests : /\ r.kind = "start" => r.live
                      /\ r.live /\ r.kind = "interrupt" => r.for = Newest

\* What the caller is answered.
CalmAnswer(m) ==
  m.type = "reply" =>
    /\ pc \in {"resume", "read"} => ~m.active
    /\ pc = "start" => m.ok /\ m.turn = Newest
    /\ pc = "interrupt" => Running = {}

CalmAnswers ==
  /\ \A i \in DOMAIN wire : CalmAnswer(wire[i])
  /\ CalmAnswer(answer)
  /\ pc = "interrupt" /\ answer # NoAnswer => ~StartComing
  /\ pc = "interrupt" => \A i, j \in DOMAIN wire : wire[i].type = "started" /\ wire[j].type = "reply" => i < j

CalmVerdict ==
  (pc = "idle" \/ op # "turn") /\ verdict \in {"ok", "failed"} =>
    \E t \in DOMAIN turns : turns[t].by = calls /\ turns[t].state = verdict

CalmState ==
  /\ CalmConnection /\ CalmWire /\ CalmBusy /\ CalmCaller
  /\ CalmRequests /\ CalmAnswers /\ CalmVerdict

\* What the worker saw is still so when it calls.
CalmLook == looked => Quiet /\ (pc = "idle" \/ op # "turn")

CalmInv == Calm => CalmState /\ CalmLook

-----------------------------------------------------------------------------
(* Sequences of messages and of turns.                                     *)

LEMMA TailOf ==
  ASSUME NEW w \in Seq(Messages), w # <<>>
  PROVE  /\ 1 \in DOMAIN w /\ Head(w) = w[1] /\ Head(w) \in Messages /\ Tail(w) \in Seq(Messages)
         /\ \A i \in DOMAIN Tail(w) : i + 1 \in DOMAIN w /\ Tail(w)[i] = w[i + 1]
         /\ \A i \in DOMAIN w : i # 1 => i - 1 \in DOMAIN Tail(w) /\ Tail(w)[i - 1] = w[i]
  OBVIOUS

LEMMA Joined ==
  ASSUME NEW v \in Seq(Messages), NEW w \in Seq(Messages)
  PROVE  /\ v \o w \in Seq(Messages)
         /\ \A i \in DOMAIN (v \o w) :
              \/ i \in DOMAIN v /\ (v \o w)[i] = v[i]
              \/ i > Len(v) /\ i - Len(v) \in DOMAIN w /\ (v \o w)[i] = w[i - Len(v)]
         /\ \A i \in DOMAIN v : i \in DOMAIN (v \o w) /\ (v \o w)[i] = v[i] /\ i <= Len(v)
         /\ \A i \in DOMAIN w : i + Len(v) \in DOMAIN (v \o w) /\ (v \o w)[i + Len(v)] = w[i]
  OBVIOUS

LEMMA Few ==
  ASSUME NEW a \in Messages, NEW b \in Messages
  PROVE  /\ <<>> \in Seq(Messages) /\ DOMAIN <<>> = {}
         /\ <<a>> \in Seq(Messages) /\ DOMAIN <<a>> = {1} /\ <<a>>[1] = a
         /\ <<a, b>> \in Seq(Messages) /\ DOMAIN <<a, b>> = {1, 2} /\ <<a, b>>[1] = a /\ <<a, b>>[2] = b
         /\ <<a>> \o <<b>> = <<a, b>> /\ <<a>> \o <<>> = <<a>> /\ <<>> \o <<a>> = <<a>>
<1>1. /\ <<>> \in Seq(Messages) /\ DOMAIN <<>> = {}
      /\ <<a>> \in Seq(Messages) /\ DOMAIN <<a>> = {1} /\ <<a>>[1] = a
      /\ <<a, b>> \in Seq(Messages) /\ DOMAIN <<a, b>> = {1, 2} /\ <<a, b>>[1] = a /\ <<a, b>>[2] = b
  OBVIOUS
<1>2. <<a>> \o <<b>> = <<a, b>>
  <2> DEFINE v == <<a>>  w == <<b>>  u == <<a, b>>
  <2>1. /\ v \in Seq(Messages) /\ Len(v) = 1 /\ v[1] = a /\ w \in Seq(Messages) /\ Len(w) = 1 /\ w[1] = b
        /\ u \in Seq(Messages) /\ Len(u) = 2 /\ u[1] = a /\ u[2] = b
    OBVIOUS
  <2> HIDE DEF u, v, w
  <2>2. v \o w \in Seq(Messages) /\ Len(v \o w) = 2 /\ (v \o w)[1] = a /\ (v \o w)[2] = b
    <3>1. v \o w \in Seq(Messages) /\ Len(v \o w) = Len(v) + Len(w)
      BY <2>1
    <3>2. 1 \in DOMAIN v /\ 1 \in DOMAIN w /\ 1 + Len(v) = 2
      BY <2>1
    <3>3. (v \o w)[1] = v[1] /\ (v \o w)[1 + Len(v)] = w[1]
      BY <2>1, <3>2, Joined
    <3> QED
      BY <2>1, <3>1, <3>2, <3>3
  <2>3. \A i \in 1 .. Len(v \o w) : (v \o w)[i] = u[i]
    BY <2>1, <2>2
  <2>4. v \o w = u
    BY <2>1, <2>2, <2>3, SeqEqual
  <2> QED
    BY <2>4 DEF u, v, w
<1>3. <<a>> \o <<>> = <<a>> /\ <<>> \o <<a>> = <<a>>
  OBVIOUS
<1> QED
  BY <1>1, <1>2, <1>3

\* What is unread is what was on the wire, without the answer.
LEMMA UnreadIs ==
  ASSUME Types, OneFuture
  PROVE  /\ Unread \in Seq(Messages)
         /\ \A i \in DOMAIN Unread : Unread[i].type # "reply" /\ \E j \in DOMAIN wire : Unread[i] = wire[j]
<1>1. CASE On("reply")
  <2> DEFINE k == CHOOSE j \in DOMAIN wire : wire[j].type = "reply"
             v == SubSeq(wire, 1, k - 1)
             w == SubSeq(wire, k + 1, Len(wire))
  <2>1. k \in DOMAIN wire /\ wire[k].type = "reply" /\ wire \in Seq(Messages)
    BY <1>1 DEF On, Types
  <2> HIDE DEF k
  <2>2. /\ v \in Seq(Messages) /\ \A i \in DOMAIN v : v[i] = wire[i] /\ i \in DOMAIN wire /\ i # k
        /\ w \in Seq(Messages) /\ \A i \in DOMAIN w : w[i] = wire[k + i] /\ k + i \in DOMAIN wire /\ k + i # k
    BY <2>1
  <2>3. \A j \in DOMAIN wire : j # k => wire[j].type # "reply"
    BY <2>1 DEF OneFuture
  <2> HIDE DEF v, w
  <2>4. /\ v \o w \in Seq(Messages)
        /\ \A i \in DOMAIN (v \o w) : \E j \in DOMAIN wire : j # k /\ (v \o w)[i] = wire[j]
    BY <2>2, Joined
  <2>5. Unread = v \o w
    BY <1>1 DEF Unread, On, v, w, k
  <2> QED
    BY <2>3, <2>4, <2>5
<1>2. CASE ~On("reply")
  BY <1>2 DEF On, Unread, Types
<1> QED
  BY <1>1, <1>2

LEMMA TurnAdded ==
  ASSUME Types, NEW c \in Nat, NewTurn(c)
  PROVE  /\ turns' \in Seq(Turn) /\ Len(turns') = Len(turns) + 1
         /\ \A u \in DOMAIN turns : u \in DOMAIN turns' /\ turns'[u] = turns[u]
         /\ turns'[Len(turns) + 1] = [by |-> c, state |-> "running"]
         /\ Running' = Running \cup {Len(turns) + 1}
<1> DEFINE t == [by |-> c, state |-> "running"]
<1>1. t \in Turn /\ turns' = Append(turns, t) /\ turns \in Seq(Turn) /\ t.state = "running"
  BY DEF NewTurn, Turn, Types
<1> HIDE DEF t
<1>2. /\ turns' \in Seq(Turn) /\ Len(turns') = Len(turns) + 1
      /\ \A u \in DOMAIN turns : u \in DOMAIN turns' /\ turns'[u] = turns[u]
      /\ turns'[Len(turns) + 1] = t /\ DOMAIN turns' = DOMAIN turns \cup {Len(turns) + 1}
  BY <1>1
<1> QED
  BY <1>1, <1>2 DEF Running, t

LEMMA TurnEnded ==
  ASSUME Types, NEW t \in Running, NEW state \in {"ok", "failed"}, EndTurn(t, state)
  PROVE  /\ turns' \in Seq(Turn) /\ Len(turns') = Len(turns)
         /\ \A u \in DOMAIN turns : /\ u \in DOMAIN turns' /\ turns'[u].by = turns[u].by
                                    /\ turns'[u].state = IF u = t THEN state ELSE turns[u].state
         /\ Running' = Running \ {t} /\ t \in DOMAIN turns
<1>1. t \in DOMAIN turns /\ turns \in Seq(Turn) /\ turns' = [turns EXCEPT ![t].state = state]
  BY DEF Running, Types, EndTurn
<1>2. turns[t] \in Turn
  BY <1>1
<1>3. [turns[t] EXCEPT !.state = state] \in Turn
  BY <1>2 DEF Turn
<1>4. /\ turns' \in Seq(Turn) /\ Len(turns') = Len(turns) /\ DOMAIN turns' = DOMAIN turns
      /\ \A u \in DOMAIN turns : turns'[u] = IF u = t THEN [turns[t] EXCEPT !.state = state] ELSE turns[u]
  BY <1>1, <1>3
<1>5. \A u \in DOMAIN turns : /\ u \in DOMAIN turns' /\ turns'[u].by = turns[u].by
                              /\ turns'[u].state = IF u = t THEN state ELSE turns[u].state
  BY <1>2, <1>4 DEF Turn
<1> QED
  BY <1>1, <1>4, <1>5 DEF Running

\* What the server writes for a request: an answer for a future that is there,
\* and the event of a turn that starts or is interrupted, in either order.
Written(r, ms, m) ==
  /\ wire' = IF conn = "open" THEN wire \o ms ELSE wire
  /\ \A i \in DOMAIN ms : ms[i].type = "reply" => r.live /\ ms[i] = m
  /\ \A i, j \in DOMAIN ms : ms[i].type = ms[j].type => i = j
  /\ m.active = (Running # {})

OnlyAnswered(r, ms, m) ==
  /\ turns' = turns /\ m.turn = 0
  /\ \A i \in DOMAIN ms : ms[i].type = "reply"
  /\ r.kind = "start" => Running # {} /\ ~m.ok
  /\ r.kind = "interrupt" => r.for \notin Running

TurnMade(r, ms, m) ==
  /\ r.kind = "start" /\ Running = {} /\ NewTurn(r.for)
  /\ m.ok /\ m.turn = Len(turns) + 1
  /\ \E i \in DOMAIN ms : ms[i].type = "started"
  /\ \A i \in DOMAIN ms : ms[i].type # "reply" => ms[i] = [type |-> "started", turn |-> Len(turns) + 1]

TurnInterrupted(r, ms, m) ==
  /\ r.kind = "interrupt" /\ r.for \in Running /\ EndTurn(r.for, "failed") /\ m.turn = 0
  /\ \E i \in DOMAIN ms : ms[i].type = "completed"
  /\ \A i \in DOMAIN ms : ms[i].type # "reply" => ms[i] = [type |-> "completed", turn |-> r.for, ok |-> FALSE]

LEMMA ServerWrites ==
  ASSUME Types, NEW r \in requests, ServerAnswers(r)
  PROVE  \E ms \in Seq(Messages), m \in Replies :
           /\ Written(r, ms, m)
           /\ OnlyAnswered(r, ms, m) \/ TurnMade(r, ms, m) \/ TurnInterrupted(r, ms, m)
<1> DEFINE reply(ok, turn) == [type |-> "reply", ok |-> ok, turn |-> turn, active |-> Running # {}]
           next == Len(turns) + 1
<1>1. \A ok \in BOOLEAN, turn \in Nat :
        /\ reply(ok, turn) \in Replies /\ reply(ok, turn).type = "reply"
        /\ Reply(r, ok, turn) = IF r.live THEN <<reply(ok, turn)>> ELSE <<>>
        /\ reply(ok, turn).ok = ok /\ reply(ok, turn).turn = turn /\ reply(ok, turn).active = (Running # {})
  BY DEF Replies, Reply
<1>2. r \in Requested /\ next \in Nat /\ Running \subseteq Nat
  BY DEF Types, Running
<1>3. CASE \E ok \in BOOLEAN : Write(Reply(r, ok, 0)) /\ turns' = turns
           /\ (r.kind = "start" => Running # {} /\ ~ok) /\ (r.kind = "interrupt" => r.for \notin Running)
  <2>1. PICK ok \in BOOLEAN : Write(Reply(r, ok, 0)) /\ (r.kind = "start" => ~ok)
    BY <1>3
  <2> DEFINE ms == Reply(r, ok, 0)
             m  == reply(ok, 0)
  <2>2. /\ m \in Replies /\ m.type = "reply" /\ ms = (IF r.live THEN <<m>> ELSE <<>>)
        /\ m.active = (Running # {}) /\ m.ok = ok /\ m.turn = 0
    BY <1>1
  <2> HIDE DEF m, reply
  <2>3. ms \in Seq(Messages) /\ \A i \in DOMAIN ms : i = 1 /\ ms[i] = m /\ r.live
    <3>1. m \in Messages
      BY <2>2 DEF Messages
    <3> HIDE DEF ms
    <3> QED
      BY <2>2, <3>1, Few
  <2>4. Written(r, ms, m) /\ OnlyAnswered(r, ms, m)
    BY <1>3, <2>1, <2>2, <2>3 DEF Written, OnlyAnswered, Write
  <2> QED
    BY <2>2, <2>3, <2>4
<1>4. CASE /\ r.kind = "start" /\ Running = {} /\ NewTurn(r.for)
           /\ \/ Write(Reply(r, TRUE, next) \o Started(next))
              \/ Write(Started(next) \o Reply(r, TRUE, next))
  <2> DEFINE m == reply(TRUE, next)
             s == [type |-> "started", turn |-> next]
  <2>1. /\ m \in Replies /\ m.type = "reply" /\ m.ok /\ m.turn = next /\ m.active = (Running # {})
        /\ Reply(r, TRUE, next) = (IF r.live THEN <<m>> ELSE <<>>)
    BY <1>1, <1>2
  <2>2. s \in Messages /\ s.type = "started" /\ Started(next) = <<s>> /\ m \in Messages
    BY <1>2, <2>1 DEF Starts, Messages, Started
  <2> HIDE DEF m, reply, s
  <2>3. PICK ms : Write(ms) /\ (ms = <<s>> \/ (r.live /\ ms \in {<<m, s>>, <<s, m>>}))
    <3>1. CASE r.live
      <4>1. <<m>> \o <<s>> = <<m, s>> /\ <<s>> \o <<m>> = <<s, m>>
        BY <2>1, <2>2, Few
      <4> QED
        BY <1>4, <2>1, <2>2, <3>1, <4>1
    <3>2. CASE ~r.live
      <4>1. <<>> \o <<s>> = <<s>> /\ <<s>> \o <<>> = <<s>>
        BY <2>2, Few
      <4> QED
        BY <1>4, <2>1, <2>2, <3>2, <4>1
    <3> QED
      BY <3>1, <3>2
  <2>4. ms \in Seq(Messages) /\ (\E i \in DOMAIN ms : ms[i].type = "started")
        /\ (\A i \in DOMAIN ms : ms[i] = s \/ (ms[i] = m /\ r.live))
        /\ (\A i, j \in DOMAIN ms : ms[i].type = ms[j].type => i = j)
    <3>1. CASE ms = <<s>>
      BY <2>2, <3>1, Few
    <3>2. CASE r.live /\ ms = <<m, s>>
      BY <2>1, <2>2, <3>2, Few
    <3>3. CASE r.live /\ ms = <<s, m>>
      BY <2>1, <2>2, <3>3, Few
    <3> QED
      BY <2>3, <3>1, <3>2, <3>3
  <2>5. Written(r, ms, m)
    BY <2>1, <2>2, <2>3, <2>4 DEF Written, Write
  <2>6. TurnMade(r, ms, m)
    BY <1>4, <2>1, <2>2, <2>4 DEF TurnMade, s
  <2> QED
    BY <2>1, <2>4, <2>5, <2>6
<1>5. CASE /\ r.kind = "interrupt" /\ r.for \in Running /\ EndTurn(r.for, "failed")
           /\ \/ Write(Reply(r, TRUE, 0) \o Completed(r.for, FALSE))
              \/ Write(Completed(r.for, FALSE) \o Reply(r, TRUE, 0))
  <2> DEFINE m == reply(TRUE, 0)
             c == [type |-> "completed", turn |-> r.for, ok |-> FALSE]
  <2>1. /\ m \in Replies /\ m.type = "reply" /\ m.active = (Running # {}) /\ m.turn = 0
        /\ Reply(r, TRUE, 0) = (IF r.live THEN <<m>> ELSE <<>>)
    BY <1>1
  <2>2. c \in Messages /\ c.type = "completed" /\ Completed(r.for, FALSE) = <<c>> /\ m \in Messages
    BY <1>2, <1>5, <2>1 DEF Ends, Messages, Completed
  <2> HIDE DEF m, reply, c
  <2>3. PICK ms : Write(ms) /\ (ms = <<c>> \/ (r.live /\ ms \in {<<m, c>>, <<c, m>>}))
    <3>1. CASE r.live
      <4>1. <<m>> \o <<c>> = <<m, c>> /\ <<c>> \o <<m>> = <<c, m>>
        BY <2>1, <2>2, Few
      <4> QED
        BY <1>5, <2>1, <2>2, <3>1, <4>1
    <3>2. CASE ~r.live
      <4>1. <<>> \o <<c>> = <<c>> /\ <<c>> \o <<>> = <<c>>
        BY <2>2, Few
      <4> QED
        BY <1>5, <2>1, <2>2, <3>2, <4>1
    <3> QED
      BY <3>1, <3>2
  <2>4. ms \in Seq(Messages) /\ (\E i \in DOMAIN ms : ms[i].type = "completed")
        /\ (\A i \in DOMAIN ms : ms[i] = c \/ (ms[i] = m /\ r.live))
        /\ (\A i, j \in DOMAIN ms : ms[i].type = ms[j].type => i = j)
    <3>1. CASE ms = <<c>>
      BY <2>2, <3>1, Few
    <3>2. CASE r.live /\ ms = <<m, c>>
      BY <2>1, <2>2, <3>2, Few
    <3>3. CASE r.live /\ ms = <<c, m>>
      BY <2>1, <2>2, <3>3, Few
    <3> QED
      BY <2>3, <3>1, <3>2, <3>3
  <2>5. Written(r, ms, m)
    BY <2>1, <2>2, <2>3, <2>4 DEF Written, Write
  <2>6. TurnInterrupted(r, ms, m)
    BY <1>5, <2>1, <2>2, <2>4 DEF TurnInterrupted, c
  <2> QED
    BY <2>1, <2>4, <2>5, <2>6
<1> QED
  BY <1>3, <1>4, <1>5 DEF ServerAnswers

-----------------------------------------------------------------------------
(* Types.                                                                  *)

LEMMA Empty == <<>> \in Seq(Messages) /\ <<>> \in Seq(Turn) /\ DOMAIN <<>> = {}
  OBVIOUS

LEMMA InitTypes == Init => Types
<1> SUFFICES ASSUME Init PROVE Types
  OBVIOUS
<1>1. turns \in Seq(Turn) /\ wire \in Seq(Messages) /\ answer \in Replies \cup {NoAnswer} /\ requests \subseteq Requested
  BY Empty DEF Init
<1>2. /\ released \in BOOLEAN /\ looked \in BOOLEAN /\ starting \in BOOLEAN /\ done \in BOOLEAN /\ turnError \in BOOLEAN
      /\ busy \in BOOLEAN
  BY DEF Init
<1>3. /\ conn \in {"none", "open", "closed"} /\ pc \in Places /\ op \in Ops /\ attempt \in {0, 1}
      /\ active \in Nat /\ threadTurn \in Nat /\ calls \in Nat /\ verdict \in Verdicts
  BY DEF Init, Places, Ops, Verdicts
<1> QED
  BY <1>1, <1>2, <1>3 DEF Types

LEMMA RequestType ==
  ASSUME Types, NEW kind \in Awaiting, NEW for \in Nat, NEW live \in BOOLEAN
  PROVE  Request(kind, for, live) \subseteq Requested
  BY DEF Types, Request, Requested

\* What the reader takes is a message of the type it handles.
LEMMA TakenIs ==
  ASSUME Types, NEW type, ReaderTakes(type)
  PROVE  /\ wire' \in Seq(Messages) /\ 1 \in DOMAIN wire /\ Head(wire) = wire[1] /\ Head(wire).type = type
         /\ type = "reply" => Head(wire) \in Replies
         /\ type = "started" => Head(wire).turn \in Nat
         /\ type = "completed" => Head(wire).turn \in Nat /\ Head(wire).ok \in BOOLEAN
<1>1. /\ wire' \in Seq(Messages) /\ 1 \in DOMAIN wire /\ Head(wire) = wire[1]
      /\ Head(wire) \in Messages /\ Head(wire).type = type
  BY TailOf DEF ReaderTakes, Types
<1> QED
  BY <1>1 DEF Messages, Replies, Starts, Ends

LEMMA ServerKeepsTypes == Types /\ Server /\ UNCHANGED looked => Types'
<1> SUFFICES ASSUME Types, Server, looked' \in BOOLEAN PROVE Types'
  BY DEF Types
<1>1. ASSUME NEW r \in requests, ServerAnswers(r) PROVE Types'
  <2>1. PICK ms \in Seq(Messages), m \in Replies :
           /\ Written(r, ms, m)
           /\ OnlyAnswered(r, ms, m) \/ TurnMade(r, ms, m) \/ TurnInterrupted(r, ms, m)
    BY <1>1, ServerWrites
  <2>2. wire' \in Seq(Messages)
    BY <2>1, Joined DEF Written, Types
  <2>3. turns' \in Seq(Turn)
    <3>1. r.for \in Nat
      BY DEF Types, Requested
    <3>2. CASE OnlyAnswered(r, ms, m)
      BY <3>2 DEF OnlyAnswered, Types
    <3>3. CASE TurnMade(r, ms, m)
      BY <3>1, <3>3, TurnAdded DEF TurnMade
    <3>4. CASE TurnInterrupted(r, ms, m)
      BY <3>4, TurnEnded DEF TurnInterrupted
    <3> QED
      BY <2>1, <3>2, <3>3, <3>4
  <2> QED
    BY <1>1, <2>2, <2>3 DEF ServerAnswers, Types, events, caller
<1>2. ASSUME NEW t \in Running, NEW state \in {"ok", "failed"}, TurnEnds(t, state) PROVE Types'
  <2>1. turns' \in Seq(Turn) /\ t \in Nat
    BY <1>2, TurnEnded DEF TurnEnds, Types
  <2>2. wire' \in Seq(Messages)
    <3> DEFINE c == [type |-> "completed", turn |-> t, ok |-> state = "ok"]
    <3>1. c \in Messages /\ Completed(t, state = "ok") = <<c>>
      BY <2>1 DEF Messages, Ends, Completed
    <3> HIDE DEF c
    <3> QED
      BY <1>2, <3>1, Few, Joined DEF TurnEnds, Write, Types
  <2> QED
    BY <1>2, <2>1, <2>2 DEF TurnEnds, Types, events, caller
<1>3. CASE ExternalTurnStarts
  <2>1. turns' \in Seq(Turn)
    BY <1>3, TurnAdded DEF ExternalTurnStarts
  <2>2. wire' \in Seq(Messages)
    <3> DEFINE s == [type |-> "started", turn |-> Len(turns) + 1]
    <3>1. s \in Messages /\ Started(Len(turns) + 1) = <<s>>
      BY DEF Messages, Starts, Started, Types
    <3> HIDE DEF s
    <3> QED
      BY <1>3, <3>1, Few, Joined DEF ExternalTurnStarts, Write, Types
  <2> QED
    BY <1>3, <2>1, <2>2 DEF ExternalTurnStarts, Types, events, caller
<1>4. CASE ConnectionDrops
  BY <1>4 DEF ConnectionDrops, Types, server, events, caller
<1> QED
  BY <1>1, <1>2, <1>3, <1>4 DEF Server

LEMMA ReaderKeepsTypes == Types /\ Reader /\ UNCHANGED looked => Types'
<1> SUFFICES ASSUME Types, Reader, looked' \in BOOLEAN PROVE Types'
  BY DEF Types
<1>1. CASE OnReply
  BY <1>1, TakenIs DEF OnReply, ReaderTakes, Types, server, events, caller
<1>2. CASE OnTurnStarted
  BY <1>2, TakenIs DEF OnTurnStarted, ReaderTakes, Types, server, caller
<1>3. CASE OnTurnCompleted
  BY <1>3, TakenIs DEF OnTurnCompleted, ReaderTakes, Types, server, caller
<1> QED
  BY <1>1, <1>2, <1>3 DEF Reader

LEMMA CallerKeepsTypes == Types /\ OneFuture /\ (CallTurn \/ (Caller /\ UNCHANGED looked)) => Types'
<1> SUFFICES ASSUME Types, OneFuture, CallTurn \/ Caller, looked' \in BOOLEAN PROVE Types'
  BY DEF CallTurn, Types
<1> USE DEF server, events, caller
<1>1. CASE CallTurn \/ TryAgain
  <2>1. /\ done' \in BOOLEAN /\ turnError' \in BOOLEAN /\ starting' \in BOOLEAN
        /\ pc' \in Places /\ verdict' \in Verdicts
    BY <1>1 DEF CallTurn, TryAgain, EnterAttempt, Types, Places, Verdicts
  <2>2. op' \in Ops /\ attempt' \in {0, 1} /\ calls' \in Nat
    BY <1>1 DEF CallTurn, TryAgain, Types, Ops
  <2> QED
    BY <1>1, <2>1, <2>2 DEF CallTurn, TryAgain, Types
<1>2. CASE CallRead
  BY <1>2 DEF CallRead, Types, Places, Ops
<1>3. CASE Release \/ StopProcess
  BY <1>3, Empty DEF Release, StopProcess, Types, Places
<1>4. CASE UserInterrupts
  BY <1>4, RequestType DEF UserInterrupts, Types, Awaiting
<1>5. CASE Connect
  BY <1>5, RequestType DEF Connect, Types, Awaiting, Places
<1>6. CASE Resumed
  BY <1>6, RequestType DEF Resumed, Send, Types, Awaiting, Places, Replies
<1>7. CASE TurnStarted \/ ReadAnswered
  BY <1>7 DEF TurnStarted, ReadAnswered, Types, Places, Replies
<1>8. CASE TurnDone \/ Interrupted
  <2>1. verdict' \in Verdicts /\ pc' \in Places /\ active' \in Nat
    BY <1>8 DEF TurnDone, Interrupted, Places, Verdicts
  <2> QED
    BY <1>8, <2>1 DEF TurnDone, Interrupted, Types
<1>9. CASE ErrorAnswered
  <2>1. verdict' \in Verdicts /\ pc' \in Places /\ starting' \in BOOLEAN
    BY <1>9 DEF ErrorAnswered, CallFails, Types, Places, Verdicts
  <2>2. conn' \in {"none", "open", "closed"} /\ wire' \in Seq(Messages)
    BY <1>9, Empty DEF ErrorAnswered, CallFails, Types
  <2> QED
    BY <1>9, <2>1, <2>2 DEF ErrorAnswered, Types
<1>10. CASE TurnOverruns
  BY <1>10, RequestType DEF TurnOverruns, Send, Types, Awaiting, Places
<1>11. CASE RequestFails
  <2>1. requests' \subseteq Requested
    <3>1. \A r \in requests : [r EXCEPT !.live = FALSE] \in Requested
      BY DEF Types, Requested
    <3> QED
      BY <1>11, <3>1 DEF RequestFails, DropFuture
  <2>2. Unread \in Seq(Messages)
    BY UnreadIs
  <2>3. wire' \in Seq(Messages) /\ conn' \in {"none", "open", "closed"}
    BY <1>11, <2>2, Empty DEF RequestFails, CallFails, Types
  <2>4. pc' \in Places /\ verdict' \in Verdicts /\ active' \in Nat
    BY <1>11 DEF RequestFails, CallFails, Types, Places, Verdicts
  <2>5. done' \in BOOLEAN /\ starting' \in BOOLEAN
    BY <1>11 DEF RequestFails, Types
  <2> QED
    BY <1>11, <2>1, <2>3, <2>4, <2>5 DEF RequestFails, Types
<1> QED
  BY <1>1, <1>2, <1>3, <1>4, <1>5, <1>6, <1>7, <1>8, <1>9, <1>10, <1>11 DEF Caller, Proceeds

LEMMA StepKeepsTypes == Types /\ OneFuture /\ [Next]_vars => Types'
<1> SUFFICES ASSUME Types, OneFuture, UNCHANGED client, looked' \in BOOLEAN PROVE Types'
  BY ServerKeepsTypes, ReaderKeepsTypes, CallerKeepsTypes DEF Next, Worker, WorkerLooks, Types, vars
<1> QED
  BY DEF client, server, events, caller, Types

-----------------------------------------------------------------------------
(* One future at a time.                                                   *)

LEMMA ServerKeepsFuture == Types /\ OneFuture /\ Server => OneFuture'
<1> SUFFICES ASSUME Types, OneFuture, Server PROVE OneFuture'
  OBVIOUS
<1> USE DEF OneFuture, On, Live
<1>1. ASSUME NEW r \in requests, ServerAnswers(r) PROVE OneFuture'
  <2>1. PICK ms \in Seq(Messages), m \in Replies : Written(r, ms, m)
    BY <1>1, ServerWrites
  <2>2. requests' = requests \ {r} /\ UNCHANGED <<pc, calls, answer>>
    BY <1>1 DEF ServerAnswers, events, caller
  <2>3. \A i, j \in DOMAIN wire' : wire'[i].type = "reply" /\ wire'[j].type = "reply" => i = j
    <3>1. r.live => \A i \in DOMAIN wire : wire[i].type # "reply"
      OBVIOUS
    <3>2. \A i, j \in DOMAIN ms : ms[i].type = "reply" /\ ms[j].type = "reply" => i = j /\ r.live
      BY <2>1 DEF Written
    <3>3. CASE wire' = wire
      BY <3>3
    <3>4. CASE wire' = wire \o ms
      <4> SUFFICES ASSUME NEW i \in DOMAIN wire', NEW j \in DOMAIN wire',
                          wire'[i].type = "reply", wire'[j].type = "reply"
                   PROVE  i = j
        OBVIOUS
      <4>0. wire \in Seq(Messages) /\ i \in Nat /\ j \in Nat
        BY <2>1, <3>4 DEF Types
      <4>1. CASE i \in DOMAIN wire /\ wire'[i] = wire[i]
        <5>1. ~r.live
          BY <3>1, <4>1
        <5>2. j \in DOMAIN wire /\ wire'[j] = wire[j]
          BY <3>2, <3>4, <4>0, <5>1, Joined
        <5> QED
          BY <4>1, <5>2
      <4>2. CASE i - Len(wire) \in DOMAIN ms /\ wire'[i] = ms[i - Len(wire)]
        <5>1. r.live
          BY <3>2, <4>2
        <5>2. j - Len(wire) \in DOMAIN ms /\ wire'[j] = ms[j - Len(wire)]
          BY <3>1, <3>4, <4>0, <5>1, Joined
        <5> QED
          BY <3>2, <4>0, <4>2, <5>2
      <4> QED
        BY <3>4, <4>0, <4>1, <4>2, Joined
    <3> QED
      BY <2>1, <3>3, <3>4 DEF Written
  <2>4. On("reply")' => On("reply") \/ r.live
    BY <2>1, Joined DEF Written, Types
  <2> QED
    BY <2>2, <2>3, <2>4 DEF Types, Requested
<1>2. CASE UNCHANGED <<requests, pc, calls, answer>> /\ \E m \in Messages : m.type # "reply" /\ Write(<<m>>)
  <2>1. PICK m \in Messages : m.type # "reply" /\ Write(<<m>>)
    BY <1>2
  <2>2. \A i, j \in DOMAIN wire' : wire'[i].type = "reply" /\ wire'[j].type = "reply" => i = j
    BY <2>1, Few, Joined DEF Write, Types
  <2>3. On("reply")' => On("reply")
    BY <2>1, Few, Joined DEF Write, Types
  <2> QED
    BY <1>2, <2>2, <2>3
<1>3. ASSUME NEW t \in Running, NEW state \in {"ok", "failed"}, TurnEnds(t, state) PROVE OneFuture'
  <2> DEFINE c == [type |-> "completed", turn |-> t, ok |-> state = "ok"]
  <2>1. c \in Messages /\ c.type # "reply" /\ Completed(t, state = "ok") = <<c>>
    BY DEF Messages, Ends, Completed, Running, Types
  <2> HIDE DEF c
  <2> QED
    BY <1>2, <1>3, <2>1 DEF TurnEnds, events, caller
<1>4. CASE ExternalTurnStarts
  <2> DEFINE s == [type |-> "started", turn |-> Len(turns) + 1]
  <2>1. s \in Messages /\ s.type # "reply" /\ Started(Len(turns) + 1) = <<s>>
    BY DEF Messages, Starts, Started, Types
  <2> HIDE DEF s
  <2> QED
    BY <1>2, <1>4, <2>1 DEF ExternalTurnStarts, events, caller
<1>5. CASE ConnectionDrops
  BY <1>5, Empty DEF ConnectionDrops, server, events, caller
<1> QED
  BY <1>1, <1>3, <1>4, <1>5 DEF Server

LEMMA ReaderKeepsFuture == Types /\ OneFuture /\ Reader => OneFuture'
<1> SUFFICES ASSUME Types, OneFuture, Reader PROVE OneFuture'
  OBVIOUS
<1>1. PICK type \in {"reply", "started", "completed"} : ReaderTakes(type)
  BY DEF Reader, OnReply, OnTurnStarted, OnTurnCompleted
<1>2. /\ 1 \in DOMAIN wire /\ Head(wire) = wire[1] /\ wire' = Tail(wire) /\ wire[1].type = type
      /\ \A i \in DOMAIN wire' : i + 1 \in DOMAIN wire /\ i + 1 # 1 /\ wire'[i] = wire[i + 1] /\ i \in Nat
  BY <1>1, TailOf DEF ReaderTakes, Types
<1>3. UNCHANGED <<requests, pc, calls>>
  BY <1>1 DEF ReaderTakes, server, caller
<1>4. \A i, j \in DOMAIN wire' : wire'[i].type = "reply" /\ wire'[j].type = "reply" => i = j
  <2> SUFFICES ASSUME NEW i \in DOMAIN wire', NEW j \in DOMAIN wire',
                      wire'[i].type = "reply", wire'[j].type = "reply"
               PROVE  i = j
    OBVIOUS
  <2>1. i + 1 = j + 1
    BY <1>2 DEF OneFuture
  <2> QED
    BY <1>2, <2>1
<1>5. CASE OnReply
  <2>1. answer' # NoAnswer /\ On("reply")
    BY <1>2, <1>5 DEF OnReply, ReaderTakes, On, NoAnswer
  <2>2. ~On("reply")'
    BY <1>2, <1>5 DEF OnReply, ReaderTakes, On, OneFuture
  <2> QED
    BY <1>3, <1>4, <2>1, <2>2 DEF OneFuture, Live
<1>6. CASE OnTurnStarted \/ OnTurnCompleted
  <2>1. answer' = answer
    BY <1>6 DEF OnTurnStarted, OnTurnCompleted
  <2>2. On("reply")' => On("reply")
    BY <1>2 DEF On
  <2> QED
    BY <1>3, <1>4, <2>1, <2>2 DEF OneFuture, Live
<1> QED
  BY <1>5, <1>6 DEF Reader

\* Where the caller does not wait, there is no future.
LEMMA NoFuture == Types /\ OneFuture /\ pc \notin Awaiting => Live = {} /\ ~On("reply") /\ answer = NoAnswer
  BY DEF Types, Requested, OneFuture, Live

LEMMA Answered == OneFuture /\ answer # NoAnswer => Live = {} /\ ~On("reply") /\ pc \in Awaiting
  BY DEF OneFuture, On

LEMMA CallerKeepsFuture == Types /\ OneFuture /\ (CallTurn \/ Caller) => OneFuture'
<1> SUFFICES ASSUME Types, OneFuture, CallTurn \/ Caller PROVE OneFuture'
  OBVIOUS
<1> USE DEF server, events, caller
\* No future is left, or a new one has been made where there was none.
<1>1. ASSUME Live' = {}, ~On("reply")', answer' = NoAnswer PROVE OneFuture'
  BY <1>1 DEF OneFuture, On
<1>2. ASSUME Live = {}, ~On("reply")', answer' = NoAnswer, pc' \in Awaiting, NEW for \in Nat,
             requests' \in {requests, requests \cup Request(pc', for, TRUE)},
             pc' = "start" => for = calls'
      PROVE  OneFuture'
  <2>1. \A r \in Live' : r.kind = pc' /\ r.for = for /\ r.attempt = attempt /\ r.live /\ r \in Request(pc', for, TRUE)
    BY <1>2 DEF Live, Request
  <2>2. \A r, q \in Live' : r = q
    BY <2>1 DEF Request
  <2> QED
    BY <1>2, <2>1, <2>2 DEF OneFuture, On
<1>3. CASE CallTurn \/ TryAgain \/ CallRead \/ TurnDone
  BY <1>1, <1>3, NoFuture DEF CallTurn, TryAgain, CallRead, TurnDone, Awaiting, On, Live
<1>4. CASE Release \/ StopProcess
  BY <1>1, <1>4, NoFuture, Empty DEF Release, StopProcess, Awaiting, On, Live
<1>5. CASE UserInterrupts
  <2>1. Live' = Live
    BY <1>5 DEF UserInterrupts, Request, Live
  <2> QED
    BY <1>5, <2>1 DEF UserInterrupts, OneFuture, On
<1>6. CASE Connect
  BY <1>2, <1>6, NoFuture DEF Connect, Awaiting, On
<1>7. CASE Resumed
  BY <1>2, <1>7, Answered DEF Resumed, Send, Awaiting, On, Types
<1>8. CASE TurnStarted \/ Interrupted \/ ReadAnswered
  BY <1>1, <1>8, Answered DEF TurnStarted, Interrupted, ReadAnswered, On, Live
<1>9. CASE ErrorAnswered
  <2>1. ~On("reply")'
    BY <1>9, Answered, Empty DEF ErrorAnswered, CallFails, On
  <2> QED
    BY <1>1, <1>9, <2>1, Answered DEF ErrorAnswered, Live
<1>10. CASE TurnOverruns
  BY <1>2, <1>10, NoFuture DEF TurnOverruns, Send, Awaiting, On, Types
<1>11. CASE RequestFails
  <2>1. Live' = {}
    <3>1. \A r \in requests : [r EXCEPT !.live = FALSE].live = FALSE
      BY DEF Types, Requested
    <3> QED
      BY <1>11, <3>1 DEF RequestFails, DropFuture, Live
  <2>2. ~On("reply")'
    BY <1>11, UnreadIs, Empty DEF RequestFails, CallFails, On
  <2>3. answer' = NoAnswer
    BY <1>11, NoFuture DEF RequestFails, CannotGoOn, Awaiting
  <2> QED
    BY <1>1, <2>1, <2>2, <2>3
<1> QED
  BY <1>3, <1>4, <1>5, <1>6, <1>7, <1>8, <1>9, <1>10, <1>11 DEF Caller, Proceeds

LEMMA StepKeepsFuture == Types /\ OneFuture /\ [Next]_vars => OneFuture'
<1> SUFFICES ASSUME Types, OneFuture, UNCHANGED client PROVE OneFuture'
  BY ServerKeepsFuture, ReaderKeepsFuture, CallerKeepsFuture DEF Next, Worker, WorkerLooks, vars
<1> QED
  BY DEF client, server, events, caller, OneFuture, On, Live

-----------------------------------------------------------------------------
(* A call waits for its own turn.                                          *)

\* Turns stay, with who started them, and ended ones stay as they are.
LEMMA TurnsStay ==
  ASSUME Types, [Next]_vars
  PROVE  \A t \in DOMAIN turns : /\ t \in DOMAIN turns' /\ turns'[t].by = turns[t].by
                                 /\ turns[t].state # "running" => turns'[t].state = turns[t].state
<1>1. CASE turns' = turns
  BY <1>1
<1>2. ASSUME NEW c \in Nat, NewTurn(c)
      PROVE  \A t \in DOMAIN turns : t \in DOMAIN turns' /\ turns'[t] = turns[t]
  BY <1>2, TurnAdded
<1>3. ASSUME NEW t \in Running, NEW state \in {"ok", "failed"}, EndTurn(t, state)
      PROVE  \A u \in DOMAIN turns : /\ u \in DOMAIN turns' /\ turns'[u].by = turns[u].by
                                     /\ turns[u].state # "running" => turns'[u].state = turns[u].state
  BY <1>3, TurnEnded DEF Running
<1>4. ASSUME NEW r \in requests, ServerAnswers(r), turns' # turns
      PROVE  (NewTurn(r.for) /\ r.for \in Nat) \/ (EndTurn(r.for, "failed") /\ r.for \in Running)
  <2>1. r.for \in Nat
    BY DEF Types, Requested
  <2>2. PICK ms \in Seq(Messages), m \in Replies :
           OnlyAnswered(r, ms, m) \/ TurnMade(r, ms, m) \/ TurnInterrupted(r, ms, m)
    BY <1>4, ServerWrites
  <2> QED
    BY <1>4, <2>1, <2>2 DEF OnlyAnswered, TurnMade, TurnInterrupted, NewTurn, EndTurn
<1>5. CASE Server
  <2>1. CASE \E r \in requests : ServerAnswers(r)
    BY <1>1, <1>2, <1>3, <1>4, <2>1
  <2> QED
    BY <1>1, <1>2, <1>3, <1>5, <2>1 DEF Server, TurnEnds, ExternalTurnStarts, ConnectionDrops, server
<1>6. CASE Reader
  BY <1>1, <1>6 DEF Reader, OnReply, OnTurnStarted, OnTurnCompleted, ReaderTakes, server
<1>7. CASE CallTurn \/ Caller
  BY <1>1, <1>7
  DEF Caller, Proceeds, CallTurn, CallRead, Release, UserInterrupts, Connect, TryAgain, StopProcess, Resumed,
      TurnStarted, TurnDone, Interrupted, ReadAnswered, ErrorAnswered, TurnOverruns, RequestFails, server
<1> QED
  BY <1>1, <1>5, <1>6, <1>7 DEF Next, Worker, WorkerLooks, vars, client, server

LEMMA StepKeepsOwn == Types /\ OneFuture /\ OwnInv /\ [Next]_vars => OwnInv'
<1> SUFFICES ASSUME Types, OneFuture, OwnInv, [Next]_vars PROVE OwnInv'
  OBVIOUS
<1> DEFINE OfIt(t) == t \in DOMAIN turns' /\ turns'[t].by = calls'
<1> USE DEF OwnInv, OwnAnswer, WaitsForOwnTurn, TellsOwn, OfThisCall
<1>0. \A t : OfThisCall(t) /\ calls' = calls => OfIt(t)
  BY TurnsStay
<1>1. ASSUME UNCHANGED <<pc, calls, answer, active>>,
             pc = "start" => \A i \in DOMAIN wire' : wire'[i].type = "reply" /\ wire'[i].ok =>
                                OfIt(wire'[i].turn) \/ \E j \in DOMAIN wire : wire'[i] = wire[j]
      PROVE  OwnInv'
  <2>1. OwnAnswer'
    BY <1>0, <1>1
  <2>2. WaitsForOwnTurn'
    BY <1>0, <1>1
  <2> QED
    BY <2>1, <2>2
\* Only the answer of its own turn/start makes the caller wait for a turn.
<1>2. ASSUME NEW r \in requests, ServerAnswers(r) PROVE OwnInv'
  <2>0. UNCHANGED <<pc, calls, answer, active>>
    BY <1>2 DEF ServerAnswers, events, caller
  <2>1. PICK ms \in Seq(Messages), m \in Replies :
           /\ Written(r, ms, m)
           /\ OnlyAnswered(r, ms, m) \/ TurnMade(r, ms, m) \/ TurnInterrupted(r, ms, m)
    BY <1>2, ServerWrites
  <2>2. \A i \in DOMAIN wire' : \/ \E j \in DOMAIN wire : wire'[i] = wire[j]
                                \/ \E j \in DOMAIN ms : wire'[i] = ms[j]
    BY <2>1, Joined DEF Written, Types
  <2>3. ASSUME r.live, pc = "start", m.ok PROVE OfIt(m.turn)
    <3>1. r.kind = "start" /\ r.for = calls /\ calls \in Nat
      BY <2>3 DEF OneFuture, Live, Types
    <3>2. NewTurn(calls) /\ m.turn = Len(turns) + 1
      BY <2>1, <2>3, <3>1 DEF OnlyAnswered, TurnMade, TurnInterrupted, NewTurn
    <3>3. /\ Len(turns') = Len(turns) + 1 /\ turns' \in Seq(Turn)
          /\ turns'[Len(turns) + 1] = [by |-> calls, state |-> "running"]
      BY <3>1, <3>2, TurnAdded
    <3>4. Len(turns) + 1 \in DOMAIN turns' /\ calls' = calls
      BY <2>0, <3>3 DEF Types
    <3> QED
      BY <3>2, <3>3, <3>4
  <2>4. \A j \in DOMAIN ms : ms[j].type = "reply" => r.live /\ ms[j] = m
    BY <2>1 DEF Written
  <2> HIDE DEF OfIt
  <2> QED
    BY <1>1, <2>0, <2>2, <2>3, <2>4
<1>3. ASSUME UNCHANGED <<pc, calls, answer, active>>, NEW e \in Messages, e.type # "reply", Write(<<e>>)
      PROVE  OwnInv'
  <2>1. <<e>> \in Seq(Messages) /\ DOMAIN <<e>> = {1} /\ <<e>>[1] = e
    BY Few
  <2>2. \A i \in DOMAIN wire' : wire'[i] = e \/ \E j \in DOMAIN wire : wire'[i] = wire[j]
    BY <1>3, <2>1, Joined DEF Write, Types
  <2> QED
    BY <1>1, <1>3, <2>2
<1>4. CASE Server
  <2>1. ASSUME NEW t \in Running, NEW state \in {"ok", "failed"}, TurnEnds(t, state) PROVE OwnInv'
    <3> DEFINE c == [type |-> "completed", turn |-> t, ok |-> state = "ok"]
    <3>1. c \in Messages /\ c.type # "reply" /\ Completed(t, state = "ok") = <<c>>
      BY DEF Messages, Ends, Completed, Running, Types
    <3> HIDE DEF c
    <3> QED
      BY <1>3, <2>1, <3>1 DEF TurnEnds, events, caller
  <2>2. CASE ExternalTurnStarts
    <3> DEFINE s == [type |-> "started", turn |-> Len(turns) + 1]
    <3>1. s \in Messages /\ s.type # "reply" /\ Started(Len(turns) + 1) = <<s>>
      BY DEF Messages, Starts, Started, Types
    <3> HIDE DEF s
    <3> QED
      BY <1>3, <2>2, <3>1 DEF ExternalTurnStarts, events, caller
  <2>3. CASE ConnectionDrops
    BY <1>1, <2>3, Empty DEF ConnectionDrops, events, caller
  <2> QED
    BY <1>2, <1>4, <2>1, <2>2, <2>3 DEF Server
<1>5. CASE Reader
  <2>1. /\ UNCHANGED <<pc, calls>> /\ 1 \in DOMAIN wire /\ Head(wire) = wire[1] /\ Head(wire) \in Messages
        /\ \A i \in DOMAIN wire' : \E j \in DOMAIN wire : wire'[i] = wire[j]
    <3>1. UNCHANGED <<pc, calls>> /\ wire # <<>> /\ wire \in Seq(Messages) /\ wire' = Tail(wire)
      BY <1>5 DEF Reader, OnReply, OnTurnStarted, OnTurnCompleted, ReaderTakes, caller, Types
    <3>2. \A i \in DOMAIN Tail(wire) : \E j \in DOMAIN wire : Tail(wire)[i] = wire[j]
      BY <3>1, TailOf
    <3> QED
      BY <3>1, <3>2, TailOf
  <2>2. OwnAnswer'
    <3>1. answer' = answer \/ answer' = wire[1]
      BY <1>5, <2>1 DEF Reader, OnReply, OnTurnStarted, OnTurnCompleted
    <3> QED
      BY <1>0, <2>1, <3>1
  <2>3. ASSUME pc \in {"wait", "interrupt"} PROVE active' = active
    <3>1. active # 0
      BY <2>3 DEF Types
    <3> QED
      BY <1>5, <3>1 DEF Reader, OnReply, OnTurnStarted, OnTurnCompleted, events
  <2>4. WaitsForOwnTurn'
    BY <1>0, <2>1, <2>3
  <2> QED
    BY <2>2, <2>4
<1>6. CASE CallTurn \/ Caller
  <2>1. ASSUME pc' \notin {"start", "wait", "interrupt"} PROVE OwnInv'
    BY <2>1
  <2>2. CASE CallTurn \/ TryAgain \/ CallRead \/ Release \/ Connect \/ TurnDone \/ Interrupted \/ ReadAnswered \/ StopProcess
    BY <1>1, <2>1, <2>2, Empty
    DEF CallTurn, TryAgain, EnterAttempt, CallRead, Release, Connect, TurnDone, Interrupted, ReadAnswered, StopProcess, caller, events
  <2>3. CASE UserInterrupts
    BY <1>1, <2>3 DEF UserInterrupts, caller, events
  <2>4. CASE ErrorAnswered \/ RequestFails
    BY <2>1, <2>4 DEF ErrorAnswered, RequestFails, CallFails
  <2>5. CASE Resumed
    <3>1. answer' = NoAnswer /\ wire' = wire /\ pc' # "wait" /\ pc' # "interrupt"
      BY <2>5 DEF Resumed
    <3>2. \A i \in DOMAIN wire : wire[i].type # "reply"
      BY <2>5, Answered DEF Resumed, On
    <3> QED
      BY <3>1, <3>2 DEF NoAnswer
  <2>6. CASE TurnStarted
    BY <1>0, <2>6 DEF TurnStarted, Types, Replies, NoAnswer
  <2>7. CASE TurnOverruns
    BY <1>0, <2>7 DEF TurnOverruns, caller, events
  <2> QED
    BY <1>6, <2>2, <2>3, <2>4, <2>5, <2>6, <2>7 DEF Caller, Proceeds
<1>7. CASE UNCHANGED client
  BY <1>1, <1>7 DEF client, events, caller
<1> QED
  BY <1>4, <1>5, <1>6, <1>7 DEF Next, Worker, WorkerLooks, vars, client
LEMMA StepKeepsKnown == Types /\ OneFuture /\ KnownTurns /\ [Next]_vars => KnownTurns'
<1> SUFFICES ASSUME Types, OneFuture, KnownTurns, [Next]_vars PROVE KnownTurns'
  OBVIOUS
<1> DEFINE Known == 0 .. Len(turns')
<1>0. \A t \in Turns : t \in Known
  <2>1. turns \in Seq(Turn) /\ turns' \in Seq(Turn)
    BY StepKeepsTypes DEF Types
  <2>2. \A t \in DOMAIN turns : t \in DOMAIN turns'
    BY TurnsStay
  <2> QED
    BY <2>1, <2>2 DEF Turns
<1>1. ASSUME active' \in Known, threadTurn' \in Known, answer' # NoAnswer => answer'.turn \in Known,
             \A i \in DOMAIN wire' : wire'[i].turn \in Known \/ \E j \in DOMAIN wire : wire'[i] = wire[j]
      PROVE  KnownTurns'
  BY <1>0, <1>1 DEF KnownTurns, Turns
<1>2. /\ active \in Known /\ threadTurn \in Known /\ 0 \in Known
      /\ answer # NoAnswer => answer.turn \in Known
  BY <1>0 DEF KnownTurns, Turns, Types
<1>3. ASSUME UNCHANGED <<active, threadTurn, answer>>, NEW ms \in Seq(Messages),
             \A i \in DOMAIN ms : ms[i].turn \in Known, Write(ms)
      PROVE  KnownTurns'
  <2>1. \A i \in DOMAIN wire' : \/ \E j \in DOMAIN wire : wire'[i] = wire[j]
                                \/ \E j \in DOMAIN ms : wire'[i] = ms[j]
    BY <1>3, Joined DEF Write, Types
  <2> HIDE DEF Known
  <2> QED
    BY <1>1, <1>2, <1>3, <2>1
<1>4. CASE Server
  <2>1. ASSUME NEW r \in requests, ServerAnswers(r) PROVE KnownTurns'
    <3>1. PICK ms \in Seq(Messages), m \in Replies :
             /\ Written(r, ms, m)
             /\ OnlyAnswered(r, ms, m) \/ TurnMade(r, ms, m) \/ TurnInterrupted(r, ms, m)
      BY <2>1, ServerWrites
    <3>2. r.for \in Nat /\ Len(turns) \in Nat
      BY DEF Types, Requested
    <3>3. CASE OnlyAnswered(r, ms, m)
      <4>1. \A i \in DOMAIN ms : ms[i].turn = 0
        BY <3>1, <3>3 DEF OnlyAnswered, Written
      <4> HIDE DEF Known
      <4> QED
        BY <1>2, <1>3, <2>1, <3>1, <4>1 DEF ServerAnswers, Written, Write, events
    <3>4. CASE TurnMade(r, ms, m)
      <4>1. \A i \in DOMAIN ms : ms[i].turn = Len(turns) + 1
        BY <3>1, <3>4 DEF TurnMade, Written
      <4>2. Len(turns) + 1 \in Known
        <5>1. Len(turns') = Len(turns) + 1
          BY <3>2, <3>4, TurnAdded DEF TurnMade
        <5> QED
          BY <3>2, <5>1
      <4> HIDE DEF Known
      <4> QED
        BY <1>3, <2>1, <3>1, <4>1, <4>2 DEF ServerAnswers, Written, Write, events
    <3>5. CASE TurnInterrupted(r, ms, m)
      <4>1. \A i \in DOMAIN ms : ms[i].turn \in {0, r.for}
        BY <3>1, <3>5 DEF TurnInterrupted, Written
      <4>2. r.for \in Known
        BY <1>0, <3>2, <3>5 DEF TurnInterrupted, Running, Turns, Types
      <4> HIDE DEF Known
      <4> QED
        BY <1>2, <1>3, <2>1, <3>1, <4>1, <4>2 DEF ServerAnswers, Written, Write, events
    <3> QED
      BY <3>1, <3>3, <3>4, <3>5
  <2>2. ASSUME NEW t \in Running, NEW state \in {"ok", "failed"}, TurnEnds(t, state) PROVE KnownTurns'
    <3> DEFINE c == [type |-> "completed", turn |-> t, ok |-> state = "ok"]
    <3>1. c \in Messages /\ c.turn = t /\ Completed(t, state = "ok") = <<c>>
      BY DEF Messages, Ends, Completed, Running, Types
    <3>2. t \in Known
      BY <1>0 DEF Running, Turns, Types
    <3> HIDE DEF c, Known
    <3>3. <<c>> \in Seq(Messages) /\ \A i \in DOMAIN <<c>> : <<c>>[i] = c
      BY <3>1, Few
    <3> QED
      BY <1>3, <2>2, <3>1, <3>2, <3>3 DEF TurnEnds, events
  <2>3. CASE ExternalTurnStarts
    <3> DEFINE s == [type |-> "started", turn |-> Len(turns) + 1]
    <3>1. s \in Messages /\ s.turn = Len(turns) + 1 /\ Started(Len(turns) + 1) = <<s>>
      BY DEF Messages, Starts, Started, Types
    <3>2. Len(turns) + 1 \in Known
      <4>1. Len(turns') = Len(turns) + 1
        BY <2>3, TurnAdded DEF ExternalTurnStarts
      <4> QED
        BY <4>1 DEF Types
    <3> HIDE DEF s, Known
    <3>3. <<s>> \in Seq(Messages) /\ \A i \in DOMAIN <<s>> : <<s>>[i] = s
      BY <3>1, Few
    <3> QED
      BY <1>3, <2>3, <3>1, <3>2, <3>3 DEF ExternalTurnStarts, events
  <2>4. CASE ConnectionDrops
    BY <1>1, <1>2, <2>4, Empty DEF ConnectionDrops, events
  <2> QED
    BY <1>4, <2>1, <2>2, <2>3, <2>4 DEF Server
<1>5. CASE Reader
  <2>1. wire # <<>> /\ wire \in Seq(Messages) /\ wire' = Tail(wire)
    BY <1>5 DEF Reader, OnReply, OnTurnStarted, OnTurnCompleted, ReaderTakes, Types
  <2>2. \A i \in DOMAIN wire' : \E j \in DOMAIN wire : wire'[i] = wire[j]
    BY <2>1, TailOf
  <2>3. Head(wire).turn \in Known
    BY <1>0, <2>1, TailOf DEF KnownTurns
  <2>4. /\ active' \in {active, Head(wire).turn}
        /\ threadTurn' \in {threadTurn, Head(wire).turn, 0}
        /\ answer' \in {answer, Head(wire)}
    BY <1>5 DEF Reader, OnReply, OnTurnStarted, OnTurnCompleted, events
  <2> HIDE DEF Known
  <2> QED
    BY <1>1, <1>2, <2>2, <2>3, <2>4
<1>6. CASE CallTurn \/ Caller
  <2>1. \A i \in DOMAIN wire' : \E j \in DOMAIN wire : wire'[i] = wire[j]
    <3>1. wire' \in {wire, <<>>, Unread}
      BY <1>6
      DEF Caller, Proceeds, CallTurn, CallRead, Release, UserInterrupts, Connect, TryAgain, StopProcess, Resumed,
          TurnStarted, TurnDone, Interrupted, ReadAnswered, ErrorAnswered, TurnOverruns, RequestFails, CallFails
    <3> QED
      BY <3>1, UnreadIs, Empty
  <2>2. /\ active' \in {active, 0} \/ (answer # NoAnswer /\ active' = answer.turn)
        /\ threadTurn' = threadTurn /\ answer' \in {answer, NoAnswer}
    BY <1>6
    DEF Caller, Proceeds, CallTurn, CallRead, Release, UserInterrupts, Connect, TryAgain, StopProcess, Resumed,
        TurnStarted, TurnDone, Interrupted, ReadAnswered, ErrorAnswered, TurnOverruns, RequestFails, events
  <2> HIDE DEF Known
  <2> QED
    BY <1>1, <1>2, <2>1, <2>2
<1>7. CASE UNCHANGED client
  BY <1>1, <1>2, <1>7 DEF client, events
<1> QED
  BY <1>4, <1>5, <1>6, <1>7 DEF Next, Worker, WorkerLooks, vars, client

-----------------------------------------------------------------------------
(* What is said of ended turns.                                            *)

LEMMA StepKeepsEnds == Types /\ OneFuture /\ EndsAreTrue /\ [Next]_vars => EndsAreTrue'
<1> SUFFICES ASSUME Types, OneFuture, EndsAreTrue, [Next]_vars PROVE EndsAreTrue'
  OBVIOUS
<1> DEFINE End(ok)   == IF ok THEN "ok" ELSE "failed"
           Told(m)   == m.turn \in DOMAIN turns /\ turns[m.turn].state = End(m.ok)
           ToldOf(m) == m.turn \in DOMAIN turns' /\ turns'[m.turn].state = End(m.ok)
           Ended(s)  == \E t \in DOMAIN turns' : turns'[t].state = s
<1>0. /\ \A m : Told(m) => ToldOf(m)
      /\ \A s \in {"ok", "failed"} : SomeEnded(s) => Ended(s)
      /\ \A i \in DOMAIN wire : wire[i].type = "completed" => Told(wire[i])
  BY TurnsStay DEF SomeEnded, EndsAreTrue
<1>1. ASSUME \A i \in DOMAIN wire' : wire'[i].type = "completed" =>
                ToldOf(wire'[i]) \/ \E j \in DOMAIN wire : wire'[i] = wire[j],
             done' /\ ~turnError' => Ended("ok"),
             turnError' => Ended("failed"),
             verdict' \in {"ok", "failed"} => Ended(verdict')
      PROVE  EndsAreTrue'
  <2>1. \A i \in DOMAIN wire' : wire'[i].type = "completed" => ToldOf(wire'[i])
    BY <1>0, <1>1
  <2> QED
    BY <1>1, <2>1 DEF EndsAreTrue, SomeEnded
<1>2. /\ done /\ ~turnError => Ended("ok")
      /\ turnError => Ended("failed")
      /\ verdict \in {"ok", "failed"} => Ended(verdict)
  BY <1>0 DEF EndsAreTrue
<1>3. ASSUME UNCHANGED <<done, turnError, verdict>>,
             \A i \in DOMAIN wire' : wire'[i].type = "completed" =>
                ToldOf(wire'[i]) \/ \E j \in DOMAIN wire : wire'[i] = wire[j]
      PROVE  EndsAreTrue'
  <2> HIDE DEF Ended, ToldOf
  <2> QED
    BY <1>1, <1>2, <1>3
<1>4. ASSUME NEW e \in Messages, e.type = "completed" => ToldOf(e), Write(<<e>>),
             UNCHANGED <<done, turnError, verdict>>
      PROVE  EndsAreTrue'
  <2>1. <<e>> \in Seq(Messages) /\ DOMAIN <<e>> = {1} /\ <<e>>[1] = e
    BY Few
  <2>2. \A i \in DOMAIN wire' : wire'[i] = e \/ \E j \in DOMAIN wire : wire'[i] = wire[j]
    BY <1>4, <2>1, Joined DEF Write, Types
  <2> HIDE DEF ToldOf
  <2> QED
    BY <1>3, <1>4, <2>2
<1>5. CASE Server
  <2>1. ASSUME NEW r \in requests, ServerAnswers(r) PROVE EndsAreTrue'
    <3>1. PICK ms \in Seq(Messages), m \in Replies :
             /\ Written(r, ms, m)
             /\ OnlyAnswered(r, ms, m) \/ TurnMade(r, ms, m) \/ TurnInterrupted(r, ms, m)
      BY <2>1, ServerWrites
    <3>2. \A i \in DOMAIN wire' : \/ \E j \in DOMAIN wire : wire'[i] = wire[j]
                                  \/ \E j \in DOMAIN ms : wire'[i] = ms[j]
      BY <3>1, Joined DEF Written, Types
    <3>3. ASSUME NEW j \in DOMAIN ms, ms[j].type = "completed" PROVE ToldOf(ms[j])
      <4>1. m.type = "reply"
        BY DEF Replies
      <4>2. TurnInterrupted(r, ms, m)
        BY <3>1, <3>3, <4>1 DEF OnlyAnswered, TurnMade, Written
      <4>3. ms[j].turn = r.for /\ ms[j].ok = FALSE
        BY <3>1, <3>3, <4>2 DEF TurnInterrupted
      <4>4. r.for \in DOMAIN turns' /\ turns'[r.for].state = "failed"
        BY <4>2, TurnEnded DEF TurnInterrupted
      <4> QED
        BY <4>3, <4>4
    <3> HIDE DEF ToldOf
    <3> QED
      BY <1>3, <2>1, <3>2, <3>3 DEF ServerAnswers, events, caller
  <2>2. ASSUME NEW t \in Running, NEW state \in {"ok", "failed"}, TurnEnds(t, state) PROVE EndsAreTrue'
    <3> DEFINE c == [type |-> "completed", turn |-> t, ok |-> state = "ok"]
    <3>1. c \in Messages /\ c.type # "reply" /\ Completed(t, state = "ok") = <<c>>
      BY DEF Messages, Ends, Completed, Running, Types
    <3>2. t \in DOMAIN turns' /\ turns'[t].state = state
      BY <2>2, TurnEnded DEF TurnEnds
    <3>3. ToldOf(c)
      BY <3>2
    <3> HIDE DEF c, ToldOf
    <3> QED
      BY <1>4, <2>2, <3>1, <3>3 DEF TurnEnds, events, caller
  <2>3. CASE ExternalTurnStarts
    <3> DEFINE s == [type |-> "started", turn |-> Len(turns) + 1]
    <3>1. s \in Messages /\ s.type # "completed" /\ Started(Len(turns) + 1) = <<s>>
      BY DEF Messages, Starts, Started, Types
    <3> HIDE DEF s, ToldOf
    <3> QED
      BY <1>4, <2>3, <3>1 DEF ExternalTurnStarts, events, caller
  <2>4. CASE ConnectionDrops
    BY <1>3, <2>4, Empty DEF ConnectionDrops, events, caller
  <2> QED
    BY <1>5, <2>1, <2>2, <2>3, <2>4 DEF Server
<1>6. CASE Reader
  <2>1. /\ verdict' = verdict /\ wire # <<>> /\ wire \in Seq(Messages) /\ wire' = Tail(wire)
    BY <1>6 DEF Reader, OnReply, OnTurnStarted, OnTurnCompleted, ReaderTakes, caller, Types
  <2>2. 1 \in DOMAIN wire /\ Head(wire) = wire[1] /\ \A i \in DOMAIN wire' : \E j \in DOMAIN wire : wire'[i] = wire[j]
    <3>1. \A i \in DOMAIN Tail(wire) : \E j \in DOMAIN wire : Tail(wire)[i] = wire[j]
      BY <2>1, TailOf
    <3> QED
      BY <2>1, <3>1, TailOf
  <2>3. CASE OnReply \/ OnTurnStarted
    BY <1>3, <2>1, <2>2, <2>3 DEF OnReply, OnTurnStarted, events
  <2>4. CASE OnTurnCompleted
    <3> DEFINE m == Head(wire)
    <3>1. m.type = "completed" /\ m = wire[1]
      BY <2>2, <2>4 DEF OnTurnCompleted, ReaderTakes
    <3>2. Ended(End(m.ok))
      BY <1>0, <2>2, <3>1
    <3>3. /\ done' => done \/ (m.ok \/ turnError')
          /\ turnError' => turnError \/ ~m.ok
          /\ turnError => turnError'
      BY <2>4 DEF OnTurnCompleted
    <3> HIDE DEF m, Ended, ToldOf
    <3>4. /\ done' /\ ~turnError' => Ended("ok")
          /\ turnError' => Ended("failed")
      BY <1>2, <3>2, <3>3
    <3> QED
      BY <1>1, <1>2, <2>1, <2>2, <3>4
  <2> QED
    BY <1>6, <2>3, <2>4 DEF Reader
<1>7. CASE CallTurn \/ Caller
  <2>1. \A i \in DOMAIN wire' : \E j \in DOMAIN wire : wire'[i] = wire[j]
    <3>1. wire' \in {wire, <<>>, Unread}
      BY <1>7
      DEF Caller, Proceeds, CallTurn, CallRead, Release, UserInterrupts, Connect, TryAgain, StopProcess, Resumed,
          TurnStarted, TurnDone, Interrupted, ReadAnswered, ErrorAnswered, TurnOverruns, RequestFails, CallFails
    <3> QED
      BY <3>1, UnreadIs, Empty
  <2>2. /\ done' /\ ~turnError' => done /\ ~turnError
        /\ turnError' => turnError
    <3>1. \/ UNCHANGED <<done, turnError>>
          \/ turnError' = turnError /\ done' = FALSE
          \/ turnError' = FALSE /\ done' = FALSE
      BY <1>7
      DEF Caller, Proceeds, CallTurn, CallRead, Release, UserInterrupts, Connect, TryAgain, StopProcess, Resumed, EnterAttempt,
          TurnStarted, TurnDone, Interrupted, ReadAnswered, ErrorAnswered, TurnOverruns, RequestFails, events
    <3> QED
      BY <3>1
  <2>3. \/ verdict' \in {verdict, "refused", "error", "timeout"}
        \/ verdict' = "ok" /\ done /\ ~turnError
        \/ verdict' = "failed" /\ turnError
    BY <1>7
    DEF Caller, Proceeds, CallTurn, CallRead, Release, UserInterrupts, Connect, TryAgain, StopProcess, Resumed, EnterAttempt,
        TurnStarted, TurnDone, Interrupted, ReadAnswered, ErrorAnswered, TurnOverruns, RequestFails, CallFails, caller
  <2> HIDE DEF Ended, ToldOf
  <2> QED
    BY <1>1, <1>2, <2>1, <2>2, <2>3
<1>8. CASE UNCHANGED client
  BY <1>3, <1>8 DEF client, events, caller
<1> QED
  BY <1>5, <1>6, <1>7, <1>8 DEF Next, Worker, WorkerLooks, vars, client
-----------------------------------------------------------------------------
(* The calm scenes: what the caller does.                                  *)

\* Where nothing was answered, nothing is said of answers.
LEMMA NothingAnswered == ~On("reply")' /\ answer' = NoAnswer => CalmAnswers'
<1> SUFFICES ASSUME ~On("reply")', answer' = NoAnswer PROVE CalmAnswers'
  OBVIOUS
<1>1. \A i \in DOMAIN wire' : wire'[i].type # "reply"
  BY DEF On
<1>2. answer'.type # "reply"
  BY DEF NoAnswer
<1> QED
  BY <1>1, <1>2 DEF CalmAnswers, CalmAnswer

\* What the other parts of the client say of the wire and the turns.
LEMMA SameWire ==
  ASSUME UNCHANGED <<turns, wire>>
  PROVE  /\ Running' = Running /\ Newest' = Newest
         /\ StartComing' <=> StartComing
         /\ EndComing' <=> EndComing
         /\ On("reply")' <=> On("reply")
         /\ CalmWire => CalmWire'
  BY DEF Running, Newest, StartComing, EndComing, On, CalmWire

LEMMA NewConnection ==
  ASSUME turns' = turns, wire' = <<>>
  PROVE  /\ Running' = Running /\ Newest' = Newest /\ ~StartComing' /\ ~EndComing' /\ ~On("reply")' /\ CalmWire'
<1>1. DOMAIN wire' = {}
  BY Empty
<1> QED
  BY <1>1 DEF Running, Newest, StartComing, EndComing, On, CalmWire

LEMMA CallerKeepsCalm == Types /\ OneFuture /\ Calm /\ CalmState /\ CalmLook /\ (CallTurn \/ Caller) => CalmState'
<1> SUFFICES ASSUME Types, OneFuture, Calm, CalmState, CalmLook, CallTurn \/ Caller PROVE CalmState'
  OBVIOUS
<1> USE DEF server, events, caller
<1> DEFINE Still == /\ Running' = Running /\ Newest' = Newest
                    /\ StartComing' <=> StartComing
                    /\ EndComing' <=> EndComing
\* The parts of CalmState that only some actions can disturb.
<1>0. /\ CalmConnection /\ CalmWire /\ CalmBusy /\ CalmCaller /\ CalmRequests /\ CalmAnswers /\ CalmVerdict
      /\ busy \in BOOLEAN /\ released \in BOOLEAN /\ done \in BOOLEAN /\ turnError \in BOOLEAN /\ starting \in BOOLEAN
      /\ pc \in Places /\ op \in Ops
  BY DEF CalmState, Types
<1>1. ASSUME pc = "idle", ~busy PROVE Quiet
  BY <1>0, <1>1 DEF CalmCaller, CalmBusy, Quiet
<1>2. pc = "idle" /\ released => Quiet
  <2>1. wire = <<>> => ~StartComing /\ ~EndComing
    BY Empty DEF StartComing, EndComing, On
  <2> QED
    BY <1>0, <2>1 DEF CalmConnection, CalmCaller, CalmBusy, Quiet
<1>3. CASE CallTurn
  <2>1. UNCHANGED <<turns, wire, requests, conn, released, answer, active, busy, threadTurn>> /\ ~released /\ pc = "idle" /\ Quiet
    BY <1>3 DEF CallTurn, CalmLook
  <2>2. Still /\ CalmWire' /\ CalmAnswers'
    BY <1>0, <2>1, SameWire, NoFuture, NothingAnswered DEF Awaiting
  <2>3. CalmBusy' /\ CalmRequests'
    BY <1>0, <2>1, <2>2 DEF CalmBusy, CalmRequests
  <2>4. CASE pc' = "idle" /\ verdict' = "refused"
    BY <1>0, <2>1, <2>2, <2>3, <2>4 DEF CalmState, CalmConnection, CalmCaller, CalmVerdict
  <2>5. CASE active = 0 /\ done' = FALSE /\ turnError' = FALSE /\ starting' = TRUE /\ pc' = "connect" /\ op' = "turn"
    <3>1. Quiet' /\ Fresh'
      BY <2>1, <2>2, <2>5 DEF Quiet, Fresh
    <3> QED
      BY <1>0, <2>1, <2>2, <2>3, <2>5, <3>1 DEF CalmState, CalmConnection, CalmCaller, CalmVerdict
  <2> QED
    BY <1>3, <2>4, <2>5 DEF CallTurn, EnterAttempt
<1>4. CASE CallRead
  <2>1. /\ UNCHANGED <<turns, wire, requests, conn, released, answer, active, busy, threadTurn, verdict, calls>>
        /\ pc = "idle" /\ pc' = "connect" /\ op' # "turn" /\ (released => op' = "reconnect")
    BY <1>4 DEF CallRead
  <2>2. Still /\ CalmWire' /\ CalmAnswers'
    BY <1>0, <2>1, SameWire, NoFuture, NothingAnswered DEF Awaiting
  <2>3. CalmBusy' /\ CalmRequests'
    BY <1>0, <2>1, <2>2 DEF CalmBusy, CalmRequests
  <2>4. Quiet'
    BY <1>1, <1>2, <1>4, <2>1, <2>2 DEF CallRead, Quiet
  <2> QED
    BY <1>0, <2>1, <2>2, <2>3, <2>4 DEF CalmState, CalmConnection, CalmCaller, CalmVerdict
<1>5. CASE Release
  <2>1. /\ UNCHANGED <<turns, requests, answer, active, busy, threadTurn, verdict, calls, pc, op>>
        /\ pc = "idle" /\ ~busy /\ conn' = "none" /\ wire' = <<>>
    BY <1>5 DEF Release
  <2>2. Running' = Running /\ Newest' = Newest /\ ~StartComing' /\ ~EndComing' /\ CalmWire' /\ CalmAnswers'
    BY <1>0, <2>1, NewConnection, NoFuture, NothingAnswered DEF Awaiting
  <2>3. CalmBusy' /\ CalmRequests' /\ CalmCaller'
    BY <1>0, <1>1, <2>1, <2>2 DEF CalmBusy, CalmRequests, CalmCaller, Quiet
  <2> QED
    BY <1>0, <2>1, <2>2, <2>3 DEF CalmState, CalmConnection, CalmVerdict
<1>6. CASE UserInterrupts
  <2>1. /\ UNCHANGED <<turns, wire, conn, released, answer, active, done, turnError, threadTurn, busy>>
        /\ UNCHANGED <<pc, op, starting, calls, verdict>>
    BY <1>6 DEF UserInterrupts
  <2>2. Still /\ CalmWire'
    BY <1>0, <2>1, SameWire
  <2>3. StartPending' = StartPending /\ CalmRequests'
    BY <1>0, <1>6, <2>2 DEF UserInterrupts, Request, StartPending, CalmRequests
  <2>4. CalmAnswers'
    BY <1>0, <2>1, <2>2 DEF CalmAnswers, CalmAnswer
  <2> QED
    BY <1>0, <2>1, <2>2, <2>3, <2>4
    DEF CalmState, CalmConnection, CalmBusy, CalmCaller, CalmVerdict, Quiet, Fresh, HasTurn
<1>7. CASE Connect
  <2>1. /\ UNCHANGED <<turns, wire, released, answer, active, done, turnError, threadTurn, busy, op, starting, calls, verdict>>
        /\ conn' = "open" /\ pc = "connect" /\ pc' = "resume"
    BY <1>7 DEF Connect
  <2>2. Still /\ CalmWire' /\ CalmAnswers'
    BY <1>0, <2>1, SameWire, NoFuture, NothingAnswered DEF Awaiting
  <2>3. CalmRequests'
    BY <1>0, <1>7, <2>2 DEF Connect, Request, CalmRequests
  <2> QED
    BY <1>0, <2>1, <2>2, <2>3
    DEF CalmState, CalmConnection, CalmBusy, CalmCaller, CalmVerdict, Quiet, Fresh
<1>8. CASE Resumed
  <2>1. /\ UNCHANGED <<turns, wire, conn, released, active, done, turnError, threadTurn, op, starting, calls, verdict>>
        /\ pc = "resume" /\ answer' = NoAnswer /\ answer \in Replies /\ answer # NoAnswer
        /\ pc' = IF op = "turn" THEN "start" ELSE "read"
    BY <1>8 DEF Resumed, Types
  <2>2. Still /\ CalmWire' /\ CalmAnswers'
    BY <1>0, <2>1, SameWire, Answered, NothingAnswered
  <2>3. busy' = FALSE
    BY <1>0, <1>8, <2>1 DEF Resumed, CalmAnswers, CalmAnswer, Replies
  <2>4. Quiet' /\ CalmBusy'
    BY <1>0, <2>1, <2>2, <2>3 DEF CalmBusy, CalmCaller, Quiet
  <2>5. CalmRequests' /\ (op = "turn" => StartPending')
    <3>1. conn = "open"
      BY <1>0, <2>1 DEF CalmConnection, Types
    <3>2. \/ op = "turn" /\ requests' = requests \cup Request("start", calls, TRUE)
          \/ op # "turn" /\ requests' = requests \cup Request("read", 0, TRUE)
      BY <1>8, <3>1 DEF Resumed, Send
    <3>3. CASE op = "turn" /\ requests' = requests \cup Request("start", calls, TRUE)
      <4> DEFINE q == [kind |-> "start", for |-> calls, attempt |-> attempt, live |-> TRUE]
      <4>1. requests' = requests \cup {q} /\ q.kind = "start" /\ q.live
        BY <3>3 DEF Request
      <4> HIDE DEF q
      <4> QED
        BY <1>0, <2>2, <4>1 DEF CalmRequests, StartPending
    <3>4. CASE op # "turn" /\ requests' = requests \cup Request("read", 0, TRUE)
      BY <1>0, <2>2, <3>4 DEF Request, CalmRequests
    <3> QED
      BY <3>2, <3>3, <3>4
  <2> QED
    BY <1>0, <2>1, <2>2, <2>4, <2>5 DEF CalmState, CalmConnection, CalmCaller, CalmVerdict, Fresh
<1>9. CASE TurnStarted
  <2>1. /\ UNCHANGED <<turns, requests, wire, conn, released, done, turnError, threadTurn, busy, op, calls, verdict>>
        /\ pc = "start" /\ answer' = NoAnswer /\ answer \in Replies /\ answer # NoAnswer
        /\ pc' = "wait" /\ active' = answer.turn
    BY <1>9 DEF TurnStarted, Types
  <2>2. Still /\ CalmWire' /\ CalmAnswers'
    BY <1>0, <2>1, SameWire, Answered, NothingAnswered
  <2>3. active' = Newest
    BY <1>0, <2>1 DEF CalmAnswers, CalmAnswer, Replies
  <2>4. ~StartPending
    BY <1>0, <2>1, Answered DEF StartPending, CalmRequests, Live
  <2>5. HasTurn'
    BY <1>0, <2>1, <2>2, <2>3, <2>4 DEF CalmCaller, HasTurn
  <2> QED
    BY <1>0, <2>1, <2>2, <2>5 DEF CalmState, CalmConnection, CalmBusy, CalmCaller, CalmRequests, CalmVerdict
<1>10. CASE TurnDone
  <2>1. /\ UNCHANGED <<turns, requests, wire, conn, released, answer, done, turnError, threadTurn, busy, op, calls>>
        /\ pc = "wait" /\ done /\ pc' = "idle"
        /\ (verdict' \in {"ok", "error"} /\ ~turnError) \/ (verdict' = "failed" /\ turnError)
    BY <1>10 DEF TurnDone
  <2>2. Still /\ CalmWire' /\ CalmAnswers'
    BY <1>0, <2>1, SameWire, NoFuture, NothingAnswered DEF Awaiting
  <2>3. HasTurn /\ Running = {} /\ ~StartComing /\ op = "turn"
    BY <1>0, <2>1 DEF CalmCaller, CalmBusy, HasTurn
  <2>4. CalmVerdict'
    <3>1. Newest \in DOMAIN turns /\ turns[Newest].by = calls /\ turns[Newest] \in Turn
      BY <2>3 DEF HasTurn, Newest, Types
    <3>2. turns[Newest].state = IF turnError THEN "failed" ELSE "ok"
      BY <2>1, <2>3, <3>1 DEF HasTurn, Running, Turn
    <3> QED
      BY <2>1, <3>1, <3>2 DEF CalmVerdict
  <2> QED
    BY <1>0, <2>1, <2>2, <2>3, <2>4 DEF CalmState, CalmConnection, CalmBusy, CalmCaller, CalmRequests
<1>11. CASE Interrupted \/ ReadAnswered
  <2>1. /\ UNCHANGED <<turns, requests, wire, conn, threadTurn, op, calls>>
        /\ answer' = NoAnswer /\ answer \in Replies /\ answer # NoAnswer /\ pc' = "idle"
        /\ \/ pc = "interrupt" /\ UNCHANGED <<released, busy>> /\ verdict' = "timeout"
           \/ pc = "read" /\ released' = FALSE /\ busy' = answer.active /\ verdict' = verdict
    BY <1>11 DEF Interrupted, ReadAnswered, Types
  <2>2. Still /\ CalmWire' /\ CalmAnswers'
    BY <1>0, <2>1, SameWire, Answered, NothingAnswered
  <2>3. Running = {} /\ ~StartComing /\ (pc = "read" => ~answer.active /\ Quiet)
    BY <1>0, <2>1 DEF CalmAnswers, CalmAnswer, CalmCaller, Quiet, Replies
  <2>4. CalmBusy'
    BY <1>0, <2>1, <2>2, <2>3 DEF CalmBusy, Quiet, Replies
  <2> QED
    BY <1>0, <2>1, <2>2, <2>3, <2>4 DEF CalmState, CalmConnection, CalmCaller, CalmRequests, CalmVerdict
<1>12. CASE ErrorAnswered
  <2>1. /\ UNCHANGED <<turns, requests, released, active, done, turnError, threadTurn, busy, op, calls>>
        /\ answer' = NoAnswer /\ answer \in Replies /\ answer # NoAnswer /\ ~answer.ok /\ pc \in Awaiting /\ pc' = "idle"
        /\ verdict' = (IF op = "turn" THEN "error" ELSE verdict)
        /\ IF op = "reconnect" THEN conn' = "none" /\ wire' = <<>> ELSE UNCHANGED <<conn, wire>>
    BY <1>12 DEF ErrorAnswered, CallFails, Types
  <2>2. pc # "start" /\ Running = {} /\ ~StartComing /\ (op = "reconnect" => Quiet)
    BY <1>0, <2>1 DEF CalmAnswers, CalmAnswer, CalmCaller, Quiet, Replies, Awaiting
  <2>3. CASE op = "reconnect"
    <3>1. Running' = Running /\ Newest' = Newest /\ ~StartComing' /\ ~EndComing' /\ CalmWire' /\ CalmAnswers'
      BY <2>1, <2>3, NewConnection, NothingAnswered
    <3> QED
      BY <1>0, <2>1, <2>2, <2>3, <3>1
      DEF CalmState, CalmConnection, CalmCaller, CalmRequests, CalmVerdict, CalmBusy, Quiet
  <2>4. CASE op # "reconnect"
    <3>1. Still /\ CalmWire' /\ CalmAnswers'
      BY <1>0, <2>1, <2>4, SameWire, Answered, NothingAnswered
    <3> QED
      BY <1>0, <2>1, <2>2, <2>4, <3>1
      DEF CalmState, CalmConnection, CalmCaller, CalmRequests, CalmVerdict, CalmBusy, Quiet
  <2> QED
    BY <2>3, <2>4
<1>13. CASE TurnOverruns
  <2>1. /\ UNCHANGED <<turns, wire, conn, released, answer, active, done, turnError, threadTurn, busy>>
        /\ UNCHANGED <<op, starting, calls, verdict>>
        /\ pc = "wait" /\ pc' = "interrupt" /\ conn = "open" /\ requests' = requests \cup Request("interrupt", active, TRUE)
    BY <1>13 DEF TurnOverruns, Send
  <2>2. Still /\ CalmWire' /\ CalmAnswers'
    BY <1>0, <2>1, SameWire, NoFuture, NothingAnswered DEF Awaiting
  <2>3. HasTurn /\ HasTurn' /\ active = Newest
    BY <1>0, <2>1, <2>2 DEF CalmCaller, HasTurn
  <2>4. CalmRequests'
    BY <1>0, <2>1, <2>2, <2>3 DEF CalmRequests, Request
  <2> QED
    BY <1>0, <2>1, <2>2, <2>3, <2>4 DEF CalmState, CalmConnection, CalmCaller, CalmVerdict, CalmBusy
<1>14. ~TryAgain /\ ~StopProcess /\ ~RequestFails
  BY <1>0 DEF TryAgain, StopProcess, RequestFails, CannotGoOn, CalmConnection, Calm
<1> QED
  BY <1>3, <1>4, <1>5, <1>6, <1>7, <1>8, <1>9, <1>10, <1>11, <1>12, <1>13, <1>14 DEF Caller, Proceeds
-----------------------------------------------------------------------------
(* The calm scenes: what the reader handles.                               *)

\* Without its first message the wire is as it was, and no more of that type.
LEMMA Taken ==
  ASSUME Types, CalmWire, NEW type, ReaderTakes(type)
  PROVE  /\ 1 \in DOMAIN wire /\ Head(wire) = wire[1] /\ wire[1].type = type
         /\ \A i \in DOMAIN wire' : i + 1 \in DOMAIN wire /\ wire'[i] = wire[i + 1] /\ i \in Nat
         /\ \A u : u # type => (On(u)' <=> On(u))
         /\ On(type) /\ ~On(type)'
         /\ UNCHANGED <<turns, requests, conn, released, pc, op, starting, calls, verdict>>
         /\ CalmWire'
         /\ conn = "open"
<1>1. /\ wire \in Seq(Messages) /\ wire # <<>> /\ wire' = Tail(wire) /\ Head(wire).type = type /\ conn = "open"
      /\ UNCHANGED <<turns, requests, conn, released, pc, op, starting, calls, verdict>>
  BY DEF ReaderTakes, Types, server, caller
<1>2. /\ 1 \in DOMAIN wire /\ Head(wire) = wire[1] /\ wire[1].type = type
      /\ \A i \in DOMAIN wire' : i + 1 \in DOMAIN wire /\ wire'[i] = wire[i + 1] /\ i \in Nat /\ i + 1 # 1
      /\ \A i \in DOMAIN wire : i # 1 => i - 1 \in DOMAIN wire' /\ wire'[i - 1] = wire[i]
  BY <1>1, TailOf
<1>3. \A i, j \in DOMAIN wire : wire[i].type = wire[j].type => i = j
  BY DEF CalmWire
<1>4. On(type) /\ ~On(type)'
  BY <1>2, <1>3 DEF On
<1>5. ASSUME NEW u, u # type PROVE On(u)' <=> On(u)
  BY <1>2, <1>5 DEF On
<1>6. CalmWire'
  <2>1. \A i \in DOMAIN wire' : wire'[i].type # "reply" => wire'[i].turn = Newest'
    BY <1>1, <1>2 DEF CalmWire, Newest
  <2>2. \A i, j \in DOMAIN wire' : /\ wire'[i].type = wire'[j].type => i = j
                                   /\ wire'[i].type = "started" /\ wire'[j].type = "completed" => i < j
    <3> SUFFICES ASSUME NEW i \in DOMAIN wire', NEW j \in DOMAIN wire'
                 PROVE  /\ wire'[i].type = wire'[j].type => i = j
                        /\ wire'[i].type = "started" /\ wire'[j].type = "completed" => i < j
      OBVIOUS
    <3>1. /\ wire[i + 1].type = wire[j + 1].type => i + 1 = j + 1
          /\ wire[i + 1].type = "started" /\ wire[j + 1].type = "completed" => i + 1 < j + 1
      BY <1>2 DEF CalmWire
    <3> QED
      BY <1>2, <3>1
  <2> QED
    BY <2>1, <2>2 DEF CalmWire
<1> QED
  BY <1>1, <1>2, <1>4, <1>5, <1>6

LEMMA ReaderKeepsCalm == Types /\ OneFuture /\ EndsAreTrue /\ CalmState /\ Reader => CalmState'
<1> SUFFICES ASSUME Types, OneFuture, EndsAreTrue, CalmState, Reader PROVE CalmState'
  OBVIOUS
<1>0. /\ CalmConnection /\ CalmWire /\ CalmBusy /\ CalmCaller /\ CalmRequests /\ CalmAnswers /\ CalmVerdict
      /\ busy \in BOOLEAN /\ released \in BOOLEAN /\ done \in BOOLEAN /\ turnError \in BOOLEAN /\ starting \in BOOLEAN
      /\ pc \in Places /\ op \in Ops
  BY DEF CalmState, Types
<1>1. PICK type \in {"reply", "started", "completed"} : ReaderTakes(type)
  BY DEF Reader, OnReply, OnTurnStarted, OnTurnCompleted
<1>2. /\ 1 \in DOMAIN wire /\ Head(wire) = wire[1] /\ wire[1].type = type
      /\ \A i \in DOMAIN wire' : i + 1 \in DOMAIN wire /\ wire'[i] = wire[i + 1] /\ i \in Nat
      /\ \A u : u # type => (On(u)' <=> On(u))
      /\ On(type) /\ ~On(type)' /\ CalmWire' /\ conn = "open"
      /\ UNCHANGED <<turns, requests, conn, released, pc, op, starting, calls, verdict>>
  BY <1>0, <1>1, Taken
<1>3. Running' = Running /\ Newest' = Newest /\ (StartPending' <=> StartPending) /\ CalmRequests'
  BY <1>0, <1>2 DEF Running, Newest, StartPending, CalmRequests
<1>4. CalmConnection' /\ CalmVerdict'
  BY <1>0, <1>2 DEF CalmConnection, CalmVerdict
<1>5. /\ \A i \in DOMAIN wire' : CalmAnswer(wire[i])'
      /\ pc = "interrupt" => \A i, j \in DOMAIN wire' : wire'[i].type = "started" /\ wire'[j].type = "reply" => i < j
  <2>1. \A i \in DOMAIN wire' : CalmAnswer(wire[i])'
    BY <1>0, <1>2, <1>3 DEF CalmAnswers, CalmAnswer
  <2>2. ASSUME pc = "interrupt", NEW i \in DOMAIN wire', NEW j \in DOMAIN wire',
               wire'[i].type = "started", wire'[j].type = "reply"
        PROVE  i < j
    <3>1. i + 1 < j + 1
      BY <1>0, <1>2, <2>2 DEF CalmAnswers
    <3> QED
      BY <1>2, <3>1
  <2> QED
    BY <2>1, <2>2
<1>6. CASE OnReply
  <2>1. type = "reply"
    BY <1>2, <1>6 DEF OnReply, ReaderTakes
  <2>2. /\ UNCHANGED <<active, done, turnError, threadTurn, busy>> /\ answer' = wire[1]
        /\ StartComing' <=> StartComing
        /\ EndComing' <=> EndComing
    BY <1>2, <1>6, <2>1 DEF OnReply, events, StartComing, EndComing
  <2>3. CalmBusy' /\ CalmCaller'
    BY <1>0, <1>2, <1>3, <2>2 DEF CalmBusy, CalmCaller, Quiet, Fresh, HasTurn
  <2>4. pc = "interrupt" => ~StartComing
    BY <1>0, <1>2, <2>1 DEF CalmAnswers, StartComing, On, Types
  <2>5. CalmAnswers'
    BY <1>0, <1>2, <1>3, <1>5, <2>2, <2>4 DEF CalmAnswers, CalmAnswer
  <2> QED
    BY <1>2, <1>3, <1>4, <2>3, <2>5 DEF CalmState
<1>7. CASE OnTurnStarted
  <2>1. type = "started" /\ wire[1].turn = Newest
    BY <1>0, <1>2, <1>7 DEF OnTurnStarted, ReaderTakes, CalmWire
  <2>2. /\ UNCHANGED <<answer, done, turnError>> /\ busy' = TRUE /\ threadTurn' = Newest
        /\ active' = IF starting /\ active = 0 THEN Newest ELSE active
        /\ StartComing /\ ~StartComing'
        /\ EndComing' <=> EndComing
    BY <1>2, <1>7, <2>1 DEF OnTurnStarted, StartComing, EndComing
  <2>3. CalmBusy'
    BY <1>0, <1>3, <2>2 DEF CalmBusy
  <2>4. HasTurn
    BY <1>0, <1>2, <2>2 DEF CalmCaller, Quiet, CalmConnection, Places, Awaiting
  <2>5. active' = Newest /\ ~done /\ ~turnError /\ turns[Newest].by = calls /\ Newest > 0
    BY <1>0, <2>2, <2>4 DEF HasTurn, CalmCaller, Newest, Types
  <2>6. HasTurn'
    BY <1>2, <1>3, <2>2, <2>5 DEF HasTurn
  <2>7. CalmCaller'
    BY <1>0, <1>2, <1>3, <2>2, <2>6 DEF CalmCaller, Quiet
  <2>8. CalmAnswers'
    BY <1>0, <1>2, <1>3, <1>5, <2>2 DEF CalmAnswers, CalmAnswer
  <2> QED
    BY <1>2, <1>3, <1>4, <2>3, <2>7, <2>8 DEF CalmState
<1>8. CASE OnTurnCompleted
  <2>1. type = "completed" /\ wire[1].turn = Newest
    BY <1>0, <1>2, <1>8 DEF OnTurnCompleted, ReaderTakes, CalmWire
  <2>2. ~StartComing
    BY <1>0, <1>2, <2>1 DEF CalmWire, StartComing, On, Types
  <2>3. EndComing /\ ~EndComing' /\ ~StartComing'
    BY <1>2, <2>1, <2>2 DEF EndComing, StartComing
  <2>4. busy /\ Running = {} /\ threadTurn = Newest
    BY <1>0, <2>2, <2>3 DEF CalmBusy
  <2>5. threadTurn' = 0 /\ busy' = FALSE
    BY <1>2, <1>8, <2>1, <2>4 DEF OnTurnCompleted
  <2>6. CalmBusy'
    BY <1>0, <1>3, <2>3, <2>4, <2>5 DEF CalmBusy
  <2>7. CalmAnswers'
    BY <1>0, <1>2, <1>3, <1>5, <1>8, <2>3 DEF CalmAnswers, CalmAnswer, OnTurnCompleted
  <2>8. CASE pc = "idle"
    <3>1. CalmCaller'
      BY <1>0, <1>2, <1>3, <2>3, <2>8 DEF CalmCaller
    <3> QED
      BY <1>2, <1>3, <1>4, <2>6, <2>7, <3>1 DEF CalmState
  <2>9. CASE pc # "idle"
    <3>1. HasTurn /\ active = Newest
      BY <1>0, <1>2, <2>2, <2>4, <2>9 DEF CalmCaller, Quiet, CalmConnection, Places, Awaiting, HasTurn
    <3>2. turns[Newest].state = IF wire[1].ok THEN "ok" ELSE "failed"
      BY <1>2, <2>1 DEF EndsAreTrue
    <3>3. active' = Newest /\ done' /\ (turnError' <=> ~wire[1].ok)
      BY <1>2, <1>8, <2>1, <2>4, <3>1 DEF OnTurnCompleted, HasTurn
    <3>4. HasTurn'
      BY <1>2, <1>3, <2>3, <2>5, <3>1, <3>2, <3>3 DEF HasTurn
    <3>5. CalmCaller'
      BY <1>0, <1>2, <1>3, <2>4, <2>9, <3>4 DEF CalmCaller, Quiet
    <3> QED
      BY <1>2, <1>3, <1>4, <2>6, <2>7, <3>5 DEF CalmState
  <2> QED
    BY <2>8, <2>9
<1> QED
  BY <1>6, <1>7, <1>8 DEF Reader
-----------------------------------------------------------------------------
(* The calm scenes: what the server does.                                  *)

\* The newest turn ends, and the client will be told; a future may be answered
\* with it.
LEMMA EndKeepsCalm ==
  ASSUME Types, CalmState, OneFuture',
         NEW t \in Running, NEW state \in {"ok", "failed"}, EndTurn(t, state),
         NEW ms \in Seq(Messages), wire' = (IF conn = "open" THEN wire \o ms ELSE wire),
         \E i \in DOMAIN ms : ms[i].type = "completed",
         \A i \in DOMAIN ms : ms[i].type # "reply" => ms[i].type = "completed" /\ ms[i].turn = t,
         \A i, j \in DOMAIN ms : ms[i].type = ms[j].type => i = j,
         (\E i \in DOMAIN ms : ms[i].type = "reply") => pc = "interrupt",
         requests' \subseteq requests, StartPending' <=> StartPending,
         UNCHANGED <<conn, released, answer, active, done, turnError, threadTurn, busy>>,
         UNCHANGED <<pc, op, starting, calls, verdict>>
  PROVE  CalmState'
<1>0. /\ CalmConnection /\ CalmWire /\ CalmBusy /\ CalmCaller /\ CalmRequests /\ CalmAnswers /\ CalmVerdict
      /\ busy \in BOOLEAN /\ released \in BOOLEAN /\ done \in BOOLEAN /\ turnError \in BOOLEAN /\ starting \in BOOLEAN
      /\ pc \in Places /\ op \in Ops /\ conn \in {"none", "open", "closed"} /\ wire \in Seq(Messages)
  BY DEF CalmState, Types
<1>1. t = Newest /\ Running # {} /\ ~EndComing /\ (StartComing \/ busy)
  BY <1>0 DEF CalmBusy
<1>2. pc \notin {"idle", "connect", "resume", "read"} /\ HasTurn
  BY <1>0, <1>1 DEF CalmCaller, Quiet, CalmConnection, Places, Awaiting
<1>3. conn = "open" /\ wire' = wire \o ms
  BY <1>0, <1>2 DEF CalmConnection
<1>4. /\ Newest' = Newest /\ Running' = {}
      /\ \A u \in DOMAIN turns : u \in DOMAIN turns' /\ turns'[u].by = turns[u].by
      /\ \A u \in DOMAIN turns : u # t => turns'[u].state = turns[u].state
  BY <1>0, <1>1, TurnEnded DEF CalmBusy, Newest
<1>5. \A i \in DOMAIN wire' :
        \/ i \in DOMAIN wire /\ wire'[i] = wire[i] /\ wire[i].type # "completed"
        \/ i > Len(wire) /\ i - Len(wire) \in DOMAIN ms /\ wire'[i] = ms[i - Len(wire)]
  BY <1>0, <1>1, <1>3, Joined DEF EndComing, On
<1>6. /\ EndComing'
      /\ StartComing' <=> StartComing
  <2>1. /\ \A i \in DOMAIN wire : i \in DOMAIN wire' /\ wire'[i] = wire[i]
        /\ \A i \in DOMAIN ms : i + Len(wire) \in DOMAIN wire' /\ wire'[i + Len(wire)] = ms[i]
    BY <1>0, <1>3, Joined
  <2>2. EndComing'
    <3>1. PICK k \in DOMAIN ms : ms[k].type = "completed"
      OBVIOUS
    <3>2. k + Len(wire) \in DOMAIN wire' /\ wire'[k + Len(wire)].type = "completed"
      BY <2>1, <3>1
    <3> QED
      BY <3>2 DEF EndComing, On
  <2>3. StartComing => StartComing'
    BY <2>1 DEF StartComing, On
  <2>4. StartComing' => StartComing
    <3>1. \A i \in DOMAIN ms : ms[i].type # "started"
      OBVIOUS
    <3> QED
      BY <1>5, <3>1 DEF StartComing, On
  <2> QED
    BY <2>2, <2>3, <2>4
<1>7. CalmWire'
  <2>1. \A i \in DOMAIN wire' : wire'[i].type # "reply" => wire'[i].turn = Newest'
    BY <1>0, <1>1, <1>4, <1>5 DEF CalmWire
  <2>2. \A i, j \in DOMAIN wire' : wire'[i].type = wire'[j].type => i = j
    <3> SUFFICES ASSUME NEW i \in DOMAIN wire', NEW j \in DOMAIN wire', wire'[i].type = wire'[j].type
                 PROVE  i = j
      OBVIOUS
    <3>1. i \in Nat /\ j \in Nat /\ Len(wire) \in Nat
      <4>1. wire \o ms \in Seq(Messages)
        BY <1>0
      <4> QED
        BY <1>0, <1>3, <4>1
    <3>2. wire'[i].type # "reply" \/ i = j
      BY DEF OneFuture
    <3>3. (wire'[i].type # "reply" /\ i \in Nat /\ j \in Nat /\ Len(wire) \in Nat) \/ i = j
      BY <3>1, <3>2
    <3>4. CASE i \in DOMAIN wire /\ wire'[i] = wire[i] /\ wire[i].type # "completed"
      BY <1>0, <1>5, <3>3, <3>4 DEF CalmWire
    <3>5. CASE i - Len(wire) \in DOMAIN ms /\ wire'[i] = ms[i - Len(wire)]
      <4>1. i = j \/ (j - Len(wire) \in DOMAIN ms /\ wire'[j] = ms[j - Len(wire)])
        BY <1>5, <3>3, <3>5
      <4>2. i = j \/ i - Len(wire) = j - Len(wire)
        BY <3>5, <4>1
      <4> QED
        BY <3>3, <4>2
    <3> QED
      BY <1>5, <3>4, <3>5
  <2>3. \A i, j \in DOMAIN wire' : wire'[i].type = "started" /\ wire'[j].type = "completed" => i < j
    <3> SUFFICES ASSUME NEW i \in DOMAIN wire', NEW j \in DOMAIN wire',
                        wire'[i].type = "started", wire'[j].type = "completed"
                 PROVE  i < j
      OBVIOUS
    <3>1. i \in DOMAIN wire
      BY <1>5
    <3>2. j > Len(wire)
      BY <1>5
    <3> QED
      BY <1>0, <3>1, <3>2
  <2> QED
    BY <2>1, <2>2, <2>3 DEF CalmWire
<1>8. CalmBusy'
  BY <1>0, <1>1, <1>4, <1>6 DEF CalmBusy
<1>9. CalmCaller'
  <2>1. HasTurn'
    BY <1>1, <1>2, <1>4, <1>6 DEF HasTurn, Newest, Types
  <2> QED
    BY <1>0, <1>1, <1>2, <2>1 DEF CalmCaller, Quiet
<1>10. CalmRequests' /\ CalmConnection'
  BY <1>0, <1>2, <1>3, <1>4 DEF CalmRequests, CalmConnection
<1>11. CalmAnswers'
  <2>1. \A i \in DOMAIN wire' : CalmAnswer(wire[i])'
    BY <1>0, <1>2, <1>4, <1>5 DEF CalmAnswers, CalmAnswer
  <2>2. CalmAnswer(answer)'
    BY <1>0, <1>2, <1>4 DEF CalmAnswers, CalmAnswer
  <2>3. pc = "interrupt" => \A i, j \in DOMAIN wire' : wire'[i].type = "started" /\ wire'[j].type = "reply" => i < j
    <3> SUFFICES ASSUME pc = "interrupt", NEW i \in DOMAIN wire', NEW j \in DOMAIN wire',
                        wire'[i].type = "started", wire'[j].type = "reply"
                 PROVE  i < j
      OBVIOUS
    <3>1. i \in DOMAIN wire /\ wire[i].type = "started"
      BY <1>5
    <3> QED
      BY <1>0, <1>5, <3>1 DEF CalmAnswers
  <2> QED
    BY <1>0, <1>6, <2>1, <2>2, <2>3 DEF CalmAnswers
<1>12. CalmVerdict'
  BY <1>0, <1>2, <1>4 DEF CalmVerdict, CalmCaller, Places, Awaiting, CalmConnection
<1> QED
  BY <1>7, <1>8, <1>9, <1>10, <1>11, <1>12 DEF CalmState

\* A request is answered, and nothing else happens.
LEMMA AnswerKeepsCalm ==
  ASSUME Types, OneFuture, CalmState, OneFuture',
         NEW r \in requests, NEW ms \in Seq(Messages), NEW m \in Replies, Written(r, ms, m), OnlyAnswered(r, ms, m),
         requests' = requests \ {r},
         UNCHANGED <<conn, released, answer, active, done, turnError, threadTurn, busy>>,
         UNCHANGED <<pc, op, starting, calls, verdict>>
  PROVE  CalmState'
<1>0. /\ CalmConnection /\ CalmWire /\ CalmBusy /\ CalmCaller /\ CalmRequests /\ CalmAnswers /\ CalmVerdict
      /\ busy \in BOOLEAN /\ released \in BOOLEAN /\ done \in BOOLEAN /\ turnError \in BOOLEAN /\ starting \in BOOLEAN
      /\ pc \in Places /\ op \in Ops /\ conn \in {"none", "open", "closed"} /\ wire \in Seq(Messages)
  BY DEF CalmState, Types
<1>1. turns' = turns /\ Newest' = Newest /\ Running' = Running
  BY DEF OnlyAnswered, Newest, Running
<1>2. /\ r.live => pc = r.kind
      /\ r.live => ~On("reply") /\ answer = NoAnswer
  BY DEF OneFuture, Live
<1>3. r.kind # "start" /\ (StartPending' <=> StartPending)
  <2>1. r.kind = "start" => r.live /\ Running # {} /\ StartPending
    BY <1>0 DEF CalmRequests, OnlyAnswered, StartPending
  <2>2. r.kind # "start"
    BY <1>0, <1>2, <2>1 DEF CalmCaller, Quiet
  <2> QED
    BY <2>2 DEF StartPending
<1>4. \A i \in DOMAIN wire' :
        \/ i \in DOMAIN wire /\ wire'[i] = wire[i]
        \/ i > Len(wire) /\ wire'[i] = m /\ m.type = "reply" /\ r.live
  BY <1>0, Joined DEF Written, OnlyAnswered, Replies
<1>5. /\ StartComing' <=> StartComing
      /\ EndComing' <=> EndComing
  <2>1. \A i \in DOMAIN wire : i \in DOMAIN wire' /\ wire'[i] = wire[i]
    BY <1>0, Joined DEF Written
  <2> QED
    BY <1>4, <2>1 DEF StartComing, EndComing, On
<1>6. CalmWire'
  BY <1>0, <1>1, <1>4 DEF CalmWire, OneFuture
<1>7. CalmBusy' /\ CalmCaller' /\ CalmRequests' /\ CalmVerdict'
  BY <1>0, <1>1, <1>3, <1>5 DEF CalmBusy, CalmCaller, CalmRequests, CalmVerdict, Quiet, Fresh, HasTurn
<1>8. CalmConnection'
  <2>1. conn = "none" => wire' = wire
    BY DEF Written
  <2> QED
    BY <1>0, <2>1 DEF CalmConnection
<1>9. CalmAnswers'
  <2>1. r.live => CalmAnswer(m)
    <3>1. pc \in {"resume", "read"} => ~m.active
      BY <1>0 DEF CalmCaller, Quiet, Written
    <3>2. r.live /\ pc = "interrupt" => Running = {}
      BY <1>0, <1>2 DEF CalmRequests, OnlyAnswered, CalmBusy
    <3> QED
      BY <1>2, <1>3, <3>1, <3>2 DEF CalmAnswer
  <2>2. \A i \in DOMAIN wire' : CalmAnswer(wire[i])'
    BY <1>0, <1>1, <1>4, <2>1 DEF CalmAnswers, CalmAnswer
  <2>3. CalmAnswer(answer)'
    BY <1>0, <1>1 DEF CalmAnswers, CalmAnswer
  <2>4. pc = "interrupt" => \A i, j \in DOMAIN wire' : wire'[i].type = "started" /\ wire'[j].type = "reply" => i < j
    <3> SUFFICES ASSUME pc = "interrupt", NEW i \in DOMAIN wire', NEW j \in DOMAIN wire',
                        wire'[i].type = "started", wire'[j].type = "reply"
                 PROVE  i < j
      OBVIOUS
    <3>1. i \in DOMAIN wire /\ wire[i].type = "started" /\ i <= Len(wire) /\ i \in Nat
      BY <1>0, <1>4 DEF Replies
    <3>2. CASE j \in DOMAIN wire /\ wire'[j] = wire[j]
      BY <1>0, <3>1, <3>2 DEF CalmAnswers
    <3>3. CASE j > Len(wire)
      <4>1. j \in Nat /\ Len(wire) \in Nat
        BY <1>0, Joined DEF Written
      <4> QED
        BY <3>1, <3>3, <4>1
    <3> QED
      BY <1>4, <3>2, <3>3
  <2> QED
    BY <1>0, <1>5, <2>2, <2>3, <2>4 DEF CalmAnswers
<1> QED
  BY <1>6, <1>7, <1>8, <1>9 DEF CalmState
\* A turn/start is handled: what the call waits for is on its way.
LEMMA StartKeepsCalm ==
  ASSUME Types, OneFuture, CalmState,
         NEW r \in requests, NEW ms \in Seq(Messages), NEW m \in Replies, Written(r, ms, m), TurnMade(r, ms, m),
         requests' = requests \ {r},
         UNCHANGED <<conn, released, answer, active, done, turnError, threadTurn, busy>>,
         UNCHANGED <<pc, op, starting, calls, verdict>>
  PROVE  CalmState'
<1>0. /\ CalmConnection /\ CalmWire /\ CalmBusy /\ CalmCaller /\ CalmRequests /\ CalmAnswers /\ CalmVerdict
      /\ busy \in BOOLEAN /\ released \in BOOLEAN /\ done \in BOOLEAN /\ turnError \in BOOLEAN /\ starting \in BOOLEAN
      /\ conn \in {"none", "open", "closed"} /\ wire \in Seq(Messages) /\ Len(turns) \in Nat /\ calls \in Nat
  BY DEF CalmState, Types
<1>1. r.kind = "start" /\ r.live
  BY <1>0 DEF TurnMade, CalmRequests
<1>2. /\ pc = "start" /\ r.for = calls /\ answer = NoAnswer /\ ~On("reply")
      /\ \A q \in requests' : ~q.live
  BY <1>1 DEF OneFuture, Live
<1>3. Quiet /\ Fresh /\ starting /\ op = "turn" /\ conn = "open"
  BY <1>0, <1>1, <1>2 DEF CalmCaller, StartPending, CalmConnection
<1>4. DOMAIN wire = {}
  <2>1. \A i \in DOMAIN wire : wire[i].type \in {"reply", "started", "completed"}
    BY <1>0 DEF Messages, Replies, Starts, Ends
  <2> QED
    BY <1>2, <1>3, <2>1 DEF Quiet, StartComing, EndComing, On
<1>5. wire' = ms
  <2>1. wire = <<>>
    BY <1>0, <1>4
  <2> QED
    BY <1>3, <2>1 DEF Written
<1>6. /\ Newest' = Newest + 1 /\ Newest \in Nat /\ turns'[Newest'] = [by |-> calls, state |-> "running"]
      /\ Running' = {Newest'}
  <2>1. NewTurn(calls)
    BY <1>2 DEF TurnMade
  <2> QED
    BY <1>0, <1>3, <2>1, TurnAdded DEF Quiet, Newest
<1>7. StartComing' /\ ~EndComing'
  BY <1>5 DEF StartComing, EndComing, On, TurnMade, Written, Replies
<1>8. CalmWire'
  BY <1>5, <1>6, <1>7 DEF CalmWire, EndComing, On, Written, TurnMade, Newest
<1>9. CalmBusy'
  BY <1>0, <1>3, <1>6, <1>7 DEF CalmBusy, Quiet
<1>10. CalmRequests' /\ ~StartPending'
  BY <1>0, <1>2 DEF CalmRequests, StartPending
<1>11. HasTurn'
  BY <1>2, <1>3, <1>6, <1>7 DEF HasTurn, Fresh
<1>12. CalmCaller'
  BY <1>2, <1>3, <1>10, <1>11 DEF CalmCaller
<1>13. CalmAnswers'
  <2>1. \A i \in DOMAIN wire' : wire'[i].type = "reply" => wire'[i].ok /\ wire'[i].turn = Newest'
    BY <1>5, <1>6 DEF Written, TurnMade, Newest
  <2>2. answer'.type # "reply"
    BY <1>2 DEF NoAnswer
  <2> QED
    BY <1>2, <2>1, <2>2 DEF CalmAnswers, CalmAnswer
<1>14. CalmConnection' /\ CalmVerdict'
  BY <1>0, <1>2, <1>3 DEF CalmConnection, CalmVerdict
<1> QED
  BY <1>8, <1>9, <1>10, <1>12, <1>13, <1>14 DEF CalmState

LEMMA ServerKeepsCalm == Types /\ OneFuture /\ Calm /\ CalmState /\ Server => CalmState'
<1> SUFFICES ASSUME Types, OneFuture, Calm, CalmState, Server PROVE CalmState'
  OBVIOUS
<1>0. OneFuture'
  BY ServerKeepsFuture
<1>1. ASSUME NEW r \in requests, ServerAnswers(r) PROVE CalmState'
  <2>1. PICK ms \in Seq(Messages), m \in Replies :
           /\ Written(r, ms, m)
           /\ OnlyAnswered(r, ms, m) \/ TurnMade(r, ms, m) \/ TurnInterrupted(r, ms, m)
    BY <1>1, ServerWrites
  <2>2. /\ requests' = requests \ {r}
        /\ UNCHANGED <<conn, released, answer, active, done, turnError, threadTurn, busy>>
        /\ UNCHANGED <<pc, op, starting, calls, verdict>>
    BY <1>1 DEF ServerAnswers, events, caller
  <2>3. CASE OnlyAnswered(r, ms, m)
    BY <1>0, <2>1, <2>2, <2>3, AnswerKeepsCalm
  <2>4. CASE TurnMade(r, ms, m)
    BY <2>1, <2>2, <2>4, StartKeepsCalm
  <2>5. CASE TurnInterrupted(r, ms, m)
    <3>1. r.for \in Running /\ EndTurn(r.for, "failed") /\ r.kind = "interrupt"
      BY <2>5 DEF TurnInterrupted
    <3>2. wire' = IF conn = "open" THEN wire \o ms ELSE wire
      BY <2>1 DEF Written
    <3>3. /\ \E i \in DOMAIN ms : ms[i].type = "completed"
          /\ \A i \in DOMAIN ms : ms[i].type # "reply" => ms[i].type = "completed" /\ ms[i].turn = r.for
          /\ \A i, j \in DOMAIN ms : ms[i].type = ms[j].type => i = j
      BY <2>1, <2>5 DEF TurnInterrupted, Written
    <3>4. (\E i \in DOMAIN ms : ms[i].type = "reply") => pc = "interrupt"
      BY <2>1, <3>1 DEF Written, OneFuture, Live
    <3>5. requests' \subseteq requests /\ (StartPending' <=> StartPending)
      BY <2>2, <3>1 DEF StartPending
    <3> DEFINE t == r.for
    <3> HIDE DEF t
    <3> QED
      BY <1>0, <2>2, <3>1, <3>2, <3>3, <3>4, <3>5, EndKeepsCalm DEF t
  <2> QED
    BY <2>1, <2>3, <2>4, <2>5
<1>2. ASSUME NEW t \in Running, NEW state \in {"ok", "failed"}, TurnEnds(t, state) PROVE CalmState'
  <2> DEFINE c  == [type |-> "completed", turn |-> t, ok |-> state = "ok"]
             ms == <<c>>
  <2>1. c \in Messages /\ c.type = "completed" /\ c.turn = t /\ Completed(t, state = "ok") = <<c>>
    BY DEF Messages, Ends, Completed, Running, Types
  <2> HIDE DEF c
  <2>2. ms \in Seq(Messages) /\ DOMAIN ms = {1} /\ ms[1] = c
    BY <2>1, Few
  <2>3. EndTurn(t, state) /\ wire' = IF conn = "open" THEN wire \o ms ELSE wire
    BY <1>2, <2>1 DEF TurnEnds, Write
  <2>4. /\ requests' \subseteq requests /\ (StartPending' <=> StartPending)
        /\ UNCHANGED <<conn, released, answer, active, done, turnError, threadTurn, busy>>
        /\ UNCHANGED <<pc, op, starting, calls, verdict>>
    BY <1>2 DEF TurnEnds, events, caller, StartPending
  <2> HIDE DEF ms
  <2>5. /\ \E i \in DOMAIN ms : ms[i].type = "completed"
        /\ \A i \in DOMAIN ms : ms[i].type # "reply" => ms[i].type = "completed" /\ ms[i].turn = t
        /\ \A i, j \in DOMAIN ms : ms[i].type = ms[j].type => i = j
        /\ (\E i \in DOMAIN ms : ms[i].type = "reply") => pc = "interrupt"
    BY <2>1, <2>2
  <2> QED
    BY <1>0, <2>2, <2>3, <2>4, <2>5, EndKeepsCalm
<1>3. ~ExternalTurnStarts /\ ~ConnectionDrops
  BY DEF ExternalTurnStarts, ConnectionDrops, Calm
<1> QED
  BY <1>1, <1>2, <1>3 DEF Server

\* The thread stays as the worker saw it, until the worker calls.
LEMMA StepKeepsLook ==
  ASSUME Types, OneFuture, CalmState, CalmLook, (CalmState)', Server \/ Reader \/ Caller, UNCHANGED looked
  PROVE  CalmLook'
<1> SUFFICES ASSUME looked, Quiet, pc = "idle" \/ op # "turn"
             PROVE  Quiet' /\ (pc' = "idle" \/ op' # "turn")
  BY DEF CalmLook
<1>1. /\ CalmCaller' /\ CalmBusy' /\ pc' \in Places \ {"stopping", "again"} /\ busy' \in BOOLEAN
      /\ CalmCaller /\ CalmAnswer(answer) /\ (answer # NoAnswer => answer.type = "reply")
  <2>1. Types'
    BY ServerKeepsTypes, ReaderKeepsTypes, CallerKeepsTypes
  <2> QED
    BY <2>1 DEF CalmState, CalmConnection, CalmAnswers, Types, Replies
<1>2. op' = op \/ op' # "turn"
  BY DEF Server, Reader, Caller, Proceeds, ServerAnswers, TurnEnds, ExternalTurnStarts, ConnectionDrops, OnReply,
         OnTurnStarted, OnTurnCompleted, ReaderTakes, CallRead, Release, UserInterrupts, Connect, TryAgain,
         StopProcess, Resumed, TurnStarted, TurnDone, Interrupted, ReadAnswered, ErrorAnswered, TurnOverruns,
         RequestFails, EnterAttempt, caller, events
<1>3. (pc' = "idle" \/ op' # "turn") /\ ~busy'
  <2>1. CASE Server
    <3>1. UNCHANGED <<events, caller>>
      BY <2>1 DEF Server, ServerAnswers, TurnEnds, ExternalTurnStarts, ConnectionDrops
    <3> QED
      BY <3>1 DEF Quiet, caller, events
  <2>2. CASE Reader
    <3>1. ~ReaderTakes("started")
      <4> SUFFICES ASSUME ReaderTakes("started") PROVE FALSE
        OBVIOUS
      <4>1. 1 \in DOMAIN wire /\ wire[1].type = "started"
        BY DEF ReaderTakes, Types
      <4> QED
        BY <4>1 DEF Quiet, StartComing, On
    <3>2. UNCHANGED caller
      BY <2>2 DEF Reader, OnReply, OnTurnStarted, OnTurnCompleted, ReaderTakes
    <3>3. CASE OnReply
      BY <3>2, <3>3 DEF OnReply, events, Quiet, caller
    <3>4. CASE OnTurnCompleted
      <4>1. busy' = FALSE \/ busy' = busy
        BY <3>4 DEF OnTurnCompleted
      <4> QED
        BY <3>2, <4>1 DEF Quiet, caller
    <3> QED
      BY <2>2, <3>1, <3>3, <3>4 DEF Reader, OnTurnStarted
  <2>3. CASE Resumed \/ ReadAnswered
    <3>1. pc \in {"resume", "read"} /\ answer.type = "reply" /\ busy' = answer.active
      BY <1>1, <2>3 DEF Resumed, ReadAnswered
    <3>2. ~answer.active
      BY <1>1, <3>1 DEF CalmAnswer
    <3>3. pc' = "idle" \/ op' # "turn"
      BY <1>2, <2>3, <3>1 DEF Resumed, ReadAnswered
    <3> QED
      BY <3>1, <3>2, <3>3
  <2>4. CASE Caller /\ ~(Resumed \/ ReadAnswered)
    <3>1. busy' = busy
      <4>1. CASE UNCHANGED busy
        BY <4>1
      <4>2. ~(Resumed \/ ReadAnswered) /\ Caller => UNCHANGED busy
        BY DEF Caller, Proceeds, CallRead, Release, UserInterrupts, Connect, TryAgain, StopProcess, TurnStarted,
               TurnDone, Interrupted, ErrorAnswered, TurnOverruns, RequestFails, events
      <4> QED
        BY <2>4, <4>1, <4>2
    <3>2. CASE pc = "idle"
      <4>1. CASE CallRead
        BY <4>1, <3>1 DEF CallRead, Quiet
      <4>2. CASE ~CallRead
        <5>1. UNCHANGED caller
          BY <2>4, <3>2, <4>2
          DEF Caller, Proceeds, Release, UserInterrupts, Connect, TryAgain, StopProcess, TurnStarted, TurnDone,
              Interrupted, ErrorAnswered, TurnOverruns, RequestFails, CannotGoOn, Awaiting
        <5> QED
          BY <3>1, <5>1 DEF Quiet, caller
      <4> QED
        BY <4>1, <4>2
    <3>3. CASE op # "turn"
      BY <1>2, <3>1, <3>3 DEF Quiet
    <3> QED
      BY <3>2, <3>3
  <2> QED
    BY <2>1, <2>2, <2>3, <2>4
<1> QED
  <2>1. CASE pc' \in {"connect", "resume", "read"}
    BY <1>1, <1>3, <2>1 DEF CalmCaller
  <2>2. CASE pc' = "idle"
    BY <1>1, <1>3, <2>2 DEF CalmCaller, CalmBusy, Quiet
  <2>3. CASE pc' \in {"start", "wait", "interrupt"}
    BY <1>1, <1>3, <2>3 DEF CalmCaller
  <2> QED
    BY <1>1, <2>1, <2>2, <2>3 DEF Places, Awaiting

LEMMA StepKeepsCalm == Types /\ OneFuture /\ EndsAreTrue /\ CalmInv /\ [Next]_vars => CalmInv'
<1> SUFFICES ASSUME Types, OneFuture, EndsAreTrue, CalmInv, [Next]_vars, Calm
             PROVE  (CalmState)' /\ CalmLook'
  BY DEF CalmInv, Calm, Next, vars
<1>0. CalmState /\ CalmLook
  BY DEF CalmInv
<1>1. CASE UNCHANGED client
  <2>1. (CalmState)' /\ (Quiet' <=> Quiet)
    BY <1>0, <1>1
    DEF client, server, events, caller, CalmState, CalmConnection, CalmWire, CalmBusy, CalmCaller, CalmRequests,
        CalmAnswers, CalmAnswer, CalmVerdict, Quiet, Fresh, HasTurn, StartPending, StartComing, EndComing, On, Running,
        Newest
  <2>2. UNCHANGED <<pc, op>>
    BY <1>1 DEF client, caller
  <2>3. CASE looked' = looked
    BY <1>0, <2>1, <2>2, <2>3 DEF CalmLook
  <2>4. CASE WorkerLooks
    <3>1. Quiet /\ (pc = "idle" \/ op # "turn")
      <4>1. CalmCaller /\ CalmBusy /\ ~busy /\ (pc = "idle" \/ op # "turn")
            /\ pc \in Places \ {"stopping", "again"}
        BY <1>0, <2>4 DEF WorkerLooks, CalmState, CalmConnection, Types
      <4>2. CASE pc \in {"connect", "resume", "read"}
        BY <4>1, <4>2 DEF CalmCaller
      <4>3. CASE pc = "idle"
        BY <4>1, <4>3 DEF CalmCaller, CalmBusy, Quiet
      <4>4. CASE pc \in {"start", "wait", "interrupt"}
        BY <4>1, <4>4 DEF CalmCaller
      <4> QED
        BY <4>1, <4>2, <4>3, <4>4 DEF Places, Awaiting
    <3> QED
      BY <2>1, <2>2, <3>1 DEF CalmLook
  <2>5. CASE CallTurn
    BY <2>1, <2>5 DEF CallTurn, CalmLook
  <2> QED
    BY <2>1, <2>3, <2>4, <2>5 DEF Next, Worker, vars
<1>2. CASE CallTurn
  <2>1. (CalmState)'
    BY <1>0, <1>2, CallerKeepsCalm
  <2> QED
    BY <1>2, <2>1 DEF CallTurn, CalmLook
<1>3. CASE (Server \/ Reader \/ Caller) /\ UNCHANGED looked
  <2>1. (CalmState)'
    BY <1>0, <1>3, ServerKeepsCalm, ReaderKeepsCalm, CallerKeepsCalm
  <2> QED
    BY <1>0, <1>3, <2>1, StepKeepsLook
<1> QED
  BY <1>1, <1>2, <1>3 DEF Next, Worker, WorkerLooks, vars

-----------------------------------------------------------------------------
(* Theorems.                                                               *)

Inv == Types /\ OneFuture /\ OwnInv /\ KnownTurns /\ EndsAreTrue /\ CalmInv

LEMMA Invariance == Spec => []Inv
<1>1. Init => Inv
  <2> SUFFICES ASSUME Init PROVE Inv
    OBVIOUS
  <2>1. Types
    BY InitTypes
  <2>2. DOMAIN wire = {} /\ DOMAIN turns = {} /\ requests = {} /\ Len(turns) = 0
    BY Empty DEF Init
  <2>3. Running = {} /\ ~On("reply") /\ ~StartComing /\ ~EndComing
    BY <2>2 DEF Running, On, StartComing, EndComing
  <2>4. OneFuture /\ OwnInv /\ KnownTurns /\ EndsAreTrue
    BY <2>2, <2>3 DEF Init, KnownTurns, Turns, OneFuture, Live, OwnInv, OwnAnswer, WaitsForOwnTurn, EndsAreTrue
  <2>5. CalmState
    BY <2>2, <2>3
    DEF Init, CalmState, CalmConnection, CalmWire, CalmBusy, CalmCaller, CalmRequests, CalmAnswers, CalmAnswer,
        CalmVerdict, NoAnswer
  <2>6. CalmLook
    BY DEF Init, CalmLook
  <2> QED
    BY <2>1, <2>4, <2>5, <2>6 DEF Inv, CalmInv
<1>2. Inv /\ [Next]_vars => Inv'
  BY StepKeepsTypes, StepKeepsFuture, StepKeepsOwn, StepKeepsKnown, StepKeepsEnds, StepKeepsCalm DEF Inv
<1> QED
  BY <1>1, <1>2, PTL DEF Spec

\* Every variable keeps its type, turns the client names are turns of the
\* thread, and an answer is only there for a caller that waits for one.
THEOREM Typing == Spec => []TypeOK
<1>1. Inv => TypeOK
  <2> SUFFICES ASSUME Inv PROVE TypeOK
    OBVIOUS
  <2>1. Types /\ OneFuture /\ KnownTurns
    BY DEF Inv
  <2>2. \A i \in DOMAIN wire : wire[i].type \in {"reply", "started", "completed"}
    BY <2>1 DEF Types, Messages, Replies, Starts, Ends
  <2>3. answer.type \in {"none", "reply"} /\ (answer.type = "reply" => pc \in Awaiting)
    BY <2>1 DEF Types, OneFuture, Replies, NoAnswer
  <2> QED
    BY <2>1, <2>2, <2>3 DEF TypeOK, Types, Turn, Requested, KnownTurns
<1> QED
  BY <1>1, Invariance, PTL

\* One future at a time (codex_client.py, _request; lan_service.py, _queued_lock):
\* whatever is lost or late, the request that is waited for, its answer on the
\* wire and its answer in the caller's hands are never two.
THEOREM OneAnswerAtATime == Spec => [](Types /\ OneFuture)
<1>1. Inv => Types /\ OneFuture
  BY DEF Inv
<1> QED
  BY <1>1, Invariance, PTL

\* run_turn_items waits for, and interrupts, a turn that this very call started
\* (_active_turn_id), in any scene: turns of other clients, drops, retries.
THEOREM OwnTurnOnly == Spec => []WaitsForOwnTurn
<1>1. Inv => WaitsForOwnTurn
  BY DEF Inv, OwnInv
<1> QED
  BY <1>1, Invariance, PTL

\* What run_turn_items reports of a turn is what became of a turn the call
\* started (_on_notification, _turn_error): always where only its turns are
\* around, and in any number of calls over a connection that holds.
THEOREM VerdictsTrue == Spec => []VerdictIsTrue
<1>1. Inv => VerdictIsTrue
  <2> SUFFICES ASSUME Inv,
                      scene.faults \subseteq {"overrun", "refusal"} \/ \A t \in DOMAIN turns : turns[t].by = calls,
                      pc = "idle", verdict \in {"ok", "failed"}
               PROVE  \E t \in DOMAIN turns : turns[t].by = calls /\ turns[t].state = verdict
    BY DEF VerdictIsTrue
  <2>1. CASE Calm
    BY <2>1 DEF Inv, CalmInv, CalmState, CalmVerdict
  <2>2. CASE \A t \in DOMAIN turns : turns[t].by = calls
    BY <2>2 DEF Inv, EndsAreTrue, SomeEnded
  <2> QED
    BY <2>1, <2>2 DEF Calm
<1> QED
  BY <1>1, Invariance, PTL

\* Where the program is the only client of the thread, its connection holds and
\* no answer is given up: once all that the server wrote is handled and no call
\* is in progress, thread_busy is true exactly while a turn runs
\* (_apply_thread_status, _on_notification).
THEOREM BusyTrue == Spec => []BusyIsTrue
<1>1. Inv => BusyIsTrue
  <2> SUFFICES ASSUME Inv, Calm, pc = "idle", wire = <<>> PROVE busy <=> Running # {}
    BY DEF BusyIsTrue, Calm
  <2>1. CalmBusy /\ CalmCaller
    BY DEF Inv, CalmInv, CalmState
  <2>2. ~StartComing /\ ~EndComing
    BY Empty DEF StartComing, EndComing, On
  <2> QED
    BY <2>1, <2>2 DEF CalmBusy
<1> QED
  BY <1>1, Invariance, PTL
=============================================================================
