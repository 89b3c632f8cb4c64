-------------------------- MODULE MessageLifecycle --------------------------
(***************************************************************************)
(* What a shared session promises for the messages posted to it, whatever  *)
(* queue, worker thread and locks LanChatService uses to keep it:          *)
(*   - a message is accepted only while the bridge holds the session;      *)
(*   - accepted messages run one at a time, oldest first;                  *)
(*   - a message that has not begun may be withdrawn, and then never runs; *)
(*   - the session is given back only when nothing waits and nothing runs. *)
(***************************************************************************)
EXTENDS Naturals

CONSTANT Messages

VARIABLES
  status,   \* what has become of each message
  ticket,   \* the order in which messages were accepted; 0 before that
  clock,    \* the last ticket given out
  held      \* the bridge holds the session

vars == <<status, ticket, clock, held>>

Status == {"new", "waiting", "running", "ended", "withdrawn"}

With(s) == {m \in Messages : status[m] = s}

TypeOK ==
  /\ status \in [Messages -> Status]
  /\ ticket \in [Messages -> Nat]
  /\ clock \in Nat
  /\ held \in BOOLEAN

Init ==
  /\ status = [m \in Messages |-> "new"]
  /\ ticket = [m \in Messages |-> 0]
  /\ clock = 0
  /\ held = TRUE

Submit(m) ==
  /\ held
  /\ status[m] = "new"
  /\ status' = [status EXCEPT ![m] = "waiting"]
  /\ clock' = clock + 1
  /\ ticket' = [ticket EXCEPT ![m] = clock + 1]
  /\ UNCHANGED held

Withdraw(S) ==
  /\ S # {}
  /\ S \subseteq With("waiting")
  /\ status' = [m \in Messages |-> IF m \in S THEN "withdrawn" ELSE status[m]]
  /\ UNCHANGED <<ticket, clock, held>>

Begin(m) ==
  /\ status[m] = "waiting"
  /\ With("running") = {}
  /\ \A n \in With("waiting") : ticket[m] <= ticket[n]
  /\ status' = [status EXCEPT ![m] = "running"]
  /\ UNCHANGED <<ticket, clock, held>>

End(m) ==
  /\ status[m] = "running"
  /\ status' = [status EXCEPT ![m] = "ended"]
  /\ UNCHANGED <<ticket, clock, held>>

Release ==
  /\ held
  /\ With("waiting") \cup With("running") = {}
  /\ held' = FALSE
  /\ UNCHANGED <<status, ticket, clock>>

Reacquire ==
  /\ ~held
  /\ held' = TRUE
  /\ UNCHANGED <<status, ticket, clock>>

Next ==
  \/ \E m \in Messages : Submit(m) \/ Begin(m) \/ End(m)
  \/ \E S \in SUBSET Messages : Withdraw(S)
  \/ Release
  \/ Reacquire

Spec == Init /\ [][Next]_vars
=============================================================================
