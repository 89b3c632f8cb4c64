------------------------------ MODULE Instance ------------------------------
(***************************************************************************)
(* Share processes from run() to their end (lan_main.py): the lock of one  *)
(* instance per configuration, the Codex App Server that a Share starts or *)
(* finds (lan_app_server.py), the record of what it started and the forced *)
(* close by the desktop console that relies on it (share_instance.py,      *)
(* external_share.py), and the key that signs logins (auth_tokens.py).     *)
(*                                                                         *)
(* A process is its pid with its creation time, as everywhere in the code. *)
(* The command "codex" is a wrapper whose child is the App Server proper.  *)
(***************************************************************************)
EXTENDS Integers, FiniteSets

CONSTANTS
  Configs,      \* configurations, each in a directory of its own
  MaxShares,    \* Share processes ever started
  Passwords,
  MaxLogins     \* logins ever issued

ASSUME InstanceAssumption == MaxShares \in Nat \ {0} /\ MaxLogins \in Nat /\ IsFiniteSet(Configs)

Shares  == 1..MaxShares
Outside == -1          \* an App Server that no Share started
Nobody  == 0

VARIABLES
  share,      \* share[i]: run() of the i-th Share process
  app,        \* app[i]: the wrapper and the App Server that share i started
  port,       \* whose App Server listens on the port of App Servers
  lock,       \* lock[c]: who holds runtime/lan/server.lock
  record,     \* record[c]: runtime/lan/instance.json
  saved,      \* saved[c]: runtime/lan/auth.json
  keys,       \* how many keys were ever drawn
  logins,     \* credentials in browsers, with whether they ought to be valid
  force,      \* a forced close that the user has confirmed
  taken       \* <<a, i>>: share i, or its forced close, ended App Server a of another

vars == <<share, app, port, lock, record, saved, keys, logins, force, taken>>

NoShare  == [at |-> "none", config |-> "none", password |-> "none", key |-> 0, reused |-> FALSE, owned |-> {}]
NoRecord == [owner |-> Nobody, reused |-> FALSE, apps |-> {}]
NoForce  == [at |-> "idle", target |-> Nobody, children |-> {}]

Alive(i) == share[i].at \notin {"none", "gone"}
Cfg(i)   == share[i].config

At(i, here, there) == share[i].at = here /\ share' = [share EXCEPT ![i].at = there]

\* The processes of app server i that run.
Tree(i) == {p \in {"wrapper", "server"} : app[i][p]}

\* Of a Share that has ended only its lock matters, which is free.
Ended(i) ==
  /\ share' = [share EXCEPT ![i] = [NoShare EXCEPT !.at = "gone"]]
  /\ lock' = [c \in Configs |-> IF lock[c] = i THEN Nobody ELSE lock[c]]

----------------------------------------------------------------------------
(* run().                                                                  *)

\* The configuration, with whatever password it has by now, is read and the hub
\* built before the lock is asked for.
Launch(i, c, w) ==
  /\ share[i].at = "none" /\ share[i - 1].at # "none"
  /\ share' = [share EXCEPT ![i] = [NoShare EXCEPT !.at = "built", !.config = c, !.password = w]]
  /\ UNCHANGED <<app, port, lock, record, saved, keys, logins, force, taken>>

\* Operators named Bad... are slips of the code that the properties must notice;
\* no action or property uses them.

\* A lock that any number of processes can have.
BadEnter(i) ==
  /\ At(i, "built", "locked") /\ lock' = [lock EXCEPT ![Cfg(i)] = i]
  /\ UNCHANGED <<app, port, record, saved, keys, logins, force, taken>>

\* SingleInstanceLock.__enter__()
Enter(i) ==
  /\ share[i].at = "built"
  /\ IF lock[Cfg(i)] = Nobody
     THEN At(i, "built", "locked") /\ lock' = [lock EXCEPT ![Cfg(i)] = i]
     ELSE Ended(i)
  /\ UNCHANGED <<app, port, record, saved, keys, logins, force, taken>>

BadKept(i) == saved[Cfg(i)].key # 0

\* The saved key still belongs to this password.
Kept(i) == saved[Cfg(i)].key # 0 /\ saved[Cfg(i)].password = share[i].password

\* AuthTokens.__init__(): a new key for a new password.
OpenTokens(i) ==
  /\ share[i].at = "locked"
  /\ IF Kept(i)
     THEN /\ share' = [share EXCEPT ![i].at = "open", ![i].key = saved[Cfg(i)].key]
          /\ UNCHANGED <<saved, keys>>
     ELSE /\ keys' = keys + 1
          /\ share' = [share EXCEPT ![i].at = "open", ![i].key = keys']
          /\ saved' = [saved EXCEPT ![Cfg(i)] = [key |-> keys', password |-> share[i].password]]
  /\ logins' = {[l EXCEPT !.good = @ /\ (l.config = Cfg(i) => l.password = share[i].password)] : l \in logins}
  /\ UNCHANGED <<app, port, lock, record, force, taken>>

\* AppServerHost.start() up to the port: what answers there is used.
Probe(i) ==
  /\ share[i].at = "open"
  /\ IF port = Nobody
     THEN share' = [share EXCEPT ![i].at = "spawn"]
     ELSE share' \in {[share EXCEPT ![i].at = "up", ![i].reused = TRUE], [share EXCEPT ![i].at = "closing"]}
  /\ UNCHANGED <<app, port, lock, record, saved, keys, logins, force, taken>>

Spawn(i) ==
  /\ At(i, "spawn", "waiting")
  /\ app' = [app EXCEPT ![i].wrapper = TRUE]
  /\ UNCHANGED <<port, lock, record, saved, keys, logins, force, taken>>

\* The port is open, whoever opened it: _capture_process_tree(), which has nothing
\* if the wrapper has just ended or may not be looked into.
Captured(i) ==
  /\ share[i].at = "waiting" /\ port # Nobody
  /\ \E owned \in {{}, IF app[i].wrapper THEN Tree(i) ELSE {}} :
       share' = [share EXCEPT ![i].at = "up", ![i].owned = owned]
  /\ UNCHANGED <<app, port, lock, record, saved, keys, logins, force, taken>>

\* write_instance(), which may fail and is then only logged; then hub.start()
\* and create_server().
Serve(i) ==
  /\ At(i, "up", "serving")
  /\ \/ record' = [record EXCEPT ![Cfg(i)] =
                     [owner |-> i, reused |-> share[i].reused,
                      apps |-> IF ~share[i].reused /\ "server" \in share[i].owned /\ Tree(i) = {"wrapper", "server"}
                               THEN {i} ELSE {}]]
     \/ UNCHANGED record
  /\ UNCHANGED <<app, port, lock, saved, keys, logins, force, taken>>

\* Asked to stop, interrupted, or refused anything: the finally clause begins
\* with remove_instance().
Leave(i) ==
  /\ share[i].at \in {"locked", "open", "spawn", "waiting", "up", "serving"}
  /\ share' = [share EXCEPT ![i].at = "closing"]
  /\ record' = [record EXCEPT ![Cfg(i)] = IF @.owner = i THEN NoRecord ELSE @]
  /\ UNCHANGED <<app, port, lock, saved, keys, logins, force, taken>>

\* The processes of app server i without those in ps, and the port they leave.
Without(i, ps) == /\ app' = [app EXCEPT ![i] = [p \in DOMAIN @ |-> @[p] /\ p \notin ps]]
                  /\ port' = IF port = i /\ "server" \in ps THEN Nobody ELSE port

\* What was captured, and the process it started itself.
Doomed(i) == share[i].owned \cup {"wrapper"}

\* AppServerHost.close(): what may not be ended, or outlives its kill, is left; a
\* wrapper ends with its child.
CloseApp(i) ==
  /\ share[i].at = "closing"
  /\ share' = [share EXCEPT ![i].at = "closed", ![i].owned = {}]
  /\ \E ps \in {{}, {"wrapper"}, Doomed(i)} : Without(i, ps)
  /\ UNCHANGED <<lock, record, saved, keys, logins, force, taken>>

Exit(i) ==
  /\ share[i].at = "closed" /\ Ended(i)
  /\ UNCHANGED <<app, port, record, saved, keys, logins, force, taken>>

----------------------------------------------------------------------------
(* Around it.                                                              *)

\* The wrapper starts the App Server, which listens or finds the port taken.
Child(i) ==
  /\ app[i].wrapper /\ ~app[i].server
  /\ app' = [app EXCEPT ![i].server = TRUE]
  /\ UNCHANGED <<share, port, lock, record, saved, keys, logins, force, taken>>

Listen(i) ==
  /\ app[i].server /\ port # i
  /\ IF port = Nobody THEN port' = i /\ UNCHANGED app ELSE Without(i, {"wrapper", "server"})
  /\ UNCHANGED <<share, lock, record, saved, keys, logins, force, taken>>

\* An App Server ends by itself, and its wrapper with it; or the wrapper before
\* it had a child.
AppEnds(i) ==
  /\ Tree(i) # {} /\ Without(i, {"wrapper", "server"})
  /\ UNCHANGED <<share, lock, record, saved, keys, logins, force, taken>>

OutsideEnds ==
  /\ port = Outside /\ port' = Nobody
  /\ UNCHANGED <<share, app, lock, record, saved, keys, logins, force, taken>>

\* The operating system, or an impatient user, ends a Share.
Killed(i) ==
  /\ Alive(i) /\ Ended(i)
  /\ UNCHANGED <<app, port, record, saved, keys, logins, force, taken>>

\* issue(), when a browser logs in at a Share.
Login(i) ==
  /\ share[i].at = "serving" /\ Cardinality(logins) < MaxLogins
  /\ logins' = logins \cup {[config |-> Cfg(i), key |-> share[i].key, password |-> share[i].password,
                               inTime |-> TRUE, good |-> TRUE]}
  /\ UNCHANGED <<share, app, port, lock, record, saved, keys, force, taken>>

\* The thirty days of a login are over, or the clock is set back.
Clock(l) ==
  /\ logins' = (logins \ {l}) \cup {[l EXCEPT !.inTime = ~@]}
  /\ UNCHANGED <<share, app, port, lock, record, saved, keys, force, taken>>

\* verify()
Verify(i, l) == l.inTime /\ l.key = share[i].key

----------------------------------------------------------------------------
(* force_close_share(), on a thread of the console.                        *)

BadVerified(i) == IF record[Cfg(i)].reused THEN {} ELSE record[Cfg(i)].apps

\* verified_app_servers(): the record is of this very Share, and what it lists
\* runs below it.
Verified(i) == LET r == record[Cfg(i)] IN
  IF r.owner = i /\ ~r.reused /\ \A a \in r.apps : app[a].server /\ app[a].wrapper /\ a = i THEN r.apps ELSE {}

Confirm(i) ==
  /\ force.at = "idle" /\ Alive(i)
  /\ force' = [at |-> "confirmed", target |-> i, children |-> {}]
  /\ UNCHANGED <<share, app, port, lock, record, saved, keys, logins, taken>>

ForceVerify ==
  /\ force.at = "confirmed"
  /\ force' = IF Alive(force.target) THEN [force EXCEPT !.at = "verified", !.children = Verified(force.target)]
              ELSE NoForce
  /\ UNCHANGED <<share, app, port, lock, record, saved, keys, logins, taken>>

ForceKill ==
  /\ force.at = "verified"
  /\ IF Alive(force.target)
     THEN Ended(force.target) /\ force' = [force EXCEPT !.at = "children"]
     ELSE force' = NoForce /\ UNCHANGED <<share, lock>>
  /\ UNCHANGED <<app, port, record, saved, keys, logins, taken>>

\* One child after the other; a wrapper ends with its child.
ForceChildren ==
  /\ force.at = "children"
  /\ IF \E a \in force.children : app[a].server
     THEN \E a \in force.children :
            /\ app[a].server /\ Without(a, {"wrapper", "server"})
            /\ taken' = taken \cup ({<<a, force.target>>} \ {<<a, a>>})
            /\ UNCHANGED force
     ELSE force' = NoForce /\ UNCHANGED <<app, port, taken>>
  /\ UNCHANGED <<share, lock, record, saved, keys, logins>>

----------------------------------------------------------------------------
\* What a first Share may have left behind when it was killed: its App Server,
\* its record, its key and a login; or there was none of them.
Init ==
  /\ share = [i \in Shares |-> [NoShare EXCEPT !.at = IF i = 1 THEN "gone" ELSE "none"]]
  /\ \E runs \in BOOLEAN : app = [i \in Shares |-> [p \in {"wrapper", "server"} |-> i = 1 /\ runs]]
  /\ port \in IF app[1].server THEN {1} ELSE {Nobody, Outside}
  /\ \E c \in Configs, w \in Passwords :
       /\ record \in {[d \in Configs |-> NoRecord],
                      [d \in Configs |-> IF d = c THEN [owner |-> 1, reused |-> FALSE, apps |-> {1}] ELSE NoRecord]}
       /\ saved = [d \in Configs |-> IF d = c THEN [key |-> 1, password |-> w] ELSE [key |-> 0, password |-> "none"]]
       /\ logins \in {{}, {[config |-> c, key |-> 1, password |-> w, inTime |-> TRUE, good |-> TRUE]}}
  /\ lock = [c \in Configs |-> Nobody]
  /\ keys = 1 /\ force = NoForce /\ taken = {}

Run(i) ==
  \/ \E c \in Configs, w \in Passwords : Launch(i, c, w)
  \/ Enter(i) \/ OpenTokens(i) \/ Probe(i) \/ Spawn(i) \/ Captured(i) \/ Serve(i)
  \/ Leave(i) \/ CloseApp(i) \/ Exit(i)

Around ==
  \/ \E i \in Shares : Child(i) \/ Listen(i) \/ AppEnds(i) \/ Killed(i) \/ Login(i) \/ Confirm(i)
  \/ \E l \in logins : Clock(l)
  \/ OutsideEnds \/ ForceVerify \/ ForceKill \/ ForceChildren

Next == (\E i \in Shares : Run(i)) \/ Around

Spec == Init /\ [][Next]_vars

----------------------------------------------------------------------------
(* Properties.                                                             *)

TypeOK ==
  /\ \A i \in Shares : share[i].config \in Configs \cup {"none"} /\ share[i].owned \subseteq {"wrapper", "server"}
  /\ port \in {Outside, Nobody} \cup Shares
  /\ lock \in [Configs -> {Nobody} \cup Shares]
  /\ \A c \in Configs : record[c].owner \in {Nobody} \cup Shares /\ record[c].apps \subseteq Shares
  /\ keys \in Nat

\* A Share that ends, or is closed by force, takes no App Server with it that
\* another one started, whatever the record in its directory was left saying:
\* one it found, one of a Share that crashed, one that another configuration
\* uses.  (DESKTOP.md:149)
OnlyItsOwn == taken = {}

\* The key with which a Share signs is the one that its directory keeps, under
\* the Share's own password, so that what it issues is accepted after it has
\* ended or crashed: no start of another Share of the same configuration, with
\* whatever password the file has by then, draws a new one meanwhile.
\* (auth_tokens.py:43)
KeyIsOnDisk ==
  \A i \in Shares : share[i].at \in {"open", "spawn", "waiting", "up", "serving"} =>
    saved[Cfg(i)] = [key |-> share[i].key, password |-> share[i].password]

\* For its thirty days a browser stays logged in across restarts, and is logged
\* out by exactly those starts that have another password; also when the old
\* password comes back, and whatever the clock does.
LoginsFollowThePassword ==
  \A i \in Shares : share[i].at = "serving" =>
    \A l \in logins : l.config = Cfg(i) => (Verify(i, l) <=> l.inTime /\ l.good)

============================================================================
