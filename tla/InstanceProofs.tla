--------------------------- MODULE InstanceProofs ---------------------------
(***************************************************************************)
(* Theorems about Instance, for any configurations, passwords and number   *)
(* of Share processes.  What a forced close ends is below the process it   *)
(* was confirmed for; and the lock of a configuration makes the Share that *)
(* has it the only one that draws a key for its directory.                 *)
(***************************************************************************)
EXTENDS Instance, TLAPS

Parts   == {"wrapper", "server"}
Serving == {"open", "spawn", "waiting", "up", "serving"}    \* with a key
Holding == Serving \cup {"locked", "closing", "closed"}     \* with the lock

ShareRecords ==
  [at : Holding \cup {"none", "built", "gone"}, config : Configs \cup {"none"},
   password : Passwords \cup {"none"}, key : Nat, reused : BOOLEAN, owned : SUBSET Parts]

ShareShapes ==
  /\ share \in [Shares -> ShareRecords]
  /\ \A i \in Shares : Alive(i) => Cfg(i) \in Configs /\ share[i].password \in Passwords

AppShapes ==
  /\ app \in [Shares -> [Parts -> BOOLEAN]]
  /\ port \in {Outside, Nobody} \cup Shares

FileShapes ==
  /\ lock \in [Configs -> {Nobody} \cup Shares]
  /\ record \in [Configs -> [owner : {Nobody} \cup Shares, reused : BOOLEAN, apps : SUBSET Shares]]
  /\ saved \in [Configs -> [key : Nat, password : Passwords \cup {"none"}]]
  /\ keys \in Nat
  /\ logins \subseteq [config : Configs, key : Nat, password : Passwords, inTime : BOOLEAN, good : BOOLEAN]

ForceShapes ==
  /\ force \in [at : {"idle", "confirmed", "verified", "children"}, target : {Nobody} \cup Shares,
                children : SUBSET Shares]
  /\ force.at # "idle" => force.target \in Shares

Shapes == ShareShapes /\ AppShapes /\ FileShapes /\ ForceShapes

\* The lock of a configuration is held by the one Share that has passed it.
LockHeld == \A i \in Shares : share[i].at \in Holding => lock[Cfg(i)] = i

\* A forced close has only children of the process it was confirmed for.
ForceOfTarget == force.children \subseteq {force.target} /\ taken = {}

\* A Share with a key has the key and the password that are saved; a login is
\* good exactly when its key is the one that is saved, and then its password is.
KeysMatch ==
  /\ \A i \in Shares : share[i].at \in Serving =>
       share[i].key = saved[Cfg(i)].key /\ share[i].password = saved[Cfg(i)].password /\ share[i].key # 0
  /\ \A c \in Configs : saved[c].key <= keys
  /\ \A l \in logins :
       /\ l.key <= keys /\ l.key # 0
       /\ l.good <=> l.key = saved[l.config].key
       /\ l.good => l.password = saved[l.config].password

IInv == Shapes /\ LockHeld /\ ForceOfTarget /\ KeysMatch

----------------------------------------------------------------------------
LEMMA SharesType == Shares \subseteq Nat \ {0} /\ Nobody \notin Shares /\ Outside \notin Shares
BY InstanceAssumption DEF Shares, Nobody, Outside

\* A Share that has ended leaves the lock, and is of no configuration.
LEMMA EndedKeepsShapes ==
  ASSUME Shapes, NEW i \in Shares, Ended(i)
  PROVE  ShareShapes' /\ lock' \in [Configs -> {Nobody} \cup Shares]
BY DEF Shapes, ShareShapes, FileShapes, ShareRecords, Ended, NoShare, Alive, Cfg

\* A step of a Share that keeps its configuration and its password.
LEMMA OwnStepKeepsShapes ==
  ASSUME ShareShapes, NEW i \in Shares, Alive(i), NEW r \in ShareRecords, share' = [share EXCEPT ![i] = r],
         r.config = Cfg(i), r.password = share[i].password
  PROVE  ShareShapes'
BY DEF ShareShapes, Alive, Cfg

LEMMA PlaceChangeKeepsShapes ==
  ASSUME ShareShapes, NEW i \in Shares, Alive(i), NEW there \in Holding, share' = [share EXCEPT ![i].at = there]
  PROVE  ShareShapes'
BY DEF ShareShapes, ShareRecords, Alive, Cfg

LEMMA CapturedKeepsShapes ==
  ASSUME ShareShapes, NEW i \in Shares, share[i].at \in {"waiting", "closing"}, NEW there \in {"up", "closed"},
         NEW owned \in SUBSET Parts, share' = [share EXCEPT ![i].at = there, ![i].owned = owned]
  PROVE  ShareShapes'
<1>1. share[i] \in ShareRecords /\ Alive(i)
  BY DEF ShareShapes, Alive
<1>2. PICK n : n = share'[i]
  OBVIOUS
<1>3. /\ n.at = there /\ n.config = Cfg(i) /\ n.password = share[i].password
      /\ n \in ShareRecords
  BY <1>1, <1>2 DEF ShareShapes, ShareRecords, Cfg, Holding, Serving
<1>4. share' = [share EXCEPT ![i] = n]
  BY <1>2 DEF ShareShapes
<1>. QED BY <1>1, <1>3, <1>4, OwnStepKeepsShapes

LEMMA WithoutKeepsShapes ==
  ASSUME AppShapes, NEW i \in Shares, NEW ps \in SUBSET Parts, Without(i, ps)
  PROVE  AppShapes'
BY DEF AppShapes, Without

LEMMA RunKeepsShapes ==
  ASSUME Shapes, NEW i \in Shares, Run(i)
  PROVE  Shapes'
<1> USE DEF Holding, Serving
<1>r. share[i] \in ShareRecords /\ ShareShapes /\ AppShapes /\ FileShapes /\ ForceShapes
  BY DEF Shapes, ShareShapes
<1>f. ForceShapes'
  BY <1>r DEF ForceShapes, Run, Launch, Enter, OpenTokens, Probe, Spawn, Captured, Serve, Leave, CloseApp, Exit
<1>1. ASSUME NEW c \in Configs, NEW w \in Passwords, Launch(i, c, w) PROVE Shapes'
  <2>1. ShareShapes'
    BY <1>r, <1>1 DEF Launch, ShareShapes, ShareRecords, NoShare, Alive, Cfg
  <2>. QED BY <1>r, <1>f, <1>1, <2>1 DEF Launch, Shapes, AppShapes, FileShapes
<1>2. CASE Enter(i)
  <2>1. ShareShapes' /\ lock' \in [Configs -> {Nobody} \cup Shares]
    <3>1. CASE lock[Cfg(i)] = Nobody
      BY <1>r, <1>2, <3>1, PlaceChangeKeepsShapes DEF Enter, At, FileShapes, Alive
    <3>2. CASE lock[Cfg(i)] # Nobody
      BY <1>2, <3>2, EndedKeepsShapes DEF Enter
    <3>. QED BY <3>1, <3>2
  <2>. QED BY <1>r, <1>f, <1>2, <2>1 DEF Enter, Shapes, AppShapes, FileShapes
<1>3. CASE OpenTokens(i)
  <2>1. Cfg(i) \in Configs /\ share[i].password \in Passwords /\ Alive(i)
    BY <1>r, <1>3 DEF OpenTokens, ShareShapes, Alive
  <2>2. saved' \in [Configs -> [key : Nat, password : Passwords \cup {"none"}]] /\ keys' \in Nat
    BY <1>r, <1>3, <2>1 DEF OpenTokens, FileShapes
  <2>3. ShareShapes'
    <3>0. saved[Cfg(i)].key \in Nat
      BY <1>r, <2>1 DEF FileShapes
    <3>1. PICK k \in Nat : share' = [share EXCEPT ![i].at = "open", ![i].key = k]
      <4>1. CASE Kept(i)
        BY <1>3, <3>0, <4>1 DEF OpenTokens
      <4>2. CASE ~Kept(i)
        BY <1>3, <2>2, <4>2 DEF OpenTokens
      <4>. QED BY <4>1, <4>2
    <3>. QED BY <1>r, <2>1, <3>1 DEF ShareShapes, ShareRecords, Alive, Cfg
  <2>4. logins' \subseteq [config : Configs, key : Nat, password : Passwords, inTime : BOOLEAN, good : BOOLEAN]
    <3>1. ASSUME NEW l \in logins
          PROVE  [l EXCEPT !.good = @ /\ (l.config = Cfg(i) => l.password = share[i].password)]
                   \in [config : Configs, key : Nat, password : Passwords, inTime : BOOLEAN, good : BOOLEAN]
      <4>1. l \in [config : Configs, key : Nat, password : Passwords, inTime : BOOLEAN, good : BOOLEAN]
        BY <1>r DEF FileShapes
      <4> DEFINE good == l.good /\ (l.config = Cfg(i) => l.password = share[i].password)
      <4>2. good \in BOOLEAN
        OBVIOUS
      <4>3. [l EXCEPT !.good = good] \in [config : Configs, key : Nat, password : Passwords, inTime : BOOLEAN, good : BOOLEAN]
        <5> HIDE DEF good
        <5>. QED BY <4>1, <4>2
      <4>. QED BY <4>3
    <3>. QED BY <1>3, <3>1 DEF OpenTokens
  <2>. QED BY <1>r, <1>f, <1>3, <2>2, <2>3, <2>4 DEF OpenTokens, Shapes, AppShapes, FileShapes
<1>4. CASE Probe(i)
  <2>1. ShareShapes'
    BY <1>r, <1>4 DEF Probe, ShareShapes, ShareRecords, Alive, Cfg
  <2>. QED BY <1>r, <1>f, <1>4, <2>1 DEF Probe, Shapes, AppShapes, FileShapes
<1>5. CASE Spawn(i)
  <2>1. ShareShapes'
    BY <1>r, <1>5, PlaceChangeKeepsShapes DEF Spawn, At, Alive
  <2>2. AppShapes'
    BY <1>r, <1>5 DEF Spawn, AppShapes, Parts
  <2>. QED BY <1>r, <1>f, <1>5, <2>1, <2>2 DEF Spawn, Shapes, FileShapes
<1>6. CASE Captured(i)
  <2>1. PICK owned \in SUBSET Parts : share' = [share EXCEPT ![i].at = "up", ![i].owned = owned]
    BY <1>6 DEF Captured, Tree, Parts
  <2>2. ShareShapes'
    BY <1>r, <1>6, <2>1, CapturedKeepsShapes DEF Captured
  <2>. QED BY <1>r, <1>f, <1>6, <2>2 DEF Captured, Shapes, AppShapes, FileShapes
<1>7. CASE Serve(i)
  <2>1. ShareShapes'
    BY <1>r, <1>7, PlaceChangeKeepsShapes DEF Serve, At, Alive
  <2>2. record' \in [Configs -> [owner : {Nobody} \cup Shares, reused : BOOLEAN, apps : SUBSET Shares]]
    BY <1>r, <1>7 DEF Serve, FileShapes, ShareRecords
  <2>. QED BY <1>r, <1>f, <1>7, <2>1, <2>2 DEF Serve, Shapes, AppShapes, FileShapes
<1>8. CASE Leave(i)
  <2>1. ShareShapes'
    BY <1>r, <1>8, PlaceChangeKeepsShapes DEF Leave, Alive
  <2>2. record' \in [Configs -> [owner : {Nobody} \cup Shares, reused : BOOLEAN, apps : SUBSET Shares]]
    BY <1>r, <1>8 DEF Leave, FileShapes, NoRecord
  <2>. QED BY <1>r, <1>f, <1>8, <2>1, <2>2 DEF Leave, Shapes, AppShapes, FileShapes
<1>9. CASE CloseApp(i)
  <2>1. AppShapes'
    <3>1. Doomed(i) \in SUBSET Parts /\ {} \in SUBSET Parts /\ {"wrapper"} \in SUBSET Parts
      BY <1>r DEF Doomed, Parts, ShareRecords
    <3>2. PICK ps \in SUBSET Parts : Without(i, ps)
      BY <1>9, <3>1 DEF CloseApp
    <3>. QED BY <1>r, <3>2, WithoutKeepsShapes
  <2>2. ShareShapes'
    <3>1. share[i].at \in {"waiting", "closing"} /\ share' = [share EXCEPT ![i].at = "closed", ![i].owned = {}]
      BY <1>9 DEF CloseApp
    <3>2. {} \in SUBSET Parts
      OBVIOUS
    <3>. QED BY <1>r, <3>1, <3>2, CapturedKeepsShapes
  <2>. QED BY <1>r, <1>f, <1>9, <2>1, <2>2 DEF CloseApp, Shapes, FileShapes
<1>10. CASE Exit(i)
  BY <1>r, <1>f, <1>10, EndedKeepsShapes DEF Exit, Shapes, AppShapes, FileShapes
<1>. QED BY <1>1, <1>2, <1>3, <1>4, <1>5, <1>6, <1>7, <1>8, <1>9, <1>10 DEF Run

LEMMA AroundKeepsShapes ==
  ASSUME Shapes, Around
  PROVE  Shapes'
<1>r. ShareShapes /\ AppShapes /\ FileShapes /\ ForceShapes
  BY DEF Shapes
<1>s. UNCHANGED share => ShareShapes'
  BY <1>r DEF ShareShapes, Alive, Cfg
<1>a. UNCHANGED <<app, port>> => AppShapes'
  BY <1>r DEF AppShapes
<1>f. UNCHANGED <<lock, record, saved, keys, logins>> => FileShapes'
  BY <1>r DEF FileShapes
<1>c. UNCHANGED force => ForceShapes'
  BY <1>r DEF ForceShapes
<1>1. ASSUME NEW i \in Shares, Child(i) PROVE Shapes'
  <2>1. AppShapes'
    BY <1>r, <1>1 DEF Child, AppShapes, Parts
  <2>. QED BY <1>1, <1>s, <1>f, <1>c, <2>1 DEF Child, Shapes
<1>2. ASSUME NEW i \in Shares, Listen(i) \/ AppEnds(i) PROVE Shapes'
  <2>1. CASE Without(i, Parts)
    BY <1>2, <1>r, <1>s, <1>f, <1>c, <2>1, WithoutKeepsShapes DEF Listen, AppEnds, Shapes
  <2>2. CASE port' = i /\ UNCHANGED app
    BY <1>2, <1>r, <1>s, <1>f, <1>c, <2>2 DEF Listen, AppEnds, Shapes, AppShapes
  <2>. QED BY <1>2, <2>1, <2>2 DEF Listen, AppEnds, Parts
<1>3. ASSUME NEW i \in Shares, Killed(i) PROVE Shapes'
  BY <1>3, <1>r, <1>a, <1>c, EndedKeepsShapes DEF Killed, Shapes, FileShapes
<1>4. ASSUME NEW i \in Shares, Login(i) PROVE Shapes'
  <2>1. [config |-> Cfg(i), key |-> share[i].key, password |-> share[i].password, inTime |-> TRUE, good |-> TRUE]
          \in [config : Configs, key : Nat, password : Passwords, inTime : BOOLEAN, good : BOOLEAN]
    BY <1>4, <1>r DEF Login, ShareShapes, ShareRecords, Alive, Cfg
  <2>2. FileShapes'
    BY <1>4, <1>r, <2>1 DEF Login, FileShapes
  <2>. QED BY <1>4, <1>s, <1>a, <1>c, <2>2 DEF Login, Shapes
<1>10. ASSUME NEW l \in logins, Clock(l) PROVE Shapes'
  <2> DEFINE n == [l EXCEPT !.inTime = ~@]
  <2>1. n \in [config : Configs, key : Nat, password : Passwords, inTime : BOOLEAN, good : BOOLEAN]
    BY <1>10, <1>r DEF FileShapes
  <2>2. FileShapes'
    <3>1. logins' = (logins \ {l}) \cup {n}
      BY <1>10 DEF Clock
    <3> HIDE DEF n
    <3>. QED BY <1>10, <1>r, <2>1, <3>1 DEF Clock, FileShapes
  <2>. QED BY <1>10, <1>s, <1>a, <1>c, <2>2 DEF Clock, Shapes
<1>5. ASSUME NEW i \in Shares, Confirm(i) PROVE Shapes'
  <2>1. ForceShapes'
    BY <1>5 DEF Confirm, ForceShapes
  <2>. QED BY <1>5, <1>s, <1>a, <1>f, <2>1 DEF Confirm, Shapes
<1>6. CASE OutsideEnds
  <2>1. AppShapes'
    BY <1>6, <1>r DEF OutsideEnds, AppShapes
  <2>. QED BY <1>6, <1>s, <1>f, <1>c, <2>1 DEF OutsideEnds, Shapes
<1>7. CASE ForceVerify
  <2>1. Alive(force.target) => Cfg(force.target) \in Configs /\ force.target \in Shares
    BY <1>7, <1>r DEF ForceVerify, ForceShapes, ShareShapes
  <2>2. Alive(force.target) => Verified(force.target) \in SUBSET Shares
    BY <2>1, <1>r DEF Verified, FileShapes
  <2>3. ForceShapes'
    BY <1>7, <1>r, <2>1, <2>2 DEF ForceVerify, ForceShapes, NoForce
  <2>. QED BY <1>7, <1>s, <1>a, <1>f, <2>3 DEF ForceVerify, Shapes
<1>8. CASE ForceKill
  <2>1. ForceShapes' /\ force.target \in Shares
    BY <1>8, <1>r DEF ForceKill, ForceShapes, NoForce
  <2>2. CASE Ended(force.target)
    BY <1>8, <1>r, <1>a, <2>1, <2>2, EndedKeepsShapes DEF ForceKill, Shapes, FileShapes
  <2>3. CASE UNCHANGED <<share, lock>>
    BY <1>8, <1>r, <1>s, <1>a, <1>f, <2>1, <2>3 DEF ForceKill, Shapes
  <2>. QED BY <1>8, <2>2, <2>3 DEF ForceKill
<1>9. CASE ForceChildren
  <2>1. ForceShapes'
    BY <1>9, <1>r DEF ForceChildren, ForceShapes, NoForce
  <2>2. AppShapes'
    <3>1. ASSUME NEW a \in force.children, Without(a, Parts) PROVE AppShapes'
      BY <1>r, <3>1, WithoutKeepsShapes DEF ForceShapes
    <3>. QED BY <1>9, <1>a, <3>1 DEF ForceChildren, Parts
  <2>. QED BY <1>9, <1>s, <1>f, <2>1, <2>2 DEF ForceChildren, Shapes
<1>. QED BY <1>1, <1>2, <1>3, <1>4, <1>5, <1>6, <1>7, <1>8, <1>9, <1>10 DEF Around

----------------------------------------------------------------------------
(* Each invariant in turn.                                                 *)

\* Only a Share that found the lock free passes it, and only its end gives it up.
LEMMA StepKeepsLock == Shapes /\ LockHeld /\ [Next]_vars => LockHeld'
<1> SUFFICES ASSUME Shapes, LockHeld, [Next]_vars PROVE LockHeld'
  OBVIOUS
<1> USE DEF Holding, Serving
<1>r. ShareShapes /\ lock \in [Configs -> {Nobody} \cup Shares]
  BY DEF Shapes, FileShapes
<1>e. ASSUME NEW i \in Shares, Ended(i) PROVE LockHeld'
  BY <1>r, <1>e DEF Ended, LockHeld, ShareShapes, ShareRecords, NoShare, Alive, Cfg
<1>p. ASSUME NEW i \in Shares, NEW there, share' = [share EXCEPT ![i].at = there], UNCHANGED lock,
             share[i].at \in Holding
      PROVE  LockHeld'
  BY <1>r, <1>p DEF LockHeld, ShareShapes, ShareRecords, Cfg
<1>1. ASSUME NEW i \in Shares, NEW c \in Configs, NEW w \in Passwords, Launch(i, c, w) PROVE LockHeld'
  BY <1>r, <1>1 DEF Launch, LockHeld, ShareShapes, ShareRecords, NoShare, Cfg
<1>2. ASSUME NEW i \in Shares, Enter(i) PROVE LockHeld'
  <2>1. CASE lock[Cfg(i)] = Nobody
    <3>1. Cfg(i) \in Configs
      BY <1>r, <1>2 DEF Enter, ShareShapes, Alive
    <3>2. /\ \A j \in Shares : Cfg(j)' = Cfg(j) /\ (j # i => share'[j] = share[j])
          /\ lock' = [lock EXCEPT ![Cfg(i)] = i]
      BY <1>r, <1>2, <2>1 DEF Enter, At, ShareShapes, ShareRecords, Cfg
    <3>3. ASSUME NEW j \in Shares, j # i, share[j].at \in Holding PROVE lock'[Cfg(j)] = j
      <4>1. lock[Cfg(j)] = j /\ Cfg(j) # Cfg(i)
        BY <2>1, <3>3, SharesType DEF LockHeld
      <4>. QED BY <3>2, <4>1, <1>r
    <3>4. lock'[Cfg(i)] = i
      BY <1>r, <3>1, <3>2
    <3>. QED BY <3>2, <3>3, <3>4 DEF LockHeld
  <2>2. CASE lock[Cfg(i)] # Nobody
    BY <1>2, <1>e, <2>2 DEF Enter
  <2>. QED BY <2>1, <2>2
<1>3. ASSUME NEW i \in Shares, OpenTokens(i) \/ Probe(i) \/ Captured(i) \/ CloseApp(i) PROVE LockHeld'
  <2>1. /\ UNCHANGED lock /\ share[i].at \in Holding
        /\ \A j \in Shares : Cfg(j)' = Cfg(j) /\ (j # i => share'[j] = share[j])
    BY <1>r, <1>3 DEF OpenTokens, Probe, Captured, CloseApp, ShareShapes, ShareRecords, Cfg
  <2>. QED BY <2>1 DEF LockHeld
<1>4. ASSUME NEW i \in Shares, Spawn(i) \/ Serve(i) \/ Leave(i) PROVE LockHeld'
  BY <1>4, <1>p DEF Spawn, Serve, Leave, At
<1>5. ASSUME NEW i \in Shares, Exit(i) \/ Killed(i) PROVE LockHeld'
  BY <1>5, <1>e DEF Exit, Killed
<1>6. CASE ForceKill
  <2>1. force.target \in Shares
    BY <1>6 DEF ForceKill, Shapes, ForceShapes
  <2>. QED BY <1>6, <1>e, <2>1 DEF ForceKill, LockHeld, Cfg
<1>7. CASE UNCHANGED <<share, lock>>
  BY <1>7 DEF LockHeld, Cfg
<1>8. ASSUME NEW i \in Shares, Child(i) \/ Listen(i) \/ AppEnds(i) \/ Login(i) \/ Confirm(i) PROVE LockHeld'
  BY <1>7, <1>8 DEF Child, Listen, AppEnds, Login, Confirm
<1>9. CASE OutsideEnds \/ ForceVerify \/ ForceChildren \/ UNCHANGED vars \/ \E l \in logins : Clock(l)
  BY <1>7, <1>9 DEF OutsideEnds, ForceVerify, ForceChildren, vars, Clock
<1>. QED BY <1>1, <1>2, <1>3, <1>4, <1>5, <1>6, <1>8, <1>9 DEF Next, Run, Around

\* What is verified are children of the very process; and it stays the target.
LEMMA StepKeepsForce == Shapes /\ ForceOfTarget /\ [Next]_vars => ForceOfTarget'
<1> SUFFICES ASSUME Shapes, ForceOfTarget, [Next]_vars PROVE ForceOfTarget'
  OBVIOUS
<1>r. force.children \in SUBSET Shares /\ force \in [at : {"idle", "confirmed", "verified", "children"},
                                      target : {Nobody} \cup Shares, children : SUBSET Shares]
  BY DEF Shapes, ForceShapes
<1>1. CASE UNCHANGED <<force, taken>>
  BY <1>1 DEF ForceOfTarget
<1>2. ASSUME NEW i \in Shares, Run(i) PROVE ForceOfTarget'
  BY <1>1, <1>2 DEF Run, Launch, Enter, OpenTokens, Probe, Spawn, Captured, Serve, Leave, CloseApp, Exit
<1>3. ASSUME NEW i \in Shares, Child(i) \/ Listen(i) \/ AppEnds(i) \/ Killed(i) \/ Login(i) PROVE ForceOfTarget'
  BY <1>1, <1>3 DEF Child, Listen, AppEnds, Killed, Login
<1>4. ASSUME NEW i \in Shares, Confirm(i) PROVE ForceOfTarget'
  BY <1>4 DEF Confirm, ForceOfTarget
<1>5. CASE ForceVerify
  <2>1. Verified(force.target) \subseteq {force.target}
    BY DEF Verified
  <2>. QED BY <1>r, <1>5, <2>1 DEF ForceVerify, ForceOfTarget, NoForce
<1>6. CASE ForceKill
  BY <1>r, <1>6 DEF ForceKill, ForceOfTarget, NoForce
<1>7. CASE ForceChildren
  <2>1. ASSUME NEW a \in force.children PROVE {<<a, force.target>>} \ {<<a, a>>} = {}
    BY DEF ForceOfTarget
  <2>. QED BY <1>7, <2>1 DEF ForceChildren, ForceOfTarget, NoForce
<1>8. CASE OutsideEnds \/ UNCHANGED vars \/ \E l \in logins : Clock(l)
  BY <1>1, <1>8 DEF OutsideEnds, vars, Clock
<1>. QED BY <1>2, <1>3, <1>4, <1>5, <1>6, <1>7, <1>8 DEF Next, Around

\* A login is judged by the key that is saved for its configuration, and only a
\* Share with the lock changes it.
LoginMatches(l) ==
  /\ l.key <= keys /\ l.key # 0
  /\ l.good <=> l.key = saved[l.config].key
  /\ l.good => l.password = saved[l.config].password

LEMMA OpenKeepsKeys ==
  ASSUME Shapes, LockHeld, KeysMatch, NEW i \in Shares, OpenTokens(i)
  PROVE  KeysMatch'
<1>r. /\ share \in [Shares -> ShareRecords] /\ Cfg(i) \in Configs
      /\ saved \in [Configs -> [key : Nat, password : Passwords \cup {"none"}]]
      /\ keys \in Nat
      /\ logins \subseteq [config : Configs, key : Nat, password : Passwords, inTime : BOOLEAN, good : BOOLEAN]
      /\ share[i].at = "locked"
  BY DEF OpenTokens, Shapes, ShareShapes, FileShapes, Alive
<1>k. /\ \A c \in Configs : saved[c].key <= keys
      /\ \A l \in logins : LoginMatches(l)
  BY DEF KeysMatch, LoginMatches
<1>1. ASSUME NEW j \in Shares, j # i, share[j].at \in Serving PROVE Cfg(j) # Cfg(i)
  BY <1>r, <1>1 DEF LockHeld, Holding, Serving
<1>2. /\ \A j \in Shares : Cfg(j)' = Cfg(j) /\ share'[j].password = share[j].password
      /\ \A j \in Shares \ {i} : share'[j] = share[j]
  BY <1>r DEF OpenTokens, ShareRecords, Cfg
<1>3. CASE Kept(i)
  <2>1. /\ UNCHANGED <<saved, keys>> /\ saved[Cfg(i)].key # 0 /\ saved[Cfg(i)].password = share[i].password
        /\ share'[i].key = saved[Cfg(i)].key
    BY <1>3, <1>r DEF OpenTokens, Kept, ShareRecords
  <2>2. ASSUME NEW j \in Shares, share'[j].at \in Serving
        PROVE  /\ share'[j].key = saved'[Cfg(j)'].key /\ share'[j].password = saved'[Cfg(j)'].password
               /\ share'[j].key # 0
    <3>1. CASE j = i
      BY <1>2, <2>1, <3>1
    <3>2. CASE j # i
      BY <1>2, <2>1, <2>2, <3>2 DEF KeysMatch, Cfg
    <3>. QED BY <3>1, <3>2
  <2>3. ASSUME NEW l \in logins
        PROVE  LET n == [l EXCEPT !.good = @ /\ (l.config = Cfg(i) => l.password = share[i].password)]
               IN  n.key = l.key /\ n.config = l.config /\ n.password = l.password /\ (n.good <=> l.good)
    <3>1. l \in [config : Configs, key : Nat, password : Passwords, inTime : BOOLEAN, good : BOOLEAN] /\ LoginMatches(l)
      BY <1>r, <1>k
    <3>2. l.good /\ (l.config = Cfg(i) => l.password = share[i].password) <=> l.good
      BY <3>1, <2>1 DEF LoginMatches
    <3>. QED BY <3>1, <3>2
  <2>4. \A l \in logins' : LoginMatches(l)'
    <3>1. PICK f : f = [l \in logins |-> [l EXCEPT !.good = @ /\ (l.config = Cfg(i) => l.password = share[i].password)]]
      OBVIOUS
    <3>2. \A n \in logins' : \E l \in logins : n = f[l]
      BY <3>1 DEF OpenTokens
    <3>3. \A l \in logins : f[l].key = l.key /\ f[l].config = l.config /\ f[l].password = l.password /\ (f[l].good <=> l.good)
      BY <2>3, <3>1
    <3>. QED BY <1>k, <2>1, <3>2, <3>3 DEF LoginMatches
  <2>. QED BY <1>k, <2>1, <2>2, <2>4 DEF KeysMatch, LoginMatches
<1>4. CASE ~Kept(i)
  <2>1. /\ keys' = keys + 1 /\ share'[i].key = keys'
        /\ saved'[Cfg(i)].key = keys' /\ saved'[Cfg(i)].password = share[i].password
        /\ \A c \in Configs : c # Cfg(i) => saved'[c] = saved[c]
        /\ saved[Cfg(i)].key = 0 \/ saved[Cfg(i)].password # share[i].password
    BY <1>4, <1>r DEF OpenTokens, Kept, ShareRecords
  <2>2. ASSUME NEW j \in Shares, share'[j].at \in Serving
        PROVE  /\ share'[j].key = saved'[Cfg(j)'].key /\ share'[j].password = saved'[Cfg(j)'].password
               /\ share'[j].key # 0
    <3>1. CASE j = i
      BY <1>r, <1>2, <2>1, <3>1
    <3>2. CASE j # i
      <4>1. Cfg(j) # Cfg(i) /\ Cfg(j) \in Configs /\ share'[j] = share[j] /\ share[j].at \in Serving
        BY <1>1, <1>2, <2>2, <3>2 DEF Shapes, ShareShapes, Alive, Serving
      <4>. QED BY <1>2, <2>1, <4>1 DEF KeysMatch
    <3>. QED BY <3>1, <3>2
  <2>3. \A c \in Configs : saved'[c].key <= keys'
    BY <1>r, <1>k, <2>1
  <2>4. \A n \in logins' : LoginMatches(n)'
    <3>1. ASSUME NEW l \in logins,
                 NEW n, n = [l EXCEPT !.good = @ /\ (l.config = Cfg(i) => l.password = share[i].password)]
          PROVE  LoginMatches(n)'
      <4>1. l \in [config : Configs, key : Nat, password : Passwords, inTime : BOOLEAN, good : BOOLEAN] /\ LoginMatches(l)
        BY <1>r, <1>k
      <4>2. /\ n.key = l.key /\ n.config = l.config /\ n.password = l.password
            /\ n.good <=> l.good /\ (l.config = Cfg(i) => l.password = share[i].password)
        BY <3>1, <4>1
      <4>3. n.key <= keys /\ n.key # 0 /\ n.key # keys' /\ n.key <= keys'
        BY <1>r, <2>1, <4>1, <4>2 DEF LoginMatches
      <4>4. CASE l.config = Cfg(i)
        <5>1. ~n.good
          BY <2>1, <4>1, <4>2, <4>4 DEF LoginMatches
        <5>. QED BY <2>1, <4>2, <4>3, <4>4, <5>1 DEF LoginMatches
      <4>5. CASE l.config # Cfg(i)
        <5>1. saved'[n.config] = saved[l.config] /\ (n.good <=> l.good)
          BY <2>1, <4>1, <4>2, <4>5
        <5>. QED BY <4>1, <4>2, <4>3, <5>1 DEF LoginMatches
      <4>. QED BY <4>4, <4>5
    <3>. QED BY <3>1 DEF OpenTokens
  <2>. QED BY <2>2, <2>3, <2>4 DEF KeysMatch, LoginMatches
<1>. QED BY <1>3, <1>4

LEMMA StepKeepsKeys == Shapes /\ LockHeld /\ KeysMatch /\ [Next]_vars => KeysMatch'
<1> SUFFICES ASSUME Shapes, LockHeld, KeysMatch, [Next]_vars PROVE KeysMatch'
  OBVIOUS
<1>r. share \in [Shares -> ShareRecords]
  BY DEF Shapes, ShareShapes
<1>1. ASSUME UNCHANGED <<saved, keys, logins>>,
             \A j \in Shares : share'[j].at \in Serving =>
               /\ share[j].at \in Serving
               /\ Cfg(j)' = Cfg(j) /\ share'[j].key = share[j].key /\ share'[j].password = share[j].password
      PROVE  KeysMatch'
  BY <1>1 DEF KeysMatch
<1>2. ASSUME NEW i \in Shares, Ended(i), UNCHANGED <<saved, keys, logins>>
      PROVE  KeysMatch'
  BY <1>r, <1>1, <1>2 DEF Ended, ShareRecords, NoShare, Serving, Cfg
<1>3. CASE UNCHANGED <<share, saved, keys, logins>>
  BY <1>1, <1>3 DEF Cfg
<1>4. ASSUME NEW i \in Shares, NEW c \in Configs, NEW w \in Passwords, Launch(i, c, w) PROVE KeysMatch'
  BY <1>r, <1>1, <1>4 DEF Launch, ShareRecords, NoShare, Serving, Cfg
<1>5. ASSUME NEW i \in Shares, Enter(i) PROVE KeysMatch'
  <2>1. CASE lock[Cfg(i)] = Nobody
    BY <1>r, <1>1, <1>5, <2>1 DEF Enter, At, ShareRecords, Serving, Cfg
  <2>2. CASE lock[Cfg(i)] # Nobody
    BY <1>2, <1>5, <2>2 DEF Enter
  <2>. QED BY <2>1, <2>2
<1>6. ASSUME NEW i \in Shares, Probe(i) \/ Spawn(i) \/ Captured(i) \/ Serve(i) \/ Leave(i) \/ CloseApp(i)
      PROVE  KeysMatch'
  <2>1. UNCHANGED <<saved, keys, logins>> /\ share[i].at \in Serving \cup {"locked", "closing"}
        /\ (share'[i].at \in Serving => share[i].at \in Serving)
        /\ \A j \in Shares : Cfg(j)' = Cfg(j) /\ share'[j].key = share[j].key /\ share'[j].password = share[j].password
        /\ \A k \in Shares : k # i => share'[k].at = share[k].at
    BY <1>r, <1>6 DEF Probe, Spawn, Captured, Serve, Leave, CloseApp, At, ShareRecords, Serving, Cfg
  <2>2. ASSUME NEW j \in Shares, share'[j].at \in Serving PROVE share[j].at \in Serving
    BY <2>1, <2>2
  <2>. QED BY <1>1, <2>1, <2>2
<1>7. ASSUME NEW i \in Shares, Exit(i) \/ Killed(i) PROVE KeysMatch'
  BY <1>2, <1>7 DEF Exit, Killed
<1>8. ASSUME NEW i \in Shares, Child(i) \/ Listen(i) \/ AppEnds(i) \/ Confirm(i) PROVE KeysMatch'
  BY <1>3, <1>8 DEF Child, Listen, AppEnds, Confirm
<1>9. ASSUME NEW i \in Shares, Login(i) PROVE KeysMatch'
  <2> DEFINE l == [config |-> Cfg(i), key |-> share[i].key, password |-> share[i].password, inTime |-> TRUE, good |-> TRUE]
  <2>1. LoginMatches(l)
    <3>1. Cfg(i) \in Configs /\ share[i].at \in Serving
      BY <1>9 DEF Login, Shapes, ShareShapes, Alive, Serving
    <3>. QED BY <3>1 DEF KeysMatch, LoginMatches
  <2>2. UNCHANGED <<share, saved, keys>> /\ logins' = logins \cup {l}
    BY <1>9 DEF Login
  <2>. QED BY <2>1, <2>2 DEF KeysMatch, LoginMatches, Cfg
<1>12. ASSUME NEW l \in logins, Clock(l) PROVE KeysMatch'
  <2> DEFINE n == [l EXCEPT !.inTime = ~@]
  <2>1. LoginMatches(n)
    <3>1. LoginMatches(l) /\ l \in [config : Configs, key : Nat, password : Passwords, inTime : BOOLEAN, good : BOOLEAN]
      BY <1>12 DEF KeysMatch, LoginMatches, Shapes, FileShapes
    <3>2. n.config = l.config /\ n.key = l.key /\ n.password = l.password /\ n.good = l.good
      BY <3>1
    <3> HIDE DEF n
    <3>. QED BY <3>1, <3>2 DEF LoginMatches
  <2>2. UNCHANGED <<share, saved, keys>> /\ logins' = (logins \ {l}) \cup {n}
    BY <1>12 DEF Clock
  <2> HIDE DEF n
  <2>. QED BY <2>1, <2>2 DEF KeysMatch, LoginMatches, Cfg
<1>10. CASE ForceKill
  <2>1. force.target \in Shares
    BY <1>10 DEF ForceKill, Shapes, ForceShapes
  <2>. QED BY <1>10, <1>2, <1>3, <2>1 DEF ForceKill
<1>11. CASE OutsideEnds \/ ForceVerify \/ ForceChildren \/ UNCHANGED vars
  BY <1>3, <1>11 DEF OutsideEnds, ForceVerify, ForceChildren, vars
<1>. QED
  BY OpenKeepsKeys, <1>4, <1>5, <1>6, <1>7, <1>8, <1>9, <1>10, <1>11, <1>12 DEF Next, Run, Around

----------------------------------------------------------------------------
LEMMA InitHasIInv == Init => IInv
<1> SUFFICES ASSUME Init PROVE IInv
  OBVIOUS
<1>0. 1 \in Shares
  BY InstanceAssumption DEF Shares
<1>1. ShareShapes
  BY <1>0 DEF Init, ShareShapes, ShareRecords, NoShare, Alive, Cfg, Holding, Serving
<1>2. AppShapes
  <2>1. app \in [Shares -> [Parts -> BOOLEAN]]
    BY DEF Init, Parts
  <2>. QED BY <1>0, <2>1 DEF Init, AppShapes
<1>3. FileShapes
  <2>1. PICK c \in Configs, w \in Passwords :
          /\ record \in {[d \in Configs |-> NoRecord],
                         [d \in Configs |-> IF d = c THEN [owner |-> 1, reused |-> FALSE, apps |-> {1}] ELSE NoRecord]}
          /\ saved = [d \in Configs |-> IF d = c THEN [key |-> 1, password |-> w] ELSE [key |-> 0, password |-> "none"]]
          /\ logins \in {{}, {[config |-> c, key |-> 1, password |-> w, inTime |-> TRUE, good |-> TRUE]}}
    BY DEF Init
  <2>2. record \in [Configs -> [owner : {Nobody} \cup Shares, reused : BOOLEAN, apps : SUBSET Shares]]
    <3> DEFINE r(d) == IF d = c THEN [owner |-> 1, reused |-> FALSE, apps |-> {1}] ELSE NoRecord
    <3>1. \A d \in Configs : {NoRecord, r(d)} \subseteq [owner : {Nobody} \cup Shares, reused : BOOLEAN, apps : SUBSET Shares]
      BY <1>0 DEF NoRecord
    <3>2. record = [d \in Configs |-> NoRecord] \/ record = [d \in Configs |-> r(d)]
      BY <2>1
    <3> HIDE DEF r
    <3>. QED BY <3>1, <3>2
  <2>3. saved \in [Configs -> [key : Nat, password : Passwords \cup {"none"}]]
    <3> DEFINE k(d) == IF d = c THEN [key |-> 1, password |-> w] ELSE [key |-> 0, password |-> "none"]
    <3>1. \A d \in Configs : k(d) \in [key : Nat, password : Passwords \cup {"none"}]
      OBVIOUS
    <3>2. saved = [d \in Configs |-> k(d)]
      BY <2>1
    <3> HIDE DEF k
    <3>. QED BY <3>1, <3>2
  <2>4. logins \subseteq [config : Configs, key : Nat, password : Passwords, inTime : BOOLEAN, good : BOOLEAN]
    <3> DEFINE l == [config |-> c, key |-> 1, password |-> w, inTime |-> TRUE, good |-> TRUE]
    <3>1. l \in [config : Configs, key : Nat, password : Passwords, inTime : BOOLEAN, good : BOOLEAN]
      OBVIOUS
    <3>2. logins = {} \/ logins = {l}
      BY <2>1
    <3> HIDE DEF l
    <3>. QED BY <3>1, <3>2
  <2>. QED BY <2>2, <2>3, <2>4 DEF Init, FileShapes
<1>4. ForceShapes /\ ForceOfTarget
  BY DEF Init, ForceShapes, ForceOfTarget, NoForce
<1>5. LockHeld
  BY <1>0 DEF Init, LockHeld, NoShare, Holding, Serving
<1>6. KeysMatch
  BY <1>0 DEF Init, KeysMatch, NoShare, Serving
<1>. QED BY <1>1, <1>2, <1>3, <1>4, <1>5, <1>6 DEF IInv, Shapes

LEMMA StepKeepsIInv == IInv /\ [Next]_vars => IInv'
<1> SUFFICES ASSUME IInv, [Next]_vars PROVE IInv'
  OBVIOUS
<1>1. ASSUME UNCHANGED vars PROVE Shapes'
  <2>1. ShareShapes' /\ AppShapes'
    BY <1>1 DEF vars, IInv, Shapes, ShareShapes, AppShapes, Alive, Cfg
  <2>2. FileShapes' /\ ForceShapes'
    BY <1>1 DEF vars, IInv, Shapes, FileShapes, ForceShapes
  <2>. QED BY <2>1, <2>2 DEF Shapes
<1>2. Shapes'
  BY <1>1, RunKeepsShapes, AroundKeepsShapes DEF IInv, Next
<1>. QED BY <1>2, StepKeepsLock, StepKeepsForce, StepKeepsKeys DEF IInv

THEOREM Invariance == Spec => []IInv
BY InitHasIInv, StepKeepsIInv, PTL DEF Spec

\* The variables of the processes keep their types.
THEOREM Typing == Spec => []TypeOK
<1>1. IInv => TypeOK
  BY DEF IInv, Shapes, ShareShapes, AppShapes, FileShapes, ShareRecords, Parts, TypeOK
<1>. QED BY <1>1, Invariance, PTL

\* lan_main.py, force_close_share: however Shares end, crash or are closed by
\* force, on whatever record, none takes an App Server along that another started.
THEOREM NoOtherIsTaken == Spec => []OnlyItsOwn
<1>1. IInv => OnlyItsOwn
  BY DEF IInv, ForceOfTarget, OnlyItsOwn
<1>. QED BY <1>1, Invariance, PTL

\* AuthTokens under SingleInstanceLock: as long as a Share runs, its directory
\* keeps the key with which it signs, under its own password.
THEOREM KeyStaysOnDisk == Spec => []KeyIsOnDisk
<1>1. ASSUME IInv, NEW i \in Shares, share[i].at \in Serving
      PROVE  saved[Cfg(i)] = [key |-> share[i].key, password |-> share[i].password]
  <2>1. saved[Cfg(i)] \in [key : Nat, password : Passwords \cup {"none"}]
    BY <1>1 DEF IInv, Shapes, ShareShapes, FileShapes, Alive, Serving
  <2>. QED BY <1>1, <2>1 DEF IInv, KeysMatch
<1>2. IInv => KeyIsOnDisk
  BY <1>1 DEF KeyIsOnDisk, Serving
<1>. QED BY <1>2, Invariance, PTL

\* AuthTokens: whatever starts, ends and restarts with whatever passwords, a
\* serving Share accepts exactly the logins within their thirty days that no other
\* password has revoked.
THEOREM LoginsAreTrue == Spec => []LoginsFollowThePassword
<1>1. IInv => LoginsFollowThePassword
  BY DEF IInv, KeysMatch, LoginsFollowThePassword, Verify, Serving, Shapes, FileShapes
<1>. QED BY <1>1, Invariance, PTL
=============================================================================
