---------------------------- MODULE DesktopProofs ----------------------------
(***************************************************************************)
(* Theorems about the desktop program: about its window (Desktop), for any *)
(* services, instances outside, number of dialogs and of closes; and about *)
(* the process of each of its services (Supervision), for any number of    *)
(* starts and lines in the pipes; and about its configuration page         *)
(* (ConfigEditing), for any ports, entries, files of frpc and number of    *)
(* edits.  Closing the window abandons no service, what was reported       *)
(* closed is not shown again, what the console holds of a service was said *)
(* by its present supervisor, and a service it leaves behind is not told   *)
(* to stop.  No edit of a file is lost, nor any the user made on the page, *)
(* and a file that follows another agrees with it.                         *)
(***************************************************************************)
EXTENDS Desktop, Supervision, ConfigEditing, TLAPS, SequenceTheorems, WellFoundedInduction

-----------------------------------------------------------------------------
(* The window.  While a close is being chosen it is the only dialog, and   *)
(* nothing starts until it is answered: that is why the choice holds.      *)

Resting == \A s \in Services : starter[s] = "idle"

\* The service can do without the window.
Safe(s) == Running(s) => own[s].confirmed

ChoosingInv ==
  \A i \in DOMAIN dialogs : dialogs[i].kind = "close" =>
    Len(dialogs) = 1 /\ ~win.exiting /\ Resting

DetachingInv ==
  win.detaching =>
    /\ win.open /\ ~win.exiting /\ dialogs = <<>> /\ Resting
    /\ \A s \in Services : s \in win.todo \/ Safe(s)

Types == TypeOK /\ jobs \in [Services -> SUBSET Jobs]

WindowInv == Types /\ ChoosingInv /\ DetachingInv /\ NothingAbandoned

-----------------------------------------------------------------------------
(* The monitors.  What was ever found or confirmed is born; what a close   *)
(* has done is gone for good; a scan that counts began after the last      *)
(* close was over.                                                         *)

Unborn(s, i) == i \in unborn[s]

Known(s) ==
  /\ live[s] \cap unborn[s] = {}
  /\ ~Unborn(s, monitor[s].state)
  /\ \A j \in jobs[s] : ~Unborn(s, j.id)

\* ... also what is asked about in a dialog.
DialogsKnown(s) ==
  \A i \in DOMAIN dialogs :
    dialogs[i].kind = "outside" /\ dialogs[i].of = s => ~Unborn(s, dialogs[i].id)

\* A close is the only job of its generation while it goes on.
Ordered(s) ==
  /\ \A j \in jobs[s] :
       /\ j.gen <= monitor[s].gen
       /\ j.gen = monitor[s].gen => (j.kind = "close" <=> monitor[s].busy)
  /\ \A j, k \in jobs[s] :
       j.kind = "close" /\ k.kind = "close" /\ j.gen = k.gen => j = k

Gone(s) ==
  /\ reported[s] \cap (live[s] \cup unborn[s]) = {}
  /\ \A j \in jobs[s] : j.kind = "close" /\ j.done => j.id \notin live[s]
  /\ \A j \in jobs[s] : j.kind = "scan" /\ j.gen = monitor[s].gen => j.id \notin reported[s]
  /\ monitor[s].state \notin reported[s]

MonitorInv == \A s \in Services : Known(s) /\ DialogsKnown(s) /\ Ordered(s) /\ Gone(s)

-----------------------------------------------------------------------------
(* What the pieces of the handlers do.                                     *)

Windows  == [open : BOOLEAN, exiting : BOOLEAN, detaching : BOOLEAN, todo : SUBSET Services]
Owns     == [at : {"off", "on", "stopping", "late"}, confirmed : BOOLEAN]
Monitors == [state : Findings \cup {"checking"}, busy : BOOLEAN, scanning : BOOLEAN, gen : Nat]

LEMMA Answering ==
  ASSUME NEW T, NEW q \in Seq(T), q # <<>>
  PROVE  /\ Last(q) = q[Len(q)] /\ Last(q) \in T /\ Len(q) \in DOMAIN q
         /\ Front(q) \in Seq(T) /\ Len(Front(q)) = Len(q) - 1
         /\ \A i \in DOMAIN Front(q) : i \in DOMAIN q /\ Front(q)[i] = q[i]
<1>1. Len(q) \in Nat \ {0} /\ Len(q) \in DOMAIN q /\ q[Len(q)] \in T
  OBVIOUS
<1>2. /\ Front(q) \in Seq(T) /\ Len(Front(q)) = Len(q) - 1
      /\ \A i \in 1 .. Len(q) - 1 : Front(q)[i] = q[i]
  <2>1. PICK n \in Nat : n = Len(q) - 1
    BY <1>1
  <2>2. Front(q) = SubSeq(q, 1, n)
    BY <2>1 DEF Front
  <2>3. \A i \in 1 .. n : q[i] \in T
    BY <1>1, <2>1
  <2>4. /\ SubSeq(q, 1, n) \in Seq(T)
        /\ Len(SubSeq(q, 1, n)) = IF 1 <= n THEN n - 1 + 1 ELSE 0
        /\ \A i \in 1 .. n - 1 + 1 : SubSeq(q, 1, n)[i] = q[1 + i - 1]
    BY <2>1, <2>3, SubSeqProperties
  <2>5. n - 1 + 1 = n /\ (1 <= n \/ n = 0) /\ \A i \in 1 .. n : 1 + i - 1 = i
    BY <2>1
  <2> QED BY <2>1, <2>2, <2>4, <2>5
<1>3. DOMAIN Front(q) = 1 .. Len(q) - 1 /\ DOMAIN q = 1 .. Len(q)
  BY <1>2
<1>4. 1 .. Len(q) - 1 \subseteq 1 .. Len(q)
  BY <1>1
<1> QED
  BY <1>1, <1>2, <1>3, <1>4 DEF Last

LEMMA Opening ==
  ASSUME NEW T, NEW q \in Seq(T), NEW d \in T
  PROVE  /\ Append(q, d) \in Seq(T) /\ Len(Append(q, d)) = Len(q) + 1
         /\ \A i \in DOMAIN Append(q, d) : \/ i \in DOMAIN q /\ Append(q, d)[i] = q[i]
                                           \/ i = Len(q) + 1 /\ Append(q, d)[i] = d
OBVIOUS

LEMMA DialogFields ==
  ASSUME NEW d \in Dialogs
  PROVE  /\ d.kind \in {"close", "exit", "stop", "outside"}
         /\ d.kind = "stop" => d.of \in Services
         /\ d.kind = "outside" => d.of \in Services /\ d.id \in Instances \cup {"own"}
BY DEF Dialogs

LEMMA NewDialogs ==
  ASSUME TypeOK
  PROVE  /\ [kind |-> "close"] \in Dialogs /\ [kind |-> "exit"] \in Dialogs
         /\ \A s \in Services : [kind |-> "stop", of |-> s, force |-> own[s].at = "late"] \in Dialogs
         /\ \A s \in Services : monitor[s].state \in Instances \cup {"own"} =>
              [kind |-> "outside", of |-> s, id |-> monitor[s].state] \in Dialogs
BY DEF Dialogs

LEMMA ClosedWindow ==
  ASSUME NEW w \in Windows
  PROVE  /\ Closed(w) \in Windows
         /\ ~Closed(w).open /\ ~Closed(w).exiting /\ Closed(w).detaching = w.detaching
BY DEF Windows, Closed

\* The window closes in refresh() only when an exit was confirmed and all is over.
LEMMA RefreshedWindow ==
  ASSUME NEW w \in Windows, Refreshes(w)
  PROVE  /\ win' \in Windows /\ win'.detaching = w.detaching /\ win'.todo = w.todo
         /\ win'.exiting => w.exiting
         /\ \/ win'.open = w.open
            \/ ~win'.open /\ w.exiting /\ \A s \in Services : ~Running(s)' /\ starter'[s] = "idle"
<1>1. PICK calm \in BOOLEAN : calm = \A s \in Services : own'[s].at # "late"
  OBVIOUS
<1>2. PICK p : p = Patient(w)
  OBVIOUS
<1>3. p = [w EXCEPT !.exiting = @ /\ calm]
  BY <1>1, <1>2 DEF Patient
<1>4. p \in Windows /\ p.detaching = w.detaching /\ p.todo = w.todo /\ p.open = w.open /\ (p.exiting => w.exiting)
  BY <1>3 DEF Windows
<1>5. CASE win' = p
  BY <1>4, <1>5
<1>6. CASE win' = Closed(w) /\ p.exiting /\ Quiet' /\ ~Starting'
  <2>1. \A s \in Services : ~Running(s)' /\ starter'[s] = "idle"
    BY <1>6 DEF Quiet, Starting
  <2>2. Closed(w).todo = w.todo
    BY DEF Closed, Windows
  <2> QED BY <1>4, <1>6, <2>1, <2>2, ClosedWindow
<1> QED
  BY <1>2, <1>5, <1>6 DEF Refreshes

LEMMA RefreshedButtons ==
  ASSUME NEW w, Refreshes(w)
  PROVE  button' \in [Services -> BOOLEAN]
<1>1. \A s \in Services : Enabled(s)' \in BOOLEAN
  BY DEF Enabled
<1> QED
  BY <1>1 DEF Refreshes

\* The generation of a close is one of its own.
LEMMA Forcing ==
  ASSUME monitor \in [Services -> Monitors], NEW s \in Services
  PROVE  /\ ForcedMonitor(s) \in Monitors
         /\ ForcedMonitor(s).busy /\ ForcedMonitor(s).gen = monitor[s].gen + 1
         /\ ForcedMonitor(s).state = monitor[s].state
<1>1. PICK o \in Monitors : o = monitor[s]
  OBVIOUS
<1>2. PICK n : n = o.gen + 1
  OBVIOUS
<1>3. n \in Nat
  BY <1>1, <1>2 DEF Monitors
<1>4. ForcedMonitor(s) = [o EXCEPT !.gen = n, !.scanning = FALSE, !.busy = TRUE]
  BY <1>1, <1>2 DEF ForcedMonitor
<1>5. o.state \in Findings \cup {"checking"}
      /\ ForcedMonitor(s) = [state |-> o.state, busy |-> TRUE, scanning |-> FALSE, gen |-> n]
  BY <1>4 DEF Monitors
<1> QED
  BY <1>1, <1>2, <1>3, <1>5 DEF Monitors

\* scan() on the monitor m of s.
LEMMA ScannedMonitor ==
  ASSUME Types, NEW s \in Services, NEW m \in Monitors, NEW q \in SUBSET Jobs, Scans(s, m, q)
  PROVE  /\ monitor' \in [Services -> Monitors] /\ jobs' \in [Services -> SUBSET Jobs]
         /\ \A t \in Services \ {s} : monitor'[t] = monitor[t] /\ jobs'[t] = jobs[t]
         /\ monitor'[s].state = m.state /\ monitor'[s].busy = m.busy /\ monitor'[s].gen = m.gen
         /\ \/ jobs'[s] = q
            \/ jobs'[s] = q \cup {ScanJob(m)} /\ ~m.busy
<1>0. monitor \in [Services -> Monitors] /\ jobs \in [Services -> SUBSET Jobs]
  BY DEF Types, TypeOK, Monitors
<1>1. PICK n : n = Scanned(s, m)
  OBVIOUS
<1>2. n \in Monitors /\ n.state = m.state /\ n.busy = m.busy /\ n.gen = m.gen
  BY <1>1 DEF Scanned, Monitors
<1>3. ScanJob(m) \in Jobs
  BY DEF ScanJob, Jobs, Monitors, Findings
<1>4. PICK r : r = ScanJobs(s, m, q)
  OBVIOUS
<1>5. r \in SUBSET Jobs /\ (r = q \/ (r = q \cup {ScanJob(m)} /\ ~m.busy))
  BY <1>3, <1>4 DEF ScanJobs, Blocked
<1>6. monitor' = [monitor EXCEPT ![s] = n] /\ jobs' = [jobs EXCEPT ![s] = r]
  BY <1>1, <1>4 DEF Scans
<1> QED
  BY <1>0, <1>2, <1>5, <1>6

-----------------------------------------------------------------------------
(* Type correctness.                                                       *)

LEMMA TypesAre ==
  ASSUME Types
  PROVE  /\ win \in Windows /\ own \in [Services -> Owns] /\ monitor \in [Services -> Monitors]
         /\ dialogs \in Seq(Dialogs) /\ jobs \in [Services -> SUBSET Jobs]
BY DEF Types, TypeOK, Windows, Owns, Monitors

LEMMA InitTypes == Init => Types
<1> SUFFICES ASSUME Init PROVE Types
  OBVIOUS
<1>1. PICK scene \in Scenes : installed = scene.installed /\ unborn = scene.foreign
  BY DEF Init
<1>2. unborn \in [Services -> SUBSET Instances] /\ installed \subseteq Services
  <2>1. scene.foreign = [s \in Services |-> scene.foreign[s]] /\ scene.installed \subseteq Services
    BY DesktopAssumption
  <2>2. \A s \in Services : scene.foreign[s] \subseteq Instances
    BY DEF Instances
  <2> QED BY <1>1, <2>1, <2>2
<1>3. monitor \in [Services -> Monitors]
  BY DEF Init, Monitors, Findings
<1>4. spent \in [starts : SUBSET Services, closes : 0 .. MaxCloses]
  BY DesktopAssumption DEF Init
<1> QED
  BY <1>2, <1>3, <1>4 DEF Init, Types, TypeOK, Monitors

LEMMA StepKeepsTypes == Types /\ [Next]_vars => Types'
<1> SUFFICES ASSUME Types, [Next]_vars PROVE Types'
  OBVIOUS
<1>0. TypeOK /\ win \in Windows /\ own \in [Services -> Owns] /\ monitor \in [Services -> Monitors]
      /\ dialogs \in Seq(Dialogs) /\ jobs \in [Services -> SUBSET Jobs]
  BY TypesAre DEF Types
<1>a. ASSUME win' \in Windows, dialogs' \in Seq(Dialogs), components' \in {"idle", "busy", "cancelled"},
             button' \in [Services -> BOOLEAN], UNCHANGED <<installed, unborn, reported>>,
             own' \in [Services -> Owns], starter' \in [Services -> {"idle", "inspect", "spawn", "report"}],
             live' \in [Services -> SUBSET Instances],
             monitor' \in [Services -> Monitors], jobs' \in [Services -> SUBSET Jobs],
             spent' \in [starts : SUBSET Services, closes : 0 .. MaxCloses]
      PROVE  Types'
  BY <1>a DEF Types, TypeOK, Windows, Owns, Monitors
<1>1. CASE Refresh
  BY <1>0, <1>1, <1>a, RefreshedWindow, RefreshedButtons DEF Refresh, TypeOK
<1>2. ASSUME NEW s \in Services, Tick(s) PROVE Types'
  BY <1>0, <1>2, <1>a, ScannedMonitor DEF Tick, TypeOK
<1>3. CASE ComponentsBegin \/ ComponentsEnd
  BY <1>0, <1>3, <1>a DEF ComponentsBegin, ComponentsEnd, TypeOK
<1>4. CASE CloseCancelled
  BY <1>0, <1>4, <1>a, Answering DEF CloseCancelled, Answered, TypeOK
<1>5. CASE CloseAccepted
  <2>1. dialogs # <<>> /\ UNCHANGED <<components, button, installed, own, starter, live, unborn, monitor, jobs, reported, spent>>
    BY <1>5 DEF CloseAccepted
  <2>2. win' \in Windows /\ dialogs' \in Seq(Dialogs)
    <3>1. CASE win' = Closed(win) /\ Answered
      BY <1>0, <2>1, <3>1, ClosedWindow, Answering DEF Answered
    <3>2. CASE dialogs' = Append(Front(dialogs), [kind |-> "exit"]) /\ UNCHANGED win
      BY <1>0, <2>1, <3>2, NewDialogs, Answering
    <3> QED BY <1>5, <3>1, <3>2 DEF CloseAccepted
  <2> QED BY <1>0, <1>a, <2>1, <2>2 DEF TypeOK
<1>6. CASE CloseDetaches
  <2>1. win' \in Windows
    BY <1>0, <1>6 DEF CloseDetaches, Windows
  <2>2. dialogs' \in Seq(Dialogs)
    BY <1>0, <1>6, Answering DEF CloseDetaches, Answered
  <2> QED BY <1>0, <1>6, <1>a, <2>1, <2>2 DEF CloseDetaches, TypeOK
<1>7. CASE DetachFails \/ DetachFinished
  <2>1. CASE DetachFails
    BY <1>0, <1>a, <2>1 DEF DetachFails, Windows, TypeOK
  <2>2. CASE DetachFinished
    <3>1. [win EXCEPT !.detaching = FALSE] \in Windows
      BY <1>0 DEF Windows
    <3>2. win' \in Windows
      BY <2>2, <3>1, ClosedWindow DEF DetachFinished
    <3> QED BY <1>0, <1>a, <2>2, <3>2 DEF DetachFinished, TypeOK
  <2> QED BY <1>7, <2>1, <2>2
<1>8. ASSUME NEW yes \in BOOLEAN, StopAnswered(yes) PROVE Types'
  <2>1. PICK d : d = Last(dialogs)
    OBVIOUS
  <2>2. dialogs # <<>> /\ d \in Dialogs /\ d.kind = "stop" /\ dialogs' \in Seq(Dialogs)
    BY <1>0, <1>8, <2>1, Answering DEF StopAnswered, Answered
  <2>3. d.of \in Services
    BY <2>2, DialogFields
  <2>4. \/ own' = own
        \/ own' = [own EXCEPT ![d.of].at = "off"]
        \/ own' = [own EXCEPT ![d.of] = Stopped(@)]
    BY <1>8, <2>1 DEF StopAnswered
  <2>5. own' \in [Services -> Owns]
    BY <1>0, <2>3, <2>4 DEF Owns, Stopped
  <2> QED BY <1>0, <1>8, <1>a, <2>2, <2>5 DEF StopAnswered, TypeOK
<1>9. ASSUME NEW yes \in BOOLEAN, OutsideAnswered(yes) PROVE Types'
  <2>1. PICK d : d = Last(dialogs)
    OBVIOUS
  <2>2. dialogs # <<>> /\ d \in Dialogs /\ d.kind = "outside" /\ dialogs' \in Seq(Dialogs)
    BY <1>0, <1>9, <2>1, Answering DEF OutsideAnswered, Answered
  <2>3. d.of \in Services /\ d.id \in Instances \cup {"own"}
    BY <2>2, DialogFields
  <2>4. /\ monitor' \in [Services -> Monitors] /\ jobs' \in [Services -> SUBSET Jobs]
        /\ spent' \in [starts : SUBSET Services, closes : 0 .. MaxCloses]
    <3>1. CASE yes /\ Closable(d.of, d.id)
      <4>1. PICK m : m = ForcedMonitor(d.of)
        OBVIOUS
      <4>2. PICK j : j = [kind |-> "close", gen |-> m.gen, id |-> d.id, done |-> FALSE]
        OBVIOUS
      <4>3. m \in Monitors
        BY <1>0, <2>3, <4>1, Forcing
      <4>4. j \in Jobs
        BY <2>3, <4>2, <4>3 DEF Jobs, Findings, Monitors
      <4>5. /\ monitor' = [monitor EXCEPT ![d.of] = m] /\ jobs' = [jobs EXCEPT ![d.of] = @ \cup {j}]
            /\ spent.closes < MaxCloses /\ spent' = [spent EXCEPT !.closes = @ + 1]
        BY <1>9, <2>1, <3>1, <4>1, <4>2 DEF OutsideAnswered
      <4>6. spent' \in [starts : SUBSET Services, closes : 0 .. MaxCloses]
        <5>1. spent \in [starts : SUBSET Services, closes : 0 .. MaxCloses] /\ MaxCloses \in Nat
          BY <1>0, DesktopAssumption DEF TypeOK
        <5>2. PICK n : n = spent.closes
          OBVIOUS
        <5>3. n \in 0 .. MaxCloses /\ n < MaxCloses
          BY <4>5, <5>1, <5>2
        <5>4. n + 1 \in 0 .. MaxCloses
          BY <5>1, <5>3
        <5>5. spent' = [spent EXCEPT !.closes = n + 1]
          BY <4>5, <5>2
        <5> QED BY <5>1, <5>4, <5>5
      <4> QED BY <1>0, <2>3, <4>3, <4>4, <4>5, <4>6
    <3>2. CASE ~(yes /\ Closable(d.of, d.id))
      <4>1. \/ Scans(d.of, monitor[d.of], jobs[d.of])
            \/ UNCHANGED <<monitor, jobs>>
        BY <1>9, <2>1, <3>2 DEF OutsideAnswered
      <4>2. monitor[d.of] \in Monitors /\ jobs[d.of] \in SUBSET Jobs
        BY <1>0, <2>3
      <4>3. UNCHANGED spent
        BY <1>9, <2>1, <3>2 DEF OutsideAnswered
      <4> QED BY <1>0, <2>3, <4>1, <4>2, <4>3, ScannedMonitor DEF TypeOK
    <3> QED BY <3>1, <3>2
  <2>5. win' \in Windows /\ button' \in [Services -> BOOLEAN]
    BY <1>0, <1>9, RefreshedWindow, RefreshedButtons DEF OutsideAnswered
  <2> QED BY <1>0, <1>9, <1>a, <2>2, <2>4, <2>5 DEF OutsideAnswered, TypeOK
<1>10. ASSUME NEW yes \in BOOLEAN, ExitAnswered(yes) PROVE Types'
  <2>1. dialogs' \in Seq(Dialogs)
    BY <1>0, <1>10, Answering DEF ExitAnswered, Answered
  <2>2. CASE yes
    <3>1. PICK calm \in BOOLEAN : calm = \A s \in Services : own[s].at # "late"
      OBVIOUS
    <3>2. win' = [win EXCEPT !.exiting = calm]
      BY <1>10, <2>2, <3>1 DEF ExitAnswered
    <3>3. win' \in Windows
      BY <1>0, <3>2 DEF Windows
    <3>4. own' \in [Services -> Owns]
      <4>1. \A s \in Services : Stopped(own[s]) \in Owns
        BY <1>0 DEF Stopped, Owns
      <4> QED BY <1>10, <2>2, <4>1 DEF ExitAnswered
    <3> QED BY <1>0, <1>10, <1>a, <2>1, <2>2, <3>3, <3>4 DEF ExitAnswered, TypeOK
  <2>3. CASE ~yes
    BY <1>0, <1>10, <1>a, <2>1, <2>3 DEF ExitAnswered, TypeOK
  <2> QED BY <2>2, <2>3
<1>11. ASSUME NEW yes \in BOOLEAN, CloseEvent(yes) PROVE Types'
  <2>1. win' \in Windows /\ dialogs' \in Seq(Dialogs)
    <3>1. CASE Open([kind |-> "close"]) /\ UNCHANGED win
      BY <1>0, <3>1, NewDialogs DEF Open
    <3>2. CASE win' = Closed(win) /\ UNCHANGED dialogs
      BY <1>0, <3>2, ClosedWindow
    <3>3. CASE Open([kind |-> "exit"]) /\ UNCHANGED win
      BY <1>0, <3>3, NewDialogs DEF Open
    <3> QED BY <1>11, <3>1, <3>2, <3>3 DEF CloseEvent, StopAndExit
  <2> QED BY <1>0, <1>11, <1>a, <2>1 DEF CloseEvent, TypeOK
<1>12. ASSUME NEW s \in Services, Toggle(s) PROVE Types'
  <2>1. UNCHANGED <<components, installed, own, live, unborn, reported>>
    BY <1>12 DEF Toggle, Pressed
  <2>2. CASE /\ Open([kind |-> "stop", of |-> s, force |-> own[s].at = "late"])
             /\ UNCHANGED <<win, button, starter, monitor, jobs, spent>>
    BY <1>0, <1>a, <2>1, <2>2, NewDialogs DEF Open, TypeOK
  <2>3. CASE /\ monitor[s].state \in Instances \cup {"own"}
             /\ Open([kind |-> "outside", of |-> s, id |-> monitor[s].state])
             /\ UNCHANGED <<starter, monitor, jobs, spent>>
             /\ Refreshes(win)
    BY <1>0, <1>a, <2>1, <2>3, NewDialogs, RefreshedWindow, RefreshedButtons DEF Open, TypeOK
  <2>4. CASE Scans(s, monitor[s], jobs[s]) /\ UNCHANGED <<win, dialogs, button, starter, spent>>
    BY <1>0, <1>a, <2>1, <2>4, ScannedMonitor DEF TypeOK
  <2>5. CASE /\ starter' = [starter EXCEPT ![s] = "inspect"]
             /\ spent' = [spent EXCEPT !.starts = @ \cup {s}]
             /\ UNCHANGED <<dialogs, monitor, jobs>>
             /\ Refreshes(win)
    BY <1>0, <1>a, <2>1, <2>5, RefreshedWindow, RefreshedButtons DEF TypeOK
  <2> QED BY <1>12, <2>2, <2>3, <2>4, <2>5 DEF Toggle
<1>13. ASSUME NEW s \in Services, StarterInspects(s) \/ StarterSpawns(s) \/ StartFinished(s) PROVE Types'
  <2>1. CASE StarterInspects(s)
    BY <1>0, <1>a, <2>1 DEF StarterInspects, TypeOK
  <2>2. CASE StarterSpawns(s)
    <3>1. own' = own \/ own' = [own EXCEPT ![s] = [at |-> "on", confirmed |-> FALSE]]
      BY <2>2 DEF StarterSpawns
    <3>2. own' \in [Services -> Owns]
      <4>1. [at |-> "on", confirmed |-> FALSE] \in Owns
        BY DEF Owns
      <4> QED BY <1>0, <3>1, <4>1
    <3> QED BY <1>0, <1>a, <2>2, <3>2 DEF StarterSpawns, TypeOK
  <2>3. CASE StartFinished(s)
    <3>1. monitor' \in [Services -> Monitors] /\ jobs' \in [Services -> SUBSET Jobs]
      <4>1. CASE UNCHANGED <<monitor, jobs>>
        BY <1>0, <4>1
      <4>2. CASE /\ monitor' = [monitor EXCEPT ![s].scanning = TRUE]
                 /\ jobs' = [jobs EXCEPT ![s] = @ \cup {ScanJob(monitor[s])}]
        <5>1. ScanJob(monitor[s]) \in Jobs
          BY <1>0 DEF ScanJob, Jobs, Monitors, Findings
        <5>2. monitor' \in [Services -> Monitors]
          BY <1>0, <4>2 DEF Monitors
        <5> QED BY <1>0, <4>2, <5>1, <5>2
      <4> QED BY <2>3, <4>1, <4>2 DEF StartFinished
    <3>2. starter' \in [Services -> {"idle", "inspect", "spawn", "report"}]
      BY <1>0, <2>3 DEF StartFinished, TypeOK
    <3> QED BY <1>0, <1>a, <2>3, <3>1, <3>2 DEF StartFinished, TypeOK
  <2> QED BY <1>13, <2>1, <2>2, <2>3
<1>14. ASSUME NEW s \in Services, Detaches(s) PROVE Types'
  <2>1. win' \in Windows
    BY <1>0, <1>14 DEF Detaches, Windows
  <2>2. own' \in [Services -> Owns]
    <3>1. PICK o : o = [own[s] EXCEPT !.confirmed = TRUE]
      OBVIOUS
    <3>2. own[s] \in Owns
      BY <1>0
    <3>3. o \in Owns
      BY <3>1, <3>2 DEF Owns
    <3>4. own' = own \/ own' = [own EXCEPT ![s] = o]
      BY <1>14, <3>1 DEF Detaches
    <3> QED BY <1>0, <3>3, <3>4
  <2> QED BY <1>0, <1>14, <1>a, <2>1, <2>2 DEF Detaches, TypeOK
<1>15. ASSUME NEW s \in Services, OwnEnds(s) \/ OwnIsLate(s) PROVE Types'
  <2>1. own' \in [Services -> Owns]
    <3>1. own[s] \in Owns
      BY <1>0
    <3>2. CASE OwnEnds(s)
      <4>1. [at |-> "off", confirmed |-> FALSE] \in Owns
        BY DEF Owns
      <4> QED BY <1>0, <3>2, <4>1 DEF OwnEnds
    <3>3. CASE OwnIsLate(s)
      <4>1. [own[s] EXCEPT !.at = "late"] \in Owns
        BY <3>1 DEF Owns
      <4> QED BY <1>0, <3>3, <4>1 DEF OwnIsLate
    <3> QED BY <1>15, <3>2, <3>3
  <2> QED BY <1>0, <1>15, <1>a, <2>1 DEF OwnEnds, OwnIsLate, TypeOK
<1>16. ASSUME NEW s \in Services, NEW i \in Instances, Born(s, i) \/ Dies(s, i) PROVE Types'
  <2>1. live' \in [Services -> SUBSET Instances] /\ unborn' \in [Services -> SUBSET Instances]
    <3>1. live \in [Services -> SUBSET Instances] /\ unborn \in [Services -> SUBSET Instances]
      BY <1>0 DEF TypeOK
    <3>2. CASE Born(s, i)
      BY <3>1, <3>2 DEF Born
    <3>3. CASE Dies(s, i)
      BY <3>1, <3>3 DEF Dies
    <3> QED BY <1>16, <3>2, <3>3
  <2> QED BY <1>0, <1>16, <2>1 DEF Born, Dies, Types, TypeOK
<1>17. ASSUME NEW s \in Services, NEW j \in jobs[s], JobRuns(s, j) PROVE Types'
  <2>1. PICK id : Does(s, j, id) /\ (id \in Inspections(s) \/ id = j.id \/ id = "other")
    BY <1>17 DEF JobRuns
  <2>2. Inspections(s) \subseteq Findings
    <3>1. Candidates(s) \subseteq Findings
      BY <1>0 DEF Candidates, Findings, TypeOK
    <3> QED BY <3>1 DEF Inspections, Findings
  <2>3. j \in Jobs /\ id \in Findings
    BY <1>0, <2>1, <2>2 DEF Jobs, Findings
  <2>4. [j EXCEPT !.done = TRUE, !.id = id] \in Jobs
    BY <2>3 DEF Jobs
  <2>5. jobs' \in [Services -> SUBSET Jobs]
    BY <1>0, <2>1, <2>4 DEF Does
  <2>6. live' \in [Services -> SUBSET Instances]
    BY <1>0, <1>17 DEF JobRuns, TypeOK
  <2> QED BY <1>0, <1>17, <1>a, <2>5, <2>6 DEF JobRuns, TypeOK
<1>18. ASSUME NEW s \in Services, NEW j \in jobs[s], Finish(s, j) PROVE Types'
  <2>1. PICK rest : rest = jobs[s] \ {j}
    OBVIOUS
  <2>2. rest \in SUBSET Jobs /\ j.id \in Findings
    BY <1>0, <2>1 DEF Jobs
  <2>3. UNCHANGED <<dialogs, components, own, starter, installed, live, unborn, spent>>
    BY <1>18 DEF Finish
  <2>4. CASE jobs' = [jobs EXCEPT ![s] = rest] /\ UNCHANGED <<monitor, reported, win, button>>
    BY <1>0, <1>a, <2>2, <2>3, <2>4 DEF TypeOK
  <2>5. CASE /\ monitor' = [monitor EXCEPT ![s].scanning = FALSE, ![s].state = j.id]
             /\ jobs' = [jobs EXCEPT ![s] = rest]
             /\ UNCHANGED reported /\ Refreshes(win)
    <3>1. monitor' \in [Services -> Monitors]
      BY <1>0, <2>2, <2>5 DEF Monitors
    <3> QED BY <1>0, <1>a, <2>2, <2>3, <2>5, <3>1, RefreshedWindow, RefreshedButtons DEF TypeOK
  <2>6. CASE /\ Scans(s, [monitor[s] EXCEPT !.busy = FALSE, !.state = "checking"], rest)
             /\ reported' = [reported EXCEPT ![s] = @ \cup ({j.id} \cap Instances)]
             /\ Refreshes(win)
    <3>1. PICK m : m = [monitor[s] EXCEPT !.busy = FALSE, !.state = "checking"]
      OBVIOUS
    <3>2. m \in Monitors
      BY <1>0, <3>1 DEF Monitors
    <3>3. monitor' \in [Services -> Monitors] /\ jobs' \in [Services -> SUBSET Jobs]
      BY <2>2, <2>6, <3>1, <3>2, ScannedMonitor
    <3>4. reported' \in [Services -> SUBSET Instances]
      BY <1>0, <2>6 DEF TypeOK
    <3>5. win' \in Windows /\ button' \in [Services -> BOOLEAN]
      BY <1>0, <2>6, RefreshedWindow, RefreshedButtons
    <3> QED BY <1>0, <2>3, <3>3, <3>4, <3>5 DEF Types, TypeOK, Windows, Owns, Monitors
  <2> QED BY <1>18, <2>1, <2>4, <2>5, <2>6 DEF Finish
<1>19. CASE UNCHANGED vars
  BY <1>19 DEF vars, Types, TypeOK
<1> QED
  BY <1>1, <1>2, <1>3, <1>4, <1>5, <1>6, <1>7, <1>8, <1>9, <1>10, <1>11, <1>12, <1>13, <1>14, <1>15, <1>16,
     <1>17, <1>18, <1>19
  DEF Next

-----------------------------------------------------------------------------
(* The window closes only over services that can do without it.            *)

LEMMA InitWindowInv == Init => WindowInv
<1> SUFFICES ASSUME Init PROVE WindowInv
  OBVIOUS
<1>1. win.open /\ ~win.detaching /\ dialogs = <<>>
  BY DEF Init
<1> QED
  BY <1>1, InitTypes DEF WindowInv, ChoosingInv, DetachingInv, NothingAbandoned

\* A step that keeps the dialogs, the services and their starts.
LEMMA RefreshKeepsWindowInv ==
  ASSUME WindowInv, Types', UNCHANGED <<dialogs, own, starter>>, Refreshes(win) \/ UNCHANGED win
  PROVE  WindowInv'
<1>1. CASE UNCHANGED win
  BY <1>1 DEF WindowInv, ChoosingInv, DetachingInv, NothingAbandoned, Resting, Safe, Running
<1>2. CASE Refreshes(win)
  <2>1. /\ win'.detaching = win.detaching /\ win'.todo = win.todo /\ (win'.exiting => win.exiting)
        /\ \/ win'.open = win.open
           \/ ~win'.open /\ win.exiting /\ \A s \in Services : ~Running(s)' /\ starter'[s] = "idle"
    BY <1>2, RefreshedWindow, TypesAre DEF WindowInv
  <2>2. ChoosingInv'
    BY <2>1 DEF WindowInv, ChoosingInv, Resting
  <2>3. DetachingInv'
    BY <2>1 DEF WindowInv, DetachingInv, Resting, Safe, Running
  <2>4. NothingAbandoned'
    BY <2>1 DEF WindowInv, NothingAbandoned, Running
  <2> QED BY <2>2, <2>3, <2>4 DEF WindowInv
<1> QED
  BY <1>1, <1>2

\* A step of an open window that leaves no dialog and takes up nothing.
LEMMA StepKeepsWindowInv == WindowInv /\ [Next]_vars => WindowInv'
<1> SUFFICES ASSUME WindowInv, [Next]_vars PROVE WindowInv'
  OBVIOUS
<1>0. Types /\ Types' /\ win \in Windows /\ own \in [Services -> Owns] /\ dialogs \in Seq(Dialogs)
      /\ starter \in [Services -> {"idle", "inspect", "spawn", "report"}]
  BY StepKeepsTypes, TypesAre DEF WindowInv, Types, TypeOK
<1>i. ChoosingInv /\ DetachingInv /\ NothingAbandoned
  BY DEF WindowInv
<1>a. ASSUME ChoosingInv', DetachingInv', NothingAbandoned' PROVE WindowInv'
  BY <1>0, <1>a DEF WindowInv
<1>1. CASE Refresh
  BY <1>0, <1>1, RefreshKeepsWindowInv DEF Refresh
<1>2. ASSUME NEW s \in Services, Tick(s) PROVE WindowInv'
  BY <1>0, <1>2, RefreshKeepsWindowInv DEF Tick
<1>3. CASE ComponentsBegin \/ ComponentsEnd
  BY <1>0, <1>3, RefreshKeepsWindowInv DEF ComponentsBegin, ComponentsEnd
<1>d. ASSUME dialogs # <<>>, Answered
      PROVE  /\ Len(dialogs') < Len(dialogs) /\ Len(dialogs') \in Nat /\ Len(dialogs) \in Nat
             /\ \A i \in DOMAIN dialogs' : i \in DOMAIN dialogs /\ dialogs'[i] = dialogs[i]
             /\ Len(dialogs) = 1 => dialogs' = <<>>
             /\ Len(dialogs) \in DOMAIN dialogs /\ Last(dialogs) = dialogs[Len(dialogs)]
  <2>1. dialogs' \in Seq(Dialogs)
    BY <1>0 DEF Types, TypeOK
  <2>2. Len(dialogs') = Len(dialogs) - 1 /\ Len(dialogs') \in Nat /\ Len(dialogs) \in Nat
    BY <1>0, <1>d, <2>1, Answering DEF Answered
  <2>3. Len(dialogs) = 1 => dialogs' = <<>>
    BY <2>1, <2>2
  <2> QED BY <1>0, <1>d, <2>2, <2>3, Answering DEF Answered
<1>e. ASSUME dialogs # <<>>, Answered
      PROVE  \A i \in DOMAIN dialogs' : dialogs'[i].kind # "close"
  <2>1. ASSUME NEW i \in DOMAIN dialogs', dialogs'[i].kind = "close" PROVE FALSE
    <3>1. i \in DOMAIN dialogs /\ dialogs[i].kind = "close"
      BY <1>d, <1>e, <2>1
    <3>2. Len(dialogs) = 1
      BY <1>i, <3>1 DEF ChoosingInv
    <3>3. dialogs' = <<>>
      BY <1>d, <1>e, <3>2
    <3> QED BY <2>1, <3>3
  <2> QED BY <2>1
<1>f. ASSUME dialogs # <<>>, Last(dialogs).kind = "close", Answered
      PROVE  dialogs' = <<>> /\ ~win.exiting /\ Resting /\ ~win.detaching
  <2>1. Len(dialogs) \in DOMAIN dialogs /\ dialogs[Len(dialogs)].kind = "close"
    BY <1>d, <1>f
  <2>2. Len(dialogs) = 1 /\ ~win.exiting /\ Resting
    BY <1>i, <2>1 DEF ChoosingInv
  <2> QED BY <1>d, <1>f, <1>i, <2>2 DEF DetachingInv
<1>4. CASE CloseCancelled
  <2>1. dialogs # <<>> /\ Answered /\ UNCHANGED <<win, own, starter>> /\ Last(dialogs).kind = "close"
    BY <1>4 DEF CloseCancelled
  <2>2. dialogs' = <<>>
    BY <1>f, <2>1
  <2>3. ChoosingInv'
    BY <2>2 DEF ChoosingInv
  <2> QED BY <1>a, <1>i, <2>1, <2>2, <2>3 DEF DetachingInv, NothingAbandoned, Resting, Safe, Running
<1>5. CASE CloseAccepted
  <2>1. dialogs # <<>> /\ Last(dialogs).kind = "close" /\ UNCHANGED <<own, starter>>
    BY <1>5 DEF CloseAccepted
  <2>2. Resting /\ ~win.exiting /\ ~win.detaching /\ Len(dialogs) = 1
    <3>1. Len(dialogs) \in DOMAIN dialogs /\ dialogs[Len(dialogs)].kind = "close"
      BY <1>0, <2>1, Answering
    <3> QED BY <1>i, <2>1, <3>1 DEF ChoosingInv, DetachingInv
  <2>3. CASE Quiet /\ win' = Closed(win) /\ Answered
    <3>1. dialogs' = <<>>
      BY <1>f, <2>1, <2>3
    <3>2. ~win'.detaching
      BY <1>0, <2>2, <2>3, ClosedWindow
    <3>3. NothingAbandoned'
      BY <2>1, <2>2, <2>3 DEF NothingAbandoned, Quiet, Running, Resting
    <3> QED BY <1>a, <3>1, <3>2, <3>3 DEF ChoosingInv, DetachingInv
  <2>4. CASE UNCHANGED win /\ dialogs' = Append(Front(dialogs), [kind |-> "exit"])
    <3>1. PICK q : q = Front(dialogs)
      OBVIOUS
    <3>2. q \in Seq(Dialogs) /\ Len(q) = 0
      BY <1>0, <2>1, <2>2, <3>1, Answering
    <3>3. q = <<>>
      BY <3>2
    <3>4. dialogs' = <<[kind |-> "exit"]>>
      BY <2>4, <3>1, <3>3
    <3>5. ChoosingInv'
      BY <3>4 DEF ChoosingInv
    <3> QED BY <1>a, <1>i, <2>1, <2>2, <2>4, <3>5 DEF DetachingInv, NothingAbandoned, Running
  <2> QED BY <1>5, <2>3, <2>4 DEF CloseAccepted
<1>6. CASE CloseDetaches
  <2>1. dialogs' = <<>> /\ ~win.exiting /\ Resting /\ win.open
    BY <1>6, <1>f DEF CloseDetaches
  <2>2. win' = [win EXCEPT !.detaching = TRUE, !.todo = Services] /\ UNCHANGED <<own, starter>>
    BY <1>6 DEF CloseDetaches
  <2>3. win'.open /\ ~win'.exiting /\ win'.todo = Services
    BY <1>0, <2>1, <2>2 DEF Windows
  <2> QED BY <1>a, <2>1, <2>2, <2>3 DEF ChoosingInv, DetachingInv, NothingAbandoned, Resting
<1>7. CASE DetachFails \/ DetachFinished
  <2>1. win.detaching /\ UNCHANGED <<dialogs, own, starter>> /\ dialogs = <<>> /\ Resting
    BY <1>7, <1>i DEF DetachFails, DetachFinished, DetachingInv
  <2>2. ~win'.detaching
    <3>1. CASE DetachFails
      BY <1>0, <3>1 DEF DetachFails, Windows
    <3>2. CASE DetachFinished
      <4>1. PICK w : w = [win EXCEPT !.detaching = FALSE]
        OBVIOUS
      <4>2. w \in Windows /\ ~w.detaching
        BY <1>0, <4>1 DEF Windows
      <4>3. win' = Closed(w)
        BY <3>2, <4>1 DEF DetachFinished
      <4> QED BY <4>2, <4>3, ClosedWindow
    <3> QED BY <1>7, <3>1, <3>2
  <2>3. NothingAbandoned'
    <3>1. CASE DetachFails
      <4>1. win'.open
        BY <1>0, <1>i, <2>1, <3>1 DEF DetachFails, Windows, DetachingInv
      <4> QED BY <4>1 DEF NothingAbandoned
    <3>2. CASE DetachFinished
      <4>1. \A s \in Services : Safe(s)
        BY <1>i, <3>2 DEF DetachFinished, DetachingInv
      <4> QED BY <2>1, <4>1 DEF NothingAbandoned, Safe, Resting, Running
    <3> QED BY <1>7, <3>1, <3>2
  <2> QED BY <1>a, <2>1, <2>2, <2>3 DEF ChoosingInv, DetachingInv
<1>8. ASSUME NEW yes \in BOOLEAN, StopAnswered(yes) PROVE WindowInv'
  <2>1. dialogs # <<>> /\ win.open /\ Answered /\ UNCHANGED <<win, starter>>
    BY <1>8 DEF StopAnswered
  <2>2. ChoosingInv'
    BY <1>e, <2>1 DEF ChoosingInv
  <2> QED BY <1>a, <1>i, <2>1, <2>2 DEF DetachingInv, NothingAbandoned
<1>9. ASSUME NEW yes \in BOOLEAN, OutsideAnswered(yes) PROVE WindowInv'
  <2>1. dialogs # <<>> /\ win.open /\ Answered /\ UNCHANGED <<own, starter>> /\ Refreshes(win)
    BY <1>9 DEF OutsideAnswered
  <2>2. ChoosingInv'
    BY <1>e, <2>1 DEF ChoosingInv
  <2>3. /\ win'.detaching = win.detaching /\ ~win.detaching
        /\ \/ win'.open
           \/ \A s \in Services : ~Running(s)' /\ starter'[s] = "idle"
    BY <1>0, <1>i, <2>1, RefreshedWindow DEF DetachingInv
  <2>4. NothingAbandoned'
    BY <2>3 DEF NothingAbandoned, Running
  <2> QED BY <1>a, <2>2, <2>3, <2>4 DEF DetachingInv
<1>10. ASSUME NEW yes \in BOOLEAN, ExitAnswered(yes) PROVE WindowInv'
  <2>1. dialogs # <<>> /\ win.open /\ Answered
    BY <1>10 DEF ExitAnswered
  <2>2. ChoosingInv'
    BY <1>e, <2>1 DEF ChoosingInv
  <2>3. win'.open /\ ~win'.detaching
    <3>1. ~win.detaching
      BY <1>i, <2>1 DEF DetachingInv
    <3>2. win' = win \/ \E x : win' = [win EXCEPT !.exiting = x]
      BY <1>10 DEF ExitAnswered
    <3> QED BY <1>0, <2>1, <3>1, <3>2 DEF Windows
  <2> QED BY <1>a, <2>2, <2>3 DEF DetachingInv, NothingAbandoned
<1>11. ASSUME NEW yes \in BOOLEAN, CloseEvent(yes) PROVE WindowInv'
  <2>1. /\ win.open /\ ~win.exiting /\ ~win.detaching /\ ~Choosing /\ ~Starting
        /\ UNCHANGED <<own, starter>>
    BY <1>11 DEF CloseEvent, Declined
  <2>2. Resting
    BY <2>1 DEF Starting, Resting
  <2>3. \A i \in DOMAIN dialogs : dialogs[i].kind # "close"
    BY <2>1 DEF Choosing
  <2>4. CASE ~yes /\ Open([kind |-> "close"]) /\ UNCHANGED win
    <3>1. dialogs = <<>>
      BY <1>11, <2>4 DEF CloseEvent
    <3>2. dialogs' = <<[kind |-> "close"]>>
      BY <2>4, <3>1 DEF Open
    <3>3. Len(dialogs') = 1
      BY <3>2
    <3> QED BY <1>a, <2>1, <2>2, <2>4, <3>3 DEF ChoosingInv, DetachingInv, NothingAbandoned, Resting
  <2>5. CASE StopAndExit
    <3>1. CASE Quiet /\ win' = Closed(win) /\ UNCHANGED dialogs
      <4>1. ~win'.detaching
        BY <1>0, <2>1, <3>1, ClosedWindow
      <4>2. NothingAbandoned'
        BY <2>1, <2>2, <3>1 DEF NothingAbandoned, Quiet, Running, Resting
      <4> QED BY <1>a, <2>3, <3>1, <4>1, <4>2 DEF ChoosingInv, DetachingInv
    <3>2. CASE Open([kind |-> "exit"]) /\ UNCHANGED win
      <4>1. \A i \in DOMAIN dialogs' : dialogs'[i].kind # "close"
        <5>1. PICK d : d = [kind |-> "exit"]
          OBVIOUS
        <5>2. d \in Dialogs /\ d.kind # "close" /\ dialogs' = Append(dialogs, d)
          BY <1>0, <3>2, <5>1, NewDialogs DEF Open, Types
        <5> QED BY <1>0, <2>3, <5>2, Opening
      <4> QED BY <1>a, <2>1, <3>2, <4>1 DEF ChoosingInv, DetachingInv, NothingAbandoned
    <3> QED BY <2>5, <3>1, <3>2 DEF StopAndExit
  <2> QED BY <1>11, <2>4, <2>5 DEF CloseEvent
<1>12. ASSUME NEW s \in Services, Toggle(s) PROVE WindowInv'
  <2>1. win.open /\ ~win.detaching /\ dialogs = <<>> /\ UNCHANGED own
    BY <1>12 DEF Toggle, Pressed
  <2>2. win' = win \/ Refreshes(win)
    BY <1>12 DEF Toggle
  <2>3. ~win'.detaching
    BY <1>0, <2>1, <2>2, RefreshedWindow
  <2>4. \A i \in DOMAIN dialogs' : dialogs'[i].kind # "close"
    <3>1. dialogs' = <<>> \/ \E d : d.kind # "close" /\ dialogs' = <<d>>
      <4>1. CASE dialogs' = dialogs
        BY <2>1, <4>1
      <4>2. CASE Open([kind |-> "stop", of |-> s, force |-> own[s].at = "late"])
        <5>1. PICK d : d = [kind |-> "stop", of |-> s, force |-> own[s].at = "late"]
          OBVIOUS
        <5> QED BY <2>1, <4>2, <5>1 DEF Open
      <4>3. CASE Open([kind |-> "outside", of |-> s, id |-> monitor[s].state])
        <5>1. PICK d : d = [kind |-> "outside", of |-> s, id |-> monitor[s].state]
          OBVIOUS
        <5> QED BY <2>1, <4>3, <5>1 DEF Open
      <4> QED BY <1>12, <4>1, <4>2, <4>3 DEF Toggle
    <3> QED BY <3>1
  <2>5. NothingAbandoned'
    <3>1. win' = win \/ win'.open \/ \A t \in Services : ~Running(t)' /\ starter'[t] = "idle"
      BY <1>0, <2>1, <2>2, RefreshedWindow
    <3> QED BY <2>1, <3>1 DEF NothingAbandoned, Running
  <2> QED BY <1>a, <2>3, <2>4, <2>5 DEF ChoosingInv, DetachingInv
<1>13. ASSUME NEW s \in Services, StarterInspects(s) \/ StarterSpawns(s) \/ StartFinished(s) PROVE WindowInv'
  <2>1. starter[s] # "idle" /\ UNCHANGED <<win, dialogs>>
    BY <1>13 DEF StarterInspects, StarterSpawns, StartFinished
  <2>2. ~Resting
    BY <2>1 DEF Resting
  <2>3. win.open
    BY <1>i, <2>1 DEF NothingAbandoned
  <2>4. ~win.detaching /\ \A i \in DOMAIN dialogs : dialogs[i].kind # "close"
    BY <1>i, <2>2 DEF DetachingInv, ChoosingInv
  <2> QED BY <1>a, <2>1, <2>3, <2>4 DEF ChoosingInv, DetachingInv, NothingAbandoned
<1>14. ASSUME NEW s \in Services, Detaches(s) PROVE WindowInv'
  <2>1. /\ win.detaching /\ UNCHANGED <<dialogs, starter>>
        /\ win' = [win EXCEPT !.todo = win.todo \ {s}]
        /\ own' = IF Running(s) THEN [own EXCEPT ![s].confirmed = TRUE] ELSE own
    BY <1>14 DEF Detaches
  <2>2. /\ win'.open = win.open /\ win'.exiting = win.exiting /\ win'.detaching = win.detaching
        /\ win'.todo = win.todo \ {s}
    BY <1>0, <2>1 DEF Windows
  <2>3. Safe(s)' /\ \A t \in Services \ {s} : Safe(t) => Safe(t)'
    <3>1. CASE Running(s)
      <4>1. PICK o : o = [own[s] EXCEPT !.confirmed = TRUE]
        OBVIOUS
      <4>2. o.confirmed
        BY <1>0, <4>1 DEF Owns
      <4>3. own' = [own EXCEPT ![s] = o]
        BY <2>1, <3>1, <4>1
      <4> QED BY <1>0, <4>2, <4>3 DEF Safe, Running
    <3>2. CASE ~Running(s)
      BY <2>1, <3>2 DEF Safe, Running
    <3> QED BY <3>1, <3>2
  <2>4. win.open /\ ~win.exiting /\ dialogs = <<>> /\ Resting /\ \A t \in Services : t \in win.todo \/ Safe(t)
    BY <1>i, <2>1 DEF DetachingInv
  <2>5. DetachingInv'
    BY <2>1, <2>2, <2>3, <2>4 DEF DetachingInv, Resting
  <2> QED BY <1>a, <2>1, <2>2, <2>4, <2>5 DEF ChoosingInv, NothingAbandoned
<1>15. ASSUME NEW s \in Services, OwnEnds(s) \/ OwnIsLate(s) PROVE WindowInv'
  <2>1. win.open /\ UNCHANGED <<win, dialogs, starter>>
    BY <1>15 DEF OwnEnds, OwnIsLate
  <2>2. \A t \in Services : Safe(t) => Safe(t)'
    <3>1. CASE OwnEnds(s)
      <4>1. PICK o : o = [at |-> "off", confirmed |-> FALSE]
        OBVIOUS
      <4> QED BY <1>0, <3>1, <4>1 DEF OwnEnds, Safe, Running
    <3>2. CASE OwnIsLate(s)
      <4>1. PICK o : o = [own[s] EXCEPT !.at = "late"]
        OBVIOUS
      <4>2. o.confirmed = own[s].confirmed /\ Running(s)
        BY <1>0, <3>2, <4>1 DEF Owns, OwnIsLate, Running
      <4>3. own' = [own EXCEPT ![s] = o]
        BY <3>2, <4>1 DEF OwnIsLate
      <4> QED BY <1>0, <4>2, <4>3 DEF Safe, Running
    <3> QED BY <1>15, <3>1, <3>2
  <2>3. DetachingInv'
    BY <1>i, <2>1, <2>2 DEF DetachingInv, Resting
  <2> QED BY <1>a, <1>i, <2>1, <2>3 DEF ChoosingInv, NothingAbandoned, Resting
<1>16. ASSUME NEW s \in Services, NEW i \in Instances, Born(s, i) \/ Dies(s, i) PROVE WindowInv'
  BY <1>0, <1>16, RefreshKeepsWindowInv DEF Born, Dies
<1>17. ASSUME NEW s \in Services, NEW j \in jobs[s], JobRuns(s, j) PROVE WindowInv'
  BY <1>0, <1>17, RefreshKeepsWindowInv DEF JobRuns
<1>18. ASSUME NEW s \in Services, NEW j \in jobs[s], Finish(s, j) PROVE WindowInv'
  BY <1>0, <1>18, RefreshKeepsWindowInv DEF Finish
<1>19. CASE UNCHANGED vars
  BY <1>0, <1>19, RefreshKeepsWindowInv DEF vars
<1> QED
  BY <1>1, <1>2, <1>3, <1>4, <1>5, <1>6, <1>7, <1>8, <1>9, <1>10, <1>11, <1>12, <1>13, <1>14, <1>15, <1>16,
     <1>17, <1>18, <1>19
  DEF Next

-----------------------------------------------------------------------------
(* What was reported closed does not come back: for each service, by what  *)
(* a step does to it.                                                      *)

MonitorOf(s) == Known(s) /\ DialogsKnown(s) /\ Ordered(s) /\ Gone(s)

LEMMA MarksAreNoInstances == {"stopped", "own", "other", "checking"} \cap Instances = {}
<1> SUFFICES ASSUME NEW x \in Instances PROVE x \notin {"stopped", "own", "other", "checking"}
  OBVIOUS
<1>1. PICK scene \in Scenes, s \in Services : x \in scene.foreign[s]
  BY DEF Instances
<1> QED
  BY <1>1, DesktopAssumption

LEMMA MarksAreKnown ==
  ASSUME Types, NEW s \in Services, NEW x \in {"stopped", "own", "other", "checking"}
  PROVE  ~Unborn(s, x) /\ x \notin reported[s] /\ x \notin live[s]
BY MarksAreNoInstances DEF Types, TypeOK, Unborn

\* Most steps: the monitor is as it was, and a scan may begin.
LEMMA QuietStep ==
  ASSUME Types, NEW s \in Services, MonitorOf(s),
         monitor'[s].state = monitor[s].state, monitor'[s].busy = monitor[s].busy, monitor'[s].gen = monitor[s].gen,
         \/ jobs'[s] \subseteq jobs[s]
         \/ jobs'[s] \subseteq jobs[s] \cup {ScanJob(monitor[s])} /\ ~monitor[s].busy,
         live'[s] \subseteq live[s], unborn'[s] = unborn[s], reported'[s] = reported[s],
         DialogsKnown(s)'
  PROVE  MonitorOf(s)'
<1>0. monitor[s] \in Monitors /\ monitor[s].gen \in Nat
  BY TypesAre DEF Monitors
<1>1. PICK k : k = ScanJob(monitor[s])
  OBVIOUS
<1>2. k.kind = "scan" /\ k.gen = monitor[s].gen /\ k.id = "stopped"
  BY <1>1 DEF ScanJob
<1>3. ~Unborn(s, k.id) /\ k.id \notin reported[s]
  BY <1>2, MarksAreKnown
<1>4. \A j \in jobs'[s] : j \in jobs[s] \/ (j = k /\ ~monitor[s].busy)
  BY <1>1
<1>5. Known(s)'
  BY <1>3, <1>4 DEF MonitorOf, Known, Unborn
<1>6. Ordered(s)'
  BY <1>0, <1>2, <1>4 DEF MonitorOf, Ordered
<1>7. Gone(s)'
  BY <1>2, <1>3, <1>4 DEF MonitorOf, Gone
<1> QED
  BY <1>5, <1>6, <1>7 DEF MonitorOf

\* Dialogs that were there, and one about what the monitor shows.
LEMMA DialogsStayKnown ==
  ASSUME Types, NEW s \in Services, MonitorOf(s), unborn'[s] \subseteq unborn[s],
         \A i \in DOMAIN dialogs' :
           \/ \E k \in DOMAIN dialogs : dialogs'[i] = dialogs[k]
           \/ dialogs'[i].kind # "outside"
           \/ dialogs'[i].of = s => dialogs'[i].id = monitor[s].state
  PROVE  DialogsKnown(s)'
BY DEF MonitorOf, DialogsKnown, Known, Unborn

LEMMA StepKeepsMonitors == Types /\ MonitorInv /\ [Next]_vars => MonitorInv'
<1> SUFFICES ASSUME Types, MonitorInv, [Next]_vars, NEW t \in Services PROVE MonitorOf(t)'
  BY DEF MonitorInv, MonitorOf
<1>0. Types' /\ MonitorOf(t) /\ monitor \in [Services -> Monitors] /\ dialogs \in Seq(Dialogs)
      /\ jobs \in [Services -> SUBSET Jobs]
      /\ live \in [Services -> SUBSET Instances] /\ unborn \in [Services -> SUBSET Instances]
      /\ reported \in [Services -> SUBSET Instances]
  BY StepKeepsTypes, TypesAre DEF MonitorInv, MonitorOf, Types, TypeOK
<1>a. ASSUME UNCHANGED <<monitor, jobs, unborn, reported>>, live'[t] \subseteq live[t], DialogsKnown(t)'
      PROVE  MonitorOf(t)'
  BY <1>0, <1>a, QuietStep
<1>b. ASSUME UNCHANGED <<dialogs, unborn>> PROVE DialogsKnown(t)'
  BY <1>0, <1>b DEF MonitorOf, DialogsKnown, Unborn
<1>c. ASSUME dialogs # <<>>, Answered, UNCHANGED unborn PROVE DialogsKnown(t)'
  <2>1. \A i \in DOMAIN dialogs' : \E k \in DOMAIN dialogs : dialogs'[i] = dialogs[k]
    BY <1>0, <1>c, Answering DEF Answered
  <2> QED BY <1>0, <1>c, <2>1, DialogsStayKnown
<1>d. ASSUME NEW d \in Dialogs, d.kind = "outside" /\ d.of = t => d.id = monitor[t].state, Open(d), UNCHANGED unborn
      PROVE  DialogsKnown(t)'
  <2>1. \A i \in DOMAIN dialogs' : \/ \E k \in DOMAIN dialogs : dialogs'[i] = dialogs[k]
                                   \/ dialogs'[i].kind # "outside"
                                   \/ dialogs'[i].of = t => dialogs'[i].id = monitor[t].state
    BY <1>0, <1>d, Opening DEF Open
  <2> QED BY <1>0, <1>d, <2>1, DialogsStayKnown
\* scan() on the monitor of s as it is.
<1>e. ASSUME NEW s \in Services, Scans(s, monitor[s], jobs[s]), UNCHANGED <<live, unborn, reported>>, DialogsKnown(t)'
      PROVE  MonitorOf(t)'
  <2>1. /\ \A u \in Services \ {s} : monitor'[u] = monitor[u] /\ jobs'[u] = jobs[u]
        /\ monitor'[s].state = monitor[s].state /\ monitor'[s].busy = monitor[s].busy
        /\ monitor'[s].gen = monitor[s].gen
        /\ \/ jobs'[s] = jobs[s]
           \/ jobs'[s] = jobs[s] \cup {ScanJob(monitor[s])} /\ ~monitor[s].busy
    BY <1>0, <1>e, ScannedMonitor
  <2> QED BY <1>0, <1>e, <2>1, QuietStep
<1>1. CASE Refresh
  BY <1>1, <1>a, <1>b DEF Refresh
<1>2. ASSUME NEW s \in Services, Tick(s) PROVE MonitorOf(t)'
  BY <1>2, <1>b, <1>e DEF Tick
<1>3. CASE ComponentsBegin \/ ComponentsEnd
  BY <1>3, <1>a, <1>b DEF ComponentsBegin, ComponentsEnd
<1>4. CASE CloseCancelled \/ CloseDetaches
  BY <1>4, <1>a, <1>c DEF CloseCancelled, CloseDetaches
<1>5. CASE CloseAccepted
  <2>1. dialogs # <<>> /\ UNCHANGED <<live, unborn, monitor, jobs, reported>>
    BY <1>5 DEF CloseAccepted
  <2>2. CASE Answered
    BY <1>a, <1>c, <2>1, <2>2
  <2>3. CASE dialogs' = Append(Front(dialogs), [kind |-> "exit"])
    <3>1. PICK d : d = [kind |-> "exit"]
      OBVIOUS
    <3>2. d \in Dialogs /\ d.kind = "exit"
      BY <1>0, <3>1, NewDialogs DEF Types
    <3>3. PICK q \in Seq(Dialogs) : q = Front(dialogs) /\ \A i \in DOMAIN q : i \in DOMAIN dialogs /\ q[i] = dialogs[i]
      BY <1>0, <2>1, Answering
    <3>4. dialogs' = Append(q, d)
      BY <2>3, <3>1, <3>3
    <3>5. \A i \in DOMAIN dialogs' : \/ \E k \in DOMAIN dialogs : dialogs'[i] = dialogs[k]
                                     \/ dialogs'[i].kind # "outside"
      BY <3>2, <3>3, <3>4, Opening
    <3>6. DialogsKnown(t)'
      BY <1>0, <2>1, <3>5, DialogsStayKnown
    <3> QED BY <1>a, <2>1, <3>6
  <2> QED BY <1>5, <2>2, <2>3 DEF CloseAccepted
<1>7. CASE DetachFails \/ DetachFinished
  BY <1>7, <1>a, <1>b DEF DetachFails, DetachFinished
<1>8. ASSUME NEW yes \in BOOLEAN, StopAnswered(yes) \/ ExitAnswered(yes) PROVE MonitorOf(t)'
  BY <1>8, <1>a, <1>c DEF StopAnswered, ExitAnswered
<1>9. ASSUME NEW yes \in BOOLEAN, OutsideAnswered(yes) PROVE MonitorOf(t)'
  <2>1. PICK d : d = Last(dialogs)
    OBVIOUS
  <2>2. dialogs # <<>> /\ Answered /\ d.kind = "outside" /\ UNCHANGED <<live, unborn, reported>>
    BY <1>9, <2>1 DEF OutsideAnswered
  <2>3. d \in Dialogs /\ d.of \in Services /\ d.id \in Instances \cup {"own"}
    BY <1>0, <2>1, <2>2, Answering, DialogFields
  <2>4. DialogsKnown(t)'
    BY <1>c, <2>2
  <2>5. CASE yes /\ Closable(d.of, d.id)
    <3>1. PICK m : m = ForcedMonitor(d.of)
      OBVIOUS
    <3>2. PICK j : j = [kind |-> "close", gen |-> m.gen, id |-> d.id, done |-> FALSE]
      OBVIOUS
    <3>3. monitor' = [monitor EXCEPT ![d.of] = m] /\ jobs' = [jobs EXCEPT ![d.of] = @ \cup {j}]
      BY <1>9, <2>1, <2>5, <3>1, <3>2 DEF OutsideAnswered
    <3>4. m.busy /\ m.gen = monitor[d.of].gen + 1 /\ m.state = monitor[d.of].state /\ monitor[d.of].state = d.id
      BY <1>0, <2>3, <2>5, <3>1, Forcing DEF Closable
    <3>5. CASE d.of # t
      <4>1. monitor'[t] = monitor[t] /\ jobs'[t] = jobs[t]
        BY <1>0, <2>3, <3>3, <3>5
      <4> QED BY <1>0, <2>2, <2>4, <4>1, QuietStep
    <3>6. CASE d.of = t
      <4>1. monitor'[t] = m /\ jobs'[t] = jobs[t] \cup {j}
        BY <1>0, <2>3, <3>3, <3>6
      <4>2. j.kind = "close" /\ j.gen = m.gen /\ j.id = monitor[t].state /\ ~j.done
        BY <3>2, <3>4, <3>6
      <4>3. monitor[t].gen \in Nat
        BY <1>0 DEF Monitors
      <4>4. Known(t)'
        BY <1>0, <2>2, <3>4, <3>6, <4>1, <4>2 DEF MonitorOf, Known, Unborn
      <4>5. Ordered(t)'
        <5>1. \A k \in jobs[t] : k.gen \in Nat /\ k.gen <= monitor[t].gen /\ k.gen < m.gen
          BY <1>0, <3>4, <3>6, <4>3 DEF MonitorOf, Ordered, Jobs
        <5> QED BY <1>0, <3>4, <3>6, <4>1, <4>2, <4>3, <5>1 DEF MonitorOf, Ordered
      <4>6. Gone(t)'
        <5>1. \A k \in jobs[t] : k.gen # m.gen
          BY <1>0, <3>4, <3>6, <4>3 DEF MonitorOf, Ordered, Jobs
        <5> QED BY <1>0, <2>2, <3>4, <3>6, <4>1, <4>2, <5>1 DEF MonitorOf, Gone
      <4> QED BY <2>4, <4>4, <4>5, <4>6 DEF MonitorOf
    <3> QED BY <3>5, <3>6
  <2>6. CASE ~(yes /\ Closable(d.of, d.id))
    <3>1. Scans(d.of, monitor[d.of], jobs[d.of]) \/ UNCHANGED <<monitor, jobs>>
      BY <1>9, <2>1, <2>6 DEF OutsideAnswered
    <3> QED BY <1>a, <1>e, <2>2, <2>3, <2>4, <3>1
  <2> QED BY <2>5, <2>6
<1>11. ASSUME NEW yes \in BOOLEAN, CloseEvent(yes) PROVE MonitorOf(t)'
  <2>1. UNCHANGED <<live, unborn, monitor, jobs, reported>>
    BY <1>11 DEF CloseEvent
  <2>2. Open([kind |-> "close"]) \/ Open([kind |-> "exit"]) \/ UNCHANGED dialogs
    BY <1>11 DEF CloseEvent, StopAndExit
  <2>3. DialogsKnown(t)'
    <3>1. PICK c, x : c = [kind |-> "close"] /\ x = [kind |-> "exit"]
      OBVIOUS
    <3>2. c \in Dialogs /\ x \in Dialogs /\ c.kind = "close" /\ x.kind = "exit"
      BY <1>0, <3>1, NewDialogs DEF Types
    <3> QED BY <1>b, <1>d, <2>1, <2>2, <3>1, <3>2
  <2> QED BY <1>a, <2>1, <2>3
<1>12. ASSUME NEW s \in Services, Toggle(s) PROVE MonitorOf(t)'
  <2>1. UNCHANGED <<live, unborn, reported>>
    BY <1>12 DEF Toggle, Pressed
  <2>2. CASE Open([kind |-> "stop", of |-> s, force |-> own[s].at = "late"]) /\ UNCHANGED <<monitor, jobs>>
    <3>1. PICK d : d = [kind |-> "stop", of |-> s, force |-> own[s].at = "late"]
      OBVIOUS
    <3>2. d \in Dialogs /\ d.kind = "stop"
      BY <1>0, <3>1, NewDialogs DEF Types
    <3>3. DialogsKnown(t)'
      BY <1>d, <2>1, <2>2, <3>1, <3>2
    <3> QED BY <1>a, <2>1, <2>2, <3>3
  <2>3. CASE /\ monitor[s].state \in Instances \cup {"own"}
             /\ Open([kind |-> "outside", of |-> s, id |-> monitor[s].state])
             /\ UNCHANGED <<monitor, jobs>>
    <3>1. PICK d : d = [kind |-> "outside", of |-> s, id |-> monitor[s].state]
      OBVIOUS
    <3>2. d \in Dialogs /\ d.of = s /\ d.id = monitor[s].state
      BY <1>0, <2>3, <3>1, NewDialogs DEF Types
    <3>3. DialogsKnown(t)'
      BY <1>d, <2>1, <2>3, <3>1, <3>2
    <3> QED BY <1>a, <2>1, <2>3, <3>3
  <2>4. CASE Scans(s, monitor[s], jobs[s]) /\ UNCHANGED dialogs
    BY <1>b, <1>e, <2>1, <2>4
  <2>5. CASE UNCHANGED <<dialogs, monitor, jobs>>
    BY <1>a, <1>b, <2>1, <2>5
  <2> QED BY <1>12, <2>2, <2>3, <2>4, <2>5 DEF Toggle
<1>13. ASSUME NEW s \in Services, StarterInspects(s) \/ StarterSpawns(s) \/ Detaches(s) \/ OwnEnds(s) \/ OwnIsLate(s)
       PROVE  MonitorOf(t)'
  BY <1>13, <1>a, <1>b DEF StarterInspects, StarterSpawns, Detaches, OwnEnds, OwnIsLate
<1>14. ASSUME NEW s \in Services, StartFinished(s) PROVE MonitorOf(t)'
  <2>1. UNCHANGED <<dialogs, live, unborn, reported>>
    BY <1>14 DEF StartFinished
  <2>2. CASE UNCHANGED <<monitor, jobs>>
    BY <1>a, <1>b, <2>1, <2>2
  <2>3. CASE /\ ~monitor[s].busy
             /\ monitor' = [monitor EXCEPT ![s].scanning = TRUE]
             /\ jobs' = [jobs EXCEPT ![s] = @ \cup {ScanJob(monitor[s])}]
    <3>1. PICK m : m = [monitor[s] EXCEPT !.scanning = TRUE]
      OBVIOUS
    <3>2. m.state = monitor[s].state /\ m.busy = monitor[s].busy /\ m.gen = monitor[s].gen
      BY <1>0, <3>1 DEF Monitors
    <3>3. monitor' = [monitor EXCEPT ![s] = m]
      BY <2>3, <3>1
    <3>4. CASE s = t
      BY <1>0, <1>b, <2>1, <2>3, <3>2, <3>3, <3>4, QuietStep
    <3>5. CASE s # t
      BY <1>0, <1>b, <2>1, <2>3, <3>3, <3>5, QuietStep
    <3> QED BY <3>4, <3>5
  <2> QED BY <1>14, <2>2, <2>3 DEF StartFinished
<1>15. ASSUME NEW s \in Services, NEW i \in Instances, Born(s, i) PROVE MonitorOf(t)'
  <2>1. /\ i \in unborn[s] /\ UNCHANGED <<monitor, jobs, reported, dialogs>>
        /\ live' = [live EXCEPT ![s] = @ \cup {i}] /\ unborn' = [unborn EXCEPT ![s] = @ \ {i}]
    BY <1>15 DEF Born
  <2>2. CASE s # t
    <3>1. live'[t] = live[t] /\ unborn'[t] = unborn[t]
      BY <1>0, <2>1, <2>2
    <3>2. DialogsKnown(t)'
      BY <1>0, <2>1, <3>1 DEF MonitorOf, DialogsKnown, Unborn
    <3> QED BY <1>0, <2>1, <3>1, <3>2, QuietStep
  <2>3. CASE s = t
    <3>1. live'[t] = live[t] \cup {i} /\ unborn'[t] = unborn[t] \ {i} /\ i \in unborn[t]
      BY <1>0, <2>1, <2>3
    <3>2. Known(t)' /\ DialogsKnown(t)'
      BY <1>0, <2>1, <3>1 DEF MonitorOf, Known, DialogsKnown, Unborn
    <3>3. Ordered(t)'
      BY <1>0, <2>1 DEF MonitorOf, Ordered
    <3>4. Gone(t)'
      BY <1>0, <2>1, <3>1 DEF MonitorOf, Known, Gone, Unborn
    <3> QED BY <3>2, <3>3, <3>4 DEF MonitorOf
  <2> QED BY <2>2, <2>3
<1>16. ASSUME NEW s \in Services, NEW i \in Instances, Dies(s, i) PROVE MonitorOf(t)'
  <2>1. live'[t] \subseteq live[t]
    BY <1>0, <1>16 DEF Dies
  <2> QED BY <1>16, <1>a, <1>b, <2>1 DEF Dies
<1>17. ASSUME NEW s \in Services, NEW j \in jobs[s], JobRuns(s, j) PROVE MonitorOf(t)'
  <2>1. PICK id : /\ Does(s, j, id)
                  /\ \/ j.kind = "scan" /\ id \in Inspections(s) /\ UNCHANGED live
                     \/ /\ j.kind = "close" /\ id = j.id
                        /\ live' = [live EXCEPT ![s] = @ \ {j.id}]
                     \/ j.kind = "close" /\ id = "other" /\ UNCHANGED live
    BY <1>17 DEF JobRuns
  <2>2. UNCHANGED <<dialogs, unborn, monitor, reported>>
    BY <1>17 DEF JobRuns
  <2>3. PICK k : k = [j EXCEPT !.done = TRUE, !.id = id]
    OBVIOUS
  <2>4. j \in Jobs /\ k.kind = j.kind /\ k.gen = j.gen /\ k.id = id
    BY <1>0, <2>3 DEF Jobs
  <2>5. jobs' = [jobs EXCEPT ![s] = (jobs[s] \ {j}) \cup {k}]
    BY <2>1, <2>3 DEF Does
  <2>6. DialogsKnown(t)'
    BY <1>b, <2>2
  <2>7. CASE s # t
    <3>1. jobs'[t] = jobs[t] /\ live'[t] = live[t]
      BY <1>0, <2>1, <2>5, <2>7
    <3> QED BY <1>0, <2>2, <2>6, <3>1, QuietStep
  <2>8. CASE s = t
    <3>1. jobs'[t] = (jobs[t] \ {j}) \cup {k} /\ live'[t] \subseteq live[t] /\ j \in jobs[t]
      BY <1>0, <2>1, <2>5, <2>8
    <3>2. ~Unborn(t, id) /\ (k.kind = "scan" => id \notin reported[t]) /\ (k.kind = "close" => id \notin live'[t])
      <4>1. CASE j.kind = "scan" /\ id \in Inspections(t)
        <5>1. id \in live[t] \cup {"stopped", "own", "other"}
          BY <4>1 DEF Inspections, Candidates
        <5>2. CASE id \in live[t]
          BY <1>0, <2>4, <4>1, <5>2 DEF MonitorOf, Known, Gone, Unborn
        <5>3. CASE id \in {"stopped", "own", "other"}
          BY <2>4, <4>1, <5>3, MarksAreKnown
        <5> QED BY <5>1, <5>2, <5>3
      <4>2. CASE j.kind = "close" /\ id = j.id /\ live' = [live EXCEPT ![s] = @ \ {j.id}]
        <5>1. id \notin live'[t]
          BY <1>0, <2>8, <4>2
        <5> QED BY <1>0, <2>4, <2>8, <4>2, <5>1 DEF MonitorOf, Known
      <4>3. CASE j.kind = "close" /\ id = "other" /\ UNCHANGED live
        BY <2>4, <4>3, MarksAreKnown
      <4> QED BY <2>1, <2>8, <4>1, <4>2, <4>3
    <3>3. Known(t)'
      BY <1>0, <2>2, <2>4, <3>1, <3>2 DEF MonitorOf, Known, Unborn
    <3>4. Ordered(t)'
      BY <1>0, <2>2, <2>4, <3>1 DEF MonitorOf, Ordered
    <3>5. Gone(t)'
      BY <1>0, <2>2, <2>4, <3>1, <3>2 DEF MonitorOf, Gone
    <3> QED BY <2>6, <3>3, <3>4, <3>5 DEF MonitorOf
  <2> QED BY <2>7, <2>8
<1>18. ASSUME NEW s \in Services, NEW j \in jobs[s], Finish(s, j) PROVE MonitorOf(t)'
  <2>1. PICK rest : rest = jobs[s] \ {j}
    OBVIOUS
  <2>2. j.done /\ UNCHANGED <<dialogs, live, unborn>>
    BY <1>18 DEF Finish
  <2>3. DialogsKnown(t)'
    BY <1>b, <2>2
  <2>j. j \in Jobs /\ j.kind \in {"scan", "close"} /\ rest \in SUBSET Jobs
    BY <1>0, <2>1 DEF Jobs
  <2>4. CASE jobs' = [jobs EXCEPT ![s] = rest] /\ UNCHANGED <<monitor, reported>>
    <3>1. jobs'[t] \subseteq jobs[t]
      BY <1>0, <2>1, <2>4
    <3> QED BY <1>0, <2>2, <2>3, <2>4, <3>1, QuietStep
  <2>5. CASE /\ j.gen = monitor[s].gen /\ j.kind = "scan"
             /\ monitor' = [monitor EXCEPT ![s].scanning = FALSE, ![s].state = j.id]
             /\ jobs' = [jobs EXCEPT ![s] = rest]
             /\ UNCHANGED reported
    <3>1. PICK m : m = [monitor[s] EXCEPT !.scanning = FALSE, !.state = j.id]
      OBVIOUS
    <3>2. m.state = j.id /\ m.busy = monitor[s].busy /\ m.gen = monitor[s].gen
      BY <1>0, <3>1 DEF Monitors
    <3>3. monitor' = [monitor EXCEPT ![s] = m]
      BY <1>0, <2>5, <3>1
    <3>4. CASE s # t
      BY <1>0, <2>2, <2>3, <2>5, <3>3, <3>4, QuietStep
    <3>5. CASE s = t
      <4>1. monitor'[t] = m /\ jobs'[t] \subseteq jobs[t] /\ j \in jobs[t]
        BY <1>0, <2>1, <2>5, <3>3, <3>5
      <4>2. Known(t)'
        BY <1>0, <2>2, <3>2, <3>5, <4>1 DEF MonitorOf, Known, Unborn
      <4>3. Ordered(t)'
        BY <1>0, <3>2, <3>5, <4>1 DEF MonitorOf, Ordered
      <4>4. Gone(t)'
        BY <1>0, <2>2, <2>5, <3>2, <3>5, <4>1 DEF MonitorOf, Gone
      <4> QED BY <2>3, <4>2, <4>3, <4>4 DEF MonitorOf
    <3> QED BY <3>4, <3>5
  <2>6. CASE /\ j.gen = monitor[s].gen /\ j.kind = "close"
             /\ Scans(s, [monitor[s] EXCEPT !.busy = FALSE, !.state = "checking"], rest)
             /\ reported' = [reported EXCEPT ![s] = @ \cup ({j.id} \cap Instances)]
    <3>1. PICK m : m = [monitor[s] EXCEPT !.busy = FALSE, !.state = "checking"]
      OBVIOUS
    <3>2. m \in Monitors /\ m.state = "checking" /\ ~m.busy /\ m.gen = monitor[s].gen
      BY <1>0, <3>1 DEF Monitors
    <3>3. /\ \A u \in Services \ {s} : monitor'[u] = monitor[u] /\ jobs'[u] = jobs[u]
          /\ monitor'[s].state = "checking" /\ ~monitor'[s].busy /\ monitor'[s].gen = monitor[s].gen
          /\ jobs'[s] \subseteq rest \cup {ScanJob(m)}
      <4>1. Scans(s, m, rest)
        BY <2>6, <3>1
      <4>2. m \in Monitors /\ m.state = "checking" /\ ~m.busy
        BY <3>2
      <4>3. /\ \A u \in Services \ {s} : monitor'[u] = monitor[u] /\ jobs'[u] = jobs[u]
            /\ monitor'[s].state = m.state /\ monitor'[s].busy = m.busy /\ monitor'[s].gen = m.gen
            /\ jobs'[s] = rest \/ jobs'[s] = rest \cup {ScanJob(m)}
        BY ONLY Types, s \in Services, <2>j, <4>1, <4>2, ScannedMonitor
      <4> QED BY <3>2, <4>3
    <3>4. CASE s # t
      BY <1>0, <2>2, <2>3, <2>6, <3>3, <3>4, QuietStep
    <3>5. CASE s = t
      <4>1. PICK k : k = ScanJob(m)
        OBVIOUS
      <4>2. k.kind = "scan" /\ k.gen = monitor[t].gen /\ k.id = "stopped"
        BY <3>2, <3>5, <4>1 DEF ScanJob
      <4>3. \A i \in jobs'[t] : (i \in jobs[t] /\ i # j) \/ i = k
        BY <2>1, <3>3, <3>5, <4>1
      <4>4. \A i \in jobs[t] : i # j => i.gen # monitor[t].gen
        BY <1>0, <2>6, <3>5 DEF MonitorOf, Ordered
      <4>5. reported'[t] = reported[t] \cup ({j.id} \cap Instances)
        BY <1>0, <2>6, <3>5
      <4>6. monitor[t].gen \in Nat
        BY <1>0 DEF Monitors
      <4>7. ~Unborn(t, "stopped") /\ ~Unborn(t, "checking") /\ "stopped" \notin reported'[t] /\ "checking" \notin reported'[t]
        BY <4>5, MarksAreKnown, MarksAreNoInstances
      <4>8. Known(t)'
        BY <1>0, <2>2, <3>3, <3>5, <4>2, <4>3, <4>7 DEF MonitorOf, Known, Unborn
      <4>9. Ordered(t)'
        BY <1>0, <3>3, <3>5, <4>2, <4>3, <4>4, <4>6 DEF MonitorOf, Ordered
      <4>10. Gone(t)'
        <5>1. j.id \notin live[t] /\ ~Unborn(t, j.id)
          BY <1>0, <2>2, <2>6, <3>5 DEF MonitorOf, Gone, Known
        <5>2. reported'[t] \cap (live'[t] \cup unborn'[t]) = {}
          BY <1>0, <2>2, <4>5, <5>1 DEF MonitorOf, Gone, Unborn
        <5>3. \A i \in jobs'[t] : i.kind = "close" /\ i.done => i.id \notin live'[t]
          BY <1>0, <2>2, <4>2, <4>3 DEF MonitorOf, Gone
        <5>4. \A i \in jobs'[t] : i.kind = "scan" /\ i.gen = monitor'[t].gen => i.id \notin reported'[t]
          BY <3>3, <3>5, <4>2, <4>3, <4>4, <4>7
        <5> QED BY <3>3, <3>5, <4>7, <5>2, <5>3, <5>4 DEF Gone
      <4> QED BY <2>3, <4>8, <4>9, <4>10 DEF MonitorOf
    <3> QED BY <3>4, <3>5
  <2> QED BY <1>18, <2>1, <2>4, <2>5, <2>6, <2>j DEF Finish
<1>19. CASE UNCHANGED vars
  BY <1>19, <1>a, <1>b DEF vars
<1> QED
  BY <1>1, <1>2, <1>3, <1>4, <1>5, <1>7, <1>8, <1>9, <1>11, <1>12, <1>13, <1>14, <1>15, <1>16, <1>17, <1>18, <1>19
  DEF Next

LEMMA InitMonitors == Init => MonitorInv
<1> SUFFICES ASSUME Init, NEW s \in Services PROVE MonitorOf(s)
  BY DEF MonitorInv, MonitorOf
<1>1. Types /\ live[s] = {} /\ jobs[s] = {} /\ reported[s] = {} /\ dialogs = <<>>
      /\ monitor[s].state \in {"checking", "stopped"}
  BY InitTypes DEF Init
<1>2. ~Unborn(s, monitor[s].state)
  BY <1>1, MarksAreKnown
<1> QED
  BY <1>1, <1>2 DEF MonitorOf, Known, DialogsKnown, Ordered, Gone

-----------------------------------------------------------------------------
(* The theorems.                                                           *)

\* The window and its services are what TypeOK says.
THEOREM WindowTyping == Spec => []TypeOK
<1>1. Types => TypeOK
  BY DEF Types
<1> QED BY <1>1, InitTypes, StepKeepsTypes, PTL DEF Spec

\* However the window is closed, what it had started is off or lives alone.
THEOREM NothingIsAbandoned == Spec => []NothingAbandoned
<1>1. WindowInv => NothingAbandoned
  BY DEF WindowInv
<1> QED BY <1>1, InitWindowInv, StepKeepsWindowInv, PTL DEF Spec

\* An instance reported closed is never shown again, whatever scan was under way.
THEOREM NoGhostIsShown == Spec => []NoGhost
<1>1. MonitorInv => NoGhost
  BY DEF MonitorInv, Gone, NoGhost
<1>2. Init => Types /\ MonitorInv
  BY InitTypes, InitMonitors
<1>3. Types /\ MonitorInv /\ [Next]_vars => (Types /\ MonitorInv)'
  BY StepKeepsTypes, StepKeepsMonitors
<1> QED BY <1>1, <1>2, <1>3, PTL DEF Spec

------------------------------------------------------------------------------
(* The process of one service.                                             *)


\* The lines of a pipe, in any order.
Lines(q) == {q[k] : k \in DOMAIN q}

\* Supervisors that were not started yet have said and been told nothing.
Future ==
  \A i \in Ids : i > handle.id => output[i] = <<>> /\ pipe[i] = <<>> /\ sup[i] = NoSupervisor

\* What the present supervisor wrote and nobody has read is true of it, for what
\* is true of it stays true.
NewsIsTrue ==
  IF handle.id = 0 THEN ~handle.detached /\ ~handle.owned
  ELSE /\ "detached" \in Lines(output[handle.id]) => sup[handle.id].detached
       /\ "owned" \in Lines(output[handle.id]) => sup[handle.id].owned_sent

\* Nobody has told the present supervisor to stop, nor will.
Unbidden == ~sup[handle.id].told /\ "stop" \notin Lines(pipe[handle.id])

NeverTold ==
  /\ (console = "on" /\ handle.id # 0 /\ handle.stopping = "no") => Unbidden
  /\ (console = "left" /\ running /\ handle.stopping = "no" /\ ~overtaken)
       => (Unbidden /\ sup[handle.id].detached)

\* What a reading thread is about to confirm is true of the present supervisor,
\* or the last start came between its two steps.
ReadersConfirm ==
  \A i \in Ids : reader[i] = "confirms" =>
    i <= handle.id /\ (IF i = handle.id THEN sup[i].detached ELSE overtaken)

\* The window may close itself only by a confirmation.
DoneIsConfirmed == (detaching = "done" /\ running) => handle.detached

HandleType == [id : 0 .. MaxStarts, stopping : {"no", "asked", "late"}, detachable : BOOLEAN,
               detached : BOOLEAN, owned : BOOLEAN]
SupType    == [at : {"none", "boot", "serving", "gone"}, told : BOOLEAN, detached : BOOLEAN,
               listening : BOOLEAN, asked : BOOLEAN, owned_sent : BOOLEAN]

PipeType   == Seq({"spec", "stop", "detach"})
OutputType == Seq({"owned", "detached"})

ProcessInv ==
  /\ ProcessTypeOK /\ Future /\ NewsIsTrue /\ NewsIsOfThisProcess /\ NeverTold
  /\ ReadersConfirm /\ DoneIsConfirmed

LEMMA LinesOf ==
  ASSUME NEW T, NEW q \in Seq(T)
  PROVE  /\ Lines(<<>>) = {}
         /\ \A e \in T : Append(q, e) \in Seq(T) /\ Lines(Append(q, e)) = Lines(q) \cup {e}
         /\ q # <<>> => /\ Tail(q) \in Seq(T) /\ Lines(Tail(q)) \subseteq Lines(q)
                        /\ Head(q) \in Lines(q)
<1>1. Lines(<<>>) = {}
  BY DEF Lines
<1>2. ASSUME NEW e \in T PROVE Append(q, e) \in Seq(T) /\ Lines(Append(q, e)) = Lines(q) \cup {e}
  <2>1. /\ Append(q, e) \in Seq(T) /\ DOMAIN Append(q, e) = DOMAIN q \cup {Len(q) + 1}
        /\ \A i \in DOMAIN q : Append(q, e)[i] = q[i]
        /\ Append(q, e)[Len(q) + 1] = e
    OBVIOUS
  <2>. QED BY <2>1 DEF Lines
<1>3. ASSUME q # <<>> PROVE Tail(q) \in Seq(T) /\ Lines(Tail(q)) \subseteq Lines(q) /\ Head(q) \in Lines(q)
  <2>1. \A k \in DOMAIN Tail(q) : Tail(q)[k] = q[k + 1] /\ k + 1 \in DOMAIN q
    BY <1>3
  <2>. QED BY <1>3, <2>1 DEF Lines
<1>. QED BY <1>1, <1>2, <1>3

LEMMA InitHasProcessInv == ProcessInit => ProcessInv
<1> SUFFICES ASSUME ProcessInit PROVE ProcessInv
  OBVIOUS
<1>1. ProcessTypeOK
  <2>1. handle \in HandleType
    BY BoundsAssumption DEF ProcessInit, NewHandle, HandleType
  <2>2. pipe \in [Ids -> PipeType] /\ output \in [Ids -> OutputType]
    BY DEF ProcessInit, PipeType, OutputType
  <2>3. sup \in [Ids -> SupType]
    <3>1. NoSupervisor \in SupType
      BY DEF NoSupervisor, SupType
    <3>. QED BY <3>1 DEF ProcessInit
  <2>4. console \in {"on", "left", "killed"} /\ controlled \in BOOLEAN /\ detaching \in {"no", "waits", "done"}
        /\ reader \in [Ids -> {"reads", "confirms"}] /\ overtaken \in BOOLEAN
        /\ service \in [Ids -> {"none", "gone"} \cup Alive]
    BY DEF ProcessInit
  <2>. QED BY <2>1, <2>2, <2>3, <2>4 DEF ProcessTypeOK, HandleType, SupType, PipeType, OutputType
<1>2. Future /\ NewsIsTrue /\ NewsIsOfThisProcess
  <2>1. Lines(<<>>) = {}
    BY DEF Lines
  <2>2. \A i \in Ids : output[i] = <<>> /\ pipe[i] = <<>> /\ sup[i] = NoSupervisor
    BY DEF ProcessInit
  <2>3. ~handle.detached /\ ~handle.owned
    BY DEF ProcessInit, NewHandle
  <2>4. handle.id = 0
    BY DEF ProcessInit, NewHandle
  <2>. QED BY <2>1, <2>2, <2>3, <2>4 DEF Future, NewsIsTrue, NewsIsOfThisProcess
<1>3. NeverTold /\ ReadersConfirm /\ DoneIsConfirmed
  BY DEF ProcessInit, NeverTold, ReadersConfirm, DoneIsConfirmed, NewHandle, running
<1>. QED BY <1>1, <1>2, <1>3 DEF ProcessInv
----------------------------------------------------------------------------
\* The console's steps.
LEMMA ConsoleKeepsTypes == 
  ASSUME ProcessTypeOK, Console \/ (\E i \in Ids : Hear(i) \/ Confirm(i))
  PROVE  ProcessTypeOK'
<1> USE DEF ProcessTypeOK, HandleType, SupType, PipeType, OutputType
<1>1. CASE Start
  <2>1. handle' \in HandleType
    BY <1>1, BoundsAssumption DEF Start, NewHandle
  <2>2. sup' \in [Ids -> SupType]
    BY <1>1 DEF Start, NoSupervisor
  <2>3. pipe' \in [Ids -> PipeType]
    BY <1>1 DEF Start
  <2>. QED BY <1>1, <2>1, <2>2, <2>3 DEF Start
<1>2. CASE SendSpec
  BY <1>2, LinesOf DEF SendSpec
<1>3. CASE Stop
  BY <1>3, LinesOf DEF Stop
<1>4. CASE TimeOut
  BY <1>4 DEF TimeOut
<1>5. CASE SendFails \/ ForceStop
  <2>1. Forced
    BY <1>5 DEF SendFails, ForceStop
  <2>2. handle' \in HandleType /\ sup' \in [Ids -> SupType]
    BY <2>1 DEF Forced
  <2>3. service' \in [Ids -> {"none", "gone"} \cup Alive]
    BY <2>1 DEF Forced, Bereaved, Alive
  <2>. QED BY <2>1, <2>2, <2>3 DEF Forced
<1>6. CASE Detach
  <2>1. pipe' \in [Ids -> PipeType]
    <3>1. \A i \in Ids : Append(pipe[i], "detach") \in PipeType
      BY LinesOf
    <3>2. pipe' \in {pipe, [pipe EXCEPT ![handle.id] = Append(pipe[handle.id], "detach")]}
      BY <1>6 DEF Detach
    <3>3. pipe \in [Ids -> PipeType]
      OBVIOUS
    <3>4. CASE handle.id \in Ids
      <4>1. PICK q \in PipeType : q = Append(pipe[handle.id], "detach")
        BY <3>1, <3>4
      <4>. HIDE DEF PipeType
      <4>. QED BY <3>2, <3>3, <3>4, <4>1
    <3>5. CASE handle.id \notin Ids
      <4>1. pipe' = pipe
        BY <3>2, <3>3, <3>5
      <4>. QED BY <3>3, <4>1
    <3>. QED BY <3>4, <3>5
  <2>2. detaching' \in {"no", "waits", "done"}
    BY <1>6 DEF Detach
  <2>. QED BY <1>6, <2>1, <2>2 DEF Detach
<1>7. CASE DetachReturns
  BY <1>7 DEF DetachReturns
<1>8. CASE Stays \/ Leave \/ Killed
  BY <1>8 DEF Stays, Leave, Killed
<1>c. ASSUME NEW i \in Ids, Confirm(i) PROVE ProcessTypeOK'
  <2>1. handle' \in HandleType /\ reader' \in [Ids -> {"reads", "confirms"}]
    BY <1>c DEF Confirm
  <2>. QED BY <1>c, <2>1 DEF Confirm
<1>9. ASSUME NEW i \in Ids, Hear(i) PROVE ProcessTypeOK'
  <2>0. handle \in HandleType /\ (service[i] \in Alive) \in BOOLEAN
    OBVIOUS
  <2>1. handle' \in HandleType
    <3>1. PICK b \in BOOLEAN : handle' \in {handle, [handle EXCEPT !.owned = b]}
      BY <1>9, <2>0 DEF Hear
    <3>. QED BY <2>0, <3>1
  <2>2. output' \in [Ids -> OutputType]
    BY <1>9, LinesOf DEF Hear
  <2>3. reader' \in [Ids -> {"reads", "confirms"}]
    BY <1>9 DEF Hear
  <2>. QED BY <1>9, <2>1, <2>2, <2>3 DEF Hear
<1>. QED BY <1>1, <1>2, <1>3, <1>4, <1>5, <1>6, <1>7, <1>8, <1>9, <1>c DEF Console

LEMMA SupervisorKeepsTypes ==
  ASSUME ProcessTypeOK, NEW i \in Ids, Supervisor(i) \/ Ends(i) \/ SupervisorKilled(i)
  PROVE  ProcessTypeOK'
<1>0. /\ sup \in [Ids -> SupType] /\ pipe \in [Ids -> PipeType] /\ output \in [Ids -> OutputType]
      /\ service \in [Ids -> {"none", "gone"} \cup Alive] /\ UNCHANGED consoleVars
  BY DEF ProcessTypeOK, SupType, PipeType, OutputType, Supervisor, Boot, BootFails, Listen, ListenEnds, PassOn,
         TellOwned, Follow, Ends, SupervisorKilled
<1>1. sup' \in [Ids -> SupType]
  <2>1. CASE BootFails(i) \/ Follow(i) \/ SupervisorKilled(i)
    <3>1. sup' = [sup EXCEPT ![i].at = "gone"]
      BY <2>1 DEF BootFails, Follow, SupervisorKilled
    <3>. QED BY <1>0, <3>1 DEF SupType
  <2>2. CASE Boot(i)
    <3>1. sup' = [sup EXCEPT ![i].at = "serving", ![i].listening = TRUE] \/ sup' = [sup EXCEPT ![i].at = "gone"]
      BY <2>2 DEF Boot
    <3>. QED BY <1>0, <3>1 DEF SupType
  <2>3. CASE Listen(i)
    <3>1. CASE sup' = [sup EXCEPT ![i].told = TRUE, ![i].listening = FALSE]
      BY <1>0, <3>1 DEF SupType
    <3>2. CASE sup' = [sup EXCEPT ![i].detached = TRUE, ![i].listening = console = "on"]
      <4>1. sup \in [Ids -> SupType] /\ (console = "on") \in BOOLEAN
        BY <1>0
      <4>2. PICK b \in BOOLEAN : sup' = [sup EXCEPT ![i].detached = TRUE, ![i].listening = b]
        BY <3>2
      <4>. QED BY <4>1, <4>2 DEF SupType
    <3>. QED BY <2>3, <3>1, <3>2 DEF Listen
  <2>4. CASE ListenEnds(i)
    <3>1. sup' = [sup EXCEPT ![i].listening = FALSE, ![i].told = @ \/ ~sup[i].detached]
      BY <2>4 DEF ListenEnds
    <3>. QED BY <1>0, <3>1 DEF SupType
  <2>5. CASE PassOn(i)
    <3>1. sup' = [sup EXCEPT ![i].asked = TRUE]
      BY <2>5 DEF PassOn
    <3>. QED BY <1>0, <3>1 DEF SupType
  <2>6. CASE TellOwned(i)
    <3>1. PICK r : sup' = [sup EXCEPT ![i] = r] /\
            \/ r = [sup[i] EXCEPT !.owned_sent = TRUE]
            \/ r = [[sup[i] EXCEPT !.owned_sent = TRUE] EXCEPT !.told = TRUE]
      BY <2>6 DEF TellOwned, Emit
    <3>2. r \in SupType
      BY <1>0, <3>1 DEF SupType
    <3>. QED BY <1>0, <3>1, <3>2
  <2>7. CASE Ends(i)
    BY <1>0, <2>7 DEF Ends
  <2>. QED BY <2>1, <2>2, <2>3, <2>4, <2>5, <2>6, <2>7 DEF Supervisor
<1>2. pipe' \in [Ids -> PipeType]
  <2>1. CASE Boot(i) \/ Listen(i)
    <3>1. pipe[i] # <<>> /\ pipe' = [pipe EXCEPT ![i] = Tail(pipe[i])]
      BY <2>1 DEF Boot, Listen
    <3>2. Tail(pipe[i]) \in PipeType
      BY <1>0, <3>1, LinesOf DEF PipeType
    <3>. QED BY <1>0, <3>1, <3>2
  <2>2. CASE ~(Boot(i) \/ Listen(i))
    <3>1. UNCHANGED pipe
      BY <2>2 DEF Supervisor, BootFails, ListenEnds, PassOn, TellOwned, Follow, Ends, SupervisorKilled
    <3>. QED BY <1>0, <3>1
  <2>. QED BY <2>1, <2>2
<1>3. output' \in [Ids -> OutputType]
  <2>1. CASE Listen(i) \/ TellOwned(i)
    <3>1. PICK e \in {"owned", "detached"} : output' \in {output, [output EXCEPT ![i] = Append(output[i], e)]}
      BY <2>1 DEF Listen, TellOwned, Emit
    <3>2. Append(output[i], e) \in OutputType
      BY <1>0, LinesOf DEF OutputType
    <3>. QED BY <1>0, <3>1, <3>2
  <2>2. CASE ~(Listen(i) \/ TellOwned(i))
    <3>1. UNCHANGED output
      BY <2>2 DEF Supervisor, Boot, BootFails, ListenEnds, PassOn, Follow, Ends, SupervisorKilled
    <3>. QED BY <1>0, <3>1
  <2>. QED BY <2>1, <2>2
<1>4. service' \in [Ids -> {"none", "gone"} \cup Alive]
  BY <1>0 DEF Supervisor, Boot, BootFails, Listen, ListenEnds, PassOn, TellOwned, Emit, Follow, Ends,
              SupervisorKilled, Bereaved, Alive
<1>. QED BY <1>0, <1>1, <1>2, <1>3, <1>4 DEF ProcessTypeOK, SupType, PipeType, OutputType, consoleVars

\* What a step of supervisor i, of its service or against it does to what the
\* console may read or remember: nothing it has said becomes false, and it is
\* told to stop by a line, or by an end of the pipe it was not detached for.
Follows(i) ==
  /\ UNCHANGED consoleVars
  /\ \A j \in Ids \ {i} : sup'[j] = sup[j] /\ output'[j] = output[j] /\ pipe'[j] = pipe[j]
  /\ sup[i].at = "none" => sup'[i] = sup[i] /\ output'[i] = output[i] /\ pipe'[i] = pipe[i]
  /\ sup'[i].at \in {"boot", "serving"} => sup[i].at \in {"boot", "serving"}
  /\ sup[i].detached => sup'[i].detached
  /\ sup[i].owned_sent => sup'[i].owned_sent
  /\ sup'[i].told => \/ sup[i].told \/ "stop" \in Lines(pipe[i])
                     \/ (console # "on" /\ ~sup[i].detached)
  /\ Lines(pipe'[i]) \subseteq Lines(pipe[i])
  /\ "detached" \in Lines(output'[i]) => "detached" \in Lines(output[i]) \/ sup'[i].detached
  /\ "owned" \in Lines(output'[i]) => "owned" \in Lines(output[i]) \/ sup'[i].owned_sent

LEMMA Said ==
  ASSUME NEW f \in [Ids -> OutputType], NEW i \in Ids, NEW e \in {"owned", "detached"}
  PROVE  Lines([f EXCEPT ![i] = Append(f[i], e)][i]) = Lines(f[i]) \cup {e}
<1>1. Lines(Append(f[i], e)) = Lines(f[i]) \cup {e}
  BY LinesOf DEF OutputType
<1>. QED BY <1>1

LEMMA SupervisorFollows ==
  ASSUME ProcessTypeOK, NEW i \in Ids, Supervisor(i) \/ Ends(i) \/ SupervisorKilled(i)
  PROVE  Follows(i)
<1>0. sup \in [Ids -> SupType] /\ pipe \in [Ids -> PipeType] /\ output \in [Ids -> OutputType]
  BY DEF ProcessTypeOK, SupType, PipeType, OutputType
<1>1. CASE BootFails(i) \/ Follow(i) \/ SupervisorKilled(i)
  <2>1. /\ sup' = [sup EXCEPT ![i].at = "gone"] /\ sup[i].at # "none"
        /\ UNCHANGED <<consoleVars, pipe, output>>
    BY <1>1 DEF BootFails, Follow, SupervisorKilled, Up
  <2>. QED BY <1>0, <2>1 DEF SupType, Follows
<1>2. CASE Boot(i)
  <2>1. /\ sup[i].at = "boot" /\ pipe' = [pipe EXCEPT ![i] = Tail(pipe[i])] /\ pipe[i] # <<>>
        /\ UNCHANGED <<consoleVars, output>>
    BY <1>2 DEF Boot
  <2>2. Lines(pipe'[i]) \subseteq Lines(pipe[i])
    BY <1>0, <2>1, LinesOf DEF PipeType
  <2>3. sup' = [sup EXCEPT ![i].at = "serving", ![i].listening = TRUE] \/ sup' = [sup EXCEPT ![i].at = "gone"]
    BY <1>2 DEF Boot
  <2>4. /\ \A j \in Ids \ {i} : sup'[j] = sup[j]
        /\ sup'[i].detached = sup[i].detached /\ sup'[i].told = sup[i].told
        /\ sup'[i].owned_sent = sup[i].owned_sent
    BY <1>0, <2>3 DEF SupType
  <2>. QED BY <1>0, <2>1, <2>2, <2>4 DEF Follows
<1>3. CASE Listen(i)
  <2>1. /\ sup[i].at = "serving" /\ pipe' = [pipe EXCEPT ![i] = Tail(pipe[i])] /\ pipe[i] # <<>>
        /\ UNCHANGED consoleVars
    BY <1>3 DEF Listen
  <2>2. Lines(pipe'[i]) \subseteq Lines(pipe[i]) /\ Head(pipe[i]) \in Lines(pipe[i])
    BY <1>0, <2>1, LinesOf DEF PipeType
  <2>3. CASE Head(pipe[i]) = "stop"
    <3>1. sup' = [sup EXCEPT ![i].told = TRUE, ![i].listening = FALSE] /\ UNCHANGED output
      BY <1>3, <2>3 DEF Listen
    <3>2. /\ \A j \in Ids \ {i} : sup'[j] = sup[j]
          /\ sup'[i].detached = sup[i].detached /\ sup'[i].at = sup[i].at
          /\ sup'[i].owned_sent = sup[i].owned_sent
      BY <1>0, <3>1 DEF SupType
    <3>. QED BY <1>0, <2>1, <2>2, <2>3, <3>1, <3>2 DEF Follows
  <2>4. CASE Head(pipe[i]) # "stop"
    <3>1. /\ sup' = [sup EXCEPT ![i].detached = TRUE, ![i].listening = console = "on"]
          /\ output' \in {output, [output EXCEPT ![i] = Append(output[i], "detached")]}
      BY <1>3, <2>4 DEF Listen
    <3>2. PICK b \in BOOLEAN : sup' = [sup EXCEPT ![i].detached = TRUE, ![i].listening = b]
      BY <3>1
    <3>3. /\ \A j \in Ids \ {i} : sup'[j] = sup[j]
          /\ sup'[i].detached /\ sup'[i].at = sup[i].at /\ sup'[i].told = sup[i].told
          /\ sup'[i].owned_sent = sup[i].owned_sent
      BY <1>0, <3>2 DEF SupType
    <3>4. /\ \A j \in Ids \ {i} : output'[j] = output[j]
          /\ Lines(output'[i]) \subseteq Lines(output[i]) \cup {"detached"}
      BY <1>0, <3>1, Said
    <3>. QED BY <1>0, <2>1, <2>2, <3>3, <3>4 DEF Follows
  <2>. QED BY <2>3, <2>4
<1>4. CASE ListenEnds(i)
  <2>1. /\ sup' = [sup EXCEPT ![i].listening = FALSE, ![i].told = @ \/ ~sup[i].detached]
        /\ sup[i].at = "serving" /\ console # "on" /\ UNCHANGED <<consoleVars, pipe, output>>
    BY <1>4 DEF ListenEnds
  <2>2. PICK b \in BOOLEAN : /\ sup' = [sup EXCEPT ![i].listening = FALSE, ![i].told = b]
                             /\ b => sup[i].told \/ ~sup[i].detached
    BY <2>1
  <2>3. /\ \A j \in Ids \ {i} : sup'[j] = sup[j]
        /\ sup'[i].detached = sup[i].detached /\ sup'[i].at = sup[i].at /\ sup'[i].told = b
        /\ sup'[i].owned_sent = sup[i].owned_sent
    BY <1>0, <2>2 DEF SupType
  <2>. QED BY <2>1, <2>2, <2>3 DEF Follows
<1>5. CASE PassOn(i)
  <2>1. /\ sup' = [sup EXCEPT ![i].asked = TRUE] /\ sup[i].at # "none"
        /\ UNCHANGED <<consoleVars, pipe, output>>
    BY <1>5 DEF PassOn
  <2>. QED BY <1>0, <2>1 DEF SupType, Follows
<1>6. CASE TellOwned(i)
  <2>1. sup[i].at = "serving" /\ UNCHANGED <<consoleVars, pipe>>
    BY <1>6 DEF TellOwned
  <2>2. PICK t : t = [sup[i] EXCEPT !.owned_sent = TRUE]
    OBVIOUS
  <2>3. /\ t \in SupType /\ t.at = sup[i].at /\ (t.owned_sent <=> TRUE)
        /\ (t.detached <=> sup[i].detached) /\ (t.told <=> sup[i].told)
    BY <1>0, <2>2 DEF SupType
  <2>4. PICK r : /\ sup' = [sup EXCEPT ![i] = r]
                 /\ r = t \/ (r = [t EXCEPT !.told = TRUE] /\ console # "on" /\ ~t.detached)
    <3>1. Emit(i, "owned", t) /\ t.detached \in BOOLEAN
      BY <1>6, <2>2, <2>3 DEF TellOwned, SupType
    <3>2. \/ sup' = [sup EXCEPT ![i] = t]
          \/ (sup' = [sup EXCEPT ![i] = [t EXCEPT !.told = TRUE]] /\ console # "on" /\ ~t.detached)
      BY <3>1 DEF Emit
    <3>. QED BY <3>2
  <2>5. /\ r.at = sup[i].at /\ (r.detached <=> sup[i].detached) /\ (r.owned_sent <=> TRUE)
        /\ r.told => sup[i].told \/ (console # "on" /\ ~sup[i].detached)
    <3>1. CASE r = t
      BY <2>3, <3>1
    <3>2. CASE r = [t EXCEPT !.told = TRUE] /\ console # "on" /\ ~t.detached
      BY <2>3, <3>2 DEF SupType
    <3>. QED BY <2>4, <3>1, <3>2
  <2>6. output' \in {output, [output EXCEPT ![i] = Append(output[i], "owned")]}
    BY <1>6 DEF TellOwned, Emit
  <2>7. /\ \A j \in Ids \ {i} : output'[j] = output[j]
        /\ Lines(output'[i]) \subseteq Lines(output[i]) \cup {"owned"}
    BY <1>0, <2>6, Said
  <2>. QED BY <1>0, <2>1, <2>4, <2>5, <2>7 DEF Follows
<1>7. CASE Ends(i)
  BY <1>7 DEF Ends, Follows
<1>. QED BY <1>1, <1>2, <1>3, <1>4, <1>5, <1>6, <1>7 DEF Supervisor

LEMMA NoSupervisorIsNone == NoSupervisor.at = "none"
BY DEF NoSupervisor

LEMMA FollowsKeepsProcessInv ==
  ASSUME ProcessInv, NEW i \in Ids, Follows(i), ProcessTypeOK'
  PROVE  ProcessInv'
<1>0. /\ handle' = handle /\ console' = console /\ detaching' = detaching /\ reader' = reader
      /\ overtaken' = overtaken
  BY DEF Follows, consoleVars
<1>1. Future'
  BY <1>0, NoSupervisorIsNone DEF ProcessInv, Future, Follows
<1>d. DoneIsConfirmed'
  <2>1. handle.id # 0 => handle.id \in Ids
    BY BoundsAssumption DEF ProcessInv, ProcessTypeOK, Ids
  <2>2. \A j \in Ids : sup'[j].at \in {"boot", "serving"} => sup[j].at \in {"boot", "serving"}
    BY DEF Follows
  <2>3. running' => running
    BY <1>0, <2>1, <2>2 DEF running, Up
  <2>. QED BY <1>0, <2>3 DEF ProcessInv, DoneIsConfirmed
<1>r. ReadersConfirm'
  <2>1. \A j \in Ids : sup[j].detached => sup'[j].detached
    BY DEF Follows
  <2>. QED BY <1>0, <2>1 DEF ProcessInv, ReadersConfirm
<1>2. CASE handle.id = 0
  BY <1>0, <1>1, <1>2, <1>d, <1>r DEF ProcessInv, NewsIsTrue, NewsIsOfThisProcess, NeverTold, running
<1>3. CASE handle.id = i
  <2>1. NewsIsTrue' /\ NewsIsOfThisProcess'
    BY <1>0, <1>3 DEF ProcessInv, NewsIsTrue, NewsIsOfThisProcess, Follows
  <2>2. NeverTold'
    BY <1>0, <1>3 DEF ProcessInv, NeverTold, Unbidden, Follows, running, Up
  <2>. QED BY <1>1, <1>d, <1>r, <2>1, <2>2 DEF ProcessInv
<1>4. CASE handle.id # i /\ handle.id \in Ids
  <2>1. sup'[handle.id] = sup[handle.id] /\ output'[handle.id] = output[handle.id] /\ pipe'[handle.id] = pipe[handle.id]
    BY <1>4 DEF Follows
  <2>2. NewsIsTrue' /\ NewsIsOfThisProcess'
    BY <1>0, <2>1 DEF ProcessInv, NewsIsTrue, NewsIsOfThisProcess
  <2>3. NeverTold'
    BY <1>0, <2>1 DEF ProcessInv, NeverTold, Unbidden, running, Up
  <2>. QED BY <1>1, <1>d, <1>r, <2>2, <2>3 DEF ProcessInv
<1>. QED BY <1>2, <1>3, <1>4 DEF ProcessInv, ProcessTypeOK, Ids

----------------------------------------------------------------------------
\* The steps of the console: starting is the only one that gives it another
\* supervisor, and stop() the only one that writes "stop".
LEMMA ConsoleKeepsProcessInv ==
  ASSUME ProcessInv, Console \/ (\E i \in Ids : Hear(i) \/ Confirm(i))
  PROVE  ProcessInv'
<1>0. ProcessTypeOK'
  BY ConsoleKeepsTypes DEF ProcessInv
<1>t. /\ sup \in [Ids -> SupType] /\ pipe \in [Ids -> PipeType] /\ output \in [Ids -> OutputType]
      /\ handle \in HandleType /\ (running => handle.id \in Ids)
  BY DEF ProcessInv, ProcessTypeOK, SupType, PipeType, OutputType, HandleType, running, Ids
<1>1. CASE Start
  <2>1. /\ console' = "on" /\ handle.id + 1 \in Ids /\ handle' = NewHandle(handle.id + 1)
        /\ pipe' = [i \in Ids |-> <<>>] /\ output' = output
    BY <1>1, <1>t, BoundsAssumption DEF Start, Ids, HandleType
  <2>2. /\ handle'.id = handle.id + 1 /\ ~handle'.detached /\ ~handle'.owned
        /\ handle'.id # 0 /\ handle'.id \in Ids
    BY <1>t, <2>1 DEF NewHandle, HandleType
  <2>3. output[handle.id + 1] = <<>> /\ \A i \in Ids : i > handle.id + 1 => output[i] = <<>> /\ sup[i] = NoSupervisor
    BY <1>t, <2>1 DEF ProcessInv, Future, HandleType, Ids
  <2>4. /\ sup'[handle.id + 1] = [NoSupervisor EXCEPT !.at = "boot"]
        /\ \A i \in Ids : i > handle.id + 1 => sup'[i] = sup[i]
    BY <1>1, <2>1, <1>t DEF Start, HandleType, Ids
  <2>5. ~sup'[handle.id + 1].told
    BY <2>4 DEF NoSupervisor
  <2>6. Lines(<<>>) = {}
    BY DEF Lines
  <2>7. Future'
    BY <2>1, <2>2, <2>3, <2>4 DEF Future
  <2>8. NewsIsTrue' /\ NewsIsOfThisProcess'
    BY <2>1, <2>2, <2>3, <2>6 DEF NewsIsTrue, NewsIsOfThisProcess
  <2>9. NeverTold'
    BY <2>1, <2>2, <2>5, <2>6 DEF NeverTold, Unbidden
  <2>10. ReadersConfirm'
    <3>1. ASSUME NEW i \in Ids, reader'[i] = "confirms" PROVE i <= handle.id /\ overtaken'
      BY <1>1, <3>1 DEF Start, ProcessInv, Future, ReadersConfirm
    <3>2. \A i \in Ids : i <= handle.id => i <= handle.id + 1 /\ i # handle.id + 1
      BY <1>t DEF HandleType, Ids
    <3>. QED BY <2>2, <3>1, <3>2 DEF ReadersConfirm
  <2>11. DoneIsConfirmed'
    BY <1>1 DEF Start, DoneIsConfirmed
  <2>. QED BY <1>0, <2>7, <2>8, <2>9, <2>10, <2>11 DEF ProcessInv
<1>a. CASE Detach /\ UNCHANGED pipe
  <2>1. /\ UNCHANGED <<console, handle, reader, output, sup, overtaken, pipe>>
        /\ ~running \/ handle.detached
    BY <1>a, <1>t DEF Detach
  <2>2. UNCHANGED running
    BY <2>1 DEF running, Up
  <2>. QED BY <1>0, <2>1, <2>2 DEF ProcessInv, Future, NewsIsTrue, NewsIsOfThisProcess, NeverTold, Unbidden,
                  ReadersConfirm, DoneIsConfirmed
<1>2. CASE SendSpec \/ Stop \/ (Detach /\ ~UNCHANGED pipe)
  <2>1. PICK line \in {"spec", "stop", "detach"} :
           /\ pipe' = [pipe EXCEPT ![handle.id] = Append(pipe[handle.id], line)]
           /\ line = "stop" => handle'.stopping = "asked"
    BY <1>2, <1>t DEF SendSpec, Stop, Detach, HandleType
  <2>2. /\ console = "on" /\ running /\ handle.id \in Ids /\ UNCHANGED <<console, output, sup, reader, overtaken>>
        /\ detaching' \in {detaching, "waits"}
        /\ handle'.id = handle.id /\ (handle'.detached <=> handle.detached) /\ (handle'.owned <=> handle.owned)
        /\ handle'.stopping \in {handle.stopping, "asked"}
    BY <1>2, <1>t DEF SendSpec, Stop, Detach, HandleType
  <2>3. \A i \in Ids : i > handle.id => pipe'[i] = pipe[i]
    BY <1>t, <2>1, <2>2 DEF Ids
  <2>4. Lines(pipe'[handle.id]) = Lines(pipe[handle.id]) \cup {line}
    BY <1>t, <2>1, <2>2, LinesOf DEF PipeType
  <2>5. Future' /\ NewsIsTrue' /\ NewsIsOfThisProcess'
    BY <2>2, <2>3 DEF ProcessInv, Future, NewsIsTrue, NewsIsOfThisProcess
  <2>6. NeverTold'
    BY <2>1, <2>2, <2>4 DEF ProcessInv, NeverTold, Unbidden
  <2>7. ReadersConfirm' /\ DoneIsConfirmed'
    BY <2>2 DEF ProcessInv, ReadersConfirm, DoneIsConfirmed, running, Up
  <2>. QED BY <1>0, <2>5, <2>6, <2>7 DEF ProcessInv
<1>3. CASE TimeOut \/ DetachReturns \/ Stays
  <2>1. /\ UNCHANGED <<console, output, pipe, sup, reader, overtaken>> /\ handle'.id = handle.id
        /\ detaching' = "done" => (detaching = "done" \/ handle.detached)
        /\ (handle'.detached <=> handle.detached) /\ (handle'.owned <=> handle.owned)
        /\ handle'.stopping \in {handle.stopping, "late"}
    BY <1>3, <1>t DEF TimeOut, DetachReturns, Stays, HandleType
  <2>2. Future' /\ NewsIsTrue' /\ NewsIsOfThisProcess'
    BY <2>1 DEF ProcessInv, Future, NewsIsTrue, NewsIsOfThisProcess
  <2>3. NeverTold'
    BY <2>1 DEF ProcessInv, NeverTold, Unbidden, running, Up
  <2>4. ReadersConfirm' /\ DoneIsConfirmed'
    BY <2>1 DEF ProcessInv, ReadersConfirm, DoneIsConfirmed, running, Up
  <2>. QED BY <1>0, <2>2, <2>3, <2>4 DEF ProcessInv
<1>4. CASE SendFails \/ ForceStop
  <2>1. /\ console = "on" /\ handle.id \in Ids /\ sup' = [sup EXCEPT ![handle.id].at = "gone"]
        /\ handle' = [handle EXCEPT !.owned = FALSE]
        /\ UNCHANGED <<console, output, pipe, detaching, reader, overtaken>>
    BY <1>4, <1>t DEF SendFails, ForceStop, Forced
  <2>2. /\ handle'.id = handle.id /\ handle'.stopping = handle.stopping
        /\ (handle'.detached <=> handle.detached) /\ (handle'.owned <=> FALSE)
    BY <1>t, <2>1 DEF HandleType
  <2>3. /\ \A i \in Ids : i > handle.id => sup'[i] = sup[i]
        /\ sup'[handle.id].told <=> sup[handle.id].told
        /\ sup'[handle.id].detached <=> sup[handle.id].detached
        /\ sup'[handle.id].owned_sent <=> sup[handle.id].owned_sent
    BY <1>t, <2>1 DEF SupType, Ids
  <2>4. Future' /\ NewsIsTrue' /\ NewsIsOfThisProcess'
    BY <2>1, <2>2, <2>3 DEF ProcessInv, Future, NewsIsTrue, NewsIsOfThisProcess
  <2>5. NeverTold'
    BY <2>1, <2>2, <2>3 DEF ProcessInv, NeverTold, Unbidden
  <2>6. ReadersConfirm' /\ DoneIsConfirmed'
    <3>1. \A i \in Ids : sup'[i].detached <=> sup[i].detached
      BY <1>t, <2>1 DEF SupType
    <3>2. ~running'
      BY <1>t, <2>1, <2>2 DEF running, Up, SupType
    <3>. QED BY <2>1, <2>2, <3>1, <3>2 DEF ProcessInv, ReadersConfirm, DoneIsConfirmed
  <2>. QED BY <1>0, <2>4, <2>5, <2>6 DEF ProcessInv
<1>5. CASE Leave \/ Killed
  <2>1. UNCHANGED <<handle, output, pipe, sup, detaching, reader, overtaken>> /\ console = "on" /\ console' \in {"left", "killed"}
    BY <1>5 DEF Leave, Killed
  <2>2. Future' /\ NewsIsTrue' /\ NewsIsOfThisProcess'
    BY <2>1 DEF ProcessInv, Future, NewsIsTrue, NewsIsOfThisProcess
  <2>3. NeverTold'
    <3>1. CASE Killed
      BY <2>1, <3>1 DEF NeverTold, Killed
    <3>2. CASE Leave /\ running
      <4>1. sup[handle.id].detached \/ overtaken
        BY <3>2 DEF ProcessInv, DoneIsConfirmed, NewsIsOfThisProcess, Leave
      <4>. QED BY <2>1, <3>2, <4>1 DEF ProcessInv, NeverTold, Unbidden, Leave, running, Up
    <3>3. CASE Leave /\ ~running
      BY <2>1, <3>3 DEF NeverTold, Leave, running, Up
    <3>. QED BY <1>5, <3>1, <3>2, <3>3
  <2>4. ReadersConfirm' /\ DoneIsConfirmed'
    BY <2>1 DEF ProcessInv, ReadersConfirm, DoneIsConfirmed, running, Up
  <2>. QED BY <1>0, <2>2, <2>3, <2>4 DEF ProcessInv
<1>6. ASSUME NEW i \in Ids, Hear(i) PROVE ProcessInv'
  <2>1. /\ output[i] # <<>> /\ output' = [output EXCEPT ![i] = Tail(output[i])]
        /\ UNCHANGED <<console, pipe, sup, detaching, overtaken>>
    BY <1>6 DEF Hear
  <2>2. /\ Lines(output'[i]) \subseteq Lines(output[i]) /\ Head(output[i]) \in Lines(output[i])
        /\ \A j \in Ids \ {i} : output'[j] = output[j]
    BY <1>t, <2>1, LinesOf DEF OutputType
  <2>3. /\ handle'.id = handle.id /\ handle'.stopping = handle.stopping
        /\ handle'.detached <=> handle.detached
        /\ handle'.owned => handle.owned \/ (i = handle.id /\ Head(output[i]) = "owned")
    BY <1>6, <1>t DEF Hear, Present, HandleType
  <2>4. Head(output[i]) \in {"owned", "detached"} /\ output'[i] \in OutputType
    BY <1>t, <2>1, LinesOf DEF OutputType
  <2>5. Future'
    BY <2>1, <2>2, <2>3 DEF ProcessInv, Future
  <2>6. NewsIsTrue' /\ NewsIsOfThisProcess'
    <3>1. CASE handle.id = 0
      BY <2>3, <3>1 DEF ProcessInv, NewsIsTrue, NewsIsOfThisProcess, Ids
    <3>2. CASE handle.id # 0
      <4>1. handle.id \in Ids /\ Lines(output'[handle.id]) \subseteq Lines(output[handle.id])
        BY <1>t, <2>1, <2>2, <3>2 DEF HandleType, Ids
      <4>2. NewsIsTrue'
        BY <2>1, <2>3, <3>2, <4>1 DEF ProcessInv, NewsIsTrue
      <4>3. NewsIsOfThisProcess'
        BY <2>1, <2>2, <2>3, <2>4, <3>2 DEF ProcessInv, NewsIsTrue, NewsIsOfThisProcess
      <4>. QED BY <4>2, <4>3
    <3>. QED BY <3>1, <3>2
  <2>7. NeverTold'
    BY <2>1, <2>3 DEF ProcessInv, NeverTold, Unbidden, running, Up
  <2>8. ReadersConfirm'
    <3>1. ASSUME NEW j \in Ids, reader'[j] = "confirms", j # i
          PROVE  j <= handle.id /\ (IF j = handle.id THEN sup[j].detached ELSE overtaken)
      BY <1>6, <3>1 DEF Hear, ProcessInv, ReadersConfirm, ProcessTypeOK
    <3>2. ASSUME reader'[i] = "confirms" PROVE i = handle.id /\ sup[i].detached
      <4>1. i = handle.id /\ Head(output[i]) = "detached"
        BY <1>6, <3>2 DEF Hear, Present, ProcessInv, ProcessTypeOK
      <4>2. handle.id # 0
        BY <4>1 DEF Ids
      <4>. QED BY <2>2, <4>1, <4>2 DEF ProcessInv, NewsIsTrue
    <3>3. i <= i
      BY DEF Ids
    <3>. QED BY <2>1, <2>3, <3>1, <3>2, <3>3 DEF ReadersConfirm
  <2>9. DoneIsConfirmed'
    BY <2>1, <2>3 DEF ProcessInv, DoneIsConfirmed, running, Up
  <2>. QED BY <1>0, <2>5, <2>6, <2>7, <2>8, <2>9 DEF ProcessInv
<1>7. ASSUME NEW i \in Ids, Confirm(i) PROVE ProcessInv'
  <2>1. /\ reader[i] = "confirms" /\ reader' = [reader EXCEPT ![i] = "reads"]
        /\ handle' = [handle EXCEPT !.detached = TRUE]
        /\ UNCHANGED <<console, pipe, output, sup, detaching, overtaken>>
    BY <1>7 DEF Confirm
  <2>2. /\ handle'.id = handle.id /\ handle'.stopping = handle.stopping
        /\ handle'.detached /\ (handle'.owned <=> handle.owned)
    BY <1>t, <2>1 DEF HandleType
  <2>3. i <= handle.id /\ (IF i = handle.id THEN sup[i].detached ELSE overtaken)
    BY <2>1 DEF ProcessInv, ReadersConfirm
  <2>4. handle.id # 0
    BY <1>t, <2>3 DEF Ids
  <2>5. \A j \in Ids : reader'[j] = "confirms" => reader[j] = "confirms"
    BY <2>1
  <2>6. Future' /\ NewsIsTrue' /\ NewsIsOfThisProcess'
    BY <2>1, <2>2, <2>3, <2>4 DEF ProcessInv, Future, NewsIsTrue, NewsIsOfThisProcess
  <2>7. NeverTold' /\ ReadersConfirm' /\ DoneIsConfirmed'
    BY <2>1, <2>2, <2>5 DEF ProcessInv, NeverTold, Unbidden, ReadersConfirm, DoneIsConfirmed, running, Up
  <2>. QED BY <1>0, <2>6, <2>7 DEF ProcessInv
<1>. QED BY <1>a, <1>1, <1>2, <1>3, <1>4, <1>5, <1>6, <1>7 DEF Console

LEMMA StepKeepsProcessInv == ProcessInv /\ [ProcessNext]_processVars => ProcessInv'
<1> SUFFICES ASSUME ProcessInv, [ProcessNext]_processVars PROVE ProcessInv'
  OBVIOUS
<1>1. ASSUME NEW i \in Ids, Supervisor(i) \/ Ends(i) \/ SupervisorKilled(i) PROVE ProcessInv'
  <2>1. ProcessTypeOK' /\ Follows(i)
    BY <1>1, SupervisorKeepsTypes, SupervisorFollows DEF ProcessInv
  <2>. QED BY <2>1, FollowsKeepsProcessInv
<1>2. CASE UNCHANGED processVars
  BY <1>2 DEF processVars, ProcessInv, ProcessTypeOK, Future, NewsIsTrue, NewsIsOfThisProcess, NeverTold,
                  Unbidden, ReadersConfirm, DoneIsConfirmed, running, Up
<1>. QED BY <1>1, <1>2, ConsoleKeepsProcessInv DEF ProcessNext

\* The values of the state, however often the service is started.
THEOREM ProcessTyping == ProcessSpec => []ProcessTypeOK
<1>1. ProcessInv => ProcessTypeOK
  BY DEF ProcessInv
<1>. QED BY <1>1, InitHasProcessInv, StepKeepsProcessInv, PTL DEF ProcessSpec

\* What the console holds of its service was said by the service's own
\* supervisor, whatever an earlier one still has unread; a confirmation, unless
\* the start came between a reading thread's test and the event it sets.
THEOREM NewsOfThisProcess == ProcessSpec => []NewsIsOfThisProcess
<1>1. ProcessInv => NewsIsOfThisProcess
  BY DEF ProcessInv
<1>. QED BY <1>1, InitHasProcessInv, StepKeepsProcessInv, PTL DEF ProcessSpec

\* A service the console left behind on its own supervisor's confirmation, and
\* that nobody asked to stop, is never told to.
THEOREM LeftUntold == ProcessSpec => []LeftIsKept
<1>1. ProcessInv => LeftIsKept
  BY DEF ProcessInv, NeverTold, Unbidden, LeftIsKept
<1>. QED BY <1>1, InitHasProcessInv, StepKeepsProcessInv, PTL DEF ProcessSpec

----------------------------------------------------------------------------
(* The configuration page.  What its variables hold.                       *)

Updates  == [edit : Nat, new : Ports \cup Entries \cup {"other", "none"}]
Texts    == [of : Kinds \cup {"absent", "garbled"}, port : Ports \cup {"none"},
             entry : [Tunnels -> Entries \cup {"none"}], edits : SUBSET Nat]
Settings == [frp : FrpFiles, mode : {"yaml", "token-file"}]
Pages    == [kind : Kinds, file : Files, digest : Texts, baseline : Texts, raw : Texts,
             form : BOOLEAN, updates : Seq(Updates), invalid : Seq(Updates)]
SyncProposals == [t : Tunnels, file : Files, digest : Texts, text : Texts]
Places   == {"compare", "replace", "reread"}      \* of a save, with the lock
SaveJobs == [at : Places \cup {"idle", "next", "offer", "choose", "apply"},
             why : {"none", "save", "port", "origin"}, file : Files, digest : Texts,
             text : Texts, todo : Seq(SyncProposals), sync : BOOLEAN]
Stores   == [at : {"idle", "read", "compare", "replace"}, before : Texts, text : Texts]

FileShapes ==
  /\ disk \in [Files -> Texts] /\ settings \in Settings
  /\ lock \in [Files -> {"free", "console", "server"}]
  /\ store \in Stores
  /\ edits \in 0 .. MaxEdits /\ missed \subseteq 1 .. edits
  /\ moved \subseteq Files \cup {"settings"}

JobShapes ==
  /\ job \in SaveJobs
  /\ job.at = "idle" => job = NoJob
  /\ job.why = "none" => job.at = "idle"
  /\ \A i \in DOMAIN job.todo : KindOf(job.todo[i].file) = job.todo[i].t

\* No text has an edit that was not made yet.
Made(text) == text.edits \subseteq 0 .. edits

EditsMade ==
  /\ \A f \in Files : Made(disk[f])
  /\ Made(job.text) /\ Made(store.text)
  /\ \A i \in DOMAIN job.todo : Made(job.todo[i].text)

EditsOf(updates) == {updates[i].edit : i \in DOMAIN updates}

\* What the form of a page holds.
InForm(p) == EditsOf(p.updates) \cup EditsOf(p.invalid)

Empty(p) == p.updates = <<>> /\ p.invalid = <<>>

\* What was typed is not in the text that was loaded, and is on the page.
PageShapes ==
  /\ page \in Pages /\ KindOf(page.file) = page.kind
  /\ Made(page.baseline) /\ Made(page.raw) /\ InForm(page) \subseteq 0 .. edits

DraftInv ==
  /\ ~page.form => Empty(page)
  /\ typed \subseteq 1 .. edits
  /\ typed \cap page.baseline.edits = {}
  /\ typed \subseteq page.raw.edits \cup InForm(page)

\* Of the text it was loaded from the page has every edit, when it could be read.
PageHasEdits ==
  /\ page.digest.of # "garbled" => page.digest.edits \subseteq page.raw.edits \cup missed
  /\ disk[page.file] = Absent => page.digest = Absent

\* Who writes a file holds its lock.
Writing == job.at \in Places

LocksHeld ==
  /\ Writing => lock[job.file] = "console"
  /\ store.at # "idle" => lock["lan"] = "server"

\* What replaces a file has the edits of the text it replaces.
JobHasEdits ==
  /\ job.why = "save" /\ Writing =>
       job.file = page.file /\ job.digest = page.digest /\ job.text = page.raw /\ Empty(page)
  /\ Writing => job.text.of = KindOf(job.file)
  /\ job.why \in {"port", "origin"} => job.digest.edits = job.text.edits
  /\ \A i \in DOMAIN job.todo : job.todo[i].digest.edits = job.todo[i].text.edits
  /\ job.at = "replace" => disk[job.file].edits \subseteq job.digest.edits \cup missed
  /\ job.at = "reread" => disk[job.file].edits \subseteq job.text.edits \cup missed

StoreHasEdits ==
  /\ store.at \in {"compare", "replace"} => store.text.of = "lan"
  /\ store.at = "read" => store.before.edits \subseteq disk["lan"].edits
  /\ store.at = "compare" => store.before.edits \subseteq store.text.edits
  /\ store.at = "replace" => disk["lan"].edits \subseteq store.text.edits \cup missed

\* What a synchronisation goes by: the page is what was saved, and what follows
\* agrees with it.
Saved == page.digest = page.baseline \/ page.digest.edits \cap missed # {}

Following ==
  /\ job.at = "next" => job.todo # <<>>
  /\ job.todo # <<>> => page.kind = "lan"
  /\ \A i \in DOMAIN job.todo :
       job.todo[i].text.port = IF job.why = "save" /\ Writing THEN page.raw.port ELSE page.baseline.port
  /\ job.why = "port" => page.kind = "lan" /\ job.file # "lan" /\ job.text.port = page.baseline.port

Offering ==
  /\ job.at = "offer" => job.why = "save" /\ page.kind \in Tunnels /\ job.todo = <<>>
  /\ job.at \in {"choose", "apply"} => job.why = "origin"
  /\ job.why = "origin" =>
       /\ page.kind \in Tunnels /\ job.file = "lan" /\ job.todo = <<>>
       /\ job.text.entry[page.kind] = page.baseline.entry[page.kind] /\ job.text.port = page.baseline.port

\* Between the check and the end of the save it is for.
Checked ==
  InSync =>
    /\ page.file \in moved \/ disk[page.file] = page.digest
    /\ job.why = "port" /\ "settings" \notin moved =>
         job.file = Selected(KindOf(job.file)) /\ Yaml(KindOf(job.file))
    /\ job.why = "origin" /\ "settings" \notin moved => page.file = Selected(page.kind) /\ Yaml(page.kind)

SyncInv ==
  /\ Following /\ Offering /\ Checked
  /\ job.at = "reread" => disk[job.file] = job.text \/ disk[job.file].edits \cap missed # {}
  /\ job.why \in {"port", "origin"} \/ job.at \in {"next", "offer"} => Saved

ConfigInv ==
  /\ FileShapes /\ JobShapes /\ EditsMade /\ PageShapes /\ DraftInv /\ PageHasEdits
  /\ LocksHeld /\ JobHasEdits /\ StoreHasEdits /\ SyncInv

----------------------------------------------------------------------------
(* What the operators give.                                                *)

LEMMA KindsOfFiles ==
  /\ "lan" \in Files /\ "cf" \in Files /\ FrpFiles \subseteq Files
  /\ \A f \in Files : KindOf(f) \in Kinds /\ (KindOf(f) = "lan" <=> f = "lan")
  /\ KindOf("lan") = "lan" /\ KindOf("cf") = "cf" /\ \A f \in FrpFiles : KindOf(f) = "frp"
  /\ "frp" # "lan" /\ Tunnels \subseteq Kinds \ {"lan"}
BY ConfigAssumption DEF Files, KindOf, Kinds, Tunnels

LEMMA SelectedFiles ==
  ASSUME settings \in Settings, NEW t \in Tunnels
  PROVE  Selected(t) \in Files /\ KindOf(Selected(t)) = t /\ Selected(t) # "lan"
BY KindsOfFiles, ConfigAssumption DEF Selected, Tunnels, Settings

LEMMA Nothing ==
  /\ Absent \in Texts /\ Absent.of = "absent" /\ Absent.edits = {}
  /\ NoJob \in SaveJobs /\ NoJob.at = "idle" /\ NoJob.why = "none" /\ NoJob.todo = <<>> /\ NoJob.text = Absent
  /\ NoStore \in Stores /\ NoStore.at = "idle" /\ NoStore.text = Absent
<1>1. Absent \in Texts /\ Absent.of = "absent" /\ Absent.edits = {}
  BY DEF Absent, Text, Texts, NoEntry
<1>2. <<>> \in Seq(SyncProposals)
  OBVIOUS
<1> QED BY <1>1, <1>2, KindsOfFiles DEF NoJob, NoStore, SaveJobs, Stores, Places

LEMMA MaxOfPlaces ==
  ASSUME NEW n \in Nat, NEW S \in SUBSET (1 .. n), S # {}
  PROVE  Max(S) \in S
<1> DEFINE Less == OpToRel(<, Nat)
<1>1. IsWellFoundedOn(Less, Nat)
  BY NatLessThanWellFounded
<1>2. \A x, y \in Nat : x < y => <<x, y>> \in Less
  BY DEF OpToRel
<1> DEFINE T == {n - i : i \in S}
<1>3. T \in SUBSET Nat /\ T # {}
  <2>1. \A i \in S : i \in Nat /\ n - i \in Nat
    OBVIOUS
  <2> QED BY <2>1
<1>4. PICK x \in T : \A y \in T : <<y, x>> \notin Less
  <2> HIDE DEF Less, T
  <2> QED BY <1>1, <1>3, WFMin
<1>5. \A y \in T : y >= x
  <2> HIDE DEF Less, T
  <2>1. x \in Nat /\ \A y \in T : y \in Nat /\ ~ (y < x)
    BY <1>2, <1>3, <1>4
  <2> QED BY <2>1
<1>6. PICK i \in S : x = n - i
  BY <1>4
<1>7. \A j \in S : i >= j
  <2> TAKE j \in S
  <2>1. n - j >= n - i
    BY <1>5, <1>6
  <2> QED BY <2>1
<1>8. \E k \in S : \A j \in S : k >= j
  BY <1>7
<1> HIDE DEF Less, T
<1> QED BY <1>8 DEF Max

LEMMA LastIsSet ==
  ASSUME NEW us \in Seq(Updates), NEW S, NEW old
  PROVE  LastSet(us, S, old) \in S \cup {old}
<1> DEFINE is == {i \in 1 .. Len(us) : us[i].new \in S}
<1>1. SelectLastInSeq(us, LAMBDA u : u.new \in S) = IF is # {} THEN Max(is) ELSE 0
  BY DEF SelectLastInSeq
<1>2. CASE is = {}
  BY <1>1, <1>2 DEF LastSet
<1>3. CASE is # {}
  <2>1. Len(us) \in Nat /\ is \in SUBSET (1 .. Len(us))
    OBVIOUS
  <2>2. Max(is) \in is
    <3> HIDE DEF is
    <3> QED BY <1>3, <2>1, MaxOfPlaces
  <2>3. Max(is) # 0 /\ us[Max(is)].new \in S
    BY <2>2
  <2> QED BY <1>1, <1>3, <2>3 DEF LastSet
<1> QED BY <1>2, <1>3

LEMMA Changed ==
  ASSUME NEW text \in Texts, NEW kind, NEW x \in Changes
  PROVE  /\ Change(text, kind, x) \in Texts
         /\ Change(text, kind, x).edits = text.edits /\ Change(text, kind, x).of = text.of
<1>1. CASE x \in Ports
  BY <1>1 DEF Change, Texts
<1>2. CASE x \notin Ports /\ x \in Entries
  <2>1. PICK e : e = [t \in Tunnels |-> IF t = kind THEN x ELSE text.entry[t]]
    OBVIOUS
  <2>2. e \in [Tunnels -> Entries \cup {"none"}]
    BY <1>2, <2>1 DEF Texts
  <2>3. Change(text, kind, x) = [text EXCEPT !.entry = e]
    BY <1>2, <2>1 DEF Change
  <2> QED BY <2>2, <2>3 DEF Texts
<1>3. CASE x \notin Ports /\ x \notin Entries
  BY <1>3 DEF Change
<1> QED BY <1>1, <1>2, <1>3

LEMMA AppliedPage ==
  ASSUME NEW p \in Pages
  PROVE  /\ Applied(p) \in Pages
         /\ Applied(p).kind = p.kind /\ Applied(p).file = p.file /\ Applied(p).digest = p.digest
         /\ Applied(p).baseline = p.baseline /\ Applied(p).form = p.form /\ Applied(p).invalid = p.invalid
         /\ Applied(p).updates = <<>> /\ Applied(p).raw.of = p.raw.of
         /\ Applied(p).raw.edits = p.raw.edits \cup EditsOf(p.updates)
<1>1. p.raw \in Texts /\ p.updates \in Seq(Updates) /\ \A i \in DOMAIN p.updates : p.updates[i].edit \in Nat
  <2>1. p.raw \in Texts /\ p.updates \in Seq(Updates)
    BY DEF Pages
  <2>2. \A u \in Updates : u.edit \in Nat
    BY DEF Updates
  <2> QED BY <2>1, <2>2
<1>2. PICK port : port = LastSet(p.updates, Ports, p.raw.port)
  OBVIOUS
<1>3. port \in Ports \cup {"none"}
  BY <1>1, <1>2, LastIsSet DEF Texts
<1>4. PICK entry : entry = [t \in Tunnels |-> IF t = p.kind THEN LastSet(p.updates, Entries, p.raw.entry[t])
                                             ELSE p.raw.entry[t]]
  OBVIOUS
<1>5. entry \in [Tunnels -> Entries \cup {"none"}]
  <2>1. \A t \in Tunnels : p.raw.entry[t] \in Entries \cup {"none"}
    BY <1>1 DEF Texts
  <2>2. \A t \in Tunnels : LastSet(p.updates, Entries, p.raw.entry[t]) \in Entries \cup {"none"}
    BY <1>1, <2>1, LastIsSet
  <2> QED BY <1>4, <2>1, <2>2
<1>6. PICK es : es = {p.updates[i].edit : i \in DOMAIN p.updates} /\ es = EditsOf(p.updates)
  BY DEF EditsOf
<1>7. {u.edit : u \in ToSet(p.updates)} = es /\ es \in SUBSET Nat
  <2>1. ToSet(p.updates) = {p.updates[i] : i \in DOMAIN p.updates}
    BY DEF ToSet
  <2> QED BY <1>1, <1>6, <2>1
<1>8. PICK text : text = [p.raw EXCEPT !.port = port, !.entry = entry, !.edits = p.raw.edits \cup es]
  OBVIOUS
<1>9. text \in Texts /\ text.of = p.raw.of /\ text.edits = p.raw.edits \cup es
  BY <1>1, <1>3, <1>5, <1>7, <1>8 DEF Texts
<1>10. Applied(p) = [p EXCEPT !.raw = text, !.updates = <<>>]
  BY <1>2, <1>4, <1>7, <1>8 DEF Applied
<1>11. <<>> \in Seq(Updates)
  OBVIOUS
<1> QED BY <1>6, <1>9, <1>10, <1>11 DEF Pages

LEMMA LoadedPage ==
  ASSUME page \in Pages, disk \in [Files -> Texts], NEW kind \in Kinds, NEW f \in Files
  PROVE  /\ Loaded(kind, f) \in Pages /\ Loaded(kind, f).kind = kind /\ Loaded(kind, f).file = f
         /\ Loaded(kind, f).digest = disk[f] /\ Empty(Loaded(kind, f))
         /\ IF disk[f].of = "garbled"
            THEN Loaded(kind, f).raw = page.raw /\ Loaded(kind, f).baseline = page.baseline
            ELSE Loaded(kind, f).raw = disk[f] /\ Loaded(kind, f).baseline = disk[f]
<1>1. PICK form \in BOOLEAN : form = (disk[f] # Absent /\ disk[f].of # "garbled")
  OBVIOUS
<1>2. PICK new : new = [page EXCEPT !.kind = kind, !.file = f, !.digest = disk[f], !.updates = <<>>,
                                    !.invalid = <<>>, !.form = form]
  OBVIOUS
<1>3. <<>> \in Seq(Updates) /\ disk[f] \in Texts
  OBVIOUS
<1>4. /\ new \in Pages /\ new.kind = kind /\ new.file = f /\ new.digest = disk[f] /\ Empty(new)
      /\ new.raw = page.raw /\ new.baseline = page.baseline
  BY <1>1, <1>2, <1>3 DEF Pages, Empty
<1>5. Loaded(kind, f) = IF disk[f].of = "garbled" THEN new ELSE [new EXCEPT !.raw = disk[f], !.baseline = disk[f]]
  BY <1>1, <1>2 DEF Loaded
<1> QED BY <1>3, <1>4, <1>5 DEF Pages, Empty

\* A job and what became of it are of the same save.
OfSave(j, k) ==
  /\ j.why = k.why /\ j.file = k.file /\ j.digest = k.digest
  /\ j.text = k.text /\ j.todo = k.todo

LEMMA Movings ==
  ASSUME NEW j \in SaveJobs, NEW a \in Places \cup {"idle", "next", "offer", "choose", "apply"}
  PROVE  [j EXCEPT !.at = a] \in SaveJobs /\ OfSave([j EXCEPT !.at = a], j) /\ [j EXCEPT !.at = a].at = a
BY DEF SaveJobs, OfSave

LEMMA AfterSave ==
  ASSUME NEW j \in SaveJobs, NEW done \in BOOLEAN
  PROVE  /\ After(j, done) \in SaveJobs
         /\ \/ After(j, done) = NoJob
            \/ /\ OfSave(After(j, done), j)
               /\ \/ After(j, done).at = "next" /\ j.todo # <<>> /\ (j.why = "port" \/ done)
                  \/ After(j, done).at = "offer" /\ j.todo = <<>> /\ j.why = "save" /\ done /\ page.kind \in Tunnels
<1>1. CASE j.todo # <<>> /\ (j.why = "port" \/ done)
  BY <1>1, Movings DEF After
<1>2. CASE /\ ~(j.todo # <<>> /\ (j.why = "port" \/ done))
           /\ j.why = "save" /\ j.sync /\ done /\ page.kind \in Tunnels
  BY <1>2, Movings DEF After
<1>3. CASE /\ ~(j.todo # <<>> /\ (j.why = "port" \/ done))
           /\ ~(j.why = "save" /\ j.sync /\ done /\ page.kind \in Tunnels)
  BY <1>3, Nothing DEF After
<1> QED BY <1>1, <1>2, <1>3

\* A save that begins takes the lock of its file, which was free.
Begun(j) ==
  /\ lock' = [lock EXCEPT ![j.file] = "console"] /\ lock[j.file] = "free"
  /\ j.text.of = KindOf(j.file) /\ disk[j.file] = j.digest
  /\ job' \in SaveJobs /\ job'.at = "compare" /\ OfSave(job', j)

LEMMA SaveBegun ==
  ASSUME NEW j, [j EXCEPT !.at = "compare"] \in SaveJobs, OfSave([j EXCEPT !.at = "compare"], j),
         [j EXCEPT !.at = "compare"].at = "compare", SaveBegins(j)
  PROVE  Begun(j) \/ (job' = After(j, FALSE) /\ UNCHANGED lock)
BY DEF SaveBegins, Begun, Valid

----------------------------------------------------------------------------
(* The user at the page, while nothing is saved.                           *)

LEMMA EditingKeeps ==
  ASSUME ConfigInv, job.at = "idle", UNCHANGED <<disk, lock, job, store, missed>>,
         moved' = moved \/ moved' = {}, settings' \in Settings, edits' \in {edits, edits + 1}, edits' \in 0 .. MaxEdits,
         PageShapes', DraftInv', PageHasEdits'
  PROVE  ConfigInv'
<1>1. job = NoJob /\ job' = NoJob /\ edits \in Nat
  BY DEF ConfigInv, JobShapes, FileShapes
<1>2. FileShapes'
  BY <1>1 DEF ConfigInv, FileShapes
<1>3. JobShapes' /\ LocksHeld'
  BY <1>1, Nothing DEF ConfigInv, JobShapes, LocksHeld, Writing, Places
<1>4. EditsMade'
  BY <1>1 DEF ConfigInv, EditsMade, Made
<1>5. JobHasEdits' /\ StoreHasEdits'
  BY <1>1, Nothing DEF ConfigInv, JobHasEdits, StoreHasEdits, Writing, Places
<1>6. SyncInv'
  BY <1>1, Nothing DEF SyncInv, Following, Offering, Checked, InSync
<1> QED BY <1>2, <1>3, <1>4, <1>5, <1>6 DEF ConfigInv

LEMMA Appended ==
  ASSUME NEW q \in Seq(Updates), NEW u \in Updates
  PROVE  /\ Append(q, u) \in Seq(Updates)
         /\ EditsOf(Append(q, u)) = EditsOf(q) \cup {u.edit}
<1>1. /\ Append(q, u) \in Seq(Updates) /\ DOMAIN Append(q, u) = DOMAIN q \cup {Len(q) + 1}
      /\ \A i \in DOMAIN q : Append(q, u)[i] = q[i]
      /\ Append(q, u)[Len(q) + 1] = u
  OBVIOUS
<1> QED BY <1>1 DEF EditsOf

LEMMA NoEdits == EditsOf(<<>>) = {}
BY DEF EditsOf

LEMMA Joined ==
  ASSUME NEW q \in Seq(Updates), NEW r \in Seq(Updates)
  PROVE  /\ q \o r \in Seq(Updates)
         /\ EditsOf(q \o r) = EditsOf(q) \cup EditsOf(r)
<1>1. /\ q \o r \in Seq(Updates) /\ DOMAIN (q \o r) = 1 .. Len(q) + Len(r)
      /\ DOMAIN q = 1 .. Len(q) /\ DOMAIN r = 1 .. Len(r) /\ Len(q) \in Nat /\ Len(r) \in Nat
  OBVIOUS
<1>2. \A i \in DOMAIN q : i \in DOMAIN (q \o r) /\ (q \o r)[i] = q[i]
  BY <1>1
<1>3. \A i \in DOMAIN r : Len(q) + i \in DOMAIN (q \o r) /\ (q \o r)[Len(q) + i] = r[i]
  BY <1>1
<1>4. \A i \in DOMAIN (q \o r) : i \in DOMAIN q \/ (i - Len(q) \in DOMAIN r /\ i = Len(q) + (i - Len(q)))
  BY <1>1
<1>5. {(q \o r)[i].edit : i \in DOMAIN (q \o r)}
        \subseteq {q[i].edit : i \in DOMAIN q} \cup {r[i].edit : i \in DOMAIN r}
  BY <1>2, <1>3, <1>4
<1>6. {q[i].edit : i \in DOMAIN q} \cup {r[i].edit : i \in DOMAIN r}
        \subseteq {(q \o r)[i].edit : i \in DOMAIN (q \o r)}
  BY <1>2, <1>3
<1> QED BY <1>1, <1>5, <1>6 DEF EditsOf

\* A change of the draft, perhaps with a new edit, that takes nothing away.
LEMMA DraftKeeps ==
  ASSUME ConfigInv, UNCHANGED <<disk, missed>>, NEW p \in Pages, page' = p,
         p.kind = page.kind, p.file = page.file, p.digest = page.digest, p.baseline = page.baseline,
         ~p.form => Empty(p), page.raw.edits \subseteq p.raw.edits, NEW new,
         \/ new = {} /\ edits' = edits /\ typed' = typed
         \/ new = {edits + 1} /\ edits' = edits + 1 /\ typed' = typed \cup {edits + 1},
         p.raw.edits \cup InForm(p) \subseteq page.raw.edits \cup InForm(page) \cup new \cup {0},
         page.raw.edits \cup InForm(page) \cup new \subseteq p.raw.edits \cup InForm(p)
  PROVE  PageShapes' /\ DraftInv' /\ PageHasEdits'
<1>1. /\ edits \in Nat /\ edits' \in Nat /\ edits <= edits' /\ new \subseteq 1 .. edits' /\ typed' = typed \cup new
      /\ new \cap (0 .. edits) = {}
  BY DEF ConfigInv, FileShapes
<1>2. PageShapes'
  <2>1. /\ KindOf(page.file) = page.kind /\ page.baseline.edits \subseteq 0 .. edits
        /\ page.raw.edits \subseteq 0 .. edits /\ InForm(page) \subseteq 0 .. edits
    BY DEF ConfigInv, PageShapes, Made
  <2>2. p.raw.edits \subseteq 0 .. edits' /\ InForm(p) \subseteq 0 .. edits' /\ p.baseline.edits \subseteq 0 .. edits'
    <3>1. 0 .. edits \subseteq 0 .. edits' /\ new \cup {0} \subseteq 0 .. edits'
      BY <1>1
    <3> QED BY <2>1, <3>1
  <2> QED BY <2>1, <2>2 DEF PageShapes, Made
<1>3. DraftInv'
  <2>1. typed \subseteq 1 .. edits /\ typed \cap page.baseline.edits = {} /\ page.baseline.edits \subseteq 0 .. edits
        /\ typed \subseteq page.raw.edits \cup InForm(page)
    BY DEF ConfigInv, PageShapes, DraftInv, Made
  <2>2. typed' \subseteq 1 .. edits' /\ typed' \cap p.baseline.edits = {}
    BY <1>1, <2>1
  <2>3. typed' \subseteq p.raw.edits \cup InForm(p)
    BY <1>1, <2>1
  <2> QED BY <2>2, <2>3 DEF DraftInv
<1>4. PageHasEdits'
  BY DEF ConfigInv, PageHasEdits
<1> QED BY <1>2, <1>3, <1>4

LEMMA LoadsKeep ==
  ASSUME ConfigInv, NEW kind \in Kinds, NEW f \in Files, KindOf(f) = kind, UNCHANGED <<disk, edits, missed>>,
         page' = Loaded(kind, f), typed' = {}
  PROVE  PageShapes' /\ DraftInv' /\ PageHasEdits'
<1>1. page \in Pages /\ disk \in [Files -> Texts] /\ Made(disk[f]) /\ Made(page.raw) /\ Made(page.baseline)
  BY DEF ConfigInv, FileShapes, EditsMade, PageShapes
<1>2. PICK p : p = Loaded(kind, f)
  OBVIOUS
<1>3. /\ p \in Pages /\ p.kind = kind /\ p.file = f /\ p.digest = disk[f] /\ Empty(p)
      /\ (p.raw = disk[f] /\ p.baseline = disk[f]) \/ (p.raw = page.raw /\ p.baseline = page.baseline)
      /\ disk[f].of # "garbled" => p.raw = disk[f]
  BY <1>1, <1>2, LoadedPage
<1>4. InForm(p) = {}
  BY <1>3, NoEdits DEF InForm, Empty
<1>5. PageShapes'
  BY <1>1, <1>2, <1>3, <1>4 DEF PageShapes, Made
<1>6. DraftInv'
  BY <1>2, <1>3, <1>4 DEF DraftInv
<1>7. PageHasEdits'
  BY <1>2, <1>3 DEF PageHasEdits
<1> QED BY <1>5, <1>6, <1>7

LEMMA AppliedDraft ==
  ASSUME ConfigInv, NEW form \in BOOLEAN, NEW p, p = [Applied(page) EXCEPT !.form = form], form \/ page.invalid = <<>>
  PROVE  /\ p \in Pages /\ p.kind = page.kind /\ p.file = page.file /\ p.digest = page.digest
         /\ p.baseline = page.baseline /\ p.updates = <<>> /\ p.invalid = page.invalid
         /\ p.form = form /\ (~p.form => Empty(p))
         /\ p.raw = Applied(page).raw /\ page.raw.edits \subseteq p.raw.edits
         /\ p.raw.edits \cup InForm(p) = page.raw.edits \cup InForm(page)
<1>1. page \in Pages
  BY DEF ConfigInv, PageShapes
<1>2. PICK a : a = Applied(page)
  OBVIOUS
<1>3. /\ a \in Pages /\ a.kind = page.kind /\ a.file = page.file /\ a.digest = page.digest
      /\ a.baseline = page.baseline /\ a.invalid = page.invalid /\ a.updates = <<>>
      /\ a.raw.edits = page.raw.edits \cup EditsOf(page.updates)
  BY <1>1, <1>2, AppliedPage
<1>4. /\ p \in Pages /\ p.kind = a.kind /\ p.file = a.file /\ p.digest = a.digest /\ p.baseline = a.baseline
      /\ p.invalid = a.invalid /\ p.updates = a.updates /\ p.raw = a.raw /\ p.form = form
  BY <1>2, <1>3 DEF Pages
<1>5. InForm(p) = EditsOf(page.invalid)
  BY <1>3, <1>4, NoEdits DEF InForm
<1> QED BY <1>2, <1>3, <1>4, <1>5 DEF InForm, Empty

LEMMA EditingStep ==
  ASSUME ConfigInv, Editing
  PROVE  ConfigInv'
<1>0. /\ page \in Pages /\ KindOf(page.file) = page.kind /\ edits \in 0 .. MaxEdits /\ MaxEdits \in Nat
      /\ settings \in Settings /\ disk \in [Files -> Texts]
  BY ConfigAssumption DEF ConfigInv, FileShapes, PageShapes
<1>1. ASSUME NEW x \in Changes, Type(x) PROVE ConfigInv'
  <2>1. /\ Idle /\ edits < MaxEdits /\ edits' = edits + 1 /\ typed' = typed \cup {edits + 1} /\ ~page.form
        /\ UNCHANGED <<disk, settings, lock, job, store, missed, moved>>
    BY <1>1 DEF Type, Typing
  <2>2. PICK c : c = Change(page.raw, page.kind, x)
    OBVIOUS
  <2>3. c \in Texts /\ c.edits = page.raw.edits
    BY <1>0, <2>2, Changed DEF Pages
  <2>4. PICK t : t = [c EXCEPT !.of = page.kind, !.edits = page.raw.edits \cup {edits + 1}]
    OBVIOUS
  <2>5. t \in Texts /\ t.edits = page.raw.edits \cup {edits + 1}
    <3>1. page.kind \in Kinds /\ page.raw.edits \cup {edits + 1} \in SUBSET Nat
      BY <1>0, <2>3 DEF Pages, Texts
    <3> QED BY <2>3, <2>4, <3>1 DEF Texts
  <2>6. PICK p : p = [page EXCEPT !.raw = t]
    OBVIOUS
  <2>7. /\ p \in Pages /\ p.kind = page.kind /\ p.file = page.file /\ p.digest = page.digest /\ p.form = page.form
        /\ p.baseline = page.baseline /\ p.updates = page.updates /\ p.invalid = page.invalid /\ p.raw = t
    BY <1>0, <2>5, <2>6 DEF Pages
  <2>8. page' = p
    BY <1>1, <2>1, <2>2, <2>4, <2>6 DEF Type
  <2>9. InForm(p) = InForm(page) /\ (~p.form => Empty(p))
    BY <2>7 DEF InForm, Empty, ConfigInv, DraftInv
  <2>10. PageShapes' /\ DraftInv' /\ PageHasEdits'
    <3>1. PICK new : new = {edits + 1}
      OBVIOUS
    <3> QED BY <2>1, <2>5, <2>7, <2>8, <2>9, <3>1, DraftKeeps
  <2> QED BY <1>0, <2>1, <2>10, EditingKeeps DEF Idle
<1>2. ASSUME NEW x \in Changes, Field(x) \/ Misfield(x) PROVE ConfigInv'
  <2>1. /\ Idle /\ edits < MaxEdits /\ edits' = edits + 1 /\ typed' = typed \cup {edits + 1} /\ page.form
        /\ UNCHANGED <<disk, settings, lock, job, store, missed, moved>>
    BY <1>2 DEF Field, Misfield, Typing
  <2>2. PICK u : u = [edit |-> edits + 1, new |-> x]
    OBVIOUS
  <2>3. u \in Updates /\ u.edit = edits + 1
    BY <1>0, <2>2 DEF Updates, Changes
  <2>4. PICK us, is : /\ \/ (us = Append(page.updates, u) /\ is = page.invalid)
                         \/ (us = page.updates /\ is = Append(page.invalid, u))
                      /\ page' = [page EXCEPT !.updates = us, !.invalid = is]
    <3>1. CASE Field(x)
      <4>1. page' = [page EXCEPT !.updates = Append(page.updates, u)]
        BY <2>1, <2>2, <3>1 DEF Field
      <4>2. page' = [page EXCEPT !.updates = Append(page.updates, u), !.invalid = page.invalid]
        BY <1>0, <4>1 DEF Pages
      <4> QED BY <4>2
    <3>2. CASE Misfield(x)
      <4>1. page' = [page EXCEPT !.invalid = Append(page.invalid, u)]
        BY <2>1, <2>2, <3>2 DEF Misfield
      <4>2. page' = [page EXCEPT !.updates = page.updates, !.invalid = Append(page.invalid, u)]
        BY <1>0, <4>1 DEF Pages
      <4> QED BY <4>2
    <3> QED BY <1>2, <3>1, <3>2
  <2>5. page.updates \in Seq(Updates) /\ page.invalid \in Seq(Updates)
    BY <1>0 DEF Pages
  <2>6. /\ us \in Seq(Updates) /\ is \in Seq(Updates)
        /\ EditsOf(us) \cup EditsOf(is) = InForm(page) \cup {edits + 1}
    BY <2>3, <2>4, <2>5, Appended DEF InForm
  <2>7. PICK p : p = [page EXCEPT !.updates = us, !.invalid = is]
    OBVIOUS
  <2>8. /\ p \in Pages /\ p.kind = page.kind /\ p.file = page.file /\ p.digest = page.digest /\ p.form = page.form
        /\ p.baseline = page.baseline /\ p.updates = us /\ p.invalid = is /\ p.raw = page.raw
    BY <1>0, <2>6, <2>7 DEF Pages
  <2>9. InForm(p) = InForm(page) \cup {edits + 1}
    BY <2>6, <2>8 DEF InForm
  <2>10. PageShapes' /\ DraftInv' /\ PageHasEdits'
    <3>1. PICK new : new = {edits + 1}
      OBVIOUS
    <3> QED BY <2>1, <2>4, <2>7, <2>8, <2>9, <3>1, DraftKeeps
  <2> QED BY <1>0, <2>1, <2>10, EditingKeeps DEF Idle
<1>d. ASSUME Idle, NEW p \in Pages, Draft(p), p.kind = page.kind, p.file = page.file, p.digest = page.digest,
             p.baseline = page.baseline, ~p.form => Empty(p), page.raw.edits \subseteq p.raw.edits,
             p.raw.edits \cup InForm(p) \subseteq page.raw.edits \cup InForm(page) \cup {0},
             page.raw.edits \cup InForm(page) \subseteq p.raw.edits \cup InForm(p)
      PROVE  ConfigInv'
  <2>1. page' = p /\ UNCHANGED <<disk, settings, lock, typed, job, store, edits, missed, moved>>
    BY <1>d DEF Draft
  <2>2. PageShapes' /\ DraftInv' /\ PageHasEdits'
    <3>1. PICK new : new = {}
      OBVIOUS
    <3> QED BY <1>d, <2>1, <3>1, DraftKeeps
  <2> QED BY <1>0, <1>d, <2>1, <2>2, EditingKeeps DEF Idle
<1>3. CASE Refield
  <2>1. Idle /\ page.invalid # <<>> /\ Draft([page EXCEPT !.updates = page.updates \o page.invalid, !.invalid = <<>>])
    BY <1>3 DEF Refield
  <2>2. PICK us : us = page.updates \o page.invalid
    OBVIOUS
  <2>3. page.updates \in Seq(Updates) /\ page.invalid \in Seq(Updates) /\ <<>> \in Seq(Updates)
    BY <1>0 DEF Pages
  <2>4. us \in Seq(Updates) /\ EditsOf(us) = InForm(page)
    BY <2>2, <2>3, Joined DEF InForm
  <2>5. PICK p : p = [page EXCEPT !.updates = us, !.invalid = <<>>]
    OBVIOUS
  <2>6. /\ p \in Pages /\ p.kind = page.kind /\ p.file = page.file /\ p.digest = page.digest /\ p.form = page.form
        /\ p.baseline = page.baseline /\ p.updates = us /\ p.invalid = <<>> /\ p.raw = page.raw
    BY <1>0, <2>3, <2>4, <2>5 DEF Pages
  <2>7. InForm(p) = InForm(page)
    BY <2>4, <2>6, NoEdits DEF InForm
  <2>8. p.form
    BY <2>1, <2>6 DEF ConfigInv, DraftInv, Empty
  <2> QED BY <1>d, <2>1, <2>2, <2>5, <2>6, <2>7, <2>8
<1>4. CASE ApplySharePort
  <2>1. Idle /\ page.form /\ Draft([page EXCEPT !.updates = Append(page.updates, [edit |-> 0, new |-> disk["lan"].port])])
    BY <1>4 DEF ApplySharePort
  <2>2. PICK u : u = [edit |-> 0, new |-> disk["lan"].port]
    OBVIOUS
  <2>3. u \in Updates /\ u.edit = 0
    <3>1. disk["lan"].port \in Ports \cup {"none"}
      BY <1>0, KindsOfFiles DEF Texts
    <3> QED BY <2>2, <3>1 DEF Updates
  <2>4. PICK us : us = Append(page.updates, u)
    OBVIOUS
  <2>5. us \in Seq(Updates) /\ EditsOf(us) = EditsOf(page.updates) \cup {0}
    <3>1. page.updates \in Seq(Updates)
      BY <1>0 DEF Pages
    <3> QED BY <2>3, <2>4, <3>1, Appended
  <2>6. PICK p : p = [page EXCEPT !.updates = us]
    OBVIOUS
  <2>7. /\ p \in Pages /\ p.kind = page.kind /\ p.file = page.file /\ p.digest = page.digest /\ p.form = page.form
        /\ p.baseline = page.baseline /\ p.updates = us /\ p.invalid = page.invalid /\ p.raw = page.raw
    BY <1>0, <2>5, <2>6 DEF Pages
  <2>8. InForm(p) = InForm(page) \cup {0}
    BY <2>5, <2>7 DEF InForm
  <2> QED BY <1>d, <2>1, <2>2, <2>4, <2>6, <2>7, <2>8
<1>5. CASE ToggleMode
  <2>1. CASE page.form
    <3>1. Idle /\ page.invalid = <<>> /\ Draft([Applied(page) EXCEPT !.form = FALSE])
      BY <1>5, <2>1 DEF ToggleMode
    <3>2. PICK p : p = [Applied(page) EXCEPT !.form = FALSE]
      OBVIOUS
    <3>3. /\ p \in Pages /\ p.kind = page.kind /\ p.file = page.file /\ p.digest = page.digest
          /\ p.baseline = page.baseline /\ (~p.form => Empty(p)) /\ page.raw.edits \subseteq p.raw.edits
          /\ p.raw.edits \cup InForm(p) = page.raw.edits \cup InForm(page)
      BY <3>1, <3>2, AppliedDraft
    <3> QED BY <1>d, <3>1, <3>2, <3>3
  <2>2. CASE ~page.form
    <3>1. Idle /\ Draft([page EXCEPT !.form = TRUE])
      BY <1>5, <2>2 DEF ToggleMode
    <3>2. PICK p : p = [page EXCEPT !.form = TRUE]
      OBVIOUS
    <3>3. /\ p \in Pages /\ p.kind = page.kind /\ p.file = page.file /\ p.digest = page.digest /\ p.form
          /\ p.baseline = page.baseline /\ p.updates = page.updates /\ p.invalid = page.invalid /\ p.raw = page.raw
      BY <1>0, <3>2 DEF Pages
    <3>4. InForm(p) = InForm(page)
      BY <3>3 DEF InForm
    <3> QED BY <1>d, <3>1, <3>2, <3>3, <3>4
  <2> QED BY <2>1, <2>2
<1>6. CASE ChangeProxy \/ SaveCopy
  <2>1. Idle /\ page.form /\ page.invalid = <<>> /\ Draft(Applied(page))
    BY <1>6 DEF ChangeProxy, SaveCopy, Flush
  <2>2. PICK p : p = [Applied(page) EXCEPT !.form = TRUE]
    OBVIOUS
  <2>3. p = Applied(page)
    BY <1>0, <2>1, <2>2, AppliedPage DEF Pages
  <2>4. /\ p \in Pages /\ p.kind = page.kind /\ p.file = page.file /\ p.digest = page.digest
        /\ p.baseline = page.baseline /\ (~p.form => Empty(p)) /\ page.raw.edits \subseteq p.raw.edits
        /\ p.raw.edits \cup InForm(p) = page.raw.edits \cup InForm(page)
    BY <2>1, <2>2, AppliedDraft
  <2> QED BY <1>d, <2>1, <2>3, <2>4
<1>l. ASSUME Idle, NEW kind \in Kinds, NEW f \in Files, KindOf(f) = kind, Loads(kind, f), settings' \in Settings
      PROVE  ConfigInv'
  <2>1. page' = Loaded(kind, f) /\ typed' = {} /\ UNCHANGED <<disk, lock, job, store, edits, missed, moved>>
    BY <1>l DEF Loads
  <2>2. PageShapes' /\ DraftInv' /\ PageHasEdits'
    BY <1>l, <2>1, LoadsKeep
  <2> QED BY <1>0, <1>l, <2>1, <2>2, EditingKeeps DEF Idle
<1>7. ASSUME NEW kind \in Kinds, ChangeKind(kind) PROVE ConfigInv'
  <2>1. CASE kind = "lan"
    <3>1. Idle /\ Loads(kind, "lan") /\ settings' = settings
      BY <1>7, <2>1 DEF ChangeKind
    <3> QED BY <1>0, <1>l, <2>1, <3>1, KindsOfFiles
  <2>2. CASE kind # "lan"
    <3>1. Idle /\ Loads(kind, Selected(kind)) /\ settings' = settings
      BY <1>7, <2>2 DEF ChangeKind
    <3>2. kind \in Tunnels
      BY <2>2 DEF Kinds
    <3> QED BY <1>0, <1>l, <3>1, <3>2, SelectedFiles
  <2> QED BY <2>1, <2>2
<1>8. CASE Reload
  <2>1. Idle /\ Loads(page.kind, page.file) /\ settings' = settings /\ page.kind \in Kinds /\ page.file \in Files
    BY <1>0, <1>8 DEF Reload, Pages
  <2> QED BY <1>0, <1>l, <2>1
<1>9. ASSUME NEW f \in Files, OpenFile(f) PROVE ConfigInv'
  <2>1. Idle /\ KindOf(f) = page.kind /\ Loads(page.kind, f) /\ page.kind \in Kinds
    BY <1>0, <1>9 DEF OpenFile, Pages
  <2>2. settings' \in Settings
    <3>1. CASE page.kind = "frp"
      <4>1. f \in FrpFiles
        BY <2>1, <3>1, ConfigAssumption DEF KindOf, Files
      <4>2. settings' = [settings EXCEPT !.frp = f]
        BY <1>9, <3>1 DEF OpenFile
      <4> QED BY <1>0, <4>1, <4>2 DEF Settings
    <3>2. CASE page.kind # "frp"
      BY <1>0, <1>9, <3>2 DEF OpenFile
    <3> QED BY <3>1, <3>2
  <2> QED BY <1>l, <2>1, <2>2
<1>10. ASSUME NEW q \in Ports, CreateExample(q) PROVE ConfigInv'
  <2>1. /\ Idle /\ disk[page.file] = Absent /\ typed' = {}
        /\ UNCHANGED <<disk, settings, lock, job, store, edits, missed, moved>>
    BY <1>10 DEF CreateExample
  <2>2. PICK t : t = Text(page.kind, q, NoEntry, {})
    OBVIOUS
  <2>3. t \in Texts /\ t.edits = {}
    <3>1. page.kind \in Kinds /\ NoEntry \in [Tunnels -> Entries \cup {"none"}]
      BY <1>0 DEF Pages, NoEntry
    <3> QED BY <2>2, <3>1 DEF Text, Texts
  <2>4. PICK p : p = [page EXCEPT !.raw = t, !.updates = <<>>, !.invalid = <<>>, !.form = TRUE]
    OBVIOUS
  <2>5. page' = p
    BY <1>10, <2>2, <2>4 DEF CreateExample
  <2>6. <<>> \in Seq(Updates)
    OBVIOUS
  <2>7. /\ p \in Pages /\ p.kind = page.kind /\ p.file = page.file /\ p.digest = page.digest
        /\ p.baseline = page.baseline /\ Empty(p) /\ p.raw = t
    BY <1>0, <2>3, <2>4, <2>6 DEF Pages, Empty
  <2>8. InForm(p) = {}
    BY <2>7, NoEdits DEF InForm, Empty
  <2>9. PageShapes'
    BY <2>1, <2>3, <2>5, <2>7, <2>8 DEF ConfigInv, PageShapes, Made
  <2>10. DraftInv'
    BY <2>1, <2>5, <2>7 DEF DraftInv
  <2>11. PageHasEdits'
    BY <2>1, <2>5, <2>7, Nothing DEF ConfigInv, PageHasEdits
  <2> QED BY <1>0, <2>1, <2>9, <2>10, <2>11, EditingKeeps DEF Idle
<1> QED BY <1>1, <1>2, <1>3, <1>4, <1>5, <1>6, <1>7, <1>8, <1>9, <1>10 DEF Editing

----------------------------------------------------------------------------
(* Everybody else, who leaves the page and its saves alone.                *)

LEMMA OthersKeep ==
  ASSUME ConfigInv, UNCHANGED <<page, typed, job>>, edits' \in {edits, edits + 1}, missed \subseteq missed',
         FileShapes', \A f \in Files : Made(disk[f])', Made(store.text)',
         \A f \in Files : disk'[f] = Absent => disk[f] = Absent,
         job.at \in {"replace", "reread"} =>
           \/ disk'[job.file] = disk[job.file]
           \/ /\ disk'[job.file].edits \subseteq disk[job.file].edits \cup missed'
              /\ disk'[job.file].edits \cap missed' # {},
         LocksHeld', StoreHasEdits', Checked'
  PROVE  ConfigInv'
<1>1. edits \in Nat /\ edits' \in Nat /\ edits <= edits' /\ 0 .. edits \subseteq 0 .. edits' /\ 1 .. edits \subseteq 1 .. edits'
  BY DEF ConfigInv, FileShapes
<1>2. JobShapes'
  BY DEF ConfigInv, JobShapes
<1>3. EditsMade'
  BY <1>1 DEF ConfigInv, EditsMade, Made
<1>4. PageShapes'
  BY <1>1 DEF ConfigInv, PageShapes, Made
<1>5. DraftInv'
  BY <1>1 DEF ConfigInv, DraftInv
<1>6. PageHasEdits'
  BY DEF ConfigInv, PageHasEdits, PageShapes, Pages
<1>7. job.at = "replace" => disk'[job.file].edits \subseteq job.digest.edits \cup missed'
  BY DEF ConfigInv, JobHasEdits
<1>8. job.at = "reread" => disk'[job.file].edits \subseteq job.text.edits \cup missed'
  BY DEF ConfigInv, JobHasEdits
<1>9. JobHasEdits'
  BY <1>7, <1>8 DEF ConfigInv, JobHasEdits, Writing
<1>10. SyncInv'
  <2>1. Following' /\ Offering'
    BY DEF ConfigInv, SyncInv, Following, Offering, Writing
  <2>2. job.at = "reread" => disk'[job.file] = job.text \/ disk'[job.file].edits \cap missed' # {}
    BY DEF ConfigInv, SyncInv
  <2>3. job.why \in {"port", "origin"} \/ job.at \in {"next", "offer"} => Saved'
    BY DEF ConfigInv, SyncInv, Saved
  <2> QED BY <2>1, <2>2, <2>3 DEF SyncInv
<1> QED BY <1>2, <1>3, <1>4, <1>5, <1>6, <1>9, <1>10 DEF ConfigInv

LEMMA MovesKeep ==
  ASSUME Checked, UNCHANGED <<page, job>>, NEW x, Moves(x), moved \subseteq Files \cup {"settings"},
         page.file # x => disk'[page.file] = disk[page.file],
         x # "settings" => settings' = settings
  PROVE  Checked'
<1>1. InSync' <=> InSync
  BY DEF InSync
<1>2. CASE ~InSync
  BY <1>1, <1>2 DEF Checked
<1>3. CASE InSync
  <2>1. moved' = moved \cup {x}
    BY <1>3 DEF Moves
  <2>2. page.file \in moved' \/ disk'[page.file] = page.digest
    BY <1>3, <2>1 DEF Checked
  <2>3. \A t : settings' = settings => Selected(t)' = Selected(t) /\ (Yaml(t)' <=> Yaml(t))
    BY DEF Selected, Yaml
  <2>4. "settings" \notin moved' => "settings" \notin moved /\ settings' = settings
    BY <2>1
  <2> QED BY <1>1, <1>3, <2>2, <2>3, <2>4 DEF Checked
<1> QED BY <1>2, <1>3

LEMMA StillKeep ==
  ASSUME Checked, UNCHANGED <<page, job, moved, disk, settings>>
  PROVE  Checked'
BY DEF Checked, InSync, Selected, Yaml

LEMMA EditStep ==
  ASSUME ConfigInv, NEW f \in Files, NEW new \in Texts, new.edits = disk[f].edits, new.of # "absent", Edit(f, new)
  PROVE  ConfigInv'
<1>0. /\ disk \in [Files -> Texts] /\ settings \in Settings /\ edits \in 0 .. MaxEdits /\ MaxEdits \in Nat
      /\ missed \subseteq 1 .. edits /\ moved \subseteq Files \cup {"settings"}
  BY ConfigAssumption DEF ConfigInv, FileShapes
<1>1. /\ edits < MaxEdits /\ edits' = edits + 1 /\ missed' = missed \cup (IF Replacing(f) THEN {edits + 1} ELSE {})
      /\ Moves(f) /\ UNCHANGED <<settings, lock, page, typed, job, store>>
  BY DEF Edit
<1>2. PICK t : t = [new EXCEPT !.edits = new.edits \cup {edits + 1}]
  OBVIOUS
<1>3. t \in Texts /\ t.of = new.of /\ t.edits = disk[f].edits \cup {edits + 1}
  <2>1. new.edits \cup {edits + 1} \in SUBSET Nat
    BY <1>0 DEF Texts
  <2> QED BY <1>2, <2>1 DEF Texts
<1>4. disk' = [disk EXCEPT ![f] = t]
  BY <1>1, <1>2 DEF Edit
<1>5. disk'[f] = t /\ disk' \in [Files -> Texts] /\ \A g \in Files \ {f} : disk'[g] = disk[g]
  BY <1>0, <1>3, <1>4
<1>6. edits' \in 0 .. MaxEdits /\ 0 .. edits \subseteq 0 .. edits' /\ edits + 1 \in 0 .. edits' /\ 1 .. edits \subseteq 1 .. edits'
      /\ edits + 1 \in 1 .. edits'
  BY <1>0, <1>1
<1>7. missed \subseteq missed' /\ missed' \subseteq 1 .. edits'
  BY <1>0, <1>1, <1>6
<1>8. FileShapes'
  <2>1. moved' \subseteq Files \cup {"settings"}
    BY <1>0, <1>1 DEF Moves
  <2> QED BY <1>0, <1>1, <1>5, <1>6, <1>7, <2>1 DEF ConfigInv, FileShapes
<1>9. \A g \in Files : Made(disk[g])'
  BY <1>3, <1>5, <1>6 DEF ConfigInv, EditsMade, Made
<1>10. Made(store.text)'
  BY <1>1, <1>6 DEF ConfigInv, EditsMade, Made
<1>11. \A g \in Files : disk'[g] = Absent => disk[g] = Absent
  BY <1>3, <1>5, Nothing
<1>12. job.at \in {"replace", "reread"} =>
           \/ disk'[job.file] = disk[job.file]
           \/ /\ disk'[job.file].edits \subseteq disk[job.file].edits \cup missed'
              /\ disk'[job.file].edits \cap missed' # {}
  <2>1. job.file \in Files
    BY DEF ConfigInv, JobShapes, SaveJobs
  <2>2. job.at \in {"replace", "reread"} /\ job.file = f => edits + 1 \in missed'
    BY <1>1 DEF Replacing
  <2> QED BY <1>3, <1>5, <2>1, <2>2
<1>13. LocksHeld'
  BY <1>1 DEF ConfigInv, LocksHeld, Writing
<1>14. StoreHasEdits'
  <2>1. disk["lan"].edits \subseteq disk'["lan"].edits /\ disk'["lan"].edits \subseteq disk["lan"].edits \cup {edits + 1}
    BY <1>3, <1>5, KindsOfFiles
  <2>2. store.at = "replace" => disk'["lan"].edits \subseteq store.text.edits \cup missed'
    <3>1. store.at = "replace" /\ f = "lan" => edits + 1 \in missed'
      BY <1>1 DEF Replacing
    <3>2. f # "lan" => disk'["lan"] = disk["lan"]
      BY <1>5, KindsOfFiles
    <3> QED BY <1>7, <2>1, <3>1, <3>2 DEF ConfigInv, StoreHasEdits
  <2> QED BY <1>1, <2>1, <2>2 DEF ConfigInv, StoreHasEdits
<1>15. Checked'
  <2>1. Checked /\ page.file \in Files
    BY DEF ConfigInv, SyncInv, PageShapes, Pages
  <2> QED BY <1>0, <1>1, <1>5, <2>1, MovesKeep
<1> QED BY <1>1, <1>7, <1>8, <1>9, <1>10, <1>11, <1>12, <1>13, <1>14, <1>15, OthersKeep

LEMMA OthersStep ==
  ASSUME ConfigInv, Others
  PROVE  ConfigInv'
<1>0. /\ disk \in [Files -> Texts] /\ settings \in Settings /\ edits \in 0 .. MaxEdits /\ MaxEdits \in Nat
      /\ lock \in [Files -> {"free", "console", "server"}] /\ store \in Stores
      /\ missed \subseteq 1 .. edits /\ moved \subseteq Files \cup {"settings"}
  BY ConfigAssumption DEF ConfigInv, FileShapes
<1>c. Checked /\ page.file \in Files /\ "lan" \in Files
  BY KindsOfFiles DEF ConfigInv, SyncInv, PageShapes, Pages
<1>1. ASSUME NEW frp \in FrpFiles, NEW mode \in {"yaml", "token-file"}, Setting(frp, mode) PROVE ConfigInv'
  <2>1. /\ edits < MaxEdits /\ edits' = edits + 1 /\ settings' = [frp |-> frp, mode |-> mode] /\ Moves("settings")
        /\ UNCHANGED <<disk, lock, page, typed, job, store, missed>>
    BY <1>1 DEF Setting
  <2>2. edits' \in 0 .. MaxEdits /\ 0 .. edits \subseteq 0 .. edits' /\ 1 .. edits \subseteq 1 .. edits'
    BY <1>0, <2>1
  <2>3. FileShapes'
    <3>1. moved' \subseteq Files \cup {"settings"} /\ settings' \in Settings
      BY <1>0, <2>1 DEF Moves, Settings
    <3> QED BY <1>0, <2>1, <2>2, <3>1 DEF FileShapes
  <2>4. (\A f \in Files : Made(disk[f])') /\ Made(store.text)'
    BY <2>1, <2>2 DEF ConfigInv, EditsMade, Made
  <2>5. LocksHeld' /\ StoreHasEdits'
    BY <2>1 DEF ConfigInv, LocksHeld, StoreHasEdits, Writing
  <2>6. Checked'
    BY <1>0, <1>c, <2>1, MovesKeep
  <2> QED BY <2>1, <2>3, <2>4, <2>5, <2>6, OthersKeep
<1>2. ASSUME NEW f \in Files, Edits(f) PROVE ConfigInv'
  <2>0. disk[f] \in Texts /\ KindOf(f) \in Kinds
    BY <1>0, KindsOfFiles
  <2>1. ASSUME NEW x \in Changes, Edit(f, [Change(disk[f], KindOf(f), x) EXCEPT !.of = KindOf(f)]) PROVE ConfigInv'
    <3>1. PICK c : c = Change(disk[f], KindOf(f), x)
      OBVIOUS
    <3>2. c \in Texts /\ c.edits = disk[f].edits
      BY <2>0, <3>1, Changed
    <3>3. PICK new : new = [c EXCEPT !.of = KindOf(f)]
      OBVIOUS
    <3>4. new \in Texts /\ new.edits = disk[f].edits /\ new.of # "absent"
      BY <2>0, <3>2, <3>3 DEF Texts, Kinds, Tunnels
    <3> QED BY <2>1, <3>1, <3>3, <3>4, EditStep
  <2>2. CASE Edit(f, [disk[f] EXCEPT !.of = "garbled"])
    <3>1. PICK new : new = [disk[f] EXCEPT !.of = "garbled"]
      OBVIOUS
    <3>2. new \in Texts /\ new.edits = disk[f].edits /\ new.of # "absent"
      BY <2>0, <3>1 DEF Texts
    <3> QED BY <2>2, <3>1, <3>2, EditStep
  <2> QED BY <1>2, <2>1, <2>2 DEF Edits
<1>3. ASSUME UNCHANGED <<disk, settings, page, typed, job, missed, moved>>, edits' \in {edits, edits + 1},
             edits' \in 0 .. MaxEdits, store' \in Stores, lock' \in [Files -> {"free", "console", "server"}],
             Made(store.text)', LocksHeld', StoreHasEdits'
      PROVE  ConfigInv'
  <2>1. edits \in Nat /\ 0 .. edits \subseteq 0 .. edits' /\ 1 .. edits \subseteq 1 .. edits'
    BY <1>0, <1>3
  <2>2. FileShapes'
    BY <1>0, <1>3, <2>1 DEF FileShapes
  <2>3. \A f \in Files : Made(disk[f])'
    BY <1>3, <2>1 DEF ConfigInv, EditsMade, Made
  <2>4. Checked'
    BY <1>3, <1>c, StillKeep
  <2> QED BY <1>3, <2>2, <2>3, <2>4, OthersKeep
<1>e. ASSUME StoreEnds, UNCHANGED <<job>>, store.at # "idle" PROVE
        /\ store' \in Stores /\ lock' \in [Files -> {"free", "console", "server"}]
        /\ Made(store.text)' /\ LocksHeld' /\ StoreHasEdits'
  <2>1. store' = NoStore /\ lock' = [lock EXCEPT !["lan"] = "free"]
    BY <1>e DEF StoreEnds
  <2>2. Writing => job.file # "lan" /\ job.file \in Files
    BY <1>e DEF ConfigInv, LocksHeld, JobShapes, SaveJobs
  <2>3. LocksHeld'
    BY <1>0, <1>c, <1>e, <2>1, <2>2, Nothing DEF ConfigInv, LocksHeld, Writing
  <2> QED BY <1>0, <1>c, <2>1, <2>3, Nothing DEF Made, StoreHasEdits
<1>4. CASE StoreBegins
  <2>1. /\ lock["lan"] = "free" /\ edits < MaxEdits /\ edits' = edits + 1
        /\ store' = [at |-> "read", before |-> disk["lan"], text |-> Absent]
        /\ lock' = [lock EXCEPT !["lan"] = "server"]
        /\ UNCHANGED <<disk, settings, page, typed, job, missed, moved>>
    BY <1>4 DEF StoreBegins
  <2>2. edits' \in 0 .. MaxEdits
    BY <1>0, <2>1
  <2>3. store' \in Stores /\ lock' \in [Files -> {"free", "console", "server"}]
    BY <1>0, <1>c, <2>1, Nothing DEF Stores
  <2>4. Made(store.text)' /\ StoreHasEdits'
    BY <2>1, Nothing DEF Made, StoreHasEdits
  <2>5. LocksHeld'
    <3>1. Writing => job.file # "lan" /\ job.file \in Files
      BY <2>1 DEF ConfigInv, LocksHeld, JobShapes, SaveJobs
    <3> QED BY <1>0, <1>c, <2>1, <3>1 DEF ConfigInv, LocksHeld, Writing
  <2> QED BY <1>3, <2>1, <2>2, <2>3, <2>4, <2>5
<1>5. CASE StoreReads
  <2>1. store.at = "read" /\ UNCHANGED <<disk, settings, page, typed, job, edits, missed, moved>>
    BY <1>5 DEF StoreReads
  <2>2. CASE StoreEnds
    BY <1>0, <1>3, <1>e, <2>1, <2>2
  <2>3. CASE /\ disk["lan"].of = "lan" /\ UNCHANGED lock
             /\ store' = [store EXCEPT !.at = "compare",
                                       !.text = [disk["lan"] EXCEPT !.edits = disk["lan"].edits \cup {edits}]]
    <3>1. PICK t : t = [disk["lan"] EXCEPT !.edits = disk["lan"].edits \cup {edits}]
      OBVIOUS
    <3>2. t \in Texts /\ t.of = "lan" /\ t.edits = disk["lan"].edits \cup {edits}
      <4>1. disk["lan"] \in Texts /\ disk["lan"].edits \cup {edits} \in SUBSET Nat
        BY <1>0, <1>c DEF Texts
      <4> QED BY <2>3, <3>1, <4>1 DEF Texts
    <3>3. store' = [store EXCEPT !.at = "compare", !.text = t]
      BY <2>3, <3>1
    <3>4. store' \in Stores /\ store'.at = "compare" /\ store'.before = store.before /\ store'.text = t
      BY <1>0, <3>2, <3>3 DEF Stores
    <3>5. Made(store.text)'
      BY <1>0, <1>c, <2>1, <3>2, <3>4 DEF ConfigInv, EditsMade, Made
    <3>6. StoreHasEdits'
      BY <2>1, <3>2, <3>4 DEF ConfigInv, StoreHasEdits
    <3>7. LocksHeld'
      BY <2>1, <2>3, <3>4 DEF ConfigInv, LocksHeld, Writing
    <3> QED BY <1>0, <1>3, <2>1, <2>3, <3>4, <3>5, <3>6, <3>7
  <2> QED BY <1>5, <2>2, <2>3 DEF StoreReads
<1>6. CASE StoreCompares
  <2>1. store.at = "compare" /\ UNCHANGED <<disk, settings, page, typed, job, edits, missed, moved>>
    BY <1>6 DEF StoreCompares
  <2>2. CASE StoreEnds
    BY <1>0, <1>3, <1>e, <2>1, <2>2
  <2>3. CASE Same /\ store' = [store EXCEPT !.at = "replace"] /\ UNCHANGED lock
    <3>1. store' \in Stores /\ store'.at = "replace" /\ store'.before = store.before /\ store'.text = store.text
      BY <1>0, <2>3 DEF Stores
    <3>2. Made(store.text)'
      BY <2>1, <3>1 DEF ConfigInv, EditsMade, Made
    <3>3. StoreHasEdits'
      BY <2>1, <2>3, <3>1 DEF ConfigInv, StoreHasEdits, Same
    <3>4. LocksHeld'
      BY <2>1, <2>3, <3>1 DEF ConfigInv, LocksHeld, Writing
    <3> QED BY <1>0, <1>3, <2>1, <2>3, <3>1, <3>2, <3>3, <3>4
  <2> QED BY <1>6, <2>2, <2>3 DEF StoreCompares
<1>7. CASE StoreReplaces
  <2>1. /\ store.at = "replace" /\ disk' = [disk EXCEPT !["lan"] = store.text] /\ Moves("lan") /\ StoreEnds
        /\ UNCHANGED <<settings, page, typed, job, edits, missed>>
    BY <1>7 DEF StoreReplaces
  <2>2. /\ store.text \in Texts /\ disk' \in [Files -> Texts] /\ disk'["lan"] = store.text
        /\ \A f \in Files \ {"lan"} : disk'[f] = disk[f]
    BY <1>0, <1>c, <2>1 DEF Stores
  <2>3. FileShapes'
    <3>1. moved' \subseteq Files \cup {"settings"}
      BY <1>0, <1>c, <2>1 DEF Moves
    <3> QED BY <1>0, <1>e, <2>1, <2>2, <3>1 DEF FileShapes
  <2>4. (\A f \in Files : Made(disk[f])') /\ Made(store.text)'
    BY <1>e, <2>1, <2>2 DEF ConfigInv, EditsMade, Made
  <2>5. \A f \in Files : disk'[f] = Absent => disk[f] = Absent
    BY <2>1, <2>2, Nothing DEF ConfigInv, StoreHasEdits
  <2>6. job.at \in {"replace", "reread"} => disk'[job.file] = disk[job.file]
    BY <2>1, <2>2 DEF ConfigInv, LocksHeld, Writing, Places, JobShapes, SaveJobs
  <2>7. Checked'
    BY <1>0, <1>c, <2>1, <2>2, MovesKeep
  <2>8. LocksHeld' /\ StoreHasEdits'
    BY <1>e, <2>1
  <2> QED BY <2>1, <2>3, <2>4, <2>5, <2>6, <2>7, <2>8, OthersKeep
<1> QED BY <1>1, <1>2, <1>4, <1>5, <1>6, <1>7 DEF Others

----------------------------------------------------------------------------
(* The console saves, and synchronises what follows.                       *)

LEMMA SavingKeeps ==
  ASSUME ConfigInv, UNCHANGED <<disk, settings, store, edits, missed>>, moved' \in {moved, {}},
         lock' \in [Files -> {"free", "console", "server"}],
         JobShapes', Made(job.text)', \A i \in DOMAIN job'.todo : Made(job'.todo[i].text),
         PageShapes', DraftInv', PageHasEdits', LocksHeld', JobHasEdits', SyncInv'
  PROVE  ConfigInv'
<1>1. FileShapes'
  BY DEF ConfigInv, FileShapes
<1>2. EditsMade'
  BY DEF ConfigInv, EditsMade, Made
<1>3. StoreHasEdits'
  BY DEF ConfigInv, StoreHasEdits
<1> QED BY <1>1, <1>2, <1>3 DEF ConfigInv

\* What holds of a save that is made ready, or goes on, in a step.
Ready(j) ==
  /\ \A i \in DOMAIN j.todo : KindOf(j.todo[i].file) = j.todo[i].t
  /\ Made(j.text) /\ \A i \in DOMAIN j.todo : Made(j.todo[i].text)
  /\ \A i \in DOMAIN j.todo : j.todo[i].digest.edits = j.todo[i].text.edits
  /\ j.why \in {"port", "origin"} => j.digest.edits = j.text.edits
  /\ j.todo # <<>> => page.kind = "lan"
  /\ j.why = "port" => page.kind = "lan" /\ j.file # "lan" /\ j.text.port = page.baseline.port
  /\ j.why = "origin" =>
       /\ page.kind \in Tunnels /\ j.file = "lan" /\ j.todo = <<>>
       /\ j.text.entry[page.kind] = page.baseline.entry[page.kind] /\ j.text.port = page.baseline.port

LEMMA JobReady ==
  ASSUME ConfigInv
  PROVE  Ready(job)
BY DEF ConfigInv, JobShapes, EditsMade, JobHasEdits, SyncInv, Following, Offering, Ready

\* A job that waits for its next step goes on, with no lock.
LEMMA WaitKeeps ==
  ASSUME ConfigInv, UNCHANGED <<disk, settings, store, edits, missed>>, moved' \in {moved, {}},
         lock' \in [Files -> {"free", "console", "server"}], store.at # "idle" => lock'["lan"] = "server",
         PageShapes', DraftInv', PageHasEdits',
         page'.kind = page.kind,
         \/ job' = NoJob
         \/ /\ job' \in SaveJobs /\ Ready(job)' /\ job'.why # "none" /\ Saved'
            /\ \A i \in DOMAIN job'.todo : job'.todo[i].text.port = page'.baseline.port
            /\ \/ job'.at = "next" /\ job'.todo # <<>>
               \/ job'.at = "offer" /\ job'.why = "save" /\ page.kind \in Tunnels /\ job'.todo = <<>>
               \/ job'.at \in {"choose", "apply"} /\ job'.why = "origin"
  PROVE  ConfigInv'
<1>1. CASE job' = NoJob
  <2>1. JobShapes' /\ LocksHeld' /\ JobHasEdits'
    BY <1>1, Nothing DEF JobShapes, LocksHeld, JobHasEdits, Writing, Places
  <2>2. Made(job.text)' /\ \A i \in DOMAIN job'.todo : Made(job'.todo[i].text)
    BY <1>1, Nothing DEF Made
  <2>3. SyncInv'
    BY <1>1, Nothing DEF SyncInv, Following, Offering, Checked, InSync
  <2> QED BY <2>1, <2>2, <2>3, SavingKeeps
<1>2. CASE /\ job' \in SaveJobs /\ Ready(job)' /\ job'.why # "none" /\ Saved'
           /\ \A i \in DOMAIN job'.todo : job'.todo[i].text.port = page'.baseline.port
           /\ \/ job'.at = "next" /\ job'.todo # <<>>
              \/ job'.at = "offer" /\ job'.why = "save" /\ page.kind \in Tunnels /\ job'.todo = <<>>
              \/ job'.at \in {"choose", "apply"} /\ job'.why = "origin"
  <2>0. job'.at \notin Places \cup {"idle"} /\ ~Writing' /\ ~InSync'
    BY <1>2 DEF Places, Writing, InSync
  <2>1. JobShapes' /\ LocksHeld' /\ JobHasEdits'
    BY <1>2, <2>0 DEF JobShapes, LocksHeld, JobHasEdits, Ready, Places
  <2>2. Made(job.text)' /\ \A i \in DOMAIN job'.todo : Made(job'.todo[i].text)
    BY <1>2 DEF Made, Ready
  <2>3. Following' /\ Offering' /\ Checked'
    BY <1>2, <2>0 DEF Following, Offering, Checked, Ready
  <2>4. SyncInv'
    BY <1>2, <2>0, <2>3 DEF SyncInv, Places
  <2> QED BY <2>1, <2>2, <2>4, SavingKeeps
<1> QED BY <1>1, <1>2

LEMMA SameReady ==
  ASSUME NEW j, NEW k, OfSave(k, j), Ready(j)
  PROVE  Ready(k)
BY DEF OfSave, Ready

\* A save that comes to nothing.
LEMMA FailKeeps ==
  ASSUME ConfigInv, UNCHANGED <<disk, settings, page, typed, store, edits, missed>>, moved' \in {moved, {}},
         lock' \in [Files -> {"free", "console", "server"}], store.at # "idle" => lock'["lan"] = "server",
         NEW j \in SaveJobs, Ready(j), j.why = "port" => Saved,
         j.why = "port" => \A i \in DOMAIN j.todo : j.todo[i].text.port = page.baseline.port,
         job' = After(j, FALSE)
  PROVE  ConfigInv'
<1>1. PageShapes' /\ DraftInv' /\ PageHasEdits'
  BY DEF ConfigInv, PageShapes, DraftInv, PageHasEdits, Made
<1>2. CASE After(j, FALSE) = NoJob
  BY <1>1, <1>2, WaitKeeps
<1>3. CASE After(j, FALSE) # NoJob
  <2>1. PICK k : k = After(j, FALSE)
    OBVIOUS
  <2>2. k \in SaveJobs /\ OfSave(k, j) /\ k.at = "next" /\ j.todo # <<>> /\ j.why = "port"
    BY <1>3, <2>1, AfterSave
  <2>3. Ready(k)
    BY <2>2, SameReady
  <2>4. Ready(job)' /\ Saved'
    BY <2>1, <2>2, <2>3 DEF Ready, Made, Saved
  <2>5. /\ k.todo # <<>> /\ k.why # "none" /\ \A i \in DOMAIN k.todo : k.todo[i].text.port = page.baseline.port
    BY <2>2 DEF OfSave
  <2> QED BY <1>1, <2>1, <2>2, <2>4, <2>5, WaitKeeps
<1> QED BY <1>2, <1>3

\* A synchronisation begins to save, right after its check.
LEMMA SyncBegins ==
  ASSUME ConfigInv, UNCHANGED <<disk, settings, page, typed, store, edits, missed>>, moved' = {},
         NEW j \in SaveJobs, Ready(j), j.why \in {"port", "origin"}, Saved, AsSaved, Begun(j),
         \A i \in DOMAIN j.todo : j.todo[i].text.port = page.baseline.port,
         j.why = "port" => j.file = Selected(KindOf(j.file)) /\ Yaml(KindOf(j.file)),
         j.why = "origin" => page.file = Selected(page.kind) /\ Yaml(page.kind)
  PROVE  ConfigInv'
<1>1. PageShapes' /\ DraftInv' /\ PageHasEdits'
  BY DEF ConfigInv, PageShapes, DraftInv, PageHasEdits, Made
<1>2. PICK k : k = job'
  OBVIOUS
<1>3. /\ lock' = [lock EXCEPT ![j.file] = "console"] /\ lock[j.file] = "free"
      /\ j.text.of = KindOf(j.file) /\ disk[j.file] = j.digest
      /\ k \in SaveJobs /\ k.at = "compare" /\ OfSave(k, j)
  BY <1>2 DEF Begun
<1>4. Ready(k)
  BY <1>3, SameReady
<1>5. /\ k.why = j.why /\ k.file = j.file /\ k.digest = j.digest /\ k.text = j.text /\ k.todo = j.todo
      /\ j.file \in Files
  BY <1>3 DEF OfSave, SaveJobs
<1>6. lock \in [Files -> {"free", "console", "server"}] /\ (store.at # "idle" => lock["lan"] = "server")
  BY DEF ConfigInv, FileShapes, LocksHeld
<1>7. lock' \in [Files -> {"free", "console", "server"}] /\ LocksHeld'
  BY <1>2, <1>3, <1>5, <1>6, KindsOfFiles DEF LocksHeld
<1>8. JobShapes' /\ JobHasEdits'
  BY <1>2, <1>3, <1>4, <1>5 DEF JobShapes, JobHasEdits, Ready, Writing
<1>9. Made(job.text)' /\ \A i \in DOMAIN job'.todo : Made(job'.todo[i].text)
  BY <1>2, <1>4 DEF Ready, Made
<1>10. Following' /\ Offering'
  BY <1>2, <1>3, <1>4, <1>5 DEF Following, Offering, Ready
<1>11. Checked'
  BY <1>2, <1>3, <1>5 DEF Checked, AsSaved, Selected, Yaml
<1>12. SyncInv'
  BY <1>2, <1>3, <1>10, <1>11 DEF SyncInv, Saved
<1> QED BY <1>1, <1>7, <1>8, <1>9, <1>12, SavingKeeps

LEMMA ProposedPorts ==
  ASSUME ConfigInv, NEW old, NEW new \in Ports \cup {"none"}
  PROVE  /\ Proposals(old, new) \in Seq(SyncProposals)
         /\ Proposals(old, new) # <<>> => page.kind = "lan"
         /\ \A i \in DOMAIN Proposals(old, new) :
              /\ KindOf(Proposals(old, new)[i].file) = Proposals(old, new)[i].t
              /\ Proposals(old, new)[i].text.port = new /\ Made(Proposals(old, new)[i].text)
              /\ Proposals(old, new)[i].digest.edits = Proposals(old, new)[i].text.edits
<1> DEFINE Good(ps) == /\ ps \in Seq(SyncProposals)
                       /\ \A i \in DOMAIN ps :
                            /\ KindOf(ps[i].file) = ps[i].t /\ ps[i].text.port = new /\ Made(ps[i].text)
                            /\ ps[i].digest.edits = ps[i].text.edits
<1>1. \A t \in Tunnels : Good(<<Proposal(t, new)>>)
  <2> TAKE t \in Tunnels
  <2>1. settings \in Settings /\ disk \in [Files -> Texts] /\ \A f \in Files : Made(disk[f])
    BY DEF ConfigInv, FileShapes, EditsMade
  <2>2. PICK f \in Files : f = Selected(t) /\ KindOf(f) = t
    BY <2>1, SelectedFiles
  <2>3. PICK text : text = [disk[f] EXCEPT !.port = new]
    OBVIOUS
  <2>4. text \in Texts /\ text.port = new /\ text.edits = disk[f].edits /\ Made(text)
    BY <2>1, <2>3 DEF Texts, Made
  <2>5. PICK p : p = [t |-> t, file |-> f, digest |-> disk[f], text |-> text]
    OBVIOUS
  <2>6. p = Proposal(t, new)
    BY <2>2, <2>3, <2>5 DEF Proposal
  <2>7. p \in SyncProposals /\ p.t = t /\ p.file = f /\ p.digest = disk[f] /\ p.text = text
    BY <2>1, <2>4, <2>5 DEF SyncProposals
  <2>8. <<p>> \in Seq(SyncProposals) /\ DOMAIN <<p>> = {1} /\ <<p>>[1] = p
    BY <2>7
  <2>9. Good(<<p>>)
    BY <2>2, <2>4, <2>7, <2>8
  <2> QED BY <2>6, <2>9
<1>2. Good(<<>>)
  OBVIOUS
<1>3. ASSUME NEW a, Good(a), NEW b, Good(b) PROVE Good(a \o b)
  <2>1. /\ a \o b \in Seq(SyncProposals) /\ DOMAIN (a \o b) = 1 .. Len(a) + Len(b)
        /\ \A i \in DOMAIN (a \o b) : \/ i \in DOMAIN a /\ (a \o b)[i] = a[i]
                                      \/ i - Len(a) \in DOMAIN b /\ (a \o b)[i] = b[i - Len(a)]
    BY <1>3
  <2> QED BY <1>3, <2>1
<1>4. \A x \in {Proposals(old, new)} : Good(x) /\ (x # <<>> => page.kind = "lan")
  <2>1. PICK known : known = [t \in Tunnels |-> Yaml(t) /\ disk[Selected(t)].of = t /\ disk[Selected(t)].port = old]
    OBVIOUS
  <2>2. PICK of : of = [t \in Tunnels |-> IF known[t] THEN <<Proposal(t, new)>> ELSE <<>>]
    OBVIOUS
  <2>3. Good(of["frp"]) /\ Good(of["cf"])
    <3> HIDE DEF Good
    <3> QED BY <1>1, <1>2, <2>2 DEF Tunnels
  <2>4. Proposals(old, new) \in {<<>>, of["frp"] \o of["cf"]}
    BY <2>1, <2>2 DEF Proposals, Tunnels
  <2>5. page.kind # "lan" => Proposals(old, new) = <<>>
    BY DEF Proposals
  <2>6. Good(of["frp"] \o of["cf"])
    <3> HIDE DEF Good
    <3> QED BY <1>3, <2>3
  <2> HIDE DEF Good
  <2> QED BY <1>2, <2>4, <2>5, <2>6
<1> QED BY <1>4

LEMMA SavingStep ==
  ASSUME ConfigInv, Saving
  PROVE  ConfigInv'
<1>0. /\ disk \in [Files -> Texts] /\ settings \in Settings /\ edits \in 0 .. MaxEdits /\ store \in Stores
      /\ lock \in [Files -> {"free", "console", "server"}] /\ page \in Pages /\ KindOf(page.file) = page.kind
      /\ job \in SaveJobs /\ job.file \in Files
  BY DEF ConfigInv, FileShapes, PageShapes, JobShapes, SaveJobs
<1>l. store.at # "idle" => lock["lan"] = "server"
  BY DEF ConfigInv, LocksHeld
<1>r. Ready(job)
  BY JobReady
<1>p. UNCHANGED <<disk, page, typed, edits, missed>> => PageShapes' /\ DraftInv' /\ PageHasEdits'
  BY DEF ConfigInv, PageShapes, DraftInv, PageHasEdits, Made
<1>g. Writing => /\ [lock EXCEPT ![job.file] = "free"] \in [Files -> {"free", "console", "server"}]
                 /\ (store.at # "idle" => [lock EXCEPT ![job.file] = "free"]["lan"] = "server")
                 /\ (store.at # "idle" => job.file # "lan")
  BY <1>0, KindsOfFiles DEF ConfigInv, LocksHeld
<1>q. job.why = "port" => Saved /\ \A i \in DOMAIN job.todo : job.todo[i].text.port = page.baseline.port
  BY DEF ConfigInv, SyncInv, Following
<1>f. ASSUME Fails, Writing, UNCHANGED <<settings, store, edits, missed, moved>> PROVE ConfigInv'
  <2>1. /\ lock' = [lock EXCEPT ![job.file] = "free"] /\ job' = After(job, FALSE)
        /\ UNCHANGED <<disk, page, typed>>
    BY <1>f DEF Fails
  <2> QED BY <1>0, <1>f, <1>g, <1>q, <1>r, <2>1, FailKeeps
<1>1. CASE Save
  <2>1. /\ job = NoJob /\ (page.form => page.invalid = <<>>)
        /\ UNCHANGED <<disk, settings, typed, store, edits, missed, moved>>
    BY <1>1 DEF Save, Idle, ConfigInv, JobShapes
  <2>2. PICK sync \in BOOLEAN : Saves(IF page.form THEN Applied(page) ELSE page, sync)
    BY <1>1 DEF Save
  <2>3. PICK p : p = IF page.form THEN Applied(page) ELSE page
    OBVIOUS
  <2>4. /\ p \in Pages /\ p.kind = page.kind /\ p.file = page.file /\ p.digest = page.digest /\ p.baseline = page.baseline
        /\ Empty(p) /\ page.raw.edits \subseteq p.raw.edits
        /\ p.raw.edits \cup InForm(p) = page.raw.edits \cup InForm(page)
    <3>1. CASE page.form
      <4>1. PICK a : a = Applied(page)
        OBVIOUS
      <4>2. /\ a \in Pages /\ a.kind = page.kind /\ a.file = page.file /\ a.digest = page.digest
            /\ a.baseline = page.baseline /\ a.invalid = page.invalid /\ a.updates = <<>>
            /\ a.raw.edits = page.raw.edits \cup EditsOf(page.updates)
        BY <1>0, <4>1, AppliedPage
      <4>3. p = a /\ page.invalid = <<>>
        BY <2>1, <2>3, <3>1, <4>1
      <4> QED BY <4>2, <4>3, NoEdits DEF Empty, InForm
    <3>2. CASE ~page.form
      BY <1>0, <2>3, <3>2 DEF ConfigInv, DraftInv
    <3> QED BY <3>1, <3>2
  <2>5. page' = p
    BY <2>2, <2>3 DEF Saves
  <2>6. PageShapes' /\ DraftInv' /\ PageHasEdits'
    <3>1. PICK new : new = {}
      OBVIOUS
    <3>2. /\ p.raw.edits \cup InForm(p) \subseteq page.raw.edits \cup InForm(page) \cup new \cup {0}
          /\ page.raw.edits \cup InForm(page) \cup new \subseteq p.raw.edits \cup InForm(p)
      BY <2>4, <3>1
    <3>3. new = {} /\ edits' = edits /\ typed' = typed /\ UNCHANGED <<disk, missed>>
      BY <2>1, <3>1
    <3> QED BY <2>4, <2>5, <3>2, <3>3, DraftKeeps
  <2>7. PICK todo : todo = IF sync THEN Proposals(p.baseline.port, p.raw.port) ELSE <<>>
    OBVIOUS
  <2>8. /\ todo \in Seq(SyncProposals) /\ (todo # <<>> => page.kind = "lan")
        /\ \A i \in DOMAIN todo : /\ KindOf(todo[i].file) = todo[i].t
                                  /\ todo[i].text.port = p.raw.port /\ Made(todo[i].text)
                                  /\ todo[i].digest.edits = todo[i].text.edits
    <3>1. p.raw.port \in Ports \cup {"none"}
      BY <2>4 DEF Pages, Texts
    <3>2. PICK ps : ps = Proposals(p.baseline.port, p.raw.port)
      OBVIOUS
    <3>3. /\ ps \in Seq(SyncProposals) /\ (ps # <<>> => page.kind = "lan")
          /\ \A i \in DOMAIN ps : /\ KindOf(ps[i].file) = ps[i].t
                                  /\ ps[i].text.port = p.raw.port /\ Made(ps[i].text)
                                  /\ ps[i].digest.edits = ps[i].text.edits
      BY <3>1, <3>2, ProposedPorts
    <3> QED BY <2>7, <3>2, <3>3
  <2>9. PICK j : j = [at |-> "begin", why |-> "save", file |-> p.file, digest |-> p.digest, text |-> p.raw,
                      sync |-> sync, todo |-> todo]
    OBVIOUS
  <2>10. SaveBegins(j)
    BY <2>2, <2>3, <2>7, <2>9 DEF Saves
  <2>11. PICK k : k = [j EXCEPT !.at = "compare"]
    OBVIOUS
  <2>12. /\ k \in SaveJobs /\ OfSave(k, j) /\ k.at = "compare" /\ k.why = "save" /\ k.file = p.file
         /\ k.digest = p.digest /\ k.text = p.raw /\ k.todo = todo
    BY <2>4, <2>8, <2>9, <2>11 DEF SaveJobs, Pages, Places, OfSave
  <2>13. CASE job' = After(j, FALSE) /\ UNCHANGED lock
    <3>1. j.why = "save"
      BY <2>9
    <3>2. job' = NoJob
      BY <2>13, <3>1 DEF After
    <3> QED BY <1>0, <1>l, <2>1, <2>4, <2>5, <2>6, <2>13, <3>2, WaitKeeps
  <2>14. CASE ~(job' = After(j, FALSE) /\ UNCHANGED lock)
    <3>1. /\ lock' = [lock EXCEPT ![p.file] = "console"] /\ lock[p.file] = "free"
          /\ p.raw.of = KindOf(p.file) /\ disk[p.file] = p.digest /\ job' = k
      BY <2>9, <2>10, <2>11, <2>14 DEF SaveBegins, Valid
    <3>2. p.file \in Files
      BY <2>4 DEF Pages
    <3>3. lock' \in [Files -> {"free", "console", "server"}] /\ LocksHeld'
      BY <1>0, <1>l, <2>1, <2>12, <3>1, <3>2 DEF LocksHeld
    <3>4. JobShapes'
      BY <2>8, <2>12, <3>1 DEF JobShapes
    <3>5. JobHasEdits'
      BY <2>4, <2>5, <2>8, <2>12, <3>1 DEF JobHasEdits
    <3>6. Made(p.raw)
      BY <2>1, <2>5, <2>6 DEF PageShapes, Made
    <3>7. Made(job.text)' /\ \A i \in DOMAIN job'.todo : Made(job'.todo[i].text)
      BY <2>1, <2>8, <2>12, <3>1, <3>6 DEF Made
    <3>8. Following' /\ Offering' /\ Checked'
      BY <2>4, <2>5, <2>8, <2>12, <3>1 DEF Following, Offering, Checked, InSync, Writing, Places
    <3>9. SyncInv'
      BY <2>12, <3>1, <3>8 DEF SyncInv
    <3> QED BY <2>1, <2>6, <3>3, <3>4, <3>5, <3>7, <3>9, SavingKeeps
  <2> QED BY <2>13, <2>14
<1>2. CASE Compares
  <2>1. job.at = "compare" /\ Writing /\ UNCHANGED <<settings, store, edits, missed, moved>>
    BY <1>2 DEF Compares, Writing, Places
  <2>2. CASE Unchanged /\ job' = [job EXCEPT !.at = "replace"] /\ UNCHANGED <<disk, lock, page, typed>>
    <3>1. PICK k : k = [job EXCEPT !.at = "replace"]
      OBVIOUS
    <3>2. /\ k \in SaveJobs /\ k.at = "replace" /\ k.why = job.why /\ k.file = job.file /\ k.digest = job.digest
          /\ k.text = job.text /\ k.todo = job.todo
      BY <1>0, <3>1, Movings DEF Places, OfSave
    <3>3. JobShapes' /\ LocksHeld'
      BY <2>1, <2>2, <3>1, <3>2 DEF ConfigInv, JobShapes, LocksHeld, Writing, Places
    <3>4. JobHasEdits'
      BY <2>1, <2>2, <3>1, <3>2 DEF ConfigInv, JobHasEdits, Writing, Places, Unchanged
    <3>5. Made(job.text)' /\ \A i \in DOMAIN job'.todo : Made(job'.todo[i].text)
      BY <1>r, <2>1, <2>2, <3>1, <3>2 DEF Ready, Made
    <3>6. Following' /\ Offering'
      BY <2>1, <2>2, <3>1, <3>2 DEF ConfigInv, SyncInv, Following, Offering, Writing, Places
    <3>7. Checked'
      BY <2>1, <2>2, <3>1, <3>2 DEF ConfigInv, SyncInv, Checked, InSync, Selected, Yaml
    <3>8. SyncInv'
      BY <2>1, <2>2, <3>1, <3>2, <3>6, <3>7 DEF ConfigInv, SyncInv, Saved
    <3> QED BY <1>0, <1>p, <2>1, <2>2, <3>3, <3>4, <3>5, <3>8, SavingKeeps
  <2> QED BY <1>2, <1>f, <2>1, <2>2 DEF Compares
<1>3. CASE Replaces
  <2>1. job.at = "replace" /\ Writing /\ UNCHANGED <<settings, store, edits, missed, moved>>
    BY <1>3 DEF Replaces, Writing, Places
  <2>2. CASE /\ disk' = [disk EXCEPT ![job.file] = job.text] /\ job' = [job EXCEPT !.at = "reread"]
             /\ UNCHANGED <<lock, page, typed>>
    <3>1. PICK k : k = [job EXCEPT !.at = "reread"]
      OBVIOUS
    <3>2. /\ k \in SaveJobs /\ k.at = "reread" /\ k.why = job.why /\ k.file = job.file /\ k.digest = job.digest
          /\ k.text = job.text /\ k.todo = job.todo
      BY <1>0, <3>1, Movings DEF Places, OfSave
    <3>3. /\ disk' \in [Files -> Texts] /\ disk'[job.file] = job.text
          /\ \A f \in Files \ {job.file} : disk'[f] = disk[f]
      BY <1>0, <2>2 DEF SaveJobs
    <3>4. FileShapes'
      BY <2>1, <2>2, <3>3 DEF ConfigInv, FileShapes
    <3>5. JobShapes' /\ LocksHeld'
      BY <2>1, <2>2, <3>1, <3>2 DEF ConfigInv, JobShapes, LocksHeld, Writing, Places
    <3>6. EditsMade'
      BY <2>1, <2>2, <3>1, <3>2, <3>3 DEF ConfigInv, EditsMade, Made
    <3>7. PageShapes' /\ DraftInv'
      BY <2>1, <2>2 DEF ConfigInv, PageShapes, DraftInv, Made
    <3>8. PageHasEdits'
      <4>1. job.text # Absent
        BY <1>0, <2>1, KindsOfFiles, Nothing DEF ConfigInv, JobHasEdits, Kinds, Tunnels
      <4>2. disk'[page.file] = Absent => disk[page.file] = Absent
        BY <1>0, <3>3, <4>1 DEF Pages
      <4> QED BY <2>1, <2>2, <4>2 DEF ConfigInv, PageHasEdits
    <3>9. JobHasEdits'
      BY <2>1, <2>2, <3>1, <3>2, <3>3 DEF ConfigInv, JobHasEdits, Writing, Places
    <3>10. StoreHasEdits'
      BY <1>g, <2>1, <3>3, KindsOfFiles DEF ConfigInv, StoreHasEdits
    <3>11. Following' /\ Offering'
      BY <2>1, <2>2, <3>1, <3>2 DEF ConfigInv, SyncInv, Following, Offering, Writing, Places
    <3>12. Checked'
      <4>1. InSync => job.file # page.file
        BY <1>0, <1>r, KindsOfFiles DEF InSync, Ready, Pages
      <4> QED BY <1>0, <2>1, <2>2, <3>1, <3>2, <3>3, <4>1 DEF ConfigInv, SyncInv, Checked, InSync, Selected, Yaml, Pages
    <3>13. SyncInv'
      BY <2>1, <2>2, <3>1, <3>2, <3>3, <3>11, <3>12 DEF ConfigInv, SyncInv, Saved
    <3> QED BY <3>4, <3>5, <3>6, <3>7, <3>8, <3>9, <3>10, <3>13 DEF ConfigInv
  <2> QED BY <1>3, <1>f, <2>1, <2>2 DEF Replaces
<1>4. CASE Rereads
  <2>1. /\ job.at = "reread" /\ Writing /\ lock' = [lock EXCEPT ![job.file] = "free"] /\ job' = After(job, TRUE)
        /\ UNCHANGED <<disk, settings, store, edits, missed, moved>>
    BY <1>4 DEF Rereads, Writing, Places
  <2>2. CASE job.why = "save"
    <3>1. /\ page' = [page EXCEPT !.digest = disk[job.file], !.baseline = page.raw] /\ typed' = {}
      BY <1>4, <2>2 DEF Rereads
    <3>2. job.file = page.file /\ job.text = page.raw /\ Empty(page) /\ disk[page.file].edits \subseteq page.raw.edits \cup missed
      BY <2>1, <2>2 DEF ConfigInv, JobHasEdits
    <3>3. PICK p : p = [page EXCEPT !.digest = disk[page.file], !.baseline = page.raw]
      OBVIOUS
    <3>4. /\ p \in Pages /\ p.kind = page.kind /\ p.file = page.file /\ p.digest = disk[page.file] /\ p.baseline = page.raw
          /\ p.raw = page.raw /\ p.updates = page.updates /\ p.invalid = page.invalid /\ p.form = page.form
      BY <1>0, <3>3 DEF Pages
    <3>5. page' = p
      BY <3>1, <3>2, <3>3
    <3>6. PageShapes'
      BY <2>1, <3>4, <3>5 DEF ConfigInv, PageShapes, Made, InForm
    <3>7. DraftInv'
      BY <3>1, <3>2, <3>4, <3>5 DEF DraftInv, Empty
    <3>8. PageHasEdits'
      BY <2>1, <3>2, <3>4, <3>5 DEF PageHasEdits
    <3>9. Saved'
      BY <2>1, <3>2, <3>4, <3>5 DEF ConfigInv, SyncInv, Saved
    <3>10. CASE After(job, TRUE) = NoJob
      BY <1>g, <2>1, <3>4, <3>5, <3>6, <3>7, <3>8, <3>10, WaitKeeps
    <3>11. CASE After(job, TRUE) # NoJob
      <4>1. PICK k : k = After(job, TRUE)
        OBVIOUS
      <4>2. /\ k \in SaveJobs /\ OfSave(k, job)
            /\ \/ k.at = "next" /\ job.todo # <<>>
               \/ k.at = "offer" /\ job.todo = <<>> /\ page.kind \in Tunnels
        BY <1>0, <3>11, <4>1, AfterSave
      <4>3. k.why = "save" /\ k.todo = job.todo /\ k.text = job.text
        BY <2>2, <4>2 DEF OfSave
      <4>4. Ready(job)'
        BY <1>r, <2>1, <3>4, <3>5, <4>1, <4>3 DEF Ready, Made
      <4>5. \A i \in DOMAIN k.todo : k.todo[i].text.port = page.raw.port
        BY <2>1, <2>2, <4>3 DEF ConfigInv, SyncInv, Following
      <4> QED BY <1>g, <2>1, <3>4, <3>5, <3>6, <3>7, <3>8, <3>9, <4>1, <4>2, <4>3, <4>4, <4>5, WaitKeeps
    <3> QED BY <3>10, <3>11
  <2>3. CASE job.why # "save"
    <3>1. UNCHANGED <<page, typed>>
      BY <1>4, <2>3 DEF Rereads
    <3>2. job.why \in {"port", "origin"}
      BY <1>0, <2>1, <2>3 DEF ConfigInv, JobShapes, SaveJobs
    <3>3. CASE After(job, TRUE) = NoJob
      BY <1>g, <1>p, <2>1, <3>1, <3>3, WaitKeeps
    <3>4. CASE After(job, TRUE) # NoJob
      <4>1. PICK k : k = After(job, TRUE)
        OBVIOUS
      <4>2. k \in SaveJobs /\ OfSave(k, job) /\ k.at = "next" /\ job.todo # <<>>
        BY <1>0, <2>3, <3>4, <4>1, AfterSave
      <4>3. k.why = "port" /\ k.todo = job.todo
        BY <1>r, <3>2, <4>2 DEF OfSave, Ready
      <4>4. Ready(k)
        BY <1>r, <4>2, SameReady
      <4>5. Ready(job)' /\ Saved'
        BY <1>q, <2>1, <3>1, <4>1, <4>2, <4>3, <4>4 DEF Ready, Made, Saved, OfSave
      <4>6. \A i \in DOMAIN k.todo : k.todo[i].text.port = page.baseline.port
        BY <1>q, <4>2, <4>3 DEF OfSave
      <4> QED BY <1>g, <1>p, <2>1, <3>1, <4>1, <4>2, <4>3, <4>5, <4>6, WaitKeeps
    <3> QED BY <3>3, <3>4
  <2> QED BY <2>2, <2>3
<1>5. CASE NextPort
  <2>1. /\ job.at = "next" /\ moved' = {}
        /\ UNCHANGED <<disk, settings, page, typed, store, edits, missed>>
    BY <1>5 DEF NextPort
  <2>2. PICK p : p = Head(job.todo)
    OBVIOUS
  <2>3. PICK rest : rest = Tail(job.todo)
    OBVIOUS
  <2>4. /\ job.todo # <<>> /\ job.todo \in Seq(SyncProposals) /\ page.kind = "lan" /\ Saved
        /\ \A i \in DOMAIN job.todo : job.todo[i].text.port = page.baseline.port
    BY <1>0, <2>1 DEF ConfigInv, SyncInv, Following, Writing, Places, SaveJobs
  <2>5. /\ p = job.todo[1] /\ 1 \in DOMAIN job.todo /\ p \in SyncProposals /\ rest \in Seq(SyncProposals)
        /\ \A i \in DOMAIN rest : i + 1 \in DOMAIN job.todo /\ rest[i] = job.todo[i + 1]
    BY <2>2, <2>3, <2>4
  <2>6. /\ KindOf(p.file) = p.t /\ p.t \in Tunnels /\ p.file \in Files /\ p.file # "lan" /\ Made(p.text)
        /\ p.digest.edits = p.text.edits /\ p.text.port = page.baseline.port /\ p.digest \in Texts /\ p.text \in Texts
    BY <1>r, <2>4, <2>5, KindsOfFiles DEF Ready, SyncProposals
  <2>7. PICK j : j = [job EXCEPT !.why = "port", !.file = p.file, !.digest = p.digest, !.text = p.text, !.todo = rest]
    OBVIOUS
  <2>8. /\ j \in SaveJobs /\ j.why = "port" /\ j.file = p.file /\ j.digest = p.digest /\ j.text = p.text /\ j.todo = rest
        /\ j.at = "next"
    BY <1>0, <2>1, <2>5, <2>6, <2>7 DEF SaveJobs
  <2>9. \A i \in DOMAIN rest : /\ KindOf(rest[i].file) = rest[i].t /\ Made(rest[i].text)
                               /\ rest[i].digest.edits = rest[i].text.edits /\ rest[i].text.port = page.baseline.port
    BY <1>r, <2>4, <2>5 DEF Ready
  <2>10. Ready(j)
    BY <2>4, <2>6, <2>8, <2>9 DEF Ready
  <2>11. \/ p.file = Selected(p.t) /\ Yaml(p.t) /\ AsSaved /\ SaveBegins(j)
         \/ job' = After(j, FALSE) /\ UNCHANGED lock
    BY <1>5, <2>2, <2>3, <2>7 DEF NextPort
  <2>12. CASE job' = After(j, FALSE) /\ UNCHANGED lock
    BY <1>0, <1>l, <2>1, <2>4, <2>8, <2>9, <2>10, <2>12, FailKeeps
  <2>13. CASE p.file = Selected(p.t) /\ Yaml(p.t) /\ AsSaved /\ Begun(j)
    BY <2>1, <2>4, <2>6, <2>8, <2>9, <2>10, <2>13, SyncBegins
  <2>14. SaveBegins(j) => Begun(j) \/ (job' = After(j, FALSE) /\ UNCHANGED lock)
    <3>1. [j EXCEPT !.at = "compare"] \in SaveJobs /\ OfSave([j EXCEPT !.at = "compare"], j) /\ [j EXCEPT !.at = "compare"].at = "compare"
      BY <2>8, Movings DEF Places
    <3> QED BY <3>1, SaveBegun
  <2> QED BY <2>11, <2>12, <2>13, <2>14
<1>6. CASE OfferOrigin
  <2>1. job.at = "offer" /\ UNCHANGED <<disk, settings, lock, page, typed, store, edits, missed, moved>>
    BY <1>6 DEF OfferOrigin
  <2>2. page.kind \in Tunnels /\ job.todo = <<>> /\ Saved
    BY <2>1 DEF ConfigInv, SyncInv, Offering
  <2>3. CASE job' = NoJob
    BY <1>0, <1>l, <1>p, <2>1, <2>3, WaitKeeps
  <2>4. CASE job' # NoJob
    <3>1. PICK t : t = page.kind
      OBVIOUS
    <3>2. PICK old : old = disk["lan"]
      OBVIOUS
    <3>3. PICK new : new = page.baseline.entry[t]
      OBVIOUS
    <3>4. old \in Texts /\ new \in Entries \cup {"none"} /\ t \in Tunnels /\ Made(old)
      BY <1>0, <2>2, <3>1, <3>2, <3>3, KindsOfFiles DEF Pages, Texts, ConfigInv, EditsMade
    <3>5. PICK e : e = [old.entry EXCEPT ![t] = new]
      OBVIOUS
    <3>6. PICK text : text = [old EXCEPT !.entry = e]
      OBVIOUS
    <3>7. text \in Texts /\ text.entry[t] = new /\ text.port = old.port /\ text.edits = old.edits
      BY <3>4, <3>5, <3>6 DEF Texts
    <3>8. text = [old EXCEPT !.entry[t] = new]
      BY <3>5, <3>6
    <3>9. PICK at : at = IF old.entry[t] \in {"none", new} THEN "apply" ELSE "choose"
      OBVIOUS
    <3>10. /\ page.baseline.port = old.port
           /\ job' = [job EXCEPT !.why = "origin", !.file = "lan", !.digest = old, !.text = text, !.at = at]
      BY <1>6, <2>4, <3>1, <3>2, <3>3, <3>8, <3>9 DEF OfferOrigin
    <3>11. PICK k : k = job'
      OBVIOUS
    <3>12. /\ k \in SaveJobs /\ k.why = "origin" /\ k.file = "lan" /\ k.digest = old /\ k.text = text
           /\ k.at \in {"choose", "apply"} /\ k.todo = <<>>
      BY <1>0, <2>2, <3>4, <3>7, <3>9, <3>10, <3>11, KindsOfFiles DEF SaveJobs
    <3>13. Ready(job)' /\ Saved'
      BY <2>1, <2>2, <3>1, <3>3, <3>4, <3>7, <3>10, <3>11, <3>12 DEF Ready, Made, Saved
    <3> QED BY <1>0, <1>l, <1>p, <2>1, <3>11, <3>12, <3>13, WaitKeeps
  <2> QED BY <2>3, <2>4
<1>7. CASE ChooseOrigin
  <2>1. job.at = "choose" /\ UNCHANGED <<disk, settings, lock, page, typed, store, edits, missed, moved>>
    BY <1>7 DEF ChooseOrigin
  <2>2. job.why = "origin" /\ job.todo = <<>> /\ Saved
    BY <2>1 DEF ConfigInv, SyncInv, Offering
  <2>3. CASE job' = NoJob
    BY <1>0, <1>l, <1>p, <2>1, <2>3, WaitKeeps
  <2>4. CASE job' = [job EXCEPT !.at = "apply"]
    <3>1. PICK k : k = job'
      OBVIOUS
    <3>2. k \in SaveJobs /\ OfSave(k, job) /\ k.at = "apply"
      BY <1>0, <2>4, <3>1, Movings
    <3>3. Ready(k) /\ k.why = "origin" /\ k.todo = <<>>
      <4>1. Ready(k)
        BY <1>r, <3>2, SameReady
      <4> QED BY <2>2, <3>2, <4>1 DEF OfSave
    <3>4. Ready(job)' /\ Saved'
      BY <2>1, <2>2, <3>1, <3>3 DEF Ready, Made, Saved
    <3> QED BY <1>0, <1>l, <1>p, <2>1, <3>1, <3>2, <3>3, <3>4, WaitKeeps
  <2> QED BY <1>7, <2>3, <2>4 DEF ChooseOrigin
<1>8. CASE ApplyOrigin
  <2>1. job.at = "apply" /\ moved' = {} /\ UNCHANGED <<disk, settings, page, typed, store, edits, missed>>
    BY <1>8 DEF ApplyOrigin
  <2>2. job.why = "origin" /\ job.todo = <<>> /\ Saved
    BY <2>1 DEF ConfigInv, SyncInv, Offering
  <2>3. CASE job' = NoJob /\ UNCHANGED lock
    BY <1>0, <1>l, <1>p, <2>1, <2>3, WaitKeeps
  <2>4. CASE AsSaved /\ page.file = Selected(page.kind) /\ Yaml(page.kind) /\ SaveBegins(job)
    <3>1. [job EXCEPT !.at = "compare"] \in SaveJobs /\ OfSave([job EXCEPT !.at = "compare"], job) /\ [job EXCEPT !.at = "compare"].at = "compare"
      BY <1>0, Movings DEF Places
    <3>2. Begun(job) \/ (job' = After(job, FALSE) /\ UNCHANGED lock)
      BY <2>4, <3>1, SaveBegun
    <3>3. CASE Begun(job)
      BY <1>0, <1>r, <2>1, <2>2, <2>4, <3>3, SyncBegins
    <3>4. CASE job' = After(job, FALSE) /\ UNCHANGED lock
      BY <1>0, <1>l, <1>r, <2>1, <2>2, <3>4, FailKeeps
    <3> QED BY <3>2, <3>3, <3>4
  <2> QED BY <1>8, <2>3, <2>4 DEF ApplyOrigin
<1> QED BY <1>1, <1>2, <1>3, <1>4, <1>5, <1>6, <1>7, <1>8 DEF Saving

----------------------------------------------------------------------------
LEMMA ConfigBegins ==
  ASSUME ConfigInit
  PROVE  ConfigInv
<1>1. PICK q \in Ports, e \in Entries, frp \in FrpFiles :
        /\ disk = [f \in Files |-> CASE f = "lan" -> Text("lan", q, NoEntry, {})
                                  [] f = frp   -> Text("frp", q, [NoEntry EXCEPT !["frp"] = e], {})
                                  [] OTHER     -> Absent]
        /\ settings = [frp |-> frp, mode |-> "yaml"]
  BY DEF ConfigInit
<1>2. /\ lock = [f \in Files |-> "free"] /\ typed = {} /\ job = NoJob /\ store = NoStore
      /\ edits = 0 /\ missed = {} /\ moved = {}
  BY DEF ConfigInit
<1>3. PICK share : share = Text("lan", q, NoEntry, {})
  OBVIOUS
<1>4. PICK tunnel : tunnel = Text("frp", q, [NoEntry EXCEPT !["frp"] = e], {})
  OBVIOUS
<1>5. share \in Texts /\ share.edits = {} /\ tunnel \in Texts /\ tunnel.edits = {}
  <2>1. NoEntry \in [Tunnels -> Entries \cup {"none"}] /\ [NoEntry EXCEPT !["frp"] = e] \in [Tunnels -> Entries \cup {"none"}]
    BY DEF NoEntry, Tunnels
  <2> QED BY <1>3, <1>4, <2>1 DEF Text, Texts, Kinds, Tunnels
<1>6. \A f \in Files : disk[f] = IF f = "lan" THEN share ELSE IF f = frp THEN tunnel ELSE Absent
  <2>1. frp # "lan"
    BY ConfigAssumption
  <2>2. disk = [f \in Files |-> CASE f = "lan" -> share [] f = frp -> tunnel [] OTHER -> Absent]
    BY <1>1, <1>3, <1>4
  <2>3. ASSUME NEW f \in Files PROVE disk[f] = IF f = "lan" THEN share ELSE IF f = frp THEN tunnel ELSE Absent
    <3>1. disk[f] = CASE f = "lan" -> share [] f = frp -> tunnel [] OTHER -> Absent
      BY <2>2
    <3>2. CASE f = "lan"
      BY <2>1, <3>1, <3>2
    <3>3. CASE f = frp
      BY <2>1, <3>1, <3>3
    <3>4. CASE f # "lan" /\ f # frp
      BY <3>1, <3>4
    <3> QED BY <3>2, <3>3, <3>4
  <2> QED BY <2>3
<1>7. disk \in [Files -> Texts] /\ disk["lan"] = share /\ \A f \in Files : disk[f].edits = {}
  <2>1. DOMAIN disk = Files /\ \A f \in Files : disk[f] \in Texts /\ disk[f].edits = {}
    BY <1>1, <1>5, <1>6, Nothing
  <2>2. disk = [f \in Files |-> disk[f]]
    BY <1>1
  <2> QED BY <1>6, <2>1, <2>2, KindsOfFiles
<1>8. page = [kind |-> "lan", file |-> "lan", digest |-> share, baseline |-> share, raw |-> share,
              form |-> TRUE, updates |-> <<>>, invalid |-> <<>>]
  <2>1. page = [kind |-> "lan", file |-> "lan", digest |-> disk["lan"], baseline |-> disk["lan"], raw |-> disk["lan"],
                form |-> TRUE, updates |-> <<>>, invalid |-> <<>>]
    BY DEF ConfigInit
  <2> QED BY <1>7, <2>1
<1>9. <<>> \in Seq(Updates)
  OBVIOUS
<1>10. FileShapes
  <2>1. settings \in Settings
    BY <1>1 DEF Settings
  <2>2. lock \in [Files -> {"free", "console", "server"}] /\ store \in Stores
    BY <1>2, Nothing
  <2>3. edits \in 0 .. MaxEdits /\ missed \subseteq 1 .. edits /\ moved \subseteq Files \cup {"settings"}
    BY <1>2, ConfigAssumption
  <2> QED BY <1>7, <2>1, <2>2, <2>3 DEF FileShapes
<1>11. JobShapes
  BY <1>2, Nothing DEF JobShapes
<1>12. EditsMade
  BY <1>2, <1>7, Nothing DEF EditsMade, Made
<1>13. page \in Pages /\ KindOf(page.file) = page.kind
  BY <1>5, <1>8, <1>9, KindsOfFiles DEF Pages, Kinds
<1>14. PageShapes
  BY <1>5, <1>8, <1>13, NoEdits DEF PageShapes, Made, InForm
<1>15. DraftInv
  BY <1>2, <1>8 DEF DraftInv
<1>16. PageHasEdits
  BY <1>7, <1>8 DEF PageHasEdits
<1>17. LocksHeld /\ JobHasEdits /\ StoreHasEdits
  BY <1>2, Nothing DEF LocksHeld, JobHasEdits, StoreHasEdits, Writing, Places
<1>18. SyncInv
  BY <1>2, Nothing DEF SyncInv, Following, Offering, Checked, InSync
<1> QED BY <1>10, <1>11, <1>12, <1>14, <1>15, <1>16, <1>17, <1>18 DEF ConfigInv

LEMMA ConfigStill ==
  ASSUME ConfigInv, UNCHANGED configVars
  PROVE  ConfigInv'
<1>1. UNCHANGED <<disk, settings, lock, page, typed, job, store, edits, missed, moved>>
  BY DEF configVars
<1>2. FileShapes' /\ JobShapes' /\ EditsMade'
  BY <1>1 DEF ConfigInv, FileShapes, JobShapes, EditsMade, Made
<1>3. PageShapes' /\ DraftInv' /\ PageHasEdits'
  BY <1>1 DEF ConfigInv, PageShapes, DraftInv, PageHasEdits, Made
<1>4. LocksHeld' /\ JobHasEdits' /\ StoreHasEdits'
  BY <1>1 DEF ConfigInv, LocksHeld, JobHasEdits, StoreHasEdits, Writing
<1>5. Following' /\ Offering' /\ Checked'
  BY <1>1 DEF ConfigInv, SyncInv, Following, Offering, Checked, Writing, InSync, Selected, Yaml
<1>6. SyncInv'
  BY <1>1, <1>5 DEF ConfigInv, SyncInv, Saved
<1> QED BY <1>2, <1>3, <1>4, <1>6 DEF ConfigInv

LEMMA ConfigInvariance == ConfigSpec => []ConfigInv
<1>1. ConfigInit => ConfigInv
  BY ConfigBegins
<1>2. ConfigInv /\ [ConfigNext]_configVars => ConfigInv'
  BY EditingStep, SavingStep, OthersStep, ConfigStill DEF ConfigNext
<1> QED BY <1>1, <1>2, PTL DEF ConfigSpec

\* The files, their locks and the numbers of the edits have their types.
THEOREM ConfigTyping == ConfigSpec => []ConfigTypeOK
<1>1. ConfigInv => ConfigTypeOK
  <2> SUFFICES ASSUME ConfigInv PROVE ConfigTypeOK
    OBVIOUS
  <2>1. \A f \in Files : disk[f].of \in Kinds \cup {"absent", "garbled"} /\ disk[f].edits \subseteq 0..edits
    BY DEF ConfigInv, FileShapes, EditsMade, Made, Texts
  <2> QED BY <2>1 DEF ConfigInv, FileShapes, DraftInv, ConfigTypeOK
<1> QED BY <1>1, ConfigInvariance, PTL

\* A tunnel that is made to follow Share's port, and an entry that is carried
\* over to Share, are those of the files as they are when the second file is
\* written, however long the dialog before was open.  (config_page.py:458-487)
THEOREM SyncsAreTrue == ConfigSpec => []SyncIsTrue
<1>1. ConfigInv => SyncIsTrue
  <2> SUFFICES ASSUME ConfigInv, job.at = "reread" PROVE
          LET shown == disk[page.file]
              steady == page.file \notin moved /\ page.digest.edits \cap missed = {} IN
          /\ job.why = "port" =>
               /\ steady => job.text.port = shown.port
               /\ "settings" \notin moved => job.file = Selected(KindOf(job.file)) /\ Yaml(KindOf(job.file))
          /\ job.why = "origin" =>
               /\ steady =>
                    job.text.entry[page.kind] = shown.entry[page.kind] /\ job.text.port = shown.port
               /\ "settings" \notin moved => page.file = Selected(page.kind) /\ Yaml(page.kind)
    BY DEF SyncIsTrue
  <2>1. job.why \in {"port", "origin"} => InSync
    BY DEF InSync
  <2>2. /\ job.why \in {"port", "origin"} => page.file \in moved \/ disk[page.file] = page.digest
        /\ job.why = "port" /\ "settings" \notin moved =>
             job.file = Selected(KindOf(job.file)) /\ Yaml(KindOf(job.file))
        /\ job.why = "origin" /\ "settings" \notin moved => page.file = Selected(page.kind) /\ Yaml(page.kind)
    BY <2>1 DEF ConfigInv, SyncInv, Checked
  <2>3. job.why \in {"port", "origin"} => page.digest = page.baseline \/ page.digest.edits \cap missed # {}
    BY DEF ConfigInv, SyncInv, Saved
  <2>4. /\ job.why = "port" => job.text.port = page.baseline.port
        /\ job.why = "origin" => /\ job.text.entry[page.kind] = page.baseline.entry[page.kind]
                                 /\ job.text.port = page.baseline.port
    BY DEF ConfigInv, SyncInv, Following, Offering
  <2> QED BY <2>2, <2>3, <2>4
<1> QED BY <1>1, ConfigInvariance, PTL

\* Nothing the user typed leaves the page before it is saved or thrown away
\* knowingly, and discard() asks before it is.  (config_page.py:143-145, 227-275, 401-417)
THEOREM DraftsAreKept == ConfigSpec => []DraftIsKept
<1>1. ConfigInv => DraftIsKept
  <2> SUFFICES ASSUME ConfigInv PROVE DraftIsKept
    OBVIOUS
  <2>1. /\ page.updates \in Seq(Updates) /\ page.invalid \in Seq(Updates)
        /\ typed \cap page.baseline.edits = {} /\ typed \subseteq page.raw.edits \cup InForm(page)
    BY DEF ConfigInv, PageShapes, Pages, DraftInv
  <2>2. typed # {} => Dirty(page)
    <3>1. page.updates = <<>> /\ page.invalid = <<>> => InForm(page) = {}
      BY NoEdits DEF InForm
    <3> QED BY <2>1, <3>1 DEF Dirty
  <2>3. {u.edit : u \in ToSet(page.updates \o page.invalid)} = InForm(page)
    <3>1. PICK q : q = page.updates \o page.invalid
      OBVIOUS
    <3>2. {u.edit : u \in ToSet(q)} = EditsOf(q)
      BY DEF ToSet, EditsOf
    <3> QED BY <2>1, <3>1, <3>2, Joined DEF InForm
  <2>4. job.why = "save" /\ job.at = "reread" => typed \subseteq job.text.edits
    <3>1. job.why = "save" /\ job.at = "reread" => job.text = page.raw /\ Empty(page)
      BY DEF ConfigInv, JobHasEdits, Writing, Places
    <3>2. Empty(page) => InForm(page) = {}
      BY NoEdits DEF InForm, Empty
    <3> QED BY <2>1, <3>1, <3>2
  <2> QED BY <2>1, <2>2, <2>3, <2>4 DEF DraftIsKept
<1> QED BY <1>1, ConfigInvariance, PTL

\* Whoever replaces a file, the console or the server, replaces it by a text
\* with every edit the file had, an editor's without a lock too, but for the
\* moment that a comparison of digests cannot cover and for a text that could
\* not be decoded.  (config.py:108-134, config_write.py:41-52)
THEOREM NoEditIsLost == ConfigSpec => NoEditLost
<1> DEFINE Lost(f) == disk[f].edits \ disk'[f].edits
           undecoded == IF page.digest.of = "garbled" THEN page.digest.edits ELSE {}
           Kept == \A f \in Files : Lost(f) \subseteq missed \cup undecoded
<1>1. ConfigInv /\ [ConfigNext]_configVars => Kept
  <2> SUFFICES ASSUME ConfigInv, [ConfigNext]_configVars PROVE Kept
    OBVIOUS
  <2>0. disk \in [Files -> Texts] /\ job \in SaveJobs
    BY DEF ConfigInv, FileShapes, JobShapes
  <2>1. CASE disk' = disk
    BY <2>1
  <2>2. CASE Replaces
    <3>1. CASE disk' = [disk EXCEPT ![job.file] = job.text] /\ job.at = "replace"
      <4>1. disk[job.file].edits \subseteq job.digest.edits \cup missed /\ Writing
        BY <3>1 DEF ConfigInv, JobHasEdits, Writing, Places
      <4>2. job.digest.edits \subseteq job.text.edits \cup missed \cup undecoded
        <5>1. CASE job.why = "save"
          BY <4>1, <5>1 DEF ConfigInv, JobHasEdits, PageHasEdits
        <5>2. CASE job.why # "save"
          BY <4>1, <5>2 DEF ConfigInv, JobHasEdits, JobShapes, SaveJobs, Writing, Places
        <5> QED BY <5>1, <5>2
      <4>3. disk'[job.file] = job.text /\ \A f \in Files \ {job.file} : disk'[f] = disk[f]
        BY <2>0, <3>1 DEF SaveJobs
      <4> QED BY <4>1, <4>2, <4>3
    <3> QED BY <2>1, <2>2, <3>1 DEF Replaces, Fails
  <2>3. ASSUME NEW f \in Files, NEW new, new.edits = disk[f].edits, Edit(f, new) PROVE Kept
    <3>1. PICK t : t = [new EXCEPT !.edits = new.edits \cup {edits'}]
      OBVIOUS
    <3>2. disk' = [disk EXCEPT ![f] = t]
      BY <2>3, <3>1 DEF Edit
    <3>3. disk'[f] = t /\ \A g \in Files \ {f} : disk'[g] = disk[g]
      BY <2>0, <3>2
    <3>4. disk[f].edits \subseteq t.edits
      BY <2>3, <3>1
    <3> QED BY <3>3, <3>4
  <2>4. ASSUME NEW f \in Files, Edits(f) PROVE Kept
    <3>1. ASSUME NEW x \in Changes, Edit(f, [Change(disk[f], KindOf(f), x) EXCEPT !.of = KindOf(f)]) PROVE Kept
      <4>1. PICK c : c = Change(disk[f], KindOf(f), x)
        OBVIOUS
      <4>2. c \in Texts /\ c.edits = disk[f].edits
        BY <2>0, <2>4, <4>1, Changed
      <4>3. PICK new : new = [c EXCEPT !.of = KindOf(f)]
        OBVIOUS
      <4>4. new.edits = disk[f].edits
        BY <4>2, <4>3 DEF Texts
      <4> QED BY <2>3, <2>4, <3>1, <4>1, <4>3, <4>4
    <3>2. CASE Edit(f, [disk[f] EXCEPT !.of = "garbled"])
      <4>1. PICK new : new = [disk[f] EXCEPT !.of = "garbled"]
        OBVIOUS
      <4>2. new.edits = disk[f].edits
        BY <2>0, <2>4, <4>1 DEF Texts
      <4> QED BY <2>3, <2>4, <3>2, <4>1, <4>2
    <3> QED BY <2>4, <3>1, <3>2 DEF Edits
  <2>5. CASE StoreReplaces
    <3>1. disk["lan"].edits \subseteq store.text.edits \cup missed /\ disk' = [disk EXCEPT !["lan"] = store.text]
      BY <2>5 DEF StoreReplaces, ConfigInv, StoreHasEdits
    <3>2. disk'["lan"] = store.text /\ \A f \in Files \ {"lan"} : disk'[f] = disk[f]
      BY <2>0, <3>1, KindsOfFiles
    <3> QED BY <3>1, <3>2
  <2>6. CASE Editing
    <3>1. disk' = disk
      BY <2>6, Zenon DEF Editing, Type, Typing, Field, Misfield, Refield, ApplySharePort, ToggleMode, ChangeProxy, SaveCopy,
                  Flush, Draft, Reload, ChangeKind, OpenFile, Loads, CreateExample
    <3> QED BY <2>1, <3>1
  <2>7. CASE Saving
    <3>1. Replaces \/ disk' = disk
      BY <2>7 DEF Saving, Save, Compares, Fails, Rereads, NextPort, OfferOrigin, ChooseOrigin, ApplyOrigin
    <3> QED BY <2>1, <2>2, <3>1
  <2>8. CASE Others
    <3>1. disk' = disk \/ (\E f \in Files : Edits(f)) \/ StoreReplaces
      BY <2>8 DEF Others, Setting, StoreBegins, StoreReads, StoreCompares
    <3> QED BY <2>1, <2>4, <2>5, <3>1
  <2>9. CASE UNCHANGED configVars
    BY <2>1, <2>9 DEF configVars
  <2> QED BY <2>6, <2>7, <2>8, <2>9 DEF ConfigNext
<1> QED BY <1>1, ConfigInvariance, PTL DEF NoEditLost, ConfigSpec

=============================================================================
