------------------------------ MODULE Desktop ------------------------------
(***************************************************************************)
(* The window of the desktop program (desktop/window.py): it starts, stops *)
(* and leaves services, closes instances other programs started, and ends. *)
(* One thread runs its handlers, but a modal dialog runs them while it is  *)
(* open, a thread starts each service, one asks them to live alone, others *)
(* look for instances outside (external_monitor.py, tunnel_monitor.py) and *)
(* the buttons show what was true at the last refresh.                     *)
(*                                                                         *)
(* A service is seen through its ServiceProcess (module Supervision): off, *)
(* on, asked to stop, or late in stopping.                                 *)
(***************************************************************************)
EXTENDS Naturals, Sequences, FiniteSets, SequencesExt

CONSTANTS
  Services,     \* the services of the window
  Share,        \* the one ExternalShareMonitor looks at; tunnels the others
  Watched,      \* bound: the services whose monitors find anything
  Scenes,       \* bound: the programs installed, and the instances that start
  MaxCloses,    \* bound: instances the window is asked to close
  MaxDialogs    \* bound: dialogs open at a time

ASSUME DesktopAssumption ==
  /\ Share \in Services /\ Watched \subseteq Services /\ IsFiniteSet(Services)
  /\ \A scene \in Scenes :
       /\ scene.installed \subseteq Services
       /\ scene.foreign = [s \in Services |-> scene.foreign[s]]
       /\ \A s \in Services : scene.foreign[s] \cap {"stopped", "own", "other", "checking"} = {}
  /\ MaxCloses \in Nat /\ MaxDialogs \in Nat

\* Operators named Bad... are slips of the code that the properties must
\* notice; no action or property uses them.

VARIABLES
  win,        \* the window: open, exiting, detaching, and what is to detach
  dialogs,    \* the modal dialogs, the last one is answered first
  components, \* ComponentsPage: is a job running, and has it been cancelled?
  button,     \* [Services -> BOOLEAN]: can the button be pressed?
  installed,  \* refresh_components: the services whose program is there
  own,        \* [Services -> record]: the ServiceProcess objects
  starter,    \* [Services -> STRING]: where the start thread of each is
  live,       \* [Services -> SUBSET Instances]: instances outside, alive
  unborn,     \* [Services -> SUBSET Instances]: instances that may still start
  monitor,    \* [Services -> record]: what the monitors know
  jobs,       \* [Services -> set of records]: their threads and results
  reported,   \* history: instances whose end the monitor has reported
  spent       \* what has been used of the bounds; a service is started once

vars == <<win, dialogs, components, button, installed, own, starter, live, unborn,
          monitor, jobs, reported, spent>>

Instances == UNION {UNION {scene.foreign[s] : s \in Services} : scene \in Scenes}

\* What an inspection finds: nothing, one instance that can be verified, the
\* service of the window itself, or something that cannot be told apart.
Findings == Instances \cup {"stopped", "own", "other"}

Dialogs == [kind : {"close", "exit"}]
           \cup [kind : {"stop"}, of : Services, force : BOOLEAN]
           \cup [kind : {"outside"}, of : Services, id : Instances \cup {"own"}]

Jobs == [kind : {"scan", "close"}, gen : Nat, id : Findings, done : BOOLEAN]

TypeOK ==
  /\ win \in [open : BOOLEAN, exiting : BOOLEAN, detaching : BOOLEAN, todo : SUBSET Services]
  /\ dialogs \in Seq(Dialogs)
  /\ components \in {"idle", "busy", "cancelled"}
  /\ button \in [Services -> BOOLEAN]
  /\ installed \subseteq Services
  /\ own \in [Services -> [at : {"off", "on", "stopping", "late"}, confirmed : BOOLEAN]]
  /\ starter \in [Services -> {"idle", "inspect", "spawn", "report"}]
  /\ live \in [Services -> SUBSET Instances] /\ unborn \in [Services -> SUBSET Instances]
  /\ monitor \in [Services -> [state : Findings \cup {"checking"}, busy : BOOLEAN,
                               scanning : BOOLEAN, gen : Nat]]
  /\ \A s \in Services : jobs[s] \subseteq Jobs
  /\ reported \in [Services -> SUBSET Instances]
  /\ spent \in [starts : SUBSET Services, closes : 0 .. MaxCloses]

Running(s) == own[s].at # "off"
Starting   == \E s \in Services : starter[s] # "idle"
Quiet      == components = "idle" /\ \A s \in Services : ~Running(s)

\* confirming_external, confirming_frpc, choosing_close
Confirming(s) == \E i \in DOMAIN dialogs : dialogs[i].kind = "outside" /\ dialogs[i].of = s
Choosing      == \E i \in DOMAIN dialogs : dialogs[i].kind = "close"

\* external.busy or confirming_external or tunnels.busy or confirming_frpc
Closing == \E s \in Services : monitor[s].busy \/ Confirming(s)

----------------------------------------------------------------------------
(* The monitors.                                                            *)

\* scan(): ExternalShareMonitor does not look while the window's own Share runs.
Blocked(s, m) == s \notin Watched \/ m.busy \/ m.scanning \/ (s = Share /\ (Running(s) \/ starter[s] # "idle"))

ScanJob(m) == [kind |-> "scan", gen |-> m.gen, id |-> "stopped", done |-> FALSE]

Scanned(s, m)       == IF Blocked(s, m) THEN m ELSE [m EXCEPT !.scanning = TRUE]
ScanJobs(s, m, set) == IF Blocked(s, m) THEN set ELSE set \cup {ScanJob(m)}

\* monitor' and jobs' after scan() on the monitor m.
Scans(s, m, set) ==
  /\ monitor' = [monitor EXCEPT ![s] = Scanned(s, m)]
  /\ jobs' = [jobs EXCEPT ![s] = ScanJobs(s, m, set)]

BadForcedMonitor(s)  == [monitor[s] EXCEPT !.scanning = FALSE, !.busy = TRUE]
HungForcedMonitor(s) == [monitor[s] EXCEPT !.gen = @ + 1, !.busy = TRUE]

\* force_close() and close_frpc(): the generation leaves earlier scans behind.
ForcedMonitor(s) == [monitor[s] EXCEPT !.gen = @ + 1, !.scanning = FALSE, !.busy = TRUE]

Closable(s, id) == ~monitor[s].busy /\ monitor[s].state = id /\ ~(s = Share /\ Running(s))

----------------------------------------------------------------------------
(* refresh(): every 250 ms, and after what the monitors report.             *)

Enabled(s) ==
  /\ starter[s] = "idle" /\ ~win.exiting
  /\ IF Running(s) THEN own[s].at # "stopping"
     ELSE \/ monitor[s].state = "stopped" /\ (s = Share => ~monitor[s].busy)
          \/ /\ monitor[s].state \in Instances \cup {"own"}
             /\ ~monitor[s].busy /\ ~Confirming(s)

\* The window closes: monitors and timer stop, and nothing is heard any more.
Closed(w) == [w EXCEPT !.open = FALSE, !.exiting = FALSE]

\* A service that is late cancels the exit.  (Primed: as the handler leaves it.)
BadPatient(w) == w

Patient(w) == [w EXCEPT !.exiting = @ /\ \A s \in Services : own'[s].at # "late"]

\* A handler that leaves w of the window ends in refresh(); the close() in it
\* is refused as long as an instance outside is being closed.
Refreshes(w) ==
  /\ win' = IF Patient(w).exiting /\ Quiet' /\ ~Starting' /\ ~Closing' THEN Closed(w) ELSE Patient(w)
  /\ button' = [s \in Services |-> Enabled(s)']

Refresh ==
  /\ win.open
  /\ UNCHANGED <<dialogs, components, installed, own, starter, live, unborn, monitor, jobs, reported, spent>>
  /\ Refreshes(win)

Tick(s) ==
  /\ win.open /\ ~Blocked(s, monitor[s])
  /\ Scans(s, monitor[s], jobs[s])
  /\ UNCHANGED <<win, dialogs, components, button, installed, own, starter, live, unborn, reported, spent>>

\* The processes whose command line is that of the service and names its
\* configuration, those of the window included.
Candidates(s) == live[s] \cup IF Running(s) THEN {"own"} ELSE {}

\* inspect_share(), inspect_tunnels(): what can be told from the candidates, or
\* nothing, when a process or a port cannot be looked at.
Inspections(s) ==
  {"other"} \cup CASE Candidates(s) = {}              -> {"stopped"}
                   [] Cardinality(Candidates(s)) = 1 -> Candidates(s)
                   [] OTHER                          -> {}

\* The thread of a job does its work.  A scan looks; force_close_share() and
\* close_external_frpc() look again, and end what was confirmed if it is still
\* the only one, find it gone, or decline ("other").
Does(s, j, id) ==
  jobs' = [jobs EXCEPT ![s] = (@ \ {j}) \cup {[j EXCEPT !.done = TRUE, !.id = id]}]

JobRuns(s, j) ==
  /\ win.open /\ j \in jobs[s] /\ ~j.done
  /\ \/ /\ j.kind = "scan"
        /\ \E found \in Inspections(s) : Does(s, j, found)
        /\ UNCHANGED live
     \/ /\ j.kind = "close"
        /\ j.id \in Inspections(s) \/ j.id \notin live[s]
        /\ live' = [live EXCEPT ![s] = @ \ {j.id}]
        /\ Does(s, j, j.id)
     \/ /\ j.kind = "close"
        /\ Does(s, j, "other")
        /\ UNCHANGED live
  /\ UNCHANGED <<win, dialogs, components, button, installed, own, starter, unborn, monitor, reported, spent>>

\* finish(): a result of an earlier generation is dropped.
Finish(s, j) ==
  /\ win.open /\ j \in jobs[s] /\ j.done
  /\ LET rest == jobs[s] \ {j} IN
     IF j.gen # monitor[s].gen
     THEN /\ jobs' = [jobs EXCEPT ![s] = rest]
          /\ UNCHANGED <<monitor, reported, win, button, dialogs, components, own, starter>>
     ELSE /\ IF j.kind = "scan"
             THEN /\ monitor' = [monitor EXCEPT ![s].scanning = FALSE, ![s].state = j.id]
                  /\ jobs' = [jobs EXCEPT ![s] = rest]
                  /\ UNCHANGED reported
             ELSE /\ Scans(s, [monitor[s] EXCEPT !.busy = FALSE, !.state = "checking"], rest)
                  /\ reported' = [reported EXCEPT ![s] = @ \cup ({j.id} \cap Instances)]
          /\ UNCHANGED <<dialogs, components, own, starter>>
          /\ Refreshes(win)
  /\ UNCHANGED <<installed, live, unborn, spent>>

----------------------------------------------------------------------------
(* Starting and stopping services.                                          *)

Open(d)  == dialogs' = Append(dialogs, d)
Answered == dialogs' = Front(dialogs)

\* toggle_service(): the button of s, as it was last drawn, is pressed.  Only
\* the dialog on top can be used while there is one.
Pressed(s) ==
  /\ win.open /\ ~win.detaching /\ dialogs = <<>> /\ button[s]
  /\ UNCHANGED <<components, installed, own, live, unborn, reported>>

Toggle(s) ==
  /\ Pressed(s)
  /\ \/ /\ Running(s) /\ ~(s # Share /\ monitor[s].busy)
        /\ Open([kind |-> "stop", of |-> s, force |-> own[s].at = "late"])
        /\ UNCHANGED <<win, button, starter, monitor, jobs, spent>>
     \/ /\ ~Running(s) /\ starter[s] = "idle" /\ ~monitor[s].busy
        /\ monitor[s].state \in Instances \cup {"own"}
        /\ Open([kind |-> "outside", of |-> s, id |-> monitor[s].state])
        /\ UNCHANGED <<starter, monitor, jobs, spent>>
        /\ Refreshes(win)
     \/ /\ ~Running(s) /\ starter[s] = "idle" /\ ~monitor[s].busy
        /\ monitor[s].state \in {"checking", "other"}
        /\ Scans(s, monitor[s], jobs[s])
        /\ UNCHANGED <<win, dialogs, button, starter, spent>>
     \/ /\ ~Running(s) /\ starter[s] = "idle" /\ ~monitor[s].busy
        /\ monitor[s].state = "stopped" /\ s \in installed /\ s \notin spent.starts
        /\ starter' = [starter EXCEPT ![s] = "inspect"]
        /\ spent' = [spent EXCEPT !.starts = @ \cup {s}]
        /\ UNCHANGED <<dialogs, monitor, jobs>>
        /\ Refreshes(win)

\* work(): an instance outside forbids the start.  (For a tunnel it looks
\* twice; the look right before the start is this one.)
StarterInspects(s) ==
  /\ starter[s] = "inspect"
  /\ \E found \in Inspections(s) :
       starter' = [starter EXCEPT ![s] = IF found = "stopped" THEN "spawn" ELSE "report"]
  /\ UNCHANGED <<win, dialogs, components, button, installed, own, live, unborn, monitor, jobs, reported, spent>>

\* command(): a configuration or a program that cannot be used forbids it too.
command(s) == BOOLEAN

StarterSpawns(s) ==
  /\ starter[s] = "spawn"
  /\ \E usable \in command(s) :
       own' = IF usable THEN [own EXCEPT ![s] = [at |-> "on", confirmed |-> FALSE]] ELSE own
  /\ starter' = [starter EXCEPT ![s] = "report"]
  /\ UNCHANGED <<win, dialogs, components, button, installed, live, unborn, monitor, jobs, reported, spent>>

\* start_finished()
StartFinished(s) ==
  /\ starter[s] = "report" /\ win.open
  /\ starter' = [starter EXCEPT ![s] = "idle"]
  /\ LET m == monitor[s]
         blocked == s \notin Watched \/ m.busy \/ m.scanning \/ (s = Share /\ Running(s))
     IN  IF blocked THEN UNCHANGED <<monitor, jobs>>
         ELSE /\ monitor' = [monitor EXCEPT ![s].scanning = TRUE]
              /\ jobs' = [jobs EXCEPT ![s] = @ \cup {ScanJob(m)}]
  /\ UNCHANGED <<win, dialogs, components, button, installed, own, live, unborn, reported, spent>>

\* stop() of a ServiceProcess: once.
Stopped(o) == IF o.at = "on" THEN [o EXCEPT !.at = "stopping"] ELSE o

\* The dialog of toggle_service() for a service of the window; whether it is
\* forced was decided when it opened.
StopAnswered(yes) ==
  /\ win.open /\ dialogs # <<>> /\ Last(dialogs).kind = "stop"
  /\ LET d == Last(dialogs) IN
     own' = IF ~yes THEN own
            ELSE IF d.force THEN [own EXCEPT ![d.of].at = "off"]
            ELSE [own EXCEPT ![d.of] = Stopped(@)]
  /\ Answered
  /\ UNCHANGED <<win, components, button, installed, starter, live, unborn, monitor, jobs, reported, spent>>

\* ... and for an instance outside: force_close() or close_frpc() may decline.
\* A tunnel is looked at again in any case, Share when it was declined.
OutsideAnswered(yes) ==
  /\ win.open /\ dialogs # <<>> /\ Last(dialogs).kind = "outside"
  /\ LET d == Last(dialogs)
         s == d.of
     IN  IF yes /\ Closable(s, d.id)
         THEN /\ spent.closes < MaxCloses
              /\ monitor' = [monitor EXCEPT ![s] = ForcedMonitor(s)]
              /\ jobs' = [jobs EXCEPT ![s] = @ \cup {[kind |-> "close", gen |-> ForcedMonitor(s).gen,
                                                     id |-> d.id, done |-> FALSE]}]
              /\ spent' = [spent EXCEPT !.closes = @ + 1]
         ELSE /\ IF yes \/ s # Share THEN Scans(s, monitor[s], jobs[s])
                                     ELSE UNCHANGED <<monitor, jobs>>
              /\ UNCHANGED spent
  /\ Answered
  /\ UNCHANGED <<components, installed, own, starter, live, unborn, reported>>
  /\ Refreshes(win)

----------------------------------------------------------------------------
(* Ending: closeEvent(), detach_services(), detach_finished().              *)

BadDeclined == win.detaching \/ Choosing \/ Closing

\* closeEvent() up to its first dialog: it declines while something is being
\* started, closed outside, left or chosen.  With requested (the tray menu) no
\* choice is offered, and without a tray and anything that runs there is none.
Declined == win.detaching \/ Choosing \/ Closing \/ Starting

\* What follows the choice to stop: the dialogs about unsaved settings may end
\* it (left out: it is a close that did not happen), and what runs is asked for.
StopAndExit ==
  IF Quiet
  THEN /\ win' = Closed(win)
       /\ UNCHANGED dialogs
  ELSE /\ Open([kind |-> "exit"])
       /\ UNCHANGED win

CloseEvent(requested) ==
  /\ win.open /\ ~win.exiting /\ ~Declined /\ Len(dialogs) < MaxDialogs
  /\ requested \/ dialogs = <<>>
  /\ \/ /\ ~requested
        /\ Open([kind |-> "close"])
        /\ UNCHANGED win
     \/ /\ requested \/ Quiet
        /\ StopAndExit
  /\ UNCHANGED <<components, button, installed, own, starter, live, unborn, monitor, jobs, reported, spent>>

\* CloseDialog: hide in the tray or go on (one and the same here), stop all
\* and exit, or leave the services.
CloseCancelled ==
  /\ win.open /\ dialogs # <<>> /\ Last(dialogs).kind = "close"
  /\ Answered
  /\ UNCHANGED <<win, components, button, installed, own, starter, live, unborn, monitor, jobs, reported, spent>>

CloseAccepted ==
  /\ win.open /\ dialogs # <<>> /\ Last(dialogs).kind = "close"
  /\ IF Quiet THEN win' = Closed(win) /\ Answered
     ELSE /\ dialogs' = Append(Front(dialogs), [kind |-> "exit"])
          /\ UNCHANGED win
  /\ UNCHANGED <<components, button, installed, own, starter, live, unborn, monitor, jobs, reported, spent>>

\* detach_services(): every service can live alone, and no job runs.
CloseDetaches ==
  /\ win.open /\ dialogs # <<>> /\ Last(dialogs).kind = "close"
  /\ components = "idle" /\ \A s \in Services : own[s].at \in {"off", "on"}
  /\ win' = [win EXCEPT !.detaching = TRUE, !.todo = Services]
  /\ Answered
  /\ UNCHANGED <<components, button, installed, own, starter, live, unborn, monitor, jobs, reported, spent>>

\* detach() of one service after the other: nothing to do for one that is off.
Detaches(s) ==
  /\ win.detaching /\ s \in win.todo
  /\ own' = IF Running(s) THEN [own EXCEPT ![s].confirmed = TRUE] ELSE own
  /\ win' = [win EXCEPT !.todo = @ \ {s}]
  /\ UNCHANGED <<dialogs, components, button, installed, starter, live, unborn, monitor, jobs, reported, spent>>

\* ... until one fails: the window stays, with those left that have confirmed.
DetachFails ==
  /\ win.detaching /\ \E s \in win.todo : Running(s)
  /\ win' = [win EXCEPT !.detaching = FALSE, !.todo = {}]
  /\ UNCHANGED <<dialogs, components, button, installed, own, starter, live, unborn, monitor, jobs, reported, spent>>

DetachFinished ==
  /\ win.detaching /\ win.todo = {}
  /\ win' = Closed([win EXCEPT !.detaching = FALSE])
  /\ UNCHANGED <<dialogs, components, button, installed, own, starter, live, unborn, monitor, jobs, reported, spent>>

\* The exit is confirmed: all is asked to stop.  One that is late already
\* cancels it at once.
ExitAnswered(yes) ==
  /\ win.open /\ dialogs # <<>> /\ Last(dialogs).kind = "exit"
  /\ IF yes
     THEN /\ own' = [s \in Services |-> Stopped(own[s])]
          /\ components' = IF components = "busy" THEN "cancelled" ELSE components
          /\ win' = [win EXCEPT !.exiting = \A s \in Services : own[s].at # "late"]
     ELSE UNCHANGED <<win, own, components>>
  /\ Answered
  /\ UNCHANGED <<button, installed, starter, live, unborn, monitor, jobs, reported, spent>>

----------------------------------------------------------------------------
(* What goes on beside the window, as long as it is there.                  *)

\* run_job() and finished() of ComponentsPage; a job ends when cancelled.
ComponentsBegin ==
  /\ win.open /\ ~win.detaching /\ dialogs = <<>> /\ components = "idle"
  /\ components' = "busy"
  /\ UNCHANGED <<win, dialogs, button, installed, own, starter, live, unborn, monitor, jobs, reported, spent>>

ComponentsEnd ==
  /\ components # "idle"
  /\ components' = "idle"
  /\ UNCHANGED <<win, dialogs, button, installed, own, starter, live, unborn, monitor, jobs, reported, spent>>

OwnEnds(s) ==
  /\ win.open
  /\ Running(s)
  /\ own' = [own EXCEPT ![s] = [at |-> "off", confirmed |-> FALSE]]
  /\ UNCHANGED <<win, dialogs, components, button, installed, starter, live, unborn, monitor, jobs, reported, spent>>

OwnIsLate(s) ==
  /\ win.open
  /\ own[s].at = "stopping"
  /\ own' = [own EXCEPT ![s].at = "late"]
  /\ UNCHANGED <<win, dialogs, components, button, installed, starter, live, unborn, monitor, jobs, reported, spent>>

Born(s, i) ==
  /\ win.open
  /\ i \in unborn[s]
  /\ live' = [live EXCEPT ![s] = @ \cup {i}]
  /\ unborn' = [unborn EXCEPT ![s] = @ \ {i}]
  /\ UNCHANGED <<win, dialogs, components, button, installed, own, starter, monitor, jobs, reported, spent>>

Dies(s, i) ==
  /\ win.open
  /\ i \in live[s]
  /\ live' = [live EXCEPT ![s] = @ \ {i}]
  /\ UNCHANGED <<win, dialogs, components, button, installed, own, starter, unborn, monitor, jobs, reported, spent>>

----------------------------------------------------------------------------

Init ==
  /\ win = [open |-> TRUE, exiting |-> FALSE, detaching |-> FALSE, todo |-> {}]
  /\ dialogs = <<>>
  /\ components = "idle"
  /\ button = [s \in Services |-> FALSE]
  /\ own = [s \in Services |-> [at |-> "off", confirmed |-> FALSE]]
  /\ starter = [s \in Services |-> "idle"]
  /\ live = [s \in Services |-> {}]
  /\ \E scene \in Scenes : installed = scene.installed /\ unborn = scene.foreign
  /\ monitor = [s \in Services |-> [state |-> IF s \in Watched THEN "checking" ELSE "stopped", busy |-> FALSE, scanning |-> FALSE, gen |-> 0]]
  /\ jobs = [s \in Services |-> {}]
  /\ reported = [s \in Services |-> {}]
  /\ spent = [starts |-> {}, closes |-> 0]

Next ==
  \/ Refresh \/ ComponentsBegin \/ ComponentsEnd
  \/ CloseCancelled \/ CloseAccepted \/ CloseDetaches \/ DetachFails \/ DetachFinished
  \/ \E yes \in BOOLEAN : \/ StopAnswered(yes) \/ OutsideAnswered(yes)
                          \/ ExitAnswered(yes) \/ CloseEvent(yes)
  \/ \E s \in Services :
       \/ Tick(s) \/ Toggle(s) \/ StarterInspects(s) \/ StarterSpawns(s) \/ StartFinished(s)
       \/ Detaches(s) \/ OwnEnds(s) \/ OwnIsLate(s)
       \/ \E i \in Instances : Born(s, i) \/ Dies(s, i)
       \/ \E j \in jobs[s] : JobRuns(s, j) \/ Finish(s, j)

\* Qt runs the timers and delivers the results, the threads run, a cancelled
\* job ends, and fifteen seconds pass.
Fairness ==
  /\ WF_vars(Refresh) /\ WF_vars(components = "cancelled" /\ ComponentsEnd)
  /\ \A s \in Services :
       /\ WF_vars(Tick(s)) /\ WF_vars(StarterInspects(s)) /\ WF_vars(StarterSpawns(s))
       /\ WF_vars(StartFinished(s)) /\ WF_vars(OwnIsLate(s))
       /\ WF_vars(\E j \in jobs[s] : JobRuns(s, j)) /\ WF_vars(\E j \in jobs[s] : Finish(s, j))

Spec == Init /\ [][Next]_vars

FairSpec == Spec /\ Fairness

----------------------------------------------------------------------------

(* When the window is gone, every service it had started is off or has      *)
(* confirmed that it lives alone, and none is being started: no way of      *)
(* closing abandons one whose pipe would end with the window (closeEvent,   *)
(* refresh, detach_finished).                                               *)
NothingAbandoned ==
  ~win.open => \A s \in Services :
                 starter[s] = "idle" /\ (Running(s) => own[s].confirmed)

(* An instance whose end was reported to the user is never shown again: a   *)
(* scan that began before it was closed must not come after                 *)
(* (external_monitor.py, "must not override a close result").               *)
NoGhost == \A s \in Services : monitor[s].state \notin reported[s]

(* A confirmed exit ends: the window closes, or a service that is late      *)
(* gives it back to the user.  Excepted is what the user begins after it was *)
(* confirmed: a job of the components page, whose buttons stay usable, or a *)
(* service or a dialog, by a button not yet drawn anew: nothing stops such a *)
(* service, although the dialog promises that all are (dialogs.py:31).      *)
BegunLate == Starting \/ Closing \/ components = "busy" \/ \E s \in Services : own[s].at = "on"

ExitEnds == win.exiting ~> (~win.exiting \/ BegunLate)

(* A monitor never stays with a scan that no longer counts: it always comes *)
(* to a finding again, unless the window closes or its own Share runs       *)
(* (external_monitor.py and tunnel_monitor.py, the scanning and busy flags).*)
MonitorsGoOn ==
  \A s \in Services :
    monitor[s].scanning \/ monitor[s].busy \/ monitor[s].state = "checking"
      ~> \/ ~monitor[s].scanning /\ ~monitor[s].busy /\ monitor[s].state # "checking"
         \/ ~win.open
         \/ s = Share /\ (Running(s) \/ starter[s] # "idle")
=============================================================================
