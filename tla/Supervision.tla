---------------------------- MODULE Supervision ----------------------------
(***************************************************************************)
(* One service started by the desktop program, and what is between them.   *)
(* The console's ServiceProcess (desktop/process.py) starts a supervisor   *)
(* and speaks to it through a pipe; the supervisor (desktop/supervisor.py) *)
(* starts the service with a ServiceProcess of its own and tells what      *)
(* happens through the pipe of its output.  Share also reads a pipe        *)
(* (desktop/worker.py); the tunnels only know SIGTERM.  The console may be *)
(* killed, or may leave after each supervisor has confirmed that it will   *)
(* live alone.  Supervisor i is the one of the i-th start: what an old one *)
(* said may still be read after a new one was started.                     *)
(***************************************************************************)
EXTENDS Naturals, Sequences

CONSTANTS
  MaxStarts,    \* bound: how often the service is started
  MaxPipe       \* bound: lines that wait to be read when a detach is asked

ASSUME BoundsAssumption == MaxStarts \in Nat /\ MaxPipe \in Nat

Ids == 1 .. MaxStarts

\* Operators named Bad... or Deaf... are slips of the code that the properties
\* must notice; no action or property uses them.

VARIABLES
  console,      \* "on", "left" (its window closed itself), "killed"
  controlled,   \* does the service read a pipe (Share), or not (a tunnel)?
  handle,       \* the console's ServiceProcess
  detaching,    \* detach() on its thread: "no", it "waits", it is "done"
  reader,       \* [Ids -> STRING]: the thread that reads a supervisor's output:
                \* it "reads", or has seen that a confirmation is of the present
                \* supervisor and has not set the event yet ("confirms")
  pipe,         \* [Ids -> Seq]: what the console wrote and no supervisor read
  output,       \* [Ids -> Seq]: what a supervisor wrote and no one has read
  sup,          \* [Ids -> record]: the supervisors
  service,      \* [Ids -> STRING]: the services they started
  overtaken     \* history: the last start came between those two steps

processVars == <<console, controlled, handle, detaching, reader, pipe, output, sup, service, overtaken>>

consoleVars == <<console, controlled, handle, detaching, reader, overtaken>>

Alive == {"running", "halting", "orphan"}

ProcessTypeOK ==
  /\ console \in {"on", "left", "killed"}
  /\ controlled \in BOOLEAN
  /\ handle \in [id : 0 .. MaxStarts, stopping : {"no", "asked", "late"},
                 detachable : BOOLEAN, detached : BOOLEAN, owned : BOOLEAN]
  /\ detaching \in {"no", "waits", "done"}
  /\ reader \in [Ids -> {"reads", "confirms"}]
  /\ overtaken \in BOOLEAN
  /\ pipe \in [Ids -> Seq({"spec", "stop", "detach"})]
  /\ output \in [Ids -> Seq({"owned", "detached"})]
  /\ sup \in [Ids -> [at : {"none", "boot", "serving", "gone"},
                      told : BOOLEAN, detached : BOOLEAN, listening : BOOLEAN,
                      asked : BOOLEAN, owned_sent : BOOLEAN]]
  /\ service \in [Ids -> {"none", "gone"} \cup Alive]

NoSupervisor == [at |-> "none", told |-> FALSE, detached |-> FALSE, listening |-> FALSE,
                 asked |-> FALSE, owned_sent |-> FALSE]

NewHandle(i) == [id |-> i, stopping |-> "no", detachable |-> FALSE, detached |-> FALSE,
                 owned |-> FALSE]

ProcessInit ==
  /\ console = "on"
  /\ controlled \in BOOLEAN
  /\ handle = NewHandle(0) /\ detaching = "no" /\ overtaken = FALSE
  /\ reader = [i \in Ids |-> "reads"]
  /\ pipe = [i \in Ids |-> <<>>]
  /\ output = [i \in Ids |-> <<>>]
  /\ sup = [i \in Ids |-> NoSupervisor]
  /\ service = [i \in Ids |-> "none"]

----------------------------------------------------------------------------
(* ServiceProcess in the console.                                           *)

Up(i) == sup[i].at \in {"boot", "serving"}

\* snapshot()["running"]
running == handle.id # 0 /\ Up(handle.id)

\* start() of start_supervised(): the caller has looked for a live service, and
\* starts nothing while it detaches (DesktopWindow.toggle_service).  Of the
\* supervisor before, what it wrote is left and may still be read, and a
\* confirmation may be about to be set: the readers take no lock for that.
Start ==
  /\ console = "on" /\ ~running /\ handle.id < MaxStarts /\ detaching = "no"
  /\ \A i \in Ids : service[i] \notin Alive
  /\ handle' = NewHandle(handle.id + 1)
  /\ overtaken' = (\E i \in Ids : reader[i] = "confirms")
  /\ sup' = [i \in Ids |-> CASE i = handle.id + 1 -> [NoSupervisor EXCEPT !.at = "boot"]
                            [] i = handle.id     -> [NoSupervisor EXCEPT !.at = "gone"]
                            [] OTHER             -> sup[i]]
  /\ pipe' = [i \in Ids |-> <<>>]
  /\ UNCHANGED <<console, controlled, detaching, reader, output, service>>

\* What is left of a service whose supervisor dies: the end of its pipe stops
\* it, and a tunnel has none.
Bereaved(s) == CASE s # "running" -> s
                 [] controlled    -> "halting"
                 [] OTHER         -> "orphan"

\* force_stop(): the processes the supervisor named, then the supervisor.
Forced ==
  /\ service' = [service EXCEPT ![handle.id] =
                   IF handle.owned /\ @ \in Alive THEN "gone" ELSE Bereaved(@)]
  /\ sup' = [sup EXCEPT ![handle.id].at = "gone"]
  /\ handle' = [handle EXCEPT !.owned = FALSE]
  /\ UNCHANGED <<console, controlled, detaching, reader, pipe, output, overtaken>>

\* The rest of start_supervised(): to a supervisor that is gone the write
\* fails, and there is nothing to stop; else it may fail all the same.
SendSpec ==
  /\ console = "on" /\ running /\ ~handle.detachable
  /\ pipe' = [pipe EXCEPT ![handle.id] = Append(@, "spec")]
  /\ handle' = [handle EXCEPT !.detachable = TRUE]
  /\ UNCHANGED <<console, controlled, detaching, reader, output, sup, service, overtaken>>

SendFails == console = "on" /\ running /\ ~handle.detachable /\ Forced

\* stop(): asked once, at any time; only a supervisor that runs can be
\* written to.
Stop ==
  /\ console = "on" /\ running /\ handle.stopping = "no"
  /\ handle' = [handle EXCEPT !.stopping = "asked"]
  /\ pipe' = [pipe EXCEPT ![handle.id] = Append(@, "stop")]
  /\ UNCHANGED <<console, controlled, detaching, reader, output, sup, service, overtaken>>

\* snapshot()["timed_out"]: fifteen seconds after stop().
TimeOut ==
  /\ console = "on" /\ running /\ handle.stopping = "asked"
  /\ handle' = [handle EXCEPT !.stopping = "late"]
  /\ UNCHANGED <<console, controlled, detaching, reader, pipe, output, sup, service, overtaken>>

ForceStop == console = "on" /\ running /\ handle.stopping = "late" /\ Forced

can_detach == running => handle.detachable /\ handle.stopping = "no"

\* detach(), up to its wait: nothing is written when nothing runs or it was
\* confirmed before.
Detach ==
  /\ console = "on" /\ detaching = "no" /\ can_detach
  /\ IF running /\ ~handle.detached
     THEN /\ Len(pipe[handle.id]) + Len(output[handle.id]) < MaxPipe
          /\ pipe' = [pipe EXCEPT ![handle.id] = Append(@, "detach")]
          /\ detaching' = "waits"
     ELSE /\ detaching' = "done" /\ UNCHANGED pipe
  /\ UNCHANGED <<console, controlled, handle, reader, output, sup, service, overtaken>>

\* Its wait ends: with the event, or without it after five seconds.
DetachReturns ==
  /\ console = "on" /\ detaching = "waits"
  /\ detaching' = IF handle.detached THEN "done" ELSE "no"
  /\ UNCHANGED <<console, controlled, handle, reader, pipe, output, sup, service, overtaken>>

\* detach_finished(): another service has not confirmed and the window stays,
\* or it closes itself and the program ends.  Nothing is looked at again.
Stays ==
  /\ console = "on" /\ detaching = "done"
  /\ detaching' = "no"
  /\ UNCHANGED <<console, controlled, handle, reader, pipe, output, sup, service, overtaken>>

Leave ==
  /\ console = "on" /\ detaching = "done"
  /\ console' = "left"
  /\ UNCHANGED <<controlled, handle, detaching, reader, pipe, output, sup, service, overtaken>>

BadPresent(i) == TRUE

\* "self._process is process"
Present(i) == i = handle.id

\* A reading thread takes the next line of supervisor i; what is not said by
\* the present one is dropped.  The processes it names are kept under _lock; a
\* confirmation is tested here and set by the next step, without it.
Hear(i) ==
  /\ console = "on" /\ reader[i] = "reads" /\ output[i] # <<>>
  /\ LET event == Head(output[i]) IN
     /\ reader' = [reader EXCEPT ![i] = IF event = "detached" /\ Present(i) THEN "confirms" ELSE @]
     /\ handle' = IF event = "owned" /\ Present(i)
                  THEN [handle EXCEPT !.owned = service[i] \in Alive] ELSE handle
  /\ output' = [output EXCEPT ![i] = Tail(@)]
  /\ UNCHANGED <<console, controlled, detaching, pipe, sup, service, overtaken>>

\* The event is that of the object, whoever the present supervisor is by now.
Confirm(i) ==
  /\ console = "on" /\ reader[i] = "confirms"
  /\ reader' = [reader EXCEPT ![i] = "reads"]
  /\ handle' = [handle EXCEPT !.detached = TRUE]
  /\ UNCHANGED <<console, controlled, detaching, pipe, output, sup, service, overtaken>>

Killed ==
  /\ console = "on"
  /\ console' = "killed"
  /\ UNCHANGED <<controlled, handle, detaching, reader, pipe, output, sup, service, overtaken>>

----------------------------------------------------------------------------
(* The supervisor: its main thread, its commands() thread, its emit().      *)

\* emit(): silent once detached; a console that is gone means stop.
Emit(i, event, s) ==
  CASE s.detached     -> /\ sup' = [sup EXCEPT ![i] = s]
                         /\ UNCHANGED output
    [] console = "on" -> /\ sup' = [sup EXCEPT ![i] = s]
                         /\ output' = [output EXCEPT ![i] = Append(@, event)]
    [] OTHER          -> /\ sup' = [sup EXCEPT ![i] = [s EXCEPT !.told = TRUE]]
                         /\ UNCHANGED output

\* The specification is read and the service started; then commands() is.  What
\* is no specification, or a program that cannot be started, ends it.
Boot(i) ==
  /\ sup[i].at = "boot" /\ pipe[i] # <<>>
  /\ pipe' = [pipe EXCEPT ![i] = Tail(@)]
  /\ \/ /\ Head(pipe[i]) = "spec"
        /\ sup' = [sup EXCEPT ![i].at = "serving", ![i].listening = TRUE]
        /\ service' = [service EXCEPT ![i] = "running"]
     \/ /\ sup' = [sup EXCEPT ![i].at = "gone"]
        /\ UNCHANGED service
  /\ UNCHANGED <<consoleVars, output>>

\* The pipe ended before a specification came.
BootFails(i) ==
  /\ sup[i].at = "boot" /\ pipe[i] = <<>> /\ console # "on"
  /\ sup' = [sup EXCEPT ![i].at = "gone"]
  /\ UNCHANGED <<consoleVars, pipe, output, service>>

\* One line of commands().  Detaching is committed before it is confirmed; a
\* confirmation nobody can receive ends the thread and no more.
Listen(i) ==
  /\ sup[i].at = "serving" /\ sup[i].listening /\ pipe[i] # <<>>
  /\ pipe' = [pipe EXCEPT ![i] = Tail(@)]
  /\ IF Head(pipe[i]) = "stop"
     THEN /\ sup' = [sup EXCEPT ![i].told = TRUE, ![i].listening = FALSE]
          /\ UNCHANGED output
     ELSE /\ sup' = [sup EXCEPT ![i].detached = TRUE, ![i].listening = console = "on"]
          /\ output' = IF console = "on" THEN [output EXCEPT ![i] = Append(@, "detached")]
                                         ELSE output
  /\ UNCHANGED <<consoleVars, service>>

BadListenEnds(i) ==
  /\ sup[i].at = "serving" /\ sup[i].listening /\ pipe[i] = <<>> /\ console # "on"
  /\ sup' = [sup EXCEPT ![i].listening = FALSE, ![i].told = TRUE]
  /\ UNCHANGED <<consoleVars, pipe, output, service>>

DeafListenEnds(i) ==
  /\ sup[i].at = "serving" /\ sup[i].listening /\ pipe[i] = <<>> /\ console # "on"
  /\ sup' = [sup EXCEPT ![i].listening = FALSE]
  /\ UNCHANGED <<consoleVars, pipe, output, service>>

\* The end of commands() at the end of the pipe.
ListenEnds(i) ==
  /\ sup[i].at = "serving" /\ sup[i].listening /\ pipe[i] = <<>> /\ console # "on"
  /\ sup' = [sup EXCEPT ![i].listening = FALSE, ![i].told = @ \/ ~sup[i].detached]
  /\ UNCHANGED <<consoleVars, pipe, output, service>>

\* The main loop: the service is asked to stop, once.  Share reads "stop" from
\* its pipe (listen_control), a tunnel is sent SIGTERM.
PassOn(i) ==
  /\ sup[i].at = "serving" /\ sup[i].told /\ ~sup[i].asked
  /\ sup' = [sup EXCEPT ![i].asked = TRUE]
  /\ service' = [service EXCEPT ![i] = IF @ = "running" THEN "halting" ELSE @]
  /\ UNCHANGED <<consoleVars, pipe, output>>

\* The processes of the service are named as they are found ("ready", which
\* only changes a label, goes the same way).
TellOwned(i) ==
  /\ sup[i].at = "serving" /\ service[i] \in Alive /\ ~sup[i].owned_sent
  /\ Emit(i, "owned", [sup[i] EXCEPT !.owned_sent = TRUE])
  /\ UNCHANGED <<consoleVars, pipe, service>>

\* The service ends: because it was asked to, or by itself.
Ends(i) ==
  /\ service[i] \in Alive
  /\ service' = [service EXCEPT ![i] = "gone"]
  /\ UNCHANGED <<consoleVars, pipe, output, sup>>

\* ... and its supervisor after it.
Follow(i) ==
  /\ sup[i].at = "serving" /\ service[i] = "gone"
  /\ sup' = [sup EXCEPT ![i].at = "gone"]
  /\ UNCHANGED <<consoleVars, pipe, output, service>>

\* Somebody kills the supervisor.
SupervisorKilled(i) ==
  /\ Up(i)
  /\ sup' = [sup EXCEPT ![i].at = "gone"]
  /\ service' = [service EXCEPT ![i] = Bereaved(@)]
  /\ UNCHANGED <<consoleVars, pipe, output>>

----------------------------------------------------------------------------

Console ==
  \/ Start \/ SendSpec \/ SendFails \/ Stop \/ TimeOut \/ ForceStop
  \/ Detach \/ DetachReturns \/ Stays \/ Leave \/ Killed

Supervisor(i) ==
  \/ Boot(i) \/ BootFails(i) \/ Listen(i) \/ ListenEnds(i)
  \/ PassOn(i) \/ TellOwned(i) \/ Follow(i)

ProcessNext ==
  \/ Console
  \/ \E i \in Ids : Hear(i) \/ Confirm(i) \/ Supervisor(i) \/ Ends(i) \/ SupervisorKilled(i)

\* The threads of a supervisor run, and what was asked to stop does stop.
ProcessFairness ==
  \A i \in Ids :
    /\ WF_processVars(Boot(i)) /\ WF_processVars(BootFails(i))
    /\ WF_processVars(Listen(i)) /\ WF_processVars(ListenEnds(i))
    /\ WF_processVars(PassOn(i)) /\ WF_processVars(Follow(i))
    /\ WF_processVars(service[i] = "halting" /\ Ends(i))

ProcessSpec == ProcessInit /\ [][ProcessNext]_processVars

ProcessFairSpec == ProcessSpec /\ ProcessFairness

----------------------------------------------------------------------------

(* What the console holds of its service was said by the service's own      *)
(* supervisor, whatever an earlier one still has unread: which processes    *)
(* are its own, and that it lives alone.  The second is excepted for the    *)
(* start that comes while a reading thread is between its test of           *)
(* "self._process is process" and the setting of the event (_line), for     *)
(* start() holds a lock that _line does not ask for.                        *)
NewsIsOfThisProcess ==
  /\ handle.detached => sup[handle.id].detached \/ overtaken
  /\ handle.owned => sup[handle.id].owned_sent

(* A service the console left behind, and that the user did not ask to      *)
(* stop, is not told to by the end of the pipe, nor by the failure of a     *)
(* line that can no longer be written (supervisor.py, the finally of        *)
(* commands and the except of emit; process.py, detach).  Left on the       *)
(* confirmation of an earlier supervisor it is (overtaken, as above).       *)
LeftIsKept ==
  (console = "left" /\ running /\ handle.stopping = "no" /\ ~overtaken) => ~sup[handle.id].told

(* A service whose console is gone without detaching it ends, and so does   *)
(* one the user asked to stop; only a tunnel whose supervisor was killed is *)
(* left.  Excepted is what a detach that is still in the pipe brings about: *)
(* read after the console was killed, it leaves the service alone, and a    *)
(* stop written behind it is lost, for the confirmation that cannot be      *)
(* written ends the thread that would have read "stop" (supervisor.py,      *)
(* commands).  A window that left lost the stop the same way if it asked    *)
(* for it behind a second detach, one sent before the first was confirmed.  *)
Over(i) == sup[i].at \in {"none", "gone"} /\ service[i] \in {"none", "gone", "orphan"}

Condemned(i) == \/ sup[i].told \/ (console = "killed" /\ ~sup[i].detached)
                \/ (handle.id = i /\ handle.stopping # "no")

LostStop(i) == /\ sup[i].detached /\ console # "on"
               /\ console = "killed" \/ (handle.id = i /\ handle.stopping # "no")

EndsWhenTold ==
  \A i \in Ids : Condemned(i) ~> (Over(i) \/ LostStop(i))
=============================================================================
