---------------------------- MODULE SharedSessions ----------------------------
(***************************************************************************)
(* Which sessions are shared: SessionTasks (session_tasks.py) adds,        *)
(* creates, migrates and removes them, one operation at a time; the        *)
(* configuration file keeps the choice and is edited by the desktop        *)
(* program and by hand as well (config_write.py, desktop/config.py);       *)
(* LanSessionHub (session_hub.py) holds the memberships and one            *)
(* LanChatService per session opened, and in "all" mode a thread of its    *)
(* own refreshes the catalogue from the App Server's list.                 *)
(*                                                                         *)
(* A service is seen through what the hub reads of it: its status and      *)
(* whether messages wait (module ChatService is the service itself).       *)
(* Operations that change nothing (a refusal before the first write) are   *)
(* not actions.  The "auto" mode is a selection of one session.            *)
(***************************************************************************)
EXTENDS Naturals

CONSTANTS
  Existing,   \* the sessions there are at the beginning
  New,        \* the ids of the threads made later
  Requests,   \* the request ids of the web page, one per "new task" dialog
  Legacy,     \* session_ids of an older runtime/lan/shared_sessions.json
  Nobody,     \* no session, no request
  MaxOps,     \* operations of SessionTasks begun
  MaxMessages, \* messages submitted
  MaxOthers   \* what comes from elsewhere: edits of the file, restarts,
              \* releases, threads changed by other clients

Sessions == Existing \cup New

ASSUME SessionsAssumption == /\ Existing \cap New = {} /\ Legacy \subseteq Existing
                             /\ Nobody \notin Sessions \cup Requests
                             /\ {"none", "pending"} \cap Sessions = {}

VARIABLES
  thread,   \* App Server: each session "none", "listed" or "archived"
  file,     \* lan_config.toml: session_mode and session_ids
  draft,    \* the file as the desktop program loaded it, a set of at most one
  saving,   \* the change the desktop program writes now, a set of at most one
  record,   \* SessionTasks._state["requests"]: "none", "pending" or the session
  saved,    \* the same in shared_sessions.json
  migrated, \* config_migrated, in memory and in shared_sessions.json
  op,       \* the operation that holds SessionTasks._lock
  hub,      \* _catalog_mode, _catalog_by_id, _added_by_id, _fixed_ids, default
  service,  \* _services_by_id: "none", "live" or "released"
  work,     \* the service's worker: "idle", a message "queued" or "running"
  refresh,  \* where the refresh thread is in refresh_catalog
  user,     \* the request that holds _service_create_lock: opens or submits
  madeFor,  \* history: the threads made for each request
  chosen,   \* history: the file that all confirmed changes amount to
  edited,   \* history: edited since the server started
  late,     \* history: the file with the edits made by hand between the
            \* comparison and the replacement under way, a set of at most one
  removed,  \* history: removed through the web page and not shared again
  spent     \* what has been used of the bounds

hubVars == <<hub, service, work, refresh, user>>
history == <<madeFor, chosen, edited, late, removed>>
vars    == <<thread, file, draft, saving, record, saved, migrated, op, hubVars, history, spent>>

Listed   == {s \in Sessions : thread[s] = "listed"}
Serviced == {s \in Sessions : service[s] # "none"}

\* _fixed_ids is None until the first change: every session is in it.
NoLimit == Sessions

\* LanSessionHub.thread_ids
Visible == ((IF hub.catalogMode THEN hub.catalog ELSE Serviced) \cup hub.added) \cap hub.fixed

\* resolve_session_id: a session taken off the catalogue stays accessible
\* as long as the hub keeps its service.
Resolvable(s) ==
  /\ s \in hub.fixed
  /\ s \in (IF hub.catalogMode THEN hub.catalog ELSE {}) \cup Serviced \cup hub.added

IdleOp   == [kind |-> "none", pc |-> "idle", sids |-> {}, rid |-> Nobody, base |-> {}, ids |-> {}]
IdleUser == [pc |-> "idle", sid |-> Nobody]
IdleRefresh == [pc |-> "idle", list |-> {}, stale |-> {}, at |-> Nobody, quiet |-> {}]

\* _service_create_lock and the lock file beside the configuration.
CreateLockFree == user.pc = "idle" /\ op.pc \notin {"released", "removing", "written"}
ConfigLockFree ==
  /\ saving = {}
  /\ op.pc \notin {"save", "sharing", "unshare", "released", "removing", "written"}

\* Any first element of a dict, None of an empty one.
FirstOf(S) == IF S = {} THEN {Nobody} ELSE S

\* A writer has compared the digest and not yet replaced the file.
OpCompared == op.pc \in {"sharing", "removing"}

\* What the file must be: the confirmed changes, and on top of them the edits
\* of which a writer that has compared knows nothing.
Agreed == IF late = {} THEN {chosen} ELSE late

\* A writer gives up: the edits made since it compared stand.
LateStands   == chosen' \in Agreed /\ late' = {}
OpLeavesFile == IF OpCompared THEN LateStands ELSE UNCHANGED <<chosen, late>>

\* Operators named Bad... are slips of the code that the properties must
\* notice; no action or property uses them.

Spend(what) == spent' = [spent EXCEPT ![what] = @ + 1]
Bounds == [ops |-> MaxOps, messages |-> MaxMessages, others |-> MaxOthers]
Left(what) == spent[what] < Bounds[what]

-----------------------------------------------------------------------------
(* The server starts.                                                      *)

\* LanSessionHub.start of a hub built from file f; the first refresh of the
\* catalogue may fail.
StartedHubs(f) ==
  LET catalogs == IF f.mode = "all" THEN {Listed, {}} ELSE {{}} IN
  {h \in [catalogMode : {f.mode = "all"}, catalog : catalogs, added : {{}}, fixed : {NoLimit},
          default : Sessions \cup {Nobody}] :
     h.default \in FirstOf(IF h.catalogMode THEN h.catalog ELSE f.ids)}

StartedServices(f) ==
  [s \in Sessions |-> IF f.mode = "selected" /\ s \in f.ids THEN "live" ELSE "none"]

AllIdle == [s \in Sessions |-> "idle"]

Init ==
  /\ thread = [s \in Sessions |-> IF s \in Existing THEN "listed" ELSE "none"]
  /\ file \in {[mode |-> "all", ids |-> {}]} \cup [mode : {"selected"}, ids : SUBSET Existing]
  /\ draft = {} /\ saving = {}
  /\ record = [r \in Requests |-> "none"] /\ saved = record
  /\ migrated = FALSE
  /\ op = IdleOp /\ user = IdleUser /\ refresh = IdleRefresh
  /\ hub \in StartedHubs(file) /\ service = StartedServices(file) /\ work = AllIdle
  /\ madeFor = [r \in Requests |-> {}] /\ chosen = file /\ edited = FALSE
  /\ late = {} /\ removed = {}
  /\ spent = [what \in DOMAIN Bounds |-> 0]

\* The process ends anywhere and is started again: _state is read back from
\* shared_sessions.json, the hub is built from the file, and restore() adds
\* nothing, because the file alone says what is shared.
Restart ==
  /\ Left("others") /\ Spend("others")
  /\ hub' \in StartedHubs(file) /\ service' = StartedServices(file) /\ work' = AllIdle
  /\ op' = IdleOp /\ user' = IdleUser /\ refresh' = IdleRefresh
  /\ record' = saved
  /\ edited' = FALSE /\ removed' = {}
  /\ OpLeavesFile
  /\ UNCHANGED <<thread, file, draft, saving, saved, migrated, madeFor>>

-----------------------------------------------------------------------------
(* SessionTasks: add, create, migrate.                                     *)

\* SessionTasks._lock is held from the beginning of an operation to its end.
Begin(kind, pc, sids, rid) ==
  /\ op.pc = "idle" /\ Left("ops") /\ Spend("ops")
  /\ op' = [IdleOp EXCEPT !.kind = kind, !.pc = pc, !.sids = sids, !.rid = rid]

Goto(pc) == op' = [op EXCEPT !.pc = pc]

\* add: not shared yet, and read from the App Server, which also fails for
\* an archived thread.
AddBegins(s) ==
  /\ s \notin Visible /\ thread[s] = "listed"
  /\ Begin("add", "share", {s}, Nobody)
  /\ UNCHANGED <<thread, file, draft, saving, record, saved, migrated, hubVars, history>>

BadCreateBegins(r) ==
  /\ record[r] = "none"
  /\ Begin("create", "create", {}, r)
  /\ record' = [record EXCEPT ![r] = "pending"]
  /\ UNCHANGED <<thread, file, draft, saving, saved, migrated, hubVars, history>>

\* create, first time: the request is on disk before the thread is asked
\* for.  The operation ends here if the write fails.
CreateBegins(r) ==
  /\ record[r] = "none"
  /\ Begin("create", "create", {}, r)
  /\ record' = [record EXCEPT ![r] = "pending"]
  /\ saved' = record'
  /\ UNCHANGED <<thread, file, draft, saving, migrated, hubVars, history>>

\* create, again: a request whose thread is known is shared again; one
\* whose outcome is not known is refused.
CreateAgain(r) ==
  /\ record[r] \in Listed
  /\ Begin("create", "share", {record[r]}, r)
  /\ UNCHANGED <<thread, file, draft, saving, record, saved, migrated, hubVars, history>>

\* Which id a new thread gets does not matter.
Unused == {s \in New : thread[s] = "none"}
NewId  == CHOOSE s \in Unused : TRUE

MakeThread(r) ==
  /\ Unused # {}
  /\ thread' = [thread EXCEPT ![NewId] = "listed"]
  /\ madeFor' = [madeFor EXCEPT ![r] = @ \cup {NewId}]

\* thread/start answers: the id is kept in memory whatever the disk does.
ThreadIsMade ==
  /\ op.pc = "create" /\ MakeThread(op.rid)
  /\ record' = [record EXCEPT ![op.rid] = NewId]
  /\ op' = [op EXCEPT !.pc = "record", !.sids = {NewId}]
  /\ UNCHANGED <<file, draft, saving, saved, migrated, hubVars, chosen, edited, late, removed, spent>>

\* thread/start fails: nothing was made, or the answer was lost.
OutcomeUnknown ==
  /\ op.pc = "create" /\ op' = IdleOp
  /\ \/ MakeThread(op.rid)
     \/ UNCHANGED <<thread, madeFor>>
  /\ UNCHANGED <<file, draft, saving, record, saved, migrated, hubVars, chosen, edited, late, removed, spent>>

CreateIsRecorded ==
  /\ op.pc = "record"
  /\ \/ saved' = record /\ Goto("share")
     \/ saved' = saved /\ op' = IdleOp
  /\ UNCHANGED <<thread, file, draft, saving, record, migrated, hubVars, history, spent>>

\* migrate: the sessions of the old list are shared or dropped, once.
MigrateBegins(include) ==
  LET legacy == IF include THEN Legacy \ Visible ELSE {} IN
  /\ ~migrated /\ legacy \subseteq Listed
  /\ Begin("migrate", IF legacy = {} THEN "mark" ELSE "share", legacy, Nobody)
  /\ UNCHANGED <<thread, file, draft, saving, record, saved, migrated, hubVars, history>>

MigrateEnds ==
  /\ op.pc = "mark" /\ op' = IdleOp
  /\ migrated' \in {migrated, TRUE}
  /\ UNCHANGED <<thread, file, draft, saving, record, saved, hubVars, history, spent>>

-----------------------------------------------------------------------------
(* The change of the configuration file and of the hub.                    *)

\* SessionConfigStore.mutation: the lock file is locked, the file read; out
\* of the selected mode what is visible now becomes the selection.
Selection == IF file.mode = "selected" THEN file.ids ELSE Visible

Mutation(pc, ids) == op' = [op EXCEPT !.pc = pc, !.base = {file}, !.ids = ids]

ShareBegins ==
  /\ op.pc = "share" /\ saving = {} /\ Mutation("save", Selection \cup op.sids)
  /\ UNCHANGED <<thread, file, draft, saving, record, saved, migrated, hubVars, history, spent>>

\* Not confirmed, locked by the desktop program, edited meanwhile, the disk is
\* full, or the file cannot be replaced.
ShareFails ==
  /\ op.pc \in {"share", "save", "sharing"} /\ op' = IdleOp
  /\ OpLeavesFile
  /\ UNCHANGED <<thread, file, draft, saving, record, saved, migrated, hubVars, madeFor, edited,
                 removed, spent>>

BadCompareConfig(pc) == Goto(pc)

\* replace_config, first: the file is still what was read.
CompareConfig(pc) == file \in op.base /\ Goto(pc)

\* and then: it is replaced, whatever it is by now.
ReplaceConfig(ids) == file' = [mode |-> "selected", ids |-> ids]

\* What the confirmed changes amount to, this one included.  The edits made
\* since the comparison are overwritten.
Confirm(ids) ==
  /\ chosen' = [mode |-> "selected", ids |-> IF chosen.mode = "selected" THEN ids ELSE op.ids]
  /\ late' = {}

ShareCompares ==
  /\ op.pc = "save" /\ CompareConfig("sharing")
  /\ UNCHANGED <<thread, file, draft, saving, record, saved, migrated, hubVars, history, spent>>

ShareSaves ==
  /\ op.pc = "sharing" /\ ReplaceConfig(op.ids)
  /\ Goto("fix") /\ Confirm(chosen.ids \cup op.sids)
  /\ UNCHANGED <<thread, draft, saving, record, saved, migrated, hubVars, madeFor, edited, removed, spent>>

\* LanSessionHub.fix_membership, on a hub whose tables have just changed to h
\* and whose services are those of S.
Fixed(h, ids, S) ==
  LET visible == ((IF h.catalogMode THEN h.catalog ELSE S) \cup h.added) \cap ids IN
  {[h EXCEPT !.fixed = ids, !.default = d] :
     d \in IF h.default \in visible THEN {h.default} ELSE FirstOf(visible)}

MembershipIsFixed ==
  /\ op.pc = "fix" /\ hub' \in Fixed(hub, op.ids, Serviced)
  /\ Goto("register") /\ removed' = removed \ op.ids
  /\ UNCHANGED <<thread, file, draft, saving, record, saved, migrated, service, work, refresh, user,
                 madeFor, chosen, edited, late, spent>>

\* register_session, for one session after the other.
Registers(s) ==
  /\ op.pc = "register" /\ s \in op.sids
  /\ hub' = [hub EXCEPT !.added = @ \cup {s}, !.default = IF @ = Nobody THEN s ELSE @]
  /\ op' = IF op.sids # {s} THEN [op EXCEPT !.sids = @ \ {s}]
           ELSE IF op.kind = "migrate" THEN [IdleOp EXCEPT !.kind = "migrate", !.pc = "mark"]
           ELSE IdleOp
  /\ UNCHANGED <<thread, file, draft, saving, record, saved, migrated, service, work, refresh, user,
                 history, spent>>

\* remove: the file stays locked to the end.
RemoveBegins(s) ==
  /\ op.pc = "idle" /\ saving = {} /\ Left("ops") /\ Spend("ops")
  /\ op' = [kind |-> "remove", pc |-> "unshare", sids |-> {s}, rid |-> Nobody,
            base |-> {file}, ids |-> Selection \ {s}]
  /\ UNCHANGED <<thread, file, draft, saving, record, saved, migrated, hubVars, history>>

\* remove_shared takes _service_create_lock and releases an open service,
\* which refuses while it has work.
RemoveReleases ==
  /\ op.pc = "unshare" /\ CreateLockFree
  /\ \A s \in op.sids : work[s] = "idle"
  /\ service' = [s \in Sessions |-> IF s \in op.sids \cap Serviced THEN "released" ELSE service[s]]
  /\ Goto("released")
  /\ UNCHANGED <<thread, file, draft, saving, record, saved, migrated, hub, work, refresh, user,
                 history, spent>>

RemoveFails ==
  /\ op.pc \in {"unshare", "released", "removing"} /\ op' = IdleOp
  /\ OpLeavesFile
  /\ UNCHANGED <<thread, file, draft, saving, record, saved, migrated, hubVars, madeFor, edited,
                 removed, spent>>

RemoveCompares ==
  /\ op.pc = "released" /\ CompareConfig("removing")
  /\ UNCHANGED <<thread, file, draft, saving, record, saved, migrated, hubVars, history, spent>>

RemoveSaves ==
  /\ op.pc = "removing" /\ ReplaceConfig(op.ids)
  /\ Goto("written") /\ Confirm(chosen.ids \ op.sids)
  /\ UNCHANGED <<thread, draft, saving, record, saved, migrated, hubVars, madeFor, edited, removed, spent>>

\* The service leaves the table: what the refresh thread holds of it is
\* another object from now on.
Forget(S) ==
  refresh' = [refresh EXCEPT !.stale = @ \ S, !.quiet = @ \ S,
                             !.at = IF @ \in S THEN Nobody ELSE @]

Close(S) ==
  /\ service' = [s \in Sessions |-> IF s \in S THEN "none" ELSE service[s]]
  /\ work' = [s \in Sessions |-> IF s \in S THEN "idle" ELSE work[s]]

BadRemoveDrops ==
  /\ op.pc = "written"
  /\ Close(op.sids) /\ Forget(op.sids)
  /\ hub' = [hub EXCEPT !.catalog = @ \ op.sids, !.added = @ \ op.sids]
  /\ removed' = (removed \cup op.sids) \ op.ids
  /\ op' = IdleOp
  /\ UNCHANGED <<thread, file, draft, saving, record, saved, migrated, user, madeFor, chosen, edited, late, spent>>

RemoveDrops ==
  LET dropped == [hub EXCEPT !.catalog = @ \ op.sids, !.added = @ \ op.sids] IN
  /\ op.pc = "written"
  /\ Close(op.sids) /\ Forget(op.sids)
  /\ hub' \in Fixed(dropped, op.ids, Serviced \ op.sids)
  /\ removed' = (removed \cup op.sids) \ op.ids
  /\ op' = IdleOp
  /\ UNCHANGED <<thread, file, draft, saving, record, saved, migrated, user, madeFor, chosen, edited, late, spent>>

-----------------------------------------------------------------------------
(* Edits from outside: the desktop program and a text editor.              *)

\* The file after edit e: a session put into or taken out of the selection,
\* or the mode set to "all".
Edits == [what : {"add", "drop"}, sid : Sessions] \cup [what : {"all"}, sid : {Nobody}]

Edited(f, e) ==
  [mode |-> IF e.what = "all" THEN "all" ELSE "selected",
   ids  |-> CASE e.what = "add"  -> f.ids \cup {e.sid}
              [] e.what = "drop" -> f.ids \ {e.sid}
              [] e.what = "all"  -> {}]

Changes(f, e) ==
  /\ e.sid \in {Nobody} \cup {s \in Sessions : thread[s] # "none"}
  /\ Edited(f, e) # f

DesktopLoads ==
  /\ saving = {}
  /\ draft # {file} /\ draft' = {file}
  /\ Left("others") /\ Spend("others")
  /\ UNCHANGED <<thread, file, saving, record, saved, migrated, op, hubVars, history>>

\* ConfigDocument.save: refused while the file is locked or no longer the
\* file that was loaded.
DesktopCompares(e) ==
  /\ ConfigLockFree
  /\ \E f \in draft : f = file /\ Changes(f, e)
  /\ saving' = {e}
  /\ UNCHANGED <<thread, file, draft, record, saved, migrated, op, hubVars, history, spent>>

\* The file is replaced, still under the lock.  A second save without a load
\* is left to ConfigEditing, the model of that program.
DesktopSaves ==
  /\ \E f \in draft, e \in saving : file' = Edited(f, e) /\ chosen' = Edited(chosen, e)
  /\ edited' = TRUE /\ late' = {}
  /\ draft' = {} /\ saving' = {}
  /\ UNCHANGED <<thread, record, saved, migrated, op, hubVars, madeFor, removed, spent>>

\* or it cannot be.
DesktopFails ==
  /\ saving # {} /\ saving' = {} /\ LateStands
  /\ UNCHANGED <<thread, file, draft, record, saved, migrated, op, hubVars, madeFor, edited, removed, spent>>

\* A text editor asks for no lock.
EditedByHand(e) ==
  /\ Changes(file, e) /\ file' = Edited(file, e) /\ edited' = TRUE
  /\ IF OpCompared \/ saving # {}
     THEN late' = {Edited(f, e) : f \in Agreed} /\ chosen' = chosen
     ELSE chosen' = Edited(chosen, e) /\ late' = late
  /\ Left("others") /\ Spend("others")
  /\ UNCHANGED <<thread, draft, saving, record, saved, migrated, op, hubVars, madeFor, removed>>

-----------------------------------------------------------------------------
(* Requests to sessions, and the services' workers.                        *)

BadOpenBegins(s) ==
  /\ user.pc = "idle" /\ Resolvable(s)
  /\ service[s] = "none" /\ s \in hub.added \cup hub.catalog
  /\ user' = [pc |-> "open", sid |-> s]
  /\ UNCHANGED <<thread, file, draft, saving, record, saved, migrated, op, hub, service, work, refresh,
                 history, spent>>

\* _service of a session that has none: created and started under
\* _service_create_lock, with RPCs that may fail.
OpenBegins(s) ==
  /\ CreateLockFree /\ Resolvable(s)
  /\ service[s] = "none" /\ s \in hub.added \cup hub.catalog
  /\ user' = [pc |-> "open", sid |-> s]
  /\ UNCHANGED <<thread, file, draft, saving, record, saved, migrated, op, hub, service, work, refresh,
                 history, spent>>

OpenEnds ==
  /\ user.pc = "open" /\ user' = IdleUser
  /\ service' \in {service, [service EXCEPT ![user.sid] = "live"]}
  /\ UNCHANGED <<thread, file, draft, saving, record, saved, migrated, op, hub, work, refresh,
                 history, spent>>

\* submit keeps _service_create_lock, so that remove waits; refresh_catalog
\* does not ask for it.
SubmitBegins(s) ==
  /\ CreateLockFree /\ Resolvable(s)
  /\ service[s] = "live" /\ work[s] = "idle"
  /\ Left("messages") /\ Spend("messages")
  /\ user' = [pc |-> "submit", sid |-> s]
  /\ UNCHANGED <<thread, file, draft, saving, record, saved, migrated, op, hub, service, work, refresh,
                 history>>

\* The message goes to the service looked up, in the table or not.
SubmitEnds ==
  /\ user.pc = "submit" /\ user' = IdleUser
  /\ work' = IF service[user.sid] = "live" THEN [work EXCEPT ![user.sid] = "queued"] ELSE work
  /\ UNCHANGED <<thread, file, draft, saving, record, saved, migrated, op, hub, service, refresh,
                 history, spent>>

Work(s, before, after) ==
  /\ work[s] = before /\ work' = [work EXCEPT ![s] = after]
  /\ UNCHANGED <<thread, file, draft, saving, record, saved, migrated, op, hub, service, refresh, user,
                 history, spent>>

WorkerBegins(s) == Work(s, "queued", "running")
WorkerEnds(s)   == Work(s, "running", "idle")

\* release_session without the create lock, once the service is looked up.
UserReleases(s) ==
  /\ service[s] = "live" /\ work[s] = "idle" /\ Resolvable(s)
  /\ service' = [service EXCEPT ![s] = "released"]
  /\ Left("others") /\ Spend("others")
  /\ UNCHANGED <<thread, file, draft, saving, record, saved, migrated, op, hub, work, refresh, user,
                 history>>

\* reconnect_session, with it.
UserReconnects(s) ==
  /\ CreateLockFree /\ service[s] = "released" /\ Resolvable(s)
  /\ service' = [service EXCEPT ![s] = "live"]
  /\ UNCHANGED <<thread, file, draft, saving, record, saved, migrated, op, hub, work, refresh, user,
                 history, spent>>

-----------------------------------------------------------------------------
(* The refresh thread, in "all" mode: refresh_catalog.                     *)

RefreshStep == UNCHANGED <<thread, file, draft, saving, record, saved, migrated, op, user, history, spent>>

RefreshLists ==
  /\ hub.catalogMode /\ refresh.pc = "idle"
  /\ refresh' = [refresh EXCEPT !.pc = "listed", !.list = Listed]
  /\ UNCHANGED <<hub, service, work>> /\ RefreshStep

BadRefreshApplies ==
  LET mapped == refresh.list \cap hub.fixed IN
  /\ refresh.pc = "listed"
  /\ \E d \in IF hub.default \in mapped THEN {hub.default}
              ELSE IF mapped # {} THEN mapped ELSE FirstOf(hub.added) :
       hub' = [hub EXCEPT !.catalog = mapped, !.default = d]
  /\ refresh' = [IdleRefresh EXCEPT !.pc = "look",
                   !.stale = (Serviced \cap hub.catalog) \ (mapped \cup hub.added)]
  /\ UNCHANGED <<service, work>> /\ RefreshStep

\* Under _lock: the list, which may be old by now, becomes the catalogue as
\* far as the membership allows; services of other sessions are stale.
RefreshApplies ==
  LET mapped == refresh.list \cap hub.fixed IN
  /\ refresh.pc = "listed"
  /\ \E d \in IF hub.default \in mapped THEN {hub.default}
              ELSE IF mapped # {} THEN mapped ELSE FirstOf(hub.added) :
       hub' = [hub EXCEPT !.catalog = mapped, !.default = d]
  /\ refresh' = [IdleRefresh EXCEPT !.pc = "look",
                                    !.stale = Serviced \ (mapped \cup hub.added)]
  /\ UNCHANGED <<service, work>> /\ RefreshStep

\* summary() of a stale service reads its status, and then how many wait.
RefreshReadsStatus(s) ==
  /\ refresh.pc = "look" /\ refresh.at = Nobody /\ s \in refresh.stale
  /\ refresh' = [refresh EXCEPT !.stale = @ \ {s}, !.at = IF work[s] = "running" THEN Nobody ELSE s]
  /\ UNCHANGED <<hub, service, work>> /\ RefreshStep

RefreshReadsQueue ==
  /\ refresh.pc = "look" /\ refresh.at # Nobody
  /\ refresh' = [refresh EXCEPT !.at = Nobody,
                   !.quiet = IF work[refresh.at] = "queued" THEN @ ELSE @ \cup {refresh.at}]
  /\ UNCHANGED <<hub, service, work>> /\ RefreshStep

\* Under _lock again: the services that seemed quiet leave the table and are
\* closed.
RefreshCloses ==
  /\ refresh.pc = "look" /\ refresh.at = Nobody /\ refresh.stale = {}
  /\ Close(refresh.quiet \ hub.catalog)
  /\ refresh' = IdleRefresh
  /\ UNCHANGED hub /\ RefreshStep

-----------------------------------------------------------------------------
(* Other clients of the App Server.                                        *)

OthersChange(s, before, after) ==
  /\ thread[s] = before /\ thread' = [thread EXCEPT ![s] = after]
  /\ Left("others") /\ Spend("others")
  /\ UNCHANGED <<file, draft, saving, record, saved, migrated, op, hubVars, history>>

OthersMake         == Unused # {} /\ OthersChange(NewId, "none", "listed")
OthersArchive(s)   == OthersChange(s, "listed", "archived")
OthersUnarchive(s) == OthersChange(s, "archived", "listed")

Tasks ==
  \/ \E s \in Sessions : AddBegins(s) \/ Registers(s) \/ RemoveBegins(s)
  \/ \E r \in Requests : CreateBegins(r) \/ CreateAgain(r)
  \/ \E include \in BOOLEAN : MigrateBegins(include)
  \/ ThreadIsMade \/ OutcomeUnknown \/ CreateIsRecorded \/ MigrateEnds
  \/ ShareBegins \/ ShareFails \/ ShareCompares \/ ShareSaves \/ MembershipIsFixed
  \/ RemoveReleases \/ RemoveFails \/ RemoveCompares \/ RemoveSaves \/ RemoveDrops

Editors ==
  \/ DesktopLoads \/ DesktopSaves \/ DesktopFails
  \/ \E e \in Edits : DesktopCompares(e) \/ EditedByHand(e)

Handlers ==
  \/ \E s \in Sessions : OpenBegins(s) \/ SubmitBegins(s) \/ UserReleases(s) \/ UserReconnects(s)
  \/ OpenEnds \/ SubmitEnds

Workers == \E s \in Sessions : WorkerBegins(s) \/ WorkerEnds(s)

Refresh ==
  \/ RefreshLists \/ RefreshApplies \/ RefreshReadsQueue \/ RefreshCloses
  \/ \E s \in Sessions : RefreshReadsStatus(s)

Others == OthersMake \/ \E s \in Sessions : OthersArchive(s) \/ OthersUnarchive(s)

Next == Tasks \/ Editors \/ Handlers \/ Workers \/ Refresh \/ Others \/ Restart

Spec == Init /\ [][Next]_vars

\* The refresh thread and the workers run, and a request that holds the
\* create lock ends, because its RPCs have timeouts.
FairSpec ==
  /\ Spec
  /\ WF_vars(Refresh)
  /\ WF_vars(OpenEnds \/ SubmitEnds)
  /\ \A s \in Sessions : WF_vars(WorkerBegins(s) \/ WorkerEnds(s))

-----------------------------------------------------------------------------
(* Properties.                                                             *)

SessionIds == SUBSET Sessions
Files      == [mode : {"all", "selected"}, ids : SessionIds]
Records    == {"none", "pending"} \cup Sessions
Kinds      == {"none", "add", "create", "migrate", "remove"}
Places     == {"idle", "create", "record", "share", "save", "sharing", "fix", "register",
               "mark", "unshare", "released", "removing", "written"}
Operations == [kind : Kinds, pc : Places, sids : SessionIds, rid : Requests \cup {Nobody},
               base : SUBSET Files, ids : SessionIds]
Hubs       == [catalogMode : BOOLEAN, catalog : SessionIds, added : SessionIds,
               fixed : SessionIds, default : Sessions \cup {Nobody}]
Refreshes  == [pc : {"idle", "listed", "look"}, list : SessionIds, stale : SessionIds,
               at : Sessions \cup {Nobody}, quiet : SessionIds]
Users      == [pc : {"idle", "open", "submit"}, sid : Sessions \cup {Nobody}]

\* The variables of session_tasks.py, session_hub.py and the configuration
\* file have the types their comments give.
TypeOK ==
  /\ thread \in [Sessions -> {"none", "listed", "archived"}]
  /\ file \in Files /\ chosen \in Files /\ draft \in SUBSET Files
  /\ saving \in SUBSET Edits /\ late \in SUBSET Files
  /\ record \in [Requests -> Records] /\ saved \in [Requests -> Records]
  /\ migrated \in BOOLEAN /\ edited \in BOOLEAN
  /\ op \in Operations /\ hub \in Hubs /\ refresh \in Refreshes /\ user \in Users
  /\ service \in [Sessions -> {"none", "live", "released"}]
  /\ work \in [Sessions -> {"idle", "queued", "running"}]
  /\ madeFor \in [Requests -> SessionIds] /\ removed \in SessionIds
  /\ spent \in [DOMAIN Bounds -> Nat]

\* A "new task" request makes at most one thread, however often it is tried
\* again: after a lost answer, a full disk or a restart (SessionTasks.create
\* writes the request down before it asks for the thread).
OneThreadPerRequest == \A r \in Requests : \A s, t \in madeFor[r] : s = t

\* The file is what the changes made to it amount to: neither the server nor
\* the desktop program overwrites a change of the other, and of the edits made
\* by hand only those that come between the comparison of a digest and the
\* replacement that follows it, in the two writers' one unguarded window
\* (replace_config, ConfigDocument.save).
NoLostEdit == file \in Agreed

\* Between operations, the hub shares what the file says, as long as only
\* the server has changed it since it was started.
SharedIsSaved ==
  op.pc = "idle" /\ ~edited /\ file.mode = "selected" =>
    IF hub.catalogMode THEN hub.fixed = file.ids ELSE Visible = file.ids

\* A session removed through the page is free for other clients: it is not
\* visible, no service holds it and none is being opened (remove_shared keeps
\* _service_create_lock over the release, the write and the removal).
RemovedIsFree ==
  \A s \in removed : service[s] = "none" /\ s \notin Visible /\ user.sid # s

\* A service whose session left the catalogue is kept until its work has
\* ended, and closed then (refresh_catalog).  Stated for the sessions of the
\* beginning; a thread made later is handled alike.
StaleIsReleased ==
  \A s \in Existing :
    <>[](hub.catalogMode /\ thread[s] # "listed" /\ s \notin hub.added) => <>[](service[s] = "none")

\* The design of the catalogue: a session that leaves it with a task that
\* runs keeps its service until the task has ended, so refresh_catalog closes
\* no service that runs one.
BusyIsKept == [][RefreshCloses => \A s \in Sessions : work[s] = "running" => work'[s] = "running"]_vars
=============================================================================
