------------------------ MODULE SharedSessionsProofs ------------------------
(***************************************************************************)
(* Proofs about SharedSessions, for any sets of sessions and requests.     *)
(***************************************************************************)
EXTENDS SharedSessions, TLAPS

-----------------------------------------------------------------------------
(* Types.                                                                  *)

LEMMA NewIdIsUnused == Unused # {} => NewId \in Unused
  BY DEF NewId

\* The parts of a step that put records together.
LEMMA EditedType ==
  ASSUME NEW f \in Files, NEW e \in Edits PROVE Edited(f, e) \in Files
  BY DEF Files, Edits, Edited, SessionIds

LEMMA AgreedType == TypeOK => Agreed \in SUBSET Files
  BY DEF TypeOK, Agreed

LEMMA LateStandsType ==
  ASSUME TypeOK, OpLeavesFile \/ LateStands PROVE chosen' \in Files /\ late' \in SUBSET Files
  BY AgreedType DEF TypeOK, OpLeavesFile, LateStands

LEMMA VisibleType == TypeOK => Visible \in SessionIds /\ Selection \in SessionIds
  BY DEF TypeOK, Hubs, Files, Visible, Selection, Serviced, SessionIds

LEMMA FixedType ==
  ASSUME NEW h \in Hubs, NEW ids \in SessionIds, NEW S \in SessionIds, NEW g \in Fixed(h, ids, S)
  PROVE  g \in Hubs
  BY DEF Fixed, FirstOf, Hubs, SessionIds

LEMMA StartedType ==
  ASSUME file \in Files, NEW h \in StartedHubs(file)
  PROVE  h \in Hubs /\ StartedServices(file) \in [Sessions -> {"none", "live", "released"}]
  BY DEF Hubs, Files, StartedHubs, StartedServices, Listed, NoLimit, SessionIds

LEMMA IdleTypes == IdleOp \in Operations /\ IdleUser \in Users /\ IdleRefresh \in Refreshes
  BY DEF IdleOp, IdleUser, IdleRefresh, Operations, Users, Refreshes, Kinds, Places, SessionIds

LEMMA BeginType ==
  ASSUME NEW kind \in Kinds, NEW pc \in Places, NEW sids \in SessionIds, NEW rid \in Requests \cup {Nobody}
  PROVE  [IdleOp EXCEPT !.kind = kind, !.pc = pc, !.sids = sids, !.rid = rid] \in Operations
  BY DEF IdleOp, Operations, SessionIds

LEMMA SpendType ==
  ASSUME TypeOK, NEW what \in DOMAIN Bounds, Spend(what) PROVE spent' \in [DOMAIN Bounds -> Nat]
  BY DEF TypeOK, Spend

LEMMA BoundsDomain == DOMAIN Bounds = {"ops", "messages", "others"}
  BY DEF Bounds

LEMMA InitTypeOK == Init => TypeOK
<1> SUFFICES ASSUME Init PROVE TypeOK
  OBVIOUS
<1>1. file \in Files /\ chosen \in Files
  BY DEF Init, Files, SessionIds, Sessions
<1>2. hub \in Hubs /\ service \in [Sessions -> {"none", "live", "released"}]
  BY <1>1, StartedType DEF Init
<1>3. spent \in [DOMAIN Bounds -> Nat]
  BY DEF Init
<1> QED
  BY <1>1, <1>2, <1>3, IdleTypes DEF Init, TypeOK, Records, AllIdle, SessionIds

LEMMA StepKeepsTypeOK == TypeOK /\ [Next]_vars => TypeOK'
<1> SUFFICES ASSUME TypeOK, [Next]_vars PROVE TypeOK'
  OBVIOUS
<1> USE SessionsAssumption, IdleTypes, BoundsDomain DEF TypeOK, history, hubVars
<1>1. ASSUME NEW s \in Sessions, AddBegins(s) PROVE TypeOK'
  <2>1. {s} \in SessionIds
    BY DEF SessionIds
  <2>2. op' \in Operations
    BY <1>1, <2>1, BeginType DEF AddBegins, Begin, Kinds, Places
  <2> QED
    BY <1>1, <2>2, SpendType DEF AddBegins, Begin
<1>2. ASSUME NEW r \in Requests, CreateBegins(r) PROVE TypeOK'
  <2>1. op' \in Operations
    BY <1>2, BeginType DEF CreateBegins, Begin, Kinds, Places, SessionIds
  <2> QED
    BY <1>2, <2>1, SpendType DEF CreateBegins, Begin, Records
<1>3. ASSUME NEW r \in Requests, CreateAgain(r) PROVE TypeOK'
  <2>1. {record[r]} \in SessionIds
    BY <1>3 DEF CreateAgain, Listed, SessionIds
  <2>2. op' \in Operations
    BY <1>3, <2>1, BeginType DEF CreateAgain, Begin, Kinds, Places
  <2> QED
    BY <1>3, <2>2, SpendType DEF CreateAgain, Begin
<1>4. CASE ThreadIsMade
  BY <1>4, NewIdIsUnused
  DEF ThreadIsMade, MakeThread, Unused, Sessions, Operations, Records, Places, SessionIds
<1>5. CASE OutcomeUnknown
  BY <1>5, NewIdIsUnused DEF OutcomeUnknown, MakeThread, Unused, Sessions, Operations, SessionIds
<1>6. CASE CreateIsRecorded
  BY <1>6 DEF CreateIsRecorded, Goto, Operations, Places
<1>7. ASSUME NEW include \in BOOLEAN, MigrateBegins(include) PROVE TypeOK'
  <2>1. op' \in Operations
    BY <1>7, BeginType DEF MigrateBegins, Begin, Kinds, Places, SessionIds, Sessions
  <2> QED
    BY <1>7, <2>1, SpendType DEF MigrateBegins, Begin
<1>8. CASE MigrateEnds
  BY <1>8 DEF MigrateEnds
<1>9. CASE ShareBegins
  <2>1. op' \in Operations
    BY <1>9, VisibleType DEF ShareBegins, Mutation, Operations, Places, SessionIds
  <2> QED
    BY <1>9, <2>1 DEF ShareBegins
<1>10. CASE ShareFails
  BY <1>10, LateStandsType DEF ShareFails
<1>11. CASE ShareSaves
  BY <1>11 DEF ShareSaves, ReplaceConfig, Confirm, Goto, Files, Operations, Places, SessionIds
<1>12. CASE MembershipIsFixed
  <2>1. hub' \in Hubs
    BY <1>12, FixedType DEF MembershipIsFixed, Serviced, Operations, SessionIds
  <2> QED
    BY <1>12, <2>1 DEF MembershipIsFixed, Goto, Operations, Places, SessionIds
<1>13. ASSUME NEW s \in Sessions, Registers(s) PROVE TypeOK'
  <2>1. op' \in Operations
    BY <1>13 DEF Registers, Operations, IdleOp, Kinds, Places, SessionIds
  <2>2. hub' \in Hubs
    BY <1>13 DEF Registers, Hubs, SessionIds
  <2> QED
    BY <1>13, <2>1, <2>2 DEF Registers
<1>14. ASSUME NEW s \in Sessions, RemoveBegins(s) PROVE TypeOK'
  <2>1. op' \in Operations
    BY <1>14, VisibleType DEF RemoveBegins, Operations, Kinds, Places, SessionIds
  <2> QED
    BY <1>14, <2>1, SpendType DEF RemoveBegins
<1>15. CASE RemoveReleases
  BY <1>15 DEF RemoveReleases, Goto, Operations, Places
<1>16. CASE RemoveFails
  BY <1>16, LateStandsType DEF RemoveFails
<1>17. CASE RemoveSaves
  BY <1>17 DEF RemoveSaves, ReplaceConfig, Confirm, Goto, Files, Operations, Places, SessionIds
<1>18. CASE RemoveDrops
  <2>1. hub' \in Hubs
    <3> DEFINE dropped == [hub EXCEPT !.catalog = @ \ op.sids, !.added = @ \ op.sids]
    <3>1. dropped \in Hubs
      BY DEF Hubs, SessionIds
    <3>2. op.ids \in SessionIds /\ Serviced \ op.sids \in SessionIds
      BY DEF Operations, Serviced, SessionIds
    <3> QED
      BY <1>18, <3>1, <3>2, FixedType DEF RemoveDrops
  <2>2. refresh' \in Refreshes
    BY <1>18 DEF RemoveDrops, Forget, Refreshes, SessionIds
  <2> QED
    BY <1>18, <2>1, <2>2 DEF RemoveDrops, Close, Operations, SessionIds
<1>19. CASE DesktopLoads
  BY <1>19, SpendType DEF DesktopLoads
<1>20. CASE DesktopSaves
  <2>1. file' \in Files /\ chosen' \in Files
    BY <1>20, EditedType DEF DesktopSaves
  <2> QED
    BY <1>20, <2>1 DEF DesktopSaves
<1>21. ASSUME NEW e \in Edits, EditedByHand(e) PROVE TypeOK'
  <2>1. file' \in Files /\ chosen' \in Files
    BY <1>21, EditedType DEF EditedByHand
  <2>2. \A f \in Agreed : Edited(f, e) \in Files
    BY EditedType, AgreedType
  <2>3. late' \in SUBSET Files
    BY <1>21, <2>2 DEF EditedByHand
  <2> QED
    BY <1>21, <2>1, <2>3, SpendType DEF EditedByHand
<1>36. ASSUME NEW e \in Edits, DesktopCompares(e) PROVE TypeOK'
  BY <1>36 DEF DesktopCompares
<1>37. CASE DesktopFails
  BY <1>37, LateStandsType DEF DesktopFails
<1>38. CASE ShareCompares \/ RemoveCompares
  BY <1>38 DEF ShareCompares, RemoveCompares, CompareConfig, Goto, Operations, Places
<1>22. ASSUME NEW s \in Sessions, OpenBegins(s) \/ SubmitBegins(s) PROVE TypeOK'
  BY <1>22, SpendType DEF OpenBegins, SubmitBegins, Users
<1>23. CASE OpenEnds \/ SubmitEnds
  BY <1>23 DEF OpenEnds, SubmitEnds
<1>24. ASSUME NEW s \in Sessions, UserReleases(s) \/ UserReconnects(s) PROVE TypeOK'
  BY <1>24, SpendType DEF UserReleases, UserReconnects
<1>25. ASSUME NEW s \in Sessions, WorkerBegins(s) \/ WorkerEnds(s) PROVE TypeOK'
  BY <1>25 DEF WorkerBegins, WorkerEnds, Work
<1>26. CASE RefreshLists
  BY <1>26 DEF RefreshLists, RefreshStep, Refreshes, SessionIds, Listed
<1>27. CASE RefreshApplies
  <2>1. hub' \in Hubs
    <3> DEFINE mapped == refresh.list \cap hub.fixed
    <3>1. mapped \in SessionIds
      BY DEF Hubs, Refreshes, SessionIds
    <3>2. PICK d \in Sessions \cup {Nobody} : hub' = [hub EXCEPT !.catalog = mapped, !.default = d]
      BY <1>27, <3>1 DEF RefreshApplies, FirstOf, Hubs, SessionIds
    <3> QED
      BY <3>1, <3>2 DEF Hubs
  <2>2. refresh' \in Refreshes
    BY <1>27 DEF RefreshApplies, IdleRefresh, Refreshes, Serviced, SessionIds
  <2> QED
    BY <1>27, <2>1, <2>2 DEF RefreshApplies, RefreshStep
<1>28. ASSUME NEW s \in Sessions, RefreshReadsStatus(s) PROVE TypeOK'
  <2>1. refresh' \in Refreshes
    BY <1>28 DEF RefreshReadsStatus, Refreshes, SessionIds
  <2> QED
    BY <1>28, <2>1 DEF RefreshReadsStatus, RefreshStep
<1>29. CASE RefreshReadsQueue
  <2>1. refresh' \in Refreshes
    BY <1>29 DEF RefreshReadsQueue, Refreshes, SessionIds
  <2> QED
    BY <1>29, <2>1 DEF RefreshReadsQueue, RefreshStep
<1>30. CASE RefreshCloses
  BY <1>30 DEF RefreshCloses, RefreshStep, Close
<1>31. CASE OthersMake
  BY <1>31, NewIdIsUnused, SpendType DEF OthersMake, OthersChange
<1>32. ASSUME NEW s \in Sessions, OthersArchive(s) \/ OthersUnarchive(s) PROVE TypeOK'
  BY <1>32, SpendType DEF OthersArchive, OthersUnarchive, OthersChange
<1>33. CASE Restart
  <2>1. hub' \in Hubs /\ service' \in [Sessions -> {"none", "live", "released"}]
    BY <1>33, StartedType DEF Restart
  <2> QED
    BY <1>33, <2>1, SpendType, LateStandsType DEF Restart, AllIdle, SessionIds
<1>34. CASE UNCHANGED vars
  BY <1>34 DEF vars
<1> QED
  BY <1>1, <1>2, <1>3, <1>4, <1>5, <1>6, <1>7, <1>8, <1>9, <1>10, <1>11, <1>12, <1>13, <1>14, <1>15,
     <1>16, <1>17, <1>18, <1>19, <1>20, <1>21, <1>22, <1>23, <1>24, <1>25, <1>26, <1>27, <1>28, <1>29,
     <1>30, <1>31, <1>32, <1>33, <1>34, <1>36, <1>37, <1>38
  DEF Next, Tasks, Editors, Handlers, Workers, Refresh, Others

\* The variables keep their types: of the requests, of the hub's tables and
\* of the configuration file.
THEOREM Typing == Spec => []TypeOK
  BY InitTypeOK, StepKeepsTypeOK, PTL DEF Spec

-----------------------------------------------------------------------------
(* Where the steps of SessionTasks leave the operation.                    *)

LEMMA IdlePlace == IdleOp.pc = "idle" /\ IdleOp.base = {}
  BY DEF IdleOp

LEMMA BeginPlace ==
  ASSUME NEW kind, NEW pc, NEW sids, NEW rid, Begin(kind, pc, sids, rid)
  PROVE  op'.pc = pc /\ op'.base = {}
  BY DEF Begin, IdleOp

LEMMA GotoPlace ==
  ASSUME TypeOK, NEW pc, Goto(pc)
  PROVE  /\ op'.pc = pc
         /\ op'.kind = op.kind /\ op'.sids = op.sids /\ op'.rid = op.rid
         /\ op'.base = op.base /\ op'.ids = op.ids
  BY DEF Goto, TypeOK, Operations

LEMMA ComparePlace ==
  ASSUME TypeOK, ShareCompares \/ RemoveCompares
  PROVE  /\ file \in op.base
         /\ \/ op.pc = "save" /\ op'.pc = "sharing"
            \/ op.pc = "released" /\ op'.pc = "removing"
         /\ op'.kind = op.kind /\ op'.sids = op.sids /\ op'.rid = op.rid
         /\ op'.base = op.base /\ op'.ids = op.ids
         /\ UNCHANGED <<thread, file, draft, saving, record, saved, migrated, hub, service, work, refresh,
                        user, madeFor, chosen, edited, late, removed>>
  BY GotoPlace DEF ShareCompares, RemoveCompares, CompareConfig, hubVars, history

\* Registering goes on, or the operation is at its last step or over.
LEMMA RegistersPlace ==
  ASSUME TypeOK, NEW s \in Sessions, Registers(s)
  PROVE  op'.pc \in {"register", "mark", "idle"}
<1>1. CASE op' = [op EXCEPT !.sids = @ \ {s}]
  <2>1. op'.pc = op.pc
    BY <1>1 DEF TypeOK, Operations
  <2> QED
    BY <2>1 DEF Registers
<1>2. CASE op' = [IdleOp EXCEPT !.kind = "migrate", !.pc = "mark"]
  BY <1>2 DEF IdleOp
<1>3. CASE op' = IdleOp
  BY <1>3, IdlePlace
<1> QED
  BY <1>1, <1>2, <1>3 DEF Registers

\* fix_membership makes the ids it is given the membership.
LEMMA FixedIsLimit ==
  ASSUME NEW h \in Hubs, NEW ids \in SessionIds, NEW S, NEW g \in Fixed(h, ids, S)
  PROVE  g.fixed = ids
  BY DEF Fixed, Hubs

-----------------------------------------------------------------------------
(* One thread per request.  A request that has no record, in memory or on  *)
(* disk, has no thread: so neither a retry nor a restart makes a second.   *)

ThreadInv ==
  /\ OneThreadPerRequest
  /\ \A r \in Requests : "none" \in {record[r], saved[r]} => madeFor[r] = {}
  /\ op.pc = "create" => /\ op.rid \in Requests /\ madeFor[op.rid] = {}
                         /\ "none" \notin {record[op.rid], saved[op.rid]}

LEMMA StepKeepsThreadInv == TypeOK /\ ThreadInv /\ [Next]_vars => ThreadInv'
<1> SUFFICES ASSUME TypeOK, ThreadInv, [Next]_vars PROVE ThreadInv'
  OBVIOUS
<1> USE DEF ThreadInv, OneThreadPerRequest
<1>1. CASE UNCHANGED <<record, saved, madeFor>> /\ op'.pc # "create"
  BY <1>1
<1>2. CASE UNCHANGED <<record, saved, madeFor, op>>
  BY <1>2
<1>3. ASSUME NEW r \in Requests, CreateBegins(r) PROVE ThreadInv'
  BY <1>3 DEF CreateBegins, Begin, IdleOp, history, TypeOK
<1>4. CASE ThreadIsMade
  <2>1. NewId \in Sessions /\ NewId # "none"
    BY <1>4, NewIdIsUnused, SessionsAssumption DEF ThreadIsMade, MakeThread, Unused, Sessions
  <2> QED
    BY <1>4, <2>1 DEF ThreadIsMade, MakeThread, TypeOK, Operations
<1>5. CASE OutcomeUnknown
  BY <1>5 DEF OutcomeUnknown, MakeThread, IdleOp, TypeOK
<1>6. CASE CreateIsRecorded
  BY <1>6 DEF CreateIsRecorded, Goto, IdleOp, history, TypeOK, Operations
<1>7. CASE Restart
  BY <1>7 DEF Restart, IdleOp
<1>8. CASE ShareBegins \/ ShareSaves \/ MembershipIsFixed \/ RemoveReleases \/ RemoveSaves
  BY <1>8, <1>1
  DEF ShareBegins, ShareSaves, MembershipIsFixed, RemoveReleases, RemoveSaves, Mutation, Goto, history,
      TypeOK, Operations
<1>19. CASE ShareCompares \/ RemoveCompares
  BY <1>19, <1>1, ComparePlace
<1>9. CASE ShareFails \/ RemoveFails \/ RemoveDrops \/ MigrateEnds
  <2>1. op' = IdleOp /\ UNCHANGED <<record, saved, madeFor>>
    BY <1>9 DEF ShareFails, RemoveFails, RemoveDrops, MigrateEnds, history
  <2> QED
    BY <2>1, <1>1, IdlePlace
<1>10. ASSUME NEW s \in Sessions, AddBegins(s) \/ Registers(s) \/ RemoveBegins(s) PROVE ThreadInv'
  <2>1. UNCHANGED <<record, saved, madeFor>>
    BY <1>10 DEF AddBegins, Registers, RemoveBegins, history
  <2>2. op'.pc # "create"
    <3>1. CASE AddBegins(s)
      BY <3>1, BeginPlace DEF AddBegins
    <3>2. CASE Registers(s)
      BY <3>2, RegistersPlace
    <3>3. CASE RemoveBegins(s)
      BY <3>3 DEF RemoveBegins
    <3> QED
      BY <1>10, <3>1, <3>2, <3>3
  <2> QED
    BY <2>1, <2>2, <1>1
<1>11. ASSUME NEW r \in Requests, CreateAgain(r) PROVE ThreadInv'
  BY <1>11, <1>1 DEF CreateAgain, Begin, IdleOp, history
<1>12. ASSUME NEW include \in BOOLEAN, MigrateBegins(include) PROVE ThreadInv'
  BY <1>12, <1>1 DEF MigrateBegins, Begin, IdleOp, history
<1>13. CASE Editors
  BY <1>13, <1>2 DEF Editors, DesktopLoads, DesktopCompares, DesktopSaves, DesktopFails, EditedByHand, history
<1>14. CASE Handlers
  BY <1>14, <1>2
  DEF Handlers, OpenBegins, OpenEnds, SubmitBegins, SubmitEnds, UserReleases, UserReconnects, history
<1>15. CASE Workers
  BY <1>15, <1>2 DEF Workers, WorkerBegins, WorkerEnds, Work, history
<1>16. CASE Refresh
  BY <1>16, <1>2
  DEF Refresh, RefreshLists, RefreshApplies, RefreshReadsStatus, RefreshReadsQueue, RefreshCloses,
      RefreshStep, history
<1>17. CASE Others
  BY <1>17, <1>2 DEF Others, OthersMake, OthersArchive, OthersUnarchive, OthersChange, history
<1>18. CASE UNCHANGED vars
  BY <1>18, <1>2 DEF vars, history
<1> QED
  BY <1>3, <1>4, <1>5, <1>6, <1>7, <1>8, <1>9, <1>10, <1>11, <1>12, <1>13, <1>14, <1>15, <1>16, <1>17,
     <1>18, <1>19
  DEF Next, Tasks

\* A "new task" request makes at most one thread, whatever fails and however
\* often it is tried again (SessionTasks.create).
THEOREM OneThread == Spec => []OneThreadPerRequest
<1>1. Init => ThreadInv
  BY DEF Init, ThreadInv, OneThreadPerRequest, IdleOp
<1> QED
  BY <1>1, StepKeepsThreadInv, Typing, PTL DEF Spec, ThreadInv

-----------------------------------------------------------------------------
(* No edit is lost: while an operation is under way, what it will write    *)
(* is the file it has read with its own change; from the comparison to the *)
(* replacement that file is what the confirmed changes amount to.          *)

EditInv ==
  /\ NoLostEdit
  /\ (\A f, g \in late : f = g) /\ (\A f, g \in draft : f = g)
  /\ late # {} => OpCompared \/ saving # {}
  /\ OpCompared /\ ~edited => late = {}
  /\ OpCompared => saving = {} /\ chosen \in op.base
  /\ saving # {} => /\ draft \subseteq {chosen}
                    /\ op.pc \notin {"save", "sharing", "unshare", "released", "removing", "written"}
  /\ \A f \in op.base :
       /\ op.pc \in {"save", "sharing"} /\ f.mode = "selected" => op.ids = f.ids \cup op.sids
       /\ op.pc \in {"unshare", "released", "removing"} /\ f.mode = "selected" => op.ids = f.ids \ op.sids

LEMMA StepKeepsEditInv == TypeOK /\ EditInv /\ [Next]_vars => EditInv'
<1> SUFFICES ASSUME TypeOK, EditInv, [Next]_vars PROVE EditInv'
  OBVIOUS
<1> USE DEF EditInv, NoLostEdit, Agreed, OpCompared
<1>1. CASE UNCHANGED <<file, chosen, late, edited, saving, draft, op>>
  BY <1>1
<1>2. CASE /\ UNCHANGED <<file, chosen, late, edited, saving, draft>> /\ ~OpCompared
           /\ op'.pc \notin {"save", "sharing", "unshare", "released", "removing", "written"}
  BY <1>2
\* An operation that had compared, or had not, leaves the file.
<1>0. CASE /\ OpLeavesFile /\ op'.pc = "idle" /\ (edited' => edited)
           /\ UNCHANGED <<file, saving, draft>>
  <2>1. CASE OpCompared
    BY <1>0, <2>1 DEF OpLeavesFile, LateStands
  <2>2. CASE ~OpCompared
    BY <1>0, <2>2 DEF OpLeavesFile
  <2> QED
    BY <2>1, <2>2
<1>3. CASE ShareBegins
  BY <1>3 DEF ShareBegins, Mutation, Selection, history, TypeOK, Operations
<1>4. CASE ShareCompares \/ RemoveCompares
  <2>1. saving = {} /\ late = {} /\ chosen \in op.base
    BY <1>4, ComparePlace
  <2> QED
    BY <1>4, <2>1, ComparePlace
<1>5. ASSUME NEW s \in Sessions, RemoveBegins(s) PROVE EditInv'
  BY <1>5 DEF RemoveBegins, Selection, history
<1>6. CASE RemoveReleases
  BY <1>6 DEF RemoveReleases, Goto, history, TypeOK, Operations
<1>7. CASE ShareSaves \/ RemoveSaves
  <2>1. file' = chosen' /\ late' = {} /\ saving' = {} /\ draft' = draft /\ op'.pc \in {"fix", "written"}
    BY <1>7, GotoPlace DEF ShareSaves, RemoveSaves, ReplaceConfig, Confirm
  <2> QED
    BY <2>1
<1>8. CASE DesktopLoads
  BY <1>8 DEF DesktopLoads, history
<1>19. ASSUME NEW e \in Edits, DesktopCompares(e) PROVE EditInv'
  <2>1. late = {} /\ file = chosen /\ file \in draft /\ ~OpCompared
    BY <1>19 DEF DesktopCompares, ConfigLockFree
  <2> QED
    BY <1>19, <2>1 DEF DesktopCompares, ConfigLockFree, history
<1>20. CASE DesktopSaves
  BY <1>20 DEF DesktopSaves
<1>21. CASE DesktopFails
  BY <1>21 DEF DesktopFails, LateStands
<1>22. ASSUME NEW e \in Edits, EditedByHand(e) PROVE EditInv'
  <2>1. CASE OpCompared \/ saving # {}
    BY <1>22, <2>1 DEF EditedByHand
  <2>2. CASE ~(OpCompared \/ saving # {})
    BY <1>22, <2>2 DEF EditedByHand
  <2> QED
    BY <2>1, <2>2
<1>9. CASE MembershipIsFixed \/ ThreadIsMade \/ CreateIsRecorded
  <2>1. UNCHANGED <<file, chosen, late, edited, saving, draft>> /\ ~OpCompared
    BY <1>9 DEF MembershipIsFixed, ThreadIsMade, CreateIsRecorded, history
  <2>2. op'.pc \in {"register", "record", "share", "idle"}
    <3>1. CASE MembershipIsFixed
      BY <3>1, GotoPlace DEF MembershipIsFixed
    <3>2. CASE ThreadIsMade
      BY <3>2 DEF ThreadIsMade, TypeOK, Operations
    <3>3. CASE CreateIsRecorded
      BY <3>3, GotoPlace, IdlePlace DEF CreateIsRecorded
    <3> QED
      BY <1>9, <3>1, <3>2, <3>3
  <2> QED
    BY <2>1, <2>2, <1>2
<1>10. CASE RemoveDrops \/ MigrateEnds \/ OutcomeUnknown
  <2>1. op' = IdleOp /\ UNCHANGED <<file, chosen, late, edited, saving, draft>> /\ ~OpCompared
    BY <1>10 DEF RemoveDrops, MigrateEnds, OutcomeUnknown, history
  <2> QED
    BY <2>1, <1>2, IdlePlace
<1>23. CASE ShareFails \/ RemoveFails \/ Restart
  BY <1>23, <1>0, IdlePlace DEF ShareFails, RemoveFails, Restart
<1>11. ASSUME NEW s \in Sessions, AddBegins(s) \/ Registers(s) PROVE EditInv'
  <2>1. UNCHANGED <<file, chosen, late, edited, saving, draft>> /\ ~OpCompared
    BY <1>11 DEF AddBegins, Begin, Registers, history
  <2>2. op'.pc \in {"share", "register", "mark", "idle"}
    BY <1>11, BeginPlace, RegistersPlace DEF AddBegins
  <2> QED
    BY <2>1, <2>2, <1>2
<1>12. ASSUME NEW r \in Requests, CreateBegins(r) \/ CreateAgain(r) PROVE EditInv'
  BY <1>12, <1>2 DEF CreateBegins, CreateAgain, Begin, IdleOp, history
<1>13. ASSUME NEW include \in BOOLEAN, MigrateBegins(include) PROVE EditInv'
  BY <1>13, <1>2 DEF MigrateBegins, Begin, IdleOp, history
<1>14. CASE Handlers
  BY <1>14, <1>1
  DEF Handlers, OpenBegins, OpenEnds, SubmitBegins, SubmitEnds, UserReleases, UserReconnects, history
<1>15. CASE Workers
  BY <1>15, <1>1 DEF Workers, WorkerBegins, WorkerEnds, Work, history
<1>16. CASE Refresh
  BY <1>16, <1>1
  DEF Refresh, RefreshLists, RefreshApplies, RefreshReadsStatus, RefreshReadsQueue, RefreshCloses,
      RefreshStep, history
<1>17. CASE Others
  BY <1>17, <1>1 DEF Others, OthersMake, OthersArchive, OthersUnarchive, OthersChange, history
<1>18. CASE UNCHANGED vars
  BY <1>18, <1>1 DEF vars, history
<1> QED
  BY <1>3, <1>4, <1>5, <1>6, <1>7, <1>8, <1>9, <1>10, <1>11, <1>12, <1>13, <1>14, <1>15, <1>16, <1>17,
     <1>18, <1>19, <1>20, <1>21, <1>22, <1>23
  DEF Next, Tasks, Editors

\* Neither the server nor the desktop program overwrites a change that the
\* other has confirmed; of the edits made by hand they overwrite only those
\* that come between a comparison of the digest and the replacement after it
\* (replace_config, ConfigDocument.save).
THEOREM EditsAreKept == Spec => []NoLostEdit
<1>1. Init => EditInv
  BY DEF Init, EditInv, NoLostEdit, Agreed, OpCompared, IdleOp
<1> QED
  BY <1>1, StepKeepsEditInv, Typing, PTL DEF Spec, EditInv

-----------------------------------------------------------------------------
(* A removed session is free: it is outside the membership, and nobody has *)
(* the create lock between its release and its removal from the table.     *)

FreeInv ==
  /\ RemovedIsFree
  /\ removed \cap hub.fixed = {}
  /\ user.pc = "idle" => user.sid = Nobody
  /\ op.pc \in {"released", "removing", "written"} => user.pc = "idle"

LEMMA StepKeepsFreeInv == TypeOK /\ FreeInv /\ [Next]_vars => FreeInv'
<1> SUFFICES ASSUME TypeOK, FreeInv, [Next]_vars PROVE FreeInv'
  OBVIOUS
<1> USE SessionsAssumption DEF FreeInv, RemovedIsFree
\* Visibility follows from the membership.
<1>0. ASSUME removed' \cap hub'.fixed = {}
      PROVE  \A s \in removed' : s \notin Visible'
  BY <1>0 DEF Visible
<1>1. CASE UNCHANGED <<service, user, removed>> /\ hub'.fixed = hub.fixed
           /\ op'.pc \notin {"released", "removing", "written"}
  BY <1>1, <1>0
<1>2. CASE UNCHANGED <<service, user, removed, op>> /\ hub'.fixed = hub.fixed
  BY <1>2, <1>0
<1>3. CASE MembershipIsFixed
  <2>1. hub'.fixed = op.ids
    BY <1>3, FixedIsLimit DEF MembershipIsFixed, TypeOK, Operations
  <2>2. removed' \cap hub'.fixed = {} /\ op'.pc = "register"
    BY <1>3, <2>1, GotoPlace DEF MembershipIsFixed
  <2> QED
    BY <1>3, <2>2, <1>0 DEF MembershipIsFixed
<1>4. CASE RemoveReleases
  BY <1>4, <1>0 DEF RemoveReleases, CreateLockFree, Goto, Serviced, history, TypeOK, Operations, SessionIds
<1>24. CASE ShareCompares \/ RemoveCompares
  BY <1>24, <1>0, ComparePlace
<1>5. CASE RemoveSaves
  BY <1>5, <1>0 DEF RemoveSaves, Goto, hubVars, TypeOK, Operations
<1>6. CASE RemoveDrops
  <2>1. hub'.fixed = op.ids
    <3> DEFINE dropped == [hub EXCEPT !.catalog = @ \ op.sids, !.added = @ \ op.sids]
    <3>1. dropped \in Hubs
      BY DEF TypeOK, Hubs, SessionIds
    <3>2. hub' \in Fixed(dropped, op.ids, Serviced \ op.sids)
      BY <1>6 DEF RemoveDrops
    <3>3. op.ids \in SessionIds
      BY DEF TypeOK, Operations
    <3> HIDE DEF dropped
    <3> QED
      BY <3>1, <3>2, <3>3, FixedIsLimit
  <2>2. removed' \cap hub'.fixed = {} /\ op'.pc = "idle"
    BY <1>6, <2>1, IdlePlace DEF RemoveDrops
  <2>3. \A s \in removed' : s \in Sessions /\ service'[s] = "none" /\ user'.sid # s
    BY <1>6 DEF RemoveDrops, Close, TypeOK, Operations, SessionIds, Sessions
  <2> QED
    BY <1>6, <2>2, <2>3, <1>0 DEF RemoveDrops
<1>7. ASSUME NEW s \in Sessions, OpenBegins(s) \/ SubmitBegins(s) PROVE FreeInv'
  BY <1>7, <1>0 DEF OpenBegins, SubmitBegins, CreateLockFree, Resolvable, history, TypeOK, Users
<1>8. CASE OpenEnds \/ SubmitEnds
  BY <1>8, <1>0 DEF OpenEnds, SubmitEnds, IdleUser, history, TypeOK, SessionIds
<1>9. ASSUME NEW s \in Sessions, UserReleases(s) \/ UserReconnects(s) PROVE FreeInv'
  BY <1>9, <1>0 DEF UserReleases, UserReconnects, history, TypeOK, SessionIds
<1>10. CASE Workers
  BY <1>10, <1>2 DEF Workers, WorkerBegins, WorkerEnds, Work, history
<1>11. CASE RefreshLists \/ RefreshReadsQueue \/ \E s \in Sessions : RefreshReadsStatus(s)
  BY <1>11, <1>2 DEF RefreshLists, RefreshReadsQueue, RefreshReadsStatus, RefreshStep, history
<1>12. CASE RefreshApplies
  <2>1. hub'.fixed = hub.fixed /\ UNCHANGED <<service, user, removed, op>>
    BY <1>12 DEF RefreshApplies, RefreshStep, history, TypeOK, Hubs
  <2> QED
    BY <2>1, <1>2
<1>13. CASE RefreshCloses
  BY <1>13, <1>0 DEF RefreshCloses, RefreshStep, Close, history, TypeOK, SessionIds
<1>14. CASE Restart
  BY <1>14, <1>0 DEF Restart, IdleUser, IdleOp
<1>15. ASSUME NEW s \in Sessions, Registers(s) PROVE FreeInv'
  <2>1. hub'.fixed = hub.fixed /\ UNCHANGED <<service, user, removed>>
    BY <1>15 DEF Registers, history, TypeOK, Hubs
  <2>2. op'.pc \notin {"released", "removing", "written"}
    BY <1>15 DEF Registers, IdleOp, TypeOK, Operations
  <2> QED
    BY <2>1, <2>2, <1>1
<1>16. ASSUME NEW s \in Sessions, AddBegins(s) \/ RemoveBegins(s) PROVE FreeInv'
  <2>1. UNCHANGED <<service, user, removed, hub>>
    BY <1>16 DEF AddBegins, RemoveBegins, hubVars, history
  <2>2. op'.pc \in {"share", "unshare"}
    BY <1>16, BeginPlace DEF AddBegins, RemoveBegins
  <2> QED
    BY <2>1, <2>2, <1>1
<1>17. ASSUME NEW r \in Requests, CreateBegins(r) \/ CreateAgain(r) PROVE FreeInv'
  BY <1>17, <1>1 DEF CreateBegins, CreateAgain, Begin, IdleOp, hubVars, history
<1>18. ASSUME NEW include \in BOOLEAN, MigrateBegins(include) PROVE FreeInv'
  BY <1>18, <1>1 DEF MigrateBegins, Begin, IdleOp, hubVars, history
<1>19. CASE ThreadIsMade \/ CreateIsRecorded \/ ShareBegins \/ ShareSaves
  <2>1. UNCHANGED <<service, user, removed, hub>>
    BY <1>19 DEF ThreadIsMade, CreateIsRecorded, ShareBegins, ShareSaves, hubVars, history
  <2>2. op'.pc \in {"record", "share", "idle", "save", "fix"}
    <3>1. CASE ThreadIsMade
      BY <3>1 DEF ThreadIsMade, TypeOK, Operations
    <3>2. CASE CreateIsRecorded
      BY <3>2, GotoPlace, IdlePlace DEF CreateIsRecorded
    <3>3. CASE ShareBegins
      BY <3>3 DEF ShareBegins, Mutation, TypeOK, Operations
    <3>4. CASE ShareSaves
      BY <3>4, GotoPlace DEF ShareSaves
    <3> QED
      BY <1>19, <3>1, <3>2, <3>3, <3>4
  <2> QED
    BY <2>1, <2>2, <1>1
<1>20. CASE ShareFails \/ RemoveFails \/ MigrateEnds \/ OutcomeUnknown
  <2>1. op' = IdleOp /\ UNCHANGED <<service, user, removed, hub>>
    BY <1>20 DEF ShareFails, RemoveFails, MigrateEnds, OutcomeUnknown, hubVars, history
  <2> QED
    BY <2>1, <1>1, IdlePlace
<1>21. CASE Editors
  BY <1>21, <1>2
  DEF Editors, DesktopLoads, DesktopCompares, DesktopSaves, DesktopFails, EditedByHand, hubVars, history
<1>22. CASE Others
  BY <1>22, <1>2 DEF Others, OthersMake, OthersArchive, OthersUnarchive, OthersChange, hubVars, history
<1>23. CASE UNCHANGED vars
  BY <1>23, <1>2 DEF vars, hubVars, history
<1> QED
  BY <1>3, <1>4, <1>5, <1>6, <1>7, <1>8, <1>9, <1>10, <1>11, <1>12, <1>13, <1>14, <1>15, <1>16, <1>17,
     <1>18, <1>19, <1>20, <1>21, <1>22, <1>23, <1>24
  DEF Next, Tasks, Handlers, Refresh

\* A session removed through the page is not visible, no service holds it,
\* and none is being opened (LanSessionHub.remove_shared).
THEOREM RemovedStaysFree == Spec => []RemovedIsFree
<1>1. Init => FreeInv
  BY DEF Init, FreeInv, RemovedIsFree, IdleUser, IdleOp
<1> QED
  BY <1>1, StepKeepsFreeInv, Typing, PTL DEF Spec, FreeInv
-----------------------------------------------------------------------------
(* Between operations the hub shares what the file says.  With a catalogue *)
(* the membership alone is compared; without one, what is visible is what  *)
(* has a service or was added, and an operation on its way is late by its  *)
(* own sessions.                                                           *)

Shown == (Serviced \cup hub.added) \cap hub.fixed

\* Without a catalogue there is nothing to refresh, and a service is opened
\* only for a session that was added.
NoCatalog ==
  ~hub.catalogMode =>
    /\ hub.catalog = {} /\ refresh.pc = "idle"
    /\ user.pc = "open" => user.sid \in hub.added

SavedWithCatalog ==
  hub.catalogMode /\ file.mode = "selected" /\ op.pc \notin {"fix", "written"} => hub.fixed = file.ids

SavedWithoutCatalog ==
  ~hub.catalogMode =>
    /\ file.mode = "selected"
    /\ op.pc = "fix" => Shown \cup op.sids = file.ids
    /\ op.pc = "register" => Shown \cup op.sids = file.ids /\ hub.fixed = file.ids
    /\ op.pc = "written" => Shown \ op.sids = file.ids
    /\ op.pc \notin {"fix", "register", "written"} => Shown = file.ids

SavedInv ==
  /\ NoCatalog
  /\ ~edited => /\ op.pc \in {"fix", "written"} => op.ids = file.ids
                /\ SavedWithCatalog
                /\ SavedWithoutCatalog

LEMMA StepKeepsSavedInv == TypeOK /\ EditInv /\ FreeInv /\ SavedInv /\ [Next]_vars => SavedInv'
<1> SUFFICES ASSUME TypeOK, EditInv, FreeInv, SavedInv, [Next]_vars PROVE SavedInv'
  OBVIOUS
<1> USE DEF SavedInv, NoCatalog, SavedWithCatalog, SavedWithoutCatalog, Shown
<1>1. CASE /\ UNCHANGED <<hub, service, file, edited, user, refresh>>
           /\ {op.pc, op'.pc} \cap {"fix", "register", "written"} = {}
  BY <1>1 DEF Serviced
<1>2. CASE UNCHANGED <<hub, service, file, edited, user, refresh, op>>
  BY <1>2 DEF Serviced
<1>3. CASE UNCHANGED <<hub, user, refresh>> /\ edited'
  BY <1>3
<1>4. CASE ShareSaves
  <2>1. op'.pc = "fix" /\ op'.ids = op.ids /\ op'.sids = op.sids
    BY <1>4, GotoPlace DEF ShareSaves
  <2>2. /\ op.pc = "sharing" /\ file' = [mode |-> "selected", ids |-> op.ids]
        /\ UNCHANGED <<hub, service, edited, user, refresh>>
    BY <1>4 DEF ShareSaves, ReplaceConfig, hubVars
  <2>3. file'.ids = op.ids /\ file'.mode = "selected"
    BY <2>2
  <2>4. ~edited /\ file.mode = "selected" => op.ids = file.ids \cup op.sids
    BY <2>2 DEF EditInv, NoLostEdit, Agreed, OpCompared
  <2> QED
    BY <2>1, <2>2, <2>3, <2>4 DEF Serviced
<1>5. CASE MembershipIsFixed
  <2>1. op.pc = "fix" /\ op'.pc = "register" /\ op'.sids = op.sids
    BY <1>5, GotoPlace DEF MembershipIsFixed
  <2>2. /\ hub'.fixed = op.ids /\ hub'.catalogMode = hub.catalogMode
        /\ hub'.catalog = hub.catalog /\ hub'.added = hub.added
    BY <1>5 DEF MembershipIsFixed, Fixed, TypeOK, Hubs
  <2>3. UNCHANGED <<service, file, edited, user, refresh>>
    BY <1>5 DEF MembershipIsFixed
  <2> QED
    BY <2>1, <2>2, <2>3 DEF Serviced
<1>6. ASSUME NEW s \in Sessions, Registers(s) PROVE SavedInv'
  <2>1. /\ hub'.fixed = hub.fixed /\ hub'.catalogMode = hub.catalogMode
        /\ hub'.catalog = hub.catalog /\ hub'.added = hub.added \cup {s}
    BY <1>6 DEF Registers, TypeOK, Hubs
  <2>2. op.pc = "register" /\ s \in op.sids /\ UNCHANGED <<service, file, edited, user, refresh>>
    BY <1>6 DEF Registers, history
  <2>3. \/ op'.pc = "register" /\ op'.sids = op.sids \ {s}
        \/ op'.pc \in {"mark", "idle"} /\ op.sids = {s}
    BY <1>6 DEF Registers, IdleOp, TypeOK, Operations
  <2> QED
    BY <2>1, <2>2, <2>3 DEF Serviced
<1>7. CASE RemoveReleases
  <2>1. op.pc = "unshare" /\ op'.pc = "released"
    BY <1>7, GotoPlace DEF RemoveReleases
  <2>2. Serviced' = Serviced
    BY <1>7 DEF RemoveReleases, Serviced
  <2> QED
    BY <1>7, <2>1, <2>2 DEF RemoveReleases, history
<1>8. CASE RemoveSaves
  <2>1. op'.pc = "written" /\ op'.ids = op.ids /\ op'.sids = op.sids
    BY <1>8, GotoPlace DEF RemoveSaves
  <2>2. /\ op.pc = "removing" /\ file' = [mode |-> "selected", ids |-> op.ids]
        /\ UNCHANGED <<hub, service, edited, user, refresh>>
    BY <1>8 DEF RemoveSaves, ReplaceConfig, hubVars
  <2>3. file'.ids = op.ids /\ file'.mode = "selected"
    BY <2>2
  <2>4. ~edited /\ file.mode = "selected" => op.ids = file.ids \ op.sids
    BY <2>2 DEF EditInv, NoLostEdit, Agreed, OpCompared
  <2> QED
    BY <2>1, <2>2, <2>3, <2>4 DEF Serviced
<1>9. CASE RemoveDrops
  <2> DEFINE dropped == [hub EXCEPT !.catalog = @ \ op.sids, !.added = @ \ op.sids]
  <2>1. /\ dropped \in Hubs /\ dropped.catalogMode = hub.catalogMode
        /\ dropped.catalog = hub.catalog \ op.sids /\ dropped.added = hub.added \ op.sids
    BY DEF TypeOK, Hubs, SessionIds
  <2>2. hub' \in Fixed(dropped, op.ids, Serviced \ op.sids)
    BY <1>9 DEF RemoveDrops
  <2> HIDE DEF dropped
  <2>3. /\ hub'.fixed = op.ids /\ hub'.catalogMode = hub.catalogMode
        /\ hub'.catalog = hub.catalog \ op.sids /\ hub'.added = hub.added \ op.sids
    BY <2>1, <2>2 DEF Fixed, Hubs
  <2>4. Serviced' = Serviced \ op.sids
    BY <1>9 DEF RemoveDrops, Close, Serviced
  <2>5. op.pc = "written" /\ op'.pc = "idle" /\ UNCHANGED <<file, edited, user>> /\ refresh'.pc = refresh.pc
    BY <1>9, IdlePlace DEF RemoveDrops, Forget, TypeOK, Refreshes
  <2> QED
    BY <2>3, <2>4, <2>5 DEF FreeInv
<1>10. ASSUME NEW s \in Sessions, OpenBegins(s) \/ SubmitBegins(s) PROVE SavedInv'
  <2>1. UNCHANGED <<hub, service, file, edited, refresh, op>>
    BY <1>10 DEF OpenBegins, SubmitBegins, history
  <2>2. user'.pc = "open" => user'.sid \in hub.added \cup hub.catalog
    BY <1>10 DEF OpenBegins, SubmitBegins
  <2> QED
    BY <2>1, <2>2 DEF Serviced
<1>11. CASE OpenEnds
  <2>1. user'.pc = "idle" /\ UNCHANGED <<hub, file, edited, refresh, op>>
    BY <1>11 DEF OpenEnds, IdleUser, history
  <2>2. Serviced' \in {Serviced, Serviced \cup ({user.sid} \cap Sessions)} /\ user.pc = "open"
    BY <1>11 DEF OpenEnds, Serviced, TypeOK
  <2> QED
    BY <2>1, <2>2
<1>12. CASE SubmitEnds
  <2>1. user'.pc = "idle" /\ UNCHANGED <<hub, service, file, edited, refresh, op>>
    BY <1>12 DEF SubmitEnds, IdleUser, history
  <2> QED
    BY <2>1 DEF Serviced
<1>13. ASSUME NEW s \in Sessions, UserReleases(s) \/ UserReconnects(s) PROVE SavedInv'
  <2>1. Serviced' = Serviced /\ UNCHANGED <<hub, file, edited, refresh, op, user>>
    BY <1>13 DEF UserReleases, UserReconnects, Serviced, TypeOK, history
  <2> QED
    BY <2>1
<1>14. CASE RefreshApplies
  <2>1. hub.catalogMode /\ hub'.catalogMode = hub.catalogMode /\ hub'.fixed = hub.fixed
    BY <1>14 DEF RefreshApplies, TypeOK, Hubs
  <2> QED
    BY <1>14, <2>1 DEF RefreshApplies, RefreshStep, history
<1>15. CASE RefreshLists \/ RefreshReadsQueue \/ (\E s \in Sessions : RefreshReadsStatus(s)) \/ RefreshCloses
  <2>1. hub.catalogMode
    BY <1>15 DEF RefreshLists, RefreshReadsQueue, RefreshReadsStatus, RefreshCloses
  <2> QED
    BY <1>15, <2>1
    DEF RefreshLists, RefreshReadsQueue, RefreshReadsStatus, RefreshCloses, RefreshStep, history
<1>16. CASE Restart
  <2>1. /\ hub'.catalogMode = (file.mode = "all") /\ hub'.fixed = Sessions /\ hub'.added = {}
        /\ file.mode # "all" => hub'.catalog = {}
    BY <1>16 DEF Restart, StartedHubs, NoLimit
  <2>2. file' = file /\ op'.pc = "idle" /\ user'.pc = "idle" /\ refresh'.pc = "idle"
    BY <1>16 DEF Restart, IdleOp, IdleUser, IdleRefresh
  <2>3. file.mode = "selected" => Serviced' = file.ids
    BY <1>16 DEF Restart, Serviced, StartedServices, TypeOK, Files, SessionIds
  <2> QED
    BY <2>1, <2>2, <2>3 DEF TypeOK, Files, SessionIds
<1>17. CASE Editors
  BY <1>17, <1>2, <1>3
  DEF Editors, DesktopLoads, DesktopCompares, DesktopSaves, DesktopFails, EditedByHand, hubVars, history
<1>26. CASE ShareCompares \/ RemoveCompares
  BY <1>26, <1>1, ComparePlace
<1>18. ASSUME NEW s \in Sessions, AddBegins(s) \/ RemoveBegins(s) PROVE SavedInv'
  <2>1. UNCHANGED <<hub, service, file, edited, user, refresh>> /\ op.pc = "idle"
    BY <1>18 DEF AddBegins, RemoveBegins, Begin, hubVars, history
  <2>2. op'.pc \in {"share", "unshare"}
    BY <1>18, BeginPlace DEF AddBegins, RemoveBegins
  <2> QED
    BY <2>1, <2>2, <1>1
<1>19. ASSUME NEW r \in Requests, CreateBegins(r) \/ CreateAgain(r) PROVE SavedInv'
  BY <1>19, <1>1 DEF CreateBegins, CreateAgain, Begin, IdleOp, hubVars, history
<1>20. ASSUME NEW include \in BOOLEAN, MigrateBegins(include) PROVE SavedInv'
  BY <1>20, <1>1 DEF MigrateBegins, Begin, IdleOp, hubVars, history
<1>21. CASE ThreadIsMade \/ CreateIsRecorded \/ ShareBegins
  <2>1. UNCHANGED <<hub, service, file, edited, user, refresh>> /\ op.pc \in {"create", "record", "share"}
    BY <1>21 DEF ThreadIsMade, CreateIsRecorded, ShareBegins, hubVars, history
  <2>2. op'.pc \in {"record", "share", "idle", "save"}
    <3>1. CASE ThreadIsMade
      BY <3>1 DEF ThreadIsMade, TypeOK, Operations
    <3>2. CASE CreateIsRecorded
      BY <3>2, GotoPlace, IdlePlace DEF CreateIsRecorded
    <3>3. CASE ShareBegins
      BY <3>3 DEF ShareBegins, Mutation, TypeOK, Operations
    <3> QED
      BY <1>21, <3>1, <3>2, <3>3
  <2> QED
    BY <2>1, <2>2, <1>1
<1>22. CASE ShareFails \/ RemoveFails \/ MigrateEnds \/ OutcomeUnknown
  <2>1. /\ op' = IdleOp /\ op.pc \notin {"fix", "register", "written"}
        /\ UNCHANGED <<hub, service, file, edited, user, refresh>>
    BY <1>22 DEF ShareFails, RemoveFails, MigrateEnds, OutcomeUnknown, hubVars, history
  <2> QED
    BY <2>1, <1>1, IdlePlace
<1>23. CASE Workers
  BY <1>23, <1>2 DEF Workers, WorkerBegins, WorkerEnds, Work, history
<1>24. CASE Others
  BY <1>24, <1>2 DEF Others, OthersMake, OthersArchive, OthersUnarchive, OthersChange, hubVars, history
<1>25. CASE UNCHANGED vars
  BY <1>25, <1>2 DEF vars, hubVars, history
<1> QED
  BY <1>4, <1>5, <1>6, <1>7, <1>8, <1>9, <1>10, <1>11, <1>12, <1>13, <1>14, <1>15, <1>16, <1>17, <1>18,
     <1>19, <1>20, <1>21, <1>22, <1>23, <1>24, <1>25, <1>26
  DEF Next, Tasks, Handlers, Refresh

\* Between operations, and as long as nobody has edited the file, the hub shares
\* exactly what the file says: whatever operation failed at whatever step,
\* however requests, refreshes and restarts came between (SessionTasks,
\* LanSessionHub.fix_membership).
THEOREM SharingIsSaved == Spec => []SharedIsSaved
<1>1. Init => EditInv
  BY DEF Init, EditInv, NoLostEdit, Agreed, OpCompared, IdleOp
<1>2. Init => FreeInv
  BY DEF Init, FreeInv, RemovedIsFree, IdleUser, IdleOp
<1>3. Init => SavedInv
  <2> SUFFICES ASSUME Init PROVE SavedInv
    OBVIOUS
  <2>1. /\ hub.catalogMode = (file.mode = "all") /\ hub.fixed = Sessions /\ hub.added = {}
        /\ file.mode # "all" => hub.catalog = {}
    BY DEF Init, StartedHubs, NoLimit
  <2>2. file.ids \subseteq Sessions /\ (file.mode = "selected" => Serviced = file.ids)
    <3>1. file.mode \in {"all", "selected"} /\ file.ids \subseteq Sessions
      BY DEF Init, Sessions
    <3>2. \A s \in Sessions : service[s] = IF file.mode = "selected" /\ s \in file.ids THEN "live" ELSE "none"
      BY DEF Init, StartedServices
    <3> QED
      BY <3>1, <3>2 DEF Serviced
  <2>3. file.mode \in {"all", "selected"}
    BY DEF Init
  <2>4. op.pc = "idle" /\ user.pc = "idle" /\ refresh.pc = "idle"
    BY DEF Init, IdleOp, IdleUser, IdleRefresh
  <2> QED
    BY <2>1, <2>2, <2>3, <2>4
    DEF SavedInv, NoCatalog, SavedWithCatalog, SavedWithoutCatalog, Shown
<1>4. SavedInv => SharedIsSaved
  BY DEF SavedInv, NoCatalog, SavedWithCatalog, SavedWithoutCatalog, SharedIsSaved, Shown, Visible
<1> QED
  BY <1>1, <1>2, <1>3, <1>4, StepKeepsEditInv, StepKeepsFreeInv, StepKeepsSavedInv, Typing, PTL DEF Spec
=============================================================================
