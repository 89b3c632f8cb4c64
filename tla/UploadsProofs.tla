---------------------------- MODULE UploadsProofs ----------------------------
(***************************************************************************)
(* Theorems about Uploads, for any messages, attachments and slots: what   *)
(* the queue holds keeps all its files, and what was refused or withdrawn  *)
(* leaves none.  Both rest on how far each request has come, and on the    *)
(* worker and the cancellations having messages of their own.  And every   *)
(* slot of the pools of child processes is free, held or wedged.           *)
(***************************************************************************)
EXTENDS Uploads, FiniteSetTheorems, TLAPS

\* A message with all that was saved of it, and one of which nothing is left.
Whole(m) == image[m] = Images /\ file[m] = Documents /\ (Documents # {} => m \in rows)
Empty(m) == image[m] = {} /\ file[m] = {} /\ m \notin rows

\* Its images are saved and its documents are being saved.
Saving  == {"documents", "written", "starting", "watching", "ending", "failing", "unwinding"}
Reading == {"asked", "starting", "watching", "ending", "failing"}
Kept    == {"queued", "running", "withdrawn", "done"}
Places  == Saving \cup Reading \cup Kept \cup {"none", "images", "cleaning", "refused", "gone"}

\* What is on the disk and in the database at each place of a message.
Progress(m) ==
  /\ at[m] = "none" => Empty(m)
  /\ at[m] = "images" => file[m] = {} /\ m \notin rows
  /\ at[m] \in Saving => image[m] = Images /\ m \notin rows
  /\ at[m] \in Kept => Whole(m)
  /\ at[m] \in {"refused", "gone"} /\ m \notin spoiled => Empty(m)

\* The worker and each cancellation have messages of their own.
Owners ==
  /\ \A m \in Messages : m \in task => at[m] = "running"
  /\ \A S \in removing : S \subseteq Messages /\ \A m \in S : at[m] = "withdrawn"
  /\ \A S, T \in removing : S = T \/ S \cap T = {}

Shapes ==
  /\ at \in [Requests -> Places]
  /\ DOMAIN image = Messages /\ DOMAIN file = Messages
  /\ \A a \in Archives : at[a] \in Reading \cup {"none"}
  /\ \A m \in Messages : at[m] # "asked"

IInv ==
  /\ Shapes
  /\ Owners
  /\ \A m \in Messages : Progress(m)

USE DEF Requests

----------------------------------------------------------------------------
\* The steps that take one request from one place of its reading to another
\* leave the files, the rows and the queue alone.
Move(w, to) ==
  /\ at' = [at EXCEPT ![w] = to] /\ UNCHANGED stored
  /\ w \in Messages => at[w] \in Saving /\ to \in Saving
  /\ w \in Archives => to \in Reading \cup {"none"}

LEMMA MoveKeepsIInv ==
  ASSUME IInv, NEW w \in Requests, NEW to \in Places, Move(w, to)
  PROVE  IInv'
<1> USE DEF Move
<1>1. Shapes'
  BY UploadsAssumption DEF IInv, Shapes, Saving, Reading, stored, queue
<1>2. Owners'
  BY UploadsAssumption DEF IInv, Shapes, Owners, Saving, stored, queue
<1>3. ASSUME NEW m \in Messages PROVE Progress(m)'
  <2>1. CASE m = w
    BY <2>1 DEF IInv, Shapes, Progress, Saving, Kept, stored
  <2>2. CASE m # w
    BY <2>2 DEF IInv, Shapes, Progress, Whole, Empty, stored
  <2>. QED BY <2>1, <2>2
<1>. QED BY <1>1, <1>2, <1>3 DEF IInv

\* Reading for a message is within the saving of its documents.
LEMMA ReadKeepsIInv ==
  ASSUME IInv, NEW w \in Requests, Read(w)
  PROVE  IInv'
<1>0. w \in Messages \/ w \in Archives
  OBVIOUS
<1>1. CASE Acquire(w)
  <2>1. UNCHANGED stored
    BY <1>1 DEF Acquire
  <2>2. PICK to \in {"starting", "unwinding", "none"} :
           at' = [at EXCEPT ![w] = to] /\ (to = "unwinding" => w \in Messages)
                                       /\ (to = "none" => w \notin Messages)
    BY <1>1 DEF Acquire
  <2>3. w \in Messages => at[w] \in Saving
    BY <1>1 DEF Acquire, IInv, Shapes, Saving
  <2>4. Move(w, to)
    BY <1>0, <2>1, <2>2, <2>3, UploadsAssumption DEF Move, Saving, Reading
  <2>. QED BY <2>4, MoveKeepsIInv DEF Places, Saving, Reading
<1>2. CASE Start(w) \/ StartFails(w) \/ Watch(w)
  <2>1. UNCHANGED stored /\ at[w] \in {"starting", "watching"}
    BY <1>2 DEF Start, StartFails, Watch, Go, reading
  <2>2. PICK to \in {"watching", "failing", "ending"} : at' = [at EXCEPT ![w] = to]
    BY <1>2 DEF Start, StartFails, Watch, Go
  <2>3. Move(w, to)
    BY <2>1, <2>2 DEF Move, Saving, Reading
  <2>. QED BY <2>3, MoveKeepsIInv DEF Places, Saving, Reading
<1>3. CASE Reap(w) \/ ReapFails(w)
  <2>1. UNCHANGED stored /\ at[w] \in {"ending", "failing"}
    BY <1>3 DEF Reap, ReapFails
  <2>2. PICK to \in {"none", "documents", "unwinding"} :
           at' = [at EXCEPT ![w] = to] /\ (to = "none" <=> w \in Archives)
    BY <1>3 DEF Reap, ReapFails, Resume
  <2>3. Move(w, to)
    BY <1>0, <2>1, <2>2, UploadsAssumption DEF Move, Saving, Reading
  <2>. QED BY <2>3, MoveKeepsIInv DEF Places, Saving, Reading
<1>. QED BY <1>1, <1>2, <1>3 DEF Read

\* A step that changes the place, the files and the rows of one message only.
OnlyOf(m, to) ==
  /\ at' = [at EXCEPT ![m] = to] /\ to # "asked"
  /\ UNCHANGED queue /\ at[m] \notin {"running", "withdrawn"}
  /\ DOMAIN image' = Messages /\ DOMAIN file' = Messages
  /\ \A o \in Messages \ {m} :
       /\ image'[o] = image[o] /\ file'[o] = file[o]
       /\ (o \in rows') = (o \in rows)
       /\ o \in spoiled => o \in spoiled'

LEMMA OneMessageKeepsIInv ==
  ASSUME IInv, NEW m \in Messages, NEW to \in Places, OnlyOf(m, to), Progress(m)'
  PROVE  IInv'
<1> USE DEF OnlyOf
<1>1. Shapes'
  BY UploadsAssumption DEF IInv, Shapes
<1>2. Owners'
  BY UploadsAssumption DEF IInv, Shapes, Owners, queue
<1>3. ASSUME NEW o \in Messages PROVE Progress(o)'
  <2>1. CASE o = m
    BY <2>1 DEF Progress
  <2>2. CASE o # m
    BY <2>2 DEF IInv, Shapes, Progress, Whole, Empty
  <2>. QED BY <2>1, <2>2
<1>. QED BY <1>1, <1>2, <1>3 DEF IInv

LEMMA SaveKeepsIInv ==
  ASSUME IInv, NEW m \in Messages, Save(m) \/ Post(m)
  PROVE  IInv'
<1>0. Progress(m) /\ at \in [Requests -> Places] /\ DOMAIN image = Messages /\ DOMAIN file = Messages
  BY DEF IInv, Shapes
<1>1. CASE Post(m)
  <2>1. Progress(m)'
    BY <1>0, <1>1 DEF Post, Go, Progress, Empty, Saving, Kept, stored
  <2>2. OnlyOf(m, "images")
    BY <1>0, <1>1 DEF Post, Go, stored, OnlyOf
  <2>. QED BY <2>1, <2>2, OneMessageKeepsIInv DEF Places, Saving, Kept
<1>2. CASE SaveImage(m)
  <2>1. at' = [at EXCEPT ![m] = "images"]
    BY <1>0, <1>2 DEF SaveImage
  <2>2. Progress(m)'
    BY <1>0, <1>2, <2>1 DEF SaveImage, Progress, Saving, Kept
  <2>3. OnlyOf(m, "images")
    BY <1>0, <1>2, <2>1 DEF SaveImage, OnlyOf
  <2>. QED BY <2>2, <2>3, OneMessageKeepsIInv DEF Places, Saving, Kept
<1>3. CASE ImageFails(m)
  <2>1. Progress(m)'
    BY <1>0, <1>3 DEF ImageFails, Go, Progress, Empty, Saving, Kept
  <2>2. OnlyOf(m, "refused")
    BY <1>0, <1>3 DEF ImageFails, Go, queue, OnlyOf
  <2>. QED BY <2>1, <2>2, OneMessageKeepsIInv DEF Places, Saving, Kept
<1>4. CASE ImagesSaved(m)
  <2>1. Progress(m)'
    BY <1>0, <1>4 DEF ImagesSaved, Go, Progress, Saving, Kept, stored
  <2>2. OnlyOf(m, "documents")
    BY <1>0, <1>4 DEF ImagesSaved, Go, stored, OnlyOf
  <2>. QED BY <2>1, <2>2, OneMessageKeepsIInv DEF Places, Saving, Kept
<1>5. CASE SaveDocument(m)
  <2>1. Progress(m)'
    BY <1>0, <1>5 DEF SaveDocument, Go, Progress, Saving, Kept
  <2>2. OnlyOf(m, "written")
    BY <1>0, <1>5 DEF SaveDocument, Go, queue, OnlyOf
  <2>. QED BY <2>1, <2>2, OneMessageKeepsIInv DEF Places, Saving, Kept
<1>6. CASE DocumentFails(m)
  <2>1. Progress(m)'
    BY <1>0, <1>6 DEF DocumentFails, Go, Progress, Saving, Kept, stored
  <2>2. OnlyOf(m, "unwinding")
    BY <1>0, <1>6 DEF DocumentFails, Go, stored, OnlyOf
  <2>. QED BY <2>1, <2>2, OneMessageKeepsIInv DEF Places, Saving, Kept
<1>7. CASE Unwind(m)
  <2>1. Progress(m)'
    BY <1>0, <1>7 DEF Unwind, Go, Progress, Empty, Saving, Kept
  <2>2. OnlyOf(m, "refused")
    BY <1>0, <1>7 DEF Unwind, Go, queue, OnlyOf
  <2>. QED BY <2>1, <2>2, OneMessageKeepsIInv DEF Places, Saving, Kept
<1>8. CASE Submit(m)
  <2>1. Progress(m)'
    BY <1>0, <1>8 DEF Submit, Go, Progress, Whole, Saving, Kept
  <2>2. OnlyOf(m, "queued")
    BY <1>0, <1>8 DEF Submit, Go, queue, OnlyOf
  <2>. QED BY <2>1, <2>2, OneMessageKeepsIInv DEF Places, Saving, Kept
<1>9. CASE SubmitFails(m)
  <2>1. Progress(m)'
    BY <1>0, <1>9 DEF SubmitFails, Go, Progress, Saving, Kept
  <2>2. OnlyOf(m, "cleaning")
    BY <1>0, <1>9 DEF SubmitFails, Go, queue, OnlyOf
  <2>. QED BY <2>1, <2>2, OneMessageKeepsIInv DEF Places, Saving, Kept
<1>10. CASE Clean(m)
  <2>1. Progress(m)'
    BY <1>0, <1>10 DEF Clean, DeleteMany, Go, Progress, Empty, Saving, Kept
  <2>2. OnlyOf(m, "refused")
    BY <1>0, <1>10 DEF Clean, DeleteMany, Go, queue, OnlyOf
  <2>. QED BY <2>1, <2>2, OneMessageKeepsIInv DEF Places, Saving, Kept
<1>11. CASE UnwindFails(m) \/ CleanFails(m)
  <2>1. at' = [at EXCEPT ![m] = "refused"] /\ spoiled' = spoiled \cup {m}
    BY <1>11 DEF UnwindFails, CleanFails, Go
  <2>2. Progress(m)'
    BY <1>0, <2>1 DEF Progress, Saving, Kept
  <2>3. OnlyOf(m, "refused")
    BY <1>0, <1>11, <2>1 DEF UnwindFails, CleanFails, DeleteManyFails, Go, queue, OnlyOf
  <2>. QED BY <2>2, <2>3, OneMessageKeepsIInv DEF Places, Saving, Kept
<1>. QED BY <1>1, <1>2, <1>3, <1>4, <1>5, <1>6, <1>7, <1>8, <1>9, <1>10, <1>11 DEF Save

----------------------------------------------------------------------------
\* The worker claims from the queue and cancellations take from it: never the
\* same message.
LEMMA QueueKeepsIInv ==
  ASSUME IInv,
         \/ \E m \in Messages : Claim(m) \/ Finish(m) \/ CancelQueued(m)
         \/ ClearQueued
         \/ \E S \in removing : \E m \in S : DeleteTask(S, m) \/ DeleteTaskFails(S, m)
  PROVE  IInv'
<1>1. ASSUME NEW m \in Messages, Claim(m) PROVE IInv'
  <2>1. Shapes' /\ Owners'
    BY <1>1, UploadsAssumption DEF IInv, Shapes, Owners, Claim, Go, Places, Kept
  <2>2. ASSUME NEW o \in Messages PROVE Progress(o)'
    BY <1>1, <2>2 DEF IInv, Shapes, Progress, Whole, Empty, Claim, Go, Saving, Kept
  <2>. QED BY <2>1, <2>2 DEF IInv
<1>2. ASSUME NEW m \in Messages, Finish(m) PROVE IInv'
  <2>1. Shapes' /\ Owners'
    BY <1>2, UploadsAssumption DEF IInv, Shapes, Owners, Finish, Places, Kept
  <2>2. ASSUME NEW o \in Messages PROVE Progress(o)'
    BY <1>2, <2>2 DEF IInv, Shapes, Owners, Progress, Whole, Empty, Finish, Saving, Kept
  <2>. QED BY <2>1, <2>2 DEF IInv
<1>3. ASSUME NEW W, Withdraw(W) PROVE IInv'
  <2>0. W \subseteq Messages /\ \A m \in W : at[m] = "queued"
    BY <1>3 DEF Withdraw, Queued
  <2>1. Shapes'
    BY <1>3, <2>0, UploadsAssumption DEF IInv, Shapes, Withdraw, Places, Kept
  <2>2. Owners'
    BY <1>3, <2>0 DEF IInv, Shapes, Owners, Withdraw
  <2>3. ASSUME NEW o \in Messages PROVE Progress(o)'
    BY <1>3, <2>0, <2>3 DEF IInv, Shapes, Progress, Whole, Empty, Withdraw, Saving, Kept
  <2>. QED BY <2>1, <2>2, <2>3 DEF IInv
<1>4. ASSUME NEW S \in removing, NEW m \in S, DeleteTask(S, m) PROVE IInv'
  <2>0. m \in Messages /\ S \subseteq Messages
    BY DEF IInv, Owners
  <2>1. Shapes'
    BY <1>4, <2>0, UploadsAssumption DEF IInv, Shapes, DeleteTask, DeleteMany, Go, Places
  <2>2. Owners'
    <3>1. ASSUME NEW T \in removing' PROVE T = S \ {m} \/ (T \in removing /\ T # S)
      BY <1>4 DEF DeleteTask
    <3>2. ASSUME NEW T \in removing, T # S PROVE T \cap S = {}
      BY <3>2 DEF IInv, Owners
    <3>3. at' = [at EXCEPT ![m] = "gone"] /\ task' = task /\ at[m] = "withdrawn"
      BY <1>4 DEF DeleteTask, Go
    <3>4. \A o \in Messages : o \in task' => at'[o] = "running"
      BY <3>3, <2>0 DEF IInv, Shapes, Owners
    <3>5. ASSUME NEW T \in removing' PROVE T \subseteq Messages /\ \A o \in T : at'[o] = "withdrawn"
      BY <3>1, <3>2, <3>3, <2>0 DEF IInv, Shapes, Owners
    <3>6. ASSUME NEW T \in removing', NEW U \in removing' PROVE T = U \/ T \cap U = {}
      BY <3>1, <3>2 DEF IInv, Owners
    <3>. QED BY <3>4, <3>5, <3>6 DEF Owners
  <2>3. ASSUME NEW o \in Messages PROVE Progress(o)'
    BY <1>4, <2>0, <2>3 DEF IInv, Shapes, Progress, Whole, Empty, DeleteTask, DeleteMany, Go, Saving, Kept
  <2>. QED BY <2>1, <2>2, <2>3 DEF IInv
<1>5. ASSUME NEW S \in removing, NEW m \in S, DeleteTaskFails(S, m) PROVE IInv'
  <2>0. /\ m \in Messages /\ S \subseteq Messages
        /\ \A o \in S : at[o] = "withdrawn"
        /\ \A o \in Messages \ {m} : file'[o] = file[o]
    BY <1>5 DEF IInv, Shapes, Owners, DeleteTaskFails, DeleteManyFails
  <2>1. Shapes'
    BY <1>5, <2>0, UploadsAssumption DEF IInv, Shapes, DeleteTaskFails, DeleteManyFails, Places
  <2>2. Owners'
    BY <1>5, <2>0 DEF IInv, Shapes, Owners, DeleteTaskFails
  <2>3. ASSUME NEW o \in Messages PROVE Progress(o)'
    BY <1>5, <2>0, <2>3 DEF IInv, Shapes, Progress, Whole, Empty, DeleteTaskFails, DeleteManyFails, Saving, Kept
  <2>. QED BY <2>1, <2>2, <2>3 DEF IInv
<1>. QED BY <1>1, <1>2, <1>3, <1>4, <1>5 DEF CancelQueued, ClearQueued

LEMMA StepKeepsIInv == IInv /\ [Next]_vars => IInv'
<1> SUFFICES ASSUME IInv, [Next]_vars PROVE IInv'
  OBVIOUS
<1>1. ASSUME NEW w \in Requests, NEW how, ChildEnds(w, how) PROVE IInv'
  BY <1>1 DEF IInv, Shapes, Owners, Progress, Whole, Empty, ChildEnds, stored, queue
<1>2. ASSUME NEW a \in Archives, ServeArchive(a) PROVE IInv'
  <2>1. Move(a, "asked")
    BY <1>2, UploadsAssumption DEF ServeArchive, Go, Move, Reading
  <2>. QED BY <2>1, MoveKeepsIInv DEF Places, Reading
<1>3. CASE UNCHANGED vars
  BY <1>3 DEF IInv, Shapes, Owners, Progress, Whole, Empty, vars, stored, queue
<1>. QED BY <1>1, <1>2, <1>3, ReadKeepsIInv, SaveKeepsIInv, QueueKeepsIInv DEF Next

LEMMA InitHasIInv == Init => IInv
BY UploadsAssumption DEF Init, IInv, Shapes, Owners, Progress, Empty, Saving, Kept, Places

\* Whatever else is refused, withdrawn or goes wrong, what the queue holds, the
\* worker runs or the conversation keeps has its images, documents and rows.
THEOREM WholeUntilDone == Spec => []KeptWhole
<1>1. IInv => KeptWhole
  BY DEF IInv, Owners, Progress, Whole, Kept, KeptWhole
<1>. QED BY <1>1, InitHasIInv, StepKeepsIInv, PTL DEF Spec

\* A message refused at any attachment, or withdrawn from the queue, leaves no
\* file and no row, but for the failures of the disk or the database.
THEOREM CleanWhenRefused == Spec => []NothingLeftBehind
<1>1. IInv => NothingLeftBehind
  BY DEF IInv, Progress, Empty, NothingLeftBehind
<1>. QED BY <1>1, InitHasIInv, StepKeepsIInv, PTL DEF Spec

----------------------------------------------------------------------------
(* The slots.  A request holds one from Acquire to Reap or ReapFails.      *)

Held(w)    == at[w] \in {"starting", "watching", "ending", "failing"}
Holders(p) == {w \in Requests : Pool(w) = p /\ Held(w)}
Lost(p)    == IF p = "extraction" THEN wedged ELSE 0

SlotInv ==
  /\ free \in [Pools -> Int] /\ wedged \in Int
  /\ \A p \in Pools : IsFiniteSet(Holders(p)) /\ free[p] + Cardinality(Holders(p)) = Capacity(p) - Lost(p)

LEMMA PoolType == \A w \in Requests : Pool(w) \in Pools
BY DEF Pool, Pools

LEMMA CapacityType == \A p \in Pools : Capacity(p) \in Int
BY UploadsAssumption DEF Capacity, Pools

\* A step after which the same requests hold the same slots.
LEMMA NobodyMoves ==
  ASSUME SlotInv, UNCHANGED <<free, wedged>>, \A w \in Requests : Held(w)' = Held(w)
  PROVE  SlotInv'
<1>1. \A p \in Pools : Holders(p)' = Holders(p)
  BY DEF Holders, Pool
<1>. QED BY <1>1 DEF SlotInv, Lost, Capacity

\* One request takes a slot of its pool.
LEMMA OneTakes ==
  ASSUME SlotInv, NEW w \in Requests, ~Held(w), Held(w)', wedged' = wedged,
         free' = [free EXCEPT ![Pool(w)] = @ - 1], \A v \in Requests \ {w} : Held(v)' = Held(v)
  PROVE  SlotInv'
<1>1. ASSUME NEW p \in Pools
      PROVE  IsFiniteSet(Holders(p)') /\ free'[p] + Cardinality(Holders(p)') = Capacity(p) - Lost(p)'
  <2>0. /\ IsFiniteSet(Holders(p)) /\ Cardinality(Holders(p)) \in Int /\ free[p] \in Int
        /\ free[p] + Cardinality(Holders(p)) = Capacity(p) - Lost(p)
        /\ Lost(p)' = Lost(p)
    BY FS_CardinalityType DEF SlotInv, Lost
  <2>1. CASE p = Pool(w)
    <3>1. Holders(p)' = Holders(p) \cup {w} /\ w \notin Holders(p)
      BY <2>1 DEF Holders, Pool
    <3>2. IsFiniteSet(Holders(p)') /\ Cardinality(Holders(p)') = Cardinality(Holders(p)) + 1
      BY <2>0, <3>1, FS_AddElement
    <3>3. free'[p] = free[p] - 1
      BY <2>1 DEF SlotInv
    <3>. QED BY <2>0, <3>2, <3>3
  <2>2. CASE p # Pool(w)
    <3>1. Holders(p)' = Holders(p)
      BY <2>2 DEF Holders, Pool
    <3>2. free'[p] = free[p]
      BY <2>2 DEF SlotInv
    <3>. QED BY <2>0, <3>1, <3>2
  <2>. QED BY <2>1, <2>2
<1>2. free' \in [Pools -> Int] /\ wedged' \in Int
  BY PoolType DEF SlotInv
<1>. QED BY <1>1, <1>2 DEF SlotInv, Capacity

\* One request leaves its slot, free again or wedged for good.
LEMMA OneLeaves ==
  ASSUME SlotInv, NEW w \in Requests, Held(w), ~Held(w)', \A v \in Requests \ {w} : Held(v)' = Held(v),
         \/ free' = [free EXCEPT ![Pool(w)] = @ + 1] /\ wedged' = wedged
         \/ Pool(w) = "extraction" /\ free' = free /\ wedged' = wedged + 1
  PROVE  SlotInv'
<1>1. ASSUME NEW p \in Pools
      PROVE  IsFiniteSet(Holders(p)') /\ free'[p] + Cardinality(Holders(p)') = Capacity(p) - Lost(p)'
  <2>0. /\ IsFiniteSet(Holders(p)) /\ Cardinality(Holders(p)) \in Int /\ free[p] \in Int
        /\ free[p] + Cardinality(Holders(p)) = Capacity(p) - Lost(p)
        /\ Capacity(p) \in Int /\ Lost(p) \in Int
    BY FS_CardinalityType, CapacityType DEF SlotInv, Lost
  <2>1. CASE p = Pool(w)
    <3>1. Holders(p)' = Holders(p) \ {w} /\ w \in Holders(p)
      BY <2>1 DEF Holders, Pool
    <3>2. IsFiniteSet(Holders(p)') /\ Cardinality(Holders(p)') = Cardinality(Holders(p)) - 1
      BY <2>0, <3>1, FS_RemoveElement
    <3>3. \/ free'[p] = free[p] + 1 /\ Lost(p)' = Lost(p)
          \/ free'[p] = free[p] /\ Lost(p)' = Lost(p) + 1
      BY <2>1 DEF SlotInv, Lost
    <3>4. free'[p] + Cardinality(Holders(p)') = Capacity(p) - Lost(p)'
      <4>1. CASE free'[p] = free[p] + 1 /\ Lost(p)' = Lost(p)
        BY <2>0, <3>2, <4>1
      <4>2. CASE free'[p] = free[p] /\ Lost(p)' = Lost(p) + 1
        BY <2>0, <3>2, <4>2
      <4>. QED BY <3>3, <4>1, <4>2
    <3>. QED BY <3>2, <3>4
  <2>2. CASE p # Pool(w)
    <3>1. Holders(p)' = Holders(p)
      BY <2>2 DEF Holders, Pool
    <3>2. free'[p] = free[p] /\ Lost(p)' = Lost(p)
      BY <2>2 DEF SlotInv, Lost
    <3>. QED BY <2>0, <3>1, <3>2
  <2>. QED BY <2>1, <2>2
<1>2. free' \in [Pools -> Int] /\ wedged' \in Int
  BY PoolType DEF SlotInv
<1>. QED BY <1>1, <1>2 DEF SlotInv, Capacity

LEMMA StepKeepsSlots == IInv /\ SlotInv /\ [Next]_vars => SlotInv'
<1> SUFFICES ASSUME IInv, SlotInv, [Next]_vars PROVE SlotInv'
  OBVIOUS
<1>0. at \in [Requests -> Places]
  BY DEF IInv, Shapes
<1>1. ASSUME NEW w \in Requests, Acquire(w) PROVE SlotInv'
  <2>1. CASE free[Pool(w)] > 0
    BY <1>0, <1>1, <2>1, OneTakes DEF Acquire, Held
  <2>2. CASE ~(free[Pool(w)] > 0)
    BY <1>0, <1>1, <2>2, NobodyMoves DEF Acquire, Held
  <2>. QED BY <2>1, <2>2
<1>2. ASSUME NEW w \in Requests, Start(w) \/ StartFails(w) \/ Watch(w) PROVE SlotInv'
  BY <1>0, <1>2, NobodyMoves DEF Start, StartFails, Watch, Go, Held, reading
<1>3. ASSUME NEW w \in Requests, Reap(w) PROVE SlotInv'
  BY <1>0, <1>3, OneLeaves DEF Reap, Resume, Held
<1>4. ASSUME NEW w \in Requests, ReapFails(w) PROVE SlotInv'
  <2>1. /\ Held(w) /\ ~Held(w)' /\ \A v \in Requests \ {w} : Held(v)' = Held(v)
    BY <1>0, <1>4 DEF ReapFails, Resume, Held
  <2>2. \/ free' = [free EXCEPT ![Pool(w)] = @ + 1] /\ wedged' = wedged
        \/ Pool(w) = "extraction" /\ free' = free /\ wedged' = wedged + 1
    BY <1>4, UploadsAssumption DEF ReapFails, Pool
  <2>. QED BY <2>1, <2>2, OneLeaves
<1>5. ASSUME NEW w \in Requests, NEW how, ChildEnds(w, how) PROVE SlotInv'
  BY <1>5, NobodyMoves DEF ChildEnds, Held
<1>6. ASSUME NEW a \in Archives, ServeArchive(a) PROVE SlotInv'
  BY <1>0, <1>6, NobodyMoves DEF ServeArchive, Go, Held, reading
<1>7. ASSUME NEW m \in Messages, Post(m) \/ Save(m) \/ Claim(m) PROVE SlotInv'
  <2> USE DEF Post, Save, SaveImage, ImageFails, ImagesSaved, SaveDocument, DocumentFails, Unwind,
              UnwindFails, Submit, SubmitFails, Clean, CleanFails, Claim, Go
  <2>0. UNCHANGED <<free, wedged>>
    BY <1>7 DEF reading
  <2>1. CASE UNCHANGED at
    BY <2>0, <2>1, NobodyMoves DEF Held
  <2>2. CASE ~UNCHANGED at
    <3>1. PICK place : at' = [at EXCEPT ![m] = place] /\ ~Held(m)
                       /\ place \notin {"starting", "watching", "ending", "failing"}
      BY <1>7, <2>2 DEF Held
    <3>2. \A w \in Requests : Held(w)' = Held(w)
      BY <1>0, <3>1 DEF Held
    <3>. QED BY <2>0, <3>2, NobodyMoves
  <2>. QED BY <2>1, <2>2
<1>8. ASSUME NEW m \in Messages, Finish(m) PROVE SlotInv'
  BY <1>0, <1>8, NobodyMoves DEF IInv, Owners, Finish, Held, reading
<1>9. ASSUME NEW W, Withdraw(W) PROVE SlotInv'
  BY <1>0, <1>9, NobodyMoves DEF Withdraw, Queued, Held, reading
<1>10. ASSUME NEW S \in removing, NEW m \in S, DeleteTask(S, m) \/ DeleteTaskFails(S, m) PROVE SlotInv'
  <2>1. \A o \in S : at[o] = "withdrawn" /\ o \in Messages
    BY DEF IInv, Owners
  <2>2. UNCHANGED <<free, wedged>> /\ \A w \in Requests : Held(w)' = Held(w)
    BY <1>0, <1>10, <2>1 DEF DeleteTask, DeleteTaskFails, Go, Held, reading
  <2>. QED BY <2>2, NobodyMoves
<1>11. CASE UNCHANGED vars
  BY <1>11, NobodyMoves DEF vars, reading, Held
<1>. QED
  BY <1>1, <1>2, <1>3, <1>4, <1>5, <1>6, <1>7, <1>8, <1>9, <1>10, <1>11
  DEF Next, Read, CancelQueued, ClearQueued

\* However a child ends, the slot of the request that waited for it is free
\* again; only an extraction whose child outlives its kill loses one for good.
THEOREM SlotsReturn == Spec => []SlotsComeBack
<1>1. Init => SlotInv
  <2> SUFFICES ASSUME Init PROVE SlotInv
    OBVIOUS
  <2>1. \A p \in Pools : Holders(p) = {}
    BY DEF Init, Holders, Held
  <2>. QED BY <2>1, CapacityType, FS_EmptySet DEF Init, SlotInv, Lost
<1>2. SlotInv => SlotsComeBack
  BY DEF SlotInv, SlotsComeBack, Holders, Held, Lost
<1>. QED BY <1>1, <1>2, InitHasIInv, StepKeepsIInv, StepKeepsSlots, PTL DEF Spec
=============================================================================
