------------------------------- MODULE Uploads -------------------------------
(***************************************************************************)
(* What requests take and must give back: the files and rows of a message  *)
(* that is sent with images and documents (lan_web.do_POST, lan_store,     *)
(* document_store, LanChatService.submit and its removal from the queue),  *)
(* and the child processes that read documents and archives with the slots *)
(* that bound them (document_extract.extract_isolated, archive_worker).    *)
(*                                                                         *)
(* Every message has the same attachments, images first as in save_many.   *)
(***************************************************************************)
EXTENDS Integers, FiniteSets

CONSTANTS
  Messages,       \* messages that are ever posted
  Images,         \* 1..n, the images of a message
  Documents,      \* 1..n, the documents of a message
  Archives,       \* requests about archives that are served at the same time
  ArchiveSlots    \* _SLOTS

ASSUME UploadsAssumption ==
  /\ Images = 1..Cardinality(Images) /\ Documents = 1..Cardinality(Documents)
  /\ ArchiveSlots \in Nat \ {0} /\ Messages \cap Archives = {}

Requests == Messages \cup Archives
Pools    == {"extraction", "archive"}

VARIABLES
  at,        \* at[w]: what the thread that serves w does, or what became of message w
  child,     \* child[w]: the child process that reads for w
  task,      \* the messages the worker has claimed and not finished: none or one
  free,      \* free[p]: free slots of a pool
  image,     \* image[m]: image files of m
  file,      \* file[m]: document files of m
  rows,      \* messages with their rows in metadata.sqlite3
  removing,  \* what cancel_queued and clear_queued popped and still have to delete
  spoiled,   \* history: messages of which a disk or database failure kept something
  wedged     \* history: slots never returned, because a child outlived its kill

reading == <<child, free, wedged>>
queue   == <<task, removing>>
stored  == <<image, file, rows, queue, spoiled>>
vars    == <<at, reading, stored>>

Pool(w)     == IF w \in Messages THEN "extraction" ELSE "archive"
Capacity(p) == IF p = "extraction" THEN 1 ELSE ArchiveSlots

Go(w, here, there) == at[w] = here /\ at' = [at EXCEPT ![w] = there]

Next1(S) == Cardinality(S) + 1     \* the next attachment to be saved

----------------------------------------------------------------------------
(* A child process and the request that waits for it.                      *)

\* The slot is asked for without waiting; a request that finds none is refused.
Acquire(w) ==
  /\ at[w] \in {"written", "asked"}
  /\ IF free[Pool(w)] > 0
     THEN /\ free' = [free EXCEPT ![Pool(w)] = @ - 1]
          /\ at' = [at EXCEPT ![w] = "starting"]
     ELSE /\ at' = [at EXCEPT ![w] = IF w \in Messages THEN "unwinding" ELSE "none"]
          /\ UNCHANGED free
  /\ UNCHANGED <<child, wedged, stored>>

Start(w) ==
  /\ Go(w, "starting", "watching")
  /\ child' = [child EXCEPT ![w] = "works"]
  /\ UNCHANGED <<free, wedged, stored>>

\* process.start() raises, or psutil.Process() after it.
StartFails(w) ==
  /\ Go(w, "starting", "failing")
  /\ child' \in {child, [child EXCEPT ![w] = "works"]}
  /\ UNCHANGED <<free, wedged, stored>>

\* It sends a result, sends an error, or dies without a word; or does none of it.
ChildEnds(w, how) ==
  /\ child[w] = "works"
  /\ child' = [child EXCEPT ![w] = how]
  /\ UNCHANGED <<at, free, wedged, stored>>

\* Operators named Bad... are slips of the code that the properties must notice;
\* no action or property uses them.

BadWatch(w) ==
  /\ \/ child[w] = "sent" /\ Go(w, "watching", "ending")
     \/ child[w] \in {"sent", "error", "died"} /\ Go(w, "watching", "failing")
  /\ UNCHANGED <<reading, stored>>

\* The loop: the deadline or the memory limit is over, the pipe has something,
\* or the child is found dead, even though it answered just before.
Watch(w) ==
  /\ \/ child[w] = "sent" /\ Go(w, "watching", "ending")
     \/ Go(w, "watching", "failing")
  /\ UNCHANGED <<reading, stored>>

\* What the caller of the reader does next.
Resume(w, well) ==
  at' = [at EXCEPT ![w] = IF w \in Archives THEN "none" ELSE IF well THEN "documents" ELSE "unwinding"]

BadReap(w) ==
  /\ at[w] \in {"ending", "failing"}
  /\ child' = [child EXCEPT ![w] = "none"]
  /\ free' = IF at[w] = "ending" THEN [free EXCEPT ![Pool(w)] = @ + 1] ELSE free
  /\ Resume(w, at[w] = "ending")
  /\ UNCHANGED <<wedged, stored>>

\* The finally clauses: join, terminate, kill, close, then the slot.  More text
\* than a message may have is refused although the reading went well.
Reap(w) ==
  /\ at[w] \in {"ending", "failing"}
  /\ child' = [child EXCEPT ![w] = "none"]
  /\ free' = [free EXCEPT ![Pool(w)] = @ + 1]
  /\ \E well \in {at[w] = "ending", FALSE} : Resume(w, well)
  /\ UNCHANGED <<wedged, stored>>

\* Two seconds after kill() the child, whatever it had sent, is still there:
\* process.close() raises.  Only run_archive releases its slot in an outer finally.
ReapFails(w) ==
  /\ at[w] \in {"ending", "failing"} /\ child[w] \in {"works", "sent", "error"}
  /\ child' = [child EXCEPT ![w] = "none"]
  /\ IF w \in Archives
     THEN free' = [free EXCEPT !["archive"] = @ + 1] /\ UNCHANGED wedged
     ELSE wedged' = wedged + 1 /\ UNCHANGED free
  /\ Resume(w, FALSE)
  /\ UNCHANGED stored

\* _serve_archive()
ServeArchive(a) == Go(a, "none", "asked") /\ UNCHANGED <<reading, stored>>

----------------------------------------------------------------------------
(* POST /api/messages.                                                     *)

Post(m) == Go(m, "none", "images") /\ UNCHANGED <<reading, stored>>

SaveImage(m) ==
  /\ at[m] = "images" /\ image[m] # Images
  /\ image' = [image EXCEPT ![m] = @ \cup {Next1(@)}]
  /\ UNCHANGED <<at, reading, file, rows, queue, spoiled>>

\* An image that is refused is never written; one that cannot be written whole
\* is not yet in "saved", and stays, and so does one that cannot be unlinked.
ImageFails(m) ==
  /\ image[m] # Images /\ Go(m, "images", "refused")
  /\ \/ image' = [image EXCEPT ![m] = {}] /\ UNCHANGED spoiled
     \/ /\ \E left \in SUBSET (image[m] \cup {Next1(image[m])}) : image' = [image EXCEPT ![m] = left]
        /\ spoiled' = spoiled \cup {m}
  /\ UNCHANGED <<reading, file, rows, queue>>

ImagesSaved(m) == image[m] = Images /\ Go(m, "images", "documents") /\ UNCHANGED <<reading, stored>>

SaveDocument(m) ==
  /\ file[m] # Documents /\ Go(m, "documents", "written")
  /\ file' = [file EXCEPT ![m] = @ \cup {Next1(@)}]
  /\ UNCHANGED <<reading, image, rows, queue, spoiled>>

DocumentFails(m) == file[m] # Documents /\ Go(m, "documents", "unwinding") /\ UNCHANGED <<reading, stored>>

\* The images of a message whose documents are refused are forgotten.
BadUnwind(m) ==
  /\ Go(m, "unwinding", "refused")
  /\ file' = [file EXCEPT ![m] = {}]
  /\ UNCHANGED <<reading, image, rows, queue, spoiled>>

\* What is left of attachments when they are unlinked one after the other and the
\* first that cannot be unlinked ends it.
Remainders(S) == {{j \in S : j >= i} : i \in S}

\* save_many unlinks every path it has begun, do_POST the images.
Unwind(m) ==
  /\ Go(m, "unwinding", "refused")
  /\ file' = [file EXCEPT ![m] = {}] /\ image' = [image EXCEPT ![m] = {}]
  /\ UNCHANGED <<reading, rows, queue, spoiled>>

\* A document that its child still reads, or an image, cannot be unlinked.
UnwindFails(m) ==
  /\ Go(m, "unwinding", "refused")
  /\ \E left \in Remainders(file[m]) \cup {{}}, kept \in Remainders(image[m]) \cup {{}} :
       file' = [file EXCEPT ![m] = left] /\ image' = [image EXCEPT ![m] = kept]
  /\ spoiled' = spoiled \cup {m}
  /\ UNCHANGED <<reading, rows, queue>>

\* submit() under the lock of the queue: bind, then the row and the task.
Submit(m) ==
  /\ file[m] = Documents /\ Go(m, "documents", "queued")
  /\ rows' = IF Documents = {} THEN rows ELSE rows \cup {m}
  /\ UNCHANGED <<reading, image, file, queue, spoiled>>

\* The session is unknown or released, bind() fails, or metadata() does after it.
SubmitFails(m) ==
  /\ file[m] = Documents /\ Go(m, "documents", "cleaning")
  /\ rows' \in {rows, IF Documents = {} THEN rows ELSE rows \cup {m}}
  /\ UNCHANGED <<reading, image, file, queue, spoiled>>

\* delete_many() is one transaction, which unlinks files as it goes.
DeleteMany(m) == file' = [file EXCEPT ![m] = {}] /\ rows' = rows \ {m}

\* A file cannot be unlinked, or the database stays locked: some files are gone,
\* with the last of them perhaps all, and every row is back.
DeleteManyFails(m) ==
  /\ Documents # {}
  /\ \E left \in Remainders(file[m]) \cup {{}} : file' = [file EXCEPT ![m] = left]
  /\ UNCHANGED rows

Clean(m) ==
  /\ Go(m, "cleaning", "refused")
  /\ image' = [image EXCEPT ![m] = {}] /\ DeleteMany(m)
  /\ UNCHANGED <<reading, queue, spoiled>>

\* An image that cannot be unlinked leaves the ones after it and the documents.
CleanFails(m) ==
  /\ Go(m, "cleaning", "refused")
  /\ \/ image' = [image EXCEPT ![m] = {}] /\ DeleteManyFails(m)
     \/ /\ \E kept \in Remainders(image[m]) : image' = [image EXCEPT ![m] = kept]
        /\ UNCHANGED <<file, rows>>
  /\ spoiled' = spoiled \cup {m}
  /\ UNCHANGED <<reading, queue>>

----------------------------------------------------------------------------
(* The queue of the session.                                               *)

\* The worker has claimed the message, but it can still be withdrawn.
BadQueued == {m \in Messages : at[m] \in {"queued", "running"}}

Queued == {m \in Messages : at[m] = "queued"}

Claim(m) ==
  /\ task = {} /\ task' = {m}
  /\ Go(m, "queued", "running")
  /\ UNCHANGED <<reading, image, file, rows, removing, spoiled>>

\* The files of a message that ran, well or not, belong to the conversation.
Finish(m) ==
  /\ m \in task /\ task' = {}
  /\ at' = [at EXCEPT ![m] = "done"]
  /\ UNCHANGED <<reading, image, file, rows, removing, spoiled>>

Withdraw(S) ==
  /\ S # {} /\ S \subseteq Queued
  /\ at' = [w \in Requests |-> IF w \in S THEN "withdrawn" ELSE at[w]]
  /\ removing' = removing \cup {S}
  /\ UNCHANGED <<reading, image, file, rows, task, spoiled>>

CancelQueued(m) == Withdraw({m})
ClearQueued     == Withdraw(Queued)

\* _delete_task_images(): documents first, then images; one that cannot be unlinked
\* is logged, and stays.
DeleteTask(S, m) ==
  /\ S \in removing /\ m \in S
  /\ Go(m, "withdrawn", "gone")
  /\ removing' = (removing \ {S}) \cup ({S \ {m}} \ {{}})
  /\ DeleteMany(m)
  /\ \E left \in SUBSET image[m] :
       /\ image' = [image EXCEPT ![m] = left]
       /\ spoiled' = IF left = {} THEN spoiled ELSE spoiled \cup {m}
  /\ UNCHANGED <<reading, task>>

\* Its exception leaves the images, and the other tasks of the same clear_queued.
DeleteTaskFails(S, m) ==
  /\ S \in removing /\ m \in S
  /\ DeleteManyFails(m)
  /\ at' = [w \in Requests |-> IF w \in S THEN "gone" ELSE at[w]]
  /\ removing' = removing \ {S}
  /\ spoiled' = spoiled \cup S
  /\ UNCHANGED <<reading, image, task>>

----------------------------------------------------------------------------
Init ==
  /\ at = [w \in Requests |-> "none"] /\ child = [w \in Requests |-> "none"]
  /\ free = [p \in Pools |-> Capacity(p)] /\ wedged = 0
  /\ image = [m \in Messages |-> {}] /\ file = [m \in Messages |-> {}]
  /\ rows = {} /\ task = {} /\ removing = {} /\ spoiled = {}

Read(w) == Acquire(w) \/ Start(w) \/ StartFails(w) \/ Watch(w) \/ Reap(w) \/ ReapFails(w)

Save(m) ==
  \/ SaveImage(m) \/ ImageFails(m) \/ ImagesSaved(m) \/ SaveDocument(m) \/ DocumentFails(m)
  \/ Unwind(m) \/ UnwindFails(m) \/ Submit(m) \/ SubmitFails(m) \/ Clean(m) \/ CleanFails(m)

Next ==
  \/ \E w \in Requests : Read(w) \/ \E how \in {"sent", "error", "died"} : ChildEnds(w, how)
  \/ \E a \in Archives : ServeArchive(a)
  \/ \E m \in Messages : Post(m) \/ Save(m) \/ Claim(m) \/ Finish(m) \/ CancelQueued(m)
  \/ ClearQueued
  \/ \E S \in removing : \E m \in S : DeleteTask(S, m) \/ DeleteTaskFails(S, m)

\* A thread that serves a request goes on; a child process need never end.
Spec ==
  /\ Init /\ [][Next]_vars
  /\ \A w \in Requests : WF_vars(Read(w))
  /\ \A m \in Messages : WF_vars(Save(m))

----------------------------------------------------------------------------
TypeOK ==
  /\ child \in [Requests -> {"none", "works", "sent", "error", "died"}]
  /\ free \in [Pools -> Nat] /\ wedged \in Nat
  /\ image \in [Messages -> SUBSET Images] /\ file \in [Messages -> SUBSET Documents]
  /\ rows \subseteq Messages /\ task \subseteq Messages /\ spoiled \subseteq Messages
  /\ removing \subseteq SUBSET Messages

\* Whatever the queue still holds, the worker runs or the conversation keeps has
\* every one of its files and, with documents, its rows: no clean-up of another
\* request, of a cancellation or of a failed POST takes them.
KeptWhole ==
  \A m \in Messages : m \in task \/ at[m] \in {"queued", "done"} =>
     /\ image[m] = Images /\ file[m] = Documents
     /\ Documents # {} => m \in rows

\* A message that was refused, at whatever attachment, or withdrawn leaves no
\* file and no row, unless the disk or the database failed while it was undone.
NothingLeftBehind ==
  \A m \in Messages \ spoiled : at[m] \in {"refused", "gone"} =>
     image[m] = {} /\ file[m] = {} /\ m \notin rows

\* However a child ends, its slot is free again when its request goes on; the one
\* exception is the extraction whose child outlives its kill.
SlotsComeBack ==
  \A p \in Pools :
     free[p] + Cardinality({w \in Requests : Pool(w) = p /\ at[w] \in {"starting", "watching", "ending", "failing"}})
       = Capacity(p) - (IF p = "extraction" THEN wedged ELSE 0)

InProgress(w) ==
  at[w] \in {"asked", "starting", "watching", "ending", "failing", "images", "documents", "written", "unwinding", "cleaning"}

\* A request about an archive or a message with documents is answered, also when
\* its child never says a word and no slot is free.
EveryRequestEnds == \A w \in Requests : InProgress(w) ~> ~InProgress(w)
=============================================================================
