--------------------------- MODULE ConfigEditing ---------------------------
(***************************************************************************)
(* The configuration page of the desktop console (desktop/config_page.py,  *)
(* config.py, origin_sync.py, tunnel_port_sync.py) and everybody else who  *)
(* writes the same files: the server's own store (config_write.py), which  *)
(* takes the same lock, and editors, which take none.                      *)
(*                                                                         *)
(* A file is what the properties tell apart in it: the port (that Share    *)
(* listens on, or that a tunnel forwards to), the public entries, and the  *)
(* edits that have gone into it.  Its digest is the file itself.           *)
(***************************************************************************)
EXTENDS Integers, Sequences, FiniteSets, SequencesExt

CONSTANTS
  Ports,
  Entries,      \* the public entries a tunnel may have
  FrpFiles,     \* the files frpc may be configured by
  MaxEdits      \* edits by anybody, of the settings too

ASSUME ConfigAssumption ==
  /\ "none" \notin Ports /\ MaxEdits \in Nat
  /\ IsFiniteSet(FrpFiles) /\ FrpFiles # {} /\ FrpFiles \cap {"lan", "cf"} = {}

Tunnels == {"frp", "cf"}
Kinds   == {"lan"} \cup Tunnels
Files   == {"lan", "cf"} \cup FrpFiles
KindOf(f) == IF f \in FrpFiles THEN "frp" ELSE f

Text(kind, port, entry, edits) == [of |-> kind, port |-> port, entry |-> entry, edits |-> edits]
Changes == Ports \cup Entries \cup {"other"}
NoEntry == [t \in Tunnels |-> "none"]
Absent  == Text("absent", "none", NoEntry, {})

VARIABLES
  disk,       \* what each file holds
  settings,   \* desktop_config.toml: the file of frpc, the mode of cloudflared
  lock,       \* who holds config_lock of each file
  page,       \* ConfigPage and its ConfigDocument
  typed,      \* what the user typed and neither saved nor threw away
  job,        \* the save in progress on the console's only thread
  store,      \* SessionConfigStore.mutation() on a thread of the server
  edits,      \* how many edits there were
  missed,     \* edits that fell between a comparison and the new file's digest
  moved       \* what changed since a synchronisation last looked at it

configVars == <<disk, settings, lock, page, typed, job, store, edits, missed, moved>>

Selected(t) == IF t = "frp" THEN settings.frp ELSE t

Valid(text, kind) == text.of = kind

----------------------------------------------------------------------------
(* The draft.                                                              *)

\* What one change makes of a text: a port, the entry of a tunnel, or neither.
Change(text, kind, x) ==
  CASE x \in Ports   -> [text EXCEPT !.port = x]
    [] x \in Entries -> [text EXCEPT !.entry = [t \in Tunnels |-> IF t = kind THEN x ELSE @[t]]]
    [] OTHER         -> text

Dirty(p) == p.updates # <<>> \/ p.invalid # <<>> \/ p.raw # p.baseline

\* Operators named Bad... are slips of the code that the properties must notice;
\* no action or property uses them.

BadApplied(p) == [p EXCEPT !.updates = <<>>]

\* What the last of the updates with a value in S has set, if any has.
LastSet(updates, S, old) ==
  LET i == SelectLastInSeq(updates, LAMBDA u : u.new \in S)
  IN IF i = 0 THEN old ELSE updates[i].new

\* apply_form(): what the form holds goes into the text, of each field its last
\* value.
Applied(p) ==
  LET entry(t) == IF t = p.kind THEN LastSet(p.updates, Entries, p.raw.entry[t]) ELSE p.raw.entry[t]
      text == [p.raw EXCEPT !.port = LastSet(p.updates, Ports, p.raw.port),
                            !.entry = [t \in Tunnels |-> entry(t)],
                            !.edits = p.raw.edits \cup {u.edit : u \in ToSet(p.updates)}]
  IN [p EXCEPT !.raw = text, !.updates = <<>>]

\* load_path() of what the disk holds.  The digest is taken before the text is
\* decoded, and a text that cannot be decoded leaves the one before in place.
Loaded(kind, f) ==
  LET new == [page EXCEPT !.kind = kind, !.file = f, !.digest = disk[f], !.updates = <<>>,
                          !.invalid = <<>>, !.form = disk[f] # Absent /\ disk[f].of # "garbled"]
  IN IF disk[f].of = "garbled" THEN new ELSE [new EXCEPT !.raw = disk[f], !.baseline = disk[f]]

Idle == job.at = "idle"

\* The user types: in the full text, in a field, or in a field something that is
\* not a number or a list (field_changed()).
Typing ==
  /\ Idle /\ edits < MaxEdits
  /\ edits' = edits + 1 /\ typed' = typed \cup {edits'}
  /\ UNCHANGED <<disk, settings, lock, job, store, missed, moved>>

\* (A text of Share has a port, if only the default.)
Type(x) ==
  /\ Typing /\ ~page.form
  /\ page.kind = "lan" => page.raw.port # "none" \/ x \in Ports
  /\ page' = [page EXCEPT !.raw = [Change(page.raw, page.kind, x) EXCEPT !.of = page.kind, !.edits = page.raw.edits \cup {edits'}]]

Field(x) ==
  /\ Typing /\ page.form
  /\ page' = [page EXCEPT !.updates = Append(@, [edit |-> edits', new |-> x])]

Misfield(x) ==
  /\ Typing /\ page.form /\ page.kind # "cf"
  /\ page' = [page EXCEPT !.invalid = Append(@, [edit |-> edits', new |-> x])]

\* What does not touch a file; only the page changes.
Draft(p) == page' = p /\ UNCHANGED <<disk, settings, lock, typed, job, store, edits, missed, moved>>

Refield  == Idle /\ page.invalid # <<>> /\ Draft([page EXCEPT !.updates = @ \o page.invalid, !.invalid = <<>>])

\* apply_share_port(): the port that Share's file holds now.
ApplySharePort ==
  /\ Idle /\ page.form /\ page.kind = "frp" /\ Valid(disk["lan"], "lan")
  /\ Applied(page).raw.port # disk["lan"].port
  /\ Draft([page EXCEPT !.updates = Append(@, [edit |-> 0, new |-> disk["lan"].port])])

\* toggle_mode(), change_proxy(), and save_copy() to a file that is nobody's
\* configuration: a form with a mistake stays as it is.
ToggleMode ==
  /\ Idle
  /\ IF page.form THEN page.invalid = <<>> /\ Draft([Applied(page) EXCEPT !.form = FALSE])
                  ELSE Valid(page.raw, page.kind) /\ Draft([page EXCEPT !.form = TRUE])

Flush       == Idle /\ page.form /\ page.invalid = <<>> /\ Draft(Applied(page))
ChangeProxy == page.kind = "frp" /\ Flush
SaveCopy    == Flush

\* discard() asks before anything typed is thrown away.
Loads(kind, f) ==
  /\ page' = Loaded(kind, f) /\ typed' = {}
  /\ UNCHANGED <<disk, lock, job, store, edits, missed, moved>>

ChangeKind(kind) ==
  /\ Idle /\ kind # page.kind
  /\ Loads(kind, IF kind = "lan" THEN "lan" ELSE Selected(kind))
  /\ UNCHANGED settings

Reload == Idle /\ Loads(page.kind, page.file) /\ UNCHANGED settings

\* open_file(): another Share file is refused, another tunnel file is selected.
OpenFile(f) ==
  /\ Idle /\ KindOf(f) = page.kind /\ disk[f] # Absent
  /\ settings' = IF page.kind = "frp" THEN [settings EXCEPT !.frp = f] ELSE settings
  /\ Loads(page.kind, f)

\* create_example(): a template, with Share's port if Share's file can be read.
CreateExample(q) ==
  /\ Idle /\ disk[page.file] = Absent
  /\ page.kind = "cf" => disk["lan"].of = "lan" /\ q = disk["lan"].port
  /\ page' = [page EXCEPT !.raw = Text(page.kind, q, NoEntry, {}), !.updates = <<>>, !.invalid = <<>>, !.form = TRUE]
  /\ typed' = {}
  /\ UNCHANGED <<disk, settings, lock, job, store, edits, missed, moved>>

----------------------------------------------------------------------------
(* ConfigDocument.save(): one file, under its lock, if it is what it was.  *)

NoJob == [at |-> "idle", why |-> "none", file |-> "lan", digest |-> Absent, text |-> Absent,
          todo |-> <<>>, sync |-> FALSE]

\* What comes after the document of j was saved, or was not.
After(j, done) ==
  IF j.todo # <<>> /\ (j.why = "port" \/ done) THEN [j EXCEPT !.at = "next"]
  ELSE IF j.why = "save" /\ j.sync /\ done /\ page.kind \in Tunnels THEN [j EXCEPT !.at = "offer"]
  ELSE NoJob

\* The lock is not waited for.
SaveBegins(j) ==
  IF lock[j.file] = "free" /\ Valid(j.text, KindOf(j.file)) /\ disk[j.file] = j.digest
  THEN /\ lock' = [lock EXCEPT ![j.file] = "console"]
       /\ job' = [j EXCEPT !.at = "compare"]
  ELSE job' = After(j, FALSE) /\ UNCHANGED lock

Fails ==
  /\ lock' = [lock EXCEPT ![job.file] = "free"] /\ job' = After(job, FALSE)
  /\ UNCHANGED <<disk, page, typed>>

BadUnchanged == TRUE

Unchanged == disk[job.file] = job.digest

\* The temporary file was written, and Share's read back; the digest is
\* compared once more.  All of that may fail.
Compares ==
  /\ job.at = "compare"
  /\ \/ /\ Unchanged
        /\ job' = [job EXCEPT !.at = "replace"]
        /\ UNCHANGED <<disk, lock, page, typed>>
     \/ Fails
  /\ UNCHANGED <<settings, store, edits, missed, moved>>

Replaces ==
  /\ job.at = "replace"
  /\ \/ /\ disk' = [disk EXCEPT ![job.file] = job.text]
        /\ job' = [job EXCEPT !.at = "reread"]
        /\ UNCHANGED <<lock, page, typed>>
     \/ Fails
  /\ UNCHANGED <<settings, store, edits, missed, moved>>

\* The digest of the new file, read from the disk; the lock is let go.
Rereads ==
  /\ job.at = "reread"
  /\ lock' = [lock EXCEPT ![job.file] = "free"] /\ job' = After(job, TRUE)
  /\ IF job.why = "save"
     THEN /\ page' = [page EXCEPT !.digest = disk[job.file], !.baseline = page.raw]
          /\ typed' = {}
     ELSE UNCHANGED <<page, typed>>
  /\ UNCHANGED <<disk, settings, store, edits, missed, moved>>

----------------------------------------------------------------------------
(* ConfigPage.save(), of which save_copy() to the same file is the half        *)
(* without synchronisation.                                                *)

\* A tunnel that cannot be told apart from one of somebody else is left alone.
Yaml(t) == t = "cf" => settings.mode = "yaml"

Proposal(t, new) ==
  LET f == Selected(t)
  IN [t |-> t, file |-> f, digest |-> disk[f], text |-> [disk[f] EXCEPT !.port = new]]

\* prepare_tunnel_ports(): only a Share whose port changes is followed.
Proposals(old, new) ==
  LET known(t) == Yaml(t) /\ disk[Selected(t)].of = t /\ disk[Selected(t)].port = old
      of(t)    == IF known(t) THEN <<Proposal(t, new)>> ELSE <<>>
  IN IF page.kind # "lan" \/ Absent \in {page.baseline, page.digest} \/ old = new THEN <<>>
     ELSE of("frp") \o of("cf")

Saves(p, sync) ==
  /\ page' = p
  /\ SaveBegins([at |-> "begin", why |-> "save", file |-> p.file, digest |-> p.digest, text |-> p.raw, sync |-> sync,
                 todo |-> IF sync THEN Proposals(p.baseline.port, p.raw.port) ELSE <<>>])

Save ==
  /\ Idle /\ (page.form => page.invalid = <<>>)
  /\ \E sync \in BOOLEAN : Saves(IF page.form THEN Applied(page) ELSE page, sync)
  /\ UNCHANGED <<disk, settings, typed, store, edits, missed, moved>>

BadAsSaved == TRUE

\* The file on the page is still what was saved.
AsSaved == disk[page.file] = page.digest

\* sync_tunnel_ports(): one tunnel after the other, whatever became of the last.
NextPort ==
  /\ job.at = "next"
  /\ LET p == Head(job.todo)
         j == [job EXCEPT !.why = "port", !.file = p.file, !.digest = p.digest, !.text = p.text, !.todo = Tail(@)]
     IN IF p.file = Selected(p.t) /\ Yaml(p.t) /\ AsSaved
        THEN SaveBegins(j)
        ELSE job' = After(j, FALSE) /\ UNCHANGED lock
  /\ moved' = {}
  /\ UNCHANGED <<disk, settings, page, typed, store, edits, missed>>

\* sync_origin() up to its dialog: the entry of a tunnel that forwards to Share.
\* Another entry than the one before is asked about.
OfferOrigin ==
  /\ job.at = "offer"
  /\ LET t == page.kind
         old == disk["lan"]
         new == page.baseline.entry[t]
     IN job' = IF ~Yaml(t) \/ old.of # "lan" \/ page.baseline.port # old.port \/ new = "none" THEN NoJob
               ELSE [job EXCEPT !.why = "origin", !.file = "lan", !.digest = old, !.text = [old EXCEPT !.entry[t] = new],
                                !.at = IF old.entry[t] \in {"none", new} THEN "apply" ELSE "choose"]
  /\ UNCHANGED <<disk, settings, lock, page, typed, store, edits, missed, moved>>

ChooseOrigin ==
  /\ job.at = "choose"
  /\ job' \in {NoJob, [job EXCEPT !.at = "apply"]}
  /\ UNCHANGED <<disk, settings, lock, page, typed, store, edits, missed, moved>>

\* The rest of sync_origin(), with SyncProposal.apply(); an entry over plain
\* HTTP needs a password in Share's file.
ApplyOrigin ==
  /\ job.at = "apply"
  /\ \/ /\ AsSaved /\ page.file = Selected(page.kind) /\ Yaml(page.kind) /\ job.text # job.digest
        /\ SaveBegins(job)
     \/ /\ ~AsSaved \/ page.file # Selected(page.kind) \/ ~Yaml(page.kind) \/ job.text = job.digest \/ page.kind = "frp"
        /\ job' = NoJob /\ UNCHANGED lock
  /\ moved' = {}
  /\ UNCHANGED <<disk, settings, page, typed, store, edits, missed>>

----------------------------------------------------------------------------
(* Everybody else.                                                         *)

InSync == job.why \in {"port", "origin"} /\ job.at \in {"compare", "replace", "reread"}

Moves(x) == moved' = IF InSync THEN moved \cup {x} ELSE {}

\* DesktopSettings.save() of the components page, or another program.
Setting(frp, mode) ==
  /\ edits < MaxEdits /\ edits' = edits + 1
  /\ settings' = [frp |-> frp, mode |-> mode] /\ Moves("settings")
  /\ UNCHANGED <<disk, lock, page, typed, job, store, missed>>

Replacing(f) == \/ job.at \in {"replace", "reread"} /\ job.file = f
                \/ store.at = "replace" /\ f = "lan"

\* An editor takes no lock.
Edit(f, new) ==
  /\ edits < MaxEdits /\ disk[f] # Absent
  /\ edits' = edits + 1
  /\ disk' = [disk EXCEPT ![f] = [new EXCEPT !.edits = new.edits \cup {edits'}]]
  /\ missed' = missed \cup (IF Replacing(f) THEN {edits'} ELSE {})
  /\ Moves(f)
  /\ UNCHANGED <<settings, lock, page, typed, job, store>>

Edits(f) ==
  \/ \E x \in Changes : Edit(f, [Change(disk[f], KindOf(f), x) EXCEPT !.of = KindOf(f)])
  \/ Edit(f, [disk[f] EXCEPT !.of = "garbled"])   \* not UTF-8 any more

NoStore == [at |-> "idle", before |-> Absent, text |-> Absent]

\* mutation(): the digest, the settings and the text are three readings.
StoreBegins ==
  /\ store.at = "idle" /\ lock["lan"] = "free" /\ disk["lan"] # Absent /\ edits < MaxEdits
  /\ edits' = edits + 1
  /\ store' = [at |-> "read", before |-> disk["lan"], text |-> Absent]
  /\ lock' = [lock EXCEPT !["lan"] = "server"]
  /\ UNCHANGED <<disk, settings, page, typed, job, missed, moved>>

StoreEnds == store' = NoStore /\ lock' = [lock EXCEPT !["lan"] = "free"]

\* A mutation may be refused, or fail, before it saves.
StoreReads ==
  /\ store.at = "read"
  /\ \/ /\ disk["lan"].of = "lan"
        /\ store' = [store EXCEPT !.at = "compare", !.text = [disk["lan"] EXCEPT !.edits = disk["lan"].edits \cup {edits}]]
        /\ UNCHANGED lock
     \/ StoreEnds
  /\ UNCHANGED <<disk, settings, page, typed, job, edits, missed, moved>>

BadSame == TRUE

Same == disk["lan"] = store.before

\* replace_config()
StoreCompares ==
  /\ store.at = "compare"
  /\ IF Same THEN store' = [store EXCEPT !.at = "replace"] /\ UNCHANGED lock ELSE StoreEnds
  /\ UNCHANGED <<disk, settings, page, typed, job, edits, missed, moved>>

StoreReplaces ==
  /\ store.at = "replace"
  /\ disk' = [disk EXCEPT !["lan"] = store.text]
  /\ Moves("lan") /\ StoreEnds
  /\ UNCHANGED <<settings, page, typed, job, edits, missed>>

----------------------------------------------------------------------------
ConfigInit ==
  /\ \E q \in Ports, e \in Entries, frp \in FrpFiles :
       /\ disk = [f \in Files |-> CASE f = "lan" -> Text("lan", q, NoEntry, {})
                                 [] f = frp   -> Text("frp", q, [NoEntry EXCEPT !["frp"] = e], {})
                                 [] OTHER     -> Absent]
       /\ settings = [frp |-> frp, mode |-> "yaml"]
  /\ lock = [f \in Files |-> "free"]
  /\ page = [kind |-> "lan", file |-> "lan", digest |-> disk["lan"], baseline |-> disk["lan"], raw |-> disk["lan"],
             form |-> TRUE, updates |-> <<>>, invalid |-> <<>>]
  /\ typed = {} /\ job = NoJob /\ store = NoStore /\ edits = 0 /\ missed = {} /\ moved = {}

Editing ==
  \/ \E x \in Changes : Type(x) \/ Field(x) \/ Misfield(x)
  \/ Refield \/ ApplySharePort \/ ToggleMode \/ ChangeProxy \/ SaveCopy \/ Reload
  \/ \E kind \in Kinds : ChangeKind(kind)
  \/ \E f \in Files : OpenFile(f)
  \/ \E q \in Ports : CreateExample(q)

Saving ==
  \/ Save \/ Compares \/ Replaces \/ Rereads
  \/ NextPort \/ OfferOrigin \/ ChooseOrigin \/ ApplyOrigin

Others ==
  \/ \E frp \in FrpFiles, mode \in {"yaml", "token-file"} : Setting(frp, mode)
  \/ \E f \in Files : Edits(f)
  \/ StoreBegins \/ StoreReads \/ StoreCompares \/ StoreReplaces

ConfigNext == Editing \/ Saving \/ Others

ConfigSpec == ConfigInit /\ [][ConfigNext]_configVars

----------------------------------------------------------------------------
(* Properties.                                                             *)

ConfigTypeOK ==
  /\ \A f \in Files : disk[f].of \in Kinds \cup {"absent", "garbled"} /\ disk[f].edits \subseteq 0..edits
  /\ lock \in [Files -> {"free", "console", "server"}]
  /\ typed \subseteq 1..edits /\ missed \subseteq 1..edits /\ edits \in 0..MaxEdits
  /\ moved \subseteq Files \cup {"settings"}

\* A file is replaced by a text that has all the edits the file had, whoever
\* made them: the console's, the server's and those of an editor that takes no
\* lock.  Excepted are edits that fall between the last comparison and the moment
\* the writer has read its own file back (config.py:129, config_write.py:48), and
\* those of a file that is not UTF-8: load() takes its digest before it decodes it,
\* and the page keeps the text of before.  (config.py:50, config_page.py:152-173)
NoEditLost ==
  [][LET undecoded == IF page.digest.of = "garbled" THEN page.digest.edits ELSE {}
     IN  \A f \in Files : disk[f].edits \ disk'[f].edits \subseteq missed \cup undecoded]_configVars

\* What one save tells a second file of a first is so at that moment, however
\* long the user looked at the dialog: a tunnel that follows Share's port is the
\* selected one and gets the port in Share's file; the entry written to Share's
\* file is that of the selected tunnel, which forwards to Share.  What changed
\* after the check right before the save is excepted, and an edit that NoEditLost
\* excepts: its digest is taken for that of the saved file.  (config_page.py:458-462, 483-487)
SyncIsTrue ==
  job.at = "reread" =>
    LET shown == disk[page.file]
        steady == page.file \notin moved /\ page.digest.edits \cap missed = {} IN
    /\ job.why = "port" =>
         /\ steady => job.text.port = shown.port
         /\ "settings" \notin moved => job.file = Selected(KindOf(job.file)) /\ Yaml(KindOf(job.file))
    /\ job.why = "origin" =>
         /\ steady =>
              job.text.entry[page.kind] = shown.entry[page.kind] /\ job.text.port = shown.port
         /\ "settings" \notin moved => page.file = Selected(page.kind) /\ Yaml(page.kind)

\* Whatever the user typed is on the page or in the file until it is thrown away
\* knowingly: switching between form and text, between proxies, a refused save
\* or a copy lose nothing, and discard() asks whenever something would be lost.
DraftIsKept ==
  /\ typed # {} => Dirty(page)
  /\ typed \subseteq page.raw.edits \cup {u.edit : u \in ToSet(page.updates \o page.invalid)}
  /\ job.why = "save" /\ job.at = "reread" => typed \subseteq job.text.edits

============================================================================
