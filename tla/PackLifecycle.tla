---------------------------- MODULE PackLifecycle ----------------------------
(***************************************************************************)
(* Installing, updating and removing packs of a project                    *)
(* (pack_lifecycle.py): an operation journal, the managed files one by     *)
(* one, the install state, and then the journal is cleared.  A call that   *)
(* fails and a process that dies both leave the journal; whoever called    *)
(* calls again.  People edit the files meanwhile.                          *)
(*                                                                         *)
(* A snapshot is what one exact lock entry stands for: the bytes of each   *)
(* file of the pack.  A path contains the coordinate and the version, so a *)
(* new version has paths of its own, and a local pack that is linked again *)
(* has the same paths with other bytes.                                    *)
(***************************************************************************)
EXTENDS Integers, FiniteSets

CONSTANTS
  Pack,         \* coordinates
  File,         \* numbers: paths under .sdai/installed-packs, in order
  Offers,       \* [Pack -> set of snapshots], a snapshot is [SUBSET File -> 1 .. Contents]
  Contents,     \* number of different bytes that packs ship
  MaxTrouble    \* bound: crashes, failures and edits

Absent == 0
Own == -1
Bytes == -1 .. Contents
Nothing == [f \in {} |-> Absent]
NoPack == [files |-> Nothing, preserved |-> {}, present |-> FALSE]
NoJournal == [op |-> "none", pack |-> CHOOSE c \in Pack : TRUE, files |-> Nothing]

VARIABLES
  disk,      \* bytes of each path
  installed, \* install-state.json: the record of each pack
  journal,   \* operation-journal.json
  p,         \* the call in progress
  touched,   \* files edited since that call began
  edited,    \* files ever edited
  trouble    \* crashes, failures and edits so far

vars == <<disk, installed, journal, p, touched, edited, trouble>>

(* previous: the record that the call has loaded, todo: files left.        *)
Idle == [pc |-> "idle", pack |-> NoJournal.pack, files |-> Nothing, previous |-> NoPack,
         todo |-> {}, preserved |-> {}]

TypeOK ==
  /\ disk \in [File -> Bytes]
  /\ \A c \in Pack : installed[c] = NoPack \/ installed[c].files \in Offers[c]
  /\ journal.op \in {"none", "install", "update", "remove"} /\ p.todo \subseteq File
  /\ touched \subseteq edited /\ trouble \in 0 .. MaxTrouble

Init ==
  /\ disk \in [File -> {Absent, Own}]
  /\ installed = [c \in Pack |-> NoPack] /\ journal = NoJournal /\ p = Idle
  /\ touched = {} /\ edited = {f \in File : disk[f] = Own} /\ trouble = 0

-----------------------------------------------------------------------------
Lowest(F) == CHOOSE f \in F : \A g \in F : f <= g
Files(record) == DOMAIN record.files
(* _verify_existing_file *)
CleanNow(record, f) == disk[f] = record.files[f]
Modified(record, f) == disk[f] \notin {Absent, record.files[f]}

ObsoleteAll(record, files) == Files(record)   \* mutant: files that are shipped again too
Obsolete(record, files) == Files(record) \ DOMAIN files

(* _preflight_destinations *)
RefusesAnyway(files, previous, stale) ==   \* mutant: leftovers are adopted unread
  \E f \in DOMAIN files : disk[f] # Absent /\
    IF f \in Files(previous) THEN Modified(previous, f) ELSE stale = NoJournal
Refuses(files, previous, stale) ==
  \E f \in DOMAIN files : disk[f] # Absent /\
    IF f \in Files(previous) THEN Modified(previous, f)
    ELSE stale = NoJournal \/ disk[f] # files[f]

(* Only the very operation that was interrupted may go on.                 *)
ContinuesNothing(c, files, stale) == stale = NoJournal   \* mutant: any journal blocks
Continues(c, files, stale) ==
  stale = NoJournal \/ (stale.op # "remove" /\ stale.pack = c /\ stale.files = files)

Journal(op, c, files) == [op |-> op, pack |-> c, files |-> files]

(* install_from_local *)
Install(c, files) ==
  /\ p.pc = "idle"
  /\ Continues(c, files, journal) /\ ~Refuses(files, installed[c], journal)
  /\ journal' = Journal(IF installed[c].present THEN "update" ELSE "install", c, files)
  /\ p' = [pc |-> "write", pack |-> c, files |-> files, previous |-> installed[c],
           todo |-> DOMAIN files, preserved |-> installed[c].preserved]
  /\ touched' = {} /\ UNCHANGED <<disk, installed, edited, trouble>>

Write ==
  /\ p.pc = "write"
  /\ IF p.todo = {}
     THEN /\ p' = [p EXCEPT !.pc = "clean", !.todo = Obsolete(p.previous, p.files)]
          /\ UNCHANGED <<disk, touched>>
     ELSE LET f == Lowest(p.todo) IN
          /\ disk' = [disk EXCEPT ![f] = p.files[f]] /\ touched' = touched \ {f}
          /\ p' = [p EXCEPT !.todo = @ \ {f}]
  /\ UNCHANGED <<installed, journal, edited, trouble>>

RemovableAny(record, f) == disk[f] # Absent   \* mutant: the bytes are not compared
Removable(record, f) == CleanNow(record, f)

(* Files that no snapshot asks for any more: clean ones are removed, and   *)
(* modified ones are preserved.                                            *)
Clean ==
  /\ p.pc = "clean" /\ p.todo # {}
  /\ LET f == Lowest(p.todo) IN
     /\ disk' = IF Removable(p.previous, f) THEN [disk EXCEPT ![f] = Absent] ELSE disk
     /\ p' = [p EXCEPT !.todo = @ \ {f},
                       !.preserved = IF Modified(p.previous, f) THEN @ \cup {f} ELSE @]
     /\ touched' = touched \ {f}
  /\ UNCHANGED <<installed, journal, edited, trouble>>

(* An installation writes pack-lock.json after the state and before the      *)
(* journal is cleared. No call ever reads that file: it is left out, and a   *)
(* death next to its write is one next to WriteState or to ClearJournal.     *)
WriteState ==
  /\ p.pc = "clean" /\ p.todo = {}
  /\ installed' = [installed EXCEPT ![p.pack] =
       IF p.files = Nothing THEN NoPack
       ELSE [files |-> p.files, preserved |-> p.preserved, present |-> TRUE]]
  /\ p' = [p EXCEPT !.pc = "clear"]
  /\ UNCHANGED <<disk, journal, touched, edited, trouble>>

ClearJournal ==
  /\ p.pc = "clear" /\ journal' = NoJournal /\ p' = Idle
  /\ UNCHANGED <<disk, installed, touched, edited, trouble>>

(* remove_pack *)
Remove(c) ==
  /\ p.pc = "idle" /\ installed[c].present
  /\ journal = NoJournal \/ (journal.pack = c /\ journal.op = "remove")
  /\ journal' = Journal("remove", c, installed[c].files)
  /\ p' = [pc |-> "clean", pack |-> c, files |-> Nothing, previous |-> installed[c],
           todo |-> Files(installed[c]), preserved |-> installed[c].preserved]
  /\ touched' = {} /\ UNCHANGED <<disk, installed, edited, trouble>>

(* A removal that died after the state was written has only to be cleared. *)
ForgetsWhatever(c) == journal.pack = c   \* mutant: any journal of the pack
Forgets(c) == journal.pack = c /\ journal.op = "remove"
RemoveAgain(c) ==
  /\ p.pc = "idle" /\ ~installed[c].present /\ Forgets(c)
  /\ journal' = NoJournal
  /\ UNCHANGED <<disk, installed, p, touched, edited, trouble>>

-----------------------------------------------------------------------------
Trouble == trouble < MaxTrouble /\ trouble' = trouble + 1

Crash == p.pc # "idle" /\ p' = Idle /\ Trouble /\ UNCHANGED <<disk, installed, journal, touched, edited>>

Edit(f, bytes) ==
  /\ disk[f] # bytes /\ disk' = [disk EXCEPT ![f] = bytes] /\ Trouble
  /\ touched' = touched \cup {f} /\ edited' = edited \cup {f}
  /\ UNCHANGED <<installed, journal, p>>

Retry ==
  \/ journal.op \in {"install", "update"} /\ Install(journal.pack, journal.files)
  \/ journal.op = "remove" /\ (Remove(journal.pack) \/ RemoveAgain(journal.pack))
Goes == Write \/ Clean \/ WriteState \/ ClearJournal

Next ==
  \/ \E c \in Pack : Remove(c) \/ RemoveAgain(c) \/ \E files \in Offers[c] : Install(c, files)
  \/ Goes \/ Crash
  \/ \E f \in File, bytes \in {Absent, Own} : Edit(f, bytes)

Spec == Init /\ [][Next]_vars
(* A call that was begun goes on, and an interrupted one is called again.  *)
FairSpec == Spec /\ WF_vars(Retry) /\ WF_vars(Goes)
-----------------------------------------------------------------------------
(* Every file that the framework has written and nobody edited belongs to  *)
(* an installed pack or to the operation of the journal: no crash, retry   *)
(* or update leaves bytes behind that no later removal would find.         *)
NothingOrphaned ==
  \A f \in File \ edited : disk[f] # Absent =>
    \/ \E c \in Pack : f \in Files(installed[c])
    \/ f \in DOMAIN journal.files

(* The install state is true when it is written: unless a file was edited  *)
(* during that very call, a record's files have the bytes of its snapshot. *)
RecordIsTrue ==
  \A c \in Pack : installed'[c] # installed[c] =>
    \A f \in DOMAIN installed'[c].files \ touched : disk[f] = installed'[c].files[f]

(* Bytes of somebody's own, in a file that was never managed or in a       *)
(* managed one that was modified, are overwritten or removed only if they  *)
(* appear under the hands of a call, between its look at the file and its  *)
(* write; never because a former call died and left a journal.             *)
KeepsOwn == \A f \in File : disk[f] = Own /\ disk'[f] # Own => f \in touched \cup touched'

(* No pack is interrupted, or the interrupted call is refused until people *)
(* have put its files right: an edited file is in its way, or it had given *)
(* a path of the pack's record other bytes (a local pack linked again)     *)
(* before it could write the record, and takes its own bytes for modified  *)
(* ones.  Until then the journal blocks all packs.                         *)
HalfLinkedAgain ==
  \E f \in DOMAIN journal.files \cap Files(installed[journal.pack]) :
    disk[f] = journal.files[f] /\ disk[f] # installed[journal.pack].files[f]
Settled ==
  \/ journal = NoJournal
  \/ journal.op # "remove" /\ \E f \in DOMAIN journal.files \cap edited : disk[f] # Absent
  \/ journal.op # "remove" /\ HalfLinkedAgain
InterruptedIsFinished == []<>Settled
=============================================================================
