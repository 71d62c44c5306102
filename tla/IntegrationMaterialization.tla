---------------------- MODULE IntegrationMaterialization ----------------------
(***************************************************************************)
(* Materializing integrations: the files that a manifest projects from the *)
(* project's sources into the native places of a tool, their repair, their *)
(* upgrade and their removal (integration_materialization.py), with an     *)
(* operation journal for calls that die.                                   *)
(*                                                                         *)
(* A manifest and the present bytes of its sources are known by what they  *)
(* make desired: the bytes of each target.  Two integrations may project   *)
(* to the same target.  Targets that are links or directories are left out.*)
(***************************************************************************)
EXTENDS Integers, FiniteSets

CONSTANTS
  Id,           \* integrations
  File,         \* numbers: target paths, in order
  Offers,       \* [Id -> set of what its sources may ask for]
  Contents,     \* number of different bytes that sources have
  MaxTrouble    \* bound: crashes, edits and changes of sources

Absent == 0
Own == -1
Bytes == -1 .. Contents
Nothing == [f \in {} |-> Absent]
NoRecord == [files |-> Nothing, preserved |-> {}, present |-> FALSE]
Requests == {"upgrade", "repair"}

VARIABLES
  disk,      \* bytes of each target
  desired,   \* what each integration's manifest and sources ask for
  installed, \* integration-state.json
  journal,   \* operation.json
  p,         \* the call in progress
  touched,   \* files edited since that call began, and not written by it since
  edited,    \* files ever edited
  trouble    \* crashes, edits and changes of sources so far

vars == <<disk, desired, installed, journal, p, touched, edited, trouble>>

(* A journal: the operation, what it writes and which bytes it deletes.    *)
NoJournal == [op |-> "none", id |-> CHOOSE i \in Id : TRUE, writes |-> Nothing, deletes |-> Nothing]
Idle == [pc |-> "idle", todo |-> {}, preserved |-> {}]

TypeOK ==
  /\ disk \in [File -> Bytes] /\ desired \in [Id -> UNION {Offers[i] : i \in Id}]
  /\ \A i \in Id : installed[i] = NoRecord \/ installed[i].files \in Offers[i]
  /\ journal.op \in Requests \cup {"none", "install", "remove"} /\ p.todo \subseteq File
  /\ touched \subseteq edited /\ trouble \in 0 .. MaxTrouble

Init ==
  /\ disk \in [File -> {Absent, Own}]
  /\ desired \in {d \in [Id -> UNION {Offers[i] : i \in Id}] : \A i \in Id : d[i] \in Offers[i]}
  /\ installed = [i \in Id |-> NoRecord] /\ journal = NoJournal /\ p = Idle
  /\ touched = {} /\ edited = {f \in File : disk[f] = Own} /\ trouble = 0

-----------------------------------------------------------------------------
Lowest(F) == CHOOSE f \in F : \A g \in F : f <= g
PresentForeign(F) == {f \in F : disk[f] = Own}   \* mutant: bytes that sources ship are adopted
Present(F) == {f \in F : disk[f] # Absent}
Targets(i) == DOMAIN desired[i]
Managed(i) == DOMAIN installed[i].files
Restrict(g, F) == [f \in F |-> g[f]]

(* integration_status *)
Conflicts(i) == Present(Targets(i)) \ Managed(i) # {}
BlockingModified(i) ==
  \E f \in Present(Targets(i)) \cap Managed(i) : disk[f] # installed[i].files[f]
Exact(i) ==
  /\ Managed(i) = Targets(i)
  /\ \A f \in Targets(i) : disk[f] = installed[i].files[f] /\ disk[f] = desired[i][f]

(* _planned_operation *)
Planned(i, request) ==
  [op |-> IF installed[i].present THEN request ELSE "install", id |-> i,
   writes |-> desired[i], deletes |-> Restrict(installed[i].files, Managed(i) \ Targets(i))]

(* _journal_already_committed: it died between the state and the journal.  *)
CommittedUnread(i) == FALSE   \* mutant: the record is not compared with the journal
AlreadyCommitted(i) ==
  /\ installed[i].present /\ journal.op \notin {"none", "remove"} /\ journal.id = i
  /\ installed[i].files = desired[i] /\ journal.writes = installed[i].files

(* _preflight *)
AdmitsForgetful(i, plan) ==   \* mutant: new bytes of the dead call count as modified
  /\ journal \in {NoJournal, plan}
  /\ \A f \in Present(Targets(i)) :
       IF f \in Managed(i) THEN disk[f] = installed[i].files[f]
       ELSE journal = plan /\ disk[f] = desired[i][f]
Admits(i, plan) ==
  /\ journal \in {NoJournal, plan}
  /\ \A f \in Present(Targets(i)) :
       \/ f \in Managed(i) /\ disk[f] = installed[i].files[f]
       \/ journal = plan /\ disk[f] = desired[i][f]

ToPreserveAsBefore(i) == installed[i].preserved   \* mutant: none are added
(* Targets that are not desired any more and have been modified stay.      *)
ToPreserve(i) ==
  installed[i].preserved \cup
    {f \in Present(Managed(i) \ Targets(i)) : disk[f] # installed[i].files[f]}

(* _apply_materialization: materialize_integration and repair_integration  *)
ClearCommitted(i) ==
  /\ p.pc = "idle" /\ AlreadyCommitted(i) /\ journal' = NoJournal
  /\ UNCHANGED <<disk, desired, installed, p, touched, edited, trouble>>

Materialize(i, request) ==
  /\ p.pc = "idle" /\ ~AlreadyCommitted(i)
  /\ journal = NoJournal => ~Conflicts(i) /\ ~BlockingModified(i) /\ ~(Exact(i) /\ installed[i].present)
  /\ Admits(i, Planned(i, request))
  /\ journal' = Planned(i, request)
  /\ p' = [pc |-> "write", todo |-> Targets(i), preserved |-> ToPreserve(i)]
  /\ touched' = {} /\ UNCHANGED <<disk, desired, installed, edited, trouble>>

Write ==
  /\ p.pc = "write"
  /\ IF p.todo = {}
     THEN /\ p' = [p EXCEPT !.pc = "delete", !.todo = DOMAIN journal.deletes]
          /\ UNCHANGED <<disk, touched>>
     ELSE LET f == Lowest(p.todo) IN
          /\ disk' = [disk EXCEPT ![f] = journal.writes[f]] /\ touched' = touched \ {f}
          /\ p' = [p EXCEPT !.todo = @ \ {f}]
  /\ UNCHANGED <<desired, installed, journal, edited, trouble>>

DeletableAny(f) == disk[f] # Absent   \* mutant: the bytes are not compared
Deletable(f) == disk[f] = journal.deletes[f]

Delete ==
  /\ p.pc = "delete" /\ p.todo # {}
  /\ LET f == Lowest(p.todo) IN
     /\ disk' = IF Deletable(f) THEN [disk EXCEPT ![f] = Absent] ELSE disk
     /\ touched' = IF Deletable(f) THEN touched \ {f} ELSE touched
     /\ p' = [p EXCEPT !.todo = @ \ {f}]
  /\ UNCHANGED <<desired, installed, journal, edited, trouble>>

WriteStateHasty == p.pc \in {"write", "delete"} /\ (p.pc = "delete" => p.todo = {})   \* mutant
MayWriteState == p.pc = "delete" /\ p.todo = {}
WriteState ==
  /\ MayWriteState
  /\ installed' = [installed EXCEPT ![journal.id] =
       IF journal.op = "remove" THEN NoRecord
       ELSE [files |-> journal.writes, preserved |-> p.preserved, present |-> TRUE]]
  /\ p' = [p EXCEPT !.pc = "clear"]
  /\ UNCHANGED <<disk, desired, journal, touched, edited, trouble>>

ClearJournal ==
  /\ p.pc = "clear" /\ journal' = NoJournal /\ p' = Idle
  /\ UNCHANGED <<disk, desired, installed, touched, edited, trouble>>

(* remove_integration *)
Removal(i) == [op |-> "remove", id |-> i, writes |-> Nothing, deletes |-> installed[i].files]

Remove(i) ==
  /\ p.pc = "idle" /\ installed[i].present /\ journal \in {NoJournal, Removal(i)}
  /\ journal' = Removal(i)
  /\ p' = [pc |-> "delete", todo |-> Managed(i), preserved |-> {}]
  /\ touched' = {} /\ UNCHANGED <<disk, desired, installed, edited, trouble>>

RemoveAgain(i) ==
  /\ p.pc = "idle" /\ ~installed[i].present /\ journal.op = "remove" /\ journal.id = i
  /\ journal' = NoJournal
  /\ UNCHANGED <<disk, desired, installed, p, touched, edited, trouble>>

-----------------------------------------------------------------------------
Trouble == trouble < MaxTrouble /\ trouble' = trouble + 1

Crash ==
  /\ p.pc # "idle" /\ p' = Idle /\ Trouble
  /\ UNCHANGED <<disk, desired, installed, journal, touched, edited>>

Edit(f, bytes) ==
  /\ disk[f] # bytes /\ disk' = [disk EXCEPT ![f] = bytes] /\ Trouble
  /\ touched' = touched \cup {f} /\ edited' = edited \cup {f}
  /\ UNCHANGED <<desired, installed, journal, p>>

(* The manifest or a source changes; a call in progress has read them.     *)
Change(i, files) ==
  /\ desired[i] # files /\ desired' = [desired EXCEPT ![i] = files] /\ Trouble
  /\ UNCHANGED <<disk, installed, journal, p, touched, edited>>

Retry ==
  \/ ClearCommitted(journal.id)
  \/ \E request \in Requests : Materialize(journal.id, request)
  \/ journal.op = "remove" /\ (Remove(journal.id) \/ RemoveAgain(journal.id))
RetryThat == journal # NoJournal /\ Retry
Goes == Write \/ Delete \/ WriteState \/ ClearJournal

Next ==
  \/ \E i \in Id :
       \/ ClearCommitted(i) \/ Remove(i) \/ RemoveAgain(i)
       \/ \E request \in Requests : Materialize(i, request)
       \/ \E files \in Offers[i] : Change(i, files)
  \/ Goes \/ Crash
  \/ \E f \in File, bytes \in {Absent, Own} : Edit(f, bytes)

Spec == Init /\ [][Next]_vars
(* A call that was begun goes on, and an interrupted one is called again.  *)
FairSpec == Spec /\ WF_vars(RetryThat) /\ WF_vars(Goes)
-----------------------------------------------------------------------------
(* A call that died can be finished by the same call, whatever it had done *)
(* until then, as long as nobody has edited its files or its sources.      *)
Interrupted == p.pc = "idle" /\ journal # NoJournal
UntouchedSince ==
  /\ DOMAIN journal.writes \cap edited = {}
  /\ journal.op # "remove" => desired[journal.id] = journal.writes
CanBeFinished ==
  Interrupted /\ UntouchedSince =>
    \/ journal.op = "remove"
    \/ AlreadyCommitted(journal.id)
    \/ \E request \in Requests : Admits(journal.id, Planned(journal.id, request))

(* Two integrations never own the same target, unless somebody removed the *)
(* file of the first before the second came.                               *)
OneOwner ==
  \A f \in File \ edited : Cardinality({i \in Id : f \in Managed(i)}) <= 1

(* Bytes of somebody's own are overwritten or removed only if they appear  *)
(* under the hands of a call, between its look at the file and its write.  *)
KeepsOwn == \A f \in File : disk[f] = Own /\ disk'[f] # Own => f \in touched \cup touched'

(* The install state is true when it is written, for all files but those   *)
(* that somebody has edited during that very call: a target that it names  *)
(* has the bytes that it names; and one that it does not name any more has *)
(* not the framework's bytes any more: it is gone, or it was modified, is  *)
(* left as it is, and is named as preserved while the integration stays.   *)
RecordIsTrue ==
  \A i \in Id : installed'[i] # installed[i] =>
    /\ \A f \in DOMAIN installed'[i].files \ touched : disk[f] = installed'[i].files[f]
    /\ \A f \in Managed(i) \ (DOMAIN installed'[i].files \cup touched) :
         /\ disk[f] # installed[i].files[f]
         /\ disk[f] # Absent /\ installed'[i].present => f \in installed'[i].preserved

(* No integration is interrupted, or the interrupted call can only be      *)
(* finished by people: an edited file is in its way, or its sources ask    *)
(* for something else than when it was begun.                              *)
Settled ==
  \/ journal = NoJournal
  \/ journal.op # "remove" /\ \E f \in DOMAIN journal.writes \cap edited : disk[f] # Absent
  \/ journal.op # "remove" /\ desired[journal.id] # journal.writes
InterruptedIsFinished == []<>Settled
=============================================================================
