------------------------------ MODULE Migration ------------------------------
(***************************************************************************)
(* Upgrades of a project's scaffold (migration_transaction.py on top of    *)
(* migration.py): a prepared manifest, backups, the targets one by one, a  *)
(* commit receipt; recovery of an apply that died, and rollback of a       *)
(* committed one.  People edit the targets meanwhile.                      *)
(*                                                                         *)
(* Of a target's bytes it is kept whether they are the old stock ones, the *)
(* new ones, or somebody's own.  A record directory under .sdai/migrations *)
(* is known by its number.                                                 *)
(***************************************************************************)
EXTENDS Integers, Sequences, FiniteSets

CONSTANTS
  Files,        \* number of managed files, in the order of their paths
  MaxRecords,   \* bound: migrations begun
  MaxTrouble    \* bound: crashes, failures and edits

File == 1 .. Files
Bytes == {"absent", "stock", "new", "own"}
NoBytes == [f \in {} |-> "absent"]

VARIABLES
  disk,     \* the managed files
  records,  \* the directories of .sdai/migrations, in the order they were made
  p,        \* the call in progress
  touched,  \* files that were edited since that call began
  trouble   \* crashes, failures and edits so far

vars == <<disk, records, p, touched, trouble>>

Record == [manifest : {"none", "temporary", "written"}, before : UNION {[F -> {"absent", "stock"}] : F \in SUBSET File},
           backups : SUBSET File, receipt : SUBSET {"commit", "recovery"}, rolledBack : BOOLEAN]

Removed == [manifest |-> "none", before |-> NoBytes, backups |-> {}, receipt |-> {"recovery"}, rolledBack |-> FALSE]
Allocated == [Removed EXCEPT !.receipt = {}]

(* todo: the files still to be written, found: what recovery found in them *)
Idle == [pc |-> "idle", r |-> 0, todo |-> {}, found |-> NoBytes]

TypeOK ==
  /\ disk \in [File -> Bytes]
  /\ Len(records) <= MaxRecords /\ \A r \in DOMAIN records : records[r] \in Record
  /\ p.r \in 0 .. Len(records) /\ p.todo \subseteq File /\ touched \subseteq File

Init ==
  /\ disk \in [File -> {"absent", "stock", "own"}]
  /\ records = <<>> /\ p = Idle /\ touched = {} /\ trouble = 0

-----------------------------------------------------------------------------
Targets(r) == DOMAIN records[r].before
Highest(F) == CHOOSE f \in F : \A g \in F : g <= f
Lowest(F) == CHOOSE f \in F : \A g \in F : f <= g

(* _transaction_state *)
Pending(r) == records[r].manifest = "written" /\ records[r].receipt = {}
Empty(r) == records[r] = Allocated
Committed(r) == records[r].receipt = {"commit"}
(* Evidence without a manifest, or two receipts: for an operator to review.*)
Unclear(r) == records[r].manifest = "temporary" \/ Cardinality(records[r].receipt) = 2

Trouble == trouble < MaxTrouble /\ trouble' = trouble + 1
Call(pc) == p' = [p EXCEPT !.pc = pc]
Answer == p' = Idle
Begin(pc, r, todo) == p' = [Idle EXCEPT !.pc = pc, !.r = r, !.todo = todo] /\ touched' = {}

Stock(before) == {f \in DOMAIN before : before[f] = "stock"}

NeededAll(r) == Stock(records[r].before)   \* mutant: a backup for every target
Needed(r) == {f \in Stock(records[r].before) : disk[f] = "new"}

(* _target_states and _recovery_backups: every target holds what it held   *)
(* before or what it was to hold, and the backups that are needed exist.   *)
Foreign(r) == \E f \in Targets(r) : disk[f] \notin {records[r].before[f], "new"}
Recoverable(r) == ~Foreign(r) /\ Needed(r) \subseteq records[r].backups

Incomplete == {r \in DOMAIN records : Pending(r) \/ Empty(r)}

AllClear == \A r \in DOMAIN records : ~Unclear(r)

(* apply_migration: an interrupted migration first ...                     *)
ApplyRecovers ==
  /\ p.pc = "idle" /\ AllClear
  /\ \E r \in DOMAIN records : Incomplete = {r} /\
       IF Empty(r)
       THEN records' = [records EXCEPT ![r] = Removed] /\ UNCHANGED <<p, touched>>
       ELSE /\ Recoverable(r)
            /\ Begin("recover", r, {f \in Targets(r) : disk[f] = "new"})
            /\ UNCHANGED records
  /\ UNCHANGED <<disk, trouble>>

(* ... then a plan of what the scaffold adds and replaces, and a record.   *)
PlannedAll == File   \* mutant: own bytes are replaced as well
Planned == {f \in File : disk[f] \in {"absent", "stock"}}
ReadyAnyway == AllClear   \* mutant: planning does not look for incomplete records
Ready == AllClear /\ Incomplete = {}

ApplyBegins ==
  /\ p.pc = "idle" /\ Ready /\ Planned # {} /\ Len(records) < MaxRecords
  /\ records' = Append(records, Allocated)
  /\ p' = [Idle EXCEPT !.pc = "prepare", !.r = Len(records) + 1, !.found = [f \in Planned |-> disk[f]]]
  /\ touched' = {}
  /\ UNCHANGED <<disk, trouble>>

ToBackUpSwapped(before) == DOMAIN before \ Stock(before)   \* mutant: the wrong files are saved
ToBackUp(before) == Stock(before)

OpenTemporary ==
  /\ p.pc = "prepare" /\ records[p.r].manifest = "none"
  /\ records' = [records EXCEPT ![p.r].manifest = "temporary"]
  /\ UNCHANGED <<disk, p, touched, trouble>>

WriteManifest ==
  /\ p.pc = "prepare" /\ records[p.r].manifest = "temporary"
  /\ records' = [records EXCEPT ![p.r].manifest = "written", ![p.r].before = p.found]
  /\ p' = [Idle EXCEPT !.pc = "backup", !.r = p.r, !.todo = ToBackUp(p.found)]
  /\ UNCHANGED <<disk, touched, trouble>>

Backup ==
  /\ p.pc = "backup"
  /\ IF p.todo = {} THEN p' = [p EXCEPT !.pc = "write", !.todo = Targets(p.r)] /\ UNCHANGED records
     ELSE /\ records' = [records EXCEPT ![p.r].backups = @ \cup {Lowest(p.todo)}]
          /\ p' = [p EXCEPT !.todo = @ \ {Lowest(p.todo)}]
  /\ UNCHANGED <<disk, touched, trouble>>

WriteTarget ==
  /\ p.pc = "write" /\ p.todo # {}
  /\ disk' = [disk EXCEPT ![Lowest(p.todo)] = "new"]
  /\ touched' = touched \ {Lowest(p.todo)}
  /\ Call("check")
  /\ UNCHANGED <<records, trouble>>

(* The bytes that were written are read again; an apply that fails, here   *)
(* or in any other step, recovers before it raises.                        *)
CheckTarget ==
  /\ p.pc = "check"
  /\ IF disk[Lowest(p.todo)] = "new"
     THEN p' = [p EXCEPT !.pc = "write", !.todo = @ \ {Lowest(p.todo)}]
     ELSE Call("undo")
  /\ UNCHANGED <<disk, records, touched, trouble>>

Fail ==
  /\ p.pc \in {"backup", "write", "check"} /\ Call("undo") /\ Trouble
  /\ UNCHANGED <<disk, records, touched>>

(* Before the manifest is written nothing has to be undone. *)
FailEarly ==
  /\ p.pc = "prepare" /\ Answer /\ Trouble
  /\ records' = [records EXCEPT ![p.r] = Removed]
  /\ UNCHANGED <<disk, touched>>

Undo ==
  /\ p.pc = "undo"
  /\ p' = IF Recoverable(p.r)
          THEN [p EXCEPT !.pc = "recover", !.todo = {f \in Targets(p.r) : disk[f] = "new"}]
          ELSE Idle
  /\ touched' = {}
  /\ UNCHANGED <<disk, records, trouble>>

CommitHasty == p.pc = "write"   \* mutant: the receipt does not wait for the targets
MayCommit == p.pc = "write" /\ p.todo = {}
Commit ==
  /\ MayCommit /\ Answer
  /\ records' = [records EXCEPT ![p.r].receipt = @ \cup {"commit"}]
  /\ UNCHANGED <<disk, touched, trouble>>

(* _recover_record, from the last target to the first.                     *)
Recover ==
  /\ p.pc = "recover" /\ p.todo # {}
  /\ disk' = [disk EXCEPT ![Highest(p.todo)] = records[p.r].before[Highest(p.todo)]]
  /\ touched' = touched \ {Highest(p.todo)}
  /\ p' = [p EXCEPT !.todo = @ \ {Highest(p.todo)}]
  /\ UNCHANGED <<records, trouble>>

Recovered(r) == \A f \in Targets(r) : disk[f] = records[r].before[f]

Recovery ==
  /\ p.pc = "recover" /\ p.todo = {} /\ Answer
  /\ records' = IF Recovered(p.r)
                THEN [records EXCEPT ![p.r].receipt = @ \cup {"recovery"}] ELSE records
  /\ UNCHANGED <<disk, touched, trouble>>

-----------------------------------------------------------------------------
(* rollback_migration, of a committed record whose targets are untouched.  *)
UntouchedSome(r) == \E f \in Targets(r) : disk[f] = "new"   \* mutant
Untouched(r) == \A f \in Targets(r) : disk[f] = "new"

RollbackBegins(r) ==
  /\ p.pc = "idle" /\ Committed(r) /\ ~records[r].rolledBack
  /\ Untouched(r) /\ Stock(records[r].before) \subseteq records[r].backups
  /\ Begin("rollback", r, Targets(r))
  /\ UNCHANGED <<disk, records, trouble>>

Rollback ==
  /\ p.pc = "rollback" /\ p.todo # {}
  /\ disk' = [disk EXCEPT ![Highest(p.todo)] = records[p.r].before[Highest(p.todo)]]
  /\ touched' = touched \ {Highest(p.todo)}
  /\ p' = [p EXCEPT !.todo = @ \ {Highest(p.todo)}]
  /\ UNCHANGED <<records, trouble>>

RollbackReceipt ==
  /\ p.pc = "rollback" /\ p.todo = {} /\ Answer
  /\ records' = [records EXCEPT ![p.r].rolledBack = TRUE]
  /\ UNCHANGED <<disk, touched, trouble>>

(* A rollback that fails puts back what it has removed.                    *)
RollbackFails ==
  /\ p.pc = "rollback" /\ Answer /\ Trouble
  /\ disk' = [f \in File |-> IF f \in Targets(p.r) \ p.todo THEN "new" ELSE disk[f]]
  /\ touched' = touched \cap (File \ (Targets(p.r) \ p.todo))
  /\ UNCHANGED records

-----------------------------------------------------------------------------
Crash == p.pc # "idle" /\ Answer /\ Trouble /\ UNCHANGED <<disk, records, touched>>

(* Somebody changes a file, or puts the bytes it had before back.          *)
Edit(f, bytes) ==
  /\ disk[f] # bytes /\ disk' = [disk EXCEPT ![f] = bytes]
  /\ touched' = touched \cup {f} /\ Trouble
  /\ UNCHANGED <<records, p>>

Apply ==
  \/ ApplyRecovers \/ ApplyBegins \/ OpenTemporary \/ WriteManifest \/ Backup
  \/ WriteTarget \/ CheckTarget \/ Undo \/ Commit \/ Recover \/ Recovery

Next ==
  \/ Apply \/ Fail \/ FailEarly \/ Crash
  \/ \E r \in DOMAIN records : RollbackBegins(r)
  \/ Rollback \/ RollbackReceipt \/ RollbackFails
  \/ \E f \in File, bytes \in {"absent", "stock", "own"} : Edit(f, bytes)

Spec == Init /\ [][Next]_vars

(* Whoever began an upgrade goes on with it, and starts it again when it   *)
(* was interrupted; a rollback that was begun goes on too.                 *)
FairSpec == Spec /\ WF_vars(Apply) /\ WF_vars(Rollback \/ RollbackReceipt)
-----------------------------------------------------------------------------
(* Whatever dies where, the bytes that a migration replaced can be brought *)
(* back: they are in its backups before the target is touched.             *)
NothingIsLost ==
  \A r \in DOMAIN records : Pending(r) =>
    \A f \in Stock(records[r].before) : disk[f] = "new" => f \in records[r].backups

(* A migration is never both committed and recovered, and never two are    *)
(* incomplete at a time, so recovery always knows what to do.              *)
OneAtATime ==
  Cardinality(Incomplete) <= 1 /\ \A r \in DOMAIN records : Cardinality(records[r].receipt) <= 1

(* A receipt is true when it is written: unless somebody edited a file     *)
(* during that very call, a commit finds all targets migrated, a recovery  *)
(* or a rollback all of them as they were.                                 *)
Receives(r, kind) == kind \in records'[r].receipt /\ kind \notin records[r].receipt
ReceiptTrue ==
  \A r \in DOMAIN records \cap DOMAIN records' : \A f \in Targets(r) \ touched :
    /\ Pending(r) /\ Receives(r, "commit") => disk[f] = "new"
    /\ Pending(r) /\ Receives(r, "recovery") => disk[f] = records[r].before[f]
    /\ ~records[r].rolledBack /\ records'[r].rolledBack => disk[f] = records[r].before[f]

(* What people wrote stays: the framework overwrites or removes somebody's *)
(* own bytes only if they appear under its hands, while a call is writing. *)
KeepsOwn ==
  \A f \in File : disk[f] = "own" /\ disk'[f] # "own" => f \in touched \cup touched'

ReceiptsAreTrue == [][ReceiptTrue]_vars
OwnBytesStay == [][KeepsOwn]_vars

(* Every upgrade that was begun comes to an end: it is committed, or       *)
(* recovered, or its empty record is removed, unless somebody put bytes of *)
(* their own, or a file that was to be replaced was removed, into its      *)
(* targets.  A record that a crash has left with a part of a manifest, or  *)
(* two receipts, has no such end: it waits for an operator, and nothing    *)
(* can be begun before.                                                    *)
Settled == \A r \in Incomplete : Pending(r) /\ Foreign(r)
InterruptedIsFinished == []<>Settled
=============================================================================
