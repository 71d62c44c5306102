---------------------------- MODULE TransactionProofs ----------------------------
(***************************************************************************)
(* Upgrades, promotion, packs, integrations, the declarations of a project *)
(* and its specification stores, for any number of files, packs, people,   *)
(* processes, stores and references.  One inductive invariant for each     *)
(* system of MCTransactions; the theorems at the end combine them.         *)
(***************************************************************************)
EXTENDS MCTransactions, WellFoundedInduction, FiniteSetTheorems, TLAPS

(* A set of numbers has a least one, and one that is bounded a greatest:   *)
(* which file is written next, or restored next, is well defined.          *)
LEMMA HasLowest ==
  ASSUME NEW F \in SUBSET Nat, F # {}
  PROVE  \E f \in F : \A g \in F : f <= g
<1>1. PICK x \in F : \A y \in F : ~(<<y, x>> \in OpToRel(<, Nat))
  BY NatLessThanWellFounded, WFMin, Zenon
<1>2. \A y \in F : ~(y < x)
  BY <1>1 DEF OpToRel
<1> QED
  BY <1>2

(* A bounded set of numbers has a greatest one: the file a rollback        *)
(* restores next.                                                          *)
LEMMA HasHighest ==
  ASSUME NEW n \in Nat, NEW F \in SUBSET (1 .. n), F # {}
  PROVE  \E f \in F : \A g \in F : g <= f
<1> DEFINE G == {n - f : f \in F}
<1>1. G \in SUBSET Nat /\ G # {}
  <2>1. \A f \in F : n - f \in Nat
    OBVIOUS
  <2>2. PICK f \in F : TRUE
    OBVIOUS
  <2>3. n - f \in G
    OBVIOUS
  <2> QED
    BY <2>1, <2>3
<1>2. PICK x \in G : \A y \in G : x <= y
  BY <1>1, HasLowest
<1>3. PICK f \in F : x = n - f
  OBVIOUS
<1>4. \A g \in F : n - f <= n - g
  BY <1>2, <1>3
<1> QED
  BY <1>4

-----------------------------------------------------------------------------
(* Upgrades.                                                               *)
Before == UNION {[F -> {"absent", "stock"}] : F \in SUBSET Upgrade!File}
UpgradePc == {"idle", "prepare", "backup", "write", "check", "undo", "recover", "rollback"}

UpgradeCalls == [pc : UpgradePc, r : 0 .. UpgradeRecords, todo : SUBSET Upgrade!File, found : Before]

UpgradeTyped ==
  /\ disk \in [Upgrade!File -> Upgrade!Bytes]
  /\ records \in Seq(Upgrade!Record) /\ Len(records) <= UpgradeRecords
  /\ p \in UpgradeCalls /\ p.r <= Len(records)
  /\ touched \subseteq Upgrade!File

(* A record has one end, and one at most has none.                         *)
UpgradeRecordsSound ==
  /\ \A r \in DOMAIN records : records[r].receipt \in {{}, {"commit"}, {"recovery"}}
  /\ \A q, r \in Upgrade!Incomplete : q = r

(* The call works on a record that fits its place; while it prepares, no   *)
(* other record is incomplete.                                             *)
UpgradeOnRecord ==
  /\ p.pc # "idle" => p.r \in DOMAIN records
  /\ p.pc = "prepare" =>
       /\ records[p.r] \in {Upgrade!Allocated, [Upgrade!Allocated EXCEPT !.manifest = "temporary"]}
       /\ Upgrade!Incomplete \subseteq {p.r}
  /\ p.pc \in {"backup", "write", "check", "undo", "recover"} => Upgrade!Pending(p.r)
  /\ p.pc = "rollback" => Upgrade!Committed(p.r)
  /\ p.pc = "backup" =>
       /\ p.todo \subseteq Upgrade!Stock(records[p.r].before)
       /\ Upgrade!Stock(records[p.r].before) \subseteq records[p.r].backups \cup p.todo
  /\ p.pc \in {"write", "check"} => Upgrade!Stock(records[p.r].before) \subseteq records[p.r].backups
  /\ p.pc \in {"write", "check", "recover", "rollback"} => p.todo \subseteq Upgrade!Targets(p.r)
  /\ p.pc = "check" => p.todo # {}

(* What nobody edited since the call began is as the call left it.         *)
UpgradeUntouched ==
  /\ p.pc = "prepare" =>
       \A f \in DOMAIN p.found : disk[f] # "new" /\ (f \notin touched => disk[f] = p.found[f])
  /\ p.pc \in {"backup", "write", "check", "recover", "rollback"} =>
       \A f \in Upgrade!Targets(p.r) \ touched :
         disk[f] = IF \/ p.pc = "backup"
                      \/ p.pc = "write" /\ f \in p.todo
                      \/ p.pc = "check" /\ f \in p.todo /\ f # Upgrade!Lowest(p.todo)
                      \/ p.pc \in {"recover", "rollback"} /\ f \notin p.todo
                   THEN records[p.r].before[f] ELSE "new"

(* A rollback that fails puts new bytes back into targets of a pending     *)
(* migration too: that one has saved what it found there.                  *)
UpgradeSaved ==
  /\ Upgrade!NothingIsLost
  /\ p.pc = "rollback" =>
       \A r \in DOMAIN records : Upgrade!Pending(r) =>
         Upgrade!Stock(records[r].before) \cap Upgrade!Targets(p.r) \subseteq records[r].backups

UpgradeInv ==
  /\ UpgradeTyped /\ UpgradeRecordsSound /\ UpgradeOnRecord /\ UpgradeUntouched /\ UpgradeSaved

(* Which file is next. *)
LEMMA UpgradeNext ==
  ASSUME NEW F \in SUBSET Upgrade!File, F # {}
  PROVE  Upgrade!Lowest(F) \in F /\ Upgrade!Highest(F) \in F
<1>1. F \in SUBSET Nat /\ F \in SUBSET (1 .. UpgradeFiles) /\ UpgradeFiles \in Nat
  BY UpgradeAssumption DEF Upgrade!File
<1>2. \E f \in F : \A g \in F : f <= g
  BY <1>1, HasLowest
<1>3. \E f \in F : \A g \in F : g <= f
  BY <1>1, HasHighest
<1> QED
  BY <1>2, <1>3 DEF Upgrade!Lowest, Upgrade!Highest

(* One record changes, the others stay. *)
LEMMA UpgradeRecordChange ==
  ASSUME UpgradeTyped, NEW r \in DOMAIN records, NEW new \in Upgrade!Record,
         records' = [records EXCEPT ![r] = new]
  PROVE  /\ records' \in Seq(Upgrade!Record) /\ Len(records') = Len(records)
         /\ DOMAIN records' = DOMAIN records /\ records'[r] = new
         /\ \A q \in DOMAIN records : q # r => records'[q] = records[q]
  BY DEF UpgradeTyped

(* What a record says of the files it replaced. *)
LEMMA UpgradeTargets ==
  ASSUME UpgradeTyped, NEW r \in DOMAIN records
  PROVE  /\ records[r] \in Upgrade!Record
         /\ Upgrade!Targets(r) \subseteq Upgrade!File
         /\ Upgrade!Stock(records[r].before) \subseteq Upgrade!Targets(r)
         /\ \A f \in Upgrade!Targets(r) : records[r].before[f] \in {"absent", "stock"}
<1>1. records[r] \in Upgrade!Record
  BY DEF UpgradeTyped
<1>2. records[r].before \in Before
  BY <1>1 DEF Upgrade!Record, Before
<1>3. PICK F \in SUBSET Upgrade!File : records[r].before \in [F -> {"absent", "stock"}]
  BY <1>2 DEF Before
<1> QED
  BY <1>1, <1>3 DEF Upgrade!Targets, Upgrade!Stock

(* A call that has not planned yet has found nothing. *)
LEMMA UpgradeNoBytes == Upgrade!NoBytes \in Before
<1>1. Upgrade!NoBytes \in [{} -> {"absent", "stock"}] /\ {} \in SUBSET Upgrade!File
  BY DEF Upgrade!NoBytes
<1> QED
  BY <1>1 DEF Before

(* Before the first upgrade. *)
LEMMA UpgradeStarts == Upgrade!Init => UpgradeInv
<1> SUFFICES ASSUME Upgrade!Init PROVE UpgradeInv
  OBVIOUS
<1>2. Upgrade!NoBytes \in Before
  BY UpgradeNoBytes
<1>3. DOMAIN records = {} /\ Len(records) = 0 /\ records \in Seq(Upgrade!Record)
  BY DEF Upgrade!Init
<1>4. UpgradeTyped
  BY <1>2, <1>3, UpgradeAssumption
     DEF Upgrade!Init, UpgradeTyped, Upgrade!Bytes, Upgrade!Idle, UpgradeCalls, UpgradePc
<1>5. UpgradeRecordsSound /\ UpgradeOnRecord /\ UpgradeUntouched /\ UpgradeSaved
  BY <1>3 DEF Upgrade!Init, Upgrade!Idle, UpgradeRecordsSound, UpgradeOnRecord, UpgradeUntouched,
         UpgradeSaved, Upgrade!Incomplete, Upgrade!NothingIsLost
<1> QED
  BY <1>4, <1>5 DEF UpgradeInv

(* A step that changes no record keeps what is known of all of them. *)
LEMMA UpgradeRecordsKept ==
  ASSUME UpgradeRecordsSound, UNCHANGED records
  PROVE  UpgradeRecordsSound'
  BY DEF UpgradeRecordsSound, Upgrade!Incomplete, Upgrade!Pending, Upgrade!Empty

UpgradeGoal == UpgradeInv' /\ Upgrade!KeepsOwn /\ Upgrade!ReceiptTrue

(* A record changes: those that are incomplete are still one at most.      *)
LEMMA UpgradeRecordsGo ==
  ASSUME UpgradeTyped, UpgradeRecordsSound, NEW r \in DOMAIN records, NEW new \in Upgrade!Record,
         records' = [records EXCEPT ![r] = new],
         new.receipt \in {{}, {"commit"}, {"recovery"}},
         Upgrade!Incomplete \subseteq {r} \/ ~(new = Upgrade!Allocated \/ (new.manifest = "written" /\ new.receipt = {}))
  PROVE  UpgradeRecordsSound' /\ Upgrade!Incomplete' \subseteq Upgrade!Incomplete \cup {r}
<1>1. /\ DOMAIN records' = DOMAIN records /\ records'[r] = new
      /\ \A q \in DOMAIN records : q # r => records'[q] = records[q]
  BY UpgradeRecordChange
<1> QED
  BY <1>1 DEF UpgradeRecordsSound, Upgrade!Incomplete, Upgrade!Pending, Upgrade!Empty

(* An interrupted upgrade is removed, or its recovery begins. *)
LEMMA UpgradeApplyRecovers == ASSUME UpgradeInv, Upgrade!ApplyRecovers PROVE UpgradeGoal
<1> USE DEF UpgradeInv
<1>1. PICK r \in DOMAIN records :
        /\ Upgrade!Incomplete = {r}
        /\ IF Upgrade!Empty(r)
           THEN records' = [records EXCEPT ![r] = Upgrade!Removed] /\ UNCHANGED <<p, touched>>
           ELSE /\ Upgrade!Recoverable(r)
                /\ Upgrade!Begin("recover", r, {f \in Upgrade!Targets(r) : disk[f] = "new"})
                /\ UNCHANGED records
  BY DEF Upgrade!ApplyRecovers
<1>2. p.pc = "idle" /\ UNCHANGED disk /\ Upgrade!KeepsOwn
  BY DEF Upgrade!ApplyRecovers, Upgrade!KeepsOwn
<1>3. CASE Upgrade!Empty(r)
  <2>1. records' = [records EXCEPT ![r] = Upgrade!Removed] /\ UNCHANGED <<disk, p, touched>>
    BY <1>1, <1>2, <1>3
  <2>2. records[r] = Upgrade!Allocated /\ records[r] \in Upgrade!Record
    BY <1>3 DEF Upgrade!Empty, UpgradeTyped
  <2>3. Upgrade!Removed \in Upgrade!Record
    BY <2>2 DEF Upgrade!Allocated, Upgrade!Removed, Upgrade!Record
  <2>4. /\ records' \in Seq(Upgrade!Record) /\ Len(records') = Len(records)
        /\ DOMAIN records' = DOMAIN records /\ records'[r] = Upgrade!Removed
        /\ \A q \in DOMAIN records : q # r => records'[q] = records[q]
    BY <2>1, <2>3, UpgradeRecordChange
  <2>5. UpgradeTyped'
    BY <2>1, <2>4 DEF UpgradeTyped
  <2>6. UpgradeRecordsSound'
    BY <1>1, <2>1, <2>3, UpgradeRecordsGo DEF Upgrade!Removed
  <2>7. UpgradeOnRecord' /\ UpgradeUntouched'
    BY <1>2, <2>1 DEF UpgradeOnRecord, UpgradeUntouched
  <2>8. UpgradeSaved'
    BY <1>2, <2>1, <2>4 DEF UpgradeSaved, Upgrade!NothingIsLost, Upgrade!Pending, Upgrade!Removed, Upgrade!Stock
  <2>9. Upgrade!ReceiptTrue
    BY <2>2, <2>4 DEF Upgrade!ReceiptTrue, Upgrade!Pending, Upgrade!Allocated, Upgrade!Removed, Upgrade!Receives
  <2> QED
    BY <1>2, <2>5, <2>6, <2>7, <2>8, <2>9 DEF UpgradeGoal
<1>4. CASE ~Upgrade!Empty(r)
  <2> DEFINE todo == {f \in Upgrade!Targets(r) : disk[f] = "new"}
  <2>1. p' = [Upgrade!Idle EXCEPT !.pc = "recover", !.r = r, !.todo = todo]
        /\ touched' = {} /\ UNCHANGED <<disk, records>> /\ Upgrade!Pending(r) /\ Upgrade!Recoverable(r)
    BY <1>1, <1>2, <1>4 DEF Upgrade!Begin, Upgrade!Incomplete
  <2>2. p'.pc = "recover" /\ p'.r = r /\ p'.todo = todo
    BY <2>1 DEF Upgrade!Idle
  <2>3. UpgradeTyped'
    <3>1. p' = [pc |-> "recover", r |-> r, todo |-> todo, found |-> Upgrade!NoBytes]
      BY <2>1 DEF Upgrade!Idle
    <3>2. todo \in SUBSET Upgrade!File
      BY UpgradeTargets
    <3>3. r \in 0 .. UpgradeRecords /\ r <= Len(records)
      BY UpgradeAssumption DEF UpgradeTyped
    <3>4. p' \in UpgradeCalls
      BY <3>1, <3>2, <3>3, UpgradeNoBytes DEF UpgradeCalls, UpgradePc
    <3> QED
      BY <2>1, <2>2, <3>3, <3>4 DEF UpgradeTyped
  <2>4. UpgradeOnRecord'
    BY <2>1, <2>2 DEF UpgradeOnRecord, Upgrade!Pending, Upgrade!Targets
  <2>5. UpgradeUntouched'
    BY <2>1, <2>2 DEF UpgradeUntouched, Upgrade!Targets, Upgrade!Recoverable, Upgrade!Foreign
  <2>6. UpgradeSaved'
    BY <2>1, <2>2 DEF UpgradeSaved, Upgrade!NothingIsLost, Upgrade!Pending, Upgrade!Stock
  <2>7. Upgrade!ReceiptTrue
    BY <2>1 DEF Upgrade!ReceiptTrue, Upgrade!Receives
  <2> QED
    BY <1>2, <2>1, <2>3, <2>4, <2>5, <2>6, <2>7, UpgradeRecordsKept DEF UpgradeGoal
<1> QED
  BY <1>3, <1>4

(* A record is allocated, after a look at the files and at all records. *)
LEMMA UpgradeApplyBegins == ASSUME UpgradeInv, Upgrade!ApplyBegins PROVE UpgradeGoal
<1> USE DEF UpgradeInv
<1> DEFINE r == Len(records) + 1
           found == [f \in Upgrade!Planned |-> disk[f]]
<1>1. /\ p.pc = "idle" /\ Upgrade!Incomplete = {} /\ Len(records) < UpgradeRecords
      /\ records' = Append(records, Upgrade!Allocated)
      /\ p' = [Upgrade!Idle EXCEPT !.pc = "prepare", !.r = r, !.found = found]
      /\ touched' = {} /\ UNCHANGED <<disk, trouble>>
  BY DEF Upgrade!ApplyBegins, Upgrade!Ready
<1>2. Upgrade!Planned \in SUBSET Upgrade!File /\ found \in [Upgrade!Planned -> {"absent", "stock"}]
  BY DEF Upgrade!Planned
<1>3. found \in Before
  BY <1>2 DEF Before
<1>4. Upgrade!Allocated \in Upgrade!Record
  <2>1. {} \in SUBSET Upgrade!File /\ {} \in SUBSET {"commit", "recovery"}
    OBVIOUS
  <2> QED
    BY <2>1, UpgradeNoBytes DEF Upgrade!Allocated, Upgrade!Removed, Upgrade!Record, Before
<1>5. /\ records' \in Seq(Upgrade!Record) /\ Len(records') = r /\ DOMAIN records' = DOMAIN records \cup {r}
      /\ r \notin DOMAIN records /\ records'[r] = Upgrade!Allocated
      /\ \A q \in DOMAIN records : records'[q] = records[q]
  BY <1>1, <1>4 DEF UpgradeTyped
<1>6. p'.pc = "prepare" /\ p'.r = r /\ p'.todo = {} /\ p'.found = found
  BY <1>1 DEF Upgrade!Idle
<1>7. UpgradeTyped'
  <2>1. p' = [pc |-> "prepare", r |-> r, todo |-> {}, found |-> found]
    BY <1>1 DEF Upgrade!Idle
  <2>2. r \in 0 .. UpgradeRecords
    BY <1>1, UpgradeAssumption DEF UpgradeTyped
  <2>3. p' \in UpgradeCalls
    BY <1>3, <2>1, <2>2 DEF UpgradeCalls, UpgradePc
  <2> QED
    BY <1>1, <1>5, <1>6, <2>2, <2>3 DEF UpgradeTyped
<1>8. UpgradeRecordsSound' /\ Upgrade!Incomplete' \subseteq {r}
  <2>1. Upgrade!Incomplete' \subseteq {r}
    BY <1>1, <1>5 DEF Upgrade!Incomplete, Upgrade!Pending, Upgrade!Empty
  <2> QED
    BY <2>1, <1>5 DEF UpgradeRecordsSound, Upgrade!Allocated, Upgrade!Removed
<1>9. UpgradeOnRecord'
  BY <1>5, <1>6, <1>8 DEF UpgradeOnRecord
<1>10. UpgradeUntouched'
  <2>1. DOMAIN found = Upgrade!Planned /\ \A f \in Upgrade!Planned : found[f] = disk[f] /\ disk[f] # "new"
    BY DEF Upgrade!Planned
  <2> QED
    BY <1>1, <1>6, <2>1 DEF UpgradeUntouched
<1>11. UpgradeSaved'
  BY <1>1, <1>5, <1>6 DEF UpgradeSaved, Upgrade!NothingIsLost, Upgrade!Pending, Upgrade!Stock,
     Upgrade!Allocated, Upgrade!Removed
<1>12. Upgrade!ReceiptTrue /\ Upgrade!KeepsOwn
  BY <1>1, <1>5 DEF Upgrade!ReceiptTrue, Upgrade!Receives, Upgrade!KeepsOwn
<1> QED
  BY <1>7, <1>8, <1>9, <1>10, <1>11, <1>12 DEF UpgradeGoal

(* The temporary file of the manifest. *)
LEMMA UpgradeOpenTemporary == ASSUME UpgradeInv, Upgrade!OpenTemporary PROVE UpgradeGoal
<1> USE DEF UpgradeInv
<1> DEFINE new == [Upgrade!Allocated EXCEPT !.manifest = "temporary"]
<1>1. /\ p.pc = "prepare" /\ p.r \in DOMAIN records /\ records[p.r] \in Upgrade!Record
      /\ records[p.r] = Upgrade!Allocated /\ Upgrade!Incomplete \subseteq {p.r}
      /\ records' = [records EXCEPT ![p.r] = new] /\ UNCHANGED <<disk, p, touched>>
  <2>1. p.pc = "prepare" /\ p.r \in DOMAIN records /\ records[p.r] \in Upgrade!Record
        /\ Upgrade!Incomplete \subseteq {p.r} /\ UNCHANGED <<disk, p, touched>>
    BY DEF Upgrade!OpenTemporary, UpgradeOnRecord, UpgradeTyped
  <2>2. records[p.r].manifest = "none"
    BY DEF Upgrade!OpenTemporary
  <2>3. records[p.r] = Upgrade!Allocated
    BY <2>1, <2>2 DEF UpgradeOnRecord, Upgrade!Allocated, Upgrade!Removed
  <2>4. records' = [records EXCEPT ![p.r] = new]
    BY <2>3 DEF Upgrade!OpenTemporary
  <2> QED
    BY <2>1, <2>3, <2>4
<1>2. new \in Upgrade!Record
  BY <1>1 DEF Upgrade!Record, Upgrade!Allocated, Upgrade!Removed
<1>3. /\ records' \in Seq(Upgrade!Record) /\ Len(records') = Len(records)
      /\ DOMAIN records' = DOMAIN records /\ records'[p.r] = new
      /\ \A q \in DOMAIN records : q # p.r => records'[q] = records[q]
  BY <1>1, <1>2, UpgradeRecordChange
<1>4. UpgradeTyped'
  BY <1>1, <1>3 DEF UpgradeTyped
<1>5. UpgradeRecordsSound' /\ Upgrade!Incomplete' \subseteq {p.r}
  BY <1>1, <1>2, UpgradeRecordsGo DEF Upgrade!Allocated, Upgrade!Removed
<1>6. UpgradeOnRecord' /\ UpgradeUntouched'
  BY <1>1, <1>3, <1>5 DEF UpgradeOnRecord, UpgradeUntouched
<1>7. UpgradeSaved'
  BY <1>1, <1>3 DEF UpgradeSaved, Upgrade!NothingIsLost, Upgrade!Pending, Upgrade!Stock,
     Upgrade!Allocated, Upgrade!Removed
<1>8. Upgrade!ReceiptTrue /\ Upgrade!KeepsOwn
  BY <1>1, <1>3 DEF Upgrade!ReceiptTrue, Upgrade!Receives, Upgrade!KeepsOwn, Upgrade!Allocated, Upgrade!Removed
<1> QED
  BY <1>4, <1>5, <1>6, <1>7, <1>8 DEF UpgradeGoal

(* The manifest names what the planning found. *)
LEMMA UpgradeWriteManifest == ASSUME UpgradeInv, Upgrade!WriteManifest PROVE UpgradeGoal
<1> USE DEF UpgradeInv
<1> DEFINE new == [records[p.r] EXCEPT !.manifest = "written", !.before = p.found]
<1>1. /\ p.pc = "prepare" /\ p.r \in DOMAIN records /\ records[p.r] \in Upgrade!Record
      /\ records[p.r] = [Upgrade!Allocated EXCEPT !.manifest = "temporary"]
      /\ Upgrade!Incomplete \subseteq {p.r} /\ UNCHANGED <<disk, touched>>
      /\ records' = [records EXCEPT ![p.r] = new]
      /\ p' = [Upgrade!Idle EXCEPT !.pc = "backup", !.r = p.r, !.todo = Upgrade!ToBackUp(p.found)]
  <2>1. p.pc = "prepare" /\ p.r \in DOMAIN records /\ records[p.r] \in Upgrade!Record
        /\ Upgrade!Incomplete \subseteq {p.r} /\ UNCHANGED <<disk, touched>>
    BY DEF Upgrade!WriteManifest, UpgradeOnRecord, UpgradeTyped
  <2>2. records[p.r].manifest = "temporary"
    BY DEF Upgrade!WriteManifest
  <2>3. records[p.r] = [Upgrade!Allocated EXCEPT !.manifest = "temporary"]
    BY <2>1, <2>2 DEF UpgradeOnRecord, Upgrade!Allocated, Upgrade!Removed
  <2>4. records' = [records EXCEPT ![p.r] = new]
    BY <2>1 DEF Upgrade!WriteManifest, UpgradeTyped
  <2> QED
    BY <2>1, <2>3, <2>4 DEF Upgrade!WriteManifest
<1>2. new \in Upgrade!Record /\ p.found \in Before
  BY <1>1 DEF Upgrade!Record, UpgradeTyped, UpgradeCalls, Before
<1>3. /\ records' \in Seq(Upgrade!Record) /\ Len(records') = Len(records)
      /\ DOMAIN records' = DOMAIN records /\ records'[p.r] = new
      /\ \A q \in DOMAIN records : q # p.r => records'[q] = records[q]
  BY <1>1, <1>2, UpgradeRecordChange
<1>4. /\ new.manifest = "written" /\ new.before = p.found /\ new.backups = {} /\ new.receipt = {}
      /\ records[p.r].receipt = {} /\ records[p.r].manifest # "written" /\ ~new.rolledBack
  BY <1>1 DEF Upgrade!Allocated, Upgrade!Removed
<1>5. /\ p'.pc = "backup" /\ p'.r = p.r /\ p'.todo = Upgrade!Stock(p.found)
  BY <1>1 DEF Upgrade!Idle, Upgrade!ToBackUp
<1>6. UpgradeTyped'
  <2>1. PICK F \in SUBSET Upgrade!File : p.found \in [F -> {"absent", "stock"}]
    BY <1>2 DEF Before
  <2>2. Upgrade!Stock(p.found) \in SUBSET Upgrade!File
    BY <2>1 DEF Upgrade!Stock
  <2>3. p' = [pc |-> "backup", r |-> p.r, todo |-> Upgrade!Stock(p.found), found |-> Upgrade!NoBytes]
    BY <1>1 DEF Upgrade!Idle, Upgrade!ToBackUp
  <2>4. p' \in UpgradeCalls
    BY <2>2, <2>3, UpgradeNoBytes DEF UpgradeTyped, UpgradeCalls, UpgradePc
  <2> QED
    BY <1>1, <1>3, <2>4, <1>5 DEF UpgradeTyped
<1>7. UpgradeRecordsSound' /\ Upgrade!Incomplete' \subseteq {p.r}
  BY <1>1, <1>2, <1>4, UpgradeRecordsGo
<1>8. UpgradeOnRecord'
  <2>1. p.r \in DOMAIN records'
    BY <1>1, <1>3
  <2> QED
    BY <1>3, <1>4, <1>5, <2>1 DEF UpgradeOnRecord, Upgrade!Pending, Upgrade!Stock
<1>9. UpgradeUntouched'
  BY <1>1, <1>3, <1>4, <1>5 DEF UpgradeUntouched, Upgrade!Targets
<1>10. UpgradeSaved'
  <2>1. \A f \in Upgrade!Stock(p.found) : disk[f] # "new"
    BY <1>1 DEF UpgradeUntouched, Upgrade!Stock
  <2> QED
    BY <1>1, <1>3, <1>4, <1>5, <2>1 DEF UpgradeSaved, Upgrade!NothingIsLost, Upgrade!Pending
<1>11. Upgrade!ReceiptTrue /\ Upgrade!KeepsOwn
  BY <1>1, <1>3, <1>4 DEF Upgrade!ReceiptTrue, Upgrade!Receives, Upgrade!KeepsOwn
<1> QED
  BY <1>6, <1>7, <1>8, <1>9, <1>10, <1>11 DEF UpgradeGoal

(* The replaced bytes are saved, file by file. *)
LEMMA UpgradeBackup == ASSUME UpgradeInv, Upgrade!Backup PROVE UpgradeGoal
<1> USE DEF UpgradeInv
<1> DEFINE r == p.r
           f == Upgrade!Lowest(p.todo)
           new == [records[r] EXCEPT !.backups = @ \cup {f}]
<1>1. /\ p.pc = "backup" /\ r \in DOMAIN records /\ Upgrade!Pending(r) /\ UNCHANGED <<disk, touched>>
      /\ records[r] \in Upgrade!Record /\ p \in UpgradeCalls
  BY DEF Upgrade!Backup, UpgradeOnRecord, UpgradeTyped
<1>2. Upgrade!KeepsOwn
  BY <1>1 DEF Upgrade!KeepsOwn
<1>3. CASE p.todo = {}
  <2>1. UNCHANGED records /\ p' = [p EXCEPT !.pc = "write", !.todo = Upgrade!Targets(r)]
    BY <1>3 DEF Upgrade!Backup
  <2>2. p'.pc = "write" /\ p'.r = r /\ p'.todo = Upgrade!Targets(r)
    BY <1>1, <2>1 DEF UpgradeCalls
  <2>3. UpgradeTyped'
    BY <1>1, <2>1, UpgradeTargets DEF UpgradeTyped, UpgradeCalls, UpgradePc
  <2>4. UpgradeOnRecord'
    BY <1>1, <1>3, <2>1, <2>2 DEF UpgradeOnRecord, Upgrade!Pending, Upgrade!Targets
  <2>5. UpgradeUntouched'
    BY <1>1, <2>1, <2>2 DEF UpgradeUntouched, Upgrade!Targets
  <2>6. UpgradeSaved'
    BY <1>1, <2>1, <2>2 DEF UpgradeSaved, Upgrade!NothingIsLost, Upgrade!Pending
  <2>7. Upgrade!ReceiptTrue
    BY <2>1 DEF Upgrade!ReceiptTrue, Upgrade!Receives
  <2> QED
    BY <1>2, <2>1, <2>3, <2>4, <2>5, <2>6, <2>7, UpgradeRecordsKept DEF UpgradeGoal
<1>4. CASE p.todo # {}
  <2>1. f \in p.todo /\ f \in Upgrade!File
    BY <1>1, <1>4, UpgradeNext DEF UpgradeCalls
  <2>2. records' = [records EXCEPT ![r] = new] /\ p' = [p EXCEPT !.todo = @ \ {f}]
    BY <1>1, <1>4 DEF Upgrade!Backup
  <2>3. new \in Upgrade!Record /\ new.receipt = {} /\ new.manifest = "written"
        /\ new.before = records[r].before /\ new.backups = records[r].backups \cup {f}
        /\ new.rolledBack = records[r].rolledBack
    BY <1>1, <2>1 DEF Upgrade!Record, Upgrade!Pending
  <2>4. /\ records' \in Seq(Upgrade!Record) /\ Len(records') = Len(records)
        /\ DOMAIN records' = DOMAIN records /\ records'[r] = new
        /\ \A q \in DOMAIN records : q # r => records'[q] = records[q]
    BY <1>1, <2>2, <2>3, UpgradeRecordChange
  <2>5. p'.pc = "backup" /\ p'.r = r /\ p'.todo = p.todo \ {f}
    BY <1>1, <2>2 DEF UpgradeCalls
  <2>6. UpgradeTyped'
    <3>1. p' \in UpgradeCalls
      BY <1>1, <2>2 DEF UpgradeCalls
    <3> QED
      BY <1>1, <2>4, <2>5, <3>1 DEF UpgradeTyped
  <2>7. UpgradeRecordsSound'
    <3>1. r \in Upgrade!Incomplete
      BY <1>1 DEF Upgrade!Incomplete
    <3>2. Upgrade!Incomplete \subseteq {r}
      BY <3>1 DEF UpgradeRecordsSound
    <3> QED
      BY <1>1, <2>2, <2>3, <3>2, UpgradeRecordsGo
  <2>8. UpgradeOnRecord'
    BY <1>1, <2>3, <2>4, <2>5 DEF UpgradeOnRecord, Upgrade!Pending
  <2>9. UpgradeUntouched'
    <3>1. records'[p'.r].before = records[r].before /\ Upgrade!Targets(p.r)' = Upgrade!Targets(r)
      BY <2>3, <2>4, <2>5 DEF Upgrade!Targets
    <3>2. \A g \in Upgrade!Targets(r) \ touched : disk[g] = records[r].before[g]
      BY <1>1 DEF UpgradeUntouched
    <3> QED
      BY <1>1, <2>5, <3>1, <3>2 DEF UpgradeUntouched
  <2>10. UpgradeSaved'
    BY <1>1, <2>3, <2>4, <2>5 DEF UpgradeSaved, Upgrade!NothingIsLost, Upgrade!Pending
  <2>11. Upgrade!ReceiptTrue
    BY <1>1, <2>3, <2>4 DEF Upgrade!ReceiptTrue, Upgrade!Receives, Upgrade!Pending
  <2> QED
    BY <1>2, <2>6, <2>7, <2>8, <2>9, <2>10, <2>11 DEF UpgradeGoal
<1> QED
  BY <1>3, <1>4

(* One target is replaced: it was as the plan found it, or was edited. *)
LEMMA UpgradeWriteTarget == ASSUME UpgradeInv, Upgrade!WriteTarget PROVE UpgradeGoal
<1> USE DEF UpgradeInv
<1> DEFINE r == p.r
           f == Upgrade!Lowest(p.todo)
<1>1. /\ p.pc = "write" /\ p.todo # {} /\ r \in DOMAIN records /\ Upgrade!Pending(r) /\ UNCHANGED records
      /\ p \in UpgradeCalls /\ disk' = [disk EXCEPT ![f] = "new"] /\ touched' = touched \ {f}
      /\ p' = [p EXCEPT !.pc = "check"] /\ p.todo \subseteq Upgrade!Targets(r)
      /\ Upgrade!Stock(records[r].before) \subseteq records[r].backups
      /\ disk \in [Upgrade!File -> Upgrade!Bytes]
  BY DEF Upgrade!WriteTarget, Upgrade!Call, UpgradeOnRecord, UpgradeTyped
<1>2. f \in p.todo /\ f \in Upgrade!File /\ f \in Upgrade!Targets(r)
  BY <1>1, UpgradeNext DEF UpgradeCalls
<1>3. disk'[f] = "new" /\ \A g \in Upgrade!File : g # f => disk'[g] = disk[g]
  BY <1>1, <1>2
<1>4. p'.pc = "check" /\ p'.r = r /\ p'.todo = p.todo
  BY <1>1 DEF UpgradeCalls
<1>5. UpgradeTyped'
  BY <1>1 DEF UpgradeTyped, UpgradeCalls, UpgradePc, Upgrade!Bytes
<1>6. UpgradeOnRecord'
  BY <1>1, <1>4 DEF UpgradeOnRecord, Upgrade!Pending, Upgrade!Targets
<1>7. UpgradeUntouched'
  <2>1. ASSUME NEW g \in Upgrade!Targets(r) \ touched'
        PROVE  disk'[g] = IF g \in p.todo /\ g # f THEN records[r].before[g] ELSE "new"
    <3>1. g \in Upgrade!File /\ (g # f => g \notin touched)
      BY <1>1, UpgradeTargets
    <3>2. g # f => disk[g] = IF g \in p.todo THEN records[r].before[g] ELSE "new"
      BY <1>1, <3>1 DEF UpgradeUntouched
    <3> QED
      BY <1>2, <1>3, <3>1, <3>2
  <2>2. Upgrade!Targets(r)' = Upgrade!Targets(r) /\ Upgrade!Lowest(p.todo)' = f
        /\ records'[p'.r].before = records[r].before
    BY <1>1, <1>4 DEF Upgrade!Targets, Upgrade!Lowest
  <2> QED
    BY <1>4, <2>1, <2>2 DEF UpgradeUntouched
<1>8. UpgradeSaved'
  <2>1. \A q \in DOMAIN records : Upgrade!Pending(q) => q = r
    BY <1>1 DEF UpgradeRecordsSound, Upgrade!Incomplete
  <2> QED
    BY <1>1, <1>4, <2>1 DEF UpgradeSaved, Upgrade!NothingIsLost, Upgrade!Pending
<1>9. Upgrade!KeepsOwn
  <2>1. f \notin touched => disk[f] # "own"
    BY <1>1, <1>2, UpgradeTargets DEF UpgradeUntouched
  <2> QED
    BY <1>3, <2>1 DEF Upgrade!KeepsOwn
<1>10. Upgrade!ReceiptTrue
  BY <1>1 DEF Upgrade!ReceiptTrue, Upgrade!Receives
<1> QED
  BY <1>1, <1>5, <1>6, <1>7, <1>8, <1>9, <1>10, UpgradeRecordsKept DEF UpgradeGoal

(* What was written is read again. *)
LEMMA UpgradeCheckTarget == ASSUME UpgradeInv, Upgrade!CheckTarget PROVE UpgradeGoal
<1> USE DEF UpgradeInv
<1> DEFINE f == Upgrade!Lowest(p.todo)
<1>1. p.pc = "check" /\ UNCHANGED <<disk, records, touched>> /\ p \in UpgradeCalls
  BY DEF Upgrade!CheckTarget, UpgradeTyped
<1>2. Upgrade!KeepsOwn /\ Upgrade!ReceiptTrue
  BY <1>1 DEF Upgrade!KeepsOwn, Upgrade!ReceiptTrue, Upgrade!Receives
<1>3. CASE p' = [p EXCEPT !.pc = "write", !.todo = @ \ {f}] /\ disk[f] = "new"
  <2>1. p'.pc = "write" /\ p'.r = p.r /\ p'.todo = p.todo \ {f} /\ p' \in UpgradeCalls
    BY <1>1, <1>3 DEF UpgradeCalls, UpgradePc
  <2>2. UpgradeTyped' /\ UpgradeOnRecord'
    BY <1>1, <2>1 DEF UpgradeTyped, UpgradeOnRecord, Upgrade!Pending, Upgrade!Targets
  <2>3. UpgradeUntouched'
    BY <1>1, <1>3, <2>1 DEF UpgradeUntouched, Upgrade!Targets
  <2>4. UpgradeSaved'
    BY <1>1, <2>1 DEF UpgradeSaved, Upgrade!NothingIsLost, Upgrade!Pending
  <2> QED
    BY <1>1, <1>2, <2>2, <2>3, <2>4, UpgradeRecordsKept DEF UpgradeGoal
<1>4. CASE p' = [p EXCEPT !.pc = "undo"]
  <2>1. p'.pc = "undo" /\ p'.r = p.r /\ p' \in UpgradeCalls
    BY <1>1, <1>4 DEF UpgradeCalls, UpgradePc
  <2>2. UpgradeTyped' /\ UpgradeOnRecord' /\ UpgradeUntouched'
    BY <1>1, <2>1 DEF UpgradeTyped, UpgradeOnRecord, UpgradeUntouched, Upgrade!Pending, Upgrade!Targets
  <2>3. UpgradeSaved'
    BY <1>1, <2>1 DEF UpgradeSaved, Upgrade!NothingIsLost, Upgrade!Pending
  <2> QED
    BY <1>1, <1>2, <2>2, <2>3, UpgradeRecordsKept DEF UpgradeGoal
<1> QED
  BY <1>3, <1>4 DEF Upgrade!CheckTarget, Upgrade!Call

(* A step fails before or after the manifest is there. *)
LEMMA UpgradeFails == ASSUME UpgradeInv, Upgrade!Fail PROVE UpgradeGoal
<1> USE DEF UpgradeInv
<1>1. /\ p.pc \in {"backup", "write", "check"} /\ UNCHANGED <<disk, records, touched>> /\ p \in UpgradeCalls
      /\ p' = [p EXCEPT !.pc = "undo"]
  BY DEF Upgrade!Fail, Upgrade!Call, UpgradeTyped
<1>2. Upgrade!KeepsOwn /\ Upgrade!ReceiptTrue
  BY <1>1 DEF Upgrade!KeepsOwn, Upgrade!ReceiptTrue, Upgrade!Receives
<1>3. p'.pc = "undo" /\ p'.r = p.r /\ p' \in UpgradeCalls
  BY <1>1 DEF UpgradeCalls, UpgradePc
<1>4. UpgradeTyped' /\ UpgradeOnRecord' /\ UpgradeUntouched'
  BY <1>1, <1>3 DEF UpgradeTyped, UpgradeOnRecord, UpgradeUntouched, Upgrade!Pending, Upgrade!Targets
<1>5. UpgradeSaved'
  BY <1>1, <1>3 DEF UpgradeSaved, Upgrade!NothingIsLost, Upgrade!Pending
<1> QED
  BY <1>1, <1>2, <1>4, <1>5, UpgradeRecordsKept DEF UpgradeGoal

(* A call that has returned or died claims nothing. *)
LEMMA UpgradeIdle == Upgrade!Idle \in UpgradeCalls /\ Upgrade!Idle.pc = "idle" /\ Upgrade!Idle.r = 0
<1>1. Upgrade!Idle = [pc |-> "idle", r |-> 0, todo |-> {}, found |-> Upgrade!NoBytes]
  BY DEF Upgrade!Idle
<1> QED
  BY <1>1, UpgradeNoBytes, UpgradeAssumption DEF UpgradeCalls, UpgradePc

(* A call that answers (upgrade_transaction.py) leaves the process idle,   *)
(* and an idle process owes the records nothing.                           *)
LEMMA UpgradeReturns ==
  ASSUME UpgradeInv, Upgrade!Answer, records' \in Seq(Upgrade!Record), Len(records') = Len(records),
         disk' \in [Upgrade!File -> Upgrade!Bytes], touched' \in SUBSET Upgrade!File
  PROVE  UpgradeTyped' /\ UpgradeOnRecord' /\ UpgradeUntouched'
<1>1. p' = Upgrade!Idle /\ p'.pc = "idle" /\ p'.r = 0 /\ p' \in UpgradeCalls
  BY UpgradeIdle DEF Upgrade!Answer
<1>2. UpgradeTyped'
  BY <1>1 DEF UpgradeInv, UpgradeTyped
<1>3. UpgradeOnRecord'
  BY <1>1 DEF UpgradeOnRecord
<1>4. UpgradeUntouched'
  BY <1>1 DEF UpgradeUntouched
<1> QED
  BY <1>2, <1>3, <1>4

(* A preparation that fails removes its directory before any target is     *)
(* written.                                                                *)
LEMMA UpgradeFailsEarly == ASSUME UpgradeInv, Upgrade!FailEarly PROVE UpgradeGoal
<1> USE DEF UpgradeInv
<1>1. /\ p.pc = "prepare" /\ p.r \in DOMAIN records /\ UNCHANGED <<disk, touched>> /\ Upgrade!Answer
      /\ records' = [records EXCEPT ![p.r] = Upgrade!Removed] /\ Upgrade!Incomplete \subseteq {p.r}
      /\ records[p.r].manifest # "written" /\ records[p.r].rolledBack = FALSE
  BY DEF Upgrade!FailEarly, UpgradeOnRecord, Upgrade!Allocated, Upgrade!Removed
<1>2. Upgrade!Removed \in Upgrade!Record
  <2>1. {} \in SUBSET Upgrade!File /\ {"recovery"} \in SUBSET {"commit", "recovery"}
    OBVIOUS
  <2> QED
    BY <2>1, UpgradeNoBytes DEF Upgrade!Removed, Upgrade!Record, Before
<1>3. /\ records' \in Seq(Upgrade!Record) /\ Len(records') = Len(records)
      /\ DOMAIN records' = DOMAIN records /\ records'[p.r] = Upgrade!Removed
      /\ \A q \in DOMAIN records : q # p.r => records'[q] = records[q]
  BY <1>1, <1>2, UpgradeRecordChange
<1>4. UpgradeTyped' /\ UpgradeOnRecord' /\ UpgradeUntouched'
  BY <1>1, <1>3, UpgradeReturns DEF UpgradeTyped
<1>5. UpgradeRecordsSound'
  BY <1>1, <1>2, UpgradeRecordsGo DEF Upgrade!Removed
<1>6. UpgradeSaved'
  BY <1>1, <1>3, UpgradeIdle DEF UpgradeSaved, Upgrade!NothingIsLost, Upgrade!Pending, Upgrade!Removed,
     Upgrade!Answer
<1>7. Upgrade!ReceiptTrue /\ Upgrade!KeepsOwn
  BY <1>1, <1>3 DEF Upgrade!ReceiptTrue, Upgrade!Receives, Upgrade!KeepsOwn, Upgrade!Pending, Upgrade!Removed
<1> QED
  BY <1>4, <1>5, <1>6, <1>7 DEF UpgradeGoal

(* The failing apply looks at its targets and recovers, or gives up. *)
LEMMA UpgradeUndo == ASSUME UpgradeInv, Upgrade!Undo PROVE UpgradeGoal
<1> USE DEF UpgradeInv
<1> DEFINE todo == {f \in Upgrade!Targets(p.r) : disk[f] = "new"}
<1>1. /\ p.pc = "undo" /\ p.r \in DOMAIN records /\ UNCHANGED <<disk, records>> /\ p \in UpgradeCalls
      /\ touched' = {} /\ Upgrade!Pending(p.r)
      /\ IF Upgrade!Recoverable(p.r) THEN p' = [p EXCEPT !.pc = "recover", !.todo = todo]
         ELSE Upgrade!Answer
  BY DEF Upgrade!Undo, UpgradeOnRecord, UpgradeTyped, Upgrade!Answer
<1>2. Upgrade!KeepsOwn /\ Upgrade!ReceiptTrue
  BY <1>1 DEF Upgrade!KeepsOwn, Upgrade!ReceiptTrue, Upgrade!Receives
<1>3. CASE Upgrade!Recoverable(p.r)
  <2>1. todo \in SUBSET Upgrade!File /\ todo \subseteq Upgrade!Targets(p.r)
    BY <1>1, UpgradeTargets
  <2>2. p'.pc = "recover" /\ p'.r = p.r /\ p'.todo = todo /\ p' \in UpgradeCalls
    BY <1>1, <1>3, <2>1 DEF UpgradeCalls, UpgradePc
  <2>3. UpgradeTyped' /\ UpgradeOnRecord'
    BY <1>1, <2>1, <2>2 DEF UpgradeTyped, UpgradeOnRecord, Upgrade!Pending, Upgrade!Targets
  <2>4. UpgradeUntouched'
    BY <1>1, <1>3, <2>2 DEF UpgradeUntouched, Upgrade!Targets, Upgrade!Recoverable, Upgrade!Foreign
  <2>5. UpgradeSaved'
    BY <1>1, <2>2 DEF UpgradeSaved, Upgrade!NothingIsLost, Upgrade!Pending
  <2> QED
    BY <1>1, <1>2, <2>3, <2>4, <2>5, UpgradeRecordsKept DEF UpgradeGoal
<1>4. CASE ~Upgrade!Recoverable(p.r)
  <2>1. Upgrade!Answer
    BY <1>1, <1>4
  <2>2. UpgradeTyped' /\ UpgradeOnRecord' /\ UpgradeUntouched'
    BY <1>1, <2>1, UpgradeReturns DEF UpgradeTyped
  <2>3. UpgradeSaved'
    BY <1>1, <2>1, UpgradeIdle DEF UpgradeSaved, Upgrade!NothingIsLost, Upgrade!Pending, Upgrade!Answer
  <2> QED
    BY <1>1, <1>2, <2>2, <2>3, UpgradeRecordsKept DEF UpgradeGoal
<1> QED
  BY <1>3, <1>4

(* The receipts: what nobody edited is as the receipt says. *)
LEMMA UpgradeCommits == ASSUME UpgradeInv, Upgrade!Commit PROVE UpgradeGoal
<1> USE DEF UpgradeInv
<1> DEFINE new == [records[p.r] EXCEPT !.receipt = @ \cup {"commit"}]
<1>1. /\ p.pc = "write" /\ p.todo = {} /\ p.r \in DOMAIN records /\ Upgrade!Pending(p.r)
      /\ UNCHANGED <<disk, touched>> /\ Upgrade!Answer
      /\ records[p.r] \in Upgrade!Record /\ records' = [records EXCEPT ![p.r] = new]
  BY DEF Upgrade!Commit, Upgrade!MayCommit, UpgradeOnRecord, UpgradeTyped
<1>2. new \in Upgrade!Record /\ new.receipt = {"commit"} /\ new.rolledBack = records[p.r].rolledBack
      /\ new.before = records[p.r].before
  BY <1>1 DEF Upgrade!Record, Upgrade!Pending
<1>3. /\ records' \in Seq(Upgrade!Record) /\ Len(records') = Len(records)
      /\ DOMAIN records' = DOMAIN records /\ records'[p.r] = new
      /\ \A q \in DOMAIN records : q # p.r => records'[q] = records[q]
  BY <1>1, <1>2, UpgradeRecordChange
<1>4. UpgradeTyped' /\ UpgradeOnRecord' /\ UpgradeUntouched'
  BY <1>1, <1>3, UpgradeReturns DEF UpgradeTyped
<1>5. UpgradeRecordsSound'
  <2>1. Upgrade!Allocated.receipt = {} /\ new.receipt # {}
    BY <1>2 DEF Upgrade!Allocated, Upgrade!Removed
  <2> QED
    BY <1>1, <1>2, <2>1, UpgradeRecordsGo
<1>6. UpgradeSaved'
  BY <1>1, <1>2, <1>3, UpgradeIdle DEF UpgradeSaved, Upgrade!NothingIsLost, Upgrade!Pending, Upgrade!Answer
<1>7. Upgrade!ReceiptTrue
  <2>1. \A f \in Upgrade!Targets(p.r) \ touched : disk[f] = "new"
    BY <1>1 DEF UpgradeUntouched
  <2>2. ~Upgrade!Receives(p.r, "recovery")
    BY <1>2, <1>3 DEF Upgrade!Receives
  <2>3. \A q \in DOMAIN records : q # p.r => records'[q] = records[q]
    BY <1>3
  <2> QED
    BY <1>2, <1>3, <2>1, <2>2, <2>3 DEF Upgrade!ReceiptTrue, Upgrade!Receives
<1> QED
  BY <1>1, <1>4, <1>5, <1>6, <1>7 DEF UpgradeGoal, Upgrade!KeepsOwn

(* The recovery receipt: every target has its old bytes again when it is   *)
(* written.                                                                *)
LEMMA UpgradeRecovered == ASSUME UpgradeInv, Upgrade!Recovery PROVE UpgradeGoal
<1> USE DEF UpgradeInv
<1> DEFINE new == [records[p.r] EXCEPT !.receipt = @ \cup {"recovery"}]
<1>1. /\ p.pc = "recover" /\ p.todo = {} /\ p.r \in DOMAIN records /\ Upgrade!Pending(p.r)
      /\ UNCHANGED <<disk, touched>> /\ Upgrade!Answer /\ records[p.r] \in Upgrade!Record
      /\ records' = [records EXCEPT ![p.r] = new] \/ UNCHANGED records
  BY DEF Upgrade!Recovery, UpgradeOnRecord, UpgradeTyped
<1>2. Upgrade!KeepsOwn
  BY <1>1 DEF Upgrade!KeepsOwn
<1>3. CASE records' = [records EXCEPT ![p.r] = new]
  <2>2. new \in Upgrade!Record /\ new.receipt = {"recovery"} /\ new.rolledBack = records[p.r].rolledBack
        /\ new.before = records[p.r].before
    BY <1>1 DEF Upgrade!Record, Upgrade!Pending
  <2>3. /\ records' \in Seq(Upgrade!Record) /\ Len(records') = Len(records)
        /\ DOMAIN records' = DOMAIN records /\ records'[p.r] = new
        /\ \A q \in DOMAIN records : q # p.r => records'[q] = records[q]
    BY <1>1, <1>3, <2>2, UpgradeRecordChange
  <2>4. UpgradeTyped' /\ UpgradeOnRecord' /\ UpgradeUntouched'
    BY <1>1, <2>3, UpgradeReturns DEF UpgradeTyped
  <2>5. UpgradeRecordsSound'
    <3>1. Upgrade!Allocated.receipt = {} /\ new.receipt # {}
      BY <2>2 DEF Upgrade!Allocated, Upgrade!Removed
    <3> QED
      BY <1>1, <1>3, <2>2, <3>1, UpgradeRecordsGo
  <2>6. UpgradeSaved'
    BY <1>1, <2>2, <2>3, UpgradeIdle DEF UpgradeSaved, Upgrade!NothingIsLost, Upgrade!Pending, Upgrade!Answer
  <2>7. Upgrade!ReceiptTrue
    <3>1. \A f \in Upgrade!Targets(p.r) \ touched : disk[f] = records[p.r].before[f]
      BY <1>1 DEF UpgradeUntouched
    <3>2. ~Upgrade!Receives(p.r, "commit")
      BY <2>2, <2>3 DEF Upgrade!Receives
    <3>3. \A q \in DOMAIN records : q # p.r => records'[q] = records[q]
      BY <2>3
    <3> QED
      BY <2>2, <2>3, <3>1, <3>2, <3>3 DEF Upgrade!ReceiptTrue, Upgrade!Receives
  <2> QED
    BY <1>2, <2>4, <2>5, <2>6, <2>7 DEF UpgradeGoal
<1>4. CASE UNCHANGED records
  <2>1. UpgradeTyped' /\ UpgradeOnRecord' /\ UpgradeUntouched'
    BY <1>1, <1>4, UpgradeReturns DEF UpgradeTyped
  <2>2. UpgradeSaved'
    BY <1>1, <1>4, UpgradeIdle DEF UpgradeSaved, Upgrade!NothingIsLost, Upgrade!Pending, Upgrade!Answer
  <2>3. Upgrade!ReceiptTrue
    BY <1>4 DEF Upgrade!ReceiptTrue, Upgrade!Receives
  <2> QED
    BY <1>2, <1>4, <2>1, <2>2, <2>3, UpgradeRecordsKept DEF UpgradeGoal
<1> QED
  BY <1>1, <1>3, <1>4

(* A target gets its bytes back: those of the upgrade, or edited ones. *)
LEMMA UpgradeGivesBack ==
  ASSUME UpgradeInv, p.pc \in {"recover", "rollback"}, p.todo # {}, UNCHANGED records,
         disk' = [disk EXCEPT ![Upgrade!Highest(p.todo)] = records[p.r].before[Upgrade!Highest(p.todo)]],
         touched' = touched \ {Upgrade!Highest(p.todo)},
         p' = [p EXCEPT !.todo = @ \ {Upgrade!Highest(p.todo)}]
  PROVE  UpgradeGoal
<1> USE DEF UpgradeInv
<1> DEFINE r == p.r
           f == Upgrade!Highest(p.todo)
<1>1. /\ r \in DOMAIN records /\ p \in UpgradeCalls /\ p.todo \subseteq Upgrade!Targets(r)
      /\ disk \in [Upgrade!File -> Upgrade!Bytes]
  BY DEF UpgradeOnRecord, UpgradeTyped
<1>2. f \in p.todo /\ f \in Upgrade!File /\ f \in Upgrade!Targets(r)
  BY <1>1, UpgradeNext DEF UpgradeCalls
<1>3. records[r].before[f] \in {"absent", "stock"}
  BY <1>1, <1>2, UpgradeTargets
<1>4. disk'[f] = records[r].before[f] /\ \A g \in Upgrade!File : g # f => disk'[g] = disk[g]
  BY <1>1, <1>2
<1>5. p'.pc = p.pc /\ p'.r = r /\ p'.todo = p.todo \ {f} /\ p' \in UpgradeCalls
  BY <1>1 DEF UpgradeCalls
<1>6. UpgradeTyped'
  BY <1>1, <1>3, <1>5 DEF UpgradeTyped, Upgrade!Bytes
<1>7. UpgradeOnRecord'
  BY <1>1, <1>5 DEF UpgradeOnRecord, Upgrade!Pending, Upgrade!Committed, Upgrade!Targets
<1>8. UpgradeUntouched'
  <2>1. ASSUME NEW g \in Upgrade!Targets(r) \ touched'
        PROVE  disk'[g] = IF g \notin p'.todo THEN records[r].before[g] ELSE "new"
    <3>1. g \in Upgrade!File /\ (g # f => g \notin touched)
      BY <1>1, UpgradeTargets
    <3>2. g # f => disk[g] = IF g \notin p.todo THEN records[r].before[g] ELSE "new"
      BY <1>1, <3>1 DEF UpgradeUntouched
    <3> QED
      BY <1>2, <1>4, <1>5, <3>1, <3>2
  <2>2. Upgrade!Targets(p.r)' = Upgrade!Targets(r) /\ records'[p'.r].before = records[r].before
    BY <1>5 DEF Upgrade!Targets
  <2> QED
    BY <1>5, <2>1, <2>2 DEF UpgradeUntouched
<1>9. UpgradeSaved'
  <2>1. \A g \in Upgrade!File : disk'[g] = "new" => disk[g] = "new"
    BY <1>3, <1>4
  <2>2. \A q \in DOMAIN records : Upgrade!Stock(records[q].before) \subseteq Upgrade!File
    BY UpgradeTargets
  <2> QED
    BY <1>5, <2>1, <2>2 DEF UpgradeSaved, Upgrade!NothingIsLost, Upgrade!Pending, Upgrade!Targets
<1>10. Upgrade!KeepsOwn
  <2>1. f \notin touched => disk[f] # "own"
    BY <1>2 DEF UpgradeUntouched
  <2> QED
    BY <1>4, <2>1 DEF Upgrade!KeepsOwn
<1>11. Upgrade!ReceiptTrue
  BY DEF Upgrade!ReceiptTrue, Upgrade!Receives
<1> QED
  BY <1>6, <1>7, <1>8, <1>9, <1>10, <1>11, UpgradeRecordsKept DEF UpgradeGoal

(* Rollbacks. *)
LEMMA UpgradeRollbackBegins ==
  ASSUME UpgradeInv, NEW r \in DOMAIN records, Upgrade!RollbackBegins(r)
  PROVE  UpgradeGoal
<1> USE DEF UpgradeInv
<1> DEFINE todo == Upgrade!Targets(r)
<1>1. /\ p.pc = "idle" /\ Upgrade!Committed(r) /\ UNCHANGED <<disk, records>> /\ touched' = {}
      /\ p' = [Upgrade!Idle EXCEPT !.pc = "rollback", !.r = r, !.todo = todo]
      /\ \A f \in Upgrade!Targets(r) : disk[f] = "new"
  BY DEF Upgrade!RollbackBegins, Upgrade!Begin, Upgrade!Untouched
<1>2. p' = [pc |-> "rollback", r |-> r, todo |-> todo, found |-> Upgrade!NoBytes]
  BY <1>1 DEF Upgrade!Idle
<1>3. todo \in SUBSET Upgrade!File /\ r \in 0 .. UpgradeRecords /\ r <= Len(records)
  BY UpgradeTargets, UpgradeAssumption DEF UpgradeTyped
<1>4. p' \in UpgradeCalls
  BY <1>2, <1>3, UpgradeNoBytes DEF UpgradeCalls, UpgradePc
<1>5. UpgradeTyped'
  BY <1>1, <1>2, <1>3, <1>4 DEF UpgradeTyped
<1>6. UpgradeOnRecord'
  BY <1>1, <1>2 DEF UpgradeOnRecord, Upgrade!Committed, Upgrade!Targets
<1>7. UpgradeUntouched'
  BY <1>1, <1>2 DEF UpgradeUntouched, Upgrade!Targets
<1>8. UpgradeSaved'
  <2>1. ASSUME NEW q \in DOMAIN records, Upgrade!Pending(q)
        PROVE  Upgrade!Stock(records[q].before) \cap Upgrade!Targets(r) \subseteq records[q].backups
    BY <1>1, <2>1 DEF UpgradeSaved, Upgrade!NothingIsLost
  <2> QED
    BY <1>1, <1>2, <2>1 DEF UpgradeSaved, Upgrade!NothingIsLost, Upgrade!Pending, Upgrade!Targets
<1>9. Upgrade!KeepsOwn /\ Upgrade!ReceiptTrue
  BY <1>1 DEF Upgrade!KeepsOwn, Upgrade!ReceiptTrue, Upgrade!Receives
<1> QED
  BY <1>1, <1>5, <1>6, <1>7, <1>8, <1>9, UpgradeRecordsKept DEF UpgradeGoal

(* The rollback receipt: a committed upgrade whose targets are all         *)
(* restored.                                                               *)
LEMMA UpgradeRolledBack == ASSUME UpgradeInv, Upgrade!RollbackReceipt PROVE UpgradeGoal
<1> USE DEF UpgradeInv
<1> DEFINE new == [records[p.r] EXCEPT !.rolledBack = TRUE]
<1>1. /\ p.pc = "rollback" /\ p.todo = {} /\ p.r \in DOMAIN records /\ records[p.r].receipt = {"commit"}
      /\ UNCHANGED <<disk, touched>> /\ Upgrade!Answer
      /\ records[p.r] \in Upgrade!Record /\ records' = [records EXCEPT ![p.r] = new]
  BY DEF Upgrade!RollbackReceipt, Upgrade!Committed, UpgradeOnRecord, UpgradeTyped
<1>2. new \in Upgrade!Record /\ new.receipt = {"commit"} /\ new.before = records[p.r].before
  BY <1>1 DEF Upgrade!Record
<1>3. /\ records' \in Seq(Upgrade!Record) /\ Len(records') = Len(records)
      /\ DOMAIN records' = DOMAIN records /\ records'[p.r] = new
      /\ \A q \in DOMAIN records : q # p.r => records'[q] = records[q]
  BY <1>1, <1>2, UpgradeRecordChange
<1>4. UpgradeTyped' /\ UpgradeOnRecord' /\ UpgradeUntouched'
  BY <1>1, <1>3, UpgradeReturns DEF UpgradeTyped
<1>5. UpgradeRecordsSound'
  <2>1. Upgrade!Allocated.receipt = {} /\ new.receipt # {}
    BY <1>2 DEF Upgrade!Allocated, Upgrade!Removed
  <2> QED
    BY <1>1, <1>2, <2>1, UpgradeRecordsGo
<1>6. UpgradeSaved'
  BY <1>1, <1>2, <1>3, UpgradeIdle DEF UpgradeSaved, Upgrade!NothingIsLost, Upgrade!Pending, Upgrade!Answer
<1>7. Upgrade!ReceiptTrue
  <2>1. \A f \in Upgrade!Targets(p.r) \ touched : disk[f] = records[p.r].before[f]
    BY <1>1 DEF UpgradeUntouched
  <2>2. ~Upgrade!Pending(p.r) /\ \A q \in DOMAIN records : q # p.r => records'[q] = records[q]
    BY <1>1, <1>3 DEF Upgrade!Pending
  <2> QED
    BY <1>2, <1>3, <2>1, <2>2 DEF Upgrade!ReceiptTrue, Upgrade!Receives
<1> QED
  BY <1>1, <1>4, <1>5, <1>6, <1>7 DEF UpgradeGoal, Upgrade!KeepsOwn

(* A rollback that fails half way puts the new bytes back over what it had *)
(* restored.                                                               *)
LEMMA UpgradeRollbackFails == ASSUME UpgradeInv, Upgrade!RollbackFails PROVE UpgradeGoal
<1> USE DEF UpgradeInv
<1> DEFINE back == Upgrade!Targets(p.r) \ p.todo
<1>1. /\ p.pc = "rollback" /\ p.r \in DOMAIN records /\ UNCHANGED records /\ Upgrade!Answer
      /\ disk' = [f \in Upgrade!File |-> IF f \in back THEN "new" ELSE disk[f]]
      /\ touched' = touched \cap (Upgrade!File \ back) /\ disk \in [Upgrade!File -> Upgrade!Bytes]
  BY DEF Upgrade!RollbackFails, UpgradeOnRecord, UpgradeTyped
<1>2. disk' \in [Upgrade!File -> Upgrade!Bytes] /\ touched' \in SUBSET Upgrade!File
  BY <1>1 DEF Upgrade!Bytes
<1>3. UpgradeTyped' /\ UpgradeOnRecord' /\ UpgradeUntouched'
  BY <1>1, <1>2, UpgradeReturns DEF UpgradeTyped
<1>4. UpgradeSaved'
  <2>1. \A f \in Upgrade!File : disk'[f] = "new" => disk[f] = "new" \/ f \in Upgrade!Targets(p.r)
    BY <1>1
  <2>2. \A q \in DOMAIN records : Upgrade!Stock(records[q].before) \subseteq Upgrade!File
    BY UpgradeTargets
  <2> QED
    BY <1>1, <2>1, <2>2, UpgradeIdle DEF UpgradeSaved, Upgrade!NothingIsLost, Upgrade!Pending, Upgrade!Answer
<1>5. Upgrade!KeepsOwn
  <2>1. \A f \in back \ touched : disk[f] # "own"
    BY <1>1, UpgradeTargets DEF UpgradeUntouched
  <2> QED
    BY <1>1, <2>1 DEF Upgrade!KeepsOwn
<1>6. Upgrade!ReceiptTrue
  BY <1>1 DEF Upgrade!ReceiptTrue, Upgrade!Receives
<1> QED
  BY <1>1, <1>3, <1>4, <1>5, <1>6, UpgradeRecordsKept DEF UpgradeGoal

(* A process that dies keeps nothing; the disk and the records stay.       *)
LEMMA UpgradeCrashes == ASSUME UpgradeInv, Upgrade!Crash PROVE UpgradeGoal
<1> USE DEF UpgradeInv
<1>1. Upgrade!Answer /\ UNCHANGED <<disk, records, touched>>
  BY DEF Upgrade!Crash
<1>2. UpgradeTyped' /\ UpgradeOnRecord' /\ UpgradeUntouched'
  BY <1>1, UpgradeReturns DEF UpgradeTyped
<1>3. UpgradeSaved'
  BY <1>1, UpgradeIdle DEF UpgradeSaved, Upgrade!NothingIsLost, Upgrade!Pending, Upgrade!Answer
<1>4. Upgrade!KeepsOwn /\ Upgrade!ReceiptTrue
  BY <1>1 DEF Upgrade!KeepsOwn, Upgrade!ReceiptTrue, Upgrade!Receives
<1> QED
  BY <1>1, <1>2, <1>3, <1>4, UpgradeRecordsKept DEF UpgradeGoal

(* Somebody edits a file: nothing is claimed of it any more. *)
LEMMA UpgradeEdited ==
  ASSUME UpgradeInv, NEW f \in Upgrade!File, NEW bytes \in {"absent", "stock", "own"}, Upgrade!Edit(f, bytes)
  PROVE  UpgradeGoal
<1> USE DEF UpgradeInv
<1>1. /\ disk' = [disk EXCEPT ![f] = bytes] /\ touched' = touched \cup {f} /\ UNCHANGED <<records, p>>
      /\ disk \in [Upgrade!File -> Upgrade!Bytes]
  BY DEF Upgrade!Edit, UpgradeTyped
<1>2. disk'[f] = bytes /\ \A g \in Upgrade!File : g # f => disk'[g] = disk[g]
  BY <1>1
<1>3. UpgradeTyped' /\ UpgradeOnRecord'
  BY <1>1 DEF UpgradeTyped, UpgradeOnRecord, Upgrade!Bytes, Upgrade!Pending, Upgrade!Committed,
     Upgrade!Targets, Upgrade!Incomplete, Upgrade!Empty
<1>4. UpgradeUntouched'
  <2>1. DOMAIN p.found \subseteq Upgrade!File
    <3>1. PICK F \in SUBSET Upgrade!File : p.found \in [F -> {"absent", "stock"}]
      BY DEF UpgradeTyped, UpgradeCalls, Before
    <3> QED
      BY <3>1
  <2>2. p.pc # "idle" => Upgrade!Targets(p.r) \subseteq Upgrade!File
    BY UpgradeTargets DEF UpgradeOnRecord
  <2>3. Upgrade!Targets(p.r)' = Upgrade!Targets(p.r)
    BY <1>1 DEF Upgrade!Targets
  <2>4. ASSUME p.pc = "prepare", NEW g \in DOMAIN p.found
        PROVE  disk'[g] # "new" /\ (g \notin touched' => disk'[g] = p.found[g])
    BY <1>1, <1>2, <2>1, <2>4 DEF UpgradeUntouched
  <2>5. \A g \in Upgrade!Targets(p.r) \ touched' : p.pc # "idle" => g \notin touched /\ disk'[g] = disk[g]
    BY <1>1, <1>2, <2>2
  <2> QED
    BY <1>1, <2>3, <2>4, <2>5 DEF UpgradeUntouched
<1>5. UpgradeSaved'
  <2>1. \A g \in Upgrade!File : disk'[g] = "new" => disk[g] = "new"
    BY <1>2
  <2>2. \A q \in DOMAIN records : Upgrade!Stock(records[q].before) \subseteq Upgrade!File
    BY UpgradeTargets
  <2> QED
    BY <1>1, <2>1, <2>2 DEF UpgradeSaved, Upgrade!NothingIsLost, Upgrade!Pending, Upgrade!Targets
<1>6. Upgrade!KeepsOwn /\ Upgrade!ReceiptTrue
  BY <1>1, <1>2 DEF Upgrade!KeepsOwn, Upgrade!ReceiptTrue, Upgrade!Receives
<1> QED
  BY <1>1, <1>3, <1>4, <1>5, <1>6, UpgradeRecordsKept DEF UpgradeGoal

(* Upgrades keep their invariant, own bytes, and true receipts. *)
LEMMA UpgradeSteps == ASSUME UpgradeInv, Upgrade!Next PROVE UpgradeGoal
<1>1. Upgrade!Recover \/ Upgrade!Rollback => UpgradeGoal
  BY UpgradeGivesBack DEF Upgrade!Recover, Upgrade!Rollback
<1>2. Upgrade!Apply => UpgradeGoal
  BY <1>1, UpgradeApplyRecovers, UpgradeApplyBegins, UpgradeOpenTemporary, UpgradeWriteManifest, UpgradeBackup,
     UpgradeWriteTarget, UpgradeCheckTarget, UpgradeUndo, UpgradeCommits, UpgradeRecovered DEF Upgrade!Apply
<1> QED
  BY <1>1, <1>2, UpgradeFails, UpgradeFailsEarly, UpgradeCrashes, UpgradeRollbackBegins, UpgradeRolledBack,
     UpgradeRollbackFails, UpgradeEdited DEF Upgrade!Next

(* What the invariant is for. *)
LEMMA UpgradeIsSafe == UpgradeInv => Upgrade!TypeOK /\ Upgrade!NothingIsLost /\ Upgrade!OneAtATime
<1> SUFFICES ASSUME UpgradeInv PROVE Upgrade!TypeOK /\ Upgrade!NothingIsLost /\ Upgrade!OneAtATime
  OBVIOUS
<1> USE DEF UpgradeInv
<1>1. Upgrade!TypeOK
  BY DEF UpgradeTyped, UpgradeCalls, Upgrade!TypeOK
<1>2. ASSUME NEW S, S = {} \/ \E e : S = {e} PROVE Upgrade!Cardinality(S) <= 1
  <2>1. Upgrade!Cardinality(S) = Cardinality(S)
    BY DEF Upgrade!Cardinality, Cardinality
  <2>2. CASE S = {}
    <3>1. Cardinality(S) = 0
      BY <2>2, FS_EmptySet
    <3> QED
      BY <2>1, <3>1
  <2>3. CASE \E e : S = {e}
    <3>1. PICK e : S = {e}
      BY <2>3
    <3>2. Cardinality({e}) = 1
      BY FS_Singleton
    <3> QED
      BY <2>1, <3>1, <3>2
  <2> QED
    BY <1>2, <2>2, <2>3
<1>3. Upgrade!Incomplete = {} \/ \E r : Upgrade!Incomplete = {r}
  <2>1. ASSUME NEW r \in Upgrade!Incomplete PROVE Upgrade!Incomplete = {r}
    BY DEF UpgradeRecordsSound
  <2> QED
    BY <2>1
<1>4. Upgrade!OneAtATime
  <2>1. Upgrade!Cardinality(Upgrade!Incomplete) <= 1
    BY <1>2, <1>3
  <2>2. ASSUME NEW r \in DOMAIN records PROVE Upgrade!Cardinality(records[r].receipt) <= 1
    <3>1. records[r].receipt = {} \/ \E e : records[r].receipt = {e}
      BY DEF UpgradeRecordsSound
    <3> QED
      BY <1>2, <3>1
  <2> QED
    BY <2>1, <2>2 DEF Upgrade!OneAtATime
<1> QED
  BY <1>1, <1>4 DEF UpgradeSaved

-----------------------------------------------------------------------------
(* The two declarations, by the same module: the pack lock with a guard    *)
(* file, the declaration of stores without one.                            *)
FileOf(W) == {[is |-> "missing", entries |-> {}]}
             \cup {[is |-> "file", entries |-> E] : E \in SUBSET W}
PartOf(W) == FileOf(W) \cup {[is |-> "partial", entries |-> {}]}

LocksTyped ==
  /\ file \in FileOf(LockWriter) /\ guard \in LockWriter \cup {0} /\ done \subseteq LockWriter
  /\ p \in [LockWriter -> [pc : {"idle", "lock", "check", "temporary", "replace"},
                           read : FileOf(LockWriter)]]
  /\ edited \in BOOLEAN /\ trouble \in 0 .. Troubles

(* Whoever has compared holds the guard, and what it compared with is      *)
(* still there.                                                            *)
LocksGuard ==
  \A w \in LockWriter :
    /\ p[w].pc \in {"check", "temporary", "replace"} => guard = w
    /\ p[w].pc \in {"temporary", "replace"} /\ ~edited => file = p[w].read

LocksInv == LocksTyped /\ LocksGuard /\ Locks!NothingLost

StoresTyped ==
  /\ file \in PartOf(StoreWriter) /\ guard \in StoreWriter \cup {0} /\ done \subseteq StoreWriter
  /\ p \in [StoreWriter -> [pc : {"idle", "check", "fill", "temporary", "replace", "reload"},
                            read : FileOf(StoreWriter)]]
  /\ racers \in [StoreWriter -> SUBSET StoreWriter]
  /\ edited \in BOOLEAN /\ trouble \in 0 .. FewTroubles

(* The file is created once: until it holds something, nobody has compared *)
(* with anything but its absence, and one at most is filling it.           *)
StoresMade ==
  ~edited =>
    /\ file.is \in {"missing", "partial"} => \A w \in StoreWriter : p[w].pc \in {"idle", "check", "fill"}
    /\ \A v, w \in StoreWriter : p[v].pc = "fill" => file.is = "partial" /\ (p[w].pc = "fill" => v = w)

(* An entry that somebody is about to write over has appeared while it was *)
(* about to.                                                               *)
StoresRaces ==
  ~edited => \A v \in StoreWriter : p[v].pc = "replace" =>
    \A w \in file.entries \ p[v].read.entries : v \in racers[w]

StoresInv == StoresTyped /\ StoresMade /\ StoresRaces

(* A process stops: it holds the guard no longer. *)
LEMMA LocksStop ==
  ASSUME LocksInv, NEW w \in LockWriter, Locks!Stop(w), UNCHANGED <<file, done, edited>>,
         trouble' \in 0 .. Troubles
  PROVE  LocksInv'
<1> USE DEF LocksInv
<1>1. p' = [p EXCEPT ![w] = [pc |-> "idle", read |-> [is |-> "missing", entries |-> {}]]]
      /\ guard' = IF guard = w THEN 0 ELSE guard
  BY DEF Locks!Stop, Locks!Idle, Locks!NoFile, Locks!Nobody
<1>2. LocksTyped'
  BY <1>1 DEF LocksTyped, FileOf
<1>3. LocksGuard'
  BY <1>1 DEF LocksTyped, LocksGuard
<1> QED
  BY <1>2, <1>3 DEF Locks!NothingLost

(* A process goes on: it holds the guard before it compares. *)
LEMMA LocksGo ==
  ASSUME LocksInv, NEW w \in LockWriter, NEW pc \in {"check", "temporary", "replace"}, Locks!Go(w, pc),
         UNCHANGED <<file, done, edited, trouble>>, guard' = w, guard \in {0, w},
         pc = "check" \/ (pc \in {"temporary", "replace"} /\ (~edited => file = p[w].read))
  PROVE  LocksInv'
<1> USE DEF LocksInv
<1>1. p' = [p EXCEPT ![w] = [@ EXCEPT !.pc = pc]]
  BY DEF Locks!Go
<1>2. LocksTyped'
  BY <1>1 DEF LocksTyped
<1>3. LocksGuard'
  <2> SUFFICES ASSUME NEW v \in LockWriter
               PROVE  /\ p'[v].pc \in {"check", "temporary", "replace"} => guard' = v
                      /\ p'[v].pc \in {"temporary", "replace"} /\ ~edited' => file' = p'[v].read
    BY DEF LocksGuard
  <2>1. CASE v = w
    BY <1>1, <2>1 DEF LocksTyped, LocksGuard
  <2>2. CASE v # w
    <3>1. p'[v] = p[v]
      BY <1>1, <2>2 DEF LocksTyped
    <3>2. p[v].pc \notin {"check", "temporary", "replace"}
      BY <2>2, WriterAssumption DEF LocksGuard
    <3> QED
      BY <3>1, <3>2
  <2> QED
    BY <2>1, <2>2
<1> QED
  BY <1>2, <1>3 DEF Locks!NothingLost

(* write_pack_lock keeps the invariant. *)
LEMMA LocksSteps == ASSUME LocksInv, Locks!Next PROVE LocksInv'
<1> USE DEF LocksInv
<1>1. ASSUME NEW w \in LockWriter, Locks!Read(w) PROVE LocksInv'
  <2>1. /\ p' = [p EXCEPT ![w] = [pc |-> "lock", read |-> file]]
        /\ UNCHANGED <<file, guard, done, edited, trouble>>
    BY <1>1 DEF Locks!Read
  <2>2. LocksTyped'
    BY <2>1 DEF LocksTyped
  <2>3. LocksGuard'
    BY <2>1 DEF LocksTyped, LocksGuard
  <2> QED
    BY <2>1, <2>2, <2>3 DEF Locks!NothingLost
<1>2. ASSUME NEW w \in LockWriter, Locks!Lock(w) PROVE LocksInv'
  BY <1>2, LocksGo DEF Locks!Lock, Locks!Takes, Locks!Nobody
<1>3. ASSUME NEW w \in LockWriter, Locks!Check(w) PROVE LocksInv'
  <2>1. guard = w /\ p[w].pc = "check" /\ trouble' \in 0 .. Troubles /\ UNCHANGED <<file, done, edited, trouble>>
    BY <1>3 DEF Locks!Check, LocksGuard, LocksTyped
  <2>2. CASE Locks!Stop(w)
    BY <2>1, <2>2, LocksStop
  <2>3. CASE Locks!Go(w, "temporary") /\ UNCHANGED guard /\ Locks!Same(w)
    BY <2>1, <2>3, LocksGo DEF Locks!Same
  <2> QED
    BY <1>3, <2>2, <2>3 DEF Locks!Check
<1>4. ASSUME NEW w \in LockWriter, Locks!Fill(w) PROVE LocksInv'
  BY <1>4 DEF Locks!Fill, LocksTyped
<1>5. ASSUME NEW w \in LockWriter, Locks!Temporary(w) PROVE LocksInv'
  <2>1. guard = w /\ Locks!Go(w, "replace") /\ UNCHANGED <<guard, file, done, edited, trouble>>
        /\ (~edited => file = p[w].read)
    BY <1>5 DEF Locks!Temporary, Locks!ComparesAgain, LocksGuard
  <2> QED
    BY <2>1, LocksGo
<1>6. ASSUME NEW w \in LockWriter, Locks!Replace(w) PROVE LocksInv'
  <2>1. /\ file' = [is |-> "file", entries |-> p[w].read.entries \cup {w}] /\ guard = w /\ done' = done \cup {w}
        /\ p' = [p EXCEPT ![w] = [pc |-> "idle", read |-> [is |-> "missing", entries |-> {}]]]
        /\ guard' = 0 /\ UNCHANGED <<edited, trouble>> /\ (~edited => file = p[w].read)
    BY <1>6, WriterAssumption
       DEF Locks!Replace, Locks!Stop, Locks!Idle, Locks!NoFile, Locks!Nobody, Locks!Holds, LocksGuard
  <2>2. p[w].read \in FileOf(LockWriter) /\ p[w].read.entries \subseteq LockWriter
    BY DEF LocksTyped, FileOf
  <2>3. LocksTyped'
    <3>1. file' \in FileOf(LockWriter)
      BY <2>1, <2>2 DEF FileOf
    <3>2. p' \in [LockWriter -> [pc : {"idle", "lock", "check", "temporary", "replace"}, read : FileOf(LockWriter)]]
      BY <2>1 DEF LocksTyped, FileOf
    <3> QED
      BY <2>1, <3>1, <3>2 DEF LocksTyped
  <2>4. LocksGuard'
    BY <2>1, WriterAssumption DEF LocksTyped, LocksGuard
  <2> QED
    BY <2>1, <2>3, <2>4 DEF Locks!NothingLost
<1>7. ASSUME NEW w \in LockWriter, Locks!Reload(w) PROVE LocksInv'
  BY <1>7 DEF Locks!Reload, LocksTyped
<1>8. ASSUME NEW w \in LockWriter, Locks!Crash(w) PROVE LocksInv'
  <2>1. trouble' \in 0 .. Troubles
    BY <1>8, BoundsAssumption DEF Locks!Crash, Locks!Trouble, LocksTyped
  <2> QED
    BY <1>8, <2>1, LocksStop DEF Locks!Crash
<1>9. ASSUME Locks!Edit PROVE LocksInv'
  <2>1. /\ \E entries \in SUBSET file.entries :
             file' = [is |-> "missing", entries |-> {}] \/ file' = [is |-> "file", entries |-> entries]
        /\ edited' = TRUE /\ trouble' = trouble + 1 /\ trouble < Troubles /\ UNCHANGED <<guard, p, done>>
    BY <1>9 DEF Locks!Edit, Locks!NoFile, Locks!Holds, Locks!Trouble
  <2>2. file.entries \subseteq LockWriter
    BY DEF LocksTyped, FileOf
  <2>3. file' \in FileOf(LockWriter)
    BY <2>1, <2>2 DEF FileOf
  <2>4. LocksTyped'
    BY <2>1, <2>3, BoundsAssumption DEF LocksTyped
  <2> QED
    BY <2>1, <2>4 DEF LocksGuard, Locks!NothingLost
<1> QED
  BY <1>1, <1>2, <1>3, <1>4, <1>5, <1>6, <1>7, <1>8, <1>9 DEF Locks!Next, Locks!Goes

(* Before the first writer. *)
LEMMA LocksStarts == Locks!Init => LocksInv
<1> SUFFICES ASSUME Locks!Init PROVE LocksInv
  OBVIOUS
<1>1. file \in FileOf(LockWriter)
  BY DEF Locks!Init, Locks!NoFile, Locks!Holds, FileOf
<1>2. LocksTyped
  <2>1. [is |-> "missing", entries |-> {}] \in FileOf(LockWriter) /\ 0 \in 0 .. Troubles
    BY BoundsAssumption DEF FileOf
  <2>2. p = [w \in LockWriter |-> [pc |-> "idle", read |-> [is |-> "missing", entries |-> {}]]]
    BY DEF Locks!Init, Locks!Idle, Locks!NoFile
  <2>3. \A w \in LockWriter : [pc |-> "idle", read |-> [is |-> "missing", entries |-> {}]] \in
          [pc : {"idle", "lock", "check", "temporary", "replace"}, read : FileOf(LockWriter)]
    BY <2>1
  <2>4. edited = FALSE /\ trouble = 0 /\ done = {} /\ guard = 0
    BY DEF Locks!Init, Locks!Nobody
  <2> QED
    BY <1>1, <2>1, <2>2, <2>3, <2>4 DEF LocksTyped
<1> QED
  BY <1>2 DEF Locks!Init, Locks!Idle, LocksInv, LocksGuard, Locks!NothingLost

(* What the invariant is for. *)
LEMMA LocksAreSafe == LocksInv => Locks!TypeOK
<1>1. LocksInv => file.is \in {"missing", "partial", "file"} /\ file.entries \subseteq LockWriter
  BY DEF LocksInv, LocksTyped, FileOf
<1>2. LocksInv => \A w \in LockWriter : p[w].read.entries \subseteq LockWriter
  BY DEF LocksInv, LocksTyped, FileOf
<1> QED
  BY <1>1, <1>2 DEF LocksInv, LocksTyped, Locks!TypeOK, Locks!Nobody

(* A process stops, or goes on to a place where it neither fills nor       *)
(* writes over.                                                            *)
LEMMA StoresStop ==
  ASSUME StoresInv, NEW w \in StoreWriter, Stores!Stop(w), UNCHANGED <<file, edited, racers>>,
         done' \in SUBSET StoreWriter, trouble' \in 0 .. FewTroubles
  PROVE  StoresInv' /\ Stores!LostToARacer
<1> USE DEF StoresInv
<1>1. p' = [p EXCEPT ![w] = [pc |-> "idle", read |-> [is |-> "missing", entries |-> {}]]]
      /\ guard' = IF guard = w THEN 0 ELSE guard
  BY DEF Stores!Stop, Stores!Idle, Stores!NoFile, Stores!Nobody
<1>2. StoresTyped'
  BY <1>1 DEF StoresTyped, FileOf
<1>3. StoresMade' /\ StoresRaces'
  BY <1>1 DEF StoresTyped, StoresMade, StoresRaces
<1> QED
  BY <1>2, <1>3 DEF Stores!LostToARacer

(* register_store keeps the invariant, and loses no entry but to a racer. *)
LEMMA StoresSteps == ASSUME StoresInv, Stores!Next PROVE StoresInv' /\ Stores!LostToARacer
<1> USE DEF StoresInv
<1>1. ASSUME NEW w \in StoreWriter, Stores!Read(w) PROVE StoresInv' /\ Stores!LostToARacer
  <2>1. /\ p' = [p EXCEPT ![w] = [pc |-> "check", read |-> file]] /\ file.is # "partial"
        /\ UNCHANGED <<file, guard, done, edited, racers, trouble>>
    BY <1>1 DEF Stores!Read
  <2>2. file \in FileOf(StoreWriter)
    BY <2>1 DEF StoresTyped, PartOf
  <2>3. StoresTyped'
    BY <2>1, <2>2 DEF StoresTyped
  <2>4. StoresMade' /\ StoresRaces'
    BY <2>1 DEF StoresTyped, StoresMade, StoresRaces
  <2> QED
    BY <2>1, <2>3, <2>4 DEF Stores!LostToARacer
<1>2. ASSUME NEW w \in StoreWriter, Stores!Lock(w) PROVE StoresInv' /\ Stores!LostToARacer
  BY <1>2 DEF Stores!Lock, StoresTyped
<1>3. ASSUME NEW w \in StoreWriter, Stores!Check(w) PROVE StoresInv' /\ Stores!LostToARacer
  <2>1. p[w].pc = "check" /\ UNCHANGED <<done, edited, racers, trouble>>
    BY <1>3 DEF Stores!Check
  <2>2. CASE Stores!Stop(w) /\ UNCHANGED file
    BY <2>1, <2>2, StoresStop DEF StoresTyped
  <2>3. CASE Stores!Same(w) /\ file # Stores!NoFile /\ Stores!Go(w, "temporary") /\ UNCHANGED <<file, guard>>
    <3>1. p' = [p EXCEPT ![w] = [@ EXCEPT !.pc = "temporary"]] /\ file = p[w].read
      BY <2>3 DEF Stores!Go, Stores!Same
    <3>2. file.is = "file"
      <4>1. file \in FileOf(StoreWriter) /\ file # [is |-> "missing", entries |-> {}]
        BY <2>3, <3>1 DEF StoresTyped, Stores!NoFile
      <4> QED
        BY <4>1 DEF FileOf
    <3>3. StoresTyped'
      BY <2>1, <2>3, <3>1 DEF StoresTyped
    <3>4. StoresMade' /\ StoresRaces'
      BY <2>1, <2>3, <3>1, <3>2 DEF StoresTyped, StoresMade, StoresRaces
    <3> QED
      BY <2>3, <3>3, <3>4 DEF Stores!LostToARacer
  <2>4. CASE file = Stores!NoFile /\ file' = Stores!Partial /\ Stores!Go(w, "fill") /\ UNCHANGED guard
    <3>1. /\ p' = [p EXCEPT ![w] = [@ EXCEPT !.pc = "fill"]]
          /\ file = [is |-> "missing", entries |-> {}] /\ file' = [is |-> "partial", entries |-> {}]
      BY <2>4 DEF Stores!Go, Stores!NoFile, Stores!Partial
    <3>2. StoresTyped'
      BY <2>1, <2>4, <3>1 DEF StoresTyped, PartOf
    <3>3. StoresMade' /\ StoresRaces'
      BY <2>1, <3>1 DEF StoresTyped, StoresMade, StoresRaces
    <3> QED
      BY <3>1, <3>2, <3>3 DEF Stores!LostToARacer
  <2> QED
    BY <1>3, <2>2, <2>3, <2>4 DEF Stores!Check
<1>4. ASSUME NEW w \in StoreWriter, Stores!Fill(w) PROVE StoresInv' /\ Stores!LostToARacer
  <2>1. /\ p[w].pc = "fill" /\ file' = [is |-> "file", entries |-> {w}]
        /\ p' = [p EXCEPT ![w] = [@ EXCEPT !.pc = "reload"]]
        /\ racers' = [v \in StoreWriter |-> IF v \in file'.entries \ file.entries
                                            THEN {u \in StoreWriter : p[u].pc = "replace"} ELSE racers[v]]
        /\ UNCHANGED <<guard, done, edited, trouble>>
    BY <1>4 DEF Stores!Fill, Stores!Holds, Stores!Go, Stores!Races
  <2>2. StoresTyped'
    <3>1. file' \in PartOf(StoreWriter)
      BY <2>1 DEF PartOf, FileOf
    <3>2. racers' \in [StoreWriter -> SUBSET StoreWriter]
      BY <2>1 DEF StoresTyped
    <3> QED
      BY <2>1, <3>1, <3>2 DEF StoresTyped
  <2>3. StoresMade'
    BY <2>1 DEF StoresTyped, StoresMade
  <2>4. ~edited => file = [is |-> "partial", entries |-> {}]
    BY <2>1 DEF StoresMade, StoresTyped, PartOf, FileOf
  <2>5. StoresRaces'
    BY <2>1, <2>4 DEF StoresTyped, StoresMade, StoresRaces
  <2>6. Stores!LostToARacer
    BY <2>1, <2>4 DEF Stores!LostToARacer, StoresTyped
  <2> QED
    BY <2>2, <2>3, <2>5, <2>6
<1>5. ASSUME NEW w \in StoreWriter, Stores!Temporary(w) PROVE StoresInv' /\ Stores!LostToARacer
  <2>1. p[w].pc = "temporary" /\ UNCHANGED <<file, done, edited, racers, trouble>>
    BY <1>5 DEF Stores!Temporary
  <2>2. CASE Stores!Stop(w)
    BY <2>1, <2>2, StoresStop DEF StoresTyped
  <2>3. CASE Stores!Same(w) /\ Stores!Go(w, "replace") /\ UNCHANGED guard
    <3>1. p' = [p EXCEPT ![w] = [@ EXCEPT !.pc = "replace"]] /\ file = p[w].read
      BY <2>3 DEF Stores!Go, Stores!Same
    <3>2. StoresTyped'
      BY <2>1, <2>3, <3>1 DEF StoresTyped
    <3>3. StoresMade'
      BY <2>1, <3>1 DEF StoresTyped, StoresMade
    <3>4. StoresRaces'
      BY <2>1, <3>1 DEF StoresTyped, StoresRaces
    <3> QED
      BY <2>1, <3>2, <3>3, <3>4 DEF Stores!LostToARacer
  <2> QED
    BY <1>5, <2>2, <2>3 DEF Stores!Temporary, Stores!ComparesAgain
<1>6. ASSUME NEW w \in StoreWriter, Stores!Replace(w) PROVE StoresInv' /\ Stores!LostToARacer
  <2>1. /\ p[w].pc = "replace" /\ file' = [is |-> "file", entries |-> p[w].read.entries \cup {w}]
        /\ p' = [p EXCEPT ![w] = [@ EXCEPT !.pc = "reload"]]
        /\ racers' = [v \in StoreWriter |-> IF v \in file'.entries \ file.entries
                                            THEN {u \in StoreWriter : p[u].pc = "replace"} ELSE racers[v]]
        /\ UNCHANGED <<guard, done, edited, trouble>>
    BY <1>6 DEF Stores!Replace, Stores!Holds, Stores!Go, Stores!Races
  <2>2. p[w].read.entries \subseteq StoreWriter
    BY DEF StoresTyped, FileOf
  <2>3. StoresTyped'
    <3>1. file' \in PartOf(StoreWriter)
      BY <2>1, <2>2 DEF PartOf, FileOf
    <3>2. racers' \in [StoreWriter -> SUBSET StoreWriter]
      BY <2>1 DEF StoresTyped
    <3> QED
      BY <2>1, <3>1, <3>2 DEF StoresTyped
  <2>4. StoresMade'
    <3>1. ~edited => file.is \notin {"missing", "partial"}
      BY <2>1 DEF StoresMade
    <3> QED
      BY <2>1, <3>1 DEF StoresTyped, StoresMade
  <2>5. StoresRaces'
    <3> SUFFICES ASSUME ~edited, NEW v \in StoreWriter, p'[v].pc = "replace",
                        NEW x \in file'.entries \ p'[v].read.entries
                 PROVE  v \in racers'[x]
      BY <2>1 DEF StoresRaces
    <3>1. p'[v] = p[v] /\ p[v].pc = "replace" /\ x \in StoreWriter
      BY <2>1, <2>2 DEF StoresTyped
    <3>2. CASE x \in file.entries
      BY <2>1, <3>1, <3>2 DEF StoresRaces
    <3>3. CASE x \notin file.entries
      BY <2>1, <3>1, <3>3
    <3> QED
      BY <3>2, <3>3
  <2>6. Stores!LostToARacer
    <3> SUFFICES ASSUME ~edited, NEW x \in done, x \in file.entries, x \notin file'.entries
                 PROVE  w \in racers[x] /\ p'[w].pc = "reload"
      BY <2>1 DEF Stores!LostToARacer
    <3> QED
      BY <2>1 DEF StoresRaces, StoresTyped
  <2> QED
    BY <2>3, <2>4, <2>5, <2>6
<1>7. ASSUME NEW w \in StoreWriter, Stores!Reload(w) PROVE StoresInv' /\ Stores!LostToARacer
  BY <1>7, StoresStop DEF Stores!Reload, StoresTyped
<1>8. ASSUME NEW w \in StoreWriter, Stores!Crash(w) PROVE StoresInv' /\ Stores!LostToARacer
  <2>1. trouble' \in 0 .. FewTroubles
    BY <1>8, BoundsAssumption DEF Stores!Crash, Stores!Trouble, StoresTyped
  <2> QED
    BY <1>8, <2>1, StoresStop DEF Stores!Crash, StoresTyped
<1>9. ASSUME Stores!Edit PROVE StoresInv' /\ Stores!LostToARacer
  <2>1. /\ \E entries \in SUBSET file.entries :
             file' = [is |-> "missing", entries |-> {}] \/ file' = [is |-> "file", entries |-> entries]
        /\ edited' = TRUE /\ trouble' = trouble + 1 /\ trouble < FewTroubles
        /\ UNCHANGED <<guard, p, done, racers>>
    BY <1>9 DEF Stores!Edit, Stores!NoFile, Stores!Holds, Stores!Trouble
  <2>2. file.entries \subseteq StoreWriter
    BY DEF StoresTyped, PartOf, FileOf
  <2>3. file' \in PartOf(StoreWriter)
    BY <2>1, <2>2 DEF PartOf, FileOf
  <2>4. StoresTyped'
    BY <2>1, <2>3, BoundsAssumption DEF StoresTyped
  <2> QED
    BY <2>1, <2>4 DEF StoresMade, StoresRaces, Stores!LostToARacer
<1> QED
  BY <1>1, <1>2, <1>3, <1>4, <1>5, <1>6, <1>7, <1>8, <1>9 DEF Stores!Next, Stores!Goes

(* Before the first registration. *)
LEMMA StoresStarts == Stores!Init => StoresInv
<1> SUFFICES ASSUME Stores!Init PROVE StoresInv
  OBVIOUS
<1>1. file \in PartOf(StoreWriter)
  BY DEF Stores!Init, Stores!NoFile, Stores!Holds, PartOf, FileOf
<1>2. StoresTyped
  <2>1. [is |-> "missing", entries |-> {}] \in FileOf(StoreWriter) /\ 0 \in 0 .. FewTroubles
    BY BoundsAssumption DEF FileOf
  <2>2. p = [w \in StoreWriter |-> [pc |-> "idle", read |-> [is |-> "missing", entries |-> {}]]]
    BY DEF Stores!Init, Stores!Idle, Stores!NoFile
  <2>3. \A w \in StoreWriter : [pc |-> "idle", read |-> [is |-> "missing", entries |-> {}]] \in
          [pc : {"idle", "check", "fill", "temporary", "replace", "reload"}, read : FileOf(StoreWriter)]
    BY <2>1
  <2>4. /\ edited = FALSE /\ trouble = 0 /\ done = {} /\ guard = 0
        /\ racers = [w \in StoreWriter |-> {}]
    BY DEF Stores!Init, Stores!Nobody
  <2> QED
    BY <1>1, <2>1, <2>2, <2>3, <2>4 DEF StoresTyped
<1> QED
  BY <1>2 DEF Stores!Init, Stores!Idle, StoresInv, StoresMade, StoresRaces

(* What the invariant is for. *)
LEMMA StoresAreSafe == StoresInv => Stores!TypeOK
<1>1. StoresInv => file.is \in {"missing", "partial", "file"} /\ file.entries \subseteq StoreWriter
  BY DEF StoresInv, StoresTyped, PartOf, FileOf
<1>2. StoresInv => \A w \in StoreWriter : p[w].read.entries \subseteq StoreWriter
  BY DEF StoresInv, StoresTyped, FileOf
<1> QED
  BY <1>1, <1>2 DEF StoresInv, StoresTyped, Stores!TypeOK, Stores!Nobody

-----------------------------------------------------------------------------
(* Packs.                                                                  *)
Snapshot == UNION {[F -> 1 .. Contents] : F \in SUBSET PackFile}
PackRecord == [files : Snapshot, preserved : SUBSET PackFile, present : BOOLEAN]
PackCall == [pc : {"idle", "write", "clean", "clear"}, pack : Pack, files : Snapshot,
             previous : PackRecord, todo : SUBSET PackFile, preserved : SUBSET PackFile]

PacksTyped ==
  /\ disk \in [PackFile -> Packs!Bytes]
  /\ installed \in [Pack -> PackRecord]
  /\ \A c \in Pack : installed[c] = Packs!NoPack \/ (installed[c].present /\ installed[c].files \in PackOffers[c])
  /\ p \in PackCall
  /\ \/ journal = Packs!NoJournal
     \/ \E op \in {"install", "update", "remove"}, c \in Pack : \E s \in PackOffers[c] :
          journal = Packs!Journal(op, c, s)
  /\ touched \subseteq edited /\ edited \subseteq PackFile /\ trouble \in 0 .. Troubles

(* The call in progress is the one of the journal.                         *)
PacksCall ==
  /\ p.pc # "idle" =>
       /\ journal.op # "none" /\ journal.pack = p.pack
       /\ IF journal.op = "remove" THEN p.files = Packs!Nothing /\ p.pc # "write" ELSE p.files = journal.files
  /\ p.pc \in {"write", "clean"} => p.previous = installed[p.pack]
  /\ p.pc = "write" => p.todo \subseteq DOMAIN p.files
  /\ p.pc = "clean" => p.todo \subseteq Packs!Obsolete(p.previous, p.files)
  /\ p.pc = "clean" /\ journal.op = "remove" => journal.files = p.previous.files
  /\ p.pc = "clear" => installed[p.pack].files = p.files

(* A removal in the journal is of what is installed, or it has been done.  *)
PacksRemoval ==
  journal.op = "remove" =>
    IF installed[journal.pack].present THEN journal.files = installed[journal.pack].files
    ELSE \A f \in DOMAIN journal.files \ edited : disk[f] = Packs!Absent

(* What nobody edited belongs to one pack and has its bytes, those that    *)
(* the journal's call has written, or none.                                *)
PacksBytes ==
  \A f \in PackFile \ edited :
    /\ \A c \in Pack : f \in Packs!Files(installed[c]) =>
         /\ \/ disk[f] = installed[c].files[f]
            \/ journal.op # "none" /\ journal.pack = c /\ disk[f] = Packs!Absent
            \/ journal.op # "none" /\ journal.pack = c /\ f \in DOMAIN journal.files /\ disk[f] = journal.files[f]
         /\ \A d \in Pack : f \in Packs!Files(installed[d]) => c = d
         /\ f \in DOMAIN journal.files => c = journal.pack
    /\ p.pc = "clean" /\ f \in Packs!Obsolete(p.previous, p.files) \ p.todo => disk[f] = Packs!Absent

(* What nobody edited since the call began is free to be written, or is as *)
(* the call has written it.                                                *)
PacksWritten ==
  \A f \in DOMAIN p.files \ touched :
    /\ p.pc = "write" /\ f \in p.todo => disk[f] # Packs!Own
    /\ p.pc \in {"clean", "clear"} \/ (p.pc = "write" /\ f \notin p.todo) => disk[f] = p.files[f]

PacksInv ==
  PacksTyped /\ PacksCall /\ PacksRemoval /\ PacksBytes /\ PacksWritten /\ Packs!NothingOrphaned

PacksGoal == PacksInv' /\ Packs!KeepsOwn /\ Packs!RecordIsTrue

(* A snapshot has files, and none of them has bytes of somebody's own. *)
LEMMA PackOffered ==
  ASSUME NEW c \in Pack, NEW s \in PackOffers[c]
  PROVE  /\ s \in Snapshot /\ DOMAIN s \subseteq PackFile /\ s # Packs!Nothing
         /\ \A f \in DOMAIN s : s[f] \in 1 .. Contents
<1>1. PICK F \in (SUBSET PackFile) \ {{}} : s \in [F -> 1 .. Contents]
  BY PackAssumption
<1>2. DOMAIN s # DOMAIN Packs!Nothing
  BY <1>1 DEF Packs!Nothing
<1> QED
  BY <1>1, <1>2 DEF Snapshot

(* No files are a snapshot too. *)
LEMMA PackNothing == Packs!Nothing \in Snapshot /\ DOMAIN Packs!Nothing = {} /\ Packs!NoPack \in PackRecord
<1>1. Packs!Nothing \in [{} -> 1 .. Contents] /\ {} \in SUBSET PackFile
  BY DEF Packs!Nothing
<1>2. DOMAIN Packs!Nothing = {}
  BY DEF Packs!Nothing
<1>3. Packs!Nothing \in Snapshot
  BY <1>1 DEF Snapshot
<1> QED
  BY <1>2, <1>3 DEF Packs!NoPack, PackRecord

(* What is installed, and what the journal is about. *)
LEMMA PackKnown ==
  ASSUME PacksTyped
  PROVE  /\ \A c \in Pack : /\ DOMAIN installed[c].files \subseteq PackFile
                            /\ \A f \in DOMAIN installed[c].files : installed[c].files[f] \in 1 .. Contents
                            /\ ~installed[c].present => installed[c].files = Packs!Nothing
                            /\ installed[c].present => installed[c].files \in PackOffers[c]
         /\ journal.pack \in Pack /\ DOMAIN journal.files \subseteq PackFile
         /\ \A f \in DOMAIN journal.files : journal.files[f] \in 1 .. Contents
         /\ journal.op = "none" <=> journal = Packs!NoJournal
         /\ journal.op = "none" => DOMAIN journal.files = {}
         /\ journal.op # "none" =>
              journal.op \in {"install", "update", "remove"} /\ journal.files \in PackOffers[journal.pack]
<1>1. ASSUME NEW c \in Pack
      PROVE  /\ DOMAIN installed[c].files \subseteq PackFile
             /\ \A f \in DOMAIN installed[c].files : installed[c].files[f] \in 1 .. Contents
             /\ ~installed[c].present => installed[c].files = Packs!Nothing
             /\ installed[c].present => installed[c].files \in PackOffers[c]
  <2>1. CASE installed[c] = Packs!NoPack
    BY <2>1, PackNothing DEF Packs!NoPack
  <2>2. CASE installed[c].present /\ installed[c].files \in PackOffers[c]
    BY <2>2, PackOffered
  <2> QED
    BY <2>1, <2>2 DEF PacksTyped
<1>2. CASE journal = Packs!NoJournal
  <2>1. journal.op = "none" /\ journal.files = Packs!Nothing /\ journal.pack \in Pack
    BY <1>2, PackAssumption DEF Packs!NoJournal
  <2> QED
    BY <1>1, <1>2, <2>1, PackNothing
<1>3. CASE \E op \in {"install", "update", "remove"}, c \in Pack : \E s \in PackOffers[c] :
             journal = Packs!Journal(op, c, s)
  <2>1. PICK op \in {"install", "update", "remove"}, c \in Pack : \E s \in PackOffers[c] :
               journal = Packs!Journal(op, c, s)
    BY <1>3
  <2>2. PICK s \in PackOffers[c] : journal = Packs!Journal(op, c, s)
    BY <2>1
  <2>3. journal.op = op /\ journal.pack = c /\ journal.files = s
    BY <2>2 DEF Packs!Journal
  <2>4. Packs!NoJournal.op = "none"
    BY DEF Packs!NoJournal
  <2> QED
    BY <1>1, <2>3, <2>4, PackOffered
<1> QED
  BY <1>2, <1>3 DEF PacksTyped

(* Which file is next. *)
LEMMA PackNext == ASSUME NEW F \in SUBSET PackFile, F # {} PROVE Packs!Lowest(F) \in F
<1>1. \E f \in F : \A g \in F : f <= g
  BY PackAssumption, HasLowest
<1> QED
  BY <1>1 DEF Packs!Lowest

(* Before the first pack. *)
LEMMA PacksStart == Packs!Init => PacksInv
<1> SUFFICES ASSUME Packs!Init PROVE PacksInv
  OBVIOUS
<1>1. /\ installed = [c \in Pack |-> Packs!NoPack] /\ journal = Packs!NoJournal
      /\ p = [pc |-> "idle", pack |-> Packs!NoJournal.pack, files |-> Packs!Nothing, previous |-> Packs!NoPack,
              todo |-> {}, preserved |-> {}]
      /\ disk \in [PackFile -> {0, -1}] /\ touched = {} /\ trouble = 0
      /\ edited = {f \in PackFile : disk[f] = -1}
  BY DEF Packs!Init, Packs!Idle, Packs!Absent, Packs!Own
<1>2. Packs!NoJournal.pack \in Pack /\ Packs!NoJournal.op = "none"
  BY PackAssumption DEF Packs!NoJournal
<1>3. p \in PackCall
  BY <1>1, <1>2, PackNothing DEF PackCall
<1>4. PacksTyped
  BY <1>1, <1>3, PackNothing, BoundsAssumption DEF PacksTyped, Packs!Bytes
<1>5. \A c \in Pack : Packs!Files(installed[c]) = {}
  BY <1>1, PackNothing DEF Packs!Files, Packs!NoPack
<1>6. PacksCall /\ PacksRemoval /\ PacksBytes /\ PacksWritten
  BY <1>1, <1>2, <1>5 DEF PacksCall, PacksRemoval, PacksBytes, PacksWritten
<1>7. Packs!NothingOrphaned
  BY <1>1 DEF Packs!NothingOrphaned, Packs!Absent
<1> QED
  BY <1>4, <1>6, <1>7 DEF PacksInv

(* A call stops, or somebody edits: the records are as they were. *)
LEMMA PacksIdle ==
  ASSUME PacksInv, p' = Packs!Idle, UNCHANGED <<disk, installed, journal, touched, edited>>,
         trouble' \in 0 .. Troubles
  PROVE  PacksGoal
<1> USE DEF PacksInv
<1>1. p' = [pc |-> "idle", pack |-> Packs!NoJournal.pack, files |-> Packs!Nothing, previous |-> Packs!NoPack,
            todo |-> {}, preserved |-> {}]
  BY DEF Packs!Idle
<1>2. Packs!NoJournal.pack \in Pack
  BY PackAssumption DEF Packs!NoJournal
<1>3. p' \in PackCall
  BY <1>1, <1>2, PackNothing DEF PackCall
<1>4. PacksTyped'
  BY <1>3 DEF PacksTyped
<1>5. PacksCall' /\ PacksRemoval' /\ PacksBytes' /\ PacksWritten' /\ Packs!NothingOrphaned'
  BY <1>1 DEF PacksCall, PacksRemoval, PacksBytes, PacksWritten, Packs!NothingOrphaned, Packs!Files
<1> QED
  BY <1>4, <1>5 DEF PacksGoal, Packs!KeepsOwn, Packs!RecordIsTrue

(* install_from_local, for the first time or again. *)
LEMMA PacksInstall ==
  ASSUME PacksInv, NEW c \in Pack, NEW shipped \in PackOffers[c], Packs!Install(c, shipped)
  PROVE  PacksGoal
<1> USE DEF PacksInv
<1> DEFINE op == IF installed[c].present THEN "update" ELSE "install"
<1>1. /\ p.pc = "idle" /\ UNCHANGED <<disk, installed, edited, trouble>> /\ touched' = {}
      /\ journal' = Packs!Journal(op, c, shipped)
      /\ p' = [pc |-> "write", pack |-> c, files |-> shipped, previous |-> installed[c],
               todo |-> DOMAIN shipped, preserved |-> installed[c].preserved]
      /\ Packs!Continues(c, shipped, journal) /\ ~Packs!Refuses(shipped, installed[c], journal)
  BY DEF Packs!Install
<1>2. /\ journal'.op = op /\ journal'.pack = c /\ journal'.files = shipped
      /\ op \in {"install", "update"}
  BY <1>1 DEF Packs!Journal
<1>3. /\ p'.pc = "write" /\ p'.pack = c /\ p'.files = shipped /\ p'.previous = installed[c]
      /\ p'.todo = DOMAIN shipped
  BY <1>1
<1>4. DOMAIN shipped \subseteq PackFile /\ shipped \in Snapshot /\ \A f \in DOMAIN shipped : shipped[f] \in 1 .. Contents
  BY PackOffered
<1>5. p' \in PackCall
  BY <1>1, <1>4 DEF PackCall, PacksTyped, PackRecord
<1>6. PacksTyped'
  BY <1>1, <1>2, <1>5 DEF PacksTyped
<1>7. \A f \in DOMAIN shipped : disk[f] = 0 \/ (f \in Packs!Files(installed[c]) /\ disk[f] = installed[c].files[f])
                              \/ (journal # Packs!NoJournal /\ disk[f] = shipped[f])
  BY <1>1 DEF Packs!Refuses, Packs!Modified, Packs!Absent
<1>8. PacksCall' /\ PacksRemoval'
  BY <1>1, <1>2, <1>3 DEF PacksCall, PacksRemoval
<1>9. PacksWritten'
  <2>1. \A f \in DOMAIN shipped : disk[f] # -1
    BY <1>4, <1>7, PackKnown, BoundsAssumption DEF Packs!Files
  <2> QED
    BY <1>1, <1>3, <2>1 DEF PacksWritten, Packs!Own
<1>10. journal.op = "none" \/ (journal.pack = c /\ journal.files = shipped)
  BY <1>1, PackKnown DEF Packs!Continues
<1>11. PacksBytes'
  <2> SUFFICES ASSUME NEW f \in PackFile \ edited, NEW d \in Pack, f \in DOMAIN installed[d].files
               PROVE  /\ \/ disk[f] = installed[d].files[f]
                         \/ d = c /\ disk[f] = 0
                         \/ d = c /\ f \in DOMAIN shipped /\ disk[f] = shipped[f]
                      /\ \A e \in Pack : f \in DOMAIN installed[e].files => d = e
                      /\ f \in DOMAIN shipped => d = c
    BY <1>1, <1>2, <1>3 DEF PacksBytes, Packs!Absent, Packs!Files
  <2>1. /\ \/ disk[f] = installed[d].files[f]
           \/ journal.op # "none" /\ journal.pack = d /\ disk[f] = 0
           \/ journal.op # "none" /\ journal.pack = d /\ f \in DOMAIN journal.files /\ disk[f] = journal.files[f]
        /\ \A e \in Pack : f \in DOMAIN installed[e].files => d = e
        /\ f \in DOMAIN journal.files => d = journal.pack
    BY DEF PacksBytes, Packs!Absent, Packs!Files
  <2>2. CASE journal.op # "none"
    BY <1>10, <2>1, <2>2
  <2>3. CASE journal.op = "none"
    <3>1. disk[f] = installed[d].files[f] /\ disk[f] # 0
      BY <2>1, <2>3, PackKnown
    <3>2. journal = Packs!NoJournal
      BY <2>3, PackKnown
    <3>3. f \in DOMAIN shipped => f \in DOMAIN installed[c].files
      BY <1>7, <3>1, <3>2 DEF Packs!Files
    <3> QED
      BY <2>1, <3>1, <3>3
  <2> QED
    BY <2>2, <2>3
<1>12. Packs!NothingOrphaned'
  BY <1>1, <1>2, <1>10, PackKnown DEF Packs!NothingOrphaned, Packs!Files
<1> QED
  BY <1>1, <1>6, <1>8, <1>9, <1>11, <1>12 DEF PacksGoal, Packs!KeepsOwn, Packs!RecordIsTrue

(* A file of the snapshot is written. *)
LEMMA PacksWrite == ASSUME PacksInv, Packs!Write PROVE PacksGoal
<1> USE DEF PacksInv
<1>1. /\ p.pc = "write" /\ UNCHANGED <<installed, journal, edited, trouble>>
      /\ journal.op \in {"install", "update"} /\ journal.pack = p.pack /\ journal.files = p.files
      /\ p.previous = installed[p.pack] /\ p.todo \subseteq DOMAIN p.files /\ p.files \in PackOffers[p.pack]
      /\ p.pack \in Pack
  BY PackKnown DEF Packs!Write, PacksCall, PacksTyped, PackCall
<1>2. DOMAIN p.files \subseteq PackFile /\ \A f \in DOMAIN p.files : p.files[f] \in 1 .. Contents
  BY <1>1, PackOffered
<1>3. CASE p.todo = {}
  <2>1. /\ p' = [p EXCEPT !.pc = "clean", !.todo = Packs!Obsolete(p.previous, p.files)]
        /\ UNCHANGED <<disk, touched>>
    BY <1>3 DEF Packs!Write
  <2>2. Packs!Obsolete(p.previous, p.files) \subseteq PackFile
    BY <1>1, PackKnown DEF Packs!Obsolete, Packs!Files
  <2>3. p' \in PackCall
    BY <2>1, <2>2 DEF PackCall, PacksTyped
  <2>4. /\ p'.pc = "clean" /\ p'.todo = Packs!Obsolete(p.previous, p.files)
        /\ p'.pack = p.pack /\ p'.files = p.files /\ p'.previous = p.previous
    BY <2>1 DEF PackCall, PacksTyped
  <2>5. PacksTyped'
    BY <1>1, <2>1, <2>3 DEF PacksTyped
  <2>6. PacksCall' /\ PacksRemoval'
    BY <1>1, <2>1, <2>4 DEF PacksCall, PacksRemoval, Packs!Obsolete, Packs!Files
  <2>7. PacksBytes'
    BY <1>1, <2>1, <2>4 DEF PacksBytes, Packs!Obsolete, Packs!Files
  <2>8. PacksWritten'
    BY <1>1, <1>3, <2>1, <2>4 DEF PacksWritten
  <2> QED
    BY <1>1, <2>1, <2>5, <2>6, <2>7, <2>8
       DEF PacksGoal, Packs!KeepsOwn, Packs!RecordIsTrue, Packs!NothingOrphaned, Packs!Files
<1>4. CASE p.todo # {}
  <2> DEFINE f == Packs!Lowest(p.todo)
  <2>1. f \in p.todo
    BY <1>4, PackNext DEF PacksTyped, PackCall
  <2> HIDE DEF f
  <2>2. /\ disk' = [disk EXCEPT ![f] = p.files[f]] /\ touched' = touched \ {f}
        /\ p' = [p EXCEPT !.todo = @ \ {f}]
    BY <1>4 DEF Packs!Write, f
  <2>3. /\ p'.pc = "write" /\ p'.todo = p.todo \ {f}
        /\ p'.pack = p.pack /\ p'.files = p.files /\ p'.previous = p.previous /\ p' \in PackCall
    BY <1>1, <2>2 DEF PackCall, PacksTyped
  <2>4. /\ f \in PackFile /\ p.files[f] \in 1 .. Contents /\ disk'[f] = p.files[f]
        /\ \A g \in PackFile : g # f => disk'[g] = disk[g]
    BY <1>1, <1>2, <2>1, <2>2 DEF PacksTyped
  <2>5. PacksTyped'
    <3>1. disk' \in [PackFile -> Packs!Bytes]
      BY <2>2, <2>4, BoundsAssumption DEF PacksTyped, Packs!Bytes
    <3> QED
      BY <1>1, <2>2, <2>3, <3>1 DEF PacksTyped
  <2>6. PacksCall' /\ PacksRemoval'
    BY <1>1, <2>3 DEF PacksCall, PacksRemoval, Packs!Obsolete, Packs!Files
  <2>7. PacksBytes'
    BY <1>1, <2>1, <2>3, <2>4 DEF PacksBytes, Packs!Files
  <2>8. PacksWritten'
    BY <1>1, <1>2, <2>1, <2>2, <2>3, <2>4 DEF PacksWritten, Packs!Own
  <2>9. Packs!NothingOrphaned'
    BY <1>1, <2>1, <2>4 DEF Packs!NothingOrphaned, Packs!Files
  <2>10. Packs!KeepsOwn
    BY <1>1, <2>1, <2>4 DEF Packs!KeepsOwn, PacksWritten
  <2> QED
    BY <1>1, <2>5, <2>6, <2>7, <2>8, <2>9, <2>10 DEF PacksGoal, Packs!RecordIsTrue
<1> QED
  BY <1>3, <1>4

(* A file that no snapshot asks for any more is removed if it is clean. *)
LEMMA PacksClean == ASSUME PacksInv, Packs!Clean PROVE PacksGoal
<1> USE DEF PacksInv
<1> DEFINE f == Packs!Lowest(p.todo)
<1>1. f \in p.todo /\ f \in PackFile
  BY PackNext DEF Packs!Clean, PacksTyped, PackCall
<1> HIDE DEF f
<1>2. /\ p.pc = "clean" /\ UNCHANGED <<installed, journal, edited, trouble>>
      /\ disk' = IF disk[f] = p.previous.files[f] THEN [disk EXCEPT ![f] = 0] ELSE disk
      /\ p' = [p EXCEPT !.todo = @ \ {f},
                        !.preserved = IF Packs!Modified(p.previous, f) THEN @ \cup {f} ELSE @]
      /\ touched' = touched \ {f}
  BY DEF Packs!Clean, Packs!Removable, Packs!CleanNow, Packs!Absent, f
<1>3. /\ p.previous = installed[p.pack] /\ p.pack \in Pack
      /\ journal.op # "none" /\ journal.pack = p.pack
      /\ f \in DOMAIN installed[p.pack].files /\ f \notin DOMAIN p.files
      /\ installed[p.pack].files[f] \in 1 .. Contents /\ installed[p.pack].present
      /\ p.todo \subseteq Packs!Obsolete(p.previous, p.files)
  BY <1>1, <1>2, PackKnown, PackNothing DEF PacksCall, PacksTyped, PackCall, Packs!Obsolete, Packs!Files
<1>4. /\ p'.pc = "clean" /\ p'.todo = p.todo \ {f}
      /\ p'.pack = p.pack /\ p'.files = p.files /\ p'.previous = p.previous /\ p' \in PackCall
  BY <1>1, <1>2 DEF PackCall, PacksTyped
<1>5. /\ disk'[f] = IF disk[f] = p.previous.files[f] THEN 0 ELSE disk[f]
      /\ \A g \in PackFile : g # f => disk'[g] = disk[g]
  BY <1>1, <1>2 DEF PacksTyped
<1>6. PacksTyped'
  <2>1. disk' \in [PackFile -> Packs!Bytes]
    BY <1>1, <1>2, BoundsAssumption DEF PacksTyped, Packs!Bytes
  <2> QED
    BY <1>2, <1>4, <2>1 DEF PacksTyped
<1>7. PacksCall' /\ PacksRemoval'
  BY <1>2, <1>3, <1>4 DEF PacksCall, PacksRemoval, Packs!Obsolete, Packs!Files
<1>8. f \notin edited => disk[f] = 0 \/ disk[f] = installed[p.pack].files[f]
  <2> SUFFICES ASSUME f \notin edited PROVE disk[f] = 0 \/ disk[f] = installed[p.pack].files[f]
    OBVIOUS
  <2>1. \/ disk[f] = installed[p.pack].files[f] \/ disk[f] = 0
        \/ f \in DOMAIN journal.files /\ disk[f] = journal.files[f]
    BY <1>1, <1>3 DEF PacksBytes, Packs!Files, Packs!Absent
  <2>2. journal.op = "remove" \/ journal.files = p.files
    BY <1>2, <1>3 DEF PacksCall
  <2>3. journal.op = "remove" => journal.files = installed[p.pack].files
    BY <1>2, <1>3 DEF PacksCall
  <2> QED
    BY <1>3, <2>1, <2>2, <2>3
<1>9. PacksBytes'
  <2> SUFFICES ASSUME NEW g \in PackFile \ edited
               PROVE  /\ \A c \in Pack : g \in Packs!Files(installed[c]) =>
                           /\ \/ disk'[g] = installed[c].files[g]
                              \/ journal.op # "none" /\ journal.pack = c /\ disk'[g] = 0
                              \/ /\ journal.op # "none" /\ journal.pack = c
                                 /\ g \in DOMAIN journal.files /\ disk'[g] = journal.files[g]
                           /\ \A d \in Pack : g \in Packs!Files(installed[d]) => c = d
                           /\ g \in DOMAIN journal.files => c = journal.pack
                      /\ g \in Packs!Obsolete(p.previous, p.files) \ p'.todo => disk'[g] = 0
    BY <1>2, <1>4 DEF PacksBytes, Packs!Absent, Packs!Obsolete, Packs!Files
  <2>1. CASE g = f
    BY <1>1, <1>3, <1>4, <1>5, <1>8, <2>1 DEF PacksBytes, Packs!Absent, Packs!Files
  <2>2. CASE g # f
    BY <1>2, <1>4, <1>5, <2>2 DEF PacksBytes, Packs!Absent
  <2> QED
    BY <2>1, <2>2
<1>10. PacksWritten'
  BY <1>2, <1>3, <1>4, <1>5 DEF PacksWritten, PacksTyped, PackCall, Snapshot
<1>11. Packs!NothingOrphaned'
  BY <1>2, <1>5 DEF Packs!NothingOrphaned, Packs!Files, Packs!Absent
<1>12. Packs!KeepsOwn
  BY <1>3, <1>5, BoundsAssumption DEF Packs!KeepsOwn, Packs!Own
<1> QED
  BY <1>2, <1>6, <1>7, <1>9, <1>10, <1>11, <1>12 DEF PacksGoal, Packs!RecordIsTrue

(* The install state is written. *)
LEMMA PacksState == ASSUME PacksInv, Packs!WriteState PROVE PacksGoal
<1> USE DEF PacksInv
<1> DEFINE new == IF p.files = Packs!Nothing THEN Packs!NoPack
                  ELSE [files |-> p.files, preserved |-> p.preserved, present |-> TRUE]
<1>1. /\ p.pc = "clean" /\ p.todo = {} /\ UNCHANGED <<disk, journal, touched, edited, trouble>>
      /\ installed' = [installed EXCEPT ![p.pack] = new] /\ p' = [p EXCEPT !.pc = "clear"]
  BY DEF Packs!WriteState
<1>2. /\ p.previous = installed[p.pack] /\ p.pack \in Pack
      /\ journal.op # "none" /\ journal.pack = p.pack
      /\ journal.op = "remove" => p.files = Packs!Nothing /\ journal.files = installed[p.pack].files
      /\ journal.op # "remove" => p.files = journal.files /\ p.files \in PackOffers[p.pack]
  BY <1>1, PackKnown DEF PacksCall, PacksTyped, PackCall
<1>3. /\ new \in PackRecord /\ new.files = p.files
      /\ new = Packs!NoPack \/ (new.present /\ new.files \in PackOffers[p.pack])
      /\ journal.op = "remove" => ~new.present
  BY <1>2, PackNothing, PackOffered DEF PacksTyped, PackCall, PackRecord, Packs!NoPack
<1>4. /\ installed'[p.pack] = new /\ \A c \in Pack : c # p.pack => installed'[c] = installed[c]
  BY <1>1, <1>2 DEF PacksTyped
<1> HIDE DEF new
<1>5. /\ p'.pc = "clear" /\ p'.pack = p.pack /\ p'.files = p.files /\ p'.previous = p.previous
      /\ p'.todo = p.todo /\ p' \in PackCall
  BY <1>1 DEF PackCall, PacksTyped
<1>6. PacksTyped'
  <2>1. installed' \in [Pack -> PackRecord]
    BY <1>1, <1>3 DEF PacksTyped
  <2>2. \A c \in Pack : installed'[c] = Packs!NoPack \/ (installed'[c].present /\ installed'[c].files \in PackOffers[c])
    BY <1>2, <1>3, <1>4 DEF PacksTyped
  <2> QED
    BY <1>1, <1>5, <2>1, <2>2 DEF PacksTyped
<1>7. \A f \in PackFile \ edited : f \in DOMAIN installed[p.pack].files /\ f \notin DOMAIN p.files => disk[f] = 0
  BY <1>1, <1>2 DEF PacksBytes, Packs!Obsolete, Packs!Files, Packs!Absent
<1>8. PacksCall'
  BY <1>1, <1>2, <1>3, <1>4, <1>5 DEF PacksCall
<1>9. PacksRemoval'
  BY <1>1, <1>2, <1>3, <1>4, <1>7, PackKnown, PackNothing DEF PacksRemoval, Packs!Absent
<1>10. \A f \in DOMAIN p.files \ touched : disk[f] = p.files[f]
  BY <1>1 DEF PacksWritten
<1>11. PacksBytes'
  <2> SUFFICES ASSUME NEW f \in PackFile \ edited, NEW c \in Pack, f \in DOMAIN installed'[c].files
               PROVE  /\ \/ disk[f] = installed'[c].files[f]
                         \/ journal.op # "none" /\ journal.pack = c /\ disk[f] = 0
                         \/ /\ journal.op # "none" /\ journal.pack = c
                            /\ f \in DOMAIN journal.files /\ disk[f] = journal.files[f]
                      /\ \A d \in Pack : f \in DOMAIN installed'[d].files => c = d
                      /\ f \in DOMAIN journal.files => c = journal.pack
    BY <1>1, <1>5 DEF PacksBytes, Packs!Files, Packs!Absent
  <2>0. \A d \in Pack : f \in DOMAIN installed[d].files =>
          /\ \/ disk[f] = installed[d].files[f]
             \/ journal.pack = d /\ disk[f] = 0
             \/ journal.pack = d /\ f \in DOMAIN journal.files /\ disk[f] = journal.files[f]
          /\ \A e \in Pack : f \in DOMAIN installed[e].files => d = e
          /\ f \in DOMAIN journal.files => d = journal.pack
    BY DEF PacksBytes, Packs!Files, Packs!Absent
  <2>1. f \in DOMAIN p.files => \A d \in Pack : f \in DOMAIN installed[d].files => d = p.pack
    BY <1>2, <2>0, PackNothing
  <2>2. CASE c = p.pack
    <3>1. disk[f] = p.files[f]
      BY <1>3, <1>4, <1>10, <2>2 DEF PacksTyped
    <3> QED
      BY <1>2, <1>3, <1>4, <2>1, <2>2, <3>1
  <2>3. CASE c # p.pack
    <3>1. installed'[c] = installed[c] /\ f \notin DOMAIN p.files
      BY <1>4, <2>1, <2>3
    <3> QED
      BY <1>2, <1>3, <1>4, <2>0, <2>3, <3>1
  <2> QED
    BY <2>2, <2>3
<1>12. Packs!NothingOrphaned'
  <2> SUFFICES ASSUME NEW f \in PackFile \ edited, disk[f] # 0
               PROVE  (\E c \in Pack : f \in DOMAIN installed'[c].files) \/ f \in DOMAIN journal.files
    BY <1>1 DEF Packs!NothingOrphaned, Packs!Files, Packs!Absent
  <2>1. CASE \E c \in Pack : f \in DOMAIN installed[c].files
    BY <1>2, <1>3, <1>4, <1>7, <2>1
  <2> QED
    BY <2>1 DEF Packs!NothingOrphaned, Packs!Files, Packs!Absent
<1>13. Packs!RecordIsTrue
  BY <1>3, <1>4, <1>10 DEF Packs!RecordIsTrue
<1>14. PacksWritten' /\ Packs!KeepsOwn
  BY <1>1, <1>5 DEF PacksWritten, Packs!KeepsOwn
<1> QED
  BY <1>6, <1>8, <1>9, <1>11, <1>12, <1>13, <1>14 DEF PacksGoal

(* The journal is cleared: what it was about has been done. *)
LEMMA PacksCleared ==
  ASSUME PacksInv, p.pc = "clear", journal.op # "none", p' = Packs!Idle, journal' = Packs!NoJournal,
         UNCHANGED <<disk, installed, touched, edited, trouble>>
  PROVE  PacksGoal
<1> USE DEF PacksInv
<1>1. p' = [pc |-> "idle", pack |-> Packs!NoJournal.pack, files |-> Packs!Nothing, previous |-> Packs!NoPack,
            todo |-> {}, preserved |-> {}]
  BY DEF Packs!Idle
<1>2. journal'.op = "none" /\ journal'.files = Packs!Nothing /\ Packs!NoJournal.pack \in Pack
  BY PackAssumption DEF Packs!NoJournal
<1>3. p' \in PackCall
  BY <1>1, <1>2, PackNothing DEF PackCall
<1>4. PacksTyped'
  BY <1>3 DEF PacksTyped
<1>5. p.pc = "clear" /\ journal.op # "remove" => installed[journal.pack].files = journal.files
  BY DEF PacksCall
<1>6. p.pc = "clear" /\ journal.op = "remove" => installed[journal.pack].files = Packs!Nothing
  BY DEF PacksCall
<1>7. journal.op = "remove" => ~installed[journal.pack].present
  BY <1>6, PackKnown, PackOffered
<1>8. \A f \in DOMAIN journal.files \ edited : journal.op = "remove" => disk[f] = 0
  BY <1>7 DEF PacksRemoval, Packs!Absent
<1>9. PacksBytes'
  <2> SUFFICES ASSUME NEW f \in PackFile \ edited, NEW c \in Pack, f \in DOMAIN installed[c].files
               PROVE  /\ disk[f] = installed[c].files[f]
                      /\ \A d \in Pack : f \in DOMAIN installed[d].files => c = d
    BY <1>1, <1>2, PackNothing DEF PacksBytes, Packs!Files
  <2>1. /\ \/ disk[f] = installed[c].files[f]
           \/ journal.pack = c /\ disk[f] = 0
           \/ journal.pack = c /\ f \in DOMAIN journal.files /\ disk[f] = journal.files[f]
        /\ \A d \in Pack : f \in DOMAIN installed[d].files => c = d
    BY DEF PacksBytes, Packs!Files, Packs!Absent
  <2>2. CASE journal.op = "remove"
    BY <1>7, <2>1, <2>2, PackKnown, PackNothing
  <2>3. CASE journal.op # "remove" /\ journal.pack = c
    <3>1. p.pc = "clear" /\ installed[c].files = journal.files /\ p.files = journal.files
      BY <1>5, <2>3 DEF PacksCall
    <3>2. disk[f] = installed[c].files[f]
      BY <3>1 DEF PacksWritten, PacksTyped
    <3> QED
      BY <2>1, <3>2
  <2> QED
    BY <2>1, <2>2, <2>3
<1>10. Packs!NothingOrphaned'
  BY <1>5, <1>8, PackKnown DEF Packs!NothingOrphaned, Packs!Files, Packs!Absent
<1>11. PacksCall' /\ PacksRemoval' /\ PacksWritten'
  BY <1>1, <1>2 DEF PacksCall, PacksRemoval, PacksWritten
<1> QED
  BY <1>4, <1>9, <1>10, <1>11 DEF PacksGoal, Packs!KeepsOwn, Packs!RecordIsTrue

(* remove_pack. *)
LEMMA PacksRemove == ASSUME PacksInv, NEW c \in Pack, Packs!Remove(c) PROVE PacksGoal
<1> USE DEF PacksInv
<1>1. /\ p.pc = "idle" /\ installed[c].present /\ UNCHANGED <<disk, installed, edited, trouble>> /\ touched' = {}
      /\ journal = Packs!NoJournal \/ (journal.pack = c /\ journal.op = "remove")
      /\ journal' = Packs!Journal("remove", c, installed[c].files)
      /\ p' = [pc |-> "clean", pack |-> c, files |-> Packs!Nothing, previous |-> installed[c],
               todo |-> Packs!Files(installed[c]), preserved |-> installed[c].preserved]
  BY DEF Packs!Remove
<1>2. journal'.op = "remove" /\ journal'.pack = c /\ journal'.files = installed[c].files
  BY <1>1 DEF Packs!Journal
<1>3. /\ p'.pc = "clean" /\ p'.pack = c /\ p'.files = Packs!Nothing /\ p'.previous = installed[c]
      /\ p'.todo = DOMAIN installed[c].files
  BY <1>1 DEF Packs!Files
<1>4. installed[c].files \in PackOffers[c] /\ DOMAIN installed[c].files \subseteq PackFile
  BY <1>1, PackKnown
<1>5. p' \in PackCall
  BY <1>1, <1>4, PackNothing DEF PackCall, PacksTyped, PackRecord, Packs!Files
<1>6. PacksTyped'
  BY <1>1, <1>4, <1>5 DEF PacksTyped
<1>7. PacksCall' /\ PacksRemoval' /\ PacksWritten'
  BY <1>1, <1>2, <1>3, PackNothing
     DEF PacksCall, PacksRemoval, PacksWritten, Packs!Obsolete, Packs!Files
<1>8. journal.op = "none" \/ (journal.pack = c /\ journal.op = "remove" /\ journal.files = installed[c].files)
  BY <1>1, PackKnown DEF PacksRemoval
<1>9. PacksBytes'
  <2> SUFFICES ASSUME NEW f \in PackFile \ edited, NEW d \in Pack, f \in DOMAIN installed[d].files
               PROVE  /\ disk[f] = installed[d].files[f] \/ (d = c /\ disk[f] = 0)
                      /\ \A e \in Pack : f \in DOMAIN installed[e].files => d = e
    BY <1>1, <1>2, <1>3 DEF PacksBytes, Packs!Obsolete, Packs!Files, Packs!Absent
  <2>1. /\ \/ disk[f] = installed[d].files[f]
           \/ journal.op # "none" /\ journal.pack = d /\ disk[f] = 0
           \/ journal.op # "none" /\ journal.pack = d /\ f \in DOMAIN journal.files /\ disk[f] = journal.files[f]
        /\ \A e \in Pack : f \in DOMAIN installed[e].files => d = e
    BY DEF PacksBytes, Packs!Files, Packs!Absent
  <2> QED
    BY <1>8, <2>1
<1>10. Packs!NothingOrphaned'
  BY <1>1, <1>2, <1>8, PackKnown DEF Packs!NothingOrphaned, Packs!Files
<1> QED
  BY <1>1, <1>6, <1>7, <1>9, <1>10 DEF PacksGoal, Packs!KeepsOwn, Packs!RecordIsTrue

(* Somebody edits a file. *)
LEMMA PacksEdit ==
  ASSUME PacksInv, NEW f \in PackFile, NEW bytes \in {Packs!Absent, Packs!Own}, Packs!Edit(f, bytes)
  PROVE  PacksGoal
<1> USE DEF PacksInv
<1>1. /\ disk' = [disk EXCEPT ![f] = bytes] /\ bytes \in Packs!Bytes
      /\ touched' = touched \cup {f} /\ edited' = edited \cup {f}
      /\ trouble' = trouble + 1 /\ trouble < Troubles /\ UNCHANGED <<installed, journal, p>>
  BY BoundsAssumption DEF Packs!Edit, Packs!Trouble, Packs!Absent, Packs!Own, Packs!Bytes
<1>2. \A g \in PackFile : g # f => disk'[g] = disk[g]
  BY <1>1 DEF PacksTyped
<1>3. PacksTyped'
  BY <1>1, BoundsAssumption DEF PacksTyped
<1>4. PacksCall' /\ PacksRemoval'
  BY <1>1, <1>2, PackKnown DEF PacksCall, PacksRemoval, Packs!Obsolete, Packs!Files
<1>5. PacksBytes'
  BY <1>1, <1>2 DEF PacksBytes, Packs!Obsolete, Packs!Files
<1>6. DOMAIN p.files \subseteq PackFile
  <2>1. PICK F \in SUBSET PackFile : p.files \in [F -> 1 .. Contents]
    BY DEF PacksTyped, PackCall, Snapshot
  <2> QED
    BY <2>1
<1>7. PacksWritten'
  BY <1>1, <1>2, <1>6 DEF PacksWritten
<1>8. Packs!NothingOrphaned'
  BY <1>1, <1>2 DEF Packs!NothingOrphaned, Packs!Files
<1> QED
  BY <1>1, <1>2, <1>3, <1>4, <1>5, <1>7, <1>8 DEF PacksGoal, Packs!KeepsOwn, Packs!RecordIsTrue

(* Every call on packs keeps the invariant, own bytes and true records. *)
LEMMA PacksSteps == ASSUME PacksInv, Packs!Next PROVE PacksGoal
<1>1. ASSUME NEW c \in Pack, Packs!RemoveAgain(c) PROVE PacksGoal
  <2>1. /\ p.pc = "idle" /\ ~installed[c].present /\ journal.pack = c /\ journal.op = "remove"
        /\ journal' = Packs!NoJournal /\ UNCHANGED <<disk, installed, p, touched, edited, trouble>>
    BY <1>1 DEF Packs!RemoveAgain, Packs!Forgets
  <2>2. PacksInv' 
    <3> USE DEF PacksInv
    <3>1. journal'.op = "none" /\ journal'.files = Packs!Nothing
      BY <2>1 DEF Packs!NoJournal
    <3>2. PacksTyped'
      BY <2>1 DEF PacksTyped
    <3>3. DOMAIN installed[c].files = {} /\ \A f \in DOMAIN journal.files \ edited : disk[f] = 0
      BY <2>1, PackKnown, PackNothing DEF PacksRemoval, Packs!Absent
    <3>4. PacksCall' /\ PacksRemoval' /\ PacksWritten'
      BY <2>1, <3>1 DEF PacksCall, PacksRemoval, PacksWritten
    <3>5. PacksBytes'
      BY <2>1, <3>1, <3>3, PackNothing DEF PacksBytes, Packs!Files, Packs!Absent
    <3>6. Packs!NothingOrphaned'
      BY <2>1, <3>3 DEF Packs!NothingOrphaned, Packs!Files, Packs!Absent
    <3> QED
      BY <3>2, <3>4, <3>5, <3>6
  <2> QED
    BY <2>1, <2>2 DEF PacksGoal, Packs!KeepsOwn, Packs!RecordIsTrue
<1>2. ASSUME Packs!ClearJournal PROVE PacksGoal
  BY <1>2, PacksCleared DEF Packs!ClearJournal, PacksInv, PacksCall
<1>3. ASSUME Packs!Crash PROVE PacksGoal
  <2>1. trouble' \in 0 .. Troubles
    BY <1>3, BoundsAssumption DEF Packs!Crash, Packs!Trouble, PacksInv, PacksTyped
  <2> QED
    BY <1>3, <2>1, PacksIdle DEF Packs!Crash
<1> QED
  BY <1>1, <1>2, <1>3, PacksInstall, PacksWrite, PacksClean, PacksState, PacksRemove, PacksEdit
     DEF Packs!Next, Packs!Goes

(* What the invariant is for. *)
LEMMA PacksAreSafe == PacksInv => Packs!TypeOK /\ Packs!NothingOrphaned
<1> SUFFICES ASSUME PacksInv PROVE Packs!TypeOK
  BY DEF PacksInv
<1>1. journal.op \in {"none", "install", "update", "remove"}
  BY PackKnown DEF PacksInv
<1> QED
  BY <1>1 DEF PacksInv, PacksTyped, PackCall, Packs!TypeOK

-----------------------------------------------------------------------------
(* Integrations.                                                           *)
Projection == UNION {[F -> 1 .. Contents] : F \in SUBSET Target}
IntegrationRecord == [files : Projection, preserved : SUBSET Target, present : BOOLEAN]
Unmanaged(i, writes) ==
  Integrations!Restrict(installed[i].files, Integrations!Managed(i) \ DOMAIN writes)

IntegrationsTyped ==
  /\ disk \in [Target -> Integrations!Bytes]
  /\ desired \in [Integration -> Projection] /\ \A i \in Integration : desired[i] \in IntegrationOffers[i]
  /\ installed \in [Integration -> IntegrationRecord]
  /\ \A i \in Integration :
       \/ installed[i] = Integrations!NoRecord
       \/ installed[i].present /\ installed[i].files \in IntegrationOffers[i]
  /\ \/ journal = Integrations!NoJournal
     \/ \E op \in {"install", "upgrade", "repair", "remove"}, i \in Integration, deletes \in Projection :
          \E writes \in IF op = "remove" THEN {Integrations!Nothing} ELSE IntegrationOffers[i] :
            journal = [op |-> op, id |-> i, writes |-> writes, deletes |-> deletes]
  /\ p \in [pc : {"idle", "write", "delete", "clear"}, todo : SUBSET Target, preserved : SUBSET Target]
  /\ touched \subseteq edited /\ edited \subseteq Target /\ trouble \in 0 .. Troubles

(* The journal's operation is about what is installed now, or it has been  *)
(* installed; it deletes what is managed and not desired any more.         *)
IntegrationsPlanned ==
  /\ journal.deletes = Unmanaged(journal.id, journal.writes)
  /\ IF installed[journal.id].present THEN journal.op \in {"upgrade", "repair", "remove"} ELSE journal.op = "install"
IntegrationsCommitted ==
  IF journal.op = "remove" THEN ~installed[journal.id].present
  ELSE installed[journal.id].present /\ installed[journal.id].files = journal.writes

IntegrationsCall ==
  /\ p.pc # "idle" => journal.op # "none"
  /\ journal.op # "none" => DOMAIN journal.writes \cap DOMAIN journal.deletes = {}
  /\ journal.op # "none" /\ ~IntegrationsCommitted => IntegrationsPlanned
  /\ p.pc \in {"write", "delete"} => IntegrationsPlanned
  /\ p.pc = "write" => journal.op # "remove" /\ p.todo \subseteq DOMAIN journal.writes
  /\ p.pc = "delete" => p.todo \subseteq DOMAIN journal.deletes
  /\ p.pc = "clear" => IntegrationsCommitted

(* What nobody edited belongs to one integration and has its bytes, those  *)
(* that the journal's call has written, or none.                           *)
IntegrationsBytes ==
  \A f \in Target \ edited :
    /\ \A i \in Integration : f \in Integrations!Managed(i) =>
         /\ \/ disk[f] = installed[i].files[f]
            \/ journal.op # "none" /\ journal.id = i /\ f \in DOMAIN journal.writes /\ disk[f] = journal.writes[f]
            \/ journal.op # "none" /\ journal.id = i /\ f \in DOMAIN journal.deletes /\ disk[f] = Integrations!Absent
         /\ \A j \in Integration : f \in Integrations!Managed(j) => i = j
         /\ journal.op # "none" /\ f \in DOMAIN journal.writes => i = journal.id
    /\ journal.op # "none" /\ f \in DOMAIN journal.writes \ Integrations!Managed(journal.id) =>
         disk[f] \in {Integrations!Absent, journal.writes[f]}
    /\ p.pc = "delete" /\ f \in DOMAIN journal.deletes \ p.todo => disk[f] = Integrations!Absent

(* What nobody edited since the call began is free to be written, or is as *)
(* the call has written it.                                                *)
IntegrationsWritten ==
  p.pc \in {"write", "delete", "clear"} => \A f \in DOMAIN journal.writes \ touched :
    IF p.pc = "write" /\ f \in p.todo THEN disk[f] # Integrations!Own ELSE disk[f] = journal.writes[f]

(* What is not desired any more, and nobody edited since the call began,   *)
(* has lost the framework's bytes when the call has come to it; what had   *)
(* others before is preserved.                                             *)
IntegrationsDeleted ==
  p.pc \in {"write", "delete"} => \A f \in DOMAIN journal.deletes \ touched :
    /\ p.pc = "delete" /\ f \notin p.todo => disk[f] # journal.deletes[f]
    /\ journal.op # "remove" =>
         disk[f] = Integrations!Absent \/ disk[f] = journal.deletes[f] \/ f \in p.preserved

IntegrationsInv ==
  IntegrationsTyped /\ IntegrationsCall /\ IntegrationsBytes /\ IntegrationsWritten /\ IntegrationsDeleted

IntegrationsGoal == IntegrationsInv' /\ Integrations!KeepsOwn /\ Integrations!RecordIsTrue

(* What sources may ask for, nothing included. *)
LEMMA IntegrationOffered ==
  /\ \A i \in Integration : \A s \in IntegrationOffers[i] :
       s \in Projection /\ DOMAIN s \subseteq Target /\ \A f \in DOMAIN s : s[f] \in 1 .. Contents
  /\ Integrations!Nothing \in Projection /\ DOMAIN Integrations!Nothing = {}
  /\ Integrations!NoRecord \in IntegrationRecord
<1>1. ASSUME NEW i \in Integration, NEW s \in IntegrationOffers[i]
      PROVE  s \in Projection /\ DOMAIN s \subseteq Target /\ \A f \in DOMAIN s : s[f] \in 1 .. Contents
  <2>1. PICK F \in SUBSET Target : s \in [F -> 1 .. Contents]
    BY IntegrationAssumption
  <2> QED
    BY <2>1 DEF Projection
<1>2. Integrations!Nothing \in [{} -> 1 .. Contents] /\ {} \in SUBSET Target
  BY DEF Integrations!Nothing
<1>3. Integrations!Nothing \in Projection
  BY <1>2 DEF Projection
<1> QED
  BY <1>1, <1>2, <1>3 DEF Integrations!NoRecord, IntegrationRecord

(* What is projected is bytes of the framework's for some targets. *)
LEMMA ProjectionBytes ==
  ASSUME NEW s \in Projection
  PROVE  DOMAIN s \subseteq Target /\ \A f \in DOMAIN s : s[f] \in 1 .. Contents
<1>1. PICK F \in SUBSET Target : s \in [F -> 1 .. Contents]
  BY DEF Projection
<1> QED
  BY <1>1

(* What is installed, and what the journal is about. *)
LEMMA IntegrationKnown ==
  ASSUME IntegrationsTyped
  PROVE  /\ \A i \in Integration :
              /\ DOMAIN installed[i].files \subseteq Target
              /\ \A f \in DOMAIN installed[i].files : installed[i].files[f] \in 1 .. Contents
              /\ ~installed[i].present => DOMAIN installed[i].files = {}
              /\ installed[i].present => installed[i].files \in IntegrationOffers[i]
         /\ journal.id \in Integration
         /\ journal.op = "none" <=> journal = Integrations!NoJournal
         /\ journal.writes \in Projection /\ journal.deletes \in Projection
         /\ journal.op = "none" \/ journal.op = "remove" => journal.writes = Integrations!Nothing
         /\ journal.op \notin {"none", "remove"} => journal.writes \in IntegrationOffers[journal.id]
         /\ journal.op \in {"none", "install", "upgrade", "repair", "remove"}
         /\ journal.op # "none" =>
              journal = [op |-> journal.op, id |-> journal.id, writes |-> journal.writes, deletes |-> journal.deletes]
<1>1. ASSUME NEW i \in Integration
      PROVE  /\ DOMAIN installed[i].files \subseteq Target
             /\ \A f \in DOMAIN installed[i].files : installed[i].files[f] \in 1 .. Contents
             /\ ~installed[i].present => DOMAIN installed[i].files = {}
             /\ installed[i].present => installed[i].files \in IntegrationOffers[i]
  <2>1. CASE installed[i] = Integrations!NoRecord
    BY <2>1, IntegrationOffered DEF Integrations!NoRecord
  <2>2. CASE installed[i].present /\ installed[i].files \in IntegrationOffers[i]
    BY <2>2, IntegrationOffered
  <2> QED
    BY <2>1, <2>2 DEF IntegrationsTyped
<1>2. CASE journal = Integrations!NoJournal
  <2>1. journal.op = "none" /\ journal.id \in Integration
        /\ journal.writes = Integrations!Nothing /\ journal.deletes = Integrations!Nothing
    BY <1>2, IntegrationAssumption DEF Integrations!NoJournal
  <2> QED
    BY <1>1, <1>2, <2>1, IntegrationOffered
<1>3. CASE \E op \in {"install", "upgrade", "repair", "remove"}, i \in Integration, deletes \in Projection :
             \E writes \in IF op = "remove" THEN {Integrations!Nothing} ELSE IntegrationOffers[i] :
               journal = [op |-> op, id |-> i, writes |-> writes, deletes |-> deletes]
  <2>1. PICK op \in {"install", "upgrade", "repair", "remove"}, i \in Integration, deletes \in Projection :
               \E writes \in IF op = "remove" THEN {Integrations!Nothing} ELSE IntegrationOffers[i] :
                 journal = [op |-> op, id |-> i, writes |-> writes, deletes |-> deletes]
    BY <1>3
  <2>2. PICK writes \in IF op = "remove" THEN {Integrations!Nothing} ELSE IntegrationOffers[i] :
               journal = [op |-> op, id |-> i, writes |-> writes, deletes |-> deletes]
    BY <2>1
  <2>3. journal.op = op /\ journal.id = i /\ journal.writes = writes /\ journal.deletes = deletes
    BY <2>2
  <2>4. Integrations!NoJournal.op = "none"
    BY DEF Integrations!NoJournal
  <2>5. writes \in Projection
    BY IntegrationOffered
  <2> QED
    BY <1>1, <2>2, <2>3, <2>4, <2>5
<1> QED
  BY <1>2, <1>3 DEF IntegrationsTyped

(* What a plan deletes is part of what is installed. *)
LEMMA UnmanagedFiles ==
  ASSUME IntegrationsTyped, NEW i \in Integration, NEW writes
  PROVE  /\ Unmanaged(i, writes) \in Projection
         /\ DOMAIN Unmanaged(i, writes) = DOMAIN installed[i].files \ DOMAIN writes
         /\ \A f \in DOMAIN Unmanaged(i, writes) : Unmanaged(i, writes)[f] = installed[i].files[f]
<1>1. /\ DOMAIN Unmanaged(i, writes) = DOMAIN installed[i].files \ DOMAIN writes
      /\ \A f \in DOMAIN Unmanaged(i, writes) : Unmanaged(i, writes)[f] = installed[i].files[f]
      /\ Unmanaged(i, writes) =
           [f \in DOMAIN installed[i].files \ DOMAIN writes |-> installed[i].files[f]]
  BY DEF Unmanaged, Integrations!Restrict, Integrations!Managed
<1>2. Unmanaged(i, writes) \in [DOMAIN installed[i].files \ DOMAIN writes -> 1 .. Contents]
  BY <1>1, IntegrationKnown
<1>3. DOMAIN installed[i].files \ DOMAIN writes \in SUBSET Target
  BY IntegrationKnown
<1> QED
  BY <1>1, <1>2, <1>3 DEF Projection

(* Which file is next. *)
LEMMA IntegrationNext == ASSUME NEW F \in SUBSET Target, F # {} PROVE Integrations!Lowest(F) \in F
<1>1. \E f \in F : \A g \in F : f <= g
  BY IntegrationAssumption, HasLowest
<1> QED
  BY <1>1 DEF Integrations!Lowest

(* Before the first integration. *)
LEMMA IntegrationsStart == Integrations!Init => IntegrationsInv
<1> SUFFICES ASSUME Integrations!Init PROVE IntegrationsInv
  OBVIOUS
<1>1. /\ installed = [i \in Integration |-> Integrations!NoRecord] /\ journal = Integrations!NoJournal
      /\ p = [pc |-> "idle", todo |-> {}, preserved |-> {}]
      /\ disk \in [Target -> {0, -1}] /\ touched = {} /\ trouble = 0
      /\ edited = {f \in Target : disk[f] = -1}
      /\ DOMAIN desired = Integration /\ \A i \in Integration : desired[i] \in IntegrationOffers[i]
      /\ desired = [i \in Integration |-> desired[i]]
  BY DEF Integrations!Init, Integrations!Idle, Integrations!Absent, Integrations!Own
<1>2. journal.op = "none"
  BY <1>1 DEF Integrations!NoJournal
<1>3. desired \in [Integration -> Projection]
  BY <1>1, IntegrationOffered
<1>4. IntegrationsTyped
  BY <1>1, <1>3, IntegrationOffered, BoundsAssumption DEF IntegrationsTyped, Integrations!Bytes
<1>5. \A i \in Integration : Integrations!Managed(i) = {}
  BY <1>1, IntegrationOffered DEF Integrations!Managed, Integrations!NoRecord
<1>6. IntegrationsCall /\ IntegrationsBytes /\ IntegrationsWritten /\ IntegrationsDeleted
  BY <1>1, <1>2, <1>5 DEF IntegrationsCall, IntegrationsBytes, IntegrationsWritten, IntegrationsDeleted
<1> QED
  BY <1>4, <1>6 DEF IntegrationsInv

(* A call dies: what it has done remains, and the journal. *)
LEMMA IntegrationsCrash == ASSUME IntegrationsInv, Integrations!Crash PROVE IntegrationsGoal
<1> USE DEF IntegrationsInv
<1>1. /\ p' = [pc |-> "idle", todo |-> {}, preserved |-> {}] /\ trouble' = trouble + 1 /\ trouble < Troubles
      /\ UNCHANGED <<disk, desired, installed, journal, touched, edited>>
  BY DEF Integrations!Crash, Integrations!Idle, Integrations!Trouble
<1>2. p'.pc = "idle"
  BY <1>1
<1>3. IntegrationsTyped'
  BY <1>1, BoundsAssumption DEF IntegrationsTyped
<1>4. IntegrationsPlanned' = IntegrationsPlanned /\ IntegrationsCommitted' = IntegrationsCommitted
  BY <1>1 DEF IntegrationsPlanned, IntegrationsCommitted, Unmanaged, Integrations!Managed
<1>5. IntegrationsCall' /\ IntegrationsWritten' /\ IntegrationsDeleted'
  BY <1>1, <1>2, <1>4 DEF IntegrationsCall, IntegrationsWritten, IntegrationsDeleted
<1>6. IntegrationsBytes'
  BY <1>1, <1>2 DEF IntegrationsBytes, Integrations!Managed
<1> QED
  BY <1>1, <1>3, <1>5, <1>6 DEF IntegrationsGoal, Integrations!KeepsOwn, Integrations!RecordIsTrue

(* Somebody edits a target, or what a source asks for changes. *)
LEMMA IntegrationsEdit ==
  ASSUME IntegrationsInv, NEW f \in Target, NEW bytes \in {Integrations!Absent, Integrations!Own},
         Integrations!Edit(f, bytes)
  PROVE  IntegrationsGoal
<1> USE DEF IntegrationsInv
<1>1. /\ disk' = [disk EXCEPT ![f] = bytes] /\ bytes \in Integrations!Bytes
      /\ touched' = touched \cup {f} /\ edited' = edited \cup {f}
      /\ trouble' = trouble + 1 /\ trouble < Troubles /\ UNCHANGED <<desired, installed, journal, p>>
  BY BoundsAssumption
     DEF Integrations!Edit, Integrations!Trouble, Integrations!Absent, Integrations!Own, Integrations!Bytes
<1>2. \A g \in Target : g # f => disk'[g] = disk[g]
  BY <1>1 DEF IntegrationsTyped
<1>3. IntegrationsTyped'
  BY <1>1, BoundsAssumption DEF IntegrationsTyped
<1>4. IntegrationsPlanned' = IntegrationsPlanned /\ IntegrationsCommitted' = IntegrationsCommitted
  BY <1>1 DEF IntegrationsPlanned, IntegrationsCommitted, Unmanaged, Integrations!Managed
<1>5. IntegrationsCall'
  BY <1>1, <1>4 DEF IntegrationsCall
<1>6. IntegrationsBytes'
  BY <1>1, <1>2 DEF IntegrationsBytes, Integrations!Managed
<1>7. IntegrationsWritten' /\ IntegrationsDeleted'
  BY <1>1, <1>2, IntegrationKnown, ProjectionBytes DEF IntegrationsWritten, IntegrationsDeleted
<1> QED
  BY <1>1, <1>2, <1>3, <1>5, <1>6, <1>7 DEF IntegrationsGoal, Integrations!KeepsOwn, Integrations!RecordIsTrue

(* The manifest or a source changes. *)
LEMMA IntegrationsChange ==
  ASSUME IntegrationsInv, NEW i \in Integration, NEW s \in IntegrationOffers[i], Integrations!Change(i, s)
  PROVE  IntegrationsGoal
<1> USE DEF IntegrationsInv
<1>1. /\ desired' = [desired EXCEPT ![i] = s] /\ trouble' = trouble + 1 /\ trouble < Troubles
      /\ UNCHANGED <<disk, installed, journal, p, touched, edited>>
  BY DEF Integrations!Change, Integrations!Trouble
<1>2. IntegrationsTyped'
  BY <1>1, IntegrationOffered, BoundsAssumption DEF IntegrationsTyped
<1>3. IntegrationsPlanned' = IntegrationsPlanned /\ IntegrationsCommitted' = IntegrationsCommitted
  BY <1>1 DEF IntegrationsPlanned, IntegrationsCommitted, Unmanaged, Integrations!Managed
<1>4. IntegrationsCall' /\ IntegrationsBytes' /\ IntegrationsWritten' /\ IntegrationsDeleted'
  BY <1>1, <1>3 DEF IntegrationsCall, IntegrationsBytes, IntegrationsWritten, IntegrationsDeleted, Integrations!Managed
<1> QED
  BY <1>1, <1>2, <1>4 DEF IntegrationsGoal, Integrations!KeepsOwn, Integrations!RecordIsTrue

(* materialize_integration and repair_integration, for the first time or   *)
(* again.                                                                  *)
LEMMA IntegrationsMaterialize ==
  ASSUME IntegrationsInv, NEW i \in Integration, NEW request \in Integrations!Requests,
         Integrations!Materialize(i, request)
  PROVE  IntegrationsGoal
<1> USE DEF IntegrationsInv
<1> DEFINE op == IF installed[i].present THEN request ELSE "install"
<1>1. /\ p.pc = "idle" /\ UNCHANGED <<disk, desired, installed, edited, trouble>> /\ touched' = {}
      /\ journal = Integrations!NoJournal => ~Integrations!Conflicts(i)
      /\ Integrations!Admits(i, Integrations!Planned(i, request))
      /\ journal' = Integrations!Planned(i, request)
      /\ p' = [pc |-> "write", todo |-> Integrations!Targets(i), preserved |-> Integrations!ToPreserve(i)]
  BY DEF Integrations!Materialize
<1>2. /\ journal' = [op |-> op, id |-> i, writes |-> desired[i], deletes |-> Unmanaged(i, desired[i])]
      /\ op \in {"install", "upgrade", "repair"}
  BY <1>1 DEF Integrations!Planned, Unmanaged, Integrations!Targets, Integrations!Requests
<1>3. /\ journal'.op = op /\ journal'.id = i /\ journal'.writes = desired[i]
      /\ journal'.deletes = Unmanaged(i, desired[i])
  BY <1>2
<1>4. p'.pc = "write" /\ p'.todo = DOMAIN desired[i]
  BY <1>1 DEF Integrations!Targets
<1>5. desired[i] \in IntegrationOffers[i] /\ DOMAIN desired[i] \subseteq Target
      /\ \A f \in DOMAIN desired[i] : desired[i][f] \in 1 .. Contents
  BY IntegrationOffered DEF IntegrationsTyped
<1>6. /\ Unmanaged(i, desired[i]) \in Projection
      /\ DOMAIN Unmanaged(i, desired[i]) = DOMAIN installed[i].files \ DOMAIN desired[i]
  BY UnmanagedFiles
<1>7. IntegrationsTyped'
  <2>1. Integrations!ToPreserve(i) \subseteq Target
    BY IntegrationKnown
       DEF Integrations!ToPreserve, Integrations!Present, Integrations!Managed, IntegrationsTyped, IntegrationRecord
  <2>2. p' \in [pc : {"idle", "write", "delete", "clear"}, todo : SUBSET Target, preserved : SUBSET Target]
    BY <1>1, <1>5, <2>1 DEF Integrations!Targets
  <2>3. \E o \in {"install", "upgrade", "repair", "remove"}, j \in Integration, deletes \in Projection :
          \E writes \in IF o = "remove" THEN {Integrations!Nothing} ELSE IntegrationOffers[j] :
            journal' = [op |-> o, id |-> j, writes |-> writes, deletes |-> deletes]
    BY <1>2, <1>5, <1>6
  <2> QED
    BY <1>1, <2>2, <2>3 DEF IntegrationsTyped
<1>8. IntegrationsPlanned'
  <2>1. Unmanaged(i, desired[i])' = Unmanaged(i, desired[i])
    BY <1>1 DEF Unmanaged, Integrations!Managed
  <2> QED
    BY <1>1, <1>3, <2>1 DEF IntegrationsPlanned, Integrations!Requests, Unmanaged, Integrations!Managed
<1>9. IntegrationsCall'
  BY <1>2, <1>3, <1>4, <1>6, <1>8 DEF IntegrationsCall
<1>10. \A f \in DOMAIN desired[i] :
         \/ disk[f] = 0
         \/ f \in DOMAIN installed[i].files /\ disk[f] = installed[i].files[f]
         \/ disk[f] = desired[i][f]
  BY <1>1 DEF Integrations!Admits, Integrations!Present, Integrations!Targets, Integrations!Managed,
              Integrations!Absent
<1>11. IntegrationsWritten'
  <2>1. \A f \in DOMAIN desired[i] : disk[f] # -1
    BY <1>5, <1>10, IntegrationKnown, BoundsAssumption
  <2> QED
    BY <1>1, <1>3, <1>4, <2>1 DEF IntegrationsWritten, Integrations!Own
<1>12. journal.op = "none" \/ journal = journal'
  BY <1>1, IntegrationKnown DEF Integrations!Admits
<1>13. IntegrationsBytes'
  <2>1. CASE journal = journal' /\ journal.op # "none"
    BY <1>1, <1>4, <2>1 DEF IntegrationsBytes, Integrations!Managed
  <2>2. CASE journal.op = "none"
    <3>1. \A f \in DOMAIN desired[i] : disk[f] # 0 => f \in DOMAIN installed[i].files
      BY <1>1, <2>2, IntegrationKnown
         DEF Integrations!Conflicts, Integrations!Present, Integrations!Targets, Integrations!Managed,
             Integrations!Absent
    <3>2. \A f \in Target \ edited, j \in Integration : f \in DOMAIN installed[j].files =>
            /\ disk[f] = installed[j].files[f] /\ disk[f] # 0
            /\ \A k \in Integration : f \in DOMAIN installed[k].files => j = k
      BY <2>2, IntegrationKnown DEF IntegrationsBytes, Integrations!Managed
    <3> QED
      BY <1>1, <1>2, <1>3, <1>4, <3>1, <3>2 DEF IntegrationsBytes, Integrations!Managed, Integrations!Absent
  <2> QED
    BY <1>12, <2>1, <2>2
<1>14. IntegrationsDeleted'
  <2> SUFFICES ASSUME NEW f \in DOMAIN Unmanaged(i, desired[i]), disk[f] # 0, disk[f] # Unmanaged(i, desired[i])[f]
               PROVE  f \in p'.preserved
    BY <1>1, <1>3, <1>4 DEF IntegrationsDeleted, Integrations!Absent
  <2>1. f \in DOMAIN installed[i].files \ DOMAIN desired[i] /\ disk[f] # installed[i].files[f]
    BY UnmanagedFiles
  <2>2. f \in Integrations!ToPreserve(i)
    BY <2>1 DEF Integrations!ToPreserve, Integrations!Present, Integrations!Managed, Integrations!Targets,
                Integrations!Absent
  <2> QED
    BY <1>1, <2>2
<1> QED
  BY <1>1, <1>7, <1>9, <1>11, <1>13, <1>14 DEF IntegrationsGoal, Integrations!KeepsOwn, Integrations!RecordIsTrue

(* remove_integration, for the first time or again. *)
LEMMA IntegrationsRemove ==
  ASSUME IntegrationsInv, NEW i \in Integration, Integrations!Remove(i)
  PROVE  IntegrationsGoal
<1> USE DEF IntegrationsInv
<1>1. /\ p.pc = "idle" /\ installed[i].present
      /\ UNCHANGED <<disk, desired, installed, edited, trouble>> /\ touched' = {}
      /\ journal = Integrations!NoJournal \/ journal = journal'
      /\ journal' = [op |-> "remove", id |-> i, writes |-> Integrations!Nothing, deletes |-> installed[i].files]
      /\ p' = [pc |-> "delete", todo |-> DOMAIN installed[i].files, preserved |-> {}]
  BY DEF Integrations!Remove, Integrations!Removal, Integrations!Managed
<1>2. /\ journal'.op = "remove" /\ journal'.id = i /\ journal'.writes = Integrations!Nothing
      /\ journal'.deletes = installed[i].files
  BY <1>1
<1>3. p'.pc = "delete" /\ p'.todo = DOMAIN installed[i].files
  BY <1>1
<1>4. installed[i].files \in Projection /\ DOMAIN installed[i].files \subseteq Target
  BY IntegrationKnown DEF IntegrationsTyped, IntegrationRecord
<1>5. IntegrationsTyped'
  <2>1. \E o \in {"install", "upgrade", "repair", "remove"}, j \in Integration, deletes \in Projection :
          \E writes \in IF o = "remove" THEN {Integrations!Nothing} ELSE IntegrationOffers[j] :
            journal' = [op |-> o, id |-> j, writes |-> writes, deletes |-> deletes]
    BY <1>1, <1>4
  <2> QED
    BY <1>1, <1>4, <2>1 DEF IntegrationsTyped
<1>6. IntegrationsPlanned'
  <2>1. Unmanaged(i, Integrations!Nothing) = installed[i].files
    <3>1. PICK F \in SUBSET Target : installed[i].files \in [F -> 1 .. Contents]
      BY <1>4 DEF Projection
    <3>2. DOMAIN Integrations!Nothing = {}
      BY IntegrationOffered
    <3>3. Unmanaged(i, Integrations!Nothing) = [f \in F \ {} |-> installed[i].files[f]]
      BY <3>1, <3>2 DEF Unmanaged, Integrations!Restrict, Integrations!Managed
    <3> QED
      BY <3>1, <3>3
  <2>2. Unmanaged(i, Integrations!Nothing)' = Unmanaged(i, Integrations!Nothing)
    BY <1>1 DEF Unmanaged, Integrations!Managed
  <2> QED
    BY <1>1, <1>2, <2>1, <2>2 DEF IntegrationsPlanned, Unmanaged, Integrations!Managed
<1>7. IntegrationsCall'
  BY <1>2, <1>3, <1>6, IntegrationOffered DEF IntegrationsCall
<1>8. IntegrationsWritten' /\ IntegrationsDeleted'
  BY <1>2, <1>3, IntegrationOffered DEF IntegrationsWritten, IntegrationsDeleted
<1>9. IntegrationsBytes'
  <2>1. DOMAIN journal'.writes = {}
    BY <1>2, IntegrationOffered
  <2>2. CASE journal = journal' /\ journal.op # "none"
    BY <1>1, <1>2, <1>3, <2>1, <2>2 DEF IntegrationsBytes, Integrations!Managed
  <2>3. CASE journal.op = "none"
    BY <1>1, <1>2, <1>3, <2>1, <2>3 DEF IntegrationsBytes, Integrations!Managed
  <2> QED
    BY <1>1, <1>2, <2>2, <2>3, IntegrationKnown
<1> QED
  BY <1>1, <1>5, <1>7, <1>8, <1>9 DEF IntegrationsGoal, Integrations!KeepsOwn, Integrations!RecordIsTrue

(* What the journal deletes, while the call goes on. *)
LEMMA IntegrationsDeletes ==
  ASSUME IntegrationsTyped, IntegrationsPlanned
  PROVE  /\ DOMAIN journal.deletes = DOMAIN installed[journal.id].files \ DOMAIN journal.writes
         /\ \A f \in DOMAIN journal.deletes :
              journal.deletes[f] = installed[journal.id].files[f] /\ journal.deletes[f] \in 1 .. Contents
         /\ DOMAIN journal.deletes \subseteq Target
<1> DEFINE i == journal.id
           writes == journal.writes
<1>1. i \in Integration /\ journal.deletes = Unmanaged(i, writes)
  BY IntegrationKnown DEF IntegrationsPlanned
<1> HIDE DEF i, writes
<1>2. /\ DOMAIN Unmanaged(i, writes) = DOMAIN installed[i].files \ DOMAIN writes
      /\ \A f \in DOMAIN Unmanaged(i, writes) : Unmanaged(i, writes)[f] = installed[i].files[f]
  BY <1>1, UnmanagedFiles
<1>3. DOMAIN installed[i].files \subseteq Target /\ \A f \in DOMAIN installed[i].files : installed[i].files[f] \in 1 .. Contents
  BY <1>1, IntegrationKnown
<1> QED
  BY <1>1, <1>2, <1>3 DEF i, writes

(* A target is written. *)
LEMMA IntegrationsWrite == ASSUME IntegrationsInv, Integrations!Write PROVE IntegrationsGoal
<1> USE DEF IntegrationsInv
<1>1. /\ p.pc = "write" /\ UNCHANGED <<desired, installed, journal, edited, trouble>>
      /\ journal.op \notin {"none", "remove"} /\ p.todo \subseteq DOMAIN journal.writes /\ IntegrationsPlanned
      /\ journal.id \in Integration
      /\ DOMAIN journal.writes \subseteq Target
      /\ \A f \in DOMAIN journal.writes : journal.writes[f] \in 1 .. Contents
  BY IntegrationKnown, ProjectionBytes DEF Integrations!Write, IntegrationsCall
<1>2. IntegrationsPlanned' = IntegrationsPlanned /\ IntegrationsCommitted' = IntegrationsCommitted
  BY <1>1 DEF IntegrationsPlanned, IntegrationsCommitted, Unmanaged, Integrations!Managed
<1>3. /\ DOMAIN journal.deletes = DOMAIN installed[journal.id].files \ DOMAIN journal.writes
      /\ \A f \in DOMAIN journal.deletes : journal.deletes[f] = installed[journal.id].files[f]
      /\ DOMAIN journal.deletes \subseteq Target
  BY <1>1, IntegrationsDeletes
<1>4. CASE p.todo = {}
  <2>1. /\ p' = [p EXCEPT !.pc = "delete", !.todo = DOMAIN journal.deletes] /\ UNCHANGED <<disk, touched>>
    BY <1>4 DEF Integrations!Write
  <2>2. /\ p'.pc = "delete" /\ p'.todo = DOMAIN journal.deletes
        /\ p' \in [pc : {"idle", "write", "delete", "clear"}, todo : SUBSET Target, preserved : SUBSET Target]
    BY <1>3, <2>1 DEF IntegrationsTyped
  <2>3. IntegrationsTyped'
    BY <1>1, <2>1, <2>2 DEF IntegrationsTyped
  <2>4. IntegrationsCall'
    BY <1>1, <1>2, <2>2 DEF IntegrationsCall
  <2>5. IntegrationsBytes' /\ IntegrationsWritten'
    BY <1>1, <1>4, <2>1, <2>2 DEF IntegrationsBytes, IntegrationsWritten, Integrations!Managed
  <2>6. IntegrationsDeleted'
    <3>1. p'.preserved = p.preserved
      BY <2>1 DEF IntegrationsTyped
    <3> QED
      BY <1>1, <2>1, <2>2, <3>1 DEF IntegrationsDeleted
  <2> QED
    BY <1>1, <2>1, <2>3, <2>4, <2>5, <2>6 DEF IntegrationsGoal, Integrations!KeepsOwn, Integrations!RecordIsTrue
<1>5. CASE p.todo # {}
  <2> DEFINE f == Integrations!Lowest(p.todo)
  <2>1. f \in p.todo
    BY <1>5, IntegrationNext DEF IntegrationsTyped
  <2> HIDE DEF f
  <2>2. /\ disk' = [disk EXCEPT ![f] = journal.writes[f]] /\ touched' = touched \ {f}
        /\ p' = [p EXCEPT !.todo = @ \ {f}]
    BY <1>5 DEF Integrations!Write, f
  <2>3. p'.pc = "write" /\ p'.todo = p.todo \ {f} /\ p'.preserved = p.preserved
    BY <1>1, <2>2 DEF IntegrationsTyped
  <2>4. /\ f \in Target /\ journal.writes[f] \in 1 .. Contents /\ disk'[f] = journal.writes[f]
        /\ \A g \in Target : g # f => disk'[g] = disk[g]
    BY <1>1, <2>1, <2>2 DEF IntegrationsTyped
  <2>5. IntegrationsTyped'
    <3>1. disk' \in [Target -> Integrations!Bytes]
      BY <2>2, <2>4, BoundsAssumption DEF IntegrationsTyped, Integrations!Bytes
    <3> QED
      BY <1>1, <2>2, <3>1 DEF IntegrationsTyped
  <2>6. IntegrationsCall'
    BY <1>1, <1>2, <2>3 DEF IntegrationsCall
  <2>7. IntegrationsBytes'
    BY <1>1, <1>3, <2>1, <2>3, <2>4 DEF IntegrationsBytes, Integrations!Managed
  <2>8. IntegrationsWritten'
    BY <1>1, <2>1, <2>2, <2>3, <2>4 DEF IntegrationsWritten
  <2>9. Integrations!KeepsOwn
    BY <1>1, <2>1, <2>4 DEF Integrations!KeepsOwn, IntegrationsWritten
  <2>10. IntegrationsDeleted'
    BY <1>1, <1>3, <2>1, <2>2, <2>3, <2>4 DEF IntegrationsDeleted
  <2> QED
    BY <1>1, <2>5, <2>6, <2>7, <2>8, <2>9, <2>10 DEF IntegrationsGoal, Integrations!RecordIsTrue
<1> QED
  BY <1>4, <1>5

(* A target that is not desired any more is deleted if it is clean. *)
LEMMA IntegrationsDelete == ASSUME IntegrationsInv, Integrations!Delete PROVE IntegrationsGoal
<1> USE DEF IntegrationsInv
<1> DEFINE f == Integrations!Lowest(p.todo)
<1>1. f \in p.todo /\ f \in Target
  BY IntegrationNext DEF Integrations!Delete, IntegrationsTyped
<1> HIDE DEF f
<1>2. /\ p.pc = "delete" /\ UNCHANGED <<desired, installed, journal, edited, trouble>>
      /\ disk' = IF disk[f] = journal.deletes[f] THEN [disk EXCEPT ![f] = 0] ELSE disk
      /\ p' = [p EXCEPT !.todo = @ \ {f}]
      /\ touched' = IF disk[f] = journal.deletes[f] THEN touched \ {f} ELSE touched
  BY DEF Integrations!Delete, Integrations!Deletable, Integrations!Absent, f
<1>3. IntegrationsPlanned' = IntegrationsPlanned /\ IntegrationsCommitted' = IntegrationsCommitted
  BY <1>2 DEF IntegrationsPlanned, IntegrationsCommitted, Unmanaged, Integrations!Managed
<1>4. /\ journal.op # "none" /\ IntegrationsPlanned /\ p.todo \subseteq DOMAIN journal.deletes
      /\ journal.id \in Integration
  BY <1>2, IntegrationKnown DEF IntegrationsCall
<1>5. /\ f \in DOMAIN installed[journal.id].files /\ f \in DOMAIN journal.deletes
      /\ f \notin DOMAIN journal.writes
      /\ journal.deletes[f] = installed[journal.id].files[f] /\ journal.deletes[f] \in 1 .. Contents
  BY <1>1, <1>4, IntegrationsDeletes
<1>6. p'.pc = "delete" /\ p'.todo = p.todo \ {f} /\ p'.preserved = p.preserved
  BY <1>2 DEF IntegrationsTyped
<1>7. /\ disk'[f] = IF disk[f] = journal.deletes[f] THEN 0 ELSE disk[f]
      /\ \A g \in Target : g # f => disk'[g] = disk[g]
  BY <1>1, <1>2 DEF IntegrationsTyped
<1>8. IntegrationsTyped'
  <2>1. disk' \in [Target -> Integrations!Bytes]
    BY <1>1, <1>2, BoundsAssumption DEF IntegrationsTyped, Integrations!Bytes
  <2> QED
    BY <1>2, <2>1 DEF IntegrationsTyped
<1>9. IntegrationsCall'
  BY <1>2, <1>3, <1>4, <1>6 DEF IntegrationsCall
<1>10. f \notin edited => disk'[f] = 0
  <2> SUFFICES ASSUME f \notin edited PROVE disk[f] \in {0, journal.deletes[f]}
    BY <1>7
  <2> QED
    BY <1>1, <1>4, <1>5 DEF IntegrationsBytes, Integrations!Managed, Integrations!Absent
<1>11. IntegrationsBytes'
  <2> SUFFICES ASSUME NEW g \in Target \ edited
               PROVE  /\ \A i \in Integration : g \in DOMAIN installed[i].files =>
                           /\ \/ disk'[g] = installed[i].files[g]
                              \/ journal.id = i /\ g \in DOMAIN journal.writes /\ disk'[g] = journal.writes[g]
                              \/ journal.id = i /\ g \in DOMAIN journal.deletes /\ disk'[g] = 0
                           /\ \A j \in Integration : g \in DOMAIN installed[j].files => i = j
                           /\ g \in DOMAIN journal.writes => i = journal.id
                      /\ g \in DOMAIN journal.writes \ DOMAIN installed[journal.id].files =>
                           disk'[g] \in {0, journal.writes[g]}
                      /\ g \in DOMAIN journal.deletes \ p'.todo => disk'[g] = 0
    BY <1>2, <1>4, <1>6 DEF IntegrationsBytes, Integrations!Managed, Integrations!Absent
  <2>1. CASE g = f
    BY <1>4, <1>5, <1>10, <2>1 DEF IntegrationsBytes, Integrations!Managed
  <2>2. CASE g # f
    BY <1>2, <1>4, <1>6, <1>7, <2>2 DEF IntegrationsBytes, Integrations!Managed, Integrations!Absent
  <2> QED
    BY <2>1, <2>2
<1>12. IntegrationsWritten'
  BY <1>2, <1>5, <1>6, <1>7, IntegrationKnown, ProjectionBytes DEF IntegrationsWritten
<1>13. Integrations!KeepsOwn
  BY <1>5, <1>7, BoundsAssumption DEF Integrations!KeepsOwn, Integrations!Own
<1>14. IntegrationsDeleted'
  <2> SUFFICES ASSUME NEW g \in DOMAIN journal.deletes \ touched'
               PROVE  /\ g \notin p'.todo => disk'[g] # journal.deletes[g]
                      /\ journal.op # "remove" =>
                           disk'[g] = 0 \/ disk'[g] = journal.deletes[g] \/ g \in p.preserved
    BY <1>2, <1>6 DEF IntegrationsDeleted, Integrations!Absent
  <2>1. CASE g = f /\ disk[f] = journal.deletes[f]
    BY <1>5, <1>7, <2>1, BoundsAssumption
  <2>2. CASE g = f /\ disk[f] # journal.deletes[f]
    BY <1>2, <1>7, <2>2 DEF IntegrationsDeleted, Integrations!Absent
  <2>3. CASE g # f
    <3>1. g \in Target /\ g \notin touched /\ disk'[g] = disk[g]
      BY <1>2, <1>4, <1>7, <2>3, IntegrationsDeletes
    <3> QED
      BY <1>2, <1>6, <2>3, <3>1 DEF IntegrationsDeleted, Integrations!Absent
  <2> QED
    BY <2>1, <2>2, <2>3
<1> QED
  BY <1>2, <1>8, <1>9, <1>11, <1>12, <1>13, <1>14 DEF IntegrationsGoal, Integrations!RecordIsTrue

(* The install state is written. *)
LEMMA IntegrationsState == ASSUME IntegrationsInv, Integrations!WriteState PROVE IntegrationsGoal
<1> USE DEF IntegrationsInv
<1> DEFINE new == IF journal.op = "remove" THEN Integrations!NoRecord
                  ELSE [files |-> journal.writes, preserved |-> p.preserved, present |-> TRUE]
           i == journal.id
<1>1. /\ p.pc = "delete" /\ p.todo = {} /\ UNCHANGED <<disk, desired, journal, touched, edited, trouble>>
      /\ installed' = [installed EXCEPT ![i] = new] /\ p' = [p EXCEPT !.pc = "clear"]
  BY DEF Integrations!WriteState, Integrations!MayWriteState
<1>2. /\ journal.op # "none" /\ IntegrationsPlanned /\ i \in Integration
      /\ DOMAIN journal.writes \subseteq Target
      /\ DOMAIN journal.deletes = DOMAIN installed[i].files \ DOMAIN journal.writes
      /\ \A f \in DOMAIN journal.deletes : journal.deletes[f] = installed[i].files[f]
  BY <1>1, IntegrationsDeletes, IntegrationKnown, ProjectionBytes DEF IntegrationsCall
<1>3. /\ new \in IntegrationRecord
      /\ DOMAIN new.files = DOMAIN journal.writes /\ \A f \in DOMAIN new.files : new.files[f] = journal.writes[f]
      /\ IF journal.op = "remove" THEN new = Integrations!NoRecord /\ ~new.present
         ELSE /\ new.present /\ new.files = journal.writes /\ new.files \in IntegrationOffers[i]
              /\ new.preserved = p.preserved
  BY <1>2, IntegrationOffered, IntegrationKnown DEF IntegrationRecord, Integrations!NoRecord, IntegrationsTyped
<1>4. installed'[i] = new /\ \A j \in Integration : j # i => installed'[j] = installed[j]
  BY <1>1, <1>2 DEF IntegrationsTyped
<1> HIDE DEF new
<1>5. p'.pc = "clear" /\ p'.todo = {}
  BY <1>1 DEF IntegrationsTyped
<1>6. IntegrationsTyped'
  <2>1. installed' \in [Integration -> IntegrationRecord]
    BY <1>1, <1>3 DEF IntegrationsTyped
  <2>2. \A j \in Integration : installed'[j] = Integrations!NoRecord
          \/ (installed'[j].present /\ installed'[j].files \in IntegrationOffers[j])
    BY <1>2, <1>3, <1>4 DEF IntegrationsTyped
  <2> QED
    BY <1>1, <2>1, <2>2 DEF IntegrationsTyped
<1>7. IntegrationsCommitted' /\ IntegrationsCall'
  <2>1. IntegrationsCommitted'
    BY <1>1, <1>3, <1>4 DEF IntegrationsCommitted
  <2> QED
    BY <1>1, <1>2, <1>5, <2>1 DEF IntegrationsCall
<1>8. \A f \in DOMAIN journal.writes \ touched : disk[f] = journal.writes[f]
  BY <1>1 DEF IntegrationsWritten
<1>9. \A f \in Target \ edited : f \in DOMAIN installed[i].files \ DOMAIN journal.writes => disk[f] = 0
  BY <1>1, <1>2 DEF IntegrationsBytes, Integrations!Absent
<1>10. IntegrationsBytes'
  <2> SUFFICES ASSUME NEW f \in Target \ edited
               PROVE  /\ \A j \in Integration : f \in DOMAIN installed'[j].files =>
                           /\ disk[f] = installed'[j].files[f]
                           /\ \A k \in Integration : f \in DOMAIN installed'[k].files => j = k
                           /\ f \in DOMAIN journal.writes => j = i
                      /\ f \in DOMAIN journal.writes => disk[f] = journal.writes[f]
    BY <1>1, <1>5 DEF IntegrationsBytes, Integrations!Managed, Integrations!Absent
  <2>1. f \in DOMAIN journal.writes => disk[f] = journal.writes[f]
    BY <1>8 DEF IntegrationsTyped
  <2>2. \A j \in Integration : f \in DOMAIN installed[j].files =>
          /\ j # i => disk[f] = installed[j].files[f]
          /\ \A k \in Integration : f \in DOMAIN installed[k].files => j = k
          /\ f \in DOMAIN journal.writes => j = i
    BY <1>2 DEF IntegrationsBytes, Integrations!Managed
  <2> QED
    BY <1>2, <1>3, <1>4, <2>1, <2>2
<1>11. IntegrationsWritten' /\ IntegrationsDeleted' /\ Integrations!KeepsOwn
  BY <1>1, <1>5, <1>8 DEF IntegrationsWritten, IntegrationsDeleted, Integrations!KeepsOwn
<1>12. Integrations!RecordIsTrue
  <2>1. \A f \in DOMAIN new.files \ touched : disk[f] = new.files[f]
    BY <1>3, <1>8
  <2>2. ASSUME NEW f \in DOMAIN installed[i].files \ (DOMAIN new.files \cup touched)
        PROVE  /\ disk[f] # installed[i].files[f]
               /\ disk[f] # 0 /\ new.present => f \in new.preserved
    <3>1. f \in DOMAIN journal.deletes \ touched /\ journal.deletes[f] = installed[i].files[f]
      BY <1>2, <1>3
    <3> QED
      BY <1>1, <1>3, <3>1 DEF IntegrationsDeleted, Integrations!Absent
  <2> QED
    BY <1>4, <2>1, <2>2 DEF Integrations!RecordIsTrue, Integrations!Managed, Integrations!Absent
<1> QED
  BY <1>6, <1>7, <1>10, <1>11, <1>12 DEF IntegrationsGoal

(* The journal is cleared: what it was about is done. *)
LEMMA IntegrationsCleared ==
  ASSUME IntegrationsInv, p.pc \in {"idle", "clear"}, journal.op # "none", IntegrationsCommitted,
         p' = Integrations!Idle \/ (p.pc = "idle" /\ UNCHANGED p), journal' = Integrations!NoJournal,
         UNCHANGED <<disk, desired, installed, touched, edited, trouble>>
  PROVE  IntegrationsGoal
<1> USE DEF IntegrationsInv
<1>1. p' = [pc |-> "idle", todo |-> {}, preserved |-> {}] \/ (p.pc = "idle" /\ UNCHANGED p)
  BY DEF Integrations!Idle
<1>2. p'.pc = "idle" /\ journal'.op = "none"
  BY <1>1 DEF Integrations!NoJournal
<1>3. IntegrationsTyped'
  BY <1>1 DEF IntegrationsTyped
<1>4. IntegrationsCall' /\ IntegrationsWritten' /\ IntegrationsDeleted'
  BY <1>2 DEF IntegrationsCall, IntegrationsWritten, IntegrationsDeleted
<1>5. ASSUME NEW f \in Target \ edited, NEW i \in Integration, f \in DOMAIN installed[i].files
      PROVE  /\ disk[f] = installed[i].files[f]
             /\ \A j \in Integration : f \in DOMAIN installed[j].files => i = j
  <2>1. /\ \/ disk[f] = installed[i].files[f]
           \/ journal.id = i /\ f \in DOMAIN journal.writes /\ disk[f] = journal.writes[f]
           \/ journal.id = i /\ f \in DOMAIN journal.deletes /\ disk[f] = 0
        /\ \A j \in Integration : f \in DOMAIN installed[j].files => i = j
    BY <1>5 DEF IntegrationsBytes, Integrations!Managed, Integrations!Absent
  <2>2. journal.id = i => journal.op # "remove" /\ installed[i].files = journal.writes
    BY <1>5, IntegrationKnown DEF IntegrationsCommitted
  <2>3. journal.id = i => f \notin DOMAIN journal.deletes
    BY <1>5, <2>2 DEF IntegrationsCall
  <2> QED
    BY <1>5, <2>1, <2>2, <2>3
<1>6. IntegrationsBytes'
  BY <1>2, <1>5 DEF IntegrationsBytes, Integrations!Managed
<1> QED
  BY <1>3, <1>4, <1>6 DEF IntegrationsGoal, Integrations!KeepsOwn, Integrations!RecordIsTrue

(* Every call on integrations keeps the invariant, own bytes and true      *)
(* records.                                                                *)
LEMMA IntegrationsSteps == ASSUME IntegrationsInv, Integrations!Next PROVE IntegrationsGoal
<1>1. ASSUME NEW i \in Integration, Integrations!ClearCommitted(i) \/ Integrations!RemoveAgain(i)
      PROVE  IntegrationsGoal
  <2>1. /\ p.pc = "idle" /\ journal.op # "none" /\ IntegrationsCommitted
        /\ journal' = Integrations!NoJournal
        /\ UNCHANGED <<disk, desired, installed, p, touched, edited, trouble>>
    <3>1. CASE Integrations!ClearCommitted(i)
      BY <3>1 DEF Integrations!ClearCommitted, Integrations!AlreadyCommitted, IntegrationsCommitted
    <3>2. CASE Integrations!RemoveAgain(i)
      BY <3>2 DEF Integrations!RemoveAgain, IntegrationsCommitted
    <3> QED
      BY <1>1, <3>1, <3>2
  <2> QED
    BY <2>1, IntegrationsCleared
<1>2. ASSUME Integrations!ClearJournal PROVE IntegrationsGoal
  BY <1>2, IntegrationsCleared DEF Integrations!ClearJournal, IntegrationsInv, IntegrationsCall
<1> QED
  BY <1>1, <1>2, IntegrationsMaterialize, IntegrationsRemove, IntegrationsChange, IntegrationsEdit,
     IntegrationsCrash, IntegrationsWrite, IntegrationsDelete, IntegrationsState
     DEF Integrations!Next, Integrations!Goes

(* What the invariant is for: an interrupted call can be finished.  What   *)
(* was planned is still the plan, and what it has to write is as it was,   *)
(* or written.                                                             *)
LEMMA IntegrationsCanBeFinished == IntegrationsInv => Integrations!CanBeFinished
<1> USE DEF IntegrationsInv
<1> SUFFICES ASSUME IntegrationsInv, Integrations!Interrupted, Integrations!UntouchedSince, journal.op # "remove",
                    ~Integrations!AlreadyCommitted(journal.id)
             PROVE  \E request \in Integrations!Requests :
                      Integrations!Admits(journal.id, Integrations!Planned(journal.id, request))
  BY DEF Integrations!CanBeFinished
<1> DEFINE i == journal.id
<1>1. /\ i \in Integration /\ journal.op \in {"install", "upgrade", "repair"}
      /\ journal.writes = desired[i] /\ DOMAIN desired[i] \cap edited = {}
      /\ journal = [op |-> journal.op, id |-> i, writes |-> desired[i], deletes |-> journal.deletes]
      /\ DOMAIN desired[i] \subseteq Target
  BY IntegrationKnown, ProjectionBytes DEF Integrations!Interrupted, Integrations!UntouchedSince
<1>2. ~IntegrationsCommitted
  BY <1>1 DEF Integrations!AlreadyCommitted, IntegrationsCommitted
<1>3. IntegrationsPlanned
  BY <1>1, <1>2 DEF IntegrationsCall
<1>4. PICK request \in Integrations!Requests :
        journal.op = IF installed[i].present THEN request ELSE "install"
  BY <1>1, <1>3 DEF IntegrationsPlanned, Integrations!Requests
<1>5. journal = Integrations!Planned(i, request)
  <2>1. journal.deletes = Integrations!Restrict(installed[i].files, Integrations!Managed(i) \ Integrations!Targets(i))
    BY <1>1, <1>3 DEF IntegrationsPlanned, Unmanaged, Integrations!Targets
  <2> QED
    BY <1>1, <1>4, <2>1 DEF Integrations!Planned
<1>6. ASSUME NEW f \in Integrations!Present(Integrations!Targets(i))
      PROVE  (f \in Integrations!Managed(i) /\ disk[f] = installed[i].files[f]) \/ disk[f] = desired[i][f]
  <2>1. f \in DOMAIN desired[i] /\ f \in Target \ edited /\ disk[f] # 0
    BY <1>1 DEF Integrations!Present, Integrations!Targets, Integrations!Absent
  <2>2. f \notin DOMAIN journal.deletes
    BY <1>1, <2>1 DEF IntegrationsCall
  <2> QED
    BY <1>1, <2>1, <2>2 DEF IntegrationsBytes, Integrations!Managed, Integrations!Absent
<1> QED
  BY <1>5, <1>6 DEF Integrations!Admits

(* And the types, and one owner of each target.                            *)
LEMMA IntegrationsAreSafe ==
  IntegrationsInv => Integrations!TypeOK /\ Integrations!CanBeFinished /\ Integrations!OneOwner
<1> SUFFICES ASSUME IntegrationsInv PROVE Integrations!TypeOK /\ Integrations!OneOwner
  BY IntegrationsCanBeFinished
<1> USE DEF IntegrationsInv
<1>1. desired \in [Integration -> UNION {IntegrationOffers[i] : i \in Integration}]
  BY DEF IntegrationsTyped
<1>2. journal.op \in {"upgrade", "repair", "none", "install", "remove"}
  BY IntegrationKnown
<1>3. Integrations!TypeOK
  BY <1>1, <1>2 DEF IntegrationsTyped, Integrations!TypeOK, Integrations!Requests
<1>4. ASSUME NEW f \in Target \ edited
      PROVE  Integrations!Cardinality({i \in Integration : f \in Integrations!Managed(i)}) <= 1
  <2> DEFINE S == {i \in Integration : f \in Integrations!Managed(i)}
  <2>1. Integrations!Cardinality(S) = Cardinality(S)
    BY DEF Integrations!Cardinality, Cardinality
  <2>2. \A i, j \in S : i = j
    BY DEF IntegrationsBytes
  <2> HIDE DEF S
  <2>3. CASE S = {}
    <3>1. Cardinality(S) = 0
      BY <2>3, FS_EmptySet
    <3> QED
      BY <2>1, <3>1 DEF S
  <2>4. CASE S # {}
    <3>1. PICK i : S = {i}
      BY <2>2, <2>4
    <3>2. Cardinality({i}) = 1
      BY FS_Singleton
    <3> QED
      BY <2>1, <3>1, <3>2 DEF S
  <2> QED
    BY <2>3, <2>4
<1> QED
  BY <1>3, <1>4 DEF Integrations!OneOwner

-----------------------------------------------------------------------------
(* Promotion.                                                              *)
Texts == {<<>>} \cup UNION {[D -> Promotion!Text] : D \in SUBSET Promotion!Domain}
PromotionPc == {"idle", "diff", "approval", "capture", "replace", "archive", "cleanup", "undo"}
PromotionCalls == [pc : PromotionPc, f : Feature, revision : 0 .. Revisions, before : Texts,
                   applied : SUBSET Promotion!Domain, failed : SUBSET Promotion!Domain,
                   touched : SUBSET Promotion!Domain, named : BOOLEAN]
Workspace == [status : {"active", "archived"}, revision : Promotion!Revision, evidence : BOOLEAN, baseline : Texts]
Document == [revision : 0 .. Revisions, current : Texts, by : SUBSET Person]
Opinion == [revision : 0 .. Revisions, current : Texts]

PromotionTyped ==
  /\ spec \in [Promotion!Domain -> Promotion!Text] /\ \A d \in Promotion!Domain : spec[d].edits <= trouble
  /\ work \in [Feature -> Workspace] /\ \A f \in Feature : DOMAIN work[f].baseline = Touches[f]
  /\ approvals \in [Feature -> Document] /\ said \in [Feature -> [Person -> Opinion]]
  /\ allowed \subseteq Person /\ archive \subseteq Promotion!Change
  /\ lock \in BOOLEAN /\ half \subseteq Promotion!Change \X Promotion!Domain /\ trouble \in 0 .. FewTroubles
  /\ p \in PromotionCalls

Planned == p.pc \in PromotionPc \ {"idle", "diff"}

(* The promotion in progress knows all texts of its change.                *)
PromotionPlan ==
  /\ Planned =>
       /\ p.revision \in Promotion!Revision /\ p.before \in [Touches[p.f] -> Promotion!Text]
       /\ p.applied \subseteq Touches[p.f] /\ p.failed \subseteq Touches[p.f]
       /\ \A d \in Touches[p.f] : p.before[d].edits <= trouble
  /\ p.pc \in {"idle", "diff", "approval"} => p.applied = {}
  /\ p.pc # "undo" => p.failed = {}
  /\ p.applied \cap p.failed = {}
  /\ p.pc = "replace" => Promotion!Left # {}
  /\ p.pc = "archive" => Promotion!Left = {}

(* An approval document holds what each of its people has approved last,   *)
(* and a workspace that is still of the revision that the promotion has    *)
(* read still has the baselines that it has read.                          *)
PromotionApproved ==
  /\ \A f \in Feature : \A person \in approvals[f].by :
       said[f][person] = Promotion!Said(approvals[f].revision, approvals[f].current)
  /\ p.pc = "approval" =>
       /\ p.revision <= work[p.f].revision
       /\ work[p.f].revision = p.revision => work[p.f].baseline = p.before

(* The domains that hold the change and did not hold it before.            *)
Changed == p.applied \cup p.failed

(* Of each domain: what it had, and the change if it has been applied; and *)
(* edits by hand that nobody has made under the hands of the promotion.    *)
PromotionTexts ==
  Planned => \A d \in Touches[p.f] :
    /\ spec[d].rendered = p.before[d].rendered \cup IF d \in Changed THEN {<<p.f, p.revision>>} ELSE {}
    /\ d \notin p.touched /\ (d \in p.applied \/ (p.pc = "replace" /\ d = Promotion!NextDomain)) =>
         spec[d].edits = p.before[d].edits
    /\ \A c \in archive : d \in Touches[c[1]] => c \in p.before[d].rendered

(* What is not in the archive is of the promotion in progress, or was left *)
(* half done by one before.                                                *)
PromotionWhole ==
  /\ \A d \in Promotion!Domain : \A c \in spec[d].rendered \ archive :
       <<c, d>> \in half \/ (d \in Changed /\ c = <<p.f, p.revision>>)
  /\ Planned => \A d \in Touches[p.f] : \A c \in p.before[d].rendered \ archive : <<c, d>> \in half

PromotionInv ==
  /\ PromotionTyped /\ PromotionPlan /\ PromotionApproved /\ PromotionTexts /\ PromotionWhole
  /\ Promotion!PromotedStays

PromotionGoal == PromotionInv' /\ Promotion!KeepsEdits /\ Promotion!WasApproved

(* The current texts of a change's domains. *)
LEMMA PromotionBaselines ==
  ASSUME PromotionTyped, NEW f \in Feature
  PROVE  /\ Touches[f] \subseteq Promotion!Domain
         /\ Promotion!Baselines(f) \in [Touches[f] -> Promotion!Text] /\ Promotion!Baselines(f) \in Texts
         /\ \A d \in Touches[f] : Promotion!Baselines(f)[d] = spec[d]
<1>1. Touches[f] \subseteq Promotion!Domain
  BY PromotionAssumption DEF Promotion!Domain
<1>2. Promotion!Baselines(f) \in [Touches[f] -> Promotion!Text]
  BY <1>1 DEF PromotionTyped, Promotion!Baselines
<1>3. \A d \in Touches[f] : Promotion!Baselines(f)[d] = spec[d]
  BY DEF Promotion!Baselines
<1> QED
  BY <1>1, <1>2, <1>3 DEF Texts

(* Which domain is next. *)
LEMMA PromotionNext ==
  ASSUME PromotionTyped, PromotionPlan, Planned, Promotion!Left # {}
  PROVE  /\ Promotion!NextDomain \in Promotion!Left /\ Promotion!NextDomain \in Touches[p.f]
         /\ Promotion!NextDomain \in Promotion!Domain
<1>1. Promotion!Left \subseteq Touches[p.f] /\ Touches[p.f] \subseteq Promotion!Domain
  BY PromotionBaselines DEF PromotionPlan, Promotion!Left, PromotionTyped, PromotionCalls
<1>2. Promotion!Left \in SUBSET Nat
  BY <1>1, PromotionAssumption DEF Promotion!Domain
<1>3. \E d \in Promotion!Left : \A e \in Promotion!Left : d <= e
  BY <1>2, HasLowest
<1> QED
  BY <1>1, <1>3 DEF Promotion!NextDomain

(* Before the first promotion. *)
LEMMA PromotionStarts == Promotion!Init => PromotionInv
<1> SUFFICES ASSUME Promotion!Init PROVE PromotionInv
  OBVIOUS
<1> USE DEF Promotion!Init
<1>1. Promotion!Original \in Promotion!Text /\ Promotion!Original.edits = 0 /\ Promotion!Original.rendered = {}
  BY BoundsAssumption DEF Promotion!Original, Promotion!Text
<1>2. <<>> \in Texts /\ 0 \in 0 .. Revisions /\ 1 \in Promotion!Revision /\ 0 \in 0 .. FewTroubles
  BY PromotionAssumption, BoundsAssumption DEF Texts, Promotion!Revision
<1>3. p \in PromotionCalls /\ p.pc = "idle" /\ p.applied = {} /\ p.failed = {}
  BY <1>2, PromotionAssumption DEF Promotion!Idle, PromotionCalls, PromotionPc
<1>4. work \in [Feature -> Workspace] /\ \A f \in Feature : DOMAIN work[f].baseline = Touches[f]
  <2>1. ASSUME NEW f \in Feature PROVE [d \in Touches[f] |-> Promotion!Original] \in Texts
    <3>1. Touches[f] \in SUBSET Promotion!Domain
      BY PromotionAssumption DEF Promotion!Domain
    <3>2. [d \in Touches[f] |-> Promotion!Original] \in [Touches[f] -> Promotion!Text]
      BY <1>1
    <3> QED
      BY <3>1, <3>2 DEF Texts
  <2>2. ASSUME NEW f \in Feature
        PROVE  [status |-> "active", revision |-> 1, evidence |-> FALSE,
                baseline |-> [d \in Touches[f] |-> Promotion!Original]] \in Workspace
    BY <1>2, <2>1 DEF Workspace
  <2> QED
    BY <2>2
<1>5. said \in [Feature -> [Person -> Opinion]]
  BY <1>2 DEF Promotion!Said, Opinion
<1>6. approvals \in [Feature -> Document] /\ \A f \in Feature : approvals[f].by = {}
  BY <1>2 DEF Promotion!NoDocument, Document
<1>7. spec \in [Promotion!Domain -> Promotion!Text]
      /\ \A d \in Promotion!Domain : spec[d].edits = 0 /\ spec[d].rendered = {}
  BY <1>1
<1>8. PromotionTyped
  <2>1. \A d \in Promotion!Domain : spec[d].edits <= trouble
    BY <1>7
  <2>2. allowed \subseteq Person /\ archive \subseteq Promotion!Change /\ lock \in BOOLEAN
        /\ half \subseteq Promotion!Change \X Promotion!Domain
    OBVIOUS
  <2>3. trouble \in 0 .. FewTroubles
    BY <1>2
  <2> HIDE DEF Promotion!Init
  <2> QED
    BY <1>3, <1>4, <1>5, <1>6, <1>7, <2>1, <2>2, <2>3 DEF PromotionTyped
<1>9. PromotionPlan /\ PromotionApproved /\ PromotionTexts /\ PromotionWhole /\ Promotion!PromotedStays
  BY <1>3, <1>6, <1>7
     DEF PromotionPlan, PromotionApproved, PromotionTexts, PromotionWhole, Promotion!PromotedStays, Planned
<1> QED
  BY <1>8, <1>9 DEF PromotionInv

(* What a promotion may leave behind. *)
LEMMA PromotionLeaves ==
  ASSUME PromotionInv
  PROVE  /\ Promotion!ChangeIn(Changed) \subseteq Promotion!Change \X Promotion!Domain
         /\ \A d \in Changed : <<<<p.f, p.revision>>, d>> \in Promotion!ChangeIn(Changed)
<1> USE DEF PromotionInv
<1>1. \A d \in Changed : <<<<p.f, p.revision>>, d>> \in Promotion!ChangeIn(Changed)
  BY DEF Promotion!ChangeIn
<1>2. CASE Planned
  <2>1. <<p.f, p.revision>> \in Promotion!Change /\ Changed \subseteq Promotion!Domain
    BY <1>2 DEF PromotionPlan, PromotionTyped, PromotionCalls, Promotion!Change, Changed
  <2>2. Promotion!ChangeIn(Changed) \subseteq Promotion!Change \X Promotion!Domain
    BY <2>1 DEF Promotion!ChangeIn
  <2> QED
    BY <1>1, <2>2
<1>3. CASE ~Planned
  <2>1. Changed = {}
    BY <1>3 DEF Planned, PromotionPlan, PromotionTyped, PromotionCalls, Changed
  <2>2. Promotion!ChangeIn(Changed) = {}
    BY <2>1 DEF Promotion!ChangeIn
  <2> QED
    BY <1>1, <2>2
<1> QED
  BY <1>2, <1>3

(* A promotion ends or dies, and no text changes: what it has changed is   *)
(* left behind.                                                            *)
LEMMA PromotionEnds ==
  ASSUME PromotionInv, p' = Promotion!Idle, lock' \in BOOLEAN,
         UNCHANGED <<spec, work, approvals, allowed, archive, said>>,
         trouble' \in trouble .. FewTroubles, half' = half \cup Promotion!ChangeIn(Changed)
  PROVE  PromotionGoal
<1> USE DEF PromotionInv
<1>1. p' \in PromotionCalls /\ p'.pc = "idle" /\ p'.applied = {} /\ p'.failed = {}
  BY PromotionAssumption DEF Promotion!Idle, PromotionCalls, PromotionPc, Texts
<1>2. half' \subseteq Promotion!Change \X Promotion!Domain
  BY PromotionLeaves DEF PromotionTyped
<1>3. PromotionTyped'
  BY <1>1, <1>2, BoundsAssumption DEF PromotionTyped, Promotion!Text
<1>4. PromotionPlan' /\ PromotionApproved' /\ PromotionTexts'
  BY <1>1 DEF PromotionPlan, PromotionApproved, PromotionTexts, Planned
<1>5. PromotionWhole'
  <2>1. ASSUME NEW d \in Promotion!Domain, NEW c \in spec[d].rendered \ archive PROVE <<c, d>> \in half'
    <3>1. <<c, d>> \in half \/ (d \in Changed /\ c = <<p.f, p.revision>>)
      BY DEF PromotionWhole
    <3> QED
      BY <3>1, PromotionLeaves
  <2> QED
    BY <1>1, <2>1 DEF PromotionWhole, Planned
<1>6. Promotion!PromotedStays'
  BY DEF Promotion!PromotedStays
<1> QED
  BY <1>1, <1>3, <1>4, <1>5, <1>6, BoundsAssumption
     DEF PromotionGoal, Promotion!KeepsEdits, Promotion!WasApproved, PromotionTyped, Promotion!Text

(* A promotion ends that has changed no text. *)
LEMMA PromotionReleases ==
  ASSUME PromotionInv, Changed = {}, Promotion!Release,
         UNCHANGED <<spec, work, approvals, allowed, archive, trouble, said, half>>
  PROVE  PromotionGoal
<1>1. p' = Promotion!Idle /\ lock' \in BOOLEAN /\ half' = half \cup Promotion!ChangeIn(Changed)
  BY DEF Promotion!Release, Promotion!ChangeIn
<1>2. trouble' \in trouble .. FewTroubles
  BY BoundsAssumption DEF PromotionInv, PromotionTyped
<1> QED
  BY <1>1, <1>2, PromotionEnds

(* A promotion begins. *)
LEMMA PromotionBegins == ASSUME PromotionInv, NEW f \in Feature, Promotion!Begin(f) PROVE PromotionGoal
<1> USE DEF PromotionInv
<1>1. /\ lock' = TRUE /\ UNCHANGED <<spec, work, approvals, allowed, archive, trouble, said, half>>
      /\ p.pc = "idle"
      /\ p' = [pc |-> "diff", f |-> f, revision |-> 0, before |-> <<>>, applied |-> {}, failed |-> {},
               touched |-> {}, named |-> FALSE]
  BY DEF Promotion!Begin, Promotion!Idle, Promotion!history
<1>2. p' \in PromotionCalls /\ p'.pc = "diff" /\ p'.applied = {} /\ p'.failed = {}
  BY <1>1, PromotionAssumption DEF PromotionCalls, PromotionPc, Texts
<1>3. PromotionTyped'
  BY <1>1, <1>2 DEF PromotionTyped
<1>4. PromotionPlan' /\ PromotionApproved' /\ PromotionTexts'
  BY <1>1, <1>2 DEF PromotionPlan, PromotionApproved, PromotionTexts, Planned
<1>5. PromotionWhole' /\ Promotion!PromotedStays'
  BY <1>1, <1>2 DEF PromotionWhole, Promotion!PromotedStays, Planned, PromotionPlan, Changed
<1> QED
  BY <1>1, <1>2, <1>3, <1>4, <1>5, BoundsAssumption
     DEF PromotionGoal, Promotion!KeepsEdits, Promotion!WasApproved, PromotionTyped, Promotion!Text

(* The texts of the change are read. *)
LEMMA PromotionDiff == ASSUME PromotionInv, Promotion!Diff PROVE PromotionGoal
<1> USE DEF PromotionInv
<1>1. /\ p.pc = "diff" /\ UNCHANGED <<spec, work, approvals, allowed, archive, trouble, said, half>>
      /\ p.f \in Feature
  BY DEF Promotion!Diff, Promotion!history, PromotionTyped, PromotionCalls
<1>2. CASE Promotion!Release
  <2>1. Changed = {}
    BY <1>1 DEF Changed, PromotionPlan
  <2> QED
    BY <1>1, <1>2, <2>1, PromotionReleases
<1>3. CASE /\ Promotion!Valid(p.f) /\ UNCHANGED lock
           /\ p' = [p EXCEPT !.pc = "approval", !.revision = work[p.f].revision, !.before = Promotion!Baselines(p.f)]
  <2> DEFINE b == Promotion!Baselines(p.f)
  <2>1. /\ b \in [Touches[p.f] -> Promotion!Text] /\ b \in Texts /\ Touches[p.f] \subseteq Promotion!Domain
        /\ \A d \in Touches[p.f] : b[d] = spec[d]
    BY <1>1, PromotionBaselines
  <2>2. work[p.f].baseline = b /\ work[p.f].revision \in Promotion!Revision
    BY <1>1, <1>3 DEF Promotion!Valid, PromotionTyped, Workspace
  <2>3. /\ p'.pc = "approval" /\ p'.f = p.f /\ p'.revision = work[p.f].revision /\ p'.before = b
        /\ p'.applied = p.applied /\ p.applied = {} /\ p'.failed = p.failed /\ p.failed = {}
    BY <1>1, <1>3 DEF PromotionTyped, PromotionCalls, PromotionPlan
  <2> HIDE DEF b
  <2>4. p' \in PromotionCalls
    <3>1. work[p.f].revision \in 0 .. Revisions
      BY <2>2, PromotionAssumption DEF Promotion!Revision
    <3>2. p' = [pc |-> "approval", f |-> p.f, revision |-> work[p.f].revision, before |-> b,
                applied |-> p.applied, failed |-> p.failed, touched |-> p.touched, named |-> p.named]
      BY <1>3 DEF b, PromotionTyped, PromotionCalls
    <3> QED
      BY <1>1, <2>1, <3>1, <3>2 DEF PromotionTyped, PromotionCalls, PromotionPc
  <2>5. PromotionTyped'
    BY <1>1, <1>3, <2>4 DEF PromotionTyped
  <2>6. PromotionPlan'
    BY <1>1, <2>1, <2>2, <2>3 DEF PromotionPlan, PromotionTyped
  <2>7. PromotionApproved'
    BY <1>1, <2>2, <2>3 DEF PromotionApproved, Promotion!Revision
  <2>8. PromotionTexts'
    <3>1. \A c \in archive : c[1] \in Feature
      BY DEF PromotionTyped, Promotion!Change
    <3> QED
      BY <1>1, <2>1, <2>3 DEF PromotionTexts, Promotion!PromotedStays, Changed
  <2>9. PromotionWhole' /\ Promotion!PromotedStays'
    BY <1>1, <2>1, <2>3 DEF PromotionWhole, Promotion!PromotedStays, Changed
  <2> QED
    BY <1>1, <2>3, <2>5, <2>6, <2>7, <2>8, <2>9, BoundsAssumption
       DEF PromotionGoal, Promotion!KeepsEdits, Promotion!WasApproved, PromotionTyped, Promotion!Text
<1> QED
  BY <1>2, <1>3 DEF Promotion!Diff

(* A promotion goes on or fails, and no text changes: what is known of     *)
(* them stays.                                                             *)
LEMMA PromotionGoes ==
  ASSUME PromotionInv, Planned, UNCHANGED <<spec, approvals, allowed, archive, said, half, lock>>,
         work' \in [Feature -> Workspace],
         \A f \in Feature : work'[f].baseline = work[f].baseline,
         trouble' \in trouble .. FewTroubles,
         NEW pc \in {"capture", "replace", "archive", "cleanup", "undo"}, NEW n \in BOOLEAN,
         NEW t \in SUBSET p.touched, p' = [p EXCEPT !.pc = pc, !.touched = t, !.named = n],
         pc # "undo" => p.failed = {},
         pc = "replace" => Promotion!Left # {},
         pc = "archive" => Promotion!Left = {},
         \A d \in p.applied : d \in t \/ d \notin p.touched,
         pc = "replace" => spec[Promotion!NextDomain] = p.before[Promotion!NextDomain]
  PROVE  PromotionInv' /\ Promotion!KeepsEdits
<1> USE DEF PromotionInv
<1>1. /\ p'.pc = pc /\ p'.f = p.f /\ p'.revision = p.revision /\ p'.before = p.before
      /\ p'.applied = p.applied /\ p'.failed = p.failed /\ p'.touched = t /\ p' \in PromotionCalls
  BY DEF PromotionTyped, PromotionCalls, PromotionPc
<1>2. Promotion!Left' = Promotion!Left /\ Promotion!NextDomain' = Promotion!NextDomain
  BY <1>1 DEF Promotion!Left, Promotion!NextDomain
<1>3. PromotionTyped'
  <2>1. \A d \in Promotion!Domain : spec[d].edits <= trouble'
    BY BoundsAssumption DEF PromotionTyped, Promotion!Text
  <2> QED
    BY <1>1, <2>1, BoundsAssumption DEF PromotionTyped
<1>4. PromotionPlan'
  <2>1. \A d \in Touches[p.f] : p.before[d].edits <= trouble'
    BY BoundsAssumption DEF PromotionTyped, PromotionPlan, Promotion!Text
  <2> QED
    BY <1>1, <1>2, <2>1 DEF PromotionPlan, Planned
<1>5. PromotionApproved'
  BY <1>1 DEF PromotionApproved
<1>6. PromotionTexts'
  BY <1>1, <1>2 DEF PromotionTexts, Planned, Changed
<1>7. PromotionWhole' /\ Promotion!PromotedStays'
  BY <1>1 DEF PromotionWhole, Promotion!PromotedStays, Planned, Changed
<1>8. Promotion!KeepsEdits
  BY BoundsAssumption DEF Promotion!KeepsEdits, PromotionTyped, Promotion!Text
<1> QED
  BY <1>3, <1>4, <1>5, <1>6, <1>7, <1>8

(* The approval is checked: enough people have approved the revision that  *)
(* was read, on the texts that were read.                                  *)
LEMMA PromotionEnough ==
  ASSUME PromotionInv, p.pc = "approval", Promotion!Valid(p.f), work[p.f].revision = p.revision,
         Promotion!Satisfied(p.f)
  PROVE  Promotion!Cardinality({person \in allowed :
           said[p.f][person] = Promotion!Said(p.revision, p.before)}) >= MinApprovals
<1> USE DEF PromotionInv
<1> DEFINE C == approvals[p.f].by \cap allowed
           S == {person \in allowed : said[p.f][person] = Promotion!Said(p.revision, p.before)}
<1>1. p.f \in Feature /\ allowed \subseteq Person
  BY DEF PromotionTyped, PromotionCalls
<1>2. work[p.f].baseline = p.before /\ work[p.f].baseline = Promotion!Baselines(p.f)
  BY DEF PromotionApproved, Promotion!Valid
<1>3. approvals[p.f].revision = p.revision /\ approvals[p.f].current = p.before
  BY <1>2 DEF Promotion!Satisfied, Promotion!Fits
<1>4. C \subseteq S
  BY <1>1, <1>3 DEF PromotionApproved
<1>5. IsFiniteSet(S)
  <2>1. S \subseteq Person
    BY <1>1
  <2> HIDE DEF S
  <2> QED
    BY <2>1, PromotionAssumption, FS_Subset
<1>6. Promotion!Cardinality(C) >= MinApprovals
  BY DEF Promotion!Satisfied, Promotion!Counted
<1> HIDE DEF S, C
<1>7. IsFiniteSet(C) /\ Cardinality(C) <= Cardinality(S)
  BY <1>4, <1>5, FS_Subset
<1>8. Cardinality(C) \in Nat /\ Cardinality(S) \in Nat
  BY <1>5, <1>7, FS_CardinalityType
<1>9. Promotion!Cardinality(C) = Cardinality(C) /\ Promotion!Cardinality(S) = Cardinality(S)
  BY DEF Promotion!Cardinality, Cardinality
<1>10. Promotion!Cardinality(S) >= MinApprovals
  BY <1>6, <1>7, <1>8, <1>9, PromotionAssumption
<1> QED
  BY <1>10 DEF S

(* The approval is checked, on the texts that were read. *)
LEMMA PromotionChecks == ASSUME PromotionInv, Promotion!CheckApproval PROVE PromotionGoal
<1> USE DEF PromotionInv
<1>1. /\ p.pc = "approval" /\ UNCHANGED <<spec, work, approvals, allowed, archive, trouble, said, half>>
      /\ Changed = {} /\ p.failed = {}
  BY DEF Promotion!CheckApproval, Promotion!history, PromotionPlan, Changed
<1>2. trouble' \in trouble .. FewTroubles
  BY <1>1, BoundsAssumption DEF PromotionTyped
<1>3. CASE Promotion!Release
  BY <1>1, <1>3, PromotionReleases
<1>4. CASE /\ Promotion!Valid(p.f) /\ work[p.f].revision = p.revision /\ Promotion!Satisfied(p.f)
           /\ Promotion!Call("capture")
  <2>1. p' = [p EXCEPT !.pc = "capture", !.touched = p.touched, !.named = p.named] /\ UNCHANGED lock
        /\ p.named \in BOOLEAN /\ \A d \in p.applied : d \in p.touched \/ d \notin p.touched
    BY <1>4 DEF Promotion!Call, PromotionTyped, PromotionCalls
  <2>2. Planned /\ work' \in [Feature -> Workspace] /\ \A f \in Feature : work'[f].baseline = work[f].baseline
    BY <1>1 DEF Planned, PromotionPc, PromotionTyped
  <2>3. PromotionInv' /\ Promotion!KeepsEdits
    BY <1>1, <1>2, <2>1, <2>2, PromotionGoes
  <2>4. Promotion!WasApproved
    BY <1>1, <1>4, PromotionEnough DEF Promotion!WasApproved
  <2> QED
    BY <2>3, <2>4 DEF PromotionGoal
<1> QED
  BY <1>3, <1>4 DEF Promotion!CheckApproval

(* A promotion goes on or fails after the approval. *)
LEMMA PromotionMoves ==
  ASSUME PromotionInv, p.pc \in {"capture", "replace", "archive", "cleanup"},
         UNCHANGED <<spec, approvals, allowed, archive, said, half, lock>>,
         work' \in [Feature -> Workspace],
         \A f \in Feature : work'[f].baseline = work[f].baseline,
         trouble' \in trouble .. FewTroubles,
         NEW pc \in {"capture", "replace", "archive", "cleanup", "undo"}, NEW n \in BOOLEAN,
         NEW t \in SUBSET p.touched, p' = [p EXCEPT !.pc = pc, !.touched = t, !.named = n],
         pc # "undo" => p.failed = {},
         pc = "replace" => Promotion!Left # {},
         pc = "archive" => Promotion!Left = {},
         \A d \in p.applied : d \in t \/ d \notin p.touched,
         pc = "replace" => spec[Promotion!NextDomain] = p.before[Promotion!NextDomain]
  PROVE  PromotionGoal
<1>1. Planned
  BY DEF Planned, PromotionPc
<1>2. PromotionInv' /\ Promotion!KeepsEdits
  BY <1>1, PromotionGoes
<1>3. Promotion!WasApproved
  BY DEF Promotion!WasApproved
<1> QED
  BY <1>2, <1>3 DEF PromotionGoal

(* The next domain is compared, right before its replacement. *)
LEMMA PromotionCaptures == ASSUME PromotionInv, Promotion!Capture PROVE PromotionGoal
<1> USE DEF PromotionInv
<1>1. /\ p.pc = "capture" /\ Promotion!Left # {}
      /\ UNCHANGED <<spec, work, approvals, allowed, archive, lock, trouble, said, half>>
  BY DEF Promotion!Capture, Promotion!history
<1>2. /\ trouble' \in trouble .. FewTroubles /\ Planned
      /\ work' \in [Feature -> Workspace] /\ \A f \in Feature : work'[f].baseline = work[f].baseline
      /\ p.failed = {} /\ p.named \in BOOLEAN
  BY <1>1, BoundsAssumption DEF PromotionTyped, Planned, PromotionPc, PromotionPlan, PromotionCalls
<1>3. CASE Promotion!Same(Promotion!NextDomain)
  <2>1. p' = [p EXCEPT !.pc = "replace", !.touched = p.touched \ {Promotion!NextDomain}]
    BY <1>3 DEF Promotion!Capture
  <2>2. spec[Promotion!NextDomain] = p.before[Promotion!NextDomain] /\ Promotion!NextDomain \notin p.applied
    BY <1>1, <1>2, <1>3, PromotionNext DEF Promotion!Same, Promotion!Left
  <2> DEFINE t == p.touched \ {Promotion!NextDomain}
  <2>3. t \in SUBSET p.touched /\ \A d \in p.applied : d \in t \/ d \notin p.touched
    BY <2>2
  <2>4. p' = [p EXCEPT !.pc = "replace", !.touched = t, !.named = p.named]
    BY <2>1 DEF PromotionTyped, PromotionCalls
  <2> HIDE DEF t
  <2> QED
    BY <1>1, <1>2, <2>2, <2>3, <2>4, PromotionMoves
<1>4. CASE ~Promotion!Same(Promotion!NextDomain)
  <2>1. p' = [p EXCEPT !.pc = "cleanup", !.touched = p.touched, !.named = p.named]
    BY <1>4 DEF Promotion!Capture, PromotionTyped, PromotionCalls
  <2> QED
    BY <1>1, <1>2, <2>1, PromotionMoves
<1> QED
  BY <1>3, <1>4

(* All domains are read again. *)
LEMMA PromotionVerifies == ASSUME PromotionInv, Promotion!Verify PROVE PromotionGoal
<1> USE DEF PromotionInv
<1> DEFINE written == \A d \in p.applied : spec[d] = Promotion!Rendered(d)
           fresh == written /\ ~work[p.f].evidence
           next == IF fresh THEN "archive" ELSE "cleanup"
<1>1. /\ p.pc = "capture" /\ Promotion!Left = {}
      /\ UNCHANGED <<spec, approvals, allowed, archive, lock, trouble, said, half>>
      /\ work' = [work EXCEPT ![p.f].evidence = @ \/ fresh]
      /\ p' = [p EXCEPT !.pc = next, !.named = written]
  BY DEF Promotion!Verify, Promotion!history
<1>2. trouble' \in trouble .. FewTroubles
  BY <1>1, BoundsAssumption DEF PromotionTyped
<1>3. written \in BOOLEAN /\ fresh \in BOOLEAN /\ next \in {"archive", "cleanup"}
  OBVIOUS
<1> HIDE DEF written, fresh, next
<1>4. p' = [p EXCEPT !.pc = next, !.touched = p.touched, !.named = written] /\ p.failed = {}
  BY <1>1 DEF PromotionTyped, PromotionCalls, PromotionPlan
<1>5. work' \in [Feature -> Workspace] /\ \A f \in Feature : work'[f].baseline = work[f].baseline
  <2>1. work \in [Feature -> Workspace] /\ (work[p.f].evidence \/ fresh) \in BOOLEAN
    BY <1>3 DEF PromotionTyped
  <2>2. \A f \in Feature : work'[f] = IF f = p.f THEN [work[f] EXCEPT !.evidence = @ \/ fresh] ELSE work[f]
    BY <1>1, <2>1
  <2>3. work' \in [Feature -> Workspace]
    BY <1>1, <2>1 DEF Workspace
  <2> QED
    BY <2>1, <2>2, <2>3 DEF Workspace
<1>6. \A d \in p.applied : d \in p.touched \/ d \notin p.touched
  OBVIOUS
<1> QED
  BY <1>1, <1>2, <1>3, <1>4, <1>5, <1>6, PromotionMoves

(* A domain is replaced. *)
LEMMA PromotionReplaces == ASSUME PromotionInv, Promotion!Replace PROVE PromotionGoal
<1> USE DEF PromotionInv
<1> DEFINE n == Promotion!NextDomain
           change == <<p.f, p.revision>>
<1>1. /\ p.pc = "replace" /\ UNCHANGED <<work, approvals, allowed, archive, lock, trouble, said, half>>
      /\ spec' = [spec EXCEPT ![n] = [p.before[n] EXCEPT !.rendered = @ \cup {change}]]
      /\ p' = [p EXCEPT !.pc = "capture", !.applied = @ \cup {n}]
  BY DEF Promotion!Replace, Promotion!history, Promotion!Rendered
<1>2. /\ Planned /\ Promotion!Left # {} /\ p.revision \in Promotion!Revision
      /\ p.before \in [Touches[p.f] -> Promotion!Text] /\ p.f \in Feature
      /\ p.applied \subseteq Touches[p.f] /\ \A d \in Touches[p.f] : p.before[d].edits <= trouble
      /\ p.failed = {}
  BY <1>1 DEF Planned, PromotionPc, PromotionPlan, PromotionTyped, PromotionCalls
<1>3. n \in Touches[p.f] /\ n \in Promotion!Domain /\ n \notin p.applied
  BY <1>2, PromotionNext DEF Promotion!Left
<1>4. change \in Promotion!Change
  BY <1>2 DEF Promotion!Change
<1> HIDE DEF n, change
<1>5. /\ spec'[n].rendered = p.before[n].rendered \cup {change} /\ spec'[n].edits = p.before[n].edits
      /\ spec'[n] \in Promotion!Text
      /\ \A d \in Promotion!Domain : d # n => spec'[d] = spec[d]
  BY <1>1, <1>2, <1>3, <1>4 DEF PromotionTyped, Promotion!Text
<1>6. /\ p'.pc = "capture" /\ p'.f = p.f /\ p'.revision = p.revision /\ p'.before = p.before
      /\ p'.applied = p.applied \cup {n} /\ p'.failed = p.failed /\ p'.touched = p.touched
      /\ p' \in PromotionCalls
  BY <1>1, <1>3 DEF PromotionTyped, PromotionCalls, PromotionPc
<1>7. PromotionTyped'
  <2>1. spec' \in [Promotion!Domain -> Promotion!Text]
    BY <1>1, <1>5 DEF PromotionTyped
  <2>2. \A d \in Promotion!Domain : spec'[d].edits <= trouble
    BY <1>2, <1>3, <1>5 DEF PromotionTyped
  <2> QED
    BY <1>1, <1>6, <2>1, <2>2 DEF PromotionTyped
<1>8. PromotionPlan'
  BY <1>1, <1>2, <1>3, <1>6 DEF PromotionPlan, Planned
<1>9. PromotionApproved'
  BY <1>1, <1>6 DEF PromotionApproved
<1>10. PromotionTexts'
  <2> SUFFICES ASSUME NEW d \in Touches[p.f]
               PROVE  /\ spec'[d].rendered = p.before[d].rendered
                                             \cup IF d \in p'.applied THEN {<<p.f, p.revision>>} ELSE {}
                      /\ d \notin p.touched /\ d \in p'.applied => spec'[d].edits = p.before[d].edits
                      /\ \A c \in archive : d \in Touches[c[1]] => c \in p.before[d].rendered
    BY <1>1, <1>2, <1>6 DEF PromotionTexts, Changed
  <2>1. d \in Promotion!Domain
    BY <1>2, PromotionBaselines
  <2>2. CASE d = n
    BY <1>2, <1>5, <1>6, <2>2 DEF PromotionTexts, change
  <2>3. CASE d # n
    BY <1>2, <1>5, <1>6, <2>1, <2>3 DEF PromotionTexts, Changed
  <2> QED
    BY <2>2, <2>3
<1>11. PromotionWhole'
  BY <1>1, <1>2, <1>3, <1>5, <1>6 DEF PromotionWhole, Planned, Changed, change
<1>12. Promotion!PromotedStays'
  BY <1>1, <1>2, <1>3, <1>5 DEF PromotionTexts, Promotion!PromotedStays
<1>13. Promotion!KeepsEdits
  <2> SUFFICES ASSUME NEW d \in Promotion!Domain, spec'[d].edits < spec[d].edits PROVE d \in p.touched
    BY DEF Promotion!KeepsEdits
  <2>1. spec[d].edits \in Int
    BY DEF PromotionTyped, Promotion!Text
  <2>2. d = n
    BY <1>5, <2>1
  <2> QED
    BY <1>1, <1>2, <1>3, <1>5, <2>1, <2>2 DEF PromotionTexts, n
<1>14. Promotion!WasApproved
  BY <1>1 DEF Promotion!WasApproved
<1> QED
  BY <1>7, <1>8, <1>9, <1>10, <1>11, <1>12, <1>13, <1>14 DEF PromotionGoal

(* The change is archived, and the promotion ends. *)
LEMMA PromotionArchives == ASSUME PromotionInv, Promotion!Archive PROVE PromotionGoal
<1> USE DEF PromotionInv
<1> DEFINE change == <<p.f, p.revision>>
<1>1. /\ p.pc = "archive" /\ UNCHANGED <<spec, approvals, allowed, trouble, said, half>>
      /\ p' = Promotion!Idle /\ lock' = FALSE
      /\ work' = [work EXCEPT ![p.f].status = "archived"] /\ archive' = archive \cup {change}
  BY DEF Promotion!Archive, Promotion!history, Promotion!Release
<1>2. /\ Planned /\ Promotion!Left = {} /\ p.revision \in Promotion!Revision /\ p.f \in Feature
      /\ p.before \in [Touches[p.f] -> Promotion!Text] /\ p.applied = Touches[p.f]
      /\ p.failed = {}
  BY <1>1 DEF Planned, PromotionPc, PromotionPlan, PromotionTyped, PromotionCalls, Promotion!Left
<1>3. change \in Promotion!Change /\ change[1] = p.f
  BY <1>2 DEF Promotion!Change
<1>4. \A d \in Touches[p.f] : change \in spec[d].rendered
  BY <1>2 DEF PromotionTexts, Changed
<1> HIDE DEF change
<1>5. p' \in PromotionCalls /\ p'.pc = "idle" /\ p'.applied = {} /\ p'.failed = {}
  BY <1>1, PromotionAssumption DEF Promotion!Idle, PromotionCalls, PromotionPc, Texts
<1>6. work' \in [Feature -> Workspace] /\ \A f \in Feature : work'[f].baseline = work[f].baseline
  <2>1. work \in [Feature -> Workspace]
    BY DEF PromotionTyped
  <2> QED
    BY <1>1, <2>1 DEF Workspace
<1>7. PromotionTyped'
  BY <1>1, <1>3, <1>5, <1>6 DEF PromotionTyped
<1>8. PromotionPlan' /\ PromotionApproved' /\ PromotionTexts'
  BY <1>1, <1>5 DEF PromotionPlan, PromotionApproved, PromotionTexts, Planned
<1>9. PromotionWhole'
  BY <1>1, <1>2, <1>5 DEF PromotionWhole, Planned, Changed, change
<1>10. Promotion!PromotedStays'
  BY <1>1, <1>3, <1>4 DEF Promotion!PromotedStays
<1>11. Promotion!KeepsEdits /\ Promotion!WasApproved
  BY <1>1, BoundsAssumption DEF Promotion!KeepsEdits, Promotion!WasApproved, PromotionTyped, Promotion!Text
<1> QED
  BY <1>7, <1>8, <1>9, <1>10, <1>11 DEF PromotionGoal

(* What the promotion has staged is removed, or that fails too.            *)
LEMMA PromotionCleansUp == ASSUME PromotionInv, Promotion!CleanUp PROVE PromotionGoal
<1> USE DEF PromotionInv
<1>1. /\ p.pc = "cleanup" /\ p.failed = {} /\ UNCHANGED <<spec, approvals, allowed, archive, trouble, said>>
      /\ p.named \in BOOLEAN /\ trouble' \in trouble .. FewTroubles
  BY BoundsAssumption DEF Promotion!CleanUp, PromotionPlan, PromotionTyped, PromotionCalls
<1>2. CASE work' = [work EXCEPT ![p.f].evidence = @ /\ ~p.named] /\ Promotion!Call("undo") /\ UNCHANGED half
  <2>1. p' = [p EXCEPT !.pc = "undo", !.touched = p.touched, !.named = p.named] /\ UNCHANGED lock
        /\ \A d \in p.applied : d \in p.touched \/ d \notin p.touched
    BY <1>2 DEF Promotion!Call, PromotionTyped, PromotionCalls
  <2>2. work' \in [Feature -> Workspace] /\ \A f \in Feature : work'[f].baseline = work[f].baseline
    <3>1. work \in [Feature -> Workspace] /\ (work[p.f].evidence /\ ~p.named) \in BOOLEAN
      BY <1>1 DEF PromotionTyped
    <3>2. \A f \in Feature : work'[f] = IF f = p.f THEN [work[f] EXCEPT !.evidence = @ /\ ~p.named] ELSE work[f]
      BY <1>2, <3>1
    <3>3. work' \in [Feature -> Workspace]
      BY <1>2, <3>1 DEF Workspace
    <3> QED
      BY <3>1, <3>2, <3>3 DEF Workspace
  <2> QED
    BY <1>1, <1>2, <2>1, <2>2, PromotionMoves
<1>3. CASE Promotion!Release /\ Promotion!Abandon /\ UNCHANGED work
  <2>1. p' = Promotion!Idle /\ lock' \in BOOLEAN /\ half' = half \cup Promotion!ChangeIn(Changed)
    BY <1>3 DEF Promotion!Release, Promotion!Abandon, Changed
  <2> QED
    BY <1>1, <1>3, <2>1, PromotionEnds
<1> QED
  BY <1>2, <1>3 DEF Promotion!CleanUp

(* The last domain gets back what it had, or stays as it is and is named.  *)
LEMMA PromotionUndoes == ASSUME PromotionInv, Promotion!Undo PROVE PromotionGoal
<1> USE DEF PromotionInv
<1> DEFINE n == Promotion!LastDomain
<1>1. /\ p.pc = "undo" /\ p.applied # {} /\ UNCHANGED <<work, approvals, allowed, archive, lock, trouble, said, half>>
      /\ \/ /\ spec' = [spec EXCEPT ![n] = p.before[n]] /\ p' = [p EXCEPT !.applied = @ \ {n}]
         \/ /\ UNCHANGED spec /\ p' = [p EXCEPT !.applied = @ \ {n}, !.failed = @ \cup {n}]
  BY DEF Promotion!Undo, Promotion!history, Promotion!ToUndo
<1>2. n \in p.applied
  <2>1. p.applied \in SUBSET (1 .. Domains) /\ Domains \in Nat
    BY PromotionAssumption DEF PromotionTyped, PromotionCalls, Promotion!Domain
  <2>2. \E d \in p.applied : \A e \in p.applied : e <= d
    BY <1>1, <2>1, HasHighest
  <2> QED
    BY <2>2 DEF Promotion!LastDomain, Promotion!ToUndo
<1>3. /\ Planned /\ p.f \in Feature /\ p.before \in [Touches[p.f] -> Promotion!Text]
      /\ p.applied \subseteq Touches[p.f] /\ p.failed \subseteq Touches[p.f]
      /\ \A d \in Touches[p.f] : p.before[d].edits <= trouble
      /\ Touches[p.f] \subseteq Promotion!Domain /\ n \in Promotion!Domain /\ n \notin p.failed
  BY <1>1, <1>2, PromotionBaselines DEF Planned, PromotionPc, PromotionPlan, PromotionTyped, PromotionCalls
<1> HIDE DEF n
<1>4. /\ p'.pc = "undo" /\ p'.f = p.f /\ p'.revision = p.revision /\ p'.before = p.before
      /\ p'.touched = p.touched /\ p'.applied = p.applied \ {n} /\ p'.failed \in {p.failed, p.failed \cup {n}}
      /\ p' \in PromotionCalls
  <2>1. p \in PromotionCalls /\ p.applied \ {n} \in SUBSET Promotion!Domain
        /\ p.failed \cup {n} \in SUBSET Promotion!Domain
    BY <1>3 DEF PromotionTyped, PromotionCalls
  <2>2. CASE p' = [p EXCEPT !.applied = @ \ {n}]
    BY <1>1, <2>1, <2>2 DEF PromotionCalls
  <2>3. CASE p' = [p EXCEPT !.applied = @ \ {n}, !.failed = @ \cup {n}]
    BY <1>1, <2>1, <2>3 DEF PromotionCalls
  <2> QED
    BY <1>1, <2>2, <2>3
<1>5. /\ Planned' /\ \A d \in Promotion!Domain : d # n => spec'[d] = spec[d]
      /\ \/ spec'[n] = p.before[n] /\ p'.failed = p.failed
         \/ spec'[n] = spec[n] /\ p'.failed = p.failed \cup {n}
      /\ spec' \in [Promotion!Domain -> Promotion!Text]
  <2>1. p \in PromotionCalls /\ spec \in [Promotion!Domain -> Promotion!Text] /\ Planned'
    BY <1>4 DEF PromotionTyped, Planned, PromotionPc
  <2>2. CASE spec' = [spec EXCEPT ![n] = p.before[n]] /\ p' = [p EXCEPT !.applied = @ \ {n}]
    <3>1. p.before[n] \in Promotion!Text
      BY <1>2, <1>3
    <3> QED
      BY <1>3, <2>1, <2>2, <3>1 DEF PromotionCalls
  <2>3. CASE UNCHANGED spec /\ p' = [p EXCEPT !.applied = @ \ {n}, !.failed = @ \cup {n}]
    BY <1>3, <2>1, <2>3 DEF PromotionCalls
  <2> QED
    BY <1>1, <2>2, <2>3
<1>6. PromotionTyped'
  <2>1. \A d \in Promotion!Domain : spec'[d].edits <= trouble
    BY <1>2, <1>3, <1>5 DEF PromotionTyped
  <2> QED
    BY <1>1, <1>4, <1>5, <2>1 DEF PromotionTyped
<1>7. PromotionPlan' /\ PromotionApproved'
  <2>1. PromotionPlan'
    BY <1>1, <1>2, <1>3, <1>4 DEF PromotionPlan, Planned
  <2> QED
    BY <1>1, <1>4, <2>1 DEF PromotionApproved
<1>8. \A d \in Promotion!Domain :
        IF d = n THEN d \in Changed' <=> p'.failed # p.failed ELSE d \in Changed' <=> d \in Changed
  BY <1>2, <1>3, <1>4 DEF Changed
<1>9. PromotionTexts'
  <2> SUFFICES ASSUME NEW d \in Touches[p.f]
               PROVE  /\ spec'[d].rendered = p.before[d].rendered
                                             \cup IF d \in Changed' THEN {<<p.f, p.revision>>} ELSE {}
                      /\ d \notin p.touched /\ d \in p'.applied => spec'[d].edits = p.before[d].edits
                      /\ \A c \in archive : d \in Touches[c[1]] => c \in p.before[d].rendered
    BY <1>1, <1>4 DEF PromotionTexts
  <2>1. d \in Promotion!Domain
    BY <1>3
  <2>2. CASE d = n
    <3>1. n \in Changed
      BY <1>2 DEF Changed
    <3>2. spec'[n].rendered = p.before[n].rendered \cup IF n \in Changed' THEN {<<p.f, p.revision>>} ELSE {}
      BY <1>3, <1>5, <1>8, <2>1, <2>2, <3>1 DEF PromotionTexts
    <3> QED
      BY <1>3, <1>4, <2>2, <3>2 DEF PromotionTexts
  <2>3. CASE d # n
    BY <1>3, <1>4, <1>5, <1>8, <2>1, <2>3 DEF PromotionTexts
  <2> QED
    BY <2>2, <2>3
<1>10. PromotionWhole'
  <2>1. ASSUME NEW d \in Promotion!Domain, NEW c \in spec'[d].rendered \ archive
        PROVE  <<c, d>> \in half \/ (d \in Changed' /\ c = <<p.f, p.revision>>)
    <3>1. CASE d = n
      BY <1>2, <1>3, <1>5, <1>8, <2>1, <3>1 DEF PromotionWhole
    <3>2. CASE d # n
      BY <1>5, <1>8, <2>1, <3>2 DEF PromotionWhole
    <3> QED
      BY <3>1, <3>2
  <2> QED
    BY <1>1, <1>3, <1>4, <2>1 DEF PromotionWhole
<1>11. Promotion!PromotedStays'
  <2> SUFFICES ASSUME NEW c \in archive, NEW d \in Touches[c[1]] PROVE c \in spec'[d].rendered
    BY <1>1 DEF Promotion!PromotedStays
  <2>1. d \in Promotion!Domain
    BY PromotionBaselines DEF PromotionTyped, Promotion!Change
  <2> QED
    BY <1>2, <1>3, <1>5, <2>1 DEF PromotionTexts, Promotion!PromotedStays
<1>12. Promotion!KeepsEdits /\ Promotion!WasApproved
  <2>1. n \notin p.touched => p.before[n].edits = spec[n].edits
    BY <1>2, <1>3 DEF PromotionTexts
  <2>2. \A d \in Promotion!Domain : spec[d].edits \in Int
    BY DEF PromotionTyped, Promotion!Text
  <2> QED
    BY <1>1, <1>3, <1>5, <2>1, <2>2 DEF Promotion!KeepsEdits, Promotion!WasApproved
<1> QED
  BY <1>6, <1>7, <1>9, <1>10, <1>11, <1>12 DEF PromotionGoal

(* The call fails, and names what it could not put back.                   *)
LEMMA PromotionEndsUndo == ASSUME PromotionInv, Promotion!EndUndo PROVE PromotionGoal
<1>1. /\ p' = Promotion!Idle /\ lock' \in BOOLEAN
      /\ UNCHANGED <<spec, work, approvals, allowed, archive, trouble, said>>
  BY DEF Promotion!EndUndo, Promotion!Release
<1>2. half' = half \cup Promotion!ChangeIn(Changed)
  <2>1. Changed = p.failed
    BY DEF Promotion!EndUndo, Promotion!ToUndo, Changed
  <2> QED
    BY <2>1 DEF Promotion!EndUndo
<1>3. trouble' \in trouble .. FewTroubles
  BY <1>1, BoundsAssumption DEF PromotionInv, PromotionTyped
<1> QED
  BY <1>1, <1>2, <1>3, PromotionEnds

(* Somebody edits the current truth by hand. *)
LEMMA PromotionEdited == ASSUME PromotionInv, NEW d \in Promotion!Domain, Promotion!EditSpec(d) PROVE PromotionGoal
<1> USE DEF PromotionInv
<1>1. /\ trouble < FewTroubles /\ trouble' = trouble + 1 /\ spec' = [spec EXCEPT ![d].edits = @ + 1]
      /\ p' = [p EXCEPT !.touched = @ \cup {d}]
      /\ UNCHANGED <<work, approvals, allowed, archive, lock, said, half>>
  BY DEF Promotion!EditSpec, Promotion!Trouble, Promotion!history
<1>2. /\ p'.pc = p.pc /\ p'.f = p.f /\ p'.revision = p.revision /\ p'.before = p.before
      /\ p'.applied = p.applied /\ p'.failed = p.failed /\ p'.touched = p.touched \cup {d}
      /\ p' \in PromotionCalls
  BY <1>1 DEF PromotionTyped, PromotionCalls
<1>3. /\ spec'[d].rendered = spec[d].rendered /\ spec'[d].edits = spec[d].edits + 1
      /\ spec[d].edits \in 0 .. trouble /\ spec'[d] \in Promotion!Text
      /\ \A e \in Promotion!Domain : e # d => spec'[e] = spec[e]
  BY <1>1, BoundsAssumption DEF PromotionTyped, Promotion!Text
<1>4. Promotion!Left' = Promotion!Left /\ Promotion!NextDomain' = Promotion!NextDomain
  BY <1>2 DEF Promotion!Left, Promotion!NextDomain
<1>5. PromotionTyped'
  <2>1. spec' \in [Promotion!Domain -> Promotion!Text]
    BY <1>1, <1>3 DEF PromotionTyped
  <2>2. \A e \in Promotion!Domain : spec'[e].edits <= trouble'
    BY <1>1, <1>3, BoundsAssumption DEF PromotionTyped, Promotion!Text
  <2> QED
    BY <1>1, <1>2, <2>1, <2>2, BoundsAssumption DEF PromotionTyped
<1>6. PromotionPlan'
  <2>1. ASSUME Planned, NEW e \in Touches[p.f] PROVE p.before[e].edits <= trouble'
    <3>1. p.before[e] \in Promotion!Text /\ p.before[e].edits <= trouble
      BY <2>1 DEF PromotionPlan
    <3>2. p.before[e].edits \in Int /\ trouble \in Int
      BY <3>1, BoundsAssumption DEF PromotionTyped, Promotion!Text
    <3> QED
      BY <1>1, <3>1, <3>2
  <2> QED
    BY <1>2, <1>4, <2>1 DEF PromotionPlan, Planned
<1>7. PromotionApproved'
  BY <1>1, <1>2 DEF PromotionApproved
<1>8. \A f \in Feature : Touches[f] \subseteq Promotion!Domain
  BY PromotionBaselines
<1>9. PromotionTexts'
  BY <1>1, <1>2, <1>3, <1>4, <1>8 DEF PromotionTexts, Planned, PromotionTyped, PromotionCalls, Changed
<1>10. PromotionWhole'
  BY <1>1, <1>2, <1>3 DEF PromotionWhole, Planned, Changed
<1>11. Promotion!PromotedStays'
  <2>1. \A c \in archive : c[1] \in Feature
    BY DEF PromotionTyped, Promotion!Change
  <2> QED
    BY <1>1, <1>3, <1>8, <2>1 DEF Promotion!PromotedStays
<1>12. Promotion!KeepsEdits /\ Promotion!WasApproved
  <2>1. \A e \in Promotion!Domain : spec[e].edits \in Int
    BY DEF PromotionTyped, Promotion!Text
  <2> QED
    BY <1>2, <1>3, <2>1 DEF Promotion!KeepsEdits, Promotion!WasApproved
<1> QED
  BY <1>5, <1>6, <1>7, <1>9, <1>10, <1>11, <1>12 DEF PromotionGoal

(* Somebody approves the change as it is. *)
LEMMA PromotionApproves ==
  ASSUME PromotionInv, NEW f \in Feature, NEW person \in Person, Promotion!Approve(f, person)
  PROVE  PromotionGoal
<1> USE DEF PromotionInv
<1> DEFINE now == Promotion!Said(work[f].revision, Promotion!Baselines(f))
           by == {person} \cup IF Promotion!Fits(f) THEN approvals[f].by ELSE {}
           document == [revision |-> work[f].revision, current |-> Promotion!Baselines(f), by |-> by]
<1>1. /\ approvals' = [approvals EXCEPT ![f] = document] /\ said' = [said EXCEPT ![f][person] = now]
      /\ UNCHANGED <<spec, work, allowed, archive, lock, p, trouble, half>>
  BY DEF Promotion!Approve
<1>2. work[f].revision \in 0 .. Revisions /\ Promotion!Baselines(f) \in Texts
  BY PromotionBaselines, PromotionAssumption DEF PromotionTyped, Workspace, Promotion!Revision
<1>3. now \in Opinion /\ now = Promotion!Said(document.revision, document.current)
  BY <1>2 DEF Promotion!Said, Opinion
<1>4. document \in Document
  BY <1>2 DEF Document, PromotionTyped
<1>5. \A other \in by : other = person \/ said[f][other] = now
  BY DEF PromotionApproved, Promotion!Fits
<1>6. by \subseteq Person /\ document.by = by
  BY DEF PromotionTyped, Document
<1> HIDE DEF now, by, document
<1>7. PromotionTyped'
  <2>1. said' \in [Feature -> [Person -> Opinion]]
    BY <1>1, <1>3 DEF PromotionTyped
  <2> QED
    BY <1>1, <1>4, <2>1 DEF PromotionTyped
<1>8. PromotionApproved'
  <2> SUFFICES ASSUME NEW g \in Feature, NEW other \in approvals'[g].by
               PROVE  said'[g][other] = Promotion!Said(approvals'[g].revision, approvals'[g].current)
    BY <1>1 DEF PromotionApproved
  <2>1. CASE g = f
    <3>1. approvals'[g] = document /\ other \in by /\ other \in Person
      BY <1>1, <1>6, <2>1 DEF PromotionTyped
    <3>2. said'[g][other] = IF other = person THEN now ELSE said[f][other]
      BY <1>1, <2>1, <3>1 DEF PromotionTyped
    <3> QED
      BY <1>3, <1>5, <3>1, <3>2
  <2>2. CASE g # f
    <3>1. approvals'[g] = approvals[g] /\ said'[g] = said[g]
      BY <1>1, <2>2 DEF PromotionTyped
    <3> QED
      BY <3>1 DEF PromotionApproved
  <2> QED
    BY <2>1, <2>2
<1>9. PromotionPlan' /\ PromotionTexts' /\ PromotionWhole' /\ Promotion!PromotedStays'
  BY <1>1 DEF PromotionPlan, PromotionTexts, PromotionWhole, Promotion!PromotedStays, Planned,
              Promotion!Left, Promotion!NextDomain, Changed
<1>10. Promotion!KeepsEdits /\ Promotion!WasApproved
  BY <1>1 DEF Promotion!KeepsEdits, Promotion!WasApproved, PromotionTyped, Promotion!Text
<1> QED
  BY <1>7, <1>8, <1>9, <1>10 DEF PromotionGoal

(* A promotion fails after the approval: what it staged is to be removed.  *)
LEMMA PromotionFails == ASSUME PromotionInv, Promotion!Fail PROVE PromotionGoal
<1> USE DEF PromotionInv
<1>1. /\ p.pc \in {"capture", "replace", "archive"} /\ trouble < FewTroubles /\ trouble' = trouble + 1
      /\ p' = [p EXCEPT !.pc = "cleanup"]
      /\ UNCHANGED <<spec, work, approvals, allowed, archive, lock, said, half>>
  BY DEF Promotion!Fail, Promotion!Trouble, Promotion!history
<1>2. trouble' \in trouble .. FewTroubles
  BY <1>1, BoundsAssumption DEF PromotionTyped
<1>3. p' = [p EXCEPT !.pc = "cleanup", !.touched = p.touched, !.named = p.named]
      /\ p.named \in BOOLEAN /\ p.failed = {}
  BY <1>1 DEF PromotionTyped, PromotionCalls, PromotionPlan
<1>4. work' \in [Feature -> Workspace] /\ \A f \in Feature : work'[f].baseline = work[f].baseline
  BY <1>1 DEF PromotionTyped
<1> DEFINE pc == "cleanup"  t == p.touched
<1>5. pc \in {"capture", "replace", "archive", "cleanup", "undo"} /\ t \in SUBSET p.touched
      /\ (\A d \in p.applied : d \in t \/ d \notin p.touched) /\ p' = [p EXCEPT !.pc = pc, !.touched = t, !.named = p.named]
      /\ (pc = "replace" => Promotion!Left # {}) /\ (pc = "archive" => Promotion!Left = {})
      /\ (pc = "replace" => spec[Promotion!NextDomain] = p.before[Promotion!NextDomain])
  BY <1>3
<1> HIDE DEF pc, t
<1> QED
  BY <1>1, <1>2, <1>3, <1>4, <1>5, PromotionMoves

(* The process dies. *)
LEMMA PromotionDies == ASSUME PromotionInv, Promotion!Crash PROVE PromotionGoal
<1> USE DEF PromotionInv
<1>1. /\ trouble < FewTroubles /\ trouble' = trouble + 1 /\ p' = Promotion!Idle
      /\ half' = half \cup Promotion!ChangeIn(Changed)
      /\ UNCHANGED <<spec, work, approvals, allowed, archive, lock, said>>
  BY DEF Promotion!Crash, Promotion!Trouble, Promotion!Abandon, Changed
<1>2. trouble' \in trouble .. FewTroubles /\ lock' \in BOOLEAN
  BY <1>1, BoundsAssumption DEF PromotionTyped
<1> QED
  BY <1>1, <1>2, PromotionEnds

(* An operator removes the lock, or the policy changes. *)
LEMMA PromotionSurrounds ==
  ASSUME PromotionInv, UNCHANGED <<spec, work, approvals, archive, p, said, half>>,
         allowed' \subseteq allowed, lock' \in BOOLEAN, trouble' \in trouble .. FewTroubles
  PROVE  PromotionGoal
<1> USE DEF PromotionInv
<1>1. \A d \in Promotion!Domain : spec[d].edits \in Int /\ spec[d].edits <= trouble'
  BY BoundsAssumption DEF PromotionTyped, Promotion!Text
<1>2. PromotionTyped'
  BY <1>1, BoundsAssumption DEF PromotionTyped
<1>3. PromotionPlan'
  <2>1. ASSUME Planned, NEW d \in Touches[p.f] PROVE p.before[d].edits <= trouble'
    <3>1. p.before[d] \in Promotion!Text /\ p.before[d].edits <= trouble
      BY <2>1 DEF PromotionPlan
    <3>2. p.before[d].edits \in Int /\ trouble \in Int
      BY <3>1, BoundsAssumption DEF PromotionTyped, Promotion!Text
    <3> QED
      BY <3>1, <3>2, BoundsAssumption
  <2> QED
    BY <2>1 DEF PromotionPlan, Planned, Promotion!Left
<1>4. PromotionApproved' /\ PromotionTexts' /\ PromotionWhole' /\ Promotion!PromotedStays'
  BY DEF PromotionApproved, PromotionTexts, PromotionWhole, Promotion!PromotedStays, Planned,
         Promotion!Left, Promotion!NextDomain, Changed
<1>5. Promotion!KeepsEdits /\ Promotion!WasApproved
  BY <1>1 DEF Promotion!KeepsEdits, Promotion!WasApproved
<1> QED
  BY <1>2, <1>3, <1>4, <1>5 DEF PromotionGoal

(* The author revises the change: a revision that was read is not any more *)
(* the one of the workspace.                                               *)
LEMMA PromotionRevises == ASSUME PromotionInv, NEW f \in Feature, Promotion!Author(f) PROVE PromotionGoal
<1> USE DEF PromotionInv
<1>1. /\ work[f].revision < Revisions
      /\ work' = [work EXCEPT ![f].revision = @ + 1, ![f].baseline = Promotion!Baselines(f)]
      /\ UNCHANGED <<spec, approvals, allowed, archive, lock, p, trouble, said, half>>
  BY DEF Promotion!Author, Promotion!history
<1> DEFINE revised == [work[f] EXCEPT !.revision = work[f].revision + 1, !.baseline = Promotion!Baselines(f)]
<1>2. \A g \in Feature : work'[g] = IF g = f THEN revised ELSE work[g]
  BY <1>1 DEF PromotionTyped
<1>3. work[f] \in Workspace /\ work[f].revision \in Promotion!Revision
  BY DEF PromotionTyped, Workspace
<1>4. Promotion!Baselines(f) \in Texts /\ DOMAIN Promotion!Baselines(f) = Touches[f]
  BY PromotionBaselines
<1>5. work[f].revision + 1 \in Promotion!Revision /\ work[f].revision \in Int
  BY <1>1, <1>3, PromotionAssumption DEF Promotion!Revision
<1>6. revised \in Workspace /\ revised.revision = work[f].revision + 1 /\ DOMAIN revised.baseline = Touches[f]
  BY <1>3, <1>4, <1>5 DEF Workspace
<1> HIDE DEF revised
<1>7. work' \in [Feature -> Workspace]
  <2>1. DOMAIN work' = Feature /\ \E F : work' = [g \in F |-> work'[g]]
    BY <1>1 DEF PromotionTyped
  <2> QED
    BY <1>2, <1>6, <2>1 DEF PromotionTyped
<1>8. PromotionTyped'
  <2>1. \A g \in Feature : DOMAIN work'[g].baseline = Touches[g]
    BY <1>2, <1>6 DEF PromotionTyped
  <2> QED
    BY <1>1, <1>7, <2>1 DEF PromotionTyped
<1>9. PromotionApproved'
  <2>1. p.pc = "approval" /\ p.f = f => p.revision <= work[f].revision /\ p.revision \in Int
    BY DEF PromotionApproved, PromotionTyped, PromotionCalls
  <2>2. p.f \in Feature
    BY DEF PromotionTyped, PromotionCalls
  <2>3. p.pc = "approval" => p.revision <= work'[p.f].revision
                              /\ (work'[p.f].revision = p.revision => work'[p.f].baseline = p.before)
    BY <1>2, <1>5, <1>6, <2>1, <2>2 DEF PromotionApproved
  <2> QED
    BY <1>1, <2>3 DEF PromotionApproved
<1>10. PromotionPlan' /\ PromotionTexts' /\ PromotionWhole' /\ Promotion!PromotedStays'
  BY <1>1 DEF PromotionPlan, PromotionTexts, PromotionWhole, Promotion!PromotedStays, Planned,
              Promotion!Left, Promotion!NextDomain, Changed
<1>11. Promotion!KeepsEdits /\ Promotion!WasApproved
  BY <1>1 DEF Promotion!KeepsEdits, Promotion!WasApproved, PromotionTyped, Promotion!Text
<1> QED
  BY <1>8, <1>9, <1>10, <1>11 DEF PromotionGoal

(* Every step of a promotion and around it. *)
LEMMA PromotionSteps == ASSUME PromotionInv, Promotion!Next PROVE PromotionGoal
<1>1. CASE \E f \in Feature : Promotion!Begin(f)
  BY <1>1, PromotionBegins
<1>2. CASE \E f \in Feature : Promotion!Author(f)
  BY <1>2, PromotionRevises
<1>3. CASE \E f \in Feature : \E person \in Person : Promotion!Approve(f, person)
  BY <1>3, PromotionApproves
<1>4. CASE Promotion!Diff
  BY <1>4, PromotionDiff
<1>5. CASE Promotion!CheckApproval
  BY <1>5, PromotionChecks
<1>6. CASE Promotion!Capture
  BY <1>6, PromotionCaptures
<1>7. CASE Promotion!Replace
  BY <1>7, PromotionReplaces
<1>8. CASE Promotion!Verify
  BY <1>8, PromotionVerifies
<1>9. CASE Promotion!Archive
  BY <1>9, PromotionArchives
<1>10. CASE Promotion!CleanUp \/ Promotion!Undo \/ Promotion!EndUndo
  BY <1>10, PromotionCleansUp, PromotionUndoes, PromotionEndsUndo
<1>11. CASE Promotion!Fail
  BY <1>11, PromotionFails
<1>12. CASE Promotion!Crash
  BY <1>12, PromotionDies
<1>13. CASE Promotion!Unlock
  <2>1. /\ lock' = FALSE /\ UNCHANGED <<spec, work, approvals, allowed, archive, p, trouble, said, half>>
    BY <1>13 DEF Promotion!Unlock, Promotion!history
  <2>2. trouble' \in trouble .. FewTroubles
    BY <2>1, BoundsAssumption DEF PromotionInv, PromotionTyped
  <2> QED
    BY <2>1, <2>2, PromotionSurrounds
<1>14. CASE \E d \in Promotion!Domain : Promotion!EditSpec(d)
  BY <1>14, PromotionEdited
<1>15. CASE \E person \in Person : Promotion!Disallow(person)
  <2>1. PICK person \in Person : Promotion!Disallow(person)
    BY <1>15
  <2>2. /\ allowed' \subseteq allowed /\ trouble < FewTroubles /\ trouble' = trouble + 1
        /\ UNCHANGED <<spec, work, approvals, archive, lock, p, said, half>>
    BY <2>1 DEF Promotion!Disallow, Promotion!Trouble, Promotion!history
  <2>3. trouble' \in trouble .. FewTroubles /\ lock' \in BOOLEAN
    BY <2>2, BoundsAssumption DEF PromotionInv, PromotionTyped
  <2> QED
    BY <2>2, <2>3, PromotionSurrounds
<1> QED
  BY <1>1, <1>2, <1>3, <1>4, <1>5, <1>6, <1>7, <1>8, <1>9, <1>10, <1>11, <1>12, <1>13, <1>14, <1>15
     DEF Promotion!Next

(* No text holds a revision that nobody has written yet, and no workspace  *)
(* is on texts that hold its own revision: the revision that a promotion   *)
(* has read is not in what it has read.                                    *)
PromotionOnce ==
  /\ \A d \in Promotion!Domain : \A c \in spec[d].rendered : c[2] <= work[c[1]].revision
  /\ \A f \in Feature : \A d \in Touches[f] : <<f, work[f].revision>> \notin work[f].baseline[d].rendered
  /\ Planned => p.revision <= work[p.f].revision
  /\ Promotion!NotTwice

(* A step that revises nothing and reads nothing.                          *)
LEMMA OnceStays ==
  ASSUME PromotionInv, PromotionOnce,
         \A f \in Feature : work'[f].revision = work[f].revision /\ work'[f].baseline = work[f].baseline,
         \A d \in Promotion!Domain : \A c \in spec'[d].rendered \ spec[d].rendered :
           Planned /\ c = <<p.f, p.revision>>,
         \/ p'.pc \in {"idle", "diff"}
         \/ Planned /\ p'.f = p.f /\ p'.revision = p.revision /\ p'.before = p.before
  PROVE  PromotionOnce'
<1>1. p.f \in Feature /\ \A d \in Promotion!Domain : \A c \in spec[d].rendered : c[1] \in Feature
  BY DEF PromotionInv, PromotionTyped, PromotionCalls, Promotion!Text, Promotion!Change
<1>2. ASSUME NEW d \in Promotion!Domain, NEW c \in spec'[d].rendered PROVE c[2] <= work'[c[1]].revision
  <2>1. CASE c \in spec[d].rendered
    BY <1>1, <2>1 DEF PromotionOnce
  <2>2. CASE c \notin spec[d].rendered
    BY <1>1, <2>2 DEF PromotionOnce
  <2> QED
    BY <2>1, <2>2
<1>3. \A f \in Feature : \A d \in Touches[f] : <<f, work'[f].revision>> \notin work'[f].baseline[d].rendered
  BY DEF PromotionOnce
<1>4. (Planned => p.revision <= work[p.f].revision)' /\ Promotion!NotTwice'
  BY <1>1 DEF PromotionOnce, Planned, PromotionPc, Promotion!NotTwice
<1> QED
  BY <1>2, <1>3, <1>4 DEF PromotionOnce

(* Before the first promotion, and in every step.                          *)
LEMMA OnceStarts == Promotion!Init => PromotionOnce
<1> SUFFICES ASSUME Promotion!Init PROVE PromotionOnce
  OBVIOUS
<1>1. /\ \A d \in Promotion!Domain : spec[d].rendered = {}
      /\ \A f \in Feature : \A d \in Touches[f] : work[f].baseline[d].rendered = {}
      /\ p.pc = "idle"
  BY DEF Promotion!Init, Promotion!Original, Promotion!Idle
<1> QED
  BY <1>1 DEF PromotionOnce, Planned, Promotion!NotTwice

(* No step of promotion renders a change into a text that holds it.        *)
LEMMA OnceSteps == ASSUME PromotionInv, PromotionOnce, Promotion!Next PROVE PromotionOnce'
<1> USE DEF PromotionInv
<1>1. p.f \in Feature /\ work \in [Feature -> Workspace] /\ spec \in [Promotion!Domain -> Promotion!Text]
  BY DEF PromotionTyped, PromotionCalls
<1>2. p \in PromotionCalls
  BY DEF PromotionTyped
<1>3. CASE \E f \in Feature : Promotion!Begin(f) \/ \E person \in Person : Promotion!Approve(f, person)
  <2>1. UNCHANGED <<spec, work>> /\ (p'.pc = "diff" \/ p' = p)
    BY <1>3 DEF Promotion!Begin, Promotion!Approve, Promotion!Idle
  <2> QED
    BY <1>2, <2>1, OnceStays DEF Planned, PromotionCalls, PromotionPc
<1>4. CASE \E f \in Feature : Promotion!Author(f)
  <2>1. PICK f \in Feature : Promotion!Author(f)
    BY <1>4
  <2>2. UNCHANGED <<spec, p>> /\ work' = [work EXCEPT ![f].revision = @ + 1, ![f].baseline = Promotion!Baselines(f)]
    BY <2>1 DEF Promotion!Author
  <2>3. /\ work'[f].revision = work[f].revision + 1 /\ work'[f].baseline = Promotion!Baselines(f)
        /\ \A g \in Feature : g # f => work'[g] = work[g]
        /\ \A g \in Feature : work[g].revision \in Int
    BY <1>1, <2>2, PromotionAssumption DEF Workspace, Promotion!Revision
  <2>4. \A d \in Promotion!Domain : \A c \in spec[d].rendered : c[1] \in Feature /\ c[2] \in Int
    BY <1>1, PromotionAssumption DEF Promotion!Text, Promotion!Change, Promotion!Revision
  <2>5. \A d \in Promotion!Domain : \A c \in spec[d].rendered : c[2] <= work'[c[1]].revision
    BY <2>3, <2>4 DEF PromotionOnce
  <2>6. \A d \in Touches[f] : <<f, work[f].revision + 1>> \notin Promotion!Baselines(f)[d].rendered
    BY <2>3, <2>4, PromotionBaselines DEF PromotionOnce
  <2>7. Planned => p.revision <= work'[p.f].revision
    BY <1>1, <1>2, <2>3, PromotionAssumption DEF PromotionOnce, PromotionCalls
  <2> QED
    BY <2>2, <2>3, <2>5, <2>6, <2>7 DEF PromotionOnce, Planned, Promotion!NotTwice
<1>5. CASE Promotion!Diff
  <2>1. p.pc = "diff" /\ UNCHANGED <<spec, work>>
    BY <1>5 DEF Promotion!Diff
  <2>2. CASE p'.pc = "idle"
    BY <2>1, <2>2, OnceStays
  <2>3. CASE /\ Promotion!Valid(p.f)
             /\ p' = [p EXCEPT !.pc = "approval", !.revision = work[p.f].revision, !.before = Promotion!Baselines(p.f)]
    <3>1. /\ p'.f = p.f /\ p'.revision = work[p.f].revision /\ p'.before = work[p.f].baseline
          /\ DOMAIN p'.before = Touches[p.f] /\ work[p.f].revision \in Int
      BY <1>1, <1>2, <2>3, PromotionAssumption
         DEF Promotion!Valid, PromotionCalls, PromotionTyped, Workspace, Promotion!Revision
    <3>2. Promotion!NotTwice'
      BY <1>1, <3>1 DEF PromotionOnce, Promotion!NotTwice
    <3> QED
      BY <1>1, <2>1, <3>1, <3>2 DEF PromotionOnce
  <2> QED
    BY <1>5, <2>2, <2>3 DEF Promotion!Diff, Promotion!Release, Promotion!Idle
<1>6. CASE \/ Promotion!CheckApproval \/ Promotion!Capture \/ Promotion!Fail \/ Promotion!Crash
           \/ Promotion!EndUndo \/ Promotion!Unlock \/ \E person \in Person : Promotion!Disallow(person)
  <2>1. /\ UNCHANGED <<spec, work>>
        /\ \/ p'.pc \in {"idle", "diff"} \/ p' = p
           \/ p.pc \notin {"idle", "diff"} /\ p'.f = p.f /\ p'.revision = p.revision /\ p'.before = p.before
    <3>1. CASE Promotion!CheckApproval
      BY <1>2, <3>1 DEF PromotionCalls, Promotion!CheckApproval, Promotion!Release, Promotion!Call, Promotion!Idle
    <3>2. CASE Promotion!Capture
      BY <1>2, <3>2 DEF PromotionCalls, Promotion!Capture
    <3>3. CASE Promotion!Fail
      BY <1>2, <3>3 DEF PromotionCalls, Promotion!Fail
    <3>4. CASE Promotion!Crash \/ Promotion!EndUndo
      BY <3>4 DEF Promotion!Crash, Promotion!EndUndo, Promotion!Release, Promotion!Idle
    <3>5. CASE Promotion!Unlock \/ \E person \in Person : Promotion!Disallow(person)
      BY <3>5 DEF Promotion!Unlock, Promotion!Disallow
    <3> QED
      BY <1>6, <3>1, <3>2, <3>3, <3>4, <3>5
  <2> QED
    BY <1>2, <2>1, OnceStays DEF Planned, PromotionCalls, PromotionPc
<1>7. CASE Promotion!Verify \/ Promotion!CleanUp
  <2>1. /\ UNCHANGED spec /\ \A f \in Feature : work'[f].revision = work[f].revision /\ work'[f].baseline = work[f].baseline
    <3>1. CASE Promotion!Verify
      <4> DEFINE fresh == (\A d \in p.applied : spec[d] = Promotion!Rendered(d)) /\ ~work[p.f].evidence
      <4>1. UNCHANGED spec /\ work' = [work EXCEPT ![p.f].evidence = @ \/ fresh]
        BY <3>1 DEF Promotion!Verify
      <4> HIDE DEF fresh
      <4> QED
        BY <1>1, <4>1 DEF Workspace
    <3>2. CASE Promotion!CleanUp
      <4>1. UNCHANGED spec /\ (UNCHANGED work \/ work' = [work EXCEPT ![p.f].evidence = @ /\ ~p.named])
        BY <3>2 DEF Promotion!CleanUp
      <4> QED
        BY <1>1, <4>1 DEF Workspace
    <3> QED
      BY <1>7, <3>1, <3>2
  <2>2. /\ p.pc \in {"capture", "cleanup"}
        /\ p'.pc = "idle" \/ (p'.f = p.f /\ p'.revision = p.revision /\ p'.before = p.before)
    <3>1. CASE Promotion!Verify
      <4> DEFINE written == \A d \in p.applied : spec[d] = Promotion!Rendered(d)
                 next == IF written /\ ~work[p.f].evidence THEN "archive" ELSE "cleanup"
      <4>1. p.pc = "capture" /\ p' = [p EXCEPT !.pc = next, !.named = written]
        BY <3>1 DEF Promotion!Verify
      <4> HIDE DEF written, next
      <4> QED
        BY <1>2, <4>1 DEF PromotionCalls
    <3>2. CASE Promotion!CleanUp
      BY <1>2, <3>2 DEF PromotionCalls, Promotion!CleanUp, Promotion!Release, Promotion!Call, Promotion!Idle
    <3> QED
      BY <1>7, <3>1, <3>2
  <2> QED
    BY <2>1, <2>2, OnceStays DEF Planned, PromotionPc
<1>8. CASE Promotion!Replace
  <2> DEFINE n == Promotion!NextDomain
  <2>1. /\ p.pc = "replace" /\ UNCHANGED work
        /\ spec' = [spec EXCEPT ![n] = [p.before[n] EXCEPT !.rendered = @ \cup {<<p.f, p.revision>>}]]
        /\ p' = [p EXCEPT !.pc = "capture", !.applied = @ \cup {n}]
    BY <1>8 DEF Promotion!Replace, Promotion!Rendered
  <2>2. /\ Planned /\ n \in Touches[p.f] /\ n \in Promotion!Domain
        /\ p.before \in [Touches[p.f] -> Promotion!Text]
    BY <2>1, PromotionNext DEF Planned, PromotionPc, PromotionPlan
  <2> HIDE DEF n
  <2>3. /\ spec'[n].rendered = p.before[n].rendered \cup {<<p.f, p.revision>>}
        /\ \A d \in Promotion!Domain : d # n => spec'[d] = spec[d]
        /\ p.before[n].rendered \subseteq spec[n].rendered
    BY <1>1, <2>1, <2>2 DEF PromotionTexts, Promotion!Text
  <2>4. p'.f = p.f /\ p'.revision = p.revision /\ p'.before = p.before
    BY <1>2, <2>1 DEF PromotionCalls
  <2> QED
    BY <2>1, <2>2, <2>3, <2>4, OnceStays
<1>9. CASE Promotion!Undo
  <2> DEFINE n == Promotion!LastDomain
  <2>1. /\ p.pc = "undo" /\ p.applied # {} /\ UNCHANGED work
        /\ spec' = [spec EXCEPT ![n] = p.before[n]] \/ UNCHANGED spec
        /\ p'.f = p.f /\ p'.revision = p.revision /\ p'.before = p.before
    BY <1>2, <1>9 DEF Promotion!Undo, Promotion!ToUndo, PromotionCalls
  <2>2. Planned /\ \A d \in p.applied : p.before[d].rendered \subseteq spec[d].rendered
    BY <2>1 DEF Planned, PromotionPc, PromotionTexts, PromotionPlan
  <2>3. n \in p.applied
    <3>1. p.applied \in SUBSET (1 .. Domains) /\ Domains \in Nat
      BY <1>2, PromotionAssumption DEF PromotionCalls, Promotion!Domain
    <3>2. \E d \in p.applied : \A e \in p.applied : e <= d
      BY <2>1, <3>1, HasHighest
    <3> QED
      BY <3>2 DEF Promotion!LastDomain, Promotion!ToUndo
  <2> HIDE DEF n
  <2>4. \A d \in Promotion!Domain : spec'[d].rendered \subseteq spec[d].rendered
    BY <1>1, <2>1, <2>2, <2>3
  <2> QED
    BY <2>1, <2>2, <2>4, OnceStays
<1>10. CASE Promotion!Archive
  <2>1. p'.pc = "idle" /\ UNCHANGED spec /\ work' = [work EXCEPT ![p.f].status = "archived"]
    BY <1>10 DEF Promotion!Archive, Promotion!Release, Promotion!Idle
  <2>2. \A f \in Feature : work'[f].revision = work[f].revision /\ work'[f].baseline = work[f].baseline
    BY <1>1, <2>1 DEF Workspace
  <2> QED
    BY <2>1, <2>2, OnceStays
<1>11. CASE \E d \in Promotion!Domain : Promotion!EditSpec(d)
  <2>1. PICK d \in Promotion!Domain : Promotion!EditSpec(d)
    BY <1>11
  <2>2. /\ UNCHANGED work /\ \A e \in Promotion!Domain : spec'[e].rendered = spec[e].rendered
        /\ p'.pc = p.pc /\ p'.f = p.f /\ p'.revision = p.revision /\ p'.before = p.before
    BY <1>1, <1>2, <2>1 DEF Promotion!EditSpec, PromotionCalls, Promotion!Text
  <2> QED
    BY <1>2, <2>2, OnceStays DEF Planned, PromotionCalls, PromotionPc
<1> QED
  BY <1>3, <1>4, <1>5, <1>6, <1>7, <1>8, <1>9, <1>10, <1>11 DEF Promotion!Next

(* What the invariant of promotion says of the runs' properties. *)
LEMMA PromotionIsSafe ==
  PromotionInv /\ PromotionOnce =>
    Promotion!TypeOK /\ Promotion!NoHalfPromotion /\ Promotion!PromotedStays /\ Promotion!NotTwice
<1> SUFFICES ASSUME PromotionInv PROVE Promotion!TypeOK /\ Promotion!NoHalfPromotion
  BY DEF PromotionInv, PromotionOnce
<1> USE DEF PromotionInv
<1>1. \A f \in Feature : /\ work[f] \in Workspace /\ approvals[f] \in Document
                         /\ DOMAIN work[f].baseline = Touches[f]
  BY DEF PromotionTyped
<1>2. \A f \in Feature : /\ work[f].status \in {"active", "archived"} /\ work[f].revision \in Promotion!Revision
                         /\ approvals[f].revision \in 0 .. Revisions /\ approvals[f].by \subseteq Person
  BY <1>1 DEF Workspace, Document
<1>3. p.applied \subseteq Promotion!Domain
  BY DEF PromotionTyped, PromotionCalls
<1>4. Promotion!TypeOK
  BY <1>1, <1>2, <1>3 DEF PromotionTyped, Promotion!TypeOK
<1>5. Promotion!NoHalfPromotion
  BY DEF Promotion!NoHalfPromotion, PromotionWhole, PromotionPlan, Changed
<1> QED
  BY <1>4, <1>5

-----------------------------------------------------------------------------
(* Stores that are read while people edit them, and that are created.      *)
ReferencesPc ==
  {"idle", "sources", "latest", "load", "manifest", "before", "walk", "reload", "declared",
   "verify", "read", "deltas", "delta", "held"}
WorkPc ==
  {"look", "root", "changes", "current", "meta", "open", "fill", "check", "exists", "created", "refused"}
StoreEntry == [layer : Nat, locked : BOOLEAN, source : Nat, manifest : StoreManifest]
StoreResolved == [at : STRING, manifest : StoreManifest, snapshot : StoreSnapshot]
StoreScan ==
  [before : -1 .. Len(StoreManifests), roots : Seq(STRING), todo : SUBSET StorePart, got : SUBSET StoreFiles]
StoreCalled ==
  [pc : ReferencesPc, call : 0 .. Len(StoreCalls), registry : SUBSET StoreEntry, i : Nat,
   from : 0 .. Len(StoreDeclarations), refs : Seq(StoreReference),
   manifest : StoreManifest \cup {[id |-> References!Any]}, scan : StoreScan, first : SUBSET StoreSnapshot,
   resolved : Seq(StoreResolved), then : {"bind", "doctor", "open", "close"}, found : SUBSET StoreFiles]

DiskTyped(D) == D \in [DOMAIN disk -> StoreDirectory]
ReferencesTyped ==
  /\ DiskTyped(disk) /\ "" \notin DOMAIN disk
  /\ file \in -1 .. Len(StoreDeclarations)
  /\ <<file, disk>> \in touched /\ \A t \in touched : DiskTyped(t[2])
  /\ edited \in BOOLEAN /\ trouble \in 0 .. Troubles
  /\ p \in StoreCalled /\ work \in [DOMAIN StoreCreates -> WorkPc]

(* A file that is inspected is of a root of the manifest; it is still to   *)
(* be listed or to be read, or has been seen.                              *)
InRoots(roots) == {x \in StorePart : StoreRootOf[x] \in References!Range(roots)}
Scope == InRoots(p.manifest.roots)
Pending == p.scan.todo \cup InRoots(p.scan.roots)
OneEach(pairs) == \A a, b \in pairs : a[1] = b[1] => a = b
Scans == p.pc \in {"before", "walk", "reload"}

ReferencesPlaces ==
  /\ p.pc # "idle" => p.call \in DOMAIN StoreCalls
  /\ p.pc = "sources" => p.i \in DOMAIN StoreCalls[p.call].registry
  /\ p.pc \in {"idle", "sources", "latest", "load"} => p.then = "bind" /\ p.resolved = <<>>
  /\ p.pc \in {"manifest", "declared"} => p.then = "bind"
  /\ p.pc = "verify" => p.then # "bind"
  /\ p.pc \in {"read", "deltas", "delta"} => p.then = "open"
  /\ p.pc = "held" => p.then = "close"
  /\ p.pc = "declared" => p.resolved # <<>>
  /\ p.then = "bind" /\ (p.pc = "manifest" \/ Scans) => p.i \in DOMAIN p.refs /\ Len(p.resolved) = p.i - 1
  /\ p.then # "bind" => p.i \in DOMAIN p.resolved
  /\ Scans => p.manifest \in StoreManifest /\ References!At \in DOMAIN disk
  /\ Scans /\ p.then # "bind" => p.manifest = p.resolved[p.i].manifest
  /\ \A n \in DOMAIN p.resolved :
       /\ p.resolved[n].at \in DOMAIN disk /\ p.resolved[n].manifest = p.resolved[n].snapshot.manifest
       /\ OneEach(p.resolved[n].snapshot.files)

ReferencesScan ==
  /\ p.pc \in {"walk", "reload"} =>
       /\ Pending \subseteq Scope
       /\ \A i, j \in DOMAIN p.scan.roots : p.scan.roots[i] = p.scan.roots[j] => i = j
       /\ p.scan.todo \cap InRoots(p.scan.roots) = {}
       /\ \A pair \in p.scan.got : pair[1] \in Scope \ Pending
       /\ OneEach(p.scan.got)
  /\ p.pc = "reload" => Pending = {}

(* What the inspection says of a file; 0 is that it is not there.          *)
Observed(pairs, x, v) == IF v = 0 THEN \A pair \in pairs : pair[1] # x ELSE <<x, v>> \in pairs

(* Unless something got a content back: what is gone stays away, so that   *)
(* what two inspections saw was there when the first one ended.            *)
ThatFile(t) == t[2][References!At].files
ThatManifest(t) == t[2][References!At].manifest
OfDeclaration == p.then \in {"bind", "doctor"}
DeclarationSeen ==
  /\ OfDeclaration /\ p.pc \notin {"idle", "sources", "latest", "load"} => \E t \in touched : t[1] = p.from
  /\ p.then = "bind" => \A n \in DOMAIN p.resolved : \E t \in touched :
       /\ t[1] = p.from \/ file # p.from
       /\ References!WholeAt(t[2][p.resolved[n].at], p.resolved[n].snapshot)
  /\ p.then = "doctor" => \A n \in DOMAIN p.resolved : \E t \in touched :
       t[1] = p.from /\ References!WholeAt(t[2][p.resolved[n].at], p.resolved[n].snapshot)
ScanSeen ==
  p.pc \in {"walk", "reload"} =>
    /\ \E t \in touched : ThatManifest(t) = p.scan.before
    /\ \A x \in Scope \ Pending : \E t \in touched : Observed(p.scan.got, x, ThatFile(t)[x])
EndedAt(first, t) ==
  /\ ThatManifest(t) > 0 /\ StoreManifests[ThatManifest(t)] = p.manifest
  /\ OfDeclaration => t[1] = p.from \/ file # p.from
  /\ ThatManifest(t) = first.bytes \/ disk[References!At].manifest # first.bytes
  /\ \A x \in Scope : \A v \in Nat : Observed(first.files, x, v) =>
       ThatFile(t)[x] = v \/ disk[References!At].files[x] # v
FirstSaw(first) ==
  /\ first.manifest = p.manifest /\ OneEach(first.files) /\ \A pair \in first.files : pair[1] \in Scope
  /\ \E t \in touched : ThatManifest(t) = first.bytes
  /\ \A x \in Scope : \E t \in touched : Observed(first.files, x, ThatFile(t)[x])
SecondSaw(first, t) ==
  p.pc \in {"walk", "reload"} =>
    /\ p.scan.before = first.bytes => ThatManifest(t) = first.bytes
    /\ \A x \in Scope \ Pending : \A v \in Nat :
         Observed(p.scan.got, x, v) /\ Observed(first.files, x, v) => ThatFile(t)[x] = v
FirstSeen ==
  Scans => \A first \in p.first :
    FirstSaw(first) /\ \E t \in touched : EndedAt(first, t) /\ SecondSaw(first, t)
ReferencesSeen == ~edited => DeclarationSeen /\ ScanSeen /\ FirstSeen

(* What is read is bound, and of the deltas that are bound each is found   *)
(* or still to be read.                                                    *)
Keys(pairs) == {pair[1] : pair \in pairs}
ReferencesReads ==
  /\ p.pc = "read" => p.found = {}
  /\ p.pc \in {"deltas", "delta"} \/ p.then = "close" => p.found \subseteq p.resolved[p.i].snapshot.files
  /\ p.pc = "delta" =>
       /\ p.scan.todo # {} /\ p.scan.todo \subseteq References!BoundDeltas
       /\ References!BoundDeltas \subseteq p.scan.todo \cup Keys(p.found)
  /\ p.then = "close" /\ StoreMetadata \in Keys(p.found) =>
       \A pair \in p.resolved[p.i].snapshot.files : pair[1] \in StoreDeltas => pair \in p.found

ReferencesLatest ==
  /\ p.pc \in {"sources", "latest"} =>
       /\ IsFiniteSet(p.registry) /\ \A a, b \in p.registry : a.source = b.source => a = b
  /\ p.pc = "sources" => \A e \in p.registry : e.source < p.i
  /\ p.pc = "latest" => References!ValidRegistry(p.registry)

(* Of those that create a store in one place, one has opened its manifest. *)
Opened(c) == work[c] \in {"fill", "check", "created"}
Alone(c) == \A e \in StoreEdits : e.at # References!Place(c)
ReferencesMade ==
  \A c \in DOMAIN StoreCreates :
    /\ work[c] # "look" => References!Place(c) \in DOMAIN disk
    /\ Alone(c) =>
         /\ work[c] = "fill" => disk[References!Place(c)].manifest = -1
         /\ work[c] \in {"check", "created"} => disk[References!Place(c)].manifest = StoreCreates[c].manifest
         /\ work[c] \in {"exists", "created"} => References!SameStore(c)
         /\ \A d \in DOMAIN StoreCreates :
              References!Place(d) = References!Place(c) /\ Opened(c) /\ Opened(d) => c = d

ReferencesSaid ==
  /\ said.stores \subseteq StoreResolved
  /\ References!WasThere /\ References!ReadsWhatIsBound /\ References!LatestIsAuthorized

ReferencesInv ==
  /\ ReferencesTyped /\ ReferencesPlaces /\ ReferencesScan /\ ReferencesSeen /\ ReferencesReads
  /\ ReferencesLatest /\ ReferencesMade /\ ReferencesSaid

(* What there is to know of the stores, for any of them. *)
LEMMA StoreFacts ==
  /\ Len(StoreManifests) \in Nat /\ Len(StoreDeclarations) \in Nat /\ Len(StoreCalls) \in Nat
  /\ \A m \in 1 .. Len(StoreManifests) : StoreManifests[m] \in StoreManifest
  /\ \A m \in StoreManifest :
       /\ m.roots \in Seq(STRING) /\ m.precedence \in Int
       /\ \A i, j \in DOMAIN m.roots : m.roots[i] = m.roots[j] => i = j
  /\ \A n \in 1 .. Len(StoreDeclarations) :
       StoreDeclarations[n] \in Seq(StoreReference) /\ StoreDeclarations[n] # <<>>
  /\ DOMAIN StoreCalls = 1 .. Len(StoreCalls)
  /\ \A n \in DOMAIN StoreCalls : StoreCalls[n].registry \in Seq(StoreSource)
<1>1. Len(StoreManifests) \in Nat /\ \A m \in 1 .. Len(StoreManifests) : StoreManifests[m] \in StoreManifest
  BY ManifestAssumption DEF StoreManifest, References!Range
<1>2. \A m \in StoreManifest :
        /\ m.roots \in Seq(STRING) /\ m.precedence \in Int
        /\ \A i, j \in DOMAIN m.roots : m.roots[i] = m.roots[j] => i = j
  <2> TAKE m \in StoreManifest
  <2>1. PICK n \in DOMAIN StoreManifests : m = StoreManifests[n]
    BY DEF StoreManifest, References!Range
  <2> QED
    BY <2>1, ManifestAssumption
<1>3. /\ Len(StoreDeclarations) \in Nat
      /\ \A n \in 1 .. Len(StoreDeclarations) :
           StoreDeclarations[n] \in Seq(StoreReference) /\ StoreDeclarations[n] # <<>>
  BY DeclarationAssumption
<1>4. Len(StoreCalls) \in Nat /\ DOMAIN StoreCalls = 1 .. Len(StoreCalls)
  BY CallAssumption
<1>5. \A n \in DOMAIN StoreCalls : StoreCalls[n] \in StoreCall
  BY CallAssumption
<1> QED
  BY <1>1, <1>2, <1>3, <1>4, <1>5 DEF StoreCall

(* A process that has nothing to do. *)
LEMMA IdleTyped == References!Idle \in StoreCalled
<1>1. References!Empty \in StoreScan
  BY StoreFacts DEF References!Empty, StoreScan
<1>2. <<>> \in Seq(StoreReference) /\ <<>> \in Seq(StoreResolved)
  OBVIOUS
<1> QED
  BY <1>1, <1>2, StoreFacts DEF References!Idle, StoreCalled, ReferencesPc

(* Steps of the process that resolves and reads change nothing on disk.    *)
Reading == UNCHANGED <<disk, file, work, trouble>>
Silent == Reading /\ UNCHANGED <<said, touched, edited>>
CallHolds ==
  /\ p \in StoreCalled /\ ReferencesPlaces /\ ReferencesScan /\ ReferencesSeen /\ ReferencesReads
  /\ ReferencesLatest

(* What a silent step has to show is of the call alone. *)
LEMMA SilentStep ==
  ASSUME ReferencesInv, Silent, CallHolds'
  PROVE  ReferencesInv'
<1> USE DEF ReferencesInv, Silent, Reading
<1>1. ReferencesTyped'
  BY DEF ReferencesTyped, DiskTyped, CallHolds
<1>2. ReferencesMade'
  BY DEF ReferencesMade, Alone, Opened, References!Place, References!SameStore, References!Loads,
         References!Loaded, References!Wanted
<1>3. ReferencesSaid'
  BY DEF ReferencesSaid, References!WasThere, References!WholeAt, References!ReadsWhatIsBound,
         References!LatestIsAuthorized
<1> QED
  BY <1>1, <1>2, <1>3 DEF CallHolds

(* A process that is idle holds whatever there is on disk. *)
LEMMA IdleHolds ==
  /\ p = References!Idle => CallHolds
  /\ p' = References!Idle => CallHolds'
<1>1. /\ References!Idle.pc = "idle" /\ References!Idle.then = "bind" /\ References!Idle.resolved = <<>>
      /\ References!Idle \in StoreCalled
  BY IdleTyped DEF References!Idle
<1> USE <1>1 DEF CallHolds, ReferencesPlaces, ReferencesScan, ReferencesSeen, DeclarationSeen, ScanSeen, FirstSeen,
                 Scans, ReferencesReads, ReferencesLatest
<1>2. p = References!Idle => CallHolds
  OBVIOUS
<1>3. p' = References!Idle => CallHolds'
  OBVIOUS
<1> QED
  BY <1>2, <1>3

(* A call that is refused leaves nothing behind. *)
LEMMA Refuses ==
  ASSUME ReferencesInv, References!Refuse, References!Looks
  PROVE  ReferencesInv'
<1>1. Silent /\ p' = References!Idle
  BY DEF References!Refuse, References!Looks, Silent, Reading
<1>2. CallHolds'
  BY <1>1, IdleHolds
<1> QED
  BY <1>1, <1>2, SilentStep

-----------------------------------------------------------------------------
(* Edits and creations: the call stays where it is.                        *)
Elsewhere ==
  /\ DiskTyped(disk') /\ file' \in -1 .. Len(StoreDeclarations)
  /\ References!Changes /\ work' \in [DOMAIN StoreCreates -> WorkPc] /\ trouble' \in 0 .. Troubles

(* What is gone from the disk stays away, unless something got a content   *)
(* back.                                                                   *)
LEMMA StaysAway ==
  ASSUME ReferencesTyped, Elsewhere, ~edited', NEW d \in DOMAIN disk
  PROVE  /\ ~edited
         /\ \A n : file # n /\ (\E t \in touched : t[1] = n) => file' # n
         /\ \A n : disk[d].manifest # n /\ (\E t \in touched : t[2][d].manifest = n) => disk'[d].manifest # n
         /\ \A x \in StorePart : \A n :
              disk[d].files[x] # n /\ (\E t \in touched : t[2][d].files[x] = n) => disk'[d].files[x] # n
<1>1. edited' = (edited \/ References!Regains)
  BY DEF Elsewhere, References!Changes
<1>2. ~edited /\ ~References!Regains
  BY <1>1 DEF ReferencesTyped
<1> QED
  BY <1>2 DEF References!Regains

(* What an inspection says of a file is one thing. *)
LEMMA OneObservation ==
  ASSUME NEW pairs, NEW x \in StorePart, NEW v \in Nat, NEW w \in Nat, OneEach(pairs),
         Observed(pairs, x, v), Observed(pairs, x, w)
  PROVE  v = w
<1>1. <<x, v>>[1] = x /\ <<x, w>>[1] = x /\ <<x, v>>[2] = v /\ <<x, w>>[2] = w
  OBVIOUS
<1> QED
  BY <1>1 DEF Observed, OneEach

(* A change from outside and what the call has seen: a place that was      *)
(* empty stays empty unless something got a content back, which `edited`   *)
(* tells.                                                                  *)
LEMMA ElsewhereSeen ==
  ASSUME ReferencesInv, Elsewhere
  PROVE  ReferencesSeen'
<1> SUFFICES ASSUME ~edited'
             PROVE  DeclarationSeen' /\ ScanSeen' /\ FirstSeen'
  BY DEF ReferencesSeen
<1> USE DEF ReferencesInv
<1>1. p' = p /\ touched \subseteq touched' /\ p \in StoreCalled
  BY DEF Elsewhere, References!Changes, ReferencesTyped
<1>2. edited' = (edited \/ References!Regains) /\ edited \in BOOLEAN
  BY DEF Elsewhere, References!Changes, ReferencesTyped
<1>3. ~edited /\ DeclarationSeen /\ ScanSeen /\ FirstSeen
  BY <1>2 DEF ReferencesSeen
<1>4. file # p.from /\ (\E t \in touched : t[1] = p.from) => file' # p.from
  BY <1>2, <1>3 DEF References!Regains
<1>5. DeclarationSeen'
  <2>1. p'.then = "bind" => \A n \in DOMAIN p'.resolved : \E t \in touched' :
          /\ t[1] = p'.from \/ file' # p'.from
          /\ References!WholeAt(t[2][p'.resolved[n].at], p'.resolved[n].snapshot)
    <3> SUFFICES ASSUME p.then = "bind", NEW n \in DOMAIN p.resolved
                 PROVE  \E t \in touched :
                          /\ t[1] = p.from \/ file' # p.from
                          /\ References!WholeAt(t[2][p.resolved[n].at], p.resolved[n].snapshot)
      BY <1>1
    <3>1. PICK t \in touched :
            /\ t[1] = p.from \/ file # p.from
            /\ References!WholeAt(t[2][p.resolved[n].at], p.resolved[n].snapshot)
      BY <1>3 DEF DeclarationSeen
    <3>2. \E u \in touched : u[1] = p.from
      <4>1. p.resolved # <<>>
        OBVIOUS
      <4> QED
        BY <1>3, <4>1 DEF DeclarationSeen, ReferencesPlaces, OfDeclaration
    <3> QED
      BY <1>4, <3>1, <3>2
  <2>2. p'.then = "doctor" => \A n \in DOMAIN p'.resolved : \E t \in touched' :
          t[1] = p'.from /\ References!WholeAt(t[2][p'.resolved[n].at], p'.resolved[n].snapshot)
    BY <1>1, <1>3 DEF DeclarationSeen
  <2>3. OfDeclaration' /\ p'.pc \notin {"idle", "sources", "latest", "load"} => \E t \in touched' : t[1] = p'.from
    BY <1>1, <1>3 DEF DeclarationSeen, OfDeclaration
  <2> QED
    BY <2>1, <2>2, <2>3 DEF DeclarationSeen, References!WholeAt
<1>6. References!At' = References!At /\ Scope' = Scope /\ Pending' = Pending
  BY <1>1 DEF References!At, References!Here, Scope, Pending
<1>7. /\ \A t : ThatFile(t)' = ThatFile(t)
      /\ \A t : ThatManifest(t)' = ThatManifest(t)
  BY <1>6 DEF ThatFile, ThatManifest
<1>8. ScanSeen'
  <2> SUFFICES ASSUME p.pc \in {"walk", "reload"}
               PROVE  /\ \E t \in touched' : ThatManifest(t) = p.scan.before
                      /\ \A x \in Scope \ Pending : \E t \in touched' : Observed(p.scan.got, x, ThatFile(t)[x])
    BY <1>1, <1>6, <1>7 DEF ScanSeen, Observed
  <2> QED
    BY <1>1, <1>3 DEF ScanSeen
<1>9. FirstSeen'
  <2> SUFFICES ASSUME Scans, NEW first \in p.first
               PROVE  FirstSaw(first)' /\ \E t \in touched' : EndedAt(first, t)' /\ SecondSaw(first, t)'
    BY <1>1 DEF FirstSeen, Scans
  <2>1. FirstSaw(first)
    BY <1>3 DEF FirstSeen
  <2>2. PICK t \in touched : EndedAt(first, t) /\ SecondSaw(first, t)
    BY <1>3 DEF FirstSeen
  <2>3. FirstSaw(first)'
    BY <1>1, <1>6, <1>7, <2>1 DEF FirstSaw, Observed, OneEach
  <2>4. SecondSaw(first, t)'
    BY <1>1, <1>6, <1>7, <2>2 DEF SecondSaw, Observed
  <2>5. References!At \in DOMAIN disk
    BY DEF ReferencesPlaces
  <2>6. ThatManifest(t) = first.bytes \/ disk'[References!At].manifest # first.bytes
    BY <2>1, <2>2, <2>5, StaysAway DEF EndedAt, FirstSaw, ThatManifest
  <2>7. OfDeclaration => t[1] = p.from \/ file' # p.from
    <3>1. OfDeclaration => \E u \in touched : u[1] = p.from
      BY <1>3 DEF DeclarationSeen, Scans
    <3> QED
      BY <1>4, <2>2, <3>1 DEF EndedAt
  <2>8. ASSUME NEW x \in Scope, NEW v \in Nat, Observed(first.files, x, v)
        PROVE  ThatFile(t)[x] = v \/ disk'[References!At].files[x] # v
    <3>1. x \in StorePart
      BY DEF Scope, InRoots
    <3>2. PICK u \in touched : Observed(first.files, x, ThatFile(u)[x])
      BY <2>1 DEF FirstSaw
    <3>3. ThatFile(u)[x] \in Nat
      <4>1. u[2][References!At] \in StoreDirectory
        BY <2>5 DEF ReferencesTyped, DiskTyped
      <4> QED
        BY <3>1, <4>1 DEF ThatFile, StoreDirectory
    <3>4. ThatFile(u)[x] = v
      BY <2>1, <2>8, <3>1, <3>2, <3>3, OneObservation DEF FirstSaw
    <3> QED
      BY <2>2, <2>5, <2>8, <3>1, <3>4, StaysAway DEF EndedAt, ThatFile
  <2>9. EndedAt(first, t)'
    BY <1>1, <1>6, <1>7, <2>2, <2>6, <2>7, <2>8 DEF EndedAt, OfDeclaration, Observed
  <2> QED
    BY <1>1, <2>3, <2>4, <2>9
<1> QED
  BY <1>5, <1>8, <1>9

(* A change from outside adds to the history, so an answer already given   *)
(* was true of the same moment as before.                                  *)
LEMMA ElsewhereSaid ==
  ASSUME ReferencesInv, Elsewhere
  PROVE  ReferencesSaid'
<1> USE DEF ReferencesInv
<1>1. said' = said /\ touched \subseteq touched'
  BY DEF Elsewhere, References!Changes
<1>2. ~edited' => ~edited
  BY DEF Elsewhere, References!Changes, ReferencesTyped
<1>3. References!WasThere'
  <2> SUFFICES ASSUME ~edited', NEW s \in said.stores
               PROVE  \E t \in touched' :
                 /\ said.kind \in {"context", "doctor"} => t[1] = said.from
                 /\ References!WholeAt(t[2][s.at], s.snapshot)
                 /\ \A pair \in said.found : t[2][s.at].files[pair[1]] = pair[2]
    BY <1>1 DEF References!WasThere, References!WholeAt
  <2> QED
    BY <1>1, <1>2 DEF ReferencesSaid, References!WasThere
<1>4. References!ReadsWhatIsBound' /\ References!LatestIsAuthorized'
  BY <1>1 DEF ReferencesSaid, References!ReadsWhatIsBound, References!LatestIsAuthorized
<1> QED
  BY <1>1, <1>3, <1>4 DEF ReferencesSaid

(* A step elsewhere keeps what it does not touch. *)
LEMMA ElsewhereHolds ==
  ASSUME ReferencesInv, Elsewhere, ReferencesMade'
  PROVE  ReferencesInv'
<1> USE DEF ReferencesInv
<1>1. p' = p /\ said' = said /\ DOMAIN disk' = DOMAIN disk
  BY DEF Elsewhere, References!Changes, ReferencesTyped, DiskTyped
<1>2. ReferencesTyped'
  <2>1. touched' = touched \cup {<<file', disk'>>}
    BY DEF Elsewhere, References!Changes
  <2>2. DiskTyped(disk)' /\ \A t \in touched' : DiskTyped(t[2])'
    <3>1. disk' \in [DOMAIN disk' -> StoreDirectory]
      BY <1>1 DEF Elsewhere, DiskTyped
    <3>2. \A t \in touched : t[2] \in [DOMAIN disk' -> StoreDirectory]
      BY <1>1 DEF ReferencesTyped, DiskTyped
    <3>3. \A t \in touched' : t[2] \in [DOMAIN disk' -> StoreDirectory]
      BY <2>1, <3>1, <3>2
    <3> QED
      BY <3>1, <3>3 DEF DiskTyped
  <2>3. edited' \in BOOLEAN
    BY DEF Elsewhere, References!Changes, References!Regains, ReferencesTyped
  <2> QED
    BY <1>1, <2>1, <2>2, <2>3 DEF ReferencesTyped, Elsewhere
<1>3. ReferencesPlaces'
  BY <1>1 DEF ReferencesPlaces, Scans, OneEach, References!At, References!Here
<1>4. ReferencesScan'
  BY <1>1 DEF ReferencesScan, Pending, Scope, OneEach
<1>5. ReferencesReads'
  BY <1>1 DEF ReferencesReads, References!BoundDeltas, References!Here, Keys
<1>6. ReferencesLatest'
  BY <1>1 DEF ReferencesLatest, References!ValidRegistry, References!LocksHold, References!SameVersion
<1> QED
  BY <1>2, <1>3, <1>4, <1>5, <1>6, ElsewhereSeen, ElsewhereSaid

(* The bound on what goes wrong is kept.                                   *)
LEMMA OneMoreTrouble ==
  ASSUME ReferencesTyped, References!Trouble
  PROVE  trouble' \in 0 .. Troubles
<1>1. trouble \in 0 .. Troubles /\ Troubles \in Nat
  BY BoundsAssumption DEF ReferencesTyped
<1> QED
  BY <1>1 DEF References!Trouble

(* People edit the disk while no call, or any call, is running.            *)
LEMMA EditHolds ==
  ASSUME ReferencesInv, References!Edit
  PROVE  ReferencesInv'
<1> USE DEF ReferencesInv
<1>1. work' = work /\ trouble' \in 0 .. Troubles
  BY OneMoreTrouble DEF References!Edit
<1>2. PICK e \in StoreEdits :
        \/ e.at = "" /\ file' = e.to /\ disk' = disk
        \/ e.at \in DOMAIN disk /\ e.part = 0 /\ disk' = [disk EXCEPT ![e.at].manifest = e.to] /\ file' = file
        \/ e.at \in DOMAIN disk /\ e.part # 0 /\ disk' = [disk EXCEPT ![e.at].files[e.part] = e.to] /\ file' = file
  BY DEF References!Edit
<1>3. \A d \in DOMAIN disk : disk[d] \in StoreDirectory
  BY DEF ReferencesTyped, DiskTyped
<1>4. CASE e.at = "" /\ file' = e.to /\ disk' = disk
  <2>1. Elsewhere
    BY <1>1, <1>4, EditAssumption DEF Elsewhere, ReferencesTyped, References!Edit
  <2>2. ReferencesMade'
    BY <1>1, <1>4 DEF ReferencesMade, Alone, Opened, References!Place, References!SameStore, References!Loads,
                      References!Loaded, References!Wanted
  <2> QED
    BY <2>1, <2>2, ElsewhereHolds
<1>5. CASE e.at \in DOMAIN disk /\ file' = file /\ e.at # ""
           /\ \E new \in StoreDirectory : disk' = [disk EXCEPT ![e.at] = new]
  <2>1. DiskTyped(disk') /\ DOMAIN disk' = DOMAIN disk
    BY <1>5 DEF ReferencesTyped, DiskTyped
  <2>2. Elsewhere
    BY <1>1, <1>5, <2>1 DEF Elsewhere, ReferencesTyped, References!Edit
  <2>3. \A d \in DOMAIN disk : d # e.at => disk'[d] = disk[d]
    BY <1>5 DEF ReferencesTyped, DiskTyped
  <2>4. ReferencesMade'
    BY <1>1, <2>1, <2>3 DEF ReferencesMade, Alone, Opened, References!Place, References!SameStore, References!Loads,
                            References!Loaded, References!Wanted
  <2> QED
    BY <2>2, <2>4, ElsewhereHolds
<1>6. CASE e.at \in DOMAIN disk /\ e.part = 0 /\ disk' = [disk EXCEPT ![e.at].manifest = e.to] /\ file' = file
  <2>1. e.at # "" /\ e.to \in -1 .. Len(StoreManifests)
    BY <1>6, EditAssumption DEF ReferencesTyped
  <2>2. [disk[e.at] EXCEPT !.manifest = e.to] \in StoreDirectory
    BY <1>3, <1>6, <2>1 DEF StoreDirectory
  <2> QED
    BY <1>5, <1>6, <2>1, <2>2
<1>7. CASE e.at \in DOMAIN disk /\ e.part # 0 /\ disk' = [disk EXCEPT ![e.at].files[e.part] = e.to] /\ file' = file
  <2>1. e.at # "" /\ e.part \in StorePart /\ e.to \in Nat
    BY <1>7, EditAssumption DEF ReferencesTyped
  <2>2. [disk[e.at] EXCEPT !.files[e.part] = e.to] \in StoreDirectory
    <3>1. disk[e.at].files \in [StorePart -> Nat] /\ disk[e.at] \in StoreDirectory
      BY <1>3, <1>7 DEF StoreDirectory
    <3>2. [disk[e.at].files EXCEPT ![e.part] = e.to] \in [StorePart -> Nat]
      BY <2>1, <3>1
    <3> QED
      BY <3>1, <3>2 DEF StoreDirectory
  <2> QED
    BY <1>5, <1>7, <2>1, <2>2
<1> QED
  BY <1>2, <1>4, <1>6, <1>7

(* The disk changes in the place where a store is created. *)
LEMMA CreateHolds ==
  ASSUME ReferencesInv, NEW c \in DOMAIN StoreCreates, References!Create(c)
  PROVE  ReferencesInv'
<1> USE DEF ReferencesInv
<1> DEFINE at == References!Place(c)
<1>1. work[c] \in WorkPc /\ work \in [DOMAIN StoreCreates -> WorkPc]
  BY DEF ReferencesTyped
<1>2. work[c] # "look" => at \in DOMAIN disk /\ disk[at] \in StoreDirectory
  BY DEF ReferencesMade, ReferencesTyped, DiskTyped
<1>3. ASSUME DiskTyped(disk'), file' = file, References!Changes, work' \in [DOMAIN StoreCreates -> WorkPc],
             trouble' \in 0 .. Troubles
      PROVE  Elsewhere
  BY <1>3 DEF Elsewhere, ReferencesTyped
<1>4. ASSUME UNCHANGED <<disk, file, p, said, touched, edited>>, work' \in [DOMAIN StoreCreates -> WorkPc],
             trouble' \in 0 .. Troubles
      PROVE  Elsewhere
  BY <1>4 DEF Elsewhere, ReferencesTyped, References!Changes, References!Regains, DiskTyped
<1> USE DEF References!Place, Alone, Opened
<1>5. CASE References!Look(c)
  <2>1. UNCHANGED <<disk, file, p, said, touched, edited, trouble>> /\ at \in DOMAIN disk
    BY <1>5 DEF References!Look
  <2>2. PICK pc \in {"root", "exists", "refused"} :
          work' = [work EXCEPT ![c] = pc] /\ (pc = "exists" => References!SameStore(c))
    BY <1>5 DEF References!Look, References!To
  <2>3. work' \in [DOMAIN StoreCreates -> WorkPc] /\ trouble \in 0 .. Troubles
    BY <1>1, <2>2 DEF WorkPc, ReferencesTyped
  <2>4. ReferencesMade'
    BY <1>1, <2>1, <2>2 DEF ReferencesMade, References!SameStore, References!Loads, References!Loaded, References!Wanted
  <2> QED
    BY <1>4, <2>1, <2>3, <2>4, ElsewhereHolds
<1>6. CASE References!Make(c)
  <2>1. /\ UNCHANGED <<file, trouble>> /\ References!Changes
        /\ work[c] \in {"root", "changes", "current", "meta"} /\ at \in DOMAIN disk
        /\ disk' = disk \/ disk' = [disk EXCEPT ![at].made = @ \cup {work[c]}]
    BY <1>2, <1>6 DEF References!Make, References!Making, References!Range
  <2>2. PICK pc \in {"changes", "current", "meta", "open", "refused"} : work' = [work EXCEPT ![c] = pc]
    BY <1>6, <2>1 DEF References!Make, References!MakesNext, References!To
  <2>3. work' \in [DOMAIN StoreCreates -> WorkPc] /\ trouble \in 0 .. Troubles
    BY <1>1, <2>2 DEF WorkPc, ReferencesTyped
  <2>4. /\ DiskTyped(disk') /\ DOMAIN disk' = DOMAIN disk
        /\ \A d \in DOMAIN disk : disk'[d].manifest = disk[d].manifest /\ disk[d].made \subseteq disk'[d].made
    <3>1. disk \in [DOMAIN disk -> StoreDirectory]
      BY DEF ReferencesTyped, DiskTyped
    <3> DEFINE new == [disk[at] EXCEPT !.made = @ \cup {work[c]}]
    <3>2. new \in StoreDirectory /\ new.manifest = disk[at].manifest /\ disk[at].made \subseteq new.made
      BY <1>2, <2>1 DEF StoreDirectory
    <3>3. disk' = disk \/ disk' = [disk EXCEPT ![at] = new]
      BY <2>1
    <3> HIDE DEF new
    <3> QED
      BY <2>1, <3>1, <3>2, <3>3 DEF DiskTyped
  <2>5. \A d : References!SameStore(d) /\ References!Place(d) \in DOMAIN disk => References!SameStore(d)'
    BY <2>4 DEF References!SameStore, References!Loads, References!Loaded, References!Wanted
  <2>6. ReferencesMade'
    BY <1>1, <2>1, <2>2, <2>4, <2>5 DEF ReferencesMade
  <2> QED
    BY <1>3, <2>1, <2>3, <2>4, <2>6, ElsewhereHolds
<1>7. CASE References!Write(c)
  <2>1. UNCHANGED <<file, trouble>> /\ References!Changes /\ work[c] \in {"open", "fill"} /\ at \in DOMAIN disk
    BY <1>2, <1>7 DEF References!Write
  <2>2. PICK pc \in {"refused", "fill", "check"} :
          /\ work' = [work EXCEPT ![c] = pc]
          /\ pc = "refused" => disk' = disk
          /\ pc = "fill" => /\ work[c] = "open" /\ disk[at].manifest = 0
                            /\ disk' = [disk EXCEPT ![at].manifest = -1]
          /\ pc = "check" => /\ work[c] = "fill"
                             /\ disk' = [disk EXCEPT ![at].manifest = StoreCreates[c].manifest]
    BY <1>7 DEF References!Write, References!To
  <2>3. work' \in [DOMAIN StoreCreates -> WorkPc] /\ trouble \in 0 .. Troubles
    BY <1>1, <2>2 DEF WorkPc, ReferencesTyped
  <2>4. /\ DiskTyped(disk') /\ DOMAIN disk' = DOMAIN disk
        /\ \A d \in DOMAIN disk : d # at => disk'[d] = disk[d]
        /\ pc = "fill" => disk'[at].manifest = -1
        /\ pc = "check" => disk'[at].manifest = StoreCreates[c].manifest
    <3>1. disk \in [DOMAIN disk -> StoreDirectory]
      BY DEF ReferencesTyped, DiskTyped
    <3>2. StoreCreates[c].manifest \in 1 .. Len(StoreManifests) /\ Len(StoreManifests) \in Nat
      BY ManifestAssumption
    <3> DEFINE m == IF pc = "fill" THEN -1 ELSE StoreCreates[c].manifest
               new == [disk[at] EXCEPT !.manifest = m]
    <3>3. m \in -1 .. Len(StoreManifests)
      BY <3>2
    <3>4. new \in StoreDirectory /\ new.manifest = m
      BY <1>2, <2>1, <3>3 DEF StoreDirectory
    <3>5. disk' = IF pc = "refused" THEN disk ELSE [disk EXCEPT ![at] = new]
      BY <2>2
    <3> HIDE DEF new
    <3>6. DiskTyped(disk') /\ DOMAIN disk' = DOMAIN disk
      BY <2>1, <3>1, <3>4, <3>5 DEF DiskTyped
    <3> QED
      BY <2>1, <3>1, <3>4, <3>5, <3>6
  <2>5. \A d \in DOMAIN StoreCreates : StoreCreates[d].manifest > 0
    BY ManifestAssumption
  <2>6. ASSUME NEW a \in DOMAIN StoreCreates
        PROVE  /\ work'[a] # "look" => References!Place(a) \in DOMAIN disk'
               /\ Alone(a) =>
                    /\ work'[a] = "fill" => disk'[References!Place(a)].manifest = -1
                    /\ work'[a] \in {"check", "created"} =>
                         disk'[References!Place(a)].manifest = StoreCreates[a].manifest
                    /\ work'[a] \in {"exists", "created"} => References!SameStore(a)'
                    /\ \A d \in DOMAIN StoreCreates :
                         References!Place(d) = References!Place(a) /\ Opened(a)' /\ Opened(d)' => a = d
    <3>1. CASE References!Place(a) # at
      <4>1. References!SameStore(a) /\ References!Place(a) \in DOMAIN disk => References!SameStore(a)'
        BY <2>4, <3>1 DEF References!SameStore, References!Loads, References!Loaded, References!Wanted
      <4> QED
        BY <1>1, <2>2, <2>4, <3>1, <4>1 DEF ReferencesMade
    <3>2. CASE References!Place(a) = at /\ pc = "refused"
      <4>1. References!SameStore(a) => References!SameStore(a)'
        BY <2>2, <3>2 DEF References!SameStore, References!Loads, References!Loaded, References!Wanted
      <4>2. disk' = disk /\ \A d \in DOMAIN StoreCreates : work'[d] = IF d = c THEN "refused" ELSE work[d]
        BY <1>1, <2>2, <3>2
      <4> QED
        BY <2>1, <3>2, <4>1, <4>2 DEF ReferencesMade
    <3>3. CASE References!Place(a) = at /\ pc # "refused"
      <4>1. Alone(c) => \A d \in DOMAIN StoreCreates :
              References!Place(d) = at /\ d # c => ~Opened(d) /\ work[d] # "exists"
        <5> SUFFICES ASSUME Alone(c), NEW d \in DOMAIN StoreCreates, References!Place(d) = at, d # c
                     PROVE  ~Opened(d) /\ work[d] # "exists"
          OBVIOUS
        <5>1. disk[at].manifest \in {0, -1} /\ (Opened(c) \/ disk[at].manifest = 0)
          BY <2>2, <3>3 DEF ReferencesMade
        <5>2. work[d] # "exists"
          BY <5>1, <2>5 DEF ReferencesMade, References!SameStore, References!Loads
        <5>3. ~Opened(d)
          BY <5>1, <2>5 DEF ReferencesMade
        <5> QED
          BY <5>2, <5>3
      <4>2. Alone(a) <=> Alone(c)
        BY <3>3
      <4>3. CASE a = c
        BY <1>1, <2>1, <2>2, <2>4, <3>3, <4>1, <4>3
      <4>4. CASE a # c
        BY <1>1, <2>1, <2>2, <2>4, <3>3, <4>1, <4>2, <4>4 DEF ReferencesMade
      <4> QED
        BY <4>3, <4>4
    <3> QED
      BY <3>1, <3>2, <3>3
  <2>7. ReferencesMade'
    BY <2>6 DEF ReferencesMade
  <2> QED
    BY <1>3, <2>1, <2>3, <2>4, <2>7, ElsewhereHolds
<1>8. CASE References!CheckMade(c)
  <2>1. UNCHANGED <<disk, file, p, said, touched, edited, trouble>> /\ work[c] = "check"
    BY <1>8 DEF References!CheckMade
  <2>2. PICK pc \in {"created", "refused"} :
          work' = [work EXCEPT ![c] = pc] /\ (pc = "created" => References!SameStore(c))
    BY <1>8 DEF References!CheckMade, References!To, References!SameStore
  <2>3. work' \in [DOMAIN StoreCreates -> WorkPc] /\ trouble \in 0 .. Troubles
    BY <1>1, <2>2 DEF WorkPc, ReferencesTyped
  <2>4. ReferencesMade'
    BY <1>1, <2>1, <2>2 DEF ReferencesMade, References!SameStore, References!Loads, References!Loaded, References!Wanted
  <2> QED
    BY <1>4, <2>1, <2>3, <2>4, ElsewhereHolds
<1>9. CASE References!Die(c)
  <2>1. UNCHANGED <<disk, file, p, said, touched, edited>> /\ work[c] \notin {"look", "exists", "created"}
    BY <1>9 DEF References!Die
  <2>2. work' = [work EXCEPT ![c] = "refused"]
    BY <1>9 DEF References!Die, References!To
  <2>3. work' \in [DOMAIN StoreCreates -> WorkPc] /\ trouble' \in 0 .. Troubles
    BY <1>1, <1>9, <2>2, OneMoreTrouble DEF WorkPc, References!Die
  <2>4. ReferencesMade'
    BY <1>1, <2>1, <2>2 DEF ReferencesMade, References!SameStore, References!Loads, References!Loaded, References!Wanted
  <2> QED
    BY <1>4, <2>1, <2>3, <2>4, ElsewhereHolds
<1> QED
  BY <1>5, <1>6, <1>7, <1>8, <1>9 DEF References!Create

-----------------------------------------------------------------------------
(* The steps of the call, one after another. *)
LEMMA ReferencesStart ==
  ASSUME References!Init
  PROVE  ReferencesInv
<1> USE DEF References!Init
<1>1. p = References!Idle /\ said = References!Nothing /\ work = [c \in DOMAIN StoreCreates |-> "look"]
  BY DEF References!Creator
<1>2. CallHolds
  BY <1>1, IdleHolds
<1>3. ReferencesTyped
  <2>1. DiskTyped(disk) /\ "" \notin DOMAIN disk
    BY DiskAssumption DEF DiskTyped
  <2>2. touched = {<<file, disk>>} /\ \A t \in touched : DiskTyped(t[2])
    <3>1. touched = {<<file, disk>>} /\ \A t \in touched : t[2] = disk
      OBVIOUS
    <3> QED
      BY <2>1, <3>1
  <2>3. trouble = 0 /\ 0 \in 0 .. Troubles
    BY BoundsAssumption
  <2>4. file \in -1 .. Len(StoreDeclarations) /\ edited \in BOOLEAN
    <3>1. Len(StoreDeclarations) \in Nat /\ file \in 1 .. Len(StoreDeclarations) /\ edited = FALSE
      BY StoreFacts
    <3>2. \A n \in Nat : \A m \in 1 .. n : m \in -1 .. n
      OBVIOUS
    <3>3. edited \in BOOLEAN
      BY <3>1
    <3> QED
      BY <3>1, <3>2, <3>3
  <2> QED
    BY <1>1, <1>2, <2>1, <2>2, <2>3, <2>4 DEF ReferencesTyped, CallHolds, WorkPc
<1>4. ReferencesMade
  BY <1>1 DEF ReferencesMade, Opened
<1>5. ReferencesSaid
  BY <1>1 DEF ReferencesSaid, References!Nothing, References!WasThere, References!ReadsWhatIsBound,
              References!LatestIsAuthorized
<1> QED
  BY <1>2, <1>3, <1>4, <1>5 DEF ReferencesInv, CallHolds

(* A call begins, or one that holds a reference comes back to it: from     *)
(* here on the history is kept.                                            *)
Renews ==
  /\ Reading /\ said' = References!Nothing /\ touched' = {<<file, disk>>} /\ edited' = FALSE

(* A call that begins starts its history afresh: nothing is said, nothing  *)
(* seen, and the disk as it is now is all there has been.                  *)
LEMMA RenewsHolds ==
  ASSUME ReferencesInv, Renews, CallHolds'
  PROVE  ReferencesInv'
<1> USE DEF ReferencesInv, Renews, Reading
<1>1. ReferencesTyped'
  <2>1. DiskTyped(disk)' /\ \A t \in touched' : DiskTyped(t[2])'
    BY DEF ReferencesTyped, DiskTyped
  <2> QED
    BY <2>1 DEF ReferencesTyped, CallHolds
<1>2. ReferencesMade'
  BY DEF ReferencesMade, Alone, Opened, References!Place, References!SameStore, References!Loads,
         References!Loaded, References!Wanted
<1>3. ReferencesSaid'
  BY DEF ReferencesSaid, References!Nothing, References!WasThere, References!ReadsWhatIsBound,
         References!LatestIsAuthorized
<1> QED
  BY <1>1, <1>2, <1>3 DEF CallHolds

(* A call to resolve, open or revalidate references begins.                *)
LEMMA BeginHolds ==
  ASSUME ReferencesInv, References!Begin
  PROVE  ReferencesInv'
<1>1. Renews
  BY DEF References!Begin, References!Looks, Renews, Reading, References!Now
<1>2. PICK call \in DOMAIN StoreCalls :
        p' = [References!Idle EXCEPT !.pc = IF StoreCalls[call].registry = <<>> THEN "load" ELSE "sources",
                                     !.call = call, !.i = 1]
  BY DEF References!Begin
<1>3. /\ p'.pc = IF StoreCalls[call].registry = <<>> THEN "load" ELSE "sources"
      /\ p'.call = call /\ p'.i = 1 /\ p'.then = "bind" /\ p'.resolved = <<>> /\ p'.registry = {}
  BY <1>2 DEF References!Idle
<1>4. p' \in StoreCalled
  <2>1. call \in 0 .. Len(StoreCalls) /\ 1 \in Nat
    BY StoreFacts
  <2>2. {"load", "sources"} \subseteq ReferencesPc
    BY DEF ReferencesPc
  <2> QED
    BY <1>2, <2>1, <2>2, IdleTyped DEF StoreCalled
<1>5. p'.pc = "sources" => p'.i \in DOMAIN StoreCalls[p'.call].registry
  BY <1>3, StoreFacts
<1>6. ReferencesPlaces'
  BY <1>3, <1>5 DEF ReferencesPlaces, Scans
<1>7. ReferencesScan' /\ ReferencesSeen' /\ ReferencesReads'
  BY <1>3 DEF ReferencesScan, ReferencesSeen, DeclarationSeen, ScanSeen, FirstSeen, Scans, ReferencesReads
<1>8. ReferencesLatest'
  BY <1>3, FS_EmptySet DEF ReferencesLatest
<1> QED
  BY <1>1, <1>4, <1>6, <1>7, <1>8, RenewsHolds DEF CallHolds

(* The holder of a binding comes back with it to verify or to read.        *)
LEMMA AgainHolds ==
  ASSUME ReferencesInv, References!Again
  PROVE  ReferencesInv'
<1>1. Renews /\ p.pc = "held"
  BY DEF References!Again, References!Looks, Renews, Reading, References!Now
<1>2. CASE p' = References!Idle
  BY <1>1, <1>2, IdleHolds, RenewsHolds
<1>3. CASE p' = [p EXCEPT !.pc = "verify", !.then = "open"]
  <2>1. p \in StoreCalled /\ ReferencesPlaces /\ DOMAIN disk' = DOMAIN disk
    BY <1>1 DEF ReferencesInv, ReferencesTyped, Renews, Reading
  <2>2. /\ p' \in StoreCalled /\ p'.pc = "verify" /\ p'.then = "open" /\ p'.resolved = p.resolved
        /\ p'.i = p.i /\ p'.call = p.call
    BY <1>3, <2>1 DEF StoreCalled, ReferencesPc
  <2>3. ReferencesPlaces'
    BY <1>1, <2>1, <2>2 DEF ReferencesPlaces, Scans, OneEach
  <2>4. ReferencesScan' /\ ReferencesSeen' /\ ReferencesReads' /\ ReferencesLatest'
    BY <2>2 DEF ReferencesScan, ReferencesSeen, DeclarationSeen, OfDeclaration, ScanSeen, FirstSeen, Scans,
                ReferencesReads, ReferencesLatest
  <2> QED
    BY <1>1, <2>2, <2>3, <2>4, RenewsHolds DEF CallHolds
<1> QED
  BY <1>2, <1>3 DEF References!Again

(* The registry is built of a layer after another; then its entries allow  *)
(* one newest version.                                                     *)
LEMMA LoadedIsManifest ==
  ASSUME ReferencesTyped, NEW d, References!Loads(d)
  PROVE  d \in DOMAIN disk /\ References!Loaded(d) \in StoreManifest /\ disk[d].manifest > 0
<1>1. d \in DOMAIN disk /\ disk[d] \in StoreDirectory /\ disk[d].manifest > 0
  BY DEF References!Loads, ReferencesTyped, DiskTyped
<1>2. disk[d].manifest \in 1 .. Len(StoreManifests)
  BY <1>1, StoreFacts DEF StoreDirectory
<1> QED
  BY <1>1, <1>2, StoreFacts DEF References!Loaded

(* The sources of the project, or of the next layer, are read: the         *)
(* project's declaration or the next pack to look into.                    *)
LEMMA LoadSourceHolds ==
  ASSUME ReferencesInv, References!LoadSource
  PROVE  ReferencesInv'
<1>1. References!Looks /\ p.pc = "sources" /\ p \in StoreCalled /\ ReferencesTyped
  BY DEF References!LoadSource, ReferencesInv, ReferencesTyped
<1>2. CASE References!Refuse
  BY <1>1, <1>2, Refuses
<1>3. CASE ~References!Refuse
  <2> DEFINE registry == StoreCalls[p.call].registry
             source == registry[p.i]
             entry == [layer |-> source.layer, locked |-> source.locked, source |-> p.i,
                       manifest |-> References!Loaded(source.at)]
             entries == p.registry \cup {entry}
  <2>1. /\ References!Loads(source.at)
        /\ \/ p.i < Len(registry) /\ References!Go([p EXCEPT !.registry = entries, !.i = @ + 1])
           \/ \E pc \in {"latest", "load"} :
                References!ValidRegistry(entries) /\ References!Go([p EXCEPT !.registry = entries, !.pc = pc])
    BY <1>3 DEF References!LoadSource, References!Asked
  <2>2. p.call \in DOMAIN StoreCalls /\ p.i \in DOMAIN registry /\ registry \in Seq(StoreSource)
    BY <1>1, StoreFacts DEF ReferencesInv, ReferencesPlaces
  <2>3. source \in StoreSource /\ p.i \in Nat
    BY <1>1, <2>2 DEF StoreCalled
  <2>4. entry \in StoreEntry /\ entry.source = p.i
    BY <1>1, <2>1, <2>3, LoadedIsManifest DEF StoreEntry, StoreSource
  <2> HIDE DEF entry
  <2>5. /\ entries \in SUBSET StoreEntry /\ IsFiniteSet(entries)
        /\ \A a, b \in entries : a.source = b.source => a = b
        /\ \A e \in entries : e.source <= p.i
    <3>1. IsFiniteSet(p.registry) /\ (\A a, b \in p.registry : a.source = b.source => a = b)
          /\ \A e \in p.registry : e.source < p.i
      BY <1>1 DEF ReferencesInv, ReferencesLatest
    <3>2. p.registry \in SUBSET StoreEntry
      BY <1>1 DEF StoreCalled
    <3>3. \A e \in p.registry : e.source \in Nat
      BY <3>2 DEF StoreEntry
    <3> QED
      BY <2>3, <2>4, <3>1, <3>2, <3>3, FS_AddElement
  <2>6. /\ p'.pc \in {"sources", "latest", "load"} /\ p'.registry = entries /\ p' \in StoreCalled
        /\ p'.pc = "sources" => p'.i = p.i + 1 /\ p.i < Len(registry)
        /\ p'.pc = "latest" => References!ValidRegistry(entries)
        /\ p'.call = p.call /\ p'.then = p.then /\ p'.resolved = p.resolved
    <3>1. {"sources", "latest", "load"} \subseteq ReferencesPc /\ p.i + 1 \in Nat
      BY <2>3 DEF ReferencesPc
    <3> HIDE DEF entries, registry
    <3>2. CASE p.i < Len(registry) /\ p' = [p EXCEPT !.registry = entries, !.i = p.i + 1]
      BY <1>1, <2>5, <3>1, <3>2 DEF StoreCalled
    <3>3. ASSUME NEW pc \in {"latest", "load"}, References!ValidRegistry(entries),
                 p' = [p EXCEPT !.registry = entries, !.pc = pc]
          PROVE  /\ p'.pc = pc /\ p'.registry = entries /\ p' \in StoreCalled
                 /\ p'.call = p.call /\ p'.then = p.then /\ p'.resolved = p.resolved
      BY <1>1, <2>5, <3>1, <3>3 DEF StoreCalled
    <3> QED
      BY <1>1, <2>1, <3>2, <3>3 DEF References!Go
  <2> HIDE DEF entries
  <2>7. ReferencesPlaces'
    BY <1>1, <2>2, <2>3, <2>6 DEF ReferencesInv, ReferencesPlaces, Scans
  <2>8. ReferencesScan' /\ ReferencesSeen' /\ ReferencesReads'
    BY <1>1, <2>6 DEF ReferencesInv, ReferencesPlaces, ReferencesScan, ReferencesSeen, DeclarationSeen, ScanSeen,
                      FirstSeen, Scans, ReferencesReads
  <2>9. ReferencesLatest'
    <3>1. p'.pc = "sources" => \A e \in entries : e.source < p'.i
      <4>1. \A e \in entries : e.source \in Nat
        BY <2>5 DEF StoreEntry
      <4> QED
        BY <2>3, <2>5, <2>6, <4>1
    <3> QED
      BY <2>5, <2>6, <3>1 DEF ReferencesLatest, References!ValidRegistry, References!LocksHold, References!SameVersion
  <2>10. Silent
    BY <1>1, <2>1 DEF References!Go, References!Looks, Silent, Reading
  <2> QED
    BY <2>6, <2>7, <2>8, <2>9, <2>10, SilentStep DEF CallHolds
<1> QED
  BY <1>2, <1>3

(* A call that answers. *)
LEMMA AnswerHolds ==
  ASSUME ReferencesInv, Reading, UNCHANGED <<touched, edited>>, CallHolds', ReferencesSaid'
  PROVE  ReferencesInv'
<1> USE DEF ReferencesInv, Reading
<1>1. ReferencesTyped'
  BY DEF ReferencesTyped, DiskTyped, CallHolds
<1>2. ReferencesMade'
  BY DEF ReferencesMade, Alone, Opened, References!Place, References!SameStore, References!Loads,
         References!Loaded, References!Wanted
<1> QED
  BY <1>1, <1>2 DEF CallHolds

(* One version among the newest: whatever is as new is the same content.   *)
LEMMA NewestIsOne ==
  ASSUME NEW entries \in SUBSET StoreEntry, IsFiniteSet(entries), References!ValidRegistry(entries), NEW id,
         NEW chosen \in References!Newest(entries, id), NEW b \in entries, b.manifest.id = chosen.manifest.id
  PROVE  /\ chosen \in entries
         /\ b.locked => chosen.layer <= b.layer
         /\ b.manifest.precedence >= chosen.manifest.precedence => b.manifest = chosen.manifest
<1> DEFINE mine == {e \in entries : e.manifest.id = id}
           best == {e \in mine : \A other \in mine : other.manifest.precedence <= e.manifest.precedence}
           versions == {e.manifest.version : e \in best}
<1>1. Cardinality(versions) = 1
      /\ chosen \in UNION {References!ExactEntry(entries, id, e.manifest.version) : e \in best}
  <2>1. References!Newest(entries, id) =
          IF References!Cardinality(versions) = 1
          THEN UNION {References!ExactEntry(entries, id, e.manifest.version) : e \in best} ELSE {}
    BY DEF References!Newest
  <2> HIDE DEF versions, best, mine
  <2>2. References!Cardinality(versions) = Cardinality(versions)
    BY Zenon DEF References!Cardinality, Cardinality, References!IsFiniteSet, IsFiniteSet
  <2> QED
    BY <2>1, <2>2
<1>2. PICK top \in best : chosen \in References!ExactEntry(entries, id, top.manifest.version)
  BY <1>1
<1>3. /\ top \in entries /\ top.manifest.id = id
      /\ chosen \in entries /\ chosen.manifest.id = id /\ chosen.manifest.version = top.manifest.version
  BY <1>2 DEF References!ExactEntry
<1>4. chosen.manifest = top.manifest
  BY <1>3 DEF References!ValidRegistry, References!SameVersion
<1>5. \A a \in entries : a.manifest.precedence \in Int /\ a.layer \in Nat
  BY StoreFacts DEF StoreEntry
<1>6. b.locked => chosen.layer <= b.layer
  BY <1>3, <1>5 DEF References!ValidRegistry, References!LocksHold
<1>7. ASSUME b.manifest.precedence >= chosen.manifest.precedence
      PROVE  b.manifest = chosen.manifest
  <2>1. b \in best
    BY <1>2, <1>3, <1>4, <1>5, <1>7
  <2>2. IsFiniteSet(versions)
    <3>1. IsFiniteSet(best)
      BY FS_Subset
    <3>2. [a \in best |-> a.manifest.version] \in Surjection(best, versions)
      BY DEF Surjection
    <3> QED
      BY <3>1, <3>2, FS_Surjection
  <2>3. PICK v : versions = {v}
    BY <1>1, <2>2, FS_Singleton
  <2>4. b.manifest.version = top.manifest.version
    BY <2>1, <2>3
  <2> QED
    BY <1>3, <2>4 DEF References!ValidRegistry, References!SameVersion
<1> QED
  BY <1>3, <1>6, <1>7

(* A requirement for the latest version is resolved to the one declared.   *)
LEMMA LatestHolds ==
  ASSUME ReferencesInv, References!Latest
  PROVE  ReferencesInv'
<1>1. References!Looks /\ p.pc = "latest" /\ p \in StoreCalled
  BY DEF References!Latest, ReferencesInv, ReferencesTyped
<1>2. CASE References!Refuse
  BY <1>1, <1>2, Refuses
<1>3. CASE ~References!Refuse
  <2> DEFINE id == StoreCalls[p.call].id
             newest == References!Newest(p.registry, id)
  <2>1. References!Answers("latest", {}, {<<e.source, p.registry>> : e \in newest}, References!Idle)
    BY <1>3 DEF References!Latest, References!Asked
  <2>2. /\ IsFiniteSet(p.registry) /\ \A a, b \in p.registry : a.source = b.source => a = b
        /\ References!ValidRegistry(p.registry) /\ p.registry \in SUBSET StoreEntry
    BY <1>1 DEF ReferencesInv, ReferencesLatest, StoreCalled
  <2>3. /\ p' = References!Idle /\ UNCHANGED <<touched, edited>> /\ said'.kind = "latest" /\ said'.stores = {}
        /\ said'.found = {<<e.source, p.registry>> : e \in newest}
    BY <2>1 DEF References!Answers
  <2>4. CallHolds'
    BY <2>3, IdleHolds
  <2>5. References!LatestIsAuthorized'
    <3> SUFFICES ASSUME NEW answer \in said'.found
                 PROVE  LET chosen == CHOOSE e \in answer[2] : e.source = answer[1]
                            others == {e \in answer[2] : e.manifest.id = chosen.manifest.id}
                        IN  \A e \in others :
                              /\ e.locked => chosen.layer <= e.layer
                              /\ e.manifest.precedence >= chosen.manifest.precedence => e.manifest = chosen.manifest
      BY <2>3 DEF References!LatestIsAuthorized
    <3>1. PICK c \in newest : answer = <<c.source, p.registry>>
      BY <2>3
    <3>2. answer[2] = p.registry /\ answer[1] = c.source
      BY <3>1
    <3>3. \A e \in p.registry : e.manifest.id = c.manifest.id =>
            /\ c \in p.registry
            /\ e.locked => c.layer <= e.layer
            /\ e.manifest.precedence >= c.manifest.precedence => e.manifest = c.manifest
      BY <2>2, NewestIsOne
    <3>4. c \in p.registry
      BY DEF References!Newest, References!ExactEntry
    <3>5. (CHOOSE e \in p.registry : e.source = c.source) = c
      BY <2>2, <3>4
    <3> QED
      BY <3>2, <3>3, <3>5
  <2>6. References!WasThere' /\ References!ReadsWhatIsBound' /\ said'.stores \subseteq StoreResolved
    BY <2>3 DEF References!WasThere, References!ReadsWhatIsBound
  <2>7. Reading
    BY <1>1 DEF References!Looks, Reading
  <2> QED
    BY <2>3, <2>4, <2>5, <2>6, <2>7, AnswerHolds DEF ReferencesSaid
<1> QED
  BY <1>2, <1>3

(* The declaration that a reference names is loaded and compared with the  *)
(* reference.                                                              *)
LEMMA LoadDeclarationHolds ==
  ASSUME ReferencesInv, References!LoadDeclaration
  PROVE  ReferencesInv'
<1>1. References!Looks /\ p.pc = "load" /\ p \in StoreCalled
  BY DEF References!LoadDeclaration, ReferencesInv, ReferencesTyped
<1>2. CASE References!Refuse
  BY <1>1, <1>2, Refuses
<1>3. CASE ~References!Refuse
  <2>1. References!Go([p EXCEPT !.pc = "manifest", !.from = file, !.refs = StoreDeclarations[file], !.i = 1])
        /\ ~(file < 1)
    BY <1>3 DEF References!LoadDeclaration
  <2>2. file \in 1 .. Len(StoreDeclarations) /\ file \in 0 .. Len(StoreDeclarations)
    <3>1. file \in -1 .. Len(StoreDeclarations) /\ Len(StoreDeclarations) \in Nat
      BY StoreFacts DEF ReferencesInv, ReferencesTyped
    <3> QED
      BY <2>1, <3>1
  <2>3. StoreDeclarations[file] \in Seq(StoreReference) /\ 1 \in DOMAIN StoreDeclarations[file]
    BY <2>2, StoreFacts
  <2>4. /\ p' \in StoreCalled /\ p'.pc = "manifest" /\ p'.from = file /\ p'.refs = StoreDeclarations[file]
        /\ p'.i = 1 /\ p'.call = p.call /\ p'.then = p.then /\ p'.resolved = p.resolved
    BY <1>1, <2>1, <2>2, <2>3 DEF StoreCalled, ReferencesPc, References!Go
  <2>5. Silent
    BY <1>1, <2>1 DEF References!Go, References!Looks, Silent, Reading
  <2>6. ReferencesPlaces'
    BY <1>1, <2>3, <2>4 DEF ReferencesInv, ReferencesPlaces, Scans
  <2>7. ReferencesSeen'
    <3>1. \E t \in touched' : t[1] = p'.from
      <4>1. <<file, disk>> \in touched' /\ <<file, disk>>[1] = file
        BY <2>5 DEF Silent, ReferencesInv, ReferencesTyped
      <4> QED
        BY <2>4, <4>1
    <3> QED
      BY <1>1, <2>4, <3>1 DEF ReferencesInv, ReferencesPlaces, ReferencesSeen, DeclarationSeen, ScanSeen, FirstSeen,
                              Scans
  <2>8. ReferencesScan' /\ ReferencesReads' /\ ReferencesLatest'
    BY <1>1, <2>4 DEF ReferencesInv, ReferencesPlaces, ReferencesScan, ReferencesReads, ReferencesLatest
  <2> QED
    BY <2>4, <2>5, <2>6, <2>7, <2>8, SilentStep DEF CallHolds
<1> QED
  BY <1>2, <1>3

(* What was seen of the declaration and of the references that are         *)
(* resolved stays while they stay.                                         *)
LEMMA DeclarationStays ==
  ASSUME p'.from = p.from, p'.then = p.then, p'.resolved = p.resolved, UNCHANGED <<file, touched>>,
         p.pc \notin {"idle", "sources", "latest", "load"}, DeclarationSeen
  PROVE  DeclarationSeen'
<1>1. OfDeclaration' => \E t \in touched' : t[1] = p'.from
  BY DEF DeclarationSeen, OfDeclaration
<1>2. p'.then = "bind" => \A n \in DOMAIN p'.resolved : \E t \in touched' :
        /\ t[1] = p'.from \/ file' # p'.from
        /\ References!WholeAt(t[2][p'.resolved[n].at], p'.resolved[n].snapshot)
  BY DEF DeclarationSeen
<1>3. p'.then = "doctor" => \A n \in DOMAIN p'.resolved : \E t \in touched' :
        t[1] = p'.from /\ References!WholeAt(t[2][p'.resolved[n].at], p'.resolved[n].snapshot)
  BY DEF DeclarationSeen
<1> QED
  BY <1>1, <1>2, <1>3 DEF DeclarationSeen, References!WholeAt

(* An inspection begins for the store that is at hand. *)
LEMMA InspectionHolds ==
  ASSUME ReferencesInv, Silent, NEW manifest \in StoreManifest, p.pc \in {"manifest", "verify"},
         p' = [p EXCEPT !.pc = "before", !.manifest = manifest, !.first = {}],
         References!At \in DOMAIN disk, p.then # "bind" => manifest = p.resolved[p.i].manifest
  PROVE  ReferencesInv'
<1>1. p \in StoreCalled /\ ReferencesPlaces /\ ReferencesSeen /\ ReferencesReads /\ UNCHANGED <<disk, file, touched, edited>>
  BY DEF ReferencesInv, ReferencesTyped, Silent, Reading
<1>2. /\ p' \in StoreCalled /\ p'.pc = "before" /\ p'.manifest = manifest /\ p'.first = {} /\ p'.from = p.from
      /\ p'.refs = p.refs /\ p'.i = p.i /\ p'.call = p.call /\ p'.then = p.then /\ p'.resolved = p.resolved
      /\ p'.found = p.found
  BY <1>1 DEF StoreCalled, ReferencesPc
<1>3. References!At' = References!At
  BY <1>2 DEF References!At, References!Here
<1>4. ReferencesPlaces'
  BY <1>1, <1>2, <1>3 DEF ReferencesPlaces, Scans, OneEach
<1>5. ReferencesSeen'
  <2>1. DeclarationSeen => DeclarationSeen'
    BY <1>1, <1>2, DeclarationStays
  <2>2. ScanSeen' /\ FirstSeen'
    BY <1>2 DEF ScanSeen, FirstSeen
  <2> QED
    BY <1>1, <2>1, <2>2 DEF ReferencesSeen
<1>6. ReferencesScan' /\ ReferencesReads' /\ ReferencesLatest'
  BY <1>1, <1>2 DEF ReferencesScan, ReferencesReads, ReferencesLatest, Keys
<1> QED
  BY <1>2, <1>4, <1>5, <1>6, SilentStep DEF CallHolds

(* The manifest a new binding starts from is loaded.                       *)
LEMMA LoadManifestHolds ==
  ASSUME ReferencesInv, References!LoadManifest
  PROVE  ReferencesInv'
<1>1. References!Looks /\ p.pc = "manifest" /\ p.then = "bind" /\ ReferencesTyped
  BY DEF References!LoadManifest, ReferencesInv, ReferencesPlaces
<1>2. CASE References!Refuse
  BY <1>1, <1>2, Refuses
<1>3. CASE ~References!Refuse
  <2> DEFINE at == p.refs[p.i].at
  <2>1. References!Loads(at)
        /\ References!Go([p EXCEPT !.pc = "before", !.manifest = References!Loaded(at), !.first = {}])
    BY <1>3 DEF References!LoadManifest
  <2>2. at \in DOMAIN disk /\ References!Loaded(at) \in StoreManifest /\ References!At = at
    BY <1>1, <2>1, LoadedIsManifest DEF References!At
  <2>3. Silent
    BY <1>1, <2>1 DEF References!Go, References!Looks, Silent, Reading
  <2> QED
    BY <1>1, <2>1, <2>2, <2>3, InspectionHolds DEF References!Go
<1> QED
  BY <1>2, <1>3

(* The manifest is loaded again for a binding that is to be verified, and  *)
(* compared with the one bound.                                            *)
LEMMA ReverifyHolds ==
  ASSUME ReferencesInv, References!Reverify
  PROVE  ReferencesInv'
<1>1. References!Looks /\ p.pc = "verify" /\ p.then # "bind" /\ ReferencesTyped
  BY DEF References!Reverify, ReferencesInv, ReferencesPlaces
<1>2. CASE References!Refuse
  BY <1>1, <1>2, Refuses
<1>3. CASE ~References!Refuse
  <2> DEFINE here == p.resolved[p.i]
  <2>1. References!Loads(here.at) /\ References!Loaded(here.at) = here.manifest
        /\ References!Go([p EXCEPT !.pc = "before", !.manifest = here.manifest, !.first = {}])
    BY <1>3 DEF References!Reverify, References!Here
  <2>2. here.at \in DOMAIN disk /\ here.manifest \in StoreManifest /\ References!At = here.at
    BY <1>1, <2>1, LoadedIsManifest DEF References!At, References!Here
  <2>3. Silent
    BY <1>1, <2>1 DEF References!Go, References!Looks, Silent, Reading
  <2> QED
    BY <1>1, <2>1, <2>2, <2>3, InspectionHolds DEF References!Go
<1> QED
  BY <1>2, <1>3

(* Within an inspection. *)
Inspects ==
  /\ Silent /\ p \in StoreCalled /\ p' \in StoreCalled /\ p.pc \in {"before", "walk"}
  /\ p'.pc \in {"walk", "reload"} /\ p'.call = p.call /\ p'.refs = p.refs /\ p'.i = p.i /\ p'.from = p.from
  /\ p'.then = p.then /\ p'.resolved = p.resolved /\ p'.manifest = p.manifest /\ p'.first = p.first
  /\ p'.found = p.found

(* One more file is seen when the disk has what the inspection says of it. *)
LEMMA InspectsHolds ==
  ASSUME ReferencesInv, Inspects, ReferencesScan',
         p.pc = "before" => p'.scan.before = disk[References!At].manifest /\ Pending' = Scope,
         p.pc = "walk" => p'.scan.before = p.scan.before,
         NEW seen \in SUBSET Scope, Scope \ Pending' \subseteq (Scope \ Pending) \cup seen,
         p.pc = "walk" => \A x \in Scope \ (Pending \cup seen) : \A v \in Nat :
           Observed(p'.scan.got, x, v) <=> Observed(p.scan.got, x, v),
         \A x \in seen : \A v \in Nat :
           Observed(p'.scan.got, x, v) <=> v = disk[References!At].files[x]
  PROVE  ReferencesInv'
<1>1. /\ p \in StoreCalled /\ ReferencesPlaces /\ ReferencesSeen /\ ReferencesReads
      /\ UNCHANGED <<disk, file, touched, edited>> /\ References!At \in DOMAIN disk
  BY DEF ReferencesInv, ReferencesPlaces, Inspects, Silent, Reading, Scans
<1>2. References!At' = References!At /\ Scope' = Scope
  BY DEF Inspects, References!At, References!Here, Scope
<1>3. /\ \A t : ThatFile(t)' = ThatFile(t)
      /\ \A t : ThatManifest(t)' = ThatManifest(t)
  BY <1>2 DEF ThatFile, ThatManifest
<1>4. ReferencesPlaces'
  BY <1>1, <1>2 DEF ReferencesPlaces, Scans, OneEach, Inspects
<1>5. ReferencesReads' /\ ReferencesLatest'
  BY <1>1 DEF ReferencesReads, ReferencesLatest, Inspects, Keys
<1>6. \A x \in Scope : \A t \in touched : ThatFile(t)[x] \in Nat
  <2>1. \A t \in touched : t[2][References!At] \in StoreDirectory
    BY <1>1 DEF ReferencesInv, ReferencesTyped, DiskTyped
  <2> QED
    BY <2>1 DEF ThatFile, StoreDirectory, Scope, InRoots
<1>7. /\ <<file, disk>> \in touched /\ ThatFile(<<file, disk>>) = disk[References!At].files
      /\ ThatManifest(<<file, disk>>) = disk[References!At].manifest
  BY DEF ReferencesInv, ReferencesTyped, ThatFile, ThatManifest
<1>8. ASSUME NEW x \in Scope, x \notin Pending', x \notin seen
      PROVE  p.pc = "walk" /\ x \notin Pending
  BY <1>8 DEF Inspects
<1>9. ASSUME ~edited
      PROVE  DeclarationSeen' /\ ScanSeen' /\ FirstSeen'
  <2>1. DeclarationSeen /\ ScanSeen /\ FirstSeen
    BY <1>1, <1>9 DEF ReferencesSeen
  <2>2. DeclarationSeen'
    BY <1>1, <2>1, DeclarationStays DEF Inspects
  <2>3. ScanSeen'
    <3>1. \E t \in touched : ThatManifest(t) = p'.scan.before
      BY <1>7, <2>1 DEF ScanSeen, Inspects
    <3>2. ASSUME NEW x \in Scope, x \notin Pending'
          PROVE  \E t \in touched : Observed(p'.scan.got, x, ThatFile(t)[x])
      <4>1. CASE x \in seen
        BY <1>6, <1>7, <4>1
      <4>2. CASE x \notin seen
        <5>1. p.pc = "walk" /\ x \notin Pending
          BY <1>8, <3>2, <4>2
        <5>2. PICK t \in touched : Observed(p.scan.got, x, ThatFile(t)[x])
          BY <2>1, <5>1 DEF ScanSeen
        <5> QED
          BY <1>6, <4>2, <5>1, <5>2
      <4> QED
        BY <4>1, <4>2
    <3> QED
      BY <1>1, <1>2, <1>3, <3>1, <3>2 DEF ScanSeen, Observed
  <2>4. FirstSeen'
    <3> SUFFICES ASSUME NEW first \in p.first
                 PROVE  FirstSaw(first)' /\ \E t \in touched : EndedAt(first, t)' /\ SecondSaw(first, t)'
      BY <1>1 DEF FirstSeen, Inspects
    <3>1. FirstSaw(first) /\ \E t \in touched : EndedAt(first, t) /\ SecondSaw(first, t)
      BY <2>1 DEF FirstSeen, Inspects, Scans
    <3>2. PICK t \in touched : EndedAt(first, t) /\ SecondSaw(first, t)
      BY <3>1
    <3>3. FirstSaw(first)'
      BY <1>1, <1>2, <1>3, <3>1 DEF FirstSaw, Observed, OneEach, Inspects
    <3>4. EndedAt(first, t)'
      BY <1>1, <1>2, <1>3, <3>2 DEF EndedAt, OfDeclaration, Observed, Inspects
    <3>5. p'.scan.before = first.bytes => ThatManifest(t) = first.bytes
      BY <3>2 DEF EndedAt, SecondSaw, Inspects
    <3>6. ASSUME NEW x \in Scope, x \notin Pending', NEW v \in Nat, Observed(p'.scan.got, x, v),
                 Observed(first.files, x, v)
          PROVE  ThatFile(t)[x] = v
      <4>1. CASE x \in seen
        BY <3>2, <3>6, <4>1 DEF EndedAt
      <4>2. CASE x \notin seen
        BY <1>8, <3>2, <3>6, <4>2 DEF SecondSaw
      <4> QED
        BY <4>1, <4>2
    <3>7. SecondSaw(first, t)'
      BY <1>2, <1>3, <3>5, <3>6 DEF SecondSaw, Observed, Inspects
    <3> QED
      BY <3>3, <3>4, <3>7
  <2> QED
    BY <2>2, <2>3, <2>4
<1> QED
  BY <1>1, <1>4, <1>5, <1>9, SilentStep DEF CallHolds, Inspects, ReferencesSeen

(* The inspection lists the store and hashes the manifest before it reads  *)
(* a file.                                                                 *)
LEMMA HashBeforeHolds ==
  ASSUME ReferencesInv, References!HashBefore
  PROVE  ReferencesInv'
<1>1. References!Looks /\ p.pc = "before" /\ p \in StoreCalled /\ References!At \in DOMAIN disk
      /\ p.manifest \in StoreManifest
  BY DEF References!HashBefore, ReferencesInv, ReferencesTyped, ReferencesPlaces, Scans
<1>2. CASE References!Refuse
  BY <1>1, <1>2, Refuses
<1>3. CASE ~References!Refuse
  <2> DEFINE scan == [References!Empty EXCEPT !.before = disk[References!At].manifest, !.roots = p.manifest.roots]
  <2>1. References!Go([p EXCEPT !.pc = "walk", !.scan = scan])
    BY <1>3 DEF References!HashBefore
  <2>2. /\ scan \in StoreScan /\ scan.before = disk[References!At].manifest /\ scan.roots = p.manifest.roots
        /\ scan.todo = {} /\ scan.got = {}
    <3>1. disk[References!At] \in StoreDirectory
      BY <1>1 DEF ReferencesInv, ReferencesTyped, DiskTyped
    <3> QED
      BY <1>1, <3>1, StoreFacts DEF StoreScan, StoreDirectory, References!Empty
  <2>3. p' = [p EXCEPT !.pc = "walk", !.scan = scan]
    BY <2>1 DEF References!Go
  <2>4. /\ p' \in StoreCalled /\ p'.pc = "walk" /\ p'.call = p.call /\ p'.refs = p.refs /\ p'.i = p.i
        /\ p'.from = p.from /\ p'.then = p.then /\ p'.resolved = p.resolved /\ p'.manifest = p.manifest
        /\ p'.first = p.first /\ p'.found = p.found /\ p'.scan = scan
        /\ p'.scan.before = disk[References!At].manifest
    <3> HIDE DEF scan
    <3> QED
      BY <1>1, <2>2, <2>3 DEF StoreCalled, ReferencesPc
  <2>5. Inspects
    BY <1>1, <2>1, <2>4 DEF Inspects, References!Go, References!Looks, Silent, Reading
  <2> HIDE DEF scan
  <2>6. Scope' = Scope /\ Pending' = Scope
    BY <2>2, <2>4 DEF Scope, Pending
  <2>7. ReferencesScan'
    BY <1>1, <2>2, <2>4, <2>6, StoreFacts DEF ReferencesScan, OneEach, Scope
  <2>8. {} \in SUBSET Scope /\ Scope \ Pending' \subseteq (Scope \ Pending) \cup {}
    BY <2>6
  <2>9. \A x \in {} : \A v \in Nat : Observed(p'.scan.got, x, v) <=> v = disk[References!At].files[x]
    OBVIOUS
  <2> QED
    BY <1>1, <2>4, <2>5, <2>6, <2>7, <2>8, <2>9, InspectsHolds
<1> QED
  BY <1>2, <1>3

(* The tail of a sequence has what the sequence has behind its head. *)
LEMMA TailOf ==
  ASSUME NEW S, NEW s \in Seq(S), s # <<>>
  PROVE  /\ Tail(s) \in Seq(S)
         /\ \A e : e \in References!Range(s) <=> e = Head(s) \/ e \in References!Range(Tail(s))
         /\ (\A i, j \in DOMAIN s : s[i] = s[j] => i = j) =>
              /\ Head(s) \notin References!Range(Tail(s))
              /\ \A i, j \in DOMAIN Tail(s) : Tail(s)[i] = Tail(s)[j] => i = j
<1>1. /\ Tail(s) \in Seq(S) /\ Len(s) \in Nat \ {0} /\ Len(Tail(s)) = Len(s) - 1 /\ Head(s) = s[1]
      /\ DOMAIN s = 1 .. Len(s) /\ DOMAIN Tail(s) = 1 .. (Len(s) - 1)
      /\ \A i \in 1 .. (Len(s) - 1) : Tail(s)[i] = s[i + 1]
  OBVIOUS
<1>2. \A i \in 1 .. Len(s) : i = 1 \/ (i - 1 \in 1 .. (Len(s) - 1) /\ s[i] = Tail(s)[i - 1])
  BY <1>1
<1>3. \A i \in 1 .. (Len(s) - 1) : i + 1 \in 1 .. Len(s) /\ i + 1 # 1
  BY <1>1
<1>4. \A e : e \in References!Range(s) <=> e = Head(s) \/ e \in References!Range(Tail(s))
  <2> TAKE e
  <2>1. e \in References!Range(s) <=> \E i \in 1 .. Len(s) : e = s[i]
    BY <1>1 DEF References!Range
  <2>2. e \in References!Range(Tail(s)) <=> \E i \in 1 .. (Len(s) - 1) : e = Tail(s)[i]
    BY <1>1 DEF References!Range
  <2>3. 1 \in 1 .. Len(s)
    BY <1>1
  <2> QED
    BY <1>1, <1>2, <1>3, <2>1, <2>2, <2>3
<1>5. ASSUME \A i, j \in DOMAIN s : s[i] = s[j] => i = j
      PROVE  /\ Head(s) \notin References!Range(Tail(s))
             /\ \A i, j \in DOMAIN Tail(s) : Tail(s)[i] = Tail(s)[j] => i = j
  BY <1>1, <1>3, <1>5 DEF References!Range
<1> QED
  BY <1>1, <1>4, <1>5

(* The files of a root are listed: those that are not there have been      *)
(* seen.                                                                   *)
LEMMA WalkHolds ==
  ASSUME ReferencesInv, References!Walk
  PROVE  ReferencesInv'
<1>1. /\ References!Looks /\ p.pc = "walk" /\ p \in StoreCalled /\ References!At \in DOMAIN disk
      /\ p.scan.todo = {} /\ p.scan.roots # <<>> /\ p.scan \in StoreScan /\ ReferencesScan
  BY DEF References!Walk, ReferencesInv, ReferencesTyped, ReferencesPlaces, Scans, StoreCalled
<1> DEFINE root == Head(p.scan.roots)
           present == References!Present(References!At, root)
<1>2. disk[References!At].files \in [StorePart -> Nat]
  BY <1>1 DEF ReferencesInv, ReferencesTyped, DiskTyped, StoreDirectory
<1>3. /\ present \subseteq StorePart
      /\ \A x \in StorePart : x \in present <=> StoreRootOf[x] = root /\ disk[References!At].files[x] > 0
  BY DEF References!Present
<1> HIDE DEF present
<1>4. References!Go([p EXCEPT !.scan.todo = present, !.scan.roots = Tail(@)])
  BY DEF References!Walk, present
<1>5. /\ p' \in StoreCalled /\ p'.pc = "walk" /\ p'.call = p.call /\ p'.refs = p.refs /\ p'.i = p.i
      /\ p'.from = p.from /\ p'.then = p.then /\ p'.resolved = p.resolved /\ p'.manifest = p.manifest
      /\ p'.first = p.first /\ p'.found = p.found /\ p'.scan.todo = present
      /\ p'.scan.roots = Tail(p.scan.roots) /\ p'.scan.got = p.scan.got /\ p'.scan.before = p.scan.before
  <2> DEFINE scan == [p.scan EXCEPT !.todo = present, !.roots = Tail(@)]
  <2>1. p' = [p EXCEPT !.scan = scan]
    BY <1>1, <1>4 DEF References!Go, StoreCalled, StoreScan
  <2>2. Tail(p.scan.roots) \in Seq(STRING)
    <3>1. p.scan.roots \in Seq(STRING) /\ p.scan.roots # <<>>
      BY <1>1 DEF StoreScan
    <3> QED
      BY <3>1, TailOf
  <2>3. /\ scan \in StoreScan /\ scan.todo = present /\ scan.roots = Tail(p.scan.roots)
        /\ scan.got = p.scan.got /\ scan.before = p.scan.before
    BY <1>1, <1>3, <2>2 DEF StoreScan
  <2> HIDE DEF scan
  <2> QED
    BY <1>1, <2>1, <2>3 DEF StoreCalled
<1>6. Inspects
  BY <1>1, <1>4, <1>5 DEF Inspects, References!Go, References!Looks, Silent, Reading
<1>7. Scope' = Scope /\ Pending = InRoots(p.scan.roots) /\ Pending' = present \cup InRoots(Tail(p.scan.roots))
  BY <1>1, <1>5 DEF Scope, Pending, InRoots
<1>8. /\ \A x \in StorePart : x \in InRoots(p.scan.roots) <=>
           StoreRootOf[x] = root \/ x \in InRoots(Tail(p.scan.roots))
      /\ \A x \in InRoots(Tail(p.scan.roots)) : StoreRootOf[x] # root
      /\ \A i, j \in DOMAIN Tail(p.scan.roots) : Tail(p.scan.roots)[i] = Tail(p.scan.roots)[j] => i = j
  <2>1. p.scan.roots \in Seq(STRING) /\ p.scan.roots # <<>>
    BY <1>1 DEF StoreScan
  <2>2. \A i, j \in DOMAIN p.scan.roots : p.scan.roots[i] = p.scan.roots[j] => i = j
    BY <1>1 DEF ReferencesScan
  <2> QED
    BY <2>1, <2>2, TailOf DEF InRoots
<1> DEFINE seen == {x \in Pending : x \notin Pending'}
<1>9. ReferencesScan'
  <2>1. Pending' \subseteq Pending /\ Pending \subseteq Scope
    BY <1>1, <1>3, <1>7, <1>8 DEF ReferencesScan, InRoots
  <2>2. present \cap InRoots(Tail(p.scan.roots)) = {}
    BY <1>3, <1>8
  <2>3. \A pair \in p.scan.got : pair[1] \in Scope \ Pending
    BY <1>1 DEF ReferencesScan
  <2>4. OneEach(p.scan.got)
    BY <1>1 DEF ReferencesScan
  <2> QED
    BY <1>5, <1>7, <1>8, <2>1, <2>2, <2>3, <2>4 DEF ReferencesScan, OneEach, InRoots
<1>10. \A x \in seen : \A v \in Nat : Observed(p'.scan.got, x, v) <=> v = disk[References!At].files[x]
  <2> SUFFICES ASSUME NEW x \in seen, NEW v \in Nat
               PROVE  Observed(p.scan.got, x, v) <=> v = disk[References!At].files[x]
    BY <1>5 DEF Observed
  <2>1. x \in StorePart /\ disk[References!At].files[x] = 0
    BY <1>2, <1>3, <1>7, <1>8 DEF InRoots
  <2>2. \A pair \in p.scan.got : pair[1] # x
    BY <1>1 DEF ReferencesScan
  <2>3. <<x, v>>[1] = x
    OBVIOUS
  <2> QED
    BY <2>1, <2>2, <2>3 DEF Observed
<1>11. seen \in SUBSET Scope /\ Scope \ Pending' \subseteq (Scope \ Pending) \cup seen
  BY <1>1 DEF ReferencesScan
<1>12. \A x \in Scope \ (Pending \cup seen) : \A v \in Nat :
         Observed(p'.scan.got, x, v) <=> Observed(p.scan.got, x, v)
  BY <1>5 DEF Observed
<1> HIDE DEF seen
<1> QED
  BY <1>1, <1>5, <1>6, <1>9, <1>10, <1>11, <1>12, InspectsHolds

(* The next file of the listing is hashed, or found gone.                  *)
LEMMA HashFileHolds ==
  ASSUME ReferencesInv, References!HashFile
  PROVE  ReferencesInv'
<1>1. /\ References!Looks /\ p.pc = "walk" /\ p \in StoreCalled /\ References!At \in DOMAIN disk
      /\ p.scan.todo # {} /\ p.scan \in StoreScan /\ ReferencesScan
  BY DEF References!HashFile, ReferencesInv, ReferencesTyped, ReferencesPlaces, Scans, StoreCalled
<1>2. CASE References!Refuse
  BY <1>1, <1>2, Refuses
<1>3. CASE ~References!Refuse
  <2> DEFINE x == References!First(p.scan.todo)
             value == disk[References!At].files[x]
  <2>1. x \in p.scan.todo
    <3>1. p.scan.todo \in SUBSET Nat
      BY <1>1, StoreAssumption DEF StoreScan
    <3>2. \E f \in p.scan.todo : \A g \in p.scan.todo : f <= g
      BY <1>1, <3>1, HasLowest
    <3> QED
      BY <3>2 DEF References!First
  <2>2. /\ value # 0
        /\ References!Go([p EXCEPT !.scan.todo = @ \ {x}, !.scan.got = @ \cup {<<x, value>>}])
    BY <1>3 DEF References!HashFile
  <2> HIDE DEF x
  <2>3. x \in StorePart /\ value \in Nat \ {0}
    <3>1. disk[References!At].files \in [StorePart -> Nat]
      BY <1>1 DEF ReferencesInv, ReferencesTyped, DiskTyped, StoreDirectory
    <3> QED
      BY <1>1, <2>1, <2>2, <3>1 DEF StoreScan
  <2> HIDE DEF value
  <2>4. /\ p' \in StoreCalled /\ p'.pc = "walk" /\ p'.call = p.call /\ p'.refs = p.refs /\ p'.i = p.i
        /\ p'.from = p.from /\ p'.then = p.then /\ p'.resolved = p.resolved /\ p'.manifest = p.manifest
        /\ p'.first = p.first /\ p'.found = p.found /\ p'.scan.todo = p.scan.todo \ {x}
        /\ p'.scan.roots = p.scan.roots /\ p'.scan.got = p.scan.got \cup {<<x, value>>}
        /\ p'.scan.before = p.scan.before
    <3> DEFINE scan == [p.scan EXCEPT !.todo = @ \ {x}, !.got = @ \cup {<<x, value>>}]
    <3>1. p' = [p EXCEPT !.scan = scan]
      BY <1>1, <2>2 DEF References!Go, StoreCalled, StoreScan
    <3>2. <<x, value>> \in StoreFiles
      BY <2>3 DEF StoreFiles
    <3>3. /\ scan \in StoreScan /\ scan.todo = p.scan.todo \ {x} /\ scan.roots = p.scan.roots
          /\ scan.got = p.scan.got \cup {<<x, value>>} /\ scan.before = p.scan.before
      BY <1>1, <3>2 DEF StoreScan
    <3> HIDE DEF scan
    <3> QED
      BY <1>1, <3>1, <3>3 DEF StoreCalled
  <2>5. Inspects
    BY <1>1, <2>2, <2>4 DEF Inspects, References!Go, References!Looks, Silent, Reading
  <2>6. /\ Scope' = Scope /\ Pending' = Pending \ {x} /\ x \in Pending /\ Pending \subseteq Scope
        /\ \A pair \in p.scan.got : pair[1] \in Scope \ Pending
        /\ OneEach(p.scan.got)
    BY <1>1, <2>1, <2>4 DEF Scope, Pending, InRoots, ReferencesScan
  <2>7. <<x, value>>[1] = x /\ <<x, value>>[2] = value
    OBVIOUS
  <2>8. ReferencesScan'
    <3>1. \A pair \in p'.scan.got : pair[1] \in Scope \ Pending'
      BY <2>4, <2>6, <2>7
    <3>2. OneEach(p'.scan.got)
      BY <2>4, <2>6, <2>7 DEF OneEach
    <3> QED
      BY <1>1, <2>4, <2>6, <3>1, <3>2 DEF ReferencesScan, OneEach, InRoots
  <2>9. \A y \in {x} : \A v \in Nat : Observed(p'.scan.got, y, v) <=> v = value
    <3> SUFFICES ASSUME NEW v \in Nat
                 PROVE  Observed(p'.scan.got, x, v) <=> v = value
      OBVIOUS
    <3>1. <<x, value>> \in p'.scan.got
      BY <2>4
    <3>2. <<x, v>> \in p'.scan.got => v = value
      BY <2>4, <2>6, <2>7
    <3> QED
      BY <2>3, <2>7, <3>1, <3>2 DEF Observed
  <2>10. \A y \in Scope \ (Pending \cup {x}) : \A v \in Nat :
           Observed(p'.scan.got, y, v) <=> Observed(p.scan.got, y, v)
    BY <2>4, <2>7 DEF Observed
  <2> QED
    BY <1>1, <2>4, <2>5, <2>6, <2>8, <2>9, <2>10, InspectsHolds DEF value
<1> QED
  BY <1>2, <1>3

(* The manifest is hashed again behind the last file.                      *)
LEMMA HashAfterHolds ==
  ASSUME ReferencesInv, References!HashAfter
  PROVE  ReferencesInv'
<1>1. /\ References!Looks /\ p.pc = "walk" /\ p \in StoreCalled /\ p.scan.todo = {} /\ p.scan.roots = <<>>
      /\ ReferencesScan
  BY DEF References!HashAfter, ReferencesInv, ReferencesTyped
<1>2. CASE References!Refuse
  BY <1>1, <1>2, Refuses
<1>3. CASE ~References!Refuse
  <2>1. References!Go([p EXCEPT !.pc = "reload"])
    BY <1>3 DEF References!HashAfter
  <2>2. /\ p' \in StoreCalled /\ p'.pc = "reload" /\ p'.call = p.call /\ p'.refs = p.refs /\ p'.i = p.i
        /\ p'.from = p.from /\ p'.then = p.then /\ p'.resolved = p.resolved /\ p'.manifest = p.manifest
        /\ p'.first = p.first /\ p'.found = p.found /\ p'.scan = p.scan
    BY <1>1, <2>1 DEF StoreCalled, ReferencesPc, References!Go
  <2>3. Inspects
    BY <1>1, <2>1, <2>2 DEF Inspects, References!Go, References!Looks, Silent, Reading
  <2>4. Scope' = Scope /\ Pending' = {} /\ Pending = {}
    BY <1>1, <2>2 DEF Scope, Pending, InRoots, References!Range
  <2>5. ReferencesScan'
    BY <1>1, <2>2, <2>4 DEF ReferencesScan, OneEach, InRoots
  <2>6. \A x \in Scope \ (Pending \cup {}) : \A v \in Nat :
          Observed(p'.scan.got, x, v) <=> Observed(p.scan.got, x, v)
    BY <2>2
  <2>7. {} \in SUBSET Scope
    OBVIOUS
  <2> QED
    BY <1>1, <2>2, <2>3, <2>4, <2>5, <2>6, <2>7, InspectsHolds
<1> QED
  BY <1>2, <1>3

-----------------------------------------------------------------------------
(* An inspection ends. *)
Ending == p.pc = "reload" /\ p.manifest \in StoreManifest /\ References!At \in DOMAIN disk

(* The snapshot an inspection ends with has one hash for each file it      *)
(* lists, all of them within the scope.                                    *)
LEMMA SnapshotTyped ==
  ASSUME ReferencesInv, Ending
  PROVE  /\ References!Snapshot \in StoreSnapshot /\ References!Snapshot.manifest = p.manifest
         /\ References!Snapshot.bytes = p.scan.before /\ References!Snapshot.files = p.scan.got
         /\ OneEach(p.scan.got) /\ Pending = {} /\ p.scan.got \subseteq StoreFiles
         /\ \A pair \in p.scan.got : pair[1] \in Scope
<1>1. p.scan.before \in -1 .. Len(StoreManifests) /\ p.scan.got \in SUBSET StoreFiles
  BY DEF ReferencesInv, ReferencesTyped, StoreCalled, StoreScan
<1>2. OneEach(p.scan.got) /\ Pending = {} /\ \A pair \in p.scan.got : pair[1] \in Scope
  BY DEF ReferencesInv, ReferencesScan, Ending
<1> QED
  BY <1>1, <1>2 DEF References!Snapshot, StoreSnapshot, Ending

(* When two inspections found the same, the store had all of it at once.   *)
LEMMA WasWhole ==
  ASSUME ReferencesInv, Ending, References!Snapshot \in p.first, ~edited
  PROVE  \E t \in touched :
           /\ References!WholeAt(t[2][References!At], References!Snapshot)
           /\ OfDeclaration => t[1] = p.from \/ file # p.from
<1> DEFINE snapshot == References!Snapshot
<1>1. FirstSaw(snapshot) /\ \E t \in touched : EndedAt(snapshot, t) /\ SecondSaw(snapshot, t)
  BY DEF ReferencesInv, ReferencesSeen, FirstSeen, Scans, Ending
<1>2. PICK t \in touched : EndedAt(snapshot, t) /\ SecondSaw(snapshot, t)
  BY <1>1
<1>3. /\ snapshot.manifest = p.manifest /\ snapshot.bytes = p.scan.before /\ snapshot.files = p.scan.got
      /\ Pending = {} /\ p.scan.got \subseteq StoreFiles /\ \A pair \in p.scan.got : pair[1] \in Scope
  BY SnapshotTyped
<1> HIDE DEF snapshot
<1>4. ThatManifest(t) = snapshot.bytes /\ StoreManifests[ThatManifest(t)] = snapshot.manifest
  BY <1>2, <1>3 DEF EndedAt, SecondSaw, Ending
<1>5. \A x \in Scope : \A v \in Nat : Observed(p.scan.got, x, v) => ThatFile(t)[x] = v
  BY <1>2, <1>3 DEF SecondSaw, Ending
<1>6. ASSUME NEW x \in Scope
      PROVE  ThatFile(t)[x] \in Nat /\ Observed(p.scan.got, x, ThatFile(t)[x])
  <2>1. PICK u \in touched : Observed(p.scan.got, x, ThatFile(u)[x])
    BY <1>1, <1>3 DEF FirstSaw
  <2>2. x \in StorePart /\ u[2][References!At] \in StoreDirectory
    BY DEF ReferencesInv, ReferencesTyped, DiskTyped, Scope, InRoots, Ending
  <2>3. ThatFile(u)[x] \in Nat
    BY <2>2 DEF ThatFile, StoreDirectory
  <2> QED
    BY <1>5, <2>1, <2>3
<1>7. ASSUME NEW pair \in p.scan.got
      PROVE  pair[1] \in Scope /\ pair = <<pair[1], ThatFile(t)[pair[1]]>> /\ ThatFile(t)[pair[1]] > 0
  <2>1. pair[1] \in Scope /\ pair = <<pair[1], pair[2]>> /\ pair[2] \in Nat \ {0}
    BY <1>3 DEF StoreFiles
  <2>2. Observed(p.scan.got, pair[1], pair[2])
    BY <2>1 DEF Observed
  <2> QED
    BY <1>5, <2>1, <2>2
<1>8. ASSUME NEW x \in Scope, ThatFile(t)[x] > 0
      PROVE  <<x, ThatFile(t)[x]>> \in p.scan.got
  BY <1>6, <1>8 DEF Observed
<1>9. Scope = {y \in StorePart : StoreRootOf[y] \in References!Range(snapshot.manifest.roots)}
  BY <1>3 DEF Scope, InRoots
<1>10. snapshot.files = {<<x, ThatFile(t)[x]>> : x \in
         {y \in StorePart : StoreRootOf[y] \in References!Range(snapshot.manifest.roots) /\ ThatFile(t)[y] > 0}}
  BY <1>3, <1>7, <1>8, <1>9
<1>11. References!WholeAt(t[2][References!At], snapshot)
  BY <1>4, <1>10 DEF References!WholeAt, ThatFile, ThatManifest
<1> QED
  BY <1>2, <1>11 DEF EndedAt, snapshot

(* The first inspection has ended: the second one begins. *)
LEMMA FirstEnds ==
  ASSUME ReferencesInv, Silent, Ending, References!Loads(References!At),
         References!Loaded(References!At) = p.manifest,
         p' = [p EXCEPT !.pc = "before", !.first = {References!Snapshot}]
  PROVE  ReferencesInv'
<1>1. PICK snapshot \in StoreSnapshot :
      /\ snapshot = References!Snapshot /\ snapshot.manifest = p.manifest
      /\ snapshot.bytes = p.scan.before /\ snapshot.files = p.scan.got
      /\ OneEach(p.scan.got) /\ Pending = {} /\ p.scan.got \subseteq StoreFiles
      /\ \A pair \in p.scan.got : pair[1] \in Scope
  BY SnapshotTyped
<1>2. /\ p \in StoreCalled /\ ReferencesPlaces /\ ReferencesSeen /\ ReferencesReads /\ ReferencesTyped
      /\ UNCHANGED <<disk, file, touched, edited>>
  BY DEF ReferencesInv, ReferencesTyped, Silent, Reading
<1>3. /\ p' \in StoreCalled /\ p'.pc = "before" /\ p'.manifest = p.manifest /\ p'.first = {snapshot}
      /\ p'.from = p.from /\ p'.refs = p.refs /\ p'.i = p.i /\ p'.call = p.call /\ p'.then = p.then
      /\ p'.resolved = p.resolved /\ p'.found = p.found
  BY <1>1, <1>2 DEF StoreCalled, ReferencesPc
<1>4. References!At' = References!At /\ Scope' = Scope
  BY <1>3 DEF References!At, References!Here, Scope
<1>5. ReferencesPlaces'
  BY <1>2, <1>3, <1>4 DEF ReferencesPlaces, Scans, OneEach, Ending
<1>6. ReferencesScan' /\ ReferencesReads' /\ ReferencesLatest'
  BY <1>2, <1>3 DEF ReferencesScan, ReferencesReads, ReferencesLatest, Keys
<1>7. /\ \A t : ThatFile(t)' = ThatFile(t)
      /\ \A t : ThatManifest(t)' = ThatManifest(t)
  BY <1>4 DEF ThatFile, ThatManifest
<1>8. ASSUME ~edited
      PROVE  DeclarationSeen' /\ ScanSeen' /\ FirstSeen'
  <2>1. DeclarationSeen /\ ScanSeen
    BY <1>2, <1>8 DEF ReferencesSeen
  <2>2. DeclarationSeen'
    BY <1>2, <1>3, <2>1, DeclarationStays DEF Ending
  <2>3. ScanSeen'
    BY <1>3 DEF ScanSeen
  <2>4. FirstSaw(snapshot)'
    BY <1>1, <1>2, <1>3, <1>4, <1>7, <2>1 DEF FirstSaw, ScanSeen, Observed, OneEach, Ending
  <2>5. PICK t \in touched' : t[1] = file /\ t[2] = disk
    BY <1>2 DEF ReferencesTyped
  <2>6. disk[References!At].manifest > 0 /\ StoreManifests[disk[References!At].manifest] = p.manifest
    BY DEF References!Loads, References!Loaded
  <2>7. EndedAt(snapshot, t)'
    <3>1. ThatManifest(t) = disk[References!At].manifest /\ ThatFile(t) = disk[References!At].files
      BY <2>5 DEF ThatManifest, ThatFile
    <3> QED
      BY <1>2, <1>3, <1>4, <1>7, <2>5, <2>6, <3>1 DEF EndedAt, OfDeclaration, Observed
  <2>8. SecondSaw(snapshot, t)'
    BY <1>3 DEF SecondSaw
  <2> QED
    BY <1>3, <2>2, <2>3, <2>4, <2>5, <2>7, <2>8 DEF FirstSeen
<1> QED
  BY <1>2, <1>3, <1>5, <1>6, <1>8, SilentStep DEF CallHolds, ReferencesSeen

(* A sequence that grows by one. *)
LEMMA AppendOf ==
  ASSUME NEW S, NEW s \in Seq(S), NEW e \in S, NEW n \in Nat, Len(s) = n - 1
  PROVE  /\ Append(s, e) \in Seq(S) /\ DOMAIN Append(s, e) = 1 .. n /\ Len(Append(s, e)) = n
         /\ Append(s, e) # <<>>
         /\ \A i \in DOMAIN Append(s, e) : Append(s, e)[i] = IF i = n THEN e ELSE s[i]
         /\ \A i \in DOMAIN Append(s, e) : i # n => i \in DOMAIN s
<1>1. Append(s, e) \in Seq(S) /\ Len(Append(s, e)) = n /\ n >= 1
  OBVIOUS
<1>2. DOMAIN Append(s, e) = 1 .. n /\ DOMAIN s = 1 .. (n - 1)
  BY <1>1
<1> QED
  BY <1>1, <1>2

(* The second inspection has ended: the reference is resolved. *)
LEMMA ResolvesHolds ==
  ASSUME ReferencesInv, References!Looks, Ending, References!Snapshot \in p.first, p.then = "bind",
         References!Resolves, ~References!Refuse
  PROVE  ReferencesInv'
<1>1. PICK snapshot \in StoreSnapshot :
      /\ snapshot = References!Snapshot /\ snapshot.manifest = p.manifest
      /\ snapshot.files = p.scan.got /\ OneEach(p.scan.got)
  BY SnapshotTyped
<1> DEFINE at == p.refs[p.i].at
           new == [at |-> at, manifest |-> p.manifest, snapshot |-> snapshot]
           resolved == Append(p.resolved, new)
           ended == [p EXCEPT !.resolved = resolved, !.scan = References!Empty, !.first = {}]
<1>2. new = [at |-> p.refs[p.i].at, manifest |-> p.manifest, snapshot |-> References!Snapshot]
  BY <1>1
<1>3. /\ UNCHANGED <<said, touched, edited>>
      /\ \/ p.i < Len(p.refs) /\ p' = [ended EXCEPT !.pc = "manifest", !.i = @ + 1]
         \/ p' = [ended EXCEPT !.pc = "declared"]
  BY <1>1 DEF References!Resolves, References!Go
<1>4. /\ p \in StoreCalled /\ ReferencesPlaces /\ ReferencesSeen /\ ReferencesReads /\ ReferencesTyped
      /\ p.i \in DOMAIN p.refs /\ Len(p.resolved) = p.i - 1 /\ p.refs \in Seq(StoreReference)
      /\ p.resolved \in Seq(StoreResolved) /\ p.i \in Nat
  BY DEF ReferencesInv, ReferencesTyped, ReferencesPlaces, Ending, Scans, StoreCalled
<1>5. Silent /\ UNCHANGED <<disk, file, touched, edited>>
  BY <1>3 DEF References!Looks, Silent, Reading
<1>6. /\ new \in StoreResolved /\ new.at = References!At /\ new.manifest = new.snapshot.manifest
      /\ new.snapshot = snapshot /\ OneEach(new.snapshot.files)
  <2>1. p.refs[p.i] \in StoreReference
    BY <1>4
  <2> QED
    BY <1>1, <2>1 DEF StoreResolved, StoreReference, References!At, Ending
<1> HIDE DEF new
<1>7. /\ resolved \in Seq(StoreResolved) /\ DOMAIN resolved = 1 .. p.i /\ Len(resolved) = p.i /\ resolved # <<>>
      /\ \A n \in DOMAIN resolved : resolved[n] = IF n = p.i THEN new ELSE p.resolved[n]
      /\ \A n \in DOMAIN resolved : n # p.i => n \in DOMAIN p.resolved
  BY <1>4, <1>6, AppendOf
<1> HIDE DEF resolved
<1>8. References!Empty \in StoreScan
  BY StoreFacts DEF References!Empty, StoreScan
<1>9. /\ p' \in StoreCalled /\ p'.from = p.from /\ p'.refs = p.refs
      /\ p'.call = p.call /\ p'.then = "bind" /\ p'.resolved = resolved /\ p'.found = p.found
      /\ p'.pc = "declared" \/ (p'.pc = "manifest" /\ p'.i = p.i + 1 /\ p.i < Len(p.refs))
  <2>1. {"manifest", "declared"} \subseteq ReferencesPc /\ p.i + 1 \in Nat
    BY <1>4 DEF ReferencesPc
  <2>2. /\ ended \in StoreCalled /\ ended.i = p.i /\ ended.from = p.from /\ ended.refs = p.refs
        /\ ended.call = p.call /\ ended.then = "bind" /\ ended.resolved = resolved /\ ended.found = p.found
    BY <1>4, <1>7, <1>8 DEF StoreCalled
  <2> HIDE DEF ended
  <2>3. CASE p.i < Len(p.refs) /\ p' = [ended EXCEPT !.pc = "manifest", !.i = p.i + 1]
    BY <2>1, <2>2, <2>3 DEF StoreCalled
  <2>4. CASE p' = [ended EXCEPT !.pc = "declared"]
    BY <2>1, <2>2, <2>4 DEF StoreCalled
  <2> QED
    BY <1>3, <2>2, <2>3, <2>4
<1>10. ReferencesPlaces'
  <2>1. \A n \in DOMAIN resolved :
          /\ resolved[n].at \in DOMAIN disk /\ resolved[n].manifest = resolved[n].snapshot.manifest
          /\ OneEach(resolved[n].snapshot.files)
    BY <1>4, <1>6, <1>7 DEF ReferencesPlaces, Ending
  <2>2. p'.pc = "manifest" => p'.i \in DOMAIN p.refs
    BY <1>4, <1>9
  <2>3. p'.pc = "manifest" => Len(resolved) = p'.i - 1
    BY <1>4, <1>7, <1>9
  <2>4. p'.call \in DOMAIN StoreCalls
    BY <1>4, <1>9 DEF ReferencesPlaces, Ending
  <2>5. UNCHANGED disk
    BY <1>5
  <2> QED
    BY <1>7, <1>9, <2>1, <2>2, <2>3, <2>4, <2>5 DEF ReferencesPlaces, Scans, OneEach
<1>11. ReferencesScan' /\ ReferencesReads' /\ ReferencesLatest'
  BY <1>9 DEF ReferencesScan, ReferencesReads, ReferencesLatest
<1>12. ASSUME ~edited
       PROVE  DeclarationSeen' /\ ScanSeen' /\ FirstSeen'
  <2>1. DeclarationSeen
    BY <1>4, <1>12 DEF ReferencesSeen
  <2>2. \E t \in touched : t[1] = p.from
    BY <2>1 DEF DeclarationSeen, OfDeclaration, Ending
  <2>3. ASSUME NEW n \in DOMAIN resolved
        PROVE  \E t \in touched : /\ t[1] = p.from \/ file # p.from
                                  /\ References!WholeAt(t[2][resolved[n].at], resolved[n].snapshot)
    <3>1. CASE n = p.i
      BY <1>1, <1>6, <1>7, <1>12, <3>1, WasWhole DEF OfDeclaration
    <3>2. CASE n # p.i
      BY <1>7, <2>1, <3>2 DEF DeclarationSeen
    <3> QED
      BY <3>1, <3>2
  <2>4. DeclarationSeen'
    BY <1>5, <1>9, <2>2, <2>3 DEF DeclarationSeen, References!WholeAt
  <2> QED
    BY <1>9, <2>4 DEF ScanSeen, FirstSeen, Scans
<1> QED
  BY <1>5, <1>9, <1>10, <1>11, <1>12, SilentStep DEF CallHolds, ReferencesSeen

(* What an answer that is given now has to show. *)
LEMMA WasThereNow ==
  ASSUME UNCHANGED <<touched, edited>>,
         ~edited => \A s \in said'.stores : \E t \in touched :
           /\ said'.kind \in {"context", "doctor"} => t[1] = said'.from
           /\ References!WholeAt(t[2][s.at], s.snapshot)
           /\ \A pair \in said'.found : t[2][s.at].files[pair[1]] = pair[2]
  PROVE  References!WasThere'
  BY DEF References!WasThere, References!WholeAt

(* What is whole has every file that is said to be there. *)
LEMMA WholeHas ==
  ASSUME NEW d, NEW s, References!WholeAt(d, s), NEW pair \in s.files
  PROVE  d.files[pair[1]] = pair[2]
<1>1. PICK x \in {y \in StorePart : StoreRootOf[y] \in References!Range(s.manifest.roots) /\ d.files[y] > 0} :
        pair = <<x, d.files[x]>>
  BY DEF References!WholeAt
<1> QED
  BY <1>1

(* The second inspection has ended, and it is the reference that was       *)
(* bound: the next one is looked at, the doctor reports, files are read,   *)
(* or what was read is returned.                                           *)
LEMMA VerifiesHolds ==
  ASSUME ReferencesInv, References!Looks, Ending, References!Snapshot \in p.first, p.then # "bind",
         References!Verifies, ~References!Refuse
  PROVE  ReferencesInv'
<1> DEFINE here == p.resolved[p.i]
<1>1. /\ p \in StoreCalled /\ ReferencesPlaces /\ ReferencesSeen /\ ReferencesReads /\ ReferencesTyped
      /\ ReferencesSaid /\ p.i \in DOMAIN p.resolved /\ p.resolved \in Seq(StoreResolved) /\ p.i \in Nat
      /\ p.call \in DOMAIN StoreCalls
  BY DEF ReferencesInv, ReferencesTyped, ReferencesPlaces, Ending, Scans, StoreCalled
<1>2. References!Snapshot = here.snapshot /\ References!At = here.at
  BY DEF References!Verifies, References!Here, References!At
<1>3. Reading
  BY DEF References!Looks, Reading
<1>4. here \in StoreResolved /\ \A n \in DOMAIN p.resolved : p.resolved[n] \in StoreResolved
  BY <1>1
<1>5. CASE p.then = "doctor" /\ p.i < Len(p.resolved) /\ References!Go([p EXCEPT !.pc = "verify", !.i = @ + 1])
  <2>1. Silent /\ UNCHANGED <<disk, file, touched, edited>>
    BY <1>3, <1>5 DEF References!Go, Silent, Reading
  <2>2. /\ p' \in StoreCalled /\ p'.pc = "verify" /\ p'.i = p.i + 1 /\ p'.from = p.from
        /\ p'.call = p.call /\ p'.then = p.then /\ p'.resolved = p.resolved /\ p'.found = p.found
    <3>1. p' = [p EXCEPT !.pc = "verify", !.i = p.i + 1] /\ p.i + 1 \in Nat /\ "verify" \in ReferencesPc
      BY <1>1, <1>5 DEF ReferencesPc, References!Go
    <3> QED
      BY <1>1, <3>1 DEF StoreCalled
  <2>3. p'.i \in DOMAIN p.resolved
    BY <1>1, <1>5, <2>2
  <2>4. ReferencesPlaces'
    BY <1>1, <1>5, <2>1, <2>2, <2>3 DEF ReferencesPlaces, Scans, OneEach
  <2>5. ReferencesScan' /\ ReferencesReads' /\ ReferencesLatest'
    BY <1>5, <2>2 DEF ReferencesScan, ReferencesReads, ReferencesLatest
  <2>6. ReferencesSeen'
    <3>1. DeclarationSeen => DeclarationSeen'
      BY <2>1, <2>2, DeclarationStays DEF Ending
    <3>2. ScanSeen' /\ FirstSeen'
      BY <2>2 DEF ScanSeen, FirstSeen, Scans
    <3> QED
      BY <1>1, <2>1, <3>1, <3>2 DEF ReferencesSeen
  <2> QED
    BY <2>1, <2>2, <2>4, <2>5, <2>6, SilentStep DEF CallHolds
<1>6. CASE p.then = "doctor" /\ References!Answers("doctor", References!Range(p.resolved), {}, References!Idle)
  <2>1. /\ UNCHANGED <<touched, edited>> /\ p' = References!Idle /\ said'.kind = "doctor" /\ said'.from = p.from
        /\ said'.stores = References!Range(p.resolved) /\ said'.found = {}
    BY <1>6 DEF References!Answers
  <2>2. said'.stores \subseteq StoreResolved
    BY <1>4, <2>1 DEF References!Range
  <2>3. References!WasThere'
    <3>1. ASSUME ~edited, NEW s \in References!Range(p.resolved)
          PROVE  \E t \in touched : t[1] = p.from /\ References!WholeAt(t[2][s.at], s.snapshot)
      BY <1>1, <1>6, <3>1 DEF ReferencesSeen, DeclarationSeen, References!Range
    <3> QED
      BY <2>1, <3>1, WasThereNow
  <2>4. ReferencesSaid'
    BY <2>1, <2>2, <2>3 DEF ReferencesSaid, References!ReadsWhatIsBound, References!LatestIsAuthorized
  <2> QED
    BY <1>3, <2>1, <2>4, IdleHolds, AnswerHolds
<1>7. CASE p.then = "open" /\ References!Go([p EXCEPT !.pc = "read", !.found = {}])
  <2>1. Silent /\ UNCHANGED <<disk, file, touched, edited>>
    BY <1>3, <1>7 DEF References!Go, Silent, Reading
  <2>2. /\ p' \in StoreCalled /\ p'.pc = "read" /\ p'.i = p.i /\ p'.from = p.from
        /\ p'.call = p.call /\ p'.then = p.then /\ p'.resolved = p.resolved /\ p'.found = {}
    BY <1>1, <1>7 DEF StoreCalled, ReferencesPc, References!Go
  <2>3. ReferencesPlaces'
    BY <1>1, <1>7, <2>1, <2>2 DEF ReferencesPlaces, Scans, OneEach
  <2>4. ReferencesScan' /\ ReferencesReads' /\ ReferencesLatest' /\ ReferencesSeen'
    BY <1>7, <2>2 DEF ReferencesScan, ReferencesReads, ReferencesLatest, ReferencesSeen, DeclarationSeen, OfDeclaration,
                      ScanSeen, FirstSeen, Scans
  <2> QED
    BY <2>1, <2>2, <2>3, <2>4, SilentStep DEF CallHolds
<1>8. CASE /\ p.then = "close"
           /\ References!Answers("read", {here}, p.found,
                [p EXCEPT !.pc = "held", !.found = {}, !.scan = References!Empty, !.first = {}])
  <2>1. /\ UNCHANGED <<touched, edited>> /\ said'.kind = "read" /\ said'.stores = {here} /\ said'.found = p.found
        /\ p' = [p EXCEPT !.pc = "held", !.found = {}, !.scan = References!Empty, !.first = {}]
    BY <1>8 DEF References!Answers
  <2>2. References!Empty \in StoreScan
    BY StoreFacts DEF References!Empty, StoreScan
  <2>3. /\ p' \in StoreCalled /\ p'.pc = "held" /\ p'.i = p.i /\ p'.from = p.from
        /\ p'.call = p.call /\ p'.then = "close" /\ p'.resolved = p.resolved /\ p'.found = {}
    BY <1>1, <1>8, <2>1, <2>2 DEF StoreCalled, ReferencesPc
  <2>4. UNCHANGED disk
    BY <1>3 DEF Reading
  <2>5. ReferencesPlaces'
    BY <1>1, <1>8, <2>3, <2>4 DEF ReferencesPlaces, Scans, OneEach
  <2>6. ReferencesScan' /\ ReferencesReads' /\ ReferencesLatest' /\ ReferencesSeen'
    BY <2>3 DEF ReferencesScan, ReferencesReads, ReferencesLatest, ReferencesSeen, DeclarationSeen, OfDeclaration,
                ScanSeen, FirstSeen, Scans, Keys
  <2>7. /\ p.found \subseteq here.snapshot.files
        /\ StoreMetadata \in Keys(p.found) =>
             \A pair \in here.snapshot.files : pair[1] \in StoreDeltas => pair \in p.found
    BY <1>1, <1>8 DEF ReferencesReads
  <2>8. References!WasThere'
    <3>1. ASSUME ~edited
          PROVE  \E t \in touched :
                   /\ References!WholeAt(t[2][here.at], here.snapshot)
                   /\ \A pair \in p.found : t[2][here.at].files[pair[1]] = pair[2]
      <4>1. PICK t \in touched : References!WholeAt(t[2][here.at], here.snapshot)
        BY <1>2, <3>1, WasWhole
      <4> QED
        BY <2>7, <4>1, WholeHas
    <3> HIDE DEF here
    <3> QED
      BY <2>1, <3>1, WasThereNow
  <2>9. References!ReadsWhatIsBound'
    BY <2>1, <2>7 DEF References!ReadsWhatIsBound, Keys
  <2>10. ReferencesSaid'
    BY <1>4, <2>1, <2>8, <2>9 DEF ReferencesSaid, References!LatestIsAuthorized
  <2> QED
    BY <1>3, <2>1, <2>3, <2>5, <2>6, <2>10, AnswerHolds DEF CallHolds
<1>9. p.then \in {"doctor", "open", "close"}
  BY <1>1 DEF StoreCalled
<1> QED
  BY <1>5, <1>6, <1>7, <1>8, <1>9 DEF References!Verifies, References!Here

(* The inspection ends: the manifest is loaded once more, and the snapshot *)
(* is bound, compared or refused.                                          *)
LEMMA ReloadHolds ==
  ASSUME ReferencesInv, References!Reload
  PROVE  ReferencesInv'
<1>1. References!Looks /\ Ending
  BY DEF References!Reload, ReferencesInv, ReferencesPlaces, Scans, Ending
<1>2. CASE References!Refuse
  BY <1>1, <1>2, Refuses
<1>3. CASE ~References!Refuse
  <2>1. References!Loads(References!At) /\ References!Loaded(References!At) = p.manifest
    BY <1>3 DEF References!Reload
  <2>2. CASE p.first = {}
    <3>1. References!Go([p EXCEPT !.pc = "before", !.first = {References!Snapshot}])
      BY <1>3, <2>1, <2>2 DEF References!Reload, References!Seen
    <3> QED
      BY <1>1, <2>1, <3>1, FirstEnds DEF References!Go, References!Looks, Silent, Reading
  <2>3. CASE p.first # {}
    <3>1. References!Snapshot \in p.first
          /\ IF p.then = "bind" THEN References!Resolves ELSE References!Verifies
      BY <1>3, <2>1, <2>3 DEF References!Reload, References!Seen
    <3> QED
      BY <1>1, <1>3, <3>1, ResolvesHolds, VerifiesHolds
  <2> QED
    BY <2>2, <2>3
<1> QED
  BY <1>2, <1>3

(* The last reference is bound: the call says what it resolved.            *)
LEMMA FinishHolds ==
  ASSUME ReferencesInv, References!Finish
  PROVE  ReferencesInv'
<1>1. /\ References!Looks /\ Reading /\ p.pc = "declared" /\ p \in StoreCalled /\ ReferencesPlaces /\ ReferencesSeen
      /\ p.then = "bind" /\ p.resolved \in Seq(StoreResolved) /\ p.resolved # <<>> /\ p.call \in DOMAIN StoreCalls
  BY DEF References!Finish, References!Looks, Reading, ReferencesInv, ReferencesTyped, ReferencesPlaces, StoreCalled
<1>2. CASE References!Refuse
  BY <1>1, <1>2, Refuses
<1>3. ASSUME ~References!Refuse
      PROVE  file = p.from
  BY <1>3 DEF References!Finish, References!SameDeclaration
<1>4. ASSUME ~edited, file = p.from, NEW n \in DOMAIN p.resolved
      PROVE  \E t \in touched : t[1] = p.from /\ References!WholeAt(t[2][p.resolved[n].at], p.resolved[n].snapshot)
  BY <1>1, <1>4 DEF ReferencesSeen, DeclarationSeen
<1>5. CASE file = p.from /\ References!Go([p EXCEPT !.pc = "verify", !.then = "doctor", !.i = 1])
  <2>1. Silent /\ UNCHANGED <<disk, file, touched, edited>>
    BY <1>1, <1>5 DEF References!Go, Silent, Reading
  <2>2. /\ p' \in StoreCalled /\ p'.pc = "verify" /\ p'.i = 1 /\ p'.from = p.from
        /\ p'.call = p.call /\ p'.then = "doctor" /\ p'.resolved = p.resolved
    BY <1>1, <1>5 DEF StoreCalled, ReferencesPc, References!Go
  <2>3. 1 \in DOMAIN p.resolved
    BY <1>1
  <2>4. ReferencesPlaces'
    BY <1>1, <2>1, <2>2, <2>3 DEF ReferencesPlaces, Scans, OneEach
  <2>5. ReferencesScan' /\ ReferencesReads' /\ ReferencesLatest'
    BY <2>2 DEF ReferencesScan, ReferencesReads, ReferencesLatest
  <2>6. ReferencesSeen'
    <3>1. ASSUME ~edited
          PROVE  /\ \E t \in touched : t[1] = p.from
                 /\ \A n \in DOMAIN p.resolved : \E t \in touched :
                      t[1] = p.from /\ References!WholeAt(t[2][p.resolved[n].at], p.resolved[n].snapshot)
      BY <1>4, <1>5, <2>3, <3>1
    <3> QED
      BY <2>1, <2>2, <3>1 DEF ReferencesSeen, DeclarationSeen, References!WholeAt, ScanSeen, FirstSeen, Scans
  <2> QED
    BY <2>1, <2>2, <2>4, <2>5, <2>6, SilentStep DEF CallHolds
<1>6. CASE file = p.from /\ References!Answers("context", {p.resolved[i] : i \in References!Selected}, {}, References!Idle)
  <2>1. /\ UNCHANGED <<touched, edited>> /\ p' = References!Idle /\ said'.kind = "context" /\ said'.from = p.from
        /\ said'.stores = {p.resolved[i] : i \in References!Selected} /\ said'.found = {}
    BY <1>6 DEF References!Answers
  <2>2. References!Selected \subseteq DOMAIN p.resolved
    BY DEF References!Selected
  <2>3. said'.stores \subseteq StoreResolved
    BY <1>1, <2>1, <2>2
  <2>4. References!WasThere'
    <3>1. ASSUME ~edited, NEW s \in said'.stores
          PROVE  \E t \in touched : t[1] = p.from /\ References!WholeAt(t[2][s.at], s.snapshot)
      BY <1>4, <1>6, <2>1, <2>2, <3>1
    <3> QED
      BY <2>1, <3>1, WasThereNow
  <2>5. ReferencesSaid'
    BY <2>1, <2>3, <2>4 DEF ReferencesSaid, References!ReadsWhatIsBound, References!LatestIsAuthorized
  <2> QED
    BY <1>1, <2>1, <2>5, IdleHolds, AnswerHolds
<1>7. ASSUME NEW i \in References!Selected,
             References!Go([p EXCEPT !.pc = "verify", !.then = "open", !.i = i, !.scan = References!Empty, !.first = {}])
      PROVE  ReferencesInv'
  <2>1. Silent /\ UNCHANGED <<disk, file, touched, edited>>
    BY <1>1, <1>7 DEF References!Go, Silent, Reading
  <2>2. i \in DOMAIN p.resolved /\ i \in Nat
    BY <1>1 DEF References!Selected
  <2>3. References!Empty \in StoreScan
    BY StoreFacts DEF References!Empty, StoreScan
  <2>4. /\ p' \in StoreCalled /\ p'.pc = "verify" /\ p'.i = i
        /\ p'.call = p.call /\ p'.then = "open" /\ p'.resolved = p.resolved
    BY <1>1, <1>7, <2>2, <2>3 DEF StoreCalled, ReferencesPc, References!Go
  <2>5. ReferencesPlaces'
    BY <1>1, <2>1, <2>2, <2>4 DEF ReferencesPlaces, Scans, OneEach
  <2>6. ReferencesScan' /\ ReferencesReads' /\ ReferencesLatest' /\ ReferencesSeen'
    BY <2>4 DEF ReferencesScan, ReferencesReads, ReferencesLatest, ReferencesSeen, DeclarationSeen, OfDeclaration,
                ScanSeen, FirstSeen, Scans
  <2> QED
    BY <2>1, <2>4, <2>5, <2>6, SilentStep DEF CallHolds
<1> QED
  BY <1>2, <1>3, <1>5, <1>6, <1>7 DEF References!Finish, References!SameDeclaration, References!Opens

(* Files are read one after another, and each has the bytes that are       *)
(* bound.                                                                  *)
Reads ==
  /\ Silent /\ p' \in StoreCalled /\ p.then = "open" /\ p.pc \in {"read", "deltas", "delta"}
  /\ \/ p'.pc \in {"deltas", "delta"} /\ p'.then = "open"
     \/ p'.pc = "verify" /\ p'.then = "close"
  /\ p'.call = p.call /\ p'.i = p.i /\ p'.resolved = p.resolved

(* A step that only reads bound content keeps the invariant when it keeps  *)
(* what was read within the snapshot.                                      *)
LEMMA ReadsHolds ==
  ASSUME ReferencesInv, Reads, ReferencesReads'
  PROVE  ReferencesInv'
<1>1. UNCHANGED disk /\ ReferencesPlaces
  BY DEF Reads, Silent, Reading, ReferencesInv
<1>2. ReferencesPlaces'
  BY <1>1 DEF ReferencesPlaces, Scans, OneEach, Reads
<1>3. ReferencesScan' /\ ReferencesLatest' /\ ReferencesSeen'
  BY DEF Reads, ReferencesScan, ReferencesLatest, ReferencesSeen, DeclarationSeen, OfDeclaration,
         ScanSeen, FirstSeen, Scans
<1> QED
  BY <1>2, <1>3, SilentStep DEF CallHolds, Reads

(* Content taken with the bound hash is content of the snapshot.           *)
LEMMA TakesBound ==
  ASSUME ReferencesInv, p.pc \in {"read", "deltas", "delta"}, NEW x, References!HasBoundHash(x),
         p.found \subseteq p.resolved[p.i].snapshot.files
  PROVE  /\ References!Takes(x) \subseteq p.resolved[p.i].snapshot.files
         /\ References!Takes(x) \subseteq StoreFiles
         /\ Keys(References!Takes(x)) = Keys(p.found) \cup {x}
<1>1. p.i \in DOMAIN p.resolved /\ p.resolved \in Seq(StoreResolved)
  BY DEF ReferencesInv, ReferencesPlaces, ReferencesTyped, StoreCalled
<1>2. p.resolved[p.i].snapshot.files \subseteq StoreFiles
  <2>1. p.resolved[p.i] \in StoreResolved
    BY <1>1
  <2>2. p.resolved[p.i].snapshot \in StoreSnapshot
    BY <2>1 DEF StoreResolved
  <2> QED
    BY <2>2 DEF StoreSnapshot
<1> DEFINE at == p.resolved[p.i].at
<1>3. References!Takes(x) = p.found \cup {<<x, disk[at].files[x]>>}
  BY DEF References!Takes, References!Here
<1>4. <<x, disk[at].files[x]>> \in p.resolved[p.i].snapshot.files
  BY DEF References!HasBoundHash, References!Here
<1>5. <<x, disk[at].files[x]>>[1] = x
  OBVIOUS
<1> QED
  BY <1>2, <1>3, <1>4, <1>5 DEF Keys

(* The specification itself is read and compared with the bound hash.      *)
LEMMA ReadFirstHolds ==
  ASSUME ReferencesInv, References!ReadFirst
  PROVE  ReferencesInv'
<1>1. /\ References!Looks /\ p.pc = "read" /\ p.then = "open" /\ p \in StoreCalled /\ p.found = {}
  BY DEF References!ReadFirst, ReferencesInv, ReferencesTyped, ReferencesPlaces, ReferencesReads
<1>2. CASE References!Refuse
  BY <1>1, <1>2, Refuses
<1>3. CASE ~References!Refuse
  <2> DEFINE x == IF StoreCalls[p.call].kind = "change" THEN StoreMetadata ELSE StoreDocument
             found == References!Takes(x)
  <2>1. /\ References!HasBoundHash(x)
        /\ \/ References!Go([p EXCEPT !.pc = "deltas", !.found = found])
           \/ x = StoreDocument /\ References!Go([References!Close EXCEPT !.found = found])
    BY <1>3 DEF References!ReadFirst, References!Asked
  <2>2. found \subseteq p.resolved[p.i].snapshot.files /\ found \subseteq StoreFiles /\ Keys(found) = {x}
    BY <1>1, <2>1, TakesBound DEF Keys
  <2> HIDE DEF found, x
  <2>3. References!Empty \in StoreScan
    BY StoreFacts DEF References!Empty, StoreScan
  <2>4. /\ p' \in StoreCalled /\ p'.call = p.call /\ p'.i = p.i /\ p'.resolved = p.resolved /\ p'.found = found
        /\ \/ p'.pc = "deltas" /\ p'.then = "open"
           \/ p'.pc = "verify" /\ p'.then = "close" /\ x = StoreDocument
    <3>1. CASE p' = [p EXCEPT !.pc = "deltas", !.found = found]
      BY <1>1, <2>2, <3>1 DEF StoreCalled, ReferencesPc
    <3>2. CASE x = StoreDocument /\ p' = [References!Close EXCEPT !.found = found]
      BY <1>1, <2>2, <2>3, <3>2 DEF StoreCalled, ReferencesPc, References!Close
    <3> QED
      BY <2>1, <3>1, <3>2 DEF References!Go
  <2>5. Reads
    BY <1>1, <2>1, <2>4 DEF Reads, References!Go, References!Looks, Silent, Reading
  <2>6. ReferencesReads'
    BY <2>2, <2>4, StoreAssumption DEF ReferencesReads, Keys
  <2> QED
    BY <2>5, <2>6, ReadsHolds
<1> QED
  BY <1>2, <1>3

(* The directory of the deltas is listed: what is bound must be there.     *)
LEMMA ListDeltasHolds ==
  ASSUME ReferencesInv, References!ListDeltas
  PROVE  ReferencesInv'
<1>1. /\ References!Looks /\ p.pc = "deltas" /\ p.then = "open" /\ p \in StoreCalled
      /\ p.found \subseteq p.resolved[p.i].snapshot.files
  BY DEF References!ListDeltas, ReferencesInv, ReferencesTyped, ReferencesPlaces, ReferencesReads
<1>2. CASE References!Refuse
  BY <1>1, <1>2, Refuses
<1>3. CASE ~References!Refuse
  <2>1. PICK there : there # {} /\ there = References!BoundDeltas
          /\ References!Go([p EXCEPT !.pc = "delta", !.scan.todo = there])
    BY <1>3 DEF References!ListDeltas
  <2>2. there \subseteq StorePart
    BY <2>1, StoreAssumption DEF References!BoundDeltas
  <2>3. /\ p' \in StoreCalled /\ p'.pc = "delta" /\ p'.call = p.call /\ p'.i = p.i /\ p'.resolved = p.resolved
        /\ p'.found = p.found /\ p'.then = "open" /\ p'.scan.todo = there
    <3> DEFINE scan == [p.scan EXCEPT !.todo = there]
    <3>1. p' = [p EXCEPT !.pc = "delta", !.scan = scan]
      BY <1>1, <2>1 DEF References!Go, StoreCalled, StoreScan
    <3>2. p.scan \in StoreScan
      BY <1>1 DEF StoreCalled
    <3>3. scan \in StoreScan /\ scan.todo = there
      BY <2>2, <3>2 DEF StoreScan
    <3> HIDE DEF scan
    <3> QED
      BY <1>1, <3>1, <3>3 DEF StoreCalled, ReferencesPc
  <2>4. Reads
    BY <1>1, <2>1, <2>3 DEF Reads, References!Go, References!Looks, Silent, Reading
  <2>5. ReferencesReads'
    BY <1>1, <2>1, <2>3 DEF ReferencesReads, References!BoundDeltas, References!Here
  <2> QED
    BY <2>4, <2>5, ReadsHolds
<1> QED
  BY <1>2, <1>3

(* One delta is read and compared with the bound hash.                     *)
LEMMA ReadDeltaHolds ==
  ASSUME ReferencesInv, References!ReadDelta
  PROVE  ReferencesInv'
<1>1. /\ References!Looks /\ p.pc = "delta" /\ p.then = "open" /\ p \in StoreCalled /\ p.scan \in StoreScan
      /\ p.found \subseteq p.resolved[p.i].snapshot.files /\ p.scan.todo # {}
      /\ p.scan.todo \subseteq References!BoundDeltas /\ References!BoundDeltas \subseteq p.scan.todo \cup Keys(p.found)
      /\ OneEach(p.resolved[p.i].snapshot.files)
  BY DEF References!ReadDelta, ReferencesInv, ReferencesTyped, ReferencesPlaces, ReferencesReads, StoreCalled
<1>2. CASE References!Refuse
  BY <1>1, <1>2, Refuses
<1>3. CASE ~References!Refuse
  <2> DEFINE x == References!First(p.scan.todo)
             found == References!Takes(x)
  <2>1. /\ References!HasBoundHash(x)
        /\ \/ p.scan.todo = {x} /\ References!Go([References!Close EXCEPT !.found = found])
           \/ p.scan.todo # {x} /\ References!Go([p EXCEPT !.scan.todo = @ \ {x}, !.found = found])
    BY <1>3 DEF References!ReadDelta
  <2>2. x \in p.scan.todo
    <3>1. p.scan.todo \in SUBSET Nat
      BY <1>1, StoreAssumption DEF StoreScan
    <3>2. \E f \in p.scan.todo : \A g \in p.scan.todo : f <= g
      BY <1>1, <3>1, HasLowest
    <3> QED
      BY <3>2 DEF References!First
  <2>3. /\ found \subseteq p.resolved[p.i].snapshot.files /\ found \subseteq StoreFiles
        /\ Keys(found) = Keys(p.found) \cup {x}
    BY <1>1, <2>1, TakesBound
  <2> HIDE DEF found, x
  <2>4. References!Empty \in StoreScan
    BY StoreFacts DEF References!Empty, StoreScan
  <2>5. CASE p.scan.todo = {x} /\ References!Go([References!Close EXCEPT !.found = found])
    <3>1. /\ p' \in StoreCalled /\ p'.pc = "verify" /\ p'.call = p.call /\ p'.i = p.i /\ p'.resolved = p.resolved
          /\ p'.found = found /\ p'.then = "close"
      BY <1>1, <2>3, <2>4, <2>5 DEF StoreCalled, ReferencesPc, References!Close, References!Go
    <3>2. Reads
      BY <1>1, <2>5, <3>1 DEF Reads, References!Go, References!Looks, Silent, Reading
    <3>3. ASSUME NEW pair \in p.resolved[p.i].snapshot.files, pair[1] \in StoreDeltas
          PROVE  pair \in found
      <4>1. pair[1] \in Keys(found)
        BY <1>1, <2>3, <2>5, <3>3 DEF References!BoundDeltas, References!Here
      <4>2. PICK other \in found : other[1] = pair[1]
        BY <4>1 DEF Keys
      <4> QED
        BY <1>1, <2>3, <4>2 DEF OneEach
    <3>4. ReferencesReads'
      BY <2>3, <3>1, <3>3 DEF ReferencesReads
    <3> QED
      BY <3>2, <3>4, ReadsHolds
  <2>6. CASE p.scan.todo # {x} /\ References!Go([p EXCEPT !.scan.todo = @ \ {x}, !.found = found])
    <3>1. /\ p' \in StoreCalled /\ p'.pc = "delta" /\ p'.call = p.call /\ p'.i = p.i /\ p'.resolved = p.resolved
          /\ p'.found = found /\ p'.then = "open" /\ p'.scan.todo = p.scan.todo \ {x}
      <4> DEFINE scan == [p.scan EXCEPT !.todo = @ \ {x}]
      <4>1. p' = [p EXCEPT !.scan = scan, !.found = found]
        BY <1>1, <2>6 DEF References!Go, StoreCalled, StoreScan
      <4>2. scan \in StoreScan /\ scan.todo = p.scan.todo \ {x}
        BY <1>1 DEF StoreScan
      <4> HIDE DEF scan
      <4> QED
        BY <1>1, <2>3, <4>1, <4>2 DEF StoreCalled
    <3>2. Reads
      BY <1>1, <2>6, <3>1 DEF Reads, References!Go, References!Looks, Silent, Reading
    <3>3. ReferencesReads'
      BY <1>1, <2>2, <2>3, <2>6, <3>1 DEF ReferencesReads, References!BoundDeltas, References!Here
    <3> QED
      BY <3>2, <3>3, ReadsHolds
  <2> QED
    BY <2>1, <2>5, <2>6
<1> QED
  BY <1>2, <1>3

(* Every step of what reads and creates stores. *)
LEMMA ReferencesSteps ==
  ASSUME ReferencesInv, References!Next
  PROVE  ReferencesInv'
<1>1. CASE References!Begin
  BY <1>1, BeginHolds
<1>2. CASE References!Edit
  BY <1>2, EditHolds
<1>3. CASE \E c \in References!Creator : References!Create(c)
  BY <1>3, CreateHolds DEF References!Creator
<1>4. CASE References!Step
  BY <1>4, LoadSourceHolds, LatestHolds, LoadDeclarationHolds, LoadManifestHolds, ReverifyHolds, HashBeforeHolds,
     WalkHolds, HashFileHolds, HashAfterHolds, ReloadHolds, FinishHolds, AgainHolds, ReadFirstHolds, ListDeltasHolds,
     ReadDeltaHolds DEF References!Step
<1> QED
  BY <1>1, <1>2, <1>3, <1>4 DEF References!Next

(* What is read was there at one moment, is what is bound, and stores are  *)
(* made by one.                                                            *)
LEMMA ReferencesAreSafe ==
  ASSUME ReferencesInv
  PROVE  /\ References!TypeOK /\ References!WasThere /\ References!ReadsWhatIsBound
         /\ References!LatestIsAuthorized /\ References!OneIsMade
<1> USE DEF ReferencesInv
<1>1. \A d \in DOMAIN disk : disk[d] \in StoreDirectory
  BY DEF ReferencesTyped, DiskTyped
<1>2. \A s \in said.stores : s.snapshot.files \subseteq StorePart \X (Nat \ {0})
  BY DEF ReferencesSaid, StoreResolved, StoreSnapshot, StoreFiles
<1>3. p.call \in 0 .. Len(StoreCalls)
  BY DEF ReferencesTyped, StoreCalled
<1>4. References!TypeOK
  BY <1>1, <1>2, <1>3 DEF References!TypeOK, ReferencesTyped, StoreDirectory
<1>5. References!OneIsMade
  BY DEF References!OneIsMade, ReferencesMade, Alone, Opened, References!SameStore, References!Creator
<1> QED
  BY <1>4, <1>5 DEF ReferencesSaid

-----------------------------------------------------------------------------
(* All systems.                                                            *)
AllInv ==
  /\ In("upgrade") => UpgradeInv
  /\ In("promotion") => PromotionInv /\ PromotionOnce
  /\ In("packs") => PacksInv
  /\ In("integrations") => IntegrationsInv
  /\ In("locks") => LocksInv
  /\ In("stores") => StoresInv
  /\ In("references") => ReferencesInv
  /\ In("resume") => Resume!IInv

(* The constants of the resumed runs are such as the theorems are about.   *)
LEMMA ResumeHolds ==
  /\ Resume!Init => Resume!IInv
  /\ Resume!IInv /\ [Resume!Next]_(Resume!vars) => Resume!IInv'
  /\ Resume!IInv => Resume!TypeOK
<1>1. Resume!Init => Resume!IInv
  BY ResumeAssumption, BoundsAssumption, Resume!InitIInv
<1>2. Resume!IInv /\ [Resume!Next]_(Resume!vars) => Resume!IInv'
  BY ResumeAssumption, BoundsAssumption, Resume!StepIInv
<1> QED
  BY <1>1, <1>2 DEF Resume!IInv

(* Whatever system a behaviour starts with, its invariant holds. *)
LEMMA AllStart == Init => AllInv
<1> SUFFICES ASSUME Init PROVE AllInv
  OBVIOUS
<1>1. CASE system = "upgrade" /\ Upgrade!Init
  BY <1>1, UpgradeStarts DEF AllInv, In
<1>2. CASE system = "promotion" /\ Promotion!Init
  BY <1>2, PromotionStarts, OnceStarts DEF AllInv, In
<1>3. CASE system = "packs" /\ Packs!Init
  BY <1>3, PacksStart DEF AllInv, In
<1>4. CASE system = "integrations" /\ Integrations!Init
  BY <1>4, IntegrationsStart DEF AllInv, In
<1>5. CASE system = "locks" /\ Locks!Init
  BY <1>5, LocksStarts DEF AllInv, In
<1>6. CASE system = "stores" /\ Stores!Init
  BY <1>6, StoresStarts DEF AllInv, In
<1>7. CASE system = "references" /\ References!Init
  BY <1>7, ReferencesStart DEF AllInv, In
<1>8. CASE system = "resume" /\ Resume!Init
  BY <1>8, ResumeHolds DEF AllInv, In
<1> QED
  BY <1>1, <1>2, <1>3, <1>4, <1>5, <1>6, <1>7, <1>8 DEF Init, InitFiles

(* When nothing happens, every invariant stays. *)
LEMMA NothingHappens ==
  ASSUME UNCHANGED vars
  PROVE  AllInv => AllInv'
<1> USE DEF vars, filesVars, upgradeVars, managedVars, promotionVars, declarationVars
<1>1. UpgradeInv' <=> UpgradeInv
  BY DEF UpgradeInv, UpgradeSaved, Upgrade!Pending, Upgrade!Targets, Upgrade!NothingIsLost, UpgradeUntouched,
     UpgradeRecordsSound, Upgrade!Incomplete, Upgrade!Empty, UpgradeTyped, UpgradeOnRecord, Upgrade!Committed
<1>2. PromotionInv /\ PromotionOnce => (PromotionInv /\ PromotionOnce)'
  <2>1. PromotionTyped' <=> PromotionTyped
    BY DEF PromotionTyped
  <2>2. (Planned' <=> Planned) /\ (PromotionPlan' <=> PromotionPlan) /\ (PromotionApproved' <=> PromotionApproved)
    BY DEF PromotionPlan, PromotionApproved, Planned, Promotion!Left
  <2>3. Changed' = Changed /\ Promotion!NextDomain' = Promotion!NextDomain
    BY DEF Changed, Promotion!NextDomain, Promotion!Left
  <2>4. (PromotionTexts' <=> PromotionTexts) /\ (PromotionWhole' <=> PromotionWhole)
    BY <2>2, <2>3 DEF PromotionTexts, PromotionWhole
  <2>5. (Promotion!PromotedStays' <=> Promotion!PromotedStays) /\ (PromotionOnce' <=> PromotionOnce)
    BY <2>2 DEF Promotion!PromotedStays, PromotionOnce, Promotion!NotTwice
  <2> QED
    BY <2>1, <2>2, <2>4, <2>5 DEF PromotionInv
<1>3. PacksInv' <=> PacksInv
  BY DEF PacksInv, PacksBytes, PacksRemoval, PacksWritten, PacksTyped, PacksCall, Packs!NothingOrphaned
<1>4. IntegrationsInv' <=> IntegrationsInv
  BY DEF IntegrationsInv, IntegrationsWritten, IntegrationsDeleted, IntegrationsTyped, IntegrationsCall, IntegrationsPlanned, Unmanaged,
     Integrations!Managed, IntegrationsCommitted, IntegrationsBytes
<1>5. LocksInv' <=> LocksInv
  BY DEF LocksInv, LocksTyped, FileOf, LocksGuard, Locks!NothingLost
<1>6. StoresInv' <=> StoresInv
  BY DEF StoresInv, StoresMade, StoresTyped, PartOf, FileOf, StoresRaces
<1>7. Resume!IInv => Resume!IInv'
  <2>1. UNCHANGED Resume!vars
    BY DEF resumeVars, Resume!vars, Resume!ledger
  <2> QED
    BY <2>1, ResumeHolds
<1>8. ReferencesInv => ReferencesInv'
  <2> SUFFICES ASSUME ReferencesInv
               PROVE  ReferencesInv'
    OBVIOUS
  <2>1. Elsewhere
    BY DEF Elsewhere, ReferencesInv, ReferencesTyped, References!Changes, References!Regains, DiskTyped
  <2>2. ReferencesMade'
    BY DEF ReferencesInv, ReferencesMade, Alone, Opened, References!Place, References!SameStore, References!Loads,
           References!Loaded, References!Wanted
  <2> QED
    BY <2>1, <2>2, ElsewhereHolds
<1> QED
  BY <1>1, <1>2, <1>3, <1>4, <1>5, <1>6, <1>7, <1>8 DEF AllInv, In

(* The step of a system keeps its invariant and what it promises. *)
LEMMA AllSteps ==
  ASSUME AllInv, Next
  PROVE  /\ AllInv' /\ system' = system
         /\ In("upgrade") => UpgradeGoal
         /\ In("promotion") => PromotionGoal
         /\ In("packs") => PacksGoal
         /\ In("integrations") => IntegrationsGoal
         /\ In("locks") => LocksInv'
         /\ In("stores") => StoresInv' /\ Stores!LostToARacer
<1>1. system' = system
  BY DEF Next, NextFiles, NextUpgrade, NextPromotion, NextPacks, NextIntegrations, NextDeclaration, NextStores,
         NextResume
<1> USE DEF Next, NextFiles, NextUpgrade, NextPromotion, NextPacks, NextIntegrations, NextDeclaration, NextStores,
            NextResume, AllInv, In
<1>2. CASE system = "upgrade"
  <2>1. UpgradeGoal
    BY <1>2, UpgradeSteps
  <2> QED
    BY <1>1, <1>2, <2>1 DEF UpgradeGoal
<1>3. CASE system = "promotion"
  <2>1. PromotionGoal /\ PromotionOnce'
    BY <1>3, PromotionSteps, OnceSteps
  <2> QED
    BY <1>1, <1>3, <2>1 DEF PromotionGoal
<1>4. CASE system = "packs"
  <2>1. PacksGoal
    BY <1>4, PacksSteps
  <2> QED
    BY <1>1, <1>4, <2>1 DEF PacksGoal
<1>5. CASE system = "integrations"
  <2>1. IntegrationsGoal
    BY <1>5, IntegrationsSteps
  <2> QED
    BY <1>1, <1>5, <2>1 DEF IntegrationsGoal
<1>6. CASE system = "locks"
  BY <1>1, <1>6, LocksSteps
<1>7. CASE system = "stores"
  BY <1>1, <1>7, StoresSteps
<1>8. CASE system = "resume"
  <2>1. Resume!IInv'
    BY <1>8, ResumeHolds
  <2> QED
    BY <1>1, <1>8, <2>1
<1>9. CASE system = "references"
  <2>1. ReferencesInv'
    BY <1>9, ReferencesSteps
  <2> QED
    BY <1>1, <1>9, <2>1
<1> QED
  BY <1>2, <1>3, <1>4, <1>5, <1>6, <1>7, <1>8, <1>9

(* The invariant of the system that is there holds always. *)
LEMMA AllInvariant == Spec => []AllInv
<1>1. AllInv /\ [Next]_vars => AllInv'
  BY AllSteps, NothingHappens
<1> QED
  BY <1>1, AllStart, PTL DEF Spec

(* Whatever died where can be taken up again, and every state is of the    *)
(* types that the next call expects: bytes that an upgrade replaced are in *)
(* its backups, one upgrade is incomplete at most, no byte of a pack is    *)
(* orphaned, and an interrupted integration is admitted by the same call.  *)
THEOREM CanAlwaysBeTakenUp == Spec => []CanBeTakenUp
<1>1. AllInv => CanBeTakenUp
  BY UpgradeIsSafe, PromotionIsSafe, PacksAreSafe, IntegrationsAreSafe, LocksAreSafe, StoresAreSafe, ReferencesAreSafe,
     ResumeHolds DEF AllInv, CanBeTakenUp, TypeOK, In
<1> QED
  BY <1>1, AllInvariant, PTL

(* What is in the current truth is archived, being promoted, or named as   *)
(* left behind by a call that died or could not put it back, and no change *)
(* is rendered into a text that holds it; what is archived stays in all    *)
(* its domains, no target belongs to two integrations; what is read of a   *)
(* store was there at one moment and is what is bound, the latest version  *)
(* is one that no locked layer forbids, and of two that create a store one *)
(* makes it: for any stores, declarations, registries, edits, crashes and  *)
(* failures.                                                               *)
THEOREM AlwaysWholeAndOwned == Spec => []WholeAndOwned
<1>1. AllInv => WholeAndOwned
  BY PromotionIsSafe, IntegrationsAreSafe, ReferencesAreSafe DEF AllInv, WholeAndOwned, In
<1> QED
  BY <1>1, AllInvariant, PTL

(* Receipts of upgrades, install states of packs and integrations say what *)
(* is on disk when they are written, and what is promoted was approved as  *)
(* it is, for any files, packs, people and crashes.                        *)
THEOREM RecordsAreAlwaysTrue == Spec => RecordsAreTrue
<1>1. AllInv /\ [Next]_vars =>
        [/\ In("upgrade") => Upgrade!ReceiptTrue
         /\ In("packs") => Packs!RecordIsTrue
         /\ In("integrations") => Integrations!RecordIsTrue
         /\ In("promotion") => Promotion!WasApproved]_vars
  BY AllSteps DEF UpgradeGoal, PacksGoal, IntegrationsGoal, PromotionGoal
<1> QED
  BY <1>1, AllInvariant, PTL DEF Spec, RecordsAreTrue

(* What people wrote is not overwritten, however calls, edits and crashes  *)
(* take turns; writers of the pack lock lose nothing of each other, and a  *)
(* registration of a store is lost only to a racer.                        *)
THEOREM OwnBytesAlwaysStay == Spec => OwnBytesStay
<1>1. AllInv /\ [Next]_vars =>
        [/\ In("upgrade") => Upgrade!KeepsOwn
         /\ In("packs") => Packs!KeepsOwn
         /\ In("integrations") => Integrations!KeepsOwn
         /\ In("promotion") => Promotion!KeepsEdits
         /\ In("locks") => Locks!NothingLost'
         /\ In("stores") => Stores!LostToARacer]_vars
  BY AllSteps DEF UpgradeGoal, PacksGoal, IntegrationsGoal, PromotionGoal, LocksInv
<1> QED
  BY <1>1, AllInvariant, PTL DEF Spec, OwnBytesStay
=============================================================================
