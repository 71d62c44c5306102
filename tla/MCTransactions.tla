---------------------------- MODULE MCTransactions ----------------------------
(***************************************************************************)
(* What the framework replaces on disk in several steps, for TLC.  A       *)
(* behaviour is one of a system chosen in its first state: upgrades of the *)
(* scaffold, promotion of specification changes, packs, integrations, the  *)
(* pack lock (locks) or the declaration of stores (stores), and the stores *)
(* that are created, and read while people edit them (references).  One    *)
(* more (resume) asks of interrupted execution runs what is asked of all   *)
(* these: are they finished when somebody calls again?                     *)
(***************************************************************************)
EXTENDS Integers, Sequences, FiniteSets, TLC

CONSTANTS
  UpgradeFiles, UpgradeRecords,                              \* of upgrades
  Feature, Person, Domains, Touches, MinApprovals, Revisions, \* of promotion
  Pack, PackFile, PackOffers,                                \* of packs
  Integration, Target, IntegrationOffers,                    \* of integrations
  Contents,                                                  \* of both
  LockWriter, StoreWriter,                                   \* of locks and stores
  StorePart, StoreRootOf, StoreMetadata, StoreDeltas, StoreDocument, StoreManifests, StoreDeclarations,
  StoreWithin, StoreCalls, StoreDisks, StoreEdits, StoreCreates,   \* of references
  Task, NoTask, Source, Digest, RunCommit, NoCommit,            \* of resumed runs
  Resumer, Priors, RunRequests, MaxTries,
  Troubles, FewTroubles                                      \* bounds of all

(* Paths are numbers, in their order; a snapshot of a pack and what an      *)
(* integration projects are bytes for some of them; the writers of a file  *)
(* are told from nobody by their numbers.                                  *)
ASSUME UpgradeAssumption == UpgradeFiles \in Nat /\ UpgradeRecords \in Nat
ASSUME BoundsAssumption == Troubles \in Nat /\ FewTroubles \in Nat /\ Contents \in Nat
ASSUME PackAssumption ==
  /\ PackFile \subseteq Nat /\ Pack # {}
  /\ \A c \in Pack : PackOffers[c] \subseteq UNION {[F -> 1 .. Contents] : F \in (SUBSET PackFile) \ {{}}}
ASSUME IntegrationAssumption ==
  /\ Target \subseteq Nat /\ Integration # {}
  /\ \A i \in Integration :
       IntegrationOffers[i] \subseteq UNION {[F -> 1 .. Contents] : F \in SUBSET Target}
ASSUME PromotionAssumption ==
  /\ Feature # {} /\ IsFiniteSet(Person) /\ Domains \in Nat /\ MinApprovals \in Nat /\ Revisions \in Nat \ {0}
  /\ \A f \in Feature : Touches[f] \subseteq 1 .. Domains
ASSUME WriterAssumption == 0 \notin LockWriter /\ 0 \notin StoreWriter

VARIABLES system, p, trouble, disk, touched, edited, records, journal, installed, desired,
  spec, work, approvals, allowed, archive, lock, said, half, file, guard, done, racers,
  st, order, attempt, dispatch, issued, ckpt, files, git, rs, foreign

upgradeVars == <<records>>
managedVars == <<journal, installed>>
promotionVars == <<spec, work, approvals, allowed, archive, lock, said, half>>
declarationVars == <<file, guard, done, racers>>
resumeVars == <<st, order, attempt, dispatch, issued, ckpt, files, git, rs, foreign>>
filesVars == <<p, trouble, disk, touched, edited, upgradeVars, managedVars, desired,
               promotionVars, declarationVars>>
vars == <<system, filesVars, resumeVars>>

Upgrade == INSTANCE Migration WITH
  Files <- UpgradeFiles, MaxRecords <- UpgradeRecords, MaxTrouble <- Troubles

Promotion == INSTANCE SpecPromotion WITH
  Feature <- Feature, Person <- Person, Domains <- Domains, Touches <- Touches,
  MinApprovals <- MinApprovals, MaxRevision <- Revisions, MaxTrouble <- FewTroubles

Packs == INSTANCE PackLifecycle WITH
  Pack <- Pack, File <- PackFile, Contents <- Contents, MaxTrouble <- Troubles, Offers <- PackOffers

Integrations == INSTANCE IntegrationMaterialization WITH
  Id <- Integration, File <- Target, Contents <- Contents, MaxTrouble <- Troubles,
  Offers <- IntegrationOffers

Locks == INSTANCE DeclarationWrites WITH
  Writer <- LockWriter, Guarded <- TRUE, MaxTrouble <- Troubles
Stores == INSTANCE DeclarationWrites WITH
  Writer <- StoreWriter, Guarded <- FALSE, MaxTrouble <- FewTroubles

(* For TLC: the second domain is of both changes; one pack has two         *)
(* snapshots of the same paths and one of another version; and both        *)
(* integrations may project to the third target.                           *)
MCTouches == <<{1, 2}, {2}>>
MCPackOffers == <<{<<1, 1>>, <<2, 1>>, 3 :> 1}, {4 :> 1}>>
MCIntegrationOffers == <<{<<1, 1>>, <<2, 1>>, 3 :> 1}, {3 :> 1}>>

(* Interrupted runs, taken up by resumers whose calls are not cut short,   *)
(* while workers and people come between; for TLC those of                 *)
(* MCExecutionResume.                                                      *)
Runs == INSTANCE MCExecutionResume WITH
  t1 <- 1, t2 <- 2, s1 <- "s1", d1 <- "d1", d2 <- "d2", c1 <- "c1", r1 <- 1, r2 <- 2,
  NoTask <- NoTask, Task <- Task, Source <- Source, Digest <- Digest,
  NoCommit <- NoCommit, Commit <- RunCommit, Contract <- {}, Recorded <- {},
  Resumer <- Resumer, Priors <- {}, Requests <- {},
  MaxTries <- MaxTries, MayCrash <- FALSE, MaxForeign <- FewTroubles
MCPriors == Runs!MCPriors
MCRequests == Runs!MCRequests
Resume == INSTANCE ExecutionResumeProofs WITH
  NoTask <- NoTask, Task <- Task, Source <- Source, Digest <- Digest,
  NoCommit <- NoCommit, Commit <- RunCommit, Contract <- {}, Recorded <- {},
  Resumer <- Resumer, Priors <- Priors, Requests <- RunRequests,
  MaxTries <- MaxTries, MayCrash <- FALSE, MaxForeign <- FewTroubles

(* What resume_execution finds is the outcome of a log of legal events.    *)
ASSUME ResumeAssumption ==
  /\ NoTask \notin Task /\ NoCommit \notin RunCommit /\ MaxTries \in Nat \ {0}
  /\ Resume!Wellformed(RunRequests) /\ \A e \in RunRequests : e.kind # "task.dispatch_reserved"
  /\ \A run \in Priors :
       /\ run \in [st : Resume!State, order : Seq(Task)] /\ run.st.last > 0 /\ run.st.run # "new"
       /\ \A n \in DOMAIN run.order : run.st.tasks[run.order[n]].status # "absent"
       /\ \A m, n \in DOMAIN run.order : run.order[m] = run.order[n] => m = n

(* Stores of specifications: "a" and "c" hold versions of one store, "b"   *)
(* another one, and "a/in" lies inside of "a"; or two create one store at  *)
(* "n", where nothing is, or another store.                                *)
MCBoth == <<"changes", "current">>
MCManifest(id, version, precedence, roots, text) ==
  [id |-> id, version |-> version, precedence |-> precedence, roots |-> roots,
   capabilities |-> {"changes", "current"}, text |-> text]
MCManifests == <<MCManifest("ids", "1", 1, MCBoth, 1), MCManifest("ids", "1", 1, MCBoth, 1),
                 MCManifest("ids", "1", 1, MCBoth, 2), MCManifest("ids", "2", 2, MCBoth, 1),
                 MCManifest("ids", "2+b", 2, MCBoth, 1), MCManifest("pay", "1", 1, <<"current">>, 1)>>
MCReference(id, version, at, bound) == [id |-> id, version |-> version, at |-> at, bound |-> bound]
MCDeclarations == <<
  <<MCReference("ids", "1", "a", {}), MCReference("pay", "1", "b", {})>>,
  <<MCReference("pay", "1", "b", {})>>,
  <<MCReference("ids", "1", "a", {[manifest |-> MCManifests[1], bytes |-> 1,
                                   files |-> {<<1, 1>>, <<2, 1>>, <<4, 1>>}]})>>,
  <<MCReference("ids", "1", "a", {}), MCReference("ids", "2", "c", {})>>,
  <<MCReference("ids", "1", "a", {}), MCReference("ids", "2", "a/in", {})>>,
  <<MCReference("ids", "1", "n", {})>>>>
MCStore(manifest, parts) ==
  [made |-> {"root", "changes", "current", "meta"}, manifest |-> manifest, files |-> parts]
MCDisk == ("a" :> MCStore(1, <<1, 1, 0, 1>>)) @@ ("b" :> MCStore(6, <<0, 0, 0, 1>>))
          @@ ("c" :> MCStore(4, <<0, 0, 0, 1>>)) @@ ("a/in" :> MCStore(4, <<0, 0, 0, 0>>))
MCSource(layer, at, locked) == [layer |-> layer, at |-> at, locked |-> locked]
MCCall(kind, id, version, registry) == [kind |-> kind, id |-> id, version |-> version, registry |-> registry]
MCCalls == <<
  MCCall("context", "", "", <<>>), MCCall("doctor", "", "", <<>>),
  MCCall("change", "ids", "1", <<>>), MCCall("current", "pay", "", <<>>),
  MCCall("context", "ids", "", <<MCSource(0, "a", FALSE), MCSource(1, "b", TRUE)>>),
  MCCall("latest", "ids", "", <<MCSource(0, "a", FALSE), MCSource(2, "c", FALSE)>>),
  MCCall("latest", "ids", "", <<MCSource(0, "a", TRUE), MCSource(2, "c", FALSE)>>),
  MCCall("latest", "ids", "", <<MCSource(0, "c", FALSE), MCSource(1, "a", TRUE)>>)>>
MCEdits == {[at |-> "", part |-> 0, to |-> 3], [at |-> "a", part |-> 0, to |-> 2],
            [at |-> "a", part |-> 1, to |-> 2], [at |-> "a", part |-> 1, to |-> 1], [at |-> "a", part |-> 2, to |-> 2],
            [at |-> "a", part |-> 3, to |-> 1], [at |-> "c", part |-> 0, to |-> 5]}
MCRoots == <<"changes", "changes", "changes", "current">>
MCNowhere == "n" :> [made |-> {}, manifest |-> 0, files |-> <<0, 0, 0, 0>>]
MCCreates == <<[at |-> "n", manifest |-> 1], [at |-> "n", manifest |-> 1]>>
MCDisks == {MCDisk, MCNowhere, "n" :> MCStore(3, <<0, 0, 0, 0>>)}
MCWithin == {<<"a/in", "a">>}

References == INSTANCE SpecificationStores WITH
  Part <- StorePart, RootOf <- StoreRootOf, Metadata <- StoreMetadata, Deltas <- StoreDeltas,
  Document <- StoreDocument, Manifests <- StoreManifests, Declarations <- StoreDeclarations,
  Within <- StoreWithin, Calls <- StoreCalls, Disks <- StoreDisks, Edits <- StoreEdits,
  Creates <- StoreCreates, MaxTrouble <- Troubles

(* A manifest's roots have different paths, a declaration names a store,   *)
(* and change.yaml is none of the deltas that people may write.            *)
StoreManifest == References!Range(StoreManifests)
StoreFiles == StorePart \X (Nat \ {0})
StoreDirectory ==
  [made : SUBSET {"root", "changes", "current", "meta"}, manifest : -1 .. Len(StoreManifests),
   files : [StorePart -> Nat]]
StoreSnapshot ==
  [manifest : StoreManifest, bytes : -1 .. Len(StoreManifests), files : SUBSET StoreFiles]
StoreReference == [id : STRING, version : STRING, at : STRING, bound : SUBSET StoreSnapshot]
StoreSource == [layer : Nat, at : STRING, locked : BOOLEAN]
StoreCall == [kind : STRING, id : STRING, version : STRING, registry : Seq(StoreSource)]
ASSUME StoreAssumption ==
  StorePart \subseteq Nat \ {0} /\ StoreMetadata # StoreDocument /\ StoreDeltas \subseteq StorePart
ASSUME ManifestAssumption ==
  /\ Len(StoreManifests) \in Nat /\ DOMAIN StoreManifests = 1 .. Len(StoreManifests)
  /\ \A m \in DOMAIN StoreManifests :
       /\ StoreManifests[m].roots \in Seq(STRING) /\ StoreManifests[m].precedence \in Int
       /\ \A i, j \in DOMAIN StoreManifests[m].roots :
            StoreManifests[m].roots[i] = StoreManifests[m].roots[j] => i = j
  /\ \A c \in DOMAIN StoreCreates : StoreCreates[c].manifest \in DOMAIN StoreManifests
ASSUME DeclarationAssumption == StoreDeclarations \in Seq(Seq(StoreReference) \ {<<>>})
ASSUME CallAssumption == StoreCalls \in Seq(StoreCall)
ASSUME DiskAssumption == \A D \in StoreDisks : D \in [DOMAIN D -> StoreDirectory] /\ "" \notin DOMAIN D
ASSUME EditAssumption ==
  \A e \in StoreEdits :
    IF e.at = "" THEN e.to \in -1 .. Len(StoreDeclarations)
    ELSE IF e.part = 0 THEN e.to \in -1 .. Len(StoreManifests) ELSE e.part \in StorePart /\ e.to \in Nat

Unused(v) == v = <<>>
NoUpgrade == Unused(records)
NoManaged == Unused(journal) /\ Unused(installed)
NoFiles == Unused(disk) /\ Unused(touched)
NoPromotion ==
  /\ Unused(spec) /\ Unused(work) /\ Unused(approvals) /\ Unused(allowed)
  /\ Unused(archive) /\ Unused(lock) /\ Unused(said) /\ Unused(half)
NoDeclaration == Unused(file) /\ Unused(guard) /\ Unused(done) /\ Unused(racers)
NoStores ==
  /\ Unused(desired) /\ Unused(spec) /\ Unused(approvals) /\ Unused(allowed) /\ Unused(archive)
  /\ Unused(lock) /\ Unused(half) /\ Unused(guard) /\ Unused(done) /\ Unused(racers)
NoResume ==
  /\ Unused(st) /\ Unused(order) /\ Unused(attempt) /\ Unused(dispatch) /\ Unused(issued)
  /\ Unused(ckpt) /\ Unused(files) /\ Unused(git) /\ Unused(rs) /\ Unused(foreign)

InitFiles ==
  \/ /\ system = "upgrade" /\ Upgrade!Init
     /\ NoManaged /\ Unused(desired) /\ Unused(edited) /\ NoPromotion /\ NoDeclaration
  \/ /\ system = "promotion" /\ Promotion!Init
     /\ NoUpgrade /\ NoManaged /\ NoFiles /\ Unused(desired) /\ Unused(edited) /\ NoDeclaration
  \/ /\ system = "packs" /\ Packs!Init
     /\ NoUpgrade /\ Unused(desired) /\ NoPromotion /\ NoDeclaration
  \/ /\ system = "integrations" /\ Integrations!Init
     /\ NoUpgrade /\ NoPromotion /\ NoDeclaration
  \/ /\ \/ system = "locks" /\ Locks!Init
        \/ system = "stores" /\ Stores!Init
     /\ NoUpgrade /\ NoManaged /\ NoFiles /\ Unused(desired) /\ NoPromotion
  \/ /\ system = "references" /\ References!Init
     /\ NoUpgrade /\ NoManaged /\ NoStores

Init ==
  \/ InitFiles /\ NoResume
  \/ /\ system = "resume" /\ Resume!Init
     /\ Unused(p) /\ Unused(trouble) /\ NoFiles /\ Unused(edited) /\ NoUpgrade
     /\ NoManaged /\ Unused(desired) /\ NoPromotion /\ NoDeclaration

NextUpgrade ==
  /\ system = "upgrade" /\ Upgrade!Next
  /\ UNCHANGED <<system, edited, managedVars, desired, promotionVars, declarationVars>>
NextPromotion ==
  /\ system = "promotion" /\ Promotion!Next
  /\ UNCHANGED <<system, disk, touched, edited, upgradeVars, managedVars, desired, declarationVars>>
NextPacks ==
  /\ system = "packs" /\ Packs!Next
  /\ UNCHANGED <<system, upgradeVars, desired, promotionVars, declarationVars>>
NextIntegrations ==
  /\ system = "integrations" /\ Integrations!Next
  /\ UNCHANGED <<system, upgradeVars, promotionVars, declarationVars>>
NextDeclaration ==
  /\ \/ system = "locks" /\ Locks!Next
     \/ system = "stores" /\ Stores!Next
  /\ UNCHANGED <<system, disk, touched, upgradeVars, managedVars, desired, promotionVars>>

NextStores ==
  /\ system = "references" /\ References!Next
  /\ UNCHANGED <<system, upgradeVars, managedVars, desired, spec, approvals, allowed, archive, lock,
                 half, guard, done, racers>>

NextFiles ==
  NextUpgrade \/ NextPromotion \/ NextPacks \/ NextIntegrations \/ NextDeclaration \/ NextStores
NextResume == system = "resume" /\ Resume!Next /\ UNCHANGED <<system, filesVars>>

Next == (NextFiles /\ UNCHANGED resumeVars) \/ NextResume

Spec == Init /\ [][Next]_vars

(* The fairness of the modules, each for its system.                       *)
FairUpgrade == system = "upgrade" /\ Upgrade!Apply /\ UNCHANGED <<system, edited, managedVars, desired, promotionVars, declarationVars, resumeVars>>
FairRollback == system = "upgrade" /\ (Upgrade!Rollback \/ Upgrade!RollbackReceipt) /\ UNCHANGED <<system, edited, managedVars, desired, promotionVars, declarationVars, resumeVars>>
FairRetry ==
  \/ system = "packs" /\ Packs!Retry /\ UNCHANGED <<system, upgradeVars, desired, promotionVars, declarationVars, resumeVars>>
  \/ system = "integrations" /\ Integrations!RetryThat /\ UNCHANGED <<system, upgradeVars, promotionVars, declarationVars, resumeVars>>
FairCall ==
  \/ system = "packs" /\ Packs!Goes /\ UNCHANGED <<system, upgradeVars, desired, promotionVars, declarationVars, resumeVars>>
  \/ system = "integrations" /\ Integrations!Goes /\ UNCHANGED <<system, upgradeVars, promotionVars, declarationVars, resumeVars>>

FairSpec ==
  /\ Spec /\ WF_vars(FairUpgrade) /\ WF_vars(FairRollback) /\ WF_vars(FairRetry) /\ WF_vars(FairCall)
  /\ \A r \in Resumer :
       /\ WF_vars(system = "resume" /\ Resume!Call(r) /\ UNCHANGED <<system, filesVars>>)
       /\ WF_vars(system = "resume" /\ Resume!Step(r) /\ UNCHANGED <<system, filesVars>>)
-----------------------------------------------------------------------------
(* The properties of the modules, each for the systems it is about.        *)
In(name) == system = name

TypeOK ==
  /\ In("upgrade") => Upgrade!TypeOK
  /\ In("promotion") => Promotion!TypeOK
  /\ In("packs") => Packs!TypeOK
  /\ In("integrations") => Integrations!TypeOK
  /\ In("locks") => Locks!TypeOK
  /\ In("stores") => Stores!TypeOK
  /\ In("references") => References!TypeOK
  /\ In("resume") => Resume!TypeOK

(* Whatever died where can be taken up again: it is of the types that the  *)
(* next call expects, bytes that an upgrade replaced are in its backups,   *)
(* at most one upgrade is incomplete and none has two ends, every byte     *)
(* that packs brought belongs to a pack or to the journal, and an          *)
(* interrupted integration is admitted by the same call.                   *)
CanBeTakenUp ==
  /\ TypeOK
  /\ In("upgrade") => Upgrade!NothingIsLost /\ Upgrade!OneAtATime
  /\ In("packs") => Packs!NothingOrphaned
  /\ In("integrations") => Integrations!CanBeFinished

(* A change is promoted as a whole and stays in all its domains, or a      *)
(* promotion that died or could not undo it has left it in some, on top of *)
(* which it is not promoted again; no target belongs to two integrations;  *)
(* a store is read as it was at one moment, and is made by one.            *)
WholeAndOwned ==
  /\ In("promotion") => Promotion!NoHalfPromotion /\ Promotion!NotTwice /\ Promotion!PromotedStays
  /\ In("integrations") => Integrations!OneOwner
  /\ In("references") =>
       /\ References!WasThere /\ References!ReadsWhatIsBound /\ References!LatestIsAuthorized
       /\ References!OneIsMade

(* What is recorded is true when it is written: receipts of upgrades,      *)
(* install states of packs and integrations; and nothing comes into the    *)
(* current truth that was not approved as it is.                           *)
RecordsAreTrue ==
  [][/\ In("upgrade") => Upgrade!ReceiptTrue
     /\ In("packs") => Packs!RecordIsTrue
     /\ In("integrations") => Integrations!RecordIsTrue
     /\ In("promotion") => Promotion!WasApproved]_vars

(* What people wrote is not overwritten, not even after crashes; writers   *)
(* of the pack lock lose nothing of each other, and a registration of a    *)
(* store that was reported is lost only to a process that had passed its   *)
(* last comparison.                                                        *)
OwnBytesStay ==
  [][/\ In("upgrade") => Upgrade!KeepsOwn
     /\ In("packs") => Packs!KeepsOwn
     /\ In("integrations") => Integrations!KeepsOwn
     /\ In("promotion") => Promotion!KeepsEdits
     /\ In("locks") => Locks!NothingLost'
     /\ In("stores") => Stores!LostToARacer]_vars

(* Nothing of an upgrade, of packs or of integrations is interrupted, or   *)
(* what is can only be finished by people, for the reasons that the        *)
(* modules name: their own bytes are in its way, sources were changed, a   *)
(* pack that is linked again is half written, or a record is unclear.      *)
Settled ==
  /\ In("upgrade") => Upgrade!Settled
  /\ In("packs") => Packs!Settled
  /\ In("integrations") => Integrations!Settled
Resumable == In("resume") /\ Resume!Resumable
Dispatched ==
  In("resume") => st.run = "active" /\ \A t \in Resume!Due : dispatch[t] # Resume!NoId
(* What was interrupted is finished when it is called again, but for those *)
(* reasons, and a call that is in progress ends; an execution run that     *)
(* stays resumable is made active, and its first unfinished task gets a    *)
(* dispatch id.                                                            *)
InterruptedIsFinished ==
  /\ []<>Settled
  /\ <>[]Resumable => <>[]Dispatched
=============================================================================
