-------------------------- MODULE SpecificationStores --------------------------
(***************************************************************************)
(* The stores of specifications that a project refers to: directories      *)
(* outside of any lock that people edit while a process resolves the       *)
(* references, inspects the stores and reads specifications out of them    *)
(* (specification_store_references.py, specification_store_lifecycle.py),  *)
(* the registry of stores over the layers of an organisation               *)
(* (specification_stores.py), and the creation of a store.                 *)
(*                                                                         *)
(* A manifest and a declaration are known by their bytes, a number; 0 is   *)
(* no file, -1 a file that cannot be loaded.  The canonical content of a   *)
(* manifest is a record, so that two numbers may stand for one content.    *)
(* A file's hash is its content: the comparison of the file's state before *)
(* and after its bytes are read makes that read one step.                  *)
(***************************************************************************)
EXTENDS Integers, Sequences, FiniteSets

CONSTANTS
  Part,          \* files that a store may have: numbers, in the order of a walk
  RootOf,        \* the root that each lies under, "changes" or "current"
  Metadata,      \* the part that is change.yaml of the change that is read
  Deltas,        \* the parts that are its deltas
  Document,      \* the part that is the current specification that is read
  Manifests,     \* by bytes: [id, version, precedence, roots, capabilities, text]
  Declarations,  \* by bytes: sequences of [id, version, at, bound]
  Within,        \* pairs of directories, the first inside of the second
  Calls,         \* what a process asks: [kind, id, version, registry], the registry
                 \* by its sources [layer, at, locked], in the order of the layers
  Disks,         \* what the directories that there may be hold at first
  Edits,         \* what people do: [at, part, to]; part 0 is the manifest, at "" the declaration
  Creates,       \* the stores that are created: sequence of [at, manifest]
  MaxTrouble     \* bound: edits and crashes

VARIABLES
  disk,     \* of each directory: the directories made in it, manifest and files
  file,     \* bytes of the project's declaration
  p,        \* the process that resolves and reads: where it is and what it has
  work,     \* where each creation of a store is
  said,     \* the answer of the last call that succeeded, or none
  touched,  \* history: the declaration and the disk at every moment of the call
  edited,   \* history: something got a content back that it had during the call
  trouble   \* edits and crashes so far

vars == <<disk, file, p, work, said, touched, edited, trouble>>

Range(s) == {s[i] : i \in DOMAIN s}
Creator == DOMAIN Creates
Any == ""
Empty == [before |-> 0, roots |-> <<>>, todo |-> {}, got |-> {}]
Idle == [pc |-> "idle", call |-> 0, registry |-> {}, i |-> 0, from |-> 0, refs |-> <<>>,
         manifest |-> [id |-> Any], scan |-> Empty, first |-> {}, resolved |-> <<>>, then |-> "bind", found |-> {}]
Nothing == [kind |-> "none", from |-> 0, stores |-> {}, found |-> {}]

TypeOK ==
  /\ file \in -1 .. Len(Declarations) /\ p.call \in 0 .. Len(Calls)
  /\ \A d \in DOMAIN disk :
       /\ disk[d].manifest \in -1 .. Len(Manifests)
       /\ disk[d].made \subseteq {"root", "changes", "current", "meta"}
  /\ \A s \in said.stores : s.snapshot.files \subseteq Part \X (Nat \ {0})
  /\ <<file, disk>> \in touched /\ edited \in BOOLEAN /\ trouble \in 0 .. MaxTrouble

Init ==
  /\ disk \in Disks /\ file \in 1 .. Len(Declarations)
  /\ p = Idle /\ said = Nothing /\ work = [c \in Creator |-> "look"]
  /\ touched = {<<file, disk>>} /\ edited = FALSE /\ trouble = 0

-----------------------------------------------------------------------------
(* What one load of a directory's manifest finds.                          *)

(* load_specification_store_manifest, with _validate_layout                *)
Loads(d) ==
  /\ d \in DOMAIN disk /\ disk[d].manifest > 0
  /\ Range(Manifests[disk[d].manifest].roots) \subseteq disk[d].made
Loaded(d) == Manifests[disk[d].manifest]

(* SpecificationStoreRegistry: one entry for a version and a layer, one    *)
(* content for a version in all layers, and no layer above a locked one.   *)
EveryLayer(entries) == TRUE   \* mutant: locks are not looked at
LocksHold(entries) ==
  \A locked \in entries : locked.locked =>
    ~\E above \in entries : above.manifest.id = locked.manifest.id /\ above.layer > locked.layer
SameVersion(a, b) == a.manifest.id = b.manifest.id /\ a.manifest.version = b.manifest.version
ValidRegistry(entries) ==
  /\ LocksHold(entries)
  /\ \A a, b \in entries : a # b /\ SameVersion(a, b) => a.layer # b.layer /\ a.manifest = b.manifest
ExactEntry(entries, id, version) ==
  LET exact == {e \in entries : e.manifest.id = id /\ e.manifest.version = version}
  IN  {e \in exact : \A other \in exact : other.layer <= e.layer}

(* SpecificationStoreRegistry.resolve without a version: the newest, if    *)
(* no variant of its build has the same precedence.                        *)
Newest(entries, id) ==
  LET mine == {e \in entries : e.manifest.id = id}
      best == {e \in mine : \A other \in mine : other.manifest.precedence <= e.manifest.precedence}
  IN  IF Cardinality({e.manifest.version : e \in best}) = 1
      THEN UNION {ExactEntry(entries, id, e.manifest.version) : e \in best} ELSE {}

-----------------------------------------------------------------------------
Here == p.resolved[p.i]
At == IF p.then = "bind" THEN p.refs[p.i].at ELSE Here.at
Asked == Calls[p.call]
Now == {<<file, disk>>}
Refuse == p' = Idle /\ UNCHANGED <<said, touched, edited>>
Go(to) == p' = to /\ UNCHANGED <<said, touched, edited>>
Looks == UNCHANGED <<disk, file, work, trouble>>
Answers(kind, stores, found, to) ==
  /\ said' = [kind |-> kind, from |-> p.from, stores |-> stores, found |-> found]
  /\ p' = to /\ UNCHANGED <<touched, edited>>

Begin ==
  /\ p.pc = "idle" /\ Looks
  /\ \E call \in DOMAIN Calls :
       p' = [Idle EXCEPT !.pc = IF Calls[call].registry = <<>> THEN "load" ELSE "sources",
                         !.call = call, !.i = 1]
  /\ said' = Nothing /\ touched' = Now /\ edited' = FALSE

(* build_specification_store_registry: the manifests are loaded one after  *)
(* another, and registered when all are.                                   *)
LoadSource ==
  /\ p.pc = "sources" /\ Looks
  /\ LET source == Asked.registry[p.i]
         entries == p.registry \cup {[layer |-> source.layer, locked |-> source.locked,
                                      source |-> p.i, manifest |-> Loaded(source.at)]}
     IN  IF ~Loads(source.at) THEN Refuse
         ELSE IF p.i < Len(Asked.registry) THEN Go([p EXCEPT !.registry = entries, !.i = @ + 1])
         ELSE IF ~ValidRegistry(entries) THEN Refuse
         ELSE Go([p EXCEPT !.registry = entries, !.pc = IF Asked.kind = "latest" THEN "latest" ELSE "load"])

Latest ==
  /\ p.pc = "latest" /\ Looks
  /\ LET newest == Newest(p.registry, Asked.id)
     IN  IF newest = {} THEN Refuse ELSE Answers("latest", {}, {<<e.source, p.registry>> : e \in newest}, Idle)

(* load_specification_store_references and _validate_root_overlaps         *)
Overlap(a, b) == a = b \/ <<a, b>> \in Within \/ <<b, a>> \in Within
Declared(refs) ==
  \A i, j \in DOMAIN refs : i # j =>
    /\ <<refs[i].id, refs[i].version>> # <<refs[j].id, refs[j].version>>
    /\ ~Overlap(refs[i].at, refs[j].at)
LoadDeclaration ==
  /\ p.pc = "load" /\ Looks
  /\ IF file < 1 THEN Refuse
     ELSE IF ~Declared(Declarations[file]) THEN Refuse
     ELSE Go([p EXCEPT !.pc = "manifest", !.from = file, !.refs = Declarations[file], !.i = 1])

(* resolve_specification_store_references, for one reference: the manifest *)
(* is the one that is named, and the one that the registry has.            *)
Expected(ref) ==
  /\ Loaded(ref.at).id = ref.id /\ Loaded(ref.at).version = ref.version
  /\ Asked.registry # <<>> =>
       \E e \in ExactEntry(p.registry, ref.id, ref.version) : e.manifest = Loaded(ref.at)
LoadManifest ==
  /\ p.pc = "manifest" /\ Looks
  /\ LET ref == p.refs[p.i]
     IN  IF ~Loads(ref.at) THEN Refuse
         ELSE IF ~Expected(ref) THEN Refuse
         ELSE Go([p EXCEPT !.pc = "before", !.manifest = Loaded(ref.at), !.first = {}])

(* verify_unchanged: the manifest first, then a new inspection.            *)
Reverify ==
  /\ p.pc = "verify" /\ Looks
  /\ IF ~Loads(Here.at) THEN Refuse
     ELSE IF Loaded(Here.at) # Here.manifest THEN Refuse
     ELSE Go([p EXCEPT !.pc = "before", !.manifest = Here.manifest, !.first = {}])

-----------------------------------------------------------------------------
(* _build_content_snapshot_once: the bytes of the manifest, every file of  *)
(* every root, and the manifest again.                                     *)
HashBefore ==
  /\ p.pc = "before" /\ Looks
  /\ IF disk[At].manifest = 0 THEN Refuse
     ELSE Go([p EXCEPT !.pc = "walk", !.scan = [Empty EXCEPT !.before = disk[At].manifest,
                                                             !.roots = p.manifest.roots]])

(* _scan_content_once: the files of a root are listed, then read in order. A *)
(* root is one directory here. os.walk lists a directory below a root when   *)
(* it comes to it, after the files above it were hashed, which is what a     *)
(* second root does in this model: its files are listed after those of the   *)
(* first were read.                                                          *)
First(parts) == CHOOSE x \in parts : \A y \in parts : x <= y
Present(d, root) == {x \in Part : RootOf[x] = root /\ disk[d].files[x] > 0}
Walk ==
  /\ p.pc = "walk" /\ p.scan.todo = {} /\ p.scan.roots # <<>> /\ Looks
  /\ Go([p EXCEPT !.scan.todo = Present(At, Head(p.scan.roots)), !.scan.roots = Tail(@)])
HashFile ==
  /\ p.pc = "walk" /\ p.scan.todo # {} /\ Looks
  /\ LET x == First(p.scan.todo)
     IN  IF disk[At].files[x] = 0 THEN Refuse
         ELSE Go([p EXCEPT !.scan.todo = @ \ {x}, !.scan.got = @ \cup {<<x, disk[At].files[x]>>}])
HashAfter ==
  /\ p.pc = "walk" /\ p.scan.todo = {} /\ p.scan.roots = <<>> /\ Looks
  /\ IF disk[At].manifest # p.scan.before THEN Refuse ELSE Go([p EXCEPT !.pc = "reload"])

(* _build_stable_content_snapshot: two inspections that found the same.    *)
OneScan(snapshot) == p.first \cup {snapshot}   \* mutant: the store is inspected once
Seen(snapshot) == p.first
Snapshot == [manifest |-> p.manifest, bytes |-> p.scan.before, files |-> p.scan.got]

(* What the inspection was for: a reference, or one more look at it.       *)
Bound(ref) == \A s \in ref.bound : s = Snapshot
Resolves ==
  LET ref == p.refs[p.i]
      resolved == Append(p.resolved, [at |-> ref.at, manifest |-> p.manifest, snapshot |-> Snapshot])
      done == [p EXCEPT !.resolved = resolved, !.scan = Empty, !.first = {}]
  IN  IF ~Bound(ref) THEN Refuse
      ELSE IF p.i < Len(p.refs)
      THEN Go([done EXCEPT !.pc = "manifest", !.i = @ + 1])
      ELSE Go([done EXCEPT !.pc = "declared"])
Verifies ==
  IF Snapshot # Here.snapshot THEN Refuse
  ELSE IF p.then = "doctor" /\ p.i < Len(p.resolved) THEN Go([p EXCEPT !.pc = "verify", !.i = @ + 1])
  ELSE IF p.then = "doctor" THEN Answers("doctor", Range(p.resolved), {}, Idle)
  ELSE IF p.then = "open" THEN Go([p EXCEPT !.pc = "read", !.found = {}])
  ELSE Answers("read", {Here}, p.found, [p EXCEPT !.pc = "held", !.found = {}, !.scan = Empty, !.first = {}])
Reload ==
  /\ p.pc = "reload" /\ Looks
  /\ IF ~Loads(At) THEN Refuse
     ELSE IF Loaded(At) # p.manifest THEN Refuse
     ELSE IF Seen(Snapshot) = {} THEN Go([p EXCEPT !.pc = "before", !.first = {Snapshot}])
     ELSE IF Seen(Snapshot) # {Snapshot} THEN Refuse
     ELSE IF p.then = "bind" THEN Resolves ELSE Verifies

-----------------------------------------------------------------------------
(* ResolvedSpecificationStoreReferences.get                                *)
Selected ==
  {i \in DOMAIN p.resolved :
     /\ Asked.id \in {Any, p.resolved[i].manifest.id}
     /\ Asked.version \in {Any, p.resolved[i].manifest.version}}
Capability == IF Asked.kind = "change" THEN "changes" ELSE "current"
Offers(i) ==
  /\ Capability \in p.resolved[i].manifest.capabilities
  /\ Capability \in Range(p.resolved[i].manifest.roots)
Opens(i) ==
  IF ~Offers(i) THEN Refuse
  ELSE Go([p EXCEPT !.pc = "verify", !.then = "open", !.i = i, !.scan = Empty, !.first = {}])

(* The declaration is still the one that was loaded; then the answer of    *)
(* list_stores and export_store_context, doctor_stores' second look, or a  *)
(* first read.                                                             *)
AnyDeclaration == TRUE   \* mutant: the declaration is not read again
SameDeclaration == file = p.from
Finish ==
  /\ p.pc = "declared" /\ Looks
  /\ IF ~SameDeclaration THEN Refuse
     ELSE IF Asked.kind = "doctor" THEN Go([p EXCEPT !.pc = "verify", !.then = "doctor", !.i = 1])
     ELSE IF Selected = {} \/ (Asked.id # Any /\ Cardinality(Selected) > 1) THEN Refuse
     ELSE IF Asked.kind = "context"
     THEN Answers("context", {p.resolved[i] : i \in Selected}, {}, Idle)
     ELSE \E i \in Selected : Opens(i)

(* A resolved reference may be kept and read from at any later time.       *)
Again ==
  /\ p.pc = "held" /\ Looks
  /\ \/ p' = Idle
     \/ p' = [p EXCEPT !.pc = "verify", !.then = "open"]
  /\ said' = Nothing /\ touched' = Now /\ edited' = FALSE

(* read_current and read_change: every file is compared with the hash that *)
(* the reference is bound to when its bytes are read, and the deltas that  *)
(* are found with those that are bound.                                    *)
AnyHash(x) == disk[Here.at].files[x] > 0   \* mutant: the file is read as it is
HasBoundHash(x) == <<x, disk[Here.at].files[x]>> \in Here.snapshot.files
Takes(x) == p.found \cup {<<x, disk[Here.at].files[x]>>}
Close == [p EXCEPT !.pc = "verify", !.then = "close", !.scan = Empty, !.first = {}]
ReadFirst ==
  /\ p.pc = "read" /\ Looks
  /\ LET x == IF Asked.kind = "change" THEN Metadata ELSE Document
     IN  IF ~HasBoundHash(x) THEN Refuse
         ELSE IF Asked.kind = "change" THEN Go([p EXCEPT !.pc = "deltas", !.found = Takes(x)])
         ELSE Go([Close EXCEPT !.found = Takes(x)])
BoundDeltas == {x \in Deltas : \E pair \in Here.snapshot.files : pair[1] = x}
ListDeltas ==
  /\ p.pc = "deltas" /\ Looks
  /\ LET there == {x \in Deltas : disk[Here.at].files[x] > 0}
     IN  IF there = {} \/ there # BoundDeltas THEN Refuse
         ELSE Go([p EXCEPT !.pc = "delta", !.scan.todo = there])
ReadDelta ==
  /\ p.pc = "delta" /\ Looks
  /\ LET x == First(p.scan.todo)
     IN  IF ~HasBoundHash(x) THEN Refuse
         ELSE IF p.scan.todo = {x} THEN Go([Close EXCEPT !.found = Takes(x)])
         ELSE Go([p EXCEPT !.scan.todo = @ \ {x}, !.found = Takes(x)])

-----------------------------------------------------------------------------
(* People, and create_store: what is there is looked at, then directories  *)
(* are made and the manifest is opened exclusively and filled.             *)
Regains ==
  \E t \in touched :
    \/ file' # file /\ t[1] = file'
    \/ \E d \in DOMAIN disk :
         \/ disk'[d].manifest # disk[d].manifest /\ t[2][d].manifest = disk'[d].manifest
         \/ \E x \in Part : disk'[d].files[x] # disk[d].files[x] /\ t[2][d].files[x] = disk'[d].files[x]
Changes ==
  touched' = touched \cup {<<file', disk'>>} /\ edited' = (edited \/ Regains) /\ UNCHANGED <<p, said>>
Trouble == trouble < MaxTrouble /\ trouble' = trouble + 1

Edit ==
  /\ Trouble /\ UNCHANGED work
  /\ \E e \in Edits :
       \/ e.at = "" /\ file # e.to /\ file' = e.to /\ UNCHANGED disk
       \/ /\ e.at \in DOMAIN disk /\ e.part = 0 /\ disk[e.at].manifest # e.to
          /\ disk' = [disk EXCEPT ![e.at].manifest = e.to] /\ UNCHANGED file
       \/ /\ e.at \in DOMAIN disk /\ e.part # 0 /\ disk[e.at].files[e.part] # e.to
          /\ disk' = [disk EXCEPT ![e.at].files[e.part] = e.to] /\ UNCHANGED file
  /\ Changes

To(c, pc) == work' = [work EXCEPT ![c] = pc]
Place(c) == Creates[c].at
Wanted(c) == Manifests[Creates[c].manifest]
IsEmpty(d) == disk[d].made \subseteq {"root"} /\ disk[d].manifest = 0

AnyStore(c) == Loads(Place(c))   \* mutant: the content of the store that is there is not compared
SameStore(c) == Loads(Place(c)) /\ Loaded(Place(c)) = Wanted(c)
Look(c) ==
  /\ work[c] = "look" /\ Place(c) \in DOMAIN disk /\ UNCHANGED <<disk, file, trouble, p, said, touched, edited>>
  /\ IF IsEmpty(Place(c)) THEN To(c, "root") ELSE IF SameStore(c) THEN To(c, "exists") ELSE To(c, "refused")

Making == <<"changes", "current", "meta">>
MakesNext(pc) == IF pc = "meta" THEN "open" ELSE IF pc = "current" THEN "meta" ELSE "current"
Make(c) ==
  /\ work[c] \in {"root"} \cup Range(Making) /\ UNCHANGED <<file, trouble>>
  /\ IF work[c] # "root" /\ work[c] \in disk[Place(c)].made
     THEN To(c, "refused") /\ UNCHANGED disk
     ELSE /\ disk' = [disk EXCEPT ![Place(c)].made = @ \cup {work[c]}]
          /\ To(c, IF work[c] = "root" THEN "changes" ELSE MakesNext(work[c]))
  /\ Changes
Write(c) ==
  /\ work[c] \in {"open", "fill"} /\ UNCHANGED <<file, trouble>>
  /\ IF work[c] = "open" /\ disk[Place(c)].manifest # 0
     THEN To(c, "refused") /\ UNCHANGED disk
     ELSE /\ disk' = [disk EXCEPT ![Place(c)].manifest =
                        IF work[c] = "open" THEN -1 ELSE Creates[c].manifest]
          /\ To(c, IF work[c] = "open" THEN "fill" ELSE "check")
  /\ Changes
CheckMade(c) ==
  /\ work[c] = "check" /\ UNCHANGED <<disk, file, trouble, p, said, touched, edited>>
  /\ To(c, IF Loads(Place(c)) /\ Loaded(Place(c)) = Wanted(c) THEN "created" ELSE "refused")
Die(c) ==
  /\ work[c] \notin {"look", "exists", "created", "refused"} /\ To(c, "refused") /\ Trouble
  /\ UNCHANGED <<disk, file, p, said, touched, edited>>

Step ==
  \/ LoadSource \/ Latest \/ LoadDeclaration \/ LoadManifest \/ Reverify \/ HashBefore \/ Walk
  \/ HashFile \/ HashAfter \/ Reload \/ Finish \/ Again \/ ReadFirst \/ ListDeltas \/ ReadDelta
Create(c) == Look(c) \/ Make(c) \/ Write(c) \/ CheckMade(c) \/ Die(c)
Next == Begin \/ Step \/ Edit \/ \E c \in Creator : Create(c)

Spec == Init /\ [][Next]_vars
-----------------------------------------------------------------------------
(* specification_store_references.py: what an answer says of a store was   *)
(* on disk at one moment of the call, all of it together and while the     *)
(* declaration named the store, and what was read is of that moment; if    *)
(* nothing was changed and changed back in the meantime.                   *)
WholeAt(d, s) ==
  /\ d.manifest = s.bytes /\ Manifests[d.manifest] = s.manifest
  /\ s.files = {<<x, d.files[x]>> : x \in {y \in Part : RootOf[y] \in Range(s.manifest.roots) /\ d.files[y] > 0}}
WasThere ==
  ~edited => \A s \in said.stores : \E t \in touched :
    /\ said.kind \in {"context", "doctor"} => t[1] = said.from
    /\ WholeAt(t[2][s.at], s.snapshot)
    /\ \A pair \in said.found : t[2][s.at].files[pair[1]] = pair[2]

(* specification_store_references.py: whatever comes and goes, what was    *)
(* read is the content that the reference was bound to, all deltas of it.  *)
ReadsWhatIsBound ==
  said.kind = "read" => \A s \in said.stores :
    /\ said.found \subseteq s.snapshot.files
    /\ Metadata \in {pair[1] : pair \in said.found} =>
         \A pair \in s.snapshot.files : pair[1] \in Deltas => pair \in said.found

(* specification_stores.py: no layer above a locked one says what the      *)
(* latest version of a store is, and no other version is as new.           *)
LatestIsAuthorized ==
  said.kind = "latest" => \A answer \in said.found :
    LET chosen == CHOOSE e \in answer[2] : e.source = answer[1]
        others == {e \in answer[2] : e.manifest.id = chosen.manifest.id}
    IN  \A e \in others :
          /\ e.locked => chosen.layer <= e.layer
          /\ e.manifest.precedence >= chosen.manifest.precedence => e.manifest = chosen.manifest

(* specification_store_lifecycle.py, create_store: of two that create a    *)
(* store in one place one makes it, and the other is told that it is there *)
(* only if it is the store it wants, whoever dies on the way; unless       *)
(* somebody edits what is being created.                                   *)
OneIsMade ==
  \A c, d \in Creator : Place(c) = Place(d) /\ (\A e \in Edits : e.at # Place(c)) =>
    /\ work[c] \in {"exists", "created"} => Loads(Place(c)) /\ Loaded(Place(c)) = Wanted(c)
    /\ work[c] = "created" /\ work[d] = "created" => c = d
=============================================================================
