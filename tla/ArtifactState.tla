---------------------------- MODULE ArtifactState ----------------------------
(***************************************************************************)
(* The freshness of artifacts (artifact_state.py): one call at a time, of  *)
(* evaluate_artifact_states or of record_artifact_state, that reads one    *)
(* file after another while people edit.                                   *)
(*                                                                         *)
(* Artifacts are numbered in topological order.  A content, and the        *)
(* version of a definition, is a number that stands for its hash.  All     *)
(* evidence has one source.  Domains are left out.                         *)
(***************************************************************************)
EXTENDS Integers, Sequences, FiniteSets

CONSTANTS
  Deps,        \* depends_on of each artifact
  AppliesTo,   \* artifacts of each risk profile, without their dependencies
  Redefined,   \* artifacts whose definition may change
  Contents,    \* bound: contents of a file; 0 if there is none
  MaxEdits     \* bound: steps of people

VARIABLES
  content,     \* of each artifact
  version,     \* of each definition
  source,      \* content of the source of evidence
  records,     \* artifact-state/<artifact>.yaml
  call,
  edits

vars == <<content, version, source, records, call, edits>>

Artifact == 1 .. Len(Deps)
Content == 0 .. Contents
Risk == DOMAIN AppliesTo
NoRecord == [own |-> 0, version |-> 0, deps |-> <<>>, evidence |-> 0]
Freshness == {"fresh", "stale", "missing", "blocked"}

NoCall == [pc |-> "idle", risk |-> 1, wants |-> 0, bound |-> FALSE, own |-> 0, version |-> 0,
           read |-> <<>>, report |-> <<>>, quiet |-> TRUE]

(* read and report are filled in the order of the active graph.            *)
TypeOK ==
  /\ content \in [Artifact -> Content] /\ version \in [Artifact -> 1 .. 2] /\ source \in Content
  /\ \A a \in Artifact :
       records[a] # NoRecord =>
         /\ records[a].own \in 1 .. Contents /\ records[a].version \in 1 .. 2
         /\ DOMAIN records[a].deps = Deps[a] /\ records[a].evidence \in Content
  /\ DOMAIN call = DOMAIN NoCall
  /\ call.pc \in {"idle", "read", "judge", "record", "done", "recorded"}
  /\ Len(call.report) <= Len(call.read)

Init ==
  /\ \E written \in Artifact : content = [a \in Artifact |-> IF a <= written THEN 1 ELSE 0]
  /\ version = [a \in Artifact |-> 1] /\ source = 1
  /\ records = [a \in Artifact |-> NoRecord] /\ call = NoCall /\ edits = 0

-----------------------------------------------------------------------------
(* _active_graph: the artifacts of the profile and what they depend on, in *)
(* topological order.                                                      *)
Active(risk) ==
  LET active[a \in Artifact] ==
        a \in AppliesTo[risk] \/ \E b \in Artifact : b > a /\ a \in Deps[b] /\ active[b]
  IN SelectSeq([a \in Artifact |-> a], LAMBDA a : active[a])

Order == Active(call.risk)
At(pc) == call.pc = pc
Files == UNCHANGED <<content, version, source, records, edits>>

Evaluate ==
  /\ At("idle")
  /\ \E risk \in Risk : call' = [NoCall EXCEPT !.pc = "read", !.risk = risk]
  /\ Files

(* record_artifact_state takes the definition and the content of its own   *)
(* artifact first, and evaluates all of them afterwards.                   *)
Record ==
  /\ At("idle")
  /\ \E risk \in Risk, a \in Artifact, bound \in BOOLEAN :
       /\ \E i \in DOMAIN Active(risk) : Active(risk)[i] = a
       /\ content[a] # 0
       /\ call' = [NoCall EXCEPT !.pc = "read", !.risk = risk, !.wants = a, !.bound = bound,
                                 !.own = content[a], !.version = version[a]]
  /\ Files

(* The first loop: content, definition and record of one after another.    *)
Read ==
  /\ At("read")
  /\ LET a == Order[Len(call.read) + 1]
         read == Append(call.read, [own |-> content[a], version |-> version[a], record |-> records[a]])
     IN call' = [call EXCEPT !.read = read, !.pc = IF Len(read) = Len(Order) THEN "judge" ELSE @]
  /\ Files

(* The second: the evidence is read now, of each record on its own.        *)
Place(a) == CHOOSE i \in DOMAIN Order : Order[i] = a
Seen(a) == call.read[Place(a)]
Judged(a) == call.report[Place(a)]
NoSuspects(a) == FALSE   \* mutant: only the artifact's own record is compared
StaleBelow(a) == \E d \in Deps[a] : Judged(d) = "stale"
EvidenceHolds(record) == record.evidence = 0 \/ record.evidence = source

Judgement(a) ==
  LET seen == Seen(a) IN
  CASE seen.own = 0 -> "missing"
    [] seen.own # 0 /\ \E d \in Deps[a] : Judged(d) \in {"missing", "blocked"} -> "blocked"
    [] OTHER ->
         IF /\ seen.record # NoRecord /\ ~StaleBelow(a)
            /\ seen.record.own = seen.own /\ seen.record.version = seen.version
            /\ \A d \in Deps[a] : seen.record.deps[d] = Seen(d).own
            /\ EvidenceHolds(seen.record)
         THEN "fresh" ELSE "stale"

Judge ==
  /\ At("judge")
  /\ LET report == Append(call.report, Judgement(Order[Len(call.report) + 1])) IN
     call' = [call EXCEPT !.report = report,
                !.pc = IF Len(report) < Len(Order) THEN @
                       ELSE IF call.wants = 0 THEN "done" ELSE "record"]
  /\ Files

(* The record is written over the old one, in one replacement.             *)
AnyGround == TRUE   \* mutant: dependencies need not be fresh
FreshGround == \A d \in Deps[call.wants] : Judged(d) = "fresh"
Baseline ==
  [own |-> call.own, version |-> call.version,
   deps |-> [d \in Deps[call.wants] |-> Seen(d).own],
   evidence |-> IF call.bound THEN source ELSE 0]

Write ==
  /\ At("record")
  /\ IF FreshGround /\ (call.bound => source # 0)
     THEN /\ records' = [records EXCEPT ![call.wants] = Baseline]
          /\ call' = [call EXCEPT !.pc = "recorded"]
     ELSE call' = NoCall /\ UNCHANGED records
  /\ UNCHANGED <<content, version, source, edits>>

Return == (At("done") \/ At("recorded")) /\ call' = NoCall /\ Files

(* People write, edit and delete artifacts, definitions and evidence.      *)
Edit ==
  /\ edits < MaxEdits /\ edits' = edits + 1
  /\ call' = IF At("idle") THEN call ELSE [call EXCEPT !.quiet = FALSE]
  /\ \/ /\ \E a \in Artifact, c \in Content : c # content[a] /\ content' = [content EXCEPT ![a] = c]
        /\ UNCHANGED <<version, source>>
     \/ /\ \E a \in Redefined : version' = [version EXCEPT ![a] = 3 - @]
        /\ UNCHANGED <<content, source>>
     \/ /\ \E c \in Content \ {source} : source' = c
        /\ UNCHANGED <<content, version>>
  /\ UNCHANGED records

Next == Evaluate \/ Record \/ Read \/ Judge \/ Write \/ Return \/ Edit

Spec == Init /\ [][Next]_vars
-----------------------------------------------------------------------------
(* What docs/ARTIFACT-STATE.md means by the four words, of the files as    *)
(* they are: over all dependencies, however far.                           *)
Below(a) ==
  LET below[b \in Artifact] == {b} \cup UNION {below[d] : d \in Deps[b]} IN below[a]
Matches(a) ==
  /\ records[a] # NoRecord /\ records[a].own = content[a] /\ records[a].version = version[a]
  /\ \A d \in Deps[a] : records[a].deps[d] = content[d]
  /\ records[a].evidence \in {0, source}
State(a) ==
  IF content[a] = 0 THEN "missing"
  ELSE IF \E d \in Below(a) : content[d] = 0 THEN "blocked"
  ELSE IF \A d \in Below(a) : Matches(d) THEN "fresh" ELSE "stale"

(* A report that nobody disturbed says of every artifact what the files    *)
(* say, and any report calls fresh only what stands on fresh artifacts.    *)
ReportIsTrue ==
  At("done") =>
    /\ call.quiet => \A i \in DOMAIN Order : call.report[i] = State(Order[i])
    /\ \A i \in DOMAIN Order :
         call.report[i] = "fresh" => \A d \in Below(Order[i]) : Judged(d) = "fresh"

(* What was recorded undisturbed is fresh.                                 *)
RecordedIsFresh == At("recorded") /\ call.quiet => State(call.wants) = "fresh"

(* Whatever people do meanwhile, a record stands on the records of what    *)
(* its artifact depends on: it binds the contents that they were made of.  *)
RecordsAreStacked ==
  \A a \in Artifact : records'[a] # records[a] =>
    \A d \in Deps[a] : records'[a].deps[d] = records[d].own
=============================================================================
