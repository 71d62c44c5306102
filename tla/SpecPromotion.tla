---------------------------- MODULE SpecPromotion ----------------------------
(***************************************************************************)
(* Promotion of specification changes into specs/current                   *)
(* (spec_promotion.py, with the baselines of spec_validation.py): approval *)
(* of exactly one revision on exactly one state of the current truth, and  *)
(* a transaction over the domains of the change under a lock file.         *)
(*                                                                         *)
(* The text of a domain is known by the changes that were rendered into it *)
(* and by the number of edits made by hand; a workspace by its revision    *)
(* and the texts it was authored against.  Deltas are well-formed.         *)
(***************************************************************************)
EXTENDS Integers, FiniteSets

CONSTANTS
  Feature, Person,
  Domains,        \* the domains 1 .. Domains, in the order of their names
  Touches,        \* [Feature -> SUBSET Domain]: domains of each change
  MinApprovals,   \* approvals the policy asks for
  MaxRevision,    \* bound: revisions of a change
  MaxTrouble      \* bound: edits by hand, failures, crashes, changes of policy

Domain == 1 .. Domains
Revision == 1 .. MaxRevision
Change == Feature \X Revision
Text == [rendered : SUBSET Change, edits : 0 .. MaxTrouble]

VARIABLES
  spec,       \* text of each domain under specs/current
  work,       \* workspace of each feature: revision, baselines, promotion.yaml
  approvals,  \* approval document of each feature
  allowed,    \* people whom the policy allows to approve
  archive,    \* changes moved to specs/archive/changes
  lock,       \* promotion.lock exists
  p,          \* the promotion in progress
  trouble,    \* edits, failures, crashes and changes of policy so far
  said,       \* history: what each person approved last, of each feature
  half        \* history: changes in domains that a promotion left behind: its
              \* process died, or its rollback failed and named the domain

vars == <<spec, work, approvals, allowed, archive, lock, p, trouble, said, half>>
history == <<said, half>>

Baselines(f) == [d \in Touches[f] |-> spec[d]]
NoDocument == [revision |-> 0, current |-> <<>>, by |-> {}]
Said(revision, current) == [revision |-> revision, current |-> current]
Original == [rendered |-> {}, edits |-> 0]
Idle == [pc |-> "idle", f |-> CHOOSE f \in Feature : TRUE, revision |-> 0,
         before |-> <<>>, applied |-> {}, failed |-> {}, touched |-> {}, named |-> FALSE]

TypeOK ==
  /\ spec \in [Domain -> Text] /\ allowed \subseteq Person /\ lock \in BOOLEAN
  /\ \A f \in Feature :
       /\ work[f].status \in {"active", "archived"} /\ work[f].revision \in Revision
       /\ DOMAIN work[f].baseline = Touches[f]
       /\ approvals[f].revision \in 0 .. MaxRevision /\ approvals[f].by \subseteq Person
  /\ archive \subseteq Change /\ half \subseteq Change \X Domain /\ p.applied \subseteq Domain

Init ==
  /\ spec = [d \in Domain |-> Original]
  /\ work = [f \in Feature |-> [status |-> "active", revision |-> 1, evidence |-> FALSE,
                                baseline |-> [d \in Touches[f] |-> Original]]]
  /\ approvals = [f \in Feature |-> NoDocument]
  /\ allowed = Person /\ archive = {} /\ lock = FALSE /\ p = Idle /\ trouble = 0
  /\ said = [f \in Feature |-> [person \in Person |-> Said(0, <<>>)]] /\ half = {}

-----------------------------------------------------------------------------
ValidActive(f) == work[f].status = "active"   \* mutant: baselines are not compared
(* validate_spec_change finds nothing. *)
Valid(f) == work[f].status = "active" /\ work[f].baseline = Baselines(f)

FitsTexts(f) == approvals[f].current = Baselines(f)   \* mutant: one hash of two
(* An approval document holds for one revision on one current truth.       *)
Fits(f) == approvals[f].revision = work[f].revision /\ approvals[f].current = Baselines(f)

(* Approvals of people whom the policy of today does not allow are ignored.*)
Counted(f) == approvals[f].by \cap allowed

Satisfied(f) == Fits(f) /\ Cardinality(Counted(f)) >= MinApprovals

(* record_promotion_approval *)
Approve(f, person) ==
  /\ Valid(f) /\ person \in allowed
  /\ approvals' = [approvals EXCEPT ![f] =
       [revision |-> work[f].revision, current |-> Baselines(f),
        by |-> {person} \cup IF Fits(f) THEN approvals[f].by ELSE {}]]
  /\ said' = [said EXCEPT ![f][person] = Said(work[f].revision, Baselines(f))]
  /\ UNCHANGED <<spec, work, allowed, archive, lock, p, trouble, half>>

(* promote_spec_change *)
Begin(f) ==
  /\ p.pc = "idle" /\ ~lock /\ work[f].status = "active"
  /\ lock' = TRUE
  /\ p' = [Idle EXCEPT !.pc = "diff", !.f = f]
  /\ UNCHANGED <<spec, work, approvals, allowed, archive, trouble, history>>

Release == p' = Idle /\ lock' = FALSE
Call(pc) == p' = [p EXCEPT !.pc = pc] /\ UNCHANGED lock

Diff ==
  /\ p.pc = "diff"
  /\ \/ /\ Valid(p.f) /\ UNCHANGED lock
        /\ p' = [p EXCEPT !.pc = "approval", !.revision = work[p.f].revision, !.before = Baselines(p.f)]
     \/ ~Valid(p.f) /\ Release
  /\ UNCHANGED <<spec, work, approvals, allowed, archive, trouble, history>>

(* The change is validated a second time, with its approval.               *)
CheckApproval ==
  /\ p.pc = "approval"
  /\ \/ /\ Valid(p.f) /\ work[p.f].revision = p.revision /\ Satisfied(p.f)
        /\ Call("capture")
     \/ /\ ~(Valid(p.f) /\ work[p.f].revision = p.revision /\ Satisfied(p.f))
        /\ Release
  /\ UNCHANGED <<spec, work, approvals, allowed, archive, trouble, history>>

Left == DOMAIN p.before \ p.applied
NextDomain == CHOOSE d \in Left : \A e \in Left : d <= e

SameAny(d) == TRUE   \* mutant: the bytes are not compared again
Same(d) == spec[d] = p.before[d]

(* _capture_before of the next domain, immediately before its replacement. *)
Capture ==
  /\ p.pc = "capture" /\ Left # {}
  /\ IF Same(NextDomain)
     THEN p' = [p EXCEPT !.pc = "replace", !.touched = @ \ {NextDomain}]
     ELSE p' = [p EXCEPT !.pc = "cleanup"]
  /\ UNCHANGED <<spec, work, approvals, allowed, archive, lock, trouble, history>>

RenderedNew(d) ==   \* mutant: every domain is rendered as a new one
  [rendered |-> {<<p.f, p.revision>>}, edits |-> p.before[d].edits]
Rendered(d) == [p.before[d] EXCEPT !.rendered = @ \cup {<<p.f, p.revision>>}]

Replace ==
  /\ p.pc = "replace"
  /\ spec' = [spec EXCEPT ![NextDomain] = Rendered(NextDomain)]
  /\ p' = [p EXCEPT !.pc = "capture", !.applied = @ \cup {NextDomain}]
  /\ UNCHANGED <<work, approvals, allowed, archive, lock, trouble, history>>

(* All domains are read again, and the evidence is written, unless there   *)
(* is some: from then on its path is known to the rollback (named).        *)
Verify ==
  /\ p.pc = "capture" /\ Left = {}
  /\ LET written == \A d \in p.applied : spec[d] = Rendered(d)
         fresh == written /\ ~work[p.f].evidence
     IN /\ work' = [work EXCEPT ![p.f].evidence = @ \/ fresh]
        /\ p' = [p EXCEPT !.pc = IF fresh THEN "archive" ELSE "cleanup", !.named = written]
  /\ UNCHANGED <<spec, approvals, allowed, archive, lock, trouble, history>>

Archive ==
  /\ p.pc = "archive" /\ Release
  /\ work' = [work EXCEPT ![p.f].status = "archived"]
  /\ archive' = archive \cup {<<p.f, p.revision>>}
  /\ UNCHANGED <<spec, approvals, allowed, trouble, history>>

ChangeIn(D) == {<<p.f, p.revision>>} \X D
(* A promotion ends without a rollback: the change stays where it is.      *)
Abandon == half' = half \cup ChangeIn(p.applied \cup p.failed)

(* Any failure until then: the staged files and the evidence, whoever      *)
(* wrote it, are removed.  If that fails, nothing is rolled back.          *)
CleanUp ==
  /\ p.pc = "cleanup"
  /\ \/ /\ work' = [work EXCEPT ![p.f].evidence = @ /\ ~p.named]
        /\ Call("undo") /\ UNCHANGED half
     \/ Release /\ Abandon /\ UNCHANGED work
  /\ UNCHANGED <<spec, approvals, allowed, archive, trouble, said>>

UndoSome == p.applied \ {Domains}   \* mutant: the last file replaced is not yet listed
ToUndo == p.applied
LastDomain == CHOOSE d \in ToUndo : \A e \in ToUndo : e <= d

(* _rollback, the last domain first: one that cannot be put back is named. *)
Undo ==
  /\ p.pc = "undo" /\ ToUndo # {}
  /\ \/ /\ spec' = [spec EXCEPT ![LastDomain] = p.before[LastDomain]]
        /\ p' = [p EXCEPT !.applied = @ \ {LastDomain}]
     \/ /\ p' = [p EXCEPT !.applied = @ \ {LastDomain}, !.failed = @ \cup {LastDomain}]
        /\ UNCHANGED spec
  /\ UNCHANGED <<work, approvals, allowed, archive, lock, trouble, history>>

(* The call fails; with SDAI-SPECPROMO-009, if domains are named.          *)
EndUndo ==
  /\ p.pc = "undo" /\ ToUndo = {} /\ Release
  /\ half' = half \cup ChangeIn(p.failed)
  /\ UNCHANGED <<spec, work, approvals, allowed, archive, trouble, said>>

-----------------------------------------------------------------------------
Trouble == trouble < MaxTrouble /\ trouble' = trouble + 1

Fail ==
  /\ p.pc \in {"capture", "replace", "archive"} /\ Trouble
  /\ p' = [p EXCEPT !.pc = "cleanup"]
  /\ UNCHANGED <<spec, work, approvals, allowed, archive, lock, history>>

(* The process dies and leaves its lock; an operator removes it.           *)
Crash ==
  /\ p.pc # "idle" /\ Trouble /\ p' = Idle /\ Abandon
  /\ UNCHANGED <<spec, work, approvals, allowed, archive, lock, said>>

Unlock ==
  /\ p.pc = "idle" /\ lock /\ lock' = FALSE
  /\ UNCHANGED <<spec, work, approvals, allowed, archive, p, trouble, history>>

EditSpec(d) ==
  /\ Trouble /\ spec' = [spec EXCEPT ![d].edits = @ + 1]
  /\ p' = [p EXCEPT !.touched = @ \cup {d}]
  /\ UNCHANGED <<work, approvals, allowed, archive, lock, history>>

(* The author revises the change, or rebases it on the current truth.      *)
Author(f) ==
  /\ work[f].status = "active" /\ work[f].revision < MaxRevision
  /\ work' = [work EXCEPT ![f].revision = @ + 1, ![f].baseline = Baselines(f)]
  /\ UNCHANGED <<spec, approvals, allowed, archive, lock, p, trouble, history>>

Disallow(person) ==
  /\ person \in allowed /\ allowed' = allowed \ {person} /\ Trouble
  /\ UNCHANGED <<spec, work, approvals, archive, lock, p, history>>

Next ==
  \/ \E f \in Feature : Begin(f) \/ Author(f) \/ \E person \in Person : Approve(f, person)
  \/ Diff \/ CheckApproval \/ Capture \/ Replace \/ Verify \/ Archive
  \/ CleanUp \/ Undo \/ EndUndo \/ Fail \/ Crash \/ Unlock
  \/ \E d \in Domain : EditSpec(d)
  \/ \E person \in Person : Disallow(person)

Spec == Init /\ [][Next]_vars
-----------------------------------------------------------------------------
(* No promotion undoes another one: what was promoted is in all domains of *)
(* its change for ever, although every promotion replaces whole files.     *)
PromotedStays ==
  \A c \in archive : \A d \in Touches[c[1]] : c \in spec[d].rendered

(* What is in the current truth is archived, or in the hands of the        *)
(* promotion in progress, or in a domain that a rollback has named when it *)
(* could not put it back (SDAI-SPECPROMO-009), or that a process left that *)
(* died or could not clean up: any other failure undoes a change as a      *)
(* whole, also when another promotion was left half done before.           *)
NoHalfPromotion ==
  p.pc = "idle" => \A d \in Domain : \A c \in spec[d].rendered \ archive : <<c, d>> \in half

(* What was left half done is not done again on top of itself: a promotion *)
(* never renders a revision into a text that holds it already, although a  *)
(* crash leaves the workspace active and approved, and the evidence away.  *)
NotTwice ==
  p.pc \notin {"idle", "diff"} =>
    \A d \in DOMAIN p.before : <<p.f, p.revision>> \notin p.before[d].rendered

(* Current truth that somebody edited by hand is overwritten only if the   *)
(* edit fell between the comparison and the end of the call that replaces  *)
(* the file.                                                               *)
KeepsEdits ==
  \A d \in Domain : spec'[d].edits < spec[d].edits => d \in p.touched

(* What is written was approved by enough people, each of whom saw the     *)
(* very revision that is rendered and the very texts that it is rendered   *)
(* into, however they, the author and the policy took turns.               *)
WasApproved ==
  p.pc = "approval" /\ p'.pc = "capture" =>
    Cardinality({person \in allowed : said[p.f][person] = Said(p.revision, p.before)})
      >= MinApprovals
=============================================================================
