------------------------------- MODULE PackTrust -------------------------------
(***************************************************************************)
(* Whether a pack of a catalog may be trusted: the catalogs of the three   *)
(* scopes (pack_catalog.py), the signature over a manifest and the bytes   *)
(* on disk (pack_integrity.py), and the policies of the scopes             *)
(* (pack_trust_policy.py).                                                 *)
(*                                                                         *)
(* Files change between the signing of a pack, its verification and the    *)
(* decision.  A hash is what it is of; a signature is the key and what was *)
(* signed with it.                                                         *)
(***************************************************************************)
EXTENDS Integers, Sequences, FiniteSets

CONSTANTS
  Manifests,   \* manifests: publisher, version and anything else (note)
  Contents,    \* contents that the files of the pack may have
  Setups,      \* catalogs and policies of the scopes; see Init
  Algorithms,  \* algorithms that the caller has a verifier for
  MaxSteps     \* steps of people before the decision

VARIABLES
  given,    \* files, catalogs and policies; see Init
  answer    \* the decision, or nothing yet

vars == <<given, answer>>

Scopes == {"organization", "repository", "user"}
Every == {"*"}
Identity(m) == <<m.publisher, m.version>>
NoReport == [identity |-> <<"", 0>>]
Undecided == [outcome |-> "none"]

-----------------------------------------------------------------------------
(* pack_catalog.py.  No identity is twice in a catalog.                    *)
Identities(c) == {Identity(e.manifest) : e \in c.entries}
WellFormed(c) == Cardinality(Identities(c)) = Cardinality(c.entries)

(* resolve_pack_catalogs: an id has one source, and a source one catalog.  *)
All(catalogs) == UNION {catalogs[s] : s \in Scopes}
Agree(catalogs) ==
  \A c, d \in All(catalogs) : c.id = d.id \/ c.source = d.source => c = d
Resolves(catalogs) == (\A c \in All(catalogs) : WellFormed(c)) /\ Agree(catalogs)

-----------------------------------------------------------------------------
(* resolve_pack_trust_policy: each scope that has a policy tightens.       *)
Intersect(l, r) == IF l = Every THEN r ELSE IF r = Every THEN l ELSE l \cap r
Widest == [require |-> FALSE, catalogs |-> Every, notCatalogs |-> {}, publishers |-> Every, notPublishers |-> {}]
LastOne(l, r) == r   \* mutant: the last scope decides
Tighten(l, r) ==
  [require |-> l.require \/ r.require,
   catalogs |-> Intersect(l.catalogs, r.catalogs), notCatalogs |-> l.notCatalogs \cup r.notCatalogs,
   publishers |-> Intersect(l.publishers, r.publishers), notPublishers |-> l.notPublishers \cup r.notPublishers]
Policy(policies) == Tighten(Tighten(policies["organization"], policies["repository"]), policies["user"])
Allowed(value, allow, deny) == value \notin deny /\ (allow = Every \/ value \in allow)

Init ==
  /\ given \in
       {[catalogs |-> s.catalogs,     \* scope -> its catalogs
         policies |-> s.policies,     \* scope -> its policy, Widest if it has none
         manifest |-> m, content |-> c,             \* the pack on disk
         evidence |-> {},             \* signatures that people have made or altered
         report |-> NoReport,         \* of the last verification
         steps |-> 0] :
        s \in {t \in Setups : Resolves(t.catalogs)}, m \in Manifests, c \in {1}}
  /\ answer = Undecided
-----------------------------------------------------------------------------
(* People and the publishers' keys.                                        *)
Working == answer = Undecided /\ given.steps < MaxSteps /\ UNCHANGED answer
Step(g) == given' = [g EXCEPT !.steps = @ + 1]

EditPack ==
  Working /\ \E m \in Manifests, c \in Contents :
    Step([given EXCEPT !.manifest = m, !.content = c])

(* PackSignatureEvidence.create; publishers sign what is theirs.           *)
Signature(m, c) == [identity |-> Identity(m), publisher |-> m.publisher, manifest |-> m, content |-> c]
Evidence(payload, signed, algorithm) ==
  [payload |-> payload, signed |-> signed, algorithm |-> algorithm]
Sign ==
  /\ Working
  /\ LET p == Signature(given.manifest, given.content) IN
     Step([given EXCEPT !.evidence = @ \cup {Evidence(p, p, "known")}])
(* An evidence file is altered; the hash of its payload can be made again. *)
Alter ==
  /\ Working
  /\ \E e \in given.evidence, algorithm \in {"known", "other"} :
       Step([given EXCEPT !.evidence =
               @ \cup {Evidence(Signature(given.manifest, given.content), e.signed, algorithm)}])

-----------------------------------------------------------------------------
(* verify_pack_signature: hashes, then the signature over the payload.     *)
Current(e) ==
  /\ e.payload.identity = Identity(given.manifest) /\ e.payload.publisher = given.manifest.publisher
  /\ e.payload.manifest = given.manifest /\ e.payload.content = given.content
Unread(e) == e.algorithm \in Algorithms   \* mutant: any signature by a known algorithm
SignatureValid(e) == e.algorithm \in Algorithms /\ e.signed = e.payload
Verify ==
  /\ answer = Undecided /\ UNCHANGED answer
  /\ \E e \in given.evidence :
       given' = [given EXCEPT !.report =
         [identity |-> Identity(given.manifest), publisher |-> given.manifest.publisher,
          manifest |-> given.manifest, content |-> given.content,
          verified |-> Current(e) /\ SignatureValid(e)]]

(* evaluate_pack_trust                                                     *)
ReportMatches(r, entry) ==
  /\ r.identity = Identity(entry.manifest) /\ r.publisher = entry.manifest.publisher
  /\ r.manifest = entry.manifest /\ r.content = entry.content
SignatureHolds(policy, entry) ==
  IF given.report = NoReport THEN ~policy.require
  ELSE given.report.verified /\ ReportMatches(given.report, entry)
Trusted(catalog, entry) ==
  LET policy == Policy(given.policies) IN
  /\ Allowed(catalog.source, policy.catalogs, policy.notCatalogs)
  /\ Allowed(entry.manifest.publisher, policy.publishers, policy.notPublishers)
  /\ SignatureHolds(policy, entry)
Evaluate ==
  /\ answer = Undecided /\ UNCHANGED given
  /\ \E c \in All(given.catalogs) : \E e \in c.entries :
       answer' = [outcome |-> IF Trusted(c, e) THEN "allowed" ELSE "denied", catalog |-> c, entry |-> e]

Next == EditPack \/ Sign \/ Alter \/ Verify \/ Evaluate
Spec == Init /\ [][Next]_vars
-----------------------------------------------------------------------------
(* What a scope forbids or asks for, no other scope gives back, whatever   *)
(* the pack: the decision is one that each scope alone would take.         *)
EachScopeAgrees ==
  answer.outcome = "allowed" =>
    \A s \in Scopes :
      LET p == given.policies[s] IN
      /\ Allowed(answer.catalog.source, p.catalogs, p.notCatalogs)
      /\ Allowed(answer.entry.manifest.publisher, p.publishers, p.notPublishers)
      /\ p.require => \E e \in given.evidence :
                        e.signed.manifest = answer.entry.manifest /\ e.signed.content = answer.entry.content

(* A signature that was presented is never worse than ignored: what is     *)
(* allowed on a report was signed, in these bytes, by the publisher that   *)
(* the policies were asked about, whatever was altered since.              *)
ReportedIsSigned ==
  answer.outcome = "allowed" /\ given.report # NoReport =>
    \E e \in given.evidence :
      e.signed = Signature(answer.entry.manifest, answer.entry.content)
=============================================================================
