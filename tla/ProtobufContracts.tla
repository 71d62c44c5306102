-------------------------- MODULE ProtobufContracts --------------------------
(***************************************************************************)
(* The compatibility of Protobuf contracts (protobuf_contracts.py) along a *)
(* history of documents: each candidate is parsed, validated and compared  *)
(* with the document before it, and takes its place if nothing is found.   *)
(*                                                                         *)
(* Of the text of a document its declarations are kept.  Names are         *)
(* numbers, in their order.  The entries of a declaration are its fields   *)
(* or values by number; those of a service are its calls by name.          *)
(***************************************************************************)
EXTENDS Integers, Sequences, FiniteSets

CONSTANTS
  Documents,   \* documents people write
  Directions,  \* directions that a comparison may be asked for
  Sources,     \* paths of the declared sources: sequences of names
  Folder,      \* directory of the document itself
  MaxNumber,   \* largest field number of the format
  Internal     \* field numbers that the format keeps for itself

VARIABLES
  given,    \* the document in force, and the direction it is compared in
  answer    \* what each number has stood for, in all documents so far

vars == <<given, answer>>

(* The last one of that number: lists are sorted by number and name.       *)
LastOf(entries, n) ==
  CHOOSE e \in {f \in entries : f.number = n} :
    \A f \in entries : f.number = n => f.name <= e.name
NumbersOf(d) == {e.number : e \in d.entries}
Contains(ranges, n) == \E r \in ranges : r[1] <= n /\ n <= r[2]
MayGo(ranges, r) == TRUE   \* mutant: a reserved range may be given up
RangeSetContains(ranges, r) == \E s \in ranges : s[1] <= r[1] /\ r[2] <= s[2]

(* _Parser: what it takes of a document; the rest does not parse.          *)
FieldNumber(n) == n \in 1 .. MaxNumber /\ n \notin Internal
MessageParses(d) == \A e \in d.entries : FieldNumber(e.number)
ReservedParses(d) == \A r \in d.ranges : r[1] <= r[2]
Parses(doc) ==
  \A d \in doc.declarations : ReservedParses(d) /\ (d.kind = "message" => MessageParses(d))

(* _resolve_import: a path is one of the root or of the importer's folder. *)
Matches(import) == {p \in {import.path, Folder \o import.path} : p \in Sources}
Resolves(import) == Cardinality(Matches(import)) = 1

(* _validate_document                                                      *)
Distinct(d) ==
  \A e, f \in d.entries : e # f =>
    e.name # f.name /\ (e.number # f.number \/ d.alias \/ d.kind = "service")
Unreserved(d) ==
  \A e \in d.entries : e.name \notin d.names /\ (d.kind # "service" => ~Contains(d.ranges, e.number))
Valid(doc) ==
  /\ \A d, c \in doc.declarations : d # c => d.name # c.name
  /\ \A i, j \in doc.imports : i # j => i.path # j.path
  /\ \A i \in doc.imports : Resolves(i)
  /\ \A d \in doc.declarations : Distinct(d) /\ Unreserved(d)

(* What the numbers and calls of a document stand for.                     *)
Meaning(d, e) ==
  [kind |-> d.kind, in |-> d.name, entry |-> IF d.kind = "service" THEN e ELSE LastOf(d.entries, e.number)]
Meanings(doc) == UNION {{Meaning(d, e) : e \in d.entries} : d \in doc.declarations}

Init ==
  /\ given \in [document : {d \in Documents : Parses(d) /\ Valid(d)}, direction : Directions]
  /\ answer = Meanings(given.document)
-----------------------------------------------------------------------------
Find(code, at) == [code |-> code, at |-> at]

(* _diff_reserved_surface                                                  *)
ReservedDiff(old, new) ==
  {Find("reserved", r) : r \in {q \in old.ranges : ~RangeSetContains(new.ranges, q)}}
    \cup {Find("reserved", <<n>>) : n \in old.names \ new.names}

Missing(old, new, n) ==
  LET e == LastOf(old.entries, n) IN
  IF \E f \in new.entries : f.name = e.name THEN {Find("moved", <<n>>)}
  ELSE IF Contains(new.ranges, n) THEN {} ELSE {Find("removed", <<n>>)}
Changed(old, new, n) ==
  LET e == LastOf(old.entries, n)  f == LastOf(new.entries, n) IN
  (IF e.name # f.name THEN {Find("reused", <<n>>)} ELSE {})
    \cup (IF e.type # f.type \/ e.cardinality # f.cardinality THEN {Find("type", <<n>>)} ELSE {})
Added(old, new, n) ==
  LET f == LastOf(new.entries, n) IN
  (IF Contains(old.ranges, n) \/ f.name \in old.names THEN {Find("violates", <<n>>)} ELSE {})
    \cup (IF f.cardinality = "required" THEN {Find("required", <<n>>)} ELSE {})

(* Messages and enums: by number.                                          *)
NumberedDiff(old, new) ==
  ReservedDiff(old, new)
    \cup UNION {Missing(old, new, n) : n \in NumbersOf(old) \ NumbersOf(new)}
    \cup UNION {Changed(old, new, n) : n \in NumbersOf(old) \cap NumbersOf(new)}
    \cup UNION {Added(old, new, n) : n \in NumbersOf(new) \ NumbersOf(old)}

(* Services: by the name of the call.                                      *)
ServiceDiff(old, new) ==
  {Find("call", <<e.name>>) : e \in {f \in old.entries :
     ~\E g \in new.entries : g.name = f.name /\ g.type = f.type}}

DeclarationDiff(d, after) ==
  LET same == {c \in after.declarations : c.kind = d.kind /\ c.name = d.name} IN
  IF same = {} THEN {Find("gone", <<d.name>>)}
  ELSE LET c == CHOOSE c \in same : TRUE IN
       IF d.kind = "service" THEN ServiceDiff(d, c) ELSE NumberedDiff(d, c)

(* protobuf_directional.py: imports are compared by what they resolve to.  *)
Public(doc) == UNION {Matches(i) : i \in {j \in doc.imports : j.modifier = "public"}}
OneWayDiff(before, after) ==
  (IF before.package # after.package THEN {Find("package", <<>>)} ELSE {})
    \cup (IF before.syntax # after.syntax THEN {Find("syntax", <<>>)} ELSE {})
    \cup {Find("import", p) : p \in Public(before) \ Public(after)}
    \cup UNION {DeclarationDiff(d, after) : d \in before.declarations}

Diff(before, after, direction) ==
  CASE direction = "forward" -> OneWayDiff(after, before)
    [] direction = "full" -> OneWayDiff(before, after) \cup OneWayDiff(after, before)
    [] OTHER -> OneWayDiff(before, after)

(* The candidate is compared with the document in force and replaces it.   *)
Publish ==
  \E candidate \in Documents :
    /\ Parses(candidate) /\ Valid(candidate)
    /\ Diff(given.document, candidate, given.direction) = {}
    /\ given' = [given EXCEPT !.document = candidate]
    /\ answer' = answer \cup Meanings(candidate)

Next == Publish
Spec == Init /\ [][Next]_vars
-----------------------------------------------------------------------------
(* A number never stands for two things, however many documents lie        *)
(* between: what was written with one is not misread with another.         *)
NumbersKeepMeaning ==
  \A m, l \in answer :
    m.kind # "service" /\ m.kind = l.kind /\ m.in = l.in /\ m.entry.number = l.entry.number => m = l

(* Compared for old readers, nothing is freed: a number that was used is   *)
(* used or reserved, and a call that was offered is offered.               *)
NothingIsFreed ==
  given.direction # "forward" =>
    \A m \in answer :
      \/ m \in Meanings(given.document)
      \/ /\ m.kind # "service"
         /\ \E d \in given.document.declarations :
              d.kind = m.kind /\ d.name = m.in /\ Contains(d.ranges, m.entry.number)
=============================================================================
