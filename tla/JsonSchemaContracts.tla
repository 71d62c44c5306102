------------------------- MODULE JsonSchemaContracts -------------------------
(***************************************************************************)
(* The compatibility of JSON Schema contracts (json_schema_contracts.py):  *)
(* what the comparison of two documents reports, and what it should mean,  *)
(* that every instance of the old schema is one of the new.                *)
(*                                                                         *)
(* A schema is true, false, or a record of keywords; an absent keyword has *)
(* its neutral value ({} for type and enum, 0 for the limits, 1 for        *)
(* multipleOf, "" for $ref, <<>> for allOf).  minimum and maximum stand    *)
(* for all ten limits, allOf for the eight keywords of composition, and    *)
(* multipleOf for the keywords that the comparison does not look at.       *)
(***************************************************************************)
EXTENDS Integers, Sequences, FiniteSets

CONSTANTS
  Comparisons,   \* records of two documents and a direction
  Instances      \* values that a schema can accept

VARIABLES
  given,    \* the comparison that is asked for
  answer    \* codes of what was found, or what refused the comparison

vars == <<given, answer>>
NotYet == {"not yet"}

Init == given \in Comparisons /\ answer = NotYet

True == [kind |-> "true"]
False == [kind |-> "false"]
Anything ==
  [kind |-> "object", type |-> {}, enum |-> {}, required |-> {}, minimum |-> 0, maximum |-> 0,
   properties |-> <<>>, additional |-> True, allOf |-> <<>>, ref |-> "", multipleOf |-> 1]
With(keyword, value) == [Anything EXCEPT ![keyword] = value]
IsObject(s) == s.kind = "object"

(* _scan_refs: all references that stand in a schema.                      *)
RECURSIVE RefsOf(_)
RefsOf(s) ==
  IF ~IsObject(s) THEN {}
  ELSE (IF s.ref = "" THEN {} ELSE {s.ref})
         \cup RefsOf(s.additional)
         \cup UNION {RefsOf(s.properties[p]) : p \in DOMAIN s.properties}
         \cup UNION {RefsOf(s.allOf[i]) : i \in DOMAIN s.allOf}

(* _collect_anchors: what a local reference can name.                      *)
Named(doc) == DOMAIN doc.defs

(* _parse: every reference is a local one that resolves.                   *)
Parses(doc) ==
  /\ doc.dialect \in {"draft-07", "2020-12"}
  /\ \A s \in {doc.root} \cup {doc.defs[d] : d \in DOMAIN doc.defs} : RefsOf(s) \subseteq Named(doc)

(* _resolve: from draft 2019-09, what stands beside a $ref holds as well.  *)
Siblings(s) == [s EXCEPT !.ref = ""]
RECURSIVE Resolve(_, _, _)
Resolve(doc, s, seen) ==
  IF ~IsObject(s) \/ s.ref = "" \/ s.ref \in seen THEN s
  ELSE IF doc.dialect # "draft-07" /\ Siblings(s) # Anything
       THEN With("allOf", <<doc.defs[s.ref], Siblings(s)>>)
       ELSE Resolve(doc, doc.defs[s.ref], seen \cup {s.ref})

-----------------------------------------------------------------------------
Found(code, condition) == IF condition THEN {code} ELSE {}

TypeNarrows(old, new) == new.type # {} /\ (old.type = {} \/ ~old.type \subseteq new.type)
EnumNarrows(old, new) == new.enum # {} /\ (old.enum = {} \/ ~old.enum \subseteq new.enum)
RequiresMore(old, new) == ~new.required \subseteq old.required
(* _constraint_tightened                                                   *)
IntroducedOnly(old, new) ==   \* mutant: a limit that becomes stricter is not seen
  (old.minimum = 0 /\ new.minimum # 0) \/ (old.maximum = 0 /\ new.maximum # 0)
Tightened(old, new) ==
  \/ new.minimum # 0 /\ (old.minimum = 0 \/ new.minimum > old.minimum)
  \/ new.maximum # 0 /\ (old.maximum = 0 \/ new.maximum < old.maximum)

(* _one_way_diff: codes by which the new schema may accept less.           *)
RECURSIVE OneWayDiff(_, _, _, _)
(* A property that only one of the two declares is an additional one of    *)
(* the other.                                                              *)
MembersDiff(oldDoc, newDoc, old, new) ==
  LET Nested(s, t) == OneWayDiff(oldDoc, newDoc, s, t)
      As(code, codes) == IF codes = {} THEN {} ELSE {code} \cup codes
      before == DOMAIN old.properties
      after == DOMAIN new.properties
  IN
  As("additional", Nested(old.additional, new.additional))
    \cup UNION {Nested(old.properties[p], new.properties[p]) : p \in before \cap after}
    \cup UNION {As("declared", Nested(old.additional, new.properties[p])) : p \in after \ before}
    \cup UNION {As("undeclared", Nested(old.properties[p], new.additional)) : p \in before \ after}
OneWayDiff(oldDoc, newDoc, oldSchema, newSchema) ==
  LET before == Resolve(oldDoc, oldSchema, {})
      after == Resolve(newDoc, newSchema, {})
      old == IF before = True THEN Anything ELSE before
  IN
  IF before = False \/ after = True THEN {}
  ELSE IF after = False THEN {"rejects"}
  ELSE
    Found("type", TypeNarrows(old, after)) \cup Found("enum", EnumNarrows(old, after))
      \cup Found("required", RequiresMore(old, after)) \cup Found("limit", Tightened(old, after))
      \cup MembersDiff(oldDoc, newDoc, old, after)
      \cup Found("composition", after.allOf # <<>> /\ old.allOf # after.allOf)

(* JSONSchemaContractAdapter.diff                                          *)
Diff(before, after, direction) ==
  LET forth == OneWayDiff(before, after, before.root, after.root)
      back == OneWayDiff(after, before, after.root, before.root)
  IN CASE direction = "forward" -> back [] direction = "full" -> forth \cup back [] OTHER -> forth

Compare ==
  /\ answer = NotYet /\ UNCHANGED given
  /\ answer' = IF Parses(given.before) /\ Parses(given.after)
               THEN Diff(given.before, given.after, given.direction) ELSE {"refused"}

Next == Compare
Spec == Init /\ [][Next]_vars
-----------------------------------------------------------------------------
(* What a schema means, by the standard.  An instance has a type, a value  *)
(* and, if it is an object, members.                                       *)
RECURSIVE Accepts(_, _, _)
KeywordsAccept(doc, s, v) ==
  /\ s.type = {} \/ v.type \in s.type
  /\ s.enum = {} \/ v.value \in s.enum
  /\ v.type = "integer" =>
       /\ s.minimum # 0 => v.value >= s.minimum
       /\ s.maximum # 0 => v.value <= s.maximum
       /\ v.value % s.multipleOf = 0
  /\ v.type = "object" =>
       /\ s.required \subseteq DOMAIN v.members
       /\ \A p \in DOMAIN v.members :
            Accepts(doc, IF p \in DOMAIN s.properties THEN s.properties[p] ELSE s.additional, v.members[p])
  /\ \A i \in DOMAIN s.allOf : Accepts(doc, s.allOf[i], v)
Accepts(doc, s, v) ==
  CASE s.kind = "true" -> TRUE
    [] s.kind = "false" -> FALSE
    [] OTHER -> /\ s.ref # "" => Accepts(doc, doc.defs[s.ref], v)
                /\ s.ref = "" \/ doc.dialect # "draft-07" => KeywordsAccept(doc, s, v)

Keeps(before, after) ==
  \A v \in Instances : Accepts(before, before.root, v) => Accepts(after, after.root, v)
Kept ==
  /\ given.direction # "forward" => Keeps(given.before, given.after)
  /\ given.direction # "backward" => Keeps(given.after, given.before)

(* Where the comparison looks at every keyword, it errs on the safe side:  *)
(* without a finding, whoever used the one schema can use the other.       *)
RECURSIVE Seen(_)
Seen(s) ==
  IsObject(s) =>
    /\ s.multipleOf = 1 /\ Seen(s.additional)
    /\ \A p \in DOMAIN s.properties : Seen(s.properties[p])
    /\ \A i \in DOMAIN s.allOf : RefsOf(s.allOf[i]) = {} /\ Seen(s.allOf[i])
WhollySeen(doc) == Seen(doc.root) /\ \A d \in DOMAIN doc.defs : Seen(doc.defs[d]) /\ RefsOf(doc.defs[d]) = {}
SilenceIsSafe ==
  answer = {} /\ WhollySeen(given.before) /\ WhollySeen(given.after) => Kept
=============================================================================
