----------------------------- MODULE PackResolver -----------------------------
(***************************************************************************)
(* The choice of exact versions for a pack lock (pack_lock.py): a search   *)
(* in depth that takes the first open coordinate, tries its versions from  *)
(* the highest and goes back when a choice fails further down.             *)
(*                                                                         *)
(* Coordinates and versions are numbers, in their order.  A constraint is  *)
(* the set of versions that match it.  The stack of the recursion holds    *)
(* for each call what it has selected and which versions it may still try. *)
(***************************************************************************)
EXTENDS Integers, Sequences, FiniteSets

CONSTANTS
  Coordinates,   \* number of coordinates; the root is coordinate 1
  Versions,      \* number of versions that exist of each other coordinate
  Constraint     \* the sets of versions that a dependency may ask for

Coordinate == 1 .. Coordinates
Version == 1 .. Versions
NoDependency == {}
Candidate == {<<1, 1>>} \cup (2 .. Coordinates) \X Version

VARIABLES
  needs,    \* dependencies of each candidate: coordinate -> versions, or none
  stack,    \* calls of _solve that have not returned
  outcome   \* "searching", "failed" or "resolved"

vars == <<needs, stack, outcome>>

(* selected: the version chosen of each coordinate so far; the candidates  *)
(* of coordinate that are left to try, once the call has computed them.    *)
Frame(selected) == [selected |-> selected, coordinate |-> 0, left |-> {}]

TypeOK ==
  /\ outcome \in {"searching", "failed", "resolved"} /\ Len(stack) <= Coordinates
  /\ \A i \in DOMAIN stack :
       DOMAIN stack[i].selected \subseteq Coordinate /\ stack[i].left \subseteq Version

Init ==
  /\ \E asked \in [Candidate -> [1 .. Coordinates - 1 -> Constraint \cup {NoDependency}]] :
       needs = [c \in Candidate |-> [d \in Coordinate |->
         IF d = c[1] THEN NoDependency ELSE asked[c][IF d < c[1] THEN d ELSE d - 1]]]
  /\ stack = <<Frame([c \in {1} |-> 1])>> /\ outcome = "searching"

-----------------------------------------------------------------------------
Chosen(selected) == {<<c, selected[c]>> : c \in DOMAIN selected}

(* The constraints that what is selected puts on a coordinate.             *)
Required(selected, c) == {needs[d][c] : d \in Chosen(selected)} \ {NoDependency}
Matches(selected, c, v) == \A r \in Required(selected, c) : v \in r
Unresolved(selected) == {c \in Coordinate : Required(selected, c) # {}} \ DOMAIN selected
Conflict(selected) == \E c \in DOMAIN selected : ~Matches(selected, c, selected[c])

(* _reject_cycles: nobody is left over when leaves are taken away.         *)
Leaves(selected, C) ==
  {c \in C : \A d \in C : needs[<<c, selected[c]>>][d] = NoDependency}
Cyclic(selected) ==
  LET rest[n \in 0 .. Coordinates] ==
        IF n = 0 THEN DOMAIN selected
        ELSE rest[n - 1] \ Leaves(selected, rest[n - 1])
  IN rest[Coordinates] # {}

Top == stack[Len(stack)]
Under == SubSeq(stack, 1, Len(stack) - 1)
First(C) == CHOOSE c \in C : \A d \in C : c <= d
Oldest(V) == CHOOSE v \in V : \A w \in V : v <= w   \* mutant: versions in rising order
Highest(V) == CHOOSE v \in V : \A w \in V : w <= v

(* _matching_candidates *)
Candidates(selected, c) ==
  {v \in Version : Matches(selected, c, v) /\ <<c, v>> \in Candidate}

Enters == outcome = "searching" /\ stack # <<>> /\ Top.coordinate = 0

(* The call has a conflict, or all is selected: it fails or returns.       *)
Return ==
  /\ Enters
  /\ \/ /\ Conflict(Top.selected) /\ stack' = Under /\ UNCHANGED outcome
     \/ /\ ~Conflict(Top.selected) /\ Unresolved(Top.selected) = {}
        /\ IF Cyclic(Top.selected) THEN stack' = Under /\ UNCHANGED outcome
           ELSE outcome' = "resolved" /\ UNCHANGED stack
  /\ UNCHANGED needs

Open ==
  /\ Enters /\ ~Conflict(Top.selected) /\ Unresolved(Top.selected) # {}
  /\ LET c == First(Unresolved(Top.selected)) IN
     stack' = Append(Under, [Top EXCEPT !.coordinate = c, !.left = Candidates(Top.selected, c)])
  /\ UNCHANGED <<needs, outcome>>

NoMore(v) == {}   \* mutant: only the highest version is tried
Rest(v) == Top.left \ {v}

(* The next candidate is tried; without one, the call fails.               *)
Try ==
  /\ outcome = "searching" /\ stack # <<>> /\ Top.coordinate # 0
  /\ IF Top.left = {} THEN stack' = Under
     ELSE LET v == Highest(Top.left) IN
          stack' = Append(Append(Under, [Top EXCEPT !.left = Rest(v)]),
                     Frame([c \in DOMAIN Top.selected \cup {Top.coordinate} |->
                              IF c = Top.coordinate THEN v ELSE Top.selected[c]]))
  /\ UNCHANGED <<needs, outcome>>

Fail == outcome = "searching" /\ stack = <<>> /\ outcome' = "failed" /\ UNCHANGED <<needs, stack>>

Next == Return \/ Open \/ Try \/ Fail
Spec == Init /\ [][Next]_vars
-----------------------------------------------------------------------------
(* A lock in the sense of docs/PACK-LOCK.md, without the search: a version *)
(* of each pack that is needed and of no other, all constraints hold, and  *)
(* nothing depends on itself.                                              *)
NeededBy(selected) == {1} \cup {c \in Coordinate : Required(selected, c) # {}}
Depends(selected) == {<<c, d>> \in (DOMAIN selected) \X (DOMAIN selected) :
                        needs[<<c, selected[c]>>][d] # NoDependency}
Acyclic(selected) ==
  \A C \in SUBSET (DOMAIN selected) \ {{}} :
    \E c \in C : \A d \in C : <<c, d>> \notin Depends(selected)
IsLock(selected) ==
  /\ Chosen(selected) \subseteq Candidate /\ NeededBy(selected) = DOMAIN selected
  /\ ~Conflict(selected) /\ Acyclic(selected)
Locks == {selected \in UNION {[C -> Version] : C \in SUBSET Coordinate} :
            1 \in DOMAIN selected /\ IsLock(selected)}

(* The search is right: what it resolves is a lock, and it fails only if   *)
(* there is none, however far it has to go back.                           *)
SearchIsRight ==
  /\ outcome = "resolved" => Top.selected \in Locks
  /\ outcome = "failed" => Locks = {}

(* Its first choice is the highest version that any lock has: an older one *)
(* is locked only if the newer ones lead to no lock at all.                *)
FirstDependency == First(Unresolved([c \in {1} |-> 1]))
HighestIsTaken ==
  outcome = "resolved" /\ DOMAIN Top.selected # {1} =>
    \A other \in Locks : other[FirstDependency] <= Top.selected[FirstDependency]
=============================================================================
