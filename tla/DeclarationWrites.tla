--------------------------- MODULE DeclarationWrites ---------------------------
(***************************************************************************)
(* Two files of a project that several processes replace after a look at   *)
(* their hash: the pack lock (pack_lock.py, write_pack_lock) and the       *)
(* declaration of specification stores (specification_store_lifecycle.py,  *)
(* register_store).  The first holds an operating-system lock on a guard   *)
(* file over the comparison and the replacement, the second compares       *)
(* twice; the first creates the file by a replacement too, the second      *)
(* opens it exclusively and fills it.                                      *)
(*                                                                         *)
(* A file's bytes are known by the writers whose entries they contain.     *)
(***************************************************************************)
EXTENDS Integers, FiniteSets

CONSTANTS
  Writer,      \* numbers from 1
  Guarded,     \* write_pack_lock (TRUE) or register_store (FALSE)
  MaxTrouble   \* bound: crashes and edits

(* The file: missing, being created, or the entries that it has.           *)
NoFile == [is |-> "missing", entries |-> {}]
Partial == [is |-> "partial", entries |-> {}]
Holds(entries) == [is |-> "file", entries |-> entries]

VARIABLES
  file,     \* the declaration
  guard,    \* writer that holds the guard file's lock, or none
  p,        \* what each writer does: where it is and what it has read
  done,     \* history: writers that reported success
  edited,   \* history: somebody else replaced the file
  racers,   \* history: who was past its last comparison when an entry appeared
  trouble   \* crashes and edits so far

vars == <<file, guard, p, done, edited, racers, trouble>>

Nobody == 0
Idle == [pc |-> "idle", read |-> NoFile]

TypeOK ==
  /\ file.is \in {"missing", "partial", "file"} /\ file.entries \subseteq Writer
  /\ guard \in Writer \cup {Nobody} /\ done \subseteq Writer
  /\ \A w \in Writer : p[w].read.entries \subseteq Writer
  /\ trouble \in 0 .. MaxTrouble

Init ==
  /\ file \in {NoFile, Holds({})} /\ guard = Nobody
  /\ p = [w \in Writer |-> Idle] /\ done = {} /\ edited = FALSE
  /\ racers = [w \in Writer |-> {}] /\ trouble = 0

-----------------------------------------------------------------------------
Go(w, pc) == p' = [p EXCEPT ![w].pc = pc]
Stop(w) == p' = [p EXCEPT ![w] = Idle] /\ guard' = IF guard = w THEN Nobody ELSE guard

(* The caller reads the file and works out what it is to hold; a file that *)
(* cannot be parsed is refused.                                            *)
Read(w) ==
  /\ p[w].pc = "idle" /\ w \notin done /\ file.is # "partial" /\ w \notin file.entries
  /\ p' = [p EXCEPT ![w] = [pc |-> IF Guarded THEN "lock" ELSE "check", read |-> file]]
  /\ UNCHANGED <<file, guard, done, edited, racers, trouble>>

(* _exclusive_write_lock *)
TakesAnyway(w) == TRUE   \* mutant: the guard file is not locked
Takes(w) == guard = Nobody
Lock(w) ==
  /\ p[w].pc = "lock" /\ Takes(w) /\ guard' = w /\ Go(w, "check")
  /\ UNCHANGED <<file, done, edited, racers, trouble>>

Same(w) == file = p[w].read

Check(w) ==
  /\ p[w].pc = "check"
  /\ \/ ~Same(w) /\ Stop(w) /\ UNCHANGED file
     \/ Same(w) /\ (Guarded \/ file # NoFile) /\ Go(w, "temporary") /\ UNCHANGED <<file, guard>>
     \/ Same(w) /\ ~Guarded /\ file = NoFile /\ file' = Partial /\ Go(w, "fill") /\ UNCHANGED guard
  /\ UNCHANGED <<done, edited, racers, trouble>>

(* An entry appears by its writer, or by one that had read it before       *)
(* another one lost it.                                                    *)
Races ==
  racers' = [w \in Writer |-> IF w \in file'.entries \ file.entries
                              THEN {v \in Writer : p[v].pc = "replace"} ELSE racers[w]]

(* register_store: the file is opened exclusively, and then filled.        *)
Fill(w) ==
  /\ p[w].pc = "fill" /\ file' = Holds({w}) /\ Go(w, "reload") /\ Races
  /\ UNCHANGED <<guard, done, edited, trouble>>

ComparesNoMore(w) == TRUE   \* mutant: only the first comparison
ComparesAgain(w) == Guarded \/ Same(w)
(* The temporary file is written; register_store compares once more.       *)
Temporary(w) ==
  /\ p[w].pc = "temporary"
  /\ IF ComparesAgain(w) THEN Go(w, "replace") /\ UNCHANGED guard ELSE Stop(w)
  /\ UNCHANGED <<file, done, edited, racers, trouble>>

Replace(w) ==
  /\ p[w].pc = "replace" /\ file' = Holds(p[w].read.entries \cup {w}) /\ Races
  /\ IF Guarded THEN done' = done \cup {w} /\ Stop(w)
     ELSE Go(w, "reload") /\ UNCHANGED <<done, guard>>
  /\ UNCHANGED <<edited, trouble>>

(* register_store reads the declaration again before it reports success.   *)
Reports(w) == file = Holds(p[w].read.entries \cup {w})
Reload(w) ==
  /\ p[w].pc = "reload" /\ Stop(w)
  /\ done' = IF Reports(w) THEN done \cup {w} ELSE done
  /\ UNCHANGED <<file, edited, racers, trouble>>

-----------------------------------------------------------------------------
Trouble == trouble < MaxTrouble /\ trouble' = trouble + 1

(* A process dies; the operating system releases its lock.                 *)
Crash(w) == p[w].pc # "idle" /\ Stop(w) /\ Trouble /\ UNCHANGED <<file, done, edited, racers>>

(* Somebody restores an older file or removes a broken one.                *)
Edit ==
  /\ \E entries \in SUBSET file.entries : file' \in {NoFile, Holds(entries)} \ {file}
  /\ edited' = TRUE /\ Trouble /\ UNCHANGED <<guard, p, done, racers>>

Goes(w) == Lock(w) \/ Check(w) \/ Fill(w) \/ Temporary(w) \/ Replace(w) \/ Reload(w)
Next == (\E w \in Writer : Read(w) \/ Goes(w) \/ Crash(w)) \/ Edit

Spec == Init /\ [][Next]_vars
-----------------------------------------------------------------------------
(* write_pack_lock: no writer loses what another one has written, however  *)
(* their readings, comparisons and replacements interleave and whoever     *)
(* dies where.                                                             *)
NothingLost == Guarded /\ ~edited => done \subseteq file.entries

(* register_store: an entry that was reported disappears only by the hand  *)
(* of a process that had passed its last comparison when the entry         *)
(* appeared, never by one that compared later.                             *)
LostToARacer ==
  \A w \in done : w \in file.entries /\ w \notin file'.entries =>
    edited' \/ (~Guarded /\ \E v \in racers[w] : p[v].pc = "replace" /\ p'[v].pc = "reload")
=============================================================================
