--------------------------- MODULE ExecutionLedger ---------------------------
(***************************************************************************)
(* One run directory of execution_ledger.py - run.json, events.jsonl,      *)
(* checkpoint.json, ledger.lock and the task records - used by several     *)
(* operating-system processes, any of which may die between two steps.     *)
(*                                                                         *)
(* A call of the ledger is the steps Acquire, Read and Write: the lock is  *)
(* taken without waiting (a busy lock is an error to the caller, so here   *)
(* the call simply does not happen), the log is read and judged, and the   *)
(* one write that follows gives the lock back.  The hash of an event binds *)
(* the whole prefix before it, so the head hash of a log that only grows   *)
(* is its length: "seq" stands for sequence, event_id and previous_sha256. *)
(***************************************************************************)
EXTENDS RunState

CONSTANTS
  Requests,    \* the events that callers ask for
  Proc,        \* processes that use the run
  NoProc,      \* the lock is free
  NoCkpt,      \* checkpoint.json does not exist
  Missing,     \* the file does not exist
  RecordOf,    \* the record file a task's evidence is written to
  MaxLog       \* bound: lines of events.jsonl

ASSUME RequestsAssumption == Wellformed(Requests)
ASSUME NoProcAssumption == NoProc \notin Proc
ASSUME MissingAssumption == Missing \notin Digest
ASSUME RecordAssumption == RecordOf \in [Task -> Source]
ASSUME BoundAssumption == MaxLog \in Nat

VARIABLES
  dir,      \* "absent", "made" or "manifest": how far creation got
  log,      \* the complete lines of events.jsonl
  torn,     \* events.jsonl ends in an incomplete record
  ckpt,     \* checkpoint.json
  files,    \* workspace bytes of the sources that bindings name
  lock,     \* the process that owns the OS lock on ledger.lock
  pc,       \* where each process is in its call
  job,      \* what the call asks for
  head,     \* the head of the log as the process last saw it
  handle    \* the process holds an ExecutionLedger object

disk == <<dir, log, torn, ckpt, files>>
vars == <<dir, log, torn, ckpt, files, lock, pc, job, head, handle>>

Any == -1   \* expected_last_sha256 is not given

(* A line of events.jsonl.  "after" is the head its writer expected.       *)
Line == [seq : Nat, ev : Requests, after : Nat \cup {Any}]

Job == [op : {"append"}, ev : Requests, after : Nat \cup {Any}]
       \cup [op : {"record"}, task : Task, dig : Digest]
       \cup [op : {"load", "checkpoint", "restore"}]
NoJob == [op |-> "load"]

Events == [n \in DOMAIN log |-> log[n].ev]
St == Reconstruct(Events)

(* What _load_events_unlocked accepts: no torn tail, an unbroken chain,    *)
(* and a history that the reducer admits line by line.                     *)
Readable == /\ ~torn
            /\ \A n \in DOMAIN log : log[n].seq = n
            /\ AllLegal(Events)

TypeOK ==
  /\ dir \in {"absent", "made", "manifest"}
  /\ log \in Seq(Line)
  /\ torn \in BOOLEAN
  /\ ckpt \in {NoCkpt} \cup [last : Nat, st : State]
  /\ files \in [Source -> Digest \cup {Missing}]
  /\ lock \in Proc \cup {NoProc}
  /\ pc \in [Proc -> {"idle", "mkdir", "read", "write"}]
  /\ job \in [Proc -> Job]
  /\ head \in [Proc -> Nat]
  /\ handle \in [Proc -> BOOLEAN]

Init ==
  /\ dir = "absent" /\ log = <<>> /\ torn = FALSE /\ ckpt = NoCkpt
  /\ files = [s \in Source |-> Missing]
  /\ lock = NoProc
  /\ pc = [p \in Proc |-> "idle"]
  /\ job = [p \in Proc |-> NoJob]
  /\ head = [p \in Proc |-> 0]
  /\ handle = [p \in Proc |-> FALSE]

-----------------------------------------------------------------------------
(* create_execution_run: mkdir(exist_ok=False), then run.json, then the    *)
(* run.created event through the ordinary append path.                     *)
CreateRun(p) ==
  /\ pc[p] = "idle" /\ dir = "absent"
  /\ dir' = "made" /\ pc' = [pc EXCEPT ![p] = "mkdir"]
  /\ UNCHANGED <<log, torn, ckpt, files, lock, job, head, handle>>

WriteManifest(p) ==
  /\ pc[p] = "mkdir" /\ dir = "made"
  /\ dir' = "manifest"
  /\ handle' = [handle EXCEPT ![p] = TRUE]
  /\ UNCHANGED <<log, torn, ckpt, files, lock, pc, job, head>>

LockIgnored == TRUE   \* mutant: two calls at once
LockFree == lock = NoProc

(* A call takes the lock.  The creator's first call appends run.created;   *)
(* any other process must load the run before it can use it.               *)
Acquire(p, j) ==
  /\ LockFree /\ dir = "manifest"
  /\ \/ pc[p] = "mkdir" /\ j.op = "append" /\ j.ev.kind = "run.created"
     \/ pc[p] = "idle" /\ (handle[p] \/ j.op = "load")
  /\ j.op = "append" => j.after \in {Any, head[p]} /\ Len(log) < MaxLog
  /\ lock' = p
  /\ pc' = [pc EXCEPT ![p] = "read"]
  /\ job' = [job EXCEPT ![p] = j]
  /\ UNCHANGED <<disk, head, handle>>

(* The lock is taken without waiting: a call that finds it busy fails.     *)
(* Only for the creator does that matter: its run never gets a first line. *)
Busy(p) ==
  /\ pc[p] = "mkdir" /\ dir = "manifest" /\ lock # NoProc
  /\ pc' = [pc EXCEPT ![p] = "idle"]
  /\ handle' = [handle EXCEPT ![p] = FALSE]
  /\ UNCHANGED <<disk, lock, job, head>>

Bound(binds) == \A b \in binds : files[b.src] = b.dig

(* What a call decides once it holds the lock and has read the log.        *)
CanAppendLate(j) ==   \* mutant: an older head is good enough
  /\ j.after <= Len(log)
  /\ Legal(St, j.ev)
  /\ j.ev.kind = "task.completed" => Bound(j.ev.binds)
CanAppendUnjudged(j) == j.after \in {Any, Len(log)}   \* mutant: any event goes in

CanAppend(j) ==
  /\ j.after \in {Any, Len(log)}
  /\ Legal(St, j.ev)
  /\ j.ev.kind = "task.completed" => Bound(j.ev.binds)

CanWriteUnread(j) ==   \* mutant: the log is not validated first
  \/ j.op = "append" /\ CanAppend(j)
  \/ j.op = "record" /\ St.tasks[j.task].status \in {"registered", "started"}
  \/ j.op = "checkpoint"

CanWrite(j) ==
  /\ Readable
  /\ \/ j.op = "append" /\ CanAppend(j)
     \/ j.op = "record" /\ St.tasks[j.task].status \in {"registered", "started"}
     \/ j.op = "checkpoint"

(* load_execution_run: the first line must be run.created.                 *)
CanLoad(j) == j.op = "load" /\ Readable /\ log # <<>> /\ log[1].ev.kind = "run.created"

(* load_checkpoint accepts only a snapshot of the current log.             *)
CanRestore(j) == j.op = "restore" /\ Readable /\ ckpt # NoCkpt
                 /\ ckpt.last = Len(log) /\ ckpt.st = St

(* The context manager gives the lock back however the call ends.          *)
Return(p) ==
  /\ lock' = NoProc
  /\ pc' = [pc EXCEPT ![p] = "idle"]
  /\ job' = [job EXCEPT ![p] = NoJob]

ReadToWrite(p) ==
  /\ pc[p] = "read" /\ CanWrite(job[p])
  /\ pc' = [pc EXCEPT ![p] = "write"]
  /\ head' = [head EXCEPT ![p] = Len(log)]
  /\ UNCHANGED <<disk, lock, job, handle>>

ReadToReturn(p) ==
  /\ pc[p] = "read" /\ (CanLoad(job[p]) \/ CanRestore(job[p]))
  /\ Return(p)
  /\ handle' = [handle EXCEPT ![p] = TRUE]
  /\ head' = [head EXCEPT ![p] = Len(log)]
  /\ UNCHANGED disk

Refuse(p) ==
  /\ pc[p] = "read"
  /\ ~CanWrite(job[p]) /\ ~CanLoad(job[p]) /\ ~CanRestore(job[p])
  /\ Return(p)
  /\ UNCHANGED <<disk, head, handle>>

NewLineBefore(p) == [seq |-> head[p] - 1, ev |-> job[p].ev, after |-> job[p].after]   \* mutant
NewLine(p) == [seq |-> head[p] + 1, ev |-> job[p].ev, after |-> job[p].after]

NewCheckpointAhead(p) == [last |-> head[p] + 1, st |-> St]   \* mutant: one event too many
NewCheckpoint(p) == [last |-> head[p], st |-> St]

Write(p) ==
  /\ pc[p] = "write"
  /\ Return(p)
  /\ \/ /\ job[p].op = "append"
        /\ log' = Append(log, NewLine(p))
        /\ head' = [head EXCEPT ![p] = @ + 1]
        /\ UNCHANGED <<ckpt, files>>
     \/ /\ job[p].op = "record"
        /\ files' = [files EXCEPT ![RecordOf[job[p].task]] = job[p].dig]
        /\ UNCHANGED <<log, ckpt, head>>
     \/ /\ job[p].op = "checkpoint"
        /\ ckpt' = NewCheckpoint(p)
        /\ UNCHANGED <<log, files, head>>
  /\ UNCHANGED <<dir, torn, handle>>

LockAfterKept(p) == lock   \* mutant: a dead process keeps the lock
LockAfter(p) == IF lock = p THEN NoProc ELSE lock

(* The process dies, or an I/O error ends its call.  Its lock dies with    *)
(* it.  A file replaced atomically is old or new; an append that was under *)
(* way left nothing, a partial record, or (as after Write) the whole line. *)
Crash(p) ==
  /\ pc[p] # "idle" \/ handle[p]
  /\ lock' = LockAfter(p)
  /\ pc' = [pc EXCEPT ![p] = "idle"]
  /\ job' = [job EXCEPT ![p] = NoJob]
  /\ head' = [head EXCEPT ![p] = 0]
  /\ handle' = [handle EXCEPT ![p] = FALSE]
  /\ torn' \in (IF pc[p] = "write" /\ job[p].op = "append" THEN {torn, TRUE} ELSE {torn})
  /\ UNCHANGED <<dir, log, ckpt, files>>

(* Anybody may edit the workspace at any time.                             *)
EditFile(s, d) ==
  /\ files[s] # d
  /\ files' = [files EXCEPT ![s] = d]
  /\ UNCHANGED <<dir, log, torn, ckpt, lock, pc, job, head, handle>>

Jobs(p) == [op : {"append"}, ev : Requests, after : {Any, head[p]}]
           \cup [op : {"record"}, task : Task, dig : Digest]
           \cup [op : {"load", "checkpoint", "restore"}]

Step(p) == ReadToWrite(p) \/ ReadToReturn(p) \/ Refuse(p) \/ Write(p)

Next ==
  \/ \E p \in Proc :
       \/ CreateRun(p) \/ WriteManifest(p) \/ Busy(p)
       \/ \E j \in Jobs(p) : Acquire(p, j)
       \/ Step(p) \/ Crash(p)
  \/ \E s \in Source, d \in Digest \cup {Missing} : EditFile(s, d)

Spec == Init /\ [][Next]_vars

-----------------------------------------------------------------------------
(* The ledger is one run whose state changes by legal events only, however *)
(* its users interleave and crash: the whole file, refolded, refines it.   *)
RL == INSTANCE RunLifecycle WITH st <- St
Implements == RL!Spec

(* Readers can always use the file, unless a crash cut its last record.    *)
OnlyTornIsUnreadable == ~torn => Readable

(* Compare-and-append is honest: a line with an expected head stands right *)
(* after the head its caller had seen, so nothing was decided in between.  *)
CasHonest == \A n \in DOMAIN log : log[n].after \in {Any, n - 1}

(* A checkpoint is the state after some prefix of the log: it can be stale *)
(* but never describes a run that did not happen.                          *)
CheckpointIsPrefix ==
  ckpt # NoCkpt => ckpt.last \in DOMAIN History(Events) /\ ckpt.st = History(Events)[ckpt.last]

(* One call at a time, and the lock is owned by its process only while it  *)
(* is inside: neither the end of a call nor a death leaves a busy lock     *)
(* behind that would make the run unusable (_LedgerLock).                  *)
Exclusive == \A p \in Proc : lock = p <=> pc[p] \in {"read", "write"}

(* An incomplete record closes the run: no line is glued to it.            *)
TornIsFinal == [][torn => log' = log /\ torn']_vars
=============================================================================
