---------------------------- MODULE AuditLedger ----------------------------
(***************************************************************************)
(* The audit ledger of a feature (audit_ledger.py) and the handoff of its  *)
(* immutable exports (audit_export.py, audit_sinks.py).                    *)
(*                                                                         *)
(* An event is a complete line of events.jsonl.  The event that its        *)
(* previous_sha256 names is given by who wrote it, Nobody for the zero     *)
(* hash.  What follows the last newline is the tail.  A call holds the     *)
(* file lock, which dies with its process.  As the bytes of an export      *)
(* decide its id, an export is here named by the sequence of its events;   *)
(* its manifest adds the chunk size.                                       *)
(***************************************************************************)
EXTENDS Integers, Sequences, FiniteSets

CONSTANTS
  Process,      \* processes, each in one call at a time
  ChunkSize,    \* chunk sizes that callers ask for
  Parts,        \* files of an export: its manifest and its chunks
  MaxEvents,    \* AUDIT_MAX_EVENTS
  MaxTrouble    \* bound: deaths and failed writes

VARIABLES
  log,        \* the complete lines
  tail,       \* the bytes behind them: none, torn JSON or JSON without newline
  holder,     \* the process that has the lock, or nobody
  calls,      \* the processes
  reported,   \* events whose append has returned
  sink,       \* the sink's directory: export -> published files
  staged,     \* files in the staging directory of each process, -1 without one
  trouble     \* deaths and failed writes so far

vars == <<log, tail, holder, calls, reported, sink, staged, trouble>>

Nobody == 0
Event == [by : Process, seq : 1 .. MaxEvents, prev : Process \cup {Nobody}]
Idle == [pc |-> "idle", seen |-> <<>>, chunk |-> 0]
Pc == {"idle", "append", "written", "export",
       "verify", "look", "stage", "publish", "confirm", "again", "received"}

TypeOK ==
  /\ \A i \in DOMAIN log : log[i] \in Event
  /\ tail \in {"none", "torn", "unended"} /\ holder \in Process \cup {Nobody}
  /\ \A p \in Process :
       /\ DOMAIN calls[p] = DOMAIN Idle /\ calls[p].pc \in Pc
  /\ \A export \in DOMAIN sink : sink[export].chunk \in ChunkSize
  /\ staged \in [Process -> -1 .. Parts]

Init ==
  /\ log = <<>> /\ tail = "none" /\ holder = Nobody /\ reported = {}
  /\ calls = [p \in Process |-> Idle] /\ sink = <<>>
  /\ staged = [p \in Process |-> -1] /\ trouble = 0

-----------------------------------------------------------------------------
(* _parse_bytes of complete lines: no gap, and a chain.                    *)
Last(events) == IF events = <<>> THEN Nobody ELSE events[Len(events)].by
Chained(events) ==
  \A i \in DOMAIN events :
    events[i].seq = i /\ events[i].prev = Last(SubSeq(events, 1, i - 1))

(* Who may read, and who may append after the recovery of a torn tail.     *)
Readable == tail = "none" /\ Chained(log)
Recoverable == tail # "unended" /\ Chained(log)
RecoveredShort ==   \* mutant: the line before the torn one is cut off too
  IF tail = "torn" THEN SubSeq(log, 1, Len(log) - 1) ELSE log
Recovered == log
LockIgnored == TRUE   \* mutant: the lock is not waited for
LockFree == holder = Nobody

At(p, pc) == calls[p].pc = pc
To(p, pc) == calls' = [calls EXCEPT ![p].pc = pc]
Failed(p) == calls' = [calls EXCEPT ![p] = Idle]

(* append: under the lock, read and recover, write the line, sync, return. *)
StartAppend(p) ==
  /\ At(p, "idle") /\ LockFree /\ Recoverable /\ Len(log) < MaxEvents
  /\ holder' = p /\ log' = Recovered /\ tail' = "none"
  /\ calls' = [calls EXCEPT ![p].pc = "append", ![p].seen = Recovered]
  /\ UNCHANGED <<reported, sink, staged, trouble>>

NewEvent(p) ==
  [by |-> p, seq |-> Len(calls[p].seen) + 1, prev |-> Last(calls[p].seen)]

Write(p) ==
  /\ At(p, "append")
  /\ log' = Append(log, NewEvent(p))
  /\ To(p, "written")
  /\ UNCHANGED <<tail, holder, reported, sink, staged, trouble>>

Return(p) ==
  /\ At(p, "written")
  /\ reported' = reported \cup {NewEvent(p)}
  /\ holder' = Nobody /\ Failed(p)
  /\ UNCHANGED <<log, tail, sink, staged, trouble>>

(* The write fails, or the process dies in it: any part of it may stay.    *)
WriteFails(p) ==
  /\ At(p, "append") /\ trouble < MaxTrouble
  /\ tail' \in {"none", "torn", "unended"}
  /\ holder' = Nobody /\ Failed(p) /\ trouble' = trouble + 1
  /\ UNCHANGED <<log, reported, sink, staged>>

-----------------------------------------------------------------------------
(* build_audit_export_package: verify, export and verify again.            *)
StartExport(p) ==
  /\ At(p, "idle") /\ LockFree /\ Readable
  /\ \E chunk \in ChunkSize :
       calls' = [calls EXCEPT ![p] = [Idle EXCEPT !.pc = "export", !.seen = log, !.chunk = chunk]]
  /\ UNCHANGED <<log, tail, holder, reported, sink, staged, trouble>>

(* Later reads have to find what the first one did: the export with the    *)
(* verification behind it, and the verification of handoff_audit_export.   *)
Same(p) == log = calls[p].seen
ReadAgain(p) ==
  /\ calls[p].pc \in {"export", "verify"} /\ LockFree
  /\ IF ~(Readable /\ Same(p)) THEN Failed(p)
     ELSE To(p, IF At(p, "export") THEN "verify" ELSE "look")
  /\ UNCHANGED <<log, tail, holder, reported, sink, staged, trouble>>

(* LocalFilesystemAuditSink.handoff: what is there must be the same, and   *)
(* complete; otherwise it is put together aside and renamed.               *)
Mine(p) == calls[p].seen
Package(p) == [chunk |-> calls[p].chunk, parts |-> Parts]
AcceptsAny(p) == TRUE   \* mutant: what is there is not compared
AcceptsPresent(p) == sink[Mine(p)] = Package(p)

Present(p) ==
  IF AcceptsPresent(p)
  THEN To(p, "again")
  ELSE Failed(p)

Look(p) ==
  /\ At(p, "look")
  /\ IF Mine(p) \in DOMAIN sink THEN Present(p) /\ UNCHANGED staged
     ELSE To(p, "stage") /\ staged' = [staged EXCEPT ![p] = 0]
  /\ UNCHANGED <<log, tail, holder, reported, sink, trouble>>

StagedEarly(p) == staged[p] > 0   \* mutant: published before all files are there
StagedAll(p) == staged[p] = Parts
Stage(p) ==
  /\ At(p, "stage")
  /\ IF StagedAll(p) THEN To(p, "publish") /\ UNCHANGED staged
     ELSE staged' = [staged EXCEPT ![p] = @ + 1] /\ UNCHANGED calls
  /\ UNCHANGED <<log, tail, holder, reported, sink, trouble>>

(* The rename fails when another process was first.                        *)
RenameOver(p) == FALSE   \* mutant: it replaces what another process published
Occupied(p) == Mine(p) \in DOMAIN sink
Publish(p) ==
  /\ At(p, "publish")
  /\ IF Occupied(p) THEN Present(p) /\ UNCHANGED sink
     ELSE /\ sink' = [e \in DOMAIN sink \cup {Mine(p)} |->
                        IF e = Mine(p) THEN [Package(p) EXCEPT !.parts = staged[p]] ELSE sink[e]]
          /\ To(p, "confirm")
  /\ staged' = [staged EXCEPT ![p] = -1]
  /\ UNCHANGED <<log, tail, holder, reported, trouble>>

Confirm(p) ==
  /\ At(p, "confirm")
  /\ IF sink[Mine(p)] = Package(p)
     THEN To(p, "again")
     ELSE Failed(p)
  /\ UNCHANGED <<log, tail, holder, reported, sink, staged, trouble>>

(* handoff_audit_export verifies the ledger once more; a receipt is only   *)
(* returned for the ledger as it is.  The caller keeps it for a while.     *)
Receive(p) ==
  /\ At(p, "again") /\ LockFree
  /\ IF Readable /\ Same(p) THEN To(p, "received") ELSE Failed(p)
  /\ UNCHANGED <<log, tail, holder, reported, sink, staged, trouble>>

Forget(p) ==
  /\ At(p, "received") /\ Failed(p)
  /\ UNCHANGED <<log, tail, holder, reported, sink, staged, trouble>>

(* A file cannot be staged: the directory is removed.                      *)
StageFails(p) ==
  /\ At(p, "stage") /\ trouble < MaxTrouble
  /\ staged' = [staged EXCEPT ![p] = -1] /\ Failed(p) /\ trouble' = trouble + 1
  /\ UNCHANGED <<log, tail, holder, reported, sink>>

Dies(p) ==
  /\ calls[p].pc \notin {"idle", "append"} /\ trouble < MaxTrouble
  /\ holder' = IF holder = p THEN Nobody ELSE holder
  /\ Failed(p) /\ trouble' = trouble + 1
  /\ UNCHANGED <<log, tail, reported, sink, staged>>

Next ==
  \E p \in Process :
    \/ StartAppend(p) \/ Write(p) \/ Return(p) \/ WriteFails(p)
    \/ StartExport(p) \/ ReadAgain(p) \/ Look(p) \/ Stage(p) \/ Publish(p)
    \/ Confirm(p) \/ Receive(p) \/ Forget(p) \/ StageFails(p) \/ Dies(p)

Spec == Init /\ [][Next]_vars
-----------------------------------------------------------------------------
Begins(events, more) ==
  Len(events) <= Len(more) /\ SubSeq(more, 1, Len(events)) = events

(* Whatever dies in whatever write, all complete lines are one chain, and  *)
(* every append that returned is still in it.                              *)
ChainHolds == Chained(log) /\ \A e \in reported : e.seq \in DOMAIN log /\ log[e.seq] = e

(* Who holds a receipt finds his export in the sink, complete and cut as   *)
(* he asked for, and the ledger still begins with it.                      *)
ReceiptsHold ==
  \A p \in Process : At(p, "received") =>
    /\ Mine(p) \in DOMAIN sink /\ sink[Mine(p)] = Package(p)
    /\ Begins(Mine(p), log)

(* Nothing is ever seen in the sink that is not a whole export of a chain, *)
(* and what is published there never changes.                              *)
PublishedIsWhole ==
  \A e \in DOMAIN sink : sink[e].parts = Parts /\ Chained(e) /\ Begins(e, log)
PublishedStays ==
  /\ Begins(log, log')
  /\ \A e \in DOMAIN sink : e \in DOMAIN sink' /\ sink'[e] = sink[e]
=============================================================================
