-------------------------- MODULE FeatureRepositories --------------------------
(***************************************************************************)
(* A feature over several repositories: verify_all_repositories builds the *)
(* graph of the feature twice (multi_repo_feature_graph.py) from stores,   *)
(* from the declared owners (feature_repositories.py) and from the trace   *)
(* of every repository, extends the first one by the evidence of pull      *)
(* requests (multi_repo_pr_graph.py, pr_traceability.py), plans on the     *)
(* second (multi_repo_run.py), compares the baselines, and verifies one    *)
(* repository after another (multi_repo_verify.py).  Nothing is locked:    *)
(* people edit, commit, amend and remove at any moment, and every read of  *)
(* a repository is a step.                                                 *)
(*                                                                         *)
(* An entity is <<kind, name>>.  A selector says what its pattern matches. *)
(* A commit is a number; a trace is a function from entities to what is    *)
(* told of them.                                                           *)
(***************************************************************************)
EXTENDS Integers, Sequences, FiniteSets, SequencesExt, FiniteSetsExt, TLC

CONSTANTS
  Starts,      \* what people may start from; see Init
  Manifests,   \* the declarations of owners that may be written
  Edits,       \* changes of a repository: its path and the fields that change
  Nested,      \* pairs of paths of which one is within the other
  Sourced,     \* entities read from contract sources: the traces hold their file's hash
  MaxSteps     \* edits by people, before and during the verification

VARIABLES given, answer
vars == <<given, answer>>

Routable == {"requirement", "contract", "component", "task"}
Finding(level, code, subject) == [level |-> level, code |-> code, subject |-> subject]
Graph == [declared |-> {}, told |-> <<>>, owned |-> {}, included |-> {}, findings |-> {}]
Idle == [at |-> "idle", exit |-> "none"]

(* repos: path -> is it a Git repository, an SD-AI project, clean; its     *)
(* history and all its commits; its trace of the feature; the evidence of  *)
(* pull requests; the verdict of its own verification; moves and retold    *)
(* are the edits it had, and those after which the file of a contract      *)
(* source it told of is another one or gone.                               *)
Init ==
  /\ given \in {[repos |-> s.repos, manifest |-> s.manifest, stores |-> s.stores, steps |-> s.spent] : s \in Starts}
  /\ answer = Idle

-----------------------------------------------------------------------------
(* People.  An edit that is not committed leaves the repository dirty.     *)
There(path) == path \in DOMAIN given.repos /\ given.repos[path].git
Editing == answer.at # "done" /\ given.steps < MaxSteps /\ UNCHANGED answer
Now == given.steps + 1
Commit == 10 + given.steps
Hashed(trace) == DOMAIN trace \cap Sourced
Differ(told, now) == \E n \in Hashed(told) : n \notin DOMAIN now \/ now[n] # told[n]
Moved(r) == [r EXCEPT !.moves = @ \cup {Now}]
Change(path, r) == given' = [given EXCEPT !.steps = Now, !.repos[path] = Moved(r)]
Edit ==
  /\ Editing
  /\ \E e \in {x \in Edits : There(x.path)} :
       LET r == given.repos[e.path]
           edited == [f \in DOMAIN r |-> IF f \in DOMAIN e.new THEN e.new[f] ELSE r[f]]
       IN /\ edited # r
          /\ Change(e.path,
               [edited EXCEPT !.clean = e.committed,
                              !.retold = IF Differ(r.trace, edited.trace) THEN @ \cup {Now} ELSE @,
                              !.history = IF e.committed THEN Append(@, Commit) ELSE @,
                              !.commits = IF e.committed THEN @ \cup {Commit} ELSE @])
Amend ==
  /\ Editing
  /\ \E path \in DOMAIN given.repos :
       LET r == given.repos[path] IN
       /\ r.git /\ Len(r.history) > 1
       /\ Change(path, [r EXCEPT !.history = Append(Front(@), Commit), !.commits = @ \cup {Commit}])
GoAway ==
  /\ Editing
  /\ \E path \in DOMAIN given.repos :
       LET r == given.repos[path] IN
       r.git /\ Change(path, [r EXCEPT !.git = FALSE, !.retold = IF Hashed(r.trace) = {} THEN @ ELSE @ \cup {Now}])
Declare ==
  /\ Editing
  /\ \E m \in Manifests \ {given.manifest} : given' = [given EXCEPT !.steps = Now, !.manifest = m]

-----------------------------------------------------------------------------
(* FeatureRepositoryManifest and resolve_feature_repositories; no          *)
(* declaration is <<>>.                                                    *)
Acceptable(m) ==
  /\ \A i, j \in DOMAIN m :
       i # j => m[i].id # m[j].id /\ m[i].path # m[j].path /\ m[i].owns \cap m[j].owns = {}
  /\ \A i \in DOMAIN m : m[i].owns # {} /\ \A s \in m[i].owns : s.type \in m[i].capabilities
Present(r) == There(r.path)
Overlap(m, i) == Present(m[i]) /\ \E j \in 1..i-1 : Present(m[j]) /\ {m[i].path, m[j].path} \in Nested
Refused(m) == {i \in DOMAIN m : Overlap(m, i) \/ (m[i].required /\ ~Present(m[i]))}
Problem(m) ==
  IF m = <<>> THEN "MISSING-REPOSITORIES"
  ELSE IF ~Acceptable(m) THEN "AMBIGUOUS-REPOSITORIES"
  ELSE IF Refused(m) = {} THEN "none"
  ELSE IF Present(m[Min(Refused(m))]) THEN "AMBIGUOUS-REPOSITORIES" ELSE "MISSING-REPOSITORY"
Resolved(m) == [i \in DOMAIN m |-> [id |-> m[i].id, path |-> m[i].path, owns |-> m[i].owns, available |-> Present(m[i])]]

(* route_feature_entities for one entity                                   *)
Owners(repos, entity) ==
  {i \in DOMAIN repos : \E s \in repos[i].owns : s.type = entity[1] /\ entity[2] \in s.matches}
RouteProblem(repos, entity) ==
  LET owners == Owners(repos, entity) IN
  IF owners = {} THEN "MISSING-OWNERSHIP"
  ELSE IF Cardinality(owners) > 1 THEN "AMBIGUOUS-ROUTING"
  ELSE IF ~repos[Min(owners)].available THEN "MISSING-REPOSITORY"
  ELSE "none"

-----------------------------------------------------------------------------
(* verify_all_repositories: the graph of the report, then that of the plan *)
Begin ==
  /\ answer = Idle /\ UNCHANGED given
  /\ answer' = [at |-> "stores", exit |-> "none", first |-> TRUE, begun |-> given.steps, i |-> 0, graph |-> Graph,
                resolved |-> <<>>, report |-> Graph, planned |-> <<>>, blockers |-> {}, results |-> <<>>, seen |-> <<>>]
At(phase) == answer.at = phase /\ UNCHANGED given
Done(exit) == [answer EXCEPT !.at = "done", !.exit = exit]
Found(graph, findings) == [graph EXCEPT !.findings = @ \cup findings]
After == IF answer.first THEN "resolve-pr" ELSE "plan"
Seen(id, what) == <<id, what>> :> given.steps @@ answer.seen
Here == answer.resolved[answer.i]
Repo == given.repos[Here.path]
Onward(phase, next) == IF answer.i = Len(answer.resolved) THEN next ELSE phase

(* _load_stores and _add_store_requirements                                *)
ReadStores ==
  /\ At("stores")
  /\ LET s == given.stores
         changed == {id \in DOMAIN s.of : s.of[id].exists}
         readable == {id \in changed : s.of[id].readable}
         level == IF s.state = "unreadable" \/ readable # changed THEN "error" ELSE "warning"
     IN answer' = [answer EXCEPT
          !.at = "repositories",
          !.graph = [Graph EXCEPT
            !.declared = IF s.state = "read" THEN {<<"requirement", n>> : n \in UNION {s.of[id].names : id \in readable}} ELSE {},
            !.findings = IF s.state = "read" /\ level = "warning" THEN {}
                         ELSE {Finding(level, IF level = "error" THEN "STALE-CONTENT" ELSE "NO-STORE", <<"stores">>)}]]

(* _resolve_repositories                                                   *)
ResolveOwners ==
  /\ At("repositories")
  /\ LET m == given.manifest
         unavailable == {m[i].id : i \in {k \in DOMAIN m : ~Present(m[k])}}
     IN answer' =
          IF Problem(m) # "none"
          THEN [answer EXCEPT !.at = After, !.graph = Found(@, {Finding("error", Problem(m), <<"manifest">>)})]
          ELSE [answer EXCEPT !.at = "trace", !.i = 1, !.resolved = Resolved(m),
                  !.graph = Found(@, {Finding("warning", "MISSING-REPOSITORY", <<id>>) : id \in unavailable})]

(* _load_repository_traces and _add_repository_trace, then                 *)
(* _check_trace_provenance, which hashes again the files of the facts that *)
(* carry a hash: contract sources, and no other (trace_builder gives none  *)
(* to requirements, tasks, code, tests or evidence)                        *)
ReadTrace ==
  /\ At("trace")
  /\ answer' =
       IF ~Here.available \/ ~Repo.git \/ ~Repo.feature
       THEN [answer EXCEPT !.at = Onward("trace", "route"), !.i = @ + 1]
       ELSE IF ~Repo.builds
       THEN [answer EXCEPT !.at = Onward("trace", "route"), !.i = @ + 1,
                           !.graph = Found(@, {Finding("error", "REPOSITORY-HEALTH", <<Here.id>>)})]
       ELSE [answer EXCEPT !.at = "recheck", !.seen = Seen(Here.id, "read"),
                           !.graph.told = Here.id :> Repo.trace @@ @]
RecheckNothing == FALSE   \* mutant: the files are not hashed again
TraceIsStale == Differ(answer.graph.told[Here.id], IF Repo.git THEN Repo.trace ELSE <<>>)
Recheck ==
  /\ At("recheck")
  /\ answer' = [answer EXCEPT !.at = Onward("trace", "route"), !.i = @ + 1, !.seen = Seen(Here.id, "rechecked"),
                  !.graph = IF TraceIsStale THEN Found(@, {Finding("error", "STALE-CONTENT", <<Here.id>>)}) ELSE @]

(* _route_entities and _add_consistency_findings                           *)
Entities(graph) == graph.declared \cup UNION {{n \in DOMAIN graph.told[id] : n[1] \in Routable} : id \in DOMAIN graph.told}
Meanings(graph, n) == {graph.told[id][n] : id \in {r \in DOMAIN graph.told : n \in DOMAIN graph.told[r]}}
Known(graph) == UNION {DOMAIN graph.told[id] : id \in DOMAIN graph.told}
Route ==
  /\ At("route")
  /\ LET graph == answer.graph
         repos == answer.resolved
         routed == {n \in Entities(graph) : RouteProblem(repos, n) = "none"}
         owned == {<<n, repos[Min(Owners(repos, n))].id>> : n \in routed}
     IN answer' = [answer EXCEPT
          !.at = After,
          !.graph = Found([graph EXCEPT !.owned = owned],
            {Finding("error", RouteProblem(repos, n), n) : n \in Entities(graph) \ routed}
            \cup {Finding("error", "AMBIGUOUS-TRACE", n) : n \in {k \in Known(graph) : Cardinality(Meanings(graph, k)) > 1}}
            \cup {Finding("error", "MISSING-REPOSITORY-TRACE", <<o[2]>>) : o \in {p \in owned : p[2] \notin DOMAIN graph.told}}
            \cup {Finding("warning", "DISCONNECTED", o[1]) :
                    o \in {p \in owned : p[2] \in DOMAIN graph.told /\ p[1] \notin DOMAIN graph.told[p[2]]}})]
Participants(graph) == {o[2] : o \in graph.owned} \cup DOMAIN graph.told

-----------------------------------------------------------------------------
(* The evidence of pull requests, of which "none" is no file.              *)
Planning(report) == [answer EXCEPT !.at = "stores", !.first = FALSE, !.report = report, !.resolved = <<>>, !.seen = <<>>]
ResolvePr ==
  /\ At("resolve-pr")
  /\ answer' = IF Problem(given.manifest) # "none" THEN Planning(answer.graph)
               ELSE [answer EXCEPT !.at = "pr", !.i = 1, !.resolved = Resolved(given.manifest)]

(* _commit_status and _extend_repository, on the trace that was read       *)
KnownCommit(c) == IF c \in Repo.commits THEN "current" ELSE "UNREACHABLE"   \* mutant: any commit will do
CommitIs(c) ==
  IF c \notin Repo.commits THEN "UNREACHABLE"
  ELSE IF c \notin ToSet(Repo.history) THEN "STALE"
  ELSE "current"
LinksIn(id) == IF id \in DOMAIN answer.graph.told THEN DOMAIN answer.graph.told[id] ELSE {}
ReferenceIs(p, id) ==
  IF CommitIs(p.commit) # "current" THEN CommitIs(p.commit)
  ELSE IF p.state = "closed" THEN "CLOSED"
  ELSE IF ~(p.links \subseteq LinksIn(id)) THEN "STALE-LINK"
  ELSE "included"
PrWarnings == {"MISSING", "CLOSED"}
PrErrors == {"CONFLICT", "INVALID", "CROSS-FEATURE", "UNREACHABLE", "STALE", "STALE-LINK"}
PrFindings(codes) == {Finding(IF c \in PrWarnings THEN "warning" ELSE "error", c, <<Here.id>>) : c \in codes}
EvidenceProblem(evidence) ==
  IF evidence.problem # "none" THEN evidence.problem          \* CONFLICT or INVALID
  ELSE IF ~evidence.ours \/ evidence.repository # Here.id THEN "CROSS-FEATURE"
  ELSE "none"
ExtendRepository ==
  /\ At("pr")
  /\ LET evidence == Repo.evidence
         graph ==
           IF ~Here.available THEN answer.graph
           ELSE IF evidence.problem = "absent"
           THEN Found(answer.graph, IF Here.id \in Participants(answer.graph) THEN PrFindings({"MISSING"}) ELSE {})
           ELSE IF EvidenceProblem(evidence) # "none"
           THEN Found(answer.graph, PrFindings({EvidenceProblem(evidence)}))
           ELSE Found([answer.graph EXCEPT
                         !.included = @ \cup UNION {{<<n, Here.id, p.commit>> : n \in p.links} :
                                                      p \in {q \in evidence.references : ReferenceIs(q, Here.id) = "included"}}],
                      PrFindings({ReferenceIs(p, Here.id) : p \in evidence.references} \ {"included"}))
     IN answer' = IF Here.available /\ ~Repo.git THEN Done("crashed")     \* root.resolve(strict=True)
                  ELSE IF answer.i = Len(answer.resolved) THEN Planning(graph)
                  ELSE [answer EXCEPT !.i = @ + 1, !.graph = graph]

-----------------------------------------------------------------------------
(* build_multi_repo_run_plan on the second graph                           *)
BlocksBut(code) ==   \* mutant: what two repositories tell differently does not block
  code \in {"STALE-CONTENT", "MISSING-REPOSITORIES", "MISSING-REPOSITORY", "AMBIGUOUS-REPOSITORIES", "AMBIGUOUS-ROUTING",
            "MISSING-OWNERSHIP"}
Blocks(code) ==
  code \in {"STALE-CONTENT", "MISSING-REPOSITORIES", "MISSING-REPOSITORY", "AMBIGUOUS-REPOSITORIES", "AMBIGUOUS-ROUTING",
            "MISSING-OWNERSHIP", "AMBIGUOUS-TRACE"}
Blockers(graph) == {f.code : f \in {g \in graph.findings : g.level = "error" /\ Blocks(g.code)}}
BlockedExit(blockers) == IF "MISSING-REPOSITORY" \in blockers THEN "unavailable" ELSE "drift"
Plan ==
  /\ At("plan")
  /\ LET m == given.manifest
         found == Blockers(answer.graph)
         some == Participants(answer.graph)
         ids == {m[i].id : i \in DOMAIN m}
     IN answer' =
          IF Problem(m) # "none" THEN Done(BlockedExit(IF found = {} THEN {"MISSING-REPOSITORY"} ELSE found))
          ELSE IF ~(some \subseteq ids) THEN Done("crashed")              \* by_id[repository_id]
          ELSE IF some = {} THEN Done(BlockedExit(found \cup {"NO-PARTICIPANTS"}))
          ELSE [answer EXCEPT !.at = "inspect", !.i = 1, !.blockers = found,
                              !.resolved = SelectSeq(Resolved(m), LAMBDA r : r.id \in some)]

(* _inspect_resolved_repository and verify_clean_baseline                  *)
Baseline == (Repo.history)[Len(Repo.history)]
Status ==
  IF ~Here.available THEN "unavailable"
  ELSE IF ~Repo.git \/ ~Repo.project THEN "incompatible"
  ELSE IF ~Repo.clean THEN "dirty"
  ELSE "ready"
AllReady(planned) == \A i \in DOMAIN planned : planned[i].status = "ready"
Inspect ==
  /\ At("inspect")
  /\ LET planned == Append(answer.planned, [id |-> Here.id, status |-> Status, baseline |-> IF Status = "ready" THEN Baseline ELSE 0])
         on == [answer EXCEPT !.planned = planned, !.seen = Seen(Here.id, "inspected"), !.i = @ + 1]
     IN answer' =
          IF answer.i < Len(answer.resolved) THEN on
          ELSE IF answer.blockers # {} THEN [on EXCEPT !.at = "done", !.exit = BlockedExit(answer.blockers)]
          ELSE [on EXCEPT !.i = 1, !.at = IF AllReady(planned) THEN "revalidate" ELSE "verify"]

(* _revalidation_exit and revalidate_run_plan                              *)
SameBaselineClean(planned) == TRUE   \* mutant: only whether it is clean is looked at
SameBaseline(planned) == Baseline = planned.baseline
Revalidate ==
  /\ At("revalidate")
  /\ LET on == [answer EXCEPT !.seen = Seen(Here.id, "revalidated"), !.i = @ + 1] IN
     answer' = IF ~Repo.git \/ ~Repo.clean THEN Done("unavailable")
               ELSE IF ~SameBaseline(answer.planned[answer.i]) THEN Done("drift")
               ELSE IF answer.i < Len(answer.resolved) THEN on
               ELSE [on EXCEPT !.i = 1, !.at = "verify"]

(* verify_feature in each repository, and the exit of the whole            *)
PrUnsatisfied(graph) == \E f \in graph.findings : f.code \in PrWarnings \cup PrErrors
Exit(results) ==
  LET said == ToSet(results) IN
  IF "infrastructure-failed" \in said THEN "infrastructure"
  ELSE IF "not-ready" \in said THEN "unavailable"
  ELSE IF "failed" \in said \/ PrUnsatisfied(answer.report) THEN "policy"
  ELSE "success"
VerifyNext ==
  /\ At("verify")
  /\ LET result == IF answer.planned[answer.i].status # "ready" THEN "not-ready"
                   ELSE IF ~Repo.git THEN "infrastructure-failed" ELSE Repo.verdict
         on == [answer EXCEPT !.results = Append(@, result), !.i = @ + 1]
     IN answer' = IF answer.i < Len(answer.resolved) THEN on
                  ELSE [on EXCEPT !.at = "done", !.exit = Exit(on.results)]

Next ==
  \/ Edit \/ Amend \/ GoAway \/ Declare \/ Begin
  \/ ReadStores \/ ResolveOwners \/ ReadTrace \/ Recheck \/ Route \/ ResolvePr \/ ExtendRepository
  \/ Plan \/ Inspect \/ Revalidate \/ VerifyNext
Spec == Init /\ [][Next]_vars
-----------------------------------------------------------------------------
Ended == answer.at = "done"
Success == Ended /\ answer.exit = "success"
Edited(from, to) == from + 1..to   \* the numbers of the edits between two moments

(* When nobody edits meanwhile, success says exactly this of the feature:  *)
(* the stores can be read; every entity that a store declares or a trace   *)
(* tells of has one owner, which is there; no two repositories tell of one *)
(* thing differently; and every repository that owns or tells something is *)
(* a clean project that passes its own verification and has open or merged *)
(* pull requests only of this feature, in its history, about what it still *)
(* tells of.  (A trace that cannot be built is only a finding: the code    *)
(* does not count its repository in unless it owns something.)             *)
Speaks(r) == r.feature /\ r.builds
Whole ==
  LET m == given.manifest
      Of(id) == given.repos[(CHOOSE d \in ToSet(m) : d.id = id).path]
      speaking == {d.id : d \in {e \in ToSet(m) : There(e.path) /\ Speaks(given.repos[e.path])}}
      spoken == UNION {DOMAIN Of(id).trace : id \in speaking}
      declared == IF given.stores.state # "read" THEN {}
                  ELSE {<<"requirement", n>> : n \in UNION {given.stores.of[s].names : s \in DOMAIN given.stores.of}}
      entities == declared \cup {n \in spoken : n[1] \in Routable}
      Owns(d, n) == \E s \in d.owns : s.type = n[1] /\ n[2] \in s.matches
      taking == speaking \cup {d.id : d \in {e \in ToSet(m) : \E n \in entities : Owns(e, n)}}
  IN /\ given.stores.state # "unreadable"
     /\ given.stores.state = "read" => \A s \in DOMAIN given.stores.of : given.stores.of[s].exists => given.stores.of[s].readable
     /\ Acceptable(m) /\ taking # {}
     /\ \A d, e \in ToSet(m) :
          /\ d.required => There(d.path)
          /\ {d.path, e.path} \in Nested => ~(There(d.path) /\ There(e.path))
     /\ \A n \in entities : \E d \in ToSet(m) :
          There(d.path) /\ \A e \in ToSet(m) : Owns(e, n) <=> e = d
     /\ \A n \in spoken : \A a, b \in {id \in speaking : n \in DOMAIN Of(id).trace} : Of(a).trace[n] = Of(b).trace[n]
     /\ \A id \in taking :
          LET r == Of(id) IN
          /\ r.project /\ r.clean /\ r.verdict = "passed"
          /\ r.evidence.problem = "none" /\ r.evidence.ours /\ r.evidence.repository = id
     /\ \A d \in {e \in ToSet(m) : There(e.path)} :
          LET r == given.repos[d.path] IN
          r.evidence.problem # "absent" =>
            /\ r.evidence.problem = "none" /\ r.evidence.ours /\ r.evidence.repository = d.id
            /\ \A p \in r.evidence.references :
                 /\ p.state # "closed" /\ \E k \in DOMAIN r.history : r.history[k] = p.commit
                 /\ Speaks(r) /\ p.links \subseteq DOMAIN r.trace
SuccessIsWhole == Ended /\ given.steps = answer.begun => (answer.exit = "success" <=> Whole)

(* Whatever people do meanwhile: no success when a contract source of a    *)
(* repository that takes part changed between the reading of its trace and *)
(* the second look at its files, or when anything of the repository        *)
(* changed between the look at its baseline and the last one.  (Facts that *)
(* are no contract sources are not looked at twice: a success may rest on  *)
(* a requirement or a task that was edited after it had been read.)        *)
MovesAreSeen ==
  Success =>
    \A i \in DOMAIN answer.resolved :
      LET id == answer.resolved[i].id
          r == given.repos[answer.resolved[i].path]
      IN /\ r.moves \cap Edited(answer.seen[<<id, "inspected">>], answer.seen[<<id, "revalidated">>]) = {}
         /\ <<id, "read">> \in DOMAIN answer.seen =>
              r.retold \cap Edited(answer.seen[<<id, "read">>], answer.seen[<<id, "rechecked">>]) = {}

(* The only surprise is a participant that is gone, or no longer declared, *)
(* since the verification began.                                           *)
CrashMeansGone ==
  Ended /\ answer.exit = "crashed" =>
    \/ \E path \in DOMAIN given.repos : ~given.repos[path].git /\ given.repos[path].moves \cap Edited(answer.begun, given.steps) # {}
    \/ ~(Participants(answer.graph) \subseteq {given.manifest[i].id : i \in DOMAIN given.manifest})
=============================================================================
