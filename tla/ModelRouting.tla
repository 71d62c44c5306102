------------------------------ MODULE ModelRouting ------------------------------
(***************************************************************************)
(* The effective policy of a project (policy.py): the layers of the        *)
(* organization, the repository and the user, merged so that each can only *)
(* narrow the others, and the questions that the rest of the program asks. *)
(* A set that a layer does not name is Anything.  A switch that it does    *)
(* not name has the value that decides nothing.                            *)
(*                                                                         *)
(* Which profile is asked (agent_platform/model_routing.py), under the     *)
(* effective policy and on what the diagnostics of earlier attempts say    *)
(* of the health of the providers (agent_platform/provider_health.py).     *)
(* Attempts end and are recorded; somebody takes a snapshot; later, a      *)
(* request with that snapshot is routed.                                   *)
(***************************************************************************)
EXTENDS Integers, Sequences, FiniteSets, Functions, SequencesExt

(* The policy.                                                             *)
Anything == {"*"}
Owners == {"organization", "repository", "user"}
CoreProtected == {"core"}
Unset ==
  [profiles |-> Anything, providers |-> Anything, models |-> <<>>, capProfiles |-> <<>>, capProviders |-> <<>>,
   write |-> TRUE, approval |-> FALSE, bypass |-> TRUE, protected |-> {}, environment |-> Anything,
   skills |-> <<>>, artifacts |-> <<>>, waivers |-> TRUE]

(* _intersect, _merge_keyed_sets, _merge_required_skills                   *)
Narrowed(sets) ==
  LET named == sets \ {Anything} IN
  IF named = {} THEN Anything
  ELSE {x \in UNION named : \A s \in named : x \in s}
Keys(maps) == UNION {DOMAIN m : m \in maps}
OfAnyLayer(maps) == [k \in Keys(maps) |-> UNION {m[k] : m \in {n \in maps : k \in DOMAIN n}}]   \* mutant: any layer can allow
KeyedSets(maps) == [k \in Keys(maps) |-> Narrowed({m[k] : m \in {n \in maps : k \in DOMAIN n}})]
KeyedLists(maps) == [k \in Keys(maps) |-> UNION {m[k] : m \in {n \in maps : k \in DOMAIN n}}]

(* load_effective_configuration.  layers: owner -> its layer, of those     *)
(* that have one.                                                          *)
OwnMode(mode, layers) == mode = "enterprise"   \* mutant: a company's policy does not make it enterprise mode
Enterprise(mode, layers) == "organization" \in DOMAIN layers \/ mode = "enterprise"
Loads(mode, layers) == mode = "enterprise" => "organization" \in DOMAIN layers
Environment(mode, layers) ==
  IF Enterprise(mode, layers) /\ layers["organization"].environment = Anything THEN {}
  ELSE Narrowed({layers[o].environment : o \in DOMAIN layers})
Merged(mode, layers) ==
  LET L == {layers[o] : o \in DOMAIN layers} IN
  [profiles |-> Narrowed({l.profiles : l \in L}), providers |-> Narrowed({l.providers : l \in L}),
   models |-> KeyedSets({l.models : l \in L}),
   capProfiles |-> KeyedSets({l.capProfiles : l \in L}), capProviders |-> KeyedSets({l.capProviders : l \in L}),
   write |-> \A l \in L : l.write, approval |-> \E l \in L : l.approval, bypass |-> \A l \in L : l.bypass,
   protected |-> CoreProtected \cup UNION {l.protected : l \in L},
   environment |-> Environment(mode, layers),
   skills |-> KeyedLists({l.skills : l \in L}), artifacts |-> KeyedLists({l.artifacts : l \in L}),
   waivers |-> \A l \in L : l.waivers]

(* assert_base_profile_allowed, assert_profile_allowed                     *)
Among(x, set) == set = Anything \/ x \in set
NamedIn(map, k, x) == k \in DOMAIN map => Among(x, map[k])
ModelAllowed(policy, p) ==
  LET rules == {k \in {p.provider, p.name} : k \in DOMAIN policy.models} IN
  rules # {} => p.model # "" /\ \A k \in rules : p.model \in policy.models[k]
BaseAllows(policy, p, writing) ==
  /\ Among(p.name, policy.profiles) /\ Among(p.provider, policy.providers)
  /\ ModelAllowed(policy, p) /\ (writing => policy.write)
Allows(policy, p, capability, writing) ==
  /\ BaseAllows(policy, p, writing)
  /\ NamedIn(policy.capProfiles, capability, p.name) /\ NamedIn(policy.capProviders, capability, p.provider)

-----------------------------------------------------------------------------
(* The request.                                                            *)
CONSTANTS
  Setups,        \* mode, layers, profiles, default profile; see Init
  Requests,      \* requests that may be made
  Ends,          \* ends of an attempt: profile, status, latency
  Window,        \* attempts of a profile that a snapshot looks at
  MaxAttempts    \* attempts before the request

VARIABLES
  given,    \* setup, attempts, snapshot; see Init
  answer    \* the decision, or nothing yet

vars == <<given, answer>>

Missing == 99   \* a latency that nobody observed
HealthRank(state) == CASE state = "healthy" -> 0 [] state = "unknown" -> 1 [] state = "degraded" -> 2 [] OTHER -> 3
Undecided == [reason |-> "none"]

Init ==
  /\ given \in {[setup |-> s, attempts |-> <<>>, snapshot |-> <<>>] : s \in {t \in Setups : Loads(t.mode, t.layers)}}
  /\ answer = Undecided
Waiting == answer = Undecided /\ UNCHANGED answer

(* A provider attempt ends and its terminal diagnostic is written.         *)
Attempt ==
  /\ Waiting /\ Len(given.attempts) < MaxAttempts
  /\ \E e \in Ends : given' = [given EXCEPT !.attempts = Append(@, e)]

-----------------------------------------------------------------------------
(* _profile_signal: cancelled attempts say nothing of the provider.        *)
Median(S) ==   \* of the latencies, as a sequence in their order; the mean of two is rounded down
  LET s == SortSeq(S, <) n == Len(s) IN IF n % 2 = 1 THEN s[(n + 1) \div 2] ELSE (s[n \div 2] + s[n \div 2 + 1]) \div 2
Status(s, status) == SelectSeq(s, LAMBDA a : a.status = status)
Considered(s) == SelectSeq(s, LAMBDA a : a.status # "cancelled")
LastOne(s) == s # <<>> /\ Last(s).status = "unavailable"   \* mutant: one failure is enough
LastTwo(s) == Len(s) >= 2 /\ s[Len(s)].status = "unavailable" /\ s[Len(s) - 1].status = "unavailable"
State(s) ==
  IF s = <<>> THEN "unknown"
  ELSE IF LastTwo(s) THEN "unavailable"
  ELSE IF Last(s).status = "succeeded" /\ 4 * Len(Status(s, "succeeded")) >= 3 * Len(s) THEN "healthy" ELSE "degraded"
Signal(s) ==
  LET c == Considered(s)
      quick == [i \in DOMAIN Status(c, "succeeded") |-> Status(c, "succeeded")[i].latency]
  IN [state |-> State(c), latency |-> IF quick = <<>> THEN Missing ELSE Median(quick)]

(* build_provider_health_snapshot                                          *)
Ended(p) == SelectSeq(given.attempts, LAMBDA a : a.profile = p)
Newest(s) == SubSeq(s, IF Len(s) > Window THEN Len(s) - Window + 1 ELSE 1, Len(s))
Snapshot ==
  Waiting /\ given' = [given EXCEPT !.snapshot =
    [p \in {a.profile : a \in Range(given.attempts)} |-> Signal(Newest(Ended(p)))]]

-----------------------------------------------------------------------------
(* _candidate: hard constraints, then a rank.                              *)
Policy == Merged(given.setup.mode, given.setup.layers)
Profiles == given.setup.profiles
Reported(map, p, otherwise) ==
  IF p.name \in DOMAIN map THEN map[p.name]
  ELSE IF p.model # "" /\ p.model \in DOMAIN map THEN map[p.model]
  ELSE IF p.provider \in DOMAIN map THEN map[p.provider] ELSE otherwise
Unknown == [state |-> "unknown", latency |-> Missing]
Health(r, p) == Reported(IF r.withHealth THEN given.snapshot ELSE <<>>, p, Unknown)
RequiresAdvanced(r) ==
  r.risk \in {"critical", "regulated"} \/ r.complexity \in {"high", "extreme"} \/ r.capability = "security" \/ r.stage = "final-review"
Technologies(r, p) == "*" \in p.technologies \/ r.technologies \subseteq p.technologies
Eligible(r, p) ==
  /\ p.enabled /\ r.capability \in p.capabilities /\ Allows(Policy, p, r.capability, r.writing)
  /\ r.risk \in p.risks /\ r.complexity \in p.complexities /\ r.context <= p.context /\ p.cost <= r.cost
  /\ Technologies(r, p) /\ (RequiresAdvanced(r) => p.advanced)
  /\ Reported(r.availability, p, TRUE) /\ Health(r, p).state # "unavailable"

FallbackRank(r, p) ==
  IF r.fallback = <<>> THEN 0
  ELSE IF Contains(r.fallback, p.name) THEN SelectInSeq(r.fallback, LAMBDA n : n = p.name) - 1 ELSE Len(r.fallback) + 1
DefaultRank(p) == IF p.name = given.setup.default THEN 0 ELSE 1
Legacy(r) == r.fallback = <<>> /\ r.optimization = "balanced" /\ (r.withHealth => given.snapshot = <<>>)
DefaultFirst(r, p) == <<DefaultRank(p), p.priority, p.cost, p.order>>   \* mutant: the default profile before all others
Rank(r, p) ==
  LET h == Health(r, p)
      first == <<FallbackRank(r, p), HealthRank(h.state)>>
      last == <<DefaultRank(p), p.order>>
  IN IF Legacy(r) THEN <<p.priority, p.cost>> \o last
     ELSE CASE r.optimization = "cost" -> first \o <<p.cost, p.priority, h.latency>> \o last
            [] r.optimization = "latency" -> first \o <<h.latency, p.cost, p.priority>> \o last
            [] OTHER -> first \o <<p.priority, p.cost, h.latency>> \o last
Before(s, t) == \E i \in DOMAIN s : s[i] < t[i] /\ \A j \in 1 .. i - 1 : s[j] = t[j]

(* route_model: an explicit request never falls back to somebody else.     *)
Explicit(r) == r.profile # "" \/ r.provider # "" \/ r.model # ""
AskedByName(r, p) == r.profile = "" \/ p.name = r.profile   \* mutant: only a name is compared
Asked(r, p) ==
  /\ r.profile # "" => p.name = r.profile
  /\ r.provider # "" => p.provider = r.provider
  /\ r.model # "" => p.model = r.model
Best(r, S) == CHOOSE p \in S : \A q \in S \ {p} : Before(Rank(r, p), Rank(r, q))
Route ==
  /\ answer = Undecided /\ UNCHANGED given
  /\ \E r \in Requests :
       LET eligible == {p \in Profiles : Eligible(r, p)}
           matching == {p \in eligible : Asked(r, p)}
       IN answer' =
            IF matching = {} THEN [reason |-> IF Explicit(r) THEN "not-eligible-no-fallback" ELSE "no-eligible-profile", request |-> r]
            ELSE [reason |-> "selected", request |-> r, profile |-> Best(r, matching)]

Next == Attempt \/ Snapshot \/ Route
Spec == Init /\ [][Next]_vars
-----------------------------------------------------------------------------
(* The merged policy allows exactly what every layer alone would allow: no *)
(* layer takes back what another one forbids, by whatever key it names it. *)
EachLayerAgrees ==
  \A p \in Profiles, c \in {"coding", "security"}, writing \in BOOLEAN :
    Allows(Policy, p, c, writing) <=>
      \A o \in DOMAIN given.setup.layers : Allows(given.setup.layers[o], p, c, writing)
(* Under enterprise policy only the company supplies variables.            *)
EnvironmentIsGranted ==
  "organization" \in DOMAIN given.setup.layers =>
    IF given.setup.layers["organization"].environment = Anything THEN Policy.environment = {}
    ELSE Policy.environment \subseteq given.setup.layers["organization"].environment

(* Whoever asked for a profile, provider or model gets that or nobody; and *)
(* somebody eligible is always found.                                      *)
NoSilentFallback ==
  answer # Undecided =>
    LET r == answer.request
        fit == {p \in Profiles : Eligible(r, p) /\ r.profile \in {"", p.name}
                                 /\ r.provider \in {"", p.provider} /\ r.model \in {"", p.model}}
    IN IF answer.reason = "selected" THEN answer.profile \in fit ELSE fit = {}

(* Optimising for one thing never picks a profile that another eligible    *)
(* one beats in everything: the position that was configured, health,      *)
(* latency, cost and priority.                                             *)
Measures(r, p) == <<FallbackRank(r, p), HealthRank(Health(r, p).state), Health(r, p).latency, p.cost, p.priority>>
NotDominated ==
  answer.reason = "selected" =>
    LET r == answer.request  mine == Measures(r, answer.profile) IN
    \A p \in Profiles :
      Eligible(r, p) /\ Asked(r, p) =>
        ~(/\ \A i \in DOMAIN mine : Measures(r, p)[i] <= mine[i]
          /\ \E i \in DOMAIN mine : Measures(r, p)[i] < mine[i])

(* A provider that answered when it was last asked is never taken for      *)
(* unavailable, and calls that people cancelled change nothing about it.   *)
CancelsAreNeutral ==
  \A p \in DOMAIN given.snapshot :
    given.snapshot[p].state = "unavailable" =>
      \E i, j \in DOMAIN given.attempts :
        /\ i < j
        /\ \A k \in {i, j} : given.attempts[k].profile = p /\ given.attempts[k].status = "unavailable"
        /\ \A k \in i .. j : given.attempts[k].profile = p => given.attempts[k].status \in {"unavailable", "cancelled"}
=============================================================================
