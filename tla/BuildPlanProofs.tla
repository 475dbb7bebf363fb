--------------------------- MODULE BuildPlanProofs ---------------------------
(***************************************************************************)
(* Proofs about BuildPlan, for any scenarios: any rules, manifests, and    *)
(* any number of jobs.                                                     *)
(***************************************************************************)
EXTENDS BuildPlan, WellFoundedInduction, SequenceTheorems, TLAPS

\* c[i] is what build_config has collected from the first i rules for hw.
Collected(c, hw, n) ==
  /\ c[0] = NoConfig
  /\ \A i \in 1 .. n : c[i] = IF Matches(Rules[i], hw) THEN Collect(c[i - 1], Rules[i])
                                                       ELSE c[i - 1]

\* The worker's position in a scenario.
Position ==
  /\ \E s \in Scenarios : repo = s.repo /\ jobs = s.jobs
  /\ turn \in Nat \ {0} /\ next \in Nat \ {0}
  /\ turn <= Len(jobs) + 1
  /\ repo.koval # "broken" => next <= Len(Rules) + 1
  /\ \E S : plan \in Seq(S)
  /\ Len(plan) = turn - 1

\* The present configuration is collected from the rules passed.
Present ==
  turn <= Len(jobs) =>
    \E c : Collected(c, jobs[turn].hw, next - 1) /\ cfg = c[next - 1]

\* Every plan is that of the configuration collected from all rules.
Planned ==
  \A j \in 1 .. Len(plan) :
    IF repo.koval = "broken" THEN plan[j] = Failed
    ELSE \E c : /\ Collected(c, jobs[j].hw, Len(Rules))
                /\ plan[j] = Plan(c[Len(Rules)], jobs[j])

IInv == Position /\ Present /\ Planned /\ ConfigMeetsReference

------------------------------------------------------------------------------
(* Least numbers, and the configuration as a function of what matches *)

LEMMA LeastNumber ==
  ASSUME NEW T, T \subseteq Nat, T # {}
  PROVE  \E m \in T : \A k \in T : m <= k
<1> DEFINE R == {ss \in Nat \X Nat : ss[1] < ss[2]}
<1>1. IsWellFoundedOn(OpToRel(<, Nat), Nat)
  BY NatLessThanWellFounded
<1>2. OpToRel(<, Nat) = R
  BY DEF OpToRel
<1>3. \E m \in T : \A k \in T : ~(<<k, m>> \in OpToRel(<, Nat))
  BY <1>1, WFMin
<1>4. \E m \in T : \A k \in T : ~(<<k, m>> \in R)
  BY <1>2, <1>3, Zenon
<1>5. \A k, m \in Nat : ~(<<k, m>> \in R) => m <= k
  OBVIOUS
<1> HIDE DEF R
<1> QED BY <1>4, <1>5

(***************************************************************************)
(* Two machines for which the same rules match get one configuration.      *)
(***************************************************************************)
LEMMA SameMatchesSameConfig ==
  ASSUME NEW n \in Nat, NEW c, NEW d, NEW h1, NEW h2,
         Collected(c, h1, n), Collected(d, h2, n),
         \A i \in 1 .. n : Matches(Rules[i], h1) <=> Matches(Rules[i], h2)
  PROVE  c[n] = d[n]
<1> DEFINE T == {i \in 0 .. n : c[i] # d[i]}
<1>1. SUFFICES ASSUME c[n] # d[n] PROVE FALSE
  OBVIOUS
<1>2. T \subseteq Nat /\ n \in T
  BY <1>1
<1>3. PICK m \in T : \A k \in T : m <= k
  BY <1>2, LeastNumber
<1>4. m # 0
  BY <1>3 DEF Collected
<1>5. m \in 1 .. n /\ m - 1 \in 0 .. n /\ m - 1 \notin T
  BY <1>2, <1>3, <1>4
<1>6. c[m - 1] = d[m - 1]
  BY <1>5
<1>7. c[m] = d[m]
  <2>1. c[m] = IF Matches(Rules[m], h1) THEN Collect(c[m - 1], Rules[m]) ELSE c[m - 1]
    BY <1>5 DEF Collected
  <2>2. d[m] = IF Matches(Rules[m], h2) THEN Collect(d[m - 1], Rules[m]) ELSE d[m - 1]
    BY <1>5 DEF Collected
  <2>3. Matches(Rules[m], h1) <=> Matches(Rules[m], h2)
    BY <1>5
  <2> HIDE DEF T
  <2> QED BY <1>6, <2>1, <2>2, <2>3, Zenon
<1> QED BY <1>3, <1>7

LEMMA CollectOneMore ==
  ASSUME NEW n \in Nat, NEW c, NEW hw, Collected(c, hw, n)
  PROVE  \E d : /\ Collected(d, hw, n + 1)
                /\ d[n + 1] = IF Matches(Rules[n + 1], hw)
                              THEN Collect(c[n], Rules[n + 1]) ELSE c[n]
<1> DEFINE v == IF Matches(Rules[n + 1], hw) THEN Collect(c[n], Rules[n + 1]) ELSE c[n]
           d == [i \in 0 .. n + 1 |-> IF i = n + 1 THEN v ELSE c[i]]
<1> HIDE DEF v
<1>1. d[n + 1] = v /\ \A i \in 0 .. n : d[i] = c[i]
  OBVIOUS
<1> HIDE DEF d
<1>2. d[0] = NoConfig
  BY <1>1 DEF Collected
<1>3. ASSUME NEW i \in 1 .. n + 1
      PROVE  d[i] = IF Matches(Rules[i], hw) THEN Collect(d[i - 1], Rules[i]) ELSE d[i - 1]
  <2>1. CASE i = n + 1
    <3>1. d[i] = v /\ i - 1 = n /\ d[i - 1] = c[n]
      BY <1>1, <2>1
    <3> QED BY <2>1, <3>1, Zenon DEF v
  <2>2. CASE i # n + 1
    <3>1. i \in 1 .. n /\ i \in 0 .. n /\ i - 1 \in 0 .. n
      BY <2>2
    <3>2. d[i] = c[i] /\ d[i - 1] = c[i - 1]
      BY <1>1, <3>1
    <3>3. c[i] = IF Matches(Rules[i], hw) THEN Collect(c[i - 1], Rules[i]) ELSE c[i - 1]
      BY <3>1 DEF Collected
    <3> QED BY <3>2, <3>3, Zenon
  <2> QED BY <2>1, <2>2
<1>4. Collected(d, hw, n + 1)
  BY <1>2, <1>3 DEF Collected
<1> QED BY <1>1, <1>4, Zenon DEF v

------------------------------------------------------------------------------
(* The collected configuration and the reference *)

\* ConfigMeetsReference, of a configuration and the rules taken.
Meets(c, T) ==
  /\ DOMAIN c.env = (UNION {DOMAIN Rules[i].env : i \in T}) \ Blocklist
  /\ \A k \in DOMAIN c.env :
       \E i \in T : /\ k \in DOMAIN Rules[i].env
                    /\ c.env[k] = Rules[i].env[k]
                    /\ \A h \in T : k \in DOMAIN Rules[h].env => h <= i
  /\ c.features = UNION {Rules[i].features : i \in T}

LEMMA ReferenceIsMeets ==
  ConfigMeetsReference <=> (turn <= Len(jobs) => Meets(cfg, Taken))
BY DEF ConfigMeetsReference, Meets

LEMMA EnvOfCollect ==
  ASSUME NEW c, NEW r
  PROVE  /\ DOMAIN Collect(c, r).env = (DOMAIN r.env \ Blocklist) \cup DOMAIN c.env
         /\ \A k \in DOMAIN Collect(c, r).env :
              Collect(c, r).env[k] = IF k \in DOMAIN r.env \ Blocklist THEN r.env[k]
                                                                       ELSE c.env[k]
         /\ Collect(c, r).features = c.features \cup r.features
<1>1. Collect(c, r).env = [k \in (DOMAIN r.env \ Blocklist) \cup DOMAIN c.env |->
                             IF k \in DOMAIN r.env \ Blocklist THEN r.env[k] ELSE c.env[k]]
  BY DEF Collect, Inserted, Allowed, Restrict
<1>2. Collect(c, r).features = c.features \cup r.features
  BY DEF Collect
<1> QED BY <1>1, <1>2

LEMMA CollectMeets ==
  ASSUME NEW n \in Nat \ {0}, NEW T, T \subseteq 1 .. n - 1, NEW c, Meets(c, T)
  PROVE  Meets(Collect(c, Rules[n]), T \cup {n})
<1> DEFINE r == Rules[n]
           d == Collect(c, r)
           U == T \cup {n}
<1>1. /\ DOMAIN d.env = (DOMAIN r.env \ Blocklist) \cup DOMAIN c.env
      /\ \A k \in DOMAIN d.env :
           d.env[k] = IF k \in DOMAIN r.env \ Blocklist THEN r.env[k] ELSE c.env[k]
      /\ d.features = c.features \cup r.features
  BY EnvOfCollect
<1> HIDE DEF d
<1>2. \A i \in T : i <= n /\ i \in Nat
  OBVIOUS
<1>3. DOMAIN d.env = (UNION {DOMAIN Rules[i].env : i \in U}) \ Blocklist
  <2>1. DOMAIN c.env = (UNION {DOMAIN Rules[i].env : i \in T}) \ Blocklist
    BY DEF Meets
  <2>2. UNION {DOMAIN Rules[i].env : i \in U}
          = (UNION {DOMAIN Rules[i].env : i \in T}) \cup DOMAIN r.env
    BY Zenon
  <2> HIDE DEF r, U
  <2> QED BY <1>1, <2>1, <2>2, Zenon
<1>4. d.features = UNION {Rules[i].features : i \in U}
  <2>1. c.features = UNION {Rules[i].features : i \in T}
    BY DEF Meets
  <2>2. UNION {Rules[i].features : i \in U}
          = (UNION {Rules[i].features : i \in T}) \cup r.features
    BY Zenon
  <2> QED BY <1>1, <2>1, <2>2, Zenon
<1>5. ASSUME NEW k \in DOMAIN d.env
      PROVE  \E i \in U : /\ k \in DOMAIN Rules[i].env
                          /\ d.env[k] = Rules[i].env[k]
                          /\ \A h \in U : k \in DOMAIN Rules[h].env => h <= i
  <2>1. CASE k \in DOMAIN r.env \ Blocklist
    <3>1. d.env[k] = r.env[k]
      BY <1>1, <2>1
    <3> QED BY <1>2, <2>1, <3>1
  <2>2. CASE k \notin DOMAIN r.env \ Blocklist
    <3>1. k \in DOMAIN c.env /\ d.env[k] = c.env[k]
      BY <1>1, <2>2
    <3>2. k \notin Blocklist
      BY <3>1 DEF Meets
    <3>3. k \notin DOMAIN Rules[n].env
      BY <2>2, <3>2
    <3>4. PICK i \in T : /\ k \in DOMAIN Rules[i].env
                         /\ c.env[k] = Rules[i].env[k]
                         /\ \A h \in T : k \in DOMAIN Rules[h].env => h <= i
      BY <3>1 DEF Meets
    <3> QED BY <3>1, <3>3, <3>4
  <2> QED BY <2>1, <2>2
<1> QED BY <1>3, <1>4, <1>5 DEF Meets, d

LEMMA NothingMeets == Meets(NoConfig, {})
BY DEF Meets, NoConfig

------------------------------------------------------------------------------
(* Plans *)

LEMMA AppendExtends ==
  ASSUME NEW S, NEW s \in Seq(S), NEW e
  PROVE  /\ Append(s, e) \in Seq(S \cup {e})
         /\ Len(Append(s, e)) = Len(s) + 1
         /\ \A i \in 1 .. Len(s) : Append(s, e)[i] = s[i]
         /\ Append(s, e)[Len(s) + 1] = e
<1>1. s \in Seq(S \cup {e}) /\ e \in S \cup {e}
  OBVIOUS
<1> QED BY <1>1

LEMMA InitIInv == Init => IInv
<1> SUFFICES ASSUME Init PROVE IInv
  OBVIOUS
<1>1. PICK s \in Scenarios : repo = s.repo /\ jobs = s.jobs
  BY DEF Init
<1>2. Len(Rules) \in Nat /\ Len(jobs) \in Nat
  BY <1>1, ScenariosAssumption DEF Rules
<1>3. plan \in Seq({}) /\ Len(plan) = 0 /\ turn = 1 /\ next = 1 /\ cfg = NoConfig
  BY DEF Init
<1>4. Position
  <2>1. \E S : plan \in Seq(S)
    BY <1>3
  <2>2. turn \in Nat \ {0} /\ next \in Nat \ {0} /\ Len(plan) = turn - 1
    BY <1>3
  <2>3. turn <= Len(jobs) + 1 /\ next <= Len(Rules) + 1
    BY <1>2, <1>3
  <2> QED BY <1>1, <2>1, <2>2, <2>3 DEF Position
<1>5. Present
  <2> DEFINE c == [i \in {0} |-> NoConfig]
  <2>1. c[0] = NoConfig
    OBVIOUS
  <2> HIDE DEF c
  <2>2. Collected(c, jobs[turn].hw, next - 1) /\ cfg = c[next - 1]
    BY <1>3, <2>1 DEF Collected
  <2> QED BY <2>2 DEF Present
<1>6. Planned
  BY <1>3 DEF Planned
<1>7. ConfigMeetsReference
  <2>1. Taken = {}
    BY <1>3 DEF Taken
  <2> QED BY <1>3, <2>1, NothingMeets, ReferenceIsMeets
<1> QED BY <1>4, <1>5, <1>6, <1>7 DEF IInv

LEMMA Sizes ==
  ASSUME Position
  PROVE  Len(Rules) \in Nat /\ Len(jobs) \in Nat
BY ScenariosAssumption DEF Position, Rules

\* The plans already made speak of the repository and the jobs alone.
LEMMA SamePlanned ==
  ASSUME Planned, UNCHANGED <<repo, jobs, plan>>
  PROVE  Planned'
<1>1. Rules' = Rules
  BY DEF Rules
<1>2. ASSUME NEW c, NEW hw, NEW n PROVE Collected(c, hw, n)' <=> Collected(c, hw, n)
  BY <1>1, Zenon DEF Collected
<1>3. ASSUME NEW c, NEW job PROVE Plan(c, job)' = Plan(c, job)
  BY Zenon DEF Plan
<1>4. ASSUME NEW j \in 1 .. Len(plan), repo.koval # "broken"
      PROVE  (\E c : Collected(c, jobs[j].hw, Len(Rules)) /\ plan[j] = Plan(c[Len(Rules)], jobs[j]))'
  <2>1. PICK c : Collected(c, jobs[j].hw, Len(Rules)) /\ plan[j] = Plan(c[Len(Rules)], jobs[j])
    BY <1>4 DEF Planned
  <2> QED BY <1>1, <1>2, <1>3, <2>1
<1> QED BY <1>1, <1>4 DEF Planned

\* Reading a rule: the next configuration is collected from one rule more.
LEMMA RuleStep == IInv /\ EvaluateRule => IInv'
<1> SUFFICES ASSUME IInv, EvaluateRule PROVE IInv'
  OBVIOUS
<1> USE DEF IInv
<1>1. /\ turn <= Len(jobs) /\ repo.koval # "broken" /\ next <= Len(Rules)
      /\ cfg' = IF Matches(Rules[next], jobs[turn].hw) THEN Collect(cfg, Rules[next]) ELSE cfg
      /\ next' = next + 1
      /\ UNCHANGED <<repo, jobs, turn, plan>>
  BY DEF EvaluateRule
<1>2. next \in Nat \ {0} /\ turn \in Nat \ {0} /\ Len(Rules) \in Nat /\ Len(jobs) \in Nat
  BY Sizes DEF Position
<1>3. Rules' = Rules
  BY <1>1 DEF Rules
<1>4. Position'
  <2>1. next' \in Nat \ {0} /\ next' <= Len(Rules) + 1
    BY <1>1, <1>2
  <2> QED BY <1>1, <1>3, <2>1 DEF Position
<1>5. Present'
  <2>1. PICK c : Collected(c, jobs[turn].hw, next - 1) /\ cfg = c[next - 1]
    BY <1>1 DEF Present
  <2>2. next - 1 \in Nat /\ (next - 1) + 1 = next /\ next' - 1 = next
    BY <1>1, <1>2
  <2>3. PICK d : /\ Collected(d, jobs[turn].hw, next)
                 /\ d[next] = IF Matches(Rules[next], jobs[turn].hw)
                              THEN Collect(c[next - 1], Rules[next]) ELSE c[next - 1]
    BY <2>1, <2>2, CollectOneMore
  <2>4. cfg' = d[next]
    BY <1>1, <2>1, <2>3, Zenon
  <2>5. Collected(d, jobs[turn].hw, next - 1)'
    BY <1>1, <1>3, <2>2, <2>3 DEF Collected
  <2> QED BY <1>1, <2>2, <2>4, <2>5 DEF Present
<1>6. Planned'
  BY <1>1, SamePlanned
<1>7. ConfigMeetsReference'
  <2>1. Meets(cfg, Taken) /\ Taken \subseteq 1 .. next - 1
    BY <1>1, ReferenceIsMeets DEF Taken
  <2>2. CASE Matches(Rules[next], jobs[turn].hw)
    <3>1. Taken' = Taken \cup {next}
      BY <1>1, <1>2, <1>3, <2>2 DEF Taken
    <3>2. Meets(cfg', Taken')
      BY <1>1, <1>2, <2>1, <2>2, <3>1, CollectMeets
    <3> QED BY <1>3, <3>2 DEF ConfigMeetsReference, Meets
  <2>3. CASE ~Matches(Rules[next], jobs[turn].hw)
    <3>1. Taken' = Taken /\ cfg' = cfg
      BY <1>1, <1>2, <1>3, <2>3 DEF Taken
    <3> QED BY <1>3, <2>1, <3>1 DEF ConfigMeetsReference, Meets
  <2> QED BY <2>2, <2>3
<1> QED BY <1>4, <1>5, <1>6, <1>7

\* The job's plan: all rules are read, or koval.toml could not be.
LEMMA PrepareStep == IInv /\ Prepare => IInv'
<1> SUFFICES ASSUME IInv, Prepare PROVE IInv'
  OBVIOUS
<1> USE DEF IInv
<1>1. /\ turn <= Len(jobs) /\ (repo.koval = "broken" \/ next > Len(Rules))
      /\ plan' = Append(plan, Plan(cfg, jobs[turn]))
      /\ turn' = turn + 1 /\ next' = 1 /\ cfg' = NoConfig
      /\ UNCHANGED <<repo, jobs>>
  BY DEF Prepare
<1>2. next \in Nat \ {0} /\ turn \in Nat \ {0} /\ Len(Rules) \in Nat /\ Len(jobs) \in Nat
  BY Sizes DEF Position
<1>3. Rules' = Rules
  BY <1>1 DEF Rules
<1> DEFINE e == Plan(cfg, jobs[turn])
<1>4. PICK S : plan \in Seq(S)
  BY DEF Position
<1>5. /\ plan' \in Seq(S \cup {e}) /\ Len(plan') = Len(plan) + 1
      /\ \A i \in 1 .. Len(plan) : plan'[i] = plan[i]
      /\ plan'[Len(plan) + 1] = e
  BY <1>1, <1>4, AppendExtends
<1> HIDE DEF e
<1>6. Len(plan) = turn - 1
  BY DEF Position
<1>7. Position'
  <2>1. turn' \in Nat \ {0} /\ turn' <= Len(jobs) + 1 /\ Len(plan') = turn' - 1
    BY <1>1, <1>2, <1>5, <1>6
  <2>2. next' \in Nat \ {0} /\ next' <= Len(Rules) + 1
    BY <1>1, <1>2
  <2> QED BY <1>1, <1>3, <1>5, <2>1, <2>2 DEF Position
<1>8. Present'
  <2> DEFINE c == [i \in {0} |-> NoConfig]
  <2>1. c[0] = NoConfig
    OBVIOUS
  <2> HIDE DEF c
  <2>2. Collected(c, jobs[turn].hw, next - 1)' /\ cfg' = c[(next - 1)']
    BY <1>1, <2>1 DEF Collected
  <2> QED BY <2>2 DEF Present
<1>9. Planned'
  <2>1. SUFFICES ASSUME NEW j \in 1 .. Len(plan')
        PROVE  IF repo.koval = "broken" THEN plan'[j] = Failed
               ELSE \E c : /\ Collected(c, jobs[j].hw, Len(Rules))
                           /\ plan'[j] = Plan(c[Len(Rules)], jobs[j])
    <3>1. \A c, job : Plan(c, job)' = Plan(c, job)
      BY <1>1 DEF Plan
    <3> QED BY <1>1, <1>3, <3>1 DEF Planned, Collected
  <2>2. CASE j \in 1 .. Len(plan)
    BY <1>5, <2>2 DEF Planned
  <2>3. CASE j \notin 1 .. Len(plan)
    <3>1. j = turn /\ plan'[j] = e
      BY <1>2, <1>5, <1>6, <2>1, <2>3
    <3>2. CASE repo.koval = "broken"
      BY <3>1, <3>2 DEF e, Plan
    <3>3. CASE repo.koval # "broken"
      <4>1. next - 1 = Len(Rules)
        BY <1>1, <1>2, <3>3 DEF Position
      <4>2. PICK c : Collected(c, jobs[turn].hw, next - 1) /\ cfg = c[next - 1]
        BY <1>1 DEF Present
      <4>3. Collected(c, jobs[j].hw, Len(Rules)) /\ plan'[j] = Plan(c[Len(Rules)], jobs[j])
        BY <3>1, <4>1, <4>2 DEF e
      <4> QED BY <3>3, <4>3
    <3> QED BY <3>2, <3>3
  <2> QED BY <2>2, <2>3
<1>10. ConfigMeetsReference'
  <2>1. Taken' = {}
    BY <1>1 DEF Taken
  <2>2. Meets(NoConfig, {})'
    BY NothingMeets DEF Meets, NoConfig
  <2> QED BY <1>1, <2>1, <2>2 DEF ConfigMeetsReference, Meets
<1> QED BY <1>7, <1>8, <1>9, <1>10

(***************************************************************************)
(* The inductive invariant of the worker's planning holds in every         *)
(* reachable state.                                                        *)
(***************************************************************************)
THEOREM PlanInvariant == Spec => []IInv
<1>1. IInv /\ UNCHANGED vars => IInv'
  <2> SUFFICES ASSUME IInv, UNCHANGED vars PROVE IInv'
    OBVIOUS
  <2>1. UNCHANGED <<repo, jobs, turn, next, cfg, plan>> /\ Rules' = Rules /\ Taken' = Taken
    BY DEF vars, Rules, Taken
  <2>2. Position' /\ Present'
    BY <2>1 DEF IInv, Position, Present, Collected
  <2>3. Planned'
    BY <2>1, SamePlanned DEF IInv
  <2>4. ConfigMeetsReference'
    BY <2>1 DEF IInv, ConfigMeetsReference
  <2> QED BY <2>2, <2>3, <2>4 DEF IInv
<1>2. IInv /\ [Next]_vars => IInv'
  BY <1>1, RuleStep, PrepareStep DEF Next
<1> QED BY <1>2, InitIInv, PTL DEF Spec

(***************************************************************************)
(* What build_config has collected is what the matching rules say: the     *)
(* last of them decides a variable, no server variable is among them.      *)
(***************************************************************************)
THEOREM ConfigIsReference == Spec => []ConfigMeetsReference
<1>1. IInv => ConfigMeetsReference
  BY DEF IInv
<1> QED BY <1>1, PlanInvariant, PTL

------------------------------------------------------------------------------
(* The cache key *)

LEMMA SameKeyMatchesAlike ==
  ASSUME Position, NEW h1, NEW h2,
         KeptHardware(h1) = KeptHardware(h2), SameSpeeds(h1, h2),
         NEW n \in 1 .. Len(Rules)
  PROVE  Matches(Rules[n], h1) <=> Matches(Rules[n], h2)
<1>1. h1.flags = h2.flags
  BY DEF KeptHardware
<1>2. DOMAIN Rules[n].needs \subseteq Measures
  BY ScenariosAssumption DEF Position, Rules
<1>3. ASSUME NEW m \in Measures PROVE h1.measure[m] = h2.measure[m]
  <2>1. CASE m \in Benchmarked
    BY <2>1 DEF SameSpeeds
  <2>2. CASE m \notin Benchmarked
    <3>1. /\ KeptHardware(h1).measure[m] = h1.measure[m]
          /\ KeptHardware(h2).measure[m] = h2.measure[m]
      BY <2>2 DEF KeptHardware
    <3> QED BY <3>1
  <2> QED BY <2>1, <2>2
<1> QED BY <1>1, <1>2, <1>3 DEF Matches

\* A plan of a standard job depends on its configuration and on what the
\* key names.
LEMMA SameOptionsSamePlan ==
  ASSUME NEW c, NEW a, NEW b, a.type = "standard", b.type = "standard",
         a.binary = b.binary, a.package = b.package, a.target = b.target
  PROVE  Plan(c, a) = Plan(c, b)
<1>1. PgoFlags(a) = <<>> /\ PgoFlags(b) = <<>>
  BY DEF PgoFlags
<1>2. ProfileReady(a) /\ ProfileReady(b)
  BY DEF ProfileReady
<1>3. RustFlags(c, a) = RustFlags(c, b)
  BY <1>1, Zenon DEF RustFlags
<1>4. DetectBuildMode(repo.manifest, a) = DetectBuildMode(repo.manifest, b)
  BY Zenon DEF DetectBuildMode
<1>5. \A m : CargoArgs(m, c.features, a) = CargoArgs(m, c.features, b)
  BY Zenon DEF CargoArgs
<1>6. \A f : CargoEnvs(c.env, f, a) = CargoEnvs(c.env, f, b)
  <2>1. \A f : Computed(f, a) = Computed(f, b)
    BY Zenon DEF Computed
  <2> QED BY <2>1, Zenon DEF CargoEnvs
<1> QED BY <1>2, <1>3, <1>4, <1>5, <1>6, Zenon DEF Plan

(***************************************************************************)
(* The artifact a key is answered with was built by the command the        *)
(* request would have been built by, if its machine measures the same      *)
(* speeds.                                                                 *)
(***************************************************************************)
THEOREM SameKeySamePlan == Spec => []KeyDeterminesPlan
<1>1. IInv => KeyDeterminesPlan
  <2> SUFFICES ASSUME IInv, NEW i \in 1 .. Len(plan), NEW j \in 1 .. Len(plan),
                      jobs[i].type = "standard", jobs[j].type = "standard",
                      CacheKey(jobs[i]) = CacheKey(jobs[j]),
                      SameSpeeds(jobs[i].hw, jobs[j].hw)
               PROVE  plan[i] = plan[j]
    BY DEF KeyDeterminesPlan
  <2>1. /\ KeptHardware(jobs[i].hw) = KeptHardware(jobs[j].hw)
        /\ jobs[i].binary = jobs[j].binary /\ jobs[i].package = jobs[j].package
        /\ jobs[i].target = jobs[j].target
    BY DEF CacheKey
  <2>2. CASE repo.koval = "broken"
    BY <2>2 DEF IInv, Planned
  <2>3. CASE repo.koval # "broken"
    <3>1. PICK c : /\ Collected(c, jobs[i].hw, Len(Rules))
                   /\ plan[i] = Plan(c[Len(Rules)], jobs[i])
      BY <2>3 DEF IInv, Planned
    <3>2. PICK d : /\ Collected(d, jobs[j].hw, Len(Rules))
                   /\ plan[j] = Plan(d[Len(Rules)], jobs[j])
      BY <2>3 DEF IInv, Planned
    <3>3. \A n \in 1 .. Len(Rules) :
            Matches(Rules[n], jobs[i].hw) <=> Matches(Rules[n], jobs[j].hw)
      BY <2>1, SameKeyMatchesAlike DEF IInv
    <3>4. Len(Rules) \in Nat
      BY Sizes DEF IInv
    <3>5. c[Len(Rules)] = d[Len(Rules)]
      BY <3>1, <3>2, <3>3, <3>4, SameMatchesSameConfig
    <3>6. Plan(c[Len(Rules)], jobs[i]) = Plan(c[Len(Rules)], jobs[j])
      BY <2>1, SameOptionsSamePlan
    <3> QED BY <3>1, <3>2, <3>5, <3>6
  <2> QED BY <2>2, <2>3
<1> QED BY <1>1, PlanInvariant, PTL

------------------------------------------------------------------------------
(* Flags and linker *)

\* F joins the first i elements of seqs.
Joins(F, seqs, n) ==
  \A i \in 1 .. n : F[i] = IF i = 1 THEN seqs[i] ELSE F[i - 1] \o seqs[i]

(***************************************************************************)
(* FlattenSeq of a sequence that is not empty, from a function that meets  *)
(* its recursive equation.                                                 *)
(***************************************************************************)
LEMMA FlattenByRecursion ==
  ASSUME NEW n \in Nat \ {0}, NEW seqs, Len(seqs) = n, NEW S, NEW F \in [1 .. n -> S],
         Joins(F, seqs, n)
  PROVE  FlattenSeq(seqs) = F[n]
<1>0. \A i \in 1 .. n : F[i] = IF i = 1 THEN seqs[i] ELSE F[i - 1] \o seqs[i]
  BY DEF Joins
<1> DEFINE G == CHOOSE f : f = [i \in 1 .. Len(seqs) |->
                                  IF i = 1 THEN seqs[i] ELSE f[i - 1] \o seqs[i]]
<1>1. FlattenSeq(seqs) = G[Len(seqs)]
  BY n # 0, Zenon DEF FlattenSeq
<1>2. F = [i \in 1 .. Len(seqs) |-> IF i = 1 THEN seqs[i] ELSE F[i - 1] \o seqs[i]]
  BY <1>0
<1>3. G = [i \in 1 .. Len(seqs) |-> IF i = 1 THEN seqs[i] ELSE G[i - 1] \o seqs[i]]
  BY <1>2, Zenon
<1> HIDE DEF G
<1> DEFINE T == {i \in 1 .. n : F[i] # G[i]}
<1>4. SUFFICES ASSUME F[n] # G[n] PROVE FALSE
  BY <1>1, Zenon
<1>5. T \subseteq Nat /\ n \in T
  BY <1>4
<1>6. PICK m \in T : \A k \in T : m <= k
  BY <1>5, LeastNumber
<1>7. /\ F[m] = IF m = 1 THEN seqs[m] ELSE F[m - 1] \o seqs[m]
      /\ G[m] = IF m = 1 THEN seqs[m] ELSE G[m - 1] \o seqs[m]
  <2>1. m \in 1 .. n /\ m \in 1 .. Len(seqs)
    OBVIOUS
  <2>2. \A i \in 1 .. Len(seqs) : G[i] = IF i = 1 THEN seqs[i] ELSE G[i - 1] \o seqs[i]
    BY ONLY <1>3, Zenon
  <2> QED BY ONLY <1>0, <2>1, <2>2, Zenon
<1>8. m # 1
  BY <1>6, <1>7
<1>9. m - 1 \in 1 .. n /\ m - 1 \notin T
  BY <1>5, <1>6, <1>8
<1>10. F[m - 1] = G[m - 1]
  BY <1>9
<1>11. F[m] = G[m]
  <2> HIDE DEF T
  <2> QED BY <1>7, <1>8, <1>10, Zenon
<1> QED BY <1>6, <1>11

LEMMA FlagsAreSequences ==
  ASSUME Position, NEW n \in 0 .. Len(Rules), NEW c, NEW hw, Collected(c, hw, n)
  PROVE  \A i \in 0 .. n : c[i].flags \in Seq(STRING)
<1> DEFINE T == {i \in 0 .. n : c[i].flags \notin Seq(STRING)}
<1>0. Len(Rules) \in Nat
  BY Sizes
<1>1. SUFFICES ASSUME T # {} PROVE FALSE
  OBVIOUS
<1>2. PICK m \in T : \A k \in T : m <= k
  <2>1. T \subseteq Nat
    BY <1>0
  <2> QED BY <1>1, <2>1, LeastNumber
<1>3. m # 0
  <2>1. c[0].flags = <<>>
    BY DEF Collected, NoConfig
  <2>2. <<>> \in Seq(STRING)
    OBVIOUS
  <2> QED BY <1>2, <2>1, <2>2
<1>4. m \in 1 .. n /\ m - 1 \in 0 .. n /\ m - 1 \notin T
  BY <1>0, <1>2, <1>3
<1>5. c[m - 1].flags \in Seq(STRING) /\ Rules[m].rustflags \in Seq(STRING)
  <2>1. m \in 1 .. Len(Rules)
    BY <1>0, <1>4
  <2> QED BY <1>4, <2>1, ScenariosAssumption DEF Position, Rules
<1>6. c[m] = c[m - 1] \/ c[m] = Collect(c[m - 1], Rules[m])
  BY <1>4 DEF Collected
<1>7. c[m].flags \in Seq(STRING)
  <2>1. Collect(c[m - 1], Rules[m]).flags = c[m - 1].flags \o Rules[m].rustflags
    BY DEF Collect
  <2>2. c[m - 1].flags \o Rules[m].rustflags \in Seq(STRING)
    BY <1>5
  <2> HIDE DEF T
  <2> QED BY <1>5, <1>6, <2>1, <2>2, Zenon
<1> QED BY <1>2, <1>7

\* The flags the property asks for, of the rules alone.
MatchingFlags(hw) ==
  [i \in 1 .. Len(Rules) |-> IF Matches(Rules[i], hw) THEN Rules[i].rustflags ELSE <<>>]

LEMMA CollectedFlags ==
  ASSUME Position, NEW c, NEW hw, Collected(c, hw, Len(Rules))
  PROVE  FlattenSeq(MatchingFlags(hw)) = c[Len(Rules)].flags
<1> DEFINE n == Len(Rules)
           seqs == MatchingFlags(hw)
           F == [i \in 1 .. n |-> c[i].flags]
<1>1. n \in Nat
  BY Sizes
<1>2. \A i \in 1 .. n : Rules[i].rustflags \in Seq(STRING)
  BY ScenariosAssumption DEF Position, Rules
<1>3. \A i \in 0 .. n : c[i].flags \in Seq(STRING)
  BY <1>1, FlagsAreSequences
<1>4. seqs \in [1 .. n -> Seq(STRING)]
  <2>1. <<>> \in Seq(STRING)
    OBVIOUS
  <2>2. \A i \in 1 .. n :
          (IF Matches(Rules[i], hw) THEN Rules[i].rustflags ELSE <<>>) \in Seq(STRING)
    BY <1>2, <2>1
  <2> QED BY <2>2, Zenon DEF MatchingFlags
<1>5. seqs \in Seq(Seq(STRING)) /\ Len(seqs) = n
  BY <1>1, <1>4
<1>6. CASE n = 0
  <2>1. FlattenSeq(seqs) = seqs
    BY <1>5, <1>6, Zenon DEF FlattenSeq
  <2>2. seqs = <<>>
    BY <1>4, <1>5, <1>6
  <2>3. c[0].flags = <<>>
    BY DEF Collected, NoConfig
  <2> QED BY <1>6, <2>1, <2>2, <2>3
<1>7. CASE n # 0
  <2>1. ASSUME NEW i \in 1 .. n
        PROVE  c[i].flags = c[i - 1].flags \o seqs[i]
    <3>1. i - 1 \in 0 .. n /\ c[i - 1].flags \in Seq(STRING)
      BY <1>1, <1>3
    <3>2. seqs[i] = IF Matches(Rules[i], hw) THEN Rules[i].rustflags ELSE <<>>
      BY DEF MatchingFlags
    <3>3. c[i] = IF Matches(Rules[i], hw) THEN Collect(c[i - 1], Rules[i]) ELSE c[i - 1]
      BY DEF Collected
    <3>4. Collect(c[i - 1], Rules[i]).flags = c[i - 1].flags \o Rules[i].rustflags
      BY DEF Collect
    <3>5. c[i - 1].flags \o <<>> = c[i - 1].flags
      BY <3>1
    <3> HIDE DEF seqs, n
    <3> QED BY <3>2, <3>3, <3>4, <3>5, Zenon
  <2>2. c[0].flags = <<>>
    BY DEF Collected, NoConfig
  <2>3. ASSUME NEW i \in 1 .. n
        PROVE  F[i] = IF i = 1 THEN seqs[i] ELSE F[i - 1] \o seqs[i]
    <3>1. CASE i = 1
      <4>0. seqs[1] \in Seq(STRING)
        BY <1>4, <3>1
      <4>1. c[i].flags = c[i - 1].flags \o seqs[i] /\ i - 1 = 0
        <5>1. i - 1 = 0
          BY <3>1
        <5> HIDE DEF seqs
        <5> QED BY <2>1, <5>1
      <4>2. <<>> \o seqs[1] = seqs[1]
        BY <4>0
      <4> HIDE DEF seqs
      <4> QED BY <2>2, <3>1, <4>1, <4>2
    <3>2. CASE i # 1
      <4>1. i - 1 \in 1 .. n
        BY <1>1, <3>2
      <4> QED BY <2>1, <3>2, <4>1
    <3> QED BY <3>1, <3>2
  <2>4. F \in [1 .. n -> Seq(STRING)]
    BY <1>1, <1>3
  <2>5. n \in 1 .. n
    BY <1>1, <1>7
  <2> HIDE DEF seqs
  <2>6. FlattenSeq(seqs) = F[n]
    <3>1. n \in Nat \ {0}
      BY <1>1, <1>7
    <3>2. Len(seqs) = n
      BY <1>5
    <3>3. Joins(F, seqs, n)
      BY <2>3 DEF Joins
    <3> HIDE DEF n, F
    <3> QED BY ONLY <2>4, <3>1, <3>2, <3>3, FlattenByRecursion
  <2> QED BY <2>5, <2>6 DEF seqs
<1> QED BY <1>6, <1>7

LEMMA InsertedLast ==
  ASSUME NEW env, NEW own, NEW linker, NEW k \in DOMAIN linker
  PROVE  Inserted(env, Inserted(own, linker))[k] = linker[k]
<1>1. k \in DOMAIN Inserted(own, linker) /\ Inserted(own, linker)[k] = linker[k]
  BY DEF Inserted
<1>2. \A f : k \in DOMAIN f => Inserted(env, f)[k] = f[k]
  BY DEF Inserted
<1> QED BY <1>1, <1>2, Zenon

LEMMA InsertedBefore ==
  ASSUME NEW env, NEW own, NEW linker, NEW k \in DOMAIN own, k \notin DOMAIN linker
  PROVE  Inserted(env, Inserted(own, linker))[k] = own[k]
<1>1. k \in DOMAIN Inserted(own, linker) /\ Inserted(own, linker)[k] = own[k]
  BY DEF Inserted
<1>2. \A f : k \in DOMAIN f => Inserted(env, f)[k] = f[k]
  BY DEF Inserted
<1> QED BY <1>1, <1>2, Zenon

LEMMA LinkersAreNotFlags ==
  ASSUME NEW t \in DOMAIN Linkers
  PROVE  "RUSTFLAGS" \notin DOMAIN Linkers[t]
BY DEF Linkers, Only

\* What prepare_cargo_envs sets comes out of it as it was set.
LEMMA EnvsOfCargo ==
  ASSUME NEW env, NEW flags, NEW job,
         job.target \in {{}} \cup {{t} : t \in DOMAIN Linkers}
  PROVE  /\ flags # <<>> => CargoEnvs(env, flags, job)["RUSTFLAGS"] = flags
         /\ \A t \in job.target : \A k \in DOMAIN Linkers[t] :
              CargoEnvs(env, flags, job)[k] = Linkers[t][k]
<1> DEFINE own == IF flags = <<>> THEN <<>> ELSE Only("RUSTFLAGS", flags)
           linker == LinkerOf(job.target)
<1>1. CargoEnvs(env, flags, job) = Inserted(env, Inserted(own, linker))
  BY Zenon DEF Computed, CargoEnvs
<1>2. ASSUME NEW t \in job.target
      PROVE  linker = Linkers[t] /\ t \in DOMAIN Linkers
  <2>1. job.target = {t} /\ t \in DOMAIN Linkers
    OBVIOUS
  <2>2. (CHOOSE u \in job.target : TRUE) = t
    BY <2>1
  <2> QED BY <2>1, <2>2, Zenon DEF LinkerOf
<1>3. "RUSTFLAGS" \notin DOMAIN linker
  <2>1. CASE job.target = {}
    <3>1. linker = <<>>
      BY <2>1 DEF LinkerOf
    <3> QED BY <3>1
  <2>2. CASE job.target # {}
    <3>1. PICK t \in job.target : TRUE
      BY <2>2
    <3> QED BY <1>2, <3>1, LinkersAreNotFlags
  <2> QED BY <2>1, <2>2
<1>4. flags # <<>> => "RUSTFLAGS" \in DOMAIN own /\ own["RUSTFLAGS"] = flags
  BY DEF Only
<1> HIDE DEF own, linker
<1>5. flags # <<>> => CargoEnvs(env, flags, job)["RUSTFLAGS"] = flags
  <2>1. ASSUME NEW k \in DOMAIN own, k \notin DOMAIN linker
        PROVE  Inserted(env, Inserted(own, linker))[k] = own[k]
    BY <2>1, InsertedBefore
  <2> QED BY <1>1, <1>3, <1>4, <2>1, Zenon
<1>6. ASSUME NEW t \in job.target, NEW k \in DOMAIN Linkers[t]
      PROVE  CargoEnvs(env, flags, job)[k] = Linkers[t][k]
  <2>1. ASSUME NEW m \in DOMAIN linker
        PROVE  Inserted(env, Inserted(own, linker))[m] = linker[m]
    BY <2>1, InsertedLast
  <2> QED BY <1>1, <1>2, <2>1, Zenon
<1> QED BY <1>5, <1>6

(***************************************************************************)
(* The flags of all matching rules, in their order, and those of PGO reach *)
(* cargo, and so does the linker of the target, whatever a rule sets the   *)
(* same variables to.                                                      *)
(***************************************************************************)
THEOREM FlagsAndLinkerReachCargo == Spec => []CargoGetsFlagsAndLinker
<1>1. IInv => CargoGetsFlagsAndLinker
  <2> SUFFICES ASSUME IInv, NEW j \in 1 .. Len(plan), plan[j].outcome = "cargo"
               PROVE  LET job   == jobs[j]
                          flags == FlattenSeq(MatchingFlags(job.hw)) \o PgoFlags(job)
                      IN /\ flags # <<>> => plan[j].envs["RUSTFLAGS"] = flags
                         /\ \A t \in job.target : \A k \in DOMAIN Linkers[t] :
                              plan[j].envs[k] = Linkers[t][k]
    BY DEF CargoGetsFlagsAndLinker, MatchingFlags
  <2>1. repo.koval # "broken"
    BY DEF IInv, Planned, Failed
  <2>2. PICK c : /\ Collected(c, jobs[j].hw, Len(Rules))
                 /\ plan[j] = Plan(c[Len(Rules)], jobs[j])
    BY <2>1 DEF IInv, Planned
  <2> DEFINE last == c[Len(Rules)]
             job == jobs[j]
  <2>3. plan[j].envs = CargoEnvs(last.env, RustFlags(last, job), job)
    <3>1. plan[j] # Failed
      BY DEF Failed
    <3> QED BY <2>2, <3>1 DEF Plan
  <2>4. RustFlags(last, job) = FlattenSeq(MatchingFlags(job.hw)) \o PgoFlags(job)
    BY <2>2, CollectedFlags, Zenon DEF RustFlags, IInv
  <2>5. job.target \in {{}} \cup {{t} : t \in DOMAIN Linkers}
    <3>1. j \in 1 .. Len(jobs)
      BY Sizes DEF IInv, Position
    <3> QED BY <3>1, ScenariosAssumption DEF IInv, Position
  <2> HIDE DEF last, job
  <2>6. /\ RustFlags(last, job) # <<>> => plan[j].envs["RUSTFLAGS"] = RustFlags(last, job)
        /\ \A t \in job.target : \A k \in DOMAIN Linkers[t] :
             plan[j].envs[k] = Linkers[t][k]
    <3> DEFINE f == RustFlags(last, job)
               e == CargoEnvs(last.env, f, job)
    <3>1. /\ f # <<>> => e["RUSTFLAGS"] = f
          /\ \A t \in job.target : \A k \in DOMAIN Linkers[t] : e[k] = Linkers[t][k]
      <4> HIDE DEF f
      <4> QED BY <2>5, EnvsOfCargo
    <3> HIDE DEF e, f
    <3>2. plan[j].envs = e
      BY <2>3, Zenon DEF e, f
    <3> QED BY <3>1, <3>2, Zenon DEF f
  <2> QED BY <2>4, <2>6, Zenon DEF job
<1> QED BY <1>1, PlanInvariant, PTL
=============================================================================
