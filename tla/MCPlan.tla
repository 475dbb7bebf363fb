------------------------------- MODULE MCPlan -------------------------------
(***************************************************************************)
(* BuildPlan for TLC: the scenarios.  The first job comes from a machine   *)
(* that has every capability; the second is the first with one thing       *)
(* different: a capability missing, an answer to one of the job's options, *)
(* or its type.  A rule has one condition or none, so that every condition *)
(* decides alone whether the rule applies.  The module also states what a  *)
(* document says of the build cache and the code does not do.              *)
(***************************************************************************)
EXTENDS BuildPlan

Full == [flags |-> {"avx2", "fma"}, measure |-> [m \in Measures |-> {1}]]

\* One capability less: absent from the profile, or there but too small.
Lesser ==
  {[Full EXCEPT !.flags = {"avx2"}]} \cup
  {[Full EXCEPT !.measure[m] = {0}] : m \in Measures} \cup
  {[Full EXCEPT !.measure[m] = {}] :
     m \in {"vram", "base_freq", "max_freq", "cache_line_size"}}

\* A second device beside one that is too small.
Greater == [Full EXCEPT !.measure["vram"] = {0, 1}]

FirstJobs ==
  {[hw |-> Full, project |-> "p", git_ref |-> "main", binary |-> {},
    package |-> pkg, target |-> t, type |-> "standard", profile |-> "none"] :
     pkg \in {{}, {"core"}}, t \in {{}, {"x86_64_musl"}}}

Variations(job) ==
  {job} \cup
  {[job EXCEPT !.hw = h] : h \in Lesser \cup {Greater}} \cup
  {[job EXCEPT !.project = "q"], [job EXCEPT !.git_ref = "dev"],
   [job EXCEPT !.binary = {"tool"}], [job EXCEPT !.package = {}],
   [job EXCEPT !.target = {}], [job EXCEPT !.target = {"aarch64_gnu"}],
   [job EXCEPT !.type = "pgo_instrument"]} \cup
  {[job EXCEPT !.type = "pgo_optimize", !.profile = p, !.package = {},
               !.target = {}] : p \in {"none", "uploaded", "merged"}}

\* What rules set: flags; a variable of their own; one the server computes;
\* one it holds back.
Actions ==
  {[rustflags |-> <<"-C", "avx">>, env |-> "MODE" :> <<"fast">>,
    features |-> {"simd"}],
   [rustflags |-> <<>>, env |-> ("MODE" :> <<"safe">> @@ "KOVAL_DB" :> <<"x">>),
    features |-> {"simd", "io"}],
   [rustflags |-> <<>>,
    env |-> ("RUSTFLAGS" :> <<"-g">> @@
             "CARGO_TARGET_X86_64_UNKNOWN_LINUX_MUSL_LINKER" :> <<"ld">>),
    features |-> {}]}

RuleWith(flags, needs, action) ==
  [cpu_flags |-> flags, needs |-> needs, rustflags |-> action.rustflags,
   env |-> action.env, features |-> action.features]

Conditional == {RuleWith({"fma"}, <<>>, a) : a \in Actions} \cup
               {RuleWith({}, m :> 1, a) : m \in Measures, a \in Actions}

Unconditional == {RuleWith({}, <<>>, a) : a \in Actions}

RuleLists == {<<>>} \cup {<<r, u>> : r \in Conditional, u \in Unconditional}
                    \cup {<<u, r>> : u \in Unconditional, r \in Conditional}

Manifest == [exists |-> TRUE, parses |-> TRUE, workspace |-> TRUE,
             package |-> FALSE, name |-> {}, bins |-> 0]

Manifests ==
  {Manifest, [Manifest EXCEPT !.exists = FALSE],
   [Manifest EXCEPT !.parses = FALSE], [Manifest EXCEPT !.workspace = FALSE]} \cup
  {[Manifest EXCEPT !.package = TRUE, !.workspace = w, !.name = n, !.bins = b] :
     w \in BOOLEAN, n \in {{}, {"app"}}, b \in {0, 1}}

\* Every list of rules with one manifest, every manifest with few lists.
Repositories ==
  {[koval |-> "read", rules |-> rs, manifest |-> Manifest] : rs \in RuleLists} \cup
  {[koval |-> k, rules |-> <<>>, manifest |-> m] :
     k \in {"none", "broken"}, m \in Manifests}

JobPairs == UNION {{<<j, v>> : v \in Variations(j)} : j \in FirstJobs}

AllScenarios ==
  {[repo |-> r, jobs |-> pair] : r \in Repositories, pair \in JobPairs}
=============================================================================
