------------------------------ MODULE BuildPlan ------------------------------
(***************************************************************************)
(* From a job and the files of its repository to the cargo invocation:     *)
(* the rules of koval.toml (forge.rs), the build mode, arguments and       *)
(* environment (worker.rs, targets.rs), the PGO flags (pgo.rs), and the    *)
(* key under which the result is cached (cache.rs).  The worker takes one  *)
(* job at a time and one rule at a time; every job of a scenario meets the *)
(* same repository contents.                                               *)
(*                                                                         *)
(* A hardware profile is the flags of the CPU and, for every measure a     *)
(* rule can test, the set of values the profile has for it: one for a      *)
(* plain field, at most one for an optional field, one per device for the  *)
(* memory of GPUs.  Numbers are whole and booleans 0 and 1.  Fields that   *)
(* no rule tests are left out, and so is the order of CPU flags.           *)
(*                                                                         *)
(* An operator whose comment begins with "Slip:" is no part of the model:  *)
(* it is a plausible mistake in the operation defined after it.            *)
(***************************************************************************)
EXTENDS Naturals, Sequences, SequencesExt

CONSTANT Scenarios   \* the inputs: a repository and the jobs that build it

\* The measures of ForgeRule, by how a rule tests them.
AtLeast == {"cores", "memory", "bandwidth", "read_speed", "vram", "base_freq",
            "max_freq", "numa_nodes"}
Exactly == {"io_uring", "o_direct", "cache_line_size"}
Measures == AtLeast \cup Exactly

\* Tested measures the key leaves out: they are benchmarked anew each time.
Benchmarked == {"bandwidth", "read_speed"}

\* Variables of the server that a repository may not set.
Blocklist == {"KOVAL_DB", "KOVAL_ADMIN_TOKEN", "KOVAL_WEBHOOK_URL",
              "KOVAL_WEBHOOK_SECRET", "KOVAL_RATE_LIMIT",
              "KOVAL_QUEUE_CAPACITY", "KOVAL_PORT", "KOVAL_BCRYPT_COST"}

VARIABLES
  repo,   \* repo.koval, repo.rules, repo.manifest: the checkout
  jobs,   \* the jobs, in the order of the queue
  turn,   \* the job the worker is at
  next,   \* the rule build_config is at
  cfg,    \* what build_config has collected
  plan    \* plan[j] for the jobs before turn

vars == <<repo, jobs, turn, next, cfg, plan>>

NoConfig == [flags |-> <<>>, env |-> <<>>, features |-> {}]

Init ==
  /\ \E s \in Scenarios : repo = s.repo /\ jobs = s.jobs
  /\ turn = 1
  /\ next = 1
  /\ cfg = NoConfig
  /\ plan = <<>>

\* koval.toml is optional; repo.rules is empty when there is none.
Rules == repo.rules

------------------------------------------------------------------------------
(* build_config *)

Passes(measure, value, needed) ==
  IF measure \in Exactly THEN value = needed ELSE value >= needed

\* Every condition of the rule; a value the profile lacks passes none.
Matches(rule, hw) ==
  /\ rule.cpu_flags \subseteq hw.flags
  /\ \A m \in DOMAIN rule.needs :
       \E v \in hw.measure[m] : Passes(m, v, rule.needs[m])

\* A map in which the entries of f have been inserted.
Inserted(env, f) ==
  [k \in DOMAIN env \cup DOMAIN f |-> IF k \in DOMAIN f THEN f[k] ELSE env[k]]

Allowed(env) == Restrict(env, DOMAIN env \ Blocklist)

\* Slip: the first rule that sets a variable wins.
CollectFirst(c, rule) ==
  [flags    |-> c.flags \o rule.rustflags,
   env      |-> Inserted(Allowed(rule.env), c.env),
   features |-> c.features \cup rule.features]

\* What a matching rule adds; features are sorted and deduplicated.
Collect(c, rule) ==
  [flags    |-> c.flags \o rule.rustflags,
   env      |-> Inserted(c.env, Allowed(rule.env)),
   features |-> c.features \cup rule.features]

EvaluateRule ==
  /\ turn <= Len(jobs) /\ repo.koval # "broken" /\ next <= Len(Rules)
  /\ cfg' = IF Matches(Rules[next], jobs[turn].hw)
            THEN Collect(cfg, Rules[next]) ELSE cfg
  /\ next' = next + 1
  /\ UNCHANGED <<repo, jobs, turn, plan>>

------------------------------------------------------------------------------
(* The build mode and the cargo command line *)

Mode(kind, name) == [kind |-> kind, name |-> name]

NoMode == Mode("error", {})

\* detect_build_mode: a requested binary is not looked up in Cargo.toml, and
\* a workspace whose root is a package is built as that package.
DetectBuildMode(manifest, job) ==
  IF job.binary # {} THEN Mode("bin", job.binary)
  ELSE IF ~manifest.parses THEN NoMode
  ELSE IF manifest.package
       THEN IF manifest.name = {} THEN NoMode
            ELSE IF manifest.bins > 0 THEN Mode("multi", {})
            ELSE Mode("single", manifest.name)
  ELSE IF ~manifest.workspace THEN NoMode
  ELSE IF job.package # {} THEN Mode("package", job.package)
  ELSE Mode("workspace", {})

\* prepare_cargo_args: the modes "multi" and "single" select nothing.
CargoArgs(mode, features, job) ==
  [select   |-> IF mode.kind \in {"workspace", "package", "bin"} THEN mode
                                                         ELSE Mode("default", {}),
   features |-> features,
   target   |-> job.target]

\* A map of one entry.
Only(key, value) == [k \in {key} |-> value]

\* linker_env_for_target: the variable that names the linker, and the linker
Linkers ==
  [aarch64_gnu     |-> Only("CARGO_TARGET_AARCH64_UNKNOWN_LINUX_GNU_LINKER",
                            <<"aarch64-linux-gnu-gcc">>),
   armv7_gnueabihf |-> Only("CARGO_TARGET_ARMV7_UNKNOWN_LINUX_GNUEABIHF_LINKER",
                            <<"arm-linux-gnueabihf-gcc">>),
   x86_64_musl     |-> Only("CARGO_TARGET_X86_64_UNKNOWN_LINUX_MUSL_LINKER",
                            <<"musl-gcc">>),
   i686_musl       |-> Only("CARGO_TARGET_I686_UNKNOWN_LINUX_MUSL_LINKER",
                            <<"i686-linux-musl-gcc">>),
   arm_gnueabihf   |-> Only("CARGO_TARGET_ARM_UNKNOWN_LINUX_GNUEABIHF_LINKER",
                            <<"arm-linux-gnueabihf-gcc">>)]

\* Rules and jobs come in order, a rule tests known measures only, and the
\* handlers let only supported targets through.
ASSUME ScenariosAssumption ==
  \A s \in Scenarios :
    /\ Len(s.repo.rules) \in Nat /\ Len(s.jobs) \in Nat
    /\ \A i \in 1 .. Len(s.repo.rules) :
         /\ DOMAIN s.repo.rules[i].needs \subseteq Measures
         /\ s.repo.rules[i].rustflags \in Seq(STRING)
    /\ \A j \in 1 .. Len(s.jobs) :
         s.jobs[j].target \in {{}} \cup {{t} : t \in DOMAIN Linkers}

\* The flags of pgo.rs, after those of the rules.
PgoFlags(job) ==
  CASE job.type = "pgo_instrument" -> <<"-C", "profile-generate">>
    [] job.type = "pgo_optimize"   -> <<"-C", "profile-use", "-C", "llvm-args">>
    [] OTHER                       -> <<>>

\* Flags are the words that join(" ") and cargo's splitting leave: an entry of
\* koval.toml with a space in it stands here as its words.
RustFlags(c, job) == c.flags \o PgoFlags(job)

LinkerOf(target) ==
  IF target = {} THEN <<>> ELSE Linkers[CHOOSE t \in target : TRUE]

\* What the server itself sets: RUSTFLAGS, if there are any, and the linker.
Computed(flags, job) ==
  Inserted(IF flags = <<>> THEN <<>> ELSE Only("RUSTFLAGS", flags),
           LinkerOf(job.target))

\* Slip: what koval.toml sets goes over what the server computes.
CargoEnvsRepositoryLast(env, flags, job) == Inserted(Computed(flags, job), env)

\* prepare_cargo_envs
CargoEnvs(env, flags, job) == Inserted(env, Computed(flags, job))

------------------------------------------------------------------------------
(* process_job from the checkout to cargo *)

Failed == [outcome |-> "failed"]

\* A pgo_optimize job needs the merged profile of its source.
ProfileReady(job) == job.type = "pgo_optimize" => job.profile = "merged"

Plan(c, job) ==
  LET mode  == DetectBuildMode(repo.manifest, job)
      flags == RustFlags(c, job)
  IN IF \/ repo.koval = "broken" \/ ~repo.manifest.exists
        \/ mode = NoMode \/ ~ProfileReady(job)
     THEN Failed
     ELSE [outcome |-> "cargo",
           args    |-> CargoArgs(mode, c.features, job),
           archive |-> mode,
           envs    |-> CargoEnvs(c.env, flags, job)]

\* The rules are done, or koval.toml could not be parsed.
Prepare ==
  /\ turn <= Len(jobs)
  /\ repo.koval = "broken" \/ next > Len(Rules)
  /\ plan' = Append(plan, Plan(cfg, jobs[turn]))
  /\ turn' = turn + 1
  /\ next' = 1
  /\ cfg' = NoConfig
  /\ UNCHANGED <<repo, jobs>>

Next == EvaluateRule \/ Prepare

Spec == Init /\ [][Next]_vars

------------------------------------------------------------------------------
(* compute_cache_key *)

KeptHardware(hw) ==
  [flags   |-> hw.flags,
   measure |-> [m \in Measures \ Benchmarked |-> hw.measure[m]]]

\* Slip: the target triple is not part of the key.
CacheKeyWithoutTarget(job) ==
  <<KeptHardware(job.hw), job.project, job.git_ref, job.binary, job.package>>

\* SHA-256 is taken to be injective, and the parts to be separated by "|".
CacheKey(job) ==
  <<KeptHardware(job.hw), job.project, job.git_ref, job.binary, job.package,
    job.target>>

------------------------------------------------------------------------------

\* The rules build_config has passed and found matching for the present job.
Taken == {i \in 1 .. next - 1 : Matches(Rules[i], jobs[turn].hw)}

(***************************************************************************)
(* Reading the rules one after the other gives what the set of matching    *)
(* rules says: a variable has the value of the last of them that sets it,  *)
(* the server's own variables are never among them, and the features are   *)
(* those of all.                                                           *)
(***************************************************************************)
ConfigMeetsReference ==
  LET setters(k) == {i \in Taken : k \in DOMAIN Rules[i].env}
  IN turn <= Len(jobs) =>
       /\ DOMAIN cfg.env = (UNION {DOMAIN Rules[i].env : i \in Taken}) \ Blocklist
       /\ \A k \in DOMAIN cfg.env :
            \E i \in setters(k) : /\ cfg.env[k] = Rules[i].env[k]
                                  /\ \A h \in setters(k) : h <= i
       /\ cfg.features = UNION {Rules[i].features : i \in Taken}

(***************************************************************************)
(* The flags of all matching rules, in the order of koval.toml and before  *)
(* those of PGO, reach cargo whatever the rules set RUSTFLAGS to; so does  *)
(* the linker of the target.                                               *)
(***************************************************************************)
CargoGetsFlagsAndLinker ==
  \A j \in 1 .. Len(plan) :
    LET job   == jobs[j]
        flags == FlattenSeq([i \in 1 .. Len(Rules) |->
                   IF Matches(Rules[i], job.hw) THEN Rules[i].rustflags ELSE <<>>])
                 \o PgoFlags(job)
    IN plan[j].outcome = "cargo" =>
         /\ flags # <<>> => plan[j].envs["RUSTFLAGS"] = flags
         /\ \A t \in job.target : \A k \in DOMAIN Linkers[t] :
              plan[j].envs[k] = Linkers[t][k]

(***************************************************************************)
(* Standard jobs with the same key, whose machines measure the same        *)
(* speeds, get the same cargo invocation: the artifact of one serves the   *)
(* other.                                                                  *)
(***************************************************************************)
SameSpeeds(h1, h2) == \A m \in Benchmarked : h1.measure[m] = h2.measure[m]

KeyDeterminesPlan ==
  \A i, j \in 1 .. Len(plan) :
    /\ jobs[i].type = "standard" /\ jobs[j].type = "standard"
    /\ CacheKey(jobs[i]) = CacheKey(jobs[j])
    /\ SameSpeeds(jobs[i].hw, jobs[j].hw)
    => plan[i] = plan[j]
=============================================================================
