# KOVAL in TLA+

KOVAL is a build server: a client sends the hardware profile of its machine
and the URL of a Rust project, the server clones the project, derives compiler
flags from the rules in the project's `koval.toml`, builds it with cargo, and
serves the archive. Two clients come with it: a command line program and a shell
script that builds for the machine it runs on and installs the result. This
directory holds TLA+ modules of the server and the clients, TLC configurations that model-check them on small instances, and TLAPS proofs.

| module | what it is |
| --- | --- |
| `JobLifecycle` | abstract: what the server promises about a job |
| `JobEnding` | abstract: what the server promises to those who are told of a job's end |
| `BuildPipeline` | handlers, queue, dispatcher, build tasks, rows and archives; implements `JobLifecycle` and `JobEnding` |
| `BuildPipelineProofs` | its invariants and both refinements, proved |
| `TokenAccess` | authentication, rate limit, token administration, first token |
| `TokenAccessProofs` | its invariants, proved |
| `WebhookDelivery` | webhook registration, the end of a job, delivery attempts; implements `JobEnding` |
| `WebhookDeliveryProofs` | its invariants and the refinement, proved |
| `PgoUpload` | profile uploads of one build: saved files, the merge, the optimizing job |
| `PgoUploadProofs` | its invariants, and that its jobs live as `JobLifecycle` says, proved |
| `BuildPlan` | from job, rules and manifest to the cargo invocation and the cache key |
| `BuildPlanProofs` | its invariants, proved |
| `CargoRun` | `run_cargo_build`: the cargo process, its pipes and the timeout |
| `CargoRunProofs` | its invariants, proved |
| `KovalCli` | invocations of the command line client around one configuration file and a server |
| `KovalCliProofs` | its invariants, proved |
| `SmartInstaller` | the installer script as a client of a server that keeps `JobLifecycle` |
| `SmartInstallerProofs` | its invariants, proved |
| `MCPipeline`, `MCTokens`, `MCPlan`, `MCCargo`, `MCCli`, `MCInstaller` | instances for TLC, and statements of the documents that the code does not keep |

Check a module with `tlc -config PipelineFaults.cfg MCPipeline`, prove one with
`tlapm BuildPipelineProofs.tla`. `PROJECT.json` lists every run with its
configuration, and maps every definition to the lines it models.

## 1. The system

One process (`src/server`) with an axum router on a tokio runtime. Its state:

* one SQLite connection behind one `std::sync::Mutex`, shared by all
  handlers and build tasks and never held over an `await`. Tables: `tokens`,
  `rate_limit`, `jobs`, `artifacts`, `build_cache`, `pgo_profiles`,
  `webhooks`. No code opens a transaction: every
  statement commits by itself;
* a bounded `mpsc` channel of jobs, and the tasks that run them, in memory;
* archives and PGO profiles in files.

The command line client (`src/cli`) is a process for each command, with a
configuration file in the user's home that all of them read and some rewrite. The
installer (`server/src/assets/install.sh`) is a shell script the server renders with its
own address; it keeps its state in variables and a temporary directory.

| component | state | operations | behaviour that is hard | what makes it correct |
| --- | --- | --- | --- | --- |
| Build handlers (`routes/build.rs`, `routes/install.rs`) | reads `tokens`, `build_cache`; writes `jobs` | authenticate, look up, record, enqueue, reject | four scopes of the mutex; the world changes between them; the queue may be full when the row exists | a cached answer names a downloadable job; an accepted job is queued once; a rejected one is never built |
| Queue (`queue.rs`) | the channel | `enqueue`, `recv` | its limit; its loss at a restart | holds only jobs that wait |
| Worker (`worker.rs`) | tasks, `jobs.status`, `artifacts`, `build_cache`, work directories | dispatch, start, build, hash, three writes, fail, notify, clean up | three statements that commit by themselves; errors that leave early; panics; the build timeout | done means backed by an artifact; the life cycle only moves forward; each job ends |
| Cache (`cache.rs`) | `build_cache` | key, look up, insert | what the key leaves out | jobs with one key are built alike, if they were measured alike |
| Rules (`forge.rs`), targets, PGO flags | none | evaluate, collect, compute flags | order and overriding | all matching rules reach cargo, no server variable is overwritten |
| Authentication (`auth.rs`) | `rate_limit` | authenticate, prune, count | clocks read before the mutex | the window is bounded; refusals are justified |
| Tokens (`routes/tokens.rs`, `main.rs`) | `tokens` | create, revoke, bootstrap | act in a second scope; restart with revoked rows | a secret opens one row; revoked stays revoked |
| Webhooks (`routes/webhooks.rs`, `webhook.rs`) | `webhooks`, delivery tasks | register, deactivate, deliver, retry | lost or late answers; registration during the end of a job | told what is recorded, at most three times, nobody else's jobs |
| Download (`routes/binary.rs`) | reads `artifacts`, files | download | file and row are separate | serves what is done |
| Build process (`run_cargo_build` in `worker.rs`) | a child process, two pipes, a timer | spawn, wait, kill, read to the end | nobody reads while cargo runs; the timeout races the exit; cargo's children inherit the pipes | a reported status comes with the whole output; the wait ends |
| Status (`routes/status.rs`), job list | reads only | authenticate, read | row and artifact are read in two scopes; each poll counts against the rate limit; the position counts rows, not the queue | the poll is a step of `SmartInstaller`; job list and position not modelled |
| PGO upload (`routes/pgo.rs`, `pgo.rs`) | `pgo_profiles`, a directory of raw profiles, the merged one | save, merge, record, enqueue, download | uploads of one build share directory, output and row; names of parts collide or have no extension, fields are passed over; files stay when an upload fails; a handler is dropped where it awaits | an optimizing job finds a profile; a 202 means that what was kept of an undisturbed upload is merged; no unsent row stays behind |
| Command line client (`src/cli`) | `config.json`, shared by all invocations | load, set server or token, call the server | a save truncates and then writes, without a lock; ten seconds for an answer; a failed save exits with 0 | settings survive sets that do not overlap; a reported success was one |
| Installer script (`install.sh`, `routes/install.rs`) | script variables, a temporary directory, the installed files | probe, request, poll, download, verify, copy | every command may end it (`set -e`); polls count against the rate limit; the job's status moves between polls | installs only a verified archive of a done job, and all of it; ends when the job does |
| Probe, web page | none of the server's | | input and output | not modelled |

Interactions: a handler leaves a job in the channel; the dispatcher
(`worker.rs:40-51`) takes it and spawns a task; the task reports to the rows,
and at the end to the delivery tasks. The rows are what handlers and clients
see. Start-up (`main.rs`) creates the schema, inserts the first token and starts
an empty queue; it reads no job. The clients see the server through its HTTP
routes only: the installer through one job and the rate limit of its token, the
command line client as something that carries a request out, refuses it or does not answer.

## 2. The modules and the code

### BuildPipeline

A step is one scope of the mutex, one call on the channel, or one stretch
without shared state. The exception is the end of a successful build
(`worker.rs:383-387`), which runs three statements in one scope: `InsertArtifact`,
`InsertCacheEntry` and `MarkDone` are steps with the mutex held (`lock`), since
each commits by itself and the process can die between them. Every other
action that needs the mutex is guarded by `Unlocked`.

| variable | code |
| --- | --- |
| `req`, `handler`, `reply` | the request body, the position in `build_handler`, its response (while that is pending, `cached_id`) |
| `queue`, `task`, `lock` | the channel, the position in `process_job`, the mutex |
| `status`, `artifact`, `cache` | `jobs.status`, rows of `artifacts`, `build_cache` |
| `archive`, `workdir` | `<job>.tar.gz`, `koval_build_<job>` |
| `notified`, `restarts` | history |

A handler: `Authenticate`, then `CacheHit` or `CacheMiss` (a PGO job always
misses). A hit only takes the id; `Answer` sends it, after the mutex was released
(`routes/build.rs:111-114`), when the archive may be gone again. A miss goes on with
`RecordJob`, `Enqueue`, and for a full queue `RejectFull`. A task:
`StartBuild`, `RunBuild` (clone, plan, cargo, tar: success, failure or abort),
`HashArchive`, the three writes, or `MarkFailed`, then `Finish`, which
schedules the webhooks and removes the directory. With `MayFail`, every
statement and every file read may fail, and a task may panic: an error returned
by `?` becomes `Abort`, which leaves the row as it was, while the errors the code catches
go to `MarkFailed`. Without any fault `Panic` ends a task whose project URL has no character
boundary at byte 8 (`worker.rs:635`); the URL is part of the cache key, so these requests are
the ones whose key is in the constant `Malformed`. `Restart` empties memory, keeps the disk and loses open
requests. `RemoveArchive` is an operator or a cleaning job outside the program.
An id is the number of its request; requests are numbered in the order in
which they are authenticated, which spares TLC their permutations. The cache
is a function from keys to jobs, as `INSERT OR REPLACE` makes it.

### JobLifecycle, the abstract specification

`none -> queued -> building -> done | failed`, with `queued -> failed` for a
full queue, and `published`, the set of downloadable jobs, which grows in the very
step in which a job becomes done. `BuildPipeline` implements it with `status`
for itself and `published <- {j \in artifact : status[j] = "done"}`. With faults and
restarts only its safety part holds; without them also `LiveSpec`: every queued
job leaves the queue, every building job ends.

### JobEnding, the second abstract specification

A status is told only of a row that has it and can lose it no more. Both models
of the end of a job implement it: `BuildPipeline`, where a job is `told` when `process_job` schedules
its deliveries (`worker.rs:399-406` and `fail_job`), and `WebhookDelivery`, where it is told when a
receiver gets a request (`webhook.rs:63`; the refinement is stated and proved in
`WebhookDeliveryProofs`, and TLC checks of the same matter `ToldIsRecorded`). The one shows that no path through
`process_job` schedules too early, the other that the list read before the
status, the retries and a restart do not change what is told. `JobEnding` is what
the two modules have in common; how often and to whom is for `WebhookDelivery` alone.

### TokenAccess

A call reads the clock (`ReadClock`), then takes the mutex once to
authenticate, prune and count (`Unauthorized`, `Admit`, `Refuse`,
`FailToCount`), and an administrator's call takes it again to act
(`CreateToken`, `RevokeToken`). Because the clock is read outside the mutex, a
call may count by a clock that is earlier than the one the table was last
pruned for (`horizon`); `late` holds the calls of which that is true. `Restart` drops open calls and runs
`bootstrap_admin_token`, which inserts the administrator when no row is
active. bcrypt verification is equality of secrets. The comparison of
`window_start` as text is that of milliseconds with `>=`. The model is of a server
whose `KOVAL_ADMIN_TOKEN` is `koval_tkn_default_admin`, the one secret
`routes/tokens.rs` accepts for administration.

### WebhookDelivery

The end of a job is `ReadList`, `UpdateStatus`, `Schedule`: the list of
receivers is read in a scope before the one that writes the status, both in
`fail_job` (`worker.rs:77-96`) and after a success (`worker.rs:366-387`); a
webhook deactivated in between is told (section 6). `Attempt` sends one request,
which arrives or is lost, and is answered with a success in time, or not; after
three unanswered ones the delivery is abandoned. The sleeps between attempts
only separate them.

### PgoUpload

The model is of one finished instrumented build and the uploads of its
profiles. A handler is `Admit` (all checks), `Resolve` (directory and row, in one
scope of the mutex), a `SaveFile`, `SkipField` or `RefuseField` for each field, `StartMerge`
or `NothingUploaded`, `EndMerge`, `RecordMerged`, `InsertJob`, `Enqueue`,
`RejectFull`. It awaits in two places only, the next field of the body and
llvm-profdata (`routes/pgo.rs:87,100,128`); there `Drop` ends a handler whose
client has gone, as hyper does, while the process it started goes on
(`MergeStep`). `StartMerge` may be taken after any number of files: the loop
ends in the same way for a complete and for a broken body.

`Files` are the last components of part names, which is all `routes/pgo.rs:105` keeps:
two parts of one upload may be written to the same file, and both count. The names in
`Hidden` (`.profraw`) end as the route wants it and have no extension for
`merge_command` (`pgo.rs:28`), so they are saved, counted and not merged; when nothing else
is there, there is no command. `SkipField` is a part without a file name.

| variable | code |
| --- | --- |
| `up`, `reply`, `fields` | the position in `upload_profiles_handler`, its response, `files_saved` |
| `dir`, `merged` | the `.profraw` files by name and the part each holds; what went into `merged.profdata` |
| `row`, `job` | the row of `pgo_profiles`; the rows of the optimizing jobs |
| `merge`, `args`, `input` | each llvm-profdata process, its command line, what it read |
| `saved`, `sent`, `disturbed`, `unread` | history: the last part saved under each name, jobs in the channel, overlapping uploads, uploads with fields that were not taken |

The content of a file is a part, the upload it came from with its number among the files
saved, or `Torn` when a save failed half-way; llvm-profdata refuses a torn file. Saving one file and writing the output are
steps, so a reader of a half-written file is not modelled. Other routes use the
channel as well, so there is room in it or not. `disturbed` holds the uploads that
were at work, from the first field to the job in the channel or while their
llvm-profdata runs, at the same time as another.

### BuildPlan

The worker takes a job, reads the rules one at a time (`EvaluateRule`), and
computes the cargo invocation (`Prepare`: `DetectBuildMode`, `CargoArgs`,
`CargoEnvs`, `Linkers`, `PgoFlags`). Its operators are the pure functions of
`forge.rs`, `worker.rs`, `targets.rs`, `pgo.rs` and `cache.rs`. A scenario is
a repository and a pair of jobs; the properties compare the two plans. The CPU
flags are a set, profile fields that no rule reads are absent, numbers are
whole, and SHA-256 is injective. Flags are sequences of words: rustc splits `RUSTFLAGS` at
spaces, and `join(" ")` (`forge.rs:180`, `worker.rs:174-213`) is concatenation only if a rule
writes a flag with a space as two, as the documents do. The fields of the key are a tuple,
while `cache.rs:43-46` joins them with an unescaped `|`. For jobs that the worker builds this
is the same: the profile in front is JSON and ends itself, and ref, names and target behind
the URL hold no `|` (`worker.rs:610-631`, `build.rs:45-62`), so only the URL can have one.

### CargoRun

`run_cargo_build` with the processes around it. `Spawn` starts cargo with a pipe for
each stream; in `waiting` the code awaits the exit, and nothing else: `Reap` takes
the status, `TimeOut` kills cargo, `WaitFails` gives up. Only after `Reap` are the
pipes read to their ends, stdout first (`Read`, `Advance`).

| variable | code |
| --- | --- |
| `run`, `status`, `error` | the position in `run_cargo_build` or its result, the exit status, how much the message shows (`truncate_stderr`) |
| `pipe`, `read` | what a pipe holds, `stdout_bytes` and `stderr_bytes` |
| `open`, `size`, `wrote` | the processes, external: who has the write end, what each is going to write and has written |

A process that writes to a full pipe waits, as the kernel has it. Helpers are
processes that cargo starts (rustc, build scripts, whatever these leave running); they may have
inherited a stream and may outlive cargo, killed or not. `BuildPipeline!RunBuild` is this
module seen from `process_job`: a success, or a failure that includes the timeout.

### KovalCli

One process of the model is one invocation. `Load` reads the configuration before
the command is looked at; a set is `Create`, which truncates the file, and `Write`;
a call of the server is `NewClient` (both settings present, and the token legal in a
header), `Prepare` (the files of `pgo upload`), `Send`, and `Receive` or `TimeOut`. `Kill`
is a signal at any point and may cut a write short.

| variable | code |
| --- | --- |
| `cmd`, `step`, `conf` | the arguments, the position in `main` and its exit, the `Config` |
| `file`, `blank` | what `Config::load` makes of `config.json`; whether the file is empty |
| `inbox`, `answer`, `served` | requests, responses and what the server did, external |
| `intended`, `spoiled` | history: the settings had each set been atomic; whether sets overlapped, failed or were killed |

The texts of two configurations differ in length, and a shorter one written over a
longer one leaves its tail, which does not parse, so `Write` into a file that is not
blank has both outcomes. The calls differ in their method, in what `Prepare` reads and in
whether the body of the response matters; what they print does not.

### SmartInstaller

The script is a sequence of steps; `Abort` is the end that `set -e` or an `exit 1`
makes of a failing one, `Refused` the end by a 429. The server's jobs are an instance of
`JobLifecycle` (`Server`), so that what is shown here holds for whatever implements
it, `BuildPipeline` included. `Poll` is `status_handler`, `Download` is
`binary_handler`. Both read two things in two scopes; a done row and its artifact
both stay, so only failures are left between them.

Time is counted in polling intervals of two seconds. `recent` holds the
ages of the script's calls in the window of the rate limit, which `Tick` ages
and each admitted call joins with age 0. `host` is what the script finds on the machine,
the server's rate limit, and how the server is reached: `install_script_handler` makes a scheme out
of the `Host` header, http for a local name and https for any other.

### Operators marked "Slip:"

Operators whose comment begins with "Slip:" are not part of the specifications.
Each is a plausible mistake in the operation defined after it; replacing the
operation by its slip breaks the property that `PROJECT.json` pairs it with, which
shows that the property depends on what the code does.

## 3. The runs

| run | states | what it shows |
| --- | --- | --- |
| `pipeline_faults` | 778,145 | three requests, two keys and one with a URL the worker panics on, capacity 1, one restart, every fault: the safety properties, that no job is forgotten, and the refinements of `JobLifecycle!Spec` and `JobEnding!Spec` |
| `pipeline_service` | 10,176 | two requests, standard and instrumented, no fault, archives removed at any moment: a request that comes after a removal is not sent to the removed archive, every handler answers, every accepted job ends, notifies and leaves no directory behind, the cache never names an unfinished job |
| `token_access` | 1,865,020 | three calls, two rows, limit 1, restarts: the newest window is bounded, and any window for the calls counted in time, refusals are justified, a secret opens one row, revoked stays revoked |
| `webhooks` | 12,832 | one job, two webhooks, two tokens, one restart, lossy network: receivers are told what is recorded and nothing after a success, others nothing; a webhook that was read is told or given up |
| `pgo_upload` | 696,840 | two uploads, two file names of which one has no extension, at most two files each, fields that are passed over, one restart, every fault, clients that hang up: optimizing jobs find a profile, rows agree with the channel, what an undisturbed upload kept is merged, who waits for llvm-profdata is answered |
| `build_plan` | 171,396 | every rule condition in both outcomes, pairs of rules, every shape of manifest, pairs of jobs that differ in one thing |
| `cargo_run` | 213,232 | cargo and a helper, pipes of 2, output of 0 to 3 on each stream, every exit, kill and timeout: a reported status is complete, the run ends unless a helper holds a stream |
| `cli` | 743,857 | three invocations of any commands, kills, failing writes, a server that need not answer: settings survive sets without overlap, success is real, every invocation ends |
| `installer` | 64,720 | two jobs, every kind of host, every failure: only whole and verified archives of done jobs are installed, a roomy limit never refuses, the script ends with its job |
| `claim_*` | | one statement each of a document or comment that the code does not keep (section 6) |

Why the bounds are enough for the cases that matter. Capacity 1 with three
requests lets one job build, one wait and one be rejected; it also lets the third be
answered from the cache of the first while the second ends. Two keys separate
hits from misses; they are interchangeable and declared a symmetry where no liveness is checked. One restart hits every point of every handler and task,
and what comes after it runs to its end. In `TokenAccess` three calls
are the least in which a call admitted by an older clock, a call that pruned and a
refused call differ; a window of 1 and time up to 2 have a row inside, at the edge
of and outside the window. Two token rows let an
administrator be revoked and inserted again. Two webhooks of two tokens let one be served and another
not; a third would only repeat one of them. Two uploads with two names, one with and one without the extension, can
replace, add to and outlast one another's files and their own (two names with the
extension multiply the states by more than six and are left to the proofs), and the limit of two is reached (the code has 32). A rule has at most one
condition, since conditions are a conjunction of independent tests.

`claim_window` has a limit of two and four calls, since with a limit of one the later call, which
prunes, is itself the one that has the earlier refused. `claim_loud_build` has no helper and a timeout that elapses only when cargo has come to a stand.

In `CargoRun` an output of 3 against a pipe of 2 is the least that blocks its
writer, and one helper is enough to share, fill or hold a stream; a second would
repeat it. Three invocations of the client are two sets that overlap and a command that
reads between them; `MCCli` orders the commands of the invocations, which
are interchangeable. There is one server address and two tokens, of which
one is no legal header value. The installer polls through a window of three intervals with a
limit of five, the least `RoomyLimitSuffices` speaks of, or of two, which refuses it;
`claim_installer` has the latter only; two jobs let a cached build and a new one differ.

The named bounds of the models are `MaxRestarts`, `MaxTime`, `MaxTokens`, `MaxOutput` and
`Scenarios` (`MaxFiles` is the code's 32, made small); the other constants are configuration of the server or sets of
clients. `CHECK_DEADLOCK FALSE` is set in every run, since all of them can end:
once every request is answered, every call served, every job planned or every
process gone, the system waits for a client and nothing is left to do. `CargoRun`
may also really stop: a helper that never closes its stream is waited for without
end, and `EndsUnlessHeld` says that nothing else is.

## 4. Fairness

`BuildPipeline!Fairness` is weak fairness of each handler's steps after
authentication, of each task's steps, and of the dispatcher. The tokio runtime
polls a ready task. `std::sync::Mutex` is not a fair queue, but its scopes are short
and finite in number, each holder lets go of it, and so whoever waits for it gets it
when the others have; only the three writes at the end of a build hold it over
a step of the model. The liveness properties are checked with `Malformed = {}`; with a URL
the worker panics on they do not hold, since the row then stays
`building` (section 6). `RunBuild` ends because `run_cargo_build` kills the child at
`KOVAL_BUILD_TIMEOUT_SECS`, which `EndsUnlessHeld` of `CargoRun` shows as far as it is so: not
while a helper keeps a stream open that is being read. `git` and `tar` have no timeout and are assumed to return.
`WebhookDelivery!FairSpec` has weak fairness of the end of each job and of each
delivery's attempts: reqwest's client has a timeout of five seconds.
`PgoUpload!FairSpec` has weak fairness of the handler's steps that wait for no
client and of llvm-profdata, which has no timeout and is assumed to end.
`CargoRun!FairSpec` has weak fairness of what `run_cargo_build` does, the timer
included, and none of any process. `KovalCli!FairSpec` has weak fairness of each
invocation that has begun: its reqwest client has a timeout of ten seconds, and nothing is assumed of the
server. `SmartInstaller!FairSpec` has weak fairness of the script's commands and of the end of
its sleeps, and none of the server: `EndsWithTheJob` starts where the job has
ended. curl without a timeout is assumed to return. No
fairness is assumed of clients, authentication, registration, restarts or the
removal of files. `TokenAccess` and `BuildPlan` are checked for safety only; a
token call has no step that waits for another call.

## 5. What is proved

`BuildPipelineProofs`, for all finite or infinite sets of requests and keys,
any capacity of at least one, any number of restarts, with or without faults:

* `PipelineInvariant`: `Spec => []IInv`. `IInv` is the conjunction of the type
  invariant, the four invariants of the run and what makes them inductive:
  `LockInv` (the mutex is held by exactly the task that is between its three
  writes), `TaskInv` (where a task is bounds the status of its row), `HandlerInv` (until
  its handler has answered, a request has no task, and its row is absent or
  queued according to the handler's step), `ChosenInv` (between lookup and answer the id is a
  done job of the same key), `StoreInv` (archive, artifact row and
  done appear in this order), `FullInv` (a request answered 503 has no task, and
  its row is failed or the statement that says so failed), `FaultFreeInv`
  (without faults a cache entry is done or one held step before it).
  `QueueHoldsWaitingJobs` alone is not inductive: that the dispatcher spawns a
  job whose task is `none` needs that a queued job is in the channel once, which needs
  that a handler enqueues its own request only, once.
* from it `TypeCorrect`, `QueueIsSound`, `DoneIsBacked`, `CacheIsBacked`,
  `CachedReplyIsStable`, `FullIsFinal`, `CacheUpdateIsAtomic`,
  and `PipelineImplementsLifecycle`:
  every step maps to a step of `JobLifecycle` or a stutter.
* `GoneIsNotServed`: a request that has not looked up when an archive is removed is never sent
  to it. It relates two moments, so it is a temporal formula with a stable condition:
  `Spared` is kept by every step (`SparedStays`), because a removed archive does not come back and
  no lookup takes its job, although the cache entry still names it. A request between its
  lookup and its answer is not spared, and may be sent to an archive that has gone.
* `PipelineImplementsEnding`: every step maps to a step of `JobEnding` or a
  stutter. The case that needs the invariant is `Finish`, where the row must have been terminal
  since before the task came there (`TaskInv`).
* `NoJobIsForgotten`: a queued or building row has a handler that is about to send or
  reject it, a place in the channel, or a task at work on it. The exceptions are those of the code and
  are named in `UnfinishedIsOwned`: a process that died with the row in memory; with faults, an error
  taken with `?` or a panic; the panic on a malformed URL; and a rejected job whose update failed.
  That the disjunct on aborted tasks says so much and no more rests on `AbortInv` (a task is
  aborted by faults or by its URL only). For the argument each step is split into a step
  of one job's owner (`HandlerStepOwns`, `TaskStepOwns`, `DispatchLeavesOthers`) and what the others leave alone.
* `BuildsAreNotRepeated`: `BuildsOnlyAdvance`, each step of a build raises its
  `Rank`, restarts included, so a job is built at most once and in at most eight steps. With
  `NoJobIsForgotten` this is the part of "every accepted job ends" that needs no
  fairness: who has to act next exists, and acting gets the job nearer to its end. TLC checks
  the rest (`pipeline_service`).

`TokenAccessProofs`, for every finite set of calls, every limit, window and
bound: `AccessInvariant`, and from it `AccessTypeCorrect`, `WindowIsBounded`,
`WindowsAreBoundedInTime`, `RefusalIsFair`, `SecretIsUnambiguous` and the action property
`RevocationIsFinal`. The argument for the window: the rows kept after a prune by `horizon` include every
admitted call of the newest window (`KeptInv`), so a call that is admitted by
the newest clock saw them all, and a call with an older clock either lies before the
window or was counted among them. `WindowsAreBoundedInTime` says of the
sliding window of docs/architecture.md:88 as much as is true: in every window, not only the
newest, the calls that were not `late` keep the limit, and so do all calls of a server
on which none was. `claim_window` shows that late calls do not; the
two together say that the order of clocks is the only way past the limit. `OnTimeCallsBounded`
is inductive given `IInv`: a call that is not late sees in its window every row that could share a
window with it (`OnTimeAdmission`). `RefusalIsFair` rests on the
converse, that a row is only ever kept for a call that was admitted (`RowInv`);
both need `Cardinality` of finite sets, hence the assumption that `Calls` is finite.

`PgoUploadProofs`, for every set of uploads and of file names, any limit,
faults and restarts: `UploadInvariant`, and from it `UploadTypeCorrect`,
`ProfileIsThere`, `RowsAgree` and the action property
`UndisturbedUploadIsMerged`. `FileInv` says that names never leave the
directory, so a merge always has something to read; `StepInv` what a handler
has done by the time it reaches a step, and that others do not undo it;
`OverlapInv` that two uploads at work are both in `disturbed`; `OwnInv` follows, of an upload
that is not, the last part it saved under each name with the extension, from the directory through `input` into
`merged`. `OwnInv` is inductive only together with `OverlapInv`: the step of
another upload that would replace a file or the output makes the first one
disturbed, and nothing weaker keeps its files in place. The theorem says what of an upload is
merged; that this is not all it sent is said in section 6.
`UploadImplementsLifecycle` is the refinement of `JobLifecycle` by the second route that
writes rows of `jobs`, with nothing ever published: these rows
start, are sent or rejected like those of `build_handler`, and a dropped handler only leaves
a stutter.

`WebhookDeliveryProofs`, for every set of jobs, webhooks and tokens:
`DeliveryInvariant`, and from it `DeliveryTypeCorrect` (no delivery makes more than three
attempts), `ReceiversLearnTheRow`, and the action properties
`SilentAfterSuccess` (`SuccessEndsTheTask`) and `OthersAreLeftAlone`
(`OthersHearNothing`), `DeliveryImplementsEnding`, and `NoListenerIsForgotten`: once the end of a job is
scheduled, each webhook in its list has had its success or its three attempts, or a task
that is still at it, which is the part of `ListedIsTold` that needs no fairness. `Backed` says that a delivery exists only behind a row that was written, for
a webhook in the list of its job; `Counts` that the state of a task agrees with
what it sent. `OthersAreLeftAlone` speaks of two moments, that a webhook is out of
the list from some moment and that it is told nothing from then on, and so
is a temporal formula with a stable condition (`LeftStays`) and a step.

`CargoRunProofs`, for every set of helpers, every capacity of the pipes and every
amount of output: `CargoRunInvariant`, and from it `CargoRunTypeCorrect`,
`ReportsAreComplete`, `LoudBuildsTimeOut` (the reason for `claim_loud_build`, for every pipe), and `ReaderWaitsForHelpersOnly`: a read that finds
neither data nor the end waits for a helper that has the stream open, which is the part
of `EndsUnlessHeld` after cargo's exit that needs no fairness. `Unread` says that until cargo's
exit nothing was read, so that what cargo wrote is still in the pipe, and afterwards
is in the pipe or read; the capacity of the pipe then bounds what a reported cargo
wrote. `Gone` says that cargo, once reaped, writes nothing more.

`KovalCliProofs`, for every number of invocations and every set of addresses,
tokens and acceptances: `CliInvariant`, and from it `CliTypeCorrect`,
`UndisturbedSetsAreKept` and `ReportedSuccessIsServed`. `SettingsAreKept` speaks
of the file between sets and is not inductive: `SetterInv` says what the file and
the one set at work hold meanwhile.

`SmartInstallerProofs`, for every set of jobs and files, every limit and window:
`InstallerInvariant`, and from it `InstallerTypeCorrect`, `InstallationIsWhole` and
`RoomyLimitNeverRefuses`. `ScriptInv` carries what each step has established to the steps
after it, across whatever the server does meanwhile; the limit follows from
the number of ages a window has (`CallsInWindow`).

`BuildPlanProofs`, for every set of scenarios, that is any lists of rules, manifests
and any number of jobs: `PlanInvariant`, and from it all three invariants of the run,
`ConfigIsReference`, `SameKeySamePlan` and `FlagsAndLinkerReachCargo`. `Collected`
describes the configurations that reading the rules one after the other goes through;
`Present` and `Planned` say that the worker's configuration is the next of them and each
plan is that of the last. That two machines for which the same rules match get one
configuration (`SameMatchesSameConfig`), that flags stay sequences, and that they are what
`FlattenSeq` makes of the matching rules (`CollectedFlags`), are inductions over the list of
rules. They are proved by the least number at which they would fail (`LeastNumber`,
from `WFMin` of the library). The assumptions are that rules test known measures
and have flags that are sequences of strings, and that jobs have supported targets, which
`routes/build.rs:47` checks.

The assumptions of the constants are the named `ASSUME`s of the modules; TLC
evaluates them in every run. What stays with TLC: liveness
(`ImplementsLiveLifecycle`, `EveryRequestAnswered`, `BuiltJobsWindUp`,
`ListedIsTold`, `MergeIsAnswered`, `EveryCommandEnds`, `EndsWithTheJob`, `EndsUnlessHeld`), because
TLAPS does not prove fairness arguments with ENABLED. Every safety property of a
passing run is proved. The type invariants of `BuildPipeline`, `TokenAccess`, `PgoUpload`, `CargoRun`, `KovalCli`
and `SmartInstaller` are proved and not listed in a run: they are parts of the inductive invariants.

## 6. Where the code and its documents differ

With a run that shows a behaviour of the code against the statement:

| run | statement | the code |
| --- | --- | --- |
| `claim_window` | docs/architecture.md:88, sliding window | a call with an older clock counts after a newer call has pruned; no failure is needed |
| `claim_loud_build` | docs/api.md:144, `error_msg` has the compile errors | nobody reads the pipes while cargo runs (`worker.rs:541`): a cargo that writes more than a pipe holds (64 KiB on Linux) stops and is timed out |
| `claim_installer` | docs/api.md:509, the installer orchestrates profiling, enqueuing and download | it polls every two seconds (`install.sh:96`) against a default limit of 20 a minute (`main.rs:73`), and ends on a 429 when the build takes longer than some 40 seconds |

Five more differences are steps of the models, without a run of their own:

* every successful build is entered in the cache, PGO builds too (`worker.rs:385`), under a key
  without the job type, so a standard request can be answered with an instrumented build. The lookup is
  bypassed for PGO as `routes/build.rs:80` says; docs/architecture.md:62 calls what the cache answers
  "exact build duplicate hits" and says nothing of types. In `BuildPipeline`, `InsertCacheEntry` does
  not look at the type, and `CacheHit` only at that of the request;
* the key leaves out measured speeds (`cache.rs:17-24`) that rules can test, so two machines with different
  commands share an archive, while README.md:261 of the repository speaks of "the exact same
  hardware profile". This is what `SameSpeeds` excludes from `KeyDeterminesPlan`;
* `url[..8]` panics inside a character (`worker.rs:635`): the row stays `building`, while
  docs/architecture.md:71 has it become `done` or `failed`. `BuildPipeline!Panic` is that step,
  and `UnfinishedIsOwned` counts the rows it leaves;
* the webhooks are read before the status is written (`worker.rs:367`, `77`), not after it, as
  docs/architecture.md:71 says, so one that is deactivated while the row says `building` can be
  told. `OthersAreLeftAlone` speaks of webhooks that are inactive when the list is read;
* two parts of one upload with one last component are one file (`routes/pgo.rs:105`): 202, and the first is
  lost. `UndisturbedIsMerged` speaks of the last part of each name.

Overlapping uploads of one build are not what docs/api.md:619 describes, "Raw
profiles are successfully validated, written, and merged": both are answered
202, while a file of the same name is replaced by the other's, and the merge
that ends last decides `merged.profdata`, which may be one that started before
the other's files were there. One client is enough: it hangs up while
llvm-profdata runs, its handler is dropped, the process goes on, and its output
replaces that of the retry. `UndisturbedIsMerged` holds because of its restriction to
uploads without overlap; without `\ disturbed` TLC finds such runs.

Besides, of an upload that is alone and was answered 202 not all need be merged: a part named just `.profraw` is accepted and ignored by
`merge_command` (`Hidden`), and a part without a file name is passed over (`SkipField`); a
body that breaks off after a file counts as complete (`routes/pgo.rs:87`).

Between the check of a cached archive (`routes/build.rs:101`) and the answer
(`routes/build.rs:111-114`) the archive can be removed, and the client is sent to a job whose
download answers 404. `RemovedIsNotServed` therefore speaks of requests that have not looked yet.

Two `config set` commands at the same time may lose one setting, or leave a file
that does not parse and is read as empty from then on (`config.rs:49-56`). `SettingsAreKept`
holds because it is restricted by `~spoiled`; without it TLC finds both cases. A
save that fails is reported and exits with 0 (`main.rs:146-160` of the CLI).

Seen while reading, without a run.

* Jobs: after a failed second or third statement at its end, a `building` job has an
  artifact and is served, while README.md:170 says that a binary is only available when the
  status is `done`; a restart orphans queued and building rows, which README.md:159 has no state
  for; a job rejected for a full queue ends as `failed` and sends no webhook; errors
  taken with `?` in `process_job` leave the row `building`; README.md:66 speaks of a
  concurrency limit, and the dispatcher spawns every job at once; a capacity of
  0 panics in `channel()`; the timeout kills cargo and nothing that cargo started;
  `git checkout -- <ref>` (`worker.rs:132-134`) reads the ref as a path.
* Plan: a `RUSTFLAGS` in `koval.toml` is replaced when rules
  collect flags.
* PGO: docs/api.md:628 promises 403 where the upload and download of another token's profile
  answer 404; the `pgo_optimize` job made by the upload drops target, binary and
  package; the CLI hangs up after ten seconds, so that a long llvm-profdata is a client
  that has gone in the sense of `PgoUpload!Drop`.
* Status and tokens: `GET /status` counts queued rows, orphaned ones included, for the
  position (`db.rs:325-354`), while docs/api.md:145 speaks of the index in the queue; the token,
  webhook and job list routes answer 401 where a rate refusal elsewhere is 429; the
  comment at `main.rs:82` says "if the table is empty" while the code asks whether a
  token is active.
* Installer: the scheme of the server's address is https for every host that is not local, so a
  server without TLS cannot be installed from by another machine.

## 7. What is not modelled

* The job list route and the queue position of the status route read rows and
  format them; no document says precisely what the position counts.
* The contents of builds: git, cargo, tar, llvm-profdata are external, as are
  the processes around `run_cargo_build`, the machine the installer runs on and the
  server as the CLI sees it.
* The hardware probe reads `/proc` and `/sys` and measures; its result is the
  profile of `BuildPlan`. The web page is static. Packaging scripts are no part
  of the program.
* Kernel details of the pipes beyond their capacity, and output the CLI prints.
* SQLite, axum, tokio and reqwest are assumed to do what their documents say.
* The job index of the database is the request; UUIDs never collide.

## 8. Plan

Order by what the system depends on most: first the path of a job, then who may
ask, then who is told, then what is built.

1. Done: `JobLifecycle`, `BuildPipeline`, `TokenAccess`, `WebhookDelivery`,
   `BuildPlan`, `PgoUpload`, `CargoRun`, `KovalCli`, `SmartInstaller`, the runs
   above, and the proofs of section 5.
   The two models of a job's end meet in `JobEnding`, which both implement.
2. Next models: the status route's position against the channel; a builder that reads the merged
   profile while an upload rewrites it.
3. Next proofs: the safety cores of two more liveness properties, the upload's answer
   (`MergeIsAnswered`) and the end of a client's command (`EveryCommandEnds`).
