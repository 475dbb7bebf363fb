--------------------------- MODULE SmartInstaller ---------------------------
(***************************************************************************)
(* The installer script (server/src/assets/install.sh) as a client of the  *)
(* server: it fetches the probe, asks for a build, polls the status of the *)
(* job (routes/status.rs) until it ends, downloads the archive             *)
(* (routes/binary.rs), verifies it and copies its files.  "set -e" ends    *)
(* the script at the first command that fails.                             *)
(*                                                                         *)
(* What the server does with jobs is JobLifecycle, which BuildPipeline     *)
(* implements.  Time is counted in polling intervals, the "sleep 2" of the *)
(* script; every call but the download is made in an interval of its own,  *)
(* so that the calls in the window of the rate limit are a set of ages.    *)
(*                                                                         *)
(* An operator whose comment begins with "Slip:" is no part of the model:  *)
(* it is a plausible mistake in the operation defined after it.            *)
(***************************************************************************)
EXTENDS Integers, FiniteSets

CONSTANTS
  Jobs,       \* job ids
  NoJob,
  Files,      \* files in an archive
  Limits,     \* values of KOVAL_RATE_LIMIT
  Window,     \* the 60 seconds of the rate limit, in polling intervals
  MayFail     \* whether a transfer, a command or a file of the host may fail

ASSUME JobsAssumption   == NoJob \notin Jobs
ASSUME LimitAssumption  == Limits \subseteq Nat /\ Window \in Nat
ASSUME FaultAssumption  == MayFail \in BOOLEAN

\* What uname -m says, and the build of the probe the script asks for.
TargetArch == [x86_64 |-> "x86_64", aarch64 |-> "aarch64",
               i686 |-> "i686", armv6l |-> "armv6"]

\* The builds of the probe that static_probe_handler has.
StaticProbes == {"x86_64", "aarch64", "i686", "armv6"}

\* A machine, the server's address as the Host header gives it, and its rate
\* limit, for a token that only the installer uses.
Hosts == [linux: BOOLEAN, arch: {"x86_64", "armv6l", "riscv64"},
          fetcher: BOOLEAN,           \* curl or wget is installed
          sha256sum: BOOLEAN,
          local: BOOLEAN,             \* the server is on this machine
          tls: BOOLEAN,               \* the server is reached by https
          limit: Limits]

VARIABLES
  host,       \* the machine, and how the server is set up
  step,       \* how far the script is, or how it ended
  job,        \* the job whose archive it wants
  archive,    \* the downloaded archive
  copied,     \* the files it has installed
  recent,     \* ages of its calls in the rate limit's window
  \* the server
  status, published

Server == INSTANCE JobLifecycle WITH Requests <- Jobs

script == <<step, job, archive, copied>>
server == <<status, published>>
vars == <<host, script, recent, server>>

Ended == {"installed", "aborted", "refused", "failed"}
Steps == {"detect", "probe", "request", "asleep", "poll", "download",
          "verify", "extract", "ask", "copy"} \cup Ended

TypeOK ==
  /\ host \in Hosts
  /\ step \in Steps
  /\ job \in Jobs \cup {NoJob}
  /\ archive \in {"none", "intact", "damaged"}
  /\ copied \subseteq Files
  /\ recent \subseteq 0 .. Window
  /\ Server!TypeOK

Init ==
  /\ host \in Hosts
  /\ step = "detect"
  /\ job = NoJob
  /\ archive = "none"
  /\ copied = {}
  /\ recent = {}
  /\ status \in [Jobs -> Server!Statuses]
  /\ published = {j \in Jobs : status[j] = "done"}

From(s) == step = s
To(s) == step' = s

Abort == To("aborted") /\ UNCHANGED <<job, archive, copied>>

------------------------------------------------------------------------------
(* Time and the rate limit *)

\* Slip: rows are never too old to count.
AgedLate == {a + 1 : a \in recent}

Aged == {a + 1 : a \in recent} \cap 0 .. Window

\* An interval passes; the script wakes up from its sleep.
Tick ==
  /\ step \notin Ended
  /\ recent' = Aged
  /\ To(IF step = "asleep" THEN "poll" ELSE step)
  /\ UNCHANGED <<host, job, archive, copied, server>>

\* Slip: the call itself is counted before it is judged.
OverLimitWithSelf == Cardinality(recent) + 1 >= host.limit

OverLimit == Cardinality(recent) >= host.limit

\* 429, on which curl -f and wget fail
Refused == /\ step \in {"request", "poll", "download"}
           /\ OverLimit
           /\ To("refused")
           /\ UNCHANGED <<host, job, archive, copied, recent, server>>

Counted == ~OverLimit /\ recent' = recent \cup {0}

------------------------------------------------------------------------------
(* The script *)

Detect ==
  /\ From("detect")
  /\ \/ /\ host.linux /\ host.arch \in DOMAIN TargetArch /\ host.fetcher
        /\ To("probe")
        /\ UNCHANGED <<job, archive, copied>>
     \/ /\ ~(host.linux /\ host.arch \in DOMAIN TargetArch /\ host.fetcher)
        /\ Abort
  /\ UNCHANGED <<host, recent, server>>

\* install_script_handler guesses the scheme from the name of the host.
SchemeIsRight == host.tls = ~host.local

\* The probe is downloaded without a token, and run.
FetchProbe ==
  /\ From("probe")
  /\ \/ /\ SchemeIsRight /\ TargetArch[host.arch] \in StaticProbes
        /\ To("request")
        /\ UNCHANGED <<job, archive, copied>>
     \/ /\ MayFail \/ ~SchemeIsRight
        /\ Abort
  /\ UNCHANGED <<host, recent, server>>

(***************************************************************************)
(* POST /forge/install: the job of a cached build, a new job, or no job    *)
(* for a call refused for its token or project, or for a full queue.       *)
(***************************************************************************)
RequestBuild ==
  /\ From("request")
  /\ Counted
  /\ \/ \E j \in published :
          job' = j /\ To("download") /\ UNCHANGED <<archive, copied, server>>
     \/ \E j \in Jobs :
          Server!Submit(j) /\ job' = j /\ To("asleep") /\ UNCHANGED <<archive, copied>>
     \/ MayFail /\ Abort /\ UNCHANGED server
  /\ UNCHANGED host

\* Slip: a failed build is waited for like one in progress.
AfterPollPatient(s) == IF s = "done" THEN "download" ELSE "asleep"

\* What the script does next on the status that status_handler reports.
AfterPoll(s) == IF s = "done" THEN "download"
                ELSE IF s = "failed" THEN "failed" ELSE "asleep"

\* The answer has no artifact_sha256 when its query fails; then grep finds
\* nothing and the script ends.
Poll ==
  /\ From("poll")
  /\ Counted
  /\ \/ To(AfterPoll(status[job])) /\ UNCHANGED <<job, archive, copied>>
     \/ MayFail /\ Abort
  /\ UNCHANGED <<host, server>>

\* GET /build/{id}/binary: row and file are there, or the call fails.  The
\* rows of this last call do not matter any more.
Download ==
  /\ From("download")
  /\ ~OverLimit
  /\ \/ /\ archive' \in {"intact"} \cup (IF MayFail THEN {"damaged"} ELSE {})
        /\ To("verify")
        /\ UNCHANGED <<job, copied>>
     \/ MayFail /\ Abort
  /\ UNCHANGED <<host, recent, server>>

\* Slip: a mismatch is reported and nothing else.
PassesAlways == TRUE

\* Without sha256sum the archive is taken as it is.
Passes == host.sha256sum => archive = "intact"

Verify ==
  /\ From("verify")
  /\ \/ Passes /\ To("extract") /\ UNCHANGED <<job, archive, copied>>
     \/ ~Passes /\ Abort
  /\ UNCHANGED <<host, recent, server>>

\* tar may or may not notice that an archive is damaged.
Extract ==
  /\ From("extract")
  /\ \/ To("ask") /\ UNCHANGED <<job, archive, copied>>
     \/ (MayFail \/ archive = "damaged") /\ Abort
  /\ UNCHANGED <<host, recent, server>>

\* Where to install; "read" fails when there is nothing to read from.
Ask ==
  /\ From("ask")
  /\ \/ To("copy") /\ UNCHANGED <<job, archive, copied>>
     \/ MayFail /\ Abort
  /\ UNCHANGED <<host, recent, server>>

\* chmod, and cp or sudo cp, of one file after the other.
Copy ==
  /\ From("copy")
  /\ \E f \in Files \ copied :
       \/ copied' = copied \cup {f} /\ UNCHANGED <<step, job, archive>>
       \/ MayFail /\ Abort
  /\ UNCHANGED <<host, recent, server>>

Finish ==
  /\ From("copy")
  /\ copied = Files
  /\ To("installed")
  /\ UNCHANGED <<host, job, archive, copied, recent, server>>

\* The user or the host stops the script.
Interrupt ==
  /\ MayFail
  /\ step \notin Ended
  /\ Abort
  /\ UNCHANGED <<host, recent, server>>

Proceed == \/ Detect \/ FetchProbe \/ RequestBuild \/ Poll \/ Download
           \/ Verify \/ Extract \/ Ask \/ Copy \/ Finish \/ Refused

\* The server works on its jobs, this one and others.
ServerStep == /\ \E j \in Jobs : Server!Leave(j) \/ Server!End(j)
              /\ UNCHANGED <<host, script, recent>>

Next == Proceed \/ Tick \/ Interrupt \/ ServerStep

Spec == Init /\ [][Next]_vars

\* The script runs on, its sleeps end and the user answers.
Fairness == /\ WF_vars(Proceed)
            /\ WF_vars(step = "asleep" /\ Tick)

FairSpec == Spec /\ Fairness

------------------------------------------------------------------------------

(***************************************************************************)
(* Files are copied only from the archive of a job that is done, one whose *)
(* checksum was right where the host can compute it, and a script that     *)
(* ends without an error has copied every file.                            *)
(***************************************************************************)
InstalledIsWhole ==
  /\ copied # {} => /\ job \in published
                    /\ host.sha256sum => archive = "intact"
  /\ step = "installed" => copied = Files

(***************************************************************************)
(* The rate limit never ends an installer that has a token of its own when *)
(* the limit is above the number of polls in the window by two or more:    *)
(* refusals come from a limit that is too low, not from how long the build *)
(* takes.                                                                  *)
(***************************************************************************)
RoomyLimitSuffices == host.limit >= Window + 2 => step # "refused"

(***************************************************************************)
(* Once its job is done or failed, the script does not poll for ever: it   *)
(* ends, whatever happened to the job's row in between.                    *)
(***************************************************************************)
EndsWithTheJob ==
  \A j \in Jobs : job = j /\ status[j] \in Server!Terminal ~> step \in Ended
=============================================================================
