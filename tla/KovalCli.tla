------------------------------ MODULE KovalCli ------------------------------
(***************************************************************************)
(* The command line client: invocations of koval (cli/src/main.rs) that    *)
(* share one configuration file (config.rs) and send one request each      *)
(* (client.rs) to a server.                                                *)
(*                                                                         *)
(* A save truncates the file, in File::create, and then writes it, in      *)
(* write_all, and nothing locks it: other invocations read and write in    *)
(* between.  A file that does not parse is read as one without settings.   *)
(* Of the content the model keeps the two settings; a text written over a  *)
(* longer one leaves the end of the longer one behind, which no longer     *)
(* parses, so such a write has both outcomes.                              *)
(*                                                                         *)
(* The server is external: it carries out a request or refuses it, at any  *)
(* time after it was sent, and its answer may get lost.                    *)
(*                                                                         *)
(* An operator whose comment begins with "Slip:" is no part of the model:  *)
(* it is a plausible mistake in the operation defined after it.            *)
(***************************************************************************)
EXTENDS Naturals, FiniteSets

CONSTANTS
  Runs,           \* invocations of the program by one user
  Urls,           \* server addresses
  Tokens,         \* bearer tokens
  HeaderTokens,   \* the tokens that are legal header values
  Accepts,        \* the pairs of an address and a token its server accepts
  Ops,            \* the commands that need a server, a subset of RemoteOps
  Unset           \* the value of a setting that is None

ASSUME SettingsAssumption == Unset \notin Urls \cup Tokens
ASSUME HeaderAssumption   == HeaderTokens \subseteq Tokens
ASSUME AcceptsAssumption  == Accepts \subseteq Urls \X Tokens

\* The commands that need a server, by the method of their call.
Getting   == {"token_list", "job_list", "job_status", "webhook_list"}
Posting   == {"token_create", "webhook_create", "pgo_instrument", "pgo_upload"}
Deleting  == {"token_delete", "webhook_delete"}
RemoteOps == Getting \cup Posting \cup Deleting

ASSUME OpsAssumption == Ops \subseteq RemoteOps

Configs == [server: Urls \cup {Unset}, token: Tokens \cup {Unset}]
Default == [server |-> Unset, token |-> Unset]

SetServer(u) == [do |-> "set-server", value |-> u]
SetToken(t)  == [do |-> "set-token",  value |-> t]
Show         == [do |-> "show",       value |-> Unset]
Call(op)     == [do |-> op,           value |-> Unset]

Commands == {SetServer(u) : u \in Urls} \cup {SetToken(t) : t \in Tokens}
            \cup {Show} \cup {Call(op) : op \in Ops}

VARIABLES
  cmd,      \* cmd[p]: the command of p
  step,     \* step[p]: how far p is, or how it ended
  conf,     \* conf[p]: the Config of p
  file,     \* what Config::load finds in ~/.config/koval/config.json
  blank,    \* whether the file is missing or without a byte
  \* the network and the server
  inbox,    \* requests sent and not yet handled
  answer,   \* answer[p]: the response on its way to p
  served,   \* requests the server has carried out
  \* history
  intended, \* the settings, had every set been atomic
  spoiled   \* sets overlapped, or one failed or was killed

memory  == <<cmd, step, conf>>
disk    == <<file, blank>>
network == <<inbox, answer, served>>
history == <<intended, spoiled>>
vars == <<memory, disk, network, history>>

IsSet(p)  == cmd[p].do \in {"set-server", "set-token"}
IsCall(p) == cmd[p].do \in Ops

Ended == {"saved", "unsaved", "shown", "succeeded", "failed", "killed"}
Steps == {"start", "loaded", "created", "client", "ready", "sent"} \cup Ended

\* The sets that have read the file and have not ended.
Setting == {p \in Runs : IsSet(p) /\ step[p] \in {"loaded", "created"}}

TypeOK ==
  /\ cmd \in [Runs -> Commands]
  /\ step \in [Runs -> Steps]
  /\ conf \in [Runs -> Configs]
  /\ file \in Configs
  /\ blank \in BOOLEAN
  /\ inbox \subseteq Runs
  /\ answer \in [Runs -> {"none", "ok", "unreadable", "error"}]
  /\ served \subseteq Runs
  /\ intended \in Configs
  /\ spoiled \in BOOLEAN

Init ==
  /\ cmd \in [Runs -> Commands]
  /\ step = [p \in Runs |-> "start"]
  /\ conf = [p \in Runs |-> Default]
  /\ file \in Configs
  /\ blank = (file = Default)
  /\ inbox = {}
  /\ answer = [p \in Runs |-> "none"]
  /\ served = {}
  /\ intended = file
  /\ spoiled = FALSE

To(p, from, to) == step[p] = from /\ step' = [step EXCEPT ![p] = to]

------------------------------------------------------------------------------
(* The configuration file *)

(***************************************************************************)
(* main reads the file before it looks at the command.  Any failure to     *)
(* open or read it gives the default, as a file that does not parse does.  *)
(***************************************************************************)
Load(p) ==
  /\ To(p, "start", "loaded")
  /\ \/ /\ conf' = [conf EXCEPT ![p] = file]
        /\ spoiled' = (spoiled \/ (IsSet(p) /\ Setting # {}))
     \/ /\ conf' = [conf EXCEPT ![p] = Default]
        /\ spoiled' = (spoiled \/ IsSet(p))
  /\ UNCHANGED <<cmd, disk, network, intended>>

\* config show
PrintConfig(p) ==
  /\ cmd[p] = Show
  /\ To(p, "loaded", "shown")
  /\ UNCHANGED <<cmd, conf, disk, network, history>>

\* The Config that a set command saves, from the one it read.
Updated(c, command) ==
  IF command.do = "set-server" THEN [c EXCEPT !.server = command.value]
                               ELSE [c EXCEPT !.token = command.value]

\* Slip: the old content stays until it is written over.
TruncateNothing == UNCHANGED disk

\* File::create
Truncate == file' = Default /\ blank' = TRUE

\* create_dir_all and File::create; main answers an error with a message
\* and exits with 0 all the same.
Create(p) ==
  /\ IsSet(p)
  /\ \/ /\ To(p, "loaded", "created")
        /\ conf' = [conf EXCEPT ![p] = Updated(@, cmd[p])]
        /\ Truncate
        /\ UNCHANGED spoiled
     \/ /\ To(p, "loaded", "unsaved")
        /\ spoiled' = TRUE
        /\ UNCHANGED <<conf, disk>>
  /\ UNCHANGED <<cmd, network, intended>>

\* A write that stops in the middle leaves nothing or no configuration.
WritePartly == \/ UNCHANGED disk
               \/ file' = Default /\ blank' = FALSE

\* write_all writes from the start of the file, whatever is in it by now.
Write(p) ==
  /\ \/ /\ To(p, "created", "saved")
        /\ file' \in {conf[p]} \cup (IF blank THEN {} ELSE {Default})
        /\ blank' = FALSE
        /\ intended' = Updated(intended, cmd[p])
        /\ UNCHANGED spoiled
     \/ /\ To(p, "created", "unsaved")
        /\ WritePartly
        /\ spoiled' = TRUE
        /\ UNCHANGED intended
  /\ UNCHANGED <<cmd, conf, network>>

------------------------------------------------------------------------------
(* The commands that need a server *)

\* ApiClient::new
Complete(c) == /\ c.server # Unset
               /\ c.token # Unset
               /\ c.token \in HeaderTokens

NewClient(p) ==
  /\ IsCall(p)
  /\ To(p, "loaded", IF Complete(conf[p]) THEN "client" ELSE "failed")
  /\ UNCHANGED <<cmd, conf, disk, network, history>>

\* pgo upload reads the .profraw files of a directory, which may be missing,
\* unreadable or without such a file; the other commands have nothing to read.
Prepare(p) ==
  /\ \/ To(p, "client", "ready")
     \/ cmd[p].do = "pgo_upload" /\ To(p, "client", "failed")
  /\ UNCHANGED <<cmd, conf, disk, network, history>>

\* post, get, delete: the request goes out, or no connection can be made.
Send(p) ==
  /\ \/ /\ To(p, "ready", "sent")
        /\ inbox' = inbox \cup {p}
     \/ /\ To(p, "ready", "failed")
        /\ UNCHANGED inbox
  /\ UNCHANGED <<cmd, conf, disk, answer, served, history>>

Admitted(p) == <<conf[p].server, conf[p].token>> \in Accepts

\* The server carries a request out, fails, or refuses it; its answer may
\* be one that the program cannot read, or get lost.  External.
Serve(p) ==
  /\ p \in inbox
  /\ inbox' = inbox \ {p}
  /\ \/ /\ Admitted(p)
        /\ served' = served \cup {p}
        /\ \E a \in {"none", "ok", "unreadable"} :
             answer' = [answer EXCEPT ![p] = a]
     \/ /\ answer' = [answer EXCEPT ![p] = "error"]
        /\ UNCHANGED served
  /\ UNCHANGED <<memory, disk, history>>

\* Slip: the status of the response is not looked at.
ReadsAnything(p) == answer[p] \in {"ok", "unreadable", "error"}

\* The response has a success status, and a body of the type asked for,
\* which delete does not read.
Succeeds(p) == \/ answer[p] = "ok"
               \/ answer[p] = "unreadable" /\ cmd[p].do \in Deleting

Receive(p) ==
  /\ answer[p] # "none"
  /\ To(p, "sent", IF Succeeds(p) THEN "succeeded" ELSE "failed")
  /\ UNCHANGED <<cmd, conf, disk, network, history>>

\* Slip: the client waits as long as the server takes.
WaitForAnswer(p) ==
  /\ answer[p] # "none"
  /\ To(p, "sent", "failed")
  /\ UNCHANGED <<cmd, conf, disk, network, history>>

\* Ten seconds without a whole response; the request may still be handled.
TimeOut(p) ==
  /\ To(p, "sent", "failed")
  /\ UNCHANGED <<cmd, conf, disk, network, history>>

------------------------------------------------------------------------------

\* The user or the system ends an invocation; a write may be cut short.
Kill(p) ==
  /\ step[p] \notin Ended \cup {"start"}
  /\ step' = [step EXCEPT ![p] = "killed"]
  /\ UNCHANGED disk \/ (step[p] = "created" /\ WritePartly)
  /\ spoiled' = (spoiled \/ IsSet(p))
  /\ UNCHANGED <<cmd, conf, network, intended>>

Proceed(p) == \/ PrintConfig(p) \/ Create(p) \/ Write(p)
              \/ NewClient(p) \/ Prepare(p) \/ Send(p)
              \/ Receive(p) \/ TimeOut(p)

Next == \E p \in Runs : Load(p) \/ Proceed(p) \/ Serve(p) \/ Kill(p)

Spec == Init /\ [][Next]_vars

\* An invocation that has begun runs on; nothing is assumed of the server.
Fairness == \A p \in Runs : WF_vars(Proceed(p))

FairSpec == Spec /\ Fairness

------------------------------------------------------------------------------

(***************************************************************************)
(* While sets neither overlap nor fail, the file between two of them holds *)
(* what they set, each setting as the last set of it left it: truncating   *)
(* and rewriting the file loses neither setting, in whatever order sets    *)
(* and other commands run.                                                 *)
(***************************************************************************)
SettingsAreKept == ~spoiled /\ Setting = {} => file = intended

(***************************************************************************)
(* A command that reports success was carried out by a server that accepts *)
(* the saved token, and reports it although other invocations rewrote the  *)
(* settings meanwhile.                                                     *)
(***************************************************************************)
SuccessIsServed ==
  \A p \in Runs : step[p] = "succeeded" => p \in served /\ Admitted(p)

(***************************************************************************)
(* Every invocation that begins ends, whether or not a server answers.     *)
(***************************************************************************)
EveryCommandEnds ==
  \A p \in Runs : step[p] = "loaded" ~> step[p] \in Ended
=============================================================================
