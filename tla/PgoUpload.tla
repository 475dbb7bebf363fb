------------------------------ MODULE PgoUpload ------------------------------
(***************************************************************************)
(* Uploading the profiles of one finished instrumented build: the route    *)
(* POST /pgo/profiles/{id} from the directory to the optimizing job        *)
(* (routes/pgo.rs), the llvm-profdata process it starts (merge_command in  *)
(* pgo.rs), and the download of the merged profile.                        *)
(*                                                                         *)
(* The handler awaits twice, for the next field and for llvm-profdata.     *)
(* There, and only there, a client that hangs up takes its handler away;   *)
(* the process it started goes on.  Uploads of the same build share the    *)
(* directory, the output file and the row of pgo_profiles.                 *)
(*                                                                         *)
(* A body is a list of fields.  Some carry no file name and are passed     *)
(* over; two may carry names with the same last component, and a body that *)
(* breaks off looks like one that ends.  What a file holds is therefore a  *)
(* part: the number of the file in the upload it came with.                *)
(*                                                                         *)
(* Saving a file is one step, and so is writing the output: that another   *)
(* process sees half of one is not modelled, that a save fails half-way is.*)
(*                                                                         *)
(* An operator whose comment begins with "Slip:" is no part of the model:  *)
(* it is a plausible mistake in the operation defined after it.            *)
(***************************************************************************)
EXTENDS Naturals, FiniteSets

CONSTANTS
  Uploads,      \* calls of the route, each with a fresh optimizing job
  Files,        \* last components of names that end in .profraw
  Hidden,       \* those that are nothing else: ".profraw" has no extension
  MaxFiles,     \* files an upload may save: 32
  Torn,         \* what a save that failed half-way leaves in a file
  MaxRestarts,  \* bound of the model: how often the process dies
  MayFail       \* whether a statement, a write or llvm-profdata may fail

ASSUME MaxFilesAssumption == MaxFiles \in Nat
ASSUME HiddenAssumption   == Hidden \subseteq Files
ASSUME TornAssumption     == Torn \notin Uploads \X (1 .. MaxFiles)
ASSUME RestartsAssumption == MaxRestarts \in Nat
ASSUME MayFailAssumption  == MayFail \in BOOLEAN

(***************************************************************************)
(* Files by name, and the part each holds: the directory of raw profiles,  *)
(* and of the merged profile what went into it.                            *)
(***************************************************************************)
Bytes == (Uploads \X (1 .. MaxFiles)) \cup {Torn}
Profiles == UNION {[names -> Bytes] : names \in SUBSET Files}
NoProfile == [names \in {} |-> Torn]

VARIABLES
  up,         \* up[u]: where the handler of u is, or how it ended
  reply,      \* reply[u]: what its client was told
  saved,      \* saved[u][f]: the last part it saved under f, or 0
  fields,     \* fields[u]: files_saved
  job,        \* job[u]: jobs.status of its optimizing job
  dir,        \* the .profraw files of the profiles directory
  merged,     \* merged.profdata
  row,        \* the row of pgo_profiles: none, without and with merged_path
  merge,      \* merge[u]: the llvm-profdata process of u
  args,       \* args[u]: the files on its command line
  input,      \* input[u]: what it read
  sent,       \* history: jobs put into the channel
  disturbed,  \* history: uploads at work while another one was
  unread,     \* history: uploads some of whose fields were not taken
  restarts

handlerVars == <<up, reply, saved, fields>>
fileVars    == <<dir, merged>>
mergeVars   == <<merge, args, input>>
vars == <<handlerVars, job, fileVars, row, mergeVars, sent, disturbed, unread,
          restarts>>

Steps == {"new", "resolve", "saving", "merging", "record", "insert", "enqueue",
          "reject", "replied", "dropped", "lost"}

TypeOK ==
  /\ up \in [Uploads -> Steps]
  /\ reply \in [Uploads -> {"pending", "refused", "error", "full", "accepted"}]
  /\ saved \in [Uploads -> [Files -> 0 .. MaxFiles]]
  /\ fields \in [Uploads -> 0 .. MaxFiles]
  /\ job \in [Uploads -> {"none", "queued", "failed"}]
  /\ dir \in Profiles
  /\ merged \in Profiles
  /\ row \in {"none", "open", "merged"}
  /\ merge \in [Uploads -> {"none", "running", "writing", "done", "failed"}]
  /\ args \in [Uploads -> SUBSET Files]
  /\ input \in [Uploads -> Profiles]
  /\ sent \subseteq Uploads
  /\ disturbed \subseteq Uploads
  /\ unread \subseteq Uploads
  /\ restarts \in 0 .. MaxRestarts

\* The build is done and its owner has its id; nothing was uploaded.
Init ==
  /\ up = [u \in Uploads |-> "new"]
  /\ reply = [u \in Uploads |-> "pending"]
  /\ saved = [u \in Uploads |-> [f \in Files |-> 0]]
  /\ fields = [u \in Uploads |-> 0]
  /\ job = [u \in Uploads |-> "none"]
  /\ dir = NoProfile
  /\ merged = NoProfile
  /\ row = "none"
  /\ merge = [u \in Uploads |-> "none"]
  /\ args = [u \in Uploads |-> {}]
  /\ input = [u \in Uploads |-> NoProfile]
  /\ sent = {}
  /\ disturbed = {}
  /\ unread = {}
  /\ restarts = 0

At(u, from, to) == /\ up[u] = from
                   /\ up' = [up EXCEPT ![u] = to]

Reply(u, from, code) == /\ At(u, from, "replied")
                        /\ reply' = [reply EXCEPT ![u] = code]

\* An upload works from its first field until its job is in the channel, and
\* as long as its llvm-profdata runs.
Working(u) == \/ up[u] \in {"saving", "merging", "record", "insert", "enqueue"}
              \/ merge[u] \in {"running", "writing"}

Watch ==
  disturbed' = disturbed \cup
    {u \in Uploads : Working(u)' /\ \E v \in Uploads \ {u} : Working(v)'}

------------------------------------------------------------------------------
(* upload_profiles_handler *)

\* Token, rate, owner, type and status of the build: none is true only for now.
Admit(u) ==
  /\ \/ At(u, "new", "resolve") /\ UNCHANGED reply
     \/ Reply(u, "new", "refused")
  /\ UNCHANGED <<saved, fields, job, fileVars, row, mergeVars, sent, unread>>

\* The first upload creates directory and row under one scope of the mutex.
Resolve(u) ==
  /\ \/ /\ At(u, "resolve", "saving")
        /\ row' = IF row = "none" THEN "open" ELSE row
        /\ UNCHANGED reply
     \/ MayFail /\ Reply(u, "resolve", "error") /\ UNCHANGED row
  /\ UNCHANGED <<saved, fields, job, fileVars, mergeVars, sent, unread>>

Put(f, bytes) ==
  dir' = [g \in DOMAIN dir \cup {f} |-> IF g = f THEN bytes ELSE dir[g]]

\* Of a name only the last component counts.  A file replaces one of the same
\* name, whoever sent it, and also one of the same upload.
SaveFile(u, f) ==
  /\ up[u] = "saving"
  /\ fields[u] < MaxFiles
  /\ \/ /\ Put(f, <<u, fields[u] + 1>>)
        /\ saved' = [saved EXCEPT ![u][f] = fields[u] + 1]
        /\ fields' = [fields EXCEPT ![u] = @ + 1]
        /\ UNCHANGED <<up, reply>>
     \/ /\ MayFail
        /\ Reply(u, "saving", "error")
        /\ UNCHANGED dir \/ Put(f, Torn)
        /\ UNCHANGED <<saved, fields>>
  /\ UNCHANGED <<job, merged, row, mergeVars, sent, unread>>

\* A field without a file name is passed over, and not counted.
SkipField(u) ==
  /\ up[u] = "saving"
  /\ fields[u] < MaxFiles
  /\ unread' = unread \cup {u}
  /\ UNCHANGED <<handlerVars, job, fileVars, row, mergeVars, sent>>

\* A field over the limit or of another extension; what is saved stays.
RefuseField(u) ==
  /\ Reply(u, "saving", "refused")
  /\ UNCHANGED <<saved, fields, job, fileVars, row, mergeVars, sent, unread>>

\* What merge_command takes: the files with the extension profraw.
Mergeable == DOMAIN dir \ Hidden

\* Slip: a profile that was merged before is taken as it is.
StartMergeOnce(u) ==
  /\ fields[u] > 0
  /\ Mergeable # {}
  /\ At(u, "saving", IF row = "merged" THEN "insert" ELSE "merging")
  /\ merge' = [merge EXCEPT ![u] = IF row = "merged" THEN "none" ELSE "running"]
  /\ args' = [args EXCEPT ![u] = Mergeable]
  /\ UNCHANGED <<reply, saved, fields, job, fileVars, row, input, sent, unread>>

(***************************************************************************)
(* The body is at its end, or broken: either ends the loop.  All files of  *)
(* the directory with the extension go on the command line, also those     *)
(* other uploads left; without any there is no command.                    *)
(***************************************************************************)
StartMerge(u) ==
  /\ fields[u] > 0
  /\ \/ /\ Mergeable # {}
        /\ At(u, "saving", "merging")
        /\ merge' = [merge EXCEPT ![u] = "running"]
        /\ args' = [args EXCEPT ![u] = Mergeable]
        /\ unread' \in {unread, unread \cup {u}}
        /\ UNCHANGED reply
     \/ /\ MayFail \/ Mergeable = {}
        /\ Reply(u, "saving", "error")
        /\ UNCHANGED <<merge, args, unread>>
  /\ UNCHANGED <<saved, fields, job, fileVars, row, input, sent>>

NothingUploaded(u) ==
  /\ fields[u] = 0
  /\ Reply(u, "saving", "refused")
  /\ UNCHANGED <<saved, fields, job, fileVars, row, mergeVars, sent, unread>>

\* Slip: the exit status of llvm-profdata is not looked at.
EndMergeUnchecked(u) ==
  /\ merge[u] \in {"done", "failed"}
  /\ At(u, "merging", "record")
  /\ UNCHANGED <<reply, saved, fields, job, fileVars, row, mergeVars, sent, unread>>

\* Slip: only a success is waited for.
EndMergeOnSuccess(u) ==
  /\ merge[u] = "done"
  /\ At(u, "merging", "record")
  /\ UNCHANGED <<reply, saved, fields, job, fileVars, row, mergeVars, sent, unread>>

EndMerge(u) ==
  /\ \/ merge[u] = "done" /\ At(u, "merging", "record") /\ UNCHANGED reply
     \/ merge[u] = "failed" /\ Reply(u, "merging", "error")
  /\ UNCHANGED <<saved, fields, job, fileVars, row, mergeVars, sent, unread>>

RecordMerged(u) ==
  /\ \/ /\ At(u, "record", "insert")
        /\ row' = IF row = "none" THEN row ELSE "merged"
        /\ UNCHANGED reply
     \/ MayFail /\ Reply(u, "record", "error") /\ UNCHANGED row
  /\ UNCHANGED <<saved, fields, job, fileVars, mergeVars, sent, unread>>

InsertJob(u) ==
  /\ \/ /\ At(u, "insert", "enqueue")
        /\ job' = [job EXCEPT ![u] = "queued"]
        /\ UNCHANGED reply
     \/ MayFail /\ Reply(u, "insert", "error") /\ UNCHANGED job
  /\ UNCHANGED <<saved, fields, fileVars, row, mergeVars, sent, unread>>

\* The channel has room or not; other routes fill it, the dispatcher empties it.
Enqueue(u) ==
  /\ \/ Reply(u, "enqueue", "accepted") /\ sent' = sent \cup {u}
     \/ At(u, "enqueue", "reject") /\ UNCHANGED <<reply, sent>>
  /\ UNCHANGED <<saved, fields, job, fileVars, row, mergeVars, unread>>

RejectFull(u) ==
  /\ Reply(u, "reject", "full")
  /\ \/ job' = [job EXCEPT ![u] = "failed"]
     \/ MayFail /\ UNCHANGED job
  /\ UNCHANGED <<saved, fields, fileVars, row, mergeVars, sent, unread>>

\* The steps that wait for no client.
HandlerStep(u) ==
  /\ \/ Resolve(u) \/ EndMerge(u) \/ RecordMerged(u) \/ InsertJob(u)
     \/ Enqueue(u) \/ RejectFull(u)
  /\ UNCHANGED restarts
  /\ Watch

ClientStep(u) ==
  /\ \/ Admit(u) \/ SkipField(u) \/ RefuseField(u) \/ StartMerge(u)
     \/ NothingUploaded(u)
     \/ \E f \in Files : SaveFile(u, f)
  /\ UNCHANGED restarts
  /\ Watch

------------------------------------------------------------------------------
(* The environment *)

\* llvm-profdata reads its arguments; it gives up on a file that is half there.
ReadProfiles(u) ==
  /\ merge[u] = "running"
  /\ \/ /\ \A f \in args[u] : dir[f] # Torn
        /\ merge' = [merge EXCEPT ![u] = "writing"]
        /\ input' = [input EXCEPT ![u] = [f \in args[u] |-> dir[f]]]
     \/ /\ MayFail \/ \E f \in args[u] : dir[f] = Torn
        /\ merge' = [merge EXCEPT ![u] = "failed"]
        /\ UNCHANGED input
  /\ UNCHANGED <<fileVars, args>>

WriteProfile(u) ==
  /\ merge[u] = "writing"
  /\ merge' = [merge EXCEPT ![u] = "done"]
  /\ merged' = input[u]
  /\ UNCHANGED <<dir, args, input>>

MergeStep(u) ==
  /\ ReadProfiles(u) \/ WriteProfile(u)
  /\ UNCHANGED <<handlerVars, job, row, sent, unread, restarts>>
  /\ Watch

\* Slip: an await between the row of the job and the channel.
DropBeforeEnqueue(u) ==
  /\ up[u] \in {"saving", "merging", "enqueue"}
  /\ up' = [up EXCEPT ![u] = "dropped"]
  /\ UNCHANGED <<reply, saved, fields, job, fileVars, row, mergeVars, sent,
                 restarts, unread>>
  /\ Watch

\* The client hangs up and the server drops the handler where it awaits.
Drop(u) ==
  /\ up[u] \in {"saving", "merging"}
  /\ up' = [up EXCEPT ![u] = "dropped"]
  /\ UNCHANGED <<reply, saved, fields, job, fileVars, row, mergeVars, sent,
                 restarts, unread>>
  /\ Watch

\* The process dies; with its container llvm-profdata does, too.
Restart ==
  /\ restarts < MaxRestarts
  /\ restarts' = restarts + 1
  /\ up' = [u \in Uploads |-> IF up[u] \in {"new", "replied", "dropped"}
                              THEN up[u] ELSE "lost"]
  /\ \/ merge' = [u \in Uploads |-> IF merge[u] \in {"running", "writing"}
                                    THEN "failed" ELSE merge[u]]
     \/ UNCHANGED merge
  /\ UNCHANGED <<reply, saved, fields, job, fileVars, row, args, input, sent,
                 unread>>
  /\ Watch

Next == \/ \E u \in Uploads : \/ HandlerStep(u) \/ ClientStep(u)
                              \/ MergeStep(u) \/ Drop(u)
        \/ Restart

Spec == Init /\ [][Next]_vars

\* The runtime polls a handler that waits for no client, and llvm-profdata ends.
FairSpec == /\ Spec
            /\ \A u \in Uploads : WF_vars(HandlerStep(u)) /\ WF_vars(MergeStep(u))

------------------------------------------------------------------------------

\* What get_merged_profile_handler serves and an optimizing build needs.
ProfileServed == row = "merged" /\ merged # NoProfile

(***************************************************************************)
(* An optimizing job is recorded only when the profile it will ask for is  *)
(* recorded and on disk, whatever other uploads do or leave behind.        *)
(***************************************************************************)
OptimizeFindsProfile == \A u \in Uploads : job[u] # "none" => ProfileServed

(***************************************************************************)
(* The rows of optimizing jobs agree with the channel: what is sent is     *)
(* recorded, and no client that hangs up leaves a queued row behind that   *)
(* was never sent.                                                         *)
(***************************************************************************)
RowsAgreeWithChannel ==
  \A u \in Uploads :
    /\ u \in sent => job[u] = "queued"
    /\ job[u] = "queued" /\ up[u] \in {"replied", "dropped"} =>
         u \in sent \/ (MayFail /\ reply[u] = "full")

\* The names under which u saved something llvm-profdata is given.
Kept(u) == {f \in Files \ Hidden : saved[u][f] > 0}

(***************************************************************************)
(* The client of an upload that no other upload or left-over merge         *)
(* overlapped is told 202 only when, for each name it used that has the    *)
(* extension profraw, the last part it sent under that name is in the      *)
(* merged profile.  Of the other parts nothing is promised: an earlier     *)
(* one of the same name is overwritten, and one whose name has no          *)
(* extension is not given to llvm-profdata.                                *)
(***************************************************************************)
UndisturbedIsMerged ==
  [][\A u \in Uploads \ disturbed :
       reply'[u] = "accepted" /\ reply[u] # "accepted" =>
         \A f \in Kept(u) : f \in DOMAIN merged /\ merged[f] = <<u, saved[u][f]>>]_vars

\* Whoever waits for llvm-profdata is answered, hangs up or sees the end of
\* the process.
MergeIsAnswered ==
  \A u \in Uploads : up[u] = "merging" ~> up[u] \in {"replied", "dropped", "lost"}
=============================================================================
