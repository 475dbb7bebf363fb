--------------------------- MODULE PgoUploadProofs ---------------------------
(***************************************************************************)
(* What holds of the upload route for every set of uploads and files, any  *)
(* limit, faults and restarts.  The argument rests on FileInv, that names  *)
(* never leave the directory, on StepInv, what a handler has done by the   *)
(* time it reaches a step, and for the merged profile on OverlapInv and    *)
(* OwnInv: who is not disturbed meets its own files, under each name the   *)
(* last part it sent.                                                      *)
(***************************************************************************)
EXTENDS PgoUpload, TLAPS

Handling == {"saving", "merging", "record", "insert", "enqueue"}

\* ProfileServed, in terms of the names merged.
Served == row = "merged" /\ DOMAIN merged # {}

\* The directory only grows, and a merge has something to read.
FileInv ==
  \A u \in Uploads :
    /\ args[u] \subseteq Mergeable
    /\ merge[u] \in {"running", "writing", "done"} => args[u] # {}
    /\ merge[u] = "writing" => DOMAIN input[u] = args[u]
    /\ merge[u] = "done" => DOMAIN merged # {}

\* What a handler has done by the time it reaches a step.
StepInv ==
  \A u \in Uploads :
    /\ up[u] \in {"new", "resolve"} => \A f \in Files : saved[u][f] = 0
    /\ up[u] \in {"new", "resolve", "saving"} => merge[u] = "none"
    /\ up[u] \in {"saving", "merging", "record"} => row # "none"
    /\ up[u] \in {"record", "insert", "enqueue"} => merge[u] = "done"
    /\ up[u] \in {"insert", "enqueue", "reject"} => Served
    /\ up[u] \in {"new", "resolve", "saving", "merging", "record", "insert",
                  "dropped"} => job[u] = "none" /\ u \notin sent
    /\ up[u] \in {"enqueue", "reject"} => job[u] = "queued" /\ u \notin sent

\* Two uploads at work disturb one another.
OverlapInv ==
  \A u, v \in Uploads : u # v /\ Working(u) /\ Working(v) => u \in disturbed

\* The files of an undisturbed upload on their way into the profile.
OwnInv ==
  \A u \in Uploads \ disturbed :
    up[u] \in Handling =>
      /\ \A f \in Kept(u) : f \in DOMAIN dir /\ dir[f] = <<u, saved[u][f]>>
      /\ merge[u] = "running" => Kept(u) \subseteq args[u]
      /\ merge[u] = "writing" => \A f \in Kept(u) :
           f \in DOMAIN input[u] /\ input[u][f] = <<u, saved[u][f]>>
      /\ merge[u] = "done" => \A f \in Kept(u) :
           f \in DOMAIN merged /\ merged[f] = <<u, saved[u][f]>>

RowInv == \A u \in Uploads : job[u] # "none" => Served

IInv == /\ TypeOK /\ FileInv /\ StepInv /\ OverlapInv /\ OwnInv
        /\ RowInv /\ RowsAgreeWithChannel

(***************************************************************************)
(* Profiles are the functions from sets of file names to the parts they    *)
(* hold; saving a file, reading some of the directory and the empty        *)
(* profile stay among them.                                                *)
(***************************************************************************)
LEMMA ProfilesType ==
  /\ NoProfile \in Profiles /\ DOMAIN NoProfile = {}
  /\ \A d \in Profiles :
       DOMAIN d \subseteq Files /\ \A f \in DOMAIN d : d[f] \in Bytes
  /\ \A names \in SUBSET Files : [names -> Bytes] \subseteq Profiles
<1>1. \A names \in SUBSET Files : [names -> Bytes] \subseteq Profiles
  BY DEF Profiles
<1>2. NoProfile \in [{} -> Bytes] /\ DOMAIN NoProfile = {}
  BY DEF NoProfile
<1>3. ASSUME NEW d \in Profiles
      PROVE  DOMAIN d \subseteq Files /\ \A f \in DOMAIN d : d[f] \in Bytes
  <2>1. PICK names \in SUBSET Files : d \in [names -> Bytes]
    BY DEF Profiles
  <2> QED
    BY <2>1
<1> QED
  BY <1>1, <1>2, <1>3

(***************************************************************************)
(* Saving a file keeps the directory's type, adds its name and leaves the  *)
(* other files alone.                                                      *)
(***************************************************************************)
LEMMA PutEffect ==
  ASSUME dir \in Profiles, NEW f \in Files, NEW bytes \in Bytes,
         Put(f, bytes)
  PROVE  /\ dir' \in Profiles
         /\ DOMAIN dir' = DOMAIN dir \cup {f}
         /\ dir'[f] = bytes
         /\ \A g \in DOMAIN dir : g # f => dir'[g] = dir[g]
<1>1. DOMAIN dir \cup {f} \in SUBSET Files
  BY ProfilesType
<1>2. dir' \in [DOMAIN dir \cup {f} -> Bytes]
  BY ProfilesType DEF Put
<1>3. dir' \in Profiles
  BY <1>1, <1>2, ProfilesType
<1> QED
  BY <1>2, <1>3 DEF Put

(***************************************************************************)
(* Type correctness: every variable of the upload route keeps its type.    *)
(***************************************************************************)
LEMMA TypeStep == TypeOK /\ FileInv /\ [Next]_vars => TypeOK'
<1> SUFFICES ASSUME TypeOK, FileInv, [Next]_vars PROVE TypeOK'
  OBVIOUS
<1> USE MaxFilesAssumption, RestartsAssumption
    DEF TypeOK, At, Reply, Steps, Watch, handlerVars, fileVars, mergeVars
<1>1. ASSUME NEW w \in Uploads, Admit(w),
             UNCHANGED restarts, Watch
      PROVE  TypeOK'
  BY <1>1 DEF Admit
<1>2. ASSUME NEW w \in Uploads, Resolve(w),
             UNCHANGED restarts, Watch
      PROVE  TypeOK'
  BY <1>2 DEF Resolve
<1>3. ASSUME NEW w \in Uploads, NEW n \in Files, SaveFile(w, n),
             UNCHANGED restarts, Watch
      PROVE  TypeOK'
  <2>1. fields[w] + 1 \in 1 .. MaxFiles
    BY <1>3 DEF SaveFile
  <2>2. <<w, fields[w] + 1>> \in Bytes /\ Torn \in Bytes
    BY <2>1 DEF Bytes
  <2>3. dir' \in Profiles
    BY <1>3, <2>2, PutEffect DEF SaveFile
  <2>4. saved' \in [Uploads -> [Files -> 0 .. MaxFiles]]
    <3>1. fields[w] + 1 \in 0 .. MaxFiles
      BY <2>1
    <3>2. [saved[w] EXCEPT ![n] = fields[w] + 1] \in [Files -> 0 .. MaxFiles]
      BY <3>1
    <3>3. \/ saved' = [saved EXCEPT ![w] = [saved[w] EXCEPT ![n] = fields[w] + 1]]
          \/ saved' = saved
      BY <1>3 DEF SaveFile
    <3> QED
      BY <3>2, <3>3
  <2>5. fields' \in [Uploads -> 0 .. MaxFiles]
    BY <1>3, <2>1 DEF SaveFile
  <2>6. up' \in [Uploads -> Steps] /\ UNCHANGED <<job, merged, row, mergeVars, sent, unread>>
    BY <1>3 DEF SaveFile
  <2>7. reply' \in [Uploads -> {"pending", "refused", "error", "full", "accepted"}]
    BY <1>3 DEF SaveFile
  <2> QED
    BY <1>3, <2>3, <2>4, <2>5, <2>6, <2>7
<1>4. ASSUME NEW w \in Uploads, RefuseField(w),
             UNCHANGED restarts, Watch
      PROVE  TypeOK'
  BY <1>4 DEF RefuseField
<1>5. ASSUME NEW w \in Uploads, StartMerge(w),
             UNCHANGED restarts, Watch
      PROVE  TypeOK'
  <2>1. Mergeable \in SUBSET Files
    BY ProfilesType DEF Mergeable
  <2> QED
    BY <1>5, <2>1 DEF StartMerge
<1>17. ASSUME NEW w \in Uploads, SkipField(w),
              UNCHANGED restarts, Watch
       PROVE  TypeOK'
  BY <1>17 DEF SkipField
<1>6. ASSUME NEW w \in Uploads, NothingUploaded(w),
             UNCHANGED restarts, Watch
      PROVE  TypeOK'
  BY <1>6 DEF NothingUploaded
<1>7. ASSUME NEW w \in Uploads, EndMerge(w),
             UNCHANGED restarts, Watch
      PROVE  TypeOK'
  BY <1>7 DEF EndMerge
<1>8. ASSUME NEW w \in Uploads, RecordMerged(w),
             UNCHANGED restarts, Watch
      PROVE  TypeOK'
  BY <1>8 DEF RecordMerged
<1>9. ASSUME NEW w \in Uploads, InsertJob(w),
             UNCHANGED restarts, Watch
      PROVE  TypeOK'
  BY <1>9 DEF InsertJob
<1>10. ASSUME NEW w \in Uploads, Enqueue(w),
             UNCHANGED restarts, Watch
      PROVE  TypeOK'
  BY <1>10 DEF Enqueue
<1>11. ASSUME NEW w \in Uploads, RejectFull(w),
             UNCHANGED restarts, Watch
      PROVE  TypeOK'
  BY <1>11 DEF RejectFull
<1>12. ASSUME NEW w \in Uploads, ReadProfiles(w),
             UNCHANGED <<handlerVars, job, row, sent, unread, restarts>>, Watch
      PROVE  TypeOK'
  <2>1. [f \in args[w] |-> dir[f]] \in [args[w] -> Bytes]
    BY ProfilesType DEF FileInv, Mergeable
  <2>2. [f \in args[w] |-> dir[f]] \in Profiles
    BY <2>1, ProfilesType
  <2>3. input' \in [Uploads -> Profiles]
    BY <1>12, <2>2 DEF ReadProfiles
  <2> QED
    BY <1>12, <2>3 DEF ReadProfiles
<1>13. ASSUME NEW w \in Uploads, WriteProfile(w),
             UNCHANGED <<handlerVars, job, row, sent, unread, restarts>>, Watch
      PROVE  TypeOK'
  BY <1>13 DEF WriteProfile
<1>14. ASSUME NEW w \in Uploads, Drop(w)
      PROVE  TypeOK'
  BY <1>14 DEF Drop
<1>15. ASSUME Restart
      PROVE  TypeOK'
  BY <1>15 DEF Restart
<1>16. CASE UNCHANGED vars
  BY <1>16 DEF vars
<1> QED
  BY <1>1, <1>2, <1>3, <1>4, <1>5, <1>6, <1>7, <1>8, <1>9,
     <1>10, <1>11, <1>12, <1>13, <1>14, <1>15, <1>16, <1>17
     DEF Next, HandlerStep, ClientStep, MergeStep

(***************************************************************************)
(* Names never leave the directory, and a merge that reads or ends well    *)
(* had a file to read.                                                     *)
(***************************************************************************)
LEMMA FileStep == TypeOK /\ FileInv /\ StepInv /\ [Next]_vars => FileInv'
<1> SUFFICES ASSUME TypeOK, FileInv, StepInv, [Next]_vars PROVE FileInv'
  OBVIOUS
<1> USE MaxFilesAssumption
    DEF TypeOK, FileInv, Mergeable, At, Reply, handlerVars, fileVars, mergeVars
<1>1. ASSUME NEW w \in Uploads, Admit(w),
             UNCHANGED restarts, Watch
      PROVE  FileInv'
  BY <1>1 DEF Admit
<1>2. ASSUME NEW w \in Uploads, Resolve(w),
             UNCHANGED restarts, Watch
      PROVE  FileInv'
  BY <1>2 DEF Resolve
<1>3. ASSUME NEW w \in Uploads, NEW n \in Files, SaveFile(w, n),
             UNCHANGED restarts, Watch
      PROVE  FileInv'
  <2>1. dir \in Profiles
    OBVIOUS
  <2>2. fields[w] + 1 \in 1 .. MaxFiles
    BY <1>3 DEF SaveFile
  <2>3. <<w, fields[w] + 1>> \in Bytes /\ Torn \in Bytes
    BY <2>2 DEF Bytes
  <2>4. DOMAIN dir \subseteq DOMAIN dir'
    <3>1. \/ Put(n, <<w, fields[w] + 1>>) \/ Put(n, Torn) \/ UNCHANGED dir
      BY <1>3 DEF SaveFile
    <3>2. ASSUME NEW bytes \in Bytes, Put(n, bytes)
          PROVE  DOMAIN dir \subseteq DOMAIN dir'
      BY ONLY <1>3, <2>1, <3>2, PutEffect
    <3> QED
      BY <2>3, <3>1, <3>2
  <2>5. Mergeable \subseteq Mergeable'
    BY <2>4 DEF Mergeable
  <2>6. UNCHANGED <<args, merge, input, merged>>
    BY <1>3 DEF SaveFile
  <2> QED
    BY <2>5, <2>6
<1>4. ASSUME NEW w \in Uploads, RefuseField(w),
             UNCHANGED restarts, Watch
      PROVE  FileInv'
  BY <1>4 DEF RefuseField
<1>5. ASSUME NEW w \in Uploads, StartMerge(w),
             UNCHANGED restarts, Watch
      PROVE  FileInv'
  <2>1. UNCHANGED <<dir, merged, input>>
    BY <1>5 DEF StartMerge
  <2>2. CASE Mergeable # {} /\ merge' = [merge EXCEPT ![w] = "running"]
                           /\ args' = [args EXCEPT ![w] = Mergeable]
    BY <2>1, <2>2
  <2>3. CASE UNCHANGED <<merge, args>>
    BY <2>1, <2>3
  <2> QED
    BY <1>5, <2>2, <2>3 DEF StartMerge
<1>17. ASSUME NEW w \in Uploads, SkipField(w),
              UNCHANGED restarts, Watch
       PROVE  FileInv'
  BY <1>17 DEF SkipField
<1>6. ASSUME NEW w \in Uploads, NothingUploaded(w),
             UNCHANGED restarts, Watch
      PROVE  FileInv'
  BY <1>6 DEF NothingUploaded
<1>7. ASSUME NEW w \in Uploads, EndMerge(w),
             UNCHANGED restarts, Watch
      PROVE  FileInv'
  BY <1>7 DEF EndMerge
<1>8. ASSUME NEW w \in Uploads, RecordMerged(w),
             UNCHANGED restarts, Watch
      PROVE  FileInv'
  BY <1>8 DEF RecordMerged
<1>9. ASSUME NEW w \in Uploads, InsertJob(w),
             UNCHANGED restarts, Watch
      PROVE  FileInv'
  BY <1>9 DEF InsertJob
<1>10. ASSUME NEW w \in Uploads, Enqueue(w),
             UNCHANGED restarts, Watch
      PROVE  FileInv'
  BY <1>10 DEF Enqueue
<1>11. ASSUME NEW w \in Uploads, RejectFull(w),
             UNCHANGED restarts, Watch
      PROVE  FileInv'
  BY <1>11 DEF RejectFull
<1>12. ASSUME NEW w \in Uploads, ReadProfiles(w),
             UNCHANGED <<handlerVars, job, row, sent, unread, restarts>>, Watch
      PROVE  FileInv'
  BY <1>12 DEF ReadProfiles
<1>13. ASSUME NEW w \in Uploads, WriteProfile(w),
             UNCHANGED <<handlerVars, job, row, sent, unread, restarts>>, Watch
      PROVE  FileInv'
  BY <1>13 DEF WriteProfile
<1>14. ASSUME NEW w \in Uploads, Drop(w)
      PROVE  FileInv'
  BY <1>14 DEF Drop
<1>15. ASSUME Restart
      PROVE  FileInv'
  BY <1>15 DEF Restart
<1>16. CASE UNCHANGED vars
  BY <1>16 DEF vars
<1> QED
  BY <1>1, <1>2, <1>3, <1>4, <1>5, <1>6, <1>7, <1>8, <1>9,
     <1>10, <1>11, <1>12, <1>13, <1>14, <1>15, <1>16, <1>17
     DEF Next, HandlerStep, ClientStep, MergeStep

(***************************************************************************)
(* A handler that reaches a step has done what leads to it, and others do  *)
(* not undo it: the row keeps its merged_path, and a merge replaces the    *)
(* profile by one that is not empty.                                       *)
(***************************************************************************)
LEMMA StepStep == TypeOK /\ FileInv /\ StepInv /\ [Next]_vars => StepInv'
<1> SUFFICES ASSUME TypeOK, FileInv, StepInv, [Next]_vars PROVE StepInv'
  OBVIOUS
<1> USE DEF TypeOK, StepInv, Served, At, Reply, handlerVars, fileVars, mergeVars
<1>1. ASSUME NEW w \in Uploads, Admit(w),
             UNCHANGED restarts, Watch
      PROVE  StepInv'
  BY <1>1 DEF Admit
<1>2. ASSUME NEW w \in Uploads, Resolve(w),
             UNCHANGED restarts, Watch
      PROVE  StepInv'
  BY <1>2 DEF Resolve
<1>3. ASSUME NEW w \in Uploads, NEW n \in Files, SaveFile(w, n),
             UNCHANGED restarts, Watch
      PROVE  StepInv'
  BY <1>3 DEF SaveFile
<1>4. ASSUME NEW w \in Uploads, RefuseField(w),
             UNCHANGED restarts, Watch
      PROVE  StepInv'
  BY <1>4 DEF RefuseField
<1>5. ASSUME NEW w \in Uploads, StartMerge(w),
             UNCHANGED restarts, Watch
      PROVE  StepInv'
  BY <1>5 DEF StartMerge
<1>17. ASSUME NEW w \in Uploads, SkipField(w),
              UNCHANGED restarts, Watch
       PROVE  StepInv'
  BY <1>17 DEF SkipField
<1>6. ASSUME NEW w \in Uploads, NothingUploaded(w),
             UNCHANGED restarts, Watch
      PROVE  StepInv'
  BY <1>6 DEF NothingUploaded
<1>7. ASSUME NEW w \in Uploads, EndMerge(w),
             UNCHANGED restarts, Watch
      PROVE  StepInv'
  BY <1>7 DEF EndMerge
<1>8. ASSUME NEW w \in Uploads, RecordMerged(w),
             UNCHANGED restarts, Watch
      PROVE  StepInv'
  BY <1>8 DEF RecordMerged, FileInv
<1>9. ASSUME NEW w \in Uploads, InsertJob(w),
             UNCHANGED restarts, Watch
      PROVE  StepInv'
  BY <1>9 DEF InsertJob
<1>10. ASSUME NEW w \in Uploads, Enqueue(w),
             UNCHANGED restarts, Watch
      PROVE  StepInv'
  BY <1>10 DEF Enqueue
<1>11. ASSUME NEW w \in Uploads, RejectFull(w),
             UNCHANGED restarts, Watch
      PROVE  StepInv'
  BY <1>11 DEF RejectFull
<1>12. ASSUME NEW w \in Uploads, ReadProfiles(w),
             UNCHANGED <<handlerVars, job, row, sent, unread, restarts>>, Watch
      PROVE  StepInv'
  BY <1>12 DEF ReadProfiles
<1>13. ASSUME NEW w \in Uploads, WriteProfile(w),
             UNCHANGED <<handlerVars, job, row, sent, unread, restarts>>, Watch
      PROVE  StepInv'
  BY <1>13 DEF WriteProfile, FileInv
<1>14. ASSUME NEW w \in Uploads, Drop(w)
      PROVE  StepInv'
  BY <1>14 DEF Drop
<1>15. ASSUME Restart
      PROVE  StepInv'
  BY <1>15 DEF Restart
<1>16. CASE UNCHANGED vars
  BY <1>16 DEF vars
<1> QED
  BY <1>1, <1>2, <1>3, <1>4, <1>5, <1>6, <1>7, <1>8, <1>9,
     <1>10, <1>11, <1>12, <1>13, <1>14, <1>15, <1>16, <1>17
     DEF Next, HandlerStep, ClientStep, MergeStep

(***************************************************************************)
(* Watch notes every pair of uploads at work.                              *)
(***************************************************************************)
LEMMA OverlapStep == OverlapInv /\ [Next]_vars => OverlapInv'
<1> SUFFICES ASSUME OverlapInv, [Next]_vars PROVE OverlapInv'
  OBVIOUS
<1>1. CASE Next
  <2>1. Watch
    BY <1>1 DEF Next, HandlerStep, ClientStep, MergeStep, Drop, Restart
  <2> QED
    BY <2>1 DEF Watch, OverlapInv
<1>2. CASE UNCHANGED vars
  BY <1>2 DEF vars, handlerVars, mergeVars, OverlapInv, Working
<1> QED
  BY <1>1, <1>2

(***************************************************************************)
(* Only another upload at work replaces a file or the profile, so what an  *)
(* undisturbed one saved last under a name is what its merge reads and     *)
(* leaves.                                                                 *)
(***************************************************************************)
LEMMA OwnStep ==
  TypeOK /\ FileInv /\ StepInv /\ OverlapInv /\ OwnInv /\ [Next]_vars => OwnInv'
<1> SUFFICES ASSUME TypeOK, FileInv, StepInv, OverlapInv, OwnInv, [Next]_vars
             PROVE  OwnInv'
  OBVIOUS
<1> USE DEF TypeOK, OwnInv, Handling, At, Reply, handlerVars, fileVars, mergeVars
<1>1. ASSUME NEW w \in Uploads, Admit(w),
             UNCHANGED restarts, Watch
      PROVE  OwnInv'
  BY <1>1 DEF Admit, Watch, Kept
<1>2. ASSUME NEW w \in Uploads, Resolve(w),
             UNCHANGED restarts, Watch
      PROVE  OwnInv'
  BY <1>2 DEF Resolve, Watch, StepInv, Kept
<1>3. ASSUME NEW w \in Uploads, NEW n \in Files, SaveFile(w, n),
             UNCHANGED restarts, Watch
      PROVE  OwnInv'
  <2> SUFFICES ASSUME NEW u \in Uploads \ disturbed, up'[u] \in Handling
               PROVE  /\ \A f \in Kept(u)' : f \in DOMAIN dir' /\ dir'[f] = <<u, saved'[u][f]>>
                      /\ merge[u] = "running" => Kept(u)' \subseteq args[u]
                      /\ merge[u] = "writing" => \A f \in Kept(u)' :
                           f \in DOMAIN input[u] /\ input[u][f] = <<u, saved'[u][f]>>
                      /\ merge[u] = "done" => \A f \in Kept(u)' :
                           f \in DOMAIN merged /\ merged[f] = <<u, saved'[u][f]>>
    BY <1>3 DEF SaveFile, Watch
  <2>1. CASE u = w
    <3>1. /\ Put(n, <<w, fields[w] + 1>>) /\ up[w] = "saving"
          /\ saved' = [saved EXCEPT ![w][n] = fields[w] + 1] /\ fields[w] < MaxFiles
      BY <1>3, <2>1 DEF SaveFile
    <3>2. dir \in Profiles /\ <<w, fields[w] + 1>> \in Bytes
      BY <3>1, MaxFilesAssumption DEF Bytes
    <3>3. /\ n \in DOMAIN dir' /\ dir'[n] = <<w, fields[w] + 1>>
          /\ \A g \in DOMAIN dir : g \in DOMAIN dir' /\ (g # n => dir'[g] = dir[g])
      BY ONLY <1>3, <3>1, <3>2, PutEffect
    <3>4. \A f \in Kept(w) : f \in DOMAIN dir /\ dir[f] = <<w, saved[w][f]>>
      BY <2>1, <3>1
    <3>5. /\ saved'[w][n] = fields[w] + 1
          /\ \A f \in Files \ {n} : saved'[w][f] = saved[w][f]
      BY <3>1
    <3>6. \A f \in Kept(w)' : f = n \/ (f # n /\ f \in Kept(w))
      BY <3>5 DEF Kept
    <3>7. \A f \in Kept(w)' : f \in Files /\ f \in DOMAIN dir' /\ dir'[f] = <<w, saved'[w][f]>>
      BY <3>3, <3>4, <3>5, <3>6 DEF Kept
    <3>8. merge[w] = "none"
      BY <3>1 DEF StepInv
    <3> QED
      BY <2>1, <3>7, <3>8
  <2>2. CASE u # w
    <3>1. saved'[u] = saved[u] /\ Kept(u)' = Kept(u) /\ up'[u] = up[u]
      BY <1>3, <2>2 DEF SaveFile, Kept
    <3> QED
      BY <1>3, <2>2, <3>1 DEF SaveFile, OverlapInv, Working
  <2> QED
    BY <2>1, <2>2
<1>4. ASSUME NEW w \in Uploads, RefuseField(w),
             UNCHANGED restarts, Watch
      PROVE  OwnInv'
  BY <1>4 DEF RefuseField, Watch, Kept
<1>5. ASSUME NEW w \in Uploads, StartMerge(w),
             UNCHANGED restarts, Watch
      PROVE  OwnInv'
  <2> SUFFICES ASSUME NEW u \in Uploads \ disturbed, up[u] \in Handling,
                      u = w, merge'[u] = "running"
               PROVE  Kept(u) \subseteq args'[u]
    BY <1>5 DEF StartMerge, Watch, Kept
  <2>1. Kept(u) \subseteq Mergeable
    BY DEF Kept, Mergeable
  <2>2. up[w] = "saving" /\ merge[w] = "none"
    BY <1>5 DEF StartMerge, StepInv
  <2> QED
    BY <1>5, <2>1, <2>2 DEF StartMerge
<1>17. ASSUME NEW w \in Uploads, SkipField(w),
              UNCHANGED restarts, Watch
       PROVE  OwnInv'
  BY <1>17 DEF SkipField, Watch, Kept
<1>6. ASSUME NEW w \in Uploads, NothingUploaded(w),
             UNCHANGED restarts, Watch
      PROVE  OwnInv'
  BY <1>6 DEF NothingUploaded, Watch, Kept
<1>7. ASSUME NEW w \in Uploads, EndMerge(w),
             UNCHANGED restarts, Watch
      PROVE  OwnInv'
  BY <1>7 DEF EndMerge, Watch, Kept
<1>8. ASSUME NEW w \in Uploads, RecordMerged(w),
             UNCHANGED restarts, Watch
      PROVE  OwnInv'
  BY <1>8 DEF RecordMerged, Watch, Kept
<1>9. ASSUME NEW w \in Uploads, InsertJob(w),
             UNCHANGED restarts, Watch
      PROVE  OwnInv'
  BY <1>9 DEF InsertJob, Watch, Kept
<1>10. ASSUME NEW w \in Uploads, Enqueue(w),
             UNCHANGED restarts, Watch
      PROVE  OwnInv'
  BY <1>10 DEF Enqueue, Watch, Kept
<1>11. ASSUME NEW w \in Uploads, RejectFull(w),
             UNCHANGED restarts, Watch
      PROVE  OwnInv'
  BY <1>11 DEF RejectFull, Watch, Kept
<1>12. ASSUME NEW w \in Uploads, ReadProfiles(w),
             UNCHANGED <<handlerVars, job, row, sent, unread, restarts>>, Watch
      PROVE  OwnInv'
  <2> SUFFICES ASSUME NEW u \in Uploads \ disturbed, up[u] \in Handling,
                      u = w, merge[w] = "running", merge'[w] = "writing"
               PROVE  \A f \in Kept(w) :
                        f \in DOMAIN input'[w] /\ input'[w][f] = <<w, saved[w][f]>>
    BY <1>12 DEF ReadProfiles, Watch, Kept
  <2>1. input'[w] = [f \in args[w] |-> dir[f]]
    BY <1>12 DEF ReadProfiles
  <2>2. Kept(w) \subseteq args[w] /\ \A f \in Kept(w) : dir[f] = <<w, saved[w][f]>>
    OBVIOUS
  <2> QED
    BY <2>1, <2>2
<1>13. ASSUME NEW w \in Uploads, WriteProfile(w),
             UNCHANGED <<handlerVars, job, row, sent, unread, restarts>>, Watch
      PROVE  OwnInv'
  <2> SUFFICES ASSUME NEW u \in Uploads \ disturbed, up[u] \in Handling,
                      merge'[u] = "done"
               PROVE  \A f \in Kept(u) : f \in DOMAIN merged' /\ merged'[f] = <<u, saved[u][f]>>
    BY <1>13 DEF WriteProfile, Watch, Kept
  <2>1. CASE u = w
    BY <1>13, <2>1 DEF WriteProfile
  <2>2. CASE u # w
    BY <1>13, <2>2 DEF WriteProfile, OverlapInv, Working
  <2> QED
    BY <2>1, <2>2
<1>14. ASSUME NEW w \in Uploads, Drop(w)
      PROVE  OwnInv'
  BY <1>14 DEF Drop, Watch, Kept
<1>15. ASSUME Restart
      PROVE  OwnInv'
  BY <1>15 DEF Restart, Watch, Kept
<1>16. CASE UNCHANGED vars
  BY <1>16 DEF vars, Kept
<1> QED
  BY <1>1, <1>2, <1>3, <1>4, <1>5, <1>6, <1>7, <1>8, <1>9,
     <1>10, <1>11, <1>12, <1>13, <1>14, <1>15, <1>16, <1>17
     DEF Next, HandlerStep, ClientStep, MergeStep

(***************************************************************************)
(* Rows of optimizing jobs are inserted behind the merged profile, and     *)
(* sent or rejected before the handler can be dropped.                     *)
(***************************************************************************)
LEMMA RowStep ==
  TypeOK /\ FileInv /\ StepInv /\ RowInv /\ RowsAgreeWithChannel /\ [Next]_vars
    => RowInv' /\ RowsAgreeWithChannel'
<1> SUFFICES ASSUME TypeOK, FileInv, StepInv, RowInv, RowsAgreeWithChannel,
                    [Next]_vars
             PROVE  RowInv' /\ RowsAgreeWithChannel'
  OBVIOUS
<1> USE DEF TypeOK, StepInv, Served, RowInv, RowsAgreeWithChannel, At, Reply,
            handlerVars, fileVars, mergeVars
<1>1. ASSUME NEW w \in Uploads, Admit(w),
             UNCHANGED restarts, Watch
      PROVE  RowInv' /\ RowsAgreeWithChannel'
  BY <1>1 DEF Admit
<1>2. ASSUME NEW w \in Uploads, Resolve(w),
             UNCHANGED restarts, Watch
      PROVE  RowInv' /\ RowsAgreeWithChannel'
  BY <1>2 DEF Resolve
<1>3. ASSUME NEW w \in Uploads, NEW n \in Files, SaveFile(w, n),
             UNCHANGED restarts, Watch
      PROVE  RowInv' /\ RowsAgreeWithChannel'
  BY <1>3 DEF SaveFile
<1>4. ASSUME NEW w \in Uploads, RefuseField(w),
             UNCHANGED restarts, Watch
      PROVE  RowInv' /\ RowsAgreeWithChannel'
  BY <1>4 DEF RefuseField
<1>5. ASSUME NEW w \in Uploads, StartMerge(w),
             UNCHANGED restarts, Watch
      PROVE  RowInv' /\ RowsAgreeWithChannel'
  BY <1>5 DEF StartMerge
<1>17. ASSUME NEW w \in Uploads, SkipField(w),
              UNCHANGED restarts, Watch
       PROVE  RowInv' /\ RowsAgreeWithChannel'
  BY <1>17 DEF SkipField
<1>6. ASSUME NEW w \in Uploads, NothingUploaded(w),
             UNCHANGED restarts, Watch
      PROVE  RowInv' /\ RowsAgreeWithChannel'
  BY <1>6 DEF NothingUploaded
<1>7. ASSUME NEW w \in Uploads, EndMerge(w),
             UNCHANGED restarts, Watch
      PROVE  RowInv' /\ RowsAgreeWithChannel'
  BY <1>7 DEF EndMerge
<1>8. ASSUME NEW w \in Uploads, RecordMerged(w),
             UNCHANGED restarts, Watch
      PROVE  RowInv' /\ RowsAgreeWithChannel'
  BY <1>8 DEF RecordMerged
<1>9. ASSUME NEW w \in Uploads, InsertJob(w),
             UNCHANGED restarts, Watch
      PROVE  RowInv' /\ RowsAgreeWithChannel'
  BY <1>9 DEF InsertJob
<1>10. ASSUME NEW w \in Uploads, Enqueue(w),
             UNCHANGED restarts, Watch
      PROVE  RowInv' /\ RowsAgreeWithChannel'
  BY <1>10 DEF Enqueue
<1>11. ASSUME NEW w \in Uploads, RejectFull(w),
             UNCHANGED restarts, Watch
      PROVE  RowInv' /\ RowsAgreeWithChannel'
  BY <1>11 DEF RejectFull
<1>12. ASSUME NEW w \in Uploads, ReadProfiles(w),
             UNCHANGED <<handlerVars, job, row, sent, unread, restarts>>, Watch
      PROVE  RowInv' /\ RowsAgreeWithChannel'
  BY <1>12 DEF ReadProfiles
<1>13. ASSUME NEW w \in Uploads, WriteProfile(w),
             UNCHANGED <<handlerVars, job, row, sent, unread, restarts>>, Watch
      PROVE  RowInv' /\ RowsAgreeWithChannel'
  BY <1>13 DEF WriteProfile, FileInv
<1>14. ASSUME NEW w \in Uploads, Drop(w)
      PROVE  RowInv' /\ RowsAgreeWithChannel'
  BY <1>14 DEF Drop
<1>15. ASSUME Restart
      PROVE  RowInv' /\ RowsAgreeWithChannel'
  BY <1>15 DEF Restart
<1>16. CASE UNCHANGED vars
  BY <1>16 DEF vars
<1> QED
  BY <1>1, <1>2, <1>3, <1>4, <1>5, <1>6, <1>7, <1>8, <1>9,
     <1>10, <1>11, <1>12, <1>13, <1>14, <1>15, <1>16, <1>17
     DEF Next, HandlerStep, ClientStep, MergeStep

------------------------------------------------------------------------------

(***************************************************************************)
(* The inductive invariant of the upload route.                            *)
(***************************************************************************)
THEOREM UploadInvariant == Spec => []IInv
<1>1. Init => IInv
  BY ProfilesType, MaxFilesAssumption, RestartsAssumption
     DEF Init, IInv, TypeOK, Steps, FileInv, StepInv, Served, OverlapInv,
         Working, OwnInv, Kept, Handling, RowInv, RowsAgreeWithChannel
<1>2. IInv /\ [Next]_vars => IInv'
  BY TypeStep, FileStep, StepStep, OverlapStep, OwnStep, RowStep DEF IInv
<1> QED
  BY <1>1, <1>2, PTL DEF Spec

(***************************************************************************)
(* Every variable of the upload route keeps its type.                      *)
(***************************************************************************)
THEOREM UploadTypeCorrect == Spec => []TypeOK
<1>1. IInv => TypeOK
  BY DEF IInv
<1> QED
  BY <1>1, UploadInvariant, PTL

(***************************************************************************)
(* The profile an optimizing job asks for is recorded and on disk as soon  *)
(* as the job is recorded: as long as nobody removes the file, process_job *)
(* takes none of its three exits for a missing profile.                    *)
(***************************************************************************)
THEOREM ProfileIsThere == Spec => []OptimizeFindsProfile
<1>1. IInv => OptimizeFindsProfile
  BY ProfilesType DEF IInv, RowInv, Served, OptimizeFindsProfile, ProfileServed
<1> QED
  BY <1>1, UploadInvariant, PTL

(***************************************************************************)
(* Optimizing jobs are recorded before they are sent, and none stays       *)
(* behind queued and unsent when its client hangs up.                      *)
(***************************************************************************)
THEOREM RowsAgree == Spec => []RowsAgreeWithChannel
<1>1. IInv => RowsAgreeWithChannel
  BY DEF IInv
<1> QED
  BY <1>1, UploadInvariant, PTL

(***************************************************************************)
(* An upload without overlap is answered 202 only when the last part it    *)
(* sent under each name with the extension is in the merged profile.       *)
(* That earlier parts of that name, names without the extension and        *)
(* fields that are not taken are lost is what it does not say.             *)
(***************************************************************************)
THEOREM UndisturbedUploadIsMerged == Spec => UndisturbedIsMerged
<1> DEFINE Accepted(u) == reply'[u] = "accepted" /\ reply[u] # "accepted"
<1>1. ASSUME IInv, [Next]_vars, NEW u \in Uploads \ disturbed, Accepted(u)
      PROVE  \A f \in Kept(u) : f \in DOMAIN merged /\ merged[f] = <<u, saved[u][f]>>
  <2>1. Enqueue(u)
    <3> USE <1>1 DEF IInv, TypeOK, At, Reply, handlerVars, mergeVars, fileVars
    <3>1. CASE UNCHANGED vars
      BY <3>1 DEF vars
    <3>2. CASE Restart
      BY <3>2 DEF Restart
    <3>3. ASSUME NEW w \in Uploads, MergeStep(w) \/ Drop(w) \/ ClientStep(w)
          PROVE  FALSE
      BY <3>3 DEF MergeStep, Drop, ClientStep, Admit, SkipField, RefuseField,
                  StartMerge, NothingUploaded, SaveFile
    <3>4. ASSUME NEW w \in Uploads, HandlerStep(w)
          PROVE  Enqueue(u)
      BY <3>4 DEF HandlerStep, Resolve, EndMerge, RecordMerged, InsertJob,
                  Enqueue, RejectFull
    <3> QED
      BY <3>1, <3>2, <3>3, <3>4 DEF Next
  <2>2. up[u] = "enqueue"
    BY <1>1, <2>1 DEF Enqueue, Reply, At
  <2> QED
    BY <1>1, <2>2 DEF IInv, StepInv, OwnInv, Handling
<1>2. IInv /\ [Next]_vars =>
        [\A u \in Uploads \ disturbed : Accepted(u) =>
           \A f \in Kept(u) : f \in DOMAIN merged /\ merged[f] = <<u, saved[u][f]>>]_vars
  BY <1>1
<1> QED
  BY <1>2, UploadInvariant, PTL DEF Spec, UndisturbedIsMerged

------------------------------------------------------------------------------
(* Refinement *)

(***************************************************************************)
(* The rows of optimizing jobs live as JobLifecycle says of every job: the *)
(* upload route takes them from recorded to refused, and publishes none.   *)
(***************************************************************************)
Lifecycle == INSTANCE JobLifecycle
               WITH Requests <- Uploads, status <- job, published <- {}

LEMMA LifecycleStep == IInv /\ [Next]_vars => [Lifecycle!Next]_(Lifecycle!vars)
<1> SUFFICES ASSUME IInv, [Next]_vars
             PROVE  Lifecycle!Next \/ job' = job
  BY DEF Lifecycle!vars
<1> USE DEF Lifecycle!Move, Lifecycle!Submit, Lifecycle!Reject, Lifecycle!Leave,
            Lifecycle!Next
<1>1. ASSUME NEW u \in Uploads, InsertJob(u) PROVE Lifecycle!Next \/ job' = job
  <2>1. CASE At(u, "insert", "enqueue") /\ job' = [job EXCEPT ![u] = "queued"]
    <3>1. job[u] = "none"
      BY <2>1 DEF At, IInv, StepInv
    <3> QED BY <2>1, <3>1
  <2> QED BY <1>1, <2>1 DEF InsertJob
<1>2. ASSUME NEW u \in Uploads, RejectFull(u) PROVE Lifecycle!Next \/ job' = job
  <2>1. job[u] = "queued"
    BY <1>2 DEF RejectFull, Reply, At, IInv, StepInv
  <2> QED BY <1>2, <2>1 DEF RejectFull
<1>3. ASSUME NEW u \in Uploads,
             Resolve(u) \/ EndMerge(u) \/ RecordMerged(u) \/ Enqueue(u)
      PROVE  job' = job
  BY <1>3 DEF Resolve, EndMerge, RecordMerged, Enqueue
<1>4. ASSUME NEW u \in Uploads, ClientStep(u) PROVE job' = job
  BY <1>4 DEF ClientStep, Admit, SkipField, RefuseField, StartMerge,
              NothingUploaded, SaveFile
<1>5. ASSUME NEW u \in Uploads, MergeStep(u) \/ Drop(u) PROVE job' = job
  BY <1>5 DEF MergeStep, Drop
<1>6. ASSUME Restart \/ UNCHANGED vars PROVE job' = job
  BY <1>6 DEF Restart, vars
<1> QED BY <1>1, <1>2, <1>3, <1>4, <1>5, <1>6 DEF Next, HandlerStep

(***************************************************************************)
(* The second way into the channel keeps the same promise as POST /build:  *)
(* the route implements JobLifecycle for the jobs it records, whoever      *)
(* hangs up and whatever fails.                                            *)
(***************************************************************************)
THEOREM UploadImplementsLifecycle == Spec => Lifecycle!Spec
<1>1. Init => Lifecycle!Init
  BY DEF Init, Lifecycle!Init
<1> QED BY <1>1, LifecycleStep, UploadInvariant, PTL DEF Spec, Lifecycle!Spec
=============================================================================
