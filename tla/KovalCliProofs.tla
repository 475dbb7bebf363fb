--------------------------- MODULE KovalCliProofs ---------------------------
(***************************************************************************)
(* Proofs about KovalCli, for any invocations, addresses, tokens and       *)
(* servers.                                                                *)
(***************************************************************************)
EXTENDS KovalCli, TLAPS

\* While nothing is spoiled one set at most is at work; it started from the
\* intended settings, and the file is either untouched or truncated.
SetterInv ==
  ~spoiled =>
    \A p \in Runs :
      IsSet(p) /\ step[p] \in {"loaded", "created"} =>
        /\ \A q \in Runs : IsSet(q) /\ step[q] \in {"loaded", "created"} => q = p
        /\ step[p] = "loaded" => conf[p] = intended /\ file = intended
        /\ step[p] = "created" => /\ conf[p] = Updated(intended, cmd[p])
                                  /\ blank

\* Only a set truncates the file, and only a call has a request to send.
StepInv == \A p \in Runs : /\ step[p] = "created" => IsSet(p)
                           /\ step[p] \in {"client", "ready", "sent"} => IsCall(p)

\* What the server did or will do was sent, under settings that stay.
RequestInv ==
  \A p \in Runs :
    /\ p \in inbox \cup served => step[p] \notin {"start", "loaded"}
    /\ p \in served => Admitted(p)
    /\ answer[p] \in {"ok", "unreadable"} => p \in served

IInv == /\ TypeOK /\ StepInv
        /\ SetterInv /\ SettingsAreKept
        /\ RequestInv /\ SuccessIsServed

LEMMA UpdatedIsConfig ==
  ASSUME NEW c \in Configs, NEW k \in Commands, k.do \in {"set-server", "set-token"}
  PROVE  Updated(c, k) \in Configs
<1>1. CASE k \in {SetServer(u) : u \in Urls}
  <2>1. PICK u \in Urls : k = SetServer(u)
    BY <1>1
  <2>2. k.do = "set-server" /\ k.value = u
    BY <2>1 DEF SetServer
  <2> QED BY <2>2 DEF Updated, Configs
<1>2. CASE k \in {SetToken(t) : t \in Tokens}
  <2>1. PICK t \in Tokens : k = SetToken(t)
    BY <1>2
  <2>2. k.do = "set-token" /\ k.value = t
    BY <2>1 DEF SetToken
  <2> QED BY <2>2 DEF Updated, Configs
<1>3. CASE k = Show
  BY <1>3 DEF Show
<1>4. CASE k \in {Call(op) : op \in Ops}
  <2>1. PICK op \in Ops : k = Call(op)
    BY <1>4
  <2>2. k.do = op /\ op \in RemoteOps
    BY <2>1, OpsAssumption DEF Call
  <2> QED BY <2>2 DEF RemoteOps, Getting, Posting, Deleting
<1> QED BY <1>1, <1>2, <1>3, <1>4 DEF Commands

LEMMA InitIInv == Init => IInv
<1> SUFFICES ASSUME Init PROVE IInv
  OBVIOUS
<1>1. TypeOK
  BY DEF Init, TypeOK, Configs, Default, Steps, Ended
<1>2. StepInv /\ SetterInv /\ SettingsAreKept
  BY DEF Init, StepInv, SetterInv, SettingsAreKept
<1>3. RequestInv /\ SuccessIsServed
  BY DEF Init, RequestInv, SuccessIsServed
<1> QED BY <1>1, <1>2, <1>3 DEF IInv

LEMMA TypeStep == TypeOK /\ StepInv /\ [Next]_vars => TypeOK'
<1> SUFFICES ASSUME TypeOK, StepInv, [Next]_vars PROVE TypeOK'
  OBVIOUS
<1> USE DEF TypeOK, To, memory, disk, network, history, Steps, Ended
<1>0. Default \in Configs
  BY DEF Default, Configs
<1>1. CASE UNCHANGED vars
  BY <1>1 DEF vars
<1>2. ASSUME NEW p \in Runs, Load(p) PROVE TypeOK'
  <2>1. conf' \in [Runs -> Configs] /\ step' \in [Runs -> Steps]
    BY <1>0, <1>2 DEF Load
  <2>2. spoiled' \in BOOLEAN
    BY <1>2 DEF Load
  <2> QED BY <1>2, <2>1, <2>2 DEF Load
<1>3. ASSUME NEW p \in Runs, PrintConfig(p) PROVE TypeOK'
  BY <1>3 DEF PrintConfig
<1>4. ASSUME NEW p \in Runs, Create(p) PROVE TypeOK'
  <2>1. Updated(conf[p], cmd[p]) \in Configs
    BY <1>4, UpdatedIsConfig DEF Create, IsSet
  <2>2. conf' \in [Runs -> Configs] /\ step' \in [Runs -> Steps]
    BY <1>4, <2>1 DEF Create
  <2>3. file' \in Configs /\ blank' \in BOOLEAN /\ spoiled' \in BOOLEAN
    BY <1>0, <1>4 DEF Create, Truncate
  <2> QED BY <1>4, <2>2, <2>3 DEF Create
<1>5. ASSUME NEW p \in Runs, Write(p) PROVE TypeOK'
  <2>1. Updated(intended, cmd[p]) \in Configs
    BY <1>5, UpdatedIsConfig DEF Write, StepInv, IsSet
  <2>2. file' \in {conf[p], Default, file} /\ blank' \in BOOLEAN
    BY <1>5 DEF Write, WritePartly
  <2>3. file' \in Configs
    BY <1>0, <2>2
  <2>4. step' \in [Runs -> Steps] /\ intended' \in Configs /\ spoiled' \in BOOLEAN
    BY <1>5, <2>1 DEF Write
  <2> QED BY <1>5, <2>2, <2>3, <2>4 DEF Write
<1>6. ASSUME NEW p \in Runs, NewClient(p) PROVE TypeOK'
  BY <1>6 DEF NewClient
<1>7. ASSUME NEW p \in Runs, Prepare(p) PROVE TypeOK'
  BY <1>7 DEF Prepare
<1>8. ASSUME NEW p \in Runs, Send(p) PROVE TypeOK'
  BY <1>8 DEF Send
<1>9. ASSUME NEW p \in Runs, Receive(p) PROVE TypeOK'
  BY <1>9 DEF Receive
<1>10. ASSUME NEW p \in Runs, TimeOut(p) PROVE TypeOK'
  BY <1>10 DEF TimeOut
<1>11. ASSUME NEW p \in Runs, Serve(p) PROVE TypeOK'
  BY <1>11 DEF Serve
<1>12. ASSUME NEW p \in Runs, Kill(p) PROVE TypeOK'
  BY <1>0, <1>12 DEF Kill, WritePartly
<1> QED BY <1>1, <1>2, <1>3, <1>4, <1>5, <1>6, <1>7, <1>8, <1>9, <1>10, <1>11,
           <1>12 DEF Next, Proceed

LEMMA StepStep == TypeOK /\ StepInv /\ [Next]_vars => StepInv'
<1> SUFFICES ASSUME TypeOK, StepInv, [Next]_vars PROVE StepInv'
  OBVIOUS
<1> USE DEF TypeOK, StepInv, IsSet, IsCall, To, memory, disk, network, history
<1>1. CASE UNCHANGED vars
  BY <1>1 DEF vars
<1>2. ASSUME NEW p \in Runs, Load(p) PROVE StepInv'
  BY <1>2 DEF Load
<1>3. ASSUME NEW p \in Runs, PrintConfig(p) PROVE StepInv'
  BY <1>3 DEF PrintConfig
<1>4. ASSUME NEW p \in Runs, Create(p) PROVE StepInv'
  BY <1>4 DEF Create
<1>5. ASSUME NEW p \in Runs, Write(p) PROVE StepInv'
  BY <1>5 DEF Write
<1>6. ASSUME NEW p \in Runs, NewClient(p) PROVE StepInv'
  BY <1>6 DEF NewClient
<1>7. ASSUME NEW p \in Runs, Prepare(p) PROVE StepInv'
  BY <1>7 DEF Prepare
<1>8. ASSUME NEW p \in Runs, Send(p) PROVE StepInv'
  BY <1>8 DEF Send
<1>9. ASSUME NEW p \in Runs, Receive(p) PROVE StepInv'
  BY <1>9 DEF Receive
<1>10. ASSUME NEW p \in Runs, TimeOut(p) PROVE StepInv'
  BY <1>10 DEF TimeOut
<1>11. ASSUME NEW p \in Runs, Serve(p) PROVE StepInv'
  BY <1>11 DEF Serve
<1>12. ASSUME NEW p \in Runs, Kill(p) PROVE StepInv'
  BY <1>12 DEF Kill
<1> QED BY <1>1, <1>2, <1>3, <1>4, <1>5, <1>6, <1>7, <1>8, <1>9, <1>10, <1>11,
           <1>12 DEF Next, Proceed

LEMMA SettingsStep ==
  ASSUME TypeOK, StepInv, SetterInv, SettingsAreKept, [Next]_vars
  PROVE  SetterInv' /\ SettingsAreKept'
<1> USE DEF TypeOK, SetterInv, SettingsAreKept, Setting, IsSet, To,
            memory, disk, network, history
<1>1. CASE UNCHANGED vars
  BY <1>1 DEF vars
<1>2. ASSUME NEW p \in Runs, Load(p)
      PROVE  SetterInv' /\ SettingsAreKept'
  <2>1. CASE ~IsSet(p)
    BY <1>2, <2>1 DEF Load
  <2>2. CASE IsSet(p) /\ spoiled'
    BY <1>2, <2>2 DEF Load
  <2>3. CASE IsSet(p) /\ ~spoiled'
    <3>1. Setting = {} /\ ~spoiled /\ conf' = [conf EXCEPT ![p] = file]
      BY <1>2, <2>3 DEF Load
    <3>2. file = intended
      BY <3>1
    <3>3. \A q \in Runs : IsSet(q) /\ step'[q] \in {"loaded", "created"} => q = p
      BY <1>2, <3>1 DEF Load
    <3> QED BY <1>2, <2>3, <3>1, <3>2, <3>3 DEF Load
  <2> QED BY <2>1, <2>2, <2>3
<1>3. ASSUME NEW p \in Runs, PrintConfig(p)
      PROVE  SetterInv' /\ SettingsAreKept'
  <2>1. ~IsSet(p)
    BY <1>3 DEF PrintConfig, Show
  <2> QED BY <1>3, <2>1 DEF PrintConfig
<1>4. ASSUME NEW p \in Runs, Create(p)
      PROVE  SetterInv' /\ SettingsAreKept'
  BY <1>4 DEF Create, Truncate
<1>5. ASSUME NEW p \in Runs, Write(p)
      PROVE  SetterInv' /\ SettingsAreKept'
  <2>1. CASE spoiled'
    BY <1>5, <2>1 DEF Write
  <2>2. CASE ~spoiled'
    <3>1. blank /\ conf[p] = Updated(intended, cmd[p])
      BY <1>5, <2>2 DEF Write, StepInv
    <3>2. file' = intended'
      BY <1>5, <2>2, <3>1 DEF Write
    <3>3. \A q \in Runs : IsSet(q) => step'[q] \notin {"loaded", "created"}
      BY <1>5, <2>2 DEF Write, StepInv
    <3> QED BY <1>5, <3>2, <3>3 DEF Write
  <2> QED BY <2>1, <2>2
<1>6. ASSUME NEW p \in Runs, NewClient(p)
      PROVE  SetterInv' /\ SettingsAreKept'
  <2>1. ~IsSet(p)
    BY <1>6, OpsAssumption DEF NewClient, StepInv, IsCall, RemoteOps, Getting, Posting, Deleting
  <2> QED BY <1>6, <2>1 DEF NewClient
<1>7. ASSUME NEW p \in Runs, Prepare(p)
      PROVE  SetterInv' /\ SettingsAreKept'
  <2>1. ~IsSet(p)
    BY <1>7, OpsAssumption DEF Prepare, StepInv, IsCall, RemoteOps, Getting, Posting, Deleting
  <2> QED BY <1>7, <2>1 DEF Prepare
<1>8. ASSUME NEW p \in Runs, Send(p)
      PROVE  SetterInv' /\ SettingsAreKept'
  <2>1. ~IsSet(p)
    BY <1>8, OpsAssumption DEF Send, StepInv, IsCall, RemoteOps, Getting, Posting, Deleting
  <2> QED BY <1>8, <2>1 DEF Send
<1>9. ASSUME NEW p \in Runs, Receive(p)
      PROVE  SetterInv' /\ SettingsAreKept'
  <2>1. ~IsSet(p)
    BY <1>9, OpsAssumption DEF Receive, StepInv, IsCall, RemoteOps, Getting, Posting, Deleting
  <2> QED BY <1>9, <2>1 DEF Receive
<1>10. ASSUME NEW p \in Runs, TimeOut(p)
      PROVE  SetterInv' /\ SettingsAreKept'
  <2>1. ~IsSet(p)
    BY <1>10, OpsAssumption DEF TimeOut, StepInv, IsCall, RemoteOps, Getting, Posting, Deleting
  <2> QED BY <1>10, <2>1 DEF TimeOut
<1>11. ASSUME NEW p \in Runs, Serve(p)
       PROVE  SetterInv' /\ SettingsAreKept'
  BY <1>11 DEF Serve
<1>12. ASSUME NEW p \in Runs, Kill(p)
       PROVE  SetterInv' /\ SettingsAreKept'
  <2>1. CASE IsSet(p)
    BY <1>12, <2>1 DEF Kill
  <2>2. CASE ~IsSet(p)
    BY <1>12, <2>2 DEF Kill, StepInv
  <2> QED BY <2>1, <2>2
<1> QED BY <1>1, <1>2, <1>3, <1>4, <1>5, <1>6, <1>7, <1>8, <1>9, <1>10, <1>11,
           <1>12 DEF Next, Proceed

LEMMA RequestStep ==
  ASSUME TypeOK, StepInv, RequestInv, SuccessIsServed, [Next]_vars
  PROVE  RequestInv' /\ SuccessIsServed'
<1> USE DEF TypeOK, StepInv, RequestInv, SuccessIsServed, Admitted, To,
            memory, disk, network, history
<1>1. CASE UNCHANGED vars
  BY <1>1 DEF vars
<1>2. ASSUME NEW p \in Runs, Load(p) PROVE RequestInv' /\ SuccessIsServed'
  BY <1>2 DEF Load
<1>3. ASSUME NEW p \in Runs, PrintConfig(p) PROVE RequestInv' /\ SuccessIsServed'
  BY <1>3 DEF PrintConfig
<1>4. ASSUME NEW p \in Runs, Create(p) PROVE RequestInv' /\ SuccessIsServed'
  BY <1>4 DEF Create
<1>5. ASSUME NEW p \in Runs, Write(p) PROVE RequestInv' /\ SuccessIsServed'
  BY <1>5 DEF Write
<1>6. ASSUME NEW p \in Runs, NewClient(p) PROVE RequestInv' /\ SuccessIsServed'
  BY <1>6 DEF NewClient
<1>7. ASSUME NEW p \in Runs, Prepare(p) PROVE RequestInv' /\ SuccessIsServed'
  BY <1>7 DEF Prepare
<1>8. ASSUME NEW p \in Runs, Send(p) PROVE RequestInv' /\ SuccessIsServed'
  BY <1>8 DEF Send
<1>9. ASSUME NEW p \in Runs, Receive(p) PROVE RequestInv' /\ SuccessIsServed'
  BY <1>9 DEF Receive, Succeeds
<1>10. ASSUME NEW p \in Runs, TimeOut(p) PROVE RequestInv' /\ SuccessIsServed'
  BY <1>10 DEF TimeOut
<1>11. ASSUME NEW p \in Runs, Serve(p) PROVE RequestInv' /\ SuccessIsServed'
  BY <1>11 DEF Serve
<1>12. ASSUME NEW p \in Runs, Kill(p) PROVE RequestInv' /\ SuccessIsServed'
  BY <1>12 DEF Kill, Ended
<1> QED BY <1>1, <1>2, <1>3, <1>4, <1>5, <1>6, <1>7, <1>8, <1>9, <1>10, <1>11,
           <1>12 DEF Next, Proceed

(***************************************************************************)
(* The inductive invariant of the client holds in every reachable state.   *)
(***************************************************************************)
THEOREM CliInvariant == Spec => []IInv
<1>1. Init => IInv
  BY InitIInv
<1>2. IInv /\ [Next]_vars => IInv'
  BY TypeStep, StepStep, SettingsStep, RequestStep DEF IInv
<1> QED BY <1>1, <1>2, PTL DEF Spec

(***************************************************************************)
(* Every variable has its type, whatever the commands and the servers.     *)
(***************************************************************************)
THEOREM CliTypeCorrect == Spec => []TypeOK
<1>1. IInv => TypeOK
  BY DEF IInv
<1> QED BY <1>1, CliInvariant, PTL

(***************************************************************************)
(* Sets that neither overlap nor fail lose no setting, any number of them, *)
(* among any number of other commands.                                     *)
(***************************************************************************)
THEOREM UndisturbedSetsAreKept == Spec => []SettingsAreKept
<1>1. IInv => SettingsAreKept
  BY DEF IInv
<1> QED BY <1>1, CliInvariant, PTL

(***************************************************************************)
(* What is reported as a success was carried out by a server that accepts  *)
(* the settings the command read.                                          *)
(***************************************************************************)
THEOREM ReportedSuccessIsServed == Spec => []SuccessIsServed
<1>1. IInv => SuccessIsServed
  BY DEF IInv
<1> QED BY <1>1, CliInvariant, PTL
=============================================================================
