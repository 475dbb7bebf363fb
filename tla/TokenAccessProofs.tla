-------------------------- MODULE TokenAccessProofs --------------------------
(***************************************************************************)
(* Proofs about TokenAccess, for any number of calls and tokens, any limit *)
(* and any window.                                                         *)
(*                                                                         *)
(* The bound on the newest window is not inductive: that the count of one  *)
(* call sees every earlier call of that window rests on KeptInv, that no   *)
(* pruning went further than the horizon, and on RowInv, that only         *)
(* admitted calls are counted.                                             *)
(***************************************************************************)
EXTENDS TokenAccess, FiniteSetTheorems, TLAPS

\* What rate_limit holds, and what an admission left behind.
RowInv ==
  /\ \A i \in TokenIds : \A c \in counted[i] : row[c] = i
  /\ \A c \in Calls : row[c] # NoToken => step[c] \notin {"new", "clocked"}

\* Nothing of the window that ends at the horizon was pruned.
KeptInv ==
  \A c \in Calls :
    row[c] # NoToken /\ now[c] >= horizon - Window => c \in counted[row[c]]

\* The secret of a row is its own or the administrator's.
HeldInv == \A i \in 1 .. Len(held) : held[i] \in {AdminSecret, i}

IInv == /\ TypeOK /\ RowInv /\ KeptInv /\ HeldInv
        /\ NewestWindowBounded /\ RefusalIsJustified /\ OneActiveRowPerSecret

\* The calls of one token admitted at a time or later.
Admitted(i, t) == {c \in Calls : row[c] = i /\ now[c] >= t}

(***************************************************************************)
(* Sets of calls are finite, and a smaller set has no more elements.       *)
(***************************************************************************)
LEMMA CallSets ==
  ASSUME NEW S \in SUBSET Calls, NEW T \in SUBSET S
  PROVE  /\ Cardinality(S) \in Nat /\ Cardinality(T) \in Nat
         /\ Cardinality(T) <= Cardinality(S)
<1>1. IsFiniteSet(S)
  BY FS_Subset, CallsAssumption
<1>2. IsFiniteSet(T) /\ Cardinality(T) <= Cardinality(S)
  BY <1>1, FS_Subset
<1> QED
  BY <1>1, <1>2, FS_CardinalityType

(***************************************************************************)
(* What a step of Authenticate does, whichever way it answers: the rows    *)
(* are pruned, unless that fails, and at most the call itself is added,    *)
(* only below the limit.                                                   *)
(***************************************************************************)
LEMMA AuthenticateEffect ==
  ASSUME TypeOK, NEW c \in Calls, Authenticate(c)
  PROVE  /\ step[c] = "clocked"
         /\ UNCHANGED <<ask, now, held, active, clock>>
         /\ horizon' = IF now[c] > horizon THEN now[c] ELSE horizon
         /\ late' = IF now[c] < horizon THEN late \cup {c} ELSE late
         /\ \E s \in Steps \ {"new", "clocked"} :
              step' = [step EXCEPT ![c] = s]
         /\ \E i \in TokenIds :
              /\ i \in active /\ held[i] = ask[c].secret
              /\ \/ /\ ~AtLimit(i, now[c] - Window)
                    /\ counted' = [Prune(now[c] - Window) EXCEPT
                                     ![i] = @ \cup {c}]
                    /\ row' = [row EXCEPT ![c] = i]
                    /\ step'[c] # "limited"
                 \/ /\ counted' = Prune(now[c] - Window)
                    /\ row' = row
                    /\ step'[c] = "limited" => AtLimit(i, now[c] - Window)
                 \/ UNCHANGED <<counted, row>> /\ step'[c] # "limited"
<1> PICK i \in Matching(ask[c].secret) :
           Admit(c, i) \/ Refuse(c, i) \/ FailToCount(c)
  BY DEF Authenticate
<1>1. i \in TokenIds /\ i \in active /\ held[i] = ask[c].secret
  <2>1. Len(held) \in Nat
    BY DEF TypeOK
  <2> QED
    BY <2>1, BoundsAssumption DEF Matching, TypeOK, TokenIds
<1>2. step[c] = "clocked" /\ step \in [Calls -> Steps]
  BY DEF Authenticate, TypeOK
<1>3. CASE Admit(c, i)
  <2>1. AfterAdmission(c) \in {"served", "acting", "forbidden"}
    BY DEF AfterAdmission
  <2> QED
    BY <1>1, <1>2, <1>3, <2>1 DEF Admit, Authenticate, Pruned, To, Steps
<1>4. CASE Refuse(c, i)
  BY <1>1, <1>2, <1>4 DEF Refuse, Authenticate, Pruned, To, Steps
<1>5. CASE FailToCount(c)
  BY <1>1, <1>2, <1>5 DEF FailToCount, Authenticate, Pruned, To, Steps
<1> QED
  BY <1>3, <1>4, <1>5

------------------------------------------------------------------------------
(* The conjuncts of IInv, step by step *)

(***************************************************************************)
(* Every step keeps the types.                                             *)
(***************************************************************************)
LEMMA TypeStep == TypeOK /\ [Next]_vars => TypeOK'
<1> SUFFICES ASSUME TypeOK, [Next]_vars PROVE TypeOK'
  OBVIOUS
<1> USE DEF TypeOK
<1>1. ASSUME NEW c \in Calls, ReadClock(c) PROVE TypeOK'
  BY <1>1, BoundsAssumption DEF ReadClock, To, Steps, tables
<1>2. ASSUME NEW c \in Calls, Unauthorized(c) PROVE TypeOK'
  BY <1>2 DEF Unauthorized, To, Steps, tables
<1>3. ASSUME NEW c \in Calls, Authenticate(c) PROVE TypeOK'
  <2>1. Prune(now[c] - Window) \in [TokenIds -> SUBSET Calls]
    BY DEF Prune, RowsSince
  <2>2. counted' \in [TokenIds -> SUBSET Calls]
    <3>1. PICK i \in TokenIds :
                 \/ counted' = [Prune(now[c] - Window) EXCEPT
                                  ![i] = @ \cup {c}]
                 \/ counted' = Prune(now[c] - Window)
                 \/ counted' = counted
      BY <1>3, AuthenticateEffect
    <3> QED
      BY <2>1, <3>1
  <2>3. row' \in [Calls -> TokenIds \cup {NoToken}]
    <3>1. PICK i \in TokenIds : row' = [row EXCEPT ![c] = i] \/ row' = row
      BY <1>3, AuthenticateEffect
    <3> QED
      BY <3>1
  <2>4. step' \in [Calls -> Steps]
    BY <1>3, AuthenticateEffect
  <2>5. horizon' \in 0 .. MaxTime
    BY <1>3, AuthenticateEffect
  <2>6. late' \subseteq Calls
    BY <1>3, AuthenticateEffect
  <2>7. UNCHANGED <<ask, now, held, active, clock>>
    BY <1>3, AuthenticateEffect
  <2> QED
    BY <2>2, <2>3, <2>4, <2>5, <2>6, <2>7
<1>4. ASSUME NEW c \in Calls, CreateToken(c) PROVE TypeOK'
  <2>1. Len(held) \in Nat /\ Len(held) + 1 \in Secrets
    BY <1>4, BoundsAssumption DEF CreateToken, Secrets, TokenIds
  <2>2. held' \in Seq(Secrets) /\ Len(held') = Len(held) + 1
    BY <1>4, <2>1 DEF CreateToken
  <2>3. active' \subseteq 1 .. Len(held')
    <3>1. active \subseteq 1 .. Len(held)
      OBVIOUS
    <3>2. active' = active \cup {Len(held) + 1}
      BY <1>4 DEF CreateToken
    <3>3. ASSUME NEW i \in active' PROVE i \in 1 .. Len(held')
      BY <2>1, <2>2, <3>1, <3>2, <3>3
    <3> QED
      BY <3>3
  <2>4. Len(held') <= MaxTokens
    BY <1>4, <2>1, <2>2, BoundsAssumption DEF CreateToken
  <2>5. step' \in [Calls -> Steps]
    BY <1>4 DEF CreateToken, To, Steps
  <2> QED
    BY <1>4, <2>2, <2>3, <2>4, <2>5 DEF CreateToken
<1>5. ASSUME NEW c \in Calls, RevokeToken(c) PROVE TypeOK'
  BY <1>5 DEF RevokeToken, To, Steps
<1>6. ASSUME Restart PROVE TypeOK'
  <2>1. step' \in [Calls -> Steps]
    BY <1>6 DEF Restart, Steps
  <2>2. CASE UNCHANGED <<held, active>>
    BY <1>6, <2>1, <2>2 DEF Restart
  <2>3. CASE /\ Len(held) < MaxTokens
             /\ held' = Append(held, AdminSecret)
             /\ active' = {Len(held) + 1}
    <3>1. Len(held) \in Nat /\ AdminSecret \in Secrets
      BY DEF Secrets
    <3>2. held' \in Seq(Secrets) /\ Len(held') = Len(held) + 1
      BY <2>3, <3>1
    <3> QED
      BY <1>6, <2>1, <2>3, <3>1, <3>2, BoundsAssumption DEF Restart
  <2> QED
    BY <1>6, <2>2, <2>3 DEF Restart, Bootstrap
<1>7. CASE UNCHANGED vars
  BY <1>7 DEF vars, tables
<1> QED
  BY <1>1, <1>2, <1>3, <1>4, <1>5, <1>6, <1>7 DEF Next

(***************************************************************************)
(* A step that only moves handlers, without admitting or pruning, keeps    *)
(* what is known of the counts: it may read a clock for a call not yet     *)
(* admitted, and answers no call "limited".                                *)
(***************************************************************************)
LEMMA CountsUntouched ==
  ASSUME IInv, TypeOK',
         UNCHANGED <<ask, row, counted, horizon>>,
         \A c \in Calls : row[c] # NoToken => now'[c] = now[c],
         \A c \in Calls : step'[c] = "limited" =>
                             step[c] = "limited" /\ now'[c] = now[c],
         \A c \in Calls : step'[c] \in {"new", "clocked"} =>
                             step[c] \in {"new", "clocked"},
         \A i \in 1 .. Len(held) : i \in 1 .. Len(held') /\ held'[i] = held[i]
  PROVE  RowInv' /\ KeptInv' /\ NewestWindowBounded' /\ RefusalIsJustified'
<1>1. RowInv'
  BY DEF IInv, RowInv, TypeOK
<1>2. KeptInv'
  BY DEF IInv, KeptInv, TypeOK
<1>3. ASSUME NEW i \in TokenIds, NEW t
      PROVE  {c \in Calls : row'[c] = i /\ now'[c] >= t}
               = {c \in Calls : row[c] = i /\ now[c] >= t}
  <2>1. i # NoToken
    BY DEF TokenIds, NoToken
  <2> QED
    BY <2>1
<1>4. NewestWindowBounded'
  BY <1>3 DEF IInv, NewestWindowBounded
<1>5. RefusalIsJustified'
  <2> SUFFICES ASSUME NEW c \in Calls, step'[c] = "limited"
               PROVE  \E i \in TokenIds :
                        /\ i \in 1 .. Len(held') /\ held'[i] = ask'[c].secret
                        /\ Cardinality({d \in Calls : /\ row'[d] = i
                              /\ now'[d] >= now'[c] - Window}) >= Limit
    BY DEF RefusalIsJustified
  <2>1. step[c] = "limited" /\ now'[c] = now[c]
    OBVIOUS
  <2>2. PICK i \in TokenIds :
               /\ i \in 1 .. Len(held) /\ held[i] = ask[c].secret
               /\ Cardinality({d \in Calls : /\ row[d] = i
                     /\ now[d] >= now[c] - Window}) >= Limit
    BY <2>1 DEF IInv, RefusalIsJustified
  <2>3. i \in 1 .. Len(held') /\ held'[i] = ask'[c].secret
    BY <2>2
  <2>4. Cardinality({d \in Calls : /\ row'[d] = i
                      /\ now'[d] >= now'[c] - Window}) >= Limit
    <3>1. {d \in Calls : row'[d] = i /\ now'[d] >= now[c] - Window}
            = {d \in Calls : row[d] = i /\ now[d] >= now[c] - Window}
      BY <1>3
    <3> QED
      BY ONLY <2>1, <2>2, <3>1
  <2> QED
    BY <2>3, <2>4
<1> QED
  BY <1>1, <1>2, <1>4, <1>5

(***************************************************************************)
(* An admission or a refusal keeps the bound of the newest window.  Let n  *)
(* be the time of the call.  What the window of the new horizon held is    *)
(* counted: it is not older than the old horizon allows, nor than n        *)
(* allows, so the call sees all of it when it asks whether it is at the    *)
(* limit.                                                                  *)
(***************************************************************************)
LEMMA AuthenticateKeepsCounts ==
  ASSUME IInv, NEW c \in Calls, Authenticate(c)
  PROVE  RowInv' /\ KeptInv' /\ NewestWindowBounded' /\ RefusalIsJustified'
<1> DEFINE since == now[c] - Window
<1>1. TypeOK
  BY DEF IInv
<1>2. PICK i \in TokenIds :
        /\ i \in active /\ held[i] = ask[c].secret
        /\ \/ /\ ~AtLimit(i, since)
              /\ counted' = [Prune(since) EXCEPT ![i] = @ \cup {c}]
              /\ row' = [row EXCEPT ![c] = i]
              /\ step'[c] # "limited"
           \/ /\ counted' = Prune(since)
              /\ row' = row
              /\ step'[c] = "limited" => AtLimit(i, since)
           \/ UNCHANGED <<counted, row>> /\ step'[c] # "limited"
  BY <1>1, AuthenticateEffect
<1>3. /\ step[c] = "clocked"
      /\ UNCHANGED <<ask, now, held>>
      /\ horizon' = IF now[c] > horizon THEN now[c] ELSE horizon
      /\ \E s \in Steps \ {"new", "clocked"} : step' = [step EXCEPT ![c] = s]
  BY <1>1, AuthenticateEffect
<1>4. /\ now \in [Calls -> Int] /\ horizon \in Int /\ Window \in Int
      /\ since \in Int /\ horizon' \in Int /\ Limit \in Int
      /\ step \in [Calls -> Steps] /\ row \in [Calls -> TokenIds \cup {NoToken}]
      /\ counted \in [TokenIds -> SUBSET Calls]
      /\ NoToken \notin TokenIds
  BY <1>1, <1>3, WindowAssumption, LimitAssumption
  DEF TypeOK, TokenIds, NoToken
<1>5. row[c] = NoToken
  BY <1>3 DEF IInv, RowInv
<1>6. \A d \in Calls : d # c => row'[d] = row[d]
  BY <1>2, <1>4
<1>7. ASSUME NEW k \in TokenIds
      PROVE  /\ RowsSince(k, since) \subseteq counted'[k]
             /\ \/ counted'[k] \subseteq counted[k]
                \/ /\ k = i /\ row'[c] = i
                   /\ counted'[k] \subseteq counted[k] \cup {c}
             /\ row' # row => c \in counted'[i]
  <2> RowsSince(k, since) \subseteq counted[k]
    BY DEF RowsSince
  <2>1. CASE counted' = Prune(since) /\ row' = row
    BY <2>1 DEF Prune
  <2>2. CASE UNCHANGED <<counted, row>>
    BY <2>2
  <2>3. CASE /\ counted' = [Prune(since) EXCEPT ![i] = @ \cup {c}]
             /\ row' = [row EXCEPT ![c] = i]
    <3>1. row'[c] = i
      BY <1>4, <2>3
    <3> QED
      BY <2>3, <3>1 DEF Prune
  <2> QED
    BY <1>2, <2>1, <2>2, <2>3
<1>8. \A k \in TokenIds : RowsSince(k, since) =
         {d \in Calls : d \in counted[k] /\ row[d] = k /\ now[d] >= since}
  BY <1>4 DEF IInv, RowInv, RowsSince
<1>9. RowInv'
  <2>1. ASSUME NEW k \in TokenIds, NEW d \in counted'[k] PROVE row'[d] = k
    <3>1. d \in counted[k] \/ (d = c /\ k = i /\ row'[c] = i)
      BY <1>7, <2>1
    <3>2. CASE d \in counted[k]
      BY <1>4, <1>5, <1>6, <3>2 DEF IInv, RowInv
    <3> QED
      BY <3>1, <3>2
  <2>2. ASSUME NEW d \in Calls, row'[d] # NoToken
        PROVE  step'[d] \notin {"new", "clocked"}
    BY <1>3, <1>4, <1>6, <2>2 DEF IInv, RowInv
  <2> QED
    BY <2>1, <2>2 DEF RowInv
<1>10. since <= horizon' - Window /\ horizon - Window <= horizon' - Window
  BY <1>3, <1>4
<1>10a. ASSUME NEW d \in Calls, now[d] >= horizon' - Window
        PROVE  now[d] >= horizon - Window
  <2>1. /\ now[d] \in Int /\ horizon - Window \in Int
        /\ horizon' - Window \in Int
    BY <1>4
  <2> QED
    BY <1>10, <1>10a, <2>1
<1>11. ASSUME NEW d \in Calls, d # c, row[d] # NoToken,
              now[d] >= horizon' - Window
       PROVE  d \in RowsSince(row[d], since)
  <2>1. d \in counted[row[d]]
    <3>1. now[d] >= horizon - Window
      BY <1>11, <1>10a
    <3>2. KeptInv
      BY DEF IInv
    <3> QED
      BY <1>4, <1>11, <3>1, <3>2 DEF KeptInv
  <2>2. now[d] >= since
    BY <1>4, <1>10, <1>11
  <2> QED
    BY <2>1, <2>2 DEF RowsSince
<1>12. KeptInv'
  <2> SUFFICES ASSUME NEW d \in Calls, row'[d] # NoToken,
                      now[d] >= horizon' - Window
               PROVE  d \in counted'[row'[d]]
    BY <1>3, <1>4 DEF KeptInv
  <2>1. CASE d # c
    <3>1. row'[d] = row[d] /\ row[d] \in TokenIds
      BY <1>4, <1>6, <2>1
    <3>2. d \in RowsSince(row[d], since)
      BY <1>4, <1>11, <2>1, <3>1
    <3> QED
      BY <1>7, <3>1, <3>2
  <2>2. CASE d = c
    <3>1. row' # row /\ row'[c] = i
      BY <1>2, <1>4, <1>5, <2>2
    <3> QED
      BY <1>7, <2>2, <3>1
  <2> QED
    BY <2>1, <2>2
<1>13. NewestWindowBounded'
  <2> SUFFICES ASSUME NEW k \in TokenIds
               PROVE  Cardinality({d \in Calls : /\ row'[d] = k
                            /\ now[d] >= horizon' - Window}) <= Limit
    BY <1>3 DEF NewestWindowBounded
  <2> DEFINE Old == {d \in Calls : row[d] = k /\ now[d] >= horizon' - Window}
             New == {d \in Calls : row'[d] = k /\ now[d] >= horizon' - Window}
  <2>1. CASE ~(k = i /\ row' = [row EXCEPT ![c] = i])
    <3>1. New \subseteq {d \in Calls : row[d] = k /\ now[d] >= horizon - Window}
      <4>1. ASSUME NEW d \in New PROVE row[d] = k
        <5>1. row'[d] = k
          BY <4>1
        <5>2. CASE row' = row
          BY <5>1, <5>2
        <5>3. CASE row' = [row EXCEPT ![c] = i]
          <6>1. k # i /\ row'[c] = i
            BY <1>4, <2>1, <5>3
          <6>2. d \in Calls /\ d # c
            BY <5>1, <6>1
          <6> QED
            BY <1>6, <5>1, <6>2
        <5> QED
          BY <1>2, <5>2, <5>3
      <4>2. ASSUME NEW d \in New PROVE now[d] >= horizon - Window
        BY <1>10a
      <4> QED
        BY <4>1, <4>2
    <3>2. Cardinality({d \in Calls : row[d] = k /\ now[d] >= horizon - Window})
            <= Limit
      BY DEF IInv, NewestWindowBounded
    <3> QED
      BY <1>4, <3>1, <3>2, CallSets
  <2>2. CASE /\ k = i /\ row' = [row EXCEPT ![c] = i] /\ row' # row
             /\ ~AtLimit(i, since)
    <3>1. Old \subseteq RowsSince(i, since)
      BY <1>4, <1>5, <1>11, <2>2
    <3>2. RowsSince(i, since) \in SUBSET Calls
      BY <1>4 DEF RowsSince
    <3>3. /\ Cardinality(Old) <= Cardinality(RowsSince(i, since))
          /\ Cardinality(RowsSince(i, since)) \in Nat
          /\ Cardinality(Old) \in Nat
      BY <3>1, <3>2, CallSets
    <3>4. Cardinality(RowsSince(i, since)) < Limit
      BY <1>4, <2>2, <3>3 DEF AtLimit
    <3>5. New \subseteq Old \cup {c}
      BY <1>6
    <3>6. /\ IsFiniteSet(Old)
          /\ Cardinality(Old \cup {c}) <= Cardinality(Old) + 1
      <4>1. IsFiniteSet(Old)
        BY CallsAssumption, FS_Subset
      <4>2. Cardinality(Old \cup {c}) \in {Cardinality(Old), Cardinality(Old) + 1}
        BY <4>1, FS_AddElement, Zenon
      <4> HIDE DEF Old
      <4> QED
        BY <3>3, <4>1, <4>2
    <3>7. Old \cup {c} \in SUBSET Calls
      OBVIOUS
    <3>8. Cardinality(New) <= Cardinality(Old \cup {c})
          /\ Cardinality(New) \in Nat /\ Cardinality(Old \cup {c}) \in Nat
      BY <3>5, <3>7, CallSets
    <3> HIDE DEF Old, New
    <3>9. Cardinality(New) <= Limit
      BY <1>4, <3>3, <3>4, <3>6, <3>8
    <3> QED
      BY <3>9 DEF New
  <2> QED
    BY <1>2, <1>4, <1>5, <2>1, <2>2
<1>14. RefusalIsJustified'
  <2>0. ask' = ask /\ now' = now /\ held' = held
    BY <1>3
  <2> SUFFICES ASSUME NEW d \in Calls, step'[d] = "limited"
               PROVE  \E k \in TokenIds :
                        /\ k \in 1 .. Len(held) /\ held[k] = ask[d].secret
                        /\ Cardinality({e \in Calls : /\ row'[e] = k
                              /\ now[e] >= now[d] - Window}) >= Limit
    <3> SUFFICES ASSUME NEW d \in Calls, step'[d] = "limited"
                 PROVE  \E k \in TokenIds :
                          /\ k \in 1 .. Len(held') /\ held'[k] = ask'[d].secret
                          /\ Cardinality({e \in Calls : /\ row'[e] = k
                                /\ now'[e] >= now'[d] - Window}) >= Limit
      BY DEF RefusalIsJustified
    <3> QED
      BY <2>0, Zenon
  <2>1. CASE d = c
    <3>1. AtLimit(i, since) /\ row' = row
      BY <1>2, <2>1
    <3>2. RowsSince(i, since) \subseteq {e \in Calls : row[e] = i /\ now[e] >= since}
      BY <1>8
    <3>3. Cardinality({e \in Calls : row[e] = i /\ now[e] >= since}) >= Limit
      <4> DEFINE S == {e \in Calls : row[e] = i /\ now[e] >= since}
      <4>1. S \in SUBSET Calls
        OBVIOUS
      <4>2. /\ Cardinality(RowsSince(i, since)) <= Cardinality(S)
            /\ Cardinality(RowsSince(i, since)) \in Nat
            /\ Cardinality(S) \in Nat
        BY <3>2, <4>1, CallSets
      <4> HIDE DEF S
      <4>3. Cardinality(S) >= Limit
        BY <1>4, <3>1, <4>2 DEF AtLimit
      <4> QED
        BY <4>3 DEF S
    <3>4. i \in 1 .. Len(held)
      BY <1>1, <1>2 DEF TypeOK
    <3> QED
      BY <1>2, <2>1, <3>1, <3>3, <3>4
  <2>2. CASE d # c
    <3>1. step[d] = "limited"
      BY <1>3, <1>4, <2>2
    <3>2. PICK k \in TokenIds :
            /\ k \in 1 .. Len(held) /\ held[k] = ask[d].secret
            /\ Cardinality({e \in Calls : /\ row[e] = k
                  /\ now[e] >= now[d] - Window}) >= Limit
      BY <3>1 DEF IInv, RefusalIsJustified
    <3> DEFINE S == {e \in Calls : row[e] = k /\ now[e] >= now[d] - Window}
               T == {e \in Calls : row'[e] = k /\ now[e] >= now[d] - Window}
    <3>3. S \subseteq T /\ T \in SUBSET Calls
      BY <1>4, <1>5, <1>6
    <3>4. /\ Cardinality(S) <= Cardinality(T)
          /\ Cardinality(S) \in Nat /\ Cardinality(T) \in Nat
      BY <3>3, CallSets
    <3>5. Cardinality(S) >= Limit
      BY <3>2
    <3> HIDE DEF S, T
    <3>6. Cardinality(T) >= Limit
      BY <1>4, <3>4, <3>5
    <3> QED
      BY <3>2, <3>6 DEF T
  <2> QED
    BY <2>1, <2>2
<1> QED
  BY <1>9, <1>12, <1>13, <1>14

(***************************************************************************)
(* A secret is never held by two active rows: a created one is new, and    *)
(* the administrator's is inserted only when no row is active.             *)
(***************************************************************************)
LEMMA SecretsStep ==
  ASSUME IInv, TypeOK', [Next]_vars
  PROVE  /\ HeldInv' /\ OneActiveRowPerSecret'
         /\ \A i \in 1 .. Len(held) :
              /\ i \in 1 .. Len(held') /\ held'[i] = held[i]
              /\ i \notin active => i \notin active'
<1>1. /\ held \in Seq(Secrets) /\ Len(held) \in Nat /\ active \subseteq 1 .. Len(held)
      /\ HeldInv /\ OneActiveRowPerSecret
  BY DEF IInv, TypeOK
<1>2. CASE held' = held /\ active' \subseteq active
  BY <1>1, <1>2 DEF HeldInv, OneActiveRowPerSecret
<1>3. ASSUME NEW s \in Secrets, held' = Append(held, s)
      PROVE  /\ Len(held') = Len(held) + 1 /\ held'[Len(held) + 1] = s
             /\ \A i \in 1 .. Len(held) : held'[i] = held[i]
  BY <1>1, <1>3
<1>4. ASSUME NEW c \in Calls, CreateToken(c)
      PROVE  /\ HeldInv' /\ OneActiveRowPerSecret'
             /\ \A i \in 1 .. Len(held) :
                  /\ i \in 1 .. Len(held') /\ held'[i] = held[i]
                  /\ i \notin active => i \notin active'
  <2> DEFINE n == Len(held) + 1
  <2>1. n \in Secrets /\ held' = Append(held, n) /\ active' = active \cup {n}
    BY <1>1, <1>4, BoundsAssumption DEF CreateToken, Secrets, TokenIds
  <2>2. /\ Len(held') = n /\ held'[n] = n
        /\ \A i \in 1 .. Len(held) : held'[i] = held[i]
    BY <1>3, <2>1
  <2>3. HeldInv'
    BY <1>1, <2>2 DEF HeldInv
  <2>4. \A i \in active : held'[i] = held[i] /\ held[i] \in {AdminSecret, i} /\ i < n
    BY <1>1, <2>2 DEF HeldInv
  <2>5. ASSUME NEW i \in active', NEW k \in active', held'[i] = held'[k]
        PROVE  i = k
    <3>1. CASE i \in active /\ k \in active
      BY <1>1, <2>4, <2>5, <3>1 DEF OneActiveRowPerSecret
    <3>2. CASE i = n /\ k \in active
      BY <1>1, <2>2, <2>4, <2>5, <3>2 DEF AdminSecret
    <3>3. CASE k = n /\ i \in active
      BY <1>1, <2>2, <2>4, <2>5, <3>3 DEF AdminSecret
    <3> QED
      BY <2>1, <3>1, <3>2, <3>3
  <2>6. OneActiveRowPerSecret'
    BY <2>5 DEF OneActiveRowPerSecret
  <2>7. \A i \in 1 .. Len(held) : i # n /\ i \in 1 .. Len(held')
    BY <1>1, <2>2
  <2> HIDE DEF n
  <2> QED
    BY <2>1, <2>2, <2>3, <2>6, <2>7
<1>5. CASE /\ active = {}
           /\ held' = Append(held, AdminSecret)
           /\ active' = {Len(held) + 1}
  <2>1. AdminSecret \in Secrets
    BY DEF Secrets
  <2>2. /\ Len(held') = Len(held) + 1 /\ held'[Len(held) + 1] = AdminSecret
        /\ \A i \in 1 .. Len(held) : held'[i] = held[i]
    BY <1>3, <1>5, <2>1
  <2>3. HeldInv'
    BY <1>1, <2>2 DEF HeldInv
  <2>4. OneActiveRowPerSecret'
    BY <1>5 DEF OneActiveRowPerSecret
  <2>5. \A i \in 1 .. Len(held) : i # Len(held) + 1 /\ i \in 1 .. Len(held')
    BY <1>1, <2>2
  <2> QED
    BY <1>5, <2>2, <2>3, <2>4, <2>5
<1>6. ASSUME NEW c \in Calls,
             ReadClock(c) \/ Unauthorized(c) \/ Authenticate(c) \/ RevokeToken(c)
      PROVE  held' = held /\ active' \subseteq active
  BY <1>6 DEF ReadClock, Unauthorized, Authenticate, RevokeToken, tables
<1>7. CASE UNCHANGED vars
  BY <1>2, <1>7 DEF vars, tables
<1> QED
  BY <1>2, <1>4, <1>5, <1>6, <1>7 DEF Next, Restart, Bootstrap

(***************************************************************************)
(* Every step keeps what is known of the counts.                           *)
(***************************************************************************)
LEMMA CountsStep ==
  ASSUME IInv, TypeOK', [Next]_vars
  PROVE  RowInv' /\ KeptInv' /\ NewestWindowBounded' /\ RefusalIsJustified'
<1> DEFINE Counts == RowInv' /\ KeptInv' /\ NewestWindowBounded' /\ RefusalIsJustified'
<1>1. \A i \in 1 .. Len(held) : i \in 1 .. Len(held') /\ held'[i] = held[i]
  BY SecretsStep
<1>2. step \in [Calls -> Steps] /\ now \in [Calls -> 0 .. MaxTime]
  BY DEF IInv, TypeOK
<1>3. ASSUME NEW c \in Calls, ReadClock(c) PROVE Counts
  <2>1. /\ UNCHANGED <<ask, row, counted, horizon>>
        /\ step[c] = "new" /\ step' = [step EXCEPT ![c] = "clocked"]
        /\ \A d \in Calls : d # c => now'[d] = now[d]
    BY <1>2, <1>3 DEF ReadClock, To, tables
  <2>2. row[c] = NoToken
    BY <2>1 DEF IInv, RowInv
  <2>3. /\ \A d \in Calls : row[d] # NoToken => now'[d] = now[d]
        /\ \A d \in Calls : step'[d] = "limited" =>
                            step[d] = "limited" /\ now'[d] = now[d]
        /\ \A d \in Calls : step'[d] \in {"new", "clocked"} =>
                            step[d] \in {"new", "clocked"}
    BY <1>2, <2>1, <2>2
  <2> QED
    BY <1>1, <2>1, <2>3, CountsUntouched
<1>4. ASSUME UNCHANGED <<ask, now, row, counted, horizon>>,
             \A d \in Calls : step'[d] = "limited" => step[d] = "limited",
             \A d \in Calls : step'[d] \in {"new", "clocked"} =>
                             step[d] \in {"new", "clocked"}
      PROVE  Counts
  BY <1>1, <1>4, CountsUntouched
<1>5. ASSUME NEW c \in Calls, Unauthorized(c) PROVE Counts
  BY <1>2, <1>4, <1>5 DEF Unauthorized, To, tables
<1>6. ASSUME NEW c \in Calls, CreateToken(c) PROVE Counts
  BY <1>2, <1>4, <1>6 DEF CreateToken, To
<1>7. ASSUME NEW c \in Calls, RevokeToken(c) PROVE Counts
  BY <1>2, <1>4, <1>7 DEF RevokeToken, To
<1>8. ASSUME Restart PROVE Counts
  BY <1>2, <1>4, <1>8 DEF Restart
<1>9. ASSUME UNCHANGED vars PROVE Counts
  BY <1>4, <1>9 DEF vars, tables
<1>10. ASSUME NEW c \in Calls, Authenticate(c) PROVE Counts
  BY <1>10, AuthenticateKeepsCounts
<1> HIDE DEF Counts
<1>11. Counts
  BY <1>3, <1>5, <1>6, <1>7, <1>8, <1>9, <1>10 DEF Next
<1> QED
  BY <1>11 DEF Counts

(***************************************************************************)
(* A call counted in time sees every call of a window it falls into: those *)
(* in time and those that were late, none of which was pruned.             *)
(***************************************************************************)
LEMMA OnTimeAdmission ==
  ASSUME IInv, NEW c \in Calls, Authenticate(c), OnTimeCallsBounded
  PROVE  OnTimeCallsBounded'
<1> DEFINE since == now[c] - Window
<1>1. TypeOK
  BY DEF IInv
<1>2. PICK i \in TokenIds :
        \/ ~AtLimit(i, since) /\ row' = [row EXCEPT ![c] = i]
        \/ row' = row
  BY <1>1, AuthenticateEffect
<1>3. /\ now' = now /\ step[c] = "clocked"
      /\ late' = IF now[c] < horizon THEN late \cup {c} ELSE late
  BY <1>1, AuthenticateEffect
<1>4. /\ now \in [Calls -> Int] /\ horizon \in Int /\ Window \in Int
      /\ since \in Int /\ Limit \in Int
      /\ row \in [Calls -> TokenIds \cup {NoToken}]
      /\ counted \in [TokenIds -> SUBSET Calls]
      /\ NoToken \notin TokenIds
  BY <1>1, WindowAssumption, LimitAssumption DEF TypeOK, TokenIds, NoToken
<1>5. row[c] = NoToken
  BY <1>3 DEF IInv, RowInv
<1> SUFFICES ASSUME NEW k \in TokenIds, NEW t \in 0 .. MaxTime
             PROVE  Cardinality({d \in Calls \ late' :
                                   row'[d] = k /\ now[d] \in t .. t + Window}) <= Limit
  BY <1>3 DEF OnTimeCallsBounded
<1> DEFINE Old == {d \in Calls \ late : row[d] = k /\ now[d] \in t .. t + Window}
           New == {d \in Calls \ late' : row'[d] = k /\ now[d] \in t .. t + Window}
<1>6. /\ Cardinality(Old) <= Limit
      /\ Old \in SUBSET Calls /\ Cardinality(Old) \in Nat
  BY CallSets DEF OnTimeCallsBounded
<1>7. ASSUME NEW d \in New \ {c} PROVE d \in Old
  <2>1. row'[d] = row[d]
    BY <1>2, <1>4
  <2>2. d \notin late
    BY <1>3
  <2> QED
    BY <2>1, <2>2
<1>8. CASE c \notin New
  <2>1. New \subseteq Old
    BY <1>7, <1>8
  <2>2. Cardinality(New) <= Cardinality(Old) /\ Cardinality(New) \in Nat
    BY <1>6, <2>1, CallSets
  <2> HIDE DEF Old, New
  <2>3. Cardinality(New) <= Limit
    BY <1>4, <1>6, <2>2
  <2> QED
    BY <2>3 DEF New
<1>9. CASE c \in New
  <2>1. /\ now[c] >= horizon
        /\ now[c] \in t .. t + Window
        /\ ~AtLimit(k, since)
    <3>1. row'[c] = k /\ c \notin late' /\ now[c] \in t .. t + Window
      BY <1>9
    <3>2. row' # row
      BY <1>4, <1>5, <3>1
    <3>3. i = k /\ ~AtLimit(i, since)
      BY <1>2, <1>4, <3>1, <3>2
    <3>4. ~(now[c] < horizon)
      BY <1>3, <3>1
    <3> QED
      BY <1>4, <3>1, <3>3, <3>4
  <2>2. Old \subseteq RowsSince(k, since)
    <3> SUFFICES ASSUME NEW d \in Old PROVE d \in RowsSince(k, since)
      OBVIOUS
    <3>1. row[d] = k /\ now[d] \in Int /\ now[d] >= t
      BY <1>4
    <3>2. t >= since /\ since >= horizon - Window
      BY <1>4, <2>1
    <3>3. now[d] >= since /\ now[d] >= horizon - Window
      BY <1>4, <3>1, <3>2
    <3>4. d \in counted[k]
      BY <1>4, <3>1, <3>3 DEF IInv, KeptInv
    <3> QED
      BY <3>3, <3>4 DEF RowsSince
  <2>3. RowsSince(k, since) \in SUBSET Calls
    BY <1>4 DEF RowsSince
  <2>4. /\ Cardinality(Old) <= Cardinality(RowsSince(k, since))
        /\ Cardinality(RowsSince(k, since)) \in Nat
    BY <2>2, <2>3, CallSets
  <2>5. Cardinality(RowsSince(k, since)) < Limit
    BY <1>4, <2>1, <2>4 DEF AtLimit
  <2>6. Cardinality(Old \cup {c}) \in {Cardinality(Old), Cardinality(Old) + 1}
    <3>1. IsFiniteSet(Old)
      BY <1>6, CallsAssumption, FS_Subset
    <3> QED
      BY <3>1, FS_AddElement, Zenon
  <2>7. New \subseteq Old \cup {c} /\ Old \cup {c} \in SUBSET Calls
    BY <1>6, <1>7
  <2>8. Cardinality(New) <= Cardinality(Old \cup {c}) /\ Cardinality(New) \in Nat
    BY <2>7, CallSets
  <2> HIDE DEF Old, New
  <2>9. Cardinality(New) <= Limit
    BY <1>4, <1>6, <2>4, <2>5, <2>6, <2>8
  <2> QED
    BY <2>9 DEF New
<1> QED
  BY <1>8, <1>9

(***************************************************************************)
(* Every step keeps the bound of the calls in time.                        *)
(***************************************************************************)
LEMMA OnTimeStep ==
  ASSUME IInv, OnTimeCallsBounded, [Next]_vars
  PROVE  OnTimeCallsBounded'
<1>1. row \in [Calls -> TokenIds \cup {NoToken}] /\ now \in [Calls -> 0 .. MaxTime]
  BY DEF IInv, TypeOK
<1>2. ASSUME row' = row, late' = late,
             \A d \in Calls : row[d] # NoToken => now'[d] = now[d]
      PROVE  OnTimeCallsBounded'
  <2> SUFFICES ASSUME NEW i \in TokenIds, NEW t \in 0 .. MaxTime
               PROVE  Cardinality({d \in Calls \ late :
                                     row[d] = i /\ now'[d] \in t .. t + Window}) <= Limit
    BY <1>2 DEF OnTimeCallsBounded
  <2>1. i # NoToken
    BY DEF TokenIds, NoToken
  <2>2. {d \in Calls \ late : row[d] = i /\ now'[d] \in t .. t + Window}
          = {d \in Calls \ late : row[d] = i /\ now[d] \in t .. t + Window}
    BY <1>2, <2>1
  <2>3. Cardinality({d \in Calls \ late : row[d] = i /\ now[d] \in t .. t + Window})
          <= Limit
    BY DEF OnTimeCallsBounded
  <2> QED
    BY ONLY <2>2, <2>3
<1>3. ASSUME NEW c \in Calls, ReadClock(c) PROVE OnTimeCallsBounded'
  <2>1. row[c] = NoToken
    BY <1>3 DEF ReadClock, IInv, RowInv
  <2> QED
    BY <1>1, <1>2, <1>3, <2>1 DEF ReadClock
<1>4. ASSUME NEW c \in Calls, Authenticate(c) PROVE OnTimeCallsBounded'
  BY <1>4, OnTimeAdmission
<1>5. ASSUME NEW c \in Calls, Unauthorized(c) \/ CreateToken(c) \/ RevokeToken(c)
      PROVE  OnTimeCallsBounded'
  BY <1>2, <1>5 DEF Unauthorized, CreateToken, RevokeToken
<1>6. ASSUME Restart \/ UNCHANGED vars PROVE OnTimeCallsBounded'
  BY <1>2, <1>6 DEF Restart, vars
<1> QED
  BY <1>3, <1>4, <1>5, <1>6 DEF Next

------------------------------------------------------------------------------
(* The theorems *)

(***************************************************************************)
(* The first start satisfies the invariant.                                *)
(***************************************************************************)
LEMMA IInvInit == Init => IInv
<1> SUFFICES ASSUME Init PROVE IInv
  OBVIOUS
<1>1. held \in Seq(Secrets) /\ Len(held) = 1 /\ held[1] = AdminSecret
  BY DEF Init, Secrets
<1>2. TypeOK
  BY <1>1, BoundsAssumption DEF Init, TypeOK, Steps
<1>3. RowInv /\ KeptInv
  BY DEF Init, RowInv, KeptInv
<1>4. HeldInv /\ OneActiveRowPerSecret
  BY <1>1 DEF Init, HeldInv, OneActiveRowPerSecret
<1>5. NewestWindowBounded
  <2> SUFFICES ASSUME NEW i \in TokenIds
               PROVE  Cardinality({c \in Calls : /\ row[c] = i
                            /\ now[c] >= horizon - Window}) <= Limit
    BY DEF NewestWindowBounded
  <2>1. {c \in Calls : row[c] = i /\ now[c] >= horizon - Window} = {}
    BY DEF Init, TokenIds, NoToken
  <2> QED
    BY <2>1, FS_EmptySet, LimitAssumption
<1>6. RefusalIsJustified
  BY DEF Init, RefusalIsJustified
<1> QED
  BY <1>2, <1>3, <1>4, <1>5, <1>6 DEF IInv

(***************************************************************************)
(* Every reachable state satisfies the inductive invariant.                *)
(***************************************************************************)
THEOREM AccessInvariant == Spec => []IInv
<1>1. IInv /\ [Next]_vars => IInv'
  <2> SUFFICES ASSUME IInv, [Next]_vars PROVE IInv'
    OBVIOUS
  <2>1. TypeOK'
    BY TypeStep DEF IInv
  <2> QED
    BY <2>1, CountsStep, SecretsStep DEF IInv
<1> QED
  BY <1>1, IInvInit, PTL DEF Spec

(***************************************************************************)
(* The state of the access control has the declared types.                 *)
(***************************************************************************)
THEOREM AccessTypeCorrect == Spec => []TypeOK
<1>1. IInv => TypeOK
  BY DEF IInv
<1> QED
  BY <1>1, AccessInvariant, PTL

(***************************************************************************)
(* No token is admitted more often than the limit in the newest window.    *)
(***************************************************************************)
THEOREM WindowIsBounded == Spec => []NewestWindowBounded
<1>1. IInv => NewestWindowBounded
  BY DEF IInv
<1> QED
  BY <1>1, AccessInvariant, PTL

\* A server on which no call came late keeps the limit in every window.
LimitKeptIfPrompt ==
  late = {} =>
    \A i \in TokenIds, t \in 0 .. MaxTime :
      Cardinality({c \in Calls : row[c] = i /\ now[c] \in t .. t + Window}) <= Limit

(***************************************************************************)
(* For every window, the calls counted in the order of their times never   *)
(* exceed the limit; where no call was late that is all calls, which is    *)
(* what the documents say of the limit.                                    *)
(***************************************************************************)
THEOREM WindowsAreBoundedInTime == Spec => [](OnTimeCallsBounded /\ LimitKeptIfPrompt)
<1>1. Init => OnTimeCallsBounded
  <2> SUFFICES ASSUME Init, NEW i \in TokenIds, NEW t \in 0 .. MaxTime
               PROVE  Cardinality({c \in Calls \ late : /\ row[c] = i
                                     /\ now[c] \in t .. t + Window}) <= Limit
    BY DEF OnTimeCallsBounded
  <2>1. {c \in Calls \ late : row[c] = i /\ now[c] \in t .. t + Window} = {}
    BY DEF Init, TokenIds, NoToken
  <2> QED
    BY <2>1, FS_EmptySet, LimitAssumption
<1>2. IInv /\ OnTimeCallsBounded /\ [Next]_vars => OnTimeCallsBounded'
  BY OnTimeStep
<1>3. OnTimeCallsBounded => LimitKeptIfPrompt
  <2> SUFFICES ASSUME OnTimeCallsBounded, late = {} PROVE LimitKeptIfPrompt
    BY DEF LimitKeptIfPrompt
  <2>1. Calls \ late = Calls
    OBVIOUS
  <2> QED
    BY <2>1 DEF OnTimeCallsBounded, LimitKeptIfPrompt
<1> QED
  BY <1>1, <1>2, <1>3, AccessInvariant, PTL DEF Spec

(***************************************************************************)
(* A call refused for its rate had the limit used up by admitted calls.    *)
(***************************************************************************)
THEOREM RefusalIsFair == Spec => []RefusalIsJustified
<1>1. IInv => RefusalIsJustified
  BY DEF IInv
<1> QED
  BY <1>1, AccessInvariant, PTL

(***************************************************************************)
(* No secret opens two active rows.                                        *)
(***************************************************************************)
THEOREM SecretIsUnambiguous == Spec => []OneActiveRowPerSecret
<1>1. IInv => OneActiveRowPerSecret
  BY DEF IInv
<1> QED
  BY <1>1, AccessInvariant, PTL

(***************************************************************************)
(* Neither a restart nor an administrator brings a revoked row back.       *)
(***************************************************************************)
THEOREM RevocationIsFinal == Spec => RevokedForGood
<1>1. IInv /\ [Next]_vars =>
        [\A i \in 1 .. Len(held) : /\ i \notin active => i \notin active'
                                   /\ held'[i] = held[i]]_vars
  <2> SUFFICES ASSUME IInv, [Next]_vars
               PROVE  \A i \in 1 .. Len(held) :
                        /\ i \notin active => i \notin active'
                        /\ held'[i] = held[i]
    OBVIOUS
  <2>1. TypeOK'
    BY TypeStep DEF IInv
  <2> QED
    BY <2>1, SecretsStep
<1> QED
  BY <1>1, AccessInvariant, PTL DEF Spec, RevokedForGood
=============================================================================
