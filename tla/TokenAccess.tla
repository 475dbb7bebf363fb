---------------------------- MODULE TokenAccess ----------------------------
(***************************************************************************)
(* Who may call the server and how often: authenticate_and_rate_limit      *)
(* (auth.rs) over the tables tokens and rate_limit (db.rs), the handlers   *)
(* that create and revoke tokens (routes/tokens.rs), and the token that    *)
(* main inserts at the start (bootstrap_admin_token).                      *)
(*                                                                         *)
(* Every handler reads the clock first and takes the connection mutex      *)
(* later, so calls are counted in another order than that of their times.  *)
(* Time is counted in milliseconds, the precision in which window_start is *)
(* stored and, compared as text, in which it is told apart from the start  *)
(* of the window.  A handler that administers tokens takes the mutex       *)
(* twice: to authenticate and to act.                                      *)
(*                                                                         *)
(* The start is one with KOVAL_ADMIN_TOKEN set to the only secret that     *)
(* routes/tokens.rs accepts, as in the documents.                          *)
(*                                                                         *)
(* An operator whose comment begins with "Slip:" is no part of the model:  *)
(* it is a plausible mistake in the operation defined after it.            *)
(***************************************************************************)
EXTENDS Integers, Sequences, FiniteSets

CONSTANTS
  Calls,        \* calls of the API
  Limit,        \* KOVAL_RATE_LIMIT
  Window,       \* 60 seconds
  MaxTime,      \* bound of the model: the last instant of the clock
  MaxTokens     \* bound of the model: rows in the tokens table

ASSUME CallsAssumption  == IsFiniteSet(Calls)
ASSUME LimitAssumption  == Limit \in Nat
ASSUME WindowAssumption == Window \in Nat
ASSUME BoundsAssumption == MaxTime \in Nat /\ MaxTokens \in Nat \ {0}

TokenIds == 1 .. MaxTokens
NoToken == 0

(***************************************************************************)
(* The secret of a token made by POST /tokens is a fresh UUID, named after *)
(* its row; 0 is koval_tkn_default_admin.                                  *)
(***************************************************************************)
AdminSecret == 0
Secrets == {AdminSecret} \cup TokenIds

VARIABLES
  ask,      \* ask[c]: bearer secret, operation and, to revoke, a token id
  step,     \* step[c]: how far the handler of c is, or how it answered
  now,      \* now[c]: the clock as c read it
  row,      \* row[c]: the token c was admitted and counted for
  held,     \* tokens: the secret of each row, in order of id
  active,   \* tokens: the ids with is_active = 1
  counted,  \* rate_limit: per token, the calls its rows count
  clock,
  horizon,  \* history: the latest time for which rate_limit was pruned
  late      \* history: calls that came to be counted behind the horizon

tables == <<held, active, counted>>
vars == <<ask, step, now, row, tables, clock, horizon, late>>

Asks == [secret: Secrets, op: {"use", "create", "revoke"}, target: TokenIds]

Steps == {"new", "clocked", "invalid", "limited", "error", "served",
          "forbidden", "acting", "lost"}

TypeOK ==
  /\ ask \in [Calls -> Asks]
  /\ step \in [Calls -> Steps]
  /\ now \in [Calls -> 0 .. MaxTime]
  /\ row \in [Calls -> TokenIds \cup {NoToken}]
  /\ held \in Seq(Secrets)
  /\ Len(held) <= MaxTokens
  /\ active \subseteq 1 .. Len(held)
  /\ counted \in [TokenIds -> SUBSET Calls]
  /\ clock \in 0 .. MaxTime
  /\ horizon \in 0 .. MaxTime
  /\ late \subseteq Calls

\* The first start, on an empty database.
Init ==
  /\ ask \in [Calls -> Asks]
  /\ step = [c \in Calls |-> "new"]
  /\ now = [c \in Calls |-> 0]
  /\ row = [c \in Calls |-> NoToken]
  /\ held = <<AdminSecret>>
  /\ active = {1}
  /\ counted = [i \in TokenIds |-> {}]
  /\ clock = 0
  /\ horizon = 0
  /\ late = {}

To(c, s) == step' = [step EXCEPT ![c] = s]

------------------------------------------------------------------------------

\* Any time may pass before the next handler reads the clock.
ReadClock(c) ==
  /\ step[c] = "new"
  /\ clock' \in clock .. MaxTime
  /\ now' = [now EXCEPT ![c] = clock']
  /\ To(c, "clocked")
  /\ UNCHANGED <<ask, row, tables, horizon, late>>

\* The active rows whose hash the secret verifies against.
Matching(secret) == {i \in active : held[i] = secret}

\* Slip: a row at the very start of the window is left out.
RowsAfter(i, since) == {d \in counted[i] : now[d] > since}

\* What prune_rate_limits leaves and get_sliding_window_count adds up.
RowsSince(i, since) == {d \in counted[i] : now[d] >= since}

Prune(since) == [i \in TokenIds |-> RowsSince(i, since)]

\* Slip: the requests of all tokens are added up.
AtLimitOverall(i, since) ==
  Cardinality(UNION {RowsSince(k, since) : k \in TokenIds}) >= Limit

\* Slip: the limit is passed by one before a call is refused.
OverLimit(i, since) == Cardinality(RowsSince(i, since)) > Limit

AtLimit(i, since) == Cardinality(RowsSince(i, since)) >= Limit

\* Only build and job routes end here; the token routes go on to act.
AfterAdmission(c) == IF ask[c].op = "use" THEN "served"
                     ELSE IF ask[c].secret = AdminSecret THEN "acting"
                     ELSE "forbidden"

Pruned(c) == /\ horizon' = IF now[c] > horizon THEN now[c] ELSE horizon
             /\ late' = IF now[c] < horizon THEN late \cup {c} ELSE late

Unauthorized(c) ==
  /\ step[c] = "clocked"
  /\ Matching(ask[c].secret) = {}
  /\ To(c, "invalid")
  /\ UNCHANGED <<ask, now, row, tables, clock, horizon, late>>

(***************************************************************************)
(* One scope of the mutex: the first matching row, the pruning of every    *)
(* token's rows, the count of this token's, and the new row.               *)
(***************************************************************************)
Admit(c, i) ==
  LET since == now[c] - Window IN
  /\ ~AtLimit(i, since)
  /\ counted' = [Prune(since) EXCEPT ![i] = @ \cup {c}]
  /\ row' = [row EXCEPT ![c] = i]
  /\ To(c, AfterAdmission(c))

Refuse(c, i) ==
  LET since == now[c] - Window IN
  /\ AtLimit(i, since)
  /\ counted' = Prune(since)
  /\ To(c, "limited")
  /\ UNCHANGED row

\* A statement fails: the pruning itself, or the count or the insert after
\* the pruning was committed.
FailToCount(c) ==
  /\ counted' \in {counted, Prune(now[c] - Window)}
  /\ To(c, "error")
  /\ UNCHANGED row

Authenticate(c) ==
  /\ step[c] = "clocked"
  /\ \E i \in Matching(ask[c].secret) :
       /\ \A k \in Matching(ask[c].secret) : i <= k
       /\ Admit(c, i) \/ Refuse(c, i) \/ FailToCount(c)
  /\ Pruned(c)
  /\ UNCHANGED <<ask, now, held, active, clock>>

CreateToken(c) ==
  /\ step[c] = "acting"
  /\ ask[c].op = "create"
  /\ Len(held) < MaxTokens
  /\ held' = Append(held, Len(held) + 1)
  /\ active' = active \cup {Len(held) + 1}
  /\ To(c, "served")
  /\ UNCHANGED <<ask, now, row, counted, clock, horizon, late>>

\* An id without a row is no error.
RevokeToken(c) ==
  /\ step[c] = "acting"
  /\ ask[c].op = "revoke"
  /\ active' = active \ {ask[c].target}
  /\ To(c, "served")
  /\ UNCHANGED <<ask, now, row, held, counted, clock, horizon, late>>

\* Slip: the administrator is inserted at every start.
BootstrapAlways ==
  /\ Len(held) < MaxTokens
  /\ held' = Append(held, AdminSecret)
  /\ active' = active \cup {Len(held) + 1}

\* Slip: the row of the first start is made active again.
BootstrapReactivates ==
  /\ active' = IF active = {} THEN {1} ELSE active
  /\ UNCHANGED held

\* bootstrap_admin_token asks whether a token is active, not whether one is
\* in the table.
Bootstrap ==
  \/ /\ active = {}
     /\ Len(held) < MaxTokens
     /\ held' = Append(held, AdminSecret)
     /\ active' = {Len(held) + 1}
  \/ active # {} /\ UNCHANGED <<held, active>>

\* The process dies and main runs again; the tables are on disk.
Restart ==
  /\ step' = [c \in Calls |-> IF step[c] \in {"clocked", "acting"}
                              THEN "lost" ELSE step[c]]
  /\ Bootstrap
  /\ UNCHANGED <<ask, now, row, counted, clock, horizon, late>>

Next == \/ \E c \in Calls : \/ ReadClock(c) \/ Unauthorized(c)
                            \/ Authenticate(c)
                            \/ CreateToken(c) \/ RevokeToken(c)
        \/ Restart

Spec == Init /\ [][Next]_vars

------------------------------------------------------------------------------

(***************************************************************************)
(* The sliding window that ends at the latest time counted so far never    *)
(* holds more than the limit of admitted calls of one token, in whatever   *)
(* order handlers got the mutex and across restarts.                       *)
(***************************************************************************)
NewestWindowBounded ==
  \A i \in TokenIds :
    Cardinality({c \in Calls : row[c] = i /\ now[c] >= horizon - Window})
      <= Limit

(***************************************************************************)
(* What the limit promises for every window, past ones too: its calls that *)
(* were counted in the order of their times never exceed the limit.  Only  *)
(* a call with an older time than one counted before it, which finds rows  *)
(* of its window pruned, can come on top of them.                          *)
(***************************************************************************)
OnTimeCallsBounded ==
  \A i \in TokenIds, t \in 0 .. MaxTime :
    Cardinality({c \in Calls \ late : row[c] = i /\ now[c] \in t .. t + Window})
      <= Limit

(***************************************************************************)
(* A call is refused for the rate only when the limit of calls with the    *)
(* same token was really admitted in its window or later: refused calls    *)
(* and the calls of others do not count.                                   *)
(***************************************************************************)
RefusalIsJustified ==
  \A c \in Calls :
    step[c] = "limited" =>
      \E i \in TokenIds :
        /\ i \in 1 .. Len(held) /\ held[i] = ask[c].secret
        /\ Cardinality({d \in Calls : /\ row[d] = i
                                      /\ now[d] >= now[c] - Window}) >= Limit

(***************************************************************************)
(* One secret opens at most one active row, although a start may insert    *)
(* the administrator again: no client can spread its calls over two rows.  *)
(***************************************************************************)
OneActiveRowPerSecret ==
  \A i, k \in active : held[i] = held[k] => i = k

(***************************************************************************)
(* A revoked row stays revoked and no row changes its secret: neither a    *)
(* restart nor an administrator's late call brings a token back.           *)
(***************************************************************************)
RevokedForGood ==
  [][\A i \in 1 .. Len(held) : /\ i \notin active => i \notin active'
                               /\ held'[i] = held[i]]_vars
=============================================================================
