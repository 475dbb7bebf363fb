------------------------------- MODULE MCCli -------------------------------
(***************************************************************************)
(* KovalCli for TLC: three invocations, one server and two tokens, of      *)
(* which it accepts the one that is a legal header value.  Invocations are *)
(* interchangeable, so one order of their commands stands for all; unlike  *)
(* a symmetry of the configuration this also holds for liveness.           *)
(***************************************************************************)
EXTENDS KovalCli, Sequences

CONSTANTS u1, t1, t2

MCUrls == {u1}
MCTokens == {t1, t2}
MCHeaderTokens == {t1}
MCAccepts == {<<u1, t1>>}

CommandOrder == <<SetServer(u1), SetToken(t1), SetToken(t2), Show,
                  Call("token_delete"), Call("pgo_upload")>>

Rank(c) == CHOOSE i \in 1 .. Len(CommandOrder) : CommandOrder[i] = c

InOrder == \A p, q \in Runs : p < q => Rank(cmd[p]) <= Rank(cmd[q])

MCInit == Init /\ InOrder

MCSpec == MCInit /\ [][Next]_vars /\ Fairness
=============================================================================
