---------------------------- MODULE TokenLedger ----------------------------
(***************************************************************************)
(* What the refresh-token table promises, whatever runs against it: a      *)
(* token is issued once; it is live, then revoked or purged, and never     *)
(* comes back; a token issued in exchange for another belongs to the same  *)
(* citizen, is the only one exchanged for it, comes after its death and    *)
(* never gives up full access.                                             *)
(***************************************************************************)
CONSTANTS Users, Tokens, NoToken

VARIABLE ledger

TokenTypes == {"full", "limited"}

Entry == [status : {"live", "revoked", "deleted"}, owner : Users,
          type : TokenTypes, parent : Tokens \cup {NoToken}]
None == [status |-> "none"]

Dead(t) == ledger[t].status \in {"revoked", "deleted"}

(* t may be handed out in exchange for p. *)
Exchangeable(p, u, type) ==
    /\ Dead(p)
    /\ ledger[p].owner = u
    /\ ledger[p].type = "full" => type = "full"
    /\ \A t \in Tokens : ledger[t] # None => ledger[t].parent # p

Issue(t, u, type, p) ==
    /\ ledger[t] = None
    /\ p = NoToken \/ Exchangeable(p, u, type)
    /\ ledger' = [ledger EXCEPT ![t] =
                    [status |-> "live", owner |-> u, type |-> type, parent |-> p]]

(* Some live tokens of one citizen are revoked at once. *)
RevokeSome(u) ==
    \E S \in SUBSET {t \in Tokens : ledger[t].status = "live" /\ ledger[t].owner = u} :
        ledger' = [t \in Tokens |->
                     IF t \in S THEN [ledger[t] EXCEPT !.status = "revoked"] ELSE ledger[t]]

(* The clean-up takes every revoked row, and the live ones that expired. *)
Purge ==
    \E S \in SUBSET {t \in Tokens : ledger[t].status = "live"} :
        ledger' = [t \in Tokens |->
                     IF t \in S \/ ledger[t].status = "revoked"
                     THEN [ledger[t] EXCEPT !.status = "deleted"]
                     ELSE ledger[t]]

Init == ledger = [t \in Tokens |-> None]

Next ==
    \/ \E t \in Tokens, u \in Users, type \in TokenTypes, p \in Tokens \cup {NoToken} :
          Issue(t, u, type, p)
    \/ \E u \in Users : RevokeSome(u)
    \/ Purge

Spec == Init /\ [][Next]_ledger
=============================================================================
