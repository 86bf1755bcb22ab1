------------------------------ MODULE Credential ------------------------------
(***************************************************************************)
(* What device authorization promises about the things it hands out.  A    *)
(* code (device_code) or a token (refresh token) is good for one successor *)
(* at most: it is spent when it is exchanged, and once it is spent or void *)
(* it never yields anything again.                                         *)
(***************************************************************************)
CONSTANTS Codes, Tokens

VARIABLE use    \* what has become of each code and token

Items == Codes \cup Tokens

TypeOK == use \in [Items -> {"unissued", "live", "spent", "void"}]

Init == use = [c \in Items |-> "unissued"]

(* The account owner approves a code. *)
Issue(c) ==
    /\ use[c] = "unissued"
    /\ use' = [use EXCEPT ![c] = "live"]

(* c is exchanged for the fresh token k; others may be withdrawn with it. *)
Spend(c, k, V) ==
    /\ use[c] = "live" /\ use[k] = "unissued"
    /\ use' = [x \in Items |-> IF x = c THEN "spent"
                               ELSE IF x = k THEN "live"
                               ELSE IF x \in V THEN "void" ELSE use[x]]

(* Denial, revocation, a detected replay, cleanup. *)
Withdraw(V) == use' = [x \in Items |-> IF x \in V THEN "void" ELSE use[x]]

Unspent == {x \in Items : use[x] \in {"unissued", "live"}}

Next ==
    \/ \E c \in Codes : Issue(c)
    \/ \E c \in Items, k \in Tokens : \E V \in SUBSET Unspent : Spend(c, k, V)
    \/ \E V \in SUBSET Unspent : Withdraw(V)

Spec == Init /\ [][Next]_use
=============================================================================
