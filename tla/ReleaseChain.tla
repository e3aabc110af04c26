---------------------------- MODULE ReleaseChain ----------------------------
(***************************************************************************)
(* What publication promises about the releases of a scope: they form one  *)
(* chain that only grows at its end, the current pointer is its last       *)
(* element, and an idempotency key stands for at most one release.         *)
(* ReleaseLedger is shown to implement it for the scopes it serialises.    *)
(***************************************************************************)
EXTENDS Sequences

CONSTANTS Scopes, Releases, Keys, None

VARIABLES
    chain,     \* published releases of each scope, oldest first
    current,   \* release the scope's pointer names
    keyed      \* release each idempotency key stands for

chainVars == <<chain, current, keyed>>

Published == UNION {{chain[s][i] : i \in DOMAIN chain[s]} : s \in Scopes}

Init ==
    /\ chain = [s \in Scopes |-> <<>>]
    /\ current = [s \in Scopes |-> None]
    /\ keyed = [k \in Keys |-> None]

\* A release is published once, under a key of its own.
Publish(k, s, r) ==
    /\ keyed[k] = None
    /\ chain' = [chain EXCEPT ![s] = Append(@, r)]
    /\ current' = [current EXCEPT ![s] = r]
    /\ keyed' = [keyed EXCEPT ![k] = r]

Next == \E r \in Releases \ Published, k \in Keys, s \in Scopes : Publish(k, s, r)

Spec == Init /\ [][Next]_chainVars
=============================================================================
