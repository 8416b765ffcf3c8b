-------------------------- MODULE MCBridgeMembers ---------------------------
(* Small instances of BridgeMembers.                                       *)
EXTENDS BridgeMembers, TLC

CONSTANTS c1, c2, m1, m2, l1, l2, l3

Roles(a, b, c) == l1 :> a @@ l2 :> b @@ l3 :> c

\* A look-up beside two LWPs that delete; and each kind of reader alone with
\* one that deletes.
MCInit == /\ Init
          /\ role \in {Roles("lookup", "delete", "delete"),
                       Roles("lookup", "none", "delete"),
                       Roles("broadcast", "none", "delete")}

MCSpec == MCInit /\ [][Next]_vars /\ Fairness

\* A broadcast beside two LWPs that delete.
BroadcastInit == Init /\ role = Roles("broadcast", "delete", "delete")

BroadcastSpec == BroadcastInit /\ [][Next]_vars
=============================================================================
