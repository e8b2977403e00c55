----------------------------- MODULE Redemption ------------------------------
(***************************************************************************)
(* What x402 settlement promises about a transaction hash: it is redeemed  *)
(* for one agent, once and for good, and then credited to that agent once. *)
(***************************************************************************)
CONSTANTS
    Hashes,
    Agents,
    Nobody        \* the owner of a hash that was never redeemed

VARIABLES
    owner,        \* owner[h]: the agent the hash was redeemed for
    credited      \* the hashes whose credits were granted

abstractVars == <<owner, credited>>

RedemptionInit ==
    /\ owner = [h \in Hashes |-> Nobody]
    /\ credited = {}

Redeem(h, a) ==
    /\ owner[h] = Nobody
    /\ owner' = [owner EXCEPT ![h] = a]
    /\ UNCHANGED credited

Credit(h) ==
    /\ owner[h] # Nobody
    /\ h \notin credited
    /\ credited' = credited \cup {h}
    /\ UNCHANGED owner

RedemptionNext ==
    \E h \in Hashes : Credit(h) \/ \E a \in Agents : Redeem(h, a)

RedemptionSpec == RedemptionInit /\ [][RedemptionNext]_abstractVars
=============================================================================
