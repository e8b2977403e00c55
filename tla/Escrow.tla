------------------------------- MODULE Escrow --------------------------------
(***************************************************************************)
(* What the paywall promises about the price of a request: the credit is   *)
(* held once, out of the balance of one agent, and then either kept for    *)
(* good or returned once to the same agent.                                *)
(***************************************************************************)
EXTENDS Integers

CONSTANTS
    Agents,
    Queries,
    FreeCredits,
    Nobody        \* the holder of a request that was never charged

VARIABLES
    funded,       \* the agents that were given their free credits
    balance,      \* balance[a]: the credits a may still spend
    holder,       \* holder[q]: the agent whose credit q took
    charge        \* charge[q]: what became of it

escrowVars == <<funded, balance, holder, charge>>

EscrowInit ==
    /\ funded = {}
    /\ balance = [a \in Agents |-> 0]
    /\ holder = [q \in Queries |-> Nobody]
    /\ charge = [q \in Queries |-> "none"]

\* An agent is given the free credits once.
Fund(a) ==
    /\ a \notin funded
    /\ funded' = funded \cup {a}
    /\ balance' = [balance EXCEPT ![a] = @ + FreeCredits]
    /\ UNCHANGED <<holder, charge>>

Hold(q, a) ==
    /\ charge[q] = "none"
    /\ a \in funded /\ balance[a] > 0
    /\ balance' = [balance EXCEPT ![a] = @ - 1]
    /\ holder' = [holder EXCEPT ![q] = a]
    /\ charge' = [charge EXCEPT ![q] = "held"]
    /\ UNCHANGED funded

Return(q) ==
    /\ charge[q] = "held"
    /\ balance' = [balance EXCEPT ![holder[q]] = @ + 1]
    /\ charge' = [charge EXCEPT ![q] = "returned"]
    /\ UNCHANGED <<funded, holder>>

\* A crash of the server keeps the credits of all requests at once.
Keep(kept) ==
    /\ \A q \in kept : charge[q] = "held"
    /\ charge' = [q \in Queries |-> IF q \in kept THEN "kept" ELSE charge[q]]
    /\ UNCHANGED <<funded, balance, holder>>

EscrowNext ==
    \/ \E a \in Agents : Fund(a)
    \/ \E q \in Queries :
          \/ Return(q)
          \/ \E a \in Agents : Hold(q, a)
    \/ \E kept \in SUBSET Queries : Keep(kept)

EscrowSpec == EscrowInit /\ [][EscrowNext]_escrowVars
=============================================================================
