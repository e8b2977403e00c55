---------------------------- MODULE MCSettlement -----------------------------
(***************************************************************************)
(* Two agents, a sandbox hash and a hash on the network, two challenges    *)
(* and three requests: enough for two requests to race with the same hash  *)
(* or the same challenge while a third one moves either of them.           *)
(***************************************************************************)
EXTENDS Settlement, TLC

CONSTANTS a1, a2, k1, k2, sandbox, live, r1, r2, r3, nobody

MCAgents == {a1, a2}
MCChallenges == {k1, k2}
MCHashes == {sandbox, live}
MCSandboxHashes == {sandbox}
MCRequests == {r1, r2, r3}
MCPaid == {1, 2, 4}    \* less than the price, the price, twice the price

Symmetry == Permutations(MCRequests) \cup Permutations(MCAgents)
                \cup Permutations(MCChallenges)
=============================================================================
