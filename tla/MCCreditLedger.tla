--------------------------- MODULE MCCreditLedger ----------------------------
(***************************************************************************)
(* A browser agent and an agent registered through POST /agents, and four  *)
(* requests of any kind.  Two requests race to open an account while the   *)
(* two others move its balance.                                            *)
(***************************************************************************)
EXTENDS CreditLedger

CONSTANTS browser, registered, c1, c2, c3, c4, nobody, closed

MCAgents == {browser, registered}
MCMinted == {registered}
MCAmounts == {1, 2}
MCCallers == {c1, c2, c3, c4}
=============================================================================
