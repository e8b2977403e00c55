---------------------------- MODULE MCPaidQuery ------------------------------
(***************************************************************************)
(* One agent with a single free credit and another one that may borrow its *)
(* conversation ids; two requests that race for the credit and for the     *)
(* conversation.                                                           *)
(***************************************************************************)
EXTENDS PaidQuery

CONSTANTS a1, a2, q1, q2, v1, v2, nobody

MCAgents == {a1, a2}
MCQueries == {q1, q2}
MCConversations == {v1, v2}
=============================================================================
