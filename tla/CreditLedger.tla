---------------------------- MODULE CreditLedger -----------------------------
(***************************************************************************)
(* Concurrent callers of the credit functions of                           *)
(* backend/app/db/repository.py.  A caller stands for one HTTP request on  *)
(* its own worker thread, with its own SQLite connection; it opens an      *)
(* account, tops one up, or debits one and later either refunds the debit  *)
(* or keeps it.  Settlement and PaidQuery give the same transactions their *)
(* real callers; here they are only raced against each other.              *)
(***************************************************************************)
EXTENDS CreditStore

CONSTANTS
    Minted,    \* ids generated by create_agent; the others browsers choose
    Amounts,   \* amounts granted and debited
    Callers,
    Nobody,    \* the target of a caller that has none
    Closed     \* see Wallet

ASSUME CreditLedgerAssumption ==
    /\ Minted \subseteq Agents
    /\ Amounts \subseteq Nat \ {0}
    /\ Nobody \notin Agents
    /\ Closed \notin Nat

VARIABLES
    pc,       \* pc[c]: where the caller is
    target,   \* target[c]: the agent the caller works for
    charge    \* charge[c]: the debit the caller holds and may still refund

callerVars == <<pc, target, charge>>
vars == <<rows, credits, spent, posted, lastBalance, pc, target, charge>>

TypeOK ==
    /\ StoreTypeOK
    /\ pc \in [Callers -> {"new", "insert", "charged", "done"}]
    /\ target \in [Callers -> Agents \cup {Nobody}]
    /\ charge \in [Callers -> Nat]

Init ==
    /\ StoreInit
    /\ pc = [c \in Callers |-> "new"]
    /\ target = [c \in Callers |-> Nobody]
    /\ charge = [c \in Callers |-> 0]

-----------------------------------------------------------------------------
Goto(c, label) ==
    /\ pc' = [pc EXCEPT ![c] = label]
    /\ UNCHANGED <<target, charge>>

\* POST /agents: the id is freshly generated, nobody else can know it yet.
CreateAgent(c, a) ==
    /\ pc[c] = "new"
    /\ a \in Minted \ rows
    /\ OpenAccount(a)
    /\ Goto(c, "done")

\* The read at the top of get_or_create_agent, outside any transaction.  An id
\* the server mints is asked for only once it exists.
GetOrCreateRead(c, a) ==
    /\ pc[c] = "new"
    /\ a \in Minted => a \in rows
    /\ pc' = [pc EXCEPT ![c] = IF a \in rows THEN "done" ELSE "insert"]
    /\ target' = [target EXCEPT ![c] = a]
    /\ UNCHANGED <<rows, credits, spent, posted, lastBalance, charge>>

\* The transaction of get_or_create_agent, entered on what the read said.
GetOrCreateInsert(c) ==
    /\ pc[c] = "insert"
    /\ OpenAccount(target[c])
    /\ Goto(c, "done")

TopUp(c, a, amount) ==
    /\ pc[c] = "new"
    /\ a \in rows
    /\ GrantCredits(a, amount, "payment")
    /\ Goto(c, "done")

\* consume_credits on an agent that has a row: the paywall let the caller in.
Debit(c, a, amount) ==
    /\ pc[c] = "new"
    /\ ConsumeCredits(a, amount, amount)
    /\ pc' = [pc EXCEPT ![c] = "charged"]
    /\ target' = [target EXCEPT ![c] = a]
    /\ charge' = [charge EXCEPT ![c] = amount]

DebitRefused(c, a, amount) ==
    /\ pc[c] = "new"
    /\ a \in rows
    /\ ~Affordable(a, amount)
    /\ Goto(c, "done")
    /\ UNCHANGED <<rows, credits, spent, posted, lastBalance>>

Refund(c) ==
    /\ pc[c] = "charged"
    /\ RefundCredits(target[c], charge[c])
    /\ pc' = [pc EXCEPT ![c] = "done"]
    /\ charge' = [charge EXCEPT ![c] = 0]
    /\ UNCHANGED target

Keep(c) ==
    /\ pc[c] = "charged"
    /\ pc' = [pc EXCEPT ![c] = "done"]
    /\ charge' = [charge EXCEPT ![c] = 0]
    /\ UNCHANGED <<rows, credits, spent, posted, lastBalance, target>>

Next ==
    \E c \in Callers :
        \/ \E a \in Agents :
              \/ CreateAgent(c, a)
              \/ GetOrCreateRead(c, a)
              \/ \E amount \in Amounts :
                    \/ TopUp(c, a, amount)
                    \/ Debit(c, a, amount)
                    \/ DebitRefused(c, a, amount)
        \/ GetOrCreateInsert(c)
        \/ Refund(c)
        \/ Keep(c)

Spec == Init /\ [][Next]_vars

-----------------------------------------------------------------------------
(***************************************************************************)
(* Properties.                                                             *)
(***************************************************************************)

\* The inductive invariant behind BalanceIsFunded and NewestEntryIsBalance.
LedgerInv ==
    /\ TypeOK
    /\ StoreInv
    /\ \A c \in Callers :
          /\ pc[c] = "insert" => target[c] \in Agents
          /\ pc[c] = "charged" => target[c] \in rows /\ charge[c] \in Amounts

\* The wallet an outside observer sees: balances of the agents with a row.
WalletBalance == [a \in Agents |-> IF a \in rows THEN credits[a] ELSE Closed]

Abstract == INSTANCE Wallet WITH balance <- WalletBalance

\* The store implements the wallet: a second signup transaction for the same
\* agent is invisible in the balance, and every other transaction is exactly
\* one deposit or withdrawal.
ImplementsWallet == Abstract!WalletSpec
=============================================================================
