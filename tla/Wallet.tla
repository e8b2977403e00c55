------------------------------- MODULE Wallet --------------------------------
(***************************************************************************)
(* What the credit store promises its callers, without its tables: an      *)
(* account is opened once with the free credits, and afterwards a deposit  *)
(* or a withdrawal moves one account by exactly its amount.  A withdrawal  *)
(* larger than the balance does not happen at all.                         *)
(***************************************************************************)
EXTENDS Integers

CONSTANTS
    Agents,
    FreeCredits,
    Amounts,      \* the amounts callers ask for
    Closed        \* the balance of an account that was never opened

VARIABLE balance

WalletInit == balance = [a \in Agents |-> Closed]

Open(a) ==
    /\ balance[a] = Closed
    /\ balance' = [balance EXCEPT ![a] = FreeCredits]

Deposit(a, amount) ==
    /\ balance[a] # Closed
    /\ balance' = [balance EXCEPT ![a] = @ + amount]

Withdraw(a, amount) ==
    /\ balance[a] # Closed
    /\ balance[a] >= amount
    /\ balance' = [balance EXCEPT ![a] = @ - amount]

WalletNext ==
    \E a \in Agents :
        \/ Open(a)
        \/ \E amount \in Amounts : Deposit(a, amount) \/ Withdraw(a, amount)

WalletSpec == WalletInit /\ [][WalletNext]_balance
=============================================================================
