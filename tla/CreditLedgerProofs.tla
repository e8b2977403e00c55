-------------------------- MODULE CreditLedgerProofs -------------------------
(***************************************************************************)
(* For every set of agents, callers and amounts: LedgerInv is inductive,   *)
(* and the credit store implements Wallet.                                 *)
(***************************************************************************)
EXTENDS CreditLedger, CreditStoreProofs

USE CreditLedgerAssumption

LEMMA InitLedgerInv == Init => LedgerInv
  BY StoreInitInv DEF Init, LedgerInv, TypeOK, StoreInv

\* A caller's own variables keep their types and their links to the tables,
\* since no transaction deletes a row.
LEMMA NextLedgerInv == LedgerInv /\ [Next]_vars => LedgerInv'
<1> SUFFICES ASSUME LedgerInv, [Next]_vars
             PROVE  LedgerInv'
  OBVIOUS
<1> USE DEF LedgerInv
<1>1. ASSUME NEW c \in Callers, NEW a \in Agents, CreateAgent(c, a)
      PROVE  LedgerInv'
  <2>1. StoreInv' BY <1>1, OpenAccountStoreInv DEF CreateAgent
  <2> QED BY <1>1, <2>1 DEF CreateAgent, OpenAccount, Goto, TypeOK, StoreInv
<1>2. ASSUME NEW c \in Callers, NEW a \in Agents, GetOrCreateRead(c, a)
      PROVE  LedgerInv'
  <2>1. StoreInv' BY <1>2, StutterStoreInv DEF GetOrCreateRead, storeVars
  <2> QED BY <1>2, <2>1 DEF GetOrCreateRead, TypeOK, StoreInv
<1>3. ASSUME NEW c \in Callers, GetOrCreateInsert(c)
      PROVE  LedgerInv'
  <2>1. StoreInv' BY <1>3, OpenAccountStoreInv DEF GetOrCreateInsert
  <2> QED BY <1>3, <2>1 DEF GetOrCreateInsert, OpenAccount, Goto, TypeOK, StoreInv
<1>4. ASSUME NEW c \in Callers, NEW a \in Agents, NEW amount \in Amounts,
             TopUp(c, a, amount)
      PROVE  LedgerInv'
  <2>1. StoreInv' BY <1>4, GrantCreditsStoreInv DEF TopUp
  <2> QED BY <1>4, <2>1 DEF TopUp, GrantCredits, Goto, TypeOK, StoreInv
<1>5. ASSUME NEW c \in Callers, NEW a \in Agents, NEW amount \in Amounts,
             Debit(c, a, amount)
      PROVE  LedgerInv'
  <2>1. StoreInv' BY <1>5, ConsumeCreditsStoreInv DEF Debit
  <2> QED
    BY <1>5, <2>1 DEF Debit, ConsumeCredits, Affordable, TypeOK, StoreInv
<1>6. ASSUME NEW c \in Callers, NEW a \in Agents, NEW amount \in Amounts,
             DebitRefused(c, a, amount)
      PROVE  LedgerInv'
  <2>1. StoreInv' BY <1>6, StutterStoreInv DEF DebitRefused, storeVars
  <2> QED BY <1>6, <2>1 DEF DebitRefused, Goto, TypeOK, StoreInv
<1>7. ASSUME NEW c \in Callers, Refund(c)
      PROVE  LedgerInv'
  <2>1. StoreInv' BY <1>7, GrantCreditsStoreInv DEF Refund, RefundCredits
  <2> QED
    BY <1>7, <2>1 DEF Refund, RefundCredits, GrantCredits, TypeOK, StoreInv
<1>8. ASSUME NEW c \in Callers, Keep(c)
      PROVE  LedgerInv'
  <2>1. StoreInv' BY <1>8, StutterStoreInv DEF Keep, storeVars
  <2> QED BY <1>8, <2>1 DEF Keep, TypeOK, StoreInv
<1>9. CASE UNCHANGED vars
  <2>1. StoreInv' BY <1>9, StutterStoreInv DEF vars, storeVars
  <2> QED BY <1>9, <2>1 DEF vars, TypeOK, StoreInv
<1> QED
  BY <1>1, <1>2, <1>3, <1>4, <1>5, <1>6, <1>7, <1>8, <1>9 DEF Next

THEOREM LedgerInvariance == Spec => []LedgerInv
  BY InitLedgerInv, NextLedgerInv, PTL DEF Spec

\* The tables keep their types; in particular no balance is ever negative
\* (the condition of the UPDATE in consume_credits).
THEOREM LedgerTypes == Spec => []TypeOK
<1>1. LedgerInv => TypeOK
  BY DEF LedgerInv
<1> QED
  BY <1>1, LedgerInvariance, PTL

\* The balance of every agent is its free credits plus what was paid in and
\* refunded, less what was debited, under any interleaving of the transactions.
THEOREM BalanceAlwaysFunded == Spec => []BalanceIsFunded
<1>1. LedgerInv => BalanceIsFunded
  BY DEF LedgerInv, StoreInv
<1> QED
  BY <1>1, LedgerInvariance, PTL

\* The newest ledger entry shows the balance of every agent that signed up once.
THEOREM NewestEntryAlwaysBalance == Spec => []NewestEntryIsBalance
<1>1. LedgerInv => NewestEntryIsBalance
  BY DEF LedgerInv, StoreInv
<1> QED
  BY <1>1, LedgerInvariance, PTL

-----------------------------------------------------------------------------
(***************************************************************************)
(* Refinement of Wallet.                                                   *)
(***************************************************************************)

LEMMA WalletInitially == Init => Abstract!WalletInit
  BY DEF Init, StoreInit, Abstract!WalletInit, WalletBalance

\* A second signup transaction is a stutter of the wallet, a first one opens it.
LEMMA OpenAccountIsOpen ==
    ASSUME LedgerInv, NEW a \in Agents, OpenAccount(a)
    PROVE  [Abstract!WalletNext]_WalletBalance
<1>1. CASE a \in rows
  <2>1. rows' = rows /\ credits' = credits
    BY <1>1 DEF OpenAccount
  <2> QED BY <2>1 DEF WalletBalance
<1>2. CASE a \notin rows
  <2>1. WalletBalance[a] = Closed
    BY <1>2 DEF WalletBalance
  <2>2. WalletBalance' = [WalletBalance EXCEPT ![a] = FreeCredits]
    BY <1>2 DEF OpenAccount, WalletBalance, LedgerInv, StoreInv, StoreTypeOK
  <2> QED BY <2>1, <2>2 DEF Abstract!WalletNext, Abstract!Open
<1> QED BY <1>1, <1>2

LEMMA GrantIsDeposit ==
    ASSUME LedgerInv, NEW a \in rows, NEW amount \in Amounts, NEW reason,
           GrantCredits(a, amount, reason)
    PROVE  [Abstract!WalletNext]_WalletBalance
<1>1. a \in Agents /\ WalletBalance[a] = credits[a] /\ credits[a] \in Nat
  BY DEF WalletBalance, LedgerInv, StoreInv, StoreTypeOK
<1>2. WalletBalance' = [WalletBalance EXCEPT ![a] = @ + amount]
  BY <1>1 DEF GrantCredits, WalletBalance, LedgerInv, StoreInv, StoreTypeOK
<1> QED
  BY <1>1, <1>2 DEF Abstract!WalletNext, Abstract!Deposit

LEMMA ConsumeIsWithdraw ==
    ASSUME LedgerInv, NEW a \in Agents, NEW amount \in Amounts, NEW price,
           ConsumeCredits(a, amount, price)
    PROVE  [Abstract!WalletNext]_WalletBalance
<1>1. /\ a \in rows /\ WalletBalance[a] = credits[a] /\ credits[a] \in Nat
      /\ credits[a] >= amount
  BY DEF ConsumeCredits, Affordable, WalletBalance, LedgerInv, StoreInv, StoreTypeOK
<1>2. WalletBalance' = [WalletBalance EXCEPT ![a] = @ - amount]
  BY <1>1 DEF ConsumeCredits, WalletBalance, LedgerInv, StoreInv, StoreTypeOK
<1> QED
  BY <1>1, <1>2 DEF Abstract!WalletNext, Abstract!Withdraw

LEMMA UnchangedWallet == UNCHANGED <<rows, credits>> => UNCHANGED WalletBalance
  BY DEF WalletBalance

LEMMA NextIsWalletNext ==
    LedgerInv /\ [Next]_vars => [Abstract!WalletNext]_WalletBalance
<1> SUFFICES ASSUME LedgerInv, [Next]_vars
             PROVE  [Abstract!WalletNext]_WalletBalance
  OBVIOUS
<1>1. ASSUME NEW c \in Callers, NEW a \in Agents, CreateAgent(c, a)
      PROVE  [Abstract!WalletNext]_WalletBalance
  BY <1>1, OpenAccountIsOpen DEF CreateAgent
<1>2. ASSUME NEW c \in Callers, GetOrCreateInsert(c)
      PROVE  [Abstract!WalletNext]_WalletBalance
  BY <1>2, OpenAccountIsOpen DEF GetOrCreateInsert, LedgerInv
<1>3. ASSUME NEW c \in Callers, NEW a \in Agents, NEW amount \in Amounts,
             TopUp(c, a, amount)
      PROVE  [Abstract!WalletNext]_WalletBalance
  BY <1>3, GrantIsDeposit DEF TopUp
<1>4. ASSUME NEW c \in Callers, NEW a \in Agents, NEW amount \in Amounts,
             Debit(c, a, amount)
      PROVE  [Abstract!WalletNext]_WalletBalance
  BY <1>4, ConsumeIsWithdraw DEF Debit
<1>5. ASSUME NEW c \in Callers, Refund(c)
      PROVE  [Abstract!WalletNext]_WalletBalance
  BY <1>5, GrantIsDeposit DEF Refund, RefundCredits, LedgerInv
<1>6. ASSUME NEW c \in Callers,
             \/ Keep(c)
             \/ \E a \in Agents : GetOrCreateRead(c, a)
             \/ \E a \in Agents, amount \in Amounts : DebitRefused(c, a, amount)
      PROVE  [Abstract!WalletNext]_WalletBalance
  BY <1>6, UnchangedWallet DEF Keep, GetOrCreateRead, DebitRefused
<1>7. CASE UNCHANGED vars
  BY <1>7, UnchangedWallet DEF vars
<1> QED
  BY <1>1, <1>2, <1>3, <1>4, <1>5, <1>6, <1>7 DEF Next

\* Seen from outside the store is a wallet: one opening per agent, then
\* deposits and covered withdrawals of exactly their amounts.
THEOREM StoreImplementsWallet == Spec => ImplementsWallet
  BY WalletInitially, NextIsWalletNext, LedgerInvariance, PTL
  DEF Spec, ImplementsWallet, Abstract!WalletSpec
=============================================================================
