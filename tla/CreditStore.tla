----------------------------- MODULE CreditStore -----------------------------
(***************************************************************************)
(* The part of the SQLite store that holds money: the rows of `agents` and *)
(* the append-only `credit_ledger` (backend/app/db/database.py).           *)
(*                                                                         *)
(* Every write below is one `with transaction()` block of                  *)
(* backend/app/db/repository.py: BEGIN IMMEDIATE takes SQLite's single     *)
(* write lock, so the block is one atomic step and an exception rolls all  *)
(* of it back.  Steps that the code takes outside a transaction are        *)
(* separate actions of the modules that extend this one.                   *)
(*                                                                         *)
(* The ledger's rows are abstracted to what an audit reads from them: the  *)
(* total of each agent's entries per reason, and the balance_after of the  *)
(* agent's newest entry.                                                   *)
(***************************************************************************)
EXTENDS Integers

CONSTANTS
    Agents,       \* agent ids
    FreeCredits   \* settings.x402_free_credits

ASSUME FreeCreditsAssumption == FreeCredits \in Nat

VARIABLES
    rows,         \* ids with a row in `agents`
    credits,      \* agents.credits; 0 without a row, as get_credits answers
    spent,        \* agents.total_spent_xlm, in units of the base price
    posted,       \* posted[a][reason]: sum of |delta| over a's ledger entries
    lastBalance   \* balance_after of a's newest ledger entry

storeVars == <<rows, credits, spent, posted, lastBalance>>

Reasons == {"signup_grant", "payment", "refund", "debit"}

StoreTypeOK ==
    /\ rows \subseteq Agents
    /\ credits \in [Agents -> Nat]
    /\ spent \in [Agents -> Nat]
    /\ posted \in [Agents -> [Reasons -> Nat]]
    /\ lastBalance \in [Agents -> Nat]

StoreInit ==
    /\ rows = {}
    /\ credits = [a \in Agents |-> 0]
    /\ spent = [a \in Agents |-> 0]
    /\ posted = [a \in Agents |-> [r \in Reasons |-> 0]]
    /\ lastBalance = [a \in Agents |-> 0]

-----------------------------------------------------------------------------
(***************************************************************************)
(* The transactions.  An operator whose comment begins with "Slip:" is no  *)
(* part of the model: it is the definition after it with a plausible bug,  *)
(* which the properties are tested against.                                *)
(***************************************************************************)

\* Slip: balance_after read before the UPDATE instead of after it.
PostStale(a, reason, amount, balance) ==
    /\ posted' = [posted EXCEPT ![a][reason] = @ + amount]
    /\ lastBalance' = [lastBalance EXCEPT ![a] = credits[a]]

\* INSERT INTO credit_ledger (delta, balance_after, reason)
Post(a, reason, amount, balance) ==
    /\ posted' = [posted EXCEPT ![a][reason] = @ + amount]
    /\ lastBalance' = [lastBalance EXCEPT ![a] = balance]

\* Slip: INSERT OR REPLACE, so that the second of two openings resets the row.
OpenAccountReplacing(a) ==
    /\ rows' = rows \cup {a}
    /\ credits' = [credits EXCEPT ![a] = FreeCredits]
    /\ Post(a, "signup_grant", FreeCredits, FreeCredits)
    /\ UNCHANGED spent

\* The transaction of create_agent, and of get_or_create_agent once its read
\* found no row.  INSERT OR IGNORE leaves an existing row alone; the signup
\* entry is then written all the same.
OpenAccount(a) ==
    /\ rows' = rows \cup {a}
    /\ credits' = IF a \in rows THEN credits
                  ELSE [credits EXCEPT ![a] = FreeCredits]
    /\ IF FreeCredits > 0
       THEN Post(a, "signup_grant", FreeCredits, FreeCredits)
       ELSE UNCHANGED <<posted, lastBalance>>
    /\ UNCHANGED spent

\* Slip: the UPDATE without its ledger entry.
GrantCreditsSilently(a, amount, reason) ==
    /\ credits' = IF a \in rows THEN [credits EXCEPT ![a] = @ + amount]
                  ELSE credits
    /\ UNCHANGED <<rows, spent, posted, lastBalance>>

\* grant_credits: the UPDATE matches no row when the agent has none, and the
\* entry is then written with a balance of 0.
GrantCredits(a, amount, reason) ==
    /\ credits' = IF a \in rows THEN [credits EXCEPT ![a] = @ + amount]
                  ELSE credits
    /\ Post(a, reason, amount, credits'[a])
    /\ UNCHANGED <<rows, spent>>

\* refund_credit and refund_credits: a grant with the refund's reason.
RefundCredits(a, amount) == GrantCredits(a, amount, "refund")

\* Slip: the balance looked at in Python before the transaction, the UPDATE
\* itself without `AND credits >= ?`.
AffordableUnchecked(a, amount) == a \in rows

\* The condition of the guarded UPDATE in consume_credits.
Affordable(a, amount) == a \in rows /\ credits[a] >= amount

\* consume_credits when the UPDATE matched: debit, ledger entry and the
\* agent's running totals move together.
ConsumeCredits(a, amount, price) ==
    /\ amount > 0
    /\ Affordable(a, amount)
    /\ credits' = [credits EXCEPT ![a] = @ - amount]
    /\ Post(a, "debit", amount, credits'[a])
    /\ spent' = [spent EXCEPT ![a] = @ + price]
    /\ UNCHANGED rows

-----------------------------------------------------------------------------
(***************************************************************************)
(* What an audit computes from the two tables.                             *)
(***************************************************************************)

Funding(a) == FreeCredits + posted[a]["payment"] + posted[a]["refund"]

\* The sum of the deltas of an agent's ledger entries.
LedgerSum(a) ==
    posted[a]["signup_grant"] + posted[a]["payment"] + posted[a]["refund"]
        - posted[a]["debit"]

\* The balance is the free credits, given once, plus what was paid in and
\* refunded, less what was debited: no interleaving of the transactions loses
\* an update, gives the free credits twice or makes an overdraft.  Checked for
\* every module that extends this one.
BalanceIsFunded ==
    \A a \in rows : credits[a] = Funding(a) - posted[a]["debit"]

\* No agent without a row owns money or has a history.
NoRowNoMoney ==
    \A a \in Agents \ rows :
        /\ credits[a] = 0 /\ lastBalance[a] = 0
        /\ \A r \in Reasons : posted[a][r] = 0

\* One signup entry, or none when nothing is given away.
SignedUpOnce(a) == posted[a]["signup_grant"] = FreeCredits

\* The newest ledger entry shows the agent's present balance, provided the
\* signup entry was written only once: every transaction that moves the
\* balance writes the resulting balance in the same commit.
NewestEntryIsBalance ==
    \A a \in rows : SignedUpOnce(a) => lastBalance[a] = credits[a]

\* "The ledger is the audit trail; it must agree with the balance."
\* (backend/tests/test_ledger_concurrency.py:81)
LedgerAgreesWithBalance ==
    \A a \in rows : LedgerSum(a) = credits[a]

\* The inductive invariant of the tables.
StoreInv ==
    /\ StoreTypeOK
    /\ NoRowNoMoney
    /\ BalanceIsFunded
    /\ NewestEntryIsBalance
    /\ \A a \in rows : posted[a]["signup_grant"] >= FreeCredits
=============================================================================
