-------------------------- MODULE CreditStoreProofs --------------------------
(***************************************************************************)
(* Each transaction of the credit store preserves the invariant of its     *)
(* tables, whoever runs it and whenever.  The proofs about the modules     *)
(* that extend CreditStore cite these lemmas.                              *)
(***************************************************************************)
EXTENDS CreditStore, TLAPS

\* Posting to an agent's ledger adds to one total and leaves all others alone.
LEMMA PostEffect ==
    ASSUME StoreTypeOK, NEW a \in Agents, NEW reason \in Reasons,
           NEW amount \in Nat, NEW balance \in Nat,
           Post(a, reason, amount, balance)
    PROVE  /\ posted' \in [Agents -> [Reasons -> Nat]]
           /\ lastBalance' \in [Agents -> Nat]
           /\ posted'[a][reason] = posted[a][reason] + amount
           /\ \A r \in Reasons \ {reason} : posted'[a][r] = posted[a][r]
           /\ lastBalance'[a] = balance
           /\ \A b \in Agents \ {a} :
                 posted'[b] = posted[b] /\ lastBalance'[b] = lastBalance[b]
  BY DEF Post, StoreTypeOK

\* Opening an account, for the first or the second time.
LEMMA OpenAccountStoreInv ==
    ASSUME StoreInv, NEW a \in Agents, OpenAccount(a)
    PROVE  StoreInv'
<1> USE FreeCreditsAssumption
<1>1. StoreTypeOK /\ NoRowNoMoney /\ BalanceIsFunded /\ NewestEntryIsBalance
  BY DEF StoreInv
<1>2. "signup_grant" \in Reasons
  BY DEF Reasons
<1>3. /\ posted' \in [Agents -> [Reasons -> Nat]]
      /\ lastBalance' \in [Agents -> Nat]
      /\ posted'[a]["signup_grant"] = posted[a]["signup_grant"] + FreeCredits
      /\ \A r \in Reasons \ {"signup_grant"} : posted'[a][r] = posted[a][r]
      /\ FreeCredits > 0 => lastBalance'[a] = FreeCredits
      /\ FreeCredits = 0 => lastBalance'[a] = lastBalance[a]
      /\ \A b \in Agents \ {a} :
            posted'[b] = posted[b] /\ lastBalance'[b] = lastBalance[b]
  <2>1. CASE FreeCredits > 0
    BY <1>1, <1>2, <2>1, PostEffect DEF OpenAccount
  <2>2. CASE FreeCredits = 0
    BY <1>1, <1>2, <2>2 DEF OpenAccount, StoreTypeOK
  <2> QED
    BY <2>1, <2>2
<1>4. StoreTypeOK'
  BY <1>1, <1>3 DEF OpenAccount, StoreTypeOK
<1>5. rows' = rows \cup {a} /\ (a \in rows => credits' = credits)
      /\ (a \notin rows => credits' = [credits EXCEPT ![a] = FreeCredits])
  BY DEF OpenAccount
<1>6. NoRowNoMoney'
  BY <1>1, <1>3, <1>5 DEF NoRowNoMoney, StoreTypeOK
<1>7. ASSUME NEW b \in rows', b # a
      PROVE  /\ credits'[b] = credits[b] /\ b \in rows
             /\ posted'[b] = posted[b] /\ lastBalance'[b] = lastBalance[b]
  BY <1>1, <1>3, <1>5, <1>7 DEF StoreTypeOK
<1>8. CASE a \in rows
  <2>1. credits'[a] = credits[a] BY <1>5, <1>8
  <2>2. posted'[a]["signup_grant"] >= 2 * FreeCredits
    BY <1>1, <1>3, <1>8 DEF StoreInv, StoreTypeOK, Reasons
  <2> QED
    BY <1>1, <1>3, <1>4, <1>5, <1>6, <1>7, <1>8, <2>1, <2>2
    DEF StoreInv, BalanceIsFunded, NewestEntryIsBalance, SignedUpOnce, Funding,
        Reasons, StoreTypeOK
<1>9. CASE a \notin rows
  <2>1. credits'[a] = FreeCredits BY <1>1, <1>5, <1>9 DEF StoreTypeOK
  <2>2. /\ posted'[a]["signup_grant"] = FreeCredits /\ posted'[a]["payment"] = 0
        /\ posted'[a]["refund"] = 0 /\ posted'[a]["debit"] = 0
        /\ lastBalance'[a] = FreeCredits
    BY <1>1, <1>3, <1>9 DEF NoRowNoMoney, Reasons, StoreTypeOK
  <2> QED
    BY <1>1, <1>3, <1>4, <1>5, <1>6, <1>7, <1>9, <2>1, <2>2
    DEF StoreInv, BalanceIsFunded, NewestEntryIsBalance, SignedUpOnce, Funding,
        Reasons, StoreTypeOK
<1> QED
  BY <1>8, <1>9

\* When one agent's balance moves together with its ledger, and its newest
\* entry shows the result, the invariant survives.
LEMMA OneAccountMoves ==
    ASSUME StoreInv, NEW a \in rows, StoreTypeOK', UNCHANGED rows,
           posted'[a]["signup_grant"] = posted[a]["signup_grant"],
           credits'[a] - credits[a] =
               posted'[a]["payment"] - posted[a]["payment"]
               + (posted'[a]["refund"] - posted[a]["refund"])
               - (posted'[a]["debit"] - posted[a]["debit"]),
           lastBalance'[a] = credits'[a],
           \A b \in Agents \ {a} :
               /\ posted'[b] = posted[b] /\ lastBalance'[b] = lastBalance[b]
               /\ credits'[b] = credits[b]
    PROVE  StoreInv'
<1> USE FreeCreditsAssumption
<1>1. StoreTypeOK /\ a \in Agents /\ rows \subseteq Agents
  BY DEF StoreInv, StoreTypeOK
<1>2. NoRowNoMoney'
  BY <1>1 DEF StoreInv, NoRowNoMoney
<1>3. ASSUME NEW b \in rows
      PROVE  /\ credits'[b] = (Funding(b) - posted[b]["debit"])'
             /\ posted'[b]["signup_grant"] >= FreeCredits
             /\ SignedUpOnce(b)' => lastBalance'[b] = credits'[b]
  <2>1. /\ credits[b] = Funding(b) - posted[b]["debit"]
        /\ posted[b]["signup_grant"] >= FreeCredits
        /\ SignedUpOnce(b) => lastBalance[b] = credits[b]
    BY DEF StoreInv, BalanceIsFunded, NewestEntryIsBalance
  <2>2. CASE b = a
    <3>1. \A r \in Reasons : posted[a][r] \in Nat /\ posted'[a][r] \in Nat
      BY <1>1 DEF StoreTypeOK
    <3>2. credits[a] \in Nat /\ credits'[a] \in Nat
      BY <1>1 DEF StoreTypeOK
    <3> QED
      BY <2>1, <2>2, <3>1, <3>2 DEF Funding, Reasons
  <2>3. CASE b # a
    BY <1>1, <2>1, <2>3 DEF Funding, SignedUpOnce
  <2> QED
    BY <2>2, <2>3
<1> QED
  BY <1>2, <1>3 DEF StoreInv, BalanceIsFunded, NewestEntryIsBalance

\* A deposit or a refund to an agent that has a row.
LEMMA GrantCreditsStoreInv ==
    ASSUME StoreInv, NEW a \in rows, NEW amount \in Nat,
           NEW reason \in {"payment", "refund"},
           GrantCredits(a, amount, reason)
    PROVE  StoreInv'
<1> USE FreeCreditsAssumption
<1>1. /\ StoreTypeOK /\ a \in Agents /\ reason \in Reasons
      /\ Reasons = {"signup_grant", "payment", "refund", "debit"}
  BY DEF StoreInv, StoreTypeOK, Reasons
<1>2. /\ credits' = [credits EXCEPT ![a] = @ + amount]
      /\ credits'[a] = credits[a] + amount
      /\ credits' \in [Agents -> Nat]
      /\ UNCHANGED <<rows, spent>>
  BY <1>1 DEF GrantCredits, StoreTypeOK
<1>3. Post(a, reason, amount, credits'[a]) /\ credits'[a] \in Nat
  BY <1>1, <1>2 DEF GrantCredits
<1>4. /\ posted' \in [Agents -> [Reasons -> Nat]]
      /\ lastBalance' \in [Agents -> Nat]
      /\ posted'[a][reason] = posted[a][reason] + amount
      /\ \A r \in Reasons \ {reason} : posted'[a][r] = posted[a][r]
      /\ lastBalance'[a] = credits'[a]
      /\ \A b \in Agents \ {a} :
            posted'[b] = posted[b] /\ lastBalance'[b] = lastBalance[b]
  BY <1>1, <1>3, PostEffect
<1>5. StoreTypeOK'
  BY <1>1, <1>2, <1>4 DEF StoreTypeOK
<1>6. \A b \in Agents \ {a} : credits'[b] = credits[b]
  BY <1>1, <1>2 DEF StoreTypeOK
<1>7. \A r \in Reasons : posted[a][r] \in Nat /\ posted'[a][r] \in Nat
  BY <1>1, <1>5 DEF StoreTypeOK
<1>8. credits[a] \in Nat /\ credits'[a] \in Nat
  BY <1>1, <1>5 DEF StoreTypeOK
<1>9. credits'[a] - credits[a] =
          posted'[a]["payment"] - posted[a]["payment"]
          + (posted'[a]["refund"] - posted[a]["refund"])
          - (posted'[a]["debit"] - posted[a]["debit"])
  BY <1>1, <1>2, <1>4, <1>7, <1>8
<1> QED
  BY <1>1, <1>2, <1>4, <1>5, <1>6, <1>9, OneAccountMoves

\* A debit the balance covers.
LEMMA ConsumeCreditsStoreInv ==
    ASSUME StoreInv, NEW a, NEW amount \in Nat, NEW price \in Nat,
           ConsumeCredits(a, amount, price)
    PROVE  StoreInv'
<1> USE FreeCreditsAssumption
<1>1. /\ StoreTypeOK /\ a \in rows /\ a \in Agents /\ "debit" \in Reasons
      /\ Reasons = {"signup_grant", "payment", "refund", "debit"}
      /\ credits[a] >= amount
  BY DEF StoreInv, StoreTypeOK, Reasons, ConsumeCredits, Affordable
<1>2. /\ credits' = [credits EXCEPT ![a] = @ - amount]
      /\ credits'[a] = credits[a] - amount
      /\ credits' \in [Agents -> Nat]
      /\ spent' \in [Agents -> Nat]
      /\ UNCHANGED rows
  BY <1>1 DEF ConsumeCredits, StoreTypeOK
<1>3. Post(a, "debit", amount, credits'[a]) /\ credits'[a] \in Nat
  BY <1>1, <1>2 DEF ConsumeCredits
<1>4. /\ posted' \in [Agents -> [Reasons -> Nat]]
      /\ lastBalance' \in [Agents -> Nat]
      /\ posted'[a]["debit"] = posted[a]["debit"] + amount
      /\ \A r \in Reasons \ {"debit"} : posted'[a][r] = posted[a][r]
      /\ lastBalance'[a] = credits'[a]
      /\ \A b \in Agents \ {a} :
            posted'[b] = posted[b] /\ lastBalance'[b] = lastBalance[b]
  BY <1>1, <1>3, PostEffect
<1>5. StoreTypeOK'
  BY <1>1, <1>2, <1>4 DEF StoreTypeOK
<1>6. \A b \in Agents \ {a} : credits'[b] = credits[b]
  BY <1>1, <1>2 DEF StoreTypeOK
<1>7. \A r \in Reasons : posted[a][r] \in Nat /\ posted'[a][r] \in Nat
  BY <1>1, <1>5 DEF StoreTypeOK
<1>8. credits[a] \in Nat /\ credits'[a] \in Nat
  BY <1>1, <1>5 DEF StoreTypeOK
<1>9. credits'[a] - credits[a] =
          posted'[a]["payment"] - posted[a]["payment"]
          + (posted'[a]["refund"] - posted[a]["refund"])
          - (posted'[a]["debit"] - posted[a]["debit"])
  BY <1>1, <1>2, <1>4, <1>7, <1>8
<1> QED
  BY <1>1, <1>2, <1>4, <1>5, <1>6, <1>9, OneAccountMoves

\* The empty tables, and a step of the program that leaves the tables alone.
LEMMA StoreInitInv == StoreInit => StoreInv
  BY FreeCreditsAssumption
  DEF StoreInit, StoreInv, StoreTypeOK, NoRowNoMoney, BalanceIsFunded,
      NewestEntryIsBalance

LEMMA StutterStoreInv == StoreInv /\ UNCHANGED storeVars => StoreInv'
  BY DEF storeVars, StoreInv, StoreTypeOK, NoRowNoMoney, BalanceIsFunded,
         NewestEntryIsBalance, SignedUpOnce, Funding
=============================================================================
