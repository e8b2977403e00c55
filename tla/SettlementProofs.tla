--------------------------- MODULE SettlementProofs --------------------------
(***************************************************************************)
(* For every set of agents, challenges, hashes and concurrent requests, and*)
(* any number of crashes: SettlementInv is inductive, so a transaction     *)
(* hash is redeemed once, a payment row always stands for money, and       *)
(* settlement implements Redemption.  Every step of a request brings it    *)
(* nearer to its end, and the bound on challenge ids stops none.           *)
(***************************************************************************)
EXTENDS Settlement, CreditStoreProofs, FiniteSums

USE SettlementAssumption

LEMMA InitSettlementInv == Init => SettlementInv
<1> SUFFICES ASSUME Init PROVE SettlementInv
  OBVIOUS
<1>1. StoreInv BY StoreInitInv DEF Init
<1>2. TypeOK
  BY <1>1 DEF Init, TypeOK, StoreInv, InFlight, Outcomes, Labels
<1> QED
  BY <1>1, <1>2
  DEF Init, SettlementInv, RequestInv, Verifying, RedeemedOnce, PaymentsAreBacked,
      ConsumedIsCredited

(***************************************************************************)
(* How a step of request r may change what the other requests rely on: the *)
(* tables and the network only grow, and only r's own hash is credited.    *)
(***************************************************************************)
Grows(r) ==
    /\ rows \subseteq rows'
    /\ \A c \in Challenges : issuedTo[c] # Nobody => issuedTo'[c] = issuedTo[c]
    /\ submitted \subseteq submitted'
    /\ \A h \in submitted : memo'[h] = memo[h] /\ paid'[h] = paid[h]
    /\ \A h \in Hashes : payer[h] # Nobody =>
          payer'[h] = payer[h] /\ amount'[h] = amount[h] /\ settles'[h] = settles[h]
    /\ \A h \in Hashes :
          receipts'[h] = receipts[h] \/ (pc[r] = "grant" /\ h = hash[r])

OthersRest(r) ==
    \A q \in Requests \ {r} :
        /\ pc'[q] = pc[q] /\ who'[q] = who[q] /\ hash'[q] = hash[q]
        /\ chal'[q] = chal[q] /\ found'[q] = found[q]

\* What was backed stays backed.
LEMMA BackedStable ==
    ASSUME TypeOK, NEW r, Grows(r), NEW h \in Hashes, NEW a \in Agents,
           NEW xlm, NEW c \in Challenges \cup {Nobody}, Backed(h, a, xlm, c)
    PROVE  Backed(h, a, xlm, c)'
  BY DEF TypeOK, Grows, Backed

\* The requests that do not move keep what they have established.
LEMMA OthersKeepInv ==
    ASSUME SettlementInv, NEW r, Grows(r), r \in Requests \/ receipts' = receipts,
           NEW q \in Requests, q # r \/ receipts' = receipts,
           pc'[q] = pc[q], who'[q] = who[q], hash'[q] = hash[q],
           chal'[q] = chal[q], found'[q] = found[q]
    PROVE  RequestInv(q)'
<1>1. TypeOK /\ RequestInv(q) /\ (r \in Requests => RequestInv(r))
  BY DEF SettlementInv
<1>2. pc[q] \in Verifying => who[q] \in Agents /\ hash[q] \in Hashes
  BY <1>1 DEF RequestInv, TypeOK, StoreTypeOK
<1>3. chal[q] \in Challenges \cup {Nobody}
  BY <1>1 DEF TypeOK
<1>4. pc'[q] \in Verifying => who'[q] \in rows' /\ hash'[q] \in Hashes
  BY <1>1 DEF RequestInv, Grows
<1>5. /\ chal'[q] # Nobody => issuedTo'[chal'[q]] # Nobody
      /\ pc'[q] = "verify" /\ chal'[q] # Nobody => issuedTo'[chal'[q]] = who'[q]
  BY <1>1, <1>3 DEF RequestInv, Grows
<1>6. ASSUME pc'[q] = "record"
      PROVE  Backed(hash[q], who[q], found[q], chal[q])'
  <2>1. pc[q] = "record" /\ pc[q] \in Verifying BY <1>1, <1>6 DEF Verifying
  <2>2. Backed(hash[q], who[q], found[q], chal[q]) BY <1>1, <2>1 DEF RequestInv
  <2> QED BY <1>1, <1>2, <1>3, <2>1, <2>2 DEF Backed, Grows, TypeOK
<1>7. ASSUME pc'[q] = "grant"
      PROVE  /\ payer'[hash'[q]] = who'[q] /\ settles'[hash'[q]] = chal'[q]
             /\ amount'[hash'[q]] = found'[q] /\ receipts'[hash'[q]] = 0
  <2>1. pc[q] = "grant" /\ pc[q] \in Verifying BY <1>1, <1>7 DEF Verifying
  <2>2. /\ payer[hash[q]] = who[q] /\ settles[hash[q]] = chal[q]
        /\ amount[hash[q]] = found[q] /\ receipts[hash[q]] = 0
    BY <1>1, <2>1 DEF RequestInv
  <2>3. payer[hash[q]] # Nobody /\ hash[q] \in Hashes
    BY <1>2, <2>1, <2>2
  <2>4. receipts'[hash[q]] = receipts[hash[q]]
    BY <2>1, <2>3 DEF Grows, SettlementInv
  <2> QED BY <1>1, <2>2, <2>3, <2>4 DEF Grows
<1>8. ASSUME pc'[q] = "consume"
      PROVE  /\ chal'[q] # Nobody
             /\ settles'[hash'[q]] = chal'[q] /\ receipts'[hash'[q]] = 1
  <2>1. pc[q] = "consume" /\ pc[q] \in Verifying BY <1>1, <1>8 DEF Verifying
  <2>2. chal[q] # Nobody /\ settles[hash[q]] = chal[q] /\ receipts[hash[q]] = 1
    BY <1>1, <2>1 DEF RequestInv
  <2>3. hash[q] \in Hashes /\ payer[hash[q]] # Nobody
    BY <1>2, <2>1, <2>2 DEF SettlementInv, RedeemedOnce
  <2>4. receipts'[hash[q]] = receipts[hash[q]]
    <3>1. r \in Requests => ~(pc[r] = "grant" /\ hash[q] = hash[r])
      BY <1>1, <2>2 DEF RequestInv
    <3> QED BY <2>3, <3>1 DEF Grows
  <2> QED BY <1>1, <2>2, <2>3, <2>4 DEF Grows
<1> QED
  BY <1>4, <1>5, <1>6, <1>7, <1>8 DEF RequestInv

(***************************************************************************)
(* What is left to show of one step of request r.                          *)
(***************************************************************************)
StepPreserves(r) ==
    /\ TypeOK' /\ StoreInv' /\ RequestInv(r)'
    /\ Grows(r) /\ OthersRest(r)
    /\ pc'[r] = "grant" =>
          \A q \in Requests \ {r} : ~(pc[q] = "grant" /\ hash[q] = hash'[r])
    /\ pc[r] = "grant" => receipts'[hash[r]] <= 1
    /\ \A h \in Hashes : payer[h] = Nobody /\ payer'[h] # Nobody =>
          Backed(h, payer[h], amount[h], settles[h])'
    /\ \A c \in consumed' \ consumed :
          \E h \in Hashes : settles'[h] = c /\ receipts'[h] = 1

LEMMA StepSuffices ==
    ASSUME SettlementInv, NEW r \in Requests, StepPreserves(r)
    PROVE  SettlementInv'
<1>1. /\ TypeOK /\ RedeemedOnce /\ PaymentsAreBacked /\ ConsumedIsCredited
      /\ RequestInv(r) /\ Grows(r) /\ OthersRest(r) /\ TypeOK'
  BY DEF SettlementInv, StepPreserves
<1>2. ASSUME NEW q \in Requests PROVE RequestInv(q)'
  <2>1. CASE q = r BY <2>1 DEF StepPreserves
  <2>2. CASE q # r BY <1>1, <2>2, OthersKeepInv DEF OthersRest
  <2> QED BY <2>1, <2>2
<1>3. ASSUME NEW q \in Requests, NEW s \in Requests,
             pc'[q] = "grant", pc'[s] = "grant", hash'[q] = hash'[s]
      PROVE  q = s
  BY <1>3, <1>1 DEF StepPreserves, OthersRest, SettlementInv
<1>4. pc[r] = "grant" => payer[hash[r]] # Nobody /\ receipts[hash[r]] = 0
  BY <1>1 DEF RequestInv, TypeOK, StoreTypeOK, Verifying
<1>5. RedeemedOnce'
  <2> SUFFICES ASSUME NEW h \in Hashes
               PROVE  receipts'[h] <= 1 /\ (receipts'[h] = 1 => payer'[h] # Nobody)
    BY DEF RedeemedOnce
  <2>1. CASE receipts'[h] = receipts[h]
    BY <1>1, <2>1 DEF RedeemedOnce, Grows
  <2>2. CASE pc[r] = "grant" /\ h = hash[r]
    BY <1>1, <1>4, <2>2 DEF StepPreserves, Grows
  <2> QED BY <1>1, <2>1, <2>2 DEF Grows
<1>6. PaymentsAreBacked'
  <2> SUFFICES ASSUME NEW h \in Hashes, payer'[h] # Nobody
               PROVE  Backed(h, payer[h], amount[h], settles[h])'
    BY DEF PaymentsAreBacked, Backed
  <2>1. CASE payer[h] = Nobody
    BY <2>1 DEF StepPreserves
  <2>2. CASE payer[h] # Nobody
    <3>1. Backed(h, payer[h], amount[h], settles[h])
      BY <1>1, <2>2 DEF PaymentsAreBacked
    <3>2. payer[h] \in Agents /\ settles[h] \in Challenges \cup {Nobody}
      BY <1>1, <2>2 DEF TypeOK
    <3>3. payer'[h] = payer[h] /\ amount'[h] = amount[h] /\ settles'[h] = settles[h]
      BY <1>1, <2>2 DEF Grows
    <3> QED BY <1>1, <3>1, <3>2, <3>3 DEF Backed, Grows, TypeOK
  <2> QED BY <2>1, <2>2
<1>7. ConsumedIsCredited'
  <2> SUFFICES ASSUME NEW c \in consumed'
               PROVE  \E h \in Hashes : settles'[h] = c /\ receipts'[h] = 1
    BY DEF ConsumedIsCredited
  <2>1. CASE c \notin consumed
    BY <2>1 DEF StepPreserves
  <2>2. CASE c \in consumed
    <3>1. PICK h \in Hashes : settles[h] = c /\ receipts[h] = 1
      BY <1>1, <2>2 DEF ConsumedIsCredited
    <3>2. payer[h] # Nobody
      BY <1>1, <3>1 DEF RedeemedOnce
    <3>3. receipts'[h] = receipts[h] /\ settles'[h] = settles[h]
      BY <1>1, <1>4, <3>1, <3>2 DEF Grows
    <3> QED BY <3>1, <3>3
  <2> QED BY <2>1, <2>2
<1> QED
  BY <1>2, <1>3, <1>5, <1>6, <1>7 DEF SettlementInv, StepPreserves

-----------------------------------------------------------------------------
(***************************************************************************)
(* The steps.                                                              *)
(***************************************************************************)

\* A step that leaves the tables and the network alone and ends the request.
LEMMA FinishPreserves ==
    ASSUME SettlementInv, NEW r \in Requests, NEW outcome \in Outcomes,
           Finish(r, outcome),
           UNCHANGED <<storeVars, challengeVars, paymentVars, networkVars, crashes>>,
           pc[r] # "grant"
    PROVE  StepPreserves(r)
<1>1. TypeOK /\ StoreInv BY DEF SettlementInv
<1>2. StoreInv' BY <1>1, StutterStoreInv
<1>3. OthersRest(r) /\ pc'[r] = outcome /\ who'[r] = Nobody /\ chal'[r] = Nobody
  BY <1>1 DEF Finish, OthersRest, TypeOK
<1>4. TypeOK'
  BY <1>1, <1>2 DEF Finish, TypeOK, StoreInv, challengeVars, paymentVars,
     networkVars, InFlight, Labels
<1>5. Grows(r)
  BY DEF Grows, storeVars, challengeVars, paymentVars, networkVars
<1>6. RequestInv(r)'
  BY <1>3 DEF RequestInv, Verifying, Outcomes
<1> QED
  BY <1>2, <1>3, <1>4, <1>5, <1>6
  DEF StepPreserves, Outcomes, challengeVars, paymentVars

\* A step that leaves the tables and the network alone and moves the request on.
LEMMA MovePreserves ==
    ASSUME SettlementInv, NEW r \in Requests, NEW label \in Labels \ Outcomes,
           pc' = [pc EXCEPT ![r] = label], label # "grant", label # "new",
           OthersRest(r), RequestInv(r)',
           who' \in [Requests -> Agents \cup {Nobody}], who'[r] # Nobody,
           hash' \in [Requests -> Hashes \cup {Nobody}],
           chal' \in [Requests -> Challenges \cup {Nobody}],
           found' \in [Requests -> Nat],
           UNCHANGED <<storeVars, challengeVars, paymentVars, networkVars, crashes>>,
           pc[r] # "grant"
    PROVE  StepPreserves(r)
<1>1. TypeOK /\ StoreInv BY DEF SettlementInv
<1>2. StoreInv' BY <1>1, StutterStoreInv
<1>3. pc'[r] = label BY <1>1 DEF TypeOK
<1>4. TypeOK'
  BY <1>1, <1>2, <1>3 DEF OthersRest, TypeOK, StoreInv, challengeVars, paymentVars,
     networkVars, InFlight
<1>5. Grows(r)
  BY DEF Grows, storeVars, challengeVars, paymentVars, networkVars
<1> QED
  BY <1>2, <1>3, <1>4, <1>5 DEF StepPreserves, challengeVars, paymentVars

LEMMA GotoEffect ==
    ASSUME TypeOK, NEW r \in Requests, NEW label, Goto(r, label)
    PROVE  /\ OthersRest(r) /\ pc' = [pc EXCEPT ![r] = label] /\ pc'[r] = label
           /\ who' = who /\ hash' = hash /\ chal' = chal /\ found' = found
  BY DEF Goto, OthersRest, TypeOK

LEMMA ReceivePreserves ==
    ASSUME SettlementInv, NEW r \in Requests, NEW a \in Agents,
           \/ ReceiveUnpaid(r, a)
           \/ \E h \in Hashes \cup {Nobody}, c \in Challenges \cup {Nobody} :
                 Receive(r, a, h, c)
    PROVE  StepPreserves(r)
<1>1. TypeOK /\ RequestInv(r) /\ Nobody \notin Agents
  BY DEF SettlementInv
<1>2. CASE ReceiveUnpaid(r, a)
  <2>1. /\ OthersRest(r) /\ pc'[r] = "find_challenge" /\ who'[r] = a
        /\ who' \in [Requests -> Agents \cup {Nobody}]
    BY <1>1, <1>2 DEF ReceiveUnpaid, OthersRest, TypeOK
  <2>2. RequestInv(r)'
    BY <1>1, <1>2, <2>1 DEF ReceiveUnpaid, RequestInv, Verifying, challengeVars
  <2> QED
    BY <1>1, <1>2, <2>1, <2>2, MovePreserves DEF ReceiveUnpaid, Labels, Outcomes, TypeOK
<1>3. ASSUME NEW h \in Hashes \cup {Nobody}, NEW c \in Challenges \cup {Nobody},
             Receive(r, a, h, c)
      PROVE  StepPreserves(r)
  <2> DEFINE label == IF a \in rows THEN AfterAccount(h) ELSE "open_account"
  <2>1. /\ OthersRest(r) /\ pc'[r] = label /\ who'[r] = a /\ hash'[r] = h /\ chal'[r] = c
        /\ pc' = [pc EXCEPT ![r] = label]
        /\ who' \in [Requests -> Agents \cup {Nobody}]
        /\ hash' \in [Requests -> Hashes \cup {Nobody}]
        /\ chal' \in [Requests -> Challenges \cup {Nobody}]
    BY <1>1, <1>3 DEF Receive, OthersRest, TypeOK
  <2>2. label \in {"open_account", "find_challenge", "check_replay"}
    BY DEF AfterAccount
  <2>3. RequestInv(r)'
    BY <1>1, <1>3, <2>1
    DEF Receive, RequestInv, Verifying, AfterAccount, challengeVars, storeVars
  <2> HIDE DEF label
  <2> QED
    BY <1>1, <1>3, <2>1, <2>2, <2>3, MovePreserves
    DEF Receive, Labels, Outcomes, TypeOK
<1> QED
  BY <1>2, <1>3

\* The reads before the payment row: find_open_challenge, payment_exists,
\* get_challenge and the verification itself.
LEMMA ReadsPreserve ==
    ASSUME SettlementInv, NEW r \in Requests,
           \/ FindChallenge(r) \/ CheckReplay(r) \/ CheckChallenge(r)
           \/ VerifySandbox(r) \/ VerifyOnChain(r)
    PROVE  StepPreserves(r)
<1>1. /\ TypeOK /\ RequestInv(r)
      /\ pc[r] # "grant" /\ who[r] # Nobody
      /\ UNCHANGED <<storeVars, challengeVars, paymentVars, networkVars, crashes>>
      /\ "answered" \in Outcomes /\ "rejected" \in Outcomes
  BY DEF SettlementInv, FindChallenge, CheckReplay, CheckChallenge, VerifySandbox,
     VerifyOnChain, TypeOK, InFlight, Outcomes
<1>2. ASSUME NEW outcome \in Outcomes, Finish(r, outcome)
      PROVE  StepPreserves(r)
  BY <1>1, <1>2, FinishPreserves
<1>3. CASE FindChallenge(r) /\ Goto(r, "mint_challenge")
  <2>1. RequestInv(r)'
    BY <1>1, <1>3, GotoEffect DEF FindChallenge, RequestInv, Verifying, challengeVars
  <2> QED
    BY <1>1, <1>3, <2>1, GotoEffect, MovePreserves DEF TypeOK, Labels, Outcomes
<1>4. CASE CheckReplay(r) /\ Goto(r, "check_challenge")
  <2>1. RequestInv(r)'
    BY <1>1, <1>4, GotoEffect
    DEF CheckReplay, RequestInv, Verifying, challengeVars, storeVars
  <2> QED
    BY <1>1, <1>4, <2>1, GotoEffect, MovePreserves DEF TypeOK, Labels, Outcomes
<1>5. CASE /\ CheckChallenge(r) /\ Goto(r, "verify")
           /\ chal[r] = Nobody \/ MayRedeem(who[r], chal[r])
  <2>1. RequestInv(r)'
    BY <1>1, <1>5, GotoEffect
    DEF CheckChallenge, MayRedeem, RequestInv, Verifying, challengeVars, storeVars
  <2> QED
    BY <1>1, <1>5, <2>1, GotoEffect, MovePreserves DEF TypeOK, Labels, Outcomes
<1>6. ASSUME NEW xlm \in Nat, pc[r] = "verify", Verified(r, xlm),
             Backed(hash[r], who[r], xlm, chal[r])
      PROVE  StepPreserves(r)
  <2>1. /\ OthersRest(r) /\ pc' = [pc EXCEPT ![r] = "record"] /\ pc'[r] = "record"
        /\ who' = who /\ hash' = hash /\ chal' = chal /\ found'[r] = xlm
        /\ found' \in [Requests -> Nat]
    BY <1>1, <1>6 DEF Verified, OthersRest, TypeOK
  <2>2. Backed(hash[r], who[r], found[r], chal[r])'
    BY <1>1, <1>6, <2>1 DEF Backed, challengeVars, networkVars
  <2>3. RequestInv(r)'
    BY <1>1, <1>6, <2>1, <2>2 DEF RequestInv, Verifying, challengeVars, storeVars
  <2> QED
    BY <1>1, <2>1, <2>3, MovePreserves DEF TypeOK, Labels, Outcomes
<1>7. CASE VerifySandbox(r) /\ SandboxMode /\ Verified(r, Price)
  <2>1. Backed(hash[r], who[r], Price, chal[r])
    BY <1>1, <1>7 DEF VerifySandbox, Backed, RequestInv
  <2> QED BY <1>6, <1>7, <2>1 DEF VerifySandbox
<1>8. CASE VerifyOnChain(r) /\ SettledOnChain(hash[r], chal[r])
           /\ Verified(r, paid[hash[r]])
  <2>1. paid[hash[r]] \in Nat /\ pc[r] = "verify"
    BY <1>1, <1>8 DEF VerifyOnChain, RequestInv, Verifying, TypeOK
  <2>2. Backed(hash[r], who[r], paid[hash[r]], chal[r])
    BY <1>1, <1>8 DEF VerifyOnChain, SettledOnChain, Backed, RequestInv
  <2> QED BY <1>6, <1>8, <2>1, <2>2
<1> QED
  BY <1>1, <1>2, <1>3, <1>4, <1>5, <1>7, <1>8
  DEF FindChallenge, CheckReplay, CheckChallenge, VerifySandbox, VerifyOnChain

LEMMA OpenPayerPreserves ==
    ASSUME SettlementInv, NEW r \in Requests, OpenPayer(r)
    PROVE  StepPreserves(r)
<1>1. /\ TypeOK /\ StoreInv /\ RequestInv(r) /\ who[r] \in Agents
      /\ pc[r] = "open_account"
  BY DEF SettlementInv, OpenPayer, TypeOK, InFlight, Outcomes
<1>2. StoreInv' BY <1>1, OpenAccountStoreInv DEF OpenPayer
<1>3. /\ OthersRest(r) /\ pc'[r] = AfterAccount(hash[r])
      /\ pc' = [pc EXCEPT ![r] = AfterAccount(hash[r])]
      /\ who' = who /\ hash' = hash /\ chal' = chal /\ found' = found
  BY <1>1, GotoEffect DEF OpenPayer
<1>4. rows' = rows \cup {who[r]} BY DEF OpenPayer, OpenAccount
<1>5. Grows(r)
  BY <1>4 DEF Grows, OpenPayer, challengeVars, paymentVars, networkVars
<1>6. AfterAccount(hash[r]) \in {"find_challenge", "check_replay"}
  BY DEF AfterAccount
<1>7. TypeOK'
  BY <1>1, <1>2, <1>3, <1>6
  DEF OpenPayer, TypeOK, StoreInv, challengeVars, paymentVars, networkVars,
      InFlight, Outcomes, Labels
<1>8. RequestInv(r)'
  BY <1>1, <1>3, <1>4
  DEF OpenPayer, AfterAccount, RequestInv, Verifying, TypeOK, challengeVars
<1> QED
  BY <1>1, <1>2, <1>3, <1>5, <1>6, <1>7, <1>8
  DEF StepPreserves, OpenPayer, challengeVars, paymentVars

LEMMA MintChallengePreserves ==
    ASSUME SettlementInv, NEW r \in Requests, MintChallenge(r)
    PROVE  StepPreserves(r)
<1>1. TypeOK /\ StoreInv /\ pc[r] = "mint_challenge" /\ "answered" \in Outcomes
  BY DEF SettlementInv, MintChallenge, Outcomes
<1>2. StoreInv' BY <1>1, StutterStoreInv DEF MintChallenge
<1>3. OthersRest(r) /\ pc'[r] = "answered" /\ who'[r] = Nobody /\ chal'[r] = Nobody
  BY <1>1 DEF MintChallenge, Finish, OthersRest, TypeOK
<1>4. Grows(r)
  BY <1>1 DEF Grows, MintChallenge, storeVars, paymentVars, networkVars, TypeOK
<1>5. TypeOK'
  <2>1. who[r] \in Agents
    BY <1>1 DEF TypeOK, InFlight, Outcomes
  <2> QED
    BY <1>1, <1>2, <2>1
    DEF MintChallenge, Finish, TypeOK, StoreInv, paymentVars, networkVars, InFlight,
        Labels
<1>6. RequestInv(r)'
  BY <1>3 DEF RequestInv, Verifying
<1> QED
  BY <1>1, <1>2, <1>3, <1>4, <1>5, <1>6
  DEF StepPreserves, MintChallenge, paymentVars

\* Only the request that finds no row goes on to the grant.
LEMMA RecordPaymentPreserves ==
    ASSUME SettlementInv, NEW r \in Requests, RecordPayment(r)
    PROVE  StepPreserves(r)
<1>1. /\ TypeOK /\ StoreInv /\ RequestInv(r) /\ pc[r] = "record"
      /\ "error" \in Outcomes
  BY DEF SettlementInv, RecordPayment, Outcomes
<1>2. /\ hash[r] \in Hashes /\ who[r] \in rows /\ who[r] \in Agents
      /\ Backed(hash[r], who[r], found[r], chal[r])
      /\ found[r] \in Nat /\ chal[r] \in Challenges \cup {Nobody}
  BY <1>1 DEF RequestInv, Verifying, TypeOK, StoreTypeOK
<1>3. CASE payer[hash[r]] # Nobody /\ Finish(r, "error")
           /\ UNCHANGED <<payer, amount, settles>>
  BY <1>1, <1>3, FinishPreserves DEF RecordPayment, paymentVars
<1>4. CASE /\ payer[hash[r]] = Nobody
           /\ payer' = [payer EXCEPT ![hash[r]] = who[r]]
           /\ amount' = [amount EXCEPT ![hash[r]] = found[r]]
           /\ settles' = [settles EXCEPT ![hash[r]] = chal[r]]
           /\ Goto(r, "grant")
  <2>1. /\ OthersRest(r) /\ pc' = [pc EXCEPT ![r] = "grant"] /\ pc'[r] = "grant"
        /\ who' = who /\ hash' = hash /\ chal' = chal /\ found' = found
    BY <1>1, <1>4, GotoEffect
  <2>2. UNCHANGED <<storeVars, challengeVars, receipts, networkVars, crashes>>
    BY DEF RecordPayment
  <2>3. StoreInv' BY <1>1, <2>2, StutterStoreInv
  <2>4. TypeOK'
    BY <1>1, <1>2, <1>4, <2>1, <2>2, <2>3
    DEF TypeOK, StoreInv, challengeVars, networkVars, InFlight, Outcomes, Labels
  <2>5. Grows(r)
    BY <1>1, <1>4, <2>2 DEF Grows, TypeOK, storeVars, challengeVars, networkVars
  <2>6. /\ payer'[hash[r]] = who[r] /\ amount'[hash[r]] = found[r]
        /\ settles'[hash[r]] = chal[r] /\ receipts' = receipts
    BY <1>1, <1>2, <1>4, <2>2 DEF TypeOK
  <2>7. receipts[hash[r]] = 0
    BY <1>1, <1>2, <1>4 DEF SettlementInv, RedeemedOnce, TypeOK
  <2>8. RequestInv(r)'
    BY <1>1, <1>2, <2>1, <2>2, <2>6, <2>7
    DEF RequestInv, Verifying, challengeVars, storeVars
  <2>9. \A q \in Requests \ {r} : ~(pc[q] = "grant" /\ hash[q] = hash'[r])
    BY <1>4, <2>1 DEF SettlementInv, RequestInv, Verifying, TypeOK, StoreTypeOK
  <2>10. ASSUME NEW h \in Hashes, payer[h] = Nobody, payer'[h] # Nobody
         PROVE  Backed(h, payer[h], amount[h], settles[h])'
    <3>1. h = hash[r] BY <1>1, <1>4, <2>10 DEF TypeOK
    <3> QED
      BY <1>2, <2>2, <2>6, <3>1 DEF Backed, challengeVars, networkVars
  <2> QED
    BY <1>1, <2>1, <2>2, <2>3, <2>4, <2>5, <2>8, <2>9, <2>10
    DEF StepPreserves, challengeVars
<1> QED
  BY <1>3, <1>4 DEF RecordPayment

LEMMA GrantPaymentPreserves ==
    ASSUME SettlementInv, NEW r \in Requests, GrantPayment(r)
    PROVE  StepPreserves(r)
<1>1. /\ TypeOK /\ StoreInv /\ RequestInv(r) /\ pc[r] = "grant"
      /\ UNCHANGED <<challengeVars, payer, amount, settles, networkVars, crashes>>
  BY DEF SettlementInv, GrantPayment
<1>2. /\ who[r] \in rows /\ hash[r] \in Hashes /\ who[r] # Nobody
      /\ chal[r] # Nobody => issuedTo[chal[r]] # Nobody
      /\ settles[hash[r]] = chal[r] /\ receipts[hash[r]] = 0
  BY <1>1 DEF RequestInv, Verifying, TypeOK, StoreTypeOK
<1>3. CreditsFor(found[r]) \in Nat
  <2>1. found[r] \in Nat BY <1>1 DEF TypeOK
  <2>2. found[r] \div Price \in Nat BY <2>1
  <2> QED BY <2>2 DEF CreditsFor
<1>4. StoreInv' /\ rows' = rows
  BY <1>1, <1>2, <1>3, GrantCreditsStoreInv DEF GrantPayment, GrantCredits
<1>5. receipts' = [receipts EXCEPT ![hash[r]] = 1] /\ receipts'[hash[r]] = 1
  BY <1>1, <1>2 DEF GrantPayment, TypeOK
<1>6. Grows(r)
  BY <1>1, <1>4, <1>5 DEF Grows, TypeOK, challengeVars, networkVars
<1>7. CASE chal[r] = Nobody /\ Finish(r, "answered")
  <2>1. OthersRest(r) /\ pc'[r] = "answered" /\ who'[r] = Nobody /\ chal'[r] = Nobody
    BY <1>1, <1>7 DEF Finish, OthersRest, TypeOK
  <2>2. TypeOK'
    BY <1>1, <1>4, <1>5, <1>7
    DEF Finish, TypeOK, StoreInv, challengeVars, networkVars, InFlight, Labels, Outcomes
  <2>3. RequestInv(r)'
    BY <2>1 DEF RequestInv, Verifying
  <2> QED
    BY <1>1, <1>4, <1>5, <1>6, <2>1, <2>2, <2>3 DEF StepPreserves, challengeVars
<1>8. CASE chal[r] # Nobody /\ Goto(r, "consume")
  <2>1. /\ OthersRest(r) /\ pc' = [pc EXCEPT ![r] = "consume"] /\ pc'[r] = "consume"
        /\ who' = who /\ hash' = hash /\ chal' = chal /\ found' = found
    BY <1>1, <1>8, GotoEffect
  <2>2. TypeOK'
    BY <1>1, <1>2, <1>4, <1>5, <2>1
    DEF TypeOK, StoreInv, challengeVars, networkVars, InFlight, Labels, Outcomes
  <2>3. RequestInv(r)'
    BY <1>1, <1>2, <1>4, <1>5, <1>8, <2>1 DEF RequestInv, Verifying, challengeVars
  <2> QED
    BY <1>1, <1>4, <1>5, <1>6, <2>1, <2>2, <2>3 DEF StepPreserves, challengeVars
<1> QED
  BY <1>7, <1>8 DEF GrantPayment

LEMMA ConsumeChallengePreserves ==
    ASSUME SettlementInv, NEW r \in Requests, ConsumeChallenge(r)
    PROVE  StepPreserves(r)
<1>1. /\ TypeOK /\ StoreInv /\ RequestInv(r) /\ pc[r] = "consume"
      /\ UNCHANGED <<storeVars, issuedTo, expired, paymentVars, networkVars, crashes>>
      /\ consumed' = consumed \cup {chal[r]} /\ Finish(r, "answered")
  BY DEF SettlementInv, ConsumeChallenge
<1>2. /\ hash[r] \in Hashes /\ chal[r] \in Challenges
      /\ settles[hash[r]] = chal[r] /\ receipts[hash[r]] = 1
  BY <1>1 DEF RequestInv, Verifying, TypeOK
<1>3. StoreInv' BY <1>1, StutterStoreInv
<1>4. OthersRest(r) /\ pc'[r] = "answered" /\ who'[r] = Nobody /\ chal'[r] = Nobody
  BY <1>1 DEF Finish, OthersRest, TypeOK
<1>5. TypeOK'
  BY <1>1, <1>2, <1>3
  DEF Finish, TypeOK, StoreInv, paymentVars, networkVars, InFlight, Labels, Outcomes
<1>6. Grows(r)
  BY <1>1 DEF Grows, storeVars, paymentVars, networkVars
<1>7. RequestInv(r)'
  BY <1>4 DEF RequestInv, Verifying
<1>8. \A c \in consumed' \ consumed :
         \E h \in Hashes : settles'[h] = c /\ receipts'[h] = 1
  BY <1>1, <1>2 DEF paymentVars
<1> QED
  BY <1>1, <1>3, <1>4, <1>5, <1>6, <1>7, <1>8 DEF StepPreserves, paymentVars

\* What happens around the requests: each of them rests, or has none of its
\* local variables any more.
LEMMA SurroundingsPreserve ==
    ASSUME SettlementInv, TypeOK', Grows(Nobody),
           UNCHANGED <<storeVars, paymentVars, consumed>>,
           \A q \in Requests :
              \/ /\ pc'[q] = pc[q] /\ who'[q] = who[q] /\ hash'[q] = hash[q]
                 /\ chal'[q] = chal[q] /\ found'[q] = found[q]
              \/ pc'[q] \notin Verifying /\ chal'[q] = Nobody
    PROVE  SettlementInv'
<1>1. TypeOK /\ StoreInv /\ PaymentsAreBacked BY DEF SettlementInv
<1>2. StoreInv' BY <1>1, StutterStoreInv
<1>3. ASSUME NEW q \in Requests PROVE RequestInv(q)'
  <2>1. CASE /\ pc'[q] = pc[q] /\ who'[q] = who[q] /\ hash'[q] = hash[q]
             /\ chal'[q] = chal[q] /\ found'[q] = found[q]
    BY <2>1, OthersKeepInv DEF paymentVars
  <2>2. CASE pc'[q] \notin Verifying /\ chal'[q] = Nobody
    BY <2>2 DEF RequestInv, Verifying
  <2> QED BY <2>1, <2>2
<1>4. \A q, s \in Requests :
         pc'[q] = "grant" /\ pc'[s] = "grant" /\ hash'[q] = hash'[s] => q = s
  BY DEF SettlementInv, Verifying
<1>5. PaymentsAreBacked'
  <2> SUFFICES ASSUME NEW h \in Hashes, payer'[h] # Nobody
               PROVE  Backed(h, payer[h], amount[h], settles[h])'
    BY DEF PaymentsAreBacked, Backed
  <2>1. Backed(h, payer[h], amount[h], settles[h]) /\ payer[h] \in Agents
    BY <1>1 DEF PaymentsAreBacked, TypeOK, paymentVars
  <2> QED BY <1>1, <2>1 DEF Backed, Grows, TypeOK, paymentVars
<1> QED
  BY <1>2, <1>3, <1>4, <1>5
  DEF SettlementInv, RedeemedOnce, ConsumedIsCredited, paymentVars

LEMMA SubmitPreserves ==
    ASSUME SettlementInv, NEW h \in Hashes, NEW c \in Challenges \cup {Nobody},
           NEW xlm \in Paid, Submit(h, c, xlm)
    PROVE  SettlementInv'
<1>1. TypeOK /\ StoreInv BY DEF SettlementInv
<1>2. StoreInv' BY <1>1, StutterStoreInv DEF Submit
<1>3. TypeOK'
  BY <1>1, <1>2
  DEF Submit, TypeOK, StoreInv, challengeVars, paymentVars, requestVars, InFlight
<1>4. Grows(Nobody)
  BY <1>1 DEF Submit, Grows, TypeOK, storeVars, challengeVars, paymentVars
<1> QED
  BY <1>3, <1>4, SurroundingsPreserve DEF Submit, challengeVars, requestVars

LEMMA ExpirePreserves ==
    ASSUME SettlementInv, NEW c \in Challenges, Expire(c)
    PROVE  SettlementInv'
<1>1. TypeOK /\ StoreInv BY DEF SettlementInv
<1>2. StoreInv' BY <1>1, StutterStoreInv DEF Expire
<1>3. TypeOK'
  BY <1>1, <1>2
  DEF Expire, TypeOK, StoreInv, networkVars, paymentVars, requestVars, InFlight
<1>4. Grows(Nobody)
  BY DEF Expire, Grows, storeVars, networkVars, paymentVars
<1> QED
  BY <1>3, <1>4, SurroundingsPreserve DEF Expire, requestVars

LEMMA CrashPreserves ==
    ASSUME SettlementInv, Crash
    PROVE  SettlementInv'
<1>1. TypeOK /\ StoreInv BY DEF SettlementInv
<1>2. StoreInv' BY <1>1, StutterStoreInv DEF Crash
<1>3. TypeOK'
  BY <1>1, <1>2
  DEF Crash, TypeOK, StoreInv, networkVars, paymentVars, challengeVars, InFlight,
      Outcomes, Labels
<1>4. Grows(Nobody)
  BY DEF Crash, Grows, storeVars, challengeVars, networkVars, paymentVars
<1>5. ASSUME NEW q \in Requests
      PROVE  pc'[q] \notin Verifying /\ chal'[q] = Nobody
  BY <1>1 DEF Crash, TypeOK, InFlight, Outcomes, Verifying
<1> QED
  BY <1>3, <1>4, <1>5, SurroundingsPreserve DEF Crash, challengeVars

-----------------------------------------------------------------------------
LEMMA EachStepPreserves ==
    ASSUME SettlementInv, NEW r \in Requests, Step(r)
    PROVE  StepPreserves(r)
  BY OpenPayerPreserves, MintChallengePreserves, ReadsPreserve,
     RecordPaymentPreserves, GrantPaymentPreserves, ConsumeChallengePreserves
  DEF Step

LEMMA NextSettlementInv == SettlementInv /\ [Next]_vars => SettlementInv'
<1> SUFFICES ASSUME SettlementInv, [Next]_vars PROVE SettlementInv'
  OBVIOUS
<1>1. ASSUME NEW r \in Requests, Step(r) PROVE SettlementInv'
  BY <1>1, StepSuffices, EachStepPreserves
<1>2. ASSUME NEW r \in Requests, NEW a \in Agents,
             \/ ReceiveUnpaid(r, a)
             \/ \E h \in Hashes \cup {Nobody}, c \in Challenges \cup {Nobody} :
                   Receive(r, a, h, c)
      PROVE  SettlementInv'
  BY <1>2, StepSuffices, ReceivePreserves
<1>3. ASSUME UNCHANGED vars PROVE SettlementInv'
  <2>1. StoreInv' BY <1>3, StutterStoreInv DEF vars, storeVars, SettlementInv
  <2>2. TypeOK' BY <1>3, <2>1 DEF vars, SettlementInv, TypeOK, StoreInv, InFlight
  <2>3. Grows(Nobody) BY <1>3 DEF vars, Grows
  <2> QED
    BY <1>3, <2>2, <2>3, SurroundingsPreserve DEF vars, storeVars, paymentVars
<1> QED
  BY <1>1, <1>2, <1>3, SubmitPreserves, ExpirePreserves, CrashPreserves DEF Next

\* Types, the store's invariant and what every request has established hold in
\* every reachable state, whatever the number of agents, challenges, hashes,
\* requests and crashes.
THEOREM SettlementInvariance == Spec => []SettlementInv
  BY InitSettlementInv, NextSettlementInv, PTL DEF Spec

\* The tables keep their types and a request in flight knows its agent.
THEOREM SettlementTypes == Spec => []TypeOK
<1>1. SettlementInv => TypeOK BY DEF SettlementInv
<1> QED BY <1>1, SettlementInvariance, PTL

\* A transaction hash buys credits at most once (verify_payment).
THEOREM RedeemedAtMostOnce == Spec => []RedeemedOnce
<1>1. SettlementInv => RedeemedOnce BY DEF SettlementInv
<1> QED BY <1>1, SettlementInvariance, PTL

\* Every row of `payments` stands for money that reached the account
\* (verify_payment, _verify_on_chain, _verify_sandbox).
THEOREM PaymentsAlwaysBacked == Spec => []PaymentsAreBacked
<1>1. SettlementInv => PaymentsAreBacked BY DEF SettlementInv
<1> QED BY <1>1, SettlementInvariance, PTL

\* A challenge is marked as redeemed only after a payment that names it was
\* credited (consume_challenge comes last in verify_payment).
THEOREM ConsumedAlwaysCredited == Spec => []ConsumedIsCredited
<1>1. SettlementInv => ConsumedIsCredited BY DEF SettlementInv
<1> QED BY <1>1, SettlementInvariance, PTL

-----------------------------------------------------------------------------
(***************************************************************************)
(* Payment rows without their credits.                                     *)
(***************************************************************************)

\* As long as the tables are left alone, and the requests that are about to
\* grant stay there, every row keeps its request.
LEMMA GrantersRest ==
    ASSUME UncreditedIsInFlight, UNCHANGED <<payer, receipts, crashes>>,
           \A q \in Requests : pc[q] = "grant" => pc'[q] = "grant" /\ hash'[q] = hash[q]
    PROVE  UncreditedIsInFlight'
  BY DEF UncreditedIsInFlight

\* The request that wrote the row is the one that will credit it.
LEMMA RecordedIsInFlight ==
    ASSUME SettlementInv, UncreditedIsInFlight, NEW r \in Requests,
           RecordPayment(r), payer[hash[r]] = Nobody
    PROVE  UncreditedIsInFlight'
<1>1. /\ pc[r] = "record" /\ OthersRest(r) /\ pc'[r] = "grant" /\ hash'[r] = hash[r]
  BY GotoEffect DEF RecordPayment, SettlementInv
<1>2. payer' = [payer EXCEPT ![hash[r]] = who[r]] /\ UNCHANGED <<receipts, crashes>>
  BY DEF RecordPayment
<1> SUFFICES ASSUME NEW h \in Hashes, payer'[h] # Nobody, receipts'[h] = 0
             PROVE  crashes' > 0 \/ \E q \in Requests : pc'[q] = "grant" /\ hash'[q] = h
  BY DEF UncreditedIsInFlight
<1>3. CASE h = hash[r]
  BY <1>1, <1>3
<1>4. CASE h # hash[r]
  <2>1. payer[h] # Nobody /\ receipts[h] = 0
    BY <1>2, <1>4 DEF SettlementInv, TypeOK
  <2> QED BY <1>1, <1>2, <2>1 DEF UncreditedIsInFlight, OthersRest
<1> QED BY <1>3, <1>4

\* The only row whose request goes on is the one that now has its credits.
LEMMA GrantedIsCredited ==
    ASSUME SettlementInv, UncreditedIsInFlight, NEW r \in Requests, GrantPayment(r)
    PROVE  UncreditedIsInFlight'
<1>1. StepPreserves(r) BY GrantPaymentPreserves
<1>2. /\ pc[r] = "grant" /\ OthersRest(r) /\ UNCHANGED <<payer, crashes>>
      /\ receipts' = [receipts EXCEPT ![hash[r]] = @ + 1]
  BY <1>1 DEF StepPreserves, GrantPayment
<1>3. hash[r] \in Hashes /\ receipts[hash[r]] = 0
  BY <1>2 DEF SettlementInv, RequestInv, Verifying
<1> SUFFICES ASSUME NEW h \in Hashes, payer'[h] # Nobody, receipts'[h] = 0
             PROVE  crashes' > 0 \/ \E q \in Requests : pc'[q] = "grant" /\ hash'[q] = h
  BY DEF UncreditedIsInFlight
<1>4. h # hash[r] /\ receipts[h] = 0
  BY <1>2, <1>3 DEF SettlementInv, TypeOK
<1>5. PICK q \in Requests : crashes > 0 \/ (pc[q] = "grant" /\ hash[q] = h)
  BY <1>2, <1>4 DEF UncreditedIsInFlight
<1> QED BY <1>2, <1>4, <1>5 DEF OthersRest

LEMMA NextUncredited ==
    SettlementInv /\ UncreditedIsInFlight /\ [Next]_vars => UncreditedIsInFlight'
<1> SUFFICES ASSUME SettlementInv, UncreditedIsInFlight, [Next]_vars
             PROVE  UncreditedIsInFlight'
  OBVIOUS
<1>1. ASSUME NEW r \in Requests, Step(r) PROVE UncreditedIsInFlight'
  <2>1. CASE GrantPayment(r) BY <2>1, GrantedIsCredited
  <2>2. CASE RecordPayment(r) /\ payer[hash[r]] = Nobody
    BY <2>2, RecordedIsInFlight
  <2>3. CASE ~GrantPayment(r) /\ ~(RecordPayment(r) /\ payer[hash[r]] = Nobody)
    <3>1. pc[r] # "grant" /\ UNCHANGED <<payer, receipts, crashes>>
      BY <1>1, <2>3
      DEF Step, OpenPayer, FindChallenge, MintChallenge, CheckReplay, CheckChallenge,
          VerifySandbox, VerifyOnChain, RecordPayment, ConsumeChallenge, paymentVars
    <3>2. OthersRest(r) BY <1>1, EachStepPreserves DEF StepPreserves
    <3> QED BY <3>1, <3>2, GrantersRest DEF OthersRest
  <2> QED BY <2>1, <2>2, <2>3
<1>2. ASSUME NEW r \in Requests, NEW a \in Agents,
             \/ ReceiveUnpaid(r, a)
             \/ \E h \in Hashes \cup {Nobody}, c \in Challenges \cup {Nobody} :
                   Receive(r, a, h, c)
      PROVE  UncreditedIsInFlight'
  <2>1. OthersRest(r) BY <1>2, ReceivePreserves DEF StepPreserves
  <2>2. pc[r] # "grant" /\ UNCHANGED <<payer, receipts, crashes>>
    BY <1>2 DEF ReceiveUnpaid, Receive, paymentVars
  <2> QED BY <2>1, <2>2, GrantersRest DEF OthersRest
<1>3. CASE Crash
  <2>1. crashes' > 0 BY <1>3 DEF Crash, SettlementInv, TypeOK
  <2> QED BY <2>1 DEF UncreditedIsInFlight
<1>4. ASSUME \/ \E h \in Hashes, c \in Challenges \cup {Nobody}, xlm \in Paid :
                   Submit(h, c, xlm)
             \/ \E c \in Challenges : Expire(c)
             \/ UNCHANGED vars
      PROVE  UncreditedIsInFlight'
  <2>1. UNCHANGED <<pc, hash, payer, receipts, crashes>>
    BY <1>4 DEF Submit, Expire, vars, paymentVars, requestVars
  <2> QED BY <2>1, GrantersRest
<1> QED
  BY <1>1, <1>2, <1>3, <1>4 DEF Next

\* verify_payment leaves a payment row without its credits only in a crash: as
\* long as the server stays up, the request that wrote the row is on its way to
\* grant_credits.
THEOREM UncreditedAlwaysInFlight == Spec => []UncreditedIsInFlight
<1>1. Init => UncreditedIsInFlight
  BY DEF Init, UncreditedIsInFlight
<1> QED
  BY <1>1, NextUncredited, SettlementInvariance, PTL DEF Spec

-----------------------------------------------------------------------------
(***************************************************************************)
(* The ledger and the payment rows.                                        *)
(***************************************************************************)

\* The rows of an agent can be added up, and come to what its ledger says.
Reconciled ==
    /\ CreditsMatchPayments
    /\ \A a \in Agents : IsFiniteSet(PaymentsOf(a))

LEMMA CreditsForType ==
    ASSUME NEW xlm \in Nat
    PROVE  CreditsFor(xlm) \in Nat
<1>1. xlm \div Price \in Nat OBVIOUS
<1> QED BY <1>1 DEF CreditsFor

LEMMA BoughtType ==
    ASSUME TypeOK
    PROVE  Bought \in [Hashes -> Nat]
<1>1. ASSUME NEW h \in Hashes PROVE CreditsFor(amount[h]) * receipts[h] \in Nat
  <2>1. CreditsFor(amount[h]) \in Nat /\ receipts[h] \in Nat
    BY CreditsForType DEF TypeOK
  <2> HIDE DEF CreditsFor
  <2> QED BY <2>1
<1> QED BY <1>1 DEF Bought

\* A step that touches neither side.
LEMMA LedgerRests ==
    ASSUME Reconciled, UNCHANGED <<payer, amount, receipts>>,
           \A a \in Agents : posted'[a]["payment"] = posted[a]["payment"]
    PROVE  Reconciled'
<1>1. Bought' = Bought /\ \A a \in Agents : PaymentsOf(a)' = PaymentsOf(a)
  BY DEF Bought, PaymentsOf, CreditsFor
<1> QED BY <1>1 DEF Reconciled, CreditsMatchPayments

\* A new row has brought nothing yet.
LEMMA RecordedIsReconciled ==
    ASSUME SettlementInv, Reconciled, NEW r \in Requests,
           RecordPayment(r), payer[hash[r]] = Nobody
    PROVE  Reconciled'
<1>1. /\ TypeOK /\ pc[r] = "record" /\ StepPreserves(r)
      /\ payer' = [payer EXCEPT ![hash[r]] = who[r]]
      /\ amount' = [amount EXCEPT ![hash[r]] = found[r]]
      /\ UNCHANGED <<storeVars, receipts>>
  BY RecordPaymentPreserves DEF RecordPayment, SettlementInv
<1>2. /\ hash[r] \in Hashes /\ found[r] \in Nat /\ receipts[hash[r]] = 0
      /\ who[r] \in Agents
  <2>1. hash[r] \in Hashes /\ who[r] \in rows
    BY <1>1 DEF SettlementInv, RequestInv, Verifying
  <2>2. found[r] \in Nat /\ who[r] \in Agents
    BY <1>1, <2>1 DEF TypeOK, StoreTypeOK
  <2>3. receipts[hash[r]] = 0
    BY <1>1, <2>1 DEF SettlementInv, RedeemedOnce, TypeOK
  <2> QED BY <2>1, <2>2, <2>3
<1>3. Bought \in [Hashes -> Nat] /\ Bought' \in [Hashes -> Nat]
  <2>1. TypeOK' BY <1>1 DEF StepPreserves
  <2>2. \A h \in Hashes : CreditsFor(amount'[h]) * receipts'[h] \in Nat
    <3>1. \A h \in Hashes : CreditsFor(amount'[h]) \in Nat /\ receipts'[h] \in Nat
      BY <2>1, CreditsForType DEF TypeOK
    <3> HIDE DEF CreditsFor
    <3> QED BY <3>1
  <2> QED BY <1>1, <2>2, BoughtType DEF Bought, CreditsFor
<1>4. Bought'[hash[r]] = 0
  <2>1. Bought'[hash[r]] = CreditsFor(found[r]) * 0
    BY <1>1, <1>2 DEF Bought, TypeOK, CreditsFor
  <2> QED BY <1>2, <2>1, CreditsForType
<1>5. \A h \in Hashes : h # hash[r] => Bought'[h] = Bought[h]
  BY <1>1 DEF Bought, TypeOK, CreditsFor
<1>6. ASSUME NEW a \in Agents
      PROVE  /\ posted'[a]["payment"] = SumFunctionOnSet(Bought, PaymentsOf(a))'
             /\ IsFiniteSet(PaymentsOf(a))'
  <2> DEFINE T == PaymentsOf(a)
             h == hash[r]
             b == Bought'
  <2>1. IsFiniteSet(T) /\ posted[a]["payment"] = SumFunctionOnSet(Bought, T)
    BY DEF Reconciled, CreditsMatchPayments
  <2>2. T \subseteq Hashes /\ h \notin T /\ posted' = posted
    BY <1>1, <1>2 DEF PaymentsOf, storeVars
  <2>3. T' = IF a = who[r] THEN T \cup {h} ELSE T
    BY <1>1, <1>2 DEF PaymentsOf, TypeOK
  <2>4. SumFunctionOnSet(Bought, T) = SumFunctionOnSet(b, T)
    <3>1. \A x \in T : Bought[x] \in Int /\ Bought[x] = b[x]
      BY <1>3, <1>5, <2>2
    <3> HIDE DEF T, b
    <3> QED BY <2>1, <3>1, SumOfEqual
  <2>5. CASE a # who[r]
    BY <2>1, <2>2, <2>3, <2>4, <2>5
  <2>6. CASE a = who[r]
    <3>1. \A x \in T \cup {h} : b[x] \in Int
      BY <1>2, <1>3, <2>2
    <3>2. /\ IsFiniteSet(T \cup {h}) /\ SumFunctionOnSet(b, T) \in Int
          /\ SumFunctionOnSet(b, T \cup {h}) = b[h] + SumFunctionOnSet(b, T)
      <4> HIDE DEF T, h, b
      <4> QED BY <2>1, <2>2, <3>1, SumWith
    <3>3. SumFunctionOnSet(b, T \cup {h}) = SumFunctionOnSet(b, T)
      BY <1>4, <3>2
    <3> QED BY <2>1, <2>2, <2>3, <2>4, <2>6, <3>2, <3>3
  <2> QED BY <2>5, <2>6
<1> QED BY <1>6 DEF Reconciled, CreditsMatchPayments

\* The grant brings the row's credits into the ledger and the row into the sum.
LEMMA GrantedIsReconciled ==
    ASSUME SettlementInv, Reconciled, NEW r \in Requests, GrantPayment(r)
    PROVE  Reconciled'
<1>1. /\ TypeOK /\ pc[r] = "grant" /\ UNCHANGED <<payer, amount>>
      /\ GrantCredits(who[r], CreditsFor(found[r]), "payment")
      /\ receipts' = [receipts EXCEPT ![hash[r]] = @ + 1]
  BY DEF GrantPayment, SettlementInv
<1>2. /\ hash[r] \in Hashes /\ who[r] \in Agents /\ payer[hash[r]] = who[r]
      /\ amount[hash[r]] = found[r] /\ receipts[hash[r]] = 0
  BY <1>1 DEF SettlementInv, RequestInv, Verifying, TypeOK, StoreTypeOK
<1>3. CreditsFor(found[r]) \in Nat
  <2>1. found[r] \in Nat BY <1>1 DEF TypeOK
  <2> QED BY <2>1, CreditsForType
<1>4. /\ posted'[who[r]]["payment"] = posted[who[r]]["payment"] + CreditsFor(found[r])
      /\ \A a \in Agents : a # who[r] => posted'[a] = posted[a]
  BY <1>1, <1>2 DEF GrantCredits, Post, TypeOK, StoreTypeOK, Reasons
<1>5. Bought \in [Hashes -> Nat] /\ Bought[hash[r]] = 0
  <2>1. Bought[hash[r]] = CreditsFor(found[r]) * 0
    BY <1>2 DEF Bought
  <2>2. CreditsFor(found[r]) * 0 = 0
    <3> HIDE DEF CreditsFor
    <3> QED BY <1>3
  <2> QED BY <1>1, <2>1, <2>2, BoughtType
<1>6. Bought' = [Bought EXCEPT ![hash[r]] = CreditsFor(found[r])]
  <2>1. receipts'[hash[r]] = 1
    BY <1>1, <1>2 DEF TypeOK
  <2>2. Bought'[hash[r]] = CreditsFor(found[r]) * 1
    BY <1>1, <1>2, <2>1 DEF Bought, CreditsFor
  <2>3. CreditsFor(found[r]) * 1 = CreditsFor(found[r])
    <3> HIDE DEF CreditsFor
    <3> QED BY <1>3
  <2>4. \A h \in Hashes : h # hash[r] => Bought'[h] = Bought[h]
    BY <1>1 DEF Bought, TypeOK, CreditsFor
  <2>5. Bought' = [h \in Hashes |-> Bought'[h]]
    BY DEF Bought
  <2> QED BY <1>5, <2>2, <2>3, <2>4, <2>5
<1>7. ASSUME NEW a \in Agents
      PROVE  /\ posted'[a]["payment"] = SumFunctionOnSet(Bought, PaymentsOf(a))'
             /\ IsFiniteSet(PaymentsOf(a))'
  <2> DEFINE T == PaymentsOf(a)
             h == hash[r]
             n == CreditsFor(found[r])
             v == Bought
             w == [Bought EXCEPT ![hash[r]] = CreditsFor(found[r])]
  <2>1. /\ IsFiniteSet(T) /\ posted[a]["payment"] = SumFunctionOnSet(v, T)
        /\ T' = T /\ T \subseteq Hashes
    BY <1>1 DEF Reconciled, CreditsMatchPayments, PaymentsOf
  <2>2. /\ \A x \in T : v[x] \in Int /\ w[x] \in Int /\ (x # h => w[x] = v[x])
        /\ w[h] = n /\ v[h] = 0 /\ n \in Nat
    BY <1>2, <1>3, <1>5, <2>1
  <2>3. CASE a # who[r]
    <3>1. h \notin T BY <1>2, <2>3 DEF PaymentsOf
    <3>2. SumFunctionOnSet(v, T) = SumFunctionOnSet(w, T)
      <4> HIDE DEF T, h, n, v, w
      <4> QED BY <2>1, <2>2, <3>1, SumOfEqual
    <3> QED BY <1>4, <1>6, <2>1, <2>3, <3>2
  <2>4. CASE a = who[r]
    <3>1. h \in T BY <1>2, <2>4 DEF PaymentsOf
    <3>2. SumFunctionOnSet(w, T) = SumFunctionOnSet(v, T) + n
      <4> HIDE DEF T, h, n, v, w
      <4>1. IsFiniteSet(T \ {h}) BY <2>1, FS_RemoveElement
      <4>2. SumFunctionOnSet(v, T \ {h}) = SumFunctionOnSet(w, T \ {h})
        BY <2>2, <4>1, SumOfEqual
      <4>3. /\ SumFunctionOnSet(v, T) = v[h] + SumFunctionOnSet(v, T \ {h})
            /\ SumFunctionOnSet(w, T) = w[h] + SumFunctionOnSet(w, T \ {h})
        BY <2>1, <2>2, <3>1, SumWithout
      <4>4. SumFunctionOnSet(v, T \ {h}) \in Int
        BY <2>2, <4>1, SumIsInt
      <4> QED BY <2>2, <4>2, <4>3, <4>4
    <3> QED BY <1>4, <1>6, <2>1, <2>4, <3>2
  <2> QED BY <2>3, <2>4
<1> QED BY <1>7 DEF Reconciled, CreditsMatchPayments

LEMMA NextReconciled == SettlementInv /\ Reconciled /\ [Next]_vars => Reconciled'
<1> SUFFICES ASSUME SettlementInv, Reconciled, [Next]_vars
             PROVE  Reconciled'
  OBVIOUS
<1>1. ASSUME NEW r \in Requests, Step(r) PROVE Reconciled'
  <2>1. CASE GrantPayment(r) BY <2>1, GrantedIsReconciled
  <2>2. CASE RecordPayment(r) /\ payer[hash[r]] = Nobody
    BY <2>2, RecordedIsReconciled
  <2>3. CASE OpenPayer(r)
    <3>1. /\ StoreTypeOK /\ UNCHANGED <<payer, amount, receipts>>
          /\ OpenAccount(who[r])
      BY <2>3 DEF OpenPayer, paymentVars, SettlementInv, TypeOK
    <3>2. \A a \in Agents : posted'[a]["payment"] = posted[a]["payment"]
      BY <3>1 DEF OpenAccount, Post, StoreTypeOK, Reasons
    <3> QED BY <3>1, <3>2, LedgerRests
  <2>4. CASE /\ ~GrantPayment(r) /\ ~OpenPayer(r)
             /\ ~(RecordPayment(r) /\ payer[hash[r]] = Nobody)
    <3>1. UNCHANGED <<posted, payer, amount, receipts>>
      BY <1>1, <2>4
      DEF Step, FindChallenge, MintChallenge, CheckReplay, CheckChallenge,
          VerifySandbox, VerifyOnChain, RecordPayment, ConsumeChallenge, paymentVars,
          storeVars
    <3> QED BY <3>1, LedgerRests
  <2> QED BY <2>1, <2>2, <2>3, <2>4
<1>2. ASSUME NEW r \in Requests, NEW a \in Agents,
             \/ ReceiveUnpaid(r, a)
             \/ \E h \in Hashes \cup {Nobody}, c \in Challenges \cup {Nobody} :
                   Receive(r, a, h, c)
      PROVE  Reconciled'
  <2>1. UNCHANGED <<posted, payer, amount, receipts>>
    BY <1>2 DEF ReceiveUnpaid, Receive, paymentVars, storeVars
  <2> QED BY <2>1, LedgerRests
<1>3. ASSUME \/ \E h \in Hashes, c \in Challenges \cup {Nobody}, xlm \in Paid :
                   Submit(h, c, xlm)
             \/ \E c \in Challenges : Expire(c)
             \/ Crash
             \/ UNCHANGED vars
      PROVE  Reconciled'
  <2>1. UNCHANGED <<posted, payer, amount, receipts>>
    BY <1>3 DEF Submit, Expire, Crash, vars, paymentVars, storeVars
  <2> QED BY <2>1, LedgerRests
<1> QED
  BY <1>1, <1>2, <1>3 DEF Next

\* The books balance: what the ledger says an agent paid for (grant_credits with
\* the reason "payment") is the sum over its payment rows, in proportion to the
\* amounts (_credits_for), in every reachable state and for any number of rows.
THEOREM CreditsAlwaysMatchPayments == Spec => []CreditsMatchPayments
<1>1. Init => Reconciled
  <2> SUFFICES ASSUME Init, NEW a \in Agents
               PROVE  /\ posted[a]["payment"] = SumFunctionOnSet(Bought, PaymentsOf(a))
                      /\ IsFiniteSet(PaymentsOf(a))
    BY DEF Reconciled, CreditsMatchPayments
  <2>1. PaymentsOf(a) = {} /\ posted[a]["payment"] = 0
    BY DEF Init, StoreInit, PaymentsOf, Reasons
  <2>2. SumFunctionOnSet(Bought, {}) = 0
    BY SumOfEmpty
  <2> QED BY <2>1, <2>2, FS_EmptySet
<1>2. Reconciled => CreditsMatchPayments
  BY DEF Reconciled
<1> QED
  BY <1>1, <1>2, NextReconciled, SettlementInvariance, PTL DEF Spec

-----------------------------------------------------------------------------
(***************************************************************************)
(* Refinement.                                                             *)
(***************************************************************************)
LEMMA InitRedemption == Init => Abstract!RedemptionInit
  BY DEF Init, Abstract!RedemptionInit

\* Every step redeems a hash nobody owned, credits an owned one that was not
\* credited before, or leaves both alone.
LEMMA NextRedemption ==
    SettlementInv /\ [Next]_vars =>
        [Abstract!RedemptionNext]_(Abstract!abstractVars)
<1> SUFFICES ASSUME SettlementInv, [Next]_vars
             PROVE  [Abstract!RedemptionNext]_(Abstract!abstractVars)
  OBVIOUS
<1>1. TypeOK BY DEF SettlementInv
<1>2. CASE UNCHANGED <<payer, receipts>>
  BY <1>2 DEF Abstract!abstractVars
<1>3. ASSUME NEW r \in Requests, RecordPayment(r), payer[hash[r]] = Nobody
      PROVE  Abstract!RedemptionNext
  <2>1. /\ hash[r] \in Hashes /\ who[r] \in Agents
        /\ payer' = [payer EXCEPT ![hash[r]] = who[r]]
    BY <1>1, <1>3
    DEF RecordPayment, SettlementInv, RequestInv, Verifying, TypeOK, StoreTypeOK
  <2>2. receipts' = receipts BY <1>3 DEF RecordPayment
  <2> QED
    BY <1>3, <2>1, <2>2 DEF Abstract!RedemptionNext, Abstract!Redeem
<1>4. ASSUME NEW r \in Requests, GrantPayment(r)
      PROVE  Abstract!RedemptionNext
  <2>1. /\ RequestInv(r) /\ pc[r] = "grant" /\ payer' = payer
        /\ receipts' = [receipts EXCEPT ![hash[r]] = @ + 1]
    BY <1>4 DEF SettlementInv, GrantPayment
  <2>2. /\ hash[r] \in Hashes /\ who[r] \in Agents
        /\ payer[hash[r]] = who[r] /\ receipts[hash[r]] = 0
    BY <1>1, <2>1 DEF RequestInv, Verifying, TypeOK, StoreTypeOK
  <2>3. payer[hash[r]] # Nobody /\ receipts' = [receipts EXCEPT ![hash[r]] = 1]
    BY <1>1, <2>1, <2>2 DEF TypeOK
  <2>4. {h \in Hashes : receipts'[h] > 0} = {h \in Hashes : receipts[h] > 0} \cup {hash[r]}
    BY <1>1, <2>2, <2>3 DEF TypeOK
  <2> QED
    BY <2>1, <2>2, <2>3, <2>4 DEF Abstract!RedemptionNext, Abstract!Credit
<1>5. CASE UNCHANGED vars
  BY <1>2, <1>5 DEF vars
<1>6. ASSUME NEW r \in Requests, Step(r), ~GrantPayment(r),
             ~(RecordPayment(r) /\ payer[hash[r]] = Nobody)
      PROVE  UNCHANGED <<payer, receipts>>
  BY <1>6
  DEF Step, OpenPayer, FindChallenge, MintChallenge, CheckReplay, CheckChallenge,
      VerifySandbox, VerifyOnChain, RecordPayment, ConsumeChallenge, paymentVars
<1>7. ASSUME NEW r \in Requests, NEW a \in Agents,
             \/ ReceiveUnpaid(r, a)
             \/ \E h \in Hashes \cup {Nobody}, c \in Challenges \cup {Nobody} :
                   Receive(r, a, h, c)
      PROVE  UNCHANGED <<payer, receipts>>
  BY <1>7 DEF ReceiveUnpaid, Receive, paymentVars
<1>8. ASSUME \/ \E h \in Hashes, c \in Challenges \cup {Nobody}, xlm \in Paid :
                   Submit(h, c, xlm)
             \/ \E c \in Challenges : Expire(c)
             \/ Crash
      PROVE  UNCHANGED <<payer, receipts>>
  BY <1>8 DEF Submit, Expire, Crash, paymentVars
<1> QED
  BY <1>2, <1>3, <1>4, <1>5, <1>6, <1>7, <1>8 DEF Next

\* verify_payment implements Redemption: each hash is redeemed for one agent
\* and credited after that, once.
THEOREM SettlementImplementsRedemption == Spec => ImplementsRedemption
<1>1. Spec => Abstract!RedemptionInit /\ [][Abstract!RedemptionNext]_(Abstract!abstractVars)
  BY InitRedemption, NextRedemption, SettlementInvariance, PTL DEF Spec
<1> QED
  BY <1>1 DEF ImplementsRedemption, Abstract!RedemptionSpec

-----------------------------------------------------------------------------
(***************************************************************************)
(* Towards the end of every request: what of the liveness properties can be*)
(* said without fairness.                                                  *)
(***************************************************************************)

\* How many steps a request has before it at the most.
StepsLeft(label) ==
    IF label \in Outcomes THEN 0
    ELSE IF label = "mint_challenge" THEN 1
    ELSE IF label = "find_challenge" THEN 2
    ELSE IF label = "consume" THEN 1
    ELSE IF label = "grant" THEN 2
    ELSE IF label = "record" THEN 3
    ELSE IF label = "verify" THEN 4
    ELSE IF label = "check_challenge" THEN 5
    ELSE IF label = "check_replay" THEN 6
    ELSE IF label = "open_account" THEN 7
    ELSE 8

\* A request only goes forward, and a step of its own takes it forward.
Advances(r) ==
    /\ pc'[r] # pc[r] => StepsLeft(pc'[r]) < StepsLeft(pc[r])
    /\ Step(r) => pc'[r] # pc[r]

\* No step of anybody puts a request back, and each of its own steps brings it
\* nearer to its end: no statement of the handler is retried or repeated.
RequestsAdvance == [][\A r \in Requests : Advances(r)]_vars

LEMMA EachStepAdvances ==
    ASSUME TypeOK, NEW r \in Requests, Step(r)
    PROVE  StepsLeft(pc'[r]) < StepsLeft(pc[r])
<1>1. \/ pc[r] = "open_account" /\ pc'[r] \in {"find_challenge", "check_replay"}
      \/ pc[r] = "find_challenge" /\ pc'[r] \in {"answered", "mint_challenge"}
      \/ pc[r] = "mint_challenge" /\ pc'[r] = "answered"
      \/ pc[r] = "check_replay" /\ pc'[r] \in {"rejected", "check_challenge"}
      \/ pc[r] = "check_challenge" /\ pc'[r] \in {"rejected", "verify"}
      \/ pc[r] = "verify" /\ pc'[r] \in {"rejected", "record"}
      \/ pc[r] = "record" /\ pc'[r] \in {"error", "grant"}
      \/ pc[r] = "grant" /\ pc'[r] \in {"answered", "consume"}
      \/ pc[r] = "consume" /\ pc'[r] = "answered"
  BY DEF Step, OpenPayer, FindChallenge, MintChallenge, CheckReplay, CheckChallenge,
     VerifySandbox, VerifyOnChain, Verified, RecordPayment, GrantPayment,
     ConsumeChallenge, Goto, Finish, AfterAccount, TypeOK
<1> QED
  BY <1>1 DEF StepsLeft, Outcomes

\* A step of one request leaves the others where they are.
LEMMA OthersWait ==
    ASSUME TypeOK, NEW r \in Requests, NEW s \in Requests \ {r},
           \/ Step(s)
           \/ \E a \in Agents :
                 \/ ReceiveUnpaid(s, a)
                 \/ \E h \in Hashes \cup {Nobody}, c \in Challenges \cup {Nobody} :
                       Receive(s, a, h, c)
    PROVE  pc'[r] = pc[r]
  BY DEF Step, OpenPayer, FindChallenge, MintChallenge, CheckReplay, CheckChallenge,
     VerifySandbox, VerifyOnChain, Verified, RecordPayment, GrantPayment,
     ConsumeChallenge, Goto, Finish, ReceiveUnpaid, Receive, TypeOK

LEMMA NextAdvances == TypeOK /\ [Next]_vars => [\A r \in Requests : Advances(r)]_vars
<1> SUFFICES ASSUME TypeOK, Next, NEW r \in Requests
             PROVE  Advances(r)
  OBVIOUS
<1>1. Step(r) => StepsLeft(pc'[r]) < StepsLeft(pc[r])
  BY EachStepAdvances
<1>2. StepsLeft(pc[r]) \in Nat
  BY DEF StepsLeft
<1>3. CASE Step(r)
  BY <1>1, <1>2, <1>3 DEF Advances
<1>4. CASE ~Step(r)
  <2>1. ASSUME NEW a \in Agents,
               \/ ReceiveUnpaid(r, a)
               \/ \E h \in Hashes \cup {Nobody}, c \in Challenges \cup {Nobody} :
                     Receive(r, a, h, c)
        PROVE  StepsLeft(pc'[r]) < StepsLeft(pc[r])
    <3>1. pc[r] = "new" /\ pc'[r] \in {"open_account", "find_challenge", "check_replay"}
      BY <2>1 DEF ReceiveUnpaid, Receive, AfterAccount, TypeOK
    <3> QED
      BY <3>1 DEF StepsLeft, Outcomes
  <2>2. ASSUME \/ \E h \in Hashes, c \in Challenges \cup {Nobody}, xlm \in Paid :
                     Submit(h, c, xlm)
               \/ \E c \in Challenges : Expire(c)
        PROVE  pc'[r] = pc[r]
    BY <2>2 DEF Submit, Expire, requestVars
  <2>3. ASSUME Crash, pc'[r] # pc[r]
        PROVE  StepsLeft(pc'[r]) < StepsLeft(pc[r])
    <3>1. pc'[r] = "lost" /\ pc[r] \in Labels \ (Outcomes \cup {"new"})
      BY <2>3 DEF Crash, InFlight, TypeOK
    <3> QED
      BY <3>1 DEF StepsLeft, Outcomes, Labels
  <2> QED
    BY <1>4, <2>1, <2>2, <2>3, OthersWait DEF Next, Advances
<1> QED
  BY <1>3, <1>4

\* A request of payments.py has taken eight steps at the most when it ends,
\* whatever the others do: no loop, and nothing that is tried again.
THEOREM RequestsAlwaysAdvance == Spec => RequestsAdvance
  BY SettlementTypes, NextAdvances, PTL DEF Spec, RequestsAdvance

-----------------------------------------------------------------------------
(***************************************************************************)
(* The challenge ids do not run out.                                       *)
(***************************************************************************)
\* The requests that may have to mint a challenge, and the ids left for them.
Asking == {r \in Requests : who[r] # Nobody /\ hash[r] = Nobody}
Unissued == {c \in Challenges : issuedTo[c] = Nobody}

\* There is an id for each of them, and no request that redeems a transaction
\* is among them.
IdsCounted ==
    /\ Cardinality(Asking) <= Cardinality(Unissued)
    /\ \A r \in Requests :
          pc[r] \in {"new", "find_challenge", "mint_challenge"} => hash[r] = Nobody

\* get_or_create_challenge finds an id that nobody was issued.
FreshIdsSuffice ==
    \A r \in Requests :
        pc[r] \in {"find_challenge", "mint_challenge"} =>
            \E c \in Challenges : issuedTo[c] = Nobody

LEMMA CountedSubset ==
    ASSUME NEW S, IsFiniteSet(S), NEW T, T \subseteq S
    PROVE  /\ IsFiniteSet(T) /\ Cardinality(T) \in Nat /\ Cardinality(S) \in Nat
           /\ Cardinality(T) <= Cardinality(S)
  BY FS_Subset, FS_CardinalityType

LEMMA InitIdsCounted ==
    ASSUME IsFiniteSet(Requests), IsFiniteSet(Challenges), Init
    PROVE  IdsCounted
<1>1. Asking = {} /\ Unissued \subseteq Challenges
  BY DEF Init, Asking, Unissued
<1>2. Cardinality(Asking) = 0 /\ Cardinality(Unissued) \in Nat
  BY <1>1, CountedSubset, FS_EmptySet
<1>3. \A r \in Requests : hash[r] = Nobody
  BY DEF Init
<1> QED
  BY <1>2, <1>3 DEF IdsCounted

LEMMA AskingIsFinite ==
    ASSUME IsFiniteSet(Requests), IsFiniteSet(Challenges)
    PROVE  /\ IsFiniteSet(Asking) /\ Cardinality(Asking) \in Nat
           /\ IsFiniteSet(Unissued) /\ Cardinality(Unissued) \in Nat
<1>1. Asking \subseteq Requests /\ Unissued \subseteq Challenges
  BY DEF Asking, Unissued
<1> QED
  BY <1>1, CountedSubset

\* A request that arrives finds an id, and with it one more to spare.
LEMMA ArrivalsAreCounted ==
    ASSUME IsFiniteSet(Requests), IsFiniteSet(Challenges), NEW r \in Requests,
           Cardinality(Asking) <= Cardinality(Unissued),
           Asking' \subseteq Asking \cup {r}, r \notin Asking' \/ IdsLeft,
           UNCHANGED issuedTo
    PROVE  Cardinality(Asking') <= Cardinality(Unissued')
<1>1. /\ IsFiniteSet(Asking) /\ Cardinality(Asking) \in Nat
      /\ Cardinality(Unissued) \in Nat /\ Unissued' = Unissued
  BY AskingIsFinite DEF Unissued
<1>2. CASE r \notin Asking'
  <2>1. Asking' \subseteq Asking
    BY <1>2
  <2>2. Cardinality(Asking') <= Cardinality(Asking) /\ Cardinality(Asking') \in Nat
    BY <1>1, <2>1, CountedSubset
  <2> QED
    BY <1>1, <2>2
<1>3. CASE IdsLeft
  <2>1. Cardinality(Asking) < Cardinality(Unissued)
    BY <1>3 DEF IdsLeft, Asking, Unissued
  <2>2. /\ IsFiniteSet(Asking \cup {r})
        /\ Cardinality(Asking \cup {r}) <= Cardinality(Asking) + 1
    <3>1. /\ IsFiniteSet(Asking \cup {r})
          /\ Cardinality(Asking \cup {r}) =
                IF r \in Asking THEN Cardinality(Asking) ELSE Cardinality(Asking) + 1
      BY <1>1, FS_AddElement
    <3> QED
      BY <1>1, <3>1
  <2>3. /\ Cardinality(Asking') <= Cardinality(Asking \cup {r})
        /\ Cardinality(Asking') \in Nat /\ Cardinality(Asking \cup {r}) \in Nat
    BY <2>2, CountedSubset
  <2> QED
    BY <1>1, <2>1, <2>2, <2>3
<1> QED
  BY <1>2, <1>3

\* A request that takes the fresh id is done with asking.
LEMMA MintsAreCounted ==
    ASSUME IsFiniteSet(Requests), IsFiniteSet(Challenges), TypeOK, IdsCounted,
           NEW r \in Requests, MintChallenge(r)
    PROVE  Cardinality(Asking') <= Cardinality(Unissued')
<1>1. /\ IsFiniteSet(Asking) /\ Cardinality(Asking) \in Nat
      /\ IsFiniteSet(Unissued) /\ Cardinality(Unissued) \in Nat
  BY AskingIsFinite
<1>2. PICK c \in Challenges : /\ issuedTo[c] = Nobody
                              /\ issuedTo' = [issuedTo EXCEPT ![c] = who[r]]
  BY DEF MintChallenge
<1>3. r \in Asking /\ Asking' = Asking \ {r}
  BY DEF MintChallenge, Finish, Asking, IdsCounted, TypeOK, InFlight, Outcomes
<1>4. c \in Unissued /\ Unissued' = Unissued \ {c}
  BY <1>2, <1>3 DEF Unissued, Asking, TypeOK
<1>5. /\ Cardinality(Asking') = Cardinality(Asking) - 1
      /\ Cardinality(Unissued') = Cardinality(Unissued) - 1
  BY <1>1, <1>3, <1>4, FS_RemoveElement
<1> QED
  BY <1>1, <1>5 DEF IdsCounted

\* Where a request may go that keeps its hash, or gives it up with the rest.
LEMMA OtherStepsAsk ==
    ASSUME TypeOK, IdsCounted, NEW r \in Requests, Step(r), ~MintChallenge(r)
    PROVE  /\ UNCHANGED issuedTo
           /\ Asking' \subseteq Asking
           /\ pc'[r] \in {"new", "find_challenge", "mint_challenge"} => hash'[r] = Nobody
<1>1. UNCHANGED issuedTo
  BY DEF Step, OpenPayer, FindChallenge, CheckReplay, CheckChallenge, VerifySandbox,
     VerifyOnChain, RecordPayment, GrantPayment, ConsumeChallenge, challengeVars
<1>2. \/ \E label \in {"check_challenge", "verify", "grant", "consume", "record"} :
            /\ pc' = [pc EXCEPT ![r] = label]
            /\ UNCHANGED <<who, hash>>
      \/ pc[r] = "find_challenge" /\ Goto(r, "mint_challenge")
      \/ Goto(r, AfterAccount(hash[r]))
      \/ \E outcome \in Outcomes : Finish(r, outcome)
  BY DEF Step, OpenPayer, FindChallenge, CheckReplay, CheckChallenge, VerifySandbox,
     VerifyOnChain, Verified, RecordPayment, GrantPayment, ConsumeChallenge, Goto, Outcomes
<1> QED
  BY <1>1, <1>2 DEF Goto, Finish, AfterAccount, Asking, IdsCounted, Outcomes, TypeOK

LEMMA NextIdsCounted ==
    ASSUME IsFiniteSet(Requests), IsFiniteSet(Challenges), TypeOK, IdsCounted, [Next]_vars
    PROVE  IdsCounted'
<1> DEFINE Kept(r) == pc'[r] \in {"new", "find_challenge", "mint_challenge"}
                          => hash'[r] = Nobody
<1>1. ASSUME NEW r \in Requests, Step(r) PROVE IdsCounted'
  <2>1. \A s \in Requests \ {r} : pc'[s] = pc[s] /\ hash'[s] = hash[s]
    BY <1>1 DEF Step, OpenPayer, FindChallenge, MintChallenge, CheckReplay,
       CheckChallenge, VerifySandbox, VerifyOnChain, Verified, RecordPayment,
       GrantPayment, ConsumeChallenge, Goto, Finish, TypeOK
  <2>2. Kept(r)
    <3>1. CASE MintChallenge(r)
      BY <3>1 DEF MintChallenge, Finish, TypeOK
    <3> QED
      BY <1>1, <3>1, OtherStepsAsk
  <2>3. Cardinality(Asking') <= Cardinality(Unissued')
    <3>1. CASE MintChallenge(r)
      BY <3>1, MintsAreCounted
    <3>2. CASE ~MintChallenge(r)
      <4>1. Asking' \subseteq Asking /\ UNCHANGED issuedTo
        BY <1>1, <3>2, OtherStepsAsk
      <4>2. /\ Cardinality(Asking') <= Cardinality(Asking) /\ Cardinality(Asking') \in Nat
            /\ Cardinality(Asking) \in Nat /\ Cardinality(Unissued) \in Nat
            /\ Unissued' = Unissued
        BY <4>1, AskingIsFinite, CountedSubset DEF Unissued
      <4> QED
        BY <4>2 DEF IdsCounted
    <3> QED
      BY <3>1, <3>2
  <2> QED
    BY <2>1, <2>2, <2>3 DEF IdsCounted
<1>2. ASSUME NEW r \in Requests, NEW a \in Agents,
             \/ ReceiveUnpaid(r, a)
             \/ \E h \in Hashes \cup {Nobody}, c \in Challenges \cup {Nobody} :
                   Receive(r, a, h, c)
      PROVE  IdsCounted'
  <2>1. \A s \in Requests \ {r} :
           pc'[s] = pc[s] /\ hash'[s] = hash[s] /\ who'[s] = who[s]
    BY <1>2 DEF ReceiveUnpaid, Receive, TypeOK
  <2>2. Kept(r) /\ UNCHANGED issuedTo /\ (hash'[r] # Nobody \/ IdsLeft)
    BY <1>2 DEF ReceiveUnpaid, Receive, AfterAccount, IdsCounted, challengeVars, TypeOK
  <2>3. Asking' \subseteq Asking \cup {r}
    BY <2>1 DEF Asking
  <2>4. r \notin Asking' \/ IdsLeft
    BY <2>2 DEF Asking
  <2>5. Cardinality(Asking') <= Cardinality(Unissued')
    BY <2>2, <2>3, <2>4, ArrivalsAreCounted DEF IdsCounted
  <2> QED
    BY <2>1, <2>2, <2>5 DEF IdsCounted
<1>3. ASSUME \/ \E h \in Hashes, c \in Challenges \cup {Nobody}, xlm \in Paid :
                   Submit(h, c, xlm)
             \/ \E c \in Challenges : Expire(c)
             \/ UNCHANGED vars
      PROVE  IdsCounted'
  <2>1. UNCHANGED <<pc, who, hash, issuedTo>>
    BY <1>3 DEF Submit, Expire, vars, requestVars, challengeVars
  <2> QED
    BY <2>1 DEF IdsCounted, Asking, Unissued
<1>4. CASE Crash
  <2>1. Asking' = {} /\ Unissued' = Unissued /\ \A r \in Requests : hash'[r] = Nobody
    BY <1>4 DEF Crash, Asking, Unissued, challengeVars
  <2>2. Cardinality(Asking') = 0 /\ Cardinality(Unissued) \in Nat
    BY <2>1, AskingIsFinite, FS_EmptySet
  <2> QED
    BY <2>1, <2>2 DEF IdsCounted
<1> QED
  BY <1>1, <1>2, <1>3, <1>4 DEF Next

\* A request that may have to mint a challenge always finds an unused id: the
\* bound IdsLeft on arrivals never stops create_challenge itself, so no
\* behaviour of a request that was received is left out for want of ids.
THEOREM FreshIdsAlwaysSuffice ==
    ASSUME IsFiniteSet(Requests), IsFiniteSet(Challenges)
    PROVE  Spec => []FreshIdsSuffice
<1>1. Init => IdsCounted
  BY InitIdsCounted
<1>2. TypeOK /\ IdsCounted /\ [Next]_vars => IdsCounted'
  BY NextIdsCounted
<1>3. ASSUME TypeOK, IdsCounted PROVE FreshIdsSuffice
  <2> SUFFICES ASSUME NEW r \in Requests, pc[r] \in {"find_challenge", "mint_challenge"}
               PROVE  Unissued # {}
    BY DEF FreshIdsSuffice, Unissued
  <2>1. Asking # {}
    BY <1>3 DEF Asking, IdsCounted, TypeOK, InFlight, Outcomes
  <2>2. Cardinality(Asking) # 0 /\ Cardinality(Asking) \in Nat
    BY <2>1, AskingIsFinite, FS_EmptySet
  <2>3. Cardinality(Unissued) # 0
    BY <1>3, <2>2, AskingIsFinite DEF IdsCounted
  <2> QED
    BY <2>3, FS_EmptySet
<1>4. TypeOK /\ IdsCounted => FreshIdsSuffice
  BY <1>3
<1> QED
  BY <1>1, <1>2, <1>4, SettlementTypes, PTL DEF Spec
=============================================================================
