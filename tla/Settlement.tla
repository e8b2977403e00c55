----------------------------- MODULE Settlement ------------------------------
(***************************************************************************)
(* x402 settlement: payment challenges, verification of Stellar            *)
(* transactions and the granting of credits                                *)
(* (backend/app/services/stellar_service.py, the endpoints of              *)
(* backend/app/api/endpoints/payments.py and the 402 answer of             *)
(* backend/app/api/deps.py).                                               *)
(*                                                                         *)
(* Each HTTP request runs on a thread of the pool and touches the database *)
(* in several separate statements; every statement is one action, so all   *)
(* interleavings of concurrent requests are explored.  The server may      *)
(* crash between any two of them: the requests in flight are lost, the     *)
(* tables survive.  A request handles one call; a retry is another one.    *)
(***************************************************************************)
EXTENDS CreditStore, FiniteSets, Functions

CONSTANTS
    Challenges,         \* challenge ids; its memo is unique to a challenge
    Hashes,             \* transaction hashes
    SandboxHashes,      \* the ones with the prefix "sandbox_"
    Requests,
    Nobody,             \* no agent, no challenge
    SandboxMode,        \* settings.x402_sandbox_mode
    Price,              \* settings.x402_price_xlm
    Paid,               \* the amounts of XLM a transaction may bring in
    CreditsPerPayment,  \* settings.x402_credits_per_payment
    MaxCrashes          \* bound on server restarts

ASSUME SettlementAssumption ==
    /\ SandboxHashes \subseteq Hashes
    /\ Nobody \notin Agents \cup Challenges
    /\ SandboxMode \in BOOLEAN
    /\ Price \in Nat \ {0} /\ Paid \subseteq Nat /\ CreditsPerPayment \in Nat
    /\ MaxCrashes \in Nat

VARIABLES
    \* the table `challenges`
    issuedTo,     \* issuedTo[c]: the challenge's agent; Nobody without a row
    consumed,     \* challenges with consumed_at set
    expired,      \* challenges whose expires_at has passed
    \* the table `payments`, at most one row per hash (UNIQUE tx_hash)
    payer,        \* payer[h]: agent_id of the row; Nobody without one
    amount,       \* amount_xlm of the row
    settles,      \* challenge_id of the row
    receipts,     \* number of credit_ledger entries that name the row
    \* the Stellar network
    submitted,    \* hashes of transactions the network has settled
    memo,         \* memo[h]: the challenge whose memo the transaction carries
    paid,         \* paid[h]: XLM it moved to our account; 0 if it failed
    \* the requests in flight
    pc,
    who,          \* who[r]: agent_id of the request
    hash,         \* hash[r]: transaction_hash of a verify request
    chal,         \* chal[r]: its challenge_id
    found,        \* found[r]: the amount verification read
    crashes

challengeVars == <<issuedTo, consumed, expired>>
paymentVars == <<payer, amount, settles, receipts>>
networkVars == <<submitted, memo, paid>>
requestVars == <<pc, who, hash, chal, found>>
vars == <<rows, credits, spent, posted, lastBalance, issuedTo, consumed, expired,
          payer, amount, settles, receipts, submitted, memo, paid, pc, who, hash, chal, found,
          crashes>>

Outcomes == {"answered", "rejected", "error", "lost"}
Labels == {"new", "open_account", "find_challenge", "mint_challenge",
           "check_replay", "check_challenge", "verify", "record", "grant",
           "consume"} \cup Outcomes

InFlight == {r \in Requests : pc[r] \notin Outcomes \cup {"new"}}

TypeOK ==
    /\ StoreTypeOK
    /\ issuedTo \in [Challenges -> Agents \cup {Nobody}]
    /\ consumed \subseteq Challenges /\ expired \subseteq Challenges
    /\ payer \in [Hashes -> Agents \cup {Nobody}]
    /\ amount \in [Hashes -> Nat]
    /\ settles \in [Hashes -> Challenges \cup {Nobody}]
    /\ receipts \in [Hashes -> Nat]
    /\ submitted \subseteq Hashes
    /\ memo \in [Hashes -> Challenges \cup {Nobody}]
    /\ paid \in [Hashes -> Nat]
    /\ pc \in [Requests -> Labels]
    /\ who \in [Requests -> Agents \cup {Nobody}]
    /\ hash \in [Requests -> Hashes \cup {Nobody}]
    /\ chal \in [Requests -> Challenges \cup {Nobody}]
    /\ found \in [Requests -> Nat]
    /\ \A r \in Requests : r \in InFlight <=> who[r] # Nobody
    /\ crashes \in 0..MaxCrashes

Init ==
    /\ StoreInit
    /\ issuedTo = [c \in Challenges |-> Nobody]
    /\ consumed = {} /\ expired = {}
    /\ payer = [h \in Hashes |-> Nobody]
    /\ amount = [h \in Hashes |-> 0]
    /\ settles = [h \in Hashes |-> Nobody]
    /\ receipts = [h \in Hashes |-> 0]
    /\ submitted = {}
    /\ memo = [h \in Hashes |-> Nobody]
    /\ paid = [h \in Hashes |-> 0]
    /\ pc = [r \in Requests |-> "new"]
    /\ who = [r \in Requests |-> Nobody]
    /\ hash = [r \in Requests |-> Nobody]
    /\ chal = [r \in Requests |-> Nobody]
    /\ found = [r \in Requests |-> 0]
    /\ crashes = 0

-----------------------------------------------------------------------------
(***************************************************************************)
(* Requests.                                                               *)
(***************************************************************************)

Goto(r, label) ==
    /\ pc' = [pc EXCEPT ![r] = label]
    /\ UNCHANGED <<who, hash, chal, found>>

\* Slip: a request that ends without giving up its local state.
FinishHolding(r, outcome) == Goto(r, outcome)

\* The request ends and its local variables are gone.
Finish(r, outcome) ==
    /\ pc' = [pc EXCEPT ![r] = outcome]
    /\ who' = [who EXCEPT ![r] = Nobody]
    /\ hash' = [hash EXCEPT ![r] = Nobody]
    /\ chal' = [chal EXCEPT ![r] = Nobody]
    /\ found' = [found EXCEPT ![r] = 0]

\* Challenges bounds the challenge ids: a request that may need one arrives
\* only while there is one for each such request in flight.
IdsLeft ==
    Cardinality({r \in Requests : who[r] # Nobody /\ hash[r] = Nobody})
        < Cardinality({c \in Challenges : issuedTo[c] = Nobody})

\* Where an endpoint goes once the agent has a row.
AfterAccount(h) == IF h = Nobody THEN "find_challenge" ELSE "check_replay"

\* POST /payments/challenge (h = Nobody) and POST /payments/verify begin with
\* the read of get_or_create_agent.  The challenge id of a verify request is
\* one issued to the agent, one issued to somebody else, or none; an id that
\* has no row is treated by the code as none.
Receive(r, a, h, c) ==
    /\ pc[r] = "new"
    /\ h = Nobody => IdsLeft
    /\ c # Nobody => issuedTo[c] # Nobody
    /\ pc' = [pc EXCEPT ![r] = IF a \in rows THEN AfterAccount(h)
                               ELSE "open_account"]
    /\ who' = [who EXCEPT ![r] = a]
    /\ hash' = [hash EXCEPT ![r] = h]
    /\ chal' = [chal EXCEPT ![r] = c]
    /\ UNCHANGED <<storeVars, challengeVars, paymentVars, networkVars, found,
                   crashes>>

\* A request without a token or without credits: require_paid_agent answers
\* 402 with a challenge and creates no row for the agent.
ReceiveUnpaid(r, a) ==
    /\ pc[r] = "new"
    /\ IdsLeft
    /\ credits[a] = 0
    /\ pc' = [pc EXCEPT ![r] = "find_challenge"]
    /\ who' = [who EXCEPT ![r] = a]
    /\ UNCHANGED <<storeVars, challengeVars, paymentVars, networkVars, hash, chal,
                   found, crashes>>

\* The transaction of get_or_create_agent.
OpenPayer(r) ==
    /\ pc[r] = "open_account"
    /\ OpenAccount(who[r])
    /\ Goto(r, AfterAccount(hash[r]))
    /\ UNCHANGED <<challengeVars, paymentVars, networkVars, crashes>>

-----------------------------------------------------------------------------
(***************************************************************************)
(* get_or_create_challenge                                                 *)
(***************************************************************************)

OpenChallenges(a) == {c \in Challenges \ (consumed \cup expired) : issuedTo[c] = a}

\* The read of find_open_challenge.
FindChallenge(r) ==
    /\ pc[r] = "find_challenge"
    /\ IF OpenChallenges(who[r]) # {}
       THEN Finish(r, "answered")
       ELSE Goto(r, "mint_challenge")
    /\ UNCHANGED <<storeVars, challengeVars, paymentVars, networkVars, crashes>>

\* Slip: the insert goes wrong and the endpoint starts over, each time.
MintChallengeRetrying(r) ==
    /\ pc[r] = "mint_challenge"
    /\ Goto(r, "find_challenge")
    /\ UNCHANGED <<storeVars, challengeVars, paymentVars, networkVars, crashes>>

\* create_challenge, with a fresh id and a fresh random memo.
MintChallenge(r) ==
    /\ pc[r] = "mint_challenge"
    /\ \E c \in Challenges :
          /\ issuedTo[c] = Nobody
          /\ issuedTo' = [issuedTo EXCEPT ![c] = who[r]]
    /\ Finish(r, "answered")
    /\ UNCHANGED <<storeVars, consumed, expired, paymentVars, networkVars, crashes>>

-----------------------------------------------------------------------------
(***************************************************************************)
(* verify_payment                                                          *)
(***************************************************************************)

\* payment_exists
CheckReplay(r) ==
    /\ pc[r] = "check_replay"
    /\ IF payer[hash[r]] # Nobody
       THEN Finish(r, "rejected")
       ELSE Goto(r, "check_challenge")
    /\ UNCHANGED <<storeVars, challengeVars, paymentVars, networkVars, crashes>>

\* Slip: no check that the challenge is the caller's own.
MayRedeemAnyone(a, c) == c \notin consumed \cup expired

\* The three checks on the challenge's row.
MayRedeem(a, c) == issuedTo[c] = a /\ c \notin consumed \cup expired

\* Slip: the challenge is taken when it is checked, before anything is paid.
CheckChallengeTaking(r) ==
    /\ pc[r] = "check_challenge"
    /\ chal[r] # Nobody => MayRedeem(who[r], chal[r])
    /\ consumed' = consumed \cup ({chal[r]} \ {Nobody})
    /\ Goto(r, "verify")
    /\ UNCHANGED <<storeVars, issuedTo, expired, paymentVars, networkVars, crashes>>

\* get_challenge, skipped without a challenge id.
CheckChallenge(r) ==
    /\ pc[r] = "check_challenge"
    /\ IF chal[r] = Nobody \/ MayRedeem(who[r], chal[r])
       THEN Goto(r, "verify")
       ELSE Finish(r, "rejected")
    /\ UNCHANGED <<storeVars, challengeVars, paymentVars, networkVars, crashes>>

\* What _verify_on_chain asks of a transaction Horizon knows.
SettledOnChain(h, c) ==
    /\ h \in submitted
    /\ c # Nobody => memo[h] = c
    /\ paid[h] >= Price

Verified(r, xlm) ==
    /\ pc' = [pc EXCEPT ![r] = "record"]
    /\ found' = [found EXCEPT ![r] = xlm]
    /\ UNCHANGED <<who, hash, chal>>

VerifySandbox(r) ==
    /\ pc[r] = "verify" /\ hash[r] \in SandboxHashes
    /\ IF SandboxMode THEN Verified(r, Price) ELSE Finish(r, "rejected")
    /\ UNCHANGED <<storeVars, challengeVars, paymentVars, networkVars, crashes>>

\* Horizon may also be unreachable or answer that the transaction is not there
\* yet; both reject the request and leave the hash free for a retry.
VerifyOnChain(r) ==
    /\ pc[r] = "verify" /\ hash[r] \notin SandboxHashes
    /\ \/ SettledOnChain(hash[r], chal[r]) /\ Verified(r, paid[hash[r]])
       \/ Finish(r, "rejected")
    /\ UNCHANGED <<storeVars, challengeVars, paymentVars, networkVars, crashes>>

\* Slip: INSERT OR REPLACE, so that the loser of a race goes on as well.
RecordPaymentReplacing(r) ==
    /\ pc[r] = "record"
    /\ payer' = [payer EXCEPT ![hash[r]] = who[r]]
    /\ amount' = [amount EXCEPT ![hash[r]] = found[r]]
    /\ settles' = [settles EXCEPT ![hash[r]] = chal[r]]
    /\ Goto(r, "grant")
    /\ UNCHANGED <<storeVars, challengeVars, receipts, networkVars, crashes>>

\* Slip: the answer is returned once the row is written.
RecordPaymentOnly(r) ==
    /\ pc[r] = "record"
    /\ payer[hash[r]] = Nobody
    /\ payer' = [payer EXCEPT ![hash[r]] = who[r]]
    /\ amount' = [amount EXCEPT ![hash[r]] = found[r]]
    /\ settles' = [settles EXCEPT ![hash[r]] = chal[r]]
    /\ Finish(r, "answered")
    /\ UNCHANGED <<storeVars, challengeVars, receipts, networkVars, crashes>>

\* record_payment: the INSERT commits by itself; the UNIQUE constraint makes
\* the loser of a race raise, which the client sees as a 500.
RecordPayment(r) ==
    /\ pc[r] = "record"
    /\ \/ /\ payer[hash[r]] = Nobody
          /\ payer' = [payer EXCEPT ![hash[r]] = who[r]]
          /\ amount' = [amount EXCEPT ![hash[r]] = found[r]]
          /\ settles' = [settles EXCEPT ![hash[r]] = chal[r]]
          /\ Goto(r, "grant")
       \/ /\ payer[hash[r]] # Nobody
          /\ Finish(r, "error")
          /\ UNCHANGED <<payer, amount, settles>>
    /\ UNCHANGED <<storeVars, challengeVars, receipts, networkVars, crashes>>

\* _credits_for: paying more buys proportionally more.
CreditsFor(xlm) ==
    (IF xlm \div Price > 1 THEN xlm \div Price ELSE 1) * CreditsPerPayment

\* Slip: one bundle is granted whatever was paid.
GrantPaymentFlat(r) ==
    /\ pc[r] = "grant"
    /\ GrantCredits(who[r], CreditsPerPayment, "payment")
    /\ receipts' = [receipts EXCEPT ![hash[r]] = @ + 1]
    /\ IF chal[r] = Nobody THEN Finish(r, "answered") ELSE Goto(r, "consume")
    /\ UNCHANGED <<challengeVars, payer, amount, settles, networkVars, crashes>>

\* The transaction of grant_credits, whose ledger entry names the payment.
GrantPayment(r) ==
    /\ pc[r] = "grant"
    /\ GrantCredits(who[r], CreditsFor(found[r]), "payment")
    /\ receipts' = [receipts EXCEPT ![hash[r]] = @ + 1]
    /\ IF chal[r] = Nobody THEN Finish(r, "answered") ELSE Goto(r, "consume")
    /\ UNCHANGED <<challengeVars, payer, amount, settles, networkVars, crashes>>

\* consume_challenge: an UPDATE without a condition on consumed_at.
ConsumeChallenge(r) ==
    /\ pc[r] = "consume"
    /\ consumed' = consumed \cup {chal[r]}
    /\ Finish(r, "answered")
    /\ UNCHANGED <<storeVars, issuedTo, expired, paymentVars, networkVars, crashes>>

-----------------------------------------------------------------------------
(***************************************************************************)
(* The surroundings.                                                       *)
(***************************************************************************)

\* Somebody pays on the Stellar network, with the memo of a challenge that was
\* issued or without one, enough, too little or, in a transaction that fails,
\* nothing.
Submit(h, c, xlm) ==
    /\ h \notin submitted \cup SandboxHashes
    /\ c # Nobody => issuedTo[c] # Nobody
    /\ submitted' = submitted \cup {h}
    /\ memo' = [memo EXCEPT ![h] = c]
    /\ paid' = [paid EXCEPT ![h] = xlm]
    /\ UNCHANGED <<storeVars, challengeVars, paymentVars, requestVars, crashes>>

Expire(c) ==
    /\ issuedTo[c] # Nobody /\ c \notin expired
    /\ expired' = expired \cup {c}
    /\ UNCHANGED <<storeVars, issuedTo, consumed, paymentVars, networkVars,
                   requestVars, crashes>>

\* The process dies and restarts; SQLite keeps what was committed.
Crash ==
    /\ crashes < MaxCrashes
    /\ InFlight # {}
    /\ crashes' = crashes + 1
    /\ pc' = [r \in Requests |-> IF r \in InFlight THEN "lost" ELSE pc[r]]
    /\ who' = [r \in Requests |-> Nobody]
    /\ hash' = [r \in Requests |-> Nobody]
    /\ chal' = [r \in Requests |-> Nobody]
    /\ found' = [r \in Requests |-> 0]
    /\ UNCHANGED <<storeVars, challengeVars, paymentVars, networkVars>>

-----------------------------------------------------------------------------
\* The steps of a request the server is bound to take once it was received.
Step(r) ==
    \/ OpenPayer(r)
    \/ FindChallenge(r) \/ MintChallenge(r)
    \/ CheckReplay(r) \/ CheckChallenge(r)
    \/ VerifySandbox(r) \/ VerifyOnChain(r)
    \/ RecordPayment(r) \/ GrantPayment(r) \/ ConsumeChallenge(r)

Next ==
    \/ \E r \in Requests :
          \/ Step(r)
          \/ \E a \in Agents :
                \/ ReceiveUnpaid(r, a)
                \/ Receive(r, a, Nobody, Nobody)
                \/ \E h \in Hashes, c \in Challenges \cup {Nobody} : Receive(r, a, h, c)
    \/ \E h \in Hashes, c \in Challenges \cup {Nobody}, xlm \in Paid : Submit(h, c, xlm)
    \/ \E c \in Challenges : Expire(c)
    \/ Crash

Spec == Init /\ [][Next]_vars

\* Every thread of the pool is scheduled, SQLite's writers wait for at most
\* the busy timeout and the calls to Horizon have a timeout: a request that
\* was received takes its next step unless the server crashes first.  All that
\* is asked here is the least of it, that the server goes on with some request
\* as long as it has one.  Nothing obliges clients to call, payers to pay or
\* challenges to expire.
FairSpec == Spec /\ WF_vars(\E r \in Requests : Step(r))

-----------------------------------------------------------------------------
(***************************************************************************)
(* Properties.                                                             *)
(***************************************************************************)

\* A transaction hash buys credits at most once, however many requests present
\* it at the same time, with whichever agent, and across restarts: only the
\* request whose INSERT got past the UNIQUE constraint goes on to the grant.
RedeemedOnce ==
    \A h \in Hashes :
        /\ receipts[h] <= 1
        /\ receipts[h] = 1 => payer[h] # Nobody

\* The money behind redeeming hash h for agent a with xlm and challenge c: a
\* sandbox hash while the sandbox is on, or a transaction on the network with
\* at least the price and, with a challenge, the challenge's memo.
Backed(h, a, xlm, c) ==
    /\ c # Nobody => issuedTo[c] = a
    /\ h \in SandboxHashes => SandboxMode /\ xlm = Price
    /\ h \notin SandboxHashes =>
           /\ h \in submitted /\ xlm = paid[h] /\ xlm >= Price
           /\ c # Nobody => memo[h] = c

\* Every row of `payments` stands for money and, when it settles a challenge,
\* for one of the payer's own.  The checks were made several statements before
\* the row is written, by a thread that others may overtake.
PaymentsAreBacked ==
    \A h \in Hashes :
        payer[h] # Nobody => Backed(h, payer[h], amount[h], settles[h])

\* What each payment row has brought in credits, and the rows of an agent.
Bought == [h \in Hashes |-> CreditsFor(amount[h]) * receipts[h]]
PaymentsOf(a) == {h \in Hashes : payer[h] = a}

\* The credits an agent's ledger says it paid for are those of its credited
\* payment rows, so the ledger and the payments page reconcile.
CreditsMatchPayments ==
    \A a \in Agents :
        posted[a]["payment"] = SumFunctionOnSet(Bought, PaymentsOf(a))

\* A payment row without its credits belongs to a request that is about to
\* grant them, unless the server crashed.  After a crash nothing in the code
\* finds such a row again: a retry is rejected as a replay.
UncreditedIsInFlight ==
    \A h \in Hashes :
        payer[h] # Nobody /\ receipts[h] = 0 =>
            \/ crashes > 0
            \/ \E r \in Requests : pc[r] = "grant" /\ hash[r] = h

\* A challenge is marked as redeemed only for a payment of its own agent that
\* was credited, never before.
ConsumedIsCredited ==
    \A c \in consumed : \E h \in Hashes : settles[h] = c /\ receipts[h] = 1

\* What verify_payment has established at each of its steps.
Verifying == {"check_replay", "check_challenge", "verify", "record", "grant", "consume"}

RequestInv(r) ==
    /\ pc[r] \in Verifying => who[r] \in rows /\ hash[r] \in Hashes
    /\ chal[r] # Nobody => issuedTo[chal[r]] # Nobody
    /\ pc[r] = "verify" /\ chal[r] # Nobody => issuedTo[chal[r]] = who[r]
    /\ pc[r] = "record" => Backed(hash[r], who[r], found[r], chal[r])
    /\ pc[r] = "grant" =>
           /\ payer[hash[r]] = who[r] /\ settles[hash[r]] = chal[r]
           /\ amount[hash[r]] = found[r] /\ receipts[hash[r]] = 0
    /\ pc[r] = "consume" =>
           /\ chal[r] # Nobody
           /\ settles[hash[r]] = chal[r] /\ receipts[hash[r]] = 1

\* The inductive invariant behind RedeemedOnce, PaymentsAreBacked and
\* ConsumedIsCredited: a row that may still be credited belongs to exactly one
\* request.
SettlementInv ==
    /\ TypeOK
    /\ StoreInv
    /\ \A r \in Requests : RequestInv(r)
    /\ \A r, s \in Requests :
          pc[r] = "grant" /\ pc[s] = "grant" /\ hash[r] = hash[s] => r = s
    /\ RedeemedOnce
    /\ PaymentsAreBacked
    /\ ConsumedIsCredited

\* Each hash is redeemed for one agent and credited after that, once: the
\* tables implement Redemption.
Abstract == INSTANCE Redemption
    WITH owner <- payer, credited <- {h \in Hashes : receipts[h] > 0}

ImplementsRedemption == Abstract!RedemptionSpec

\* Every request that came is answered, refused, failed or lost in a crash:
\* none is left waiting, for the database, the network or another request.
RequestsEnd == <>[](InFlight = {})

\* As long as the server does not crash, every payment that is recorded is
\* credited in the end.
RedemptionsAreCredited ==
    <>[](crashes = 0 => \A h \in Hashes : payer[h] # Nobody => receipts[h] = 1)

\* "This challenge was already redeemed." (stellar_service.py:105): a challenge
\* settles one payment.
ChallengeRedeemedOnce ==
    \A c \in Challenges : Cardinality({h \in Hashes : settles[h] = c}) <= 1
=============================================================================
