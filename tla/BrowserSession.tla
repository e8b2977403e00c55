---------------------------- MODULE BrowserSession -----------------------------
(***************************************************************************)
(* The session every page shares (frontend/src/components/providers/       *)
(* SessionProvider.tsx): one access token that ages, the collapse of       *)
(* concurrent mints into one, the credits shown, and the purchase loop.    *)
(*                                                                         *)
(* What the server's figures are is the business of CreditLedger and       *)
(* PaidQuery: here `credits` is only positive or not, and every answer     *)
(* that reports a balance may say either.  Ages stand for the time a token *)
(* has left: more than REFRESH_MARGIN, less, or none.                      *)
(***************************************************************************)
EXTENDS Naturals, FiniteSets

CONSTANTS
    Callers,      \* the closures that call getToken
    MaxPurchases  \* bound on calls of purchaseCredits

VARIABLES
    token,        \* the age of tokenRef; "none" for null
    minting,      \* whether `inflight` holds a promise
    waiting,      \* callers that await it
    held,         \* held[c]: the age of the token getToken gave to c
    older,        \* callers whose token has aged since they got it
    funded,       \* `credits > 0`
    ready, offline,
    reading,      \* a getBalance is on its way
    purchase,     \* where purchaseCredits is
    verified,     \* the server has redeemed its hash
    purchases

sessionVars == <<token, minting, waiting, held, older, funded, ready, offline, reading,
                 purchase, verified, purchases>>
tokenVars == <<token, minting, waiting, held, older>>
balanceVars == <<funded, ready, offline, reading>>
purchaseVars == <<purchase, verified, purchases>>

Ages == {"fresh", "margin", "expired"}

SessionTypeOK ==
    /\ token \in Ages \cup {"none"}
    /\ minting \in BOOLEAN
    /\ waiting \subseteq Callers
    /\ held \in [Callers -> Ages \cup {"none", "refused"}]
    /\ older \subseteq Callers
    /\ {funded, ready, offline, reading, verified} \subseteq BOOLEAN
    /\ purchase \in {"no", "challenge", "verify"}
    /\ purchases \in 0..MaxPurchases

\* A token that was kept in localStorage is restored if it is fresh.
SessionInit ==
    /\ token \in {"none", "fresh"}
    /\ minting = FALSE
    /\ waiting = {}
    /\ held = [c \in Callers |-> "none"]
    /\ older = {}
    /\ funded = FALSE
    /\ ready = FALSE
    /\ offline = FALSE
    /\ reading = FALSE
    /\ purchase = "no"
    /\ verified = FALSE
    /\ purchases = 0

-----------------------------------------------------------------------------
\* getToken.

\* Slip: the margin is forgotten, a token is used up to its last second.
NotYetExpired(age) == age \in {"fresh", "margin"}

LongLived(age) == age = "fresh"

\* A token is there, or a mint is shared, or a mint is begun.
GetToken(c) ==
    IF LongLived(token)
    THEN held' = [held EXCEPT ![c] = token] /\ UNCHANGED <<token, minting, waiting, older>>
    ELSE /\ minting' = TRUE
         /\ waiting' = waiting \cup {c}
         /\ UNCHANGED <<token, held, older>>

Give(answer) ==
    /\ held' = [c \in Callers |-> IF c \in waiting THEN answer ELSE held[c]]
    /\ waiting' = {}
    /\ minting' = FALSE

MintLands ==
    /\ minting
    /\ token' = "fresh"
    /\ Give("fresh")
    /\ funded' \in BOOLEAN
    /\ UNCHANGED <<older, ready, offline, reading, purchaseVars>>

MintFails ==
    /\ minting
    /\ Give("refused")
    /\ UNCHANGED <<token, older, balanceVars, purchaseVars>>

\* The caller goes on with what it was given.
TakeToken(c) ==
    /\ held' = [held EXCEPT ![c] = "none"]
    /\ older' = older \ {c}
    /\ UNCHANGED <<token, minting, waiting>>

\* A closure of a page the user has left, which still wants a token.
OtherCall(c) ==
    /\ \/ held[c] = "none" /\ c \notin waiting /\ GetToken(c)
       \/ held[c] # "none" /\ TakeToken(c)
    /\ UNCHANGED <<balanceVars, purchaseVars>>

Older(age) == CASE age = "fresh" -> "margin" [] age = "margin" -> "expired" [] OTHER -> age

\* A caller uses its token well within REFRESH_MARGIN of getting it, so that
\* no token it holds gets older twice.
TimePasses ==
    LET holders == {c \in Callers : held[c] \in Ages}
    IN  /\ older \cap holders = {}
        /\ token \in {"fresh", "margin"} \/ holders # {}
        /\ token' = Older(token)
        /\ held' = [c \in Callers |-> Older(held[c])]
        /\ older' = older \cup holders
        /\ UNCHANGED <<minting, waiting, balanceVars, purchaseVars>>

-----------------------------------------------------------------------------
\* The balance.

\* Promise.allSettled of the first load: it may fail, and is over all the same.
FirstLoad ==
    /\ ~ready
    /\ ready' = TRUE
    /\ \/ offline' = FALSE /\ funded' \in BOOLEAN
       \/ offline' \in {offline, TRUE} /\ UNCHANGED funded
    /\ UNCHANGED <<reading, tokenVars, purchaseVars>>

\* A page reports the balance that came with an answer, or asks for it.
SetCredits ==
    /\ funded' \in BOOLEAN
    /\ UNCHANGED <<ready, offline, reading, tokenVars, purchaseVars>>

AskRefresh ==
    /\ reading' = TRUE
    /\ UNCHANGED <<funded, ready, offline, tokenVars, purchaseVars>>

\* One of the refreshes under way lands; others may be left.
RefreshLands ==
    /\ reading
    /\ reading' \in BOOLEAN
    /\ \/ offline' = FALSE /\ funded' \in BOOLEAN
       \/ offline' \in {offline, TRUE} /\ UNCHANGED funded
    /\ UNCHANGED <<ready, tokenVars, purchaseVars>>

-----------------------------------------------------------------------------
\* purchaseCredits.

StartPurchase ==
    /\ purchase = "no"
    /\ purchases < MaxPurchases
    /\ purchase' = "challenge"
    /\ verified' = FALSE
    /\ purchases' = purchases + 1

\* The challenge is there; the sandbox names a hash of its own and goes on to
\* verify it, while settleOnChain refuses.
ChallengeRead ==
    /\ purchase = "challenge"
    /\ purchase' = "verify"
    /\ UNCHANGED <<verified, purchases>>

ServeVerify ==
    /\ purchase = "verify"
    /\ ~verified
    /\ verified' = TRUE
    /\ UNCHANGED <<purchase, purchases>>

\* The answer brings a token and the new balance.
PurchaseLands ==
    /\ purchase = "verify"
    /\ verified
    /\ purchase' = "no"
    /\ token' = "fresh"
    /\ funded' \in BOOLEAN
    /\ UNCHANGED <<minting, waiting, held, older, ready, offline, reading, verified,
                   purchases>>

\* A refusal, an answer that was lost, or settleOnChain's error.
PurchaseFails ==
    /\ purchase # "no"
    /\ purchase' = "no"
    /\ UNCHANGED <<verified, purchases>>

\* What happens beside the page: `others` are callers that are not its own.
SessionStep(others) ==
    \/ MintLands \/ MintFails \/ TimePasses
    \/ FirstLoad \/ SetCredits \/ AskRefresh \/ RefreshLands
    \/ \E c \in others : OtherCall(c)

-----------------------------------------------------------------------------
(* "A token that is valid right now": no request is sent with a token that *)
(* has run out, though it was minted for another caller, bought, or handed *)
(* out and used only later.                                                *)
NoExpiredTokenIsSent == \A c \in Callers : held[c] # "expired"
=============================================================================
