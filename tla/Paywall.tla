-------------------------------- MODULE Paywall ---------------------------------
(***************************************************************************)
(* The paywall dialog (frontend/src/components/console/PaywallDialog.tsx)  *)
(* on a page that opens it, over the purchase loop of BrowserSession.  The *)
(* component stays mounted while it is closed, so its stage, its busy flag *)
(* and its close timers survive.                                           *)
(***************************************************************************)
EXTENDS BrowserSession

VARIABLES
    dialog,       \* `open`
    payStage,     \* `stage`: what the dialog shows of it; "none" for null
    busy,
    tab,
    closeTimers   \* setTimeout(onClose, 700), pending

paywallVars == <<dialog, payStage, busy, tab, closeTimers>>
payVars == <<paywallVars, sessionVars>>

PaywallTypeOK ==
    /\ SessionTypeOK
    /\ {dialog, busy} \subseteq BOOLEAN
    /\ payStage \in {"none", "challenge", "verifying", "settled"}
    /\ tab \in {"instant", "onchain"}
    /\ closeTimers \in 0..MaxPurchases

PaywallInit ==
    /\ SessionInit
    /\ dialog = FALSE
    /\ payStage = "none"
    /\ busy = FALSE
    /\ tab = "instant"
    /\ closeTimers = 0

-----------------------------------------------------------------------------
\* What the dialog shows.

\* The list of stages on the first tab: those before `stage` are ticked.
StageList == IF dialog /\ tab = "instant" THEN payStage ELSE "none"

\* The button is disabled while it is loading.
PayButton == dialog /\ tab = "instant" /\ ~busy

\* The cross is disabled and the backdrop inert while busy; Escape is not.
CloseButton == dialog /\ ~busy

-----------------------------------------------------------------------------
Untouched == UNCHANGED sessionVars

\* A challenge is read for the on-chain tab; nothing here depends on it.
OpenDialog ==
    /\ ~dialog
    /\ dialog' = TRUE
    /\ UNCHANGED <<payStage, busy, tab, closeTimers>> /\ Untouched

ClickClose ==
    /\ CloseButton
    /\ dialog' = FALSE
    /\ UNCHANGED <<payStage, busy, tab, closeTimers>> /\ Untouched

PressEscape ==
    /\ dialog
    /\ dialog' = FALSE
    /\ UNCHANGED <<payStage, busy, tab, closeTimers>> /\ Untouched

ClickTab ==
    /\ dialog
    /\ tab' = IF tab = "instant" THEN "onchain" ELSE "instant"
    /\ UNCHANGED <<dialog, payStage, busy, closeTimers>> /\ Untouched

\* settle.
ClickPay ==
    /\ PayButton
    /\ StartPurchase
    /\ busy' = TRUE
    /\ payStage' = "challenge"
    /\ UNCHANGED <<dialog, tab, closeTimers, tokenVars, balanceVars>>

\* onStage is called with "signing", "submitting" and "verifying" in one go.
PayChallenge ==
    /\ ChallengeRead
    /\ payStage' = "verifying"
    /\ UNCHANGED <<dialog, busy, tab, closeTimers, tokenVars, balanceVars>>

PayServed == ServeVerify /\ UNCHANGED <<paywallVars, tokenVars, balanceVars>>

PaySettled ==
    /\ PurchaseLands
    /\ payStage' = "settled"
    /\ busy' = FALSE
    /\ closeTimers' = closeTimers + 1
    /\ UNCHANGED <<dialog, tab>>

\* Slip: the catch clause leaves the stage where it was.
PayFailedKeepsStage ==
    /\ PurchaseFails
    /\ busy' = FALSE
    /\ UNCHANGED <<dialog, payStage, tab, closeTimers, tokenVars, balanceVars>>

PayFailed ==
    /\ PurchaseFails
    /\ payStage' = "none"
    /\ busy' = FALSE
    /\ UNCHANGED <<dialog, tab, closeTimers, tokenVars, balanceVars>>

\* The timer closes the dialog, also one that was opened again meanwhile.
CloseTimer ==
    /\ closeTimers > 0
    /\ closeTimers' = closeTimers - 1
    /\ dialog' = FALSE
    /\ UNCHANGED <<payStage, busy, tab>> /\ Untouched

PaywallNext ==
    \/ OpenDialog \/ ClickClose \/ PressEscape \/ ClickTab
    \/ ClickPay \/ PayChallenge \/ PayServed \/ PaySettled \/ PayFailed
    \/ CloseTimer
    \/ SessionStep(Callers) /\ UNCHANGED paywallVars

PaywallSpec == PaywallInit /\ [][PaywallNext]_payVars

-----------------------------------------------------------------------------
(* "Nothing here pretends a payment happened that did not": a dialog that  *)
(* was closed with Escape in the middle of a payment and opened again      *)
(* shows the stage its payment is at, "Demo credits issued" only after the *)
(* server redeemed the hash, and no stage at all after a failure.          *)
NothingPretended ==
    /\ StageList = "settled" => verified
    /\ StageList \in {"challenge", "verifying"} => purchase # "no"

-----------------------------------------------------------------------------
\* Why they hold.  A token in the hands of a caller is at most as old as its
\* one step of ageing: that step is on record in `older`.
TokensInv ==
    /\ token \in Ages \cup {"none"}
    /\ held \in [Callers -> Ages \cup {"none", "refused"}]
    /\ \A c \in Callers : held[c] # "expired" /\ (held[c] = "margin" => c \in older)

\* The stage follows the purchase, whatever becomes of the dialog.
StageInv ==
    /\ payStage = "settled" => verified = TRUE
    /\ payStage \in {"challenge", "verifying"} => purchase # "no"
=============================================================================
