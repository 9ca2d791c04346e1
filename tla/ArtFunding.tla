----------------------------- MODULE ArtFunding -----------------------------
(* What the Breed Art funding promises: the serialized claim boundary that  *)
(* testArtPaymentConcurrencySpike.ts writes down before any payment code.    *)
(* A campaign has a finite number of funding units.  Each contribution       *)
(* attempt claims its units at most once, all or nothing; the claim that     *)
(* reaches the goal closes the campaign, and a closed campaign is drawn.     *)
EXTENDS Integers

CONSTANTS
    Attempts,   \* contribution attempts of one campaign
    Units,      \* Units[a]: the funding units attempt a asks for
    Total       \* the campaign's totalFundingUnits

VARIABLES
    claimed,    \* the attempts whose units are funded
    funded,     \* the units they claimed together
    campaign    \* NEEDS_FUNDING, FUNDED or DRAWING_COMPLETE

vars == <<claimed, funded, campaign>>

Init ==
    /\ claimed = {}
    /\ funded = 0
    /\ campaign = "NEEDS_FUNDING"

(* finalize(): an attempt is finalized once, and only while its units fit.   *)
Claim(a) ==
    /\ a \notin claimed
    /\ Units[a] <= Total - funded
    /\ claimed' = claimed \cup {a}
    /\ funded' = funded + Units[a]
    /\ campaign' = IF funded' = Total /\ campaign = "NEEDS_FUNDING"
                   THEN "FUNDED" ELSE campaign

(* The artwork is drawn once, for a campaign whose units are all claimed.    *)
Draw ==
    /\ campaign = "FUNDED"
    /\ funded = Total
    /\ campaign' = "DRAWING_COMPLETE"
    /\ UNCHANGED <<claimed, funded>>

Next == Draw \/ \E a \in Attempts : Claim(a)

Spec == Init /\ [][Next]_vars
=============================================================================
