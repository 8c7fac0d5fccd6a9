-------------------------- MODULE AscendingAuction --------------------------
(***************************************************************************)
(* What an auction promises to those who take part, without requests,      *)
(* transactions, rows and workers: while it is open everybody may offer    *)
(* more than the best offer; it closes once, and is then sold for the best *)
(* offer or to nobody.                                                     *)
(***************************************************************************)
EXTENDS Integers, Sequences

CONSTANTS Bidders, Amounts

VARIABLES
    phase,   \* "ahead", "open", "held" by staff, or "closed"
    offers,  \* the offers made, oldest first
    sold     \* what was sold: nothing yet, or one offer

promised == <<phase, offers, sold>>

Begin ==
    /\ phase \in {"ahead", "open"}
    /\ offers = << >> /\ sold = {}

Start == phase = "ahead" /\ phase' = "open" /\ UNCHANGED <<offers, sold>>

Hold == phase = "open" /\ phase' = "held" /\ UNCHANGED <<offers, sold>>

Release == phase = "held" /\ phase' = "open" /\ UNCHANGED <<offers, sold>>

Offer(bidder, amount) ==
    /\ phase = "open"
    /\ \A i \in DOMAIN offers : offers[i].amount < amount
    /\ offers' = Append(offers, [bidder |-> bidder, amount |-> amount])
    /\ UNCHANGED <<phase, sold>>

Sell ==
    /\ phase = "open" /\ offers # << >>
    /\ phase' = "closed" /\ sold' = {offers[Len(offers)]}
    /\ UNCHANGED offers

\* Nobody offered enough, or staff cancelled.
End ==
    /\ phase # "closed"
    /\ phase' = "closed" /\ UNCHANGED <<offers, sold>>

Go ==
    \/ Start \/ Hold \/ Release \/ Sell \/ End
    \/ \E bidder \in Bidders, amount \in Amounts : Offer(bidder, amount)

Spec == Begin /\ [][Go]_promised

=============================================================================
