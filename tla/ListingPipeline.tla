--------------------------- MODULE ListingPipeline ---------------------------
(***************************************************************************)
(* A listing on its way from the owner to publication (apps/api).          *)
(*                                                                         *)
(*   - submit (ListingsService) and submitProof (ListingPaymentsService):  *)
(*     the owner sends the listing, or the receipt of its fee, for review; *)
(*   - decide (AdminListingsController) and reviewProof: staff judge the   *)
(*     listing or the receipt;                                             *)
(*   - assign: staff offer the listing to an agent;                        *)
(*   - respond: the agent accepts, which publishes it, or declines;        *)
(*   - requestDeletion, cancelDeletion (AccountService): the owner leaves, *)
(*     and may come back.                                                  *)
(*                                                                         *)
(* A listing of type AUCTION carries the row of its auction.  Bids, the    *)
(* reconciler and staff change that row under a lock; decide does not lock *)
(* it and writes a number it read before.                                  *)
(*                                                                         *)
(* Every call reads, checks what it read, and then writes; the database    *)
(* runs it as Read Committed and no call locks what it read, so the writes *)
(* are a later step than the reads.  The writes of a call go to the        *)
(* listing's row last or only, and are one step.                           *)
(***************************************************************************)
EXTENDS Integers, Sequences, FiniteSets

CONSTANTS
    Listings,
    Agents,       \* ACTIVE agents
    Calls,        \* API calls that can be in progress at once
    Limit,        \* the agent's caseload limit
    MaxProofs,    \* bound: receipts per listing
    MaxOffers,    \* bound: offers made
    MaxEvents     \* bound: events of an auction

ASSUME PipelineAssumption ==
    /\ Listings # {} /\ Agents # {} /\ Calls # {}
    /\ Limit \in Nat \ {0} /\ MaxProofs \in Nat /\ MaxOffers \in Nat
    /\ IsFiniteSet(Calls) /\ MaxEvents \in Nat

VARIABLES
    type,     \* Listing.type, SALE for every type but AUCTION
    status,   \* Listing.status
    proofs,   \* ListingPaymentProof rows of each listing, oldest first
    offers,   \* ListingAssignment rows, oldest first
    expired,  \* the open offers whose expiresAt has passed
    cleared,  \* listings whose payment or content staff ever approved
    left,     \* listings whose owner's account is PENDING_DELETION
    auction,  \* Auction.status and .eventSequence, used for auctions only
    numbers,  \* sequence numbers of the events written of each auction
    raced,    \* auctions a decision was written over after another change
    call      \* what each call in progress has read and is about to write

bidding == <<auction, numbers, raced>>
rows == <<type, status, proofs, offers, expired, cleared, left, bidding>>
vars == <<rows, call>>

ListingStatus == {"DRAFT", "AWAITING_PAYMENT", "PENDING_REVIEW", "AWAITING_AGENT",
                  "PUBLISHED", "REJECTED", "WITHDRAWN"}
ProofStatus == {"SUBMITTED", "APPROVED", "REJECTED"}
Offer == [listing : Listings, agent : Agents,
          status : {"OFFERED", "ACCEPTED", "DECLINED"}]

AuctionStatus == {"DRAFT", "SCHEDULED", "LIVE", "PAUSED", "CANCELLED",
                  "UNSOLD", "AWAITING_SETTLEMENT"}

\* row: the number of the receipt or of the offer the call is about, or the
\* event sequence it read.
Call == [pc : {"idle", "submit", "submitProof", "reviewProof", "decide",
               "assign", "respond", "requestDeletion"},
         listing : Listings, agent : Agents, row : Nat]

NoCall == [pc |-> "idle", listing |-> CHOOSE l \in Listings : TRUE,
           agent |-> CHOOSE a \in Agents : TRUE, row |-> 0]

Auctions == {l \in Listings : type[l] = "AUCTION"}

Init ==
    /\ type \in [Listings -> {"SALE", "AUCTION"}]
    /\ status = [l \in Listings |-> "DRAFT"]
    /\ proofs = [l \in Listings |-> <<>>]
    /\ offers = <<>>
    /\ expired = {}
    /\ cleared = {}
    /\ left = {}
    /\ auction = [l \in Listings |-> [status |-> "DRAFT", eventSequence |-> 0]]
    /\ numbers = [l \in Listings |-> <<>>]
    /\ raced = {}
    /\ call = [c \in Calls |-> NoCall]

\* The call c has read what it needs and goes on to write.
Begin(c, pc, l, a, i) ==
    /\ call[c].pc = "idle"
    /\ call' = [call EXCEPT ![c] = [pc |-> pc, listing |-> l, agent |-> a, row |-> i]]
    /\ UNCHANGED rows

BeginFor(c, pc, l, i) == Begin(c, pc, l, NoCall.agent, i)

End(c) == call' = [call EXCEPT ![c] = NoCall]

----------------------------------------------------------------------------
(* The owner. *)

ReadSubmit(c) ==
    \E l \in Listings :
        /\ status[l] \in {"DRAFT", "REJECTED"}
        /\ BeginFor(c, "submit", l, 0)

Submit(c) ==
    /\ call[c].pc = "submit"
    /\ status' = [status EXCEPT ![call[c].listing] = "PENDING_REVIEW"]
    /\ End(c)
    /\ UNCHANGED <<type, proofs, offers, expired, cleared, left, bidding>>

OpenProofs(l) == {i \in DOMAIN proofs[l] : proofs[l][i] = "SUBMITTED"}

ReadSubmitProof(c) ==
    \E l \in Listings :
        /\ status[l] \in {"AWAITING_PAYMENT", "DRAFT", "REJECTED"}
        /\ OpenProofs(l) = {}
        /\ BeginFor(c, "submitProof", l, 0)

SubmitProof(c) ==
    LET l == call[c].listing
    IN  /\ call[c].pc = "submitProof"
        /\ Len(proofs[l]) < MaxProofs
        /\ proofs' = [proofs EXCEPT ![l] = Append(@, "SUBMITTED")]
        /\ status' = [status EXCEPT ![l] = "PENDING_REVIEW"]
        /\ End(c)
        /\ UNCHANGED <<type, offers, expired, cleared, left, bidding>>

\* An owner may not leave an auction that is under way.
UnderWay(l) ==
    auction[l].status \in {"SCHEDULED", "LIVE", "PAUSED",
                                             "AWAITING_SETTLEMENT"}

ReadRequestDeletion(c) ==
    \E l \in Listings \ left : ~UnderWay(l) /\ BeginFor(c, "requestDeletion", l, 0)

\* One UPDATE with its condition: a listing that waits for its payment or for
\* an agent is not in it.
Withdrawn(l) ==
    IF status[l] \in {"DRAFT", "PENDING_REVIEW", "PUBLISHED", "REJECTED"}
    THEN "WITHDRAWN" ELSE status[l]

RequestDeletion(c) ==
    LET l == call[c].listing
    IN  /\ call[c].pc = "requestDeletion"
        /\ status' = [status EXCEPT ![l] = Withdrawn(l)]
        /\ left' = left \union {l}
        /\ End(c)
        /\ UNCHANGED <<type, proofs, offers, expired, cleared, bidding>>

CancelDeletion(l) ==
    /\ l \in left
    /\ left' = left \ {l}
    /\ UNCHANGED <<type, status, proofs, offers, expired, cleared, bidding, call>>

----------------------------------------------------------------------------
(* Staff. *)

ReadReviewProof(c) ==
    \E l \in Listings : \E i \in OpenProofs(l) : BeginFor(c, "reviewProof", l, i)

\* The listing follows its receipt, whatever its status has become.
ReviewProof(c) ==
    LET l == call[c].listing
    IN  /\ call[c].pc = "reviewProof"
        /\ \/ /\ proofs' = [proofs EXCEPT ![l][call[c].row] = "APPROVED"]
              /\ status' = [status EXCEPT ![l] = "AWAITING_AGENT"]
              /\ cleared' = cleared \union {l}
           \/ /\ proofs' = [proofs EXCEPT ![l][call[c].row] = "REJECTED"]
              /\ status' = [status EXCEPT ![l] = "AWAITING_PAYMENT"]
              /\ UNCHANGED cleared
        /\ End(c)
        /\ UNCHANGED <<type, offers, expired, left, bidding>>

\* decide reads the listing together with the row of its auction.
ReadDecide(c) ==
    \E l \in Listings :
        /\ status[l] \in {"PENDING_REVIEW", "REJECTED"}
        /\ BeginFor(c, "decide", l, auction[l].eventSequence)

\* A seller's property waits for an agent, an auction needs none.
ApprovedStatus(l) == IF l \in Auctions THEN "PUBLISHED" ELSE "AWAITING_AGENT"

\* The auction opens with the number after the one that was read, whatever
\* the row has come to hold.
OpenAuction(l, seq) ==
    /\ seq <= MaxEvents
    /\ \E s \in {"SCHEDULED", "LIVE"} :
         auction' = [auction EXCEPT ![l] = [status |-> s, eventSequence |-> seq]]
    /\ numbers' = [numbers EXCEPT ![l] = Append(@, seq)]
    /\ raced' = IF auction[l].eventSequence = seq - 1 THEN raced ELSE raced \union {l}

Publish(l, seq) ==
    /\ status' = [status EXCEPT ![l] = ApprovedStatus(l)]
    /\ cleared' = cleared \union {l}
    /\ IF l \in Auctions THEN OpenAuction(l, seq) ELSE UNCHANGED bidding

Decide(c) ==
    LET l == call[c].listing
    IN  /\ call[c].pc = "decide"
        /\ \/ Publish(l, call[c].row + 1)
           \/ /\ status' = [status EXCEPT ![l] = "REJECTED"]
              /\ UNCHANGED <<cleared, bidding>>
        /\ End(c)
        /\ UNCHANGED <<type, proofs, offers, expired, left>>

\* Start, accepted bid, close, pause, resume and cancellation, each a
\* transaction that locks the row of the auction first.
AuctionMoves ==
    {<<"SCHEDULED", "LIVE">>, <<"LIVE", "LIVE">>, <<"LIVE", "PAUSED">>,
     <<"PAUSED", "LIVE">>, <<"LIVE", "UNSOLD">>, <<"LIVE", "AWAITING_SETTLEMENT">>}
    \union {<<s, "CANCELLED">> : s \in {"DRAFT", "SCHEDULED", "LIVE", "PAUSED"}}

\* Mutant: the event repeats the number of the one before.
RenumberedAuction(l, s) == [status |-> s, eventSequence |-> auction[l].eventSequence]

MovedAuction(l, s) == [status |-> s, eventSequence |-> auction[l].eventSequence + 1]

MoveAuction(l) ==
    /\ auction[l].eventSequence < MaxEvents
    /\ \E s \in AuctionStatus :
         /\ <<auction[l].status, s>> \in AuctionMoves
         /\ auction' = [auction EXCEPT ![l] = MovedAuction(l, s)]
    /\ numbers' = [numbers EXCEPT ![l] = Append(@, auction'[l].eventSequence)]
    /\ UNCHANGED <<type, status, proofs, offers, expired, cleared, left, raced, call>>

ActiveCases(a) ==
    Cardinality({i \in DOMAIN offers : /\ offers[i].agent = a
                                       /\ offers[i].status \in {"OFFERED", "ACCEPTED"}})

\* Mutant: the limit is the last caseload that is still refused nothing.
HasRoomAtLimit(a) == ActiveCases(a) <= Limit

HasRoom(a) == ActiveCases(a) < Limit

\* Mutant: the listing may be offered before it is cleared.
AssignableEarly(l) == status[l] \in {"PENDING_REVIEW", "AWAITING_AGENT"}

Assignable(l) == status[l] = "AWAITING_AGENT"

ReadAssign(c) ==
    \E l \in Listings, a \in Agents :
        /\ Assignable(l)
        /\ HasRoom(a)
        /\ \A i \in DOMAIN offers : offers[i].listing = l => offers[i].status # "OFFERED"
        /\ Begin(c, "assign", l, a, 0)

Assign(c) ==
    /\ call[c].pc = "assign"
    /\ Len(offers) < MaxOffers
    /\ offers' = Append(offers, [listing |-> call[c].listing, agent |-> call[c].agent,
                                 status |-> "OFFERED"])
    /\ End(c)
    /\ UNCHANGED <<type, status, proofs, expired, cleared, left, bidding>>

----------------------------------------------------------------------------
(* The agent. *)

Expire(i) ==
    /\ i \in DOMAIN offers \ expired
    /\ offers[i].status = "OFFERED"
    /\ expired' = expired \union {i}
    /\ UNCHANGED <<type, status, proofs, offers, cleared, left, bidding, call>>

\* An expired offer is refused; the exception undoes the update to EXPIRED.
ReadRespond(c) ==
    \E i \in DOMAIN offers \ expired :
        /\ offers[i].status = "OFFERED"
        /\ BeginFor(c, "respond", offers[i].listing, i)

\* Mutant: an answer that declines leaves the listing to the next offer.
DeclineOfferOnly(c) ==
    /\ offers' = [offers EXCEPT ![call[c].row].status = "DECLINED"]
    /\ UNCHANGED status

Decline(c) ==
    /\ offers' = [offers EXCEPT ![call[c].row].status = "DECLINED"]
    /\ status' = [status EXCEPT ![call[c].listing] = "AWAITING_AGENT"]

Accept(c) ==
    /\ offers' = [offers EXCEPT ![call[c].row].status = "ACCEPTED"]
    /\ status' = [status EXCEPT ![call[c].listing] = "PUBLISHED"]

Respond(c) ==
    /\ call[c].pc = "respond"
    /\ Accept(c) \/ Decline(c)
    /\ expired' = expired \ {call[c].row}
    /\ End(c)
    /\ UNCHANGED <<type, proofs, cleared, left, bidding>>

\* The call is refused after all, or its transaction fails.
FailCall(c) ==
    /\ call[c].pc # "idle"
    /\ End(c)
    /\ UNCHANGED rows

----------------------------------------------------------------------------
CallStep(c) == \/ ReadSubmit(c) \/ Submit(c)
               \/ ReadSubmitProof(c) \/ SubmitProof(c)
               \/ ReadReviewProof(c) \/ ReviewProof(c)
               \/ ReadDecide(c) \/ Decide(c)
               \/ ReadAssign(c) \/ Assign(c)
               \/ ReadRespond(c) \/ Respond(c)
               \/ ReadRequestDeletion(c) \/ RequestDeletion(c)
               \/ FailCall(c)

Next == \/ \E c \in Calls : CallStep(c)
        \/ \E l \in Listings : CancelDeletion(l)
        \/ \E l \in Auctions : MoveAuction(l)
        \/ \E i \in 1..MaxOffers : Expire(i)

Spec == Init /\ [][Next]_vars

----------------------------------------------------------------------------
(* Properties. *)

\* Every variable holds a value of its type; a call is about a row there is.
TypeOK ==
    /\ type \in [Listings -> {"SALE", "AUCTION"}]
    /\ status \in [Listings -> ListingStatus]
    /\ proofs \in [Listings -> Seq(ProofStatus)]
    /\ offers \in Seq(Offer)
    /\ expired \subseteq DOMAIN offers
    /\ cleared \subseteq Listings
    /\ left \subseteq Listings
    /\ auction \in [Listings -> [status : AuctionStatus, eventSequence : Nat]]
    /\ numbers \in [Listings -> Seq(Nat)]
    /\ raced \subseteq Auctions
    /\ call \in [Calls -> Call]
    /\ \A c \in Calls :
         /\ call[c].pc = "reviewProof" => call[c].row \in DOMAIN proofs[call[c].listing]
         /\ call[c].pc = "respond" => /\ call[c].row \in DOMAIN offers
                                      /\ offers[call[c].row].listing = call[c].listing

\* No overlap of answers, offers, reviews and withdrawals puts a property on
\* the market that staff never approved, or one "with no agent behind it and
\* no way to reach one" (the comment in decide); nor is it offered to an agent
\* before.
PublishedByTheRules ==
    /\ \A l \in Listings : status[l] = "PUBLISHED" => l \in cleared
    /\ \A i \in DOMAIN offers : offers[i].listing \in cleared
    /\ \A l \in Listings \ Auctions : status[l] = "PUBLISHED" =>
         \E i \in DOMAIN offers : offers[i].listing = l /\ offers[i].status = "ACCEPTED"

\* The events of an auction carry the numbers 1, 2, ... of which the page
\* tells a lost or repeated event, but for a decision that was written over a
\* row that had moved on since decide read it.
NumbersRepeatOnlyInRaces ==
    \A l \in Auctions \ raced :
        /\ numbers[l] = [i \in 1..Len(numbers[l]) |-> i]
        /\ auction[l].eventSequence = Len(numbers[l])

\* Calls that overlap can overload an agent, but only by one property for
\* each call beyond the first.
OverloadBounded == \A a \in Agents : ActiveCases(a) <= Limit + Cardinality(Calls) - 1

\* packages/contracts/src/listing-payments.ts:114: assignment is refused at
\* the hard limit, "so an agent is never silently overloaded".
NeverOverloaded == \A a \in Agents : ActiveCases(a) <= Limit

\* docs/security.md:31: on deletion "public listings are withdrawn".  None of
\* an owner who has left is published.
LeftUnlisted == \A l \in left : status[l] # "PUBLISHED"

=============================================================================
