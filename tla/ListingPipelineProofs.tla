------------------------ MODULE ListingPipelineProofs ------------------------
(***************************************************************************)
(* Theorems about a listing on its way to publication, for every number of *)
(* listings, agents and overlapping calls.  Calls decide by what they read *)
(* earlier, so the invariants say of each call under way what is still     *)
(* true of what it read: that the listing it offers was cleared, and that  *)
(* an agent's cases, those that a late answer can bring back and those     *)
(* about to be offered stay within the limit and the number of calls.      *)
(***************************************************************************)
EXTENDS ListingPipeline, FiniteSetTheorems, SequenceTheorems, TLAPS

\* A listing waits for an agent, and is offered to one, only once it is cleared.
ClearedFirst ==
    /\ \A l \in Listings : status[l] = "AWAITING_AGENT" => l \in cleared
    /\ \A c \in Calls : call[c].pc = "assign" => call[c].listing \in cleared

LEMMA NoCallType == NoCall \in Call
<1>1. /\ (CHOOSE l \in Listings : TRUE) \in Listings
      /\ (CHOOSE a \in Agents : TRUE) \in Agents
  BY PipelineAssumption
<1> QED
  BY <1>1 DEF NoCall, Call

\* What a call under way may rely on of the rows it is about.
RowsThere ==
    \A c \in Calls :
        /\ call[c].pc = "reviewProof" => call[c].row \in DOMAIN proofs[call[c].listing]
        /\ call[c].pc = "respond" => /\ call[c].row \in DOMAIN offers
                                     /\ offers[call[c].row].listing = call[c].listing

LEMMA InitType == Init => TypeOK
<1> SUFFICES ASSUME Init PROVE TypeOK
  OBVIOUS
<1>1. NoCall \in Call /\ NoCall.pc = "idle"
  BY NoCallType DEF NoCall
<1>2. call \in [Calls -> Call] /\ \A c \in Calls : call[c].pc = "idle"
  BY <1>1 DEF Init
<1>3. status \in [Listings -> ListingStatus] /\ proofs \in [Listings -> Seq(ProofStatus)]
  BY DEF Init, ListingStatus
<1>4. /\ auction \in [Listings -> [status : AuctionStatus, eventSequence : Nat]]
      /\ numbers \in [Listings -> Seq(Nat)]
  BY DEF Init, AuctionStatus
<1> QED
  BY <1>2, <1>3, <1>4 DEF Init, TypeOK

\* A call begins with what it has read; every other call goes on.
LEMMA BeginType ==
    ASSUME TypeOK, NEW c \in Calls, NEW pc, NEW l \in Listings, NEW a \in Agents,
           NEW i \in Nat, Begin(c, pc, l, a, i),
           pc \in {"submit", "submitProof", "decide", "assign", "requestDeletion",
                   "reviewProof", "respond"},
           pc = "reviewProof" => i \in DOMAIN proofs[l],
           pc = "respond" => i \in DOMAIN offers /\ offers[i].listing = l
    PROVE  TypeOK'
<1> DEFINE new == [pc |-> pc, listing |-> l, agent |-> a, row |-> i]
<1>1. new \in Call
  BY DEF Call
<1>2. new.pc = pc /\ new.listing = l /\ new.row = i
  OBVIOUS
<1>3. call' = [call EXCEPT ![c] = new] /\ call \in [Calls -> Call]
  BY DEF Begin, TypeOK
<1> HIDE DEF new
<1>4. call' \in [Calls -> Call] /\ call'[c] = new
      /\ \A d \in Calls \ {c} : call'[d] = call[d]
  BY <1>1, <1>3
<1>5. UNCHANGED rows
  BY DEF Begin
<1>6. RowsThere'
  BY <1>2, <1>4, <1>5 DEF TypeOK, RowsThere, rows
<1> QED
  BY <1>4, <1>5, <1>6 DEF TypeOK, RowsThere, rows, bidding, Auctions

\* A call that reads is described by what it goes on to write.
LEMMA ReadsBegin ==
    ASSUME TypeOK, NEW c \in Calls,
           \/ ReadSubmit(c) \/ ReadSubmitProof(c) \/ ReadRequestDeletion(c)
           \/ ReadReviewProof(c) \/ ReadDecide(c) \/ ReadAssign(c) \/ ReadRespond(c)
    PROVE  \E pc \in {"submit", "submitProof", "decide", "assign", "requestDeletion",
                      "reviewProof", "respond"},
              l \in Listings, a \in Agents, i \in Nat :
             /\ Begin(c, pc, l, a, i)
             /\ pc = "reviewProof" => i \in DOMAIN proofs[l]
             /\ pc = "respond" => /\ i \in DOMAIN offers /\ offers[i].listing = l
                                  /\ offers[i].status = "OFFERED"
             /\ pc = "assign" => Assignable(l) /\ HasRoom(a)
<1>1. NoCall.agent \in Agents
  BY NoCallType DEF Call
<1>2. CASE ReadSubmit(c)
  BY <1>1, <1>2 DEF ReadSubmit, BeginFor
<1>3. CASE ReadSubmitProof(c)
  BY <1>1, <1>3 DEF ReadSubmitProof, BeginFor
<1>4. CASE ReadRequestDeletion(c)
  BY <1>1, <1>4 DEF ReadRequestDeletion, BeginFor
<1>5. CASE ReadReviewProof(c)
  <2>0. PICK l \in Listings : \E i \in OpenProofs(l) : BeginFor(c, "reviewProof", l, i)
    BY <1>5 DEF ReadReviewProof
  <2>1. PICK i \in OpenProofs(l) : BeginFor(c, "reviewProof", l, i)
    BY <2>0
  <2>2. i \in DOMAIN proofs[l] /\ i \in Nat
    BY DEF OpenProofs, TypeOK
  <2> QED
    BY <1>1, <2>1, <2>2 DEF BeginFor
<1>6. CASE ReadDecide(c)
  <2>1. PICK l \in Listings : BeginFor(c, "decide", l, auction[l].eventSequence)
    BY <1>6 DEF ReadDecide
  <2>2. auction[l].eventSequence \in Nat
    BY DEF TypeOK
  <2> QED
    BY <1>1, <2>1, <2>2 DEF BeginFor
<1>7. CASE ReadAssign(c)
  BY <1>7 DEF ReadAssign
<1>8. CASE ReadRespond(c)
  <2>1. PICK i \in DOMAIN offers : /\ offers[i].status = "OFFERED"
                                   /\ BeginFor(c, "respond", offers[i].listing, i)
    BY <1>8 DEF ReadRespond
  <2>2. i \in Nat /\ offers[i].listing \in Listings
    <3>1. offers[i] \in Offer
      BY DEF TypeOK
    <3> QED
      BY <3>1 DEF TypeOK, Offer
  <2> QED
    BY <1>1, <2>1, <2>2 DEF BeginFor
<1> QED
  BY <1>2, <1>3, <1>4, <1>5, <1>6, <1>7, <1>8

\* A call that ends leaves nothing to rely on.
LEMMA EndCall ==
    ASSUME call \in [Calls -> Call], NEW c \in Calls, End(c)
    PROVE  /\ call' \in [Calls -> Call] /\ call'[c].pc = "idle"
           /\ \A d \in Calls \ {c} : call'[d] = call[d]
BY NoCallType DEF End, NoCall

\* Changes to the rows that keep what calls rely on.
LEMMA EndKeepsRows ==
    ASSUME TypeOK, NEW c \in Calls, End(c),
           \A l \in Listings : DOMAIN proofs[l] \subseteq DOMAIN proofs'[l],
           \A i \in DOMAIN offers : /\ i \in DOMAIN offers'
                                    /\ offers'[i].listing = offers[i].listing
    PROVE  call' \in [Calls -> Call] /\ RowsThere'
<1>1. /\ call \in [Calls -> Call]
      /\ call' \in [Calls -> Call] /\ call'[c].pc = "idle"
      /\ \A d \in Calls \ {c} : call'[d] = call[d]
  BY EndCall DEF TypeOK
<1>2. RowsThere /\ \A d \in Calls : call[d].listing \in Listings
  BY DEF TypeOK, RowsThere, Call
<1> QED
  BY <1>1, <1>2 DEF RowsThere

\* The row of an auction that moves on.
LEMMA MoveAuctionType ==
    ASSUME TypeOK, NEW l \in Auctions, MoveAuction(l)
    PROVE  TypeOK' /\ auction'[l].eventSequence = auction[l].eventSequence + 1
           /\ auction' = [auction EXCEPT ![l] = auction'[l]]
<1>1. l \in Listings /\ auction[l].eventSequence \in Nat
  BY DEF Auctions, TypeOK
<1>2. PICK s \in AuctionStatus : auction' = [auction EXCEPT ![l] = MovedAuction(l, s)]
  BY DEF MoveAuction
<1>3. /\ MovedAuction(l, s) \in [status : AuctionStatus, eventSequence : Nat]
      /\ MovedAuction(l, s).eventSequence = auction[l].eventSequence + 1
  BY <1>1 DEF MovedAuction
<1>4. /\ auction' \in [Listings -> [status : AuctionStatus, eventSequence : Nat]]
      /\ auction'[l] = MovedAuction(l, s)
  BY <1>1, <1>2, <1>3 DEF TypeOK
<1>5. numbers' \in [Listings -> Seq(Nat)]
  BY <1>1, <1>3, <1>4 DEF MoveAuction, TypeOK
<1> QED
  BY <1>2, <1>3, <1>4, <1>5 DEF MoveAuction, TypeOK, Auctions

LEMMA PublishType ==
    ASSUME TypeOK, NEW l \in Listings, NEW seq \in Nat, Publish(l, seq),
           type' = type
    PROVE  /\ status' \in [Listings -> ListingStatus] /\ cleared' \subseteq Listings
           /\ auction' \in [Listings -> [status : AuctionStatus, eventSequence : Nat]]
           /\ numbers' \in [Listings -> Seq(Nat)] /\ raced' \subseteq Auctions'
<1>1. status' \in [Listings -> ListingStatus] /\ cleared' \subseteq Listings
  BY DEF Publish, ApprovedStatus, ListingStatus, TypeOK
<1>2. CASE l \notin Auctions
  BY <1>1, <1>2 DEF Publish, bidding, TypeOK, Auctions
<1>3. CASE l \in Auctions
  <2>1. OpenAuction(l, seq)
    BY <1>3 DEF Publish
  <2>2. PICK s \in {"SCHEDULED", "LIVE"} :
          auction' = [auction EXCEPT ![l] = [status |-> s, eventSequence |-> seq]]
    BY <2>1 DEF OpenAuction
  <2>3. [status |-> s, eventSequence |-> seq] \in [status : AuctionStatus, eventSequence : Nat]
    BY DEF AuctionStatus
  <2>4. auction' \in [Listings -> [status : AuctionStatus, eventSequence : Nat]]
    BY <2>2, <2>3 DEF TypeOK
  <2>5. numbers' \in [Listings -> Seq(Nat)]
    BY <2>1 DEF OpenAuction, TypeOK
  <2>6. raced' \subseteq Auctions'
    BY <1>3, <2>1 DEF OpenAuction, TypeOK, Auctions
  <2> QED
    BY <1>1, <2>4, <2>5, <2>6
<1> QED
  BY <1>2, <1>3

LEMMA NextType == TypeOK /\ [Next]_vars => TypeOK'
<1> SUFFICES ASSUME TypeOK, [Next]_vars PROVE TypeOK'
  OBVIOUS
<1>1. ASSUME NEW c \in Calls,
             \/ ReadSubmit(c) \/ ReadSubmitProof(c) \/ ReadRequestDeletion(c)
             \/ ReadReviewProof(c) \/ ReadDecide(c) \/ ReadAssign(c) \/ ReadRespond(c)
      PROVE  TypeOK'
  BY <1>1, ReadsBegin, BeginType
<1>2. ASSUME NEW c \in Calls,
             Submit(c) \/ RequestDeletion(c) \/ Decide(c) \/ FailCall(c)
      PROVE  TypeOK'
  <2>1. call[c].listing \in Listings /\ call[c].row + 1 \in Nat
    BY DEF TypeOK, Call
  <2>2. UNCHANGED <<type, proofs, offers, expired>> /\ End(c)
    BY <1>2 DEF Submit, RequestDeletion, Decide, FailCall, rows
  <2>3. call' \in [Calls -> Call] /\ RowsThere'
    BY <2>2, EndKeepsRows
  <2>4. CASE Submit(c)
    BY <2>1, <2>2, <2>3, <2>4 DEF Submit, TypeOK, RowsThere, ListingStatus, bidding, Auctions
  <2>5. CASE RequestDeletion(c)
    BY <2>1, <2>2, <2>3, <2>5 DEF RequestDeletion, Withdrawn, TypeOK, RowsThere,
       ListingStatus, bidding, Auctions
  <2>6. CASE Decide(c)
    <3>1. CASE Publish(call[c].listing, call[c].row + 1)
      BY <2>1, <2>2, <2>3, <2>6, <3>1, PublishType DEF Decide, TypeOK, RowsThere
    <3>2. CASE /\ status' = [status EXCEPT ![call[c].listing] = "REJECTED"]
               /\ UNCHANGED <<cleared, bidding>>
      BY <2>1, <2>2, <2>3, <2>6, <3>2 DEF Decide, TypeOK, RowsThere, ListingStatus,
         bidding, Auctions
    <3> QED
      BY <2>6, <3>1, <3>2 DEF Decide
  <2>7. CASE FailCall(c)
    BY <2>3, <2>7 DEF FailCall, TypeOK, RowsThere, rows, bidding, Auctions
  <2> QED
    BY <1>2, <2>4, <2>5, <2>6, <2>7
<1>3. ASSUME NEW c \in Calls, SubmitProof(c) PROVE TypeOK'
  <2>1. call[c].listing \in Listings
    BY DEF TypeOK, Call
  <2>2. /\ proofs' \in [Listings -> Seq(ProofStatus)]
        /\ \A l \in Listings : DOMAIN proofs[l] \subseteq DOMAIN proofs'[l]
    BY <1>3, <2>1 DEF SubmitProof, TypeOK, ProofStatus
  <2>3. call' \in [Calls -> Call] /\ RowsThere'
    BY <1>3, <2>2, EndKeepsRows DEF SubmitProof
  <2> QED
    BY <1>3, <2>1, <2>2, <2>3 DEF SubmitProof, TypeOK, RowsThere, ListingStatus,
       bidding, Auctions
<1>4. ASSUME NEW c \in Calls, ReviewProof(c) PROVE TypeOK'
  <2>1. call[c].listing \in Listings /\ call[c].row \in DOMAIN proofs[call[c].listing]
    BY <1>4 DEF ReviewProof, TypeOK, Call
  <2>2. /\ proofs' \in [Listings -> Seq(ProofStatus)]
        /\ \A l \in Listings : DOMAIN proofs[l] \subseteq DOMAIN proofs'[l]
    <3> DEFINE l == call[c].listing
               i == call[c].row
    <3>1. PICK s \in ProofStatus : proofs' = [proofs EXCEPT ![l][i] = s]
      BY <1>4 DEF ReviewProof, ProofStatus
    <3>2. proofs[l] \in Seq(ProofStatus)
      BY <2>1 DEF TypeOK
    <3>3. /\ [proofs[l] EXCEPT ![i] = s] \in Seq(ProofStatus)
          /\ DOMAIN [proofs[l] EXCEPT ![i] = s] = DOMAIN proofs[l]
      BY <2>1, <3>2
    <3> QED
      BY <2>1, <3>1, <3>3 DEF TypeOK
  <2>3. call' \in [Calls -> Call] /\ RowsThere'
    BY <1>4, <2>2, EndKeepsRows DEF ReviewProof
  <2>4. status' \in [Listings -> ListingStatus] /\ cleared' \subseteq Listings
    BY <1>4, <2>1 DEF ReviewProof, TypeOK, ListingStatus
  <2> QED
    BY <1>4, <2>2, <2>3, <2>4 DEF ReviewProof, TypeOK, RowsThere, bidding, Auctions
<1>5. ASSUME NEW c \in Calls, Assign(c) PROVE TypeOK'
  <2> DEFINE o == [listing |-> call[c].listing, agent |-> call[c].agent,
                   status |-> "OFFERED"]
  <2>1. o \in Offer
    BY DEF TypeOK, Call, Offer
  <2>2. offers' = Append(offers, o) /\ offers \in Seq(Offer)
    BY <1>5 DEF Assign, TypeOK
  <2> HIDE DEF o
  <2>3. /\ offers' \in Seq(Offer)
        /\ \A i \in DOMAIN offers : i \in DOMAIN offers' /\ offers'[i] = offers[i]
    BY <2>1, <2>2
  <2>4. call' \in [Calls -> Call] /\ RowsThere'
    BY <1>5, <2>3, EndKeepsRows DEF Assign
  <2> QED
    BY <1>5, <2>3, <2>4 DEF Assign, TypeOK, RowsThere, bidding, Auctions
<1>6. ASSUME NEW c \in Calls, Respond(c) PROVE TypeOK'
  <2>1. /\ call[c].listing \in Listings /\ call[c].row \in DOMAIN offers
        /\ offers[call[c].row] \in Offer /\ offers \in Seq(Offer)
    BY <1>6 DEF Respond, TypeOK, Call
  <2>2. PICK s \in {"ACCEPTED", "DECLINED"} :
          offers' = [offers EXCEPT ![call[c].row].status = s]
    BY <1>6 DEF Respond, Accept, Decline
  <2>3. [offers[call[c].row] EXCEPT !.status = s] \in Offer
    BY <2>1 DEF Offer
  <2>4. /\ offers' \in Seq(Offer) /\ DOMAIN offers' = DOMAIN offers
        /\ \A i \in DOMAIN offers : offers'[i].listing = offers[i].listing
    BY <2>1, <2>2, <2>3 DEF Offer
  <2>5. call' \in [Calls -> Call] /\ RowsThere'
    BY <1>6, <2>4, EndKeepsRows DEF Respond
  <2>6. status' \in [Listings -> ListingStatus]
    BY <1>6, <2>1 DEF Respond, Accept, Decline, TypeOK, ListingStatus
  <2> QED
    BY <1>6, <2>4, <2>5, <2>6 DEF Respond, TypeOK, RowsThere, bidding, Auctions
<1>7. ASSUME NEW l \in Listings, CancelDeletion(l) PROVE TypeOK'
  BY <1>7 DEF CancelDeletion, TypeOK, bidding, Auctions
<1>8. ASSUME NEW l \in Auctions, MoveAuction(l) PROVE TypeOK'
  BY <1>8, MoveAuctionType
<1>9. ASSUME NEW i \in 1..MaxOffers, Expire(i) PROVE TypeOK'
  BY <1>9 DEF Expire, TypeOK, bidding, Auctions
<1>10. CASE UNCHANGED vars
  BY <1>10 DEF vars, rows, bidding, TypeOK, Auctions
<1> QED
  BY <1>1, <1>2, <1>3, <1>4, <1>5, <1>6, <1>7, <1>8, <1>9, <1>10 DEF Next, CallStep

LEMMA AlwaysTyped == Spec => []TypeOK
<1> QED
  BY InitType, NextType, PTL DEF Spec

\* Every reachable value has its type, and no call is about a row that is gone.
THEOREM TypeCorrect == Spec => []TypeOK
BY AlwaysTyped, PTL


----------------------------------------------------------------------------
(* Publication.  Nothing is offered or published that was not cleared: the *)
(* clearance is never taken back, so that what a call read of it stays     *)
(* true; and the writes of an answer go together, so that a property is    *)
(* never published by an answer that another one overwrote.                *)

PInv == TypeOK /\ ClearedFirst /\ PublishedByTheRules

\* A call that only reads.
LEMMA ReadPublished ==
    ASSUME PInv, NEW c \in Calls,
           \/ ReadSubmit(c) \/ ReadSubmitProof(c) \/ ReadRequestDeletion(c)
           \/ ReadReviewProof(c) \/ ReadDecide(c) \/ ReadAssign(c) \/ ReadRespond(c)
    PROVE  ClearedFirst' /\ PublishedByTheRules'
<1>1. TypeOK /\ call \in [Calls -> Call]
  BY DEF PInv, TypeOK
<1>2. PICK pc \in {"submit", "submitProof", "decide", "assign", "requestDeletion",
                   "reviewProof", "respond"},
           l \in Listings, a \in Agents, i \in Nat :
             Begin(c, pc, l, a, i) /\ (pc = "assign" => Assignable(l))
  BY <1>1, ReadsBegin
<1>3. /\ call'[c].pc = pc /\ call'[c].listing = l
      /\ \A d \in Calls \ {c} : call'[d] = call[d]
      /\ UNCHANGED rows
  BY <1>1, <1>2 DEF Begin
<1> QED
  BY <1>2, <1>3 DEF PInv, ClearedFirst, PublishedByTheRules, Assignable, rows, Auctions

\* A call that ends, with the clearances it found.
LEMMA EndCleared ==
    ASSUME PInv, NEW c \in Calls, End(c), cleared \subseteq cleared'
    PROVE  \A d \in Calls : call'[d].pc = "assign" => call'[d].listing \in cleared'
<1>1. /\ call'[c].pc = "idle"
      /\ \A d \in Calls \ {c} : call'[d] = call[d]
  BY EndCall DEF PInv, TypeOK
<1> QED
  BY <1>1 DEF PInv, ClearedFirst

\* The writes of owner and staff other than an offer.
LEMMA WritePublished ==
    ASSUME PInv, NEW c \in Calls,
           \/ Submit(c) \/ SubmitProof(c) \/ RequestDeletion(c) \/ ReviewProof(c)
           \/ Decide(c) \/ FailCall(c)
    PROVE  ClearedFirst' /\ PublishedByTheRules'
<1>1. /\ End(c) /\ cleared \subseteq cleared' /\ UNCHANGED <<type, offers>>
      /\ call[c].listing \in Listings /\ status \in [Listings -> ListingStatus]
  BY DEF Submit, SubmitProof, RequestDeletion, ReviewProof, Decide, Publish, FailCall,
         rows, PInv, TypeOK, Call
<1>2. \A l \in Listings :
         \/ status'[l] = status[l]
         \/ status'[l] \notin {"PUBLISHED", "AWAITING_AGENT"}
         \/ l \in cleared' /\ (status'[l] = "PUBLISHED" => l \in Auctions)
  BY <1>1 DEF Submit, SubmitProof, RequestDeletion, Withdrawn, ReviewProof, Decide,
              Publish, ApprovedStatus, FailCall, rows
<1>3. Auctions' = Auctions
  BY <1>1 DEF Auctions
<1>4. \A d \in Calls : call'[d].pc = "assign" => call'[d].listing \in cleared'
  BY <1>1, EndCleared
<1>5. ClearedFirst'
  BY <1>1, <1>2, <1>4 DEF PInv, ClearedFirst
<1>6. /\ \A l \in Listings : status'[l] = "PUBLISHED" => l \in cleared'
      /\ \A i \in DOMAIN offers' : offers'[i].listing \in cleared'
  BY <1>1, <1>2 DEF PInv, PublishedByTheRules
<1>7. \A l \in Listings \ Auctions' : status'[l] = "PUBLISHED" =>
         \E i \in DOMAIN offers' : offers'[i].listing = l /\ offers'[i].status = "ACCEPTED"
  <2> SUFFICES ASSUME NEW l \in Listings \ Auctions, status'[l] = "PUBLISHED"
               PROVE  \E i \in DOMAIN offers : /\ offers[i].listing = l
                                               /\ offers[i].status = "ACCEPTED"
    BY <1>1, <1>3
  <2>1. status[l] = "PUBLISHED"
    BY <1>2
  <2> QED
    BY <2>1 DEF PInv, PublishedByTheRules
<1> QED
  BY <1>5, <1>6, <1>7 DEF PublishedByTheRules

\* An offer is of a listing that was cleared when it was read.
LEMMA AssignPublished ==
    ASSUME PInv, NEW c \in Calls, Assign(c)
    PROVE  ClearedFirst' /\ PublishedByTheRules'
<1> DEFINE o == [listing |-> call[c].listing, agent |-> call[c].agent,
                 status |-> "OFFERED"]
<1>1. /\ o \in Offer /\ o.listing = call[c].listing
      /\ offers' = Append(offers, o) /\ offers \in Seq(Offer)
  BY DEF PInv, TypeOK, Call, Offer, Assign
<1>2. call[c].listing \in cleared
  BY DEF PInv, ClearedFirst, Assign
<1>3. \A d \in Calls : call'[d].pc = "assign" => call'[d].listing \in cleared'
  BY EndCleared DEF Assign
<1> HIDE DEF o
<1>4. /\ \A i \in DOMAIN offers : i \in DOMAIN offers' /\ offers'[i] = offers[i]
      /\ \A i \in DOMAIN offers' : i \in DOMAIN offers \/ offers'[i] = o
  BY <1>1
<1> QED
  BY <1>1, <1>2, <1>3, <1>4 DEF PInv, ClearedFirst, PublishedByTheRules, Assign, Auctions

\* An answer moves the listing together with its offer.
LEMMA RespondPublished ==
    ASSUME PInv, NEW c \in Calls, Respond(c)
    PROVE  ClearedFirst' /\ PublishedByTheRules'
<1> DEFINE l == call[c].listing
           n == call[c].row
<1>1. /\ l \in Listings /\ n \in DOMAIN offers /\ offers[n] \in Offer
      /\ offers[n].listing = l
      /\ status \in [Listings -> ListingStatus] /\ offers \in Seq(Offer)
  BY DEF PInv, TypeOK, Call, Respond
<1>2. l \in cleared
  BY <1>1 DEF PInv, PublishedByTheRules
<1>3. \A d \in Calls : call'[d].pc = "assign" => call'[d].listing \in cleared'
  BY EndCleared DEF Respond
<1>4. UNCHANGED <<type, cleared>>
  BY DEF Respond
<1>5. PICK s \in {"ACCEPTED", "DECLINED"} :
        /\ offers' = [offers EXCEPT ![n].status = s]
        /\ status' = [status EXCEPT ![l] = IF s = "ACCEPTED" THEN "PUBLISHED"
                                           ELSE "AWAITING_AGENT"]
  BY DEF Respond, Accept, Decline
<1>6. /\ DOMAIN offers' = DOMAIN offers
      /\ offers'[n].status = s /\ offers'[n].listing = l
      /\ \A i \in DOMAIN offers \ {n} : offers'[i] = offers[i]
  BY <1>1, <1>5 DEF Offer
<1> HIDE DEF l, n
<1>7. ClearedFirst'
  BY <1>1, <1>2, <1>3, <1>4, <1>5 DEF PInv, ClearedFirst
<1>8. /\ \A k \in Listings : status'[k] = "PUBLISHED" => k \in cleared'
      /\ \A i \in DOMAIN offers' : offers'[i].listing \in cleared'
  BY <1>1, <1>2, <1>4, <1>5, <1>6 DEF PInv, PublishedByTheRules
<1>9. \A k \in Listings \ Auctions' : status'[k] = "PUBLISHED" =>
         \E i \in DOMAIN offers' : offers'[i].listing = k /\ offers'[i].status = "ACCEPTED"
  <2> SUFFICES ASSUME NEW k \in Listings \ Auctions, status'[k] = "PUBLISHED"
               PROVE  \E i \in DOMAIN offers' : /\ offers'[i].listing = k
                                                /\ offers'[i].status = "ACCEPTED"
    BY <1>4 DEF Auctions
  <2>1. CASE k = l
    BY <1>1, <1>5, <1>6, <2>1
  <2>2. CASE k # l
    <3>1. PICK i \in DOMAIN offers : offers[i].listing = k /\ offers[i].status = "ACCEPTED"
      BY <1>1, <1>5, <2>2 DEF PInv, PublishedByTheRules
    <3>2. i # n
      BY <1>1, <2>2, <3>1
    <3> QED
      BY <1>6, <3>1, <3>2
  <2> QED
    BY <2>1, <2>2
<1> QED
  BY <1>7, <1>8, <1>9 DEF PublishedByTheRules

LEMMA NextPublished == PInv /\ [Next]_vars => PInv'
<1> SUFFICES ASSUME PInv, [Next]_vars PROVE ClearedFirst' /\ PublishedByTheRules'
  BY NextType DEF PInv
<1>1. CASE \E c \in Calls : CallStep(c)
  BY <1>1, ReadPublished, WritePublished, AssignPublished, RespondPublished DEF CallStep
<1>2. CASE \/ \E l \in Listings : CancelDeletion(l)
           \/ \E l \in Auctions : MoveAuction(l)
           \/ \E i \in 1..MaxOffers : Expire(i)
           \/ UNCHANGED vars
  <2>1. UNCHANGED <<type, status, offers, cleared, call>>
    BY <1>2 DEF CancelDeletion, MoveAuction, Expire, vars, rows
  <2> QED
    BY <2>1 DEF PInv, ClearedFirst, PublishedByTheRules, Auctions
<1> QED
  BY <1>1, <1>2 DEF Next

\* Nothing is published or offered that staff did not clear, and no property
\* is on the market without an agent who accepted it: in every overlap of any
\* number of calls.
THEOREM PublicationCorrect == Spec => []PublishedByTheRules
<1>1. Init => PInv
  <2>1. Init => ClearedFirst /\ PublishedByTheRules
    BY DEF Init, ClearedFirst, PublishedByTheRules, NoCall
  <2> QED
    BY <2>1, InitType DEF PInv
<1>2. PInv => PublishedByTheRules
  BY DEF PInv
<1> QED
  BY <1>1, <1>2, NextPublished, PTL DEF Spec

----------------------------------------------------------------------------
(* Event numbers. *)

\* Counting on by one.
LEMMA CountedOn ==
    ASSUME NEW s \in Seq(Nat), s = [i \in 1..Len(s) |-> i], NEW n, n = Len(s) + 1
    PROVE  /\ Append(s, n) = [i \in 1..Len(Append(s, n)) |-> i]
           /\ Len(Append(s, n)) = n
<1> DEFINE t == Append(s, n)
           u == [i \in 1..n |-> i]
<1>1. Len(s) \in Nat /\ n \in Nat
  OBVIOUS
<1>2. t \in Seq(Nat) /\ Len(t) = n /\ t[n] = n /\ \A i \in 1..Len(s) : t[i] = s[i]
  BY <1>1
<1>3. u \in Seq(Nat) /\ Len(u) = n /\ \A i \in 1..n : u[i] = i
  BY <1>1
<1>4. \A i \in 1..Len(s) : s[i] = i
  OBVIOUS
<1>5. \A i \in 1..n : t[i] = u[i]
  BY <1>1, <1>2, <1>3, <1>4
<1> HIDE DEF t, u
<1>6. t = u
  BY <1>2, <1>3, <1>5, SeqEqual
<1> QED
  BY <1>2, <1>6 DEF t, u

\* A step that leaves an auction alone, or counts on, keeps its numbers.
LEMMA NumbersKept ==
    ASSUME TypeOK, NumbersRepeatOnlyInRaces, Auctions' = Auctions, raced \subseteq raced',
           \A l \in Auctions \ raced' :
               \/ numbers'[l] = numbers[l] /\ auction'[l] = auction[l]
               \/ /\ auction'[l].eventSequence = auction[l].eventSequence + 1
                  /\ numbers'[l] = Append(numbers[l], auction[l].eventSequence + 1)
    PROVE  NumbersRepeatOnlyInRaces'
<1> SUFFICES ASSUME NEW l \in Auctions \ raced'
             PROVE  /\ numbers'[l] = [i \in 1..Len(numbers'[l]) |-> i]
                    /\ auction'[l].eventSequence = Len(numbers'[l])
  BY DEF NumbersRepeatOnlyInRaces
<1>1. /\ numbers[l] \in Seq(Nat) /\ numbers[l] = [i \in 1..Len(numbers[l]) |-> i]
      /\ auction[l].eventSequence = Len(numbers[l])
  BY DEF TypeOK, NumbersRepeatOnlyInRaces, Auctions
<1>2. CASE numbers'[l] = numbers[l] /\ auction'[l] = auction[l]
  BY <1>1, <1>2
<1>3. CASE /\ auction'[l].eventSequence = auction[l].eventSequence + 1
           /\ numbers'[l] = Append(numbers[l], auction[l].eventSequence + 1)
  BY <1>1, <1>3, CountedOn
<1> QED
  BY <1>2, <1>3

LEMMA NextNumbers ==
    ASSUME TypeOK, NumbersRepeatOnlyInRaces, [Next]_vars
    PROVE  NumbersRepeatOnlyInRaces'
<1>1. CASE UNCHANGED <<type, bidding>>
  BY <1>1 DEF NumbersRepeatOnlyInRaces, bidding, Auctions
<1>2. ASSUME NEW l \in Auctions, MoveAuction(l) PROVE NumbersRepeatOnlyInRaces'
  <2>1. /\ auction'[l].eventSequence = auction[l].eventSequence + 1
        /\ auction' = [auction EXCEPT ![l] = auction'[l]]
        /\ numbers' = [numbers EXCEPT ![l] = Append(@, auction[l].eventSequence + 1)]
    BY <1>2, MoveAuctionType DEF MoveAuction
  <2>2. l \in Listings /\ UNCHANGED <<type, raced>>
    BY <1>2 DEF MoveAuction, Auctions
  <2>3. \A k \in Listings \ {l} : auction'[k] = auction[k] /\ numbers'[k] = numbers[k]
    BY <2>1 DEF TypeOK
  <2>4. numbers'[l] = Append(numbers[l], auction[l].eventSequence + 1)
    BY <2>1, <2>2 DEF TypeOK
  <2> QED
    BY <2>1, <2>2, <2>3, <2>4, NumbersKept DEF Auctions
<1>3. ASSUME NEW c \in Calls, Decide(c) PROVE NumbersRepeatOnlyInRaces'
  <2> DEFINE l == call[c].listing
             n == call[c].row + 1
  <2>1. l \in Listings /\ call[c].row \in Nat /\ type' = type
    BY <1>3 DEF Decide, TypeOK, Call
  <2>2. CASE UNCHANGED bidding
    BY <1>1, <2>1, <2>2
  <2>3. CASE Publish(l, n) /\ l \in Auctions
    <3>1. OpenAuction(l, n)
      BY <2>3 DEF Publish
    <3>2. PICK s \in {"SCHEDULED", "LIVE"} :
            auction' = [auction EXCEPT ![l] = [status |-> s, eventSequence |-> n]]
      BY <3>1 DEF OpenAuction
    <3>3. auction[l].eventSequence \in Nat
      BY <2>1 DEF TypeOK
    <3>4. /\ auction'[l].eventSequence = n
          /\ numbers'[l] = Append(numbers[l], n)
          /\ l \notin raced' => auction[l].eventSequence + 1 = n
          /\ raced \subseteq raced'
          /\ \A k \in Listings \ {l} : auction'[k] = auction[k] /\ numbers'[k] = numbers[k]
      BY <2>1, <3>1, <3>2, <3>3 DEF OpenAuction, TypeOK
    <3> QED
      BY <2>1, <3>4, NumbersKept DEF Auctions
  <2> QED
    BY <1>3, <2>2, <2>3 DEF Decide, Publish
<1>4. CASE \/ \E c \in Calls : CallStep(c) /\ ~Decide(c)
           \/ \E l \in Listings : CancelDeletion(l)
           \/ \E i \in 1..MaxOffers : Expire(i)
           \/ UNCHANGED vars
  <2>1. UNCHANGED <<type, bidding>>
    BY <1>4 DEF CallStep, ReadSubmit, Submit, ReadSubmitProof, SubmitProof,
       ReadReviewProof, ReviewProof, ReadDecide, ReadAssign, Assign, ReadRespond,
       Respond, ReadRequestDeletion, RequestDeletion, FailCall, Begin, BeginFor,
       CancelDeletion, Expire, vars, rows
  <2> QED
    BY <1>1, <2>1
<1> QED
  BY <1>2, <1>3, <1>4 DEF Next

\* The events of an auction carry 1, 2, 3, ... unless a decision was written
\* over a row that had moved on.
THEOREM NumbersCorrect == Spec => []NumbersRepeatOnlyInRaces
<1>1. Init => NumbersRepeatOnlyInRaces
  BY DEF Init, NumbersRepeatOnlyInRaces, Auctions
<1>2. TypeOK /\ NumbersRepeatOnlyInRaces /\ [Next]_vars => NumbersRepeatOnlyInRaces'
  BY NextNumbers
<1> QED
  BY <1>1, <1>2, AlwaysTyped, PTL DEF Spec

----------------------------------------------------------------------------
(* Overload.  The active cases alone are not inductive: an answer under    *)
(* way can bring back an offer that another answer declined, and an offer  *)
(* that was read to fit is still to be made.  Counted with both, the cases *)
(* grow only where an offer is read, and there the caseload was below the  *)
(* limit and everything else is a call under way.                          *)

\* The offers to agent a that are open, accepted or may still become so.
LiveOffers(a) ==
    {i \in DOMAIN offers :
        /\ offers[i].agent = a
        /\ \/ offers[i].status \in {"OFFERED", "ACCEPTED"}
           \/ \E c \in Calls : call[c].pc = "respond" /\ call[c].row = i}

\* The calls about to make agent a an offer.
Pending(a) == {c \in Calls : call[c].pc = "assign" /\ call[c].agent = a}

LoadBounded ==
    \A a \in Agents :
        Cardinality(LiveOffers(a)) + Cardinality(Pending(a))
          <= Limit + Cardinality(Calls) - 1

\* There are finitely many offers and calls to count.
LEMMA Finite ==
    ASSUME TypeOK, NEW a
    PROVE  /\ IsFiniteSet(DOMAIN offers) /\ IsFiniteSet(LiveOffers(a))
           /\ IsFiniteSet(Pending(a)) /\ IsFiniteSet(Calls)
           /\ Cardinality(LiveOffers(a)) \in Nat /\ Cardinality(Pending(a)) \in Nat
           /\ Cardinality(Calls) \in Nat
<1>1. PICK n \in Nat : DOMAIN offers = 1..n
  BY DEF TypeOK
<1>2. IsFiniteSet(DOMAIN offers)
  BY <1>1, FS_Interval
<1>3. LiveOffers(a) \in SUBSET DOMAIN offers /\ Pending(a) \in SUBSET Calls
  BY DEF LiveOffers, Pending
<1>4. IsFiniteSet(LiveOffers(a)) /\ IsFiniteSet(Pending(a)) /\ IsFiniteSet(Calls)
  BY <1>2, <1>3, FS_Subset, PipelineAssumption
<1> QED
  BY <1>2, <1>4, FS_CardinalityType

\* What does not grow stays bounded.
LEMMA NotMore ==
    ASSUME TypeOK, LoadBounded,
           \A a \in Agents : LiveOffers(a)' \subseteq LiveOffers(a)
                             /\ Pending(a)' \subseteq Pending(a)
    PROVE  LoadBounded'
<1> SUFFICES ASSUME NEW a \in Agents
             PROVE  Cardinality(LiveOffers(a)') + Cardinality(Pending(a)')
                      <= Limit + Cardinality(Calls) - 1
  BY DEF LoadBounded
<1>1. /\ Cardinality(LiveOffers(a)') <= Cardinality(LiveOffers(a))
      /\ Cardinality(Pending(a)') <= Cardinality(Pending(a))
      /\ IsFiniteSet(LiveOffers(a)') /\ IsFiniteSet(Pending(a)')
  BY Finite, FS_Subset
<1>2. Cardinality(LiveOffers(a)') \in Nat /\ Cardinality(Pending(a)') \in Nat
  BY <1>1, FS_CardinalityType
<1>3. Cardinality(LiveOffers(a)) + Cardinality(Pending(a))
        <= Limit + Cardinality(Calls) - 1
  BY DEF LoadBounded
<1> QED
  BY <1>1, <1>2, <1>3, Finite, PipelineAssumption

\* Beyond the active cases, each live offer has an answer under way.
LEMMA LiveBeyondActive ==
    ASSUME TypeOK, NEW a,
           NEW R, R = {c \in Calls : call[c].pc = "respond"}
    PROVE  /\ IsFiniteSet(R) /\ ActiveCases(a) \in Nat
           /\ Cardinality(LiveOffers(a)) <= ActiveCases(a) + Cardinality(R)
<1> DEFINE active == {i \in DOMAIN offers : /\ offers[i].agent = a
                                            /\ offers[i].status \in {"OFFERED", "ACCEPTED"}}
           f == [c \in R |-> call[c].row]
           T == {call[c].row : c \in R}
<1>1. IsFiniteSet(R)
  <2>1. R \in SUBSET Calls
    OBVIOUS
  <2> QED
    BY <2>1, FS_Subset, PipelineAssumption
<1>2. f \in Surjection(R, T)
  BY DEF Surjection
<1>3. IsFiniteSet(T) /\ Cardinality(T) <= Cardinality(R)
  <2> HIDE DEF f, T
  <2> QED
    BY <1>1, <1>2, FS_Surjection
<1>4. IsFiniteSet(active)
  <2>1. active \in SUBSET DOMAIN offers
    OBVIOUS
  <2> QED
    BY <2>1, Finite, FS_Subset
<1>5. LiveOffers(a) \in SUBSET (active \union T)
  BY DEF LiveOffers
<1>6. active \cap T \in SUBSET active
  OBVIOUS
<1>7. ActiveCases(a) = Cardinality(active)
  BY DEF ActiveCases
<1> HIDE DEF active, T
<1>8. /\ IsFiniteSet(active \union T)
      /\ Cardinality(active \union T)
           = Cardinality(active) + Cardinality(T) - Cardinality(active \cap T)
      /\ IsFiniteSet(active \cap T)
  BY <1>3, <1>4, <1>6, FS_Union, FS_Subset
<1>9. /\ Cardinality(active) \in Nat /\ Cardinality(T) \in Nat /\ Cardinality(R) \in Nat
      /\ Cardinality(active \cap T) \in Nat /\ Cardinality(active \union T) \in Nat
      /\ Cardinality(LiveOffers(a)) \in Nat
  BY <1>1, <1>3, <1>4, <1>8, Finite, FS_CardinalityType
<1>10. Cardinality(LiveOffers(a)) <= Cardinality(active \union T)
  BY <1>5, <1>8, FS_Subset
<1> QED
  BY <1>1, <1>3, <1>7, <1>8, <1>9, <1>10

\* An offer is read for an agent below the limit; all that can join its cases
\* is one case for each call.
LEMMA ReadAssignBounded ==
    ASSUME TypeOK, LoadBounded, NEW c \in Calls, NEW l \in Listings, NEW b \in Agents,
           NEW i \in Nat, Begin(c, "assign", l, b, i), HasRoom(b)
    PROVE  LoadBounded'
<1>1. call \in [Calls -> Call] /\ call[c].pc = "idle" /\ offers' = offers
  BY DEF TypeOK, Begin, rows
<1>2. /\ call'[c].pc = "assign" /\ call'[c].agent = b
      /\ \A d \in Calls \ {c} : call'[d] = call[d]
  BY <1>1 DEF Begin
<1>3. \A a \in Agents : LiveOffers(a)' = LiveOffers(a)
  BY <1>1, <1>2 DEF LiveOffers
<1>4. ASSUME NEW a \in Agents, a # b
      PROVE  Cardinality(LiveOffers(a)') + Cardinality(Pending(a)')
               <= Limit + Cardinality(Calls) - 1
  <2>1. Pending(a)' = Pending(a)
    BY <1>1, <1>2, <1>4 DEF Pending
  <2> QED
    BY <1>3, <2>1 DEF LoadBounded
<1>5. Cardinality(LiveOffers(b)') + Cardinality(Pending(b)')
        <= Limit + Cardinality(Calls) - 1
  <2> DEFINE R == {d \in Calls : call[d].pc = "respond"}
             P == Pending(b)'
  <2>1. R \in SUBSET Calls /\ P \in SUBSET Calls /\ R \cap P = {}
    BY <1>1, <1>2 DEF Pending
  <2>2. /\ IsFiniteSet(R) /\ ActiveCases(b) \in Nat
        /\ Cardinality(LiveOffers(b)) <= ActiveCases(b) + Cardinality(R)
    BY LiveBeyondActive
  <2> HIDE DEF R, P
  <2>3. IsFiniteSet(P) /\ IsFiniteSet(R \union P) /\ R \union P \in SUBSET Calls
    BY <2>1, <2>2, FS_Subset, FS_Union, PipelineAssumption
  <2>4. Cardinality(R \union P) <= Cardinality(Calls)
    BY <2>3, FS_Subset, PipelineAssumption
  <2>5. Cardinality(R \union P) = Cardinality(R) + Cardinality(P) - 0
    BY <2>1, <2>2, <2>3, FS_Union, FS_EmptySet
  <2>6. /\ Cardinality(R) \in Nat /\ Cardinality(P) \in Nat
        /\ Cardinality(LiveOffers(b)) \in Nat /\ Cardinality(Calls) \in Nat
    BY <2>2, <2>3, Finite, FS_CardinalityType
  <2>7. ActiveCases(b) < Limit
    BY DEF HasRoom
  <2>8. Cardinality(LiveOffers(b)) + Cardinality(P) <= Limit + Cardinality(Calls) - 1
    BY <2>2, <2>4, <2>5, <2>6, <2>7, PipelineAssumption
  <2> QED
    BY <1>3, <2>8 DEF P
<1> QED
  BY <1>4, <1>5 DEF LoadBounded

\* An offer made was counted when it was read.
LEMMA AssignBounded ==
    ASSUME TypeOK, LoadBounded, NEW c \in Calls, Assign(c)
    PROVE  LoadBounded'
<1>0. PICK b \in Agents : b = call[c].agent
  BY DEF TypeOK, Call
<1> DEFINE o == [listing |-> call[c].listing, agent |-> b, status |-> "OFFERED"]
           n == Len(offers) + 1
<1>1. /\ o \in Offer /\ o.agent = b /\ o.status = "OFFERED"
      /\ offers' = Append(offers, o) /\ offers \in Seq(Offer)
  BY <1>0 DEF TypeOK, Call, Offer, Assign
<1>2. /\ call \in [Calls -> Call] /\ call[c].pc = "assign" /\ call'[c].pc = "idle"
      /\ \A d \in Calls \ {c} : call'[d] = call[d]
  BY EndCall DEF TypeOK, Assign
<1> HIDE DEF o
<1>3. /\ n \notin DOMAIN offers /\ DOMAIN offers' = DOMAIN offers \union {n}
      /\ offers'[n] = o /\ \A i \in DOMAIN offers : offers'[i] = offers[i]
  BY <1>1
<1> HIDE DEF n
<1>4. \A d \in Calls : call[d].pc = "respond" => call[d].row \in DOMAIN offers
  BY DEF TypeOK
<1>5. ASSUME NEW a \in Agents, a # b
      PROVE  Cardinality(LiveOffers(a)') + Cardinality(Pending(a)')
               <= Limit + Cardinality(Calls) - 1
  <2>1. LiveOffers(a)' = LiveOffers(a)
    BY <1>1, <1>2, <1>3, <1>5 DEF LiveOffers
  <2>2. Pending(a)' = Pending(a)
    BY <1>0, <1>2, <1>5 DEF Pending
  <2> QED
    BY <2>1, <2>2 DEF LoadBounded
<1>6. Cardinality(LiveOffers(b)') + Cardinality(Pending(b)')
        <= Limit + Cardinality(Calls) - 1
  <2>1. LiveOffers(b)' = LiveOffers(b) \union {n} /\ n \notin LiveOffers(b)
    BY <1>1, <1>2, <1>3, <1>4 DEF LiveOffers
  <2>2. Pending(b)' = Pending(b) \ {c} /\ c \in Pending(b)
    BY <1>0, <1>2 DEF Pending
  <2>3. /\ Cardinality(LiveOffers(b)') = Cardinality(LiveOffers(b)) + 1
        /\ Cardinality(Pending(b)') = Cardinality(Pending(b)) - 1
    <3>1. IsFiniteSet(LiveOffers(b)) /\ IsFiniteSet(Pending(b))
      BY Finite
    <3>2. Cardinality(LiveOffers(b) \union {n}) = Cardinality(LiveOffers(b)) + 1
      BY <2>1, <3>1, FS_AddElement
    <3>3. Cardinality(Pending(b) \ {c}) = Cardinality(Pending(b)) - 1
      BY <2>2, <3>1, FS_RemoveElement
    <3> QED
      BY <2>1, <2>2, <3>2, <3>3
  <2>4. Cardinality(LiveOffers(b)) + Cardinality(Pending(b))
          <= Limit + Cardinality(Calls) - 1
    BY DEF LoadBounded
  <2> QED
    BY <2>3, <2>4, Finite, PipelineAssumption
<1> QED
  BY <1>5, <1>6 DEF LoadBounded

LEMMA NextLoad ==
    ASSUME TypeOK, LoadBounded, [Next]_vars
    PROVE  LoadBounded'
<1>1. call \in [Calls -> Call]
  BY DEF TypeOK
<1>2. ASSUME UNCHANGED <<offers, call>> PROVE LoadBounded'
  <2>1. \A a \in Agents : LiveOffers(a)' = LiveOffers(a) /\ Pending(a)' = Pending(a)
    BY <1>2 DEF LiveOffers, Pending
  <2> QED
    BY <2>1, NotMore
<1>3. ASSUME NEW c \in Calls,
             \/ ReadSubmit(c) \/ ReadSubmitProof(c) \/ ReadRequestDeletion(c)
             \/ ReadReviewProof(c) \/ ReadDecide(c) \/ ReadAssign(c) \/ ReadRespond(c)
      PROVE  LoadBounded'
  <2>1. PICK pc \in {"submit", "submitProof", "decide", "assign", "requestDeletion",
                     "reviewProof", "respond"},
             l \in Listings, a \in Agents, i \in Nat :
               /\ Begin(c, pc, l, a, i)
               /\ pc = "respond" => i \in DOMAIN offers /\ offers[i].status = "OFFERED"
               /\ pc = "assign" => HasRoom(a)
    BY <1>3, ReadsBegin
  <2>2. CASE pc = "assign"
    BY <2>1, <2>2, ReadAssignBounded
  <2>3. CASE pc # "assign"
    <3>1. /\ call'[c].pc = pc /\ call'[c].row = i /\ offers' = offers
          /\ \A d \in Calls \ {c} : call'[d] = call[d]
      BY <1>1, <2>1 DEF Begin, rows
    <3>2. \A x \in Agents : /\ LiveOffers(x)' \subseteq LiveOffers(x)
                            /\ Pending(x)' \subseteq Pending(x)
      BY <2>1, <2>3, <3>1 DEF LiveOffers, Pending
    <3> QED
      BY <3>2, NotMore
  <2> QED
    BY <2>2, <2>3
<1>4. ASSUME NEW c \in Calls, End(c), offers' = offers PROVE LoadBounded'
  <2>1. call'[c].pc = "idle" /\ \A d \in Calls \ {c} : call'[d] = call[d]
    BY <1>1, <1>4, EndCall
  <2>2. \A a \in Agents : /\ LiveOffers(a)' \subseteq LiveOffers(a)
                          /\ Pending(a)' \subseteq Pending(a)
    BY <1>4, <2>1 DEF LiveOffers, Pending
  <2> QED
    BY <2>2, NotMore
<1>5. ASSUME NEW c \in Calls, Respond(c) PROVE LoadBounded'
  <2>1. /\ call[c].pc = "respond" /\ call[c].row \in DOMAIN offers
        /\ offers[call[c].row] \in Offer
    BY <1>5 DEF Respond, TypeOK
  <2>2. PICK s \in {"ACCEPTED", "DECLINED"} :
          offers' = [offers EXCEPT ![call[c].row].status = s]
    BY <1>5 DEF Respond, Accept, Decline
  <2>3. /\ DOMAIN offers' = DOMAIN offers
        /\ \A i \in DOMAIN offers : offers'[i].agent = offers[i].agent
        /\ \A i \in DOMAIN offers \ {call[c].row} : offers'[i] = offers[i]
    BY <2>1, <2>2 DEF Offer
  <2>4. call'[c].pc = "idle" /\ \A d \in Calls \ {c} : call'[d] = call[d]
    BY <1>1, <1>5, EndCall DEF Respond
  <2>5. \A a \in Agents : /\ LiveOffers(a)' \subseteq LiveOffers(a)
                          /\ Pending(a)' \subseteq Pending(a)
    BY <2>1, <2>3, <2>4 DEF LiveOffers, Pending
  <2> QED
    BY <2>5, NotMore
<1>6. ASSUME NEW c \in Calls, CallStep(c) PROVE LoadBounded'
  <2>1. ASSUME Submit(c) \/ SubmitProof(c) \/ ReviewProof(c) \/ Decide(c)
               \/ RequestDeletion(c) \/ FailCall(c)
        PROVE  End(c) /\ offers' = offers
    BY <2>1 DEF Submit, SubmitProof, ReviewProof, Decide, RequestDeletion, FailCall, rows
  <2> QED
    BY <1>3, <1>4, <1>5, <1>6, <2>1, AssignBounded DEF CallStep
<1>7. CASE \/ \E l \in Listings : CancelDeletion(l)
           \/ \E l \in Auctions : MoveAuction(l)
           \/ \E i \in 1..MaxOffers : Expire(i)
           \/ UNCHANGED vars
  BY <1>2, <1>7 DEF CancelDeletion, MoveAuction, Expire, vars, rows
<1> QED
  BY <1>6, <1>7 DEF Next

\* Calls that overlap overload an agent by at most one property for each call
\* beyond the first: for every limit and every number of calls.
THEOREM OverloadCorrect == Spec => []OverloadBounded
<1>1. Init => LoadBounded
  <2> SUFFICES ASSUME Init PROVE LoadBounded
    OBVIOUS
  <2>1. \A a : LiveOffers(a) = {} /\ Pending(a) = {}
    BY DEF Init, LiveOffers, Pending, NoCall
  <2>2. Cardinality(Calls) \in Nat
    BY FS_CardinalityType, PipelineAssumption
  <2> QED
    BY <2>1, <2>2, FS_EmptySet, PipelineAssumption DEF LoadBounded
<1>2. TypeOK /\ LoadBounded /\ [Next]_vars => LoadBounded'
  BY NextLoad
<1>3. TypeOK /\ LoadBounded => OverloadBounded
  <2> SUFFICES ASSUME TypeOK, LoadBounded, NEW a \in Agents
               PROVE  ActiveCases(a) <= Limit + Cardinality(Calls) - 1
    BY DEF OverloadBounded
  <2> DEFINE active == {i \in DOMAIN offers :
                           /\ offers[i].agent = a
                           /\ offers[i].status \in {"OFFERED", "ACCEPTED"}}
  <2>1. active \in SUBSET LiveOffers(a) /\ ActiveCases(a) = Cardinality(active)
    BY DEF LiveOffers, ActiveCases
  <2> HIDE DEF active
  <2>2. /\ IsFiniteSet(active) /\ Cardinality(active) <= Cardinality(LiveOffers(a))
        /\ Cardinality(active) \in Nat
    BY <2>1, Finite, FS_Subset, FS_CardinalityType
  <2>3. Cardinality(LiveOffers(a)) + Cardinality(Pending(a))
          <= Limit + Cardinality(Calls) - 1
    BY DEF LoadBounded
  <2> QED
    BY <2>1, <2>2, <2>3, Finite, PipelineAssumption
<1> QED
  BY <1>1, <1>2, <1>3, AlwaysTyped, PTL DEF Spec

=============================================================================
