--------------------------- MODULE AuctionProofs ---------------------------
(***************************************************************************)
(* Theorems about one auction, for every set of users, requests, workers   *)
(* and keys and every value of the terms.  The inductive invariant adds to *)
(* the types that the row and the bids agree, which is what makes the      *)
(* pointers currentBid and previous mean anything, and that the row keeps  *)
(* the CHECK constraints.                                                  *)
(***************************************************************************)
EXTENDS Auction, TLAPS, SequenceTheorems, FiniteSetTheorems

Inv == TypeOK /\ LedgerAgrees

\* A step that leaves the auction and its tables alone.
LEMMA TablesUnchanged ==
    ASSUME LedgerAgrees, UNCHANGED auctionVars
    PROVE  LedgerAgrees'
BY DEF LedgerAgrees, auctionVars

\* An answered request is a request.
LEMMA AnswerType ==
    ASSUME req \in [Requests -> RequestState], NEW r \in Requests,
           NEW reply \in Replies, Answer(r, reply)
    PROVE  req' \in [Requests -> RequestState]
<1>1. /\ req[r].user \in Users /\ req[r].key \in Keys \union {NoKey}
      /\ req[r].amount \in Nat
  BY DEF RequestState, RequestIn
<1>2. [NoRequest EXCEPT !.pc = "done", !.reply = reply] \in RequestState
  BY ConstantsAssumption DEF NoRequest, RequestState, RequestIn
<1>3. [NoRequest EXCEPT !.pc = "done", !.reply = reply, !.user = req[r].user,
                        !.key = req[r].key, !.amount = req[r].amount]
      \in RequestState
  BY <1>1 DEF NoRequest, RequestState, RequestIn
<1> QED
  BY <1>2, <1>3 DEF Answer

\* A request that is tried again is a request.
LEMMA RetryType ==
    ASSUME req \in [Requests -> RequestState], NEW r \in Requests,
           req[r].pc = "open", Retry(r)
    PROVE  req' \in [Requests -> RequestState]
<1>1. PICK next \in Nat : next = req[r].attempt + 1
  BY DEF RequestState, RequestIn
<1>2. [req[r] EXCEPT !.pc = "ready", !.attempt = next, !.now = 0, !.version = 0,
                     !.eligible = FALSE, !.published = FALSE] \in RequestState
  BY DEF RequestState, RequestIn
<1> QED
  BY <1>1, <1>2 DEF Retry

\* The counters of the row stay numbers when they are incremented.
LEMMA Increments ==
    ASSUME auction \in AuctionRow
    PROVE  /\ auction.bidCount + 1 \in Nat /\ auction.sequence + 1 \in Nat
           /\ auction.eventSequence + 1 \in Nat /\ auction.version + 1 \in Nat
BY DEF AuctionRow

\* A commit writes a bid.
LEMMA CommittedBid ==
    ASSUME Inv, NEW r \in Requests, AcceptBid(r)
    PROVE  [bidder |-> req[r].user, amount |-> req[r].amount,
            sequence |-> auction.sequence + 1, previous |-> auction.currentBid,
            key |-> req[r].key, request |-> r] \in BidRow
<1>1. req[r] \in RequestState /\ auction \in AuctionRow
  BY DEF Inv, TypeOK
<1>2. req[r].user \in Users /\ req[r].amount \in Nat /\ req[r].key \in Keys
  BY <1>1 DEF AcceptBid, Unmoved, RequestState, RequestIn
<1>3. auction.sequence + 1 \in Nat /\ auction.currentBid \in Nat
  BY <1>1, Increments DEF AuctionRow
<1> QED
  BY <1>2, <1>3 DEF BidRow

LEMMA InitInv == Init => Inv
<1> SUFFICES ASSUME Init PROVE Inv
  OBVIOUS
<1> USE ConstantsAssumption DEF Init
<1>1. auction \in AuctionRow
  BY DEF AuctionRow, AuctionStatus, NoBid
<1>2. req \in [Requests -> RequestState]
  BY DEF NoRequest, RequestState, RequestIn, Replies
<1>3. worker \in [Workers -> WorkerState]
  BY DEF IdleWorker, WorkerState
<1>4. events \in Seq(StatusEvent \union BidEvent)
  BY DEF StatusEvent, BidEvent, AuctionStatus
<1>5. TypeOK
  BY <1>1, <1>2, <1>3, <1>4 DEF TypeOK
<1>6. LedgerAgrees
  BY DEF LedgerAgrees, NoBid
<1> QED
  BY <1>5, <1>6 DEF Inv

\* Steps of a request other than a commit move only the request.
LEMMA RequestStepInv ==
    ASSUME Inv, NEW r \in Requests,
           \/ ReceiveBid(r) \/ BeginBid(r) \/ ReplayBid(r) \/ RefuseBid(r)
           \/ SerializationFailure(r) \/ LoseBid(r)
    PROVE  Inv'
<1>1. UNCHANGED <<clock, auctionVars, listing, accountVars, worker>>
  BY DEF ReceiveBid, BeginBid, ReplayBid, RefuseBid, SerializationFailure, LoseBid
<1>2. req[r] \in RequestState /\ req \in [Requests -> RequestState]
  BY DEF Inv, TypeOK
<1>3. \A reply \in Replies : Answer(r, reply) => req' \in [Requests -> RequestState]
  BY <1>2, AnswerType
<1>4. req' \in [Requests -> RequestState]
  <2>1. CASE ReceiveBid(r)
    <3>1. PICK u \in Users, k \in Keys, a \in BidAmounts :
             IF active[u]
             THEN req' = [req EXCEPT ![r] = [req[r] EXCEPT !.pc = "ready", !.user = u,
                             !.key = k, !.amount = a, !.attempt = 1]]
             ELSE Answer(r, "refused")
      BY <2>1, Zenon DEF ReceiveBid
    <3>2. a \in Nat
      BY ConstantsAssumption
    <3>3. [req[r] EXCEPT !.pc = "ready", !.user = u, !.key = k, !.amount = a,
                         !.attempt = 1] \in RequestState
      BY <1>2, <3>2 DEF RequestState, RequestIn
    <3>4. CASE active[u]
      BY <1>2, <3>1, <3>3, <3>4
    <3>5. CASE ~active[u]
      BY <1>3, <3>1, <3>5 DEF Replies
    <3> QED
      BY <3>4, <3>5
  <2>2. CASE BeginBid(r)
    BY <1>2, <2>2 DEF BeginBid, RequestState, RequestIn, Inv, TypeOK, AuctionRow
  <2>3. CASE ReplayBid(r)
    BY <1>3, <2>3 DEF ReplayBid, Replies
  <2>4. CASE RefuseBid(r)
    BY <1>3, <2>4 DEF RefuseBid, Replies
  <2>5. CASE SerializationFailure(r)
    BY <1>2, <1>3, <2>5, RetryType DEF SerializationFailure, Replies
  <2>6. CASE LoseBid(r)
    BY <1>3, <2>6 DEF LoseBid, Replies
  <2> QED
    BY <2>1, <2>2, <2>3, <2>4, <2>5, <2>6
<1>5. TypeOK'
  BY <1>1, <1>4 DEF Inv, TypeOK, auctionVars, accountVars
<1> QED
  BY <1>1, <1>5, TablesUnchanged DEF Inv

\* The commit of a bid extends the bids by one and moves the row with them.
LEMMA AcceptBidInv ==
    ASSUME Inv, NEW r \in Requests, AcceptBid(r)
    PROVE  Inv'
<1> DEFINE n == auction.sequence + 1
           bid == [bidder |-> req[r].user, amount |-> req[r].amount,
                   sequence |-> n, previous |-> auction.currentBid,
                   key |-> req[r].key, request |-> r]
           end == ExtendedEnd(req[r].now)
<1>1. req[r] \in RequestState /\ req \in [Requests -> RequestState]
  BY DEF Inv, TypeOK
<1>2. auction \in AuctionRow /\ bids \in Seq(BidRow)
  BY DEF Inv, TypeOK
<1>3. bid \in BidRow
  BY CommittedBid
<1>4. bids' = Append(bids, bid)
  BY DEF AcceptBid
<1>5. bids' \in Seq(BidRow)
  BY <1>2, <1>3, <1>4
<1>6. end \in Nat
  BY <1>1, <1>2, ConstantsAssumption DEF ExtendedEnd, AuctionRow
<1>7. auction' = [auction EXCEPT !.currentAmount = req[r].amount,
                                 !.currentBid = Len(bids) + 1,
                                 !.bidCount = @ + 1,
                                 !.sequence = @ + 1,
                                 !.eventSequence = @ + 1,
                                 !.endsAt = end,
                                 !.version = @ + 1]
  BY DEF AcceptBid, RowAfterBid
<1>8. auction' \in AuctionRow
  <2>1. req[r].amount \in Nat /\ Len(bids) + 1 \in Nat /\ n \in Nat
    BY <1>1, <1>2, Increments DEF RequestState, RequestIn
  <2> HIDE DEF n, end
  <2> QED
    BY <1>2, <1>6, <1>7, <2>1, Increments DEF AuctionRow
<1>9. events' \in Seq(StatusEvent \union BidEvent)
  <2>1. events \in Seq(StatusEvent \union BidEvent)
    BY DEF Inv, TypeOK
  <2>2. [type |-> "auction.bid.accepted", sequence |-> auction.eventSequence + 1,
         bid |-> n, amount |-> req[r].amount, endsAt |-> end] \in BidEvent
    <3>1. n \in Nat /\ auction.eventSequence + 1 \in Nat /\ req[r].amount \in Nat
      BY <1>1, <1>2, Increments DEF RequestState, RequestIn
    <3> QED
      BY <1>6, <3>1 DEF BidEvent
  <2> QED
    BY <2>1, <2>2 DEF AcceptBid
<1>10. notices' \subseteq Notice
  <2>1. auction.currentBid # NoBid => bids[auction.currentBid] \in BidRow
    BY <1>2 DEF Inv, LedgerAgrees, AuctionRow, NoBid
  <2>2. OutbidNotices(req[r].user, n) \subseteq Notice
    <3>1. n \in Nat /\ (auction.currentBid # NoBid => bids[auction.currentBid].bidder \in Users)
      BY <1>2, <2>1, Increments DEF BidRow
    <3> QED
      BY <3>1 DEF OutbidNotices, Notice
  <2> QED
    BY <2>2 DEF AcceptBid, Inv, TypeOK
<1>11. req' \in [Requests -> RequestState]
  <2>1. PICK reply \in Replies : Answer(r, reply)
    BY DEF AcceptBid, Replies
  <2> QED
    BY <1>1, <2>1, AnswerType
<1>12. UNCHANGED <<clock, listing, settlement, accountVars, worker>>
  BY DEF AcceptBid
<1>13. TypeOK'
  BY <1>5, <1>8, <1>9, <1>10, <1>11, <1>12 DEF Inv, TypeOK, accountVars
<1>14. LedgerAgrees'
  <2>1. /\ Len(bids') = Len(bids) + 1
        /\ bids'[Len(bids) + 1] = bid
        /\ \A i \in DOMAIN bids : bids'[i] = bids[i]
        /\ DOMAIN bids' = DOMAIN bids \union {Len(bids) + 1}
    BY <1>2, <1>3, <1>4
  <2>2. /\ auction'.bidCount = Len(bids) + 1
        /\ auction'.sequence = Len(bids) + 1
        /\ auction'.currentBid = Len(bids) + 1
        /\ auction'.currentAmount = bid.amount
    BY <1>2, <1>7 DEF Inv, LedgerAgrees, AuctionRow
  <2>3. \A i \in DOMAIN bids' : bids'[i].sequence = i /\ bids'[i].previous = i - 1
    BY <1>2, <2>1 DEF Inv, LedgerAgrees
  <2> QED
    BY <2>1, <2>2, <2>3 DEF LedgerAgrees
<1> QED
  BY <1>13, <1>14 DEF Inv

\* A change of status keeps everything the bids are compared with.
LEMMA MoveToInv ==
    ASSUME Inv, NEW status \in AuctionStatus, MoveTo(status), bids' = bids
    PROVE  /\ auction' \in AuctionRow
           /\ events' \in Seq(StatusEvent \union BidEvent)
           /\ LedgerAgrees'
<1>1. auction \in AuctionRow /\ events \in Seq(StatusEvent \union BidEvent)
  BY DEF Inv, TypeOK
<1>2. auction' \in AuctionRow
  BY <1>1, Increments DEF MoveTo, AuctionRow
<1>3. [type |-> "auction.status.changed", sequence |-> auction.eventSequence + 1,
       status |-> status] \in StatusEvent
  BY <1>1, Increments DEF StatusEvent
<1>4. events' \in Seq(StatusEvent \union BidEvent)
  BY <1>1, <1>3 DEF MoveTo
<1>5. LedgerAgrees'
  BY <1>1 DEF MoveTo, Inv, LedgerAgrees, AuctionRow
<1> QED
  BY <1>2, <1>4, <1>5

LEMMA WorkerStepInv ==
    ASSUME Inv, NEW w \in Workers, WorkerStep(w)
    PROVE  Inv'
<1>1. worker \in [Workers -> WorkerState] /\ auction \in AuctionRow /\ clock \in Nat
  BY DEF Inv, TypeOK
<1>2. worker' \in [Workers -> WorkerState]
  <2>1. worker[w] \in WorkerState /\ IdleWorker \in WorkerState
    BY <1>1 DEF WorkerState, IdleWorker
  <2>2. CASE Scan(w)
    BY <1>1, <2>1, <2>2 DEF Scan, WorkerState
  <2>3. CASE BeginTask(w)
    BY <1>1, <2>1, <2>3 DEF BeginTask, WorkerState, AuctionRow
  <2>4. CASE StartAuction(w) \/ CloseSold(w) \/ CloseUnsold(w) \/ DropTask(w)
    BY <1>1, <2>1, <2>4 DEF StartAuction, CloseSold, CloseUnsold, DropTask
  <2> QED
    BY <2>2, <2>3, <2>4 DEF WorkerStep
<1>3. CASE Scan(w) \/ BeginTask(w) \/ DropTask(w)
  <2>1. UNCHANGED <<clock, auctionVars, listing, accountVars, req>>
    BY <1>3 DEF Scan, BeginTask, DropTask
  <2>2. TypeOK'
    BY <1>2, <2>1 DEF Inv, TypeOK, auctionVars, accountVars
  <2> QED
    BY <2>1, <2>2, TablesUnchanged DEF Inv
<1>4. CASE StartAuction(w)
  <2>1. PICK status \in AuctionStatus : MoveTo(status)
    BY <1>4 DEF StartAuction, AuctionStatus
  <2>2. UNCHANGED <<clock, bids, settlement, notices, listing, accountVars, req>>
    BY <1>4 DEF StartAuction
  <2> QED
    BY <1>2, <2>1, <2>2, MoveToInv DEF Inv, TypeOK, accountVars
<1>5. CASE CloseUnsold(w)
  <2>1. "ENDED" \in AuctionStatus /\ MoveTo("ENDED")
    BY <1>5 DEF CloseUnsold, AuctionStatus
  <2>2. UNCHANGED <<clock, bids, settlement, notices, listing, accountVars, req>>
    BY <1>5 DEF CloseUnsold
  <2> QED
    BY <1>2, <2>1, <2>2, MoveToInv DEF Inv, TypeOK, accountVars
<1>6. CASE CloseSold(w)
  <2>1. "AWAITING_SETTLEMENT" \in AuctionStatus /\ MoveTo("AWAITING_SETTLEMENT")
    BY <1>6 DEF CloseSold, AuctionStatus
  <2>2. UNCHANGED <<clock, bids, listing, accountVars, req>>
    BY <1>6 DEF CloseSold
  <2>3. auction.currentBid \in Nat /\ bids[auction.currentBid].bidder \in Users
    <3>1. bids \in Seq(BidRow) /\ auction.currentBid = Len(bids) /\ Len(bids) # 0
      BY <1>6 DEF CloseSold, Inv, TypeOK, LedgerAgrees, NoBid
    <3>2. bids[Len(bids)] \in BidRow
      BY <3>1
    <3> QED
      BY <3>1, <3>2 DEF BidRow
  <2>4. settlement' \subseteq [bid : Nat, buyer : Users] /\ notices' \subseteq Notice
    BY <1>6, <2>3 DEF CloseSold, Notice, Inv, TypeOK
  <2> QED
    BY <1>2, <2>1, <2>2, <2>4, MoveToInv DEF Inv, TypeOK, accountVars
<1> QED
  BY <1>3, <1>4, <1>5, <1>6 DEF WorkerStep

LEMMA StaffStepInv ==
    ASSUME Inv, StaffStep
    PROVE  Inv'
<1>1. CASE Pause \/ Resume \/ Cancel
  <2>1. PICK status \in AuctionStatus : MoveTo(status)
    BY <1>1 DEF Pause, Resume, Cancel, AuctionStatus
  <2>2. UNCHANGED <<clock, bids, settlement, notices, listing, accountVars, req, worker>>
    BY <1>1 DEF Pause, Resume, Cancel
  <2> QED
    BY <2>1, <2>2, MoveToInv DEF Inv, TypeOK, accountVars
<1>2. CASE StaffEdit
  <2>1. UNCHANGED <<clock, bids, settlement, events, notices, listing, accountVars,
                    req, worker>>
    BY <1>2 DEF StaffEdit
  <2>2. auction \in AuctionRow
    BY DEF Inv, TypeOK
  <2>3. PICK starting \in Nat, increment \in Nat, reserve \in Nat,
             starts \in Nat, ends \in Nat :
          auction' = Patched(starting, increment, reserve, starts, ends)
    <3>1. /\ StaffAmounts \union {auction.startingAmount} \subseteq Nat
          /\ StaffAmounts \union {auction.minimumIncrement} \subseteq Nat
          /\ StaffAmounts \union {auction.reserveAmount} \subseteq Nat
          /\ StaffTimes \union {auction.startsAt} \subseteq Nat
          /\ StaffTimes \union {auction.endsAt} \subseteq Nat
      BY <2>2, ConstantsAssumption DEF AuctionRow
    <3>2. PICK starting \in StaffAmounts \union {auction.startingAmount},
               increment \in StaffAmounts \union {auction.minimumIncrement},
               reserve \in StaffAmounts \union {auction.reserveAmount},
               starts \in StaffTimes \union {auction.startsAt},
               ends \in StaffTimes \union {auction.endsAt} :
            auction' = Patched(starting, increment, reserve, starts, ends)
      BY <1>2 DEF StaffEdit
    <3> QED
      BY <3>1, <3>2
  <2>4. auction' \in AuctionRow
    BY <2>2, <2>3, Increments DEF AuctionRow, Patched
  <2>5. LedgerAgrees'
    BY <2>1, <2>2, <2>3 DEF Inv, LedgerAgrees, AuctionRow, Patched
  <2> QED
    BY <2>1, <2>4, <2>5 DEF Inv, TypeOK, accountVars
<1> QED
  BY <1>1, <1>2 DEF StaffStep

LEMMA NextInv == Inv /\ [Next]_vars => Inv'
<1> SUFFICES ASSUME Inv, [Next]_vars PROVE Inv'
  OBVIOUS
<1>1. CASE Tick
  BY <1>1, TablesUnchanged DEF Tick, Inv, TypeOK, auctionVars, accountVars
<1>2. ASSUME NEW r \in Requests, BidStep(r) PROVE Inv'
  BY <1>2, RequestStepInv, AcceptBidInv DEF BidStep
<1>3. ASSUME NEW w \in Workers, WorkerStep(w) PROVE Inv'
  BY <1>3, WorkerStepInv
<1>4. CASE StaffStep
  BY <1>4, StaffStepInv
<1>5. ASSUME NEW u \in Reviewed, ReviewBidder(u) PROVE Inv'
  <2>1. eligible' \in [Users -> BOOLEAN]
    BY <1>5, ConstantsAssumption DEF ReviewBidder, Inv, TypeOK
  <2> QED
    BY <1>5, <2>1, TablesUnchanged DEF ReviewBidder, Inv, TypeOK, auctionVars
<1>6. ASSUME NEW u \in Suspendable, Suspend(u) PROVE Inv'
  <2>1. active' \in [Users -> BOOLEAN]
    BY <1>6, ConstantsAssumption DEF Suspend, Inv, TypeOK
  <2> QED
    BY <1>6, <2>1, TablesUnchanged DEF Suspend, Inv, TypeOK, auctionVars
<1>7. CASE UNCHANGED vars
  BY <1>7, TablesUnchanged DEF vars, Inv, TypeOK, auctionVars
<1> QED
  BY <1>1, <1>2, <1>3, <1>4, <1>5, <1>6, <1>7 DEF Next

LEMMA AlwaysInv == Spec => []Inv
<1> QED
  BY InitInv, NextInv, PTL DEF Spec

\* Every reachable value of every variable of the auction has its type, for
\* every number of users, requests, workers and keys.
THEOREM TypeCorrect == Spec => []TypeOK
<1>1. Inv => TypeOK
  BY DEF Inv
<1> QED
  BY <1>1, AlwaysInv, PTL

\* The row of the auction and the bids that concurrent transactions committed
\* always agree: placeBid never loses, repeats or misnumbers a bid.
THEOREM LedgerCorrect == Spec => []LedgerAgrees
<1>1. Inv => LedgerAgrees
  BY DEF Inv
<1> QED
  BY <1>1, AlwaysInv, PTL

----------------------------------------------------------------------------
(* The price, the events and the settlement.  Ascending is inductive only  *)
(* together with the CHECK constraints (the increment stays positive) and  *)
(* the agreement of the row with its bids (the amount to beat is that of   *)
(* the last bid); a settlement stays right because no bid follows it.      *)

SInv == Inv /\ Ascending /\ ChecksKept /\ EventsGapless /\ SettledOnHighestBid

LEMMA InitSInv == Init => SInv
<1> SUFFICES ASSUME Init PROVE SInv
  OBVIOUS
<1>1. Ascending /\ SettledOnHighestBid
  BY DEF Init, Ascending, SettledOnHighestBid
<1>2. ChecksKept
  BY ConstantsAssumption, ScheduleAssumption DEF Init, ChecksKept, ChecksHold, NoReserve
<1>3. EventsGapless
  BY DEF Init, EventsGapless
<1> QED
  BY <1>1, <1>2, <1>3, InitInv DEF SInv

LEMMA TablesKeepSInv ==
    ASSUME SInv, UNCHANGED auctionVars
    PROVE  Ascending' /\ ChecksKept' /\ EventsGapless' /\ SettledOnHighestBid'
BY DEF SInv, Ascending, ChecksKept, ChecksHold, EventsGapless, SettledOnHighestBid,
       auctionVars

\* One event more, numbered as the row counts it.
LEMMA OneMoreEvent ==
    ASSUME TypeOK, EventsGapless, NEW e \in StatusEvent \union BidEvent,
           e.sequence = auction.eventSequence + 1, events' = Append(events, e),
           auction'.eventSequence = auction.eventSequence + 1
    PROVE  EventsGapless'
<1>1. events \in Seq(StatusEvent \union BidEvent)
  BY DEF TypeOK
<1>2. /\ Len(events') = Len(events) + 1
      /\ events'[Len(events) + 1] = e
      /\ \A i \in DOMAIN events : events'[i] = events[i]
      /\ DOMAIN events' = DOMAIN events \union {Len(events) + 1}
  BY <1>1
<1> QED
  BY <1>1, <1>2 DEF EventsGapless

\* A bid's amount is a number.
LEMMA AmountType ==
    ASSUME bids \in Seq(BidRow), NEW i \in DOMAIN bids
    PROVE  bids[i].amount \in Nat
<1>1. bids[i] \in BidRow
  OBVIOUS
<1> QED
  BY <1>1 DEF BidRow

LEMMA AcceptBidSInv ==
    ASSUME SInv, NEW r \in Requests, AcceptBid(r)
    PROVE  Ascending' /\ ChecksKept' /\ EventsGapless' /\ SettledOnHighestBid'
<1> DEFINE n == auction.sequence + 1
           bid == [bidder |-> req[r].user, amount |-> req[r].amount,
                   sequence |-> n, previous |-> auction.currentBid,
                   key |-> req[r].key, request |-> r]
           end == ExtendedEnd(req[r].now)
           event == [type |-> "auction.bid.accepted",
                     sequence |-> auction.eventSequence + 1,
                     bid |-> n, amount |-> req[r].amount, endsAt |-> end]
<1>1. /\ req[r] \in RequestState /\ auction \in AuctionRow /\ bids \in Seq(BidRow)
      /\ req[r].amount \in Nat /\ req[r].now \in Nat
  BY DEF SInv, Inv, TypeOK, RequestState, RequestIn
<1>2. LedgerAgrees /\ Ascending /\ ChecksHold(auction)
  BY DEF SInv, Inv, ChecksKept
<1>3. /\ bids' = Append(bids, bid) /\ events' = Append(events, event)
      /\ Acceptable(r) /\ settlement' = settlement
  BY DEF AcceptBid
<1>4. auction' = [auction EXCEPT !.currentAmount = req[r].amount,
                                 !.currentBid = Len(bids) + 1,
                                 !.bidCount = @ + 1,
                                 !.sequence = @ + 1,
                                 !.eventSequence = @ + 1,
                                 !.endsAt = end,
                                 !.version = @ + 1]
  BY DEF AcceptBid, RowAfterBid
<1>5. /\ auction'.currentAmount = req[r].amount
      /\ auction'.eventSequence = auction.eventSequence + 1
      /\ auction'.endsAt = end
      /\ auction'.status = auction.status
      /\ auction'.startsAt = auction.startsAt
      /\ auction'.startingAmount = auction.startingAmount
      /\ auction'.minimumIncrement = auction.minimumIncrement
      /\ auction'.reserveAmount = auction.reserveAmount
  BY <1>1, <1>4 DEF AuctionRow
<1>6. \A i \in DOMAIN bids : bids[i].amount < req[r].amount
  <2> SUFFICES ASSUME NEW i \in DOMAIN bids PROVE bids[i].amount < req[r].amount
    OBVIOUS
  <2>1. /\ Len(bids) \in Nat /\ Len(bids) # 0 /\ bids # <<>>
        /\ i \in 1..Len(bids) /\ Len(bids) \in DOMAIN bids
    BY <1>1
  <2>2. /\ auction.bidCount # 0
        /\ auction.currentAmount = bids[Len(bids)].amount
    BY <1>2, <2>1 DEF LedgerAgrees
  <2>3. req[r].amount >= bids[Len(bids)].amount + auction.minimumIncrement
    BY <1>3, <2>2 DEF Acceptable, MinimumBid
  <2>4. /\ bids[i].amount \in Nat /\ bids[Len(bids)].amount \in Nat
        /\ auction.minimumIncrement \in Nat /\ auction.minimumIncrement > 0
    BY <1>1, <1>2, <2>1, AmountType DEF AuctionRow, ChecksHold
  <2>5. bids[i].amount <= bids[Len(bids)].amount
    BY <1>2, <2>1, <2>4 DEF Ascending
  <2> QED
    BY <1>1, <2>3, <2>4, <2>5
<1>7. Ascending'
  <2>1. /\ bids'[Len(bids) + 1] = bid
        /\ \A i \in DOMAIN bids : bids'[i] = bids[i]
        /\ DOMAIN bids' = DOMAIN bids \union {Len(bids) + 1}
        /\ DOMAIN bids = 1..Len(bids) /\ Len(bids) \in Nat
    <3>1. bid \in BidRow
      BY CommittedBid DEF SInv
    <3> QED
      BY <1>1, <1>3, <3>1
  <2>2. bid.amount = req[r].amount
    OBVIOUS
  <2> HIDE DEF bid
  <2> QED
    BY <1>2, <1>6, <2>1, <2>2 DEF Ascending
<1>8. ChecksKept'
  <2>1. req[r].amount >= auction.startingAmount
    <3>1. CASE auction.bidCount = 0
      BY <1>3, <3>1 DEF Acceptable, MinimumBid
    <3>2. CASE auction.bidCount # 0
      <4>1. req[r].amount >= auction.currentAmount + auction.minimumIncrement
        BY <1>3, <3>2 DEF Acceptable, MinimumBid
      <4>2. /\ auction.currentAmount >= auction.startingAmount
            /\ auction.currentAmount \in Nat /\ auction.minimumIncrement \in Nat
            /\ auction.startingAmount \in Nat
        BY <1>1, <1>2 DEF ChecksHold, AuctionRow
      <4> QED
        BY <1>1, <4>1, <4>2
    <3> QED
      BY <3>1, <3>2
  <2>2. EndsAt <= end /\ end <= MaximumExtendedUntil
    <3>1. /\ auction.endsAt \in Nat /\ EndsAt <= auction.endsAt
          /\ auction.endsAt <= MaximumExtendedUntil
      BY <1>1, <1>2 DEF ChecksHold, AuctionRow
    <3>2. \/ end = auction.endsAt
          \/ /\ end = auction.endsAt + ExtensionDuration
             /\ end <= MaximumExtendedUntil
          \/ end = MaximumExtendedUntil
      BY DEF ExtendedEnd
    <3> HIDE DEF end
    <3> QED
      BY <3>1, <3>2, ConstantsAssumption
  <2> HIDE DEF end
  <2> QED
    BY <1>2, <1>5, <2>1, <2>2 DEF ChecksKept, ChecksHold
<1>9. EventsGapless'
  <2>1. event \in StatusEvent \union BidEvent
    <3>1. n \in Nat /\ auction.eventSequence + 1 \in Nat
      BY <1>1, Increments
    <3>2. end \in Nat
      BY <1>1, ConstantsAssumption DEF ExtendedEnd, AuctionRow
    <3> HIDE DEF end, n
    <3> QED
      BY <1>1, <3>1, <3>2 DEF BidEvent
  <2>2. event.sequence = auction.eventSequence + 1
    OBVIOUS
  <2> HIDE DEF event
  <2> QED
    BY <1>3, <1>5, <2>1, <2>2, OneMoreEvent DEF SInv, Inv
<1>10. SettledOnHighestBid'
  BY <1>3, <1>5 DEF SInv, SettledOnHighestBid, Acceptable
<1> QED
  BY <1>7, <1>8, <1>9, <1>10

\* A change of status that neither makes nor touches a settlement.
LEMMA MoveToSInv ==
    ASSUME SInv, NEW status \in AuctionStatus, MoveTo(status),
           UNCHANGED <<bids, settlement, notices>>,
           status # "AWAITING_SETTLEMENT", auction.status # "AWAITING_SETTLEMENT"
    PROVE  Ascending' /\ ChecksKept' /\ EventsGapless' /\ SettledOnHighestBid'
<1>1. auction \in AuctionRow
  BY DEF SInv, Inv, TypeOK
<1>2. /\ auction'.status = status
      /\ auction'.eventSequence = auction.eventSequence + 1
      /\ auction'.currentAmount = auction.currentAmount
      /\ auction'.startingAmount = auction.startingAmount
      /\ auction'.minimumIncrement = auction.minimumIncrement
      /\ auction'.reserveAmount = auction.reserveAmount
      /\ auction'.startsAt = auction.startsAt /\ auction'.endsAt = auction.endsAt
  BY <1>1 DEF MoveTo, AuctionRow
<1>3. Ascending'
  BY DEF SInv, Ascending
<1>4. ChecksKept'
  BY <1>2 DEF SInv, ChecksKept, ChecksHold
<1>5. EventsGapless'
  <2>1. [type |-> "auction.status.changed", sequence |-> auction.eventSequence + 1,
         status |-> status] \in StatusEvent \union BidEvent
    BY <1>1, Increments DEF StatusEvent
  <2> QED
    BY <1>2, <2>1, OneMoreEvent DEF MoveTo, SInv, Inv
<1>6. SettledOnHighestBid'
  BY <1>2 DEF SInv, SettledOnHighestBid
<1> QED
  BY <1>3, <1>4, <1>5, <1>6

LEMMA CloseSoldSInv ==
    ASSUME SInv, NEW w \in Workers, CloseSold(w)
    PROVE  Ascending' /\ ChecksKept' /\ EventsGapless' /\ SettledOnHighestBid'
<1>1. auction \in AuctionRow /\ bids \in Seq(BidRow)
  BY DEF SInv, Inv, TypeOK
<1>2. MoveTo("AWAITING_SETTLEMENT") /\ bids' = bids
  BY DEF CloseSold
<1>3. /\ auction'.status = "AWAITING_SETTLEMENT"
      /\ auction'.eventSequence = auction.eventSequence + 1
      /\ auction'.currentAmount = auction.currentAmount
      /\ auction'.startingAmount = auction.startingAmount
      /\ auction'.minimumIncrement = auction.minimumIncrement
      /\ auction'.reserveAmount = auction.reserveAmount
      /\ auction'.startsAt = auction.startsAt /\ auction'.endsAt = auction.endsAt
  BY <1>1, <1>2 DEF MoveTo, AuctionRow
<1>4. Ascending'
  BY <1>2 DEF SInv, Ascending
<1>5. ChecksKept'
  BY <1>3 DEF SInv, ChecksKept, ChecksHold
<1>6. EventsGapless'
  <2>1. [type |-> "auction.status.changed", sequence |-> auction.eventSequence + 1,
         status |-> "AWAITING_SETTLEMENT"] \in StatusEvent \union BidEvent
    BY <1>1, Increments DEF StatusEvent, AuctionStatus
  <2> QED
    BY <1>2, <1>3, <2>1, OneMoreEvent DEF MoveTo, SInv, Inv
<1>7. SettledOnHighestBid'
  <2>1. /\ auction.currentBid = Len(bids) /\ Len(bids) # 0
        /\ Len(bids) \in DOMAIN bids
    BY <1>1 DEF CloseSold, SInv, Inv, LedgerAgrees, NoBid
  <2>2. \A i \in DOMAIN bids : bids[i].amount <= bids[Len(bids)].amount
    <3> SUFFICES ASSUME NEW i \in DOMAIN bids
                 PROVE  bids[i].amount <= bids[Len(bids)].amount
      OBVIOUS
    <3>1. bids[i].amount \in Nat /\ bids[Len(bids)].amount \in Nat
      BY <1>1, <2>1, AmountType
    <3>2. i = Len(bids) \/ i < Len(bids)
      BY <1>1
    <3> QED
      BY <2>1, <3>1, <3>2 DEF SInv, Ascending
  <2>3. /\ settlement' = {[bid |-> Len(bids), buyer |-> bids[Len(bids)].bidder]}
        /\ [user |-> bids[Len(bids)].bidder, type |-> "auction.won",
            bid |-> Len(bids)] \in notices'
    BY <2>1 DEF CloseSold
  <2> QED
    BY <1>2, <1>3, <2>1, <2>2, <2>3 DEF SettledOnHighestBid
<1> QED
  BY <1>4, <1>5, <1>6, <1>7

LEMMA StaffEditSInv ==
    ASSUME SInv, StaffEdit
    PROVE  Ascending' /\ ChecksKept' /\ EventsGapless' /\ SettledOnHighestBid'
<1>1. auction \in AuctionRow
  BY DEF SInv, Inv, TypeOK
<1>2. UNCHANGED <<bids, settlement, events, notices>>
  BY DEF StaffEdit
<1>3. PICK starting, increment, reserve, starts, ends :
        /\ ChecksHold(Patched(starting, increment, reserve, starts, ends))
        /\ auction' = Patched(starting, increment, reserve, starts, ends)
  BY DEF StaffEdit
<1>4. ChecksKept'
  BY <1>3 DEF ChecksKept
<1>5. /\ auction'.status = auction.status
      /\ auction'.eventSequence = auction.eventSequence
  BY <1>1, <1>3 DEF Patched, AuctionRow
<1> QED
  BY <1>2, <1>4, <1>5 DEF SInv, Ascending, EventsGapless, SettledOnHighestBid

LEMMA NextKeeps ==
    ASSUME SInv, [Next]_vars
    PROVE  Ascending' /\ ChecksKept' /\ EventsGapless' /\ SettledOnHighestBid'
<1>1. CASE UNCHANGED auctionVars
  BY <1>1, TablesKeepSInv
<1>2. CASE \E r \in Requests : BidStep(r)
  <2>1. PICK r \in Requests : BidStep(r)
    BY <1>2
  <2>2. CASE AcceptBid(r)
    BY <2>2, AcceptBidSInv
  <2>3. CASE ~AcceptBid(r)
    <3>1. UNCHANGED auctionVars
      BY <2>1, <2>3 DEF BidStep, ReceiveBid, BeginBid, ReplayBid, RefuseBid,
                        SerializationFailure, LoseBid
    <3> QED
      BY <1>1, <3>1
  <2> QED
    BY <2>2, <2>3
<1>3. CASE \E w \in Workers : WorkerStep(w)
  <2>1. PICK w \in Workers : WorkerStep(w)
    BY <1>3
  <2>2. CASE CloseSold(w)
    BY <2>2, CloseSoldSInv
  <2>3. CASE StartAuction(w)
    <3>1. PICK status \in {"ENDED", "LIVE"} : MoveTo(status)
      BY <2>3 DEF StartAuction
    <3> QED
      BY <2>3, <3>1, MoveToSInv DEF StartAuction, ToStart, AuctionStatus
  <2>4. CASE CloseUnsold(w)
    BY <2>4, MoveToSInv DEF CloseUnsold, ToClose, AuctionStatus
  <2>5. CASE Scan(w) \/ BeginTask(w) \/ DropTask(w)
    BY <1>1, <2>5 DEF Scan, BeginTask, DropTask
  <2> QED
    BY <2>1, <2>2, <2>3, <2>4, <2>5 DEF WorkerStep
<1>4. CASE StaffStep
  <2>1. CASE Pause
    BY <2>1, MoveToSInv DEF Pause, AuctionStatus
  <2>2. CASE Resume
    BY <2>2, MoveToSInv DEF Resume, AuctionStatus
  <2>3. CASE Cancel
    BY <2>3, MoveToSInv DEF Cancel, AuctionStatus
  <2>4. CASE StaffEdit
    BY <2>4, StaffEditSInv
  <2> QED
    BY <1>4, <2>1, <2>2, <2>3, <2>4 DEF StaffStep
<1>5. CASE \/ Tick \/ (\E u \in Reviewed : ReviewBidder(u))
           \/ (\E u \in Suspendable : Suspend(u)) \/ UNCHANGED vars
  <2>1. UNCHANGED auctionVars
    BY <1>5 DEF Tick, ReviewBidder, Suspend, vars, auctionVars
  <2> QED
    BY <1>1, <2>1
<1> QED
  BY <1>2, <1>3, <1>4, <1>5 DEF Next

LEMMA NextSInv == SInv /\ [Next]_vars => SInv'
BY NextInv, NextKeeps DEF SInv

LEMMA AlwaysSInv == Spec => []SInv
<1> QED
  BY InitSInv, NextSInv, PTL DEF Spec

\* Every bid beats all earlier ones, in every interleaving of any number of
\* requests, workers and staff edits: the leader is the highest bid.
THEOREM AscendingCorrect == Spec => []Ascending
<1>1. SInv => Ascending
  BY DEF SInv
<1> QED
  BY <1>1, AlwaysSInv, PTL

\* No CHECK constraint of table Auction can make an update of it fail.
THEOREM ChecksCorrect == Spec => []ChecksKept
<1>1. SInv => ChecksKept
  BY DEF SInv
<1> QED
  BY <1>1, AlwaysSInv, PTL

\* The auction's events are numbered without a gap or a repeat.
THEOREM EventsCorrect == Spec => []EventsGapless
<1>1. SInv => EventsGapless
  BY DEF SInv
<1> QED
  BY <1>1, AlwaysSInv, PTL

\* Only the highest committed bid is ever settled, and exactly while the
\* auction awaits settlement.
THEOREM SettlementCorrect == Spec => []SettledOnHighestBid
<1>1. SInv => SettledOnHighestBid
  BY DEF SInv
<1> QED
  BY <1>1, AlwaysSInv, PTL

\* A step from a final status leaves the status, the bids and the settlement.
LEMMA FinalStays ==
    ASSUME TypeOK, auction.status \in Final, [Next]_vars
    PROVE  auction'.status = auction.status /\ bids' = bids /\ settlement' = settlement
<1>1. auction \in AuctionRow
  BY DEF TypeOK
<1>2. auction.status \notin {"DRAFT", "SCHEDULED", "LIVE", "PAUSED"}
  BY DEF Final
<1>3. CASE \E r \in Requests : BidStep(r)
  <2>1. PICK r \in Requests : BidStep(r)
    BY <1>3
  <2>2. ~AcceptBid(r)
    BY <1>2 DEF AcceptBid, Acceptable
  <2> QED
    BY <2>1, <2>2 DEF BidStep, ReceiveBid, BeginBid, ReplayBid, RefuseBid,
                      SerializationFailure, LoseBid, auctionVars
<1>4. CASE \E w \in Workers : WorkerStep(w)
  <2>1. PICK w \in Workers : WorkerStep(w)
    BY <1>4
  <2>2. ~StartAuction(w) /\ ~CloseSold(w) /\ ~CloseUnsold(w)
    BY <1>2 DEF StartAuction, ToStart, CloseSold, CloseUnsold, ToClose
  <2> QED
    BY <2>1, <2>2 DEF WorkerStep, Scan, BeginTask, DropTask, auctionVars
<1>5. CASE StaffStep
  <2>1. StaffEdit
    BY <1>2, <1>5 DEF StaffStep, Pause, Resume, Cancel
  <2>2. PICK starting, increment, reserve, starts, ends :
          auction' = Patched(starting, increment, reserve, starts, ends)
    BY <2>1 DEF StaffEdit
  <2>3. auction'.status = auction.status
    BY <1>1, <2>2 DEF Patched, AuctionRow
  <2> QED
    BY <2>1, <2>3 DEF StaffEdit
<1>6. CASE \/ Tick \/ (\E u \in Reviewed : ReviewBidder(u))
           \/ (\E u \in Suspendable : Suspend(u)) \/ UNCHANGED vars
  BY <1>6 DEF Tick, ReviewBidder, Suspend, vars, auctionVars
<1> QED
  BY <1>3, <1>4, <1>5, <1>6 DEF Next

\* Once an auction has ended, been sold or been cancelled, no step of any
\* process reopens it, adds a bid or changes who won.
THEOREM FinalCorrect == Spec => ResultIsFinal
<1>1. Inv /\ [Next]_vars =>
        [auction.status \in Final =>
            /\ auction'.status = auction.status
            /\ bids' = bids /\ settlement' = settlement]_vars
  BY FinalStays DEF Inv
<1> QED
  BY <1>1, AlwaysInv, PTL DEF Spec, ResultIsFinal

----------------------------------------------------------------------------
(* What those outside the auction may rely on: it is an ascending auction, *)
(* replies, notices and events tell what the rows hold, and the end keeps  *)
(* its distance from the last bid and the close its distance from the end. *)

\* A request that was received asks for an amount that was sent.
AmountsSent == \A r \in Requests : req[r].pc \in {"ready", "open"} => req[r].amount \in BidAmounts

RInv == SInv /\ AmountsSent

\* An answered request does not ask any more.
LEMMA AnsweredForgets ==
    ASSUME req \in [Requests -> RequestState], AmountsSent,
           NEW r \in Requests, NEW reply, Answer(r, reply)
    PROVE  AmountsSent'
<1>1. req'[r].pc = "done" /\ \A q \in Requests \ {r} : req'[q] = req[q]
  BY DEF Answer, NoRequest
<1> QED
  BY <1>1 DEF AmountsSent

\* Steps that only move on a request keep what it asks for.
LEMMA AmountKept ==
    ASSUME SInv, AmountsSent, NEW r \in Requests,
           \/ BeginBid(r) \/ ReplayBid(r) \/ RefuseBid(r) \/ AcceptBid(r)
           \/ SerializationFailure(r) \/ LoseBid(r)
    PROVE  AmountsSent'
<1>1. req \in [Requests -> RequestState] /\ req[r] \in RequestState
  BY DEF SInv, Inv, TypeOK
<1>2. req[r].pc \in {"ready", "open"}
  BY DEF BeginBid, ReplayBid, RefuseBid, AcceptBid, SerializationFailure,
         LoseBid, Unmoved
<1>3. ASSUME NEW reply, Answer(r, reply) PROVE AmountsSent'
  BY <1>1, <1>3, AnsweredForgets
<1>4. ASSUME Retry(r) PROVE AmountsSent'
  BY <1>1, <1>2, <1>4 DEF AmountsSent, Retry, RequestState, RequestIn
<1>5. CASE BeginBid(r)
  BY <1>1, <1>2, <1>5 DEF AmountsSent, BeginBid, RequestState, RequestIn
<1> QED
  BY <1>3, <1>4, <1>5 DEF ReplayBid, RefuseBid, AcceptBid,
     SerializationFailure, LoseBid

LEMMA NextAmountsSent ==
    ASSUME SInv, AmountsSent, [Next]_vars
    PROVE  AmountsSent'
<1>1. req \in [Requests -> RequestState]
  BY DEF SInv, Inv, TypeOK
<1>2. CASE UNCHANGED req
  BY <1>2 DEF AmountsSent
<1>3. CASE \E r \in Requests : BidStep(r)
  <2>1. PICK r \in Requests : BidStep(r)
    BY <1>3
  <2>2. CASE ReceiveBid(r)
    <3>1. PICK u \in Users, k \in Keys, a \in BidAmounts :
             IF active[u]
             THEN req' = [req EXCEPT ![r] = [req[r] EXCEPT !.pc = "ready", !.user = u,
                             !.key = k, !.amount = a, !.attempt = 1]]
             ELSE Answer(r, "refused")
      BY <2>2, Zenon DEF ReceiveBid
    <3>2. req[r] \in RequestState
      BY <1>1
    <3>3. CASE active[u]
      <4> DEFINE ready == [req[r] EXCEPT !.pc = "ready", !.user = u, !.key = k,
                                         !.amount = a, !.attempt = 1]
      <4>1. ready.amount = a
        BY <3>2 DEF RequestState, RequestIn
      <4>2. req' = [req EXCEPT ![r] = ready]
        BY <3>1, <3>3
      <4> HIDE DEF ready
      <4>3. req'[r].amount = a /\ \A q \in Requests \ {r} : req'[q] = req[q]
        BY <1>1, <4>1, <4>2
      <4> QED
        BY <4>3 DEF AmountsSent
    <3>4. CASE ~active[u]
      BY <1>1, <3>1, <3>4, AnsweredForgets
    <3> QED
      BY <3>3, <3>4
  <2> QED
    BY <2>1, <2>2, AmountKept DEF BidStep
<1> QED
  BY <1>2, <1>3 DEF Next, Tick, WorkerStep, Scan, BeginTask, StartAuction,
     CloseSold, CloseUnsold, DropTask, StaffStep, Pause, Resume, Cancel,
     StaffEdit, ReviewBidder, Suspend, vars

LEMMA AlwaysRInv == Spec => []RInv
<1>1. Init => RInv
  <2>1. Init => AmountsSent
    BY DEF Init, AmountsSent, NoRequest
  <2> QED
    BY <2>1, InitSInv DEF RInv
<1>2. RInv /\ [Next]_vars => RInv'
  BY NextSInv, NextAmountsSent DEF RInv
<1> QED
  BY <1>1, <1>2, PTL DEF Spec

OffersOf(s) == [i \in 1..Len(s) |-> [bidder |-> s[i].bidder, amount |-> s[i].amount]]

\* The offers of a sequence of bids are a sequence of its length.
LEMMA OffersType ==
    ASSUME NEW s \in Seq(BidRow)
    PROVE  /\ OffersOf(s) \in Seq([bidder : Users, amount : Nat])
           /\ Len(OffersOf(s)) = Len(s)
           /\ \A i \in 1..Len(s) :
                OffersOf(s)[i] = [bidder |-> s[i].bidder, amount |-> s[i].amount]
<1>1. Len(s) \in Nat /\ \A i \in 1..Len(s) : s[i] \in BidRow
  OBVIOUS
<1>2. \A i \in 1..Len(s) :
         [bidder |-> s[i].bidder, amount |-> s[i].amount]
         \in [bidder : Users, amount : Nat]
  BY <1>1 DEF BidRow
<1> QED
  BY <1>1, <1>2 DEF OffersOf

\* A bid more is an offer more.
LEMMA OneMoreOffer ==
    ASSUME bids \in Seq(BidRow), NEW bid \in BidRow, bids' = Append(bids, bid)
    PROVE  Offers' = Append(Offers, [bidder |-> bid.bidder, amount |-> bid.amount])
<1> DEFINE offer == [bidder |-> bid.bidder, amount |-> bid.amount]
<1>1. /\ Len(bids) \in Nat /\ Len(bids') = Len(bids) + 1
      /\ bids' \in Seq(BidRow)
      /\ bids'[Len(bids) + 1] = bid
      /\ \A i \in 1..Len(bids) : bids'[i] = bids[i]
  OBVIOUS
<1>2. /\ Offers' \in Seq([bidder : Users, amount : Nat])
      /\ Len(Offers') = Len(bids) + 1
      /\ \A i \in 1..(Len(bids) + 1) :
           Offers'[i] = [bidder |-> bids'[i].bidder, amount |-> bids'[i].amount]
  <2>1. Offers' = OffersOf(bids')
    BY DEF Offers, OffersOf
  <2> QED
    BY <1>1, <2>1, OffersType
<1>3. offer \in [bidder : Users, amount : Nat]
  BY DEF BidRow
<1>o. /\ Offers \in Seq([bidder : Users, amount : Nat])
      /\ Len(Offers) = Len(bids)
      /\ \A i \in 1..Len(bids) :
           Offers[i] = [bidder |-> bids[i].bidder, amount |-> bids[i].amount]
  <2>1. Offers = OffersOf(bids)
    BY DEF Offers, OffersOf
  <2> QED
    BY <2>1, OffersType
<1>4. /\ Append(Offers, offer) \in Seq([bidder : Users, amount : Nat])
      /\ Len(Append(Offers, offer)) = Len(bids) + 1
      /\ Append(Offers, offer)[Len(bids) + 1] = offer
      /\ \A i \in 1..Len(bids) : Append(Offers, offer)[i] = Offers[i]
  BY <1>1, <1>3, <1>o
<1>5. \A i \in 1..(Len(bids) + 1) : Offers'[i] = Append(Offers, offer)[i]
  <2>1. ASSUME NEW i \in 1..Len(bids) PROVE Offers'[i] = Offers[i]
    <3>1. i \in 1..(Len(bids) + 1) /\ bids'[i] = bids[i]
      BY <1>1
    <3>2. Offers'[i] = [bidder |-> bids[i].bidder, amount |-> bids[i].amount]
      BY <1>2, <3>1
    <3> QED
      BY <1>o, <3>2
  <2> QED
    BY <1>1, <1>2, <1>4, <2>1
<1> HIDE DEF offer
<1> QED
  BY <1>1, <1>2, <1>4, <1>5, SeqEqual

\* The commit of a bid is an offer.
LEMMA BidIsOffer ==
    ASSUME RInv, NEW r \in Requests, AcceptBid(r)
    PROVE  Promise!Go
<1> DEFINE bid == [bidder |-> req[r].user, amount |-> req[r].amount,
                   sequence |-> auction.sequence + 1,
                   previous |-> auction.currentBid, key |-> req[r].key, request |-> r]
<1>1. /\ req[r] \in RequestState /\ auction \in AuctionRow
      /\ bids \in Seq(BidRow) /\ settlement = {}
  BY DEF RInv, SInv, Inv, TypeOK, SettledOnHighestBid, AcceptBid, Acceptable
<1>2. bid \in BidRow /\ bids' = Append(bids, bid)
  BY CommittedBid DEF RInv, SInv, AcceptBid
<1>3. bid.bidder = req[r].user /\ bid.amount = req[r].amount
  OBVIOUS
<1> HIDE DEF bid
<1>4. Offers' = Append(Offers, [bidder |-> req[r].user, amount |-> req[r].amount])
  BY <1>1, <1>2, <1>3, OneMoreOffer
<1>5. req[r].user \in Users /\ req[r].amount \in BidAmounts
  BY <1>1 DEF RInv, AmountsSent, AcceptBid, Unmoved, RequestState, RequestIn
<1>6. \A i \in DOMAIN Offers : Offers[i].amount < req[r].amount
  <2>1. Ascending'
    BY AcceptBidSInv DEF RInv
  <2>2. /\ Len(bids) \in Nat /\ DOMAIN bids' = 1..(Len(bids) + 1)
        /\ bids'[Len(bids) + 1] = bid
        /\ \A i \in 1..Len(bids) : bids'[i] = bids[i]
    BY <1>1, <1>2
  <2>3. \A i \in 1..Len(bids) : bids[i].amount < bid.amount
    BY <2>1, <2>2 DEF Ascending
  <2> QED
    BY <1>3, <2>3 DEF Offers
<1>7. Phase = "open" /\ Phase' = Phase
  <2>1. auction.status = "LIVE" /\ auction'.status = auction.status
    BY <1>1 DEF AcceptBid, Acceptable, RowAfterBid, AuctionRow
  <2> QED
    BY <2>1 DEF Phase
<1>8. Sold' = Sold
  BY <1>1 DEF AcceptBid, Sold
<1> QED
  BY <1>4, <1>5, <1>6, <1>7, <1>8 DEF Promise!Go, Promise!Offer

\* The close that finds a buyer is the sale for the last offer.
LEMMA CloseIsSale ==
    ASSUME RInv, NEW w \in Workers, CloseSold(w)
    PROVE  Promise!Go
<1>1. /\ auction \in AuctionRow /\ bids \in Seq(BidRow)
      /\ auction.currentBid = Len(bids) /\ Len(bids) # 0
      /\ auction.status = "LIVE"
      /\ auction'.status = "AWAITING_SETTLEMENT"
  BY DEF RInv, SInv, Inv, TypeOK, LedgerAgrees, CloseSold, ToClose, NoBid,
         MoveTo, AuctionRow
<1>2. bids' = bids /\ Offers' = Offers /\ Len(Offers) = Len(bids) /\ Offers # << >>
  BY <1>1 DEF CloseSold, Offers
<1>3. Phase = "open" /\ Phase' = "closed"
  BY <1>1 DEF Phase
<1>4. Sold' = {Offers[Len(Offers)]}
  <2>1. settlement' = {[bid |-> Len(bids), buyer |-> bids[Len(bids)].bidder]}
    BY <1>1 DEF CloseSold
  <2> QED
    BY <1>2, <2>1 DEF Sold
<1> QED
  BY <1>2, <1>3, <1>4 DEF Promise!Go, Promise!Sell

\* A change of status that does not sell is a start, a hold, a release or an
\* end.
LEMMA MoveIsStep ==
    ASSUME RInv, NEW status \in AuctionStatus, MoveTo(status),
           UNCHANGED <<bids, settlement>>,
           \/ auction.status = "SCHEDULED" /\ status = "LIVE"
           \/ auction.status = "LIVE" /\ status = "PAUSED"
           \/ auction.status = "PAUSED" /\ status = "LIVE"
           \/ /\ auction.status \in {"DRAFT", "SCHEDULED", "LIVE", "PAUSED"}
              /\ status \in {"ENDED", "CANCELLED"}
    PROVE  Promise!Go
<1>1. auction \in AuctionRow /\ auction'.status = status
  BY DEF RInv, SInv, Inv, TypeOK, MoveTo, AuctionRow
<1>2. Offers' = Offers /\ Sold' = Sold
  BY DEF Offers, Sold
<1>3. CASE auction.status = "SCHEDULED" /\ status = "LIVE"
  BY <1>1, <1>2, <1>3 DEF Phase, Promise!Go, Promise!Start
<1>4. CASE auction.status = "LIVE" /\ status = "PAUSED"
  BY <1>1, <1>2, <1>4 DEF Phase, Promise!Go, Promise!Hold
<1>5. CASE auction.status = "PAUSED" /\ status = "LIVE"
  BY <1>1, <1>2, <1>5 DEF Phase, Promise!Go, Promise!Release
<1>6. CASE /\ auction.status \in {"DRAFT", "SCHEDULED", "LIVE", "PAUSED"}
           /\ status \in {"ENDED", "CANCELLED"}
  BY <1>1, <1>2, <1>6 DEF Phase, Promise!Go, Promise!End
<1> QED
  BY <1>3, <1>4, <1>5, <1>6

\* A step that keeps status, bids and settlement is none of the promise.
LEMMA StutterIsNone ==
    ASSUME auction'.status = auction.status, UNCHANGED <<bids, settlement>>
    PROVE  UNCHANGED Promise!promised
<1>1. Phase' = Phase
  BY DEF Phase
<1>2. Offers' = Offers /\ Sold' = Sold
  BY DEF Offers, Sold
<1> QED
  BY <1>1, <1>2 DEF Promise!promised

LEMMA StepIsStep ==
    ASSUME RInv, [Next]_vars
    PROVE  [Promise!Go]_(Promise!promised)
<1>1. CASE UNCHANGED auctionVars
  BY <1>1, StutterIsNone DEF auctionVars
<1>2. CASE \E r \in Requests : BidStep(r)
  <2>1. PICK r \in Requests : BidStep(r)
    BY <1>2
  <2>2. CASE AcceptBid(r)
    BY <2>2, BidIsOffer
  <2>3. CASE ~AcceptBid(r)
    <3>1. UNCHANGED auctionVars
      BY <2>1, <2>3 DEF BidStep, ReceiveBid, BeginBid, ReplayBid, RefuseBid,
                        SerializationFailure, LoseBid
    <3> QED
      BY <1>1, <3>1
  <2> QED
    BY <2>2, <2>3
<1>3. CASE \E w \in Workers : WorkerStep(w)
  <2>1. PICK w \in Workers : WorkerStep(w)
    BY <1>3
  <2>2. CASE CloseSold(w)
    BY <2>2, CloseIsSale
  <2>3. CASE StartAuction(w)
    <3>1. PICK status \in {"ENDED", "LIVE"} : MoveTo(status)
      BY <2>3 DEF StartAuction
    <3> QED
      BY <2>3, <3>1, MoveIsStep DEF StartAuction, ToStart, AuctionStatus
  <2>4. CASE CloseUnsold(w)
    BY <2>4, MoveIsStep DEF CloseUnsold, ToClose, AuctionStatus
  <2>5. CASE Scan(w) \/ BeginTask(w) \/ DropTask(w)
    BY <1>1, <2>5 DEF Scan, BeginTask, DropTask
  <2> QED
    BY <2>1, <2>2, <2>3, <2>4, <2>5 DEF WorkerStep
<1>4. CASE StaffStep
  <2>1. CASE Pause
    BY <2>1, MoveIsStep DEF Pause, AuctionStatus
  <2>2. CASE Resume
    BY <2>2, MoveIsStep DEF Resume, AuctionStatus
  <2>3. CASE Cancel
    BY <2>3, MoveIsStep DEF Cancel, AuctionStatus
  <2>4. CASE StaffEdit
    <3>1. PICK starting, increment, reserve, starts, ends :
             auction' = Patched(starting, increment, reserve, starts, ends)
      BY <2>4 DEF StaffEdit
    <3>2. auction'.status = auction.status
      BY <3>1 DEF Patched, RInv, SInv, Inv, TypeOK, AuctionRow
    <3> QED
      BY <2>4, <3>2, StutterIsNone DEF StaffEdit
  <2> QED
    BY <1>4, <2>1, <2>2, <2>3, <2>4 DEF StaffStep
<1>5. CASE \/ Tick \/ (\E u \in Reviewed : ReviewBidder(u))
           \/ (\E u \in Suspendable : Suspend(u)) \/ UNCHANGED vars
  <2>1. UNCHANGED auctionVars
    BY <1>5 DEF Tick, ReviewBidder, Suspend, vars, auctionVars
  <2> QED
    BY <1>1, <2>1
<1> QED
  BY <1>2, <1>3, <1>4, <1>5 DEF Next

LEMMA StartIsStart == Init => Promise!Begin
<1> SUFFICES ASSUME Init PROVE Promise!Begin
  OBVIOUS
<1>1. Phase \in {"ahead", "open"}
  BY DEF Init, Phase
<1>2. Offers = << >> /\ Sold = {}
  BY DEF Init, Offers, Sold
<1> QED
  BY <1>1, <1>2 DEF Promise!Begin

\* Any number of requests, workers and members of staff, in every interleaving
\* of their transactions, keep the promise of an ascending auction.
THEOREM AuctionImplementsPromise == Spec => ImplementsAscendingAuction
<1>1. RInv /\ [Next]_vars => [Promise!Go]_(Promise!promised)
  BY StepIsStep
<1> QED
  BY <1>1, StartIsStart, AlwaysRInv, PTL
  DEF Spec, ImplementsAscendingAuction, Promise!Spec

----------------------------------------------------------------------------
(* What clients are told: replies, notices and events.  A reply is true    *)
(* because it is given once, at the end, and bids are never taken back; the *)
(* events tell the row because every change of status and every bid writes *)
(* exactly one, in the transaction that makes the change.                  *)

\* A request that is still served has no reply yet.
Unanswered == \A r \in Requests : req[r].pc # "done" => req[r].reply = "none"

StatusEvents == {i \in DOMAIN events : events[i].type = "auction.status.changed"}
BidEvents == {i \in DOMAIN events : events[i].type = "auction.bid.accepted"}

LastStatusTold ==
    \A i \in StatusEvents :
        (\A j \in StatusEvents : j <= i) => events[i].status = auction.status

\* Bids and the events that announce them, one to one.
EachBidTold ==
    /\ \A i \in BidEvents : /\ events[i].bid \in DOMAIN bids
                            /\ events[i].amount = bids[events[i].bid].amount
    /\ \A i, j \in BidEvents : events[i].bid = events[j].bid => i = j
    /\ \A b \in DOMAIN bids : \E i \in BidEvents : events[i].bid = b

TInv == SInv /\ Unanswered /\ RepliesTrue /\ OutbidTold /\ LastStatusTold /\ EachBidTold

\* An answer ends its request and no other.
LEMMA AnswerEnds ==
    ASSUME req \in [Requests -> RequestState], NEW r \in Requests, NEW reply,
           Answer(r, reply)
    PROVE  /\ req'[r].pc = "done" /\ req'[r].reply = reply
           /\ reply \in {"accepted", "duplicate"} =>
                /\ req'[r].user = req[r].user /\ req'[r].key = req[r].key
                /\ req'[r].amount = req[r].amount
           /\ \A q \in Requests \ {r} : req'[q] = req[q]
BY DEF Answer, NoRequest

\* A step of a request answers it or leaves it without a reply.
LEMMA StepAnswers ==
    ASSUME TypeOK, Unanswered, NEW r \in Requests, BidStep(r)
    PROVE  /\ req[r].pc # "done"
           /\ req[r].reply = "none"
           /\ \/ \E reply : Answer(r, reply)
              \/ req'[r].pc # "done" /\ req'[r].reply = "none"
           /\ \A q \in Requests \ {r} : req'[q] = req[q]
<1>1. req \in [Requests -> RequestState] /\ req[r] \in RequestState
  BY DEF TypeOK
<1>2. req[r].pc \in {"idle", "ready", "open"}
  BY DEF BidStep, ReceiveBid, BeginBid, ReplayBid, RefuseBid, AcceptBid,
         SerializationFailure, LoseBid, Unmoved
<1>3. req[r].reply = "none"
  BY <1>2 DEF Unanswered
<1>4. ASSUME NEW reply, Answer(r, reply)
      PROVE  \A q \in Requests \ {r} : req'[q] = req[q]
  BY <1>1, <1>4, AnswerEnds
<1>5. CASE ReceiveBid(r)
  <2>1. PICK u \in Users, k \in Keys, a \in BidAmounts :
           IF active[u]
           THEN req' = [req EXCEPT ![r] = [req[r] EXCEPT !.pc = "ready", !.user = u,
                           !.key = k, !.amount = a, !.attempt = 1]]
           ELSE Answer(r, "refused")
    BY <1>5, Zenon DEF ReceiveBid
  <2>2. CASE active[u]
    <3> DEFINE ready == [req[r] EXCEPT !.pc = "ready", !.user = u, !.key = k,
                                       !.amount = a, !.attempt = 1]
    <3>1. ready.pc = "ready" /\ ready.reply = "none"
      BY <1>1, <1>3 DEF RequestState, RequestIn
    <3>2. req' = [req EXCEPT ![r] = ready]
      BY <2>1, <2>2
    <3> HIDE DEF ready
    <3> QED
      BY <1>1, <1>2, <1>3, <3>1, <3>2
  <2> QED
    BY <1>2, <1>3, <1>4, <2>1, <2>2
<1>6. CASE BeginBid(r)
  BY <1>1, <1>2, <1>3, <1>6 DEF BeginBid, RequestState, RequestIn
<1>7. CASE Retry(r)
  BY <1>1, <1>2, <1>3, <1>7 DEF Retry, RequestState, RequestIn
<1> QED
  BY <1>2, <1>3, <1>4, <1>5, <1>6, <1>7 DEF BidStep, ReplayBid, RefuseBid,
     AcceptBid, SerializationFailure, LoseBid

LEMMA NextUnanswered ==
    ASSUME TypeOK, Unanswered, [Next]_vars
    PROVE  Unanswered'
<1>1. CASE UNCHANGED req
  BY <1>1 DEF Unanswered
<1>2. CASE \E r \in Requests : BidStep(r)
  <2>1. PICK r \in Requests : BidStep(r)
    BY <1>2
  <2>2. req \in [Requests -> RequestState]
    BY DEF TypeOK
  <2>3. ASSUME NEW reply, Answer(r, reply) PROVE req'[r].pc = "done"
    BY <2>2, <2>3, AnswerEnds
  <2> QED
    BY <2>1, <2>3, StepAnswers DEF Unanswered
<1> QED
  BY <1>1, <1>2 DEF Next, Tick, WorkerStep, Scan, BeginTask, StartAuction,
     CloseSold, CloseUnsold, DropTask, StaffStep, Pause, Resume, Cancel,
     StaffEdit, ReviewBidder, Suspend, vars

\* What AcceptBid appends.
BidOf(r) == [bidder |-> req[r].user, amount |-> req[r].amount,
             sequence |-> auction.sequence + 1, previous |-> auction.currentBid,
             key |-> req[r].key, request |-> r]

\* The bids after a commit.
LEMMA OneMoreBid ==
    ASSUME Inv, NEW r \in Requests, AcceptBid(r)
    PROVE  /\ Len(bids) \in Nat /\ DOMAIN bids = 1..Len(bids)
           /\ DOMAIN bids' = 1..(Len(bids) + 1)
           /\ \A i \in 1..Len(bids) : bids'[i] = bids[i]
           /\ bids'[Len(bids) + 1] = BidOf(r)
<1>1. bids \in Seq(BidRow) /\ BidOf(r) \in BidRow
  BY CommittedBid DEF Inv, TypeOK, BidOf
<1>2. bids' = Append(bids, BidOf(r))
  BY DEF AcceptBid, BidOf
<1> QED
  BY <1>1, <1>2

\* A step that keeps the bids: only a replay answers with one of them.
LEMMA ReplyStepTrue ==
    ASSUME TInv, NEW r \in Requests, BidStep(r), ~AcceptBid(r)
    PROVE  RepliesTrue'
<1>1. req \in [Requests -> RequestState] /\ bids' = bids
  BY DEF TInv, SInv, Inv, TypeOK, BidStep, ReceiveBid, BeginBid, ReplayBid, RefuseBid,
         SerializationFailure, LoseBid, auctionVars
<1>2. /\ req[r].reply = "none"
      /\ (\E reply : Answer(r, reply)) \/ req'[r].reply = "none"
      /\ \A q \in Requests \ {r} : req'[q] = req[q]
  BY StepAnswers DEF TInv, SInv, Inv
<1>3. \A i \in DOMAIN bids : bids[i].request # r
  BY <1>2 DEF TInv, RepliesTrue
<1>4. req'[r].reply \in {"accepted", "duplicate"} =>
        \E i \in DOMAIN bids : /\ bids[i].bidder = req'[r].user
                               /\ bids[i].key = req'[r].key
                               /\ bids[i].amount = req'[r].amount
  <2>1. CASE ReplayBid(r)
    <3>1. PICK i \in Existing(r) :
            Answer(r, IF bids[i].amount = req[r].amount THEN "duplicate" ELSE "refused")
      BY <2>1 DEF ReplayBid
    <3>2. i \in DOMAIN bids /\ bids[i].bidder = req[r].user /\ bids[i].key = req[r].key
      BY DEF Existing
    <3>3. CASE bids[i].amount = req[r].amount
      <4>1. Answer(r, "duplicate")
        BY <3>1, <3>3
      <4> QED
        BY <1>1, <3>2, <3>3, <4>1, AnswerEnds
    <3>4. CASE bids[i].amount # req[r].amount
      <4>1. Answer(r, "refused")
        BY <3>1, <3>4
      <4> QED
        BY <1>1, <4>1, AnswerEnds
    <3> QED
      BY <3>3, <3>4
  <2>2. ASSUME NEW reply \in {"refused", "failed", "unknown"}, Answer(r, reply)
        PROVE  req'[r].reply \notin {"accepted", "duplicate"}
    BY <1>1, <2>2, AnswerEnds
  <2>3. CASE ~ReplayBid(r)
    <3>1. \/ \E reply \in {"refused", "failed", "unknown"} : Answer(r, reply)
          \/ req'[r].reply = "none"
      <4>1. CASE ReceiveBid(r)
        <5>1. req[r] \in RequestState
          BY <1>1
        <5>2. PICK u \in Users, k \in Keys, a \in BidAmounts :
                 IF active[u]
                 THEN req' = [req EXCEPT ![r] = [req[r] EXCEPT !.pc = "ready", !.user = u,
                                 !.key = k, !.amount = a, !.attempt = 1]]
                 ELSE Answer(r, "refused")
          BY <4>1, Zenon DEF ReceiveBid
        <5>3. [req[r] EXCEPT !.pc = "ready", !.user = u, !.key = k, !.amount = a,
                             !.attempt = 1].reply = "none"
          BY <1>2, <5>1 DEF RequestState, RequestIn
        <5> QED
          BY <1>1, <5>2, <5>3
      <4>2. CASE BeginBid(r)
        BY <1>1, <1>2, <4>2 DEF BeginBid, RequestState, RequestIn
      <4>3. CASE Retry(r)
        BY <1>1, <1>2, <4>3 DEF Retry, RequestState, RequestIn
      <4> QED
        BY <2>3, <4>1, <4>2, <4>3 DEF BidStep, RefuseBid, SerializationFailure, LoseBid
    <3> QED
      BY <2>2, <3>1
  <2> QED
    BY <2>1, <2>3
<1>5. ASSUME NEW q \in Requests
      PROVE  /\ req'[q].reply \in {"accepted", "duplicate"} =>
                  \E i \in DOMAIN bids' : /\ bids'[i].bidder = req'[q].user
                                          /\ bids'[i].key = req'[q].key
                                          /\ bids'[i].amount = req'[q].amount
             /\ req'[q].reply \in {"none", "duplicate", "refused", "failed"} =>
                  \A i \in DOMAIN bids' : bids'[i].request # q
  BY <1>1, <1>2, <1>3, <1>4 DEF TInv, RepliesTrue
<1> QED
  BY <1>1, <1>5 DEF TInv, RepliesTrue

\* A commit makes the only bid of its request, with a key its bidder never used.
LEMMA CommitReplyTrue ==
    ASSUME TInv, NEW r \in Requests, AcceptBid(r)
    PROVE  RepliesTrue'
<1> DEFINE n == Len(bids) + 1
<1>1. req \in [Requests -> RequestState] /\ Inv /\ BidStep(r)
  BY DEF TInv, SInv, Inv, TypeOK, BidStep
<1>2. /\ Len(bids) \in Nat /\ DOMAIN bids = 1..Len(bids) /\ DOMAIN bids' = 1..n
      /\ \A i \in 1..Len(bids) : bids'[i] = bids[i]
      /\ bids'[n].bidder = req[r].user /\ bids'[n].key = req[r].key
      /\ bids'[n].amount = req[r].amount /\ bids'[n].request = r
  <2>1. /\ BidOf(r).bidder = req[r].user /\ BidOf(r).key = req[r].key
        /\ BidOf(r).amount = req[r].amount /\ BidOf(r).request = r
    BY DEF BidOf
  <2> QED
    BY <1>1, <2>1, OneMoreBid
<1> HIDE DEF n
<1>3. PICK reply \in {"accepted", "unknown"} : Answer(r, reply)
  BY DEF AcceptBid
<1>4. /\ req'[r].reply = reply
      /\ reply = "accepted" => /\ req'[r].user = req[r].user /\ req'[r].key = req[r].key
                               /\ req'[r].amount = req[r].amount
      /\ \A q \in Requests \ {r} : req'[q] = req[q]
  BY <1>1, <1>3, AnswerEnds
<1>5. \A i \in 1..Len(bids) : ~(bids[i].bidder = req[r].user /\ bids[i].key = req[r].key)
  BY <1>2 DEF AcceptBid, Existing
<1>6. n \in 1..n /\ \A i \in 1..n : i # n => i \in 1..Len(bids)
  BY <1>2 DEF n
<1>6a. \A i \in 1..Len(bids) : i \in 1..n
  BY <1>2 DEF n
<1>7. ASSUME NEW q \in Requests, req'[q].reply \in {"accepted", "duplicate"}
      PROVE  \E i \in DOMAIN bids' : /\ bids'[i].bidder = req'[q].user
                                     /\ bids'[i].key = req'[q].key
                                     /\ bids'[i].amount = req'[q].amount
  <2>1. CASE q = r
    BY <1>2, <1>3, <1>4, <1>6, <1>7, <2>1
  <2>2. CASE q # r
    <3>1. PICK i \in DOMAIN bids : /\ bids[i].bidder = req[q].user
                                   /\ bids[i].key = req[q].key
                                   /\ bids[i].amount = req[q].amount
      BY <1>4, <1>7, <2>2 DEF TInv, RepliesTrue
    <3> QED
      BY <1>2, <1>4, <1>6a, <2>2, <3>1
  <2> QED
    BY <2>1, <2>2
<1>8. ASSUME NEW q \in Requests,
             req'[q].reply \in {"none", "duplicate", "refused", "failed"}
      PROVE  \A i \in DOMAIN bids' : bids'[i].request # q
  <2>1. q # r
    BY <1>3, <1>4, <1>8
  <2>2. \A i \in DOMAIN bids : bids[i].request # q
    BY <1>4, <1>8, <2>1 DEF TInv, RepliesTrue
  <2> QED
    BY <1>2, <1>6, <2>1, <2>2
<1>9. ASSUME NEW i \in DOMAIN bids', NEW j \in DOMAIN bids',
             bids'[i].bidder = bids'[j].bidder, bids'[i].key = bids'[j].key
      PROVE  i = j
  BY <1>2, <1>5, <1>6, <1>9 DEF TInv, RepliesTrue
<1> QED
  BY <1>7, <1>8, <1>9 DEF RepliesTrue

\* The notice of a commit is for the bidder of the bid before, unless it is the
\* same user.
LEMMA CommitOutbidTold ==
    ASSUME TInv, NEW r \in Requests, AcceptBid(r)
    PROVE  OutbidTold'
<1> DEFINE n == Len(bids) + 1
           told == [user |-> bids[n - 1].bidder, type |-> "auction.outbid", bid |-> n]
           lost == n > 1 /\ req[r].user # bids[n - 1].bidder
<1>1. /\ Len(bids) \in Nat /\ DOMAIN bids = 1..Len(bids) /\ DOMAIN bids' = 1..n
      /\ \A i \in 1..Len(bids) : bids'[i] = bids[i]
      /\ bids'[n].bidder = req[r].user
  <2>1. BidOf(r).bidder = req[r].user
    BY DEF BidOf
  <2> QED
    BY <2>1, OneMoreBid DEF TInv, SInv
<1>2. auction.sequence + 1 = n /\ auction.currentBid = n - 1
  BY <1>1 DEF TInv, SInv, Inv, LedgerAgrees
<1>3. notices' = notices \union IF lost THEN {told} ELSE {}
  BY <1>1, <1>2 DEF AcceptBid, OutbidNotices, NoBid
<1>4. {i \in 1..n : i > 1 /\ bids'[i].bidder # bids'[i - 1].bidder}
      = {i \in 1..Len(bids) : i > 1 /\ bids[i].bidder # bids[i - 1].bidder}
        \union IF lost THEN {n} ELSE {}
  BY <1>1
<1>5. {[user |-> bids'[i - 1].bidder, type |-> "auction.outbid", bid |-> i] :
          i \in {j \in 1..n : j > 1 /\ bids'[j].bidder # bids'[j - 1].bidder}}
      = {[user |-> bids[i - 1].bidder, type |-> "auction.outbid", bid |-> i] :
          i \in {j \in 1..Len(bids) : j > 1 /\ bids[j].bidder # bids[j - 1].bidder}}
        \union IF lost THEN {told} ELSE {}
  <2>1. \A i \in 1..n : i > 1 => bids'[i - 1] = bids[i - 1]
    BY <1>1
  <2> QED
    BY <1>1, <1>4, <2>1
<1>6. {x \in notices' : x.type = "auction.outbid"}
      = {x \in notices : x.type = "auction.outbid"} \union IF lost THEN {told} ELSE {}
  <2>1. told.type = "auction.outbid"
    OBVIOUS
  <2> HIDE DEF told, lost
  <2> QED
    BY <1>3, <2>1
<1> HIDE DEF told, lost
<1> QED
  BY <1>1, <1>5, <1>6 DEF TInv, OutbidTold

\* A winner's notice is not an outbid notice.
LEMMA CloseOutbidTold ==
    ASSUME TInv, NEW w \in Workers, CloseSold(w)
    PROVE  OutbidTold'
<1> DEFINE won == [user |-> bids[auction.currentBid].bidder, type |-> "auction.won",
                   bid |-> auction.currentBid]
<1>1. notices' = notices \union {won} /\ won.type # "auction.outbid" /\ bids' = bids
  BY DEF CloseSold
<1> HIDE DEF won
<1> QED
  BY <1>1 DEF TInv, OutbidTold

----------------------------------------------------------------------------
\* One event more.
LEMMA AppendedEvent ==
    ASSUME TypeOK, NEW e \in StatusEvent \union BidEvent, events' = Append(events, e)
    PROVE  /\ Len(events) \in Nat /\ DOMAIN events = 1..Len(events)
           /\ DOMAIN events' = 1..(Len(events) + 1)
           /\ \A i \in 1..Len(events) : events'[i] = events[i]
           /\ events'[Len(events) + 1] = e
<1>1. events \in Seq(StatusEvent \union BidEvent)
  BY DEF TypeOK
<1> QED
  BY <1>1

\* A change of status is told by the last status event, and announces no bid.
LEMMA MoveToTold ==
    ASSUME TInv, NEW status \in AuctionStatus, MoveTo(status), bids' = bids
    PROVE  LastStatusTold' /\ EachBidTold'
<1> DEFINE e == [type |-> "auction.status.changed",
                 sequence |-> auction.eventSequence + 1, status |-> status]
           n == Len(events) + 1
<1>1. TypeOK /\ auction \in AuctionRow
  BY DEF TInv, SInv, Inv, TypeOK
<1>2. auction'.status = status
  BY <1>1 DEF MoveTo, AuctionRow
<1>3. e \in StatusEvent
  BY <1>1, Increments DEF StatusEvent
<1>4. e.type = "auction.status.changed" /\ e.status = status
  OBVIOUS
<1>5. events' = Append(events, e)
  BY DEF MoveTo
<1> HIDE DEF e
<1>6. /\ Len(events) \in Nat /\ DOMAIN events = 1..Len(events) /\ DOMAIN events' = 1..n
      /\ \A i \in 1..Len(events) : events'[i] = events[i]
      /\ events'[n] = e
  BY <1>1, <1>3, <1>5, AppendedEvent
<1>7. StatusEvents' = StatusEvents \union {n} /\ BidEvents' = BidEvents
  BY <1>4, <1>6 DEF StatusEvents, BidEvents
<1>8. LastStatusTold'
  <2>1. \A i \in StatusEvents : ~(n <= i)
    BY <1>6 DEF StatusEvents
  <2> SUFFICES ASSUME NEW i \in StatusEvents \union {n},
                      \A j \in StatusEvents \union {n} : j <= i
               PROVE  events'[i].status = auction'.status
    BY <1>7 DEF LastStatusTold
  <2> QED
    BY <1>2, <1>4, <1>6, <2>1
<1>9. EachBidTold'
  <2>1. \A i \in BidEvents : events'[i] = events[i]
    BY <1>6 DEF BidEvents
  <2> QED
    BY <1>7, <2>1 DEF TInv, EachBidTold
<1> QED
  BY <1>8, <1>9

\* A commit is announced by the event it writes.
LEMMA CommitTold ==
    ASSUME TInv, NEW r \in Requests, AcceptBid(r)
    PROVE  LastStatusTold' /\ EachBidTold'
<1> DEFINE end == ExtendedEnd(req[r].now)
           e == [type |-> "auction.bid.accepted",
                 sequence |-> auction.eventSequence + 1,
                 bid |-> auction.sequence + 1, amount |-> req[r].amount, endsAt |-> end]
           n == Len(events) + 1
           b == Len(bids) + 1
<1>1. /\ TypeOK /\ auction \in AuctionRow /\ req[r] \in RequestState
      /\ auction.sequence + 1 = b
  BY DEF TInv, SInv, Inv, TypeOK, LedgerAgrees
<1>2. auction'.status = auction.status
  BY <1>1 DEF AcceptBid, RowAfterBid, AuctionRow
<1>3. e \in BidEvent
  <2>1. auction.sequence + 1 \in Nat /\ auction.eventSequence + 1 \in Nat
    BY <1>1, Increments
  <2>2. req[r].amount \in Nat /\ end \in Nat
    <3>1. req[r].amount \in Nat
      BY <1>1 DEF RequestState, RequestIn
    <3>2. end \in Nat
      BY <1>1, ConstantsAssumption DEF ExtendedEnd, AuctionRow
    <3> QED
      BY <3>1, <3>2
  <2> HIDE DEF end
  <2> QED
    BY <2>1, <2>2 DEF BidEvent
<1>4. e.type = "auction.bid.accepted" /\ e.bid = b /\ e.amount = req[r].amount
  BY <1>1
<1>5. events' = Append(events, e)
  BY DEF AcceptBid
<1> HIDE DEF e
<1>6. /\ Len(events) \in Nat /\ DOMAIN events = 1..Len(events) /\ DOMAIN events' = 1..n
      /\ \A i \in 1..Len(events) : events'[i] = events[i]
      /\ events'[n] = e
  BY <1>1, <1>3, <1>5, AppendedEvent
<1>7. /\ Len(bids) \in Nat /\ DOMAIN bids = 1..Len(bids) /\ DOMAIN bids' = 1..b
      /\ \A i \in 1..Len(bids) : bids'[i] = bids[i]
      /\ bids'[b].amount = req[r].amount
  <2>1. BidOf(r).amount = req[r].amount
    BY DEF BidOf
  <2> QED
    BY <2>1, OneMoreBid DEF TInv, SInv
<1>8. StatusEvents' = StatusEvents /\ BidEvents' = BidEvents \union {n}
  BY <1>4, <1>6 DEF StatusEvents, BidEvents
<1>9. \A i \in StatusEvents \union BidEvents : events'[i] = events[i] /\ i # n
  BY <1>6 DEF StatusEvents, BidEvents
<1>10. LastStatusTold'
  BY <1>2, <1>8, <1>9 DEF TInv, LastStatusTold
<1>11. EachBidTold'
  <2>1. \A i \in BidEvents : /\ events[i].bid \in 1..Len(bids)
                             /\ events[i].amount = bids[events[i].bid].amount
    BY <1>7 DEF TInv, EachBidTold
  <2>2. b \in 1..b /\ b \notin 1..Len(bids) /\ \A k \in 1..b : k # b => k \in 1..Len(bids)
    BY <1>7
  <2>3. \A k \in 1..Len(bids) : k \in 1..b
    BY <1>7
  <2> HIDE DEF b
  <2>4. \A i \in BidEvents' : /\ events'[i].bid \in 1..b
                              /\ events'[i].amount = bids'[events'[i].bid].amount
    BY <1>4, <1>6, <1>7, <1>8, <1>9, <2>1, <2>2, <2>3
  <2>5. \A i, j \in BidEvents' : events'[i].bid = events'[j].bid => i = j
    <3> SUFFICES ASSUME NEW i \in BidEvents \union {n}, NEW j \in BidEvents \union {n},
                        events'[i].bid = events'[j].bid
                 PROVE  i = j
      BY <1>8
    <3>1. CASE i = n /\ j # n
      BY <1>4, <1>6, <1>9, <2>1, <2>2, <3>1
    <3>2. CASE i # n /\ j = n
      BY <1>4, <1>6, <1>9, <2>1, <2>2, <3>2
    <3>3. CASE i # n /\ j # n
      BY <1>9, <3>3 DEF TInv, EachBidTold
    <3> QED
      BY <3>1, <3>2, <3>3
  <2>6. \A k \in 1..b : \E i \in BidEvents' : events'[i].bid = k
    <3> SUFFICES ASSUME NEW k \in 1..b PROVE \E i \in BidEvents' : events'[i].bid = k
      OBVIOUS
    <3>1. CASE k = b
      BY <1>4, <1>6, <1>8, <3>1
    <3>2. CASE k # b
      <4>1. PICK i \in BidEvents : events[i].bid = k
        BY <1>7, <2>2, <3>2 DEF TInv, EachBidTold
      <4> QED
        BY <1>8, <1>9, <4>1
    <3> QED
      BY <3>1, <3>2
  <2> QED
    BY <1>7, <2>4, <2>5, <2>6 DEF EachBidTold
<1> QED
  BY <1>10, <1>11

----------------------------------------------------------------------------
\* What a step that leaves the auction and its tables alone keeps.
LEMMA TablesTold ==
    ASSUME TInv, UNCHANGED auctionVars
    PROVE  OutbidTold' /\ LastStatusTold' /\ EachBidTold'
BY DEF TInv, OutbidTold, LastStatusTold, EachBidTold, StatusEvents, BidEvents, auctionVars

\* Replies stay true while neither requests nor bids change.
LEMMA SameReplies ==
    ASSUME RepliesTrue, req' = req, bids' = bids
    PROVE  RepliesTrue'
BY DEF RepliesTrue

LEMMA InitTInv == Init => TInv
<1> SUFFICES ASSUME Init PROVE TInv
  OBVIOUS
<1>1. Unanswered /\ RepliesTrue /\ OutbidTold
  BY DEF Init, Unanswered, RepliesTrue, OutbidTold, NoRequest
<1>2. LastStatusTold /\ EachBidTold
  BY DEF Init, LastStatusTold, EachBidTold, StatusEvents, BidEvents
<1> QED
  BY <1>1, <1>2, InitSInv DEF TInv

LEMMA NextTold ==
    ASSUME TInv, [Next]_vars
    PROVE  RepliesTrue' /\ OutbidTold' /\ LastStatusTold' /\ EachBidTold'
<1>1. CASE \E r \in Requests : BidStep(r)
  <2>1. PICK r \in Requests : BidStep(r)
    BY <1>1
  <2>2. CASE AcceptBid(r)
    BY <2>2, CommitReplyTrue, CommitOutbidTold, CommitTold
  <2>3. CASE ~AcceptBid(r)
    <3>1. UNCHANGED auctionVars
      BY <2>1, <2>3 DEF BidStep, ReceiveBid, BeginBid, ReplayBid, RefuseBid,
                        SerializationFailure, LoseBid
    <3> QED
      BY <2>1, <2>3, <3>1, ReplyStepTrue, TablesTold
  <2> QED
    BY <2>2, <2>3
<1>2. ASSUME NEW status \in AuctionStatus, MoveTo(status), UNCHANGED <<bids, req, notices>>
      PROVE  RepliesTrue' /\ OutbidTold' /\ LastStatusTold' /\ EachBidTold'
  <2>1. RepliesTrue' /\ OutbidTold'
    BY <1>2, SameReplies DEF TInv, OutbidTold
  <2> QED
    BY <1>2, <2>1, MoveToTold
<1>3. ASSUME UNCHANGED <<auctionVars, req>>
      PROVE  RepliesTrue' /\ OutbidTold' /\ LastStatusTold' /\ EachBidTold'
  BY <1>3, SameReplies, TablesTold DEF TInv, auctionVars
<1>4. CASE \E w \in Workers : WorkerStep(w)
  <2>1. PICK w \in Workers : WorkerStep(w)
    BY <1>4
  <2>2. CASE CloseSold(w)
    <3>1. /\ "AWAITING_SETTLEMENT" \in AuctionStatus /\ MoveTo("AWAITING_SETTLEMENT")
          /\ UNCHANGED <<bids, req>>
      BY <2>2 DEF CloseSold, AuctionStatus
    <3> QED
      BY <2>2, <3>1, MoveToTold, SameReplies, CloseOutbidTold DEF TInv
  <2>3. CASE StartAuction(w)
    <3>1. PICK status \in AuctionStatus : MoveTo(status)
      BY <2>3 DEF StartAuction, AuctionStatus
    <3> QED
      BY <1>2, <2>3, <3>1 DEF StartAuction
  <2>4. CASE CloseUnsold(w)
    BY <1>2, <2>4 DEF CloseUnsold, AuctionStatus
  <2>5. CASE Scan(w) \/ BeginTask(w) \/ DropTask(w)
    BY <1>3, <2>5 DEF Scan, BeginTask, DropTask
  <2> QED
    BY <2>1, <2>2, <2>3, <2>4, <2>5 DEF WorkerStep
<1>5. CASE StaffStep
  <2>1. CASE Pause \/ Resume \/ Cancel
    <3>1. PICK status \in AuctionStatus : MoveTo(status)
      BY <2>1 DEF Pause, Resume, Cancel, AuctionStatus
    <3> QED
      BY <1>2, <2>1, <3>1 DEF Pause, Resume, Cancel
  <2>2. CASE StaffEdit
    <3>1. UNCHANGED <<bids, events, notices, req>>
      BY <2>2 DEF StaffEdit
    <3>2. auction'.status = auction.status
      <4>1. PICK starting, increment, reserve, starts, ends :
              auction' = Patched(starting, increment, reserve, starts, ends)
        BY <2>2 DEF StaffEdit
      <4> QED
        BY <4>1 DEF Patched, TInv, SInv, Inv, TypeOK, AuctionRow
    <3> QED
      BY <3>1, <3>2 DEF TInv, RepliesTrue, OutbidTold, LastStatusTold, EachBidTold,
                        StatusEvents, BidEvents
  <2> QED
    BY <1>5, <2>1, <2>2 DEF StaffStep
<1>6. CASE \/ Tick \/ (\E u \in Reviewed : ReviewBidder(u))
           \/ (\E u \in Suspendable : Suspend(u)) \/ UNCHANGED vars
  BY <1>3, <1>6 DEF Tick, ReviewBidder, Suspend, vars, auctionVars
<1> QED
  BY <1>1, <1>4, <1>5, <1>6 DEF Next

LEMMA NextTInv == TInv /\ [Next]_vars => TInv'
<1> SUFFICES ASSUME TInv, [Next]_vars PROVE TInv'
  OBVIOUS
<1>1. SInv' /\ Unanswered'
  BY NextSInv, NextUnanswered DEF TInv, SInv, Inv
<1> QED
  BY <1>1, NextTold DEF TInv

LEMMA AlwaysTInv == Spec => []TInv
<1> QED
  BY InitTInv, NextTInv, PTL DEF Spec

\* A bidder that was told that its bid stands finds it in the ledger, one that
\* was refused left none, and no key of a bidder makes two bids: whatever was
\* retried, lost or sent again (placeBid).
THEOREM RepliesCorrect == Spec => []RepliesTrue
<1>1. TInv => RepliesTrue
  BY DEF TInv
<1> QED
  BY <1>1, AlwaysTInv, PTL

\* Exactly those who lost the lead to somebody else are told.
THEOREM OutbidCorrect == Spec => []OutbidTold
<1>1. TInv => OutbidTold
  BY DEF TInv
<1> QED
  BY <1>1, AlwaysTInv, PTL

\* Bids and the events that announce them are equally many.
LEMMA AsManyEventsAsBids ==
    ASSUME TypeOK, EachBidTold
    PROVE  Cardinality(BidEvents) = Len(bids)
<1>1. Len(bids) \in Nat /\ DOMAIN bids = 1..Len(bids)
  BY DEF TypeOK
<1>2. IsFiniteSet(1..Len(bids)) /\ Cardinality(1..Len(bids)) = Len(bids)
  <2>1. PICK n \in Nat : n = Len(bids)
    BY <1>1
  <2>2. /\ IsFiniteSet(1..n)
        /\ Cardinality(1..n) = IF 1 > n THEN 0 ELSE n - 1 + 1
    BY FS_Interval
  <2> QED
    BY <2>1, <2>2
<1> DEFINE f == [i \in BidEvents |-> events[i].bid]
<1>3. f \in [BidEvents -> 1..Len(bids)]
  BY <1>1 DEF EachBidTold
<1>4. f \in Injection(BidEvents, 1..Len(bids))
  BY <1>3 DEF EachBidTold, Injection, IsInjective
<1>5. f \in Surjection(BidEvents, 1..Len(bids))
  BY <1>1, <1>3 DEF EachBidTold, Surjection
<1> HIDE DEF f
<1> QED
  BY <1>2, <1>4, <1>5, FS_Injection

\* Each bid has exactly one event, and the last status event has the status.
LEMMA ToldTellsTheRow == TInv => EventsTellTheRow
<1> SUFFICES ASSUME TInv PROVE EventsTellTheRow
  OBVIOUS
<1>1. TypeOK /\ LastStatusTold /\ EachBidTold /\ DOMAIN events \subseteq Nat
  BY DEF TInv, SInv, Inv, TypeOK
<1>2. ASSUME NEW i \in DOMAIN events, events[i].type = "auction.status.changed",
             \A j \in DOMAIN events : j > i => events[j].type # "auction.status.changed"
      PROVE  events[i].status = auction.status
  <2>1. i \in StatusEvents /\ \A j \in StatusEvents : ~(j > i)
    BY <1>2 DEF StatusEvents
  <2>2. \A j \in StatusEvents : j <= i
    BY <1>1, <2>1 DEF StatusEvents
  <2> QED
    BY <1>1, <2>1, <2>2 DEF LastStatusTold
<1>3. ASSUME NEW b \in DOMAIN bids
      PROVE  Cardinality({i \in DOMAIN events :
                 /\ events[i].type = "auction.bid.accepted"
                 /\ events[i].bid = b /\ events[i].amount = bids[b].amount}) = 1
  <2>1. PICK k \in BidEvents : events[k].bid = b
    BY <1>1 DEF EachBidTold
  <2>2. {i \in DOMAIN events :
            /\ events[i].type = "auction.bid.accepted"
            /\ events[i].bid = b /\ events[i].amount = bids[b].amount} = {k}
    BY <1>1, <2>1 DEF EachBidTold, BidEvents
  <2> QED
    BY <2>2, FS_Singleton
<1>4. Cardinality({i \in DOMAIN events : events[i].type = "auction.bid.accepted"}) = Len(bids)
  BY <1>1, AsManyEventsAsBids DEF BidEvents
<1> QED
  BY <1>2, <1>3, <1>4 DEF EventsTellTheRow

\* Whoever applies the events of the outbox in order sees the status of the
\* row, and every bid once.
THEOREM EventsTellCorrect == Spec => []EventsTellTheRow
BY ToldTellsTheRow, AlwaysTInv, PTL

----------------------------------------------------------------------------
(* Time.  A transaction decides by the time it was opened at, and no       *)
(* transaction outlives TxTimeout.                                         *)

Timely ==
    /\ \A r \in Requests : req[r].pc = "open" => /\ req[r].now <= clock
                                                 /\ clock <= req[r].now + TxTimeout
    /\ \A w \in Workers : worker[w].pc = "open" => worker[w].now <= clock

LEMMA NextTimely ==
    ASSUME TInv, Timely, [Next]_vars
    PROVE  Timely'
<1>1. /\ TypeOK /\ Unanswered /\ req \in [Requests -> RequestState]
      /\ worker \in [Workers -> WorkerState] /\ clock \in Nat
  BY DEF TInv, SInv, Inv, TypeOK
<1>2. CASE \E r \in Requests : BidStep(r)
  <2>1. PICK r \in Requests : BidStep(r)
    BY <1>2
  <2>2. UNCHANGED <<clock, worker>> /\ \A q \in Requests \ {r} : req'[q] = req[q]
    BY <1>1, <2>1, StepAnswers DEF BidStep, ReceiveBid, BeginBid, ReplayBid, RefuseBid,
         AcceptBid, SerializationFailure, LoseBid
  <2>3. req'[r].pc # "open" \/ req'[r].now = clock
    <3>1. CASE BeginBid(r)
      BY <1>1, <3>1 DEF BeginBid, RequestState, RequestIn
    <3>2. ASSUME NEW reply, Answer(r, reply) PROVE req'[r].pc # "open"
      BY <1>1, <3>2, AnswerEnds
    <3>3. CASE Retry(r)
      BY <1>1, <3>3 DEF Retry, RequestState, RequestIn
    <3>4. CASE ReceiveBid(r)
      <4>1. PICK u \in Users, k \in Keys, a \in BidAmounts :
               IF active[u]
               THEN req' = [req EXCEPT ![r] = [req[r] EXCEPT !.pc = "ready", !.user = u,
                               !.key = k, !.amount = a, !.attempt = 1]]
               ELSE Answer(r, "refused")
        BY <3>4, Zenon DEF ReceiveBid
      <4>2. req[r] \in RequestState
        BY <1>1
      <4>3. [req[r] EXCEPT !.pc = "ready", !.user = u, !.key = k, !.amount = a,
                           !.attempt = 1].pc = "ready"
        BY <4>2 DEF RequestState, RequestIn
      <4> QED
        BY <1>1, <3>2, <4>1, <4>3
    <3> QED
      BY <2>1, <3>1, <3>2, <3>3, <3>4 DEF BidStep, ReplayBid, RefuseBid, AcceptBid,
         SerializationFailure, LoseBid
  <2> QED
    BY <1>1, <2>2, <2>3, ConstantsAssumption DEF Timely
<1>3. CASE \E w \in Workers : WorkerStep(w)
  <2>1. PICK w \in Workers : WorkerStep(w)
    BY <1>3
  <2>2. UNCHANGED <<clock, req>> /\ \A v \in Workers \ {w} : worker'[v] = worker[v]
    BY <1>1, <2>1 DEF WorkerStep, Scan, BeginTask, StartAuction, CloseSold, CloseUnsold,
         DropTask
  <2>3. worker'[w].pc # "open" \/ worker'[w].now = clock
    <3>1. CASE Scan(w) \/ BeginTask(w)
      BY <1>1, <3>1 DEF Scan, BeginTask, WorkerState
    <3>2. CASE StartAuction(w) \/ CloseSold(w) \/ CloseUnsold(w) \/ DropTask(w)
      BY <1>1, <3>2 DEF StartAuction, CloseSold, CloseUnsold, DropTask, IdleWorker
    <3> QED
      BY <2>1, <3>1, <3>2 DEF WorkerStep
  <2> QED
    BY <1>1, <2>2, <2>3 DEF Timely
<1>4. CASE Tick
  <2>1. \A r \in Requests : req[r].now \in Nat
    BY <1>1 DEF RequestState, RequestIn
  <2>2. \A w \in Workers : worker[w].now \in Nat
    BY <1>1 DEF WorkerState
  <2> QED
    BY <1>1, <1>4, <2>1, <2>2, ConstantsAssumption DEF Tick, Timely
<1>5. CASE \/ StaffStep \/ (\E u \in Reviewed : ReviewBidder(u))
           \/ (\E u \in Suspendable : Suspend(u)) \/ UNCHANGED vars
  BY <1>5 DEF StaffStep, Pause, Resume, Cancel, StaffEdit, ReviewBidder, Suspend, vars,
              Timely
<1> QED
  BY <1>2, <1>3, <1>4, <1>5 DEF Next

LEMMA AlwaysTimely == Spec => [](TInv /\ Timely)
<1>1. Init => Timely
  BY DEF Init, Timely, NoRequest, IdleWorker
<1> QED
  BY <1>1, InitTInv, NextTInv, NextTimely, PTL DEF Spec

\* Only a commit of a bid changes the bids.
LEMMA OnlyCommitsBid ==
    ASSUME [Next]_vars, bids' # bids
    PROVE  \E r \in Requests : AcceptBid(r)
BY DEF Next, Tick, BidStep, ReceiveBid, BeginBid, ReplayBid, RefuseBid,
   SerializationFailure, LoseBid, WorkerStep, Scan, BeginTask, StartAuction,
   CloseSold, CloseUnsold, DropTask, StaffStep, Pause, Resume, Cancel,
   StaffEdit, ReviewBidder, Suspend, vars, auctionVars

\* The times of a commit.
LEMMA CommitTimes ==
    ASSUME TInv, Timely, NEW r \in Requests, AcceptBid(r)
    PROVE  /\ auction.status = "LIVE" /\ auction'.endsAt = ExtendedEnd(req[r].now)
           /\ req[r].now \in Nat /\ clock \in Nat /\ auction.endsAt \in Nat
           /\ auction.endsAt <= MaximumExtendedUntil
           /\ req[r].now <= clock /\ clock <= req[r].now + TxTimeout
           /\ req[r].now < auction.endsAt
<1>1. req[r] \in RequestState /\ auction \in AuctionRow /\ clock \in Nat /\ ChecksHold(auction)
  BY DEF TInv, SInv, Inv, TypeOK, ChecksKept
<1>2. req[r].pc = "open" /\ Acceptable(r)
  BY DEF AcceptBid, Unmoved
<1>3. req[r].now \in Nat /\ auction.endsAt \in Nat
  BY <1>1 DEF RequestState, RequestIn, AuctionRow
<1>4. auction'.endsAt = ExtendedEnd(req[r].now)
  BY <1>1 DEF AcceptBid, RowAfterBid, AuctionRow
<1> QED
  BY <1>1, <1>2, <1>3, <1>4 DEF Timely, Acceptable, ChecksHold

\* After every bid there is time to answer it, or the hard limit is reached:
\* for every window, duration and length of a transaction.
THEOREM TimeToAnswerCorrect == Spec => TimeToAnswer
<1>1. ASSUME TInv, Timely, [Next]_vars, bids' # bids
      PROVE  /\ auction.endsAt <= auction'.endsAt
             /\ auction'.endsAt <= MaximumExtendedUntil
             /\ \/ auction'.endsAt = MaximumExtendedUntil
                \/ auction'.endsAt - clock > ExtensionWindow - TxTimeout
                \/ auction'.endsAt - clock > ExtensionDuration - TxTimeout
  <2>1. PICK r \in Requests : AcceptBid(r)
    BY <1>1, OnlyCommitsBid
  <2>2. /\ auction'.endsAt = ExtendedEnd(req[r].now)
        /\ req[r].now \in Nat /\ clock \in Nat /\ auction.endsAt \in Nat
        /\ auction.endsAt <= MaximumExtendedUntil
        /\ clock <= req[r].now + TxTimeout /\ req[r].now < auction.endsAt
    BY <1>1, <2>1, CommitTimes
  <2> QED
    BY <2>2, ConstantsAssumption DEF ExtendedEnd
<1>2. TInv /\ Timely /\ [Next]_vars =>
        [bids' # bids =>
           /\ auction.endsAt <= auction'.endsAt
           /\ auction'.endsAt <= MaximumExtendedUntil
           /\ \/ auction'.endsAt = MaximumExtendedUntil
              \/ auction'.endsAt - clock > ExtensionWindow - TxTimeout
              \/ auction'.endsAt - clock > ExtensionDuration - TxTimeout]_vars
  BY <1>1
<1> QED
  BY <1>2, AlwaysTimely, PTL DEF Spec, TimeToAnswer

\* A bid is never committed more than one transaction's life after the end.
THEOREM LatenessBounded == Spec => BidsOnlyWhileLive
<1>1. ASSUME TInv, Timely, [Next]_vars, bids' # bids
      PROVE  auction.status = "LIVE" /\ clock < auction.endsAt + TxTimeout
  <2>1. PICK r \in Requests : AcceptBid(r)
    BY <1>1, OnlyCommitsBid
  <2> QED
    BY <1>1, <2>1, CommitTimes, ConstantsAssumption
<1>2. TInv /\ Timely /\ [Next]_vars =>
        [bids' # bids =>
           auction.status = "LIVE" /\ clock < auction.endsAt + TxTimeout]_vars
  BY <1>1
<1> QED
  BY <1>2, AlwaysTimely, PTL DEF Spec, BidsOnlyWhileLive

\* The reserve is met by the last bid, which is what the row carries.
LEMMA ReserveByLastBid ==
    ASSUME Inv
    PROVE  (ReserveMet /\ auction.currentBid # NoBid)
             <=> (bids # <<>> /\ bids[Len(bids)].amount >= auction.reserveAmount)
<1>1. bids \in Seq(BidRow) /\ auction \in AuctionRow /\ LedgerAgrees
  BY DEF Inv, TypeOK
<1>2. auction.currentBid # NoBid <=> bids # <<>>
  BY <1>1 DEF LedgerAgrees, NoBid
<1>3. ASSUME bids # <<>>
      PROVE  ReserveMet <=> bids[Len(bids)].amount >= auction.reserveAmount
  <2>1. Len(bids) \in DOMAIN bids /\ auction.currentAmount = bids[Len(bids)].amount
    BY <1>1, <1>3 DEF LedgerAgrees
  <2>2. bids[Len(bids)].amount \in Nat /\ auction.reserveAmount \in Nat
    BY <1>1, <2>1, AmountType DEF AuctionRow
  <2> QED
    BY <2>1, <2>2 DEF ReserveMet, NoReserve
<1> QED
  BY <1>2, <1>3

\* No auction is closed before its end of that moment, and it is sold exactly
\* when its last bid meets its reserve of that moment, however stale the scan
\* was that found it due.
THEOREM CloseCorrect == Spec => ClosedByTheRules
<1>1. ASSUME TInv, Timely, [Next]_vars, auction.status = "LIVE",
             auction'.status \in {"ENDED", "AWAITING_SETTLEMENT"}
      PROVE  /\ auction.endsAt <= clock
             /\ auction'.status = "AWAITING_SETTLEMENT"
                  <=> bids # <<>> /\ bids[Len(bids)].amount >= auction.reserveAmount
  <2>1. /\ Inv /\ auction \in AuctionRow /\ clock \in Nat
        /\ worker \in [Workers -> WorkerState]
    BY <1>1 DEF TInv, SInv, Inv, TypeOK
  <2>2. \A status : MoveTo(status) => auction'.status = status
    BY <2>1 DEF MoveTo, AuctionRow
  <2>3. \A r \in Requests : ~BidStep(r)
    <3> SUFFICES ASSUME NEW r \in Requests, BidStep(r) PROVE auction'.status = "LIVE"
      BY <1>1
    <3>1. CASE AcceptBid(r)
      BY <1>1, <2>1, <3>1 DEF AcceptBid, RowAfterBid, AuctionRow
    <3>2. CASE ~AcceptBid(r)
      BY <1>1, <3>2 DEF BidStep, ReceiveBid, BeginBid, ReplayBid, RefuseBid,
                        SerializationFailure, LoseBid, auctionVars
    <3> QED
      BY <3>1, <3>2
  <2>4. ~StaffStep
    <3>1. ~Pause /\ ~Resume /\ ~Cancel
      BY <1>1, <2>2 DEF Pause, Resume, Cancel
    <3>2. ~StaffEdit
      <4> SUFFICES ASSUME StaffEdit PROVE auction'.status = "LIVE"
        BY <1>1
      <4>1. PICK starting, increment, reserve, starts, ends :
              auction' = Patched(starting, increment, reserve, starts, ends)
        BY DEF StaffEdit
      <4> QED
        BY <1>1, <2>1, <4>1 DEF Patched, AuctionRow
    <3> QED
      BY <3>1, <3>2 DEF StaffStep
  <2>5. PICK w \in Workers : CloseSold(w) \/ CloseUnsold(w)
    BY <1>1, <2>3, <2>4 DEF Next, Tick, WorkerStep, Scan, BeginTask, StartAuction, ToStart,
       DropTask, ReviewBidder, Suspend, vars, auctionVars
  <2>6. auction.endsAt <= clock
    <3>1. auction.endsAt <= worker[w].now /\ worker[w].now <= clock
      BY <1>1, <2>5 DEF CloseSold, CloseUnsold, ToClose, Unmoved, Timely
    <3>2. worker[w].now \in Nat /\ auction.endsAt \in Nat
      BY <2>1 DEF WorkerState, AuctionRow
    <3> QED
      BY <2>1, <3>1, <3>2
  <2>7. CASE CloseSold(w)
    BY <2>1, <2>2, <2>6, <2>7, ReserveByLastBid DEF CloseSold
  <2>8. CASE CloseUnsold(w)
    BY <2>1, <2>2, <2>6, <2>8, ReserveByLastBid DEF CloseUnsold
  <2> QED
    BY <2>5, <2>7, <2>8
<1>2. TInv /\ Timely /\ [Next]_vars =>
        [auction.status = "LIVE" /\ auction'.status \in {"ENDED", "AWAITING_SETTLEMENT"}
           => /\ auction.endsAt <= clock
              /\ auction'.status = "AWAITING_SETTLEMENT"
                   <=> bids # <<>> /\ bids[Len(bids)].amount >= auction.reserveAmount]_vars
  BY <1>1
<1> QED
  BY <1>2, AlwaysTimely, PTL DEF Spec, ClosedByTheRules

=============================================================================
