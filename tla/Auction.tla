------------------------------ MODULE Auction ------------------------------
(***************************************************************************)
(* One auction of the marketplace: the row of table Auction, its bids, its *)
(* events, and the processes that change it.                               *)
(*                                                                         *)
(*   - placeBid (apps/api): a request is checked against the bidder's      *)
(*     account, then runs a Serializable transaction that it retries at    *)
(*     most MaxAttempts times;                                             *)
(*   - AuctionsReconciler (apps/worker): finds auctions that are due and   *)
(*     starts or closes each in a Serializable transaction;                *)
(*   - action (admin auctions): pause, resume, cancel;                     *)
(*   - the auction part of the staff edit of a listing (admin listings).   *)
(*                                                                         *)
(* A Serializable transaction is two steps.  The first opens it: NOW() and *)
(* the snapshot are those of that moment, whatever time is then spent      *)
(* waiting for SELECT ... FOR UPDATE.  The second is the commit or         *)
(* rollback.  Every writer of the row increments version, so the row the   *)
(* transaction read is the row it updates exactly when version has not     *)
(* moved; otherwise PostgreSQL refuses it (40001, Prisma P2034).           *)
(***************************************************************************)
EXTENDS Integers, Sequences, FiniteSets

CONSTANTS
    Users,                \* accounts that may bid, the seller among them
    Seller,               \* listing.createdById
    Requests,             \* HTTP requests POST /auctions/:id/bids, each served once
    Workers,              \* worker processes, each with its own reconciler
    Keys,                 \* Idempotency-Key header values
    BidAmounts,           \* amounts a client sends
    StartsAt, EndsAt,     \* the schedule the auction was published with
    MaximumExtendedUntil, \* hard limit of the soft close
    ExtensionWindow,      \* extensionWindowSeconds
    ExtensionDuration,    \* extensionDurationSeconds
    StartingAmount, MinimumIncrement, Reserve,
    StaffTimes,           \* startsAt/endsAt values a staff edit may send
    StaffAmounts,         \* amounts a staff edit may send; 0 clears the reserve
    Reviewed,             \* bidders whose registration is reviewed meanwhile
    Suspendable,          \* bidders whose account may be suspended meanwhile
    MaxAttempts,          \* MAX_TRANSACTION_ATTEMPTS
    TxTimeout,            \* longest life of a transaction, in clock units
    MaxTime,              \* bound: the clock stops here
    MaxVersion            \* bound: staff act while version is below it

NoReserve == 0   \* reserveAmountMinor NULL
NoBid == 0       \* currentBidId and previousBidId NULL
NoKey == "none"  \* of a request not received, or answered and forgotten

ASSUME ConstantsAssumption ==
    /\ Seller \in Users
    /\ BidAmounts \subseteq Nat \ {0}
    /\ StartsAt \in Nat /\ EndsAt \in Nat /\ MaximumExtendedUntil \in Nat
    /\ ExtensionWindow \in Nat \ {0} /\ ExtensionDuration \in Nat \ {0}
    /\ StartingAmount \in Nat \ {0} /\ MinimumIncrement \in Nat \ {0}
    /\ Reserve \in Nat
    /\ StaffTimes \subseteq Nat /\ StaffAmounts \subseteq Nat
    /\ Reviewed \subseteq Users /\ Suspendable \subseteq Users
    /\ MaxAttempts \in Nat \ {0}
    /\ TxTimeout \in Nat /\ MaxTime \in Nat /\ MaxVersion \in Nat

\* What the contract and the CHECK constraints require of a schedule.
ASSUME ScheduleAssumption ==
    /\ StartsAt < EndsAt /\ EndsAt <= MaximumExtendedUntil
    /\ 0 < EndsAt
    /\ Reserve = NoReserve \/ Reserve >= StartingAmount

VARIABLES
    clock,      \* database time
    auction,    \* the row of table Auction
    listing,    \* status of the auction's listing
    bids,       \* rows of table Bid, oldest first; a bid's id is its index
    settlement, \* rows of table AuctionSettlement
    events,     \* auction events written to the outbox, oldest first
    notices,    \* notifications written for bidders
    active,     \* account in good standing: not banned, ACTIVE, email verified
    eligible,   \* registration ELIGIBLE with an acceptable depositStatus
    req,        \* where each bid request stands
    worker      \* where each worker's reconciler stands

auctionVars == <<auction, bids, settlement, events, notices>>
accountVars == <<active, eligible>>
vars == <<clock, auction, listing, bids, settlement, events, notices,
          active, eligible, req, worker>>

----------------------------------------------------------------------------
(* Rows. *)

AuctionStatus == {"DRAFT", "SCHEDULED", "LIVE", "PAUSED", "ENDED",
                  "AWAITING_SETTLEMENT", "CANCELLED"}

AuctionRow ==
    [status : AuctionStatus,
     startsAt : Nat, endsAt : Nat,
     startingAmount : Nat, currentAmount : Nat,
     minimumIncrement : Nat, reserveAmount : Nat,
     currentBid : Nat, bidCount : Nat,
     sequence : Nat, eventSequence : Nat, version : Nat]

BidRow == [bidder : Users, amount : Nat, sequence : Nat, previous : Nat,
           key : Keys, request : Requests]

StatusEvent == [type : {"auction.status.changed"}, sequence : Nat,
                status : AuctionStatus]
BidEvent == [type : {"auction.bid.accepted"}, sequence : Nat,
             bid : Nat, amount : Nat, endsAt : Nat]

Notice == [user : Users, type : {"auction.outbid", "auction.won"}, bid : Nat]

\* The CHECK constraints of table Auction that an update can break.
\* originalEndsAt and maximumExtendedUntil are never updated.
ChecksHold(row) ==
    /\ row.startingAmount > 0
    /\ row.currentAmount >= row.startingAmount
    /\ row.minimumIncrement > 0
    /\ row.reserveAmount = NoReserve \/ row.reserveAmount >= row.startingAmount
    /\ row.startsAt < EndsAt
    /\ EndsAt <= row.endsAt /\ row.endsAt <= MaximumExtendedUntil

----------------------------------------------------------------------------
(* Processes. *)

NoRequest == [pc |-> "idle", user |-> Seller, key |-> NoKey,
              amount |-> 0, attempt |-> 0, now |-> 0, version |-> 0,
              eligible |-> FALSE, published |-> FALSE, reply |-> "none"]

Replies == {"none", "accepted", "duplicate", "refused", "failed", "unknown"}

RequestIn(pcs, keys) ==
    [pc : pcs, user : Users, key : keys,
     amount : Nat, attempt : Nat, now : Nat, version : Nat,
     eligible : BOOLEAN, published : BOOLEAN, reply : Replies]

RequestState == RequestIn({"idle", "done"}, Keys \union {NoKey})
                \union RequestIn({"ready", "open"}, Keys)

IdleWorker == [pc |-> "idle", task |-> "none", now |-> 0, version |-> 0]

WorkerState == [pc : {"idle", "found", "open"}, task : {"none", "start", "close"},
                now : Nat, version : Nat]

\* The schedule was still ahead of its end when the listing was published.
Init ==
    /\ clock = 0
    /\ auction = [status |-> IF StartsAt <= 0 THEN "LIVE" ELSE "SCHEDULED",
                  startsAt |-> StartsAt, endsAt |-> EndsAt,
                  startingAmount |-> StartingAmount,
                  currentAmount |-> StartingAmount,
                  minimumIncrement |-> MinimumIncrement,
                  reserveAmount |-> Reserve,
                  currentBid |-> NoBid, bidCount |-> 0,
                  sequence |-> 0, eventSequence |-> 1, version |-> 2]
    /\ listing = "PUBLISHED"
    /\ bids = <<>>
    /\ settlement = {}
    /\ events = << [type |-> "auction.status.changed", sequence |-> 1,
                    status |-> IF StartsAt <= 0 THEN "LIVE" ELSE "SCHEDULED"] >>
    /\ notices = {}
    /\ active = [u \in Users |-> TRUE]
    /\ eligible = [u \in Users |-> u # Seller]
    /\ req = [r \in Requests |-> NoRequest]
    /\ worker = [w \in Workers |-> IdleWorker]

----------------------------------------------------------------------------
(* placeBid. *)

\* The request is over; what it asked for stays in a reply that returns a bid.
Answer(r, reply) ==
    req' = [req EXCEPT ![r] =
              IF reply \in {"accepted", "duplicate"}
              THEN [NoRequest EXCEPT !.pc = "done", !.reply = reply,
                                     !.user = req[r].user, !.key = req[r].key,
                                     !.amount = req[r].amount]
              ELSE [NoRequest EXCEPT !.pc = "done", !.reply = reply]]

\* Mutant: the attempts are not counted.
RetryForever(r) ==
    req' = [req EXCEPT ![r] = [@ EXCEPT !.pc = "ready", !.now = 0, !.version = 0,
                               !.eligible = FALSE, !.published = FALSE]]

\* The next attempt starts over with a new transaction.
Retry(r) ==
    req' = [req EXCEPT ![r] = [@ EXCEPT !.pc = "ready",
                               !.attempt = req[r].attempt + 1,
                               !.now = 0, !.version = 0,
                               !.eligible = FALSE, !.published = FALSE]]

\* The request is well formed; its bidder's account is read outside the
\* transaction, once, before the first attempt.
ReceiveBid(r) ==
    /\ req[r].pc = "idle"
    /\ \E u \in Users, k \in Keys, a \in BidAmounts :
         IF active[u]
         THEN req' = [req EXCEPT ![r] = [@ EXCEPT !.pc = "ready", !.user = u, !.key = k,
                                                  !.amount = a, !.attempt = 1]]
         ELSE Answer(r, "refused")
    /\ UNCHANGED <<clock, auctionVars, listing, accountVars, worker>>

BeginBid(r) ==
    /\ req[r].pc = "ready"
    /\ req' = [req EXCEPT ![r] =
                 [@ EXCEPT !.pc = "open", !.now = clock,
                           !.version = auction.version,
                           !.eligible = eligible[req[r].user],
                           !.published = (listing = "PUBLISHED")]]
    /\ UNCHANGED <<clock, auctionVars, listing, accountVars, worker>>

\* The transaction still sees the row it will update.
Unmoved(tx) == tx.pc = "open" /\ tx.version = auction.version

\* Mutant: keys are not looked up.
ExistingIgnored(r) == {}

\* findUnique on (auctionId, bidderId, idempotencyKey).
Existing(r) == {i \in DOMAIN bids : /\ bids[i].bidder = req[r].user
                                    /\ bids[i].key = req[r].key}

\* Mutant: the amount of a reused key is not compared.
ReplayAnyAmount(r) ==
    /\ Unmoved(req[r])
    /\ Existing(r) # {}
    /\ Answer(r, "duplicate")
    /\ UNCHANGED <<clock, auctionVars, listing, accountVars, worker>>

\* The retried key answers with the bid it made, or is refused when the
\* amount differs.
ReplayBid(r) ==
    /\ Unmoved(req[r])
    /\ \E i \in Existing(r) :
         Answer(r, IF bids[i].amount = req[r].amount THEN "duplicate" ELSE "refused")
    /\ UNCHANGED <<clock, auctionVars, listing, accountVars, worker>>

\* Mutant: a bid equal to the current one is enough.
MinimumBidNoIncrement == IF auction.bidCount = 0
                         THEN auction.startingAmount
                         ELSE auction.currentAmount

MinimumBid == IF auction.bidCount = 0
              THEN auction.startingAmount
              ELSE auction.currentAmount + auction.minimumIncrement

Acceptable(r) ==
    /\ req[r].published
    /\ req[r].user # Seller
    /\ auction.status = "LIVE"
    /\ auction.startsAt <= req[r].now
    /\ req[r].now < auction.endsAt
    /\ req[r].eligible
    /\ req[r].amount >= MinimumBid

RefuseBid(r) ==
    /\ Unmoved(req[r])
    /\ Existing(r) = {}
    /\ ~Acceptable(r)
    /\ Answer(r, "refused")
    /\ UNCHANGED <<clock, auctionVars, listing, accountVars, worker>>

\* Mutant: the window excludes its last instant.
ExtendedEndLate(now) ==
    IF /\ auction.endsAt - now < ExtensionWindow
       /\ auction.endsAt < MaximumExtendedUntil
    THEN auction.endsAt + ExtensionDuration
    ELSE auction.endsAt

\* The anti-sniping rule: a bid close to the end moves the end.
ExtendedEnd(now) ==
    IF /\ auction.endsAt - now <= ExtensionWindow
       /\ auction.endsAt < MaximumExtendedUntil
    THEN IF auction.endsAt + ExtensionDuration <= MaximumExtendedUntil
         THEN auction.endsAt + ExtensionDuration
         ELSE MaximumExtendedUntil
    ELSE auction.endsAt

\* Mutant: a bidder that raises its own bid is told it was outbid.
OutbidNoticesToSelf(user, bid) ==
    IF auction.currentBid # NoBid
    THEN {[user |-> bids[auction.currentBid].bidder,
           type |-> "auction.outbid", bid |-> bid]}
    ELSE {}

\* The user who held the lead is told, unless the bidder raises its own bid.
OutbidNotices(user, bid) ==
    IF auction.currentBid # NoBid /\ bids[auction.currentBid].bidder # user
    THEN {[user |-> bids[auction.currentBid].bidder,
           type |-> "auction.outbid", bid |-> bid]}
    ELSE {}

\* Mutant: the bid is not counted.
RowAfterBidUncounted(amount, end) ==
    [auction EXCEPT !.currentAmount = amount, !.currentBid = Len(bids) + 1,
                    !.sequence = @ + 1, !.eventSequence = @ + 1,
                    !.endsAt = end, !.version = @ + 1]

\* The row names the new bid, appended after all others, as the one to beat.
RowAfterBid(amount, end) ==
    [auction EXCEPT !.currentAmount = amount,
                    !.currentBid = Len(bids) + 1,
                    !.bidCount = @ + 1,
                    !.sequence = @ + 1,
                    !.eventSequence = @ + 1,
                    !.endsAt = end,
                    !.version = @ + 1]

\* The commit of an accepted bid; the reply may be lost on its way back.
AcceptBid(r) ==
    LET tx == req[r]
        n == auction.sequence + 1
        end == ExtendedEnd(tx.now)
    IN  /\ Unmoved(tx)
        /\ Existing(r) = {}
        /\ Acceptable(r)
        /\ bids' = Append(bids,
             [bidder |-> tx.user, amount |-> tx.amount, sequence |-> n,
              previous |-> auction.currentBid, key |-> tx.key, request |-> r])
        /\ auction' = RowAfterBid(tx.amount, end)
        /\ events' = Append(events,
             [type |-> "auction.bid.accepted",
              sequence |-> auction.eventSequence + 1,
              bid |-> n, amount |-> tx.amount, endsAt |-> end])
        /\ notices' = notices \union OutbidNotices(tx.user, n)
        /\ \E reply \in {"accepted", "unknown"} : Answer(r, reply)
        /\ UNCHANGED <<clock, listing, settlement, accountVars, worker>>

\* A serialization failure or a deadlock: retried, then given up.  Always
\* the outcome when the row has moved; possible at any other time too.
SerializationFailure(r) ==
    /\ req[r].pc = "open"
    /\ \/ req[r].attempt < MaxAttempts /\ Retry(r)
       \/ req[r].attempt >= MaxAttempts /\ Answer(r, "failed")
    /\ UNCHANGED <<clock, auctionVars, listing, accountVars, worker>>

\* The API process dies, the transaction times out or the connection drops:
\* rolled back, and the client does not know.
LoseBid(r) ==
    /\ req[r].pc \in {"ready", "open"}
    /\ Answer(r, "unknown")
    /\ UNCHANGED <<clock, auctionVars, listing, accountVars, worker>>

----------------------------------------------------------------------------
(* AuctionsReconciler. *)

\* Mutant: the row does not count the event.
MoveToUnnumbered(status) ==
    /\ auction' = [auction EXCEPT !.status = status, !.version = @ + 1]
    /\ events' = Append(events, [type |-> "auction.status.changed",
                                 sequence |-> auction.eventSequence + 1,
                                 status |-> status])

\* Mutant: the event carries the status before the change.
MoveToOldStatus(status) ==
    /\ auction' = [auction EXCEPT !.status = status,
                                  !.eventSequence = @ + 1,
                                  !.version = @ + 1]
    /\ events' = Append(events, [type |-> "auction.status.changed",
                                 sequence |-> auction.eventSequence + 1,
                                 status |-> auction.status])

\* The row changes status: one event, one version.
MoveTo(status) ==
    /\ auction' = [auction EXCEPT !.status = status,
                                  !.eventSequence = @ + 1,
                                  !.version = @ + 1]
    /\ events' = Append(events, [type |-> "auction.status.changed",
                                 sequence |-> auction.eventSequence + 1,
                                 status |-> status])

\* Mutant: an auction is not due at the very instant of its end or start.
DueLate == \/ auction.status = "LIVE" /\ auction.endsAt < clock
           \/ auction.status = "SCHEDULED" /\ auction.startsAt < clock

Due == \/ auction.status = "LIVE" /\ auction.endsAt <= clock
       \/ auction.status = "SCHEDULED" /\ auction.startsAt <= clock

\* A pass of reconcile: the due auction's id is kept, the row is not.
Scan(w) ==
    /\ worker[w].pc = "idle"
    /\ Due
    /\ worker' = [worker EXCEPT ![w] =
                    [@ EXCEPT !.pc = "found",
                              !.task = IF auction.status = "LIVE"
                                       THEN "close" ELSE "start"]]
    /\ UNCHANGED <<clock, auctionVars, listing, accountVars, req>>

BeginTask(w) ==
    /\ worker[w].pc = "found"
    /\ worker' = [worker EXCEPT ![w] =
                    [@ EXCEPT !.pc = "open", !.now = clock,
                              !.version = auction.version]]
    /\ UNCHANGED <<clock, auctionVars, listing, accountVars, req>>

ToStart(w) == /\ worker[w].task = "start"
              /\ auction.status = "SCHEDULED"
              /\ auction.startsAt <= worker[w].now

\* Mutant: the end is not read again inside the transaction.
ToCloseUnchecked(w) == /\ worker[w].task = "close"
                       /\ auction.status = "LIVE"

ToClose(w) == /\ worker[w].task = "close"
              /\ auction.status = "LIVE"
              /\ auction.endsAt <= worker[w].now

StartAuction(w) ==
    /\ Unmoved(worker[w])
    /\ ToStart(w)
    /\ MoveTo(IF auction.endsAt <= worker[w].now THEN "ENDED" ELSE "LIVE")
    /\ worker' = [worker EXCEPT ![w] = IdleWorker]
    /\ UNCHANGED <<clock, bids, settlement, notices, listing, accountVars, req>>

\* Mutant: the reserve must be exceeded.
ReserveExceeded == \/ auction.reserveAmount = NoReserve
                   \/ auction.currentAmount > auction.reserveAmount

ReserveMet == \/ auction.reserveAmount = NoReserve
              \/ auction.currentAmount >= auction.reserveAmount

\* Sold: the settlement row is unique per auction, so a second one aborts.
CloseSold(w) ==
    /\ Unmoved(worker[w])
    /\ ToClose(w)
    /\ ReserveMet /\ auction.currentBid # NoBid
    /\ settlement = {}
    /\ MoveTo("AWAITING_SETTLEMENT")
    /\ settlement' = {[bid |-> auction.currentBid,
                       buyer |-> bids[auction.currentBid].bidder]}
    /\ notices' = notices \union {[user |-> bids[auction.currentBid].bidder,
                                   type |-> "auction.won",
                                   bid |-> auction.currentBid]}
    /\ worker' = [worker EXCEPT ![w] = IdleWorker]
    /\ UNCHANGED <<clock, bids, listing, accountVars, req>>

CloseUnsold(w) ==
    /\ Unmoved(worker[w])
    /\ ToClose(w)
    /\ ~(ReserveMet /\ auction.currentBid # NoBid)
    /\ MoveTo("ENDED")
    /\ worker' = [worker EXCEPT ![w] = IdleWorker]
    /\ UNCHANGED <<clock, bids, settlement, notices, listing, accountVars, req>>

\* Nothing to do any more, an error, or the death of the worker: runSafely
\* logs it and the next pass starts afresh.
DropTask(w) ==
    /\ worker[w].pc # "idle"
    /\ worker' = [worker EXCEPT ![w] = IdleWorker]
    /\ UNCHANGED <<clock, auctionVars, listing, accountVars, req>>

----------------------------------------------------------------------------
(* Staff: Read Committed transactions, which wait for the row and then see *)
(* its latest version, but decide with the NOW() they were opened at.      *)

StaffAct == auction.version < MaxVersion

Pause ==
    /\ StaffAct
    /\ auction.status = "LIVE"
    /\ MoveTo("PAUSED")
    /\ UNCHANGED <<clock, bids, settlement, notices, listing, accountVars, req, worker>>

Resume ==
    /\ StaffAct
    /\ auction.status = "PAUSED"
    /\ \E now \in 0..clock : clock - now <= TxTimeout /\ now < auction.endsAt
    /\ MoveTo("LIVE")
    /\ UNCHANGED <<clock, bids, settlement, notices, listing, accountVars, req, worker>>

\* Mutant: an auction can be cancelled after its result.
CancelAnyStatus ==
    /\ StaffAct
    /\ auction.status # "CANCELLED"
    /\ MoveTo("CANCELLED")
    /\ UNCHANGED <<clock, bids, settlement, notices, listing, accountVars, req, worker>>

Cancel ==
    /\ StaffAct
    /\ auction.status \in {"DRAFT", "SCHEDULED", "LIVE", "PAUSED"}
    /\ MoveTo("CANCELLED")
    /\ UNCHANGED <<clock, bids, settlement, notices, listing, accountVars, req, worker>>

Patched(starting, increment, reserve, starts, ends) ==
    [auction EXCEPT !.startingAmount = starting,
                    !.minimumIncrement = increment,
                    !.reserveAmount = reserve,
                    !.startsAt = starts,
                    !.endsAt = ends,
                    !.version = @ + 1]

\* A patch of the listing: any subset of the auction's terms, in any status,
\* within the CHECK constraints; no event is written.
StaffEdit ==
    /\ StaffAct
    /\ \E starting \in StaffAmounts \union {auction.startingAmount},
          increment \in StaffAmounts \union {auction.minimumIncrement},
          reserve \in StaffAmounts \union {auction.reserveAmount},
          starts \in StaffTimes \union {auction.startsAt},
          ends \in StaffTimes \union {auction.endsAt} :
         /\ ChecksHold(Patched(starting, increment, reserve, starts, ends))
         /\ auction' = Patched(starting, increment, reserve, starts, ends)
    /\ UNCHANGED <<clock, bids, settlement, events, notices, listing,
                   accountVars, req, worker>>

\* A registration is approved or rejected (auction enrolment).
ReviewBidder(u) ==
    /\ u # Seller
    /\ eligible' = [eligible EXCEPT ![u] = ~@]
    /\ UNCHANGED <<clock, auctionVars, listing, active, req, worker>>

\* An account is banned or enters deletion.
Suspend(u) ==
    /\ active[u]
    /\ active' = [active EXCEPT ![u] = FALSE]
    /\ UNCHANGED <<clock, auctionVars, listing, eligible, req, worker>>

\* No transaction outlives its timeout.
Tick ==
    /\ clock < MaxTime
    /\ \A r \in Requests : req[r].pc = "open" => clock < req[r].now + TxTimeout
    /\ \A w \in Workers : worker[w].pc = "open" => clock < worker[w].now + TxTimeout
    /\ clock' = clock + 1
    /\ UNCHANGED <<auctionVars, listing, accountVars, req, worker>>

----------------------------------------------------------------------------
BidStep(r) == \/ ReceiveBid(r) \/ BeginBid(r)
              \/ ReplayBid(r) \/ RefuseBid(r) \/ AcceptBid(r)
              \/ SerializationFailure(r) \/ LoseBid(r)

WorkerStep(w) == \/ Scan(w) \/ BeginTask(w) \/ StartAuction(w)
                 \/ CloseSold(w) \/ CloseUnsold(w) \/ DropTask(w)

StaffStep == Pause \/ Resume \/ Cancel \/ StaffEdit

Next == \/ Tick
        \/ \E r \in Requests : BidStep(r)
        \/ \E w \in Workers : WorkerStep(w)
        \/ StaffStep
        \/ \E u \in Reviewed : ReviewBidder(u)
        \/ \E u \in Suspendable : Suspend(u)

Spec == Init /\ [][Next]_vars

\* A request that runs is served to its end; the reconciler's interval keeps
\* firing, and not every one of its transactions fails.
Commit(w) == StartAuction(w) \/ CloseSold(w) \/ CloseUnsold(w)

Fairness ==
    /\ \A r \in Requests : WF_vars(BidStep(r) /\ req[r].pc # "idle")
    /\ \A w \in Workers : /\ SF_vars(Scan(w)) /\ SF_vars(BeginTask(w))
                          /\ SF_vars(Commit(w)) /\ WF_vars(DropTask(w))

FairSpec == Spec /\ Fairness

----------------------------------------------------------------------------
(* Properties. *)

\* What the rows show of the auction that was promised.
Phase == CASE auction.status \in {"DRAFT", "SCHEDULED"} -> "ahead"
           [] auction.status = "LIVE" -> "open"
           [] auction.status = "PAUSED" -> "held"
           [] OTHER -> "closed"
Offers == [i \in 1..Len(bids) |-> [bidder |-> bids[i].bidder, amount |-> bids[i].amount]]
Sold == {Offers[s.bid] : s \in settlement}

Promise == INSTANCE AscendingAuction
           WITH Bidders <- Users, Amounts <- BidAmounts,
                phase <- Phase, offers <- Offers, sold <- Sold

\* Requests with retries, transactions that overlap, workers that fail and staff
\* together keep the promise of an ascending auction: offers only while it is
\* open, each above all others, one end, and a sale for the best offer
\* (placeBid, AuctionsReconciler.close and the admin actions).
ImplementsAscendingAuction == Promise!Spec

\* Every variable holds a value of its type; at most one settlement row.
TypeOK ==
    /\ clock \in Nat
    /\ auction \in AuctionRow
    /\ listing \in {"PENDING_REVIEW", "REJECTED", "PUBLISHED"}
    /\ bids \in Seq(BidRow)
    /\ settlement \subseteq [bid : Nat, buyer : Users]
    /\ events \in Seq(StatusEvent \union BidEvent)
    /\ notices \subseteq Notice
    /\ active \in [Users -> BOOLEAN]
    /\ eligible \in [Users -> BOOLEAN]
    /\ req \in [Requests -> RequestState]
    /\ worker \in [Workers -> WorkerState]

\* The auction row and the bids that concurrent transactions committed agree:
\* the counters count the bids, the sequence has no gap or repeat, every bid
\* names the one it beat, and the row points at the last bid and its amount
\* (auctions.service.ts, the bid insert and the row update).
LedgerAgrees ==
    /\ auction.bidCount = Len(bids)
    /\ auction.sequence = Len(bids)
    /\ auction.currentBid = Len(bids)
    /\ bids # <<>> => auction.currentAmount = bids[Len(bids)].amount
    /\ \A i \in DOMAIN bids : bids[i].sequence = i /\ bids[i].previous = i - 1

\* Every bid beats all earlier ones, whatever the terms were edited to in
\* between, so the leader of the row is the highest committed bid.
Ascending == \A i, j \in DOMAIN bids : i < j => bids[i].amount < bids[j].amount

\* No update by a bid, the reconciler or staff can be refused by a CHECK
\* constraint that an earlier one has left unsatisfiable.
ChecksKept == ChecksHold(auction)

\* The auction events of the outbox number the changes of the row without a
\* gap or a repeat, so that a client can order them and detect what it missed.
EventsGapless ==
    /\ auction.eventSequence = Len(events)
    /\ \A i \in DOMAIN events : events[i].sequence = i

\* A client that applied every event shows the status and the leading bid of
\* the row, and has seen every bid exactly once.
EventsTellTheRow ==
    /\ \A i \in DOMAIN events :
         /\ events[i].type = "auction.status.changed"
         /\ \A j \in DOMAIN events :
              j > i => events[j].type # "auction.status.changed"
         => events[i].status = auction.status
    /\ \A b \in DOMAIN bids :
         Cardinality({i \in DOMAIN events :
             /\ events[i].type = "auction.bid.accepted"
             /\ events[i].bid = b /\ events[i].amount = bids[b].amount}) = 1
    /\ Cardinality({i \in DOMAIN events :
           events[i].type = "auction.bid.accepted"}) = Len(bids)

\* What a client was told is what was committed: an accepted or repeated bid
\* exists with that amount, a refused or abandoned request left nothing behind,
\* whatever attempts it made, and a key of a bidder makes at most one bid,
\* however often and from however many requests it is sent.
RepliesTrue ==
    /\ \A r \in Requests :
         /\ req[r].reply \in {"accepted", "duplicate"} =>
              \E i \in DOMAIN bids :
                  /\ bids[i].bidder = req[r].user /\ bids[i].key = req[r].key
                  /\ bids[i].amount = req[r].amount
         /\ req[r].reply \in {"none", "duplicate", "refused", "failed"} =>
              \A i \in DOMAIN bids : bids[i].request # r
    /\ \A i, j \in DOMAIN bids :
         bids[i].bidder = bids[j].bidder /\ bids[i].key = bids[j].key => i = j

\* Whoever lost the lead to somebody else was told, and nobody else was.
OutbidTold ==
    {n \in notices : n.type = "auction.outbid"} =
    {[user |-> bids[i - 1].bidder, type |-> "auction.outbid", bid |-> i] :
        i \in {j \in DOMAIN bids : j > 1 /\ bids[j].bidder # bids[j - 1].bidder}}

\* An auction awaits settlement exactly when it has a settlement row, which
\* names the highest of all committed bids and its bidder, who was told.
SettledOnHighestBid ==
    /\ auction.status = "AWAITING_SETTLEMENT" <=> settlement # {}
    /\ \A s \in settlement :
         /\ s.bid \in DOMAIN bids
         /\ s.buyer = bids[s.bid].bidder
         /\ \A i \in DOMAIN bids : bids[i].amount <= bids[s.bid].amount
         /\ [user |-> s.buyer, type |-> "auction.won", bid |-> s.bid] \in notices

Final == {"ENDED", "AWAITING_SETTLEMENT", "CANCELLED"}

\* A result is final: no late commit, worker or member of staff reopens the
\* auction, adds a bid or replaces the winner.
ResultIsFinal ==
    [][auction.status \in Final =>
         /\ auction'.status = auction.status
         /\ bids' = bids /\ settlement' = settlement]_vars

\* No auction is closed ahead of the end it has at that moment, even when the
\* worker found it due before a bid extended it or staff moved its end; and it is
\* sold exactly when somebody bid at or above the reserve of that moment
\* (AuctionsReconciler.close).
ClosedByTheRules ==
    [][auction.status = "LIVE" /\ auction'.status \in {"ENDED", "AWAITING_SETTLEMENT"}
         => /\ auction.endsAt <= clock
            /\ auction'.status = "AWAITING_SETTLEMENT"
                 <=> bids # <<>> /\ bids[Len(bids)].amount >= auction.reserveAmount]_vars

\* A bid is committed only while the auction is LIVE and at most one
\* transaction's life after its end.
BidsOnlyWhileLive ==
    [][bids' # bids =>
         auction.status = "LIVE" /\ clock < auction.endsAt + TxTimeout]_vars

\* The soft close leaves everyone time to answer: after a bid the end is the
\* hard limit, or further away than the shorter of window and duration less
\* the life of the transaction; it never moves back or beyond the limit.
TimeToAnswer ==
    [][bids' # bids =>
         /\ auction.endsAt <= auction'.endsAt
         /\ auction'.endsAt <= MaximumExtendedUntil
         /\ \/ auction'.endsAt = MaximumExtendedUntil
            \/ auction'.endsAt - clock > ExtensionWindow - TxTimeout
            \/ auction'.endsAt - clock > ExtensionDuration - TxTimeout]_vars

\* The reconciler loses no auction, whatever fails in between: a live one whose
\* end has passed is closed, paused, cancelled or prolonged, a scheduled one
\* whose time has come is opened, ended or moved (reconcile, runSafely).
ReconciledInTheEnd ==
    /\ (auction.status = "LIVE" /\ auction.endsAt <= clock)
         ~> (auction.status # "LIVE" \/ clock < auction.endsAt)
    /\ (auction.status = "SCHEDULED" /\ auction.startsAt <= clock)
         ~> (auction.status # "SCHEDULED" \/ clock < auction.startsAt)

\* Every request is answered: the retries end.
EveryBidAnswered ==
    \A r \in Requests : req[r].pc = "ready" ~> req[r].pc = "done"

\* docs/testing.md:32 and docs/database.md:42: a late bid creates no bid.
\* The code compares endsAt with NOW(), the time the transaction was opened.
NoLateBid == [][bids' # bids => clock < auction.endsAt]_vars

=============================================================================
