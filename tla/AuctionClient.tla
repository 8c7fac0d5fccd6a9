--------------------------- MODULE AuctionClient ---------------------------
(***************************************************************************)
(* The live auction page (apps/web, LiveAuction) and what feeds it.        *)
(*                                                                         *)
(* The server's auction is a log of events, numbered without a gap: that   *)
(* is what module Auction shows of EventsGapless and EventsTellTheRow.     *)
(* The outbox publishes each event at least once and a bounded number of   *)
(* times (module OutboxPublisher, DeliveriesBounded), in any order; the    *)
(* gateways hand it to the page's socket while that is connected.          *)
(*                                                                         *)
(* The page keeps one cached snapshot, which four writers replace or       *)
(* patch: the fetch (first load, poll, reconnect, gap), the bid event, the *)
(* status event and the reply to the user's own bid.                       *)
(*                                                                         *)
(* Bids only ever rise, so the n-th bid stands for its amount, its bidder  *)
(* and the end of the auction after it; the page always sets the three     *)
(* together.                                                               *)
(***************************************************************************)
EXTENDS Integers, Sequences, FiniteSets, FiniteSetsExt

CONSTANTS
    MaxEvents,        \* bound: length of the auction's event log
    Copies,           \* how often the gateways may hand over one event
    ProcessedLimit,   \* size of the set of event ids the page remembers
    MaxOwnBids,       \* bound: bids the user places
    MaxDisconnects    \* bound: times the socket drops

ASSUME ClientAssumption ==
    /\ MaxEvents \in Nat \ {0} /\ Copies \in Nat \ {0}
    /\ ProcessedLimit \in Nat \ {0}
    /\ MaxOwnBids \in Nat /\ MaxDisconnects \in Nat

VARIABLES
    log,          \* events of the auction, oldest first
    handed,       \* handed[i]: copies of event i the page's socket received
    connected,    \* the socket is connected and has joined the auction's room
    disconnects,
    view,         \* the cached AuctionSnapshot
    processed,    \* processedEvents, oldest first
    fetch,        \* the GET of the snapshot in flight
    own           \* the user's bid mutation

pageVars == <<log, handed, connected, disconnects, view, processed, fetch, own>>

Status == {"LIVE", "PAUSED", "ENDED"}
Event == [type : {"bid"}] \union [type : {"status"}, status : Status]

\* amount: the number of the bid whose amount is shown.
Snapshot == [status : Status, amount : Nat, bidCount : Nat, sequence : Nat,
             eventSequence : Nat]

\* Nothing is cached yet; no snapshot of the server has eventSequence 0.
NoView == [status |-> "LIVE", amount |-> 0, bidCount |-> 0, sequence |-> 0,
           eventSequence |-> 0]

Loaded == view.eventSequence > 0

NoFetch == [state |-> "idle", answer |-> NoView]
Requested == [state |-> "requested", answer |-> NoView]

NoMutation == [state |-> "idle", bids |-> 0, sequence |-> 0, eventSequence |-> 0]

\* The position of the last status event among the first n events.
LastStatus(n) == Max({i \in 1..n : log[i].type = "status"})

BidsUpTo(n) == Cardinality({i \in 1..n : log[i].type = "bid"})

\* What a client that applied the first n events would show.
SnapshotAt(n) ==
    [status |-> log[LastStatus(n)].status, amount |-> BidsUpTo(n),
     bidCount |-> BidsUpTo(n), sequence |-> BidsUpTo(n), eventSequence |-> n]

ServerStatus == log[LastStatus(Len(log))].status

PageInit ==
    /\ log = << [type |-> "status", status |-> "LIVE"] >>
    /\ handed = [i \in 1..MaxEvents |-> 0]
    /\ connected = FALSE /\ disconnects = 0
    /\ view = NoView
    /\ processed = <<>>
    /\ fetch = Requested
    /\ own = NoMutation

----------------------------------------------------------------------------
(* The server. *)

ServerBid ==
    /\ Len(log) < MaxEvents
    /\ ServerStatus = "LIVE"
    /\ log' = Append(log, [type |-> "bid"])
    /\ UNCHANGED <<handed, connected, disconnects, view, processed, fetch, own>>

ServerStatusChange ==
    /\ Len(log) < MaxEvents
    /\ ServerStatus # "ENDED"
    /\ \E status \in Status \ {ServerStatus} :
         log' = Append(log, [type |-> "status", status |-> status])
    /\ UNCHANGED <<handed, connected, disconnects, view, processed, fetch, own>>

\* GET /auctions/:id reads the row at one moment; the answer travels.
AnswerFetch ==
    /\ fetch.state = "requested"
    /\ fetch' = [state |-> "answered", answer |-> SnapshotAt(Len(log))]
    /\ UNCHANGED <<log, handed, connected, disconnects, view, processed, own>>

----------------------------------------------------------------------------
(* The snapshot query. *)

\* invalidateQueries: a fetch in flight is abandoned for a new one, except
\* the first load.
Invalidated == IF fetch.state # "idle" /\ ~Loaded THEN fetch ELSE Requested

ArriveFetch ==
    /\ fetch.state = "answered"
    /\ view' = fetch.answer
    /\ fetch' = NoFetch
    /\ UNCHANGED <<log, handed, connected, disconnects, processed, own>>

FetchFails ==
    /\ fetch.state # "idle"
    /\ fetch' = NoFetch
    /\ UNCHANGED <<log, handed, connected, disconnects, view, processed, own>>

\* Mutant: a page with a socket does not poll.
PollUnlessConnected ==
    /\ fetch.state = "idle" /\ ~connected
    /\ fetch' = Requested
    /\ UNCHANGED <<log, handed, connected, disconnects, view, processed, own>>

\* refetchInterval.
Poll ==
    /\ fetch.state = "idle"
    /\ fetch' = Requested
    /\ UNCHANGED <<log, handed, connected, disconnects, view, processed, own>>

----------------------------------------------------------------------------
(* The socket. *)

Connect ==
    /\ ~connected
    /\ connected' = TRUE
    /\ fetch' = Invalidated
    /\ UNCHANGED <<log, handed, disconnects, view, processed, own>>

Disconnect ==
    /\ connected
    /\ disconnects < MaxDisconnects
    /\ connected' = FALSE /\ disconnects' = disconnects + 1
    /\ UNCHANGED <<log, handed, view, processed, fetch, own>>

Processed(i) == \E k \in DOMAIN processed : processed[k] = i

\* The ids remembered, the oldest forgotten beyond the limit.
Remember(i) ==
    LET longer == Append(processed, i)
    IN  IF Len(longer) > ProcessedLimit THEN Tail(longer) ELSE longer

\* Mutant: one missing event is not noticed.
IsGapTooLate(i) == Loaded /\ i > view.eventSequence + 2

IsGap(i) == Loaded /\ i > view.eventSequence + 1

\* Mutant: a bid already shown is applied again.
AfterEventReplayed(i) ==
    IF ~Loaded THEN view
    ELSE IF log[i].type = "bid"
    THEN [view EXCEPT !.amount = BidsUpTo(i), !.bidCount = @ + 1,
                      !.sequence = BidsUpTo(i), !.eventSequence = i]
    ELSE [view EXCEPT !.status = log[i].status,
                      !.eventSequence = IF i > @ THEN i ELSE @]

\* The snapshot after event i.  Only a bid must be newer than the snapshot.
AfterEvent(i) ==
    IF ~Loaded THEN view
    ELSE IF log[i].type = "status"
    THEN [view EXCEPT !.status = log[i].status,
                      !.eventSequence = IF i > @ THEN i ELSE @]
    ELSE IF i > view.eventSequence
    THEN [view EXCEPT !.amount = BidsUpTo(i), !.bidCount = @ + 1,
                      !.sequence = BidsUpTo(i), !.eventSequence = i]
    ELSE view

\* "auction:event": a copy of event i reaches the page.
Receive(i) ==
    /\ connected
    /\ i <= Len(log)
    /\ handed[i] < Copies
    /\ handed' = [handed EXCEPT ![i] = @ + 1]
    /\ IF Processed(i)
       THEN UNCHANGED <<view, processed, fetch>>
       ELSE /\ processed' = Remember(i)
            /\ IF IsGap(i)
               THEN fetch' = Invalidated /\ UNCHANGED view
               ELSE view' = AfterEvent(i) /\ UNCHANGED fetch
    /\ UNCHANGED <<log, connected, disconnects, own>>

----------------------------------------------------------------------------
(* The bid mutation: the button is disabled while one is pending. *)

SubmitBid ==
    /\ Loaded /\ view.status = "LIVE"
    /\ own.state = "idle" /\ own.bids < MaxOwnBids
    /\ own' = [own EXCEPT !.state = "sent", !.bids = @ + 1]
    /\ UNCHANGED <<log, handed, connected, disconnects, view, processed, fetch>>

\* The server accepts it.
ServerAcceptsOwn ==
    /\ own.state = "sent"
    /\ Len(log) < MaxEvents /\ ServerStatus = "LIVE"
    /\ log' = Append(log, [type |-> "bid"])
    /\ own' = [own EXCEPT !.state = "accepted",
                          !.sequence = BidsUpTo(Len(log)) + 1,
                          !.eventSequence = Len(log) + 1]
    /\ UNCHANGED <<handed, connected, disconnects, view, processed, fetch>>

\* It is refused, or the connection breaks before or after it is accepted.
OwnBidFails ==
    /\ own.state # "idle"
    /\ own' = [NoMutation EXCEPT !.bids = own.bids]
    /\ UNCHANGED <<log, handed, connected, disconnects, view, processed, fetch>>

\* Mutant: an own bid that its event has already shown is counted again.
AfterOwnBidCounted ==
    [view EXCEPT !.amount = own.sequence,
                 !.bidCount = @ + 1,
                 !.sequence = Max({@, own.sequence}),
                 !.eventSequence = Max({@, own.eventSequence})]

\* onSuccess: amount, bidder and end are those of the own bid, whatever the
\* snapshot shows by then; the counters never go back.
AfterOwnBid ==
    [view EXCEPT !.amount = own.sequence,
                 !.bidCount = IF own.sequence > view.sequence THEN @ + 1 ELSE @,
                 !.sequence = Max({@, own.sequence}),
                 !.eventSequence = Max({@, own.eventSequence})]

OwnBidReply ==
    /\ own.state = "accepted"
    /\ view' = AfterOwnBid
    /\ own' = [NoMutation EXCEPT !.bids = own.bids]
    /\ UNCHANGED <<log, handed, connected, disconnects, processed, fetch>>

----------------------------------------------------------------------------
PageNext ==
    \/ ServerBid \/ ServerStatusChange \/ ServerAcceptsOwn
    \/ AnswerFetch \/ ArriveFetch \/ FetchFails \/ Poll
    \/ Connect \/ Disconnect
    \/ \E i \in 1..MaxEvents : Receive(i)
    \/ SubmitBid \/ OwnBidFails \/ OwnBidReply

PageSpec == PageInit /\ [][PageNext]_pageVars

\* The poll's timer fires while the page is open, not every fetch fails, and a
\* bid request ends one way or the other.
Fairness == /\ SF_pageVars(Poll) /\ SF_pageVars(AnswerFetch) /\ SF_pageVars(ArriveFetch)
            /\ WF_pageVars(ServerAcceptsOwn \/ OwnBidReply \/ OwnBidFails)

FairSpec == PageSpec /\ Fairness

----------------------------------------------------------------------------
(* Properties. *)

\* Every variable holds a value of its type; the page remembers no event twice.
PageTypeOK ==
    /\ log \in Seq(Event)
    /\ handed \in [1..MaxEvents -> 0..Copies]
    /\ connected \in BOOLEAN /\ disconnects \in 0..MaxDisconnects
    /\ view \in Snapshot
    /\ processed \in Seq(1..MaxEvents)
    /\ Cardinality({processed[k] : k \in DOMAIN processed}) = Len(processed)
    /\ Len(processed) <= ProcessedLimit
    /\ fetch \in [state : {"idle", "requested", "answered"}, answer : Snapshot]
    /\ own \in [state : {"idle", "sent", "accepted"}, bids : Nat, sequence : Nat,
                eventSequence : Nat]

\* The page never runs ahead of the server and counts no bid twice, although
\* its event may come several times, before, after or instead of the reply to
\* the mutation, and although the snapshot may be replaced in between; and a
\* page whose user has not bid shows, at every moment, the bids of some prefix
\* of the log, exactly.
BidsOfOnePrefix ==
    LET n == view.eventSequence
    IN  Loaded =>
          /\ n <= Len(log)
          /\ view.bidCount <= BidsUpTo(n)
          /\ view.amount <= view.sequence /\ view.sequence <= BidsUpTo(n)
          /\ own.bids = 0 =>
               [view EXCEPT !.status = SnapshotAt(n).status] = SnapshotAt(n)

\* Once the auction is quiet the page comes to show what the server has and
\* stays there, whatever was lost, late, repeated or out of order.
CatchesUp == <>[](view = SnapshotAt(Len(log)))

\* docs/architecture.md:48: "WebSocket events update Query caches only after
\* event-schema and monotonic-sequence validation."  An event that is not
\* newer than the snapshot changes nothing.
OnlyNewerEventsApply ==
    [][\A i \in 1..MaxEvents : Receive(i) /\ i <= view.eventSequence
         => view' = view]_pageVars

=============================================================================
