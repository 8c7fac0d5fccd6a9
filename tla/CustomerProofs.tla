--------------------------- MODULE CustomerProofs ---------------------------
(***************************************************************************)
(* Theorems about what a customer meets: the bidder list of an auction     *)
(* (module AuctionEnrolment), the live auction page (AuctionClient) and    *)
(* the viewings (Viewings), one part for each.                             *)
(***************************************************************************)
EXTENDS AuctionEnrolment, AuctionClient, Viewings, FiniteSetTheorems,
        SequenceTheorems, TLAPS

----------------------------------------------------------------------------
(***************************************************************************)
(* The bidder list, for every set of bidders and of calls that overlap.    *)
(* That the review decides rests on two facts about the rows: the          *)
(* registration repeats the state of the deposit, and a deposit is         *)
(* CAPTURED only when the last decision was an approval.                   *)
(***************************************************************************)
CapturedByReview ==
    \A u \in Bidders : deposit[u] = "CAPTURED" => decision[u] = "approved"

Inv == TypeOK /\ DepositAgrees /\ CapturedByReview

\* A call that ends is a call.
LEMMA FinishType ==
    ASSUME req \in [Requests -> Call], NEW r \in Requests, Finish(r)
    PROVE  req' \in [Requests -> Call]
<1>1. [req[r] EXCEPT !.pc = "done"] \in Call
  BY DEF Call
<1> QED
  BY <1>1 DEF Finish

LEMMA InitInv == Init => Inv
<1> SUFFICES ASSUME Init PROVE Inv
  OBVIOUS
<1>1. NoCall \in Call
  BY EnrolmentAssumption DEF NoCall, Call
<1>2. NoRegistration \in Registration
  BY DEF NoRegistration, Registration
<1>3. TypeOK
  BY <1>1, <1>2, EnrolmentAssumption DEF Init, TypeOK, DepositStatus
<1>4. DepositAgrees /\ CapturedByReview
  BY DEF Init, DepositAgrees, CapturedByReview, NoRegistration
<1> QED
  BY <1>3, <1>4 DEF Inv

\* A step that leaves the rows alone keeps what is said of them.
LEMMA RowsUnchanged ==
    ASSUME Inv, UNCHANGED rows, req' \in [Requests -> Call],
           verified' \in [Bidders -> BOOLEAN], open' \in BOOLEAN, changes' \in 0..MaxChanges
    PROVE  Inv'
BY DEF Inv, TypeOK, DepositAgrees, CapturedByReview, rows

\* A call that moves without a write.
LEMMA QuietStepInv ==
    ASSUME Inv, NEW r \in Requests,
           \/ ReceiveRegister(r) \/ ReceiveSubmit(r) \/ CheckSubmit(r)
           \/ ReceiveReview(r) \/ FailCall(r)
    PROVE  Inv'
<1>1. UNCHANGED <<rows, verified, open, changes>>
  BY DEF ReceiveRegister, ReceiveSubmit, CheckSubmit, ReceiveReview, FailCall
<1>2. req' \in [Requests -> Call]
  <2>1. req[r] \in Call /\ req \in [Requests -> Call] /\ verified \in [Bidders -> BOOLEAN]
    BY DEF Inv, TypeOK
  <2>2. CASE ReceiveRegister(r)
    <3>1. PICK u \in Bidders :
            req' = [req EXCEPT ![r] = [pc |-> "register", user |-> u, eligible |-> verified[u]]]
      BY <2>2 DEF ReceiveRegister
    <3>2. [pc |-> "register", user |-> u, eligible |-> verified[u]] \in Call
      BY <2>1 DEF Call
    <3> QED
      BY <2>1, <3>1, <3>2
  <2>3. CASE ReceiveSubmit(r) \/ ReceiveReview(r)
    <3>1. PICK u \in Bidders, pc \in {"submit", "review"} :
            req' = [req EXCEPT ![r] = [NoCall EXCEPT !.pc = pc, !.user = u]]
      BY <2>3 DEF ReceiveSubmit, ReceiveReview
    <3>2. [NoCall EXCEPT !.pc = pc, !.user = u] \in Call
      BY DEF NoCall, Call
    <3> QED
      BY <2>1, <3>1, <3>2
  <2>4. CASE CheckSubmit(r)
    <3>1. PICK pc \in {"done", "checked"} : req' = [req EXCEPT ![r].pc = pc]
      BY <2>4 DEF CheckSubmit
    <3>2. [req[r] EXCEPT !.pc = pc] \in Call
      BY <2>1 DEF Call
    <3> QED
      BY <2>1, <3>1, <3>2
  <2>5. CASE FailCall(r)
    BY <2>1, <2>5, FinishType DEF FailCall
  <2> QED
    BY <2>2, <2>3, <2>4, <2>5
<1> QED
  BY <1>1, <1>2, RowsUnchanged DEF Inv, TypeOK

\* The upsert of register leaves the deposit and the copy of its state alone.
LEMMA CommitRegisterInv ==
    ASSUME Inv, NEW r \in Requests, CommitRegister(r)
    PROVE  Inv'
<1> DEFINE u == req[r].user
<1>1. /\ u \in Bidders /\ registration[u] \in Registration
      /\ registration' = [registration EXCEPT ![u] = Registered(@, req[r].eligible)]
      /\ UNCHANGED <<deposit, decision, verified, open, changes>>
  BY DEF Inv, TypeOK, Call, CommitRegister
<1>2. /\ Registered(registration[u], req[r].eligible) \in Registration
      /\ Registered(registration[u], req[r].eligible).status # "none"
      /\ Registered(registration[u], req[r].eligible).depositStatus = registration[u].depositStatus
  BY <1>1 DEF Registered, Registration
<1>3. req' \in [Requests -> Call]
  BY FinishType DEF Inv, TypeOK, CommitRegister
<1>4. TypeOK'
  BY <1>1, <1>2, <1>3 DEF Inv, TypeOK
<1>5. DepositAgrees' /\ CapturedByReview'
  BY <1>1, <1>2 DEF Inv, TypeOK, DepositAgrees, CapturedByReview
<1> QED
  BY <1>4, <1>5 DEF Inv

\* submit and review write both rows and the decision together.
LEMMA ReceiptStepInv ==
    ASSUME Inv, NEW r \in Requests, CommitSubmit(r) \/ Approve(r) \/ Reject(r)
    PROVE  Inv'
<1> DEFINE u == req[r].user
<1>1. u \in Bidders /\ registration[u] \in Registration
  BY DEF Inv, TypeOK, Call
<1>2. PICK to \in Registration, ruling \in {"none", "approved", "rejected"} :
        /\ registration' = [registration EXCEPT ![u] = to]
        /\ deposit' = [deposit EXCEPT ![u] = to.depositStatus]
        /\ decision' = [decision EXCEPT ![u] = ruling]
        /\ to.status # "none" /\ to.depositStatus # "NOT_REQUIRED"
        /\ to.depositStatus = "CAPTURED" => ruling = "approved"
        /\ UNCHANGED <<verified, open, changes>>
  <2>1. CASE CommitSubmit(r)
    <3>1. /\ Submitted(registration[u]) \in Registration
          /\ Submitted(registration[u]).status = "PENDING"
          /\ Submitted(registration[u]).depositStatus = "PENDING"
      BY <1>1 DEF Submitted, Registration
    <3> QED
      BY <2>1, <3>1 DEF CommitSubmit
  <2>2. CASE Approve(r)
    <3>1. [status |-> "ELIGIBLE", depositStatus |-> "CAPTURED"] \in Registration
      BY DEF Registration
    <3> QED
      BY <2>2, <3>1 DEF Approve
  <2>3. CASE Reject(r)
    <3>1. [status |-> "REJECTED", depositStatus |-> "FAILED"] \in Registration
      BY DEF Registration
    <3> QED
      BY <2>3, <3>1 DEF Reject
  <2> QED
    BY <2>1, <2>2, <2>3
<1>3. req' \in [Requests -> Call]
  BY FinishType DEF Inv, TypeOK, CommitSubmit, Approve, Reject
<1>4. to.depositStatus \in DepositStatus /\ to.depositStatus # "none"
  BY <1>2 DEF Registration, DepositStatus
<1>5. TypeOK'
  BY <1>1, <1>2, <1>3, <1>4 DEF Inv, TypeOK
<1>6. DepositAgrees' /\ CapturedByReview'
  BY <1>1, <1>2, <1>4 DEF Inv, TypeOK, DepositAgrees, CapturedByReview
<1> QED
  BY <1>5, <1>6 DEF Inv

LEMMA WorldStepInv ==
    ASSUME Inv, CloseAuction \/ \E u \in Bidders : ChangeVerified(u)
    PROVE  Inv'
<1>1. UNCHANGED <<rows, req>> /\ verified' \in [Bidders -> BOOLEAN] /\ open' \in BOOLEAN
  BY DEF Inv, TypeOK, CloseAuction, ChangeVerified, rows
<1>2. changes' \in 0..MaxChanges
  BY EnrolmentAssumption DEF Inv, TypeOK, CloseAuction, ChangeVerified
<1> QED
  BY <1>1, <1>2, RowsUnchanged DEF Inv, TypeOK

LEMMA StepInv == Inv /\ [Next]_vars => Inv'
<1> SUFFICES ASSUME Inv, [Next]_vars PROVE Inv'
  OBVIOUS
<1>1. CASE UNCHANGED vars
  BY <1>1, RowsUnchanged DEF vars, rows, Inv, TypeOK
<1>2. ASSUME NEW r \in Requests, CallStep(r) PROVE Inv'
  BY <1>2, QuietStepInv, CommitRegisterInv, ReceiptStepInv DEF CallStep
<1>3. CASE CloseAuction \/ \E u \in Bidders : ChangeVerified(u)
  BY <1>3, WorldStepInv
<1> QED
  BY <1>1, <1>2, <1>3 DEF Next

LEMMA AlwaysInv == Spec => []Inv
BY InitInv, StepInv, PTL DEF Spec

(***************************************************************************)
(* Every variable keeps its type, and no deposit is without registration.  *)
(***************************************************************************)
THEOREM TypeCorrect == Spec => []TypeOK
<1>1. Inv => TypeOK
  BY DEF Inv
<1> QED
  BY <1>1, AlwaysInv, PTL

(***************************************************************************)
(* The state of the deposit that placeBid reads in the registration is     *)
(* that of the deposit, however register, submit and review overlap.       *)
(***************************************************************************)
THEOREM DepositCorrect == Spec => []DepositAgrees
<1>1. Inv => DepositAgrees
  BY DEF Inv
<1> QED
  BY <1>1, AlwaysInv, PTL

(***************************************************************************)
(* A bidder who has sent a receipt may bid only while the last decision on *)
(* his latest receipt is an approval (auctions.service.ts:161).            *)
(***************************************************************************)
THEOREM ReviewCorrect == Spec => []ReviewDecides
<1>1. Inv => ReviewDecides
  BY DEF Inv, TypeOK, DepositStatus, DepositAgrees, CapturedByReview, ReviewDecides, CanBid
<1> QED
  BY <1>1, AlwaysInv, PTL

----------------------------------------------------------------------------
(***************************************************************************)
(* The live auction page.  Whatever the page holds counts the bids of a    *)
(* prefix of the log: exactly, as long as its user has not bid, and at     *)
(* most those afterwards.  The log only grows, so a prefix stays one.      *)
(***************************************************************************)
LEMMA MaxOf ==
    ASSUME NEW S \in SUBSET Int, NEW m \in S, \A y \in S : m >= y
    PROVE  Max(S) = m
<1>1. \A x \in S : (\A y \in S : x >= y) => x = m
  OBVIOUS
<1> QED
  BY <1>1 DEF Max

LEMMA MaxOfTwo ==
    ASSUME NEW x \in Nat, NEW y \in Nat
    PROVE  Max({x, y}) = IF x >= y THEN x ELSE y
<1>1. CASE x >= y
  BY <1>1, MaxOf
<1>2. CASE ~(x >= y)
  <2>1. y \in {x, y} /\ \A z \in {x, y} : y >= z
    BY <1>2
  <2> QED
    BY <1>2, <2>1, MaxOf
<1> QED
  BY <1>1, <1>2

LEMMA BidsType ==
    ASSUME NEW n \in Nat
    PROVE  BidsUpTo(n) \in Nat /\ IsFiniteSet({i \in 1..n : log[i].type = "bid"})
<1>1. IsFiniteSet(1..n)
  BY FS_Interval
<1>2. IsFiniteSet({i \in 1..n : log[i].type = "bid"})
  BY <1>1, FS_Subset
<1> QED
  BY <1>2, FS_CardinalityType DEF BidsUpTo

LEMMA BidsNext ==
    ASSUME NEW n \in Nat
    PROVE  BidsUpTo(n + 1) = IF log[n + 1].type = "bid" THEN BidsUpTo(n) + 1 ELSE BidsUpTo(n)
<1> DEFINE B(k) == {i \in 1..k : log[i].type = "bid"}
<1>1. IsFiniteSet(B(n)) /\ n + 1 \notin B(n)
  BY BidsType
<1>2. CASE log[n + 1].type = "bid"
  <2>1. B(n + 1) = B(n) \union {n + 1}
    BY <1>2
  <2> HIDE DEF B
  <2>2. Cardinality(B(n + 1)) = Cardinality(B(n)) + 1
    BY <1>1, <2>1, FS_AddElement
  <2> QED
    BY <1>2, <2>2 DEF BidsUpTo, B
<1>3. CASE log[n + 1].type # "bid"
  <2>1. B(n + 1) = B(n)
    BY <1>3
  <2> QED
    BY <1>3, <2>1 DEF BidsUpTo
<1> QED
  BY <1>2, <1>3

LEMMA BidsRise ==
    ASSUME NEW m \in Nat, NEW n \in Nat, m <= n
    PROVE  BidsUpTo(m) <= BidsUpTo(n)
<1>1. {i \in 1..m : log[i].type = "bid"} \subseteq {i \in 1..n : log[i].type = "bid"}
  OBVIOUS
<1> QED
  BY <1>1, BidsType, FS_Subset DEF BidsUpTo

LEMMA NoBidsYet == BidsUpTo(0) = 0
<1>1. {i \in 1..0 : log[i].type = "bid"} = {}
  OBVIOUS
<1> QED
  BY <1>1, FS_EmptySet DEF BidsUpTo

LEMMA BidsStay ==
    ASSUME log \in Seq(Event), NEW e \in Event, log' = Append(log, e),
           NEW n \in Nat, n <= Len(log)
    PROVE  BidsUpTo(n)' = BidsUpTo(n)
<1>1. \A i \in 1..n : log'[i] = log[i]
  BY AppendProperties, LenProperties
<1>2. {i \in 1..n : log'[i].type = "bid"} = {i \in 1..n : log[i].type = "bid"}
  BY <1>1
<1> QED
  BY <1>2 DEF BidsUpTo

\* The bids of a prefix of the log, at most and exactly.
Within(v) ==
    /\ v.eventSequence \in 0..Len(log)
    /\ v.bidCount <= v.sequence /\ v.amount <= v.sequence
    /\ v.sequence <= BidsUpTo(v.eventSequence)

Exact(v) ==
    /\ v.eventSequence \in 0..Len(log)
    /\ v.amount = BidsUpTo(v.eventSequence) /\ v.bidCount = BidsUpTo(v.eventSequence)
    /\ v.sequence = BidsUpTo(v.eventSequence)

\* Some status event is the last one.
StatusKnown ==
    \E m \in 1..Len(log) :
        /\ log[m].type = "status"
        /\ \A i \in 1..Len(log) : log[i].type = "status" => i <= m

NoRepeats == \A k, l \in DOMAIN processed : processed[k] = processed[l] => k = l

PageInv ==
    /\ PageTypeOK
    /\ Len(log) <= MaxEvents /\ StatusKnown
    /\ NoRepeats
    /\ Within(view)
    /\ own.bids = 0 => Exact(view)
    /\ fetch.state = "answered" => Exact(fetch.answer) /\ fetch.answer.eventSequence > 0
    /\ own.state # "idle" => own.bids > 0
    /\ own.state = "accepted" =>
         /\ own.eventSequence \in 1..Len(log)
         /\ own.sequence = BidsUpTo(own.eventSequence)

LEMMA ExactIsWithin ==
    ASSUME NEW v, Exact(v)
    PROVE  Within(v)
<1>1. v.eventSequence \in Nat
  BY DEF Exact
<1>2. BidsUpTo(v.eventSequence) \in Nat
  BY <1>1, BidsType
<1> QED
  BY <1>2 DEF Exact, Within

\* The server's row: what a fetch is answered with.
LEMMA ServerKnown ==
    ASSUME log \in Seq(Event), StatusKnown
    PROVE  /\ ServerStatus \in Status
           /\ SnapshotAt(Len(log)) \in Snapshot /\ Exact(SnapshotAt(Len(log)))
           /\ Len(log) \in Nat \ {0}
<1>1. PICK m \in 1..Len(log) :
          /\ log[m].type = "status"
          /\ \A i \in 1..Len(log) : log[i].type = "status" => i <= m
  BY DEF StatusKnown
<1>2. Len(log) \in Nat \ {0}
  BY <1>1, LenProperties
<1>3. LastStatus(Len(log)) = m
  <2> DEFINE S == {i \in 1..Len(log) : log[i].type = "status"}
  <2>1. S \in SUBSET Int /\ m \in S /\ \A i \in S : m >= i
    BY <1>1, <1>2
  <2> HIDE DEF S
  <2>2. Max(S) = m
    BY <2>1, MaxOf
  <2> QED
    BY <2>2 DEF LastStatus, S
<1>4. log[m] \in Event
  BY <1>1, <1>2, LenProperties
<1>5. log[m].status \in Status
  BY <1>1, <1>4 DEF Event
<1>6. BidsUpTo(Len(log)) \in Nat
  BY <1>2, BidsType
<1> QED
  BY <1>2, <1>3, <1>5, <1>6 DEF ServerStatus, SnapshotAt, Snapshot, Exact

\* The log grows, and all that was said of its prefixes stays true.
LEMMA LogGrows ==
    ASSUME log \in Seq(Event), StatusKnown, Len(log) < MaxEvents,
           NEW e \in Event, log' = Append(log, e)
    PROVE  /\ log' \in Seq(Event) /\ StatusKnown' /\ Len(log') <= MaxEvents
           /\ Len(log') = Len(log) + 1
           /\ \A n \in 0..Len(log) : BidsUpTo(n)' = BidsUpTo(n)
<1>1. /\ log' \in Seq(Event) /\ Len(log') = Len(log) + 1 /\ Len(log) \in Nat
      /\ log'[Len(log) + 1] = e /\ \A i \in 1..Len(log) : log'[i] = log[i]
  BY AppendProperties, LenProperties
<1>2. PICK m \in 1..Len(log) :
          /\ log[m].type = "status"
          /\ \A i \in 1..Len(log) : log[i].type = "status" => i <= m
  BY DEF StatusKnown
<1>3. \A i \in 1..Len(log') : i \in 1..Len(log) \/ i = Len(log) + 1
  BY <1>1
<1>4. StatusKnown'
  <2>1. CASE e.type = "status"
    <3>1. Len(log) + 1 \in 1..Len(log') /\ \A i \in 1..Len(log') : i <= Len(log) + 1
      BY <1>1
    <3> QED
      BY <1>1, <2>1, <3>1 DEF StatusKnown
  <2>2. CASE e.type # "status"
    <3>1. m \in 1..Len(log') /\ log'[m].type = "status"
      BY <1>1, <1>2
    <3>2. \A i \in 1..Len(log') : log'[i].type = "status" => i <= m
      BY <1>1, <1>2, <1>3, <2>2
    <3> QED
      BY <3>1, <3>2 DEF StatusKnown
  <2> QED
    BY <2>1, <2>2
<1>5. ASSUME NEW n \in 0..Len(log) PROVE BidsUpTo(n)' = BidsUpTo(n)
  BY <1>1, BidsStay
<1>6. Len(log') <= MaxEvents
  BY <1>1, ClientAssumption
<1> QED
  BY <1>1, <1>4, <1>5, <1>6

\* A bid is counted in the prefix it ends.
LEMMA BidsAdded ==
    ASSUME log \in Seq(Event), log' = Append(log, [type |-> "bid"]),
           NEW n \in Nat, n = Len(log) + 1
    PROVE  BidsUpTo(n)' = BidsUpTo(Len(log)) + 1
<1> DEFINE B == {i \in 1..Len(log) : log[i].type = "bid"}
           C == {i \in 1..n : log'[i].type = "bid"}
<1>1. Len(log) \in Nat
  BY LenProperties
<1>2. [type |-> "bid"] \in Event
  BY DEF Event
<1>3. /\ log'[n] = [type |-> "bid"]
      /\ \A i \in 1..Len(log) : log'[i] = log[i]
  BY <1>1, <1>2, AppendProperties, LenProperties
<1>4. C = B \union {n} /\ n \notin B
  BY <1>1, <1>3
<1>5. IsFiniteSet(B) /\ BidsUpTo(Len(log)) = Cardinality(B)
  BY <1>1, BidsType DEF BidsUpTo
<1>6. BidsUpTo(n)' = Cardinality(C)
  BY DEF BidsUpTo
<1> HIDE DEF B, C
<1>7. Cardinality(C) = Cardinality(B) + 1
  BY <1>4, <1>5, FS_AddElement
<1> QED
  BY <1>5, <1>6, <1>7

\* What the server does leaves the page alone.
LEMMA LogStepInv ==
    ASSUME PageInv, Len(log) < MaxEvents, NEW e \in Event, log' = Append(log, e),
           UNCHANGED <<handed, connected, disconnects, view, processed, fetch>>,
           own' \in [state : {"idle", "sent", "accepted"}, bids : Nat, sequence : Nat,
                     eventSequence : Nat],
           own'.bids = own.bids, own'.state # "idle" => own'.bids > 0,
           own'.state = "accepted" =>
             \/ own' = own
             \/ /\ e = [type |-> "bid"]
                /\ own'.eventSequence = Len(log) + 1
                /\ own'.sequence = BidsUpTo(Len(log)) + 1
    PROVE  PageInv'
<1>1. /\ log \in Seq(Event) /\ StatusKnown /\ PageTypeOK /\ Len(log) \in Nat
  BY LenProperties DEF PageInv, PageTypeOK
<1>2. /\ log' \in Seq(Event) /\ StatusKnown' /\ Len(log') <= MaxEvents
      /\ Len(log') = Len(log) + 1
      /\ \A n \in 0..Len(log) : BidsUpTo(n)' = BidsUpTo(n)
  BY <1>1, LogGrows
<1>3. ASSUME NEW v PROVE (Within(v) => Within(v)') /\ (Exact(v) => Exact(v)')
  <2>1. ASSUME v.eventSequence \in 0..Len(log)
        PROVE  /\ v.eventSequence \in 0..Len(log')
               /\ BidsUpTo(v.eventSequence)' = BidsUpTo(v.eventSequence)
    BY <1>1, <1>2, <2>1
  <2> QED
    BY <2>1 DEF Within, Exact
<1>4. PageTypeOK'
  BY <1>1, <1>2 DEF PageTypeOK
<1>5. Within(view)' /\ (own'.bids = 0 => Exact(view)')
  <2>1. PICK v : v = view
    OBVIOUS
  <2>2. Within(v) /\ (own.bids = 0 => Exact(v))
    BY <2>1 DEF PageInv
  <2>3. Within(v)' /\ (own.bids = 0 => Exact(v)')
    BY <1>3, <2>2
  <2> QED
    BY <2>1, <2>3 DEF Within, Exact
<1>6. fetch'.state = "answered" => Exact(fetch.answer)' /\ fetch'.answer.eventSequence > 0
  <2>1. PICK v : v = fetch.answer
    OBVIOUS
  <2>2. fetch.state = "answered" => Exact(v) /\ v.eventSequence > 0
    BY <2>1 DEF PageInv
  <2>3. fetch.state = "answered" => Exact(v)' /\ v.eventSequence > 0
    BY <1>3, <2>2
  <2> QED
    BY <2>1, <2>3 DEF Exact
<1>7. own'.state = "accepted" =>
        /\ own'.eventSequence \in 1..Len(log')
        /\ own'.sequence = BidsUpTo(own.eventSequence)'
  <2>1. PICK n : n = own'.eventSequence
    OBVIOUS
  <2>2. BidsUpTo(own.eventSequence)' = BidsUpTo(n)'
    BY <2>1 DEF BidsUpTo
  <2>3. CASE own'.state = "accepted" /\ own' = own
    <3>1. n \in 1..Len(log) /\ own.sequence = BidsUpTo(n)
      BY <2>1, <2>3 DEF PageInv
    <3>2. n \in 1..Len(log') /\ BidsUpTo(n)' = BidsUpTo(n)
      BY <1>1, <1>2, <3>1
    <3> QED
      BY <2>1, <2>2, <2>3, <3>1, <3>2
  <2>4. CASE /\ e = [type |-> "bid"]
             /\ own'.eventSequence = Len(log) + 1
             /\ own'.sequence = BidsUpTo(Len(log)) + 1
    <3>1. n \in Nat /\ n = Len(log) + 1
      BY <1>1, <2>1, <2>4
    <3>2. BidsUpTo(n)' = BidsUpTo(Len(log)) + 1
      BY <1>1, <2>4, <3>1, BidsAdded
    <3>3. n \in 1..Len(log')
      BY <1>1, <1>2, <3>1
    <3> QED
      BY <2>1, <2>2, <2>4, <3>2, <3>3
  <2> QED
    BY <2>3, <2>4
<1>8. NoRepeats'
  BY DEF PageInv, NoRepeats
<1> QED
  BY <1>2, <1>4, <1>5, <1>6, <1>7, <1>8 DEF PageInv

LEMMA ServerBidInv == PageInv /\ ServerBid => PageInv'
<1> SUFFICES ASSUME PageInv, ServerBid PROVE PageInv'
  OBVIOUS
<1>1. [type |-> "bid"] \in Event
  BY DEF Event
<1>2. own \in [state : {"idle", "sent", "accepted"}, bids : Nat, sequence : Nat,
               eventSequence : Nat] /\ (own.state # "idle" => own.bids > 0)
  BY DEF PageInv, PageTypeOK
<1> QED
  BY <1>1, <1>2, LogStepInv DEF ServerBid

LEMMA ServerStatusChangeInv == PageInv /\ ServerStatusChange => PageInv'
<1> SUFFICES ASSUME PageInv, ServerStatusChange PROVE PageInv'
  OBVIOUS
<1>1. PICK status \in Status :
          log' = Append(log, [type |-> "status", status |-> status])
  BY DEF ServerStatusChange
<1>2. [type |-> "status", status |-> status] \in Event
  BY DEF Event
<1>3. own \in [state : {"idle", "sent", "accepted"}, bids : Nat, sequence : Nat,
               eventSequence : Nat] /\ (own.state # "idle" => own.bids > 0)
  BY DEF PageInv, PageTypeOK
<1>4. /\ Len(log) < MaxEvents
      /\ UNCHANGED <<handed, connected, disconnects, view, processed, fetch, own>>
  BY DEF ServerStatusChange
<1> HIDE DEF PageInv
<1> QED
  BY <1>1, <1>2, <1>3, <1>4, LogStepInv

LEMMA ServerAcceptsOwnInv == PageInv /\ ServerAcceptsOwn => PageInv'
<1> SUFFICES ASSUME PageInv, ServerAcceptsOwn PROVE PageInv'
  OBVIOUS
<1>1. [type |-> "bid"] \in Event
  BY DEF Event
<1>2. /\ own \in [state : {"idle", "sent", "accepted"}, bids : Nat, sequence : Nat,
                  eventSequence : Nat]
      /\ own.state # "idle" => own.bids > 0
      /\ Len(log) \in Nat /\ BidsUpTo(Len(log)) \in Nat
  BY BidsType, LenProperties DEF PageInv, PageTypeOK
<1>3. PICK n \in Nat, m \in Nat : n = Len(log) + 1 /\ m = BidsUpTo(Len(log)) + 1
  BY <1>2
<1>4. /\ own' \in [state : {"idle", "sent", "accepted"}, bids : Nat, sequence : Nat,
                   eventSequence : Nat]
      /\ own'.bids = own.bids
      /\ own'.eventSequence = Len(log) + 1
      /\ own'.sequence = BidsUpTo(Len(log)) + 1
  <2>1. own' = [own EXCEPT !.state = "accepted", !.sequence = m, !.eventSequence = n]
    BY <1>3 DEF ServerAcceptsOwn
  <2> QED
    BY <1>2, <1>3, <2>1
<1>5. own.state # "idle"
  BY DEF ServerAcceptsOwn
<1>6. /\ Len(log) < MaxEvents /\ log' = Append(log, [type |-> "bid"])
      /\ UNCHANGED <<handed, connected, disconnects, view, processed, fetch>>
  BY DEF ServerAcceptsOwn
<1> QED
  BY <1>1, <1>2, <1>4, <1>5, <1>6, LogStepInv

(***************************************************************************)
(* The page's own steps leave the log alone, and with it what is known of  *)
(* its prefixes.                                                           *)
(***************************************************************************)
LEMMA LogKept ==
    ASSUME UNCHANGED log
    PROVE  /\ \A n : BidsUpTo(n)' = BidsUpTo(n)
           /\ \A v : Within(v)' <=> Within(v)
           /\ \A v : Exact(v)' <=> Exact(v)
           /\ StatusKnown' <=> StatusKnown
<1>1. \A n : BidsUpTo(n)' = BidsUpTo(n)
  BY DEF BidsUpTo
<1> QED
  BY <1>1 DEF Within, Exact, StatusKnown

\* What the page shows is of one prefix, in the next state.
LEMMA ViewKept ==
    ASSUME UNCHANGED log, Within(view'), own'.bids = 0 => Exact(view')
    PROVE  Within(view)' /\ (own'.bids = 0 => Exact(view)')
<1>1. PICK v : v = view'
  OBVIOUS
<1>2. Within(v)' /\ (own'.bids = 0 => Exact(v)')
  BY <1>1, LogKept
<1>3. Within(view)' <=> Within(v)'
  BY <1>1 DEF Within, BidsUpTo
<1>4. Exact(view)' <=> Exact(v)'
  BY <1>1 DEF Exact, BidsUpTo
<1> QED
  BY <1>2, <1>3, <1>4

LEMMA FetchKept ==
    ASSUME UNCHANGED log, Exact(fetch'.answer)
    PROVE  Exact(fetch.answer)'
<1>1. PICK v : v = fetch'.answer
  OBVIOUS
<1>2. Exact(v)'
  BY <1>1, LogKept
<1>3. Exact(fetch.answer)' <=> Exact(v)'
  BY <1>1 DEF Exact, BidsUpTo
<1> QED
  BY <1>2, <1>3

LEMMA OwnKept ==
    ASSUME UNCHANGED log, own' = own \/ own'.state # "accepted", PageInv
    PROVE  own'.state = "accepted" =>
             /\ own'.eventSequence \in 1..Len(log')
             /\ own'.sequence = BidsUpTo(own.eventSequence)'
<1>1. CASE own' = own /\ own.state = "accepted"
  <2>1. /\ own.eventSequence \in 1..Len(log)
        /\ own.sequence = BidsUpTo(own.eventSequence)
    BY <1>1 DEF PageInv
  <2>2. BidsUpTo(own.eventSequence)' = BidsUpTo(own.eventSequence)
    BY <1>1 DEF BidsUpTo
  <2> QED
    BY <1>1, <2>1, <2>2
<1> QED
  BY <1>1

\* Everything a page step has to show.
LEMMA PageStepInv ==
    ASSUME PageInv, UNCHANGED log, PageTypeOK', NoRepeats',
           Within(view'), own'.bids = 0 => Exact(view'),
           fetch'.state = "answered" =>
             Exact(fetch'.answer) /\ fetch'.answer.eventSequence > 0,
           own' = own \/ own'.state # "accepted",
           own'.state # "idle" => own'.bids > 0
    PROVE  PageInv'
<1>1. Len(log') <= MaxEvents /\ StatusKnown'
  BY LogKept DEF PageInv
<1>2. Within(view)' /\ (own'.bids = 0 => Exact(view)')
  BY ViewKept
<1>3. fetch'.state = "answered" => Exact(fetch.answer)' /\ fetch'.answer.eventSequence > 0
  BY FetchKept
<1>4. own'.state = "accepted" =>
        /\ own'.eventSequence \in 1..Len(log')
        /\ own'.sequence = BidsUpTo(own.eventSequence)'
  BY OwnKept
<1> QED
  BY <1>1, <1>2, <1>3, <1>4 DEF PageInv

LEMMA AnswerFetchInv == PageInv /\ AnswerFetch => PageInv'
<1> SUFFICES ASSUME PageInv, AnswerFetch PROVE PageInv'
  OBVIOUS
<1>1. PICK a : a = SnapshotAt(Len(log))
  OBVIOUS
<1>2. a \in Snapshot /\ Exact(a) /\ a.eventSequence > 0
  <2>1. /\ a \in Snapshot /\ Exact(a) /\ Len(log) \in Nat \ {0}
    BY <1>1, ServerKnown DEF PageInv, PageTypeOK
  <2>2. a.eventSequence = Len(log)
    BY <1>1 DEF SnapshotAt
  <2> QED
    BY <2>1, <2>2
<1>3. /\ fetch' = [state |-> "answered", answer |-> a]
      /\ UNCHANGED <<log, handed, connected, disconnects, view, processed, own>>
  BY <1>1 DEF AnswerFetch
<1>4. PageTypeOK' /\ NoRepeats'
  BY <1>2, <1>3 DEF PageInv, PageTypeOK, NoRepeats
<1>5. /\ Within(view') /\ (own'.bids = 0 => Exact(view'))
      /\ own'.state # "idle" => own'.bids > 0
  BY <1>3 DEF PageInv
<1>6. Exact(fetch'.answer) /\ fetch'.answer.eventSequence > 0
  BY <1>2, <1>3
<1> QED
  BY <1>3, <1>4, <1>5, <1>6, PageStepInv

LEMMA ArriveFetchInv == PageInv /\ ArriveFetch => PageInv'
<1> SUFFICES ASSUME PageInv, ArriveFetch PROVE PageInv'
  OBVIOUS
<1>1. /\ view' = fetch.answer /\ fetch' = NoFetch /\ fetch.state = "answered"
      /\ UNCHANGED <<log, handed, connected, disconnects, processed, own>>
  BY DEF ArriveFetch
<1>2. Exact(view') /\ Within(view')
  BY <1>1, ExactIsWithin DEF PageInv
<1>3. fetch'.state = "idle" /\ fetch' \in [state : {"idle", "requested", "answered"},
                                          answer : Snapshot]
  BY <1>1 DEF NoFetch, NoView, Snapshot, Status
<1>4. PageTypeOK' /\ NoRepeats' /\ (own'.state # "idle" => own'.bids > 0)
  BY <1>1, <1>3 DEF PageInv, PageTypeOK, NoRepeats
<1> QED
  BY <1>1, <1>2, <1>3, <1>4, PageStepInv

\* A fetch that fails, is abandoned or starts carries no answer, or the one
\* it had.
LEMMA FetchStepInv ==
    ASSUME PageInv, fetch' \in {NoFetch, Requested, fetch},
           UNCHANGED <<log, handed, view, processed, own>>,
           connected' \in BOOLEAN, disconnects' \in 0..MaxDisconnects
    PROVE  PageInv'
<1>1. /\ NoFetch.state # "answered" /\ Requested.state # "answered"
      /\ {NoFetch, Requested, fetch} \subseteq
           [state : {"idle", "requested", "answered"}, answer : Snapshot]
  BY DEF NoFetch, Requested, NoView, Snapshot, Status, PageInv, PageTypeOK
<1>2. PageTypeOK' /\ NoRepeats'
  BY <1>1 DEF PageInv, PageTypeOK, NoRepeats
<1>3. /\ Within(view') /\ (own'.bids = 0 => Exact(view'))
      /\ own'.state # "idle" => own'.bids > 0
  BY DEF PageInv
<1>4. fetch'.state = "answered" =>
        Exact(fetch'.answer) /\ fetch'.answer.eventSequence > 0
  BY <1>1 DEF PageInv
<1> QED
  BY <1>2, <1>3, <1>4, PageStepInv

LEMMA FetchOrSocketInv ==
    PageInv /\ (FetchFails \/ Poll \/ Connect \/ Disconnect) => PageInv'
<1> SUFFICES ASSUME PageInv, FetchFails \/ Poll \/ Connect \/ Disconnect PROVE PageInv'
  OBVIOUS
<1>1. connected \in BOOLEAN /\ disconnects \in 0..MaxDisconnects
  BY DEF PageInv, PageTypeOK
<1>2. CASE FetchFails
  BY <1>1, <1>2, FetchStepInv DEF FetchFails
<1>3. CASE Poll
  BY <1>1, <1>3, FetchStepInv DEF Poll
<1>4. CASE Connect
  BY <1>1, <1>4, FetchStepInv DEF Connect, Invalidated
<1>5. CASE Disconnect
  <2>1. disconnects' \in 0..MaxDisconnects
    BY <1>1, <1>5, ClientAssumption DEF Disconnect
  <2> QED
    BY <1>5, <2>1, FetchStepInv DEF Disconnect
<1> QED
  BY <1>2, <1>3, <1>4, <1>5

\* A list without repeats holds as many ids as it is long.
LEMMA CountDistinct ==
    ASSUME NEW S, NEW s \in Seq(S), \A k, l \in DOMAIN s : s[k] = s[l] => k = l
    PROVE  Cardinality({s[k] : k \in DOMAIN s}) = Len(s)
<1> DEFINE R == {s[k] : k \in DOMAIN s}
<1>1. Len(s) \in Nat /\ DOMAIN s = 1..Len(s)
  BY LenProperties
<1>2. IsFiniteSet(1..Len(s)) /\ Cardinality(1..Len(s)) = Len(s)
  <2>1. IsFiniteSet(1..Len(s)) /\
        Cardinality(1..Len(s)) = IF 1 > Len(s) THEN 0 ELSE Len(s) - 1 + 1
    BY <1>1, FS_Interval
  <2> QED
    BY <1>1, <2>1
<1>3. s \in Bijection(1..Len(s), R)
  <2>1. s \in [1..Len(s) -> R]
    BY <1>1, LenProperties
  <2>2. s \in Injection(1..Len(s), R)
    BY <1>1, <2>1 DEF Injection, IsInjective
  <2>3. s \in Surjection(1..Len(s), R)
    BY <1>1, <2>1 DEF Surjection
  <2> QED
    BY <2>2, <2>3 DEF Bijection
<1> HIDE DEF R
<1>4. ExistsBijection(1..Len(s), R)
  BY <1>3 DEF ExistsBijection
<1>5. Cardinality(R) = Cardinality(1..Len(s))
  BY <1>2, <1>4, FS_Bijection
<1> QED
  BY <1>2, <1>5 DEF R

LEMMA RememberKeeps ==
    ASSUME PageTypeOK, NoRepeats, NEW i \in 1..MaxEvents, ~Processed(i),
           processed' = Remember(i)
    PROVE  /\ processed' \in Seq(1..MaxEvents) /\ NoRepeats'
           /\ Len(processed') <= ProcessedLimit
           /\ Cardinality({processed'[k] : k \in DOMAIN processed'}) = Len(processed')
<1> DEFINE longer == Append(processed, i)
<1>1. /\ processed \in Seq(1..MaxEvents) /\ Len(processed) <= ProcessedLimit
      /\ Len(processed) \in Nat /\ DOMAIN processed = 1..Len(processed)
      /\ ProcessedLimit \in Nat
  BY LenProperties, ClientAssumption DEF PageTypeOK
<1>2. /\ longer \in Seq(1..MaxEvents) /\ Len(longer) = Len(processed) + 1
      /\ DOMAIN longer = 1..(Len(processed) + 1)
      /\ longer[Len(processed) + 1] = i
      /\ \A k \in 1..Len(processed) : longer[k] = processed[k]
  BY <1>1, AppendProperties, LenProperties
<1>3. \A k, l \in 1..(Len(processed) + 1) : longer[k] = longer[l] => k = l
  <2>1. \A k \in 1..Len(processed) : processed[k] # i
    BY <1>1 DEF Processed
  <2>2. \A k \in 1..(Len(processed) + 1) :
          k \in 1..Len(processed) \/ k = Len(processed) + 1
    BY <1>1
  <2>3. \A k, l \in 1..Len(processed) : processed[k] = processed[l] => k = l
    BY <1>1 DEF NoRepeats
  <2> HIDE DEF longer
  <2> QED
    BY <1>2, <2>1, <2>2, <2>3
<1>4. processed' = IF Len(longer) > ProcessedLimit THEN Tail(longer) ELSE longer
  BY DEF Remember
<1> HIDE DEF longer
<1>5. /\ processed' \in Seq(1..MaxEvents) /\ Len(processed') <= ProcessedLimit
      /\ \A k, l \in DOMAIN processed' : processed'[k] = processed'[l] => k = l
  <2>1. CASE Len(longer) > ProcessedLimit
    <3>1. longer # << >>
      BY <1>1, <1>2
    <3>2. /\ Tail(longer) \in Seq(1..MaxEvents) /\ Len(Tail(longer)) = Len(longer) - 1
          /\ \A k \in 1..Len(Tail(longer)) : Tail(longer)[k] = longer[k + 1]
      BY <1>2, <3>1, HeadTailProperties
    <3>3. DOMAIN Tail(longer) = 1..Len(processed)
      BY <1>1, <1>2, <3>2, LenProperties
    <3>4. \A k, l \in 1..Len(processed) : Tail(longer)[k] = Tail(longer)[l] => k = l
      BY <1>1, <1>2, <1>3, <3>2
    <3> QED
      BY <1>1, <1>2, <1>4, <2>1, <3>2, <3>3, <3>4
  <2>2. CASE ~(Len(longer) > ProcessedLimit)
    BY <1>1, <1>2, <1>3, <1>4, <2>2
  <2> QED
    BY <2>1, <2>2
<1>6. Cardinality({processed'[k] : k \in DOMAIN processed'}) = Len(processed')
  BY <1>5, CountDistinct
<1> QED
  BY <1>5, <1>6 DEF NoRepeats

\* An event that is no gap is the next one or an old one: applied, it leads
\* from the bids of one prefix to those of another.
LEMMA AfterEventWithin ==
    ASSUME PageInv, NEW i \in 1..MaxEvents, i <= Len(log), ~IsGap(i)
    PROVE  /\ AfterEvent(i) \in Snapshot /\ Within(AfterEvent(i))
           /\ Exact(view) => Exact(AfterEvent(i))
<1>1. /\ view \in Snapshot /\ Within(view) /\ log \in Seq(Event) /\ Len(log) \in Nat
      /\ i \in 1..Len(log) /\ view.eventSequence \in 0..Len(log)
  BY LenProperties DEF PageInv, PageTypeOK, Within
<1>2. /\ view.eventSequence \in Nat /\ view.amount \in Nat /\ view.bidCount \in Nat
      /\ view.sequence \in Nat /\ view.status \in Status
  BY <1>1 DEF Snapshot
<1>3. PICK e \in Nat, b \in Nat, c \in Nat :
          e = view.eventSequence /\ b = BidsUpTo(view.eventSequence) /\ c = BidsUpTo(i)
  <2>1. i \in Nat
    BY <1>1
  <2>2. BidsUpTo(i) \in Nat /\ BidsUpTo(view.eventSequence) \in Nat
    BY <1>2, <2>1, BidsType
  <2> QED
    BY <1>2, <2>2
<1>4. Loaded => i <= e + 1
  BY <1>1, <1>3 DEF IsGap
<1>5. c = IF i = e + 1 /\ log[i].type = "bid" THEN b + 1 ELSE IF i = e + 1 THEN b ELSE c
  BY <1>3, BidsNext
<1>6. CASE ~Loaded
  BY <1>1, <1>6 DEF AfterEvent
<1>7. CASE Loaded /\ log[i].type = "status"
  <2>1. log[i].status \in Status
    BY <1>1, <1>7, LenProperties DEF Event
  <2>2. PICK s \in Status : s = log[i].status
    BY <2>1
  <2>3. PICK n \in Nat : n = IF i > e THEN i ELSE e
    BY <1>1, <1>3
  <2>4. AfterEvent(i) = [view EXCEPT !.status = s, !.eventSequence = n]
    BY <1>3, <1>7, <2>2, <2>3 DEF AfterEvent
  <2>5. PICK w : w = AfterEvent(i)
    OBVIOUS
  <2>6. /\ w \in Snapshot /\ w.eventSequence = n /\ w.amount = view.amount
        /\ w.bidCount = view.bidCount /\ w.sequence = view.sequence
    BY <1>1, <2>3, <2>4, <2>5 DEF Snapshot
  <2>7. n \in 0..Len(log) /\ BidsUpTo(n) = b
    BY <1>1, <1>3, <1>4, <1>5, <1>7, <2>3
  <2>8. Within(w) /\ (Exact(view) => Exact(w))
    BY <1>1, <1>3, <2>6, <2>7 DEF Within, Exact
  <2> QED
    BY <2>5, <2>6, <2>8
<1>8. CASE Loaded /\ log[i].type # "status" /\ i > e
  <2>1. log[i].type = "bid"
    BY <1>1, <1>8, LenProperties DEF Event
  <2>2. i = e + 1 /\ c = b + 1
    BY <1>1, <1>3, <1>4, <1>5, <1>8, <2>1
  <2>3. AfterEvent(i) = [view EXCEPT !.amount = c, !.bidCount = view.bidCount + 1,
                                     !.sequence = c, !.eventSequence = i]
    BY <1>3, <1>8 DEF AfterEvent
  <2>4. PICK w : w = AfterEvent(i)
    OBVIOUS
  <2>5. /\ w \in Snapshot /\ w.eventSequence = i /\ w.amount = c
        /\ w.bidCount = view.bidCount + 1 /\ w.sequence = c
    <3>1. PICK k \in Nat : k = view.bidCount + 1
      BY <1>2
    <3>2. w = [view EXCEPT !.amount = c, !.bidCount = k, !.sequence = c, !.eventSequence = i]
      BY <2>3, <2>4, <3>1
    <3>3. i \in Nat
      BY <1>1
    <3> QED
      BY <1>1, <3>1, <3>2, <3>3 DEF Snapshot
  <2>6. Within(w) /\ (Exact(view) => Exact(w))
    BY <1>1, <1>2, <1>3, <2>2, <2>5 DEF Within, Exact
  <2> QED
    BY <2>4, <2>5, <2>6
<1>9. CASE Loaded /\ log[i].type # "status" /\ ~(i > e)
  BY <1>1, <1>3, <1>9 DEF AfterEvent
<1> QED
  BY <1>6, <1>7, <1>8, <1>9

LEMMA ReceiveInv == \A i \in 1..MaxEvents : PageInv /\ Receive(i) => PageInv'
<1> SUFFICES ASSUME NEW i \in 1..MaxEvents, PageInv, Receive(i) PROVE PageInv'
  OBVIOUS
<1>1. /\ i <= Len(log) /\ handed[i] < Copies
      /\ handed' = [handed EXCEPT ![i] = handed[i] + 1]
      /\ UNCHANGED <<log, connected, disconnects, own>>
      /\ IF Processed(i)
         THEN UNCHANGED <<view, processed, fetch>>
         ELSE /\ processed' = Remember(i)
              /\ IF IsGap(i)
                 THEN fetch' = Invalidated /\ UNCHANGED view
                 ELSE view' = AfterEvent(i) /\ UNCHANGED fetch
  BY DEF Receive
<1>2. PageTypeOK /\ NoRepeats
  BY DEF PageInv
<1>3. handed' \in [1..MaxEvents -> 0..Copies]
  <2>1. handed \in [1..MaxEvents -> 0..Copies] /\ handed[i] + 1 \in 0..Copies
    BY <1>1, <1>2, ClientAssumption DEF PageTypeOK
  <2> QED
    BY <1>1, <2>1
<1>4. /\ processed' \in Seq(1..MaxEvents) /\ NoRepeats'
      /\ Len(processed') <= ProcessedLimit
      /\ Cardinality({processed'[k] : k \in DOMAIN processed'}) = Len(processed')
  <2>1. CASE Processed(i)
    BY <1>1, <1>2, <2>1 DEF PageTypeOK, NoRepeats
  <2>2. CASE ~Processed(i)
    BY <1>1, <1>2, <2>2, RememberKeeps
  <2> QED
    BY <2>1, <2>2
<1>5. /\ view' \in Snapshot /\ Within(view') /\ (own'.bids = 0 => Exact(view'))
  <2>1. CASE view' = view
    BY <1>1, <2>1 DEF PageInv, PageTypeOK
  <2>2. CASE view' = AfterEvent(i) /\ ~IsGap(i)
    <3>1. /\ AfterEvent(i) \in Snapshot /\ Within(AfterEvent(i))
          /\ Exact(view) => Exact(AfterEvent(i))
      BY <1>1, <2>2, AfterEventWithin
    <3>2. own'.bids = 0 => Exact(view)
      BY <1>1 DEF PageInv
    <3> QED
      BY <2>2, <3>1, <3>2
  <2> QED
    BY <1>1, <2>1, <2>2
<1>6. /\ fetch' \in [state : {"idle", "requested", "answered"}, answer : Snapshot]
      /\ fetch'.state = "answered" =>
           Exact(fetch'.answer) /\ fetch'.answer.eventSequence > 0
  <2>1. fetch' \in {fetch, Requested}
    BY <1>1 DEF Invalidated
  <2>2. Requested.state # "answered" /\ Requested \in
          [state : {"idle", "requested", "answered"}, answer : Snapshot]
    BY DEF Requested, NoView, Snapshot, Status
  <2>3. CASE fetch' = fetch
    BY <2>3 DEF PageInv, PageTypeOK
  <2> QED
    BY <2>1, <2>2, <2>3
<1>7. PageTypeOK'
  BY <1>1, <1>2, <1>3, <1>4, <1>5, <1>6 DEF PageTypeOK
<1>8. own'.state # "idle" => own'.bids > 0
  BY <1>1 DEF PageInv
<1> QED
  BY <1>1, <1>4, <1>5, <1>6, <1>7, <1>8, PageStepInv

LEMMA SubmitBidInv == PageInv /\ SubmitBid => PageInv'
<1> SUFFICES ASSUME PageInv, SubmitBid PROVE PageInv'
  OBVIOUS
<1>1. own \in [state : {"idle", "sent", "accepted"}, bids : Nat, sequence : Nat,
               eventSequence : Nat]
  BY DEF PageInv, PageTypeOK
<1>2. /\ own' = [own EXCEPT !.state = "sent", !.bids = own.bids + 1]
      /\ UNCHANGED <<log, handed, connected, disconnects, view, processed, fetch>>
  BY DEF SubmitBid
<1>3. /\ own' \in [state : {"idle", "sent", "accepted"}, bids : Nat, sequence : Nat,
                   eventSequence : Nat]
      /\ own'.state = "sent" /\ own'.bids > 0
  <2>1. PICK k \in Nat : k = own.bids + 1 /\ k > 0
    BY <1>1
  <2>2. own' = [own EXCEPT !.state = "sent", !.bids = k]
    BY <1>2, <2>1
  <2> QED
    BY <1>1, <2>1, <2>2
<1>4. PageTypeOK' /\ NoRepeats'
  BY <1>2, <1>3 DEF PageInv, PageTypeOK, NoRepeats
<1>5. Within(view') /\ (own'.bids = 0 => Exact(view'))
  BY <1>2, <1>3 DEF PageInv
<1>6. fetch'.state = "answered" =>
        Exact(fetch'.answer) /\ fetch'.answer.eventSequence > 0
  BY <1>2 DEF PageInv
<1> QED
  BY <1>2, <1>3, <1>4, <1>5, <1>6, PageStepInv

\* The mutation is over.
LEMMA MutationOver ==
    ASSUME PageInv, own' = [NoMutation EXCEPT !.bids = own.bids]
    PROVE  /\ own' \in [state : {"idle", "sent", "accepted"}, bids : Nat, sequence : Nat,
                        eventSequence : Nat]
           /\ own'.state = "idle" /\ own'.bids = own.bids
<1>1. own.bids \in Nat
  BY DEF PageInv, PageTypeOK
<1> QED
  BY <1>1 DEF NoMutation

LEMMA OwnBidFailsInv == PageInv /\ OwnBidFails => PageInv'
<1> SUFFICES ASSUME PageInv, OwnBidFails PROVE PageInv'
  OBVIOUS
<1>1. /\ own' = [NoMutation EXCEPT !.bids = own.bids]
      /\ UNCHANGED <<log, handed, connected, disconnects, view, processed, fetch>>
  BY DEF OwnBidFails
<1>2. /\ own' \in [state : {"idle", "sent", "accepted"}, bids : Nat, sequence : Nat,
                   eventSequence : Nat]
      /\ own'.state = "idle" /\ own'.bids = own.bids
  BY <1>1, MutationOver
<1>3. PageTypeOK' /\ NoRepeats'
  BY <1>1, <1>2 DEF PageInv, PageTypeOK, NoRepeats
<1>4. Within(view') /\ (own'.bids = 0 => Exact(view'))
  BY <1>1, <1>2 DEF PageInv
<1>5. fetch'.state = "answered" =>
        Exact(fetch'.answer) /\ fetch'.answer.eventSequence > 0
  BY <1>1 DEF PageInv
<1> QED
  BY <1>1, <1>2, <1>3, <1>4, <1>5, PageStepInv

LEMMA OwnBidReplyInv == PageInv /\ OwnBidReply => PageInv'
<1> SUFFICES ASSUME PageInv, OwnBidReply PROVE PageInv'
  OBVIOUS
<1>1. /\ own.state = "accepted" /\ view' = AfterOwnBid
      /\ own' = [NoMutation EXCEPT !.bids = own.bids]
      /\ UNCHANGED <<log, handed, connected, disconnects, processed, fetch>>
  BY DEF OwnBidReply
<1>2. /\ own' \in [state : {"idle", "sent", "accepted"}, bids : Nat, sequence : Nat,
                   eventSequence : Nat]
      /\ own'.state = "idle" /\ own'.bids = own.bids /\ own.bids > 0
  BY <1>1, MutationOver DEF PageInv
<1>3. /\ view \in Snapshot /\ Within(view) /\ Len(log) \in Nat
      /\ own.sequence \in Nat /\ own.eventSequence \in 1..Len(log)
      /\ own.sequence = BidsUpTo(own.eventSequence)
  BY <1>1, LenProperties DEF PageInv, PageTypeOK
<1>4. /\ view.eventSequence \in 0..Len(log) /\ view.amount \in Nat
      /\ view.bidCount \in Nat /\ view.sequence \in Nat
  BY <1>3 DEF Snapshot, Within
<1>5. PICK q \in Nat, n \in Nat, c \in Nat :
        /\ q = IF view.sequence >= own.sequence THEN view.sequence ELSE own.sequence
        /\ n = IF view.eventSequence >= own.eventSequence
               THEN view.eventSequence ELSE own.eventSequence
        /\ c = IF own.sequence > view.sequence THEN view.bidCount + 1 ELSE view.bidCount
  BY <1>3, <1>4
<1>6. q = Max({view.sequence, own.sequence}) /\ n = Max({view.eventSequence, own.eventSequence})
  BY <1>3, <1>4, <1>5, MaxOfTwo
<1>7. view' = [view EXCEPT !.amount = own.sequence, !.bidCount = c, !.sequence = q,
                           !.eventSequence = n]
  BY <1>1, <1>5, <1>6 DEF AfterOwnBid
<1>8. /\ view' \in Snapshot /\ view'.amount = own.sequence /\ view'.bidCount = c
      /\ view'.sequence = q /\ view'.eventSequence = n
  BY <1>3, <1>5, <1>7 DEF Snapshot
<1>9. Within(view')
  <2>1. n \in 0..Len(log)
    BY <1>3, <1>4, <1>5
  <2>2. c <= q /\ own.sequence <= q
    BY <1>3, <1>4, <1>5 DEF Within
  <2>3. q <= BidsUpTo(n)
    <3>1. /\ BidsUpTo(view.eventSequence) <= BidsUpTo(n)
          /\ BidsUpTo(own.eventSequence) <= BidsUpTo(n)
      BY <1>3, <1>4, <1>5, BidsRise
    <3>2. /\ BidsUpTo(view.eventSequence) \in Nat /\ BidsUpTo(n) \in Nat
          /\ view.sequence <= BidsUpTo(view.eventSequence)
      <4>1. view.eventSequence \in Nat
        BY <1>3, <1>4
      <4>2. BidsUpTo(view.eventSequence) \in Nat /\ BidsUpTo(n) \in Nat
        BY <4>1, BidsType
      <4> QED
        BY <1>3, <4>2 DEF Within
    <3> QED
      BY <1>3, <1>4, <1>5, <3>1, <3>2
  <2> QED
    BY <1>8, <2>1, <2>2, <2>3 DEF Within
<1>10. PageTypeOK' /\ NoRepeats'
  BY <1>1, <1>2, <1>8 DEF PageInv, PageTypeOK, NoRepeats
<1>11. fetch'.state = "answered" =>
         Exact(fetch'.answer) /\ fetch'.answer.eventSequence > 0
  BY <1>1 DEF PageInv
<1> QED
  BY <1>1, <1>2, <1>9, <1>10, <1>11, PageStepInv

----------------------------------------------------------------------------
LEMMA InitPageInv == PageInit => PageInv
<1> SUFFICES ASSUME PageInit PROVE PageInv
  OBVIOUS
<1>1. PICK e \in Event : e.type = "status" /\ log = << e >>
  BY DEF PageInit, Event, Status
<1>2. log \in Seq(Event) /\ Len(log) = 1 /\ log[1] = e
  BY <1>1
<1>3. NoView \in Snapshot /\ Within(NoView) /\ Exact(NoView)
  BY <1>2, NoBidsYet DEF NoView, Snapshot, Status, Within, Exact
<1>4. StatusKnown
  BY <1>1, <1>2 DEF StatusKnown
<1>5. processed = << >> /\ NoRepeats /\ processed \in Seq(1..MaxEvents) /\ Len(processed) = 0
  BY DEF PageInit, NoRepeats
<1>6. Cardinality({processed[k] : k \in DOMAIN processed}) = Len(processed)
  BY <1>5, CountDistinct DEF NoRepeats
<1>7. /\ handed \in [1..MaxEvents -> 0..Copies] /\ connected \in BOOLEAN
      /\ disconnects \in 0..MaxDisconnects /\ Len(processed) <= ProcessedLimit
      /\ Len(log) <= MaxEvents
  <2>1. 0 \in 0..Copies /\ 0 \in 0..MaxDisconnects /\ 1 <= MaxEvents /\ 0 <= ProcessedLimit
    BY ClientAssumption
  <2>2. handed = [i \in 1..MaxEvents |-> 0] /\ connected = FALSE /\ disconnects = 0
    BY DEF PageInit
  <2>3. handed \in [1..MaxEvents -> 0..Copies]
    BY <2>1, <2>2
  <2> QED
    BY <1>2, <1>5, <2>1, <2>2, <2>3
<1>8. /\ fetch \in [state : {"idle", "requested", "answered"}, answer : Snapshot]
      /\ own \in [state : {"idle", "sent", "accepted"}, bids : Nat, sequence : Nat,
                  eventSequence : Nat]
      /\ view = NoView /\ fetch.state # "answered" /\ own.state = "idle"
  BY <1>3 DEF PageInit, Requested, NoMutation
<1>9. PageTypeOK
  BY <1>2, <1>3, <1>5, <1>6, <1>7, <1>8 DEF PageTypeOK
<1> QED
  BY <1>3, <1>4, <1>5, <1>7, <1>8, <1>9 DEF PageInv

LEMMA PageStutter == PageInv /\ UNCHANGED pageVars => PageInv'
<1> SUFFICES ASSUME PageInv, UNCHANGED pageVars PROVE PageInv'
  OBVIOUS
<1>1. fetch' = fetch /\ UNCHANGED <<log, handed, view, processed, own>>
  BY DEF pageVars
<1>2. connected' \in BOOLEAN /\ disconnects' \in 0..MaxDisconnects
  BY DEF pageVars, PageInv, PageTypeOK
<1> QED
  BY <1>1, <1>2, FetchStepInv

LEMMA AlwaysPageInv == PageSpec => []PageInv
<1>1. PageInv /\ [PageNext]_pageVars => PageInv'
  BY ServerBidInv, ServerStatusChangeInv, ServerAcceptsOwnInv, AnswerFetchInv,
     ArriveFetchInv, FetchOrSocketInv, ReceiveInv, SubmitBidInv, OwnBidFailsInv,
     OwnBidReplyInv, PageStutter DEF PageNext
<1> QED
  BY <1>1, InitPageInv, PTL DEF PageSpec

\* Every variable of the live page holds a value of its type, and the page
\* remembers no event twice and never more than its limit.
THEOREM PageTypeCorrect == PageSpec => []PageTypeOK
<1>1. PageInv => PageTypeOK
  BY DEF PageInv
<1> QED
  BY <1>1, AlwaysPageInv, PTL

\* However events are repeated, reordered, lost or overtaken by a fetch or by
\* the reply to the user's own bid, the page never runs ahead of the server
\* and counts no bid twice; without own bids it shows one prefix exactly.
THEOREM PageCorrect == PageSpec => []BidsOfOnePrefix
<1>1. PageInv => BidsOfOnePrefix
  <2> SUFFICES ASSUME PageInv PROVE BidsOfOnePrefix
    OBVIOUS
  <2>1. view \in Snapshot /\ Within(view) /\ (own.bids = 0 => Exact(view)) /\ Len(log) \in Nat
    BY LenProperties DEF PageInv, PageTypeOK
  <2>2. /\ view.eventSequence \in 0..Len(log) /\ BidsUpTo(view.eventSequence) \in Nat
        /\ view.amount \in Nat /\ view.bidCount \in Nat /\ view.sequence \in Nat
    BY <2>1, BidsType DEF Within, Snapshot
  <2>3. ASSUME own.bids = 0
        PROVE  LET n == view.eventSequence
               IN  [view EXCEPT !.status = SnapshotAt(n).status] = SnapshotAt(n)
    <3>1. Exact(view)
      BY <2>1, <2>3
    <3> QED
      BY <2>1, <3>1 DEF Exact, SnapshotAt, Snapshot
  <2> QED
    BY <2>1, <2>2, <2>3 DEF BidsOfOnePrefix, Within
<1> QED
  BY <1>1, AlwaysPageInv, PTL

----------------------------------------------------------------------------
(***************************************************************************)
(* Viewings.  What a booking could know is kept with its row: every row it *)
(* could see of the agent whose slots it was offered, and that overlaps    *)
(* it, has been declined; and so has every row at its very time that the   *)
(* look-up could see.  Rows only grow, and a row once declined stays so.   *)
(***************************************************************************)
Asked == [pc : {"agent"}, listing : Listings, agent : Agents, at : Nat]

Offered == [pc : {"offered"}, listing : Listings, agent : Agents, at : Nat,
            known : Nat, offeredBy : Agents]

Unclashed == [pc : {"free"}, listing : Listings, agent : Agents, at : Nat,
              known : Nat, offeredBy : Agents, checked : Nat]

Answering == [pc : {"answer"}, viewing : Nat, answer : {"CONFIRMED", "CANCELLED"}]

\* Types, also of the calls; and the buyers were told the status of the rows.
ToldInv ==
    /\ ViewingsTypeOK
    /\ viewings \in Seq(Viewing)
    /\ \A c \in Calls : call[c] \in {NoViewingCall} \union Asked \union Offered
                                      \union Unclashed \union Answering
    /\ \A c \in Calls : call[c].pc = "answer" => call[c].viewing \in DOMAIN viewings
    /\ LastNoticeIsTrue

\* What of the first n rows stands against agent a at time s was declined once.
DeclinedAround(a, s, n) ==
    \A i \in DOMAIN viewings :
        i <= n /\ viewings[i].agent = a /\ Overlap(viewings[i].at, s) => viewings[i].declined

DeclinedAt(a, s, n) ==
    \A i \in DOMAIN viewings :
        i <= n /\ viewings[i].agent = a /\ viewings[i].at = s => viewings[i].declined

BookedInv ==
    /\ \A i \in DOMAIN viewings :
         /\ viewings[i].status = "REQUESTED" => ~viewings[i].declined
         /\ viewings[i].status = "CANCELLED" => viewings[i].declined
         /\ viewings[i].known < i /\ viewings[i].checked < i
         /\ DeclinedAround(viewings[i].offeredBy, viewings[i].at, viewings[i].known)
         /\ DeclinedAt(viewings[i].agent, viewings[i].at, viewings[i].checked)
    /\ \A c \in Calls :
         /\ call[c].pc \in {"offered", "free"} =>
              /\ call[c].known <= Len(viewings)
              /\ DeclinedAround(call[c].offeredBy, call[c].at, call[c].known)
         /\ call[c].pc = "free" =>
              /\ call[c].checked <= Len(viewings)
              /\ DeclinedAt(call[c].agent, call[c].at, call[c].checked)

VInv == ToldInv /\ BookedInv

\* Rows stay, and what was declined stays declined.
Grown ==
    \A i \in DOMAIN viewings :
        /\ i \in DOMAIN viewings'
        /\ viewings'[i].agent = viewings[i].agent /\ viewings'[i].at = viewings[i].at
        /\ viewings'[i].known = viewings[i].known /\ viewings'[i].checked = viewings[i].checked
        /\ viewings'[i].offeredBy = viewings[i].offeredBy
        /\ viewings[i].declined => viewings'[i].declined

LEMMA StaysDeclined ==
    ASSUME viewings \in Seq(Viewing), viewings' \in Seq(Viewing), Grown,
           NEW a, NEW s, NEW n \in Nat, n <= Len(viewings)
    PROVE  /\ DeclinedAround(a, s, n) => DeclinedAround(a, s, n)'
           /\ DeclinedAt(a, s, n) => DeclinedAt(a, s, n)'
<1>1. ASSUME NEW i \in DOMAIN viewings', i <= n PROVE i \in DOMAIN viewings
  BY <1>1
<1> QED
  BY <1>1 DEF DeclinedAround, DeclinedAt, Grown

\* A call that moves without a write.
LEMMA QuietToldInv ==
    ASSUME ToldInv, NEW c \in Calls, NEW k, call' = [call EXCEPT ![c] = k],
           k \in {NoViewingCall} \union Asked \union Offered \union Unclashed \union Answering,
           k.pc = "answer" => k.viewing \in DOMAIN viewings,
           UNCHANGED <<clock, windows, accepted, published, viewings, notices>>
    PROVE  ToldInv'
<1>1. DOMAIN call = Calls
  BY DEF ToldInv, ViewingsTypeOK
<1>2. DOMAIN call' = Calls /\ \A d \in Calls : call'[d] = IF d = c THEN k ELSE call[d]
  BY <1>1
<1> QED
  BY <1>2 DEF ToldInv, ViewingsTypeOK, LastNoticeIsTrue

LEMMA QuietBookedInv ==
    ASSUME ToldInv, BookedInv, NEW c \in Calls, NEW k, call' = [call EXCEPT ![c] = k],
           UNCHANGED viewings,
           k.pc \in {"offered", "free"} =>
              /\ k.known <= Len(viewings)
              /\ DeclinedAround(k.offeredBy, k.at, k.known),
           k.pc = "free" =>
              /\ k.checked <= Len(viewings)
              /\ DeclinedAt(k.agent, k.at, k.checked)
    PROVE  BookedInv'
<1>1. DOMAIN call = Calls
  BY DEF ToldInv, ViewingsTypeOK
<1>2. \A d \in Calls : call'[d] = IF d = c THEN k ELSE call[d]
  BY <1>1
<1> QED
  BY <1>2 DEF BookedInv, DeclinedAround, DeclinedAt

\* The slots on offer keep clear of every viewing that was not declined: what
\* is not looked at has begun, and ends before the notice owed is over.
LEMMA OffersKeepClear ==
    ASSUME ToldInv, BookedInv, NEW a \in Agents, NEW s \in buildSlots(a)
    PROVE  s \in Nat /\ DeclinedAround(a, s, Len(viewings))
<1>1. /\ s \in Nat /\ s >= Earliest /\ \A t \in Busy(a) : ~Overlap(s, t)
  <2>1. s \in Times /\ s >= Earliest /\ \A t \in Busy(a) : ~Overlap(s, t)
    BY DEF buildSlots
  <2>2. PICK w \in Window : w.start <= s /\ s \in 0..Max({0} \union Ends)
    BY <2>1 DEF Times
  <2> QED
    BY <2>1, <2>2
<1>2. clock \in Nat /\ Lead \in Int /\ Duration \in Nat /\ Lead >= Duration
  BY ViewingsAssumption DEF ToldInv, ViewingsTypeOK
<1>3. ASSUME NEW i \in DOMAIN viewings, viewings[i].agent = a, Overlap(viewings[i].at, s),
             ~viewings[i].declined
      PROVE  FALSE
  <2>1. viewings[i] \in Viewing
    BY DEF ToldInv
  <2>2. viewings[i].status \in BLOCKING_STATUSES
    BY <1>3, <2>1 DEF BookedInv, Viewing, ViewingStatus, BLOCKING_STATUSES
  <2>3. i \in Blocking(a)
    BY <1>3, <2>2 DEF Blocking
  <2>4. viewings[i].at \in Nat
    BY <2>1 DEF Viewing
  <2>5. CASE viewings[i].at >= clock
    <3>1. viewings[i].at \in Busy(a)
      BY <2>3, <2>5 DEF Busy
    <3> QED
      BY <1>1, <1>3, <3>1 DEF Overlap
  <2>6. CASE ~(viewings[i].at >= clock)
    BY <1>1, <1>2, <1>3, <2>4, <2>6 DEF Overlap, Earliest
  <2> QED
    BY <2>5, <2>6
<1> QED
  BY <1>1, <1>3 DEF DeclinedAround

LEMMA ReceiveRequestInv ==
    ASSUME VInv, NEW c \in Calls, ReceiveRequest(c)
    PROVE  VInv'
<1>0. PICK l \in published, s \in Times : \E a \in accepted[l] :
          call' = [call EXCEPT ![c] = [pc |-> "agent", listing |-> l, agent |-> a, at |-> s]]
  BY DEF ReceiveRequest
<1>1. PICK a \in accepted[l] :
          call' = [call EXCEPT ![c] = [pc |-> "agent", listing |-> l, agent |-> a, at |-> s]]
  BY <1>0
<1> DEFINE k == [pc |-> "agent", listing |-> l, agent |-> a, at |-> s]
<1>2. l \in Listings /\ a \in Agents
  BY DEF VInv, ToldInv, ViewingsTypeOK
<1>3. s \in Nat
  BY DEF Times
<1>4. k \in Asked /\ k.pc = "agent"
  BY <1>2, <1>3 DEF Asked
<1> HIDE DEF k
<1>5. ToldInv'
  BY <1>1, <1>4, QuietToldInv DEF VInv, ReceiveRequest, k
<1>6. BookedInv'
  BY <1>1, <1>4, QuietBookedInv DEF VInv, ReceiveRequest, k
<1> QED
  BY <1>5, <1>6 DEF VInv

LEMMA DeriveSlotsInv ==
    ASSUME VInv, NEW c \in Calls, DeriveSlots(c)
    PROVE  VInv'
<1>1. PICK a \in accepted[call[c].listing] :
          /\ call[c].at \in buildSlots(a)
          /\ call' = [call EXCEPT ![c] =
                        [pc |-> "offered", listing |-> call[c].listing, agent |-> call[c].agent,
                         at |-> call[c].at, known |-> Len(viewings), offeredBy |-> a]]
  BY DEF DeriveSlots
<1> DEFINE k == [pc |-> "offered", listing |-> call[c].listing, agent |-> call[c].agent,
                 at |-> call[c].at, known |-> Len(viewings), offeredBy |-> a]
<1>2. call[c] \in Asked
  BY DEF DeriveSlots, VInv, ToldInv, NoViewingCall, Offered, Unclashed, Answering
<1>3. a \in Agents /\ Len(viewings) \in Nat
  BY <1>2, LenProperties DEF VInv, ToldInv, ViewingsTypeOK, Asked
<1>4. DeclinedAround(a, call[c].at, Len(viewings))
  BY <1>1, <1>3, OffersKeepClear DEF VInv
<1>5. /\ k \in Offered /\ k.pc = "offered" /\ k.known <= Len(viewings)
      /\ DeclinedAround(k.offeredBy, k.at, k.known)
  BY <1>2, <1>3, <1>4 DEF Asked, Offered
<1>6. call' = [call EXCEPT ![c] = k]
  BY <1>1
<1>7. UNCHANGED <<clock, windows, accepted, published, viewings, notices>>
  BY DEF DeriveSlots
<1> HIDE DEF k
<1>8. ToldInv'
  BY <1>5, <1>6, <1>7, QuietToldInv DEF VInv
<1>9. BookedInv'
  BY <1>5, <1>6, <1>7, QuietBookedInv DEF VInv
<1> QED
  BY <1>8, <1>9 DEF VInv

LEMMA LookForClashInv ==
    ASSUME VInv, NEW c \in Calls, LookForClash(c)
    PROVE  VInv'
<1> DEFINE k == [pc |-> "free", listing |-> call[c].listing, agent |-> call[c].agent,
                 at |-> call[c].at, known |-> call[c].known, offeredBy |-> call[c].offeredBy,
                 checked |-> Len(viewings)]
<1>1. call[c] \in Offered
  BY DEF LookForClash, VInv, ToldInv, NoViewingCall, Asked, Unclashed, Answering
<1>2. call' = [call EXCEPT ![c] = k]
  BY DEF LookForClash
<1>3. Len(viewings) \in Nat
  BY LenProperties DEF VInv, ToldInv
<1>4. DeclinedAt(call[c].agent, call[c].at, Len(viewings))
  <2>1. ASSUME NEW i \in DOMAIN viewings, viewings[i].agent = call[c].agent,
               viewings[i].at = call[c].at
        PROVE  viewings[i].declined
    <3>1. viewings[i].status \notin BLOCKING_STATUSES
      BY <2>1 DEF LookForClash, Clash, Blocking
    <3>2. viewings[i] \in Viewing
      BY DEF VInv, ToldInv
    <3> QED
      BY <3>1, <3>2 DEF VInv, BookedInv, Viewing, ViewingStatus, BLOCKING_STATUSES
  <2> QED
    BY <2>1 DEF DeclinedAt
<1>5. /\ k \in Unclashed /\ k.pc = "free" /\ k.checked <= Len(viewings)
      /\ DeclinedAt(k.agent, k.at, k.checked)
  BY <1>1, <1>3, <1>4 DEF Offered, Unclashed
<1>6. k.known <= Len(viewings) /\ DeclinedAround(k.offeredBy, k.at, k.known)
  BY DEF LookForClash, VInv, BookedInv
<1>7. UNCHANGED <<clock, windows, accepted, published, viewings, notices>>
  BY DEF LookForClash
<1> HIDE DEF k
<1>8. ToldInv'
  BY <1>2, <1>5, <1>7, QuietToldInv DEF VInv
<1>9. BookedInv'
  BY <1>2, <1>5, <1>6, <1>7, QuietBookedInv DEF VInv
<1> QED
  BY <1>8, <1>9 DEF VInv

LEMMA ReadRespondInv ==
    ASSUME VInv, NEW c \in Calls, ReadRespond(c)
    PROVE  VInv'
<1>1. PICK i \in DOMAIN viewings, answer \in {"CONFIRMED", "CANCELLED"} :
          call' = [call EXCEPT ![c] = [pc |-> "answer", viewing |-> i, answer |-> answer]]
  BY DEF ReadRespond
<1> DEFINE k == [pc |-> "answer", viewing |-> i, answer |-> answer]
<1>2. i \in Nat
  BY DEF VInv, ToldInv
<1>3. k \in Answering /\ k.pc = "answer" /\ k.viewing \in DOMAIN viewings
  BY <1>2 DEF Answering
<1>4. UNCHANGED <<clock, windows, accepted, published, viewings, notices>>
      /\ call' = [call EXCEPT ![c] = k]
  BY <1>1 DEF ReadRespond
<1> HIDE DEF k
<1>5. ToldInv'
  BY <1>3, <1>4, QuietToldInv DEF VInv
<1>6. BookedInv'
  BY <1>3, <1>4, QuietBookedInv DEF VInv
<1> QED
  BY <1>5, <1>6 DEF VInv

LEMMA RefuseInv ==
    ASSUME VInv, NEW c \in Calls, Refuse(c)
    PROVE  VInv'
<1>1. NoViewingCall.pc = "idle"
  BY DEF NoViewingCall
<1>2. /\ UNCHANGED <<clock, windows, accepted, published, viewings, notices>>
      /\ call' = [call EXCEPT ![c] = NoViewingCall]
  BY DEF Refuse
<1>3. ToldInv'
  BY <1>1, <1>2, QuietToldInv DEF VInv
<1>4. BookedInv'
  BY <1>1, <1>2, QuietBookedInv DEF VInv
<1> QED
  BY <1>3, <1>4 DEF VInv

\* A call that writes is over, and what the others rely on stays.
LEMMA WrittenBookedInv ==
    ASSUME VInv, ToldInv', Grown, NEW c \in Calls, call' = [call EXCEPT ![c] = NoViewingCall],
           Len(viewings') >= Len(viewings),
           \A i \in DOMAIN viewings' :
              /\ viewings'[i].status = "REQUESTED" => ~viewings'[i].declined
              /\ viewings'[i].status = "CANCELLED" => viewings'[i].declined
              /\ i \in DOMAIN viewings \/
                   /\ viewings'[i].known < i /\ viewings'[i].checked < i
                   /\ viewings'[i].known <= Len(viewings) /\ viewings'[i].checked <= Len(viewings)
                   /\ DeclinedAround(viewings'[i].offeredBy, viewings'[i].at, viewings'[i].known)
                   /\ DeclinedAt(viewings'[i].agent, viewings'[i].at, viewings'[i].checked)
    PROVE  BookedInv'
<1>1. /\ viewings \in Seq(Viewing) /\ viewings' \in Seq(Viewing)
      /\ Len(viewings) \in Nat /\ Len(viewings') \in Nat
  BY LenProperties DEF VInv, ToldInv
<1>2. ASSUME NEW a, NEW s, NEW n \in Nat, n <= Len(viewings)
      PROVE  /\ DeclinedAround(a, s, n) => DeclinedAround(a, s, n)'
             /\ DeclinedAt(a, s, n) => DeclinedAt(a, s, n)'
  BY <1>1, <1>2, StaysDeclined
<1>3. ASSUME NEW i \in DOMAIN viewings'
      PROVE  /\ viewings'[i].known < i /\ viewings'[i].checked < i
             /\ DeclinedAround(viewings[i].offeredBy, viewings[i].at, viewings[i].known)'
             /\ DeclinedAt(viewings[i].agent, viewings[i].at, viewings[i].checked)'
  <2>1. viewings'[i] \in Viewing /\ i \in Nat
    BY <1>1
  <2>2. PICK v \in Viewing : v = viewings'[i]
    BY <2>1
  <2>3. v.known \in Nat /\ v.checked \in Nat
    BY DEF Viewing
  <2>4. /\ v.known < i /\ v.checked < i
        /\ v.known <= Len(viewings) /\ v.checked <= Len(viewings)
        /\ DeclinedAround(v.offeredBy, v.at, v.known)
        /\ DeclinedAt(v.agent, v.at, v.checked)
    <3>1. CASE i \in DOMAIN viewings
      <4>1. i <= Len(viewings)
        BY <1>1, <3>1
      <4>2. /\ viewings[i].known = v.known /\ viewings[i].checked = v.checked
            /\ viewings[i].offeredBy = v.offeredBy /\ viewings[i].at = v.at
            /\ viewings[i].agent = v.agent
        BY <2>2, <3>1 DEF Grown
      <4> QED
        BY <1>1, <2>1, <2>3, <3>1, <4>1, <4>2 DEF VInv, BookedInv
    <3>2. CASE i \notin DOMAIN viewings
      BY <2>2, <3>2
    <3> QED
      BY <3>1, <3>2
  <2>5. DeclinedAround(v.offeredBy, v.at, v.known)' /\ DeclinedAt(v.agent, v.at, v.checked)'
    BY <1>2, <2>3, <2>4
  <2> QED
    BY <2>2, <2>4, <2>5
<1>4. ASSUME NEW d \in Calls, call'[d].pc \in {"offered", "free"}
      PROVE  /\ call'[d].known <= Len(viewings')
             /\ DeclinedAround(call[d].offeredBy, call[d].at, call[d].known)'
             /\ call'[d].pc = "free" =>
                  /\ call'[d].checked <= Len(viewings')
                  /\ DeclinedAt(call[d].agent, call[d].at, call[d].checked)'
  <2>1. call'[d] = call[d]
    BY <1>4 DEF VInv, ToldInv, ViewingsTypeOK, NoViewingCall
  <2>2. PICK k : k = call[d]
    OBVIOUS
  <2>3. k \in Offered \union Unclashed
    BY <1>4, <2>1, <2>2 DEF VInv, ToldInv, NoViewingCall, Asked, Answering
  <2>4. k.known \in Nat /\ (k.pc = "free" => k.checked \in Nat)
    BY <2>3 DEF Offered, Unclashed
  <2>5. /\ k.known <= Len(viewings) /\ DeclinedAround(k.offeredBy, k.at, k.known)
        /\ k.pc = "free" => k.checked <= Len(viewings) /\ DeclinedAt(k.agent, k.at, k.checked)
    BY <1>4, <2>1, <2>2 DEF VInv, BookedInv
  <2>6. /\ DeclinedAround(k.offeredBy, k.at, k.known)'
        /\ k.pc = "free" => DeclinedAt(k.agent, k.at, k.checked)'
    BY <1>2, <2>4, <2>5
  <2> QED
    BY <1>1, <2>1, <2>2, <2>4, <2>5, <2>6
<1> QED
  BY <1>3, <1>4 DEF BookedInv

LEMMA BookInv ==
    ASSUME VInv, NEW c \in Calls, Book(c)
    PROVE  VInv'
<1> DEFINE v == [listing |-> call[c].listing, agent |-> call[c].agent, at |-> call[c].at,
                 status |-> "REQUESTED", known |-> call[c].known,
                 checked |-> call[c].checked, offeredBy |-> call[c].offeredBy,
                 declined |-> FALSE]
           n == Len(viewings)
<1>1. call[c] \in Unclashed
  BY DEF Book, VInv, ToldInv, NoViewingCall, Asked, Offered, Answering
<1>2. /\ viewings' = Append(viewings, v) /\ notices' = Append(notices, "REQUESTED")
      /\ call' = [call EXCEPT ![c] = NoViewingCall]
      /\ UNCHANGED <<clock, windows, accepted, published>>
  BY DEF Book
<1>3. /\ v \in Viewing /\ v.status = "REQUESTED" /\ v.declined = FALSE
      /\ v.known = call[c].known /\ v.checked = call[c].checked /\ v.at = call[c].at
      /\ v.agent = call[c].agent /\ v.offeredBy = call[c].offeredBy
  BY <1>1 DEF Unclashed, Viewing, ViewingStatus
<1>4. /\ viewings \in Seq(Viewing) /\ notices \in Seq(ViewingStatus)
      /\ Len(notices) = n /\ n \in Nat
  BY LenProperties DEF VInv, ToldInv, ViewingsTypeOK
<1> HIDE DEF v
<1>5. /\ viewings' \in Seq(Viewing) /\ Len(viewings') = n + 1
      /\ viewings'[n + 1] = v /\ \A i \in 1..n : viewings'[i] = viewings[i]
  BY <1>2, <1>3, <1>4, AppendProperties
<1>6. /\ notices' \in Seq(ViewingStatus) /\ Len(notices') = n + 1
      /\ notices'[n + 1] = "REQUESTED" /\ \A i \in 1..n : notices'[i] = notices[i]
  BY <1>2, <1>4, AppendProperties DEF ViewingStatus
<1>7. DOMAIN viewings = 1..n /\ DOMAIN viewings' = 1..(n + 1)
  BY <1>4, <1>5, LenProperties
<1>8. \A i \in 1..(n + 1) : i \in 1..n \/ i = n + 1
  BY <1>4
<1>9. \A d \in Calls : call'[d] = NoViewingCall \/ call'[d] = call[d]
  BY <1>2 DEF VInv, ToldInv, ViewingsTypeOK
<1>10. ToldInv'
  <2>1. \A i \in DOMAIN viewings' : viewings'[i] \in Viewing /\ notices'[i] = viewings'[i].status
    BY <1>3, <1>5, <1>6, <1>7, <1>8 DEF VInv, ToldInv, ViewingsTypeOK, LastNoticeIsTrue
  <2>2. ViewingsTypeOK'
    BY <1>2, <1>5, <1>6, <2>1 DEF VInv, ToldInv, ViewingsTypeOK
  <2>3. \A d \in Calls :
           /\ call'[d] \in {NoViewingCall} \union Asked \union Offered \union Unclashed
                              \union Answering
           /\ call'[d].pc = "answer" => call'[d].viewing \in DOMAIN viewings'
    BY <1>7, <1>9 DEF VInv, ToldInv, NoViewingCall
  <2> QED
    BY <1>5, <2>1, <2>2, <2>3 DEF ToldInv, LastNoticeIsTrue
<1>11. Grown
  BY <1>4, <1>5, <1>7 DEF Grown
<1>12. /\ call[c].known <= n /\ DeclinedAround(call[c].offeredBy, call[c].at, call[c].known)
       /\ call[c].checked <= n /\ DeclinedAt(call[c].agent, call[c].at, call[c].checked)
  BY DEF Book, VInv, BookedInv
<1>13. call[c].known < n + 1 /\ call[c].checked < n + 1
  BY <1>1, <1>4, <1>12 DEF Unclashed
<1>14. ASSUME NEW i \in DOMAIN viewings'
       PROVE  /\ viewings'[i].status = "REQUESTED" => ~viewings'[i].declined
              /\ viewings'[i].status = "CANCELLED" => viewings'[i].declined
              /\ i \in DOMAIN viewings \/
                   /\ viewings'[i].known < i /\ viewings'[i].checked < i
                   /\ viewings'[i].known <= Len(viewings) /\ viewings'[i].checked <= Len(viewings)
                   /\ DeclinedAround(viewings'[i].offeredBy, viewings'[i].at, viewings'[i].known)
                   /\ DeclinedAt(viewings'[i].agent, viewings'[i].at, viewings'[i].checked)
  <2>1. CASE i \in 1..n
    BY <1>5, <1>7, <2>1 DEF VInv, BookedInv
  <2>2. CASE i = n + 1
    BY <1>3, <1>5, <1>12, <1>13, <2>2
  <2> QED
    BY <1>7, <1>8, <2>1, <2>2
<1>15. Len(viewings') >= Len(viewings)
  BY <1>4, <1>5
<1>16. BookedInv'
  BY <1>2, <1>10, <1>11, <1>14, <1>15, WrittenBookedInv
<1> QED
  BY <1>10, <1>16 DEF VInv

LEMMA RespondInv ==
    ASSUME VInv, NEW c \in Calls, Respond(c)
    PROVE  VInv'
<1>1. call[c] \in Answering /\ call[c].viewing \in DOMAIN viewings
  BY DEF Respond, VInv, ToldInv, NoViewingCall, Asked, Offered, Unclashed
<1>2. PICK i \in DOMAIN viewings, answer \in {"CONFIRMED", "CANCELLED"} :
          i = call[c].viewing /\ answer = call[c].answer
  BY <1>1 DEF Answering
<1>3. /\ viewings \in Seq(Viewing) /\ notices \in Seq(ViewingStatus)
      /\ Len(notices) = Len(viewings) /\ viewings[i] \in Viewing
      /\ viewings \in [1..Len(viewings) -> Viewing] /\ notices \in [1..Len(viewings) -> ViewingStatus]
      /\ Len(viewings) \in Nat /\ i \in 1..Len(viewings)
  BY LenProperties DEF VInv, ToldInv, ViewingsTypeOK
<1> DEFINE gone == viewings[i].declined \/ answer = "CANCELLED"
<1>4. gone \in BOOLEAN /\ (answer = "CANCELLED" => gone) /\ (viewings[i].declined => gone)
  BY <1>3 DEF Viewing
<1>5. viewings' = [viewings EXCEPT ![i] = [viewings[i] EXCEPT !.status = answer, !.declined = gone]]
  BY <1>2, <1>3 DEF Respond
<1> HIDE DEF gone
<1> DEFINE v == [viewings[i] EXCEPT !.status = answer, !.declined = gone]
<1>6. /\ v \in Viewing /\ v.status = answer /\ v.declined = gone
      /\ v.agent = viewings[i].agent /\ v.at = viewings[i].at /\ v.known = viewings[i].known
      /\ v.checked = viewings[i].checked /\ v.offeredBy = viewings[i].offeredBy
  BY <1>3, <1>4 DEF Viewing, ViewingStatus
<1>7. /\ viewings' = [viewings EXCEPT ![i] = v] /\ notices' = [notices EXCEPT ![i] = answer]
      /\ call' = [call EXCEPT ![c] = NoViewingCall]
      /\ UNCHANGED <<clock, windows, accepted, published>>
  BY <1>2, <1>5 DEF Respond
<1> HIDE DEF v
<1>8. /\ viewings' \in [1..Len(viewings) -> Viewing] /\ viewings'[i] = v
      /\ \A j \in 1..Len(viewings) : j # i => viewings'[j] = viewings[j]
  BY <1>3, <1>6, <1>7
<1>9. /\ notices' \in [1..Len(viewings) -> ViewingStatus] /\ notices'[i] = answer
      /\ \A j \in 1..Len(viewings) : j # i => notices'[j] = notices[j]
  BY <1>3, <1>7 DEF ViewingStatus
<1>10. /\ viewings' \in Seq(Viewing) /\ notices' \in Seq(ViewingStatus)
       /\ Len(viewings') = Len(viewings) /\ Len(notices') = Len(viewings)
       /\ DOMAIN viewings' = DOMAIN viewings /\ DOMAIN viewings = 1..Len(viewings)
  <2>1. viewings' \in Seq(Viewing) /\ Len(viewings') = Len(viewings)
    BY <1>3, <1>6, <1>7, ExceptSeq
  <2>2. notices' \in Seq(ViewingStatus) /\ Len(notices') = Len(viewings)
    BY <1>3, <1>7, ExceptSeq DEF ViewingStatus
  <2> QED
    BY <1>3, <1>8, <2>1, <2>2
<1>11. \A d \in Calls : call'[d] = NoViewingCall \/ call'[d] = call[d]
  BY <1>7 DEF VInv, ToldInv, ViewingsTypeOK
<1>12. ToldInv'
  <2>1. \A j \in DOMAIN viewings' : viewings'[j] \in Viewing /\ notices'[j] = viewings'[j].status
    BY <1>6, <1>8, <1>9, <1>10 DEF VInv, ToldInv, LastNoticeIsTrue
  <2>2. ViewingsTypeOK'
    BY <1>7, <1>10, <2>1 DEF VInv, ToldInv, ViewingsTypeOK
  <2>3. \A d \in Calls :
           /\ call'[d] \in {NoViewingCall} \union Asked \union Offered \union Unclashed
                              \union Answering
           /\ call'[d].pc = "answer" => call'[d].viewing \in DOMAIN viewings'
    BY <1>10, <1>11 DEF VInv, ToldInv, NoViewingCall
  <2> QED
    BY <1>10, <2>1, <2>2, <2>3 DEF ToldInv, LastNoticeIsTrue
<1>13. Grown
  BY <1>4, <1>6, <1>8, <1>10 DEF Grown
<1>14. \A j \in DOMAIN viewings' :
          /\ viewings'[j].status = "REQUESTED" => ~viewings'[j].declined
          /\ viewings'[j].status = "CANCELLED" => viewings'[j].declined
          /\ j \in DOMAIN viewings
  BY <1>4, <1>6, <1>8, <1>10 DEF VInv, BookedInv
<1>15. Len(viewings') >= Len(viewings)
  BY <1>3, <1>10
<1>16. BookedInv'
  BY <1>7, <1>12, <1>13, <1>14, <1>15, WrittenBookedInv
<1> QED
  BY <1>12, <1>16 DEF VInv

LEMMA AroundInv ==
    ASSUME VInv, UNCHANGED <<viewings, notices, call>>, ViewingsTypeOK'
    PROVE  VInv'
BY DEF VInv, ToldInv, BookedInv, LastNoticeIsTrue, DeclinedAround, DeclinedAt

LEMMA NextVInv == VInv /\ [ViewingsNext]_viewingVars => VInv'
<1> SUFFICES ASSUME VInv, [ViewingsNext]_viewingVars PROVE VInv'
  OBVIOUS
<1>1. ViewingsTypeOK
  BY DEF VInv, ToldInv
<1>2. ASSUME NEW c \in Calls, ViewingStep(c) PROVE VInv'
  BY <1>2, ReceiveRequestInv, DeriveSlotsInv, LookForClashInv, BookInv, ReadRespondInv,
     RespondInv, RefuseInv DEF ViewingStep
<1>3. CASE Tick
  BY <1>1, <1>3, AroundInv DEF Tick, ViewingsTypeOK
<1>4. ASSUME NEW a \in Editors, SetAvailability(a) PROVE VInv'
  <2>1. windows' \in [Agents -> SUBSET Window]
    BY <1>1, <1>4 DEF SetAvailability, ViewingsTypeOK
  <2> QED
    BY <1>1, <1>4, <2>1, AroundInv DEF SetAvailability, ViewingsTypeOK
<1>5. ASSUME NEW l \in Listings, Withdraw(l) PROVE VInv'
  BY <1>1, <1>5, AroundInv DEF Withdraw, ViewingsTypeOK
<1>6. ASSUME NEW l \in Listings, NEW a \in Agents, AcceptAssignment(l, a) PROVE VInv'
  <2>1. accepted' \in [Listings -> SUBSET Agents]
    BY <1>1, <1>6 DEF AcceptAssignment, ViewingsTypeOK
  <2> QED
    BY <1>1, <1>6, <2>1, AroundInv DEF AcceptAssignment, ViewingsTypeOK
<1>7. CASE UNCHANGED viewingVars
  BY <1>1, <1>7, AroundInv DEF viewingVars, ViewingsTypeOK
<1> QED
  BY <1>2, <1>3, <1>4, <1>5, <1>6, <1>7 DEF ViewingsNext

LEMMA InitVInv == ViewingsInit => VInv
<1> SUFFICES ASSUME ViewingsInit PROVE VInv
  OBVIOUS
<1>1. /\ viewings = << >> /\ notices = << >> /\ clock = 0
      /\ \A c \in Calls : call[c] = NoViewingCall
      /\ viewings \in Seq(Viewing) /\ notices \in Seq(ViewingStatus)
      /\ DOMAIN viewings = {} /\ Len(viewings) = 0
  BY DEF ViewingsInit
<1>2. ViewingsTypeOK
  <2>1. windows \in [Agents -> SUBSET Window]
    BY DEF ViewingsInit
  <2>2. accepted \in [Listings -> SUBSET Agents]
    BY ViewingsAssumption DEF ViewingsInit
  <2>3. clock \in Instants
    BY <1>1, ViewingsAssumption
  <2>4. published \subseteq Listings /\ DOMAIN call = Calls
    BY DEF ViewingsInit
  <2> QED
    BY <1>1, <2>1, <2>2, <2>3, <2>4 DEF ViewingsTypeOK
<1>3. ToldInv
  BY <1>1, <1>2 DEF ToldInv, NoViewingCall, LastNoticeIsTrue
<1>4. BookedInv
  BY <1>1 DEF BookedInv, NoViewingCall
<1> QED
  BY <1>3, <1>4 DEF VInv

LEMMA AlwaysVInv == ViewingsSpec => []VInv
BY InitVInv, NextVInv, PTL DEF ViewingsSpec

(***************************************************************************)
(* Every variable of the viewings keeps its type.                          *)
(***************************************************************************)
THEOREM ViewingsTypeCorrect == ViewingsSpec => []ViewingsTypeOK
<1>1. VInv => ViewingsTypeOK
  BY DEF VInv, ToldInv
<1> QED
  BY <1>1, AlwaysVInv, PTL

(***************************************************************************)
(* Whatever answers overlap, the buyer's last notice is what the row says. *)
(***************************************************************************)
THEOREM NoticeCorrect == ViewingsSpec => []LastNoticeIsTrue
<1>1. VInv => LastNoticeIsTrue
  BY DEF VInv, ToldInv
<1> QED
  BY <1>1, AlwaysVInv, PTL

(***************************************************************************)
(* Two viewings of an agent overlap only by one of the three races, for    *)
(* every number of buyers, agents, listings and overlapping calls.         *)
(***************************************************************************)
THEOREM BookingCorrect == ViewingsSpec => []OverlapsWereRaces
<1>1. ASSUME VInv PROVE OverlapsWereRaces
  <2> SUFFICES ASSUME NEW i \in DOMAIN viewings, NEW j \in DOMAIN viewings,
                      i < j, viewings[i].agent = viewings[j].agent,
                      {viewings[i].status, viewings[j].status} \subseteq BLOCKING_STATUSES,
                      Overlap(viewings[i].at, viewings[j].at), ~TakenBack(viewings[i])
               PROVE  /\ \/ viewings[j].known < i
                         \/ viewings[j].offeredBy # viewings[j].agent
                      /\ viewings[i].at = viewings[j].at => viewings[j].checked < i
    BY DEF OverlapsWereRaces
  <2>1. viewings[i] \in Viewing /\ viewings[j] \in Viewing /\ i \in Nat
    BY <1>1 DEF VInv, ToldInv
  <2>2. ~viewings[i].declined
    BY <1>1, <2>1 DEF VInv, BookedInv, TakenBack, BLOCKING_STATUSES
  <2>3. /\ DeclinedAround(viewings[j].offeredBy, viewings[j].at, viewings[j].known)
        /\ DeclinedAt(viewings[j].agent, viewings[j].at, viewings[j].checked)
    BY <1>1 DEF VInv, BookedInv
  <2>4. viewings[j].known \in Nat /\ viewings[j].checked \in Nat
    BY <2>1 DEF Viewing
  <2> QED
    BY <2>1, <2>2, <2>3, <2>4 DEF DeclinedAround, DeclinedAt
<1> QED
  BY <1>1, AlwaysVInv, PTL

----------------------------------------------------------------------------
(***************************************************************************)
(* The merged windows.  The fold of mergeWindows is a function defined by  *)
(* recursion over the subsets of the schedule.  That there is one, and     *)
(* what it returns, is shown by looking at a smallest set for which it     *)
(* were otherwise.                                                         *)
(***************************************************************************)
LEMMA SmallestSet ==
    ASSUME NEW W, IsFiniteSet(W), NEW B, B \subseteq SUBSET W, B # {}
    PROVE  \E s \in B : \A t \in B : t \subseteq s => t = s
<1>1. IsWellFoundedOn(StrictSubsetOrdering(W), FiniteSubsetsOf(W))
  BY FS_StrictSubsetOrderingWellFounded
<1>2. B \subseteq FiniteSubsetsOf(W)
  BY FS_Subset DEF FiniteSubsetsOf
<1>3. PICK s \in B : \A t \in B : ~(<<t, s>> \in StrictSubsetOrdering(W))
  BY <1>1, <1>2, WFMin
<1>4. ASSUME NEW t \in B, t \subseteq s, t # s PROVE FALSE
  <2>1. <<t, s>> \in StrictSubsetOrdering(W)
    BY <1>4 DEF StrictSubsetOrdering
  <2> QED
    BY <1>3, <2>1
<1> QED
  BY <1>4

LEMMA LatestIn ==
    ASSUME NEW W \in SUBSET Window, IsFiniteSet(W), W # {}
    PROVE  Latest(W) \in W
<1> DEFINE B == {s \in SUBSET W : s # {} /\ \A w \in s : \E v \in s : ~(v.start <= w.start)}
<1>1. \A w \in Window : w.start \in Nat
  BY ViewingsAssumption DEF Window
<1>2. CASE B # {}
  <2>1. PICK s \in B : \A t \in B : t \subseteq s => t = s
    <3>1. B \subseteq SUBSET W
      OBVIOUS
    <3> HIDE DEF B
    <3> QED
      BY <1>2, <3>1, SmallestSet
  <2>2. PICK x \in s : TRUE
    OBVIOUS
  <2>3. s \ {x} \notin B /\ s \ {x} \in SUBSET W
    BY <2>1, <2>2
  <2>4. CASE s \ {x} = {}
    BY <1>1, <2>2, <2>4
  <2>5. CASE s \ {x} # {}
    <3>1. PICK m \in s \ {x} : \A v \in s \ {x} : v.start <= m.start
      BY <2>3, <2>5
    <3>2. m.start \in Nat /\ x.start \in Nat /\ \A v \in s : v.start \in Nat
      BY <1>1
    <3>3. CASE x.start <= m.start
      BY <3>1, <3>2, <3>3
    <3>4. CASE ~(x.start <= m.start)
      <4>1. \A v \in s : v.start <= x.start
        BY <3>1, <3>2, <3>4
      <4> QED
        BY <2>2, <4>1
    <3> QED
      BY <3>3, <3>4
  <2> QED
    BY <2>4, <2>5
<1>3. CASE B = {}
  <2>1. \E w \in W : \A v \in W : v.start <= w.start
    BY <1>3
  <2> QED
    BY <2>1 DEF Latest
<1> QED
  BY <1>2, <1>3

\* One step of the fold, and the functions that take it for every subset of W.
Body(g, s) ==
    IF s = {} THEN << >> ELSE MergeInto(Latest(s), g[s \ {Latest(s)}])

Folding(g, W) == g = [s \in SUBSET W |-> Body(g, s)]

\* Two such functions agree where both are defined.
LEMMA FoldingsAgree ==
    ASSUME NEW S \in SUBSET Window, NEW T \in SUBSET Window, IsFiniteSet(S),
           NEW g, NEW h, Folding(g, S), Folding(h, T),
           NEW s, s \subseteq S, s \subseteq T
    PROVE  g[s] = h[s]
<1> DEFINE B == {t \in SUBSET S : t \subseteq T /\ g[t] # h[t]}
<1>1. CASE B # {}
  <2>1. PICK t \in B : \A u \in B : u \subseteq t => u = t
    <3>1. B \subseteq SUBSET S
      OBVIOUS
    <3> HIDE DEF B
    <3> QED
      BY <1>1, <3>1, SmallestSet
  <2>2. g[t] = Body(g, t) /\ h[t] = Body(h, t)
    BY DEF Folding
  <2>3. CASE t = {}
    BY <2>2, <2>3 DEF Body
  <2>4. CASE t # {}
    <3>1. Latest(t) \in t
      BY <2>4, LatestIn, FS_Subset
    <3>2. t \ {Latest(t)} \notin B
      BY <2>1, <3>1
    <3>3. g[t \ {Latest(t)}] = h[t \ {Latest(t)}]
      BY <3>2
    <3> QED
      BY <2>2, <2>4, <3>3 DEF Body
  <2> QED
    BY <2>3, <2>4
<1> QED
  BY <1>1

LEMMA FoldingExists ==
    ASSUME NEW W \in SUBSET Window, IsFiniteSet(W)
    PROVE  \E g : Folding(g, W)
<1> DEFINE B == {T \in SUBSET W : ~ \E g : Folding(g, T)}
<1>1. ASSUME B # {} PROVE FALSE
  <2>1. PICK T \in B : \A u \in B : u \subseteq T => u = T
    <3>1. B \subseteq SUBSET W
      OBVIOUS
    <3> HIDE DEF B
    <3> QED
      BY <1>1, <3>1, SmallestSet
  <2> DEFINE G(t) == CHOOSE g : Folding(g, t)
  <2>2. ASSUME NEW t \in SUBSET T, t # T
        PROVE  Folding(G(t), t)
    BY <2>1, <2>2
  <2>3. IsFiniteSet(T) /\ T \in SUBSET Window /\ \A t \in SUBSET T : IsFiniteSet(t)
    BY FS_Subset
  <2>4. \A t \in SUBSET T : t # {} => Latest(t) \in t
    BY <2>3, LatestIn
  <2> HIDE DEF G
  <2> DEFINE h == [s \in SUBSET T |->
                     IF s # T THEN G(s)[s]
                     ELSE IF T = {} THEN << >>
                     ELSE MergeInto(Latest(T), G(T \ {Latest(T)})[T \ {Latest(T)}])]
  <2>5. ASSUME NEW s \in SUBSET T PROVE h[s] = Body(h, s)
    <3>1. CASE s = {}
      <4>1. CASE s = T
        BY <3>1, <4>1 DEF Body
      <4>2. CASE s # T
        <5>1. Folding(G(s), s) /\ h[s] = G(s)[s]
          BY <2>2, <4>2
        <5>2. G(s)[s] = Body(G(s), s)
          BY <5>1 DEF Folding
        <5> QED
          BY <3>1, <5>1, <5>2 DEF Body
      <4> QED
        BY <4>1, <4>2
    <3>2. CASE s # {}
      <4> DEFINE r == s \ {Latest(s)}
      <4>1. Latest(s) \in s /\ r \in SUBSET T /\ r # T /\ r \subseteq s
        BY <2>4, <3>2
      <4>2. h[r] = G(r)[r] /\ Folding(G(r), r)
        BY <2>2, <4>1
      <4>3. Body(h, s) = MergeInto(Latest(s), G(r)[r])
        BY <3>2, <4>2 DEF Body
      <4>4. CASE s = T
        BY <3>2, <4>3, <4>4
      <4>5. CASE s # T
        <5>1. Folding(G(s), s) /\ h[s] = G(s)[s]
          BY <2>2, <4>5
        <5>2. G(s)[s] = Body(G(s), s)
          BY <5>1 DEF Folding
        <5>3. Body(G(s), s) = MergeInto(Latest(s), G(s)[r])
          BY <3>2 DEF Body
        <5>4. s \in SUBSET Window /\ r \in SUBSET Window /\ IsFiniteSet(s)
          BY <2>3, <4>1
        <5>5. G(s)[r] = G(r)[r]
          <6>1. PICK g1, g2, q : g1 = G(s) /\ g2 = G(r) /\ q = r
            OBVIOUS
          <6>2. /\ Folding(g1, s) /\ Folding(g2, q) /\ q \subseteq s
                /\ s \in SUBSET Window /\ q \in SUBSET Window /\ IsFiniteSet(s)
            BY <4>1, <4>2, <5>1, <5>4, <6>1
          <6>3. g1[q] = g2[q]
            BY <6>2, FoldingsAgree
          <6> QED
            BY <6>1, <6>3
        <5> QED
          BY <4>3, <5>1, <5>2, <5>3, <5>5
      <4> QED
        BY <4>4, <4>5
    <3> QED
      BY <3>1, <3>2
  <2>6. h = [s \in SUBSET T |-> h[s]]
    OBVIOUS
  <2> HIDE DEF h
  <2>7. Folding(h, T)
    BY <2>5, <2>6 DEF Folding
  <2> QED
    BY <2>7
<1>2. W \notin B
  BY <1>1
<1> QED
  BY <1>2

LEMMA MergeIsFolding ==
    ASSUME NEW W \in SUBSET Window, IsFiniteSet(W)
    PROVE  \E g : Folding(g, W) /\ mergeWindows(W) = g[W]
<1>1. PICK g : g = CHOOSE f : f = [s \in SUBSET W |-> Body(f, s)]
  OBVIOUS
<1>2. Folding(g, W)
  BY <1>1, FoldingExists DEF Folding
<1>3. mergeWindows(W) = g[W]
  BY <1>1 DEF mergeWindows, MapThenFoldSet, Body
<1> QED
  BY <1>2, <1>3

\* What holds of merged windows: they stand in order, none touches the next,
\* and at every minute of one of them the agent is available.
Span == [start : Nat, end : Nat]

Apart(m) ==
    /\ \A i \in DOMAIN m : m[i].start <= m[i].end
    /\ \A i, j \in DOMAIN m : i < j => m[i].end < m[j].start

Covered(m, ws) ==
    \A i \in DOMAIN m : \A x \in Nat :
        m[i].start <= x /\ x < m[i].end => \E w \in ws : w.start <= x /\ x < w.end

LEMMA MergeIntoKeeps ==
    ASSUME NEW m \in Seq(Span), NEW ws, NEW w \in Window, Apart(m), Covered(m, ws)
    PROVE  /\ MergeInto(w, m) \in Seq(Span) /\ Apart(MergeInto(w, m))
           /\ Covered(MergeInto(w, m), ws \union {w})
<1>1. w.start \in Nat /\ w.end \in Nat /\ w.start < w.end /\ w \in Span
  BY ViewingsAssumption DEF Window, Span
<1>2. Len(m) \in Nat /\ DOMAIN m = 1..Len(m) /\ \A i \in 1..Len(m) : m[i] \in Span
  BY LenProperties
<1>3. \A i \in 1..Len(m) : m[i].start \in Nat /\ m[i].end \in Nat
  BY <1>2 DEF Span
<1>4. CASE m # << >> /\ w.start <= Last(m).end
  <2>1. Len(m) \in 1..Len(m) /\ Last(m) = m[Len(m)]
    BY <1>2, <1>4, EmptySeq DEF Last
  <2>2. PICK n : n = Len(m)
    OBVIOUS
  <2>3. PICK e \in Nat : e = IF m[n].end >= w.end THEN m[n].end ELSE w.end
    BY <1>1, <1>3, <2>1, <2>2
  <2>4. PICK v : v = [m[n] EXCEPT !.end = e]
    OBVIOUS
  <2>5. v \in Span /\ v.start = m[n].start /\ v.end = e
    BY <1>2, <2>1, <2>2, <2>3, <2>4 DEF Span
  <2>6. e = Max({m[n].end, w.end})
    BY <1>1, <1>3, <2>1, <2>2, <2>3, MaxOfTwo
  <2>7. MergeInto(w, m) = [m EXCEPT ![n] = v]
    BY <1>4, <2>2, <2>4, <2>6 DEF MergeInto
  <2>8. PICK k : k = [m EXCEPT ![n] = v]
    OBVIOUS
  <2>9. /\ k \in Seq(Span) /\ Len(k) = n /\ DOMAIN k = 1..n
        /\ \A j \in 1..n : k[j] = IF j = n THEN v ELSE m[j]
    BY <2>1, <2>2, <2>5, <2>8, ExceptSeq, LenProperties
  <2>10. Apart(k)
    <3>1. ASSUME NEW i \in DOMAIN k PROVE k[i].start <= k[i].end
      <4>1. i \in 1..n /\ m[i].start <= m[i].end
        BY <1>2, <2>2, <2>9, <3>1 DEF Apart
      <4>2. m[n].start \in Nat /\ m[n].end \in Nat /\ m[n].end <= e
        BY <1>1, <1>3, <2>1, <2>2, <2>3
      <4>3. CASE i = n
        BY <2>5, <2>9, <4>1, <4>2, <4>3
      <4>4. CASE i # n
        BY <2>9, <4>1, <4>4
      <4> QED
        BY <4>3, <4>4
    <3>2. ASSUME NEW i \in DOMAIN k, NEW j \in DOMAIN k, i < j
          PROVE  k[i].end < k[j].start
      <4>1. i \in 1..n /\ j \in 1..n /\ n \in Nat
        BY <1>2, <2>2, <2>9
      <4>2. i # n /\ k[i] = m[i] /\ k[j].start = m[j].start
        BY <2>5, <2>9, <3>2, <4>1
      <4>3. m[i].end < m[j].start
        BY <1>2, <2>2, <3>2, <4>1 DEF Apart
      <4> QED
        BY <4>2, <4>3
    <3> QED
      BY <3>1, <3>2 DEF Apart
  <2>11. Covered(k, ws \union {w})
    <3> SUFFICES ASSUME NEW i \in DOMAIN k, NEW x \in Nat, k[i].start <= x, x < k[i].end
                 PROVE  \E u \in ws \union {w} : u.start <= x /\ x < u.end
      BY DEF Covered
    <3>1. CASE i # n
      BY <1>2, <2>2, <2>9, <3>1 DEF Covered
    <3>2. CASE i = n /\ x < m[n].end
      BY <1>2, <2>1, <2>2, <2>5, <2>9, <3>2 DEF Covered
    <3>3. CASE i = n /\ ~(x < m[n].end)
      <4>1. x < w.end /\ w.start <= x
        BY <1>1, <1>3, <1>4, <2>1, <2>2, <2>3, <2>5, <2>9, <3>3
      <4> QED
        BY <4>1
    <3> QED
      BY <3>1, <3>2, <3>3
  <2> QED
    BY <2>7, <2>8, <2>9, <2>10, <2>11
<1>5. CASE ~(m # << >> /\ w.start <= Last(m).end)
  <2>1. PICK k : k = Append(m, w)
    OBVIOUS
  <2>2. MergeInto(w, m) = k
    BY <1>5, <2>1 DEF MergeInto
  <2>3. PICK n \in Nat : n = Len(m)
    BY <1>2
  <2>4. /\ k \in Seq(Span) /\ DOMAIN k = 1..(n + 1) /\ k[n + 1] = w
        /\ \A j \in 1..n : k[j] = m[j]
    BY <1>1, <2>1, <2>3, AppendProperties, LenProperties
  <2>5. \A i \in 1..(n + 1) : i \in 1..n \/ i = n + 1
    OBVIOUS
  <2>6. \A i \in 1..n : m[i].end < w.start
    <3> SUFFICES ASSUME NEW i \in 1..n PROVE m[i].end < w.start
      OBVIOUS
    <3>1. n \in 1..n /\ m # << >> /\ Last(m) = m[n]
      BY <2>3, EmptySeq DEF Last
    <3>2. m[n].end < w.start /\ m[n].start <= m[n].end
      BY <1>1, <1>2, <1>3, <1>5, <2>3, <3>1 DEF Apart
    <3>3. CASE i = n
      BY <3>2, <3>3
    <3>4. CASE i # n
      <4>1. i < n
        BY <3>4
      <4>2. i \in DOMAIN m /\ n \in DOMAIN m
        BY <1>2, <2>3, <3>1
      <4>3. m[i].end < m[n].start
        BY <4>1, <4>2 DEF Apart
      <4> QED
        BY <1>1, <1>3, <2>3, <3>1, <3>2, <4>3
    <3> QED
      BY <3>3, <3>4
  <2>7. Apart(k)
    <3>1. \A i \in DOMAIN k : k[i].start <= k[i].end
      BY <1>1, <1>2, <2>3, <2>4, <2>5 DEF Apart
    <3>2. ASSUME NEW i \in DOMAIN k, NEW j \in DOMAIN k, i < j
          PROVE  k[i].end < k[j].start
      <4>1. i \in 1..n
        BY <2>4, <3>2
      <4>2. CASE j = n + 1
        BY <2>4, <2>6, <4>1, <4>2
      <4>3. CASE j # n + 1
        BY <1>2, <2>3, <2>4, <2>5, <3>2, <4>1, <4>3 DEF Apart
      <4> QED
        BY <4>2, <4>3
    <3> QED
      BY <3>1, <3>2 DEF Apart
  <2>8. Covered(k, ws \union {w})
    BY <1>2, <2>3, <2>4, <2>5 DEF Covered
  <2> QED
    BY <2>2, <2>4, <2>7, <2>8
<1> QED
  BY <1>4, <1>5

LEMMA MergedWindows ==
    ASSUME NEW W \in SUBSET Window, IsFiniteSet(W)
    PROVE  /\ mergeWindows(W) \in Seq(Span) /\ Apart(mergeWindows(W))
           /\ Covered(mergeWindows(W), W)
<1>1. PICK g : Folding(g, W) /\ mergeWindows(W) = g[W]
  BY MergeIsFolding
<1> DEFINE B == {s \in SUBSET W : ~(g[s] \in Seq(Span) /\ Apart(g[s]) /\ Covered(g[s], s))}
<1>2. ASSUME B # {} PROVE FALSE
  <2>1. PICK s \in B : \A t \in B : t \subseteq s => t = s
    <3>1. B \subseteq SUBSET W
      OBVIOUS
    <3> HIDE DEF B
    <3> QED
      BY <1>2, <3>1, SmallestSet
  <2>2. g[s] = Body(g, s)
    BY <1>1 DEF Folding
  <2>3. CASE s = {}
    <3>1. g[s] = << >>
      BY <2>2, <2>3 DEF Body
    <3>2. << >> \in Seq(Span) /\ DOMAIN << >> = {}
      OBVIOUS
    <3>3. Apart(<< >>) /\ Covered(<< >>, s)
      BY <3>2 DEF Apart, Covered
    <3> QED
      BY <2>1, <3>1, <3>2, <3>3
  <2>4. CASE s # {}
    <3>1. PICK w : w = Latest(s)
      OBVIOUS
    <3>2. w \in s /\ w \in Window
      BY <2>4, <3>1, LatestIn, FS_Subset
    <3>3. PICK r : r = s \ {w}
      OBVIOUS
    <3>4. r \in SUBSET W /\ r \notin B /\ s = r \union {w}
      BY <2>1, <3>2, <3>3
    <3>5. g[r] \in Seq(Span) /\ Apart(g[r]) /\ Covered(g[r], r)
      BY <3>4
    <3>6. g[s] = MergeInto(w, g[r])
      BY <2>2, <2>4, <3>1, <3>3 DEF Body
    <3>7. PICK m : m = g[r]
      OBVIOUS
    <3>8. /\ MergeInto(w, m) \in Seq(Span) /\ Apart(MergeInto(w, m))
          /\ Covered(MergeInto(w, m), r \union {w})
      BY <3>2, <3>5, <3>7, MergeIntoKeeps
    <3> QED
      BY <2>1, <3>4, <3>6, <3>7, <3>8
  <2> QED
    BY <2>3, <2>4
<1>3. W \notin B
  BY <1>2
<1> QED
  BY <1>1, <1>3

\* A schedule is finite.
LEMMA SchedulesFinite ==
    ASSUME NEW W \in SUBSET Window
    PROVE  IsFiniteSet(W)
<1> DEFINE f == [w \in W |-> << w.start, w.end >>]
<1>1. IsFiniteSet(Starts \X Ends)
  BY ViewingsAssumption, FS_Product
<1>2. f \in [W -> Starts \X Ends]
  BY DEF Window
<1>3. \A v, w \in W : f[v] = f[w] => v = w
  BY DEF Window
<1> HIDE DEF f
<1>4. f \in Injection(W, Starts \X Ends)
  BY <1>2, <1>3 DEF Injection, IsInjective
<1> QED
  BY <1>1, <1>4, FS_Injection

\* Two starts that lie whole steps behind the same minute are a step apart.
LEMMA StepsApart ==
    ASSUME NEW x \in Nat, NEW y \in Nat, x < y, x % Step = 0, y % Step = 0
    PROVE  y - x >= Step
<1>1. Step \in Nat /\ Step > 0
  BY ViewingsAssumption
<1>2. PICK p \in Int, q \in Int : p = x \div Step /\ q = y \div Step
  BY <1>1
<1>3. x = Step * p /\ y = Step * q
  BY <1>1, <1>2
<1>4. q - p >= 1
  BY <1>1, <1>3
<1>5. Step * (q - p) >= Step
  BY <1>1, <1>4
<1>6. Step * (q - p) = Step * q - Step * p
  BY <1>1
<1> QED
  BY <1>3, <1>5, <1>6

\* A time that is cut from a merged window.
Cut(m, i, s) ==
    /\ m[i].start <= s /\ s <= m[i].end - Duration
    /\ (s - m[i].start) % Step = 0

LEMMA SpanOf ==
    ASSUME NEW m \in Seq(Span), NEW i \in DOMAIN m
    PROVE  i \in Nat /\ m[i].start \in Nat /\ m[i].end \in Nat
<1>1. Len(m) \in Nat /\ DOMAIN m = 1..Len(m) /\ m[i] \in Span
  BY LenProperties
<1> QED
  BY <1>1 DEF Span

LEMMA CutsApart ==
    ASSUME NEW m \in Seq(Span), Apart(m), NEW i \in DOMAIN m, NEW j \in DOMAIN m,
           NEW s \in Nat, NEW t \in Nat, Cut(m, i, s), Cut(m, j, t), s < t
    PROVE  s + Duration <= t
<1>1. /\ i \in Nat /\ m[i].start \in Nat /\ m[i].end \in Nat
      /\ j \in Nat /\ m[j].start \in Nat /\ m[j].end \in Nat
  BY SpanOf
<1>2. Duration \in Nat /\ Step \in Nat /\ Step >= Duration
  BY ViewingsAssumption
<1>3. CASE i = j
  <2>0. PICK f \in Nat : f = m[i].start /\ f = m[j].start
    BY <1>1, <1>3
  <2>1. PICK x \in Nat, y \in Nat : x = s - f /\ y = t - f
    BY <1>1, <1>3, <2>0 DEF Cut
  <2>2. x < y /\ x % Step = 0 /\ y % Step = 0
    BY <2>0, <2>1 DEF Cut
  <2>3. y - x >= Step
    BY <2>2, StepsApart
  <2> QED
    BY <1>2, <2>1, <2>3
<1>4. CASE i < j
  <2>1. m[i].end < m[j].start
    BY <1>4 DEF Apart
  <2> QED
    BY <1>1, <1>2, <2>1 DEF Cut
<1>5. CASE j < i
  <2>1. m[j].end < m[i].start
    BY <1>5 DEF Apart
  <2>2. FALSE
    BY <1>1, <1>2, <2>1 DEF Cut
  <2> QED
    BY <2>2
<1> QED
  BY <1>1, <1>3, <1>4, <1>5

LEMMA TypesFit == ViewingsTypeOK => OffersFit
<1> SUFFICES ASSUME ViewingsTypeOK, NEW a \in Agents, NEW s \in buildSlots(a)
             PROVE  /\ \A x \in s..(s + Duration - 1) :
                         \E w \in windows[a] : w.start <= x /\ x < w.end
                    /\ \A t \in buildSlots(a) : s # t => ~Overlap(s, t)
                    /\ \A i \in Blocking(a) : ~Overlap(s, viewings[i].at)
  BY DEF OffersFit
<1>1. PICK m : m = mergeWindows(windows[a])
  OBVIOUS
<1>2. m \in Seq(Span) /\ Apart(m) /\ Covered(m, windows[a])
  <2>1. windows[a] \in SUBSET Window
    BY DEF ViewingsTypeOK
  <2> QED
    BY <1>1, <2>1, SchedulesFinite, MergedWindows
<1>3. ASSUME NEW t \in buildSlots(a)
      PROVE  /\ t \in Nat /\ t >= Earliest /\ (\E i \in DOMAIN m : Cut(m, i, t))
             /\ \A u \in Busy(a) : ~Overlap(t, u)
  <2>1. /\ t \in Times /\ t >= Earliest /\ \A u \in Busy(a) : ~Overlap(t, u)
        /\ \E i \in DOMAIN m : Cut(m, i, t)
    BY <1>1, <1>3 DEF buildSlots, Cut
  <2> QED
    BY <2>1 DEF Times
<1>4. s \in Nat /\ Duration \in Nat \ {0} /\ Lead \in Nat /\ Lead >= Duration /\ clock \in Nat
  BY <1>3, ViewingsAssumption DEF ViewingsTypeOK
<1>5. ASSUME NEW x \in s..(s + Duration - 1)
      PROVE  \E w \in windows[a] : w.start <= x /\ x < w.end
  <2>1. PICK i \in DOMAIN m : Cut(m, i, s)
    BY <1>3
  <2>2. m[i].start \in Nat /\ m[i].end \in Nat
    BY <1>2, SpanOf
  <2>3. x \in Nat /\ m[i].start <= x /\ x < m[i].end
    BY <1>4, <2>1, <2>2 DEF Cut
  <2> QED
    BY <1>2, <2>3 DEF Covered
<1>6. ASSUME NEW t \in buildSlots(a), s # t PROVE ~Overlap(s, t)
  <2>1. PICK i \in DOMAIN m : Cut(m, i, s)
    BY <1>3
  <2>2. PICK j \in DOMAIN m : Cut(m, j, t)
    BY <1>3
  <2>3. t \in Nat
    BY <1>3
  <2>4. CASE s < t
    <3>1. s + Duration <= t
      BY <1>2, <1>4, <2>1, <2>2, <2>3, <2>4, CutsApart
    <3> QED
      BY <1>4, <2>3, <3>1 DEF Overlap
  <2>5. CASE t < s
    <3>1. t + Duration <= s
      BY <1>2, <1>4, <2>1, <2>2, <2>3, <2>5, CutsApart
    <3> QED
      BY <1>4, <2>3, <3>1 DEF Overlap
  <2> QED
    BY <1>4, <1>6, <2>3, <2>4, <2>5
<1>7. ASSUME NEW i \in Blocking(a) PROVE ~Overlap(s, viewings[i].at)
  <2>1. viewings[i].at \in Nat
    BY <1>7 DEF Blocking, ViewingsTypeOK, Viewing
  <2>2. CASE viewings[i].at >= clock
    BY <1>3, <1>7, <2>2 DEF Busy
  <2>3. CASE viewings[i].at < clock
    <3>1. s >= clock + Lead
      BY <1>3 DEF Earliest
    <3> QED
      BY <1>4, <2>1, <2>3, <3>1 DEF Overlap
  <2> QED
    BY <1>4, <2>1, <2>2, <2>3
<1> QED
  BY <1>5, <1>6, <1>7

(***************************************************************************)
(* Whatever the schedule, however its windows overlap: what is offered     *)
(* lies within the agent's hours, no two offers overlap, and none overlaps *)
(* a viewing that occupies the agent.                                      *)
(***************************************************************************)
THEOREM OffersCorrect == ViewingsSpec => []OffersFit
<1> QED
  BY TypesFit, ViewingsTypeCorrect, PTL

=============================================================================
