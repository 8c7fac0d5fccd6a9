-------------------------- MODULE AuctionEnrolment --------------------------
(***************************************************************************)
(* How an account gets onto the bidder list of one auction (apps/api).     *)
(*                                                                         *)
(*   - register (AuctionsService): the bidder asks to take part;           *)
(*   - submit (AuctionEnrolmentService): the bidder uploads the receipt of *)
(*     a deposit paid out of band;                                         *)
(*   - review (AuctionEnrolmentService): staff approve or reject.          *)
(*                                                                         *)
(* register and submit read the account and the auction before they write; *)
(* submit then reads the registration in its transaction, without a lock.  *)
(* Every transaction writes the registration first and so holds its row    *)
(* lock over the deposit it writes next: under Read Committed its writes   *)
(* are one step, and its reads an earlier one.                             *)
(***************************************************************************)
EXTENDS Integers, FiniteSets

CONSTANTS
    Bidders,      \* accounts other than the seller's, active and with a verified email
    Requests,     \* calls of the API, each served once
    MaxChanges    \* bound: times an account or the auction changes meanwhile

ASSUME EnrolmentAssumption == Bidders # {} /\ MaxChanges \in Nat

VARIABLES
    registration,  \* AuctionRegistration row of each bidder
    deposit,       \* AuctionDeposit row of each bidder
    verified,      \* phone verified, and identity where the platform asks for it
    open,          \* the auction is SCHEDULED or LIVE
    changes,
    req,           \* where each call stands
    decision       \* what staff last decided on the bidder's latest receipt

rows == <<registration, deposit, decision>>
vars == <<registration, deposit, verified, open, changes, req, decision>>

Registration == [status : {"none", "PENDING", "ELIGIBLE", "REJECTED"},
                 depositStatus : {"NOT_REQUIRED", "PENDING", "CAPTURED", "FAILED"}]

NoRegistration == [status |-> "none", depositStatus |-> "NOT_REQUIRED"]

DepositStatus == {"none", "PENDING", "CAPTURED", "FAILED"}

\* What placeBid asks of the registration.
CanBid(u) == /\ registration[u].status = "ELIGIBLE"
             /\ registration[u].depositStatus \in {"NOT_REQUIRED", "CAPTURED"}

Call == [pc : {"idle", "register", "submit", "checked", "review", "done"},
         user : Bidders, eligible : BOOLEAN]

NoCall == [pc |-> "idle", user |-> CHOOSE u \in Bidders : TRUE, eligible |-> FALSE]

Init ==
    /\ registration = [u \in Bidders |-> NoRegistration]
    /\ deposit = [u \in Bidders |-> "none"]
    /\ verified \in [Bidders -> BOOLEAN]
    /\ open = TRUE
    /\ changes = 0
    /\ req = [r \in Requests |-> NoCall]
    /\ decision = [u \in Bidders |-> "none"]

Finish(r) == req' = [req EXCEPT ![r].pc = "done"]

----------------------------------------------------------------------------
(* register. *)

\* The four reads, together; the answer is decided on them.
ReceiveRegister(r) ==
    /\ req[r].pc = "idle"
    /\ open
    /\ \E u \in Bidders :
         req' = [req EXCEPT ![r] = [pc |-> "register", user |-> u,
                                    eligible |-> verified[u]]]
    /\ UNCHANGED <<rows, verified, open, changes>>

\* Mutant: the repeated registration starts the deposit over.
RegisteredAnew(row, eligible) ==
    [status |-> IF eligible THEN "ELIGIBLE" ELSE "PENDING",
     depositStatus |-> "NOT_REQUIRED"]

\* upsert: the status is set anew whatever it was, the deposit is left alone.
Registered(row, eligible) ==
    [row EXCEPT !.status = IF eligible THEN "ELIGIBLE" ELSE "PENDING"]

CommitRegister(r) ==
    LET u == req[r].user
    IN  /\ req[r].pc = "register"
        /\ registration' = [registration EXCEPT ![u] = Registered(@, req[r].eligible)]
        /\ Finish(r)
        /\ UNCHANGED <<deposit, decision, verified, open, changes>>

----------------------------------------------------------------------------
(* submit. *)

ReceiveSubmit(r) ==
    /\ req[r].pc = "idle"
    /\ open
    /\ \E u \in Bidders :
         req' = [req EXCEPT ![r] = [NoCall EXCEPT !.pc = "submit", !.user = u]]
    /\ UNCHANGED <<rows, verified, open, changes>>

\* ALREADY_ENROLLED, or on to the writes.
CheckSubmit(r) ==
    /\ req[r].pc = "submit"
    /\ req' = [req EXCEPT ![r].pc =
                 IF registration[req[r].user].status = "ELIGIBLE"
                 THEN "done" ELSE "checked"]
    /\ UNCHANGED <<rows, verified, open, changes>>

\* Mutant: a new receipt leaves the decision on the old one standing.
SubmittedKept(row) == [row EXCEPT !.status = "PENDING"]

Submitted(row) == [row EXCEPT !.status = "PENDING", !.depositStatus = "PENDING"]

CommitSubmit(r) ==
    LET u == req[r].user
    IN  /\ req[r].pc = "checked"
        /\ registration' = [registration EXCEPT ![u] = Submitted(@)]
        /\ deposit' = [deposit EXCEPT ![u] = "PENDING"]
        /\ decision' = [decision EXCEPT ![u] = "none"]
        /\ Finish(r)
        /\ UNCHANGED <<verified, open, changes>>

----------------------------------------------------------------------------
(* review: staff name the registration they saw in the queue, whatever has *)
(* become of it since; without a deposit row the transaction fails.        *)

ReceiveReview(r) ==
    /\ req[r].pc = "idle"
    /\ \E u \in Bidders :
         /\ registration[u].status # "none" /\ deposit[u] # "none"
         /\ req' = [req EXCEPT ![r] = [NoCall EXCEPT !.pc = "review", !.user = u]]
    /\ UNCHANGED <<rows, verified, open, changes>>

Approve(r) ==
    LET u == req[r].user
    IN  /\ req[r].pc = "review"
        /\ registration' = [registration EXCEPT ![u] =
                              [status |-> "ELIGIBLE", depositStatus |-> "CAPTURED"]]
        /\ deposit' = [deposit EXCEPT ![u] = "CAPTURED"]
        /\ decision' = [decision EXCEPT ![u] = "approved"]
        /\ Finish(r)
        /\ UNCHANGED <<verified, open, changes>>

Reject(r) ==
    LET u == req[r].user
    IN  /\ req[r].pc = "review"
        /\ registration' = [registration EXCEPT ![u] =
                              [status |-> "REJECTED", depositStatus |-> "FAILED"]]
        /\ deposit' = [deposit EXCEPT ![u] = "FAILED"]
        /\ decision' = [decision EXCEPT ![u] = "rejected"]
        /\ Finish(r)
        /\ UNCHANGED <<verified, open, changes>>

----------------------------------------------------------------------------
(* The world around a call. *)

\* A call is refused, or its transaction fails.
FailCall(r) ==
    /\ req[r].pc \notin {"idle", "done"}
    /\ Finish(r)
    /\ UNCHANGED <<rows, verified, open, changes>>

\* A phone or an identity is verified, or loses its verification.
ChangeVerified(u) ==
    /\ changes < MaxChanges
    /\ changes' = changes + 1
    /\ verified' = [verified EXCEPT ![u] = ~@]
    /\ UNCHANGED <<rows, open, req>>

CloseAuction ==
    /\ open /\ changes < MaxChanges
    /\ changes' = changes + 1
    /\ open' = FALSE
    /\ UNCHANGED <<rows, verified, req>>

CallStep(r) == \/ ReceiveRegister(r) \/ CommitRegister(r)
               \/ ReceiveSubmit(r) \/ CheckSubmit(r) \/ CommitSubmit(r)
               \/ ReceiveReview(r) \/ Approve(r) \/ Reject(r)
               \/ FailCall(r)

Next == \/ \E r \in Requests : CallStep(r)
        \/ \E u \in Bidders : ChangeVerified(u)
        \/ CloseAuction

Spec == Init /\ [][Next]_vars

----------------------------------------------------------------------------
(* Properties. *)

\* Every variable holds a value of its type; a deposit has a registration.
TypeOK ==
    /\ registration \in [Bidders -> Registration]
    /\ deposit \in [Bidders -> DepositStatus]
    /\ \A u \in Bidders : deposit[u] # "none" => registration[u].status # "none"
    /\ verified \in [Bidders -> BOOLEAN]
    /\ open \in BOOLEAN
    /\ changes \in 0..MaxChanges
    /\ req \in [Requests -> Call]
    /\ decision \in [Bidders -> {"none", "approved", "rejected"}]

\* The copy of the deposit's state in the registration, which is the one that
\* placeBid trusts, is that of the deposit, whatever calls overlap.
DepositAgrees ==
    \A u \in Bidders :
        registration[u].depositStatus =
            IF deposit[u] = "none" THEN "NOT_REQUIRED" ELSE deposit[u]

\* Once a bidder has sent a receipt, the bidder list follows the review: no
\* order of repeated registrations, new receipts and reviews lets a bidder in
\* whose latest receipt was rejected or is still unread.
ReviewDecides ==
    \A u \in Bidders :
        CanBid(u) /\ deposit[u] # "none" => decision[u] = "approved"

\* auction-enrolment.service.ts:337: review is "the only way onto an auction's
\* bidder list".
OnlyReviewGrants ==
    [][\A u \in Bidders : ~CanBid(u) /\ CanBid(u)'
         => decision'[u] = "approved"]_vars

=============================================================================
