-------------------------- MODULE OutboxPublisher --------------------------
(***************************************************************************)
(* The transactional outbox and the e-mail it leads to (apps/worker).      *)
(*                                                                         *)
(* Rows of table OutboxEvent are claimed in batches under a lease,         *)
(* published to Redis, enqueued for e-mail when they announce a            *)
(* notification, and marked PUBLISHED.  Any of these steps can fail, the   *)
(* worker can die between any two of them, and the lease can run out       *)
(* while the worker is still busy with its batch.  The NotificationProcessor *)
(* consumes the e-mail jobs.                                               *)
(*                                                                         *)
(* Events are numbered in the order of createdAt.  Time is abstract: a     *)
(* claimed or postponed row is not available, and some time later it is.   *)
(***************************************************************************)
EXTENDS Integers, FiniteSets, FiniteSetsExt

CONSTANTS
    N,                 \* number of outbox rows
    Notifications,     \* the rows of type notification.created
    Workers,           \* worker processes
    BatchSize,         \* OUTBOX_BATCH_SIZE
    MaxAttempts,       \* MAX_ATTEMPTS
    MailAttempts,      \* attempts of an e-mail job
    MaxFaults          \* bound: batches lost, leases overrun and jobs evicted

Events == 1..N

ASSUME OutboxAssumption ==
    /\ N \in Nat \ {0} /\ Notifications \subseteq Events
    /\ BatchSize \in Nat \ {0} /\ MaxAttempts \in Nat \ {0}
    /\ MailAttempts \in Nat \ {0}
    /\ MaxFaults \in Nat

VARIABLES
    row,        \* OutboxEvent rows: status, attempts, availableAt <= NOW()
    pub,        \* where each worker's publisher stands
    deliveries, \* how often each event was published to Redis
    job,        \* e-mail job of each notification in the BullMQ queue
    mails,      \* how often each notification was e-mailed
    losses,     \* batches lost to a crash or a database error
    overruns,   \* leases that expired while the batch was in hand
    evictions   \* finished jobs dropped beyond removeOnComplete, removeOnFail

vars == <<row, pub, deliveries, job, mails, losses, overruns, evictions>>

RowState == [status : {"PENDING", "PROCESSING", "PUBLISHED", "FAILED"},
             attempts : Nat, available : BOOLEAN]

\* todo: events of the batch still to be handled; seen: the attempts column
\* as findMany read it.
Publisher == [pc : {"idle", "claimed", "publish", "enqueue", "mark", "failure"},
              todo : SUBSET Events, seen : [Events -> Nat]]

IdlePublisher == [pc |-> "idle", todo |-> {}, seen |-> [e \in Events |-> 0]]

JobState == [state : {"none", "waiting", "completed", "failed"}, tries : Nat]

NoJob == [state |-> "none", tries |-> 0]

Faults == losses + overruns + evictions

Init ==
    /\ row = [e \in Events |-> [status |-> "PENDING", attempts |-> 0, available |-> TRUE]]
    /\ pub = [w \in Workers |-> IdlePublisher]
    /\ deliveries = [e \in Events |-> 0]
    /\ job = [e \in Events |-> NoJob]
    /\ mails = [e \in Events |-> 0]
    /\ losses = 0 /\ overruns = 0 /\ evictions = 0

----------------------------------------------------------------------------
(* claimBatch. *)

\* Mutant: rows whose lease has expired are not reclaimed.
ClaimablePending(e) ==
    row[e].available /\ row[e].status = "PENDING" /\ row[e].attempts < MaxAttempts

\* The condition of the SELECT ... FOR UPDATE SKIP LOCKED.
Claimable(e) ==
    /\ row[e].available
    /\ \/ row[e].status = "PENDING" /\ row[e].attempts < MaxAttempts
       \/ row[e].status = "PROCESSING" /\ row[e].attempts <= MaxAttempts

\* The oldest claimable rows, BatchSize at most.
Batch == LET claimable == {e \in Events : Claimable(e)}
         IN  {e \in claimable :
                 Cardinality({d \in claimable : d < e}) < BatchSize}

\* Mutant: reclaiming a row after its lease does not count as an attempt.
ClaimCountedOnce(w) ==
    /\ pub[w].pc = "idle"
    /\ Batch # {}
    /\ row' = [e \in Events |->
                 IF e \in Batch
                 THEN [status |-> "PROCESSING", available |-> FALSE,
                       attempts |-> row[e].attempts
                                    + (IF row[e].status = "PENDING" THEN 1 ELSE 0)]
                 ELSE row[e]]
    /\ pub' = [pub EXCEPT ![w] = [@ EXCEPT !.pc = "claimed", !.todo = Batch]]
    /\ UNCHANGED <<deliveries, job, mails, losses, overruns, evictions>>

Claim(w) ==
    /\ pub[w].pc = "idle"
    /\ Batch # {}
    /\ row' = [e \in Events |->
                 IF e \in Batch
                 THEN [status |-> "PROCESSING", attempts |-> row[e].attempts + 1,
                       available |-> FALSE]
                 ELSE row[e]]
    /\ pub' = [pub EXCEPT ![w] = [@ EXCEPT !.pc = "claimed", !.todo = Batch]]
    /\ UNCHANGED <<deliveries, job, mails, losses, overruns, evictions>>

----------------------------------------------------------------------------
(* tick: the loop over the batch. *)

Current(w) == Min(pub[w].todo)

\* findMany, a query of its own after the claim.
ReadBatch(w) ==
    /\ pub[w].pc = "claimed"
    /\ pub' = [pub EXCEPT ![w] =
                 [@ EXCEPT !.pc = "publish",
                           !.seen = [e \in Events |-> IF e \in pub[w].todo
                                                      THEN row[e].attempts ELSE 0]]]
    /\ UNCHANGED <<row, deliveries, job, mails, losses, overruns, evictions>>

\* Mutant: the row is marked before the e-mail job is enqueued.
PublishAndMark(w) ==
    /\ pub[w].pc = "publish"
    /\ deliveries' = [deliveries EXCEPT ![Current(w)] = @ + 1]
    /\ row' = [row EXCEPT ![Current(w)].status = "PUBLISHED"]
    /\ pub' = [pub EXCEPT ![w].pc = IF Current(w) \in Notifications
                                    THEN "enqueue" ELSE "mark"]
    /\ UNCHANGED <<job, mails, losses, overruns, evictions>>

\* publish to the channel and the stream.
Publish(w) ==
    /\ pub[w].pc = "publish"
    /\ deliveries' = [deliveries EXCEPT ![Current(w)] = @ + 1]
    /\ pub' = [pub EXCEPT ![w].pc = IF Current(w) \in Notifications
                                    THEN "enqueue" ELSE "mark"]
    /\ UNCHANGED <<row, job, mails, losses, overruns, evictions>>

\* Mutant: without a jobId every replay enqueues another job.
AddedAgain(j) == [state |-> "waiting", tries |-> 0]

\* Queue.add with a jobId: nothing happens while a job of that id is kept.
Added(j) == IF j.state = "none" THEN [state |-> "waiting", tries |-> 0] ELSE j

Enqueue(w) ==
    /\ pub[w].pc = "enqueue"
    /\ job' = [job EXCEPT ![Current(w)] = Added(@)]
    /\ pub' = [pub EXCEPT ![w].pc = "mark"]
    /\ UNCHANGED <<row, deliveries, mails, losses, overruns, evictions>>

\* The event is done with; the loop goes on or the tick ends.
NextEvent(w) ==
    LET rest == pub[w].todo \ {Current(w)}
    IN  pub' = [pub EXCEPT ![w] =
                  IF rest = {} THEN IdlePublisher
                  ELSE [@ EXCEPT !.pc = "publish", !.todo = rest]]

MarkPublished(w) ==
    /\ pub[w].pc = "mark"
    /\ row' = [row EXCEPT ![Current(w)].status = "PUBLISHED"]
    /\ NextEvent(w)
    /\ UNCHANGED <<deliveries, job, mails, losses, overruns, evictions>>

\* Redis or the database refuses a step of the event; the publication may
\* or may not have happened.
StepFails(w) ==
    /\ pub[w].pc \in {"publish", "enqueue", "mark"}
    /\ pub' = [pub EXCEPT ![w].pc = "failure"]
    /\ UNCHANGED <<row, deliveries, job, mails, losses, overruns, evictions>>

\* handleFailure, by the attempts read with the batch: no condition on the
\* row as it is now.
HandleFailure(w) ==
    LET e == Current(w)
    IN  /\ pub[w].pc = "failure"
        /\ row' = [row EXCEPT ![e] =
                     IF pub[w].seen[e] >= MaxAttempts
                     THEN [@ EXCEPT !.status = "FAILED"]
                     ELSE [@ EXCEPT !.status = "PENDING", !.available = FALSE]]
        /\ NextEvent(w)
        /\ UNCHANGED <<deliveries, job, mails, losses, overruns, evictions>>

\* The worker dies, or findMany or handleFailure throws and ends the tick:
\* what is left of the batch stays PROCESSING.
LoseBatch(w) ==
    /\ pub[w].pc # "idle"
    /\ Faults < MaxFaults
    /\ losses' = losses + 1
    /\ pub' = [pub EXCEPT ![w] = IdlePublisher]
    /\ UNCHANGED <<row, deliveries, job, mails, overruns, evictions>>

\* Some worker still has the event to handle.
InHand(e) == \E w \in Workers : e \in pub[w].todo

\* availableAt passes: the back-off ends, or the lease expires, perhaps while
\* its holder is slow and not dead.  It means nothing for a row that is
\* PUBLISHED or FAILED, and is set anew whenever such a row leaves that state.
BecomeAvailable(e) ==
    /\ ~row[e].available
    /\ row[e].status \in {"PENDING", "PROCESSING"}
    /\ row' = [row EXCEPT ![e].available = TRUE]
    /\ InHand(e) => Faults < MaxFaults
    /\ overruns' = overruns + (IF InHand(e) THEN 1 ELSE 0)
    /\ UNCHANGED <<pub, deliveries, job, mails, losses, evictions>>

----------------------------------------------------------------------------
(* NotificationProcessor. *)

SendMail(e) ==
    /\ job[e].state = "waiting"
    /\ mails' = [mails EXCEPT ![e] = @ + 1]
    /\ job' = [job EXCEPT ![e].state = "completed"]
    /\ UNCHANGED <<row, pub, deliveries, losses, overruns, evictions>>

\* The provider refuses the mail, or it is sent and the delivery row cannot
\* be written; BullMQ tries again until the attempts are used up.
MailFails(e) ==
    /\ job[e].state = "waiting"
    /\ \E sent \in {0, 1} : mails' = [mails EXCEPT ![e] = @ + sent]
    /\ job' = [job EXCEPT ![e] = [tries |-> @.tries + 1,
                                  state |-> IF @.tries + 1 >= MailAttempts
                                            THEN "failed" ELSE "waiting"]]
    /\ UNCHANGED <<row, pub, deliveries, losses, overruns, evictions>>

\* A thousand later jobs have completed, or 5,000 failed: the id is free again.
EvictJob(e) ==
    /\ job[e].state \in {"completed", "failed"}
    /\ Faults < MaxFaults
    /\ evictions' = evictions + 1
    /\ job' = [job EXCEPT ![e] = NoJob]
    /\ UNCHANGED <<row, pub, deliveries, mails, losses, overruns>>

----------------------------------------------------------------------------
Step(w) == \/ Claim(w) \/ ReadBatch(w) \/ Publish(w) \/ Enqueue(w)
           \/ MarkPublished(w) \/ StepFails(w) \/ HandleFailure(w)

Next == \/ \E w \in Workers : Step(w) \/ LoseBatch(w)
        \/ \E e \in Events : BecomeAvailable(e)
        \/ \E e \in Notifications : SendMail(e) \/ MailFails(e) \/ EvictJob(e)

Spec == Init /\ [][Next]_vars

\* The publisher's interval fires, time passes, the queue hands out its jobs.
Fairness == /\ \A w \in Workers : WF_vars(Step(w))
            /\ \A e \in Events : WF_vars(BecomeAvailable(e))
            /\ \A e \in Notifications : WF_vars(SendMail(e) \/ MailFails(e))

FairSpec == Spec /\ Fairness

----------------------------------------------------------------------------
(* Properties. *)

\* Every variable holds a value of its type; a busy worker has a batch.
TypeOK ==
    /\ row \in [Events -> RowState]
    /\ pub \in [Workers -> Publisher]
    /\ \A w \in Workers : pub[w].pc = "idle" <=> pub[w].todo = {}
    /\ deliveries \in [Events -> Nat]
    /\ job \in [Events -> JobState]
    /\ mails \in [Events -> Nat]
    /\ losses \in Nat /\ overruns \in Nat /\ evictions \in Nat
    /\ Faults <= MaxFaults

\* Consumers see an event at most once per claim, and there are at most
\* MaxAttempts + 1 claims: a poisonous event cannot be published for ever.
DeliveriesBounded ==
    \A e \in Events : /\ deliveries[e] <= row[e].attempts
                      /\ row[e].attempts <= MaxAttempts + 1

\* As long as the queue keeps the job, a replay of the event adds no e-mail
\* to those that the processor's own retries may repeat.
ReplayDoesNotResend ==
    evictions = 0 =>
        \A e \in Events :
            mails[e] <= job[e].tries + (IF job[e].state = "completed" THEN 1 ELSE 0)

\* Every event is published or given up on, whatever steps fail, in whatever
\* order the workers come: as long as no lease expires in its holder's hands
\* and not both of the last two claims are lost (see NoEventLeftBehind).
EventSettles ==
    \A e \in Events :
        row[e].status = "PENDING"
            ~> \/ row[e].status \in {"PUBLISHED", "FAILED"}
               \/ overruns > 0 \/ losses > 1

\* A notification whose event was published is mailed or its job fails, unless
\* the failed job has already been dropped.
NotificationMailed ==
    \A e \in Notifications :
        row[e].status = "PUBLISHED"
            ~> mails[e] > 0 \/ job[e].state = "failed" \/ evictions > 0

\* docs/security-assessment.md:16: leases, stale-claim recovery, bounded
\* attempts and a terminal failure state leave no record in PROCESSING, or
\* waiting, for ever.
NoEventLeftBehind ==
    \A e \in Events : row[e].status \in {"PENDING", "PROCESSING"}
                        ~> row[e].status \in {"PUBLISHED", "FAILED"}

=============================================================================
