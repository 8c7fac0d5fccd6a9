----------------------- MODULE OutboxPublisherProofs -----------------------
(***************************************************************************)
(* Theorems about the outbox, for every number of rows and workers, every  *)
(* batch size and every number of attempts, faults and overrun leases.  A  *)
(* lease that runs out puts one event into the hands of several workers,   *)
(* so deliveries are bounded by counting, beside what was delivered, the   *)
(* workers that still may deliver: each of them claimed the row once.      *)
(***************************************************************************)
EXTENDS OutboxPublisher, FiniteSetTheorems, WellFoundedInduction, TLAPS

\* A set of numbers that is not empty has a least one.
LEMMA LeastEvent ==
    ASSUME NEW S \in SUBSET Nat, S # {}
    PROVE  Min(S) \in S
<1>1. PICK t \in S : \A y \in S : ~(<<y, t>> \in OpToRel(<, Nat))
  BY NatLessThanWellFounded, WFMin
<1>2. \A y \in S : t <= y
  <2> TAKE y \in S
  <2>1. y \in Nat /\ t \in Nat
    OBVIOUS
  <2>2. <<y, t>> \in OpToRel(<, Nat) \/ ~(y < t)
    BY <2>1, Zenon DEF OpToRel
  <2>3. ~(y < t)
    BY <1>1, <2>2, Zenon
  <2> QED
    BY <2>1, <2>3
<1> QED
  BY <1>2, Zenon DEF Min

\* The current event of a busy worker is one of its batch.
LEMMA CurrentInHand ==
    ASSUME TypeOK, NEW w \in Workers, pub[w].pc # "idle"
    PROVE  Current(w) \in pub[w].todo /\ Current(w) \in Events
<1>1. pub[w].todo \in SUBSET Events /\ pub[w].todo # {}
  BY DEF TypeOK, Publisher
<1>2. Events \subseteq Nat
  BY OutboxAssumption DEF Events
<1> QED
  BY <1>1, <1>2, LeastEvent DEF Current

\* The state of a publisher after each of its steps.
PublisherOK(p) == p \in Publisher /\ (p.pc = "idle" <=> p.todo = {})

LEMMA IdleOK == PublisherOK(IdlePublisher)
BY DEF PublisherOK, Publisher, IdlePublisher

\* What NextEvent leaves in hand.
LEMMA AfterEvent ==
    ASSUME TypeOK, NEW w \in Workers, pub[w].pc # "idle", NextEvent(w)
    PROVE  /\ PublisherOK(pub'[w])
           /\ pub'[w].todo = pub[w].todo \ {Current(w)}
           /\ pub'[w].pc \in {"idle", "publish"}
           /\ pub' \in [Workers -> Publisher]
           /\ \A v \in Workers \ {w} : pub'[v] = pub[v]
<1> DEFINE rest == pub[w].todo \ {Current(w)}
           going == [pub[w] EXCEPT !.pc = "publish", !.todo = rest]
<1>1. pub \in [Workers -> Publisher] /\ pub[w] \in Publisher
  BY DEF TypeOK
<1>2. CASE rest = {}
  <2>1. pub' = [pub EXCEPT ![w] = IdlePublisher]
    BY <1>2 DEF NextEvent
  <2> QED
    BY <1>1, <1>2, <2>1, IdleOK DEF IdlePublisher, PublisherOK
<1>3. CASE rest # {}
  <2>1. pub' = [pub EXCEPT ![w] = going]
    BY <1>3 DEF NextEvent
  <2>2. going \in Publisher /\ going.pc = "publish" /\ going.todo = rest
    BY <1>1 DEF Publisher
  <2> HIDE DEF going
  <2> QED
    BY <1>1, <1>3, <2>1, <2>2 DEF PublisherOK
<1> QED
  BY <1>2, <1>3

\* A worker that only moves on to another step of its current event.
LEMMA StepOn ==
    ASSUME TypeOK, NEW w \in Workers, pub[w].pc # "idle",
           NEW pc \in {"publish", "enqueue", "mark", "failure"},
           pub' = [pub EXCEPT ![w].pc = pc]
    PROVE  /\ PublisherOK(pub'[w]) /\ pub' \in [Workers -> Publisher]
           /\ pub'[w].pc = pc /\ pub'[w].todo = pub[w].todo
           /\ \A v \in Workers \ {w} : pub'[v] = pub[v]
<1>1. pub[w] \in Publisher /\ pub \in [Workers -> Publisher] /\ pub[w].todo # {}
  BY DEF TypeOK
<1>2. /\ [pub[w] EXCEPT !.pc = pc] \in Publisher
      /\ [pub[w] EXCEPT !.pc = pc].pc = pc
      /\ [pub[w] EXCEPT !.pc = pc].todo = pub[w].todo
  BY <1>1 DEF Publisher
<1> QED
  BY <1>1, <1>2 DEF PublisherOK

LEMMA ClaimType ==
    ASSUME TypeOK, NEW w \in Workers, Claim(w)
    PROVE  /\ PublisherOK(pub'[w]) /\ pub' \in [Workers -> Publisher]
           /\ pub'[w].pc = "claimed" /\ pub'[w].todo = Batch
           /\ \A v \in Workers \ {w} : pub'[v] = pub[v]
<1> DEFINE p == [pub[w] EXCEPT !.pc = "claimed", !.todo = Batch]
<1>1. pub[w] \in Publisher /\ pub \in [Workers -> Publisher]
  BY DEF TypeOK
<1>2. Batch \subseteq Events /\ Batch # {}
  BY DEF Batch, Claim
<1>3. p \in Publisher /\ p.pc = "claimed" /\ p.todo = Batch
  BY <1>1, <1>2 DEF Publisher
<1>4. pub' = [pub EXCEPT ![w] = p]
  BY DEF Claim
<1> HIDE DEF p
<1> QED
  BY <1>1, <1>2, <1>3, <1>4 DEF PublisherOK

LEMMA ReadType ==
    ASSUME TypeOK, NEW w \in Workers, ReadBatch(w)
    PROVE  /\ PublisherOK(pub'[w]) /\ pub' \in [Workers -> Publisher]
           /\ pub'[w].pc = "publish" /\ pub'[w].todo = pub[w].todo
           /\ \A v \in Workers \ {w} : pub'[v] = pub[v]
<1> DEFINE seen == [e \in Events |-> IF e \in pub[w].todo THEN row[e].attempts ELSE 0]
           p == [pub[w] EXCEPT !.pc = "publish", !.seen = seen]
<1>1. pub[w] \in Publisher /\ pub \in [Workers -> Publisher] /\ pub[w].todo # {}
  BY DEF TypeOK, ReadBatch
<1>2. seen \in [Events -> Nat]
  BY DEF TypeOK, RowState
<1>3. pub' = [pub EXCEPT ![w] = p]
  BY DEF ReadBatch
<1> HIDE DEF seen
<1>4. p \in Publisher /\ p.pc = "publish" /\ p.todo = pub[w].todo
  BY <1>1, <1>2 DEF Publisher
<1> HIDE DEF p
<1> QED
  BY <1>1, <1>3, <1>4 DEF PublisherOK

\* One worker moves, and keeps its form; the rows keep theirs.
LEMMA WorkerType ==
    ASSUME TypeOK, NEW w \in Workers, PublisherOK(pub'[w]), pub' \in [Workers -> Publisher],
           \A v \in Workers \ {w} : pub'[v] = pub[v],
           row' \in [Events -> RowState], deliveries' \in [Events -> Nat],
           job' \in [Events -> JobState], losses' \in Nat, losses' + overruns + evictions <= MaxFaults,
           UNCHANGED <<mails, overruns, evictions>>
    PROVE  TypeOK'
BY DEF TypeOK, PublisherOK, Faults

LEMMA NextType == TypeOK /\ [Next]_vars => TypeOK'
<1> SUFFICES ASSUME TypeOK, [Next]_vars PROVE TypeOK'
  OBVIOUS
<1>1. /\ row \in [Events -> RowState] /\ deliveries \in [Events -> Nat]
      /\ job \in [Events -> JobState] /\ mails \in [Events -> Nat]
      /\ losses \in Nat /\ overruns \in Nat /\ evictions \in Nat
      /\ losses + overruns + evictions <= MaxFaults /\ MaxFaults \in Nat
  BY OutboxAssumption DEF TypeOK, Faults
<1>2. ASSUME NEW w \in Workers, Claim(w) PROVE TypeOK'
  <2>1. row' \in [Events -> RowState]
    <3>1. ASSUME NEW e \in Events
          PROVE  [status |-> "PROCESSING", attempts |-> row[e].attempts + 1,
                  available |-> FALSE] \in RowState
      <4>1. row[e].attempts + 1 \in Nat
        BY <1>1 DEF RowState
      <4> QED
        BY <4>1 DEF RowState
    <3> QED
      BY <1>1, <1>2, <3>1 DEF Claim
  <2> QED
    BY <1>1, <1>2, <2>1, ClaimType, WorkerType DEF Claim
<1>3. ASSUME NEW w \in Workers, ReadBatch(w) PROVE TypeOK'
  BY <1>1, <1>3, ReadType, WorkerType DEF ReadBatch
<1>4. ASSUME NEW w \in Workers, Publish(w) PROVE TypeOK'
  <2>0. Current(w) \in Events
    BY <1>4, CurrentInHand DEF Publish
  <2>1. deliveries' \in [Events -> Nat]
    <3> DEFINE c == Current(w)
               more == deliveries[c] + 1
    <3>1. more \in Nat /\ deliveries' = [deliveries EXCEPT ![c] = more]
      BY <1>1, <1>4, <2>0 DEF Publish
    <3> HIDE DEF c, more
    <3> QED
      BY <1>1, <3>1
  <2>2. PICK pc \in {"enqueue", "mark"} : pub' = [pub EXCEPT ![w].pc = pc]
    BY <1>4 DEF Publish
  <2> QED
    BY <1>1, <1>4, <2>1, <2>2, StepOn, WorkerType DEF Publish
<1>5. ASSUME NEW w \in Workers, Enqueue(w) PROVE TypeOK'
  <2>1. job' \in [Events -> JobState]
    <3>1. \A j \in JobState : Added(j) \in JobState
      BY DEF Added, JobState
    <3> QED
      BY <1>1, <1>5, <3>1 DEF Enqueue
  <2> QED
    BY <1>1, <1>5, <2>1, StepOn, WorkerType DEF Enqueue
<1>6. ASSUME NEW w \in Workers, MarkPublished(w) PROVE TypeOK'
  <2>1. row' \in [Events -> RowState]
    BY <1>1, <1>6 DEF MarkPublished, RowState
  <2> QED
    BY <1>1, <1>6, <2>1, AfterEvent, WorkerType DEF MarkPublished
<1>7. ASSUME NEW w \in Workers, StepFails(w) PROVE TypeOK'
  BY <1>1, <1>7, StepOn, WorkerType DEF StepFails
<1>8. ASSUME NEW w \in Workers, HandleFailure(w) PROVE TypeOK'
  <2>1. row' \in [Events -> RowState]
    BY <1>1, <1>8 DEF HandleFailure, RowState
  <2> QED
    BY <1>1, <1>8, <2>1, AfterEvent, WorkerType DEF HandleFailure
<1>9. ASSUME NEW w \in Workers, LoseBatch(w) PROVE TypeOK'
  <2>1. losses' \in Nat /\ losses' + overruns + evictions <= MaxFaults
    BY <1>1, <1>9 DEF LoseBatch, Faults
  <2>2. /\ PublisherOK(pub'[w]) /\ pub' \in [Workers -> Publisher]
        /\ \A v \in Workers \ {w} : pub'[v] = pub[v]
    BY <1>9, IdleOK DEF LoseBatch, TypeOK, PublisherOK
  <2> QED
    BY <1>1, <1>9, <2>1, <2>2, WorkerType DEF LoseBatch
<1>10. ASSUME NEW e \in Events, BecomeAvailable(e) PROVE TypeOK'
  <2>1. row' \in [Events -> RowState]
    BY <1>1, <1>10 DEF BecomeAvailable, RowState
  <2>2. overruns' \in Nat /\ losses + overruns' + evictions <= MaxFaults
    BY <1>1, <1>10 DEF BecomeAvailable, Faults
  <2> QED
    BY <1>10, <2>1, <2>2 DEF BecomeAvailable, TypeOK, Faults
<1>11. ASSUME NEW e \in Notifications, SendMail(e) \/ MailFails(e) \/ EvictJob(e)
       PROVE  TypeOK'
  <2>1. e \in Events /\ job[e] \in JobState /\ mails[e] \in Nat
    BY <1>1, OutboxAssumption
  <2>2. job' \in [Events -> JobState]
    BY <1>1, <1>11, <2>1 DEF SendMail, MailFails, EvictJob, JobState, NoJob
  <2>3. mails' \in [Events -> Nat]
    BY <1>1, <1>11, <2>1 DEF SendMail, MailFails, EvictJob
  <2>4. evictions' \in Nat /\ losses + overruns + evictions' <= MaxFaults
    BY <1>1, <1>11 DEF SendMail, MailFails, EvictJob, Faults
  <2>5. UNCHANGED <<row, pub, deliveries, losses, overruns>>
    BY <1>11 DEF SendMail, MailFails, EvictJob
  <2> QED
    BY <2>2, <2>3, <2>4, <2>5 DEF TypeOK, Faults
<1>12. CASE UNCHANGED vars
  BY <1>12 DEF vars, TypeOK, Faults
<1> QED
  BY <1>2, <1>3, <1>4, <1>5, <1>6, <1>7, <1>8, <1>9, <1>10, <1>11, <1>12
  DEF Next, Step

LEMMA InitType == Init => TypeOK
<1> SUFFICES ASSUME Init PROVE TypeOK
  OBVIOUS
<1>1. row \in [Events -> RowState] /\ job \in [Events -> JobState]
  BY DEF Init, RowState, JobState, NoJob
<1>2. /\ pub \in [Workers -> Publisher]
      /\ \A w \in Workers : pub[w].pc = "idle" <=> pub[w].todo = {}
  BY IdleOK DEF Init, PublisherOK
<1> QED
  BY <1>1, <1>2, OutboxAssumption DEF Init, TypeOK, Faults

LEMMA AlwaysTyped == Spec => []TypeOK
<1> QED
  BY InitType, NextType, PTL DEF Spec

\* Every reachable value has its type, and a busy worker has a batch.
THEOREM TypeCorrect == Spec => []TypeOK
BY AlwaysTyped, PTL


----------------------------------------------------------------------------
(* Deliveries. *)

\* The workers that hold event e and have not published it under their claim.
Holders(e) ==
    {w \in Workers :
        /\ e \in pub[w].todo
        /\ pub[w].pc \in {"enqueue", "mark", "failure"} => e # Current(w)}

\* Every delivery, past or possible, had a claim of its own.
ClaimsCover ==
    \A e \in Events :
        /\ IsFiniteSet(Holders(e))
        /\ deliveries[e] + Cardinality(Holders(e)) <= row[e].attempts
        /\ row[e].attempts <= MaxAttempts + 1

\* No more holders, no more deliveries, no other attempts.
LEMMA NoMoreHolders ==
    ASSUME TypeOK, ClaimsCover, NEW e \in Events,
           Holders(e)' \subseteq Holders(e), deliveries'[e] = deliveries[e],
           row'[e].attempts = row[e].attempts
    PROVE  /\ IsFiniteSet(Holders(e)')
           /\ deliveries'[e] + Cardinality(Holders(e)') <= row'[e].attempts
           /\ row'[e].attempts <= MaxAttempts + 1
<1>1. /\ IsFiniteSet(Holders(e)) /\ row[e].attempts <= MaxAttempts + 1
      /\ deliveries[e] + Cardinality(Holders(e)) <= row[e].attempts
  BY DEF ClaimsCover
<1>2. /\ IsFiniteSet(Holders(e)')
      /\ Cardinality(Holders(e)') <= Cardinality(Holders(e))
  BY <1>1, FS_Subset
<1>3. /\ Cardinality(Holders(e)') \in Nat /\ Cardinality(Holders(e)) \in Nat
      /\ deliveries[e] \in Nat /\ row[e].attempts \in Nat
  BY <1>1, <1>2, FS_CardinalityType DEF TypeOK, RowState
<1> QED
  BY <1>1, <1>2, <1>3

\* A worker that goes on with its batch or drops some of it, and publishes
\* nothing.
LEMMA GoesOn ==
    ASSUME TypeOK, ClaimsCover, NEW w \in Workers,
           \A v \in Workers \ {w} : pub'[v] = pub[v],
           \A e \in Events : w \in Holders(e)' => w \in Holders(e),
           deliveries' = deliveries,
           \A e \in Events : row'[e].attempts = row[e].attempts
    PROVE  ClaimsCover'
<1>1. \A e \in Events : Holders(e)' \subseteq Holders(e)
  BY DEF Holders, Current
<1> QED
  BY <1>1, NoMoreHolders DEF ClaimsCover

\* A claim: one attempt more, and one more worker that may publish.
LEMMA ClaimCovered ==
    ASSUME TypeOK, ClaimsCover, NEW w \in Workers, Claim(w)
    PROVE  ClaimsCover'
<1>1. /\ pub'[w].pc = "claimed" /\ pub'[w].todo = Batch
      /\ \A v \in Workers \ {w} : pub'[v] = pub[v]
      /\ pub[w].pc = "idle" /\ pub[w].todo = {}
  BY ClaimType DEF Claim, TypeOK
<1>2. SUFFICES ASSUME NEW e \in Events
               PROVE  /\ IsFiniteSet(Holders(e)')
                      /\ deliveries'[e] + Cardinality(Holders(e)') <= row'[e].attempts
                      /\ row'[e].attempts <= MaxAttempts + 1
  BY DEF ClaimsCover
<1>3. CASE e \in Batch
  <2>1. Holders(e)' = Holders(e) \union {w} /\ w \notin Holders(e)
    BY <1>1, <1>3 DEF Holders, Current
  <2>2. /\ IsFiniteSet(Holders(e))
        /\ deliveries[e] + Cardinality(Holders(e)) <= row[e].attempts
    BY DEF ClaimsCover
  <2>3. /\ IsFiniteSet(Holders(e)')
        /\ Cardinality(Holders(e)') = Cardinality(Holders(e)) + 1
    BY <2>1, <2>2, FS_AddElement
  <2>4. /\ Cardinality(Holders(e)) \in Nat /\ deliveries[e] \in Nat
        /\ row[e].attempts \in Nat
    BY <2>2, FS_CardinalityType DEF TypeOK, RowState
  <2>5. row'[e].attempts = row[e].attempts + 1 /\ deliveries'[e] = deliveries[e]
    BY <1>3 DEF Claim
  <2>6. row[e].attempts <= MaxAttempts
    BY <1>3, <2>4, OutboxAssumption DEF Batch, Claimable
  <2> QED
    BY <2>2, <2>3, <2>4, <2>5, <2>6, OutboxAssumption
<1>4. CASE e \notin Batch
  <2>1. Holders(e)' = Holders(e)
    BY <1>1, <1>4 DEF Holders, Current
  <2>2. row'[e] = row[e] /\ deliveries' = deliveries
    BY <1>4 DEF Claim
  <2> QED
    BY <2>1, <2>2, NoMoreHolders
<1> QED
  BY <1>3, <1>4

\* A delivery: the worker will not publish the event again.
LEMMA PublishCovered ==
    ASSUME TypeOK, ClaimsCover, NEW w \in Workers, Publish(w)
    PROVE  ClaimsCover'
<1>1. PICK c \in Events : c = Current(w) /\ c \in pub[w].todo
  BY CurrentInHand DEF Publish
<1>2. PICK pc \in {"enqueue", "mark"} : pub' = [pub EXCEPT ![w].pc = pc]
  BY DEF Publish
<1>3. /\ pub'[w].pc = pc /\ pub'[w].todo = pub[w].todo
      /\ \A v \in Workers \ {w} : pub'[v] = pub[v]
      /\ pub[w].pc = "publish"
  BY <1>2, StepOn DEF Publish
<1>4. SUFFICES ASSUME NEW e \in Events
               PROVE  /\ IsFiniteSet(Holders(e)')
                      /\ deliveries'[e] + Cardinality(Holders(e)') <= row'[e].attempts
                      /\ row'[e].attempts <= MaxAttempts + 1
  BY DEF ClaimsCover
<1>5. deliveries \in [Events -> Nat]
  BY DEF TypeOK
<1>6. CASE e = c
  <2>1. Holders(e)' = Holders(e) \ {w} /\ w \in Holders(e)
    BY <1>1, <1>3, <1>6 DEF Holders, Current
  <2>2. /\ IsFiniteSet(Holders(e)) /\ row[e].attempts <= MaxAttempts + 1
        /\ deliveries[e] + Cardinality(Holders(e)) <= row[e].attempts
    BY DEF ClaimsCover
  <2>3. /\ IsFiniteSet(Holders(e)')
        /\ Cardinality(Holders(e)') = Cardinality(Holders(e)) - 1
    BY <2>1, <2>2, FS_RemoveElement
  <2>4. Cardinality(Holders(e)) \in Nat /\ row[e].attempts \in Nat
    BY <2>2, FS_CardinalityType DEF TypeOK, RowState
  <2>5. deliveries'[e] = deliveries[e] + 1 /\ row' = row
    BY <1>1, <1>5, <1>6 DEF Publish
  <2> QED
    BY <1>5, <2>2, <2>3, <2>4, <2>5
<1>7. CASE e # c
  <2>1. Holders(e)' = Holders(e)
    BY <1>1, <1>3, <1>7 DEF Holders, Current
  <2>2. deliveries'[e] = deliveries[e] /\ row' = row
    BY <1>1, <1>5, <1>7 DEF Publish
  <2> QED
    BY <2>1, <2>2, NoMoreHolders
<1> QED
  BY <1>6, <1>7

LEMMA NextCovered ==
    ASSUME TypeOK, ClaimsCover, [Next]_vars
    PROVE  ClaimsCover'
<1>1. row \in [Events -> RowState] /\ pub \in [Workers -> Publisher]
  BY DEF TypeOK
<1>2. ASSUME NEW w \in Workers, ReadBatch(w) PROVE ClaimsCover'
  <2>1. /\ pub'[w].todo = pub[w].todo /\ pub[w].pc = "claimed"
        /\ \A v \in Workers \ {w} : pub'[v] = pub[v]
        /\ UNCHANGED <<row, deliveries>>
    BY <1>2, ReadType DEF ReadBatch
  <2>2. \A e \in Events : w \in Holders(e)' => w \in Holders(e)
    BY <2>1 DEF Holders, Current
  <2> QED
    BY <2>1, <2>2, GoesOn
<1>3. ASSUME NEW w \in Workers, NEW pc \in {"mark", "failure"},
             pub[w].pc \in {"publish", "enqueue", "mark"},
             pub' = [pub EXCEPT ![w].pc = pc], UNCHANGED <<row, deliveries>>
      PROVE  ClaimsCover'
  <2>1. /\ pub'[w].pc = pc /\ pub'[w].todo = pub[w].todo
        /\ \A v \in Workers \ {w} : pub'[v] = pub[v]
    BY <1>3, StepOn
  <2>2. \A e \in Events : w \in Holders(e)' => w \in Holders(e)
    BY <2>1 DEF Holders, Current
  <2> QED
    BY <1>3, <2>1, <2>2, GoesOn
<1>4. ASSUME NEW w \in Workers, MarkPublished(w) \/ HandleFailure(w) PROVE ClaimsCover'
  <2>1. pub[w].pc \in {"mark", "failure"} /\ NextEvent(w) /\ deliveries' = deliveries
    BY <1>4 DEF MarkPublished, HandleFailure
  <2>2. \A e \in Events : row'[e].attempts = row[e].attempts
    <3> DEFINE c == Current(w)
               published == [row[c] EXCEPT !.status = "PUBLISHED"]
               after == IF pub[w].seen[c] >= MaxAttempts
                        THEN [row[c] EXCEPT !.status = "FAILED"]
                        ELSE [row[c] EXCEPT !.status = "PENDING", !.available = FALSE]
    <3>1. c \in Events
      BY <2>1, CurrentInHand
    <3>2. row[c] \in RowState
      BY <1>1, <3>1
    <3>3. published.attempts = row[c].attempts /\ after.attempts = row[c].attempts
      BY <3>2 DEF RowState
    <3>4. \/ row' = [row EXCEPT ![c] = published]
          \/ row' = [row EXCEPT ![c] = after]
      BY <1>4, Zenon DEF MarkPublished, HandleFailure
    <3> HIDE DEF c, published, after
    <3> QED
      BY <1>1, <3>1, <3>3, <3>4
  <2>3. /\ pub'[w].todo = pub[w].todo \ {Current(w)}
        /\ \A v \in Workers \ {w} : pub'[v] = pub[v]
    BY <2>1, AfterEvent
  <2>4. \A e \in Events : w \in Holders(e)' => w \in Holders(e)
    BY <2>3 DEF Holders
  <2> QED
    BY <2>1, <2>2, <2>3, <2>4, GoesOn
<1>5. ASSUME NEW w \in Workers, LoseBatch(w) PROVE ClaimsCover'
  <2>1. /\ pub'[w].todo = {} /\ \A v \in Workers \ {w} : pub'[v] = pub[v]
        /\ UNCHANGED <<row, deliveries>>
    BY <1>1, <1>5 DEF LoseBatch, IdlePublisher
  <2>2. \A e \in Events : w \in Holders(e)' => w \in Holders(e)
    BY <2>1 DEF Holders
  <2> QED
    BY <2>1, <2>2, GoesOn
<1>6. ASSUME UNCHANGED <<pub, deliveries>>,
             \A e \in Events : row'[e].attempts = row[e].attempts
      PROVE  ClaimsCover'
  <2>1. \A e \in Events : Holders(e)' = Holders(e)
    BY <1>6 DEF Holders, Current
  <2> QED
    BY <1>6, <2>1, NoMoreHolders DEF ClaimsCover
<1>7. ASSUME NEW w \in Workers, Step(w) PROVE ClaimsCover'
  <2>1. CASE Enqueue(w)
    BY <1>3, <2>1 DEF Enqueue
  <2>2. CASE StepFails(w)
    BY <1>3, <2>2 DEF StepFails
  <2> QED
    BY <1>2, <1>4, <1>7, <2>1, <2>2, ClaimCovered, PublishCovered DEF Step
<1>8. ASSUME NEW e \in Events, BecomeAvailable(e) PROVE ClaimsCover'
  <2>1. \A d \in Events : row'[d].attempts = row[d].attempts
    BY <1>1, <1>8 DEF BecomeAvailable, RowState
  <2> QED
    BY <1>6, <1>8, <2>1 DEF BecomeAvailable
<1>9. CASE \/ \E e \in Notifications : SendMail(e) \/ MailFails(e) \/ EvictJob(e)
           \/ UNCHANGED vars
  BY <1>6, <1>9 DEF SendMail, MailFails, EvictJob, vars
<1> QED
  BY <1>5, <1>7, <1>8, <1>9 DEF Next

\* However leases overrun and workers die, an event is delivered at most once
\* per claim and claimed at most MaxAttempts + 1 times.
THEOREM DeliveriesCorrect == Spec => []DeliveriesBounded
<1>1. Init => ClaimsCover
  <2> SUFFICES ASSUME Init PROVE ClaimsCover
    OBVIOUS
  <2>1. \A e \in Events : Holders(e) = {}
    BY DEF Init, Holders, IdlePublisher
  <2>2. IsFiniteSet({}) /\ Cardinality({}) = 0
    BY FS_EmptySet
  <2>3. MaxAttempts \in Nat
    BY OutboxAssumption
  <2>4. \A e \in Events : deliveries[e] = 0 /\ row[e].attempts = 0
    BY DEF Init
  <2>5. ASSUME NEW e \in Events
        PROVE  /\ IsFiniteSet(Holders(e))
               /\ deliveries[e] + Cardinality(Holders(e)) <= row[e].attempts
               /\ row[e].attempts <= MaxAttempts + 1
    BY <2>1, <2>2, <2>3, <2>4
  <2> QED
    BY <2>5 DEF ClaimsCover
<1>2. TypeOK /\ ClaimsCover /\ [Next]_vars => ClaimsCover'
  BY NextCovered
<1>3. TypeOK /\ ClaimsCover => DeliveriesBounded
  <2> SUFFICES ASSUME TypeOK, ClaimsCover, NEW e \in Events
               PROVE  /\ deliveries[e] <= row[e].attempts
                      /\ row[e].attempts <= MaxAttempts + 1
    BY DEF DeliveriesBounded
  <2>1. /\ IsFiniteSet(Holders(e)) /\ row[e].attempts <= MaxAttempts + 1
        /\ deliveries[e] + Cardinality(Holders(e)) <= row[e].attempts
    BY DEF ClaimsCover
  <2>2. /\ Cardinality(Holders(e)) \in Nat /\ deliveries[e] \in Nat
        /\ row[e].attempts \in Nat
    BY <2>1, FS_CardinalityType DEF TypeOK, RowState
  <2> QED
    BY <2>1, <2>2
<1> QED
  BY <1>1, <1>2, <1>3, AlwaysTyped, PTL DEF Spec

----------------------------------------------------------------------------
(* E-mail. *)

\* A job that is not kept was never tried, or is new.
FreshUntried == \A e \in Events : job[e].state = "none" => job[e].tries = 0

LEMMA NextMails ==
    ASSUME TypeOK, FreshUntried, ReplayDoesNotResend, [Next]_vars
    PROVE  FreshUntried' /\ ReplayDoesNotResend'
<1>1. /\ job \in [Events -> JobState] /\ mails \in [Events -> Nat]
      /\ evictions \in Nat /\ Notifications \subseteq Events
  BY OutboxAssumption DEF TypeOK
<1>2. CASE UNCHANGED <<job, mails, evictions>>
  BY <1>2 DEF FreshUntried, ReplayDoesNotResend
<1>3. ASSUME NEW w \in Workers, Enqueue(w)
      PROVE  FreshUntried' /\ ReplayDoesNotResend'
  <2>1. PICK c \in Events : c = Current(w)
    BY <1>3, CurrentInHand DEF Enqueue
  <2>2. \/ job'[c] = job[c]
        \/ job[c].state = "none" /\ job'[c].state = "waiting" /\ job'[c].tries = 0
    BY <1>1, <1>3, <2>1 DEF Enqueue, Added
  <2>3. \A e \in Events \ {c} : job'[e] = job[e]
    BY <1>1, <1>3, <2>1 DEF Enqueue
  <2>4. UNCHANGED <<mails, evictions>>
    BY <1>3 DEF Enqueue
  <2>5. FreshUntried'
    BY <2>2, <2>3 DEF FreshUntried
  <2>6. ASSUME evictions' = 0, NEW e \in Events
        PROVE  mails'[e] <= job'[e].tries
                            + (IF job'[e].state = "completed" THEN 1 ELSE 0)
    <3>1. mails[e] <= job[e].tries + (IF job[e].state = "completed" THEN 1 ELSE 0)
      BY <2>4, <2>6 DEF ReplayDoesNotResend
    <3>2. CASE job'[e] = job[e]
      BY <2>4, <3>1, <3>2
    <3>3. CASE job[e].state = "none" /\ job'[e].state = "waiting" /\ job'[e].tries = 0
      BY <2>4, <3>1, <3>3 DEF FreshUntried
    <3> QED
      BY <2>2, <2>3, <3>2, <3>3
  <2> QED
    BY <2>5, <2>6 DEF ReplayDoesNotResend
<1>4. ASSUME NEW e \in Notifications, SendMail(e) \/ MailFails(e)
      PROVE  FreshUntried' /\ ReplayDoesNotResend'
  <2>1. e \in Events /\ job[e].tries \in Nat /\ mails[e] \in Nat /\ job[e].state = "waiting"
    BY <1>1, <1>4 DEF SendMail, MailFails, JobState
  <2>2. /\ job'[e].state # "none" /\ job'[e].tries \in Nat
        /\ \/ /\ mails'[e] = mails[e] + 1 /\ job'[e].tries = job[e].tries
              /\ job'[e].state = "completed"
           \/ /\ mails'[e] \in {mails[e], mails[e] + 1}
              /\ job'[e].tries = job[e].tries + 1 /\ job'[e].state # "completed"
    <3>1. CASE SendMail(e)
      BY <1>1, <2>1, <3>1 DEF SendMail, JobState
    <3>2. CASE MailFails(e)
      BY <1>1, <2>1, <3>2 DEF MailFails
    <3> QED
      BY <1>4, <3>1, <3>2
  <2>3. /\ \A d \in Events \ {e} : job'[d] = job[d] /\ mails'[d] = mails[d]
        /\ evictions' = evictions
    BY <1>1, <1>4 DEF SendMail, MailFails
  <2>4. FreshUntried'
    BY <2>2, <2>3 DEF FreshUntried
  <2>5. ASSUME evictions' = 0, NEW d \in Events
        PROVE  mails'[d] <= job'[d].tries
                            + (IF job'[d].state = "completed" THEN 1 ELSE 0)
    <3>1. mails[d] <= job[d].tries + (IF job[d].state = "completed" THEN 1 ELSE 0)
      BY <2>3, <2>5 DEF ReplayDoesNotResend
    <3>2. CASE d = e
      BY <2>1, <2>2, <3>1, <3>2
    <3>3. CASE d # e
      BY <2>3, <3>1, <3>3
    <3> QED
      BY <3>2, <3>3
  <2> QED
    BY <2>4, <2>5 DEF ReplayDoesNotResend
<1>5. ASSUME NEW e \in Notifications, EvictJob(e)
      PROVE  FreshUntried' /\ ReplayDoesNotResend'
  <2>1. evictions' # 0
    BY <1>1, <1>5 DEF EvictJob
  <2>2. FreshUntried'
    BY <1>1, <1>5 DEF EvictJob, FreshUntried, NoJob
  <2> QED
    BY <2>1, <2>2 DEF ReplayDoesNotResend
<1>6. ASSUME NEW w \in Workers, Step(w) \/ LoseBatch(w), ~Enqueue(w)
      PROVE  UNCHANGED <<job, mails, evictions>>
  BY <1>6 DEF Step, LoseBatch, Claim, ReadBatch, Publish, MarkPublished, StepFails,
     HandleFailure
<1>7. CASE (\E e \in Events : BecomeAvailable(e)) \/ UNCHANGED vars
  BY <1>2, <1>7 DEF BecomeAvailable, vars
<1> QED
  BY <1>2, <1>3, <1>4, <1>5, <1>6, <1>7 DEF Next

\* A replayed event sends no second e-mail while the queue keeps its job: for
\* any number of workers that hold the event, and any number of retries.
THEOREM MailsCorrect == Spec => []ReplayDoesNotResend
<1>1. Init => FreshUntried /\ ReplayDoesNotResend
  BY DEF Init, FreshUntried, ReplayDoesNotResend, NoJob
<1>2. TypeOK /\ FreshUntried /\ ReplayDoesNotResend /\ [Next]_vars
        => FreshUntried' /\ ReplayDoesNotResend'
  BY NextMails
<1> QED
  BY <1>1, <1>2, AlwaysTyped, PTL DEF Spec

=============================================================================
