---------------------------- MODULE MediaPipeline ----------------------------
(***************************************************************************)
(* An uploaded file from the browser to the public bucket, and its end.    *)
(*                                                                         *)
(*   - MediaService (apps/api): create hands out a signed upload URL under *)
(*     the quotas of the account; complete looks at the stored object and  *)
(*     queues the job;                                                     *)
(*   - MediaProcessor (apps/worker): process reads the object, scans it,   *)
(*     writes the final object and the public variants, and commits the    *)
(*     row; purge-personal deletes the personal files of an account that   *)
(*     AccountLifecycleReconciler anonymized.                              *)
(*                                                                         *)
(* Rows (PostgreSQL), objects (the object store) and jobs (BullMQ) are     *)
(* written by separate statements: an action is at most one statement.     *)
(* All assets have one owner, as quotas, purges and overlaps are his own,  *)
(* and fall into one day, the period of the quotas.                        *)
(***************************************************************************)
EXTENDS Integers, FiniteSets

CONSTANTS
    Assets,
    Public,       \* the assets of a purpose that is shown to everybody
    Personal,     \* the assets of a personal purpose (profile, KYC, licence)
    Calls,        \* API calls that can be in progress at once
    Workers,      \* processing slots
    MaxActive,    \* MAX_ACTIVE_UPLOADS_PER_USER
    MaxDaily,     \* MAX_DAILY_UPLOADS_PER_USER
    MaxAttempts,  \* attempts of a job
    MaxStalled,   \* how often BullMQ takes a job back from a lost worker
    MaxFaults     \* bound: failing statements, requests and dying processes

ASSUME MediaAssumption ==
    /\ Assets # {} /\ Public \subseteq Assets /\ Personal \subseteq Assets
    /\ "free" \notin Calls
    /\ MaxActive \in Nat \ {0} /\ MaxDaily \in Nat \ {0}
    /\ MaxAttempts \in Nat \ {0} /\ MaxStalled \in Nat /\ MaxFaults \in Nat

VARIABLES
    asset,     \* MediaAsset rows: status, objectKey, whether variants are listed
    object,    \* what the store holds of each asset
    url,       \* the assets with a signed upload URL
    call,      \* API calls in progress
    lock,      \* who holds the account's advisory lock, or "free"
    job,       \* the process job of each asset
    run,       \* what each worker is doing
    purge,     \* the purge-personal job
    departed,  \* the owner's account has been anonymized
    undone,    \* assets whose objects were deleted after a commit of their row
    lost,      \* assets a call, a worker or a deletion was lost with
    faults

rows == <<asset, object>>
vars == <<asset, object, url, call, lock, job, run, purge, departed, undone, lost, faults>>

Active == {"UPLOADING", "UPLOADED", "PROCESSING"}
Status == Active \union {"READY", "REJECTED", "DELETED"}

AssetRow == [status : Status \union {"none"}, key : {"upload", "final"}, listed : BOOLEAN]

\* "other": not the declared size or type; "bad": refused by the scan or the decoder.
Stored == [upload : {"none", "good", "bad", "other"}, final : BOOLEAN, variants : BOOLEAN]

Call == [pc : {"idle", "create", "sign", "head", "claim", "enqueue"}, asset : Assets]

Job == [state : {"none", "waiting", "active", "completed", "failed"},
        attempts : 0..MaxAttempts, stalled : 0..MaxStalled]

\* key: temporaryKey; wrote: writtenObjects;
\* owns: the job is still this worker's.
Run == [pc : {"idle", "mark", "fetch", "put", "variants", "commit", "tidy", "clean", "reject"},
        asset : Assets, key : {"upload", "final"}, wrote : SUBSET {"final", "variants"},
        owns : BOOLEAN]

\* batch: the rows the purge listed and has not finished; next: the one being deleted.
Purge == [state : {"none", "waiting", "active", "failed"}, attempts : 0..MaxAttempts,
          batch : SUBSET [asset : Assets, key : {"upload", "final"}, listed : BOOLEAN],
          mark : SUBSET Assets]

AnyAsset == CHOOSE a \in Assets : TRUE
NoCall == [pc |-> "idle", asset |-> AnyAsset]
NoJob == [state |-> "none", attempts |-> 0, stalled |-> 0]
NoRun == [pc |-> "idle", asset |-> AnyAsset, key |-> "upload", wrote |-> {}, owns |-> FALSE]
NoPurge == [state |-> "none", attempts |-> 0, batch |-> {}, mark |-> {}]

TypeOK ==
    /\ asset \in [Assets -> AssetRow]
    /\ object \in [Assets -> Stored]
    /\ url \subseteq Assets
    /\ call \in [Calls -> Call]
    /\ lock \in Calls \union {"free"}
    /\ job \in [Assets -> Job]
    /\ run \in [Workers -> Run]
    /\ purge \in Purge
    /\ departed \in BOOLEAN
    /\ undone \subseteq Assets
    /\ lost \subseteq Assets
    /\ faults \in 0..MaxFaults

Init ==
    /\ asset = [a \in Assets |-> [status |-> "none", key |-> "upload", listed |-> FALSE]]
    /\ object = [a \in Assets |-> [upload |-> "none", final |-> FALSE, variants |-> FALSE]]
    /\ url = {}
    /\ call = [c \in Calls |-> NoCall]
    /\ lock = "free"
    /\ job = [a \in Assets |-> NoJob]
    /\ run = [w \in Workers |-> NoRun]
    /\ purge = NoPurge
    /\ departed = FALSE
    /\ undone = {} /\ lost = {}
    /\ faults = 0

Fault == faults < MaxFaults /\ faults' = faults + 1

Exists(a) == asset[a].status # "none"
ActiveAssets == {a \in Assets : asset[a].status \in Active}
Created == {a \in Assets : Exists(a)}

----------------------------------------------------------------------------
(* MediaService.create: the lock, the counts, the row, the URL. *)

\* Mutant: the transaction takes no lock.
LockIgnored == TRUE

LockFree == lock = "free"

\* The byte limit is refused like the others; sizes are left out.
BeginCreate(c) ==
    /\ ~departed /\ call[c].pc = "idle" /\ LockFree
    /\ Cardinality(ActiveAssets) < MaxActive
    /\ Cardinality(Created) < MaxDaily
    /\ \E a \in Assets :
        /\ ~Exists(a) /\ \A d \in Calls : call[d] # [pc |-> "create", asset |-> a]
        /\ call' = [call EXCEPT ![c] = [pc |-> "create", asset |-> a]]
    /\ lock' = c
    /\ UNCHANGED <<rows, url, job, run, purge, departed, undone, lost, faults>>

InsertAsset(c) ==
    /\ call[c].pc = "create"
    /\ asset' = [asset EXCEPT ![call[c].asset].status = "UPLOADING"]
    /\ call' = [call EXCEPT ![c].pc = "sign"]
    /\ lock' = "free"
    /\ UNCHANGED <<object, url, job, run, purge, departed, undone, lost, faults>>

SignUrl(c) ==
    /\ call[c].pc = "sign"
    /\ url' = url \union {call[c].asset}
    /\ call' = [call EXCEPT ![c] = NoCall]
    /\ UNCHANGED <<rows, lock, job, run, purge, departed, undone, lost, faults>>

\* No URL: the row is given up, if the database answers.
FailSign(c) ==
    /\ call[c].pc = "sign" /\ Fault
    /\ \/ asset' = [asset EXCEPT ![call[c].asset].status = "REJECTED"]
       \/ UNCHANGED asset
    /\ call' = [call EXCEPT ![c] = NoCall]
    /\ UNCHANGED <<object, url, lock, job, run, purge, departed, undone, lost>>

----------------------------------------------------------------------------
(* The browser.  Its URL lives for ten minutes, and with the bucket's rule *)
(* that forgets uploads after a day it is taken never to end.              *)

PutUpload(a) ==
    /\ a \in url
    /\ \E content \in {"good", "bad", "other"} :
        object' = [object EXCEPT ![a].upload = content]
    /\ UNCHANGED <<asset, url, call, lock, job, run, purge, departed, undone, lost, faults>>

----------------------------------------------------------------------------
(* MediaService.complete: read, look at the object, claim the row, queue. *)

\* A row that is further on is answered at once and changes nothing.
BeginComplete(c) ==
    /\ ~departed /\ call[c].pc = "idle"
    /\ \E a \in Assets :
        /\ asset[a].status = "UPLOADING"
        /\ call' = [call EXCEPT ![c] = [pc |-> "head", asset |-> a]]
    /\ UNCHANGED <<rows, url, lock, job, run, purge, departed, undone, lost, faults>>

\* Size and type are those declared; else the call ends with a conflict.
HeadUpload(c) ==
    /\ call[c].pc = "head"
    /\ call' = IF object[call[c].asset].upload \in {"good", "bad"}
               THEN [call EXCEPT ![c].pc = "claim"] ELSE [call EXCEPT ![c] = NoCall]
    /\ UNCHANGED <<rows, url, lock, job, run, purge, departed, undone, lost, faults>>

ClaimUpload(c) ==
    LET a == call[c].asset
    IN  /\ call[c].pc = "claim"
        /\ \/ /\ asset[a].status = "UPLOADING"
              /\ asset' = [asset EXCEPT ![a].status = "UPLOADED"]
              /\ call' = [call EXCEPT ![c].pc = "enqueue"]
           \/ /\ asset[a].status # "UPLOADING"
              /\ call' = [call EXCEPT ![c] = NoCall]
              /\ UNCHANGED asset
        /\ UNCHANGED <<object, url, lock, job, run, purge, departed, undone, lost, faults>>

\* The job's id is the asset's: a second job of an asset is not added.
EnqueueJob(c) ==
    LET a == call[c].asset
    IN  /\ call[c].pc = "enqueue"
        /\ job' = IF job[a] = NoJob THEN [job EXCEPT ![a].state = "waiting"] ELSE job
        /\ call' = [call EXCEPT ![c] = NoCall]
        /\ UNCHANGED <<rows, url, lock, run, purge, departed, undone, lost, faults>>

\* The API dies, or the queue does not answer.  A transaction that had not
\* committed leaves nothing; its lock is released with it.
LoseCall(c) ==
    /\ call[c].pc # "idle" /\ Fault
    /\ lost' = lost \union (IF call[c].pc = "enqueue" THEN {call[c].asset} ELSE {})
    /\ lock' = IF lock = c THEN "free" ELSE lock
    /\ call' = [call EXCEPT ![c] = NoCall]
    /\ UNCHANGED <<rows, url, job, run, purge, departed, undone>>

----------------------------------------------------------------------------
(* MediaProcessor.process *)

At(w, pc) == run[w].pc = pc
Step(w, pc) == run' = [run EXCEPT ![w].pc = pc]

\* A worker that lost its job to a stall can neither complete nor fail it.
Leave(w, result) ==
    LET a == run[w].asset
        made == job[a].attempts + 1
        again == result = "failed" /\ made < MaxAttempts
    IN  /\ run' = [run EXCEPT ![w] = NoRun]
        /\ job' = IF ~run[w].owns THEN job
                  ELSE [job EXCEPT ![a].state = IF again THEN "waiting" ELSE result,
                                   ![a].attempts = made]

Finished(a) == asset[a].status \in {"READY", "DELETED"}

\* The job is taken and the row read.
TakeJob(w, a) ==
    /\ At(w, "idle") /\ job[a].state = "waiting"
    /\ \/ /\ Finished(a)
          /\ job' = [job EXCEPT ![a].state = "completed"]
          /\ UNCHANGED run
       \/ /\ ~Finished(a)
          /\ job' = [job EXCEPT ![a].state = "active"]
          /\ run' = [run EXCEPT ![w] = [pc |-> "mark", asset |-> a, key |-> asset[a].key,
                                        wrote |-> {}, owns |-> TRUE]]
    /\ UNCHANGED <<rows, url, call, lock, purge, departed, undone, lost, faults>>

\* The row is updated by its id, whatever its status is by now.
MarkProcessing(w) ==
    /\ At(w, "mark")
    /\ asset' = [asset EXCEPT ![run[w].asset].status = "PROCESSING"]
    /\ Step(w, "fetch")
    /\ UNCHANGED <<object, url, call, lock, job, purge, departed, undone, lost, faults>>

Readable(w) ==
    LET o == object[run[w].asset]
    IN  IF run[w].key = "final" THEN o.final ELSE o.upload = "good"

\* The object is read once; what was read is scanned, identified and decoded.
FetchAndScan(w) ==
    /\ At(w, "fetch")
    /\ Step(w, IF Readable(w) THEN "put" ELSE "clean")
    /\ UNCHANGED <<rows, url, call, lock, job, purge, departed, undone, lost, faults>>

PutFinal(w) ==
    LET a == run[w].asset
    IN  /\ At(w, "put")
        /\ object' = [object EXCEPT ![a].final = TRUE]
        /\ run' = [run EXCEPT ![w].wrote = {"final"},
                              ![w].pc = IF a \in Public THEN "variants" ELSE "commit"]
        /\ UNCHANGED <<asset, url, call, lock, job, purge, departed, undone, lost, faults>>

PutVariants(w) ==
    /\ At(w, "variants")
    /\ object' = [object EXCEPT ![run[w].asset].variants = TRUE]
    /\ run' = [run EXCEPT ![w].wrote = @ \union {"variants"}, ![w].pc = "commit"]
    /\ UNCHANGED <<asset, url, call, lock, job, purge, departed, undone, lost, faults>>

CommitReady(w) ==
    LET a == run[w].asset
    IN  /\ At(w, "commit")
        /\ asset' = [asset EXCEPT ![a] = [status |-> "READY", key |-> "final",
                                          listed |-> @.listed \/ a \in Public]]
        /\ Step(w, "tidy")
        /\ UNCHANGED <<object, url, call, lock, job, purge, departed, undone, lost, faults>>

Without(o, kinds) ==
    [upload |-> IF "upload" \in kinds THEN "none" ELSE o.upload,
     final |-> o.final /\ "final" \notin kinds,
     variants |-> o.variants /\ "variants" \notin kinds]

\* Mutant: the object the row now names is deleted in place of the upload.
TidyFinal(w) == {"final"}

\* The object that was read is no longer needed.  If the attempt had started
\* from the final object, it is that one.
Temporary(w) == {run[w].key}

DeleteTemporary(w) ==
    LET a == run[w].asset
    IN  /\ At(w, "tidy")
        /\ object' = [object EXCEPT ![a] = Without(@, Temporary(w))]
        /\ Leave(w, "completed")
        /\ UNCHANGED <<asset, url, call, lock, purge, departed, undone, lost, faults>>

\* Any request or statement of the attempt fails: the handler takes over.
FailStep(w) ==
    /\ run[w].pc \in {"fetch", "put", "variants", "commit", "tidy"} /\ Fault
    /\ Step(w, "clean")
    /\ UNCHANGED <<rows, url, call, lock, job, purge, departed, undone, lost>>

\* Mutant: the handler forgets what the attempt has written.
OnlyTemporary(w) == {run[w].key}

ToClean(w) == {run[w].key} \union run[w].wrote

\* Each deletion may fail; the handler waits for all of them.
CleanUp(w) ==
    LET a == run[w].asset
        all == ToClean(w)
    IN  /\ At(w, "clean")
        /\ \/ /\ object' = [object EXCEPT ![a] = Without(@, all)]
              /\ UNCHANGED <<lost, faults>>
           \/ /\ \E k \in all : object' = [object EXCEPT ![a] = Without(@, all \ {k})]
              /\ lost' = lost \union {a}
              /\ Fault
        /\ undone' = undone \union (IF asset[a].key = "final" THEN {a} ELSE {})
        /\ Step(w, "reject")
        /\ UNCHANGED <<asset, url, call, lock, job, purge, departed>>

\* Mutant: the handler throws before it updates the row.
RejectNothing(w) ==
    /\ At(w, "reject")
    /\ Leave(w, "failed")
    /\ UNCHANGED <<rows, url, call, lock, purge, departed, undone, lost, faults>>

Reject(w) ==
    /\ At(w, "reject")
    /\ asset' = [asset EXCEPT ![run[w].asset].status = "REJECTED"]
    /\ Leave(w, "failed")
    /\ UNCHANGED <<object, url, call, lock, purge, departed, undone, lost, faults>>

\* A statement outside the handler's reach fails: the attempt ends as it is.
FailRow(w) ==
    /\ run[w].pc \in {"mark", "reject"} /\ Fault
    /\ lost' = lost \union {run[w].asset}
    /\ Leave(w, "failed")
    /\ UNCHANGED <<rows, url, call, lock, purge, departed, undone>>

----------------------------------------------------------------------------
(* BullMQ: a job whose worker does not renew its lock is given to another, *)
(* whether the worker died or was only slow.                               *)

TakenBack(a) ==
    [job EXCEPT ![a] = IF @.stalled < MaxStalled
                       THEN [@ EXCEPT !.state = "waiting", !.stalled = job[a].stalled + 1]
                       ELSE [@ EXCEPT !.state = "failed"]]

LoseWorker(w) ==
    LET a == run[w].asset
    IN  /\ ~At(w, "idle") /\ Fault
        /\ lost' = lost \union {a}
        /\ job' = IF run[w].owns THEN TakenBack(a) ELSE job
        /\ run' = [run EXCEPT ![w] = NoRun]
        /\ UNCHANGED <<rows, url, call, lock, purge, departed, undone>>

Stall(w) ==
    LET a == run[w].asset
    IN  /\ ~At(w, "idle") /\ run[w].owns /\ Fault
        /\ lost' = lost \union {a}
        /\ job' = TakenBack(a)
        /\ run' = [run EXCEPT ![w].owns = FALSE]
        /\ UNCHANGED <<rows, url, call, lock, purge, departed, undone>>

----------------------------------------------------------------------------
(* The end of the account: anonymize, then purge-personal. *)

Anonymize ==
    /\ ~departed
    /\ departed' = TRUE
    /\ UNCHANGED <<rows, url, call, lock, job, run, purge, undone, lost, faults>>

\* Mutant: only finished files are looked for.
ReadyToPurge == {a \in Personal : asset[a].status = "READY"}

ToPurge == {a \in Personal : asset[a].status \notin {"none", "DELETED"}}

\* A failed job is kept under its id, and then none is added again.
SchedulePurge ==
    /\ departed /\ ToPurge # {} /\ purge.state = "none"
    /\ purge' = [NoPurge EXCEPT !.state = "waiting"]
    /\ UNCHANGED <<rows, url, call, lock, job, run, departed, undone, lost, faults>>

ListPersonal ==
    /\ purge.state = "waiting"
    /\ purge' = [state |-> "active", attempts |-> purge.attempts + 1, mark |-> {},
                 batch |-> {[asset |-> a, key |-> asset[a].key, listed |-> asset[a].listed] :
                                a \in ToPurge}]
    /\ UNCHANGED <<rows, url, call, lock, job, run, departed, undone, lost, faults>>

\* What is deleted is what the listing knew: the key and the variants of then.
DeletePersonal ==
    /\ purge.state = "active" /\ purge.mark = {}
    /\ \E item \in purge.batch :
        LET a == item.asset
            known == {item.key} \union (IF item.listed THEN {"variants"} ELSE {})
        IN  /\ object' = [object EXCEPT ![a] = Without(@, known)]
            /\ undone' = undone \union (IF asset[a].key = "final" THEN {a} ELSE {})
            /\ purge' = [purge EXCEPT !.batch = @ \ {item}, !.mark = {a}]
    /\ UNCHANGED <<asset, url, call, lock, job, run, departed, lost, faults>>

MarkDeleted ==
    /\ purge.state = "active"
    /\ \E a \in purge.mark : asset' = [asset EXCEPT ![a].status = "DELETED"]
    /\ purge' = [purge EXCEPT !.mark = {}]
    /\ UNCHANGED <<object, url, call, lock, job, run, departed, undone, lost, faults>>

FinishPurge ==
    /\ purge.state = "active" /\ purge.batch = {} /\ purge.mark = {}
    /\ purge' = NoPurge
    /\ UNCHANGED <<rows, url, call, lock, job, run, departed, undone, lost, faults>>

FailPurge ==
    /\ purge.state = "active" /\ Fault
    /\ purge' = [NoPurge EXCEPT !.attempts = purge.attempts,
                    !.state = IF purge.attempts < MaxAttempts THEN "waiting" ELSE "failed"]
    /\ UNCHANGED <<rows, url, call, lock, job, run, departed, undone, lost>>

----------------------------------------------------------------------------
CallStep(c) ==
    BeginCreate(c) \/ InsertAsset(c) \/ SignUrl(c) \/ FailSign(c) \/ BeginComplete(c)
    \/ HeadUpload(c) \/ ClaimUpload(c) \/ EnqueueJob(c) \/ LoseCall(c)

Work(w) ==
    \/ \E a \in Assets : TakeJob(w, a)
    \/ MarkProcessing(w) \/ FetchAndScan(w) \/ PutFinal(w) \/ PutVariants(w)
    \/ CommitReady(w) \/ DeleteTemporary(w) \/ CleanUp(w) \/ Reject(w)

WorkerFault(w) == FailStep(w) \/ FailRow(w) \/ LoseWorker(w) \/ Stall(w)

PurgeStep == SchedulePurge \/ ListPersonal \/ DeletePersonal \/ MarkDeleted \/ FinishPurge

Next ==
    \/ \E c \in Calls : CallStep(c)
    \/ \E a \in Assets : PutUpload(a)
    \/ \E w \in Workers : Work(w) \/ WorkerFault(w)
    \/ Anonymize \/ PurgeStep \/ FailPurge

\* What was claimed is queued, workers work, the reconciler's passes go on;
\* browsers and faults need not.
Fairness ==
    /\ WF_vars(\E c \in Calls : EnqueueJob(c))
    /\ WF_vars(\E w \in Workers : Work(w))
    /\ WF_vars(PurgeStep)

Spec == Init /\ [][Next]_vars /\ Fairness

----------------------------------------------------------------------------
(* Properties. *)

\* However many creations overlap, an account gets no more upload sessions a
\* day than its quota: the counts and the insert are one critical section
\* (create, the advisory lock).  The limit on active uploads is no invariant:
\* the retry of a rejected file makes it active again.
DailyQuota == Cardinality(Created) <= MaxDaily

Complete(a) == object[a].final /\ (asset[a].listed => object[a].variants)

\* What the application shows or lets download exists: a READY file has its
\* final object and its variants, unless the failure handler or the purge
\* deleted them after the commit, or the job had been given to two workers
\* (processAsset, its handler, and the check for READY that ends a repeat).
ReadyIsServable ==
    \A a \in Assets : asset[a].status = "READY" =>
        Complete(a) \/ a \in undone \/ job[a].stalled > 0

\* docs/security-assessment.md:15: rejected objects are deleted.  Nobody can
\* read the final object or the variants of a file that was rejected, unless a
\* deletion, a statement or a worker was lost with it: the handler knows what
\* its attempt has written, whatever other attempts did (writtenObjects).
RejectedLeavesNothing ==
    \A a \in Assets :
        asset[a].status = "REJECTED" /\ (\A w \in Workers : At(w, "idle") \/ run[w].asset # a)
            => (~object[a].final /\ ~object[a].variants) \/ a \in lost

\* A file that was handed in is decided, unless a process was lost with it
\* between two statements (complete, processAsset, the attempts of the job).
HandedInIsDecided ==
    \A a \in Assets :
        asset[a].status \in {"UPLOADED", "PROCESSING"} ~>
            asset[a].status \in {"READY", "REJECTED", "DELETED"} \/ a \in lost

\* The personal files of a departed account are marked deleted in the end, also
\* those a worker wrote while the purge ran, unless the job ran out of attempts
\* (schedulePersonalMediaPurges, purgePersonalMedia).
PurgedInTheEnd ==
    departed ~> \/ \A a \in Personal : asset[a].status \in {"none", "DELETED"}
                \/ purge.state = "failed"

\* docs/operations.md:33: in an outage uploads wait, and afterwards the jobs are
\* retried.  An attempt that ends for another reason than the file itself, and
\* will be repeated, leaves the upload for the next one.
OutageKeepsUpload ==
    [][\A w \in Workers :
        CleanUp(w) /\ Readable(w) /\ job[run[w].asset].attempts + 1 < MaxAttempts =>
            object'[run[w].asset].upload = object[run[w].asset].upload]_vars
=============================================================================
