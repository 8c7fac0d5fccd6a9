------------------------ MODULE MediaPipelineProofs ------------------------
(***************************************************************************)
(* Theorems about uploads, for every number of assets, calls, workers,     *)
(* attempts, stalls and faults.                                            *)
(*                                                                         *)
(*   - The quota: the lock makes the counts and the insertion one critical *)
(*     section, and only the insertion makes an asset exist.               *)
(*   - What is READY and what was rejected: as long as nothing stalled, an *)
(*     asset is in the hands of one worker at most, who knows what it has  *)
(*     written.                                                            *)
(***************************************************************************)
EXTENDS MediaPipeline, FiniteSetTheorems, TLAPS

CallPc == {"idle", "create", "sign", "head", "claim", "enqueue"}
RunPc == {"idle", "mark", "fetch", "put", "variants", "commit", "tidy", "clean", "reject"}

\* A job that may run again has attempts left, and one worker at most owns it.
OwnedOnce ==
    /\ \A a \in Assets : job[a].state \in {"waiting", "active"} => job[a].attempts < MaxAttempts
    /\ \A w \in Workers : run[w].owns =>
         /\ ~At(w, "idle") /\ job[run[w].asset].state = "active"
         /\ \A v \in Workers : run[v].owns /\ run[v].asset = run[w].asset => v = w
    /\ purge.state = "waiting" => purge.attempts < MaxAttempts

Typed == TypeOK /\ OwnedOnce

----------------------------------------------------------------------------
(* What the steps do to a row, a call, a run and a job. *)

LEMMA NothingYet ==
    /\ AnyAsset \in Assets /\ NoCall \in Call /\ NoJob \in Job /\ NoRun \in Run
    /\ NoPurge \in Purge
<1>1. AnyAsset \in Assets
  BY MediaAssumption DEF AnyAsset
<1>2. 0 \in 0..MaxAttempts /\ 0 \in 0..MaxStalled
  BY MediaAssumption
<1> QED
  BY <1>1, <1>2 DEF NoCall, NoJob, NoRun, NoPurge, Call, Job, Run, Purge

LEMMA SetStatus ==
    ASSUME TypeOK, NEW a \in Assets, NEW s \in Status,
           asset' = [asset EXCEPT ![a].status = s]
    PROVE  /\ asset' \in [Assets -> AssetRow]
           /\ asset'[a].status = s
           /\ asset'[a].key = asset[a].key /\ asset'[a].listed = asset[a].listed
           /\ \A b \in Assets \ {a} : asset'[b] = asset[b]
<1> DEFINE r == [asset[a] EXCEPT !.status = s]
<1>1. asset \in [Assets -> AssetRow] /\ asset[a] \in AssetRow
  BY DEF TypeOK
<1>2. r \in AssetRow /\ r.status = s /\ r.key = asset[a].key /\ r.listed = asset[a].listed
  BY <1>1 DEF AssetRow
<1>3. asset' = [asset EXCEPT ![a] = r]
  OBVIOUS
<1> HIDE DEF r
<1> QED
  BY <1>1, <1>2, <1>3

LEMMA SetCall ==
    ASSUME TypeOK, NEW c \in Calls, NEW pc \in CallPc, call' = [call EXCEPT ![c].pc = pc]
    PROVE  /\ call' \in [Calls -> Call]
           /\ call'[c].pc = pc /\ call'[c].asset = call[c].asset
           /\ \A d \in Calls \ {c} : call'[d] = call[d]
<1> DEFINE r == [call[c] EXCEPT !.pc = pc]
<1>1. call \in [Calls -> Call] /\ call[c] \in Call
  BY DEF TypeOK
<1>2. r \in Call /\ r.pc = pc /\ r.asset = call[c].asset
  BY <1>1 DEF Call, CallPc
<1>3. call' = [call EXCEPT ![c] = r]
  OBVIOUS
<1> HIDE DEF r
<1> QED
  BY <1>1, <1>2, <1>3

LEMMA EndCall ==
    ASSUME TypeOK, NEW c \in Calls, call' = [call EXCEPT ![c] = NoCall]
    PROVE  /\ call' \in [Calls -> Call] /\ call'[c].pc = "idle"
           /\ \A d \in Calls \ {c} : call'[d] = call[d]
BY NothingYet DEF TypeOK, NoCall

LEMMA StepRun ==
    ASSUME TypeOK, NEW w \in Workers, NEW pc \in RunPc, Step(w, pc)
    PROVE  /\ run' \in [Workers -> Run]
           /\ run'[w].pc = pc /\ run'[w].asset = run[w].asset
           /\ run'[w].key = run[w].key /\ run'[w].wrote = run[w].wrote
           /\ run'[w].owns = run[w].owns
           /\ \A v \in Workers \ {w} : run'[v] = run[v]
<1> DEFINE r == [run[w] EXCEPT !.pc = pc]
<1>1. run \in [Workers -> Run] /\ run[w] \in Run
  BY DEF TypeOK
<1>2. /\ r \in Run /\ r.pc = pc /\ r.asset = run[w].asset
      /\ r.key = run[w].key /\ r.wrote = run[w].wrote /\ r.owns = run[w].owns
  BY <1>1 DEF Run, RunPc
<1>3. run' = [run EXCEPT ![w] = r]
  BY DEF Step
<1> HIDE DEF r
<1> QED
  BY <1>1, <1>2, <1>3

\* An attempt ends; a worker that has lost its job leaves the job alone.
LEMMA LeaveRun ==
    ASSUME Typed, NEW w \in Workers, NEW result \in {"completed", "failed"}, Leave(w, result)
    PROVE  LET a == run[w].asset
           IN  /\ run' \in [Workers -> Run] /\ run'[w] = NoRun
               /\ \A v \in Workers \ {w} : run'[v] = run[v]
               /\ job' \in [Assets -> Job]
               /\ \A b \in Assets \ {a} : job'[b] = job[b]
               /\ job'[a].stalled = job[a].stalled
               /\ ~run[w].owns => job'[a] = job[a]
               /\ run[w].owns => /\ job'[a].state \in {result, "waiting"}
                                 /\ result = "completed" => job'[a].state = result
                                 /\ job'[a].state = "waiting" => job'[a].attempts < MaxAttempts
<1> DEFINE a == run[w].asset
           again == result = "failed" /\ job[a].attempts + 1 < MaxAttempts
           state == IF again THEN "waiting" ELSE result
           made == job[a].attempts + 1
           r == [job[a] EXCEPT !.state = state, !.attempts = made]
<1>1. /\ run \in [Workers -> Run] /\ run[w] \in Run /\ a \in Assets
      /\ job \in [Assets -> Job] /\ job[a] \in Job
  BY DEF Typed, TypeOK, Run
<1>2. run' = [run EXCEPT ![w] = NoRun]
  BY DEF Leave
<1>3. CASE ~run[w].owns
  <2>1. job' = job
    BY <1>3 DEF Leave
  <2> QED
    BY <1>1, <1>2, <1>3, <2>1, NothingYet
<1>4. CASE run[w].owns
  <2>1. job[a].state = "active" /\ job[a].attempts < MaxAttempts
    BY <1>1, <1>4 DEF Typed, OwnedOnce
  <2>2. made \in 0..MaxAttempts
    BY <1>1, <2>1, MediaAssumption DEF Job
  <2>3. state \in {result, "waiting"} /\ (result = "completed" => state = result)
    OBVIOUS
  <2>4. state = "waiting" => made < MaxAttempts
    OBVIOUS
  <2>5. job' = [job EXCEPT ![a] = r]
    BY <1>4 DEF Leave
  <2> HIDE DEF made, again, state
  <2>6. r \in Job /\ r.state = state /\ r.attempts = made /\ r.stalled = job[a].stalled
    BY <1>1, <2>2, <2>3 DEF Job
  <2> HIDE DEF r
  <2> QED
    BY <1>1, <1>2, <1>4, <2>3, <2>4, <2>5, <2>6, NothingYet
<1> QED
  BY <1>3, <1>4

\* BullMQ takes a job back.
LEMMA TakeBack ==
    ASSUME Typed, NEW a \in Assets, job[a].state = "active", job' = TakenBack(a)
    PROVE  /\ job' \in [Assets -> Job]
           /\ \A b \in Assets \ {a} : job'[b] = job[b]
           /\ job'[a].state \in {"waiting", "failed"}
           /\ job'[a].attempts = job[a].attempts
           /\ job'[a].stalled >= job[a].stalled
           /\ job'[a].stalled > 0 \/ job'[a].state = "failed"
<1> DEFINE more == job[a].stalled + 1
           again == [job[a] EXCEPT !.state = "waiting", !.stalled = more]
           over == [job[a] EXCEPT !.state = "failed"]
<1>1. job \in [Assets -> Job] /\ job[a] \in Job /\ MaxStalled \in Nat
  BY MediaAssumption DEF Typed, TypeOK
<1>2. CASE job[a].stalled < MaxStalled
  <2>1. job' = [job EXCEPT ![a] = again]
    BY <1>2 DEF TakenBack
  <2>2. more \in 0..MaxStalled /\ more > 0 /\ more >= job[a].stalled
    BY <1>1, <1>2 DEF Job
  <2> HIDE DEF more
  <2>3. /\ again \in Job /\ again.state = "waiting" /\ again.attempts = job[a].attempts
        /\ again.stalled = more
    BY <1>1, <2>2 DEF Job
  <2> HIDE DEF again
  <2> QED
    BY <1>1, <2>1, <2>2, <2>3
<1>3. CASE ~(job[a].stalled < MaxStalled)
  <2>1. job' = [job EXCEPT ![a] = over]
    BY <1>3 DEF TakenBack
  <2>2. /\ over \in Job /\ over.state = "failed" /\ over.attempts = job[a].attempts
        /\ over.stalled = job[a].stalled /\ over.stalled >= job[a].stalled
    BY <1>1 DEF Job
  <2> HIDE DEF over
  <2> QED
    BY <1>1, <2>1, <2>2
<1> QED
  BY <1>2, <1>3

\* What stays in the store when some kinds of an object are deleted.
LEMMA Deleted ==
    ASSUME TypeOK, NEW a \in Assets, NEW kinds,
           object' = [object EXCEPT ![a] = Without(object[a], kinds)]
    PROVE  /\ object' \in [Assets -> Stored]
           /\ \A b \in Assets \ {a} : object'[b] = object[b]
           /\ object'[a].upload # "none" => object[a].upload # "none"
           /\ object'[a].final <=> (object[a].final /\ "final" \notin kinds)
           /\ object'[a].variants <=> (object[a].variants /\ "variants" \notin kinds)
<1> DEFINE r == Without(object[a], kinds)
<1>1. object \in [Assets -> Stored] /\ object[a] \in Stored
  BY DEF TypeOK
<1>2. /\ r \in Stored
      /\ r.upload # "none" => object[a].upload # "none"
      /\ r.final <=> (object[a].final /\ "final" \notin kinds)
      /\ r.variants <=> (object[a].variants /\ "variants" \notin kinds)
  BY <1>1 DEF Stored, Without
<1> HIDE DEF r
<1>3. object' = [object EXCEPT ![a] = r]
  BY DEF r
<1> QED
  BY <1>1, <1>2, <1>3

\* The store after a change of one object.
LEMMA Put ==
    ASSUME TypeOK, NEW a \in Assets, NEW o \in Stored, object' = [object EXCEPT ![a] = o]
    PROVE  /\ object' \in [Assets -> Stored] /\ object'[a] = o
           /\ \A b \in Assets \ {a} : object'[b] = object[b]
BY DEF TypeOK

LEMMA PutFinalDoes ==
    ASSUME TypeOK, NEW w \in Workers, PutFinal(w)
    PROVE  LET a == run[w].asset
           IN  /\ object' \in [Assets -> Stored]
               /\ object'[a].final /\ object'[a].upload = object[a].upload
               /\ object'[a].variants = object[a].variants
               /\ \A b \in Assets \ {a} : object'[b] = object[b]
               /\ run' \in [Workers -> Run]
               /\ run'[w].pc = IF a \in Public THEN "variants" ELSE "commit"
               /\ run'[w].wrote = {"final"} /\ run'[w].asset = a
               /\ run'[w].key = run[w].key /\ run'[w].owns = run[w].owns
               /\ \A v \in Workers \ {w} : run'[v] = run[v]
<1> DEFINE a == run[w].asset
           o == [object[a] EXCEPT !.final = TRUE]
           pc == IF a \in Public THEN "variants" ELSE "commit"
           r == [run[w] EXCEPT !.wrote = {"final"}, !.pc = pc]
<1>1. /\ run \in [Workers -> Run] /\ run[w] \in Run /\ a \in Assets
      /\ object[a] \in Stored
  BY DEF TypeOK, Run
<1>2. /\ o \in Stored /\ o.final /\ o.upload = object[a].upload
      /\ o.variants = object[a].variants
  BY <1>1 DEF Stored
<1>3. /\ r \in Run /\ r.pc = pc /\ r.wrote = {"final"} /\ r.asset = a
      /\ r.key = run[w].key /\ r.owns = run[w].owns
  BY <1>1 DEF Run
<1>4. object' = [object EXCEPT ![a] = o] /\ run' = [run EXCEPT ![w] = r]
  BY DEF PutFinal
<1> HIDE DEF a, o, r, pc
<1>5. run' \in [Workers -> Run] /\ run'[w] = r /\ \A v \in Workers \ {w} : run'[v] = run[v]
  BY <1>1, <1>3, <1>4
<1>6. /\ object' \in [Assets -> Stored] /\ object'[a] = o
      /\ \A b \in Assets \ {a} : object'[b] = object[b]
  BY <1>1, <1>2, <1>4, Put
<1> QED
  BY <1>2, <1>3, <1>5, <1>6 DEF a, pc

LEMMA PutVariantsDoes ==
    ASSUME TypeOK, NEW w \in Workers, PutVariants(w)
    PROVE  LET a == run[w].asset
           IN  /\ object' \in [Assets -> Stored]
               /\ object'[a].variants /\ object'[a].upload = object[a].upload
               /\ object'[a].final = object[a].final
               /\ \A b \in Assets \ {a} : object'[b] = object[b]
               /\ run' \in [Workers -> Run] /\ run'[w].pc = "commit"
               /\ run'[w].wrote = run[w].wrote \union {"variants"} /\ run'[w].asset = a
               /\ run'[w].key = run[w].key /\ run'[w].owns = run[w].owns
               /\ \A v \in Workers \ {w} : run'[v] = run[v]
<1> DEFINE a == run[w].asset
           o == [object[a] EXCEPT !.variants = TRUE]
           wrote == run[w].wrote \union {"variants"}
           r == [run[w] EXCEPT !.wrote = wrote, !.pc = "commit"]
<1>1. /\ run \in [Workers -> Run] /\ run[w] \in Run /\ a \in Assets
      /\ object[a] \in Stored
  BY DEF TypeOK, Run
<1>2. /\ o \in Stored /\ o.variants /\ o.upload = object[a].upload
      /\ o.final = object[a].final
  BY <1>1 DEF Stored
<1>3. wrote \in SUBSET {"final", "variants"}
  BY <1>1 DEF Run
<1>4. object' = [object EXCEPT ![a] = o] /\ run' = [run EXCEPT ![w] = r]
  BY DEF PutVariants
<1> HIDE DEF wrote
<1>5. /\ r \in Run /\ r.pc = "commit" /\ r.wrote = wrote /\ r.asset = a
      /\ r.key = run[w].key /\ r.owns = run[w].owns
  BY <1>1, <1>3 DEF Run
<1> HIDE DEF a, o, r
<1>6. run' \in [Workers -> Run] /\ run'[w] = r /\ \A v \in Workers \ {w} : run'[v] = run[v]
  BY <1>1, <1>4, <1>5
<1>7. /\ object' \in [Assets -> Stored] /\ object'[a] = o
      /\ \A b \in Assets \ {a} : object'[b] = object[b]
  BY <1>1, <1>2, <1>4, Put
<1> QED
  BY <1>2, <1>5, <1>6, <1>7 DEF a, wrote

LEMMA CommitDoes ==
    ASSUME TypeOK, NEW w \in Workers, CommitReady(w)
    PROVE  LET a == run[w].asset
           IN  /\ asset' \in [Assets -> AssetRow]
               /\ asset'[a].status = "READY" /\ asset'[a].key = "final"
               /\ asset'[a].listed <=> (asset[a].listed \/ a \in Public)
               /\ \A b \in Assets \ {a} : asset'[b] = asset[b]
<1> DEFINE a == run[w].asset
           r == [status |-> "READY", key |-> "final",
                 listed |-> asset[a].listed \/ a \in Public]
<1>1. asset \in [Assets -> AssetRow] /\ a \in Assets /\ asset[a] \in AssetRow
  BY DEF TypeOK, Run
<1>2. (asset[a].listed \/ a \in Public) \in BOOLEAN
  BY <1>1 DEF AssetRow
<1>3. r \in AssetRow
  BY <1>2 DEF AssetRow, Status
<1>4. asset' = [asset EXCEPT ![a] = r]
  BY DEF CommitReady
<1>5. /\ r.status = "READY" /\ r.key = "final"
      /\ r.listed <=> (asset[a].listed \/ a \in Public)
  OBVIOUS
<1> HIDE DEF r
<1>6. asset' \in [Assets -> AssetRow] /\ asset'[a] = r /\ \A b \in Assets \ {a} : asset'[b] = asset[b]
  BY <1>1, <1>3, <1>4
<1> QED
  BY <1>5, <1>6

LEMMA TakeDoes ==
    ASSUME Typed, NEW w \in Workers, NEW a \in Assets, TakeJob(w, a)
    PROVE  /\ job' \in [Assets -> Job] /\ \A b \in Assets \ {a} : job'[b] = job[b]
           /\ job'[a].attempts = job[a].attempts /\ job'[a].stalled = job[a].stalled
           /\ \/ Finished(a) /\ job'[a].state = "completed" /\ UNCHANGED run
              \/ /\ ~Finished(a) /\ job'[a].state = "active"
                 /\ run' \in [Workers -> Run]
                 /\ run'[w] = [pc |-> "mark", asset |-> a, key |-> asset[a].key,
                               wrote |-> {}, owns |-> TRUE]
                 /\ \A v \in Workers \ {w} : run'[v] = run[v]
<1>1. /\ job \in [Assets -> Job] /\ job[a] \in Job /\ run \in [Workers -> Run]
      /\ asset[a].key \in {"upload", "final"}
  BY DEF Typed, TypeOK, AssetRow
<1>2. ASSUME NEW s \in {"active", "completed"}, job' = [job EXCEPT ![a].state = s]
      PROVE  /\ job' \in [Assets -> Job] /\ \A b \in Assets \ {a} : job'[b] = job[b]
             /\ job'[a].attempts = job[a].attempts /\ job'[a].stalled = job[a].stalled
             /\ job'[a].state = s
  <2> DEFINE r == [job[a] EXCEPT !.state = s]
  <2>1. /\ r \in Job /\ r.state = s /\ r.attempts = job[a].attempts
        /\ r.stalled = job[a].stalled
    BY <1>1 DEF Job
  <2>2. job' = [job EXCEPT ![a] = r]
    BY <1>2
  <2> HIDE DEF r
  <2> QED
    BY <1>1, <2>1, <2>2
<1>3. CASE Finished(a)
  BY <1>2, <1>3 DEF TakeJob
<1>4. CASE ~Finished(a)
  <2>1. [pc |-> "mark", asset |-> a, key |-> asset[a].key, wrote |-> {}, owns |-> TRUE] \in Run
    BY <1>1 DEF Run
  <2> QED
    BY <1>1, <1>2, <1>4, <2>1 DEF TakeJob
<1> QED
  BY <1>3, <1>4

----------------------------------------------------------------------------
(* Types and owners. *)

\* One worker's attempt goes on or ends, and the jobs stay as they are.
LEMMA OwnersKept ==
    ASSUME OwnedOnce, UNCHANGED <<job, purge>>, NEW w \in Workers,
           \A v \in Workers \ {w} : run'[v] = run[v],
           run'[w].owns => run[w].owns /\ run'[w].asset = run[w].asset /\ run'[w].pc # "idle"
    PROVE  OwnedOnce'
BY DEF OwnedOnce, At

LEMMA OwnersLeft ==
    ASSUME Typed, NEW w \in Workers, NEW result \in {"completed", "failed"}, Leave(w, result),
           purge' = purge
    PROVE  OwnedOnce'
<1> DEFINE a == run[w].asset
<1>1. /\ run'[w] = NoRun /\ \A v \in Workers \ {w} : run'[v] = run[v]
      /\ \A b \in Assets \ {a} : job'[b] = job[b]
      /\ ~run[w].owns => job'[a] = job[a]
      /\ run[w].owns => /\ job'[a].state \in {result, "waiting"}
                        /\ job'[a].state = "waiting" => job'[a].attempts < MaxAttempts
  BY LeaveRun
<1>2. OwnedOnce /\ \A v \in Workers : run[v].asset \in Assets
  BY DEF Typed, TypeOK, Run
<1> HIDE DEF a
<1>3. \A v \in Workers : run'[v].owns => v # w /\ run'[v] = run[v]
  BY <1>1 DEF NoRun
<1>4. \A b \in Assets : job'[b].state \in {"waiting", "active"} => job'[b].attempts < MaxAttempts
  BY <1>1, <1>2 DEF OwnedOnce
<1>5. ASSUME NEW v \in Workers, run'[v].owns
      PROVE  job'[run[v].asset] = job[run[v].asset]
  BY <1>1, <1>2, <1>3, <1>5 DEF OwnedOnce, a
<1> QED
  BY <1>2, <1>3, <1>4, <1>5 DEF OwnedOnce, At

LEMMA OwnersStated ==
    ASSUME OwnedOnce, UNCHANGED purge,
           \A b \in Assets : job'[b].state \in {"waiting", "active"} => job'[b].attempts < MaxAttempts,
           \A v \in Workers : run'[v].owns =>
              /\ run'[v].pc # "idle" /\ job'[run'[v].asset].state = "active"
              /\ \A u \in Workers : run'[u].owns /\ run'[u].asset = run'[v].asset => u = v
    PROVE  OwnedOnce'
BY Zenon DEF OwnedOnce, At

LEMMA Untouched == OwnedOnce /\ UNCHANGED <<job, run, purge>> => OwnedOnce'
BY DEF OwnedOnce, At

LEMMA FaultCounted == TypeOK /\ Fault => faults' \in 0..MaxFaults
BY MediaAssumption DEF TypeOK, Fault

LEMMA CallTyped ==
    ASSUME Typed, NEW c \in Calls, CallStep(c)
    PROVE  Typed'
<1>1. /\ TypeOK /\ OwnedOnce /\ call[c] \in Call /\ call[c].asset \in Assets
      /\ call \in [Calls -> Call] /\ job \in [Assets -> Job]
  BY DEF Typed, TypeOK, Call
<1>2. CASE BeginCreate(c) \/ BeginComplete(c)
  <2>1. PICK a \in Assets, pc \in {"create", "head"} :
            call' = [call EXCEPT ![c] = [pc |-> pc, asset |-> a]]
    BY <1>2, Zenon DEF BeginCreate, BeginComplete
  <2>2. call' \in [Calls -> Call]
    BY <1>1, <2>1 DEF Call
  <2> QED
    BY <1>1, <1>2, <2>2, Untouched DEF BeginCreate, BeginComplete, rows, Typed, TypeOK
<1>3. CASE InsertAsset(c)
  <2>1. asset' \in [Assets -> AssetRow] /\ call' \in [Calls -> Call]
    BY <1>1, <1>3, SetStatus, SetCall DEF InsertAsset, Status, Active, CallPc
  <2> QED
    BY <1>1, <1>3, <2>1, Untouched DEF InsertAsset, Typed, TypeOK
<1>4. CASE SignUrl(c)
  BY <1>1, <1>4, EndCall, Untouched DEF SignUrl, rows, Typed, TypeOK
<1>5. CASE FailSign(c)
  <2>1. asset' \in [Assets -> AssetRow]
    BY <1>1, <1>5, SetStatus DEF FailSign, Status, TypeOK
  <2>2. call' \in [Calls -> Call] /\ faults' \in 0..MaxFaults
    BY <1>1, <1>5, EndCall, FaultCounted DEF FailSign
  <2> QED
    BY <1>1, <1>5, <2>1, <2>2, Untouched DEF FailSign, Typed, TypeOK
<1>6. CASE HeadUpload(c)
  <2>1. call' \in [Calls -> Call]
    BY <1>1, <1>6, EndCall, SetCall DEF HeadUpload, CallPc
  <2> QED
    BY <1>1, <1>6, <2>1, Untouched DEF HeadUpload, rows, Typed, TypeOK
<1>7. CASE ClaimUpload(c)
  <2>1. asset' \in [Assets -> AssetRow]
    BY <1>1, <1>7, SetStatus DEF ClaimUpload, Status, Active, TypeOK
  <2>2. call' \in [Calls -> Call]
    BY <1>1, <1>7, EndCall, SetCall DEF ClaimUpload, CallPc
  <2> QED
    BY <1>1, <1>7, <2>1, <2>2, Untouched DEF ClaimUpload, Typed, TypeOK
<1>8. CASE EnqueueJob(c)
  <2> DEFINE a == call[c].asset
             r == [NoJob EXCEPT !.state = "waiting"]
  <2>1. r \in Job /\ r.state = "waiting" /\ r.attempts < MaxAttempts
    BY MediaAssumption DEF Job, NoJob
  <2>2. job' = job \/ (job[a] = NoJob /\ job' = [job EXCEPT ![a] = r])
    BY <1>1, <1>8 DEF EnqueueJob
  <2> HIDE DEF r
  <2>3. job' \in [Assets -> Job]
    BY <1>1, <2>1, <2>2
  <2>4. \A b \in Assets : job'[b] = job[b] \/ (job[b] = NoJob /\ job'[b] = r)
    BY <1>1, <2>2
  <2>5. \A w \in Workers : run[w].asset \in Assets
    BY <1>1 DEF TypeOK, Run
  <2>6. OwnedOnce'
    <3>1. UNCHANGED <<run, purge>>
      BY <1>8 DEF EnqueueJob
    <3>2. NoJob.state = "none"
      BY DEF NoJob
    <3> QED
      BY <1>1, <2>1, <2>4, <2>5, <3>1, <3>2 DEF OwnedOnce, At
  <2> QED
    BY <1>1, <1>8, <2>3, <2>6, EndCall DEF EnqueueJob, rows, Typed, TypeOK
<1>9. CASE LoseCall(c)
  <2>1. call' \in [Calls -> Call] /\ faults' \in 0..MaxFaults
    BY <1>1, <1>9, EndCall, FaultCounted DEF LoseCall
  <2> QED
    BY <1>1, <1>9, <2>1, Untouched DEF LoseCall, rows, Typed, TypeOK
<1> QED
  BY <1>2, <1>3, <1>4, <1>5, <1>6, <1>7, <1>8, <1>9 DEF CallStep

\* What an attempt that goes on does to its run.
LEMMA RunTyped ==
    ASSUME Typed, NEW w \in Workers, NEW pc \in RunPc \ {"idle"}, Step(w, pc), ~At(w, "idle"),
           UNCHANGED <<job, purge>>
    PROVE  OwnedOnce' /\ run' \in [Workers -> Run]
<1>1. TypeOK /\ OwnedOnce
  BY DEF Typed
<1> QED
  BY <1>1, StepRun, OwnersKept

LEMMA WorkTyped ==
    ASSUME Typed, NEW w \in Workers, Work(w)
    PROVE  Typed'
<1>1. /\ TypeOK /\ OwnedOnce /\ run[w] \in Run /\ run[w].asset \in Assets
  BY DEF Typed, TypeOK, Run
<1>2. ASSUME NEW a \in Assets, TakeJob(w, a) PROVE Typed'
  <2>1. /\ job' \in [Assets -> Job] /\ \A b \in Assets \ {a} : job'[b] = job[b]
        /\ job'[a].attempts = job[a].attempts
        /\ \/ job'[a].state = "completed" /\ UNCHANGED run
           \/ /\ job'[a].state = "active" /\ run' \in [Workers -> Run]
              /\ run'[w] = [pc |-> "mark", asset |-> a, key |-> asset[a].key,
                            wrote |-> {}, owns |-> TRUE]
              /\ \A v \in Workers \ {w} : run'[v] = run[v]
    BY <1>2, TakeDoes
  <2>2. job[a].state = "waiting" /\ UNCHANGED purge
    BY <1>2 DEF TakeJob
  <2>3. \A v \in Workers : run[v].owns => run[v].asset # a /\ run[v].asset \in Assets
    BY <1>1, <2>2 DEF OwnedOnce, TypeOK, Run
  <2>4. run' \in [Workers -> Run]
    BY <1>1, <2>1 DEF TypeOK
  <2>5. \A b \in Assets : job'[b].state \in {"waiting", "active"} => job'[b].attempts < MaxAttempts
    BY <1>1, <2>1, <2>2 DEF OwnedOnce
  <2>6. ASSUME UNCHANGED run PROVE OwnedOnce'
    <3>1. \A v \in Workers : run[v].owns => job'[run[v].asset] = job[run[v].asset]
      BY <2>1, <2>3
    <3>2. ASSUME NEW v \in Workers, run'[v].owns
          PROVE  /\ run'[v].pc # "idle" /\ job'[run'[v].asset].state = "active"
                 /\ \A u \in Workers : run'[u].owns /\ run'[u].asset = run'[v].asset => u = v
      BY <1>1, <2>6, <3>1, <3>2 DEF OwnedOnce, At
    <3> QED
      BY <1>1, <2>2, <2>5, <3>2, OwnersStated
  <2>7. ASSUME job'[a].state = "active",
               run'[w] = [pc |-> "mark", asset |-> a, key |-> asset[a].key,
                          wrote |-> {}, owns |-> TRUE],
               \A v \in Workers \ {w} : run'[v] = run[v]
        PROVE  OwnedOnce'
    <3>1. /\ run'[w].asset = a /\ run'[w].pc = "mark"
      BY <2>7
    <3>2. ASSUME NEW v \in Workers, run'[v].owns
          PROVE  /\ run'[v].pc # "idle" /\ job'[run'[v].asset].state = "active"
                 /\ \A u \in Workers : run'[u].owns /\ run'[u].asset = run'[v].asset => u = v
      <4>1. CASE v = w
        BY <2>3, <2>7, <3>1, <4>1
      <4>2. CASE v # w
        <5>1. run'[v] = run[v] /\ run[v].owns /\ run[v].asset \in Assets \ {a}
          BY <2>3, <2>7, <3>2, <4>2
        <5>2. run[v].pc # "idle" /\ job[run[v].asset].state = "active"
          BY <1>1, <5>1 DEF OwnedOnce, At
        <5>3. \A u \in Workers : run'[u].owns /\ run'[u].asset = run[v].asset => u = v
          BY <1>1, <2>7, <3>1, <5>1 DEF OwnedOnce
        <5> QED
          BY <2>1, <5>1, <5>2, <5>3
      <4> QED
        BY <4>1, <4>2
    <3> QED
      BY <1>1, <2>2, <2>5, <3>2, OwnersStated
  <2>8. OwnedOnce'
    BY <2>1, <2>6, <2>7
  <2> QED
    BY <1>1, <1>2, <2>1, <2>4, <2>8 DEF TakeJob, rows, Typed, TypeOK
<1>3. CASE MarkProcessing(w)
  <2>1. asset' \in [Assets -> AssetRow]
    BY <1>1, <1>3, SetStatus DEF MarkProcessing, Status, Active
  <2>2. OwnedOnce' /\ run' \in [Workers -> Run]
    BY <1>3, RunTyped DEF MarkProcessing, RunPc, At
  <2> QED
    BY <1>1, <1>3, <2>1, <2>2 DEF MarkProcessing, Typed, TypeOK
<1>4. CASE FetchAndScan(w)
  <2>1. OwnedOnce' /\ run' \in [Workers -> Run]
    BY <1>4, RunTyped DEF FetchAndScan, RunPc, At
  <2> QED
    BY <1>1, <1>4, <2>1 DEF FetchAndScan, rows, Typed, TypeOK
<1>5. CASE PutFinal(w)
  <2>1. /\ object' \in [Assets -> Stored] /\ run' \in [Workers -> Run]
        /\ run'[w].pc # "idle" /\ run'[w].asset = run[w].asset /\ run'[w].owns = run[w].owns
        /\ \A v \in Workers \ {w} : run'[v] = run[v]
    BY <1>1, <1>5, PutFinalDoes
  <2>2. OwnedOnce'
    BY <1>1, <1>5, <2>1, OwnersKept DEF PutFinal
  <2> QED
    BY <1>1, <1>5, <2>1, <2>2 DEF PutFinal, Typed, TypeOK
<1>6. CASE PutVariants(w)
  <2>1. /\ object' \in [Assets -> Stored] /\ run' \in [Workers -> Run]
        /\ run'[w].pc # "idle" /\ run'[w].asset = run[w].asset /\ run'[w].owns = run[w].owns
        /\ \A v \in Workers \ {w} : run'[v] = run[v]
    BY <1>1, <1>6, PutVariantsDoes
  <2>2. OwnedOnce'
    BY <1>1, <1>6, <2>1, OwnersKept DEF PutVariants
  <2> QED
    BY <1>1, <1>6, <2>1, <2>2 DEF PutVariants, Typed, TypeOK
<1>7. CASE CommitReady(w)
  <2>1. asset' \in [Assets -> AssetRow]
    BY <1>1, <1>7, CommitDoes
  <2>2. OwnedOnce' /\ run' \in [Workers -> Run]
    BY <1>7, RunTyped DEF CommitReady, RunPc, At
  <2> QED
    BY <1>1, <1>7, <2>1, <2>2 DEF CommitReady, Typed, TypeOK
<1>8. CASE DeleteTemporary(w)
  <2>1. object' \in [Assets -> Stored]
    BY <1>1, <1>8, Deleted DEF DeleteTemporary
  <2>2. Leave(w, "completed") /\ UNCHANGED purge
    BY <1>8 DEF DeleteTemporary
  <2>3. run' \in [Workers -> Run] /\ job' \in [Assets -> Job] /\ OwnedOnce'
    BY <2>2, LeaveRun, OwnersLeft
  <2> QED
    BY <1>1, <1>8, <2>1, <2>3 DEF DeleteTemporary, Typed, TypeOK
<1>9. CASE CleanUp(w)
  <2>1. PICK kinds : object' = [object EXCEPT ![run[w].asset] = Without(object[run[w].asset], kinds)]
    BY <1>9, Zenon DEF CleanUp
  <2>2. object' \in [Assets -> Stored]
    BY <1>1, <2>1, Deleted
  <2>3. OwnedOnce' /\ run' \in [Workers -> Run]
    BY <1>9, RunTyped DEF CleanUp, RunPc, At
  <2>4. lost' \subseteq Assets /\ faults' \in 0..MaxFaults /\ undone' \subseteq Assets
    BY <1>1, <1>9, FaultCounted DEF CleanUp, TypeOK
  <2> QED
    BY <1>1, <1>9, <2>2, <2>3, <2>4 DEF CleanUp, Typed, TypeOK
<1>10. CASE Reject(w)
  <2>1. asset' \in [Assets -> AssetRow]
    BY <1>1, <1>10, SetStatus DEF Reject, Status
  <2>2. Leave(w, "failed") /\ UNCHANGED purge
    BY <1>10 DEF Reject
  <2>3. run' \in [Workers -> Run] /\ job' \in [Assets -> Job] /\ OwnedOnce'
    BY <2>2, LeaveRun, OwnersLeft
  <2> QED
    BY <1>1, <1>10, <2>1, <2>3 DEF Reject, Typed, TypeOK
<1> QED
  BY <1>2, <1>3, <1>4, <1>5, <1>6, <1>7, <1>8, <1>9, <1>10 DEF Work

LEMMA WorkerFaultTyped ==
    ASSUME Typed, NEW w \in Workers, WorkerFault(w)
    PROVE  Typed'
<1>1. /\ TypeOK /\ OwnedOnce /\ run[w] \in Run /\ run[w].asset \in Assets
      /\ run \in [Workers -> Run]
  BY DEF Typed, TypeOK, Run
<1>2. Fault /\ faults' \in 0..MaxFaults
  BY <1>1, FaultCounted DEF WorkerFault, FailStep, FailRow, LoseWorker, Stall
<1>3. CASE FailStep(w)
  <2>1. OwnedOnce' /\ run' \in [Workers -> Run]
    BY <1>3, RunTyped DEF FailStep, RunPc, At
  <2> QED
    BY <1>1, <1>2, <1>3, <2>1 DEF FailStep, rows, Typed, TypeOK
<1>4. CASE FailRow(w)
  <2>1. Leave(w, "failed") /\ UNCHANGED purge
    BY <1>4 DEF FailRow
  <2>2. run' \in [Workers -> Run] /\ job' \in [Assets -> Job] /\ OwnedOnce'
    BY <2>1, LeaveRun, OwnersLeft
  <2> QED
    BY <1>1, <1>2, <1>4, <2>2 DEF FailRow, rows, Typed, TypeOK
<1>5. ASSUME NEW r \in Run, ~r.owns, run' = [run EXCEPT ![w] = r], UNCHANGED purge,
             job' = TakenBack(run[w].asset), run[w].owns
      PROVE  OwnedOnce' /\ job' \in [Assets -> Job] /\ run' \in [Workers -> Run]
  <2> DEFINE a == run[w].asset
  <2>1. job[a].state = "active" /\ job[a].attempts < MaxAttempts
    BY <1>1, <1>5 DEF OwnedOnce
  <2>2. /\ job' \in [Assets -> Job] /\ \A b \in Assets \ {a} : job'[b] = job[b]
        /\ job'[a].attempts = job[a].attempts
    BY <1>1, <1>5, <2>1, TakeBack
  <2>3. /\ run' \in [Workers -> Run]
        /\ \A v \in Workers : run'[v].owns => v # w /\ run'[v] = run[v]
    BY <1>1, <1>5
  <2>4. \A v \in Workers \ {w} : run[v].owns => run[v].asset \in Assets \ {a}
    BY <1>1, <1>5 DEF OwnedOnce, TypeOK, Run
  <2>5. \A b \in Assets : job'[b].state \in {"waiting", "active"} => job'[b].attempts < MaxAttempts
    BY <1>1, <2>1, <2>2 DEF OwnedOnce
  <2> HIDE DEF a
  <2> QED
    BY <1>1, <1>5, <2>2, <2>3, <2>4, <2>5 DEF OwnedOnce, At
<1>6. CASE LoseWorker(w)
  <2>1. NoRun \in Run /\ ~NoRun.owns /\ NoRun.pc = "idle"
    BY NothingYet DEF NoRun
  <2>2. run' = [run EXCEPT ![w] = NoRun] /\ UNCHANGED purge
    BY <1>6 DEF LoseWorker
  <2>3. CASE run[w].owns
    BY <1>1, <1>2, <1>5, <1>6, <2>1, <2>2, <2>3 DEF LoseWorker, rows, Typed, TypeOK
  <2>4. CASE ~run[w].owns
    <3>1. UNCHANGED job
      BY <1>6, <2>4 DEF LoseWorker
    <3>2. OwnedOnce'
      BY <1>1, <2>1, <2>2, <3>1, OwnersKept
    <3> QED
      BY <1>1, <1>2, <1>6, <2>1, <2>2, <3>1, <3>2 DEF LoseWorker, rows, Typed, TypeOK
  <2> QED
    BY <2>3, <2>4
<1>7. CASE Stall(w)
  <2> DEFINE r == [run[w] EXCEPT !.owns = FALSE]
  <2>1. r \in Run /\ ~r.owns /\ run' = [run EXCEPT ![w] = r]
    BY <1>1, <1>7 DEF Stall, Run
  <2> HIDE DEF r
  <2>2. UNCHANGED purge /\ job' = TakenBack(run[w].asset) /\ run[w].owns
    BY <1>7 DEF Stall
  <2> QED
    BY <1>1, <1>2, <1>5, <1>7, <2>1, <2>2 DEF Stall, rows, Typed, TypeOK
<1> QED
  BY <1>3, <1>4, <1>6, <1>7 DEF WorkerFault

LEMMA PurgeTyped == Typed /\ (PurgeStep \/ FailPurge) => Typed'
<1> SUFFICES ASSUME Typed, PurgeStep \/ FailPurge PROVE Typed'
  OBVIOUS
<1>1. TypeOK /\ OwnedOnce /\ purge \in Purge
  BY DEF Typed, TypeOK
<1>2. UNCHANGED <<job, run>>
  BY DEF PurgeStep, SchedulePurge, ListPersonal, DeletePersonal, MarkDeleted, FinishPurge,
     FailPurge, rows
<1>3. ASSUME purge' \in Purge, purge'.state = "waiting" => purge'.attempts < MaxAttempts
      PROVE  OwnedOnce'
  BY <1>1, <1>2, <1>3 DEF OwnedOnce, At
<1>4. CASE SchedulePurge
  <2>1. purge' = [state |-> "waiting", attempts |-> 0, batch |-> {}, mark |-> {}]
    BY <1>4 DEF SchedulePurge, NoPurge
  <2>2. purge' \in Purge /\ purge'.attempts < MaxAttempts
    BY <2>1, MediaAssumption DEF Purge
  <2> QED
    BY <1>1, <1>3, <1>4, <2>2 DEF SchedulePurge, rows, Typed, TypeOK
<1>5. CASE ListPersonal
  <2> DEFINE batch == {[asset |-> a, key |-> asset[a].key, listed |-> asset[a].listed] :
                          a \in ToPurge}
  <2>1. batch \in SUBSET [asset : Assets, key : {"upload", "final"}, listed : BOOLEAN]
    BY <1>1, MediaAssumption DEF TypeOK, AssetRow, ToPurge
  <2>2. purge.attempts + 1 \in 0..MaxAttempts
    BY <1>1, <1>5, MediaAssumption DEF ListPersonal, OwnedOnce, Purge
  <2>3. purge' = [state |-> "active", attempts |-> purge.attempts + 1, mark |-> {},
                  batch |-> batch]
    BY <1>5 DEF ListPersonal
  <2> HIDE DEF batch
  <2>4. purge' \in Purge /\ purge'.state = "active"
    BY <2>1, <2>2, <2>3 DEF Purge
  <2> QED
    BY <1>1, <1>3, <1>5, <2>4 DEF ListPersonal, rows, Typed, TypeOK
<1>6. CASE DeletePersonal
  <2>1. PICK item \in purge.batch :
            /\ \E kinds : object' =
                 [object EXCEPT ![item.asset] = Without(object[item.asset], kinds)]
            /\ undone' = undone \union (IF asset[item.asset].key = "final"
                                        THEN {item.asset} ELSE {})
            /\ purge' = [purge EXCEPT !.batch = purge.batch \ {item}, !.mark = {item.asset}]
    BY <1>6, Zenon DEF DeletePersonal
  <2>2. item.asset \in Assets
    BY <1>1 DEF Purge
  <2>3. object' \in [Assets -> Stored]
    BY <1>1, <2>1, <2>2, Deleted
  <2>4. purge' \in Purge /\ purge'.state = "active"
    BY <1>1, <1>6, <2>1, <2>2 DEF DeletePersonal, Purge
  <2> QED
    BY <1>1, <1>3, <1>6, <2>1, <2>2, <2>3, <2>4 DEF DeletePersonal, Typed, TypeOK
<1>7. CASE MarkDeleted
  <2>1. PICK a \in purge.mark : asset' = [asset EXCEPT ![a].status = "DELETED"]
    BY <1>7 DEF MarkDeleted
  <2>2. a \in Assets
    BY <1>1 DEF Purge
  <2>3. asset' \in [Assets -> AssetRow]
    BY <1>1, <2>1, <2>2, SetStatus DEF Status
  <2>4. purge' \in Purge /\ purge'.state = "active"
    BY <1>1, <1>7 DEF MarkDeleted, Purge
  <2> QED
    BY <1>1, <1>3, <1>7, <2>3, <2>4 DEF MarkDeleted, Typed, TypeOK
<1>8. CASE FinishPurge
  BY <1>1, <1>3, <1>8, NothingYet DEF FinishPurge, NoPurge, rows, Typed, TypeOK
<1>9. CASE FailPurge
  <2> DEFINE state == IF purge.attempts < MaxAttempts THEN "waiting" ELSE "failed"
  <2>1. purge' = [state |-> state, attempts |-> purge.attempts, batch |-> {}, mark |-> {}]
    BY <1>9 DEF FailPurge, NoPurge
  <2>2. purge' \in Purge /\ (purge'.state = "waiting" => purge'.attempts < MaxAttempts)
    BY <1>1, <2>1 DEF Purge
  <2> QED
    BY <1>1, <1>3, <1>9, <2>2, FaultCounted DEF FailPurge, rows, Typed, TypeOK
<1> QED
  BY <1>4, <1>5, <1>6, <1>7, <1>8, <1>9 DEF PurgeStep

LEMMA NextTyped == Typed /\ [Next]_vars => Typed'
<1> SUFFICES ASSUME Typed, [Next]_vars PROVE Typed'
  OBVIOUS
<1>1. TypeOK /\ OwnedOnce
  BY DEF Typed
<1>2. ASSUME NEW a \in Assets, PutUpload(a) PROVE Typed'
  <2>1. PICK content \in {"good", "bad", "other"} :
            object' = [object EXCEPT ![a].upload = content]
    BY <1>2 DEF PutUpload
  <2>2. object' \in [Assets -> Stored]
    BY <1>1, <2>1 DEF TypeOK, Stored
  <2> QED
    BY <1>1, <1>2, <2>2, Untouched DEF PutUpload, Typed, TypeOK
<1>3. CASE Anonymize
  BY <1>1, <1>3, Untouched DEF Anonymize, rows, Typed, TypeOK
<1>4. CASE UNCHANGED vars
  BY <1>1, <1>4, Untouched DEF vars, rows, Typed, TypeOK
<1> QED
  BY <1>2, <1>3, <1>4, CallTyped, WorkTyped, WorkerFaultTyped, PurgeTyped DEF Next

LEMMA InitTyped == Init => Typed
<1> SUFFICES ASSUME Init PROVE Typed
  OBVIOUS
<1>1. asset \in [Assets -> AssetRow] /\ object \in [Assets -> Stored]
  BY DEF Init, AssetRow, Stored
<1>2. TypeOK
  <2>1. call \in [Calls -> Call] /\ job \in [Assets -> Job] /\ run \in [Workers -> Run]
    BY NothingYet DEF Init
  <2>2. purge \in Purge /\ faults \in 0..MaxFaults
    BY NothingYet, MediaAssumption DEF Init
  <2> QED
    BY <1>1, <2>1, <2>2 DEF Init, TypeOK
<1>3. OwnedOnce
  BY DEF Init, OwnedOnce, NoJob, NoRun, NoPurge
<1> QED
  BY <1>2, <1>3 DEF Typed

LEMMA AlwaysTyped == Spec => []Typed
<1> QED
  BY InitTyped, NextTyped, PTL DEF Spec

\* Every reachable value has its type; a job is never tried or taken back more
\* often than the queue allows.
THEOREM TypeCorrect == Spec => []TypeOK
<1>1. Typed => TypeOK
  BY DEF Typed
<1> QED
  BY <1>1, AlwaysTyped, PTL

----------------------------------------------------------------------------
(* A worker's step touches one asset. *)

OnlyTouches(w, a) ==
    /\ UNCHANGED <<url, call, lock, purge, departed>>
    /\ \A b \in Assets \ {a} :
         /\ job'[b] = job[b] /\ object'[b] = object[b] /\ asset'[b] = asset[b]
         /\ b \in undone' <=> b \in undone
         /\ b \in lost' <=> b \in lost
    /\ \A v \in Workers \ {w} : run'[v] = run[v]
    /\ run'[w].pc # "idle" => run'[w].asset = a
    /\ asset'[a].status = "none" => asset[a].status = "none"

\* A step of w on a: a job that is taken, or the attempt w is at.
Concerns(w, a) ==
    \/ At(w, "idle") /\ job[a].state = "waiting"
    \/ ~At(w, "idle") /\ run[w].asset = a

LEMMA TakeTouches ==
    ASSUME Typed, NEW w \in Workers, NEW a \in Assets, TakeJob(w, a)
    PROVE  OnlyTouches(w, a) /\ Concerns(w, a)
<1>1. /\ \A b \in Assets \ {a} : job'[b] = job[b]
      /\ \A v \in Workers \ {w} : run'[v] = run[v]
      /\ run'[w].pc # "idle" => run'[w].asset = a
  <2>1. run[w].pc = "idle"
    BY DEF TakeJob, At
  <2>2. /\ \A b \in Assets \ {a} : job'[b] = job[b]
        /\ \/ run' = run
           \/ /\ run'[w] = [pc |-> "mark", asset |-> a, key |-> asset[a].key,
                            wrote |-> {}, owns |-> TRUE]
              /\ \A v \in Workers \ {w} : run'[v] = run[v]
    BY TakeDoes, Zenon
  <2> QED
    BY <2>1, <2>2
<1> QED
  BY <1>1 DEF TakeJob, rows, OnlyTouches, Concerns

LEMMA AttemptTouches ==
    ASSUME Typed, NEW w \in Workers, Work(w) \/ WorkerFault(w), \A a \in Assets : ~TakeJob(w, a)
    PROVE  OnlyTouches(w, run[w].asset) /\ Concerns(w, run[w].asset)
<1> DEFINE a == run[w].asset
<1>1. /\ TypeOK /\ OwnedOnce /\ a \in Assets /\ job \in [Assets -> Job]
      /\ run \in [Workers -> Run] /\ run[w] \in Run
  BY DEF Typed, TypeOK, Run
<1>2. ASSUME NEW pc \in RunPc, Step(w, pc)
      PROVE  /\ \A v \in Workers \ {w} : run'[v] = run[v]
             /\ run'[w].asset = a
  BY <1>1, <1>2, StepRun
<1>3. ASSUME NEW result \in {"completed", "failed"}, Leave(w, result)
      PROVE  /\ \A v \in Workers \ {w} : run'[v] = run[v]
             /\ run'[w].pc = "idle"
             /\ \A b \in Assets \ {a} : job'[b] = job[b]
  BY <1>3, LeaveRun DEF NoRun
<1>4. ASSUME NEW s \in Status, asset' = [asset EXCEPT ![a].status = s]
      PROVE  /\ \A b \in Assets \ {a} : asset'[b] = asset[b]
             /\ asset'[a].status # "none"
  BY <1>1, <1>4, SetStatus DEF Status, Active
<1>5. CASE MarkProcessing(w)
  BY <1>2, <1>4, <1>5 DEF MarkProcessing, RunPc, Status, Active, OnlyTouches, Concerns, At
<1>6. CASE FetchAndScan(w) \/ FailStep(w)
  <2>1. PICK pc \in RunPc : Step(w, pc)
    BY <1>6 DEF FetchAndScan, FailStep, RunPc
  <2> QED
    BY <1>2, <1>6, <2>1 DEF FetchAndScan, FailStep, rows, OnlyTouches, Concerns, At
<1>7. CASE PutFinal(w)
  BY <1>1, <1>7, PutFinalDoes DEF PutFinal, OnlyTouches, Concerns, At
<1>8. CASE PutVariants(w)
  BY <1>1, <1>8, PutVariantsDoes DEF PutVariants, OnlyTouches, Concerns, At
<1>9. CASE CommitReady(w)
  BY <1>1, <1>2, <1>9, CommitDoes DEF CommitReady, RunPc, OnlyTouches, Concerns, At
<1>10. CASE DeleteTemporary(w)
  <2>1. \A b \in Assets \ {a} : object'[b] = object[b]
    BY <1>1, <1>10, Deleted DEF DeleteTemporary
  <2> QED
    BY <1>3, <1>10, <2>1 DEF DeleteTemporary, OnlyTouches, Concerns, At
<1>11. CASE CleanUp(w)
  <2>1. PICK kinds : object' = [object EXCEPT ![a] = Without(object[a], kinds)]
    BY <1>11, Zenon DEF CleanUp
  <2>2. \A b \in Assets \ {a} : object'[b] = object[b]
    BY <1>1, <2>1, Deleted
  <2> QED
    BY <1>2, <1>11, <2>2 DEF CleanUp, RunPc, OnlyTouches, Concerns, At
<1>12. CASE Reject(w)
  <2>1. Leave(w, "failed")
    BY <1>12 DEF Reject
  <2> QED
    BY <1>3, <1>4, <1>12, <2>1 DEF Reject, Status, OnlyTouches, Concerns, At
<1>13. CASE FailRow(w)
  <2>1. Leave(w, "failed")
    BY <1>13 DEF FailRow
  <2> QED
    BY <1>3, <1>13, <2>1 DEF FailRow, rows, OnlyTouches, Concerns, At
<1>14. CASE LoseWorker(w) \/ Stall(w)
  <2>1. \A b \in Assets \ {a} : job'[b] = job[b]
    <3>1. UNCHANGED job \/ job' = TakenBack(a)
      BY <1>14 DEF LoseWorker, Stall
    <3> QED
      BY <1>1, <3>1 DEF TakenBack
  <2>2. /\ \A v \in Workers \ {w} : run'[v] = run[v]
        /\ run'[w].pc # "idle" => run'[w].asset = a
    <3> DEFINE r == [run[w] EXCEPT !.owns = FALSE]
    <3>1. run' = [run EXCEPT ![w] = NoRun] \/ run' = [run EXCEPT ![w] = r]
      BY <1>14 DEF LoseWorker, Stall
    <3>2. r.asset = a /\ NoRun.pc = "idle"
      BY <1>1 DEF NoRun, Run
    <3> HIDE DEF r
    <3> QED
      BY <1>1, <3>1, <3>2
  <2> QED
    BY <1>14, <2>1, <2>2 DEF LoseWorker, Stall, rows, OnlyTouches, Concerns, At
<1> QED
  BY <1>5, <1>6, <1>7, <1>8, <1>9, <1>10, <1>11, <1>12, <1>13, <1>14
  DEF Work, WorkerFault

LEMMA WorkerTouches ==
    ASSUME Typed, NEW w \in Workers, Work(w) \/ WorkerFault(w)
    PROVE  \E a \in Assets : OnlyTouches(w, a) /\ Concerns(w, a)
<1>1. run[w].asset \in Assets
  BY DEF Typed, TypeOK, Run
<1> QED
  BY <1>1, TakeTouches, AttemptTouches

----------------------------------------------------------------------------
(* Every asset under way exists, and what is handed in had a URL. *)

Reached ==
    /\ url \subseteq Created
    /\ \A c \in Calls :
         /\ call[c].pc = "sign" =>
              /\ Exists(call[c].asset) /\ call[c].asset \notin url
              /\ \A d \in Calls : call[d].pc = "sign" /\ call[d].asset = call[c].asset => d = c
         /\ call[c].pc = "head" => Exists(call[c].asset)
         /\ call[c].pc \in {"claim", "enqueue"} => call[c].asset \in url
    /\ \A a \in Assets :
         job[a].state # "none" \/ object[a].upload # "none" \/ object[a].final \/ object[a].variants
            => a \in url
    /\ \A w \in Workers : ~At(w, "idle") => run[w].asset \in url
    /\ \A a \in purge.mark : Exists(a)
    /\ \A item \in purge.batch : Exists(item.asset)

\* The quota, counted while the lock is held.
Counted ==
    /\ IsFiniteSet(Created) /\ Cardinality(Created) <= MaxDaily
    /\ \A c \in Calls : call[c].pc = "create" =>
         /\ lock = c /\ ~Exists(call[c].asset) /\ Cardinality(Created) < MaxDaily

\* What a worker's step touches was handed in.
LEMMA WorkerReached ==
    ASSUME Typed, Reached, NEW w \in Workers, Work(w) \/ WorkerFault(w)
    PROVE  Reached' /\ Created' = Created
<1>1. PICK a \in Assets : OnlyTouches(w, a) /\ Concerns(w, a)
  BY WorkerTouches
<1>2. a \in url /\ Exists(a)
  BY <1>1 DEF Concerns, Reached, Created
<1>3. \A b \in Assets : Exists(b)' <=> Exists(b)
  BY <1>1, <1>2 DEF OnlyTouches, Exists
<1>4. Created' = Created
  BY <1>3 DEF Created
<1>5. \A c \in Calls : call[c].asset \in Assets
  BY DEF Typed, TypeOK, Call
<1>6. (\A b \in purge.mark : b \in Assets) /\ \A item \in purge.batch : item.asset \in Assets
  BY DEF Typed, TypeOK, Purge
<1>7. UNCHANGED <<url, call, purge>>
  BY <1>1 DEF OnlyTouches
<1>8. \A b \in Assets : job'[b].state # "none" \/ object'[b].upload # "none"
                          \/ object'[b].final \/ object'[b].variants => b \in url'
  BY <1>1, <1>2, <1>7 DEF OnlyTouches, Reached
<1>9. \A v \in Workers : run'[v].pc # "idle" => run'[v].asset \in url'
  BY <1>1, <1>2, <1>7 DEF OnlyTouches, Reached, At
<1>10. (\A b \in purge'.mark : Exists(b)') /\ \A item \in purge'.batch : Exists(item.asset)'
  BY <1>3, <1>6, <1>7 DEF Reached
<1>11. \A c \in Calls :
         /\ call'[c].pc = "sign" =>
              /\ Exists(call[c].asset)' /\ call'[c].asset \notin url'
              /\ \A d \in Calls : call'[d].pc = "sign" /\ call'[d].asset = call'[c].asset => d = c
         /\ call'[c].pc = "head" => Exists(call[c].asset)'
         /\ call'[c].pc \in {"claim", "enqueue"} => call'[c].asset \in url'
  BY <1>3, <1>5, <1>7 DEF Reached, Exists
<1>12. url' \subseteq Created'
  BY <1>4, <1>7 DEF Reached
<1> QED
  BY <1>4, <1>8, <1>9, <1>10, <1>11, <1>12 DEF Reached, At, Exists

\* A step that leaves the jobs, the store, the workers and the purge, and the
\* existence of assets, as they are: one call goes on.
LEMMA CallGoesOn ==
    ASSUME Typed, Reached, NEW c \in Calls, \A d \in Calls \ {c} : call'[d] = call[d],
           \A a \in Assets : Exists(a) => Exists(a)',
           UNCHANGED <<object, run, purge>>,
           \A a \in Assets : job'[a].state # "none" => a \in url,
           url \subseteq url', url' \subseteq Assets, \A a \in url' \ url : Exists(a),
           \A d \in Calls \ {c} : call[d].pc = "sign" => call[d].asset \notin url',
           call'[c].pc = "sign" =>
              /\ Exists(call[c].asset)' /\ call'[c].asset = call[c].asset
              /\ call'[c].asset \notin url'
              /\ \A d \in Calls : call[d].pc = "sign" /\ call[d].asset = call[c].asset => d = c,
           call'[c].pc = "head" => asset'[call'[c].asset].status # "none",
           call'[c].pc \in {"claim", "enqueue"} => call'[c].asset \in url'
    PROVE  Reached'
<1>1. /\ \A d \in Calls : call[d].asset \in Assets
      /\ (\A a \in purge.mark : a \in Assets) /\ \A item \in purge.batch : item.asset \in Assets
  BY DEF Typed, TypeOK, Call, Purge
<1>2. url' \subseteq Created'
  BY DEF Reached, Created
<1>3. \A d \in Calls :
         /\ call'[d].pc = "sign" =>
              /\ asset'[call'[d].asset].status # "none" /\ call'[d].asset \notin url'
              /\ \A e \in Calls : call'[e].pc = "sign" /\ call'[e].asset = call'[d].asset => e = d
         /\ call'[d].pc = "head" => asset'[call'[d].asset].status # "none"
         /\ call'[d].pc \in {"claim", "enqueue"} => call'[d].asset \in url'
  BY <1>1 DEF Reached, Exists
<1>4. \A a \in Assets :
         job'[a].state # "none" \/ object'[a].upload # "none" \/ object'[a].final
            \/ object'[a].variants => a \in url'
  BY DEF Reached
<1>5. /\ \A w \in Workers : run'[w].pc # "idle" => run'[w].asset \in url'
      /\ \A a \in purge'.mark : asset'[a].status # "none"
      /\ \A item \in purge'.batch : asset'[item.asset].status # "none"
  BY <1>1 DEF Reached, At, Exists
<1> QED
  BY <1>2, <1>3, <1>4, <1>5 DEF Reached, Exists, At

LEMMA CallReached ==
    ASSUME Typed, Reached, Counted, NEW c \in Calls, CallStep(c)
    PROVE  Reached'
<1> DEFINE a == call[c].asset
<1>1. /\ TypeOK /\ a \in Assets /\ call[c] \in Call /\ call \in [Calls -> Call] /\ url \subseteq Assets
      /\ job \in [Assets -> Job] /\ asset \in [Assets -> AssetRow]
  BY DEF Typed, TypeOK, Call
<1>2. CASE BeginCreate(c) \/ BeginComplete(c)
  <2>1. PICK b \in Assets, pc \in {"create", "head"} :
            /\ call' = [call EXCEPT ![c] = [pc |-> pc, asset |-> b]]
            /\ pc = "head" => Exists(b)
    BY <1>2, Zenon DEF BeginCreate, BeginComplete, Exists
  <2>2. /\ call'[c].pc = pc /\ call'[c].asset = b
        /\ \A d \in Calls \ {c} : call'[d] = call[d]
    BY <1>1, <2>1
  <2>3. UNCHANGED <<asset, object, url, job, run, purge>>
    BY <1>2 DEF BeginCreate, BeginComplete, rows
  <2> QED
    BY <1>1, <2>1, <2>2, <2>3, CallGoesOn DEF Exists, Reached
<1>3. CASE InsertAsset(c)
  <2>1. /\ \A b \in Assets : Exists(b) => Exists(b)'
        /\ Exists(a)'
        /\ call'[c].pc = "sign" /\ call'[c].asset = a
        /\ \A d \in Calls \ {c} : call'[d] = call[d]
    BY <1>1, <1>3, SetStatus, SetCall DEF InsertAsset, Status, Active, CallPc, Exists
  <2>2. ~Exists(a) /\ a \notin url
    BY <1>3 DEF InsertAsset, Counted, Reached, Created
  <2>3. \A d \in Calls : call[d].pc = "sign" => call[d].asset # a /\ call[d].asset \notin url
    BY <2>2 DEF Reached
  <2>4. UNCHANGED <<object, url, job, run, purge>>
    BY <1>3 DEF InsertAsset
  <2> HIDE DEF a
  <2> QED
    BY <1>1, <2>1, <2>2, <2>3, <2>4, CallGoesOn DEF Reached, a
<1>4. CASE SignUrl(c)
  <2>1. /\ call'[c].pc = "idle" /\ \A d \in Calls \ {c} : call'[d] = call[d]
    BY <1>1, <1>4, EndCall DEF SignUrl
  <2>2. url' = url \union {a} /\ UNCHANGED <<asset, object, job, run, purge>> /\ call[c].pc = "sign"
    BY <1>4 DEF SignUrl, rows
  <2>3. Exists(a) /\ \A d \in Calls \ {c} : call[d].pc = "sign" => call[d].asset \notin url'
    BY <2>2 DEF Reached
  <2> HIDE DEF a
  <2> QED
    BY <1>1, <2>1, <2>2, <2>3, CallGoesOn DEF Reached, Exists
<1>5. ASSUME UNCHANGED <<object, url, job, run, purge>>,
             call'[c].pc = "idle" \/ (call[c].pc = "claim" /\ call'[c].pc = "enqueue"
                                      /\ call'[c].asset = a)
                \/ (call'[c].pc = "claim" /\ call'[c].asset = a /\ a \in url),
             \A d \in Calls \ {c} : call'[d] = call[d],
             \A b \in Assets : Exists(b) => Exists(b)'
      PROVE  Reached'
  <2>1. /\ \A b \in Assets : job'[b].state # "none" => b \in url
        /\ \A d \in Calls \ {c} : call[d].pc = "sign" => call[d].asset \notin url'
        /\ call'[c].pc \in {"claim", "enqueue"} => call'[c].asset \in url'
        /\ call'[c].pc # "sign" /\ call'[c].pc # "head"
    BY <1>5 DEF Reached
  <2> QED
    BY <1>1, <1>5, <2>1, CallGoesOn
<1>6. CASE FailSign(c)
  <2>1. \A b \in Assets : Exists(b) => Exists(b)'
    BY <1>1, <1>6, SetStatus DEF FailSign, Status, Exists
  <2> QED
    BY <1>1, <1>5, <1>6, <2>1, EndCall DEF FailSign
<1>7. CASE HeadUpload(c)
  <2>1. \A d \in Calls \ {c} : call'[d] = call[d]
    BY <1>1, <1>7, EndCall, SetCall DEF HeadUpload, CallPc
  <2>2. \/ call'[c].pc = "idle"
        \/ call'[c].pc = "claim" /\ call'[c].asset = a /\ a \in url
    BY <1>1, <1>7, EndCall, SetCall DEF HeadUpload, CallPc, Reached
  <2> QED
    BY <1>5, <1>7, <2>1, <2>2 DEF HeadUpload, rows, Exists
<1>8. CASE ClaimUpload(c)
  <2>1. \A b \in Assets : Exists(b) => Exists(b)'
    BY <1>1, <1>8, SetStatus DEF ClaimUpload, Status, Active, Exists
  <2>2. /\ \A d \in Calls \ {c} : call'[d] = call[d]
        /\ \/ call'[c].pc = "idle"
           \/ call[c].pc = "claim" /\ call'[c].pc = "enqueue" /\ call'[c].asset = a
    BY <1>1, <1>8, EndCall, SetCall DEF ClaimUpload, CallPc
  <2> QED
    BY <1>5, <1>8, <2>1, <2>2 DEF ClaimUpload
<1>9. CASE EnqueueJob(c)
  <2>1. /\ call'[c].pc = "idle" /\ \A d \in Calls \ {c} : call'[d] = call[d]
        /\ call[c].pc = "enqueue" /\ UNCHANGED <<asset, object, url, run, purge>>
    BY <1>1, <1>9, EndCall DEF EnqueueJob, rows
  <2>2. \A b \in Assets \ {a} : job'[b] = job[b]
    BY <1>1, <1>9 DEF EnqueueJob
  <2>3. a \in url
    BY <2>1 DEF Reached
  <2> HIDE DEF a
  <2>4. \A b \in Assets : job'[b].state # "none" => b \in url
    BY <2>2, <2>3 DEF Reached
  <2>5. \A d \in Calls \ {c} : call[d].pc = "sign" => call[d].asset \notin url'
    BY <2>1 DEF Reached
  <2> QED
    BY <1>1, <2>1, <2>4, <2>5, CallGoesOn DEF Exists
<1>10. CASE LoseCall(c)
  BY <1>1, <1>5, <1>10, EndCall DEF LoseCall, rows, Exists
<1> QED
  BY <1>2, <1>3, <1>4, <1>6, <1>7, <1>8, <1>9, <1>10 DEF CallStep

LEMMA PurgeReached ==
    ASSUME Typed, Reached, PurgeStep \/ FailPurge
    PROVE  Reached' /\ Created' = Created
<1>1. /\ TypeOK /\ asset \in [Assets -> AssetRow] /\ purge \in Purge
      /\ \A c \in Calls : call[c].asset \in Assets
      /\ (\A a \in purge.mark : a \in Assets) /\ \A item \in purge.batch : item.asset \in Assets
  BY DEF Typed, TypeOK, Call, Purge
<1>2. UNCHANGED <<url, call, job, run>>
  BY DEF PurgeStep, SchedulePurge, ListPersonal, DeletePersonal, MarkDeleted, FinishPurge,
     FailPurge, rows
<1>3. \A a \in Assets : Exists(a)' <=> Exists(a)
  <2>1. CASE MarkDeleted
    <3>1. PICK a \in purge.mark : asset' = [asset EXCEPT ![a].status = "DELETED"]
      BY <2>1 DEF MarkDeleted
    <3>2. a \in Assets /\ Exists(a)
      BY <1>1, <3>1 DEF Reached
    <3> QED
      BY <1>1, <3>1, <3>2, SetStatus DEF Exists, Status
  <2>2. CASE ~MarkDeleted
    BY <2>2 DEF PurgeStep, SchedulePurge, ListPersonal, DeletePersonal, FinishPurge,
       FailPurge, rows, Exists
  <2> QED
    BY <2>1, <2>2
<1>4. Created' = Created
  BY <1>3 DEF Created
<1>5. \A a \in Assets :
         /\ object'[a].upload # "none" => object[a].upload # "none"
         /\ object'[a].final => object[a].final
         /\ object'[a].variants => object[a].variants
  <2>1. CASE DeletePersonal
    <3>1. PICK item \in purge.batch : \E kinds :
              object' = [object EXCEPT ![item.asset] = Without(object[item.asset], kinds)]
      BY <2>1, Zenon DEF DeletePersonal
    <3> QED
      BY <1>1, <3>1, Deleted
  <2>2. CASE ~DeletePersonal
    BY <2>2 DEF PurgeStep, SchedulePurge, ListPersonal, MarkDeleted, FinishPurge,
       FailPurge, rows
  <2> QED
    BY <2>1, <2>2
<1>6. /\ \A a \in purge'.mark : a \in Assets /\ Exists(a)
      /\ \A item \in purge'.batch : item.asset \in Assets /\ Exists(item.asset)
  <2>1. CASE ListPersonal
    <3>1. purge'.mark = {} /\ \A item \in purge'.batch : item.asset \in ToPurge
      BY <2>1 DEF ListPersonal
    <3> QED
      BY <3>1, MediaAssumption DEF ToPurge, Exists
  <2>2. CASE DeletePersonal
    <3>1. PICK item \in purge.batch :
              purge' = [purge EXCEPT !.batch = purge.batch \ {item}, !.mark = {item.asset}]
      BY <2>2, Zenon DEF DeletePersonal
    <3> QED
      BY <1>1, <3>1 DEF Reached, Purge
  <2>3. CASE SchedulePurge \/ FinishPurge \/ FailPurge
    <3>1. NoPurge.mark = {} /\ NoPurge.batch = {}
      BY DEF NoPurge
    <3>2. /\ [NoPurge EXCEPT !.state = "waiting"].mark = {}
          /\ [NoPurge EXCEPT !.state = "waiting"].batch = {}
      BY DEF NoPurge
    <3>3. CASE SchedulePurge \/ FinishPurge
      BY <3>1, <3>2, <3>3 DEF SchedulePurge, FinishPurge
    <3>4. CASE FailPurge
      <4> DEFINE state == IF purge.attempts < MaxAttempts THEN "waiting" ELSE "failed"
      <4>1. purge' = [state |-> state, attempts |-> purge.attempts, batch |-> {}, mark |-> {}]
        BY <3>4 DEF FailPurge, NoPurge
      <4> HIDE DEF state
      <4> QED
        BY <4>1
    <3> QED
      BY <2>3, <3>3, <3>4
  <2>4. CASE MarkDeleted
    BY <1>1, <2>4 DEF MarkDeleted, Reached, Purge
  <2> QED
    BY <2>1, <2>2, <2>3, <2>4 DEF PurgeStep
<1>7. /\ \A a \in purge'.mark : asset'[a].status # "none"
      /\ \A item \in purge'.batch : asset'[item.asset].status # "none"
  BY <1>3, <1>6 DEF Exists
<1>8. \A c \in Calls :
         /\ call'[c].pc = "sign" =>
              /\ asset'[call'[c].asset].status # "none" /\ call'[c].asset \notin url'
              /\ \A d \in Calls : call'[d].pc = "sign" /\ call'[d].asset = call'[c].asset => d = c
         /\ call'[c].pc = "head" => asset'[call'[c].asset].status # "none"
         /\ call'[c].pc \in {"claim", "enqueue"} => call'[c].asset \in url'
  BY <1>1, <1>2, <1>3 DEF Reached, Exists
<1>9. /\ \A a \in Assets :
            job'[a].state # "none" \/ object'[a].upload # "none" \/ object'[a].final
               \/ object'[a].variants => a \in url'
      /\ \A w \in Workers : run'[w].pc # "idle" => run'[w].asset \in url'
      /\ url' \subseteq Created'
  BY <1>2, <1>4, <1>5 DEF Reached, At
<1> QED
  BY <1>4, <1>7, <1>8, <1>9 DEF Reached, Exists, At

LEMMA PutUploadDoes ==
    ASSUME TypeOK, NEW a \in Assets, PutUpload(a)
    PROVE  /\ a \in url /\ UNCHANGED <<asset, url, call, lock, job, run, purge, undone, lost>>
           /\ \A b \in Assets \ {a} : object'[b] = object[b]
           /\ object'[a].final = object[a].final /\ object'[a].variants = object[a].variants
<1>1. PICK content \in {"good", "bad", "other"} : object' = [object EXCEPT ![a].upload = content]
  BY DEF PutUpload
<1>2. object \in [Assets -> Stored]
  BY DEF TypeOK
<1> QED
  BY <1>1, <1>2 DEF PutUpload, Stored

LEMMA NextReached == Typed /\ Reached /\ Counted /\ [Next]_vars => Reached'
<1> SUFFICES ASSUME Typed, Reached, Counted, [Next]_vars PROVE Reached'
  OBVIOUS
<1>1. ASSUME NEW a \in Assets, PutUpload(a) PROVE Reached'
  <2>1. /\ a \in url /\ UNCHANGED <<asset, url, call, job, run, purge>>
        /\ \A b \in Assets \ {a} : object'[b] = object[b]
    BY <1>1, PutUploadDoes DEF Typed
  <2> QED
    BY <2>1 DEF Reached, Created, Exists, At
<1>2. CASE Anonymize \/ UNCHANGED vars
  BY <1>2 DEF Anonymize, vars, rows, Reached, Created, Exists, At
<1> QED
  BY <1>1, <1>2, CallReached, WorkerReached, PurgeReached DEF Next

\* Steps that create nothing.
LEMMA CountedKept ==
    ASSUME Counted, Typed, Created' = Created,
           \A c \in Calls : call'[c].pc = "create" => call'[c] = call[c] /\ lock' = lock
    PROVE  Counted'
<1>1. ASSUME NEW c \in Calls, call'[c].pc = "create"
      PROVE  lock' = c /\ asset'[call'[c].asset].status = "none"
  <2>1. call'[c] = call[c] /\ lock' = lock /\ call[c].asset \in Assets
    BY <1>1 DEF Typed, TypeOK, Call
  <2>2. lock = c /\ call[c].asset \notin Created
    BY <1>1, <2>1 DEF Counted, Created
  <2> QED
    BY <2>1, <2>2 DEF Created, Exists
<1>2. \A c \in Calls : call'[c].pc = "create" => Cardinality(Created) < MaxDaily
  BY DEF Counted
<1> QED
  BY <1>1, <1>2 DEF Counted, Exists

LEMMA CallCounted ==
    ASSUME Typed, Reached, Counted, NEW c \in Calls, CallStep(c)
    PROVE  Counted'
<1> DEFINE a == call[c].asset
<1>1. /\ TypeOK /\ a \in Assets /\ call[c] \in Call /\ call \in [Calls -> Call]
      /\ asset \in [Assets -> AssetRow]
  BY DEF Typed, TypeOK, Call
<1>2. CASE BeginCreate(c)
  <2>1. /\ lock = "free" /\ lock' = c /\ Cardinality(Created) < MaxDaily /\ UNCHANGED asset
        /\ \E b \in Assets : ~Exists(b) /\ call' = [call EXCEPT ![c] = [pc |-> "create", asset |-> b]]
    BY <1>2 DEF BeginCreate, LockFree, rows
  <2>2. \A d \in Calls : call[d].pc # "create"
    BY <2>1, MediaAssumption DEF Counted
  <2>3. Created' = Created
    BY <2>1 DEF Created, Exists
  <2>4. \A d \in Calls : call'[d].pc = "create" =>
            d = c /\ asset'[call'[d].asset].status = "none"
    BY <1>1, <2>1, <2>2 DEF Exists
  <2> QED
    BY <2>1, <2>3, <2>4 DEF Counted, Exists
<1>3. CASE InsertAsset(c)
  <2>1. /\ call[c].pc = "create" /\ asset' = [asset EXCEPT ![a].status = "UPLOADING"]
        /\ call' = [call EXCEPT ![c].pc = "sign"]
    BY <1>3 DEF InsertAsset
  <2>2. /\ lock = c /\ ~Exists(a) /\ Cardinality(Created) < MaxDaily /\ IsFiniteSet(Created)
    BY <2>1 DEF Counted
  <2>3. \A d \in Calls : call'[d].pc # "create"
    <3>1. call'[c].pc = "sign" /\ \A d \in Calls \ {c} : call'[d] = call[d]
      BY <1>1, <2>1, SetCall DEF CallPc
    <3> QED
      BY <2>2, <3>1 DEF Counted
  <2>4. Created' = Created \union {a} /\ a \notin Created
    <3>1. asset'[a].status = "UPLOADING" /\ \A b \in Assets \ {a} : asset'[b] = asset[b]
      BY <1>1, <2>1, SetStatus DEF Status, Active
    <3> QED
      BY <1>1, <2>2, <3>1 DEF Created, Exists
  <2>5. IsFiniteSet(Created') /\ Cardinality(Created') = Cardinality(Created) + 1
    BY <2>2, <2>4, FS_AddElement
  <2>6. Cardinality(Created) \in Nat /\ MaxDaily \in Nat
    BY <2>2, FS_CardinalityType, MediaAssumption
  <2>7. Cardinality(Created') <= MaxDaily
    BY <2>2, <2>5, <2>6
  <2> QED
    BY <2>3, <2>5, <2>7 DEF Counted
<1>4. ASSUME \A b \in Assets : Exists(b)' <=> Exists(b),
             \A d \in Calls \ {c} : call'[d] = call[d],
             call'[c].pc # "create", lock' = lock \/ lock = c
      PROVE  Counted'
  <2>1. Created' = Created
    BY <1>4 DEF Created
  <2>2. \A d \in Calls : call'[d].pc = "create" => call'[d] = call[d] /\ lock' = lock
    BY <1>4 DEF Counted
  <2> QED
    BY <2>1, <2>2, CountedKept
<1>5. CASE SignUrl(c)
  BY <1>1, <1>4, <1>5, EndCall DEF SignUrl, rows, Exists
<1>6. CASE FailSign(c)
  <2>1. Exists(a)
    BY <1>6 DEF FailSign, Reached
  <2>2. \A b \in Assets : Exists(b)' <=> Exists(b)
    BY <1>1, <1>6, <2>1, SetStatus DEF FailSign, Status, Exists
  <2> QED
    BY <1>1, <1>4, <1>6, <2>2, EndCall DEF FailSign
<1>7. CASE BeginComplete(c)
  <2>1. call'[c].pc = "head" /\ \A d \in Calls \ {c} : call'[d] = call[d]
    BY <1>1, <1>7 DEF BeginComplete
  <2> QED
    BY <1>4, <1>7, <2>1 DEF BeginComplete, rows, Exists
<1>8. CASE HeadUpload(c)
  <2>1. /\ call'[c].pc \in {"idle", "claim"} /\ \A d \in Calls \ {c} : call'[d] = call[d]
    BY <1>1, <1>8, EndCall, SetCall DEF HeadUpload, CallPc
  <2> QED
    BY <1>4, <1>8, <2>1 DEF HeadUpload, rows, Exists
<1>9. CASE ClaimUpload(c)
  <2>1. /\ call'[c].pc \in {"idle", "enqueue"} /\ \A d \in Calls \ {c} : call'[d] = call[d]
    BY <1>1, <1>9, EndCall, SetCall DEF ClaimUpload, CallPc
  <2>2. Exists(a)
    BY <1>9 DEF ClaimUpload, Reached, Created
  <2>3. \A b \in Assets : Exists(b)' <=> Exists(b)
    BY <1>1, <1>9, <2>2, SetStatus DEF ClaimUpload, Status, Active, Exists
  <2> QED
    BY <1>4, <1>9, <2>1, <2>3 DEF ClaimUpload
<1>10. CASE EnqueueJob(c)
  BY <1>1, <1>4, <1>10, EndCall DEF EnqueueJob, rows, Exists
<1>11. CASE LoseCall(c)
  <2>1. lock' = lock \/ lock = c
    BY <1>11 DEF LoseCall
  <2> QED
    BY <1>1, <1>4, <1>11, <2>1, EndCall DEF LoseCall, rows, Exists
<1> QED
  BY <1>2, <1>3, <1>5, <1>6, <1>7, <1>8, <1>9, <1>10, <1>11 DEF CallStep

LEMMA NextCounted == Typed /\ Reached /\ Counted /\ [Next]_vars => Counted'
<1> SUFFICES ASSUME Typed, Reached, Counted, [Next]_vars PROVE Counted'
  OBVIOUS
<1>1. CASE \E w \in Workers : Work(w) \/ WorkerFault(w)
  <2>1. PICK w \in Workers : Work(w) \/ WorkerFault(w)
    BY <1>1
  <2>2. UNCHANGED <<call, lock>>
    BY <2>1, WorkerTouches DEF OnlyTouches
  <2> QED
    BY <2>1, <2>2, WorkerReached, CountedKept
<1>2. CASE PurgeStep \/ FailPurge
  <2>1. UNCHANGED <<call, lock>>
    BY <1>2 DEF PurgeStep, SchedulePurge, ListPersonal, DeletePersonal, MarkDeleted, FinishPurge,
       FailPurge, rows
  <2> QED
    BY <1>2, <2>1, PurgeReached, CountedKept
<1>3. CASE (\E a \in Assets : PutUpload(a)) \/ Anonymize \/ UNCHANGED vars
  <2>1. UNCHANGED <<call, lock, asset>>
    BY <1>3 DEF PutUpload, Anonymize, vars, rows
  <2> QED
    BY <2>1, CountedKept DEF Created, Exists
<1> QED
  BY <1>1, <1>2, <1>3, CallCounted DEF Next

LEMMA InitCounted == Init => Reached /\ Counted
<1> SUFFICES ASSUME Init PROVE Reached /\ Counted
  OBVIOUS
<1>1. Created = {} /\ IsFiniteSet({}) /\ Cardinality({}) = 0
  BY FS_EmptySet DEF Init, Created, Exists
<1>2. Counted
  BY <1>1, MediaAssumption DEF Init, Counted, NoCall
<1>3. Reached
  BY DEF Init, Reached, NoCall, NoJob, NoRun, NoPurge, At, Created
<1> QED
  BY <1>2, <1>3

LEMMA AlwaysCounted == Spec => [](Typed /\ Reached /\ Counted)
<1> QED
  BY InitTyped, InitCounted, NextTyped, NextReached, NextCounted, PTL DEF Spec

\* However many calls create an asset at once, the quota of the day is kept.
THEOREM QuotaCorrect == Spec => []DailyQuota
<1>1. Counted => DailyQuota
  BY DEF Counted, DailyQuota
<1> QED
  BY <1>1, AlwaysCounted, PTL

----------------------------------------------------------------------------
(* READY can be served, and a rejected file has left nothing. *)

Busy(w, a) == run[w].pc # "idle" /\ run[w].asset = a

\* The key of a row turns final once, with its READY status, and so does what
\* the purge knows of it.
Keyed ==
    /\ \A a \in Assets :
         /\ asset[a].status = "READY" => asset[a].key = "final"
         /\ asset[a].listed => asset[a].key = "final" /\ a \in Public
    /\ \A item \in purge.batch :
         /\ item.key = "final" => asset[item.asset].key = "final"
         /\ item.listed => item.key = "final"

\* As long as nothing stalled, one worker at most has the file; what it is about
\* to commit is in the store, and what is committed stays there until an attempt
\* that fails later, or the purge, takes it away.
Served(a) ==
    /\ asset[a].key = "final" =>
         /\ Complete(a) /\ job[a].state \notin {"none", "waiting"}
         /\ \A w \in Workers : Busy(w, a) => run[w].pc \in {"tidy", "clean"}
    /\ \A w \in Workers : Busy(w, a) =>
         /\ run[w].key = "upload"
         /\ run[w].pc \in {"variants", "commit"} => object[a].final
         /\ run[w].pc = "commit" /\ a \in Public => object[a].variants
         /\ job[a].state \in {"active", "failed"}
         /\ \A v \in Workers : Busy(v, a) => v = w

Servable(a) == a \in undone \/ job[a].stalled > 0 \/ Served(a)

\* As long as nothing was lost with the file, the worker that has it owns the
\* job and knows what is in the store, and without a worker there is nothing
\* unless the file is through.
Known(a) ==
    /\ (\A w \in Workers : ~Busy(w, a))
         /\ (asset[a].status = "REJECTED" \/ job[a].state \in {"none", "waiting"})
       => ~object[a].final /\ ~object[a].variants
    /\ \A w \in Workers : Busy(w, a) =>
         /\ run[w].owns
         /\ object[a].final => "final" \in ToClean(w)
         /\ object[a].variants => "variants" \in ToClean(w)
         /\ run[w].pc \in {"mark", "fetch", "put"} => run[w].wrote = {}
         /\ run[w].pc = "reject" => ~object[a].final /\ ~object[a].variants
         /\ run[w].pc = "tidy" => asset[a].status \in {"READY", "DELETED"}

Cleared(a) == a \in lost \/ Known(a)

MInv == Typed /\ Reached /\ Counted /\ Keyed
        /\ \A a \in Assets : Servable(a) /\ Cleared(a)

\* Steps of one worker leave all other files as they were.
LEMMA OthersKept ==
    ASSUME NEW w \in Workers, NEW a \in Assets, OnlyTouches(w, a), Concerns(w, a),
           NEW b \in Assets \ {a}, Servable(b), Cleared(b)
    PROVE  Servable(b)' /\ Cleared(b)'
<1>1. /\ job'[b] = job[b] /\ object'[b] = object[b] /\ asset'[b] = asset[b]
      /\ b \in undone' <=> b \in undone
      /\ b \in lost' <=> b \in lost
  BY DEF OnlyTouches
<1>2. \A v \in Workers : Busy(v, b)' <=> Busy(v, b)
  BY DEF OnlyTouches, Concerns, Busy, At
<1>3. \A v \in Workers : Busy(v, b) => run'[v] = run[v]
  BY DEF OnlyTouches, Concerns, Busy, At
<1>4. Servable(b)'
  BY <1>1, <1>2, <1>3 DEF Servable, Served, Complete
<1>5. Cleared(b)'
  BY <1>1, <1>2, <1>3 DEF Cleared, Known, ToClean
<1> QED
  BY <1>4, <1>5

\* A row that changes its status only, to another than READY, keeps its key.
LEMMA KeyedKept ==
    ASSUME Typed, Keyed, purge' = purge,
           \A a \in Assets : /\ asset'[a].key = asset[a].key
                             /\ asset'[a].listed = asset[a].listed
                             /\ asset'[a].status = "READY" => asset[a].status = "READY"
    PROVE  Keyed'
BY DEF Keyed, Typed, TypeOK, Purge

\* What a step of w on a has to show.
LEMMA TakeServes ==
    ASSUME Typed, Keyed, NEW w \in Workers, NEW a \in Assets, TakeJob(w, a),
           Servable(a), Cleared(a)
    PROVE  Servable(a)' /\ Cleared(a)'
<1>1. /\ job'[a].stalled = job[a].stalled /\ job[a].state = "waiting"
      /\ UNCHANGED <<asset, object, undone, lost>> /\ run[w].pc = "idle"
  BY TakeDoes DEF TakeJob, rows, At
<1>2. \/ Finished(a) /\ job'[a].state = "completed" /\ UNCHANGED run
      \/ /\ job'[a].state = "active"
         /\ run'[w] = [pc |-> "mark", asset |-> a, key |-> asset[a].key,
                       wrote |-> {}, owns |-> TRUE]
         /\ \A v \in Workers \ {w} : run'[v] = run[v]
  BY TakeDoes, Zenon
<1>3. asset[a].key \in {"upload", "final"} /\ OwnedOnce
  BY DEF Typed, TypeOK, AssetRow
<1>4. Servable(a)'
  <2>1. CASE a \in undone \/ job[a].stalled > 0
    BY <1>1, <2>1 DEF Servable
  <2>2. CASE Served(a)
    <3>1. asset[a].key = "upload" /\ \A v \in Workers : ~Busy(v, a)
      BY <1>1, <1>3, <2>2 DEF Served
    <3>2. CASE UNCHANGED run
      BY <1>1, <1>2, <3>1, <3>2 DEF Servable, Served, Busy
    <3>3. CASE /\ job'[a].state = "active"
               /\ run'[w] = [pc |-> "mark", asset |-> a, key |-> asset[a].key,
                             wrote |-> {}, owns |-> TRUE]
               /\ \A v \in Workers \ {w} : run'[v] = run[v]
      <4>1. \A v \in Workers : Busy(v, a)' => v = w
        BY <3>1, <3>3 DEF Busy
      <4>2. run'[w].pc = "mark" /\ run'[w].key = "upload"
        BY <3>1, <3>3
      <4> QED
        BY <1>1, <3>1, <3>3, <4>1, <4>2 DEF Servable, Served
    <3> QED
      BY <1>2, <3>2, <3>3
  <2> QED
    BY <2>1, <2>2 DEF Servable
<1>5. Cleared(a)'
  <2>1. CASE a \in lost
    BY <1>1, <2>1 DEF Cleared
  <2>2. CASE Known(a)
    <3>1. \A v \in Workers : ~Busy(v, a)
      BY <1>1, <1>3, <2>2 DEF Known, OwnedOnce, Busy
    <3>2. ~object[a].final /\ ~object[a].variants
      BY <1>1, <2>2, <3>1 DEF Known
    <3>3. CASE UNCHANGED run
      BY <1>1, <3>1, <3>2, <3>3 DEF Cleared, Known, Busy
    <3>4. CASE /\ run'[w] = [pc |-> "mark", asset |-> a, key |-> asset[a].key,
                             wrote |-> {}, owns |-> TRUE]
               /\ \A v \in Workers \ {w} : run'[v] = run[v]
      <4>1. \A v \in Workers : Busy(v, a)' => v = w
        BY <3>1, <3>4 DEF Busy
      <4>2. run'[w].pc = "mark" /\ run'[w].wrote = {} /\ run'[w].owns
        BY <3>4
      <4> QED
        BY <1>1, <3>2, <4>1, <4>2 DEF Cleared, Known
    <3> QED
      BY <1>2, <3>3, <3>4
  <2> QED
    BY <2>1, <2>2 DEF Cleared
<1> QED
  BY <1>4, <1>5

\* An attempt goes on or ends: what its step leaves of the file, in the words
\* of Served and of Known.
LEMMA ServedBy ==
    ASSUME NEW w \in Workers, NEW a \in Assets, \A v \in Workers : Busy(v, a)' => v = w,
           asset'[a].key = "final" =>
              /\ object'[a].final /\ (asset'[a].listed => object'[a].variants)
              /\ job'[a].state \notin {"none", "waiting"}
              /\ Busy(w, a)' => run'[w].pc \in {"tidy", "clean"},
           Busy(w, a)' =>
              /\ run'[w].key = "upload"
              /\ run'[w].pc \in {"variants", "commit"} => object'[a].final
              /\ run'[w].pc = "commit" /\ a \in Public => object'[a].variants
              /\ job'[a].state \in {"active", "failed"}
    PROVE  Servable(a)'
BY DEF Servable, Served, Complete

LEMMA KnownBy ==
    ASSUME NEW w \in Workers, NEW a \in Assets, \A v \in Workers : Busy(v, a)' => v = w,
           ~Busy(w, a)' /\ (asset'[a].status = "REJECTED" \/ job'[a].state \in {"none", "waiting"})
              => ~object'[a].final /\ ~object'[a].variants,
           Busy(w, a)' =>
              /\ run'[w].owns
              /\ object'[a].final => "final" \in {run'[w].key} \union run'[w].wrote
              /\ object'[a].variants => "variants" \in {run'[w].key} \union run'[w].wrote
              /\ run'[w].pc \in {"mark", "fetch", "put"} => run'[w].wrote = {}
              /\ run'[w].pc = "reject" => ~object'[a].final /\ ~object'[a].variants
              /\ run'[w].pc = "tidy" => asset'[a].status \in {"READY", "DELETED"}
    PROVE  Cleared(a)'
BY DEF Cleared, Known, ToClean

LEMMA AttemptServes ==
    ASSUME Typed, Keyed, NEW w \in Workers, Work(w) \/ WorkerFault(w),
           \A b \in Assets : ~TakeJob(w, b),
           NEW a \in Assets, a = run[w].asset, Servable(a)
    PROVE  Servable(a)'
<1>1. OnlyTouches(w, a) /\ ~At(w, "idle")
  <2>1. OnlyTouches(w, a)
    BY AttemptTouches
  <2>2. ~At(w, "idle")
    BY DEF Work, WorkerFault, MarkProcessing, FetchAndScan, PutFinal, PutVariants, CommitReady,
       DeleteTemporary, CleanUp, Reject, FailStep, FailRow, LoseWorker, Stall, At
  <2> QED
    BY <2>1, <2>2
<1>2. /\ TypeOK /\ run[w] \in Run /\ job[a] \in Job /\ run \in [Workers -> Run]
  BY DEF Typed, TypeOK
<1>3. ASSUME job'[a].stalled > 0 \/ a \in undone' PROVE Servable(a)'
  BY <1>3 DEF Servable
<1>4. CASE a \in undone \/ job[a].stalled > 0
  <2>1. a \in undone => a \in undone'
    BY DEF Work, WorkerFault, MarkProcessing, FetchAndScan, PutFinal, PutVariants, CommitReady,
       DeleteTemporary, CleanUp, Reject, FailStep, FailRow, LoseWorker, Stall
  <2>2. job'[a].stalled >= job[a].stalled /\ job'[a].stalled \in Nat /\ job[a].stalled \in Nat
    <3>1. Typed'
      BY WorkTyped, WorkerFaultTyped
    <3>2. job'[a].stalled \in 0..MaxStalled /\ job[a].stalled \in 0..MaxStalled
      BY <1>2, <3>1 DEF Typed, TypeOK, Job
    <3>3. CASE DeleteTemporary(w) \/ Reject(w) \/ FailRow(w)
      <4>1. Leave(w, "completed") \/ Leave(w, "failed")
        BY <3>3 DEF DeleteTemporary, Reject, FailRow
      <4>2. job'[a].stalled = job[a].stalled
        BY <4>1, LeaveRun
      <4> QED
        BY <3>2, <4>2, MediaAssumption
    <3>4. CASE LoseWorker(w) \/ Stall(w)
      <4>1. job' = job \/ (run[w].owns /\ job' = TakenBack(a))
        BY <3>4 DEF LoseWorker, Stall
      <4>2. run[w].owns => job[a].state = "active"
        BY DEF Typed, OwnedOnce
      <4> QED
        BY <3>2, <4>1, <4>2, TakeBack, MediaAssumption
    <3>5. CASE ~(DeleteTemporary(w) \/ Reject(w) \/ FailRow(w) \/ LoseWorker(w) \/ Stall(w))
      <4>1. job' = job
        BY <3>5 DEF Work, WorkerFault, MarkProcessing, FetchAndScan, PutFinal, PutVariants,
           CommitReady, CleanUp, FailStep
      <4> QED
        BY <3>2, <4>1, MediaAssumption
    <3> QED
      BY <3>3, <3>4, <3>5
  <2> QED
    BY <1>3, <1>4, <2>1, <2>2
<1>5. ASSUME Served(a) PROVE Servable(a)'
  <2>1. Busy(w, a) /\ \A v \in Workers : Busy(v, a) => v = w
    BY <1>1, <1>5 DEF Served, Busy, At
  <2>2. \A v \in Workers : Busy(v, a)' => v = w
    BY <1>1, <2>1 DEF OnlyTouches, Busy
  <2>3. /\ asset[a].key = "final" =>
             /\ object[a].final /\ (asset[a].listed => object[a].variants)
             /\ job[a].state \notin {"none", "waiting"}
             /\ run[w].pc \in {"tidy", "clean"}
        /\ run[w].key = "upload"
        /\ run[w].pc \in {"variants", "commit"} => object[a].final
        /\ run[w].pc = "commit" /\ a \in Public => object[a].variants
        /\ job[a].state \in {"active", "failed"}
    BY <1>5, <2>1 DEF Served, Complete
  <2>4. CASE MarkProcessing(w)
    <3>1. asset'[a].key = asset[a].key /\ asset'[a].listed = asset[a].listed
      BY <1>2, <2>4, SetStatus DEF MarkProcessing, Status, Active
    <3>2. run'[w].pc = "fetch" /\ run'[w].key = run[w].key
      BY <1>2, <2>4, StepRun DEF MarkProcessing, RunPc
    <3>3. UNCHANGED <<object, job>> /\ run[w].pc = "mark"
      BY <2>4 DEF MarkProcessing, At
    <3> QED
      BY <2>2, <2>3, <3>1, <3>2, <3>3, ServedBy
  <2>5. CASE FetchAndScan(w)
    <3>1. run'[w].pc \in {"put", "clean"} /\ run'[w].key = run[w].key
      BY <1>2, <2>5, StepRun DEF FetchAndScan, RunPc
    <3>2. UNCHANGED <<asset, object, job>> /\ run[w].pc = "fetch"
      BY <2>5 DEF FetchAndScan, rows, At
    <3> QED
      BY <2>2, <2>3, <3>1, <3>2, ServedBy
  <2>6. CASE PutFinal(w)
    <3>1. /\ object'[a].final /\ run'[w].pc = IF a \in Public THEN "variants" ELSE "commit"
          /\ run'[w].key = run[w].key
      BY <1>2, <2>6, PutFinalDoes
    <3>2. UNCHANGED <<asset, job>> /\ run[w].pc = "put"
      BY <2>6 DEF PutFinal, At
    <3> QED
      BY <2>2, <2>3, <3>1, <3>2, ServedBy
  <2>7. CASE PutVariants(w)
    <3>1. /\ object'[a].variants /\ object'[a].final = object[a].final
          /\ run'[w].pc = "commit" /\ run'[w].key = run[w].key
      BY <1>2, <2>7, PutVariantsDoes
    <3>2. UNCHANGED <<asset, job>> /\ run[w].pc = "variants"
      BY <2>7 DEF PutVariants, At
    <3> QED
      BY <2>2, <2>3, <3>1, <3>2, ServedBy
  <2>8. CASE CommitReady(w)
    <3>1. asset'[a].listed <=> (asset[a].listed \/ a \in Public)
      BY <1>2, <2>8, CommitDoes
    <3>2. run'[w].pc = "tidy" /\ run'[w].key = run[w].key
      BY <1>2, <2>8, StepRun DEF CommitReady, RunPc
    <3>3. UNCHANGED <<object, job>> /\ run[w].pc = "commit"
      BY <2>8 DEF CommitReady, At
    <3>4. asset[a].listed => a \in Public
      BY DEF Keyed
    <3> QED
      BY <2>2, <2>3, <3>1, <3>2, <3>3, <3>4, ServedBy
  <2>9. CASE DeleteTemporary(w)
    <3>1. object' = [object EXCEPT ![a] = Without(object[a], Temporary(w))]
      BY <2>9 DEF DeleteTemporary
    <3>2. "final" \notin Temporary(w) /\ "variants" \notin Temporary(w)
      BY <2>3 DEF Temporary
    <3>5. (object'[a].final <=> object[a].final) /\ (object'[a].variants <=> object[a].variants)
      BY <1>2, <3>1, <3>2, Deleted
    <3>3. Leave(w, "completed") /\ UNCHANGED asset
      BY <2>9 DEF DeleteTemporary
    <3>4. run'[w].pc = "idle" /\ (job'[a] = job[a] \/ job'[a].state = "completed")
      BY <3>3, LeaveRun DEF NoRun
    <3> QED
      BY <2>2, <2>3, <3>3, <3>4, <3>5, ServedBy DEF Busy
  <2>10. CASE CleanUp(w)
    <3>1. asset[a].key = "final" => a \in undone'
      BY <2>10 DEF CleanUp
    <3>2. run'[w].pc = "reject" /\ run'[w].key = run[w].key
      BY <1>2, <2>10, StepRun DEF CleanUp, RunPc
    <3>3. UNCHANGED <<asset, job>>
      BY <2>10 DEF CleanUp
    <3>4. CASE asset[a].key # "final"
      BY <2>2, <2>3, <3>2, <3>3, <3>4, ServedBy
    <3> QED
      BY <1>3, <3>1, <3>4
  <2>11. CASE Reject(w) \/ FailRow(w)
    <3>1. asset'[a].key = asset[a].key
      BY <1>2, <2>11, SetStatus DEF Reject, FailRow, rows, Status
    <3>2. run[w].pc \in {"mark", "reject"} /\ Leave(w, "failed")
      BY <2>11 DEF Reject, FailRow, At
    <3>3. run'[w].pc = "idle"
      BY <3>2, LeaveRun DEF NoRun
    <3> QED
      BY <2>2, <2>3, <3>1, <3>2, <3>3, ServedBy DEF Busy
  <2>12. CASE FailStep(w)
    <3>1. run'[w].pc = "clean" /\ run'[w].key = run[w].key
      BY <1>2, <2>12, StepRun DEF FailStep, RunPc
    <3>2. UNCHANGED <<asset, object, job>>
      BY <2>12 DEF FailStep, rows
    <3> QED
      BY <2>2, <2>3, <3>1, <3>2, ServedBy
  <2>13. CASE LoseWorker(w) \/ Stall(w)
    <3>1. UNCHANGED <<asset, object>>
      BY <2>13 DEF LoseWorker, Stall, rows
    <3>2. job' = job \/ (run[w].owns /\ job' = TakenBack(a))
      BY <2>13 DEF LoseWorker, Stall
    <3>3. run[w].owns => job[a].state = "active"
      BY DEF Typed, OwnedOnce
    <3>4. job'[a].stalled > 0 \/ job'[a].state = "failed" \/ job' = job
      BY <3>2, <3>3, TakeBack
    <3>5. run'[w].pc \in {"idle", run[w].pc} /\ (run'[w].pc = "idle" \/ run'[w].key = run[w].key)
      <4> DEFINE r == [run[w] EXCEPT !.owns = FALSE]
      <4>1. run' = [run EXCEPT ![w] = NoRun] \/ run' = [run EXCEPT ![w] = r]
        BY <2>13 DEF LoseWorker, Stall
      <4>2. r.pc = run[w].pc /\ r.key = run[w].key /\ NoRun.pc = "idle"
        BY <1>2 DEF NoRun, Run
      <4> HIDE DEF r
      <4> QED
        BY <1>2, <4>1, <4>2
    <3>6. CASE job'[a].state = "failed" \/ job' = job
      BY <2>2, <2>3, <3>1, <3>5, <3>6, ServedBy DEF Busy
    <3> QED
      BY <1>3, <3>4, <3>6
  <2> QED
    BY <2>4, <2>5, <2>6, <2>7, <2>8, <2>9, <2>10, <2>11, <2>12, <2>13 DEF Work, WorkerFault
<1> QED
  BY <1>4, <1>5 DEF Servable

LEMMA AttemptClears ==
    ASSUME Typed, NEW w \in Workers, Work(w) \/ WorkerFault(w),
           \A b \in Assets : ~TakeJob(w, b),
           NEW a \in Assets, a = run[w].asset, Cleared(a)
    PROVE  Cleared(a)'
<1>1. OnlyTouches(w, a) /\ ~At(w, "idle")
  <2>1. OnlyTouches(w, a)
    BY AttemptTouches
  <2>2. ~At(w, "idle")
    BY DEF Work, WorkerFault, MarkProcessing, FetchAndScan, PutFinal, PutVariants, CommitReady,
       DeleteTemporary, CleanUp, Reject, FailStep, FailRow, LoseWorker, Stall, At
  <2> QED
    BY <2>1, <2>2
<1>2. /\ TypeOK /\ run[w] \in Run /\ job[a] \in Job /\ run \in [Workers -> Run] /\ OwnedOnce
      /\ run[w].key \in {"upload", "final"}
  BY DEF Typed, TypeOK, Run
<1>3. ASSUME a \in lost' PROVE Cleared(a)'
  BY <1>3 DEF Cleared
<1>4. CASE a \in lost
  <2>1. a \in lost'
    BY <1>4 DEF Work, WorkerFault, MarkProcessing, FetchAndScan, PutFinal, PutVariants, CommitReady,
       DeleteTemporary, CleanUp, Reject, FailStep, FailRow, LoseWorker, Stall
  <2> QED
    BY <1>3, <2>1
<1>5. CASE FailRow(w) \/ LoseWorker(w) \/ Stall(w)
  BY <1>3, <1>5 DEF FailRow, LoseWorker, Stall
<1>6. ASSUME Known(a), ~(FailRow(w) \/ LoseWorker(w) \/ Stall(w)) PROVE Cleared(a)'
  <2>1. Busy(w, a)
    BY <1>1 DEF Busy, At
  <2>2. /\ run[w].owns
        /\ object[a].final => "final" \in ToClean(w)
        /\ object[a].variants => "variants" \in ToClean(w)
        /\ run[w].pc \in {"mark", "fetch", "put"} => run[w].wrote = {}
        /\ run[w].pc = "reject" => ~object[a].final /\ ~object[a].variants
        /\ run[w].pc = "tidy" => asset[a].status \in {"READY", "DELETED"}
    BY <1>6, <2>1 DEF Known
  <2>3. \A v \in Workers : Busy(v, a)' => v = w
    <3>1. \A v \in Workers : Busy(v, a) => v = w
      BY <1>2, <1>6, <2>2 DEF Known, OwnedOnce, Busy
    <3> QED
      BY <1>1, <3>1 DEF OnlyTouches, Busy
  <2>4. ASSUME NEW pc \in RunPc, Step(w, pc)
        PROVE  /\ run'[w].pc = pc /\ run'[w].key = run[w].key /\ run'[w].wrote = run[w].wrote
               /\ run'[w].owns /\ (pc # "idle" => Busy(w, a)')
    BY <1>2, <2>2, <2>4, StepRun DEF Busy
  <2>5. CASE MarkProcessing(w)
    <3>1. run'[w].pc = "fetch" /\ run'[w].wrote = {} /\ run'[w].key = run[w].key
          /\ run'[w].owns /\ Busy(w, a)'
      BY <2>2, <2>4, <2>5 DEF MarkProcessing, RunPc, At
    <3>2. UNCHANGED object
      BY <2>5 DEF MarkProcessing
    <3> QED
      BY <2>2, <2>3, <2>5, <3>1, <3>2, KnownBy DEF ToClean, MarkProcessing, At
  <2>6. CASE FetchAndScan(w)
    <3>1. /\ run'[w].pc \in {"put", "clean"} /\ run'[w].wrote = run[w].wrote
          /\ run'[w].key = run[w].key /\ run'[w].owns /\ Busy(w, a)'
      BY <2>2, <2>4, <2>6 DEF FetchAndScan, RunPc, At
    <3>2. UNCHANGED object /\ run[w].pc = "fetch"
      BY <2>6 DEF FetchAndScan, rows, At
    <3> QED
      BY <2>2, <2>3, <3>1, <3>2, KnownBy DEF ToClean
  <2>7. CASE PutFinal(w)
    <3>1. /\ object'[a].variants = object[a].variants /\ run'[w].wrote = {"final"}
          /\ run'[w].pc = IF a \in Public THEN "variants" ELSE "commit"
          /\ run'[w].asset = a /\ run'[w].owns = run[w].owns
      BY <1>2, <2>7, PutFinalDoes
    <3>2. run[w].pc = "put"
      BY <2>7 DEF PutFinal, At
    <3>3. ~object[a].variants
      BY <1>2, <2>2, <3>2 DEF ToClean
    <3> QED
      BY <2>2, <2>3, <3>1, <3>3, KnownBy DEF Busy
  <2>8. CASE PutVariants(w)
    <3>1. /\ object'[a].final = object[a].final /\ run'[w].key = run[w].key
          /\ run'[w].wrote = run[w].wrote \union {"variants"}
          /\ run'[w].pc = "commit" /\ run'[w].asset = a /\ run'[w].owns = run[w].owns
      BY <1>2, <2>8, PutVariantsDoes
    <3> QED
      BY <2>2, <2>3, <3>1, KnownBy DEF Busy, ToClean
  <2>9. CASE CommitReady(w)
    <3>1. asset'[a].status = "READY"
      BY <1>2, <2>9, CommitDoes
    <3>2. /\ run'[w].pc = "tidy" /\ run'[w].wrote = run[w].wrote
          /\ run'[w].key = run[w].key /\ run'[w].owns /\ Busy(w, a)'
      BY <2>4, <2>9 DEF CommitReady, RunPc
    <3>3. UNCHANGED object
      BY <2>9 DEF CommitReady
    <3> QED
      BY <2>2, <2>3, <3>1, <3>2, <3>3, KnownBy DEF ToClean
  <2>10. CASE DeleteTemporary(w)
    <3>1. Leave(w, "completed") /\ UNCHANGED asset /\ run[w].pc = "tidy"
      BY <2>10 DEF DeleteTemporary, At
    <3>2. run'[w].pc = "idle" /\ job'[a].state = "completed"
      BY <2>2, <3>1, LeaveRun DEF NoRun
    <3> QED
      BY <2>2, <2>3, <3>1, <3>2, KnownBy DEF Busy
  <2>11. CASE CleanUp(w)
    <3>1. CASE object' = [object EXCEPT ![a] = Without(object[a], ToClean(w))]
      <4>1. ~object'[a].final /\ ~object'[a].variants
        BY <1>2, <2>2, <3>1, Deleted
      <4>2. /\ run'[w].pc = "reject" /\ run'[w].owns /\ Busy(w, a)'
        BY <2>4, <2>11 DEF CleanUp, RunPc
      <4> QED
        BY <2>3, <4>1, <4>2, KnownBy
    <3>2. CASE lost' = lost \union {a}
      BY <1>3, <3>2
    <3> QED
      BY <2>11, <3>1, <3>2 DEF CleanUp
  <2>12. CASE Reject(w)
    <3>1. Leave(w, "failed") /\ UNCHANGED object /\ run[w].pc = "reject"
      BY <2>12 DEF Reject, At
    <3>2. run'[w].pc = "idle"
      BY <3>1, LeaveRun DEF NoRun
    <3> QED
      BY <2>2, <2>3, <3>1, <3>2, KnownBy DEF Busy
  <2>13. CASE FailStep(w)
    <3>1. /\ run'[w].pc = "clean" /\ run'[w].wrote = run[w].wrote
          /\ run'[w].key = run[w].key /\ run'[w].owns /\ Busy(w, a)'
      BY <2>4, <2>13 DEF FailStep, RunPc
    <3>2. UNCHANGED object
      BY <2>13 DEF FailStep, rows
    <3> QED
      BY <2>2, <2>3, <3>1, <3>2, KnownBy DEF ToClean
  <2> QED
    BY <1>6, <2>5, <2>6, <2>7, <2>8, <2>9, <2>10, <2>11, <2>12, <2>13 DEF Work, WorkerFault
<1> QED
  BY <1>4, <1>5, <1>6 DEF Cleared

LEMMA WorkerServes ==
    ASSUME MInv, NEW w \in Workers, Work(w) \/ WorkerFault(w)
    PROVE  \A b \in Assets : Servable(b)' /\ Cleared(b)'
<1>1. Typed /\ Keyed /\ \A b \in Assets : Servable(b) /\ Cleared(b)
  BY DEF MInv
<1>2. PICK a \in Assets : /\ OnlyTouches(w, a) /\ Concerns(w, a)
                          /\ Servable(a)' /\ Cleared(a)'
  <2>1. CASE \E a \in Assets : TakeJob(w, a)
    BY <1>1, <2>1, TakeTouches, TakeServes
  <2>2. CASE ~ \E a \in Assets : TakeJob(w, a)
    <3>1. run[w].asset \in Assets
      BY <1>1 DEF Typed, TypeOK, Run
    <3>2. PICK a \in Assets : a = run[w].asset
      BY <3>1
    <3>3. OnlyTouches(w, a) /\ Concerns(w, a)
      BY <1>1, <2>2, <3>2, AttemptTouches
    <3>4. Servable(a)' /\ Cleared(a)'
      BY <1>1, <2>2, <3>2, AttemptServes, AttemptClears
    <3> QED
      BY <3>3, <3>4
  <2> QED
    BY <2>1, <2>2
<1>3. ASSUME NEW b \in Assets \ {a} PROVE Servable(b)' /\ Cleared(b)'
  BY <1>1, <1>2, OthersKept
<1> QED
  BY <1>2, <1>3

\* Steps that give the file to nobody, store nothing and take nothing.
LEMMA IdleServes ==
    ASSUME NEW b \in Assets, Servable(b), Cleared(b), UNCHANGED run,
           job'[b] = job[b] \/ (job[b].state = "none" /\ job'[b].state = "waiting"
                                /\ job'[b].stalled = job[b].stalled),
           object'[b].final = object[b].final, object'[b].variants = object[b].variants,
           asset'[b].key = asset[b].key, asset'[b].listed = asset[b].listed,
           b \in undone => b \in undone', b \in lost => b \in lost',
           \/ asset'[b].status = asset[b].status
           \/ /\ asset'[b].status = "REJECTED" => ~object[b].final /\ ~object[b].variants
              /\ asset'[b].status \in {"READY", "DELETED"}
                   \/ asset[b].status \notin {"READY", "DELETED"},
           \A w \in Workers : run[w].owns => job[run[w].asset].state = "active"
    PROVE  Servable(b)' /\ Cleared(b)'
<1>1. \A w \in Workers : Busy(w, b)' <=> Busy(w, b)
  BY DEF Busy
<1>2. Servable(b)'
  <2>1. CASE b \in undone \/ job[b].stalled > 0
    BY <2>1 DEF Servable
  <2>2. CASE Served(b)
    BY <1>1, <2>2 DEF Servable, Served, Complete
  <2> QED
    BY <2>1, <2>2 DEF Servable
<1>3. Cleared(b)'
  <2>1. CASE b \in lost
    BY <2>1 DEF Cleared
  <2>2. CASE Known(b)
    <3>1. ASSUME NEW w \in Workers, Busy(w, b)
          PROVE  /\ run'[w].owns
                 /\ object'[b].final => "final" \in {run'[w].key} \union run'[w].wrote
                 /\ object'[b].variants => "variants" \in {run'[w].key} \union run'[w].wrote
                 /\ run'[w].pc \in {"mark", "fetch", "put"} => run'[w].wrote = {}
                 /\ run'[w].pc = "reject" => ~object'[b].final /\ ~object'[b].variants
                 /\ run'[w].pc = "tidy" => asset'[b].status \in {"READY", "DELETED"}
      BY <2>2, <3>1 DEF Known, ToClean
    <3>2. ASSUME \A w \in Workers : ~Busy(w, b),
                 asset'[b].status = "REJECTED" \/ job'[b].state \in {"none", "waiting"}
          PROVE  ~object'[b].final /\ ~object'[b].variants
      BY <2>2, <3>2 DEF Known
    <3> QED
      BY <1>1, <3>1, <3>2 DEF Cleared, Known, ToClean
  <2> QED
    BY <2>1, <2>2 DEF Cleared
<1> QED
  BY <1>2, <1>3

LEMMA CallServes ==
    ASSUME MInv, NEW c \in Calls, CallStep(c)
    PROVE  Keyed' /\ \A b \in Assets : Servable(b)' /\ Cleared(b)'
<1>0. PICK a \in Assets : a = call[c].asset
  BY DEF MInv, Typed, TypeOK, Call
<1>1. /\ Typed /\ TypeOK /\ Keyed /\ Reached /\ Counted
      /\ call[c].asset \in Assets /\ \A b \in Assets : Servable(b) /\ Cleared(b)
      /\ job \in [Assets -> Job]
      /\ \A w \in Workers : run[w].owns => job[run[w].asset].state = "active"
  BY DEF MInv, Typed, TypeOK, Call, OwnedOnce
<1>2. UNCHANGED <<object, run, purge, undone>> /\ lost \subseteq lost'
  BY DEF CallStep, BeginCreate, InsertAsset, SignUrl, FailSign, BeginComplete, HeadUpload,
     ClaimUpload, EnqueueJob, LoseCall, rows
<1>3. ASSUME NEW s \in Status, asset' = [asset EXCEPT ![a].status = s], s # "READY",
             UNCHANGED job, asset[a].status \notin {"READY", "DELETED"} \/ s = "DELETED"
                            \/ (~object[a].final /\ ~object[a].variants
                                /\ \A w \in Workers : ~Busy(w, a)),
             s = "REJECTED" => ~object[a].final /\ ~object[a].variants
      PROVE  Keyed' /\ \A b \in Assets : Servable(b)' /\ Cleared(b)'
  <2>1. /\ asset'[a].status = s /\ asset'[a].key = asset[a].key
        /\ asset'[a].listed = asset[a].listed
        /\ \A b \in Assets \ {a} : asset'[b] = asset[b]
    BY <1>1, <1>3, SetStatus
  <2>2. Keyed'
    BY <1>1, <1>2, <1>3, <2>1, KeyedKept
  <2>3. \A b \in Assets \ {a} : Servable(b)' /\ Cleared(b)'
    BY <1>1, <1>2, <1>3, <2>1, IdleServes
  <2>4. Servable(a)' /\ Cleared(a)'
    <3>1. CASE asset[a].status \notin {"READY", "DELETED"} \/ s = "DELETED"
      <4>1. /\ asset'[a].status = "REJECTED" => ~object[a].final /\ ~object[a].variants
            /\ asset'[a].status \in {"READY", "DELETED"}
                 \/ asset[a].status \notin {"READY", "DELETED"}
        BY <1>3, <2>1, <3>1
      <4> QED
        BY <1>1, <1>2, <1>3, <2>1, <4>1, IdleServes
    <3>2. CASE ~object[a].final /\ ~object[a].variants /\ \A w \in Workers : ~Busy(w, a)
      <4>1. Cleared(a)'
        BY <1>2, <1>3, <3>2 DEF Cleared, Known, Busy
      <4>2. Servable(a)'
        BY <1>1, <1>2, <1>3, <2>1, <3>2 DEF Servable, Served, Complete, Busy
      <4> QED
        BY <4>1, <4>2
    <3> QED
      BY <1>3, <3>1, <3>2
  <2> QED
    BY <2>2, <2>3, <2>4
<1>4. ASSUME UNCHANGED <<asset, job>>
      PROVE  Keyed' /\ \A b \in Assets : Servable(b)' /\ Cleared(b)'
  <2>1. Keyed'
    BY <1>1, <1>2, <1>4, KeyedKept
  <2>2. \A b \in Assets : Servable(b)' /\ Cleared(b)'
    BY <1>1, <1>2, <1>4, IdleServes
  <2> QED
    BY <2>1, <2>2
<1>5. CASE InsertAsset(c)
  <2>1. asset[a].status = "none"
    BY <1>1, <1>0, <1>5 DEF InsertAsset, Counted, Exists
  <2> QED
    BY <1>0, <1>3, <1>5, <2>1 DEF InsertAsset, Status, Active
<1>6. CASE FailSign(c)
  <2>1. a \notin url
    BY <1>1, <1>0, <1>6 DEF FailSign, Reached
  <2>2. ~object[a].final /\ ~object[a].variants /\ \A w \in Workers : ~Busy(w, a)
    BY <1>1, <2>1 DEF Reached, Busy, At
  <2>3. UNCHANGED job
    BY <1>6 DEF FailSign
  <2>4. asset' = [asset EXCEPT ![a].status = "REJECTED"] \/ UNCHANGED asset
    BY <1>0, <1>6 DEF FailSign
  <2> QED
    BY <1>3, <1>4, <2>2, <2>3, <2>4 DEF Status
<1>7. CASE ClaimUpload(c)
  <2>1. \/ asset[a].status = "UPLOADING" /\ asset' = [asset EXCEPT ![a].status = "UPLOADED"]
        \/ UNCHANGED asset
    BY <1>0, <1>7 DEF ClaimUpload
  <2>2. UNCHANGED job
    BY <1>7 DEF ClaimUpload
  <2> QED
    BY <1>3, <1>4, <2>1, <2>2 DEF Status, Active
<1>8. CASE EnqueueJob(c)
  <2> DEFINE r == [NoJob EXCEPT !.state = "waiting"]
  <2>1. r.state = "waiting" /\ r.stalled = 0 /\ NoJob.state = "none" /\ NoJob.stalled = 0
    BY DEF NoJob
  <2>2. job' = job \/ (job[a] = NoJob /\ job' = [job EXCEPT ![a] = r])
    BY <1>0, <1>8 DEF EnqueueJob
  <2>3. UNCHANGED asset
    BY <1>8 DEF EnqueueJob, rows
  <2> HIDE DEF r
  <2>4. \A b \in Assets : \/ job'[b] = job[b]
                          \/ job[b].state = "none" /\ job'[b].state = "waiting"
                             /\ job'[b].stalled = job[b].stalled
    BY <1>1, <2>1, <2>2
  <2>5. \A b \in Assets : Servable(b)' /\ Cleared(b)'
    BY <1>1, <1>2, <2>3, <2>4, IdleServes
  <2>6. Keyed'
    BY <1>1, <1>2, <2>3, KeyedKept
  <2> QED
    BY <2>5, <2>6
<1>9. CASE BeginCreate(c) \/ SignUrl(c) \/ BeginComplete(c) \/ HeadUpload(c) \/ LoseCall(c)
  BY <1>4, <1>9 DEF BeginCreate, SignUrl, BeginComplete, HeadUpload, LoseCall, rows
<1> QED
  BY <1>5, <1>6, <1>7, <1>8, <1>9 DEF CallStep

LEMMA WorkerKeyed ==
    ASSUME Typed, Keyed, NEW w \in Workers, Work(w) \/ WorkerFault(w)
    PROVE  Keyed'
<1> DEFINE a == run[w].asset
<1>1. TypeOK /\ a \in Assets /\ asset \in [Assets -> AssetRow]
  BY DEF Typed, TypeOK, Run
<1>2. UNCHANGED purge
  BY WorkerTouches DEF OnlyTouches
<1>3. CASE MarkProcessing(w) \/ Reject(w)
  <2>1. PICK s \in Status \ {"READY"} : asset' = [asset EXCEPT ![a].status = s]
    BY <1>3 DEF MarkProcessing, Reject, Status, Active
  <2> QED
    BY <1>1, <1>2, <2>1, SetStatus, KeyedKept
<1>4. CASE CommitReady(w)
  <2>1. /\ asset'[a].key = "final"
        /\ asset'[a].listed <=> (asset[a].listed \/ a \in Public)
        /\ \A b \in Assets \ {a} : asset'[b] = asset[b]
    BY <1>1, <1>4, CommitDoes
  <2>2. \A item \in purge.batch : item.asset \in Assets
    BY DEF Typed, TypeOK, Purge
  <2> QED
    BY <1>2, <2>1, <2>2 DEF Keyed
<1>5. CASE ~(MarkProcessing(w) \/ Reject(w) \/ CommitReady(w))
  <2>1. UNCHANGED asset
    BY <1>5 DEF Work, WorkerFault, TakeJob, FetchAndScan, PutFinal, PutVariants,
       DeleteTemporary, CleanUp, FailStep, FailRow, LoseWorker, Stall, rows
  <2> QED
    BY <1>2, <2>1, KeyedKept
<1> QED
  BY <1>3, <1>4, <1>5

LEMMA PurgeServes ==
    ASSUME MInv, PurgeStep \/ FailPurge
    PROVE  Keyed' /\ \A b \in Assets : Servable(b)' /\ Cleared(b)'
<1>1. /\ Typed /\ TypeOK /\ Keyed /\ \A b \in Assets : Servable(b) /\ Cleared(b)
      /\ asset \in [Assets -> AssetRow] /\ purge \in Purge
      /\ \A item \in purge.batch : item.asset \in Assets
      /\ \A w \in Workers : run[w].owns => job[run[w].asset].state = "active"
  BY DEF MInv, Typed, TypeOK, Purge, OwnedOnce
<1>2. UNCHANGED <<job, run, lost>>
  BY DEF PurgeStep, SchedulePurge, ListPersonal, DeletePersonal, MarkDeleted, FinishPurge,
     FailPurge, rows
<1>3. ASSUME UNCHANGED <<asset, object, undone>>
      PROVE  \A b \in Assets : Servable(b)' /\ Cleared(b)'
  BY <1>1, <1>2, <1>3, IdleServes
<1>4. CASE ListPersonal
  <2>1. UNCHANGED <<asset, object, undone>>
    BY <1>4 DEF ListPersonal, rows
  <2>2. \A item \in purge'.batch : \E b \in ToPurge :
            item = [asset |-> b, key |-> asset[b].key, listed |-> asset[b].listed]
    BY <1>4 DEF ListPersonal
  <2>3. ToPurge \subseteq Assets
    BY MediaAssumption DEF ToPurge
  <2>4. ASSUME NEW item \in purge'.batch
        PROVE  /\ item.key = "final" => asset'[item.asset].key = "final"
               /\ item.listed => item.key = "final"
    BY <1>1, <2>1, <2>2, <2>3 DEF Keyed
  <2>5. Keyed'
    BY <1>1, <2>1, <2>4 DEF Keyed
  <2> QED
    BY <1>3, <2>1, <2>5
<1>5. CASE DeletePersonal
  <2>1. PICK item \in purge.batch :
            LET a == item.asset
                known == {item.key} \union (IF item.listed THEN {"variants"} ELSE {})
            IN  /\ object' = [object EXCEPT ![a] = Without(object[a], known)]
                /\ undone' = undone \union (IF asset[a].key = "final" THEN {a} ELSE {})
                /\ purge' = [purge EXCEPT !.batch = purge.batch \ {item}, !.mark = {a}]
    BY <1>5, Zenon DEF DeletePersonal
  <2> DEFINE known == {item.key} \union (IF item.listed THEN {"variants"} ELSE {})
  <2>2. PICK a \in Assets : a = item.asset
    BY <1>1, <2>1
  <2>3. UNCHANGED asset
    BY <1>5 DEF DeletePersonal
  <2>4. /\ object' = [object EXCEPT ![a] = Without(object[a], known)]
        /\ undone' = undone \union (IF asset[a].key = "final" THEN {a} ELSE {})
    BY <2>1, <2>2
  <2>5. purge'.batch = purge.batch \ {item}
    BY <1>1, <2>1 DEF Purge
  <2>6. Keyed'
    BY <1>1, <2>3, <2>5 DEF Keyed
  <2>7. item.key \in {"upload", "final"} /\ item.key # "variants"
    BY <1>1, <2>1 DEF Purge
  <2>8. asset[a].key # "final" => "final" \notin known /\ "variants" \notin known
    BY <1>1, <2>1, <2>2, <2>7 DEF Keyed
  <2> HIDE DEF known
  <2>9. /\ \A b \in Assets \ {a} : object'[b] = object[b]
        /\ object'[a].final <=> (object[a].final /\ "final" \notin known)
        /\ object'[a].variants <=> (object[a].variants /\ "variants" \notin known)
    BY <1>1, <2>4, Deleted
  <2>10. ASSUME NEW b \in Assets \ {a} PROVE Servable(b)' /\ Cleared(b)'
    <3>1. object'[b] = object[b] /\ (b \in undone => b \in undone')
      BY <2>4, <2>9
    <3> QED
      BY <1>1, <1>2, <2>3, <3>1, IdleServes
  <2>11. Servable(a)'
    <3>1. CASE asset[a].key = "final"
      BY <2>4, <3>1 DEF Servable
    <3>2. CASE a \in undone \/ job[a].stalled > 0
      BY <1>2, <2>4, <3>2 DEF Servable
    <3>3. CASE asset[a].key # "final" /\ Served(a)
      BY <1>2, <2>3, <2>8, <2>9, <3>3 DEF Servable, Served, Busy
    <3> QED
      BY <1>1, <3>1, <3>2, <3>3 DEF Servable
  <2>12. Cleared(a)'
    <3>1. CASE a \in lost
      BY <1>2, <3>1 DEF Cleared
    <3>2. CASE Known(a)
      BY <1>2, <2>3, <2>9, <3>2 DEF Cleared, Known, Busy, ToClean
    <3> QED
      BY <1>1, <3>1, <3>2 DEF Cleared
  <2> QED
    BY <2>6, <2>10, <2>11, <2>12
<1>6. CASE MarkDeleted
  <2>1. PICK a \in purge.mark : asset' = [asset EXCEPT ![a].status = "DELETED"]
    BY <1>6 DEF MarkDeleted
  <2>2. a \in Assets
    BY <1>1 DEF Purge
  <2>3. /\ asset'[a].status = "DELETED" /\ asset'[a].key = asset[a].key
        /\ asset'[a].listed = asset[a].listed
        /\ \A b \in Assets \ {a} : asset'[b] = asset[b]
    BY <1>1, <2>1, <2>2, SetStatus DEF Status
  <2>4. purge'.batch = purge.batch /\ UNCHANGED <<object, undone>>
    BY <1>1, <1>6 DEF MarkDeleted, Purge
  <2>5. Keyed'
    BY <1>1, <2>3, <2>4 DEF Keyed
  <2>6. \A b \in Assets : Servable(b)' /\ Cleared(b)'
    BY <1>1, <1>2, <2>2, <2>3, <2>4, IdleServes
  <2> QED
    BY <2>5, <2>6
<1>7. CASE SchedulePurge \/ FinishPurge \/ FailPurge
  <2>1. UNCHANGED <<asset, object, undone>>
    BY <1>7 DEF SchedulePurge, FinishPurge, FailPurge, rows
  <2>2. purge'.batch = {}
    <3> DEFINE state == IF purge.attempts < MaxAttempts THEN "waiting" ELSE "failed"
    <3>1. CASE SchedulePurge \/ FinishPurge
      BY <3>1 DEF SchedulePurge, FinishPurge, NoPurge
    <3>2. CASE FailPurge
      <4>1. purge' = [state |-> state, attempts |-> purge.attempts, batch |-> {}, mark |-> {}]
        BY <3>2 DEF FailPurge, NoPurge
      <4> HIDE DEF state
      <4> QED
        BY <4>1
    <3> QED
      BY <1>7, <3>1, <3>2
  <2>3. Keyed'
    BY <1>1, <2>1, <2>2 DEF Keyed
  <2> QED
    BY <1>3, <2>1, <2>3
<1> QED
  BY <1>4, <1>5, <1>6, <1>7 DEF PurgeStep

LEMMA NextServes == MInv /\ [Next]_vars => MInv'
<1> SUFFICES ASSUME MInv, [Next]_vars PROVE MInv'
  OBVIOUS
<1>1. /\ Typed /\ TypeOK /\ Keyed /\ Reached /\ Counted
      /\ \A b \in Assets : Servable(b) /\ Cleared(b)
      /\ \A w \in Workers : run[w].owns => job[run[w].asset].state = "active"
  BY DEF MInv, Typed, OwnedOnce
<1>2. Typed' /\ Reached' /\ Counted'
  BY <1>1, NextTyped, NextReached, NextCounted
<1>3. Keyed' /\ \A b \in Assets : Servable(b)' /\ Cleared(b)'
  <2>1. ASSUME NEW a \in Assets, PutUpload(a)
        PROVE  Keyed' /\ \A b \in Assets : Servable(b)' /\ Cleared(b)'
    <3>1. /\ UNCHANGED <<asset, job, run, purge, undone, lost>>
          /\ \A b \in Assets : object'[b].final = object[b].final
                               /\ object'[b].variants = object[b].variants
      BY <1>1, <2>1, PutUploadDoes
    <3> QED
      BY <1>1, <3>1, IdleServes, KeyedKept
  <2>2. CASE Anonymize \/ UNCHANGED vars
    <3>1. UNCHANGED <<asset, object, job, run, purge, undone, lost>>
      BY <2>2 DEF Anonymize, vars, rows
    <3> QED
      BY <1>1, <3>1, IdleServes, KeyedKept
  <2> QED
    BY <1>1, <2>1, <2>2, CallServes, WorkerServes, WorkerKeyed, PurgeServes DEF Next
<1> QED
  BY <1>2, <1>3 DEF MInv

LEMMA InitServes == Init => MInv
<1> SUFFICES ASSUME Init PROVE MInv
  OBVIOUS
<1>1. Typed /\ Reached /\ Counted
  BY InitTyped, InitCounted
<1>2. Keyed
  BY DEF Init, Keyed, NoPurge
<1>3. \A a \in Assets : Servable(a) /\ Cleared(a)
  BY DEF Init, Servable, Served, Cleared, Known, Busy, NoRun
<1> QED
  BY <1>1, <1>2, <1>3 DEF MInv

LEMMA AlwaysServes == Spec => []MInv
<1> QED
  BY InitServes, NextServes, PTL DEF Spec

\* What is READY has its final object and its listed variants, whatever calls,
\* workers, purges and faults overlap, except where an attempt that failed
\* after its commit, the purge, or a second worker after a stall was at it.
THEOREM ReadyCorrect == Spec => []ReadyIsServable
<1>1. MInv => ReadyIsServable
  BY DEF MInv, Keyed, Servable, Served, ReadyIsServable
<1> QED
  BY <1>1, AlwaysServes, PTL

\* Nothing of a rejected file can be read, unless something was lost with it.
THEOREM RejectedCorrect == Spec => []RejectedLeavesNothing
<1>1. MInv => RejectedLeavesNothing
  BY DEF MInv, Cleared, Known, Busy, At, RejectedLeavesNothing
<1> QED
  BY <1>1, AlwaysServes, PTL

=============================================================================
