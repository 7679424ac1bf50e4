------------------------------ MODULE Attempt ------------------------------
(***************************************************************************)
(* One image on its way through the engine: the upload (a presigned PUT    *)
(* that stays usable until it expires), the checks that admit a job for    *)
(* it, and the job's attempts, each of which runs runPipeline stage by     *)
(* stage: registry, Get, Decode with its limits, the processors, Encode,   *)
(* Put, AddArtifact, and the audit rows of the processors.                 *)
(*                                                                         *)
(* Claims and status updates are one step each here, one worker at a time; *)
(* JobWorker has them in full, and proves that there is one owner.  What   *)
(* JobWorker in turn takes for granted of runPipeline is RunContract.      *)
(***************************************************************************)
EXTENDS Naturals, Sequences, FiniteSets, FiniteSetsExt, JobStates

CONSTANTS Objects,         \* what a client may PUT: records of size, contentType,
                           \* image (it decodes), pixels, edge (longest side), face
          NoObject,
          UploadRequests,  \* POST /v1/uploads bodies: contentType, size (0: absent)
          UploadIDs,       \* upload ids of POST /v1/jobs: see Issued
          MaxUploadBytes,  \* S3_MAX_UPLOAD_BYTES
          MaxDecodeBytes, MaxPixels,
          MaxEdge,         \* the box of the resize stage
          MaxAttempts,
          MaxFaults,       \* errors of AddArtifact
          MaxDrops         \* errors of AddProcessingStep

ASSUME LimitAssumption == /\ {MaxUploadBytes, MaxDecodeBytes, MaxPixels, MaxEdge} \subseteq Nat
                          /\ MaxAttempts \in Nat \ {0}
                          /\ MaxFaults \in Nat /\ MaxDrops \in Nat

ASSUME ObjectAssumption ==
  /\ NoObject \notin Objects
  /\ \A o \in Objects : {o.size, o.pixels, o.edge} \subseteq Nat /\ o.face \in BOOLEAN

VARIABLES
  url,        \* the presigned URL: "none", "rejected", "live" or "expired"
  obj,        \* the object under the upload's key
  status,     \* jobs.status; "absent" before the job exists
  pipe,       \* the pipeline@version the job names
  admitted,   \* the object CreateJob looked at
  attempt,    \* attempt_count
  delay,      \* the delay of the last Nak, in seconds
  pc,         \* where the attempt is
  read,       \* the object Decode read
  cur,        \* Run's cur: the image, and the size of the image its faces were found on
  steps,      \* the StepResults of this run
  saved,      \* which of them are rows of processing_steps
  refusal,    \* why Decode refused the input
  err,        \* procErr
  ctxDone,
  blob,       \* the object under the job's output key
  art,        \* what the artifact row describes
  faults, drops

uploadVars == <<url, obj>>
jobVars    == <<status, pipe, admitted, attempt, delay>>
workVars   == <<read, cur, steps, refusal>>
vars       == <<uploadVars, jobVars, pc, workVars, saved, err, ctxDone, blob, art, faults, drops>>

NoImage == [src |-> NoObject, edge |-> 0, ops |-> <<>>, blurredAround |-> 0]
NoInput == [image |-> NoImage, faces |-> 0]

Init ==
  /\ url = "none" /\ obj = NoObject
  /\ status = "absent" /\ pipe = "none" /\ admitted = NoObject
  /\ attempt = 0 /\ delay = 0
  /\ pc = "idle" /\ read = NoObject /\ cur = NoInput
  /\ steps = <<>> /\ saved = {} /\ refusal = "none" /\ err = "nil" /\ ctxDone = FALSE
  /\ blob = NoImage /\ art = NoImage
  /\ faults = 0 /\ drops = 0

-----------------------------------------------------------------------------
(***************************************************************************)
(* Uploads.                                                                *)
(***************************************************************************)
contentTypeExt == [t \in {"image/jpeg", "image/png"} |->
                     IF t = "image/jpeg" THEN ".jpg" ELSE ".png"]
SupportedContentType(t) == t \in DOMAIN contentTypeExt

ValidateUploadRequest(q) ==
  /\ SupportedContentType(q.contentType)
  /\ ~(q.size > 0 /\ q.size > MaxUploadBytes)

\* The declared size is checked if there is one; the URL does not enforce it.
CreateUpload(q) ==
  /\ url \in {"none", "rejected"}
  /\ url' = IF ValidateUploadRequest(q) THEN "live" ELSE "rejected"
  /\ UNCHANGED <<obj, jobVars, pc, workVars, saved, err, ctxDone, blob, art, faults, drops>>

\* The client PUTs, as often as it likes while the URL is live.
PutUpload(o) ==
  /\ url = "live"
  /\ obj' = o
  /\ UNCHANGED <<url, jobVars, pc, workVars, saved, err, ctxDone, blob, art, faults, drops>>

ExpireURL ==
  /\ url = "live"
  /\ url' = "expired"
  /\ UNCHANGED <<obj, jobVars, pc, workVars, saved, err, ctxDone, blob, art, faults, drops>>

\* An upload id decodes to a key: the one CreateUpload issued, another clean key
\* under uploads/, one outside that namespace or not clean, or nothing at all.
DecodeUploadID(u) == u \in {"issued", "other_upload"}
StatUpload(u) == IF u = "issued" THEN obj ELSE NoObject

\* Seeded fault: the size the store reports is not compared with the limit.
ValidateObjectAnySize(o) ==
  /\ o.size > 0
  /\ \/ o.contentType \in {"", "application/octet-stream"}
     \/ SupportedContentType(o.contentType)

ValidateObject(o) ==
  /\ o.size > 0 /\ o.size <= MaxUploadBytes
  /\ \/ o.contentType \in {"", "application/octet-stream"}
     \/ SupportedContentType(o.contentType)

-----------------------------------------------------------------------------
(***************************************************************************)
(* The registry.                                                           *)
(***************************************************************************)

DefaultRegistry == [p \in {"portrait-enhance@v1"} |->
                      <<"resize", "face-detection", "color", "beauty", "background">>]

Stages == DefaultRegistry["portrait-enhance@v1"]

\* CreateJob, up to the QUEUED row.  The pipeline it names need not exist.
CreateJob(u, p) ==
  /\ status = "absent"
  /\ DecodeUploadID(u) /\ StatUpload(u) # NoObject
  /\ ValidateObject(StatUpload(u))
  /\ status' = "QUEUED" /\ pipe' = p /\ admitted' = StatUpload(u)
  /\ UNCHANGED <<uploadVars, attempt, delay, pc, workVars, saved, err, ctxDone, blob, art,
                 faults, drops>>

CancelJob ==
  /\ status \in {"QUEUED", "PROCESSING"}
  /\ status' = "CANCELLED"
  /\ UNCHANGED <<uploadVars, pipe, admitted, attempt, delay, pc, workVars, saved, err, ctxDone,
                 blob, art, faults, drops>>

-----------------------------------------------------------------------------
(***************************************************************************)
(* An attempt.                                                             *)
(***************************************************************************)
Working == UNCHANGED <<uploadVars, jobVars>>

\* runPipeline returns: the watcher stops and the steps are saved next.
End(e) == pc' = "steps" /\ err' = e /\ ctxDone' = FALSE

Goto(p) == pc' = p /\ UNCHANGED <<err, ctxDone>>

BeginAttempt ==
  /\ status = "QUEUED" /\ pc = "idle"
  /\ status' = "PROCESSING" /\ attempt' = attempt + 1 /\ delay' = 0
  /\ pc' = "resolve"
  /\ UNCHANGED <<uploadVars, pipe, admitted, workVars, saved, err, ctxDone, blob, art, faults,
                 drops>>

ResolvePipeline ==
  /\ pc = "resolve"
  /\ IF pipe \in DOMAIN DefaultRegistry THEN Goto("get") ELSE End("permanent")
  /\ UNCHANGED <<workVars, saved, blob, art, faults, drops>> /\ Working

CtxErrors == IF ctxDone THEN {"transient", "cancelled"} ELSE {"transient"}

\* blobs.Get: Stat, and a body that is read later.
GetInput ==
  /\ pc = "get"
  /\ Goto("decode") \/ (\E e \in CtxErrors : End(e))
  /\ UNCHANGED <<workVars, saved, blob, art, faults, drops>> /\ Working

\* Decode reads one byte past its limit to tell a larger object from one that
\* just fits, then checks the header's dimensions, then decodes.
DecodeRefusal(o) ==
  IF Min({o.size, MaxDecodeBytes + 1}) > MaxDecodeBytes THEN "bytes"
  ELSE IF ~o.image THEN "corrupt"
  ELSE IF o.pixels > MaxPixels THEN "pixels"
  ELSE "none"

DecodeInput ==
  /\ pc = "decode"
  /\ \/ /\ read' = obj /\ refusal' = DecodeRefusal(obj)
        /\ IF refusal' = "none"
           THEN /\ cur' = [image |-> [src |-> obj, edge |-> obj.edge, ops |-> <<>>,
                                      blurredAround |-> 0], faces |-> 0]
                /\ Goto("check")
           ELSE UNCHANGED cur /\ End("permanent")
     \/ /\ \E e \in {"permanent"} \union (IF ctxDone THEN {"permanent_cancelled"} ELSE {}) : End(e)
        /\ UNCHANGED <<read, cur, refusal>>           \* reading the body failed
  /\ UNCHANGED <<steps, saved, blob, art, faults, drops>> /\ Working

\* The operations on images: a box to fit in, faces placed on the image at its
\* current size, and a blur that leaves an image without faces alone.
Fit(edge) == Min({edge, MaxEdge})
Detect(img) == IF img.src.face THEN img.edge ELSE 0
BlurBackground(img, faces) == IF faces = 0 THEN img ELSE [img EXCEPT !.blurredAround = faces]

\* What a processor makes of its input.
Process(s, in) ==
  CASE s = "resize"         -> [in EXCEPT !.image.edge = Fit(@)]
    [] s = "face-detection" -> [in EXCEPT !.faces = Detect(in.image)]
    [] s = "background"     -> [in EXCEPT !.image = BlurBackground(@, in.faces)]
    [] OTHER                -> [in EXCEPT !.image.ops = Append(@, s)]

NextStage == Stages[Len(steps) + 1]

\* Pipeline.Run between two stages: done, cancelled (which records no step), or
\* on to the next.
CheckContext ==
  /\ pc = "check"
  /\ \/ Len(steps) = Len(Stages) /\ Goto("encode")
     \/ Len(steps) < Len(Stages) /\ ctxDone /\ End("cancelled")
     \/ Len(steps) < Len(Stages) /\ ~ctxDone /\ Goto("stage")
  /\ UNCHANGED <<workVars, saved, blob, art, faults, drops>> /\ Working

\* Seeded fault: the error of a stage is recorded but does not end the run.
RunStageGoesOn ==
  /\ pc = "stage"
  /\ steps' = Append(steps, [name |-> NextStage, status |-> IF ctxDone THEN "FAILED" ELSE "SUCCEEDED"])
  /\ cur' = Process(NextStage, cur) /\ Goto("check")
  /\ UNCHANGED <<read, refusal, saved, blob, art, faults, drops>> /\ Working

\* The processor looks at the context once more, and then does its work.
RunStage ==
  /\ pc = "stage"
  /\ IF ctxDone
     THEN /\ steps' = Append(steps, [name |-> NextStage, status |-> "FAILED"])
          /\ End("cancelled") /\ UNCHANGED cur
     ELSE /\ steps' = Append(steps, [name |-> NextStage, status |-> "SUCCEEDED"])
          /\ cur' = Process(NextStage, cur) /\ Goto("check")
  /\ UNCHANGED <<read, refusal, saved, blob, art, faults, drops>> /\ Working

EncodeOutput ==
  /\ pc = "encode"
  /\ Goto("put") \/ End("transient")
  /\ UNCHANGED <<workVars, saved, blob, art, faults, drops>> /\ Working

\* Seeded fault: the error of Put is dropped.
PutOutputUnchecked ==
  /\ pc = "put"
  /\ blob' \in {blob, cur.image} /\ Goto("art")
  /\ UNCHANGED <<workVars, saved, art, faults, drops>> /\ Working

\* An error may follow a write that went through.
PutOutput ==
  /\ pc = "put"
  /\ \/ blob' = cur.image /\ Goto("art")
     \/ blob' \in {blob, cur.image} /\ (\E e \in CtxErrors : End(e))
  /\ UNCHANGED <<workVars, saved, art, faults, drops>> /\ Working

\* Seeded fault: an artifact row that is already there is left as it is.
AddArtifactOnce ==
  /\ pc = "art"
  /\ \/ art' = (IF art = NoImage THEN cur.image ELSE art) /\ End("nil") /\ UNCHANGED faults
     \/ /\ faults < MaxFaults /\ faults' = faults + 1
        /\ art' \in {art, IF art = NoImage THEN cur.image ELSE art} /\ End("transient")
  /\ UNCHANGED <<workVars, saved, blob, drops>> /\ Working

\* The upsert of the artifact row, keyed by job and output key.
AddArtifact ==
  /\ pc = "art"
  /\ \/ art' = cur.image /\ End("nil") /\ UNCHANGED faults
     \/ /\ faults < MaxFaults /\ faults' = faults + 1
        /\ art' \in {art, cur.image} /\ (\E e \in {"transient", "cancelled"} : End(e))
  /\ UNCHANGED <<workVars, saved, blob, drops>> /\ Working

\* persistSteps writes one row per step under one deadline, and drops errors:
\* of one row, or of all that are left.
PersistSteps ==
  /\ pc = "steps"
  /\ \/ saved' = DOMAIN steps /\ UNCHANGED drops
     \/ /\ drops < MaxDrops /\ drops' = drops + 1 /\ steps # <<>>
        /\ \E i \in DOMAIN steps : saved' \in {DOMAIN steps \ {i}, 1..(i - 1)}
  /\ Goto(IF err = "nil" THEN "finok" ELSE "finerr")
  /\ UNCHANGED <<workVars, blob, art, faults>> /\ Working

\* The job timeout, a drain, or the watcher that has seen a cancel.
EndContext ==
  /\ pc \in {"resolve", "get", "decode", "check", "stage", "encode", "put"}
  /\ ~ctxDone
  /\ ctxDone' = TRUE
  /\ UNCHANGED <<uploadVars, jobVars, pc, workVars, saved, err, blob, art, faults, drops>>

-----------------------------------------------------------------------------
backoffBase == 2
backoffCap  == 60

\* Seeded fault: the attempt number itself is the exponent.
BackoffShifted(n) ==
  LET exp == Min({backoffBase * 2^Min({n, 5}), backoffCap})
  IN  {(exp \div 2) + r : r \in 0..(exp \div 2)}

\* The delays backoff(attempt) may return.
Backoff(n) ==
  LET shift == IF n < 1 THEN 0 ELSE Min({n - 1, 5})
      exp == Min({backoffBase * 2^shift, backoffCap})
  IN  {(exp \div 2) + r : r \in 0..(exp \div 2)}

\* finalizeSuccess, finalizeFailure: complete, honour a cancel, fail, or retry
\* after a delay.  The locals of the attempt are gone.
Finalize ==
  /\ pc \in {"finok", "finerr"}
  /\ pc' = "idle" /\ err' = "nil"
  /\ read' = NoObject /\ cur' = NoInput /\ steps' = <<>> /\ saved' = {} /\ refusal' = "none"
  /\ \/ status = "CANCELLED" /\ UNCHANGED <<status, delay>>
     \/ status # "CANCELLED" /\ pc = "finok" /\ status' = "COMPLETED" /\ UNCHANGED delay
     \/ /\ status # "CANCELLED" /\ pc = "finerr"
        /\ IF IsPermanent(err) \/ attempt >= MaxAttempts
           THEN status' = "FAILED" /\ UNCHANGED delay
           ELSE status' = "QUEUED" /\ delay' \in Backoff(attempt)
  /\ UNCHANGED <<uploadVars, pipe, admitted, attempt, ctxDone, blob, art, faults, drops>>

-----------------------------------------------------------------------------
RunPipeline == \/ ResolvePipeline \/ GetInput \/ DecodeInput \/ CheckContext \/ RunStage
               \/ EncodeOutput \/ PutOutput \/ AddArtifact \/ PersistSteps

Next ==
  \/ \E q \in UploadRequests : CreateUpload(q)
  \/ \E o \in Objects : PutUpload(o)
  \/ ExpireURL
  \/ \E u \in UploadIDs, p \in DOMAIN DefaultRegistry \union {"unknown"} : CreateJob(u, p)
  \/ CancelJob
  \/ BeginAttempt \/ RunPipeline \/ EndContext \/ Finalize

Spec == Init /\ [][Next]_vars

-----------------------------------------------------------------------------
\* What the documents promise of an object o: resized into the box, faces found
\* at the final size, then colour, smoothing and a blur around the faces.
Enhanced(o) == [src |-> o, edge |-> Min({o.edge, MaxEdge}), ops |-> <<"color", "beauty">>,
                blurredAround |-> IF o.face THEN Min({o.edge, MaxEdge}) ELSE 0]

\* The artifact of a COMPLETED job is the whole enhancement of one object within
\* the limits, and its row describes the object that is in the bucket, although
\* the upload may have been replaced between two attempts that both stored.
CompletedIsWhole ==
  status = "COMPLETED" =>
    /\ art = blob
    /\ blob = Enhanced(blob.src)
    /\ blob.src.size <= MaxDecodeBytes /\ blob.src.pixels <= MaxPixels

\* The steps of a run are the first stages of its pipeline, only the last may
\* have failed, and then because the context was done; an output exists only after
\* all of them; and their rows are complete unless a row could not be written.
StepAudit ==
  /\ \A i \in DOMAIN steps :
       /\ steps[i].name = Stages[i]
       /\ steps[i].status = "FAILED" => i = Len(steps) /\ IsCancellation(err)
  /\ pc \in {"encode", "put", "art", "finok"} => Len(steps) = Len(Stages)
  /\ pc \in {"finok", "finerr"} /\ drops = 0 => saved = DOMAIN steps

\* An input that CreateJob admitted is not refused for its size by the worker,
\* as long as the client left it alone and the upload limit is no larger than
\* the decoder's: only a replaced object is.
AdmittedFits ==
  refusal = "bytes" /\ MaxUploadBytes <= MaxDecodeBytes => read # admitted

\* The interval of the comment at backoff, without the code's shift and clamps:
\* the base, doubled at each further attempt.
Doubled[k \in Nat] == IF k = 0 THEN backoffBase ELSE 2 * Doubled[k - 1]
DocumentedDelays(n) ==
  LET exp == Min({Doubled[n - 1], backoffCap})
  IN  {d \in 0..exp : 2 * d >= exp}
BackoffAsDocumented == /\ \A n \in 1..12 : Backoff(n) = DocumentedDelays(n)
                       /\ Backoff(0) = DocumentedDelays(1)

\* A job that waits for its next attempt waits for a delay "uniform in
\* [exp/2, exp] where exp = base * 2^(attempt-1), capped", where attempt is the
\* one that has just failed, up to and past the attempt at which the cap bites.
BackoffInterval ==
  /\ BackoffAsDocumented
  /\ status = "QUEUED" /\ attempt > 0 => delay \in DocumentedDelays(attempt)

\* The attempt as JobWorker sees it, with one job and one worker.
CoarsePC == CASE pc \in {"resolve", "get", "decode"} -> "load"
              [] pc \in {"check", "stage", "encode"} -> "proc"
              [] OTHER -> pc
One(x)  == [w \in {"worker"} |-> x]
This(x) == [j \in {"job"} |-> x]
Run == INSTANCE JobWorker
         WITH Jobs <- {"job"}, NoJob <- "none", BadJobs <- {}, Replicas <- {{"worker"}},
              MaxDeliver <- MaxAttempts, ForeignMsgs <- 0, MaxCrashes <- 0,
              MaxExpiries <- 0, MaxPanics <- 0,
              status <- This(status), attempts <- This(attempt), lastErr <- This("nil"),
              rows <- This(1), artifact <- IF art = NoImage THEN {} ELSE {"job"},
              blob <- IF blob = NoImage THEN {} ELSE {"job"},
              stream <- <<>>, api <- This("done"), up <- {{"worker"}}, sweep <- 0,
              pc <- One(CoarsePC), del <- One(1), id <- One("job"), att <- One(attempt),
              err <- One(err), ctxDone <- One(ctxDone),
              crashes <- 0, expiries <- 0, panics <- 0

\* Stage by stage, runPipeline does what JobWorker takes it to do in four steps:
\* the same outcomes, the same errors for the same causes, the output and its row
\* in that order.
RunContract ==
  [][\/ pc \in {"idle", "finok", "finerr"}
     \/ Run!LoadInput("worker") \/ Run!RunProcessors("worker") \/ Run!PutOutput("worker")
     \/ Run!AddArtifact("worker") \/ Run!PersistSteps("worker") \/ Run!JobTimeout("worker")
    ]_<<CoarsePC, err, ctxDone, art = NoImage, blob = NoImage>>
=============================================================================
