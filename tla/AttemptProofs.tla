--------------------------- MODULE AttemptProofs ---------------------------
(***************************************************************************)
(* Proofs about Attempt, for any objects, limits, attempts and failures.   *)
(* The inductive invariant ties Run's cur to the number of stages that     *)
(* have run (After), and each point of an attempt to what has been read,   *)
(* recorded and stored by then.                                            *)
(***************************************************************************)
EXTENDS Attempt, SequenceTheorems, WellFoundedInduction, TLAPS

\* cur after the first n stages on object o.
After(o, n) ==
  [image |-> [src |-> o,
              edge |-> IF n = 0 THEN o.edge ELSE Fit(o.edge),
              ops |-> IF n < 3 THEN <<>> ELSE IF n = 3 THEN <<"color">>
                      ELSE <<"color", "beauty">>,
              blurredAround |-> IF n = 5 /\ o.face THEN Fit(o.edge) ELSE 0],
   faces |-> IF n >= 2 /\ o.face THEN Fit(o.edge) ELSE 0]

Fits(o) == o \in Objects /\ o.size <= MaxDecodeBytes /\ o.pixels <= MaxPixels

\* The output and its row are the whole enhancement of one object.
Stored == \E o \in Objects : Fits(o) /\ blob = Enhanced(o) /\ art = blob

PCs == {"idle", "resolve", "get", "decode", "check", "stage", "encode", "put", "art",
        "steps", "finok", "finerr"}

StepRecord == [name : {"resize", "face-detection", "color", "beauty", "background"},
               status : {"SUCCEEDED", "FAILED"}]

\* The job, the upload it was admitted with and the one its attempt reads.
JobInv ==
  /\ pc \in PCs
  /\ obj \in Objects \union {NoObject}
  /\ status # "absent" => obj \in Objects /\ admitted \in Objects
                          /\ admitted.size <= MaxUploadBytes
  /\ pc # "idle" => status \in {"PROCESSING", "CANCELLED"}
  /\ pc = "idle" => refusal = "none"
  /\ refusal = "bytes" => read \in Objects /\ read.size > MaxDecodeBytes

\* The steps recorded so far, and their rows.
StepInv ==
  /\ steps \in Seq(StepRecord) /\ Len(steps) <= 5
  /\ pc \in {"idle", "resolve", "get", "decode"} => steps = <<>>
  /\ \A i \in 1..Len(steps) :
       /\ steps[i].name = Stages[i]
       /\ steps[i].status = "FAILED" =>
            i = Len(steps) /\ IsCancellation(err) /\ pc \in {"steps", "finerr"}
  /\ pc = "stage" => Len(steps) < 5
  /\ pc \in {"encode", "put", "art", "finok"} => Len(steps) = 5
  /\ pc = "steps" /\ err = "nil" => Len(steps) = 5
  /\ drops \in Nat
  /\ pc \in {"finok", "finerr"} /\ drops = 0 => saved = 1..Len(steps)

\* The image, and what is stored of it.
ImageInv ==
  /\ pc \in {"check", "stage", "encode", "put", "art"} =>
       Fits(read) /\ cur = After(read, Len(steps))
  /\ pc = "art" => blob = cur.image
  /\ (pc = "steps" /\ err = "nil") \/ pc = "finok" \/ status = "COMPLETED" => Stored

IndInv == JobInv /\ StepInv /\ ImageInv

-----------------------------------------------------------------------------
(***************************************************************************)
(* The registry, the decoder's limits and the processors.                  *)
(***************************************************************************)
LEMMA StagesAre ==
  Stages = <<"resize", "face-detection", "color", "beauty", "background">>
BY DEF Stages, DefaultRegistry

LEMMA MinOfTwo ==
  ASSUME NEW a \in Nat, NEW b \in Nat
  PROVE  Min({a, b}) = IF a <= b THEN a ELSE b
<1>1. CASE a <= b
  <2>1. \A y \in {a, b} : a <= y
    BY <1>1
  <2>2. \A x \in {a, b} : (\A y \in {a, b} : x <= y) => x = a
    BY <1>1
  <2> QED BY <1>1, <2>1, <2>2 DEF Min
<1>2. CASE b < a
  <2>1. \A y \in {a, b} : b <= y
    BY <1>2
  <2>2. \A x \in {a, b} : (\A y \in {a, b} : x <= y) => x = b
    BY <1>2
  <2> QED BY <1>2, <2>1, <2>2 DEF Min
<1> QED BY <1>1, <1>2

\* Reading one byte past the limit is enough to tell a larger object.
LEMMA Decoded ==
  ASSUME NEW o \in Objects
  PROVE  /\ DecodeRefusal(o) = "none" => Fits(o)
         /\ DecodeRefusal(o) = "bytes" => o.size > MaxDecodeBytes
<1>1. o.size \in Nat /\ o.pixels \in Nat /\ MaxDecodeBytes \in Nat /\ MaxPixels \in Nat
  BY LimitAssumption, ObjectAssumption
<1>2. Min({o.size, MaxDecodeBytes + 1}) > MaxDecodeBytes <=> o.size > MaxDecodeBytes
  <2>1. Min({o.size, MaxDecodeBytes + 1})
          = IF o.size <= MaxDecodeBytes + 1 THEN o.size ELSE MaxDecodeBytes + 1
    BY <1>1, MinOfTwo
  <2> QED BY <1>1, <2>1
<1> QED BY <1>1, <1>2 DEF DecodeRefusal, Fits

LEMMA AppendPair ==
  ASSUME NEW a, NEW b
  PROVE  Append(<<a>>, b) = <<a, b>>
<1>1. <<a>> \in Seq({a, b}) /\ <<a, b>> \in Seq({a, b})
  BY SMT
<1>2. Append(<<a>>, b) \in Seq({a, b}) /\ Len(Append(<<a>>, b)) = 2
      /\ Append(<<a>>, b)[1] = a /\ Append(<<a>>, b)[2] = b
  <2>1. Len(<<a>>) = 1 /\ <<a>>[1] = a
    OBVIOUS
  <2> QED BY <1>1, <2>1, AppendProperties
<1>3. Len(<<a, b>>) = 2 /\ <<a, b>>[1] = a /\ <<a, b>>[2] = b
  OBVIOUS
<1>4. \A i \in 1..2 : Append(<<a>>, b)[i] = <<a, b>>[i]
  BY <1>2, <1>3
<1> QED BY <1>1, <1>2, <1>3, <1>4, SeqEqual

\* Each processor takes cur one stage on; all five make the enhancement.
LEMMA ProcessAdvances ==
  ASSUME NEW o \in Objects, NEW n \in 0..4
  PROVE  Process(Stages[n + 1], After(o, n)) = After(o, n + 1)
<1>1. o.face \in BOOLEAN
  BY ObjectAssumption
<1>2. CASE n = 0
  <2>1. Stages[n + 1] = "resize"
    BY <1>2, StagesAre
  <2> QED BY <1>2, <2>1 DEF Process, After
<1>3. CASE n = 1
  <2>1. Stages[n + 1] = "face-detection"
    BY <1>3, StagesAre
  <2> QED BY <1>1, <1>3, <2>1 DEF Process, After, Detect
<1>4. CASE n = 2
  <2>1. Stages[n + 1] = "color"
    BY <1>4, StagesAre
  <2>2. Append(<<>>, "color") = <<"color">>
    OBVIOUS
  <2> QED BY <1>4, <2>1, <2>2 DEF Process, After
<1>5. CASE n = 3
  <2>1. Stages[n + 1] = "beauty"
    BY <1>5, StagesAre
  <2>2. Append(<<"color">>, "beauty") = <<"color", "beauty">>
    BY AppendPair
  <2> DEFINE in == After(o, n)
  <2>3. Process("beauty", in) = [in EXCEPT !.image.ops = Append(in.image.ops, "beauty")]
    BY DEF Process
  <2>4. in.image.ops = <<"color">>
    BY <1>5 DEF After
  <2>5. Process("beauty", in) = [in EXCEPT !.image.ops = <<"color", "beauty">>]
    BY <2>2, <2>3, <2>4
  <2>6. [in EXCEPT !.image.ops = <<"color", "beauty">>] = After(o, n + 1)
    BY <1>5 DEF After
  <2> QED BY <2>1, <2>5, <2>6
<1>6. CASE n = 4
  <2>1. Stages[n + 1] = "background"
    BY <1>6, StagesAre
  <2> QED BY <1>1, <1>6, <2>1 DEF Process, After, BlurBackground
<1> QED BY <1>2, <1>3, <1>4, <1>5, <1>6

LEMMA AllStages ==
  ASSUME NEW o \in Objects
  PROVE  After(o, 5).image = Enhanced(o)
<1>1. o.face \in BOOLEAN
  BY ObjectAssumption
<1> QED BY <1>1 DEF After, Enhanced, Fit

-----------------------------------------------------------------------------
(***************************************************************************)
(* The initial state, the upload and the job.                              *)
(***************************************************************************)
LEMMA InitInv == Init => IndInv
<1> SUFFICES ASSUME Init PROVE IndInv
  OBVIOUS
<1>1. JobInv
  BY DEF Init, JobInv, PCs
<1>2. StepInv
  <2>1. <<>> \in Seq(StepRecord) /\ Len(<<>>) = 0
    OBVIOUS
  <2> QED BY <2>1 DEF Init, StepInv
<1>3. ImageInv
  BY DEF Init, ImageInv
<1> QED BY <1>1, <1>2, <1>3 DEF IndInv

\* A step that leaves the run where it is, and completes no job.
LEMMA OutsideRun ==
  ASSUME IndInv, UNCHANGED <<pc, workVars, saved, err, blob, art, drops>>,
         status' # "COMPLETED" \/ status' = status
  PROVE  StepInv' /\ ImageInv'
<1>1. StepInv'
  BY DEF IndInv, StepInv, workVars
<1>2. Stored => Stored'
  BY DEF Stored
<1>3. ImageInv'
  BY <1>2 DEF IndInv, ImageInv, workVars
<1> QED BY <1>1, <1>3

LEMMA UploadInv ==
  ASSUME IndInv, \/ \E q \in UploadRequests : CreateUpload(q)
                 \/ \E o \in Objects : PutUpload(o)
                 \/ ExpireURL
  PROVE  IndInv'
<1>1. /\ UNCHANGED <<jobVars, pc, workVars, saved, err, ctxDone, blob, art, faults, drops>>
      /\ obj' = obj \/ obj' \in Objects
  BY DEF CreateUpload, PutUpload, ExpireURL
<1>2. StepInv' /\ ImageInv'
  BY <1>1, OutsideRun DEF jobVars
<1>3. JobInv'
  BY <1>1 DEF IndInv, JobInv, jobVars, workVars
<1> QED BY <1>2, <1>3 DEF IndInv

\* CreateJob sees the object, and its size, that the store reports.
LEMMA CreateJobInv ==
  ASSUME IndInv, NEW u, NEW p, CreateJob(u, p)
  PROVE  IndInv'
<1>1. /\ UNCHANGED <<uploadVars, pc, workVars, saved, err, ctxDone, blob, art, faults, drops>>
      /\ status = "absent" /\ status' = "QUEUED"
      /\ admitted' = obj /\ obj # NoObject /\ obj.size <= MaxUploadBytes
  BY DEF CreateJob, StatUpload, ValidateObject
<1>2. StepInv' /\ ImageInv'
  BY <1>1, OutsideRun
<1>3. JobInv'
  BY <1>1 DEF IndInv, JobInv, uploadVars, workVars
<1> QED BY <1>2, <1>3 DEF IndInv

LEMMA CancelJobInv == ASSUME IndInv, CancelJob PROVE IndInv'
<1>1. /\ UNCHANGED <<uploadVars, admitted, pc, workVars, saved, err, blob, art, drops>>
      /\ status \in {"QUEUED", "PROCESSING"} /\ status' = "CANCELLED"
  BY DEF CancelJob
<1>2. StepInv' /\ ImageInv'
  BY <1>1, OutsideRun
<1>3. JobInv'
  BY <1>1 DEF IndInv, JobInv, uploadVars, workVars
<1> QED BY <1>2, <1>3 DEF IndInv

LEMMA EndContextInv == ASSUME IndInv, EndContext PROVE IndInv'
<1>1. UNCHANGED <<uploadVars, jobVars, pc, workVars, saved, err, blob, art, drops>>
  BY DEF EndContext
<1>2. StepInv' /\ ImageInv'
  BY <1>1, OutsideRun DEF jobVars
<1>3. JobInv'
  BY <1>1 DEF IndInv, JobInv, uploadVars, jobVars, workVars
<1> QED BY <1>2, <1>3 DEF IndInv

-----------------------------------------------------------------------------
(***************************************************************************)
(* The steps of an attempt.                                                *)
(***************************************************************************)
LEMMA BeginAttemptInv == ASSUME IndInv, BeginAttempt PROVE IndInv'
<1>1. /\ UNCHANGED <<uploadVars, admitted, workVars, saved, err, blob, art, drops>>
      /\ pc = "idle" /\ pc' = "resolve" /\ status = "QUEUED" /\ status' = "PROCESSING"
  BY DEF BeginAttempt
<1>2. JobInv'
  BY <1>1 DEF IndInv, JobInv, PCs, uploadVars, workVars
<1>3. StepInv'
  <2>1. Len(<<>>) = 0
    OBVIOUS
  <2> QED BY <1>1, <2>1 DEF IndInv, StepInv, workVars
<1>4. ImageInv'
  BY <1>1 DEF IndInv, ImageInv, workVars
<1> QED BY <1>2, <1>3, <1>4 DEF IndInv

\* runPipeline gives up before the first stage.
LEMMA EarlyEnd ==
  ASSUME IndInv, pc \in {"resolve", "get", "decode"}, NEW e, e # "nil", End(e), Working,
         UNCHANGED <<steps, saved, blob, art, drops>>,
         UNCHANGED <<read, refusal>>
           \/ (read' \in Objects /\ (refusal' = "bytes" => read'.size > MaxDecodeBytes))
  PROVE  IndInv'
<1>1. pc' = "steps" /\ err' = e /\ UNCHANGED <<uploadVars, jobVars>>
  BY DEF End, Working
<1>2. JobInv'
  BY <1>1 DEF IndInv, JobInv, PCs, uploadVars, jobVars
<1>3. StepInv'
  <2>1. Len(<<>>) = 0
    OBVIOUS
  <2> QED BY <1>1, <2>1 DEF IndInv, StepInv
<1>4. ImageInv'
  BY <1>1 DEF IndInv, ImageInv, JobInv, jobVars
<1> QED BY <1>2, <1>3, <1>4 DEF IndInv

LEMMA BeforeDecodeInv == ASSUME IndInv, ResolvePipeline \/ GetInput PROVE IndInv'
<1>1. /\ pc \in {"resolve", "get"} /\ Working
      /\ UNCHANGED <<workVars, saved, blob, art, drops>>
  BY DEF ResolvePipeline, GetInput
<1>2. ASSUME NEW e, e # "nil", End(e) PROVE IndInv'
  BY <1>1, <1>2, EarlyEnd DEF workVars
<1>3. ASSUME NEW p \in {"get", "decode"}, Goto(p) PROVE IndInv'
  <2>1. pc' = p /\ UNCHANGED <<err, uploadVars, jobVars>>
    BY <1>1, <1>3 DEF Goto, Working
  <2>2. JobInv'
    BY <1>1, <2>1 DEF IndInv, JobInv, PCs, uploadVars, jobVars, workVars
  <2>3. StepInv'
    <3>1. Len(<<>>) = 0
      OBVIOUS
    <3> QED BY <1>1, <2>1, <3>1 DEF IndInv, StepInv, workVars
  <2>4. ImageInv'
    BY <1>1, <2>1 DEF IndInv, ImageInv, JobInv, workVars, jobVars
  <2> QED BY <2>2, <2>3, <2>4 DEF IndInv
<1>4. \/ \E p \in {"get", "decode"} : Goto(p)
      \/ \E e \in {"permanent", "transient", "cancelled"} : End(e)
  BY DEF ResolvePipeline, GetInput, CtxErrors
<1> QED BY <1>2, <1>3, <1>4

LEMMA DecodeInputInv == ASSUME IndInv, DecodeInput PROVE IndInv'
<1>1. pc = "decode" /\ Working /\ UNCHANGED <<steps, saved, blob, art, drops>>
  BY DEF DecodeInput
<1>2. obj \in Objects /\ steps = <<>> /\ status \in {"PROCESSING", "CANCELLED"}
  BY <1>1 DEF IndInv, JobInv, StepInv
<1>3. CASE read' = obj /\ refusal' = "none" /\ DecodeRefusal(obj) = "none" /\ Goto("check")
           /\ cur' = [image |-> [src |-> obj, edge |-> obj.edge, ops |-> <<>>,
                                 blurredAround |-> 0], faces |-> 0]
  <2>1. /\ pc' = "check" /\ UNCHANGED <<err, uploadVars, jobVars>>
        /\ Len(steps) = 0 /\ steps' = steps
    BY <1>1, <1>2, <1>3 DEF Goto, Working
  <2>2. JobInv'
    BY <1>1, <1>3, <2>1 DEF IndInv, JobInv, PCs, uploadVars, jobVars
  <2>3. StepInv'
    BY <1>1, <1>3, <2>1 DEF IndInv, StepInv
  <2>4. Fits(obj) /\ cur' = After(obj, 0)
    BY <1>2, <1>3, Decoded DEF After
  <2>5. ImageInv'
    BY <1>1, <1>2, <1>3, <2>1, <2>4 DEF ImageInv, jobVars
  <2> QED BY <2>2, <2>3, <2>5 DEF IndInv
<1>4. CASE read' = obj /\ refusal' = DecodeRefusal(obj) /\ End("permanent")
  BY <1>1, <1>2, <1>4, Decoded, EarlyEnd
<1>5. CASE /\ UNCHANGED <<read, cur, refusal>>
           /\ \E e \in {"permanent", "permanent_cancelled"} : End(e)
  BY <1>1, <1>5, EarlyEnd
<1> QED BY <1>3, <1>4, <1>5 DEF DecodeInput

\* runPipeline ends with an error past the decoder, its steps being as they are.
LEMMA LateEnd ==
  ASSUME IndInv, pc \in {"check", "encode", "put", "art"}, NEW e, e # "nil", End(e), Working,
         UNCHANGED <<workVars, saved, drops>>
  PROVE  IndInv'
<1>1. pc' = "steps" /\ err' = e /\ UNCHANGED <<uploadVars, jobVars>>
  BY DEF End, Working
<1>2. JobInv'
  BY <1>1 DEF IndInv, JobInv, PCs, uploadVars, jobVars, workVars
<1>3. StepInv'
  BY <1>1 DEF IndInv, StepInv, workVars
<1>4. ImageInv'
  BY <1>1 DEF IndInv, ImageInv, JobInv, jobVars
<1> QED BY <1>2, <1>3, <1>4 DEF IndInv

\* The run goes on to its next point with the same image and steps.
LEMMA NextPoint ==
  ASSUME IndInv, NEW p, Goto(p), Working, UNCHANGED <<workVars, saved, drops>>,
         \/ pc = "check" /\ p = "stage" /\ Len(steps) < 5
         \/ pc = "check" /\ p = "encode" /\ Len(steps) = 5
         \/ pc = "encode" /\ p = "put"
         \/ pc = "put" /\ p = "art" /\ blob' = cur.image
  PROVE  IndInv'
<1>1. pc' = p /\ UNCHANGED <<err, uploadVars, jobVars>>
  BY DEF Goto, Working
<1>2. JobInv'
  BY <1>1 DEF IndInv, JobInv, PCs, uploadVars, jobVars, workVars
<1>3. StepInv'
  BY <1>1 DEF IndInv, StepInv, workVars
<1>4. ImageInv'
  BY <1>1 DEF IndInv, ImageInv, JobInv, jobVars, workVars
<1> QED BY <1>2, <1>3, <1>4 DEF IndInv

LEMMA LenStages == Len(Stages) = 5
BY StagesAre

LEMMA CheckContextInv == ASSUME IndInv, CheckContext PROVE IndInv'
<1>1. pc = "check" /\ Working /\ UNCHANGED <<workVars, saved, blob, art, faults, drops>>
  BY DEF CheckContext
<1>2. CASE Len(steps) = Len(Stages) /\ Goto("encode")
  BY <1>1, <1>2, LenStages, NextPoint
<1>3. CASE End("cancelled")
  BY <1>1, <1>3, LateEnd
<1>4. CASE Len(steps) < Len(Stages) /\ Goto("stage")
  BY <1>1, <1>4, LenStages, NextPoint
<1> QED BY <1>2, <1>3, <1>4 DEF CheckContext

LEMMA RunStageInv == ASSUME IndInv, RunStage PROVE IndInv'
<1> DEFINE n == Len(steps)
<1> DEFINE step(s) == [name |-> NextStage, status |-> s]
<1>1. /\ pc = "stage" /\ Working /\ UNCHANGED <<read, refusal, saved, blob, art, drops>>
      /\ n \in 0..4 /\ steps \in Seq(StepRecord)
  <2>1. /\ pc = "stage" /\ Working
        /\ UNCHANGED <<read, refusal, saved, blob, art, drops>>
    BY DEF RunStage
  <2>2. steps \in Seq(StepRecord) /\ Len(steps) < 5
    BY <2>1 DEF IndInv, StepInv
  <2>3. Len(steps) \in Nat
    BY <2>2, LenProperties
  <2>4. \A k \in Nat : k < 5 => k \in 0..4
    OBVIOUS
  <2>5. Len(steps) \in 0..4
    BY <2>2, <2>3, <2>4, Zenon
  <2> QED BY <2>1, <2>2, <2>5
<1>2. UNCHANGED <<uploadVars, jobVars>>
  BY <1>1 DEF Working
<1>3. NextStage = Stages[n + 1]
      /\ NextStage \in {"resize", "face-detection", "color", "beauty", "background"}
  <2>2. NextStage = Stages[n + 1]
    BY DEF NextStage
  <2>3. \A i \in 1..5 :
          Stages[i] \in {"resize", "face-detection", "color", "beauty", "background"}
    BY StagesAre
  <2>4. \A k \in 0..4 : k + 1 \in 1..5
    OBVIOUS
  <2>5. n + 1 \in 1..5
    BY <1>1, <2>4, Zenon
  <2> QED BY <2>2, <2>3, <2>5
<1>4. ASSUME NEW s \in {"SUCCEEDED", "FAILED"}, steps' = Append(steps, step(s))
      PROVE  /\ steps' \in Seq(StepRecord) /\ Len(steps') = n + 1
             /\ \A i \in 1..n : steps'[i] = steps[i]
             /\ steps'[n + 1].name = Stages[n + 1] /\ steps'[n + 1].status = s
  <2>1. step(s) \in StepRecord
    BY <1>3 DEF StepRecord
  <2>2. /\ steps' \in Seq(StepRecord) /\ Len(steps') = n + 1
        /\ \A i \in 1..n : steps'[i] = steps[i]
        /\ steps'[n + 1] = step(s)
    BY <1>1, <1>4, <2>1, AppendProperties
  <2> QED BY <1>3, <2>2
<1>5. \A i \in 1..n : steps[i].name = Stages[i] /\ steps[i].status # "FAILED"
  BY <1>1 DEF IndInv, StepInv
<1>6. CASE /\ steps' = Append(steps, step("FAILED")) /\ End("cancelled") /\ UNCHANGED cur
  <2>1. pc' = "steps" /\ err' = "cancelled" /\ IsCancellation(err')
    BY <1>6 DEF End, IsCancellation
  <2>2. JobInv'
    BY <1>1, <1>2, <2>1 DEF IndInv, JobInv, PCs, uploadVars, jobVars
  <2>3. StepInv'
    <3>1. \A i \in 1..(n + 1) : i \in 1..n \/ i = n + 1
      BY <1>1
    <3> QED BY <1>1, <1>4, <1>5, <1>6, <2>1, <3>1 DEF IndInv, StepInv
  <2>4. ImageInv'
    BY <1>1, <1>2, <2>1 DEF IndInv, ImageInv, JobInv, jobVars
  <2> QED BY <2>2, <2>3, <2>4 DEF IndInv
<1>7. CASE /\ steps' = Append(steps, step("SUCCEEDED"))
           /\ cur' = Process(NextStage, cur) /\ Goto("check")
  <2>1. pc' = "check" /\ UNCHANGED err
    BY <1>7 DEF Goto
  <2>2. JobInv'
    BY <1>1, <1>2, <2>1 DEF IndInv, JobInv, PCs, uploadVars, jobVars
  <2>3. StepInv'
    <3>1. \A i \in 1..(n + 1) : i \in 1..n \/ i = n + 1
      BY <1>1
    <3> QED BY <1>1, <1>4, <1>5, <1>7, <2>1, <3>1 DEF IndInv, StepInv
  <2>4. Fits(read) /\ cur = After(read, n)
    BY <1>1 DEF IndInv, ImageInv
  <2>5. cur' = After(read, n + 1)
    BY <1>1, <1>3, <1>7, <2>4, ProcessAdvances DEF Fits
  <2>6. Len(steps') = n + 1
    BY <1>4, <1>7
  <2>7. ImageInv'
    BY <1>1, <1>2, <2>1, <2>4, <2>5, <2>6 DEF IndInv, ImageInv, JobInv, jobVars, Fits
  <2> QED BY <2>2, <2>3, <2>7 DEF IndInv
<1> QED BY <1>6, <1>7 DEF RunStage

LEMMA EncodeOutputInv == ASSUME IndInv, EncodeOutput PROVE IndInv'
<1>1. pc = "encode" /\ Working /\ UNCHANGED <<workVars, saved, drops>>
  BY DEF EncodeOutput
<1>2. Goto("put") \/ End("transient")
  BY DEF EncodeOutput
<1> QED BY <1>1, <1>2, NextPoint, LateEnd

LEMMA PutOutputInv == ASSUME IndInv, PutOutput PROVE IndInv'
<1>1. pc = "put" /\ Working /\ UNCHANGED <<workVars, saved, drops>>
  BY DEF PutOutput
<1>2. \/ blob' = cur.image /\ Goto("art")
      \/ \E e \in {"transient", "cancelled"} : End(e)
  BY DEF PutOutput, CtxErrors
<1> QED BY <1>1, <1>2, NextPoint, LateEnd

\* The row describes the output that was put just before.
LEMMA AddArtifactInv == ASSUME IndInv, AddArtifact PROVE IndInv'
<1>1. pc = "art" /\ Working /\ UNCHANGED <<workVars, saved, blob, drops>>
  BY DEF AddArtifact
<1>2. CASE \E e \in {"transient", "cancelled"} : End(e)
  BY <1>1, <1>2, LateEnd
<1>3. CASE art' = cur.image /\ End("nil")
  <2>1. pc' = "steps" /\ err' = "nil" /\ UNCHANGED <<uploadVars, jobVars>>
    BY <1>1, <1>3 DEF End, Working
  <2>2. JobInv'
    BY <1>1, <2>1 DEF IndInv, JobInv, PCs, uploadVars, jobVars, workVars
  <2>3. StepInv'
    BY <1>1, <2>1 DEF IndInv, StepInv, workVars
  <2>4. Fits(read) /\ cur = After(read, 5) /\ blob = cur.image
    BY <1>1 DEF IndInv, StepInv, ImageInv
  <2>5. Stored'
    BY <1>1, <1>3, <2>4, AllStages DEF Stored, Fits
  <2>6. ImageInv'
    BY <2>1, <2>5 DEF ImageInv
  <2> QED BY <2>2, <2>3, <2>6 DEF IndInv
<1> QED BY <1>2, <1>3 DEF AddArtifact

LEMMA PersistStepsInv == ASSUME IndInv, PersistSteps PROVE IndInv'
<1>1. /\ pc = "steps" /\ pc' \in {"finok", "finerr"} /\ (pc' = "finok" => err = "nil")
      /\ UNCHANGED <<uploadVars, jobVars, workVars, err, blob, art>>
  BY DEF PersistSteps, Goto, Working
<1>2. JobInv'
  BY <1>1 DEF IndInv, JobInv, PCs, uploadVars, jobVars, workVars
<1>3. StepInv'
  <2>1. drops \in Nat /\ steps \in Seq(StepRecord)
    BY DEF IndInv, StepInv
  <2>2. drops' \in Nat /\ (drops' = 0 => saved' = 1..Len(steps))
    BY <2>1 DEF PersistSteps
  <2>3. steps' = steps /\ err' = err /\ (pc' = "finok" => Len(steps) = 5)
    BY <1>1 DEF IndInv, StepInv, workVars
  <2>4. \A i \in 1..Len(steps) : steps[i].status = "FAILED" => pc' = "finerr"
    BY <1>1 DEF IndInv, StepInv, IsCancellation
  <2> QED BY <1>1, <2>2, <2>3, <2>4 DEF IndInv, StepInv
<1>4. ImageInv'
  <2>1. Stored => Stored'
    BY <1>1 DEF Stored
  <2> QED BY <1>1, <2>1 DEF IndInv, ImageInv, JobInv, jobVars
<1> QED BY <1>2, <1>3, <1>4 DEF IndInv

\* A job is COMPLETED only by an attempt that came through.
LEMMA FinalizeInv == ASSUME IndInv, Finalize PROVE IndInv'
<1>1. /\ pc \in {"finok", "finerr"} /\ pc' = "idle"
      /\ steps' = <<>> /\ refusal' = "none"
      /\ UNCHANGED <<uploadVars, admitted, blob, art, drops>>
      /\ status' = "COMPLETED" => pc = "finok" \/ status = "COMPLETED"
      /\ status' # "absent" \/ status' = status
  BY DEF Finalize
<1>2. JobInv'
  BY <1>1 DEF IndInv, JobInv, PCs, uploadVars
<1>3. StepInv'
  <2>1. <<>> \in Seq(StepRecord) /\ Len(<<>>) = 0
    OBVIOUS
  <2> QED BY <1>1, <2>1 DEF IndInv, StepInv
<1>4. ImageInv'
  <2>1. Stored => Stored'
    BY <1>1 DEF Stored
  <2> QED BY <1>1, <2>1 DEF IndInv, ImageInv
<1> QED BY <1>2, <1>3, <1>4 DEF IndInv

-----------------------------------------------------------------------------
\* Every reachable state satisfies the invariant.
THEOREM Invariance == Spec => []IndInv
<1>1. IndInv /\ [Next]_vars => IndInv'
  <2> SUFFICES ASSUME IndInv, [Next]_vars PROVE IndInv'
    OBVIOUS
  <2>1. CASE RunPipeline
    BY <2>1, BeforeDecodeInv, DecodeInputInv, CheckContextInv, RunStageInv, EncodeOutputInv,
       PutOutputInv, AddArtifactInv, PersistStepsInv DEF RunPipeline
  <2>2. CASE UNCHANGED vars
    <3>1. /\ UNCHANGED <<uploadVars, jobVars, pc, workVars, saved, err, blob, art, drops>>
          /\ UNCHANGED status
      BY <2>2 DEF vars, jobVars
    <3>2. StepInv' /\ ImageInv'
      BY <3>1, OutsideRun
    <3>3. JobInv'
      BY <3>1 DEF IndInv, JobInv, uploadVars, jobVars, workVars
    <3> QED BY <3>2, <3>3 DEF IndInv
  <2>3. ASSUME NEW u \in UploadIDs, NEW p \in DOMAIN DefaultRegistry \union {"unknown"},
               CreateJob(u, p)
        PROVE  IndInv'
    BY <2>3, CreateJobInv
  <2> QED BY <2>1, <2>2, <2>3, UploadInv, CancelJobInv, BeginAttemptInv, EndContextInv,
             FinalizeInv DEF Next
<1> QED BY <1>1, InitInv, PTL DEF Spec

\* What a client downloads for a COMPLETED job is one object, whole: never a mix
\* of attempts, never half of the stages, and as the artifact's row says.
THEOREM Whole == Spec => []CompletedIsWhole
<1>1. IndInv => CompletedIsWhole
  <2> SUFFICES ASSUME IndInv, status = "COMPLETED"
               PROVE  /\ art = blob /\ blob = Enhanced(blob.src)
                      /\ blob.src.size <= MaxDecodeBytes /\ blob.src.pixels <= MaxPixels
    BY DEF CompletedIsWhole
  <2>1. PICK o \in Objects : Fits(o) /\ blob = Enhanced(o) /\ art = blob
    BY DEF IndInv, ImageInv, Stored
  <2>2. blob.src = o
    BY <2>1 DEF Enhanced
  <2> QED BY <2>1, <2>2 DEF Fits
<1> QED BY <1>1, Invariance, PTL

\* Pipeline.Run's StepResults, and the rows persistSteps makes of them.
THEOREM Audit == Spec => []StepAudit
<1>1. IndInv => StepAudit
  <2> SUFFICES ASSUME IndInv PROVE StepAudit
    OBVIOUS
  <2>1. DOMAIN steps = 1..Len(steps)
    BY DEF IndInv, StepInv
  <2> QED BY <2>1, LenStages DEF IndInv, StepInv, StepAudit
<1> QED BY <1>1, Invariance, PTL

\* ValidateObject's limit is the stricter one, so what it lets in fits the decoder.
THEOREM Fitting == Spec => []AdmittedFits
<1>1. IndInv => AdmittedFits
  <2> SUFFICES ASSUME IndInv, refusal = "bytes", MaxUploadBytes <= MaxDecodeBytes,
                      read = admitted
               PROVE  FALSE
    BY DEF AdmittedFits
  <2>1. read \in Objects /\ read.size > MaxDecodeBytes /\ pc # "idle"
    BY DEF IndInv, JobInv
  <2>2. admitted.size <= MaxUploadBytes
    BY <2>1 DEF IndInv, JobInv
  <2>3. read.size \in Nat /\ MaxUploadBytes \in Nat /\ MaxDecodeBytes \in Nat
    BY <2>1, LimitAssumption, ObjectAssumption
  <2> QED BY <2>1, <2>2, <2>3
<1> QED BY <1>1, Invariance, PTL

-----------------------------------------------------------------------------
(***************************************************************************)
(* The contract with JobWorker: under the mapping of Run every step of an  *)
(* attempt is one step of JobWorker's runPipeline, or leaves it where it   *)
(* is.                                                                     *)
(***************************************************************************)
RunStep == \/ Run!LoadInput("worker") \/ Run!RunProcessors("worker")
           \/ Run!PutOutput("worker") \/ Run!AddArtifact("worker")
           \/ Run!PersistSteps("worker") \/ Run!JobTimeout("worker")

runView == <<CoarsePC, err, ctxDone, art = NoImage, blob = NoImage>>

LEMMA OneUpdated == ASSUME NEW x, NEW y PROVE [One(x) EXCEPT !["worker"] = y] = One(y)
BY DEF One

\* Whatever an attempt does, the queue, the pool and the creating request rest.
LEMMA RunFrame == Run!Frame
BY DEF Run!Frame, Run!poolVars, Run!bounds, This

LEMMA RunGoto ==
  ASSUME NEW p, CoarsePC' = p, UNCHANGED <<err, ctxDone, attempt>>
  PROVE  Run!Goto("worker", p)
<1>1. One(CoarsePC)' = [One(CoarsePC) EXCEPT !["worker"] = p]
  BY OneUpdated DEF One
<1>2. UNCHANGED <<Run!callVars, Run!locals>>
  BY DEF Run!callVars, Run!locals, One
<1> QED BY <1>1, <1>2 DEF Run!Goto

LEMMA RunEnd ==
  ASSUME NEW e, End(e), UNCHANGED attempt
  PROVE  Run!EndRun("worker", e)
<1>1. CoarsePC' = "steps" /\ err' = e /\ ctxDone' = FALSE
  BY DEF End, CoarsePC
<1>2. /\ One(CoarsePC)' = [One(CoarsePC) EXCEPT !["worker"] = "steps"]
      /\ One(err)' = [One(err) EXCEPT !["worker"] = e]
      /\ One(ctxDone)' = [One(ctxDone) EXCEPT !["worker"] = FALSE]
  BY <1>1, OneUpdated DEF One
<1>3. UNCHANGED <<Run!callVars, One(attempt)>>
  BY DEF Run!callVars, One
<1> QED BY <1>2, <1>3 DEF Run!EndRun

\* The rows JobWorker has of the job, apart from its output and its artifact.
LEMMA RunRows ==
  ASSUME Working
  PROVE  UNCHANGED <<This(status), This(attempt), This("nil"), This(1)>>
BY DEF Working, jobVars, This

LEMMA RunDb ==
  ASSUME Working, UNCHANGED <<art, blob>>
  PROVE  UNCHANGED Run!dbVars
BY RunRows DEF Run!dbVars, Run!rowVars

LEMMA LoadContract ==
  ASSUME IndInv, ResolvePipeline \/ GetInput \/ DecodeInput
  PROVE  RunStep \/ UNCHANGED runView
<1>1. /\ pc \in {"resolve", "get", "decode"} /\ CoarsePC = "load" /\ Working
      /\ UNCHANGED <<blob, art, faults, attempt>>
  BY DEF ResolvePipeline, GetInput, DecodeInput, CoarsePC, Working, jobVars
<1>2. UNCHANGED Run!dbVars
  BY <1>1, RunDb
<1>3. ASSUME NEW e, End(e),
             e \in Run!StorageErrors(ctxDone) \union Run!DecodeErrors(ctxDone)
      PROVE  Run!LoadInput("worker")
  <2>1. Run!EndRun("worker", e)
    BY <1>1, <1>3, RunEnd
  <2> QED BY <1>1, <1>2, <1>3, <2>1, RunFrame DEF Run!LoadInput, Run!NoFault, One
<1>4. CASE Goto("check")
  <2>1. CoarsePC' = "proc"
    BY <1>4 DEF Goto, CoarsePC
  <2>2. Run!Goto("worker", "proc")
    BY <1>1, <1>4, <2>1, RunGoto DEF Goto
  <2> QED BY <1>1, <1>2, <2>2, RunFrame DEF RunStep, Run!LoadInput, Run!NoFault, One
<1>5. CASE Goto("get") \/ Goto("decode")
  BY <1>1, <1>5 DEF Goto, CoarsePC, runView
<1>6. \/ Goto("check") \/ Goto("get") \/ Goto("decode")
      \/ \E e \in Run!StorageErrors(ctxDone) \union Run!DecodeErrors(ctxDone) : End(e)
  <2>1. CtxErrors = Run!StorageErrors(ctxDone)
    BY DEF CtxErrors, Run!StorageErrors
  <2>2. "permanent" \in Run!DecodeErrors(ctxDone)
    BY DEF Run!DecodeErrors
  <2>3. {"permanent"} \union (IF ctxDone THEN {"permanent_cancelled"} ELSE {})
          \subseteq Run!DecodeErrors(ctxDone)
    BY DEF Run!DecodeErrors
  <2> QED BY <2>1, <2>2, <2>3 DEF ResolvePipeline, GetInput, DecodeInput
<1> QED BY <1>3, <1>4, <1>5, <1>6 DEF RunStep

\* A cancelled run ends with an error JobWorker expects only of a done context.
LEMMA ProcessContract ==
  ASSUME IndInv, CheckContext \/ RunStage \/ EncodeOutput
  PROVE  RunStep \/ UNCHANGED runView
<1>1. /\ pc \in {"check", "stage", "encode"} /\ CoarsePC = "proc" /\ Working
      /\ UNCHANGED <<blob, art, faults, attempt>>
  BY DEF CheckContext, RunStage, EncodeOutput, CoarsePC, Working, jobVars
<1>2. UNCHANGED Run!dbVars
  BY <1>1, RunDb
<1>3. ASSUME NEW e \in Run!RunErrors(ctxDone), End(e)
      PROVE  Run!RunProcessors("worker")
  <2>1. Run!EndRun("worker", e)
    BY <1>1, <1>3, RunEnd
  <2> QED BY <1>1, <1>2, <1>3, <2>1, RunFrame DEF Run!RunProcessors, Run!NoFault, One
<1>4. CASE Goto("put")
  <2>1. CoarsePC' = "put"
    BY <1>4 DEF Goto, CoarsePC
  <2>2. Run!Goto("worker", "put")
    BY <1>1, <1>4, <2>1, RunGoto DEF Goto
  <2> QED BY <1>1, <1>2, <2>2, RunFrame DEF RunStep, Run!RunProcessors, Run!NoFault, One
<1>5. CASE Goto("check") \/ Goto("stage") \/ Goto("encode")
  BY <1>1, <1>5 DEF Goto, CoarsePC, runView
<1>6. \/ Goto("put") \/ Goto("check") \/ Goto("stage") \/ Goto("encode")
      \/ \E e \in Run!RunErrors(ctxDone) : End(e)
  BY DEF CheckContext, RunStage, EncodeOutput, Run!RunErrors
<1> QED BY <1>3, <1>4, <1>5, <1>6 DEF RunStep

\* The image that is put is one, so that JobWorker's blob gains the job.
LEMMA OutputIsImage ==
  ASSUME IndInv, pc \in {"put", "art"}
  PROVE  cur.image # NoImage
<1>1. Fits(read) /\ cur = After(read, Len(steps))
  BY DEF IndInv, ImageInv
<1>2. cur.image.src = read /\ NoImage.src = NoObject
  BY <1>1 DEF After, NoImage
<1> QED BY <1>1, <1>2, ObjectAssumption DEF Fits

LEMMA PutContract == ASSUME IndInv, PutOutput PROVE RunStep
<1> DEFINE had == IF blob = NoImage THEN {} ELSE {"job"}
<1>1. /\ pc = "put" /\ CoarsePC = "put" /\ Working
      /\ UNCHANGED <<art, faults, attempt>>
  BY DEF PutOutput, CoarsePC, Working, jobVars
<1>2. UNCHANGED <<This(status), This(attempt), This("nil"), This(1),
                  IF art = NoImage THEN {} ELSE {"job"}>>
  BY <1>1, RunRows
<1>3. blob' = cur.image => had' = had \union {"job"}
  BY <1>1, OutputIsImage
<1>4. CASE blob' = cur.image /\ Goto("art")
  <2>1. CoarsePC' = "art"
    BY <1>4 DEF Goto, CoarsePC
  <2>2. Run!Goto("worker", "art")
    BY <1>1, <1>4, <2>1, RunGoto DEF Goto
  <2> QED BY <1>1, <1>2, <1>3, <1>4, <2>2, RunFrame
          DEF RunStep, Run!PutOutput, Run!NoFault, One
<1>5. CASE blob' \in {blob, cur.image} /\ (\E e \in CtxErrors : End(e))
  <2>1. PICK e \in CtxErrors : End(e)
    BY <1>5
  <2>2. Run!EndRun("worker", e)
    BY <1>1, <2>1, RunEnd
  <2>3. e \in Run!StorageErrors(One(ctxDone)["worker"])
    BY <2>1 DEF CtxErrors, Run!StorageErrors, One
  <2>4. had' \in {had, had \union {One("job")["worker"]}}
    BY <1>3, <1>5 DEF One
  <2> QED BY <1>1, <1>2, <2>2, <2>3, <2>4, RunFrame
          DEF RunStep, Run!PutOutput, Run!NoFault, One
<1> QED BY <1>4, <1>5 DEF PutOutput

LEMMA ArtifactContract == ASSUME IndInv, AddArtifact PROVE RunStep
<1> DEFINE had == IF art = NoImage THEN {} ELSE {"job"}
<1>1. pc = "art" /\ CoarsePC = "art" /\ Working /\ UNCHANGED <<blob, attempt>>
  BY DEF AddArtifact, CoarsePC, Working, jobVars
<1>2. UNCHANGED <<This(status), This(attempt), This("nil"), This(1),
                  IF blob = NoImage THEN {} ELSE {"job"}>>
  BY <1>1, RunRows
<1>3. art' = cur.image => had' = had \union {"job"}
  BY <1>1, OutputIsImage
<1>4. CASE art' = cur.image /\ End("nil") /\ UNCHANGED faults
  <2>1. Run!EndRun("worker", "nil")
    BY <1>1, <1>4, RunEnd
  <2> QED BY <1>1, <1>2, <1>3, <1>4, <2>1, RunFrame
          DEF RunStep, Run!AddArtifact, Run!NoFault, One
<1>5. CASE /\ faults < MaxFaults /\ faults' = faults + 1 /\ art' \in {art, cur.image}
           /\ \E e \in {"transient", "cancelled"} : End(e)
  <2>1. PICK e \in {"transient", "cancelled"} : End(e)
    BY <1>5
  <2>2. Run!EndRun("worker", e)
    BY <1>1, <2>1, RunEnd
  <2>3. had' \in {had, had \union {One("job")["worker"]}}
    BY <1>3, <1>5 DEF One
  <2> QED BY <1>1, <1>2, <1>5, <2>2, <2>3, RunFrame
          DEF RunStep, Run!AddArtifact, Run!Fault, One
<1> QED BY <1>4, <1>5 DEF AddArtifact

LEMMA PersistContract == ASSUME IndInv, PersistSteps PROVE RunStep
<1>1. /\ pc = "steps" /\ CoarsePC = "steps" /\ Working
      /\ UNCHANGED <<blob, art, faults, attempt>>
      /\ Goto(IF err = "nil" THEN "finok" ELSE "finerr")
  BY DEF PersistSteps, CoarsePC, Working, jobVars
<1>2. CoarsePC' = IF One(err)["worker"] = "nil" THEN "finok" ELSE "finerr"
  BY <1>1 DEF Goto, CoarsePC, One
<1>3. Run!Goto("worker", IF One(err)["worker"] = "nil" THEN "finok" ELSE "finerr")
  BY <1>1, <1>2, RunGoto DEF Goto
<1>4. UNCHANGED Run!dbVars
  BY <1>1, RunDb
<1> QED BY <1>1, <1>3, <1>4, RunFrame DEF RunStep, Run!PersistSteps, Run!NoFault, One

LEMMA ContextContract == ASSUME IndInv, EndContext PROVE RunStep
<1>1. /\ pc \in {"resolve", "get", "decode", "check", "stage", "encode", "put"}
      /\ ~ctxDone /\ ctxDone' = TRUE
      /\ Working /\ UNCHANGED <<pc, err, blob, art, faults, attempt>>
  BY DEF EndContext, Working, jobVars
<1>2. One(CoarsePC)["worker"] \in Run!Running /\ CoarsePC' = CoarsePC
  BY <1>1 DEF CoarsePC, One, Run!Running
<1>3. One(ctxDone)' = [One(ctxDone) EXCEPT !["worker"] = TRUE] /\ ~One(ctxDone)["worker"]
  BY <1>1, OneUpdated DEF One
<1>4. UNCHANGED <<Run!dbVars, One(CoarsePC), Run!callVars, One(attempt), One(err)>>
  <2>1. UNCHANGED Run!dbVars
    BY <1>1, RunDb
  <2> QED BY <1>1, <1>2, <2>1 DEF Run!callVars, One
<1> QED BY <1>1, <1>2, <1>3, <1>4, RunFrame DEF RunStep, Run!JobTimeout, Run!NoFault

\* What JobWorker takes for granted of runPipeline is what runPipeline does, for
\* any image, limits and failures.
THEOREM Contract == Spec => RunContract
<1>1. IndInv /\ [Next]_vars => [RunStep \/ pc \in {"idle", "finok", "finerr"}]_runView
  <2> SUFFICES ASSUME IndInv, [Next]_vars
               PROVE  pc \in {"idle", "finok", "finerr"} \/ RunStep \/ UNCHANGED runView
    OBVIOUS
  <2>1. CASE RunPipeline
    BY <2>1, LoadContract, ProcessContract, PutContract, ArtifactContract, PersistContract
    DEF RunPipeline
  <2>2. CASE BeginAttempt \/ Finalize
    BY <2>2 DEF BeginAttempt, Finalize
  <2>3. CASE UNCHANGED <<pc, err, ctxDone, blob, art>>
    BY <2>3 DEF runView, CoarsePC
  <2>4. ASSUME NEW u, NEW p, CreateJob(u, p) PROVE UNCHANGED <<pc, err, ctxDone, blob, art>>
    BY <2>4 DEF CreateJob
  <2> QED BY <2>1, <2>2, <2>3, <2>4, ContextContract
          DEF Next, vars, CreateUpload, PutUpload, ExpireURL, CancelJob
<1> QED BY <1>1, Invariance, PTL DEF Spec, RunContract, RunStep, runView

-----------------------------------------------------------------------------
(***************************************************************************)
(* The delays.  The documented exponent has no bound, so what the code's   *)
(* shift and cap make of it is shown by induction, in the form: a set of   *)
(* numbers that is not empty has a least one.                              *)
(***************************************************************************)
Below == {pair \in Nat \X Nat : pair[1] < pair[2]}

LEMMA Least ==
  ASSUME NEW T, T \subseteq Nat, T # {}
  PROVE  \E m \in T : \A k \in T : m <= k
<1>1. IsWellFoundedOn(Below, Nat)
  BY NatLessThanWellFounded, Zenon DEF OpToRel, Below
<1>2. PICK m \in T : \A k \in T : ~(<<k, m>> \in Below)
  BY <1>1, WFMin, Zenon
<1>3. ASSUME NEW k \in T PROVE m <= k
  <2>1. k \in Nat /\ m \in Nat
    OBVIOUS
  <2>2. ASSUME k < m PROVE <<k, m>> \in Below
    BY <2>1, <2>2 DEF Below
  <2> QED BY <1>2, <2>1, <2>2
<1> QED BY <1>3

\* g doubles from the base up to n.
Doubling(g, n) == g[0] = backoffBase /\ \A i \in 1..n : g[i] = 2 * g[i - 1]

LEMMA DoublingExists == ASSUME NEW n \in Nat PROVE \E g \in [Nat -> Nat] : Doubling(g, n)
<1> DEFINE T == {k \in Nat : ~\E g \in [Nat -> Nat] : Doubling(g, k)}
<1>1. ASSUME NEW m \in T, \A k \in T : m <= k PROVE FALSE
  <2>1. CASE m = 0
    <3>1. [i \in Nat |-> backoffBase] \in [Nat -> Nat]
      BY DEF backoffBase
    <3>2. Doubling([i \in Nat |-> backoffBase], 0)
      BY DEF Doubling
    <3> QED BY <2>1, <3>1, <3>2
  <2>2. CASE m # 0
    <3>1. m \in Nat /\ m - 1 \in Nat /\ m - 1 \notin T
      BY <1>1, <2>2
    <3>2. PICK g \in [Nat -> Nat] : Doubling(g, m - 1)
      BY <3>1
    <3> DEFINE h == [g EXCEPT ![m] = 2 * g[m - 1]]
    <3>3. h \in [Nat -> Nat]
      BY <3>1
    <3>4. h[0] = g[0] /\ h[m] = 2 * h[m - 1]
      BY <2>2, <3>1
    <3>5. ASSUME NEW i \in 1..m, i # m PROVE h[i] = 2 * h[i - 1]
      <4>1. i \in 1..(m - 1) /\ i \in Nat /\ i - 1 \in Nat /\ i - 1 # m
        BY <3>1, <3>5
      <4>2. h[i] = g[i] /\ h[i - 1] = g[i - 1]
        BY <3>5, <4>1
      <4> QED BY <3>2, <4>1, <4>2 DEF Doubling
    <3> HIDE DEF h
    <3>6. Doubling(h, m)
      BY <3>2, <3>4, <3>5 DEF Doubling
    <3> QED BY <3>3, <3>6
  <2> QED BY <2>1, <2>2
<1>2. T = {}
  <2>1. T \subseteq Nat
    OBVIOUS
  <2> HIDE DEF T
  <2> QED BY <1>1, <2>1, Least
<1> QED BY <1>2

LEMMA DoublingUnique ==
  ASSUME NEW n \in Nat, NEW g \in [Nat -> Nat], NEW h \in [Nat -> Nat],
         Doubling(g, n), Doubling(h, n)
  PROVE  g[n] = h[n]
<1> DEFINE T == {k \in 0..n : g[k] # h[k]}
<1>1. ASSUME NEW m \in T, \A k \in T : m <= k PROVE FALSE
  <2>1. m \in 1..n
    BY <1>1 DEF Doubling
  <2>2. m - 1 \in 0..n /\ m - 1 \notin T
    BY <1>1, <2>1
  <2>3. g[m - 1] = h[m - 1]
    BY <2>2
  <2> QED BY <1>1, <2>1, <2>3 DEF Doubling
<1>2. T = {}
  <2>1. T \subseteq Nat
    OBVIOUS
  <2> HIDE DEF T
  <2> QED BY <1>1, <2>1, Least
<1> QED BY <1>2

LEMMA DoubledUnfolds ==
  /\ Doubled[0] = backoffBase
  /\ \A n \in Nat \ {0} : Doubled[n] = 2 * Doubled[n - 1]
<1> DEFINE Pick(n) == CHOOSE g \in [Nat -> Nat] : Doubling(g, n)
           f == [n \in Nat |-> Pick(n)[n]]
<1>1. ASSUME NEW n \in Nat PROVE Pick(n) \in [Nat -> Nat] /\ Doubling(Pick(n), n)
  BY DoublingExists
<1> HIDE DEF Pick
<1>2. f[0] = backoffBase
  BY <1>1 DEF Doubling
<1>3. ASSUME NEW n \in Nat \ {0} PROVE f[n] = 2 * f[n - 1]
  <2>1. n - 1 \in Nat /\ n \in 1..n
    OBVIOUS
  <2>2. /\ Pick(n) \in [Nat -> Nat] /\ Doubling(Pick(n), n)
        /\ Pick(n - 1) \in [Nat -> Nat] /\ Doubling(Pick(n - 1), n - 1)
    BY <1>1, <2>1
  <2>3. Doubling(Pick(n), n - 1)
    BY <2>1, <2>2 DEF Doubling
  <2>4. Pick(n)[n - 1] = Pick(n - 1)[n - 1]
    BY <2>1, <2>2, <2>3, DoublingUnique
  <2> QED BY <2>1, <2>2, <2>4 DEF Doubling
<1>4. f = [n \in Nat |-> IF n = 0 THEN backoffBase ELSE 2 * f[n - 1]]
  BY <1>2, <1>3
<1> HIDE DEF f
<1>5. \E d : d = [n \in Nat |-> IF n = 0 THEN backoffBase ELSE 2 * d[n - 1]]
  BY <1>4
<1>6. Doubled = [n \in Nat |-> IF n = 0 THEN backoffBase ELSE 2 * Doubled[n - 1]]
  BY <1>5, Zenon DEF Doubled
<1> QED BY <1>6

LEMMA DoubledType == ASSUME NEW n \in Nat PROVE Doubled[n] \in Nat
<1> DEFINE T == {k \in Nat : Doubled[k] \notin Nat}
<1>1. ASSUME NEW m \in T, \A k \in T : m <= k PROVE FALSE
  <2>1. CASE m = 0
    BY <2>1, DoubledUnfolds DEF backoffBase
  <2>2. CASE m # 0
    <3>1. m \in Nat /\ m - 1 \in Nat /\ m - 1 \notin T
      BY <1>1, <2>2
    <3>2. Doubled[m - 1] \in Nat /\ Doubled[m] = 2 * Doubled[m - 1]
      BY <2>2, <3>1, DoubledUnfolds
    <3> QED BY <3>2
  <2> QED BY <2>1, <2>2
<1>2. T = {}
  <2>1. T \subseteq Nat
    OBVIOUS
  <2> HIDE DEF T
  <2> QED BY <1>1, <2>1, Least
<1> QED BY <1>2

LEMMA FirstDoubled ==
  /\ Doubled[0] = 2 /\ Doubled[1] = 4 /\ Doubled[2] = 8
  /\ Doubled[3] = 16 /\ Doubled[4] = 32 /\ Doubled[5] = 64
<1>1. Doubled[0] = 2
  BY DoubledUnfolds DEF backoffBase
<1>2. Doubled[1] = 4
  BY <1>1, DoubledUnfolds
<1>3. Doubled[2] = 8
  BY <1>2, DoubledUnfolds
<1>4. Doubled[3] = 16
  BY <1>3, DoubledUnfolds
<1>5. Doubled[4] = 32
  BY <1>4, DoubledUnfolds
<1>6. Doubled[5] = 64
  BY <1>5, DoubledUnfolds
<1> QED BY <1>1, <1>2, <1>3, <1>4, <1>5, <1>6

\* From the sixth attempt on, the cap is what counts.
LEMMA DoubledPastCap == ASSUME NEW n \in Nat, n >= 5 PROVE Doubled[n] >= 64
<1> DEFINE T == {k \in Nat : k >= 5 /\ ~(Doubled[k] >= 64)}
<1>1. ASSUME NEW m \in T, \A k \in T : m <= k PROVE FALSE
  <2>1. CASE m = 5
    BY <2>1, FirstDoubled
  <2>2. CASE m # 5
    <3>1. m \in Nat /\ m > 5 /\ m - 1 \in Nat /\ m - 1 >= 5 /\ m - 1 \notin T
      BY <1>1, <2>2
    <3>2. Doubled[m - 1] >= 64 /\ Doubled[m] = 2 * Doubled[m - 1] /\ Doubled[m - 1] \in Nat
      BY <3>1, DoubledUnfolds, DoubledType
    <3> QED BY <3>2
  <2> QED BY <2>1, <2>2
<1>2. T = {}
  <2>1. T \subseteq Nat
    OBVIOUS
  <2> HIDE DEF T
  <2> QED BY <1>1, <2>1, Least
<1> QED BY <1>2

\* Half and the whole of one exponential delay: the code's interval is the comment's.
LEMMA EqualJitter ==
  ASSUME NEW exp \in {2, 4, 8, 16, 32, 60}
  PROVE  {(exp \div 2) + r : r \in 0..(exp \div 2)} = {d \in 0..exp : 2 * d >= exp}
<1>1. PICK half \in Nat : exp = 2 * half /\ exp \div 2 = half
  OBVIOUS
<1>2. ASSUME NEW r \in 0..half PROVE half + r \in 0..exp /\ 2 * (half + r) >= exp
  BY <1>1, <1>2
<1>3. ASSUME NEW d \in 0..exp, 2 * d >= exp PROVE \E r \in 0..half : d = half + r
  <2>1. d - half \in 0..half /\ d = half + (d - half)
    BY <1>1, <1>3
  <2> QED BY <2>1
<1>4. {half + r : r \in 0..half} = {d \in 0..exp : 2 * d >= exp}
  BY <1>2, <1>3
<1> QED BY <1>1, <1>4

\* For every attempt, far beyond the cap too, backoff draws from exactly the
\* interval its comment names.
THEOREM BackoffExact == \A n \in Nat \ {0} : Backoff(n) = DocumentedDelays(n)
<1> SUFFICES ASSUME NEW n \in Nat \ {0} PROVE Backoff(n) = DocumentedDelays(n)
  OBVIOUS
<1> DEFINE shift == IF n < 1 THEN 0 ELSE Min({n - 1, 5})
           exp == Min({backoffBase * 2^shift, backoffCap})
<1>1. n - 1 \in Nat /\ 5 \in Nat /\ 60 \in Nat /\ Doubled[n - 1] \in Nat
  BY DoubledType
<1>2. shift = IF n - 1 <= 5 THEN n - 1 ELSE 5
  BY <1>1, MinOfTwo
<1>3. Min({Doubled[n - 1], backoffCap}) =
        IF Doubled[n - 1] <= 60 THEN Doubled[n - 1] ELSE 60
  BY <1>1, MinOfTwo DEF backoffCap
<1>4. exp = Min({Doubled[n - 1], backoffCap}) /\ exp \in {2, 4, 8, 16, 32, 60}
  <2>1. CASE n - 1 >= 5
    <3>1. shift = 5 /\ 2^5 = 32
      BY <1>1, <1>2, <2>1
    <3> HIDE DEF shift
    <3>2. backoffBase * 2^shift = 64
      BY <3>1 DEF backoffBase
    <3>3. exp = Min({64, 60})
      BY <3>2 DEF backoffCap
    <3>4. exp = 60
      BY <3>3, MinOfTwo
    <3> QED BY <1>1, <1>3, <2>1, <3>4, DoubledPastCap
  <2>2. ASSUME NEW k \in {0, 1, 2, 3, 4}, n - 1 = k
        PROVE  exp = Min({Doubled[n - 1], backoffCap}) /\ exp \in {2, 4, 8, 16, 32, 60}
    <3>1. shift = k
      BY <1>1, <1>2, <2>2
    <3>2. \/ k = 0 /\ 2^k = 1 /\ Doubled[k] = 2
          \/ k = 1 /\ 2^k = 2 /\ Doubled[k] = 4
          \/ k = 2 /\ 2^k = 4 /\ Doubled[k] = 8
          \/ k = 3 /\ 2^k = 8 /\ Doubled[k] = 16
          \/ k = 4 /\ 2^k = 16 /\ Doubled[k] = 32
      <4>1. 2^0 = 1 /\ 2^1 = 2 /\ 2^2 = 4 /\ 2^3 = 8 /\ 2^4 = 16
        OBVIOUS
      <4> QED BY <4>1, FirstDoubled, Zenon
    <3>3. backoffBase * 2^k = Doubled[k]
      BY <3>2 DEF backoffBase
    <3>4. exp = Min({Doubled[k], backoffCap})
      BY <3>1, <3>3
    <3> QED BY <1>3, <2>2, <3>2, <3>4
  <2> QED BY <1>1, <2>1, <2>2
<1>5. Backoff(n) = {(exp \div 2) + r : r \in 0..(exp \div 2)}
  BY DEF Backoff
<1>6. DocumentedDelays(n) = {d \in 0..exp : 2 * d >= exp}
  BY <1>4 DEF DocumentedDelays
<1> HIDE DEF exp
<1> QED BY <1>4, <1>5, <1>6, EqualJitter

\* A waiting job waits for what backoff drew after its last attempt.
DelayInv ==
  /\ attempt \in Nat
  /\ status = "absent" => attempt = 0
  /\ pc # "idle" => attempt > 0
  /\ status = "QUEUED" /\ attempt > 0 => delay \in Backoff(attempt)

LEMMA NextDelay == ASSUME IndInv, DelayInv, [Next]_vars PROVE DelayInv'
<1>1. CASE UNCHANGED jobVars /\ (pc' # "idle" => pc # "idle")
  BY <1>1 DEF DelayInv, jobVars
<1>2. CASE \E q \in UploadRequests : CreateUpload(q)
  BY <1>1, <1>2 DEF CreateUpload
<1>3. CASE \E o \in Objects : PutUpload(o)
  BY <1>1, <1>3 DEF PutUpload
<1>4. CASE ExpireURL \/ EndContext
  BY <1>1, <1>4 DEF ExpireURL, EndContext
<1>5. CASE RunPipeline
  <2>1. UNCHANGED jobVars /\ pc # "idle"
    BY <1>5 DEF RunPipeline, ResolvePipeline, GetInput, DecodeInput, CheckContext, RunStage,
       EncodeOutput, PutOutput, AddArtifact, PersistSteps, Working
  <2> QED BY <1>1, <2>1
<1>6. CASE \E u \in UploadIDs, p \in DOMAIN DefaultRegistry \union {"unknown"} : CreateJob(u, p)
  BY <1>6 DEF CreateJob, DelayInv
<1>7. CASE CancelJob
  BY <1>7 DEF CancelJob, DelayInv
<1>8. CASE BeginAttempt
  BY <1>8 DEF BeginAttempt, DelayInv
<1>9. CASE Finalize
  <2>1. attempt > 0 /\ status \in {"PROCESSING", "CANCELLED"}
    BY <1>9 DEF Finalize, DelayInv, IndInv, JobInv
  <2>2. UNCHANGED attempt /\ pc' = "idle" /\ status' # "absent"
    BY <1>9, <2>1 DEF Finalize
  <2>3. status' = "QUEUED" => delay' \in Backoff(attempt)
    BY <1>9, <2>1 DEF Finalize
  <2> QED BY <2>1, <2>2, <2>3 DEF DelayInv
<1>10. CASE UNCHANGED vars
  BY <1>1, <1>10 DEF vars
<1> QED BY <1>2, <1>3, <1>4, <1>5, <1>6, <1>7, <1>8, <1>9, <1>10 DEF Next

\* What the Nak of a retry says lies in the documented interval of the attempt
\* that has just failed, whatever MAX_ATTEMPTS is.
THEOREM Delays == Spec => []BackoffInterval
<1>1. Init => DelayInv
  BY DEF Init, DelayInv
<1>2. Spec => []DelayInv
  BY <1>1, NextDelay, Invariance, PTL DEF Spec
<1>3. BackoffAsDocumented
  <2>1. Backoff(0) = Backoff(1)
    <3>1. Min({1 - 1, 5}) = 0
      BY MinOfTwo
    <3> QED BY <3>1 DEF Backoff
  <2> QED BY <2>1, BackoffExact DEF BackoffAsDocumented
<1>4. DelayInv => BackoffInterval
  BY <1>3, BackoffExact DEF DelayInv, BackoffInterval
<1> QED BY <1>2, <1>4, PTL
=============================================================================
