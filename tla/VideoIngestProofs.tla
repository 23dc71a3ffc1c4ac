-------------------------- MODULE VideoIngestProofs --------------------------
(***************************************************************************)
(* What a slot says of itself is true, for any number of requests, videos  *)
(* and queued transcodes and under every fault, until a request writes     *)
(* over what another has written since it, or the page it comes from, read *)
(* the slot.                                                               *)
(*                                                                         *)
(* Every action has one of four shapes: a request reads or talks to        *)
(* Cloudflare (TalkStep), a request writes the row by episode id           *)
(* (WriteStep), a verdict is written by video uid (MarkStep), or the       *)
(* transcoder writes (JobStep).  Each shape keeps the invariant.           *)
(***************************************************************************)
EXTENDS VideoIngest, TLAPS

Finished == {"ready", "lost"}

\* A request as it stands: it knows its video, and that it has been encoded.
Sound(o, vs) ==
    /\ o.stage \in {"copied", "linked", "checking", "finishing", "failing", "resetting"}
          => o.of # None
    /\ o.stage = "finishing" => vs[o.of] \in Finished

\* A request that is right about the slot r.
Right(o, r) ==
    /\ o.stage \in Claims \cup {"copied"} => r.uid = None /\ ~r.prefix
    /\ o.stage = "enqueue" =>
         r.uid = None /\ ~r.prefix /\ r.provider = "r2_hls" /\ r.status = "uploading"
    /\ o.stage \in {"replace", "mint", "linked", "checking", "resetting", "emptying"}
          => r.provider = "cloudflare" /\ r.status # "absent"
    /\ o.stage \in {"cancel", "clear"} => r.status # "absent"

\* A video somebody refers to does not become unfinished again.
Kept == \A v \in Video : v = row.uid \/ (\E h \in Handler : v = op[h].of)
            => (video[v] \in Finished => video'[v] \in Finished)

\* Readers and requests, in terms of the records they hold, now and after a step.
LEMMA Slots ==
  \A h \in Handler : /\ (ReaderSound(h) <=> Right(op[h], row))
                      /\ (ReaderSound(h)' <=> Right(op'[h], row'))
BY DEF ReaderSound, Right, Empty, Transcoding, At

LEMMA Requests ==
  /\ (RequestsSound <=> /\ \A h \in Handler : Sound(op[h], video)
                        /\ (jobs = 0 => ~jobCurrent /\ ~failing))
  /\ (RequestsSound' <=> /\ \A h \in Handler : Sound(op'[h], video')
                         /\ (jobs' = 0 => ~jobCurrent' /\ ~failing'))
BY DEF RequestsSound, Sound, At, Finished

\* A slot for requests that is free asks for nothing.
LEMMA FreeSound ==
  /\ FreeOp \in Op
  /\ \A vs : Sound(FreeOp, vs)
  /\ \A r : Right(FreeOp, r)
<1>1. FreeOp \in Op
  BY DEF FreeOp, Op, Stage
<1>2. ASSUME NEW vs PROVE Sound(FreeOp, vs)
  BY DEF FreeOp, Sound
<1>3. ASSUME NEW r PROVE Right(FreeOp, r)
  BY DEF FreeOp, Right, Claims
<1>4. QED
  BY <1>1, <1>2, <1>3

\* A step of a request changes that request only.
LEMMA OneChanges ==
  ASSUME TypeOK, NEW h \in Handler, NEW o \in Op, Becomes(h, o)
  PROVE  /\ op' \in [Handler -> Op]
         /\ \A g \in Handler : op'[g] = IF g = h THEN o ELSE op[g]
BY DEF TypeOK, Becomes

-----------------------------------------------------------------------------
(* The four shapes                                                         *)

LEMMA TalkStep ==
  ASSUME IInv, NEW h \in Handler, NEW o \in Op, Becomes(h, o),
         UNCHANGED <<row, queue, jobCurrent, misplaced>>,
         overtaken' \in {overtaken, overtaken \ {h}, overtaken \cup {h}},
         video' \in [Video -> OnCloudflare], leaked' \in BOOLEAN,
         Kept, Sound(o, video'),
         ~misplaced /\ SlotSound /\ h \notin overtaken' => Right(o, row)
  PROVE  IInv'
<1>1. TypeOK /\ RequestsSound
  BY DEF IInv
<1>2. \A g \in Handler : op'[g] = IF g = h THEN o ELSE op[g]
  BY <1>1, OneChanges
<1>3. TypeOK'
  BY <1>1, OneChanges DEF TypeOK, queue
<1>4. \A g \in Handler : op[g].of \in Video \cup {None}
  BY <1>1 DEF TypeOK, Op
<1>5. \A g \in Handler : Sound(op'[g], video')
  <2> SUFFICES ASSUME NEW g \in Handler, g # h PROVE Sound(op'[g], video')
    BY <1>2
  <2>1. Sound(op[g], video)
    BY <1>1, Requests
  <2>2. op[g].of \in Video /\ video[op[g].of] \in Finished
          => video'[op[g].of] \in Finished
    BY DEF Kept
  <2>3. QED
    BY <1>2, <1>4, <2>1, <2>2 DEF Sound
<1>6. RequestsSound'
  BY <1>1, <1>5, Requests DEF queue
<1>7. ASSUME ~misplaced' PROVE SlotSound' /\ WritersSound'
  <2>1. ~misplaced /\ SlotSound /\ WritersSound
    BY <1>7 DEF IInv
  <2>2. SlotSound'
    BY <1>1, <2>1 DEF SlotSound, Empty, Kept, TypeOK, Row, Finished
  <2>3. \A g \in Handler \ overtaken' : Right(op'[g], row')
    <3> SUFFICES ASSUME NEW g \in Handler \ overtaken' PROVE Right(op'[g], row')
      OBVIOUS
    <3>1. CASE g = h
      BY <1>2, <2>1, <3>1
    <3>2. CASE g # h
      <4>1. g \notin overtaken
        BY <3>2
      <4>2. Right(op[g], row)
        BY <2>1, <4>1, Slots DEF WritersSound
      <4>3. QED
        BY <1>2, <3>2, <4>2
    <3>3. QED
      BY <3>1, <3>2
  <2>4. \A g \in Handler \ overtaken' : ReaderSound(g)'
    BY <2>3, Slots
  <2>5. jobCurrent' => Transcoding'
    BY <2>1 DEF WritersSound, Transcoding, Empty
  <2>6. QED
    BY <2>2, <2>4, <2>5 DEF WritersSound
<1>8. QED
  BY <1>3, <1>6, <1>7 DEF IInv

\* Right before it writes, or not; whoever else read the slot is overtaken.
LEMMA WriteStep ==
  ASSUME IInv, NEW h \in Handler, NEW o \in Op, Becomes(h, o), Overtake(h),
         UNCHANGED <<video, queue, leaked>>, row' \in Row,
         o.stage \in {"free", "enqueue"},
         SlotSound /\ Right(op[h], row) => SlotSound' /\ Right(o, row')
  PROVE  IInv'
<1>1. TypeOK /\ RequestsSound
  BY DEF IInv
<1>2. \A g \in Handler : op'[g] = IF g = h THEN o ELSE op[g]
  BY <1>1, OneChanges
<1>3. overtaken' \subseteq Handler /\ jobCurrent' = FALSE /\ misplaced' \in BOOLEAN
  BY <1>1 DEF Overtake, TypeOK
<1>4. TypeOK'
  BY <1>1, <1>3, OneChanges DEF TypeOK, queue
<1>5. Sound(o, video')
  BY DEF Sound
<1>6. RequestsSound'
  BY <1>1, <1>2, <1>3, <1>5, Requests DEF queue
<1>7. ASSUME ~misplaced' PROVE SlotSound' /\ WritersSound'
  <2>1. ~misplaced /\ h \notin overtaken
    BY <1>1, <1>7 DEF Overtake, TypeOK
  <2>2. SlotSound /\ Right(op[h], row)
    BY <2>1, Slots DEF IInv, WritersSound
  <2>3. SlotSound' /\ Right(o, row')
    BY <2>2
  <2>4. ASSUME NEW g \in Handler \ overtaken' PROVE Right(op'[g], row')
    <3>1. CASE g = h
      BY <1>2, <2>3, <3>1
    <3>2. CASE g # h
      <4>1. op'[g].stage = "free"
        BY <1>2, <3>2 DEF Overtake, At
      <4>2. QED
        BY <4>1 DEF Right, Claims
    <3>3. QED
      BY <3>1, <3>2
  <2>5. \A g \in Handler \ overtaken' : ReaderSound(g)'
    BY <2>4, Slots
  <2>6. QED
    BY <1>3, <2>3, <2>5 DEF WritersSound
<1>8. QED
  BY <1>4, <1>6, <1>7 DEF IInv

\* A verdict on the video a request is about, if the row still refers to it: the
\* status changes, and every other reader stays right.
LEMMA MarkStep ==
  ASSUME IInv, NEW h \in Handler, Done(h), NEW verdict \in {"ready", "error"},
         op[h].of \in Video,
         verdict = "ready" => video[op[h].of] \in Finished,
         row' = IF row.uid = op[h].of THEN [row EXCEPT !.status = verdict] ELSE row,
         UNCHANGED <<video, queue, history, leaked>>
  PROVE  IInv'
<1>1. TypeOK /\ RequestsSound
  BY DEF IInv
<1>2. FreeOp \in Op /\ \A g \in Handler : op'[g] = IF g = h THEN FreeOp ELSE op[g]
  BY <1>1, FreeSound, OneChanges DEF Done
<1>3. TypeOK'
  <2>1. op' \in [Handler -> Op]
    BY <1>1, FreeSound, OneChanges DEF Done
  <2>2. row' \in Row
    BY <1>1 DEF TypeOK, Row
  <2>3. QED
    BY <1>1, <2>1, <2>2 DEF TypeOK, queue, history
<1>4. \A g \in Handler : Sound(op'[g], video')
  BY <1>1, <1>2, Requests, FreeSound
<1>5. RequestsSound'
  BY <1>1, <1>4, Requests DEF queue, history
<1>6. ASSUME ~misplaced' PROVE SlotSound' /\ WritersSound'
  <2>1. ~misplaced /\ SlotSound /\ WritersSound
    BY <1>6 DEF IInv, history
  <2>2. CASE row.uid # op[h].of
    <3>1. row' = row
      BY <2>2
    <3>2. SlotSound'
      BY <2>1, <3>1 DEF SlotSound, Empty
    <3>3. \A g \in Handler \ overtaken' : Right(op'[g], row')
      BY <1>2, <2>1, <3>1, Slots, FreeSound DEF WritersSound, history
    <3>4. \A g \in Handler \ overtaken' : ReaderSound(g)'
      BY <3>3, Slots
    <3>5. jobCurrent' => Transcoding'
      BY <2>1, <3>1 DEF WritersSound, Transcoding, Empty, history
    <3>6. QED
      BY <3>2, <3>4, <3>5 DEF WritersSound
  <2>3. CASE row.uid = op[h].of
    <3>1. row.uid \in Video /\ row.uid # None
      BY <2>3, IngestAssumption
    <3>2. /\ row'.uid = row.uid /\ row'.prefix = row.prefix
          /\ row'.provider = row.provider /\ row'.status = verdict
      BY <1>1, <2>3 DEF TypeOK, Row
    <3>3. row.provider = "cloudflare" /\ ~row.prefix
      BY <2>1, <3>1 DEF SlotSound
    <3>4. SlotSound'
      BY <2>3, <3>1, <3>2, <3>3 DEF SlotSound, Empty, Finished
    <3>5. \A g \in Handler \ overtaken' : Right(op'[g], row')
      <4> SUFFICES ASSUME NEW g \in Handler \ overtaken', g # h
                   PROVE Right(op'[g], row')
        BY <1>2, FreeSound
      <4>1. Right(op[g], row)
        BY <2>1, Slots DEF WritersSound, history
      <4>2. QED
        BY <1>2, <3>1, <3>2, <3>3, <4>1 DEF Right
    <3>6. \A g \in Handler \ overtaken' : ReaderSound(g)'
      BY <3>5, Slots
    <3>7. ~jobCurrent'
      BY <2>1, <3>1 DEF WritersSound, Transcoding, Empty, history
    <3>8. QED
      BY <3>4, <3>6, <3>7 DEF WritersSound
  <2>4. QED
    BY <2>2, <2>3
<1>7. QED
  BY <1>3, <1>5, <1>6 DEF IInv

\* Nobody who has read the slot counts as right once a transcode has written it.
LEMMA JobStep ==
  ASSUME IInv, NEW written, JobWrites(written), written \in Row,
         failing' \in BOOLEAN, failing' = FALSE \/ failing' = failing,
         jobs = 1 => failing' = FALSE,
         Transcoding /\ row' = written => SlotSound'
  PROVE  IInv'
<1>1. TypeOK /\ RequestsSound
  BY DEF IInv
<1>2. jobs \in Nat /\ MaxJobs \in Nat /\ jobs \in 0..MaxJobs
  BY <1>1, IngestAssumption DEF TypeOK
<1>3. jobs' \in 0..MaxJobs /\ (jobs' = 0 => jobs = 1)
  BY <1>2 DEF JobWrites
<1>4. overtaken' \subseteq Handler /\ jobCurrent' = FALSE /\ misplaced' \in BOOLEAN
  BY DEF JobWrites, TypeOK
<1>5. TypeOK'
  BY <1>1, <1>3, <1>4 DEF TypeOK, JobWrites
<1>6. RequestsSound'
  <2>1. \A g \in Handler : Sound(op'[g], video')
    BY <1>1, Requests DEF JobWrites
  <2>2. jobs' = 0 => ~failing'
    BY <1>3
  <2>3. QED
    BY <1>4, <2>1, <2>2, Requests
<1>7. ASSUME ~misplaced' PROVE SlotSound' /\ WritersSound'
  <2>1. ~misplaced /\ jobCurrent
    BY <1>1, <1>7 DEF JobWrites, TypeOK
  <2>2. Transcoding
    BY <2>1 DEF IInv, WritersSound
  <2>3. SlotSound'
    BY <2>2 DEF JobWrites
  <2>4. ASSUME NEW g \in Handler \ overtaken' PROVE Right(op'[g], row')
    <3>1. op'[g].stage = "free"
      BY DEF JobWrites, At
    <3>2. QED
      BY <3>1 DEF Right, Claims
  <2>5. \A g \in Handler \ overtaken' : ReaderSound(g)'
    BY <2>4, Slots
  <2>6. QED
    BY <1>4, <2>3, <2>5 DEF WritersSound
<1>8. QED
  BY <1>5, <1>6, <1>7 DEF IInv

\* Cloudflare by itself.
LEMMA VideoStep ==
  ASSUME IInv, UNCHANGED <<row, op, queue, history, leaked>>,
         video' \in [Video -> OnCloudflare], Kept
  PROVE  IInv'
<1>1. TypeOK /\ RequestsSound
  BY DEF IInv
<1>2. TypeOK'
  BY <1>1 DEF TypeOK, queue, history
<1>3. ASSUME NEW g \in Handler PROVE Sound(op'[g], video')
  <2>1. op[g].of \in Video \cup {None}
    BY <1>1 DEF TypeOK, Op
  <2>2. Sound(op[g], video)
    BY <1>1, Requests
  <2>3. op[g].of \in Video /\ video[op[g].of] \in Finished
          => video'[op[g].of] \in Finished
    BY DEF Kept
  <2>4. QED
    BY <2>1, <2>2, <2>3 DEF Sound
<1>4. RequestsSound'
  BY <1>1, <1>3, Requests DEF queue, history
<1>5. ASSUME ~misplaced' PROVE SlotSound' /\ WritersSound'
  <2>1. ~misplaced /\ SlotSound /\ WritersSound
    BY <1>5 DEF IInv, history
  <2>2. SlotSound'
    BY <1>1, <2>1 DEF SlotSound, Empty, Kept, TypeOK, Row, Finished
  <2>3. \A g \in Handler \ overtaken' : Right(op'[g], row')
    BY <2>1, Slots DEF WritersSound, history
  <2>4. \A g \in Handler \ overtaken' : ReaderSound(g)'
    BY <2>3, Slots
  <2>5. jobCurrent' => Transcoding'
    BY <2>1 DEF WritersSound, Transcoding, Empty, history
  <2>6. QED
    BY <2>2, <2>4, <2>5 DEF WritersSound
<1>6. QED
  BY <1>2, <1>4, <1>5 DEF IInv

-----------------------------------------------------------------------------
(* Each action                                                             *)

\* A video that is deleted after it was ready is still known to have been.
LEMMA Deleted ==
  ASSUME TypeOK, NEW v \in Video \cup {None}, Delete(v)
  PROVE  /\ video' \in [Video -> OnCloudflare]
         /\ leaked' \in BOOLEAN
         /\ Kept
BY DEF Delete, Gone, TypeOK, OnCloudflare, Kept, Finished

\* A new video takes the place of none the row or a request refers to.
LEMMA Created ==
  ASSUME TypeOK, NEW v \in Fresh, NEW s \in OnCloudflare,
         video' = [video EXCEPT ![v] = s]
  PROVE  /\ v \in Video /\ v # None
         /\ video' \in [Video -> OnCloudflare]
         /\ Kept
<1>1. v \in Video /\ v # row.uid /\ \A g \in Handler : v # op[g].of
  BY DEF Fresh
<1>2. video' \in [Video -> OnCloudflare]
  BY <1>1 DEF TypeOK
<1>3. \A w \in Video : w # v => video'[w] = video[w]
  BY DEF TypeOK
<1>4. Kept
  BY <1>1, <1>3 DEF Kept
<1>5. QED
  BY <1>1, <1>2, <1>4, IngestAssumption

\* The records a request holds.
LEMMA Records ==
  /\ \A stage \in Stage, v \in Video \cup {None}, list \in SUBSET Video, c \in BOOLEAN :
        [stage |-> stage, of |-> v, list |-> list, creates |-> c] \in Op
  /\ \A v \in Video : v # None
BY IngestAssumption DEF Op

\* Nothing but what a request holds changes.
LEMMA QuietStep ==
  ASSUME IInv, NEW h \in Handler, NEW o \in Op, Becomes(h, o),
         UNCHANGED <<row, video, queue, jobCurrent, misplaced, leaked>>,
         overtaken' \in {overtaken, overtaken \ {h}, overtaken \cup {h}},
         Sound(o, video),
         ~misplaced /\ SlotSound /\ h \notin overtaken' => Right(o, row)
  PROVE  IInv'
<1>1. video' \in [Video -> OnCloudflare] /\ leaked' \in BOOLEAN
  BY DEF IInv, TypeOK
<1>2. Kept
  BY DEF Kept
<1>3. QED
  BY <1>1, <1>2, TalkStep

\* Nothing is uploaded, nobody is served.
LEMMA Initially == Init => IInv
<1> SUFFICES ASSUME Init PROVE IInv
  OBVIOUS
<1>1. row \in Row /\ 0 \in 0..MaxJobs
  BY IngestAssumption DEF Init, Row
<1>2. op \in [Handler -> Op]
  BY FreeSound DEF Init
<1>3. TypeOK
  BY <1>1, <1>2 DEF Init, TypeOK, OnCloudflare
<1>4. RequestsSound
  BY FreeSound, Requests DEF Init
<1>5. SlotSound
  BY DEF Init, SlotSound, Empty
<1>6. WritersSound
  BY FreeSound, Slots DEF Init, WritersSound
<1>7. QED
  BY <1>3, <1>4, <1>5, <1>6 DEF IInv

\* createForTitle gives the title an empty slot.
LEMMA LayOutStep == IInv /\ LayOut => IInv'
<1> SUFFICES ASSUME IInv, LayOut PROVE IInv'
  OBVIOUS
<1>1. TypeOK /\ RequestsSound
  BY DEF IInv
<1>2. /\ row' \in Row /\ row'.status = "pending" /\ row.status = "absent"
      /\ row'.uid = row.uid /\ row'.prefix = row.prefix /\ row'.provider = row.provider
  BY <1>1 DEF LayOut, TypeOK, Row
<1>3. TypeOK'
  BY <1>1, <1>2 DEF TypeOK, LayOut, queue, history
<1>4. RequestsSound'
  BY <1>1, Requests DEF LayOut, queue, history
<1>5. ASSUME ~misplaced' PROVE SlotSound' /\ WritersSound'
  <2>1. SlotSound /\ WritersSound
    BY <1>5 DEF IInv, LayOut, history
  <2>2. SlotSound'
    BY <1>2, <2>1 DEF SlotSound, Empty
  <2>3. ASSUME NEW g \in Handler \ overtaken' PROVE Right(op'[g], row')
    <3>1. Right(op[g], row)
      BY <2>1, Slots DEF WritersSound, LayOut, history
    <3>2. QED
      BY <1>2, <3>1 DEF LayOut, Right
  <2>4. \A g \in Handler \ overtaken' : ReaderSound(g)'
    BY <2>3, Slots
  <2>5. ~jobCurrent'
    BY <1>2, <2>1 DEF WritersSound, Transcoding, LayOut, history
  <2>6. QED
    BY <2>2, <2>4, <2>5 DEF WritersSound
<1>6. QED
  BY <1>3, <1>4, <1>5 DEF IInv

\* A restart forgets requests and jobs; what it reclaims holds no ladder.
LEMMA RestartStep == IInv /\ Restart => IInv'
<1> SUFFICES ASSUME IInv, Restart PROVE IInv'
  OBVIOUS
<1>1. TypeOK /\ RequestsSound
  BY DEF IInv
<1>2. row' \in Row
  BY <1>1 DEF Restart, TypeOK, Row
<1>3. \A g \in Handler : op'[g] = FreeOp
  BY DEF Restart
<1>4. jobs' = 0 /\ 0 \in 0..MaxJobs /\ jobCurrent' = FALSE /\ failing' = FALSE
  BY IngestAssumption DEF Restart
<1>5. leaked' \in BOOLEAN
  BY <1>1 DEF Restart, TypeOK
<1>6. op' \in [Handler -> Op]
  BY FreeSound DEF Restart
<1>7. TypeOK'
  BY <1>1, <1>2, <1>4, <1>5, <1>6 DEF Restart, TypeOK
<1>8. RequestsSound'
  BY <1>3, <1>4, FreeSound, Requests
<1>9. ASSUME ~misplaced' PROVE SlotSound' /\ WritersSound'
  <2>1. SlotSound
    BY <1>9 DEF IInv, Restart
  <2>2. SlotSound'
    <3>1. CASE row.provider = "r2_hls" /\ row.status = "uploading"
      <4>1. /\ row'.status = "error" /\ row'.uid = row.uid /\ row'.prefix = row.prefix
            /\ row'.provider = row.provider
        BY <1>1, <3>1 DEF Restart, TypeOK, Row
      <4>2. QED
        BY <2>1, <3>1, <4>1 DEF SlotSound, Empty
    <3>2. CASE ~(row.provider = "r2_hls" /\ row.status = "uploading")
      <4>1. row' = row /\ video' = video
        BY <3>2 DEF Restart
      <4>2. QED
        BY <2>1, <4>1 DEF SlotSound, Empty
    <3>3. QED
      BY <3>1, <3>2
  <2>3. \A g \in Handler : ReaderSound(g)'
    BY <1>3, FreeSound, Slots
  <2>4. QED
    BY <1>4, <2>2, <2>3 DEF WritersSound
<1>10. QED
  BY <1>7, <1>8, <1>9 DEF IInv

\* A job knows about the slot what the request that queued it did.
LEMMA EnqueueStep == ASSUME IInv, NEW h \in Handler, StartTranscode(h) PROVE IInv'
<1>1. TypeOK /\ RequestsSound
  BY DEF IInv
<1>2. \A g \in Handler : op'[g] = IF g = h THEN FreeOp ELSE op[g]
  BY <1>1, FreeSound, OneChanges DEF StartTranscode, Done
<1>3. op' \in [Handler -> Op]
  BY <1>1, FreeSound, OneChanges DEF StartTranscode, Done
<1>4. jobs' \in 0..MaxJobs /\ jobs' # 0
  BY <1>1, IngestAssumption DEF StartTranscode, TypeOK
<1>5. TypeOK'
  BY <1>1, <1>3, <1>4 DEF StartTranscode, TypeOK
<1>6. \A g \in Handler : Sound(op'[g], video')
  BY <1>1, <1>2, Requests, FreeSound DEF StartTranscode
<1>7. RequestsSound'
  BY <1>4, <1>6, Requests
<1>8. ASSUME ~misplaced' PROVE SlotSound' /\ WritersSound'
  <2>1. SlotSound /\ WritersSound
    BY <1>8 DEF IInv, StartTranscode
  <2>2. row' = row /\ video' = video /\ overtaken' = overtaken
    BY DEF StartTranscode
  <2>3. SlotSound'
    BY <2>1, <2>2 DEF SlotSound, Empty
  <2>4. ASSUME NEW g \in Handler \ overtaken' PROVE Right(op'[g], row')
    <3>1. Right(op[g], row)
      BY <2>1, <2>2, Slots DEF WritersSound
    <3>2. QED
      BY <1>2, <2>2, <3>1, FreeSound
  <2>5. \A g \in Handler \ overtaken' : ReaderSound(g)'
    BY <2>4, Slots
  <2>6. jobCurrent' => Transcoding'
    <3>1. h \notin overtaken => Transcoding
      BY <2>1 DEF WritersSound, ReaderSound, StartTranscode
    <3>2. Transcoding => Transcoding'
      BY <2>2 DEF Transcoding, Empty
    <3>3. QED
      BY <3>1, <3>2 DEF StartTranscode
  <2>7. QED
    BY <2>3, <2>5, <2>6 DEF WritersSound
<1>9. QED
  BY <1>5, <1>7, <1>8 DEF IInv

\* A transcode succeeds, throws, or records that it failed.
LEMMA TranscoderStep == IInv /\ Transcoder => IInv'
<1> SUFFICES ASSUME IInv, Transcoder PROVE IInv'
  OBVIOUS
<1>1. TypeOK /\ RequestsSound
  BY DEF IInv
<1>2. CASE TranscodeSucceeds
  <2> DEFINE written == [row EXCEPT !.status = "ready", !.prefix = TRUE]
  <2>1. written \in Row /\ written.status = "ready" /\ written.prefix = TRUE
        /\ written.uid = row.uid /\ written.provider = row.provider
    BY <1>1 DEF TypeOK, Row
  <2>2. ASSUME Transcoding, row' = written PROVE SlotSound'
    BY <2>1, <2>2 DEF SlotSound, Transcoding, Empty
  <2>3. JobWrites(written) /\ ~failing /\ failing' = failing
    BY <1>2 DEF TranscodeSucceeds
  <2>4. failing' \in BOOLEAN /\ failing' = FALSE
    BY <1>1, <2>3 DEF TypeOK
  <2> HIDE DEF written
  <2>5. QED
    BY <2>1, <2>2, <2>3, <2>4, JobStep
<1>3. CASE TranscodeFails
  <2> DEFINE written == [row EXCEPT !.status = "error"]
  <2>1. written \in Row /\ written.status = "error" /\ written.prefix = row.prefix
        /\ written.uid = row.uid /\ written.provider = row.provider
    BY <1>1 DEF TypeOK, Row
  <2>2. ASSUME Transcoding, row' = written PROVE SlotSound'
    BY <2>1, <2>2 DEF SlotSound, Transcoding, Empty
  <2>3. JobWrites(written) /\ failing' = FALSE
    BY <1>3 DEF TranscodeFails
  <2> HIDE DEF written
  <2>4. QED
    BY <2>1, <2>2, <2>3, JobStep
<1>4. CASE TranscodeThrows
  <2>1. /\ UNCHANGED <<row, video, op, jobs, overtaken, jobCurrent, misplaced, leaked>>
        /\ failing' = TRUE /\ jobs > 0
    BY <1>4 DEF TranscodeThrows, history
  <2>2. TypeOK'
    BY <1>1, <2>1 DEF TypeOK
  <2>3. jobs' # 0
    BY <1>1, <2>1, IngestAssumption DEF TypeOK
  <2>4. RequestsSound'
    BY <1>1, <2>1, <2>3, Requests
  <2>5. ASSUME ~misplaced' PROVE SlotSound' /\ WritersSound'
    BY <2>1, <2>5, Slots
       DEF IInv, SlotSound, WritersSound, Transcoding, Empty
  <2>6. QED
    BY <2>2, <2>4, <2>5 DEF IInv
<1>5. QED
  BY <1>2, <1>3, <1>4 DEF Transcoder

\* Cloudflare finishes or gives up only what was not finished.
LEMMA CloudflareStep == ASSUME IInv, NEW v \in Video, Cloudflare(v) PROVE IInv'
<1>1. TypeOK
  BY DEF IInv
<1>2. PICK s \in OnCloudflare :
        video[v] \notin Finished /\ video' = [video EXCEPT ![v] = s]
  BY DEF Cloudflare, BytesArrive, UploadDies, Encoded, OnCloudflare, Finished
<1>3. video' \in [Video -> OnCloudflare]
  BY <1>1, <1>2 DEF TypeOK
<1>4. Kept
  BY <1>1, <1>2 DEF Kept, TypeOK
<1>5. UNCHANGED <<row, op, queue, history, leaked>>
  BY DEF Cloudflare, BytesArrive, UploadDies, Encoded
<1>6. QED
  BY <1>3, <1>4, <1>5, VideoStep

\* What the invariant says of one request.
LEMMA OneRequest ==
  ASSUME IInv, NEW h \in Handler
  PROVE  /\ TypeOK /\ op[h] \in Op /\ op[h].of \in Video \cup {None}
         /\ op[h].list \subseteq Video /\ row.uid \in Video \cup {None}
         /\ Sound(op[h], video)
         /\ (~misplaced => SlotSound)
         /\ (~misplaced /\ h \notin overtaken => Right(op[h], row))
<1>1. TypeOK /\ RequestsSound
  BY DEF IInv
<1>2. op[h] \in Op /\ row \in Row
  BY <1>1 DEF TypeOK
<1>3. Sound(op[h], video)
  BY <1>1, Requests
<1>4. ~misplaced => SlotSound /\ WritersSound
  BY DEF IInv
<1>5. ~misplaced /\ h \notin overtaken => Right(op[h], row)
  BY <1>4, Slots DEF WritersSound
<1>6. QED
  BY <1>1, <1>2, <1>3, <1>4, <1>5 DEF Op, Row

\* The steps that only read: the row, or what Cloudflare says.
LEMMA ReadSteps ==
  ASSUME IInv, NEW h \in Handler,
         \/ \E kind \in Claims : ClaimSlot(h, kind)
         \/ AskToUpload(h) \/ AskToCancel(h)
         \/ ReadStatus(h) \/ CloudflareAnswers(h) \/ CloudflareSilent(h) \/ Notify(h)
         \/ ListVideos(h) \/ ReadKnown(h) \/ SweepDone(h)
  PROVE  IInv'
<1> USE OneRequest
<1>1. ASSUME NEW kind \in Claims, ClaimSlot(h, kind) PROVE IInv'
  <2> DEFINE o == [stage |-> kind, of |-> None, list |-> {},
                   creates |-> row.status = "absent"]
  <2>1. kind \in Stage /\ o \in Op
    BY Records DEF Stage, Claims
  <2>2. Sound(o, video)
    BY DEF Sound, Claims
  <2>3. Right(o, row)
    BY <1>1 DEF Right, Claims, ClaimSlot
  <2>4. Becomes(h, o)
    BY <1>1 DEF ClaimSlot
  <2> HIDE DEF o
  <2>5. QED
    BY <1>1, <2>1, <2>2, <2>3, <2>4, QuietStep DEF ClaimSlot
<1>2. ASSUME NEW v \in Video \cup {None}, NEW stage \in Stage, Is(h, stage, v),
             UNCHANGED <<row, video, queue, jobCurrent, misplaced, leaked>>,
             overtaken' \in {overtaken, overtaken \ {h}, overtaken \cup {h}},
             Sound([stage |-> stage, of |-> v, list |-> {}, creates |-> FALSE], video),
             ~misplaced /\ SlotSound /\ h \notin overtaken'
               => Right([stage |-> stage, of |-> v, list |-> {}, creates |-> FALSE], row)
      PROVE IInv'
  BY <1>2, Records, QuietStep DEF Is
<1>3. ASSUME NEW list \in SUBSET Video, NEW stage \in {"listed", "known", "sweep"},
             Holds(h, stage, list),
             UNCHANGED <<row, video, queue, history, leaked>>
      PROVE IInv'
  <2> DEFINE o == [stage |-> stage, of |-> None, list |-> list, creates |-> FALSE]
  <2>1. o \in Op
    BY Records DEF Stage
  <2>2. Sound(o, video) /\ Right(o, row)
    BY DEF Sound, Right, Claims
  <2>3. Becomes(h, o)
    BY <1>3 DEF Holds
  <2> HIDE DEF o
  <2>4. QED
    BY <1>3, <2>1, <2>2, <2>3, QuietStep DEF history
<1>4. ASSUME Done(h), UNCHANGED <<row, video, queue, history, leaked>> PROVE IInv'
  BY <1>4, FreeSound, QuietStep DEF Done, history
<1>5. CASE AskToUpload(h)
  <2> DEFINE v == IF row.status = "ready" THEN None ELSE row.uid
  <2> DEFINE o == [stage |-> "replace", of |-> v, list |-> {}, creates |-> FALSE]
  <2>1. "replace" \in Stage /\ v \in Video \cup {None}
    BY DEF Stage
  <2>2. Is(h, "replace", v) /\ UNCHANGED <<row, video, queue, jobCurrent, misplaced, leaked>>
    BY <1>5 DEF AskToUpload
  <2>6. overtaken' \in {overtaken, overtaken \ {h}, overtaken \cup {h}}
    BY <1>5 DEF AskToUpload
  <2>3. Sound(o, video)
    BY DEF Sound
  <2>7. h \notin overtaken' => row.provider = "cloudflare"
    BY <1>5 DEF AskToUpload
  <2>4. h \notin overtaken' => Right(o, row)
    BY <1>5, <2>7 DEF Right, Claims, AskToUpload
  <2> HIDE DEF v
  <2>5. QED
    BY <1>2, <2>1, <2>2, <2>3, <2>4, <2>6
<1>6. CASE AskToCancel(h)
  <2> DEFINE o == [stage |-> "cancel", of |-> row.uid, list |-> {}, creates |-> FALSE]
  <2>1. "cancel" \in Stage
    BY DEF Stage
  <2>2. Is(h, "cancel", row.uid) /\ overtaken' = overtaken \ {h}
        /\ UNCHANGED <<row, video, queue, jobCurrent, misplaced, leaked>>
    BY <1>6 DEF AskToCancel, Begin
  <2>3. Sound(o, video) /\ Right(o, row)
    BY <1>6 DEF Sound, Right, Claims, AskToCancel
  <2>4. QED
    BY <1>2, <2>1, <2>2, <2>3
<1>7. CASE ReadStatus(h)
  <2> DEFINE o == [stage |-> "checking", of |-> row.uid, list |-> {}, creates |-> FALSE]
  <2>1. "checking" \in Stage
    BY DEF Stage
  <2>2. Is(h, "checking", row.uid) /\ overtaken' = overtaken \ {h}
        /\ UNCHANGED <<row, video, queue, jobCurrent, misplaced, leaked>>
    BY <1>7 DEF ReadStatus, Begin
  <2>3. Sound(o, video)
    BY <1>7 DEF Sound, ReadStatus
  <2>4. SlotSound => Right(o, row)
    BY <1>7 DEF Right, Claims, ReadStatus, SlotSound
  <2>5. QED
    BY <1>2, <2>1, <2>2, <2>3, <2>4
<1>8. CASE CloudflareAnswers(h)
  <2> DEFINE v == op[h].of
  <2>1. /\ UNCHANGED <<row, video, queue, history, leaked>>
        /\ UNCHANGED <<row, video, queue, jobCurrent, misplaced, leaked>>
        /\ overtaken' = overtaken
        /\ op[h].stage = "checking" /\ v \in Video \cup {None} /\ v # None
    BY <1>8 DEF CloudflareAnswers, history, At, Sound
  <2>2. ASSUME video[v] = "ready", Is(h, "finishing", v) PROVE IInv'
    <3>1. Sound([stage |-> "finishing", of |-> v, list |-> {}, creates |-> FALSE], video)
      BY <2>1, <2>2 DEF Sound, Finished
    <3>2. Right([stage |-> "finishing", of |-> v, list |-> {}, creates |-> FALSE], row)
      BY DEF Right, Claims
    <3>3. "finishing" \in Stage
      BY DEF Stage
    <3>4. QED
      BY <1>2, <2>1, <2>2, <3>1, <3>2, <3>3
  <2>3. ASSUME Is(h, "failing", v) PROVE IInv'
    <3>1. Sound([stage |-> "failing", of |-> v, list |-> {}, creates |-> FALSE], video)
      BY <2>1 DEF Sound
    <3>2. Right([stage |-> "failing", of |-> v, list |-> {}, creates |-> FALSE], row)
      BY DEF Right, Claims
    <3>3. "failing" \in Stage
      BY DEF Stage
    <3>4. QED
      BY <1>2, <2>1, <2>3, <3>1, <3>2, <3>3
  <2>4. ASSUME Is(h, "resetting", v) PROVE IInv'
    <3>1. Sound([stage |-> "resetting", of |-> v, list |-> {}, creates |-> FALSE], video)
      BY <2>1 DEF Sound
    <3>2. ~misplaced /\ h \notin overtaken =>
            Right([stage |-> "resetting", of |-> v, list |-> {}, creates |-> FALSE], row)
      BY <2>1 DEF Right, Claims
    <3>3. "resetting" \in Stage
      BY DEF Stage
    <3>4. QED
      BY <1>2, <2>1, <2>4, <3>1, <3>2, <3>3
  <2>5. QED
    BY <1>4, <1>8, <2>1, <2>2, <2>3, <2>4 DEF CloudflareAnswers
<1>9. CASE Notify(h)
  <2>1. /\ UNCHANGED <<row, video, queue, jobCurrent, misplaced, leaked>>
        /\ overtaken' = overtaken \ {h}
    BY <1>9 DEF Notify, Begin
  <2>2. PICK v \in Video : \/ video[v] \in Finished /\ Is(h, "finishing", v)
                           \/ Is(h, "failing", v)
    BY <1>9 DEF Notify, Begin, Finished
  <2>3. v # None
    BY Records
  <2>4. ASSUME video[v] \in Finished, Is(h, "finishing", v) PROVE IInv'
    <3>1. Sound([stage |-> "finishing", of |-> v, list |-> {}, creates |-> FALSE], video)
      BY <2>3, <2>4 DEF Sound
    <3>2. Right([stage |-> "finishing", of |-> v, list |-> {}, creates |-> FALSE], row)
      BY DEF Right, Claims
    <3>3. "finishing" \in Stage
      BY DEF Stage
    <3>4. QED
      BY <1>2, <2>1, <2>4, <3>1, <3>2, <3>3
  <2>5. ASSUME Is(h, "failing", v) PROVE IInv'
    <3>1. Sound([stage |-> "failing", of |-> v, list |-> {}, creates |-> FALSE], video)
      BY <2>3 DEF Sound
    <3>2. Right([stage |-> "failing", of |-> v, list |-> {}, creates |-> FALSE], row)
      BY DEF Right, Claims
    <3>3. "failing" \in Stage
      BY DEF Stage
    <3>4. QED
      BY <1>2, <2>1, <2>5, <3>1, <3>2, <3>3
  <2>6. QED
    BY <2>2, <2>4, <2>5
<1>10. CASE ListVideos(h)
  <2> DEFINE present == {v \in Video : video[v] \notin {"none", "lost"}}
  <2>1. present \in SUBSET Video /\ present \ op[h].list \in SUBSET Video
    OBVIOUS
  <2>2. /\ Holds(h, "listed", present) \/ Holds(h, "sweep", present \ op[h].list)
        /\ UNCHANGED <<row, video, queue, history, leaked>>
    BY <1>10 DEF ListVideos
  <2> HIDE DEF present
  <2>3. QED
    BY <1>3, <2>1, <2>2
<1>11. CASE ReadKnown(h)
  <2> DEFINE known == {row.uid} \ {None}
  <2>1. known \in SUBSET Video /\ op[h].list \ known \in SUBSET Video
    OBVIOUS
  <2>2. /\ Holds(h, "known", known) \/ Holds(h, "sweep", op[h].list \ known)
        /\ UNCHANGED <<row, video, queue, history, leaked>>
    BY <1>11 DEF ReadKnown
  <2> HIDE DEF known
  <2>3. QED
    BY <1>3, <2>1, <2>2
<1>12. CASE CloudflareSilent(h) \/ SweepDone(h)
  BY <1>4, <1>12 DEF CloudflareSilent, SweepDone
<1>13. QED
  BY <1>1, <1>5, <1>6, <1>7, <1>8, <1>9, <1>10, <1>11, <1>12

\* The steps that make a video on Cloudflare, or delete one.
LEMMA TalkSteps ==
  ASSUME IInv, NEW h \in Handler,
         \/ CopyFromUrl(h) \/ CreateUpload(h) \/ WriteRefused(h)
         \/ Supersede(h) \/ CancelDeletes(h) \/ SyncDeletes(h) \/ SweepOne(h)
  PROVE  IInv'
<1> USE OneRequest
<1>1. ASSUME NEW o \in Op, Becomes(h, o), UNCHANGED <<row, queue, history>>,
             video' \in [Video -> OnCloudflare], leaked' \in BOOLEAN, Kept,
             Sound(o, video'),
             ~misplaced /\ h \notin overtaken => Right(o, row)
      PROVE IInv'
  BY <1>1, TalkStep DEF history
<1>2. ASSUME NEW v \in Video \cup {None}, Delete(v), NEW o \in Op, Becomes(h, o),
             UNCHANGED <<row, queue, history>>,
             o.stage \in {"mint", "clear", "emptying", "sweep"},
             ~misplaced /\ h \notin overtaken => Right(o, row)
      PROVE IInv'
  <2>1. Sound(o, video')
    BY <1>2 DEF Sound
  <2>2. QED
    BY <1>1, <1>2, <2>1, Deleted
<1>3. ASSUME UNCHANGED <<row, video, queue, history>>, leaked' \in BOOLEAN, Done(h)
      PROVE IInv'
  <2>1. Kept /\ video' \in [Video -> OnCloudflare]
    BY <1>3 DEF Kept, TypeOK
  <2>2. QED
    BY <1>1, <1>3, <2>1, FreeSound DEF Done
<1>4. leaked \in BOOLEAN
  BY DEF TypeOK
<1>5. CASE CopyFromUrl(h)
  <2>1. UNCHANGED <<row, queue, history, leaked>> /\ op[h].stage = "import"
    BY <1>5 DEF CopyFromUrl, At
  <2>2. ASSUME NEW v \in Fresh, video' = [video EXCEPT ![v] = "encoding"],
               Becomes(h, [stage |-> "copied", of |-> v, list |-> {},
                           creates |-> op[h].creates])
        PROVE IInv'
    <3> DEFINE o == [stage |-> "copied", of |-> v, list |-> {}, creates |-> op[h].creates]
    <3>1. v \in Video /\ v # None /\ Kept /\ video' \in [Video -> OnCloudflare]
      BY <2>2, Created DEF OnCloudflare
    <3>2. o \in Op
      BY <3>1, Records DEF Stage, Op
    <3>3. Sound(o, video')
      BY <3>1 DEF Sound
    <3>4. ~misplaced /\ h \notin overtaken => Right(o, row)
      BY <2>1 DEF Right, Claims
    <3>5. Becomes(h, o)
      BY <2>2
    <3> HIDE DEF o
    <3>6. QED
      BY <1>1, <1>4, <2>1, <3>1, <3>2, <3>3, <3>4, <3>5
  <2>3. QED
    BY <1>3, <1>4, <1>5, <2>1, <2>2 DEF CopyFromUrl
<1>6. CASE CreateUpload(h)
  <2>1. UNCHANGED <<row, queue, history, leaked>> /\ op[h].stage = "mint"
    BY <1>6 DEF CreateUpload, At
  <2>2. ASSUME NEW v \in Fresh, video' = [video EXCEPT ![v] = "waiting"],
               Is(h, "linked", v)
        PROVE IInv'
    <3> DEFINE o == [stage |-> "linked", of |-> v, list |-> {}, creates |-> FALSE]
    <3>1. v \in Video /\ v # None /\ Kept /\ video' \in [Video -> OnCloudflare]
      BY <2>2, Created DEF OnCloudflare
    <3>2. o \in Op
      BY <3>1, Records DEF Stage
    <3>3. Sound(o, video')
      BY <3>1 DEF Sound
    <3>4. ~misplaced /\ h \notin overtaken => Right(o, row)
      BY <2>1 DEF Right, Claims
    <3>5. Becomes(h, o)
      BY <2>2 DEF Is
    <3> HIDE DEF o
    <3>6. QED
      BY <1>1, <1>4, <2>1, <3>1, <3>2, <3>3, <3>4, <3>5
  <2>3. QED
    BY <1>3, <1>4, <1>6, <2>1, <2>2 DEF CreateUpload
<1>7. CASE WriteRefused(h)
  <2>1. UNCHANGED <<row, video, queue, history>> /\ Done(h) /\ leaked' \in BOOLEAN
    BY <1>4, <1>7 DEF WriteRefused
  <2>2. QED
    BY <1>3, <2>1
<1>8. ASSUME NEW before \in Stage, NEW stage \in {"mint", "clear", "emptying"},
             op[h].stage = before, Delete(op[h].of), Is(h, stage, None),
             UNCHANGED <<row, queue, history>>,
             <<before, stage>> \in {<<"replace", "mint">>, <<"cancel", "clear">>,
                                    <<"resetting", "emptying">>}
      PROVE IInv'
  <2> DEFINE o == [stage |-> stage, of |-> None, list |-> {}, creates |-> FALSE]
  <2>1. o \in Op
    BY Records DEF Stage
  <2>2. ~misplaced /\ h \notin overtaken => Right(o, row)
    BY <1>8 DEF Right, Claims
  <2>3. Becomes(h, o) /\ o.stage \in {"mint", "clear", "emptying", "sweep"}
    BY <1>8 DEF Is
  <2> HIDE DEF o
  <2>4. QED
    BY <1>2, <1>8, <2>1, <2>2, <2>3
<1>9. CASE Supersede(h)
  BY <1>8, <1>9 DEF Supersede, At, Stage
<1>10. CASE CancelDeletes(h)
  BY <1>8, <1>10 DEF CancelDeletes, At, Stage
<1>11. CASE SyncDeletes(h)
  BY <1>8, <1>11 DEF SyncDeletes, At, Stage
<1>12. CASE SweepOne(h)
  <2>1. PICK v \in op[h].list : Delete(v) /\ Holds(h, "sweep", op[h].list \ {v})
    BY <1>12 DEF SweepOne
  <2> DEFINE o == [stage |-> "sweep", of |-> None, list |-> op[h].list \ {v},
                   creates |-> FALSE]
  <2>2. o \in Op /\ v \in Video
    BY Records DEF Stage
  <2>3. Right(o, row)
    BY DEF Right, Claims
  <2>4. Becomes(h, o) /\ o.stage = "sweep"
    BY <2>1 DEF Holds
  <2>5. UNCHANGED <<row, queue, history>>
    BY <1>12 DEF SweepOne
  <2> HIDE DEF o
  <2>6. QED
    BY <1>2, <2>1, <2>2, <2>3, <2>4, <2>5
<1>13. QED
  BY <1>5, <1>6, <1>7, <1>9, <1>10, <1>11, <1>12

\* The steps that write the slot by episode id.
LEMMA WriteSteps ==
  ASSUME IInv, NEW h \in Handler,
         WriteSlot(h) \/ LinkUpload(h) \/ ClearSlot(h) \/ EmptySlot(h)
  PROVE  IInv'
<1> USE OneRequest
<1>1. row \in Row /\ row.prefix \in BOOLEAN
  BY DEF TypeOK, Row
<1>2. Overtake(h) /\ UNCHANGED <<video, queue, leaked>>
  BY DEF WriteSlot, LinkUpload, ClearSlot, EmptySlot
<1>3. ASSUME Done(h), row' \in Row, SlotSound /\ Right(op[h], row) => SlotSound'
      PROVE IInv'
  <2>1. FreeOp.stage = "free"
    BY DEF FreeOp
  <2>2. SlotSound /\ Right(op[h], row) => SlotSound' /\ Right(FreeOp, row')
    BY <1>3, FreeSound
  <2>3. QED
    BY <1>2, <1>3, <2>1, <2>2, FreeSound, WriteStep DEF Done
<1>4. CASE WriteSlot(h)
  <2>1. CASE op[h].stage = "transcode"
    <3> DEFINE o == [stage |-> "enqueue", of |-> None, list |-> {}, creates |-> FALSE]
    <3>1. o \in Op /\ o.stage \in {"free", "enqueue"}
      BY Records DEF Stage
    <3>2. Becomes(h, o)
      BY <1>4, <2>1 DEF WriteSlot, At, Is
    <3>3. row' = [row EXCEPT !.provider = "r2_hls", !.status = "uploading"]
      BY <1>4, <2>1 DEF WriteSlot, Written, At
    <3>4. /\ row' \in Row /\ row'.provider = "r2_hls" /\ row'.status = "uploading"
          /\ row'.uid = row.uid /\ row'.prefix = row.prefix
      BY <1>1, <3>3 DEF Row
    <3>5. SlotSound /\ Right(op[h], row) => SlotSound' /\ Right(o, row')
      BY <2>1, <3>4 DEF SlotSound, Empty, Right, Claims
    <3> HIDE DEF o
    <3>6. QED
      BY <1>2, <3>1, <3>2, <3>4, <3>5, WriteStep
  <2>2. CASE op[h].stage = "copied"
    <3>1. row' = [row EXCEPT !.provider = "cloudflare", !.status = "uploading",
                             !.uid = op[h].of]
      BY <1>4, <2>2 DEF WriteSlot, Written, At
    <3>2. /\ row' \in Row /\ row'.provider = "cloudflare" /\ row'.status = "uploading"
          /\ row'.uid = op[h].of /\ row'.prefix = row.prefix
      BY <1>1, <3>1 DEF Row
    <3>3. op[h].of # None
      BY <2>2 DEF Sound
    <3>4. SlotSound /\ Right(op[h], row) => SlotSound'
      BY <2>2, <3>2, <3>3 DEF SlotSound, Empty, Right
    <3>5. Done(h)
      BY <1>4, <2>2 DEF WriteSlot, At
    <3>6. QED
      BY <1>3, <3>2, <3>4, <3>5
  <2>3. CASE op[h].stage \in {"registerHls", "registerFile"}
    <3> DEFINE p == IF op[h].stage = "registerHls" THEN "r2_hls" ELSE "r2_file"
    <3>1. row' = [row EXCEPT !.provider = p, !.status = "ready", !.prefix = TRUE]
      BY <1>4, <2>3 DEF WriteSlot, Written, At
    <3>2. /\ row' \in Row /\ row'.provider # "cloudflare" /\ row'.status = "ready"
          /\ row'.uid = row.uid /\ row'.prefix = TRUE
      BY <1>1, <3>1 DEF Row
    <3>3. SlotSound /\ Right(op[h], row) => SlotSound'
      BY <2>3, <3>2 DEF SlotSound, Empty, Right, Claims
    <3>4. Done(h)
      BY <1>4, <2>3 DEF WriteSlot, At
    <3>5. QED
      BY <1>3, <3>2, <3>3, <3>4
  <2>4. QED
    BY <1>4, <2>1, <2>2, <2>3 DEF WriteSlot
<1>5. CASE LinkUpload(h)
  <2>1. row' = [row EXCEPT !.uid = op[h].of, !.status = "uploading"]
        /\ Done(h) /\ op[h].stage = "linked"
    BY <1>5 DEF LinkUpload, At
  <2>2. /\ row' \in Row /\ row'.provider = row.provider /\ row'.status = "uploading"
        /\ row'.uid = op[h].of /\ row'.prefix = row.prefix
    BY <1>1, <2>1 DEF Row
  <2>3. op[h].of # None
    BY <2>1 DEF Sound
  <2>4. SlotSound /\ Right(op[h], row) => SlotSound'
    BY <2>1, <2>2, <2>3 DEF SlotSound, Empty, Right
  <2>5. QED
    BY <1>3, <2>1, <2>2, <2>4
<1>6. CASE ClearSlot(h)
  <2>1. row' = [status |-> "pending", provider |-> "cloudflare", uid |-> None,
                prefix |-> FALSE] /\ Done(h)
    BY <1>6 DEF ClearSlot
  <2>2. row' \in Row
    BY <2>1 DEF Row
  <2>3. SlotSound'
    BY <2>1 DEF SlotSound, Empty
  <2>4. QED
    BY <1>3, <2>1, <2>2, <2>3
<1>7. CASE EmptySlot(h)
  <2>1. row' = [row EXCEPT !.uid = None, !.status = "pending"]
        /\ Done(h) /\ op[h].stage = "emptying"
    BY <1>7 DEF EmptySlot, At
  <2>2. /\ row' \in Row /\ row'.provider = row.provider /\ row'.status = "pending"
        /\ row'.uid = None /\ row'.prefix = row.prefix
    BY <1>1, <2>1 DEF Row
  <2>3. SlotSound /\ Right(op[h], row) => SlotSound'
    BY <2>1, <2>2 DEF SlotSound, Empty, Right
  <2>4. QED
    BY <1>3, <2>1, <2>2, <2>3
<1>8. QED
  BY <1>4, <1>5, <1>6, <1>7

\* Verdicts, written by the uid of the video they are about.
LEMMA MarkSteps ==
  ASSUME IInv, NEW h \in Handler, MarkReady(h) \/ MarkError(h)
  PROVE  IInv'
<1>1. op[h].of \in Video
  BY OneRequest DEF Sound, MarkReady, MarkError, At
<1>2. CASE MarkReady(h)
  <2>1. video[op[h].of] \in Finished
    BY <1>2, OneRequest DEF Sound, MarkReady, At
  <2>2. QED
    BY <1>1, <1>2, <2>1, MarkStep DEF MarkReady
<1>3. CASE MarkError(h)
  BY <1>1, <1>3, MarkStep DEF MarkError
<1>4. QED
  BY <1>2, <1>3

-----------------------------------------------------------------------------
(* Theorems                                                                *)

\* One step per action.
LEMMA IInvIsInductive == IInv /\ [Next]_vars => IInv'
<1> SUFFICES ASSUME IInv, [Next]_vars PROVE IInv'
  OBVIOUS
<1>1. ASSUME NEW h \in Handler, Ingest(h) PROVE IInv'
  BY <1>1, ReadSteps, TalkSteps, WriteSteps, EnqueueStep DEF Ingest
<1>2. ASSUME NEW h \in Handler, Sync(h) PROVE IInv'
  BY <1>2, ReadSteps, TalkSteps, WriteSteps, MarkSteps DEF Sync
<1>3. ASSUME NEW v \in Video, Cloudflare(v) PROVE IInv'
  BY <1>3, CloudflareStep
<1>4. CASE UNCHANGED vars
  <2>1. UNCHANGED <<row, op, queue, history, leaked, video>>
    BY <1>4 DEF vars, queue, history
  <2>2. video' \in [Video -> OnCloudflare] /\ Kept
    BY <2>1 DEF IInv, TypeOK, Kept
  <2>3. QED
    BY <2>1, <2>2, VideoStep
<1>5. QED
  BY <1>1, <1>2, <1>3, <1>4, LayOutStep, TranscoderStep, RestartStep DEF Next

\* The inductive invariant holds of every behaviour of the slot.
THEOREM Inductive == Spec => []IInv
BY Initially, IInvIsInductive, PTL DEF Spec

(***************************************************************************)
(* Every operation of EpisodesService and TranscodeService keeps the row,  *)
(* the requests and the queue within the values the code gives them.       *)
(***************************************************************************)
THEOREM TypeCorrect == Spec => []TypeOK
<1>1. IInv => TypeOK
  BY DEF IInv
<1>2. QED
  BY <1>1, Inductive, PTL

(***************************************************************************)
(* A slot that says ready holds a finished video, whatever syncs, late     *)
(* webhooks, sweeps, restarts and lost deletes come in between, as long as *)
(* no request or job has written a slot that had been written since it was *)
(* read, or since the page it came from was loaded.                        *)
(***************************************************************************)
THEOREM ReadyTells == Spec => []ReadyHoldsVideo
<1>1. IInv => ReadyHoldsVideo
  BY DEF IInv, SlotSound, ReadyHoldsVideo
<1>2. QED
  BY <1>1, Inductive, PTL

(***************************************************************************)
(* A slot that says pending is as a fresh one, under the same condition:   *)
(* claimSlot and the upload page find nothing left of what was there.      *)
(***************************************************************************)
THEOREM PendingTells == Spec => []PendingIsEmpty
<1>1. IInv => PendingIsEmpty
  BY DEF IInv, SlotSound, Empty, PendingIsEmpty
<1>2. QED
  BY <1>1, Inductive, PTL

-----------------------------------------------------------------------------
(* No video is forgotten                                                   *)

\* A request as it stands, with the slot r and what Cloudflare knows.
Quiet(r, vs) == r.uid # None => vs[r.uid] \notin Unfinished
DisposedOf(o, r, vs) ==
    /\ o.stage \in {"replace", "cancel", "checking", "resetting"}
          => o.of = r.uid \/ Quiet(r, vs)
    /\ o.stage \in {"mint", "linked", "clear", "emptying"} => Quiet(r, vs)

LEMMA Disposals ==
  \A h \in Handler : /\ (Disposed(h) <=> DisposedOf(op[h], row, video))
                     /\ (Disposed(h)' <=> DisposedOf(op'[h], row', video'))
BY DEF Disposed, DisposedOf, Settled, Quiet

LEMMA FreeDisposed ==
  /\ FreeOp.stage \notin {"copied", "linked"}
  /\ \A r, vs : DisposedOf(FreeOp, r, vs)
BY DEF FreeOp, DisposedOf

\* Apart from the one a request is bringing, no video becomes unfinished.
OnlyNew(o) ==
    \A v \in Video : video'[v] \in Unfinished =>
        \/ video[v] \in Unfinished
        \/ v # row.uid /\ o.of = v /\ o.stage \in {"copied", "linked"}

\* A request moves on and the slot keeps its video.
LEMMA AccountedMove ==
  ASSUME IInv, Accounted, NEW h \in Handler, NEW o \in Op, Becomes(h, o),
         row'.uid = row.uid, UNCHANGED misplaced,
         overtaken' \in {overtaken, overtaken \ {h}, overtaken \cup {h}},
         ~leaked' => ~leaked /\ ~Bringing(h),
         OnlyNew(o),
         ~misplaced /\ ~leaked' /\ h \notin overtaken' => DisposedOf(o, row', video')
  PROVE  Accounted'
<1> SUFFICES ASSUME ~misplaced', ~leaked'
             PROVE  Referred' /\ \A g \in Handler \ overtaken' : Disposed(g)'
  BY DEF Accounted
<1>1. ~misplaced /\ ~leaked /\ ~Bringing(h)
  OBVIOUS
<1>2. Referred /\ \A g \in Handler \ overtaken : Disposed(g)
  BY <1>1 DEF Accounted
<1>3. \A g \in Handler : op'[g] = IF g = h THEN o ELSE op[g]
  BY OneChanges DEF IInv
<1>4. row.uid \in Video \cup {None}
  BY DEF IInv, TypeOK, Row
<1>5. Referred'
  <2> SUFFICES ASSUME NEW v \in Video, video'[v] \in Unfinished
               PROVE  v = row'.uid \/ \E g \in Handler : op'[g].of = v /\ Bringing(g)'
    BY DEF Referred
  <2>1. CASE video[v] \in Unfinished
    <3>1. v = row.uid \/ \E g \in Handler : op[g].of = v /\ Bringing(g)
      BY <1>2, <2>1 DEF Referred
    <3>2. ASSUME NEW g \in Handler, op[g].of = v, Bringing(g)
          PROVE  op'[g].of = v /\ Bringing(g)'
      BY <1>1, <1>3, <3>2 DEF Bringing
    <3>3. QED
      BY <3>1, <3>2
  <2>2. CASE o.of = v /\ o.stage \in {"copied", "linked"}
    BY <1>3, <2>2 DEF Bringing
  <2>3. QED
    BY <2>1, <2>2 DEF OnlyNew
<1>6. Quiet(row, video) => Quiet(row', video')
  BY <1>4 DEF Quiet, OnlyNew
<1>7. ASSUME NEW g \in Handler \ overtaken' PROVE DisposedOf(op'[g], row', video')
  <2>1. CASE g = h
    BY <1>1, <1>3, <2>1
  <2>2. CASE g # h
    <3>1. DisposedOf(op[g], row, video)
      BY <1>2, <2>2, Disposals
    <3>2. QED
      BY <1>3, <1>6, <2>2, <3>1 DEF DisposedOf
  <2>3. QED
    BY <2>1, <2>2
<1>8. QED
  BY <1>5, <1>7, Disposals

\* A request that nobody has overtaken writes the slot: the video it replaces was
\* disposed of, the one it brings is in its place, and everybody else is overtaken.
LEMMA AccountedWrite ==
  ASSUME IInv, Accounted, NEW h \in Handler, NEW o \in Op, Becomes(h, o), Overtake(h),
         UNCHANGED <<video, leaked>>,
         o.stage \in {"free", "enqueue"},
         Bringing(h) => row'.uid = op[h].of,
         SlotSound /\ Right(op[h], row) /\ DisposedOf(op[h], row, video)
            => row'.uid = row.uid \/ Quiet(row, video)
  PROVE  Accounted'
<1> SUFFICES ASSUME ~misplaced', ~leaked'
             PROVE  Referred' /\ \A g \in Handler \ overtaken' : Disposed(g)'
  BY DEF Accounted
<1>1. ~misplaced /\ ~leaked /\ h \notin overtaken
  BY DEF Overtake, IInv, TypeOK
<1>2. Referred /\ DisposedOf(op[h], row, video)
  BY <1>1, Disposals DEF Accounted
<1>3. SlotSound /\ Right(op[h], row)
  BY <1>1, OneRequest
<1>4. \A g \in Handler : op'[g] = IF g = h THEN o ELSE op[g]
  BY OneChanges DEF IInv
<1>5. Referred'
  <2> SUFFICES ASSUME NEW v \in Video, video[v] \in Unfinished
               PROVE  v = row'.uid \/ \E g \in Handler : op'[g].of = v /\ Bringing(g)'
    BY DEF Referred
  <2>1. v = row.uid \/ \E g \in Handler : op[g].of = v /\ Bringing(g)
    BY <1>2 DEF Referred
  <2>2. CASE v = row.uid
    <3>1. ~Quiet(row, video)
      BY <2>2, Records DEF Quiet
    <3>2. QED
      BY <1>2, <1>3, <2>2, <3>1
  <2>3. ASSUME NEW g \in Handler, op[g].of = v, Bringing(g)
        PROVE  v = row'.uid \/ \E f \in Handler : op'[f].of = v /\ Bringing(f)'
    <3>1. CASE g = h
      BY <2>3, <3>1
    <3>2. CASE g # h
      BY <1>4, <2>3, <3>2 DEF Bringing
    <3>3. QED
      BY <3>1, <3>2
  <2>4. QED
    BY <2>1, <2>2, <2>3
<1>6. ASSUME NEW g \in Handler \ overtaken' PROVE DisposedOf(op'[g], row', video')
  <2>1. op'[g].stage \in {"free", "enqueue"}
    BY <1>4 DEF Overtake, At
  <2>2. QED
    BY <2>1 DEF DisposedOf
<1>7. QED
  BY <1>5, <1>6, Disposals

\* Cloudflare, the transcoder and the layout of a title leave requests and the
\* slot's video alone.
LEMMA AccountedAside ==
  ASSUME IInv, Accounted, UNCHANGED op, row'.uid = row.uid,
         ~misplaced' => ~misplaced, leaked' = leaked,
         overtaken \subseteq overtaken' \/ overtaken' = {g \in Handler : ~At(g, "free")},
         \A v \in Video : video'[v] \in Unfinished => video[v] \in Unfinished
  PROVE  Accounted'
<1> SUFFICES ASSUME ~misplaced', ~leaked'
             PROVE  Referred' /\ \A g \in Handler \ overtaken' : Disposed(g)'
  BY DEF Accounted
<1>1. Referred /\ \A g \in Handler \ overtaken : Disposed(g)
  BY DEF Accounted
<1>2. Referred'
  BY <1>1 DEF Referred, Bringing
<1>3. row.uid \in Video \cup {None}
  BY DEF IInv, TypeOK, Row
<1>4. Quiet(row, video) => Quiet(row', video')
  BY <1>3 DEF Quiet
<1>5. ASSUME NEW g \in Handler \ overtaken' PROVE DisposedOf(op'[g], row', video')
  <2>1. CASE g \notin overtaken
    <3>1. DisposedOf(op[g], row, video)
      BY <1>1, <2>1, Disposals
    <3>2. QED
      BY <1>4, <3>1 DEF DisposedOf
  <2>2. CASE g \in overtaken
    <3>1. op'[g].stage = "free"
      BY <2>2 DEF At
    <3>2. QED
      BY <3>1 DEF DisposedOf
  <2>3. QED
    BY <2>1, <2>2
<1>6. QED
  BY <1>2, <1>5, Disposals

\* The steps that read the row or ask Cloudflare: whoever reads the row knows
\* the video it refers to, unless that one is finished.
LEMMA AccountedReads ==
  ASSUME IInv, Accounted, NEW h \in Handler,
         \/ \E kind \in Claims : ClaimSlot(h, kind)
         \/ AskToUpload(h) \/ AskToCancel(h)
         \/ ReadStatus(h) \/ CloudflareAnswers(h) \/ CloudflareSilent(h) \/ Notify(h)
         \/ ListVideos(h) \/ ReadKnown(h) \/ SweepDone(h)
  PROVE  Accounted'
<1> USE OneRequest, Records
<1> DEFINE O(stage, v, list, c) ==
      [stage |-> stage, of |-> v, list |-> list, creates |-> c]
<1>1. ASSUME NEW o \in Op, Becomes(h, o), ~Bringing(h),
             UNCHANGED <<row, video, misplaced, leaked>>,
             overtaken' \in {overtaken, overtaken \ {h}, overtaken \cup {h}},
             ~misplaced /\ h \notin overtaken' => DisposedOf(o, row, video)
      PROVE  Accounted'
  <2>1. OnlyNew(o) /\ row'.uid = row.uid
    BY <1>1 DEF OnlyNew
  <2>2. ~misplaced /\ h \notin overtaken' => DisposedOf(o, row', video')
    BY <1>1
  <2>3. QED
    BY <1>1, <2>1, <2>2, AccountedMove
<1>2. ASSUME NEW kind \in Claims, ClaimSlot(h, kind) PROVE Accounted'
  <2> DEFINE o == O(kind, None, {}, row.status = "absent")
  <2>1. kind \in Stage /\ o \in Op
    BY DEF Stage, Claims
  <2>2. DisposedOf(o, row, video)
    BY DEF Claims, DisposedOf
  <2>3. Becomes(h, o) /\ ~Bringing(h)
    BY <1>2 DEF ClaimSlot, At, Bringing
  <2>4. UNCHANGED <<row, video, misplaced, leaked>> /\ overtaken' = overtaken \ {h}
    BY <1>2 DEF ClaimSlot
  <2> HIDE DEF o
  <2>5. QED
    BY <1>1, <2>1, <2>2, <2>3, <2>4
<1>3. ASSUME NEW stage \in Stage, NEW v \in Video \cup {None}, Begin(h, stage, v),
             UNCHANGED <<row, video, leaked>>,
             ~misplaced => DisposedOf(O(stage, v, {}, FALSE), row, video)
      PROVE  Accounted'
  <2> DEFINE o == O(stage, v, {}, FALSE)
  <2>1. o \in Op /\ Becomes(h, o) /\ ~Bringing(h)
    BY <1>3 DEF Begin, Is, At, Bringing
  <2>2. UNCHANGED misplaced /\ overtaken' = overtaken \ {h}
    BY <1>3 DEF Begin
  <2>3. ~misplaced => DisposedOf(o, row, video)
    BY <1>3
  <2> HIDE DEF o
  <2>4. QED
    BY <1>1, <1>3, <2>1, <2>2, <2>3
<1>4. ASSUME NEW list \in SUBSET Video, NEW stage \in {"listed", "known", "sweep"},
             Holds(h, stage, list), ~Bringing(h),
             UNCHANGED <<row, video, queue, history, leaked>>
      PROVE  Accounted'
  <2> DEFINE o == O(stage, None, list, FALSE)
  <2>1. o \in Op /\ Becomes(h, o) /\ DisposedOf(o, row, video)
    BY <1>4 DEF Holds, Stage, DisposedOf
  <2> HIDE DEF o
  <2>2. QED
    BY <1>1, <1>4, <2>1 DEF history
<1>5. ASSUME Done(h), ~Bringing(h), UNCHANGED <<row, video, queue, history, leaked>>
      PROVE  Accounted'
  BY <1>1, <1>5, FreeSound, FreeDisposed DEF Done, history
<1>6. CASE AskToUpload(h)
  <2> DEFINE v == IF row.status = "ready" THEN None ELSE row.uid
  <2>1. v \in Video \cup {None} /\ "replace" \in Stage
    BY DEF Stage
  <2>2. ASSUME ~misplaced PROVE v = row.uid \/ Quiet(row, video)
    BY <1>6, <2>2 DEF AskToUpload, SlotSound, Quiet, Unfinished
  <2> HIDE DEF v
  <2>3. ~misplaced => DisposedOf(O("replace", v, {}, FALSE), row, video)
    BY <2>2 DEF DisposedOf
  <2> DEFINE o == O("replace", v, {}, FALSE)
  <2>4. o \in Op /\ Becomes(h, o) /\ ~Bringing(h)
    BY <1>6, <2>1 DEF AskToUpload, v, Is, At, Bringing
  <2>5. UNCHANGED <<row, video, misplaced, leaked>>
        /\ overtaken' \in {overtaken, overtaken \ {h}, overtaken \cup {h}}
    BY <1>6 DEF AskToUpload
  <2> HIDE DEF o
  <2>6. QED
    BY <1>1, <2>3, <2>4, <2>5 DEF o
<1>7. CASE AskToCancel(h)
  <2>1. "cancel" \in Stage /\ DisposedOf(O("cancel", row.uid, {}, FALSE), row, video)
    BY DEF Stage, DisposedOf
  <2>2. QED
    BY <1>3, <1>7, <2>1 DEF AskToCancel
<1>8. CASE ReadStatus(h)
  <2>1. "checking" \in Stage /\ DisposedOf(O("checking", row.uid, {}, FALSE), row, video)
    BY DEF Stage, DisposedOf
  <2>2. QED
    BY <1>3, <1>8, <2>1 DEF ReadStatus
<1>9. CASE CloudflareAnswers(h)
  <2>1. ASSUME NEW stage \in {"finishing", "failing", "resetting"}, Is(h, stage, op[h].of)
        PROVE  Accounted'
    <3> DEFINE o == O(stage, op[h].of, {}, FALSE)
    <3>1. o \in Op /\ Becomes(h, o) /\ ~Bringing(h)
      BY <1>9, <2>1 DEF Stage, Is, Bringing, CloudflareAnswers, At
    <3>2. op[h].stage = "checking"
          /\ UNCHANGED <<row, video, misplaced, leaked>> /\ overtaken' = overtaken
      BY <1>9 DEF CloudflareAnswers, history, At
    <3>3. ASSUME ~misplaced, ~leaked, h \notin overtaken PROVE DisposedOf(o, row, video)
      <4>1. DisposedOf(op[h], row, video)
        BY <3>3, Disposals DEF Accounted
      <4>2. QED
        BY <3>2, <4>1 DEF DisposedOf
    <3>4. OnlyNew(o)
      BY <3>2 DEF OnlyNew
    <3> HIDE DEF o
    <3>5. QED
      BY <3>1, <3>2, <3>3, <3>4, AccountedMove
  <2>2. ~Bringing(h) /\ UNCHANGED <<row, video, queue, history, leaked>>
    BY <1>9 DEF CloudflareAnswers, At, Bringing
  <2>3. QED
    BY <1>5, <1>9, <2>1, <2>2 DEF CloudflareAnswers
<1>10. CASE Notify(h)
  <2>1. PICK v \in Video, stage \in {"finishing", "failing"} : Begin(h, stage, v)
    BY <1>10 DEF Notify
  <2>2. stage \in Stage /\ DisposedOf(O(stage, v, {}, FALSE), row, video)
    BY DEF Stage, DisposedOf
  <2>3. UNCHANGED <<row, video, leaked>>
    BY <1>10 DEF Notify
  <2>4. QED
    BY <1>3, <2>1, <2>2, <2>3
<1>11. CASE ListVideos(h)
  <2> DEFINE present == {v \in Video : video[v] \notin {"none", "lost"}}
  <2>1. present \in SUBSET Video /\ present \ op[h].list \in SUBSET Video
    OBVIOUS
  <2>2. /\ Holds(h, "listed", present) \/ Holds(h, "sweep", present \ op[h].list)
        /\ UNCHANGED <<row, video, queue, history, leaked>> /\ ~Bringing(h)
    BY <1>11 DEF ListVideos, At, Bringing
  <2> HIDE DEF present
  <2>3. QED
    BY <1>4, <2>1, <2>2
<1>12. CASE ReadKnown(h)
  <2> DEFINE known == {row.uid} \ {None}
  <2>1. known \in SUBSET Video /\ op[h].list \ known \in SUBSET Video
    OBVIOUS
  <2>2. /\ Holds(h, "known", known) \/ Holds(h, "sweep", op[h].list \ known)
        /\ UNCHANGED <<row, video, queue, history, leaked>> /\ ~Bringing(h)
    BY <1>12 DEF ReadKnown, At, Bringing
  <2> HIDE DEF known
  <2>3. QED
    BY <1>4, <2>1, <2>2
<1>13. CASE CloudflareSilent(h) \/ SweepDone(h)
  BY <1>5, <1>13 DEF CloudflareSilent, SweepDone, At, Bringing
<1>14. QED
  BY <1>2, <1>6, <1>7, <1>8, <1>9, <1>10, <1>11, <1>12, <1>13

\* The steps that make a video, which the request then brings, or delete one; a
\* delete that does not get through is recorded.
LEMMA AccountedTalks ==
  ASSUME IInv, Accounted, NEW h \in Handler,
         \/ CopyFromUrl(h) \/ CreateUpload(h) \/ WriteRefused(h)
         \/ Supersede(h) \/ CancelDeletes(h) \/ SyncDeletes(h) \/ SweepOne(h)
  PROVE  Accounted'
<1> USE OneRequest, Records
<1> DEFINE O(stage, v, list, c) ==
      [stage |-> stage, of |-> v, list |-> list, creates |-> c]
<1>1. ASSUME NEW stage \in {"copied", "linked"}, NEW v \in Fresh, NEW c \in BOOLEAN,
             NEW s \in OnCloudflare, video' = [video EXCEPT ![v] = s],
             Becomes(h, O(stage, v, {}, c)), ~Bringing(h),
             UNCHANGED <<row, queue, history, leaked>>,
             stage = "linked" => op[h].stage = "mint"
      PROVE  Accounted'
  <2> DEFINE o == O(stage, v, {}, c)
  <2>1. v \in Video /\ v # row.uid
    BY DEF Fresh
  <2>2. \A w \in Video : w # v => video'[w] = video[w]
    BY <1>1
  <2>3. o \in Op
    BY <2>1 DEF Stage
  <2>4. OnlyNew(o)
    BY <1>1, <2>1, <2>2 DEF OnlyNew
  <2>5. ASSUME ~misplaced, ~leaked, h \notin overtaken PROVE DisposedOf(o, row, video')
    <3>1. stage = "linked" => Quiet(row, video)
      BY <1>1, <2>5, Disposals DEF Accounted, DisposedOf
    <3>2. Quiet(row, video) => Quiet(row, video')
      BY <2>1, <2>2 DEF Quiet
    <3>3. QED
      BY <3>1, <3>2 DEF DisposedOf
  <2>6. /\ row' = row /\ row'.uid = row.uid /\ UNCHANGED misplaced
        /\ leaked' = leaked /\ overtaken' = overtaken
    BY <1>1 DEF history
  <2>7. ~misplaced /\ ~leaked' /\ h \notin overtaken' => DisposedOf(o, row', video')
    BY <2>5, <2>6
  <2>8. Becomes(h, o) /\ (~leaked' => ~leaked /\ ~Bringing(h))
    BY <1>1, <2>6
  <2> HIDE DEF o
  <2>9. QED
    BY <2>3, <2>4, <2>6, <2>7, <2>8, AccountedMove
<1>2. ASSUME NEW v \in Video \cup {None}, Delete(v), NEW o \in Op, Becomes(h, o),
             o.stage \in {"mint", "clear", "emptying", "sweep"},
             UNCHANGED <<row, queue, history>>, ~Bringing(h),
             o.stage # "sweep" =>
                 op[h].of = v /\ op[h].stage \in {"replace", "cancel", "resetting"}
      PROVE  Accounted'
  <2>1. leaked' \/ leaked' = leaked
    BY <1>2 DEF Delete
  <2>2. \A w \in Video : video'[w] \in Unfinished => video[w] \in Unfinished
    BY <1>2 DEF Delete, Gone, TypeOK, Unfinished
  <2>3. ~leaked' /\ v # None => video'[v] \notin Unfinished
    BY <1>2 DEF Delete, Gone, TypeOK, Unfinished
  <2>4. OnlyNew(o)
    BY <2>2 DEF OnlyNew
  <2>5. ASSUME ~misplaced, ~leaked', h \notin overtaken PROVE DisposedOf(o, row, video')
    <3>1. CASE o.stage = "sweep"
      BY <3>1 DEF DisposedOf
    <3>2. CASE o.stage # "sweep"
      <4>1. v = row.uid \/ Quiet(row, video)
        BY <1>2, <2>1, <2>5, <3>2, Disposals DEF Accounted, DisposedOf
      <4>2. Quiet(row, video')
        BY <2>2, <2>3, <2>5, <4>1 DEF Quiet
      <4>3. QED
        BY <1>2, <4>2 DEF DisposedOf
    <3>3. QED
      BY <3>1, <3>2
  <2>6. row'.uid = row.uid /\ row' = row /\ UNCHANGED misplaced /\ overtaken' = overtaken
    BY <1>2 DEF history
  <2>7. QED
    BY <1>2, <2>1, <2>4, <2>5, <2>6, AccountedMove
<1>3. ASSUME Done(h), UNCHANGED <<row, video, queue, history>>,
             Bringing(h) => leaked', leaked' \/ leaked' = leaked
      PROVE  Accounted'
  <2>1. OnlyNew(FreeOp)
    BY <1>3 DEF OnlyNew
  <2>2. row'.uid = row.uid /\ UNCHANGED misplaced /\ overtaken' = overtaken
    BY <1>3 DEF history
  <2>3. QED
    BY <1>3, <2>1, <2>2, FreeSound, FreeDisposed, AccountedMove DEF Done
<1>4. CASE CopyFromUrl(h)
  <2>1. UNCHANGED <<row, queue, history, leaked>> /\ ~Bringing(h)
    BY <1>4 DEF CopyFromUrl, At, Bringing
  <2>2. op[h].creates \in BOOLEAN
    BY DEF Op
  <2>3. QED
    BY <1>1, <1>3, <1>4, <2>1, <2>2 DEF CopyFromUrl, OnCloudflare
<1>5. CASE CreateUpload(h)
  <2>1. UNCHANGED <<row, queue, history, leaked>> /\ ~Bringing(h) /\ op[h].stage = "mint"
    BY <1>5 DEF CreateUpload, At, Bringing
  <2>2. QED
    BY <1>1, <1>3, <1>5, <2>1 DEF CreateUpload, OnCloudflare, Is
<1>6. CASE WriteRefused(h)
  <2>1. Bringing(h) => leaked'
    BY <1>6 DEF WriteRefused, Bringing, At
  <2>2. leaked' \/ leaked' = leaked
    BY <1>6 DEF WriteRefused, TypeOK
  <2>3. QED
    BY <1>3, <1>6, <2>1, <2>2 DEF WriteRefused
<1>7. ASSUME NEW stage \in {"mint", "clear", "emptying"},
             op[h].stage \in {"replace", "cancel", "resetting"},
             Delete(op[h].of), Is(h, stage, None), UNCHANGED <<row, queue, history>>
      PROVE  Accounted'
  <2> DEFINE o == O(stage, None, {}, FALSE)
  <2>1. o \in Op /\ Becomes(h, o) /\ o.stage = stage
    BY <1>7 DEF Stage, Is
  <2>2. ~Bringing(h)
    BY <1>7 DEF Bringing
  <2> HIDE DEF o
  <2>3. QED
    BY <1>2, <1>7, <2>1, <2>2
<1>8. CASE Supersede(h)
  BY <1>7, <1>8 DEF Supersede, At
<1>9. CASE CancelDeletes(h)
  BY <1>7, <1>9 DEF CancelDeletes, At
<1>10. CASE SyncDeletes(h)
  BY <1>7, <1>10 DEF SyncDeletes, At
<1>11. CASE SweepOne(h)
  <2>1. PICK v \in op[h].list : Delete(v) /\ Holds(h, "sweep", op[h].list \ {v})
    BY <1>11 DEF SweepOne
  <2> DEFINE o == O("sweep", None, op[h].list \ {v}, FALSE)
  <2>2. o \in Op /\ v \in Video
    BY DEF Stage
  <2>3. Becomes(h, o) /\ o.stage = "sweep"
    BY <2>1 DEF Holds
  <2>4. UNCHANGED <<row, queue, history>> /\ ~Bringing(h)
    BY <1>11 DEF SweepOne, At, Bringing
  <2> HIDE DEF o
  <2>5. QED
    BY <1>2, <2>1, <2>2, <2>3, <2>4
<1>12. QED
  BY <1>4, <1>5, <1>6, <1>8, <1>9, <1>10, <1>11

\* The steps that write the slot by episode id: what the writer replaces it has
\* disposed of, or the slot was empty when it claimed it.
LEMMA AccountedWrites ==
  ASSUME IInv, Accounted, NEW h \in Handler,
         WriteSlot(h) \/ LinkUpload(h) \/ ClearSlot(h) \/ EmptySlot(h)
  PROVE  Accounted'
<1> USE OneRequest
<1>1. row \in Row
  BY DEF TypeOK
<1>2. Overtake(h) /\ UNCHANGED <<video, leaked>>
  BY DEF WriteSlot, LinkUpload, ClearSlot, EmptySlot
<1>3. ASSUME Done(h), Bringing(h) => row'.uid = op[h].of,
             Right(op[h], row) /\ DisposedOf(op[h], row, video)
               => row'.uid = row.uid \/ Quiet(row, video)
      PROVE Accounted'
  <2>1. FreeOp \in Op /\ FreeOp.stage \in {"free", "enqueue"}
    BY FreeSound DEF FreeOp
  <2>2. QED
    BY <1>2, <1>3, <2>1, AccountedWrite DEF Done
<1>4. CASE WriteSlot(h)
  <2>1. CASE op[h].stage = "transcode"
    <3> DEFINE o == [stage |-> "enqueue", of |-> None, list |-> {}, creates |-> FALSE]
    <3>1. o \in Op /\ o.stage \in {"free", "enqueue"} /\ Becomes(h, o)
      BY <1>4, <2>1, Records DEF Stage, WriteSlot, At, Is
    <3>2. row' = [row EXCEPT !.provider = "r2_hls", !.status = "uploading"]
      BY <1>4, <2>1 DEF WriteSlot, Written, At
    <3>3. row'.uid = row.uid /\ ~Bringing(h)
      BY <1>1, <2>1, <3>2 DEF Row, Bringing
    <3> HIDE DEF o
    <3>4. QED
      BY <1>2, <3>1, <3>3, AccountedWrite
  <2>2. CASE op[h].stage = "copied"
    <3>1. row' = [row EXCEPT !.provider = "cloudflare", !.status = "uploading",
                             !.uid = op[h].of]
      BY <1>4, <2>2 DEF WriteSlot, Written, At
    <3>2. row'.uid = op[h].of
      BY <1>1, <3>1 DEF Row
    <3>3. Right(op[h], row) => Quiet(row, video)
      BY <2>2 DEF Right, Quiet
    <3>4. Done(h)
      BY <1>4, <2>2 DEF WriteSlot, At
    <3>5. QED
      BY <1>3, <3>2, <3>3, <3>4
  <2>3. CASE op[h].stage \in {"registerHls", "registerFile"}
    <3> DEFINE p == IF op[h].stage = "registerHls" THEN "r2_hls" ELSE "r2_file"
    <3>1. row' = [row EXCEPT !.provider = p, !.status = "ready", !.prefix = TRUE]
      BY <1>4, <2>3 DEF WriteSlot, Written, At
    <3>2. row'.uid = row.uid /\ ~Bringing(h)
      BY <1>1, <2>3, <3>1 DEF Row, Bringing
    <3>3. Done(h)
      BY <1>4, <2>3 DEF WriteSlot, At
    <3>4. QED
      BY <1>3, <3>2, <3>3
  <2>4. QED
    BY <1>4, <2>1, <2>2, <2>3 DEF WriteSlot
<1>5. CASE LinkUpload(h)
  <2>1. row' = [row EXCEPT !.uid = op[h].of, !.status = "uploading"]
        /\ Done(h) /\ op[h].stage = "linked"
    BY <1>5 DEF LinkUpload, At
  <2>2. row'.uid = op[h].of
    BY <1>1, <2>1 DEF Row
  <2>3. DisposedOf(op[h], row, video) => Quiet(row, video)
    BY <2>1 DEF DisposedOf
  <2>4. QED
    BY <1>3, <2>1, <2>2, <2>3
<1>6. CASE ClearSlot(h) \/ EmptySlot(h)
  <2>1. Done(h) /\ op[h].stage \in {"clear", "emptying"}
    BY <1>6 DEF ClearSlot, EmptySlot, At
  <2>2. ~Bringing(h) /\ (DisposedOf(op[h], row, video) => Quiet(row, video))
    BY <2>1 DEF DisposedOf, Bringing
  <2>3. QED
    BY <1>3, <2>1, <2>2
<1>7. QED
  BY <1>4, <1>5, <1>6

\* Verdicts change the status of the slot, not its video; and a queued job says
\* nothing of Cloudflare.
LEMMA AccountedMarks ==
  ASSUME IInv, Accounted, NEW h \in Handler,
         MarkReady(h) \/ MarkError(h) \/ StartTranscode(h)
  PROVE  Accounted'
<1>1. Done(h) /\ UNCHANGED <<video, overtaken, misplaced, leaked>>
  BY DEF MarkReady, MarkError, StartTranscode, history
<1>2. ~Bringing(h)
  BY DEF MarkReady, MarkError, StartTranscode, At, Bringing
<1>3. row'.uid = row.uid
  BY DEF MarkReady, MarkError, StartTranscode, IInv, TypeOK, Row
<1>4. OnlyNew(FreeOp)
  BY <1>1 DEF OnlyNew
<1>5. QED
  BY <1>1, <1>2, <1>3, <1>4, FreeSound, FreeDisposed, AccountedMove DEF Done

\* The transcoder never touches Cloudflare; Cloudflare itself only moves videos on.
LEMMA AccountedOthers ==
  ASSUME IInv, Accounted,
         LayOut \/ Transcoder \/ (\E v \in Video : Cloudflare(v)) \/ UNCHANGED vars
  PROVE  Accounted'
<1>1. TypeOK /\ row \in Row
  BY DEF IInv, TypeOK
<1>2. CASE LayOut \/ UNCHANGED vars
  BY <1>1, <1>2, AccountedAside DEF LayOut, vars, Row, history
<1>3. CASE Transcoder
  <2>1. UNCHANGED <<op, video, leaked>> /\ row'.uid = row.uid
    BY <1>1, <1>3 DEF Transcoder, TranscodeSucceeds, TranscodeFails, TranscodeThrows,
                      JobWrites, Row
  <2>2. /\ ~misplaced' => ~misplaced
        /\ overtaken' = overtaken \/ overtaken' = {g \in Handler : ~At(g, "free")}
    BY <1>1, <1>3 DEF Transcoder, TranscodeSucceeds, TranscodeFails, TranscodeThrows,
                      JobWrites, TypeOK, history
  <2>3. QED
    BY <2>1, <2>2, AccountedAside
<1>4. ASSUME NEW v \in Video, Cloudflare(v) PROVE Accounted'
  <2>1. UNCHANGED <<row, op, queue, history, leaked>>
    BY <1>4 DEF Cloudflare, BytesArrive, UploadDies, Encoded
  <2>2. video[v] \in Unfinished /\ \A w \in Video : w # v => video'[w] = video[w]
    BY <1>1, <1>4 DEF Cloudflare, BytesArrive, UploadDies, Encoded, Unfinished, TypeOK
  <2>3. \A w \in Video : video'[w] \in Unfinished => video[w] \in Unfinished
    BY <2>2
  <2>4. row'.uid = row.uid /\ ~misplaced' => ~misplaced /\ leaked' = leaked
        /\ overtaken' = overtaken /\ UNCHANGED op
    BY <2>1 DEF history
  <2>5. QED
    BY <2>1, <2>3, <2>4, AccountedAside DEF history
<1>5. QED
  BY <1>2, <1>3, <1>4

\* A restart that interrupts nobody on the way with a video forgets nothing.
LEMMA AccountedRestart == ASSUME IInv, Accounted, Restart PROVE Accounted'
<1> SUFFICES ASSUME ~misplaced', ~leaked'
             PROVE  Referred' /\ \A g \in Handler \ overtaken' : Disposed(g)'
  BY DEF Accounted
<1>1. ~misplaced /\ ~leaked /\ \A g \in Handler : ~Bringing(g)
  BY DEF Restart, Bringing
<1>2. row'.uid = row.uid /\ video' = video
  BY DEF Restart, IInv, TypeOK, Row
<1>3. Referred'
  BY <1>1, <1>2 DEF Accounted, Referred
<1>4. \A g \in Handler : DisposedOf(op'[g], row', video')
  BY FreeDisposed DEF Restart
<1>5. QED
  BY <1>3, <1>4, Disposals

\* Initially Cloudflare knows of no video.
LEMMA AccountedInit == Init => Accounted
<1> SUFFICES ASSUME Init PROVE Accounted
  OBVIOUS
<1>1. Referred
  BY DEF Init, Referred, Unfinished
<1>2. \A h \in Handler : Disposed(h)
  BY FreeDisposed, Disposals DEF Init
<1>3. QED
  BY <1>1, <1>2 DEF Accounted

(***************************************************************************)
(* No unfinished video is forgotten on Cloudflare, for any number of       *)
(* uploads, imports, cancels, syncs and sweeps interleaved: until a        *)
(* restart, a delete that does not get through or a refused insert leaves  *)
(* one behind, or a request writes over another's write, the row or a      *)
(* request refers to it.                                                   *)
(***************************************************************************)
THEOREM NoVideoForgotten == Spec => []NoOrphan
<1>1. IInv /\ Accounted /\ [Next]_vars => Accounted'
  BY AccountedReads, AccountedTalks, AccountedWrites, AccountedMarks, AccountedOthers,
     AccountedRestart DEF Next, Ingest, Sync
<1>2. Accounted => NoOrphan
  BY DEF Accounted, Referred, NoOrphan
<1>3. QED
  BY <1>1, <1>2, AccountedInit, Inductive, PTL DEF Spec

=============================================================================
