----------------------------- MODULE VideoIngest -----------------------------
(***************************************************************************)
(* One episode slot and the ways a video gets into it: Cloudflare's import *)
(* and browser uploads, a ladder or file already on R2, and a transcode    *)
(* run by the backend itself (EpisodesService, TranscodeService).          *)
(*                                                                         *)
(* Every operation reads the row, talks to Cloudflare, and writes the row  *)
(* in separate steps.  markReady and markError write by video uid: they    *)
(* touch the row only while it still refers to that video.  Everything     *)
(* else - claimSlot's writeSlot, the upload urls, cancelUpload, the reset  *)
(* in syncStatus, a finished transcode - writes by episode id whatever the *)
(* row has become since it was read.                                       *)
(*                                                                         *)
(* A uid nobody refers to any longer may stand for the next video made.    *)
(***************************************************************************)
EXTENDS Naturals, FiniteSets

CONSTANTS
    Handler,   \* slots for requests being served
    Video,     \* Cloudflare video uids
    None,      \* null
    MaxJobs,   \* transcodes of this episode queued or running
    Allowed    \* faults: "crash" a restart, "deaf" a delete that does not get through

ASSUME IngestAssumption ==
    /\ None \notin Video
    /\ MaxJobs \in Nat
    /\ Allowed \subseteq {"crash", "deaf"}

VARIABLES
    row,         \* the row in the episodes table
    video,       \* what Cloudflare knows of each uid
    op,          \* the requests in progress, each with what it has read
    jobs,        \* transcodes of this episode: the running one and the queue
    failing,     \* the running one has thrown and is about to record it
    overtaken,   \* history: requests whose slot was written since they read it, or
                 \* since the page they come from was loaded
    jobCurrent,  \* history: the newest job's slot was not written since
    misplaced,   \* history: an overtaken request, or job, wrote the slot
    leaked       \* history: a crash or a lost call left a video behind

vars == <<row, video, op, jobs, failing, overtaken, jobCurrent, misplaced, leaked>>
queue == <<jobs, failing>>
history == <<overtaken, jobCurrent, misplaced>>

Row == [ status: {"absent", "pending", "uploading", "ready", "error"},  \* cfStatus
         provider: {"cloudflare", "r2_hls", "r2_file"},                 \* videoProvider
         uid: Video \cup {None},                                        \* cfVideoUid
         prefix: BOOLEAN ]                                              \* r2Prefix is set

\* Not there or never ready; no byte received yet, or none within 24 hours;
\* being fetched or encoded; encoded; failed; deleted after it was ready.
OnCloudflare == {"none", "waiting", "dead", "encoding", "ready", "errored", "lost"}

Claims == {"import", "transcode", "registerHls", "registerFile"}
Stage == {"free", "copied", "enqueue", "replace", "mint", "linked", "cancel", "clear",
          "checking", "finishing", "failing", "resetting", "emptying",
          "listed", "known", "sweep"} \cup Claims

\* `of` is the video a request is about, `list` what a sweep has read; `creates`
\* says that claimSlot found no row.
Op == [stage: Stage, of: Video \cup {None}, list: SUBSET Video, creates: BOOLEAN]
FreeOp == [stage |-> "free", of |-> None, list |-> {}, creates |-> FALSE]

TypeOK ==
    /\ row \in Row
    /\ video \in [Video -> OnCloudflare]
    /\ op \in [Handler -> Op]
    /\ jobs \in 0..MaxJobs
    /\ failing \in BOOLEAN
    /\ overtaken \subseteq Handler
    /\ jobCurrent \in BOOLEAN
    /\ misplaced \in BOOLEAN
    /\ leaked \in BOOLEAN

Init ==
    /\ row = [status |-> "absent", provider |-> "cloudflare", uid |-> None, prefix |-> FALSE]
    /\ video = [v \in Video |-> "none"]
    /\ op = [h \in Handler |-> FreeOp]
    /\ jobs = 0 /\ failing = FALSE
    /\ overtaken = {} /\ jobCurrent = FALSE
    /\ misplaced = FALSE /\ leaked = FALSE

-----------------------------------------------------------------------------
(* Helpers                                                                 *)

At(h, stage) == op[h].stage = stage
Becomes(h, o) == op' = [op EXCEPT ![h] = o]
Is(h, stage, v) ==
    Becomes(h, [stage |-> stage, of |-> v, list |-> {}, creates |-> FALSE])
Holds(h, stage, list) ==
    Becomes(h, [stage |-> stage, of |-> None, list |-> list, creates |-> FALSE])
Done(h) == Becomes(h, FreeOp)

\* A request that has just read the row.
Begin(h, stage, v) ==
    /\ At(h, "free")
    /\ Is(h, stage, v)
    /\ overtaken' = overtaken \ {h}
    /\ UNCHANGED <<jobCurrent, misplaced>>

\* A write by episode id: whoever else has read the slot is overtaken.
Overtake(h) ==
    /\ overtaken' = {g \in Handler \ {h} : ~At(g, "free")}
    /\ jobCurrent' = FALSE
    /\ misplaced' = (misplaced \/ h \in overtaken)

\* deleteVideo: best effort.
Gone(v) == IF video[v] \in {"ready", "lost"} THEN "lost" ELSE "none"
Delete(v) ==
    \/ v = None /\ UNCHANGED <<video, leaked>>
    \/ v # None /\ video' = [video EXCEPT ![v] = Gone(v)] /\ UNCHANGED leaked
    \/ "deaf" \in Allowed /\ v # None /\ leaked' = TRUE /\ UNCHANGED video

\* A uid nothing refers to.
Fresh == {v \in Video : /\ video[v] \in {"none", "lost"} /\ v # row.uid
                        /\ \A h \in Handler : v # op[h].of /\ v \notin op[h].list}

-----------------------------------------------------------------------------
(* The slot, and putting a video into it                                   *)

\* createForTitle.
LayOut ==
    /\ row.status = "absent"
    /\ row' = [row EXCEPT !.status = "pending"]
    /\ UNCHANGED <<video, op, queue, history, leaked>>

\* claimSlot: a slot that holds a video is refused; one that is merely being
\* transcoded into looks empty.
ClaimSlot(h, kind) ==
    /\ At(h, "free")
    /\ row.uid = None /\ ~row.prefix
    /\ Becomes(h, [stage |-> kind, of |-> None, list |-> {},
                   creates |-> row.status = "absent"])
    /\ overtaken' = overtaken \ {h}
    /\ UNCHANGED <<row, video, queue, jobCurrent, misplaced, leaked>>

\* importFromUrl asks Cloudflare before it writes the row.
CopyFromUrl(h) ==
    /\ At(h, "import")
    /\ \/ \E v \in Fresh :
            /\ video' = [video EXCEPT ![v] = "encoding"]
            /\ Becomes(h, [stage |-> "copied", of |-> v, list |-> {},
                           creates |-> op[h].creates])
       \/ UNCHANGED video /\ Done(h)
    /\ UNCHANGED <<row, queue, history, leaked>>

\* writeSlot for each kind of ingest; r2Prefix and cfVideoUid stay unless given.
Written(h) ==
    CASE At(h, "copied") ->
           [row EXCEPT !.provider = "cloudflare", !.status = "uploading",
                       !.uid = op[h].of]
      [] At(h, "transcode") ->
           [row EXCEPT !.provider = "r2_hls", !.status = "uploading"]
      [] At(h, "registerHls") ->
           [row EXCEPT !.provider = "r2_hls", !.status = "ready", !.prefix = TRUE]
      [] OTHER ->
           [row EXCEPT !.provider = "r2_file", !.status = "ready", !.prefix = TRUE]

WriteSlot(h) ==
    /\ op[h].stage \in {"copied", "transcode", "registerHls", "registerFile"}
    /\ op[h].creates => row.status = "absent"
    /\ row' = Written(h)
    /\ IF At(h, "transcode") THEN Is(h, "enqueue", None) ELSE Done(h)
    /\ Overtake(h)
    /\ UNCHANGED <<video, queue, leaked>>

\* Another request has created the row: the unique constraint refuses this one.
WriteRefused(h) ==
    /\ op[h].stage \in {"copied", "transcode", "registerHls", "registerFile"}
    /\ op[h].creates /\ row.status # "absent"
    /\ Done(h)
    /\ leaked' = (leaked \/ At(h, "copied"))
    /\ UNCHANGED <<row, video, queue, history>>

-----------------------------------------------------------------------------
(* Browser uploads: getUploadUrl, getTusUploadUrl                          *)

\* The server takes an upload for any row; the page offers one where the row was
\* Cloudflare's when it was loaded.  So a request for any other row has been
\* overtaken before it begins.  A video not ready is superseded and deleted first.
AskToUpload(h) ==
    /\ row.status # "absent" /\ At(h, "free")
    /\ Is(h, "replace", IF row.status = "ready" THEN None ELSE row.uid)
    /\ overtaken' = IF row.provider = "cloudflare" THEN overtaken \ {h} ELSE overtaken \cup {h}
    /\ UNCHANGED <<row, video, queue, jobCurrent, misplaced, leaked>>

MutSupersede(h) ==   \* mutant: the superseded placeholder is left alone
    /\ At(h, "replace")
    /\ Is(h, "mint", None)
    /\ UNCHANGED <<row, video, queue, history, leaked>>

Supersede(h) ==
    /\ At(h, "replace")
    /\ Delete(op[h].of)
    /\ Is(h, "mint", None)
    /\ UNCHANGED <<row, queue, history>>

CreateUpload(h) ==
    /\ At(h, "mint")
    /\ \/ \E v \in Fresh :
            /\ video' = [video EXCEPT ![v] = "waiting"]
            /\ Is(h, "linked", v)
       \/ UNCHANGED video /\ Done(h)
    /\ UNCHANGED <<row, queue, history, leaked>>

LinkUpload(h) ==
    /\ At(h, "linked")
    /\ row' = [row EXCEPT !.uid = op[h].of, !.status = "uploading"]
    /\ Done(h)
    /\ Overtake(h)
    /\ UNCHANGED <<video, queue, leaked>>

-----------------------------------------------------------------------------
(* cancelUpload                                                            *)

AskToCancel(h) ==
    /\ row.status \notin {"absent", "ready"}
    /\ Begin(h, "cancel", row.uid)
    /\ UNCHANGED <<row, video, queue, leaked>>

CancelDeletes(h) ==
    /\ At(h, "cancel")
    /\ Delete(op[h].of)
    /\ Is(h, "clear", None)
    /\ UNCHANGED <<row, queue, history>>

MutClearSlot(h) ==   \* mutant: videoProvider keeps what it was
    /\ At(h, "clear")
    /\ row' = [row EXCEPT !.status = "pending", !.uid = None, !.prefix = FALSE]
    /\ Done(h)
    /\ Overtake(h)
    /\ UNCHANGED <<video, queue, leaked>>

ClearSlot(h) ==
    /\ At(h, "clear")
    /\ row' = [status |-> "pending", provider |-> "cloudflare", uid |-> None, prefix |-> FALSE]
    /\ Done(h)
    /\ Overtake(h)
    /\ UNCHANGED <<video, queue, leaked>>

-----------------------------------------------------------------------------
(* syncStatus, on every view of the title or press of play                 *)

ReadStatus(h) ==
    /\ row.status \in {"pending", "uploading"} /\ row.uid # None
    /\ Begin(h, "checking", row.uid)
    /\ UNCHANGED <<row, video, queue, leaked>>

CloudflareAnswers(h) ==
    /\ At(h, "checking")
    /\ LET v == op[h].of IN
       \/ video[v] = "ready" /\ Is(h, "finishing", v)
       \/ video[v] = "errored" /\ Is(h, "failing", v)
       \/ video[v] \in {"none", "lost", "dead"} /\ Is(h, "resetting", v)
       \/ video[v] \in {"waiting", "encoding"} /\ Done(h)
    /\ UNCHANGED <<row, video, queue, history, leaked>>

\* "The Cloudflare check itself failed - decide nothing".
CloudflareSilent(h) ==
    /\ At(h, "checking")
    /\ Done(h)
    /\ UNCHANGED <<row, video, queue, history, leaked>>

SyncDeletes(h) ==
    /\ At(h, "resetting")
    /\ Delete(op[h].of)
    /\ Is(h, "emptying", None)
    /\ UNCHANGED <<row, queue, history>>

EmptySlot(h) ==
    /\ At(h, "emptying")
    /\ row' = [row EXCEPT !.uid = None, !.status = "pending"]
    /\ Done(h)
    /\ Overtake(h)
    /\ UNCHANGED <<video, queue, leaked>>

-----------------------------------------------------------------------------
(* markReady and markError, for syncStatus and for Cloudflare's webhook    *)

\* The webhook may be late, and may come again.
Notify(h) ==
    /\ \E v \in Video :
         \/ video[v] \in {"ready", "lost"} /\ Begin(h, "finishing", v)
         \/ video[v] = "errored" /\ Begin(h, "failing", v)
    /\ UNCHANGED <<row, video, queue, leaked>>

MutMarkReady(h) ==   \* mutant: the row is written by its id
    /\ At(h, "finishing")
    /\ row' = [row EXCEPT !.status = "ready"]
    /\ Done(h)
    /\ UNCHANGED <<video, queue, history, leaked>>

MarkReady(h) ==
    /\ At(h, "finishing")
    /\ row' = IF row.uid = op[h].of THEN [row EXCEPT !.status = "ready"] ELSE row
    /\ Done(h)
    /\ UNCHANGED <<video, queue, history, leaked>>

MarkError(h) ==
    /\ At(h, "failing")
    /\ row' = IF row.uid = op[h].of THEN [row EXCEPT !.status = "error"] ELSE row
    /\ Done(h)
    /\ UNCHANGED <<video, queue, history, leaked>>

-----------------------------------------------------------------------------
(* cleanupOrphans: two reads at once, in either order, then the deletes    *)

ListVideos(h) ==
    LET present == {v \in Video : video[v] \notin {"none", "lost"}} IN
    /\ \/ At(h, "free") /\ Holds(h, "listed", present)
       \/ At(h, "known") /\ Holds(h, "sweep", present \ op[h].list)
    /\ UNCHANGED <<row, video, queue, history, leaked>>

ReadKnown(h) ==
    LET known == {row.uid} \ {None} IN
    /\ \/ At(h, "free") /\ Holds(h, "known", known)
       \/ At(h, "listed") /\ Holds(h, "sweep", op[h].list \ known)
    /\ UNCHANGED <<row, video, queue, history, leaked>>

SweepOne(h) ==
    /\ At(h, "sweep")
    /\ \E v \in op[h].list :
         /\ Delete(v)
         /\ Holds(h, "sweep", op[h].list \ {v})
    /\ UNCHANGED <<row, queue, history>>

SweepDone(h) ==
    /\ At(h, "sweep") /\ op[h].list = {}
    /\ Done(h)
    /\ UNCHANGED <<row, video, queue, history, leaked>>

-----------------------------------------------------------------------------
(* TranscodeService                                                        *)

\* enqueue; drain takes the job at once unless another one is running.  The
\* request ends here.
StartTranscode(h) ==
    /\ At(h, "enqueue") /\ jobs < MaxJobs
    /\ jobs' = jobs + 1
    /\ jobCurrent' = (h \notin overtaken)
    /\ Done(h)
    /\ UNCHANGED <<row, video, failing, overtaken, misplaced, leaked>>

\* The running job writes the slot; only the newest one can be current.
JobWrites(written) ==
    /\ jobs > 0
    /\ row' = written
    /\ jobs' = jobs - 1
    /\ overtaken' = {g \in Handler : ~At(g, "free")}
    /\ misplaced' = (misplaced \/ jobs > 1 \/ ~jobCurrent)
    /\ jobCurrent' = FALSE
    /\ UNCHANGED <<video, op, leaked>>

\* The ladder has been built and uploaded.
TranscodeSucceeds ==
    /\ ~failing
    /\ JobWrites([row EXCEPT !.status = "ready", !.prefix = TRUE])
    /\ UNCHANGED failing

TranscodeThrows ==
    /\ jobs > 0 /\ ~failing
    /\ failing' = TRUE
    /\ UNCHANGED <<row, video, op, jobs, history, leaked>>

TranscodeFails ==
    /\ failing
    /\ JobWrites([row EXCEPT !.status = "error"])
    /\ failing' = FALSE

-----------------------------------------------------------------------------
(* Cloudflare, and the backend's restarts                                  *)

BytesArrive(v) ==
    /\ video[v] = "waiting"
    /\ video' = [video EXCEPT ![v] = "encoding"]
    /\ UNCHANGED <<row, op, queue, history, leaked>>

\* Nothing for 24 hours, or the placeholder expired.
UploadDies(v) ==
    /\ video[v] = "waiting"
    /\ \E s \in {"dead", "none"} : video' = [video EXCEPT ![v] = s]
    /\ UNCHANGED <<row, op, queue, history, leaked>>

Encoded(v) ==
    /\ video[v] = "encoding"
    /\ \E s \in {"ready", "errored"} : video' = [video EXCEPT ![v] = s]
    /\ UNCHANGED <<row, op, queue, history, leaked>>

MutRestart ==   \* mutant: nothing is reclaimed at boot
    /\ "crash" \in Allowed
    /\ op' = [h \in Handler |-> FreeOp]
    /\ jobs' = 0 /\ failing' = FALSE
    /\ overtaken' = {} /\ jobCurrent' = FALSE
    /\ leaked' = (leaked \/ \E h \in Handler : op[h].stage \in {"copied", "linked"})
    /\ UNCHANGED <<row, video, misplaced>>

\* onModuleInit runs before the first request: a self-hosted row that is still
\* uploading belongs to a process that no longer exists.
Restart ==
    /\ "crash" \in Allowed
    /\ op' = [h \in Handler |-> FreeOp]
    /\ jobs' = 0 /\ failing' = FALSE
    /\ row' = IF row.provider = "r2_hls" /\ row.status = "uploading"
              THEN [row EXCEPT !.status = "error"] ELSE row
    /\ overtaken' = {} /\ jobCurrent' = FALSE
    /\ leaked' = (leaked \/ \E h \in Handler : op[h].stage \in {"copied", "linked"})
    /\ UNCHANGED <<video, misplaced>>

-----------------------------------------------------------------------------
Ingest(h) ==
    \/ \E kind \in Claims : ClaimSlot(h, kind)
    \/ CopyFromUrl(h) \/ WriteSlot(h) \/ WriteRefused(h) \/ StartTranscode(h)
    \/ AskToUpload(h) \/ Supersede(h) \/ CreateUpload(h) \/ LinkUpload(h)
    \/ AskToCancel(h) \/ CancelDeletes(h) \/ ClearSlot(h)
    \/ ListVideos(h) \/ ReadKnown(h) \/ SweepOne(h) \/ SweepDone(h)
Sync(h) ==
    \/ ReadStatus(h) \/ CloudflareAnswers(h) \/ CloudflareSilent(h)
    \/ SyncDeletes(h) \/ EmptySlot(h)
    \/ Notify(h) \/ MarkReady(h) \/ MarkError(h)
Transcoder == TranscodeSucceeds \/ TranscodeThrows \/ TranscodeFails
Cloudflare(v) == BytesArrive(v) \/ UploadDies(v) \/ Encoded(v)

Next ==
    \/ LayOut
    \/ \E h \in Handler : Ingest(h) \/ Sync(h)
    \/ Transcoder
    \/ \E v \in Video : Cloudflare(v)
    \/ Restart

Spec == Init /\ [][Next]_vars

\* A request about the video the slot refers to.
Topical(h) == op[h].of = row.uid

\* Cloudflare is done with a video some day, and so is ffmpeg; somebody looks
\* at the title now and then, Cloudflare answers if asked about a video often
\* enough, and what is retried is not cut short by a restart every time.
Fairness ==
    /\ \A v \in Video : WF_vars(Cloudflare(v))
    /\ WF_vars(Transcoder)
    /\ SF_vars(\E h \in Handler : ReadStatus(h))
    /\ \A h \in Handler :
        /\ WF_vars(CopyFromUrl(h) \/ WriteSlot(h) \/ WriteRefused(h) \/ StartTranscode(h))
        /\ WF_vars(Supersede(h) \/ CreateUpload(h) \/ LinkUpload(h))
        /\ WF_vars(CancelDeletes(h) \/ ClearSlot(h))
        /\ WF_vars(ListVideos(h) /\ At(h, "known"))
        /\ WF_vars(ReadKnown(h) /\ At(h, "listed"))
        /\ WF_vars(SweepOne(h) \/ SweepDone(h))
        /\ WF_vars(CloudflareAnswers(h) \/ MarkReady(h) \/ MarkError(h))
        /\ SF_vars(CloudflareAnswers(h) /\ Topical(h))
        /\ SF_vars(SyncDeletes(h)) /\ SF_vars(EmptySlot(h))
        /\ SF_vars(MarkReady(h) /\ Topical(h)) /\ SF_vars(MarkError(h) /\ Topical(h))

FairSpec == Spec /\ Fairness

-----------------------------------------------------------------------------
(* Properties                                                              *)

(***************************************************************************)
(* A slot that says ready holds a finished video: one Cloudflare has       *)
(* encoded, or a ladder or file on R2.  It holds whatever syncs, webhooks, *)
(* sweeps and restarts come in between, as long as no write landed on a    *)
(* slot that had been written since its writer read it, and no upload on a *)
(* self-hosted row that a stale page still took for Cloudflare's.          *)
(***************************************************************************)
ReadyHoldsVideo ==
    row.status = "ready" /\ ~misplaced =>
        IF row.provider = "cloudflare"
        THEN row.uid # None /\ video[row.uid] \in {"ready", "lost"}
        ELSE row.prefix

(***************************************************************************)
(* A pending slot is "indistinguishable from a fresh slot"                 *)
(* (episodes.service.ts:856): every way to bring a video in is open to it. *)
(***************************************************************************)
PendingIsEmpty ==
    row.status = "pending" /\ ~misplaced =>
        row.uid = None /\ ~row.prefix /\ row.provider = "cloudflare"

(***************************************************************************)
(* No video that is not ready yet is forgotten on Cloudflare: the row or a *)
(* request refers to it, unless a restart or a lost call left it behind    *)
(* ("anti-orphan logic", episodes.service.ts:550).                         *)
(***************************************************************************)
Unfinished == {"waiting", "dead", "encoding"}
NoOrphan ==
    ~misplaced /\ ~leaked =>
        \A v \in Video : video[v] \in Unfinished =>
            v = row.uid \/ \E h \in Handler : op[h].of = v

(***************************************************************************)
(* No slot claims to be uploading for ever: the upload succeeds or fails,  *)
(* is given up, or another takes its place - though webhooks, requests and *)
(* transcodes may be lost with the process.                                *)
(***************************************************************************)
UploadSettles ==
    \A u \in Video \cup {None} :
        row.status = "uploading" /\ row.uid = u
            ~> row.status # "uploading" \/ row.uid # u

-----------------------------------------------------------------------------
(* Inductive invariant                                                     *)

\* Whatever happens to the slot: a request knows which video it is about, and
\* what is about to be marked ready has been encoded.
RequestsSound ==
    /\ \A h \in Handler :
        /\ op[h].stage \in {"copied", "linked", "checking", "finishing", "failing", "resetting"}
              => op[h].of # None
        /\ At(h, "finishing") => video[op[h].of] \in {"ready", "lost"}
    /\ jobs = 0 => ~jobCurrent /\ ~failing

\* The slot by itself: it is empty, or refers to one video in one place.
Empty == row.uid = None /\ ~row.prefix
SlotSound ==
    /\ row.uid # None => row.provider = "cloudflare"
    /\ row.prefix => row.status = "ready" /\ row.provider # "cloudflare"
    /\ row.status \in {"absent", "pending"} => Empty /\ row.provider = "cloudflare"
    /\ row.status \notin {"absent", "pending"} /\ row.provider = "cloudflare" => row.uid # None
    /\ row.status = "ready" /\ row.provider = "cloudflare" => video[row.uid] \in {"ready", "lost"}
    /\ row.status = "ready" /\ row.provider # "cloudflare" => row.prefix

\* Whoever has not been overtaken is right about the slot.
Transcoding == Empty /\ row.provider = "r2_hls" /\ row.status = "uploading"
ReaderSound(h) ==
    /\ op[h].stage \in Claims \cup {"copied"} => Empty
    /\ At(h, "enqueue") => Transcoding
    /\ op[h].stage \in {"replace", "mint", "linked", "checking", "resetting", "emptying"}
          => row.provider = "cloudflare" /\ row.status # "absent"
    /\ op[h].stage \in {"cancel", "clear"} => row.status # "absent"

WritersSound ==
    /\ \A h \in Handler \ overtaken : ReaderSound(h)
    /\ jobCurrent => Transcoding

IInv == TypeOK /\ RequestsSound /\ (~misplaced => SlotSound /\ WritersSound)

\* An unfinished video is the slot's, or on its way there.  Whoever is about to
\* write the slot and has not been overtaken has deleted what it refers to, is
\* about to, or found it finished.
Bringing(h) == op[h].stage \in {"copied", "linked"}
Referred ==
    \A v \in Video : video[v] \in Unfinished =>
        v = row.uid \/ \E h \in Handler : op[h].of = v /\ Bringing(h)

Settled == row.uid # None => video[row.uid] \notin Unfinished
Disposed(h) ==
    /\ op[h].stage \in {"replace", "cancel", "checking", "resetting"}
          => op[h].of = row.uid \/ Settled
    /\ op[h].stage \in {"mint", "linked", "clear", "emptying"} => Settled

Accounted == ~misplaced /\ ~leaked => Referred /\ \A h \in Handler \ overtaken : Disposed(h)

=============================================================================
