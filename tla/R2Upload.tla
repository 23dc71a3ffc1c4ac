------------------------------- MODULE R2Upload -------------------------------
(***************************************************************************)
(* Videos on R2: a browser sends a file in parts, or a ladder file by      *)
(* file, straight to the bucket; only then does it ask the backend to put  *)
(* the result into the episode, or to make a ladder of it.  Nobody else    *)
(* watches the bucket: whatever a row names was put there by this order    *)
(* of calls.  Every call may fail, or succeed with its answer lost; tabs   *)
(* are closed and the backend restarts.                                    *)
(***************************************************************************)
EXTENDS Naturals, Sequences, FiniteSets

CONSTANTS
    Tab,       \* tabs with the episode's editor open
    Name,      \* bound: keys and prefixes handed out; no two the same
    Part,      \* parts of a file, and files of a ladder
    Master,    \* the one that is master.m3u8
    Workers,   \* how many a ladder sends at once
    None

VARIABLES
    bucket,    \* what is under each name: [state, parts]
    ladder,    \* under the prefix of the episode's own transcodes, "ep": the
               \* source each file was made of
    episode,   \* the row: [status, holds]
    upload,    \* of each tab: [at, kind, name, sending, sent]
    jobs,      \* sources waiting to be transcoded, in order
    job,       \* [at, source]: the transcode under way
    mixed      \* history: a ladder was made over another that was in use

vars == <<bucket, ladder, episode, upload, jobs, job, mixed>>

NoObject == [state |-> "none", parts |-> {}]
Idle == [at |-> "idle", kind |-> "none", name |-> None, sending |-> {}, sent |-> {}]
NoJob == [at |-> "idle", source |-> None]
Slot == [status |-> "empty", holds |-> None]

Init ==
    /\ bucket = [n \in Name |-> NoObject]
    /\ ladder = [f \in Part |-> None]
    /\ episode = Slot
    /\ upload = [t \in Tab |-> Idle]
    /\ jobs = <<>>
    /\ job = NoJob
    /\ mixed = FALSE

At(t, stage) == upload[t].at = stage
Becomes(t, u) == upload' = [upload EXCEPT ![t] = u]
To(t, stage) == upload' = [upload EXCEPT ![t].at = stage]
Multipart(t) == upload[t].kind # "ladder"
UploadOnly == UNCHANGED <<ladder, episode, jobs, job, mixed>>

-----------------------------------------------------------------------------
(* The browser: uploadToR2, uploadLadderToR2, putPart, putSigned           *)

\* r2MultipartCreate or hlsBegin: a fresh key or prefix.  When the answer is
\* lost the upload stays open and nobody knows its name.
Begin(t, kind) ==
    /\ At(t, "idle")
    /\ \E n \in Name :
          /\ bucket[n].state = "none"
          /\ bucket' = [bucket EXCEPT ![n].state = IF kind = "ladder" THEN "ladder" ELSE "open"]
          /\ \/ Becomes(t, [Idle EXCEPT !.at = "send", !.kind = kind, !.name = n])
             \/ UNCHANGED upload
    /\ UploadOnly

\* A signed URL was handed out and the PUT is on its way: of a file one part
\* at a time, of a ladder several.
Put(t, p) ==
    /\ At(t, "send")
    /\ p \notin upload[t].sending \cup upload[t].sent
    /\ Cardinality(upload[t].sending) < IF Multipart(t) THEN 1 ELSE Workers
    /\ upload' = [upload EXCEPT ![t].sending = @ \cup {p}]
    /\ UNCHANGED bucket /\ UploadOnly

Stored(t, p) == bucket' = [bucket EXCEPT ![upload[t].name].parts = @ \cup {p}]

PutAnswered(t, p) ==
    /\ At(t, "send") /\ p \in upload[t].sending
    /\ Stored(t, p)
    /\ upload' = [upload EXCEPT ![t].sending = @ \ {p}, ![t].sent = @ \cup {p}]
    /\ UploadOnly

\* The one failure fails the upload.  (The other workers of a ladder go on
\* into a prefix that nothing will name.)
PutFails(t, p) ==
    /\ At(t, "send") /\ p \in upload[t].sending
    /\ Stored(t, p) \/ UNCHANGED bucket
    /\ IF Multipart(t) THEN To(t, "abort") ELSE Becomes(t, Idle)
    /\ UploadOnly

\* mutant: the workers are not waited for
MutAllSent(t) == upload[t].sending \cup upload[t].sent = Part

AllSent(t) == upload[t].sent = Part

\* A ladder is ready to be registered when all its files are there; a file
\* is put together first.
LadderSent(t) ==
    /\ At(t, "send") /\ ~Multipart(t) /\ AllSent(t)
    /\ To(t, "register")
    /\ UNCHANGED bucket /\ UploadOnly

\* r2MultipartComplete: served or not, answered or not.
Complete(t) ==
    /\ At(t, "send") /\ Multipart(t) /\ AllSent(t)
    /\ \/ /\ bucket' = [bucket EXCEPT ![upload[t].name].state = "whole"]
          /\ To(t, "register") \/ To(t, "abort")
       \/ UNCHANGED bucket /\ To(t, "abort")
    /\ UploadOnly

\* r2MultipartAbort ends an upload that is still open; what was put together
\* stays, and nobody knows its name any more.
Abort(t) ==
    /\ At(t, "abort")
    /\ \/ UNCHANGED bucket
       \/ /\ bucket[upload[t].name].state = "open"
          /\ bucket' = [bucket EXCEPT ![upload[t].name] = [state |-> "gone", parts |-> {}]]
    /\ Becomes(t, Idle)
    /\ UploadOnly

\* Nothing is called when the tab is closed.
Close(t) ==
    /\ ~At(t, "idle")
    /\ Becomes(t, Idle)
    /\ UNCHANGED bucket /\ UploadOnly

-----------------------------------------------------------------------------
(* The backend: registerR2File, registerR2Hls, transcode4kFromR2           *)

\* claimSlot, which only looks at what the episode holds, and for a ladder
\* whether its master has arrived.
Claim(t) ==
    /\ At(t, "register")
    /\ IF episode.holds = None /\ (Multipart(t) \/ Master \in bucket[upload[t].name].parts)
       THEN To(t, "write") ELSE Becomes(t, Idle)
    /\ UNCHANGED bucket /\ UploadOnly

\* writeSlot.  The tab is done, whatever it hears.
Register(t) ==
    /\ At(t, "write")
    /\ IF upload[t].kind = "source"
       THEN /\ episode' = [episode EXCEPT !.status = "uploading"]
            /\ jobs' = Append(jobs, upload[t].name)
       ELSE /\ episode' = [status |-> "ready", holds |-> upload[t].name]
            /\ UNCHANGED jobs
    /\ Becomes(t, Idle)
    /\ UNCHANGED <<bucket, ladder, job, mixed>>

\* A request that does not arrive.
NotRegistered(t) ==
    /\ upload[t].at \in {"register", "write"}
    /\ Becomes(t, Idle)
    /\ UNCHANGED bucket /\ UploadOnly

\* cancelUpload, for what is not ready.  The bucket is left alone.
Reset ==
    /\ episode.status \in {"uploading", "error"}
    /\ episode' = Slot
    /\ UNCHANGED <<bucket, ladder, upload, jobs, job, mixed>>

-----------------------------------------------------------------------------
(* The transcoder                                                          *)

\* ffmpeg reads the source to the end before anything is uploaded.
Transcode ==
    /\ job.at = "idle" /\ jobs # <<>>
    /\ job' = [at |-> "encode", source |-> Head(jobs)]
    /\ jobs' = Tail(jobs)
    /\ UNCHANGED <<bucket, ladder, episode, upload, mixed>>

Encoded ==
    /\ job.at = "encode"
    /\ job' = [job EXCEPT !.at = "put"]
    /\ UNCHANGED <<bucket, ladder, episode, upload, jobs, mixed>>

\* uploadTree: the prefix is the episode's, the same for every transcode.
PutTree(p) ==
    /\ job.at = "put" /\ ladder[p] # job.source
    /\ ladder' = [ladder EXCEPT ![p] = job.source]
    /\ mixed' = (mixed \/ episode.holds = "ep")
    /\ UNCHANGED <<bucket, episode, upload, jobs, job>>

JobDone == job' = [job EXCEPT !.at = "clean"]

Ready ==
    /\ job.at = "put" /\ \A p \in Part : ladder[p] = job.source
    /\ episode' = [status |-> "ready", holds |-> "ep"]
    /\ JobDone
    /\ UNCHANGED <<bucket, ladder, upload, jobs, mixed>>

\* drain's catch comes after the cleaning up.
Throws ==
    /\ job.at \in {"encode", "put"}
    /\ job' = [job EXCEPT !.at = "cleanFailed"]
    /\ UNCHANGED <<bucket, ladder, episode, upload, jobs, mixed>>

\* finally: the source is deleted, if the bucket can be reached.
CleanUp ==
    /\ job.at \in {"clean", "cleanFailed"}
    /\ \/ bucket' = [bucket EXCEPT ![job.source] = [state |-> "gone", parts |-> {}]]
       \/ UNCHANGED bucket
    /\ IF job.at = "cleanFailed"
       THEN episode' = [episode EXCEPT !.status = "error"] \/ UNCHANGED episode
       ELSE UNCHANGED episode
    /\ job' = NoJob
    /\ UNCHANGED <<ladder, upload, jobs, mixed>>

\* onModuleInit marks what was being transcoded as failed; sources stay.
Restart ==
    /\ jobs' = <<>>
    /\ job' = NoJob
    /\ episode' = IF episode.status = "uploading" THEN [episode EXCEPT !.status = "error"]
                  ELSE episode
    /\ upload' = [t \in Tab |-> IF upload[t].at = "write" THEN Idle ELSE upload[t]]
    /\ UNCHANGED <<bucket, ladder, mixed>>

Next ==
    \/ \E t \in Tab : \/ \E kind \in {"file", "source", "ladder"} : Begin(t, kind)
                      \/ \E p \in Part : Put(t, p) \/ PutAnswered(t, p) \/ PutFails(t, p)
                      \/ LadderSent(t) \/ Complete(t) \/ Abort(t) \/ Close(t)
                      \/ Claim(t) \/ Register(t) \/ NotRegistered(t)
    \/ Reset \/ Transcode \/ Encoded \/ \E p \in Part : PutTree(p)
    \/ Ready \/ Throws \/ CleanUp \/ Restart

Spec == Init /\ [][Next]_vars

-----------------------------------------------------------------------------
\* What a ready episode names is there, and all of it: the file was put
\* together, every file of the ladder has arrived, and the transcoder's
\* ladder comes from one source - unless a second transcode wrote over it
\* while it was in use.  And what waits to be transcoded is there to be read.
ServedIsWhole ==
    LET whole(n) == bucket[n].state = "whole" /\ bucket[n].parts = Part
    IN /\ episode.status = "ready" =>
            \/ episode.holds \in Name /\ bucket[episode.holds].state = "ladder"
                                      /\ bucket[episode.holds].parts = Part
            \/ episode.holds \in Name /\ whole(episode.holds)
            \/ /\ episode.holds = "ep"
               /\ mixed \/ \E n \in Name : \A p \in Part : ladder[p] = n
       /\ \A i \in DOMAIN jobs : whole(jobs[i])
       /\ job.at \in {"encode", "put"} => whole(job.source)

-----------------------------------------------------------------------------
(* Inductive invariant                                                     *)

TypeOK ==
    /\ bucket \in [Name -> [state : {"none", "open", "whole", "ladder", "gone"},
                            parts : SUBSET Part]]
    /\ ladder \in [Part -> Name \cup {None}]
    /\ episode \in [status : {"empty", "uploading", "ready", "error"},
                    holds : Name \cup {None, "ep"}]
    /\ upload \in [Tab -> [at : {"idle", "send", "register", "write", "abort"},
                           kind : {"none", "file", "source", "ladder"},
                           name : Name \cup {None},
                           sending : SUBSET Part, sent : SUBSET Part]]
    /\ jobs \in Seq(Name)
    /\ job \in [at : {"idle", "encode", "put", "clean", "cleanFailed"}, source : Name \cup {None}]
    /\ mixed \in BOOLEAN

\* The names in use, by a tab, by the transcoder, and by the episode: each by one
\* of them, and each was handed out.
Sending == {t \in Tab : ~At(t, "idle")}
Transcoded == {jobs[i] : i \in DOMAIN jobs} \cup (IF job.at = "idle" THEN {} ELSE {job.source})
OneUser ==
    /\ \A t \in Sending : /\ upload[t].name \in Name \ (Transcoded \cup {episode.holds})
                          /\ \A u \in Sending : upload[u].name = upload[t].name => u = t
    /\ \A i, k \in DOMAIN jobs : jobs[i] = jobs[k] => i = k
    /\ job.at # "idle" => /\ job.source \in Name
                          /\ \A i \in DOMAIN jobs : jobs[i] # job.source
    /\ episode.holds \notin Transcoded
HandedOut ==
    /\ \A t \in Sending : bucket[upload[t].name].state # "none"
    /\ \A n \in Name : n \in Transcoded \cup {episode.holds} => bucket[n].state # "none"

\* A tab has sent what it thinks it has, and of a ladder or a file to be
\* registered everything.
TabsSend ==
    \A t \in Sending :
        LET b == bucket[upload[t].name]
        IN /\ upload[t].kind = "ladder" => b.state = "ladder"
           /\ At(t, "send") => upload[t].sent \subseteq b.parts
           /\ upload[t].at \in {"register", "write"} =>
                 b.parts = Part /\ (upload[t].kind # "ladder" => b.state = "whole")

IInv == TypeOK /\ OneUser /\ HandedOut /\ TabsSend /\ ServedIsWhole

===============================================================================
