------------------------------ MODULE Downloads ------------------------------
(***************************************************************************)
(* DownloadsStore of the mobile app: the list of offline copies, the index *)
(* that keeps it, the files, and the queue that one drain works through.   *)
(* Every await lets the others in: the drain's run, deletions and          *)
(* revalidate are tasks whose steps interleave, and all of them end by     *)
(* writing the one index.  The app may be killed at any moment.            *)
(***************************************************************************)
EXTENDS Naturals, Sequences, SequencesExt

CONSTANTS
    Handler,    \* tasks under way at once
    Episode,
    MaxJobs     \* bound: episodes listed and jobs waiting, together

VARIABLES
    entries,    \* _entries: the episodes listed, in order
    index,      \* index.json: [list, whole, sure]; sure when nothing overlapped
                \* the last write of it
    files,      \* episodes with a finished file
    queue,      \* _queue
    inFlight,   \* the keys of _inFlight
    task,       \* [kind, at, episode, list, alone] of each handler
    spoilt      \* history: episodes asked for while a run or a deletion of
                \* them was still under way

vars == <<entries, index, files, queue, inFlight, task, spoilt>>

Idle == [kind |-> "none", at |-> "idle", episode |-> "none", list |-> <<>>, alone |-> FALSE]
Going(kind, at, e) == [Idle EXCEPT !.kind = kind, !.at = at, !.episode = e]

Init ==
    /\ entries = <<>>
    /\ index = [list |-> <<>>, whole |-> TRUE, sure |-> TRUE]
    /\ files = {}
    /\ queue = <<>>
    /\ inFlight = {}
    /\ task = [h \in Handler |-> Idle]
    /\ spoilt = {}

\* What of a list is in a set, in order.
Only(list, wanted) ==
    LET kept[n \in 0 .. Len(list)] ==
          IF n = 0 THEN <<>>
          ELSE IF list[n] \in wanted THEN Append(kept[n - 1], list[n])
          ELSE kept[n - 1]
    IN kept[Len(list)]

At(h, stage) == task[h].at = stage
To(h, stage) == task' = [task EXCEPT ![h].at = stage]
Draining == \E h \in Handler : task[h].kind = "run"

-----------------------------------------------------------------------------
(* download, cancel                                                        *)

\* The drain is started, or picks the job up later.
Download(e) ==
    /\ e \notin ToSet(entries) /\ e \notin inFlight
    /\ Len(entries) + Len(queue) < MaxJobs
    /\ inFlight' = inFlight \cup {e}
    /\ \/ Draining /\ queue' = Append(queue, e) /\ UNCHANGED task
       \/ /\ ~Draining
          /\ \E h \in Handler : /\ At(h, "idle")
                                /\ task' = [task EXCEPT ![h] = Going("run", "prepare", e)]
          /\ UNCHANGED queue
    /\ spoilt' = IF \E h \in Handler : task[h].kind \in {"run", "delete"} /\ task[h].episode = e
                 THEN spoilt \cup {e} ELSE spoilt
    /\ UNCHANGED <<entries, index, files>>

\* mutant: only what is being transferred is stopped
MutUnqueued(e) == queue

Unqueued(e) == Only(queue, Episode \ {e})

\* Only a transfer has a token: a run that prepares, or waits to try again,
\* does not hear of it.
Cancel(e) ==
    /\ e \in inFlight
    /\ queue' = Unqueued(e)
    /\ inFlight' = inFlight \ {e}
    /\ task' = [h \in Handler |-> IF At(h, "transfer") /\ task[h].episode = e
                                  THEN [task[h] EXCEPT !.at = "cancelled"] ELSE task[h]]
    /\ UNCHANGED <<entries, index, files, spoilt>>

-----------------------------------------------------------------------------
(* The run of a job                                                        *)

\* The job is over, well or not, and the next begins.  What the map held for
\* the episode goes, a newer job's entry too.
JobEnds(h) ==
    /\ inFlight' = (inFlight \ {task[h].episode})
                   \cup (IF queue = <<>> THEN {} ELSE {Head(queue)})
    /\ task' = [task EXCEPT ![h] = IF queue = <<>> THEN Idle
                                   ELSE Going("run", "prepare", Head(queue))]
    /\ queue' = IF queue = <<>> THEN <<>> ELSE Tail(queue)

\* The rendition is ready and the transfer begins, or begins again.
Transfer(h) ==
    /\ task[h].at \in {"prepare", "wait"}
    /\ To(h, "transfer")
    /\ UNCHANGED <<entries, index, files, queue, inFlight, spoilt>>

\* A chunk, the last one, or a break after which it is tried again.  Each puts
\* the episode back on the map, should a cancel have taken it off.
Receive(h) ==
    /\ \/ At(h, "transfer") /\ (To(h, "wait") \/ To(h, "fetched") \/ UNCHANGED task)
       \/ At(h, "cancelled") /\ To(h, "fetched")
    /\ inFlight' = inFlight \cup {task[h].episode}
    /\ UNCHANGED <<entries, index, files, queue, spoilt>>

\* Refused, timed out, cancelled, or no part left to rename.
JobFails(h) ==
    /\ task[h].at \in {"prepare", "transfer", "wait", "cancelled", "fetched"}
    /\ JobEnds(h)
    /\ UNCHANGED <<entries, index, files, spoilt>>

Rename(h) ==
    /\ At(h, "fetched")
    /\ files' = files \cup {task[h].episode}
    /\ To(h, "renamed")
    /\ UNCHANGED <<entries, index, queue, inFlight, spoilt>>

Add(h) ==
    /\ At(h, "renamed")
    /\ entries' = Append(entries, task[h].episode)
    /\ To(h, "persist")
    /\ UNCHANGED <<index, files, queue, inFlight, spoilt>>

-----------------------------------------------------------------------------
(* delete, revalidate                                                      *)

Delete(h, e) ==
    /\ At(h, "idle")
    /\ e \in ToSet(entries)
    /\ entries' = RemoveFirst(entries, e)
    /\ task' = [task EXCEPT ![h] = Going("delete", "unlink", e)]
    /\ UNCHANGED <<index, files, queue, inFlight, spoilt>>

Unlink(h) ==
    /\ At(h, "unlink")
    /\ files' = files \ {task[h].episode}
    /\ To(h, "persist")
    /\ UNCHANGED <<entries, index, queue, inFlight, spoilt>>

\* It asks about each entry, and writes the index if any answer had a date.
Revalidate(h) ==
    /\ \/ /\ At(h, "idle") /\ entries # <<>>
          /\ task' = [task EXCEPT ![h] = [Idle EXCEPT !.kind = "check", !.at = "ask"]]
       \/ At(h, "ask") /\ (To(h, "persist") \/ task' = [task EXCEPT ![h] = Idle])
    /\ UNCHANGED <<entries, index, files, queue, inFlight, spoilt>>

-----------------------------------------------------------------------------
(* _persist, load                                                          *)

\* The list of this moment goes to index.json.tmp, which all writers share.
WriteTmp(h) ==
    /\ At(h, "persist")
    /\ LET others == {k \in Handler \ {h} : At(k, "write")}
       IN task' = [k \in Handler |->
                     IF k = h THEN [task[h] EXCEPT !.at = "write", !.list = entries,
                                                   !.alone = (others = {})]
                     ELSE IF k \in others THEN [task[k] EXCEPT !.alone = FALSE]
                     ELSE task[k]]
    /\ UNCHANGED <<entries, index, files, queue, inFlight, spoilt>>

\* Two writers of one file: it holds either list or a mixture, and the second
\* rename finds it gone.
RenameTmp(h) ==
    /\ At(h, "write")
    /\ LET w == task[h]
       IN IF w.alone THEN index' = [list |-> w.list, whole |-> TRUE, sure |-> TRUE]
          ELSE \E whole \in BOOLEAN :
                 index' \in {[list |-> w.list, whole |-> whole, sure |-> FALSE],
                             [index EXCEPT !.sure = FALSE]}
    /\ IF task[h].kind = "run" THEN JobEnds(h)
       ELSE task' = [task EXCEPT ![h] = Idle] /\ UNCHANGED <<queue, inFlight>>
    /\ UNCHANGED <<entries, files, spoilt>>

\* The app is killed and starts again: load drops entries without a file,
\* and the whole list when it cannot be read.
Restart ==
    /\ entries' = IF index.whole THEN Only(index.list, files) ELSE <<>>
    /\ queue' = <<>>
    /\ inFlight' = {}
    /\ task' = [h \in Handler |-> Idle]
    /\ UNCHANGED <<index, files, spoilt>>

Next ==
    \/ \E e \in Episode : Download(e) \/ Cancel(e)
    \/ \E h \in Handler : \/ Transfer(h) \/ Receive(h) \/ JobFails(h) \/ Rename(h) \/ Add(h)
                          \/ \E e \in Episode : Delete(h, e)
                          \/ Unlink(h) \/ Revalidate(h) \/ WriteTmp(h) \/ RenameTmp(h)
    \/ Restart

Spec == Init /\ [][Next]_vars

-----------------------------------------------------------------------------
\* What the app lists it can play, and lists once, unless the episode was
\* asked for again before its last run or deletion was over; the index can be
\* read at whatever moment the app is killed, and says what the app lists when
\* nothing is under way, unless two writes of it overlapped.
ListedOnceAndPlays ==
    LET quiet == \A h \in Handler : At(h, "idle")
    IN /\ \A i \in DOMAIN entries : entries[i] \notin spoilt =>
            /\ entries[i] \in files
            /\ \A k \in DOMAIN entries : entries[k] = entries[i] => k = i
       /\ index.sure => index.whole
       /\ index.sure /\ quiet => Only(entries, files) = Only(index.list, files)

-----------------------------------------------------------------------------
(* Inductive invariant                                                     *)

Fetching == {"prepare", "transfer", "wait", "cancelled", "fetched"}
Unlisted == Fetching \cup {"renamed"}
Owing == {"unlink", "persist"}
Stage == Unlisted \cup Owing \cup {"idle", "ask", "write"}
Task == [kind : {"none", "run", "delete", "check"}, at : Stage, episode : Episode \cup {"none"},
         list : Seq(Episode), alone : BOOLEAN]

TypeOK ==
    /\ entries \in Seq(Episode) /\ queue \in Seq(Episode)
    /\ index \in [list : Seq(Episode), whole : BOOLEAN, sure : BOOLEAN]
    /\ files \subseteq Episode /\ inFlight \subseteq Episode /\ spoilt \subseteq Episode
    /\ task \in [Handler -> Task]
    /\ \A h \in Handler :
         /\ task[h].at \in Unlisted => task[h].kind = "run"
         /\ At(h, "unlink") => task[h].kind = "delete"
         /\ At(h, "ask") => task[h].kind = "check"
         /\ At(h, "idle") <=> task[h].kind = "none"
         /\ task[h].kind \in {"run", "delete"} => task[h].episode \in Episode

Has(list, e) == \E i \in DOMAIN list : list[i] = e
Once(list, e) == \A i, k \in DOMAIN list : list[i] = e /\ list[k] = e => i = k

\* There is one run; the queue holds what is neither listed nor at work; an
\* episode has its file before it is listed and until it no longer is.
OneOfEach ==
    /\ \A h, k \in Handler : task[h].kind = "run" /\ task[k].kind = "run" => h = k
    /\ \A e \in Episode \ spoilt :
         /\ Once(entries, e) /\ Once(index.list, e)
         /\ Has(entries, e) => e \in files
         /\ Has(queue, e) =>
               /\ Once(queue, e) /\ e \in inFlight /\ ~Has(entries, e)
               /\ \A h \in Handler : task[h].kind \in {"run", "delete"} => task[h].episode # e
         /\ \A h \in Handler :
               /\ At(h, "write") => Once(task[h].list, e)
               /\ task[h].episode = e =>
                    /\ task[h].at \in Unlisted => ~Has(entries, e)
                    /\ At(h, "renamed") => e \in files
                    /\ At(h, "unlink") =>
                          /\ ~Has(entries, e)
                          /\ \A k \in Handler : task[k].at \in Unlisted => task[k].episode # e

\* A writer that is alone writes what the app lists, unless whoever has
\* changed that since is still to write.
IndexFollows ==
    /\ index.sure => index.whole
    /\ \A h \in Handler : At(h, "write") /\ task[h].alone =>
         /\ \A k \in Handler : At(k, "write") => k = h
         /\ task[h].list = entries \/ \E k \in Handler : task[k].at \in Owing
    /\ index.sure => \/ Only(entries, files) = Only(index.list, files)
                     \/ \E h \in Handler : task[h].at \in Owing \cup {"renamed", "write"}

IInv == TypeOK /\ OneOfEach /\ IndexFollows

=============================================================================
