----------------------------- MODULE TitleEditor -----------------------------
(***************************************************************************)
(* The page where staff edit one title.  Its form is filled from the title *)
(* and saved as a whole; artwork and episodes are changed by requests of   *)
(* their own, each followed by a load that fills the form anew.  Nothing   *)
(* orders the answers: a load asks the video service about every episode   *)
(* before it answers with the row it read first.                           *)
(***************************************************************************)
CONSTANTS
    Handler,   \* requests for artwork, episodes and loads under way at once
    Text,      \* what a text field of the form may hold
    Art,       \* what the poster and the banner may be
    Empty      \* an empty field

VARIABLES
    row,       \* the title: [text, art]
    form,      \* the form, the same fields
    request,   \* of each handler: [at, got, over]; a load has read `got`, and
               \* over says that the row changed since
    save,      \* [at, body, alone]: the save; alone while nothing changed the
               \* form since it was sent
    upload,    \* [on, value]: an image on its way, and the form that it was
               \* chosen in
    current    \* history: what filled or saved the form last was not overtaken

vars == <<row, form, request, save, upload, current>>

Title == [text : Text \cup {Empty}, art : Art]

NoRequest(t) == [at |-> "idle", got |-> t, over |-> FALSE]
NoSave(t) == [at |-> "idle", body |-> t, alone |-> FALSE]
NoUpload(t) == [on |-> FALSE, value |-> t]

\* Fields that are not in use hold this one.
Blank == CHOOSE t \in Title : TRUE

\* The page shows nothing before its first load has landed.
Init ==
    /\ row \in Title
    /\ form = row
    /\ request = [h \in Handler |-> NoRequest(Blank)]
    /\ save = NoSave(Blank)
    /\ upload = NoUpload(Blank)
    /\ current = TRUE

At(h, stage) == request[h].at = stage

\* A load that has read the row is overtaken by a change of it, a save by a
\* change of the form.
Overtaken(r) == IF r.at = "read" THEN [r EXCEPT !.over = TRUE] ELSE r
Joined == [save EXCEPT !.alone = FALSE]

-----------------------------------------------------------------------------
(* The form                                                                *)

\* Typing, or a choice from a list.
Type(t) ==
    /\ t # form.text
    /\ form' = [form EXCEPT !.text = t]
    /\ save' = Joined
    /\ current' = FALSE
    /\ UNCHANGED <<row, request, upload>>

\* handlePosterUpload: the callback keeps the form's value of this moment.
ChooseImage ==
    /\ ~upload.on
    /\ upload' = [on |-> TRUE, value |-> form]
    /\ UNCHANGED <<row, form, request, save, current>>

\* It sets its field in that value: what was typed or loaded meanwhile is
\* gone from the form.
ImageIn(a) ==
    /\ upload.on
    /\ form' = [upload.value EXCEPT !.art = a]
    /\ upload' = NoUpload(Blank)
    /\ save' = Joined
    /\ current' = FALSE
    /\ UNCHANGED <<row, request>>

ImageFails ==
    /\ upload.on
    /\ upload' = NoUpload(Blank)
    /\ UNCHANGED <<row, form, request, save, current>>

-----------------------------------------------------------------------------
(* save                                                                    *)

Save ==
    /\ save.at = "idle"
    /\ save' = [at |-> "sent", body |-> form, alone |-> TRUE]
    /\ UNCHANGED <<row, form, request, upload, current>>

\* mutant: the artwork was left out of the payload
MutUpdate(t, v) == [t EXCEPT !.text = IF v.text = Empty THEN @ ELSE v.text]

\* toUpsertPayload leaves emptied fields out, and the update leaves the
\* columns alone that are left out.
Update(t, v) == [text |-> IF v.text = Empty THEN t.text ELSE v.text, art |-> v.art]

\* The form may differ from what is saved by now.
Stored ==
    /\ save.at = "sent"
    /\ row' = Update(row, save.body)
    /\ request' = [h \in Handler |-> Overtaken(request[h])]
    /\ save' = [NoSave(Blank) EXCEPT !.at = "stored"]
    /\ current' = (save.alone /\ save.body.text # Empty)
    /\ UNCHANGED <<form, upload>>

\* "Saved.", or an error: refused, nothing stored, or only the answer lost.
SaveEnds ==
    /\ save.at # "idle"
    /\ save' = NoSave(Blank)
    /\ UNCHANGED <<row, form, request, upload, current>>

-----------------------------------------------------------------------------
(* Artwork, episodes and loads                                             *)

Ask(h, what) ==
    /\ At(h, "idle")
    /\ request' = [request EXCEPT ![h].at = what]
    /\ UNCHANGED <<row, form, save, upload, current>>

\* applyTmdb and applyFrame, and the requests about episodes and seasons:
\* only what the same button is doing keeps it from starting another.
AskArtwork(h) == Ask(h, "artwork")
AskEpisodes(h) == Ask(h, "episodes")

\* The backend stores the poster and the banner it has made or fetched.
Applied(h, a) ==
    /\ At(h, "artwork")
    /\ row' = [row EXCEPT !.art = a]
    /\ request' = [k \in Handler |-> IF k = h THEN [request[h] EXCEPT !.at = "done"]
                                     ELSE Overtaken(request[k])]
    /\ current' = FALSE
    /\ UNCHANGED <<form, save, upload>>

\* onApplied, onChange: the answer starts a load.
Answered(h) ==
    /\ request[h].at \in {"done", "episodes"}
    /\ request' = [request EXCEPT ![h].at = "load"]
    /\ UNCHANGED <<row, form, save, upload, current>>

\* detail reads the row, then syncs the episodes.
Read(h) ==
    /\ At(h, "load")
    /\ request' = [request EXCEPT ![h] = [at |-> "read", got |-> row, over |-> FALSE]]
    /\ UNCHANGED <<row, form, save, upload, current>>

Land(h) ==
    /\ At(h, "read")
    /\ form' = request[h].got
    /\ current' = ~request[h].over
    /\ request' = [request EXCEPT ![h] = NoRequest(Blank)]
    /\ save' = Joined
    /\ UNCHANGED <<row, upload>>

\* Refused, or the answer is lost: an error is shown.
Fails(h) ==
    /\ ~At(h, "idle")
    /\ request' = [request EXCEPT ![h] = NoRequest(Blank)]
    /\ UNCHANGED <<row, form, save, upload, current>>

\* From another page.
Elsewhere(t) ==
    /\ t # row
    /\ row' = t
    /\ request' = [h \in Handler |-> Overtaken(request[h])]
    /\ current' = FALSE
    /\ UNCHANGED <<form, save, upload>>

Next ==
    \/ \E t \in Text \cup {Empty} : Type(t)
    \/ ChooseImage \/ ImageFails
    \/ \E a \in Art : ImageIn(a)
    \/ Save \/ Stored \/ SaveEnds
    \/ \E h \in Handler : \/ AskArtwork(h) \/ AskEpisodes(h)
                          \/ \E a \in Art : Applied(h, a)
                          \/ Answered(h) \/ Read(h) \/ Land(h) \/ Fails(h)
    \/ \E t \in Title : Elsewhere(t)

Spec == Init /\ [][Next]_vars

-----------------------------------------------------------------------------
\* What the form shows is what is stored once a load or a save has answered
\* that nothing overtook - so that saving it takes nothing back, artwork
\* applied meanwhile included.  An emptied field is the exception: it stays
\* stored.
ShownIsStored == current => form = row

-----------------------------------------------------------------------------
(* Inductive invariant                                                     *)

TypeOK ==
    /\ row \in Title /\ form \in Title
    /\ request \in [Handler -> [at : {"idle", "artwork", "episodes", "done", "load", "read"},
                                got : Title, over : BOOLEAN]]
    /\ save \in [at : {"idle", "sent", "stored"}, body : Title, alone : BOOLEAN]
    /\ upload \in [on : BOOLEAN, value : Title]
    /\ current \in BOOLEAN

\* A load that nothing overtook has read what is stored, and a save that
\* nothing overtook carries what is shown.
HasRead == \A h \in Handler : At(h, "read") /\ ~request[h].over => request[h].got = row
SavesShown == save.at = "sent" /\ save.alone => save.body = form

IInv == TypeOK /\ HasRead /\ SavesShown /\ ShownIsStored

=============================================================================
