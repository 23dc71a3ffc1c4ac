------------------------------- MODULE Bookmark -------------------------------
(***************************************************************************)
(* The place a viewer has reached in an episode, and the players that read *)
(* and write it: the website's watch page and the app's player screen.     *)
(* A player starts where the saved position says, reports its own every    *)
(* fifteen seconds, and when its source dies begins again where it was.    *)
(* The app also plays offline copies, which begin at the beginning, and a  *)
(* screen left too early goes on reporting.                                *)
(* Reports are sent and forgotten: they arrive late, out of order or not   *)
(* at all.  One unit of position is more than the ten seconds by which a   *)
(* seek of the app may miss.                                               *)
(***************************************************************************)
EXTENDS Naturals, FiniteSetsExt

CONSTANTS
    Player,
    App,            \* the players that are the app; the others are web pages
    MaxPosition,    \* bound: where the episode ends
    MaxRecoveries   \* 3

VARIABLES
    bookmark,   \* the row's positionSecs
    reports,    \* positions on their way to the server
    tile,       \* the position on the app's "continue watching" tile; 0: none
    player,     \* [at, local, start, fixed, position, last, paused, recoveries]
    low,        \* history: how far back the bookmark may be by right
    ghosts      \* the positions that timers of screens now gone report

vars == <<bookmark, reports, tile, player, low, ghosts>>

\* local is an offline copy's; start is where the source is to begin once fixed
\* by a tile or a recovery, or by the server's answer; last is _lastPositionSecs.
Closed == [at |-> "none", local |-> FALSE, start |-> 0, fixed |-> FALSE, position |-> 0,
           last |-> 0, paused |-> TRUE, recoveries |-> 0]

Init ==
    /\ bookmark \in 0 .. MaxPosition
    /\ reports = {}
    /\ tile \in {0, bookmark}
    /\ player = [p \in Player |-> Closed]
    /\ low = 0
    /\ ghosts = {}

At(p, stage) == player[p].at = stage
Becomes(p, r) == player' = [player EXCEPT ![p] = r]
Lowest(S) == Min(S)

-----------------------------------------------------------------------------
(* startPlayback, PlayerScreen.open and openLocal                          *)

Open(p) ==
    /\ At(p, "none")
    /\ \/ Becomes(p, [Closed EXCEPT !.at = "ask"])
       \/ /\ p \in App /\ tile > 0
          /\ Becomes(p, [Closed EXCEPT !.at = "ask", !.start = tile, !.fixed = TRUE])
    /\ UNCHANGED <<bookmark, reports, tile, low, ghosts>>

\* Nobody is asked, and the saved position is not known.
OpenLocal(p) ==
    /\ At(p, "none") /\ p \in App
    /\ Becomes(p, [Closed EXCEPT !.at = "load", !.local = TRUE])
    /\ UNCHANGED <<bookmark, reports, tile, low, ghosts>>

\* "Try again" asks where to begin.
TryAgain(p) ==
    /\ At(p, "error")
    /\ Becomes(p, [player[p] EXCEPT !.at = "ask", !.fixed = FALSE])
    /\ UNCHANGED <<bookmark, reports, tile, low, ghosts>>

Opening(p) == At(p, "ask") /\ player[p].recoveries = 0
Alone(p) == \A q \in Player \ {p} : At(q, "none") \/ Opening(q)

\* play: the saved position goes with the URL.
Play(p) ==
    /\ At(p, "ask")
    /\ LET start == IF player[p].fixed THEN player[p].start ELSE bookmark
           stood == Lowest({bookmark, start} \cup reports)
       IN /\ Becomes(p, [player[p] EXCEPT !.at = "load", !.start = start, !.fixed = FALSE,
                                          !.position = 0, !.paused = TRUE])
          /\ low' = IF ~Opening(p) THEN low
                    ELSE IF Alone(p) THEN stood ELSE Lowest({low, stood})
    /\ UNCHANGED <<bookmark, reports, tile, ghosts>>

\* Not entitled, not ready, too many streams, no answer.
PlayRefused(p) ==
    /\ At(p, "ask")
    /\ \/ p \notin App /\ Becomes(p, [player[p] EXCEPT !.at = "error"])
       \/ Becomes(p, Closed)
    /\ UNCHANGED <<bookmark, reports, tile, low, ghosts>>

-----------------------------------------------------------------------------
(* The source starts: applyStartAt, _resumeTo                              *)

\* The browser may refuse to start by itself.
Loaded(p) ==
    /\ At(p, "load") /\ p \notin App
    /\ \E paused \in BOOLEAN :
          Becomes(p, [player[p] EXCEPT !.at = "on", !.position = player[p].start,
                                       !.start = 0, !.paused = paused])
    /\ UNCHANGED <<bookmark, reports, tile, low, ghosts>>

\* Only a stream that has started has its recoveries forgiven.
Forgiven(p) == IF player[p].local THEN player[p].recoveries ELSE 0

\* The app plays first and then seeks, unless it is to begin at the beginning.
Initialized(p) ==
    /\ At(p, "load") /\ p \in App
    /\ Becomes(p, IF player[p].start = 0
                  THEN [player[p] EXCEPT !.at = "on", !.paused = FALSE, !.recoveries = Forgiven(p)]
                  ELSE [player[p] EXCEPT !.at = "seek", !.paused = FALSE])
    /\ UNCHANGED <<bookmark, reports, tile, low, ghosts>>

\* The seek lands, or misses three times and the episode plays from the start.
Seeked(p) ==
    /\ At(p, "seek")
    /\ \E position \in {0, player[p].start} :
          /\ Becomes(p, [player[p] EXCEPT !.at = "on", !.position = position, !.start = 0,
                                          !.last = player[p].start,
                                          !.recoveries = Forgiven(p)])
          /\ low' = IF position = 0 THEN 0 ELSE low
    /\ UNCHANGED <<bookmark, reports, tile, ghosts>>

-----------------------------------------------------------------------------
(* Watching                                                                *)

\* _onTick keeps the last position other than 0.
Reaching(p, position) ==
    [player[p] EXCEPT !.position = position,
                      !.last = IF p \in App /\ position > 0 THEN position ELSE @]

Advance(p) ==
    /\ At(p, "on") /\ ~player[p].paused
    /\ player[p].position < MaxPosition
    /\ Becomes(p, Reaching(p, player[p].position + 1))
    /\ UNCHANGED <<bookmark, reports, tile, low, ghosts>>

\* The viewer moves to another place.
Move(p) ==
    /\ At(p, "on")
    /\ \E position \in 0 .. MaxPosition :
          /\ Becomes(p, Reaching(p, position))
          /\ low' = Lowest({low, position})
    /\ UNCHANGED <<bookmark, reports, tile, ghosts>>

\* mutant: the ticker as it was, before it waited for the seek
MutSettled(p) == player[p].at \in {"load", "seek", "on"}

\* resumed, and not _resumePending: the source is where it was to begin.
Settled(p) == At(p, "on") \/ (At(p, "load") /\ player[p].start = 0)

\* The page reports what plays, the app any position but the very start.
Reports(p) ==
    Settled(p) /\ IF p \in App THEN player[p].position > 0 ELSE ~player[p].paused

\* What an offline copy reports has nothing to do with the bookmark.
Saving(p) ==
    /\ reports' = IF Reports(p) THEN reports \cup {player[p].position} ELSE reports
    /\ low' = IF Reports(p) /\ player[p].local THEN Lowest({low, player[p].position}) ELSE low

\* Every fifteen seconds.  An offline copy has no timer; but the app saves
\* too when a banner or Control Centre covers it.
Tick(p) == Reports(p) /\ Saving(p) /\ UNCHANGED <<bookmark, tile, player, ghosts>>

\* By the time the page hears of a pause the video is paused, and its report
\* is not sent; the app's is.
PlayOrPause(p) ==
    /\ At(p, "on") \/ (At(p, "load") /\ p \notin App)
    /\ Becomes(p, [player[p] EXCEPT !.paused = ~@])
    /\ IF p \in App /\ ~player[p].paused THEN Saving(p) ELSE UNCHANGED <<reports, low>>
    /\ UNCHANGED <<bookmark, tile, ghosts>>

-----------------------------------------------------------------------------
(* The source dies: handleFatalError, _recover                             *)

\* A page whose source dies before its first seek was at 0.
Where(p) == IF p \in App THEN player[p].last ELSE player[p].position

\* The app listens for errors once it has resumed.
Fatal(p) == At(p, "on") \/ (At(p, "load") /\ p \notin App)

\* The page counts the recoveries of five minutes, the app those in a row, or
\* all of an offline copy, which needs no new URL.
SourceDies(p) ==
    /\ Fatal(p)
    /\ \E before \in {player[p].recoveries} \cup (IF p \in App THEN {} ELSE {0}) :
          IF before < MaxRecoveries
          THEN Becomes(p, [player[p] EXCEPT !.at = IF player[p].local THEN "load" ELSE "ask",
                                            !.position = IF player[p].local THEN 0 ELSE @,
                                            !.start = Where(p), !.fixed = ~player[p].local,
                                            !.recoveries = before + 1])
          ELSE Becomes(p, IF p \in App THEN Closed ELSE [player[p] EXCEPT !.at = "error"])
    /\ low' = IF At(p, "load") THEN 0 ELSE low
    /\ UNCHANGED <<bookmark, reports, tile, ghosts>>

\* _init does not look whether the screen is still there: left during the
\* first seek, it sets up the timer dispose had nothing to cancel of.
Haunted(p) == p \in App /\ At(p, "seek") /\ player[p].recoveries = 0 /\ ~player[p].local

\* The page says nothing more; the app saves once, unless it is killed.
Leave(p) ==
    /\ ~At(p, "none")
    /\ (p \in App /\ Saving(p)) \/ UNCHANGED <<reports, low>>
    /\ \/ UNCHANGED ghosts
       \/ Haunted(p) /\ \E position \in {0, player[p].start} : ghosts' = ghosts \cup {position}
    /\ Becomes(p, Closed)
    /\ UNCHANGED <<bookmark, tile>>

\* Such a timer reports where its player was, until the app ends; 0 stands
\* for the first seconds.
GhostTick ==
    \E position \in ghosts :
       /\ reports' = reports \cup {position}
       /\ low' = Lowest({low, position})
       /\ UNCHANGED <<bookmark, tile, player, ghosts>>

-----------------------------------------------------------------------------
(* The server                                                              *)

SaveProgress ==
    \E position \in reports :
       /\ reports' = reports \ {position}
       /\ bookmark' \in {position, bookmark}    \* or it is lost
       /\ UNCHANGED <<tile, player, low, ghosts>>

\* The app's home screen is loaded, or pulled down.  What has been seen to
\* the end is not on it.
ContinueWatching ==
    /\ tile' = IF bookmark = MaxPosition THEN 0 ELSE bookmark
    /\ UNCHANGED <<bookmark, reports, player, low, ghosts>>

Next ==
    \/ \E p \in Player : \/ Open(p) \/ OpenLocal(p) \/ TryAgain(p) \/ Play(p) \/ PlayRefused(p)
                         \/ Loaded(p) \/ Initialized(p) \/ Seeked(p)
                         \/ Advance(p) \/ Move(p) \/ Tick(p) \/ PlayOrPause(p)
                         \/ SourceDies(p) \/ Leave(p)
    \/ GhostTick \/ SaveProgress \/ ContinueWatching

Spec == Init /\ [][Next]_vars

-----------------------------------------------------------------------------
\* The bookmark is never further back than it stood, reports on their way
\* included, when the first of the players now open was opened; than the tile
\* a player was opened from; or than a place the viewer moved to.  Nothing
\* else but four faults may take it further back: a page's source that dies
\* before its first seek, an app's seek that misses three times, an offline
\* copy that reports, and the timer of a screen left during its first seek.
BookmarkStands == bookmark >= low

-----------------------------------------------------------------------------
(* Inductive invariant                                                     *)

TypeOK ==
    /\ bookmark \in Nat /\ reports \subseteq Nat /\ tile \in Nat /\ low \in Nat
    /\ ghosts \subseteq Nat
    /\ player \in [Player -> [at : {"none", "ask", "load", "seek", "on", "error"},
                              local : BOOLEAN, start : Nat, fixed : BOOLEAN,
                              position : Nat, last : Nat, paused : BOOLEAN, recoveries : Nat]]

\* What a player may yet report, or begin from after its source died, is no
\* further back; at the start of a source it is where that is to begin.  What
\* an offline copy reports counts when it is reported.
Kept(p) ==
    LET r == player[p]
    IN /\ r.at = "ask" /\ r.fixed /\ r.recoveries > 0 => r.start >= low
       /\ r.local = FALSE =>
            /\ r.at = "load" => r.start >= low /\ r.position = 0
            /\ r.at = "seek" => r.start >= low
            /\ r.at = "on" => r.position >= low /\ (p \in App => r.last >= low)
PlayersKeep == \A p \in Player : Kept(p)
ReportsKeep == \A position \in reports : position >= low

IInv == TypeOK /\ PlayersKeep /\ ReportsKeep /\ BookmarkStands

===============================================================================
