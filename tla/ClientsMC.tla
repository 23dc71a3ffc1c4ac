------------------------------- MODULE ClientsMC -------------------------------
(* The bound and the symmetry of VideoIngestMC serve the clients too.      *)
EXTENDS Clients, VideoIngestMC

\* Offline copies: nor is what follows once every episode has been asked for
\* again too early, of which the property speaks least.
UntilSpoilt == which = "offline" => x7 # Video

\* The website: nor is what follows once nobody who signed in here is left and
\* nobody can: LoginStands is silent from there.
UntilSignedOut ==
    which = "web" /\ x3.made = MaxSessions /\ x1.step # "set-pin" => x8 # 0

\* Watching: nor is what follows once a player is open and the bookmark may be
\* at the beginning, where BookmarkStands holds anyway, until all are closed;
\* nor a second abandoned screen.
WhileItSpeaks ==
    which = "watch" =>
        /\ x5 = 0 => \A p \in Player : x4[p].at \in {"none", "ask"}
        /\ Cardinality(x6) <= 1

=============================================================================
