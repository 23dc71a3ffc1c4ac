-------------------------------- MODULE Secrets --------------------------------
(***************************************************************************)
(* SecretsService: one credential, kept in the table `secrets`, read       *)
(* through a cache of the process that only set() and a restart correct.   *)
(* A gateway or a payment processor takes whatever get() answers.          *)
(***************************************************************************)
CONSTANTS
    Handler,   \* calls of get and set under way at once
    Value,     \* values of the credential
    None       \* no row, an empty value, or nothing cached

VARIABLES
    row,      \* the row's value; None when there is no row
    cached,   \* whether the cache has an entry
    cache,    \* that entry; None stands for ''
    call,     \* [at, val, over]: "get" has read val and fills the cache next,
              \* "set" has written val; over when the row changed since
    stale     \* history: what is cached was overtaken by a later write

vars == <<row, cached, cache, call, stale>>

Idle == [at |-> "idle", val |-> None, over |-> FALSE]
Going(at, v) == [at |-> at, val |-> v, over |-> FALSE]

Init ==
    /\ row \in Value \cup {None}
    /\ cached = FALSE
    /\ cache = None
    /\ call = [h \in Handler |-> Idle]
    /\ stale = FALSE

At(h, stage) == call[h].at = stage

\* The entry is set to v by a call that was, or was not, overtaken.
Keep(v, over) ==
    /\ cached' = TRUE
    /\ cache' = v
    /\ stale' = over

-----------------------------------------------------------------------------
\* get finds nothing cached: it asks the table.  With an entry it answers at
\* once and changes nothing.
Miss(h) ==
    /\ At(h, "idle")
    /\ ~cached
    /\ call' = [call EXCEPT ![h] = Going("get", row)]
    /\ UNCHANGED <<row, cached, cache, stale>>

Fill(h) ==
    /\ At(h, "get")
    /\ Keep(call[h].val, call[h].over)
    /\ call' = [call EXCEPT ![h] = Idle]
    /\ UNCHANGED row

\* set: an empty value deletes the row.
Write(h, v) ==
    /\ At(h, "idle")
    /\ row' = v
    /\ call' = [k \in Handler |-> IF k = h THEN Going("set", v)
                                  ELSE IF At(k, "idle") THEN Idle
                                  ELSE [at |-> call[k].at, val |-> call[k].val, over |-> TRUE]]
    /\ UNCHANGED <<cached, cache, stale>>

\* mutant: a credential is written to the table only
MutLand(h) ==
    /\ At(h, "set")
    /\ call' = [call EXCEPT ![h] = Idle]
    /\ UNCHANGED <<row, cached, cache, stale>>

\* The cache follows: the new value, or no entry.
Land(h) ==
    /\ At(h, "set")
    /\ \/ call[h].val # None /\ Keep(call[h].val, call[h].over)
       \/ call[h].val = None /\ cached' = FALSE /\ cache' = None /\ stale' = FALSE
    /\ call' = [call EXCEPT ![h] = Idle]
    /\ UNCHANGED row

\* The write fails, or its answer is lost: set throws before the cache.
Lost(h) ==
    /\ At(h, "set")
    /\ stale' = TRUE
    /\ call' = [call EXCEPT ![h] = Idle]
    /\ UNCHANGED <<row, cached, cache>>

Restart ==
    /\ cached' = FALSE
    /\ cache' = None
    /\ call' = [h \in Handler |-> Idle]
    /\ stale' = FALSE
    /\ UNCHANGED row

Next ==
    \/ \E h \in Handler : Miss(h) \/ Fill(h) \/ Land(h) \/ Lost(h)
    \/ \E h \in Handler, v \in Value \cup {None} : Write(h, v)
    \/ Restart

Spec == Init /\ [][Next]_vars

-----------------------------------------------------------------------------
\* Once no change is under way, calls are served the credential the admin
\* set last - unless what is cached was read or written before that change
\* and kept after it, which lasts until the next change or restart.
CacheCurrent ==
    cached /\ ~stale /\ (\A h \in Handler : ~At(h, "set")) => cache = row

-----------------------------------------------------------------------------
(* Inductive invariant                                                     *)

Calls == [at : {"idle", "get", "set"}, val : Value \cup {None}, over : BOOLEAN]

TypeOK ==
    /\ row \in Value \cup {None}
    /\ cached \in BOOLEAN
    /\ cache \in Value \cup {None}
    /\ call \in [Handler -> Calls]
    /\ stale \in BOOLEAN

\* Not overtaken: what was read, or written, is what the row holds.
HoldsRow == \A h \in Handler : ~At(h, "idle") /\ ~call[h].over => call[h].val = row

IInv == TypeOK /\ HoldsRow /\ CacheCurrent

=============================================================================
