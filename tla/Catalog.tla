------------------------------ MODULE Catalog ------------------------------
(***************************************************************************)
(* What the server promises about its matches, with no table, no thread    *)
(* and no file in sight.  A match is absent, listed or deleted.  Work that *)
(* ends with publishing a match is begun before, and is either an ingest,  *)
(* which is never begun for a deleted match, or a restore, which somebody  *)
(* asked for.  Work begun may be abandoned at any time.                    *)
(***************************************************************************)
CONSTANT Ids

VARIABLES
    match,    \* state of each match
    pending   \* the kinds of work under way for each match

cvars == <<match, pending>>

States == {"absent", "listed", "deleted"}

Modes == {"ingest", "restore"}

CatalogTypeOK ==
    /\ match \in [Ids -> States]
    /\ pending \in [Ids -> SUBSET Modes]

Begin(i, mode) ==
    /\ mode = "ingest" => match[i] # "deleted"
    /\ pending' = [pending EXCEPT ![i] = @ \union {mode}]
    /\ UNCHANGED match

\* Work that ends, for whatever reason, is one among others of its kind.
SomeWorkEnds ==
    /\ pending' \in [Ids -> SUBSET Modes]
    /\ \A i \in Ids : pending'[i] \subseteq pending[i]

Publish(i) ==
    /\ pending[i] # {}
    /\ match' = [match EXCEPT ![i] = "listed"]
    /\ SomeWorkEnds

Abandon == SomeWorkEnds /\ UNCHANGED match

Delete(i) ==
    /\ match[i] # "absent"
    /\ match' = [match EXCEPT ![i] = "deleted"]
    /\ UNCHANGED pending

Drop(i) ==
    /\ match' = [match EXCEPT ![i] = "absent"]
    /\ UNCHANGED pending

Move(i, j) ==
    /\ match[i] # "absent"
    /\ match[j] = "absent"
    /\ match' = [match EXCEPT ![i] = "absent", ![j] = match[i]]
    /\ UNCHANGED pending

CatalogInit ==
    /\ match \in [Ids -> States]
    /\ pending = [i \in Ids |-> {}]

CatalogNext ==
    \/ \E i \in Ids :
          \/ \E mode \in Modes : Begin(i, mode)
          \/ Publish(i)
          \/ Delete(i)
          \/ Drop(i)
          \/ \E j \in Ids : Move(i, j)
    \/ Abandon

CatalogSpec == CatalogInit /\ [][CatalogNext]_cvars

=============================================================================
