---------------------------- MODULE MCMarcSectors ----------------------------
(***************************************************************************)
(* Small databases and inputs for MarcSectors: records 0 and 1 share a     *)
(* sector, record 2 is in another one.  A behaviour is one of two parts:   *)
(* two writers of both sectors and an idle cache, or two writers of one    *)
(* sector with the cache and its reader.                                   *)
(***************************************************************************)
EXTENDS MarcSectors, TLC

VARIABLE part  \* "tables" or "cache"

\* Nothing, part of a sector, a sector, everything.
SomeStarts == {[r \in {0, 1, 2} |-> 0],
               [r \in {0, 1, 2} |-> IF r = 0 THEN 1 ELSE 0],
               [r \in {0, 1, 2} |-> IF r = 2 THEN 0 ELSE 1],
               [r \in {0, 1, 2} |-> 1]}

\* A longer version of a record, its old content again, both records of a
\* sector, and buffers over both sectors.
SomePuts == {0 :> 2, 0 :> 1, 0 :> 1 @@ 1 :> 2, 0 :> 2 @@ 2 :> 2, 1 :> 1 @@ 2 :> 1}

PutsOf(p) == IF p = "cache" THEN {0 :> 2, 0 :> 1 @@ 1 :> 2}
                            ELSE SomePuts \ {0 :> 1 @@ 1 :> 2}

MCInit == /\ Init
          /\ part \in {"tables", "cache"}
          /\ part = "cache" => stored[0] = 1 /\ stored[2] = 0
          /\ part = "tables" => stored[1] = stored[2]

MCNext == /\ Next
          /\ part' = part
          /\ part = "tables" => UNCHANGED <<cache, read, crossed>>
          /\ \A w \in Writers : /\ session'[w].put \in PutsOf(part) \cup {<<>>}
                                /\ part = "cache" => session'[w].kind = "put"

\* Fairness of the first part only: no session waits for the cache.
MCSpec == /\ MCInit /\ [][MCNext]_<<vars, part>>
          /\ \A w \in Writers :
               WF_<<vars, part>>(part = "tables" /\ Proceed(w) /\ part' = part)

\* Sessions that wait for one another's sectors all come to their end.
TableSessionsEnd == part = "tables" => SessionsEnd
===============================================================================
