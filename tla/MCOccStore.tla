------------------------------- MODULE MCOccStore ------------------------------
(***************************************************************************)
(* Instances of the in-memory backend for TLC.                             *)
(***************************************************************************)
EXTENDS OccStoreProps, TLC

CONSTANTS d1, d2, c1, c2

\* Every document has an index key of its own under "value"; under "group"
\* all documents share one.
MCIndexKeyOf == [i \in {"value", "group"} |->
                    [d \in {d1, d2} |->
                        IF i = "group" \/ d = d1 THEN "x" ELSE "y"]]

Clients == Permutations({c1, c2})

================================================================================
