---------------------------- MODULE MCCatalogue ----------------------------
(* Instances of Catalogue for TLC. *)
EXTENDS Catalogue, TLC

CONSTANTS r1, r2

\* Two rows of a table with a unique column; a point and what it refers to; a
\* row of its own, next to a point that has nothing to refer to.
TwoRows ==
    {(r1 :> "device") @@ (r2 :> "device"),
     (r1 :> "location") @@ (r2 :> "point"),
     (r1 :> "user") @@ (r2 :> "point"),
     (r1 :> "apikey") @@ (r2 :> "point")}

TwoDevices == {[r \in {r1, r2} |-> "device"]}

\* Nothing orders requests, names or notes, or singles one of them out.
CatalogueSymmetry ==
    Permutations(Requests) \cup Permutations(Names) \cup Permutations(Notes)
=============================================================================
