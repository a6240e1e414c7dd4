--------------------------- MODULE MCAsyncClient ---------------------------
(***************************************************************************)
(* Instances of AsyncClient for TLC.                                       *)
(***************************************************************************)
EXTENDS AsyncClient, TLC

CONSTANTS c1, c2, k1, k2

OneConnector  == {c1}
TwoConnectors == {c1, c2}
OneCloser     == {k1}
TwoClosers    == {k1, k2}

Symmetry == Permutations({c1, c2}) \cup Permutations({k1, k2})
=============================================================================
