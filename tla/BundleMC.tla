----------------------------- MODULE BundleMC -----------------------------
(* Files of up to MaxLength bytes, changed since the group was made or not.*)
EXTENDS Bundle

CONSTANT MaxLength

MCEntries ==
  [located : {FALSE}, size : {0}, length : {0}, faithful : {TRUE}]
    \cup {e \in [located : {TRUE}, size : 0..MaxLength, length : 0..MaxLength,
                 faithful : BOOLEAN] : e.faithful => e.size = e.length}

MCBundles == {NoBundle}
==========================================================================
