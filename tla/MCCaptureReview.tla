--------------------------- MODULE MCCaptureReview ---------------------------
(* Instances of CaptureReview for TLC. *)
EXTENDS CaptureReview, TLC

CONSTANTS k1, k2

Sure(k) == [key |-> k, sure |-> TRUE]
Unsure(k) == [key |-> k, sure |-> FALSE]

\* Cards that name the same preferences in opposite orders, and one that names a
\* preference in two spellings.
CrossedReadings ==
  {<<Sure(k1), Sure(k2)>>, <<Sure(k2), Sure(k1)>>, <<Unsure(k1), Sure(k1)>>}

Symmetry == Permutations(Patches) \cup Permutations(Rows)
=============================================================================
