----------------------------- MODULE MCReports -----------------------------
(* The TLC instance of Reports: the deliveries are interchangeable.          *)
EXTENDS Reports, TLC

MCLimits == {-1, 1, 2, 3}

MCSymmetry == Permutations(Jobs)

\* Bound: a behaviour has one of the two readers, which share nothing; where it is the
\* statistics, which are not about times, all rows have the same.
MCOneReader ==
  \/ stats.query = 1 /\ stats.resp = "none"
  \/ walk.pc = "new" /\ \A j \in Rows : created[j] = 1
=============================================================================
