--------------------------- MODULE MCUploadPeriods ---------------------------
(* A small office: two clients, two sorts of input files and two of         *)
(* control files.                                                           *)
EXTENDS UploadPeriods, TLC

CONSTANTS k1, k2

\* A file of two lines and one of one.
TwoFiles == {<< <<k1, 1>>, <<k2, 2>> >>, << <<k2, 1>> >>}

\* What both files together come to, and one that leaves a client out.
TwoControls == {(k1 :> 1) @@ (k2 :> 3), k2 :> 2}

ThreadSymmetry == Permutations(Thread)
=============================================================================
