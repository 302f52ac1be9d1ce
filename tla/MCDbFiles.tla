------------------------------- MODULE MCDbFiles -------------------------------
(* Instances of DbFiles for TLC: handlers are interchangeable, and so are   *)
(* topics none of which has the temporary file's name.                     *)
EXTENDS DbFiles, TLC

HandlerSymmetry == Permutations(Handler)
FullSymmetry == HandlerSymmetry \cup Permutations(Topic)

\* The message of an idle handler is never read again.
View == <<files, sem, hpc, hline, held, acked, stable, crashes,
          [h \in Handler |-> IF hpc[h] = "idle" THEN {} ELSE {hmsg[h]}]>>
=============================================================================
