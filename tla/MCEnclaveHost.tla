--------------------------- MODULE MCEnclaveHost ---------------------------
(* The server and one other program; two expressions of the same length    *)
(* and a shorter one; two enclaves fit.                                    *)
EXTENDS EnclaveTools

MCExprs == {"1+2", "3*4", "7"}
MCSize == [x \in MCExprs |-> IF x = "7" THEN 1 ELSE 3]
=============================================================================
