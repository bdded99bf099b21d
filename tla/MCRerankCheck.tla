---------------------------- MODULE MCRerankCheck ---------------------------
(* RerankCheck with a score below that of who is not named and one above.    *)
EXTENDS RerankCheck

ServiceScores == {-1, 1}
=============================================================================
