------------------------------ MODULE MCPaging ------------------------------
(* Paging with two agents and three versions of a page.                      *)
EXTENDS Paging, TLC

CONSTANTS a1, a2

\* A blank line, to which the first window is shortened.  A window that begins
\* between its newlines is not: the cut would leave it too little.
First == <<FALSE, TRUE, TRUE, FALSE, FALSE, FALSE, FALSE>>
\* The page has become shorter, then empty.
Second == <<FALSE, TRUE, FALSE>>
Third == <<>>

Texts == <<First, Second, Third>>

\* A blank line early, a line break late.
EarlyBlank == <<<<TRUE, TRUE, FALSE, FALSE, TRUE, FALSE, FALSE>>>>

Agents == {a1, a2}

Symmetry == Permutations(Agents)
=============================================================================
