------------------------------ MODULE MCPaging ------------------------------
\* Paging with requests that share two milliseconds.
EXTENDS Paging, TLC

Symmetry == Permutations(Jobs)
=============================================================================
