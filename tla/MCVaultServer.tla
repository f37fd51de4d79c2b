--------------------------- MODULE MCVaultServer ---------------------------
(***************************************************************************)
(* Values of the constants of VaultServer for model checking.              *)
(***************************************************************************)
EXTENDS VaultServer

CONSTANTS p, q, d, r

MCPosts == {p, q}
MCDeletes == {d}
MCReaders == {r}
\* One POST takes two chunks, the other one.
MCSize == [x \in MCPosts |-> IF x = p THEN 3 ELSE 1]

=============================================================================
