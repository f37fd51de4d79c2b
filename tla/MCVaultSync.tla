---------------------------- MODULE MCVaultSync ----------------------------
(***************************************************************************)
(* Values of the constants of VaultSync for model checking.                *)
(***************************************************************************)
EXTENDS VaultSync

CONSTANTS a, b

MCClients == {a, b}
MCOneClient == {a}
\* 1 is the auth document, 2 an item
MCPaths == {1, 2}

=============================================================================
