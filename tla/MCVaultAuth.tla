---------------------------- MODULE MCVaultAuth ----------------------------
(***************************************************************************)
(* Values of the constants of VaultAuth for model checking.                *)
(***************************************************************************)
EXTENDS VaultAuth, TLC

CONSTANTS a, b, x, y, i1, i2, i3, k1, s1, s2, m1, m2

MCCallers == {a, b}
MCPasswords == {x, y}
MCPwIds == {i1, i2, i3}
MCCreds == {k1}
MCSalts == {s1, s2}
MCMasterKeys == {m1, m2}
MCSymmetry ==
  Permutations(MCCallers) \cup Permutations(MCPasswords)
  \cup Permutations(MCPwIds) \cup Permutations(MCSalts)
  \cup Permutations(MCMasterKeys)

=============================================================================
