---------------------------- MODULE VaultHistory ----------------------------
(***************************************************************************)
(* What synced vaults promise, whatever requests are lost and whenever a   *)
(* device dies: a remote vault is a log of events that only grows until it *)
(* is removed for good, and every device that belongs to it holds a prefix *)
(* of that log as its history, which only grows as well.                   *)
(***************************************************************************)
EXTENDS Integers, Sequences

CONSTANTS
  Clients,  \* devices
  Keys,     \* keys of remote vaults
  NoKey,    \* the vault of a device that belongs to none
  Event     \* events

VARIABLES
  log,      \* key -> events of the remote vault
  removed,  \* keys of remote vaults that were deleted
  vault,    \* the vault each device belongs to
  history   \* the events each device has replayed and recorded

vars == <<log, removed, vault, history>>

\* t begins with s.
Extends(t, s) == Len(s) <= Len(t) /\ \A i \in 1..Len(s) : t[i] = s[i]

Init ==
  /\ log = [k \in Keys |-> <<>>]
  /\ removed = {}
  /\ vault \in [Clients -> Keys \cup {NoKey}]
  /\ history = [c \in Clients |-> <<>>]

\* Some events are added to the end of a vault that has not been removed.
Grow(k) ==
  /\ k \notin removed
  /\ log'[k] \in Seq(Event)
  /\ Extends(log'[k], log[k])
  /\ log' = [log EXCEPT ![k] = log'[k]]
  /\ UNCHANGED <<removed, vault, history>>

\* A vault goes away, and with it its devices' membership and history.
Remove(k) ==
  /\ removed' = removed \cup {k}
  /\ log' = [log EXCEPT ![k] = <<>>]
  /\ vault' = [c \in Clients |-> IF vault[c] = k THEN NoKey ELSE vault[c]]
  /\ history' = [c \in Clients |-> IF vault[c] = k THEN <<>> ELSE history[c]]

\* A device without a vault joins one, without a history.
Join(c, k) ==
  /\ vault[c] = NoKey /\ history[c] = <<>>
  /\ k \notin removed
  /\ vault' = [vault EXCEPT ![c] = k]
  /\ UNCHANGED <<log, removed, history>>

\* A device catches up with its vault, as far as some position.
CatchUp(c) ==
  /\ vault[c] # NoKey
  /\ \E n \in Len(history[c])..Len(log[vault[c]]) :
       history' = [history EXCEPT ![c] = SubSeq(log[vault[c]], 1, n)]
  /\ UNCHANGED <<log, removed, vault>>

Next ==
  \/ \E k \in Keys : Grow(k) \/ Remove(k)
  \/ \E c \in Clients, k \in Keys : Join(c, k)
  \/ \E c \in Clients : CatchUp(c)

Spec == Init /\ [][Next]_vars

\* A device's history is a prefix of the log of its vault.
Prefix ==
  \A c \in Clients :
    IF vault[c] = NoKey THEN history[c] = <<>>
                        ELSE Extends(log[vault[c]], history[c])

=============================================================================
