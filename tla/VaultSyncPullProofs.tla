------------------------ MODULE VaultSyncPullProofs ------------------------
(***************************************************************************)
(* What clients have pulled, for any number of clients, documents, keys    *)
(* and faults.  The pull log is the remote vault's history                 *)
(* (HistoryComplete), so syncing implements VaultHistory                   *)
(* (ImplementsHistory); every document of the store is pending or comes    *)
(* from the remote vault (StoreJustified), so replicas that have nothing   *)
(* left to push or pull are equal (Agreement); and Unsync loses nothing of *)
(* a vault that was pulled (CleanUnsyncKeepsVault).  The inductive         *)
(* invariants are HistoryInvAll for the pull log, SentInvAll for what is   *)
(* being pushed, StoreInvAll for the store and CleanInvAll for Unsync.     *)
(***************************************************************************)
EXTENDS VaultSyncProofs

-----------------------------------------------------------------------------
(* The pull log                                                             *)

\* c belongs to a vault that exists.
Attached(c) == rsalt[c] # NoKey /\ rsalt[c] \notin removed

\* The pull log is the vault's, and complete up to some position.
Matches(c) ==
  \A d \in pull[c] :
    d.idx \in 1..Len(log[rsalt[c]]) /\ log[rsalt[c]][d.idx] = Entry(d)

UpTo(c, n) == \A i \in 1..n : \E d \in pull[c] : d.idx = i

\* What is still to be replayed is what follows in the vault.
Pulling(c) ==
  /\ pullIndex[c] <= at[c]
  /\ UpTo(c, at[c])
  /\ at[c] + Len(todo[c]) <= Len(log[rsalt[c]])
  /\ \A i \in 1..Len(todo[c]) :
       /\ todo[c][i].idx = at[c] + i
       /\ log[rsalt[c]][at[c] + i] = Entry(todo[c][i])

HistoryInv(c) ==
  /\ remote[c] \in {NoKey, rsalt[c]}
  /\ rsalt[c] = NoKey =>
       phase[c] \in {"idle", "keying"} /\ pull[c] = {} /\ pullIndex[c] = 0
  /\ phase[c] = "deleting" => req[c].key = rsalt[c]
  /\ phase[c] \in {"deleted", "copying", "moving", "ending", "renewing"} =>
       rsalt[c] \in removed
  /\ phase[c] = "moving" =>
       \A d \in pull[c] : \E i \in 1..Len(todo[c]) : todo[c][i] = d
  /\ phase[c] \in {"ending", "renewing"} => pull[c] = {}
  /\ phase[c] = "renewing" => pullIndex[c] = 0
  /\ Attached(c) => /\ pullIndex[c] <= Len(log[rsalt[c]])
                    /\ Matches(c) /\ UpTo(c, pullIndex[c])
  /\ Attached(c) /\ phase[c] \in {"applying", "recording"} => Pulling(c)

-----------------------------------------------------------------------------

LEMMA PullTypes ==
  ASSUME TypeOK, NEW c \in Clients
  PROVE  /\ pull[c] \subseteq Doc /\ IsFiniteSet(pull[c])
         /\ pullIndex[c] \in Nat /\ at[c] \in Nat
         /\ todo[c] \in Seq(Doc) /\ Len(todo[c]) \in Nat
         /\ rsalt[c] \in Keys \cup {NoKey}
         /\ rsalt[c] # NoKey =>
              log[rsalt[c]] \in Seq(Event) /\ Len(log[rsalt[c]]) \in Nat
BY DEF TypeOK, StoreTypes, SyncTypes, ServerTypes

\* Vaults only grow, so what was pulled stays what the vault has.
LEMMA AttachedKept ==
  ASSUME TypeOK, TypeOK', LogsGrow, NEW c \in Clients, Attached(c)',
         rsalt'[c] = rsalt[c]
  PROVE  /\ Attached(c)
         /\ Len(log[rsalt[c]]) \in Nat /\ Len(log'[rsalt[c]]) \in Nat
         /\ Len(log[rsalt[c]]) <= Len(log'[rsalt[c]])
         /\ \A i \in 1..Len(log[rsalt[c]]) :
              log'[rsalt[c]][i] = log[rsalt[c]][i]
<1>1. rsalt[c] \in Keys \ removed'
  BY PullTypes DEF Attached, TypeOK, StoreTypes
<1>2. Len(log[rsalt[c]]) \in Nat /\ Len(log'[rsalt[c]]) \in Nat
  BY <1>1 DEF TypeOK, ServerTypes
<1> QED BY <1>1, <1>2 DEF LogsGrow, Longer, Attached

LEMMA MatchesKept ==
  ASSUME TypeOK, TypeOK', LogsGrow, NEW c \in Clients, Attached(c)',
         rsalt'[c] = rsalt[c], pull'[c] = pull[c], pullIndex'[c] = pullIndex[c],
         HistoryInv(c)
  PROVE  /\ pullIndex'[c] <= Len(log'[rsalt'[c]])
         /\ Matches(c)' /\ UpTo(c, pullIndex[c])'
<1>1. /\ Attached(c)
      /\ Len(log[rsalt[c]]) \in Nat /\ Len(log'[rsalt[c]]) \in Nat
      /\ Len(log[rsalt[c]]) <= Len(log'[rsalt[c]])
      /\ \A i \in 1..Len(log[rsalt[c]]) :
           log'[rsalt[c]][i] = log[rsalt[c]][i]
  BY AttachedKept
<1>2. pullIndex[c] <= Len(log[rsalt[c]]) /\ Matches(c) /\ UpTo(c, pullIndex[c])
  BY <1>1 DEF HistoryInv
<1>3. pullIndex[c] \in Nat
  BY PullTypes
<1>4. Matches(c)'
  BY <1>1, <1>2 DEF Matches
<1>5. UpTo(c, pullIndex[c])'
  BY <1>2 DEF UpTo
<1> QED BY <1>1, <1>2, <1>3, <1>4, <1>5

LEMMA PullingKept ==
  ASSUME TypeOK, TypeOK', LogsGrow, NEW c \in Clients, Attached(c)',
         rsalt'[c] = rsalt[c], pull'[c] = pull[c], pullIndex'[c] = pullIndex[c],
         at'[c] = at[c], todo'[c] = todo[c], Pulling(c)
  PROVE  Pulling(c)'
<1>1. /\ Attached(c)
      /\ Len(log[rsalt[c]]) \in Nat /\ Len(log'[rsalt[c]]) \in Nat
      /\ Len(log[rsalt[c]]) <= Len(log'[rsalt[c]])
      /\ \A i \in 1..Len(log[rsalt[c]]) :
           log'[rsalt[c]][i] = log[rsalt[c]][i]
  BY AttachedKept
<1>2. at[c] \in Nat /\ Len(todo[c]) \in Nat
  BY PullTypes
<1>3. \A i \in 1..Len(todo[c]) : at[c] + i \in 1..Len(log[rsalt[c]])
  <2>1. at[c] + Len(todo[c]) <= Len(log[rsalt[c]])
    BY DEF Pulling
  <2> QED BY <1>1, <1>2, <2>1
<1>4. pullIndex'[c] <= at'[c] /\ UpTo(c, at[c])'
  BY DEF Pulling, UpTo
<1>5. at'[c] + Len(todo'[c]) <= Len(log'[rsalt'[c]])
  BY <1>1, <1>2 DEF Pulling
<1>6. \A i \in 1..Len(todo'[c]) :
        /\ todo'[c][i].idx = at'[c] + i
        /\ log'[rsalt'[c]][at'[c] + i] = Entry(todo'[c][i])
  BY <1>1, <1>3 DEF Pulling
<1> QED BY <1>4, <1>5, <1>6 DEF Pulling

\* Whatever others do
LEMMA HistoryStays ==
  ASSUME TypeOK, TypeOK', LogsGrow, NEW c \in Clients, HistoryInv(c),
         Untouched(c)
  PROVE  HistoryInv(c)'
<1> USE DEF Untouched, Same, SameWrites
<1>1. ASSUME Attached(c)'
      PROVE  /\ pullIndex'[c] <= Len(log'[rsalt'[c]])
             /\ Matches(c)' /\ UpTo(c, pullIndex[c])'
  BY <1>1, MatchesKept
<1>2. ASSUME Attached(c)', phase'[c] \in {"applying", "recording"}
      PROVE  Pulling(c)'
  <2>1. Attached(c)
    BY <1>2, AttachedKept
  <2>2. Pulling(c)
    BY <1>2, <2>1 DEF HistoryInv
  <2> QED BY <1>2, <2>2, PullingKept
<1> QED BY <1>1, <1>2 DEF HistoryInv, LogsGrow

\* A step of the client outside of pull and Unsync
LEMMA HistoryMoved ==
  ASSUME TypeOK, TypeOK', LogsGrow, NEW c \in Clients, HistoryInv(c),
         rsalt'[c] = rsalt[c], pull'[c] = pull[c], pullIndex'[c] = pullIndex[c],
         remote'[c] \in {NoKey, rsalt[c]},
         rsalt[c] = NoKey => phase'[c] \in {"idle", "keying"},
         phase'[c] = "deleting" => req'[c].key = rsalt[c],
         phase'[c] \in {"idle", "posting", "posted", "refused", "clearing",
                        "pulling", "deleting"}
  PROVE  HistoryInv(c)'
<1>1. ASSUME Attached(c)'
      PROVE  /\ pullIndex'[c] <= Len(log'[rsalt'[c]])
             /\ Matches(c)' /\ UpTo(c, pullIndex[c])'
  BY <1>1, MatchesKept
<1> QED BY <1>1 DEF HistoryInv

-----------------------------------------------------------------------------
(* The client's own steps                                                   *)

\* Steps outside of pull and Unsync
LEMMA HistoryOutside ==
  ASSUME TypeOK, TypeOK', LogsGrow, NEW c \in Clients, HistoryInv(c),
         \/ LocalWrite(c) \/ Lock(c) \/ Sync(c) \/ ServePost(c) \/ Refused(c)
         \/ Posted(c) \/ ClearPush(c) \/ Pushed(c) \/ Pull(c) \/ Unsync(c)
         \/ Abort(c) \/ Crash(c)
  PROVE  HistoryInv(c)'
<1>0. /\ phase \in [Clients -> Phases] /\ remote \in [Clients -> Keys \cup {NoKey}]
      /\ req \in [Clients -> Request]
      /\ remote[c] \in {NoKey, rsalt[c]}
      /\ rsalt[c] = NoKey => phase[c] \in {"idle", "keying"}
  BY DEF TypeOK, SyncTypes, MemoryTypes, HistoryInv
<1> USE DEF storeVars
<1>1. CASE LocalWrite(c) \/ Lock(c)
  <2>1. /\ UNCHANGED <<pull, pullIndex, rsalt, syncVars>>
        /\ remote'[c] \in {NoKey, rsalt[c]}
    BY <1>0, <1>1 DEF LocalWrite, SetItem, RemoveDoc, BeginWrite,
                      NextPushIndex, AddToPush, Lock, memVars
  <2>2. ASSUME Attached(c)'
        PROVE  /\ pullIndex'[c] <= Len(log'[rsalt'[c]])
               /\ Matches(c)' /\ UpTo(c, pullIndex[c])'
    BY <2>1, <2>2, MatchesKept
  <2>3. ASSUME Attached(c)', phase'[c] \in {"applying", "recording"}
        PROVE  Pulling(c)'
    <3>1. Attached(c)
      BY <2>1, <2>3, AttachedKept
    <3>2. Pulling(c)
      BY <2>1, <2>3, <3>1 DEF HistoryInv, syncVars
    <3> QED BY <2>1, <2>3, <3>2, PullingKept DEF syncVars
  <2> QED BY <2>1, <2>2, <2>3 DEF HistoryInv, syncVars, LogsGrow
<1>2. CASE Sync(c) \/ ServePost(c) \/ Refused(c)
  <2>1. /\ UNCHANGED <<pull, pullIndex, rsalt, remote>> /\ rsalt[c] # NoKey
        /\ phase'[c] \in {"idle", "posting", "posted", "refused", "pulling"}
    BY <1>0, <1>2 DEF Sync, ServePost, Refused, Goto, memVars
  <2> QED BY <1>0, <2>1, HistoryMoved
<1>3. CASE Posted(c) \/ ClearPush(c) \/ Pushed(c) \/ Pull(c)
  <2>1. /\ UNCHANGED <<pull, pullIndex, rsalt, remote>> /\ rsalt[c] # NoKey
        /\ phase'[c] \in {"clearing", "pulling"}
    BY <1>0, <1>3 DEF Posted, ClearPush, Pushed, Pull, Goto, memVars
  <2> QED BY <1>0, <2>1, HistoryMoved
<1>4. CASE Unsync(c)
  <2>1. /\ UNCHANGED <<pull, pullIndex, rsalt, remote>> /\ rsalt[c] # NoKey
        /\ phase'[c] = "deleting" /\ req'[c].key = rsalt[c]
    BY <1>0, <1>4 DEF Unsync, Goto, memVars
  <2> QED BY <1>0, <2>1, HistoryMoved
<1>5. CASE Abort(c) \/ Crash(c)
  <2>1. /\ UNCHANGED <<pull, pullIndex, rsalt>> /\ phase'[c] = "idle"
        /\ remote'[c] \in {NoKey, rsalt[c]}
    BY <1>0, <1>5 DEF Abort, Crash, StopSync, Goto, memVars
  <2> QED BY <2>1, HistoryMoved
<1> QED BY <1>1, <1>2, <1>3, <1>4, <1>5

\* A salt made by Unlock or by Unsync belongs to a vault nobody has pulled.
LEMMA HistoryUnlock ==
  ASSUME TypeOK, TypeOK', LogsGrow, NEW c \in Clients, HistoryInv(c), Unlock(c)
  PROVE  HistoryInv(c)'
<1>0. /\ rsalt \in [Clients -> Keys \cup {NoKey}]
      /\ remote \in [Clients -> Keys \cup {NoKey}]
      /\ UNCHANGED <<pull, pullIndex, syncVars>>
      /\ remote'[c] \in {NoKey, rsalt'[c]}
  BY DEF TypeOK, StoreTypes, MemoryTypes, Unlock
<1>1. CASE rsalt[c] # NoKey
  <2>1. rsalt' = rsalt
    BY <1>1 DEF Unlock
  <2>2. ASSUME Attached(c)'
        PROVE  /\ pullIndex'[c] <= Len(log'[rsalt'[c]])
               /\ Matches(c)' /\ UpTo(c, pullIndex[c])'
    BY <1>0, <2>1, <2>2, MatchesKept
  <2>3. ASSUME Attached(c)', phase'[c] \in {"applying", "recording"}
        PROVE  Pulling(c)'
    <3>1. Attached(c)
      BY <2>1, <2>3, AttachedKept
    <3>2. Pulling(c)
      BY <1>0, <2>3, <3>1 DEF HistoryInv, syncVars
    <3> QED BY <1>0, <2>1, <2>3, <3>2, PullingKept DEF syncVars
  <2> QED BY <1>0, <1>1, <2>1, <2>2, <2>3 DEF HistoryInv, syncVars, LogsGrow
<1>2. CASE rsalt[c] = NoKey
  <2>1. /\ phase[c] \in {"idle", "keying"} /\ pull[c] = {} /\ pullIndex[c] = 0
    BY <1>2 DEF HistoryInv
  <2>2. rsalt'[c] # NoKey
    BY <1>0, <1>2 DEF Unlock, TypeOK, HistoryTypes, Keys, NoKey
  <2>3. ASSUME Attached(c)'
        PROVE  /\ pullIndex'[c] <= Len(log'[rsalt'[c]])
               /\ Matches(c)' /\ UpTo(c, pullIndex[c])'
    <3>1. Len(log'[rsalt'[c]]) \in Nat
      BY <2>2 DEF TypeOK, StoreTypes, ServerTypes
    <3> QED BY <1>0, <2>1, <3>1 DEF Matches, UpTo
  <2> QED BY <1>0, <2>1, <2>2, <2>3 DEF HistoryInv, syncVars
<1> QED BY <1>1, <1>2

\* A response holds the events that follow the index it was asked for.
LEMMA ReceivePulls ==
  ASSUME TypeOK, NEW c \in Clients, NEW k \in Keys, NEW i \in Nat,
         Receive(c, k, i), rsalt'[c] = k, log' = log, pull' = pull,
         pullIndex' = pullIndex, pullIndex[c] <= i, i <= Len(log[k]),
         UpTo(c, i)
  PROVE  Pulling(c)'
<1> DEFINE r == EventsAfter(k, i)
<1>1. /\ r \in Seq(Doc) /\ Len(r) \in Nat /\ log[k] \in Seq(Event)
      /\ Len(r) > 0 => i + Len(r) <= Len(log[k])
      /\ \A j \in 1..Len(r) : r[j] = Numbered(k, i + j)
  BY ResponseTypes DEF TypeOK, ServerTypes
<1>2. todo'[c] = r /\ at'[c] = i
  BY DEF Receive, TypeOK, SyncTypes
<1> HIDE DEF r
<1>3. i + Len(r) <= Len(log[k])
  BY <1>1
<1>4. ASSUME NEW j \in 1..Len(r)
      PROVE  r[j].idx = i + j /\ log[k][i + j] = Entry(r[j])
  <2>1. i + j \in 1..Len(log[k])
    BY <1>1, <1>3
  <2>2. log[k][i + j] \in Event
    BY <1>1, <2>1
  <2>3. \A e \in Event : e = [path |-> e.path, data |-> e.data]
    BY DEF Event
  <2>4. /\ r[j].idx = i + j
        /\ r[j].path = log[k][i + j].path /\ r[j].data = log[k][i + j].data
    <3>1. r[j] = Numbered(k, i + j)
      BY <1>1
    <3> QED BY <3>1 DEF Numbered
  <2> QED BY <2>2, <2>3, <2>4 DEF Entry
<1>5. pullIndex'[c] <= at'[c] /\ UpTo(c, at[c])'
  BY <1>2 DEF UpTo
<1> QED BY <1>2, <1>3, <1>4, <1>5 DEF Pulling

\* A response starts where the pull index is, or at the beginning for a clone.
LEMMA HistoryReceive ==
  ASSUME TypeOK, TypeOK', LogsGrow, NEW c \in Clients, HistoryInv(c),
         PullNext(c) \/ \E k \in 1..keys : Clone(c, k)
  PROVE  HistoryInv(c)'
<1>0. /\ phase \in [Clients -> Phases] /\ pullIndex \in [Clients -> Nat]
      /\ rsalt \in [Clients -> Keys \cup {NoKey}]
      /\ remote \in [Clients -> Keys \cup {NoKey}]
      /\ UNCHANGED <<pull, pullIndex, remote, log, removed>>
      /\ \A k \in Keys : Len(log[k]) \in Nat
      /\ keys \in Keys
  BY DEF TypeOK, SyncTypes, StoreTypes, MemoryTypes, ServerTypes, HistoryTypes,
         PullNext, Clone, storeVars, memVars, netVars
<1>1. CASE PullNext(c)
  <2>1. rsalt' = rsalt /\ rsalt[c] # NoKey /\ remote[c] \in {NoKey, rsalt[c]}
    BY <1>1 DEF PullNext, HistoryInv, storeVars
  <2>2. CASE remote[c] = NoKey \/ Missing(remote[c], pullIndex[c])
    <3>1. phase'[c] = "idle"
      BY <1>0, <1>1, <2>2 DEF PullNext, Goto
    <3> QED BY <1>0, <2>1, <3>1, HistoryMoved
  <2>3. CASE Receive(c, rsalt[c], pullIndex[c])
    <3>1. phase'[c] = "applying"
      BY <1>0, <2>3 DEF Receive, Goto
    <3>2. ASSUME Attached(c)'
          PROVE  /\ pullIndex'[c] <= Len(log'[rsalt'[c]])
                 /\ Matches(c)' /\ UpTo(c, pullIndex[c])'
      BY <1>0, <2>1, <3>2, MatchesKept
    <3>3. ASSUME Attached(c)' PROVE Pulling(c)'
      <4>1. /\ rsalt[c] \in Keys /\ pullIndex[c] \in Nat
            /\ pullIndex[c] <= Len(log[rsalt[c]]) /\ UpTo(c, pullIndex[c])
        BY <1>0, <2>1, <3>3 DEF HistoryInv, Attached
      <4> QED BY <1>0, <2>1, <2>3, <4>1, ReceivePulls
    <3> QED BY <1>0, <2>1, <3>1, <3>2, <3>3 DEF HistoryInv
  <2> QED BY <1>1, <2>1, <2>2, <2>3 DEF PullNext
<1>2. ASSUME NEW k \in 1..keys, Clone(c, k) PROVE HistoryInv(c)'
  <2>1. /\ k \in Keys /\ rsalt'[c] = k /\ k # NoKey /\ remote'[c] = NoKey
        /\ pull[c] = {} /\ pullIndex[c] = 0 /\ phase[c] = "idle"
    BY <1>0, <1>2, BoundsAssumption DEF Clone, IsEmpty, Idle, Keys, NoKey
  <2>2. /\ pullIndex'[c] <= Len(log'[rsalt'[c]])
        /\ Matches(c)' /\ UpTo(c, pullIndex[c])'
    BY <1>0, <2>1 DEF Matches, UpTo
  <2>3. CASE phase' = phase
    BY <1>0, <2>1, <2>2, <2>3 DEF HistoryInv
  <2>4. CASE Receive(c, k, 0)
    <3>1. phase'[c] = "applying"
      BY <1>0, <2>4 DEF Receive, Goto
    <3>2. UpTo(c, 0)
      BY DEF UpTo
    <3>3. Pulling(c)'
      BY <1>0, <2>1, <2>4, <3>2, ReceivePulls
    <3> QED BY <1>0, <2>1, <2>2, <3>1, <3>3 DEF HistoryInv
  <2> QED BY <1>2, <2>3, <2>4 DEF Clone
<1> QED BY <1>1, <1>2

\* An event goes to the pull log under its own index.
LEMMA HistoryRecord ==
  ASSUME TypeOK, TypeOK', LogsGrow, NEW c \in Clients, HistoryInv(c),
         RecordEvent(c)
  PROVE  HistoryInv(c)'
<1> DEFINE e == Head(todo[c])
           k == rsalt[c]
<1>0. /\ pull'[c] = Put(pull[c], e) /\ at'[c] = e.idx /\ todo'[c] = Tail(todo[c])
      /\ phase[c] = "recording" /\ phase'[c] = "applying"
      /\ UNCHANGED <<pullIndex, rsalt, remote, log, removed>>
      /\ todo[c] \in Seq(Doc) /\ todo[c] # <<>>
  BY DEF TypeOK, SyncTypes, StoreTypes, RecordEvent, Goto, memVars, netVars
<1>1. /\ e = todo[c][1] /\ 1 \in 1..Len(todo[c])
      /\ Len(todo'[c]) = Len(todo[c]) - 1
      /\ \A i \in 1..Len(todo'[c]) : /\ todo'[c][i] = todo[c][i + 1]
                                     /\ i + 1 \in 1..Len(todo[c])
      /\ Len(todo[c]) \in Nat
  BY <1>0
<1> HIDE DEF e
<1>2. ASSUME Attached(c)'
      PROVE  /\ pullIndex'[c] <= Len(log'[k])
             /\ Matches(c)' /\ UpTo(c, pullIndex[c])' /\ Pulling(c)'
  <2>1. /\ pullIndex[c] <= Len(log[k]) /\ Matches(c) /\ UpTo(c, pullIndex[c])
        /\ Pulling(c) /\ pullIndex[c] \in Nat /\ at[c] \in Nat
        /\ Len(log[k]) \in Nat
    BY <1>0, <1>2, PullTypes DEF HistoryInv, Attached
  <2>2. e.idx = at[c] + 1 /\ log[k][at[c] + 1] = Entry(e)
    BY <1>1, <2>1 DEF Pulling
  <2>3. at[c] + Len(todo[c]) <= Len(log[k]) /\ pullIndex[c] <= at[c]
    BY <2>1 DEF Pulling
  <2>4. at[c] + 1 \in 1..Len(log[k])
    BY <1>1, <2>1, <2>3
  <2>5. Matches(c)'
    BY <1>0, <2>1, <2>2, <2>4 DEF Matches, Put
  <2>6. ASSUME NEW i, \E d \in pull[c] : d.idx = i
        PROVE  \E d \in pull'[c] : d.idx = i
    BY <1>0, <2>6 DEF Put
  <2>7. UpTo(c, pullIndex[c])'
    BY <1>0, <2>1, <2>6 DEF UpTo
  <2>8. UpTo(c, at[c])'
    <3>1. \A i \in 1..at[c] : \E d \in pull'[c] : d.idx = i
      BY <2>1, <2>6 DEF Pulling, UpTo
    <3>2. e \in pull'[c]
      BY <1>0 DEF Put
    <3> QED BY <1>0, <2>1, <2>2, <3>1, <3>2 DEF UpTo
  <2>9. Pulling(c)'
    <3>1. \A i \in 1..Len(todo'[c]) :
            /\ todo'[c][i].idx = at'[c] + i
            /\ log'[k][at'[c] + i] = Entry(todo'[c][i])
      <4> SUFFICES ASSUME NEW i \in 1..Len(todo'[c])
                   PROVE  /\ todo'[c][i].idx = at'[c] + i
                          /\ log'[k][at'[c] + i] = Entry(todo'[c][i])
        OBVIOUS
      <4>1. i + 1 \in 1..Len(todo[c]) /\ todo'[c][i] = todo[c][i + 1]
        BY <1>1
      <4>2. /\ todo[c][i + 1].idx = at[c] + (i + 1)
            /\ log[k][at[c] + (i + 1)] = Entry(todo[c][i + 1])
        BY <2>1, <4>1 DEF Pulling
      <4>3. at'[c] + i = at[c] + (i + 1)
        <5>1. at'[c] = at[c] + 1 /\ i \in Int /\ at[c] \in Nat
          BY <1>0, <2>1, <2>2
        <5> QED BY <5>1
      <4> QED BY <1>0, <4>1, <4>2, <4>3
    <3>2. pullIndex'[c] <= at'[c] /\ at'[c] + Len(todo'[c]) <= Len(log'[k])
      BY <1>0, <1>1, <2>1, <2>2, <2>3
    <3> QED BY <1>0, <2>8, <3>1, <3>2 DEF Pulling
  <2> QED BY <1>0, <2>1, <2>5, <2>7, <2>9
<1> QED BY <1>0, <1>2 DEF HistoryInv

\* Applying an event changes nothing here; the pull index moves to where the
\* pull log is complete.
LEMMA HistoryApply ==
  ASSUME TypeOK, TypeOK', LogsGrow, NEW c \in Clients, HistoryInv(c),
         ApplyEvent(c)
  PROVE  HistoryInv(c)'
<1>1. /\ phase[c] = "applying" /\ phase'[c] = "recording"
      /\ UNCHANGED <<pull, pullIndex, rsalt, remote, at, todo>>
  BY DEF ApplyEvent, Goto, TypeOK, SyncTypes, memVars
<1>2. ASSUME Attached(c)'
      PROVE  /\ pullIndex'[c] <= Len(log'[rsalt'[c]])
             /\ Matches(c)' /\ UpTo(c, pullIndex[c])'
  BY <1>1, <1>2, MatchesKept
<1>3. ASSUME Attached(c)' PROVE Pulling(c)'
  <2>1. Attached(c)
    BY <1>1, <1>3, AttachedKept
  <2>2. Pulling(c)
    BY <1>1, <2>1 DEF HistoryInv
  <2> QED BY <1>1, <1>3, <2>2, PullingKept
<1> QED BY <1>1, <1>2, <1>3 DEF HistoryInv

LEMMA HistoryPulled ==
  ASSUME TypeOK, TypeOK', LogsGrow, NEW c \in Clients, HistoryInv(c),
         PullDone(c)
  PROVE  HistoryInv(c)'
<1>1. /\ phase[c] = "applying" /\ phase'[c] \in {"pulling", "idle"}
      /\ todo[c] = <<>> /\ pullIndex'[c] = at[c] /\ at[c] \in Nat
      /\ UNCHANGED <<pull, rsalt, log, removed>>
      /\ remote'[c] \in {remote[c], rsalt[c]}
  BY DEF PullDone, Goto, TypeOK, SyncTypes, StoreTypes, MemoryTypes, netVars
<1>2. ASSUME Attached(c)'
      PROVE  /\ pullIndex'[c] <= Len(log'[rsalt'[c]])
             /\ Matches(c)' /\ UpTo(c, pullIndex[c])'
  <2>1. Matches(c) /\ Pulling(c)
    BY <1>1, <1>2 DEF HistoryInv, Attached
  <2>2. at[c] <= Len(log[rsalt[c]]) /\ UpTo(c, at[c])
    BY <1>1, <2>1 DEF Pulling
  <2> QED BY <1>1, <2>1, <2>2 DEF Matches, UpTo
<1> QED BY <1>1, <1>2 DEF HistoryInv

\* Unsync: from here on the vault is gone.
LEMMA HistoryDelete ==
  ASSUME TypeOK, TypeOK', LogsGrow, NEW c \in Clients, HistoryInv(c),
         ServeDelete(c)
  PROVE  HistoryInv(c)'
<1>1. /\ phase[c] = "deleting" /\ phase'[c] \in {"refused", "deleted"}
      /\ UNCHANGED <<pull, pullIndex, rsalt, remote, req>>
      /\ rsalt[c] \in removed' /\ rsalt[c] # NoKey
  BY DEF ServeDelete, RemoveLog, Goto, TypeOK, SyncTypes, HistoryInv,
         storeVars, memVars
<1> QED BY <1>1 DEF HistoryInv, Attached

\* Unsync: the vault is gone, and the loops over the logs work on their listing.
LEMMA HistoryReset ==
  ASSUME TypeOK, TypeOK', LogsGrow, NEW c \in Clients, HistoryInv(c),
         \/ ResetLog(c) \/ CopyPush(c) \/ MovePull(c) \/ ClearStatus(c)
  PROVE  HistoryInv(c)'
<1>0. /\ phase \in [Clients -> Phases] /\ todo \in [Clients -> Seq(Doc)]
      /\ pull \in [Clients -> SUBSET Doc] /\ pullIndex \in [Clients -> Nat]
      /\ phase[c] \in {"deleted", "copying", "moving", "ending"}
      /\ rsalt[c] \in removed /\ rsalt[c] # NoKey
      /\ remote[c] \in {NoKey, rsalt[c]}
      /\ UNCHANGED <<rsalt, remote, removed>>
      /\ IsFiniteSet(pull[c])
  BY DEF ResetLog, CopyPush, MovePull, ClearStatus, TypeOK, SyncTypes,
         StoreTypes, HistoryInv, memVars, netVars
<1>1. CASE ResetLog(c)
  BY <1>0, <1>1 DEF ResetLog, Goto, HistoryInv, Attached
<1>2. CASE CopyPush(c)
  <2>1. CASE todo[c] = <<>>
    <3>1. phase'[c] = "moving" /\ todo'[c] = Listing(pull[c]) /\ pull' = pull
      BY <1>0, <1>2, <2>1 DEF CopyPush, Goto
    <3>2. \A d \in pull[c] : \E i \in 1..Len(todo'[c]) : todo'[c][i] = d
      <4>1. pull[c] \in SUBSET Doc /\ IsFiniteSet(pull[c])
        BY <1>0
      <4> QED BY <3>1, <4>1, ListingIsComplete
    <3> QED BY <1>0, <3>1, <3>2 DEF HistoryInv, Attached
  <2>2. CASE todo[c] # <<>>
    BY <1>0, <1>2, <2>2 DEF CopyPush, HistoryInv, Attached
  <2> QED BY <2>1, <2>2
<1>3. CASE MovePull(c)
  <2>0. /\ phase[c] = "moving"
        /\ \A d \in pull[c] : \E i \in 1..Len(todo[c]) : todo[c][i] = d
    BY <1>3 DEF MovePull, HistoryInv
  <2>1. CASE todo[c] = <<>>
    <3>1. pull[c] = {} /\ pull' = pull /\ phase'[c] = "ending"
      BY <1>0, <1>3, <2>0, <2>1 DEF MovePull, Goto
    <3> QED BY <1>0, <3>1 DEF HistoryInv, Attached
  <2>2. CASE todo[c] # <<>>
    <3>1. /\ phase' = phase /\ todo'[c] = Tail(todo[c])
          /\ pull'[c] = pull[c] \ {todo[c][1]}
      BY <1>0, <1>3, <2>2 DEF MovePull
    <3>2. \A i \in 1..Len(todo[c]) :
            i # 1 => /\ i - 1 \in 1..Len(todo'[c])
                     /\ todo'[c][i - 1] = todo[c][i]
      BY <1>0, <2>2, <3>1
    <3>3. \A d \in pull'[c] : \E i \in 1..Len(todo'[c]) : todo'[c][i] = d
      BY <2>0, <3>1, <3>2
    <3> QED BY <1>0, <2>0, <3>1, <3>3 DEF HistoryInv, Attached
  <2> QED BY <2>1, <2>2
<1>4. CASE ClearStatus(c)
  BY <1>0, <1>4 DEF ClearStatus, Goto, HistoryInv, Attached
<1> QED BY <1>1, <1>2, <1>3, <1>4

\* The pull index is cleared before the salt is.
LEMMA HistoryRenew ==
  ASSUME TypeOK, TypeOK', LogsGrow, NEW c \in Clients, HistoryInv(c),
         ClearRemote(c) \/ NewRemote(c)
  PROVE  HistoryInv(c)'
<1>0. /\ phase \in [Clients -> Phases]
      /\ rsalt \in [Clients -> Keys \cup {NoKey}]
      /\ remote \in [Clients -> Keys \cup {NoKey}]
      /\ UNCHANGED <<pull, pullIndex, removed>>
  BY DEF ClearRemote, NewRemote, TypeOK, SyncTypes, StoreTypes, MemoryTypes,
         netVars
<1>1. CASE ClearRemote(c)
  BY <1>0, <1>1 DEF ClearRemote, Goto, HistoryInv, Attached
<1>2. CASE NewRemote(c)
  <2>1. phase[c] = "keying" /\ phase'[c] = "idle"
    BY <1>0, <1>2 DEF NewRemote, Goto
  <2>2. CASE UNCHANGED <<rsalt, remote>>
    BY <1>0, <2>1, <2>2, HistoryMoved DEF HistoryInv
  <2>3. CASE /\ rsalt[c] = NoKey /\ rsalt'[c] = keys + 1
             /\ remote'[c] = keys + 1
    <3>1. pull[c] = {} /\ pullIndex[c] = 0 /\ rsalt'[c] # NoKey
      BY <2>3 DEF HistoryInv, TypeOK, HistoryTypes, Keys, NoKey
    <3>2. Len(log'[rsalt'[c]]) \in Nat
      BY <3>1 DEF TypeOK, StoreTypes, ServerTypes
    <3> QED BY <1>0, <2>1, <2>3, <3>1, <3>2 DEF HistoryInv, Matches, UpTo
  <2> QED BY <1>0, <1>2, <2>2, <2>3 DEF NewRemote
<1> QED BY <1>1, <1>2

-----------------------------------------------------------------------------

HistoryInvAll == \A c \in Clients : HistoryInv(c)

LEMMA HistoryInvInit == Init => HistoryInvAll
<1> SUFFICES ASSUME Init, NEW c \in Clients PROVE HistoryInv(c)
  BY DEF HistoryInvAll
<1>1. /\ phase[c] = "idle" /\ remote[c] = rsalt[c]
      /\ pull[c] = {} /\ pullIndex[c] = 0
      /\ rsalt[c] \in {1, NoKey} /\ log = [k \in Keys |-> <<>>]
  BY DEF Init
<1>2. rsalt[c] # NoKey => log[rsalt[c]] = <<>>
  BY <1>1, ConstantTypes
<1>3. Attached(c) => Len(log[rsalt[c]]) = 0
  BY <1>2 DEF Attached
<1> QED BY <1>1, <1>3 DEF HistoryInv, Matches, UpTo

LEMMA HistoryInvNext ==
  ASSUME TypeOK, HistoryInvAll, [Next]_vars
  PROVE  HistoryInvAll'
<1>1. TypeOK' /\ LogsGrow
  BY TypeNext, LogsGrowStep
<1> SUFFICES ASSUME NEW c \in Clients PROVE HistoryInv(c)'
  BY DEF HistoryInvAll
<1>2. HistoryInv(c)
  BY DEF HistoryInvAll
<1>3. CASE UNCHANGED vars \/ ServeStray
  BY <1>1, <1>2, <1>3, ServerAlone, HistoryStays
<1>4. ASSUME NEW d \in Clients, d # c,
             \/ LocalWrite(d) \/ Unlock(d) \/ Lock(d)
             \/ Start(d) \/ SyncStep(d) \/ Abort(d) \/ Crash(d)
      PROVE  HistoryInv(c)'
  BY <1>1, <1>2, <1>4, OtherClient, HistoryStays
<1>5. ASSUME \/ LocalWrite(c) \/ Unlock(c) \/ Lock(c)
             \/ Start(c) \/ SyncStep(c) \/ Abort(c) \/ Crash(c)
      PROVE  HistoryInv(c)'
  <2> USE <1>1, <1>2
  <2>1. CASE \/ LocalWrite(c) \/ Lock(c) \/ Sync(c) \/ ServePost(c)
             \/ Refused(c) \/ Posted(c) \/ ClearPush(c) \/ Pushed(c)
             \/ Pull(c) \/ Unsync(c) \/ Abort(c) \/ Crash(c)
    BY <2>1, HistoryOutside
  <2>2. CASE Unlock(c)
    BY <2>2, HistoryUnlock
  <2>3. CASE \/ PullNext(c) \/ (\E k \in 1..keys : Clone(c, k))
             \/ ApplyEvent(c) \/ RecordEvent(c) \/ PullDone(c)
    BY <2>3, HistoryReceive, HistoryApply, HistoryRecord, HistoryPulled
  <2>4. CASE \/ ServeDelete(c) \/ ResetLog(c) \/ CopyPush(c) \/ MovePull(c)
             \/ ClearStatus(c) \/ ClearRemote(c) \/ NewRemote(c)
    BY <2>4, HistoryDelete, HistoryReset, HistoryRenew
  <2> QED BY <1>5, <2>1, <2>2, <2>3, <2>4, StepCases
<1> QED BY <1>3, <1>4, <1>5 DEF Next

\* saveRemoteVault writes the events of a response in order and moves the pull
\* index only once all of them are in the pull log, Unsync drops the pull log
\* only after the remote vault, and a Clone starts from an empty store: so the
\* pull log is the remote vault's, up to where the pull has got.
THEOREM HistoryInvariant == Spec => []HistoryInvAll
<1>1. Init => TypeOK /\ HistoryInvAll
  BY TypeInit, HistoryInvInit
<1>2. TypeOK /\ HistoryInvAll /\ [Next]_vars => TypeOK' /\ HistoryInvAll'
  BY TypeNext, HistoryInvNext
<1> QED BY <1>1, <1>2, PTL DEF Spec

\* The history a client shows (ItemHistory) is the remote vault's, without gaps
\* up to the pull index, whatever pulls were cut off and repeated.
THEOREM HistoryIsComplete == Spec => []HistoryComplete
<1>1. HistoryInvAll => HistoryComplete
  BY DEF HistoryInvAll, HistoryInv, HistoryComplete, Attached, Matches, UpTo
<1> QED BY <1>1, HistoryInvariant, PTL

-----------------------------------------------------------------------------
(* Syncing implements VaultHistory                                          *)

\* The first n events of a vault
Past(l, n) == [i \in 1..n |-> l[i]]

\* The abstract history of a client is what its vault held up to its pull
\* index.
HistoryShape ==
  /\ \A c \in Clients : Member[c] # NoKey =>
       Member[c] \in Keys \ removed /\ pullIndex[c] <= Len(log[Member[c]])
  /\ History = [c \in Clients |-> IF Member[c] = NoKey THEN <<>>
                                  ELSE Past(log[Member[c]], pullIndex[c])]

LEMMA HistoryHasShape ==
  ASSUME TypeOK, HistoryInvAll
  PROVE  HistoryShape
<1>1. ASSUME NEW c \in Clients, Member[c] # NoKey
      PROVE  /\ Member[c] = rsalt[c] /\ Attached(c) /\ rsalt[c] \in Keys \ removed
             /\ pullIndex[c] <= Len(log[rsalt[c]])
             /\ Matches(c) /\ UpTo(c, pullIndex[c])
  <2>1. Member[c] = rsalt[c] /\ rsalt[c] # NoKey /\ rsalt[c] \notin removed
    BY <1>1 DEF Member
  <2> QED BY <2>1, PullTypes DEF Attached, HistoryInvAll, HistoryInv
<1>2. ASSUME NEW c \in Clients, Member[c] # NoKey
      PROVE  \A i \in 1..pullIndex[c] : Entry(Pulled(c, i)) = log[rsalt[c]][i]
  <2> TAKE i \in 1..pullIndex[c]
  <2>1. \E d \in pull[c] : d.idx = i
    BY <1>1, <1>2 DEF UpTo
  <2>2. Pulled(c, i) \in pull[c] /\ Pulled(c, i).idx = i
    BY <2>1 DEF Pulled
  <2> QED BY <1>1, <1>2, <2>2 DEF Matches
<1>3. ASSUME NEW c \in Clients
      PROVE  History[c] = IF Member[c] = NoKey THEN <<>>
                          ELSE Past(log[Member[c]], pullIndex[c])
  <2>1. CASE Member[c] = NoKey
    BY <2>1 DEF History
  <2>2. CASE Member[c] # NoKey
    <3>1. History[c] = [i \in 1..pullIndex[c] |-> Entry(Pulled(c, i))]
      BY <2>2 DEF History
    <3> QED BY <1>1, <1>2, <2>2, <3>1 DEF Past
  <2> QED BY <2>1, <2>2
<1> QED BY <1>1, <1>3 DEF HistoryShape, History

\* A history is no longer than the vault it comes from.
LEMMA PastTypes ==
  ASSUME NEW l \in Seq(Event), NEW n \in Nat, n <= Len(l)
  PROVE  /\ Past(l, n) \in Seq(Event) /\ Len(Past(l, n)) = n
         /\ Past(l, n) = SubSeq(l, 1, n)
<1>1. \A i \in 1..n : l[i] \in Event
  OBVIOUS
<1>2. Past(l, n) \in Seq(Event) /\ Len(Past(l, n)) = n
  BY <1>1 DEF Past
<1>3. /\ SubSeq(l, 1, n) \in Seq(Event) /\ Len(SubSeq(l, 1, n)) = n
      /\ \A i \in 1..n : SubSeq(l, 1, n)[i] = l[i]
  BY SubSeqProperties
<1>4. \A i \in 1..n : Past(l, n)[i] = l[i]
  BY DEF Past
<1> QED BY <1>2, <1>3, <1>4, SeqEqual

HistoryStep == [VH!Next]_(VH!vars)

LEMMA HistoryInit == Init => VH!Init
<1> SUFFICES ASSUME Init PROVE VH!Init
  OBVIOUS
<1>1. \A c \in Clients : pullIndex[c] = 0 /\ rsalt[c] \in {1, NoKey}
  BY DEF Init
<1>2. Member \in [Clients -> Keys \cup {NoKey}]
  BY <1>1, ConstantTypes DEF Member
<1>3. [i \in 1..0 |-> Entry(NoDoc)] = <<>>
  OBVIOUS
<1>4. History = [c \in Clients |-> <<>>]
  BY <1>1 DEF History
<1> QED BY <1>2, <1>4 DEF Init, VH!Init

\* A step that leaves vaults, membership and pull indexes alone is none.
LEMMA NoHistoryStep ==
  ASSUME HistoryShape, HistoryShape', UNCHANGED <<log, removed>>,
         \A c \in Clients :
           /\ Member'[c] = Member[c]
           /\ Member[c] # NoKey => pullIndex'[c] = pullIndex[c]
  PROVE  HistoryStep
<1>1. Member' = Member
  BY DEF Member
<1>2. History' = History
  BY <1>1 DEF HistoryShape
<1> QED BY <1>1, <1>2 DEF HistoryStep, VH!vars

\* A POST
LEMMA GrowStep ==
  ASSUME TypeOK, TypeOK', HistoryShape, HistoryShape',
         NEW r \in Request, Append2Log(r), r.key \notin removed,
         UNCHANGED <<removed, rsalt, pullIndex>>
  PROVE  HistoryStep
<1>1. r.key \in Keys /\ \A k \in Keys : Longer(k)
  BY AppendKeeps DEF Request
<1>2. \A k \in Keys : log[k] \in Seq(Event) /\ log'[k] \in Seq(Event)
  BY DEF TypeOK, ServerTypes
<1>3. log' = [log EXCEPT ![r.key] = log'[r.key]]
  BY <1>1 DEF Append2Log, TypeOK, ServerTypes
<1>4. Member' = Member
  BY DEF Member
<1>5. ASSUME NEW c \in Clients, Member[c] # NoKey
      PROVE  Past(log'[Member[c]], pullIndex[c]) = Past(log[Member[c]], pullIndex[c])
  <2>1. Member[c] \in Keys /\ pullIndex[c] <= Len(log[Member[c]])
    BY <1>5 DEF HistoryShape
  <2>2. pullIndex[c] \in Nat /\ Len(log[Member[c]]) \in Nat
    BY <1>2, <2>1 DEF TypeOK, StoreTypes
  <2> QED BY <1>1, <2>1, <2>2 DEF Past, Longer
<1>6. History' = History
  BY <1>4, <1>5 DEF HistoryShape
<1>7. VH!Extends(log'[r.key], log[r.key])
  BY <1>1 DEF Longer, VH!Extends
<1>8. VH!Grow(r.key)
  BY <1>1, <1>2, <1>3, <1>4, <1>6, <1>7 DEF VH!Grow
<1> QED BY <1>1, <1>8 DEF HistoryStep, VH!Next

\* A DELETE
LEMMA RemoveStep ==
  ASSUME TypeOK, TypeOK', HistoryShape, HistoryShape',
         NEW r \in Request, RemoveLog(r), UNCHANGED <<rsalt, pullIndex>>
  PROVE  HistoryStep
<1> DEFINE k == r.key
<1>1. /\ k \in Keys /\ k # NoKey
      /\ removed' = removed \cup {k} /\ log' = [log EXCEPT ![k] = <<>>]
      /\ \A j \in Keys : j # k => log'[j] = log[j]
  BY BoundsAssumption DEF RemoveLog, Request, Keys, NoKey, TypeOK, ServerTypes
<1>2. Member' = [c \in Clients |-> IF Member[c] = k THEN NoKey ELSE Member[c]]
  BY <1>1 DEF Member
<1>3. ASSUME NEW c \in Clients
      PROVE  History'[c] = IF Member[c] = k THEN <<>> ELSE History[c]
  <2>1. CASE Member[c] = k \/ Member[c] = NoKey
    BY <1>1, <1>2, <2>1 DEF HistoryShape
  <2>2. CASE Member[c] # k /\ Member[c] # NoKey
    <3>1. Member'[c] = Member[c] /\ Member[c] \in Keys
      BY <1>2, <2>2 DEF HistoryShape
    <3> QED BY <1>1, <2>2, <3>1 DEF HistoryShape
  <2> QED BY <2>1, <2>2
<1>4. History' = [c \in Clients |-> IF Member[c] = k THEN <<>> ELSE History[c]]
  BY <1>3 DEF History
<1>5. VH!Remove(k)
  BY <1>1, <1>2, <1>4 DEF VH!Remove
<1> QED BY <1>1, <1>5 DEF HistoryStep, VH!Next

\* A client gets a vault.
LEMMA JoinStep ==
  ASSUME TypeOK, TypeOK', HistoryShape, HistoryShape',
         NEW c \in Clients, NEW k \in Keys, rsalt' = [rsalt EXCEPT ![c] = k],
         Member[c] = NoKey, pullIndex[c] = 0,
         UNCHANGED <<log, removed, pullIndex>>
  PROVE  HistoryStep
<1>0. rsalt \in [Clients -> Keys \cup {NoKey}]
  BY DEF TypeOK, StoreTypes
<1>1. CASE k \in removed
  <2>1. \A d \in Clients : Member'[d] = Member[d]
    BY <1>0, <1>1 DEF Member
  <2> QED BY <2>1, NoHistoryStep
<1>2. CASE k \notin removed
  <2>1. Member' = [Member EXCEPT ![c] = k]
    BY <1>0, <1>2 DEF Member
  <2>2. k # NoKey
    BY BoundsAssumption DEF Keys, NoKey
  <2>3. Past(log[k], 0) = <<>>
    BY DEF Past
  <2>4. \A d \in Clients : History'[d] = History[d]
    BY <2>1, <2>2, <2>3 DEF HistoryShape, Member
  <2>5. History' = History
    BY <2>4 DEF HistoryShape
  <2>6. History[c] = <<>>
    BY DEF HistoryShape
  <2>7. VH!Join(c, k)
    BY <1>2, <2>1, <2>5, <2>6 DEF VH!Join
  <2> QED BY <2>7 DEF HistoryStep, VH!Next
<1> QED BY <1>1, <1>2

\* A client has pulled.
LEMMA CatchUpStep ==
  ASSUME TypeOK, TypeOK', HistoryShape, HistoryShape',
         NEW c \in Clients, NEW n \in Nat,
         pullIndex' = [pullIndex EXCEPT ![c] = n],
         Member[c] # NoKey => pullIndex[c] <= n /\ n <= Len(log[Member[c]]),
         UNCHANGED <<log, removed, rsalt>>
  PROVE  HistoryStep
<1>0. pullIndex \in [Clients -> Nat]
  BY DEF TypeOK, StoreTypes
<1>1. Member' = Member
  BY DEF Member
<1>2. CASE Member[c] = NoKey
  BY <1>0, <1>1, <1>2, NoHistoryStep
<1>3. CASE Member[c] # NoKey
  <2>1. /\ Member[c] \in Keys /\ pullIndex[c] \in Nat
        /\ log[Member[c]] \in Seq(Event) /\ Len(log[Member[c]]) \in Nat
    BY <1>0, <1>3 DEF HistoryShape, TypeOK, ServerTypes
  <2>2. /\ Len(History[c]) = pullIndex[c]
    BY <1>3, <2>1, PastTypes DEF HistoryShape
  <2>3. n \in Len(History[c])..Len(log[Member[c]])
    BY <1>3, <2>1, <2>2
  <2>4. Past(log[Member[c]], n) = SubSeq(log[Member[c]], 1, n)
    BY <1>3, <2>1, PastTypes
  <2>5. \A d \in Clients : History'[d] =
          IF d = c THEN SubSeq(log[Member[c]], 1, n) ELSE History[d]
    BY <1>0, <1>1, <1>3, <2>4 DEF HistoryShape
  <2>6. History' = [History EXCEPT ![c] = SubSeq(log[Member[c]], 1, n)]
    BY <2>5 DEF HistoryShape
  <2>7. VH!CatchUp(c)
    BY <1>1, <1>3, <2>3, <2>6 DEF VH!CatchUp
  <2> QED BY <2>7 DEF HistoryStep, VH!Next
<1> QED BY <1>2, <1>3

\* Every step of a client maps to a step of VaultHistory or to none.
LEMMA ClientHistoryStep ==
  ASSUME TypeOK, TypeOK', HistoryInvAll, HistoryShape, HistoryShape',
         NEW c \in Clients,
         \/ LocalWrite(c) \/ Unlock(c) \/ Lock(c)
         \/ Start(c) \/ SyncStep(c) \/ Abort(c) \/ Crash(c)
  PROVE  HistoryStep
<1>0. /\ rsalt \in [Clients -> Keys \cup {NoKey}]
      /\ pullIndex \in [Clients -> Nat]
      /\ req[c] \in Request /\ phase \in [Clients -> Phases]
      /\ keys \in Keys /\ HistoryInv(c)
  BY DEF TypeOK, StoreTypes, SyncTypes, HistoryTypes, HistoryInvAll
<1> USE DEF storeVars
<1>1. CASE UNCHANGED <<log, removed, rsalt, pullIndex>>
  BY <1>1, NoHistoryStep DEF Member
<1>2. CASE LocalWrite(c)
  BY <1>1, <1>2 DEF LocalWrite, SetItem, RemoveDoc, BeginWrite, NextPushIndex,
                    AddToPush, netVars
<1>3. CASE Lock(c) \/ Abort(c) \/ Crash(c)
  BY <1>1, <1>3 DEF Lock, Abort, Crash, netVars
<1>4. CASE \/ Sync(c) \/ Refused(c) \/ Posted(c) \/ ClearPush(c) \/ Pushed(c)
           \/ Pull(c) \/ PullNext(c) \/ ApplyEvent(c) \/ RecordEvent(c)
           \/ Unsync(c) \/ ResetLog(c) \/ CopyPush(c) \/ MovePull(c)
  <2> USE <1>1 DEF netVars
  <2>1. CASE Sync(c) \/ Refused(c) \/ Posted(c) \/ ClearPush(c) \/ Pushed(c)
    BY <2>1 DEF Sync, Refused, Posted, ClearPush, Pushed
  <2>2. CASE Pull(c) \/ PullNext(c) \/ ApplyEvent(c) \/ RecordEvent(c)
    BY <2>2 DEF Pull, PullNext, ApplyEvent, RecordEvent
  <2>3. CASE Unsync(c) \/ ResetLog(c) \/ CopyPush(c) \/ MovePull(c)
    BY <2>3 DEF Unsync, ResetLog, CopyPush, MovePull
  <2> QED BY <1>4, <2>1, <2>2, <2>3
<1>5. CASE ServePost(c)
  <2>1. UNCHANGED <<removed, rsalt, pullIndex>>
    BY <1>5 DEF ServePost
  <2>2. CASE Rejects(req[c])
    BY <1>1, <1>5, <2>1, <2>2 DEF ServePost
  <2>3. CASE ~Rejects(req[c])
    <3>1. Append2Log(req[c]) /\ req[c].key \notin removed
      BY <1>5, <2>3 DEF ServePost, Rejects
    <3> QED BY <1>0, <2>1, <3>1, GrowStep
  <2> QED BY <2>2, <2>3
<1>6. CASE ServeDelete(c)
  <2>1. RemoveLog(req[c]) /\ UNCHANGED <<rsalt, pullIndex>>
    BY <1>6 DEF ServeDelete
  <2> QED BY <1>0, <2>1, RemoveStep
<1>7. CASE \/ Unlock(c) /\ rsalt' # rsalt
           \/ NewRemote(c) /\ rsalt' # rsalt
  <2>1. /\ rsalt[c] = NoKey /\ rsalt' = [rsalt EXCEPT ![c] = keys + 1]
        /\ keys < MaxKeys /\ UNCHANGED <<log, removed, pullIndex>>
    BY <1>7 DEF Unlock, NewRemote, netVars
  <2>2. keys + 1 \in Keys /\ Member[c] = NoKey /\ pullIndex[c] = 0
    BY <1>0, <2>1, BoundsAssumption DEF Keys, Member, HistoryInv
  <2> QED BY <2>1, <2>2, JoinStep
<1>8. CASE \/ Unlock(c) /\ rsalt' = rsalt
           \/ NewRemote(c) /\ rsalt' = rsalt
  BY <1>1, <1>8 DEF Unlock, NewRemote, netVars
<1>9. ASSUME NEW k \in 1..keys, Clone(c, k) PROVE HistoryStep
  <2>1. /\ rsalt[c] = NoKey /\ rsalt' = [rsalt EXCEPT ![c] = k]
        /\ pullIndex[c] = 0 /\ UNCHANGED <<log, removed, pullIndex>>
    BY <1>9 DEF Clone, IsEmpty, netVars
  <2>2. k \in Keys /\ Member[c] = NoKey
    BY <1>0, <2>1, BoundsAssumption DEF Keys, Member
  <2> QED BY <2>1, <2>2, JoinStep
<1>10. CASE PullDone(c)
  <2>1. /\ pullIndex' = [pullIndex EXCEPT ![c] = at[c]]
        /\ UNCHANGED <<log, removed, rsalt>>
        /\ phase[c] = "applying" /\ todo[c] = <<>>
    BY <1>10 DEF PullDone, netVars
  <2>2. at[c] \in Nat
    BY PullTypes
  <2>3. ASSUME Member[c] # NoKey
        PROVE  pullIndex[c] <= at[c] /\ at[c] <= Len(log[Member[c]])
    <3>1. Member[c] = rsalt[c] /\ Attached(c)
      BY <2>3 DEF Member, Attached
    <3>2. Pulling(c)
      BY <1>0, <2>1, <3>1 DEF HistoryInv
    <3> QED BY <2>1, <2>2, <3>1, <3>2 DEF Pulling
  <2> QED BY <2>1, <2>2, <2>3, CatchUpStep
<1>11. CASE ClearStatus(c)
  <2>1. rsalt[c] \in removed
    BY <1>0, <1>11 DEF ClearStatus, HistoryInv
  <2>2. /\ pullIndex' = [pullIndex EXCEPT ![c] = 0]
        /\ UNCHANGED <<log, removed, rsalt>>
    BY <1>11 DEF ClearStatus, netVars
  <2> QED BY <1>0, <2>1, <2>2, NoHistoryStep DEF Member
<1>12. CASE ClearRemote(c)
  <2>1. rsalt[c] \in removed
    BY <1>0, <1>12 DEF ClearRemote, HistoryInv
  <2>2. /\ rsalt' = [rsalt EXCEPT ![c] = NoKey]
        /\ UNCHANGED <<log, removed, pullIndex>>
    BY <1>12 DEF ClearRemote, netVars
  <2>3. \A d \in Clients : Member'[d] = Member[d]
    BY <1>0, <2>1, <2>2 DEF Member
  <2> QED BY <2>2, <2>3, NoHistoryStep
<1> QED BY <1>2, <1>3, <1>4, <1>5, <1>6, <1>7, <1>8, <1>9, <1>10, <1>11,
           <1>12, StepCases

\* A step of VaultSync is a step of VaultHistory or a stutter.
LEMMA HistorySteps ==
  ASSUME TypeOK, TypeOK', HistoryInvAll, HistoryShape, HistoryShape',
         [Next]_vars
  PROVE  HistoryStep
<1>1. CASE UNCHANGED vars
  BY <1>1, NoHistoryStep DEF vars, storeVars, netVars, Member
<1>2. CASE ServeStray
  <2>1. PICK r \in stray :
          IF r.op = "delete"
            THEN RemoveLog(r)
            ELSE /\ IF Rejects(r) THEN UNCHANGED log ELSE Append2Log(r)
                 /\ UNCHANGED removed
    BY <1>2 DEF ServeStray
  <2>2. r \in Request /\ UNCHANGED <<rsalt, pullIndex>>
    BY <1>2 DEF TypeOK, ServerTypes, ServeStray, storeVars
  <2>3. CASE UNCHANGED <<log, removed>>
    BY <2>2, <2>3, NoHistoryStep DEF Member
  <2>4. CASE Append2Log(r) /\ ~Rejects(r) /\ UNCHANGED removed
    BY <2>2, <2>4, GrowStep DEF Rejects
  <2> QED BY <2>1, <2>2, <2>3, <2>4, RemoveStep
<1>3. ASSUME NEW c \in Clients,
             \/ LocalWrite(c) \/ Unlock(c) \/ Lock(c)
             \/ Start(c) \/ SyncStep(c) \/ Abort(c) \/ Crash(c)
      PROVE  HistoryStep
  BY <1>3, ClientHistoryStep
<1> QED BY <1>1, <1>2, <1>3 DEF Next

\* Syncing never rewrites a history: every step of VaultSync is one of
\* VaultHistory (a vault grows at its end or is removed, a client joins or
\* catches up) or changes nothing that VaultHistory shows.
THEOREM SyncImplementsHistory == Spec => ImplementsHistory
<1>1. TypeOK /\ HistoryInvAll => HistoryShape
  BY HistoryHasShape
<1>2. /\ TypeOK /\ TypeOK' /\ HistoryInvAll /\ HistoryShape /\ HistoryShape'
      /\ [Next]_vars
      => [VH!Next]_(VH!vars)
  BY HistorySteps DEF HistoryStep
<1> QED BY <1>1, <1>2, TypeCorrect, HistoryInvariant, HistoryInit, PTL
        DEF Spec, ImplementsHistory, VH!Spec

\* Two devices of one vault never show histories that differ (ItemHistory):
\* the one that has pulled less has the beginning of the other's.
OneHistory ==
  \A c, d \in Clients :
    Member[c] # NoKey /\ Member[c] = Member[d] =>
      VH!Extends(History[c], History[d]) \/ VH!Extends(History[d], History[c])

LEMMA PastExtends ==
  ASSUME NEW l \in Seq(Event), NEW n \in Nat, NEW m \in Nat, m <= n, n <= Len(l)
  PROVE  VH!Extends(Past(l, n), Past(l, m))
<1>1. Len(Past(l, n)) = n /\ Len(Past(l, m)) = m
  BY PastTypes
<1>2. \A i \in 1..m : Past(l, n)[i] = l[i] /\ Past(l, m)[i] = l[i]
  BY DEF Past
<1> QED BY <1>1, <1>2 DEF VH!Extends

\* Each device's history is the beginning of its vault's log, whatever is lost,
\* late or cut off, so the histories of one vault never diverge.
THEOREM HistoriesNeverDiverge == Spec => []OneHistory
<1>1. TypeOK /\ HistoryShape => OneHistory
  <2> SUFFICES ASSUME TypeOK, HistoryShape, NEW c \in Clients, NEW d \in Clients,
                      Member[c] # NoKey, Member[c] = Member[d]
               PROVE  \/ VH!Extends(History[c], History[d])
                      \/ VH!Extends(History[d], History[c])
    BY DEF OneHistory
  <2> DEFINE l == log[Member[c]]
  <2>1. /\ History[c] = Past(l, pullIndex[c]) /\ History[d] = Past(l, pullIndex[d])
        /\ pullIndex[c] <= Len(l) /\ pullIndex[d] <= Len(l) /\ Member[c] \in Keys
    BY DEF HistoryShape
  <2>2. l \in Seq(Event) /\ pullIndex[c] \in Nat /\ pullIndex[d] \in Nat
    BY <2>1 DEF TypeOK, StoreTypes, ServerTypes
  <2> HIDE DEF l
  <2>3. CASE pullIndex[d] <= pullIndex[c]
    BY <2>1, <2>2, <2>3, PastExtends
  <2>4. CASE pullIndex[c] <= pullIndex[d]
    BY <2>1, <2>2, <2>4, PastExtends
  <2> QED BY <2>2, <2>3, <2>4
<1> QED BY <1>1, HistoryHasShape, TypeCorrect, HistoryInvariant, PTL

-----------------------------------------------------------------------------
(* The store                                                                *)

\* One document of the store is accounted for.
Justified(c, p) ==
  \/ Pending(c, p, store[c][p])
  \/ \E n \in Replayed(c, p)..Len(log[rsalt[c]]) :
       Holds(rsalt[c], n, p, store[c][p])

\* What has been sent is in the vault where it has not been pulled from yet.
Landed(c, docs) ==
  \A i \in 1..Len(docs) :
    \E j \in (pullIndex[c] + 1)..Len(log[rsalt[c]]) :
      log[rsalt[c]][j] = Entry(docs[i])

SentInv(c) ==
  /\ phase[c] \in {"posting", "posted"} => req[c].key = rsalt[c]
  /\ Attached(c) /\ phase[c] = "posted" => Landed(c, req[c].docs)
  /\ Attached(c) /\ phase[c] = "clearing" => Landed(c, todo[c])

SentInvAll == \A c \in Clients : SentInv(c)

StoreInv(c) == \A p \in Paths \ torn[c] : Justified(c, p)

StoreInvAll == \A c \in Clients : InVault(c) => StoreInv(c)

-----------------------------------------------------------------------------

\* What the vault of a client is like, and that it stays.
LEMMA VaultFacts ==
  ASSUME TypeOK, TypeOK', LogsGrow, NEW c \in Clients, Attached(c)',
         rsalt'[c] = rsalt[c]
  PROVE  /\ rsalt[c] \in Keys /\ Attached(c)
         /\ log[rsalt[c]] \in Seq(Event) /\ log'[rsalt[c]] \in Seq(Event)
         /\ Len(log[rsalt[c]]) \in Nat /\ Len(log'[rsalt[c]]) \in Nat
         /\ Longer(rsalt[c])
<1>1. rsalt[c] \in Keys /\ rsalt[c] \notin removed' /\ rsalt[c] # NoKey
  BY PullTypes DEF Attached
<1> QED BY <1>1 DEF TypeOK, ServerTypes, LogsGrow, Attached

LEMMA ReplayedTypes ==
  ASSUME TypeOK, NEW c \in Clients, NEW p \in Paths
  PROVE  Replayed(c, p) \in Nat
BY PullTypes DEF Replayed

\* What a document was after the first n events, it stays.
LEMMA HoldsKept ==
  ASSUME NEW k, Longer(k), Len(log[k]) \in Nat, Len(log'[k]) \in Nat,
         NEW n \in 0..Len(log[k]), NEW p, NEW d, Holds(k, n, p, d)
  PROVE  Holds(k, n, p, d)'
<1>1. \A i \in 1..n : i \in 1..Len(log[k]) /\ log'[k][i] = log[k][i]
  BY DEF Longer
<1>2. CASE d = NoData /\ \A i \in 1..n : log[k][i].path # p
  BY <1>1, <1>2 DEF Holds
<1>3. ASSUME NEW i \in 1..n, log[k][i].path = p, log[k][i].data = d,
             \A j \in (i + 1)..n : log[k][j].path # p
      PROVE  Holds(k, n, p, d)'
  <2>1. \A j \in (i + 1)..n : j \in 1..n
    OBVIOUS
  <2>2. \A j \in (i + 1)..n : log'[k][j].path # p
    BY <1>1, <1>3, <2>1
  <2> QED BY <1>1, <1>3, <2>2 DEF Holds
<1> QED BY <1>2, <1>3 DEF Holds

\* A document that is neither written nor replayed stays accounted for.
LEMMA JustifiedKept ==
  ASSUME TypeOK, TypeOK', LogsGrow, NEW c \in Clients, Attached(c)',
         rsalt'[c] = rsalt[c], NEW p \in Paths, Justified(c, p),
         store'[c][p] = store[c][p],
         Pending(c, p, store[c][p]) => Pending(c, p, store[c][p])',
         Replayed(c, p)' <= Replayed(c, p)
  PROVE  Justified(c, p)'
<1>1. /\ Len(log[rsalt[c]]) \in Nat /\ Len(log'[rsalt[c]]) \in Nat
      /\ Longer(rsalt[c])
  BY VaultFacts
<1>2. Replayed(c, p) \in Nat /\ Replayed(c, p)' \in Nat
  <2>1. Replayed(c, p) \in Nat
    BY ReplayedTypes
  <2>2. pullIndex'[c] \in Nat /\ at'[c] \in Nat
    BY DEF TypeOK, StoreTypes, SyncTypes
  <2> QED BY <2>1, <2>2 DEF Replayed
<1>3. CASE Pending(c, p, store[c][p])
  BY <1>3 DEF Justified
<1>4. ASSUME NEW n \in Replayed(c, p)..Len(log[rsalt[c]]),
             Holds(rsalt[c], n, p, store[c][p])
      PROVE  Justified(c, p)'
  <2>1. n \in 0..Len(log[rsalt[c]])
    BY <1>1, <1>2
  <2>2. ASSUME NEW k, NEW d, k = rsalt[c], d = store[c][p]
        PROVE  Holds(k, n, p, d)'
    BY <1>1, <1>4, <2>1, <2>2, HoldsKept
  <2>3. Holds(rsalt[c], n, p, store[c][p])'
    BY <2>2
  <2>4. n \in Replayed(c, p)'..Len(log'[rsalt'[c]])
    BY <1>1, <1>2 DEF Longer
  <2> QED BY <2>3, <2>4 DEF Justified
<1> QED BY <1>3, <1>4 DEF Justified

\* What the vault has past the pull index stays there.
LEMMA LandedKept ==
  ASSUME TypeOK, TypeOK', LogsGrow, NEW c \in Clients, Attached(c)',
         rsalt'[c] = rsalt[c], pullIndex'[c] = pullIndex[c],
         NEW docs, Landed(c, docs)
  PROVE  Landed(c, docs)'
<1>1. /\ Len(log[rsalt[c]]) \in Nat /\ Len(log'[rsalt[c]]) \in Nat
      /\ Longer(rsalt[c]) /\ pullIndex[c] \in Nat
  BY VaultFacts, PullTypes
<1>2. ASSUME NEW i \in 1..Len(docs)
      PROVE  \E j \in (pullIndex'[c] + 1)..Len(log'[rsalt'[c]]) :
               log'[rsalt'[c]][j] = Entry(docs[i])
  <2>1. PICK j \in (pullIndex[c] + 1)..Len(log[rsalt[c]]) :
          log[rsalt[c]][j] = Entry(docs[i])
    BY <1>2 DEF Landed
  <2>2. j \in 1..Len(log[rsalt[c]])
    BY <1>1
  <2>3. /\ log'[rsalt[c]][j] = log[rsalt[c]][j]
        /\ Len(log[rsalt[c]]) <= Len(log'[rsalt[c]])
    BY <1>1, <2>2 DEF Longer
  <2>4. j \in (pullIndex'[c] + 1)..Len(log'[rsalt'[c]])
    BY <1>1, <2>3
  <2> QED BY <2>1, <2>3, <2>4
<1> QED BY <1>2 DEF Landed

-----------------------------------------------------------------------------
(* What is sent                                                             *)

LEMMA SentStays ==
  ASSUME TypeOK, TypeOK', LogsGrow, NEW c \in Clients, SentInv(c),
         rsalt'[c] = rsalt[c], pullIndex'[c] = pullIndex[c],
         phase'[c] = phase[c], req'[c] = req[c], todo'[c] = todo[c]
  PROVE  SentInv(c)'
<1>1. ASSUME Attached(c)', phase'[c] = "posted" PROVE Landed(c, req[c].docs)'
  <2>1. Landed(c, req[c].docs)
    BY <1>1, VaultFacts DEF SentInv
  <2>2. ASSUME NEW s, s = req[c].docs PROVE Landed(c, s)'
    BY <1>1, <2>1, <2>2, LandedKept
  <2> QED BY <2>2 DEF Landed
<1>2. ASSUME Attached(c)', phase'[c] = "clearing" PROVE Landed(c, todo[c])'
  <2>1. Landed(c, todo[c])
    BY <1>2, VaultFacts DEF SentInv
  <2>2. ASSUME NEW s, s = todo[c] PROVE Landed(c, s)'
    BY <1>2, <2>1, <2>2, LandedKept
  <2> QED BY <2>2 DEF Landed
<1> QED BY <1>1, <1>2 DEF SentInv

\* A POST puts its documents behind everything that can have been pulled.
LEMMA SentPost ==
  ASSUME TypeOK, TypeOK', LogsGrow, NEW c \in Clients,
         SentInv(c), HistoryInv(c), ServePost(c)
  PROVE  SentInv(c)'
<1>0. /\ phase \in [Clients -> Phases] /\ req[c] \in Request
      /\ phase[c] = "posting" /\ req[c].key = rsalt[c]
      /\ UNCHANGED <<storeVars, req, removed>>
  BY DEF TypeOK, SyncTypes, ServePost, SentInv
<1>1. CASE Rejects(req[c])
  BY <1>0, <1>1 DEF ServePost, Goto, SentInv
<1>2. CASE ~Rejects(req[c])
  <2>0. Append2Log(req[c]) /\ phase'[c] = "posted"
    BY <1>0, <1>2 DEF ServePost, Goto
  <2>1. ASSUME Attached(c)' PROVE Landed(c, req[c].docs)'
    <3>1. /\ rsalt[c] \in Keys /\ Attached(c) /\ Len(log[rsalt[c]]) \in Nat
          /\ pullIndex[c] \in Nat /\ Len(log'[rsalt[c]]) \in Nat
      BY <1>0, <2>1, VaultFacts, PullTypes DEF storeVars
    <3>2. pullIndex[c] <= Len(log[rsalt[c]])
      BY <3>1 DEF HistoryInv
    <3>3. ASSUME NEW i \in 1..Len(req[c].docs)
          PROVE  \E j \in (pullIndex[c] + 1)..Len(log'[rsalt[c]]) :
                   log'[rsalt[c]][j] = Entry(req[c].docs[i])
      <4>1. /\ Len(log[rsalt[c]]) + i \in 1..Len(log'[rsalt[c]])
            /\ log'[rsalt[c]][Len(log[rsalt[c]]) + i] = Entry(req[c].docs[i])
        BY <1>0, <2>0, AppendKeeps
      <4>2. Len(log[rsalt[c]]) + i \in (pullIndex[c] + 1)..Len(log'[rsalt[c]])
        BY <3>1, <3>2, <4>1
      <4> QED BY <4>1, <4>2
    <3> QED BY <1>0, <3>3 DEF Landed, storeVars
  <2> QED BY <1>0, <2>0, <2>1 DEF SentInv, storeVars
<1> QED BY <1>1, <1>2

\* The client's own steps
LEMMA SentOwn ==
  ASSUME TypeOK, TypeOK', LogsGrow, NEW c \in Clients,
         SentInv(c), HistoryInv(c),
         \/ LocalWrite(c) \/ Unlock(c) \/ Lock(c)
         \/ Start(c) \/ SyncStep(c) \/ Abort(c) \/ Crash(c)
  PROVE  SentInv(c)'
<1>0. phase \in [Clients -> Phases]
  BY DEF TypeOK, SyncTypes
<1>1. CASE phase'[c] \notin {"posting", "posted", "clearing"}
  BY <1>1 DEF SentInv
<1>2. CASE \/ LocalWrite(c) \/ Lock(c)
           \/ (Unlock(c) /\ rsalt' = rsalt)
  <2>1. UNCHANGED <<pullIndex, rsalt, syncVars>>
    BY <1>2 DEF LocalWrite, SetItem, RemoveDoc, BeginWrite, NextPushIndex,
                AddToPush, Unlock, Lock, storeVars
  <2> QED BY <2>1, SentStays DEF syncVars
<1>3. CASE Unlock(c) /\ rsalt' # rsalt
  <2>1. phase[c] \in {"idle", "keying"} /\ phase' = phase
    BY <1>3 DEF Unlock, HistoryInv, syncVars
  <2> QED BY <1>1, <2>1
<1>4. CASE Sync(c)
  <2>1. /\ phase'[c] \in {"posting", "pulling"} /\ rsalt' = rsalt
        /\ phase'[c] = "posting" => req'[c].key = rsalt[c]
    BY <1>0, <1>4 DEF Sync, Goto, storeVars, HistoryInv, TypeOK, SyncTypes
  <2> QED BY <2>1 DEF SentInv
<1>5. CASE Posted(c)
  <2>1. /\ phase[c] = "posted" /\ phase'[c] = "clearing"
        /\ todo'[c] = req[c].docs
        /\ UNCHANGED <<storeVars, log, removed>>
    BY <1>5 DEF TypeOK, SyncTypes, Posted, Goto, netVars
  <2> QED BY <2>1 DEF SentInv, Landed, Attached, storeVars
<1>6. CASE ClearPush(c)
  <2>1. /\ phase[c] = "clearing" /\ phase' = phase
        /\ todo[c] # <<>> /\ todo'[c] = Tail(todo[c]) /\ todo[c] \in Seq(Doc)
        /\ UNCHANGED <<pullIndex, rsalt, log, removed>>
    BY <1>6 DEF TypeOK, SyncTypes, ClearPush, netVars
  <2>2. \A i \in 1..Len(todo'[c]) : /\ todo'[c][i] = todo[c][i + 1]
                                    /\ i + 1 \in 1..Len(todo[c])
    BY <2>1
  <2> QED BY <2>1, <2>2 DEF SentInv, Landed, Attached
<1>7. CASE Refused(c) \/ Pushed(c) \/ Pull(c) \/ PullNext(c)
  BY <1>0, <1>1, <1>7 DEF Refused, Pushed, Pull, PullNext, Receive, Goto
<1>8. CASE \/ ApplyEvent(c) \/ RecordEvent(c) \/ PullDone(c) \/ Unsync(c)
           \/ (\E k \in 1..keys : Clone(c, k))
  BY <1>0, <1>1, <1>8 DEF ApplyEvent, RecordEvent, PullDone, Unsync, Clone,
                          Idle, Receive, Goto
<1>9. CASE \/ ServeDelete(c) \/ ResetLog(c) \/ CopyPush(c) \/ MovePull(c)
           \/ ClearStatus(c) \/ ClearRemote(c) \/ NewRemote(c)
  BY <1>0, <1>1, <1>9 DEF ServeDelete, ResetLog, CopyPush, MovePull,
                          ClearStatus, ClearRemote, NewRemote, Goto
<1>10. CASE Abort(c) \/ Crash(c)
  BY <1>0, <1>1, <1>10 DEF Abort, Crash, StopSync, Goto
<1>11. CASE ServePost(c)
  BY <1>11, SentPost
<1>12. CASE Unlock(c)
  BY <1>2, <1>3, <1>12
<1> QED BY <1>2, <1>4, <1>5, <1>6, <1>7, <1>8, <1>9, <1>10, <1>11, <1>12,
           StepCases

LEMMA SentInvNext ==
  ASSUME TypeOK, HistoryInvAll, SentInvAll, [Next]_vars
  PROVE  SentInvAll'
<1>1. TypeOK' /\ LogsGrow
  BY TypeNext, LogsGrowStep
<1> SUFFICES ASSUME NEW c \in Clients PROVE SentInv(c)'
  BY DEF SentInvAll
<1>2. SentInv(c) /\ HistoryInv(c)
  BY DEF SentInvAll, HistoryInvAll
<1>3. CASE Untouched(c)
  BY <1>1, <1>2, <1>3, SentStays DEF Untouched, Same
<1>4. CASE UNCHANGED vars \/ ServeStray
  BY <1>3, <1>4, ServerAlone
<1>5. ASSUME NEW d \in Clients, d # c,
             \/ LocalWrite(d) \/ Unlock(d) \/ Lock(d)
             \/ Start(d) \/ SyncStep(d) \/ Abort(d) \/ Crash(d)
      PROVE  SentInv(c)'
  BY <1>3, <1>5, OtherClient
<1> QED BY <1>1, <1>2, <1>4, <1>5, SentOwn DEF Next

\* What a client has sent is in its vault, past what it has pulled.
THEOREM SentInvariant == Spec => []SentInvAll
<1>1. Init => SentInvAll
  BY DEF Init, SentInvAll, SentInv
<1>2. TypeOK /\ HistoryInvAll /\ SentInvAll /\ [Next]_vars => SentInvAll'
  BY SentInvNext
<1> QED BY <1>1, <1>2, TypeCorrect, HistoryInvariant, PTL DEF Spec

-----------------------------------------------------------------------------
(* What the store holds                                                     *)

\* A step that neither writes nor replays
LEMMA StoreStays ==
  ASSUME TypeOK, TypeOK', LogsGrow, NEW c \in Clients, Attached(c)',
         StoreInv(c), SameWrites(c), rsalt'[c] = rsalt[c],
         store'[c] = store[c], torn'[c] = torn[c],
         \A p \in Paths : Replayed(c, p)' <= Replayed(c, p)
  PROVE  StoreInv(c)'
<1>1. ASSUME NEW p \in Paths \ torn'[c] PROVE Justified(c, p)'
  <2>1. Pending(c, p, store[c][p]) => Pending(c, p, store[c][p])'
    BY DEF Pending, SameWrites
  <2> QED BY <2>1, JustifiedKept DEF StoreInv
<1> QED BY <1>1 DEF StoreInv

\* The pull index is never ahead of what has been replayed.
LEMMA IndexBehind ==
  ASSUME TypeOK, NEW c \in Clients, Attached(c), HistoryInv(c),
         NEW p \in Paths
  PROVE  pullIndex[c] <= Replayed(c, p)
<1>1. pullIndex[c] \in Nat /\ at[c] \in Nat
  BY PullTypes
<1>2. phase[c] \in {"applying", "recording"} => pullIndex[c] <= at[c]
  BY DEF HistoryInv, Pulling
<1> QED BY <1>1, <1>2 DEF Replayed

\* Steps around push and pull do not replay anything.
LEMMA ReplayedOutside ==
  ASSUME TypeOK, TypeOK', LogsGrow, NEW c \in Clients, Attached(c)',
         HistoryInv(c), rsalt'[c] = rsalt[c], NEW p \in Paths,
         pullIndex'[c] = pullIndex[c],
         \/ phase'[c] \notin {"applying", "recording"}
         \/ phase'[c] = "applying" /\ at'[c] = pullIndex[c]
         \/ phase'[c] = phase[c] /\ at'[c] = at[c] /\ todo'[c] = todo[c]
  PROVE  Replayed(c, p)' <= Replayed(c, p)
<1>1. pullIndex[c] <= Replayed(c, p) /\ Replayed(c, p) \in Nat
  BY VaultFacts, IndexBehind, ReplayedTypes
<1> QED BY <1>1 DEF Replayed

\* Steps that read the store at most
LEMMA StoreOutside ==
  ASSUME TypeOK, TypeOK', LogsGrow, NEW c \in Clients, Attached(c)',
         HistoryInv(c), StoreInv(c), rsalt'[c] = rsalt[c],
         \/ Unlock(c) \/ Lock(c) \/ Sync(c) \/ ServePost(c) \/ Refused(c)
         \/ Posted(c) \/ Pushed(c) \/ Pull(c) \/ PullNext(c) \/ Unsync(c)
         \/ Abort(c)
  PROVE  StoreInv(c)'
<1>0. phase \in [Clients -> Phases] /\ at \in [Clients -> Nat]
  BY DEF TypeOK, SyncTypes
<1>1. /\ UNCHANGED <<store, pullIndex, torn>> /\ SameWrites(c)
      /\ \/ phase'[c] \notin {"applying", "recording"}
         \/ phase'[c] = "applying" /\ at'[c] = pullIndex[c]
         \/ phase'[c] = phase[c] /\ at'[c] = at[c] /\ todo'[c] = todo[c]
  <2> USE <1>0 DEF SameWrites, Goto, storeVars, setVars, histVars
  <2>1. CASE Unlock(c) \/ Lock(c)
    BY <2>1 DEF Unlock, Lock, syncVars
  <2>2. CASE Sync(c) \/ ServePost(c) \/ Refused(c) \/ Posted(c) \/ Pushed(c)
    BY <2>2 DEF Sync, ServePost, Refused, Posted, Pushed
  <2>3. CASE Pull(c) \/ PullNext(c) \/ Unsync(c)
    BY <2>3 DEF Pull, PullNext, Receive, Unsync
  <2>4. CASE Abort(c)
    BY <2>4 DEF Abort, StopSync
  <2> QED BY <2>1, <2>2, <2>3, <2>4
<1>2. \A p \in Paths : Replayed(c, p)' <= Replayed(c, p)
  BY <1>1, ReplayedOutside
<1> QED BY <1>1, <1>2, StoreStays

\* A document that leaves the push log is in the vault, past the pull index,
\* and it is the last event of its path there.
LEMMA StoreClear ==
  ASSUME TypeOK, TypeOK', LogsGrow, NEW c \in Clients, Attached(c)',
         ClientInv(c), SentInv(c), StoreInv(c), ClearPush(c)
  PROVE  StoreInv(c)'
<1> DEFINE k == rsalt[c]
<1>0. /\ push'[c] = Keeps(c) /\ todo'[c] = Tail(todo[c]) /\ todo[c] # <<>>
      /\ todo[c] \in Seq(Doc) /\ phase[c] = "clearing"
      /\ UNCHANGED <<store, pullIndex, rsalt, setVars, phase, at, torn, log>>
  BY DEF TypeOK, SyncTypes, StoreTypes, ClearPush, netVars, histVars
<1>1. /\ k \in Keys /\ Attached(c) /\ Len(log[k]) \in Nat
      /\ pullIndex[c] \in Nat
  BY <1>0, VaultFacts, PullTypes
<1>2. /\ Head(todo[c]) = todo[c][1] /\ 1 \in 1..Len(todo[c])
      /\ \A i \in 1..Len(todo'[c]) : /\ todo'[c][i] = todo[c][i + 1]
                                     /\ i + 1 \in 1..Len(todo[c])
  BY <1>0
<1>3. Landed(c, todo[c])
  BY <1>0, <1>1 DEF SentInv
<1>4. ASSUME NEW p \in Paths \ torn'[c] PROVE Justified(c, p)'
  <2>1. Justified(c, p)
    BY <1>0, <1>4 DEF StoreInv
  <2>2. ASSUME NEW d \in push[c], d.path = p, d.data = store[c][p],
               d \notin push'[c]
        PROVE  Justified(c, p)'
    <3>1. d.idx = todo[c][1].idx
      BY <1>0, <1>2, <2>2 DEF Keeps
    <3>2. d = todo[c][1]
      BY <1>0, <1>2, <2>2, <3>1 DEF ClientInv, Clearing
    <3>3. PICK j \in (pullIndex[c] + 1)..Len(log[k]) :
            log[k][j] = Entry(todo[c][1])
      BY <1>2, <1>3 DEF Landed
    <3>4. log[k][j].path = p /\ log[k][j].data = store[c][p]
      BY <2>2, <3>2, <3>3 DEF Entry
    <3>5. j \in pullIndex[c]..Len(log[k]) /\ j \in 1..j
          /\ (j + 1)..j = {}
      BY <1>1
    <3>6. Holds(k, j, p, store[c][p])
      BY <3>4, <3>5 DEF Holds
    <3>7. Holds(rsalt[c], j, p, store[c][p])'
      BY <1>0, <3>6 DEF Holds
    <3>8. Replayed(c, p)' = pullIndex[c]
      BY <1>0 DEF Replayed
    <3> QED BY <1>0, <3>5, <3>7, <3>8 DEF Justified
  <2>3. CASE Pending(c, p, store[c][p]) => Pending(c, p, store[c][p])'
    BY <1>0, <1>1, <2>1, <2>3, JustifiedKept DEF Replayed
  <2>4. CASE \E d \in push[c] : /\ d.path = p /\ d.data = store[c][p]
                                /\ d \notin push'[c]
    BY <2>2, <2>4
  <2>5. (\A d \in push[c] : d.path = p /\ d.data = store[c][p] => d \in push'[c])
        => (Pending(c, p, store[c][p]) => Pending(c, p, store[c][p])')
    BY <1>0 DEF Pending, setVars
  <2> QED BY <2>3, <2>4, <2>5
<1> QED BY <1>0, <1>4 DEF StoreInv

\* A local write is pending from its first store write on.
LEMMA StoreWrite ==
  ASSUME TypeOK, TypeOK', LogsGrow, NEW c \in Clients, Attached(c)',
         ClientInv(c), StoreInv(c), LocalWrite(c)
  PROVE  StoreInv(c)'
<1>0. /\ store \in [Clients -> [Paths -> Data]]
      /\ writing \in [Clients -> {"no", "stored", "indexed"}]
      /\ cur \in [Clients -> Doc] /\ push \in [Clients -> SUBSET Doc]
      /\ torn \in [Clients -> SUBSET Paths]
  BY DEF TypeOK, StoreTypes, MemoryTypes, HistoryTypes
<1>1. UNCHANGED <<pullIndex, rsalt, syncVars, netVars>>
  BY DEF LocalWrite, SetItem, RemoveDoc, BeginWrite, NextPushIndex, AddToPush
<1>2. ASSUME NEW p \in Paths \ torn[c], store'[c][p] = store[c][p],
             Pending(c, p, store[c][p]) => Pending(c, p, store[c][p])'
      PROVE  Justified(c, p)'
  <2>1. Replayed(c, p)' <= Replayed(c, p)
    BY <1>1, ReplayedTypes DEF Replayed, syncVars
  <2> QED BY <1>1, <1>2, <2>1, JustifiedKept DEF StoreInv
<1>3. ASSUME NEW q \in Paths, NEW d, BeginWrite(c, q, d)
      PROVE  \A p \in Paths \ torn'[c] : Justified(c, p)'
  <2> TAKE p \in Paths \ torn'[c]
  <2>1. /\ push' = push /\ writing[c] = "no" /\ writing'[c] = "stored"
        /\ store'[c] = [store[c] EXCEPT ![q] = d]
        /\ cur'[c].path = q /\ cur'[c].data = d
        /\ torn'[c] = torn[c] \ {q}
    BY <1>0, <1>3 DEF BeginWrite
  <2>2. CASE p = q
    BY <1>0, <2>1, <2>2 DEF Justified, Pending
  <2>3. CASE p # q
    <3>1. store'[c][p] = store[c][p] /\ p \notin torn[c]
      BY <1>0, <2>1, <2>3
    <3>2. Pending(c, p, store[c][p]) => Pending(c, p, store[c][p])'
      BY <2>1, <3>1 DEF Pending
    <3> QED BY <1>2, <3>1, <3>2
  <2> QED BY <2>2, <2>3
<1>4. CASE NextPushIndex(c)
  <2>1. /\ UNCHANGED <<store, push, torn>>
        /\ writing[c] # "no" /\ writing'[c] # "no"
        /\ cur'[c].path = cur[c].path /\ cur'[c].data = cur[c].data
    BY <1>0, <1>4 DEF NextPushIndex, histVars, Doc
  <2> QED BY <1>2, <2>1 DEF StoreInv, Pending
<1>5. CASE AddToPush(c)
  <2>1. /\ UNCHANGED <<store, torn>> /\ writing[c] = "indexed"
        /\ push'[c] = Put(push[c], cur[c])
    BY <1>0, <1>5 DEF AddToPush
  <2>2. push[c] \subseteq push'[c]
    <3>1. \A d \in push[c] : d.idx # cur[c].idx
      <4>1. \A d \in push[c] : d.idx < pushIndex[c] /\ d.idx \in Nat
        BY <1>0, <2>1 DEF ClientInv, PushNumbered, Doc
      <4>2. cur[c].idx = pushIndex[c] /\ pushIndex[c] \in Nat
        BY <2>1, EntryTypes DEF ClientInv, PushNumbered
      <4> QED BY <4>1, <4>2
    <3> QED BY <2>1, <3>1 DEF Put
  <2>3. cur[c] \in push'[c]
    BY <2>1 DEF Put
  <2>4. \A p \in Paths : Pending(c, p, store[c][p]) =>
                           Pending(c, p, store[c][p])'
    BY <2>1, <2>2, <2>3 DEF Pending
  <2> QED BY <1>2, <2>1, <2>4 DEF StoreInv
<1>6. CASE \E p \in Paths : SetItem(c, p) \/ RemoveDoc(c, p)
  BY <1>3, <1>6 DEF SetItem, RemoveDoc, StoreInv
<1> QED BY <1>4, <1>5, <1>6 DEF LocalWrite

\* A crash loses what was not yet in the push log: that path is torn.
LEMMA StoreCrash ==
  ASSUME TypeOK, TypeOK', LogsGrow, NEW c \in Clients, Attached(c)',
         HistoryInv(c), StoreInv(c), Crash(c)
  PROVE  StoreInv(c)'
<1>1. /\ UNCHANGED <<store, push, pullIndex, rsalt>>
      /\ phase'[c] = "idle" /\ writing'[c] = "no"
      /\ torn[c] \subseteq torn'[c]
      /\ writing[c] # "no" => cur[c].path \in torn'[c]
  BY DEF Crash, StopSync, Goto, storeVars, TypeOK, MemoryTypes, SyncTypes,
         HistoryTypes
<1>2. ASSUME NEW p \in Paths \ torn'[c] PROVE Justified(c, p)'
  <2>1. Pending(c, p, store[c][p]) => Pending(c, p, store[c][p])'
    BY <1>1, <1>2 DEF Pending
  <2>2. Replayed(c, p)' <= Replayed(c, p)
    <3>1. pullIndex[c] <= Replayed(c, p)
      BY <1>1, VaultFacts, IndexBehind
    <3> QED BY <1>1, <3>1 DEF Replayed
  <2> QED BY <1>1, <1>2, <2>1, <2>2, JustifiedKept DEF StoreInv
<1> QED BY <1>1, <1>2 DEF StoreInv

\* A client that joins a vault holds what the vault was before its first event.
LEMMA StoreClone ==
  ASSUME TypeOK, TypeOK', NEW c \in Clients, Attached(c)',
         NEW k \in 1..keys, Clone(c, k)
  PROVE  StoreInv(c)'
<1>0. /\ phase \in [Clients -> Phases] /\ at \in [Clients -> Nat]
      /\ rsalt \in [Clients -> Keys \cup {NoKey}]
  BY DEF TypeOK, SyncTypes, StoreTypes
<1>1. /\ store'[c] = [p \in Paths |-> NoData] /\ pullIndex'[c] = 0
      /\ rsalt'[c] = k
      /\ \/ phase'[c] = "idle"
         \/ phase'[c] = "applying" /\ at'[c] = 0
  <2>1. /\ store'[c] = [p \in Paths |-> NoData] /\ pullIndex'[c] = 0
        /\ rsalt'[c] = k /\ phase[c] = "idle"
    BY <1>0 DEF Clone, IsEmpty, Idle
  <2>2. phase' = phase \/ Receive(c, k, 0)
    BY DEF Clone
  <2>3. Receive(c, k, 0) => phase'[c] = "applying" /\ at'[c] = 0
    BY <1>0 DEF Receive, Goto
  <2> QED BY <2>1, <2>2, <2>3
<1>2. Len(log'[k]) \in Nat
  <2>1. k \in Keys
    BY BoundsAssumption DEF Keys, TypeOK, HistoryTypes
  <2> QED BY <2>1 DEF TypeOK, ServerTypes
<1>3. ASSUME NEW p \in Paths PROVE Justified(c, p)'
  <2>1. Replayed(c, p)' = 0
    BY <1>1 DEF Replayed
  <2>2. Holds(rsalt[c], 0, p, store[c][p])'
    BY <1>1 DEF Holds
  <2> QED BY <1>1, <1>2, <2>1, <2>2 DEF Justified
<1> QED BY <1>1, <1>3 DEF StoreInv

\* An event is replayed: its document now is as it was after that event,
LEMMA StoreApply ==
  ASSUME TypeOK, TypeOK', LogsGrow, NEW c \in Clients, Attached(c)',
         HistoryInv(c), StoreInv(c), ApplyEvent(c)
  PROVE  StoreInv(c)'
<1> DEFINE e == Head(todo[c])
           k == rsalt[c]
<1>0. /\ phase[c] = "applying" /\ phase'[c] = "recording"
      /\ todo[c] \in Seq(Doc) /\ todo[c] # <<>>
      /\ UNCHANGED <<push, pullIndex, rsalt, setVars, at, todo, log>>
      /\ store'[c] = [store[c] EXCEPT ![e.path] = e.data]
      /\ torn'[c] = torn[c] \ {e.path}
      /\ store[c] \in [Paths -> Data]
  BY DEF ApplyEvent, Applied, Goto, TypeOK, SyncTypes, StoreTypes,
         HistoryTypes, netVars
<1>1. /\ k \in Keys /\ Attached(c) /\ Len(log[k]) \in Nat
      /\ at[c] \in Nat
  BY <1>0, VaultFacts, PullTypes
<1>2. /\ e = todo[c][1] /\ 1 \in 1..Len(todo[c]) /\ e \in Doc
      /\ Len(todo[c]) \in Nat
  BY <1>0
<1> HIDE DEF e
<1>3. log[k][at[c] + 1] = Entry(e) /\ at[c] + 1 \in 1..Len(log[k])
  <2>1. Pulling(c)
    BY <1>0, <1>1 DEF HistoryInv
  <2>2. log[k][at[c] + 1] = Entry(e) /\ at[c] + Len(todo[c]) <= Len(log[k])
    BY <1>2, <2>1 DEF Pulling
  <2> QED BY <1>1, <1>2, <2>2
<1>4. ASSUME NEW p \in Paths \ torn'[c] PROVE Justified(c, p)'
  <2>1. CASE p = e.path
    <3>1. store'[c][p] = e.data
      BY <1>0, <2>1
    <3>2. Replayed(c, p)' = at[c] + 1
      BY <1>0, <2>1 DEF Replayed, e
    <3>3. at[c] + 1 \in 1..at[c] + 1 /\ ((at[c] + 1) + 1)..(at[c] + 1) = {}
      BY <1>1
    <3>4. Holds(k, at[c] + 1, p, store'[c][p])
      BY <1>3, <2>1, <3>1, <3>3 DEF Holds, Entry
    <3>5. Holds(rsalt[c], at[c] + 1, p, store[c][p])'
      BY <1>0, <3>4 DEF Holds
    <3>6. at'[c] + 1 \in Replayed(c, p)'..Len(log'[rsalt'[c]])
      BY <1>0, <1>1, <1>3, <3>2
    <3> QED BY <3>5, <3>6 DEF Justified
  <2>2. CASE p # e.path
    <3>1. store'[c][p] = store[c][p] /\ p \notin torn[c]
      BY <1>0, <1>2, <1>4, <2>2 DEF Doc
    <3>2. Replayed(c, p)' <= Replayed(c, p)
      BY <1>0, <1>1, <2>2 DEF Replayed, e
    <3>3. Pending(c, p, store[c][p]) => Pending(c, p, store[c][p])'
      BY <1>0, <3>1 DEF Pending, setVars
    <3> QED BY <1>0, <3>1, <3>2, <3>3, JustifiedKept DEF StoreInv
  <2> QED BY <2>1, <2>2
<1> QED BY <1>0, <1>4 DEF StoreInv

\* and the other documents were not touched by it.
LEMMA StoreRecord ==
  ASSUME TypeOK, TypeOK', LogsGrow, NEW c \in Clients, Attached(c)',
         HistoryInv(c), StoreInv(c), RecordEvent(c)
  PROVE  StoreInv(c)'
<1> DEFINE e == Head(todo[c])
           k == rsalt[c]
<1>0. /\ phase[c] = "recording" /\ phase'[c] = "applying"
      /\ todo[c] \in Seq(Doc) /\ todo[c] # <<>> /\ at'[c] = e.idx
      /\ UNCHANGED <<store, push, pullIndex, rsalt, setVars, torn, log>>
  BY DEF RecordEvent, Goto, TypeOK, SyncTypes, netVars, histVars
<1>1. /\ k \in Keys /\ Attached(c) /\ Len(log[k]) \in Nat
      /\ at[c] \in Nat
  BY <1>0, VaultFacts, PullTypes
<1>2. e = todo[c][1] /\ 1 \in 1..Len(todo[c]) /\ Len(todo[c]) \in Nat
  BY <1>0
<1>3. /\ log[k][at[c] + 1] = Entry(e) /\ at[c] + 1 \in 1..Len(log[k])
      /\ e.idx = at[c] + 1
  <2>1. Pulling(c)
    BY <1>0, <1>1 DEF HistoryInv
  <2>2. /\ log[k][at[c] + 1] = Entry(e) /\ at[c] + Len(todo[c]) <= Len(log[k])
        /\ e.idx = at[c] + 1
    BY <1>2, <2>1 DEF Pulling
  <2> QED BY <1>1, <1>2, <2>2
<1>4. ASSUME NEW p \in Paths \ torn'[c] PROVE Justified(c, p)'
  <2>1. Justified(c, p) /\ Replayed(c, p)' = at[c] + 1
    BY <1>0, <1>3, <1>4 DEF StoreInv, Replayed
  <2>2. CASE e.path = p
    <3>1. Replayed(c, p) = at[c] + 1
      BY <1>0, <2>2 DEF Replayed
    <3>2. Pending(c, p, store[c][p]) => Pending(c, p, store[c][p])'
      BY <1>0 DEF Pending, setVars
    <3> QED BY <1>0, <1>1, <2>1, <3>1, <3>2, JustifiedKept
  <2>3. CASE e.path # p /\ Pending(c, p, store[c][p])
    BY <1>0, <2>3 DEF Justified, Pending, setVars
  <2>4. ASSUME e.path # p, NEW n \in Replayed(c, p)..Len(log[k]),
               Holds(k, n, p, store[c][p])
        PROVE  Justified(c, p)'
    <3>1. Replayed(c, p) = at[c]
      BY <1>0, <2>4 DEF Replayed
    <3>2. CASE n >= at[c] + 1
      <4>1. n \in Replayed(c, p)'..Len(log'[rsalt'[c]])
        BY <1>0, <1>1, <2>1, <3>1, <3>2
      <4>2. \A m : Holds(k, m, p, store[c][p]) =>
                     Holds(rsalt[c], m, p, store[c][p])'
        BY <1>0 DEF Holds
      <4> QED BY <2>4, <4>1, <4>2 DEF Justified
    <3>3. CASE n = at[c]
      <4>1. log[k][at[c] + 1].path # p
        BY <1>3, <2>4 DEF Entry
      <4>2. Holds(k, at[c] + 1, p, store[c][p])
        <5>1. \A i \in Int :
                /\ i \in 1..(at[c] + 1) => i \in 1..at[c] \/ i = at[c] + 1
                /\ i \in 1..at[c] => i \in 1..(at[c] + 1)
          BY <1>1
        <5>2. \A i, j \in Int : j \in (i + 1)..(at[c] + 1) =>
                                 j \in (i + 1)..at[c] \/ j = at[c] + 1
          BY <1>1
        <5>3. CASE /\ store[c][p] = NoData
                   /\ \A i \in 1..at[c] : log[k][i].path # p
          <6>1. \A i \in 1..(at[c] + 1) : log[k][i].path # p
            BY <1>1, <4>1, <5>1, <5>3
          <6> QED BY <5>3, <6>1 DEF Holds
        <5>4. ASSUME NEW i \in 1..at[c],
                     log[k][i].path = p, log[k][i].data = store[c][p],
                     \A j \in (i + 1)..at[c] : log[k][j].path # p
              PROVE  Holds(k, at[c] + 1, p, store[c][p])
          <6>1. \A j \in (i + 1)..(at[c] + 1) : log[k][j].path # p
            BY <4>1, <5>2, <5>4
          <6>2. i \in 1..(at[c] + 1)
            BY <1>1
          <6> QED BY <5>4, <6>1, <6>2 DEF Holds
        <5> QED BY <2>4, <3>3, <5>3, <5>4 DEF Holds
      <4>3. at[c] + 1 \in Replayed(c, p)'..Len(log'[rsalt'[c]])
        BY <1>0, <1>1, <1>3, <2>1
      <4>4. Holds(rsalt[c], at[c], p, store[c][p])'
        BY <1>0, <1>3, <4>2 DEF Holds
      <4> QED BY <1>0, <1>3, <4>3, <4>4 DEF Justified
    <3> QED BY <1>1, <3>1, <3>2, <3>3
  <2> QED BY <2>1, <2>2, <2>3, <2>4 DEF Justified
<1> QED BY <1>0, <1>4 DEF StoreInv

\* The pull index moves up to what was replayed.
LEMMA StorePulled ==
  ASSUME TypeOK, TypeOK', LogsGrow, NEW c \in Clients, Attached(c)',
         HistoryInv(c), StoreInv(c), PullDone(c)
  PROVE  StoreInv(c)'
<1>1. /\ UNCHANGED <<store, push, rsalt, setVars, torn>>
      /\ phase[c] = "applying" /\ phase'[c] \in {"idle", "pulling"}
      /\ pullIndex'[c] = at[c] /\ at[c] \in Nat
  BY DEF PullDone, Goto, histVars, TypeOK, SyncTypes, StoreTypes
<1>2. ASSUME NEW p \in Paths \ torn'[c] PROVE Justified(c, p)'
  <2>1. Pending(c, p, store[c][p]) => Pending(c, p, store[c][p])'
    BY <1>1 DEF Pending, setVars
  <2>2. Replayed(c, p)' <= Replayed(c, p)
    BY <1>1 DEF Replayed
  <2> QED BY <1>1, <1>2, <2>1, <2>2, JustifiedKept DEF StoreInv
<1> QED BY <1>1, <1>2 DEF StoreInv

-----------------------------------------------------------------------------

LEMMA StoreInvInit == Init => StoreInvAll
<1> SUFFICES ASSUME Init, NEW c \in Clients, InVault(c) PROVE StoreInv(c)
  BY DEF StoreInvAll
<1>1. /\ c = Owner /\ rsalt[c] = 1 /\ log[1] = <<>> /\ phase[c] = "idle"
      /\ pullIndex[c] = 0 /\ Len(log[rsalt[c]]) = 0
      /\ push[c] = {[idx |-> 1, path |-> AuthPath, data |-> 1]}
      /\ store[c] = [p \in Paths |-> IF p = AuthPath THEN 1 ELSE NoData]
  BY ConstantTypes DEF Init, InVault
<1>2. ASSUME NEW p \in Paths PROVE Justified(c, p)
  <2>1. CASE p = AuthPath
    BY <1>1, <2>1 DEF Justified, Pending
  <2>2. CASE p # AuthPath
    <3>1. Holds(rsalt[c], 0, p, store[c][p])
      BY <1>1, <2>2 DEF Holds
    <3>2. Replayed(c, p) = 0
      BY <1>1 DEF Replayed
    <3> QED BY <1>1, <3>1, <3>2 DEF Justified
  <2> QED BY <2>1, <2>2
<1> QED BY <1>1, <1>2 DEF StoreInv

\* A client is in a vault that it was in before, or that it just joined.
LEMMA SameVault ==
  ASSUME TypeOK, TypeOK', LogsGrow, unsynced \subseteq unsynced',
         NEW c \in Clients, InVault(c)', ClientInv(c) \/ c \in unsynced,
         \/ LocalWrite(c) \/ Unlock(c) \/ Lock(c)
         \/ Start(c) \/ SyncStep(c) \/ Abort(c) \/ Crash(c)
  PROVE  \/ InVault(c) /\ rsalt'[c] = rsalt[c]
         \/ \E k \in 1..keys : Clone(c, k)
<1>1. /\ ClientInv(c) /\ c \notin unsynced
      /\ phase[c] \notin {"copying", "moving", "ending", "renewing", "keying"}
  BY DEF InVault, ClientInv
<1>2. CASE rsalt'[c] = rsalt[c]
  BY <1>1, <1>2 DEF InVault, LogsGrow
<1>3. CASE rsalt'[c] # rsalt[c]
  <2> USE <1>3 DEF storeVars
  <2>1. ~LocalWrite(c) /\ ~Lock(c) /\ ~Abort(c) /\ ~Crash(c)
    BY DEF LocalWrite, SetItem, RemoveDoc, BeginWrite, NextPushIndex,
           AddToPush, Lock, Abort, Crash
  <2>2. ~Unlock(c)
    BY DEF Unlock, InVault
  <2>3. ~(Sync(c) \/ ServePost(c) \/ Refused(c) \/ Posted(c) \/ ClearPush(c)
          \/ Pushed(c) \/ Pull(c) \/ PullNext(c))
    BY DEF Sync, ServePost, Refused, Posted, ClearPush, Pushed, Pull, PullNext
  <2>4. ~(ApplyEvent(c) \/ RecordEvent(c) \/ PullDone(c) \/ Unsync(c)
          \/ ServeDelete(c) \/ ResetLog(c))
    BY DEF ApplyEvent, RecordEvent, PullDone, Unsync, ServeDelete, ResetLog
  <2>5. ~(CopyPush(c) \/ MovePull(c) \/ ClearStatus(c) \/ ClearRemote(c)
          \/ NewRemote(c))
    BY <1>1 DEF CopyPush, MovePull, ClearStatus, ClearRemote, NewRemote
  <2> QED BY <2>1, <2>2, <2>3, <2>4, <2>5, StepCases
<1> QED BY <1>2, <1>3

LEMMA StoreInvNext ==
  ASSUME TypeOK, PushInv, HistoryInvAll, SentInvAll, StoreInvAll, [Next]_vars
  PROVE  StoreInvAll'
<1>1. TypeOK' /\ LogsGrow /\ unsynced \subseteq unsynced'
  BY TypeNext, LogsGrowStep, UnsyncedGrows
<1> SUFFICES ASSUME NEW c \in Clients, InVault(c)' PROVE StoreInv(c)'
  BY DEF StoreInvAll
<1>2. /\ HistoryInv(c) /\ SentInv(c) /\ c \notin unsynced /\ ClientInv(c)
      /\ Attached(c)'
      /\ InVault(c) => StoreInv(c)
  BY <1>1 DEF HistoryInvAll, SentInvAll, StoreInvAll, PushInv, ClientInv,
              InVault, Attached
<1>3. CASE Untouched(c)
  <2>1. InVault(c)
    BY <1>1, <1>3 DEF InVault, Untouched, Same, LogsGrow
  <2>2. \A p \in Paths : Replayed(c, p)' <= Replayed(c, p)
    BY <1>3, ReplayedTypes DEF Untouched, Same, Replayed
  <2> QED BY <1>1, <1>2, <1>3, <2>1, <2>2, StoreStays DEF Untouched, Same
<1>4. CASE UNCHANGED vars \/ ServeStray
  BY <1>3, <1>4, ServerAlone
<1>5. ASSUME NEW d \in Clients, d # c,
             \/ LocalWrite(d) \/ Unlock(d) \/ Lock(d)
             \/ Start(d) \/ SyncStep(d) \/ Abort(d) \/ Crash(d)
      PROVE  StoreInv(c)'
  BY <1>3, <1>5, OtherClient
<1>6. ASSUME \/ LocalWrite(c) \/ Unlock(c) \/ Lock(c)
             \/ Start(c) \/ SyncStep(c) \/ Abort(c) \/ Crash(c)
      PROVE  StoreInv(c)'
  <2>1. CASE \E k \in 1..keys : Clone(c, k)
    BY <1>1, <1>2, <2>1, StoreClone
  <2>2. CASE StoreInv(c) /\ InVault(c) /\ rsalt'[c] = rsalt[c]
    <3> USE <1>1, <1>2, <2>2
    <3>1. CASE LocalWrite(c)
      BY <3>1, StoreWrite
    <3>2. CASE \/ Unlock(c) \/ Lock(c) \/ Sync(c) \/ ServePost(c)
               \/ Refused(c) \/ Posted(c) \/ Pushed(c) \/ Pull(c)
               \/ PullNext(c) \/ Unsync(c) \/ Abort(c)
      BY <3>2, StoreOutside
    <3>3. CASE ClearPush(c)
      BY <3>3, StoreClear
    <3>4. CASE ApplyEvent(c) \/ RecordEvent(c) \/ PullDone(c)
      BY <3>4, StoreApply, StoreRecord, StorePulled
    <3>5. CASE Crash(c)
      BY <3>5, StoreCrash
    <3>6. ~ServeDelete(c)
      BY DEF ServeDelete, RemoveLog, HistoryInv, InVault
    <3>7. ~ResetLog(c)
      BY DEF ResetLog, InVault
    <3>8. ~(CopyPush(c) \/ MovePull(c) \/ ClearStatus(c) \/ ClearRemote(c)
            \/ NewRemote(c))
      BY DEF ClientInv, CopyPush, MovePull, ClearStatus, ClearRemote,
             NewRemote
    <3> QED BY <1>6, <2>1, <3>1, <3>2, <3>3, <3>4, <3>5, <3>6, <3>7, <3>8,
               StepCases
  <2> QED BY <1>1, <1>2, <1>6, <2>1, <2>2, SameVault
<1> QED BY <1>4, <1>5, <1>6 DEF Next

\* Every step of Set, push and pull keeps the store of a client accounted for.
THEOREM StoreInvariant == Spec => []StoreInvAll
<1>1. Init => StoreInvAll
  BY StoreInvInit
<1>2. /\ TypeOK /\ PushInv /\ HistoryInvAll /\ SentInvAll /\ StoreInvAll
      /\ [Next]_vars
      => StoreInvAll'
  BY StoreInvNext
<1> QED BY <1>1, <1>2, TypeCorrect, PushInvariant, HistoryInvariant,
           SentInvariant, PTL DEF Spec

\* What Vault.Get returns is a local write still to be pushed or what the
\* remote vault held at some point from the pull index on, except for a write
\* that a crash cut off before its push entry.
THEOREM StoreIsJustified == Spec => []StoreJustified
<1>1. StoreInvAll => StoreJustified
  BY DEF StoreInvAll, StoreInv, StoreJustified, Justified
<1> QED BY <1>1, StoreInvariant, PTL

\* After a given number of events a document is in one state.
LEMMA HoldsOneState ==
  ASSUME NEW k, NEW n \in Nat, NEW p, NEW x, NEW y,
         Holds(k, n, p, x), Holds(k, n, p, y)
  PROVE  x = y
<1>1. CASE \A i \in 1..n : log[k][i].path # p
  BY <1>1 DEF Holds
<1>2. CASE ~\A i \in 1..n : log[k][i].path # p
  <2>1. PICK i \in 1..n : /\ log[k][i].path = p /\ log[k][i].data = x
                          /\ \A j \in (i + 1)..n : log[k][j].path # p
    BY <1>2 DEF Holds
  <2>2. PICK j \in 1..n : /\ log[k][j].path = p /\ log[k][j].data = y
                          /\ \A m \in (j + 1)..n : log[k][m].path # p
    BY <1>2 DEF Holds
  <2>3. ~(i < j) /\ ~(j < i)
    BY <2>1, <2>2
  <2>4. i = j
    BY <2>3
  <2> QED BY <2>1, <2>2, <2>4
<1> QED BY <1>1, <1>2

\* Two clients of one vault that have nothing left to push or pull hold the
\* same documents: last-write-wins by the order of the server's log.
THEOREM ReplicasAgree == Spec => []Agreement
<1>1. TypeOK /\ StoreInvAll => Agreement
  <2> SUFFICES ASSUME TypeOK, StoreInvAll,
                      NEW c \in Clients, NEW d \in Clients,
                      CaughtUp(c), CaughtUp(d), rsalt[c] = rsalt[d]
               PROVE  store[c] = store[d]
    BY DEF Agreement
  <2> DEFINE k == rsalt[c]
             n == Len(log[k])
  <2>1. n \in Nat /\ store \in [Clients -> [Paths -> Data]]
    BY PullTypes DEF CaughtUp, InVault, TypeOK, StoreTypes
  <2>2. ASSUME NEW b \in Clients, CaughtUp(b), rsalt[b] = k, NEW p \in Paths
        PROVE  Holds(k, n, p, store[b][p])
    <3>1. Justified(b, p) /\ ~Pending(b, p, store[b][p])
      BY <2>2 DEF CaughtUp, StoreInvAll, StoreInv, Pending
    <3>2. Replayed(b, p) = n
      BY <2>2 DEF CaughtUp, Idle, Replayed
    <3> QED BY <2>1, <2>2, <3>1, <3>2 DEF Justified
  <2>3. ASSUME NEW p \in Paths PROVE store[c][p] = store[d][p]
    <3>1. Holds(k, n, p, store[c][p]) /\ Holds(k, n, p, store[d][p])
      BY <2>2
    <3> QED BY <2>1, <3>1, HoldsOneState
  <2> QED BY <2>1, <2>3
<1> QED BY <1>1, TypeCorrect, StoreInvariant, PTL

-----------------------------------------------------------------------------
(* What Unsync keeps                                                        *)

\* Some document of docs is what the store holds at p.
InDocs(docs, c, p) == \E d \in docs : d.path = p /\ d.data = store[c][p]

\* The running loop still comes to what the store holds at p.
Listed(c, p) ==
  \E i \in 1..Len(todo[c]) :
    todo[c][i].path = p /\ todo[c][i].data = store[c][p]

InWrite(c, p) == writing[c] # "no" /\ cur[c].path = p

\* The write in progress, or else a document of the push log, is what the
\* store holds.
Unsent(c, p) ==
  \/ InWrite(c, p) /\ cur[c].data = store[c][p]
  \/ ~InWrite(c, p) /\ InDocs(push[c], c, p)

\* What has been replayed is what the store holds, or there is more to come.
Later(c, p) ==
  \E j \in (Replayed(c, p) + 1)..Len(log[rsalt[c]]) : log[rsalt[c]][j].path = p

Followed(c, p) ==
  Holds(rsalt[c], Replayed(c, p), p, store[c][p]) \/ Later(c, p)

\* The remote vault is gone and resetLog or clearRemote is under way.
Resetting(c) == phase[c] \in {"deleted", "copying", "moving", "ending", "renewing"}

\* Where a document is in the meantime: in a log that is still to be moved,
\* or under an index that the running loop does not come to.
Rebuilt(c, p) ==
  /\ phase[c] = "deleted" => InDocs(push[c] \cup pull[c], c, p)
  /\ phase[c] = "copying" =>
       \/ InDocs(pull[c], c, p) \/ Listed(c, p)
       \/ InDocs({d \in push[c] : d.idx > Cardinality(pull[c])
                                  /\ d.idx <= at[c]}, c, p)
  /\ phase[c] = "moving" =>
       \/ Listed(c, p)
       \/ InDocs({d \in push[c] : d.idx <= at[c]
                                  \/ d.idx > at[c] + Len(todo[c])}, c, p)
  /\ phase[c] \in {"ending", "renewing"} => InDocs(push[c], c, p)

KeptDoc(c, p) ==
  /\ rsalt[c] = NoKey => Unsent(c, p)
  /\ Attached(c) => Unsent(c, p) \/ Followed(c, p)
  /\ c \in clean => Rebuilt(c, p)

KeptDocs(c) ==
  c \notin unsynced \/ c \in clean =>
    \A p \in Paths \ torn[c] : store[c][p] # NoData => KeptDoc(c, p)

CleanInv(c) ==
  /\ c \in clean /\ Resetting(c) => writing[c] = "no"
  /\ phase[c] = "copying" => at[c] >= Cardinality(pull[c])
  /\ KeptDocs(c)

CleanInvAll == \A c \in Clients : CleanInv(c)

-----------------------------------------------------------------------------

LEMMA ReplayedBound ==
  ASSUME TypeOK, NEW c \in Clients, Attached(c), HistoryInv(c), NEW p \in Paths
  PROVE  /\ Replayed(c, p) \in Nat /\ Len(log[rsalt[c]]) \in Nat
         /\ pullIndex[c] <= Replayed(c, p)
         /\ Replayed(c, p) <= Len(log[rsalt[c]])
<1>1. /\ pullIndex[c] \in Nat /\ at[c] \in Nat /\ Len(log[rsalt[c]]) \in Nat
      /\ todo[c] \in Seq(Doc) /\ Len(todo[c]) \in Nat
  BY PullTypes DEF Attached
<1>2. pullIndex[c] <= Len(log[rsalt[c]])
  BY DEF HistoryInv
<1>3. CASE phase[c] \in {"applying", "recording"}
  <2>1. pullIndex[c] <= at[c] /\ at[c] + Len(todo[c]) <= Len(log[rsalt[c]])
    BY <1>3 DEF HistoryInv, Pulling
  <2>2. phase[c] = "recording" => Len(todo[c]) >= 1
    BY <1>1 DEF TypeOK, SyncTypes
  <2> QED BY <1>1, <1>3, <2>1, <2>2 DEF Replayed
<1>4. CASE phase[c] \notin {"applying", "recording"}
  BY <1>1, <1>2, <1>4 DEF Replayed
<1> QED BY <1>3, <1>4

\* What a document was after n events it was after the first m of them, or
\* one of the others is about it.
LEMMA HoldsBack ==
  ASSUME NEW k, NEW n \in Nat, NEW m \in 0..n, NEW p, NEW d, Holds(k, n, p, d)
  PROVE  \/ Holds(k, m, p, d)
         \/ \E j \in (m + 1)..n : log[k][j].path = p
<1>1. \A j \in 1..m : j \in 1..n
  OBVIOUS
<1>2. CASE d = NoData /\ \A i \in 1..n : log[k][i].path # p
  BY <1>1, <1>2 DEF Holds
<1>3. ASSUME NEW i \in 1..n, log[k][i].path = p, log[k][i].data = d,
             \A j \in (i + 1)..n : log[k][j].path # p
      PROVE  \/ Holds(k, m, p, d)
             \/ \E j \in (m + 1)..n : log[k][j].path = p
  <2>1. CASE i \in 1..m
    <3>1. \A j \in (i + 1)..m : j \in (i + 1)..n
      OBVIOUS
    <3>2. \A j \in (i + 1)..m : log[k][j].path # p
      BY <1>3, <3>1
    <3> QED BY <1>3, <2>1, <3>2 DEF Holds
  <2>2. CASE i \notin 1..m
    <3>1. i \in (m + 1)..n
      BY <2>2
    <3> QED BY <1>3, <3>1
  <2> QED BY <2>1, <2>2
<1> QED BY <1>2, <1>3 DEF Holds

\* An event about something else leaves a document as it was.
LEMMA HoldsNext ==
  ASSUME NEW k, NEW n \in Nat, NEW p, NEW d, Holds(k, n, p, d),
         log[k][n + 1].path # p
  PROVE  Holds(k, n + 1, p, d)
<1>1. \A i \in 1..(n + 1) : i \in 1..n \/ i = n + 1
  OBVIOUS
<1>2. \A i \in 1..n : /\ i \in 1..(n + 1)
                      /\ \A j \in (i + 1)..(n + 1) : j \in (i + 1)..n \/ j = n + 1
  OBVIOUS
<1>3. CASE d = NoData /\ \A i \in 1..n : log[k][i].path # p
  BY <1>1, <1>3 DEF Holds
<1>4. ASSUME NEW i \in 1..n, log[k][i].path = p, log[k][i].data = d,
             \A j \in (i + 1)..n : log[k][j].path # p
      PROVE  Holds(k, n + 1, p, d)
  <2>1. \A j \in (i + 1)..(n + 1) : log[k][j].path # p
    BY <1>2, <1>4
  <2> QED BY <1>2, <1>4, <2>1 DEF Holds
<1> QED BY <1>3, <1>4 DEF Holds

\* The store holds what has been replayed, or more is to come, when a pull
\* starts over.
LEMMA FollowedKept ==
  ASSUME TypeOK, TypeOK', LogsGrow, NEW c \in Clients, Attached(c)',
         rsalt'[c] = rsalt[c], HistoryInv(c), NEW p \in Paths, Followed(c, p),
         store'[c][p] = store[c][p], Replayed(c, p)' <= Replayed(c, p)
  PROVE  Followed(c, p)'
<1> DEFINE k == rsalt[c]
           n == Replayed(c, p)
<1>1. /\ Attached(c) /\ Len(log[k]) \in Nat /\ Len(log'[k]) \in Nat
      /\ Longer(k)
  BY VaultFacts
<1>2. n \in Nat /\ n <= Len(log[k])
  BY <1>1, ReplayedBound
<1>3. Replayed(c, p)' \in Nat
  <2>1. pullIndex'[c] \in Nat /\ at'[c] \in Nat
    BY DEF TypeOK, StoreTypes, SyncTypes
  <2> QED BY <2>1 DEF Replayed
<1>4. \A j \in (n + 1)..Len(log[k]) : log[k][j].path = p =>
        Later(c, p)'
  <2> TAKE j \in (n + 1)..Len(log[k])
  <2>1. /\ j \in 1..Len(log[k])
        /\ j \in (Replayed(c, p)' + 1)..Len(log'[k])
    BY <1>1, <1>2, <1>3 DEF Longer
  <2>2. log'[k][j] = log[k][j]
    BY <1>1, <2>1 DEF Longer
  <2> QED BY <2>1, <2>2 DEF Later
<1>5. CASE Later(c, p)
  BY <1>4, <1>5 DEF Later, Followed
<1>6. CASE Holds(k, n, p, store[c][p])
  <2>1. Replayed(c, p)' \in 0..n
    BY <1>2, <1>3
  <2>2. ASSUME NEW m \in 0..n
        PROVE  \/ Holds(k, m, p, store[c][p])
               \/ \E j \in (m + 1)..n : log[k][j].path = p
    <3> HIDE DEF k, n
    <3> QED BY <1>2, <1>6, HoldsBack
  <2>3. CASE Holds(k, Replayed(c, p)', p, store[c][p])
    <3>1. ASSUME NEW m \in 0..Len(log[k]), NEW d, Holds(k, m, p, d)
          PROVE  Holds(k, m, p, d)'
      BY <1>1, <3>1, HoldsKept
    <3>2. \A m \in 0..n : /\ m \in 0..Len(log[k])
      BY <1>1, <1>2
    <3> QED BY <2>1, <2>3, <3>1, <3>2 DEF Followed
  <2>4. ASSUME NEW j \in (Replayed(c, p)' + 1)..n, log[k][j].path = p
        PROVE  Followed(c, p)'
    <3>1. /\ j \in 1..Len(log[k])
          /\ j \in (Replayed(c, p)' + 1)..Len(log'[k])
      BY <1>1, <1>2, <1>3 DEF Longer
    <3>2. log'[k][j] = log[k][j]
      BY <1>1, <3>1 DEF Longer
    <3> QED BY <2>4, <3>1, <3>2 DEF Later, Followed
  <2> QED BY <2>1, <2>2, <2>3, <2>4
<1> QED BY <1>5, <1>6 DEF Followed

-----------------------------------------------------------------------------
(* Steps that write nothing                                                 *)

\* The documents of the store are where they were.
LEMMA CleanStays ==
  ASSUME TypeOK, TypeOK', LogsGrow, NEW c \in Clients,
         HistoryInv(c), CleanInv(c), SameWrites(c),
         rsalt'[c] = rsalt[c], store'[c] = store[c], torn[c] \subseteq torn'[c],
         c \in unsynced' <=> c \in unsynced, c \in clean' <=> c \in clean,
         \A p \in Paths : Attached(c)' => Replayed(c, p)' <= Replayed(c, p),
         \/ ~Resetting(c)'
         \/ /\ phase'[c] = phase[c] /\ pull'[c] = pull[c]
            /\ todo'[c] = todo[c] /\ at'[c] = at[c]
  PROVE  CleanInv(c)'
<1> USE DEF SameWrites
<1>1. /\ c \in clean' /\ Resetting(c)' => writing'[c] = "no"
      /\ phase'[c] = "copying" => at'[c] >= Cardinality(pull'[c])
  BY DEF CleanInv, Resetting
<1>2. ASSUME NEW p \in Paths \ torn'[c], store'[c][p] # NoData,
             c \notin unsynced' \/ c \in clean'
      PROVE  KeptDoc(c, p)'
  <2>1. KeptDoc(c, p)
    BY <1>2 DEF CleanInv, KeptDocs
  <2>2. Unsent(c, p) => Unsent(c, p)'
    BY DEF Unsent, InWrite, InDocs
  <2>3. Attached(c)' => (Followed(c, p) => Followed(c, p)')
    BY FollowedKept
  <2>4. Attached(c)' => Attached(c)
    BY AttachedKept
  <2>5. Rebuilt(c, p) => Rebuilt(c, p)'
    <3>1. CASE ~Resetting(c)'
      BY <3>1 DEF Resetting, Rebuilt
    <3>2. CASE /\ phase'[c] = phase[c] /\ pull'[c] = pull[c]
               /\ todo'[c] = todo[c] /\ at'[c] = at[c]
      BY <3>2 DEF Rebuilt, InDocs, Listed
    <3> QED BY <3>1, <3>2
  <2> QED BY <2>1, <2>2, <2>3, <2>4, <2>5 DEF KeptDoc
<1> QED BY <1>1, <1>2 DEF CleanInv, KeptDocs

\* Steps around push and pull
LEMMA CleanOutside ==
  ASSUME TypeOK, TypeOK', LogsGrow, NEW c \in Clients,
         HistoryInv(c), CleanInv(c),
         \/ Lock(c) \/ Sync(c) \/ ServePost(c) \/ Refused(c) \/ Posted(c)
         \/ Pushed(c) \/ Pull(c) \/ PullNext(c) \/ Unsync(c)
         \/ Abort(c)
         \/ (Unlock(c) /\ rsalt' = rsalt)
  PROVE  CleanInv(c)'
<1>0. /\ phase \in [Clients -> Phases] /\ at \in [Clients -> Nat]
      /\ rsalt \in [Clients -> Keys \cup {NoKey}] /\ keys \in Nat
  BY DEF TypeOK, SyncTypes, StoreTypes, HistoryTypes, Keys
<1>1. /\ UNCHANGED <<store, pullIndex, torn, rsalt>> /\ SameWrites(c)
      /\ unsynced' = unsynced /\ clean' = clean
      /\ \/ phase'[c] \notin {"applying", "recording"} /\ ~Resetting(c)'
         \/ phase'[c] = "applying" /\ at'[c] = pullIndex[c]
         \/ /\ phase'[c] = phase[c] /\ pull'[c] = pull[c]
            /\ todo'[c] = todo[c] /\ at'[c] = at[c]
  <2> USE <1>0 DEF SameWrites, Goto, storeVars, setVars, histVars, Resetting
  <2>1. CASE Lock(c)
    BY <2>1 DEF Lock, syncVars
  <2>5. CASE Unlock(c) /\ rsalt' = rsalt
    <3>1. unsynced' = unsynced
      BY <2>5 DEF Unlock, NoKey
    <3> QED BY <2>5, <3>1 DEF Unlock, syncVars
  <2>2. CASE Sync(c) \/ ServePost(c) \/ Refused(c) \/ Posted(c) \/ Pushed(c)
    BY <2>2 DEF Sync, ServePost, Refused, Posted, Pushed
  <2>3. CASE Pull(c) \/ PullNext(c) \/ Unsync(c)
    BY <2>3 DEF Pull, PullNext, Receive, Unsync
  <2>4. CASE Abort(c)
    BY <2>4 DEF Abort, StopSync
  <2> QED BY <2>1, <2>2, <2>3, <2>4, <2>5
<1>2. ASSUME NEW p \in Paths, Attached(c)'
      PROVE  Replayed(c, p)' <= Replayed(c, p)
  BY <1>1, <1>2, ReplayedOutside DEF Resetting
<1>3. ~Resetting(c)' \/ (/\ phase'[c] = phase[c] /\ pull'[c] = pull[c]
                         /\ todo'[c] = todo[c] /\ at'[c] = at[c])
  BY <1>1 DEF Resetting
<1> QED BY <1>1, <1>2, <1>3, CleanStays

\* A local write is on its way from its first store write on.
LEMMA CleanWrite ==
  ASSUME TypeOK, TypeOK', LogsGrow, NEW c \in Clients,
         HistoryInv(c), CleanInv(c), LocalWrite(c)
  PROVE  CleanInv(c)'
<1>0. /\ store \in [Clients -> [Paths -> Data]]
      /\ writing \in [Clients -> {"no", "stored", "indexed"}]
      /\ cur \in [Clients -> Doc] /\ push \in [Clients -> SUBSET Doc]
      /\ torn \in [Clients -> SUBSET Paths] /\ clean \subseteq Clients
  BY DEF TypeOK, StoreTypes, MemoryTypes, HistoryTypes
<1>1. /\ UNCHANGED <<pull, pullIndex, rsalt, syncVars, netVars, unsynced>>
      /\ clean' \subseteq clean
      /\ c \in clean' /\ Resetting(c) => writing[c] = "no" /\ c \notin Unsyncing
  <2>1. CASE \E p \in Paths : SetItem(c, p) \/ RemoveDoc(c, p)
    BY <2>1 DEF SetItem, RemoveDoc, BeginWrite, Unsyncing, Resetting, CleanInv
  <2>2. CASE NextPushIndex(c) \/ AddToPush(c)
    BY <2>2 DEF NextPushIndex, AddToPush, histVars, CleanInv
  <2> QED BY <2>1, <2>2 DEF LocalWrite
<1>2. c \in clean' => ~Resetting(c) /\ ~Resetting(c)'
  BY <1>1 DEF Resetting, Unsyncing, syncVars
<1>3. phase'[c] = "copying" => at'[c] >= Cardinality(pull'[c])
  BY <1>1 DEF CleanInv, syncVars
<1>4. ASSUME NEW p \in Paths, c \notin unsynced' \/ c \in clean', KeptDoc(c, p),
             store'[c][p] = store[c][p], Unsent(c, p) => Unsent(c, p)'
      PROVE  KeptDoc(c, p)'
  <2>1. Attached(c)' => Attached(c)
    BY <1>1, AttachedKept
  <2>2. Replayed(c, p)' <= Replayed(c, p)
    BY <1>1, ReplayedTypes DEF Replayed, syncVars
  <2>3. Attached(c)' /\ Followed(c, p) => Followed(c, p)'
    BY <1>1, <1>4, <2>2, FollowedKept
  <2>4. c \in clean' => Rebuilt(c, p)'
    BY <1>2 DEF Rebuilt, Resetting
  <2> QED BY <1>1, <1>4, <2>1, <2>3, <2>4 DEF KeptDoc
<1>5. ASSUME NEW p \in Paths, Unsent(c, p)' PROVE KeptDoc(c, p)'
  BY <1>2, <1>5 DEF KeptDoc, Rebuilt, Resetting
<1>6. ASSUME NEW q \in Paths, NEW d, BeginWrite(c, q, d) PROVE KeptDocs(c)'
  <2>1. /\ push' = push /\ writing[c] = "no" /\ writing'[c] = "stored"
        /\ store'[c] = [store[c] EXCEPT ![q] = d]
        /\ cur'[c].path = q /\ cur'[c].data = d
        /\ torn'[c] = torn[c] \ {q}
    BY <1>0, <1>6 DEF BeginWrite
  <2>2. ASSUME NEW p \in Paths \ torn'[c], store'[c][p] # NoData,
               c \notin unsynced' \/ c \in clean'
        PROVE  KeptDoc(c, p)'
    <3>1. CASE p = q
      <4>1. Unsent(c, p)'
        BY <1>0, <2>1, <3>1 DEF Unsent, InWrite
      <4> QED BY <1>5, <4>1
    <3>2. CASE p # q
      <4>1. store'[c][p] = store[c][p] /\ p \notin torn[c]
        BY <1>0, <2>1, <3>2
      <4>2. Unsent(c, p) => Unsent(c, p)'
        BY <2>1, <3>2, <4>1 DEF Unsent, InWrite, InDocs
      <4>3. KeptDoc(c, p)
        BY <1>1, <2>2, <4>1 DEF CleanInv, KeptDocs
      <4> QED BY <1>4, <2>2, <4>1, <4>2, <4>3
    <3> QED BY <3>1, <3>2
  <2> QED BY <2>2 DEF KeptDocs
<1>7. ASSUME UNCHANGED <<store, torn>>,
             \A p \in Paths : Unsent(c, p) => Unsent(c, p)'
      PROVE  KeptDocs(c)'
  <2>1. ASSUME NEW p \in Paths \ torn'[c], store'[c][p] # NoData,
               c \notin unsynced' \/ c \in clean'
        PROVE  KeptDoc(c, p)'
    <3>1. KeptDoc(c, p)
      BY <1>1, <1>7, <2>1 DEF CleanInv, KeptDocs
    <3> QED BY <1>4, <1>7, <2>1, <3>1
  <2> QED BY <2>1 DEF KeptDocs
<1>8. CASE NextPushIndex(c)
  <2>1. /\ UNCHANGED <<store, push, torn>>
        /\ writing[c] # "no" /\ writing'[c] # "no"
        /\ cur'[c].path = cur[c].path /\ cur'[c].data = cur[c].data
    BY <1>0, <1>8 DEF NextPushIndex, histVars, Doc
  <2>2. \A p \in Paths : Unsent(c, p) => Unsent(c, p)'
    BY <2>1 DEF Unsent, InWrite, InDocs
  <2>4. KeptDocs(c)'
    BY <1>7, <2>1, <2>2
  <2>3. c \in clean' /\ Resetting(c)' => writing'[c] = "no"
    BY <1>2
  <2> QED BY <1>3, <2>3, <2>4 DEF CleanInv
<1>9. CASE AddToPush(c)
  <2>1. /\ UNCHANGED <<store, torn>> /\ writing[c] # "no" /\ writing'[c] = "no"
        /\ push'[c] = Put(push[c], cur[c])
    BY <1>0, <1>9 DEF AddToPush
  <2>2. ASSUME NEW p \in Paths, Unsent(c, p) PROVE Unsent(c, p)'
    <3>1. CASE cur[c].path = p
      <4>1. cur[c].data = store[c][p] /\ cur[c] \in push'[c]
        BY <2>1, <2>2, <3>1 DEF Unsent, InWrite, Put
      <4> QED BY <2>1, <3>1, <4>1 DEF Unsent, InWrite, InDocs
    <3>2. CASE cur[c].path # p
      <4>1. PICK d \in push[c] : d.path = p /\ d.data = store[c][p]
        BY <2>2, <3>2 DEF Unsent, InWrite, InDocs
      <4>2. d \in push'[c]
        BY <2>1, <3>2, <4>1 DEF Put
      <4> QED BY <2>1, <4>1, <4>2 DEF Unsent, InWrite, InDocs
    <3> QED BY <3>1, <3>2
  <2>3. KeptDocs(c)'
    BY <1>7, <2>1, <2>2
  <2> QED BY <1>3, <2>1, <2>3 DEF CleanInv
<1>10. CASE \E p \in Paths : SetItem(c, p) \/ RemoveDoc(c, p)
  <2>1. KeptDocs(c)'
    BY <1>6, <1>10 DEF SetItem, RemoveDoc
  <2>2. c \in clean' /\ Resetting(c)' => writing'[c] = "no"
    BY <1>2
  <2> QED BY <1>3, <2>1, <2>2 DEF CleanInv
<1> QED BY <1>8, <1>9, <1>10 DEF LocalWrite

\* What is cleared from the push log is in the vault and will be pulled.
LEMMA CleanClear ==
  ASSUME TypeOK, TypeOK', LogsGrow, NEW c \in Clients,
         HistoryInv(c), SentInv(c), CleanInv(c), ClearPush(c)
  PROVE  CleanInv(c)'
<1> DEFINE k == rsalt[c]
<1>0. /\ push'[c] = Keeps(c) /\ todo[c] # <<>>
      /\ todo[c] \in Seq(Doc) /\ phase[c] = "clearing"
      /\ UNCHANGED <<store, pull, pullIndex, rsalt, setVars, phase, at, torn,
                     log, removed, unsynced, clean>>
  BY DEF TypeOK, SyncTypes, StoreTypes, ClearPush, netVars, histVars
<1>1. ~Resetting(c)' /\ phase'[c] # "copying"
  BY <1>0 DEF Resetting
<1>2. rsalt[c] # NoKey
  BY <1>0 DEF HistoryInv
<1>3. ASSUME NEW p \in Paths \ torn'[c], store'[c][p] # NoData,
             c \notin unsynced' \/ c \in clean'
      PROVE  KeptDoc(c, p)'
  <2>1. KeptDoc(c, p)
    BY <1>0, <1>3 DEF CleanInv, KeptDocs
  <2>2. Rebuilt(c, p)'
    BY <1>1 DEF Rebuilt, Resetting
  <2>3. ASSUME Attached(c) PROVE (Unsent(c, p) \/ Followed(c, p))'
    <3>1. CASE Followed(c, p)
      BY <1>0, <3>1 DEF Followed, Later, Holds, Replayed
    <3>2. CASE Unsent(c, p) /\ (InWrite(c, p) \/ InDocs(push'[c], c, p))
      BY <1>0, <3>2 DEF Unsent, InWrite, InDocs, setVars
    <3>3. ASSUME NEW d \in push[c], d.path = p, d \notin push'[c]
          PROVE  Followed(c, p)'
      <4>1. todo[c][1].path = p /\ 1 \in 1..Len(todo[c])
        BY <1>0, <3>3 DEF Keeps
      <4>2. PICK j \in (pullIndex[c] + 1)..Len(log[k]) :
              log[k][j] = Entry(todo[c][1])
        BY <1>0, <2>3, <4>1 DEF SentInv, Landed
      <4>3. Replayed(c, p) = pullIndex[c] /\ log[k][j].path = p
        BY <1>0, <4>1, <4>2 DEF Replayed, Entry
      <4>4. Later(c, p)
        BY <4>3 DEF Later
      <4> QED BY <1>0, <4>4 DEF Later, Followed, Replayed
    <3>4. Unsent(c, p) => \/ InWrite(c, p) \/ InDocs(push'[c], c, p)
                          \/ \E d \in push[c] : d.path = p /\ d \notin push'[c]
      BY DEF Unsent, InDocs
    <3> QED BY <2>1, <2>3, <3>1, <3>2, <3>3, <3>4 DEF KeptDoc
  <2>4. Attached(c)' => Attached(c)
    BY <1>0 DEF Attached
  <2> QED BY <1>0, <1>2, <2>2, <2>3, <2>4 DEF KeptDoc
<1> QED BY <1>1, <1>3 DEF CleanInv, KeptDocs

\* A crash loses a write that is not yet in the push log: its path is torn.
LEMMA CleanCrash ==
  ASSUME TypeOK, TypeOK', LogsGrow, NEW c \in Clients,
         HistoryInv(c), CleanInv(c), Crash(c)
  PROVE  CleanInv(c)'
<1>1. /\ UNCHANGED <<store, push, pullIndex, rsalt, unsynced, clean>>
      /\ phase'[c] = "idle" /\ writing'[c] = "no"
      /\ torn[c] \subseteq torn'[c]
      /\ writing[c] # "no" => cur[c].path \in torn'[c]
  BY DEF Crash, StopSync, Goto, storeVars, TypeOK, MemoryTypes, SyncTypes,
         HistoryTypes
<1>2. ASSUME NEW p \in Paths \ torn'[c], store'[c][p] # NoData,
             c \notin unsynced' \/ c \in clean'
      PROVE  KeptDoc(c, p)'
  <2>1. KeptDoc(c, p) /\ ~InWrite(c, p)
    BY <1>1, <1>2 DEF CleanInv, KeptDocs, InWrite
  <2>2. Unsent(c, p) => Unsent(c, p)'
    BY <1>1, <2>1 DEF Unsent, InWrite, InDocs
  <2>3. Attached(c)' => Attached(c)
    BY <1>1, AttachedKept
  <2>4. Attached(c)' /\ Followed(c, p) => Followed(c, p)'
    <3>1. Attached(c)' => pullIndex[c] <= Replayed(c, p)
      BY <2>3, ReplayedBound
    <3>2. Replayed(c, p)' = pullIndex[c]
      BY <1>1 DEF Replayed
    <3> QED BY <1>1, <3>1, <3>2, FollowedKept
  <2>5. Rebuilt(c, p)'
    BY <1>1 DEF Rebuilt
  <2> QED BY <1>1, <2>1, <2>2, <2>3, <2>4, <2>5 DEF KeptDoc
<1> QED BY <1>1, <1>2 DEF CleanInv, KeptDocs, Resetting

-----------------------------------------------------------------------------
(* Pull                                                                     *)

\* A pull applies an event: its document is as it was after that event,
LEMMA CleanApply ==
  ASSUME TypeOK, TypeOK', LogsGrow, NEW c \in Clients,
         HistoryInv(c), CleanInv(c), ApplyEvent(c)
  PROVE  CleanInv(c)'
<1> DEFINE e == Head(todo[c])
           k == rsalt[c]
<1>0. /\ phase[c] = "applying" /\ phase'[c] = "recording"
      /\ todo[c] \in Seq(Doc) /\ todo[c] # <<>>
      /\ UNCHANGED <<push, pullIndex, rsalt, setVars, at, todo, log, removed,
                     unsynced, clean>>
      /\ store'[c] = [store[c] EXCEPT ![e.path] = e.data]
      /\ torn'[c] = torn[c] \ {e.path}
      /\ store[c] \in [Paths -> Data]
  BY DEF ApplyEvent, Applied, Goto, TypeOK, SyncTypes, StoreTypes,
         HistoryTypes, netVars
<1>1. rsalt[c] # NoKey
  BY <1>0 DEF HistoryInv
<1>2. /\ e = todo[c][1] /\ 1 \in 1..Len(todo[c]) /\ e \in Doc
      /\ Len(todo[c]) \in Nat /\ at[c] \in Nat
  BY <1>0, PullTypes
<1> HIDE DEF e
<1>3. ASSUME NEW p \in Paths \ torn'[c], store'[c][p] # NoData,
             c \notin unsynced' \/ c \in clean'
      PROVE  KeptDoc(c, p)'
  <2>1. Rebuilt(c, p)'
    BY <1>0 DEF Rebuilt
  <2>2. ASSUME Attached(c)', p = e.path PROVE Followed(c, p)'
    <3>1. Attached(c) /\ Len(log[k]) \in Nat
      BY <1>0, <2>2, VaultFacts
    <3>2. Pulling(c)
      BY <1>0, <3>1 DEF HistoryInv
    <3>3. log[k][at[c] + 1] = Entry(e)
      BY <1>2, <3>2 DEF Pulling
    <3>4. store'[c][p] = e.data
      BY <1>0, <2>2
    <3>5. Replayed(c, p)' = at[c] + 1
      BY <1>0, <2>2 DEF Replayed, e
    <3>6. at[c] + 1 \in 1..at[c] + 1 /\ ((at[c] + 1) + 1)..(at[c] + 1) = {}
      BY <1>2
    <3>7. Holds(k, at[c] + 1, p, store'[c][p])
      BY <2>2, <3>3, <3>4, <3>6 DEF Holds, Entry
    <3>8. Holds(rsalt[c], at[c] + 1, p, store[c][p])'
      BY <1>0, <3>7 DEF Holds
    <3> QED BY <1>0, <3>5, <3>8 DEF Followed
  <2>3. ASSUME Attached(c)', p # e.path PROVE (Unsent(c, p) \/ Followed(c, p))'
    <3>1. store'[c][p] = store[c][p] /\ p \notin torn[c]
      BY <1>0, <1>2, <1>3, <2>3 DEF Doc
    <3>2. KeptDoc(c, p) /\ Attached(c)
      BY <1>0, <1>3, <2>3, <3>1 DEF CleanInv, KeptDocs, Attached
    <3>3. Replayed(c, p)' <= Replayed(c, p)
      BY <1>0, <1>2, <2>3 DEF Replayed, e
    <3>4. Followed(c, p) => Followed(c, p)'
      BY <1>0, <2>3, <3>1, <3>3, FollowedKept
    <3>5. Unsent(c, p) => Unsent(c, p)'
      BY <1>0, <3>1 DEF Unsent, InWrite, InDocs, setVars
    <3> QED BY <3>2, <3>4, <3>5 DEF KeptDoc
  <2> QED BY <1>0, <1>1, <2>1, <2>2, <2>3 DEF KeptDoc
<1> QED BY <1>0, <1>3 DEF CleanInv, KeptDocs, Resetting

\* and the others are as they were after it.
LEMMA CleanRecord ==
  ASSUME TypeOK, TypeOK', LogsGrow, NEW c \in Clients,
         HistoryInv(c), CleanInv(c), RecordEvent(c)
  PROVE  CleanInv(c)'
<1> DEFINE e == Head(todo[c])
           k == rsalt[c]
<1>0. /\ phase[c] = "recording" /\ phase'[c] = "applying"
      /\ todo[c] \in Seq(Doc) /\ todo[c] # <<>> /\ at'[c] = e.idx
      /\ UNCHANGED <<store, push, pullIndex, rsalt, setVars, torn, log, removed,
                     unsynced, clean>>
  BY DEF RecordEvent, Goto, TypeOK, SyncTypes, netVars, histVars
<1>1. rsalt[c] # NoKey
  BY <1>0 DEF HistoryInv
<1>2. e = todo[c][1] /\ 1 \in 1..Len(todo[c]) /\ at[c] \in Nat
  BY <1>0, PullTypes
<1>3. ASSUME NEW p \in Paths \ torn'[c], store'[c][p] # NoData,
             c \notin unsynced' \/ c \in clean'
      PROVE  KeptDoc(c, p)'
  <2>1. KeptDoc(c, p)
    BY <1>0, <1>3 DEF CleanInv, KeptDocs
  <2>2. Rebuilt(c, p)'
    BY <1>0 DEF Rebuilt
  <2>3. Unsent(c, p) => Unsent(c, p)'
    BY <1>0 DEF Unsent, InWrite, InDocs, setVars
  <2>4. ASSUME Attached(c)', Followed(c, p) PROVE Followed(c, p)'
    <3>1. Attached(c) /\ Len(log[k]) \in Nat
      BY <1>0, <2>4, VaultFacts
    <3>2. Pulling(c)
      BY <1>0, <3>1 DEF HistoryInv
    <3>3. log[k][at[c] + 1] = Entry(e) /\ e.idx = at[c] + 1
      BY <1>2, <3>2 DEF Pulling
    <3>4. Replayed(c, p)' = at[c] + 1
      BY <1>0, <3>3 DEF Replayed
    <3>5. CASE e.path = p
      <4>1. Replayed(c, p) = at[c] + 1
        BY <1>0, <3>5 DEF Replayed
      <4> QED BY <1>0, <1>2, <2>4, <3>4, <4>1, FollowedKept
    <3>6. CASE e.path # p
      <4>1. Replayed(c, p) = at[c] /\ log[k][at[c] + 1].path # p
        BY <1>0, <3>3, <3>6 DEF Replayed, Entry
      <4>2. CASE Later(c, p)
        <5>1. PICK j \in (at[c] + 1)..Len(log[k]) : log[k][j].path = p
          BY <4>1, <4>2 DEF Later
        <5>2. j \in ((at[c] + 1) + 1)..Len(log[k])
          BY <1>2, <3>1, <4>1, <5>1
        <5>3. \E i \in (Replayed(c, p)' + 1)..Len(log[k]) : log[k][i].path = p
          BY <3>4, <5>1, <5>2
        <5> QED BY <1>0, <5>3 DEF Followed, Later
      <4>3. CASE Holds(k, at[c], p, store[c][p])
        <5>1. \A n \in Nat : \A d :
                Holds(k, n, p, d) /\ log[k][n + 1].path # p => Holds(k, n + 1, p, d)
          BY HoldsNext
        <5>2. Holds(k, at[c] + 1, p, store[c][p])
          BY <1>2, <4>1, <4>3, <5>1
        <5>3. \A n : Holds(k, n, p, store[c][p]) =>
                        Holds(rsalt[c], n, p, store[c][p])'
          BY <1>0 DEF Holds
        <5>4. Holds(rsalt[c], Replayed(c, p), p, store[c][p])'
          BY <3>4, <5>2, <5>3
        <5> QED BY <5>4 DEF Followed
      <4> QED BY <2>4, <4>1, <4>2, <4>3 DEF Followed
    <3> QED BY <3>5, <3>6
  <2>5. Attached(c)' => Attached(c)
    BY <1>0 DEF Attached
  <2> QED BY <1>0, <1>1, <2>1, <2>2, <2>3, <2>4, <2>5 DEF KeptDoc
<1> QED BY <1>0, <1>3 DEF CleanInv, KeptDocs, Resetting

\* The pull index moves up to what was replayed.
LEMMA CleanPulled ==
  ASSUME TypeOK, TypeOK', LogsGrow, NEW c \in Clients,
         HistoryInv(c), CleanInv(c), PullDone(c)
  PROVE  CleanInv(c)'
<1>1. /\ UNCHANGED <<store, push, rsalt, setVars, torn, unsynced, clean,
                     pushIndex, acked>>
      /\ phase[c] = "applying" /\ phase'[c] \in {"idle", "pulling"}
      /\ pullIndex'[c] = at[c] /\ at[c] \in Nat
  BY DEF PullDone, Goto, histVars, TypeOK, SyncTypes, StoreTypes
<1>2. \A p \in Paths : Replayed(c, p)' <= Replayed(c, p)
  BY <1>1 DEF Replayed
<1>3. ~Resetting(c)' /\ SameWrites(c)
  BY <1>1 DEF Resetting, SameWrites, setVars
<1> QED BY <1>1, <1>2, <1>3, CleanStays

\* A client joins a vault with an empty store.
LEMMA CleanClone ==
  ASSUME TypeOK, TypeOK', NEW c \in Clients, NEW k \in 1..keys, Clone(c, k)
  PROVE  CleanInv(c)'
<1>1. /\ store'[c] = [p \in Paths |-> NoData]
      /\ phase'[c] \in {"idle", "applying"}
  BY DEF Clone, IsEmpty, Idle, Receive, Goto, TypeOK, SyncTypes
<1> QED BY <1>1 DEF CleanInv, KeptDocs, Resetting

-----------------------------------------------------------------------------
(* Unsync                                                                   *)

\* A vault is removed when all of it has been pulled: what is not in the push
\* log is in the pull log.
LEMMA CleanDelete ==
  ASSUME TypeOK, TypeOK', LogsGrow, NEW c \in Clients,
         HistoryInv(c), CleanInv(c), ServeDelete(c)
  PROVE  CleanInv(c)'
<1> DEFINE k == rsalt[c]
<1>0. /\ phase[c] = "deleting" /\ phase'[c] \in {"refused", "deleted"}
      /\ phase'[c] = "deleted" => ~Missing(k, 0)
      /\ k # NoKey /\ k \in removed'
      /\ c \in clean' => /\ pullIndex[c] = Len(log[k]) /\ writing[c] = "no"
                         /\ c \notin unsynced \/ c \in clean
      /\ UNCHANGED <<store, push, pull, pullIndex, rsalt, writing, torn>>
  BY DEF ServeDelete, RemoveLog, Goto, TypeOK, SyncTypes, HistoryTypes,
         HistoryInv, storeVars, setVars
<1>1. ASSUME NEW p \in Paths \ torn[c], store[c][p] # NoData, c \in clean',
             phase'[c] = "deleted"
      PROVE  InDocs(push[c] \cup pull[c], c, p)
  <2>1. Attached(c)
    BY <1>0, <1>1 DEF Missing, Attached
  <2>2. KeptDoc(c, p)
    BY <1>0, <1>1 DEF CleanInv, KeptDocs
  <2>3. CASE Unsent(c, p)
    BY <1>0, <1>1, <2>3 DEF Unsent, InWrite, InDocs
  <2>4. CASE Followed(c, p)
    <3>1. Replayed(c, p) = Len(log[k]) /\ Len(log[k]) \in Nat
      BY <1>0, <1>1, <2>1, PullTypes DEF Replayed
    <3>2. ~Later(c, p)
      BY <3>1 DEF Later
    <3>3. PICK i \in 1..Len(log[k]) : /\ log[k][i].path = p
                                      /\ log[k][i].data = store[c][p]
      BY <1>1, <2>4, <3>1, <3>2 DEF Followed, Holds
    <3>4. PICK d \in pull[c] : d.idx = i
      BY <1>0, <1>1, <2>1, <3>3 DEF HistoryInv, UpTo
    <3>5. log[k][i] = Entry(d)
      BY <2>1, <3>4 DEF HistoryInv, Matches
    <3>6. d.path = p /\ d.data = store[c][p]
      BY <3>3, <3>5 DEF Entry
    <3> QED BY <3>4, <3>6 DEF InDocs
  <2> QED BY <2>1, <2>2, <2>3, <2>4 DEF KeptDoc
<1>2. ASSUME NEW p \in Paths \ torn'[c], store'[c][p] # NoData
      PROVE  KeptDoc(c, p)'
  <2>1. c \in clean' => Rebuilt(c, p)'
    BY <1>0, <1>1, <1>2 DEF Rebuilt, InDocs
  <2> QED BY <1>0, <2>1 DEF KeptDoc, Attached
<1>3. c \in clean' /\ Resetting(c)' => writing'[c] = "no"
  BY <1>0
<1> QED BY <1>0, <1>2, <1>3 DEF CleanInv, KeptDocs

\* What the steps of resetLog have in common: the vault is gone, so all there
\* is to show is where the documents are now.
LEMMA CleanResetting ==
  ASSUME NEW c \in Clients, CleanInv(c), Resetting(c), HistoryInv(c),
         UNCHANGED <<store, rsalt, removed, torn, clean, setVars>>,
         phase'[c] = "copying" => at'[c] >= Cardinality(pull'[c]),
         \A p \in Paths : Rebuilt(c, p) /\ c \in clean => Rebuilt(c, p)'
  PROVE  CleanInv(c)'
<1>1. rsalt[c] # NoKey /\ ~Attached(c)'
  BY DEF HistoryInv, Resetting, Attached
<1>2. ASSUME NEW p \in Paths \ torn'[c], store'[c][p] # NoData
      PROVE  KeptDoc(c, p)'
  <2>1. c \in clean => KeptDoc(c, p)
    BY <1>2 DEF CleanInv, KeptDocs
  <2> QED BY <1>1, <2>1 DEF KeptDoc
<1>3. c \in clean' /\ Resetting(c)' => writing'[c] = "no"
  BY DEF CleanInv, setVars
<1> QED BY <1>2, <1>3 DEF CleanInv, KeptDocs

\* Both logs are listed.
LEMMA CleanReset ==
  ASSUME TypeOK, NEW c \in Clients, HistoryInv(c), CleanInv(c), ResetLog(c)
  PROVE  CleanInv(c)'
<1>0. /\ phase[c] = "deleted" /\ phase \in [Clients -> Phases]
      /\ at \in [Clients -> Nat] /\ todo \in [Clients -> Seq(Doc)]
      /\ push[c] \in SUBSET Doc /\ IsFiniteSet(push[c])
      /\ IsFiniteSet(pull[c])
      /\ UNCHANGED <<store, push, pull, rsalt, removed, torn, clean, setVars>>
  BY DEF ResetLog, TypeOK, StoreTypes, SyncTypes, netVars
<1>1. CASE pull[c] = {}
  <2>1. phase'[c] = "ending"
    BY <1>0, <1>1 DEF ResetLog, Goto
  <2>2. \A p \in Paths : Rebuilt(c, p) => Rebuilt(c, p)'
    BY <1>0, <1>1, <2>1 DEF Rebuilt, InDocs
  <2> QED BY <1>0, <2>1, <2>2, CleanResetting DEF Resetting
<1>2. CASE pull[c] # {}
  <2>1. /\ phase'[c] = "copying" /\ todo'[c] = Listing(push[c])
        /\ at'[c] = Cardinality(pull[c])
    BY <1>0, <1>2 DEF ResetLog, Goto, Copies
  <2>2. ASSUME NEW p \in Paths, Rebuilt(c, p) PROVE Rebuilt(c, p)'
    <3>1. PICK d \in push[c] \cup pull[c] : d.path = p /\ d.data = store[c][p]
      BY <1>0, <2>2 DEF Rebuilt, InDocs
    <3>2. CASE d \in pull[c]
      BY <1>0, <2>1, <3>1, <3>2 DEF Rebuilt, InDocs
    <3>3. CASE d \in push[c]
      <4>1. \E i \in 1..Len(Listing(push[c])) : Listing(push[c])[i] = d
        BY <1>0, <3>3, ListingIsComplete
      <4>2. Listed(c, p)'
        BY <1>0, <2>1, <3>1, <4>1 DEF Listed
      <4> QED BY <2>1, <4>2 DEF Rebuilt
    <3> QED BY <3>2, <3>3
  <2>3. Cardinality(pull[c]) \in Nat
    BY <1>0, FS_CardinalityType
  <2>4. at'[c] >= Cardinality(pull'[c])
    BY <1>0, <2>1, <2>3
  <2> QED BY <1>0, <2>2, <2>4, CleanResetting DEF Resetting
<1> QED BY <1>1, <1>2

\* The step has written what the store holds to the loop's next index.
Placed(c, p) ==
  \E d \in push'[c] :
    d.idx = at[c] + 1 /\ d.path = p /\ d.data = store[c][p]

\* What the two loops of resetLog do: the next document gets an index of its own.
LEMMA MoveOne ==
  ASSUME TypeOK, NEW c \in Clients, todo[c] # <<>>, UNCHANGED store,
         push'[c] = Put(push[c], Renumbered(c)), todo'[c] = Tail(todo[c]),
         at'[c] = at[c] + 1
  PROVE  /\ \A p \in Paths : Listed(c, p) =>
              \/ Listed(c, p)' \/ Placed(c, p)
         /\ \A d \in push[c] : d.idx # at[c] + 1 => d \in push'[c]
         /\ Len(todo'[c]) = Len(todo[c]) - 1 /\ Len(todo[c]) \in Nat \ {0}
         /\ at[c] \in Nat
<1>1. todo[c] \in Seq(Doc) /\ at[c] \in Nat
  BY DEF TypeOK, SyncTypes
<1>2. /\ Len(todo'[c]) = Len(todo[c]) - 1 /\ Len(todo[c]) \in Nat \ {0}
      /\ Head(todo[c]) = todo[c][1]
      /\ \A i \in 1..Len(todo[c]) :
           i # 1 => /\ i - 1 \in 1..Len(todo'[c])
                    /\ todo'[c][i - 1] = todo[c][i]
  BY <1>1
<1>3. Renumbered(c) \in push'[c]
  BY DEF Put
<1>4. ASSUME NEW p \in Paths, NEW i \in 1..Len(todo[c]),
             todo[c][i].path = p, todo[c][i].data = store[c][p]
      PROVE  \/ Listed(c, p)'
             \/ Placed(c, p)
  <2>1. CASE i = 1
    <3>1. /\ Renumbered(c).path = p /\ Renumbered(c).data = store'[c][p]
          /\ Renumbered(c).idx = at[c] + 1
      BY <1>2, <1>4, <2>1 DEF Renumbered
    <3> QED BY <1>3, <3>1 DEF Placed
  <2>2. CASE i # 1
    <3>1. i - 1 \in 1..Len(todo'[c]) /\ todo'[c][i - 1] = todo[c][i]
      BY <1>2, <2>2
    <3> QED BY <1>4, <3>1 DEF Listed
  <2> QED BY <2>1, <2>2
<1>5. \A d \in push[c] : d.idx # at[c] + 1 => d \in push'[c]
  BY DEF Put, Renumbered
<1> QED BY <1>1, <1>2, <1>4, <1>5 DEF Listed

\* The push log is copied behind the pull log.
LEMMA CleanCopy ==
  ASSUME TypeOK, NEW c \in Clients, HistoryInv(c), CleanInv(c), CopyPush(c)
  PROVE  CleanInv(c)'
<1>0. /\ phase[c] = "copying" /\ phase \in [Clients -> Phases]
      /\ at \in [Clients -> Nat] /\ todo \in [Clients -> Seq(Doc)]
      /\ push \in [Clients -> SUBSET Doc]
      /\ pull[c] \in SUBSET Doc /\ IsFiniteSet(pull[c])
      /\ UNCHANGED <<store, pull, rsalt, removed, torn, clean, setVars>>
      /\ at[c] >= Cardinality(pull[c]) /\ Cardinality(pull[c]) \in Nat
  BY FS_CardinalityType
     DEF CopyPush, TypeOK, StoreTypes, SyncTypes, netVars, histVars, CleanInv
<1>1. CASE todo[c] = <<>>
  <2>1. /\ phase'[c] = "moving" /\ todo'[c] = Listing(pull[c]) /\ at'[c] = 0
        /\ push' = push
    BY <1>0, <1>1 DEF CopyPush, Goto
  <2>2. Len(todo'[c]) = Cardinality(pull[c])
    BY <1>0, <2>1, ListingOfLog
  <2>3. ASSUME NEW p \in Paths, Rebuilt(c, p) PROVE Rebuilt(c, p)'
    <3>1. ~Listed(c, p)
      BY <1>1 DEF Listed
    <3>2. ASSUME NEW d \in pull[c], d.path = p, d.data = store[c][p]
          PROVE  Listed(c, p)'
      <4>1. \E i \in 1..Len(Listing(pull[c])) : Listing(pull[c])[i] = d
        BY <1>0, <3>2, ListingIsComplete
      <4> QED BY <1>0, <2>1, <3>2, <4>1 DEF Listed
    <3>3. ASSUME NEW d \in push[c], d.path = p, d.data = store[c][p],
                 d.idx > Cardinality(pull[c])
          PROVE  Rebuilt(c, p)'
      <4>1. d \in push'[c] /\ d.idx > at'[c] + Len(todo'[c]) /\ d.data = store'[c][p]
        BY <1>0, <2>1, <2>2, <3>3
      <4> QED BY <2>1, <3>3, <4>1 DEF Rebuilt, InDocs
    <3> QED BY <1>0, <2>1, <2>3, <3>1, <3>2, <3>3 DEF Rebuilt, InDocs
  <2> QED BY <1>0, <2>1, <2>3, CleanResetting DEF Resetting
<1>2. CASE todo[c] # <<>>
  <2>1. /\ phase' = phase /\ push'[c] = Put(push[c], Renumbered(c))
        /\ todo'[c] = Tail(todo[c]) /\ at'[c] = at[c] + 1
    BY <1>0, <1>2 DEF CopyPush
  <2>2. ASSUME NEW p \in Paths, Rebuilt(c, p) PROVE Rebuilt(c, p)'
    <3>1. CASE InDocs(pull[c], c, p)
      BY <1>0, <2>1, <3>1 DEF Rebuilt, InDocs
    <3>2. CASE Listed(c, p)
      <4>1. Listed(c, p)' \/ Placed(c, p)
        BY <1>0, <1>2, <2>1, <3>2, MoveOne
      <4>2. ASSUME NEW d \in push'[c], d.idx = at[c] + 1, d.path = p,
                   d.data = store[c][p]
            PROVE  Rebuilt(c, p)'
        <5>1. d.idx > Cardinality(pull'[c]) /\ d.idx <= at'[c] /\ d.data = store'[c][p]
          BY <1>0, <2>1, <4>2
        <5> QED BY <1>0, <2>1, <4>2, <5>1 DEF Rebuilt, InDocs
      <4> QED BY <1>0, <2>1, <4>1, <4>2 DEF Rebuilt, Placed
    <3>3. ASSUME NEW d \in push[c], d.path = p, d.data = store[c][p],
                 d.idx > Cardinality(pull[c]), d.idx <= at[c]
          PROVE  Rebuilt(c, p)'
      <4>0. d.idx \in Nat
        BY <1>0 DEF Doc
      <4>1. d.idx # at[c] + 1 /\ d.idx <= at'[c] /\ d.idx > Cardinality(pull'[c])
        BY <1>0, <2>1, <3>3, <4>0
      <4>2. d \in push'[c]
        BY <1>0, <1>2, <2>1, <4>1, MoveOne
      <4> QED BY <1>0, <2>1, <3>3, <4>1, <4>2 DEF Rebuilt, InDocs
    <3> QED BY <1>0, <2>2, <3>1, <3>2, <3>3 DEF Rebuilt, InDocs
  <2>3. at'[c] >= Cardinality(pull'[c])
    BY <1>0, <2>1
  <2> QED BY <1>0, <2>2, <2>3, CleanResetting DEF Resetting
<1> QED BY <1>1, <1>2

\* The pull log is moved to the front of the push log.
LEMMA CleanMove ==
  ASSUME TypeOK, NEW c \in Clients, HistoryInv(c), CleanInv(c), MovePull(c)
  PROVE  CleanInv(c)'
<1>0. /\ phase[c] = "moving" /\ phase \in [Clients -> Phases]
      /\ at \in [Clients -> Nat] /\ todo \in [Clients -> Seq(Doc)]
      /\ push \in [Clients -> SUBSET Doc]
      /\ UNCHANGED <<store, rsalt, removed, torn, clean, setVars>>
  BY DEF MovePull, TypeOK, StoreTypes, SyncTypes, netVars, histVars
<1>1. CASE todo[c] = <<>>
  <2>1. phase'[c] = "ending" /\ push' = push
    BY <1>0, <1>1 DEF MovePull, Goto
  <2>2. ASSUME NEW p \in Paths, Rebuilt(c, p) PROVE Rebuilt(c, p)'
    <3>1. ~Listed(c, p)
      BY <1>1 DEF Listed
    <3>2. InDocs(push[c], c, p)
      BY <1>0, <2>2, <3>1 DEF Rebuilt, InDocs
    <3> QED BY <1>0, <2>1, <3>2 DEF Rebuilt, InDocs
  <2> QED BY <1>0, <2>1, <2>2, CleanResetting DEF Resetting
<1>2. CASE todo[c] # <<>>
  <2>1. /\ phase' = phase /\ push'[c] = Put(push[c], Renumbered(c))
        /\ todo'[c] = Tail(todo[c]) /\ at'[c] = at[c] + 1
    BY <1>0, <1>2 DEF MovePull
  <2>2. /\ Len(todo'[c]) = Len(todo[c]) - 1 /\ Len(todo[c]) \in Nat \ {0}
        /\ at[c] \in Nat
    BY <1>0, <1>2, <2>1, MoveOne
  <2>3. ASSUME NEW p \in Paths, Rebuilt(c, p) PROVE Rebuilt(c, p)'
    <3>1. CASE Listed(c, p)
      <4>1. Listed(c, p)' \/ Placed(c, p)
        BY <1>0, <1>2, <2>1, <3>1, MoveOne
      <4>2. ASSUME NEW d \in push'[c], d.idx = at[c] + 1, d.path = p,
                   d.data = store[c][p]
            PROVE  Rebuilt(c, p)'
        <5>1. d.idx <= at'[c] /\ d.data = store'[c][p]
          BY <1>0, <2>1, <2>2, <4>2
        <5> QED BY <1>0, <2>1, <4>2, <5>1 DEF Rebuilt, InDocs
      <4> QED BY <1>0, <2>1, <4>1, <4>2 DEF Rebuilt, Placed
    <3>2. ASSUME NEW d \in push[c], d.path = p, d.data = store[c][p],
                 d.idx <= at[c] \/ d.idx > at[c] + Len(todo[c])
          PROVE  Rebuilt(c, p)'
      <4>0. d.idx \in Nat
        BY <1>0 DEF Doc
      <4>1. /\ d.idx # at[c] + 1
            /\ d.idx <= at'[c] \/ d.idx > at'[c] + Len(todo'[c])
        BY <2>1, <2>2, <3>2, <4>0
      <4>2. d \in push'[c]
        BY <1>0, <1>2, <2>1, <4>1, MoveOne
      <4> QED BY <1>0, <2>1, <3>2, <4>1, <4>2 DEF Rebuilt, InDocs
    <3> QED BY <1>0, <2>3, <3>1, <3>2 DEF Rebuilt, InDocs
  <2> QED BY <1>0, <2>1, <2>3, CleanResetting DEF Resetting
<1> QED BY <1>1, <1>2

\* With every document in the push log the vault can start over on a new key.
LEMMA CleanKeyed ==
  ASSUME TypeOK, NEW c \in Clients, CleanInv(c),
         UNCHANGED <<store, push, setVars, torn, clean>>,
         phase'[c] \in {"idle", "keying"},
         unsynced \subseteq unsynced',
         \A p \in Paths \ torn[c] :
           (c \notin unsynced \/ c \in clean) /\ KeptDoc(c, p) => Unsent(c, p)
  PROVE  CleanInv(c)'
<1>1. ASSUME NEW p \in Paths \ torn'[c], store'[c][p] # NoData,
             c \notin unsynced' \/ c \in clean'
      PROVE  KeptDoc(c, p)'
  <2>1. c \notin unsynced \/ c \in clean
    BY <1>1
  <2>2. Unsent(c, p)
    BY <1>1, <2>1 DEF CleanInv, KeptDocs
  <2>3. Unsent(c, p)'
    BY <2>2 DEF Unsent, InWrite, InDocs, setVars
  <2> QED BY <2>3 DEF KeptDoc, Rebuilt
<1> QED BY <1>1 DEF CleanInv, KeptDocs, Resetting

\* The status, the remote and the salt are cleared and made anew.
LEMMA CleanEnd ==
  ASSUME TypeOK, TypeOK', LogsGrow, NEW c \in Clients, PushInv,
         HistoryInv(c), CleanInv(c),
         ClearStatus(c) \/ ClearRemote(c) \/ NewRemote(c)
  PROVE  CleanInv(c)'
<1>0. /\ phase \in [Clients -> Phases]
      /\ UNCHANGED <<store, push, pull, setVars, torn, unsynced, clean,
                     acked, pushIndex, todo>>
  BY DEF ClearStatus, ClearRemote, NewRemote, TypeOK, SyncTypes, histVars
<1>1. CASE ClearStatus(c)
  <2>1. /\ phase[c] = "ending" /\ phase'[c] = "renewing"
        /\ UNCHANGED <<rsalt, removed>>
    BY <1>0, <1>1 DEF ClearStatus, Goto, netVars
  <2>2. \A p \in Paths : Rebuilt(c, p) => Rebuilt(c, p)'
    BY <1>0, <2>1 DEF Rebuilt, InDocs
  <2> QED BY <1>0, <2>1, <2>2, CleanResetting DEF Resetting
<1>2. CASE ClearRemote(c)
  <2>1. phase[c] = "renewing" /\ phase'[c] = "keying" /\ c \in unsynced
    BY <1>0, <1>2 DEF ClearRemote, Goto, PushInv
  <2>2. c \in clean => writing[c] = "no"
    BY <2>1 DEF CleanInv, Resetting
  <2>3. ASSUME NEW p \in Paths, c \in clean, KeptDoc(c, p) PROVE Unsent(c, p)
    BY <2>1, <2>2, <2>3 DEF KeptDoc, Rebuilt, Unsent, InWrite
  <2> QED BY <1>0, <2>1, <2>3, CleanKeyed
<1>3. CASE NewRemote(c) /\ rsalt[c] = NoKey
  <2>1. phase'[c] = "idle"
    BY <1>0, <1>3 DEF NewRemote, Goto
  <2>2. \A p \in Paths : KeptDoc(c, p) => Unsent(c, p)
    BY <1>3 DEF KeptDoc
  <2> QED BY <1>0, <2>1, <2>2, CleanKeyed
<1>4. CASE NewRemote(c) /\ rsalt[c] # NoKey
  <2>1. /\ phase[c] = "keying" /\ phase'[c] = "idle"
        /\ UNCHANGED <<rsalt, pullIndex>>
    BY <1>0, <1>4 DEF NewRemote, Goto
  <2>2. \A p \in Paths : Replayed(c, p)' <= Replayed(c, p)
    <3>1. pullIndex[c] \in Nat
      BY PullTypes
    <3> QED BY <2>1, <3>1 DEF Replayed
  <2>3. ~Resetting(c)' /\ SameWrites(c)
    BY <1>0, <2>1 DEF Resetting, SameWrites, setVars
  <2> QED BY <1>0, <2>1, <2>2, <2>3, CleanStays
<1> QED BY <1>1, <1>2, <1>3, <1>4

\* Unlocking with no salt makes one: nothing has been sent to its vault yet.
LEMMA CleanUnlock ==
  ASSUME TypeOK, TypeOK', LogsGrow, NEW c \in Clients,
         HistoryInv(c), CleanInv(c), Unlock(c)
  PROVE  CleanInv(c)'
<1>1. CASE rsalt' = rsalt
  BY <1>1, CleanOutside
<1>2. CASE rsalt' # rsalt
  <2>1. /\ rsalt[c] = NoKey /\ unsynced \subseteq unsynced'
        /\ UNCHANGED <<store, push, setVars, torn, clean, phase>>
    BY <1>2 DEF Unlock, HistoryTypes, TypeOK, syncVars
  <2>2. phase'[c] \in {"idle", "keying"}
    BY <2>1 DEF HistoryInv
  <2>3. \A p \in Paths : KeptDoc(c, p) => Unsent(c, p)
    BY <2>1 DEF KeptDoc
  <2> QED BY <2>1, <2>2, <2>3, CleanKeyed
<1> QED BY <1>1, <1>2

-----------------------------------------------------------------------------

LEMMA CleanInit == Init => CleanInvAll
<1> SUFFICES ASSUME Init, NEW c \in Clients PROVE CleanInv(c)
  BY DEF CleanInvAll
<1>1. /\ clean = {} /\ phase[c] = "idle" /\ writing[c] = "no"
      /\ c # Owner => store[c] = [p \in Paths |-> NoData]
      /\ store[Owner] = [p \in Paths |-> IF p = AuthPath THEN 1 ELSE NoData]
      /\ push[Owner] = {[idx |-> 1, path |-> AuthPath, data |-> 1]}
  BY ConstantTypes DEF Init
<1>2. ASSUME NEW p \in Paths, store[c][p] # NoData PROVE KeptDoc(c, p)
  <2>1. c = Owner /\ p = AuthPath /\ store[c][p] = 1
    BY <1>1, <1>2
  <2>2. [idx |-> 1, path |-> AuthPath, data |-> 1] \in push[c]
    BY <1>1, <2>1
  <2>3. InDocs(push[c], c, p)
    BY <2>1, <2>2 DEF InDocs
  <2> QED BY <1>1, <2>3 DEF KeptDoc, Unsent, InWrite
<1> QED BY <1>1, <1>2 DEF CleanInv, KeptDocs

LEMMA CleanInvNext ==
  ASSUME TypeOK, PushInv, HistoryInvAll, SentInvAll, CleanInvAll, [Next]_vars
  PROVE  CleanInvAll'
<1>1. TypeOK' /\ LogsGrow
  BY TypeNext, LogsGrowStep
<1> SUFFICES ASSUME NEW c \in Clients PROVE CleanInv(c)'
  BY DEF CleanInvAll
<1>2. HistoryInv(c) /\ SentInv(c) /\ CleanInv(c)
  BY DEF HistoryInvAll, SentInvAll, CleanInvAll
<1>3. CASE Untouched(c)
  <2>1. \A p \in Paths : Replayed(c, p)' <= Replayed(c, p)
    BY <1>3, ReplayedTypes DEF Untouched, Same, Replayed
  <2> QED BY <1>1, <1>2, <1>3, <2>1, CleanStays DEF Untouched, Same
<1>4. CASE UNCHANGED vars \/ ServeStray
  BY <1>3, <1>4, ServerAlone
<1>5. ASSUME NEW d \in Clients, d # c,
             \/ LocalWrite(d) \/ Unlock(d) \/ Lock(d)
             \/ Start(d) \/ SyncStep(d) \/ Abort(d) \/ Crash(d)
      PROVE  CleanInv(c)'
  BY <1>3, <1>5, OtherClient
<1>6. ASSUME \/ LocalWrite(c) \/ Unlock(c) \/ Lock(c)
             \/ Start(c) \/ SyncStep(c) \/ Abort(c) \/ Crash(c)
      PROVE  CleanInv(c)'
  <2> USE <1>1, <1>2
  <2>1. CASE LocalWrite(c) \/ Unlock(c) \/ Crash(c)
    BY <2>1, CleanWrite, CleanUnlock, CleanCrash
  <2>2. CASE \/ Lock(c) \/ Sync(c) \/ ServePost(c) \/ Refused(c) \/ Posted(c)
             \/ Pushed(c) \/ Pull(c) \/ PullNext(c) \/ Unsync(c) \/ Abort(c)
    BY <2>2, CleanOutside
  <2>3. CASE ClearPush(c)
    BY <2>3, CleanClear
  <2>4. CASE \/ ApplyEvent(c) \/ RecordEvent(c) \/ PullDone(c)
             \/ (\E k \in 1..keys : Clone(c, k))
    BY <2>4, CleanApply, CleanRecord, CleanPulled, CleanClone
  <2>5. CASE ServeDelete(c) \/ ResetLog(c) \/ CopyPush(c) \/ MovePull(c)
    BY <2>5, CleanDelete, CleanReset, CleanCopy, CleanMove
  <2>6. CASE ClearStatus(c) \/ ClearRemote(c) \/ NewRemote(c)
    BY <2>6, CleanEnd
  <2> QED BY <1>6, <2>1, <2>2, <2>3, <2>4, <2>5, <2>6, StepCases
<1> QED BY <1>4, <1>5, <1>6 DEF Next

\* Every document stays in the push log, in the write in progress or in the
\* remote vault, and through resetLog in a log it does not lose.
THEOREM CleanInvariant == Spec => []CleanInvAll
<1>1. Init => CleanInvAll
  BY CleanInit
<1>2. /\ TypeOK /\ PushInv /\ HistoryInvAll /\ SentInvAll /\ CleanInvAll
      /\ [Next]_vars
      => CleanInvAll'
  BY CleanInvNext
<1> QED BY <1>1, <1>2, TypeCorrect, PushInvariant, HistoryInvariant,
           SentInvariant, PTL DEF Spec

\* After a clean Unsync the whole vault is pending, to be pushed under its new
\* key, whatever interrupted the syncs before and after it.
THEOREM UnsyncKeepsVault == Spec => []CleanUnsyncKeepsVault
<1>1. TypeOK /\ HistoryInvAll /\ CleanInvAll => CleanUnsyncKeepsVault
  <2> SUFFICES ASSUME TypeOK, HistoryInvAll, CleanInvAll,
                      NEW c \in unsynced \cap clean,
                      Idle(c), rsalt[c] # NoKey, rsalt[c] \notin removed,
                      log[rsalt[c]] = <<>>,
                      NEW p \in Paths \ torn[c], store[c][p] # NoData
               PROVE  Pending(c, p, store[c][p])
    BY DEF CleanUnsyncKeepsVault, VaultPending
  <2>1. c \in Clients
    BY DEF TypeOK, HistoryTypes
  <2>2. Attached(c) /\ Len(log[rsalt[c]]) = 0
    BY DEF Attached
  <2>3. Unsent(c, p) \/ Followed(c, p)
    BY <2>1, <2>2 DEF CleanInvAll, CleanInv, KeptDocs, KeptDoc
  <2>4. Replayed(c, p) = 0
    BY <2>1, <2>2, ReplayedBound DEF HistoryInvAll
  <2>5. ~Followed(c, p)
    BY <2>2, <2>4 DEF Followed, Later, Holds
  <2> QED BY <2>3, <2>5 DEF Unsent, InWrite, InDocs, Pending
<1> QED BY <1>1, TypeCorrect, HistoryInvariant, CleanInvariant, PTL

=============================================================================
