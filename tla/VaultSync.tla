----------------------------- MODULE VaultSync -----------------------------
(***************************************************************************)
(* Syncing of vaults (vault/vault.go, vault/sync.go, vault/remote.go).     *)
(*                                                                         *)
(* A vault is a local key-value store.  A local write goes to the store    *)
(* and, under the next push index, to the push log.  Sync sends the push   *)
(* log to the vault server, which appends it to the event log of the       *)
(* vault's remote key, then replays the events past the pull index into    *)
(* the store and the pull log.  Several clients share one remote vault     *)
(* (Clone); Unsync deletes the remote vault and turns the pull log back    *)
(* into pending events for a new remote key.                               *)
(*                                                                         *)
(* Every write to the local store is a step of its own, so a crash, a      *)
(* failed write or another goroutine can come between any two of them.     *)
(* v.mtx is held exactly while phase[c] # "idle".  Set and Lock do not     *)
(* take it.  Requests and responses can be lost, and a request the client  *)
(* gave up on may still reach the server later (stray).                    *)
(***************************************************************************)
EXTENDS Integers, Sequences, FiniteSets

CONSTANTS
  Clients,    \* devices that share a vault
  Owner,      \* the device on which the vault was set up
  Paths,      \* paths of synced documents (/auth/.., /provision/.., /item/..)
  AuthPath,   \* the auth document, without which a vault cannot be unlocked
  Limit,      \* events per response of the server (1000 in http/server)
  MaxWrites,  \* bound: local writes, all clients together
  MaxKeys,    \* bound: remote keys derived, all clients together
  MaxFaults,  \* bound: aborted requests, crashes and locks, all together
  MaxStray    \* bound: requests under way that nobody waits for

ASSUME ClientsAssumption == Owner \in Clients
ASSUME PathsAssumption == Paths \subseteq Nat /\ AuthPath \in Paths
ASSUME LimitAssumption == Limit \in Nat \ {0}
ASSUME BoundsAssumption ==
  /\ MaxWrites \in Nat /\ MaxKeys \in Nat \ {0} /\ MaxFaults \in Nat
  /\ MaxStray \in Nat

\* Document contents.  Every Set writes a number of its own, so that a value
\* names the write; NoData is an absent document and the empty data of a
\* removed one (provisionDelete, authDelete).
Data == Nat
NoData == 0

\* Remote keys, derived from the master key and the remote salt: a fresh salt
\* is a fresh key.  NoKey is a nil remote and an absent /sync/rsalt.
Keys == 1..MaxKeys
NoKey == 0

Event == [path : Paths, data : Data]

\* A document of the push or pull log: /push/<idx>/<path>, /pull/<idx>/<path>.
Doc == [idx : Nat, path : Paths, data : Data]

Phases == {"idle", "posting", "posted", "refused", "clearing", "pulling",
           "applying", "recording", "deleting", "deleted", "copying",
           "moving", "ending", "renewing", "keying"}

Request == [op : {"post", "delete"}, key : Keys, docs : Seq(Doc)]

VARIABLES
  \* the local store of each client (survives a crash)
  store,      \* path -> contents
  push,       \* push log: the set of pending documents
  pull,       \* pull log: the set of pulled documents
  pushIndex,  \* /sync/push
  pullIndex,  \* /sync/pull
  rsalt,      \* /sync/rsalt, named by the key it derives
  synced,     \* /sync/lastSync is set
  \* memory of each client
  unlocked,   \* v.mk # nil
  remote,     \* v.remote
  writing,    \* how far the local write in progress has got
  cur,        \* the document being written
  phase,      \* where Sync, Pull, Clone or Unsync stands
  mode,       \* which of Sync, Pull and Clone the pull belongs to
  req,        \* the request being sent
  todo,       \* documents still to be handled by the loop that is running
  at,         \* index variable of that loop
  more,       \* the last response was truncated
  \* the server
  log,        \* key -> sequence of events (vaults/<key>/log)
  removed,    \* keys marked in vaults-rm
  \* the network
  stray,      \* requests that may still arrive after the client gave up
  \* bounds and history
  writes, keys, faults,
  acked,      \* local writes that returned, per client
  torn,       \* paths whose last local write was cut off before its push entry
  unsynced,   \* clients that have reset their log (Unsync)
  clean       \* clients each of whose Unsyncs began with everything pulled
              \* and was not overlapped by a local write

storeVars == <<store, push, pull, pushIndex, pullIndex, rsalt, synced>>
memVars == <<unlocked, remote>>
setVars == <<writing, cur>>
syncVars == <<phase, mode, req, todo, at, more>>
netVars == <<log, removed, stray>>
histVars == <<writes, keys, faults, acked, torn, unsynced, clean>>
vars == <<storeVars, memVars, setVars, syncVars, netVars, histVars>>

-----------------------------------------------------------------------------
(* Helpers                                                                  *)

NoDoc == [idx |-> 0, path |-> AuthPath, data |-> NoData]
NoReq == [op |-> "post", key |-> 1, docs |-> <<>>]

\* Store.Set on a log document: the index and the path are its key.
Put(docs, d) == {e \in docs : e.idx # d.idx \/ e.path # d.path} \cup {d}

\* Store.List returns documents in the order of their paths: by padded index,
\* then by document path.
Before(d, e) ==
  \/ d.idx < e.idx
  \/ d.idx = e.idx /\ d.path < e.path
  \/ d.idx = e.idx /\ d.path = e.path /\ d.data < e.data

Rank(docs, d) == Cardinality({e \in docs : Before(e, d)})

Listing(docs) ==
  [i \in 1..Cardinality(docs) |-> CHOOSE d \in docs : Rank(docs, d) = i - 1]

\* An event of vault k with its remote index.  (Faulty: counted from 0.)
NumberedFromZero(k, i) ==
  [idx |-> i - 1, path |-> log[k][i].path, data |-> log[k][i].data]

Numbered(k, i) ==
  [idx |-> i, path |-> log[k][i].path, data |-> log[k][i].data]

\* The response to GET /vault/<k>?idx=i: at most Limit events past i.
EventsAfter(k, i) ==
  LET n == Len(log[k]) - i
      len == IF n < 0 THEN 0 ELSE IF n < Limit THEN n ELSE Limit
  IN  [j \in 1..len |-> Numbered(k, i + j)]

\* 404: the vault was deleted, or there are no events and the index is 0.
Missing(k, i) == k \in removed \/ (log[k] = <<>> /\ i = 0)

\* The event of a log document
Entry(d) == [path |-> d.path, data |-> d.data]

Appended(docs) == [i \in DOMAIN docs |-> Entry(docs[i])]

InLog(k, e) == \E i \in 1..Len(log[k]) : log[k][i] = e

IsEmpty(c) ==
  /\ store[c] = [p \in Paths |-> NoData]
  /\ push[c] = {} /\ pull[c] = {}
  /\ pushIndex[c] = 0 /\ pullIndex[c] = 0
  /\ rsalt[c] = NoKey /\ ~synced[c]

Idle(c) == phase[c] = "idle"

\* Clients with an Unsync under way
Unsyncing ==
  {d \in Clients : phase[d] \in {"deleting", "deleted", "copying", "moving",
                                 "ending", "renewing", "keying"}}

Goto(c, ph) == phase' = [phase EXCEPT ![c] = ph]

-----------------------------------------------------------------------------
(* Initial state: the owner has set up its vault, which left the auth       *)
(* document in the store and in the push log, and has unlocked it; the      *)
(* other devices are new.                                                   *)

Init ==
  /\ store = [c \in Clients |-> [p \in Paths |->
                IF c = Owner /\ p = AuthPath THEN 1 ELSE NoData]]
  /\ push = [c \in Clients |-> IF c = Owner
               THEN {[idx |-> 1, path |-> AuthPath, data |-> 1]} ELSE {}]
  /\ pull = [c \in Clients |-> {}]
  /\ pushIndex = [c \in Clients |-> IF c = Owner THEN 1 ELSE 0]
  /\ pullIndex = [c \in Clients |-> 0]
  /\ rsalt = [c \in Clients |-> IF c = Owner THEN 1 ELSE NoKey]
  /\ synced = [c \in Clients |-> FALSE]
  /\ unlocked = [c \in Clients |-> c = Owner]
  /\ remote = [c \in Clients |-> IF c = Owner THEN 1 ELSE NoKey]
  /\ writing = [c \in Clients |-> "no"]
  /\ cur = [c \in Clients |-> NoDoc]
  /\ phase = [c \in Clients |-> "idle"]
  /\ mode = [c \in Clients |-> "sync"]
  /\ req = [c \in Clients |-> NoReq]
  /\ todo = [c \in Clients |-> <<>>]
  /\ at = [c \in Clients |-> 0]
  /\ more = [c \in Clients |-> FALSE]
  /\ log = [k \in Keys |-> <<>>]
  /\ removed = {}
  /\ stray = {}
  /\ writes = 1 /\ keys = 1 /\ faults = 0
  /\ acked = [c \in Clients |-> IF c = Owner
                THEN {[path |-> AuthPath, data |-> 1]} ELSE {}]
  /\ torn = [c \in Clients |-> {}]
  /\ unsynced = {} /\ clean = {}

-----------------------------------------------------------------------------
(* Local writes: Set, Delete (an encrypted item without data, a Set like    *)
(* any other), Provision and Deprovision.                                   *)

\* The first store write of Set (or of provisionDelete and authDelete, d is
\* then NoData).
BeginWrite(c, p, d) ==
  /\ writing[c] = "no"
  /\ store' = [store EXCEPT ![c][p] = d]
  /\ writing' = [writing EXCEPT ![c] = "stored"]
  /\ cur' = [cur EXCEPT ![c] = [idx |-> 0, path |-> p, data |-> d]]
  /\ torn' = [torn EXCEPT ![c] = @ \ {p}]
  /\ clean' = IF c \in Unsyncing THEN clean \ {c} ELSE clean
  /\ UNCHANGED <<push, pull, pushIndex, pullIndex, rsalt, synced, memVars,
                 syncVars, netVars, keys, faults, acked, unsynced>>

\* Encrypting the item takes the master key.
SetItem(c, p) ==
  /\ unlocked[c]
  /\ writes < MaxWrites
  /\ writes' = writes + 1
  /\ BeginWrite(c, p, writes + 1)

\* Deprovision removes documents other than the last auth.
RemoveDoc(c, p) ==
  /\ p # AuthPath
  /\ store[c][p] # NoData
  /\ writes < MaxWrites
  /\ writes' = writes + 1
  /\ BeginWrite(c, p, NoData)

\* addToPush: pushIndexNext
NextPushIndex(c) ==
  /\ writing[c] = "stored"
  /\ pushIndex' = [pushIndex EXCEPT ![c] = @ + 1]
  /\ cur' = [cur EXCEPT ![c].idx = pushIndex[c] + 1]
  /\ writing' = [writing EXCEPT ![c] = "indexed"]
  /\ UNCHANGED <<store, push, pull, pullIndex, rsalt, synced, memVars,
                 syncVars, netVars, histVars>>

\* addToPush: the push entry; the write has returned
AddToPush(c) ==
  /\ writing[c] = "indexed"
  /\ push' = [push EXCEPT ![c] = Put(@, cur[c])]
  /\ acked' = [acked EXCEPT ![c] = @ \cup {Entry(cur[c])}]
  /\ writing' = [writing EXCEPT ![c] = "no"]
  /\ cur' = [cur EXCEPT ![c] = NoDoc]
  /\ UNCHANGED <<store, pull, pushIndex, pullIndex, rsalt, synced, memVars,
                 syncVars, netVars, writes, keys, faults, torn, unsynced,
                 clean>>

-----------------------------------------------------------------------------
(* Unlock and Lock                                                          *)

\* setAuthFromMasterKey: the remote key comes from the remote salt, which is
\* made now if there is none; a remote that Clone left must be the same one.
\* (Unlocking again changes nothing while there is a remote.)
Unlock(c) ==
  /\ ~unlocked[c] \/ remote[c] = NoKey
  /\ store[c][AuthPath] # NoData
  /\ \/ /\ rsalt[c] # NoKey
        /\ remote[c] \in {NoKey, rsalt[c]}
        /\ remote' = [remote EXCEPT ![c] = rsalt[c]]
        /\ UNCHANGED <<rsalt, keys, unsynced>>
     \/ /\ rsalt[c] = NoKey /\ remote[c] = NoKey
        /\ keys < MaxKeys
        /\ keys' = keys + 1
        /\ rsalt' = [rsalt EXCEPT ![c] = keys + 1]
        /\ remote' = [remote EXCEPT ![c] = keys + 1]
        /\ unsynced' = unsynced \cup {c}
  /\ unlocked' = [unlocked EXCEPT ![c] = TRUE]
  /\ UNCHANGED <<store, push, pull, pushIndex, pullIndex, synced, setVars,
                 syncVars, netVars, writes, faults, acked, torn, clean>>

Lock(c) ==
  /\ unlocked[c]
  /\ faults < MaxFaults
  /\ faults' = faults + 1
  /\ unlocked' = [unlocked EXCEPT ![c] = FALSE]
  /\ remote' = [remote EXCEPT ![c] = NoKey]
  /\ UNCHANGED <<storeVars, setVars, syncVars, netVars, writes, keys, acked,
                 torn, unsynced, clean>>

-----------------------------------------------------------------------------
(* Sync, first half: push                                                   *)

\* Sync and push up to VaultSend: nothing to send goes straight to the pull.
Sync(c) ==
  /\ Idle(c) /\ remote[c] # NoKey
  /\ mode' = [mode EXCEPT ![c] = "sync"]
  /\ IF push[c] = {}
       THEN Goto(c, "pulling") /\ UNCHANGED req
       ELSE /\ Goto(c, "posting")
            /\ req' = [req EXCEPT ![c] = [op |-> "post", key |-> remote[c],
                                          docs |-> Listing(push[c])]]
  /\ UNCHANGED <<storeVars, memVars, setVars, todo, at, more, netVars,
                 histVars>>

\* The vault server handles a POST (postVault).
Append2Log(r) == log' = [log EXCEPT ![r.key] = @ \o Appended(r.docs)]

\* A vault that was deleted takes no more events.  (Faulty: it does.)
TakesAll(r) == FALSE
Rejects(r) == r.key \in removed

ServePost(c) ==
  /\ phase[c] = "posting"
  /\ IF Rejects(req[c])
       THEN Goto(c, "refused") /\ UNCHANGED log
       ELSE Goto(c, "posted") /\ Append2Log(req[c])
  /\ UNCHANGED <<storeVars, memVars, setVars, mode, req, todo, at, more,
                 removed, stray, histVars>>

\* 404 to a POST or a DELETE is an error: nothing changes locally.
Refused(c) ==
  /\ phase[c] = "refused"
  /\ Goto(c, "idle")
  /\ req' = [req EXCEPT ![c] = NoReq]
  /\ UNCHANGED <<storeVars, memVars, setVars, mode, todo, at, more, netVars,
                 histVars>>

\* VaultSend returned: deleteAll starts on the documents that were sent.
Posted(c) ==
  /\ phase[c] = "posted"
  /\ Goto(c, "clearing")
  /\ todo' = [todo EXCEPT ![c] = req[c].docs]
  /\ req' = [req EXCEPT ![c] = NoReq]
  /\ UNCHANGED <<storeVars, memVars, setVars, mode, at, more, netVars,
                 histVars>>

\* deleteAll removes documents by path, whatever they hold by now.  (Faulty:
\* the whole push log goes, not just what was sent.)
KeepsNothing(c) == {}

Keeps(c) == {d \in push[c] : \/ d.idx # Head(todo[c]).idx
                             \/ d.path # Head(todo[c]).path}

ClearPush(c) ==
  /\ phase[c] = "clearing" /\ todo[c] # <<>>
  /\ push' = [push EXCEPT ![c] = Keeps(c)]
  /\ todo' = [todo EXCEPT ![c] = Tail(@)]
  /\ UNCHANGED <<store, pull, pushIndex, pullIndex, rsalt, synced, memVars,
                 setVars, phase, mode, req, at, more, netVars, histVars>>

\* (Faulty: push indexes start over.)
PushedRestart(c) ==
  /\ phase[c] = "clearing" /\ todo[c] = <<>>
  /\ Goto(c, "pulling")
  /\ pushIndex' = [pushIndex EXCEPT ![c] = 0]
  /\ UNCHANGED <<store, push, pull, pullIndex, rsalt, synced, memVars, setVars,
                 mode, req, todo, at, more, netVars, histVars>>

Pushed(c) ==
  /\ phase[c] = "clearing" /\ todo[c] = <<>>
  /\ Goto(c, "pulling")
  /\ UNCHANGED <<storeVars, memVars, setVars, mode, req, todo, at, more,
                 netVars, histVars>>

-----------------------------------------------------------------------------
(* Sync, second half: pull; also Pull and Clone                             *)

Pull(c) ==
  /\ Idle(c) /\ remote[c] # NoKey
  /\ Goto(c, "pulling")
  /\ mode' = [mode EXCEPT ![c] = "pull"]
  /\ UNCHANGED <<storeVars, memVars, setVars, req, todo, at, more, netVars,
                 histVars>>

\* saveRemoteVault starts on the response to a GET from index i.
Receive(c, k, i) ==
  /\ Goto(c, "applying")
  /\ todo' = [todo EXCEPT ![c] = EventsAfter(k, i)]
  /\ at' = [at EXCEPT ![c] = i]
  /\ more' = [more EXCEPT ![c] = Len(EventsAfter(k, i)) = Limit]

\* pullNext: no remote (Lock came in between) or a 404 end the pull.
PullNext(c) ==
  /\ phase[c] = "pulling"
  /\ IF remote[c] = NoKey \/ Missing(remote[c], pullIndex[c])
       THEN /\ Goto(c, "idle")
            /\ mode' = [mode EXCEPT ![c] = "sync"]
            /\ UNCHANGED <<todo, at, more>>
       ELSE /\ Receive(c, remote[c], pullIndex[c])
            /\ UNCHANGED mode
  /\ UNCHANGED <<storeVars, memVars, setVars, req, netVars, histVars>>

\* Clone asks for the remote vault before it writes anything, then writes the
\* salt, then looks at whether there was a vault.
Clone(c, k) ==
  /\ Idle(c) /\ IsEmpty(c) /\ remote[c] = NoKey
  /\ rsalt' = [rsalt EXCEPT ![c] = k]
  /\ IF Missing(k, 0)
       THEN UNCHANGED <<phase, mode, todo, at, more>>
       ELSE /\ Receive(c, k, 0)
            /\ mode' = [mode EXCEPT ![c] = "clone"]
  /\ UNCHANGED <<store, push, pull, pushIndex, pullIndex, synced, memVars,
                 setVars, req, netVars, histVars>>

\* The store with the next event applied.  (Faulty: an event without data
\* does not remove the document; a device leaves out its own writes.)
AppliedNonEmpty(c) ==
  LET e == Head(todo[c])
  IN  IF e.data = NoData THEN store ELSE [store EXCEPT ![c][e.path] = e.data]

AppliedForeign(c) ==
  LET e == Head(todo[c])
  IN  IF Entry(e) \in acked[c]
      THEN store ELSE [store EXCEPT ![c][e.path] = e.data]

Applied(c) ==
  LET e == Head(todo[c]) IN [store EXCEPT ![c][e.path] = e.data]

\* One event: first the document,
ApplyEvent(c) ==
  /\ phase[c] = "applying" /\ todo[c] # <<>>
  /\ store' = Applied(c)
  /\ torn' = [torn EXCEPT ![c] = @ \ {Head(todo[c]).path}]
  /\ Goto(c, "recording")
  /\ UNCHANGED <<push, pull, pushIndex, pullIndex, rsalt, synced, memVars,
                 setVars, mode, req, todo, at, more, netVars, writes, keys,
                 faults, acked, unsynced, clean>>

\* then its entry in the pull log.
RecordEvent(c) ==
  /\ phase[c] = "recording"
  /\ pull' = [pull EXCEPT ![c] = Put(@, Head(todo[c]))]
  /\ at' = [at EXCEPT ![c] = Head(todo[c]).idx]
  /\ todo' = [todo EXCEPT ![c] = Tail(@)]
  /\ Goto(c, "applying")
  /\ UNCHANGED <<store, push, pushIndex, pullIndex, rsalt, synced, memVars,
                 setVars, mode, req, more, netVars, histVars>>

\* setPullIndex, and what the caller does next: pull goes on while responses
\* are truncated, Clone does not; Sync and Clone note the time; Clone keeps
\* the remote.
PullDone(c) ==
  /\ phase[c] = "applying" /\ todo[c] = <<>>
  /\ pullIndex' = [pullIndex EXCEPT ![c] = at[c]]
  /\ IF more[c] /\ mode[c] # "clone"
       THEN Goto(c, "pulling") /\ UNCHANGED <<mode, synced>>
       ELSE /\ Goto(c, "idle")
            /\ mode' = [mode EXCEPT ![c] = "sync"]
            /\ synced' = [synced EXCEPT ![c] = @ \/ mode[c] # "pull"]
  /\ remote' = IF mode[c] = "clone" THEN [remote EXCEPT ![c] = rsalt[c]]
                                    ELSE remote
  /\ at' = [at EXCEPT ![c] = 0]
  /\ more' = [more EXCEPT ![c] = FALSE]
  /\ UNCHANGED <<store, push, pull, pushIndex, rsalt, unlocked, setVars, req,
                 todo, netVars, histVars>>

-----------------------------------------------------------------------------
(* Unsync                                                                   *)

\* Bound: an Unsync that can go through has a key left for clearRemote.
Unsync(c) ==
  /\ Idle(c) /\ remote[c] # NoKey /\ unlocked[c]
  /\ remote[c] \in removed \/ keys + Cardinality(Unsyncing) < MaxKeys
  /\ Goto(c, "deleting")
  /\ req' = [req EXCEPT ![c] = [op |-> "delete", key |-> remote[c],
                                docs |-> <<>>]]
  /\ UNCHANGED <<storeVars, memVars, setVars, mode, todo, at, more, netVars,
                 histVars>>

\* The vault server handles a DELETE (deleteVault): the mark is set before it
\* turns out whether there was a vault.
RemoveLog(r) ==
  /\ removed' = removed \cup {r.key}
  /\ log' = [log EXCEPT ![r.key] = <<>>]

ServeDelete(c) ==
  /\ phase[c] = "deleting"
  /\ Goto(c, IF Missing(req[c].key, 0) THEN "refused" ELSE "deleted")
  /\ RemoveLog(req[c])
  /\ clean' = IF /\ pullIndex[c] = Len(log[req[c].key]) /\ writing[c] = "no"
                 /\ c \in unsynced => c \in clean
                THEN clean \cup {c} ELSE clean \ {c}
  /\ UNCHANGED <<storeVars, memVars, setVars, mode, req, todo, at, more,
                 stray, writes, keys, faults, acked, torn, unsynced>>

\* What is pending is moved behind the pull log.  (Faulty: it is not.)
CopiesNothing(c) == <<>>
Copies(c) == Listing(push[c])

\* resetLog: both logs are listed, then the push index is set to their size;
\* with an empty pull log it returns at once.
ResetLog(c) ==
  /\ phase[c] = "deleted"
  /\ req' = [req EXCEPT ![c] = NoReq]
  /\ unsynced' = unsynced \cup {c}
  /\ IF pull[c] = {}
       THEN Goto(c, "ending") /\ UNCHANGED <<pushIndex, todo, at>>
       ELSE /\ Goto(c, "copying")
            /\ pushIndex' = [pushIndex EXCEPT ![c] =
                               Cardinality(pull[c]) + Cardinality(push[c])]
            /\ todo' = [todo EXCEPT ![c] = Copies(c)]
            /\ at' = [at EXCEPT ![c] = Cardinality(pull[c])]
  /\ UNCHANGED <<store, push, pull, pullIndex, rsalt, synced, memVars,
                 setVars, mode, more, netVars, writes, keys, faults, acked,
                 torn, clean>>

\* A listed document, written to the push log under the next index of the
\* loop.  (Faulty: counted back from the size of the pull log.)
RenumberedFromEnd(c) ==
  [idx |-> Cardinality(pull[c]) - Len(todo[c]), path |-> Head(todo[c]).path,
   data |-> Head(todo[c]).data]

Renumbered(c) ==
  [idx |-> at[c] + 1, path |-> Head(todo[c]).path, data |-> Head(todo[c]).data]

\* "Move push to the end": the listed push documents are written again behind
\* the pull log; the originals stay.
CopyPush(c) ==
  /\ phase[c] = "copying"
  /\ IF todo[c] = <<>>
       THEN /\ Goto(c, "moving")
            /\ todo' = [todo EXCEPT ![c] = Listing(pull[c])]
            /\ at' = [at EXCEPT ![c] = 0]
            /\ UNCHANGED push
       ELSE /\ push' = [push EXCEPT ![c] = Put(@, Renumbered(c))]
            /\ todo' = [todo EXCEPT ![c] = Tail(@)]
            /\ at' = [at EXCEPT ![c] = @ + 1]
            /\ UNCHANGED phase
  /\ UNCHANGED <<store, pull, pushIndex, pullIndex, rsalt, synced, memVars,
                 setVars, mode, req, more, netVars, histVars>>

\* "Move pull back to push": each pulled document is written to the push log
\* and removed from the pull log.
MovePull(c) ==
  /\ phase[c] = "moving"
  /\ IF todo[c] = <<>>
       THEN /\ Goto(c, "ending")
            /\ at' = [at EXCEPT ![c] = 0]
            /\ UNCHANGED <<push, pull, todo>>
       ELSE /\ push' = [push EXCEPT ![c] = Put(@, Renumbered(c))]
            /\ pull' = [pull EXCEPT ![c] = @ \ {Head(todo[c])}]
            /\ todo' = [todo EXCEPT ![c] = Tail(@)]
            /\ at' = [at EXCEPT ![c] = @ + 1]
            /\ UNCHANGED phase
  /\ UNCHANGED <<store, pushIndex, pullIndex, rsalt, synced, memVars, setVars,
                 mode, req, more, netVars, histVars>>

\* lastSync and the pull index are cleared.  (Faulty: only the former.)
ClearLastSync(c) ==
  /\ phase[c] = "ending"
  /\ Goto(c, "renewing")
  /\ synced' = [synced EXCEPT ![c] = FALSE]
  /\ UNCHANGED <<store, push, pull, pushIndex, pullIndex, rsalt, memVars,
                 setVars, mode, req, todo, at, more, netVars, histVars>>

ClearStatus(c) ==
  /\ phase[c] = "ending"
  /\ Goto(c, "renewing")
  /\ synced' = [synced EXCEPT ![c] = FALSE]
  /\ pullIndex' = [pullIndex EXCEPT ![c] = 0]
  /\ UNCHANGED <<store, push, pull, pushIndex, rsalt, memVars, setVars, mode,
                 req, todo, at, more, netVars, histVars>>

\* clearRemote: the remote and the salt are dropped,
ClearRemote(c) ==
  /\ phase[c] = "renewing"
  /\ Goto(c, "keying")
  /\ remote' = [remote EXCEPT ![c] = NoKey]
  /\ rsalt' = [rsalt EXCEPT ![c] = NoKey]
  /\ UNCHANGED <<store, push, pull, pushIndex, pullIndex, synced, unlocked,
                 setVars, mode, req, todo, at, more, netVars, histVars>>

\* then, unless the vault got locked, made anew from the master key.
NewRemote(c) ==
  /\ phase[c] = "keying"
  /\ Goto(c, "idle")
  /\ IF unlocked[c] /\ rsalt[c] = NoKey
       THEN /\ keys < MaxKeys
            /\ keys' = keys + 1
            /\ rsalt' = [rsalt EXCEPT ![c] = keys + 1]
            /\ remote' = [remote EXCEPT ![c] = keys + 1]
       ELSE UNCHANGED <<rsalt, remote, keys>>
  /\ UNCHANGED <<store, push, pull, pushIndex, pullIndex, synced, unlocked,
                 setVars, mode, req, todo, at, more, netVars, writes, faults,
                 acked, torn, unsynced, clean>>

-----------------------------------------------------------------------------
(* Failures                                                                 *)

\* A request the client gives up on is dropped or still under way.
GiveUp(c) ==
  IF phase[c] \in {"posting", "deleting"} /\ Cardinality(stray) < MaxStray
    THEN stray' \in {stray, stray \cup {req[c]}}
    ELSE UNCHANGED stray

StopSync(c) ==
  /\ Goto(c, "idle")
  /\ mode' = [mode EXCEPT ![c] = "sync"]
  /\ req' = [req EXCEPT ![c] = NoReq]
  /\ todo' = [todo EXCEPT ![c] = <<>>]
  /\ at' = [at EXCEPT ![c] = 0]
  /\ more' = [more EXCEPT ![c] = FALSE]
  /\ GiveUp(c)

\* Sync, Pull, Clone or Unsync returns an error: the context was cancelled,
\* the request timed out, its response was lost or a store write failed.
Abort(c) ==
  /\ ~Idle(c)
  /\ faults < MaxFaults
  /\ faults' = faults + 1
  /\ StopSync(c)
  /\ UNCHANGED <<storeVars, memVars, setVars, log, removed, writes, keys,
                 acked, torn, unsynced, clean>>

\* The process ends; the store is what was written so far.
Crash(c) ==
  /\ faults < MaxFaults
  /\ faults' = faults + 1
  /\ StopSync(c)
  /\ unlocked' = [unlocked EXCEPT ![c] = FALSE]
  /\ remote' = [remote EXCEPT ![c] = NoKey]
  /\ writing' = [writing EXCEPT ![c] = "no"]
  /\ cur' = [cur EXCEPT ![c] = NoDoc]
  /\ torn' = [torn EXCEPT ![c] =
                IF writing[c] = "no" THEN @ ELSE @ \cup {cur[c].path}]
  /\ UNCHANGED <<storeVars, log, removed, writes, keys, acked, unsynced, clean>>

\* A request that its client gave up on arrives at the server after all.
ServeStray ==
  \E r \in stray :
    /\ stray' = stray \ {r}
    /\ IF r.op = "delete"
         THEN RemoveLog(r)
         ELSE /\ IF Rejects(r) THEN UNCHANGED log ELSE Append2Log(r)
              /\ UNCHANGED removed
    /\ UNCHANGED <<storeVars, memVars, setVars, syncVars, histVars>>

-----------------------------------------------------------------------------

LocalWrite(c) ==
  \/ \E p \in Paths : SetItem(c, p) \/ RemoveDoc(c, p)
  \/ NextPushIndex(c)
  \/ AddToPush(c)

\* The steps of a Sync, Pull, Clone or Unsync that has been started
SyncStep(c) ==
  \/ ServePost(c) \/ Refused(c) \/ Posted(c)
  \/ ClearPush(c) \/ Pushed(c)
  \/ PullNext(c) \/ ApplyEvent(c) \/ RecordEvent(c) \/ PullDone(c)
  \/ ServeDelete(c) \/ ResetLog(c) \/ CopyPush(c) \/ MovePull(c)
  \/ ClearStatus(c) \/ ClearRemote(c) \/ NewRemote(c)

Start(c) ==
  \/ Sync(c) \/ Pull(c) \/ Unsync(c)
  \/ \E k \in 1..keys : Clone(c, k)

Next ==
  \/ \E c \in Clients :
       \/ LocalWrite(c) \/ Unlock(c) \/ Lock(c)
       \/ Start(c) \/ SyncStep(c) \/ Abort(c) \/ Crash(c)
  \/ ServeStray

Spec == Init /\ [][Next]_vars

\* Syncs go on by themselves once a vault has been synced: the timer of
\* addToPush and the check loop of the service call CheckSync, which gets
\* v.mtx in the end because Go's mutex does not starve a waiter (strong
\* fairness).  A Sync that has started runs on, as does a write.
\* (Faulty: only when there is something to push.)
CheckPush(c) == synced[c] /\ push[c] # {} /\ Sync(c)
CheckSync(c) == synced[c] /\ Sync(c)

Fairness ==
  \A c \in Clients :
    /\ WF_vars(SyncStep(c)) /\ SF_vars(CheckSync(c))
    /\ WF_vars(NextPushIndex(c)) /\ WF_vars(AddToPush(c))

FairSpec == Spec /\ Fairness

-----------------------------------------------------------------------------
(* Properties                                                               *)

\* The shape of the state: local stores, memory, the running Sync, server.
StoreTypes ==
  /\ store \in [Clients -> [Paths -> Data]]
  /\ push \in [Clients -> SUBSET Doc] /\ pull \in [Clients -> SUBSET Doc]
  /\ \A c \in Clients : IsFiniteSet(push[c]) /\ IsFiniteSet(pull[c])
  /\ pushIndex \in [Clients -> Nat] /\ pullIndex \in [Clients -> Nat]
  /\ rsalt \in [Clients -> Keys \cup {NoKey}]
  /\ synced \in [Clients -> BOOLEAN]

MemoryTypes ==
  /\ unlocked \in [Clients -> BOOLEAN]
  /\ remote \in [Clients -> Keys \cup {NoKey}]
  /\ writing \in [Clients -> {"no", "stored", "indexed"}]
  /\ cur \in [Clients -> Doc]

SyncTypes ==
  /\ phase \in [Clients -> Phases]
  /\ mode \in [Clients -> {"sync", "pull", "clone"}]
  /\ req \in [Clients -> Request]
  /\ todo \in [Clients -> Seq(Doc)]
  /\ at \in [Clients -> Nat] /\ more \in [Clients -> BOOLEAN]
  /\ \A c \in Clients : phase[c] = "recording" => todo[c] # <<>>

ServerTypes ==
  /\ log \in [Keys -> Seq(Event)]
  /\ removed \subseteq Keys
  /\ stray \subseteq Request

HistoryTypes ==
  /\ writes \in Nat /\ keys \in Keys /\ faults \in 0..MaxFaults
  /\ acked \in [Clients -> SUBSET Event]
  /\ torn \in [Clients -> SUBSET Paths]
  /\ unsynced \subseteq Clients /\ clean \subseteq Clients

TypeOK ==
  StoreTypes /\ MemoryTypes /\ SyncTypes /\ ServerTypes /\ HistoryTypes

\* The vault c belongs to exists on the server and c never left one.
InVault(c) == rsalt[c] # NoKey /\ rsalt[c] \notin removed /\ c \notin unsynced

\* After the first n events of vault k the document at p holds d.
Holds(k, n, p, d) ==
  \/ d = NoData /\ \A i \in 1..n : log[k][i].path # p
  \/ \E i \in 1..n : /\ log[k][i].path = p /\ log[k][i].data = d
                     /\ \A j \in (i + 1)..n : log[k][j].path # p

\* How many events c is sure to have replayed into the document at p: a pull
\* that is under way is ahead of the pull index.
Replayed(c, p) ==
  IF phase[c] = "recording" /\ Head(todo[c]).path = p THEN at[c] + 1
  ELSE IF phase[c] \in {"applying", "recording"} THEN at[c]
  ELSE pullIndex[c]

Pending(c, p, d) ==
  \/ \E e \in push[c] : e.path = p /\ e.data = d
  \/ writing[c] # "no" /\ cur[c].path = p /\ cur[c].data = d

\* What a client holds is never made up and never older than what it has
\* pulled: each document of the store (Vault.Get) is a local write still to be
\* pushed, or the state of that document in the remote vault at some point
\* from the pull index on.  Torn writes (a crash between the store write and
\* the push entry) are the exception, see AckedKept.
StoreJustified ==
  \A c \in Clients : InVault(c) =>
    \A p \in Paths \ torn[c] :
      \/ Pending(c, p, store[c][p])
      \/ \E n \in Replayed(c, p)..Len(log[rsalt[c]]) :
           Holds(rsalt[c], n, p, store[c][p])

\* A write that returned is not lost before the vault is left: whatever
\* requests fail and whenever the process dies, it is pending or in the
\* remote vault (push removes only what the server has).
Kept(c) ==
  InVault(c) =>
    \A e \in acked[c] :
      (\E d \in push[c] : Entry(d) = e) \/ InLog(rsalt[c], e)

AckedKept == \A c \in Clients : Kept(c)

\* The pull log is the history of the remote vault: complete up to the pull
\* index and the same as on the server (ItemHistory reads it, Unsync turns
\* it into a new vault).
HistoryComplete ==
  \A c \in Clients : rsalt[c] # NoKey /\ rsalt[c] \notin removed =>
    LET l == log[rsalt[c]]
    IN  /\ pullIndex[c] <= Len(l)
        /\ \A d \in pull[c] : d.idx \in 1..Len(l)
                              /\ l[d.idx] = Entry(d)
        /\ \A i \in 1..pullIndex[c] : \E d \in pull[c] : d.idx = i

\* What VaultHistory promises: a client belongs to a vault until the vault is
\* removed; its history is the pull log up to the pull index.
Member == [c \in Clients |-> IF rsalt[c] \in removed THEN NoKey ELSE rsalt[c]]

Pulled(c, i) == CHOOSE d \in pull[c] : d.idx = i

History ==
  [c \in Clients |->
     IF Member[c] = NoKey THEN <<>>
     ELSE [i \in 1..pullIndex[c] |-> Entry(Pulled(c, i))]]

VH == INSTANCE VaultHistory WITH vault <- Member, history <- History

\* Syncing implements that promise: the pull log of a client is always a prefix
\* of the history of its remote vault, and nothing in either is ever rewritten
\* (ItemHistory and Unsync rely on it).
ImplementsHistory == VH!Spec

\* Replicas of a vault that have nothing left to push or pull are equal.
CaughtUp(c) ==
  /\ InVault(c) /\ Idle(c) /\ push[c] = {} /\ writing[c] = "no"
  /\ torn[c] = {} /\ pullIndex[c] = Len(log[rsalt[c]])

Agreement ==
  \A c, d \in Clients :
    CaughtUp(c) /\ CaughtUp(d) /\ rsalt[c] = rsalt[d] => store[c] = store[d]

\* Pending writes of a client to a document are listed, and so pushed, in the
\* order they were made.
OwnDocs(c) == {d \in push[c] : Entry(d) \in acked[c]}

OrderedPush(c) ==
  \A d, e \in OwnDocs(c) :
    d.path = e.path /\ d.data # NoData /\ d.data < e.data => d.idx < e.idx

PushInOrder == \A c \in Clients \ unsynced : OrderedPush(c)

\* Why AckedKept and PushInOrder hold.  Until its first Unsync, a client's
\* push log is numbered by a counter that only grows, so a write in progress
\* never meets a document that is being sent or cleared,
PushNumbered(c) ==
  /\ \A d, e \in push[c] : d.idx = e.idx => d = e
  /\ \A d \in push[c] : d.idx <= pushIndex[c] /\ d.data <= writes
  /\ \A d, e \in push[c] : d.data # NoData /\ d.data < e.data => d.idx < e.idx
  /\ writing[c] # "no" =>
       /\ cur[c].data <= writes
       /\ cur[c].data # NoData => \A d \in push[c] : d.data < cur[c].data
  /\ writing[c] = "indexed" =>
       /\ cur[c].idx = pushIndex[c] /\ 1 <= pushIndex[c]
       /\ \A d \in push[c] : d.idx < pushIndex[c]
  /\ acked[c] # {} => 1 <= pushIndex[c]

\* what is being sent is in the push log until the server has it,
Sending(c) ==
  /\ phase[c] \in {"posting", "posted"} =>
       /\ req[c].key = rsalt[c]
       /\ \A i \in 1..Len(req[c].docs) : req[c].docs[i] \in push[c]
  /\ phase[c] = "posted" /\ rsalt[c] \notin removed =>
       \A i \in 1..Len(req[c].docs) : InLog(rsalt[c], Entry(req[c].docs[i]))

\* and what is being cleared is what was sent.
Clearing(c) ==
  phase[c] = "clearing" =>
    /\ rsalt[c] # NoKey
    /\ \A i \in 1..Len(todo[c]) :
         /\ todo[c][i].idx <= pushIndex[c]
         /\ writing[c] = "indexed" => todo[c][i].idx < pushIndex[c]
         /\ \A d \in push[c] : d.idx = todo[c][i].idx => d = todo[c][i]
         /\ rsalt[c] \notin removed => InLog(rsalt[c], Entry(todo[c][i]))

PushInv ==
  /\ \A c \in Clients : remote[c] \in {NoKey, rsalt[c]}
  /\ \A c \in Clients \ unsynced :
       /\ phase[c] \notin {"copying", "moving", "ending", "renewing", "keying"}
       /\ PushNumbered(c) /\ Sending(c) /\ Clearing(c) /\ Kept(c)

\* Before the first push to a new key, every document is in the push log.
VaultPending(c) ==
  /\ Idle(c) /\ rsalt[c] # NoKey /\ rsalt[c] \notin removed
  /\ log[rsalt[c]] = <<>>
  => \A p \in Paths \ torn[c] :
       store[c][p] # NoData => Pending(c, p, store[c][p])

\* After Unsync the vault starts over on a new key with everything it holds
\* (the test of Unsync expects all of it pending, sync_test.go:314-321), if at
\* every Unsync so far everything had been pulled when the remote vault was
\* deleted, and no local write overlapped it.
CleanUnsyncKeepsVault == \A c \in unsynced \cap clean : VaultPending(c)

\* Unsync deletes the remote vault and rebuilds it from the pull log ("Reset
\* log (move pull into push)", sync.go:78 and 98): when the delete has gone
\* through, every write that returned is still in one of the two logs.
UnsyncKeepsWrites ==
  \A c \in Clients : phase[c] = "deleted" =>
    \A e \in acked[c] :
      \E d \in push[c] \cup pull[c] : Entry(d) = e

\* Once writes and faults have ended and nobody has left the vault, all
\* clients that sync end up with the same documents.
Converged ==
  \A c, d \in Clients :
    synced[c] /\ unlocked[c] /\ synced[d] /\ unlocked[d]
      /\ torn[c] = {} /\ torn[d] = {} => store[c] = store[d]

Convergence == <>[]Converged

=============================================================================
