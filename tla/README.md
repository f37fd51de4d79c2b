# A TLA+ model of keys-ext

This directory holds TLA+ specifications of the programs in this repository, TLC
configurations that check them on small instances, and proofs that the TLA+
proof system (TLAPS) checks for every instance. Paths below are relative to the
repository root (the files `PROJECT.json` names as `src/...`).

## 1. The system

`keys-ext` is the machinery around the `keys` library: an encrypted *vault* that
is synced between devices through a server, a *service* (daemon with an RPC
interface) that owns the vault, the *server* itself (vaults, sigchains, users,
discovery, invite codes, shares) on Firestore and Redis, and a *wormhole* for
direct connections between two peers.

| Component | State it keeps | Operations | Correct when |
|---|---|---|---|
| vault (`vault/vault.go`, `sync.go`, `remote.go`, `history.go`) | store of documents `/item`, `/auth`, `/provision`; push log, pull log; `/sync/{push,pull,lastSync,rsalt}`; master key and remote in memory | Set, Delete, Provision, Deprovision, Unlock, Lock, Sync, Pull, Clone, Unsync, CheckSync, ItemHistory, Reset | no write that returned is lost; a device never holds less than what it pulled; the pull log is a prefix of the remote log; devices agree once they have caught up, and do catch up |
| vault auth (`vault/auth.go`, `provision.go`, `service/auth_pw.go`, `auth_fido2.go`) | auth documents, provisions, salt | Setup, Unlock, Provision, ProvisionSave, Deprovision | one master key; a password that was set works; the vault can always be unlocked by somebody |
| vault server (`http/server/vault.go`, `events.go`, `firestore/events.go`) | event log, its index and usage per vault, the `vaults-rm` marks | GET, POST, DELETE, HEAD of a vault | indexes are contiguous and never reused; a reader misses nothing; a deleted vault refuses requests and stays empty |
| service (`service/service.go`, `check.go`, `auth.go`, `auth_rpc.go`) | unlocked flag, tokens, master key, cache database, check loop | AuthSetup, AuthVault, AuthUnlock, AuthLock, AuthReset, AuthPasswordChange, the check loop | a token finds everything open; locked means no token, no master key, no database; one check loop; every call returns |
| sigchains and users (`http/server/sigchain.go`, `user.go`, `http/client/sigchain.go`, `service/sigchain.go`, `user.go`, `update.go`) | statements on the server, a copy on each device, the index of users | create, revoke, push, pull, update | one chain per key, local chains are prefixes of it |
| disco, invite codes, shares, nonces (`http/server/disco.go`, `invitecode.go`, `share.go`, `auth.go`) | keys with expiry in Redis | put, get, delete | an offer is read at most once; a nonce is used once; a code names one invite |
| wormhole (`wormhole/wormhole.go`, `wormhole/sctp`) | offer/answer, UDP handshake, noise cipher | Connect, Listen, Close | both peers end up connected or both fail |
| databases (`sdb`, `sqlcipher`), FIDO2 plugin (`auth`), streams, CLI | - | - | sequential, or front ends of libraries |

How they interact: the service calls the vault under its own locks; the vault
calls the server over HTTP (`http/client`), where any request or response can
be lost; the server keeps all of its state in Firestore and Redis, whose calls
from two requests interleave; `time.AfterFunc` and the service's check loop call
`CheckSync` from goroutines of their own; peers of a wormhole meet through
disco and then talk over UDP.

What is hard: `Set` takes no lock while `Sync` holds `v.mtx`; every `Sync` is a
sequence of single store writes that can stop anywhere; the push log is cleared
only after a response that may never come; two devices append to one log;
Unsync destroys the remote log and rebuilds it; the server's handlers are
several Firestore or Redis calls each; the RPCs of the service that make and
remove auths take no lock, and those that lock and unlock it do not guard the
vault's memory from the syncs that use it; two sessions that want a wormhole must
find each other through keys that expire, over datagrams nobody authenticates
until the last handshake. `PROJECT.json` lists these hazards line by line with the
property that covers each.

## 2. The modules

* **VaultSync** - the vault's push, pull, clone and unsync on several devices,
  the network and the vault server.
* **VaultHistory** - what VaultSync promises: remote vaults are logs that only
  grow until they are removed, and a device's history is a prefix of its
  vault's log that only grows. VaultSync implements it (`ImplementsHistory`).
* **VaultServer** - the server's handlers for one vault, call by call of the
  Firestore behind them. It implements VaultHistory too, with the clients that
  GET as its devices.
* **VaultAuth** - auth documents and provisions, and the RPCs that make and remove
  them: who can open a vault.
* **ServiceLock** - unlocking and locking of the service, its check loop, and the
  syncs that run beside them. A vault's auth is a master key here and no more; what
  the RPCs do to auth documents is VaultAuth's, what a sync does is VaultSync's.
* **RedisCodes** - nonces, offers and answers, shares and invite codes on the server.
* **Wormhole** - sessions of two users: rendezvous, UDP and Noise handshakes,
  messages and their acks. It sees the server's offers and answers as two keys
  that may vanish at any time; RedisCodes has the calls behind them.
* **Sigchain** - the sigchain of one key on the server and on devices.
* **SigchainLog** - what Sigchain promises, and implements (`LogSpec`).
* **VaultSyncProofs** (types and the push log), **VaultSyncPullProofs** (the pull log,
  the store and Unsync; it uses the first), **VaultServerProofs**, **VaultAuthProofs**, **ServiceLockProofs**, **RedisCodesProofs**,
  **WormholeProofs**, **SigchainProofs** - theorems.
* **MCVaultSync**, **MCVaultServer**, **MCVaultAuth**, **MCServiceLock**,
  **MCRedisCodes**, **MCWormhole**, **MCSigchain** and their `.cfg` files -
  instances for TLC.

### VaultSync and the code

| Model | Code |
|---|---|
| `store[c][p]` | the document at `/auth/..`, `/provision/..` or `/item/..`; a value is the number of the write that made it, `NoData` an absent document |
| `push[c]`, `pull[c]` | documents `/push/<index>/<path>`, `/pull/<index>/<path>`; `Listing` is the order `Store.List` gives them |
| `pushIndex`, `pullIndex`, `rsalt`, `synced` | `/sync/push`, `/sync/pull`, `/sync/rsalt` (named by the key it derives), "`/sync/lastSync` is set" |
| `unlocked`, `remote` | `v.mk # nil`, `v.remote` |
| `phase[c]` | where the function that holds `v.mtx` stands; `"idle"` means the lock is free |
| `writing`, `cur` | a Set (Provision, Deprovision) between its three store writes; it takes no lock, so it interleaves with everything |
| `log[k]`, `removed` | `vaults/<key>/log` and `vaults-rm` on the server |
| `stray` | requests whose client has given up and which may still arrive |
| `acked`, `torn`, `unsynced`, `clean`, `writes`, `keys`, `faults` | history variables and bounds, read by no guard but the bounds |

Each action is one store write or one request, with what the code does before
the next one: `BeginWrite`, `NextPushIndex`, `AddToPush` are `set`, `addToPush`;
`Sync`, `ServePost`, `Posted`, `ClearPush`, `Pushed` are `push`; `PullNext`,
`ApplyEvent`, `RecordEvent`, `PullDone` are `pull`, `pullNext` and
`saveRemoteVault`; `Unsync`, `ServeDelete`, `ResetLog`, `CopyPush`, `MovePull`,
`ClearStatus`, `ClearRemote`, `NewRemote` are `Unsync`, `resetLog` and
`clearRemote`. `Abort` ends a running Sync, Pull, Clone or Unsync with an error
at any point (a cancelled context, a lost response, a failed store write);
`Crash` ends the process.

What is coarser than the code, and why it does not matter to the properties:

* A device has one local write in flight at a time. Two concurrent Sets race
  for the push index (`pushIndexNext` has no lock); that race is not modelled.
* The server handles a request in one step, as a log that only grows until it
  is removed. VaultServer shows that its handlers, which are several Firestore
  calls each, keep to that as long as the vault is not marked deleted, and after
  the mark to every request that begins later. Two cases VaultSync leaves out: a
  POST of more than 498 events of which a part is written, and a POST under way
  during a DELETE.
* `setPullIndex` and what follows it in Sync (`setLastSync`) are one step, as
  are the two settings Unsync clears and the Set and Delete of one moved
  document in `resetLog`: no other action reads one of each pair without the
  other, and a crash between the two leaves a state a later crash leaves too,
  except inside `resetLog`, which a crash does not resume in either case.
* An item's Delete is a Set of an item without data, as in the code. Removed
  auth and provision documents are `NoData`.
* `Vault.Reset` is not modelled: it empties the store but keeps the remote of
  an earlier Clone (listed among the hazards).
* Master keys, and whether an auth document can be decrypted, are VaultAuth's:
  Unlock needs the auth document and no more.

### VaultServer and the code

| Model | Code |
|---|---|
| `doc` | the fields of `vaults/<kid>` that exist, `idx` and `usage`; no field, no document |
| `log` | the documents of `vaults/<kid>/log`: an index and whose event it is (the random document id has no part in anything) |
| `deleted` | `vaults-rm/<kid>` exists |
| `pc[r]` | the next Firestore call of a request, or its answer: 200, 404, another error |
| `pos[p]` | `pos` of EventsAdd |
| `index[p]` | `index` of writeAll and of Increment; it is declared outside the function given to RunTransaction, so a second attempt starts with what the first one left |
| `tx[p]` | "open" between the read and the commit of a transaction, "broken" when the document has been written since, so that Firestore will run the function again |
| `batch[d]` | the documents deleteCollection has put in a batch and not committed |
| `got[r]`, `readTo[r]` | what a client has been sent by its GETs, and the `idx` of its next one |

`TryEvents` and `TryUsage` are a run of a transaction's function up to its commit,
`AddEvents` and `AddUsage` the commit; `QueryBatch` and `RemoveBatch` one round of
deleteCollection. Events is one step: a query reads a snapshot. `Fail` ends a
request at any call, because Firestore fails (RunTransaction gives up after some
attempts, a context is cancelled) or the process dies; that a commit took place
although its answer was lost is a `Fail` of the call after it.

Firestore itself is external: a transaction commits only if the document it read
has not been written since, and is run again otherwise. Its pessimistic locks
allow a part of these behaviours. A transaction only reads the vault's document,
and the documents it creates have random names, so nothing else conflicts.

Left out: HEAD and the descending order of events (they only read), a POST without
events or with empty ones (EventsAdd succeeds and Increment refuses to add 0),
authorization, and what a request carries besides the number of its events.

### VaultAuth and the code

| Model | Code |
|---|---|
| `auths` | documents below `/auth`: an id and the master key encrypted with a `Key`, which comes from a password and a salt or from a credential |
| `provs` | ids of the documents below `/provision` |
| `salt`, `mysalt[c]` | `/config/salt`, and what Salt has returned to a caller |
| `mk`, `mutex` | `v.mk`, and the service's `unlockMtx` |
| `pc[c]`, `rpc[c]` | a handler and its next access of the store |
| `working`, `vaultKey`, `race`, `careless` | history: what callers were told, the key items were encrypted with, which calls overlapped |

`CallSetup`, `CallUnlock`, `CallProvision`, `CallChange`, `CallDeprovision`,
`CallGenerate`, `CallUnlockHMAC`, `CallProvisionHMAC` are the RPCs of
`service/auth_pw.go`, `auth_fido2.go` and `auth_rpc.go`; the steps are the functions
of `vault/auth.go` and `provision.go` they call, each access of the store a step:
`Salt` and `SetSalt`; `Setup`, `NewAuth`, `NewProv`; `Provision`, `NewProv`; `Guard`
(`isLastAuth`), `DeleteProvision`, `DeleteAuth`. A password change is an unlock, a
provision and a deprovision. A paper key's functions are a password's without the
salt; the forced Deprovision has no caller; neither is a step of its own.

### ServiceLock and the code

| Model | Code |
|---|---|
| `unlockMtx`, `checkMtx` | the service's mutexes of these names, by holder |
| `unlocked`, `tokens`, `given` | `s.unlocked`, the tokens in `auth`, and clients that were sent theirs |
| `mk`, `remote`, `db` | `v.mk`, `v.remote` (named by the key it derives from), `d.sdb` (named by the key it was opened with) |
| `auths`, `file` | master keys in the store's auth documents; the key the cache's files were written with |
| `checking`, `current`, `cancelled`, `loops[l]` | `s.checking`, the loop `checkCancelFn` cancels, loops whose context is cancelled, where each goroutine of startCheck stands |
| `work[w]` | what a goroutine has found not nil and is about to use |
| `panicked`, `leaked`, `overlapped` | history |

`Unlock` ... `StartCheck` are `unlock`, `Lock` ... `CloseDb` are `lock`, `Reset` ...
`RemoveFiles` AuthReset, `Setup` and `RemoveFiles` AuthSetup; `TryCheck`, `Synced`,
`CheckKeys`, `EndLoop` are a check loop; `Look` and `Use` are a sync (of a loop, of
RuntimeStatus or of VaultUpdate) between its look at `v.remote` and its use of the
key, or a read of the cache between its look at `d.sdb` and its use; `Panic` is a
use of what is gone. AuthRecover is an unlock followed by a provision, Close a lock
before the process ends; a call of `Lock` and a `Crash` stand for it.

`AuthLock` returns early when the service is not unlocked (`service.go:155`), so a
master key that a failed unlock or a late password change has set stays:
`LockedMeansLocked` says so. AuthReset reads the flag without the mutex, AuthVault
leaves the cache of an earlier vault, AuthSetup removes it last: `CacheReadable`
holds but for these. The remote salt is not modelled, so the unlock that fails
after Reset and a clone (`vault.go:92`) is not seen.

### RedisCodes and the code

| Model | Code |
|---|---|
| `val[k]`, `exp[k]`, `now` | Redis keys: the request that wrote the value, when it expires, the clock |
| `pc[r]`, `kind[r]`, `key[r]` | a handler's next Redis call or its answer |
| `nonce[r]`, `signed[r]` | what the request carries; a copy carries the original's |
| `racing`, `served`, `missed` | history |

`Arrive`, `ArriveAgain`, `ArriveLookup`, `NonceSet`, `NonceExpire` are `nonceCheck`
and the arrival of a request or of a copy; `PutSet`, `PutExpire`, `GetValue`,
`GetDelete`, `DeleteOffer`, `DeleteAnswer` are the handlers of `disco.go` and
`share.go`; `NewCode`, `SetCode`, `ExpireCode`, `Lookup` those of `invitecode.go`. The window in which
a signed request is accepted belongs to the `keys` library, which is not in this
repository; the model assumes that a nonce (one hour) outlives it
(`NonceTTL > 2 * Window`). A client may ask for an expiry that is not positive;
the model's are positive.

### Wormhole and the code

| Model | Code |
|---|---|
| `offer[u]`, `answer[u]` | what the server has of a user for the other |
| `pc[s]`, `role[s]`, `peer[s]` | a Wormhole RPC, from FindOffer to its end; which of Connect and Listen it runs; the address it sends to |
| `send`, `writer`, `reading` | the variables and the two goroutines of `sctp/handshake.go` |
| `net` | datagrams of handshakes: sent, and for ever able to arrive, as long as the socket is open |
| `stream[s]` | what a session can read from its SCTP stream |
| `reader[s]`, `written`, `shown`, `acked` | the goroutine that reads messages, and what has been written, sent to the RPC client and acknowledged |

SCTP itself is a library: `Associate` is one step that needs both ends. `AcceptStream`
has no timeout, as in the code. Which of the two users is the sender, contacts, invite
codes and the STUN server are left out; each session has an address of its own.

### Sigchain and the code

| Model | Code |
|---|---|
| `store[i]` | the document of statement `i` of the key on the server |
| `local[d]` | the chain in the database of a device |
| `mine[p]`, `remote[p]`, `at[p]` | the chain an RPC signs on or pushes, the one the server sent, the statement it puts |
| `attempt[p]` | attempts of `retryOnConflict` |

`Create`, `Push`, `Pull` begin StatementCreate, StatementRevoke and UserAdd (with or
without `Local`), Push, and Pull or `updateUser`; `Exists`, `Verify`, `CheckUsers`,
`Write`, `Answer` are `putSigchainStatement` call by call; `Get`, `Compare` a GET;
`Save` the replacement of the local chain. The index of users and the check for an
existing user are a conflict that may happen (`CheckUsers`); what fails after the
statement is written (index, task) is a `Fail` before `Answer`. Signatures are a
statement's place and its predecessor, which is what a verification looks at.

## 3. What is checked

The runs of VaultSync (module MCVaultSync) have the auth document and one item.

| Run | Instance | Checks |
|---|---|---|
| core | 2 devices, 3 writes, pages of 2, 1 fault, 1 stray request, 1 remote key | `StoreJustified`, `AckedKept`, `PushInOrder`, `Agreement`, and `PushInv`, the inductive invariant of the proofs |
| crash | 2 devices, 2 writes, pages of 1, 1 fault, 1 stray request, 2 keys (one Unsync) | `TypeOK`, `HistoryComplete`, `CleanUnsyncKeepsVault`, `ImplementsHistory` (refinement of VaultHistory) |
| live | 2 devices, 2 writes, pages of 1, 1 fault, 1 stray request | `Convergence` |
| requests | 2 POSTs (3 events in chunks of 2; 1 event), 1 DELETE in batches of 2, 1 reader with pages of 2, 1 failure | `Contiguous`, `PostsKept`, `ReadersComplete`, `UsageCovers`, `GoneForGood`, `AllAnswered`, `ImplementsHistory` of VaultServer |
| auth | 2 clients, 5 calls, 2 passwords, 3 ids, 1 credential, 2 salts, 2 master keys, 2 crashes | `TypeOK`, `OneMasterKey`, `PasswordsWork`, `ListedWorks`, `NotLockedOut` |
| lock | 2 clients, 4 calls, 2 check loops, a vault that was set up and a key for another, 1 fault | `SessionOK`, `LockedMeansLocked`, `ChecksNeedDb`, `OneLoop`, `CacheReadable`, `AllReturn` |
| codes | 3 requests (copies among them), offer and answer, 1 code, lives of 1 in 2 ticks, 1 failure | `ReplayRefused`, `PutsKept`, `KeysExpire`, `CodesFind`, `TakenOnce` |
| wormhole | 2 sessions of one user, one after the other, and 1 of the other, 2 messages each | `TypeOK`, `Paired`, `InOrder`, `AckedShown` |
| sigchain | 4 RPCs, 2 devices, chains of 3, 2 attempts | `NoHoles`, `LocalBehind`, `LogSpec` (refinement of SigchainLog) |
| unsync_loss, panic, last | as small as shows it | each violates one claim, see below |

What the properties say, beyond their names:

* `StoreJustified`: a document on a device is its own pending write or the newest
  event it has pulled. `Agreement`: devices that have nothing pending and have
  pulled everything hold the same. `Convergence`: they get there.
* `ReadersComplete`: a reader that asks for what is after the last index it was
  sent has missed nothing; the indexes come from transactions, so none is committed late.
* `OneMasterKey`, `NotLockedOut`: of all auths, and of the key that items were
  encrypted with. `ListedWorks` is why provisions are written after auths and
  removed before them.
* `SessionOK`, `OneLoop`, `ChecksNeedDb`: what unlock has promised to who holds its
  token, over any number of locks and unlocks; a loop of an earlier session that is
  still in its sync finds its context cancelled before it looks at the database.
* `AllReturn`: lock waits for a running check (`stopCheck` takes `checkMtx`) and the check
  for the network, but nobody waits for ever.
* `Paired`: whoever finishes the UDP handshake has finished it with a session that sends to it
  and has the other role, although nobody looks where a datagram came from. With two
  sessions of each user at once this is false; one user at a time has one (`OneAtATime`). `InOrder`: the
  listener's handshake ends after the initiator's, the initiator's channel opens after the
  listener's. `AckedShown`: messages are shown in order and without a gap; the ack
  goes out before the message is shown, so the last one may be acknowledged and never shown.
* `NoHoles`, `LogSpec`: the server's chain grows at its end whatever races;
  statements that clients were told are published stay. `LocalBehind`: devices hold a
  beginning of it although RPCs save chains they read before their requests, as long
  as nothing was created with `Local`.

Bounds. Two devices are enough for every conflict in VaultSync: a device only
ever meets the log, never another device. Three writes let one document be
written on both sides of another device's write; the page size of 1 or 2 against
up to four events makes truncated, exactly full and empty responses happen. One
fault is one Abort, Crash or Lock at any of the steps; one stray request is one
retried or late POST or DELETE. Two keys allow one Unsync. Every bound is a
constant that only appears in guards.

For the server, a conflict needs two POSTs, and a POST that is cut or interrupted
between its chunks needs two chunks, one of them not full. Up to four events
against batches and pages of two make several rounds of each, the last one
full, short or empty. Two DELETEs at once are left to the proofs; beside the
reader they make the run ten times longer.

For VaultAuth, five calls are a setup, an unlock and three that overlap or follow
one another (a change beside a deprovision beside a provision), with a crash
before and after the setup is through; a third password or credential meets
nothing the second does not. For ServiceLock, two clients are two handlers at once,
four calls a session, its lock and two more that race with it; two loops are one that
is cancelled and still in its sync, and its successor. For RedisCodes, a race of
GET, DELETE and Expire needs two requests, a third is the copy or the reader that
shows it; two ticks are an expiry before and one after. For Wormhole, the third session is what
makes offers, answers and datagrams stale; two messages are one before and one after
the other's ack. For Sigchain, four RPCs are two that race and two that follow on
what they leave; chains of three have a middle; the limit (1024 in the code) is met.

Fairness. A Sync, Pull, Clone or Unsync that has started goes on (its goroutine
runs and requests time out), as does a write: weak fairness of `SyncStep`,
`NextPushIndex`, `AddToPush`. `CheckSync` is strongly fair: the two-second timer
of `addToPush` and the service's check loop call it again and again once a vault
has been synced, and it competes for `v.mtx`, which in Go does not starve a
waiter. It is only assumed for vaults that were synced at least once, as in
`SyncEnabled`. In VaultServer a handler that has begun goes on: it is a goroutine,
and Firestore answers its calls or fails. Readers and failures are not fair. In
ServiceLock a handler that has begun goes on (weak); who waits for a mutex gets it
if it is free again and again (strong, Go's mutex does not starve); a sync ends, since its
requests time out (`Synced`, strong, as other goroutines hold the vault's mutex in
between); nothing makes the ticker fire. No liveness is claimed of VaultAuth,
RedisCodes, Wormhole and Sigchain: their handlers only wait for requests, except that Wormhole
waits for its peer, where the code has places without a timeout (below).

Deadlock is checked in the runs of VaultSync and VaultServer. In the others a bounded
number of calls comes to an end, and a service that nobody calls stands still:
`CHECK_DEADLOCK FALSE`.

### Disagreements between code and comments

With a run that shows each:

* **unsync_loss** - Unsync takes the pull log for the whole vault. Events that
  were pushed but not yet pulled are deleted with the remote and are in no log;
  other devices can never get them.
* **panic** - push and pull look at `v.remote`, list documents and then use
  `v.remote.Key`. AuthLock sets it to nil in between, and the process dies; the comment in
  `vault.go:75` expects an error. The sync is RuntimeStatus's or VaultUpdate's, or
  that of a check loop which an earlier lock has cancelled and which checks once more;
  a loop that is not cancelled is safe (`ChecksNeverPanic`).
* **last** - the guard of the last auth counts provisions, and generating a FIDO2
  credential saves a provision that has no auth yet. With it in the list the only
  password can be removed: nothing opens the vault.

Met while modelling, and stated here only:

* `sync.go:29-30` says that pushing twice only shows in the history. If another
  device replaced the document in between, the repeated older value wins everywhere.
* "Move push to the end" (`sync.go:137`) copies: the originals stay. With an
  original at a high index and the push index lowered, an older write is pushed
  after a newer one.
* After one DELETE whose answer was lost, or after another device's Unsync, the
  server answers 404 for ever and Unsync never resets the log. The mark is set
  before the purge, so a DELETE that fails in between leaves events for good, and
  so does a POST that has passed its check before the mark is set.
* Increment keeps `index` outside its transaction. If the first Increment of a
  vault conflicts with another POST, its second run adds the amount to what the
  first run had counted. Usage therefore covers what the answered POSTs added, but
  may be more (`UsageCovers`). writeAll has the same pattern and is not hurt: by
  the time it must try again somebody has written the index it reads (`IndexFound`).
* The conflict check of invite codes looks at the empty key (`invitecode.go:51`).
* The writing goroutine of the UDP handshake looks at the word to send next after it
  has sent another (`handshake.go:27`): the ack may never be sent, and the peer times
  out. A listener that waits for an SCTP client that is gone has no timeout
  (`AcceptStream`, `Associate`). Two users who begin at the same time both find no offer, both
  Connect, and both time out (`wormhole.go:159`).
* A PUT of a statement whose answer is lost leaves the local chain behind: every
  further statement conflicts until a Pull.
* `updateUser` replaces the local chain, and with it statements made with `Local`
  (`update.go:84` has a TODO): `LocalBehind` excludes them.

This is why `AckedKept`, `StoreJustified` and `PushInOrder` speak of devices that
have not unsynced, and why `CleanUnsyncKeepsVault` is stated for devices each of
whose Unsyncs so far began with everything pulled and was not overlapped by a write
(`clean`; a Set beside `resetLog` can lose its push entry); why the properties of VaultServer speak of a
vault that is not marked deleted; and why those of VaultAuth and RedisCodes name the
overlaps (`race`, `careless`, `racing`, `missed`) they do not survive.

## 4. What is proved

**VaultSync**, for every set of devices and paths, every page size and every bound,
under the constants' assumptions. In VaultSyncProofs:

* `TypeCorrect`: `Spec => []TypeOK`. `TypeOK` is inductive; the lemmas about
  `Listing`, `EventsAfter` and `Appended` give the types of the sequences the
  actions build (`ListingOfLog`: listing a finite set of documents yields a sequence
  of all of them).
* `PushInvariant`: `Spec => []PushInv`, and from it `NoWriteLost` (`[]AckedKept`) and
  `WritesInOrder` (`[]PushInOrder`).

Why `PushInv` is needed: `AckedKept` alone is not inductive. `ClearPush` removes
documents by their path whatever they hold by now, so the proof has to know that
nothing has been written under that path since the listing. That follows from
the numbering: until its first Unsync a device's push index only grows, a write
in progress has an index above everything in the push log (`PushNumbered`), what
is being sent stays in the push log until the server has it (`Sending`), and what
is being cleared is in the remote log and is what was sent (`Clearing`). The proof
goes action by action; `ServerStep` and `OtherClient` deal once with what the
server and the other devices can disturb. TLC checks `PushInv` in run core.

In VaultSyncPullProofs, each on top of the ones before it:

* `HistoryInvariant` and from it `HistoryIsComplete` (`[]HistoryComplete`). `HistoryInv`
  follows a pull through its stages: the pull log is what the vault holds at its indexes
  (`Matches`), complete up to where the pull is (`UpTo`), and what is still to be replayed
  is what follows there in the vault (`Pulling`), although POSTs of others go on.
* `SyncImplementsHistory`: `Spec => ImplementsHistory`. A device's history is the vault's
  log up to its pull index; `PullDone` is the abstract step that catches up, the POSTs and
  DELETEs the server serves (late ones too) are those that extend and remove a log, a new
  key or a Clone joins one, and everything else is a stutter.
* `HistoriesNeverDiverge`, from the shape that gives the history (`HistoryShape`): of two
  devices of one vault, the history of the one begins with that of the other.
* `SentInvariant`: what a device has posted, or is clearing from its push log, is in the
  vault behind what it has pulled (`Landed`), so that its next pull brings it.
* `StoreInvariant`, and from it `StoreIsJustified` (`[]StoreJustified`) and `ReplicasAgree`
  (`[]Agreement`). A device that has pushed is ahead of what it has pulled, and its next pull
  takes it back through older events. So each document of the store is a pending write
  or what the vault holds at its path at some position from the replayed one to the end
  (`Justified`); `Landed` gives that position when an entry leaves the push log. Two devices
  with nothing pending that have pulled all of one log therefore hold the same.
* `CleanInvariant` and from it `UnsyncKeepsVault` (`[]CleanUnsyncKeepsVault`). `CleanInv`
  says for each document of the store where a later Sync would find it: in the write in
  progress or the push log (`Unsent`), or in the vault (`Followed`: replayed, or replaced by
  an event that is still to come). For the steps of `resetLog`, which has no vault any
  more, `Rebuilt` says that it is in the log that is still to be copied or moved, or
  in the push log under an index the running loop does not come to. It needs the numbering:
  `CopyPush` and `MovePull` write at an index that must be above what is left.

**VaultServer**, for every set of POSTs, DELETEs and readers, every size of a POST, a
chunk, a batch and a page, and any number of failures: `TypeCorrect`,
`LogContiguous` (`[]Contiguous`), `PostedEventsKept` (`[]PostsKept`),
`DeletedRefuses` (`GoneForGood`), `ReadersGetAll` (`[]ReadersComplete`), `UsageCountsAll`
(`[]UsageCovers`) and `ServerImplementsHistory` (the refinement of VaultHistory). All use `Inv`, which adds what a step
needs: an open transaction that can still commit has the index of the document
(`IndexKnown`), because any other commit breaks it; a transaction that must be run
again finds an index in the document (`IndexFound`), because before the vault is
deleted somebody with a chunk committed must have written it; a DELETE past its
first write has set the mark (`Marked`). `AddEventsStep` is the heart: the new
documents continue both the indexes of the log and the positions in the request.
`PageIs` turns the page of a GET, defined by how many entries are before one, into the
interval of indexes it is, since the log is dense; `ReadersInv` then follows a reader from
page to page. For the refinement, `InOrderIs` does the same for the sequence the
log stands for, and a commit appends to it. `UsageInv` bounds the sum of what is counted by
the usage and each open Increment by the sum it will write. The sum is a fold over a
set, which the library's induction does not reach; `TotalStep` and `TotalWith` unfold it
with the argument that among finite sets one contains none of the others (`Smallest`).

**ServiceLock**, for any number of clients, loops, timers, calls and faults:
`TypeCorrect`, `SessionsComplete`, `LocksCompletely`, `ChecksFindDb`, `OneLoopEver`,
`ChecksNeverPanic`, `CachesReadable`. The inductive `Inv` says for each step of unlock and lock what has been set or cleared so far
and that the caller holds `unlockMtx` (`Stage`), for the time when nobody holds it that the
flag tells the state (`Session`), and that a loop beyond its sync that is not cancelled is
the current one and the service is open (`LoopsOK`): a lock must pass `checkMtx`, which
that loop holds, before it clears anything. `ChecksNeverPanic` bounds the panic of section
3: `CheckInv` adds that a master key in memory comes with a remote and that a loop looks at the
remote only inside its check, so while the loop is not cancelled the remote stays. (Without
"not cancelled" TLC refutes it: a loop's first check, or one its ticker won, can follow the
lock that cancelled it.) `CacheInv` adds that there is one vault at a
time (`OneVault`) and, as long as a setup, a clone or a reset has not left an earlier vault's
files to an unlock (`overlapped`), that the key in memory, the cache's files and the open cache are all of its key (`SameKey`).

**RedisCodes**, for any number of requests, clocks, lives and failures:
`TypeCorrect`, `ReplaysRefused`, `KeysGetExpiry`, `PutsStay`, `CodesFound` and `TakenOnlyOnce`.
`ReplayInv` says of an accepted request that was signed
at most a window ahead that its nonce is in Redis until the window has passed
(`Remembered`), either with an expiry beyond it, or without one: a handler that dies
after its Set leaves the nonce for ever, which is on the safe side. It needs
`NonceTTL > 2 * Window` and the overlap of checks as an excuse. `OwedInv`: a key without an
expiry has a handler that still gives it one, or has failed before it could (`Owes`).
`ValuesInv`: a value that is not where it was put was served, or is counted as missed
(`Kept`), because a GET deletes what it read or what it makes missed (`TakesOwn`); the key of a
code that was answered holds its invite unless another invite drew the same code
(`Findable`). `OnceInv`: what a GET has read was put under its key by a PUT that
writes no more, and what was served is gone, so it cannot be read again.

**Sigchain**, for any number of RPCs, devices, statements and attempts: `TypeCorrect`,
`NoHolesEver`, `ChainGrows`, `DevicesBehind` (`[]LocalBehind`) and `ChainImplementsLog`
(`LogSpec`, the refinement of SigchainLog). Each step leaves the server's chain or appends one statement
signed over its end. `Inv`: the documents are the places of one chain (`OneChain`); an RPC past
`Verify` has a statement that follows a chain which is still a beginning of the server's
(`Verified`), so that if its place is still free when it creates the document, the chain has
not grown and the statement still fits. `RootInv` says that a statement, wherever it is,
stands in the place it was signed for (`Known`), what an RPC has put and what the
server sent are documents (`Progress`, `Copies`), and so is a device's chain (`Behind`). Its
lemma `OneHistory` is why that survives the replacement of chains: a statement fixes
the one before it, so two chains that agree in a place agree in all before it.

**VaultAuth**, for any number of clients, passwords, credentials, calls and crashes:
`TypeCorrect`, `OneMasterKeyEver`, `SetPasswordsWork`, `ListedAuthsExist` and
`NeverLockedOut`. Three groups of facts make `Inv`. `Places`: what an RPC has where it
stands; ids are new, so nobody replaces another's auth; a password's key is made with the
salt that is stored, unless two calls saved a first salt at once (`race`). `Removals`: an
auth is there before its provision is written (`Prepared`), and one removal runs at a time and
leaves another auth (`Alone`), unless the guard was passed beside a call that makes or
removes one (`careless`). `MasterKey`: all auths are for one key, that of the items.

**Wormhole**, for any number of sessions of two users that have one at a time
(`ASSUME OneAtATime`) and any number of messages: `TypeCorrect`, `SessionsPaired` (`[]Paired`),
`ChannelsInOrder` (`[]InOrder`) and `MessagesInOrder` (`[]AckedShown`). A datagram does not say who sent it, so the proof has to:
each one was sent by a session that has heard as much (`Datagrams`). Who reads an answer
reads one that was given to it or to a closed session before it (`Answered`); as long as a
session whose offer was taken runs, every listener of the other user took that offer
(`Taken`). Hence whoever has heard a word has heard it from the session it sends to
(`Mutual`), and a word that is enough makes a pair (`ReceiveKeeps`). With two sessions of a user
at once, `Answered` and `Taken` fail, and with them `Paired`. `FlowInv` is about what comes
after: the messages in a stream are, in order, exactly those written and not yet shown as
long as both ends run (`Complete`), some of them afterwards (`Good`), and an ack is of a
message that has been shown or is about to be.

Not proved: liveness under fairness (`Convergence`, `AllAnswered`, `AllReturn`), which is
out of the prover's reach. TLC checks these three on the instances above. Every other
property of a passing run, the refinements among them, is a theorem. The strengthened
invariants were checked by TLC on the runs' instances before they were proved.

## 5. Not modelled

Two thirds of the implementation's lines have no behaviour a model could check:
about half of them (20,000 of 40,859) are generated from protocol buffers, and
much of the rest is the command line, encoding and decoding of requests, streams
around the cryptographic library, conversions of old vaults and loggers. Of what
is left,

* the databases (`sdb`, `sqlcipher`) are key-value stores behind one lock;
* most RPC handlers of the service (keys, secrets, import, export, lookup, vault)
  are sequences of reads of the vault and of the local sigchains, with one write at
  most;
* the FIDO2 plugin keeps no state between its calls.

Named in `PROJECT.json` and not covered by a property: two concurrent Sets that take
the same push index (`sync.go:261`), and Reset after a clone (`vault.go:92`).

## 6. Plan

In this order; a module is listed with what it composes.

1. PushIndex: concurrent Sets of one process and the push log (`sync.go:261`).
2. The remote salt in ServiceLock, for Reset after a clone (`vault.go:92`).
3. Users: the server's index of users and its checks, with Sigchain.
