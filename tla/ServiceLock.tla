---------------------------- MODULE ServiceLock ----------------------------
(***************************************************************************)
(* Unlocking and locking of the service (service/service.go, check.go,     *)
(* auth.go, auth_rpc.go): the RPCs that set it up, unlock, lock and reset  *)
(* it, the check loop, and the syncs that run beside them.                 *)
(*                                                                         *)
(* Every RPC runs in a goroutine of its own.  unlockMtx is held by unlock  *)
(* and lock only; checkMtx by startCheck, stopCheck and a whole tryCheck.  *)
(* The vault's own memory (master key, remote) is guarded by neither.      *)
(* What a caller is told in the end is not modelled, except for the token. *)
(***************************************************************************)
EXTENDS Integers, FiniteSets

CONSTANTS
  Callers,   \* clients of the RPC interface, one call of each at a time
  Loops,     \* goroutines of startCheck; as many as can exist at once
  Timers,    \* goroutines that sync on their own
  Keys,      \* master keys
  Installed, \* the key of a vault that was set up before, if there is one
  NoKey,     \* no key, and a file or database that is not there
  Nobody,    \* holder of a free mutex
  MaxCalls,  \* bound: RPCs begun
  MaxFaults  \* bound: errors of files and stores, crashes of the process

ASSUME KeysAssumption == NoKey \notin Keys
ASSUME InstalledAssumption == Installed = {} \/ \E k \in Keys : Installed = {k}
ASSUME ActorsAssumption ==
  /\ Callers \cap Loops = {} /\ Callers \cap Timers = {}
  /\ Loops \cap Timers = {}
  /\ Nobody \notin Callers \cup Loops \cup Timers
ASSUME BoundsAssumption == MaxCalls \in Nat /\ MaxFaults \in Nat

VARIABLES
  pc,         \* next step of each caller's RPC
  found,      \* the master key authUnlock has decrypted
  unlockMtx, checkMtx,   \* who holds them
  unlocked,   \* service.unlocked
  tokens,     \* clients whose token auth.tokens has
  given,      \* clients that were sent their token
  mk, remote, \* of the vault; a remote is named by the key it derives from
  db,         \* key the cache database was opened with
  auths,      \* master keys in the auth documents of the vault's store
  file,       \* key the cache's files were written with
  checking,   \* service.checking
  current,    \* the loop that checkCancelFn cancels
  loops,      \* where each check loop stands
  cancelled,  \* loops whose context is cancelled
  work,       \* what each background goroutine has found set and will use
  panicked,   \* a goroutine dereferenced nil
  leaked,     \* a failed unlock or a late password change set the master key
  overlapped, \* the cache's files may be those of an earlier vault: a setup
              \* stopped, or an unlock began, before it removed them; a clone
              \* found some; a reset emptied the store under an unlock
  used, calls, faults    \* keys, calls and faults so far

mutexes == <<unlockMtx, checkMtx>>
memory == <<unlocked, tokens, given, mk, remote, db>>
disk == <<auths, file>>
loop == <<checking, current, loops, cancelled>>
history == <<panicked, leaked, overlapped>>
bounds == <<used, calls, faults>>
vars == <<pc, found, mutexes, memory, disk, loop, work, history, bounds>>

Goto(c, label) == pc' = [pc EXCEPT ![c] = label]
Return(c) == Goto(c, "idle")

Init ==
  /\ pc = [c \in Callers |-> "idle"]
  /\ found = [c \in Callers |-> NoKey]
  /\ unlockMtx = Nobody /\ checkMtx = Nobody
  /\ unlocked = FALSE
  /\ tokens = {} /\ given = {}
  /\ mk = NoKey /\ remote = NoKey /\ db = NoKey
  /\ checking = FALSE
  /\ current = Nobody
  /\ loops = [l \in Loops |-> "none"]
  /\ cancelled = {}
  /\ work = [w \in Loops \cup Timers |-> "none"]
  /\ auths = Installed /\ file \in Installed \cup {NoKey}
  /\ panicked = FALSE /\ leaked = FALSE /\ overlapped = FALSE
  /\ used = auths /\ calls = 0 /\ faults = 0

-----------------------------------------------------------------------------
(* What runs at the time *)

\* RPCs anybody may call; the others need a token.
AllowList == {"setup", "clone", "unlock", "lock", "reset"}

Authorized(c, rpc) == rpc \in AllowList \/ c \in given \cap tokens

Call(c, rpc) ==
  /\ pc[c] = "idle"
  /\ calls < MaxCalls
  /\ Authorized(c, rpc)
  /\ calls' = calls + 1
  /\ Goto(c, rpc)
  /\ UNCHANGED <<found, mutexes, memory, disk, loop, work, history, used,
                 faults>>

SettingUp == \E c \in Callers : pc[c] = "nukeold"

-----------------------------------------------------------------------------
(* AuthUnlock *)

\* The vault is asked for the first auth document the password decrypts;
\* there may be none.
Unlock(c) ==
  /\ pc[c] = "unlock"
  /\ unlockMtx = Nobody
  /\ \/ /\ \E k \in auths : found' = [found EXCEPT ![c] = k]
        /\ unlockMtx' = c
        /\ Goto(c, "key")
        /\ overlapped' = (overlapped \/ SettingUp)
     \/ /\ Return(c)
        /\ UNCHANGED <<found, unlockMtx, overlapped>>
  /\ UNCHANGED <<checkMtx, memory, disk, loop, work, panicked, leaked, bounds>>

\* A remote that is set must be the one the master key derives.
SetMasterKey(c) ==
  /\ pc[c] = "key"
  /\ IF remote \in {NoKey, found[c]}
       THEN /\ mk' = found[c]
            /\ remote' = found[c]
            /\ Goto(c, "token")
            /\ overlapped' = (overlapped \/ found[c] \notin auths)
            /\ UNCHANGED unlockMtx
       ELSE /\ Return(c)
            /\ unlockMtx' = Nobody
            /\ UNCHANGED <<mk, remote, overlapped>>
  /\ UNCHANGED <<found, checkMtx, unlocked, tokens, given, db, disk, loop, work,
                 panicked, leaked, bounds>>

RegisterToken(c) ==
  /\ pc[c] = "token"
  /\ tokens' = tokens \cup {c}
  /\ given' = given \ {c}
  /\ Goto(c, "open")
  /\ UNCHANGED <<found, mutexes, unlocked, mk, remote, db, disk, loop, work,
                 history, bounds>>

\* A cache that does not exist is created; one that does is opened with
\* whatever key the vault has now.
OpenDb(c) ==
  /\ pc[c] = "open"
  /\ IF db # NoKey
       THEN Goto(c, "start") /\ UNCHANGED <<db, file>>
       ELSE /\ db' = mk
            /\ file' = IF file = NoKey THEN mk ELSE file
            /\ Goto(c, IF file = NoKey THEN "rebuild" ELSE "start")
  /\ UNCHANGED <<found, mutexes, unlocked, tokens, given, mk, remote, auths,
                 loop, work, history, bounds>>

\* updateAllKeys asks the server for every key; errors are logged.
UpdateAllKeys(c) ==
  /\ pc[c] = "rebuild"
  /\ Goto(c, "start")
  /\ UNCHANGED <<found, mutexes, memory, disk, loop, work, history, bounds>>

\* Mutant: a loop is started whether or not one runs.
NotChecking == TRUE

StartsLoop == ~checking

\* startCheck, and the end of unlock
StartCheck(c) ==
  /\ pc[c] = "start"
  /\ checkMtx = Nobody
  /\ IF StartsLoop
       THEN \E l \in Loops :
              /\ loops[l] = "none"
              /\ loops' = [loops EXCEPT ![l] = "first"]
              /\ current' = l
              /\ checking' = TRUE
       ELSE UNCHANGED <<loops, current, checking>>
  /\ unlocked' = TRUE
  /\ given' = given \cup {c}
  /\ unlockMtx' = Nobody
  /\ Return(c)
  /\ UNCHANGED <<found, checkMtx, tokens, mk, remote, db, disk, cancelled, work,
                 history, bounds>>

-----------------------------------------------------------------------------
(* AuthLock *)

Lock(c) ==
  /\ pc[c] = "lock"
  /\ unlockMtx = Nobody
  /\ IF unlocked THEN unlockMtx' = c /\ Goto(c, "stop")
                 ELSE UNCHANGED unlockMtx /\ Return(c)
  /\ UNCHANGED <<found, checkMtx, memory, disk, loop, work, history, bounds>>

\* Mutant: the loop is told to stop and waited for, under checkMtx.
StopsWithLoop == checkMtx = Nobody /\ loops[current] = "none"

\* stopCheck waits for checking to become false, which it makes it itself:
\* it needs the mutex and nothing else.
MayStop == checkMtx = Nobody

StopCheck(c) ==
  /\ pc[c] = "stop"
  /\ MayStop
  /\ checking' = FALSE
  /\ cancelled' = cancelled \cup {current}
  /\ Goto(c, "forget")
  /\ UNCHANGED <<found, mutexes, memory, disk, current, loops, work, history,
                 bounds>>

\* Mutants: the vault is locked and tokens stay; the tokens go and the vault
\* stays unlocked.
KeepTokens == tokens
KeepKey == mk

RevokedTokens == {}
KeyLeft == NoKey

ForgetKeys(c) ==
  /\ pc[c] = "forget"
  /\ tokens' = RevokedTokens
  /\ mk' = KeyLeft /\ remote' = NoKey
  /\ Goto(c, "close")
  /\ UNCHANGED <<found, mutexes, unlocked, given, db, disk, loop, work, history,
                 bounds>>

CloseDb(c) ==
  /\ pc[c] = "close"
  /\ db' = NoKey
  /\ unlocked' = FALSE
  /\ leaked' = (leaked /\ mk # NoKey)
  /\ unlockMtx' = Nobody
  /\ Return(c)
  /\ UNCHANGED <<found, checkMtx, tokens, given, mk, remote, disk, loop, work,
                 panicked, overlapped, bounds>>

-----------------------------------------------------------------------------
(* AuthReset, AuthSetup, AuthVault, AuthPasswordChange *)

\* The flag is read without the mutex.
Reset(c) ==
  /\ pc[c] = "reset"
  /\ Goto(c, IF unlocked THEN "idle" ELSE "status")
  /\ UNCHANGED <<found, mutexes, memory, disk, loop, work, history, bounds>>

ResetStatus(c) ==
  /\ pc[c] = "status"
  /\ Goto(c, IF mk # NoKey THEN "idle" ELSE "empty")
  /\ UNCHANGED <<found, mutexes, memory, disk, loop, work, history, bounds>>

EmptyStore(c) ==
  /\ pc[c] = "empty"
  /\ auths' = {}
  /\ Goto(c, "nuke")
  /\ UNCHANGED <<found, mutexes, memory, file, loop, work, history, bounds>>

\* Mutant: the files of an earlier vault stay.
KeepFiles(c) == file

FilesLeft(c) == NoKey

RemoveFiles(c) ==
  /\ pc[c] \in {"nuke", "nukeold"}
  /\ file' = FilesLeft(c)
  /\ Return(c)
  /\ UNCHANGED <<found, mutexes, memory, auths, loop, work, history, bounds>>

\* A new master key, or one that other devices have, in a store without auths.
\* Setup and clone are refused otherwise, and may fail.
NewVault ==
  /\ mk = NoKey /\ auths = {}
  /\ \E k \in Keys \ used :
       /\ auths' = {k}
       /\ used' = used \cup {k}

Setup(c) ==
  /\ pc[c] = "setup"
  /\ \/ NewVault /\ Goto(c, "nukeold")
     \/ Return(c) /\ UNCHANGED <<auths, used>>
  /\ UNCHANGED <<found, mutexes, memory, file, loop, work, history, calls,
                 faults>>

\* Clone leaves the files of the cache, if there are any.
AuthVault(c) ==
  /\ pc[c] = "clone"
  /\ \/ /\ NewVault
        /\ remote' \in auths'
        /\ overlapped' = (overlapped \/ file # NoKey)
     \/ UNCHANGED <<auths, used, remote, overlapped>>
  /\ Return(c)
  /\ UNCHANGED <<found, mutexes, unlocked, tokens, given, mk, db, file, loop,
                 work, panicked, leaked, calls, faults>>

\* Unlocks the vault with the old password, adds an auth for the new one and
\* removes the old: the master key stays, and so do both documents' key.
ChangePassword(c) ==
  /\ pc[c] = "change"
  /\ \/ \E k \in auths :
          /\ remote \in {NoKey, k}
          /\ mk' = k /\ remote' = k
          /\ leaked' = (leaked \/ mk = NoKey)
     \/ UNCHANGED <<mk, remote, leaked>>
  /\ Return(c)
  /\ UNCHANGED <<found, mutexes, unlocked, tokens, given, db, disk, loop, work,
                 panicked, overlapped, bounds>>

-----------------------------------------------------------------------------
(* The check loop, and other goroutines that sync *)

\* A loop begins with a check and then waits for the ticker or for the end of
\* its context.  When both are there, select may take the ticker, and the
\* first check does not ask: a cancelled loop may check once more.
TryCheck(l) ==
  /\ loops[l] \in {"first", "wait"}
  /\ checkMtx = Nobody
  /\ checkMtx' = l
  /\ loops' = [loops EXCEPT ![l] = "check"]
  /\ UNCHANGED <<pc, found, unlockMtx, memory, disk, checking, current,
                 cancelled, work, history, bounds>>

\* Mutant: the context is not looked at after the sync.
NeverDone(l) == FALSE

Done(l) == l \in cancelled

\* The sync is over, with or without an error.
Synced(l) ==
  /\ loops[l] = "check"
  /\ work[l] = "none"
  /\ IF Done(l)
       THEN loops' = [loops EXCEPT ![l] = "wait"] /\ checkMtx' = Nobody
       ELSE loops' = [loops EXCEPT ![l] = "keys"] /\ UNCHANGED checkMtx
  /\ UNCHANGED <<pc, found, unlockMtx, memory, disk, checking, current,
                 cancelled, work, history, bounds>>

CheckKeys(l) ==
  /\ loops[l] = "keys"
  /\ loops' = [loops EXCEPT ![l] = "wait"]
  /\ checkMtx' = Nobody
  /\ UNCHANGED <<pc, found, unlockMtx, memory, disk, checking, current,
                 cancelled, work, history, bounds>>

EndLoop(l) ==
  /\ loops[l] = "wait"
  /\ l \in cancelled
  /\ loops' = [loops EXCEPT ![l] = "none"]
  /\ cancelled' = cancelled \ {l}
  /\ UNCHANGED <<pc, found, mutexes, memory, disk, checking, current, work,
                 history, bounds>>

Present(what) == IF what = "remote" THEN remote # NoKey ELSE db # NoKey

\* push and pull look at v.remote, list documents, and then take v.remote.Key;
\* Get of the cache looks at d.sdb and then calls it.  Syncs exclude each
\* other, by the vault's mutex.  A loop's checkKeys is CheckKeys.
Look(w, what) ==
  /\ work[w] = "none"
  /\ w \in Loops => loops[w] = "check" /\ what = "remote"
  /\ what = "remote" => \A v \in DOMAIN work : work[v] # "remote"
  /\ Present(what)
  /\ work' = [work EXCEPT ![w] = what]
  /\ UNCHANGED <<pc, found, mutexes, memory, disk, loop, history, bounds>>

Use(w) ==
  /\ work[w] # "none"
  /\ Present(work[w])
  /\ work' = [work EXCEPT ![w] = "none"]
  /\ UNCHANGED <<pc, found, mutexes, memory, disk, loop, history, bounds>>

-----------------------------------------------------------------------------
(* Faults *)

\* The process ends, and another one begins with what is on disk.
Restart ==
  /\ pc' = [c \in Callers |-> "idle"]
  /\ found' = [c \in Callers |-> NoKey]
  /\ unlockMtx' = Nobody /\ checkMtx' = Nobody
  /\ unlocked' = FALSE
  /\ tokens' = {} /\ given' = {}
  /\ mk' = NoKey /\ remote' = NoKey /\ db' = NoKey
  /\ checking' = FALSE
  /\ current' = Nobody
  /\ loops' = [l \in Loops |-> "none"]
  /\ cancelled' = {}
  /\ work' = [w \in Loops \cup Timers |-> "none"]
  /\ overlapped' = (overlapped \/ SettingUp)
  /\ leaked' = FALSE
  /\ UNCHANGED <<disk, used, calls>>

Crash ==
  /\ faults < MaxFaults
  /\ faults' = faults + 1
  /\ Restart
  /\ UNCHANGED panicked

\* What was there to look at is gone when it is used.
Panic(w) ==
  /\ work[w] # "none"
  /\ ~Present(work[w])
  /\ Restart
  /\ panicked' = TRUE
  /\ UNCHANGED faults

\* The store or the cache's files cannot be read or written: an error return,
\* which undoes nothing.
Fail(c) ==
  /\ faults < MaxFaults
  /\ pc[c] \in {"token", "open", "empty", "nuke", "nukeold"}
  /\ faults' = faults + 1
  /\ unlockMtx' = IF unlockMtx = c THEN Nobody ELSE unlockMtx
  /\ leaked' = (leaked \/ (pc[c] \in {"token", "open"} /\ ~unlocked))
  /\ overlapped' = (overlapped \/ pc[c] = "nukeold")
  /\ Return(c)
  /\ UNCHANGED <<found, checkMtx, memory, disk, loop, work, panicked, used,
                 calls>>

-----------------------------------------------------------------------------
RPCs == AllowList \cup {"change"}

Step(c) ==
  \/ Unlock(c) \/ SetMasterKey(c) \/ RegisterToken(c) \/ OpenDb(c)
  \/ UpdateAllKeys(c) \/ StartCheck(c)
  \/ Lock(c) \/ StopCheck(c) \/ ForgetKeys(c) \/ CloseDb(c)
  \/ Reset(c) \/ ResetStatus(c) \/ EmptyStore(c) \/ RemoveFiles(c)
  \/ Setup(c) \/ AuthVault(c) \/ ChangePassword(c)

Next ==
  \/ \E c \in Callers :
       Step(c) \/ Fail(c) \/ \E rpc \in RPCs : Call(c, rpc)
  \/ \E l \in Loops : TryCheck(l) \/ Synced(l) \/ CheckKeys(l) \/ EndLoop(l)
  \/ \E w \in Loops \cup Timers :
       Use(w) \/ Panic(w) \/ \E what \in {"remote", "db"} : Look(w, what)
  \/ Crash

Spec == Init /\ [][Next]_vars

\* A goroutine goes on, requests time out, a sync ends, and a Go mutex that is
\* free again and again is given to each waiter.  Nothing makes a ticker fire.
Waits(c) == Unlock(c) \/ StartCheck(c) \/ Lock(c) \/ StopCheck(c)

Fairness ==
  /\ \A c \in Callers : WF_vars(Step(c)) /\ SF_vars(Waits(c))
  /\ \A l \in Loops : SF_vars(Synced(l)) /\ WF_vars(CheckKeys(l))
                      /\ WF_vars(EndLoop(l))
  /\ \A w \in Loops \cup Timers : WF_vars(Use(w) \/ Panic(w))

FairSpec == Spec /\ Fairness

-----------------------------------------------------------------------------
(* Properties *)

Steps == {"idle", "key", "token", "open", "rebuild", "start", "stop",
          "forget", "close", "status", "empty", "nuke", "nukeold"} \cup RPCs

TypeOK ==
  /\ pc \in [Callers -> Steps]
  /\ found \in [Callers -> Keys \cup {NoKey}]
  /\ unlockMtx \in Callers \cup {Nobody}
  /\ checkMtx \in Loops \cup {Nobody}
  /\ unlocked \in BOOLEAN
  /\ tokens \subseteq Callers /\ given \subseteq Callers
  /\ {mk, remote, db, file} \subseteq Keys \cup {NoKey}
  /\ auths \subseteq Keys
  /\ checking \in BOOLEAN
  /\ current \in Loops \cup {Nobody}
  /\ loops \in [Loops -> {"none", "first", "wait", "check", "keys"}]
  /\ cancelled \subseteq Loops
  /\ work \in [Loops \cup Timers -> {"none", "remote", "db"}]
  /\ {panicked, leaked, overlapped} \subseteq BOOLEAN
  /\ used \subseteq Keys /\ calls \in 0..MaxCalls /\ faults \in 0..MaxFaults

\* Between two calls of unlock and lock, a client whose token is accepted finds
\* the service unlocked, with a master key, an open cache and its checks running.
SessionOK ==
  unlockMtx = Nobody /\ given \cap tokens # {} =>
    unlocked /\ mk # NoKey /\ db # NoKey /\ checking

\* Between two calls of unlock and lock, a service that says it is locked has
\* no token, no master key and no open cache, unless an unlock has failed after
\* it set them or a password change has unlocked the vault behind a lock's back
\* (service.go:155 returns early then, and leaves the key where it is).
LockedMeansLocked ==
  unlockMtx = Nobody /\ ~unlocked /\ ~leaked =>
    tokens = {} /\ mk = NoKey /\ db = NoKey

\* checkKeys of the loop never meets a closed cache or a locked vault
\* (check.go:43 leaves that to a wait that never waits; it is the mutex, and
\* the look at the context after the sync, that see to it).
ChecksNeedDb == \A l \in Loops : loops[l] = "keys" => db # NoKey /\ mk # NoKey

\* Unlocking again and again leaves one check loop that is not cancelled, the
\* one checkCancelFn cancels; locking leaves none.
OneLoop ==
  unlockMtx = Nobody =>
    {l \in Loops : loops[l] # "none" /\ l \notin cancelled} =
      (IF unlocked THEN {current} ELSE {})

\* A cache is opened with the key its files were written with, unless a setup
\* stopped before it removed the files of an earlier vault, an unlock was
\* faster than a setup or than a reset, or AuthVault found files: OpenAtPath
\* does not notice a wrong key (service.go:127).
CacheReadable == db # NoKey /\ file # NoKey /\ ~overlapped => file = db

\* No RPC waits forever: not unlock for the check of an earlier loop, not lock
\* for the loop it stops.
AllReturn == \A c \in Callers : pc[c] # "idle" ~> pc[c] = "idle"

\* Violated.  What still syncs when the service is locked ends with an error
\* (vault.go:75).
SyncsSurvive == ~panicked

=============================================================================
