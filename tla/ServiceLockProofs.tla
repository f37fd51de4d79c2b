------------------------- MODULE ServiceLockProofs -------------------------
(***************************************************************************)
(* Why unlocking and locking keep what they promise (SessionOK,            *)
(* LockedMeansLocked, ChecksNeedDb, OneLoop, CacheReadable): for any       *)
(* number of clients, check loops and other goroutines, with faults and    *)
(* crashes anywhere.                                                       *)
(***************************************************************************)
EXTENDS ServiceLock, TLAPS

Critical == {"key", "token", "open", "rebuild", "start", "stop", "forget", "close"}

\* What a client's RPC knows where it stands.
Stage(c) ==
  /\ pc[c] \in Critical <=> unlockMtx = c
  /\ pc[c] = "key" => found[c] \in Keys
  /\ pc[c] \in {"token", "open", "rebuild", "start"} => mk # NoKey
  /\ pc[c] \in {"rebuild", "start"} => db # NoKey
  /\ pc[c] \in {"stop", "forget", "close"} => unlocked
  /\ pc[c] = "close" => tokens = {} /\ (mk = NoKey \/ leaked)

Stopped == \E c \in Callers : pc[c] \in {"forget", "close"}
Unlocking == \E c \in Callers : pc[c] \in {"token", "open", "rebuild", "start"}

\* The service is unlocked with everything it needs, or locked without.
Session ==
  /\ checking <=> unlocked /\ ~Stopped
  /\ checking => mk # NoKey /\ db # NoKey
  /\ given \cap tokens # {} => unlocked
  /\ ~unlocked /\ ~leaked /\ ~Unlocking => tokens = {} /\ mk = NoKey /\ db = NoKey

\* One loop checks; those that are cancelled have a check to finish at most.
LoopsOK ==
  /\ checking => current \in Loops /\ loops[current] # "none" /\ current \notin cancelled
  /\ \A l \in Loops :
       /\ loops[l] # "none" /\ l \notin cancelled => checking /\ l = current
       /\ l \in cancelled => loops[l] # "none"
       /\ loops[l] \in {"check", "keys"} <=> checkMtx = l
       /\ loops[l] = "keys" => l \notin cancelled

Inv == TypeOK /\ (\A c \in Callers : Stage(c)) /\ Session /\ LoopsOK

LEMMA Initially == Init => Inv
<1> SUFFICES ASSUME Init PROVE Inv
  OBVIOUS
<1> USE KeysAssumption, InstalledAssumption, ActorsAssumption, BoundsAssumption
<1>0. Installed \subseteq Keys
  BY InstalledAssumption
<1>1. TypeOK
  <2>1. auths \subseteq Keys /\ used \subseteq Keys /\ {mk, remote, db, file} \subseteq Keys \cup {NoKey}
    BY <1>0 DEF Init
  <2>2. pc \in [Callers -> Steps] /\ found \in [Callers -> Keys \cup {NoKey}]
    BY DEF Init, Steps
  <2>3. loops \in [Loops -> {"none", "first", "wait", "check", "keys"}]
        /\ work \in [Loops \cup Timers -> {"none", "remote", "db"}]
    BY DEF Init
  <2>4. calls \in 0..MaxCalls /\ faults \in 0..MaxFaults
    BY DEF Init
  <2> QED BY <2>1, <2>2, <2>3, <2>4 DEF Init, TypeOK
<1>2. \A c \in Callers : Stage(c)
  BY DEF Init, Stage, Critical
<1>3. Session /\ LoopsOK
  BY DEF Init, Session, LoopsOK, Stopped, Unlocking
<1> QED BY <1>1, <1>2, <1>3 DEF Inv

\* AuthUnlock takes the mutex with a key it has decrypted.
LEMMA UnlockKeeps ==
  ASSUME Inv, NEW c \in Callers, Unlock(c)
  PROVE  Inv'
<1> USE KeysAssumption, ActorsAssumption, BoundsAssumption
    DEF Unlock, mutexes, memory, disk, loop, history, bounds, Goto, Return
<1>1. TypeOK'
  BY DEF Inv, TypeOK, Stage, Steps
<1>2. ASSUME NEW q \in Callers PROVE Stage(q)'
  BY DEF Inv, TypeOK, Stage, Critical
<1>3. Session'
  BY DEF Inv, TypeOK, Stage, Critical, Session, Stopped, Unlocking
<1>4. LoopsOK'
  BY DEF Inv, TypeOK, Stage, Session, Stopped, LoopsOK
<1> QED BY <1>1, <1>2, <1>3, <1>4 DEF Inv

\* From here on the vault has a key.
LEMMA SetMasterKeyKeeps ==
  ASSUME Inv, NEW c \in Callers, SetMasterKey(c)
  PROVE  Inv'
<1> USE KeysAssumption, ActorsAssumption, BoundsAssumption
    DEF SetMasterKey, mutexes, memory, disk, loop, history, bounds, Goto, Return
<1>1. TypeOK'
  <2>1. found[c] \in Keys
    BY DEF Inv, Stage, SetMasterKey
  <2>2. CASE remote \in {NoKey, found[c]}
    BY <2>1, <2>2 DEF Inv, TypeOK, Steps, SetMasterKey, disk, loop, bounds, Goto
  <2>3. CASE remote \notin {NoKey, found[c]}
    BY <2>3 DEF Inv, TypeOK, Steps, SetMasterKey, disk, loop, bounds, Goto, Return
  <2> QED BY <2>2, <2>3
<1>2. ASSUME NEW q \in Callers PROVE Stage(q)'
  BY DEF Inv, TypeOK, Stage, Critical
<1>3. Session'
  BY DEF Inv, TypeOK, Stage, Critical, Session, Stopped, Unlocking
<1>4. LoopsOK'
  BY DEF Inv, TypeOK, Stage, Session, Stopped, LoopsOK
<1> QED BY <1>1, <1>2, <1>3, <1>4 DEF Inv

\* The token is not yet with the client.
LEMMA RegisterTokenKeeps ==
  ASSUME Inv, NEW c \in Callers, RegisterToken(c)
  PROVE  Inv'
<1> USE KeysAssumption, ActorsAssumption, BoundsAssumption
    DEF RegisterToken, mutexes, memory, disk, loop, history, bounds, Goto, Return
<1>1. TypeOK'
  BY DEF Inv, TypeOK, Stage, Steps
<1>2. ASSUME NEW q \in Callers PROVE Stage(q)'
  BY DEF Inv, TypeOK, Stage, Critical
<1>3. Session'
  BY DEF Inv, TypeOK, Stage, Critical, Session, Stopped, Unlocking
<1>4. LoopsOK'
  BY DEF Inv, TypeOK, Stage, Session, Stopped, LoopsOK
<1> QED BY <1>1, <1>2, <1>3, <1>4 DEF Inv

\* The cache is opened with the key of the vault.
LEMMA OpenDbKeeps ==
  ASSUME Inv, NEW c \in Callers, OpenDb(c)
  PROVE  Inv'
<1> USE KeysAssumption, ActorsAssumption, BoundsAssumption
    DEF OpenDb, mutexes, memory, disk, loop, history, bounds, Goto, Return
<1>1. TypeOK'
  BY DEF Inv, TypeOK, Stage, Steps
<1>2. ASSUME NEW q \in Callers PROVE Stage(q)'
  BY DEF Inv, TypeOK, Stage, Critical
<1>3. Session'
  BY DEF Inv, TypeOK, Stage, Critical, Session, Stopped, Unlocking
<1>4. LoopsOK'
  BY DEF Inv, TypeOK, Stage, Session, Stopped, LoopsOK
<1> QED BY <1>1, <1>2, <1>3, <1>4 DEF Inv

\* Nothing is kept of it.
LEMMA UpdateAllKeysKeeps ==
  ASSUME Inv, NEW c \in Callers, UpdateAllKeys(c)
  PROVE  Inv'
<1> USE KeysAssumption, ActorsAssumption, BoundsAssumption
    DEF UpdateAllKeys, mutexes, memory, disk, loop, history, bounds, Goto, Return
<1>1. TypeOK'
  BY DEF Inv, TypeOK, Stage, Steps
<1>2. ASSUME NEW q \in Callers PROVE Stage(q)'
  BY DEF Inv, TypeOK, Stage, Critical
<1>3. Session'
  BY DEF Inv, TypeOK, Stage, Critical, Session, Stopped, Unlocking
<1>4. LoopsOK'
  BY DEF Inv, TypeOK, Stage, Session, Stopped, LoopsOK
<1> QED BY <1>1, <1>2, <1>3, <1>4 DEF Inv

\* Everything is there when the service becomes unlocked.
LEMMA StartCheckKeeps ==
  ASSUME Inv, NEW c \in Callers, StartCheck(c)
  PROVE  Inv'
<1> USE KeysAssumption, ActorsAssumption, BoundsAssumption
    DEF StartCheck, StartsLoop, mutexes, memory, disk, loop, history, bounds, Goto, Return
<1>1. TypeOK'
  BY DEF Inv, TypeOK, Stage, Steps
<1>2. ASSUME NEW q \in Callers PROVE Stage(q)'
  BY DEF Inv, TypeOK, Stage, Critical
<1>3. Session'
  BY DEF Inv, TypeOK, Stage, Critical, Session, Stopped, Unlocking
<1>4. LoopsOK'
  BY DEF Inv, TypeOK, Stage, Session, Stopped, LoopsOK
<1> QED BY <1>1, <1>2, <1>3, <1>4 DEF Inv

\* Lock goes on only when the service is unlocked.
LEMMA LockKeeps ==
  ASSUME Inv, NEW c \in Callers, Lock(c)
  PROVE  Inv'
<1> USE KeysAssumption, ActorsAssumption, BoundsAssumption
    DEF Lock, mutexes, memory, disk, loop, history, bounds, Goto, Return
<1>1. TypeOK'
  BY DEF Inv, TypeOK, Stage, Steps
<1>2. ASSUME NEW q \in Callers PROVE Stage(q)'
  BY DEF Inv, TypeOK, Stage, Critical
<1>3. Session'
  BY DEF Inv, TypeOK, Stage, Critical, Session, Stopped, Unlocking
<1>4. LoopsOK'
  BY DEF Inv, TypeOK, Stage, Session, Stopped, LoopsOK
<1> QED BY <1>1, <1>2, <1>3, <1>4 DEF Inv

\* No loop is in a check when the loop is cancelled.
LEMMA StopCheckKeeps ==
  ASSUME Inv, NEW c \in Callers, StopCheck(c)
  PROVE  Inv'
<1> USE KeysAssumption, ActorsAssumption, BoundsAssumption
    DEF StopCheck, MayStop, mutexes, memory, disk, loop, history, bounds, Goto, Return
<1>0. checking /\ current \in Loops /\ loops[current] # "none" /\ checkMtx = Nobody
  <2>1. unlocked /\ ~Stopped
    BY DEF Inv, Stage, Critical, Stopped, StopCheck
  <2> QED BY <2>1 DEF Inv, Session, LoopsOK, StopCheck, MayStop
<1>1. TypeOK'
  BY <1>0 DEF Inv, TypeOK, Stage, Steps
<1>2. ASSUME NEW q \in Callers PROVE Stage(q)'
  BY DEF Inv, TypeOK, Stage, Critical
<1>3. Session'
  BY DEF Inv, TypeOK, Stage, Critical, Session, Stopped, Unlocking
<1>4. LoopsOK'
  BY <1>0 DEF Inv, TypeOK, Stage, Session, Stopped, LoopsOK
<1> QED BY <1>1, <1>2, <1>3, <1>4 DEF Inv

\* The cache is still open, and the flag is still set.
LEMMA ForgetKeysKeeps ==
  ASSUME Inv, NEW c \in Callers, ForgetKeys(c)
  PROVE  Inv'
<1> USE KeysAssumption, ActorsAssumption, BoundsAssumption
    DEF ForgetKeys, RevokedTokens, KeyLeft, mutexes, memory, disk, loop, history, bounds, Goto, Return
<1>1. TypeOK'
  BY DEF Inv, TypeOK, Stage, Steps
<1>2. ASSUME NEW q \in Callers PROVE Stage(q)'
  BY DEF Inv, TypeOK, Stage, Critical
<1>3. Session'
  BY DEF Inv, TypeOK, Stage, Critical, Session, Stopped, Unlocking
<1>4. LoopsOK'
  BY DEF Inv, TypeOK, Stage, Session, Stopped, LoopsOK
<1> QED BY <1>1, <1>2, <1>3, <1>4 DEF Inv

\* A key that is here again comes from a password change.
LEMMA CloseDbKeeps ==
  ASSUME Inv, NEW c \in Callers, CloseDb(c)
  PROVE  Inv'
<1> USE KeysAssumption, ActorsAssumption, BoundsAssumption
    DEF CloseDb, mutexes, memory, disk, loop, history, bounds, Goto, Return
<1>1. TypeOK'
  BY DEF Inv, TypeOK, Stage, Steps
<1>2. ASSUME NEW q \in Callers PROVE Stage(q)'
  BY DEF Inv, TypeOK, Stage, Critical
<1>3. Session'
  BY DEF Inv, TypeOK, Stage, Critical, Session, Stopped, Unlocking
<1>4. LoopsOK'
  BY DEF Inv, TypeOK, Stage, Session, Stopped, LoopsOK
<1> QED BY <1>1, <1>2, <1>3, <1>4 DEF Inv

\* The rest changes neither the session nor the loop.
LEMMA ResetKeeps ==
  ASSUME Inv, NEW c \in Callers, Reset(c)
  PROVE  Inv'
<1> USE KeysAssumption, ActorsAssumption, BoundsAssumption
    DEF Reset, mutexes, memory, disk, loop, history, bounds, Goto, Return
<1>1. TypeOK'
  BY DEF Inv, TypeOK, Stage, Steps
<1>2. ASSUME NEW q \in Callers PROVE Stage(q)'
  BY DEF Inv, TypeOK, Stage, Critical
<1>3. Session'
  BY DEF Inv, TypeOK, Stage, Critical, Session, Stopped, Unlocking
<1>4. LoopsOK'
  BY DEF Inv, TypeOK, Stage, Session, Stopped, LoopsOK
<1> QED BY <1>1, <1>2, <1>3, <1>4 DEF Inv

LEMMA ResetStatusKeeps ==
  ASSUME Inv, NEW c \in Callers, ResetStatus(c)
  PROVE  Inv'
<1> USE KeysAssumption, ActorsAssumption, BoundsAssumption
    DEF ResetStatus, mutexes, memory, disk, loop, history, bounds, Goto, Return
<1>1. TypeOK'
  BY DEF Inv, TypeOK, Stage, Steps
<1>2. ASSUME NEW q \in Callers PROVE Stage(q)'
  BY DEF Inv, TypeOK, Stage, Critical
<1>3. Session'
  BY DEF Inv, TypeOK, Stage, Critical, Session, Stopped, Unlocking
<1>4. LoopsOK'
  BY DEF Inv, TypeOK, Stage, Session, Stopped, LoopsOK
<1> QED BY <1>1, <1>2, <1>3, <1>4 DEF Inv

LEMMA EmptyStoreKeeps ==
  ASSUME Inv, NEW c \in Callers, EmptyStore(c)
  PROVE  Inv'
<1> USE KeysAssumption, ActorsAssumption, BoundsAssumption
    DEF EmptyStore, mutexes, memory, disk, loop, history, bounds, Goto, Return
<1>1. TypeOK'
  BY DEF Inv, TypeOK, Stage, Steps
<1>2. ASSUME NEW q \in Callers PROVE Stage(q)'
  BY DEF Inv, TypeOK, Stage, Critical
<1>3. Session'
  BY DEF Inv, TypeOK, Stage, Critical, Session, Stopped, Unlocking
<1>4. LoopsOK'
  BY DEF Inv, TypeOK, Stage, Session, Stopped, LoopsOK
<1> QED BY <1>1, <1>2, <1>3, <1>4 DEF Inv

LEMMA RemoveFilesKeeps ==
  ASSUME Inv, NEW c \in Callers, RemoveFiles(c)
  PROVE  Inv'
<1> USE KeysAssumption, ActorsAssumption, BoundsAssumption
    DEF RemoveFiles, FilesLeft, mutexes, memory, disk, loop, history, bounds, Goto, Return
<1>1. TypeOK'
  BY DEF Inv, TypeOK, Stage, Steps
<1>2. ASSUME NEW q \in Callers PROVE Stage(q)'
  BY DEF Inv, TypeOK, Stage, Critical
<1>3. Session'
  BY DEF Inv, TypeOK, Stage, Critical, Session, Stopped, Unlocking
<1>4. LoopsOK'
  BY DEF Inv, TypeOK, Stage, Session, Stopped, LoopsOK
<1> QED BY <1>1, <1>2, <1>3, <1>4 DEF Inv

LEMMA SetupKeeps ==
  ASSUME Inv, NEW c \in Callers, Setup(c)
  PROVE  Inv'
<1> USE KeysAssumption, ActorsAssumption, BoundsAssumption
    DEF Setup, NewVault, mutexes, memory, disk, loop, history, bounds, Goto, Return
<1>1. TypeOK'
  BY DEF Inv, TypeOK, Stage, Steps
<1>2. ASSUME NEW q \in Callers PROVE Stage(q)'
  BY DEF Inv, TypeOK, Stage, Critical
<1>3. Session'
  BY DEF Inv, TypeOK, Stage, Critical, Session, Stopped, Unlocking
<1>4. LoopsOK'
  BY DEF Inv, TypeOK, Stage, Session, Stopped, LoopsOK
<1> QED BY <1>1, <1>2, <1>3, <1>4 DEF Inv

LEMMA AuthVaultKeeps ==
  ASSUME Inv, NEW c \in Callers, AuthVault(c)
  PROVE  Inv'
<1> USE KeysAssumption, ActorsAssumption, BoundsAssumption
    DEF AuthVault, NewVault, mutexes, memory, disk, loop, history, bounds, Goto, Return
<1>1. TypeOK'
  BY DEF Inv, TypeOK, Stage, Steps
<1>2. ASSUME NEW q \in Callers PROVE Stage(q)'
  BY DEF Inv, TypeOK, Stage, Critical
<1>3. Session'
  BY DEF Inv, TypeOK, Stage, Critical, Session, Stopped, Unlocking
<1>4. LoopsOK'
  BY DEF Inv, TypeOK, Stage, Session, Stopped, LoopsOK
<1> QED BY <1>1, <1>2, <1>3, <1>4 DEF Inv

\* A key that is set behind a lock has leaked.
LEMMA ChangePasswordKeeps ==
  ASSUME Inv, NEW c \in Callers, ChangePassword(c)
  PROVE  Inv'
<1> USE KeysAssumption, ActorsAssumption, BoundsAssumption
    DEF ChangePassword, mutexes, memory, disk, loop, history, bounds, Goto, Return
<1>1. TypeOK'
  <2>1. mk' \in Keys \cup {NoKey} /\ remote' \in Keys \cup {NoKey} /\ leaked' \in BOOLEAN
    BY DEF Inv, TypeOK
  <2>2. pc' \in [Callers -> Steps]
    BY DEF Inv, TypeOK, Steps
  <2>3. UNCHANGED <<found, mutexes, unlocked, tokens, given, db, disk, loop, work,
                    panicked, overlapped, bounds>>
    OBVIOUS
  <2> QED BY <2>1, <2>2, <2>3 DEF Inv, TypeOK
<1>2. ASSUME NEW q \in Callers PROVE Stage(q)'
  BY DEF Inv, TypeOK, Stage, Critical
<1>3. Session'
  BY DEF Inv, TypeOK, Stage, Critical, Session, Stopped, Unlocking
<1>4. LoopsOK'
  BY DEF Inv, TypeOK, Stage, Session, Stopped, LoopsOK
<1> QED BY <1>1, <1>2, <1>3, <1>4 DEF Inv

\* A failed unlock leaves what it has set.
LEMMA FailKeeps ==
  ASSUME Inv, NEW c \in Callers, Fail(c)
  PROVE  Inv'
<1> USE KeysAssumption, ActorsAssumption, BoundsAssumption
    DEF Fail, mutexes, memory, disk, loop, history, bounds, Goto, Return
<1>1. TypeOK'
  BY DEF Inv, TypeOK, Stage, Steps
<1>2. ASSUME NEW q \in Callers PROVE Stage(q)'
  BY DEF Inv, TypeOK, Stage, Critical
<1>3. Session'
  BY DEF Inv, TypeOK, Stage, Critical, Session, Stopped, Unlocking
<1>4. LoopsOK'
  BY DEF Inv, TypeOK, Stage, Session, Stopped, LoopsOK
<1> QED BY <1>1, <1>2, <1>3, <1>4 DEF Inv

-----------------------------------------------------------------------------
(* Calls, loops and faults *)

LEMMA CallKeeps ==
  ASSUME Inv, NEW c \in Callers, NEW rpc \in RPCs, Call(c, rpc)
  PROVE  Inv'
<1> USE BoundsAssumption
<1>1. TypeOK'
  BY DEF Inv, TypeOK, Steps, Call, mutexes, memory, disk, loop, history, Goto
<1>2. rpc \notin Critical
  BY DEF RPCs, AllowList, Critical
<1>3. ASSUME NEW q \in Callers PROVE Stage(q)'
  BY <1>2 DEF Inv, TypeOK, Stage, Critical, Call, mutexes, memory, disk, loop, history, Goto
<1>4. Session'
  BY <1>2 DEF Inv, TypeOK, Critical, Session, Stopped, Unlocking, Call, mutexes, memory,
              disk, loop, history, Goto
<1>5. LoopsOK'
  BY DEF Inv, LoopsOK, Call, mutexes, loop
<1> QED BY <1>1, <1>3, <1>4, <1>5 DEF Inv

\* A loop's steps touch neither clients nor the session.
LEMMA LoopKeeps ==
  ASSUME Inv, NEW l \in Loops, TryCheck(l) \/ Synced(l) \/ CheckKeys(l) \/ EndLoop(l)
  PROVE  Inv'
<1> USE ActorsAssumption
<1>1. UNCHANGED <<pc, found, unlockMtx, memory, disk, checking, current, work, history, bounds>>
  BY DEF TryCheck, Synced, CheckKeys, EndLoop, mutexes
<1>2. TypeOK'
  BY <1>1 DEF Inv, TypeOK, TryCheck, Synced, CheckKeys, EndLoop, Done, mutexes, memory, disk,
              history, bounds
<1>3. \A c \in Callers : Stage(c)'
  BY <1>1 DEF Inv, Stage, memory, history
<1>4. Session'
  BY <1>1 DEF Inv, Session, Stopped, Unlocking, memory, history
<1>5. ASSUME NEW k \in Loops
      PROVE  /\ loops'[k] # "none" /\ k \notin cancelled' => checking' /\ k = current'
             /\ k \in cancelled' => loops'[k] # "none"
             /\ loops'[k] \in {"check", "keys"} <=> checkMtx' = k
             /\ loops'[k] = "keys" => k \notin cancelled'
  <2>1. CASE TryCheck(l)
    BY <1>1, <2>1 DEF Inv, TypeOK, LoopsOK, TryCheck
  <2>2. CASE Synced(l)
    BY <1>1, <2>2 DEF Inv, TypeOK, LoopsOK, Synced, Done
  <2>3. CASE CheckKeys(l)
    BY <1>1, <2>3 DEF Inv, TypeOK, LoopsOK, CheckKeys
  <2>4. CASE EndLoop(l)
    BY <1>1, <2>4 DEF Inv, TypeOK, LoopsOK, EndLoop, mutexes
  <2> QED BY <2>1, <2>2, <2>3, <2>4
<1>6. checking => loops'[current] # "none" /\ current \notin cancelled'
  BY <1>1 DEF Inv, TypeOK, LoopsOK, TryCheck, Synced, CheckKeys, EndLoop, Done
<1>7. LoopsOK'
  BY <1>1, <1>5, <1>6 DEF Inv, LoopsOK
<1> QED BY <1>2, <1>3, <1>4, <1>7 DEF Inv

LEMMA WorkKeeps ==
  ASSUME Inv, NEW w \in Loops \cup Timers, NEW what \in {"remote", "db"},
         Look(w, what) \/ Use(w)
  PROVE  Inv'
<1>1. work' \in [Loops \cup Timers -> {"none", "remote", "db"}]
      /\ UNCHANGED <<pc, found, mutexes, memory, disk, loop, history, bounds>>
  BY DEF Look, Use, Inv, TypeOK
<1> QED BY <1>1 DEF Inv, TypeOK, Stage, Session, LoopsOK, Stopped, Unlocking, mutexes, memory,
                    disk, loop, history, bounds

\* A new process is locked, with nothing running.
LEMMA RestartKeeps ==
  ASSUME Inv, Restart, panicked' \in BOOLEAN, faults' \in 0..MaxFaults
  PROVE  Inv'
<1> USE KeysAssumption, ActorsAssumption
<1>1. TypeOK'
  BY DEF Inv, TypeOK, Steps, Restart, disk
<1>2. \A c \in Callers : Stage(c)'
  BY DEF Restart, Stage, Critical
<1>3. Session' /\ LoopsOK'
  BY DEF Restart, Session, LoopsOK, Stopped, Unlocking
<1> QED BY <1>1, <1>2, <1>3 DEF Inv

\* Every step keeps the invariant.
LEMMA Inductive == Inv /\ [Next]_vars => Inv'
<1> SUFFICES ASSUME Inv, [Next]_vars PROVE Inv'
  OBVIOUS
<1>1. ASSUME NEW c \in Callers, Step(c) PROVE Inv'
  BY <1>1, UnlockKeeps, SetMasterKeyKeeps, RegisterTokenKeeps, OpenDbKeeps,
     UpdateAllKeysKeeps, StartCheckKeeps, LockKeeps, StopCheckKeeps, ForgetKeysKeeps,
     CloseDbKeeps, ResetKeeps, ResetStatusKeeps, EmptyStoreKeeps, RemoveFilesKeeps,
     SetupKeeps, AuthVaultKeeps, ChangePasswordKeeps DEF Step
<1>2. ASSUME NEW c \in Callers, Fail(c) PROVE Inv'
  BY <1>2, FailKeeps
<1>3. ASSUME NEW c \in Callers, NEW rpc \in RPCs, Call(c, rpc) PROVE Inv'
  BY <1>3, CallKeeps
<1>4. ASSUME NEW l \in Loops, TryCheck(l) \/ Synced(l) \/ CheckKeys(l) \/ EndLoop(l)
      PROVE  Inv'
  BY <1>4, LoopKeeps
<1>5. ASSUME NEW w \in Loops \cup Timers, NEW what \in {"remote", "db"},
             Look(w, what) \/ Use(w)
      PROVE  Inv'
  BY <1>5, WorkKeeps
<1>6. ASSUME NEW w \in Loops \cup Timers, Panic(w) PROVE Inv'
  BY <1>6, RestartKeeps DEF Panic, Inv, TypeOK
<1>7. CASE Crash
  <2>1. panicked' \in BOOLEAN /\ faults' \in 0..MaxFaults /\ Restart
    BY <1>7, BoundsAssumption DEF Crash, Inv, TypeOK
  <2> QED BY <2>1, RestartKeeps
<1>8. CASE UNCHANGED vars
  BY <1>8 DEF vars, mutexes, memory, disk, loop, history, bounds, Inv, TypeOK, Stage, Session,
              Stopped, Unlocking, LoopsOK
<1> QED BY <1>1, <1>2, <1>3, <1>4, <1>5, <1>6, <1>7, <1>8 DEF Next

\* The invariant holds.
THEOREM Invariance == Spec => []Inv
BY Initially, Inductive, PTL DEF Spec

\* The types.
THEOREM TypeCorrect == Spec => []TypeOK
<1>1. Inv => TypeOK
  BY DEF Inv
<1> QED BY <1>1, Invariance, PTL

\* An accepted token means an unlocked service with a key, a cache and a check
\* loop, whenever neither an unlock nor a lock is under way.
THEOREM SessionsComplete == Spec => []SessionOK
<1>1. Inv => SessionOK
  BY ActorsAssumption DEF Inv, Session, SessionOK, Stage, Stopped, Critical
<1> QED BY <1>1, Invariance, PTL

\* A locked service keeps no secret, except after the two ways of leaking one.
THEOREM LocksCompletely == Spec => []LockedMeansLocked
<1>1. Inv => LockedMeansLocked
  BY ActorsAssumption DEF Inv, Session, LockedMeansLocked, Stage, Unlocking, Critical
<1> QED BY <1>1, Invariance, PTL

\* No check loop works on the keys of a locked service.
THEOREM ChecksFindDb == Spec => []ChecksNeedDb
<1>1. Inv => ChecksNeedDb
  BY DEF Inv, Session, LoopsOK, ChecksNeedDb
<1> QED BY <1>1, Invariance, PTL

\* At most one check loop is not cancelled: the one that the next lock cancels.
THEOREM OneLoopEver == Spec => []OneLoop
<1>1. Inv => OneLoop
  <2> SUFFICES ASSUME Inv, unlockMtx = Nobody PROVE OneLoop
    BY DEF OneLoop
  <2>1. checking <=> unlocked
    BY ActorsAssumption DEF Inv, Session, Stage, Stopped, Critical
  <2> QED BY <2>1 DEF Inv, LoopsOK, OneLoop
<1> QED BY <1>1, Invariance, PTL

-----------------------------------------------------------------------------
(* The sync of a check, and the remote *)

\* A check of a loop that no lock has cancelled finds the remote it has looked
\* at (vault.go:305, :353): a lock takes the check's mutex before it takes the
\* remote away, and nothing else takes it.
ChecksSurvive == \A l \in Loops : l \notin cancelled /\ work[l] # "none" => Present(work[l])

\* An unlocked vault has a remote, and what a loop looks at it looks at in its check.
RemoteSet == mk # NoKey => remote # NoKey
LooksInCheck == \A l \in Loops : work[l] # "none" => loops[l] = "check" /\ work[l] = "remote"

CheckInv == RemoteSet /\ LooksInCheck

\* Steps that leave the vault and the loops alone.
LEMMA ElsewhereKeepsCheck ==
  ASSUME CheckInv, UNCHANGED <<mk, remote, loops, work>>
  PROVE  CheckInv'
BY DEF CheckInv, RemoteSet, LooksInCheck

\* Whatever sets the master key sets the remote, and only locking takes it.
LEMMA StepKeepsCheck ==
  ASSUME Inv, CheckInv, NEW c \in Callers, Step(c)
  PROVE  CheckInv'
<1>1. ASSUME Unlock(c) \/ RegisterToken(c) \/ OpenDb(c) \/ UpdateAllKeys(c) \/ Lock(c)
             \/ StopCheck(c) \/ CloseDb(c)
      PROVE  CheckInv'
  BY <1>1, ElsewhereKeepsCheck
     DEF Unlock, RegisterToken, OpenDb, UpdateAllKeys, Lock, StopCheck, CloseDb, memory, loop
<1>2. ASSUME Reset(c) \/ ResetStatus(c) \/ EmptyStore(c) \/ RemoveFiles(c) \/ Setup(c)
      PROVE  CheckInv'
  BY <1>2, ElsewhereKeepsCheck
     DEF Reset, ResetStatus, EmptyStore, RemoveFiles, Setup, memory, loop
<1>3. ASSUME StartCheck(c) PROVE CheckInv'
  <2>1. UNCHANGED <<mk, remote, work>>
    BY <1>3 DEF StartCheck
  <2>2. ASSUME NEW l \in Loops PROVE loops[l] = "check" => loops'[l] = "check"
    BY <1>3 DEF StartCheck, Inv, TypeOK
  <2> QED BY <2>1, <2>2 DEF CheckInv, RemoteSet, LooksInCheck
<1>4. ASSUME SetMasterKey(c) \/ ForgetKeys(c) \/ AuthVault(c) \/ ChangePassword(c)
      PROVE  CheckInv'
  <2>1. UNCHANGED <<loops, work>>
    BY <1>4 DEF SetMasterKey, ForgetKeys, AuthVault, ChangePassword, loop
  <2>2. CASE SetMasterKey(c)
    BY <2>1, <2>2, KeysAssumption
       DEF SetMasterKey, Inv, Stage, CheckInv, RemoteSet, LooksInCheck
  <2>3. CASE ForgetKeys(c)
    BY <2>1, <2>3 DEF ForgetKeys, KeyLeft, CheckInv, RemoteSet, LooksInCheck
  <2>4. CASE AuthVault(c)
    BY <2>1, <2>4 DEF AuthVault, NewVault, CheckInv, RemoteSet, LooksInCheck
  <2>5. CASE ChangePassword(c)
    BY <2>1, <2>5, KeysAssumption
       DEF ChangePassword, Inv, TypeOK, CheckInv, RemoteSet, LooksInCheck
  <2> QED BY <1>4, <2>2, <2>3, <2>4, <2>5
<1> QED BY <1>1, <1>2, <1>3, <1>4 DEF Step

\* A loop ends its check when it has nothing left to use.
LEMMA LoopKeepsCheck ==
  ASSUME Inv, CheckInv, NEW l \in Loops,
         TryCheck(l) \/ Synced(l) \/ CheckKeys(l) \/ EndLoop(l)
  PROVE  CheckInv'
<1>1. UNCHANGED <<mk, remote, work>>
  BY DEF TryCheck, Synced, CheckKeys, EndLoop, memory
<1>2. ASSUME NEW k \in Loops, work[k] # "none" PROVE loops'[k] = loops[k]
  BY <1>2 DEF TryCheck, Synced, CheckKeys, EndLoop, Inv, TypeOK, CheckInv, LooksInCheck
<1> QED BY <1>1, <1>2 DEF CheckInv, RemoteSet, LooksInCheck

LEMMA WorkKeepsCheck ==
  ASSUME Inv, CheckInv, NEW w \in Loops \cup Timers, NEW what \in {"remote", "db"},
         Look(w, what) \/ Use(w)
  PROVE  CheckInv'
<1>1. UNCHANGED <<mk, remote, loops>>
  BY DEF Look, Use, memory, loop
<1>2. ASSUME NEW k \in Loops, work'[k] # "none"
      PROVE  loops[k] = "check" /\ work'[k] = "remote"
  BY <1>2 DEF Look, Use, Inv, TypeOK, CheckInv, LooksInCheck
<1> QED BY <1>1, <1>2 DEF CheckInv, RemoteSet, LooksInCheck

LEMMA CheckInductive == Inv /\ CheckInv /\ [Next]_vars => CheckInv'
<1> SUFFICES ASSUME Inv, CheckInv, [Next]_vars PROVE CheckInv'
  OBVIOUS
<1>1. ASSUME Restart PROVE CheckInv'
  BY <1>1 DEF Restart, CheckInv, RemoteSet, LooksInCheck
<1>2. ASSUME NEW c \in Callers, Step(c) PROVE CheckInv'
  BY <1>2, StepKeepsCheck
<1>3. ASSUME NEW c \in Callers, Fail(c) PROVE CheckInv'
  BY <1>3, ElsewhereKeepsCheck DEF Fail, memory, loop
<1>4. ASSUME NEW c \in Callers, NEW rpc \in RPCs, Call(c, rpc) PROVE CheckInv'
  BY <1>4, ElsewhereKeepsCheck DEF Call, memory, loop
<1>5. ASSUME NEW l \in Loops, TryCheck(l) \/ Synced(l) \/ CheckKeys(l) \/ EndLoop(l)
      PROVE  CheckInv'
  BY <1>5, LoopKeepsCheck
<1>6. ASSUME NEW w \in Loops \cup Timers, NEW what \in {"remote", "db"},
             Look(w, what) \/ Use(w)
      PROVE  CheckInv'
  BY <1>6, WorkKeepsCheck
<1>7. ASSUME NEW w \in Loops \cup Timers, Panic(w) PROVE CheckInv'
  BY <1>7, <1>1 DEF Panic
<1>8. ASSUME Crash PROVE CheckInv'
  BY <1>8, <1>1 DEF Crash
<1>9. ASSUME UNCHANGED vars PROVE CheckInv'
  BY <1>9, ElsewhereKeepsCheck DEF vars, memory, loop
<1> QED BY <1>2, <1>3, <1>4, <1>5, <1>6, <1>7, <1>8, <1>9 DEF Next

\* Of the goroutines that sync, a check loop that is not cancelled is not the one
\* that dereferences a remote that is gone (service.go:174, vault.go:305).
THEOREM ChecksNeverPanic == Spec => []ChecksSurvive
<1>1. Init => CheckInv
  BY DEF Init, CheckInv, RemoteSet, LooksInCheck
<1>2. Inv /\ CheckInv => ChecksSurvive
  <2> SUFFICES ASSUME Inv, CheckInv, NEW l \in Loops, l \notin cancelled, work[l] # "none"
               PROVE  Present(work[l])
    BY DEF ChecksSurvive
  <2>1. loops[l] = "check" /\ work[l] = "remote"
    BY DEF CheckInv, LooksInCheck
  <2>2. mk # NoKey
    BY <2>1 DEF Inv, LoopsOK, Session
  <2> QED BY <2>1, <2>2 DEF CheckInv, RemoteSet, Present
<1> QED BY <1>1, <1>2, Initially, Inductive, CheckInductive, PTL DEF Spec

-----------------------------------------------------------------------------
(* The key of the cache *)

\* There is one vault at a time, and an unlock has found a key that is used.
OneVault ==
  /\ auths \subseteq used
  /\ \A k, l \in auths : k = l
  /\ \A c \in Callers : pc[c] = "key" => found[c] \in used

\* The master key, the files of the cache and the open cache are of that vault;
\* no unlock that a setup has met comes to its end.
SameKey ==
  /\ mk # NoKey /\ auths # {} => mk \in auths
  /\ SettingUp => ~Unlocking /\ \A c \in Callers : pc[c] = "key" => found[c] \notin auths
  /\ ~SettingUp /\ file # NoKey =>
       /\ auths # {} => file \in auths
       /\ mk # NoKey => file = mk
  /\ db # NoKey /\ file # NoKey => file = db

CacheInv == OneVault /\ (~overlapped => SameKey)

LEMMA CacheInitially == Init => CacheInv
<1> SUFFICES ASSUME Init PROVE CacheInv
  OBVIOUS
<1>1. OneVault
  BY InstalledAssumption DEF Init, OneVault
<1>2. SameKey
  BY DEF Init, SameKey, SettingUp
<1> QED BY <1>1, <1>2 DEF CacheInv

\* A caller's step that leaves the keys alone, and sets neither up nor unlocks.
LEMMA OtherStep ==
  ASSUME Inv, CacheInv, UNCHANGED <<found, auths, file, used>>,
         overlapped => overlapped',
         ~overlapped' => mk' \in {mk, NoKey} /\ db' \in {db, NoKey} /\ (SettingUp' <=> SettingUp),
         \A c \in Callers : pc'[c] = "key" => pc[c] = "key",
         Unlocking' => Unlocking
  PROVE  CacheInv'
<1>1. OneVault'
  BY DEF CacheInv, OneVault
<1>2. ~overlapped' => SameKey'
  BY DEF CacheInv, SameKey
<1> QED BY <1>1, <1>2 DEF CacheInv

LEMMA QuietStep ==
  ASSUME Inv, CacheInv, NEW c \in Callers,
         \/ RegisterToken(c) \/ UpdateAllKeys(c) \/ StartCheck(c) \/ Lock(c) \/ StopCheck(c)
         \/ ForgetKeys(c) \/ CloseDb(c) \/ Reset(c) \/ ResetStatus(c) \/ Fail(c)
  PROVE  CacheInv'
<1>1. /\ UNCHANGED <<found, auths, file, used>>
      /\ overlapped => overlapped'
      /\ mk' \in {mk, NoKey} /\ db' \in {db, NoKey}
  <2>1. CASE Fail(c)
    BY <2>1 DEF Fail, disk, memory
  <2>2. CASE ForgetKeys(c) \/ CloseDb(c)
    BY <2>2 DEF ForgetKeys, CloseDb, KeyLeft, disk, history, bounds
  <2>3. CASE RegisterToken(c) \/ UpdateAllKeys(c) \/ StartCheck(c) \/ Lock(c) \/ StopCheck(c)
               \/ Reset(c) \/ ResetStatus(c)
    BY <2>3 DEF RegisterToken, UpdateAllKeys, StartCheck, Lock, StopCheck, Reset,
                ResetStatus, disk, memory, history, bounds
  <2> QED BY <2>1, <2>2, <2>3
<1>2. PICK label \in {"idle", "open", "start", "stop", "forget", "close", "status", "empty"} :
        pc' = [pc EXCEPT ![c] = label]
  BY DEF RegisterToken, UpdateAllKeys, StartCheck, Lock, StopCheck, ForgetKeys, CloseDb, Reset,
         ResetStatus, Fail, Goto, Return
<1>3. label \in {"open", "start"} => Unlocking
  BY <1>2 DEF RegisterToken, UpdateAllKeys, StartCheck, Lock, StopCheck, ForgetKeys, CloseDb,
         Reset, ResetStatus, Fail, Goto, Return, Unlocking, Inv, TypeOK
<1>4. ~overlapped' => pc[c] # "nukeold"
  BY DEF RegisterToken, UpdateAllKeys, StartCheck, Lock, StopCheck, ForgetKeys, CloseDb, Reset,
         ResetStatus, Fail
<1>5. ASSUME NEW q \in Callers PROVE pc'[q] = IF q = c THEN label ELSE pc[q]
  BY <1>2 DEF Inv, TypeOK
<1>6. Unlocking' => Unlocking
  BY <1>3, <1>5 DEF Unlocking
<1>7. ~overlapped' => (SettingUp' <=> SettingUp)
  BY <1>4, <1>5 DEF SettingUp
<1> QED BY <1>1, <1>5, <1>6, <1>7, OtherStep

\* An unlock that begins while a vault is set up is what overlapped says.
LEMMA UnlockSameKey ==
  ASSUME Inv, CacheInv, NEW c \in Callers, Unlock(c)
  PROVE  CacheInv'
<1>1. UNCHANGED <<auths, file, used, mk, db>>
  BY DEF Unlock, disk, memory, bounds
<1>2. CASE pc' = [pc EXCEPT ![c] = "key"]
  <2>1. PICK k \in auths : found' = [found EXCEPT ![c] = k]
    BY <1>2 DEF Unlock, Return, Goto, Inv, TypeOK
  <2>2. overlapped' = (overlapped \/ SettingUp)
    BY <1>2 DEF Unlock, Return, Goto, Inv, TypeOK
  <2>3. ASSUME NEW q \in Callers
        PROVE  /\ pc'[q] = IF q = c THEN "key" ELSE pc[q]
               /\ found'[q] = IF q = c THEN k ELSE found[q]
    BY <1>2, <2>1 DEF Inv, TypeOK
  <2>4. OneVault'
    BY <1>1, <2>1, <2>3 DEF CacheInv, OneVault
  <2>5. (SettingUp' => SettingUp) /\ (SettingUp /\ pc[c] = "unlock" => SettingUp')
    BY <2>3 DEF SettingUp
  <2>6. ~overlapped' => SameKey'
    BY <1>1, <2>2, <2>5 DEF CacheInv, SameKey, Unlock
  <2> QED BY <2>4, <2>6 DEF CacheInv
<1>3. CASE Return(c) /\ UNCHANGED <<found, overlapped>>
  <2>1. ASSUME NEW q \in Callers PROVE pc'[q] = IF q = c THEN "idle" ELSE pc[q]
    BY <1>3 DEF Return, Goto, Inv, TypeOK
  <2>2. pc[c] = "unlock"
    BY DEF Unlock
  <2>3. (SettingUp' <=> SettingUp) /\ (Unlocking' => Unlocking)
    BY <2>1, <2>2 DEF SettingUp, Unlocking
  <2> QED BY <1>1, <1>3, <2>1, <2>3, OtherStep
<1> QED BY <1>2, <1>3 DEF Unlock, Goto

\* The key that was found is that of the vault, or overlapped is set.
LEMMA SetMasterKeySameKey ==
  ASSUME Inv, CacheInv, NEW c \in Callers, SetMasterKey(c)
  PROVE  CacheInv'
<1>1. UNCHANGED <<found, auths, file, used, db>> /\ (overlapped => overlapped')
      /\ pc[c] = "key"
  BY DEF SetMasterKey, disk, bounds
<1>2. CASE remote \in {NoKey, found[c]}
  <2>1. /\ mk' = found[c] /\ pc' = [pc EXCEPT ![c] = "token"]
        /\ overlapped' = (overlapped \/ found[c] \notin auths)
    BY <1>2 DEF SetMasterKey, Goto
  <2>2. ASSUME NEW q \in Callers PROVE pc'[q] = IF q = c THEN "token" ELSE pc[q]
    BY <2>1 DEF Inv, TypeOK
  <2>3. OneVault'
    BY <1>1, <2>2 DEF CacheInv, OneVault
  <2>4. ASSUME ~overlapped' PROVE SameKey'
    <3>1. SameKey /\ OneVault /\ found[c] \in auths
      BY <2>1, <2>4 DEF CacheInv
    <3>2. ~SettingUp
      BY <1>1, <3>1 DEF SameKey
    <3>3. ~SettingUp'
      BY <2>2, <3>2 DEF SettingUp
    <3>4. file # NoKey => file = found[c]
      BY <3>1, <3>2 DEF SameKey, OneVault
    <3> QED BY <1>1, <2>1, <3>1, <3>3, <3>4 DEF SameKey
  <2> QED BY <2>3, <2>4 DEF CacheInv
<1>3. CASE remote \notin {NoKey, found[c]}
  <2>1. pc' = [pc EXCEPT ![c] = "idle"] /\ UNCHANGED <<mk, overlapped>>
    BY <1>3 DEF SetMasterKey, Goto, Return
  <2>2. ASSUME NEW q \in Callers PROVE pc'[q] = IF q = c THEN "idle" ELSE pc[q]
    BY <2>1 DEF Inv, TypeOK
  <2>3. (SettingUp' <=> SettingUp) /\ (Unlocking' => Unlocking)
    BY <1>1, <2>2 DEF SettingUp, Unlocking
  <2> QED BY <1>1, <2>1, <2>2, <2>3, OtherStep
<1> QED BY <1>2, <1>3

\* No setup is under way, so that the files have the key of the vault.
LEMMA OpenDbSameKey ==
  ASSUME Inv, CacheInv, NEW c \in Callers, OpenDb(c)
  PROVE  CacheInv'
<1>1. /\ UNCHANGED <<found, auths, used, mk, overlapped>> /\ pc[c] = "open" /\ Unlocking
      /\ mk # NoKey
  BY DEF OpenDb, bounds, history, Unlocking, Inv, Stage
<1>2. PICK label \in {"rebuild", "start"} : pc' = [pc EXCEPT ![c] = label]
  BY DEF OpenDb, Goto
<1>3. ASSUME NEW q \in Callers PROVE pc'[q] = IF q = c THEN label ELSE pc[q]
  BY <1>2 DEF Inv, TypeOK
<1>4. OneVault'
  BY <1>1, <1>3 DEF CacheInv, OneVault
<1>5. ASSUME ~overlapped PROVE SameKey'
  <2>1. SameKey /\ ~SettingUp
    BY <1>1, <1>5 DEF CacheInv, SameKey
  <2>2. ~SettingUp'
    BY <1>3, <2>1 DEF SettingUp
  <2>3. CASE db # NoKey
    BY <1>1, <2>1, <2>2, <2>3 DEF OpenDb, SameKey
  <2>4. CASE db = NoKey
    <3>1. db' = mk /\ file' = IF file = NoKey THEN mk ELSE file
      BY <2>4 DEF OpenDb
    <3> QED BY <1>1, <2>1, <2>2, <3>1 DEF SameKey
  <2> QED BY <2>3, <2>4
<1> QED BY <1>1, <1>4, <1>5 DEF CacheInv

\* A setup needs a store without auths and a vault without a key.
LEMMA SetupSameKey ==
  ASSUME Inv, CacheInv, NEW c \in Callers, Setup(c)
  PROVE  CacheInv'
<1>1. UNCHANGED <<found, file, mk, db, overlapped>> /\ pc[c] = "setup"
  BY DEF Setup, memory, history
<1>2. CASE NewVault /\ Goto(c, "nukeold")
  <2>1. PICK k \in Keys \ used : auths' = {k} /\ used' = used \cup {k}
    BY <1>2 DEF NewVault
  <2>2. mk = NoKey
    BY <1>2 DEF NewVault
  <2>3. ASSUME NEW q \in Callers PROVE pc'[q] = IF q = c THEN "nukeold" ELSE pc[q]
    BY <1>2 DEF Goto, Inv, TypeOK
  <2>4. OneVault'
    BY <1>1, <2>1, <2>3 DEF CacheInv, OneVault
  <2>5. \A q \in Callers : pc'[q] = "key" => found'[q] \notin auths'
    BY <1>1, <2>1, <2>3 DEF CacheInv, OneVault
  <2>6. SettingUp'
    BY <2>3 DEF SettingUp
  <2>7. ~Unlocking'
    BY <2>2, <2>3 DEF Unlocking, Inv, Stage
  <2>8. ~overlapped' => SameKey'
    BY <1>1, <2>2, <2>5, <2>6, <2>7 DEF CacheInv, SameKey
  <2> QED BY <2>4, <2>8 DEF CacheInv
<1>3. CASE Return(c) /\ UNCHANGED <<auths, used>>
  <2>1. ASSUME NEW q \in Callers PROVE pc'[q] = IF q = c THEN "idle" ELSE pc[q]
    BY <1>3 DEF Return, Goto, Inv, TypeOK
  <2>2. (SettingUp' <=> SettingUp) /\ (Unlocking' => Unlocking)
    BY <1>1, <2>1 DEF SettingUp, Unlocking
  <2> QED BY <1>1, <1>3, <2>1, <2>2, OtherStep
<1> QED BY <1>2, <1>3 DEF Setup

\* A clone needs the same, and finds no files, or overlapped is set.
LEMMA CloneSameKey ==
  ASSUME Inv, CacheInv, NEW c \in Callers, AuthVault(c)
  PROVE  CacheInv'
<1>1. UNCHANGED <<found, file, mk, db>> /\ pc[c] = "clone"
  BY DEF AuthVault, memory, history
<1>2. ASSUME NEW q \in Callers PROVE pc'[q] = IF q = c THEN "idle" ELSE pc[q]
  BY DEF AuthVault, Return, Goto, Inv, TypeOK
<1>3. (SettingUp' <=> SettingUp) /\ (Unlocking' => Unlocking)
  BY <1>1, <1>2 DEF SettingUp, Unlocking
<1>4. CASE UNCHANGED <<auths, used, overlapped>>
  BY <1>1, <1>2, <1>3, <1>4, OtherStep
<1>5. CASE NewVault /\ overlapped' = (overlapped \/ file # NoKey)
  <2>1. PICK k \in Keys \ used : auths' = {k} /\ used' = used \cup {k}
    BY <1>5 DEF NewVault
  <2>2. mk = NoKey
    BY <1>5 DEF NewVault
  <2>3. OneVault'
    BY <1>1, <1>2, <2>1 DEF CacheInv, OneVault
  <2>4. \A q \in Callers : pc'[q] = "key" => found'[q] \notin auths'
    BY <1>1, <1>2, <2>1 DEF CacheInv, OneVault
  <2>5. ~overlapped' => SameKey'
    BY <1>1, <1>3, <1>5, <2>2, <2>4 DEF CacheInv, SameKey
  <2> QED BY <2>3, <2>5 DEF CacheInv
<1> QED BY <1>4, <1>5 DEF AuthVault

\* The store of the vault is emptied, then the files of its cache are removed.
LEMMA ResetSameKey ==
  ASSUME Inv, CacheInv, NEW c \in Callers, EmptyStore(c) \/ RemoveFiles(c)
  PROVE  CacheInv'
<1>1. UNCHANGED <<found, mk, db, overlapped, used>>
      /\ auths' \in {auths, {}} /\ file' \in {file, NoKey}
  BY DEF EmptyStore, RemoveFiles, FilesLeft, memory, history, bounds
<1>2. PICK label \in {"idle", "nuke"} : pc' = [pc EXCEPT ![c] = label]
  BY DEF EmptyStore, RemoveFiles, Goto, Return
<1>3. ASSUME NEW q \in Callers PROVE pc'[q] = IF q = c THEN label ELSE pc[q]
  BY <1>2 DEF Inv, TypeOK
<1>4. Unlocking' => Unlocking
  BY <1>3 DEF Unlocking
<1>5. (SettingUp' => SettingUp) /\ (SettingUp => SettingUp' \/ file' = NoKey)
  <2>1. EmptyStore(c) => pc[c] # "nukeold"
    BY DEF EmptyStore
  <2>2. RemoveFiles(c) => file' = NoKey
    BY DEF RemoveFiles, FilesLeft
  <2> QED BY <1>3, <2>1, <2>2 DEF SettingUp
<1>6. OneVault'
  BY <1>1, <1>3 DEF CacheInv, OneVault
<1>7. ~overlapped' => SameKey'
  BY <1>1, <1>3, <1>4, <1>5 DEF CacheInv, SameKey
<1> QED BY <1>6, <1>7 DEF CacheInv

\* A password change sets the key of the vault.
LEMMA ChangePasswordSameKey ==
  ASSUME Inv, CacheInv, NEW c \in Callers, ChangePassword(c)
  PROVE  CacheInv'
<1>1. UNCHANGED <<found, auths, file, used, db, overlapped>> /\ pc[c] = "change"
      /\ mk' \in {mk} \cup auths
  BY DEF ChangePassword, disk, bounds
<1>2. ASSUME NEW q \in Callers PROVE pc'[q] = IF q = c THEN "idle" ELSE pc[q]
  BY DEF ChangePassword, Return, Goto, Inv, TypeOK
<1>3. (SettingUp' <=> SettingUp) /\ (Unlocking' => Unlocking)
  BY <1>1, <1>2 DEF SettingUp, Unlocking
<1>4. CASE mk' = mk
  BY <1>1, <1>2, <1>3, <1>4, OtherStep
<1>5. CASE mk' \in auths
  <2>1. OneVault'
    BY <1>1, <1>2 DEF CacheInv, OneVault
  <2>2. ASSUME ~overlapped PROVE SameKey'
    <3>1. SameKey /\ OneVault
      BY <2>2 DEF CacheInv
    <3>2. ~SettingUp /\ file # NoKey => file = mk'
      BY <1>5, <3>1 DEF SameKey, OneVault
    <3> QED BY <1>1, <1>2, <1>3, <1>5, <3>1, <3>2 DEF SameKey
  <2> QED BY <1>1, <2>1, <2>2 DEF CacheInv
<1> QED BY <1>1, <1>4, <1>5

LEMMA CallSameKey ==
  ASSUME Inv, CacheInv, NEW c \in Callers, NEW rpc \in RPCs, Call(c, rpc)
  PROVE  CacheInv'
<1>1. UNCHANGED <<found, auths, file, used, mk, db, overlapped>> /\ pc[c] = "idle"
  BY DEF Call, memory, disk, history
<1>2. rpc \notin {"key", "token", "open", "rebuild", "start", "nukeold"}
  BY DEF RPCs, AllowList
<1>3. ASSUME NEW q \in Callers PROVE pc'[q] = IF q = c THEN rpc ELSE pc[q]
  BY DEF Call, Goto, Inv, TypeOK
<1>4. (SettingUp' <=> SettingUp) /\ (Unlocking' => Unlocking)
  BY <1>1, <1>2, <1>3 DEF SettingUp, Unlocking
<1> QED BY <1>1, <1>2, <1>3, <1>4, OtherStep

\* The loops and the other goroutines.
LEMMA BackgroundSameKey ==
  ASSUME Inv, CacheInv, UNCHANGED <<pc, found, memory, disk, history, bounds>>
  PROVE  CacheInv'
<1>1. UNCHANGED <<found, auths, file, used, mk, db, overlapped, pc>>
  BY DEF memory, disk, history, bounds
<1>2. (SettingUp' <=> SettingUp) /\ (Unlocking' => Unlocking)
  BY <1>1 DEF SettingUp, Unlocking
<1> QED BY <1>1, <1>2, OtherStep

LEMMA RestartSameKey ==
  ASSUME Inv, CacheInv, Restart
  PROVE  CacheInv'
<1>1. /\ UNCHANGED <<auths, file, used>> /\ mk' = NoKey /\ db' = NoKey
      /\ overlapped' = (overlapped \/ SettingUp)
      /\ \A q \in Callers : pc'[q] = "idle"
  BY DEF Restart, disk
<1>2. ~SettingUp'
  BY <1>1 DEF SettingUp
<1>3. OneVault'
  BY <1>1 DEF CacheInv, OneVault
<1>4. ~overlapped' => SameKey'
  BY <1>1, <1>2 DEF CacheInv, SameKey
<1> QED BY <1>3, <1>4 DEF CacheInv

LEMMA CacheInductive == Inv /\ CacheInv /\ [Next]_vars => CacheInv'
<1> SUFFICES ASSUME Inv, CacheInv, [Next]_vars PROVE CacheInv'
  OBVIOUS
<1>1. ASSUME NEW c \in Callers, Step(c) PROVE CacheInv'
  BY <1>1, QuietStep, UnlockSameKey, SetMasterKeySameKey, OpenDbSameKey, SetupSameKey,
     CloneSameKey, ResetSameKey, ChangePasswordSameKey DEF Step
<1>2. ASSUME NEW c \in Callers, Fail(c) PROVE CacheInv'
  BY <1>2, QuietStep
<1>3. ASSUME NEW c \in Callers, NEW rpc \in RPCs, Call(c, rpc) PROVE CacheInv'
  BY <1>3, CallSameKey
<1>4. ASSUME NEW l \in Loops, TryCheck(l) \/ Synced(l) \/ CheckKeys(l) \/ EndLoop(l)
      PROVE  CacheInv'
  BY <1>4, BackgroundSameKey DEF TryCheck, Synced, CheckKeys, EndLoop
<1>5. ASSUME NEW w \in Loops \cup Timers, NEW what \in {"remote", "db"},
             Look(w, what) \/ Use(w)
      PROVE  CacheInv'
  BY <1>5, BackgroundSameKey DEF Look, Use
<1>6. ASSUME NEW w \in Loops \cup Timers, Panic(w) PROVE CacheInv'
  BY <1>6, RestartSameKey DEF Panic
<1>7. ASSUME Crash PROVE CacheInv'
  BY <1>7, RestartSameKey DEF Crash
<1>8. ASSUME UNCHANGED vars PROVE CacheInv'
  BY <1>8, BackgroundSameKey DEF vars
<1> QED BY <1>1, <1>2, <1>3, <1>4, <1>5, <1>6, <1>7, <1>8 DEF Next

\* The open cache has the key of its files, unless a setup or a reset was overtaken
\* or stopped, or a clone found files.
THEOREM CachesReadable == Spec => []CacheReadable
<1>1. CacheInv => CacheReadable
  BY DEF CacheInv, SameKey, CacheReadable
<1> QED BY <1>1, Initially, Inductive, CacheInitially, CacheInductive, PTL DEF Spec
=============================================================================
