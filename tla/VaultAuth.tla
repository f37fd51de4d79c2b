----------------------------- MODULE VaultAuth -----------------------------
(***************************************************************************)
(* Who can open a vault: auth documents and provisions (vault/auth.go,     *)
(* vault/provision.go), and the RPCs that make and remove them             *)
(* (service/auth_pw.go, auth_fido2.go, auth_rpc.go).                       *)
(*                                                                         *)
(* An auth document is the master key encrypted with a key; the key comes  *)
(* from a password and the salt, or from a FIDO2 credential.  A provision  *)
(* describes an auth, has its id, and is what a user sees.  RPCs run in    *)
(* goroutines of their own and take no lock, but for unlock; every step is *)
(* one access of the store.                                                *)
(***************************************************************************)
EXTENDS Integers, FiniteSets

CONSTANTS
  Callers,    \* clients of the RPC interface, one call of each at a time
  Passwords,
  PwIds,      \* ids of password provisions, random
  Creds,      \* ids of FIDO2 credentials, which are ids of their provisions
  Salts,
  MasterKeys,
  None,       \* no id, salt, password or master key
  MaxCalls,   \* bound: RPCs begun
  MaxCrashes  \* bound: crashes of the process

Ids == PwIds \cup Creds

ASSUME IdsAssumption == PwIds \cap Creds = {} /\ Passwords \cap Ids = {}
ASSUME NoneAssumption ==
  None \notin Ids \cup Passwords \cup Salts \cup MasterKeys \cup Callers
ASSUME BoundsAssumption == MaxCalls \in Nat /\ MaxCrashes \in Nat

\* The key a password or a credential gives
Key == [secret : Passwords \cup Creds, salt : Salts \cup {None}]
Auth == [id : Ids, key : Key, mk : MasterKeys]

VARIABLES
  auths,     \* the documents below /auth
  provs,     \* the ids of the documents below /provision
  salt,      \* /config/salt
  mk,        \* the vault's master key in memory
  mutex,     \* holder of the service's unlockMtx
  pc,        \* next step of each caller's RPC
  rpc,       \* what it calls
  secret,    \* password, or credential, it uses
  mysalt,    \* the salt it has read or made
  id,        \* the id it adds, or removes
  old,       \* the new password, then the id of the old one, of a change
  vaultKey,  \* history: the master key items were first encrypted with
  working,   \* history: passwords, with their ids, that were said to be set
  race,      \* history: setups and salts that overtook each other
  careless,  \* history: removals that counted on what was not there to stay
  used, calls, crashes   \* ids, salts and master keys; calls; crashes

store == <<auths, provs, salt>>
locals == <<rpc, secret, mysalt, id, old>>
history == <<vaultKey, working, race, careless>>
bounds == <<used, calls, crashes>>
vars == <<store, mk, mutex, pc, locals, history, bounds>>

Init ==
  /\ auths = {} /\ provs = {} /\ salt = None
  /\ mk = None /\ mutex = None
  /\ pc = [c \in Callers |-> "idle"]
  /\ rpc = [c \in Callers |-> "none"]
  /\ secret = [c \in Callers |-> None]
  /\ mysalt = [c \in Callers |-> None]
  /\ id = [c \in Callers |-> None]
  /\ old = [c \in Callers |-> None]
  /\ vaultKey = None /\ working = {} /\ race = FALSE /\ careless = FALSE
  /\ used = {} /\ calls = 0 /\ crashes = 0

Goto(c, label) == pc' = [pc EXCEPT ![c] = label]

\* A handler returns; unlock gives its mutex back.
Return(c) ==
  /\ Goto(c, "idle")
  /\ mutex' = IF mutex = c THEN None ELSE mutex

\* Mutant: a vault without provisions counts as new.
NoProvisions == mk = None /\ provs = {}

SetupNeeded == mk = None /\ auths = {}
MyKey(c) == [secret |-> secret[c], salt |-> mysalt[c]]
Opened(c) == {a \in auths : a.key = MyKey(c)}
HasAuth(i) == \E a \in auths : a.id = i

-----------------------------------------------------------------------------
(* Calls *)

Begin(c, name, s, i, o, label) ==
  /\ pc[c] = "idle"
  /\ calls < MaxCalls
  /\ calls' = calls + 1
  /\ rpc' = [rpc EXCEPT ![c] = name]
  /\ secret' = [secret EXCEPT ![c] = s]
  /\ mysalt' = [mysalt EXCEPT ![c] = None]
  /\ id' = [id EXCEPT ![c] = i]
  /\ old' = [old EXCEPT ![c] = o]
  /\ Goto(c, label)
  /\ UNCHANGED <<store, mk, mutex, history, used, crashes>>

\* All but setup and unlock take a token, which only an unlocked service has
\* (ServiceLock).
CallSetup(c, p) == SetupNeeded /\ Begin(c, "setup", p, None, None, "salt")
CallUnlock(c, p) == Begin(c, "unlock", p, None, None, "lock")
CallProvision(c, p) ==
  mk # None /\ Begin(c, "provision", p, None, None, "salt")
CallChange(c, p, new) ==
  mk # None /\ p # new /\ Begin(c, "change", p, None, new, "salt")
CallDeprovision(c) ==
  mk # None /\ \E i \in provs : Begin(c, "deprovision", None, i, None, "guard")
\* A credential is made on a device, in setup or to provision it later.
CallGenerate(c, k) ==
  /\ k \notin used
  /\ SetupNeeded \/ mk # None
  /\ Begin(c, "generate", k, k, None, "generate")
CallUnlockHMAC(c) == Begin(c, "unlockhmac", None, None, None, "lock")
CallProvisionHMAC(c) ==
  mk # None /\ Begin(c, "provisionhmac", None, None, None, "hmac")

Call(c) ==
  \/ \E p \in Passwords :
       \/ CallSetup(c, p) \/ CallUnlock(c, p) \/ CallProvision(c, p)
       \/ \E new \in Passwords : CallChange(c, p, new)
  \/ \E k \in Creds : CallGenerate(c, k)
  \/ CallDeprovision(c) \/ CallUnlockHMAC(c) \/ CallProvisionHMAC(c)

-----------------------------------------------------------------------------
(* Keys *)

Lock(c) ==
  /\ pc[c] = "lock"
  /\ mutex = None
  /\ mutex' = c
  /\ Goto(c, IF rpc[c] = "unlock" THEN "salt" ELSE "hmac")
  /\ UNCHANGED <<store, mk, locals, history, bounds>>

\* The device has one of the listed credentials, or none.
HMACSecret(c) ==
  /\ pc[c] = "hmac"
  /\ \/ \E k \in provs \cap Creds :
          /\ secret' = [secret EXCEPT ![c] = k]
          /\ id' = [id EXCEPT ![c] = k]
          /\ Goto(c, IF rpc[c] = "unlockhmac" THEN "status" ELSE "provision")
          /\ UNCHANGED mutex
     \/ Return(c) /\ UNCHANGED <<secret, id>>
  /\ UNCHANGED <<store, mk, rpc, mysalt, old, history, bounds>>

AfterSalt(c) ==
  CASE rpc[c] = "setup" -> "setup"
    [] rpc[c] = "provision" -> "provision"
    [] rpc[c] = "change" /\ old[c] \in Ids -> "provision"
    [] OTHER -> "unlock"

\* Salt reads /config/salt and makes one when there is none.
Salt(c) ==
  /\ pc[c] = "salt"
  /\ IF salt # None
       THEN /\ mysalt' = [mysalt EXCEPT ![c] = salt]
            /\ Goto(c, AfterSalt(c))
            /\ UNCHANGED used
       ELSE \E s \in Salts \ used :
              /\ mysalt' = [mysalt EXCEPT ![c] = s]
              /\ used' = used \cup {s}
              /\ Goto(c, "setsalt")
  /\ UNCHANGED <<store, mk, mutex, rpc, secret, id, old, history, calls,
                 crashes>>

\* Mutant: the salt is not saved.
Forgotten(c) == salt

Saved(c) == mysalt[c]

SetSalt(c) ==
  /\ pc[c] = "setsalt"
  /\ salt' = Saved(c)
  /\ race' = (race \/ salt # None)
  /\ Goto(c, AfterSalt(c))
  /\ UNCHANGED <<auths, provs, mk, mutex, locals, vaultKey, working, careless,
                 bounds>>

-----------------------------------------------------------------------------
(* Setup and Unlock *)

\* Mutant: no id is made.
NoNewId(c) == {id[c]}

\* A fresh id for a password's provision; a credential's is given.
NewId(c) == IF id[c] \in Creds THEN {id[c]} ELSE PwIds \ used

Setup(c) ==
  /\ pc[c] = "setup"
  /\ IF SetupNeeded
       THEN \E i \in NewId(c) :
              /\ id' = [id EXCEPT ![c] = i]
              /\ used' = used \cup {i}
              /\ Goto(c, "newauth")
              /\ UNCHANGED mutex
       ELSE Return(c) /\ UNCHANGED <<id, used>>
  /\ UNCHANGED <<store, mk, rpc, secret, mysalt, old, history, calls, crashes>>

\* authCreate replaces a document of the same id.
WithAuth(i, key, m) ==
  {a \in auths : a.id # i} \cup {[id |-> i, key |-> key, mk |-> m]}

\* authSetup, with a master key that is made here
NewAuth(c) ==
  /\ pc[c] = "newauth"
  /\ \E m \in MasterKeys \ used :
       /\ auths' = WithAuth(id[c], MyKey(c), m)
       /\ used' = used \cup {m}
  /\ race' = (race \/ ~SetupNeeded)
  /\ Goto(c, "newprov")
  /\ UNCHANGED <<provs, salt, mk, mutex, locals, vaultKey, working, careless,
                 calls, crashes>>

\* The first unlock with a credential sets the vault up.
Status(c) ==
  /\ pc[c] = "status"
  /\ Goto(c, IF SetupNeeded THEN "setup" ELSE "unlock")
  /\ UNCHANGED <<store, mk, mutex, locals, history, bounds>>

\* The remote of a vault that is unlocked must fit the master key.
Unlock(c) ==
  /\ pc[c] = "unlock"
  /\ \/ \E a \in Opened(c) :
          /\ mk \in {None, a.mk}
          /\ mk' = a.mk
          /\ vaultKey' = IF vaultKey = None THEN a.mk ELSE vaultKey
          /\ IF rpc[c] = "change"
               THEN /\ secret' = [secret EXCEPT ![c] = old[c]]
                    /\ old' = [old EXCEPT ![c] = a.id]
                    /\ Goto(c, "salt")
                    /\ UNCHANGED mutex
               ELSE Return(c) /\ UNCHANGED <<secret, old>>
     \/ /\ \A a \in Opened(c) : mk \notin {None, a.mk}
        /\ Return(c)
        /\ UNCHANGED <<mk, vaultKey, secret, old>>
  /\ UNCHANGED <<store, rpc, mysalt, id, working, race, careless, bounds>>

AuthLock ==
  /\ mk # None
  /\ mutex = None
  /\ mk' = None
  /\ UNCHANGED <<store, mutex, pc, locals, history, bounds>>

-----------------------------------------------------------------------------
(* Provision *)

Provision(c) ==
  /\ pc[c] = "provision"
  /\ IF mk # None
       THEN /\ \E i \in NewId(c) :
                 /\ id' = [id EXCEPT ![c] = i]
                 /\ used' = used \cup {i}
                 /\ auths' = WithAuth(i, MyKey(c), mk)
            /\ Goto(c, "newprov")
            /\ UNCHANGED mutex
       ELSE Return(c) /\ UNCHANGED <<id, used, auths>>
  /\ UNCHANGED <<provs, salt, mk, rpc, secret, mysalt, old, history, calls,
                 crashes>>

\* provisionSave after authCreate; then a first unlock goes on, a change
\* removes the old password, and the others are done.
NewProv(c) ==
  /\ pc[c] = "newprov"
  /\ provs' = provs \cup {id[c]}
  /\ working' = IF secret[c] \in Passwords
                  THEN working \cup {<<secret[c], id[c]>>} ELSE working
  /\ CASE rpc[c] = "unlockhmac" -> Goto(c, "unlock") /\ UNCHANGED <<mutex, id>>
       [] rpc[c] = "change" ->
            /\ id' = [id EXCEPT ![c] = old[c]]
            /\ Goto(c, "guard")
            /\ UNCHANGED mutex
       [] OTHER -> Return(c) /\ UNCHANGED id
  /\ UNCHANGED <<auths, salt, mk, rpc, secret, mysalt, old, vaultKey, race,
                 careless, bounds>>

\* ProvisionSave before there is an auth
Generate(c) ==
  /\ pc[c] = "generate"
  /\ provs' = provs \cup {id[c]}
  /\ used' = used \cup {id[c]}
  /\ Return(c)
  /\ UNCHANGED <<auths, salt, mk, locals, history, calls, crashes>>

-----------------------------------------------------------------------------
(* Deprovision *)

\* Mutant: the last provision may go.
NeverLast(c) == FALSE

\* The guard counts provisions.
IsLast(c) == provs = {id[c]}

\* Another removal, or the end of a call that has added this very auth
Overlaps(d, i) ==
  pc[d] \in {"delprov", "delauth"} \/ (pc[d] = "newprov" /\ id[d] = i)

\* Mutant: the other way round.
AuthFirst == <<"delauth", "delprov">>

\* The provision goes before the auth.
Removal == <<"delprov", "delauth">>

GoOn(c) ==
  IF pc[c] = Removal[1] THEN Goto(c, Removal[2]) /\ UNCHANGED mutex
                        ELSE Return(c)

Guard(c) ==
  /\ pc[c] = "guard"
  /\ IF IsLast(c)
       THEN Return(c) /\ UNCHANGED <<working, careless>>
       ELSE /\ Goto(c, Removal[1])
            /\ working' = {w \in working : w[2] # id[c]}
            /\ careless' = (careless \/ (\E d \in Callers : Overlaps(d, id[c]))
                              \/ \E i \in provs : ~HasAuth(i))
            /\ UNCHANGED mutex
  /\ UNCHANGED <<store, mk, locals, vaultKey, race, bounds>>

DeleteProvision(c) ==
  /\ pc[c] = "delprov"
  /\ provs' = provs \ {id[c]}
  /\ GoOn(c)
  /\ UNCHANGED <<auths, salt, mk, locals, history, bounds>>

DeleteAuth(c) ==
  /\ pc[c] = "delauth"
  /\ auths' = {a \in auths : a.id # id[c]}
  /\ GoOn(c)
  /\ UNCHANGED <<provs, salt, mk, locals, history, bounds>>

-----------------------------------------------------------------------------
\* The process ends between two accesses of the store, and starts again.
Crash ==
  /\ crashes < MaxCrashes
  /\ crashes' = crashes + 1
  /\ mk' = None /\ mutex' = None
  /\ pc' = [c \in Callers |-> "idle"]
  /\ UNCHANGED <<store, locals, history, used, calls>>

Step(c) ==
  \/ Lock(c) \/ HMACSecret(c) \/ Salt(c) \/ SetSalt(c)
  \/ Setup(c) \/ NewAuth(c) \/ Status(c) \/ Unlock(c)
  \/ Provision(c) \/ NewProv(c) \/ Generate(c)
  \/ Guard(c) \/ DeleteProvision(c) \/ DeleteAuth(c)

Next ==
  \/ \E c \in Callers : Step(c) \/ Call(c)
  \/ AuthLock
  \/ Crash

Spec == Init /\ [][Next]_vars

-----------------------------------------------------------------------------
(* Properties *)

Labels == {"idle", "lock", "hmac", "salt", "setsalt", "setup", "newauth", "status",
           "unlock", "provision", "newprov", "generate", "guard", "delprov",
           "delauth"}
Calls == {"none", "setup", "unlock", "provision", "change", "deprovision",
          "generate", "unlockhmac", "provisionhmac"}

TypeOK ==
  /\ auths \subseteq Auth /\ provs \subseteq Ids
  /\ salt \in Salts \cup {None} /\ {mk, vaultKey} \subseteq MasterKeys \cup {None}
  /\ mutex \in Callers \cup {None}
  /\ pc \in [Callers -> Labels] /\ rpc \in [Callers -> Calls]
  /\ secret \in [Callers -> Passwords \cup Creds \cup {None}]
  /\ mysalt \in [Callers -> Salts \cup {None}]
  /\ id \in [Callers -> Ids \cup {None}]
  /\ old \in [Callers -> Passwords \cup Ids \cup {None}]
  /\ working \subseteq Passwords \X Ids
  /\ {race, careless} \subseteq BOOLEAN
  /\ used \subseteq Ids \cup Salts \cup MasterKeys
  /\ calls \in 0..MaxCalls /\ crashes \in 0..MaxCrashes

\* Every auth opens the same vault, and it is the one that is unlocked: no
\* provision, first unlock or crash brings a second master key, unless two
\* setups were under way at once (auth.go:86 looks, auth.go:96 writes).
OneMasterKey ==
  ~race => \A a \in auths : (\A b \in auths : a.mk = b.mk) /\ mk \in {None, a.mk}

\* A password whose setup, provision or change went through opens the vault
\* until its removal begins, whatever happens to others and through crashes,
\* unless two calls made a salt at once (auth.go:26), or it was removed before
\* the call that added it was through.
PasswordsWork ==
  ~race /\ ~careless => \A w \in working : \E a \in auths :
             a.id = w[2] /\ a.key = [secret |-> w[1], salt |-> salt]

\* A listed password opens the vault: the auth comes before its provision and
\* goes after it, so that a crash in between leaves too much and never a
\* listed password without its auth, unless calls overlap on it.
ListedWorks ==
  ~careless => \A i \in provs \cap PwIds : HasAuth(i)

\* Once items are encrypted there is an auth for their key, unless removals
\* overlap or the guard takes a credential for an auth it is not yet.
NotLockedOut ==
  ~race /\ ~careless /\ vaultKey # None => \E a \in auths : a.mk = vaultKey

\* Violated.  The last auth cannot be removed (provision.go:86).
LastAuthStays == ~race /\ vaultKey # None => auths # {}

=============================================================================
