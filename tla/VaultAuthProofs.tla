-------------------------- MODULE VaultAuthProofs --------------------------
(***************************************************************************)
(* Why the RPCs that make and remove auths, which take no lock, leave one  *)
(* master key and the passwords they were told to: for any number of them. *)
(***************************************************************************)
EXTENDS VaultAuth, TLAPS

\* RPCs that are given a password
PasswordRPCs == {"setup", "unlock", "provision", "change"}

\* What each RPC has where it stands.
Kinds(c) ==
  /\ pc[c] = "lock" => rpc[c] \in {"unlock", "unlockhmac"}
  /\ pc[c] \in {"hmac", "status"} => rpc[c] \in {"unlockhmac", "provisionhmac"}
  /\ pc[c] \in {"salt", "setsalt"} => rpc[c] \in PasswordRPCs
  /\ pc[c] = "generate" => id[c] \in Creds
  /\ pc[c] \in {"newauth", "newprov"} => id[c] \in Ids
  /\ pc[c] \in {"status", "setup", "newauth", "provision", "newprov", "unlock"} =>
       secret[c] # None
  /\ rpc[c] \notin PasswordRPCs => secret[c] \notin Passwords
  /\ rpc[c] \in PasswordRPCs /\ pc[c] \notin {"idle", "guard", "delprov", "delauth"} =>
       id[c] \notin Creds /\ secret[c] \in Passwords
  /\ rpc[c] = "change" =>
       /\ pc[c] \in {"salt", "setsalt", "unlock"} => old[c] # None
       /\ pc[c] = "unlock" => old[c] \in Passwords
       /\ pc[c] \in {"provision", "newprov"} => old[c] \in Ids
       /\ pc[c] \notin {"setup", "newauth"}

\* A password's key is made with the salt that is stored.
Salted(c) ==
  /\ pc[c] = "setsalt" => mysalt[c] # None
  /\ ~race /\ pc[c] \in {"setup", "newauth", "provision", "newprov", "unlock"}
       /\ secret[c] \in Passwords => mysalt[c] = salt /\ salt # None

\* Password ids that are in use count as used, so that new ids are new.
IdsUsed ==
  /\ provs \cap PwIds \subseteq used
  /\ \A a \in auths : a.id \in PwIds => a.id \in used
  /\ \A w \in working : w[2] \in PwIds /\ w[2] \in used
  /\ \A c \in Callers : {id[c], old[c]} \cap PwIds \subseteq used

\* The id of a setup is nobody else's before there is an auth.
Fresh(c) ==
  pc[c] = "newauth" /\ id[c] \in PwIds =>
    /\ id[c] \notin provs /\ ~HasAuth(id[c])
    /\ \A w \in working : w[2] # id[c]
    /\ \A d \in Callers : old[d] # id[c] /\ (d # c => id[d] # id[c])

\* The auth is there before its provision.
Prepared(c) ==
  pc[c] = "newprov" /\ id[c] \in PwIds =>
    \E a \in auths : a.id = id[c] /\ a.key = MyKey(c)

Places ==
  /\ IdsUsed
  /\ \A c \in Callers : Kinds(c) /\ Salted(c) /\ Fresh(c)

Removing(c) == pc[c] \in {"delprov", "delauth"}

\* Nobody is about to list what is being removed, and another auth stays.
Alone(c) ==
  Removing(c) =>
    /\ \A d \in Callers : Removing(d) => d = c
    /\ \E j \in provs : j # id[c] /\ HasAuth(j)
    /\ \A d \in Callers : pc[d] = "newprov" /\ id[d] \in PwIds => id[d] # id[c]
    /\ pc[c] = "delauth" /\ id[c] \in PwIds => id[c] \notin provs
    /\ \A w \in working : w[2] # id[c]

Removals ==
  ~careless =>
    /\ \A i \in provs \cap PwIds : HasAuth(i)
    /\ \A c \in Callers :
         Prepared(c) /\ Alone(c) /\ (pc[c] = "guard" => provs # {})

\* All auths are for one master key; the one of the items, once there are some.
OneKey == \A a \in auths : (\A b \in auths : a.mk = b.mk) /\ mk \in {None, a.mk}

ItemsKey ==
  /\ auths # {}
  /\ mk \in {None, vaultKey}
  /\ \A a \in auths : a.mk = vaultKey

Opens(w) == \E a \in auths : a.id = w[2] /\ a.key = [secret |-> w[1], salt |-> salt]

MasterKey ==
  ~race =>
    /\ OneKey
    /\ working # {} => salt # None
    /\ ~careless => /\ vaultKey # None => ItemsKey
                    /\ \A w \in working : Opens(w)

Inv == TypeOK /\ Places /\ Removals /\ MasterKey

-----------------------------------------------------------------------------
\* An empty store breaks nothing.
LEMMA Initially == Init => Inv
<1> SUFFICES ASSUME Init PROVE Inv
  OBVIOUS
<1>1. TypeOK
  <2>1. pc \in [Callers -> Labels] /\ rpc \in [Callers -> Calls]
    BY DEF Init, Labels, Calls
  <2>2. calls \in 0..MaxCalls /\ crashes \in 0..MaxCrashes
    BY BoundsAssumption DEF Init
  <2>3. auths \subseteq Auth /\ provs \subseteq Ids /\ working \subseteq Passwords \X Ids
        /\ used \subseteq Ids \cup Salts \cup MasterKeys
    BY DEF Init
  <2>4. {mk, vaultKey} \subseteq MasterKeys \cup {None} /\ {race, careless} \subseteq BOOLEAN
    BY DEF Init
  <2> QED BY <2>1, <2>2, <2>3, <2>4 DEF Init, TypeOK
<1>2. Places
  BY NoneAssumption DEF Init, Places, IdsUsed, Kinds, Salted, Fresh, PasswordRPCs, Ids
<1>3. Removals /\ MasterKey
  BY DEF Init, Removals, Prepared, Alone, Removing, MasterKey, OneKey
<1> QED BY <1>1, <1>2, <1>3 DEF Inv

\* An auth that is added, or replaces one of the same id
Added(i, k, m) ==
  /\ \E a \in auths' : a.id = i /\ a.key = k /\ a.mk = m
  /\ \A a \in auths : a.id # i => a \in auths'
  /\ \A a \in auths' : a \in auths \/ a = [id |-> i, key |-> k, mk |-> m]
  /\ \A a \in auths' : a \in auths \/ a.mk = m
  /\ \A j : HasAuth(j) \/ j = i => HasAuth(j)'

\* What setAuth leaves is what it found, with one document written.
LEMMA WithAuthHas ==
  ASSUME NEW i, NEW k, NEW m, auths' = WithAuth(i, k, m)
  PROVE  Added(i, k, m)
<1>1. [id |-> i, key |-> k, mk |-> m] \in auths'
  BY DEF WithAuth
<1>2. \A a \in auths : a.id # i => a \in auths'
  BY DEF WithAuth
<1>3. \A a \in auths' : a \in auths \/ a = [id |-> i, key |-> k, mk |-> m]
  BY DEF WithAuth
<1>4. \E a \in auths' : a.id = i /\ a.key = k /\ a.mk = m
  BY <1>1
<1>5. \A a \in auths' : a \in auths \/ a.mk = m
  BY <1>3
<1>6. ASSUME NEW j, HasAuth(j) \/ j = i PROVE HasAuth(j)'
  BY <1>2, <1>4, <1>6 DEF HasAuth
<1> QED BY <1>2, <1>3, <1>4, <1>5, <1>6 DEF Added

\* A caller with a secret has a key.
LEMMA KeyTypes ==
  ASSUME TypeOK, NEW c \in Callers, secret[c] # None
  PROVE  MyKey(c) \in Key
BY DEF TypeOK, MyKey, Key

\* The mutex is taken.
LEMMA LockKeeps ==
  ASSUME Inv, NEW c \in Callers, Lock(c)
  PROVE  Inv'
<1> USE IdsAssumption, NoneAssumption, BoundsAssumption
    DEF Lock, store, locals, history, bounds, Goto, Return, Ids, PasswordRPCs
<1>1. TypeOK'
  BY DEF Inv, TypeOK, Labels, Calls, Auth, Key
<1>2. IdsUsed'
  BY DEF Inv, TypeOK, Places, IdsUsed
<1>3. ASSUME NEW q \in Callers PROVE Kinds(q)'
  BY <1>3 DEF Inv, TypeOK, Places, IdsUsed, Kinds
<1>4. ASSUME NEW q \in Callers PROVE Salted(q)'
  BY <1>4 DEF Inv, TypeOK, Places, Kinds, Salted
<1>5. ASSUME NEW q \in Callers PROVE Fresh(q)'
  BY <1>5 DEF Inv, TypeOK, Places, IdsUsed, Fresh, Kinds, HasAuth
<1>6. Removals'
  BY DEF Inv, TypeOK, Removals, Prepared, Alone, Removing, HasAuth, MyKey
<1>7. MasterKey'
  BY DEF Inv, MasterKey, OneKey, ItemsKey, Opens
<1> QED BY <1>1, <1>2, <1>3, <1>4, <1>5, <1>6, <1>7 DEF Inv, Places

\* A credential of the list, or none.
LEMMA HMACSecretKeeps ==
  ASSUME Inv, NEW c \in Callers, HMACSecret(c)
  PROVE  Inv'
<1> USE IdsAssumption, NoneAssumption, BoundsAssumption
    DEF HMACSecret, store, locals, history, bounds, Goto, Return, Ids, PasswordRPCs
<1>1. TypeOK'
  BY DEF Inv, TypeOK, Labels, Calls, Auth, Key
<1>2. IdsUsed'
  BY DEF Inv, TypeOK, Places, IdsUsed
<1>3. ASSUME NEW q \in Callers PROVE Kinds(q)'
  BY <1>3 DEF Inv, TypeOK, Places, IdsUsed, Kinds
<1>4. ASSUME NEW q \in Callers PROVE Salted(q)'
  BY <1>4 DEF Inv, TypeOK, Places, Kinds, Salted
<1>5. ASSUME NEW q \in Callers PROVE Fresh(q)'
  BY <1>5 DEF Inv, TypeOK, Places, IdsUsed, Fresh, Kinds, HasAuth
<1>6. Removals'
  BY DEF Inv, TypeOK, Removals, Prepared, Alone, Removing, HasAuth, MyKey
<1>7. MasterKey'
  BY DEF Inv, MasterKey, OneKey, ItemsKey, Opens
<1> QED BY <1>1, <1>2, <1>3, <1>4, <1>5, <1>6, <1>7 DEF Inv, Places

\* A salt is read or made.
LEMMA SaltKeeps ==
  ASSUME Inv, NEW c \in Callers, Salt(c)
  PROVE  Inv'
<1> USE IdsAssumption, NoneAssumption, BoundsAssumption
    DEF Salt, store, locals, history, bounds, Goto, Return, Ids, PasswordRPCs, AfterSalt
<1>1. TypeOK'
  BY DEF Inv, TypeOK, Labels, Calls, Auth, Key
<1>2. IdsUsed'
  BY DEF Inv, TypeOK, Places, IdsUsed
<1>3. ASSUME NEW q \in Callers PROVE Kinds(q)'
  BY <1>3 DEF Inv, TypeOK, Places, IdsUsed, Kinds
<1>4. ASSUME NEW q \in Callers PROVE Salted(q)'
  BY <1>4 DEF Inv, TypeOK, Places, Kinds, Salted
<1>5. ASSUME NEW q \in Callers PROVE Fresh(q)'
  BY <1>5 DEF Inv, TypeOK, Places, IdsUsed, Fresh, Kinds, HasAuth
<1>6. Removals'
  BY DEF Inv, TypeOK, Removals, Prepared, Alone, Removing, HasAuth, MyKey
<1>7. MasterKey'
  BY DEF Inv, MasterKey, OneKey, ItemsKey, Opens
<1> QED BY <1>1, <1>2, <1>3, <1>4, <1>5, <1>6, <1>7 DEF Inv, Places

\* The salt is saved.
LEMMA SetSaltKeeps ==
  ASSUME Inv, NEW c \in Callers, SetSalt(c)
  PROVE  Inv'
<1> USE IdsAssumption, NoneAssumption, BoundsAssumption
    DEF SetSalt, store, locals, history, bounds, Goto, Return, Ids, PasswordRPCs,
        AfterSalt, Saved
<1>1. TypeOK'
  BY DEF Inv, TypeOK, Labels, Calls, Auth, Key
<1>2. IdsUsed'
  BY DEF Inv, TypeOK, Places, IdsUsed
<1>3. ASSUME NEW q \in Callers PROVE Kinds(q)'
  BY <1>3 DEF Inv, TypeOK, Places, IdsUsed, Kinds
<1>4. ASSUME NEW q \in Callers PROVE Salted(q)'
  BY <1>4 DEF Inv, TypeOK, Places, Kinds, Salted
<1>5. ASSUME NEW q \in Callers PROVE Fresh(q)'
  BY <1>5 DEF Inv, TypeOK, Places, IdsUsed, Fresh, Kinds, HasAuth
<1>6. Removals'
  BY DEF Inv, TypeOK, Removals, Prepared, Alone, Removing, HasAuth, MyKey
<1>7. MasterKey'
  BY DEF Inv, MasterKey, OneKey, ItemsKey, Opens
<1> QED BY <1>1, <1>2, <1>3, <1>4, <1>5, <1>6, <1>7 DEF Inv, Places

\* A vault that is new gets an id.
LEMMA SetupKeeps ==
  ASSUME Inv, NEW c \in Callers, Setup(c)
  PROVE  Inv'
<1> USE IdsAssumption, NoneAssumption, BoundsAssumption
    DEF Setup, store, locals, history, bounds, Goto, Return, Ids, PasswordRPCs,
        SetupNeeded, NewId
<1>1. TypeOK'
  BY DEF Inv, TypeOK, Labels, Calls, Auth, Key
<1>2. IdsUsed'
  BY DEF Inv, TypeOK, Places, IdsUsed
<1>3. ASSUME NEW q \in Callers PROVE Kinds(q)'
  BY <1>3 DEF Inv, TypeOK, Places, IdsUsed, Kinds
<1>4. ASSUME NEW q \in Callers PROVE Salted(q)'
  BY <1>4 DEF Inv, TypeOK, Places, Kinds, Salted
<1>5. ASSUME NEW q \in Callers PROVE Fresh(q)'
  BY <1>5 DEF Inv, TypeOK, Places, IdsUsed, Fresh, Kinds, HasAuth
<1>6. Removals'
  BY DEF Inv, TypeOK, Removals, Prepared, Alone, Removing, HasAuth, MyKey
<1>7. MasterKey'
  BY DEF Inv, MasterKey, OneKey, ItemsKey, Opens
<1> QED BY <1>1, <1>2, <1>3, <1>4, <1>5, <1>6, <1>7 DEF Inv, Places

\* The first auth.
LEMMA NewAuthKeeps ==
  ASSUME Inv, NEW c \in Callers, NewAuth(c)
  PROVE  Inv'
<1> USE IdsAssumption, NoneAssumption, BoundsAssumption
    DEF NewAuth, store, locals, history, bounds, Goto, Return, Ids, PasswordRPCs,
        SetupNeeded
<1>1. TypeOK'
  <2>1. MyKey(c) \in Key /\ id[c] \in Ids
    BY KeyTypes DEF Inv, Places, Kinds
  <2>2. auths' \subseteq Auth
    <3>1. PICK m \in MasterKeys : Added(id[c], MyKey(c), m)
      BY WithAuthHas
    <3>2. [id |-> id[c], key |-> MyKey(c), mk |-> m] \in Auth
      BY <2>1 DEF Auth
    <3> QED BY <3>1, <3>2 DEF Added, Inv, TypeOK
  <2>3. used' \subseteq Ids \cup Salts \cup MasterKeys
    BY DEF Inv, TypeOK
  <2> QED BY <2>2, <2>3 DEF Inv, TypeOK, Labels
<1>2. IdsUsed'
  BY DEF Inv, TypeOK, Places, IdsUsed, WithAuth
<1>3. ASSUME NEW q \in Callers PROVE Kinds(q)'
  BY <1>3 DEF Inv, TypeOK, Places, IdsUsed, Kinds
<1>4. ASSUME NEW q \in Callers PROVE Salted(q)'
  BY <1>4 DEF Inv, TypeOK, Places, Kinds, Salted
<1>5. ASSUME NEW q \in Callers PROVE Fresh(q)'
  BY <1>5 DEF Inv, TypeOK, Places, IdsUsed, Fresh, Kinds, HasAuth, WithAuth
<1>6. Removals'
  <2> SUFFICES ASSUME ~careless PROVE Removals'
    BY DEF Removals
  <2>1. PICK m \in MasterKeys : Added(id[c], MyKey(c), m)
    BY WithAuthHas
  <2>2. ASSUME NEW i \in provs' \cap PwIds PROVE HasAuth(i)'
    BY <2>1, <2>2 DEF Added, Inv, Removals
  <2>3. ASSUME NEW q \in Callers PROVE Prepared(q)'
    <3>1. MyKey(q)' = MyKey(q)
      BY DEF MyKey
    <3>2. CASE q = c
      BY <2>1, <3>1, <3>2 DEF Added, Prepared
    <3>3. CASE q # c /\ pc[q] = "newprov" /\ id[q] \in PwIds
      <4>1. PICK a \in auths : a.id = id[q] /\ a.key = MyKey(q)
        BY <3>3 DEF Inv, Removals, Prepared
      <4>2. id[q] # id[c]
        BY <3>3 DEF Inv, Places, Fresh
      <4>3. a \in auths'
        BY <2>1, <4>1, <4>2 DEF Added
      <4> QED BY <3>1, <4>1, <4>3 DEF Prepared
    <3> QED BY <3>2, <3>3 DEF Inv, TypeOK, Prepared
  <2>4. ASSUME NEW q \in Callers PROVE Alone(q)'
    BY <2>1, <2>4 DEF Added, Inv, TypeOK, Places, Fresh, Removals, Alone, Removing
  <2> QED BY <2>2, <2>3, <2>4 DEF Inv, TypeOK, Removals
<1>7. MasterKey'
  BY DEF Inv, MasterKey, OneKey, ItemsKey, Opens, WithAuth
<1> QED BY <1>1, <1>2, <1>3, <1>4, <1>5, <1>6, <1>7 DEF Inv, Places

\* A look at the store.
LEMMA StatusKeeps ==
  ASSUME Inv, NEW c \in Callers, Status(c)
  PROVE  Inv'
<1> USE IdsAssumption, NoneAssumption, BoundsAssumption
    DEF Status, store, locals, history, bounds, Goto, Return, Ids, PasswordRPCs,
        SetupNeeded
<1>1. TypeOK'
  BY DEF Inv, TypeOK, Labels, Calls, Auth, Key
<1>2. IdsUsed'
  BY DEF Inv, TypeOK, Places, IdsUsed
<1>3. ASSUME NEW q \in Callers PROVE Kinds(q)'
  BY <1>3 DEF Inv, TypeOK, Places, IdsUsed, Kinds
<1>4. ASSUME NEW q \in Callers PROVE Salted(q)'
  BY <1>4 DEF Inv, TypeOK, Places, Kinds, Salted
<1>5. ASSUME NEW q \in Callers PROVE Fresh(q)'
  BY <1>5 DEF Inv, TypeOK, Places, IdsUsed, Fresh, Kinds, HasAuth
<1>6. Removals'
  BY DEF Inv, TypeOK, Removals, Prepared, Alone, Removing, HasAuth, MyKey
<1>7. MasterKey'
  BY DEF Inv, MasterKey, OneKey, ItemsKey, Opens
<1> QED BY <1>1, <1>2, <1>3, <1>4, <1>5, <1>6, <1>7 DEF Inv, Places

\* The vault is unlocked.
LEMMA UnlockKeeps ==
  ASSUME Inv, NEW c \in Callers, Unlock(c)
  PROVE  Inv'
<1> USE IdsAssumption, NoneAssumption, BoundsAssumption
    DEF Unlock, store, locals, history, bounds, Goto, Return, Ids, PasswordRPCs
<1>1. TypeOK'
  <2>1. ASSUME NEW a \in auths PROVE a.id \in Ids /\ a.mk \in MasterKeys
    BY <2>1 DEF Inv, TypeOK, Auth
  <2>2. rpc[c] = "change" => old[c] \in Passwords
    BY DEF Inv, Places, Kinds
  <2> QED BY <2>1, <2>2 DEF Inv, TypeOK, Labels, Opened
<1>2. IdsUsed'
  BY DEF Inv, TypeOK, Places, IdsUsed, Opened
<1>3. ASSUME NEW q \in Callers PROVE Kinds(q)'
  BY <1>3 DEF Inv, TypeOK, Places, IdsUsed, Kinds, Opened, Auth
<1>4. ASSUME NEW q \in Callers PROVE Salted(q)'
  BY <1>4 DEF Inv, TypeOK, Places, Kinds, Salted
<1>5. ASSUME NEW q \in Callers PROVE Fresh(q)'
  BY <1>5 DEF Inv, TypeOK, Places, IdsUsed, Fresh, Kinds, HasAuth, Opened
<1>6. Removals'
  BY DEF Inv, TypeOK, Removals, Prepared, Alone, Removing, HasAuth, MyKey, Opened
<1>7. MasterKey'
  BY DEF Inv, MasterKey, OneKey, ItemsKey, Opens, Opened
<1> QED BY <1>1, <1>2, <1>3, <1>4, <1>5, <1>6, <1>7 DEF Inv, Places

\* Another auth.
LEMMA ProvisionKeeps ==
  ASSUME Inv, NEW c \in Callers, Provision(c)
  PROVE  Inv'
<1> USE IdsAssumption, NoneAssumption, BoundsAssumption
    DEF Provision, store, locals, history, bounds, Goto, Return, Ids, PasswordRPCs,
        NewId
<1>1. TypeOK'
  <2>1. CASE mk # None
    <3>1. PICK i \in NewId(c) : /\ id' = [id EXCEPT ![c] = i]
                                /\ used' = used \cup {i}
                                /\ Added(i, MyKey(c), mk)
      BY <2>1, WithAuthHas
    <3>2. MyKey(c) \in Key /\ i \in Ids /\ mk \in MasterKeys
      BY <2>1, KeyTypes DEF Inv, TypeOK, Places, Kinds
    <3>3. auths' \subseteq Auth
      <4>1. [id |-> i, key |-> MyKey(c), mk |-> mk] \in Auth
        BY <3>2 DEF Auth
      <4> QED BY <3>1, <4>1 DEF Added, Inv, TypeOK
    <3> QED BY <2>1, <3>1, <3>2, <3>3 DEF Inv, TypeOK, Labels
  <2>2. CASE mk = None
    BY <2>2 DEF Inv, TypeOK, Labels
  <2> QED BY <2>1, <2>2
<1>2. IdsUsed'
  BY DEF Inv, TypeOK, Places, IdsUsed, WithAuth
<1>3. ASSUME NEW q \in Callers PROVE Kinds(q)'
  BY <1>3 DEF Inv, TypeOK, Places, IdsUsed, Kinds
<1>4. ASSUME NEW q \in Callers PROVE Salted(q)'
  BY <1>4 DEF Inv, TypeOK, Places, Kinds, Salted
<1>5. ASSUME NEW q \in Callers PROVE Fresh(q)'
  BY <1>5 DEF Inv, TypeOK, Places, IdsUsed, Fresh, Kinds, HasAuth, WithAuth
<1>6. Removals'
  <2> SUFFICES ASSUME ~careless, mk # None PROVE Removals'
    BY DEF Inv, TypeOK, Removals, Prepared, Alone, Removing, HasAuth, MyKey
  <2>1. PICK i \in NewId(c) : /\ id' = [id EXCEPT ![c] = i]
                              /\ Added(i, MyKey(c), mk)
    BY WithAuthHas
  <2>2. ASSUME NEW j \in provs' \cap PwIds PROVE HasAuth(j)'
    BY <2>1, <2>2 DEF Added, Inv, Removals
  <2>3. i \in PwIds => \A q \in Callers : id[q] # i
    BY DEF Inv, Places, IdsUsed
  <2>4. ASSUME NEW q \in Callers PROVE Prepared(q)'
    <3>1. MyKey(q)' = MyKey(q)
      BY DEF MyKey
    <3>2. CASE q = c
      BY <2>1, <3>1, <3>2 DEF Added, Inv, TypeOK, Prepared
    <3>3. CASE q # c /\ pc[q] = "newprov" /\ id[q] \in PwIds
      <4>1. PICK a \in auths : a.id = id[q] /\ a.key = MyKey(q)
        BY <3>3 DEF Inv, Removals, Prepared
      <4>2. a \in auths' /\ id'[q] = id[q]
        BY <2>1, <2>3, <3>3, <4>1 DEF Added, Inv, TypeOK
      <4> QED BY <3>1, <4>1, <4>2 DEF Prepared
    <3> QED BY <2>1, <3>2, <3>3 DEF Inv, TypeOK, Prepared
  <2>5. ASSUME NEW q \in Callers PROVE Alone(q)'
    <3>1. CASE q = c
      BY <3>1 DEF Inv, TypeOK, Alone, Removing
    <3>2. CASE q # c /\ Removing(q)
      <4>1. Alone(q) /\ pc'[q] = pc[q] /\ id'[q] = id[q]
        BY <2>1, <3>2 DEF Inv, TypeOK, Removals
      <4>2. \A d \in Callers : Removing(d)' => d = q
        BY <3>2, <4>1 DEF Inv, TypeOK, Alone, Removing
      <4>3. \E j \in provs' : j # id[q] /\ HasAuth(j)'
        BY <2>1, <3>2, <4>1 DEF Added, Alone
      <4>4. \A d \in Callers : pc'[d] = "newprov" /\ id'[d] \in PwIds => id'[d] # id[q]
        BY <2>1, <2>3, <3>2, <4>1 DEF Inv, TypeOK, Alone
      <4> QED BY <3>2, <4>1, <4>2, <4>3, <4>4 DEF Alone
    <3> QED BY <3>1, <3>2 DEF Inv, TypeOK, Alone, Removing
  <2> QED BY <2>2, <2>4, <2>5 DEF Inv, TypeOK, Removals
<1>7. MasterKey'
  <2> SUFFICES ASSUME ~race, mk # None PROVE MasterKey'
    BY DEF Inv, MasterKey, OneKey, ItemsKey, Opens
  <2>1. PICK i \in NewId(c) : /\ id' = [id EXCEPT ![c] = i]
                              /\ Added(i, MyKey(c), mk)
    BY WithAuthHas
  <2>2. \A a \in auths : a.mk = mk
    BY DEF Inv, MasterKey, OneKey
  <2>3. \A a \in auths' : a.mk = mk
    BY <2>1, <2>2 DEF Added
  <2>4. OneKey'
    BY <2>3 DEF OneKey
  <2>5. ASSUME ~careless, vaultKey # None PROVE ItemsKey'
    BY <2>1, <2>5, <2>3 DEF Added, Inv, MasterKey, ItemsKey
  <2>6. ASSUME ~careless, NEW w \in working PROVE Opens(w)'
    <3>1. w[2] # i
      BY DEF Inv, Places, IdsUsed
    <3> QED BY <2>1, <2>6, <3>1 DEF Added, Inv, MasterKey, Opens
  <2> QED BY <2>4, <2>5, <2>6 DEF Inv, MasterKey
<1> QED BY <1>1, <1>2, <1>3, <1>4, <1>5, <1>6, <1>7 DEF Inv, Places

\* An auth is listed.
LEMMA NewProvKeeps ==
  ASSUME Inv, NEW c \in Callers, NewProv(c)
  PROVE  Inv'
<1> USE IdsAssumption, NoneAssumption, BoundsAssumption
    DEF NewProv, store, locals, history, bounds, Goto, Return, Ids, PasswordRPCs
<1>1. TypeOK'
  <2>1. id[c] \in Ids /\ (rpc[c] = "change" => old[c] \in Ids)
    BY DEF Inv, Places, Kinds
  <2>2. working' \subseteq Passwords \X Ids
    BY <2>1 DEF Inv, TypeOK
  <2> QED BY <2>1, <2>2 DEF Inv, TypeOK, Labels
<1>2. IdsUsed'
  BY DEF Inv, TypeOK, Places, IdsUsed, Kinds
<1>3. ASSUME NEW q \in Callers PROVE Kinds(q)'
  BY <1>3 DEF Inv, TypeOK, Places, IdsUsed, Kinds
<1>4. ASSUME NEW q \in Callers PROVE Salted(q)'
  BY <1>4 DEF Inv, TypeOK, Places, Kinds, Salted
<1>5. ASSUME NEW q \in Callers PROVE Fresh(q)'
  BY <1>5 DEF Inv, TypeOK, Places, IdsUsed, Fresh, Kinds, HasAuth
<1>6. Removals'
  <2> SUFFICES ASSUME ~careless PROVE Removals'
    BY DEF Removals
  <2>1. ASSUME NEW i \in provs' \cap PwIds PROVE HasAuth(i)'
    BY <2>1 DEF Inv, Removals, Prepared, HasAuth
  <2>2. ASSUME NEW q \in Callers PROVE Prepared(q)'
    BY <2>2 DEF Inv, TypeOK, Removals, Prepared, MyKey
  <2>3. ASSUME NEW q \in Callers, Removing(q)' PROVE Alone(q)'
    <3>1. q # c /\ Removing(q) /\ id'[q] = id[q] /\ pc'[q] = pc[q]
      BY <2>3 DEF Inv, TypeOK, Removing
    <3>2. Alone(q)
      BY DEF Inv, Removals
    <3>3. id[c] \in PwIds => id[c] # id[q]
      BY <3>1, <3>2 DEF Alone
    <3>4. \A d \in Callers : Removing(d)' => d = q
      BY <3>1, <3>2 DEF Inv, TypeOK, Alone, Removing
    <3>5. \E j \in provs' : j # id[q] /\ HasAuth(j)'
      BY <3>1, <3>2 DEF Alone, HasAuth
    <3>6. \A d \in Callers : pc'[d] = "newprov" /\ id'[d] \in PwIds => id'[d] # id[q]
      BY <3>1, <3>2 DEF Inv, TypeOK, Alone
    <3>7. pc[q] = "delauth" /\ id[q] \in PwIds => id[q] \notin provs'
      BY <3>1, <3>2, <3>3 DEF Alone
    <3>8. secret[c] \in Passwords => id[c] \in PwIds
      BY DEF Inv, Places, Kinds
    <3>9. \A w \in working' : w[2] # id[q]
      BY <3>1, <3>2, <3>3, <3>8 DEF Alone
    <3> QED BY <3>1, <3>4, <3>5, <3>6, <3>7, <3>9 DEF Alone
  <2> QED BY <2>1, <2>2, <2>3 DEF Removals, Alone
<1>7. MasterKey'
  <2> SUFFICES ASSUME ~race PROVE MasterKey'
    BY DEF MasterKey
  <2>1. secret[c] \in Passwords => id[c] \in PwIds /\ mysalt[c] = salt /\ salt # None
    BY DEF Inv, Places, Kinds, Salted
  <2>2. OneKey' /\ (working' # {} => salt' # None)
    BY <2>1 DEF Inv, MasterKey, OneKey
  <2>3. ASSUME ~careless, vaultKey # None PROVE ItemsKey'
    BY <2>3 DEF Inv, MasterKey, ItemsKey
  <2>4. ASSUME ~careless, NEW w \in working' PROVE Opens(w)'
    <3>1. CASE w \in working
      BY <2>4, <3>1 DEF Inv, MasterKey, Opens
    <3>2. CASE secret[c] \in Passwords /\ w = <<secret[c], id[c]>>
      BY <2>1, <2>4, <3>2 DEF Inv, Removals, Prepared, MyKey, Opens
    <3> QED BY <3>1, <3>2
  <2> QED BY <2>2, <2>3, <2>4 DEF Inv, MasterKey
<1> QED BY <1>1, <1>2, <1>3, <1>4, <1>5, <1>6, <1>7 DEF Inv, Places

\* A credential is listed.
LEMMA GenerateKeeps ==
  ASSUME Inv, NEW c \in Callers, Generate(c)
  PROVE  Inv'
<1> USE IdsAssumption, NoneAssumption, BoundsAssumption
    DEF Generate, store, locals, history, bounds, Goto, Return, Ids, PasswordRPCs
<1>1. TypeOK'
  <2>1. id[c] \in Ids
    BY DEF Inv, Places, Kinds
  <2> QED BY <2>1 DEF Inv, TypeOK, Labels
<1>2. IdsUsed'
  BY DEF Inv, TypeOK, Places, IdsUsed
<1>3. ASSUME NEW q \in Callers PROVE Kinds(q)'
  BY <1>3 DEF Inv, TypeOK, Places, IdsUsed, Kinds
<1>4. ASSUME NEW q \in Callers PROVE Salted(q)'
  BY <1>4 DEF Inv, TypeOK, Places, Kinds, Salted
<1>5. ASSUME NEW q \in Callers PROVE Fresh(q)'
  BY <1>5 DEF Inv, TypeOK, Places, IdsUsed, Fresh, Kinds, HasAuth
<1>6. Removals'
  BY DEF Inv, TypeOK, Places, Kinds, Removals, Prepared, Alone, Removing, HasAuth, MyKey
<1>7. MasterKey'
  BY DEF Inv, Places, Kinds, MasterKey, OneKey, ItemsKey, Opens
<1> QED BY <1>1, <1>2, <1>3, <1>4, <1>5, <1>6, <1>7 DEF Inv, Places

\* A removal begins.
LEMMA GuardKeeps ==
  ASSUME Inv, NEW c \in Callers, Guard(c)
  PROVE  Inv'
<1> USE IdsAssumption, NoneAssumption, BoundsAssumption
    DEF Guard, store, locals, history, bounds, Goto, Return, Ids, PasswordRPCs, IsLast,
        Overlaps, Removal
<1>1. TypeOK'
  <2>1. pc' \in [Callers -> Labels]
    BY DEF Inv, TypeOK, Labels
  <2>2. mutex' \in Callers \cup {None}
    BY DEF Inv, TypeOK
  <2>3. working' \subseteq working /\ careless' \in BOOLEAN
    BY DEF Inv, TypeOK
  <2>4. UNCHANGED <<store, mk, locals, vaultKey, race, bounds>>
    OBVIOUS
  <2> QED BY <2>1, <2>2, <2>3, <2>4 DEF Inv, TypeOK
<1>2. IdsUsed'
  BY DEF Inv, TypeOK, Places, IdsUsed
<1>3. ASSUME NEW q \in Callers PROVE Kinds(q)'
  BY <1>3 DEF Inv, TypeOK, Places, IdsUsed, Kinds
<1>4. ASSUME NEW q \in Callers PROVE Salted(q)'
  BY <1>4 DEF Inv, TypeOK, Places, Kinds, Salted
<1>5. ASSUME NEW q \in Callers PROVE Fresh(q)'
  BY <1>5 DEF Inv, TypeOK, Places, IdsUsed, Fresh, Kinds, HasAuth
<1>6. Removals'
  <2> SUFFICES ASSUME ~careless' PROVE Removals'
    BY DEF Removals
  <2>0. ~careless
    OBVIOUS
  <2>1. CASE IsLast(c)
    BY <2>0, <2>1 DEF Inv, TypeOK, Removals, Prepared, Alone, Removing, HasAuth, MyKey
  <2>2. CASE ~IsLast(c)
    <3>1. \A d \in Callers : ~Removing(d) /\ ~(pc[d] = "newprov" /\ id[d] = id[c])
      BY <2>2 DEF Removing
    <3>2. \A j \in provs : HasAuth(j)
      BY <2>2
    <3>3. provs # {} /\ provs # {id[c]}
      BY <2>0, <2>2 DEF Inv, Removals
    <3>4. ASSUME NEW q \in Callers PROVE Prepared(q)'
      BY <2>0, <2>2 DEF Inv, TypeOK, Removals, Prepared, MyKey
    <3>5. ASSUME NEW q \in Callers PROVE Alone(q)'
      BY <2>2, <3>1, <3>2, <3>3 DEF Inv, TypeOK, Alone, Removing, HasAuth
    <3> QED BY <2>0, <2>2, <3>2, <3>3, <3>4, <3>5 DEF Inv, TypeOK, Removals, HasAuth
  <2> QED BY <2>1, <2>2
<1>7. MasterKey'
  BY DEF Inv, MasterKey, OneKey, ItemsKey, Opens
<1> QED BY <1>1, <1>2, <1>3, <1>4, <1>5, <1>6, <1>7 DEF Inv, Places

\* It is not listed any more.
LEMMA DeleteProvisionKeeps ==
  ASSUME Inv, NEW c \in Callers, DeleteProvision(c)
  PROVE  Inv'
<1> USE IdsAssumption, NoneAssumption, BoundsAssumption
    DEF DeleteProvision, store, locals, history, bounds, Goto, Return, Ids,
        PasswordRPCs, GoOn, Removal
<1>1. TypeOK'
  BY DEF Inv, TypeOK, Labels, Calls, Auth, Key
<1>2. IdsUsed'
  BY DEF Inv, TypeOK, Places, IdsUsed
<1>3. ASSUME NEW q \in Callers PROVE Kinds(q)'
  BY <1>3 DEF Inv, TypeOK, Places, IdsUsed, Kinds
<1>4. ASSUME NEW q \in Callers PROVE Salted(q)'
  BY <1>4 DEF Inv, TypeOK, Places, Kinds, Salted
<1>5. ASSUME NEW q \in Callers PROVE Fresh(q)'
  BY <1>5 DEF Inv, TypeOK, Places, IdsUsed, Fresh, Kinds, HasAuth
<1>6. Removals'
  <2> SUFFICES ASSUME ~careless PROVE Removals'
    BY DEF Removals
  <2>1. Alone(c) /\ Removing(c)
    BY DEF Inv, Removals, Removing
  <2>2. ASSUME NEW i \in provs' \cap PwIds PROVE HasAuth(i)'
    BY <2>2 DEF Inv, Removals, HasAuth
  <2>3. ASSUME NEW q \in Callers PROVE Prepared(q)'
    BY <2>3 DEF Inv, TypeOK, Removals, Prepared, MyKey
  <2>4. ASSUME NEW q \in Callers PROVE Alone(q)'
    BY <2>1 DEF Inv, TypeOK, Alone, Removing, HasAuth
  <2>5. provs' # {}
    BY <2>1 DEF Alone
  <2> QED BY <2>2, <2>3, <2>4, <2>5 DEF Removals
<1>7. MasterKey'
  BY DEF Inv, MasterKey, OneKey, ItemsKey, Opens
<1> QED BY <1>1, <1>2, <1>3, <1>4, <1>5, <1>6, <1>7 DEF Inv, Places

\* It is gone.
LEMMA DeleteAuthKeeps ==
  ASSUME Inv, NEW c \in Callers, DeleteAuth(c)
  PROVE  Inv'
<1> USE IdsAssumption, NoneAssumption, BoundsAssumption
    DEF DeleteAuth, store, locals, history, bounds, Goto, Return, Ids, PasswordRPCs,
        GoOn, Removal
<1>1. TypeOK'
  BY DEF Inv, TypeOK, Labels, Calls, Auth, Key
<1>2. IdsUsed'
  BY DEF Inv, TypeOK, Places, IdsUsed
<1>3. ASSUME NEW q \in Callers PROVE Kinds(q)'
  BY <1>3 DEF Inv, TypeOK, Places, IdsUsed, Kinds
<1>4. ASSUME NEW q \in Callers PROVE Salted(q)'
  BY <1>4 DEF Inv, TypeOK, Places, Kinds, Salted
<1>5. ASSUME NEW q \in Callers PROVE Fresh(q)'
  BY <1>5 DEF Inv, TypeOK, Places, IdsUsed, Fresh, Kinds, HasAuth
<1>6. Removals'
  <2> SUFFICES ASSUME ~careless PROVE Removals'
    BY DEF Removals
  <2>1. Alone(c) /\ Removing(c)
    BY DEF Inv, Removals, Removing
  <2>2. ASSUME NEW i, i # id[c], HasAuth(i) PROVE HasAuth(i)'
    BY <2>2 DEF HasAuth
  <2>3. ASSUME NEW i \in provs' \cap PwIds PROVE HasAuth(i)'
    BY <2>1, <2>2, <2>3 DEF Inv, Removals, Alone
  <2>4. ASSUME NEW q \in Callers PROVE Prepared(q)'
    BY <2>1, <2>4 DEF Inv, TypeOK, Removals, Prepared, MyKey, Alone
  <2>5. ASSUME NEW q \in Callers PROVE Alone(q)'
    BY <2>1, <2>5 DEF Inv, TypeOK, Alone, Removing
  <2> QED BY <2>3, <2>4, <2>5 DEF Inv, TypeOK, Removals
<1>7. MasterKey'
  <2> SUFFICES ASSUME ~race PROVE MasterKey'
    BY DEF MasterKey
  <2>1. OneKey' /\ (working' # {} => salt' # None)
    BY DEF Inv, MasterKey, OneKey
  <2>2. ~careless => Alone(c) /\ Removing(c)
    BY DEF Inv, Removals, Removing
  <2>3. ASSUME ~careless, vaultKey # None PROVE ItemsKey'
    BY <2>2, <2>3 DEF Inv, MasterKey, ItemsKey, Alone, HasAuth
  <2>4. ASSUME ~careless, NEW w \in working' PROVE Opens(w)'
    BY <2>2, <2>4 DEF Inv, MasterKey, Opens, Alone
  <2> QED BY <2>1, <2>3, <2>4 DEF MasterKey
<1> QED BY <1>1, <1>2, <1>3, <1>4, <1>5, <1>6, <1>7 DEF Inv, Places

-----------------------------------------------------------------------------
\* An RPC begins.
LEMMA CallKeeps ==
  ASSUME Inv, NEW c \in Callers, Call(c)
  PROVE  Inv'
<1> USE IdsAssumption, NoneAssumption, BoundsAssumption
    DEF store, locals, history, bounds, Goto, Ids, PasswordRPCs
<1>1. PICK name \in Calls, s \in Passwords \cup Creds \cup {None}, i \in Ids \cup {None},
           o \in Passwords \cup {None}, label \in Labels :
        /\ Begin(c, name, s, i, o, label)
        /\ \/ name \in {"setup", "provision"} /\ label = "salt" /\ s \in Passwords /\ i = None
           \/ name = "change" /\ label = "salt" /\ s \in Passwords /\ i = None /\ o \in Passwords
           \/ name = "unlock" /\ label = "lock" /\ s \in Passwords /\ i = None
           \/ name = "deprovision" /\ label = "guard" /\ s = None /\ i \in provs
           \/ name = "generate" /\ label = "generate" /\ s = i /\ i \in Creds
           \/ name = "unlockhmac" /\ label = "lock" /\ s = None /\ i = None
           \/ name = "provisionhmac" /\ label = "hmac" /\ s = None /\ i = None
  <2>1. provs \subseteq Ids
    BY DEF Inv, TypeOK
  <2>2. ASSUME NEW p \in Passwords,
               CallSetup(c, p) \/ CallUnlock(c, p) \/ CallProvision(c, p)
                 \/ \E new \in Passwords : CallChange(c, p, new)
        PROVE  \/ Begin(c, "setup", p, None, None, "salt")
               \/ Begin(c, "unlock", p, None, None, "lock")
               \/ Begin(c, "provision", p, None, None, "salt")
               \/ \E new \in Passwords : Begin(c, "change", p, None, new, "salt")
    BY <2>2 DEF CallSetup, CallUnlock, CallProvision, CallChange
  <2>3. ASSUME NEW k \in Creds, CallGenerate(c, k)
        PROVE  Begin(c, "generate", k, k, None, "generate")
    BY <2>3 DEF CallGenerate
  <2>4. ASSUME CallDeprovision(c) \/ CallUnlockHMAC(c) \/ CallProvisionHMAC(c)
        PROVE  \/ \E i \in provs : Begin(c, "deprovision", None, i, None, "guard")
               \/ Begin(c, "unlockhmac", None, None, None, "lock")
               \/ Begin(c, "provisionhmac", None, None, None, "hmac")
    BY <2>4 DEF CallDeprovision, CallUnlockHMAC, CallProvisionHMAC
  <2> QED BY <2>1, <2>2, <2>3, <2>4 DEF Call, Calls, Labels
<1>2. TypeOK'
  BY <1>1 DEF Begin, Inv, TypeOK
<1>3. IdsUsed'
  BY <1>1 DEF Begin, Inv, TypeOK, Places, IdsUsed
<1>4. ASSUME NEW q \in Callers PROVE Kinds(q)' /\ Salted(q)'
  BY <1>1, <1>4 DEF Begin, Inv, TypeOK, Places, Kinds, Salted
<1>5. ASSUME NEW q \in Callers PROVE Fresh(q)'
  BY <1>1, <1>5 DEF Begin, Inv, TypeOK, Places, Fresh, HasAuth
<1>6. Removals'
  BY <1>1 DEF Begin, Inv, TypeOK, Removals, Prepared, Alone, Removing, HasAuth, MyKey
<1>7. MasterKey'
  BY <1>1 DEF Begin, Inv, MasterKey, OneKey, ItemsKey, Opens
<1> QED BY <1>2, <1>3, <1>4, <1>5, <1>6, <1>7 DEF Inv, Places

\* The service is locked, or ends.
LEMMA EndKeeps ==
  ASSUME Inv, AuthLock \/ Crash
  PROVE  Inv'
<1> USE NoneAssumption, BoundsAssumption DEF AuthLock, Crash, store, locals, history, bounds
<1>1. TypeOK'
  BY DEF Inv, TypeOK, Labels
<1>2. Places'
  BY DEF Inv, TypeOK, Places, IdsUsed, Kinds, Salted, Fresh, HasAuth, PasswordRPCs
<1>3. Removals'
  BY DEF Inv, TypeOK, Removals, Prepared, Alone, Removing, HasAuth, MyKey
<1>4. MasterKey'
  BY DEF Inv, MasterKey, OneKey, ItemsKey, Opens
<1> QED BY <1>1, <1>2, <1>3, <1>4 DEF Inv

\* Every step keeps the invariant.
LEMMA Inductive == Inv /\ [Next]_vars => Inv'
<1> SUFFICES ASSUME Inv, [Next]_vars PROVE Inv'
  OBVIOUS
<1>1. ASSUME NEW c \in Callers, Step(c) PROVE Inv'
  BY <1>1, LockKeeps, HMACSecretKeeps, SaltKeeps, SetSaltKeeps, SetupKeeps, NewAuthKeeps,
     StatusKeeps, UnlockKeeps, ProvisionKeeps, NewProvKeeps, GenerateKeeps, GuardKeeps,
     DeleteProvisionKeeps, DeleteAuthKeeps
     DEF Step
<1>2. CASE UNCHANGED vars
  BY <1>2 DEF vars, store, locals, history, bounds, Inv, TypeOK, Places, IdsUsed, Kinds,
              Salted, Fresh, Removals, Prepared, Alone, Removing, MasterKey, OneKey,
              ItemsKey, Opens, HasAuth, MyKey
<1> QED BY <1>1, <1>2, CallKeeps, EndKeeps DEF Next

\* The invariant of the proof holds in every reachable state.
THEOREM Invariance == Spec => []Inv
BY Initially, Inductive, PTL DEF Spec

-----------------------------------------------------------------------------
\* Documents and calls are well typed, for any number of clients, passwords and
\* credentials (vault/auth.go, vault/provision.go).
THEOREM TypeCorrect == Spec => []TypeOK
<1>1. Inv => TypeOK
  BY DEF Inv
<1> QED BY <1>1, Invariance, PTL

\* All auths open the same vault: nothing but two setups at once, or two salts,
\* brings a second master key (vault/auth.go:86).
THEOREM OneMasterKeyEver == Spec => []OneMasterKey
<1>1. Inv => OneMasterKey
  BY DEF Inv, MasterKey, OneKey, OneMasterKey
<1> QED BY <1>1, Invariance, PTL

\* Passwords that were set open the vault until their removal begins, through
\* any calls of others and any crashes.
THEOREM SetPasswordsWork == Spec => []PasswordsWork
<1>1. Inv => PasswordsWork
  BY DEF Inv, MasterKey, Opens, PasswordsWork
<1> QED BY <1>1, Invariance, PTL

\* The auth is made before its provision and goes after it
\* (vault/provision.go:86).
THEOREM ListedAuthsExist == Spec => []ListedWorks
<1>1. Inv => ListedWorks
  BY DEF Inv, Removals, ListedWorks
<1> QED BY <1>1, Invariance, PTL

\* Once there are items there is an auth for their key, unless removals overlap
\* or a credential is listed that has none (vault/provision.go:163).
THEOREM NeverLockedOut == Spec => []NotLockedOut
<1>1. Inv => NotLockedOut
  BY DEF Inv, MasterKey, ItemsKey, NotLockedOut
<1> QED BY <1>1, Invariance, PTL
=============================================================================
