-------------------------- MODULE VaultSyncProofs --------------------------
(***************************************************************************)
(* VaultSync, for any number of clients, documents, keys and faults:       *)
(* listings, responses and requests are well formed (TypeOK), no write is  *)
(* lost on the way to the remote vault (AckedKept) and a client's writes   *)
(* are pushed in order (PushInOrder), whatever requests are lost or late   *)
(* and whenever a process dies.  The last two follow from the inductive    *)
(* invariant PushInv together with TypeOK.                                 *)
(***************************************************************************)
EXTENDS VaultSync, FiniteSetTheorems, SequenceTheorems, TLAPS

-----------------------------------------------------------------------------
(* Listing a log                                                            *)

\* The order of log documents is total.
LEMMA BeforeIsTotal ==
  /\ \A d \in Doc : ~Before(d, d)
  /\ \A d, e \in Doc : d # e => Before(d, e) \/ Before(e, d)
  /\ \A d, e, f \in Doc : Before(d, e) /\ Before(e, f) => Before(d, f)
<1>1. \A d \in Doc : d.idx \in Nat /\ d.path \in Nat /\ d.data \in Nat
  BY PathsAssumption DEF Doc, Data
<1>2. \A d \in Doc : ~Before(d, d)
  BY <1>1 DEF Before
<1>3. \A d, e \in Doc : d # e => Before(d, e) \/ Before(e, d)
  <2> SUFFICES ASSUME NEW d \in Doc, NEW e \in Doc,
                      ~Before(d, e), ~Before(e, d)
               PROVE  d = e
    OBVIOUS
  <2>1. d.idx = e.idx /\ d.path = e.path /\ d.data = e.data
    BY <1>1 DEF Before
  <2> QED BY <2>1 DEF Doc
<1>4. \A d, e, f \in Doc : Before(d, e) /\ Before(e, f) => Before(d, f)
  BY <1>1 DEF Before
<1> QED BY <1>2, <1>3, <1>4

\* The rank of a document in a finite log counts the documents before it, so
\* ranks grow with the order and stay below the size of the log.
LEMMA RankGrows ==
  ASSUME NEW S \in SUBSET Doc, IsFiniteSet(S), NEW d \in S, NEW e \in S,
         Before(d, e)
  PROVE  Rank(S, d) < Rank(S, e)
<1> DEFINE D == {x \in S : Before(x, d)}
           E == {x \in S : Before(x, e)}
<1>1. IsFiniteSet(D) /\ IsFiniteSet(E)
  BY FS_Subset
<1>2. D \cup {d} \subseteq E /\ d \notin D
  BY BeforeIsTotal
<1>3. Cardinality(D \cup {d}) = Cardinality(D) + 1
  BY <1>1, <1>2, FS_AddElement
<1>4. Cardinality(D \cup {d}) <= Cardinality(E)
  BY <1>1, <1>2, FS_Subset
<1>5. Cardinality(D) \in Nat /\ Cardinality(E) \in Nat
  BY <1>1, FS_CardinalityType
<1> QED BY <1>3, <1>4, <1>5 DEF Rank

LEMMA RankBound ==
  ASSUME NEW S \in SUBSET Doc, IsFiniteSet(S), NEW d \in S
  PROVE  Rank(S, d) \in 0..(Cardinality(S) - 1)
<1> DEFINE D == {x \in S : Before(x, d)}
<1>1. IsFiniteSet(D) /\ D \subseteq S \ {d}
  BY FS_Subset, BeforeIsTotal
<1>2. IsFiniteSet(S \ {d}) /\ Cardinality(S \ {d}) = Cardinality(S) - 1
  BY FS_RemoveElement
<1>3. Cardinality(D) <= Cardinality(S \ {d})
  BY <1>1, <1>2, FS_Subset
<1>4. Cardinality(D) \in Nat /\ Cardinality(S) \in Nat
  BY <1>1, FS_CardinalityType
<1> QED BY <1>2, <1>3, <1>4 DEF Rank

\* Documents are told apart by their ranks.
LEMMA RankTellsApart ==
  ASSUME NEW S \in SUBSET Doc, IsFiniteSet(S), NEW d \in S, NEW e \in S,
         Rank(S, d) = Rank(S, e)
  PROVE  d = e
<1>1. Rank(S, d) \in Int /\ Rank(S, e) \in Int
  <2>1. Cardinality(S) \in Nat
    BY FS_CardinalityType
  <2> QED BY <2>1, RankBound
<1>2. ~Before(d, e) /\ ~Before(e, d)
  BY <1>1, RankGrows
<1> QED BY <1>2, BeforeIsTotal

\* Every rank below the size of the log is taken by one document.
LEMMA RankTaken ==
  ASSUME NEW S \in SUBSET Doc, IsFiniteSet(S),
         NEW i \in 0..(Cardinality(S) - 1)
  PROVE  \E d \in S : Rank(S, d) = i
<1> DEFINE T == 0..(Cardinality(S) - 1)
           f == [d \in S |-> Rank(S, d)]
<1>1. Cardinality(S) \in Nat
  BY FS_CardinalityType
<1>2. f \in [S -> T]
  BY RankBound
<1>3. \A d, e \in S : f[d] = f[e] => d = e
  BY RankTellsApart
<1>4. f \in Injection(S, T)
  BY <1>2, <1>3 DEF Injection, IsInjective
<1>5. IsFiniteSet(T) /\ Cardinality(T) = Cardinality(S)
  BY <1>1, FS_Interval
<1>6. f \in Surjection(S, T)
  BY <1>4, <1>5, FS_Injection
<1> QED BY <1>6 DEF Surjection

\* A listing holds the documents of the log and no others.
LEMMA ListingOfLog ==
  ASSUME NEW S \in SUBSET Doc, IsFiniteSet(S)
  PROVE  /\ Listing(S) \in Seq(Doc)
         /\ Len(Listing(S)) = Cardinality(S)
         /\ \A i \in 1..Len(Listing(S)) : Listing(S)[i] \in S
<1>1. Cardinality(S) \in Nat
  BY FS_CardinalityType
<1>2. \A i \in 1..Cardinality(S) : Listing(S)[i] \in S
  <2> SUFFICES ASSUME NEW i \in 1..Cardinality(S) PROVE Listing(S)[i] \in S
    OBVIOUS
  <2>1. \E d \in S : Rank(S, d) = i - 1
    BY <1>1, RankTaken
  <2> QED BY <2>1 DEF Listing
<1>3. DOMAIN Listing(S) = 1..Cardinality(S)
  BY DEF Listing
<1>4. Listing(S) \in Seq(Doc)
  <2>1. Listing(S) = [i \in 1..Cardinality(S) |-> Listing(S)[i]]
    BY DEF Listing
  <2> QED BY <1>1, <1>2, <2>1
<1>5. Len(Listing(S)) = Cardinality(S)
  BY <1>1, <1>3, <1>4
<1> QED BY <1>2, <1>4, <1>5

LEMMA ListingIsComplete ==
  ASSUME NEW S \in SUBSET Doc, IsFiniteSet(S), NEW d \in S
  PROVE  \E i \in 1..Len(Listing(S)) : Listing(S)[i] = d
<1> DEFINE i == Rank(S, d) + 1
<1>1. Cardinality(S) \in Nat /\ i \in 1..Cardinality(S)
  BY FS_CardinalityType, RankBound
<1>2. Listing(S)[i] = CHOOSE e \in S : Rank(S, e) = i - 1
  BY <1>1 DEF Listing
<1>3. Rank(S, d) = i - 1
  BY <1>1, RankBound
<1>4. Listing(S)[i] \in S /\ Rank(S, Listing(S)[i]) = Rank(S, d)
  BY <1>2, <1>3
<1>5. Listing(S)[i] = d
  BY <1>4, RankTellsApart
<1> QED BY <1>1, <1>5, ListingOfLog

-----------------------------------------------------------------------------
(* Type correctness                                                         *)

LEMMA ConstantTypes ==
  /\ NoDoc \in Doc /\ NoReq \in Request
  /\ Keys \subseteq Nat /\ 1 \in Keys
  /\ <<>> \in Seq(Doc) /\ <<>> \in Seq(Event)
  /\ Limit \in Nat \ {0} /\ Owner \in Clients /\ AuthPath \in Paths
<1>1. 1 \in Keys
  BY BoundsAssumption DEF Keys
<1> QED
  BY <1>1, PathsAssumption, ClientsAssumption, LimitAssumption
     DEF NoDoc, NoReq, NoData, Doc, Request, Data, Keys

\* Writing a document to a log keeps it a finite set of documents.
LEMMA PutTypes ==
  ASSUME NEW S \in SUBSET Doc, IsFiniteSet(S), NEW d \in Doc
  PROVE  Put(S, d) \in SUBSET Doc /\ IsFiniteSet(Put(S, d))
<1> DEFINE R == {e \in S : e.idx # d.idx \/ e.path # d.path}
<1>1. IsFiniteSet(R) /\ R \subseteq Doc
  BY FS_Subset
<1>2. IsFiniteSet(R \cup {d})
  BY <1>1, FS_AddElement
<1> QED BY <1>1, <1>2 DEF Put

\* A response of the server is a sequence of at most Limit events, numbered
\* from the index that was asked for.
LEMMA ResponseTypes ==
  ASSUME ServerTypes, NEW k \in Keys, NEW i \in Nat
  PROVE  /\ EventsAfter(k, i) \in Seq(Doc)
         /\ Len(EventsAfter(k, i)) <= Limit
         /\ Len(EventsAfter(k, i)) > 0 =>
              i + Len(EventsAfter(k, i)) <= Len(log[k])
         /\ \A j \in 1..Len(EventsAfter(k, i)) :
              EventsAfter(k, i)[j] = Numbered(k, i + j)
<1> DEFINE n == Len(log[k]) - i
           len == IF n < 0 THEN 0 ELSE IF n < Limit THEN n ELSE Limit
<1>1. log[k] \in Seq(Event) /\ Len(log[k]) \in Nat
  BY DEF ServerTypes
<1>2. len \in Nat /\ len <= Limit /\ (len > 0 => i + len <= Len(log[k]))
  BY <1>1, ConstantTypes
<1>3. EventsAfter(k, i) = [j \in 1..len |-> Numbered(k, i + j)]
  BY DEF EventsAfter
<1>4. \A j \in 1..len : Numbered(k, i + j) \in Doc
  <2> SUFFICES ASSUME NEW j \in 1..len PROVE Numbered(k, i + j) \in Doc
    OBVIOUS
  <2>1. i + j \in 1..Len(log[k])
    BY <1>1, <1>2
  <2>2. log[k][i + j] \in Event
    BY <1>1, <2>1
  <2> QED BY <2>1, <2>2 DEF Numbered, Doc, Event
<1> HIDE DEF len
<1>5. EventsAfter(k, i) \in Seq(Doc) /\ Len(EventsAfter(k, i)) = len
  BY <1>2, <1>3, <1>4
<1> QED BY <1>2, <1>3, <1>5

\* The next document of a loop, and the rest.
LEMMA HeadTypes ==
  ASSUME NEW s \in Seq(Doc), s # <<>>
  PROVE  Head(s) \in Doc /\ Tail(s) \in Seq(Doc)
OBVIOUS

\* What the server appends are events.
LEMMA AppendedTypes ==
  ASSUME NEW s \in Seq(Doc)
  PROVE  /\ Appended(s) \in Seq(Event)
         /\ Len(Appended(s)) = Len(s)
         /\ \A i \in 1..Len(s) :
              Appended(s)[i] = Entry(s[i])
<1>1. \A i \in 1..Len(s) : Entry(s[i]) \in Event
  <2> SUFFICES ASSUME NEW i \in 1..Len(s)
               PROVE  Entry(s[i]) \in Event
    OBVIOUS
  <2>1. s[i] \in Doc
    OBVIOUS
  <2> QED BY <2>1 DEF Doc, Event, Entry
<1> QED BY <1>1 DEF Appended

LEMMA RenumberedTypes ==
  ASSUME TypeOK, NEW c \in Clients, todo[c] # <<>>
  PROVE  Renumbered(c) \in Doc /\ Tail(todo[c]) \in Seq(Doc)
<1>1. todo[c] \in Seq(Doc) /\ at[c] + 1 \in Nat
  BY DEF TypeOK, SyncTypes
<1>2. Head(todo[c]) \in Doc /\ Tail(todo[c]) \in Seq(Doc)
  BY <1>1, HeadTypes
<1> QED BY <1>1, <1>2 DEF Renumbered, Doc

LEMMA TypeInit == Init => TypeOK
<1> SUFFICES ASSUME Init PROVE TypeOK
  OBVIOUS
<1>1. StoreTypes
  <2>1. \A c \in Clients : IsFiniteSet(push[c]) /\ IsFiniteSet(pull[c])
    BY FS_EmptySet, FS_Singleton DEF Init
  <2>2. [idx |-> 1, path |-> AuthPath, data |-> 1] \in Doc
    BY ConstantTypes DEF Doc, Data
  <2>3. push \in [Clients -> SUBSET Doc] /\ pull \in [Clients -> SUBSET Doc]
    BY <2>2 DEF Init
  <2>4. store \in [Clients -> [Paths -> Data]]
    BY DEF Init, Data, NoData
  <2>5. /\ pushIndex \in [Clients -> Nat] /\ pullIndex \in [Clients -> Nat]
        /\ rsalt \in [Clients -> Keys \cup {NoKey}]
        /\ synced \in [Clients -> BOOLEAN]
    BY ConstantTypes DEF Init
  <2> QED BY <2>1, <2>3, <2>4, <2>5 DEF StoreTypes
<1>2. MemoryTypes
  BY ConstantTypes DEF Init, MemoryTypes, NoKey
<1>3. SyncTypes
  BY ConstantTypes DEF Init, SyncTypes, Phases
<1>4. ServerTypes
  BY ConstantTypes DEF Init, ServerTypes
<1>5. HistoryTypes
  BY ConstantTypes, BoundsAssumption DEF Init, HistoryTypes, Event, Data
<1> QED BY <1>1, <1>2, <1>3, <1>4, <1>5 DEF TypeOK

\* What a step that writes one variable of one client's store has to show.
LEMMA StoreChanged ==
  ASSUME StoreTypes, NEW c \in Clients, NEW p \in Paths, NEW d \in Data,
         store' = [store EXCEPT ![c][p] = d],
         UNCHANGED <<push, pull, pushIndex, pullIndex, rsalt, synced>>
  PROVE  StoreTypes'
<1>1. store' \in [Clients -> [Paths -> Data]]
  BY DEF StoreTypes
<1> QED BY <1>1 DEF StoreTypes

LEMMA PushChanged ==
  ASSUME StoreTypes, NEW c \in Clients, NEW S \in SUBSET Doc, IsFiniteSet(S),
         push' = [push EXCEPT ![c] = S], pushIndex' \in [Clients -> Nat],
         UNCHANGED <<store, pull, pullIndex, rsalt, synced>>
  PROVE  StoreTypes'
BY DEF StoreTypes

LEMMA LogsChanged ==
  ASSUME StoreTypes, NEW c \in Clients, NEW S \in SUBSET Doc, IsFiniteSet(S),
         NEW R \in SUBSET Doc, IsFiniteSet(R),
         push' = [push EXCEPT ![c] = S], pull' = [pull EXCEPT ![c] = R],
         UNCHANGED <<store, pushIndex, pullIndex, rsalt, synced>>
  PROVE  StoreTypes'
BY DEF StoreTypes

\* And one that moves a client's loop on, or to another phase.
LEMMA LoopMoved ==
  ASSUME SyncTypes, NEW c \in Clients, NEW ph \in Phases \ {"recording"},
         NEW s \in Seq(Doc), NEW i \in Nat,
         phase' = [phase EXCEPT ![c] = ph], todo' = [todo EXCEPT ![c] = s],
         at' = [at EXCEPT ![c] = i], UNCHANGED <<mode, req, more>>
  PROVE  SyncTypes'
BY DEF SyncTypes

LEMMA PullChanged ==
  ASSUME StoreTypes, NEW c \in Clients, NEW S \in SUBSET Doc, IsFiniteSet(S),
         pull' = [pull EXCEPT ![c] = S],
         UNCHANGED <<store, push, pushIndex, pullIndex, rsalt, synced>>
  PROVE  StoreTypes'
BY DEF StoreTypes

\* Every action keeps the types: one step per action, one per part of TypeOK.
LEMMA TypeLocalWrite ==
  ASSUME TypeOK, NEW c \in Clients, LocalWrite(c)
  PROVE  TypeOK'
<1>1. ASSUME NEW p \in Paths, SetItem(c, p) PROVE TypeOK'
  <2>1. writes + 1 \in Data
    BY DEF TypeOK, HistoryTypes, Data
  <2>2. StoreTypes'
    BY <1>1, <2>1, StoreChanged DEF TypeOK, SetItem, BeginWrite
  <2>3. MemoryTypes'
    BY <1>1 DEF TypeOK, SetItem, BeginWrite, MemoryTypes, HistoryTypes,
                Doc, Data, memVars
  <2>4. SyncTypes'
    BY <1>1 DEF TypeOK, SetItem, BeginWrite, SyncTypes, syncVars
  <2>5. ServerTypes'
    BY <1>1 DEF TypeOK, SetItem, BeginWrite, ServerTypes, netVars
  <2>6. HistoryTypes'
    BY <1>1 DEF TypeOK, SetItem, BeginWrite, HistoryTypes
  <2> QED BY <2>2, <2>3, <2>4, <2>5, <2>6 DEF TypeOK
<1>2. ASSUME NEW p \in Paths, RemoveDoc(c, p) PROVE TypeOK'
  <2>1. StoreTypes'
    BY <1>2, StoreChanged DEF TypeOK, RemoveDoc, BeginWrite, Data, NoData
  <2>2. MemoryTypes'
    BY <1>2 DEF TypeOK, RemoveDoc, BeginWrite, MemoryTypes, Doc, Data,
                NoData, memVars
  <2>3. SyncTypes'
    BY <1>2 DEF TypeOK, RemoveDoc, BeginWrite, SyncTypes, syncVars
  <2>4. ServerTypes'
    BY <1>2 DEF TypeOK, RemoveDoc, BeginWrite, ServerTypes, netVars
  <2>5. HistoryTypes'
    BY <1>2 DEF TypeOK, RemoveDoc, BeginWrite, HistoryTypes
  <2> QED BY <2>1, <2>2, <2>3, <2>4, <2>5 DEF TypeOK
<1>3. ASSUME NextPushIndex(c) PROVE TypeOK'
  <2>1. cur[c] \in Doc /\ pushIndex[c] + 1 \in Nat
    BY DEF TypeOK, StoreTypes, MemoryTypes
  <2>2. [cur[c] EXCEPT !.idx = pushIndex[c] + 1] \in Doc
    BY <2>1 DEF Doc
  <2>3. StoreTypes'
    BY <1>3 DEF TypeOK, NextPushIndex, StoreTypes
  <2>4. MemoryTypes'
    BY <1>3, <2>2 DEF TypeOK, NextPushIndex, MemoryTypes, memVars
  <2>5. SyncTypes'
    BY <1>3 DEF TypeOK, NextPushIndex, SyncTypes, syncVars
  <2>6. ServerTypes'
    BY <1>3 DEF TypeOK, NextPushIndex, ServerTypes, netVars
  <2>7. HistoryTypes'
    BY <1>3 DEF TypeOK, NextPushIndex, HistoryTypes, histVars
  <2> QED BY <2>3, <2>4, <2>5, <2>6, <2>7 DEF TypeOK
<1>4. ASSUME AddToPush(c) PROVE TypeOK'
  <2>1. cur[c] \in Doc /\ push[c] \in SUBSET Doc /\ IsFiniteSet(push[c])
    BY DEF TypeOK, MemoryTypes, StoreTypes
  <2>2. StoreTypes'
    BY <1>4, <2>1, PutTypes, PushChanged
       DEF TypeOK, AddToPush, StoreTypes
  <2>3. MemoryTypes'
    BY <1>4, ConstantTypes DEF TypeOK, AddToPush, MemoryTypes, memVars
  <2>4. SyncTypes'
    BY <1>4 DEF TypeOK, AddToPush, SyncTypes, syncVars
  <2>5. ServerTypes'
    BY <1>4 DEF TypeOK, AddToPush, ServerTypes, netVars
  <2>6. HistoryTypes'
    BY <1>4, <2>1 DEF TypeOK, AddToPush, HistoryTypes, Doc, Event, Entry
  <2> QED BY <2>2, <2>3, <2>4, <2>5, <2>6 DEF TypeOK
<1> QED BY <1>1, <1>2, <1>3, <1>4 DEF LocalWrite

LEMMA TypeUnlock ==
  ASSUME TypeOK, NEW c \in Clients, Unlock(c) \/ Lock(c)
  PROVE  TypeOK'
<1>1. ASSUME Unlock(c) PROVE TypeOK'
  <2>1. keys < MaxKeys => keys + 1 \in Keys
    BY BoundsAssumption DEF TypeOK, HistoryTypes, Keys
  <2>2. rsalt' \in [Clients -> Keys \cup {NoKey}]
    BY <1>1, <2>1 DEF TypeOK, Unlock, StoreTypes
  <2>3. remote' \in [Clients -> Keys \cup {NoKey}]
    BY <1>1, <2>1 DEF TypeOK, Unlock, StoreTypes, MemoryTypes
  <2>4. StoreTypes'
    BY <1>1, <2>2 DEF TypeOK, Unlock, StoreTypes
  <2>5. MemoryTypes'
    BY <1>1, <2>3 DEF TypeOK, Unlock, MemoryTypes, setVars
  <2>6. SyncTypes'
    BY <1>1 DEF TypeOK, Unlock, SyncTypes, syncVars
  <2>7. ServerTypes'
    BY <1>1 DEF TypeOK, Unlock, ServerTypes, netVars
  <2>8. HistoryTypes'
    BY <1>1, BoundsAssumption DEF TypeOK, Unlock, HistoryTypes, Keys
  <2> QED BY <2>4, <2>5, <2>6, <2>7, <2>8 DEF TypeOK
<1>2. ASSUME Lock(c) PROVE TypeOK'
  <2>1. StoreTypes'
    BY <1>2 DEF TypeOK, Lock, StoreTypes, storeVars
  <2>2. MemoryTypes'
    BY <1>2 DEF TypeOK, Lock, MemoryTypes, setVars
  <2>3. SyncTypes'
    BY <1>2 DEF TypeOK, Lock, SyncTypes, syncVars
  <2>4. ServerTypes'
    BY <1>2 DEF TypeOK, Lock, ServerTypes, netVars
  <2>5. HistoryTypes'
    BY <1>2, BoundsAssumption DEF TypeOK, Lock, HistoryTypes
  <2> QED BY <2>1, <2>2, <2>3, <2>4, <2>5 DEF TypeOK
<1> QED BY <1>1, <1>2

LEMMA TypePush ==
  ASSUME TypeOK, NEW c \in Clients,
         Sync(c) \/ ServePost(c) \/ Refused(c) \/ Posted(c) \/
         ClearPush(c) \/ Pushed(c)
  PROVE  TypeOK'
<1>1. ASSUME Sync(c) PROVE TypeOK'
  <2>1. push[c] \in SUBSET Doc /\ IsFiniteSet(push[c])
    BY DEF TypeOK, StoreTypes
  <2>2. remote[c] # NoKey =>
          [op |-> "post", key |-> remote[c], docs |-> Listing(push[c])]
            \in Request
    BY <2>1, ListingOfLog DEF TypeOK, MemoryTypes, Request
  <2>3. StoreTypes'
    BY <1>1 DEF TypeOK, Sync, Goto, StoreTypes, storeVars
  <2>4. MemoryTypes'
    BY <1>1 DEF TypeOK, Sync, Goto, MemoryTypes, memVars, setVars
  <2>5. SyncTypes'
    BY <1>1, <2>2 DEF TypeOK, Sync, Goto, SyncTypes, Phases
  <2>6. ServerTypes'
    BY <1>1 DEF TypeOK, Sync, Goto, ServerTypes, netVars
  <2>7. HistoryTypes'
    BY <1>1 DEF TypeOK, Sync, Goto, HistoryTypes, histVars
  <2> QED BY <2>3, <2>4, <2>5, <2>6, <2>7 DEF TypeOK
<1>2. ASSUME ServePost(c) PROVE TypeOK'
  <2>1. req[c].key \in Keys /\ Appended(req[c].docs) \in Seq(Event)
    BY AppendedTypes DEF TypeOK, SyncTypes, Request
  <2>2. log[req[c].key] \o Appended(req[c].docs) \in Seq(Event)
    BY <2>1 DEF TypeOK, ServerTypes
  <2>3. StoreTypes'
    BY <1>2 DEF TypeOK, ServePost, Goto, StoreTypes, storeVars
  <2>4. MemoryTypes'
    BY <1>2 DEF TypeOK, ServePost, Goto, MemoryTypes, memVars, setVars
  <2>5. SyncTypes'
    BY <1>2 DEF TypeOK, ServePost, Goto, SyncTypes, Phases
  <2>6. ServerTypes'
    BY <1>2, <2>2 DEF TypeOK, ServePost, Append2Log, ServerTypes
  <2>7. HistoryTypes'
    BY <1>2 DEF TypeOK, ServePost, Goto, HistoryTypes, histVars
  <2> QED BY <2>3, <2>4, <2>5, <2>6, <2>7 DEF TypeOK
<1>3. ASSUME Refused(c) PROVE TypeOK'
  <2>1. StoreTypes'
    BY <1>3 DEF TypeOK, Refused, Goto, StoreTypes, storeVars
  <2>2. MemoryTypes'
    BY <1>3 DEF TypeOK, Refused, Goto, MemoryTypes, memVars, setVars
  <2>3. SyncTypes'
    BY <1>3, ConstantTypes DEF TypeOK, Refused, Goto, SyncTypes, Phases
  <2>4. ServerTypes'
    BY <1>3 DEF TypeOK, Refused, Goto, ServerTypes, netVars
  <2>5. HistoryTypes'
    BY <1>3 DEF TypeOK, Refused, Goto, HistoryTypes, histVars
  <2> QED BY <2>1, <2>2, <2>3, <2>4, <2>5 DEF TypeOK
<1>4. ASSUME Posted(c) PROVE TypeOK'
  <2>1. StoreTypes'
    BY <1>4 DEF TypeOK, Posted, Goto, StoreTypes, storeVars
  <2>2. MemoryTypes'
    BY <1>4 DEF TypeOK, Posted, Goto, MemoryTypes, memVars, setVars
  <2>3. SyncTypes'
    BY <1>4, ConstantTypes DEF TypeOK, Posted, Goto, SyncTypes, Phases,
                Request
  <2>4. ServerTypes'
    BY <1>4 DEF TypeOK, Posted, Goto, ServerTypes, netVars
  <2>5. HistoryTypes'
    BY <1>4 DEF TypeOK, Posted, Goto, HistoryTypes, histVars
  <2> QED BY <2>1, <2>2, <2>3, <2>4, <2>5 DEF TypeOK
<1>5. ASSUME ClearPush(c) PROVE TypeOK'
  <2>1. Keeps(c) \in SUBSET Doc /\ IsFiniteSet(Keeps(c))
    BY FS_Subset DEF TypeOK, StoreTypes, Keeps
  <2>2. todo[c] # <<>> => Tail(todo[c]) \in Seq(Doc)
    BY HeadTypes DEF TypeOK, SyncTypes
  <2>3. StoreTypes'
    BY <1>5, <2>1, PushChanged DEF TypeOK, ClearPush, StoreTypes
  <2>4. MemoryTypes'
    BY <1>5 DEF TypeOK, ClearPush, MemoryTypes, memVars, setVars
  <2>5. SyncTypes'
    BY <1>5, <2>2 DEF TypeOK, ClearPush, SyncTypes
  <2>6. ServerTypes'
    BY <1>5 DEF TypeOK, ClearPush, ServerTypes, netVars
  <2>7. HistoryTypes'
    BY <1>5 DEF TypeOK, ClearPush, HistoryTypes, histVars
  <2> QED BY <2>3, <2>4, <2>5, <2>6, <2>7 DEF TypeOK
<1>6. ASSUME Pushed(c) PROVE TypeOK'
  <2>1. StoreTypes'
    BY <1>6 DEF TypeOK, Pushed, Goto, StoreTypes, storeVars
  <2>2. MemoryTypes'
    BY <1>6 DEF TypeOK, Pushed, Goto, MemoryTypes, memVars, setVars
  <2>3. SyncTypes'
    BY <1>6 DEF TypeOK, Pushed, Goto, SyncTypes, Phases
  <2>4. ServerTypes'
    BY <1>6 DEF TypeOK, Pushed, Goto, ServerTypes, netVars
  <2>5. HistoryTypes'
    BY <1>6 DEF TypeOK, Pushed, Goto, HistoryTypes, histVars
  <2> QED BY <2>1, <2>2, <2>3, <2>4, <2>5 DEF TypeOK
<1> QED BY <1>1, <1>2, <1>3, <1>4, <1>5, <1>6

LEMMA TypePull ==
  ASSUME TypeOK, NEW c \in Clients,
         Pull(c) \/ PullNext(c) \/ (\E k \in 1..keys : Clone(c, k))
         \/ ApplyEvent(c) \/ RecordEvent(c) \/ PullDone(c)
  PROVE  TypeOK'
<1>1. ASSUME Pull(c) PROVE TypeOK'
  <2>1. StoreTypes'
    BY <1>1 DEF TypeOK, Pull, Goto, StoreTypes, storeVars
  <2>2. MemoryTypes'
    BY <1>1 DEF TypeOK, Pull, Goto, MemoryTypes, memVars, setVars
  <2>3. SyncTypes'
    BY <1>1 DEF TypeOK, Pull, Goto, SyncTypes, Phases
  <2>4. ServerTypes'
    BY <1>1 DEF TypeOK, Pull, Goto, ServerTypes, netVars
  <2>5. HistoryTypes'
    BY <1>1 DEF TypeOK, Pull, Goto, HistoryTypes, histVars
  <2> QED BY <2>1, <2>2, <2>3, <2>4, <2>5 DEF TypeOK
<1>2. ASSUME PullNext(c) PROVE TypeOK'
  <2>1. remote[c] # NoKey => EventsAfter(remote[c], pullIndex[c]) \in Seq(Doc)
    BY ResponseTypes DEF TypeOK, MemoryTypes, StoreTypes
  <2>2. pullIndex[c] \in Nat
    BY DEF TypeOK, StoreTypes
  <2>3. at' \in [Clients -> Nat] /\ todo' \in [Clients -> Seq(Doc)]
    <3>1. at \in [Clients -> Nat] /\ todo \in [Clients -> Seq(Doc)]
      BY DEF TypeOK, SyncTypes
    <3>2. CASE UNCHANGED <<todo, at>>
      BY <3>1, <3>2
    <3>3. CASE remote[c] # NoKey /\ Receive(c, remote[c], pullIndex[c])
      BY <3>1, <3>3, <2>1, <2>2 DEF Receive
    <3> QED BY <1>2, <3>2, <3>3 DEF PullNext
  <2>4. StoreTypes'
    BY <1>2 DEF TypeOK, PullNext, Receive, Goto, StoreTypes, storeVars
  <2>5. MemoryTypes'
    BY <1>2 DEF TypeOK, PullNext, Receive, Goto, MemoryTypes, memVars, setVars
  <2>6. SyncTypes'
    <3>1. \E l \in {"idle", "applying"} : phase' = [phase EXCEPT ![c] = l]
      BY <1>2 DEF PullNext, Receive, Goto
    <3>2. mode' \in [Clients -> {"sync", "pull", "clone"}] /\ req' = req
      BY <1>2 DEF TypeOK, PullNext, SyncTypes
    <3>3. more' \in [Clients -> BOOLEAN]
      BY <1>2 DEF TypeOK, PullNext, Receive, SyncTypes
    <3>4. \A d \in Clients \ {c} : phase'[d] = phase[d] /\ todo'[d] = todo[d]
      BY <1>2, <3>1 DEF TypeOK, PullNext, Receive, SyncTypes
    <3>5. phase' \in [Clients -> Phases] /\ phase'[c] # "recording"
      BY <3>1 DEF TypeOK, SyncTypes, Phases
    <3> QED BY <2>3, <3>2, <3>3, <3>4, <3>5 DEF TypeOK, SyncTypes
  <2>7. ServerTypes'
    BY <1>2 DEF TypeOK, PullNext, Receive, Goto, ServerTypes, netVars
  <2>8. HistoryTypes'
    BY <1>2 DEF TypeOK, PullNext, Receive, Goto, HistoryTypes, histVars
  <2> QED BY <2>4, <2>5, <2>6, <2>7, <2>8 DEF TypeOK
<1>3. ASSUME NEW k \in 1..keys, Clone(c, k) PROVE TypeOK'
  <2>1. k \in Keys
    BY <1>3, BoundsAssumption DEF TypeOK, HistoryTypes, Keys
  <2>2. EventsAfter(k, 0) \in Seq(Doc)
    BY <2>1, ResponseTypes DEF TypeOK
  <2>3. at' \in [Clients -> Nat] /\ todo' \in [Clients -> Seq(Doc)]
    <3>1. CASE Missing(k, 0)
      BY <1>3, <3>1 DEF TypeOK, Clone, SyncTypes
    <3>2. CASE ~Missing(k, 0)
      <4> DEFINE r == EventsAfter(k, 0)
      <4>1. /\ todo' = [todo EXCEPT ![c] = r] /\ at' = [at EXCEPT ![c] = 0]
            /\ r \in Seq(Doc)
        BY <1>3, <2>2, <3>2 DEF Clone, Receive
      <4> HIDE DEF r
      <4> QED BY <4>1 DEF TypeOK, SyncTypes
    <3> QED BY <3>1, <3>2
  <2>4. phase' \in [Clients -> Phases] /\ more' \in [Clients -> BOOLEAN]
    BY <1>3 DEF TypeOK, Clone, Receive, Goto, SyncTypes, Phases
  <2>5. StoreTypes'
    BY <1>3, <2>1 DEF TypeOK, Clone, StoreTypes
  <2>6. MemoryTypes'
    BY <1>3 DEF TypeOK, Clone, Receive, Goto, MemoryTypes, memVars, setVars
  <2>7. SyncTypes'
    BY <1>3, <2>3, <2>4 DEF TypeOK, Clone, Receive, Goto, SyncTypes
  <2>8. ServerTypes'
    BY <1>3 DEF TypeOK, Clone, Receive, Goto, ServerTypes, netVars
  <2>9. HistoryTypes'
    BY <1>3 DEF TypeOK, Clone, Receive, Goto, HistoryTypes, histVars
  <2> QED BY <2>5, <2>6, <2>7, <2>8, <2>9 DEF TypeOK
<1>4. ASSUME ApplyEvent(c) PROVE TypeOK'
  <2>1. todo[c] \in Seq(Doc) /\ todo[c] # <<>>
    BY <1>4 DEF TypeOK, SyncTypes, ApplyEvent
  <2>2. Head(todo[c]).path \in Paths /\ Head(todo[c]).data \in Data
    BY <2>1, HeadTypes DEF Doc
  <2>3. StoreTypes'
    BY <1>4, <2>2, StoreChanged DEF TypeOK, ApplyEvent, Applied
  <2>4. MemoryTypes'
    BY <1>4 DEF TypeOK, ApplyEvent, Goto, MemoryTypes, memVars, setVars
  <2>5. SyncTypes'
    BY <1>4 DEF TypeOK, ApplyEvent, Goto, SyncTypes, Phases
  <2>6. ServerTypes'
    BY <1>4 DEF TypeOK, ApplyEvent, Goto, ServerTypes, netVars
  <2>7. HistoryTypes'
    BY <1>4 DEF TypeOK, ApplyEvent, HistoryTypes
  <2> QED BY <2>3, <2>4, <2>5, <2>6, <2>7 DEF TypeOK
<1>5. ASSUME RecordEvent(c) PROVE TypeOK'
  <2>1. pull[c] \in SUBSET Doc /\ IsFiniteSet(pull[c])
    BY DEF TypeOK, StoreTypes
  <2>2. todo[c] \in Seq(Doc) /\ todo[c] # <<>>
    BY <1>5 DEF TypeOK, SyncTypes, RecordEvent
  <2>3. Head(todo[c]) \in Doc /\ Tail(todo[c]) \in Seq(Doc)
    BY <2>2, HeadTypes
  <2>4. Head(todo[c]).idx \in Nat
    BY <2>3 DEF Doc
  <2>5. StoreTypes'
    BY <1>5, <2>1, <2>3, PutTypes, PullChanged DEF TypeOK, RecordEvent
  <2>6. MemoryTypes'
    BY <1>5 DEF TypeOK, RecordEvent, Goto, MemoryTypes, memVars, setVars
  <2>7. SyncTypes'
    BY <1>5, <2>3, <2>4
       DEF TypeOK, RecordEvent, Goto, SyncTypes, Phases
  <2>8. ServerTypes'
    BY <1>5 DEF TypeOK, RecordEvent, Goto, ServerTypes, netVars
  <2>9. HistoryTypes'
    BY <1>5 DEF TypeOK, RecordEvent, Goto, HistoryTypes, histVars
  <2> QED BY <2>5, <2>6, <2>7, <2>8, <2>9 DEF TypeOK
<1>6. ASSUME PullDone(c) PROVE TypeOK'
  <2>1. StoreTypes'
    <3>1. pullIndex' \in [Clients -> Nat]
      BY <1>6 DEF TypeOK, PullDone, StoreTypes, SyncTypes
    <3>2. synced' \in [Clients -> BOOLEAN]
      BY <1>6 DEF TypeOK, PullDone, StoreTypes
    <3>3. UNCHANGED <<store, push, pull, pushIndex, rsalt>>
      BY <1>6 DEF PullDone
    <3> QED BY <3>1, <3>2, <3>3 DEF TypeOK, StoreTypes
  <2>2. MemoryTypes'
    BY <1>6 DEF TypeOK, PullDone, MemoryTypes, StoreTypes, setVars
  <2>3. SyncTypes'
    BY <1>6 DEF TypeOK, PullDone, Goto, SyncTypes, Phases
  <2>4. ServerTypes'
    BY <1>6 DEF TypeOK, PullDone, Goto, ServerTypes, netVars
  <2>5. HistoryTypes'
    BY <1>6 DEF TypeOK, PullDone, Goto, HistoryTypes, histVars
  <2> QED BY <2>1, <2>2, <2>3, <2>4, <2>5 DEF TypeOK
<1> QED BY <1>1, <1>2, <1>3, <1>4, <1>5, <1>6

LEMMA TypeUnsync ==
  ASSUME TypeOK, NEW c \in Clients,
         Unsync(c) \/ ServeDelete(c) \/ ResetLog(c) \/ CopyPush(c) \/
         MovePull(c) \/ ClearStatus(c) \/ ClearRemote(c) \/
         NewRemote(c)
  PROVE  TypeOK'
<1>1. ASSUME Unsync(c) PROVE TypeOK'
  <2>1. remote[c] # NoKey =>
         [op |-> "delete", key |-> remote[c], docs |-> <<>>] \in Request
    BY ConstantTypes DEF TypeOK, MemoryTypes, Request
  <2>2. StoreTypes'
    BY <1>1 DEF TypeOK, Unsync, Goto, StoreTypes, storeVars
  <2>3. MemoryTypes'
    BY <1>1 DEF TypeOK, Unsync, Goto, MemoryTypes, memVars, setVars
  <2>4. SyncTypes'
    BY <1>1, <2>1 DEF TypeOK, Unsync, Goto, SyncTypes, Phases
  <2>5. ServerTypes'
    BY <1>1 DEF TypeOK, Unsync, Goto, ServerTypes, netVars
  <2>6. HistoryTypes'
    BY <1>1 DEF TypeOK, Unsync, Goto, HistoryTypes, histVars
  <2> QED BY <2>2, <2>3, <2>4, <2>5, <2>6 DEF TypeOK
<1>2. ASSUME ServeDelete(c) PROVE TypeOK'
  <2>1. req[c].key \in Keys
    BY DEF TypeOK, SyncTypes, Request
  <2>2. StoreTypes'
    BY <1>2 DEF TypeOK, ServeDelete, Goto, StoreTypes, storeVars
  <2>3. MemoryTypes'
    BY <1>2 DEF TypeOK, ServeDelete, Goto, MemoryTypes, memVars, setVars
  <2>4. SyncTypes'
    BY <1>2 DEF TypeOK, ServeDelete, Goto, SyncTypes, Phases
  <2>5. ServerTypes'
    BY <1>2, <2>1, ConstantTypes
       DEF TypeOK, ServeDelete, RemoveLog, ServerTypes
  <2>6. HistoryTypes'
    BY <1>2 DEF TypeOK, ServeDelete, HistoryTypes
  <2> QED BY <2>2, <2>3, <2>4, <2>5, <2>6 DEF TypeOK
<1>3. ASSUME ResetLog(c) PROVE TypeOK'
  <2>1. /\ push[c] \in SUBSET Doc /\ IsFiniteSet(push[c])
        /\ pull[c] \in SUBSET Doc /\ IsFiniteSet(pull[c])
    BY DEF TypeOK, StoreTypes
  <2>2. /\ Cardinality(pull[c]) \in Nat
        /\ Cardinality(pull[c]) + Cardinality(push[c]) \in Nat
    BY <2>1, FS_CardinalityType
  <2>3. Copies(c) \in Seq(Doc)
    BY <2>1, ListingOfLog DEF Copies
  <2>4. StoreTypes'
    BY <1>3, <2>2 DEF TypeOK, ResetLog, StoreTypes
  <2>5. MemoryTypes'
    BY <1>3 DEF TypeOK, ResetLog, Goto, MemoryTypes, memVars, setVars
  <2>6. SyncTypes'
    <3>1. \E l \in {"ending", "copying"} : phase' = [phase EXCEPT ![c] = l]
      BY <1>3 DEF ResetLog, Goto
    <3>2. req' \in [Clients -> Request] /\ mode' = mode /\ more' = more
      BY <1>3, ConstantTypes DEF TypeOK, ResetLog, SyncTypes
    <3>3. todo' \in [Clients -> Seq(Doc)] /\ at' \in [Clients -> Nat]
      BY <1>3, <2>2, <2>3 DEF TypeOK, ResetLog, SyncTypes
    <3>4. \A d \in Clients \ {c} : phase'[d] = phase[d] /\ todo'[d] = todo[d]
      BY <1>3, <3>1 DEF TypeOK, ResetLog, SyncTypes
    <3>5. phase' \in [Clients -> Phases] /\ phase'[c] # "recording"
      BY <3>1 DEF TypeOK, SyncTypes, Phases
    <3> QED BY <3>2, <3>3, <3>4, <3>5 DEF TypeOK, SyncTypes
  <2>7. ServerTypes'
    BY <1>3 DEF TypeOK, ResetLog, Goto, ServerTypes, netVars
  <2>8. HistoryTypes'
    BY <1>3 DEF TypeOK, ResetLog, HistoryTypes
  <2> QED BY <2>4, <2>5, <2>6, <2>7, <2>8 DEF TypeOK
<1>4. ASSUME CopyPush(c) PROVE TypeOK'
  <2>1. /\ push[c] \in SUBSET Doc /\ IsFiniteSet(push[c])
        /\ pull[c] \in SUBSET Doc /\ IsFiniteSet(pull[c])
    BY DEF TypeOK, StoreTypes
  <2>2. todo[c] # <<>> => Renumbered(c) \in Doc /\ Tail(todo[c]) \in Seq(Doc)
    BY RenumberedTypes
  <2>3. todo[c] # <<>> =>
          /\ Put(push[c], Renumbered(c)) \in SUBSET Doc
          /\ IsFiniteSet(Put(push[c], Renumbered(c)))
    BY <2>1, <2>2, PutTypes
  <2>4. Listing(pull[c]) \in Seq(Doc)
    BY <2>1, ListingOfLog
  <2>5. StoreTypes'
    <3>1. CASE todo[c] = <<>>
      BY <1>4, <3>1 DEF TypeOK, CopyPush, StoreTypes
    <3>2. CASE todo[c] # <<>>
      BY <1>4, <2>3, <3>2, PushChanged DEF TypeOK, CopyPush, StoreTypes
    <3> QED BY <3>1, <3>2
  <2>6. MemoryTypes'
    BY <1>4 DEF TypeOK, CopyPush, Goto, MemoryTypes, memVars, setVars
  <2>7. SyncTypes'
    <3>1. CASE todo[c] = <<>>
      BY <1>4, <2>4, <3>1, LoopMoved DEF TypeOK, CopyPush, Goto, Phases
    <3>2. CASE todo[c] # <<>>
      <4>1. at[c] + 1 \in Nat /\ "copying" \in Phases \ {"recording"}
        BY DEF TypeOK, SyncTypes, Phases
      <4>2. phase' = [phase EXCEPT ![c] = "copying"]
        BY <1>4, <3>2 DEF TypeOK, SyncTypes, CopyPush
      <4> QED BY <1>4, <2>2, <3>2, <4>1, <4>2, LoopMoved DEF TypeOK, CopyPush
    <3> QED BY <3>1, <3>2
  <2>8. ServerTypes'
    BY <1>4 DEF TypeOK, CopyPush, Goto, ServerTypes, netVars
  <2>9. HistoryTypes'
    BY <1>4 DEF TypeOK, CopyPush, Goto, HistoryTypes, histVars
  <2> QED BY <2>5, <2>6, <2>7, <2>8, <2>9 DEF TypeOK
<1>5. ASSUME MovePull(c) PROVE TypeOK'
  <2>1. /\ push[c] \in SUBSET Doc /\ IsFiniteSet(push[c])
        /\ pull[c] \in SUBSET Doc /\ IsFiniteSet(pull[c])
    BY DEF TypeOK, StoreTypes
  <2>2. todo[c] # <<>> => Renumbered(c) \in Doc /\ Tail(todo[c]) \in Seq(Doc)
    BY RenumberedTypes
  <2>3. todo[c] # <<>> =>
          /\ Put(push[c], Renumbered(c)) \in SUBSET Doc
          /\ IsFiniteSet(Put(push[c], Renumbered(c)))
    BY <2>1, <2>2, PutTypes
  <2>4. /\ pull[c] \ {Head(todo[c])} \in SUBSET Doc
        /\ IsFiniteSet(pull[c] \ {Head(todo[c])})
    BY <2>1, FS_Subset
  <2>5. StoreTypes'
    <3>1. CASE todo[c] = <<>>
      BY <1>5, <3>1 DEF TypeOK, MovePull, StoreTypes
    <3>2. CASE todo[c] # <<>>
      BY <1>5, <2>3, <2>4, <3>2, LogsChanged DEF TypeOK, MovePull
    <3> QED BY <3>1, <3>2
  <2>6. MemoryTypes'
    BY <1>5 DEF TypeOK, MovePull, Goto, MemoryTypes, memVars, setVars
  <2>7. SyncTypes'
    <3>1. CASE todo[c] = <<>>
      <4>1. todo' = [todo EXCEPT ![c] = <<>>]
        BY <1>5, <3>1 DEF TypeOK, SyncTypes, MovePull
      <4>2. "ending" \in Phases \ {"recording"} /\ 0 \in Nat
        BY DEF Phases
      <4> QED BY <1>5, <3>1, <4>1, <4>2, ConstantTypes, LoopMoved
           DEF TypeOK, MovePull, Goto
    <3>2. CASE todo[c] # <<>>
      <4>1. at[c] + 1 \in Nat /\ "moving" \in Phases \ {"recording"}
        BY DEF TypeOK, SyncTypes, Phases
      <4>2. phase' = [phase EXCEPT ![c] = "moving"]
        BY <1>5, <3>2 DEF TypeOK, SyncTypes, MovePull
      <4> QED BY <1>5, <2>2, <3>2, <4>1, <4>2, LoopMoved DEF TypeOK, MovePull
    <3> QED BY <3>1, <3>2
  <2>8. ServerTypes'
    BY <1>5 DEF TypeOK, MovePull, Goto, ServerTypes, netVars
  <2>9. HistoryTypes'
    BY <1>5 DEF TypeOK, MovePull, Goto, HistoryTypes, histVars
  <2> QED BY <2>5, <2>6, <2>7, <2>8, <2>9 DEF TypeOK
<1>6. ASSUME ClearStatus(c) PROVE TypeOK'
  <2>1. StoreTypes'
    BY <1>6 DEF TypeOK, ClearStatus, StoreTypes
  <2>2. MemoryTypes'
    BY <1>6 DEF TypeOK, ClearStatus, Goto, MemoryTypes, memVars, setVars
  <2>3. SyncTypes'
    BY <1>6 DEF TypeOK, ClearStatus, Goto, SyncTypes, Phases
  <2>4. ServerTypes'
    BY <1>6 DEF TypeOK, ClearStatus, Goto, ServerTypes, netVars
  <2>5. HistoryTypes'
    BY <1>6 DEF TypeOK, ClearStatus, Goto, HistoryTypes, histVars
  <2> QED BY <2>1, <2>2, <2>3, <2>4, <2>5 DEF TypeOK
<1>7. ASSUME ClearRemote(c) PROVE TypeOK'
  <2>1. StoreTypes'
    BY <1>7 DEF TypeOK, ClearRemote, StoreTypes
  <2>2. MemoryTypes'
    BY <1>7 DEF TypeOK, ClearRemote, MemoryTypes, setVars
  <2>3. SyncTypes'
    BY <1>7 DEF TypeOK, ClearRemote, Goto, SyncTypes, Phases
  <2>4. ServerTypes'
    BY <1>7 DEF TypeOK, ClearRemote, Goto, ServerTypes, netVars
  <2>5. HistoryTypes'
    BY <1>7 DEF TypeOK, ClearRemote, Goto, HistoryTypes, histVars
  <2> QED BY <2>1, <2>2, <2>3, <2>4, <2>5 DEF TypeOK
<1>8. ASSUME NewRemote(c) PROVE TypeOK'
  <2>1. keys < MaxKeys => keys + 1 \in Keys
    BY BoundsAssumption DEF TypeOK, HistoryTypes, Keys
  <2>2. StoreTypes'
    BY <1>8, <2>1 DEF TypeOK, NewRemote, StoreTypes
  <2>3. MemoryTypes'
    BY <1>8, <2>1 DEF TypeOK, NewRemote, MemoryTypes, setVars
  <2>4. SyncTypes'
    BY <1>8 DEF TypeOK, NewRemote, Goto, SyncTypes, Phases
  <2>5. ServerTypes'
    BY <1>8 DEF TypeOK, NewRemote, Goto, ServerTypes, netVars
  <2>6. HistoryTypes'
    BY <1>8, <2>1 DEF TypeOK, NewRemote, HistoryTypes
  <2> QED BY <2>2, <2>3, <2>4, <2>5, <2>6 DEF TypeOK
<1> QED BY <1>1, <1>2, <1>3, <1>4, <1>5, <1>6, <1>7, <1>8

LEMMA TypeFailure ==
  ASSUME TypeOK, NEW c \in Clients,
         Abort(c) \/ Crash(c)
  PROVE  TypeOK'
<1>1. ASSUME Abort(c) PROVE TypeOK'
  <2>1. stray' \subseteq Request
    BY <1>1 DEF TypeOK, Abort, StopSync, GiveUp, SyncTypes, ServerTypes
  <2>2. StoreTypes'
    BY <1>1 DEF TypeOK, Abort, StopSync, StoreTypes, storeVars
  <2>3. MemoryTypes'
    BY <1>1, ConstantTypes DEF TypeOK, Abort, MemoryTypes, memVars, setVars
  <2>4. SyncTypes'
    BY <1>1, ConstantTypes
       DEF TypeOK, Abort, StopSync, Goto, SyncTypes, Phases
  <2>5. ServerTypes'
    BY <1>1, <2>1 DEF TypeOK, Abort, ServerTypes
  <2>6. HistoryTypes'
    BY <1>1, BoundsAssumption DEF TypeOK, Abort, HistoryTypes
  <2> QED BY <2>2, <2>3, <2>4, <2>5, <2>6 DEF TypeOK
<1>2. ASSUME Crash(c) PROVE TypeOK'
  <2>1. stray' \subseteq Request
    BY <1>2 DEF TypeOK, Crash, StopSync, GiveUp, SyncTypes, ServerTypes
  <2>2. StoreTypes'
    BY <1>2 DEF TypeOK, Crash, StopSync, StoreTypes, storeVars
  <2>3. MemoryTypes'
    BY <1>2, ConstantTypes DEF TypeOK, Crash, MemoryTypes
  <2>4. SyncTypes'
    BY <1>2, ConstantTypes
       DEF TypeOK, Crash, StopSync, Goto, SyncTypes, Phases
  <2>5. ServerTypes'
    BY <1>2, <2>1 DEF TypeOK, Crash, ServerTypes
  <2>6. HistoryTypes'
    BY <1>2, BoundsAssumption
       DEF TypeOK, Crash, HistoryTypes, MemoryTypes, Doc
  <2> QED BY <2>2, <2>3, <2>4, <2>5, <2>6 DEF TypeOK
<1> QED BY <1>1, <1>2

LEMMA TypeStray ==
  ASSUME TypeOK, ServeStray
  PROVE  TypeOK'
<1>1. PICK r \in stray :
        /\ stray' = stray \ {r}
        /\ IF r.op = "delete"
             THEN RemoveLog(r)
             ELSE /\ IF Rejects(r) THEN UNCHANGED log ELSE Append2Log(r)
                  /\ UNCHANGED removed
        /\ UNCHANGED <<storeVars, memVars, setVars, syncVars, histVars>>
  BY DEF ServeStray
<1>2. r.key \in Keys /\ Appended(r.docs) \in Seq(Event)
  BY AppendedTypes DEF TypeOK, ServerTypes, Request
<1>3. log[r.key] \o Appended(r.docs) \in Seq(Event)
  BY <1>2 DEF TypeOK, ServerTypes
<1>4. StoreTypes'
  BY <1>1 DEF TypeOK, StoreTypes, storeVars
<1>5. MemoryTypes'
  BY <1>1 DEF TypeOK, MemoryTypes, memVars, setVars
<1>6. SyncTypes'
  BY <1>1 DEF TypeOK, SyncTypes, syncVars
<1>7. ServerTypes'
  BY <1>1, <1>2, <1>3, ConstantTypes
     DEF TypeOK, RemoveLog, Append2Log, ServerTypes
<1>8. HistoryTypes'
  BY <1>1 DEF TypeOK, HistoryTypes, histVars
<1> QED BY <1>4, <1>5, <1>6, <1>7, <1>8 DEF TypeOK

LEMMA TypeStutter ==
  ASSUME TypeOK, UNCHANGED vars
  PROVE  TypeOK'
<1>1. StoreTypes'
  BY DEF TypeOK, StoreTypes, vars, storeVars
<1>2. MemoryTypes'
  BY DEF TypeOK, MemoryTypes, vars, memVars, setVars
<1>3. SyncTypes'
  BY DEF TypeOK, SyncTypes, vars, syncVars
<1>4. ServerTypes'
  BY DEF TypeOK, ServerTypes, vars, netVars
<1>5. HistoryTypes'
  BY DEF TypeOK, HistoryTypes, vars, histVars
<1> QED BY <1>1, <1>2, <1>3, <1>4, <1>5 DEF TypeOK

\* Every step of a client, by the part of the code it belongs to.
LEMMA StepCases ==
  ASSUME NEW c \in Clients,
         \/ LocalWrite(c) \/ Unlock(c) \/ Lock(c)
         \/ Start(c) \/ SyncStep(c) \/ Abort(c) \/ Crash(c)
  PROVE  \/ LocalWrite(c)
         \/ Unlock(c) \/ Lock(c)
         \/ Sync(c) \/ ServePost(c) \/ Refused(c) \/ Posted(c) \/ ClearPush(c)
         \/ Pushed(c)
         \/ Pull(c) \/ PullNext(c) \/ (\E k \in 1..keys : Clone(c, k))
         \/ ApplyEvent(c) \/ RecordEvent(c) \/ PullDone(c)
         \/ Unsync(c) \/ ServeDelete(c) \/ ResetLog(c) \/ CopyPush(c)
         \/ MovePull(c) \/ ClearStatus(c) \/ ClearRemote(c) \/ NewRemote(c)
         \/ Abort(c) \/ Crash(c)
BY DEF Start, SyncStep

LEMMA TypeNext ==
  ASSUME TypeOK, [Next]_vars
  PROVE  TypeOK'
<1>1. CASE UNCHANGED vars
  BY <1>1, TypeStutter
<1>2. CASE ServeStray
  BY <1>2, TypeStray
<1>3. ASSUME NEW c \in Clients,
             \/ LocalWrite(c) \/ Unlock(c) \/ Lock(c)
             \/ Start(c) \/ SyncStep(c) \/ Abort(c) \/ Crash(c)
      PROVE  TypeOK'
  BY <1>3, StepCases, TypeLocalWrite, TypeUnlock, TypePush, TypePull,
     TypeUnsync, TypeFailure
<1> QED BY <1>1, <1>2, <1>3 DEF Next

\* The stores, the requests and the server's logs stay well formed.
THEOREM TypeCorrect == Spec => []TypeOK
<1>1. Init => TypeOK
  BY TypeInit
<1>2. TypeOK /\ [Next]_vars => TypeOK'
  BY TypeNext
<1> QED BY <1>1, <1>2, PTL DEF Spec

-----------------------------------------------------------------------------
(* Pushing: what ClientInv says of a client, and what steps leave alone     *)

\* The part of the invariant that is about one client
ClientInv(c) ==
  /\ phase[c] \notin {"copying", "moving", "ending", "renewing", "keying"}
  /\ PushNumbered(c) /\ Sending(c) /\ Clearing(c) /\ Kept(c)

\* What ClientInv(c) reads of the client stays as it is.
SameWrites(c) ==
  /\ push'[c] = push[c] /\ pushIndex'[c] = pushIndex[c]
  /\ acked'[c] = acked[c] /\ writing'[c] = writing[c] /\ cur'[c] = cur[c]

Same(c) ==
  /\ SameWrites(c)
  /\ rsalt'[c] = rsalt[c] /\ phase'[c] = phase[c]
  /\ req'[c] = req[c] /\ todo'[c] = todo[c]

\* A step of another client or of the server leaves a client alone.
Untouched(c) ==
  /\ Same(c)
  /\ store'[c] = store[c] /\ pull'[c] = pull[c] /\ pullIndex'[c] = pullIndex[c]
  /\ unlocked'[c] = unlocked[c] /\ remote'[c] = remote[c]
  /\ at'[c] = at[c] /\ torn'[c] = torn[c]
  /\ c \in unsynced' <=> c \in unsynced
  /\ c \in clean' <=> c \in clean

\* A vault gets longer at its end, until it is removed.
Longer(k) ==
  /\ Len(log[k]) <= Len(log'[k])
  /\ \A i \in 1..Len(log[k]) : log'[k][i] = log[k][i]

LogsGrow == removed \subseteq removed' /\ \A k \in Keys \ removed' : Longer(k)

\* So what it has, it keeps.
ServerGrows ==
  /\ removed \subseteq removed'
  /\ \A k \in Keys \ removed', e \in Event : InLog(k, e) => InLog(k, e)'

-----------------------------------------------------------------------------
(* The server                                                               *)

\* A POST adds its documents behind what there is.
LEMMA AppendKeeps ==
  ASSUME TypeOK, NEW r \in Request, Append2Log(r)
  PROVE  /\ \A k \in Keys : Longer(k)
         /\ \A i \in 1..Len(r.docs) :
              /\ Len(log[r.key]) + i \in 1..Len(log'[r.key])
              /\ log'[r.key][Len(log[r.key]) + i] = Entry(r.docs[i])
<1> DEFINE l == log[r.key]
           a == Appended(r.docs)
<1>1. /\ r.key \in Keys /\ r.docs \in Seq(Doc)
      /\ a \in Seq(Event) /\ Len(a) = Len(r.docs)
      /\ \A i \in 1..Len(r.docs) : a[i] = Entry(r.docs[i])
  BY AppendedTypes DEF Request
<1>2. l \in Seq(Event) /\ log \in [Keys -> Seq(Event)]
  BY <1>1 DEF TypeOK, ServerTypes
<1>3. log' = [log EXCEPT ![r.key] = l \o a]
  BY DEF Append2Log
<1> HIDE DEF l, a
<1>4. log'[r.key] = l \o a /\ \A k \in Keys : k # r.key => log'[k] = log[k]
  BY <1>1, <1>2, <1>3
<1>5. /\ Len(l) \in Nat /\ Len(a) \in Nat
      /\ Len(l \o a) = Len(l) + Len(a)
      /\ \A i \in 1..Len(l) + Len(a) : (l \o a)[i] =
           IF i <= Len(l) THEN l[i] ELSE a[i - Len(l)]
  <2>1. l \in Seq(Event) /\ a \in Seq(Event)
    BY <1>1, <1>2
  <2> QED BY <2>1, ConcatProperties
<1>6. ASSUME NEW k \in Keys PROVE Longer(k)
  <2>1. CASE k # r.key
    BY <1>2, <1>4, <2>1 DEF Longer
  <2>2. CASE k = r.key
    <3>1. Len(l) <= Len(l \o a) /\ \A i \in 1..Len(l) : (l \o a)[i] = l[i]
      BY <1>5
    <3> QED BY <1>4, <2>2, <3>1 DEF Longer, l
  <2> QED BY <2>1, <2>2
<1>7. ASSUME NEW i \in 1..Len(r.docs)
      PROVE  /\ Len(l) + i \in 1..Len(l \o a)
             /\ (l \o a)[Len(l) + i] = Entry(r.docs[i])
  BY <1>1, <1>5
<1> QED BY <1>4, <1>6, <1>7 DEF l

\* Only these steps have to do with the server's data.
LEMMA ServerUntouched ==
  ASSUME NEW c \in Clients,
         \/ LocalWrite(c) \/ Unlock(c) \/ Lock(c)
         \/ Start(c) \/ SyncStep(c) \/ Abort(c) \/ Crash(c)
  PROVE  ServePost(c) \/ ServeDelete(c) \/ UNCHANGED <<log, removed>>
<1>1. CASE LocalWrite(c)
  BY <1>1 DEF LocalWrite, SetItem, RemoveDoc, BeginWrite,
              NextPushIndex, AddToPush, netVars
<1>2. CASE Unlock(c) \/ Lock(c)
  BY <1>2 DEF Unlock, Lock, netVars
<1>3. CASE Sync(c) \/ Refused(c) \/ Posted(c) \/ ClearPush(c) \/ Pushed(c)
  BY <1>3 DEF Sync, Refused, Posted, ClearPush, Pushed, netVars
<1>4. CASE \/ Pull(c) \/ PullNext(c) \/ (\E k \in 1..keys : Clone(c, k))
           \/ ApplyEvent(c) \/ RecordEvent(c) \/ PullDone(c)
  BY <1>4 DEF Pull, PullNext, Clone, ApplyEvent, RecordEvent, PullDone,
              netVars
<1>5. CASE \/ Unsync(c) \/ ResetLog(c) \/ CopyPush(c) \/ MovePull(c)
           \/ ClearStatus(c) \/ ClearRemote(c) \/ NewRemote(c)
  BY <1>5 DEF Unsync, ResetLog, CopyPush, MovePull, ClearStatus,
              ClearRemote, NewRemote, netVars
<1>6. CASE Abort(c) \/ Crash(c)
  BY <1>6 DEF Abort, Crash
<1> QED BY <1>1, <1>2, <1>3, <1>4, <1>5, <1>6, StepCases

\* A vault that is removed is out of the picture, the others stay.
LEMMA RemoveGrows ==
  ASSUME TypeOK, NEW r \in Request, RemoveLog(r)
  PROVE  LogsGrow
<1>1. \A k \in Keys : Len(log[k]) \in Nat
  BY DEF TypeOK, ServerTypes
<1>2. \A k \in Keys \ removed' : log'[k] = log[k]
  BY DEF RemoveLog, TypeOK, ServerTypes, Request
<1> QED BY <1>1, <1>2 DEF RemoveLog, LogsGrow, Longer

\* No step rewrites a vault.
LEMMA LogsGrowStep ==
  ASSUME TypeOK, [Next]_vars
  PROVE  LogsGrow
<1>0. \A k \in Keys : log[k] \in Seq(Event) /\ Len(log[k]) \in Nat
  BY DEF TypeOK, ServerTypes
<1>1. CASE UNCHANGED <<log, removed>>
  BY <1>0, <1>1 DEF LogsGrow, Longer
<1>2. ASSUME NEW r \in Request, Append2Log(r), UNCHANGED removed PROVE LogsGrow
  BY <1>2, AppendKeeps DEF LogsGrow
<1>3. CASE ServeStray
  <2>1. PICK r \in stray :
          IF r.op = "delete"
            THEN RemoveLog(r)
            ELSE /\ IF Rejects(r) THEN UNCHANGED log ELSE Append2Log(r)
                 /\ UNCHANGED removed
    BY <1>3 DEF ServeStray
  <2>2. r \in Request
    BY DEF TypeOK, ServerTypes
  <2> QED BY <1>1, <1>2, <2>1, <2>2, RemoveGrows
<1>4. ASSUME NEW c \in Clients, ServePost(c) PROVE LogsGrow
  <2>1. req[c] \in Request
    BY DEF TypeOK, SyncTypes
  <2> QED BY <1>1, <1>2, <1>4, <2>1 DEF ServePost
<1>5. ASSUME NEW c \in Clients, ServeDelete(c) PROVE LogsGrow
  <2>1. req[c] \in Request
    BY DEF TypeOK, SyncTypes
  <2>2. RemoveLog(req[c])
    BY <1>5 DEF ServeDelete
  <2> QED BY <2>1, <2>2, RemoveGrows
<1>6. ASSUME NEW c \in Clients,
             \/ LocalWrite(c) \/ Unlock(c) \/ Lock(c)
             \/ Start(c) \/ SyncStep(c) \/ Abort(c) \/ Crash(c)
      PROVE  LogsGrow
  BY <1>1, <1>4, <1>5, <1>6, ServerUntouched
<1>7. CASE UNCHANGED vars
  BY <1>1, <1>7 DEF vars, netVars
<1> QED BY <1>3, <1>6, <1>7 DEF Next

LEMMA ServerStep ==
  ASSUME TypeOK, [Next]_vars
  PROVE  ServerGrows
<1>1. LogsGrow
  BY LogsGrowStep
<1>2. ASSUME NEW k \in Keys \ removed', NEW e \in Event, InLog(k, e)
      PROVE  InLog(k, e)'
  <2>1. PICK i \in 1..Len(log[k]) : log[k][i] = e
    BY <1>2 DEF InLog
  <2>2. Longer(k) /\ Len(log[k]) \in Nat
    BY <1>1 DEF LogsGrow, TypeOK, ServerTypes
  <2>3. Len(log'[k]) \in Nat
    BY TypeNext DEF TypeOK, ServerTypes
  <2>4. i \in 1..Len(log'[k]) /\ log'[k][i] = e
    BY <2>1, <2>2, <2>3 DEF Longer
  <2> QED BY <2>4 DEF InLog
<1> QED BY <1>1, <1>2 DEF LogsGrow, ServerGrows

-----------------------------------------------------------------------------
(* The steps of other clients                                               *)

\* Documents that are sent or cleared become events.
LEMMA EntryTypes ==
  ASSUME TypeOK, NEW c \in Clients
  PROVE  /\ \A i \in 1..Len(req[c].docs) : /\ req[c].docs[i] \in Doc
                                          /\ Entry(req[c].docs[i]) \in Event
         /\ \A i \in 1..Len(todo[c]) : /\ todo[c][i] \in Doc
                                     /\ Entry(todo[c][i]) \in Event
         /\ acked[c] \subseteq Event /\ push[c] \subseteq Doc
         /\ pushIndex[c] \in Nat /\ writes \in Nat /\ cur[c] \in Doc
         /\ rsalt[c] # NoKey => rsalt[c] \in Keys
<1>1. req[c].docs \in Seq(Doc) /\ todo[c] \in Seq(Doc)
  BY DEF TypeOK, SyncTypes, Request
<1>2. \A d \in Doc : Entry(d) \in Event
  BY DEF Doc, Event, Entry
<1>3. /\ \A i \in 1..Len(req[c].docs) : req[c].docs[i] \in Doc
      /\ \A i \in 1..Len(todo[c]) : todo[c][i] \in Doc
  BY <1>1
<1>4. /\ acked[c] \subseteq Event /\ push[c] \subseteq Doc
      /\ pushIndex[c] \in Nat /\ writes \in Nat /\ cur[c] \in Doc
      /\ rsalt[c] # NoKey => rsalt[c] \in Keys
  BY DEF TypeOK, HistoryTypes, StoreTypes, MemoryTypes
<1> QED BY <1>2, <1>3, <1>4

LEMMA OtherClient ==
  ASSUME NEW c \in Clients, NEW d \in Clients, c # d, TypeOK,
         \/ LocalWrite(d) \/ Unlock(d) \/ Lock(d)
         \/ Start(d) \/ SyncStep(d) \/ Abort(d) \/ Crash(d)
  PROVE  Untouched(c)
<1> USE DEF Untouched, Same, SameWrites
<1>0. /\ push \in [Clients -> SUBSET Doc] /\ pushIndex \in [Clients -> Nat]
      /\ rsalt \in [Clients -> Keys \cup {NoKey}]
      /\ acked \in [Clients -> SUBSET Event]
      /\ writing \in [Clients -> {"no", "stored", "indexed"}]
      /\ cur \in [Clients -> Doc] /\ phase \in [Clients -> Phases]
      /\ req \in [Clients -> Request] /\ todo \in [Clients -> Seq(Doc)]
      /\ store \in [Clients -> [Paths -> Data]]
      /\ pull \in [Clients -> SUBSET Doc] /\ pullIndex \in [Clients -> Nat]
      /\ unlocked \in [Clients -> BOOLEAN]
      /\ remote \in [Clients -> Keys \cup {NoKey}]
      /\ at \in [Clients -> Nat] /\ torn \in [Clients -> SUBSET Paths]
      /\ unsynced \subseteq Clients /\ clean \subseteq Clients
  BY DEF TypeOK, StoreTypes, MemoryTypes, SyncTypes, HistoryTypes
<1>1. CASE LocalWrite(d)
  <2>1. CASE \E p \in Paths : SetItem(d, p) \/ RemoveDoc(d, p)
    BY <1>0, <2>1 DEF SetItem, RemoveDoc, BeginWrite, memVars, syncVars
  <2>2. CASE NextPushIndex(d)
    BY <1>0, <2>2 DEF NextPushIndex, memVars, syncVars, histVars
  <2>3. CASE AddToPush(d)
    BY <1>0, <2>3 DEF AddToPush, memVars, syncVars
  <2> QED BY <1>1, <2>1, <2>2, <2>3 DEF LocalWrite
<1>2. CASE Unlock(d) \/ Lock(d)
  BY <1>0, <1>2 DEF Unlock, Lock, storeVars, memVars, setVars, syncVars
<1>3. CASE \/ Sync(d) \/ ServePost(d) \/ Refused(d) \/ Posted(d)
           \/ ClearPush(d) \/ Pushed(d)
  <2>1. CASE Sync(d) \/ ServePost(d) \/ Refused(d)
    BY <1>0, <2>1 DEF Sync, ServePost, Refused, Goto, storeVars, memVars, setVars,
                      histVars
  <2>2. CASE Posted(d) \/ ClearPush(d) \/ Pushed(d)
    BY <1>0, <2>2 DEF Posted, ClearPush, Pushed, Goto, storeVars, memVars, setVars,
                      histVars
  <2> QED BY <1>3, <2>1, <2>2
<1>4. CASE \/ Pull(d) \/ PullNext(d) \/ (\E k \in 1..keys : Clone(d, k))
           \/ ApplyEvent(d) \/ RecordEvent(d) \/ PullDone(d)
  <2>1. CASE Pull(d) \/ PullNext(d)
    BY <1>0, <2>1 DEF Pull, PullNext, Receive, Goto, storeVars, memVars, setVars,
                      histVars
  <2>2. CASE \E k \in 1..keys : Clone(d, k)
    BY <1>0, <2>2 DEF Clone, Receive, Goto, memVars, setVars, histVars
  <2>3. CASE ApplyEvent(d) \/ RecordEvent(d)
    BY <1>0, <2>3 DEF ApplyEvent, RecordEvent, Applied, Goto, memVars, setVars, histVars
  <2>4. CASE PullDone(d)
    BY <1>0, <2>4 DEF PullDone, Goto, setVars, histVars
  <2> QED BY <1>4, <2>1, <2>2, <2>3, <2>4
<1>5. CASE \/ Unsync(d) \/ ServeDelete(d) \/ ResetLog(d) \/ CopyPush(d)
           \/ MovePull(d) \/ ClearStatus(d) \/ ClearRemote(d) \/ NewRemote(d)
  BY <1>0, <1>5 DEF Unsync, ServeDelete, ResetLog, CopyPush, MovePull, ClearStatus,
              ClearRemote, NewRemote, Goto, storeVars, memVars, setVars, histVars
<1>6. CASE Abort(d) \/ Crash(d)
  BY <1>0, <1>6 DEF Abort, Crash, StopSync, Goto, storeVars, memVars, setVars
<1> QED BY <1>1, <1>2, <1>3, <1>4, <1>5, <1>6, StepCases

LEMMA ServerAlone ==
  ASSUME NEW c \in Clients, UNCHANGED vars \/ ServeStray
  PROVE  Untouched(c)
BY DEF ServeStray, Untouched, Same, SameWrites, vars, storeVars, memVars,
       setVars, syncVars, histVars

\* What the server has stays there as long as the vault does.
LEMMA SendingKept ==
  ASSUME TypeOK, ServerGrows, NEW c \in Clients, Sending(c),
         push[c] \subseteq push'[c], rsalt'[c] = rsalt[c],
         phase'[c] = phase[c], req'[c] = req[c]
  PROVE  Sending(c)'
<1>1. CASE phase[c] = "posted" /\ rsalt[c] \notin removed'
  <2>1. req[c].key = rsalt[c] /\ req[c].key \in Keys
    BY <1>1 DEF Sending, TypeOK, SyncTypes, Request
  <2>2. \A i \in 1..Len(req[c].docs) : InLog(rsalt[c], Entry(req[c].docs[i]))
    BY <1>1 DEF Sending, ServerGrows
  <2>3. \A i \in 1..Len(req[c].docs) :
          InLog(rsalt[c], Entry(req[c].docs[i]))'
    BY <1>1, <2>1, <2>2, EntryTypes DEF ServerGrows
  <2> QED BY <2>3 DEF Sending
<1>2. CASE ~(phase[c] = "posted" /\ rsalt[c] \notin removed')
  BY <1>2 DEF Sending
<1> QED BY <1>1, <1>2

\* What a client has sent and acknowledged survives what others do, and its
\* own steps that leave it alone.
LEMMA LocalKept ==
  ASSUME TypeOK, ServerGrows, NEW c \in Clients, ClientInv(c),
         unsynced \subseteq unsynced', Same(c),
         writes' \in Nat, writes <= writes'
  PROVE  ClientInv(c)'
<1> USE DEF Same, SameWrites
<1>1. PushNumbered(c)'
  <2>1. \A d \in push[c] : d.data \in Nat
    BY EntryTypes DEF Doc, Data
  <2>2. cur[c].data \in Nat /\ writes \in Nat
    BY EntryTypes DEF Doc, Data
  <2> QED BY <2>1, <2>2 DEF ClientInv, PushNumbered
<1>2. Sending(c)'
  BY SendingKept DEF ClientInv
<1>3. Clearing(c)'
  BY EntryTypes DEF ClientInv, Clearing, ServerGrows
<1>4. Kept(c)'
  BY EntryTypes DEF ClientInv, Kept, InVault, ServerGrows
<1>5. phase'[c] \notin {"copying", "moving", "ending", "renewing", "keying"}
  BY DEF ClientInv
<1> QED BY <1>1, <1>2, <1>3, <1>4, <1>5 DEF ClientInv

-----------------------------------------------------------------------------
(* The client's own steps                                                   *)

\* Steps outside of push and outside of local writes
LEMMA Moved ==
  ASSUME TypeOK, ServerGrows, NEW c \in Clients, ClientInv(c),
         unsynced \subseteq unsynced', SameWrites(c), rsalt'[c] = rsalt[c],
         writes' = writes,
         phase'[c] \notin {"posting", "posted", "clearing", "copying",
                          "moving", "ending", "renewing", "keying"}
  PROVE  ClientInv(c)'
<1> USE DEF SameWrites
<1>1. PushNumbered(c)'
  BY DEF ClientInv, PushNumbered
<1>2. Sending(c)' /\ Clearing(c)'
  BY DEF Sending, Clearing
<1>3. Kept(c)'
  BY EntryTypes DEF ClientInv, Kept, InVault, ServerGrows
<1> QED BY <1>1, <1>2, <1>3 DEF ClientInv

\* A local write begins: the document is younger than all that is pending.
LEMMA KeptBegin ==
  ASSUME TypeOK, ServerGrows, NEW c \in Clients, ClientInv(c),
         NEW p \in Paths, SetItem(c, p) \/ RemoveDoc(c, p)
  PROVE  ClientInv(c)'
<1> PICK d \in Data : /\ BeginWrite(c, p, d) /\ writes' = writes + 1
                      /\ d = NoData \/ d = writes + 1
  BY DEF SetItem, RemoveDoc, TypeOK, HistoryTypes, Data, NoData
<1>0. /\ writing \in [Clients -> {"no", "stored", "indexed"}]
      /\ cur \in [Clients -> Doc] /\ writes \in Nat
  BY DEF TypeOK, MemoryTypes, HistoryTypes
<1>1. /\ push' = push /\ pushIndex' = pushIndex /\ acked' = acked
      /\ rsalt' = rsalt /\ phase' = phase /\ req' = req /\ todo' = todo
      /\ unsynced' = unsynced
      /\ writing[c] = "no" /\ writing'[c] = "stored"
      /\ cur'[c].data = d
  BY <1>0 DEF BeginWrite, syncVars
<1>2. PushNumbered(c)'
  <2>1. \A e \in push[c] : e.data \in Nat /\ e.data <= writes
    BY EntryTypes DEF ClientInv, PushNumbered, Doc, Data
  <2>2. /\ cur'[c].data <= writes'
        /\ cur'[c].data # NoData => \A e \in push'[c] : e.data < cur'[c].data
    BY <1>0, <1>1, <2>1 DEF NoData
  <2>3. \A e \in push'[c] : e.idx <= pushIndex'[c] /\ e.data <= writes'
    BY <1>0, <1>1, <2>1 DEF ClientInv, PushNumbered
  <2> QED BY <1>1, <2>2, <2>3 DEF ClientInv, PushNumbered
<1>3. Sending(c)'
  BY <1>1, SendingKept DEF ClientInv
<1>4. Clearing(c)' /\ Kept(c)'
  BY <1>1, EntryTypes DEF ClientInv, Clearing, Kept, InVault, ServerGrows
<1> QED BY <1>1, <1>2, <1>3, <1>4 DEF ClientInv

LEMMA KeptIndex ==
  ASSUME TypeOK, ServerGrows, NEW c \in Clients, ClientInv(c),
         NextPushIndex(c)
  PROVE  ClientInv(c)'
<1>0. /\ writing \in [Clients -> {"no", "stored", "indexed"}]
      /\ cur \in [Clients -> Doc] /\ pushIndex \in [Clients -> Nat]
  BY DEF TypeOK, MemoryTypes, StoreTypes
<1>1. /\ push' = push /\ acked' = acked /\ writes' = writes
      /\ rsalt' = rsalt /\ phase' = phase /\ req' = req /\ todo' = todo
      /\ unsynced' = unsynced
      /\ writing[c] = "stored" /\ writing'[c] = "indexed"
      /\ pushIndex'[c] = pushIndex[c] + 1 /\ pushIndex[c] \in Nat
      /\ cur'[c].data = cur[c].data /\ cur'[c].idx = pushIndex[c] + 1
  BY <1>0 DEF NextPushIndex, syncVars, histVars, Doc
<1>2. PushNumbered(c)'
  <2>1. \A d \in push[c] : d.idx \in Nat /\ d.idx <= pushIndex[c]
    BY EntryTypes DEF ClientInv, PushNumbered, Doc
  <2> QED BY <1>1, <2>1 DEF ClientInv, PushNumbered
<1>3. Clearing(c)'
  <2>1. \A i \in 1..Len(todo[c]) : todo[c][i].idx \in Nat
    BY EntryTypes DEF Doc
  <2> QED BY <1>1, <2>1, EntryTypes DEF ClientInv, Clearing, ServerGrows
<1>4. Sending(c)'
  BY <1>1, SendingKept DEF ClientInv
<1>5. Kept(c)'
  BY <1>1, EntryTypes DEF ClientInv, Kept, InVault, ServerGrows
<1> QED BY <1>1, <1>2, <1>3, <1>4, <1>5 DEF ClientInv

\* The push entry goes behind all others, so it replaces none of them.
LEMMA KeptAdd ==
  ASSUME TypeOK, ServerGrows, NEW c \in Clients, ClientInv(c), AddToPush(c)
  PROVE  ClientInv(c)'
<1>0. /\ writing \in [Clients -> {"no", "stored", "indexed"}]
      /\ push \in [Clients -> SUBSET Doc] /\ acked \in [Clients -> SUBSET Event]
      /\ cur[c] \in Doc
  BY DEF TypeOK, MemoryTypes, StoreTypes, HistoryTypes
<1>1. /\ pushIndex' = pushIndex /\ writes' = writes
      /\ rsalt' = rsalt /\ phase' = phase /\ req' = req /\ todo' = todo
      /\ unsynced' = unsynced
      /\ writing[c] = "indexed" /\ writing'[c] = "no"
      /\ push'[c] = Put(push[c], cur[c])
      /\ acked'[c] = acked[c] \cup {Entry(cur[c])}
  BY <1>0 DEF AddToPush, syncVars
<1>2. /\ cur[c].idx = pushIndex[c] /\ 1 <= pushIndex[c]
      /\ cur[c].data <= writes
      /\ cur[c].data # NoData => \A d \in push[c] : d.data < cur[c].data
      /\ \A d \in push[c] : d.idx < pushIndex[c]
  BY <1>1 DEF ClientInv, PushNumbered
<1>3. \A d \in push[c] : /\ d.idx \in Nat /\ d.data \in Nat
                        /\ cur[c].idx \in Nat /\ cur[c].data \in Nat
  BY <1>0, EntryTypes DEF Doc, Data
<1>4. push'[c] = push[c] \cup {cur[c]}
  BY <1>1, <1>2, <1>3 DEF Put
<1>5. PushNumbered(c)'
  <2>1. \A d, e \in push'[c] : d.idx = e.idx => d = e
    BY <1>2, <1>3, <1>4 DEF ClientInv, PushNumbered
  <2>2. \A d \in push'[c] : d.idx <= pushIndex'[c] /\ d.data <= writes'
    BY <1>0, <1>1, <1>2, <1>4, EntryTypes DEF ClientInv, PushNumbered
  <2>3. \A d, e \in push'[c] :
          d.data # NoData /\ d.data < e.data => d.idx < e.idx
    <3> SUFFICES ASSUME NEW d \in push'[c], NEW e \in push'[c],
                        d.data # NoData, d.data < e.data
                 PROVE  d.idx < e.idx
      OBVIOUS
    <3>1. d.data \in Nat /\ e.data \in Nat
      BY <1>0, <1>4, EntryTypes DEF Doc, Data
    <3>2. CASE d \in push[c] /\ e \in push[c]
      BY <3>2 DEF ClientInv, PushNumbered
    <3>3. CASE d \in push[c] /\ e = cur[c]
      BY <1>2, <3>3
    <3>4. CASE d = cur[c] /\ e \in push[c]
      BY <1>2, <3>1, <3>4
    <3>5. CASE d = cur[c] /\ e = cur[c]
      BY <3>1, <3>5
    <3> QED BY <1>4, <3>2, <3>3, <3>4, <3>5
  <2> QED BY <1>1, <1>2, <2>1, <2>2, <2>3 DEF PushNumbered
<1>6. Sending(c)'
  BY <1>1, <1>4, SendingKept DEF ClientInv
<1>7. Clearing(c)'
  <2>1. \A i \in 1..Len(todo[c]) : todo[c][i].idx \in Nat
    BY EntryTypes DEF Doc
  <2> QED BY <1>1, <1>2, <1>4, <2>1, EntryTypes
       DEF ClientInv, Clearing, ServerGrows
<1>8. Kept(c)'
  BY <1>1, <1>4, EntryTypes DEF ClientInv, Kept, InVault, ServerGrows
<1> QED BY <1>1, <1>5, <1>6, <1>7, <1>8 DEF ClientInv

\* Sync sends documents of the push log, to the vault the client is in.
LEMMA KeptSync ==
  ASSUME TypeOK, ServerGrows, NEW c \in Clients, ClientInv(c),
         remote[c] \in {NoKey, rsalt[c]}, Sync(c)
  PROVE  ClientInv(c)'
<1>0. /\ phase \in [Clients -> Phases] /\ req \in [Clients -> Request]
      /\ push[c] \in SUBSET Doc /\ IsFiniteSet(push[c])
  BY DEF TypeOK, SyncTypes, StoreTypes
<1>1. /\ SameWrites(c) /\ rsalt' = rsalt /\ writes' = writes
      /\ unsynced' = unsynced
      /\ \/ phase'[c] = "pulling"
         \/ /\ phase'[c] = "posting"
            /\ req'[c].key = rsalt[c] /\ req'[c].docs = Listing(push[c])
  BY <1>0 DEF Sync, Goto, SameWrites, storeVars, setVars, histVars
<1>2. CASE phase'[c] = "pulling"
  BY <1>1, <1>2, Moved
<1>3. CASE /\ phase'[c] = "posting"
           /\ req'[c].key = rsalt[c] /\ req'[c].docs = Listing(push[c])
  <2>1. PushNumbered(c)'
    BY <1>1 DEF ClientInv, PushNumbered, SameWrites
  <2>2. Sending(c)'
    BY <1>0, <1>1, <1>3, ListingOfLog DEF Sending, SameWrites
  <2>3. Clearing(c)' /\ phase'[c] = "posting"
    BY <1>3 DEF Clearing
  <2>4. Kept(c)'
    BY <1>1, EntryTypes DEF ClientInv, Kept, InVault, ServerGrows, SameWrites
  <2> QED BY <2>1, <2>2, <2>3, <2>4 DEF ClientInv
<1> QED BY <1>1, <1>2, <1>3

\* The server takes the whole request or refuses it.
LEMMA KeptPost ==
  ASSUME TypeOK, ServerGrows, NEW c \in Clients, ClientInv(c), ServePost(c)
  PROVE  ClientInv(c)'
<1>0. /\ phase \in [Clients -> Phases] /\ req[c] \in Request
  BY DEF TypeOK, SyncTypes
<1>1. /\ SameWrites(c) /\ rsalt' = rsalt /\ writes' = writes
      /\ unsynced' = unsynced /\ req' = req /\ removed' = removed
      /\ phase[c] = "posting"
      /\ \/ phase'[c] = "refused"
         \/ phase'[c] = "posted" /\ Append2Log(req[c])
  BY <1>0 DEF ServePost, Goto, SameWrites, storeVars, setVars, histVars
<1>2. CASE phase'[c] = "refused"
  BY <1>1, <1>2, Moved
<1>3. CASE phase'[c] = "posted" /\ Append2Log(req[c])
  <2>1. PushNumbered(c)'
    BY <1>1 DEF ClientInv, PushNumbered, SameWrites
  <2>2. Sending(c)'
    <3>1. \A i \in 1..Len(req[c].docs) :
            \E j \in 1..Len(log'[req[c].key]) :
              log'[req[c].key][j] = Entry(req[c].docs[i])
      BY <1>0, <1>3, AppendKeeps
    <3> QED BY <1>1, <1>3, <3>1 DEF ClientInv, Sending, SameWrites, InLog
  <2>3. Clearing(c)' /\ phase'[c] = "posted"
    BY <1>3 DEF Clearing
  <2>4. Kept(c)'
    BY <1>1, EntryTypes DEF ClientInv, Kept, InVault, ServerGrows, SameWrites
  <2> QED BY <2>1, <2>2, <2>3, <2>4 DEF ClientInv
<1> QED BY <1>1, <1>2, <1>3

\* What gets cleared is what the server has.
LEMMA KeptPosted ==
  ASSUME TypeOK, ServerGrows, NEW c \in Clients, ClientInv(c), Posted(c)
  PROVE  ClientInv(c)'
<1>0. /\ phase \in [Clients -> Phases] /\ req[c] \in Request
      /\ todo \in [Clients -> Seq(Doc)]
  BY DEF TypeOK, SyncTypes
<1>1. /\ SameWrites(c) /\ rsalt' = rsalt /\ writes' = writes
      /\ unsynced' = unsynced /\ removed' = removed /\ log' = log
      /\ phase[c] = "posted" /\ phase'[c] = "clearing"
      /\ todo'[c] = req[c].docs
  BY <1>0 DEF Posted, Goto, SameWrites, storeVars, setVars, histVars, netVars
<1>2. PushNumbered(c)' /\ Sending(c)'
  BY <1>1 DEF ClientInv, PushNumbered, SameWrites, Sending
<1>3. Clearing(c)'
  <2>1. rsalt[c] # NoKey
    BY <1>0, <1>1 DEF ClientInv, Sending, Request, Keys, NoKey
  <2>2. \A i \in 1..Len(req[c].docs) : req[c].docs[i] \in push[c]
    BY <1>1 DEF ClientInv, Sending
  <2>3. \A i \in 1..Len(req[c].docs) :
          rsalt[c] \notin removed => InLog(rsalt[c], Entry(req[c].docs[i]))
    BY <1>1 DEF ClientInv, Sending
  <2>4. PushNumbered(c)
    BY DEF ClientInv
  <2> QED BY <1>1, <2>1, <2>2, <2>3, <2>4
       DEF Clearing, PushNumbered, SameWrites, InLog
<1>4. Kept(c)'
  BY <1>1, EntryTypes DEF ClientInv, Kept, InVault, ServerGrows, SameWrites
<1> QED BY <1>1, <1>2, <1>3, <1>4 DEF ClientInv

LEMMA KeptClear ==
  ASSUME TypeOK, ServerGrows, NEW c \in Clients, ClientInv(c), ClearPush(c)
  PROVE  ClientInv(c)'
<1>0. /\ push \in [Clients -> SUBSET Doc] /\ todo \in [Clients -> Seq(Doc)]
  BY DEF TypeOK, SyncTypes, StoreTypes
<1>1. /\ push'[c] = Keeps(c) /\ todo'[c] = Tail(todo[c]) /\ todo[c] # <<>>
      /\ pushIndex' = pushIndex /\ acked' = acked /\ writing' = writing
      /\ cur' = cur /\ rsalt' = rsalt /\ writes' = writes
      /\ unsynced' = unsynced /\ removed' = removed /\ log' = log
      /\ phase[c] = "clearing" /\ phase' = phase
  BY <1>0 DEF ClearPush, setVars, histVars, netVars
<1>2. push'[c] \subseteq push[c]
  BY <1>1 DEF Keeps
<1>3. /\ todo[c][1] = Head(todo[c]) /\ 1 \in 1..Len(todo[c])
      /\ \A i \in 1..Len(todo'[c]) : /\ todo'[c][i] = todo[c][i + 1]
                                   /\ i + 1 \in 1..Len(todo[c])
  BY <1>0, <1>1
<1>4. PushNumbered(c)'
  BY <1>1, <1>2 DEF ClientInv, PushNumbered
<1>5. Sending(c)'
  BY <1>1 DEF Sending
<1>6. Clearing(c)'
  BY <1>1, <1>2, <1>3 DEF ClientInv, Clearing, InLog
<1>7. Kept(c)'
  <2>1. ASSUME InVault(c), NEW d \in push[c], d \notin push'[c]
        PROVE  InLog(rsalt[c], Entry(d))
    <3>1. d.idx = todo[c][1].idx
      BY <1>1, <1>3, <2>1 DEF Keeps
    <3>2. d = todo[c][1]
      BY <1>1, <1>3, <3>1 DEF ClientInv, Clearing
    <3> QED BY <1>1, <1>3, <2>1, <3>2 DEF ClientInv, Clearing, InVault
  <2>2. \A k, e : InLog(k, e)' <=> InLog(k, e)
    BY <1>1 DEF InLog
  <2> QED BY <1>1, <2>1, <2>2 DEF ClientInv, Kept, InVault
<1> QED BY <1>1, <1>4, <1>5, <1>6, <1>7 DEF ClientInv

\* A client that joins a vault has no writes to lose.
LEMMA KeptClone ==
  ASSUME TypeOK, ServerGrows, NEW c \in Clients, ClientInv(c),
         NEW k \in 1..keys, Clone(c, k)
  PROVE  ClientInv(c)'
<1>0. phase \in [Clients -> Phases]
  BY DEF TypeOK, SyncTypes
<1>1. /\ SameWrites(c) /\ writes' = writes /\ unsynced' = unsynced
      /\ phase'[c] \in {"idle", "applying"} /\ pushIndex[c] = 0
  BY <1>0 DEF Clone, Receive, Goto, Idle, IsEmpty, SameWrites, setVars,
              histVars
<1>2. acked'[c] = {}
  BY <1>1 DEF ClientInv, PushNumbered, SameWrites
<1>3. PushNumbered(c)'
  BY <1>1 DEF ClientInv, PushNumbered, SameWrites
<1>4. Sending(c)' /\ Clearing(c)' /\ Kept(c)'
  BY <1>1, <1>2 DEF Sending, Clearing, Kept
<1> QED BY <1>1, <1>3, <1>4 DEF ClientInv

\* A crash leaves what was written so far.
LEMMA KeptCrash ==
  ASSUME TypeOK, ServerGrows, NEW c \in Clients, ClientInv(c), Crash(c)
  PROVE  ClientInv(c)'
<1>0. /\ phase \in [Clients -> Phases]
      /\ writing \in [Clients -> {"no", "stored", "indexed"}]
  BY DEF TypeOK, SyncTypes, MemoryTypes
<1>1. /\ push' = push /\ pushIndex' = pushIndex /\ acked' = acked
      /\ rsalt' = rsalt /\ writes' = writes /\ unsynced' = unsynced
      /\ writing'[c] = "no" /\ phase'[c] = "idle"
  BY <1>0 DEF Crash, StopSync, Goto, storeVars
<1>2. PushNumbered(c)'
  BY <1>1 DEF ClientInv, PushNumbered
<1>3. Sending(c)' /\ Clearing(c)'
  BY <1>1 DEF Sending, Clearing
<1>4. Kept(c)'
  BY <1>1, EntryTypes DEF ClientInv, Kept, InVault, ServerGrows
<1> QED BY <1>1, <1>2, <1>3, <1>4 DEF ClientInv

\* Steps that have nothing to do with sending
LEMMA KeptMoved ==
  ASSUME TypeOK, ServerGrows, NEW c \in Clients, ClientInv(c),
         \/ Refused(c) \/ Pushed(c) \/ Pull(c) \/ PullNext(c)
         \/ ApplyEvent(c) \/ RecordEvent(c) \/ PullDone(c)
         \/ Unsync(c) \/ ServeDelete(c) \/ Abort(c)
  PROVE  ClientInv(c)'
<1>0. phase \in [Clients -> Phases]
  BY DEF TypeOK, SyncTypes
<1> DEFINE Done ==
      /\ SameWrites(c) /\ rsalt' = rsalt /\ writes' = writes
      /\ unsynced' = unsynced
      /\ phase'[c] \in {"idle", "pulling", "applying", "recording",
                        "deleting", "deleted", "refused"}
<1> USE DEF Goto, SameWrites, storeVars, setVars, histVars
<1>1. CASE Refused(c) \/ Pushed(c) \/ Pull(c) \/ Unsync(c)
  <2>1. Done
    BY <1>0, <1>1 DEF Refused, Pushed, Pull, Unsync
  <2> QED BY <2>1, Moved
<1>2. CASE PullNext(c)
  <2>1. Done
    BY <1>0, <1>2 DEF PullNext, Receive
  <2> QED BY <2>1, Moved
<1>3. CASE ApplyEvent(c) \/ RecordEvent(c) \/ PullDone(c)
  <2>1. Done
    BY <1>0, <1>3 DEF ApplyEvent, RecordEvent, PullDone
  <2> QED BY <2>1, Moved
<1>4. CASE ServeDelete(c) \/ Abort(c)
  <2>1. Done
    BY <1>0, <1>4 DEF ServeDelete, Abort, StopSync
  <2> QED BY <2>1, Moved
<1> QED BY <1>1, <1>2, <1>3, <1>4

\* Unlock and Lock
LEMMA KeptUnlock ==
  ASSUME TypeOK, ServerGrows, NEW c \in Clients, ClientInv(c),
         c \notin unsynced', Unlock(c) \/ Lock(c)
  PROVE  ClientInv(c)'
<1>1. /\ Same(c) /\ writes' = writes /\ unsynced \subseteq unsynced'
  BY DEF Unlock, Lock, Same, SameWrites, storeVars, setVars, syncVars
<1>2. writes' \in Nat /\ writes <= writes'
  BY <1>1 DEF TypeOK, HistoryTypes
<1> QED BY <1>1, <1>2, LocalKept

-----------------------------------------------------------------------------

LEMMA UnsyncedGrows ==
  ASSUME TypeOK, [Next]_vars
  PROVE  /\ unsynced \subseteq unsynced'
         /\ writes' \in Nat /\ writes <= writes'
<1>0. writes \in Nat
  BY DEF TypeOK, HistoryTypes
<1>1. CASE UNCHANGED vars \/ ServeStray
  BY <1>0, <1>1 DEF ServeStray, vars, histVars
<1>2. ASSUME NEW c \in Clients,
             \/ LocalWrite(c) \/ Unlock(c) \/ Lock(c)
             \/ Start(c) \/ SyncStep(c) \/ Abort(c) \/ Crash(c)
      PROVE  /\ unsynced \subseteq unsynced'
             /\ writes' \in Nat /\ writes <= writes'
  <2> USE <1>0 DEF histVars
  <2>1. CASE LocalWrite(c)
    BY <2>1 DEF LocalWrite, SetItem, RemoveDoc, BeginWrite, NextPushIndex,
                AddToPush
  <2>2. CASE Unlock(c) \/ Lock(c)
    BY <2>2 DEF Unlock, Lock
  <2>3. CASE \/ Sync(c) \/ ServePost(c) \/ Refused(c) \/ Posted(c)
             \/ ClearPush(c) \/ Pushed(c)
    BY <2>3 DEF Sync, ServePost, Refused, Posted, ClearPush, Pushed
  <2>4. CASE \/ Pull(c) \/ PullNext(c) \/ (\E k \in 1..keys : Clone(c, k))
             \/ ApplyEvent(c) \/ RecordEvent(c) \/ PullDone(c)
    BY <2>4 DEF Pull, PullNext, Clone, ApplyEvent, RecordEvent, PullDone
  <2>5. CASE \/ Unsync(c) \/ ServeDelete(c) \/ ResetLog(c) \/ CopyPush(c)
             \/ MovePull(c) \/ ClearStatus(c) \/ ClearRemote(c)
             \/ NewRemote(c)
    BY <2>5 DEF Unsync, ServeDelete, ResetLog, CopyPush, MovePull, ClearStatus,
                ClearRemote, NewRemote
  <2>6. CASE Abort(c) \/ Crash(c)
    BY <2>6 DEF Abort, Crash
  <2> QED BY <1>2, <2>1, <2>2, <2>3, <2>4, <2>5, <2>6, StepCases
<1> QED BY <1>1, <1>2 DEF Next

\* A vault's remote is the one its salt derives, or none.
LEMMA RemoteStep ==
  ASSUME TypeOK, [Next]_vars, \A c \in Clients : remote[c] \in {NoKey, rsalt[c]}
  PROVE  \A c \in Clients : remote'[c] \in {NoKey, rsalt'[c]}
<1>0. /\ remote \in [Clients -> Keys \cup {NoKey}]
      /\ rsalt \in [Clients -> Keys \cup {NoKey}]
  BY DEF TypeOK, StoreTypes, MemoryTypes
<1>1. CASE UNCHANGED <<rsalt, remote>>
  BY <1>1
<1>2. CASE UNCHANGED vars \/ ServeStray
  BY <1>1, <1>2 DEF ServeStray, vars, storeVars, memVars
<1>3. ASSUME NEW d \in Clients,
             \/ LocalWrite(d) \/ Unlock(d) \/ Lock(d)
             \/ Start(d) \/ SyncStep(d) \/ Abort(d) \/ Crash(d)
      PROVE  \A c \in Clients : remote'[c] \in {NoKey, rsalt'[c]}
  <2> USE DEF storeVars, memVars
  <2>1. CASE LocalWrite(d)
    BY <1>1, <2>1 DEF LocalWrite, SetItem, RemoveDoc, BeginWrite,
                      NextPushIndex, AddToPush
  <2>2. CASE Unlock(d)
    BY <1>0, <2>2 DEF Unlock
  <2>3. CASE Lock(d)
    BY <1>0, <2>3 DEF Lock
  <2>4. CASE \/ Sync(d) \/ ServePost(d) \/ Refused(d) \/ Posted(d)
             \/ ClearPush(d) \/ Pushed(d)
    BY <1>1, <2>4 DEF Sync, ServePost, Refused, Posted, ClearPush, Pushed
  <2>5. CASE Pull(d) \/ PullNext(d) \/ ApplyEvent(d) \/ RecordEvent(d)
    BY <1>1, <2>5 DEF Pull, PullNext, ApplyEvent, RecordEvent
  <2>6. CASE \E k \in 1..keys : Clone(d, k)
    BY <1>0, <2>6 DEF Clone
  <2>7. CASE PullDone(d)
    BY <1>0, <2>7 DEF PullDone
  <2>8. CASE \/ Unsync(d) \/ ServeDelete(d) \/ ResetLog(d) \/ CopyPush(d)
             \/ MovePull(d) \/ ClearStatus(d) \/ Abort(d)
    BY <1>1, <2>8 DEF Unsync, ServeDelete, ResetLog, CopyPush, MovePull,
                      ClearStatus, Abort
  <2>9. CASE ClearRemote(d) \/ NewRemote(d)
    BY <1>0, <2>9 DEF ClearRemote, NewRemote
  <2>10. CASE Crash(d)
    BY <1>0, <2>10 DEF Crash
  <2> QED BY <1>3, <2>1, <2>2, <2>3, <2>4, <2>5, <2>6, <2>7, <2>8, <2>9,
             <2>10, StepCases
<1> QED BY <1>2, <1>3 DEF Next

LEMMA PushInvInit == Init => PushInv
<1> SUFFICES ASSUME Init PROVE PushInv
  OBVIOUS
<1>1. \A c \in Clients : remote[c] \in {NoKey, rsalt[c]}
  BY DEF Init
<1>2. ASSUME NEW c \in Clients
      PROVE  ClientInv(c)
  <2>1. PushNumbered(c)
    BY <1>2 DEF Init, PushNumbered, NoData
  <2>2. Sending(c) /\ Clearing(c)
    BY DEF Init, Sending, Clearing
  <2>3. Kept(c)
    BY DEF Init, Kept, Entry
  <2>4. phase[c] = "idle"
    BY DEF Init
  <2> QED BY <2>1, <2>2, <2>3, <2>4 DEF ClientInv
<1> QED BY <1>1, <1>2 DEF PushInv, ClientInv

LEMMA PushInvNext ==
  ASSUME TypeOK, PushInv, [Next]_vars
  PROVE  PushInv'
<1>1. ServerGrows
  BY ServerStep
<1>2. /\ unsynced \subseteq unsynced'
      /\ writes' \in Nat /\ writes <= writes'
  BY UnsyncedGrows
<1>3. \A c \in Clients : remote'[c] \in {NoKey, rsalt'[c]}
  BY RemoteStep DEF PushInv
<1>4. ASSUME NEW c \in Clients, c \notin unsynced'
      PROVE  ClientInv(c)'
  <2>1. ClientInv(c) /\ remote[c] \in {NoKey, rsalt[c]}
    BY <1>2, <1>4 DEF PushInv, ClientInv
  <2>2. CASE UNCHANGED vars \/ ServeStray
    <3>1. Same(c)
      BY <2>2, ServerAlone DEF Untouched
    <3> QED BY <1>1, <1>2, <2>1, <3>1, LocalKept
  <2>3. ASSUME NEW d \in Clients, d # c,
               \/ LocalWrite(d) \/ Unlock(d) \/ Lock(d)
               \/ Start(d) \/ SyncStep(d) \/ Abort(d) \/ Crash(d)
        PROVE  ClientInv(c)'
    BY <1>1, <1>2, <2>1, <2>3, OtherClient, LocalKept DEF Untouched
  <2>4. ASSUME \/ LocalWrite(c) \/ Unlock(c) \/ Lock(c)
               \/ Start(c) \/ SyncStep(c) \/ Abort(c) \/ Crash(c)
        PROVE  ClientInv(c)'
    <3>1. CASE LocalWrite(c)
      BY <1>1, <2>1, <3>1, KeptBegin, KeptIndex, KeptAdd DEF LocalWrite
    <3>2. CASE Unlock(c) \/ Lock(c)
      BY <1>1, <1>4, <2>1, <3>2, KeptUnlock
    <3>3. CASE Sync(c) \/ ServePost(c) \/ Posted(c) \/ ClearPush(c)
      BY <1>1, <2>1, <3>3, KeptSync, KeptPost, KeptPosted, KeptClear
    <3>4. CASE \E k \in 1..keys : Clone(c, k)
      BY <1>1, <2>1, <3>4, KeptClone
    <3>5. CASE \/ Refused(c) \/ Pushed(c) \/ Pull(c) \/ PullNext(c)
               \/ ApplyEvent(c) \/ RecordEvent(c) \/ PullDone(c)
               \/ Unsync(c) \/ ServeDelete(c) \/ Abort(c)
      BY <1>1, <2>1, <3>5, KeptMoved
    <3>6. CASE ResetLog(c)
      BY <1>4, <3>6 DEF ResetLog
    <3>7. CASE \/ CopyPush(c) \/ MovePull(c) \/ ClearStatus(c)
               \/ ClearRemote(c) \/ NewRemote(c)
      BY <2>1, <3>7 DEF ClientInv, CopyPush, MovePull, ClearStatus,
                        ClearRemote, NewRemote
    <3>8. CASE Crash(c)
      BY <1>1, <2>1, <3>8, KeptCrash
    <3> QED BY <2>4, <3>1, <3>2, <3>3, <3>4, <3>5, <3>6, <3>7, <3>8, StepCases
  <2> QED BY <2>2, <2>3, <2>4 DEF Next
<1> QED BY <1>3, <1>4 DEF PushInv, ClientInv

\* PushInv is an invariant: until its first Unsync, a client numbers its push
\* log with a counter that only grows, sends what is in it and clears what it
\* sent.
THEOREM PushInvariant == Spec => []PushInv
<1>1. Init => TypeOK /\ PushInv
  BY TypeInit, PushInvInit
<1>2. TypeOK /\ PushInv /\ [Next]_vars => TypeOK' /\ PushInv'
  BY TypeNext, PushInvNext
<1> QED BY <1>1, <1>2, PTL DEF Spec

\* A write that returned is pending or in the remote vault for as long as the
\* client is in its first vault and the vault exists.  (A client that has
\* unsynced is in no vault it has not left, so nothing is claimed of it.)
THEOREM NoWriteLost == Spec => []AckedKept
<1>1. PushInv => AckedKept
  BY DEF PushInv, AckedKept, Kept, InVault
<1> QED BY <1>1, PushInvariant, PTL

\* Pending writes of a client to a document are pushed in the order they were
\* made.
THEOREM WritesInOrder == Spec => []PushInOrder
<1>1. PushInv => PushInOrder
  BY DEF PushInv, PushInOrder, OrderedPush, OwnDocs, PushNumbered
<1> QED BY <1>1, PushInvariant, PTL

=============================================================================
