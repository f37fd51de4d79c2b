------------------------- MODULE VaultServerProofs -------------------------
(***************************************************************************)
(* Why the log of a vault has no gap and no index twice (Contiguous), why  *)
(* a POST's events are all there and in order (PostsKept), why nobody      *)
(* begins on a deleted vault (GoneForGood), why a reader that goes page by *)
(* page misses nothing (ReadersComplete), why the usage counts all that    *)
(* was answered (UsageCovers) and why all of it is what VaultHistory       *)
(* promises (ImplementsHistory): for any number of requests, of any size,  *)
(* failing anywhere.                                                       *)
(***************************************************************************)
EXTENDS VaultServer, FiniteSetTheorems, FunctionTheorems, SequenceTheorems,
        WellFoundedInduction, TLAPS

\* Where a POST is, as far as its local variables tell.
PostState(p) ==
  /\ pc[p] = "add" => pos[p] < Size[p]
  /\ pc[p] = "check" => pos[p] = 0
  /\ pc[p] \in {"usage", "get", "ok"} => pos[p] = Size[p]
  /\ pc[p] \notin {"add", "usage"} => tx[p] = "none"
  /\ tx[p] = "none" => index[p] = 0
  /\ tx[p] = "open" => index[p] > 0
  /\ tx[p] = "open" /\ pc[p] = "add" => index[p] >= ChunkSize(p)

\* The vault's document has the index as soon as a POST is past its events
\* or has to try again.  What an earlier attempt has left in the variable
\* index does no harm then.
IndexFound(p) ==
  pc[p] \in {"usage", "get", "ok"} \/ tx[p] = "broken" =>
    "idx" \in DOMAIN doc

\* A transaction that can still commit has read the index.
IndexKnown(p) ==
  tx[p] = "open" /\ pc[p] = "add" => index[p] = Value("idx") + ChunkSize(p)

\* A DELETE past its first write has marked the vault.
Marked(d) == pc[d] \in {"check", "mark", "error"} \/ deleted

Inv ==
  /\ TypeOK
  /\ \A p \in Posts : PostState(p)
  /\ \A d \in Deletes : Marked(d)
  /\ ~deleted => \A p \in Posts : IndexFound(p) /\ IndexKnown(p)
  /\ Contiguous
  /\ PostsKept

-----------------------------------------------------------------------------
\* A chunk is not empty and does not go past the request.
LEMMA ChunkFits ==
  ASSUME TypeOK, NEW p \in Posts, pos[p] < Size[p]
  PROVE  ChunkSize(p) \in Nat \ {0} /\ pos[p] + ChunkSize(p) <= Size[p]
BY SizeAssumption, BatchesAssumption DEF TypeOK, ChunkSize

\* The documents of a chunk continue the indexes and the request.
LEMMA ChunkEntries ==
  ASSUME TypeOK, NEW p \in Posts, PostState(p),
         pc[p] = "add", tx[p] = "open"
  PROVE  /\ NewEntries(p) \subseteq Entry
         /\ \A e \in NewEntries(p) :
              /\ e.ev[1] = p
              /\ e.ev[2] \in pos[p] + 1 .. pos[p] + ChunkSize(p)
              /\ e.idx = index[p] - ChunkSize(p) + (e.ev[2] - pos[p])
         /\ \A i \in pos[p] + 1 .. pos[p] + ChunkSize(p) :
              \E e \in NewEntries(p) : e.ev = <<p, i>>
<1>1. ChunkSize(p) \in Nat \ {0} /\ pos[p] \in Nat /\ index[p] \in Nat
  BY ChunkFits DEF PostState, TypeOK
<1>2. index[p] >= ChunkSize(p)
  BY DEF PostState
<1>3. ASSUME NEW e \in NewEntries(p)
      PROVE  /\ e \in Entry
             /\ e.ev[1] = p
             /\ e.ev[2] \in pos[p] + 1 .. pos[p] + ChunkSize(p)
             /\ e.idx = index[p] - ChunkSize(p) + (e.ev[2] - pos[p])
  <2>1. PICK i \in 1..ChunkSize(p) :
          e = [idx |-> index[p] - ChunkSize(p) + i, ev |-> <<p, pos[p] + i>>]
    BY DEF NewEntries
  <2>2. index[p] - ChunkSize(p) + i \in Nat \ {0}
    BY <1>1, <1>2
  <2>3. pos[p] + i \in Nat \ {0}
    BY <1>1
  <2> QED BY <1>1, <2>1, <2>2, <2>3 DEF Entry, Event
<1>4. ASSUME NEW i \in pos[p] + 1 .. pos[p] + ChunkSize(p)
      PROVE  \E e \in NewEntries(p) : e.ev = <<p, i>>
  <2> DEFINE j == i - pos[p]
             e == [idx |-> index[p] - ChunkSize(p) + j, ev |-> <<p, pos[p] + j>>]
  <2>1. j \in 1..ChunkSize(p) /\ pos[p] + j = i
    BY <1>1
  <2>2. e \in NewEntries(p)
    BY <2>1 DEF NewEntries
  <2>3. e.ev = <<p, i>>
    BY <2>1
  <2> QED BY <2>2, <2>3
<1> QED BY <1>3, <1>4

-----------------------------------------------------------------------------
LEMMA Initially == Init => Inv
<1> SUFFICES ASSUME Init PROVE Inv
  OBVIOUS
<1>1. TypeOK
  <2>1. DOMAIN doc \subseteq Fields /\ doc \in [DOMAIN doc -> Nat \ {0}]
    BY DEF Init
  <2>2. \A p \in Posts : pos[p] <= Size[p]
    BY SizeAssumption DEF Init
  <2>3. fails \in 0..MaxFails
    BY FailsAssumption DEF Init
  <2> QED BY <2>1, <2>2, <2>3 DEF Init, TypeOK, Labels, Answers
<1>2. \A p \in Posts : PostState(p)
  BY SizeAssumption DEF Init, PostState, Requests
<1>3. \A d \in Deletes : Marked(d)
  BY DEF Init, Marked, Requests
<1>4. \A p \in Posts : IndexFound(p) /\ IndexKnown(p)
  BY DEF Init, IndexFound, IndexKnown, Requests
<1>5. Contiguous
  BY DEF Init, Contiguous, Value
<1>6. PostsKept
  BY DEF Init, PostsKept, Requests
<1> QED BY <1>1, <1>2, <1>3, <1>4, <1>5, <1>6 DEF Inv

-----------------------------------------------------------------------------
(* Steps that leave the document, the log and the transactions alone *)

\* Moving on in a handler that has no transaction changes nothing that the
\* invariant says of the vault.
LEMMA GotoStep ==
  ASSUME Inv, NEW r \in Requests, NEW label \in Answers \cup Labels,
         Goto(r, label),
         UNCHANGED <<server, posting>>,
         batch' \in [Deletes -> SUBSET Entry], fails' \in 0..MaxFails,
         r \in Posts => /\ tx[r] = "none"
                        /\ label = "add" => pos[r] < Size[r]
                        /\ label \notin {"check", "usage", "get"}
                        /\ label = "ok" => pc[r] = "get",
         r \in Deletes => label \in {"mark", "error"} \/ deleted
  PROVE  Inv'
<1>1. TypeOK'
  BY DEF Inv, TypeOK, server, posting, Goto
<1>2. \A p \in Posts : PostState(p)'
  <2> SUFFICES ASSUME NEW p \in Posts PROVE PostState(p)'
    OBVIOUS
  <2>1. PostState(p) /\ ChunkSize(p)' = ChunkSize(p)
    BY DEF Inv, ChunkSize, posting
  <2>2. CASE p = r
    BY <2>1, <2>2 DEF Inv, PostState, TypeOK, posting, Goto
  <2>3. CASE p # r
    BY <2>1, <2>3 DEF PostState, posting, Goto, Inv, TypeOK, Requests
  <2> QED BY <2>2, <2>3
<1>3. \A d \in Deletes : Marked(d)'
  BY DEF Inv, Marked, Goto, server, TypeOK, Requests
<1>4. ~deleted' => \A p \in Posts : IndexFound(p)' /\ IndexKnown(p)'
  <2> SUFFICES ASSUME ~deleted, NEW p \in Posts
               PROVE  IndexFound(p)' /\ IndexKnown(p)'
    BY DEF server
  <2>1. IndexFound(p) /\ IndexKnown(p) /\ ChunkSize(p)' = ChunkSize(p)
        /\ Value("idx")' = Value("idx")
    BY DEF Inv, ChunkSize, posting, server, Value
  <2> QED BY <2>1 DEF IndexFound, IndexKnown, Goto, server, posting, Inv,
                       TypeOK, Requests
<1>5. Contiguous'
  BY DEF Inv, Contiguous, server, Value
<1>6. PostsKept'
  <2> SUFFICES ASSUME ~deleted PROVE PostsKept'
    BY DEF PostsKept, server
  <2>1. PostsKept /\ log' = log /\ pos' = pos
    BY DEF Inv, server, posting
  <2>2. \A p \in Posts : pc'[p] = "ok" => pos[p] = Size[p]
    BY DEF Inv, PostState, Goto, TypeOK, Requests
  <2> QED BY <2>1, <2>2 DEF PostsKept
<1> QED BY <1>1, <1>2, <1>3, <1>4, <1>5, <1>6 DEF Inv

LEMMA CheckDeletedPost ==
  ASSUME Inv, NEW p \in Posts, CheckDeleted(p, "add")
  PROVE  Inv'
<1>1. pos[p] < Size[p] /\ tx[p] = "none" /\ p \in Requests /\ p \notin Deletes
  BY RequestsAssumption, SizeAssumption
  DEF CheckDeleted, Inv, PostState, Requests
<1>2. Goto(p, "notfound") \/ Goto(p, "add")
  BY DEF CheckDeleted, Passed
<1> QED BY <1>1, <1>2, GotoStep
        DEF CheckDeleted, Inv, TypeOK, Answers, Labels

LEMMA CheckDeletedDelete ==
  ASSUME Inv, NEW d \in Deletes, CheckDeleted(d, "mark")
  PROVE  Inv'
<1>1. d \in Requests /\ d \notin Posts
  BY RequestsAssumption DEF Requests
<1>2. (Goto(d, "notfound") /\ deleted) \/ Goto(d, "mark")
  BY DEF CheckDeleted, Passed
<1> QED BY <1>1, <1>2, GotoStep
        DEF CheckDeleted, Inv, TypeOK, Answers, Labels

LEMMA GetDocStep ==
  ASSUME Inv, NEW p \in Posts, GetDoc(p)
  PROVE  Inv'
<1>1. tx[p] = "none" /\ p \in Requests /\ p \notin Deletes
  BY RequestsAssumption DEF GetDoc, Inv, PostState, Requests
<1> QED BY <1>1, GotoStep DEF GetDoc, Inv, TypeOK, Answers, Labels

LEMMA QueryBatchStep ==
  ASSUME Inv, NEW d \in Deletes, QueryBatch(d)
  PROVE  Inv'
<1>1. d \in Requests /\ d \notin Posts /\ deleted
  BY RequestsAssumption DEF Requests, QueryBatch, Inv, Marked
<1>2. batch' \in [Deletes -> SUBSET Entry]
  BY DEF QueryBatch, Inv, TypeOK
<1>3. Goto(d, "exists") \/ Goto(d, "batch")
  BY DEF QueryBatch
<1>4. UNCHANGED <<server, posting, reading, fails>>
  BY DEF QueryBatch
<1> QED BY <1>1, <1>2, <1>3, <1>4, GotoStep
        DEF Inv, TypeOK, Answers, Labels

LEMMA CheckExistsStep ==
  ASSUME Inv, NEW d \in Deletes, CheckExists(d)
  PROVE  Inv'
<1>1. d \in Requests /\ d \notin Posts /\ deleted
  BY RequestsAssumption DEF Requests, CheckExists, Inv, Marked
<1>2. Goto(d, "drop") \/ Goto(d, "notfound")
  BY DEF CheckExists
<1> QED BY <1>1, <1>2, GotoStep
        DEF CheckExists, Inv, TypeOK, Answers, Labels

LEMMA ReaderStep ==
  ASSUME Inv, NEW r \in Readers, List(r)
  PROVE  Inv'
<1>1. r \in Requests /\ r \notin Posts /\ r \notin Deletes
  BY RequestsAssumption DEF Requests
<1>2. \E label \in Answers \cup Labels : Goto(r, label)
  BY DEF List, CheckDeleted, Events, Passed, Answers, Labels
<1>3. UNCHANGED <<server, posting, batch, fails>>
  BY DEF List, CheckDeleted, Events
<1> QED BY <1>1, <1>2, <1>3, GotoStep DEF Inv, TypeOK
-----------------------------------------------------------------------------
(* Transactions                                                             *)

\* The function of a transaction reads the document.  Without the field in
\* it, index is still 0, unless the vault is deleted.
LEMMA AttemptStep ==
  ASSUME Inv, NEW p \in Posts, TryEvents(p) \/ TryUsage(p)
  PROVE  Inv'
<1> DEFINE field == IF pc[p] = "add" THEN "idx" ELSE "usage"
           n == IF pc[p] = "add" THEN ChunkSize(p) ELSE Size[p]
<1>1. Attempt(p, field, n) /\ pc[p] \in {"add", "usage"}
  BY DEF TryEvents, TryUsage
<1>2. n \in Nat \ {0}
  BY <1>1, ChunkFits, SizeAssumption DEF Inv, PostState
<1>3. Found(p, field) \in Nat
  BY DEF Found, Inv, TypeOK
<1>4. /\ tx[p] # "open" /\ tx' = [tx EXCEPT ![p] = "open"]
      /\ index' = [index EXCEPT ![p] = Found(p, field) + n]
      /\ UNCHANGED <<deleted, doc, log, pc, pos, batch, fails>>
  BY <1>1 DEF Attempt, server, reading
<1>5. TypeOK'
  BY <1>2, <1>3, <1>4 DEF Inv, TypeOK
<1>6. \A q \in Posts : ChunkSize(q)' = ChunkSize(q)
  BY <1>4 DEF ChunkSize
<1>7. ASSUME NEW q \in Posts PROVE PostState(q)'
  <2>1. PostState(q)
    BY DEF Inv
  <2>2. CASE q = p
    <3>1. index'[p] = Found(p, field) + n /\ tx'[p] = "open"
      BY <1>4 DEF Inv, TypeOK
    <3>2. index'[p] > 0 /\ (pc[p] = "add" => index'[p] >= ChunkSize(p))
      BY <3>1, <1>2, <1>3
    <3> QED BY <2>1, <2>2, <3>1, <3>2, <1>1, <1>4, <1>6 DEF PostState
  <2>3. CASE q # p
    BY <2>1, <2>3, <1>4, <1>6 DEF PostState, Inv, TypeOK
  <2> QED BY <2>2, <2>3
<1>8. ASSUME ~deleted, NEW q \in Posts
      PROVE  IndexFound(q)' /\ IndexKnown(q)'
  <2>1. IndexFound(q) /\ IndexKnown(q)
    BY <1>8 DEF Inv
  <2>2. Value("idx")' = Value("idx")
    BY <1>4 DEF Value
  <2>3. IndexFound(q)'
    BY <2>1, <1>4 DEF IndexFound, Inv, TypeOK
  <2>4. CASE q = p /\ pc[p] = "add"
    <3>1. IndexFound(p) /\ PostState(p)
      BY <1>8 DEF Inv
    <3>2. Found(p, "idx") = Value("idx")
      BY <3>1, <1>4 DEF Found, Value, PostState, IndexFound, Inv, TypeOK
    <3>3. index'[p] = Value("idx") + ChunkSize(p)
      BY <3>2, <2>4, <1>4 DEF Inv, TypeOK
    <3> QED BY <3>3, <2>2, <2>3, <2>4, <1>6 DEF IndexKnown
  <2>5. CASE ~(q = p /\ pc[p] = "add")
    <3>1. IndexKnown(q)'
      BY <2>1, <2>2, <2>5, <1>4, <1>6 DEF IndexKnown, Inv, TypeOK
    <3> QED BY <3>1, <2>3
  <2> QED BY <2>4, <2>5
<1>9. (\A d \in Deletes : Marked(d)') /\ Contiguous' /\ PostsKept'
  BY <1>4 DEF Inv, Marked, Contiguous, PostsKept, Value
<1> QED BY <1>4, <1>5, <1>7, <1>8, <1>9 DEF Inv

\* A commit ends the transaction of one POST and breaks the open ones of the
\* others.
LEMMA CommitTypes ==
  ASSUME TypeOK, NEW p \in Posts, NEW field \in Fields,
         Commit(p, field), index[p] > 0
  PROVE  /\ DOMAIN doc' = DOMAIN doc \cup {field}
         /\ DOMAIN doc' \subseteq Fields
         /\ doc' \in [DOMAIN doc' -> Nat \ {0}]
         /\ doc'[field] = index[p]
         /\ \A f \in DOMAIN doc : f # field => doc'[f] = doc[f]
         /\ index' \in [Posts -> Nat]
         /\ tx' \in [Posts -> {"none", "open", "broken"}]
         /\ tx'[p] = "none" /\ index'[p] = 0
         /\ \A q \in Posts \ {p} :
              /\ tx'[q] = Conflict(q) /\ tx'[q] # "open"
              /\ tx'[q] = "none" <=> tx[q] = "none"
              /\ index'[q] = index[q]
BY DEF TypeOK, Commit, Conflict

LEMMA AddUsageStep ==
  ASSUME Inv, NEW p \in Posts, AddUsage(p)
  PROVE  Inv'
<1>1. /\ pc[p] = "usage" /\ tx[p] = "open" /\ Commit(p, "usage")
      /\ Goto(p, "get") /\ pos[p] = Size[p]
      /\ UNCHANGED <<deleted, log, pos, batch, fails>>
  BY DEF AddUsage, Commit, reading, Inv, PostState
<1>2. index[p] > 0 /\ TypeOK
  BY <1>1 DEF Inv, PostState
<1>3. TypeOK'
  BY <1>1, <1>2, CommitTypes
  DEF TypeOK, Goto, Labels, Answers, Fields, Requests
<1>4. Value("idx")' = Value("idx")
      /\ ("idx" \in DOMAIN doc' <=> "idx" \in DOMAIN doc)
  BY <1>1, <1>2, CommitTypes DEF Value, Fields
<1>5. ASSUME NEW q \in Posts PROVE PostState(q)'
  <2>1. PostState(q) /\ ChunkSize(q)' = ChunkSize(q)
    BY <1>1 DEF Inv, ChunkSize
  <2>2. CASE q = p
    BY <2>1, <2>2, <1>1, <1>2, CommitTypes
    DEF PostState, Goto, TypeOK, Fields, Requests
  <2>3. CASE q # p
    BY <2>1, <2>3, <1>1, <1>2, CommitTypes
    DEF PostState, Goto, TypeOK, Fields, Requests
  <2> QED BY <2>2, <2>3
<1>6. \A d \in Deletes : Marked(d)'
  BY <1>1, RequestsAssumption DEF Inv, Marked, Goto, TypeOK, Requests
<1>7. ASSUME ~deleted, NEW q \in Posts
      PROVE  IndexFound(q)' /\ IndexKnown(q)'
  <2>1. "idx" \in DOMAIN doc'
    BY <1>1, <1>4, <1>7 DEF Inv, IndexFound
  <2>2. tx'[q] # "open"
    BY <1>1, <1>2, CommitTypes DEF Fields
  <2> QED BY <2>1, <2>2 DEF IndexFound, IndexKnown
<1>8. Contiguous'
  BY <1>1, <1>4 DEF Inv, Contiguous
<1>9. PostsKept'
  BY <1>1 DEF Inv, PostsKept, Goto, TypeOK, Requests
<1> QED BY <1>1, <1>3, <1>5, <1>6, <1>7, <1>8, <1>9 DEF Inv

\* A chunk goes behind the log, because its transaction has read the index of
\* the last event and nobody has written the document since.
LEMMA AddEventsStep ==
  ASSUME Inv, NEW p \in Posts, AddEvents(p)
  PROVE  Inv'
<1> DEFINE n == ChunkSize(p)
           New == NewEntries(p)
<1>1. /\ pc[p] = "add" /\ tx[p] = "open" /\ Commit(p, "idx")
      /\ log' = log \cup New
      /\ pos' = [pos EXCEPT ![p] = @ + n]
      /\ UNCHANGED <<deleted, batch, fails>>
  BY DEF AddEvents, Commit, reading
<1>2. TypeOK /\ PostState(p) /\ pos[p] < Size[p]
  BY <1>1 DEF Inv, PostState
<1>3. /\ n \in Nat \ {0} /\ pos[p] + n <= Size[p] /\ pos[p] \in Nat
      /\ index[p] \in Nat /\ index[p] >= n /\ index[p] > 0
      /\ Size[p] \in Nat
  BY <1>1, <1>2, ChunkFits, SizeAssumption DEF PostState, TypeOK
<1>4. pos'[p] = pos[p] + n /\ \A q \in Posts \ {p} : pos'[q] = pos[q]
  BY <1>1, <1>2 DEF TypeOK
<1>5. \/ Goto(p, "add") /\ pos'[p] < Size[p]
      \/ Goto(p, "usage") /\ pos'[p] = Size[p]
  BY <1>3, <1>4 DEF AddEvents
<1>6. New \subseteq Entry
  BY <1>1, <1>2, ChunkEntries
<1>7. TypeOK'
  <2>1. pos' \in [Posts -> Nat] /\ \A q \in Posts : pos'[q] <= Size[q]
    BY <1>1, <1>2, <1>3, <1>4 DEF TypeOK
  <2>2. pc' \in [Requests -> Answers \cup Labels]
    BY <1>2, <1>5 DEF TypeOK, Goto, Labels
  <2>3. log' \subseteq Entry
    BY <1>1, <1>2, <1>6 DEF TypeOK
  <2> QED BY <1>1, <1>2, <1>3, <2>1, <2>2, <2>3, CommitTypes
          DEF TypeOK, Fields
<1>8. \A q \in Posts \ {p} : pc'[q] = pc[q] /\ ChunkSize(q)' = ChunkSize(q)
  BY <1>2, <1>4, <1>5 DEF Goto, TypeOK, Requests, ChunkSize
<1>9. ASSUME NEW q \in Posts PROVE PostState(q)'
  <2>1. CASE q = p
    BY <2>1, <1>1, <1>2, <1>3, <1>5, CommitTypes
    DEF PostState, Goto, TypeOK, Fields, Requests
  <2>2. CASE q # p
    <3>1. PostState(q) /\ pos'[q] = pos[q]
      BY <2>2, <1>4 DEF Inv
    <3> QED BY <3>1, <2>2, <1>1, <1>2, <1>3, <1>8, CommitTypes
            DEF PostState, Fields
  <2> QED BY <2>1, <2>2
<1>10. \A d \in Deletes : Marked(d)'
  BY <1>1, <1>2, <1>5, RequestsAssumption
  DEF Inv, Marked, Goto, TypeOK, Requests
<1>11. "idx" \in DOMAIN doc' /\ \A q \in Posts : tx'[q] # "open"
  BY <1>1, <1>2, <1>3, CommitTypes DEF Fields
<1>12. \A q \in Posts : IndexFound(q)' /\ IndexKnown(q)'
  BY <1>11 DEF IndexFound, IndexKnown
<1>13. Contiguous' /\ PostsKept'
  <2> SUFFICES ASSUME ~deleted PROVE Contiguous' /\ PostsKept'
    BY <1>1 DEF Contiguous, PostsKept
  <2> DEFINE last == Value("idx")
  <2>1. index[p] = last + n /\ last \in Nat
    BY <1>1, <1>2 DEF Inv, IndexKnown, Value, TypeOK
  <2>2. Value("idx")' = last + n
    BY <2>1, <1>1, <1>2, <1>3, CommitTypes DEF Value, Fields
  <2>3. \A e \in New :
          /\ e.ev[1] = p
          /\ e.ev[2] \in pos[p] + 1 .. pos[p] + n
          /\ e.idx = last + (e.ev[2] - pos[p])
    <3>1. \A e \in New :
            /\ e.ev[1] = p
            /\ e.ev[2] \in pos[p] + 1 .. pos[p] + n
            /\ e.idx = index[p] - n + (e.ev[2] - pos[p])
      BY <1>1, <1>2, ChunkEntries
    <3>2. index[p] - n = last
      BY <2>1, <1>3
    <3> QED BY <3>1, <3>2
  <2>4. \A i \in pos[p] + 1 .. pos[p] + n : \E e \in New : e.ev = <<p, i>>
    BY <1>1, <1>2, ChunkEntries
  <2>5. {e.idx : e \in log} = 1..last /\ \A e, f \in log : e.idx = f.idx => e = f
    BY DEF Inv, Contiguous
  <2>6. /\ \A e \in log : e.ev[2] <= pos[e.ev[1]]
        /\ \A e, f \in log :
             e.ev[1] = f.ev[1] => (e.idx < f.idx <=> e.ev[2] < f.ev[2])
        /\ \A q \in Posts :
             /\ \A i \in 1..pos[q] : \E e \in log : e.ev = <<q, i>>
             /\ pc[q] = "ok" => pos[q] = Size[q]
    BY DEF Inv, PostsKept
  <2>7. \A e \in log : /\ e.idx \in 1..last /\ e.ev[1] \in Posts
                       /\ e.ev = <<e.ev[1], e.ev[2]>>
                       /\ e.ev[2] \in Nat /\ e = [idx |-> e.idx, ev |-> e.ev]
    BY <1>2, <2>5 DEF TypeOK, Entry, Event
  <2>8. \A e \in New : /\ e.idx \in last + 1 .. last + n
                       /\ e.ev[2] \in Nat
                       /\ e = [idx |-> e.idx, ev |-> <<p, e.ev[2]>>]
    BY <1>3, <1>6, <2>1, <2>3 DEF Entry, Event
  <2>9. {e.idx : e \in log'} = 1..(last + n)
    <3>1. ASSUME NEW i \in 1..(last + n) PROVE \E e \in log' : e.idx = i
      <4>1. CASE i <= last
        BY <4>1, <1>1, <2>1, <2>5
      <4>2. CASE i > last
        <5>1. pos[p] + (i - last) \in pos[p] + 1 .. pos[p] + n
          BY <4>2, <1>3, <2>1
        <5>2. PICK e \in New : e.ev = <<p, pos[p] + (i - last)>>
          BY <5>1, <2>4
        <5>3. e.idx = i
          BY <5>2, <2>1, <2>3, <1>3
        <5> QED BY <5>3, <1>1
      <4> QED BY <4>1, <4>2, <2>1, <1>3
    <3>2. ASSUME NEW e \in log' PROVE e.idx \in 1..(last + n)
      <4>1. CASE e \in log
        BY <4>1, <2>1, <2>7, <1>3
      <4>2. CASE e \in New
        BY <4>2, <2>1, <2>8, <1>3
      <4> QED BY <4>1, <4>2, <1>1
    <3> QED BY <3>1, <3>2
  <2>10. \A e, f \in log' : e.idx = f.idx => e = f
    <3> SUFFICES ASSUME NEW e \in log', NEW f \in log', e.idx = f.idx
                 PROVE  e = f
      OBVIOUS
    <3>1. CASE e \in log /\ f \in log
      BY <3>1, <2>5
    <3>2. CASE e \in New /\ f \in New
      <4>1. e.ev[2] = f.ev[2]
        BY <3>2, <2>1, <2>3, <2>8, <1>3
      <4> QED BY <4>1, <3>2, <2>8
    <3>3. CASE e \in log /\ f \in New
      BY <3>3, <2>1, <2>7, <2>8, <1>3
    <3>4. CASE e \in New /\ f \in log
      BY <3>4, <2>1, <2>7, <2>8, <1>3
    <3>5. e \in log \cup New /\ f \in log \cup New
      BY <1>1
    <3> QED BY <3>1, <3>2, <3>3, <3>4, <3>5
  <2>11. \A e \in log' : e.ev[2] <= pos'[e.ev[1]]
    <3> SUFFICES ASSUME NEW e \in log' PROVE e.ev[2] <= pos'[e.ev[1]]
      OBVIOUS
    <3>1. CASE e \in log
      <4>1. e.ev[1] \in Posts /\ e.ev[2] \in Nat /\ e.ev[2] <= pos[e.ev[1]]
        BY <3>1, <2>6, <2>7
      <4> QED BY <4>1, <1>3, <1>4
    <3>2. CASE e \in New
      BY <3>2, <2>3, <1>3, <1>4
    <3> QED BY <3>1, <3>2, <1>1
  <2>12. ASSUME NEW e \in log', NEW f \in log', e.ev[1] = f.ev[1]
         PROVE  e.idx < f.idx <=> e.ev[2] < f.ev[2]
    <3>1. CASE e \in log /\ f \in log
      BY <3>1, <2>6, <2>12
    <3>2. CASE e \in New /\ f \in New
      BY <3>2, <2>1, <2>3, <2>8, <1>3
    <3>3. CASE e \in log /\ f \in New
      <4>1. e.ev[2] <= pos[p] /\ e.idx <= last /\ e.ev[2] \in Nat /\ e.idx \in Nat
        BY <3>3, <2>3, <2>6, <2>7, <2>12, <2>1
      <4>2. f.ev[2] > pos[p] /\ f.idx > last /\ f.ev[2] \in Nat /\ f.idx \in Nat
        BY <3>3, <2>3, <2>8, <2>1, <1>3
      <4> QED BY <4>1, <4>2, <2>1, <1>3
    <3>4. CASE e \in New /\ f \in log
      <4>1. f.ev[2] <= pos[p] /\ f.idx <= last /\ f.ev[2] \in Nat /\ f.idx \in Nat
        BY <3>4, <2>3, <2>6, <2>7, <2>12, <2>1
      <4>2. e.ev[2] > pos[p] /\ e.idx > last /\ e.ev[2] \in Nat /\ e.idx \in Nat
        BY <3>4, <2>3, <2>8, <2>1, <1>3
      <4> QED BY <4>1, <4>2, <2>1, <1>3
    <3> QED BY <3>1, <3>2, <3>3, <3>4, <1>1
  <2>13. ASSUME NEW q \in Posts
         PROVE  /\ \A i \in 1..pos'[q] : \E e \in log' : e.ev = <<q, i>>
                /\ pc'[q] = "ok" => pos'[q] = Size[q]
    <3>1. CASE q # p
      BY <3>1, <2>6, <1>1, <1>4, <1>8
    <3>2. CASE q = p
      <4>1. ASSUME NEW i \in 1..pos'[p] PROVE \E e \in log' : e.ev = <<p, i>>
        <5>1. CASE i <= pos[p]
          <6>1. i \in 1..pos[p]
            BY <5>1, <1>3, <1>4
          <6> QED BY <6>1, <2>6, <1>1
        <5>2. CASE i > pos[p]
          BY <5>2, <2>4, <1>1, <1>3, <1>4
        <5> QED BY <5>1, <5>2, <1>3, <1>4
      <4>2. pc'[p] # "ok"
        BY <1>2, <1>5 DEF Goto, TypeOK, Requests
      <4> QED BY <3>2, <4>1, <4>2
    <3> QED BY <3>1, <3>2
  <2> QED BY <2>2, <2>9, <2>10, <2>11, <2>12, <2>13 DEF Contiguous, PostsKept
<1> QED BY <1>7, <1>9, <1>10, <1>12, <1>13 DEF Inv
-----------------------------------------------------------------------------
(* Steps of a DELETE that change the vault, and failures                    *)

\* What happens once the vault is marked only has to keep the types and the
\* states of the requests.
LEMMA MarkedStep ==
  ASSUME Inv, deleted', TypeOK',
         NEW d \in Deletes, NEW label, Goto(d, label),
         UNCHANGED <<pos, index>>,
         \A p \in Posts : tx'[p] \in {tx[p], Conflict(p)}
  PROVE  Inv'
<1>1. ASSUME NEW p \in Posts PROVE PostState(p)'
  <2>1. pc'[p] = pc[p] /\ ChunkSize(p)' = ChunkSize(p) /\ PostState(p)
    BY RequestsAssumption DEF Inv, TypeOK, Goto, Requests, ChunkSize
  <2> QED BY <2>1 DEF PostState, Conflict
<1>2. \A c \in Deletes : Marked(c)'
  BY DEF Marked
<1>3. Contiguous' /\ PostsKept'
  BY DEF Contiguous, PostsKept
<1> QED BY <1>1, <1>2, <1>3 DEF Inv

LEMMA MarkStep ==
  ASSUME Inv, NEW d \in Deletes, Mark(d)
  PROVE  Inv'
<1>1. TypeOK'
  BY DEF Mark, Inv, TypeOK, Goto, posting, reading, Labels
<1> QED BY <1>1, MarkedStep DEF Mark, posting

LEMMA RemoveBatchStep ==
  ASSUME Inv, NEW d \in Deletes, RemoveBatch(d)
  PROVE  Inv'
<1>1. deleted
  BY DEF RemoveBatch, Inv, Marked
<1>2. TypeOK'
  BY DEF RemoveBatch, Purged, Inv, TypeOK, Goto, posting, reading, Labels
<1> QED BY <1>1, <1>2, MarkedStep DEF RemoveBatch, posting

LEMMA DropDocStep ==
  ASSUME Inv, NEW d \in Deletes, DropDoc(d)
  PROVE  Inv'
<1>1. deleted
  BY DEF DropDoc, Inv, Marked
<1>2. doc' = [f \in {} |-> 0] /\ UNCHANGED <<deleted, log, pos, index, batch, fails>>
      /\ Goto(d, "ok")
  BY DEF DropDoc, reading
<1>3. DOMAIN doc' \subseteq Fields /\ doc' \in [DOMAIN doc' -> Nat \ {0}]
  BY <1>2
<1>4. tx' \in [Posts -> {"none", "open", "broken"}]
      /\ \A p \in Posts : tx'[p] \in {tx[p], Conflict(p)}
  BY DEF DropDoc, Conflict, Inv, TypeOK
<1>5. TypeOK'
  BY <1>2, <1>3, <1>4 DEF Inv, TypeOK, Goto, Answers
<1> QED BY <1>1, <1>2, <1>4, <1>5, MarkedStep

LEMMA FailStep ==
  ASSUME Inv, NEW r \in Posts \cup Deletes, Fail(r)
  PROVE  Inv'
<1>1. /\ UNCHANGED <<deleted, doc, log, pos>>
      /\ Goto(r, "error")
  BY DEF Fail, server, reading
<1>2. TypeOK'
  <2>1. fails' \in 0..MaxFails
    BY FailsAssumption DEF Fail, Inv, TypeOK
  <2>2. batch' \in [Deletes -> SUBSET Entry]
    BY DEF Fail, Inv, TypeOK
  <2>3. tx' \in [Posts -> {"none", "open", "broken"}] /\ index' \in [Posts -> Nat]
    BY DEF Fail, Inv, TypeOK
  <2> QED BY <1>1, <2>1, <2>2, <2>3 DEF Inv, TypeOK, Goto, Answers
<1>3. ASSUME NEW p \in Posts
      PROVE  IF p = r THEN pc'[p] = "error" /\ tx'[p] = "none" /\ index'[p] = 0
             ELSE pc'[p] = pc[p] /\ tx'[p] = tx[p] /\ index'[p] = index[p]
  BY DEF Fail, Goto, Inv, TypeOK, Requests
<1>4. ASSUME NEW p \in Posts PROVE PostState(p)'
  <2>1. PostState(p) /\ ChunkSize(p)' = ChunkSize(p)
    BY <1>1 DEF Inv, ChunkSize
  <2> QED BY <1>1, <1>3, <2>1 DEF PostState
<1>5. \A d \in Deletes : Marked(d)'
  BY <1>1 DEF Inv, Marked, Goto, TypeOK, Requests
<1>6. ASSUME ~deleted, NEW p \in Posts
      PROVE  IndexFound(p)' /\ IndexKnown(p)'
  <2>1. IndexFound(p) /\ IndexKnown(p)
    BY <1>6 DEF Inv
  <2>2. ChunkSize(p)' = ChunkSize(p) /\ Value("idx")' = Value("idx")
    BY <1>1 DEF ChunkSize, Value
  <2> QED BY <1>1, <1>3, <2>1, <2>2 DEF IndexFound, IndexKnown
<1>7. Contiguous'
  BY <1>1 DEF Inv, Contiguous, Value
<1>8. PostsKept'
  BY <1>1, <1>3 DEF Inv, PostsKept
<1> QED BY <1>1, <1>2, <1>4, <1>5, <1>6, <1>7, <1>8 DEF Inv

-----------------------------------------------------------------------------
\* The invariant is inductive: every step of every request keeps it.
LEMMA Step == Inv /\ [Next]_vars => Inv'
<1> SUFFICES ASSUME Inv, [Next]_vars PROVE Inv'
  OBVIOUS
<1>1. ASSUME NEW p \in Posts, Post(p) PROVE Inv'
  BY <1>1, CheckDeletedPost, AttemptStep, AddEventsStep, AddUsageStep,
     GetDocStep DEF Post
<1>2. ASSUME NEW d \in Deletes, Delete(d) PROVE Inv'
  BY <1>2, CheckDeletedDelete, MarkStep, QueryBatchStep, RemoveBatchStep,
     CheckExistsStep, DropDocStep DEF Delete
<1>3. ASSUME NEW r \in Readers, List(r) PROVE Inv'
  BY <1>3, ReaderStep
<1>4. ASSUME NEW r \in Posts \cup Deletes, Fail(r) PROVE Inv'
  BY <1>4, FailStep
<1>5. CASE UNCHANGED vars
  BY <1>5 DEF vars, Inv, TypeOK, PostState, Marked, IndexFound, IndexKnown,
             ChunkSize, Contiguous, PostsKept, Value
<1>6. CASE Done
  BY <1>5, <1>6 DEF Done
<1> QED BY <1>1, <1>2, <1>3, <1>4, <1>5, <1>6 DEF Next

\* Every call of a handler keeps the vault and what its variables know of it.
THEOREM Invariance == Spec => []Inv
<1> QED BY Initially, Step, PTL DEF Spec

\* The state of the server and of the requests is well typed
\* (http/server/vault.go, firestore/events.go).
THEOREM TypeCorrect == Spec => []TypeOK
<1>1. Inv => TypeOK
  BY DEF Inv
<1> QED BY <1>1, Invariance, PTL

\* writeAll gives out the indexes 1, 2, .. without a gap and none twice, for
\* any number of POSTs that run beside each other, fail and are run again.
THEOREM LogContiguous == Spec => []Contiguous
<1>1. Inv => Contiguous
  BY DEF Inv
<1> QED BY <1>1, Invariance, PTL

\* EventsAdd keeps what it has written in the order of the request; an answered
\* POST is in the log as a whole until the vault is deleted.
THEOREM PostedEventsKept == Spec => []PostsKept
<1>1. Inv => PostsKept
  BY DEF Inv
<1> QED BY <1>1, Invariance, PTL

\* After deleteVault has answered, no POST and no GET gets past its check.
THEOREM DeletedRefuses == Spec => GoneForGood
<1>1. Inv /\ [Next]_vars =>
        [\A d \in Deletes : pc[d] \in {"ok", "notfound"} =>
           \A r \in Posts \cup Readers :
             pc[r] = "check" => pc'[r] \in {"check", "notfound", "error"}]_vars
  <2> SUFFICES ASSUME Inv, Next, NEW d \in Deletes, pc[d] \in {"ok", "notfound"},
                      NEW r \in Posts \cup Readers, pc[r] = "check"
               PROVE  pc'[r] \in {"check", "notfound", "error"}
    OBVIOUS
  <2>1. deleted /\ pc \in [Requests -> Answers \cup Labels] /\ r \in Requests
    BY DEF Inv, Marked, TypeOK, Requests
  <2>2. ASSUME NEW p \in Posts, Post(p)
        PROVE  pc'[r] \in {"check", "notfound", "error"}
    <3>1. CASE p = r
      BY <2>1, <2>2, <3>1
      DEF Post, CheckDeleted, Passed, TryEvents, AddEvents, TryUsage, AddUsage,
          GetDoc, Goto, Attempt
    <3>2. CASE p # r
      BY <2>1, <2>2, <3>2
      DEF Post, CheckDeleted, TryEvents, AddEvents, TryUsage, AddUsage,
          GetDoc, Goto, Attempt
    <3> QED BY <3>1, <3>2
  <2>3. ASSUME NEW e \in Deletes, Delete(e)
        PROVE  pc'[r] \in {"check", "notfound", "error"}
    <3>1. e # r
      BY RequestsAssumption
    <3> QED BY <2>1, <2>3, <3>1
            DEF Delete, CheckDeleted, Mark, QueryBatch, RemoveBatch,
                CheckExists, DropDoc, Goto
  <2>4. ASSUME NEW s \in Readers, List(s)
        PROVE  pc'[r] \in {"check", "notfound", "error"}
    BY <2>1, <2>4 DEF List, CheckDeleted, Passed, Events, Goto
  <2>5. ASSUME NEW s \in Posts \cup Deletes, Fail(s)
        PROVE  pc'[r] \in {"check", "notfound", "error"}
    BY <2>1, <2>5 DEF Fail, Goto
  <2>6. CASE Done
    BY <2>6 DEF Done, vars
  <2> QED BY <2>2, <2>3, <2>4, <2>5, <2>6 DEF Next
<1> QED BY <1>1, Invariance, PTL DEF Spec, GoneForGood

-----------------------------------------------------------------------------
(* Pages of the log                                                         *)

\* Entries with the indexes 1, 2, .. up to n
Dense(S, n) ==
  /\ S \subseteq Entry
  /\ {e.idx : e \in S} = 1..n
  /\ \A e, f \in S : e.idx = f.idx => e = f

\* The entries past a and up to b
Between(S, a, b) == {e \in S : a < e.idx /\ e.idx <= b}

LEMMA BetweenCount ==
  ASSUME NEW S, NEW n \in Nat, Dense(S, n),
         NEW a \in Nat, NEW b \in Nat, a <= b, b <= n
  PROVE  IsFiniteSet(Between(S, a, b)) /\ Cardinality(Between(S, a, b)) = b - a
<1> DEFINE T == Between(S, a, b)
           g == [i \in (a + 1)..b |-> CHOOSE e \in S : e.idx = i]
<1>1. ASSUME NEW i \in (a + 1)..b PROVE g[i] \in T /\ g[i].idx = i
  <2>1. i \in 1..n
    OBVIOUS
  <2>2. \E e \in S : e.idx = i
    BY <2>1 DEF Dense
  <2>3. g[i] \in S /\ g[i].idx = i
    BY <2>2
  <2> QED BY <2>3 DEF Between
<1>2. ASSUME NEW e \in T PROVE e.idx \in (a + 1)..b /\ g[e.idx] = e
  <2>1. e \in S /\ e.idx \in (a + 1)..b
    BY DEF Between, Dense, Entry
  <2>2. g[e.idx] \in S /\ g[e.idx].idx = e.idx
    BY <1>1, <2>1 DEF Between
  <2> QED BY <2>1, <2>2 DEF Dense
<1>3. g \in [(a + 1)..b -> T]
  BY <1>1
<1> HIDE DEF g, T
<1>4. g \in Bijection((a + 1)..b, T)
  <2>1. \A i, j \in (a + 1)..b : g[i] = g[j] => i = j
    BY <1>1
  <2>2. \A e \in T : \E i \in (a + 1)..b : g[i] = e
    BY <1>2
  <2> QED BY <1>3, <2>1, <2>2, Fun_IsBij
<1>5. IsFiniteSet((a + 1)..b) /\ Cardinality((a + 1)..b) = b - a
  <2>1. a + 1 \in Int /\ b \in Int
    OBVIOUS
  <2>2. /\ IsFiniteSet((a + 1)..b)
        /\ Cardinality((a + 1)..b) =
             IF a + 1 > b THEN 0 ELSE b - (a + 1) + 1
    BY <2>1, FS_Interval
  <2> QED BY <2>2
<1>6. ExistsBijection((a + 1)..b, T)
  BY <1>4 DEF ExistsBijection
<1> QED BY <1>5, <1>6, FS_Bijection DEF T

LEMMA LogIsDense ==
  ASSUME Inv, ~deleted
  PROVE  Dense(log, Value("idx")) /\ Value("idx") \in Nat
BY DEF Inv, Contiguous, Dense, TypeOK, Value

\* Where the page after index n ends
EndOfPage(n) == IF Value("idx") - n < Limit THEN Value("idx") ELSE n + Limit

\* A page is what comes next in the log, as far as Limit or the log goes.
LEMMA PageIs ==
  ASSUME Inv, ~deleted, NEW n \in 0..Value("idx")
  PROVE  /\ EndOfPage(n) \in n..Value("idx")
         /\ Page(n) = Between(log, n, EndOfPage(n))
         /\ LastIndex(Page(n), n) = EndOfPage(n)
<1> DEFINE v == Value("idx")
           m == EndOfPage(n)
<1>1. Dense(log, v) /\ v \in Nat /\ n \in Nat /\ Limit \in Nat \ {0}
  BY LogIsDense, BatchesAssumption
<1>2. /\ m \in n..v
      /\ n < v => n < m
      /\ \A i \in 1..v : i <= m <=> (i - 1) - n < Limit
  BY <1>1 DEF EndOfPage
<1>3. ASSUME NEW e \in After(n)
      PROVE  Cardinality({f \in After(n) : f.idx < e.idx}) = (e.idx - 1) - n
  <2>1. e \in log /\ e.idx \in 1..v /\ n < e.idx
    BY <1>1 DEF After, Dense
  <2>2. \A f \in log : f.idx \in Nat
    BY <1>1 DEF Dense
  <2>3. {f \in After(n) : f.idx < e.idx} = Between(log, n, e.idx - 1)
    BY <1>1, <2>1, <2>2 DEF After, Between
  <2>4. n <= e.idx - 1 /\ e.idx - 1 <= v /\ e.idx - 1 \in Nat
    BY <1>1, <2>1
  <2> HIDE DEF v
  <2>5. Cardinality(Between(log, n, e.idx - 1)) = (e.idx - 1) - n
    BY <1>1, <2>4, BetweenCount
  <2> QED BY <2>3, <2>5
<1> HIDE DEF v, m
<1>4. Page(n) = Between(log, n, m)
  <2>1. \A e \in After(n) : e \in log /\ e.idx \in 1..v /\ n < e.idx
    BY <1>1 DEF After, Dense
  <2>2. \A e \in After(n) : e.idx <= m <=> (e.idx - 1) - n < Limit
    BY <1>2, <2>1
  <2>3. Page(n) = {e \in After(n) : e.idx <= m}
    BY <1>3, <2>2 DEF Page
  <2> QED BY <2>3 DEF After, Between
<1>5. CASE n = v
  <2>1. Page(n) = {}
    <3>1. \A e \in log : e.idx \in 1..v
      BY <1>1 DEF Dense
    <3> QED BY <1>1, <1>4, <1>5, <3>1 DEF Between, m, EndOfPage, v
  <2> QED BY <1>1, <1>2, <1>4, <1>5, <2>1 DEF LastIndex, m, v
<1>6. CASE n < v
  <2> DEFINE I == {e.idx : e \in Page(n)}
  <2>1. m \in 1..v /\ n < m
    BY <1>1, <1>2, <1>6
  <2>2. PICK e \in log : e.idx = m
    BY <1>1, <2>1 DEF Dense
  <2>3. e \in Page(n)
    BY <1>4, <2>1, <2>2 DEF Between
  <2>4. m \in I /\ \A i \in I : i <= m
    BY <1>4, <2>2, <2>3 DEF Between
  <2>5. \A i \in I : i \in Int
    <3>1. \A f \in Page(n) : f.idx \in 1..v
      BY <1>1, <1>4 DEF Between, Dense
    <3> QED BY <3>1
  <2> HIDE DEF I
  <2>6. Max(I) = m
    <3>1. m \in I /\ \A y \in I : m >= y
      BY <1>1, <1>2, <2>4, <2>5
    <3>2. Max(I) \in I /\ \A y \in I : Max(I) >= y
      BY <3>1 DEF Max
    <3>3. Max(I) >= m /\ m >= Max(I)
      BY <3>1, <3>2
    <3> QED BY <2>5, <3>1, <3>2, <3>3
  <2> QED BY <1>2, <1>4, <2>3, <2>6 DEF LastIndex, I, m, v
<1> QED BY <1>1, <1>2, <1>4, <1>5, <1>6 DEF m, v

-----------------------------------------------------------------------------
(* What readers have                                                        *)

UpToIndex(n) == {e \in log : e.idx <= n}

\* A reader is somewhere in the log and has all of it up to there.
ReadersInv ==
  /\ DOMAIN got = Readers /\ DOMAIN readTo = Readers
  /\ ~deleted => \A r \in Readers : /\ readTo[r] \in 0..Value("idx")
                                    /\ got[r] = UpToIndex(readTo[r])

LEMMA ReadersInitially == Init => ReadersInv
BY DEF Init, ReadersInv, UpToIndex, Value

\* Events go behind the log.
LEMMA EventsAppended ==
  ASSUME Inv, NEW p \in Posts, AddEvents(p), ~deleted
  PROVE  /\ log' = log \cup NewEntries(p)
         /\ Value("idx") \in Nat /\ Value("idx")' \in Nat
         /\ Value("idx") <= Value("idx")'
         /\ \A e \in NewEntries(p) : e.idx \in Nat /\ Value("idx") < e.idx
<1> DEFINE n == ChunkSize(p)
<1>1. /\ pc[p] = "add" /\ tx[p] = "open" /\ Commit(p, "idx")
      /\ log' = log \cup NewEntries(p)
  BY DEF AddEvents, Commit
<1>2. TypeOK /\ PostState(p) /\ pos[p] < Size[p]
  BY <1>1 DEF Inv, PostState
<1>3. n \in Nat \ {0} /\ index[p] \in Nat /\ index[p] > 0 /\ Value("idx") \in Nat
  BY <1>1, <1>2, ChunkFits DEF PostState, TypeOK, Value
<1>4. index[p] = Value("idx") + n
  BY <1>1 DEF Inv, IndexKnown
<1>5. Value("idx")' = index[p]
  BY <1>1, <1>2, <1>3, CommitTypes DEF Value, Fields
<1>6. \A e \in NewEntries(p) : e.idx \in Nat /\ Value("idx") < e.idx
  BY <1>3, <1>4 DEF NewEntries
<1> QED BY <1>1, <1>3, <1>4, <1>5, <1>6

\* A step that is not a reader's and does not reach the log
LEMMA ReadersStay ==
  ASSUME Inv, ReadersInv, UNCHANGED reading,
         \/ deleted'
         \/ UNCHANGED <<deleted, log>> /\ Value("idx")' = Value("idx")
  PROVE  ReadersInv'
BY DEF ReadersInv, UpToIndex, reading

LEMMA ReadersAppend ==
  ASSUME Inv, ReadersInv, NEW p \in Posts, AddEvents(p)
  PROVE  ReadersInv'
<1>1. UNCHANGED <<deleted, reading>>
  BY DEF AddEvents
<1>2. CASE ~deleted
  <2>1. ASSUME NEW r \in Readers
        PROVE  readTo[r] \in 0..Value("idx")' /\ UpToIndex(readTo[r])' = UpToIndex(readTo[r])
    <3>1. readTo[r] \in 0..Value("idx")
      BY <1>2 DEF ReadersInv
    <3> QED BY <1>1, <1>2, <3>1, EventsAppended DEF UpToIndex, reading
  <2> QED BY <1>1, <1>2, <2>1 DEF ReadersInv, UpToIndex, reading
<1> QED BY <1>1, <1>2 DEF ReadersInv, reading

LEMMA ReadersRead ==
  ASSUME Inv, ReadersInv, NEW r \in Readers, Events(r)
  PROVE  ReadersInv'
<1>1. /\ got' = [got EXCEPT ![r] = @ \cup Page(readTo[r])]
      /\ readTo' = [readTo EXCEPT ![r] = LastIndex(Page(readTo[r]), readTo[r])]
      /\ UNCHANGED server
  BY DEF Events
<1>2. DOMAIN got' = Readers /\ DOMAIN readTo' = Readers
  BY <1>1 DEF ReadersInv
<1>3. Value("idx")' = Value("idx")
  BY <1>1 DEF Value, server
<1>4. ASSUME ~deleted, NEW s \in Readers
      PROVE  readTo'[s] \in 0..Value("idx") /\ got'[s] = UpToIndex(readTo'[s])
  <2>1. readTo[s] \in 0..Value("idx") /\ got[s] = UpToIndex(readTo[s])
    BY <1>4 DEF ReadersInv
  <2>2. CASE s # r
    BY <1>1, <2>1, <2>2 DEF ReadersInv
  <2>3. CASE s = r
    <3> DEFINE n == readTo[r]
               m == EndOfPage(n)
    <3>1. /\ m \in n..Value("idx") /\ Page(n) = Between(log, n, m)
          /\ LastIndex(Page(n), n) = m
      BY <1>4, <2>1, <2>3, PageIs
    <3>2. readTo'[r] = m /\ got'[r] = got[r] \cup Page(n)
      BY <1>1, <3>1 DEF ReadersInv
    <3>3. \A e \in log : e.idx \in Nat
      BY <1>4, LogIsDense DEF Dense
    <3>4. Value("idx") \in Nat
      BY <1>4, LogIsDense
    <3> HIDE DEF m
    <3>5. UpToIndex(n) \cup Between(log, n, m) = UpToIndex(m)
      BY <2>1, <2>3, <3>1, <3>3, <3>4 DEF UpToIndex, Between
    <3> QED BY <2>1, <2>3, <3>1, <3>2, <3>4, <3>5
  <2> QED BY <2>2, <2>3
<1> QED BY <1>1, <1>2, <1>3, <1>4 DEF ReadersInv, UpToIndex, server

LEMMA ReadersNext ==
  ASSUME Inv, ReadersInv, [Next]_vars
  PROVE  ReadersInv'
<1>1. CASE UNCHANGED vars
  BY <1>1, ReadersStay DEF vars, reading, Value
<1>2. ASSUME NEW p \in Posts, Post(p) PROVE ReadersInv'
  <2>1. CASE AddUsage(p)
    <3>1. pc[p] = "usage" /\ tx[p] = "open" /\ Commit(p, "usage")
      BY <2>1 DEF AddUsage, Commit
    <3>2. Value("idx")' = Value("idx")
      BY <3>1, CommitTypes DEF Value, Fields, Inv, PostState
    <3> QED BY <2>1, <3>2, ReadersStay DEF AddUsage
  <2>2. CASE CheckDeleted(p, "add") \/ TryEvents(p) \/ TryUsage(p) \/ GetDoc(p)
    BY <2>2, ReadersStay DEF CheckDeleted, TryEvents, TryUsage, Attempt, GetDoc,
                             server, Value
  <2> QED BY <1>2, <2>1, <2>2, ReadersAppend DEF Post
<1>3. ASSUME NEW d \in Deletes, Delete(d) PROVE ReadersInv'
  <2>1. CASE CheckDeleted(d, "mark") \/ QueryBatch(d) \/ CheckExists(d)
    BY <2>1, ReadersStay DEF CheckDeleted, QueryBatch, CheckExists, server, Value
  <2>2. CASE Mark(d)
    BY <2>2, ReadersStay DEF Mark
  <2>3. CASE RemoveBatch(d) \/ DropDoc(d)
    BY <2>3, ReadersStay DEF RemoveBatch, DropDoc, Inv, Marked
  <2> QED BY <1>3, <2>1, <2>2, <2>3 DEF Delete
<1>4. ASSUME NEW r \in Readers, List(r) PROVE ReadersInv'
  BY <1>4, ReadersRead, ReadersStay DEF List, CheckDeleted, server, Value
<1>5. ASSUME NEW r \in Posts \cup Deletes, Fail(r) PROVE ReadersInv'
  BY <1>5, ReadersStay DEF Fail, server, Value
<1> QED BY <1>1, <1>2, <1>3, <1>4, <1>5 DEF Next, Done

\* A page continues where the last one ended and leaves out nothing, however
\* POSTs, and their retries, come between (events in
\* http/server/events.go, Events in firestore/events.go), so a reader never
\* skips an event of another device.
THEOREM ReadersGetAll == Spec => []ReadersComplete
<1>1. Inv /\ ReadersInv /\ [Next]_vars => ReadersInv'
  BY ReadersNext
<1>2. ReadersInv => ReadersComplete
  BY DEF ReadersInv, ReadersComplete, UpToIndex
<1> QED BY <1>1, <1>2, ReadersInitially, Invariance, PTL DEF Spec

-----------------------------------------------------------------------------
(* What the usage counts                                                    *)

\* The events of the POSTs in S
Total(S) == MapThenSumSet(LAMBDA p : Size[p], S)

First(S) == CHOOSE p \in S : TRUE

\* Adds(D, f): f[S] is the total of S for the subsets S of D, one after another.
Adds(D, f) ==
  f = [S \in SUBSET D |-> IF S = {} THEN 0 ELSE Size[First(S)] + f[S \ {First(S)}]]

LEMMA TotalIs ==
  ASSUME NEW S
  PROVE  Total(S) = (CHOOSE f : Adds(S, f))[S]
BY DEF Total, MapThenSumSet, MapThenFoldSet, Adds, First

\* Among finite sets there is one that contains none of the others.
LEMMA Smallest ==
  ASSUME NEW C, \A S \in C : IsFiniteSet(S), C # {}
  PROVE  \E S \in C : \A x \in S : S \ {x} \notin C
<1> DEFINE Sizes == {Cardinality(S) : S \in C}
<1>1. \A S \in C : Cardinality(S) \in Nat
  BY FS_CardinalityType
<1>2. Sizes \in SUBSET Nat /\ Sizes # {}
  BY <1>1
<1>3. PICK k \in Sizes : \A j \in Sizes : ~(<<j, k>> \in OpToRel(<, Nat))
  <2> HIDE DEF Sizes
  <2> QED BY <1>2, NatLessThanWellFounded, WFMin
<1>4. k \in Nat /\ \A j \in Sizes : j \in Nat /\ ~(j < k)
  BY <1>2, <1>3, Zenon DEF OpToRel
<1>5. PICK S \in C : Cardinality(S) = k
  OBVIOUS
<1>6. ASSUME NEW x \in S, S \ {x} \in C PROVE FALSE
  <2>1. Cardinality(S \ {x}) = k - 1
    BY <1>5, <1>6, FS_RemoveElement
  <2>2. Cardinality(S \ {x}) \in Sizes
    BY <1>6
  <2> QED BY <1>4, <2>1, <2>2
<1> QED BY <1>5, <1>6

LEMMA FirstIn == ASSUME NEW S, S # {} PROVE First(S) \in S
BY DEF First

LEMMA AddsAt ==
  ASSUME NEW D, NEW f, Adds(D, f), NEW S \in SUBSET D
  PROVE  f[S] = IF S = {} THEN 0 ELSE Size[First(S)] + f[S \ {First(S)}]
<1> DEFINE F(T) == IF T = {} THEN 0 ELSE Size[First(T)] + f[T \ {First(T)}]
<1>1. f = [T \in SUBSET D |-> F(T)]
  BY DEF Adds
<1> HIDE DEF F
<1>2. f[S] = F(S)
  BY <1>1
<1> QED BY <1>2 DEF F

\* What two of them say of one set is the same.
LEMMA AddsAgree ==
  ASSUME NEW D, NEW f, Adds(D, f), NEW E, NEW g, Adds(E, g),
         NEW S \in SUBSET D, S \in SUBSET E, IsFiniteSet(S)
  PROVE  f[S] = g[S]
<1> DEFINE C == {T \in SUBSET S : f[T] # g[T]}
<1>1. \A T \in C : IsFiniteSet(T)
  BY FS_Subset
<1>2. CASE C # {}
  <2>1. PICK T \in C : \A x \in T : T \ {x} \notin C
    <3> HIDE DEF C
    <3> QED BY <1>1, <1>2, Smallest
  <2>2. T \in SUBSET D /\ T \in SUBSET E
    OBVIOUS
  <2>3. /\ f[T] = IF T = {} THEN 0 ELSE Size[First(T)] + f[T \ {First(T)}]
        /\ g[T] = IF T = {} THEN 0 ELSE Size[First(T)] + g[T \ {First(T)}]
    <3> HIDE DEF C
    <3>1. f[T] = IF T = {} THEN 0 ELSE Size[First(T)] + f[T \ {First(T)}]
      BY <2>2, AddsAt
    <3>2. g[T] = IF T = {} THEN 0 ELSE Size[First(T)] + g[T \ {First(T)}]
      BY <2>2, AddsAt
    <3> QED BY <3>1, <3>2
  <2>4. T # {} /\ First(T) \in T
    BY <2>3, FirstIn
  <2>5. f[T \ {First(T)}] = g[T \ {First(T)}]
    BY <2>1, <2>4
  <2> QED BY <2>3, <2>4, <2>5
<1> QED BY <1>2

LEMMA TotalAgrees ==
  ASSUME NEW S, IsFiniteSet(S), NEW f, Adds(S, f), NEW T \in SUBSET S, NEW g, Adds(T, g)
  PROVE  f[T] = Total(T)
<1>1. Adds(T, CHOOSE h : Adds(T, h))
  OBVIOUS
<1>2. IsFiniteSet(T) /\ T \in SUBSET T
  BY FS_Subset
<1>3. f[T] = (CHOOSE h : Adds(T, h))[T]
  <2> DEFINE h == CHOOSE h : Adds(T, h)
  <2>1. Adds(T, h)
    BY <1>1
  <2> HIDE DEF h
  <2>2. f[T] = h[T]
    BY <1>2, <2>1, AddsAgree
  <2> QED BY <2>2 DEF h
<1> QED BY <1>3, TotalIs

\* There is one for every finite set.
LEMMA AddsExists ==
  ASSUME NEW D, IsFiniteSet(D)
  PROVE  \E f : Adds(D, f)
<1> DEFINE C == {S \in SUBSET D : ~\E f : Adds(S, f)}
           G(S) == Size[First(S)] + Total(S \ {First(S)})
<1>1. \A S \in SUBSET D : IsFiniteSet(S)
  BY FS_Subset
<1>2. CASE C # {}
  <2>1. PICK S \in C : \A x \in S : S \ {x} \notin C
    <3>1. \A S \in C : IsFiniteSet(S)
      BY <1>1
    <3> HIDE DEF C
    <3> QED BY <3>1, <1>2, Smallest
  <2>a. S \in SUBSET D
    OBVIOUS
  \* Each set that misses an element of S has its function.
  <2>2. ASSUME NEW T \in SUBSET S, T # S
        PROVE  \E g : Adds(T, g)
    <3>1. PICK x \in S : x \notin T
      BY <2>2
    <3>2. PICK h : Adds(S \ {x}, h)
      BY <2>1
    <3> DEFINE g == [U \in SUBSET T |-> h[U]]
    <3>3. ASSUME NEW U \in SUBSET T
          PROVE  g[U] = IF U = {} THEN 0 ELSE Size[First(U)] + g[U \ {First(U)}]
      <4>1. U \in SUBSET (S \ {x})
        BY <3>1
      <4>2. h[U] = IF U = {} THEN 0 ELSE Size[First(U)] + h[U \ {First(U)}]
        BY <3>2, <4>1, AddsAt
      <4>3. U \ {First(U)} \in SUBSET T
        OBVIOUS
      <4> QED BY <4>2, <4>3
    <3>4. g = [U \in SUBSET T |-> g[U]]
      OBVIOUS
    <3> HIDE DEF g
    <3>5. Adds(T, g)
      BY <3>3, <3>4 DEF Adds
    <3> QED BY <3>5
  \* So totals of smaller sets are as they should be, and S has one too.
  <2>3. ASSUME NEW T \in SUBSET S, T # S, T # {}
        PROVE  Total(T) = G(T)
    <3>1. PICK f : Adds(T, f)
      BY <2>2, <2>3
    <3>2. First(T) \in T /\ T \ {First(T)} \in SUBSET T /\ T \ {First(T)} # S
      BY <2>3, FirstIn
    <3>3. PICK g : Adds(T \ {First(T)}, g)
      <4>1. T \ {First(T)} \in SUBSET S
        OBVIOUS
      <4> QED BY <2>2, <3>2, <4>1
    <3>4. T \in SUBSET T /\ IsFiniteSet(T)
      BY <1>1, <2>a
    <3>5. f[T] = Total(T)
      BY <3>1, <3>4, TotalAgrees
    <3>6. f[T \ {First(T)}] = Total(T \ {First(T)})
      <4> DEFINE U == T \ {First(T)}
      <4>1. U \in SUBSET T /\ Adds(U, g)
        BY <3>2, <3>3
      <4> HIDE DEF U
      <4>2. f[U] = Total(U)
        BY <3>1, <3>4, <4>1, TotalAgrees
      <4> QED BY <4>2 DEF U
    <3>7. f[T] = Size[First(T)] + f[T \ {First(T)}]
      BY <2>3, <3>1, <3>4, AddsAt
    <3> QED BY <3>5, <3>6, <3>7
  <2>4. {} # S => Total({}) = 0
    <3>1. SUFFICES ASSUME {} # S PROVE Total({}) = 0
      OBVIOUS
    <3>2. PICK f : Adds({}, f)
      BY <2>2, <3>1
    <3>3. f[{}] = 0
      <4>1. {} \in SUBSET {}
        OBVIOUS
      <4> QED BY <3>2, <4>1, AddsAt
    <3>4. f[{}] = Total({})
      BY <3>2, FS_EmptySet, TotalAgrees
    <3> QED BY <3>3, <3>4
  <2> DEFINE f == [T \in SUBSET S |-> IF T = {} THEN 0 ELSE G(T)]
  <2>5. ASSUME NEW T \in SUBSET S
        PROVE  f[T] = IF T = {} THEN 0 ELSE Size[First(T)] + f[T \ {First(T)}]
    <3>1. CASE T = {}
      BY <3>1
    <3>2. CASE T # {}
      <4> DEFINE U == T \ {First(T)}
      <4>1. U \in SUBSET S /\ U # S
        BY <3>2, FirstIn
      <4>2. f[U] = IF U = {} THEN 0 ELSE G(U)
        BY <4>1
      <4>3. f[U] = Total(U)
        <5> HIDE DEF U, f, G
        <5>1. U = {} => {} # S
          BY <4>1
        <5> QED BY <2>3, <2>4, <4>1, <4>2, <5>1
      <4>4. f[T] = Size[First(T)] + Total(U)
        BY <3>2
      <4> QED BY <3>2, <4>3, <4>4
    <3> QED BY <3>1, <3>2
  <2>6. f = [T \in SUBSET S |-> f[T]]
    OBVIOUS
  <2> HIDE DEF f
  <2>7. Adds(S, f)
    BY <2>5, <2>6 DEF Adds
  <2> QED BY <2>7
<1> QED BY <1>2

LEMMA TotalStep ==
  ASSUME NEW S, IsFiniteSet(S), S # {}
  PROVE  Total(S) = Size[First(S)] + Total(S \ {First(S)})
<1>1. PICK f : Adds(S, f)
  BY AddsExists
<1> DEFINE U == S \ {First(S)}
<1>2. IsFiniteSet(U) /\ U \in SUBSET S /\ S \in SUBSET S
  BY FS_Subset
<1>3. PICK g : Adds(U, g)
  BY <1>2, AddsExists
<1>4. f[S] = Total(S)
  BY <1>1, <1>2, TotalAgrees
<1>5. f[U] = Total(U)
  <2> HIDE DEF U
  <2> QED BY <1>1, <1>2, <1>3, TotalAgrees
<1>6. f[S] = Size[First(S)] + f[U]
  BY <1>1, <1>2, AddsAt
<1> QED BY <1>4, <1>5, <1>6

LEMMA TotalEmpty == Total({}) = 0
<1>1. IsFiniteSet({}) /\ {} \in SUBSET {}
  BY FS_EmptySet
<1>2. PICK f : Adds({}, f)
  BY <1>1, AddsExists
<1>3. f[{}] = 0
  BY <1>1, <1>2, AddsAt
<1>4. f[{}] = Total({})
  BY <1>1, <1>2, TotalAgrees
<1> QED BY <1>3, <1>4

LEMMA TotalType ==
  ASSUME NEW D \in SUBSET Posts, IsFiniteSet(D)
  PROVE  Total(D) \in Nat
<1> DEFINE C == {S \in SUBSET D : Total(S) \notin Nat}
<1>1. \A S \in C : IsFiniteSet(S)
  BY FS_Subset
<1>2. CASE C # {}
  <2>1. PICK S \in C : \A x \in S : S \ {x} \notin C
    <3> HIDE DEF C
    <3> QED BY <1>1, <1>2, Smallest
  <2>2. S # {}
    BY TotalEmpty
  <2>3. First(S) \in S /\ Size[First(S)] \in Nat
    BY <2>2, FirstIn, SizeAssumption
  <2>4. Total(S \ {First(S)}) \in Nat
    BY <2>1, <2>3
  <2>5. Total(S) = Size[First(S)] + Total(S \ {First(S)})
    BY <1>1, <2>2, TotalStep
  <2> QED BY <2>3, <2>4, <2>5
<1> QED BY <1>2

\* The order in which the sum takes the POSTs does not matter.
LEMMA TotalWith ==
  ASSUME NEW D \in SUBSET Posts, IsFiniteSet(D), NEW p \in D
  PROVE  Total(D) = Size[p] + Total(D \ {p})
<1> DEFINE C == {S \in SUBSET D : \E x \in S : Total(S) # Size[x] + Total(S \ {x})}
<1>1. \A S \in SUBSET D : IsFiniteSet(S) /\ Total(S) \in Nat
  BY FS_Subset, TotalType
<1>2. CASE C # {}
  <2>1. PICK S \in C : \A x \in S : S \ {x} \notin C
    <3>1. \A S \in C : IsFiniteSet(S)
      BY <1>1
    <3> HIDE DEF C
    <3> QED BY <1>2, <3>1, Smallest
  <2>2. PICK x \in S : Total(S) # Size[x] + Total(S \ {x})
    OBVIOUS
  <2> DEFINE y == First(S)
  <2>3. y \in S /\ Total(S) = Size[y] + Total(S \ {y})
    BY <1>1, FirstIn, TotalStep
  <2>4. x # y
    BY <2>2, <2>3
  <2> HIDE DEF y
  <2>5. Size[x] \in Nat /\ Size[y] \in Nat
    BY <2>3, SizeAssumption
  <2>6. Total(S \ {y}) = Size[x] + Total((S \ {y}) \ {x})
    BY <2>1, <2>2, <2>3, <2>4
  <2>7. Total(S \ {x}) = Size[y] + Total((S \ {x}) \ {y})
    BY <2>1, <2>2, <2>3, <2>4
  <2>8. (S \ {y}) \ {x} = (S \ {x}) \ {y} /\ Total((S \ {x}) \ {y}) \in Nat
    BY <1>1
  <2>9. Total(S) = Size[x] + Total(S \ {x})
    <3> DEFINE m == Size[x]
               n == Size[y]
               k == Total((S \ {x}) \ {y})
    <3>1. m \in Nat /\ n \in Nat /\ k \in Nat
      BY <2>5, <2>8
    <3>2. Total(S) = n + (m + k) /\ Total(S \ {x}) = n + k
      BY <2>3, <2>6, <2>7, <2>8
    <3> HIDE DEF m, n, k
    <3>3. n + (m + k) = m + (n + k)
      BY <3>1
    <3> QED BY <3>2, <3>3 DEF m
  <2> QED BY <2>2, <2>9
<1>3. CASE C = {}
  BY <1>3
<1> QED BY <1>2, <1>3

LEMMA TotalMore ==
  ASSUME NEW D \in SUBSET Posts, IsFiniteSet(D), NEW T \in SUBSET D
  PROVE  Total(T) <= Total(D)
<1> DEFINE C == {S \in SUBSET D : T \subseteq S /\ ~(Total(T) <= Total(S))}
<1>1. \A S \in SUBSET D : IsFiniteSet(S) /\ Total(S) \in Nat
  BY FS_Subset, TotalType
<1>2. CASE C # {}
  <2>1. PICK S \in C : \A x \in S : S \ {x} \notin C
    <3>1. \A S \in C : IsFiniteSet(S)
      BY <1>1
    <3> HIDE DEF C
    <3> QED BY <1>2, <3>1, Smallest
  <2>2. S # T
    BY <1>1
  <2>3. PICK x \in S : x \notin T
    BY <2>2
  <2>4. Total(S) = Size[x] + Total(S \ {x})
    BY <1>1, TotalWith
  <2>5. Total(T) <= Total(S \ {x})
    BY <2>1, <2>3
  <2>6. Size[x] \in Nat /\ Total(S \ {x}) \in Nat /\ Total(T) \in Nat
    BY <1>1, SizeAssumption
  <2> QED BY <2>4, <2>5, <2>6
<1>3. D \notin C
  BY <1>2
<1> QED BY <1>3

-----------------------------------------------------------------------------
\* POSTs whose events are in the usage
Counted == {p \in Posts : pc[p] \in {"get", "ok"}}

\* A transaction that can still commit adds to what the usage is now.
UsageKnown(p) ==
  tx[p] = "open" /\ pc[p] = "usage" => index[p] >= Value("usage") + Size[p]

UsageInv ==
  ~deleted => Total(Counted) <= Value("usage") /\ \A p \in Posts : UsageKnown(p)

LEMMA CountedFinite ==
  /\ IsFiniteSet(Counted) /\ Total(Counted) \in Nat
  /\ \A S \in SUBSET Counted : IsFiniteSet(S) /\ Total(S) \in Nat /\ Total(S) <= Total(Counted)
<1>1. Posts \subseteq Requests /\ IsFiniteSet(Requests)
  BY RequestsAssumption DEF Requests
<1>2. Counted \in SUBSET Posts
  BY DEF Counted
<1>3. \A S \in SUBSET Counted : IsFiniteSet(S) /\ S \in SUBSET Posts
  BY <1>1, <1>2, FS_Subset
<1>4. Counted \in SUBSET Counted
  OBVIOUS
<1> QED BY <1>2, <1>3, <1>4, TotalType, TotalMore

LEMMA UsageInitially == Init => UsageInv
<1> SUFFICES ASSUME Init PROVE UsageInv
  OBVIOUS
<1>1. Counted = {}
  BY DEF Init, Counted, Requests
<1>2. Value("usage") = 0
  BY DEF Init, Value
<1> QED BY <1>1, <1>2, TotalEmpty DEF UsageInv, UsageKnown, Init

LEMMA UsageStays ==
  ASSUME Inv, UsageInv,
         \/ deleted'
         \/ /\ ~deleted /\ Value("usage")' = Value("usage") /\ Counted' \subseteq Counted
            /\ \A p \in Posts : UsageKnown(p)'
  PROVE  UsageInv'
<1> SUFFICES ASSUME ~deleted' PROVE Total(Counted)' <= Value("usage")'
  BY DEF UsageInv
<1>1. Total(Counted)' = Total(Counted')
  BY DEF Total, MapThenSumSet, MapThenFoldSet
<1> DEFINE S == Counted'
<1>2. S \in SUBSET Counted
  OBVIOUS
<1> HIDE DEF S
<1>3. Total(S) \in Nat /\ Total(S) <= Total(Counted) /\ Total(Counted) \in Nat
  BY <1>2, CountedFinite
<1>4. Value("usage") \in Nat
  BY DEF Inv, TypeOK, Value
<1> QED BY <1>1, <1>3, <1>4 DEF S, UsageInv

LEMMA UsageAdded ==
  ASSUME Inv, UsageInv, NEW p \in Posts, AddUsage(p)
  PROVE  UsageInv'
<1>1. /\ pc[p] = "usage" /\ tx[p] = "open" /\ Commit(p, "usage")
      /\ Goto(p, "get") /\ UNCHANGED deleted
  BY DEF AddUsage, Commit
<1>2. TypeOK /\ index[p] > 0 /\ index[p] \in Nat /\ Size[p] \in Nat
  BY <1>1, SizeAssumption DEF Inv, PostState, TypeOK
<1>3. Value("usage")' = index[p]
  BY <1>1, <1>2, CommitTypes DEF Value, Fields
<1>4. \A q \in Posts : tx'[q] # "open"
  BY <1>1, <1>2, CommitTypes DEF Fields
<1>5. Counted' = Counted \cup {p} /\ p \notin Counted
  BY <1>1, <1>2 DEF Counted, Goto, TypeOK, Requests
<1>6. Total(Counted') = Size[p] + Total(Counted)
  <2> DEFINE S == Counted \cup {p}
  <2>1. IsFiniteSet(S) /\ S \in SUBSET Posts /\ p \in S
    BY CountedFinite, FS_AddElement DEF Counted
  <2>2. S \ {p} = Counted
    BY <1>5
  <2> HIDE DEF S
  <2>3. Total(S) = Size[p] + Total(S \ {p})
    BY <2>1, TotalWith
  <2> QED BY <1>5, <2>2, <2>3 DEF S
<1>7. Total(Counted)' = Total(Counted')
  BY DEF Total, MapThenSumSet, MapThenFoldSet
<1>8. ~deleted => Total(Counted) <= Value("usage") /\ index[p] >= Value("usage") + Size[p]
  BY <1>1 DEF UsageInv, UsageKnown
<1>9. Total(Counted) \in Nat /\ Value("usage") \in Nat
  BY <1>2, CountedFinite DEF TypeOK, Value
<1>10. ~deleted => Total(Counted)' <= Value("usage")'
  BY <1>2, <1>3, <1>6, <1>7, <1>8, <1>9
<1> QED BY <1>1, <1>4, <1>10 DEF UsageInv, UsageKnown

LEMMA UsageNext ==
  ASSUME Inv, UsageInv, [Next]_vars
  PROVE  UsageInv'
<1>t. TypeOK /\ \A p \in Posts : PostState(p)
  BY DEF Inv
<1>1. CASE UNCHANGED vars
  BY <1>1, UsageStays DEF vars, UsageInv, UsageKnown, Counted, Value
<1>2. ASSUME NEW p \in Posts, Post(p) PROVE UsageInv'
  <2>1. CASE CheckDeleted(p, "add")
    <3>1. /\ pc[p] = "check" /\ pc' = [pc EXCEPT ![p] = Passed(p, "add")]
          /\ UNCHANGED <<deleted, doc, tx, index>>
      BY <2>1 DEF CheckDeleted, Goto, server, posting
    <3>2. Passed(p, "add") \in {"notfound", "add"}
      BY DEF Passed
    <3>3. Counted' \subseteq Counted
      BY <1>t, <3>1, <3>2 DEF Counted, TypeOK, Requests
    <3>4. ~deleted => \A q \in Posts : UsageKnown(q)'
      BY <1>t, <3>1, <3>2 DEF UsageInv, UsageKnown, Value, TypeOK, Requests
    <3> QED BY <3>1, <3>3, <3>4, UsageStays DEF Value
  <2>2. CASE TryEvents(p) \/ TryUsage(p)
    <3>1. /\ UNCHANGED <<deleted, doc, pc>>
          /\ \/ pc[p] = "add" /\ Attempt(p, "idx", ChunkSize(p))
             \/ pc[p] = "usage" /\ Attempt(p, "usage", Size[p])
      BY <2>2 DEF TryEvents, TryUsage, Attempt, server
    <3>2. Counted' = Counted /\ Value("usage")' = Value("usage")
      BY <3>1 DEF Counted, Value
    <3>3. ASSUME ~deleted, NEW q \in Posts
          PROVE  UsageKnown(q)'
      <4>1. UsageKnown(q)
        BY <3>3 DEF UsageInv
      <4>2. CASE q # p
        BY <1>t, <3>1, <3>2, <4>1, <4>2 DEF UsageKnown, Attempt, TypeOK
      <4>3. CASE q = p /\ pc[p] = "usage"
        <5>1. index'[p] = Found(p, "usage") + Size[p]
          BY <1>t, <3>1, <4>3 DEF Attempt, TypeOK
        <5>2. Found(p, "usage") \in Nat /\ Value("usage") <= Found(p, "usage")
          BY <1>t DEF Found, Value, TypeOK
        <5>3. Value("usage") \in Nat /\ Size[p] \in Nat
          BY <1>t, SizeAssumption DEF Value, TypeOK
        <5> QED BY <3>2, <4>3, <5>1, <5>2, <5>3 DEF UsageKnown
      <4>4. CASE q = p /\ pc[p] # "usage"
        BY <3>1, <4>4 DEF UsageKnown
      <4> QED BY <4>2, <4>3, <4>4
    <3> QED BY <3>1, <3>2, <3>3, UsageStays
  <2>3. CASE AddEvents(p)
    <3>1. pc[p] = "add" /\ tx[p] = "open" /\ Commit(p, "idx") /\ UNCHANGED deleted
      BY <2>3 DEF AddEvents, Commit
    <3>2. index[p] > 0
      BY <1>t, <3>1 DEF PostState
    <3>3. Value("usage")' = Value("usage") /\ \A q \in Posts : tx'[q] # "open"
      BY <1>t, <3>1, <3>2, CommitTypes DEF Value, Fields
    <3>4. \E label \in {"add", "usage"} : Goto(p, label)
      BY <2>3 DEF AddEvents
    <3>5. Counted' \subseteq Counted
      BY <1>t, <3>4 DEF Counted, Goto, TypeOK, Requests
    <3> QED BY <3>1, <3>3, <3>5, UsageStays DEF UsageKnown
  <2>4. CASE GetDoc(p)
    <3>1. pc[p] = "get" /\ pc' = [pc EXCEPT ![p] = "ok"] /\ UNCHANGED <<deleted, doc, tx, index>>
      BY <2>4 DEF GetDoc, Goto, server, posting
    <3>2. Counted' \subseteq Counted
      BY <1>t, <3>1 DEF Counted, TypeOK, Requests
    <3>3. ~deleted => \A q \in Posts : UsageKnown(q)'
      BY <1>t, <3>1 DEF UsageInv, UsageKnown, Value, TypeOK, Requests
    <3> QED BY <3>1, <3>2, <3>3, UsageStays DEF Value
  <2> QED BY <1>2, <2>1, <2>2, <2>3, <2>4, UsageAdded DEF Post
\* Whatever moves a request that is no POST leaves the POSTs where they are.
<1>3. ASSUME NEW r \in Deletes \cup Readers, NEW label, Goto(r, label),
             UNCHANGED <<deleted, doc, tx, index>>
      PROVE  UsageInv'
  <2>1. \A p \in Posts : pc'[p] = pc[p]
    BY <1>t, <1>3, RequestsAssumption DEF Goto, TypeOK, Requests
  <2>2. Counted' = Counted
    BY <2>1 DEF Counted
  <2>3. ~deleted => \A p \in Posts : UsageKnown(p)'
    BY <1>3, <2>1 DEF UsageInv, UsageKnown, Value
  <2> QED BY <1>3, <2>2, <2>3, UsageStays DEF Value
<1>4. ASSUME NEW d \in Deletes, Delete(d) PROVE UsageInv'
  <2>1. CASE CheckDeleted(d, "mark")
    BY <1>3, <2>1 DEF CheckDeleted, server, posting
  <2>2. CASE Mark(d)
    BY <2>2, UsageStays DEF Mark
  <2>3. CASE QueryBatch(d) \/ CheckExists(d)
    BY <1>3, <2>3 DEF QueryBatch, CheckExists, server, posting
  <2>4. CASE RemoveBatch(d) \/ DropDoc(d)
    <3>1. deleted /\ UNCHANGED deleted
      BY <2>4 DEF RemoveBatch, DropDoc, Inv, Marked
    <3> QED BY <3>1, UsageStays
  <2> QED BY <1>4, <2>1, <2>2, <2>3, <2>4 DEF Delete
<1>5. ASSUME NEW r \in Readers, List(r) PROVE UsageInv'
  BY <1>3, <1>5 DEF List, CheckDeleted, Events, server, posting
<1>6. ASSUME NEW r \in Posts \cup Deletes, Fail(r) PROVE UsageInv'
  <2>1. Goto(r, "error") /\ UNCHANGED <<deleted, doc>>
    BY <1>6 DEF Fail, server
  <2>2. Counted' \subseteq Counted
    BY <1>t, <2>1 DEF Counted, Goto, TypeOK, Requests
  <2>3. ASSUME ~deleted, NEW p \in Posts PROVE UsageKnown(p)'
    <3>1. UsageKnown(p)
      BY <2>3 DEF UsageInv
    <3>2. IF p = r THEN tx'[p] = "none"
          ELSE tx'[p] = tx[p] /\ index'[p] = index[p] /\ pc'[p] = pc[p]
      BY <1>t, <1>6, <2>1 DEF Fail, Goto, TypeOK, Requests
    <3> QED BY <2>1, <3>1, <3>2 DEF UsageKnown, Value
  <2> QED BY <2>1, <2>2, <2>3, UsageStays DEF Value
<1> QED BY <1>1, <1>2, <1>4, <1>5, <1>6 DEF Next, Done

\* The usage of a vault is never less than what answered POSTs have brought,
\* for any number of POSTs whose Increments run beside each other, fail and
\* are run again (Increment in firestore/events.go).
THEOREM UsageCountsAll == Spec => []UsageCovers
<1>1. Inv /\ UsageInv /\ [Next]_vars => UsageInv'
  BY UsageNext
<1>2. Inv /\ UsageInv => UsageCovers
  <2> DEFINE S == {p \in Posts : pc[p] = "ok"}
  <2> SUFFICES ASSUME Inv, UsageInv, ~deleted PROVE Total(S) <= Value("usage")
    BY DEF UsageCovers, Total
  <2>1. S \in SUBSET Counted
    BY DEF Counted
  <2> HIDE DEF S
  <2>2. Total(S) \in Nat /\ Total(S) <= Total(Counted) /\ Total(Counted) \in Nat
    BY <2>1, CountedFinite
  <2>3. Total(Counted) <= Value("usage") /\ Value("usage") \in Nat
    BY DEF Inv, TypeOK, Value, UsageInv
  <2> QED BY <2>2, <2>3
<1> QED BY <1>1, <1>2, UsageInitially, Invariance, PTL DEF Spec

-----------------------------------------------------------------------------
(* The vault server implements VaultHistory                                 *)

\* The sequence of dense entries has each event at its index.
LEMMA InOrderIs ==
  ASSUME NEW S, NEW n \in Nat, Dense(S, n)
  PROVE  /\ InOrder(S) \in Seq(Event) /\ Len(InOrder(S)) = n
         /\ \A e \in S : e.idx \in 1..n /\ InOrder(S)[e.idx] = e.ev
<1>1. \A e \in S : e \in Entry /\ e.idx \in 1..n
  BY DEF Dense
<1>2. Cardinality(S) = n
  <2>1. Between(S, 0, n) = S
    BY <1>1 DEF Between
  <2>2. Cardinality(Between(S, 0, n)) = n - 0
    BY BetweenCount
  <2> QED BY <2>1, <2>2
<1>3. ASSUME NEW e \in S
      PROVE  Cardinality({f \in S : f.idx < e.idx}) = e.idx - 1
  <2>1. {f \in S : f.idx < e.idx} = Between(S, 0, e.idx - 1)
    BY <1>1 DEF Between
  <2>2. e.idx - 1 \in Nat /\ e.idx - 1 <= n
    BY <1>1
  <2>3. ASSUME NEW b \in Nat, b <= n PROVE Cardinality(Between(S, 0, b)) = b
    <3>1. Cardinality(Between(S, 0, b)) = b - 0
      BY <2>3, BetweenCount
    <3> QED BY <3>1
  <2> QED BY <2>1, <2>2, <2>3
<1>4. ASSUME NEW e \in S
      PROVE  (CHOOSE f \in S : Cardinality({g \in S : g.idx < f.idx}) = e.idx - 1) = e
  <2> DEFINE f == CHOOSE f \in S :
                    Cardinality({g \in S : g.idx < f.idx}) = e.idx - 1
  <2>1. f \in S /\ Cardinality({g \in S : g.idx < f.idx}) = e.idx - 1
    BY <1>3
  <2> HIDE DEF f
  <2>2. f.idx - 1 = e.idx - 1
    BY <1>3, <2>1
  <2>3. f.idx = e.idx
    BY <1>1, <2>1, <2>2
  <2>4. f = e
    BY <2>1, <2>3 DEF Dense
  <2> QED BY <2>4 DEF f
<1>5. \A e \in S : InOrder(S)[e.idx] = e.ev
  <2> TAKE e \in S
  <2>1. InOrder(S)[e.idx] =
          (CHOOSE f \in S : Cardinality({g \in S : g.idx < f.idx}) = e.idx - 1).ev
    BY <1>1, <1>2 DEF InOrder
  <2> QED BY <1>4, <2>1
<1>6. \A i \in 1..n : InOrder(S)[i] \in Event
  <2> TAKE i \in 1..n
  <2>1. PICK e \in S : e.idx = i
    BY DEF Dense
  <2> QED BY <1>1, <1>5, <2>1 DEF Entry
<1>7. InOrder(S) \in [1..n -> Event]
  BY <1>2, <1>6 DEF InOrder
<1> QED BY <1>1, <1>5, <1>7

\* As abstract histories see the state: a dense log, and prefixes of it.
HistoryShape ==
  ~deleted =>
    /\ Value("idx") \in Nat /\ Dense(log, Value("idx"))
    /\ \A r \in Readers : /\ readTo[r] \in 0..Value("idx")
                          /\ Dense(got[r], readTo[r]) /\ got[r] \subseteq log

LEMMA HistoryHasShape ==
  ASSUME Inv, ReadersInv
  PROVE  HistoryShape
<1> SUFFICES ASSUME ~deleted PROVE HistoryShape
  BY DEF HistoryShape
<1>1. Value("idx") \in Nat /\ Dense(log, Value("idx"))
  BY LogIsDense
<1>2. ASSUME NEW r \in Readers
      PROVE  /\ readTo[r] \in 0..Value("idx")
             /\ Dense(got[r], readTo[r]) /\ got[r] \subseteq log
  <2>1. readTo[r] \in 0..Value("idx") /\ got[r] = UpToIndex(readTo[r])
    BY DEF ReadersInv
  <2>2. \A e \in log : e.idx \in 1..Value("idx")
    BY <1>1 DEF Dense
  <2>3. {e.idx : e \in got[r]} = 1..readTo[r]
    BY <1>1, <2>1, <2>2 DEF Dense, UpToIndex
  <2> QED BY <1>1, <2>1, <2>3 DEF Dense, UpToIndex
<1> QED BY <1>1, <1>2 DEF HistoryShape

HistoryStep == [History!Next]_(History!vars)

LEMMA HistoryInit == Init => History!Init
<1> SUFFICES ASSUME Init PROVE History!Init
  OBVIOUS
<1>1. Dense({}, 0)
  BY DEF Dense
<1>2. InOrder({}) = <<>>
  BY <1>1, InOrderIs
<1>3. Vaults = [k \in {Key} |-> <<>>] /\ Gone = {} /\ Seen = [r \in Readers |-> <<>>]
  BY <1>2 DEF Init, Vaults, Gone, Seen
<1>4. Member \in [Readers -> {Key} \cup {NoKey}]
  BY DEF Member
<1> QED BY <1>3, <1>4 DEF History!Init

\* Most steps change nothing that a history shows.
LEMMA NoHistoryStep ==
  ASSUME \/ UNCHANGED <<deleted, log, got>>
         \/ deleted /\ deleted'
  PROVE  HistoryStep
<1>1. UNCHANGED <<Vaults, Gone, Member, Seen>>
  BY DEF Vaults, Gone, Member, Seen
<1> QED BY <1>1 DEF HistoryStep, History!vars

\* A POST adds a chunk.
LEMMA GrowStep ==
  ASSUME Inv, HistoryShape, HistoryShape', NEW p \in Posts, AddEvents(p)
  PROVE  HistoryStep
<1>1. UNCHANGED <<deleted, got, readTo>>
  BY DEF AddEvents, reading
<1>2. CASE deleted
  BY <1>1, <1>2, NoHistoryStep
<1>3. CASE ~deleted
  <2> DEFINE v == Value("idx")
  <2>1. log \subseteq log' /\ v <= v' /\ v \in Nat /\ v' \in Nat
    BY <1>3, EventsAppended
  <2>2. /\ InOrder(log) \in Seq(Event) /\ Len(InOrder(log)) = v
        /\ \A e \in log : e.idx \in 1..v /\ InOrder(log)[e.idx] = e.ev
    BY <1>3, <2>1, InOrderIs DEF HistoryShape
  <2>3. /\ InOrder(log') \in Seq(Event) /\ Len(InOrder(log')) = v'
        /\ \A e \in log' : e.idx \in 1..v' /\ InOrder(log')[e.idx] = e.ev
    <3>1. Dense(log, v)' /\ v' \in Nat
      BY <1>1, <1>3 DEF HistoryShape
    <3>2. ASSUME NEW S, NEW n, S = log', n = v' PROVE Dense(S, n) /\ n \in Nat
      BY <3>1, <3>2 DEF Dense
    <3> QED BY <3>2, InOrderIs
  <2>4. \A i \in 1..v : \E e \in log : e.idx = i
    BY <1>3 DEF HistoryShape, Dense
  <2> HIDE DEF v
  <2>5. \A i \in 1..v : InOrder(log')[i] = InOrder(log)[i]
    BY <2>1, <2>2, <2>3, <2>4
  <2>6. History!Extends(InOrder(log'), InOrder(log))
    BY <2>1, <2>2, <2>3, <2>5 DEF History!Extends
  <2>7. UNCHANGED <<Gone, Member, Seen>> /\ Key \notin Gone
    BY <1>1, <1>3 DEF Gone, Member, Seen
  <2>8. Vaults[Key] = InOrder(log) /\ Vaults'[Key] = InOrder(log')
        /\ Vaults' = [Vaults EXCEPT ![Key] = Vaults'[Key]]
    BY <1>1, <1>3 DEF Vaults
  <2>9. History!Grow(Key)
    BY <2>3, <2>6, <2>7, <2>8 DEF History!Grow
  <2> QED BY <2>9 DEF HistoryStep, History!Next
<1> QED BY <1>2, <1>3

\* A DELETE sets the mark.
LEMMA RemoveStep ==
  ASSUME deleted'
  PROVE  HistoryStep
<1>1. CASE deleted
  BY <1>1, NoHistoryStep
<1>2. CASE ~deleted
  <2>1. Gone' = Gone \cup {Key} /\ Vaults' = [Vaults EXCEPT ![Key] = <<>>]
    BY <1>2 DEF Gone, Vaults
  <2>2. Member' = [r \in Readers |-> IF Member[r] = Key THEN NoKey ELSE Member[r]]
    BY <1>2 DEF Member
  <2>3. Seen' = [r \in Readers |-> IF Member[r] = Key THEN <<>> ELSE Seen[r]]
    BY <1>2 DEF Seen, Member
  <2>4. History!Remove(Key)
    BY <2>1, <2>2, <2>3 DEF History!Remove
  <2> QED BY <2>4 DEF HistoryStep, History!Next
<1> QED BY <1>1, <1>2

\* The first n entries in order are the first n events in order.
LEMMA InOrderOfPrefix ==
  ASSUME NEW S, NEW T, NEW v \in Nat, NEW n \in Nat, n <= v,
         Dense(S, v), Dense(T, n), T \subseteq S
  PROVE  InOrder(T) = SubSeq(InOrder(S), 1, n) /\ n \in 0..Len(InOrder(S))
<1>1. /\ InOrder(S) \in Seq(Event) /\ Len(InOrder(S)) = v
      /\ \A e \in S : e.idx \in 1..v /\ InOrder(S)[e.idx] = e.ev
  BY InOrderIs
<1>2. /\ InOrder(T) \in Seq(Event) /\ Len(InOrder(T)) = n
      /\ \A e \in T : e.idx \in 1..n /\ InOrder(T)[e.idx] = e.ev
  BY InOrderIs
<1>3. /\ SubSeq(InOrder(S), 1, n) \in Seq(Event)
      /\ Len(SubSeq(InOrder(S), 1, n)) = n
      /\ \A i \in 1..n : SubSeq(InOrder(S), 1, n)[i] = InOrder(S)[i]
  BY <1>1, SubSeqProperties
<1>4. \A i \in 1..n : \E e \in T : e.idx = i
  BY DEF Dense
<1>5. \A i \in 1..n : InOrder(T)[i] = SubSeq(InOrder(S), 1, n)[i]
  BY <1>1, <1>2, <1>3, <1>4
<1> QED BY <1>1, <1>2, <1>3, <1>5, SeqEqual

\* A GET
LEMMA CatchUpStep ==
  ASSUME Inv, ReadersInv, HistoryShape, HistoryShape', NEW r \in Readers, Events(r)
  PROVE  HistoryStep
<1>1. /\ got' = [got EXCEPT ![r] = @ \cup Page(readTo[r])]
      /\ readTo' = [readTo EXCEPT ![r] = LastIndex(Page(readTo[r]), readTo[r])]
      /\ UNCHANGED <<deleted, log>>
  BY DEF Events, server
<1>2. CASE deleted
  BY <1>1, <1>2, NoHistoryStep
<1>3. CASE ~deleted
  <2>1. InOrder(got'[r]) = SubSeq(InOrder(log), 1, readTo'[r])
        /\ readTo'[r] \in 0..Len(InOrder(log))
    <3>1. /\ Value("idx")' \in Nat /\ Dense(log, Value("idx"))'
          /\ readTo'[r] \in 0..Value("idx")' /\ Dense(got[r], readTo[r])'
          /\ got'[r] \subseteq log
      BY <1>1, <1>3 DEF HistoryShape
    <3>2. Dense(log, Value("idx")') /\ Dense(got'[r], readTo'[r])
      BY <1>1, <3>1 DEF Dense
    <3>3. readTo'[r] \in Nat /\ readTo'[r] <= Value("idx")'
      BY <3>1
    <3> QED BY <3>1, <3>2, <3>3, InOrderOfPrefix
  <2>2. readTo[r] <= readTo'[r]
    <3>1. readTo[r] \in 0..Value("idx")
      BY <1>3 DEF HistoryShape
    <3>2. /\ EndOfPage(readTo[r]) \in readTo[r]..Value("idx")
          /\ LastIndex(Page(readTo[r]), readTo[r]) = EndOfPage(readTo[r])
      BY <1>3, <3>1, PageIs
    <3>3. readTo'[r] = EndOfPage(readTo[r])
      BY <1>1, <3>2 DEF ReadersInv
    <3>4. Value("idx") \in Nat
      BY <1>3 DEF HistoryShape
    <3> QED BY <3>1, <3>2, <3>3, <3>4
  <2>3. Len(InOrder(got[r])) = readTo[r]
    BY <1>3, InOrderIs DEF HistoryShape
  <2>4. readTo'[r] \in Len(Seen[r])..Len(Vaults[Member[r]])
    BY <1>3, <2>1, <2>2, <2>3 DEF Seen, Vaults, Member
  <2>5. Seen' = [Seen EXCEPT ![r] = SubSeq(Vaults[Member[r]], 1, readTo'[r])]
    <3>1. \A s \in Readers : s # r => got'[s] = got[s]
      BY <1>1 DEF ReadersInv
    <3>2. Seen' = [s \in Readers |-> InOrder(got'[s])]
      BY <1>1, <1>3 DEF Seen
    <3>3. Seen = [s \in Readers |-> InOrder(got[s])]
      BY <1>3 DEF Seen
    <3>4. Seen' = [Seen EXCEPT ![r] = InOrder(got'[r])]
      BY <3>1, <3>2, <3>3
    <3>5. Vaults[Member[r]] = InOrder(log)
      BY <1>3 DEF Vaults, Member
    <3> QED BY <2>1, <3>4, <3>5
  <2>6. Member[r] # NoKey /\ UNCHANGED <<Vaults, Gone, Member>>
    BY <1>1, <1>3, KeyAssumption DEF Member, Vaults, Gone
  <2>7. History!CatchUp(r)
    BY <2>4, <2>5, <2>6 DEF History!CatchUp
  <2> QED BY <2>7 DEF HistoryStep, History!Next
<1> QED BY <1>2, <1>3

LEMMA HistorySteps ==
  ASSUME Inv, ReadersInv, HistoryShape, HistoryShape', [Next]_vars
  PROVE  HistoryStep
<1>1. CASE UNCHANGED vars
  BY <1>1, NoHistoryStep DEF vars
<1>2. ASSUME NEW p \in Posts, Post(p) PROVE HistoryStep
  <2>1. CASE AddEvents(p)
    BY <2>1, GrowStep
  <2>2. CASE \/ CheckDeleted(p, "add") \/ TryEvents(p) \/ TryUsage(p)
             \/ AddUsage(p) \/ GetDoc(p)
    BY <2>2, NoHistoryStep
    DEF CheckDeleted, TryEvents, TryUsage, AddUsage, Attempt, GetDoc, server,
        reading
  <2> QED BY <1>2, <2>1, <2>2 DEF Post
<1>3. ASSUME NEW d \in Deletes, Delete(d) PROVE HistoryStep
  <2>1. CASE CheckDeleted(d, "mark") \/ QueryBatch(d) \/ CheckExists(d)
    BY <2>1, NoHistoryStep DEF CheckDeleted, QueryBatch, CheckExists, server,
                               reading
  <2>2. CASE Mark(d)
    BY <2>2, RemoveStep DEF Mark
  <2>3. CASE RemoveBatch(d) \/ DropDoc(d)
    BY <2>3, NoHistoryStep DEF RemoveBatch, DropDoc, Inv, Marked
  <2> QED BY <1>3, <2>1, <2>2, <2>3 DEF Delete
<1>4. ASSUME NEW r \in Readers, List(r) PROVE HistoryStep
  BY <1>4, CatchUpStep, NoHistoryStep DEF List, CheckDeleted, server, reading
<1>5. ASSUME NEW r \in Posts \cup Deletes, Fail(r) PROVE HistoryStep
  BY <1>5, NoHistoryStep DEF Fail, server, reading
<1> QED BY <1>1, <1>2, <1>3, <1>4, <1>5 DEF Next, Done

\* What the handlers do to Firestore, call by call and beside each other, is
\* what clients are promised: the vault only grows at its end until a DELETE
\* removes it for good, and a client that reads it page by page has a prefix.
THEOREM ServerImplementsHistory == Spec => ImplementsHistory
<1>1. Inv /\ ReadersInv => HistoryShape
  BY HistoryHasShape
<1>2. /\ Inv /\ ReadersInv /\ HistoryShape /\ HistoryShape' /\ [Next]_vars
      => [History!Next]_(History!vars)
  BY HistorySteps DEF HistoryStep
<1>3. Inv /\ ReadersInv /\ [Next]_vars => ReadersInv'
  BY ReadersNext
<1> QED BY <1>1, <1>2, <1>3, ReadersInitially, HistoryInit, Invariance, PTL
        DEF Spec, ImplementsHistory, History!Spec

=============================================================================
