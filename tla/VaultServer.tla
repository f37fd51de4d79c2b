---------------------------- MODULE VaultServer ----------------------------
(***************************************************************************)
(* The handlers of the vault server for one key (http/server/vault.go),    *)
(* call by call of the Firestore they keep a vault in (firestore).         *)
(*                                                                         *)
(* A vault is a document with the index of its last event and its usage, a *)
(* log of event documents below it, and a mark, kept elsewhere and         *)
(* forever, that it was deleted.  A handler takes several calls, each of   *)
(* which may fail, and handlers run at the same time.  A POST writes its   *)
(* events in chunks; each chunk, and the usage after them, is a            *)
(* transaction that Firestore runs again when the vault's document has     *)
(* changed since it was read.                                              *)
(***************************************************************************)
EXTENDS Integers, Sequences, FiniteSets, FiniteSetsExt

CONSTANTS
  Posts,     \* POST requests
  Deletes,   \* DELETE requests
  Readers,   \* clients that GET again and again, from where they are
  Size,      \* the number of events each POST brings
  Chunk,     \* events of one transaction (498)
  Batch,     \* events removed at once (100)
  Limit,     \* events of one response (1000)
  Key,       \* the key of the vault
  NoKey,     \* no key
  MaxFails   \* bound: requests that fail on the way, all together

Requests == Posts \cup Deletes \cup Readers

ASSUME RequestsAssumption ==
  /\ IsFiniteSet(Requests)
  /\ Posts \cap Deletes = {} /\ Posts \cap Readers = {}
  /\ Deletes \cap Readers = {}
ASSUME SizeAssumption == Size \in [Posts -> Nat \ {0}]
ASSUME BatchesAssumption ==
  Chunk \in Nat \ {0} /\ Batch \in Nat \ {0} /\ Limit \in Nat \ {0}
ASSUME KeyAssumption == Key # NoKey
ASSUME FailsAssumption == MaxFails \in Nat

\* The i-th event a POST brings
Event == Posts \X (Nat \ {0})
\* A document of the log
Entry == [idx : Nat \ {0}, ev : Event]
Fields == {"idx", "usage"}

VARIABLES
  deleted,  \* vaults-rm/{kid} exists
  doc,      \* fields of vaults/{kid}; none when the document does not exist
  log,      \* the documents of vaults/{kid}/log
  pc,       \* where each request is, or its answer
  pos,      \* events of each POST that EventsAdd has written
  index,    \* the variable index of writeAll and of Increment
  tx,       \* each POST's transaction: "none", "open" or "broken"
  batch,    \* the documents each DELETE is about to remove
  got,      \* the entries each reader has been sent
  readTo,   \* the index each reader asks to continue from
  fails     \* requests that failed

server == <<deleted, doc, log>>
posting == <<pos, index, tx>>
reading == <<got, readTo>>
vars == <<deleted, doc, log, pc, pos, index, tx, batch, got, readTo, fails>>

Answers == {"ok", "notfound", "error"}
Answered(r) == pc[r] \in Answers

Value(field) == IF field \in DOMAIN doc THEN doc[field] ELSE 0
Exists == DOMAIN doc # {}
Goto(r, label) == pc' = [pc EXCEPT ![r] = label]

Init ==
  /\ deleted = FALSE
  /\ doc = [f \in {} |-> 0]
  /\ log = {}
  /\ pc = [r \in Requests |-> "check"]
  /\ pos = [p \in Posts |-> 0]
  /\ index = [p \in Posts |-> 0]
  /\ tx = [p \in Posts |-> "none"]
  /\ batch = [d \in Deletes |-> {}]
  /\ got = [r \in Readers |-> {}]
  /\ readTo = [r \in Readers |-> 0]
  /\ fails = 0

-----------------------------------------------------------------------------
\* Mutant: deleted vaults are not looked for.
PassedAlways(r, next) == next

\* Every handler begins by looking for the mark of a deleted vault.
Passed(r, next) == IF deleted THEN "notfound" ELSE next

CheckDeleted(r, next) ==
  /\ pc[r] = "check"
  /\ Goto(r, Passed(r, next))
  /\ UNCHANGED <<server, posting, batch, reading, fails>>

-----------------------------------------------------------------------------
\* Mutant: the field is not read.
FoundNothing(p, field) == index[p]

\* Transactions on the vault's document.  The function that Firestore runs,
\* and runs again, only sets index when it finds the field; otherwise it
\* counts on from what an earlier attempt has left there.
Found(p, field) == IF field \in DOMAIN doc THEN doc[field] ELSE index[p]

Attempt(p, field, n) ==
  /\ tx[p] # "open"
  /\ tx' = [tx EXCEPT ![p] = "open"]
  /\ index' = [index EXCEPT ![p] = Found(p, field) + n]
  /\ UNCHANGED <<server, pc, pos, batch, reading, fails>>

\* Mutant: Firestore's get and set without a transaction.
NoConflict(q) == tx[q]

\* Whoever has read the document and not committed must try again.
Conflict(q) == IF tx[q] = "open" THEN "broken" ELSE tx[q]

Commit(p, field) ==
  /\ tx[p] = "open"
  /\ doc' = [f \in DOMAIN doc \cup {field} |->
               IF f = field THEN index[p] ELSE doc[f]]
  /\ tx' = [q \in Posts |-> IF q = p THEN "none" ELSE Conflict(q)]
  /\ index' = [index EXCEPT ![p] = 0]

\* The events of the next chunk
ChunkSize(p) ==
  IF Size[p] - pos[p] < Chunk THEN Size[p] - pos[p] ELSE Chunk

TryEvents(p) == pc[p] = "add" /\ Attempt(p, "idx", ChunkSize(p))

\* Mutant: every chunk is cut from the start of the request.
SameEntries(p) ==
  {[idx |-> index[p] - ChunkSize(p) + i, ev |-> <<p, i>>] :
     i \in 1..ChunkSize(p)}

NewEntries(p) ==
  {[idx |-> index[p] - ChunkSize(p) + i, ev |-> <<p, pos[p] + i>>] :
     i \in 1..ChunkSize(p)}

AddEvents(p) ==
  /\ pc[p] = "add"
  /\ Commit(p, "idx")
  /\ log' = log \cup NewEntries(p)
  /\ pos' = [pos EXCEPT ![p] = @ + ChunkSize(p)]
  /\ Goto(p, IF pos'[p] < Size[p] THEN "add" ELSE "usage")
  /\ UNCHANGED <<deleted, batch, reading, fails>>

\* Usage is counted in events, one unit each.
TryUsage(p) == pc[p] = "usage" /\ Attempt(p, "usage", Size[p])

AddUsage(p) ==
  /\ pc[p] = "usage"
  /\ Commit(p, "usage")
  /\ Goto(p, "get")
  /\ UNCHANGED <<deleted, log, pos, batch, reading, fails>>

\* The last call reads the document, and nothing is done with it.
GetDoc(p) ==
  /\ pc[p] = "get"
  /\ Goto(p, "ok")
  /\ UNCHANGED <<server, posting, batch, reading, fails>>

Post(p) ==
  \/ CheckDeleted(p, "add")
  \/ TryEvents(p) \/ AddEvents(p)
  \/ TryUsage(p) \/ AddUsage(p)
  \/ GetDoc(p)

-----------------------------------------------------------------------------
Mark(d) ==
  /\ pc[d] = "mark"
  /\ deleted' = TRUE
  /\ Goto(d, "purge")
  /\ UNCHANGED <<doc, log, posting, batch, reading, fails>>

\* The query of a batch does not order the documents.
QueryBatch(d) ==
  /\ pc[d] = "purge"
  /\ \E S \in SUBSET log :
       /\ Cardinality(S) =
            IF Cardinality(log) < Batch THEN Cardinality(log) ELSE Batch
       /\ batch' = [batch EXCEPT ![d] = S]
       /\ Goto(d, IF S = {} THEN "exists" ELSE "batch")
  /\ UNCHANGED <<server, posting, reading, fails>>

\* Mutant: the batch is not committed.
PurgedNothing(d) == log

Purged(d) == log \ batch[d]

RemoveBatch(d) ==
  /\ pc[d] = "batch"
  /\ log' = Purged(d)
  /\ batch' = [batch EXCEPT ![d] = {}]
  /\ Goto(d, "purge")
  /\ UNCHANGED <<deleted, doc, posting, reading, fails>>

CheckExists(d) ==
  /\ pc[d] = "exists"
  /\ Goto(d, IF Exists THEN "drop" ELSE "notfound")
  /\ UNCHANGED <<server, posting, batch, reading, fails>>

DropDoc(d) ==
  /\ pc[d] = "drop"
  /\ doc' = [f \in {} |-> 0]
  /\ tx' = IF Exists THEN [q \in Posts |-> Conflict(q)] ELSE tx
  /\ Goto(d, "ok")
  /\ UNCHANGED <<deleted, log, pos, index, batch, reading, fails>>

Delete(d) ==
  \/ CheckDeleted(d, "mark") \/ Mark(d)
  \/ QueryBatch(d) \/ RemoveBatch(d)
  \/ CheckExists(d) \/ DropDoc(d)

-----------------------------------------------------------------------------
\* A page of the log: the first Limit entries past an index
After(n) == {e \in log : e.idx > n}

\* Mutant: the query is in descending order.
LastPage(n) ==
  {e \in After(n) : Cardinality({f \in After(n) : f.idx > e.idx}) < Limit}

Page(n) ==
  {e \in After(n) : Cardinality({f \in After(n) : f.idx < e.idx}) < Limit}

\* Mutant: the index of a response is the end of the page that was asked for.
PageEnd(S, n) == n + Limit

\* The index of a response is that of its last event.
LastIndex(S, n) == IF S = {} THEN n ELSE Max({e.idx : e \in S})

\* The reader takes the response and asks again later.  It also asks again
\* when nothing is there yet (404 for no events and index 0).
Events(r) ==
  /\ pc[r] = "list"
  /\ got' = [got EXCEPT ![r] = @ \cup Page(readTo[r])]
  /\ readTo' = [readTo EXCEPT ![r] = LastIndex(Page(@), @)]
  /\ Goto(r, "check")
  /\ UNCHANGED <<server, posting, batch, fails>>

List(r) == CheckDeleted(r, "list") \/ Events(r)

-----------------------------------------------------------------------------
\* A call fails, or the process that serves the request dies.  A commit that
\* happened though its answer was lost is one whose next call fails.
Fail(r) ==
  /\ ~Answered(r) /\ fails < MaxFails
  /\ Goto(r, "error")
  /\ tx' = [q \in Posts |-> IF q = r THEN "none" ELSE tx[q]]
  /\ index' = [q \in Posts |-> IF q = r THEN 0 ELSE index[q]]
  /\ batch' = [d \in Deletes |-> IF d = r THEN {} ELSE batch[d]]
  /\ fails' = fails + 1
  /\ UNCHANGED <<server, pos, reading>>

\* Every request has its answer, and whatever the readers have read stays.
Done ==
  /\ \A r \in Requests : Answered(r)
  /\ UNCHANGED vars

Next ==
  \/ \E p \in Posts : Post(p)
  \/ \E d \in Deletes : Delete(d)
  \/ \E r \in Readers : List(r)
  \/ \E r \in Posts \cup Deletes : Fail(r)
  \/ Done

\* Handlers are goroutines, and Firestore answers or fails.
Fairness ==
  /\ \A p \in Posts : WF_vars(Post(p))
  /\ \A d \in Deletes : WF_vars(Delete(d))

Spec == Init /\ [][Next]_vars
FairSpec == Spec /\ Fairness

-----------------------------------------------------------------------------
Labels == {"check", "add", "usage", "get", "mark", "purge", "batch",
           "exists", "drop", "list"}

\* What the server keeps and where its requests are; a reader's memory is
\* described by ReadersComplete.
TypeOK ==
  /\ deleted \in BOOLEAN
  /\ DOMAIN doc \subseteq Fields /\ doc \in [DOMAIN doc -> Nat \ {0}]
  /\ log \subseteq Entry
  /\ pc \in [Requests -> Answers \cup Labels]
  /\ pos \in [Posts -> Nat] /\ \A p \in Posts : pos[p] <= Size[p]
  /\ index \in [Posts -> Nat]
  /\ tx \in [Posts -> {"none", "open", "broken"}]
  /\ batch \in [Deletes -> SUBSET Entry]
  /\ fails \in 0..MaxFails

\* The log of a vault that is not deleted has the indexes 1, 2, .. without a
\* gap and none twice, up to the index in the vault's document, although two
\* POSTs read that index at the same time (writeAll).
Contiguous ==
  ~deleted =>
    /\ {e.idx : e \in log} = 1..Value("idx")
    /\ \A e, f \in log : e.idx = f.idx => e = f

\* What a POST has written is in the log of a vault that is not deleted: its
\* first pos events in their order, nothing twice and nothing else.  All of
\* them once it is answered with success (EventsAdd).
PostsKept ==
  ~deleted =>
    /\ \A e \in log : e.ev[2] <= pos[e.ev[1]]
    /\ \A e, f \in log :
         e.ev[1] = f.ev[1] => (e.idx < f.idx <=> e.ev[2] < f.ev[2])
    /\ \A p \in Posts :
         /\ \A i \in 1..pos[p] : \E e \in log : e.ev = <<p, i>>
         /\ pc[p] = "ok" => pos[p] = Size[p]

\* What a reader has collected is all of the log up to where it is, so the
\* next page continues without a gap (events in http/server/events.go).
ReadersComplete ==
  ~deleted => \A r \in Readers : got[r] = {e \in log : e.idx <= readTo[r]}

\* The usage of a vault covers the events of every POST that was answered
\* with success, although Increment reads and writes it beside others.
UsageCovers ==
  ~deleted =>
    MapThenSumSet(LAMBDA p : Size[p], {p \in Posts : pc[p] = "ok"})
      <= Value("usage")

\* Once any DELETE is answered, a request that begins is refused: the mark is
\* set before the vault is touched, and never taken back (deleteVault).
GoneForGood ==
  [][\A d \in Deletes : pc[d] \in {"ok", "notfound"} =>
       \A r \in Posts \cup Readers :
         pc[r] = "check" => pc'[r] \in {"check", "notfound", "error"}]_vars

\* Every POST and every DELETE is answered: a transaction is run again only
\* when another request got on, and a DELETE comes to the end of the log.
AllAnswered == \A r \in Posts \cup Deletes : <>Answered(r)

-----------------------------------------------------------------------------
\* What the server keeps for the key is the log of VaultHistory: it only grows
\* until it is removed for good, and a reader's history is a prefix of it.
InOrder(S) ==
  [i \in 1..Cardinality(S) |->
     (CHOOSE e \in S : Cardinality({f \in S : f.idx < e.idx}) = i - 1).ev]

Vaults == [k \in {Key} |-> IF deleted THEN <<>> ELSE InOrder(log)]
Gone == IF deleted THEN {Key} ELSE {}
Member == [r \in Readers |-> IF deleted THEN NoKey ELSE Key]
Seen == [r \in Readers |-> IF deleted THEN <<>> ELSE InOrder(got[r])]

History == INSTANCE VaultHistory WITH
  Clients <- Readers, Keys <- {Key},
  log <- Vaults, removed <- Gone, vault <- Member, history <- Seen

ImplementsHistory == History!Spec

=============================================================================
