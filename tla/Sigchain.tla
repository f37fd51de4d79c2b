------------------------------ MODULE Sigchain ------------------------------
(***************************************************************************)
(* The sigchain of one key: the server's, a document for each statement    *)
(* (http/server/sigchain.go), and the copies in the databases of the       *)
(* devices that have the key (service/sigchain.go, user.go, push.go,       *)
(* pull.go, update.go).                                                    *)
(*                                                                         *)
(* A process is one RPC of a service together with its requests.  RPCs of  *)
(* one device and of several run at the same time, and nothing locks the   *)
(* chain: the server's Create, which fails if the document exists, decides.*)
(***************************************************************************)
EXTENDS Integers, Sequences, SequencesExt

CONSTANTS
  RPCs,           \* each also names the statement it signs
  Devices,
  Nothing,        \* no statement
  MaxStatements,  \* the server's limit, 1024
  MaxAttempts     \* PUTs of a statement that conflicts, 3

ASSUME LimitsAssumption == MaxStatements \in Nat \ {0} /\ MaxAttempts \in Nat \ {0}

Statement == [id : RPCs, prev : RPCs \cup {Nothing}]
Seqs == 1..MaxStatements

ASSUME NothingAssumption == Nothing \notin RPCs \cup Statement

VARIABLES
  store,    \* documents on the server: sequence number -> statement
  local,    \* the chain in each device's database
  pc,
  op,       \* "create", "local", "push" or "pull"
  device,
  mine,     \* the chain the RPC works on
  remote,   \* the chain the server sent
  at,       \* the place of the statement it puts
  attempt,
  unpublished  \* history: devices that have made statements with Local

vars == <<store, local, pc, op, device, mine, remote, at, attempt, unpublished>>

Goto(p, label) == pc' = [pc EXCEPT ![p] = label]
LastId(c) == IF c = <<>> THEN Nothing ELSE c[Len(c)].id
Signed(c, p) == Append(c, [id |-> p, prev |-> LastId(c)])

\* A chain whose signatures fit; another cannot be loaded.
Linked(c) == \A i \in 1..Len(c) : c[i].prev = LastId(SubSeq(c, 1, i - 1))

\* The server reads the documents in order.
Length == IF \A i \in Seqs : store[i] # Nothing THEN MaxStatements
          ELSE (CHOOSE i \in Seqs : store[i] = Nothing
                                    /\ \A j \in 1..(i - 1) : store[j] # Nothing) - 1
Chain == [i \in 1..Length |-> store[i]]

Init ==
  /\ store = [i \in Seqs |-> Nothing]
  /\ local = [d \in Devices |-> <<>>]
  /\ pc = [p \in RPCs |-> "idle"]
  /\ op = [p \in RPCs |-> "none"]
  /\ device \in [RPCs -> Devices]
  /\ mine = [p \in RPCs |-> <<>>]
  /\ remote = [p \in RPCs |-> <<>>]
  /\ at = [p \in RPCs |-> 1]
  /\ attempt = [p \in RPCs |-> 1]
  /\ unpublished = {}

-----------------------------------------------------------------------------
(* RPCs *)

\* Mutant: the chain is saved before it is put.
SaveFirst == "save"

AfterSigning == "put"

\* StatementCreate, StatementRevoke and UserAdd sign the next statement.
Create(p) ==
  /\ pc[p] = "idle"
  /\ Linked(local[device[p]])
  /\ mine' = [mine EXCEPT ![p] = Signed(local[device[p]], p)]
  /\ at' = [at EXCEPT ![p] = Len(local[device[p]]) + 1]
  /\ \/ /\ op' = [op EXCEPT ![p] = "create"]
        /\ Goto(p, AfterSigning)
     \/ /\ op' = [op EXCEPT ![p] = "local"]
        /\ Goto(p, "save")
  /\ UNCHANGED <<store, local, device, remote, attempt, unpublished>>

Push(p) ==
  /\ pc[p] = "idle"
  /\ Linked(local[device[p]]) /\ local[device[p]] # <<>>
  /\ op' = [op EXCEPT ![p] = "push"]
  /\ mine' = [mine EXCEPT ![p] = local[device[p]]]
  /\ Goto(p, "compare")
  /\ UNCHANGED <<store, local, device, remote, at, attempt, unpublished>>

\* Pull, and updateUser wherever it is called.
Pull(p) ==
  /\ pc[p] = "idle"
  /\ op' = [op EXCEPT ![p] = "pull"]
  /\ Goto(p, "get")
  /\ UNCHANGED <<store, local, device, mine, remote, at, attempt, unpublished>>

\* What is on the server must be what is here.
Compare(p) ==
  /\ pc[p] = "compare"
  /\ Goto(p, IF IsPrefix(Chain, mine[p]) THEN IF Length < Len(mine[p]) THEN "put" ELSE "get"
             ELSE IF IsPrefix(mine[p], Chain) THEN "get" ELSE "error")
  /\ at' = [at EXCEPT ![p] = Length + 1]
  /\ UNCHANGED <<store, local, op, device, mine, remote, attempt, unpublished>>

Get(p) ==
  /\ pc[p] = "get"
  /\ remote' = [remote EXCEPT ![p] = Chain]
  /\ Goto(p, IF Length = 0 THEN "ok" ELSE "save")
  /\ UNCHANGED <<store, local, op, device, mine, at, attempt, unpublished>>

\* Whatever was here before: nobody checks that it is still there.  The library
\* may leave statements beyond the end of the saved chain, or not.
Saved(old, c) == {c, c \o SubSeq(old, Len(c) + 1, Len(old))}

Save(p) ==
  /\ pc[p] = "save"
  /\ LET c == IF op[p] \in {"create", "local"} THEN mine[p] ELSE remote[p] IN
       \E new \in Saved(local[device[p]], c) : local' = [local EXCEPT ![device[p]] = new]
  /\ unpublished' = IF op[p] = "local" THEN unpublished \cup {device[p]} ELSE unpublished
  /\ Goto(p, "ok")
  /\ UNCHANGED <<store, op, device, mine, remote, at, attempt>>

-----------------------------------------------------------------------------
(* PUT of statement mine[p][at[p]] *)

RetriesLeft(p) == attempt[p] < MaxAttempts

Conflict(p) ==
  IF RetriesLeft(p) THEN Goto(p, "put") /\ attempt' = [attempt EXCEPT ![p] = @ + 1]
                    ELSE Goto(p, "error") /\ UNCHANGED attempt

Exists(p) ==
  /\ pc[p] = "put" /\ at[p] \in Seqs
  /\ IF store[at[p]] # Nothing THEN Conflict(p) ELSE Goto(p, "verify") /\ UNCHANGED attempt
  /\ UNCHANGED <<store, local, op, device, mine, remote, at, unpublished>>

\* The limit.
TooLong(p) ==
  /\ pc[p] = "put" /\ at[p] \notin Seqs
  /\ Goto(p, "error")
  /\ UNCHANGED <<store, local, op, device, mine, remote, at, attempt, unpublished>>

\* Mutant: the statement's place is not looked at.
Signature(p) == TRUE

Follows(p) == at[p] = Length + 1 /\ mine[p][at[p]].prev = LastId(Chain)

Verify(p) ==
  /\ pc[p] = "verify"
  /\ Goto(p, IF Follows(p) THEN "users" ELSE "error")
  /\ UNCHANGED <<store, local, op, device, mine, remote, at, attempt, unpublished>>

\* The index may know the user with another key.
CheckUsers(p) ==
  /\ pc[p] = "users"
  /\ \/ Goto(p, "write") /\ UNCHANGED attempt
     \/ Conflict(p)
  /\ UNCHANGED <<store, local, op, device, mine, remote, at, unpublished>>

\* Mutant: the document is set.
Anyway(i) == TRUE

Free(i) == store[i] = Nothing

Write(p) ==
  /\ pc[p] = "write"
  /\ IF Free(at[p])
       THEN /\ store' = [store EXCEPT ![at[p]] = mine[p][at[p]]]
            /\ Goto(p, "answer")
       ELSE Goto(p, "error") /\ UNCHANGED store
  /\ UNCHANGED <<local, op, device, mine, remote, at, attempt, unpublished>>

Answer(p) ==
  /\ pc[p] = "answer"
  /\ attempt' = [attempt EXCEPT ![p] = 1]
  /\ IF at[p] < Len(mine[p])
       THEN Goto(p, "put") /\ at' = [at EXCEPT ![p] = @ + 1]
       ELSE Goto(p, IF op[p] = "push" THEN "get" ELSE "save") /\ UNCHANGED at
  /\ UNCHANGED <<store, local, op, device, mine, remote, unpublished>>

\* A call, the index, the task or the service fails, or an answer is lost.
Fail(p) ==
  /\ pc[p] \notin {"idle", "ok", "error"}
  /\ Goto(p, "error")
  /\ UNCHANGED <<store, local, op, device, mine, remote, at, attempt, unpublished>>

Step(p) ==
  \/ Create(p) \/ Push(p) \/ Pull(p) \/ Compare(p) \/ Get(p) \/ Save(p)
  \/ Exists(p) \/ TooLong(p) \/ Verify(p) \/ CheckUsers(p) \/ Write(p) \/ Answer(p) \/ Fail(p)

Next == \E p \in RPCs : Step(p)

Spec == Init /\ [][Next]_vars

-----------------------------------------------------------------------------
(* Properties *)

\* Documents are statements, and a conflict is retried at most twice
\* (client.go:258).
TypeOK ==
  /\ store \in [Seqs -> Statement \cup {Nothing}]
  /\ local \in [Devices -> Seq(Statement)]
  /\ mine \in [RPCs -> Seq(Statement)]
  /\ remote \in [RPCs -> Seq(Statement)]
  /\ pc \in [RPCs -> {"idle", "compare", "get", "save", "put", "verify", "users", "write",
                      "answer", "ok", "error"}]
  /\ op \in [RPCs -> {"none", "create", "local", "push", "pull"}]
  /\ device \in [RPCs -> Devices]
  /\ at \in [RPCs -> Nat \ {0}]
  /\ attempt \in [RPCs -> 1..MaxAttempts]
  /\ unpublished \subseteq Devices
  /\ \A p \in RPCs :
       /\ pc[p] \in {"put", "verify", "users", "write", "answer"} => at[p] \in DOMAIN mine[p]
       /\ pc[p] \in {"verify", "users", "write", "answer"} => at[p] \in Seqs

\* What clients were told is published: by a create or a push that was answered,
\* every statement it worked on.
Told == {p \in RPCs : pc[p] = "ok" /\ op[p] \in {"create", "push"}}
Answered == UNION {{<<i, mine[p][i]>> : i \in 1..Len(mine[p])} : p \in Told}

\* The server's sigchain is one growing chain, and holds what clients were told
\* it holds, however the requests of several devices interleave
\* (http/server/sigchain.go:155: five reads before the write).
Log == INSTANCE SigchainLog WITH Ids <- RPCs, chain <- Chain, answered <- Answered
LogSpec == Log!Spec

\* There is no document beyond the end of the chain.
NoHoles == \A i \in Seqs : store[i] # Nothing => i <= Length

\* A device that has made no statements with Local holds a beginning of the
\* server's chain, though its RPCs save chains they read before their requests
\* (service/sigchain.go:166).
LocalBehind ==
  \A d \in Devices : d \notin unpublished => IsPrefix(local[d], Chain)
=============================================================================
