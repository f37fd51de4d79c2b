--------------------------- MODULE SigchainProofs ---------------------------
(***************************************************************************)
(* Why the server's documents are always one chain that only grows, and    *)
(* hold what clients were told and what devices saved: for any number of   *)
(* devices and RPCs, that may fail anywhere, with no lock.                 *)
(***************************************************************************)
EXTENDS Sigchain, SequenceTheorems, WellFoundedInduction, TLAPS

\* The documents are those of 1..n.
Filled(n) == \A i \in Seqs : store[i] # Nothing <=> i <= n
OneChain == \E n \in 0..MaxStatements : Filled(n)

LEMMA LengthIs ==
  ASSUME NEW n \in 0..MaxStatements, Filled(n)
  PROVE  Length = n
<1> USE LimitsAssumption DEF Seqs
<1>1. CASE n = MaxStatements
  BY <1>1 DEF Length, Filled
<1>2. CASE n # MaxStatements
  <2>1. n + 1 \in Seqs /\ store[n + 1] = Nothing /\ \A j \in 1..n : store[j] # Nothing
    BY <1>2 DEF Filled
  <2>2. \A i \in Seqs : store[i] = Nothing /\ (\A j \in 1..(i - 1) : store[j] # Nothing)
                          => i = n + 1
    BY <2>1 DEF Filled
  <2>3. (CHOOSE i \in Seqs : store[i] = Nothing /\ \A j \in 1..(i - 1) : store[j] # Nothing)
          = n + 1
    BY <2>1, <2>2
  <2> QED BY <1>2, <2>1, <2>3 DEF Length
<1> QED BY <1>1, <1>2

\* The same, after a step.
LEMMA LengthIsNext == (\A n \in 0..MaxStatements : Filled(n) => Length = n)'
<1>1. \A n \in 0..MaxStatements : Filled(n) => Length = n
  BY LengthIs
<1> QED BY <1>1, PTL

\* What has been verified stays true until it is written: documents stay.
Verified(p) ==
  pc[p] \in {"users", "write"} =>
    /\ \A i \in 1..(at[p] - 1) : store[i] # Nothing
    /\ mine[p][at[p]].prev = IF at[p] = 1 THEN Nothing ELSE store[at[p] - 1].id

Inv == TypeOK /\ OneChain /\ \A p \in RPCs : Verified(p)

LEMMA Initially == Init => Inv
<1> SUFFICES ASSUME Init PROVE Inv
  OBVIOUS
<1>1. <<>> \in Seq(Statement)
  BY EmptySeq
<1>2. TypeOK
  BY <1>1, LimitsAssumption DEF Init, TypeOK
<1>3. Filled(0)
  BY LimitsAssumption DEF Init, Filled, Seqs
<1> QED BY <1>2, <1>3, LimitsAssumption DEF Inv, OneChain, Verified, Init

\* The chain the server reads is made of statements.
LEMMA ChainType ==
  ASSUME TypeOK, OneChain
  PROVE  Chain \in Seq(Statement) /\ Length \in 0..MaxStatements /\ Len(Chain) = Length
<1>1. PICK n \in 0..MaxStatements : Filled(n)
  BY DEF OneChain
<1>2. Length = n
  BY <1>1, LengthIs
<1>3. \A i \in 1..n : store[i] \in Statement
  BY <1>1, LimitsAssumption DEF Filled, Seqs, TypeOK
<1>4. Chain \in [1..n -> Statement] /\ n \in Nat
  BY <1>2, <1>3, LimitsAssumption DEF Chain
<1> QED BY <1>2, <1>4, SeqDef, LenProperties

LEMMA ChainTypeNext ==
  (TypeOK /\ OneChain
     => Chain \in Seq(Statement) /\ Length \in 0..MaxStatements /\ Len(Chain) = Length)'
<1>1. TypeOK /\ OneChain
        => Chain \in Seq(Statement) /\ Length \in 0..MaxStatements /\ Len(Chain) = Length
  BY ChainType
<1> QED BY <1>1, PTL

-----------------------------------------------------------------------------
(* TypeOK *)

\* An RPC signs one more statement.
LEMMA CreateTypes ==
  ASSUME TypeOK, NEW p \in RPCs, Create(p)
  PROVE  TypeOK'
<1> DEFINE c == local[device[p]]
<1>1. c \in Seq(Statement) /\ Len(c) \in Nat
  BY LenProperties DEF TypeOK
<1>2. [id |-> p, prev |-> LastId(c)] \in Statement
  <2>1. c # <<>> => c[Len(c)] \in Statement
    BY <1>1, ElementOfSeq, EmptySeq
  <2> QED BY <2>1 DEF LastId, Statement
<1>3. Signed(c, p) \in Seq(Statement) /\ Len(Signed(c, p)) = Len(c) + 1
  BY <1>1, <1>2, AppendProperties DEF Signed
<1>4. mine' = [mine EXCEPT ![p] = Signed(c, p)] /\ at' = [at EXCEPT ![p] = Len(c) + 1]
      /\ \E o \in {"create", "local"} : op' = [op EXCEPT ![p] = o]
      /\ \E l \in {"put", "save"} : pc' = [pc EXCEPT ![p] = l]
      /\ UNCHANGED <<store, local, device, remote, attempt, unpublished>>
  BY DEF Create, Goto, AfterSigning
<1> HIDE DEF c
<1>5. mine' \in [RPCs -> Seq(Statement)] /\ at' \in [RPCs -> Nat \ {0}]
      /\ at'[p] \in DOMAIN mine'[p]
  BY <1>1, <1>3, <1>4, LenProperties DEF TypeOK
<1>6. \A q \in RPCs \ {p} : mine'[q] = mine[q] /\ at'[q] = at[q] /\ pc'[q] = pc[q]
  BY <1>4 DEF TypeOK
<1>7. pc'[p] \in {"put", "save"} /\ pc' \in [RPCs -> {"idle", "compare", "get", "save",
        "put", "verify", "users", "write", "answer", "ok", "error"}]
  BY <1>4 DEF TypeOK
<1> QED BY <1>4, <1>5, <1>6, <1>7 DEF TypeOK

\* The other steps of an RPC.
LEMMA OtherTypes ==
  ASSUME TypeOK, OneChain, NEW p \in RPCs,
         Push(p) \/ Pull(p) \/ Compare(p) \/ Get(p) \/ Exists(p) \/ TooLong(p)
           \/ Verify(p) \/ CheckUsers(p) \/ Write(p) \/ Answer(p) \/ Fail(p)
  PROVE  TypeOK'
<1> USE LimitsAssumption
<1>0. attempt[p] \in 1..MaxAttempts /\ (RetriesLeft(p) => attempt[p] + 1 \in 1..MaxAttempts)
  BY DEF TypeOK, RetriesLeft
<1>1. CASE Push(p)
  BY <1>1 DEF Push, Goto, TypeOK
<1>2. CASE Pull(p)
  BY <1>2 DEF Pull, Goto, TypeOK
<1>3. CASE Compare(p)
  <2>1. Length \in Nat /\ DOMAIN mine[p] = 1..Len(mine[p]) /\ Len(mine[p]) \in Nat
    BY ChainType, LenProperties DEF TypeOK
  <2>2. pc'[p] = "put" => Length < Len(mine[p])
    BY <1>3 DEF Compare, Goto, TypeOK
  <2>3. \E l \in {"put", "get", "error"} : pc' = [pc EXCEPT ![p] = l]
    BY <1>3 DEF Compare, Goto
  <2>4. /\ at' = [at EXCEPT ![p] = Length + 1]
        /\ UNCHANGED <<store, local, op, device, mine, remote, attempt, unpublished>>
    BY <1>3 DEF Compare
  <2>5. pc' \in [RPCs -> {"idle", "compare", "get", "save", "put", "verify", "users", "write",
                         "answer", "ok", "error"}]
    BY <2>3 DEF TypeOK
  <2>6. at' \in [RPCs -> Nat \ {0}]
    BY <2>1, <2>4 DEF TypeOK
  <2>7. pc'[p] \in {"put", "get", "error"} /\ at'[p] = Length + 1
    BY <2>3, <2>4 DEF TypeOK
  <2>8. \A q \in RPCs \ {p} : pc'[q] = pc[q] /\ at'[q] = at[q]
    BY <2>3, <2>4 DEF TypeOK
  <2>9. pc'[p] = "put" => at'[p] \in DOMAIN mine[p]
    BY <2>1, <2>2, <2>7
  <2> QED BY <2>4, <2>5, <2>6, <2>7, <2>8, <2>9 DEF TypeOK
<1>4. CASE Get(p)
  <2>1. \E l \in {"ok", "save"} : pc' = [pc EXCEPT ![p] = l]
    BY <1>4 DEF Get, Goto
  <2> QED BY <1>4, <2>1, ChainType DEF Get, TypeOK
<1>5. CASE Exists(p)
  <2>1. /\ \E l \in {"put", "error", "verify"} : pc' = [pc EXCEPT ![p] = l]
        /\ \E n \in 1..MaxAttempts : attempt' = [attempt EXCEPT ![p] = n]
    <3>1. CASE UNCHANGED attempt
      <4>1. attempt' = [attempt EXCEPT ![p] = attempt[p]]
        BY <3>1 DEF TypeOK
      <4> QED BY <1>0, <1>5, <3>1, <4>1 DEF Exists, Goto, Conflict
    <3>2. CASE Conflict(p)
      BY <1>0, <3>2, <3>1, <1>5 DEF Conflict, Goto
    <3> QED BY <1>5, <3>1, <3>2 DEF Exists
  <2> QED BY <1>5, <2>1 DEF Exists, TypeOK
<1>6. CASE TooLong(p)
  BY <1>6 DEF TooLong, Goto, TypeOK
<1>7. CASE Verify(p)
  BY <1>7 DEF Verify, Goto, TypeOK
<1>8. CASE CheckUsers(p)
  <2>1. /\ \E l \in {"put", "error", "write"} : pc' = [pc EXCEPT ![p] = l]
        /\ \E n \in 1..MaxAttempts : attempt' = [attempt EXCEPT ![p] = n]
    <3>1. CASE UNCHANGED attempt
      <4>1. attempt' = [attempt EXCEPT ![p] = attempt[p]]
        BY <3>1 DEF TypeOK
      <4> QED BY <1>0, <1>8, <3>1, <4>1 DEF CheckUsers, Goto, Conflict
    <3>2. CASE Conflict(p)
      BY <1>0, <3>2, <3>1, <1>8 DEF Conflict, Goto
    <3> QED BY <1>8, <3>1, <3>2 DEF CheckUsers
  <2> QED BY <1>8, <2>1 DEF CheckUsers, TypeOK
<1>9. CASE Write(p)
  <2>1. pc[p] = "write" => mine[p][at[p]] \in Statement
    BY ElementOfSeq, LenProperties DEF TypeOK
  <2>2. store' \in [Seqs -> Statement \cup {Nothing}]
    BY <1>9, <2>1 DEF Write, TypeOK
  <2>3. \E l \in {"answer", "error"} : pc' = [pc EXCEPT ![p] = l]
    BY <1>9 DEF Write, Goto
  <2> QED BY <1>9, <2>2, <2>3 DEF Write, TypeOK
<1>10. CASE Answer(p)
  <2>1. DOMAIN mine[p] = 1..Len(mine[p]) /\ Len(mine[p]) \in Nat
    BY LenProperties DEF TypeOK
  <2>2. CASE at[p] < Len(mine[p])
    <3>1. at' = [at EXCEPT ![p] = at[p] + 1] /\ pc' = [pc EXCEPT ![p] = "put"]
      BY <1>10, <2>2 DEF Answer, Goto
    <3>2. at[p] + 1 \in DOMAIN mine[p] /\ at[p] + 1 \in Nat \ {0}
      BY <2>1, <2>2 DEF TypeOK
    <3>3. attempt' = [attempt EXCEPT ![p] = 1]
          /\ UNCHANGED <<store, local, op, device, mine, remote, unpublished>>
      BY <1>10 DEF Answer
    <3> QED BY <3>1, <3>2, <3>3 DEF TypeOK
  <2>3. CASE ~(at[p] < Len(mine[p]))
    <3>1. UNCHANGED at /\ \E l \in {"get", "save"} : pc' = [pc EXCEPT ![p] = l]
      BY <1>10, <2>3 DEF Answer, Goto
    <3>2. attempt' = [attempt EXCEPT ![p] = 1]
          /\ UNCHANGED <<store, local, op, device, mine, remote, unpublished>>
      BY <1>10 DEF Answer
    <3> QED BY <3>1, <3>2 DEF TypeOK
  <2> QED BY <2>2, <2>3
<1>11. CASE Fail(p)
  BY <1>11 DEF Fail, Goto, TypeOK
<1> QED BY <1>1, <1>2, <1>3, <1>4, <1>5, <1>6, <1>7, <1>8, <1>9, <1>10, <1>11

\* Whatever the library leaves behind a saved chain, they are statements.
LEMMA SaveTypes ==
  ASSUME TypeOK, NEW p \in RPCs, Save(p)
  PROVE  TypeOK'
<1> DEFINE c == IF op[p] \in {"create", "local"} THEN mine[p] ELSE remote[p]
           old == local[device[p]]
<1>1. c \in Seq(Statement) /\ old \in Seq(Statement)
  BY DEF TypeOK
<1>2. PICK new \in Saved(old, c) : local' = [local EXCEPT ![device[p]] = new]
  BY DEF Save
<1> HIDE DEF c, old
<1>3. new \in Seq(Statement)
  <2>1. Len(c) \in Nat /\ Len(old) \in Nat
    BY <1>1, LenProperties
  <2>2. \A i \in (Len(c) + 1)..Len(old) : old[i] \in Statement
    BY <1>1, <2>1, ElementOfSeq
  <2>3. SubSeq(old, Len(c) + 1, Len(old)) \in Seq(Statement)
    BY <2>1, <2>2, SubSeqProperties
  <2> QED BY <1>1, <1>2, <2>3, ConcatProperties DEF Saved
<1> QED BY <1>2, <1>3 DEF Save, Goto, TypeOK

-----------------------------------------------------------------------------
(* The chain *)

\* Two RPCs may have verified their statements for one place: one writes it.
LEMMA WriteAppends ==
  ASSUME Inv, NEW p \in RPCs, Write(p), store' # store
  PROVE  /\ OneChain' /\ Length' = Length + 1 /\ at[p] = Length + 1
         /\ \A i \in Seqs : store[i] # Nothing => store'[i] = store[i]
         /\ Chain' = Append(Chain, mine[p][at[p]])
         /\ mine[p][at[p]].prev = LastId(Chain)
<1> DEFINE s == mine[p][at[p]]
<1>1. PICK n \in 0..MaxStatements : Filled(n)
  BY DEF Inv, OneChain
<1>2. n = Length
  BY <1>1, LengthIs
<1>3. /\ pc[p] = "write" /\ at[p] \in Seqs /\ store[at[p]] = Nothing
      /\ store' = [store EXCEPT ![at[p]] = s]
      /\ pc' = [pc EXCEPT ![p] = "answer"] /\ UNCHANGED <<mine, at>>
  BY DEF Write, Free, Goto, Inv, TypeOK
<1>4. s \in Statement /\ s # Nothing
  <2>1. s \in Statement
    BY <1>3, ElementOfSeq, LenProperties DEF Inv, TypeOK
  <2> QED BY <2>1, NothingAssumption
<1>5. Verified(p)
  BY DEF Inv
<1>6. at[p] = n + 1 /\ n + 1 \in 1..MaxStatements
  BY <1>1, <1>2, <1>3, <1>5, LimitsAssumption DEF Filled, Seqs, Verified
<1>7. Filled(n + 1)'
  BY <1>1, <1>2, <1>3, <1>4, <1>6, LimitsAssumption DEF Filled, Seqs, Inv, TypeOK
<1>8. Length' = n + 1 /\ OneChain'
  BY <1>6, <1>7, LengthIsNext DEF OneChain
<1>9. \A i \in Seqs : store[i] # Nothing => store'[i] = store[i]
  BY <1>3 DEF Inv, TypeOK
<1>10. Chain \in Seq(Statement) /\ Len(Chain) = n
  BY <1>2, ChainType DEF Inv
<1>11. Chain' = Append(Chain, s)
  <2>1. Append(Chain, s) \in Seq(Statement) /\ Len(Append(Chain, s)) = n + 1
        /\ (\A i \in 1..n : Append(Chain, s)[i] = Chain[i]) /\ Append(Chain, s)[n + 1] = s
    BY <1>4, <1>10, AppendProperties
  <2>2. TypeOK'
    BY OtherTypes DEF Inv
  <2>3. Chain' \in Seq(Statement) /\ Len(Chain') = n + 1
    BY <1>8, <2>2, ChainTypeNext
  <2>4. ASSUME NEW i \in 1..(n + 1) PROVE Chain'[i] = Append(Chain, s)[i]
    <3>1. Chain'[i] = store'[i] /\ i \in Seqs
      BY <1>6, <1>8, LimitsAssumption DEF Chain, Seqs
    <3>2. CASE i = n + 1
      BY <1>3, <1>6, <2>1, <3>1, <3>2 DEF Inv, TypeOK
    <3>3. CASE i # n + 1
      <4>1. i \in 1..n /\ store'[i] = store[i] /\ Chain[i] = store[i]
        BY <1>1, <1>2, <1>9, <3>1, <3>3 DEF Chain, Filled
      <4> QED BY <2>1, <3>1, <4>1
    <3> QED BY <3>2, <3>3
  <2> QED BY <2>1, <2>3, <2>4, SeqEqual
<1>12. s.prev = LastId(Chain)
  <2>1. s.prev = IF n = 0 THEN Nothing ELSE store[n].id
    BY <1>1, <1>2, <1>3, <1>5, <1>6 DEF Verified
  <2>2. n # 0 => Chain[n] = store[n] /\ Chain # <<>>
    BY <1>1, <1>2, <1>10 DEF Chain
  <2>3. n = 0 => Chain = <<>>
    BY <1>10, EmptySeq, SeqEqual
  <2> QED BY <1>10, <2>1, <2>2, <2>3 DEF LastId
<1> QED BY <1>2, <1>6, <1>8, <1>9, <1>11, <1>12

\* A step that does not write keeps the chain.
LEMMA NoWrite ==
  ASSUME Inv, store' = store
  PROVE  OneChain' /\ Length' = Length /\ Chain' = Chain
BY DEF Inv, OneChain, Filled, Length, Chain

\* Each step of an RPC keeps the invariant.
LEMMA StepKeeps ==
  ASSUME Inv, NEW p \in RPCs, Step(p)
  PROVE  Inv'
<1>1. TypeOK'
  BY CreateTypes, OtherTypes, SaveTypes DEF Step, Inv
<1>2. store' # store => Write(p)
  BY DEF Step, Create, Push, Pull, Compare, Get, Save, Exists, TooLong, Verify, CheckUsers,
         Answer, Fail
<1>3. OneChain' /\ \A i \in Seqs : store[i] # Nothing => store'[i] = store[i]
  BY <1>2, WriteAppends, NoWrite
<1>4. \A q \in RPCs \ {p} : pc'[q] = pc[q] /\ at'[q] = at[q] /\ mine'[q] = mine[q]
  BY DEF Step, Create, Push, Pull, Compare, Get, Save, Exists, TooLong, Verify, CheckUsers,
         Write, Answer, Fail, Conflict, Goto, Inv, TypeOK
<1>5. ASSUME NEW q \in RPCs \ {p} PROVE Verified(q)'
  <2>1. Verified(q)
    BY DEF Inv
  <2>2. pc[q] \in {"users", "write"} => at[q] \in Seqs
    BY DEF Inv, TypeOK
  <2> QED BY <1>3, <1>4, <2>1, <2>2, LimitsAssumption DEF Verified, Seqs
<1>6. Verified(p)'
  <2>1. CASE pc'[p] \notin {"users", "write"}
    BY <2>1 DEF Verified
  <2>2. CASE pc'[p] = "users"
    <3>1. Verify(p) /\ Follows(p) /\ UNCHANGED <<store, mine, at>> /\ at[p] \in Seqs
      BY <2>2 DEF Step, Create, Push, Pull, Compare, Get, Save, Exists, TooLong, Verify,
         CheckUsers, Write, Answer, Fail, Conflict, Goto, AfterSigning, Inv, TypeOK
    <3>2. PICK n \in 0..MaxStatements : Filled(n)
      BY DEF Inv, OneChain
    <3>3. n = Length /\ Len(Chain) = n /\ Chain \in Seq(Statement)
      BY <3>2, LengthIs, ChainType DEF Inv
    <3>4. at[p] = n + 1 /\ mine[p][at[p]].prev = LastId(Chain)
      BY <3>1, <3>3 DEF Follows
    <3>5. \A i \in 1..(at[p] - 1) : store[i] # Nothing
      BY <3>1, <3>2, <3>4, LimitsAssumption DEF Filled, Seqs
    <3>6. n # 0 => Chain # <<>> /\ Chain[n] = store[n]
      BY <3>2, <3>3, EmptySeq DEF Chain
    <3>7. n = 0 => Chain = <<>>
      BY <3>3, EmptySeq, SeqEqual
    <3>8. mine[p][at[p]].prev = IF at[p] = 1 THEN Nothing ELSE store[at[p] - 1].id
      BY <3>2, <3>3, <3>4, <3>6, <3>7 DEF LastId
    <3> QED BY <3>1, <3>5, <3>8 DEF Verified
  <2>3. CASE pc'[p] = "write"
    <3>1. CheckUsers(p) /\ pc[p] = "users" /\ UNCHANGED <<store, mine, at>>
      BY <2>3 DEF Step, Create, Push, Pull, Compare, Get, Save, Exists, TooLong, Verify,
         CheckUsers, Write, Answer, Fail, Conflict, Goto, AfterSigning, Inv, TypeOK
    <3>2. Verified(p)
      BY DEF Inv
    <3> QED BY <2>3, <3>1, <3>2 DEF Verified
  <2> QED BY <2>1, <2>2, <2>3
<1> QED BY <1>1, <1>3, <1>5, <1>6 DEF Inv

\* And of the whole system.
LEMMA Inductive == Inv /\ [Next]_vars => Inv'
<1> SUFFICES ASSUME Inv, [Next]_vars PROVE Inv'
  OBVIOUS
<1>1. ASSUME NEW p \in RPCs, Step(p) PROVE Inv'
  BY <1>1, StepKeeps
<1>2. CASE UNCHANGED vars
  BY <1>2 DEF vars, Inv, TypeOK, OneChain, Filled, Verified
<1> QED BY <1>1, <1>2 DEF Next

\* The invariant holds.
THEOREM Invariance == Spec => []Inv
BY Initially, Inductive, PTL DEF Spec

\* The types.
THEOREM TypeCorrect == Spec => []TypeOK
<1>1. Inv => TypeOK
  BY DEF Inv
<1> QED BY <1>1, Invariance, PTL

\* No document is beyond the end of the chain that the server reads.
THEOREM NoHolesEver == Spec => []NoHoles
<1>1. Inv => NoHoles
  <2> SUFFICES ASSUME Inv PROVE NoHoles
    OBVIOUS
  <2>1. PICK n \in 0..MaxStatements : Filled(n)
    BY DEF Inv, OneChain
  <2> QED BY <2>1, LengthIs DEF NoHoles, Filled
<1> QED BY <1>1, Invariance, PTL

\* A step of SigchainLog, as far as it is about the chain.
Grows ==
  \/ UNCHANGED Chain
  \/ \E id \in RPCs : Chain' = Append(Chain, [id |-> id, prev |-> LastId(Chain)])

\* The chain only grows, by a statement that is signed over the one before.
THEOREM ChainGrows == Spec => [][Grows]_vars
<1>1. Inv /\ [Next]_vars => [Grows]_vars
  <2> SUFFICES ASSUME Inv, NEW p \in RPCs, Step(p) PROVE Grows
    BY DEF Next
  <2>1. CASE store' = store
    BY <2>1, NoWrite DEF Grows
  <2>2. CASE store' # store
    <3> DEFINE s == mine[p][at[p]]
    <3>1. Write(p)
      BY <2>2 DEF Step, Create, Push, Pull, Compare, Get, Save, Exists, TooLong, Verify,
         CheckUsers, Answer, Fail
    <3>2. Chain' = Append(Chain, s) /\ s.prev = LastId(Chain)
      BY <2>2, <3>1, WriteAppends
    <3>3. s \in Statement
      BY <3>1, ElementOfSeq, LenProperties DEF Inv, TypeOK, Write
    <3>4. s = [id |-> s.id, prev |-> LastId(Chain)] /\ s.id \in RPCs
      BY <3>2, <3>3 DEF Statement
    <3> QED BY <3>2, <3>4 DEF Grows
  <2> QED BY <2>1, <2>2
<1> QED BY <1>1, Invariance, PTL DEF Spec

-----------------------------------------------------------------------------
(* A statement has one history *)

\* A statement is known by the RPC that signed it, and by its place in the chain
\* that RPC made.
Created(operation, made, s, i) ==
  /\ operation[s.id] \in {"create", "local"}
  /\ Len(made[s.id]) = i /\ made[s.id][i] = s

\* Every statement of chain c was signed for the place it is in.
Known(operation, made, c) == \A i \in 1..Len(c) : Created(operation, made, c[i], i)

Prev(c, i) == IF i = 1 THEN Nothing ELSE c[i - 1].id
Chained(c) == \A i \in 1..Len(c) : c[i].prev = Prev(c, i)

\* The first n statements of c are documents of the server.
Stored(docs, c, n) == \A i \in 1..n : i \in Seqs /\ docs[i] # Nothing /\ docs[i] = c[i]

StoreKnown ==
  \A i \in Seqs : store[i] # Nothing => Created(op, mine, store[i], i) /\ store[i].prev = Prev(store, i)

Putting == {"put", "verify", "users", "write"}

\* How far an RPC has come: what it has put is stored.
Progress(p) ==
  /\ pc[p] = "idle" => op[p] = "none"
  /\ pc[p] = "compare" => op[p] = "push"
  /\ pc[p] \in Putting \cup {"answer"} => op[p] \in {"create", "push"}
  /\ pc[p] = "get" => op[p] \in {"push", "pull"}
  /\ pc[p] = "save" => op[p] # "none"
  /\ op[p] = "create" => Chained(mine[p])
  /\ op[p] = "create" /\ pc[p] \in Putting \cup {"answer"} => at[p] = Len(mine[p])
  /\ op[p] = "push" /\ pc[p] \in Putting => Stored(store, mine[p], at[p] - 1)
  /\ pc[p] = "answer" => Stored(store, mine[p], at[p])
  /\ op[p] \in {"create", "push"} /\ pc[p] \in {"get", "save", "ok"}
       => Stored(store, mine[p], Len(mine[p]))

Copies(p) == Known(op, mine, mine[p]) /\ Stored(store, remote[p], Len(remote[p]))

Behind(d) == Known(op, mine, local[d]) /\ (d \notin unpublished => Stored(store, local[d], Len(local[d])))

RootInv ==
  /\ StoreKnown
  /\ \A p \in RPCs : Progress(p) /\ Copies(p)
  /\ \A d \in Devices : Behind(d)

\* A set of numbers that is not empty has a least one.
LEMMA Least ==
  ASSUME NEW T \in SUBSET Nat, T # {}
  PROVE  \E k \in T : \A j \in T : k <= j
<1>1. PICK k \in T : \A j \in T : ~(<<j, k>> \in OpToRel(<, Nat))
  BY NatLessThanWellFounded, WFMin
<1>2. \A j \in T : ~(j < k)
  BY <1>1, Zenon DEF OpToRel
<1> QED BY <1>2

\* Two chains that hold one statement in place n are the same up to n: each
\* statement fixes the one before it.
LEMMA OneHistory ==
  ASSUME NEW a, NEW b, NEW n \in Nat,
         \A i \in 1..n : Created(op, mine, a[i], i) /\ a[i].prev = Prev(a, i),
         \A i \in 1..n : Created(op, mine, b[i], i) /\ b[i].prev = Prev(b, i),
         n # 0 => a[n].id = b[n].id
  PROVE  \A i \in 1..n : a[i] = b[i]
<1> DEFINE T == {k \in 0..(n - 1) : a[n - k] # b[n - k]}
<1>1. \A i \in 1..n : a[i].id = b[i].id => a[i] = b[i]
  BY DEF Created
<1>2. CASE T = {}
  <2> TAKE i \in 1..n
  <2>1. n - i \in 0..(n - 1) /\ n - (n - i) = i
    OBVIOUS
  <2> QED BY <1>2, <2>1
<1>3. CASE T # {}
  <2>1. PICK k \in T : \A j \in T : k <= j
    <3>1. T \in SUBSET Nat
      OBVIOUS
    <3> QED BY <1>3, <3>1, Least
  <2>2. k \in 0..(n - 1) /\ a[n - k] # b[n - k]
    BY <2>1
  <2>3. k # 0
    <3>1. n # 0 /\ n \in 1..n /\ a[n] = b[n]
      BY <1>1, <2>2
    <3> QED BY <2>2, <3>1
  <2>4. k - 1 \in 0..(n - 1) /\ k - 1 \notin T
    BY <2>1, <2>2, <2>3
  <2>5. a[n - (k - 1)] = b[n - (k - 1)]
    BY <2>4
  <2> DEFINE i == n - k
  <2>6. i \in 1..n /\ i + 1 \in 1..n /\ a[i + 1] = b[i + 1] /\ i + 1 # 1 /\ (i + 1) - 1 = i
    <3>1. n - (k - 1) = i + 1
      BY <2>2
    <3> QED BY <2>2, <2>3, <2>5, <3>1
  <2>7. a[i + 1].prev = a[i].id /\ b[i + 1].prev = b[i].id
    BY <2>6 DEF Prev
  <2> QED BY <1>1, <2>2, <2>6, <2>7
<1> QED BY <1>2, <1>3

\* A chain that can be loaded.
LEMMA LinkedChained ==
  ASSUME NEW c \in Seq(Statement), Linked(c)
  PROVE  Chained(c)
<1> SUFFICES ASSUME NEW i \in 1..Len(c) PROVE c[i].prev = Prev(c, i)
  BY DEF Chained
<1>1. Len(c) \in Nat /\ c[i].prev = LastId(SubSeq(c, 1, i - 1))
  BY LenProperties DEF Linked
<1> DEFINE b == SubSeq(c, 1, i - 1)
<1>2. b \in Seq(Statement) /\ Len(b) = i - 1 /\ \A j \in 1..(i - 1) : b[j] = c[j]
  <2>1. \A j \in 1..(i - 1) : c[j] \in Statement
    BY <1>1, ElementOfSeq
  <2>2. i - 1 \in Int
    BY <1>1
  <2>3. /\ b \in Seq(Statement)
        /\ Len(b) = IF 1 <= i - 1 THEN i - 1 - 1 + 1 ELSE 0
        /\ \A j \in 1..(i - 1 - 1 + 1) : b[j] = c[1 + j - 1]
    BY <2>1, <2>2, SubSeqProperties
  <2> QED BY <1>1, <2>3
<1>3. CASE i = 1
  <2>1. b = <<>>
    BY <1>2, <1>3, EmptySeq
  <2> QED BY <1>1, <1>3, <2>1 DEF LastId, Prev
<1>4. CASE i # 1
  <2>1. b # <<>> /\ b[Len(b)] = c[i - 1]
    BY <1>1, <1>2, <1>4, EmptySeq
  <2> QED BY <1>1, <1>4, <2>1 DEF LastId, Prev
<1> QED BY <1>3, <1>4
-----------------------------------------------------------------------------
(* Steps *)

\* The first statement of an RPC is signed when it starts; the others stay.
LEMMA Stays ==
  ASSUME Inv, RootInv, NEW p \in RPCs, Step(p)
  PROVE  /\ \A q \in RPCs \ {p} :
              /\ pc'[q] = pc[q] /\ op'[q] = op[q] /\ at'[q] = at[q]
              /\ mine'[q] = mine[q] /\ remote'[q] = remote[q]
         /\ pc[p] # "idle" => UNCHANGED <<op, mine>>
         /\ pc[p] = "idle" => op[p] = "none"
         /\ unpublished \subseteq unpublished'
         /\ \A i \in Seqs : store[i] # Nothing => store'[i] = store[i]
<1>1. \A q \in RPCs \ {p} :
        /\ pc'[q] = pc[q] /\ op'[q] = op[q] /\ at'[q] = at[q]
        /\ mine'[q] = mine[q] /\ remote'[q] = remote[q]
  BY DEF Step, Create, Push, Pull, Compare, Get, Save, Exists, TooLong, Verify, CheckUsers,
         Write, Answer, Fail, Conflict, Goto, Inv, TypeOK
<1>2. pc[p] # "idle" => UNCHANGED <<op, mine>>
  BY DEF Step, Create, Push, Pull, Compare, Get, Save, Exists, TooLong, Verify, CheckUsers,
         Write, Answer, Fail
<1>3. unpublished \subseteq unpublished'
  BY DEF Step, Create, Push, Pull, Compare, Get, Save, Exists, TooLong, Verify, CheckUsers,
         Write, Answer, Fail
<1>4. store' # store => Write(p)
  BY DEF Step, Create, Push, Pull, Compare, Get, Save, Exists, TooLong, Verify, CheckUsers,
         Answer, Fail
<1>5. \A i \in Seqs : store[i] # Nothing => store'[i] = store[i]
  BY <1>4, WriteAppends
<1>6. pc[p] = "idle" => op[p] = "none"
  BY DEF RootInv, Progress
<1> QED BY <1>1, <1>2, <1>3, <1>5, <1>6

LEMMA KnownStays ==
  ASSUME Inv, RootInv, NEW p \in RPCs, Step(p)
  PROVE  /\ \A s \in Statement, i \in Nat :
              Created(op, mine, s, i) => Created(op', mine', s, i)
         /\ \A c \in Seq(Statement) : Known(op, mine, c) => Known(op', mine', c)
<1>1. \A s \in Statement, i \in Nat :
        Created(op, mine, s, i) => Created(op', mine', s, i)
  <2> TAKE s \in Statement, i \in Nat
  <2>1. s.id \in RPCs
    BY DEF Statement
  <2>2. Created(op, mine, s, i) => op'[s.id] = op[s.id] /\ mine'[s.id] = mine[s.id]
    BY <2>1, Stays DEF Created
  <2> QED BY <2>2 DEF Created
<1>2. ASSUME NEW c \in Seq(Statement), Known(op, mine, c) PROVE Known(op', mine', c)
  <2>1. \A i \in 1..Len(c) : i \in Nat /\ c[i] \in Statement
    BY ElementOfSeq, LenProperties
  <2> QED BY <1>1, <1>2, <2>1 DEF Known
<1> QED BY <1>1, <1>2

LEMMA StoredStays ==
  ASSUME Inv, RootInv, NEW p \in RPCs, Step(p), NEW c, NEW n, Stored(store, c, n)
  PROVE  Stored(store', c, n)
BY Stays DEF Stored

\* What a step leaves alone.
LEMMA Others ==
  ASSUME Inv, RootInv, NEW p \in RPCs, Step(p)
  PROVE  /\ \A q \in RPCs \ {p} : Progress(q)' /\ Copies(q)'
         /\ UNCHANGED store => StoreKnown'
         /\ UNCHANGED local => \A d \in Devices : Behind(d)'
         /\ UNCHANGED <<mine, remote>> => Copies(p)'
<1>1. ASSUME NEW q \in RPCs \ {p} PROVE Progress(q)'
  <2>1. Progress(q)
    BY DEF RootInv
  <2>2. pc'[q] = pc[q] /\ op'[q] = op[q] /\ at'[q] = at[q] /\ mine'[q] = mine[q]
    BY Stays
  <2>3. \A n : Stored(store, mine[q], n) => Stored(store', mine[q], n)
    BY StoredStays
  <2> QED BY <2>1, <2>2, <2>3 DEF Progress
<1>2. ASSUME NEW q \in RPCs, mine'[q] = mine[q], remote'[q] = remote[q] PROVE Copies(q)'
  <2>1. Copies(q) /\ mine[q] \in Seq(Statement)
    BY DEF RootInv, Inv, TypeOK
  <2>2. Known(op', mine', mine[q]) /\ Stored(store', remote[q], Len(remote[q]))
    BY <2>1, KnownStays, StoredStays DEF Copies
  <2> QED BY <1>2, <2>2 DEF Copies
<1>3. ASSUME UNCHANGED store PROVE StoreKnown'
  <2>1. \A i \in Seqs : i \in Nat /\ (store[i] # Nothing => store[i] \in Statement)
    BY LimitsAssumption DEF Seqs, Inv, TypeOK
  <2> QED BY <1>3, <2>1, KnownStays DEF StoreKnown, RootInv, Prev
<1>4. ASSUME UNCHANGED local, NEW d \in Devices PROVE Behind(d)'
  <2>1. Behind(d) /\ local[d] \in Seq(Statement)
    BY DEF RootInv, Inv, TypeOK
  <2>2. Known(op', mine', local[d])
    BY <2>1, KnownStays DEF Behind
  <2>3. d \notin unpublished' => Stored(store', local[d], Len(local[d]))
    BY <2>1, Stays, StoredStays DEF Behind
  <2> QED BY <1>4, <2>2, <2>3 DEF Behind
<1> QED BY <1>1, <1>2, <1>3, <1>4, Stays
\* The rules about one RPC, with the others' from Others.
LEMMA Whole ==
  ASSUME Inv, RootInv, NEW p \in RPCs, Step(p),
         StoreKnown', Progress(p)', Copies(p)', \A d \in Devices : Behind(d)'
  PROVE  RootInv'
BY Others DEF RootInv

\* A statement is signed over the chain that is here.
LEMMA CreateRoots ==
  ASSUME Inv, RootInv, NEW p \in RPCs, Create(p)
  PROVE  RootInv'
<1> DEFINE c == local[device[p]]
           s == [id |-> p, prev |-> LastId(c)]
<1>1. Step(p) /\ UNCHANGED <<store, local, remote>>
  BY DEF Create, Step
<1>2. c \in Seq(Statement) /\ Len(c) \in Nat /\ Linked(c) /\ Known(op, mine, c)
      /\ device[p] \in Devices
  <2>1. device[p] \in Devices
    BY DEF Inv, TypeOK
  <2> QED BY <2>1, LenProperties DEF Create, RootInv, Behind, Inv, TypeOK
<1>3. mine'[p] = Append(c, s) /\ at'[p] = Len(c) + 1
  BY DEF Create, Signed, Inv, TypeOK
<1>4. \/ op'[p] = "create" /\ pc'[p] = "put"
      \/ op'[p] = "local" /\ pc'[p] = "save"
  BY DEF Create, Goto, AfterSigning, Inv, TypeOK
<1>5. LastId(c) \in RPCs \cup {Nothing}
  <2>1. c # <<>> => c[Len(c)] \in Statement
    BY <1>2, ElementOfSeq, EmptySeq
  <2> QED BY <2>1 DEF LastId, Statement
<1>6. s \in Statement
  BY <1>5 DEF Statement
<1> HIDE DEF c
<1>7. /\ mine'[p] \in Seq(Statement) /\ Len(mine'[p]) = Len(c) + 1
      /\ \A i \in 1..Len(c) : mine'[p][i] = c[i]
      /\ mine'[p][Len(c) + 1] = s
  BY <1>2, <1>3, <1>6, AppendProperties
<1>8. Known(op', mine', mine'[p])
  <2>1. Known(op', mine', c)
    BY <1>1, <1>2, KnownStays
  <2>2. Created(op', mine', s, Len(c) + 1)
    BY <1>4, <1>7 DEF Created
  <2> SUFFICES ASSUME NEW i \in 1..Len(mine'[p])
               PROVE  Created(op', mine', mine'[p][i], i)
    BY DEF Known
  <2>3. CASE i \in 1..Len(c)
    BY <1>7, <2>1, <2>3 DEF Known
  <2>4. CASE i = Len(c) + 1
    BY <1>7, <2>2, <2>4
  <2> QED BY <1>2, <1>7, <2>3, <2>4
<1>9. Chained(mine'[p])
  <2>1. Chained(c)
    BY <1>2, LinkedChained
  <2>2. LastId(c) = Prev(mine'[p], Len(c) + 1)
    <3>1. Len(c) = 0 => c = <<>>
      BY <1>2, EmptySeq
    <3>2. Len(c) # 0 => c # <<>> /\ mine'[p][Len(c)] = c[Len(c)]
      BY <1>2, <1>7, EmptySeq
    <3> QED BY <1>2, <3>1, <3>2 DEF LastId, Prev
  <2>3. \A i \in 1..Len(c) : Prev(mine'[p], i) = Prev(c, i)
    BY <1>2, <1>7 DEF Prev
  <2> QED BY <1>2, <1>7, <2>1, <2>2, <2>3 DEF Chained
<1>10. Progress(p)'
  BY <1>3, <1>4, <1>7, <1>9 DEF Progress, Putting, Chained
<1>11. Copies(p)'
  BY <1>1, <1>8, StoredStays DEF Copies, RootInv
<1> QED BY <1>1, <1>10, <1>11, Others, Whole

LEMMA PushRoots ==
  ASSUME Inv, RootInv, NEW p \in RPCs, Push(p)
  PROVE  RootInv'
<1>1. Step(p) /\ UNCHANGED <<store, local, remote>>
  BY DEF Push, Step
<1>2. mine'[p] = local[device[p]] /\ op'[p] = "push" /\ pc'[p] = "compare"
  BY DEF Push, Goto, Inv, TypeOK
<1>3. Known(op', mine', mine'[p])
  <2>1. device[p] \in Devices /\ local[device[p]] \in Seq(Statement)
    BY DEF Inv, TypeOK
  <2>2. Known(op, mine, local[device[p]])
    BY <2>1 DEF RootInv, Behind
  <2> QED BY <1>1, <1>2, <2>1, <2>2, KnownStays
<1>4. Progress(p)'
  BY <1>2 DEF Progress, Putting
<1>5. Copies(p)'
  BY <1>1, <1>3, StoredStays DEF Copies, RootInv
<1> QED BY <1>1, <1>4, <1>5, Others, Whole

\* The documents are what the server reads as the chain.
LEMMA ChainStored ==
  ASSUME Inv
  PROVE  /\ Chain \in Seq(Statement) /\ Length \in Nat /\ Len(Chain) = Length
         /\ Stored(store, Chain, Length)
         /\ \A n \in Nat : \A c : Stored(store, c, n)
              => n <= Length /\ \A i \in 1..n : i \in 1..Length /\ c[i] = Chain[i]
<1>1. Chain \in Seq(Statement) /\ Length \in 0..MaxStatements /\ Len(Chain) = Length
  BY ChainType DEF Inv
<1>2. PICK n \in 0..MaxStatements : Filled(n)
  BY DEF Inv, OneChain
<1>3. n = Length
  BY <1>2, LengthIs
<1>4. \A i \in Seqs : store[i] # Nothing <=> i \in 1..Length
  BY <1>2, <1>3, LimitsAssumption DEF Filled, Seqs
<1>5. \A i \in 1..Length : i \in Seqs /\ Chain[i] = store[i]
  BY <1>1, LimitsAssumption DEF Seqs, Chain
<1>6. Stored(store, Chain, Length)
  BY <1>4, <1>5 DEF Stored
<1>7. ASSUME NEW k \in Nat, NEW c, Stored(store, c, k)
      PROVE  k <= Length /\ \A i \in 1..k : i \in 1..Length /\ c[i] = Chain[i]
  <2>1. \A i \in 1..k : i \in 1..Length /\ c[i] = Chain[i]
    BY <1>4, <1>5, <1>7 DEF Stored
  <2>2. k # 0 => k \in 1..k
    OBVIOUS
  <2> QED BY <1>1, <2>1, <2>2
<1> QED BY <1>1, <1>6, <1>7

LEMMA PrefixIs ==
  ASSUME NEW S, NEW a \in Seq(S), NEW b \in Seq(S)
  PROVE  IsPrefix(a, b) <=> Len(a) <= Len(b) /\ \A i \in 1..Len(a) : a[i] = b[i]
<1>1. Len(a) \in Nat /\ Len(b) \in Nat
  BY LenProperties
<1>2. CASE Len(a) <= Len(b)
  <2> DEFINE u == SubSeq(a, 1, Len(a))
             v == SubSeq(b, 1, Len(a))
  <2>1. (\A i \in 1..Len(a) : a[i] \in S) /\ \A i \in 1..Len(a) : b[i] \in S
    BY <1>1, <1>2, ElementOfSeq
  <2>2. u \in Seq(S) /\ Len(u) = Len(a) /\ \A i \in 1..Len(a) : u[i] = a[i]
    <3>1. /\ u \in Seq(S)
          /\ Len(u) = IF 1 <= Len(a) THEN Len(a) - 1 + 1 ELSE 0
          /\ \A i \in 1..(Len(a) - 1 + 1) : u[i] = a[1 + i - 1]
      BY <1>1, <2>1, SubSeqProperties
    <3> QED BY <1>1, <3>1
  <2>3. v \in Seq(S) /\ Len(v) = Len(a) /\ \A i \in 1..Len(a) : v[i] = b[i]
    <3>1. /\ v \in Seq(S)
          /\ Len(v) = IF 1 <= Len(a) THEN Len(a) - 1 + 1 ELSE 0
          /\ \A i \in 1..(Len(a) - 1 + 1) : v[i] = b[1 + i - 1]
      BY <1>1, <2>1, SubSeqProperties
    <3> QED BY <1>1, <3>1
  <2>4. u = v <=> \A i \in 1..Len(a) : a[i] = b[i]
    <3> HIDE DEF u, v
    <3>1. (\A i \in 1..Len(a) : a[i] = b[i]) => u = v
      BY <2>2, <2>3, SeqEqual
    <3> QED BY <2>2, <2>3, <3>1
  <2>5. IsPrefix(a, b) <=> u = v
    BY <1>2 DEF IsPrefix
  <2> QED BY <1>2, <2>4, <2>5
<1>3. CASE ~(Len(a) <= Len(b))
  BY <1>3 DEF IsPrefix
<1> QED BY <1>2, <1>3
LEMMA CompareRoots ==
  ASSUME Inv, RootInv, NEW p \in RPCs, Compare(p)
  PROVE  RootInv'
<1>1. Step(p) /\ UNCHANGED <<store, local, mine, remote, op>>
  BY DEF Compare, Step
<1>2. op[p] = "push" /\ mine[p] \in Seq(Statement) /\ Len(mine[p]) \in Nat
  BY LenProperties DEF Compare, RootInv, Progress, Inv, TypeOK
<1>3. at'[p] = Length + 1 /\ pc'[p] \in {"put", "get", "error"}
  BY DEF Compare, Goto, Inv, TypeOK
<1>4. Chain \in Seq(Statement) /\ Length \in Nat /\ Len(Chain) = Length
      /\ \A i \in 1..Length : i \in Seqs /\ store[i] # Nothing /\ store[i] = Chain[i]
  BY ChainStored DEF Stored
<1>5. pc'[p] = "put" => Stored(store, mine[p], Length)
  <2>1. pc'[p] = "put" => IsPrefix(Chain, mine[p])
    BY DEF Compare, Goto, Inv, TypeOK
  <2>2. IsPrefix(Chain, mine[p]) => \A i \in 1..Length : Chain[i] = mine[p][i]
    BY <1>2, <1>4, PrefixIs
  <2> QED BY <1>4, <2>1, <2>2 DEF Stored
<1>6. pc'[p] = "get" => Stored(store, mine[p], Len(mine[p]))
  <2>1. pc'[p] = "get" => \/ IsPrefix(Chain, mine[p]) /\ ~(Length < Len(mine[p]))
                          \/ IsPrefix(mine[p], Chain)
    BY DEF Compare, Goto, Inv, TypeOK
  <2>2. IsPrefix(Chain, mine[p])
          => Length <= Len(mine[p]) /\ \A i \in 1..Length : Chain[i] = mine[p][i]
    BY <1>2, <1>4, PrefixIs
  <2>3. IsPrefix(mine[p], Chain)
          => Len(mine[p]) <= Length /\ \A i \in 1..Len(mine[p]) : mine[p][i] = Chain[i]
    BY <1>2, <1>4, PrefixIs
  <2>4. CASE IsPrefix(Chain, mine[p]) /\ ~(Length < Len(mine[p]))
    BY <1>2, <1>4, <2>2, <2>4 DEF Stored
  <2>5. CASE IsPrefix(mine[p], Chain)
    BY <1>2, <1>4, <2>3, <2>5 DEF Stored
  <2> QED BY <2>1, <2>4, <2>5
<1>7. (at[p] - 1)' = Length
  BY <1>3, <1>4
<1>8. Progress(p)'
  <2>1. op'[p] = "push" /\ mine'[p] = mine[p] /\ store' = store /\ at'[p] - 1 = Length
    BY <1>1, <1>2, <1>7
  <2> QED BY <1>3, <1>5, <1>6, <2>1 DEF Progress, Putting
<1> QED BY <1>1, <1>8, Others, Whole

\* What the server sends is stored.
LEMMA GetRoots ==
  ASSUME Inv, RootInv, NEW p \in RPCs, Get(p)
  PROVE  RootInv'
<1>1. Step(p) /\ UNCHANGED <<store, local, mine, op, at>>
  BY DEF Get, Step
<1>2. remote'[p] = Chain /\ pc[p] = "get" /\ pc'[p] \in {"save", "ok"}
  BY DEF Get, Goto, Inv, TypeOK
<1>3. Progress(p)'
  BY <1>1, <1>2 DEF Progress, Putting, RootInv
<1>4. Stored(store', remote'[p], Len(remote'[p]))
  BY <1>1, <1>2, ChainStored
<1>5. Known(op', mine', mine'[p])
  BY <1>1 DEF RootInv, Copies
<1> QED BY <1>1, <1>3, <1>4, <1>5, Others, Whole DEF Copies

LEMMA PullRoots ==
  ASSUME Inv, RootInv, NEW p \in RPCs, Pull(p)
  PROVE  RootInv'
<1>1. Step(p) /\ UNCHANGED <<store, local, mine, remote>>
  BY DEF Pull, Step
<1>2. op'[p] = "pull" /\ pc'[p] = "get"
  BY DEF Pull, Goto, Inv, TypeOK
<1>3. Progress(p)'
  BY <1>2 DEF Progress, Putting
<1> QED BY <1>1, <1>3, Others, Whole

\* A chain is saved over the one that is here, of which an end may stay: every
\* statement keeps its place.
LEMMA SaveRoots ==
  ASSUME Inv, RootInv, NEW p \in RPCs, Save(p)
  PROVE  RootInv'
<1> DEFINE d == device[p]
           old == local[d]
           c == IF op[p] \in {"create", "local"} THEN mine[p] ELSE remote[p]
<1>1. Step(p) /\ UNCHANGED <<store, mine, remote, op, at>> /\ pc[p] = "save"
  BY DEF Save, Step
<1>2. d \in Devices /\ old \in Seq(Statement) /\ c \in Seq(Statement)
      /\ Len(c) \in Nat /\ Len(old) \in Nat
  <2>1. d \in Devices /\ old \in Seq(Statement) /\ c \in Seq(Statement)
    BY DEF Inv, TypeOK
  <2> QED BY <2>1, LenProperties
<1>3. PICK new \in Saved(old, c) : local' = [local EXCEPT ![d] = new]
  BY DEF Save
<1>4. /\ pc'[p] = "ok"
      /\ unpublished' = IF op[p] = "local" THEN unpublished \cup {d} ELSE unpublished
  BY DEF Save, Goto, Inv, TypeOK
<1>5. local'[d] = new /\ \A e \in Devices \ {d} : local'[e] = local[e]
  BY <1>2, <1>3 DEF Inv, TypeOK
<1>6. Known(op, mine, c) /\ (op[p] # "local" => Stored(store, c, Len(c)))
  <2>1. CASE op[p] \in {"create", "local"}
    BY <1>1, <2>1 DEF RootInv, Copies, Progress
  <2>2. CASE op[p] \notin {"create", "local"}
    <3>1. Stored(store, c, Len(c))
      BY <2>2 DEF RootInv, Copies
    <3>2. Known(op, mine, c)
      BY <3>1 DEF Stored, Known, RootInv, StoreKnown
    <3> QED BY <3>1, <3>2
  <2> QED BY <2>1, <2>2
<1>7. Known(op, mine, old) /\ (d \notin unpublished => Stored(store, old, Len(old)))
  BY <1>2 DEF RootInv, Behind
<1> HIDE DEF c, old, d
<1>8. \A i \in 1..Len(new) :
        \/ i \in 1..Len(c) /\ new[i] = c[i]
        \/ i \in 1..Len(old) /\ new[i] = old[i]
  <2>1. CASE new = c
    BY <2>1
  <2>2. CASE new = c \o SubSeq(old, Len(c) + 1, Len(old))
    <3> DEFINE r == SubSeq(old, Len(c) + 1, Len(old))
    <3>1. \A i \in (Len(c) + 1)..Len(old) : old[i] \in Statement
      BY <1>2, ElementOfSeq
    <3>2. /\ r \in Seq(Statement)
          /\ Len(r) = IF Len(c) + 1 <= Len(old) THEN Len(old) - (Len(c) + 1) + 1 ELSE 0
          /\ \A i \in 1..(Len(old) - (Len(c) + 1) + 1) : r[i] = old[Len(c) + 1 + i - 1]
      BY <1>2, <3>1, SubSeqProperties
    <3> HIDE DEF r
    <3>3. /\ Len(c \o r) = Len(c) + Len(r)
          /\ \A i \in 1..(Len(c) + Len(r)) :
               (c \o r)[i] = IF i <= Len(c) THEN c[i] ELSE r[i - Len(c)]
      BY <1>2, <3>2, ConcatProperties
    <3>4. new = c \o r
      BY <2>2 DEF r
    <3>5. ASSUME NEW i \in 1..Len(new)
          PROVE  \/ i \in 1..Len(c) /\ new[i] = c[i]
                 \/ i \in 1..Len(old) /\ new[i] = old[i]
      <4>1. CASE i <= Len(c)
        BY <1>2, <3>2, <3>3, <3>4, <4>1
      <4>2. CASE ~(i <= Len(c))
        <5>1. Len(c) + 1 <= Len(old) /\ i - Len(c) \in 1..(Len(old) - (Len(c) + 1) + 1)
          BY <1>2, <3>2, <3>3, <3>4, <4>2
        <5>2. new[i] = r[i - Len(c)] /\ r[i - Len(c)] = old[Len(c) + 1 + (i - Len(c)) - 1]
          BY <1>2, <3>2, <3>3, <3>4, <4>2, <5>1
        <5> QED BY <1>2, <4>2, <5>1, <5>2
      <4> QED BY <4>1, <4>2
    <3> QED BY <3>5
  <2> QED BY <1>3, <2>1, <2>2 DEF Saved
<1>9. Known(op, mine, new)
  BY <1>6, <1>7, <1>8 DEF Known
<1>10. ASSUME NEW e \in Devices, e = d PROVE Behind(e)'
  <2>1. Known(op', mine', local'[e]) /\ local'[e] = new
    BY <1>1, <1>5, <1>9, <1>10
  <2>2. CASE op[p] = "local"
    BY <1>4, <1>10, <2>1, <2>2 DEF Behind
  <2>3. CASE op[p] # "local"
    <3>1. d \notin unpublished => Stored(store, new, Len(new))
      BY <1>6, <1>7, <1>8, <2>3 DEF Stored
    <3>2. e \notin unpublished' => Stored(store', local'[e], Len(local'[e]))
      BY <1>1, <1>4, <1>10, <2>1, <2>3, <3>1
    <3> QED BY <2>1, <3>2 DEF Behind
  <2> QED BY <2>2, <2>3
<1>11. ASSUME NEW e \in Devices \ {d} PROVE Behind(e)'
  <2>1. Behind(e) /\ local'[e] = local[e]
    BY <1>5 DEF RootInv
  <2>2. e \notin unpublished' => e \notin unpublished
    BY <1>4
  <2> QED BY <1>1, <2>1, <2>2 DEF Behind
<1>12. Progress(p)'
  BY <1>1, <1>4 DEF Progress, Putting, RootInv
<1>13. \A e \in Devices : Behind(e)'
  BY <1>10, <1>11
<1> QED BY <1>1, <1>12, <1>13, Others, Whole
\* Nothing is written, and an RPC that waits goes on, tries again or stops.
LEMMA WaitingRoots ==
  ASSUME Inv, RootInv, NEW p \in RPCs,
         Exists(p) \/ TooLong(p) \/ Verify(p) \/ CheckUsers(p) \/ Fail(p)
  PROVE  RootInv'
<1>1. Step(p)
  BY DEF Step
<1>2. UNCHANGED <<store, local, mine, remote, op, at>>
  BY DEF Exists, TooLong, Verify, CheckUsers, Fail
<1>3. /\ pc'[p] \in Putting \cup {"error"}
      /\ pc'[p] # "error" => pc[p] \in Putting
      /\ pc[p] # "idle"
  BY DEF Exists, TooLong, Verify, CheckUsers, Fail, Conflict, Goto, Putting, Inv, TypeOK
<1>4. Progress(p) /\ pc'[p] # "idle"
  BY <1>3 DEF RootInv, Putting
<1>5. Progress(p)'
  BY <1>2, <1>3, <1>4 DEF Progress, Putting
<1> QED BY <1>1, <1>2, <1>5, Others, Whole

\* An answer moves the RPC to its next statement.
LEMMA AnswerRoots ==
  ASSUME Inv, RootInv, NEW p \in RPCs, Answer(p)
  PROVE  RootInv'
<1>1. Step(p) /\ UNCHANGED <<store, local, mine, remote, op>> /\ pc[p] = "answer"
  BY DEF Answer, Step
<1>2. Progress(p) /\ at[p] \in Nat \ {0} /\ at[p] \in 1..Len(mine[p])
      /\ Len(mine[p]) \in Nat
  BY <1>1, LenProperties DEF RootInv, Inv, TypeOK
<1>3. op[p] \in {"create", "push"} /\ Stored(store, mine[p], at[p])
  BY <1>1, <1>2 DEF Progress
<1>4. CASE at[p] < Len(mine[p])
  <2>1. pc'[p] = "put" /\ at'[p] = at[p] + 1
    BY <1>4 DEF Answer, Goto, Inv, TypeOK
  <2>2. op[p] = "push"
    BY <1>1, <1>2, <1>3, <1>4 DEF Progress
  <2>3. at'[p] - 1 = at[p]
    BY <1>2, <2>1
  <2>4. Progress(p)'
    BY <1>1, <1>3, <2>1, <2>2, <2>3 DEF Progress, Putting
  <2> QED BY <1>1, <2>4, Others, Whole
<1>5. CASE ~(at[p] < Len(mine[p]))
  <2>1. pc'[p] = IF op[p] = "push" THEN "get" ELSE "save"
    BY <1>5 DEF Answer, Goto, Inv, TypeOK
  <2>2. at[p] = Len(mine[p])
    BY <1>2, <1>5
  <2>3. Progress(p)'
    BY <1>1, <1>2, <1>3, <2>1, <2>2 DEF Progress, Putting
  <2> QED BY <1>1, <2>3, Others, Whole
<1> QED BY <1>4, <1>5

\* A statement is stored, and with it all that it was signed over: a document
\* in place i - 1 that has the statement's prev is the start of the RPC's chain.
LEMMA WriteRoots ==
  ASSUME Inv, RootInv, NEW p \in RPCs, Write(p)
  PROVE  RootInv'
<1> DEFINE c == mine[p]
           n == at[p]
<1>1. Step(p) /\ UNCHANGED <<local, mine, remote, op, at>> /\ pc[p] = "write"
  BY DEF Write, Step
<1>2. Progress(p) /\ Copies(p) /\ n \in Nat \ {0} /\ n \in 1..Len(c) /\ n \in Seqs
      /\ c \in Seq(Statement) /\ Len(c) \in Nat
  BY <1>1, LenProperties DEF RootInv, Inv, TypeOK
<1>3. CASE ~Free(n)
  <2>1. store' = store /\ pc'[p] = "error"
    BY <1>3 DEF Write, Goto, Inv, TypeOK
  <2>2. Progress(p)'
    BY <1>1, <1>2, <2>1 DEF Progress, Putting
  <2> QED BY <1>1, <2>1, <2>2, Others, Whole
<1>4. CASE Free(n)
  <2>1. store' = [store EXCEPT ![n] = c[n]] /\ pc'[p] = "answer"
    BY <1>4 DEF Write, Goto, Inv, TypeOK
  <2>2. c[n] \in Statement /\ c[n] # Nothing
    <3>1. c[n] \in Statement
      BY <1>2, ElementOfSeq
    <3> QED BY <3>1, NothingAssumption
  <2>3. store'[n] = c[n] /\ \A i \in Seqs : i # n => store'[i] = store[i]
    BY <1>2, <2>1 DEF Inv, TypeOK
  <2>4. /\ \A i \in 1..(n - 1) : i \in Seqs /\ store[i] # Nothing /\ store'[i] = store[i]
        /\ c[n].prev = Prev(store, n)
    <3>1. Verified(p)
      BY DEF Inv
    <3>2. \A i \in 1..(n - 1) : i \in Seqs /\ i # n
      BY <1>2, LimitsAssumption DEF Seqs
    <3> QED BY <1>1, <2>3, <3>1, <3>2 DEF Verified, Prev
  <2>5. op[p] \in {"create", "push"}
    BY <1>1, <1>2 DEF Progress, Putting
  <2>6. \A i \in 1..(n - 1) : store[i] = c[i]
    <3>1. CASE op[p] = "push"
      BY <1>1, <1>2, <3>1 DEF Progress, Putting, Stored
    <3>2. CASE op[p] = "create"
      <4>1. Chained(c) /\ n = Len(c)
        BY <1>1, <1>2, <3>2 DEF Progress, Putting
      <4>2. \A i \in 1..(n - 1) : Created(op, mine, c[i], i) /\ c[i].prev = Prev(c, i)
        BY <1>2, <4>1 DEF Copies, Known, Chained
      <4>3. \A i \in 1..(n - 1) : Created(op, mine, store[i], i)
                                  /\ store[i].prev = Prev(store, i)
        BY <2>4 DEF RootInv, StoreKnown
      <4>4. n - 1 # 0 => store[n - 1].id = c[n - 1].id
        <5>1. c[n].prev = Prev(c, n) /\ c[n].prev = Prev(store, n)
          BY <1>2, <2>4, <4>1 DEF Chained
        <5>2. n - 1 # 0 => n # 1
          OBVIOUS
        <5> QED BY <5>1, <5>2 DEF Prev
      <4>5. n - 1 \in Nat
        BY <1>2
      <4> HIDE DEF c, n
      <4> QED BY <4>2, <4>3, <4>4, <4>5, OneHistory
    <3> QED BY <2>5, <3>1, <3>2
  <2>7. Stored(store', c, n)
    <3>1. \A i \in 1..n : i \in 1..(n - 1) \/ i = n
      BY <1>2
    <3> QED BY <1>2, <2>2, <2>3, <2>4, <2>6, <3>1 DEF Stored
  <2>8. Progress(p)'
    BY <1>1, <1>2, <2>1, <2>5, <2>7 DEF Progress, Putting
  <2>9. StoreKnown'
    <3> SUFFICES ASSUME NEW i \in Seqs, store'[i] # Nothing
                 PROVE  Created(op', mine', store'[i], i) /\ store'[i].prev = Prev(store', i)
      BY DEF StoreKnown
    <3>1. i # n => i - 1 # n
      <4>1. ASSUME i # n, i - 1 = n PROVE FALSE
        <5>1. store[n] = Nothing /\ store[i] # Nothing
          BY <1>4, <2>3, <4>1 DEF Free
        <5>2. PICK m \in 0..MaxStatements : Filled(m)
          BY DEF Inv, OneChain
        <5> QED BY <1>2, <4>1, <5>1, <5>2, LimitsAssumption DEF Filled, Seqs
      <4> QED BY <4>1
    <3>2. CASE i = n
      <4>1. Created(op, mine, c[n], n)
        BY <1>2 DEF Copies, Known
      <4>2. Prev(store', n) = Prev(store, n)
        BY <1>2, <2>4 DEF Prev
      <4> QED BY <1>1, <2>3, <2>4, <3>2, <4>1, <4>2
    <3>3. CASE i # n
      <4>1. store'[i] = store[i] /\ Created(op, mine, store[i], i)
            /\ store[i].prev = Prev(store, i)
        BY <2>3, <3>3 DEF RootInv, StoreKnown
      <4>2. Prev(store', i) = Prev(store, i)
        <5>1. i # 1 => i - 1 \in Seqs
          BY LimitsAssumption DEF Seqs
        <5> QED BY <2>3, <3>1, <3>3, <5>1 DEF Prev
      <4> QED BY <1>1, <4>1, <4>2
    <3> QED BY <3>2, <3>3
  <2> QED BY <1>1, <2>8, <2>9, Others, Whole
<1> QED BY <1>3, <1>4
LEMMA RootsInitially == Init => RootInv
<1> SUFFICES ASSUME Init PROVE RootInv
  OBVIOUS
<1>1. Len(<<>>) = 0
  BY LenProperties, EmptySeq
<1> QED BY <1>1 DEF Init, RootInv, StoreKnown, Progress, Copies, Behind, Known, Stored, Putting

LEMMA RootsInductive == Inv /\ RootInv /\ [Next]_vars => RootInv'
<1> SUFFICES ASSUME Inv, RootInv, [Next]_vars PROVE RootInv'
  OBVIOUS
<1>1. ASSUME NEW p \in RPCs, Step(p) PROVE RootInv'
  BY <1>1, CreateRoots, PushRoots, PullRoots, CompareRoots, GetRoots, SaveRoots, WaitingRoots,
     WriteRoots, AnswerRoots DEF Step
<1>2. CASE UNCHANGED vars
  BY <1>2 DEF vars, RootInv, StoreKnown, Progress, Copies, Behind, Prev
<1> QED BY <1>1, <1>2 DEF Next

\* What every device and RPC knows of the server's chain.
THEOREM RootInvariant == Spec => []RootInv
BY Initially, RootsInitially, Invariance, RootsInductive, PTL DEF Spec

\* A device without statements of its own is never ahead of the server, nor
\* beside it.
THEOREM DevicesBehind == Spec => []LocalBehind
<1>1. Inv /\ RootInv => LocalBehind
  <2> SUFFICES ASSUME Inv, RootInv, NEW d \in Devices, d \notin unpublished
               PROVE  IsPrefix(local[d], Chain)
    BY DEF LocalBehind
  <2>1. local[d] \in Seq(Statement) /\ Len(local[d]) \in Nat
    BY LenProperties DEF Inv, TypeOK
  <2>2. Stored(store, local[d], Len(local[d]))
    BY DEF RootInv, Behind
  <2>3. Chain \in Seq(Statement) /\ Len(Chain) = Length /\ Len(local[d]) <= Length
        /\ \A i \in 1..Len(local[d]) : local[d][i] = Chain[i]
    BY <2>1, <2>2, ChainStored
  <2> QED BY <2>1, <2>3, PrefixIs
<1> QED BY <1>1, Invariance, RootInvariant, PTL

\* What is answered: by a step that ends an RPC, all that it has put.
LEMMA ToldIs ==
  ASSUME Inv, RootInv, NEW p \in Told
  PROVE  \A i \in 1..Len(mine[p]) : <<i, mine[p][i]>> \in {<<j, Chain[j]>> : j \in 1..Len(Chain)}
<1>1. Stored(store, mine[p], Len(mine[p])) /\ Len(mine[p]) \in Nat
  BY LenProperties DEF RootInv, Progress, Told, Inv, TypeOK
<1>2. Len(Chain) = Length
      /\ \A i \in 1..Len(mine[p]) : i \in 1..Length /\ mine[p][i] = Chain[i]
  BY <1>1, ChainStored
<1> QED BY <1>2

\* The same, after a step.
LEMMA ToldIsNext ==
  (Inv /\ RootInv => \A q \in Told : \A i \in 1..Len(mine[q]) :
                       <<i, mine[q][i]>> \in {<<j, Chain[j]>> : j \in 1..Len(Chain)})'
<1>1. Inv /\ RootInv => \A q \in Told : \A i \in 1..Len(mine[q]) :
                          <<i, mine[q][i]>> \in {<<j, Chain[j]>> : j \in 1..Len(Chain)}
  <2> SUFFICES ASSUME Inv, RootInv, NEW q \in Told
               PROVE  \A i \in 1..Len(mine[q]) :
                        <<i, mine[q][i]>> \in {<<j, Chain[j]>> : j \in 1..Len(Chain)}
    OBVIOUS
  <2> QED BY ToldIs
<1> QED BY <1>1, PTL

LEMMA ToldStay ==
  ASSUME Inv, RootInv, NEW p \in RPCs, Step(p), NEW q \in Told
  PROVE  q \in Told' /\ mine'[q] = mine[q]
<1>1. pc[p] \notin {"ok"}
  BY DEF Step, Create, Push, Pull, Compare, Get, Save, Exists, TooLong, Verify, CheckUsers,
         Write, Answer, Fail
<1>2. q \in RPCs /\ q # p
  BY <1>1 DEF Told
<1> QED BY <1>2, Stays DEF Told

\* The server's sigchain implements SigchainLog: it is one chain that only grows,
\* and what a create or a push was told is published is in it, whichever
\* RPCs run at the same time.
THEOREM ChainImplementsLog == Spec => LogSpec
<1>1. Init => Log!Init
  <2> SUFFICES ASSUME Init PROVE Log!Init
    OBVIOUS
  <2>1. Inv
    BY Initially
  <2>2. Filled(0)
    BY LimitsAssumption DEF Init, Filled, Seqs
  <2>3. Length = 0 /\ Chain \in Seq(Statement) /\ Len(Chain) = Length
    BY <2>1, <2>2, LengthIs, ChainType, LimitsAssumption DEF Inv
  <2>4. Chain = <<>>
    BY <2>3, EmptySeq
  <2>5. Told = {}
    BY DEF Told, Init
  <2> QED BY <2>4, <2>5 DEF Log!Init, Answered
<1>2. Inv /\ RootInv /\ Inv' /\ RootInv' /\ [Next]_vars => [Log!Next]_(Log!vars)
  <2> SUFFICES ASSUME Inv, RootInv, Inv', RootInv', [Next]_vars
               PROVE  Log!Next \/ UNCHANGED Log!vars
    OBVIOUS
  <2>1. CASE UNCHANGED vars
    BY <2>1 DEF vars, Log!vars, Chain, Length, Answered, Told
  <2>2. ASSUME NEW p \in RPCs, Step(p) PROVE Log!Next \/ UNCHANGED Log!vars
    <3>1. CASE store' = store
      <4>1. Chain' = Chain
        BY <3>1, NoWrite
      <4>2. Answered \subseteq Answered'
        BY <2>2, ToldStay DEF Answered
      <4>3. \A q \in Told' : \A i \in 1..Len(mine'[q]) :
              <<i, mine'[q][i]>> \in {<<j, Chain'[j]>> : j \in 1..Len(Chain')}
        BY ToldIsNext
      <4>4. Answered' \subseteq {<<j, Chain[j]>> : j \in 1..Len(Chain)}
        BY <4>1, <4>3 DEF Answered
      <4> QED BY <4>1, <4>2, <4>4 DEF Log!Next, Log!Answer
    <3>2. CASE store' # store
      <4> DEFINE s == mine[p][at[p]]
      <4>1. Write(p)
        BY <2>2, <3>2 DEF Step, Create, Push, Pull, Compare, Get, Save, Exists, TooLong,
           Verify, CheckUsers, Answer, Fail
      <4>2. Chain' = Append(Chain, s) /\ s.prev = LastId(Chain)
        BY <3>2, <4>1, WriteAppends
      <4>3. s \in Statement
        BY <4>1, ElementOfSeq, LenProperties DEF Inv, TypeOK, Write
      <4>4. s = [id |-> s.id, prev |-> LastId(Chain)] /\ s.id \in RPCs
        BY <4>2, <4>3 DEF Statement
      <4>5. UNCHANGED <<op, mine>> /\ \A q \in RPCs : pc'[q] = "ok" <=> pc[q] = "ok"
        BY <4>1 DEF Write, Goto, Inv, TypeOK
      <4>6. Told' = Told /\ Answered' = Answered
        BY <4>5 DEF Told, Answered
      <4>7. Log!LastId(Chain) = LastId(Chain)
        BY DEF Log!LastId, LastId
      <4> QED BY <4>2, <4>4, <4>6, <4>7 DEF Log!Next, Log!Publish
    <3> QED BY <3>1, <3>2
  <2> QED BY <2>1, <2>2 DEF Next
<1> QED BY <1>1, <1>2, Invariance, RootInvariant, PTL DEF Spec, LogSpec, Log!Spec
=============================================================================
