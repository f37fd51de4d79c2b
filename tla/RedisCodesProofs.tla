-------------------------- MODULE RedisCodesProofs --------------------------
(***************************************************************************)
(* Why a copy of a request is refused (ReplayRefused), and what becomes of *)
(* the values in Redis (KeysExpire, PutsKept, CodesFind, TakenOnce): for   *)
(* any number of requests, any window and any nonce lifetime of more than  *)
(* two windows.                                                            *)
(***************************************************************************)
EXTENDS RedisCodes, TLAPS

LEMMA Initially == Init => TypeOK
BY TimesAssumption DEF Init, Labels, TypeOK, AtCall, Answers, Kinds

\* Its first Redis call leaves a request at the second one, or refused.
LEMMA NonceGetTypes ==
  ASSUME TypeOK, NEW r \in Requests, NEW n \in Requests, NEW t \in Int \cup {Never},
         NonceGet(r, n, t),
         NEW k \in Kinds \ {"none"}, kind' = [kind EXCEPT ![r] = k],
         NEW w \in Slots \cup Codes \cup {Nothing}, key' = [key EXCEPT ![r] = w],
         k \in {"put", "get"} => w \in Slots, k = "lookup" => w \in Codes
  PROVE  TypeOK'
<1>1. /\ pc' \in [Requests -> Labels] /\ kind' \in [Requests -> Kinds]
      /\ key' \in [Requests -> Slots \cup Codes \cup {Nothing}]
      /\ nonce' \in [Requests -> Requests] /\ signed' \in [Requests -> Int \cup {Never}]
      /\ racing' \subseteq Requests
  <2>1. pc' \in [Requests -> Labels]
    <3>1. Goto(r, "nonceset") \/ Goto(r, "refused")
      BY DEF NonceGet
    <3>2. pc \in [Requests -> Labels]
      BY DEF TypeOK
    <3> QED BY <3>1, <3>2 DEF Goto, Labels, Answers
  <2>2. kind' \in [Requests -> Kinds]
    BY DEF TypeOK
  <2>3. key' \in [Requests -> Slots \cup Codes \cup {Nothing}]
    BY DEF TypeOK
  <2>4. nonce' \in [Requests -> Requests] /\ signed' \in [Requests -> Int \cup {Never}]
    BY DEF NonceGet, TypeOK
  <2>5. racing' \subseteq Requests
    BY DEF NonceGet, TypeOK
  <2> QED BY <2>1, <2>2, <2>3, <2>4, <2>5
<1>2. /\ pc'[r] \in {"nonceset", "refused"} /\ \A q \in Requests \ {r} : pc'[q] = pc[q]
      /\ got' = got
  BY DEF NonceGet, Goto, TypeOK
<1>3. ASSUME NEW q \in Requests PROVE AtCall(q)'
  <2>1. CASE q = r
    BY <1>2, <2>1 DEF AtCall, TypeOK, Kinds, Answers
  <2>2. CASE q # r
    BY <1>2, <2>2 DEF AtCall, TypeOK, Answers
  <2> QED BY <2>1, <2>2
<1> QED BY <1>1, <1>3 DEF TypeOK, NonceGet, redis, AtCall

\* What the commands of Redis leave has its type.
LEMMA RedisTypes ==
  ASSUME TypeOK, NEW k \in Keys
  PROVE  /\ \A v \in Requests : Set(k, v) =>
              val' \in [Keys -> Requests \cup {Nothing}] /\ exp' \in [Keys -> Nat \cup {Never}]
         /\ \A d \in Nat : Expire(k, d) =>
              val' \in [Keys -> Requests \cup {Nothing}] /\ exp' \in [Keys -> Nat \cup {Never}]
         /\ Delete(k) =>
              val' \in [Keys -> Requests \cup {Nothing}] /\ exp' \in [Keys -> Nat \cup {Never}]
         /\ Held(k) \subseteq Requests
<1>1. ASSUME NEW v \in Requests, Set(k, v)
      PROVE  val' \in [Keys -> Requests \cup {Nothing}] /\ exp' \in [Keys -> Nat \cup {Never}]
  BY <1>1 DEF Set, TypeOK
<1>2. ASSUME NEW d \in Nat, Expire(k, d)
      PROVE  val' \in [Keys -> Requests \cup {Nothing}] /\ exp' \in [Keys -> Nat \cup {Never}]
  <2>1. now + d \in Nat
    BY DEF TypeOK
  <2> QED BY <1>2, <2>1 DEF Expire, TypeOK
<1>3. ASSUME Delete(k)
      PROVE  val' \in [Keys -> Requests \cup {Nothing}] /\ exp' \in [Keys -> Nat \cup {Never}]
  BY <1>3 DEF Delete, TypeOK
<1>4. Held(k) \subseteq Requests
  BY DEF Held, TypeOK
<1> QED BY <1>1, <1>2, <1>3, <1>4

\* Types of the later calls: they change Redis and their own request only.
LEMMA LaterTypes ==
  ASSUME TypeOK, NEW r \in Requests,
         NonceSet(r) \/ NonceExpire(r) \/ PutSet(r) \/ PutExpire(r) \/ GetValue(r)
           \/ GetDelete(r) \/ DeleteOffer(r) \/ DeleteAnswer(r) \/ NewCode(r)
           \/ SetCode(r) \/ ExpireCode(r) \/ Lookup(r) \/ Fail(r)
  PROVE  TypeOK'
<1> USE KeysAssumption, TimesAssumption
<1>1. CASE NonceSet(r)
  <2>1. pc' \in [Requests -> Labels] /\ \A q \in Requests : AtCall(q)'
    BY <1>1 DEF NonceSet, Goto, request, TypeOK, AtCall, Labels, Answers, Kinds
  <2>2. nonce[r] \in Keys
    BY <1>1 DEF NonceSet, TypeOK, AtCall, Keys
  <2>3. val' \in [Keys -> Requests \cup {Nothing}] /\ exp' \in [Keys -> Nat \cup {Never}]
    BY <1>1, <2>2, RedisTypes DEF NonceSet, TypeOK
  <2> QED BY <1>1, <2>1, <2>2, <2>3 DEF NonceSet, TypeOK, redis, request, history
<1>2. CASE NonceExpire(r)
  <2>1. pc' \in [Requests -> Labels] /\ \A q \in Requests : AtCall(q)'
    BY <1>2 DEF NonceExpire, Goto, request, TypeOK, AtCall, Labels, Answers, Kinds
  <2>2. nonce[r] \in Keys
    BY <1>2 DEF NonceExpire, TypeOK, AtCall, Keys
  <2>3. val' \in [Keys -> Requests \cup {Nothing}] /\ exp' \in [Keys -> Nat \cup {Never}]
    BY <1>2, <2>2, RedisTypes DEF NonceExpire, TypeOK
  <2> QED BY <1>2, <2>1, <2>2, <2>3 DEF NonceExpire, TypeOK, redis, request, history
<1>3. CASE PutSet(r)
  <2>1. pc' \in [Requests -> Labels] /\ \A q \in Requests : AtCall(q)'
    BY <1>3 DEF PutSet, Goto, request, TypeOK, AtCall, Labels, Answers, Kinds
  <2>2. key[r] \in Keys
    BY <1>3 DEF PutSet, TypeOK, AtCall, Keys
  <2>3. val' \in [Keys -> Requests \cup {Nothing}] /\ exp' \in [Keys -> Nat \cup {Never}]
    BY <1>3, <2>2, RedisTypes DEF PutSet, TypeOK
  <2>4. missed' \subseteq Requests
    BY <1>3, <2>2, RedisTypes DEF PutSet, TypeOK
  <2> QED BY <1>3, <2>1, <2>2, <2>3, <2>4 DEF PutSet, TypeOK, redis, request, history
<1>4. CASE PutExpire(r)
  <2>1. pc' \in [Requests -> Labels] /\ \A q \in Requests : AtCall(q)'
    BY <1>4 DEF PutExpire, Goto, request, TypeOK, AtCall, Labels, Answers, Kinds
  <2>2. key[r] \in Keys
    BY <1>4 DEF PutExpire, TypeOK, AtCall, Keys
  <2>3. val' \in [Keys -> Requests \cup {Nothing}] /\ exp' \in [Keys -> Nat \cup {Never}]
    BY <1>4, <2>2, RedisTypes DEF PutExpire, TypeOK
  <2> QED BY <1>4, <2>1, <2>2, <2>3 DEF PutExpire, TypeOK, redis, request, history
<1>5. CASE GetValue(r)
  <2>1. pc' \in [Requests -> Labels] /\ \A q \in Requests : AtCall(q)'
    BY <1>5 DEF GetValue, Get, Goto, request, TypeOK, AtCall, Labels, Answers, Kinds
  <2>2. key[r] \in Keys
    BY <1>5 DEF GetValue, TypeOK, AtCall, Keys
  <2>3. got' \in [Requests -> Requests \cup {Nothing}]
    BY <1>5, <2>2 DEF GetValue, TypeOK, Get
  <2> QED BY <1>5, <2>1, <2>3 DEF GetValue, TypeOK, redis, request, history
<1>6. CASE GetDelete(r)
  <2>1. pc' \in [Requests -> Labels] /\ \A q \in Requests : AtCall(q)'
    BY <1>6 DEF GetDelete, Goto, request, TypeOK, AtCall, Labels, Answers, Kinds
  <2>2. key[r] \in Keys
    BY <1>6 DEF GetDelete, TypeOK, AtCall, Keys
  <2>3. val' \in [Keys -> Requests \cup {Nothing}] /\ exp' \in [Keys -> Nat \cup {Never}]
    BY <1>6, <2>2, RedisTypes DEF GetDelete, TakeOut, TypeOK
  <2>4. served' \subseteq Requests
    BY <1>6 DEF GetDelete, TypeOK, AtCall
  <2> QED BY <1>6, <2>4, <2>1, <2>2, <2>3 DEF GetDelete, TypeOK, redis, request, history
<1>7. CASE DeleteOffer(r)
  <2>1. pc' \in [Requests -> Labels] /\ \A q \in Requests : AtCall(q)'
    BY <1>7 DEF DeleteOffer, Goto, request, TypeOK, AtCall, Labels, Answers, Kinds
  <2>2. "offer" \in Keys
    BY <1>7 DEF DeleteOffer, TypeOK, AtCall, Keys
  <2>3. val' \in [Keys -> Requests \cup {Nothing}] /\ exp' \in [Keys -> Nat \cup {Never}]
    BY <1>7, <2>2, RedisTypes DEF DeleteOffer, TypeOK
  <2>4. missed' \subseteq Requests
    BY <1>7, <2>2, RedisTypes DEF DeleteOffer, TypeOK
  <2> QED BY <1>7, <2>1, <2>2, <2>3, <2>4 DEF DeleteOffer, TypeOK, redis, request, history
<1>8. CASE DeleteAnswer(r)
  <2>1. pc' \in [Requests -> Labels] /\ \A q \in Requests : AtCall(q)'
    BY <1>8 DEF DeleteAnswer, Goto, request, TypeOK, AtCall, Labels, Answers, Kinds
  <2>2. "answer" \in Keys
    BY <1>8 DEF DeleteAnswer, TypeOK, AtCall, Keys
  <2>3. val' \in [Keys -> Requests \cup {Nothing}] /\ exp' \in [Keys -> Nat \cup {Never}]
    BY <1>8, <2>2, RedisTypes DEF DeleteAnswer, TypeOK
  <2>4. missed' \subseteq Requests
    BY <1>8, <2>2, RedisTypes DEF DeleteAnswer, TypeOK
  <2> QED BY <1>8, <2>1, <2>2, <2>3, <2>4 DEF DeleteAnswer, TypeOK, redis, request, history
<1>9. CASE NewCode(r)
  <2>1. pc' \in [Requests -> Labels] /\ \A q \in Requests : AtCall(q)'
    BY <1>9 DEF NewCode, Goto, request, TypeOK, AtCall, Labels, Answers, Kinds
  <2>2. key' \in [Requests -> Slots \cup Codes \cup {Nothing}]
    BY <1>9 DEF NewCode, TypeOK
  <2> QED BY <1>9, <2>2, <2>1 DEF NewCode, TypeOK, redis, request, history
<1>10. CASE SetCode(r)
  <2>1. pc' \in [Requests -> Labels] /\ \A q \in Requests : AtCall(q)'
    BY <1>10 DEF SetCode, Goto, request, TypeOK, AtCall, Labels, Answers, Kinds
  <2>2. key[r] \in Keys
    BY <1>10 DEF SetCode, TypeOK, AtCall, Keys
  <2>3. val' \in [Keys -> Requests \cup {Nothing}] /\ exp' \in [Keys -> Nat \cup {Never}]
    BY <1>10, <2>2, RedisTypes DEF SetCode, TypeOK
  <2> QED BY <1>10, <2>1, <2>2, <2>3 DEF SetCode, TypeOK, redis, request, history
<1>11. CASE ExpireCode(r)
  <2>1. pc' \in [Requests -> Labels] /\ \A q \in Requests : AtCall(q)'
    BY <1>11 DEF ExpireCode, Goto, request, TypeOK, AtCall, Labels, Answers, Kinds
  <2>2. key[r] \in Keys
    BY <1>11 DEF ExpireCode, TypeOK, AtCall, Keys
  <2>3. val' \in [Keys -> Requests \cup {Nothing}] /\ exp' \in [Keys -> Nat \cup {Never}]
    BY <1>11, <2>2, RedisTypes DEF ExpireCode, TypeOK
  <2> QED BY <1>11, <2>1, <2>2, <2>3 DEF ExpireCode, TypeOK, redis, request, history
<1>12. CASE Lookup(r)
  <2>1. pc' \in [Requests -> Labels] /\ \A q \in Requests : AtCall(q)'
    BY <1>12 DEF Lookup, Get, Goto, request, TypeOK, AtCall, Labels, Answers, Kinds
  <2>2. key[r] \in Keys
    BY <1>12 DEF Lookup, TypeOK, AtCall, Keys
  <2>3. got' \in [Requests -> Requests \cup {Nothing}]
    BY <1>12, <2>2 DEF Lookup, TypeOK, Get
  <2> QED BY <1>12, <2>1, <2>3 DEF Lookup, TypeOK, redis, request, history
<1>13. CASE Fail(r)
  <2>1. pc' \in [Requests -> Labels] /\ \A q \in Requests : AtCall(q)'
    BY <1>13 DEF Fail, Goto, request, TypeOK, AtCall, Labels, Answers, Kinds
  <2> QED BY <1>13, <2>1 DEF Fail, TypeOK, redis, request, history
<1> QED BY <1>1, <1>2, <1>3, <1>4, <1>5, <1>6, <1>7, <1>8, <1>9, <1>10, <1>11, <1>12, <1>13

LEMMA ArriveTypes ==
  ASSUME TypeOK, NEW r \in Requests, Arrive(r) \/ ArriveLookup(r) \/ ArriveAgain(r)
  PROVE  TypeOK'
<1> USE KeysAssumption, TimesAssumption
<1>1. CASE Arrive(r)
  <2>1. PICK k \in {"put", "get"} \X Slots \cup {"delete", "invite"} \X {Nothing} :
          /\ kind' = [kind EXCEPT ![r] = k[1]]
          /\ key' = [key EXCEPT ![r] = k[2]]
    BY <1>1 DEF Arrive
  <2>2. PICK t \in {now - Window, now + Window} : NonceGet(r, r, t)
    BY <1>1 DEF Arrive
  <2>3. t \in Int
    BY DEF TypeOK
  <2>4. /\ k[1] \in Kinds \ {"none"} /\ k[2] \in Slots \cup Codes \cup {Nothing}
        /\ (k[1] \in {"put", "get"} => k[2] \in Slots) /\ k[1] # "lookup"
    BY DEF Kinds
  <2> QED BY <2>1, <2>2, <2>3, <2>4, NonceGetTypes
<1>2. CASE ArriveLookup(r)
  <2>1. PICK q \in Requests : kind[q] = "invite" /\ pc[q] = "ok"
                              /\ key' = [key EXCEPT ![r] = key[q]]
    BY <1>2 DEF ArriveLookup
  <2>2. kind' = [kind EXCEPT ![r] = "lookup"] /\ NonceGet(r, r, now)
    BY <1>2 DEF ArriveLookup
  <2>3. key[q] \in Codes /\ "lookup" \in Kinds \ {"none"} /\ now \in Int
    BY <2>1 DEF TypeOK, AtCall, Kinds
  <2> QED BY <2>1, <2>2, <2>3, NonceGetTypes
<1>3. CASE ArriveAgain(r)
  <2>1. PICK q \in Requests \ {r} :
          /\ kind[q] \in {"put", "get"} /\ nonce[q] = q
          /\ kind' = [kind EXCEPT ![r] = kind[q]]
          /\ key' = [key EXCEPT ![r] = key[q]]
          /\ NonceGet(r, q, signed[q])
    BY <1>3 DEF ArriveAgain
  <2>2. kind[q] \in Kinds \ {"none"} /\ key[q] \in Slots /\ kind[q] # "lookup"
        /\ signed[q] \in Int \cup {Never}
    BY <2>1 DEF TypeOK, AtCall, Kinds
  <2> QED BY <2>1, <2>2, NonceGetTypes
<1> QED BY <1>1, <1>2, <1>3

LEMMA TickTypes == TypeOK /\ Tick => TypeOK'
<1> SUFFICES ASSUME TypeOK, Tick PROVE TypeOK'
  OBVIOUS
<1> DEFINE old == {k \in Keys : exp[k] = now + 1}
<1>1. val' = [k \in Keys |-> IF k \in old THEN Nothing ELSE val[k]]
      /\ exp' = [k \in Keys |-> IF k \in old THEN Never ELSE exp[k]]
      /\ missed' = missed \cup UNION {Held(k) : k \in old}
  BY DEF Tick
<1>2. \A k \in old : Held(k) \subseteq Requests
  BY RedisTypes
<1> HIDE DEF old
<1>3. val' \in [Keys -> Requests \cup {Nothing}] /\ exp' \in [Keys -> Nat \cup {Never}]
  BY <1>1 DEF TypeOK
<1>4. missed' \subseteq Requests
  BY <1>1, <1>2 DEF TypeOK
<1> QED BY <1>3, <1>4 DEF Tick, TypeOK, AtCall, request

\* TypeOK is inductive.
THEOREM TypeCorrect == Spec => []TypeOK
<1>1. TypeOK /\ [Next]_vars => TypeOK'
  <2> SUFFICES ASSUME TypeOK, [Next]_vars PROVE TypeOK'
    OBVIOUS
  <2>1. CASE Tick
    BY <2>1, TickTypes
  <2>2. ASSUME NEW r \in Requests, Step(r) PROVE TypeOK'
    BY <2>2, LaterTypes, ArriveTypes DEF Step
  <2>3. CASE UNCHANGED vars
    BY <2>3 DEF vars, redis, request, history, TypeOK, AtCall
  <2> QED BY <2>1, <2>2, <2>3 DEF Next
<1> QED BY <1>1, Initially, PTL DEF Spec

-----------------------------------------------------------------------------
\* The nonce of a request that was let in counts.
Accepted(r) == pc[r] \notin {"sent", "refused", "error"}

\* Once it is in Redis, it stays there as long as a copy would be in the window.
Remembered(r) ==
  \/ /\ val[nonce[r]] # Nothing
     /\ exp[nonce[r]] # Never => exp[nonce[r]] > signed[r] + Window
  \/ now > signed[r] + Window

ReplayInv ==
  /\ \A r \in Requests : pc[r] = "sent" => nonce[r] = r
  /\ \A r \in Requests :
       pc[r] # "sent" => /\ signed[r] \in Int
                         /\ pc[nonce[r]] # "sent" /\ signed[nonce[r]] = signed[r]
  /\ \A r \in Requests : Accepted(r) => signed[r] <= now + Window
  /\ \A r \in Requests : Accepted(r) /\ pc[r] # "nonceset" => Remembered(r)
  /\ \A q, r \in Requests :
       q # r /\ nonce[q] = nonce[r] /\ Accepted(q) /\ Accepted(r) => nonce[r] \in racing

LEMMA ReplayInitially == Init => ReplayInv
BY DEF Init, ReplayInv, Accepted

\* A request arrives: it is refused if its nonce is remembered.
LEMMA NonceGetKeeps ==
  ASSUME TypeOK, ReplayInv, NEW r \in Requests, NEW n \in Requests, NEW t \in Int,
         NonceGet(r, n, t),
         n # r => pc[n] # "sent" /\ t = signed[n]
  PROVE  ReplayInv'
<1>1. /\ pc[r] = "sent" /\ pc'[r] \in {"nonceset", "refused"}
      /\ nonce'[r] = n /\ signed'[r] = t
      /\ \A q \in Requests \ {r} :
           pc'[q] = pc[q] /\ nonce'[q] = nonce[q] /\ signed'[q] = signed[q]
      /\ racing \subseteq racing'
      /\ UNCHANGED <<now, val, exp>>
  BY DEF NonceGet, Goto, TypeOK, redis
<1>2. \A q \in Requests \ {r} : pc[q] # "sent" => nonce[q] # r
  BY <1>1 DEF ReplayInv
<1>3. \A q \in Requests : pc'[q] = "sent" => nonce'[q] = q
  BY <1>1 DEF ReplayInv
<1>4. ASSUME NEW q \in Requests, pc'[q] # "sent"
      PROVE  signed'[q] \in Int /\ pc'[nonce'[q]] # "sent" /\ signed'[nonce'[q]] = signed'[q]
  <2>1. CASE q = r
    BY <1>1, <2>1
  <2>2. CASE q # r
    <3>1. nonce[q] \in Requests \ {r}
      BY <1>1, <1>2, <1>4, <2>2 DEF TypeOK
    <3> QED BY <1>1, <1>4, <2>2, <3>1 DEF ReplayInv
  <2> QED BY <2>1, <2>2
<1>5. ASSUME NEW q \in Requests, Accepted(q)'
      PROVE  signed'[q] <= now' + Window /\ (pc'[q] # "nonceset" => Remembered(q)')
  <2>1. CASE q = r
    <3>1. InWindow(t) /\ pc'[r] = "nonceset"
      BY <1>1, <1>5, <2>1 DEF NonceGet, Accepted, Goto, TypeOK
    <3> QED BY <1>1, <2>1, <3>1 DEF InWindow
  <2>2. CASE q # r
    BY <1>1, <1>5, <2>2 DEF ReplayInv, Accepted, Remembered
  <2> QED BY <2>1, <2>2
<1>6. ASSUME NEW q \in Requests \ {r}, nonce[q] = n, Accepted(q), Accepted(r)'
      PROVE  n \in racing'
  <2>1. InWindow(t) /\ IsNew(n) /\ racing' = (IF Overlap(n) THEN racing \cup {n} ELSE racing)
    BY <1>1, <1>6 DEF NonceGet, Accepted, Goto, TypeOK
  <2>2. pc[q] # "sent" /\ n # r
    BY <1>2, <1>6 DEF Accepted
  <2>3. signed[q] = t /\ t \in Int /\ now \in Int /\ Window \in Int
    BY <1>6, <2>2, TimesAssumption DEF ReplayInv, TypeOK
  <2>4. ~Remembered(q)
    BY <1>6, <2>1, <2>3 DEF Remembered, IsNew, InWindow, Get
  <2>5. pc[q] = "nonceset"
    BY <1>6, <2>4 DEF ReplayInv
  <2>6. Overlap(n)
    BY <1>6, <2>5 DEF Overlap
  <2> QED BY <2>1, <2>6
<1>7. ASSUME NEW q \in Requests, NEW p \in Requests, q # p, nonce'[q] = nonce'[p],
             Accepted(q)', Accepted(p)'
      PROVE  nonce'[p] \in racing'
  <2>1. CASE q # r /\ p # r
    BY <1>1, <1>7, <2>1 DEF ReplayInv, Accepted
  <2>2. CASE p = r
    BY <1>1, <1>6, <1>7, <2>2 DEF Accepted
  <2>3. CASE q = r
    BY <1>1, <1>6, <1>7, <2>3 DEF Accepted
  <2> QED BY <2>1, <2>2, <2>3
<1> QED BY <1>3, <1>4, <1>5, <1>7 DEF ReplayInv

\* The calls after the first: what is remembered stays if the nonces in Redis do,
\* and the request does not begin again.
LEMMA LaterKeeps ==
  ASSUME TypeOK, ReplayInv, NEW r \in Requests, pc[r] # "sent", pc'[r] # "sent",
         pc' = [pc EXCEPT ![r] = pc'[r]],
         Accepted(r)' => Accepted(r),
         UNCHANGED <<now, nonce, signed, racing>>,
         \A q \in Requests : Accepted(q)' /\ pc'[q] # "nonceset" => Remembered(q)'
  PROVE  ReplayInv'
<1>1. \A q \in Requests \ {r} : pc'[q] = pc[q]
  BY DEF TypeOK
<1>2. \A q \in Requests : nonce[q] \in Requests
  BY DEF TypeOK
<1>3. \A q \in Requests : Accepted(q)' => Accepted(q)
  BY <1>1 DEF Accepted
<1>4. \A q \in Requests : pc'[q] = "sent" <=> pc[q] = "sent"
  BY <1>1
<1> QED BY <1>2, <1>3, <1>4 DEF ReplayInv

\* Values that are not nonces may change.
LEMMA OthersKeep ==
  ASSUME TypeOK, ReplayInv, NEW r \in Requests, pc[r] \notin {"sent", "nonceset"},
         pc'[r] \notin {"sent", "nonceset"}, pc' = [pc EXCEPT ![r] = pc'[r]],
         Accepted(r)' => Accepted(r),
         UNCHANGED <<now, nonce, signed, racing>>,
         \A n \in Requests : val'[n] = val[n] /\ exp'[n] = exp[n]
  PROVE  ReplayInv'
<1>1. ASSUME NEW q \in Requests, Accepted(q)', pc'[q] # "nonceset" PROVE Remembered(q)'
  <2>1. Accepted(q) /\ pc[q] # "nonceset"
    BY <1>1 DEF Accepted, TypeOK
  <2>2. nonce[q] \in Requests
    BY DEF TypeOK
  <2> QED BY <2>1, <2>2 DEF ReplayInv, Remembered
<1> QED BY <1>1, LaterKeeps

LEMMA NonceSetKeeps ==
  ASSUME TypeOK, ReplayInv, NEW r \in Requests, NonceSet(r)
  PROVE  ReplayInv'
<1>1. /\ pc[r] = "nonceset" /\ pc' = [pc EXCEPT ![r] = "nonceexpire"]
      /\ UNCHANGED <<now, nonce, signed, racing>>
      /\ pc'[r] = "nonceexpire" /\ Accepted(r)
  BY DEF NonceSet, Goto, request, history, Accepted, TypeOK
<1>2. nonce[r] \in Keys /\ \A q \in Requests : nonce[q] \in Keys
  BY DEF TypeOK, Keys
<1>3. /\ val'[nonce[r]] = r /\ exp'[nonce[r]] = Never /\ r # Nothing
      /\ \A k \in Keys \ {nonce[r]} : val'[k] = val[k] /\ exp'[k] = exp[k]
  BY <1>2, KeysAssumption DEF NonceSet, Set, TypeOK, Keys
<1>4. ASSUME NEW q \in Requests, Accepted(q)', pc'[q] # "nonceset" PROVE Remembered(q)'
  <2>1. CASE nonce[q] = nonce[r]
    BY <1>1, <1>3, <2>1 DEF Remembered
  <2>2. CASE nonce[q] # nonce[r]
    <3>1. q # r /\ Accepted(q) /\ pc[q] # "nonceset"
      BY <1>1, <1>4, <2>2 DEF Accepted, TypeOK
    <3> QED BY <1>1, <1>2, <1>3, <2>2, <3>1 DEF ReplayInv, Remembered
  <2> QED BY <2>1, <2>2
<1> QED BY <1>1, <1>4, LaterKeeps

\* The nonce lives longer than both halves of the window.
LEMMA NonceExpireKeeps ==
  ASSUME TypeOK, ReplayInv, NEW r \in Requests, NonceExpire(r)
  PROVE  ReplayInv'
<1>1. /\ pc[r] = "nonceexpire" /\ pc' = [pc EXCEPT ![r] = pc'[r]]
      /\ pc'[r] = kind[r] /\ pc'[r] \notin {"sent", "nonceset"}
      /\ UNCHANGED <<now, nonce, signed, racing, val>>
      /\ Accepted(r)
  BY DEF NonceExpire, Expire, Goto, request, history, Accepted, TypeOK, Kinds
<1>2. \A q \in Requests : nonce[q] \in Keys
  BY DEF TypeOK, Keys
<1>3. /\ exp'[nonce[r]] \in {now + NonceTTL, exp[nonce[r]]}
      /\ \A k \in Keys \ {nonce[r]} : exp'[k] = exp[k]
  BY <1>2 DEF NonceExpire, Expire, TypeOK
<1>4. ASSUME NEW q \in Requests, Accepted(q)', pc'[q] # "nonceset" PROVE Remembered(q)'
  <2>1. Accepted(q) /\ pc[q] # "nonceset"
    BY <1>1, <1>4 DEF Accepted, TypeOK
  <2>2. Remembered(q) /\ signed[q] <= now + Window /\ signed[q] \in Int
    BY <2>1 DEF ReplayInv, Accepted
  <2>3. now + NonceTTL > signed[q] + Window
    BY <2>2, TimesAssumption DEF TypeOK
  <2>4. exp'[nonce[q]] \in {now + NonceTTL, exp[nonce[q]]}
    BY <1>2, <1>3
  <2> QED BY <1>1, <2>2, <2>3, <2>4 DEF Remembered
<1> QED BY <1>1, <1>4, LaterKeeps

\* The other calls: their keys are no nonces.
LEMMA CallsKeep ==
  ASSUME TypeOK, ReplayInv, NEW r \in Requests,
         PutSet(r) \/ PutExpire(r) \/ GetValue(r) \/ GetDelete(r) \/ DeleteOffer(r)
           \/ DeleteAnswer(r) \/ NewCode(r) \/ SetCode(r) \/ ExpireCode(r) \/ Lookup(r)
  PROVE  ReplayInv'
<1>1. /\ pc[r] \in {"put", "expire", "get", "taken", "delete", "deleteanswer", "invite",
                     "setcode", "expirecode", "lookup"}
      /\ pc'[r] \in Labels \ {"sent", "nonceset"}
      /\ pc' = [pc EXCEPT ![r] = pc'[r]]
      /\ UNCHANGED <<now, nonce, signed, racing>>
  BY DEF PutSet, PutExpire, GetValue, GetDelete, DeleteOffer, DeleteAnswer, NewCode,
         SetCode, ExpireCode, Lookup, Goto, request, history, TypeOK, Labels, Answers
<1>2. pc[r] \in {"put", "expire", "get", "taken", "setcode", "expirecode", "lookup"}
        /\ ~NewCode(r) /\ ~DeleteOffer(r) /\ ~DeleteAnswer(r)
      => key[r] \in Slots \cup Codes
  BY DEF TypeOK, AtCall
<1>3. \A k \in Slots \cup Codes : k \in Keys /\ k \notin Requests
  BY KeysAssumption DEF Keys
<1>4. ASSUME NEW n \in Requests PROVE val'[n] = val[n] /\ exp'[n] = exp[n]
  <2>1. ASSUME NEW k \in Slots \cup Codes,
               Set(k, r) \/ Delete(k) \/ Expire(k, SlotTTL) \/ Expire(k, CodeTTL)
                 \/ UNCHANGED redis
        PROVE  val'[n] = val[n] /\ exp'[n] = exp[n]
    <3>1. k # n /\ k \in Keys /\ n \in Keys
      BY <1>3 DEF Keys
    <3>2. CASE Set(k, r)
      BY <3>1, <3>2 DEF Set, TypeOK
    <3>3. CASE Delete(k)
      BY <3>1, <3>3 DEF Delete, TypeOK
    <3>4. CASE Expire(k, SlotTTL)
      BY <3>1, <3>4 DEF Expire, TypeOK
    <3>5. CASE Expire(k, CodeTTL)
      BY <3>1, <3>5 DEF Expire, TypeOK
    <3>6. CASE UNCHANGED redis
      BY <3>6 DEF redis
    <3> QED BY <2>1, <3>2, <3>3, <3>4, <3>5, <3>6
  <2>2. CASE DeleteOffer(r) \/ DeleteAnswer(r)
    BY <2>1, <2>2, KeysAssumption DEF DeleteOffer, DeleteAnswer
  <2>3. CASE NewCode(r)
    BY <2>3 DEF NewCode, redis
  <2>4. CASE ~NewCode(r) /\ ~DeleteOffer(r) /\ ~DeleteAnswer(r)
    <3>1. key[r] \in Slots \cup Codes
      BY <1>1, <1>2, <2>4 DEF PutSet, PutExpire, GetValue, GetDelete, SetCode, ExpireCode,
         Lookup
    <3> QED BY <2>1, <2>4, <3>1 DEF PutSet, PutExpire, GetValue, GetDelete, TakeOut,
         SetCode, ExpireCode, Lookup
  <2> QED BY <2>2, <2>3, <2>4
<1> QED BY <1>1, <1>4, OthersKeep DEF Accepted

LEMMA FailKeeps ==
  ASSUME TypeOK, ReplayInv, NEW r \in Requests, Fail(r)
  PROVE  ReplayInv'
<1>1. /\ pc[r] # "sent" /\ pc'[r] = "error" /\ pc' = [pc EXCEPT ![r] = pc'[r]]
      /\ UNCHANGED <<now, nonce, signed, racing, val, exp>>
  BY DEF Fail, Goto, request, history, redis, TypeOK
<1>2. ASSUME NEW q \in Requests, Accepted(q)', pc'[q] # "nonceset" PROVE Remembered(q)'
  BY <1>1, <1>2 DEF Accepted, Remembered, ReplayInv, TypeOK
<1> QED BY <1>1, <1>2, LaterKeeps DEF Accepted

\* A nonce is dropped when no copy is in the window any more.
LEMMA TickKeeps ==
  ASSUME TypeOK, ReplayInv, Tick
  PROVE  ReplayInv'
<1>1. now' = now + 1 /\ now \in Int /\ Window \in Int
      /\ UNCHANGED <<pc, nonce, signed, racing>>
  BY TimesAssumption DEF Tick, request, TypeOK
<1>2. ASSUME NEW q \in Requests, Accepted(q), pc[q] # "nonceset" PROVE Remembered(q)'
  <2>1. Remembered(q) /\ signed[q] \in Int
    BY <1>2 DEF ReplayInv, Accepted
  <2>2. nonce[q] \in Keys
    BY DEF TypeOK, Keys
  <2>3. exp[nonce[q]] # now + 1 =>
          val'[nonce[q]] = val[nonce[q]] /\ exp'[nonce[q]] = exp[nonce[q]]
    BY <2>2 DEF Tick
  <2>4. CASE exp[nonce[q]] = now + 1
    BY <1>1, <2>1, <2>4, TimesAssumption DEF Remembered
  <2>5. CASE exp[nonce[q]] # now + 1
    BY <1>1, <2>1, <2>3, <2>5 DEF Remembered
  <2> QED BY <2>4, <2>5
<1>3. \A q \in Requests : Accepted(q) => signed[q] \in Int
  BY DEF ReplayInv, Accepted
<1> QED BY <1>1, <1>2, <1>3 DEF ReplayInv, Accepted

\* Two requests with one nonce are let in only if their checks overlapped: for
\* any number of copies, and clocks that are off by as much as the window allows.
THEOREM ReplaysRefused == Spec => []ReplayRefused
<1>1. TypeOK /\ ReplayInv /\ [Next]_vars => ReplayInv'
  <2> SUFFICES ASSUME TypeOK, ReplayInv, [Next]_vars PROVE ReplayInv'
    OBVIOUS
  <2>1. CASE Tick
    BY <2>1, TickKeeps
  <2>2. ASSUME NEW r \in Requests, Arrive(r) PROVE ReplayInv'
    <3>1. PICK t \in {now - Window, now + Window} : NonceGet(r, r, t)
      BY <2>2 DEF Arrive
    <3>2. t \in Int
      BY TimesAssumption DEF TypeOK
    <3> QED BY <3>1, <3>2, NonceGetKeeps
  <2>3. ASSUME NEW r \in Requests, ArriveLookup(r) PROVE ReplayInv'
    <3>1. NonceGet(r, r, now) /\ now \in Int
      BY <2>3 DEF ArriveLookup, TypeOK
    <3> QED BY <3>1, NonceGetKeeps
  <2>4. ASSUME NEW r \in Requests, ArriveAgain(r) PROVE ReplayInv'
    <3>1. PICK q \in Requests \ {r} : /\ kind[q] \in {"put", "get"}
                                     /\ NonceGet(r, q, signed[q])
      BY <2>4 DEF ArriveAgain
    <3>2. pc[q] # "sent" /\ signed[q] \in Int
      BY <3>1 DEF TypeOK, AtCall, ReplayInv
    <3> DEFINE t == signed[q]
    <3>3. t \in Int /\ NonceGet(r, q, t) /\ q # r /\ t = signed[q] /\ q \in Requests
      BY <3>1, <3>2
    <3> HIDE DEF t
    <3> QED BY <3>2, <3>3, NonceGetKeeps
  <2>5. ASSUME NEW r \in Requests, Step(r) PROVE ReplayInv'
    BY <2>2, <2>3, <2>4, <2>5, NonceSetKeeps, NonceExpireKeeps, CallsKeep, FailKeeps
       DEF Step
  <2>6. CASE UNCHANGED vars
    BY <2>6 DEF vars, redis, request, history, ReplayInv, Accepted, Remembered
  <2> QED BY <2>1, <2>5, <2>6 DEF Next
<1>2. ReplayInv => ReplayRefused
  BY DEF ReplayInv, ReplayRefused, Authorized, Accepted
<1> QED BY <1>1, <1>2, ReplayInitially, TypeCorrect, PTL DEF Spec

-----------------------------------------------------------------------------
(* Keys expire *)

\* The handler that has written k will still give it an expiry, or has failed.
Owes(r, k) ==
  \/ pc[r] \in {"expire", "expirecode"} /\ k = key[r]
  \/ pc[r] = "nonceexpire" /\ k = nonce[r]
  \/ pc[r] = "error" /\ k \in {key[r], nonce[r]}

Owed(k) == val[k] # Nothing /\ exp[k] = Never => \E r \in Requests : Owes(r, k)

OwedInv == \A k \in Keys : Owed(k)

\* A call of r: what others owe they still owe.
LEMMA OwedKeeps ==
  ASSUME TypeOK, OwedInv, NEW r \in Requests,
         \A q \in Requests \ {r} : pc'[q] = pc[q] /\ key'[q] = key[q] /\ nonce'[q] = nonce[q],
         \A k \in Keys : val'[k] # Nothing /\ exp'[k] = Never =>
           \/ Owes(r, k)'
           \/ val[k] # Nothing /\ exp[k] = Never /\ ~Owes(r, k)
  PROVE  OwedInv'
<1> SUFFICES ASSUME NEW k \in Keys, val'[k] # Nothing, exp'[k] = Never
             PROVE  \E q \in Requests : Owes(q, k)'
  BY DEF OwedInv, Owed
<1>1. CASE Owes(r, k)'
  BY <1>1
<1>2. CASE val[k] # Nothing /\ exp[k] = Never /\ ~Owes(r, k)
  <2>1. PICK q \in Requests : Owes(q, k)
    BY <1>2 DEF OwedInv, Owed
  <2>2. q # r
    BY <1>2, <2>1
  <2>3. Owes(q, k)'
    BY <2>1, <2>2 DEF Owes
  <2> QED BY <2>3
<1> QED BY <1>1, <1>2

\* A request that arrives owes nothing, and changes nothing in Redis.
LEMMA ArriveOwes ==
  ASSUME TypeOK, OwedInv, NEW r \in Requests, Arrive(r) \/ ArriveLookup(r) \/ ArriveAgain(r)
  PROVE  OwedInv'
<1>1. \E n \in Requests : \E t : NonceGet(r, n, t)
  BY DEF Arrive, ArriveLookup, ArriveAgain
<1>2. pc[r] = "sent" /\ UNCHANGED redis
      /\ \A q \in Requests \ {r} : pc'[q] = pc[q] /\ nonce'[q] = nonce[q]
  BY <1>1 DEF NonceGet, Goto, TypeOK
<1>3. \A q \in Requests \ {r} : key'[q] = key[q]
  <2>1. \E w : key' = [key EXCEPT ![r] = w]
    BY DEF Arrive, ArriveLookup, ArriveAgain
  <2> QED BY <2>1 DEF TypeOK
<1>4. \A k \in Keys : ~Owes(r, k)
  BY <1>2 DEF Owes
<1>5. \A k \in Keys : val'[k] # Nothing /\ exp'[k] = Never
                      => val[k] # Nothing /\ exp[k] = Never /\ ~Owes(r, k)
  BY <1>2, <1>4 DEF redis
<1> QED BY <1>2, <1>3, <1>5, OwedKeeps

\* What is set is owed, and paid by the next call.
LEMMA CallsOwe ==
  ASSUME TypeOK, OwedInv, NEW r \in Requests,
         NonceSet(r) \/ NonceExpire(r) \/ PutSet(r) \/ PutExpire(r) \/ GetValue(r)
           \/ GetDelete(r) \/ DeleteOffer(r) \/ DeleteAnswer(r) \/ NewCode(r)
           \/ SetCode(r) \/ ExpireCode(r) \/ Lookup(r) \/ Fail(r)
  PROVE  OwedInv'
<1>1. \A q \in Requests \ {r} : pc'[q] = pc[q] /\ key'[q] = key[q] /\ nonce'[q] = nonce[q]
  BY DEF NonceSet, NonceExpire, PutSet, PutExpire, GetValue, GetDelete, DeleteOffer,
         DeleteAnswer, NewCode, SetCode, ExpireCode, Lookup, Fail, Goto, request, TypeOK
<1>2. ASSUME NEW w \in Keys, NEW v, Set(w, v), Owes(r, w)',
             pc[r] \notin {"expire", "expirecode", "nonceexpire", "error"}
      PROVE  \A k \in Keys : val'[k] # Nothing /\ exp'[k] = Never =>
               Owes(r, k)' \/ (val[k] # Nothing /\ exp[k] = Never /\ ~Owes(r, k))
  BY <1>2 DEF Set, Owes, TypeOK
<1>3. ASSUME NEW w \in Keys, NEW ttl \in Nat, Expire(w, ttl), \A k \in Keys : Owes(r, k) => k = w
      PROVE  \A k \in Keys : val'[k] # Nothing /\ exp'[k] = Never =>
               Owes(r, k)' \/ (val[k] # Nothing /\ exp[k] = Never /\ ~Owes(r, k))
  <2>1. now + ttl # Never
    BY TimesAssumption DEF TypeOK
  <2>2. /\ val' = val
        /\ \A k \in Keys :
             exp'[k] = IF k = w /\ val[w] # Nothing THEN now + ttl ELSE exp[k]
    BY <1>3 DEF Expire, TypeOK
  <2> QED BY <1>3, <2>1, <2>2
<1>4. ASSUME NEW w \in Keys, Delete(w) \/ UNCHANGED redis,
             pc[r] \notin {"expire", "expirecode", "nonceexpire", "error"}
      PROVE  \A k \in Keys : val'[k] # Nothing /\ exp'[k] = Never =>
               Owes(r, k)' \/ (val[k] # Nothing /\ exp[k] = Never /\ ~Owes(r, k))
  BY <1>4 DEF Delete, redis, Owes, TypeOK
<1>5. key[r] \in Slots \cup Codes => key[r] \in Keys
  BY DEF Keys
<1>6. CASE NonceSet(r)
  <2>1. nonce[r] \in Keys
    BY DEF Keys, TypeOK
  <2>2. pc[r] = "nonceset" /\ Set(nonce[r], r) /\ pc'[r] = "nonceexpire" /\ nonce'[r] = nonce[r]
    BY <1>6 DEF NonceSet, Goto, request, TypeOK
  <2>3. Owes(r, nonce[r])'
    BY <2>2 DEF Owes
  <2> QED BY <1>1, <1>2, <2>1, <2>2, <2>3, OwedKeeps
<1>7. CASE NonceExpire(r)
  <2>1. nonce[r] \in Keys
    BY DEF Keys, TypeOK
  <2>2. pc[r] = "nonceexpire" /\ Expire(nonce[r], NonceTTL)
    BY <1>7 DEF NonceExpire
  <2> QED BY <1>1, <1>3, <2>1, <2>2, OwedKeeps, TimesAssumption DEF Owes
<1>8. CASE PutSet(r)
  <2>1. key[r] \in Keys
    BY <1>5, <1>8 DEF PutSet, TypeOK, AtCall
  <2>2. pc[r] = "put" /\ Set(key[r], r) /\ pc'[r] = "expire" /\ key'[r] = key[r]
    BY <1>8 DEF PutSet, Goto, request, TypeOK
  <2>3. Owes(r, key[r])'
    BY <2>2 DEF Owes
  <2> QED BY <1>1, <1>2, <2>1, <2>2, <2>3, OwedKeeps
<1>9. CASE PutExpire(r)
  <2>1. key[r] \in Keys
    BY <1>5, <1>9 DEF PutExpire, TypeOK, AtCall
  <2>2. pc[r] = "expire" /\ Expire(key[r], SlotTTL)
    BY <1>9 DEF PutExpire
  <2> QED BY <1>1, <1>3, <2>1, <2>2, OwedKeeps, TimesAssumption DEF Owes
<1>10. CASE GetDelete(r)
  <2>1. key[r] \in Keys
    BY <1>5, <1>10 DEF GetDelete, TypeOK, AtCall
  <2>2. pc[r] = "taken" /\ Delete(key[r])
    BY <1>10 DEF GetDelete, TakeOut
  <2> QED BY <1>1, <1>4, <2>1, <2>2, OwedKeeps
<1>11. CASE DeleteOffer(r)
  <2>1. "offer" \in Keys /\ pc[r] = "delete" /\ Delete("offer")
    BY <1>11, KeysAssumption DEF DeleteOffer, Keys
  <2> QED BY <1>1, <1>4, <2>1, OwedKeeps
<1>12. CASE DeleteAnswer(r)
  <2>1. "answer" \in Keys /\ pc[r] = "deleteanswer" /\ Delete("answer")
    BY <1>12, KeysAssumption DEF DeleteAnswer, Keys
  <2> QED BY <1>1, <1>4, <2>1, OwedKeeps
<1>13. CASE SetCode(r)
  <2>1. key[r] \in Keys
    BY <1>5, <1>13 DEF SetCode, TypeOK, AtCall
  <2>2. pc[r] = "setcode" /\ Set(key[r], r) /\ pc'[r] = "expirecode" /\ key'[r] = key[r]
    BY <1>13 DEF SetCode, Goto, request, TypeOK
  <2>3. Owes(r, key[r])'
    BY <2>2 DEF Owes
  <2> QED BY <1>1, <1>2, <2>1, <2>2, <2>3, OwedKeeps
<1>14. CASE ExpireCode(r)
  <2>1. key[r] \in Keys
    BY <1>5, <1>14 DEF ExpireCode, TypeOK, AtCall
  <2>2. pc[r] = "expirecode" /\ Expire(key[r], CodeTTL)
    BY <1>14 DEF ExpireCode
  <2> QED BY <1>1, <1>3, <2>1, <2>2, OwedKeeps, TimesAssumption DEF Owes
<1>15. CASE GetValue(r) \/ NewCode(r) \/ Lookup(r)
  <2>1. pc[r] \in {"get", "invite", "lookup"} /\ UNCHANGED redis /\ nonce[r] \in Keys
    BY <1>15 DEF GetValue, NewCode, Lookup, TypeOK, Keys
  <2> QED BY <1>1, <1>4, <2>1, OwedKeeps
<1>16. CASE Fail(r)
  <2>1. UNCHANGED redis /\ pc'[r] = "error" /\ key'[r] = key[r] /\ nonce'[r] = nonce[r]
    BY <1>16 DEF Fail, Goto, request, TypeOK
  <2>2. \A k \in Keys : Owes(r, k) => Owes(r, k)'
    BY <2>1 DEF Owes
  <2> QED BY <1>1, <2>1, <2>2, OwedKeeps DEF redis
<1> QED BY <1>6, <1>7, <1>8, <1>9, <1>10, <1>11, <1>12, <1>13, <1>14, <1>15, <1>16

\* A key without an expiry has a handler that will give it one, or a failed one
\* that left it: for any number of handlers.
THEOREM KeysGetExpiry == Spec => []KeysExpire
<1>1. Init => OwedInv
  BY DEF Init, OwedInv, Owed
<1>2. TypeOK /\ OwedInv /\ [Next]_vars => OwedInv'
  <2> SUFFICES ASSUME TypeOK, OwedInv, [Next]_vars PROVE OwedInv'
    OBVIOUS
  <2>1. CASE Tick
    <3>1. UNCHANGED <<pc, key, nonce>>
      BY <2>1 DEF Tick, request
    <3>2. \A k \in Keys : val'[k] # Nothing /\ exp'[k] = Never => val[k] # Nothing /\ exp[k] = Never
      BY <2>1 DEF Tick
    <3>3. \A r \in Requests, k \in Keys : Owes(r, k) => Owes(r, k)'
      BY <3>1 DEF Owes
    <3> QED BY <3>2, <3>3 DEF OwedInv, Owed
  <2>2. ASSUME NEW r \in Requests, Step(r) PROVE OwedInv'
    BY <2>2, ArriveOwes, CallsOwe DEF Step
  <2>3. CASE UNCHANGED vars
    BY <2>3 DEF vars, redis, request, OwedInv, Owed, Owes
  <2> QED BY <2>1, <2>2, <2>3 DEF Next
<1>3. OwedInv => KeysExpire
  BY DEF OwedInv, Owed, Owes, KeysExpire
<1> QED BY <1>1, <1>2, <1>3, TypeCorrect, PTL DEF Spec

-----------------------------------------------------------------------------
(* Values stay until they are read *)

\* A value that is not where it was put is accounted for.
Kept(r) ==
  kind[r] = "put" /\ pc[r] \in {"expire", "ok"} => val[key[r]] = r \/ r \in served \cup missed

\* What a GET is about to delete is what it will answer, or is counted as missed.
TakesOwn(r) == pc[r] = "taken" => val[key[r]] \in {Nothing, got[r]} \cup missed

\* An invite gets its code once.
NoCodeYet(r) ==
  kind[r] = "invite" /\ pc[r] \in {"nonceset", "nonceexpire", "invite"} => key[r] = Nothing

Findable(r) ==
  kind[r] = "invite" /\ pc[r] \in {"expirecode", "ok"} =>
    \/ val[key[r]] = r \/ r \in missed
    \/ \E q \in Requests \ {r} : kind[q] = "invite" /\ key[q] = key[r]

Values(r) == Kept(r) /\ TakesOwn(r) /\ NoCodeYet(r) /\ Findable(r)

ValuesInv == \A r \in Requests : Values(r)

\* A call of r changes a value: the old one of a slot is accounted for, a new
\* one too if a GET will delete it, and a code is only overwritten by an invite.
LEMMA ValuesKeep ==
  ASSUME TypeOK, ValuesInv, NEW r \in Requests,
         \A q \in Requests \ {r} :
           pc'[q] = pc[q] /\ kind'[q] = kind[q] /\ key'[q] = key[q] /\ got'[q] = got[q],
         kind[r] = "invite" /\ key[r] \in Codes => kind'[r] = "invite" /\ key'[r] = key[r],
         served \subseteq served', missed \subseteq missed',
         \A k \in Slots : val'[k] # val[k] =>
           /\ val[k] \in {Nothing} \cup served' \cup missed'
           /\ val'[k] # Nothing /\ Taking(k) => val'[k] \in missed',
         \A k \in Codes : val'[k] # val[k] =>
           val[k] \in {Nothing} \cup missed' \/ (kind[r] = "invite" /\ key[r] = k),
         Values(r)'
  PROVE  ValuesInv'
<1> SUFFICES ASSUME NEW q \in Requests \ {r} PROVE Values(q)'
  BY DEF ValuesInv
<1>1. Values(q) /\ AtCall(q) /\ q # Nothing
  BY KeysAssumption DEF ValuesInv, TypeOK, Keys
<1>2. pc'[q] = pc[q] /\ kind'[q] = kind[q] /\ key'[q] = key[q] /\ got'[q] = got[q]
  OBVIOUS
<1>3. Kept(q)'
  <2> SUFFICES ASSUME kind[q] = "put", pc[q] \in {"expire", "ok"}
               PROVE  val'[key[q]] = q \/ q \in served' \cup missed'
    BY <1>2 DEF Kept
  <2>1. key[q] \in Slots /\ (val[key[q]] = q \/ q \in served \cup missed)
    BY <1>1 DEF Values, Kept, AtCall
  <2>2. CASE val'[key[q]] # val[key[q]]
    BY <1>1, <2>1, <2>2
  <2>3. CASE val'[key[q]] = val[key[q]]
    BY <2>1, <2>3
  <2> QED BY <2>2, <2>3
<1>4. TakesOwn(q)'
  <2> SUFFICES ASSUME pc[q] = "taken"
               PROVE  val'[key[q]] \in {Nothing, got[q]} \cup missed'
    BY <1>2 DEF TakesOwn
  <2>1. key[q] \in Slots /\ val[key[q]] \in {Nothing, got[q]} \cup missed /\ Taking(key[q])
    BY <1>1 DEF Values, TakesOwn, AtCall, Taking
  <2>2. CASE val'[key[q]] # val[key[q]]
    BY <2>1, <2>2
  <2>3. CASE val'[key[q]] = val[key[q]]
    BY <2>1, <2>3
  <2> QED BY <2>2, <2>3
<1>5. NoCodeYet(q)'
  BY <1>1, <1>2 DEF Values, NoCodeYet
<1>6. Findable(q)'
  <2> SUFFICES ASSUME kind[q] = "invite", pc[q] \in {"expirecode", "ok"}
               PROVE  \/ val'[key[q]] = q \/ q \in missed'
                      \/ \E p \in Requests \ {q} : kind'[p] = "invite" /\ key'[p] = key[q]
    BY <1>2 DEF Findable
  <2>1. key[q] \in Codes
    BY <1>1 DEF AtCall
  <2>2. \/ val[key[q]] = q \/ q \in missed
        \/ \E p \in Requests \ {q} : kind[p] = "invite" /\ key[p] = key[q]
    BY <1>1 DEF Values, Findable
  <2>3. ASSUME NEW p \in Requests \ {q}, kind[p] = "invite", key[p] = key[q]
        PROVE  kind'[p] = "invite" /\ key'[p] = key[q]
    BY <2>1, <2>3
  <2>4. CASE val[key[q]] = q
    <3>1. CASE val'[key[q]] = val[key[q]]
      BY <2>4, <3>1
    <3>2. CASE val'[key[q]] # val[key[q]]
      <4>1. q \in missed' \/ (kind[r] = "invite" /\ key[r] = key[q])
        BY <1>1, <2>1, <2>4, <3>2
      <4> QED BY <2>3, <4>1
    <3> QED BY <3>1, <3>2
  <2> QED BY <2>2, <2>3, <2>4
<1> QED BY <1>3, <1>4, <1>5, <1>6 DEF Values

\* A request that arrives has put nothing yet.
LEMMA ArriveValues ==
  ASSUME TypeOK, ValuesInv, NEW r \in Requests,
         Arrive(r) \/ ArriveLookup(r) \/ ArriveAgain(r)
  PROVE  ValuesInv'
<1>1. \E n \in Requests : \E t : NonceGet(r, n, t)
  BY DEF Arrive, ArriveLookup, ArriveAgain
<1>2. /\ pc[r] = "sent" /\ pc'[r] \in {"nonceset", "refused"}
      /\ UNCHANGED <<val, got, served, missed>>
      /\ \A q \in Requests \ {r} : pc'[q] = pc[q]
  BY <1>1 DEF NonceGet, Goto, TypeOK, redis
<1>3. \A q \in Requests \ {r} : key'[q] = key[q] /\ kind'[q] = kind[q]
  <2>1. \E w, k : key' = [key EXCEPT ![r] = w] /\ kind' = [kind EXCEPT ![r] = k]
    BY DEF Arrive, ArriveLookup, ArriveAgain
  <2> QED BY <2>1 DEF TypeOK
<1>4. kind[r] # "invite"
  BY <1>2 DEF TypeOK, AtCall
<1>5. kind'[r] = "invite" => key'[r] = Nothing
  BY DEF Arrive, ArriveLookup, ArriveAgain, TypeOK
<1>6. Values(r)'
  BY <1>2, <1>5 DEF Values, Kept, TakesOwn, NoCodeYet, Findable
<1> QED BY <1>2, <1>3, <1>4, <1>6, ValuesKeep

\* The calls about nonces, and those that read.
LEMMA QuietValues ==
  ASSUME TypeOK, ValuesInv, NEW r \in Requests,
         NonceSet(r) \/ NonceExpire(r) \/ PutExpire(r) \/ GetValue(r) \/ ExpireCode(r)
           \/ NewCode(r) \/ Lookup(r) \/ Fail(r)
  PROVE  ValuesInv'
<1>1. /\ \A q \in Requests \ {r} :
           pc'[q] = pc[q] /\ kind'[q] = kind[q] /\ key'[q] = key[q] /\ got'[q] = got[q]
      /\ kind'[r] = kind[r] /\ UNCHANGED <<served, missed>>
  BY DEF NonceSet, NonceExpire, PutExpire, GetValue, ExpireCode, NewCode, Lookup, Fail,
         Goto, request, history, TypeOK
<1>2. \A k \in Slots \cup Codes : val'[k] = val[k]
  <2>1. \A k \in Slots \cup Codes : k \in Keys /\ k \notin Requests
    BY KeysAssumption DEF Keys
  <2>2. CASE NonceSet(r)
    BY <2>1, <2>2 DEF NonceSet, Set, TypeOK
  <2>3. CASE ~NonceSet(r)
    BY <2>3 DEF NonceExpire, PutExpire, GetValue, ExpireCode, NewCode, Lookup, Fail, Expire,
       redis
  <2> QED BY <2>2, <2>3
<1>3. kind[r] = "invite" /\ key[r] \in Codes => key'[r] = key[r]
  <2>1. NewCode(r) => key[r] = Nothing
    BY DEF NewCode, ValuesInv, Values, NoCodeYet, TypeOK, AtCall
  <2>2. Nothing \notin Codes
    BY KeysAssumption DEF Keys
  <2> QED BY <2>1, <2>2 DEF NonceSet, NonceExpire, PutExpire, GetValue, ExpireCode, Lookup,
             Fail, request
<1>4. Values(r)'
  <2>1. Values(r) /\ AtCall(r)
    BY DEF ValuesInv, TypeOK
  <2>2. CASE NonceSet(r)
    BY <1>1, <2>1, <2>2 DEF NonceSet, Goto, request, TypeOK, Values, Kept, TakesOwn,
       NoCodeYet, Findable
  <2>3. CASE NonceExpire(r)
    <3>1. pc[r] = "nonceexpire" /\ pc'[r] = kind[r] /\ key'[r] = key[r]
      BY <2>3 DEF NonceExpire, Goto, request, TypeOK
    <3> QED BY <1>1, <2>1, <3>1 DEF TypeOK, Kinds, Values, Kept, TakesOwn, NoCodeYet, Findable
  <2>4. CASE PutExpire(r)
    <3>1. pc[r] = "expire" /\ pc'[r] = "ok" /\ kind[r] = "put" /\ key'[r] = key[r]
          /\ key[r] \in Slots
      BY <2>1, <2>4 DEF PutExpire, Goto, request, TypeOK, AtCall
    <3> QED BY <1>1, <1>2, <2>1, <3>1 DEF Values, Kept, TakesOwn, NoCodeYet, Findable
  <2>5. CASE GetValue(r)
    <3>1. /\ pc[r] = "get" /\ kind[r] = "get" /\ key'[r] = key[r] /\ got'[r] = val[key[r]]
          /\ key[r] \in Slots
      BY <2>1, <2>5 DEF GetValue, Get, Goto, request, TypeOK, AtCall
    <3> QED BY <1>1, <1>2, <3>1 DEF Values, Kept, TakesOwn, NoCodeYet, Findable
  <2>6. CASE ExpireCode(r)
    <3>1. pc[r] = "expirecode" /\ pc'[r] = "ok" /\ kind[r] = "invite" /\ key' = key
          /\ kind' = kind /\ key[r] \in Codes
      BY <2>1, <2>6 DEF ExpireCode, Goto, request, TypeOK, AtCall
    <3> QED BY <1>1, <1>2, <2>1, <3>1 DEF Values, Kept, TakesOwn, NoCodeYet, Findable
  <2>7. CASE NewCode(r)
    <3>1. pc[r] = "invite" /\ pc'[r] = "setcode" /\ kind[r] = "invite"
      BY <2>1, <2>7 DEF NewCode, Goto, TypeOK, AtCall
    <3> QED BY <1>1, <3>1 DEF Values, Kept, TakesOwn, NoCodeYet, Findable
  <2>8. CASE Lookup(r)
    <3>1. pc'[r] \in {"ok", "notfound"} /\ kind[r] = "lookup"
      BY <2>1, <2>8 DEF Lookup, Goto, TypeOK, AtCall
    <3> QED BY <1>1, <3>1 DEF Values, Kept, TakesOwn, NoCodeYet, Findable
  <2>9. CASE Fail(r)
    <3>1. pc'[r] = "error"
      BY <2>9 DEF Fail, Goto, TypeOK
    <3> QED BY <3>1 DEF Values, Kept, TakesOwn, NoCodeYet, Findable
  <2> QED BY <2>2, <2>3, <2>4, <2>5, <2>6, <2>7, <2>8, <2>9
<1> QED BY <1>1, <1>2, <1>3, <1>4, ValuesKeep
LEMMA PutValues ==
  ASSUME TypeOK, ValuesInv, NEW r \in Requests, PutSet(r)
  PROVE  ValuesInv'
<1>1. /\ \A q \in Requests \ {r} :
           pc'[q] = pc[q] /\ kind'[q] = kind[q] /\ key'[q] = key[q] /\ got'[q] = got[q]
      /\ pc'[r] = "expire" /\ UNCHANGED <<kind, key, served>>
      /\ missed' = missed \cup Held(key[r]) \cup (IF Taking(key[r]) THEN {r} ELSE {})
  BY DEF PutSet, Goto, request, TypeOK
<1>2. kind[r] = "put" /\ key[r] \in Slots
  BY DEF PutSet, TypeOK, AtCall
<1>3. \A k \in Slots \cup Codes : k \in Keys
  BY DEF Keys
<1>4. val'[key[r]] = r /\ \A k \in Keys : k # key[r] => val'[k] = val[k]
  BY <1>2, <1>3 DEF PutSet, Set, TypeOK
<1>5. val[key[r]] \in {Nothing} \cup missed'
  BY <1>1 DEF Held
<1>6. Values(r)'
  BY <1>1, <1>2, <1>4 DEF Values, Kept, TakesOwn, NoCodeYet, Findable
<1>7. \A k \in Slots : val'[k] # val[k] =>
        /\ val[k] \in {Nothing} \cup served' \cup missed'
        /\ val'[k] # Nothing /\ Taking(k) => val'[k] \in missed'
  BY <1>1, <1>3, <1>4, <1>5
<1>8. \A k \in Codes : val'[k] = val[k]
  BY <1>2, <1>3, <1>4, KeysAssumption
<1> QED BY <1>1, <1>2, <1>6, <1>7, <1>8, ValuesKeep

\* The GET answers with what it deletes, if no PUT was in between.
LEMMA TakeValues ==
  ASSUME TypeOK, ValuesInv, NEW r \in Requests, GetDelete(r)
  PROVE  ValuesInv'
<1>1. /\ \A q \in Requests \ {r} :
           pc'[q] = pc[q] /\ kind'[q] = kind[q] /\ key'[q] = key[q] /\ got'[q] = got[q]
      /\ pc'[r] = "ok" /\ UNCHANGED <<kind, key, missed>>
      /\ served' = served \cup {got[r]}
  BY DEF GetDelete, Goto, request, TypeOK
<1>2. kind[r] = "get" /\ key[r] \in Slots /\ val[key[r]] \in {Nothing, got[r]} \cup missed
  BY DEF GetDelete, TypeOK, AtCall, ValuesInv, Values, TakesOwn
<1>3. \A k \in Slots \cup Codes : k \in Keys
  BY DEF Keys
<1>4. val'[key[r]] = Nothing /\ \A k \in Keys : k # key[r] => val'[k] = val[k]
  BY <1>2, <1>3 DEF GetDelete, TakeOut, Delete, TypeOK
<1>5. Values(r)'
  BY <1>1, <1>2 DEF Values, Kept, TakesOwn, NoCodeYet, Findable
<1>6. \A k \in Slots : val'[k] # val[k] =>
        /\ val[k] \in {Nothing} \cup served' \cup missed'
        /\ val'[k] # Nothing /\ Taking(k) => val'[k] \in missed'
  BY <1>1, <1>2, <1>3, <1>4
<1>7. \A k \in Codes : val'[k] = val[k]
  BY <1>2, <1>3, <1>4, KeysAssumption
<1> QED BY <1>1, <1>2, <1>5, <1>6, <1>7, ValuesKeep

LEMMA DeleteValues ==
  ASSUME TypeOK, ValuesInv, NEW r \in Requests, DeleteOffer(r) \/ DeleteAnswer(r)
  PROVE  ValuesInv'
<1>1. /\ \A q \in Requests \ {r} :
           pc'[q] = pc[q] /\ kind'[q] = kind[q] /\ key'[q] = key[q] /\ got'[q] = got[q]
      /\ pc'[r] \in {"deleteanswer", "ok"} /\ UNCHANGED <<kind, key, served>>
      /\ kind[r] = "delete"
  BY DEF DeleteOffer, DeleteAnswer, Goto, request, TypeOK, AtCall
<1>2. PICK w \in {"offer", "answer"} : Delete(w) /\ missed' = missed \cup Held(w)
  BY DEF DeleteOffer, DeleteAnswer
<1>3. w \in Slots /\ \A k \in Slots \cup Codes : k \in Keys
  BY KeysAssumption DEF Keys
<1>4. val'[w] = Nothing /\ \A k \in Keys : k # w => val'[k] = val[k]
  BY <1>2, <1>3 DEF Delete, TypeOK
<1>5. Values(r)'
  BY <1>1 DEF Values, Kept, TakesOwn, NoCodeYet, Findable
<1>6. val[w] \in {Nothing} \cup missed'
  BY <1>2 DEF Held
<1>7. \A k \in Slots : val'[k] # val[k] =>
        /\ val[k] \in {Nothing} \cup served' \cup missed'
        /\ val'[k] # Nothing /\ Taking(k) => val'[k] \in missed'
  BY <1>3, <1>4, <1>6
<1>8. \A k \in Codes : val'[k] = val[k]
  BY <1>3, <1>4, KeysAssumption
<1> QED BY <1>1, <1>2, <1>5, <1>7, <1>8, ValuesKeep

\* A second invite with a code takes it from the first.
LEMMA CodeValues ==
  ASSUME TypeOK, ValuesInv, NEW r \in Requests, SetCode(r)
  PROVE  ValuesInv'
<1>1. /\ \A q \in Requests \ {r} :
           pc'[q] = pc[q] /\ kind'[q] = kind[q] /\ key'[q] = key[q] /\ got'[q] = got[q]
      /\ pc'[r] = "expirecode" /\ UNCHANGED <<kind, key, served, missed>>
  BY DEF SetCode, Goto, request, history, TypeOK
<1>2. kind[r] = "invite" /\ key[r] \in Codes
  BY DEF SetCode, TypeOK, AtCall
<1>3. \A k \in Slots \cup Codes : k \in Keys
  BY DEF Keys
<1>4. val'[key[r]] = r /\ \A k \in Keys : k # key[r] => val'[k] = val[k]
  BY <1>2, <1>3 DEF SetCode, Set, TypeOK
<1>5. Values(r)'
  BY <1>1, <1>2, <1>4 DEF Values, Kept, TakesOwn, NoCodeYet, Findable
<1>6. \A k \in Slots : val'[k] = val[k]
  BY <1>2, <1>3, <1>4, KeysAssumption
<1>7. \A k \in Codes : val'[k] # val[k] => kind[r] = "invite" /\ key[r] = k
  BY <1>2, <1>3, <1>4
<1> QED BY <1>1, <1>5, <1>6, <1>7, ValuesKeep

\* What expires is counted as missed.
LEMMA TickValues ==
  ASSUME TypeOK, ValuesInv, Tick
  PROVE  ValuesInv'
<1>1. UNCHANGED <<pc, kind, key, got, served>> /\ missed \subseteq missed'
  BY DEF Tick, request
<1>2. \A k \in Keys : \/ val'[k] = val[k]
                      \/ val'[k] = Nothing /\ val[k] \in {Nothing} \cup missed'
  <2> TAKE k \in Keys
  <2> DEFINE old == {w \in Keys : exp[w] = now + 1}
  <2>1. val'[k] = (IF k \in old THEN Nothing ELSE val[k])
        /\ missed' = missed \cup UNION {Held(w) : w \in old}
    BY DEF Tick
  <2>2. k \in old => Held(k) \subseteq missed'
    <3> HIDE DEF old
    <3> QED BY <2>1
  <2>3. val[k] \in {Nothing} \cup Held(k)
    BY DEF Held
  <2> QED BY <2>1, <2>2, <2>3
<1> SUFFICES ASSUME NEW r \in Requests PROVE Values(r)'
  BY DEF ValuesInv
<1>3. Values(r) /\ AtCall(r) /\ r # Nothing /\ \A k \in Slots \cup Codes : k \in Keys
  BY KeysAssumption DEF ValuesInv, TypeOK, Keys
<1>4. Kept(r)'
  BY <1>1, <1>2, <1>3 DEF Values, Kept, AtCall
<1>5. TakesOwn(r)'
  BY <1>1, <1>2, <1>3 DEF Values, TakesOwn, AtCall
<1>6. NoCodeYet(r)'
  BY <1>1, <1>3 DEF Values, NoCodeYet
<1>7. Findable(r)'
  BY <1>1, <1>2, <1>3 DEF Values, Findable, AtCall
<1> QED BY <1>4, <1>5, <1>6, <1>7 DEF Values

\* Every value is accounted for.
THEOREM ValuesInvariant == Spec => []ValuesInv
<1>1. Init => ValuesInv
  BY DEF Init, ValuesInv, Values, Kept, TakesOwn, NoCodeYet, Findable
<1>2. TypeOK /\ ValuesInv /\ [Next]_vars => ValuesInv'
  <2> SUFFICES ASSUME TypeOK, ValuesInv, [Next]_vars PROVE ValuesInv'
    OBVIOUS
  <2>1. CASE Tick
    BY <2>1, TickValues
  <2>2. ASSUME NEW r \in Requests, Step(r) PROVE ValuesInv'
    BY <2>2, ArriveValues, QuietValues, PutValues, TakeValues, DeleteValues, CodeValues DEF Step
  <2>3. CASE UNCHANGED vars
    BY <2>3 DEF vars, redis, request, history, ValuesInv, Values, Kept, TakesOwn, NoCodeYet,
                Findable
  <2> QED BY <2>1, <2>2, <2>3 DEF Next
<1> QED BY <1>1, <1>2, TypeCorrect, PTL DEF Spec

\* A PUT that was answered can be read until it expires or another call takes its
\* place: a GET deletes only what it answers, unless a PUT came in between.
THEOREM PutsStay == Spec => []PutsKept
<1>1. ValuesInv => PutsKept
  BY DEF ValuesInv, Values, Kept, PutsKept
<1> QED BY <1>1, ValuesInvariant, PTL

\* A code finds its invite until it expires, unless it was given out again.
THEOREM CodesFound == Spec => []CodesFind
<1>1. ValuesInv => CodesFind
  BY DEF ValuesInv, Values, Findable, CodesFind
<1> QED BY <1>1, ValuesInvariant, PTL
-----------------------------------------------------------------------------
(* A value is taken out once *)

\* A PUT that will not write any more.
Wrote(r) == kind[r] = "put" /\ pc[r] \in {"expire", "ok", "error"}

\* Slots hold what was put there, a GET deletes where it has read, and what was
\* served is gone.
HeldBy(k) == val[k] # Nothing => Wrote(val[k]) /\ key[val[k]] = k

TakesFrom(r) ==
  pc[r] = "taken" => got[r] \in Requests /\ Wrote(got[r]) /\ key[got[r]] = key[r]

Gone(v) == Wrote(v) /\ val[key[v]] # v

OnceInv ==
  /\ \A k \in Slots : HeldBy(k)
  /\ \A r \in Requests : TakesFrom(r)
  /\ \A v \in served : Gone(v)

\* A call of r: it writes its own value, in its own slot, once.
LEMMA OnceKeeps ==
  ASSUME TypeOK, OnceInv, NEW r \in Requests,
         \A q \in Requests \ {r} :
           pc'[q] = pc[q] /\ kind'[q] = kind[q] /\ key'[q] = key[q] /\ got'[q] = got[q],
         Wrote(r) => Wrote(r)' /\ key'[r] = key[r],
         \A k \in Slots :
           \/ val'[k] \in {Nothing, val[k]}
           \/ val'[k] = r /\ ~Wrote(r) /\ Wrote(r)' /\ key'[r] = k,
         TakesFrom(r)',
         \A v \in served' : v \in served \/ (v \in Requests /\ Wrote(v) /\ val'[key[v]] # v)
  PROVE  OnceInv'
<1>1. \A q \in Requests : Wrote(q) => Wrote(q)' /\ key'[q] = key[q]
  BY DEF Wrote
<1>2. \A k \in Slots : val[k] # Nothing => val[k] \in Requests /\ Wrote(val[k]) /\ key[val[k]] = k
  BY DEF OnceInv, HeldBy, TypeOK, Keys
<1>3. ASSUME NEW k \in Slots PROVE HeldBy(k)'
  <2> SUFFICES ASSUME val'[k] # Nothing
               PROVE  Wrote(val[k])' /\ key'[val'[k]] = k
    BY DEF HeldBy
  <2>1. CASE val'[k] = val[k]
    <3>1. PICK v \in Requests : v = val[k]
      BY <1>2, <2>1
    <3>2. Wrote(v)' /\ key'[v] = k
      BY <1>1, <1>2, <2>1, <3>1
    <3> QED BY <2>1, <3>1, <3>2 DEF Wrote
  <2>2. CASE val'[k] = r /\ Wrote(r)' /\ key'[r] = k
    BY <2>2 DEF Wrote
  <2> QED BY <2>1, <2>2
<1>4. ASSUME NEW q \in Requests \ {r} PROVE TakesFrom(q)'
  <2>1. TakesFrom(q) /\ pc'[q] = pc[q] /\ got'[q] = got[q] /\ key'[q] = key[q]
    BY DEF OnceInv
  <2>2. pc[q] = "taken" => \E v \in Requests : v = got[q] /\ Wrote(v)' /\ key'[v] = key[q]
    BY <1>1, <2>1 DEF TakesFrom
  <2> QED BY <2>1, <2>2 DEF TakesFrom, Wrote
<1>5. ASSUME NEW v \in served' PROVE Gone(v)'
  <2>1. v \in Requests /\ Wrote(v)
    BY <1>5 DEF OnceInv, Gone, TypeOK
  <2>2. Wrote(v)' /\ key'[v] = key[v]
    BY <1>1, <2>1
  <2>3. CASE v \in served
    <3>1. val[key[v]] # v /\ v # Nothing /\ key[v] \in Slots
      BY <2>1, <2>3, KeysAssumption DEF OnceInv, Gone, Wrote, TypeOK, AtCall, Keys
    <3>2. val'[key[v]] # v
      BY <2>1, <3>1
    <3> QED BY <2>2, <3>2 DEF Gone
  <2>4. CASE v \notin served
    BY <1>5, <2>2, <2>4 DEF Gone
  <2> QED BY <2>3, <2>4
<1> QED BY <1>3, <1>4, <1>5 DEF OnceInv

LEMMA ArriveOnce ==
  ASSUME TypeOK, OnceInv, NEW r \in Requests, Arrive(r) \/ ArriveLookup(r) \/ ArriveAgain(r)
  PROVE  OnceInv'
<1>1. \E n \in Requests : \E t : NonceGet(r, n, t)
  BY DEF Arrive, ArriveLookup, ArriveAgain
<1>2. /\ pc[r] = "sent" /\ pc'[r] \in {"nonceset", "refused"}
      /\ UNCHANGED <<val, got, served, missed>>
      /\ \A q \in Requests \ {r} : pc'[q] = pc[q]
  BY <1>1 DEF NonceGet, Goto, TypeOK, redis
<1>3. \A q \in Requests \ {r} : key'[q] = key[q] /\ kind'[q] = kind[q]
  <2>1. \E w, k : key' = [key EXCEPT ![r] = w] /\ kind' = [kind EXCEPT ![r] = k]
    BY DEF Arrive, ArriveLookup, ArriveAgain
  <2> QED BY <2>1 DEF TypeOK
<1>4. TakesFrom(r)' /\ ~Wrote(r)
  BY <1>2 DEF TakesFrom, Wrote
<1> QED BY <1>2, <1>3, <1>4, OnceKeeps

\* The calls that put nothing in a slot and take nothing out.
LEMMA QuietOnce ==
  ASSUME TypeOK, OnceInv, NEW r \in Requests,
         NonceSet(r) \/ NonceExpire(r) \/ PutExpire(r) \/ DeleteOffer(r) \/ DeleteAnswer(r)
           \/ SetCode(r) \/ ExpireCode(r) \/ NewCode(r) \/ Lookup(r) \/ Fail(r)
  PROVE  OnceInv'
<1>1. /\ \A q \in Requests \ {r} :
           pc'[q] = pc[q] /\ kind'[q] = kind[q] /\ key'[q] = key[q] /\ got'[q] = got[q]
      /\ kind'[r] = kind[r] /\ UNCHANGED served
  BY DEF NonceSet, NonceExpire, PutExpire, DeleteOffer, DeleteAnswer, SetCode, ExpireCode,
         NewCode, Lookup, Fail, Goto, request, history, TypeOK
<1>2. pc'[r] # "taken"
  BY DEF NonceSet, NonceExpire, PutExpire, DeleteOffer, DeleteAnswer, SetCode, ExpireCode,
         NewCode, Lookup, Fail, Goto, TypeOK, Kinds
<1>3. Wrote(r) => Wrote(r)' /\ key'[r] = key[r]
  <2>1. CASE PutExpire(r) \/ Fail(r)
    BY <2>1 DEF PutExpire, Fail, Goto, request, Wrote, TypeOK
  <2>2. CASE ~(PutExpire(r) \/ Fail(r))
    BY <2>2 DEF NonceSet, NonceExpire, DeleteOffer, DeleteAnswer, SetCode, ExpireCode,
       NewCode, Lookup, Wrote, TypeOK, AtCall
  <2> QED BY <2>1, <2>2
<1>4. ASSUME NEW k \in Slots PROVE val'[k] \in {Nothing, val[k]}
  <2>1. k \in Keys /\ k \notin Requests /\ k \notin Codes
    BY KeysAssumption DEF Keys
  <2>2. CASE NonceSet(r)
    BY <2>1, <2>2 DEF NonceSet, Set, TypeOK
  <2>3. CASE SetCode(r)
    <3>1. key[r] \in Codes
      BY <2>3 DEF SetCode, TypeOK, AtCall
    <3> QED BY <2>1, <2>3, <3>1 DEF SetCode, Set, TypeOK
  <2>4. CASE DeleteOffer(r) \/ DeleteAnswer(r)
    BY <2>1, <2>4 DEF DeleteOffer, DeleteAnswer, Delete, TypeOK
  <2>5. CASE ~(NonceSet(r) \/ SetCode(r) \/ DeleteOffer(r) \/ DeleteAnswer(r))
    BY <2>5 DEF NonceExpire, PutExpire, ExpireCode, NewCode, Lookup, Fail, Expire, redis
  <2> QED BY <2>2, <2>3, <2>4, <2>5
<1>5. TakesFrom(r)'
  BY <1>2 DEF TakesFrom
<1> QED BY <1>1, <1>3, <1>4, <1>5, OnceKeeps

LEMMA PutOnce ==
  ASSUME TypeOK, OnceInv, NEW r \in Requests, PutSet(r)
  PROVE  OnceInv'
<1>1. /\ \A q \in Requests \ {r} :
           pc'[q] = pc[q] /\ kind'[q] = kind[q] /\ key'[q] = key[q] /\ got'[q] = got[q]
      /\ pc[r] = "put" /\ pc'[r] = "expire" /\ UNCHANGED <<kind, key, served>>
  BY DEF PutSet, Goto, request, TypeOK
<1>2. kind[r] = "put" /\ key[r] \in Slots /\ \A k \in Slots : k \in Keys
  BY DEF PutSet, TypeOK, AtCall, Keys
<1>3. val'[key[r]] = r /\ \A k \in Keys : k # key[r] => val'[k] = val[k]
  BY <1>2 DEF PutSet, Set, TypeOK
<1>4. ~Wrote(r) /\ Wrote(r)' /\ TakesFrom(r)'
  BY <1>1, <1>2 DEF Wrote, TakesFrom
<1> QED BY <1>1, <1>2, <1>3, <1>4, OnceKeeps

LEMMA TakeOnce ==
  ASSUME TypeOK, OnceInv, NEW r \in Requests, GetValue(r) \/ GetDelete(r)
  PROVE  OnceInv'
<1>1. /\ \A q \in Requests \ {r} :
           pc'[q] = pc[q] /\ kind'[q] = kind[q] /\ key'[q] = key[q] /\ got'[q] = got[q]
      /\ UNCHANGED <<kind, key>> /\ \A q \in Requests : Wrote(q)' <=> Wrote(q)
  BY DEF GetValue, GetDelete, Goto, request, Wrote, TypeOK, AtCall
<1>2. kind[r] = "get" /\ key[r] \in Slots /\ \A k \in Slots : k \in Keys
  BY DEF GetValue, GetDelete, TypeOK, AtCall, Keys
<1>3. CASE GetValue(r)
  <2>1. /\ UNCHANGED <<val, served>> /\ got'[r] = val[key[r]]
        /\ pc'[r] = "taken" => val[key[r]] # Nothing
    BY <1>3 DEF GetValue, Get, Goto, redis, history, TypeOK
  <2>2. val[key[r]] # Nothing =>
          val[key[r]] \in Requests /\ Wrote(val[key[r]]) /\ key[val[key[r]]] = key[r]
    BY <1>2 DEF OnceInv, HeldBy, TypeOK
  <2>3. TakesFrom(r)'
    <3> SUFFICES ASSUME pc'[r] = "taken"
                 PROVE  got'[r] \in Requests /\ Wrote(got[r])' /\ key'[got'[r]] = key'[r]
      BY DEF TakesFrom
    <3>1. PICK v \in Requests : v = val[key[r]] /\ Wrote(v) /\ key[v] = key[r]
      BY <2>1, <2>2
    <3>2. Wrote(v)'
      BY <1>1, <3>1
    <3> QED BY <1>1, <2>1, <3>1, <3>2 DEF Wrote
  <2> QED BY <1>1, <2>1, <2>3, OnceKeeps
<1>4. CASE GetDelete(r)
  <2>1. served' = served \cup {got[r]} /\ pc'[r] # "taken" /\ pc[r] = "taken"
    BY <1>4 DEF GetDelete, Goto, TypeOK
  <2>2. val'[key[r]] = Nothing /\ \A k \in Keys : k # key[r] => val'[k] = val[k]
    BY <1>2, <1>4 DEF GetDelete, TakeOut, Delete, TypeOK
  <2>3. got[r] \in Requests /\ Wrote(got[r]) /\ key[got[r]] = key[r] /\ got[r] # Nothing
    BY <2>1, KeysAssumption DEF OnceInv, TakesFrom, Keys
  <2>4. \A v \in served' : v \in served \/ (v \in Requests /\ Wrote(v) /\ val'[key[v]] # v)
    BY <2>1, <2>2, <2>3
  <2>5. TakesFrom(r)'
    BY <2>1 DEF TakesFrom
  <2>6. \A k \in Slots : val'[k] \in {Nothing, val[k]}
    BY <1>2, <2>2
  <2> QED BY <1>1, <2>4, <2>5, <2>6, OnceKeeps
<1> QED BY <1>3, <1>4

\* A value that a GET was answered with is not found by a later one: for any
\* number of GETs and PUTs at the same time.
THEOREM TakenOnlyOnce == Spec => TakenOnce
<1>1. Init => OnceInv
  BY DEF Init, OnceInv, HeldBy, TakesFrom, Keys
<1>2. TypeOK /\ OnceInv /\ [Next]_vars => OnceInv'
  <2> SUFFICES ASSUME TypeOK, OnceInv, [Next]_vars PROVE OnceInv'
    OBVIOUS
  <2>1. CASE Tick
    <3>1. UNCHANGED <<pc, kind, key, got, served>>
      BY <2>1 DEF Tick, request
    <3>2. \A k \in Slots : val'[k] \in {Nothing, val[k]}
      BY <2>1 DEF Tick, Keys
    <3>3. \A v \in served : v \in Requests /\ key[v] \in Slots /\ v # Nothing
      BY KeysAssumption DEF OnceInv, Gone, Wrote, TypeOK, AtCall, Keys
    <3> QED BY <3>1, <3>2, <3>3 DEF OnceInv, HeldBy, TakesFrom, Gone, Wrote
  <2>2. ASSUME NEW r \in Requests, Step(r) PROVE OnceInv'
    BY <2>2, ArriveOnce, QuietOnce, PutOnce, TakeOnce DEF Step
  <2>3. CASE UNCHANGED vars
    BY <2>3 DEF vars, redis, request, history, OnceInv, HeldBy, TakesFrom, Gone, Wrote
  <2> QED BY <2>1, <2>2, <2>3 DEF Next
<1>3. TypeOK /\ OnceInv /\ [Next]_vars
        => [\A r \in Requests : got'[r] # got[r] /\ kind[r] = "get" => got'[r] \notin served]_vars
  <2> SUFFICES ASSUME TypeOK, OnceInv, Next, NEW r \in Requests,
                      got'[r] # got[r], kind[r] = "get"
               PROVE  got'[r] \notin served
    OBVIOUS
  <2>1. GetValue(r)
    <3>1. PICK q \in Requests : Step(q)
      BY DEF Next, Tick
    <3>2. q # r => got'[r] = got[r]
      BY <3>1 DEF Step, Arrive, ArriveLookup, ArriveAgain, NonceGet, NonceSet, NonceExpire,
         PutSet, PutExpire, GetValue, GetDelete, DeleteOffer, DeleteAnswer, NewCode, SetCode,
         ExpireCode, Lookup, Fail, TypeOK
    <3>3. Lookup(r) => kind[r] = "lookup"
      BY DEF Lookup, TypeOK, AtCall
    <3> QED BY <3>1, <3>2, <3>3 DEF Step, Arrive, ArriveLookup, ArriveAgain, NonceGet,
         NonceSet, NonceExpire, PutSet, PutExpire, GetDelete, DeleteOffer, DeleteAnswer,
         NewCode, SetCode, ExpireCode, Fail
  <2>2. got'[r] = val[key[r]] /\ key[r] \in Slots
    BY <2>1 DEF GetValue, Get, TypeOK, AtCall
  <2>3. Nothing \notin served
    BY KeysAssumption DEF TypeOK, Keys
  <2>4. got'[r] # Nothing => key[got'[r]] = key[r]
    BY <2>2 DEF OnceInv, HeldBy
  <2> QED BY <2>2, <2>3, <2>4 DEF OnceInv, Gone
<1> QED BY <1>1, <1>2, <1>3, TypeCorrect, PTL DEF Spec, TakenOnce
=============================================================================
