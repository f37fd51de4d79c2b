---------------------------- MODULE RedisCodes ----------------------------
(***************************************************************************)
(* What the server keeps in Redis: nonces of requests (http/server/auth.go)*)
(* discovery offers and answers (disco.go), shares (share.go) and invite   *)
(* codes (invitecode.go).                                                  *)
(*                                                                         *)
(* A handler is a goroutine that makes one Redis call after the other;     *)
(* each call is atomic, and every one may fail.  A value is written first  *)
(* and given its expiry by the next call.  Reading takes a value out: a    *)
(* Get and then a Delete.                                                  *)
(***************************************************************************)
EXTENDS Integers, FiniteSets

CONSTANTS
  Requests,  \* HTTP requests; each is also the nonce and the value it sends
  Slots,     \* "offer" and "answer" of a pair of users; others are shares
  Codes,     \* the words invite codes are made of
  Window,    \* a request is accepted this much before and after it was signed
  NonceTTL, SlotTTL, CodeTTL,  \* how long keys live
  Never,     \* no expiry, no time
  Nothing,   \* no value, no key
  MaxTime,   \* bound: the clock
  MaxFails   \* bound: Redis calls that fail

Keys == Slots \cup Codes \cup Requests

ASSUME KeysAssumption ==
  /\ {"offer", "answer"} \subseteq Slots
  /\ Slots \cap Codes = {} /\ Slots \cap Requests = {} /\ Codes \cap Requests = {}
  /\ Nothing \notin Keys
ASSUME TimesAssumption ==
  /\ {Window, NonceTTL, SlotTTL, CodeTTL, MaxTime, MaxFails} \subseteq Nat
  /\ NonceTTL > 2 * Window /\ SlotTTL > 0 /\ CodeTTL > 0
  /\ Never \notin Int

VARIABLES
  now,
  val,      \* the value of each Redis key: the request that wrote it
  exp,      \* when each key expires
  pc,       \* the next Redis call of each request, or its answer
  kind,     \* what each request asks for
  key,      \* the key it is about
  nonce,    \* its nonce: a copy has the nonce of the original
  signed,   \* when the client signed it
  got,      \* what a GET or a lookup has read
  racing,   \* history: nonces two checks of which overlapped
  served,   \* history: values that a GET was answered with
  missed,   \* history: values that expired, and puts overwritten, deleted or
            \* written into a GET
  fails

redis == <<val, exp>>
request == <<kind, key, nonce, signed>>
history == <<racing, served, missed>>
vars == <<now, redis, pc, request, got, history, fails>>

Answers == {"ok", "notfound", "refused", "error"}
Answered(r) == pc[r] \in Answers
Goto(r, label) == pc' = [pc EXCEPT ![r] = label]

Init ==
  /\ now = 0
  /\ val = [k \in Keys |-> Nothing]
  /\ exp = [k \in Keys |-> Never]
  /\ pc = [r \in Requests |-> "sent"]
  /\ kind = [r \in Requests |-> "none"]
  /\ key = [r \in Requests |-> Nothing]
  /\ nonce = [r \in Requests |-> r]
  /\ signed = [r \in Requests |-> Never]
  /\ got = [r \in Requests |-> Nothing]
  /\ racing = {} /\ served = {} /\ missed = {}
  /\ fails = 0

-----------------------------------------------------------------------------
(* Redis *)

Get(k) == val[k]

\* Mutant: the first value stays.
SetNew(k, v) == IF val[k] = Nothing THEN val' = [val EXCEPT ![k] = v] /\ UNCHANGED exp
                                   ELSE UNCHANGED redis

\* Set takes an expiry away.
Set(k, v) ==
  /\ val' = [val EXCEPT ![k] = v]
  /\ exp' = [exp EXCEPT ![k] = Never]

Expire(k, ttl) ==
  /\ exp' = IF val[k] # Nothing THEN [exp EXCEPT ![k] = now + ttl] ELSE exp
  /\ UNCHANGED val

Delete(k) ==
  /\ val' = [val EXCEPT ![k] = Nothing]
  /\ exp' = [exp EXCEPT ![k] = Never]

Held(k) == {val[k]} \ {Nothing}

\* Time passes, and Redis drops what has expired.
Tick ==
  /\ now < MaxTime
  /\ now' = now + 1
  /\ LET old == {k \in Keys : exp[k] = now + 1} IN
       /\ val' = [k \in Keys |-> IF k \in old THEN Nothing ELSE val[k]]
       /\ exp' = [k \in Keys |-> IF k \in old THEN Never ELSE exp[k]]
       /\ missed' = missed \cup UNION {Held(k) : k \in old}
  /\ UNCHANGED <<pc, request, got, racing, served, fails>>

-----------------------------------------------------------------------------
(* Authorization of every request *)

InWindow(t) == t <= now + Window /\ now <= t + Window

\* Mutant: the nonce is not looked for.
Unseen(n) == TRUE

IsNew(n) == Get(n) = Nothing

\* Another check has found the nonce new and not finished.
Overlap(n) ==
  \E q \in Requests : nonce[q] = n /\ pc[q] \in {"nonceset", "nonceexpire"}

\* The request is signed at t with nonce n.  The clock is read in the step of
\* the first Redis call.
NonceGet(r, n, t) ==
  /\ pc[r] = "sent"
  /\ nonce' = [nonce EXCEPT ![r] = n]
  /\ signed' = [signed EXCEPT ![r] = t]
  /\ IF InWindow(t) /\ IsNew(n)
       THEN /\ Goto(r, "nonceset")
            /\ racing' = IF Overlap(n) THEN racing \cup {n} ELSE racing
       ELSE Goto(r, "refused") /\ UNCHANGED racing
  /\ UNCHANGED <<now, redis, got, served, missed, fails>>

\* A request arrives; the client's clock is as far off as may be.
Arrive(r) ==
  /\ \E k \in {"put", "get"} \X Slots \cup {"delete", "invite"} \X {Nothing} :
       /\ kind' = [kind EXCEPT ![r] = k[1]]
       /\ key' = [key EXCEPT ![r] = k[2]]
  /\ \E t \in {now - Window, now + Window} : NonceGet(r, r, t)

\* The recipient asks for a code it was told.
ArriveLookup(r) ==
  /\ \E q \in Requests :
       /\ kind[q] = "invite" /\ pc[q] = "ok"
       /\ key' = [key EXCEPT ![r] = key[q]]
  /\ kind' = [kind EXCEPT ![r] = "lookup"]
  /\ NonceGet(r, r, now)

\* A request arrives a second time.
ArriveAgain(r) ==
  \E q \in Requests \ {r} :
    /\ kind[q] \in {"put", "get"} /\ nonce[q] = q
    /\ kind' = [kind EXCEPT ![r] = kind[q]]
    /\ key' = [key EXCEPT ![r] = key[q]]
    /\ NonceGet(r, q, signed[q])

NonceSet(r) ==
  /\ pc[r] = "nonceset"
  /\ Set(nonce[r], r)
  /\ Goto(r, "nonceexpire")
  /\ UNCHANGED <<now, request, got, history, fails>>

NonceExpire(r) ==
  /\ pc[r] = "nonceexpire"
  /\ Expire(nonce[r], NonceTTL)
  /\ Goto(r, kind[r])
  /\ UNCHANGED <<now, request, got, history, fails>>

-----------------------------------------------------------------------------
(* Offers, answers and shares *)

\* A GET has read the key and will delete it.
Taking(k) == \E g \in Requests : pc[g] = "taken" /\ key[g] = k

\* Mutant: no expiry.
PutOnly(r) ==
  /\ pc[r] = "put"
  /\ Set(key[r], r)
  /\ missed' = missed \cup Held(key[r]) \cup (IF Taking(key[r]) THEN {r} ELSE {})
  /\ Goto(r, "ok")
  /\ UNCHANGED <<now, request, got, racing, served, fails>>

PutSet(r) ==
  /\ pc[r] = "put"
  /\ Set(key[r], r)
  /\ missed' = missed \cup Held(key[r]) \cup (IF Taking(key[r]) THEN {r} ELSE {})
  /\ Goto(r, "expire")
  /\ UNCHANGED <<now, request, got, racing, served, fails>>

PutExpire(r) ==
  /\ pc[r] = "expire"
  /\ Expire(key[r], SlotTTL)
  /\ Goto(r, "ok")
  /\ UNCHANGED <<now, request, got, history, fails>>

GetValue(r) ==
  /\ pc[r] = "get"
  /\ got' = [got EXCEPT ![r] = Get(key[r])]
  /\ Goto(r, IF Get(key[r]) = Nothing THEN "notfound" ELSE "taken")
  /\ UNCHANGED <<now, redis, request, history, fails>>

\* Mutant: the value is left for others.
LeaveValue(k) == UNCHANGED redis

TakeOut(k) == Delete(k)

GetDelete(r) ==
  /\ pc[r] = "taken"
  /\ TakeOut(key[r])
  /\ served' = served \cup {got[r]}
  /\ Goto(r, "ok")
  /\ UNCHANGED <<now, request, got, racing, missed, fails>>

DeleteOffer(r) ==
  /\ pc[r] = "delete"
  /\ Delete("offer")
  /\ missed' = missed \cup Held("offer")
  /\ Goto(r, "deleteanswer")
  /\ UNCHANGED <<now, request, got, racing, served, fails>>

DeleteAnswer(r) ==
  /\ pc[r] = "deleteanswer"
  /\ Delete("answer")
  /\ missed' = missed \cup Held("answer")
  /\ Goto(r, "ok")
  /\ UNCHANGED <<now, request, got, racing, served, fails>>

-----------------------------------------------------------------------------
(* Invite codes *)

\* The words are random.  The check for a conflict asks Redis for the code that
\* is still empty, and never finds one.
NewCode(r) ==
  /\ pc[r] = "invite"
  /\ \E w \in Codes : key' = [key EXCEPT ![r] = w]
  /\ Goto(r, "setcode")
  /\ UNCHANGED <<now, redis, kind, nonce, signed, got, history, fails>>

SetCode(r) ==
  /\ pc[r] = "setcode"
  /\ Set(key[r], r)
  /\ Goto(r, "expirecode")
  /\ UNCHANGED <<now, request, got, history, fails>>

ExpireCode(r) ==
  /\ pc[r] = "expirecode"
  /\ Expire(key[r], CodeTTL)
  /\ Goto(r, "ok")
  /\ UNCHANGED <<now, request, got, history, fails>>

\* Mutant: a code is good for one lookup.
LookupOnce(r) ==
  /\ pc[r] = "lookup"
  /\ got' = [got EXCEPT ![r] = Get(key[r])]
  /\ Delete(key[r])
  /\ Goto(r, IF Get(key[r]) = Nothing THEN "notfound" ELSE "ok")
  /\ UNCHANGED <<now, request, history, fails>>

Lookup(r) ==
  /\ pc[r] = "lookup"
  /\ got' = [got EXCEPT ![r] = Get(key[r])]
  /\ Goto(r, IF Get(key[r]) = Nothing THEN "notfound" ELSE "ok")
  /\ UNCHANGED <<now, redis, request, history, fails>>

-----------------------------------------------------------------------------
\* A Redis call fails, or the server stops: the handler ends, what it has
\* written stays.
Fail(r) ==
  /\ fails < MaxFails
  /\ ~Answered(r) /\ pc[r] # "sent"
  /\ fails' = fails + 1
  /\ Goto(r, "error")
  /\ UNCHANGED <<now, redis, request, got, history>>

Step(r) ==
  \/ Arrive(r) \/ ArriveLookup(r) \/ ArriveAgain(r)
  \/ NonceSet(r) \/ NonceExpire(r)
  \/ PutSet(r) \/ PutExpire(r) \/ GetValue(r) \/ GetDelete(r)
  \/ DeleteOffer(r) \/ DeleteAnswer(r)
  \/ NewCode(r) \/ SetCode(r) \/ ExpireCode(r) \/ Lookup(r)
  \/ Fail(r)

Next == Tick \/ \E r \in Requests : Step(r)

Spec == Init /\ [][Next]_vars

-----------------------------------------------------------------------------
(* Properties *)

Kinds == {"none", "put", "get", "delete", "invite", "lookup"}

Labels == {"sent", "nonceset", "nonceexpire", "put", "expire", "get", "taken", "delete",
           "deleteanswer", "invite", "setcode", "expirecode", "lookup"} \cup Answers

\* A request is at a call of its kind, and asks about a key of the right sort.
AtCall(r) ==
  /\ kind[r] = "none" <=> pc[r] = "sent"
  /\ pc[r] \in {"put", "expire"} => kind[r] = "put"
  /\ pc[r] \in {"get", "taken"} => kind[r] = "get"
  /\ pc[r] = "taken" => got[r] # Nothing
  /\ pc[r] \in {"delete", "deleteanswer"} => kind[r] = "delete"
  /\ pc[r] \in {"invite", "setcode", "expirecode"} => kind[r] = "invite"
  /\ pc[r] = "lookup" => kind[r] = "lookup"
  /\ kind[r] \in {"put", "get"} => key[r] \in Slots
  /\ kind[r] = "lookup" => key[r] \in Codes
  /\ kind[r] = "invite" /\ pc[r] \in {"setcode", "expirecode", "ok"}
       => key[r] \in Codes

\* Keys hold the requests that wrote them.
TypeOK ==
  /\ now \in Nat
  /\ val \in [Keys -> Requests \cup {Nothing}]
  /\ exp \in [Keys -> Nat \cup {Never}]
  /\ kind \in [Requests -> Kinds]
  /\ key \in [Requests -> Slots \cup Codes \cup {Nothing}]
  /\ nonce \in [Requests -> Requests]
  /\ signed \in [Requests -> Int \cup {Never}]
  /\ got \in [Requests -> Requests \cup {Nothing}]
  /\ pc \in [Requests -> Labels]
  /\ \A r \in Requests : AtCall(r)
  /\ racing \subseteq Requests /\ served \subseteq Requests /\ missed \subseteq Requests
  /\ fails \in Nat

Authorized(r) == pc[r] \notin {"sent", "nonceset", "nonceexpire",
                               "refused", "error"}

\* Two requests with one nonce do not both pass (auth.go:95): whatever the
\* clocks and however late the copy arrives, unless their checks overlapped.
ReplayRefused ==
  \A q, r \in Requests :
    (q # r /\ nonce[q] = nonce[r] /\ Authorized(q) /\ Authorized(r))
      => nonce[r] \in racing

\* A value that a GET was answered with is not found by a later one, though
\* reading and deleting are two calls (disco.go:118).
TakenOnce ==
  [][\A r \in Requests : got'[r] # got[r] /\ kind[r] = "get" => got'[r] \notin served]_vars

\* A PUT that was answered stays until it is read or expires: it is lost to a
\* later PUT, to a DELETE, or because it was written while a GET was deleting
\* the value before (disco.go:118).
PutsKept ==
  \A r \in Requests :
    (kind[r] = "put" /\ pc[r] = "ok") => val[key[r]] = r \/ r \in served \cup missed

\* A key without an expiry is one that a handler will still give it to, or was
\* left by one that failed after its Set: nothing else stays for ever
\* (disco.go:83, share.go:56, invitecode.go:71, auth.go:109).
KeysExpire ==
  \A k \in Keys :
    val[k] # Nothing /\ exp[k] = Never =>
      \E r \in Requests : k \in {key[r], nonce[r]}
                          /\ pc[r] \in {"expire", "expirecode", "nonceexpire", "error"}

\* A code finds the invite it was made for until it expires, unless it was given
\* to a second one: the check for that looks at the wrong key (invitecode.go:51).
CodesFind ==
  \A r \in Requests :
    (kind[r] = "invite" /\ pc[r] = "ok") =>
      \/ val[key[r]] = r \/ r \in missed
      \/ \E q \in Requests \ {r} : kind[q] = "invite" /\ key[q] = key[r]
=============================================================================
