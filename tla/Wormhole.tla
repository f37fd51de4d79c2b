----------------------------- MODULE Wormhole -----------------------------
(***************************************************************************)
(* A wormhole between two users (service/wormhole.go, wormhole/wormhole.go,*)
(* wormhole/sctp): sessions find each other through offers and answers on  *)
(* the server, punch through with a handshake over UDP, make an SCTP       *)
(* stream and a Noise handshake on it, and exchange messages with acks.    *)
(*                                                                         *)
(* A session is one Wormhole RPC with a UDP socket of its own.  A user may *)
(* have several, one after the other or at once.  Datagrams are lost,      *)
(* duplicated and reordered.  Offers and answers may vanish at any time:   *)
(* they expire, and closing sessions delete them.                          *)
(***************************************************************************)
EXTENDS Integers, Sequences

CONSTANTS
  Users,
  Sessions,
  User,         \* whose session it is
  Nobody,       \* no session
  OneAtATime,   \* a user starts a session only when the one before is closed
  MaxMessages   \* bound: messages a session writes

ASSUME UsersAssumption ==
  /\ \E u, v \in Users : u # v /\ Users = {u, v}
  /\ User \in [Sessions -> Users]
ASSUME NobodyAssumption == Nobody \notin Sessions
ASSUME BoundsAssumption == MaxMessages \in Nat /\ OneAtATime \in BOOLEAN

Other(u) == CHOOSE v \in Users : v # u

VARIABLES
  offer, answer,  \* on the server, by the user who sent it: a session's address
  pc,             \* how far the RPC is
  role,           \* "connect" or "listen"
  peer,           \* the session whose address it sends to
  send,           \* handshake: the word the writing goroutine sends next
  writer,         \* handshake: "write", "check" or "done"
  reading,        \* handshake: the reading goroutine is at work
  net,            \* datagrams of handshakes: where to and what
  stream,         \* what each session can read from its SCTP stream
  reader,         \* the goroutine that reads messages: "off", "read", "ack",
                  \* "show" or "stopped"
  written,        \* how many messages each session has written
  shown,          \* the messages its RPC client has been sent
  acked           \* its messages that the peer has acknowledged

disco == <<offer, answer>>
shake == <<send, writer, reading>>
messages == <<stream, reader, written, shown, acked>>
vars == <<disco, pc, role, peer, shake, net, messages>>

Goto(s, label) == pc' = [pc EXCEPT ![s] = label]

Init ==
  /\ offer = [u \in Users |-> Nobody]
  /\ answer = [u \in Users |-> Nobody]
  /\ pc = [s \in Sessions |-> "new"]
  /\ role = [s \in Sessions |-> "none"]
  /\ peer = [s \in Sessions |-> Nobody]
  /\ send = [s \in Sessions |-> "syn"]
  /\ writer = [s \in Sessions |-> "none"]
  /\ reading = [s \in Sessions |-> FALSE]
  /\ net = {}
  /\ stream = [s \in Sessions |-> <<>>]
  /\ reader = [s \in Sessions |-> "off"]
  /\ written = [s \in Sessions |-> 0]
  /\ shown = [s \in Sessions |-> <<>>]
  /\ acked = [s \in Sessions |-> {}]

-----------------------------------------------------------------------------
(* Rendezvous *)

\* Expiry, the DELETE of a closing session, or a GET that took it in vain.
Vanish(u) ==
  /\ \/ offer[u] # Nobody /\ offer' = [offer EXCEPT ![u] = Nobody] /\ UNCHANGED answer
     \/ answer[u] # Nobody /\ answer' = [answer EXCEPT ![u] = Nobody] /\ UNCHANGED offer
  /\ UNCHANGED <<pc, role, peer, shake, net, messages>>

MayStart(s) ==
  OneAtATime => \A r \in Sessions \ {s} : User[r] = User[s] => pc[r] \in {"new", "closed"}

\* Mutant: it listens without an offer.
AlwaysListen(s) ==
  /\ pc[s] = "new" /\ MayStart(s)
  /\ role' = [role EXCEPT ![s] = "listen"]
  /\ peer' = [peer EXCEPT ![s] = offer[Other(User[s])]]
  /\ Goto(s, "listen")
  /\ offer' = [offer EXCEPT ![Other(User[s])] = Nobody]
  /\ UNCHANGED <<answer, shake, net, messages>>

\* Whoever finds an offer takes it and listens; whoever finds none connects.
FindOffer(s) ==
  /\ pc[s] = "new" /\ MayStart(s)
  /\ LET found == offer[Other(User[s])] IN
       /\ role' = [role EXCEPT ![s] = IF found = Nobody THEN "connect" ELSE "listen"]
       /\ peer' = [peer EXCEPT ![s] = found]
       /\ Goto(s, IF found = Nobody THEN "connect" ELSE "listen")
  /\ offer' = [offer EXCEPT ![Other(User[s])] = Nobody]
  /\ UNCHANGED <<answer, shake, net, messages>>

\* Every ten seconds.  A request on its way when the answer comes, or when the
\* session gives up, still arrives.
WriteOffer(s) ==
  /\ role[s] = "connect" /\ pc[s] \in {"connect", "shake", "failed"}
  /\ offer' = [offer EXCEPT ![User[s]] = s]
  /\ UNCHANGED <<answer, pc, role, peer, shake, net, messages>>

StartHandshake(s) ==
  /\ send' = [send EXCEPT ![s] = "syn"]
  /\ writer' = [writer EXCEPT ![s] = "write"]
  /\ reading' = [reading EXCEPT ![s] = TRUE]
  /\ Goto(s, "shake")

ReadAnswer(s) ==
  /\ pc[s] = "connect"
  /\ answer[Other(User[s])] # Nobody
  /\ peer' = [peer EXCEPT ![s] = answer[Other(User[s])]]
  /\ answer' = [answer EXCEPT ![Other(User[s])] = Nobody]
  /\ StartHandshake(s)
  /\ UNCHANGED <<offer, role, net, messages>>

WriteAnswer(s) ==
  /\ pc[s] = "listen"
  /\ answer' = [answer EXCEPT ![User[s]] = s]
  /\ StartHandshake(s)
  /\ UNCHANGED <<offer, role, peer, net, messages>>

-----------------------------------------------------------------------------
(* Handshake over UDP: two goroutines, which a timeout does not stop *)

Shaking(s) == pc[s] \in {"shake", "failed"}

Send(s) ==
  /\ Shaking(s) /\ writer[s] = "write"
  /\ net' = IF pc[peer[s]] = "closed" THEN net ELSE net \cup {<<peer[s], send[s]>>}
  /\ writer' = [writer EXCEPT ![s] = "check"]
  /\ UNCHANGED <<disco, pc, role, peer, send, reading, messages>>

\* It looks at the word to send next, not at the one it sent.
Check(s) ==
  /\ Shaking(s) /\ writer[s] = "check"
  /\ writer' = [writer EXCEPT ![s] = IF send[s] = "ack" THEN "done" ELSE "write"]
  /\ UNCHANGED <<disco, pc, role, peer, send, reading, net, messages>>

Hear(s, word) ==
  CASE word = "syn" -> "syn-ack"
    [] OTHER -> "ack"

\* Mutant: the first word is enough.
AnyWord(s, word) == TRUE

\* The initiator is done with a syn-ack or an ack, the other with an ack.
Enough(s, word) == word = "ack" \/ (word = "syn-ack" /\ role[s] = "connect")

\* Where a datagram comes from is not looked at.
Receive(s) ==
  /\ Shaking(s) /\ reading[s]
  /\ \E word \in {"syn", "syn-ack", "ack"} :
       /\ <<s, word>> \in net
       /\ send' = [send EXCEPT ![s] = Hear(s, word)]
       /\ reading' = [reading EXCEPT ![s] = ~Enough(s, word)]
  /\ UNCHANGED <<disco, pc, role, peer, writer, net, messages>>

HandshakeDone(s) ==
  /\ pc[s] = "shake" /\ writer[s] = "done" /\ ~reading[s]
  /\ Goto(s, "assoc")
  /\ UNCHANGED <<disco, role, peer, shake, net, messages>>

-----------------------------------------------------------------------------
(* SCTP association and Noise handshake *)

\* SCTP itself: it looks at where datagrams come from.
Associate(s) ==
  /\ pc[s] = "assoc" /\ role[s] = "connect"
  /\ pc[peer[s]] = "assoc" /\ role[peer[s]] = "listen" /\ peer[peer[s]] = s
  /\ pc' = [pc EXCEPT ![s] = "noisewrite", ![peer[s]] = "accept"]
  /\ UNCHANGED <<disco, role, peer, shake, net, messages>>

Push(to, item) == stream' = [stream EXCEPT ![to] = Append(@, item)]

NoiseWrite(s) ==
  /\ pc[s] = "noisewrite"
  /\ Push(peer[s], <<"noise", 1>>)
  /\ Goto(s, "noiseread")
  /\ UNCHANGED <<disco, role, peer, shake, net, reader, written, shown, acked>>

\* The listener has no stream before something comes through it.
AcceptStream(s) ==
  /\ pc[s] = "accept"
  /\ stream[s] # <<>>
  /\ Goto(s, "noiselisten")
  /\ UNCHANGED <<disco, role, peer, shake, net, messages>>

Open(s) == Goto(s, "open") /\ reader' = [reader EXCEPT ![s] = "read"]

\* It reads the first Noise message and writes the second.
NoiseListen(s) ==
  /\ pc[s] = "noiselisten"
  /\ stream' = [stream EXCEPT ![s] = Tail(@), ![peer[s]] = Append(@, <<"noise", 2>>)]
  /\ Open(s)
  /\ UNCHANGED <<disco, role, peer, shake, net, written, shown, acked>>

\* Mutant: it does not wait for the second message.
NoWait(s) == TRUE

NoiseAnswered(s) == stream[s] # <<>>

NoiseRead(s) ==
  /\ pc[s] = "noiseread"
  /\ NoiseAnswered(s)
  /\ stream' = [stream EXCEPT ![s] = IF @ = <<>> THEN @ ELSE Tail(@)]
  /\ Open(s)
  /\ UNCHANGED <<disco, role, peer, shake, net, written, shown, acked>>

-----------------------------------------------------------------------------
(* Messages *)

WriteMessage(s) ==
  /\ pc[s] = "open"
  /\ written[s] < MaxMessages
  /\ written' = [written EXCEPT ![s] = @ + 1]
  /\ Push(peer[s], <<"message", written[s] + 1>>)
  /\ UNCHANGED <<disco, pc, role, peer, shake, net, reader, shown, acked>>

Reading(s, label) == pc[s] = "open" /\ reader[s] = label
ReaderGoto(s, label) == reader' = [reader EXCEPT ![s] = label]

\* The head of the stream stays until the client is sent it: it is the message
\* the goroutine holds.
ReadMessage(s) ==
  /\ Reading(s, "read")
  /\ stream[s] # <<>> /\ Head(stream[s])[1] = "message"
  /\ ReaderGoto(s, "ack")
  /\ UNCHANGED <<disco, pc, role, peer, shake, net, stream, written, shown, acked>>

WriteAck(s) ==
  /\ Reading(s, "ack")
  /\ Push(peer[s], <<"ack", Head(stream[s])[2]>>)
  /\ ReaderGoto(s, "show")
  /\ UNCHANGED <<disco, pc, role, peer, shake, net, written, shown, acked>>

Show(s) ==
  /\ Reading(s, "show")
  /\ shown' = [shown EXCEPT ![s] = Append(@, Head(stream[s])[2])]
  /\ stream' = [stream EXCEPT ![s] = Tail(@)]
  /\ ReaderGoto(s, "read")
  /\ UNCHANGED <<disco, pc, role, peer, shake, net, written, acked>>

ReadAck(s) ==
  /\ Reading(s, "read")
  /\ stream[s] # <<>> /\ Head(stream[s])[1] = "ack"
  /\ acked' = [acked EXCEPT ![s] = @ \cup {Head(stream[s])[2]}]
  /\ stream' = [stream EXCEPT ![s] = Tail(@)]
  /\ UNCHANGED <<disco, pc, role, peer, shake, net, reader, written, shown>>

\* Mutant: the goroutine goes on after an error.
GoOn == "read"

AfterError == "stopped"

\* The ack, the lookup of the sender's key (the vault may be locked) or the RPC's
\* stream fails: the message is dropped.
ReadFails(s) ==
  /\ Reading(s, "ack") \/ Reading(s, "show")
  /\ ReaderGoto(s, AfterError)
  /\ stream' = [stream EXCEPT ![s] = Tail(@)]
  /\ UNCHANGED <<disco, pc, role, peer, shake, net, written, shown, acked>>

-----------------------------------------------------------------------------
(* Endings *)

\* An error or a timeout, before the channel is open.  The listener has none for
\* SCTP: it waits for a client that may be gone.
Fail(s) ==
  /\ \/ pc[s] \in {"connect", "listen", "shake", "noisewrite", "noiseread", "noiselisten"}
     \/ pc[s] = "assoc" /\ role[s] = "connect"
  /\ Goto(s, "failed")
  /\ UNCHANGED <<disco, role, peer, shake, net, messages>>

\* With its socket, a session loses the datagrams it has not read.
CloseSocket(s) ==
  /\ Goto(s, "closed")
  /\ net' = {d \in net : d[1] # s}

\* The RPC returns; the peer may be told.
Close(s) ==
  /\ pc[s] \in {"failed", "open"}
  /\ CloseSocket(s)
  /\ \/ pc[s] = "open" /\ Push(peer[s], <<"closed", 0>>)
     \/ UNCHANGED stream
  /\ UNCHANGED <<disco, role, peer, shake, reader, written, shown, acked>>

\* The peer has told.
ReadClosed(s) ==
  /\ Reading(s, "read")
  /\ stream[s] # <<>> /\ Head(stream[s])[1] = "closed"
  /\ CloseSocket(s)
  /\ ReaderGoto(s, "stopped")
  /\ UNCHANGED <<disco, role, peer, shake, stream, written, shown, acked>>

\* The service stops: what else ends a session that waits for SCTP.
Crash(s) ==
  /\ pc[s] \in {"assoc", "accept"}
  /\ CloseSocket(s)
  /\ UNCHANGED <<disco, role, peer, shake, messages>>

Step(s) ==
  \/ FindOffer(s) \/ WriteOffer(s) \/ ReadAnswer(s) \/ WriteAnswer(s)
  \/ Send(s) \/ Check(s) \/ Receive(s) \/ HandshakeDone(s)
  \/ Associate(s) \/ NoiseWrite(s) \/ AcceptStream(s) \/ NoiseListen(s) \/ NoiseRead(s)
  \/ WriteMessage(s) \/ ReadMessage(s) \/ WriteAck(s) \/ Show(s) \/ ReadAck(s) \/ ReadFails(s)
  \/ Fail(s) \/ Close(s) \/ ReadClosed(s) \/ Crash(s)

Next == (\E u \in Users : Vanish(u)) \/ \E s \in Sessions : Step(s)

Spec == Init /\ [][Next]_vars

-----------------------------------------------------------------------------
(* Properties *)

Before == {"new", "connect", "listen"}
Handshaking == {"shake", "assoc", "noisewrite", "noiseread", "accept", "noiselisten", "open"}

\* A session that sends datagrams has somebody to send them to (a nil address in
\* sctp/handshake.go:13 would panic).
TypeOK ==
  /\ offer \in [Users -> Sessions \cup {Nobody}]
  /\ answer \in [Users -> Sessions \cup {Nobody}]
  /\ pc \in [Sessions -> Before \cup Handshaking \cup {"failed", "closed"}]
  /\ role \in [Sessions -> {"none", "connect", "listen"}]
  /\ peer \in [Sessions -> Sessions \cup {Nobody}]
  /\ \A s \in Sessions : pc[s] \in Handshaking \cup {"listen"} => peer[s] \in Sessions
  /\ send \in [Sessions -> {"syn", "syn-ack", "ack"}]
  /\ writer \in [Sessions -> {"none", "write", "check", "done"}]
  /\ reading \in [Sessions -> BOOLEAN]
  /\ net \subseteq Sessions \X {"syn", "syn-ack", "ack"}
  /\ reader \in [Sessions -> {"off", "read", "ack", "show", "stopped"}]
  /\ written \in [Sessions -> 0..MaxMessages]

\* The reading goroutine of its handshake has heard enough.
Heard(s) == writer[s] # "none" /\ ~reading[s]

\* A session that has finished its handshake has done it with one that sends to
\* it and has the other role: stale offers and answers, and datagrams of earlier
\* sessions (nobody looks where they come from, sctp/client.go:281), do not make it
\* take one for another.
Paired ==
  \A s \in Sessions :
    Heard(s) => peer[peer[s]] = s /\ {role[s], role[peer[s]]} = {"connect", "listen"}

\* Who goes on knows that the other does: the listener hears the last word of the
\* handshake (handshake.go:55), so no SCTP packet reaches a peer that still waits
\* for it, and the initiator tells its user that the channel is open after the
\* listener has opened it (wormhole.go:370).
InOrder ==
  \A s \in Sessions :
    /\ Heard(s) /\ role[s] = "listen" => Heard(peer[s])
    /\ reader[s] # "off" /\ role[s] = "connect" => reader[peer[s]] # "off"

\* The messages a user sees are those the peer has written, in order and without
\* a gap, whatever fails (service/wormhole.go:197).  An ack is sent before the
\* message is handed on (wormhole.go:501): all acknowledged messages but the last
\* have been shown.
AckedShown ==
  \A s \in Sessions :
    /\ shown[s] = [i \in 1..Len(shown[s]) |-> i]
    /\ shown[s] # <<>> => Len(shown[s]) <= written[peer[s]]
    /\ \A n \in acked[s] : n <= Len(shown[peer[s]]) + 1

=============================================================================
