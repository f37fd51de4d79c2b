--------------------------- MODULE WormholeProofs ---------------------------
(***************************************************************************)
(* Why a handshake that ends has paired its two sessions, for any number   *)
(* of sessions of two users that have one at a time, although offers and   *)
(* answers are stale and datagrams do not say who sent them; and why what  *)
(* paired sessions then write is shown in order and without a gap.         *)
(***************************************************************************)
EXTENDS Wormhole, TLAPS, SequenceTheorems

Running(s) == pc[s] \notin {"new", "closed"}

\* A user has one session at a time.
OneRuns ==
  \A r, s \in Sessions : r # s /\ User[r] = User[s] /\ Running(r) => ~Running(s)

\* What a session has where it stands.
Stage(s) ==
  /\ pc[s] = "new" <=> role[s] = "none"
  /\ pc[s] = "connect" => peer[s] = Nobody
  /\ pc[s] \in {"connect", "noisewrite", "noiseread"} => role[s] = "connect"
  /\ pc[s] \in {"listen", "accept", "noiselisten"} => role[s] = "listen"
  /\ pc[s] \in Before => writer[s] = "none"
  /\ pc[s] = "shake" => writer[s] # "none"
  /\ pc[s] \in {"assoc", "noisewrite", "noiseread", "accept", "noiselisten", "open"} => Heard(s)
  /\ pc[s] = "open" => reader[s] # "off"
  /\ writer[s] = "none" => send[s] = "syn" /\ ~reading[s]
  /\ writer[s] # "none" => peer[s] # Nobody
  /\ role[s] = "connect" /\ send[s] = "ack" => ~reading[s]
  /\ reader[s] # "off" => Heard(s)

\* Who a session sends to has the other role.
Partner(s) ==
  /\ role[s] = "none" => peer[s] = Nobody
  /\ role[s] = "listen" => peer[s] # Nobody
  /\ peer[s] # Nobody =>
       /\ User[peer[s]] # User[s]
       /\ role[s] = "connect" => role[peer[s]] = "listen"
       /\ role[s] = "listen" => role[peer[s]] = "connect"

\* Offers are of sessions that connect, answers of sessions that listen.
Posted(u) ==
  /\ offer[u] # Nobody => User[offer[u]] = u /\ role[offer[u]] = "connect"
  /\ answer[u] # Nobody => User[answer[u]] = u /\ role[answer[u]] = "listen"

\* A session reads an answer that was given to it, or to one before it.
Answered(c) ==
  role[c] = "connect" /\ peer[c] # Nobody =>
    peer[peer[c]] = c \/ pc[peer[peer[c]]] = "closed"

\* As long as a session whose offer was taken runs, no other offer is found.
Taken(l) ==
  role[l] = "listen" /\ pc[peer[l]] # "closed" =>
    /\ offer[User[peer[l]]] \in {Nobody, peer[l]}
    /\ \A k \in Sessions :
         role[k] = "listen" /\ User[k] = User[l] /\ pc[k] # "closed" => peer[k] = peer[l]

\* Who has heard anything has heard it from the session it sends to.
Mutual(r) == send[r] # "syn" /\ pc[peer[r]] # "closed" => peer[peer[r]] = r

\* What is in the network was sent by a session that has heard as much.
Sender(r, s, word) ==
  /\ peer[r] = s /\ writer[r] # "none"
  /\ word # "syn" => send[r] # "syn"
  /\ word = "ack" /\ role[r] = "connect" => send[r] = "ack"

Datagrams ==
  \A d \in net : pc[d[1]] # "closed" /\ \E r \in Sessions : Sender(r, d[1], d[2])

PairedAt(s) ==
  Heard(s) =>
    /\ peer[peer[s]] = s
    /\ role[s] = "listen" => Heard(peer[s])

\* Nobody writes to a session that connects before it has opened the channel.
Streams ==
  /\ DOMAIN stream = Sessions
  /\ \A s \in Sessions :
       /\ peer[s] = Nobody => stream[s] = <<>>
       /\ role[s] = "connect" /\ (stream[s] # <<>> \/ reader[s] # "off") => reader[peer[s]] # "off"

Inv ==
  /\ TypeOK
  /\ OneRuns
  /\ \A u \in Users : Posted(u)
  /\ \A s \in Sessions : Stage(s) /\ Partner(s) /\ Answered(s) /\ Taken(s) /\ Mutual(s) /\ PairedAt(s)
  /\ Datagrams
  /\ Streams

-----------------------------------------------------------------------------
\* There are two users.
LEMMA OtherUser ==
  ASSUME NEW u \in Users
  PROVE  Other(u) \in Users /\ Other(u) # u /\ \A v \in Users : v # u => v = Other(u)
<1>1. PICK v \in Users : v # u /\ Users = {u, v}
  BY UsersAssumption
<1>2. Other(u) = v
  BY <1>1 DEF Other
<1> QED BY <1>1, <1>2

\* Before anything is sent.
LEMMA Initially == Init => Inv
<1> SUFFICES ASSUME Init PROVE Inv
  OBVIOUS
<1>1. TypeOK
  BY BoundsAssumption DEF Init, TypeOK, Before, Handshaking
<1>2. ASSUME NEW s \in Sessions
      PROVE  Stage(s) /\ Partner(s) /\ Answered(s) /\ Taken(s) /\ Mutual(s) /\ PairedAt(s)
  BY <1>2 DEF Init, Stage, Partner, Answered, Taken, Mutual, PairedAt, Heard, Before
<1>3. OneRuns /\ (\A u \in Users : Posted(u)) /\ Datagrams /\ Streams
  BY DEF Init, OneRuns, Running, Posted, Datagrams, Streams
<1> QED BY <1>1, <1>2, <1>3 DEF Inv

-----------------------------------------------------------------------------
\* After the handshake nothing but the stages and the streams can be disturbed.
LEMMA AfterShake ==
  ASSUME Inv, TypeOK', \A s \in Sessions : Stage(s)', Streams',
         UNCHANGED <<disco, role, peer, shake, net>>,
         \A s \in Sessions : /\ pc'[s] = "new" <=> pc[s] = "new"
                             /\ pc'[s] = "closed" <=> pc[s] = "closed"
  PROVE  Inv'
<1> USE DEF disco, shake
<1>1. OneRuns'
  BY DEF Inv, OneRuns, Running
<1>2. ASSUME NEW u \in Users PROVE Posted(u)'
  BY <1>2 DEF Inv, Posted
<1>3. ASSUME NEW s \in Sessions
      PROVE  Partner(s)' /\ Mutual(s)' /\ PairedAt(s)' /\ Answered(s)' /\ Taken(s)'
  <2>1. Partner(s)' /\ PairedAt(s)'
    BY DEF Inv, Partner, PairedAt, Heard
  <2>2. Answered(s)'
    <3> SUFFICES ASSUME role[s] = "connect", peer[s] # Nobody
                 PROVE  peer[peer[s]] = s \/ pc'[peer[peer[s]]] = "closed"
      BY DEF Answered
    <3>1. peer[s] \in Sessions /\ role[peer[s]] = "listen"
      BY <1>3 DEF Inv, TypeOK, Partner
    <3>2. peer[peer[s]] \in Sessions
      BY <3>1 DEF Inv, TypeOK, Partner
    <3> QED BY <1>3, <3>2 DEF Inv, Answered
  <2>4. Mutual(s)'
    <3> SUFFICES ASSUME send[s] # "syn", pc'[peer[s]] # "closed"
                 PROVE  peer[peer[s]] = s
      BY DEF Mutual
    <3>1. peer[s] \in Sessions
      BY <1>3 DEF Inv, TypeOK, Stage
    <3> QED BY <1>3, <3>1 DEF Inv, Mutual
  <2>3. Taken(s)'
    BY DEF Inv, TypeOK, Partner, Taken
  <2> QED BY <2>1, <2>2, <2>3, <2>4
<1>4. Datagrams'
  BY DEF Inv, TypeOK, Datagrams, Sender
<1> QED BY <1>1, <1>2, <1>3, <1>4 DEF Inv

\* A session that is closed leaves its socket.
LEMMA Closing ==
  ASSUME Inv, TypeOK', Streams', NEW s \in Sessions, Running(s),
         CloseSocket(s), UNCHANGED <<disco, role, peer, shake>>,
         UNCHANGED reader \/ (reader[s] # "off" /\ reader' = [reader EXCEPT ![s] = "stopped"])
  PROVE  Inv'
<1> USE DEF disco, shake, CloseSocket, Goto, Running
<1>1. OneRuns'
  BY DEF Inv, TypeOK, OneRuns
<1>2. ASSUME NEW u \in Users PROVE Posted(u)'
  BY <1>2 DEF Inv, Posted
<1>3. ASSUME NEW q \in Sessions
      PROVE  Stage(q)' /\ Partner(q)' /\ Mutual(q)' /\ PairedAt(q)' /\ Answered(q)' /\ Taken(q)'
  <2>1. Partner(q)' /\ PairedAt(q)'
    BY DEF Inv, Partner, PairedAt, Heard
  <2>2. Stage(q)'
    BY DEF Inv, TypeOK, Stage, Heard, Before
  <2>3. Answered(q)'
    BY DEF Inv, TypeOK, Partner, Answered
  <2>4. Mutual(q)'
    BY DEF Inv, TypeOK, Partner, Mutual, Stage
  <2>5. Taken(q)'
    BY DEF Inv, TypeOK, Partner, Taken
  <2> QED BY <2>1, <2>2, <2>3, <2>4, <2>5
<1>4. Datagrams'
  BY DEF Inv, TypeOK, Datagrams, Sender
<1> QED BY <1>1, <1>2, <1>3, <1>4 DEF Inv

\* The handshake is over.
LEMMA HandshakeDoneKeeps ==
  ASSUME Inv, NEW s \in Sessions, HandshakeDone(s)
  PROVE  Inv'
<1> USE NobodyAssumption, BoundsAssumption
    DEF HandshakeDone, disco, shake, messages, Goto
<1>1. TypeOK'
  BY DEF Inv, TypeOK, Before, Handshaking, Stage
<1>2. ASSUME NEW q \in Sessions PROVE Stage(q)'
  BY <1>2 DEF Inv, TypeOK, Stage, Heard, Before
<1>3. Streams'
  BY DEF Inv, TypeOK, Stage, Partner, PairedAt, Streams
<1>4. ASSUME NEW q \in Sessions
      PROVE  /\ pc'[q] = "new" <=> pc[q] = "new"
             /\ pc'[q] = "closed" <=> pc[q] = "closed"
  BY <1>4 DEF Inv, TypeOK
<1> QED BY <1>1, <1>2, <1>3, <1>4, AfterShake

\* Both ends have an association.
LEMMA AssociateKeeps ==
  ASSUME Inv, NEW s \in Sessions, Associate(s)
  PROVE  Inv'
<1> USE NobodyAssumption, BoundsAssumption
    DEF Associate, disco, shake, messages, Goto
<1>1. TypeOK'
  BY DEF Inv, TypeOK, Before, Handshaking, Stage
<1>2. ASSUME NEW q \in Sessions PROVE Stage(q)'
  BY <1>2 DEF Inv, TypeOK, Stage, Heard, Before
<1>3. Streams'
  BY DEF Inv, TypeOK, Stage, Partner, PairedAt, Streams
<1>4. ASSUME NEW q \in Sessions
      PROVE  /\ pc'[q] = "new" <=> pc[q] = "new"
             /\ pc'[q] = "closed" <=> pc[q] = "closed"
  BY <1>4 DEF Inv, TypeOK
<1> QED BY <1>1, <1>2, <1>3, <1>4, AfterShake

\* The first word of the Noise handshake.
LEMMA NoiseWriteKeeps ==
  ASSUME Inv, NEW s \in Sessions, NoiseWrite(s)
  PROVE  Inv'
<1> USE NobodyAssumption, BoundsAssumption
    DEF NoiseWrite, disco, shake, messages, Goto
<1>1. TypeOK'
  BY DEF Inv, TypeOK, Before, Handshaking, Stage, Push
<1>2. ASSUME NEW q \in Sessions PROVE Stage(q)'
  BY <1>2 DEF Inv, TypeOK, Stage, Heard, Before
<1>3. Streams'
  <2>1. Heard(s) /\ role[s] = "connect"
    BY DEF Inv, Stage
  <2>2. peer[s] \in Sessions /\ role[peer[s]] = "listen" /\ peer[peer[s]] = s
    BY <2>1 DEF Inv, TypeOK, Stage, Partner, PairedAt, Heard
  <2> QED BY <2>1, <2>2 DEF Inv, Streams, Push
<1>4. ASSUME NEW q \in Sessions
      PROVE  /\ pc'[q] = "new" <=> pc[q] = "new"
             /\ pc'[q] = "closed" <=> pc[q] = "closed"
  BY <1>4 DEF Inv, TypeOK
<1> QED BY <1>1, <1>2, <1>3, <1>4, AfterShake

\* The stream is there.
LEMMA AcceptStreamKeeps ==
  ASSUME Inv, NEW s \in Sessions, AcceptStream(s)
  PROVE  Inv'
<1> USE NobodyAssumption, BoundsAssumption
    DEF AcceptStream, disco, shake, messages, Goto
<1>1. TypeOK'
  BY DEF Inv, TypeOK, Before, Handshaking, Stage
<1>2. ASSUME NEW q \in Sessions PROVE Stage(q)'
  BY <1>2 DEF Inv, TypeOK, Stage, Heard, Before
<1>3. Streams'
  BY DEF Inv, TypeOK, Stage, Partner, PairedAt, Streams
<1>4. ASSUME NEW q \in Sessions
      PROVE  /\ pc'[q] = "new" <=> pc[q] = "new"
             /\ pc'[q] = "closed" <=> pc[q] = "closed"
  BY <1>4 DEF Inv, TypeOK
<1> QED BY <1>1, <1>2, <1>3, <1>4, AfterShake

\* The listener opens.
LEMMA NoiseListenKeeps ==
  ASSUME Inv, NEW s \in Sessions, NoiseListen(s)
  PROVE  Inv'
<1> USE NobodyAssumption, BoundsAssumption
    DEF NoiseListen, disco, shake, messages, Goto, Open
<1>1. TypeOK'
  BY DEF Inv, TypeOK, Before, Handshaking, Stage
<1>2. ASSUME NEW q \in Sessions PROVE Stage(q)'
  BY <1>2 DEF Inv, TypeOK, Stage, Heard, Before
<1>3. Streams'
  BY DEF Inv, TypeOK, Stage, Partner, PairedAt, Streams
<1>4. ASSUME NEW q \in Sessions
      PROVE  /\ pc'[q] = "new" <=> pc[q] = "new"
             /\ pc'[q] = "closed" <=> pc[q] = "closed"
  BY <1>4 DEF Inv, TypeOK
<1> QED BY <1>1, <1>2, <1>3, <1>4, AfterShake

\* The initiator opens.
LEMMA NoiseReadKeeps ==
  ASSUME Inv, NEW s \in Sessions, NoiseRead(s)
  PROVE  Inv'
<1> USE NobodyAssumption, BoundsAssumption
    DEF NoiseRead, disco, shake, messages, Goto, Open, NoiseAnswered
<1>1. TypeOK'
  BY DEF Inv, TypeOK, Before, Handshaking, Stage
<1>2. ASSUME NEW q \in Sessions PROVE Stage(q)'
  BY <1>2 DEF Inv, TypeOK, Stage, Heard, Before
<1>3. Streams'
  BY DEF Inv, TypeOK, Stage, Partner, PairedAt, Streams
<1>4. ASSUME NEW q \in Sessions
      PROVE  /\ pc'[q] = "new" <=> pc[q] = "new"
             /\ pc'[q] = "closed" <=> pc[q] = "closed"
  BY <1>4 DEF Inv, TypeOK
<1> QED BY <1>1, <1>2, <1>3, <1>4, AfterShake

\* A message is written.
LEMMA WriteMessageKeeps ==
  ASSUME Inv, NEW s \in Sessions, WriteMessage(s)
  PROVE  Inv'
<1> USE NobodyAssumption, BoundsAssumption
    DEF WriteMessage, disco, shake, messages, Goto
<1>1. TypeOK'
  BY DEF Inv, TypeOK, Before, Handshaking, Stage, Push
<1>2. ASSUME NEW q \in Sessions PROVE Stage(q)'
  BY <1>2 DEF Inv, TypeOK, Stage, Heard, Before
<1>3. Streams'
  BY DEF Inv, TypeOK, Stage, Partner, PairedAt, Streams, Push
<1>4. ASSUME NEW q \in Sessions
      PROVE  /\ pc'[q] = "new" <=> pc[q] = "new"
             /\ pc'[q] = "closed" <=> pc[q] = "closed"
  BY <1>4 DEF Inv, TypeOK
<1> QED BY <1>1, <1>2, <1>3, <1>4, AfterShake

\* A message is read.
LEMMA ReadMessageKeeps ==
  ASSUME Inv, NEW s \in Sessions, ReadMessage(s)
  PROVE  Inv'
<1> USE NobodyAssumption, BoundsAssumption
    DEF ReadMessage, disco, shake, messages, Goto, Reading, ReaderGoto
<1>1. TypeOK'
  BY DEF Inv, TypeOK, Before, Handshaking, Stage
<1>2. ASSUME NEW q \in Sessions PROVE Stage(q)'
  BY <1>2 DEF Inv, TypeOK, Stage, Heard, Before
<1>3. Streams'
  BY DEF Inv, TypeOK, Stage, Partner, PairedAt, Streams
<1>4. ASSUME NEW q \in Sessions
      PROVE  /\ pc'[q] = "new" <=> pc[q] = "new"
             /\ pc'[q] = "closed" <=> pc[q] = "closed"
  BY <1>4 DEF Inv, TypeOK
<1> QED BY <1>1, <1>2, <1>3, <1>4, AfterShake

\* Its ack is written.
LEMMA WriteAckKeeps ==
  ASSUME Inv, NEW s \in Sessions, WriteAck(s)
  PROVE  Inv'
<1> USE NobodyAssumption, BoundsAssumption
    DEF WriteAck, disco, shake, messages, Goto, Reading, ReaderGoto
<1>1. TypeOK'
  BY DEF Inv, TypeOK, Before, Handshaking, Stage, Push
<1>2. ASSUME NEW q \in Sessions PROVE Stage(q)'
  BY <1>2 DEF Inv, TypeOK, Stage, Heard, Before
<1>3. Streams'
  BY DEF Inv, TypeOK, Stage, Partner, PairedAt, Streams, Push
<1>4. ASSUME NEW q \in Sessions
      PROVE  /\ pc'[q] = "new" <=> pc[q] = "new"
             /\ pc'[q] = "closed" <=> pc[q] = "closed"
  BY <1>4 DEF Inv, TypeOK
<1> QED BY <1>1, <1>2, <1>3, <1>4, AfterShake

\* It is shown.
LEMMA ShowKeeps ==
  ASSUME Inv, NEW s \in Sessions, Show(s)
  PROVE  Inv'
<1> USE NobodyAssumption, BoundsAssumption
    DEF Show, disco, shake, messages, Goto, Reading, ReaderGoto
<1>1. TypeOK'
  BY DEF Inv, TypeOK, Before, Handshaking, Stage
<1>2. ASSUME NEW q \in Sessions PROVE Stage(q)'
  BY <1>2 DEF Inv, TypeOK, Stage, Heard, Before
<1>3. Streams'
  BY DEF Inv, TypeOK, Stage, Partner, PairedAt, Streams
<1>4. ASSUME NEW q \in Sessions
      PROVE  /\ pc'[q] = "new" <=> pc[q] = "new"
             /\ pc'[q] = "closed" <=> pc[q] = "closed"
  BY <1>4 DEF Inv, TypeOK
<1> QED BY <1>1, <1>2, <1>3, <1>4, AfterShake

\* An ack is read.
LEMMA ReadAckKeeps ==
  ASSUME Inv, NEW s \in Sessions, ReadAck(s)
  PROVE  Inv'
<1> USE NobodyAssumption, BoundsAssumption
    DEF ReadAck, disco, shake, messages, Goto, Reading
<1>1. TypeOK'
  BY DEF Inv, TypeOK, Before, Handshaking, Stage
<1>2. ASSUME NEW q \in Sessions PROVE Stage(q)'
  BY <1>2 DEF Inv, TypeOK, Stage, Heard, Before
<1>3. Streams'
  BY DEF Inv, TypeOK, Stage, Partner, PairedAt, Streams
<1>4. ASSUME NEW q \in Sessions
      PROVE  /\ pc'[q] = "new" <=> pc[q] = "new"
             /\ pc'[q] = "closed" <=> pc[q] = "closed"
  BY <1>4 DEF Inv, TypeOK
<1> QED BY <1>1, <1>2, <1>3, <1>4, AfterShake

\* Reading ends.
LEMMA ReadFailsKeeps ==
  ASSUME Inv, NEW s \in Sessions, ReadFails(s)
  PROVE  Inv'
<1> USE NobodyAssumption, BoundsAssumption
    DEF ReadFails, disco, shake, messages, Goto, Reading, ReaderGoto, AfterError
<1>1. TypeOK'
  BY DEF Inv, TypeOK, Before, Handshaking, Stage
<1>2. ASSUME NEW q \in Sessions PROVE Stage(q)'
  BY <1>2 DEF Inv, TypeOK, Stage, Heard, Before
<1>3. Streams'
  BY DEF Inv, TypeOK, Stage, Partner, PairedAt, Streams
<1>4. ASSUME NEW q \in Sessions
      PROVE  /\ pc'[q] = "new" <=> pc[q] = "new"
             /\ pc'[q] = "closed" <=> pc[q] = "closed"
  BY <1>4 DEF Inv, TypeOK
<1> QED BY <1>1, <1>2, <1>3, <1>4, AfterShake

\* An error.
LEMMA FailKeeps ==
  ASSUME Inv, NEW s \in Sessions, Fail(s)
  PROVE  Inv'
<1> USE NobodyAssumption, BoundsAssumption
    DEF Fail, disco, shake, messages, Goto
<1>1. TypeOK'
  BY DEF Inv, TypeOK, Before, Handshaking, Stage
<1>2. ASSUME NEW q \in Sessions PROVE Stage(q)'
  BY <1>2 DEF Inv, TypeOK, Stage, Heard, Before
<1>3. Streams'
  BY DEF Inv, TypeOK, Stage, Partner, PairedAt, Streams
<1>4. ASSUME NEW q \in Sessions
      PROVE  /\ pc'[q] = "new" <=> pc[q] = "new"
             /\ pc'[q] = "closed" <=> pc[q] = "closed"
  BY <1>4 DEF Inv, TypeOK
<1> QED BY <1>1, <1>2, <1>3, <1>4, AfterShake

\* The RPC returns.
LEMMA CloseKeeps ==
  ASSUME Inv, NEW s \in Sessions, Close(s)
  PROVE  Inv'
<1> USE NobodyAssumption DEF Close, disco, shake, messages
<1>1. TypeOK'
  BY DEF CloseSocket, Goto, Inv, TypeOK, Before, Handshaking
<1>2. Streams'
  BY DEF Inv, TypeOK, Stage, Partner, PairedAt, Streams, Push
<1>3. Running(s)
  BY DEF Running
<1> QED BY <1>1, <1>2, <1>3, Closing DEF Inv, Stage

\* The peer has closed.
LEMMA ReadClosedKeeps ==
  ASSUME Inv, NEW s \in Sessions, ReadClosed(s)
  PROVE  Inv'
<1> USE NobodyAssumption DEF ReadClosed, disco, shake, messages, Reading, ReaderGoto
<1>1. TypeOK'
  BY DEF CloseSocket, Goto, Inv, TypeOK, Before, Handshaking
<1>2. Streams'
  BY DEF Inv, TypeOK, Stage, Partner, PairedAt, Streams, Push
<1>3. Running(s)
  BY DEF Running
<1> QED BY <1>1, <1>2, <1>3, Closing DEF Inv, Stage

\* The service stops.
LEMMA CrashKeeps ==
  ASSUME Inv, NEW s \in Sessions, Crash(s)
  PROVE  Inv'
<1> USE NobodyAssumption DEF Crash, disco, shake, messages
<1>1. TypeOK'
  BY DEF CloseSocket, Goto, Inv, TypeOK, Before, Handshaking
<1>2. Streams'
  BY DEF Inv, TypeOK, Stage, Partner, PairedAt, Streams, Push
<1>3. Running(s)
  BY DEF Running
<1> QED BY <1>1, <1>2, <1>3, Closing DEF Inv, Stage

\* An offer is written.
LEMMA WriteOfferKeeps ==
  ASSUME OneAtATime, Inv, NEW s \in Sessions, WriteOffer(s)
  PROVE  Inv'
<1> USE NobodyAssumption DEF WriteOffer, disco, shake, messages, Goto
<1>1. TypeOK'
  BY OtherUser, UsersAssumption DEF Inv, TypeOK, Before, Handshaking, Stage
<1>2. OneRuns'
  BY DEF Inv, TypeOK, OneRuns, Running
<1>3. ASSUME NEW u \in Users PROVE Posted(u)'
  BY <1>3, OtherUser, UsersAssumption DEF Inv, TypeOK, Posted, Stage
<1>4. ASSUME NEW q \in Sessions PROVE Stage(q)'
  BY <1>4 DEF Inv, TypeOK, Stage, Heard, Before
<1>5. ASSUME NEW q \in Sessions PROVE Partner(q)'
  BY <1>5, OtherUser, UsersAssumption DEF Inv, TypeOK, Posted, Partner, Stage
<1>6. ASSUME NEW q \in Sessions PROVE Answered(q)'
  BY <1>6 DEF Inv, TypeOK, Answered, Partner, Stage
<1>7. ASSUME NEW q \in Sessions PROVE Taken(q)'
  <2> SUFFICES ASSUME role[q] = "listen", pc[peer[q]] # "closed", User[peer[q]] = User[s]
               PROVE  peer[q] = s
    BY <1>7, UsersAssumption DEF Inv, TypeOK, Taken
  <2>1. peer[q] \in Sessions /\ role[peer[q]] = "connect"
    BY <1>7 DEF Inv, TypeOK, Partner
  <2>2. Running(peer[q]) /\ Running(s)
    BY <2>1 DEF Running, Inv, Stage
  <2> QED BY <2>1, <2>2 DEF Inv, OneRuns
<1>8. ASSUME NEW q \in Sessions PROVE Mutual(q)'
  BY <1>8 DEF Inv, TypeOK, Mutual, Partner, Stage
<1>9. ASSUME NEW q \in Sessions PROVE PairedAt(q)'
  BY <1>9 DEF Inv, TypeOK, PairedAt, Heard, Partner, Stage
<1>10. Datagrams'
  BY DEF Inv, TypeOK, Datagrams, Sender, Stage
<1>11. Streams'
  BY DEF Inv, TypeOK, Streams, Stage
<1> QED BY <1>1, <1>2, <1>3, <1>4, <1>5, <1>6, <1>7, <1>8, <1>9, <1>10, <1>11 DEF Inv

\* A session begins.
LEMMA FindOfferKeeps ==
  ASSUME OneAtATime, Inv, NEW s \in Sessions, FindOffer(s)
  PROVE  Inv'
<1> DEFINE v == Other(User[s])
           found == offer[v]
<1> USE NobodyAssumption DEF disco, shake, messages, Goto
<1>1. /\ pc[s] = "new" /\ role[s] = "none" /\ peer[s] = Nobody
      /\ writer[s] = "none" /\ send[s] = "syn" /\ ~reading[s] /\ reader[s] = "off"
  BY DEF FindOffer, Inv, TypeOK, Stage, Partner, Before, Heard
<1>2. /\ User[s] \in Users /\ v \in Users /\ v # User[s]
      /\ \A r \in Sessions : User[r] # User[s] => User[r] = v
  BY OtherUser, UsersAssumption
<1>3. /\ found \in Sessions \cup {Nobody}
      /\ found # Nobody => User[found] = v /\ role[found] = "connect" /\ found # s
  BY <1>1, <1>2 DEF Inv, TypeOK, Posted
<1>4. \A r \in Sessions \ {s} : User[r] = User[s] => ~Running(r)
  BY DEF FindOffer, MayStart, Running
<1>5. /\ role' = [role EXCEPT ![s] = IF found = Nobody THEN "connect" ELSE "listen"]
      /\ peer' = [peer EXCEPT ![s] = found]
      /\ pc' = [pc EXCEPT ![s] = IF found = Nobody THEN "connect" ELSE "listen"]
      /\ offer' = [offer EXCEPT ![v] = Nobody]
      /\ UNCHANGED <<answer, shake, net, messages>>
  BY DEF FindOffer
<1> HIDE DEF v, found
<1>6. TypeOK'
  BY <1>2, <1>3, <1>5 DEF Inv, TypeOK, Before, Handshaking
<1>7. OneRuns'
  BY <1>4, <1>5 DEF Inv, TypeOK, OneRuns, Running
<1>8. ASSUME NEW u \in Users PROVE Posted(u)'
  BY <1>1, <1>5, <1>8 DEF Inv, TypeOK, Posted
<1>9. ASSUME NEW q \in Sessions PROVE Stage(q)'
  BY <1>1, <1>5, <1>9 DEF Inv, TypeOK, Stage, Heard, Before
<1>10. \A q \in Sessions : peer[q] # s
  BY <1>1 DEF Inv, TypeOK, Partner
<1>11. ASSUME NEW q \in Sessions PROVE Partner(q)'
  BY <1>2, <1>3, <1>5, <1>10, <1>11 DEF Inv, TypeOK, Partner
<1>12. ASSUME NEW q \in Sessions PROVE Answered(q)'
  <2> SUFFICES ASSUME role'[q] = "connect", peer'[q] # Nobody
               PROVE  peer'[peer'[q]] = q \/ pc'[peer'[peer'[q]]] = "closed"
    BY DEF Answered
  <2>1. q # s /\ role[q] = "connect" /\ peer'[q] = peer[q] /\ peer[q] \in Sessions /\ peer[q] # s
    BY <1>5, <1>10, <1>12 DEF Inv, TypeOK
  <2>2. peer'[peer[q]] = peer[peer[q]] /\ peer[peer[q]] # s
    BY <1>5, <1>10, <2>1 DEF Inv, TypeOK
  <2> QED BY <1>5, <1>12, <2>1, <2>2 DEF Inv, TypeOK, Answered
<1>13. ASSUME NEW q \in Sessions, role'[q] = "listen", pc'[peer'[q]] # "closed"
       PROVE  offer'[User[peer'[q]]] \in {Nobody, peer'[q]}
  <2>1. CASE q = s
    <3>1. peer'[s] = found /\ found # Nobody
      BY <1>5, <1>13, <2>1 DEF Inv, TypeOK
    <3> QED BY <1>2, <1>3, <1>5, <2>1, <3>1 DEF Inv, TypeOK
  <2>2. CASE q # s
    <3>1. role[q] = "listen" /\ peer'[q] = peer[q] /\ peer[q] \in Sessions /\ pc[peer[q]] # "closed"
      BY <1>5, <1>10, <1>13, <2>2 DEF Inv, TypeOK, Partner
    <3>2. offer[User[peer[q]]] \in {Nobody, peer[q]} /\ User[peer[q]] \in Users
      BY <1>13, <3>1, UsersAssumption DEF Inv, Taken
    <3> QED BY <1>5, <3>1, <3>2 DEF Inv, TypeOK
  <2> QED BY <2>1, <2>2
<1>14. ASSUME NEW q \in Sessions, role'[q] = "listen", pc'[peer'[q]] # "closed",
              NEW k \in Sessions, role'[k] = "listen", User[k] = User[q], pc'[k] # "closed"
       PROVE  peer'[k] = peer'[q]
  <2>1. CASE q = s
    <3>1. k = s
      <4> SUFFICES ASSUME k # s PROVE FALSE
        OBVIOUS
      <4>1. role[k] = "listen" /\ pc[k] # "closed"
        BY <1>5, <1>14 DEF Inv, TypeOK
      <4> QED BY <1>4, <1>14, <2>1, <4>1 DEF Running, Inv, Stage
    <3> QED BY <2>1, <3>1
  <2>2. CASE q # s
    <3>1. role[q] = "listen" /\ peer'[q] = peer[q] /\ peer[q] \in Sessions /\ pc[peer[q]] # "closed"
      BY <1>5, <1>10, <1>14, <2>2 DEF Inv, TypeOK, Partner
    <3>2. CASE k = s
      <4>1. User[peer[q]] = v
        BY <1>2, <1>14, <3>1, <3>2 DEF Inv, Partner
      <4>2. found \in {Nobody, peer[q]}
        BY <1>14, <3>1, <4>1 DEF Inv, Taken, found
      <4>3. peer'[k] = found /\ found # Nobody
        BY <1>5, <1>14, <3>2 DEF Inv, TypeOK
      <4> QED BY <3>1, <4>2, <4>3
    <3>3. CASE k # s
      <4>1. role[k] = "listen" /\ pc[k] # "closed" /\ peer'[k] = peer[k]
        BY <1>5, <1>14, <3>3 DEF Inv, TypeOK
      <4> QED BY <1>14, <3>1, <4>1 DEF Inv, Taken
    <3> QED BY <3>2, <3>3
  <2> QED BY <2>1, <2>2
<1>15. ASSUME NEW q \in Sessions PROVE Taken(q)'
  BY <1>13, <1>14, <1>15 DEF Taken
<1>16. ASSUME NEW q \in Sessions PROVE Mutual(q)'
  BY <1>1, <1>5, <1>10, <1>16 DEF Inv, TypeOK, Mutual, Stage
<1>17. ASSUME NEW q \in Sessions PROVE PairedAt(q)'
  BY <1>1, <1>5, <1>10, <1>17 DEF Inv, TypeOK, PairedAt, Heard, Stage
<1>18. Datagrams'
  BY <1>1, <1>5 DEF Inv, TypeOK, Datagrams, Sender
<1>19. Streams'
  BY <1>1, <1>5 DEF Inv, TypeOK, Streams
<1> QED BY <1>6, <1>7, <1>8, <1>9, <1>11, <1>12, <1>15, <1>16, <1>17, <1>18, <1>19 DEF Inv

\* An answer is read.
LEMMA ReadAnswerKeeps ==
  ASSUME OneAtATime, Inv, NEW s \in Sessions, ReadAnswer(s)
  PROVE  Inv'
<1> DEFINE v == Other(User[s])
           found == answer[v]
<1> USE NobodyAssumption DEF disco, shake, messages, Goto
<1>1. /\ pc[s] = "connect" /\ role[s] = "connect" /\ peer[s] = Nobody
      /\ writer[s] = "none" /\ reader[s] = "off" /\ stream[s] = <<>>
  BY DEF ReadAnswer, Inv, TypeOK, Stage, Streams, Before, Heard
<1>2. /\ User[s] \in Users /\ v \in Users /\ v # User[s]
      /\ \A r \in Sessions : User[r] # v => User[r] = User[s]
  BY OtherUser, UsersAssumption
<1>3. found \in Sessions /\ found # s /\ User[found] = v /\ role[found] = "listen"
  BY <1>1, <1>2 DEF ReadAnswer, Inv, TypeOK, Posted
<1>4. /\ peer' = [peer EXCEPT ![s] = found]
      /\ answer' = [answer EXCEPT ![v] = Nobody]
      /\ send' = [send EXCEPT ![s] = "syn"]
      /\ writer' = [writer EXCEPT ![s] = "write"]
      /\ reading' = [reading EXCEPT ![s] = TRUE]
      /\ pc' = [pc EXCEPT ![s] = "shake"]
      /\ UNCHANGED <<offer, role, net, messages>>
  BY DEF ReadAnswer, StartHandshake
<1> HIDE DEF v, found
<1>5. TypeOK'
  BY <1>3, <1>4 DEF Inv, TypeOK, Before, Handshaking
<1>6. OneRuns'
  BY <1>1, <1>4 DEF Inv, TypeOK, OneRuns, Running
<1>7. ASSUME NEW u \in Users PROVE Posted(u)'
  BY <1>4, <1>7 DEF Inv, TypeOK, Posted
<1>8. ASSUME NEW q \in Sessions PROVE Stage(q)'
  BY <1>1, <1>3, <1>4, <1>8 DEF Inv, TypeOK, Stage, Heard, Before
<1>9. ASSUME NEW q \in Sessions PROVE Partner(q)'
  BY <1>1, <1>2, <1>3, <1>4, <1>9 DEF Inv, TypeOK, Partner
<1>10. peer[found] = s \/ pc[peer[found]] = "closed"
  <2>1. peer[found] \in Sessions /\ User[peer[found]] = User[s] /\ role[peer[found]] = "connect"
    BY <1>2, <1>3 DEF Inv, TypeOK, Partner
  <2>2. Running(s) /\ pc[peer[found]] # "new"
    BY <1>1, <2>1 DEF Running, Inv, Stage
  <2> QED BY <2>1, <2>2 DEF Inv, OneRuns, Running
<1>11. ASSUME NEW q \in Sessions PROVE Answered(q)'
  <2>1. CASE q = s
    BY <1>3, <1>4, <1>10, <2>1 DEF Inv, TypeOK, Answered
  <2>2. CASE q # s
    <3> SUFFICES ASSUME role[q] = "connect", peer[q] # Nobody
                 PROVE  peer'[peer[q]] = q \/ pc'[peer'[peer[q]]] = "closed"
      BY <1>4, <2>2 DEF Inv, TypeOK, Answered
    <3>1. peer[q] \in Sessions /\ role[peer[q]] = "listen"
      BY <1>11 DEF Inv, TypeOK, Partner
    <3>2. peer'[peer[q]] = peer[peer[q]]
      BY <1>1, <1>4, <3>1 DEF Inv, TypeOK
    <3>3. peer[peer[q]] = q \/ pc[peer[peer[q]]] = "closed"
      BY <1>11 DEF Inv, Answered
    <3> QED BY <1>1, <1>4, <3>2, <3>3 DEF Inv, TypeOK
  <2> QED BY <2>1, <2>2
<1>12. ASSUME NEW q \in Sessions PROVE Taken(q)'
  BY <1>1, <1>4, <1>12 DEF Inv, TypeOK, Taken, Partner
<1>13. ASSUME NEW q \in Sessions PROVE Mutual(q)'
  BY <1>1, <1>4, <1>13 DEF Inv, TypeOK, Mutual, Stage
<1>14. ASSUME NEW q \in Sessions PROVE PairedAt(q)'
  <2> SUFFICES ASSUME q # s, Heard(q) PROVE PairedAt(q)'
    BY <1>4, <1>14 DEF Inv, TypeOK, PairedAt, Heard
  <2>1. peer[q] \in Sessions /\ peer[q] # s
    BY <1>1, <1>14 DEF Inv, TypeOK, PairedAt, Stage, Heard
  <2> QED BY <1>4, <1>14, <2>1 DEF Inv, TypeOK, PairedAt, Heard
<1>15. Datagrams'
  <2> SUFFICES ASSUME NEW d \in net
               PROVE  pc'[d[1]] # "closed" /\ \E r \in Sessions : Sender(r, d[1], d[2])'
    BY <1>4 DEF Datagrams
  <2>1. PICK r \in Sessions : Sender(r, d[1], d[2])
    BY DEF Inv, Datagrams
  <2>2. r # s
    BY <1>1, <2>1 DEF Sender
  <2>3. Sender(r, d[1], d[2])'
    BY <1>4, <2>1, <2>2 DEF Sender, Inv, TypeOK
  <2>4. pc[d[1]] # "closed"
    BY DEF Inv, Datagrams
  <2> QED BY <1>4, <2>3, <2>4 DEF Inv, TypeOK
<1>16. Streams'
  BY <1>1, <1>4 DEF Inv, TypeOK, Streams
<1> QED BY <1>5, <1>6, <1>7, <1>8, <1>9, <1>11, <1>12, <1>13, <1>14, <1>15, <1>16 DEF Inv

\* An answer is written.
LEMMA WriteAnswerKeeps ==
  ASSUME OneAtATime, Inv, NEW s \in Sessions, WriteAnswer(s)
  PROVE  Inv'
<1> USE NobodyAssumption DEF WriteAnswer, disco, shake, messages, Goto, StartHandshake
<1>1. TypeOK'
  BY OtherUser, UsersAssumption DEF Inv, TypeOK, Before, Handshaking, Stage
<1>2. OneRuns'
  BY DEF Inv, TypeOK, OneRuns, Running
<1>3. ASSUME NEW u \in Users PROVE Posted(u)'
  BY <1>3, OtherUser, UsersAssumption DEF Inv, TypeOK, Posted, Stage
<1>4. ASSUME NEW q \in Sessions PROVE Stage(q)'
  BY <1>4 DEF Inv, TypeOK, Stage, Heard, Before
<1>5. ASSUME NEW q \in Sessions PROVE Partner(q)'
  BY <1>5, OtherUser, UsersAssumption DEF Inv, TypeOK, Posted, Partner, Stage
<1>6. ASSUME NEW q \in Sessions PROVE Answered(q)'
  BY <1>6 DEF Inv, TypeOK, Answered, Partner, Stage
<1>7. ASSUME NEW q \in Sessions PROVE Taken(q)'
  BY <1>7 DEF Inv, TypeOK, Taken, Partner, Stage
<1>8. ASSUME NEW q \in Sessions PROVE Mutual(q)'
  BY <1>8 DEF Inv, TypeOK, Mutual, Partner, Stage
<1>9. ASSUME NEW q \in Sessions PROVE PairedAt(q)'
  <2> SUFFICES ASSUME q # s, Heard(q) PROVE PairedAt(q)'
    BY <1>9 DEF Inv, TypeOK, PairedAt, Heard
  <2>1. peer[q] \in Sessions /\ (role[q] = "listen" => role[peer[q]] = "connect")
    BY <1>9 DEF Inv, TypeOK, Stage, Partner, Heard
  <2>2. role[s] = "listen"
    BY DEF Inv, Stage
  <2> QED BY <1>9, <2>1, <2>2 DEF Inv, TypeOK, PairedAt, Heard
<1>10. Datagrams'
  <2> SUFFICES ASSUME NEW d \in net
               PROVE  pc'[d[1]] # "closed" /\ \E r \in Sessions : Sender(r, d[1], d[2])'
    BY DEF Datagrams
  <2>1. PICK r \in Sessions : Sender(r, d[1], d[2])
    BY DEF Inv, Datagrams
  <2>2. r # s
    BY <2>1 DEF Sender, Inv, Stage, Before
  <2>3. Sender(r, d[1], d[2])'
    BY <2>1, <2>2 DEF Sender, Inv, TypeOK
  <2>4. pc[d[1]] # "closed"
    BY DEF Inv, Datagrams
  <2> QED BY <2>3, <2>4 DEF Inv, TypeOK
<1>11. Streams'
  BY DEF Inv, TypeOK, Streams, Stage
<1> QED BY <1>1, <1>2, <1>3, <1>4, <1>5, <1>6, <1>7, <1>8, <1>9, <1>10, <1>11 DEF Inv

\* A datagram is sent.
LEMMA SendKeeps ==
  ASSUME OneAtATime, Inv, NEW s \in Sessions, Send(s)
  PROVE  Inv'
<1> USE NobodyAssumption DEF Send, disco, shake, messages, Goto, Shaking
<1>1. TypeOK'
  BY OtherUser, UsersAssumption DEF Inv, TypeOK, Before, Handshaking, Stage
<1>2. OneRuns'
  BY DEF Inv, TypeOK, OneRuns, Running
<1>3. ASSUME NEW u \in Users PROVE Posted(u)'
  BY <1>3, OtherUser, UsersAssumption DEF Inv, TypeOK, Posted, Stage
<1>4. ASSUME NEW q \in Sessions PROVE Stage(q)'
  BY <1>4 DEF Inv, TypeOK, Stage, Heard, Before
<1>5. ASSUME NEW q \in Sessions PROVE Partner(q)'
  BY <1>5, OtherUser, UsersAssumption DEF Inv, TypeOK, Posted, Partner, Stage
<1>6. ASSUME NEW q \in Sessions PROVE Answered(q)'
  BY <1>6 DEF Inv, TypeOK, Answered, Partner, Stage
<1>7. ASSUME NEW q \in Sessions PROVE Taken(q)'
  BY <1>7 DEF Inv, TypeOK, Taken, Partner, Stage
<1>8. ASSUME NEW q \in Sessions PROVE Mutual(q)'
  BY <1>8 DEF Inv, TypeOK, Mutual, Partner, Stage
<1>9. ASSUME NEW q \in Sessions PROVE PairedAt(q)'
  BY <1>9 DEF Inv, TypeOK, PairedAt, Heard, Partner, Stage
<1>10. Datagrams'
  BY DEF Inv, TypeOK, Datagrams, Sender, Stage
<1>11. Streams'
  BY DEF Inv, TypeOK, Streams, Stage
<1> QED BY <1>1, <1>2, <1>3, <1>4, <1>5, <1>6, <1>7, <1>8, <1>9, <1>10, <1>11 DEF Inv

\* The writing goroutine looks at the next word.
LEMMA CheckKeeps ==
  ASSUME OneAtATime, Inv, NEW s \in Sessions, Check(s)
  PROVE  Inv'
<1> USE NobodyAssumption DEF Check, disco, shake, messages, Goto, Shaking
<1>1. TypeOK'
  BY OtherUser, UsersAssumption DEF Inv, TypeOK, Before, Handshaking, Stage
<1>2. OneRuns'
  BY DEF Inv, TypeOK, OneRuns, Running
<1>3. ASSUME NEW u \in Users PROVE Posted(u)'
  BY <1>3, OtherUser, UsersAssumption DEF Inv, TypeOK, Posted, Stage
<1>4. ASSUME NEW q \in Sessions PROVE Stage(q)'
  BY <1>4 DEF Inv, TypeOK, Stage, Heard, Before
<1>5. ASSUME NEW q \in Sessions PROVE Partner(q)'
  BY <1>5, OtherUser, UsersAssumption DEF Inv, TypeOK, Posted, Partner, Stage
<1>6. ASSUME NEW q \in Sessions PROVE Answered(q)'
  BY <1>6 DEF Inv, TypeOK, Answered, Partner, Stage
<1>7. ASSUME NEW q \in Sessions PROVE Taken(q)'
  BY <1>7 DEF Inv, TypeOK, Taken, Partner, Stage
<1>8. ASSUME NEW q \in Sessions PROVE Mutual(q)'
  BY <1>8 DEF Inv, TypeOK, Mutual, Partner, Stage
<1>9. ASSUME NEW q \in Sessions PROVE PairedAt(q)'
  BY <1>9 DEF Inv, TypeOK, PairedAt, Heard, Partner, Stage
<1>10. Datagrams'
  BY DEF Inv, TypeOK, Datagrams, Sender, Stage
<1>11. Streams'
  BY DEF Inv, TypeOK, Streams, Stage
<1> QED BY <1>1, <1>2, <1>3, <1>4, <1>5, <1>6, <1>7, <1>8, <1>9, <1>10, <1>11 DEF Inv

\* A word is heard.
LEMMA ReceiveKeeps ==
  ASSUME OneAtATime, Inv, NEW s \in Sessions, Receive(s)
  PROVE  Inv'
<1> USE NobodyAssumption DEF disco, messages
<1>1. PICK word \in {"syn", "syn-ack", "ack"} :
           /\ <<s, word>> \in net
           /\ send' = [send EXCEPT ![s] = Hear(s, word)]
           /\ reading' = [reading EXCEPT ![s] = ~Enough(s, word)]
  BY DEF Receive
<1>2. UNCHANGED <<disco, pc, role, peer, writer, net, messages>>
  BY DEF Receive
<1>3. PICK r \in Sessions : Sender(r, s, word)
  BY <1>1 DEF Inv, Datagrams
<1>4. /\ pc[s] \in {"shake", "failed"} /\ reading[s] /\ writer[s] # "none"
      /\ peer[s] \in Sessions /\ ~Heard(s) /\ reader[s] = "off"
  BY DEF Receive, Shaking, Inv, TypeOK, Stage, Heard
<1>5. /\ peer[r] = s /\ User[r] # User[s]
      /\ role[r] \in {"connect", "listen"}
      /\ role[r] = "connect" => role[s] = "listen"
      /\ role[r] = "listen" => role[s] = "connect"
  BY <1>3 DEF Inv, TypeOK, Partner, Sender
<1>6. TypeOK'
  BY <1>1, <1>2 DEF Inv, TypeOK, Hear
<1>7. OneRuns' /\ Streams'
  BY <1>2 DEF Inv, OneRuns, Running, Streams
<1>8. ASSUME NEW u \in Users PROVE Posted(u)'
  BY <1>2, <1>8 DEF Inv, Posted
<1>9. ASSUME NEW q \in Sessions PROVE Stage(q)'
  <2>1. CASE q = s
    BY <1>1, <1>2, <1>4, <2>1 DEF Inv, TypeOK, Stage, Heard, Before, Hear, Enough
  <2>2. CASE q # s
    BY <1>1, <1>2, <1>9, <2>2 DEF Inv, TypeOK, Stage, Heard, Before
  <2> QED BY <2>1, <2>2
<1>10. ASSUME NEW q \in Sessions PROVE Partner(q)' /\ Answered(q)' /\ Taken(q)'
  BY <1>2, <1>10 DEF Inv, Partner, Answered, Taken
<1>11. pc[peer[s]] # "closed" => peer[peer[s]] = s
  <2>1. CASE role[r] = "connect"
    BY <1>3, <1>4, <1>5, <2>1 DEF Inv, TypeOK, Answered, Sender
  <2>2. CASE role[r] = "listen"
    <3>1. role[peer[s]] = "listen" /\ User[peer[s]] # User[s]
      BY <1>4, <1>5, <2>2 DEF Inv, TypeOK, Partner
    <3>2. User[peer[s]] = User[r]
      BY <1>4, <1>5, <3>1, UsersAssumption
    <3> QED BY <1>4, <1>5, <2>2, <3>1, <3>2 DEF Inv, Taken
  <2> QED BY <1>5, <2>1, <2>2
<1>12. ASSUME NEW q \in Sessions PROVE Mutual(q)'
  BY <1>1, <1>2, <1>11, <1>12 DEF Inv, TypeOK, Mutual
<1>13. ASSUME Enough(s, word)
       PROVE  peer[s] = r /\ (role[s] = "listen" => Heard(r))
  <2>1. word # "syn"
    BY <1>13 DEF Enough
  <2>2. send[r] # "syn" /\ pc[peer[r]] # "closed"
    BY <1>3, <1>4, <1>5, <2>1 DEF Sender
  <2>3. peer[s] = r
    BY <1>5, <2>2 DEF Inv, Mutual
  <2>4. ASSUME role[s] = "listen" PROVE Heard(r)
    <3>1. word = "ack" /\ role[r] = "connect"
      BY <1>5, <1>13, <2>4 DEF Enough
    <3> QED BY <1>3, <3>1 DEF Sender, Inv, Stage, Heard
  <2> QED BY <2>3, <2>4
<1>14. ASSUME NEW q \in Sessions PROVE PairedAt(q)'
  <2>1. CASE q = s
    <3> SUFFICES ASSUME Heard(s)' PROVE PairedAt(s)'
      BY <2>1 DEF PairedAt
    <3>1. Enough(s, word)
      BY <1>1 DEF Heard, Inv, TypeOK
    <3>2. peer[peer[s]] = s /\ peer[s] # s
      BY <1>5, <1>13, <3>1
    <3>3. role[s] = "listen" => Heard(peer[s])
      BY <1>13, <3>1
    <3> QED BY <1>1, <1>2, <3>2, <3>3 DEF PairedAt, Heard, Inv, TypeOK
  <2>2. CASE q # s
    BY <1>1, <1>2, <1>4, <1>14, <2>2 DEF Inv, TypeOK, PairedAt, Heard
  <2> QED BY <2>1, <2>2
<1>15. Datagrams'
  <2> SUFFICES ASSUME NEW d \in net
               PROVE  \E p \in Sessions : Sender(p, d[1], d[2])'
    BY <1>2 DEF Inv, Datagrams
  <2>1. PICK p \in Sessions : Sender(p, d[1], d[2])
    BY DEF Inv, Datagrams
  <2>2. CASE p = s
    BY <1>1, <1>2, <1>4, <2>1, <2>2 DEF Sender, Inv, TypeOK, Stage, Hear
  <2>3. CASE p # s
    BY <1>1, <1>2, <2>1, <2>3 DEF Sender, Inv, TypeOK
  <2> QED BY <2>2, <2>3
<1> QED BY <1>6, <1>7, <1>8, <1>9, <1>10, <1>12, <1>14, <1>15 DEF Inv

\* An offer or an answer is gone.
LEMMA VanishKeeps ==
  ASSUME Inv, NEW u \in Users, Vanish(u)
  PROVE  Inv'
<1> USE DEF Vanish, shake, messages
<1>1. TypeOK'
  BY DEF Inv, TypeOK
<1>5. OneRuns' /\ Streams'
  BY DEF Inv, OneRuns, Running, Streams
<1>6. Datagrams'
  BY DEF Inv, Datagrams, Sender
<1>2. ASSUME NEW v \in Users PROVE Posted(v)'
  BY <1>2 DEF Inv, TypeOK, Posted
<1>3. ASSUME NEW s \in Sessions
      PROVE  Stage(s)' /\ Partner(s)' /\ Answered(s)' /\ Mutual(s)' /\ PairedAt(s)'
  BY <1>3 DEF Inv, Stage, Partner, Answered, Mutual, PairedAt, Heard
<1>4. ASSUME NEW s \in Sessions PROVE Taken(s)'
  BY <1>4, UsersAssumption DEF Inv, TypeOK, Taken, Partner
<1> QED BY <1>1, <1>2, <1>3, <1>4, <1>5, <1>6 DEF Inv

-----------------------------------------------------------------------------
\* Every step keeps the invariant, while a user has one session at a time.
LEMMA Inductive == OneAtATime /\ Inv /\ [Next]_vars => Inv'
<1> SUFFICES ASSUME OneAtATime, Inv, [Next]_vars PROVE Inv'
  OBVIOUS
<1>1. CASE UNCHANGED vars
  <2>1. TypeOK' /\ OneRuns' /\ Datagrams' /\ Streams'
    BY <1>1 DEF vars, disco, shake, messages, Inv, TypeOK, OneRuns, Running, Datagrams, Sender, Streams
  <2>2. ASSUME NEW u \in Users PROVE Posted(u)'
    BY <1>1, <2>2 DEF vars, disco, Inv, Posted
  <2>3. ASSUME NEW s \in Sessions
        PROVE  Stage(s)' /\ Partner(s)' /\ Answered(s)' /\ Taken(s)' /\ Mutual(s)' /\ PairedAt(s)'
    BY <1>1, <2>3 DEF vars, disco, shake, messages,
                      Inv, Stage, Partner, Answered, Taken, Mutual, PairedAt, Heard
  <2> QED BY <2>1, <2>2, <2>3 DEF Inv
<1>2. ASSUME NEW u \in Users, Vanish(u) PROVE Inv'
  BY <1>2, VanishKeeps
<1>3. ASSUME NEW s \in Sessions, Step(s) PROVE Inv'
  BY <1>3, FindOfferKeeps, WriteOfferKeeps, ReadAnswerKeeps, WriteAnswerKeeps,
     SendKeeps, CheckKeeps, ReceiveKeeps, HandshakeDoneKeeps, AssociateKeeps,
     NoiseWriteKeeps, AcceptStreamKeeps, NoiseListenKeeps, NoiseReadKeeps,
     WriteMessageKeeps, ReadMessageKeeps, WriteAckKeeps, ShowKeeps, ReadAckKeeps,
     ReadFailsKeeps, FailKeeps, CloseKeeps, ReadClosedKeeps, CrashKeeps
     DEF Step
<1> QED BY <1>1, <1>2, <1>3 DEF Next

\* The invariant of the proof holds in every reachable state.
THEOREM Invariance == ASSUME OneAtATime PROVE Spec => []Inv
BY Initially, Inductive, PTL DEF Spec

\* A session that sends datagrams has somebody to send them to.
THEOREM TypeCorrect == ASSUME OneAtATime PROVE Spec => []TypeOK
BY Invariance, PTL DEF Inv

\* A session that has finished its handshake has done it with one that sends to it
\* and has the other role, whatever offers, answers and datagrams are left over.
THEOREM SessionsPaired == ASSUME OneAtATime PROVE Spec => []Paired
<1>1. ASSUME Inv PROVE Paired
  <2> SUFFICES ASSUME NEW s \in Sessions, Heard(s)
               PROVE  peer[peer[s]] = s /\ {role[s], role[peer[s]]} = {"connect", "listen"}
    BY DEF Paired
  <2>1. peer[peer[s]] = s /\ peer[s] # Nobody
    BY <1>1 DEF Inv, PairedAt, Stage, Heard
  <2>2. \/ role[s] = "connect" /\ role[peer[s]] = "listen"
        \/ role[s] = "listen" /\ role[peer[s]] = "connect"
    BY <1>1, <2>1 DEF Inv, TypeOK, Partner
  <2> QED BY <2>1, <2>2
<1> QED BY <1>1, Invariance, PTL

\* The listener ends its handshake after the initiator, the initiator opens the
\* channel after the listener.
THEOREM ChannelsInOrder == ASSUME OneAtATime PROVE Spec => []InOrder
<1>1. Inv => InOrder
  BY DEF Inv, InOrder, PairedAt, Streams
<1> QED BY <1>1, Invariance, PTL

-----------------------------------------------------------------------------
(* What is on its way in a stream *)

Words == {"noise", "message", "ack", "closed"}
Items == Seq(Words \X Nat)

\* The messages in stream st are some of lo + 1 to w, in order; its acks are of
\* messages that the other end has shown, or is about to.
Good(st, lo, w, n) ==
  /\ \A i \in 1..Len(st) : st[i][1] = "message" => lo < st[i][2] /\ st[i][2] <= w
  /\ \A i, j \in 1..Len(st) :
       i < j /\ st[i][1] = "message" /\ st[j][1] = "message" => st[i][2] < st[j][2]
  /\ \A i \in 1..Len(st) : st[i][1] = "ack" => st[i][2] <= n + 1

\* They are all of them.
Complete(st, lo, w) ==
  \A m \in (lo + 1)..w : \E i \in 1..Len(st) : st[i] = <<"message", m>>

LEMMA AppendIs ==
  ASSUME NEW st \in Items, NEW item \in Words \X Nat
  PROVE  /\ Append(st, item) \in Items
         /\ Len(st) \in Nat /\ Len(Append(st, item)) = Len(st) + 1
         /\ \A i \in 1..Len(st) : Append(st, item)[i] = st[i]
         /\ Append(st, item)[Len(st) + 1] = item
BY AppendProperties, LenProperties DEF Items

LEMMA TailIs ==
  ASSUME NEW st \in Items, st # <<>>
  PROVE  /\ Tail(st) \in Items
         /\ Len(st) \in Nat \ {0} /\ Len(Tail(st)) = Len(st) - 1
         /\ \A i \in 1..(Len(st) - 1) : Tail(st)[i] = st[i + 1]
         /\ Head(st) = st[1] /\ st[1] \in Words \X Nat
BY HeadTailProperties, EmptySeq, LenProperties, ElementOfSeq DEF Items

\* Something else than a message or an ack is added.
LEMMA AddWord ==
  ASSUME NEW st \in Items, NEW lo \in Nat, NEW w \in Nat, NEW n \in Nat,
         NEW word \in {"noise", "closed"}, NEW k \in Nat
  PROVE  /\ Good(st, lo, w, n) => Good(Append(st, <<word, k>>), lo, w, n)
         /\ Complete(st, lo, w) => Complete(Append(st, <<word, k>>), lo, w)
<1> DEFINE new == Append(st, <<word, k>>)
<1>1. <<word, k>> \in Words \X Nat
  BY DEF Words
<1>2. /\ Len(st) \in Nat /\ Len(new) = Len(st) + 1
      /\ \A i \in 1..Len(st) : new[i] = st[i]
      /\ new[Len(st) + 1] = <<word, k>>
  BY <1>1, AppendIs
<1> HIDE DEF new
<1>3. \A i \in 1..Len(new) : new[i][1] \in {"message", "ack"} => i \in 1..Len(st) /\ new[i] = st[i]
  BY <1>2
<1>4. Good(st, lo, w, n) => Good(new, lo, w, n)
  BY <1>3 DEF Good
<1>5. Complete(st, lo, w) => Complete(new, lo, w)
  <2>1. \A i \in 1..Len(st) : i \in 1..Len(new) /\ new[i] = st[i]
    BY <1>2
  <2> QED BY <2>1 DEF Complete
<1> QED BY <1>4, <1>5 DEF new

\* The next message is added.
LEMMA AddMessage ==
  ASSUME NEW st \in Items, NEW lo \in Nat, NEW w \in Nat, NEW n \in Nat,
         Good(st, lo, w, n), lo <= w
  PROVE  /\ Good(Append(st, <<"message", w + 1>>), lo, w + 1, n)
         /\ Complete(st, lo, w) => Complete(Append(st, <<"message", w + 1>>), lo, w + 1)
<1> DEFINE new == Append(st, <<"message", w + 1>>)
<1>1. <<"message", w + 1>> \in Words \X Nat
  BY DEF Words
<1>2. /\ Len(st) \in Nat /\ Len(new) = Len(st) + 1
      /\ \A i \in 1..Len(st) : new[i] = st[i] /\ st[i] \in Words \X Nat
      /\ new[Len(st) + 1] = <<"message", w + 1>>
  BY <1>1, AppendIs, ElementOfSeq DEF Items
<1> HIDE DEF new
<1>3. \A i \in 1..Len(new) : \/ i \in 1..Len(st) /\ new[i] = st[i] /\ new[i][2] \in Nat
                             \/ i = Len(st) + 1 /\ new[i][1] = "message" /\ new[i][2] = w + 1
  BY <1>2
<1>4. Good(new, lo, w + 1, n)
  <2>1. \A i \in 1..Len(new) : new[i][1] = "message" => lo < new[i][2] /\ new[i][2] <= w + 1
    BY <1>3 DEF Good
  <2>2. ASSUME NEW i \in 1..Len(new), NEW j \in 1..Len(new), i < j,
               new[i][1] = "message", new[j][1] = "message"
        PROVE  new[i][2] < new[j][2]
    <3>1. i \in 1..Len(st) /\ new[i] = st[i] /\ st[i][2] <= w /\ st[i][2] \in Nat
      BY <1>2, <1>3, <2>2 DEF Good
    <3>2. CASE j = Len(st) + 1
      BY <1>2, <3>1, <3>2
    <3>3. CASE j # Len(st) + 1
      BY <1>3, <2>2, <3>1, <3>3 DEF Good
    <3> QED BY <3>2, <3>3
  <2>3. \A i \in 1..Len(new) : new[i][1] = "ack" => new[i][2] <= n + 1
    BY <1>3 DEF Good
  <2> QED BY <2>1, <2>2, <2>3 DEF Good
<1>5. Complete(st, lo, w) => Complete(new, lo, w + 1)
  <2> SUFFICES ASSUME Complete(st, lo, w), NEW m \in (lo + 1)..(w + 1)
               PROVE  \E i \in 1..Len(new) : new[i] = <<"message", m>>
    BY DEF Complete
  <2>1. CASE m = w + 1
    BY <1>2, <2>1
  <2>2. CASE m # w + 1
    <3>1. m \in (lo + 1)..w
      BY <2>2
    <3>2. PICK i \in 1..Len(st) : st[i] = <<"message", m>>
      BY <3>1 DEF Complete
    <3>3. i \in 1..Len(new) /\ new[i] = <<"message", m>>
      BY <1>2, <3>2
    <3> QED BY <3>3
  <2> QED BY <2>1, <2>2
<1> QED BY <1>4, <1>5 DEF new

\* An ack is added.
LEMMA AddAck ==
  ASSUME NEW st \in Items, NEW lo \in Nat, NEW w \in Nat, NEW n \in Nat,
         Good(st, lo, w, n)
  PROVE  /\ Good(Append(st, <<"ack", n + 1>>), lo, w, n)
         /\ Complete(st, lo, w) => Complete(Append(st, <<"ack", n + 1>>), lo, w)
<1> DEFINE new == Append(st, <<"ack", n + 1>>)
<1>1. <<"ack", n + 1>> \in Words \X Nat
  BY DEF Words
<1>2. /\ Len(st) \in Nat /\ Len(new) = Len(st) + 1
      /\ \A i \in 1..Len(st) : new[i] = st[i]
      /\ new[Len(st) + 1] = <<"ack", n + 1>>
  BY <1>1, AppendIs
<1> HIDE DEF new
<1>3. \A i \in 1..Len(new) : \/ i \in 1..Len(st) /\ new[i] = st[i]
                             \/ new[i][1] = "ack" /\ new[i][2] = n + 1
  BY <1>2
<1>4. \A i \in 1..Len(new) : new[i][1] = "message" => i \in 1..Len(st) /\ new[i] = st[i]
  BY <1>3
<1>5. Good(new, lo, w, n)
  BY <1>3, <1>4 DEF Good
<1>6. Complete(st, lo, w) => Complete(new, lo, w)
  <2>1. \A i \in 1..Len(st) : i \in 1..Len(new) /\ new[i] = st[i]
    BY <1>2
  <2> QED BY <2>1 DEF Complete
<1> QED BY <1>5, <1>6 DEF new

\* The first item is dropped.
LEMMA DropFirst ==
  ASSUME NEW st \in Items, st # <<>>, NEW lo \in Nat, NEW w \in Nat, NEW n \in Nat,
         Good(st, lo, w, n)
  PROVE  /\ Good(Tail(st), lo, w, n)
         /\ Head(st)[1] # "message" /\ Complete(st, lo, w) => Complete(Tail(st), lo, w)
<1>1. /\ Len(st) \in Nat \ {0} /\ Len(Tail(st)) = Len(st) - 1
      /\ \A i \in 1..(Len(st) - 1) : Tail(st)[i] = st[i + 1]
      /\ Head(st) = st[1]
  BY TailIs
<1>2. \A i \in 1..Len(Tail(st)) : i + 1 \in 1..Len(st) /\ Tail(st)[i] = st[i + 1]
  BY <1>1
<1>3. Good(Tail(st), lo, w, n)
  <2>1. \A i, j \in 1..Len(Tail(st)) : i < j => i + 1 < j + 1
    OBVIOUS
  <2> QED BY <1>2, <2>1 DEF Good
<1>4. ASSUME Head(st)[1] # "message", Complete(st, lo, w), NEW m \in (lo + 1)..w
      PROVE  \E i \in 1..Len(Tail(st)) : Tail(st)[i] = <<"message", m>>
  <2>1. PICK i \in 1..Len(st) : st[i] = <<"message", m>>
    BY <1>4 DEF Complete
  <2>2. i # 1
    BY <1>1, <1>4, <2>1
  <2>3. i - 1 \in 1..(Len(st) - 1) /\ Tail(st)[i - 1] = st[i]
    BY <1>1, <2>2
  <2> QED BY <1>1, <2>1, <2>3
<1> QED BY <1>3, <1>4 DEF Complete

\* The first message is the next one, and is taken out.
LEMMA TakeMessage ==
  ASSUME NEW st \in Items, st # <<>>, NEW lo \in Nat, NEW w \in Nat, NEW n \in Nat,
         Good(st, lo, w, n), Complete(st, lo, w), Head(st)[1] = "message"
  PROVE  /\ Head(st)[2] = lo + 1 /\ lo + 1 <= w
         /\ Good(Tail(st), lo + 1, w, n) /\ Complete(Tail(st), lo + 1, w)
<1>1. /\ Len(st) \in Nat \ {0} /\ Len(Tail(st)) = Len(st) - 1
      /\ \A i \in 1..(Len(st) - 1) : Tail(st)[i] = st[i + 1]
      /\ Head(st) = st[1]
      /\ \A i \in 1..Len(st) : st[i] \in Words \X Nat
  BY TailIs, ElementOfSeq DEF Items
<1>2. lo < st[1][2] /\ st[1][2] <= w /\ st[1][2] \in Nat
  BY <1>1 DEF Good
<1>3. PICK k \in 1..Len(st) : st[k] = <<"message", lo + 1>>
  <2>1. lo + 1 \in (lo + 1)..w
    BY <1>2
  <2> QED BY <2>1 DEF Complete
<1>4. k = 1
  <2>1. 1 < k => st[1][2] < st[k][2]
    BY <1>1, <1>3 DEF Good
  <2> QED BY <1>2, <1>3, <2>1
<1>5. Head(st)[2] = lo + 1
  BY <1>1, <1>3, <1>4
<1>6. \A i \in 1..Len(Tail(st)) : i + 1 \in 1..Len(st) /\ Tail(st)[i] = st[i + 1] /\ 1 < i + 1
  BY <1>1
<1>7. Good(Tail(st), lo + 1, w, n)
  <2>1. \A i, j \in 1..Len(Tail(st)) : i < j => i + 1 < j + 1
    OBVIOUS
  <2>2. \A i \in 1..Len(Tail(st)) : Tail(st)[i][1] = "message" => lo + 1 < Tail(st)[i][2]
    <3> TAKE i \in 1..Len(Tail(st))
    <3>1. i + 1 \in 1..Len(st) /\ 1 \in 1..Len(st) /\ Tail(st)[i] = st[i + 1] /\ 1 < i + 1
      BY <1>1, <1>6
    <3> QED BY <1>1, <1>5, <3>1 DEF Good
  <2> QED BY <1>6, <2>1, <2>2 DEF Good
<1>8. ASSUME NEW m \in (lo + 1 + 1)..w
      PROVE  \E i \in 1..Len(Tail(st)) : Tail(st)[i] = <<"message", m>>
  <2>1. PICK i \in 1..Len(st) : st[i] = <<"message", m>>
    <3>1. m \in (lo + 1)..w
      BY <1>8
    <3> QED BY <3>1 DEF Complete
  <2>2. i # 1
    <3>1. i = 1 => m = lo + 1
      BY <1>1, <1>5, <2>1
    <3> QED BY <3>1
  <2>3. i - 1 \in 1..(Len(st) - 1) /\ Tail(st)[i - 1] = st[i]
    BY <1>1, <2>2
  <2>4. i - 1 \in 1..Len(Tail(st)) /\ Tail(st)[i - 1] = <<"message", m>>
    BY <1>1, <2>1, <2>3
  <2> QED BY <2>4
<1>9. Complete(Tail(st), lo + 1, w)
  BY <1>8 DEF Complete
<1> QED BY <1>2, <1>5, <1>7, <1>9

-----------------------------------------------------------------------------
(* Sessions that exchange messages *)

\* What a session reads: of another that it has not yet heard, words only.
Reads(s) ==
  IF ~Heard(s) THEN \A i \in 1..Len(stream[s]) : stream[s][i][1] \notin {"message", "ack"}
  ELSE /\ Good(stream[s], Len(shown[s]), written[peer[s]], Len(shown[peer[s]]))
       /\ Len(shown[s]) <= written[peer[s]]
       /\ reader[s] # "stopped" => Complete(stream[s], Len(shown[s]), written[peer[s]])
       /\ \A n \in acked[s] : n <= Len(shown[peer[s]]) + 1

\* What it has done, and what it holds.
Holds(s) ==
  /\ reader[s] = "off" => written[s] = 0 /\ shown[s] = <<>> /\ acked[s] = {}
  /\ shown[s] = [i \in 1..Len(shown[s]) |-> i]
  /\ reader[s] \in {"ack", "show"} => stream[s] # <<>> /\ Head(stream[s])[1] = "message"
  /\ role[s] = "connect" /\ reader[s] = "off" /\ stream[s] # <<>>
       => Head(stream[s])[1] = "noise"
  /\ role[s] = "connect" /\ Heard(s) /\ reader[s] = "off" /\ reader[peer[s]] # "off"
       => stream[s] # <<>>
  /\ pc[s] = "noiselisten" => stream[s] # <<>>
  /\ pc[s] \in Before \cup (Handshaking \ {"open"}) => reader[s] = "off"

FlowTypes ==
  /\ stream \in [Sessions -> Items]
  /\ shown \in [Sessions -> Seq(Nat)]
  /\ acked \in [Sessions -> SUBSET Nat]

FlowInv == FlowTypes /\ \A s \in Sessions : Reads(s) /\ Holds(s)

LEMMA Pairs ==
  ASSUME Inv, NEW s \in Sessions, Heard(s)
  PROVE  /\ peer[s] \in Sessions /\ peer[peer[s]] = s /\ peer[s] # s
         /\ reader[s] # "off" => Heard(peer[s])
         /\ role[s] = "listen" => role[peer[s]] = "connect" /\ Heard(peer[s])
         /\ role[s] = "connect" => role[peer[s]] = "listen"
         /\ \A q \in Sessions \ {s, peer[s]} : Heard(q) => peer[q] \notin {s, peer[s]}
<1>1. peer[s] \in Sessions /\ peer[peer[s]] = s
  BY NobodyAssumption DEF Inv, TypeOK, Stage, Heard, PairedAt
<1>2. \/ role[s] = "connect" /\ role[peer[s]] = "listen"
      \/ role[s] = "listen" /\ role[peer[s]] = "connect" /\ Heard(peer[s])
  BY <1>1, NobodyAssumption DEF Inv, TypeOK, Stage, Partner, PairedAt
<1>3. reader[s] # "off" => Heard(peer[s])
  BY <1>1, <1>2 DEF Inv, Streams, Stage
<1>4. ASSUME NEW q \in Sessions \ {s, peer[s]}, Heard(q) PROVE peer[q] \notin {s, peer[s]}
  BY <1>1, <1>4 DEF Inv, PairedAt
<1> QED BY <1>1, <1>2, <1>3, <1>4

LEMMA SequenceTypes ==
  ASSUME FlowInv, Inv, NEW s \in Sessions
  PROVE  /\ stream[s] \in Items /\ Len(stream[s]) \in Nat
         /\ shown[s] \in Seq(Nat) /\ Len(shown[s]) \in Nat
         /\ acked[s] \subseteq Nat /\ written[s] \in Nat
BY LenProperties, BoundsAssumption DEF FlowInv, FlowTypes, Items, Inv, TypeOK

\* A session that nothing happens to.
LEMMA FlowStays ==
  ASSUME FlowInv, NEW q \in Sessions,
         role'[q] = role[q], peer'[q] = peer[q], Heard(q)' <=> Heard(q),
         stream'[q] = stream[q], reader'[q] = reader[q], written'[q] = written[q],
         shown'[q] = shown[q], acked'[q] = acked[q],
         pc'[q] \in Before \cup (Handshaking \ {"open"}) => reader[q] = "off",
         pc'[q] = "noiselisten" => stream[q] # <<>>,
         Heard(q) => written'[peer[q]] = written[peer[q]] /\ shown'[peer[q]] = shown[peer[q]],
         role[q] = "connect" /\ Heard(q) /\ reader'[peer[q]] # "off" => reader[peer[q]] # "off"
  PROVE  Reads(q)' /\ Holds(q)'
<1>1. Reads(q) /\ Holds(q)
  BY DEF FlowInv
<1>2. Reads(q)'
  BY <1>1 DEF Reads
<1>3. Holds(q)'
  BY <1>1 DEF Holds
<1> QED BY <1>2, <1>3

\* Steps that touch no stream, and nobody hears anything new.
LEMMA QuietFlow ==
  ASSUME Inv, FlowInv, UNCHANGED <<role, peer, messages>>,
         \A q \in Sessions : Heard(q)' <=> Heard(q),
         \A q \in Sessions : pc'[q] \in Before \cup (Handshaking \ {"open"}) => reader[q] = "off",
         \A q \in Sessions : pc'[q] = "noiselisten" => stream[q] # <<>>
  PROVE  FlowInv'
<1> SUFFICES ASSUME NEW q \in Sessions PROVE Reads(q)' /\ Holds(q)'
  BY DEF FlowInv, FlowTypes, messages
<1> QED BY FlowStays DEF messages

LEMMA RendezvousFlow ==
  ASSUME Inv, FlowInv, NEW s \in Sessions, FindOffer(s) \/ ReadAnswer(s) \/ WriteAnswer(s)
  PROVE  FlowInv'
<1>1. UNCHANGED messages /\ pc[s] \in Before /\ ~Heard(s) /\ reader[s] = "off"
  BY DEF FindOffer, ReadAnswer, WriteAnswer, Inv, Stage, Heard, Before, FlowInv, Holds
<1>2. /\ \A q \in Sessions \ {s} : /\ pc'[q] = pc[q] /\ role'[q] = role[q] /\ peer'[q] = peer[q]
                                   /\ Heard(q)' <=> Heard(q)
      /\ ~Heard(s)' /\ pc'[s] \notin {"noiselisten", "open"}
  BY <1>1 DEF FindOffer, ReadAnswer, WriteAnswer, StartHandshake, Goto, shake, Heard, Inv, TypeOK
<1>3. role'[s] = "connect" => stream[s] = <<>>
  <2>1. pc[s] \in {"new", "connect"} => stream[s] = <<>>
    BY DEF Inv, Stage, Partner, Streams
  <2>2. pc[s] = "listen" => role'[s] = "listen"
    BY DEF FindOffer, ReadAnswer, WriteAnswer, Inv, Stage
  <2> QED BY <1>1, <2>1, <2>2 DEF Before
<1>4. Reads(s)' /\ Holds(s)'
  <2>1. Reads(s) /\ Holds(s)
    BY DEF FlowInv
  <2> QED BY <1>1, <1>2, <1>3, <2>1 DEF Reads, Holds, messages
<1>5. ASSUME NEW q \in Sessions \ {s} PROVE Reads(q)' /\ Holds(q)'
  <2>1. pc[q] \in Before \cup (Handshaking \ {"open"}) => reader[q] = "off"
    BY DEF FlowInv, Holds
  <2>2. pc[q] = "noiselisten" => stream[q] # <<>>
    BY DEF FlowInv, Holds
  <2> QED BY <1>1, <1>2, <2>1, <2>2, FlowStays DEF messages
<1> QED BY <1>1, <1>4, <1>5 DEF FlowInv, FlowTypes, messages

\* The steps of the handshakes, and of a session that fails.
LEMMA HandshakeFlow ==
  ASSUME Inv, FlowInv, NEW s \in Sessions,
         WriteOffer(s) \/ Send(s) \/ Check(s) \/ HandshakeDone(s) \/ Associate(s)
           \/ AcceptStream(s) \/ Fail(s) \/ Crash(s)
  PROVE  FlowInv'
<1>1. UNCHANGED <<role, peer, messages, reading>>
  BY DEF WriteOffer, Send, Check, HandshakeDone, Associate, AcceptStream, Fail, Crash,
         CloseSocket, shake
<1>2. ASSUME NEW q \in Sessions PROVE Heard(q)' <=> Heard(q)
  <2>1. writer'[q] = "none" <=> writer[q] = "none"
    BY DEF WriteOffer, Send, Check, HandshakeDone, Associate, AcceptStream, Fail, Crash,
           CloseSocket, shake, Inv, TypeOK
  <2> QED BY <1>1, <2>1 DEF Heard
<1>3. ASSUME NEW q \in Sessions
      PROVE  /\ pc'[q] \in Before \cup (Handshaking \ {"open"}) => reader[q] = "off"
             /\ pc'[q] = "noiselisten" => stream[q] # <<>>
  <2>1. /\ pc[q] \in Before \cup (Handshaking \ {"open"}) => reader[q] = "off"
        /\ pc[q] = "noiselisten" => stream[q] # <<>>
    BY DEF FlowInv, Holds
  <2>2. CASE pc'[q] = pc[q]
    BY <2>1, <2>2
  <2>3. CASE pc'[q] # pc[q]
    BY <2>1, <2>3 DEF WriteOffer, Send, Check, HandshakeDone, Associate, AcceptStream, Fail,
       Crash, CloseSocket, Goto, Before, Handshaking, Inv, TypeOK
  <2> QED BY <2>2, <2>3
<1> QED BY <1>1, <1>2, <1>3, QuietFlow

\* Who hears enough has been written no message yet.
LEMMA ReceiveFlow ==
  ASSUME Inv, Inv', FlowInv, NEW s \in Sessions, Receive(s)
  PROVE  FlowInv'
<1>1. UNCHANGED <<pc, role, peer, writer, messages>>
      /\ \A q \in Sessions \ {s} : reading'[q] = reading[q]
  BY DEF Receive, Inv, TypeOK
<1>2. ~Heard(s) /\ reader[s] = "off"
  BY DEF Receive, Heard, Inv, Stage
<1>3. ASSUME NEW q \in Sessions \ {s} PROVE Reads(q)' /\ Holds(q)'
  <2>1. Heard(q)' <=> Heard(q)
    BY <1>1 DEF Heard
  <2>2. /\ pc[q] \in Before \cup (Handshaking \ {"open"}) => reader[q] = "off"
        /\ pc[q] = "noiselisten" => stream[q] # <<>>
    BY DEF FlowInv, Holds
  <2> QED BY <1>1, <2>1, <2>2, FlowStays DEF messages
<1>4. Holds(s)'
  <2>1. Heard(s)' /\ role[s] = "connect" => reader[peer[s]] = "off"
    <3> SUFFICES ASSUME Heard(s)', role[s] = "connect" PROVE reader[peer[s]] = "off"
      OBVIOUS
    <3>1. peer[s] \in Sessions /\ role[peer[s]] = "listen" /\ peer[peer[s]] = s
      BY <1>1, NobodyAssumption DEF Inv, TypeOK, Stage, Heard, PairedAt, Partner
    <3> QED BY <1>2, <3>1 DEF Inv, Stage, PairedAt
  <2> QED BY <1>1, <2>1 DEF FlowInv, Holds, messages
<1>5. Reads(s)'
  <2>1. CASE ~Heard(s)'
    BY <1>1, <1>2, <2>1 DEF FlowInv, Reads, messages
  <2>2. CASE Heard(s)'
    <3> DEFINE p == peer[s]
    <3>1. /\ p \in Sessions /\ peer[p] = s /\ p # s
          /\ \/ role[s] = "connect" /\ role[p] = "listen"
             \/ role[s] = "listen" /\ role[p] = "connect"
      BY <1>1, <2>2, NobodyAssumption DEF Inv, TypeOK, Stage, Heard, PairedAt, Partner
    <3>2. reader[p] = "off"
      <4>1. role[s] = "connect" => ~Heard(p)
        BY <1>2, <3>1 DEF Inv, PairedAt
      <4>2. role[s] = "listen" => reader[p] = "off"
        BY <1>2, <3>1 DEF Inv, Streams
      <4> QED BY <3>1, <4>1, <4>2 DEF Inv, Stage
    <3>3. written[p] = 0 /\ shown[s] = <<>> /\ acked[s] = {}
      BY <1>2, <3>1, <3>2 DEF FlowInv, Holds
    <3>4. \A i \in 1..Len(stream[s]) : stream[s][i][1] \notin {"message", "ack"}
      BY <1>2 DEF FlowInv, Reads
    <3>5. Len(shown[s]) = 0
      BY <3>3
    <3>6. Good(stream[s], 0, 0, Len(shown[p])) /\ Complete(stream[s], 0, 0)
      BY <3>4 DEF Good, Complete
    <3> QED BY <1>1, <2>2, <3>3, <3>5, <3>6 DEF Reads, messages
  <2> QED BY <2>1, <2>2
<1> QED BY <1>1, <1>3, <1>4, <1>5 DEF FlowInv, FlowTypes, messages

-----------------------------------------------------------------------------
(* The steps of a channel *)

\* Sessions that are not concerned by what s does.
LEMMA OthersFlow ==
  ASSUME Inv, FlowInv, NEW s \in Sessions, Heard(s), UNCHANGED <<role, peer, shake>>,
         \A q \in Sessions \ {s, peer[s]} :
           /\ pc'[q] = pc[q] /\ stream'[q] = stream[q] /\ reader'[q] = reader[q]
           /\ written'[q] = written[q] /\ shown'[q] = shown[q] /\ acked'[q] = acked[q]
  PROVE  \A q \in Sessions \ {s, peer[s]} : Reads(q)' /\ Holds(q)'
<1> SUFFICES ASSUME NEW q \in Sessions \ {s, peer[s]} PROVE Reads(q)' /\ Holds(q)'
  OBVIOUS
<1>1. Heard(q)' <=> Heard(q)
  BY DEF Heard, shake
<1>2. Heard(q) => peer[q] \in Sessions \ {s, peer[s]}
  BY Pairs
<1>3. /\ pc[q] \in Before \cup (Handshaking \ {"open"}) => reader[q] = "off"
      /\ pc[q] = "noiselisten" => stream[q] # <<>>
  BY DEF FlowInv, Holds
<1>4. Heard(q) => /\ written'[peer[q]] = written[peer[q]] /\ shown'[peer[q]] = shown[peer[q]]
                  /\ reader'[peer[q]] = reader[peer[q]]
  BY <1>2
<1> QED BY <1>1, <1>3, <1>4, FlowStays

\* The session that something is sent to.
LEMMA PushFlow ==
  ASSUME Inv, FlowInv, NEW s \in Sessions, Heard(s), UNCHANGED <<role, peer, shake>>,
         NEW p \in Sessions, p = peer[s], NEW item \in Words \X Nat,
         stream'[p] = Append(stream[p], item),
         pc'[p] = pc[p], reader'[p] = reader[p], written'[p] = written[p],
         shown'[p] = shown[p], acked'[p] = acked[p], shown'[s] = shown[s],
         Heard(p) \/ item[1] \notin {"message", "ack"},
         Heard(p) => /\ Good(stream'[p], Len(shown[p]), written'[s], Len(shown[s]))
                     /\ Len(shown[p]) <= written'[s]
                     /\ Complete(stream[p], Len(shown[p]), written[s])
                          => Complete(stream'[p], Len(shown[p]), written'[s]),
         role[p] = "connect" /\ reader[p] = "off" => item[1] = "noise" \/ stream[p] # <<>>
  PROVE  Reads(p)' /\ Holds(p)'
<1>1. Reads(p) /\ Holds(p) /\ stream[p] \in Items /\ peer[p] = s
  BY Pairs, SequenceTypes DEF FlowInv
<1>2. /\ Len(stream[p]) \in Nat /\ Len(stream'[p]) = Len(stream[p]) + 1
      /\ \A i \in 1..Len(stream[p]) : stream'[p][i] = stream[p][i]
      /\ stream'[p][Len(stream[p]) + 1] = item
      /\ stream'[p] \in Items
  BY <1>1, AppendIs
<1>3. Heard(p)' <=> Heard(p)
  BY DEF Heard, shake
<1>4. stream'[p] # <<>>
  BY <1>2, EmptySeq
<1>5. /\ stream[p] # <<>> => Head(stream'[p]) = Head(stream[p])
      /\ stream[p] = <<>> => Head(stream'[p]) = item
  <2>1. Head(stream'[p]) = stream'[p][1]
    BY <1>2, <1>4, TailIs
  <2>2. stream[p] # <<>> => Head(stream[p]) = stream[p][1] /\ Len(stream[p]) # 0
    BY <1>1, TailIs
  <2>3. stream[p] = <<>> => Len(stream[p]) = 0
    BY EmptySeq
  <2> QED BY <1>2, <2>1, <2>2, <2>3
<1>6. Holds(p)'
  <2>1. reader[p] \in {"ack", "show"} => stream[p] # <<>>
    BY <1>1 DEF Holds
  <2> QED BY <1>1, <1>3, <1>4, <1>5, <2>1 DEF Holds
<1>7. Reads(p)'
  <2>1. CASE ~Heard(p)
    BY <1>1, <1>2, <1>3, <2>1 DEF Reads
  <2>2. CASE Heard(p)
    BY <1>1, <1>3, <2>2 DEF Reads
  <2> QED BY <2>1, <2>2
<1> QED BY <1>6, <1>7

\* The session that nothing is sent to, nor shown by its peer.
LEMMA PeerFlow ==
  ASSUME Inv, FlowInv, NEW s \in Sessions, Heard(s), UNCHANGED <<role, peer, shake>>,
         NEW p \in Sessions, p = peer[s],
         pc'[p] = pc[p], stream'[p] = stream[p], reader'[p] = reader[p],
         written'[p] = written[p], shown'[p] = shown[p], acked'[p] = acked[p],
         written'[s] = written[s], shown'[s] = shown[s],
         reader[s] # "off" \/ reader'[s] = "off" \/ role[s] = "connect"
  PROVE  Reads(p)' /\ Holds(p)'
<1>1. peer[p] = s /\ (Heard(p)' <=> Heard(p))
  BY Pairs DEF Heard, shake
<1>2. /\ pc[p] \in Before \cup (Handshaking \ {"open"}) => reader[p] = "off"
      /\ pc[p] = "noiselisten" => stream[p] # <<>>
  BY DEF FlowInv, Holds
<1>3. role[s] = "connect" => role[p] = "listen"
  BY Pairs
<1> QED BY <1>1, <1>2, <1>3, FlowStays

\* The first Noise message.
LEMMA NoiseWriteFlow ==
  ASSUME Inv, FlowInv, NEW s \in Sessions, NoiseWrite(s)
  PROVE  FlowInv'
<1> DEFINE p == peer[s]
<1>1. /\ Heard(s) /\ role[s] = "connect" /\ p \in Sessions /\ p # s /\ peer[p] = s
      /\ role[p] = "listen"
  BY Pairs DEF NoiseWrite, Inv, Stage
<1>2. /\ stream' = [stream EXCEPT ![p] = Append(@, <<"noise", 1>>)]
      /\ pc' = [pc EXCEPT ![s] = "noiseread"]
      /\ UNCHANGED <<role, peer, shake, reader, written, shown, acked>>
  BY DEF NoiseWrite, Push, Goto
<1>3. <<"noise", 1>> \in Words \X Nat
  BY DEF Words
<1>4. /\ stream \in [Sessions -> Items] /\ stream'[p] = Append(stream[p], <<"noise", 1>>)
      /\ \A q \in Sessions \ {p} : stream'[q] = stream[q]
      /\ \A q \in Sessions \ {s} : pc'[q] = pc[q]
      /\ pc'[s] = "noiseread"
  BY <1>1, <1>2 DEF FlowInv, FlowTypes, Inv, TypeOK
<1>5. FlowTypes'
  <2>1. Append(stream[p], <<"noise", 1>>) \in Items
    BY <1>1, <1>3, <1>4, AppendIs
  <2> QED BY <1>2, <2>1 DEF FlowInv, FlowTypes
<1>6. Reads(s)' /\ Holds(s)'
  <2>1. reader[s] = "off"
    BY DEF NoiseWrite, FlowInv, Holds, Handshaking
  <2>2. Heard(s)' <=> Heard(s)
    BY <1>2 DEF Heard, shake
  <2> QED BY <1>1, <1>2, <1>4, <2>1, <2>2, FlowStays
<1>7. Reads(p)' /\ Holds(p)'
  <2>1. Heard(p) => /\ Good(stream'[p], Len(shown[p]), written'[s], Len(shown[s]))
                    /\ Len(shown[p]) <= written'[s]
                    /\ Complete(stream[p], Len(shown[p]), written[s])
                         => Complete(stream'[p], Len(shown[p]), written'[s])
    <3> SUFFICES ASSUME Heard(p)
                 PROVE  /\ Good(stream'[p], Len(shown[p]), written[s], Len(shown[s]))
                        /\ Len(shown[p]) <= written[s]
                        /\ Complete(stream[p], Len(shown[p]), written[s])
                             => Complete(stream'[p], Len(shown[p]), written[s])
      BY <1>2
    <3>1. Good(stream[p], Len(shown[p]), written[s], Len(shown[s])) /\ Len(shown[p]) <= written[s]
      BY <1>1 DEF FlowInv, Reads
    <3>2. /\ stream[p] \in Items /\ Len(shown[p]) \in Nat
          /\ Len(shown[s]) \in Nat /\ written[s] \in Nat
      BY <1>1, SequenceTypes
    <3> HIDE DEF p
    <3>3. Good(Append(stream[p], <<"noise", 1>>), Len(shown[p]), written[s], Len(shown[s]))
      BY <3>1, <3>2, AddWord
    <3>4. Complete(stream[p], Len(shown[p]), written[s])
            => Complete(Append(stream[p], <<"noise", 1>>), Len(shown[p]), written[s])
      BY <3>2, AddWord
    <3> QED BY <1>4, <3>1, <3>3, <3>4
  <2>2. pc'[p] = pc[p]
    BY <1>1, <1>4
  <2> HIDE DEF p
  <2> QED BY <1>1, <1>2, <1>3, <1>4, <2>1, <2>2, PushFlow DEF p
<1>8. \A q \in Sessions \ {s, p} : Reads(q)' /\ Holds(q)'
  <2>1. \A q \in Sessions \ {s, p} :
          /\ pc'[q] = pc[q] /\ stream'[q] = stream[q] /\ reader'[q] = reader[q]
          /\ written'[q] = written[q] /\ shown'[q] = shown[q] /\ acked'[q] = acked[q]
    BY <1>1, <1>2, <1>4
  <2>2. UNCHANGED <<role, peer, shake>>
    BY <1>2
  <2> QED BY <1>1, <2>1, <2>2, OthersFlow
<1>9. ASSUME NEW q \in Sessions PROVE Reads(q)' /\ Holds(q)'
  BY <1>2, <1>6, <1>7, <1>8
<1> QED BY <1>5, <1>9 DEF FlowInv

\* The second one: neither has yet written a message.
LEMMA NoiseListenFlow ==
  ASSUME Inv, FlowInv, NEW s \in Sessions, NoiseListen(s)
  PROVE  FlowInv'
<1> DEFINE p == peer[s]
<1>1. /\ Heard(s) /\ role[s] = "listen" /\ p \in Sessions /\ p # s /\ peer[p] = s
      /\ role[p] = "connect" /\ Heard(p)
  BY Pairs DEF NoiseListen, Inv, Stage
<1>2. /\ stream' = [stream EXCEPT ![s] = Tail(@), ![p] = Append(@, <<"noise", 2>>)]
      /\ pc' = [pc EXCEPT ![s] = "open"] /\ reader' = [reader EXCEPT ![s] = "read"]
      /\ UNCHANGED <<role, peer, shake, written, shown, acked>>
  BY DEF NoiseListen, Open, Goto
<1>3. <<"noise", 2>> \in Words \X Nat
  BY DEF Words
<1>4. /\ stream \in [Sessions -> Items] /\ stream'[p] = Append(stream[p], <<"noise", 2>>)
      /\ stream'[s] = Tail(stream[s])
      /\ \A q \in Sessions \ {s, p} : stream'[q] = stream[q]
      /\ \A q \in Sessions \ {s} : pc'[q] = pc[q] /\ reader'[q] = reader[q]
      /\ pc'[s] = "open" /\ reader'[s] = "read"
  BY <1>1, <1>2 DEF FlowInv, FlowTypes, Inv, TypeOK
<1>5. reader[s] = "off" /\ stream[s] # <<>>
  BY DEF NoiseListen, FlowInv, Holds, Handshaking
<1>6. reader[p] = "off"
  BY <1>1, <1>5 DEF Inv, Streams
<1>7. /\ written[p] = 0 /\ shown[p] = <<>> /\ written[s] = 0 /\ shown[s] = <<>>
      /\ Len(shown[s]) = 0 /\ Len(shown[p]) = 0 /\ acked[s] = {}
  BY <1>1, <1>5, <1>6, EmptySeq DEF FlowInv, Holds
<1>8. FlowTypes'
  <2>1. Append(stream[p], <<"noise", 2>>) \in Items
    BY <1>1, <1>3, <1>4, AppendIs
  <2>2. Tail(stream[s]) \in Items
    BY <1>4, <1>5, TailIs
  <2> QED BY <1>2, <2>1, <2>2 DEF FlowInv, FlowTypes
<1>9. Reads(s)' /\ Holds(s)'
  <2>1. Heard(s)'
    BY <1>1, <1>2 DEF Heard, shake
  <2>2. Good(stream[s], 0, 0, 0) /\ stream[s] \in Items
    BY <1>1, <1>4, <1>7 DEF FlowInv, Reads
  <2>3. Good(stream'[s], 0, 0, 0)
    BY <1>4, <1>5, <2>2, DropFirst
  <2>4. Complete(stream'[s], 0, 0)
    BY DEF Complete
  <2>5. Reads(s)'
    BY <1>1, <1>2, <1>7, <2>1, <2>3, <2>4 DEF Reads
  <2>6. Holds(s)'
    BY <1>1, <1>2, <1>4, <1>7 DEF FlowInv, Holds, Before, Handshaking
  <2> QED BY <2>5, <2>6
<1>10. Reads(p)' /\ Holds(p)'
  <2>1. Good(stream[p], 0, 0, 0) /\ stream[p] \in Items
    BY <1>1, <1>4, <1>7 DEF FlowInv, Reads
  <2>2. Good(stream'[p], 0, 0, 0)
    <3>1. Good(Append(stream[p], <<"noise", 2>>), 0, 0, 0)
      BY <2>1, AddWord
    <3> QED BY <1>4, <3>1
  <2>3. Complete(stream'[p], 0, 0)
    BY DEF Complete
  <2>4. pc'[p] = pc[p] /\ reader'[p] = reader[p]
    BY <1>1, <1>4
  <2>5. Len(shown[p]) <= written'[s]
    BY <1>2, <1>7
  <2>6. /\ Good(stream'[p], Len(shown[p]), written'[s], Len(shown[s]))
        /\ Complete(stream'[p], Len(shown[p]), written'[s])
    BY <1>2, <1>7, <2>2, <2>3
  <2>7. <<"noise", 2>>[1] = "noise"
    OBVIOUS
  <2> HIDE DEF p
  <2> QED BY <1>1, <1>2, <1>3, <1>4, <2>4, <2>5, <2>6, <2>7, PushFlow DEF p
<1>11. \A q \in Sessions \ {s, p} : Reads(q)' /\ Holds(q)'
  <2>1. \A q \in Sessions \ {s, p} :
          /\ pc'[q] = pc[q] /\ stream'[q] = stream[q] /\ reader'[q] = reader[q]
          /\ written'[q] = written[q] /\ shown'[q] = shown[q] /\ acked'[q] = acked[q]
    BY <1>1, <1>2, <1>4
  <2>2. UNCHANGED <<role, peer, shake>>
    BY <1>2
  <2> QED BY <1>1, <2>1, <2>2, OthersFlow
<1>12. ASSUME NEW q \in Sessions PROVE Reads(q)' /\ Holds(q)'
  BY <1>2, <1>9, <1>10, <1>11
<1> QED BY <1>8, <1>12 DEF FlowInv

\* The initiator takes the second one out: what it finds first is no message.
LEMMA NoiseReadFlow ==
  ASSUME Inv, FlowInv, NEW s \in Sessions, NoiseRead(s)
  PROVE  FlowInv'
<1> DEFINE p == peer[s]
<1>1. Heard(s) /\ role[s] = "connect" /\ p \in Sessions /\ p # s /\ peer[p] = s
  BY Pairs DEF NoiseRead, Inv, Stage
<1>2. /\ stream[s] # <<>> /\ stream' = [stream EXCEPT ![s] = Tail(@)]
      /\ pc' = [pc EXCEPT ![s] = "open"] /\ reader' = [reader EXCEPT ![s] = "read"]
      /\ UNCHANGED <<role, peer, shake, written, shown, acked>>
  BY DEF NoiseRead, NoiseAnswered, Open, Goto
<1>3. /\ stream \in [Sessions -> Items] /\ stream'[s] = Tail(stream[s])
      /\ \A q \in Sessions \ {s} : stream'[q] = stream[q] /\ pc'[q] = pc[q] /\ reader'[q] = reader[q]
      /\ pc'[s] = "open" /\ reader'[s] = "read"
  BY <1>2 DEF FlowInv, FlowTypes, Inv, TypeOK
<1>4. reader[s] = "off" /\ Head(stream[s])[1] = "noise"
  BY <1>1, <1>2 DEF NoiseRead, FlowInv, Holds, Handshaking
<1>5. FlowTypes'
  <2>1. Tail(stream[s]) \in Items
    BY <1>2, <1>3, TailIs
  <2> QED BY <1>2, <2>1 DEF FlowInv, FlowTypes
<1>6. Reads(s)' /\ Holds(s)'
  <2>1. Heard(s)'
    BY <1>1, <1>2 DEF Heard, shake
  <2>2. /\ stream[s] \in Items /\ Len(shown[s]) \in Nat
        /\ Len(shown[p]) \in Nat /\ written[p] \in Nat
    BY <1>1, SequenceTypes
  <2>3. /\ Good(stream[s], Len(shown[s]), written[p], Len(shown[p]))
        /\ Complete(stream[s], Len(shown[s]), written[p])
        /\ Len(shown[s]) <= written[p]
        /\ \A n \in acked[s] : n <= Len(shown[p]) + 1
    BY <1>1, <1>4 DEF FlowInv, Reads
  <2>4. /\ Good(stream'[s], Len(shown[s]), written[p], Len(shown[p]))
        /\ Complete(stream'[s], Len(shown[s]), written[p])
    BY <1>2, <1>3, <1>4, <2>2, <2>3, DropFirst
  <2>5. Reads(s)'
    BY <1>1, <1>2, <2>1, <2>3, <2>4 DEF Reads
  <2>6. Holds(s)'
    BY <1>1, <1>2, <1>3 DEF FlowInv, Holds, Before, Handshaking
  <2> QED BY <2>5, <2>6
<1>7. Reads(p)' /\ Holds(p)'
  <2> HIDE DEF p
  <2> QED BY <1>1, <1>2, <1>3, PeerFlow DEF p
<1>8. \A q \in Sessions \ {s, p} : Reads(q)' /\ Holds(q)'
  <2>1. \A q \in Sessions \ {s, p} :
          /\ pc'[q] = pc[q] /\ stream'[q] = stream[q] /\ reader'[q] = reader[q]
          /\ written'[q] = written[q] /\ shown'[q] = shown[q] /\ acked'[q] = acked[q]
    BY <1>1, <1>2, <1>3
  <2>2. UNCHANGED <<role, peer, shake>>
    BY <1>2
  <2> QED BY <1>1, <2>1, <2>2, OthersFlow
<1>9. ASSUME NEW q \in Sessions PROVE Reads(q)' /\ Holds(q)'
  BY <1>2, <1>6, <1>7, <1>8
<1> QED BY <1>5, <1>9 DEF FlowInv

-----------------------------------------------------------------------------
(* Messages and acks *)

\* Who a session with an open channel writes to.
LEMMA OpenPeer ==
  ASSUME Inv, NEW s \in Sessions, pc[s] = "open"
  PROVE  /\ Heard(s) /\ reader[s] # "off"
         /\ peer[s] \in Sessions /\ peer[s] # s /\ peer[peer[s]] = s /\ Heard(peer[s])
BY Pairs DEF Inv, Stage

\* What is written to a session that has not opened its channel comes after a
\* Noise message.
LEMMA NoiseFirst ==
  ASSUME Inv, FlowInv, NEW s \in Sessions, pc[s] = "open",
         role[peer[s]] = "connect", reader[peer[s]] = "off"
  PROVE  stream[peer[s]] # <<>>
<1>1. /\ peer[s] \in Sessions /\ peer[peer[s]] = s /\ Heard(peer[s]) /\ reader[s] # "off"
  BY OpenPeer
<1>2. Holds(peer[s])
  BY <1>1 DEF FlowInv
<1> QED BY <1>1, <1>2 DEF Holds

LEMMA WriteMessageFlow ==
  ASSUME Inv, FlowInv, NEW s \in Sessions, WriteMessage(s)
  PROVE  FlowInv'
<1> DEFINE p == peer[s]
           item == <<"message", written[s] + 1>>
<1>1. /\ Heard(s) /\ reader[s] # "off" /\ p \in Sessions /\ p # s /\ peer[p] = s /\ Heard(p)
      /\ pc[s] = "open"
  BY OpenPeer DEF WriteMessage
<1>2. /\ stream' = [stream EXCEPT ![p] = Append(@, item)]
      /\ written' = [written EXCEPT ![s] = @ + 1]
      /\ UNCHANGED <<pc, role, peer, shake, reader, shown, acked>>
  BY DEF WriteMessage, Push
<1>3. item \in Words \X Nat
  BY SequenceTypes DEF Words
<1>4. /\ stream \in [Sessions -> Items] /\ stream'[p] = Append(stream[p], item)
      /\ \A q \in Sessions \ {p} : stream'[q] = stream[q]
      /\ \A q \in Sessions \ {s} : written'[q] = written[q]
      /\ written'[s] = written[s] + 1
  BY <1>1, <1>2 DEF FlowInv, FlowTypes, Inv, TypeOK
<1>5. FlowTypes'
  <2>1. Append(stream[p], item) \in Items
    BY <1>1, <1>3, <1>4, AppendIs
  <2> QED BY <1>2, <2>1 DEF FlowInv, FlowTypes
<1>6. Reads(s)' /\ Holds(s)'
  <2>1. Heard(s)' <=> Heard(s)
    BY <1>2 DEF Heard, shake
  <2>2. Reads(s)'
    BY <1>1, <1>2, <1>4, <2>1 DEF FlowInv, Reads
  <2>3. Holds(s)'
    BY <1>1, <1>2, <1>4, <2>1 DEF FlowInv, Holds
  <2> QED BY <2>2, <2>3
<1>7. Reads(p)' /\ Holds(p)'
  <2>1. /\ Good(stream[p], Len(shown[p]), written[s], Len(shown[s]))
        /\ Len(shown[p]) <= written[s]
    BY <1>1 DEF FlowInv, Reads
  <2>2. /\ stream[p] \in Items /\ Len(shown[p]) \in Nat
        /\ Len(shown[s]) \in Nat /\ written[s] \in Nat
    BY <1>1, SequenceTypes
  <2>3. /\ Good(stream'[p], Len(shown[p]), written'[s], Len(shown[s]))
        /\ Complete(stream[p], Len(shown[p]), written[s])
             => Complete(stream'[p], Len(shown[p]), written'[s])
    BY <1>4, <2>1, <2>2, AddMessage
  <2>4. Len(shown[p]) <= written'[s]
    BY <1>4, <2>1, <2>2
  <2>5. role[p] = "connect" /\ reader[p] = "off" => stream[p] # <<>>
    BY <1>1, NoiseFirst
  <2>6. written'[p] = written[p] /\ shown'[p] = shown[p] /\ acked'[p] = acked[p]
        /\ shown'[s] = shown[s] /\ pc'[p] = pc[p] /\ reader'[p] = reader[p]
    BY <1>1, <1>2, <1>4
  <2>7. UNCHANGED <<role, peer, shake>>
    BY <1>2
  <2> HIDE DEF p, item
  <2> QED BY <1>1, <1>3, <1>4, <2>3, <2>4, <2>5, <2>6, <2>7, PushFlow DEF p
<1>8. \A q \in Sessions \ {s, p} : Reads(q)' /\ Holds(q)'
  <2>1. \A q \in Sessions \ {s, p} :
          /\ pc'[q] = pc[q] /\ stream'[q] = stream[q] /\ reader'[q] = reader[q]
          /\ written'[q] = written[q] /\ shown'[q] = shown[q] /\ acked'[q] = acked[q]
    BY <1>1, <1>2, <1>4
  <2>2. UNCHANGED <<role, peer, shake>>
    BY <1>2
  <2> QED BY <1>1, <2>1, <2>2, OthersFlow
<1>9. ASSUME NEW q \in Sessions PROVE Reads(q)' /\ Holds(q)'
  BY <1>2, <1>6, <1>7, <1>8
<1> QED BY <1>5, <1>9 DEF FlowInv

\* The goroutine holds the message at the head.
LEMMA ReadMessageFlow ==
  ASSUME Inv, FlowInv, NEW s \in Sessions, ReadMessage(s)
  PROVE  FlowInv'
<1> DEFINE p == peer[s]
<1>1. /\ Heard(s) /\ reader[s] # "off" /\ p \in Sessions /\ p # s /\ peer[p] = s /\ Heard(p)
      /\ pc[s] = "open" /\ reader[s] = "read"
  BY OpenPeer DEF ReadMessage, Reading
<1>2. /\ stream[s] # <<>> /\ Head(stream[s])[1] = "message"
      /\ reader' = [reader EXCEPT ![s] = "ack"]
      /\ UNCHANGED <<pc, role, peer, shake, stream, written, shown, acked>>
  BY DEF ReadMessage, ReaderGoto
<1>3. reader'[s] = "ack" /\ \A q \in Sessions \ {s} : reader'[q] = reader[q]
  BY <1>2 DEF Inv, TypeOK
<1>4. Reads(s)' /\ Holds(s)'
  <2>1. Heard(s)' <=> Heard(s)
    BY <1>2 DEF Heard, shake
  <2>2. Reads(s)'
    BY <1>1, <1>2, <1>3, <2>1 DEF FlowInv, Reads
  <2>3. Holds(s)'
    BY <1>1, <1>2, <1>3, <2>1 DEF FlowInv, Holds
  <2> QED BY <2>2, <2>3
<1>5. Reads(p)' /\ Holds(p)'
  <2>1. /\ pc'[p] = pc[p] /\ stream'[p] = stream[p] /\ reader'[p] = reader[p]
        /\ written'[p] = written[p] /\ shown'[p] = shown[p] /\ acked'[p] = acked[p]
        /\ written'[s] = written[s] /\ shown'[s] = shown[s]
    BY <1>1, <1>2, <1>3
  <2>2. UNCHANGED <<role, peer, shake>>
    BY <1>2
  <2> HIDE DEF p
  <2> QED BY <1>1, <2>1, <2>2, PeerFlow DEF p
<1>6. \A q \in Sessions \ {s, p} : Reads(q)' /\ Holds(q)'
  <2>1. \A q \in Sessions \ {s, p} :
          /\ pc'[q] = pc[q] /\ stream'[q] = stream[q] /\ reader'[q] = reader[q]
          /\ written'[q] = written[q] /\ shown'[q] = shown[q] /\ acked'[q] = acked[q]
    BY <1>1, <1>2, <1>3
  <2>2. UNCHANGED <<role, peer, shake>>
    BY <1>2
  <2> QED BY <1>1, <2>1, <2>2, OthersFlow
<1>7. ASSUME NEW q \in Sessions PROVE Reads(q)' /\ Holds(q)'
  BY <1>2, <1>4, <1>5, <1>6
<1>8. FlowTypes'
  BY <1>2 DEF FlowInv, FlowTypes
<1> QED BY <1>7, <1>8 DEF FlowInv

\* It acknowledges the first message that has not been shown.
LEMMA WriteAckFlow ==
  ASSUME Inv, FlowInv, NEW s \in Sessions, WriteAck(s)
  PROVE  FlowInv'
<1> DEFINE p == peer[s]
           item == <<"ack", Len(shown[s]) + 1>>
<1>1. /\ Heard(s) /\ reader[s] # "off" /\ p \in Sessions /\ p # s /\ peer[p] = s /\ Heard(p)
      /\ pc[s] = "open" /\ reader[s] = "ack"
  BY OpenPeer DEF WriteAck, Reading
<1>2. /\ stream' = [stream EXCEPT ![p] = Append(@, item)]
      /\ reader' = [reader EXCEPT ![s] = "show"]
      /\ UNCHANGED <<pc, role, peer, shake, written, shown, acked>>
  <2>1. stream[s] # <<>> /\ Head(stream[s])[1] = "message"
    BY <1>1 DEF FlowInv, Holds
  <2>2. /\ stream[s] \in Items /\ Len(shown[s]) \in Nat
        /\ Len(shown[p]) \in Nat /\ written[p] \in Nat
    BY <1>1, SequenceTypes
  <2>3. /\ Good(stream[s], Len(shown[s]), written[p], Len(shown[p]))
        /\ Complete(stream[s], Len(shown[s]), written[p])
    BY <1>1 DEF FlowInv, Reads
  <2>4. Head(stream[s])[2] = Len(shown[s]) + 1
    BY <2>1, <2>2, <2>3, TakeMessage
  <2> QED BY <2>4 DEF WriteAck, Push, ReaderGoto
<1>3. item \in Words \X Nat
  BY SequenceTypes DEF Words
<1>4. /\ stream \in [Sessions -> Items] /\ stream'[p] = Append(stream[p], item)
      /\ \A q \in Sessions \ {p} : stream'[q] = stream[q]
      /\ \A q \in Sessions \ {s} : reader'[q] = reader[q]
      /\ reader'[s] = "show"
  BY <1>1, <1>2 DEF FlowInv, FlowTypes, Inv, TypeOK
<1>5. FlowTypes'
  <2>1. Append(stream[p], item) \in Items
    BY <1>1, <1>3, <1>4, AppendIs
  <2> QED BY <1>2, <2>1 DEF FlowInv, FlowTypes
<1>6. Reads(s)' /\ Holds(s)'
  <2>1. Heard(s)' <=> Heard(s)
    BY <1>2 DEF Heard, shake
  <2>2. Reads(s)'
    BY <1>1, <1>2, <1>4, <2>1 DEF FlowInv, Reads
  <2>3. Holds(s)'
    BY <1>1, <1>2, <1>4, <2>1 DEF FlowInv, Holds
  <2> QED BY <2>2, <2>3
<1>7. Reads(p)' /\ Holds(p)'
  <2>1. /\ Good(stream[p], Len(shown[p]), written[s], Len(shown[s]))
        /\ Len(shown[p]) <= written[s]
    BY <1>1 DEF FlowInv, Reads
  <2>2. /\ stream[p] \in Items /\ Len(shown[p]) \in Nat
        /\ Len(shown[s]) \in Nat /\ written[s] \in Nat
    BY <1>1, SequenceTypes
  <2>3. /\ Good(stream'[p], Len(shown[p]), written[s], Len(shown[s]))
        /\ Complete(stream[p], Len(shown[p]), written[s])
             => Complete(stream'[p], Len(shown[p]), written[s])
    BY <1>4, <2>1, <2>2, AddAck
  <2>4. role[p] = "connect" /\ reader[p] = "off" => stream[p] # <<>>
    BY <1>1, NoiseFirst
  <2>5. written'[p] = written[p] /\ shown'[p] = shown[p] /\ acked'[p] = acked[p]
        /\ shown'[s] = shown[s] /\ pc'[p] = pc[p] /\ reader'[p] = reader[p]
        /\ written'[s] = written[s]
    BY <1>1, <1>2, <1>4
  <2>6. UNCHANGED <<role, peer, shake>>
    BY <1>2
  <2> HIDE DEF p, item
  <2> QED BY <1>1, <1>3, <1>4, <2>1, <2>3, <2>4, <2>5, <2>6, PushFlow DEF p
<1>8. \A q \in Sessions \ {s, p} : Reads(q)' /\ Holds(q)'
  <2>1. \A q \in Sessions \ {s, p} :
          /\ pc'[q] = pc[q] /\ stream'[q] = stream[q] /\ reader'[q] = reader[q]
          /\ written'[q] = written[q] /\ shown'[q] = shown[q] /\ acked'[q] = acked[q]
    BY <1>1, <1>2, <1>4
  <2>2. UNCHANGED <<role, peer, shake>>
    BY <1>2
  <2> QED BY <1>1, <2>1, <2>2, OthersFlow
<1>9. ASSUME NEW q \in Sessions PROVE Reads(q)' /\ Holds(q)'
  BY <1>2, <1>6, <1>7, <1>8
<1> QED BY <1>5, <1>9 DEF FlowInv

\* The message is shown: all others on their way come after it.
LEMMA ShowFlow ==
  ASSUME Inv, FlowInv, NEW s \in Sessions, Show(s)
  PROVE  FlowInv'
<1> DEFINE p == peer[s]
<1>1. /\ Heard(s) /\ reader[s] # "off" /\ p \in Sessions /\ p # s /\ peer[p] = s /\ Heard(p)
      /\ pc[s] = "open" /\ reader[s] = "show"
  BY OpenPeer DEF Show, Reading
<1>2. stream[s] # <<>> /\ Head(stream[s])[1] = "message"
  BY <1>1 DEF FlowInv, Holds
<1>3. /\ stream[s] \in Items /\ Len(shown[s]) \in Nat /\ shown[s] \in Seq(Nat)
      /\ Len(shown[p]) \in Nat /\ written[p] \in Nat
      /\ stream[p] \in Items /\ written[s] \in Nat /\ acked[p] \subseteq Nat
  BY <1>1, SequenceTypes
<1>4. /\ Good(stream[s], Len(shown[s]), written[p], Len(shown[p]))
      /\ Complete(stream[s], Len(shown[s]), written[p])
      /\ \A n \in acked[s] : n <= Len(shown[p]) + 1
  BY <1>1 DEF FlowInv, Reads
<1>5. /\ Head(stream[s])[2] = Len(shown[s]) + 1 /\ Len(shown[s]) + 1 <= written[p]
      /\ Good(Tail(stream[s]), Len(shown[s]) + 1, written[p], Len(shown[p]))
      /\ Complete(Tail(stream[s]), Len(shown[s]) + 1, written[p])
  BY <1>2, <1>3, <1>4, TakeMessage
<1>6. /\ shown' = [shown EXCEPT ![s] = Append(@, Len(shown[s]) + 1)]
      /\ stream' = [stream EXCEPT ![s] = Tail(@)]
      /\ reader' = [reader EXCEPT ![s] = "read"]
      /\ UNCHANGED <<pc, role, peer, shake, written, acked>>
  BY <1>5 DEF Show, ReaderGoto
<1>7. /\ shown'[s] = Append(shown[s], Len(shown[s]) + 1) /\ stream'[s] = Tail(stream[s])
      /\ reader'[s] = "read"
      /\ \A q \in Sessions \ {s} :
           shown'[q] = shown[q] /\ stream'[q] = stream[q] /\ reader'[q] = reader[q]
  BY <1>6 DEF FlowInv, FlowTypes, Inv, TypeOK
<1>8. /\ Len(shown'[s]) = Len(shown[s]) + 1 /\ shown'[s] \in Seq(Nat)
      /\ \A i \in 1..Len(shown[s]) : shown'[s][i] = shown[s][i]
      /\ shown'[s][Len(shown[s]) + 1] = Len(shown[s]) + 1
  BY <1>3, <1>7, AppendProperties
<1>9. FlowTypes'
  <2>1. Tail(stream[s]) \in Items
    BY <1>2, <1>3, TailIs
  <2> QED BY <1>6, <1>7, <1>8, <2>1 DEF FlowInv, FlowTypes
<1>10. \A q \in Sessions : Heard(q)' <=> Heard(q)
  BY <1>6 DEF Heard, shake
<1>11. Reads(s)' /\ Holds(s)'
  <2>1. Reads(s)'
    BY <1>1, <1>4, <1>5, <1>6, <1>7, <1>8, <1>10 DEF Reads
  <2>2. shown'[s] = [i \in 1..Len(shown'[s]) |-> i]
    <3>1. \A i \in 1..Len(shown[s]) : shown[s][i] = i
      BY DEF FlowInv, Holds
    <3>2. \A i \in 1..Len(shown'[s]) : shown'[s][i] = i
      <4> TAKE i \in 1..Len(shown'[s])
      <4>1. i \in 1..Len(shown[s]) \/ i = Len(shown[s]) + 1
        BY <1>3, <1>8
      <4> QED BY <1>8, <3>1, <4>1
    <3>3. shown'[s] = [i \in 1..Len(shown'[s]) |-> shown'[s][i]]
      BY <1>8, LenProperties
    <3> QED BY <3>2, <3>3
  <2>3. Holds(s)'
    BY <1>1, <1>6, <1>7, <2>2 DEF FlowInv, Holds, Before, Handshaking
  <2> QED BY <2>1, <2>3
<1>12. Reads(p)' /\ Holds(p)'
  <2>1. /\ Good(stream[p], Len(shown[p]), written[s], Len(shown[s]))
        /\ Len(shown[p]) <= written[s]
        /\ reader[p] # "stopped" => Complete(stream[p], Len(shown[p]), written[s])
        /\ \A n \in acked[p] : n <= Len(shown[s]) + 1
    BY <1>1 DEF FlowInv, Reads
  <2>2. /\ Good(stream[p], Len(shown[p]), written[s], Len(shown[s]) + 1)
        /\ \A n \in acked[p] : n <= Len(shown[s]) + 1 + 1
    <3>1. \A i \in 1..Len(stream[p]) : stream[p][i][2] \in Nat
      BY <1>3, ElementOfSeq DEF Items
    <3>2. \A i \in 1..Len(stream[p]) :
            stream[p][i][1] = "ack" => stream[p][i][2] <= Len(shown[s]) + 1 + 1
      BY <1>3, <2>1, <3>1 DEF Good
    <3>3. Good(stream[p], Len(shown[p]), written[s], Len(shown[s]) + 1)
      BY <2>1, <3>2 DEF Good
    <3>4. \A n \in acked[p] : n \in Nat
      BY <1>3
    <3> QED BY <1>3, <2>1, <3>3, <3>4
  <2>3. Reads(p)'
    BY <1>1, <1>6, <1>7, <1>8, <1>10, <2>1, <2>2 DEF Reads
  <2>4. Holds(p)'
    <3>1. /\ pc'[p] = pc[p] /\ stream'[p] = stream[p] /\ reader'[p] = reader[p]
          /\ written'[p] = written[p] /\ shown'[p] = shown[p] /\ acked'[p] = acked[p]
          /\ role'[p] = role[p] /\ peer'[p] = s
      BY <1>1, <1>6, <1>7
    <3>2. Holds(p)
      BY <1>1 DEF FlowInv
    <3> QED BY <1>1, <1>6, <1>10, <3>1, <3>2 DEF Holds
  <2> QED BY <2>3, <2>4
<1>13. \A q \in Sessions \ {s, p} : Reads(q)' /\ Holds(q)'
  <2>1. \A q \in Sessions \ {s, p} :
          /\ pc'[q] = pc[q] /\ stream'[q] = stream[q] /\ reader'[q] = reader[q]
          /\ written'[q] = written[q] /\ shown'[q] = shown[q] /\ acked'[q] = acked[q]
    BY <1>6, <1>7
  <2>2. UNCHANGED <<role, peer, shake>>
    BY <1>6
  <2> QED BY <1>1, <2>1, <2>2, OthersFlow
<1>14. ASSUME NEW q \in Sessions PROVE Reads(q)' /\ Holds(q)'
  BY <1>6, <1>11, <1>12, <1>13
<1> QED BY <1>9, <1>14 DEF FlowInv

\* Something else than a message is read, or no more is read.
LEMMA TailFlow ==
  ASSUME Inv, FlowInv, NEW s \in Sessions, pc[s] = "open", stream[s] # <<>>,
         \/ ReadFails(s)
         \/ ReadAck(s)
  PROVE  FlowInv'
<1> DEFINE p == peer[s]
<1>1. /\ Heard(s) /\ reader[s] # "off" /\ p \in Sessions /\ p # s /\ peer[p] = s /\ Heard(p)
  BY OpenPeer
<1>2. /\ stream' = [stream EXCEPT ![s] = Tail(@)]
      /\ UNCHANGED <<pc, role, peer, shake, written, shown>>
      /\ \A q \in Sessions \ {s} : reader'[q] = reader[q] /\ acked'[q] = acked[q]
  BY DEF ReadFails, ReadAck, ReaderGoto, FlowInv, FlowTypes, Inv, TypeOK
<1>3. \/ reader'[s] = "stopped" /\ acked'[s] = acked[s]
      \/ /\ reader'[s] = "read" /\ Head(stream[s])[1] = "ack"
         /\ acked'[s] = acked[s] \cup {Head(stream[s])[2]}
  BY DEF ReadFails, ReadAck, ReaderGoto, Reading, AfterError, FlowInv, FlowTypes, Inv, TypeOK
<1>4. /\ stream'[s] = Tail(stream[s])
      /\ \A q \in Sessions \ {s} : stream'[q] = stream[q]
  BY <1>2 DEF FlowInv, FlowTypes
<1>5. /\ stream[s] \in Items /\ Len(shown[s]) \in Nat
      /\ Len(shown[p]) \in Nat /\ written[p] \in Nat
  BY <1>1, SequenceTypes
<1>6. /\ Tail(stream[s]) \in Items /\ Head(stream[s]) = stream[s][1]
      /\ stream[s][1] \in Words \X Nat /\ 1 \in 1..Len(stream[s])
  BY <1>5, TailIs
<1>7. FlowTypes'
  <2>1. acked'[s] \in SUBSET Nat /\ acked' = [q \in Sessions |-> acked'[q]]
    BY <1>3, <1>6 DEF ReadFails, ReadAck, FlowInv, FlowTypes
  <2>2. acked' \in [Sessions -> SUBSET Nat]
    BY <1>2, <2>1 DEF FlowInv, FlowTypes
  <2> QED BY <1>2, <1>6, <2>2 DEF FlowInv, FlowTypes
<1>8. Reads(s)' /\ Holds(s)'
  <2>1. Heard(s)'
    BY <1>1, <1>2 DEF Heard, shake
  <2>2. /\ Good(stream[s], Len(shown[s]), written[p], Len(shown[p]))
        /\ Len(shown[s]) <= written[p]
        /\ reader[s] # "stopped" => Complete(stream[s], Len(shown[s]), written[p])
        /\ \A n \in acked[s] : n <= Len(shown[p]) + 1
    BY <1>1 DEF FlowInv, Reads
  <2>3. /\ Good(Tail(stream[s]), Len(shown[s]), written[p], Len(shown[p]))
        /\ Head(stream[s])[1] = "ack" /\ Complete(stream[s], Len(shown[s]), written[p])
             => Complete(Tail(stream[s]), Len(shown[s]), written[p])
    BY <1>5, <2>2, DropFirst
  <2>4. Head(stream[s])[1] = "ack" => Head(stream[s])[2] <= Len(shown[p]) + 1
    BY <1>6, <2>2 DEF Good
  <2>5. reader'[s] = "read" => reader[s] # "stopped"
    BY DEF ReadFails, ReadAck, ReaderGoto, Reading, AfterError, Inv, TypeOK
  <2>6. Reads(s)'
    BY <1>1, <1>2, <1>3, <1>4, <2>1, <2>2, <2>3, <2>4, <2>5 DEF Reads
  <2>7. Holds(s)'
    BY <1>1, <1>2, <1>3 DEF FlowInv, Holds, Before, Handshaking
  <2> QED BY <2>6, <2>7
<1>9. Reads(p)' /\ Holds(p)'
  <2>1. /\ pc'[p] = pc[p] /\ stream'[p] = stream[p] /\ reader'[p] = reader[p]
        /\ written'[p] = written[p] /\ shown'[p] = shown[p] /\ acked'[p] = acked[p]
        /\ written'[s] = written[s] /\ shown'[s] = shown[s]
    BY <1>1, <1>2, <1>4
  <2>2. UNCHANGED <<role, peer, shake>>
    BY <1>2
  <2> HIDE DEF p
  <2> QED BY <1>1, <2>1, <2>2, PeerFlow DEF p
<1>10. \A q \in Sessions \ {s, p} : Reads(q)' /\ Holds(q)'
  <2>1. \A q \in Sessions \ {s, p} :
          /\ pc'[q] = pc[q] /\ stream'[q] = stream[q] /\ reader'[q] = reader[q]
          /\ written'[q] = written[q] /\ shown'[q] = shown[q] /\ acked'[q] = acked[q]
    BY <1>2, <1>4
  <2>2. UNCHANGED <<role, peer, shake>>
    BY <1>2
  <2> QED BY <1>1, <2>1, <2>2, OthersFlow
<1>11. ASSUME NEW q \in Sessions PROVE Reads(q)' /\ Holds(q)'
  BY <1>2, <1>8, <1>9, <1>10
<1> QED BY <1>7, <1>11 DEF FlowInv

LEMMA ReadFlow ==
  ASSUME Inv, FlowInv, NEW s \in Sessions, ReadAck(s) \/ ReadFails(s)
  PROVE  FlowInv'
<1>1. pc[s] = "open"
  BY DEF ReadAck, ReadFails, Reading
<1>2. stream[s] # <<>>
  BY DEF ReadAck, ReadFails, Reading, FlowInv, Holds
<1> QED BY <1>1, <1>2, TailFlow

\* The peer has closed.
LEMMA ReadClosedFlow ==
  ASSUME Inv, FlowInv, NEW s \in Sessions, ReadClosed(s)
  PROVE  FlowInv'
<1> DEFINE p == peer[s]
<1>1. /\ Heard(s) /\ reader[s] # "off" /\ p \in Sessions /\ p # s /\ peer[p] = s /\ Heard(p)
      /\ reader[s] = "read"
  BY OpenPeer DEF ReadClosed, Reading
<1>2. /\ reader' = [reader EXCEPT ![s] = "stopped"] /\ pc' = [pc EXCEPT ![s] = "closed"]
      /\ UNCHANGED <<role, peer, shake, stream, written, shown, acked>>
  BY DEF ReadClosed, CloseSocket, Goto, ReaderGoto
<1>3. /\ reader'[s] = "stopped" /\ pc'[s] = "closed"
      /\ \A q \in Sessions \ {s} : reader'[q] = reader[q] /\ pc'[q] = pc[q]
  BY <1>2 DEF Inv, TypeOK
<1>4. Reads(s)' /\ Holds(s)'
  <2>1. Heard(s)'
    BY <1>1, <1>2 DEF Heard, shake
  <2>2. Reads(s)'
    BY <1>1, <1>2, <1>3, <2>1 DEF FlowInv, Reads
  <2>3. Holds(s)'
    BY <1>2, <1>3 DEF FlowInv, Holds, Before, Handshaking
  <2> QED BY <2>2, <2>3
<1>5. Reads(p)' /\ Holds(p)'
  <2>1. /\ pc'[p] = pc[p] /\ stream'[p] = stream[p] /\ reader'[p] = reader[p]
        /\ written'[p] = written[p] /\ shown'[p] = shown[p] /\ acked'[p] = acked[p]
        /\ written'[s] = written[s] /\ shown'[s] = shown[s]
    BY <1>1, <1>2, <1>3
  <2>2. UNCHANGED <<role, peer, shake>>
    BY <1>2
  <2> HIDE DEF p
  <2> QED BY <1>1, <2>1, <2>2, PeerFlow DEF p
<1>6. \A q \in Sessions \ {s, p} : Reads(q)' /\ Holds(q)'
  <2>1. \A q \in Sessions \ {s, p} :
          /\ pc'[q] = pc[q] /\ stream'[q] = stream[q] /\ reader'[q] = reader[q]
          /\ written'[q] = written[q] /\ shown'[q] = shown[q] /\ acked'[q] = acked[q]
    BY <1>2, <1>3
  <2>2. UNCHANGED <<role, peer, shake>>
    BY <1>2
  <2> QED BY <1>1, <2>1, <2>2, OthersFlow
<1>7. ASSUME NEW q \in Sessions PROVE Reads(q)' /\ Holds(q)'
  BY <1>2, <1>4, <1>5, <1>6
<1>8. FlowTypes'
  BY <1>2 DEF FlowInv, FlowTypes
<1> QED BY <1>7, <1>8 DEF FlowInv

\* A session that ends may tell its peer.
LEMMA CloseFlow ==
  ASSUME Inv, FlowInv, NEW s \in Sessions, Close(s)
  PROVE  FlowInv'
<1>1. /\ pc' = [pc EXCEPT ![s] = "closed"]
      /\ UNCHANGED <<role, peer, shake, reader, written, shown, acked>>
  BY DEF Close, CloseSocket, Goto
<1>2. /\ pc'[s] = "closed"
      /\ \A q \in Sessions \ {s} : pc'[q] = pc[q]
  BY <1>1 DEF Inv, TypeOK
<1>3. ASSUME NEW q \in Sessions
      PROVE  /\ Heard(q)' <=> Heard(q)
             /\ pc'[q] \in Before \cup (Handshaking \ {"open"}) => reader[q] = "off"
             /\ pc'[q] = "noiselisten" => stream[q] # <<>>
  <2>1. /\ pc[q] \in Before \cup (Handshaking \ {"open"}) => reader[q] = "off"
        /\ pc[q] = "noiselisten" => stream[q] # <<>>
    BY DEF FlowInv, Holds
  <2>2. pc'[q] = pc[q] \/ pc'[q] = "closed"
    BY <1>2
  <2> QED BY <1>1, <2>1, <2>2 DEF Heard, shake, Before, Handshaking
<1>4. CASE UNCHANGED stream
  BY <1>1, <1>3, <1>4, QuietFlow DEF messages
<1>5. CASE pc[s] = "open" /\ Push(peer[s], <<"closed", 0>>)
  <2> DEFINE p == peer[s]
             item == <<"closed", 0>>
  <2>1. /\ Heard(s) /\ p \in Sessions /\ p # s /\ peer[p] = s /\ Heard(p) /\ pc[s] = "open"
    BY <1>5, OpenPeer
  <2>2. item \in Words \X Nat
    BY DEF Words
  <2>3. /\ stream \in [Sessions -> Items] /\ stream'[p] = Append(stream[p], item)
        /\ stream' = [stream EXCEPT ![p] = Append(@, item)]
        /\ \A q \in Sessions \ {p} : stream'[q] = stream[q]
    BY <1>5, <2>1 DEF Push, FlowInv, FlowTypes
  <2>4. FlowTypes'
    <3>1. Append(stream[p], item) \in Items
      BY <2>1, <2>2, <2>3, AppendIs
    <3> QED BY <1>1, <2>3, <3>1 DEF FlowInv, FlowTypes
  <2>5. Reads(s)' /\ Holds(s)'
    <3>1. /\ stream'[s] = stream[s] /\ role'[s] = role[s] /\ peer'[s] = peer[s]
          /\ reader'[s] = reader[s] /\ written'[s] = written[s] /\ shown'[s] = shown[s]
          /\ acked'[s] = acked[s] /\ written'[p] = written[p] /\ shown'[p] = shown[p]
          /\ reader'[p] = reader[p]
      BY <1>1, <2>1, <2>3
    <3> QED BY <1>3, <3>1, FlowStays
  <2>6. Reads(p)' /\ Holds(p)'
    <3>1. /\ Good(stream[p], Len(shown[p]), written[s], Len(shown[s]))
          /\ Len(shown[p]) <= written[s]
      BY <2>1 DEF FlowInv, Reads
    <3>2. /\ stream[p] \in Items /\ Len(shown[p]) \in Nat
          /\ Len(shown[s]) \in Nat /\ written[s] \in Nat
      BY <2>1, SequenceTypes
    <3>3. /\ Good(stream'[p], Len(shown[p]), written[s], Len(shown[s]))
          /\ Complete(stream[p], Len(shown[p]), written[s])
               => Complete(stream'[p], Len(shown[p]), written[s])
      BY <2>3, <3>1, <3>2, AddWord
    <3>4. role[p] = "connect" /\ reader[p] = "off" => stream[p] # <<>>
      BY <2>1, NoiseFirst
    <3>5. written'[p] = written[p] /\ shown'[p] = shown[p] /\ acked'[p] = acked[p]
          /\ shown'[s] = shown[s] /\ pc'[p] = pc[p] /\ reader'[p] = reader[p]
          /\ written'[s] = written[s]
      BY <1>1, <1>2, <2>1
    <3>6. UNCHANGED <<role, peer, shake>>
      BY <1>1
    <3> HIDE DEF p, item
    <3> QED BY <2>1, <2>2, <2>3, <3>1, <3>3, <3>4, <3>5, <3>6, PushFlow DEF p
  <2>7. \A q \in Sessions \ {s, p} : Reads(q)' /\ Holds(q)'
    <3>1. \A q \in Sessions \ {s, p} :
            /\ pc'[q] = pc[q] /\ stream'[q] = stream[q] /\ reader'[q] = reader[q]
            /\ written'[q] = written[q] /\ shown'[q] = shown[q] /\ acked'[q] = acked[q]
      BY <1>1, <1>2, <2>3
    <3>2. UNCHANGED <<role, peer, shake>>
      BY <1>1
    <3> QED BY <2>1, <3>1, <3>2, OthersFlow
  <2>8. ASSUME NEW q \in Sessions PROVE Reads(q)' /\ Holds(q)'
    BY <1>1, <2>5, <2>6, <2>7
  <2> QED BY <2>4, <2>8 DEF FlowInv
<1> QED BY <1>4, <1>5 DEF Close

LEMMA FlowInitially == Init => FlowInv
<1> SUFFICES ASSUME Init PROVE FlowInv
  OBVIOUS
<1>1. FlowTypes
  BY DEF Init, FlowTypes, Items
<1>2. ASSUME NEW s \in Sessions PROVE Reads(s) /\ Holds(s)
  <2>1. Len(<<>>) = 0
    BY EmptySeq
  <2>2. ~Heard(s) /\ stream[s] = <<>> /\ shown[s] = <<>> /\ acked[s] = {}
        /\ written[s] = 0 /\ reader[s] = "off" /\ pc[s] = "new"
    BY DEF Init, Heard
  <2>3. Reads(s)
    BY <2>1, <2>2 DEF Reads
  <2>4. shown[s] = [i \in 1..Len(shown[s]) |-> i]
    BY <2>1, <2>2
  <2> QED BY <2>2, <2>3, <2>4 DEF Holds
<1> QED BY <1>1, <1>2 DEF FlowInv

LEMMA FlowInductive == Inv /\ Inv' /\ FlowInv /\ [Next]_vars => FlowInv'
<1> SUFFICES ASSUME Inv, Inv', FlowInv, [Next]_vars PROVE FlowInv'
  OBVIOUS
<1>1. CASE UNCHANGED <<pc, role, peer, shake, messages>>
  <2>1. \A q \in Sessions : /\ Heard(q)' <=> Heard(q)
                            /\ pc'[q] \in Before \cup (Handshaking \ {"open"}) => reader[q] = "off"
                            /\ pc'[q] = "noiselisten" => stream[q] # <<>>
    BY <1>1 DEF Heard, shake, FlowInv, Holds
  <2> QED BY <1>1, <2>1, QuietFlow
<1>2. UNCHANGED vars => UNCHANGED <<pc, role, peer, shake, messages>>
  BY DEF vars
<1>3. ASSUME NEW u \in Users, Vanish(u) PROVE UNCHANGED <<pc, role, peer, shake, messages>>
  BY <1>3 DEF Vanish
<1>4. ASSUME NEW s \in Sessions, Step(s) PROVE FlowInv'
  BY <1>4, RendezvousFlow, HandshakeFlow, ReceiveFlow, NoiseWriteFlow, NoiseListenFlow,
     NoiseReadFlow, WriteMessageFlow, ReadMessageFlow, WriteAckFlow, ShowFlow, ReadFlow,
     ReadClosedFlow, CloseFlow
     DEF Step
<1> QED BY <1>1, <1>2, <1>3, <1>4 DEF Next

\* What is on its way in the streams, in every reachable state.
THEOREM FlowInvariant == ASSUME OneAtATime PROVE Spec => [](Inv /\ FlowInv)
BY Initially, Inductive, FlowInitially, FlowInductive, PTL DEF Spec

\* The messages a user sees are those the peer has written, in order and without a
\* gap, and all acknowledged messages but the last have been shown.
THEOREM MessagesInOrder == ASSUME OneAtATime PROVE Spec => []AckedShown
<1>1. ASSUME Inv, FlowInv PROVE AckedShown
  <2> SUFFICES ASSUME NEW s \in Sessions
               PROVE  /\ shown[s] = [i \in 1..Len(shown[s]) |-> i]
                      /\ shown[s] # <<>> => Len(shown[s]) <= written[peer[s]]
                      /\ \A n \in acked[s] : n <= Len(shown[peer[s]]) + 1
    BY DEF AckedShown
  <2>1. Reads(s) /\ Holds(s)
    BY <1>1 DEF FlowInv
  <2>2. shown[s] # <<>> \/ acked[s] # {} => Heard(s)
    BY <1>1, <2>1 DEF Holds, Inv, Stage
  <2> QED BY <2>1, <2>2 DEF Reads, Holds
<1> QED BY <1>1, FlowInvariant, PTL
=============================================================================
