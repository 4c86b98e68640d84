-------------------------- MODULE TcpClient_proofs ---------------------------
(***************************************************************************)
(* Proofs about TcpClient and its Connector, for any number of attempts    *)
(* and calls and any environments.  The methods are operators on the state *)
(* record: for each of them a lemma says that it keeps Sound, and Quiet    *)
(* when no functor was pending.  The steps put the lemmas together.        *)
(***************************************************************************)
EXTENDS TcpClient, TLAPS

-----------------------------------------------------------------------------
(* The queue of functors.                                                  *)

LEMMA FunctorNames ==
  /\ "resetChannel" \in Functors /\ "startInLoop" \in Functors /\ "stopInLoop" \in Functors
  /\ "setCloseCallback" \in Functors /\ "forceClose" \in Functors
BY DEF Functors, Bare

LEMMA AfterAppend ==
  ASSUME NEW s \in Seq(Functors), NEW g \in Functors
  PROVE  /\ Append(s, g) \in Seq(Functors)
         /\ \A f : Has(Append(s, g), f) <=> Has(s, f) \/ f = g
         /\ \A f : Once(s, f) /\ (g # f \/ ~Has(s, f)) => Once(Append(s, g), f)
<1>1. /\ Append(s, g) \in Seq(Functors) /\ Len(s) \in Nat /\ Len(Append(s, g)) = Len(s) + 1
      /\ \A k \in 1..Len(s) : Append(s, g)[k] = s[k]
      /\ Append(s, g)[Len(s) + 1] = g
  OBVIOUS
<1>2. QED
  BY <1>1 DEF Has, Once

LEMMA AfterTail ==
  ASSUME NEW s \in Seq(Functors), s # << >>
  PROVE  /\ Tail(s) \in Seq(Functors) /\ Head(s) \in Functors
         /\ \A f : Has(s, f) <=> Head(s) = f \/ Has(Tail(s), f)
         /\ \A f : Once(s, f) => Once(Tail(s), f) /\ (Head(s) = f => ~Has(Tail(s), f))
<1>1. /\ Tail(s) \in Seq(Functors) /\ Len(s) \in Nat \ {0} /\ Len(Tail(s)) = Len(s) - 1
      /\ Head(s) = s[1] /\ \A k \in 1..Len(Tail(s)) : Tail(s)[k] = s[k + 1]
  OBVIOUS
<1>2. Head(s) \in Functors
  BY <1>1
<1>3. ASSUME NEW f PROVE Has(s, f) <=> Head(s) = f \/ Has(Tail(s), f)
  <2>1. ASSUME NEW k \in 1..Len(s), s[k] = f, k # 1 PROVE Has(Tail(s), f)
    <3>1. k - 1 \in 1..Len(Tail(s)) /\ Tail(s)[k - 1] = s[k]
      BY <1>1, <2>1
    <3>2. QED
      BY <2>1, <3>1 DEF Has
  <2>2. ASSUME NEW k \in 1..Len(Tail(s)), Tail(s)[k] = f PROVE Has(s, f)
    <3>1. k + 1 \in 1..Len(s) /\ s[k + 1] = f
      BY <1>1, <2>2
    <3>2. QED
      BY <3>1 DEF Has
  <2>3. 1 \in 1..Len(s)
    BY <1>1
  <2>4. QED
    BY <1>1, <2>1, <2>2, <2>3 DEF Has
<1>4. ASSUME NEW f, Once(s, f) PROVE Once(Tail(s), f) /\ (Head(s) = f => ~Has(Tail(s), f))
  <2>1. ASSUME NEW k \in 1..Len(Tail(s)) PROVE k + 1 \in 1..Len(s) /\ Tail(s)[k] = s[k + 1] /\ 1 \in 1..Len(s)
    BY <1>1, <2>1
  <2>2. \A j, k \in 1..Len(s) : s[j] = f /\ s[k] = f => j = k
    BY <1>4 DEF Once
  <2>3. Head(s) = f => ~Has(Tail(s), f)
    BY <1>1, <2>1, <2>2 DEF Has
  <2>4. Once(Tail(s), f)
    BY <2>1, <2>2 DEF Once
  <2>5. QED
    BY <2>3, <2>4
<1>5. QED
  BY <1>1, <1>2, <1>3, <1>4

LEMMA Empty == (\A f : ~Has(<< >>, f) /\ Once(<< >>, f)) /\ StopLast(<< >>)
BY DEF Has, Once, StopLast

(* A startInLoop in the queue that is followed by a stopInLoop stays so. *)
LEMMA StopLastAppend ==
  ASSUME NEW s \in Seq(Functors), NEW f \in Functors, f # "startInLoop"
  PROVE  /\ StopLast(s) => StopLast(Append(s, f))
         /\ f = "stopInLoop" => StopLast(Append(s, f))
<1> DEFINE r == Append(s, f)
<1>1. /\ Len(r) = Len(s) + 1 /\ Len(s) \in Nat /\ r[Len(s) + 1] = f
      /\ \A k \in 1..Len(s) : r[k] = s[k]
  OBVIOUS
<1> HIDE DEF r
<1>2. StopLast(s) => StopLast(r)
  BY <1>1 DEF StopLast
<1>3. f = "stopInLoop" => StopLast(r)
  BY <1>1 DEF StopLast
<1>4. QED
  BY Zenon, <1>2, <1>3 DEF r

LEMMA StopLastTail ==
  ASSUME NEW s \in Seq(Functors), s # <<>>, StopLast(s)
  PROVE  /\ StopLast(Tail(s))
         /\ Head(s) = "startInLoop" => Has(Tail(s), "stopInLoop")
<1> DEFINE r == Tail(s)
<1>1. /\ Len(s) \in Nat /\ Len(s) > 0 /\ Len(r) = Len(s) - 1 /\ Head(s) = s[1]
      /\ \A k \in 1..Len(s) - 1 : r[k] = s[k + 1]
  OBVIOUS
<1> HIDE DEF r
<1>2. StopLast(r)
  <2> SUFFICES ASSUME NEW k \in 1..Len(r), r[k] = "startInLoop"
               PROVE  \E j \in k..Len(r) : r[j] = "stopInLoop"
    BY DEF StopLast
  <2>1. k + 1 \in 1..Len(s) /\ s[k + 1] = "startInLoop"
    BY <1>1
  <2>2. PICK j \in (k + 1)..Len(s) : s[j] = "stopInLoop"
    BY <2>1 DEF StopLast
  <2>3. j - 1 \in k..Len(r) /\ r[j - 1] = "stopInLoop"
    BY <1>1, <2>2
  <2>4. QED
    BY <2>3
<1>3. ASSUME Head(s) = "startInLoop" PROVE Has(r, "stopInLoop")
  <2>1. 1 \in 1..Len(s) /\ s[1] = "startInLoop"
    BY <1>1, <1>3
  <2>2. PICK j \in 1..Len(s) : s[j] = "stopInLoop"
    BY <2>1 DEF StopLast
  <2>3. j - 1 \in 1..Len(r) /\ r[j - 1] = "stopInLoop"
    BY <1>1, <2>1, <2>2
  <2>4. QED
    BY <2>3 DEF Has
<1>4. QED
  BY Zenon, <1>2, <1>3 DEF r

-----------------------------------------------------------------------------
(* Reading and changing the state record.                                  *)

LEMMA Fields ==
  ASSUME NEW t \in ClientRecord
  PROVE  /\ t.connect_ \in BOOLEAN /\ t.state_ \in {"KDisconnected", "Kconnecting", "Kconnected"}
         /\ t.channel_ \in 0..MaxSockets /\ t.registered \in SUBSET (1..MaxSockets)
         /\ t.sockets \in [1..MaxSockets -> {"unused", "open", "closed"}]
         /\ t.established \in 0..MaxSockets /\ t.connection_ \in 0..MaxSockets
         /\ t.client \in {"alive", "destroyed"} /\ t.connector_ \in {"owned", "held", "freed"}
         /\ t.conn.fd \in 0..MaxSockets /\ t.conn.closeCallback \in {"none", "client"}
         /\ t.q \in Seq(Functors) /\ t.batch \in Seq(Functors) /\ t.events \in Nat
         /\ t.halt \in {"", "throw", "startInLoop", "assert", "dangling"}
         /\ t.restarting \in BOOLEAN /\ t.stopped \in BOOLEAN
         /\ t.call \in {"", "start", "set", "startInLoop", "stopInLoop"}
BY Zenon DEF ClientRecord

LEMMA SocketNumbers == \A i \in 1..MaxSockets : i \in 0..MaxSockets /\ i # 0
BY TcpClientAssumption

(* What Owned says of each socket. *)
LEMMA OwnedSockets ==
  ASSUME NEW t \in ClientRecord
  PROVE  Owned(t) <=>
           /\ t.state_ = "Kconnecting" => t.channel_ # 0
           /\ \A i \in 1..MaxSockets :
                /\ t.sockets[i] = "open" <=>
                     \/ t.state_ = "Kconnecting" /\ i = t.channel_
                     \/ i = t.established \/ i = t.conn.fd
                /\ i \in t.registered <=> t.state_ = "Kconnecting" /\ i = t.channel_
<1>1. \A i : i \in Attempt(t) <=> t.state_ = "Kconnecting" /\ i = t.channel_
  BY DEF Attempt
<1>2. /\ t.conn.fd \in 0..MaxSockets /\ t.channel_ \in 0..MaxSockets /\ t.established \in 0..MaxSockets
      /\ \A i : i \in t.registered => i \in 1..MaxSockets
  BY Zenon, Fields
<1>3. \A i \in 0..MaxSockets : i \in 1..MaxSockets <=> i # 0
  BY TcpClientAssumption
<1>4. QED
  BY <1>1, <1>2, <1>3 DEF Owned

LEMMA NothingOpen ==
  ASSUME NEW t \in ClientRecord, t.state_ # "Kconnecting", t.established = 0, t.conn.fd = 0,
         \A i \in 1..MaxSockets : t.sockets[i] # "open" /\ i \notin t.registered
  PROVE  Owned(t)
BY OwnedSockets, SocketNumbers

LEMMA AttemptOpen ==
  ASSUME NEW t \in ClientRecord, t.state_ = "Kconnecting", t.established = 0, t.conn.fd = 0,
         t.channel_ # 0,
         \A i \in 1..MaxSockets : /\ t.sockets[i] = "open" <=> i = t.channel_
                                  /\ i \in t.registered <=> i = t.channel_
  PROVE  Owned(t)
BY OwnedSockets, SocketNumbers

-----------------------------------------------------------------------------
(* Methods that leave the sockets alone.                                   *)

(***************************************************************************)
(* Sound reads of the record only these fields, and not connect_,          *)
(* clientConnect_, connector_, call, stopped and the counters.             *)
(***************************************************************************)
LEMMA OwnedFrame ==
  ASSUME NEW t, NEW r, Owned(t), r.state_ = t.state_, r.channel_ = t.channel_,
         r.sockets = t.sockets, r.registered = t.registered, r.established = t.established,
         r.conn.fd = t.conn.fd
  PROVE  Owned(r)
BY DEF Owned, Attempt

LEMMA SoundFrame ==
  ASSUME NEW t, Sound(t), NEW r \in ClientRecord,
         r.state_ = t.state_, r.channel_ = t.channel_, r.sockets = t.sockets,
         r.registered = t.registered, r.established = t.established,
         r.restarting = t.restarting, r.client = t.client, r.connection_ = t.connection_,
         r.conn.fd = t.conn.fd, r.q = t.q, r.batch = t.batch, r.halt = t.halt,
         r.conn.closeCallback = t.conn.closeCallback \/ r.client = "destroyed"
  PROVE  Sound(r)
<1>1. r.halt \in {"", "throw"} => Owned(r)
  BY Zenon, OwnedFrame DEF Sound
<1>2. r.halt = "" => Running(r)
  BY Zenon DEF Sound, Running, Idle, ChannelKept, Pending
<1>3. QED
  BY Zenon, <1>1, <1>2 DEF Sound

LEMMA HaltedIsSound ==
  ASSUME NEW t, Sound(t), NEW r \in ClientRecord, r.connection_ = t.connection_, r.conn = t.conn,
         r.halt \in {"startInLoop", "assert", "dangling"}
  PROVE  Sound(r)
BY Zenon DEF Sound

LEMMA QueueIsSound ==
  ASSUME NEW t, Sound(t), t.halt = "", NEW f \in Functors, f # "resetChannel",
         f \in {"forceClose", "setCloseCallback"} => t.client = "destroyed"
  PROVE  /\ Sound(queueInLoop(t, f))
         /\ queueInLoop(t, f).q = Append(t.q, f)
         /\ queueInLoop(t, f).batch = t.batch /\ queueInLoop(t, f).halt = t.halt
         /\ queueInLoop(t, f).state_ = t.state_ /\ queueInLoop(t, f).channel_ = t.channel_
         /\ queueInLoop(t, f).client = t.client /\ queueInLoop(t, f).connector_ = t.connector_
         /\ queueInLoop(t, f).connection_ = t.connection_ /\ queueInLoop(t, f).conn = t.conn
         /\ queueInLoop(t, f).connect_ = t.connect_ /\ queueInLoop(t, f).call = t.call
         /\ queueInLoop(t, f).established = t.established /\ queueInLoop(t, f).restarting = t.restarting
         /\ queueInLoop(t, f).stopped = t.stopped /\ queueInLoop(t, f).clientConnect_ = t.clientConnect_
<1> DEFINE r == queueInLoop(t, f)
<1>0. t \in ClientRecord /\ t.q \in Seq(Functors) /\ t.batch \in Seq(Functors)
  BY Zenon, Fields DEF Sound
<1>1. Append(t.q, f) \in Seq(Functors)
  BY Zenon, <1>0, AfterAppend
<1>2. /\ r \in ClientRecord /\ r.q = Append(t.q, f)
      /\ r.batch = t.batch /\ r.halt = t.halt /\ r.state_ = t.state_ /\ r.channel_ = t.channel_
      /\ r.client = t.client /\ r.connector_ = t.connector_ /\ r.connection_ = t.connection_
      /\ r.conn = t.conn /\ r.connect_ = t.connect_ /\ r.sockets = t.sockets
      /\ r.registered = t.registered /\ r.established = t.established /\ r.restarting = t.restarting
      /\ r.call = t.call /\ r.stopped = t.stopped /\ r.clientConnect_ = t.clientConnect_
  BY Zenon, <1>0, <1>1 DEF queueInLoop, ClientRecord
<1> HIDE DEF r
<1>3. Owned(r) /\ r.connection_ \in {0, r.conn.fd}
  <2>1. Owned(t) /\ t.connection_ \in {0, t.conn.fd}
    BY Zenon DEF Sound
  <2>2. QED
    BY Zenon, <1>2, <2>1, OwnedFrame
<1>4. Running(r)
  <2>1. \A g : Has(Append(t.q, f), g) <=> Has(t.q, g) \/ g = f
    BY Zenon, <1>0, AfterAppend
  <2>2. Once(t.q, "resetChannel") => Once(Append(t.q, f), "resetChannel")
    BY Zenon, <1>0, AfterAppend
  <2>3. Running(t)
    BY Zenon DEF Sound
  <2>4. QED
    BY Zenon, <1>2, <2>1, <2>2, <2>3 DEF Running, Idle, ChannelKept, Pending
<1>5. Sound(r)
  BY Zenon, <1>2, <1>3, <1>4 DEF Sound
<1>6. QED
  BY Zenon, <1>2, <1>5 DEF r

-----------------------------------------------------------------------------
(* Attempts to connect.                                                    *)

SameOwner(r, t) == /\ r.client = t.client /\ r.connector_ = t.connector_
                   /\ r.connection_ = t.connection_ /\ r.conn = t.conn /\ r.restarting = t.restarting
                   /\ r.stopped = t.stopped /\ r.clientConnect_ = t.clientConnect_
SameQueues(r, t) == r.q = t.q /\ r.batch = t.batch /\ r.events = t.events

(***************************************************************************)
(* Nothing leaves the queues, and no startInLoop comes to them.            *)
(***************************************************************************)
QueueKept(r, t) ==
  /\ r.batch = t.batch
  /\ \A f : Has(t.q, f) => Has(r.q, f)
  /\ Has(r.q, "startInLoop") => Has(t.q, "startInLoop")
  /\ StopLast(t.q) => StopLast(r.q)

LEMMA AppendKeeps ==
  ASSUME NEW t \in ClientRecord, NEW r, r.batch = t.batch, NEW f \in Functors, f # "startInLoop",
         r.q \in {t.q, Append(t.q, f)}
  PROVE  QueueKept(r, t)
<1>1. t.q \in Seq(Functors)
  BY Zenon, Fields
<1>2. CASE r.q = t.q
  BY Zenon, <1>2 DEF QueueKept
<1>3. CASE r.q = Append(t.q, f)
  <2>1. \A g : Has(Append(t.q, f), g) <=> Has(t.q, g) \/ g = f
    BY Zenon, <1>1, AfterAppend
  <2>2. StopLast(t.q) => StopLast(Append(t.q, f))
    BY Zenon, <1>1, StopLastAppend
  <2>3. QED
    BY Zenon, <1>3, <2>1, <2>2 DEF QueueKept
<1>4. QED
  BY Zenon, <1>2, <1>3

(* A socket that was not used has been opened, and maybe closed again.     *)
LEMMA SocketUsed ==
  ASSUME NEW t \in ClientRecord, NEW s \in FreeSockets(t), NEW w \in {"open", "closed"}
  PROVE  /\ s \in 1..MaxSockets /\ t.sockets[s] = "unused"
         /\ [t.sockets EXCEPT ![s] = w] \in [1..MaxSockets -> {"unused", "open", "closed"}]
         /\ \A i \in 1..MaxSockets :
              [t.sockets EXCEPT ![s] = w][i] = IF i = s THEN w ELSE t.sockets[i]
<1>1. t.sockets \in [1..MaxSockets -> {"unused", "open", "closed"}]
  BY Zenon, Fields
<1>2. s \in 1..MaxSockets /\ t.sockets[s] = "unused"
  BY DEF FreeSockets
<1>3. QED
  BY Zenon, <1>1, <1>2

LEMMA StartIsSound ==
  ASSUME NEW t, Sound(t), t.halt = "", FreeSockets(t) # {},
         NEW ret \in {"connecting", "retry", "error"}
  PROVE  /\ Sound(startInLoop(t, ret))
         /\ SameOwner(startInLoop(t, ret), t) /\ SameQueues(startInLoop(t, ret), t)
         /\ startInLoop(t, ret).call = t.call /\ startInLoop(t, ret).established = t.established
         /\ t.state_ # "KDisconnected" => /\ startInLoop(t, ret).halt = "startInLoop"
                                          /\ startInLoop(t, ret).state_ = t.state_
                                          /\ startInLoop(t, ret).channel_ = t.channel_
         /\ Quiet(t) /\ t.client = "alive" /\ t.channel_ = 0 /\ t.state_ = "KDisconnected" =>
              Quiet(startInLoop(t, ret)) /\ startInLoop(t, ret).halt \in {"", "throw"}
<1> DEFINE r == startInLoop(t, ret)
           s == CHOOSE i \in FreeSockets(t) : TRUE
           Goal == /\ Sound(r) /\ SameOwner(r, t) /\ SameQueues(r, t) /\ r.call = t.call
                   /\ r.established = t.established
                   /\ t.state_ # "KDisconnected" => /\ r.halt = "startInLoop" /\ r.state_ = t.state_
                                                    /\ r.channel_ = t.channel_
                   /\ Quiet(t) /\ t.client = "alive" /\ t.channel_ = 0 /\ t.state_ = "KDisconnected" =>
                        Quiet(r) /\ r.halt \in {"", "throw"}
<1> SUFFICES Goal
  BY Zenon
<1>0. t \in ClientRecord /\ t.connection_ \in {0, t.conn.fd} /\ Owned(t) /\ Running(t)
  BY Zenon DEF Sound
<1>a. s \in FreeSockets(t)
  BY Zenon
<1>1. CASE t.state_ # "KDisconnected"
  <2>1. r = [t EXCEPT !.halt = "startInLoop"]
    BY Zenon, <1>1 DEF startInLoop
  <2>2. /\ r \in ClientRecord /\ r.halt = "startInLoop" /\ SameOwner(r, t) /\ SameQueues(r, t)
        /\ r.call = t.call /\ r.established = t.established
        /\ r.state_ = t.state_ /\ r.channel_ = t.channel_
    BY Zenon, <1>0, <2>1 DEF ClientRecord, SameOwner, SameQueues
  <2>3. QED
    BY Zenon, <1>1, <2>2, HaltedIsSound DEF SameOwner
<1>2. CASE t.state_ = "KDisconnected" /\ ~t.connect_
  BY Zenon, <1>2 DEF startInLoop, SameOwner, SameQueues
<1>3. CASE t.state_ = "KDisconnected" /\ t.connect_
  <2>0. r = connect(t, ret)
    BY Zenon, <1>3 DEF startInLoop
  <2>1. /\ s \in 1..MaxSockets /\ t.sockets[s] = "unused"
        /\ [t.sockets EXCEPT ![s] = "open"] \in [1..MaxSockets -> {"unused", "open", "closed"}]
        /\ [t.sockets EXCEPT ![s] = "closed"] \in [1..MaxSockets -> {"unused", "open", "closed"}]
        /\ \A i \in 1..MaxSockets :
             /\ [t.sockets EXCEPT ![s] = "open"][i] = IF i = s THEN "open" ELSE t.sockets[i]
             /\ [t.sockets EXCEPT ![s] = "closed"][i] = IF i = s THEN "closed" ELSE t.sockets[i]
    BY Zenon, <1>0, <1>a, SocketUsed
  <2>2. [[t.sockets EXCEPT ![s] = "open"] EXCEPT ![s] = "closed"] = [t.sockets EXCEPT ![s] = "closed"]
    BY Zenon, <1>0, <2>1, Fields
  <2>3. t.registered \cup {s} \in SUBSET (1..MaxSockets) /\ s \in 0..MaxSockets /\ s # 0
    <3>1. t.registered \in SUBSET (1..MaxSockets)
      BY Zenon, <1>0, Fields
    <3> HIDE DEF s
    <3>2. s \in 1..MaxSockets
      BY Zenon, <2>1
    <3>3. QED
      BY Zenon, <3>1, <3>2, SocketNumbers
  <2>4. /\ t.conn.fd = 0 /\ t.established = 0 /\ ~t.restarting
        /\ \A i \in 1..MaxSockets : t.sockets[i] # "open" /\ i \notin t.registered
    <3>1. t.conn.fd = 0 /\ t.established = 0 /\ ~t.restarting
      BY Zenon, <1>0, <1>3 DEF Running, Idle
    <3>2. \A i \in 1..MaxSockets :
            /\ t.sockets[i] = "open" <=> i = t.established \/ i = t.conn.fd
            /\ i \notin t.registered
      BY Zenon, <1>0, <1>3, OwnedSockets
    <3>3. QED
      BY Zenon, <3>1, <3>2, SocketNumbers
  <2>5. CASE ret = "connecting" /\ t.channel_ # 0
    <3>1. r = [t EXCEPT !.sockets = [t.sockets EXCEPT ![s] = "open"], !.state_ = "Kconnecting",
                        !.halt = "assert"]
      BY Zenon, <1>0, <2>0, <2>5 DEF connect, connecting, ClientRecord
    <3> HIDE DEF r, s
    <3>2. /\ r \in ClientRecord /\ r.halt = "assert" /\ SameOwner(r, t) /\ SameQueues(r, t)
          /\ r.call = t.call /\ r.established = t.established
      BY Zenon, <1>0, <2>1, <3>1 DEF ClientRecord, SameOwner, SameQueues
    <3>3. QED
      BY Zenon, <1>3, <2>5, <3>2, HaltedIsSound DEF SameOwner
  <2>6. CASE ret = "connecting" /\ t.channel_ = 0
    <3>1. r = [t EXCEPT !.sockets = [t.sockets EXCEPT ![s] = "open"], !.state_ = "Kconnecting",
                        !.channel_ = s, !.registered = t.registered \cup {s}]
      BY Zenon, <1>0, <2>0, <2>6 DEF connect, connecting, ClientRecord
    <3> HIDE DEF r, s
    <3>2. /\ r \in ClientRecord /\ r.sockets = [t.sockets EXCEPT ![s] = "open"]
          /\ r.state_ = "Kconnecting" /\ r.channel_ = s /\ r.registered = t.registered \cup {s}
          /\ r.established = t.established /\ r.halt = t.halt /\ r.connect_ = t.connect_
          /\ r.call = t.call
      BY Zenon, <1>0, <2>1, <2>3, <3>1 DEF ClientRecord
    <3>3. SameOwner(r, t) /\ SameQueues(r, t)
      BY Zenon, <1>0, <3>1 DEF ClientRecord, SameOwner, SameQueues
    <3>4. Owned(r)
      <4>1. r.conn.fd = 0 /\ r.established = 0
        BY Zenon, <2>4, <3>2, <3>3 DEF SameOwner
      <4>2. \A i \in 1..MaxSockets : /\ r.sockets[i] = "open" <=> i = s
                                     /\ i \in r.registered <=> i = s
        BY Zenon, <2>1, <2>4, <3>2
      <4>3. QED
        BY Zenon, <2>3, <3>2, <4>1, <4>2, AttemptOpen
    <3>5. Running(r)
      BY Zenon, <1>0, <2>3, <2>4, <2>6, <3>2, <3>3
         DEF Running, Idle, ChannelKept, Pending, SameOwner, SameQueues
    <3>6. Sound(r)
      BY Zenon, <1>0, <3>2, <3>3, <3>4, <3>5 DEF Sound, SameOwner
    <3>7. QED
      BY Zenon, <1>3, <2>4, <3>2, <3>3, <3>6 DEF Quiet, Settled, Idle, Pending, SameOwner, SameQueues
  <2>7. ASSUME r \in ClientRecord, r.sockets = [t.sockets EXCEPT ![s] = "closed"],
               r.state_ = t.state_, r.channel_ = t.channel_, r.registered = t.registered,
               r.established = t.established, r.connect_ = t.connect_, r.halt \in {"", "throw"},
               SameOwner(r, t), SameQueues(r, t), r.call = t.call
        PROVE  Goal
    <3> HIDE DEF r, s
    <3>1. Owned(r)
      <4>1. r.conn.fd = 0 /\ r.established = 0 /\ r.state_ # "Kconnecting"
        BY Zenon, <1>3, <2>4, <2>7 DEF SameOwner
      <4>2. \A i \in 1..MaxSockets : r.sockets[i] # "open" /\ i \notin r.registered /\ i # 0
        <5>1. \A i \in 1..MaxSockets : r.sockets[i] = IF i = s THEN "closed" ELSE t.sockets[i]
          BY Zenon, <2>1, <2>7
        <5>2. QED
          BY Zenon, <2>4, <2>7, <5>1, SocketNumbers
      <4>3. QED
        BY Zenon, <2>7, <4>1, <4>2, NothingOpen
    <3>2. Running(r)
      BY Zenon, <1>0, <2>7 DEF Running, Idle, ChannelKept, Pending, SameOwner, SameQueues
    <3>3. Sound(r)
      BY Zenon, <1>0, <2>7, <3>1, <3>2 DEF Sound, SameOwner
    <3>4. QED
      BY Zenon, <1>3, <2>4, <2>7, <3>3 DEF Quiet, Settled, Idle, Pending, SameOwner, SameQueues
  <2>8. CASE ret = "retry"
    <3>1. retry([t EXCEPT !.sockets[s] = "open"], s) =
            [t EXCEPT !.sockets = [t.sockets EXCEPT ![s] = "closed"], !.state_ = "KDisconnected",
                      !.halt = "throw"]
      <4> DEFINE u == [t EXCEPT !.sockets[s] = "open"]
                 v == [t EXCEPT !.sockets = [t.sockets EXCEPT ![s] = "closed"]]
      <4>1. [t EXCEPT !.sockets[s] = "open"].connect_ = t.connect_
        BY Zenon, <1>0 DEF ClientRecord
      <4>2. close([t EXCEPT !.sockets[s] = "open"], s) =
              [t EXCEPT !.sockets = [t.sockets EXCEPT ![s] = "closed"]]
        BY Zenon, <1>0, <2>2 DEF close, ClientRecord
      <4>3. u.connect_ = t.connect_ /\ close(u, s) = v
        BY Zenon, <4>1, <4>2
      <4> HIDE DEF u, v
      <4>4. retry(u, s) = [[v EXCEPT !.state_ = "KDisconnected"] EXCEPT !.halt = "throw"]
        BY Zenon, <1>3, <4>3 DEF retry
      <4> USE DEF u, v
      <4>5. QED
        BY Zenon, <1>0, <4>4 DEF ClientRecord
    <3>2. r = [t EXCEPT !.sockets = [t.sockets EXCEPT ![s] = "closed"], !.state_ = "KDisconnected",
                        !.halt = "throw"]
      BY Zenon, <2>0, <2>8, <3>1 DEF connect
    <3> HIDE DEF r, s
    <3>3. /\ r \in ClientRecord /\ r.sockets = [t.sockets EXCEPT ![s] = "closed"]
          /\ r.state_ = t.state_ /\ r.channel_ = t.channel_ /\ r.registered = t.registered
          /\ r.established = t.established /\ r.connect_ = t.connect_ /\ r.halt = "throw"
      BY Zenon, <1>0, <1>3, <2>1, <3>2 DEF ClientRecord
    <3>4. SameOwner(r, t) /\ SameQueues(r, t) /\ r.call = t.call
      BY Zenon, <1>0, <3>2 DEF ClientRecord, SameOwner, SameQueues
    <3>5. QED
      BY Zenon, <2>7, <3>3, <3>4
  <2>9. CASE ret = "error"
    <3>1. r = [t EXCEPT !.sockets = [t.sockets EXCEPT ![s] = "closed"]]
      BY ZenonT(40), <1>0, <1>3, <2>0, <2>2, <2>9 DEF connect, close, ClientRecord
    <3> HIDE DEF r, s
    <3>2. /\ r \in ClientRecord /\ r.sockets = [t.sockets EXCEPT ![s] = "closed"]
          /\ r.state_ = t.state_ /\ r.channel_ = t.channel_ /\ r.registered = t.registered
          /\ r.established = t.established /\ r.connect_ = t.connect_ /\ r.halt = ""
      BY Zenon, <1>0, <1>3, <2>1, <3>1 DEF ClientRecord
    <3>3. SameOwner(r, t) /\ SameQueues(r, t) /\ r.call = t.call
      BY Zenon, <1>0, <3>1 DEF ClientRecord, SameOwner, SameQueues
    <3>4. QED
      BY Zenon, <2>7, <3>2, <3>3
  <2>10. QED
    BY Zenon, <2>5, <2>6, <2>8, <2>9
<1>4. QED
  BY Zenon, <1>1, <1>2, <1>3

(***************************************************************************)
(* The end of an attempt: the Channel leaves the poller and is to be       *)
(* deleted, and the socket is closed or handed over.                       *)
(***************************************************************************)
LEMMA AttemptEnds ==
  ASSUME NEW t, Sound(t), t.halt = "", t.state_ = "Kconnecting", NEW r \in ClientRecord,
         r.channel_ = t.channel_, r.registered = t.registered \ {t.channel_},
         r.q = Append(t.q, "resetChannel"), r.batch = t.batch, r.call = t.call,
         SameOwner(r, t), r.halt \in {"", "throw"},
         \/ /\ r.state_ \in {"KDisconnected", "Kconnected"} /\ r.established = 0
            /\ r.sockets = [t.sockets EXCEPT ![t.channel_] = "closed"]
         \/ /\ r.state_ = "Kconnected" /\ r.established = t.channel_
            /\ r.sockets = t.sockets
  PROVE  Sound(r) /\ (Settled(t) /\ (r.established = 0 \/ t.client = "alive") => Quiet(r))
<1>1. /\ t \in ClientRecord /\ t.connection_ \in {0, t.conn.fd} /\ Owned(t) /\ Running(t)
      /\ t.q \in Seq(Functors) /\ t.sockets \in [1..MaxSockets -> {"unused", "open", "closed"}]
  BY Zenon, Fields DEF Sound
<1>2. /\ t.conn.fd = 0 /\ t.channel_ # 0 /\ r.state_ # "Kconnecting"
      /\ t.established = 0 /\ ~t.restarting
  BY Zenon, <1>1 DEF Running, Idle, ChannelKept
<1>b. r.conn = t.conn /\ r.connection_ = t.connection_ /\ r.client = t.client
      /\ r.connector_ = t.connector_ /\ ~r.restarting
  BY Zenon, <1>2 DEF SameOwner
<1>3. \A f : Has(r.q, f) <=> Has(t.q, f) \/ f = "resetChannel"
  <2>1. \A f : Has(Append(t.q, "resetChannel"), f) <=> Has(t.q, f) \/ f = "resetChannel"
    BY ONLY <1>1, AfterAppend, FunctorNames
  <2>2. QED
    BY Zenon, <2>1
<1>4. ChannelKept(r)
  <2>1. ~Has(t.q, "resetChannel") /\ ~Has(t.batch, "resetChannel") /\ Once(t.batch, "resetChannel")
    BY Zenon, <1>1 DEF Running, ChannelKept, Pending
  <2>2. Once(t.q, "resetChannel")
    BY Zenon, <1>1 DEF Running, ChannelKept
  <2>3. Once(r.q, "resetChannel")
    BY Zenon, <1>1, <2>1, <2>2, AfterAppend, FunctorNames
  <2>4. QED
    BY Zenon, <1>2, <1>3, <2>1, <2>3 DEF ChannelKept, Pending
<1>5. Running(r) /\ r.connection_ \in {0, r.conn.fd}
  BY Zenon, <1>1, <1>2, <1>b, <1>3, <1>4 DEF Running, Idle, Pending
<1>6. Owned(r)
  <2>1. \A i \in 1..MaxSockets : /\ t.sockets[i] = "open" <=> i = t.channel_
                                 /\ i \in t.registered <=> i = t.channel_
    <3>1. t.state_ = "Kconnecting"
      BY Zenon
    <3>2. QED
      BY ONLY <1>1, <1>2, <3>1, OwnedSockets, SocketNumbers
  <2>2. r \in ClientRecord /\ r.state_ # "Kconnecting"
    BY Zenon, <1>2
  <2>3. \A i \in 1..MaxSockets : i \notin r.registered
    BY Zenon, <2>1
  <2>4. CASE r.sockets = [t.sockets EXCEPT ![t.channel_] = "closed"] /\ r.established = 0
    <3>1. \A i \in 1..MaxSockets : r.sockets[i] # "open"
      BY ONLY Zenon, <1>1, <2>1, <2>4
    <3>2. r.conn.fd = 0
      BY Zenon, <1>2, <1>b
    <3>3. QED
      BY Zenon, <2>2, <2>3, <2>4, <3>1, <3>2, NothingOpen
  <2>5. CASE r.sockets = t.sockets /\ r.established = t.channel_
    <3>1. r.conn.fd = 0
      BY Zenon, <1>2, <1>b
    <3>2. QED
      BY ONLY <2>1, <2>2, <2>3, <2>5, <3>1, OwnedSockets, SocketNumbers
  <2>6. QED
    BY Zenon, <2>4, <2>5
<1>7. Sound(r)
  BY Zenon, <1>5, <1>6 DEF Sound
<1>8. ASSUME Settled(t), r.established = 0 \/ t.client = "alive" PROVE Quiet(r)
  BY Zenon, <1>2, <1>b, <1>3, <1>8 DEF Quiet, Settled, Idle, Pending
<1>9. QED
  BY Zenon, <1>7, <1>8

(* The values that the end of an attempt gives to the fields. *)
LEMMA EndFields ==
  ASSUME NEW t \in ClientRecord
  PROVE  /\ Append(t.q, "resetChannel") \in Seq(Functors)
         /\ t.registered \ {t.channel_} \in SUBSET (1..MaxSockets)
         /\ [t.sockets EXCEPT ![t.channel_] = "closed"] \in [1..MaxSockets -> {"unused", "open", "closed"}]
<1>1. t.q \in Seq(Functors) /\ t.registered \in SUBSET (1..MaxSockets)
  BY Zenon, Fields
<1>2. t.sockets \in [1..MaxSockets -> {"unused", "open", "closed"}]
  BY Zenon, Fields
<1>3. Append(t.q, "resetChannel") \in Seq(Functors)
  BY ONLY <1>1, AfterAppend, FunctorNames
<1>4. QED
  BY Zenon, <1>1, <1>2, <1>3

LEMMA StopInLoopIsSound ==
  ASSUME NEW t, Sound(t), t.halt = ""
  PROVE  /\ Sound(stopInLoop(t)) /\ SameOwner(stopInLoop(t), t)
         /\ stopInLoop(t).halt = "" /\ stopInLoop(t).state_ # "Kconnecting"
         /\ stopInLoop(t).call = t.call /\ stopInLoop(t).established = t.established
         /\ stopInLoop(t).batch = t.batch
         /\ stopInLoop(t).q \in {t.q, Append(t.q, "resetChannel")}
         /\ Settled(t) /\ Idle(t) => Quiet(stopInLoop(t))
<1>0. t \in ClientRecord
  BY Zenon DEF Sound
<1>1. CASE t.state_ # "Kconnecting"
  BY Zenon, <1>1 DEF stopInLoop, SameOwner, Quiet, Idle
<1>2. CASE t.state_ = "Kconnecting"
  <2> DEFINE r == stopInLoop(t)
  <2>1. r = [t EXCEPT !.q = Append(t.q, "resetChannel"), !.state_ = "KDisconnected",
                      !.registered = t.registered \ {t.channel_},
                      !.sockets = [t.sockets EXCEPT ![t.channel_] = "closed"]]
    BY Zenon, <1>0, <1>2 DEF stopInLoop, close, removeAndResetChannel, queueInLoop, ClientRecord
  <2> HIDE DEF r
  <2>2. /\ r \in ClientRecord /\ r.q = Append(t.q, "resetChannel") /\ r.state_ = "KDisconnected"
        /\ r.registered = t.registered \ {t.channel_} /\ r.channel_ = t.channel_
        /\ r.sockets = [t.sockets EXCEPT ![t.channel_] = "closed"]
        /\ r.batch = t.batch /\ r.established = t.established /\ r.halt = t.halt /\ r.call = t.call
    BY Zenon, <1>0, <2>1, EndFields DEF ClientRecord
  <2>3. SameOwner(r, t)
    BY Zenon, <1>0, <2>1 DEF SameOwner, ClientRecord
  <2>4. t.established = 0
    BY Zenon, <1>2 DEF Sound, Running, Idle
  <2>5. Sound(r) /\ (Settled(t) => Quiet(r))
    BY Zenon, <1>2, <2>2, <2>3, <2>4, AttemptEnds
  <2>6. QED
    BY Zenon, <2>2, <2>3, <2>5 DEF r
<1>3. QED
  BY Zenon, <1>1, <1>2

LEMMA StopIsSound ==
  ASSUME NEW t, Sound(t), t.halt = "", NEW inLoop \in BOOLEAN
  PROVE  /\ Sound(stop(t, inLoop)) /\ SameOwner(stop(t, inLoop), t) /\ stop(t, inLoop).halt = ""
         /\ stop(t, inLoop).batch = t.batch /\ stop(t, inLoop).established = t.established
         /\ stop(t, inLoop).q \in {t.q, Append(t.q, "resetChannel")}
         /\ inLoop => stop(t, inLoop).state_ # "Kconnecting" /\ stop(t, inLoop).call = t.call
         /\ ~inLoop => stop(t, inLoop).call = "stopInLoop"
         /\ inLoop /\ Settled(t) /\ Idle(t) => Quiet(stop(t, inLoop))
<1> DEFINE u == [t EXCEPT !.connect_ = FALSE]
           v == [u EXCEPT !.call = "stopInLoop"]
<1>0. t \in ClientRecord
  BY Zenon DEF Sound
<1>1. stop(t, inLoop) = IF inLoop THEN stopInLoop(u) ELSE v
  BY Zenon DEF stop
<1>2. /\ u \in ClientRecord /\ u.state_ = t.state_ /\ u.channel_ = t.channel_ /\ u.sockets = t.sockets
      /\ u.registered = t.registered /\ u.established = t.established
      /\ u.q = t.q /\ u.batch = t.batch /\ u.halt = t.halt /\ u.call = t.call
  BY Zenon, <1>0 DEF ClientRecord
<1>3. SameOwner(u, t)
  BY Zenon, <1>0 DEF SameOwner, ClientRecord
<1>a. /\ v \in ClientRecord /\ v.state_ = u.state_ /\ v.channel_ = u.channel_ /\ v.sockets = u.sockets
      /\ v.registered = u.registered /\ v.established = u.established
      /\ v.q = u.q /\ v.batch = u.batch /\ v.halt = u.halt /\ v.call = "stopInLoop"
      /\ SameOwner(v, u)
  <2> HIDE DEF u
  <2>1. QED
    BY Zenon, <1>2 DEF SameOwner, ClientRecord
<1> HIDE DEF u, v
<1>4. Sound(u)
  BY Zenon, <1>2, <1>3, SoundFrame DEF SameOwner
<1>5. Settled(t) /\ Idle(t) => Settled(u) /\ Idle(u)
  BY Zenon, <1>2, <1>3 DEF Settled, Idle, Pending, SameOwner
<1>6. CASE inLoop
  <2>1. stop(t, inLoop) = stopInLoop(u)
    BY Zenon, <1>1, <1>6
  <2>2. SameOwner(stopInLoop(u), t)
    <3>1. SameOwner(stopInLoop(u), u)
      BY Zenon, <1>2, <1>4, StopInLoopIsSound
    <3>2. QED
      BY Zenon, <1>3, <3>1 DEF SameOwner
  <2>3. QED
    BY ZenonT(40), <1>2, <1>4, <1>5, <1>6, <2>1, <2>2, StopInLoopIsSound
<1>7. CASE ~inLoop
  <2>1. Sound(v)
    BY Zenon, <1>4, <1>a, SoundFrame DEF SameOwner
  <2>2. SameOwner(v, t)
    BY Zenon, <1>3, <1>a DEF SameOwner
  <2>3. QED
    BY Zenon, <1>1, <1>2, <1>7, <1>a, <2>1, <2>2
<1>8. QED
  BY Zenon, <1>6, <1>7

(***************************************************************************)
(* retry closes the socket of the attempt; with connect_ set it throws.    *)
(***************************************************************************)
LEMMA RetryIsSound ==
  ASSUME NEW t, Sound(t), t.halt = "", t.state_ = "Kconnecting"
  PROVE  LET r == retry(removeAndResetChannel(t), t.channel_)
         IN  /\ Sound(r) /\ SameOwner(r, t) /\ r.halt \in {"", "throw"}
             /\ r.state_ = "KDisconnected" /\ r.established = 0 /\ r.call = t.call
             /\ r.q = Append(t.q, "resetChannel") /\ r.batch = t.batch
             /\ Settled(t) => Quiet(r)
<1> DEFINE r == retry(removeAndResetChannel(t), t.channel_)
           w == [close(removeAndResetChannel(t), t.channel_) EXCEPT !.state_ = "KDisconnected"]
<1>0. t \in ClientRecord
  BY Zenon DEF Sound
<1>1. removeAndResetChannel(t) = [t EXCEPT !.q = Append(t.q, "resetChannel"),
                                           !.registered = t.registered \ {t.channel_}]
  BY Zenon, <1>0 DEF removeAndResetChannel, queueInLoop, ClientRecord
<1>2. w = [t EXCEPT !.q = Append(t.q, "resetChannel"), !.state_ = "KDisconnected",
                    !.registered = t.registered \ {t.channel_},
                    !.sockets = [t.sockets EXCEPT ![t.channel_] = "closed"]]
  BY Zenon, <1>0, <1>1 DEF close, ClientRecord
<1>3. r = w \/ r = [w EXCEPT !.halt = "throw"]
  BY Zenon DEF retry
<1> HIDE DEF r, w
<1>a. /\ w \in ClientRecord /\ w.q = Append(t.q, "resetChannel") /\ w.state_ = "KDisconnected"
      /\ w.registered = t.registered \ {t.channel_} /\ w.channel_ = t.channel_
      /\ w.sockets = [t.sockets EXCEPT ![t.channel_] = "closed"]
      /\ w.batch = t.batch /\ w.established = t.established /\ w.halt = "" /\ w.call = t.call
  BY Zenon, <1>0, <1>2, EndFields DEF ClientRecord
<1>b. SameOwner(w, t)
  BY Zenon, <1>0, <1>2 DEF SameOwner, ClientRecord
<1>c. /\ r \in ClientRecord /\ r.q = w.q /\ r.state_ = w.state_ /\ r.registered = w.registered
      /\ r.channel_ = w.channel_ /\ r.sockets = w.sockets /\ r.batch = w.batch
      /\ r.established = w.established /\ r.halt \in {"", "throw"} /\ r.call = w.call
  BY ONLY ZenonT(40), <1>3, <1>a DEF ClientRecord
<1>4. SameOwner(r, t)
  <2>1. CASE r = w
    BY ONLY Zenon, <1>b, <2>1
  <2>2. CASE r = [w EXCEPT !.halt = "throw"]
    <3>1. SameOwner(r, w)
      BY ONLY Zenon, <1>a, <2>2 DEF SameOwner, ClientRecord
    <3>2. QED
      BY ONLY Zenon, <1>b, <3>1 DEF SameOwner
  <2>3. QED
    BY Zenon, <1>3, <2>1, <2>2
<1>5. t.established = 0
  BY Zenon DEF Sound, Running, Idle
<1>6. Sound(r) /\ (Settled(t) => Quiet(r))
  BY Zenon, <1>a, <1>c, <1>4, <1>5, AttemptEnds
<1>7. QED
  BY Zenon, <1>a, <1>c, <1>4, <1>5, <1>6 DEF r

(***************************************************************************)
(* handleWrite up to the test of connect_.                                 *)
(***************************************************************************)
LEMMA WritableIsSound ==
  ASSUME NEW t, Sound(t), t.halt = "", t.state_ = "Kconnecting", NEW good \in BOOLEAN
  PROVE  LET r == handleWrite(t, good)
         IN  /\ Sound(r) /\ SameOwner(r, t) /\ r.call = t.call
             /\ r.q = Append(t.q, "resetChannel") /\ r.batch = t.batch
             /\ Quiet(t) => Quiet(r) /\ r.halt \in {"", "throw"}
<1> DEFINE r == handleWrite(t, good)
           u == removeAndResetChannel(t)
           v == [u EXCEPT !.state_ = "Kconnected"]
           Goal == /\ Sound(r) /\ SameOwner(r, t) /\ r.call = t.call
                   /\ r.q = Append(t.q, "resetChannel") /\ r.batch = t.batch
                   /\ Quiet(t) => Quiet(r) /\ r.halt \in {"", "throw"}
<1> SUFFICES Goal
  BY Zenon
<1>a. Quiet(t) => Settled(t) /\ t.client = "alive"
  BY Zenon DEF Quiet
<1>0. t \in ClientRecord /\ t.established = 0 /\ t.channel_ # 0
  BY Zenon DEF Sound, Running, Idle, ChannelKept
<1>1. CASE ~good
  <2>1. r = retry(u, t.channel_)
    BY Zenon, <1>1 DEF handleWrite
  <2>2. /\ Sound(r) /\ SameOwner(r, t) /\ r.halt \in {"", "throw"} /\ r.call = t.call
        /\ r.q = Append(t.q, "resetChannel") /\ r.batch = t.batch
        /\ Settled(t) => Quiet(r)
    BY Zenon, <2>1, RetryIsSound
  <2> HIDE DEF r
  <2>3. QED
    BY Zenon, <1>a, <2>2
<1>2. v = [t EXCEPT !.q = Append(t.q, "resetChannel"), !.registered = t.registered \ {t.channel_},
                    !.state_ = "Kconnected"]
  BY Zenon, <1>0 DEF removeAndResetChannel, queueInLoop, ClientRecord
<1>3. CASE good /\ ~t.connect_
  <2>1. r = close(v, t.channel_)
    BY Zenon, <1>3 DEF handleWrite
  <2>2. r = [t EXCEPT !.q = Append(t.q, "resetChannel"), !.state_ = "Kconnected",
                      !.registered = t.registered \ {t.channel_},
                      !.sockets = [t.sockets EXCEPT ![t.channel_] = "closed"]]
    BY ZenonT(40), <1>0, <1>2, <2>1 DEF close, ClientRecord
  <2> HIDE DEF r
  <2>3. /\ r \in ClientRecord /\ r.q = Append(t.q, "resetChannel") /\ r.state_ = "Kconnected"
        /\ r.registered = t.registered \ {t.channel_} /\ r.channel_ = t.channel_
        /\ r.sockets = [t.sockets EXCEPT ![t.channel_] = "closed"]
        /\ r.batch = t.batch /\ r.established = 0 /\ r.halt = "" /\ r.call = t.call
    BY ZenonT(40), <1>0, <2>2, EndFields DEF ClientRecord
  <2>4. SameOwner(r, t)
    BY Zenon, <1>0, <2>2 DEF SameOwner, ClientRecord
  <2>5. Sound(r) /\ (Settled(t) => Quiet(r))
    BY Zenon, <2>3, <2>4, AttemptEnds
  <2>6. QED
    BY Zenon, <1>a, <2>3, <2>4, <2>5
<1>4. CASE good /\ t.connect_
  <2>1. r = [v EXCEPT !.established = t.channel_]
    BY Zenon, <1>4 DEF handleWrite
  <2>2. r = [t EXCEPT !.q = Append(t.q, "resetChannel"), !.registered = t.registered \ {t.channel_},
                      !.state_ = "Kconnected", !.established = t.channel_]
    BY Zenon, <1>0, <1>2, <2>1 DEF ClientRecord
  <2> HIDE DEF r
  <2>3. /\ r \in ClientRecord /\ r.q = Append(t.q, "resetChannel") /\ r.state_ = "Kconnected"
        /\ r.registered = t.registered \ {t.channel_} /\ r.channel_ = t.channel_
        /\ r.sockets = t.sockets /\ r.batch = t.batch /\ r.established = t.channel_ /\ r.halt = ""
        /\ r.call = t.call
    <3>1. t.channel_ \in 0..MaxSockets
      BY Zenon, <1>0, Fields
    <3>2. QED
      BY ZenonT(40), <1>0, <2>2, <3>1, EndFields DEF ClientRecord
  <2>4. SameOwner(r, t)
    BY Zenon, <1>0, <2>2 DEF SameOwner, ClientRecord
  <2>5. Sound(r) /\ (Settled(t) /\ t.client = "alive" => Quiet(r))
    BY Zenon, <2>3, <2>4, AttemptEnds
  <2>6. QED
    BY Zenon, <1>a, <2>3, <2>4, <2>5
<1>5. QED
  BY Zenon, <1>1, <1>3, <1>4

(***************************************************************************)
(* The call of newConnection that ends handleWrite.                        *)
(***************************************************************************)
LEMMA NewConnectionIsSound ==
  ASSUME NEW t, Sound(t), t.halt = "", t.established # 0
  PROVE  LET r == newConnection(t)
         IN  /\ Sound(r) /\ SameQueues(r, t) /\ r.call = t.call /\ r.stopped = t.stopped
             /\ r.clientConnect_ = t.clientConnect_
             /\ r.halt = "" => r.state_ # "Kconnecting" /\ Idle(r)
             /\ Quiet(t) => Quiet(r) /\ r.halt = ""
<1> DEFINE r == newConnection(t)
           new == [fd |-> t.established, state |-> "KConnected", closeCallback |-> "client"]
           Goal == /\ Sound(r) /\ SameQueues(r, t) /\ r.call = t.call /\ r.stopped = t.stopped
                   /\ r.clientConnect_ = t.clientConnect_
                   /\ r.halt = "" => r.state_ # "Kconnecting" /\ Idle(r)
                   /\ Quiet(t) => Quiet(r) /\ r.halt = ""
<1> SUFFICES Goal
  BY Zenon
<1>0. t \in ClientRecord /\ Owned(t) /\ Running(t)
  BY Zenon DEF Sound
<1>1. t.state_ = "Kconnected" /\ t.conn.fd = 0 /\ ~t.restarting
  BY Zenon, <1>0 DEF Running, Idle
<1>2. CASE t.client = "destroyed"
  <2>1. r = [t EXCEPT !.halt = "dangling"]
    BY Zenon, <1>2 DEF newConnection
  <2> HIDE DEF r
  <2>2. /\ r \in ClientRecord /\ r.halt = "dangling" /\ SameOwner(r, t) /\ SameQueues(r, t)
        /\ r.call = t.call
    BY Zenon, <1>0, <2>1 DEF ClientRecord, SameOwner, SameQueues
  <2>3. Sound(r)
    BY Zenon, <2>2, HaltedIsSound DEF SameOwner
  <2>4. ~Quiet(t)
    BY Zenon, <1>2 DEF Quiet, Idle
  <2>5. QED
    BY Zenon, <2>2, <2>3, <2>4 DEF SameOwner
<1>3. CASE t.client = "alive"
  <2>1. /\ new \in [fd: 0..MaxSockets, state: {"KDisconnected", "KConnected", "KDisconnecting"},
                    closeCallback: {"none", "client"}]
        /\ new.fd = t.established /\ new.closeCallback = "client"
    <3>1. t.established \in 0..MaxSockets
      BY Zenon, <1>0, Fields
    <3>2. QED
      BY ONLY <3>1
  <2>2. r = [t EXCEPT !.connection_ = t.established, !.established = 0, !.conn = new]
    BY Zenon, <1>3 DEF newConnection
  <2>3. 0 \in 0..MaxSockets /\ t.established \in 0..MaxSockets
    <3>1. 0 \in 0..MaxSockets
      BY ONLY TcpClientAssumption
    <3>2. QED
      BY Zenon, <1>0, <3>1, Fields
  <2> HIDE DEF r, new
  <2>4. /\ r \in ClientRecord /\ r.state_ = t.state_ /\ r.registered = t.registered
        /\ r.channel_ = t.channel_ /\ r.sockets = t.sockets /\ r.established = 0 /\ r.halt = t.halt
        /\ r.client = t.client /\ r.connector_ = t.connector_ /\ r.connection_ = t.established
        /\ r.conn = new /\ r.restarting = t.restarting /\ r.call = t.call /\ r.stopped = t.stopped
        /\ r.clientConnect_ = t.clientConnect_ /\ r.connect_ = t.connect_
    BY ONLY ZenonT(40), <1>0, <2>1, <2>2, <2>3 DEF ClientRecord
  <2>5. SameQueues(r, t)
    BY ONLY Zenon, <1>0, <2>2 DEF ClientRecord, SameQueues
  <2>6. Owned(r)
    <3>1. \A i \in 1..MaxSockets : /\ t.sockets[i] = "open" <=> i = t.established
                                   /\ i \notin t.registered
      BY ONLY <1>0, <1>1, OwnedSockets, SocketNumbers
    <3>2. \A i \in 1..MaxSockets : /\ r.sockets[i] = "open" <=> i = r.conn.fd
                                   /\ i \notin r.registered
      BY Zenon, <2>1, <2>4, <3>1
    <3>3. r \in ClientRecord /\ r.state_ # "Kconnecting" /\ r.established = 0
      BY Zenon, <1>1, <2>4
    <3>4. QED
      BY ONLY <3>2, <3>3, OwnedSockets, SocketNumbers
  <2>7. Running(r)
    BY Zenon, <1>0, <1>1, <1>3, <2>1, <2>4, <2>5 DEF Running, Idle, ChannelKept, Pending, SameQueues
  <2>8. Sound(r)
    BY Zenon, <2>1, <2>4, <2>6, <2>7 DEF Sound
  <2>9. Quiet(t) => Quiet(r)
    BY Zenon, <1>1, <1>3, <2>4, <2>5 DEF Quiet, Settled, Idle, Pending, SameQueues
  <2>10. QED
    BY Zenon, <1>1, <2>4, <2>5, <2>8, <2>9 DEF Idle
<1>4. QED
  BY Zenon, <1>0, <1>2, <1>3, Fields

(***************************************************************************)
(* handleError, and the handleWrite that follows it: it finds nothing to   *)
(* do.                                                                     *)
(***************************************************************************)
LEMMA ErrorIsSound ==
  ASSUME NEW t, Sound(t), t.halt = "", t.state_ = "Kconnecting"
  PROVE  LET r == IF handleError(t).halt = "" THEN handleWrite(handleError(t), FALSE) ELSE handleError(t)
         IN  /\ Sound(r) /\ SameOwner(r, t) /\ r.call = t.call
             /\ r.q = Append(t.q, "resetChannel") /\ r.batch = t.batch
             /\ Quiet(t) => Quiet(r) /\ r.halt \in {"", "throw"}
<1> DEFINE e == handleError(t)
<1>1. e = retry(removeAndResetChannel(t), t.channel_)
  BY Zenon DEF handleError
<1>2. /\ Sound(e) /\ SameOwner(e, t) /\ e.halt \in {"", "throw"} /\ e.state_ = "KDisconnected"
      /\ e.call = t.call /\ e.q = Append(t.q, "resetChannel") /\ e.batch = t.batch
      /\ Settled(t) => Quiet(e)
  BY Zenon, <1>1, RetryIsSound
<1> HIDE DEF e
<1>3. handleWrite(e, FALSE) = e
  BY Zenon, <1>2 DEF handleWrite
<1>4. QED
  BY Zenon, <1>2, <1>3 DEF e, Quiet

-----------------------------------------------------------------------------
(* The end of a connection.                                                *)

(* What the end of a connection leaves alone. *)
Dropped(r, t) ==
  /\ SameQueues(r, t) /\ r.client = t.client /\ r.connector_ = t.connector_ /\ r.channel_ = t.channel_
  /\ r.call = t.call /\ r.stopped = t.stopped /\ r.clientConnect_ = t.clientConnect_

LEMMA DropIsSound ==
  ASSUME NEW t, Sound(t), t.halt = "", t.conn.fd # 0
  PROVE  LET r == connectDestroyed([t EXCEPT !.connection_ = 0])
         IN  /\ Sound(r) /\ Dropped(r, t)
             /\ r.connection_ = 0 /\ r.conn.fd = 0 /\ r.halt = "" /\ r.state_ = "Kconnected"
             /\ Idle(r)
<1> DEFINE r == connectDestroyed([t EXCEPT !.connection_ = 0])
           new == [t.conn EXCEPT !.fd = 0, !.state = "KDisconnected"]
           ss == [t.sockets EXCEPT ![t.conn.fd] = "closed"]
<1> SUFFICES /\ Sound(r) /\ Dropped(r, t)
             /\ r.connection_ = 0 /\ r.conn.fd = 0 /\ r.halt = "" /\ r.state_ = "Kconnected"
             /\ Idle(r)
  BY Zenon
<1>0. /\ t \in ClientRecord /\ Owned(t) /\ Running(t) /\ t.state_ = "Kconnected"
      /\ t.connection_ \in {0, t.conn.fd} /\ t.established = 0 /\ ~t.restarting
  BY Zenon DEF Sound, Running, Idle
<1>1. /\ new \in [fd: 0..MaxSockets, state: {"KDisconnected", "KConnected", "KDisconnecting"},
                  closeCallback: {"none", "client"}]
      /\ new.fd = 0
  <2>1. t.conn \in [fd: 0..MaxSockets, state: {"KDisconnected", "KConnected", "KDisconnecting"},
                    closeCallback: {"none", "client"}]
    BY Zenon, <1>0 DEF ClientRecord
  <2>2. 0 \in 0..MaxSockets
    BY ONLY TcpClientAssumption
  <2>3. QED
    BY ONLY Zenon, <2>1, <2>2
<1>2. /\ ss \in [1..MaxSockets -> {"unused", "open", "closed"}]
      /\ \A i \in 1..MaxSockets : ss[i] = IF i = t.conn.fd THEN "closed" ELSE t.sockets[i]
  <2>1. t.sockets \in [1..MaxSockets -> {"unused", "open", "closed"}]
    BY Zenon, <1>0, Fields
  <2>2. QED
    BY ONLY Zenon, <2>1
<1>3. r = [t EXCEPT !.connection_ = 0, !.sockets = ss, !.conn = new]
  BY Zenon, <1>0 DEF connectDestroyed, close, ClientRecord
<1> HIDE DEF r, new, ss
<1>4. /\ r \in ClientRecord /\ r.state_ = t.state_ /\ r.channel_ = t.channel_ /\ r.sockets = ss
      /\ r.registered = t.registered /\ r.established = t.established /\ r.restarting = t.restarting
      /\ r.client = t.client /\ r.connection_ = 0 /\ r.halt = t.halt /\ r.conn = new
  <2>1. 0 \in 0..MaxSockets
    BY ONLY TcpClientAssumption
  <2>2. QED
    BY ZenonT(40), <1>0, <1>1, <1>2, <1>3, <2>1 DEF ClientRecord
<1>5. SameQueues(r, t) /\ Dropped(r, t)
  BY Zenon, <1>0, <1>3 DEF SameQueues, Dropped, ClientRecord
<1>6. \A i \in 1..MaxSockets : /\ t.sockets[i] = "open" <=> i = t.conn.fd
                               /\ i \notin t.registered
  BY ONLY <1>0, OwnedSockets, SocketNumbers
<1>7. Owned(r)
  <2>1. \A i \in 1..MaxSockets : r.sockets[i] # "open" /\ i \notin r.registered
    BY ZenonT(40), <1>2, <1>4, <1>6
  <2>2. r.conn.fd = 0 /\ r.established = 0 /\ r.state_ # "Kconnecting"
    BY Zenon, <1>0, <1>1, <1>4
  <2>3. QED
    BY Zenon, <1>4, <2>1, <2>2, NothingOpen
<1>8. Running(r)
  BY Zenon, <1>0, <1>1, <1>4, <1>5 DEF Running, Idle, ChannelKept, Pending, SameQueues
<1>9. QED
  BY Zenon, <1>0, <1>1, <1>4, <1>5, <1>7, <1>8 DEF Sound, Idle

(***************************************************************************)
(* handleClose, with removeConnection up to the test of connect_.          *)
(***************************************************************************)
LEMMA CloseIsSound ==
  ASSUME NEW t, Sound(t), t.halt = "", t.conn.fd # 0
  PROVE  LET r == handleClose(t)
         IN  /\ Sound(r) /\ Dropped(r, t)
             /\ r.halt = "" => r.state_ # "Kconnecting" /\ (t.clientConnect_ \/ Idle(r))
             /\ t.client = "destroyed" => Idle(r)
             /\ Quiet(t) /\ (t.channel_ = 0 \/ t.client = "destroyed") => Quiet(r) /\ r.halt = ""
<1> DEFINE r == handleClose(t)
           u == connectDestroyed([t EXCEPT !.connection_ = 0])
           Goal == /\ Sound(r) /\ Dropped(r, t)
                   /\ r.halt = "" => r.state_ # "Kconnecting" /\ (t.clientConnect_ \/ Idle(r))
                   /\ t.client = "destroyed" => Idle(r)
                   /\ Quiet(t) /\ (t.channel_ = 0 \/ t.client = "destroyed") => Quiet(r) /\ r.halt = ""
<1> SUFFICES Goal
  BY Zenon
<1>0. t \in ClientRecord /\ Running(t) /\ t.client \in {"alive", "destroyed"} /\ Idle(t)
  BY Zenon, Fields DEF Sound, Running
<1>1. /\ Sound(u) /\ Dropped(u, t)
      /\ u.connection_ = 0 /\ u.conn.fd = 0 /\ u.halt = "" /\ u.state_ = "Kconnected" /\ Idle(u)
  BY Zenon, DropIsSound
<1>2. Quiet(t) => Settled(u) /\ Quiet(u)
  BY Zenon, <1>1 DEF Quiet, Settled, Idle, Pending, Dropped, SameQueues
<1>3. CASE t.conn.closeCallback = "client" /\ t.client = "destroyed"
  <2>1. r = [t EXCEPT !.halt = "dangling"]
    BY Zenon, <1>3 DEF handleClose, removeConnection
  <2> HIDE DEF r
  <2>2. /\ r \in ClientRecord /\ r.halt = "dangling" /\ SameOwner(r, t) /\ SameQueues(r, t)
        /\ Dropped(r, t) /\ r.established = t.established
    BY Zenon, <1>0, <2>1 DEF ClientRecord, SameOwner, SameQueues, Dropped
  <2>3. Sound(r)
    BY Zenon, <2>2, HaltedIsSound DEF SameOwner
  <2>4. ~Quiet(t)
    BY Zenon, <1>3 DEF Quiet, Settled
  <2>5. QED
    BY Zenon, <1>0, <2>2, <2>3, <2>4 DEF SameOwner, Idle
<1>4. CASE t.conn.closeCallback = "client" /\ t.client = "alive"
  <2> DEFINE b == t.retry_ /\ t.clientConnect_
  <2>1. r = [u EXCEPT !.restarting = b]
    BY Zenon, <1>4 DEF handleClose, removeConnection
  <2>2. b \in BOOLEAN /\ (b => t.clientConnect_)
    BY Zenon, <1>0 DEF ClientRecord
  <2> HIDE DEF r, u, b
  <2>3. /\ r \in ClientRecord /\ r.state_ = u.state_ /\ r.channel_ = u.channel_ /\ r.sockets = u.sockets
        /\ r.registered = u.registered /\ r.established = u.established /\ r.restarting = b
        /\ r.client = u.client /\ r.connector_ = u.connector_ /\ r.connection_ = u.connection_
        /\ r.conn = u.conn /\ r.halt = u.halt /\ r.call = u.call
    BY Zenon, <1>1, <2>1, <2>2 DEF Sound, ClientRecord
  <2>4. SameQueues(r, u) /\ Dropped(r, u)
    BY Zenon, <1>1, <2>1, <2>2 DEF Sound, ClientRecord, SameQueues, Dropped
  <2>5. Sound(r)
    <3>1. Owned(r)
      BY Zenon, <1>1, <2>3, OwnedFrame DEF Sound
    <3>2. Running(r)
      BY Zenon, <1>1, <2>3, <2>4 DEF Sound, Running, Idle, ChannelKept, Pending, SameQueues
    <3>3. QED
      BY Zenon, <1>1, <2>3, <3>1, <3>2 DEF Sound
  <2>6. Quiet(t) /\ t.channel_ = 0 => Quiet(r)
    BY Zenon, <1>1, <1>2, <1>4, <2>3, <2>4 DEF Quiet, Settled, Idle, Pending, Dropped, SameQueues
  <2>7. QED
    BY Zenon, <1>1, <1>4, <2>2, <2>3, <2>4, <2>5, <2>6 DEF Dropped, SameQueues, Idle
<1>5. CASE t.conn.closeCallback # "client"
  <2>1. t.connection_ = 0 /\ t.client = "destroyed"
    BY Zenon, <1>0, <1>5 DEF Running
  <2>2. [t EXCEPT !.connection_ = 0] = t
    BY Zenon, <1>0, <2>1 DEF ClientRecord
  <2>3. r = u
    BY Zenon, <1>5, <2>2 DEF handleClose
  <2> HIDE DEF r, u
  <2>4. QED
    BY Zenon, <1>1, <1>2, <2>3
<1>6. QED
  BY Zenon, <1>0, <1>3, <1>4, <1>5

(***************************************************************************)
(* The call of restart that ends removeConnection.                         *)
(***************************************************************************)
LEMMA RestartIsSound ==
  ASSUME NEW t, Sound(t), t.halt = "", t.restarting, FreeSockets(t) # {},
         NEW ret \in {"connecting", "retry", "error"}
  PROVE  LET r == restart([t EXCEPT !.restarting = FALSE], ret)
         IN  /\ Sound(r) /\ SameQueues(r, t) /\ r.call = t.call /\ r.stopped = t.stopped
             /\ r.clientConnect_ = t.clientConnect_
             /\ Quiet(t) => Quiet(r) /\ r.halt \in {"", "throw"}
<1> DEFINE w == [t EXCEPT !.restarting = FALSE, !.state_ = "KDisconnected", !.connect_ = TRUE]
           r == restart([t EXCEPT !.restarting = FALSE], ret)
<1> SUFFICES /\ Sound(r) /\ SameQueues(r, t) /\ r.call = t.call /\ r.stopped = t.stopped
             /\ r.clientConnect_ = t.clientConnect_
             /\ Quiet(t) => Quiet(r) /\ r.halt \in {"", "throw"}
  BY Zenon
<1>0. t \in ClientRecord /\ Owned(t) /\ Running(t) /\ t.connection_ \in {0, t.conn.fd}
  BY Zenon DEF Sound
<1>1. t.state_ = "Kconnected" /\ t.conn.fd = 0 /\ t.established = 0
  BY Zenon, <1>0 DEF Running, Idle
<1>2. r = startInLoop(w, ret)
  BY Zenon, <1>0 DEF restart, ClientRecord
<1>3. /\ w \in ClientRecord /\ w.state_ = "KDisconnected" /\ w.channel_ = t.channel_
      /\ w.sockets = t.sockets /\ w.registered = t.registered /\ w.established = t.established
      /\ ~w.restarting /\ w.halt = t.halt /\ w.client = t.client /\ w.connector_ = t.connector_
      /\ w.connection_ = t.connection_ /\ w.conn = t.conn /\ w.call = t.call /\ w.stopped = t.stopped
      /\ w.clientConnect_ = t.clientConnect_
  BY ZenonT(40), <1>0 DEF ClientRecord
<1>4. SameQueues(w, t)
  BY Zenon, <1>0 DEF ClientRecord, SameQueues
<1> HIDE DEF r, w
<1>5. Owned(w)
  BY Zenon, <1>0, <1>1, <1>3 DEF Owned, Attempt
<1>6. Running(w)
  BY Zenon, <1>0, <1>1, <1>3, <1>4 DEF Running, Idle, ChannelKept, Pending, SameQueues
<1>7. Sound(w)
  BY Zenon, <1>0, <1>3, <1>5, <1>6 DEF Sound
<1>8. FreeSockets(w) # {}
  BY Zenon, <1>3 DEF FreeSockets
<1>9. Quiet(t) => Quiet(w) /\ w.client = "alive" /\ w.channel_ = 0
  BY Zenon, <1>1, <1>3, <1>4 DEF Quiet, Settled, Idle, Pending, SameQueues
<1>10. /\ Sound(r) /\ SameOwner(r, w) /\ SameQueues(r, w) /\ r.call = w.call
       /\ Quiet(w) /\ w.client = "alive" /\ w.channel_ = 0 /\ w.state_ = "KDisconnected" =>
            Quiet(r) /\ r.halt \in {"", "throw"}
  BY Zenon, <1>2, <1>3, <1>7, <1>8, StartIsSound
<1>11. QED
  BY Zenon, <1>3, <1>4, <1>9, <1>10 DEF SameOwner, SameQueues

-----------------------------------------------------------------------------
(* The end of the client and of the Connector.                             *)

LEMMA FreeIsSound ==
  ASSUME NEW t, Sound(t), t.halt = ""
  PROVE  /\ Sound(freeConnector(t)) /\ SameQueues(freeConnector(t), t)
         /\ freeConnector(t).call = t.call /\ freeConnector(t).stopped = t.stopped
         /\ freeConnector(t).clientConnect_ = t.clientConnect_
         /\ freeConnector(t).state_ = t.state_ /\ (Idle(freeConnector(t)) <=> Idle(t))
         /\ Quiet(t) /\ t.client = "destroyed" /\ t.channel_ = 0 =>
              Quiet(freeConnector(t)) /\ freeConnector(t).halt = ""
<1> DEFINE r == freeConnector(t)
<1>0. t \in ClientRecord
  BY Zenon DEF Sound
<1>1. CASE t.channel_ # 0
  <2>1. r = [t EXCEPT !.connector_ = "freed", !.halt = "assert"]
    BY Zenon, <1>1 DEF freeConnector
  <2> HIDE DEF r
  <2>2. /\ r \in ClientRecord /\ r.halt = "assert" /\ r.connection_ = t.connection_ /\ r.conn = t.conn
        /\ r.call = t.call /\ r.stopped = t.stopped /\ r.clientConnect_ = t.clientConnect_
        /\ r.state_ = t.state_ /\ r.established = t.established /\ r.restarting = t.restarting
    BY Zenon, <1>0, <2>1 DEF ClientRecord
  <2>3. SameQueues(r, t)
    BY Zenon, <1>0, <2>1 DEF ClientRecord, SameQueues
  <2>4. QED
    BY Zenon, <1>1, <2>2, <2>3, HaltedIsSound DEF r, Idle
<1>2. CASE t.channel_ = 0
  <2>1. r = [t EXCEPT !.connector_ = "freed"]
    BY Zenon, <1>0, <1>2 DEF freeConnector, ClientRecord
  <2> HIDE DEF r
  <2>2. /\ r \in ClientRecord /\ r.connector_ = "freed" /\ r.state_ = t.state_ /\ r.channel_ = t.channel_
        /\ r.sockets = t.sockets /\ r.registered = t.registered /\ r.established = t.established
        /\ r.client = t.client /\ r.connection_ = t.connection_ /\ r.conn = t.conn
        /\ r.q = t.q /\ r.batch = t.batch /\ r.halt = t.halt /\ r.connect_ = t.connect_
        /\ r.call = t.call /\ r.stopped = t.stopped /\ r.clientConnect_ = t.clientConnect_
        /\ r.restarting = t.restarting /\ r.events = t.events
    BY Zenon, <1>0, <2>1 DEF ClientRecord
  <2>3. Sound(r)
    BY Zenon, <2>2, SoundFrame
  <2>4. Quiet(t) /\ t.client = "destroyed" => Quiet(r)
    BY Zenon, <1>2, <2>2 DEF Quiet, Settled, Idle, Pending
  <2>5. QED
    BY Zenon, <2>2, <2>3, <2>4 DEF r, Idle, SameQueues
<1>3. QED
  BY Zenon, <1>1, <1>2

(* ~TcpClient before it has looked at the connection. *)
LEMMA ForgetIsSound ==
  ASSUME NEW t, Sound(t), t.halt = ""
  PROVE  LET u == [t EXCEPT !.client = "destroyed", !.connection_ = 0]
         IN  /\ Sound(u) /\ u.client = "destroyed" /\ u.connection_ = 0 /\ u.halt = "" /\ u.conn = t.conn
             /\ u.state_ = t.state_ /\ u.channel_ = t.channel_ /\ u.connector_ = t.connector_
             /\ u.q = t.q /\ u.batch = t.batch /\ u.established = t.established
             /\ u.restarting = t.restarting /\ u.call = t.call /\ u.stopped = t.stopped
             /\ u.clientConnect_ = t.clientConnect_
<1> DEFINE u == [t EXCEPT !.client = "destroyed", !.connection_ = 0]
<1> SUFFICES /\ Sound(u) /\ u.client = "destroyed" /\ u.connection_ = 0 /\ u.halt = "" /\ u.conn = t.conn
             /\ u.state_ = t.state_ /\ u.channel_ = t.channel_ /\ u.connector_ = t.connector_
             /\ u.q = t.q /\ u.batch = t.batch /\ u.established = t.established
             /\ u.restarting = t.restarting /\ u.call = t.call /\ u.stopped = t.stopped
             /\ u.clientConnect_ = t.clientConnect_
  BY Zenon
<1>0. t \in ClientRecord /\ Owned(t) /\ Running(t)
  BY Zenon DEF Sound
<1>1. 0 \in 0..MaxSockets
  BY ONLY TcpClientAssumption
<1>2. /\ u \in ClientRecord /\ u.client = "destroyed" /\ u.connection_ = 0 /\ u.halt = ""
      /\ u.conn = t.conn /\ u.state_ = t.state_ /\ u.channel_ = t.channel_
      /\ u.connector_ = t.connector_ /\ u.q = t.q /\ u.batch = t.batch /\ u.sockets = t.sockets
      /\ u.registered = t.registered /\ u.established = t.established
      /\ u.restarting = t.restarting /\ u.call = t.call /\ u.stopped = t.stopped
      /\ u.clientConnect_ = t.clientConnect_
  BY ZenonT(40), <1>0, <1>1 DEF ClientRecord
<1> HIDE DEF u
<1>3. Owned(u)
  BY Zenon, <1>0, <1>2, OwnedFrame
<1>4. Running(u)
  BY Zenon, <1>0, <1>2 DEF Running, Idle, ChannelKept, Pending
<1>5. QED
  BY Zenon, <1>2, <1>3, <1>4 DEF Sound

LEMMA DestroyIsSound ==
  ASSUME NEW t, Sound(t), t.halt = "", t.client = "alive", t.call = "",
         NEW inLoop \in BOOLEAN, NEW unique \in BOOLEAN
  PROVE  LET r == destroy(t, inLoop, unique)
         IN  /\ Sound(r) /\ QueueKept(r, t) /\ r.stopped = t.stopped
             /\ r.clientConnect_ = t.clientConnect_ /\ r.call \in {"", "stopInLoop"}
             /\ inLoop => r.call = ""
             /\ r.halt = "" /\ r.call = "" =>
                  (r.state_ = "Kconnecting" \/ ~Idle(r) => t.state_ = "Kconnecting" \/ ~Idle(t))
             /\ inLoop /\ Quiet(t) /\ Idle(t) /\ (t.channel_ # 0 => t.state_ = "Kconnecting") =>
                  Quiet(r) /\ r.halt = ""
<1> DEFINE u == [t EXCEPT !.client = "destroyed", !.connection_ = 0]
           v == IF inLoop THEN [u EXCEPT !.conn.closeCallback = "none"] ELSE queueInLoop(u, "setCloseCallback")
           x == [v EXCEPT !.conn.state = "KDisconnecting"]
           w == IF unique THEN queueInLoop(x, "forceClose") ELSE v
           Calm == inLoop /\ Quiet(t) /\ Idle(t) /\ (t.channel_ # 0 => t.state_ = "Kconnecting")
           r == destroy(t, inLoop, unique)
           Same(y) == /\ y.client = "destroyed" /\ y.halt = "" /\ y.state_ = t.state_
                      /\ y.channel_ = t.channel_ /\ y.established = t.established
                      /\ y.restarting = t.restarting /\ y.call = "" /\ y.stopped = t.stopped
                      /\ y.clientConnect_ = t.clientConnect_
           Goal == /\ Sound(r) /\ QueueKept(r, t) /\ r.stopped = t.stopped
                   /\ r.clientConnect_ = t.clientConnect_ /\ r.call \in {"", "stopInLoop"}
                   /\ inLoop => r.call = ""
                   /\ r.halt = "" /\ r.call = "" =>
                        (r.state_ = "Kconnecting" \/ ~Idle(r) => t.state_ = "Kconnecting" \/ ~Idle(t))
                   /\ Calm => Quiet(r) /\ r.halt = ""
<1> SUFFICES Goal
  BY Zenon
<1>0. t \in ClientRecord /\ Running(t)
  BY Zenon DEF Sound
<1>1. r = IF t.connection_ # 0 THEN freeConnector(w) ELSE [stop(u, inLoop) EXCEPT !.connector_ = "held"]
  BY Zenon DEF destroy
<1>2. /\ Sound(u) /\ Same(u) /\ u.connection_ = 0 /\ u.conn = t.conn /\ u.connector_ = t.connector_
      /\ u.q = t.q /\ u.batch = t.batch
  BY Zenon, ForgetIsSound
<1> HIDE DEF u, r
<1>3. CASE t.connection_ # 0
  <2>0. t.state_ = "Kconnected" /\ Idle(t)
    BY Zenon, <1>0, <1>3 DEF Running
  <2>1. Sound(v) /\ Same(v) /\ QueueKept(v, t) /\ (Calm => Settled(v))
    <3>1. CASE inLoop
      <4>0. v = [u EXCEPT !.conn.closeCallback = "none"]
        BY Zenon, <3>1
      <4> HIDE DEF v
      <4>1. /\ v \in ClientRecord /\ v.conn.fd = u.conn.fd /\ v.conn.closeCallback = "none"
            /\ v.state_ = u.state_ /\ v.channel_ = u.channel_ /\ v.sockets = u.sockets
            /\ v.registered = u.registered /\ v.established = u.established /\ v.client = u.client
            /\ v.connector_ = u.connector_ /\ v.connection_ = u.connection_ /\ v.q = u.q
            /\ v.batch = u.batch /\ v.halt = u.halt /\ v.restarting = u.restarting /\ v.call = u.call
            /\ v.stopped = u.stopped /\ v.clientConnect_ = u.clientConnect_
        BY ZenonT(60), <1>2, <4>0 DEF Sound, ClientRecord
      <4>2. Sound(v)
        BY Zenon, <1>2, <4>1, SoundFrame
      <4>3. Settled(t) => Settled(v)
        BY Zenon, <1>2, <4>1 DEF Settled, Pending
      <4>4. QueueKept(v, t)
        BY Zenon, <1>2, <4>1 DEF QueueKept
      <4>5. QED
        BY Zenon, <1>2, <4>1, <4>2, <4>3, <4>4 DEF Quiet
    <3>2. CASE ~inLoop
      <4>1. v = queueInLoop(u, "setCloseCallback")
        BY Zenon, <3>2
      <4> HIDE DEF v
      <4>2. Sound(v) /\ Same(v) /\ v.q = Append(u.q, "setCloseCallback") /\ v.batch = u.batch
        BY Zenon, <1>2, <4>1, QueueIsSound, FunctorNames
      <4>3. QueueKept(v, t)
        BY Zenon, <1>0, <1>2, <4>2, AppendKeeps, FunctorNames
      <4>4. QED
        BY Zenon, <3>2, <4>2, <4>3
    <3>3. QED
      BY Zenon, <3>1, <3>2
  <2> HIDE DEF v
  <2>2. Sound(x) /\ Same(x) /\ x.q = v.q /\ x.batch = v.batch /\ (Calm => Settled(x))
    <3>1. /\ x \in ClientRecord /\ x.conn.fd = v.conn.fd /\ x.conn.closeCallback = v.conn.closeCallback
          /\ x.state_ = v.state_ /\ x.channel_ = v.channel_ /\ x.sockets = v.sockets
          /\ x.registered = v.registered /\ x.established = v.established /\ x.client = v.client
          /\ x.connector_ = v.connector_ /\ x.connection_ = v.connection_ /\ x.q = v.q
          /\ x.batch = v.batch /\ x.halt = v.halt /\ x.restarting = v.restarting /\ x.call = v.call
          /\ x.stopped = v.stopped /\ x.clientConnect_ = v.clientConnect_
      <4>1. v \in ClientRecord
        BY Zenon, <2>1 DEF Sound
      <4>2. QED
        BY ONLY ZenonT(60), <4>1 DEF x, ClientRecord
    <3> HIDE DEF x
    <3>2. Sound(x)
      BY Zenon, <2>1, <3>1, SoundFrame
    <3>3. Settled(v) => Settled(x)
      BY Zenon, <3>1 DEF Settled, Pending
    <3>4. QED
      BY Zenon, <2>1, <3>1, <3>2, <3>3
  <2> HIDE DEF x
  <2>3. Sound(w) /\ Same(w) /\ QueueKept(w, t) /\ (Calm => Settled(w))
    <3>1. CASE unique
      <4>0. w = queueInLoop(x, "forceClose")
        BY Zenon, <3>1
      <4> HIDE DEF w
      <4>1. /\ Sound(w) /\ Same(w) /\ w.q = Append(x.q, "forceClose") /\ w.batch = x.batch
            /\ w.connector_ = x.connector_ /\ w.conn = x.conn
        BY Zenon, <2>2, <4>0, QueueIsSound, FunctorNames
      <4>2. x \in ClientRecord /\ x.q \in Seq(Functors)
        BY Zenon, <2>2, Fields DEF Sound
      <4>3. \A f : Has(Append(x.q, "forceClose"), f) <=> Has(x.q, f) \/ f = "forceClose"
        BY ONLY <4>2, AfterAppend, FunctorNames
      <4>4. Settled(x) => Settled(w)
        BY Zenon, <2>2, <4>1, <4>3 DEF Settled, Pending
      <4>5. QueueKept(w, x)
        BY Zenon, <4>1, <4>2, AppendKeeps, FunctorNames
      <4>6. QueueKept(w, t)
        BY Zenon, <2>1, <2>2, <4>5 DEF QueueKept
      <4>7. QED
        BY Zenon, <2>2, <4>1, <4>4, <4>6
    <3>2. CASE ~unique
      BY Zenon, <2>1, <3>2
    <3>3. QED
      BY Zenon, <3>1, <3>2
  <2> HIDE DEF w
  <2>4. r = freeConnector(w)
    BY Zenon, <1>1, <1>3
  <2>5. Calm => Quiet(w) /\ w.channel_ = 0
    BY Zenon, <2>0, <2>3 DEF Quiet, Idle
  <2>6. /\ Sound(r) /\ SameQueues(r, w) /\ r.call = w.call /\ r.stopped = w.stopped
        /\ r.clientConnect_ = w.clientConnect_ /\ r.state_ = w.state_ /\ (Idle(r) <=> Idle(w))
        /\ Quiet(w) /\ w.client = "destroyed" /\ w.channel_ = 0 => Quiet(r) /\ r.halt = ""
    BY Zenon, <2>3, <2>4, FreeIsSound
  <2>7. QueueKept(r, t)
    BY Zenon, <2>3, <2>6 DEF QueueKept, SameQueues
  <2> HIDE DEF Calm
  <2>8. QED
    BY Zenon, <2>3, <2>5, <2>6, <2>7 DEF Idle
<1>4. CASE t.connection_ = 0
  <2> DEFINE y == stop(u, inLoop)
  <2>1. /\ Sound(y) /\ SameOwner(y, u) /\ y.halt = "" /\ y.batch = u.batch
        /\ y.established = u.established /\ y.q \in {u.q, Append(u.q, "resetChannel")}
        /\ inLoop => y.state_ # "Kconnecting" /\ y.call = u.call
        /\ ~inLoop => y.call = "stopInLoop"
        /\ inLoop /\ Settled(u) /\ Idle(u) => Quiet(y)
    BY Zenon, <1>2, StopIsSound
  <2> HIDE DEF y
  <2>2. r = [y EXCEPT !.connector_ = "held"]
    BY Zenon, <1>1, <1>4 DEF y
  <2>3. /\ r \in ClientRecord /\ r.connector_ = "held" /\ r.state_ = y.state_ /\ r.channel_ = y.channel_
        /\ r.sockets = y.sockets /\ r.registered = y.registered /\ r.established = y.established
        /\ r.client = y.client /\ r.connection_ = y.connection_ /\ r.conn = y.conn
        /\ r.q = y.q /\ r.batch = y.batch /\ r.halt = y.halt /\ r.connect_ = y.connect_
        /\ r.restarting = y.restarting /\ r.call = y.call /\ r.stopped = y.stopped
        /\ r.clientConnect_ = y.clientConnect_
    BY ZenonT(40), <2>1, <2>2 DEF Sound, ClientRecord
  <2>4. Sound(r)
    BY Zenon, <2>1, <2>3, SoundFrame
  <2>5. Calm => Settled(u) /\ Idle(u)
    <3>1. t.conn.fd = 0
      BY Zenon, <1>0, <1>4 DEF Running
    <3>2. QED
      BY Zenon, <1>2, <3>1 DEF Quiet, Settled, Idle, Pending
  <2>6. Quiet(y) => Quiet(r)
    BY Zenon, <1>2, <2>1, <2>3 DEF Quiet, Settled, Idle, Pending, SameOwner
  <2>7. QueueKept(r, t)
    BY Zenon, <1>0, <1>2, <2>1, <2>3, AppendKeeps, FunctorNames
  <2>8. r.restarting = t.restarting /\ r.stopped = t.stopped /\ r.clientConnect_ = t.clientConnect_
    BY Zenon, <1>2, <2>1, <2>3 DEF SameOwner
  <2>9. QED
    BY Zenon, <1>2, <2>1, <2>3, <2>4, <2>5, <2>6, <2>7, <2>8 DEF Idle
<1>5. QED
  BY Zenon, <1>3, <1>4

-----------------------------------------------------------------------------
(* Steps of the specification.                                             *)

(* The fields that Sound and Quiet read. *)
View(r, t) ==
  /\ r.state_ = t.state_ /\ r.channel_ = t.channel_ /\ r.sockets = t.sockets
  /\ r.registered = t.registered /\ r.established = t.established /\ r.client = t.client
  /\ r.connector_ = t.connector_ /\ r.connection_ = t.connection_ /\ r.conn.fd = t.conn.fd
  /\ r.conn.closeCallback = t.conn.closeCallback /\ r.q = t.q /\ r.batch = t.batch
  /\ r.halt = t.halt /\ r.connect_ = t.connect_ /\ r.restarting = t.restarting /\ r.call = t.call

(* StopInv, and the part of SafeInv about one state, of any record. *)
Stops(t) ==
  /\ t.stopped => ~t.clientConnect_ /\ t.call \in {"", "stopInLoop"}
  /\ InLoop => t.call = "" /\ ~Pending(t, "startInLoop")
  /\ t.halt = "" /\ t.stopped /\ t.call = "" => Stopping(t)

Calm(t) ==
  /\ t.halt = "" => Quiet(t)
  /\ t.halt \in {"", "throw"} \/ (t.halt = "startInLoop" /\ t.state_ = "Kconnected" /\ t.channel_ = 0)

(***************************************************************************)
(* After stop() nothing starts in r that was not under way in t.           *)
(***************************************************************************)
Calmer(r, t) ==
  /\ r.stopped = t.stopped /\ r.call = t.call /\ (r.clientConnect_ => t.clientConnect_)
  /\ QueueKept(r, t)
  /\ t.stopped /\ r.halt = "" /\ (r.state_ = "Kconnecting" \/ ~Idle(r)) =>
       t.state_ = "Kconnecting" \/ ~Idle(t)

LEMMA CalmerStops ==
  ASSUME NEW t, NEW r, t.halt = "", Stops(t), Calmer(r, t)
  PROVE  Stops(r)
<1>1. \A f : Pending(t, f) => Pending(r, f)
  BY Zenon DEF Calmer, QueueKept, Pending
<1>2. InLoop => r.call = "" /\ ~Pending(r, "startInLoop")
  BY Zenon DEF Stops, Calmer, QueueKept, Pending
<1>3. ASSUME r.halt = "", r.stopped, r.call = "" PROVE Stopping(r)
  <2>1. Stopping(t)
    BY Zenon, <1>3 DEF Stops, Calmer
  <2>2. StopLast(r.q) /\ (StopLast(r.batch) \/ Has(r.q, "stopInLoop"))
    BY Zenon, <2>1 DEF Stopping, Calmer, QueueKept
  <2>3. r.state_ = "Kconnecting" \/ ~Idle(r) => Pending(r, "stopInLoop")
    BY Zenon, <1>1, <1>3, <2>1 DEF Stopping, Calmer
  <2>4. QED
    BY Zenon, <2>2, <2>3 DEF Stopping
<1>4. QED
  BY Zenon, <1>2, <1>3 DEF Stops, Calmer

LEMMA SameView ==
  ASSUME NEW t, Sound(t), NEW r \in ClientRecord, View(r, t)
  PROVE  /\ Sound(r) /\ (Quiet(r) <=> Quiet(t)) /\ (Calm(r) <=> Calm(t))
         /\ FreeSockets(r) = FreeSockets(t) /\ (Idle(r) <=> Idle(t))
         /\ r.stopped = t.stopped /\ r.clientConnect_ = t.clientConnect_ /\ Stops(t) => Stops(r)
<1>1. Sound(r)
  BY SoundFrame DEF View
<1>2. Quiet(r) <=> Quiet(t)
  BY Zenon DEF View, Quiet, Settled, Idle, Pending
<1>3. Calm(r) <=> Calm(t)
  BY Zenon, <1>2 DEF View, Calm
<1>4. FreeSockets(r) = FreeSockets(t) /\ (Idle(r) <=> Idle(t))
  BY Zenon DEF View, FreeSockets, Idle
<1>5. r.stopped = t.stopped /\ r.clientConnect_ = t.clientConnect_ /\ Stops(t) => Stops(r)
  BY Zenon DEF View, Stops, Stopping, Idle, Pending
<1>6. QED
  BY Zenon, <1>1, <1>2, <1>3, <1>4, <1>5

LEMMA CountersAreFree ==
  ASSUME NEW t \in ClientRecord, NEW b \in BOOLEAN, NEW d \in BOOLEAN
  PROVE  /\ LET u == [t EXCEPT !.events = @ + 1]
            IN  /\ u \in ClientRecord /\ View(u, t) /\ u.stopped = t.stopped
                /\ u.clientConnect_ = t.clientConnect_ /\ u.events = t.events + 1
         /\ LET u == [t EXCEPT !.calls = @ + 1]
            IN  /\ u \in ClientRecord /\ View(u, t) /\ u.stopped = t.stopped
                /\ u.clientConnect_ = t.clientConnect_
         /\ LET u == [t EXCEPT !.clientConnect_ = b, !.stopped = d]
            IN  u \in ClientRecord /\ View(u, t) /\ u.stopped = d /\ u.clientConnect_ = b
<1>1. t.events + 1 \in Nat /\ t.calls + 1 \in Nat
  <2>1. t.events \in Nat /\ t.calls \in Nat
    BY Zenon DEF ClientRecord
  <2>2. QED
    BY ONLY <2>1
<1>2. LET u == [t EXCEPT !.events = t.events + 1]
      IN  /\ u \in ClientRecord /\ View(u, t) /\ u.stopped = t.stopped
          /\ u.clientConnect_ = t.clientConnect_ /\ u.events = t.events + 1
  BY ZenonT(40), <1>1 DEF ClientRecord, View
<1>3. LET u == [t EXCEPT !.calls = t.calls + 1]
      IN  /\ u \in ClientRecord /\ View(u, t) /\ u.stopped = t.stopped
          /\ u.clientConnect_ = t.clientConnect_
  BY ZenonT(40), <1>1 DEF ClientRecord, View
<1>4. LET u == [t EXCEPT !.clientConnect_ = b, !.stopped = d]
      IN  u \in ClientRecord /\ View(u, t) /\ u.stopped = d /\ u.clientConnect_ = b
  BY ZenonT(40) DEF ClientRecord, View
<1>5. QED
  BY Zenon, <1>2, <1>3, <1>4

LEMMA StartCallIsSound ==
  ASSUME NEW t, Sound(t), t.halt = "", FreeSockets(t) # {}, NEW inLoop \in BOOLEAN,
         NEW ret \in {"connecting", "retry", "error"}
  PROVE  LET r == start(t, inLoop, ret)
         IN  /\ Sound(r) /\ r.stopped = t.stopped
             /\ inLoop => r.call = t.call /\ r.q = t.q /\ r.batch = t.batch
             /\ /\ inLoop /\ Quiet(t) /\ t.client = "alive"
                /\ t.channel_ # 0 => t.state_ = "Kconnecting"
                => Calm(r)
<1> DEFINE r == start(t, inLoop, ret)
           u == [t EXCEPT !.connect_ = TRUE]
           Settle == inLoop /\ Quiet(t) /\ t.client = "alive" /\ (t.channel_ # 0 => t.state_ = "Kconnecting")
<1> SUFFICES /\ Sound(r) /\ r.stopped = t.stopped
             /\ inLoop => r.call = t.call /\ r.q = t.q /\ r.batch = t.batch
             /\ Settle => Calm(r)
  BY Zenon
<1>0. t \in ClientRecord
  BY Zenon DEF Sound
<1>1. r = IF ~inLoop THEN [t EXCEPT !.call = "start"] ELSE IF t.connect_ THEN t ELSE startInLoop(u, ret)
  BY Zenon DEF start
<1> HIDE DEF r
<1>2. CASE ~inLoop
  <2>1. r = [t EXCEPT !.call = "start"]
    BY Zenon, <1>1, <1>2
  <2>2. /\ r \in ClientRecord /\ r.state_ = t.state_ /\ r.channel_ = t.channel_ /\ r.sockets = t.sockets
        /\ r.registered = t.registered /\ r.established = t.established /\ r.client = t.client
        /\ r.restarting = t.restarting /\ r.connection_ = t.connection_ /\ r.conn = t.conn
        /\ r.q = t.q /\ r.batch = t.batch /\ r.halt = t.halt /\ r.stopped = t.stopped
    BY ZenonT(40), <1>0, <2>1 DEF ClientRecord
  <2>3. Sound(r)
    BY Zenon, <2>2, SoundFrame
  <2>4. QED
    BY Zenon, <1>2, <2>2, <2>3
<1>3. CASE inLoop /\ t.connect_
  <2>1. r = t
    BY Zenon, <1>1, <1>3
  <2>2. QED
    BY Zenon, <2>1 DEF Calm
<1>4. CASE inLoop /\ ~t.connect_
  <2>1. r = startInLoop(u, ret)
    BY Zenon, <1>1, <1>4
  <2>2. /\ u \in ClientRecord /\ u.state_ = t.state_ /\ u.channel_ = t.channel_ /\ u.sockets = t.sockets
        /\ u.registered = t.registered /\ u.established = t.established /\ u.client = t.client
        /\ u.connector_ = t.connector_ /\ u.connection_ = t.connection_ /\ u.conn = t.conn
        /\ u.q = t.q /\ u.batch = t.batch /\ u.halt = t.halt /\ u.connect_ = TRUE
        /\ u.restarting = t.restarting /\ u.call = t.call /\ u.stopped = t.stopped
    BY ZenonT(40), <1>0 DEF ClientRecord
  <2> HIDE DEF u
  <2>3. Sound(u) /\ FreeSockets(u) # {}
    BY Zenon, <2>2, SoundFrame DEF FreeSockets
  <2>4. /\ Sound(r) /\ SameOwner(r, u) /\ SameQueues(r, u) /\ r.call = u.call
        /\ u.state_ # "KDisconnected" =>
             r.halt = "startInLoop" /\ r.state_ = u.state_ /\ r.channel_ = u.channel_
        /\ Quiet(u) /\ u.client = "alive" /\ u.channel_ = 0 /\ u.state_ = "KDisconnected" =>
             Quiet(r) /\ r.halt \in {"", "throw"}
    BY Zenon, <2>1, <2>2, <2>3, StartIsSound
  <2>5. Quiet(t) => Quiet(u)
    BY Zenon, <2>2 DEF Quiet, Settled, Idle, Pending
  <2>6. Settle => t.channel_ = 0 /\ t.state_ \in {"KDisconnected", "Kconnected"}
    BY Zenon, <1>0, <1>4, Fields DEF Quiet
  <2>7. Settle => Calm(r)
    BY Zenon, <2>2, <2>4, <2>5, <2>6 DEF Calm
  <2>8. QED
    BY Zenon, <2>2, <2>4, <2>7 DEF SameOwner, SameQueues
<1>5. QED
  BY Zenon, <1>2, <1>3, <1>4

(***************************************************************************)
(* What an event may rely on: with one call per iteration the functors     *)
(* have run, so the only Channel is that of an attempt.                    *)
(***************************************************************************)
ClientInv == OwnedInv /\ SafeInv /\ StopInv

LEMMA BeforeEvent ==
  ASSUME ClientInv, c.halt = "", Patient, c.batch = <<>>, c.events < env.burst
  PROVE  Quiet(c) /\ (c.channel_ # 0 => c.state_ = "Kconnecting")
<1>1. c.events = 0
  <2>1. c.events \in Nat
    BY Zenon, Fields DEF ClientInv, OwnedInv, Sound
  <2>2. c.events < 1
    BY Zenon DEF Patient
  <2>3. QED
    BY ONLY <2>1, <2>2
<1>2. Quiet(c) /\ c.q = <<>>
  BY Zenon, <1>1 DEF ClientInv, SafeInv
<1>3. ~Pending(c, "resetChannel")
  BY Zenon, <1>2, Empty DEF Pending
<1>4. QED
  BY Zenon, <1>2, <1>3 DEF ClientInv, OwnedInv, Sound, Running, ChannelKept

(* What a step establishes of the next state, from the record it makes. *)
LEMMA AfterStep ==
  ASSUME ClientInv, NEW r, Sound(r), Stops(r), Patient => Calm(r), c' = r, env' = env,
         Patient /\ r.halt = "" => (r.events = 0 => r.q = <<>>)
  PROVE  ClientInv'
<1>1. OwnedInv'
  BY Zenon DEF ClientInv, OwnedInv
<1>2. SafeInv'
  <2>1. Patient' <=> Patient
    BY Zenon DEF Patient, InLoop
  <2>2. Quiet(c)' <=> Quiet(r)
    BY Zenon DEF Quiet, Settled, Idle, Pending
  <2>3. QED
    BY Zenon, <2>1, <2>2 DEF SafeInv, CallsAreSafe, Calm
<1>3. StopInv'
  <2>1. Stopping(c)' <=> Stopping(r)
    BY Zenon DEF Stopping, Idle, Pending
  <2>2. QED
    BY Zenon, <2>1 DEF StopInv, Stops, InLoop, Pending
<1>4. QED
  BY Zenon, <1>1, <1>2, <1>3 DEF ClientInv

LEMMA EventStep ==
  ASSUME ClientInv, NEW r, Sound(r), Event(r), Stops(r), Patient => Calm(r)
  PROVE  ClientInv'
<1> DEFINE u == [r EXCEPT !.events = @ + 1]
<1>1. c' = u /\ env' = env
  BY Zenon DEF Event, Becomes
<1>2. r \in ClientRecord /\ r.events \in Nat
  BY Zenon, Fields DEF Sound
<1>3. /\ u \in ClientRecord /\ View(u, r) /\ u.events = r.events + 1
      /\ u.stopped = r.stopped /\ u.clientConnect_ = r.clientConnect_
  BY Zenon, <1>2, CountersAreFree
<1> HIDE DEF u
<1>4. u.events # 0
  BY ONLY <1>2, <1>3
<1>5. Sound(u) /\ Stops(u) /\ (Calm(u) <=> Calm(r))
  BY Zenon, <1>3, SameView
<1>6. QED
  BY Zenon, <1>1, <1>4, <1>5, AfterStep

LEMMA CallStep ==
  ASSUME ClientInv, NEW r, Sound(r), Call(r), Stops(r), Patient => Calm(r)
  PROVE  ClientInv'
<1> DEFINE u == [r EXCEPT !.calls = @ + 1]
<1>1. IF InLoop THEN Event(u) ELSE Becomes(u)
  BY Zenon DEF Call
<1>2. u \in ClientRecord /\ View(u, r) /\ u.stopped = r.stopped /\ u.clientConnect_ = r.clientConnect_
  BY Zenon, CountersAreFree DEF Sound
<1> HIDE DEF u
<1>3. Sound(u) /\ Stops(u) /\ (Calm(u) <=> Calm(r))
  BY Zenon, <1>2, SameView
<1>4. CASE InLoop
  BY Zenon, <1>1, <1>3, <1>4, EventStep
<1>5. CASE ~InLoop
  <2>1. c' = u /\ env' = env /\ ~Patient
    BY Zenon, <1>1, <1>5 DEF Becomes, Patient
  <2>2. QED
    BY Zenon, <1>3, <2>1, AfterStep
<1>6. QED
  BY Zenon, <1>4, <1>5

(* A functor leaves the batch.  Without the effect of resetChannel the     *)
(* Channel would stay, so that one is not a step of its own.               *)
LEMMA Dequeued ==
  ASSUME NEW t, Sound(t), t.halt = "", t.batch # <<>>
  PROVE  LET u == [t EXCEPT !.batch = Tail(t.batch)]
         IN  /\ u \in ClientRecord /\ u.state_ = t.state_ /\ u.channel_ = t.channel_
             /\ u.sockets = t.sockets /\ u.registered = t.registered /\ u.established = t.established
             /\ u.client = t.client /\ u.connector_ = t.connector_ /\ u.connection_ = t.connection_
             /\ u.conn = t.conn /\ u.q = t.q /\ u.batch = Tail(t.batch) /\ u.halt = ""
             /\ u.connect_ = t.connect_ /\ u.events = t.events
             /\ u.restarting = t.restarting /\ u.call = t.call /\ u.stopped = t.stopped
             /\ u.clientConnect_ = t.clientConnect_
             /\ Head(t.batch) \in Functors
             /\ Pending(t, Head(t.batch))
             /\ \A f : Pending(u, f) => Pending(t, f)
             /\ \A f : f # Head(t.batch) => (Has(Tail(t.batch), f) <=> Has(t.batch, f))
             /\ Head(t.batch) # "resetChannel" => Sound(u)
             /\ Quiet(t) => Quiet(u)
             /\ Stops(t) => /\ Head(t.batch) \notin {"startInLoop", "stopInLoop"} => Stops(u)
                            /\ InLoop => ~Pending(u, "startInLoop")
<1> DEFINE u == [t EXCEPT !.batch = Tail(t.batch)]
<1>0. t \in ClientRecord /\ t.batch \in Seq(Functors) /\ Owned(t) /\ Running(t)
  BY Zenon, Fields DEF Sound
<1>1. Tail(t.batch) \in Seq(Functors) /\ Head(t.batch) \in Functors
  BY Zenon, <1>0, AfterTail
<1>2. /\ u \in ClientRecord /\ u.state_ = t.state_ /\ u.channel_ = t.channel_
      /\ u.sockets = t.sockets /\ u.registered = t.registered /\ u.established = t.established
      /\ u.client = t.client /\ u.connector_ = t.connector_ /\ u.connection_ = t.connection_
      /\ u.conn = t.conn /\ u.q = t.q /\ u.batch = Tail(t.batch) /\ u.halt = ""
      /\ u.connect_ = t.connect_ /\ u.events = t.events
      /\ u.restarting = t.restarting /\ u.call = t.call /\ u.stopped = t.stopped
      /\ u.clientConnect_ = t.clientConnect_
  BY ZenonT(40), <1>0, <1>1 DEF ClientRecord
<1> HIDE DEF u
<1>3. \A f : f # Head(t.batch) => (Has(Tail(t.batch), f) <=> Has(t.batch, f))
  BY Zenon, <1>0, AfterTail
<1>4. Has(t.batch, Head(t.batch))
  BY Zenon, <1>0, AfterTail
<1>5. \A f : Pending(u, f) => Pending(t, f)
  BY Zenon, <1>2, <1>3, <1>4 DEF Pending
<1>6. ASSUME Head(t.batch) # "resetChannel"
      PROVE  Sound(u)
  <2>1. Owned(u) /\ u.connection_ \in {0, u.conn.fd}
    BY Zenon, <1>0, <1>2, OwnedFrame DEF Sound
  <2>2. Once(Tail(t.batch), "resetChannel")
    BY Zenon, <1>0, AfterTail DEF Running, ChannelKept
  <2>3. Running(u)
    BY Zenon, <1>0, <1>2, <1>3, <1>5, <1>6, <2>2 DEF Running, Idle, ChannelKept, Pending
  <2>4. QED
    BY Zenon, <1>2, <2>1, <2>3 DEF Sound
<1>7. Quiet(t) => Quiet(u)
  BY Zenon, <1>2, <1>5 DEF Quiet, Settled, Idle
<1>8. ASSUME Stops(t), Head(t.batch) \notin {"startInLoop", "stopInLoop"}
      PROVE  Stops(u)
  <2>1. StopLast(t.batch) => StopLast(Tail(t.batch))
    BY Zenon, <1>0, StopLastTail
  <2>2. Pending(t, "stopInLoop") => Pending(u, "stopInLoop")
    BY Zenon, <1>2, <1>3, <1>8 DEF Pending
  <2>3. Stopping(t) => Stopping(u)
    BY Zenon, <1>2, <2>1, <2>2 DEF Stopping, Idle
  <2>4. QED
    BY Zenon, <1>2, <1>5, <1>8, <2>3 DEF Stops
<1>9. Stops(t) /\ InLoop => ~Pending(u, "startInLoop")
  BY Zenon, <1>5 DEF Stops
<1>10. QED
  BY Zenon, <1>1, <1>2, <1>3, <1>4, <1>5, <1>6, <1>7, <1>8, <1>9 DEF u, Pending

LEMMA FunctorIsSound ==
  ASSUME NEW t, Sound(t), t.halt = "", t.batch # <<>>, NEW ret \in {"connecting", "retry", "error"},
         Head(t.batch) = "startInLoop" => FreeSockets(t) # {}, Idle(t), Stops(t)
  PROVE  LET r == Functor(Head(t.batch), [t EXCEPT !.batch = Tail(t.batch)], ret)
         IN  /\ Sound(r) /\ Stops(r)
             /\ Quiet(t) => Quiet(r) /\ r.halt \in {"", "throw"} /\ r.q = t.q /\ r.events = t.events
<1> DEFINE f == Head(t.batch)
           u == [t EXCEPT !.batch = Tail(t.batch)]
           r == Functor(f, u, ret)
           Goal == /\ Sound(r) /\ Stops(r)
                   /\ Quiet(t) => Quiet(r) /\ r.halt \in {"", "throw"} /\ r.q = t.q /\ r.events = t.events
<1> SUFFICES Goal
  BY Zenon
<1>0. t \in ClientRecord /\ Running(t) /\ Owned(t)
  BY Zenon DEF Sound
<1>1. /\ u \in ClientRecord /\ u.state_ = t.state_ /\ u.channel_ = t.channel_
      /\ u.sockets = t.sockets /\ u.registered = t.registered /\ u.established = t.established
      /\ u.client = t.client /\ u.connector_ = t.connector_ /\ u.connection_ = t.connection_
      /\ u.conn = t.conn /\ u.q = t.q /\ u.batch = Tail(t.batch) /\ u.halt = ""
      /\ u.connect_ = t.connect_ /\ u.events = t.events
      /\ u.restarting = t.restarting /\ u.call = t.call /\ u.stopped = t.stopped
      /\ u.clientConnect_ = t.clientConnect_
      /\ f \in Functors
      /\ Pending(t, f)
      /\ \A g : Pending(u, g) => Pending(t, g)
      /\ \A g : g # f => (Has(Tail(t.batch), g) <=> Has(t.batch, g))
      /\ f # "resetChannel" => Sound(u)
      /\ Quiet(t) => Quiet(u)
      /\ f \notin {"startInLoop", "stopInLoop"} => Stops(u)
      /\ InLoop => ~Pending(u, "startInLoop")
  BY Zenon, Dequeued
<1> HIDE DEF u
<1>2. CASE f \in Bare /\ u.connector_ = "freed"
  <2>1. r = [u EXCEPT !.halt = "dangling"]
    BY Zenon, <1>2 DEF Functor, Bare
  <2> HIDE DEF r
  <2>2. /\ r \in ClientRecord /\ r.halt = "dangling" /\ r.connection_ = t.connection_ /\ r.conn = t.conn
        /\ r.stopped = u.stopped /\ r.call = u.call /\ r.clientConnect_ = u.clientConnect_
        /\ r.q = u.q /\ r.batch = u.batch
    BY ZenonT(40), <1>1, <2>1 DEF ClientRecord
  <2>3. Sound(r) /\ Stops(r)
    <3>1. Sound(r)
      BY Zenon, <2>2, HaltedIsSound
    <3>2. Stops(r)
      BY Zenon, <1>1, <2>2 DEF Stops, Pending
    <3>3. QED
      BY Zenon, <3>1, <3>2
  <2>4. ~Quiet(t)
    <3>1. f = "resetChannel" => t.channel_ # 0
      BY Zenon, <1>0, <1>1 DEF Running, ChannelKept
    <3>2. QED
      BY Zenon, <1>1, <1>2, <3>1 DEF Quiet, Settled, Bare
  <2>5. QED
    BY Zenon, <2>2, <2>3, <2>4
<1>3. CASE f = "resetChannel" /\ u.connector_ # "freed"
  <2>1. r = [u EXCEPT !.channel_ = 0]
    BY Zenon, <1>3 DEF Functor, resetChannel, Bare
  <2> HIDE DEF r
  <2>2. 0 \in 0..MaxSockets
    BY ONLY TcpClientAssumption
  <2>3. /\ r \in ClientRecord /\ r.state_ = t.state_ /\ r.channel_ = 0
        /\ r.sockets = t.sockets /\ r.registered = t.registered /\ r.established = t.established
        /\ r.client = t.client /\ r.connector_ = t.connector_ /\ r.connection_ = t.connection_
        /\ r.conn = t.conn /\ r.q = t.q /\ r.batch = Tail(t.batch) /\ r.halt = ""
        /\ r.connect_ = t.connect_ /\ r.events = t.events
        /\ r.restarting = t.restarting /\ r.call = t.call /\ r.stopped = t.stopped
        /\ r.clientConnect_ = t.clientConnect_
    BY ZenonT(40), <1>1, <2>1, <2>2 DEF ClientRecord
  <2>4. t.state_ # "Kconnecting"
    BY Zenon, <1>0, <1>1, <1>3 DEF Running, ChannelKept
  <2>5. Owned(r) /\ r.connection_ \in {0, r.conn.fd}
    <3>1. t.connection_ \in {0, t.conn.fd}
      BY Zenon DEF Sound
    <3>2. Owned(r)
      <4>1. Attempt(t) = {} /\ Attempt(r) = {}
        BY Zenon, <2>3, <2>4 DEF Attempt
      <4>2. /\ r.sockets = t.sockets /\ r.registered = t.registered /\ r.established = t.established
            /\ r.conn = t.conn
        BY Zenon, <2>3
      <4>3. QED
        BY ONLY SMT, <1>0, <4>1, <4>2 DEF Owned
    <3>3. QED
      BY Zenon, <2>3, <3>1, <3>2
  <2>6. ~Has(Tail(t.batch), "resetChannel") /\ ~Has(t.q, "resetChannel") /\ Once(Tail(t.batch), "resetChannel")
    <3>1. t.batch \in Seq(Functors) /\ Has(t.batch, "resetChannel") /\ Once(t.batch, "resetChannel")
      <4>1. t.batch \in Seq(Functors) /\ Once(t.batch, "resetChannel")
        BY Zenon, <1>0, Fields DEF Running, ChannelKept
      <4>2. QED
        BY Zenon, <1>3, <4>1, AfterTail
    <3>2. ~Has(t.q, "resetChannel")
      BY Zenon, <1>0, <3>1 DEF Running, ChannelKept
    <3>3. QED
      BY Zenon, <1>3, <3>1, <3>2, AfterTail
  <2>7. Running(r)
    <3>1. \A g \in {"forceClose", "setCloseCallback"} : Pending(r, g) => Pending(t, g)
      BY Zenon, <1>1, <2>3 DEF Pending
    <3>2. ~Pending(r, "resetChannel")
      BY Zenon, <2>3, <2>6 DEF Pending
    <3>3. ChannelKept(r)
      BY Zenon, <1>0, <2>3, <2>4, <2>6, <3>2 DEF Running, ChannelKept
    <3>4. QED
      BY Zenon, <1>0, <2>3, <3>1, <3>3 DEF Running, Idle
  <2>8. Quiet(t) => Quiet(r)
    BY Zenon, <1>1, <2>3 DEF Quiet, Settled, Idle, Pending
  <2>9. Stops(r)
    BY Zenon, <1>1, <1>3, <2>3 DEF Stops, Stopping, Idle, Pending
  <2>10. QED
    BY Zenon, <2>3, <2>5, <2>7, <2>8, <2>9 DEF Sound
<1>4. CASE f = "startInLoop" /\ u.connector_ # "freed"
  <2>1. r = startInLoop(u, ret)
    BY Zenon, <1>4 DEF Functor, Bare
  <2>2. FreeSockets(u) # {}
    BY Zenon, <1>1, <1>4 DEF FreeSockets
  <2>3. ~Quiet(t)
    BY Zenon, <1>1, <1>4 DEF Quiet, Settled
  <2>4. /\ Sound(r) /\ SameOwner(r, u) /\ SameQueues(r, u) /\ r.call = u.call
        /\ r.established = u.established
    BY Zenon, <1>1, <1>4, <2>1, <2>2, StartIsSound
  <2> HIDE DEF r
  <2>5. ASSUME t.stopped, t.call = "" PROVE Stopping(r)
    <3>1. Stopping(t) /\ t.batch \in Seq(Functors)
      BY Zenon, <1>0, <2>5, Fields DEF Stops
    <3>2. StopLast(t.batch) => StopLast(Tail(t.batch)) /\ Has(Tail(t.batch), "stopInLoop")
      BY Zenon, <1>4, <3>1, StopLastTail
    <3>3. r.q = t.q /\ r.batch = Tail(t.batch)
      BY Zenon, <1>1, <2>4 DEF SameQueues
    <3>4. QED
      BY Zenon, <3>1, <3>2, <3>3 DEF Stopping, Pending
  <2>6. Stops(r)
    BY Zenon, <1>1, <2>4, <2>5 DEF Stops, SameOwner, SameQueues, Pending
  <2>7. QED
    BY Zenon, <2>3, <2>4, <2>6
<1>5. CASE f = "stopInLoop" /\ u.connector_ # "freed"
  <2>1. r = stopInLoop(u)
    BY Zenon, <1>5 DEF Functor, Bare
  <2>2. ~Quiet(t)
    BY Zenon, <1>1, <1>5 DEF Quiet, Settled
  <2>3. /\ Sound(r) /\ SameOwner(r, u) /\ r.state_ # "Kconnecting" /\ r.call = u.call
        /\ r.established = u.established /\ r.batch = u.batch
        /\ r.q \in {u.q, Append(u.q, "resetChannel")}
    BY Zenon, <1>1, <1>5, <2>1, StopInLoopIsSound
  <2> HIDE DEF r
  <2>4. QueueKept(r, u)
    BY Zenon, <1>1, <2>3, AppendKeeps, FunctorNames
  <2>5. ASSUME t.stopped, t.call = "" PROVE Stopping(r)
    <3>1. Stopping(t) /\ t.batch \in Seq(Functors)
      BY Zenon, <1>0, <2>5, Fields DEF Stops
    <3>2. StopLast(t.batch) => StopLast(Tail(t.batch))
      BY Zenon, <3>1, StopLastTail
    <3>3. Idle(r) /\ r.batch = Tail(t.batch)
      BY Zenon, <1>1, <2>3 DEF Idle, SameOwner
    <3>4. QED
      BY Zenon, <1>1, <2>3, <2>4, <3>1, <3>2, <3>3 DEF Stopping, QueueKept
  <2>6. Stops(r)
    <3>1. InLoop => ~Pending(r, "startInLoop")
      BY Zenon, <1>1, <2>4 DEF QueueKept, Pending
    <3>2. QED
      BY Zenon, <1>1, <2>3, <2>5, <3>1 DEF Stops, SameOwner
  <2>7. QED
    BY Zenon, <2>2, <2>3, <2>6
<1>6. CASE f = "setCloseCallback"
  <2>1. r = [u EXCEPT !.conn.closeCallback = "none"]
    BY Zenon, <1>6 DEF Functor, Bare
  <2>2. u.client = "destroyed"
    BY Zenon, <1>0, <1>1, <1>6, Fields DEF Running
  <2> HIDE DEF r
  <2>3. /\ r \in ClientRecord /\ r.conn.fd = u.conn.fd /\ r.conn.closeCallback = "none"
        /\ r.state_ = u.state_ /\ r.channel_ = u.channel_ /\ r.sockets = u.sockets
        /\ r.registered = u.registered /\ r.established = u.established /\ r.client = u.client
        /\ r.connector_ = u.connector_ /\ r.connection_ = u.connection_ /\ r.q = u.q
        /\ r.batch = u.batch /\ r.halt = u.halt /\ r.connect_ = u.connect_ /\ r.events = u.events
        /\ r.restarting = u.restarting /\ r.call = u.call /\ r.stopped = u.stopped
        /\ r.clientConnect_ = u.clientConnect_
    BY ZenonT(60), <1>1, <2>1 DEF ClientRecord
  <2>4. Sound(r)
    BY Zenon, <1>1, <1>6, <2>2, <2>3, SoundFrame
  <2>5. Quiet(u) => Quiet(r)
    BY Zenon, <2>3 DEF Quiet, Settled, Idle, Pending
  <2>6. Stops(r)
    BY Zenon, <1>1, <1>6, <2>3 DEF Stops, Stopping, Idle, Pending
  <2>7. QED
    BY Zenon, <1>1, <2>3, <2>4, <2>5, <2>6
<1>7. CASE f = "forceClose"
  <2>1. r = IF u.conn.fd # 0 THEN handleClose(u) ELSE u
    BY Zenon, <1>7 DEF Functor, Bare
  <2>2. u.client = "destroyed"
    BY Zenon, <1>0, <1>1, <1>7, Fields DEF Running
  <2>3. CASE u.conn.fd # 0
    <3>1. r = handleClose(u)
      BY Zenon, <2>1, <2>3
    <3> HIDE DEF r
    <3>2. /\ Sound(r) /\ Dropped(r, u) /\ (r.halt = "" => r.state_ # "Kconnecting") /\ Idle(r)
          /\ Quiet(u) => Quiet(r) /\ r.halt = ""
      BY Zenon, <1>1, <1>7, <2>2, <2>3, <3>1, CloseIsSound
    <3>3. Calmer(r, u)
      BY Zenon, <3>2 DEF Calmer, QueueKept, Dropped, SameQueues
    <3>4. Stops(r)
      BY Zenon, <1>1, <1>7, <3>3, CalmerStops
    <3>5. QED
      BY Zenon, <1>1, <3>2, <3>4 DEF Dropped, SameQueues
  <2>4. CASE u.conn.fd = 0
    <3>1. r = u
      BY Zenon, <2>1, <2>4
    <3> HIDE DEF r
    <3>2. QED
      BY Zenon, <1>1, <1>7, <3>1
  <2>5. QED
    BY Zenon, <2>3, <2>4
<1>8. QED
  BY Zenon, <1>1, <1>2, <1>3, <1>4, <1>5, <1>6, <1>7 DEF Functors, Bare

-----------------------------------------------------------------------------
(* The invariants.                                                         *)

LEMMA InitIsSound == Init => ClientInv
<1> SUFFICES ASSUME Init PROVE ClientInv
  OBVIOUS
<1>1. env \in Environments /\ env.retry \in BOOLEAN
  BY Zenon, TcpClientAssumption DEF Init
<1>2. 0 \in 0..MaxSockets
  BY ONLY TcpClientAssumption
<1>3. /\ c \in ClientRecord /\ c.state_ = "KDisconnected" /\ c.channel_ = 0 /\ c.established = 0
      /\ c.sockets = [i \in 1..MaxSockets |-> "unused"] /\ c.registered = {} /\ c.client = "alive"
      /\ c.connector_ = "owned" /\ c.connection_ = 0 /\ c.conn.fd = 0 /\ c.q = <<>> /\ c.batch = <<>>
      /\ c.halt = "" /\ c.restarting = FALSE /\ c.call = "" /\ c.stopped = FALSE
  <2>1. [i \in 1..MaxSockets |-> "unused"] \in [1..MaxSockets -> {"unused", "open", "closed"}]
    OBVIOUS
  <2>2. <<>> \in Seq(Functors)
    OBVIOUS
  <2>3. {} \in SUBSET (1..MaxSockets)
    OBVIOUS
  <2> DEFINE ss == [i \in 1..MaxSockets |-> "unused"]
  <2>4. c = [connect_ |-> FALSE, state_ |-> "KDisconnected", channel_ |-> 0,
             sockets |-> ss, registered |-> {}, established |-> 0,
             client |-> "alive", connector_ |-> "owned", clientConnect_ |-> FALSE,
             retry_ |-> env.retry, connection_ |-> 0,
             conn |-> [fd |-> 0, state |-> "KDisconnected", closeCallback |-> "none"],
             q |-> <<>>, batch |-> <<>>, events |-> 0, calls |-> 0, halt |-> "",
             restarting |-> FALSE, call |-> "", stopped |-> FALSE]
    BY Zenon DEF Init
  <2> HIDE DEF ss
  <2>5. c \in ClientRecord
    BY ONLY Zenon, <1>1, <1>2, <2>1, <2>2, <2>3, <2>4 DEF ClientRecord, ss
  <2>6. QED
    BY ONLY Zenon, <2>4, <2>5 DEF ss
<1>4. Owned(c)
  BY Zenon, <1>3 DEF Owned, Attempt
<1>5. \A f : ~Pending(c, f)
  BY Zenon, <1>3, Empty DEF Pending
<1>6. Running(c)
  BY Zenon, <1>3, <1>5, Empty DEF Running, Idle, ChannelKept
<1>7. Quiet(c)
  BY Zenon, <1>3, <1>5 DEF Quiet, Settled, Idle
<1>8. StopInv
  BY Zenon, <1>3, <1>5 DEF StopInv
<1>9. QED
  BY Zenon, <1>1, <1>3, <1>4, <1>6, <1>7, <1>8 DEF ClientInv, OwnedInv, Sound, SafeInv, CallsAreSafe

LEMMA Returns == Rets \subseteq {"connecting", "retry", "error"} /\ Outcomes \subseteq BOOLEAN
BY Zenon DEF Rets, Outcomes

LEMMA StopsNow == StopInv <=> Stops(c)
BY Zenon DEF StopInv, Stops

(* The guards of a call and of an event. *)
LEMMA CallGuard ==
  ASSUME NEW r, Call(r)
  PROVE  /\ c.halt = "" /\ c.client = "alive" /\ c.call = ""
         /\ InLoop => Idle(c) /\ c.batch = <<>> /\ c.events < env.burst
BY Zenon DEF Call, Event, Becomes

LEMMA EventGuard ==
  ASSUME NEW r, Event(r)
  PROVE  c.halt = "" /\ Idle(c) /\ c.batch = <<>> /\ c.events < env.burst
BY Zenon DEF Event, Becomes

LEMMA ConnectKeeps ==
  ASSUME ClientInv, Connect
  PROVE  ClientInv'
<1> DEFINE t == [c EXCEPT !.clientConnect_ = TRUE, !.stopped = FALSE]
<1>1. PICK ret \in Rets : Call(start(t, InLoop, ret))
  BY DEF Connect
<1> DEFINE r == start(t, InLoop, ret)
<1>2. /\ c.halt = "" /\ c.client = "alive" /\ c.call = ""
      /\ InLoop => c.batch = <<>> /\ c.events < env.burst
  BY Zenon, <1>1, CallGuard
<1>3. c \in ClientRecord /\ Sound(c) /\ InLoop \in BOOLEAN /\ ret \in {"connecting", "retry", "error"}
  BY Zenon, Returns DEF ClientInv, OwnedInv, Sound, InLoop
<1>4. t \in ClientRecord /\ View(t, c) /\ t.stopped = FALSE
  BY Zenon, <1>3, CountersAreFree
<1> HIDE DEF t
<1>5. Sound(t) /\ (Quiet(t) <=> Quiet(c)) /\ FreeSockets(t) # {} /\ t.halt = ""
  BY Zenon, <1>2, <1>3, <1>4, SameView DEF Connect, View
<1>6. /\ Sound(r) /\ r.stopped = t.stopped
      /\ InLoop => r.call = t.call /\ r.q = t.q /\ r.batch = t.batch
      /\ InLoop /\ Quiet(t) /\ t.client = "alive" /\ (t.channel_ # 0 => t.state_ = "Kconnecting") => Calm(r)
  BY Zenon, <1>3, <1>5, StartCallIsSound
<1> HIDE DEF r
<1>7. Stops(r)
  <2>1. InLoop => ~Pending(c, "startInLoop")
    BY Zenon, StopsNow DEF ClientInv, Stops
  <2>2. QED
    BY Zenon, <1>2, <1>4, <1>6, <2>1 DEF Stops, Pending, View
<1>8. Patient => Calm(r)
  BY Zenon, <1>2, <1>4, <1>5, <1>6, BeforeEvent DEF View, Patient
<1>9. QED
  BY Zenon, <1>1, <1>6, <1>7, <1>8, CallStep DEF r

LEMMA DisconnectKeeps ==
  ASSUME ClientInv, Disconnect
  PROVE  ClientInv'
<1> DEFINE st == IF c.connection_ # 0 /\ c.conn.state = "KConnected" THEN "KDisconnecting" ELSE c.conn.state
           r == [c EXCEPT !.clientConnect_ = FALSE, !.conn.state = st]
<1>1. Call(r)
  BY DEF Disconnect
<1>2. c.halt = "" /\ (InLoop => c.batch = <<>> /\ c.events < env.burst)
  BY Zenon, <1>1, CallGuard
<1>3. c \in ClientRecord /\ Sound(c)
  BY Zenon DEF ClientInv, OwnedInv, Sound
<1>4. st \in {"KDisconnected", "KConnected", "KDisconnecting"}
  BY Zenon, <1>3 DEF ClientRecord
<1> HIDE DEF st
<1>5. r \in ClientRecord /\ View(r, c) /\ r.stopped = c.stopped /\ r.clientConnect_ = FALSE
  BY ZenonT(60), <1>3, <1>4 DEF ClientRecord, View
<1> HIDE DEF r
<1>6. Sound(r) /\ (Quiet(r) <=> Quiet(c)) /\ (Idle(r) <=> Idle(c))
  BY Zenon, <1>3, <1>5, SameView
<1>7. Patient => Calm(r)
  BY Zenon, <1>2, <1>5, <1>6, BeforeEvent DEF View, Patient, Calm
<1>8. Stops(r)
  <2>1. Calmer(r, c)
    BY Zenon, <1>5, <1>6 DEF Calmer, QueueKept, View
  <2>2. QED
    BY Zenon, <1>2, <2>1, StopsNow, CalmerStops DEF ClientInv
<1>9. QED
  BY Zenon, <1>1, <1>6, <1>7, <1>8, CallStep

LEMMA StopKeeps ==
  ASSUME ClientInv, Stop
  PROVE  ClientInv'
<1> DEFINE t == [c EXCEPT !.clientConnect_ = FALSE, !.stopped = TRUE]
           r == stop(t, InLoop)
<1>1. Call(r)
  BY DEF Stop
<1>2. /\ c.halt = "" /\ c.call = ""
      /\ InLoop => Idle(c) /\ c.batch = <<>> /\ c.events < env.burst
  BY Zenon, <1>1, CallGuard
<1>3. c \in ClientRecord /\ Sound(c) /\ InLoop \in BOOLEAN
  BY Zenon DEF ClientInv, OwnedInv, Sound, InLoop
<1>4. t \in ClientRecord /\ View(t, c) /\ t.stopped = TRUE /\ t.clientConnect_ = FALSE
  BY Zenon, <1>3, CountersAreFree
<1> HIDE DEF t
<1>5. Sound(t) /\ (Quiet(t) <=> Quiet(c)) /\ (Idle(t) <=> Idle(c)) /\ t.halt = ""
  BY Zenon, <1>2, <1>3, <1>4, SameView DEF View
<1>6. /\ Sound(r) /\ SameOwner(r, t) /\ r.halt = "" /\ r.batch = t.batch /\ r.established = t.established
      /\ r.q \in {t.q, Append(t.q, "resetChannel")}
      /\ InLoop => r.state_ # "Kconnecting" /\ r.call = t.call
      /\ ~InLoop => r.call = "stopInLoop"
      /\ InLoop /\ Settled(t) /\ Idle(t) => Quiet(r)
  BY Zenon, <1>3, <1>5, StopIsSound
<1> HIDE DEF r
<1>7. Patient => Calm(r)
  BY Zenon, <1>2, <1>5, <1>6, BeforeEvent DEF Patient, Quiet, Calm
<1>8. Stops(r)
  <2>1. CASE ~InLoop
    BY Zenon, <1>4, <1>6, <2>1 DEF Stops, SameOwner
  <2>2. CASE InLoop
    <3>1. ~Pending(c, "startInLoop")
      BY Zenon, <2>2, StopsNow DEF ClientInv, Stops
    <3>2. QueueKept(r, t)
      BY Zenon, <1>4, <1>6, AppendKeeps, FunctorNames
    <3>3. ~Has(r.q, "startInLoop") /\ ~Has(r.batch, "startInLoop")
      BY Zenon, <1>4, <3>1, <3>2 DEF QueueKept, View, Pending
    <3>4. StopLast(r.q) /\ StopLast(r.batch)
      BY Zenon, <3>3 DEF StopLast, Has
    <3>5. Idle(r) /\ r.call = "" /\ r.clientConnect_ = FALSE
      BY Zenon, <1>2, <1>4, <1>5, <1>6, <2>2 DEF Idle, SameOwner, View
    <3>6. QED
      BY Zenon, <1>6, <2>2, <3>3, <3>4, <3>5 DEF Stops, Stopping, Pending
  <2>3. QED
    BY Zenon, <2>1, <2>2
<1>9. QED
  BY Zenon, <1>1, <1>6, <1>7, <1>8, CallStep

LEMMA DestroyKeeps ==
  ASSUME ClientInv, Destroy
  PROVE  ClientInv'
<1>1. PICK unique \in BOOLEAN : Call(destroy(c, InLoop, unique))
  BY DEF Destroy
<1> DEFINE r == destroy(c, InLoop, unique)
<1>2. /\ c.halt = "" /\ c.client = "alive" /\ c.call = ""
      /\ InLoop => Idle(c) /\ c.batch = <<>> /\ c.events < env.burst
  BY Zenon, <1>1, CallGuard
<1>3. Sound(c) /\ InLoop \in BOOLEAN
  BY Zenon DEF ClientInv, OwnedInv, InLoop
<1>4. /\ Sound(r) /\ QueueKept(r, c) /\ r.stopped = c.stopped
      /\ r.clientConnect_ = c.clientConnect_ /\ r.call \in {"", "stopInLoop"}
      /\ InLoop => r.call = ""
      /\ r.halt = "" /\ r.call = "" =>
           (r.state_ = "Kconnecting" \/ ~Idle(r) => c.state_ = "Kconnecting" \/ ~Idle(c))
      /\ InLoop /\ Quiet(c) /\ Idle(c) /\ (c.channel_ # 0 => c.state_ = "Kconnecting") =>
           Quiet(r) /\ r.halt = ""
  BY Zenon, <1>2, <1>3, DestroyIsSound
<1> HIDE DEF r
<1>5. Patient => Calm(r)
  BY Zenon, <1>2, <1>4, BeforeEvent DEF Patient, Calm
<1>6. Stops(r)
  <2>1. Stops(c)
    BY Zenon, StopsNow DEF ClientInv
  <2>2. CASE r.call = ""
    <3>1. Calmer(r, c)
      BY Zenon, <1>2, <1>4, <2>2 DEF Calmer
    <3>2. QED
      BY Zenon, <1>2, <2>1, <3>1, CalmerStops
  <2>3. CASE r.call # ""
    BY Zenon, <1>4, <2>1, <2>3 DEF Stops
  <2>4. QED
    BY Zenon, <2>2, <2>3
<1>7. QED
  BY Zenon, <1>1, <1>4, <1>5, <1>6, CallStep DEF r

LEMMA ThreadKeeps ==
  ASSUME ClientInv, ThreadStep
  PROVE  ClientInv'
<1> DEFINE r == offLoop(c)
<1>1. c' = r /\ env' = env /\ c.halt = "" /\ c.call # ""
  BY Zenon DEF ThreadStep, Becomes
<1>2. c \in ClientRecord /\ Sound(c) /\ Stops(c)
  BY Zenon, StopsNow DEF ClientInv, OwnedInv, Sound
<1>3. ~InLoop /\ ~Patient
  BY Zenon, <1>1, <1>2 DEF Stops, Patient
<1>4. CASE c.call \in {"start", "set"}
  <2>1. /\ r \in ClientRecord /\ r.state_ = c.state_ /\ r.channel_ = c.channel_ /\ r.sockets = c.sockets
        /\ r.registered = c.registered /\ r.established = c.established /\ r.client = c.client
        /\ r.restarting = c.restarting /\ r.connection_ = c.connection_ /\ r.conn = c.conn
        /\ r.q = c.q /\ r.batch = c.batch /\ r.halt = c.halt /\ r.stopped = c.stopped
    <3>1. CASE c.call = "start"
      <4> DEFINE k == IF c.connect_ THEN "" ELSE "set"
      <4>1. r = [c EXCEPT !.call = k] /\ k \in {"", "start", "set", "startInLoop", "stopInLoop"}
        BY Zenon, <3>1 DEF offLoop
      <4> HIDE DEF k, r
      <4>2. QED
        BY ZenonT(40), <1>2, <4>1 DEF ClientRecord
    <3>2. CASE c.call = "set"
      <4>1. r = [c EXCEPT !.connect_ = TRUE, !.call = "startInLoop"]
        BY Zenon, <3>2 DEF offLoop
      <4> HIDE DEF r
      <4>2. QED
        BY ZenonT(40), <1>2, <4>1 DEF ClientRecord
    <3>3. QED
      BY Zenon, <1>4, <3>1, <3>2
  <2> HIDE DEF r
  <2>2. Sound(r)
    BY Zenon, <1>2, <2>1, SoundFrame
  <2>3. ~r.stopped
    BY Zenon, <1>2, <1>4, <2>1 DEF Stops
  <2>4. Stops(r)
    BY Zenon, <1>3, <2>3 DEF Stops
  <2>5. QED
    BY Zenon, <1>1, <1>3, <2>2, <2>4, AfterStep
<1>5. CASE c.call \in {"startInLoop", "stopInLoop"}
  <2> DEFINE u == [c EXCEPT !.call = ""]
  <2>1. r = queueInLoop(u, c.call)
    BY Zenon, <1>5 DEF offLoop
  <2>2. /\ u \in ClientRecord /\ u.state_ = c.state_ /\ u.channel_ = c.channel_ /\ u.sockets = c.sockets
        /\ u.registered = c.registered /\ u.established = c.established /\ u.client = c.client
        /\ u.restarting = c.restarting /\ u.connection_ = c.connection_ /\ u.conn = c.conn
        /\ u.q = c.q /\ u.batch = c.batch /\ u.halt = c.halt /\ u.stopped = c.stopped /\ u.call = ""
        /\ u.clientConnect_ = c.clientConnect_
    BY ZenonT(40), <1>2 DEF ClientRecord
  <2> HIDE DEF u, r
  <2>3. Sound(u)
    BY Zenon, <1>2, <2>2, SoundFrame
  <2>4. /\ Sound(r) /\ r.q = Append(c.q, c.call) /\ r.call = "" /\ r.stopped = c.stopped
        /\ r.clientConnect_ = c.clientConnect_
    <3>1. /\ c.call \in Functors /\ c.call # "resetChannel"
          /\ c.call \in {"forceClose", "setCloseCallback"} => u.client = "destroyed"
      BY Zenon, <1>5, FunctorNames
    <3>2. u.halt = ""
      BY Zenon, <1>1, <2>2
    <3>3. u.stopped = c.stopped /\ u.clientConnect_ = c.clientConnect_ /\ u.call = "" /\ u.q = c.q
      BY Zenon, <2>2
    <3>4. /\ Sound(queueInLoop(u, c.call)) /\ queueInLoop(u, c.call).q = Append(u.q, c.call)
          /\ queueInLoop(u, c.call).call = u.call /\ queueInLoop(u, c.call).stopped = u.stopped
          /\ queueInLoop(u, c.call).clientConnect_ = u.clientConnect_
      BY ONLY Zenon, <2>3, <3>1, <3>2, QueueIsSound
    <3>5. QED
      BY ONLY Zenon, <2>1, <3>3, <3>4
  <2>5. ASSUME c.stopped PROVE Stopping(r)
    <3>1. c.call = "stopInLoop" /\ c.q \in Seq(Functors)
      BY Zenon, <1>2, <1>5, <2>5, Fields DEF Stops
    <3>2. StopLast(Append(c.q, "stopInLoop")) /\ Has(Append(c.q, "stopInLoop"), "stopInLoop")
      BY Zenon, <3>1, StopLastAppend, AfterAppend, FunctorNames
    <3>3. QED
      BY Zenon, <2>4, <3>1, <3>2 DEF Stopping, Pending
  <2>6. Stops(r)
    BY Zenon, <1>2, <1>3, <2>4, <2>5 DEF Stops
  <2>7. QED
    BY Zenon, <1>1, <1>3, <2>4, <2>6, AfterStep
<1>6. QED
  BY Zenon, <1>1, <1>2, <1>4, <1>5, Fields

LEMMA WritableKeeps ==
  ASSUME ClientInv, ConnectorWritable
  PROVE  ClientInv'
<1>1. PICK good \in Outcomes : Event(handleWrite(c, good))
  BY DEF ConnectorWritable
<1> DEFINE r == handleWrite(c, good)
<1>2. c.halt = "" /\ c.batch = <<>> /\ c.events < env.burst
  BY Zenon, <1>1, EventGuard
<1>3. c \in ClientRecord /\ Sound(c) /\ Stops(c) /\ good \in BOOLEAN
  BY Zenon, Returns, StopsNow DEF ClientInv, OwnedInv, Sound
<1>4. c.state_ = "Kconnecting"
  BY Zenon, <1>2, <1>3 DEF Sound, Owned, Attempt, ConnectorWritable
<1>5. /\ Sound(r) /\ SameOwner(r, c) /\ r.call = c.call /\ r.q = Append(c.q, "resetChannel")
      /\ r.batch = c.batch /\ (Quiet(c) => Quiet(r) /\ r.halt \in {"", "throw"})
  BY Zenon, <1>2, <1>3, <1>4, WritableIsSound
<1> HIDE DEF r
<1>6. Patient => Calm(r)
  BY Zenon, <1>2, <1>5, BeforeEvent DEF Calm
<1>7. QueueKept(r, c)
  BY Zenon, <1>3, <1>5, AppendKeeps, FunctorNames
<1>8. Stops(r)
  BY Zenon, <1>2, <1>3, <1>4, <1>5, <1>7, CalmerStops DEF Calmer, SameOwner
<1>9. QED
  BY Zenon, <1>1, <1>5, <1>6, <1>8, EventStep DEF r

LEMMA ErrorKeeps ==
  ASSUME ClientInv, ConnectorError
  PROVE  ClientInv'
<1> DEFINE r == IF handleError(c).halt = "" THEN handleWrite(handleError(c), FALSE) ELSE handleError(c)
<1>1. Event(r)
  BY Zenon DEF ConnectorError
<1>2. c.halt = "" /\ c.batch = <<>> /\ c.events < env.burst
  BY Zenon, <1>1, EventGuard
<1>3. c \in ClientRecord /\ Sound(c) /\ Stops(c)
  BY Zenon, StopsNow DEF ClientInv, OwnedInv, Sound
<1>4. c.state_ = "Kconnecting"
  BY Zenon, <1>2, <1>3 DEF Sound, Owned, Attempt, ConnectorError
<1>5. /\ Sound(r) /\ SameOwner(r, c) /\ r.call = c.call /\ r.q = Append(c.q, "resetChannel")
      /\ r.batch = c.batch /\ (Quiet(c) => Quiet(r) /\ r.halt \in {"", "throw"})
  BY Zenon, <1>2, <1>3, <1>4, ErrorIsSound
<1> HIDE DEF r
<1>6. Patient => Calm(r)
  BY Zenon, <1>2, <1>5, BeforeEvent DEF Calm
<1>7. QueueKept(r, c)
  BY Zenon, <1>3, <1>5, AppendKeeps, FunctorNames
<1>8. Stops(r)
  BY Zenon, <1>2, <1>3, <1>4, <1>5, <1>7, CalmerStops DEF Calmer, SameOwner
<1>9. QED
  BY Zenon, <1>1, <1>5, <1>6, <1>8, EventStep

LEMMA PeerClosesKeeps ==
  ASSUME ClientInv, PeerCloses
  PROVE  ClientInv'
<1> DEFINE r == handleClose(c)
<1>1. Event(r)
  BY DEF PeerCloses
<1>2. c.halt = "" /\ c.batch = <<>> /\ c.events < env.burst
  BY Zenon, <1>1, EventGuard
<1>3. Sound(c) /\ Stops(c)
  BY Zenon, StopsNow DEF ClientInv, OwnedInv
<1>4. c.conn.fd # 0 /\ c.state_ = "Kconnected"
  BY Zenon, <1>2, <1>3 DEF PeerCloses, Sound, Running
<1>5. /\ Sound(r) /\ Dropped(r, c)
      /\ r.halt = "" => r.state_ # "Kconnecting" /\ (c.clientConnect_ \/ Idle(r))
      /\ Quiet(c) /\ (c.channel_ = 0 \/ c.client = "destroyed") => Quiet(r) /\ r.halt = ""
  BY Zenon, <1>2, <1>3, <1>4, CloseIsSound
<1> HIDE DEF r
<1>6. Patient => Calm(r)
  BY Zenon, <1>2, <1>4, <1>5, BeforeEvent DEF Calm
<1>7. Calmer(r, c)
  BY Zenon, <1>3, <1>5 DEF Calmer, QueueKept, Dropped, SameQueues, Stops
<1>8. Stops(r)
  BY Zenon, <1>2, <1>3, <1>7, CalmerStops
<1>9. QED
  BY Zenon, <1>1, <1>5, <1>6, <1>8, EventStep

(* A step inside a handler: the counters are those before. *)
LEMMA HandlerStep ==
  ASSUME ClientInv, NEW r, Sound(r), SameQueues(r, c), r.call = c.call, r.stopped = c.stopped,
         r.clientConnect_ = c.clientConnect_, ~Idle(c), c.halt = "", c' = r, env' = env,
         Patient => Calm(r)
  PROVE  ClientInv'
<1>1. Stops(c)
  BY Zenon, StopsNow DEF ClientInv
<1>2. Calmer(r, c)
  BY Zenon DEF Calmer, QueueKept, SameQueues
<1>3. Stops(r)
  BY Zenon, <1>1, <1>2, CalmerStops
<1>4. Patient => (r.events = 0 => r.q = <<>>)
  BY Zenon DEF ClientInv, SafeInv, SameQueues
<1>5. QED
  BY Zenon, <1>3, <1>4, AfterStep

LEMMA NewConnectionKeeps ==
  ASSUME ClientInv, NewConnection
  PROVE  ClientInv'
<1> DEFINE r == newConnection(c)
<1>1. c' = r /\ env' = env /\ c.halt = "" /\ c.established # 0
  BY Zenon DEF NewConnection, Becomes
<1>2. Sound(c)
  BY Zenon DEF ClientInv, OwnedInv
<1>3. /\ Sound(r) /\ SameQueues(r, c) /\ r.call = c.call /\ r.stopped = c.stopped
      /\ r.clientConnect_ = c.clientConnect_ /\ (Quiet(c) => Quiet(r) /\ r.halt = "")
  BY Zenon, <1>1, <1>2, NewConnectionIsSound
<1> HIDE DEF r
<1>4. Patient => Calm(r)
  BY Zenon, <1>1, <1>3 DEF ClientInv, SafeInv, Calm
<1>5. ~Idle(c)
  BY Zenon, <1>1 DEF Idle
<1>6. QED
  BY Zenon, <1>1, <1>3, <1>4, <1>5, HandlerStep

LEMMA RestartKeeps ==
  ASSUME ClientInv, Restart
  PROVE  ClientInv'
<1>1. PICK ret \in Rets : Becomes(IF c.client = "destroyed" THEN [c EXCEPT !.halt = "dangling"]
                                  ELSE restart([c EXCEPT !.restarting = FALSE], ret))
  BY DEF Restart
<1>2. c.halt = "" /\ c.restarting /\ FreeSockets(c) # {} /\ env' = env /\ ~Idle(c)
  BY Zenon, <1>1 DEF Restart, Becomes, Idle
<1>3. c \in ClientRecord /\ Sound(c) /\ ret \in {"connecting", "retry", "error"}
  BY Zenon, Returns DEF ClientInv, OwnedInv, Sound
<1>4. Patient => Quiet(c)
  BY Zenon, <1>2 DEF ClientInv, SafeInv
<1>5. CASE c.client = "destroyed"
  <2> DEFINE r == [c EXCEPT !.halt = "dangling"]
  <2>1. c' = r
    BY Zenon, <1>1, <1>5 DEF Becomes
  <2>2. /\ r \in ClientRecord /\ r.halt = "dangling" /\ r.connection_ = c.connection_ /\ r.conn = c.conn
        /\ SameQueues(r, c) /\ r.call = c.call /\ r.stopped = c.stopped
        /\ r.clientConnect_ = c.clientConnect_
    BY ZenonT(40), <1>3 DEF ClientRecord, SameQueues
  <2> HIDE DEF r
  <2>3. Sound(r)
    BY Zenon, <1>3, <2>2, HaltedIsSound
  <2>4. ~Patient
    BY Zenon, <1>2, <1>4, <1>5 DEF Quiet
  <2>5. QED
    BY Zenon, <1>2, <2>1, <2>2, <2>3, <2>4, HandlerStep
<1>6. CASE c.client # "destroyed"
  <2> DEFINE r == restart([c EXCEPT !.restarting = FALSE], ret)
  <2>1. c' = r
    BY Zenon, <1>1, <1>6 DEF Becomes
  <2>2. /\ Sound(r) /\ SameQueues(r, c) /\ r.call = c.call /\ r.stopped = c.stopped
        /\ r.clientConnect_ = c.clientConnect_
        /\ Quiet(c) => Quiet(r) /\ r.halt \in {"", "throw"}
    BY Zenon, <1>2, <1>3, RestartIsSound
  <2> HIDE DEF r
  <2>3. Patient => Calm(r)
    BY Zenon, <1>4, <2>2 DEF Calm
  <2>4. QED
    BY Zenon, <1>2, <2>1, <2>2, <2>3, HandlerStep
<1>7. QED
  BY Zenon, <1>5, <1>6

LEMMA ReleaseKeeps ==
  ASSUME ClientInv, ReleaseConnector
  PROVE  ClientInv'
<1> DEFINE r == freeConnector(c)
<1>1. Event(r) /\ c.connector_ = "held"
  BY DEF ReleaseConnector
<1>2. c.halt = "" /\ Idle(c) /\ c.batch = <<>> /\ c.events < env.burst
  BY Zenon, <1>1, EventGuard
<1>3. Sound(c) /\ Stops(c)
  BY Zenon, StopsNow DEF ClientInv, OwnedInv
<1>4. /\ Sound(r) /\ SameQueues(r, c) /\ r.call = c.call /\ r.stopped = c.stopped
      /\ r.clientConnect_ = c.clientConnect_ /\ r.state_ = c.state_ /\ (Idle(r) <=> Idle(c))
      /\ Quiet(c) /\ c.client = "destroyed" /\ c.channel_ = 0 => Quiet(r) /\ r.halt = ""
  BY Zenon, <1>2, <1>3, FreeIsSound
<1> HIDE DEF r
<1>5. Patient => Calm(r)
  <2> SUFFICES ASSUME Patient PROVE Calm(r)
    OBVIOUS
  <2>1. Quiet(c) /\ (c.channel_ # 0 => c.state_ = "Kconnecting")
    BY Zenon, <1>2, BeforeEvent
  <2>2. c.client = "destroyed" /\ c.channel_ = 0
    BY Zenon, <1>1, <2>1 DEF Quiet, Settled
  <2>3. QED
    BY Zenon, <1>4, <2>1, <2>2 DEF Calm
<1>6. Calmer(r, c)
  BY Zenon, <1>4 DEF Calmer, QueueKept, SameQueues
<1>7. Stops(r)
  BY Zenon, <1>2, <1>3, <1>6, CalmerStops
<1>8. QED
  BY Zenon, <1>1, <1>4, <1>5, <1>7, EventStep

LEMMA IterationKeeps ==
  ASSUME ClientInv, doPendingFunctors
  PROVE  ClientInv'
<1> DEFINE r == [c EXCEPT !.batch = c.q, !.q = <<>>, !.events = 0]
<1>1. c' = r /\ env' = env /\ c.halt = "" /\ c.batch = <<>>
  BY Zenon DEF doPendingFunctors, Becomes
<1>2. c \in ClientRecord /\ Owned(c) /\ Running(c) /\ c.q \in Seq(Functors) /\ Stops(c)
  BY Zenon, <1>1, Fields, StopsNow DEF ClientInv, OwnedInv, Sound
<1>3. <<>> \in Seq(Functors)
  OBVIOUS
<1>4. /\ r \in ClientRecord /\ r.state_ = c.state_ /\ r.channel_ = c.channel_ /\ r.sockets = c.sockets
      /\ r.registered = c.registered /\ r.established = c.established /\ r.client = c.client
      /\ r.connector_ = c.connector_ /\ r.connection_ = c.connection_ /\ r.conn = c.conn
      /\ r.q = <<>> /\ r.batch = c.q /\ r.events = 0 /\ r.halt = "" /\ r.connect_ = c.connect_
      /\ r.restarting = c.restarting /\ r.call = c.call /\ r.stopped = c.stopped
      /\ r.clientConnect_ = c.clientConnect_
  BY ZenonT(60), <1>1, <1>2, <1>3 DEF ClientRecord
<1> HIDE DEF r
<1>5. \A f : Pending(r, f) <=> Pending(c, f)
  BY Zenon, <1>1, <1>4, Empty DEF Pending
<1>6. Owned(r) /\ r.connection_ \in {0, r.conn.fd}
  <2>1. c.connection_ \in {0, c.conn.fd}
    BY Zenon DEF ClientInv, OwnedInv, Sound
  <2>2. QED
    BY Zenon, <1>2, <1>4, <2>1, OwnedFrame
<1>7. Running(r)
  <2>1. ChannelKept(r)
    BY Zenon, <1>2, <1>4, <1>5, Empty DEF Running, ChannelKept
  <2>2. QED
    BY Zenon, <1>2, <1>4, <1>5, <2>1 DEF Running, Idle
<1>8. Quiet(c) => Quiet(r)
  BY Zenon, <1>4, <1>5 DEF Quiet, Settled, Idle
<1>9. Patient => Calm(r)
  BY Zenon, <1>1, <1>4, <1>8 DEF ClientInv, SafeInv, Calm
<1>10. Stops(r)
  <2>1. Stopping(c) => Stopping(r)
    BY Zenon, <1>4, <1>5, Empty DEF Stopping, Idle
  <2>2. QED
    BY Zenon, <1>1, <1>2, <1>4, <1>5, <2>1 DEF Stops
<1>11. Sound(r)
  BY Zenon, <1>4, <1>6, <1>7 DEF Sound
<1>12. QED
  BY Zenon, <1>1, <1>4, <1>9, <1>10, <1>11, AfterStep

LEMMA FunctorKeeps ==
  ASSUME ClientInv, RunFunctor
  PROVE  ClientInv'
<1>1. PICK ret \in Rets : Becomes(Functor(Head(c.batch), [c EXCEPT !.batch = Tail(@)], ret))
  BY DEF RunFunctor
<1> DEFINE r == Functor(Head(c.batch), [c EXCEPT !.batch = Tail(c.batch)], ret)
<1>2. c' = r /\ env' = env /\ c.halt = "" /\ c.batch # <<>> /\ Idle(c)
  BY Zenon, <1>1 DEF Becomes, RunFunctor
<1>3. Sound(c) /\ Stops(c) /\ ret \in {"connecting", "retry", "error"}
  BY Zenon, Returns, StopsNow DEF ClientInv, OwnedInv
<1>4. Head(c.batch) = "startInLoop" => FreeSockets(c) # {}
  BY DEF RunFunctor
<1>5. /\ Sound(r) /\ Stops(r)
      /\ Quiet(c) => Quiet(r) /\ r.halt \in {"", "throw"} /\ r.q = c.q /\ r.events = c.events
  BY Zenon, <1>2, <1>3, <1>4, FunctorIsSound
<1> HIDE DEF r
<1>6. Patient => Calm(r) /\ (r.events = 0 => r.q = <<>>)
  BY Zenon, <1>2, <1>5 DEF ClientInv, SafeInv, Calm
<1>7. QED
  BY Zenon, <1>2, <1>5, <1>6, AfterStep

LEMMA StepKeeps == ClientInv /\ Next => ClientInv'
BY Zenon, ConnectKeeps, DisconnectKeeps, StopKeeps, DestroyKeeps, ThreadKeeps, WritableKeeps,
   ErrorKeeps, PeerClosesKeeps, NewConnectionKeeps, RestartKeeps, ReleaseKeeps, IterationKeeps,
   FunctorKeeps DEF Next

LEMMA StutterKeeps == ClientInv /\ UNCHANGED vars => ClientInv'
<1> SUFFICES ASSUME ClientInv, c' = c, env' = env
             PROVE  ClientInv'
  BY DEF vars
<1>1. Sound(c) /\ Stops(c)
  BY Zenon, StopsNow DEF ClientInv, OwnedInv
<1>2. Patient => Calm(c) /\ (c.halt = "" => (c.events = 0 => c.q = <<>>))
  BY Zenon DEF ClientInv, SafeInv, CallsAreSafe, Calm
<1>3. QED
  BY Zenon, <1>1, <1>2, AfterStep

LEMMA ClientInvariant == Spec => []ClientInv
<1>1. ClientInv /\ [Next]_vars => ClientInv'
  BY StepKeeps, StutterKeeps
<1>2. QED
  BY <1>1, InitIsSound, PTL DEF Spec

(***************************************************************************)
(* For any number of sockets, calls and events per iteration, and whether  *)
(* the users are on the loop or not: until the program ends an open socket *)
(* belongs to the attempt to connect, to the call that hands it over or to *)
(* the connection and to nothing else, and the Connector's Channel is in   *)
(* the poller just while its socket is open (Connector::connecting,        *)
(* stopInLoop, handleWrite, TcpClient::newConnection, removeConnection).   *)
(***************************************************************************)
THEOREM SocketsStayOwned == Spec => []SocketsOwned
<1>1. ClientInv => SocketsOwned
  BY Zenon DEF ClientInv, OwnedInv, Sound, SocketsOwned, TypeOK
<1>2. QED
  BY <1>1, ClientInvariant, PTL

(***************************************************************************)
(* On a client whose loop makes one call per iteration, in any order and   *)
(* for any number of calls, no functor and no callback runs on a Connector *)
(* or a client that is gone, and of the assertions of Connector only the   *)
(* one of startInLoop can fail, in state Kconnected and after the Channel  *)
(* of the last attempt is gone (Connector::startInLoop, resetChannel,      *)
(* ~Connector, ~TcpClient).                                                *)
(***************************************************************************)
THEOREM PatientCallsAreSafe == Spec => []CallsAreSafe
<1>1. ClientInv => CallsAreSafe
  BY Zenon DEF ClientInv, SafeInv
<1>2. QED
  BY <1>1, ClientInvariant, PTL

(***************************************************************************)
(* Once the functor of stop() has run there is no attempt to connect and   *)
(* no connection on its way until connect() is called again, for callers   *)
(* on the loop and on another thread, whatever functors of earlier calls   *)
(* were queued and although a restart of removeConnection may have set     *)
(* connect_ after stop() cleared it (Connector::stop, stopInLoop, restart, *)
(* handleWrite; TcpClient::removeConnection).                              *)
(***************************************************************************)
THEOREM StopsEndAttempts == Spec => []StopEndsAttempt
<1>1. ClientInv => StopEndsAttempt
  <2> SUFFICES ASSUME ClientInv, c.halt = "", c.stopped, ~StopPending(c)
               PROVE  c.state_ # "Kconnecting" /\ Idle(c)
    BY DEF StopEndsAttempt
  <2>1. c.call = "" /\ ~Pending(c, "stopInLoop")
    BY Zenon DEF ClientInv, StopInv, StopPending
  <2>2. Stopping(c)
    BY Zenon, <2>1 DEF ClientInv, StopInv
  <2>3. QED
    BY Zenon, <2>1, <2>2 DEF Stopping
<1>2. QED
  BY <1>1, ClientInvariant, PTL
=============================================================================
