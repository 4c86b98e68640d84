------------------------ MODULE TcpConnection_proofs ------------------------
(***************************************************************************)
(* Proofs about TcpConnection for any environments and any number of       *)
(* messages.  StreamInv relates the byte stream and the events watched to  *)
(* how far the connection has come: only the functor connectEstablished,   *)
(* which is the first and runs once, finds KConnecting, and it finds       *)
(* nothing buffered.                                                       *)
(***************************************************************************)
EXTENDS TcpConnection, SequenceTheorems, TLAPS

-----------------------------------------------------------------------------
(* Sequences: messages and functors.                                       *)

(***************************************************************************)
(* A partial write cuts what it is given in two, and loses nothing.        *)
(***************************************************************************)
LEMMA CutInTwo ==
  ASSUME NEW S, NEW s \in Seq(S), NEW n \in 0..Len(s)
  PROVE  /\ SubSeq(s, 1, n) \in Seq(S)
         /\ SubSeq(s, n + 1, Len(s)) \in Seq(S)
         /\ SubSeq(s, 1, n) \o SubSeq(s, n + 1, Len(s)) = s
         /\ SubSeq(s, n + 1, Len(s)) = << >> <=> n = Len(s)
         /\ n = 0 => SubSeq(s, 1, n) = << >>
<1>1. Len(s) \in Nat /\ \A i \in 1..Len(s) : s[i] \in S
  BY LenProperties, ElementOfSeq
<1>2. SubSeq(s, 1, n) \in Seq(S)
  BY <1>1, SubSeqProperties
<1>3. /\ SubSeq(s, n + 1, Len(s)) \in Seq(S)
      /\ Len(SubSeq(s, n + 1, Len(s))) = Len(s) - n
  BY <1>1, SubSeqProperties
<1>4. SubSeq(s, 1, n) \o SubSeq(s, n + 1, Len(s)) = SubSeq(s, 1, Len(s))
  <2>1. 1 \in 1..(Len(s) + 1) /\ n \in (1 - 1)..Len(s) /\ Len(s) \in n..Len(s)
    BY <1>1
  <2>2. QED
    BY Zenon, <2>1, ConcatAdjacentSubSeq
<1>5. SubSeq(s, 1, Len(s)) = s
  BY SubSeqFull
<1>6. SubSeq(s, n + 1, Len(s)) = << >> <=> n = Len(s)
  <2>1. \A t \in Seq(S) : t = << >> <=> Len(t) = 0
    BY EmptySeq
  <2>2. Len(SubSeq(s, n + 1, Len(s))) = 0 <=> n = Len(s)
    BY <1>1, <1>3
  <2>3. QED
    BY Zenon, <1>3, <2>1, <2>2
<1>7. n = 0 => SubSeq(s, 1, n) = << >>
  BY SubSeqEmpty
<1>8. QED
  BY Zenon, <1>2, <1>3, <1>4, <1>5, <1>6, <1>7

LEMMA MessageIsSeq ==
  ASSUME NEW m \in Messages
  PROVE  Message(m) \in Seq(Messages) /\ Len(Message(m)) = 2
BY ConnectionAssumption DEF Message, Messages

(***************************************************************************)
(* The queue after a functor is added, and after the oldest has run.       *)
(***************************************************************************)
LEMMA AddFunctor ==
  ASSUME NEW q \in Seq(Functor), NEW u, Ordered(q, u),
         NEW op \in {"shutdown", "forceClose", "writeComplete", "destroyed"},
         NEW m \in Messages \cup {0}
  PROVE  /\ Append(q, Fn(op, m)) \in Seq(Functor)
         /\ Ordered(Append(q, Fn(op, m)), u)
         /\ op # "shutdown" /\ ~Queued(q, "shutdown") =>
              ~Queued(Append(q, Fn(op, m)), "shutdown")
<1>1. Fn(op, m) \in Functor
  BY DEF Fn, Functor, RawOps, SharedOps
<1>2. /\ Append(q, Fn(op, m)) \in Seq(Functor)
      /\ Len(q) \in Nat /\ Len(Append(q, Fn(op, m))) = Len(q) + 1
      /\ \A k \in 1..Len(q) : Append(q, Fn(op, m))[k] = q[k]
      /\ Append(q, Fn(op, m))[Len(q) + 1] = Fn(op, m)
  BY <1>1
<1>3. Fn(op, m).op = op
  BY DEF Fn
<1>4. Ordered(Append(q, Fn(op, m)), u)
  BY <1>2, <1>3 DEF Ordered
<1>5. op # "shutdown" /\ ~Queued(q, "shutdown") =>
        ~Queued(Append(q, Fn(op, m)), "shutdown")
  BY <1>2, <1>3 DEF Queued
<1>6. QED
  BY <1>2, <1>4, <1>5

LEMMA RunOldest ==
  ASSUME NEW q \in Seq(Functor), NEW u, Ordered(q, u), q # << >>
  PROVE  /\ Tail(q) \in Seq(Functor) /\ Ordered(Tail(q), u)
         /\ Head(q) \in Functor
         /\ Head(q).op = "connectEstablished" => u = 0
         /\ Head(q).op = "send" => Head(q).msg \in Messages /\ u = 1
         /\ Head(q).op = "connectEstablished" => Ordered(Tail(q), 1)
         /\ ~Queued(q, "shutdown") =>
              ~Queued(Tail(q), "shutdown") /\ Head(q).op # "shutdown"
         /\ ~Queued(Tail(q), "connectEstablished")
<1>1. /\ Tail(q) \in Seq(Functor) /\ Len(q) \in Nat /\ Len(q) > 0
      /\ Len(Tail(q)) = Len(q) - 1
      /\ \A k \in 1..(Len(q) - 1) : Tail(q)[k] = q[k + 1]
      /\ Head(q) = q[1] /\ Head(q) \in Functor
  OBVIOUS
<1>2. Ordered(Tail(q), u)
  BY <1>1 DEF Ordered
<1>3. /\ Head(q).op = "connectEstablished" => u = 0
      /\ Head(q).op = "send" => Head(q).msg # 0 /\ u = 1
  BY <1>1 DEF Ordered
<1>4. Head(q).op = "send" => Head(q).msg \in Messages
  BY <1>1, <1>3 DEF Functor
<1>5. Head(q).op = "connectEstablished" => Ordered(Tail(q), 1)
  BY <1>1, <1>3 DEF Ordered
<1>6. ~Queued(q, "shutdown") =>
        ~Queued(Tail(q), "shutdown") /\ Head(q).op # "shutdown"
  BY <1>1 DEF Queued
<1>7. ~Queued(Tail(q), "connectEstablished")
  BY <1>1 DEF Queued, Ordered
<1>8. QED
  BY <1>1, <1>2, <1>3, <1>4, <1>5, <1>6, <1>7

-----------------------------------------------------------------------------
(* What the steps do to the socket.                                        *)

(***************************************************************************)
(* Concatenation by its laws only.                                         *)
(***************************************************************************)
Cat(a, b) == a \o b

LEMMA CatLaws ==
  /\ \A a, b \in Seq(Messages) : Cat(a, b) \in Seq(Messages)
  /\ \A a, b, c \in Seq(Messages) : Cat(Cat(a, b), c) = Cat(a, Cat(b, c))
  /\ \A a \in Seq(Messages) : Cat(a, << >>) = a /\ Cat(<< >>, a) = a
  /\ \A a, b \in Seq(Messages) : Cat(a, b) = << >> <=> a = << >> /\ b = << >>
<1>1. \A a, b \in Seq(Messages) : Cat(a, b) \in Seq(Messages)
  BY DEF Cat
<1>2. ASSUME NEW a \in Seq(Messages), NEW b \in Seq(Messages), NEW c \in Seq(Messages)
      PROVE  Cat(Cat(a, b), c) = Cat(a, Cat(b, c))
  BY ConcatAssociative DEF Cat
<1>3. ASSUME NEW a \in Seq(Messages) PROVE Cat(a, << >>) = a /\ Cat(<< >>, a) = a
  BY ConcatEmptySeq DEF Cat
<1>4. ASSUME NEW a \in Seq(Messages), NEW b \in Seq(Messages)
      PROVE  Cat(a, b) = << >> <=> a = << >> /\ b = << >>
  BY ConcatEqualIffEmpty DEF Cat
<1>5. QED
  BY Zenon, <1>1, <1>2, <1>3, <1>4

(***************************************************************************)
(* A message goes behind what is buffered: it is split only when nothing   *)
(* is, so the parts stay in order.                                         *)
(***************************************************************************)
LEMMA SplitInOrder ==
  ASSUME NEW w \in Seq(Messages), NEW b \in Seq(Messages),
         NEW x \in Seq(Messages), NEW y \in Seq(Messages), b = << >> \/ x = << >>
  PROVE  Cat(Cat(w, x), Cat(b, y)) = Cat(Cat(w, b), Cat(x, y))
<1>1. CASE b = << >>
  <2>1. Cat(b, y) = y /\ Cat(w, b) = w
    BY <1>1, CatLaws
  <2>2. QED
    BY <2>1, CatLaws
<1>2. CASE x = << >>
  <2>1. Cat(w, x) = w /\ Cat(x, y) = y
    BY <1>2, CatLaws
  <2>2. QED
    BY <2>1, CatLaws
<1>3. QED
  BY <1>1, <1>2

(***************************************************************************)
(* sendInLoop keeps the stream intact and watches POLLOUT when it buffers. *)
(***************************************************************************)
LEMMA SendKeepsStream ==
  ASSUME StreamInv, ups = 1, env' = env, state_' = state_, ups' = ups,
         NEW m \in Messages, NEW q, SendInLoop(m, q)
  PROVE  /\ SocketInv'
         /\ events_' = events_ \/ (state_ # "KDisconnected" /\ events_' = events_ \cup {"write"})
         /\ fin' = fin /\ faulted' \in BOOLEAN
         /\ ioQueue' = q \/ ioQueue' = Append(q, Fn("writeComplete", 0))
<1> DEFINE M == Message(m)
           direct == ~IsWriting /\ outputBuffer_ = << >>
<1>1. /\ M \in Seq(Messages) /\ Len(M) = 2
      /\ SocketTypes /\ faulted \in BOOLEAN
      /\ ~faulted => wire \o outputBuffer_ = taken
      /\ ClosesOnLoop /\ fin => outputBuffer_ = << >>
      /\ ClosesOnLoop => WatchesOutput
      /\ (ClosesOnLoop)' <=> ClosesOnLoop
  BY MessageIsSeq DEF StreamInv, SocketInv, StreamIntact, ControlInv, ControlTypes, ClosesOnLoop
<1>2. state_ # "KDisconnected" => state_ \in {"KConnected", "KDisconnecting"}
  BY DEF StreamInv, ControlInv, ControlTypes, States
<1>3. taken \o M \in Seq(Messages)
  BY <1>1, ConcatProperties DEF SocketTypes
<1> HIDE DEF M
<1>4. CASE state_ = "KDisconnected" /\ UNCHANGED <<events_, socket>> /\ ioQueue' = q
  <2>1. UNCHANGED <<outputBuffer_, wire, fin, faulted, taken>> /\ events_' = events_
    BY <1>4 DEF socket
  <2>2. SocketInv'
    BY <1>1, <2>1 DEF SocketInv, SocketTypes, StreamIntact, WatchesOutput, IsWriting
  <2>3. QED
    BY <1>1, <1>4, <2>1, <2>2
<1>5. CASE /\ faulted' = TRUE /\ taken' = taken \o M
           /\ UNCHANGED <<events_, outputBuffer_, wire, fin>> /\ ioQueue' = q
  <2>1. SocketInv'
    BY <1>1, <1>3, <1>5 DEF SocketInv, SocketTypes, StreamIntact, WatchesOutput, IsWriting
  <2>2. QED
    BY <1>5, <2>1
<1>6. ASSUME state_ # "KDisconnected", ~(direct /\ WriteFails),
             taken' = taken \o M, UNCHANGED <<fin, faulted>>,
             NEW n \in IF direct THEN 0..2 ELSE {0},
             wire' = wire \o SubSeq(M, 1, n),
             outputBuffer_' = outputBuffer_ \o SubSeq(M, n + 1, 2),
             events_' = IF n < 2 THEN events_ \cup {"write"} ELSE events_,
             ioQueue' = IF n = 2 THEN Append(q, Fn("writeComplete", 0)) ELSE q
      PROVE  SocketInv'
  <2> DEFINE x == SubSeq(M, 1, n)
             y == SubSeq(M, n + 1, 2)
  <2>1. n \in 0..2 /\ (~direct => n = 0)
    BY <1>6
  <2>2. /\ x \in Seq(Messages) /\ y \in Seq(Messages) /\ x \o y = M
        /\ y = << >> <=> n = 2
        /\ n = 0 => x = << >>
    <3>1. n \in 0..Len(M)
      BY <1>1, <2>1
    <3>2. QED
      BY Zenon, <1>1, <3>1, CutInTwo
  <2> HIDE DEF x, y
  <2>3. wire' = wire \o x /\ outputBuffer_' = outputBuffer_ \o y
    BY <1>6 DEF x, y
  <2>4. SocketTypes'
    <3>1. wire \o x \in Seq(Messages) /\ outputBuffer_ \o y \in Seq(Messages)
      BY Zenon, <1>1, <2>2, ConcatProperties DEF SocketTypes
    <3>2. QED
      BY Zenon, <1>3, <1>6, <2>3, <3>1 DEF SocketTypes
  <2>5. wire' \o outputBuffer_' = (wire \o outputBuffer_) \o M
    <3>1. outputBuffer_ = << >> \/ x = << >>
      BY Zenon, <2>1, <2>2
    <3>2. Cat(wire, outputBuffer_) = wire \o outputBuffer_ /\ Cat(x, y) = M
      BY Zenon, <2>2 DEF Cat
    <3>3. Cat(Cat(wire, x), Cat(outputBuffer_, y)) = Cat(Cat(wire, outputBuffer_), Cat(x, y))
      BY <1>1, <2>2, <3>1, SplitInOrder DEF SocketTypes
    <3>4. QED
      BY Zenon, <2>3, <3>2, <3>3 DEF Cat
  <2>6. ~faulted' => wire' \o outputBuffer_' = taken'
    BY Zenon, <1>1, <1>6, <2>5
  <2>7. ~(ClosesOnLoop /\ fin)
    BY <1>1, <1>2, <1>6 DEF WatchesOutput, WriteFails
  <2>8. outputBuffer_' = << >> <=> outputBuffer_ = << >> /\ n = 2
    BY <1>1, <2>2, <2>3, ConcatEqualIffEmpty DEF SocketTypes
  <2>9. ClosesOnLoop => (WatchesOutput)'
    <3>1. CASE n = 2
      BY <1>6, <2>1, <2>8, <3>1 DEF WatchesOutput, IsWriting
    <3>2. CASE n # 2
      <4>1. n < 2
        BY <2>1, <3>2
      <4>2. "write" \in events_'
        BY <1>6, <4>1
      <4>3. QED
        BY Zenon, <2>8, <3>2, <4>2 DEF WatchesOutput, IsWriting
    <3>3. QED
      BY <3>1, <3>2
  <2>10. ups' # 0
    OBVIOUS
  <2>11. QED
    BY Zenon, <1>1, <1>6, <2>4, <2>6, <2>7, <2>9, <2>10 DEF SocketInv, StreamIntact
<1>7. QED
  <2>1. CASE /\ state_ # "KDisconnected" /\ ~(direct /\ WriteFails)
             /\ taken' = taken \o M /\ UNCHANGED <<fin, faulted>>
             /\ \E n \in IF direct THEN 0..2 ELSE {0} :
                  /\ wire' = wire \o SubSeq(M, 1, n)
                  /\ outputBuffer_' = outputBuffer_ \o SubSeq(M, n + 1, 2)
                  /\ events_' = IF n < 2 THEN events_ \cup {"write"} ELSE events_
                  /\ ioQueue' = IF n = 2 THEN Append(q, Fn("writeComplete", 0)) ELSE q
    <3>1. SocketInv'
      BY Zenon, <1>6, <2>1
    <3>2. QED
      BY <1>1, <2>1, <3>1
  <2>2. QED
    BY Zenon, <1>1, <1>4, <1>5, <2>1 DEF SendInLoop, M

(***************************************************************************)
(* handleWrite moves the head of the buffer to the socket, and stops       *)
(* watching POLLOUT exactly when it has emptied it.                        *)
(***************************************************************************)
LEMMA WriteKeepsStream ==
  ASSUME StreamInv, HandleWrite
  PROVE  SocketInv'
<1>1. /\ SocketTypes /\ ups' = ups /\ state_' = state_
      /\ taken' = taken /\ faulted' = faulted
      /\ ~faulted => wire \o outputBuffer_ = taken
      /\ ClosesOnLoop /\ fin => outputBuffer_ = << >>
      /\ ClosesOnLoop => WatchesOutput
      /\ (ClosesOnLoop)' <=> ClosesOnLoop
      /\ fin \in BOOLEAN
  BY DEF StreamInv, SocketInv, StreamIntact, HandleWrite, ClosesOnLoop, world, history,
         ControlInv, ControlTypes
<1>2. ups # 0
  BY DEF StreamInv, ControlInv, ControlTypes, HandleWrite
<1>3. CASE UNCHANGED <<events_, wire, outputBuffer_, fin, ioQueue>>
  BY <1>1, <1>2, <1>3 DEF SocketInv, SocketTypes, StreamIntact, WatchesOutput, IsWriting
<1>4. ASSUME IsWriting, ~WriteFails, NEW n \in 1..Len(outputBuffer_),
             wire' = wire \o SubSeq(outputBuffer_, 1, n),
             outputBuffer_' = SubSeq(outputBuffer_, n + 1, Len(outputBuffer_)),
             events_' = IF n = Len(outputBuffer_) THEN events_ \ {"write"} ELSE events_,
             fin' = (fin \/ (n = Len(outputBuffer_) /\ state_ = "KDisconnecting"))
      PROVE  SocketInv'
  <2> DEFINE x == SubSeq(outputBuffer_, 1, n)
             y == SubSeq(outputBuffer_, n + 1, Len(outputBuffer_))
  <2>1. n \in 0..Len(outputBuffer_) /\ outputBuffer_ \in Seq(Messages)
    BY <1>1, <1>4 DEF SocketTypes
  <2>2. /\ x \in Seq(Messages) /\ y \in Seq(Messages) /\ x \o y = outputBuffer_
        /\ y = << >> <=> n = Len(outputBuffer_)
    BY Zenon, <2>1, CutInTwo
  <2> HIDE DEF x, y
  <2>3. wire' = Cat(wire, x) /\ outputBuffer_' = y /\ Cat(x, y) = outputBuffer_
    BY Zenon, <1>4, <2>2 DEF x, y, Cat
  <2>4. Cat(wire', outputBuffer_') = Cat(wire, outputBuffer_) /\ wire' \in Seq(Messages)
    BY <1>1, <2>2, <2>3, CatLaws DEF SocketTypes
  <2>5. ~faulted' => wire' \o outputBuffer_' = taken'
    BY Zenon, <1>1, <2>4 DEF Cat
  <2>6. SocketTypes'
    BY Zenon, <1>1, <2>2, <2>3, <2>4 DEF SocketTypes
  <2>7. fin' => outputBuffer_' = << >>
    BY Zenon, <1>4, <2>2, <2>3 DEF WriteFails
  <2>8. "write" \in events_' <=> outputBuffer_' # << >>
    BY Zenon, <1>4, <2>2, <2>3 DEF IsWriting
  <2>9. QED
    BY Zenon, <1>1, <1>2, <2>5, <2>6, <2>7, <2>8
       DEF SocketInv, StreamIntact, WatchesOutput, IsWriting
<1>5. QED
  BY Zenon, <1>3, <1>4 DEF HandleWrite

(***************************************************************************)
(* What is in a queue after a functor is added, and before one was taken.  *)
(***************************************************************************)
LEMMA QueuedAfterAdd ==
  ASSUME NEW q \in Seq(Functor), NEW o \in RawOps \cup SharedOps, NEW m \in Messages \cup {0}
  PROVE  \A op : Queued(Append(q, Fn(o, m)), op) <=> Queued(q, op) \/ op = o
<1> DEFINE f == Fn(o, m)
<1> SUFFICES ASSUME NEW op PROVE Queued(Append(q, f), op) <=> Queued(q, op) \/ op = o
  OBVIOUS
<1>1. f \in Functor /\ f.op = o
  BY DEF Fn, Functor
<1> HIDE DEF f
<1>2. /\ Len(q) \in Nat /\ Len(Append(q, f)) = Len(q) + 1
      /\ \A k \in 1..Len(q) : Append(q, f)[k] = q[k]
      /\ Append(q, f)[Len(q) + 1] = f
  BY <1>1
<1>3. QED
  BY <1>1, <1>2 DEF Queued

LEMMA QueuedBeforeRun ==
  ASSUME NEW q \in Seq(Functor), q # << >>
  PROVE  \A op : Queued(q, op) <=> Head(q).op = op \/ Queued(Tail(q), op)
<1> SUFFICES ASSUME NEW op PROVE Queued(q, op) <=> Head(q).op = op \/ Queued(Tail(q), op)
  OBVIOUS
<1>1. /\ Len(q) \in Nat /\ Len(q) > 0 /\ Len(Tail(q)) = Len(q) - 1
      /\ \A k \in 1..(Len(q) - 1) : Tail(q)[k] = q[k + 1]
      /\ Head(q) = q[1]
  OBVIOUS
<1>2. Queued(Tail(q), op) => Queued(q, op)
  BY <1>1 DEF Queued
<1>3. Head(q).op = op => Queued(q, op)
  BY <1>1 DEF Queued
<1>4. ASSUME NEW k \in 1..Len(q), q[k].op = op, k # 1 PROVE Queued(Tail(q), op)
  <2>1. k - 1 \in 1..(Len(q) - 1) /\ (k - 1) + 1 = k
    BY <1>1, <1>4
  <2>2. Tail(q)[k - 1].op = op
    BY <1>1, <1>4, <2>1
  <2>3. QED
    BY <1>1, <2>1, <2>2 DEF Queued
<1>5. Queued(q, op) => Head(q).op = op \/ Queued(Tail(q), op)
  BY <1>1, <1>4 DEF Queued
<1>6. QED
  BY <1>2, <1>3, <1>5

-----------------------------------------------------------------------------
(* Every step keeps ControlInv.                                            *)

LEMMA EnvironmentFacts ==
  ASSUME env \in Environments
  PROVE  /\ env.messages \in Nat /\ env.messages <= MaxMessages /\ MaxMessages \in Nat
         /\ env.sameLoop \in BOOLEAN /\ env.destroysServer \in BOOLEAN
BY ConnectionAssumption DEF EnvironmentRecord

LEMMA CloseKeepsControl ==
  ASSUME ControlInv, ups = 1, NEW q, HandleClose(q),
         ClosesOnLoop => state_ # "KDisconnected",
         revents' \in SUBSET {"write"} \/ ~ClosesOnLoop,
         revents' \subseteq revents,
         UNCHANGED <<registered, socket, world, server, ioAlive, user, ups>>
  PROVE  ControlInv'
<1>1. /\ state_' = "KDisconnected" /\ events_' = {} /\ downs' = downs + 1
      /\ inMap' \in BOOLEAN
      /\ UNCHANGED <<registered, fin, faulted, env, peer, server, ioAlive, userRef, upc,
           created, ups>>
  BY Zenon DEF HandleClose, RemoveConnection, socket, world, user, ControlInv, ControlTypes
<1>2. ControlTypes'
  <2>1. revents' \in SUBSET {"close", "read", "write"} /\ (revents' # {} => revents # {})
    BY Zenon DEF ControlInv, ControlTypes
  <2>2. downs' \in Nat /\ state_' \in States /\ events_' \in SUBSET {"read", "write"}
    BY <1>1 DEF ControlInv, ControlTypes, States
  <2>3. QED
    BY <1>1, <2>1, <2>2 DEF ControlInv, ControlTypes
<1>3. QED
  BY <1>1, <1>2 DEF ControlInv, ControlTypes, ClosesOnLoop

LEMMA DestroyedKeepsControl ==
  ASSUME ControlInv, NEW q, ConnnectDestroyed(q), revents = {}, revents' = {},
         server' \in {"alive", "dead"}, inMap' \in BOOLEAN,
         UNCHANGED <<socket, world, ioAlive, user, ups>>
  PROVE  ControlInv'
<1> USE DEF ControlInv, ControlTypes, ClosesOnLoop, socket, world, user
<1>1. CASE state_ = "KConnected"
  <2>1. /\ state_' = "KDisconnected" /\ events_' = {} /\ downs' = downs + 1 /\ registered' = FALSE
        /\ UNCHANGED <<fin, faulted, env, peer, ioAlive, userRef, upc, created, ups>>
    BY <1>1 DEF ConnnectDestroyed
  <2>2. downs' \in Nat /\ events_' \in SUBSET {"read", "write"}
    BY <2>1
  <2>3. state_' \in States /\ state_' # "KConnecting"
    BY <2>1 DEF States
  <2>4. registered' \in BOOLEAN /\ revents' \in SUBSET {"close", "read", "write"}
    BY Zenon, <2>1
  <2>5. ControlTypes'
    BY Zenon, <2>1, <2>2, <2>3, <2>4
  <2>6. QED
    BY <1>1, <2>1, <2>5
<1>2. CASE state_ # "KConnected"
  BY ZenonT(40), <1>2 DEF ConnnectDestroyed
<1>3. QED
  BY <1>1, <1>2

LEMMA EventsKeepControl ==
  ASSUME ControlInv, ups = 1,
         events_' = events_ \/ (state_ # "KDisconnected" /\ events_' = events_ \cup {"write"}),
         fin' = fin, faulted' \in BOOLEAN, created' \in Messages \cup {0},
         created' <= env.messages + 1, upc = "send" => created' <= env.messages,
         UNCHANGED <<state_, registered, revents, env, peer, server, ioAlive, inMap, userRef,
                     upc, ups, downs>>
  PROVE  ControlInv'
<1>1. events_' \in SUBSET {"read", "write"} /\ (state_ = "KDisconnected" => events_' = events_)
  BY Zenon DEF ControlInv, ControlTypes
<1>2. ControlTypes'
  BY <1>1 DEF ControlInv, ControlTypes
<1>3. QED
  BY <1>1, <1>2 DEF ControlInv, ClosesOnLoop

LEMMA ControlStep == StreamInv /\ [Next]_vars => ControlInv'
<1> SUFFICES ASSUME StreamInv, [Next]_vars PROVE ControlInv'
  OBVIOUS
<1>0. /\ ControlInv /\ QueueInv
      /\ env.messages \in Nat /\ env.messages <= MaxMessages /\ MaxMessages \in Nat
  BY EnvironmentFacts DEF StreamInv, ControlInv, ControlTypes
<1> USE <1>0 DEF ControlInv, ControlTypes, ClosesOnLoop, channel, socket, world, queues,
                 owners, user, history
<1>1. CASE Poll
  BY Zenon, <1>1 DEF Poll
<1>2. CASE HandleHup
  BY <1>2, CloseKeepsControl DEF HandleHup
<1>3. CASE HandleData
  BY <1>3 DEF HandleData
<1>4. CASE HandleEof
  BY <1>4, CloseKeepsControl DEF HandleEof
<1>5. CASE HandleWrite
  <2>1. /\ revents = {"write"} /\ revents' = {}
        /\ events_' = events_ \/ events_' = events_ \ {"write"}
        /\ UNCHANGED <<state_, registered, faulted, env, peer, server, ioAlive, inMap, userRef,
                       upc, created, ups, downs>>
    BY Zenon, <1>5 DEF HandleWrite
  <2>2. fin' \in BOOLEAN
    BY Zenon, <1>5 DEF HandleWrite
  <2>3. QED
    BY ZenonT(40), <2>1, <2>2
<1>6. CASE RunConnectEstablished
  BY <1>6, RunOldest DEF RunConnectEstablished, RunFunctor, ConnectEstablished, QueueInv,
       QueueTypes, States
<1>7. CASE RunSend
  <2>1. Head(ioQueue).msg \in Messages /\ ups = 1
    BY Zenon, <1>7, RunOldest DEF RunSend, RunFunctor, QueueInv, QueueTypes
  <2>2. SendInLoop(Head(ioQueue).msg, Tail(ioQueue)) /\ UNCHANGED <<env, state_, ups>>
    BY <1>7 DEF RunSend
  <2>3. /\ events_' = events_ \/ (state_ # "KDisconnected" /\ events_' = events_ \cup {"write"})
        /\ fin' = fin /\ faulted' \in BOOLEAN
    BY <2>1, <2>2, SendKeepsStream
  <2>4. UNCHANGED <<state_, registered, revents, env, peer, server, ioAlive, inMap, userRef,
                    upc, created, ups, downs>>
    BY <1>7 DEF RunSend
  <2>5. QED
    BY <2>1, <2>3, <2>4, EventsKeepControl
<1>8. CASE RunShutdown
  BY <1>8 DEF RunShutdown, ShutdownInLoop
<1>9. CASE RunForceClose
  <2>1. CASE state_ \in {"KConnected", "KDisconnecting"} /\ HandleClose(Tail(ioQueue))
    BY <1>9, <2>1, CloseKeepsControl DEF RunForceClose, RunFunctor
  <2>2. CASE UNCHANGED <<state_, events_, srvQueue, inMap, downs>>
    BY <1>9, <2>2 DEF RunForceClose
  <2>3. QED
    BY <1>9, <2>1, <2>2 DEF RunForceClose
<1>10. CASE RunDestroyed
  BY <1>10, DestroyedKeepsControl DEF RunDestroyed, RunFunctor
<1>11. CASE RunWriteComplete
  BY <1>11 DEF RunWriteComplete
<1>12. CASE LoopSend
  <2>1. created' \in Messages /\ created' = created + 1 /\ created < env.messages /\ ups = 1
    BY <1>12 DEF LoopSend, MayCall, Messages
  <2>2. SendInLoop(created', ioQueue) /\ UNCHANGED <<env, state_, ups>>
    BY <1>12 DEF LoopSend
  <2>3. /\ events_' = events_ \/ (state_ # "KDisconnected" /\ events_' = events_ \cup {"write"})
        /\ fin' = fin /\ faulted' \in BOOLEAN
    BY <2>1, <2>2, SendKeepsStream
  <2>4. UNCHANGED <<state_, registered, revents, env, peer, server, ioAlive, inMap, userRef,
                    upc, ups, downs>>
    BY <1>12 DEF LoopSend
  <2>5. created' <= env.messages + 1 /\ (upc = "send" => created' <= env.messages)
    BY <2>1 DEF Messages
  <2>6. QED
    BY <2>1, <2>3, <2>4, <2>5, EventsKeepControl
<1>13. CASE LoopShutdown
  BY <1>13 DEF LoopShutdown, MayCall, ShutdownInLoop, States
<1>14. CASE LoopForceClose
  BY <1>14 DEF LoopForceClose, States
<1>15. ASSUME NEW call \in CallNames, ThreadCall(call) PROVE ControlInv'
  <2>1. /\ upc' = call /\ call \in env.threadCalls /\ call \in UserPCs
        /\ call = "send" => created <= env.messages
        /\ state_ # "KConnecting"
        /\ UNCHANGED <<state_, events_, registered, revents, fin, faulted, env, peer, server,
                       ioAlive, inMap, userRef, created, ups, downs>>
    BY <1>15 DEF ThreadCall, UserPCs, Messages
  <2>2. QED
    BY <2>1
<1>16. CASE ThreadSetsState
  BY <1>16 DEF ThreadSetsState, UserPCs, States
<1>17. ASSUME NEW from, NEW op, ThreadQueues(from, op), from = "send" <=> op = "send"
     PROVE ControlInv'
  BY <1>17 DEF ThreadQueues, UserPCs, Messages
<1>18. CASE Release
  BY ZenonT(40), <1>18 DEF Release
<1>19. CASE NewConnection
  <2>1. CASE env.sameLoop /\ ConnectEstablished(ioQueue)
    BY <1>19, <2>1 DEF NewConnection, ConnectEstablished, States
  <2>2. CASE UNCHANGED <<state_, channel, userRef, ups>>
    BY <1>19, <2>2 DEF NewConnection
  <2>3. QED
    BY <1>19, <2>1, <2>2 DEF NewConnection
<1>20. CASE RemoveConnectionInLoop
  BY ZenonT(40), <1>20 DEF RemoveConnectionInLoop
<1>21. CASE DestroyServer
  <2>1. CASE inMap /\ env.sameLoop /\ ConnnectDestroyed(ioQueue)
    BY Zenon, <1>21, <2>1, DestroyedKeepsControl DEF DestroyServer
  <2>2. CASE UNCHANGED <<state_, channel, downs>>
    <3>1. /\ server' = "dead" /\ inMap' = FALSE
          /\ UNCHANGED <<state_, events_, registered, revents, fin, faulted, env, peer, ioAlive,
                         userRef, upc, created, ups, downs>>
      BY <1>21, <2>2 DEF DestroyServer
    <3>2. QED
      BY ZenonT(40), <3>1
  <2>3. QED
    BY Zenon, <1>21, <2>1, <2>2 DEF DestroyServer
<1>22. CASE IoLoopQuits
  BY ZenonT(40), <1>22 DEF IoLoopQuits
<1>23. CASE PeerCloses
  BY <1>23 DEF PeerCloses
<1>24. CASE UNCHANGED vars
  BY <1>24 DEF vars
<1>25. QED
  BY Zenon, <1>1, <1>2, <1>3, <1>4, <1>5, <1>6, <1>7, <1>8, <1>9, <1>10, <1>11, <1>12, <1>13,
     <1>14, <1>15, <1>16, <1>17, <1>18, <1>19, <1>20, <1>21, <1>22, <1>23, <1>24
     DEF Next, Handlers, Functors, LoopCalls, ThreadGoesOn

-----------------------------------------------------------------------------
(* Every step keeps QueueInv.                                              *)

(***************************************************************************)
(* A step that leaves the queue q, or adds to it a functor other than      *)
(* connectEstablished, send and shutdown.                                  *)
(***************************************************************************)
LEMMA QueueGrows ==
  ASSUME NEW q \in Seq(Functor), Ordered(q, ups), ClosesOnLoop => ~Queued(q, "shutdown"),
         \/ ioQueue' = q
         \/ \E op \in {"forceClose", "writeComplete", "destroyed"}, m \in Messages \cup {0} :
              ioQueue' = Append(q, Fn(op, m)),
         srvQueue' \in Seq(Functor), UNCHANGED <<ups, env>>,
         ups = 0 => srvQueue' = << >>,
         ups = 0 /\ ~inMap' /\ server' = "alive" => ioQueue' = << >>
  PROVE  QueueInv'
<1>1. /\ ioQueue' \in Seq(Functor) /\ Ordered(ioQueue', ups)
      /\ ClosesOnLoop => ~Queued(ioQueue', "shutdown")
  <2>1. CASE ioQueue' = q
    BY Zenon, <2>1
  <2>2. ASSUME NEW op \in {"forceClose", "writeComplete", "destroyed"},
               NEW m \in Messages \cup {0}, ioQueue' = Append(q, Fn(op, m))
        PROVE  /\ ioQueue' \in Seq(Functor) /\ Ordered(ioQueue', ups)
               /\ ClosesOnLoop => ~Queued(ioQueue', "shutdown")
    BY <2>2, AddFunctor
  <2>3. QED
    BY <2>1, <2>2
<1>2. (ClosesOnLoop)' <=> ClosesOnLoop
  BY DEF ClosesOnLoop
<1>3. Ordered(ioQueue, ups)' <=> Ordered(ioQueue', ups)
  BY DEF Ordered
<1>4. Queued(ioQueue, "shutdown")' <=> Queued(ioQueue', "shutdown")
  BY DEF Queued
<1>5. QED
  BY Zenon, <1>1, <1>2, <1>3, <1>4 DEF QueueInv, QueueTypes

LEMMA SendKeepsQueue ==
  ASSUME QueueInv, ups = 1, NEW m \in Messages, ioQueue' = Append(ioQueue, Fn("send", m)),
         UNCHANGED <<srvQueue, ups, env>>
  PROVE  QueueInv'
<1>1. /\ Fn("send", m) \in Functor /\ Fn("send", m).op = "send" /\ Fn("send", m).msg = m
      /\ m # 0
  BY ConnectionAssumption DEF Fn, Functor, RawOps, Messages
<1>2. /\ ioQueue' \in Seq(Functor) /\ Len(ioQueue) \in Nat /\ Len(ioQueue') = Len(ioQueue) + 1
      /\ \A k \in 1..Len(ioQueue) : ioQueue'[k] = ioQueue[k]
      /\ ioQueue'[Len(ioQueue) + 1] = Fn("send", m)
  BY <1>1 DEF QueueInv, QueueTypes
<1>3. Ordered(ioQueue', ups)
  BY <1>1, <1>2 DEF QueueInv, Ordered
<1>4. Queued(ioQueue', "shutdown") => Queued(ioQueue, "shutdown")
  BY <1>1, <1>2 DEF Queued
<1>5. QED
  BY <1>2, <1>3, <1>4 DEF QueueInv, QueueTypes, ClosesOnLoop, Ordered, Queued

LEMMA FirstFunctor ==
  /\ Append(<< >>, Fn("connectEstablished", 0)) \in Seq(Functor)
  /\ Ordered(Append(<< >>, Fn("connectEstablished", 0)), 0)
  /\ \A op : Queued(Append(<< >>, Fn("connectEstablished", 0)), op) <=> op = "connectEstablished"
<1>1. Fn("connectEstablished", 0) \in Functor /\ Fn("connectEstablished",
     0).op = "connectEstablished"
  BY DEF Fn, Functor, RawOps
<1>2. Append(<< >>, Fn("connectEstablished", 0)) = << Fn("connectEstablished", 0) >>
  BY <1>1
<1>3. QED
  BY <1>1, <1>2 DEF Ordered, Queued

LEMMA CloseKeepsQueue ==
  ASSUME ups = 1, NEW q \in Seq(Functor), Ordered(q, ups), ClosesOnLoop => ~Queued(q, "shutdown"),
         srvQueue \in Seq(Functor), RemoveConnection(q), UNCHANGED <<ups, env>>
  PROVE  QueueInv'
<1>1. Append(srvQueue, Fn("remove", 0)) \in Seq(Functor)
  BY DEF Fn, Functor, SharedOps
<1>2. srvQueue' \in Seq(Functor) /\ (ioQueue' = q \/ ioQueue' = Append(q, Fn("destroyed", 0)))
  BY Zenon, <1>1 DEF RemoveConnection
<1>3. QED
  BY <1>2, QueueGrows

LEMMA RunKeepsQueue ==
  ASSUME QueueInv, NEW op, RunFunctor(op)
  PROVE  /\ Tail(ioQueue) \in Seq(Functor) /\ Ordered(Tail(ioQueue), ups)
         /\ ClosesOnLoop => ~Queued(Tail(ioQueue), "shutdown")
         /\ ~(ups = 0 /\ ~inMap /\ server = "alive")
BY RunOldest DEF QueueInv, QueueTypes, RunFunctor

LEMMA QueueStep == StreamInv /\ [Next]_vars => QueueInv'
<1> SUFFICES ASSUME StreamInv, [Next]_vars PROVE QueueInv'
  OBVIOUS
<1>0. /\ QueueInv /\ ups \in {0, 1} /\ (state_ = "KConnecting" <=> ups = 0)
      /\ ioQueue \in Seq(Functor) /\ srvQueue \in Seq(Functor)
      /\ Ordered(ioQueue, ups) /\ (ClosesOnLoop => ~Queued(ioQueue, "shutdown"))
      /\ ups = 0 => srvQueue = << >> /\ ~registered /\ upc = "idle"
      /\ ups = 0 /\ ~inMap /\ server = "alive" => ioQueue = << >>
      /\ revents # {} => registered
      /\ ClosesOnLoop => upc \in {"idle", "send"}
      /\ created \in Messages \cup {0}
  BY DEF StreamInv, ControlInv, ControlTypes, QueueInv, QueueTypes
<1> USE <1>0 DEF channel, socket, world, queues, owners, user, history
<1>1. CASE UNCHANGED <<ioQueue, srvQueue, ups, env, server, inMap>>
  BY <1>1 DEF QueueInv, QueueTypes, ClosesOnLoop, Ordered, Queued
<1>2. CASE HandleHup \/ HandleEof
  BY <1>2, CloseKeepsQueue DEF HandleHup, HandleEof, HandleClose
<1>3. CASE HandleWrite
  <2>1. ioQueue' = ioQueue \/ ioQueue' = Append(ioQueue, Fn("writeComplete", 0))
    BY <1>3 DEF HandleWrite
  <2>2. ups # 0 /\ UNCHANGED <<srvQueue, ups, env>>
    BY <1>3 DEF HandleWrite
  <2>3. QED
    BY <2>1, <2>2, QueueGrows
<1>4. CASE RunConnectEstablished
  <2>1. /\ ups = 0 /\ ups' = 1 /\ ioQueue' = Tail(ioQueue) /\ UNCHANGED <<srvQueue, env>>
        /\ Ordered(Tail(ioQueue), 1)
    BY <1>4, RunOldest DEF RunConnectEstablished, RunFunctor, ConnectEstablished
  <2>2. /\ Tail(ioQueue) \in Seq(Functor)
        /\ ClosesOnLoop => ~Queued(Tail(ioQueue), "shutdown")
    BY <1>4, RunKeepsQueue DEF RunConnectEstablished
  <2>3. QED
    BY <2>1, <2>2 DEF QueueInv, QueueTypes, ClosesOnLoop, Ordered, Queued
<1>5. CASE RunSend
  <2>1. /\ ioQueue' = Tail(ioQueue) \/ ioQueue' = Append(Tail(ioQueue), Fn("writeComplete", 0))
        /\ UNCHANGED <<srvQueue, ups, env, inMap, server>>
    BY Zenon, <1>5 DEF RunSend, SendInLoop
  <2>2. ups = 1
    BY <1>5, RunOldest DEF RunSend, RunFunctor
  <2>3. /\ Tail(ioQueue) \in Seq(Functor) /\ Ordered(Tail(ioQueue), ups)
        /\ ClosesOnLoop => ~Queued(Tail(ioQueue), "shutdown")
    BY <1>5, RunKeepsQueue DEF RunSend
  <2>4. \/ ioQueue' = Tail(ioQueue)
        \/ \E op \in {"forceClose", "writeComplete", "destroyed"}, m \in Messages \cup {0} :
              ioQueue' = Append(Tail(ioQueue), Fn(op, m))
    BY Zenon, <2>1
  <2>5. ups # 0 /\ srvQueue' \in Seq(Functor)
    BY <2>1, <2>2
  <2>6. QED
    BY Zenon, <2>1, <2>3, <2>4, <2>5, QueueGrows
<1>6. CASE RunShutdown
  BY Zenon, <1>6, RunKeepsQueue, QueueGrows DEF RunShutdown
<1>7. CASE RunForceClose
  <2>1. CASE state_ \in {"KConnected", "KDisconnecting"} /\ HandleClose(Tail(ioQueue))
    BY Zenon, <1>7, <2>1, RunKeepsQueue, CloseKeepsQueue DEF RunForceClose, HandleClose
  <2>2. CASE ioQueue' = Tail(ioQueue) /\ UNCHANGED <<srvQueue, inMap>>
    BY Zenon, <1>7, <2>2, RunKeepsQueue, QueueGrows DEF RunForceClose
  <2>3. QED
    BY <1>7, <2>1, <2>2 DEF RunForceClose
<1>8. CASE RunDestroyed
  BY Zenon, <1>8, RunKeepsQueue, QueueGrows DEF RunDestroyed, ConnnectDestroyed
<1>9. CASE RunWriteComplete
  BY Zenon, <1>9, RunKeepsQueue, QueueGrows DEF RunWriteComplete
<1>10. CASE LoopSend
  <2>1. /\ ioQueue' = ioQueue \/ ioQueue' = Append(ioQueue, Fn("writeComplete", 0))
        /\ UNCHANGED <<srvQueue, ups, env>> /\ ups # 0
    BY Zenon, <1>10 DEF LoopSend, SendInLoop, MayCall
  <2>2. QED
    BY <2>1, QueueGrows
<1>11. CASE LoopForceClose
  BY <1>11, QueueGrows DEF LoopForceClose
<1>12. CASE ThreadQueues("send", "send")
  <2>1. /\ created' \in Nat \ {0} /\ created' \in Messages
        /\ ups = 1 /\ UNCHANGED <<srvQueue, ups, env, inMap, server>>
        /\ ioQueue' = Append(ioQueue, Fn("send", created'))
    BY <1>12, ControlStep DEF ThreadQueues, ControlInv, ControlTypes, Messages
  <2>2. QED
    BY <2>1, SendKeepsQueue
<1>13. CASE ThreadQueues("shutdown2", "shutdown")
  <2>1. /\ ioQueue' = Append(ioQueue, Fn("shutdown", created)) /\ ~ClosesOnLoop
        /\ ups = 1 /\ UNCHANGED <<srvQueue, ups, env, inMap, server>>
    BY <1>13 DEF ThreadQueues
  <2>2. ioQueue' \in Seq(Functor) /\ Ordered(ioQueue', ups)
    BY <2>1, AddFunctor
  <2>3. QED
    BY <2>1, <2>2 DEF QueueInv, QueueTypes, ClosesOnLoop, Ordered
<1>14. CASE ThreadQueues("forceClose2", "forceClose")
  BY <1>14, QueueGrows DEF ThreadQueues
<1>15. CASE NewConnection
  <2>1. CASE env.sameLoop /\ ConnectEstablished(ioQueue)
    <3>1. ioQueue' = << >> /\ srvQueue' = << >> /\ ups' = 1
      BY <1>15, <2>1 DEF NewConnection, ConnectEstablished
    <3>2. QED
      BY <3>1 DEF QueueInv, QueueTypes, Ordered, Queued
  <2>2. CASE ioQueue' = Append(ioQueue, Fn("connectEstablished", 0)) /\ UNCHANGED ups
    <3>1. /\ ioQueue' = Append(<< >>, Fn("connectEstablished", 0)) /\ srvQueue' = << >>
          /\ ups = 0 /\ ups' = 0 /\ inMap'
      BY <1>15, <2>2 DEF NewConnection
    <3>2. QED
      BY <3>1, FirstFunctor DEF QueueInv, QueueTypes, Ordered, Queued
  <2>3. QED
    BY <1>15, <2>1, <2>2 DEF NewConnection
<1>16. CASE RemoveConnectionInLoop
  BY <1>16, QueueGrows DEF RemoveConnectionInLoop
<1>17. CASE DestroyServer
  BY <1>17, QueueGrows DEF DestroyServer, ConnnectDestroyed
<1>18. CASE IoLoopQuits
  BY <1>18 DEF IoLoopQuits, QueueInv, QueueTypes, ClosesOnLoop, Ordered, Queued
<1>19. QED
  <2>1. ASSUME Poll \/ HandleData \/ LoopShutdown \/ ThreadSetsState \/ Release \/ PeerCloses
               \/ UNCHANGED vars \/ \E call \in CallNames : ThreadCall(call)
        PROVE  UNCHANGED <<ioQueue, srvQueue, ups, env, server, inMap>>
    BY Zenon, <2>1 DEF Poll, HandleData, LoopShutdown, ThreadSetsState, Release, PeerCloses, vars,
                ThreadCall
  <2>2. QED
    BY Zenon, <1>1, <1>2, <1>3, <1>4, <1>5, <1>6, <1>7, <1>8, <1>9, <1>10, <1>11, <1>12, <1>13,
       <1>14, <1>15, <1>16, <1>17, <1>18, <2>1
       DEF Next, Handlers, Functors, LoopCalls, ThreadGoesOn

-----------------------------------------------------------------------------
(* Every step keeps SocketInv.                                             *)

LEMMA SocketStep == StreamInv /\ [Next]_vars => SocketInv'
<1> SUFFICES ASSUME StreamInv, [Next]_vars PROVE SocketInv'
  OBVIOUS
<1>0. /\ SocketInv /\ ups \in {0, 1} /\ (state_ = "KConnecting" <=> ups = 0)
      /\ ups = 0 => upc = "idle"
      /\ ClosesOnLoop => upc \in {"idle", "send"}
      /\ fin \in BOOLEAN /\ state_ \in States
  BY DEF StreamInv, ControlInv, ControlTypes
<1> USE <1>0 DEF channel, socket, world, queues, owners, user, history
<1>1. ASSUME UNCHANGED <<socket, env, ups>>,
             \/ UNCHANGED <<state_, events_>>
             \/ state_' = "KDisconnected"
             \/ /\ state_ \in {"KConnected", "KDisconnecting"}
                /\ UNCHANGED events_
             \/ ~ClosesOnLoop
      PROVE  SocketInv'
  BY <1>1 DEF SocketInv, SocketTypes, StreamIntact, WatchesOutput, IsWriting, ClosesOnLoop
<1>2. ASSUME NEW q, ConnectEstablished(q), ups = 0, UNCHANGED <<socket, env>> PROVE SocketInv'
  BY <1>2 DEF ConnectEstablished, SocketInv, SocketTypes, StreamIntact, WatchesOutput, IsWriting,
              ClosesOnLoop
<1>3. ASSUME ShutdownInLoop, UNCHANGED <<events_, outputBuffer_, wire, faulted, taken, env, ups>>,
             \/ ~ClosesOnLoop
             \/ state_ = "KConnected" /\ state_' = "KDisconnecting"
      PROVE  SocketInv'
  BY <1>3 DEF ShutdownInLoop, SocketInv, SocketTypes, StreamIntact, WatchesOutput, IsWriting,
              ClosesOnLoop
<1>4. CASE HandleHup \/ HandleEof
  BY <1>1, <1>4 DEF HandleHup, HandleEof, HandleClose
<1>5. CASE HandleWrite
  BY <1>5, WriteKeepsStream
<1>6. CASE RunConnectEstablished
  <2>1. ups = 0
    BY <1>6, RunOldest DEF RunConnectEstablished, RunFunctor, StreamInv, QueueInv, QueueTypes
  <2>2. QED
    BY <1>2, <1>6, <2>1 DEF RunConnectEstablished
<1>7. CASE RunSend
  <2>1. Head(ioQueue).msg \in Messages /\ ups = 1
    BY <1>7, RunOldest DEF RunSend, RunFunctor, StreamInv, QueueInv, QueueTypes
  <2>2. SendInLoop(Head(ioQueue).msg, Tail(ioQueue)) /\ UNCHANGED <<env, state_, ups>>
    BY <1>7 DEF RunSend
  <2>3. QED
    BY <2>1, <2>2, SendKeepsStream
<1>8. CASE RunShutdown
  <2>1. ~ClosesOnLoop
    BY <1>8, RunOldest DEF RunShutdown, RunFunctor, StreamInv, QueueInv, QueueTypes
  <2>2. QED
    BY <1>3, <1>8, <2>1 DEF RunShutdown
<1>9. CASE RunForceClose
  BY <1>1, <1>9 DEF RunForceClose, HandleClose
<1>10. CASE RunDestroyed
  BY <1>1, <1>10 DEF RunDestroyed, ConnnectDestroyed
<1>11. CASE LoopSend
  <2>1. created' \in Messages
    BY <1>11, ControlStep, EnvironmentFacts
       DEF LoopSend, Messages, StreamInv, ControlInv, ControlTypes
  <2>2. SendInLoop(created', ioQueue) /\ UNCHANGED <<env, state_, ups>> /\ ups = 1
    BY Zenon, <1>11 DEF LoopSend, MayCall
  <2>3. QED
    BY <2>1, <2>2, SendKeepsStream
<1>12. CASE LoopShutdown
  BY <1>3, <1>12 DEF LoopShutdown
<1>13. CASE LoopForceClose
  BY <1>1, <1>13 DEF LoopForceClose
<1>14. CASE ThreadSetsState
  BY <1>1, <1>14 DEF ThreadSetsState
<1>15. CASE NewConnection
  BY <1>1, <1>2, <1>15 DEF NewConnection
<1>16. CASE DestroyServer
  BY <1>1, <1>16 DEF DestroyServer, ConnnectDestroyed
<1>17. QED
  <2>1. ASSUME Poll \/ HandleData \/ Release \/ PeerCloses \/ RunWriteComplete
               \/ RemoveConnectionInLoop \/ IoLoopQuits \/ UNCHANGED vars
               \/ (\E call \in CallNames : ThreadCall(call))
               \/ (\E from, op \in UserPCs : ThreadQueues(from, op))
        PROVE  UNCHANGED <<socket, env, ups, state_, events_>>
    BY Zenon, <2>1 DEF Poll, HandleData, Release, PeerCloses, RunWriteComplete, vars,
          RemoveConnectionInLoop, IoLoopQuits, ThreadCall, ThreadQueues
  <2>2. ASSUME ThreadGoesOn
        PROVE  ThreadSetsState \/ \E from, op \in UserPCs : ThreadQueues(from, op)
    BY <2>2 DEF ThreadGoesOn, UserPCs, CallNames
  <2>3. QED
    BY Zenon, <1>1, <1>4, <1>5, <1>6, <1>7, <1>8, <1>9, <1>10, <1>11, <1>12, <1>13,
       <1>14, <1>15, <1>16, <2>1, <2>2 DEF Next, Handlers, Functors, LoopCalls

LEMMA StreamInit == Init => StreamInv
<1> SUFFICES ASSUME Init PROVE StreamInv
  OBVIOUS
<1>1. << >> \in Seq(Messages) /\ << >> \in Seq(Functor) /\ << >> \o << >> = << >>
  OBVIOUS
<1>2. env \in Environments /\ env.messages \in Nat
  BY EnvironmentFacts DEF Init
<1>3. ControlInv
  <2>1. ControlTypes
    BY Zenon, <1>2 DEF Init, ControlTypes, States, UserPCs
  <2>2. QED
    BY <1>2, <2>1 DEF Init, ControlInv
<1>4. QueueInv
  BY <1>1 DEF Init, QueueInv, QueueTypes, Ordered, Queued
<1>5. SocketInv
  BY <1>1 DEF Init, SocketInv, SocketTypes, StreamIntact, WatchesOutput
<1>6. QED
  BY <1>3, <1>4, <1>5 DEF StreamInv

LEMMA StreamAlways == Spec => []StreamInv
<1>1. StreamInv /\ [Next]_vars => StreamInv'
  BY ControlStep, QueueStep, SocketStep DEF StreamInv
<1>2. QED
  BY <1>1, StreamInit, PTL DEF Spec

(***************************************************************************)
(* Whatever is sent and by whom: what the socket took and what is buffered *)
(* is what was sent, in order, as long as no write has failed; and where   *)
(* no other thread closes the connection (ClosesOnLoop) the FIN of         *)
(* shutdown() never overtakes it.                                          *)
(***************************************************************************)
THEOREM StreamStaysIntact == Spec => []StreamIntact
<1>1. StreamInv => StreamIntact
  BY DEF StreamInv, SocketInv
<1>2. QED
  BY <1>1, StreamAlways, PTL

(***************************************************************************)
(* POLLOUT is watched exactly while something is buffered.                 *)
(***************************************************************************)
THEOREM WatchesWhatIsBuffered == Spec => []WritingIffBuffered
<1>1. StreamInv => WritingIffBuffered
  BY DEF StreamInv, ControlInv, QueueInv, SocketInv, WritingIffBuffered, TypeOK
<1>2. QED
  BY <1>1, StreamAlways, PTL

-----------------------------------------------------------------------------
(* Every step keeps OwnerInv.                                              *)

LEMMA OwnersKept ==
  ASSUME OwnerInv, UNCHANGED env,
         \A k \in 1..Len(srvQueue') : srvQueue'[k].op = "remove",
         upc' # "idle" => userRef', userRef' => ups' = 1,
         \A op \in {"send", "shutdown"} :
           env.keepsRef /\ Queued(ioQueue', op) => Queued(ioQueue, op) /\ (userRef => userRef'),
         Queued(ioQueue', "connectEstablished") =>
           Queued(ioQueue, "connectEstablished") /\ (inMap' \/ Queued(ioQueue', "destroyed"))
  PROVE  OwnerInv'
BY DEF OwnerInv, Queued

LEMMA CloseKeepsOwners ==
  ASSUME StreamInv, OwnerInv, NEW q \in Seq(Functor), ups = 1,
         \A op : Queued(q, op) => Queued(ioQueue, op),
         RemoveConnection(q), UNCHANGED <<user, env, ups>>
  PROVE  OwnerInv'
<1>1. ~Queued(ioQueue, "connectEstablished")
  BY DEF StreamInv, QueueInv, Ordered, Queued
<1>2. UNCHANGED <<upc, userRef, env, ups>>
  BY DEF user
<1>3. \A k \in 1..Len(srvQueue') : srvQueue'[k].op = "remove"
  <2>1. CASE srvQueue' = srvQueue
    BY <2>1 DEF OwnerInv
  <2>2. CASE srvQueue' = Append(srvQueue, Fn("remove", 0))
    <3>1. srvQueue \in Seq(Functor)
      BY DEF StreamInv, QueueInv, QueueTypes
    <3>2. QED
      BY <2>2, <3>1 DEF OwnerInv, Fn
  <2>3. QED
    BY <2>1, <2>2 DEF RemoveConnection
<1>4. \A op \in {"send", "shutdown", "connectEstablished"} : Queued(ioQueue',
     op) => Queued(ioQueue, op)
  <2>1. CASE ioQueue' = q
    BY <2>1
  <2>2. CASE ioQueue' = Append(q, Fn("destroyed", 0))
    BY Zenon, <2>2, QueuedAfterAdd DEF SharedOps
  <2>3. QED
    BY <2>1, <2>2 DEF RemoveConnection
<1>5. QED
  BY Zenon, <1>1, <1>2, <1>3, <1>4, OwnersKept DEF OwnerInv

LEMMA OwnerStep == StreamInv /\ OwnerInv /\ [Next]_vars => OwnerInv'
<1> SUFFICES ASSUME StreamInv, OwnerInv, [Next]_vars PROVE OwnerInv'
  OBVIOUS
<1>0. /\ ups \in {0, 1} /\ (state_ = "KConnecting" <=> ups = 0)
      /\ ioQueue \in Seq(Functor) /\ srvQueue \in Seq(Functor)
      /\ ups = 0 => srvQueue = << >> /\ ~registered /\ upc = "idle"
      /\ revents # {} => registered
      /\ ups = 0 /\ ~inMap /\ server = "alive" => ioQueue = << >>
      /\ upc # "idle" => userRef
      /\ userRef => ups = 1
      /\ \A k \in 1..Len(srvQueue) : srvQueue[k].op = "remove"
      /\ created \in Messages \cup {0}
  BY DEF StreamInv, ControlInv, ControlTypes, QueueInv, QueueTypes, OwnerInv
<1>a. /\ ups = 1 => ~Queued(ioQueue, "connectEstablished")
      /\ ups = 0 => ~Queued(ioQueue, "send")
  BY DEF StreamInv, QueueInv, Ordered, Queued
<1>b. \A op : RunFunctor(op) =>
        \A o : Queued(ioQueue, o) <=> op = o \/ Queued(Tail(ioQueue), o)
  BY <1>0, QueuedBeforeRun DEF RunFunctor
<1>c. Queued(ioQueue, "connectEstablished") =>
        ~env.sameLoop /\ (inMap \/ Queued(ioQueue, "destroyed"))
  BY Zenon DEF OwnerInv
<1> USE <1>0 DEF channel, socket, world, queues, owners, user, history
<1>1. ASSUME UNCHANGED <<srvQueue, upc, env, inMap, ups>>, userRef' = userRef,
             NEW op \in {"send", "shutdown", "forceClose", "writeComplete"}, RunFunctor(op),
             ioQueue' = Tail(ioQueue)
      PROVE  OwnerInv'
  BY <1>1, <1>b, <1>c, OwnersKept
<1>2. ASSUME UNCHANGED <<srvQueue, env, ups>>, userRef' = userRef, upc' = "idle" \/ upc' = upc,
             NEW op \in {"forceClose", "writeComplete", "destroyed"}, NEW m \in Messages \cup {0},
             ioQueue' = Append(ioQueue, Fn(op, m)), inMap' = inMap \/ op = "destroyed"
      PROVE  OwnerInv'
  <2>1. \A o : Queued(ioQueue', o) <=> Queued(ioQueue, o) \/ o = op
    BY Zenon, <1>2, QueuedAfterAdd DEF SharedOps
  <2>2. QED
    BY <1>2, <1>c, <2>1, OwnersKept
<1>3. CASE UNCHANGED <<ioQueue, srvQueue, upc, userRef, env, inMap, ups>>
  BY <1>3 DEF OwnerInv, Queued
<1>4. CASE HandleHup \/ HandleEof
  BY <1>4, CloseKeepsOwners DEF HandleHup, HandleEof, HandleClose
<1>5. CASE HandleWrite
  BY Zenon, <1>2, <1>3, <1>5 DEF HandleWrite
<1>6. CASE RunConnectEstablished
  <2>1. /\ ups = 0 /\ ups' = 1 /\ UNCHANGED <<srvQueue, upc, env, inMap>>
        /\ ioQueue' = Tail(ioQueue)
    BY <1>6, RunOldest DEF RunConnectEstablished, RunFunctor, ConnectEstablished, StreamInv,
         QueueInv
  <2>2. ~Queued(Tail(ioQueue), "connectEstablished")
    BY <1>6, RunOldest DEF RunConnectEstablished, RunFunctor, StreamInv, QueueInv
  <2>3. env.keepsRef => ~Queued(ioQueue, "send") /\ ~Queued(ioQueue, "shutdown")
    BY <2>1 DEF OwnerInv
  <2>4. \A o : Queued(Tail(ioQueue), o) => Queued(ioQueue, o)
    BY <1>6, <1>b DEF RunConnectEstablished
  <2>5. QED
    BY Zenon, <2>1, <2>2, <2>3, <2>4, OwnersKept
<1>7. CASE RunSend
  <2>1. /\ ioQueue' = Tail(ioQueue) \/ ioQueue' = Append(Tail(ioQueue), Fn("writeComplete", 0))
        /\ UNCHANGED <<srvQueue, upc, userRef, env, inMap, ups>>
    BY Zenon, <1>7 DEF RunSend, SendInLoop
  <2>2. Tail(ioQueue) \in Seq(Functor) /\ ups = 1
    BY <1>7, RunOldest DEF RunSend, RunFunctor, StreamInv, QueueInv
  <2>3. \A o : o # "writeComplete" /\ Queued(ioQueue', o) => Queued(ioQueue, o)
    <3>1. \A o : Queued(Tail(ioQueue), o) => Queued(ioQueue, o)
      BY Zenon, <1>7, <1>b DEF RunSend
    <3>2. \A o : Queued(Append(Tail(ioQueue), Fn("writeComplete", 0)), o) <=>
                  Queued(Tail(ioQueue), o) \/ o = "writeComplete"
      BY Zenon, <2>2, QueuedAfterAdd DEF SharedOps
    <3>3. QED
      BY Zenon, <2>1, <3>1, <3>2
  <2>4. QED
    BY <1>a, <2>1, <2>2, <2>3, OwnersKept
<1>8. CASE RunShutdown
  BY <1>1, <1>8 DEF RunShutdown
<1>9. CASE RunForceClose
  <2>1. CASE state_ \in {"KConnected", "KDisconnecting"} /\ HandleClose(Tail(ioQueue))
    <3>1. Tail(ioQueue) \in Seq(Functor) /\ \A o : Queued(Tail(ioQueue), o) => Queued(ioQueue, o)
      BY <1>9, <1>b, RunOldest DEF RunForceClose, RunFunctor, StreamInv, QueueInv
    <3>2. QED
      BY Zenon, <1>9, <2>1, <3>1, CloseKeepsOwners DEF RunForceClose, HandleClose
  <2>2. CASE ioQueue' = Tail(ioQueue) /\ UNCHANGED <<srvQueue, inMap>>
    BY <1>1, <1>9, <2>2 DEF RunForceClose
  <2>3. QED
    BY <1>9, <2>1, <2>2 DEF RunForceClose
<1>10. CASE RunDestroyed
  <2>1. /\ ioQueue' = Tail(ioQueue) /\ UNCHANGED <<srvQueue, upc, userRef, env, inMap, ups>>
        /\ \A o : Queued(Tail(ioQueue), o) => Queued(ioQueue, o)
    BY <1>10, <1>b DEF RunDestroyed, ConnnectDestroyed
  <2>2. ~Queued(Tail(ioQueue), "connectEstablished")
    BY <1>10, RunOldest DEF RunDestroyed, RunFunctor, StreamInv, QueueInv
  <2>3. QED
    BY <2>1, <2>2, OwnersKept
<1>11. CASE RunWriteComplete
  BY <1>1, <1>11 DEF RunWriteComplete
<1>12. CASE LoopSend
  <2>1. /\ ioQueue' = ioQueue \/ ioQueue' = Append(ioQueue, Fn("writeComplete", 0))
        /\ UNCHANGED <<srvQueue, upc, userRef, env, inMap, ups>>
    BY Zenon, <1>12 DEF LoopSend, SendInLoop
  <2>2. QED
    BY <1>2, <1>3, <2>1
<1>13. CASE LoopForceClose
  BY <1>2, <1>13 DEF LoopForceClose
<1>14. ASSUME NEW call \in CallNames, ThreadCall(call) PROVE OwnerInv'
  BY Zenon, <1>14 DEF ThreadCall, OwnerInv, Queued
<1>15. CASE ThreadSetsState
  BY Zenon, <1>15 DEF ThreadSetsState, OwnerInv, Queued
<1>16. ASSUME NEW from, NEW op \in {"send", "shutdown", "forceClose"}, from # "idle",
              ThreadQueues(from, op), created' \in Messages \cup {0}
       PROVE  OwnerInv'
  <2>1. /\ ioQueue' = Append(ioQueue, Fn(op, created')) /\ upc' = "idle" /\ userRef
        /\ UNCHANGED <<srvQueue, userRef, env, inMap, ups>>
    BY Zenon, <1>16 DEF ThreadQueues
  <2>2. \A o : Queued(ioQueue', o) <=> Queued(ioQueue, o) \/ o = op
    BY <1>16, <2>1, QueuedAfterAdd DEF RawOps, SharedOps
  <2>3. QED
    BY Zenon, <1>16, <2>1, <2>2 DEF OwnerInv, Queued
<1>17. CASE Release
  <2>1. UNCHANGED <<ioQueue, srvQueue, env, inMap, ups, upc>> /\ userRef' = FALSE /\ upc = "idle"
    BY <1>17 DEF Release
  <2>2. env.keepsRef => ~Queued(ioQueue, "send") /\ ~Queued(ioQueue, "shutdown")
    BY <1>17 DEF Release
  <2>3. QED
    BY <1>c, <2>1, <2>2, OwnersKept
<1>18. CASE NewConnection
  <2>1. inMap' /\ ups = 0 /\ ioQueue = << >> /\ UNCHANGED <<srvQueue, env, upc>>
    BY Zenon, <1>18 DEF NewConnection
  <2>2. CASE env.sameLoop /\ ConnectEstablished(ioQueue)
    <3>1. ioQueue' = << >> /\ ups' = 1
      BY <2>1, <2>2 DEF ConnectEstablished
    <3>2. QED
      BY <2>1, <3>1 DEF OwnerInv, Queued
  <2>3. CASE /\ ~env.sameLoop /\ ioQueue' = Append(ioQueue, Fn("connectEstablished", 0))
             /\ UNCHANGED <<state_, channel, userRef, ups>>
    <3>1. \A op : Queued(ioQueue', op) <=> op = "connectEstablished"
      BY <2>1, <2>3, FirstFunctor
    <3>2. QED
      BY Zenon, <2>1, <2>3, <3>1 DEF OwnerInv, Queued
  <2>4. QED
    BY <1>18, <2>2, <2>3 DEF NewConnection
<1>19. CASE RemoveConnectionInLoop
  <2>1. /\ srvQueue # << >> /\ ups = 1 /\ srvQueue' = Tail(srvQueue)
        /\ ioQueue' = Append(ioQueue, Fn("destroyed", 0))
        /\ UNCHANGED <<env, upc, userRef, ups>>
    BY Zenon, <1>19 DEF RemoveConnectionInLoop
  <2>2. \A op : Queued(ioQueue', op) <=> Queued(ioQueue, op) \/ op = "destroyed"
    BY Zenon, <2>1, QueuedAfterAdd DEF SharedOps
  <2>3. \A k \in 1..Len(srvQueue') : srvQueue'[k].op = "remove"
    BY <2>1
  <2>4. QED
    BY Zenon, <1>a, <2>1, <2>2, <2>3, OwnersKept
<1>20. CASE DestroyServer
  <2>1. UNCHANGED <<srvQueue, env, upc, userRef, ups>>
    BY Zenon, <1>20 DEF DestroyServer
  <2>2. CASE inMap /\ ~env.sameLoop /\ ioQueue' = Append(ioQueue, Fn("destroyed", 0))
    BY <1>2, <2>1, <2>2
  <2>3. CASE ioQueue' = ioQueue /\ (~inMap \/ env.sameLoop)
    BY Zenon, <1>c, <2>1, <2>3, OwnersKept
  <2>4. QED
    BY <1>20, <2>2, <2>3 DEF DestroyServer, ConnnectDestroyed
<1>21. CASE IoLoopQuits
  BY <1>21 DEF IoLoopQuits, OwnerInv, Queued
<1>22. QED
  <2>1. ASSUME Poll \/ HandleData \/ LoopShutdown \/ PeerCloses \/ UNCHANGED vars
        PROVE  UNCHANGED <<ioQueue, srvQueue, upc, userRef, env, inMap, ups>>
    BY Zenon, <2>1 DEF Poll, HandleData, LoopShutdown, PeerCloses, vars
  <2>2. ASSUME ThreadGoesOn PROVE OwnerInv'
    <3>1. created' \in Messages \cup {0}
      BY ControlStep DEF ControlInv, ControlTypes
    <3>2. QED
      BY <1>15, <1>16, <2>2, <3>1 DEF ThreadGoesOn
  <2>3. QED
    BY Zenon, <1>3, <1>4, <1>5, <1>6, <1>7, <1>8, <1>9, <1>10, <1>11, <1>12, <1>13, <1>14,
       <1>17, <1>18, <1>19, <1>20, <1>21, <2>1, <2>2 DEF Next, Handlers, Functors, LoopCalls

-----------------------------------------------------------------------------
(* Every step keeps LifeInv.                                               *)

(* KeptWhileUp after a step, with Queued kept as it is.                    *)
LEMMA KeptNext ==
  KeptWhileUp' <=>
    /\ state_' \in {"KConnected", "KDisconnecting"} => inMap'
    /\ env'.destroysServer => state_' # "KDisconnecting" /\ ~Queued(ioQueue', "forceClose")
    /\ srvQueue' # << >> \/ Queued(ioQueue', "destroyed") => state_' = "KDisconnected"
    /\ registered' => inMap' \/ srvQueue' # << >> \/ Queued(ioQueue', "destroyed")
BY DEF KeptWhileUp, Queued

LEMMA LifeSame ==
  ASSUME KeptWhileUp, UNCHANGED <<state_, registered, inMap, env, srvQueue>>,
         Queued(ioQueue', "forceClose") => Queued(ioQueue, "forceClose"),
         Queued(ioQueue', "destroyed") <=> Queued(ioQueue, "destroyed")
  PROVE  KeptWhileUp'
BY KeptNext DEF KeptWhileUp

LEMMA CloseKeepsLife ==
  ASSUME StreamInv, KeptWhileUp, NEW q \in Seq(Functor), HandleClose(q), UNCHANGED <<registered,
       env>>,
         \A op : Queued(q, op) => Queued(ioQueue, op)
  PROVE  KeptWhileUp'
<1>1. /\ state_' = "KDisconnected"
      /\ env'.destroysServer => ~Queued(q, "forceClose")
  BY DEF HandleClose, KeptWhileUp
<1>2. CASE ioQueue' = Append(q, Fn("destroyed", 0))
  <2>1. \A op : Queued(ioQueue', op) <=> Queued(q, op) \/ op = "destroyed"
    BY <1>2, QueuedAfterAdd DEF SharedOps
  <2>2. QED
    BY <1>1, <2>1, KeptNext
<1>3. CASE srvQueue' = Append(srvQueue, Fn("remove", 0)) /\ ioQueue' = q
  <2>1. srvQueue' # << >>
    BY SMTT(30), <1>3 DEF StreamInv, QueueInv, QueueTypes
  <2>2. QED
    BY <1>1, <1>3, <2>1, KeptNext
<1>4. QED
  BY <1>2, <1>3 DEF HandleClose, RemoveConnection

LEMMA KeptStep ==
  ASSUME StreamInv, OwnerInv, LifeInv, ClosesOnLoop, ServerEndsIdle, Next
  PROVE  KeptWhileUp'
<1>0. /\ KeptWhileUp /\ (server = "dead" => env.destroysServer)
      /\ ups \in {0, 1} /\ (state_ = "KConnecting" <=> ups = 0) /\ state_ \in States
      /\ ioQueue \in Seq(Functor) /\ srvQueue \in Seq(Functor)
      /\ ups = 0 => srvQueue = << >>
      /\ ups = 0 /\ ~inMap /\ server = "alive" => ioQueue = << >>
      /\ upc \in {"idle", "send"} /\ created \in Messages \cup {0}
  BY DEF StreamInv, ControlInv, ControlTypes, QueueInv, QueueTypes, LifeInv
<1>a. env.destroysServer => env.sameLoop /\ "shutdown" \notin env.calls
     /\ "forceClose" \notin env.calls
  BY DEF ServerEndsIdle
<1>b. \A op : RunFunctor(op) =>
        /\ Tail(ioQueue) \in Seq(Functor)
        /\ \A o : Queued(ioQueue, o) <=> op = o \/ Queued(Tail(ioQueue), o)
  BY SMTT(30), <1>0, QueuedBeforeRun DEF RunFunctor
<1> USE <1>0 DEF channel, socket, world, queues, owners, user, history
<1>1. CASE UNCHANGED <<ioQueue, state_, registered, inMap, env, srvQueue>>
  BY <1>1, LifeSame
<1>2. ASSUME UNCHANGED <<state_, registered, inMap, env, srvQueue>>, NEW op \in {"send",
     "writeComplete"},
             NEW m \in Messages \cup {0}, ioQueue' = Append(ioQueue, Fn(op, m))
      PROVE  KeptWhileUp'
  <2>1. \A o : Queued(ioQueue', o) <=> Queued(ioQueue, o) \/ o = op
    BY <1>2, QueuedAfterAdd DEF RawOps, SharedOps
  <2>2. QED
    BY <1>2, <2>1, LifeSame
<1>3. ASSUME UNCHANGED <<state_, registered, inMap, env, srvQueue>>,
             NEW op \in {"send", "writeComplete", "shutdown", "forceClose"}, RunFunctor(op),
             ioQueue' = Tail(ioQueue)
      PROVE  KeptWhileUp'
  BY <1>3, <1>b, LifeSame
<1>4. CASE HandleHup \/ HandleEof
  BY <1>4, CloseKeepsLife DEF HandleHup, HandleEof
<1>5. CASE HandleWrite
  BY Zenon, <1>1, <1>2, <1>5 DEF HandleWrite
<1>6. CASE RunConnectEstablished
  <2>1. /\ ups = 0 /\ state_' = "KConnected" /\ UNCHANGED <<srvQueue, env, inMap>>
        /\ ioQueue' = Tail(ioQueue)
    BY Zenon, <1>6, RunOldest DEF RunConnectEstablished, RunFunctor, ConnectEstablished,
         StreamInv, QueueInv
  <2>2. /\ Queued(ioQueue, "connectEstablished")
        /\ \A o : Queued(Tail(ioQueue), o) => Queued(ioQueue, o)
    BY <1>6, <1>b DEF RunConnectEstablished
  <2>3. inMap /\ ~Queued(ioQueue, "destroyed")
    BY <2>1, <2>2 DEF OwnerInv, KeptWhileUp
  <2>4. env.destroysServer => ~Queued(ioQueue, "forceClose")
    BY DEF KeptWhileUp
  <2>5. QED
    BY KeptNext, <2>1, <2>2, <2>3, <2>4
<1>7. CASE RunSend
  <2>1. /\ ioQueue' = Tail(ioQueue) \/ ioQueue' = Append(Tail(ioQueue), Fn("writeComplete", 0))
        /\ UNCHANGED <<state_, registered, inMap, env, srvQueue>>
    BY Zenon, <1>7 DEF RunSend, SendInLoop
  <2>2. /\ Tail(ioQueue) \in Seq(Functor)
        /\ \A o : Queued(ioQueue, o) <=> "send" = o \/ Queued(Tail(ioQueue), o)
    BY <1>7, <1>b DEF RunSend
  <2>3. \A o : Queued(Append(Tail(ioQueue), Fn("writeComplete", 0)), o) <=>
                Queued(Tail(ioQueue), o) \/ o = "writeComplete"
    BY Zenon, <2>2, QueuedAfterAdd DEF SharedOps
  <2>4. QED
    BY Zenon, <2>1, <2>2, <2>3, LifeSame
<1>8. CASE RunShutdown
  BY <1>3, <1>8 DEF RunShutdown
<1>9. CASE RunForceClose
  <2>1. CASE HandleClose(Tail(ioQueue))
    BY Zenon, <1>9, <1>b, <2>1, CloseKeepsLife DEF RunForceClose
  <2>2. CASE ioQueue' = Tail(ioQueue) /\ UNCHANGED <<state_, srvQueue, inMap>>
    BY <1>3, <1>9, <2>2 DEF RunForceClose
  <2>3. QED
    BY <1>9, <2>1, <2>2 DEF RunForceClose
<1>10. CASE RunDestroyed
  <2>1. /\ \A o : Queued(Tail(ioQueue), o) => Queued(ioQueue, o)
        /\ Queued(ioQueue, "destroyed")
    BY <1>10, <1>b DEF RunDestroyed
  <2>2. state_ = "KDisconnected" /\ (env.destroysServer => ~Queued(ioQueue, "forceClose"))
    BY <2>1 DEF KeptWhileUp
  <2>3. /\ ioQueue' = Tail(ioQueue) /\ registered' = FALSE
        /\ UNCHANGED <<state_, srvQueue, env, inMap>>
    BY <1>10, <2>2 DEF RunDestroyed, ConnnectDestroyed
  <2>4. QED
    BY KeptNext, <2>1, <2>2, <2>3
<1>11. CASE RunWriteComplete
  BY <1>3, <1>11 DEF RunWriteComplete
<1>12. CASE LoopSend
  <2>1. /\ ioQueue' = ioQueue \/ ioQueue' = Append(ioQueue, Fn("writeComplete", 0))
        /\ UNCHANGED <<state_, registered, inMap, env, srvQueue>>
    BY Zenon, <1>12 DEF LoopSend, SendInLoop
  <2>2. QED
    BY <1>1, <1>2, <2>1
<1>13. CASE LoopShutdown
  <2>1. /\ ~env.destroysServer /\ state_ = "KConnected" /\ state_' = "KDisconnecting"
        /\ UNCHANGED <<ioQueue, registered, inMap, env, srvQueue>>
    BY Zenon, <1>13, <1>a DEF LoopShutdown, MayCall
  <2>2. QED
    BY Zenon, KeptNext, <2>1 DEF KeptWhileUp
<1>14. CASE LoopForceClose
  <2>1. /\ ~env.destroysServer /\ state_ \in {"KConnected", "KDisconnecting"}
        /\ state_' = "KDisconnecting" /\ ioQueue' = Append(ioQueue, Fn("forceClose", 0))
        /\ UNCHANGED <<registered, inMap, env, srvQueue>>
    BY Zenon, <1>14, <1>a DEF LoopForceClose, MayCall
  <2>2. \A o : Queued(ioQueue', o) <=> Queued(ioQueue, o) \/ o = "forceClose"
    BY Zenon, <2>1, QueuedAfterAdd DEF SharedOps
  <2>3. QED
    BY Zenon, KeptNext, <2>1, <2>2 DEF KeptWhileUp
<1>15. CASE ThreadGoesOn
  <2>1. ThreadQueues("send", "send")
    BY Zenon, <1>15 DEF ThreadGoesOn, ThreadSetsState, ThreadQueues
  <2>2. created' \in Messages \cup {0}
    BY ControlStep DEF ControlInv, ControlTypes
  <2>3. QED
    BY <1>2, <2>1, <2>2 DEF ThreadQueues
<1>16. CASE NewConnection
  <2>1. /\ inMap' /\ ups = 0 /\ ioQueue = << >> /\ srvQueue = << >>
        /\ UNCHANGED <<srvQueue, env>>
    BY <1>16 DEF NewConnection
  <2>2. CASE ConnectEstablished(ioQueue)
    <3>1. ~Queued(ioQueue', "destroyed") /\ ~Queued(ioQueue', "forceClose")
         /\ state_' = "KConnected"
      BY SMTT(30), <2>1, <2>2 DEF ConnectEstablished, Queued
    <3>2. QED
      BY KeptNext, <2>1, <3>1
  <2>3. CASE ioQueue' = Append(ioQueue, Fn("connectEstablished", 0)) /\ UNCHANGED <<state_,
       channel>>
    <3>1. \A op : Queued(ioQueue', op) <=> op = "connectEstablished"
      BY <2>1, <2>3, FirstFunctor
    <3>2. QED
      BY KeptNext, <2>1, <2>3, <3>1
  <2>4. QED
    BY <1>16, <2>2, <2>3 DEF NewConnection
<1>17. CASE RemoveConnectionInLoop
  <2>1. /\ srvQueue # << >> /\ ioQueue' = Append(ioQueue, Fn("destroyed", 0))
        /\ UNCHANGED <<state_, registered, env>>
    BY <1>17 DEF RemoveConnectionInLoop
  <2>2. \A op : Queued(ioQueue', op) <=> Queued(ioQueue, op) \/ op = "destroyed"
    BY Zenon, <2>1, QueuedAfterAdd DEF SharedOps
  <2>3. state_ = "KDisconnected" /\ (env.destroysServer => ~Queued(ioQueue, "forceClose"))
    BY <2>1 DEF KeptWhileUp
  <2>4. QED
    BY KeptNext, <2>1, <2>2, <2>3
<1>18. CASE DestroyServer
  <2>1. /\ env.sameLoop /\ env.destroysServer /\ inMap' = FALSE /\ UNCHANGED <<srvQueue, env>>
    BY Zenon, <1>18, <1>a DEF DestroyServer
  <2>2. CASE ConnnectDestroyed(ioQueue)
    <3>1. /\ registered' = FALSE /\ ioQueue' = ioQueue
          /\ state_' = IF state_ = "KConnected" THEN "KDisconnected" ELSE state_
      BY <2>2 DEF ConnnectDestroyed
    <3>2. QED
      BY Zenon, KeptNext, <2>1, <3>1 DEF KeptWhileUp
  <2>3. CASE ~inMap /\ UNCHANGED <<state_, channel, ioQueue>>
    BY Zenon, KeptNext, <2>1, <2>3 DEF KeptWhileUp
  <2>4. QED
    BY <1>18, <2>1, <2>2, <2>3 DEF DestroyServer
<1>19. ~IoLoopQuits
  BY Zenon, <1>a DEF IoLoopQuits
<1>20. QED
  <2>1. ASSUME \/ Poll \/ HandleData \/ Release \/ PeerCloses
               \/ \E call \in CallNames : ThreadCall(call)
        PROVE  UNCHANGED <<ioQueue, state_, registered, inMap, env, srvQueue>>
    BY Zenon, <2>1 DEF Poll, HandleData, Release, PeerCloses, ThreadCall
  <2>2. QED
    BY Zenon, <1>1, <1>4, <1>5, <1>6, <1>7, <1>8, <1>9, <1>10, <1>11, <1>12, <1>13, <1>14,
       <1>15, <1>16, <1>17, <1>18, <1>19, <2>1 DEF Next, Handlers, Functors, LoopCalls

LEMMA LifeStep == StreamInv /\ OwnerInv /\ LifeInv /\ [Next]_vars => LifeInv'
<1> SUFFICES ASSUME StreamInv, OwnerInv, LifeInv, [Next]_vars PROVE LifeInv'
  OBVIOUS
<1>1. CASE UNCHANGED vars
  BY Zenon, <1>1 DEF vars, channel, world, queues, owners, LifeInv, KeptWhileUp, ClosesOnLoop,
       ServerEndsIdle,
              Queued
<1>2. CASE Next
  <2>1. env' = env /\ (server' = server \/ (server' = "dead" /\ env.destroysServer))
    BY Zenon, <1>2 DEF Next, Handlers, Functors, LoopCalls, ThreadGoesOn, Poll, HandleHup,
         HandleData,
       HandleEof, HandleWrite, RunConnectEstablished, RunSend, RunShutdown, RunForceClose,
       RunDestroyed, RunWriteComplete, LoopSend, LoopShutdown, LoopForceClose, ThreadCall,
       ThreadSetsState, ThreadQueues, Release, NewConnection, RemoveConnectionInLoop,
       DestroyServer, IoLoopQuits, PeerCloses, world, owners
  <2>2. ClosesOnLoop /\ ServerEndsIdle => KeptWhileUp'
    BY <1>2, KeptStep
  <2>3. (ClosesOnLoop' <=> ClosesOnLoop) /\ (ServerEndsIdle' <=> ServerEndsIdle)
    BY <2>1 DEF ClosesOnLoop, ServerEndsIdle
  <2>4. QED
    BY <2>1, <2>2, <2>3 DEF LifeInv
<1>3. QED
  BY <1>1, <1>2

LEMMA OwnersAlways == Spec => [](StreamInv /\ OwnerInv /\ LifeInv)
<1>1. Init => OwnerInv /\ LifeInv
  BY DEF Init, OwnerInv, LifeInv, KeptWhileUp, Queued
<1>2. StreamInv /\ [Next]_vars => StreamInv'
  BY ControlStep, QueueStep, SocketStep DEF StreamInv
<1>3. QED
  BY <1>1, <1>2, StreamInit, OwnerStep, LifeStep, PTL DEF Spec

(***************************************************************************)
(* The functors of connectEstablished, send and shutdown, which capture a  *)
(* raw this, find the connection alive when they run, if other threads     *)
(* keep their TcpConnectionPtr while their calls are pending.              *)
(***************************************************************************)
THEOREM RawFunctorsAreSafe == Spec => []RawFunctorsFindConnection
<1>1. StreamInv /\ OwnerInv => RawFunctorsFindConnection
  <2> SUFFICES ASSUME StreamInv, OwnerInv, env.keepsRef, NEW op \in RawOps, RunFunctor(op)
               PROVE  Alive
    BY DEF RawFunctorsFindConnection
  <2>1. Queued(ioQueue, op)
    BY QueuedBeforeRun DEF RunFunctor, StreamInv, QueueInv, QueueTypes
  <2>2. inMap \/ userRef \/ Queued(ioQueue, "destroyed")
    BY <2>1 DEF OwnerInv, RawOps
  <2>3. QED
    BY <2>2 DEF Alive, SharedOps
<1>2. QED
  BY <1>1, OwnersAlways, PTL

(***************************************************************************)
(* Where no other thread closes the connection (ClosesOnLoop) the user is  *)
(* told at most once that it is down.  Where, besides, a server that is    *)
(* destroyed finds it idle on the server's own loop (ServerEndsIdle), its  *)
(* events are off before its channel leaves the poller, the channel has    *)
(* left the poller before the connection is destroyed, and the user has    *)
(* been told by then.                                                      *)
(***************************************************************************)
THEOREM LifeGoesInOrder == Spec => []LifeInOrder
<1>1. StreamInv /\ OwnerInv /\ LifeInv => LifeInOrder
  <2> SUFFICES ASSUME StreamInv, OwnerInv, LifeInv PROVE LifeInOrder
    OBVIOUS
  <2>1. /\ ups \in {0, 1} /\ state_ \in States /\ (state_ = "KConnecting" <=> ups = 0)
        /\ ClosesOnLoop => /\ downs = IF state_ = "KDisconnected" THEN 1 ELSE 0
                           /\ state_ = "KDisconnected" => events_ = {}
        /\ ioQueue \in Seq(Functor) /\ srvQueue \in Seq(Functor)
    BY DEF StreamInv, ControlInv, ControlTypes, QueueInv, QueueTypes
  <2>2. ClosedOnce
    BY <2>1 DEF ClosedOnce
  <2>3. ASSUME ClosesOnLoop, ServerEndsIdle, RunFunctor("destroyed") PROVE events_ = {}
    <3>1. Queued(ioQueue, "destroyed")
      BY <2>1, <2>3, QueuedBeforeRun DEF RunFunctor
    <3>2. QED
      BY <2>1, <2>3, <3>1 DEF LifeInv, KeptWhileUp
  <2>4. ASSUME ClosesOnLoop, ServerEndsIdle, ~Alive PROVE downs = ups /\ ~registered
    <3>1. ~inMap /\ ~Queued(ioQueue, "destroyed") /\ ~Queued(srvQueue, "remove")
      BY <2>4 DEF Alive, SharedOps
    <3>2. srvQueue = << >>
      BY <2>1, <3>1 DEF OwnerInv, Queued
    <3>3. ~registered /\ state_ \notin {"KConnected", "KDisconnecting"}
      BY <2>4, <3>1, <3>2 DEF LifeInv, KeptWhileUp
    <3>4. QED
      BY <2>1, <2>4, <3>3 DEF States
  <2>5. QED
    BY <2>2, <2>3, <2>4 DEF LifeInOrder
<1>2. QED
  BY <1>1, OwnersAlways, PTL
=============================================================================
