---------------------------- MODULE TcpConnection ----------------------------
(***************************************************************************)
(* A TcpConnection, the TcpServer that made it, and the user code that     *)
(* calls it from the connection's IO loop and from another thread.         *)
(*                                                                         *)
(* Each loop is a FIFO queue of functors (module FunctorQueue) and the     *)
(* handlers between which it runs them.  The object is kept alive by       *)
(* shared pointers: the server's map, the user's, and those that functors  *)
(* capture; functors that capture a raw this keep nothing alive.  An       *)
(* access to a dead object is not a step here: the properties say that it  *)
(* never becomes due.  Callbacks may call send, shutdown and forceClose;   *)
(* no handler has anything left to do after its callback, so these are     *)
(* steps of their own.                                                     *)
(***************************************************************************)
EXTENDS Naturals, Sequences

CONSTANTS Environments,  \* who uses the connection, see EnvironmentRecord
          MaxMessages,   \* the largest bound on messages of an environment
          MaxQueue,      \* bound: functors waiting when forceClose adds one
          MaxDowns       \* bound: reports of the close when the thread closes

CallNames == {"send", "shutdown", "forceClose"}

(***************************************************************************)
(* sameLoop: the server's loop is the connection's IO loop.  calls,        *)
(* threadCalls: what user code does on the IO loop and on another thread.  *)
(* keepsRef: that thread keeps its pointer while its calls are pending.    *)
(* destroysServer: the server may be destroyed.  messages: bound on the    *)
(* messages sent.                                                          *)
(***************************************************************************)
EnvironmentRecord ==
  [sameLoop : BOOLEAN, calls : SUBSET CallNames, threadCalls : SUBSET CallNames,
   keepsRef : BOOLEAN, destroysServer : BOOLEAN, messages : 0..MaxMessages]

ASSUME ConnectionAssumption ==
  /\ Environments \subseteq EnvironmentRecord
  /\ MaxMessages \in Nat /\ MaxQueue \in Nat /\ MaxDowns \in Nat

VARIABLES
  state_, events_, outputBuffer_,
  registered,  \* the poller knows channel_
  revents,     \* the callbacks handleEvent is still to call
  wire,        \* what write() has taken, oldest first
  fin,         \* shutdownWrite has been called
  env,         \* one of Environments, fixed
  peer,        \* "open", "closed" (end of file) or "reset"
  faulted,     \* a write has failed with EPIPE or ECONNRESET
  ioQueue,     \* functors of the IO loop
  srvQueue,    \* functors of the server's loop, when it is another one
  server,      \* "alive" or "dead"
  ioAlive,     \* the IO loop has not quit
  inMap,       \* connections_ has the connection
  userRef,     \* the other thread has a TcpConnectionPtr
  upc,         \* where in a call the other thread is, see UserPCs
  created,     \* messages created
  taken,       \* history: what sendInLoop took, in order
  ups, downs   \* history: calls of connectionCallback_

channel == <<events_, registered>>
socket == <<outputBuffer_, wire, fin, faulted, taken>>
world == <<peer, env>>
queues == <<ioQueue, srvQueue>>
owners == <<server, ioAlive, inMap>>
user == <<userRef, upc, created>>
history == <<ups, downs>>
vars == <<state_, channel, revents, socket, world, queues, owners, user, history>>

States == {"KDisconnected", "KConnecting", "KConnected", "KDisconnecting"}
UserPCs == {"idle"} \cup CallNames \cup {"shutdown2", "forceClose2"}

(***************************************************************************)
(* Functors.  The first three capture a raw this, the others a             *)
(* TcpConnectionPtr.                                                       *)
(***************************************************************************)
Fn(op, m) == [op |-> op, msg |-> m]
RawOps == {"connectEstablished", "send", "shutdown"}
SharedOps == {"forceClose", "writeComplete", "destroyed", "remove"}

Queued(queue, op) == \E k \in 1..Len(queue) : queue[k].op = op

(***************************************************************************)
(* Somebody owns the connection; once nobody does, it is destroyed.        *)
(***************************************************************************)
Alive == \/ inMap \/ userRef
         \/ \E op \in SharedOps : Queued(ioQueue, op) \/ Queued(srvQueue, op)

Init ==
  /\ state_ = "KConnecting"
  /\ events_ = {} /\ registered = FALSE /\ revents = {}
  /\ outputBuffer_ = << >> /\ wire = << >> /\ fin = FALSE /\ faulted = FALSE
  /\ taken = << >>
  /\ peer = "open" /\ env \in Environments
  /\ ioQueue = << >> /\ srvQueue = << >>
  /\ server = "alive" /\ ioAlive = TRUE /\ inMap = FALSE
  /\ userRef = FALSE /\ upc = "idle" /\ created = 0
  /\ ups = 0 /\ downs = 0

IsWriting == "write" \in events_
Message(m) == <<m, m>>   \* two units, so that a write can be partial

WriteFails == fin \/ peer = "reset"   \* write() returns EPIPE or ECONNRESET

-----------------------------------------------------------------------------
(* TcpConnection's functions on the IO loop.  q is the loop's queue as the *)
(* caller leaves it.                                                       *)

ConnectEstablished(q) ==
  /\ state_' = "KConnected"
  /\ events_' = {"read"} /\ registered' = TRUE
  /\ ups' = ups + 1
  /\ userRef' = (env.threadCalls # {})
  /\ ioQueue' = q

SendAlwaysWrites(m, q) ==
  IF state_ = "KDisconnected" \/ WriteFails
  THEN UNCHANGED <<events_, socket>> /\ ioQueue' = q
  ELSE \E n \in 0..Len(Message(m)) :
         /\ wire' = wire \o SubSeq(Message(m), 1, n)
         /\ outputBuffer_' = outputBuffer_ \o SubSeq(Message(m), n + 1, Len(Message(m)))
         /\ taken' = taken \o Message(m)
         /\ events_' = IF n < Len(Message(m)) THEN events_ \cup {"write"} ELSE events_
         /\ ioQueue' = q
         /\ UNCHANGED <<fin, faulted>>

SendForgetsWriting(m, q) ==
  IF state_ = "KDisconnected" \/ WriteFails
  THEN UNCHANGED <<events_, socket>> /\ ioQueue' = q
  ELSE \E n \in 0..Len(Message(m)) :
         /\ IsWriting \/ outputBuffer_ # << >> => n = 0
         /\ wire' = wire \o SubSeq(Message(m), 1, n)
         /\ outputBuffer_' = outputBuffer_ \o SubSeq(Message(m), n + 1, Len(Message(m)))
         /\ taken' = taken \o Message(m)
         /\ ioQueue' = q
         /\ UNCHANGED <<fin, faulted, events_>>

(***************************************************************************)
(* sendInLoop: write what the socket takes when nothing waits before it,   *)
(* buffer the rest and watch for POLLOUT; a broken connection drops it.    *)
(***************************************************************************)
SendInLoop(m, q) ==
  LET direct == ~IsWriting /\ outputBuffer_ = << >>
      len == Len(Message(m))
  IN \/ /\ state_ = "KDisconnected"
        /\ UNCHANGED <<events_, socket>>
        /\ ioQueue' = q
     \/ /\ state_ # "KDisconnected"
        /\ direct /\ WriteFails
        /\ faulted' = TRUE
        /\ taken' = taken \o Message(m)
        /\ UNCHANGED <<events_, outputBuffer_, wire, fin>>
        /\ ioQueue' = q
     \/ /\ state_ # "KDisconnected"
        /\ ~(direct /\ WriteFails)
        /\ taken' = taken \o Message(m)
        /\ \E n \in IF direct THEN 0..len ELSE {0} :
             /\ wire' = wire \o SubSeq(Message(m), 1, n)
             /\ outputBuffer_' = outputBuffer_ \o SubSeq(Message(m), n + 1, len)
             /\ events_' = IF n < len THEN events_ \cup {"write"} ELSE events_
             /\ ioQueue' = IF n = len THEN Append(q, Fn("writeComplete", 0)) ELSE q
        /\ UNCHANGED <<fin, faulted>>

ShutdownInLoop == fin' = (fin \/ ~IsWriting)

(***************************************************************************)
(* closeCallback_, which is TcpServer::removeConnection: directly on the   *)
(* server's loop, else as a functor for it.                                *)
(***************************************************************************)
RemoveConnection(q) ==
  \/ /\ env.sameLoop
     /\ inMap' = FALSE
     /\ ioQueue' = Append(q, Fn("destroyed", 0))
     /\ UNCHANGED srvQueue
  \/ /\ ~env.sameLoop
     /\ srvQueue' = Append(srvQueue, Fn("remove", 0))
     /\ ioQueue' = q
     /\ UNCHANGED inMap

CloseKeepsEvents(q) ==
  /\ state_' = "KDisconnected"
  /\ downs' = downs + 1
  /\ RemoveConnection(q)
  /\ UNCHANGED events_

CloseKeepsState(q) ==
  /\ events_' = {}
  /\ downs' = downs + 1
  /\ RemoveConnection(q)
  /\ UNCHANGED state_

HandleClose(q) ==
  /\ state_' = "KDisconnected"
  /\ events_' = {}
  /\ downs' = downs + 1
  /\ RemoveConnection(q)

ConnnectDestroyed(q) ==
  /\ IF state_ = "KConnected"
     THEN state_' = "KDisconnected" /\ events_' = {} /\ downs' = downs + 1
     ELSE UNCHANGED <<state_, events_, downs>>
  /\ registered' = FALSE
  /\ ioQueue' = q

-----------------------------------------------------------------------------
(* Steps of the IO loop.                                                   *)

(***************************************************************************)
(* epoll_wait reports the channel: POLLHUP without POLLIN, or POLLIN, and  *)
(* POLLOUT when it is watched.  A connection the peer has closed is        *)
(* reported every time.                                                    *)
(***************************************************************************)
Poll ==
  /\ ioAlive /\ Alive /\ registered /\ events_ # {} /\ revents = {}
  /\ revents' \in SUBSET {"close", "read", "write"} \ {{}}
  /\ "close" \in revents' => peer # "open" /\ "read" \notin revents'
  /\ peer # "open" => revents' \cap {"close", "read"} # {}
  /\ "write" \in revents' => IsWriting
  /\ UNCHANGED <<state_, channel, socket, world, queues, owners, user, history>>

HandleHup ==
  /\ "close" \in revents
  /\ revents' = revents \ {"close"}
  /\ HandleClose(ioQueue)
  /\ UNCHANGED <<registered, socket, world, server, ioAlive, user, ups>>

(***************************************************************************)
(* handleRead: data goes to the user and an error to the log, end of file  *)
(* closes the connection.                                                  *)
(***************************************************************************)
HandleData ==
  /\ "read" \in revents
  /\ revents' = revents \ {"read"}
  /\ UNCHANGED <<state_, channel, socket, world, queues, owners, user, history>>

HandleEof ==
  /\ "read" \in revents /\ peer # "open"
  /\ revents' = revents \ {"read"}
  /\ HandleClose(ioQueue)
  /\ UNCHANGED <<registered, socket, world, server, ioAlive, user, ups>>

WriteForgetsShutdown ==
  /\ revents = {"write"}
  /\ revents' = {}
  /\ \/ /\ IsWriting /\ ~WriteFails
        /\ \E n \in 1..Len(outputBuffer_) :
             /\ wire' = wire \o SubSeq(outputBuffer_, 1, n)
             /\ outputBuffer_' = SubSeq(outputBuffer_, n + 1, Len(outputBuffer_))
             /\ events_' = IF n = Len(outputBuffer_) THEN events_ \ {"write"} ELSE events_
        /\ UNCHANGED <<fin, ioQueue>>
     \/ /\ ~IsWriting \/ WriteFails
        /\ UNCHANGED <<events_, wire, outputBuffer_, fin, ioQueue>>
  /\ UNCHANGED <<state_, registered, faulted, taken, world, srvQueue, owners, user, history>>

(***************************************************************************)
(* handleWrite.  When the buffer is drained it stops watching POLLOUT and  *)
(* ends a shutdown that waited for it.                                     *)
(***************************************************************************)
HandleWrite ==
  /\ revents = {"write"}
  /\ revents' = {}
  /\ \/ /\ IsWriting /\ ~WriteFails
        /\ \E n \in 1..Len(outputBuffer_) :
             LET drained == n = Len(outputBuffer_) IN
             /\ wire' = wire \o SubSeq(outputBuffer_, 1, n)
             /\ outputBuffer_' = SubSeq(outputBuffer_, n + 1, Len(outputBuffer_))
             /\ events_' = IF drained THEN events_ \ {"write"} ELSE events_
             /\ ioQueue' = IF drained THEN Append(ioQueue, Fn("writeComplete", 0))
                                      ELSE ioQueue
             /\ fin' = (fin \/ (drained /\ state_ = "KDisconnecting"))
     \/ /\ ~IsWriting \/ WriteFails
        /\ UNCHANGED <<events_, wire, outputBuffer_, fin, ioQueue>>
  /\ UNCHANGED <<state_, registered, faulted, taken, world, srvQueue, owners, user, history>>

(***************************************************************************)
(* The oldest functor, when no handler is running.                         *)
(***************************************************************************)
RunFunctor(op) ==
  /\ ioAlive /\ revents = {}
  /\ ioQueue # << >>
  /\ Head(ioQueue).op = op

RunConnectEstablished ==
  /\ RunFunctor("connectEstablished") /\ Alive
  /\ ConnectEstablished(Tail(ioQueue))
  /\ UNCHANGED <<revents, socket, world, srvQueue, owners, upc, created, downs>>

RunSend ==
  /\ RunFunctor("send") /\ Alive
  /\ SendInLoop(Head(ioQueue).msg, Tail(ioQueue))
  /\ UNCHANGED <<state_, registered, revents, world, srvQueue, owners, user, history>>

RunShutdown ==
  /\ RunFunctor("shutdown") /\ Alive
  /\ ShutdownInLoop
  /\ ioQueue' = Tail(ioQueue)
  /\ UNCHANGED <<state_, channel, revents, outputBuffer_, wire, faulted, taken, world,
                 srvQueue, owners, user, history>>

(***************************************************************************)
(* forceCloseInLoop.                                                       *)
(***************************************************************************)
RunForceClose ==
  /\ RunFunctor("forceClose")
  /\ \/ /\ state_ \in {"KConnected", "KDisconnecting"}
        /\ HandleClose(Tail(ioQueue))
     \/ /\ state_ \notin {"KConnected", "KDisconnecting"}
        /\ ioQueue' = Tail(ioQueue)
        /\ UNCHANGED <<state_, events_, srvQueue, inMap, downs>>
  /\ UNCHANGED <<registered, revents, socket, world, server, ioAlive, user, ups>>

RunDestroyed ==
  /\ RunFunctor("destroyed")
  /\ ConnnectDestroyed(Tail(ioQueue))
  /\ UNCHANGED <<revents, socket, world, srvQueue, owners, user, ups>>

RunWriteComplete ==
  /\ RunFunctor("writeComplete")
  /\ ioQueue' = Tail(ioQueue)
  /\ UNCHANGED <<state_, channel, revents, socket, world, srvQueue, owners, user, history>>

-----------------------------------------------------------------------------
(* User code on the IO loop, given the connection by its callbacks.        *)

MayCall(call) == call \in env.calls /\ ioAlive /\ ups > 0 /\ Alive

LoopSend ==
  /\ MayCall("send") /\ state_ = "KConnected"
  /\ created < env.messages
  /\ created' = created + 1
  /\ SendInLoop(created', ioQueue)
  /\ UNCHANGED <<state_, registered, revents, world, srvQueue, owners, userRef, upc, history>>

LoopShutdown ==
  /\ MayCall("shutdown") /\ state_ = "KConnected"
  /\ state_' = "KDisconnecting"
  /\ ShutdownInLoop
  /\ UNCHANGED <<channel, revents, outputBuffer_, wire, faulted, taken, world, queues,
                 owners, user, history>>

LoopForceClose ==
  /\ MayCall("forceClose") /\ state_ \in {"KConnected", "KDisconnecting"}
  /\ Len(ioQueue) < MaxQueue
  /\ state_' = "KDisconnecting"
  /\ ioQueue' = Append(ioQueue, Fn("forceClose", 0))
  /\ UNCHANGED <<channel, revents, socket, world, srvQueue, owners, user, history>>

-----------------------------------------------------------------------------
(* The other thread: a call tests state_, then stores it, then hands a     *)
(* functor over.                                                           *)

ThreadCall(call) ==
  /\ call \in env.threadCalls /\ userRef /\ upc = "idle" /\ ioAlive
  /\ \/ state_ = "KConnected"
     \/ state_ = "KDisconnecting" /\ call = "forceClose"
  /\ IF call = "send" THEN created < env.messages ELSE downs < MaxDowns
  /\ call = "forceClose" => Len(ioQueue) < MaxQueue
  /\ upc' = call
  /\ UNCHANGED <<state_, channel, revents, socket, world, queues, owners, userRef,
                 created, history>>

ThreadSetsState ==
  /\ upc \in {"shutdown", "forceClose"}
  /\ state_' = "KDisconnecting"
  /\ upc' = IF upc = "shutdown" THEN "shutdown2" ELSE "forceClose2"
  /\ UNCHANGED <<channel, revents, socket, world, queues, owners, userRef, created, history>>

ThreadQueues(from, op) ==
  /\ upc = from /\ ioAlive
  /\ created' = IF op = "send" THEN created + 1 ELSE created
  /\ ioQueue' = Append(ioQueue, Fn(op, created'))
  /\ upc' = "idle"
  /\ UNCHANGED <<state_, channel, revents, socket, world, srvQueue, owners, userRef, history>>

(***************************************************************************)
(* The thread drops its TcpConnectionPtr.                                  *)
(***************************************************************************)
Release ==
  /\ userRef /\ upc = "idle"
  /\ env.keepsRef => \A op \in {"send", "shutdown"} : ~Queued(ioQueue, op)
  /\ userRef' = FALSE
  /\ UNCHANGED <<state_, channel, revents, socket, world, queues, owners, upc, created,
                 history>>

-----------------------------------------------------------------------------
(* TcpServer, on its own loop.                                             *)

NewConnectionUnmapped ==
  /\ server = "alive"
  /\ ~inMap /\ ups = 0
  /\ ioQueue' = Append(ioQueue, Fn("connectEstablished", 0))
  /\ UNCHANGED <<state_, channel, revents, socket, world, srvQueue, owners, user, history>>

NewConnection ==
  /\ server = "alive"
  /\ ~inMap /\ ups = 0
  /\ inMap' = TRUE
  /\ \/ /\ env.sameLoop
        /\ ConnectEstablished(ioQueue)
     \/ /\ ~env.sameLoop
        /\ ioQueue' = Append(ioQueue, Fn("connectEstablished", 0))
        /\ UNCHANGED <<state_, channel, userRef, ups>>
  /\ UNCHANGED <<revents, socket, world, srvQueue, server, ioAlive, upc, created, downs>>

RemoveKeepsEntry ==
  /\ server = "alive"
  /\ srvQueue # << >>
  /\ srvQueue' = Tail(srvQueue)
  /\ ioQueue' = Append(ioQueue, Fn("destroyed", 0))
  /\ UNCHANGED <<state_, channel, revents, socket, world, owners, user, history>>

RemoveConnectionInLoop ==
  /\ server = "alive"
  /\ srvQueue # << >>
  /\ srvQueue' = Tail(srvQueue)
  /\ inMap' = FALSE
  /\ ioQueue' = Append(ioQueue, Fn("destroyed", 0))
  /\ UNCHANGED <<state_, channel, revents, socket, world, server, ioAlive, user, history>>

(***************************************************************************)
(* ~TcpServer, not from a handler of this connection.                      *)
(***************************************************************************)
DestroyServer ==
  /\ env.destroysServer /\ server = "alive"
  /\ env.sameLoop => revents = {}
  /\ server' = "dead"
  /\ inMap' = FALSE
  /\ \/ inMap /\ env.sameLoop /\ ConnnectDestroyed(ioQueue)
     \/ /\ inMap /\ ~env.sameLoop
        /\ ioQueue' = Append(ioQueue, Fn("destroyed", 0))
        /\ UNCHANGED <<state_, channel, downs>>
     \/ ~inMap /\ UNCHANGED <<state_, channel, downs, ioQueue>>
  /\ UNCHANGED <<revents, socket, world, srvQueue, ioAlive, user, ups>>

(***************************************************************************)
(* ~TcpServer goes on to destroy the thread pool, which quits the IO loop: *)
(* it returns at its next test of quit_ and drops the functors it has.     *)
(***************************************************************************)
IoLoopQuits ==
  /\ ~env.sameLoop /\ server = "dead" /\ ioAlive /\ revents = {}
  /\ ioAlive' = FALSE
  /\ ioQueue' = << >>
  /\ registered' = FALSE
  /\ UNCHANGED <<state_, events_, revents, socket, world, srvQueue, server, inMap, user,
                 history>>

PeerCloses ==
  /\ \/ peer = "open" /\ peer' \in {"closed", "reset"}
     \/ peer = "closed" /\ peer' = "reset"
  /\ UNCHANGED <<state_, channel, revents, socket, env, queues, owners, user, history>>

-----------------------------------------------------------------------------
Handlers == HandleHup \/ HandleData \/ HandleEof \/ HandleWrite
Functors == \/ RunConnectEstablished \/ RunSend \/ RunShutdown \/ RunForceClose
            \/ RunDestroyed \/ RunWriteComplete
LoopCalls == LoopSend \/ LoopShutdown \/ LoopForceClose
ThreadGoesOn == \/ ThreadSetsState
                \/ ThreadQueues("send", "send")
                \/ ThreadQueues("shutdown2", "shutdown")
                \/ ThreadQueues("forceClose2", "forceClose")

Next == \/ Poll \/ Handlers \/ Functors \/ LoopCalls
        \/ ThreadGoesOn \/ Release \/ \E call \in CallNames : ThreadCall(call)
        \/ NewConnection \/ RemoveConnectionInLoop \/ DestroyServer \/ IoLoopQuits
        \/ PeerCloses

Spec == Init /\ [][Next]_vars

(***************************************************************************)
(* Both loops and the other thread are scheduled, every iteration of a     *)
(* loop runs functors, the thread drops its pointer in the end, and what   *)
(* the peer sent before its end of file runs out.  The peer, while it is   *)
(* there, keeps reading: the socket is reported writable again and again.  *)
(* Nothing makes the peer close.                                           *)
(***************************************************************************)
FairSpec == /\ Spec
            /\ WF_vars(Poll) /\ WF_vars(Handlers) /\ SF_vars(Functors)
            /\ WF_vars(RemoveConnectionInLoop)
            /\ WF_vars(ThreadGoesOn) /\ WF_vars(Release)
            /\ SF_vars(HandleEof)
            /\ SF_vars(Poll /\ "write" \in revents') /\ SF_vars(HandleWrite)

-----------------------------------------------------------------------------
\* One more than the bound: the other thread may be past its test of created.
Messages == 1..(MaxMessages + 1)
Functor == [op : RawOps \cup SharedOps, msg : Messages \cup {0}]

SocketTypes == /\ outputBuffer_ \in Seq(Messages) /\ wire \in Seq(Messages)
               /\ taken \in Seq(Messages)
QueueTypes == ioQueue \in Seq(Functor) /\ srvQueue \in Seq(Functor)

(***************************************************************************)
(* Types, and what a callback or a state may rely on: handlers run only    *)
(* for a registered channel, and one that is not connected is not watched. *)
(***************************************************************************)
ControlTypes ==
  /\ state_ \in States
  /\ events_ \in SUBSET {"read", "write"}
  /\ revents \in SUBSET {"close", "read", "write"}
  /\ registered \in BOOLEAN /\ fin \in BOOLEAN /\ faulted \in BOOLEAN
  /\ ioAlive \in BOOLEAN /\ inMap \in BOOLEAN /\ userRef \in BOOLEAN
  /\ env \in Environments
  /\ peer \in {"open", "closed", "reset"} /\ server \in {"alive", "dead"}
  /\ upc \in UserPCs
  /\ created \in Messages \cup {0}
  /\ ups \in Nat /\ downs \in Nat
  /\ revents # {} => registered
  /\ state_ = "KConnecting" => events_ = {}

TypeOK == ControlTypes /\ SocketTypes /\ QueueTypes

(***************************************************************************)
(* Environments in which other threads only send.  A thread that also      *)
(* closes can overtake a handler on the loop (ForceCloseIsThreadSafe), and *)
(* what depends on a single close is stated for these.                     *)
(***************************************************************************)
ClosesOnLoop == env.threadCalls \subseteq {"send"}

(***************************************************************************)
(* The byte stream: what write() took, then outputBuffer_, is exactly what *)
(* sendInLoop was given, in order, as long as no write has failed.  And    *)
(* shutdown is graceful: the FIN never overtakes buffered data, whatever   *)
(* is sent before and after shutdown() and by whom, where no other thread  *)
(* closes the connection.                                                  *)
(***************************************************************************)
StreamIntact ==
  /\ ~faulted => wire \o outputBuffer_ = taken
  /\ ClosesOnLoop /\ fin => outputBuffer_ = << >>

WatchesOutput == state_ \in {"KConnected", "KDisconnecting"} =>
                   (IsWriting <=> outputBuffer_ # << >>)

(***************************************************************************)
(* Types; and POLLOUT is watched exactly while something is buffered:      *)
(* otherwise the loop would spin, or the rest would never be sent.         *)
(***************************************************************************)
WritingIffBuffered == TypeOK /\ (ClosesOnLoop => WatchesOutput)

(***************************************************************************)
(* The user is told once that a connection is down, after being told that  *)
(* it is up, although forceClose, end of file and POLLHUP may all try to.  *)
(***************************************************************************)
ClosedOnce == ClosesOnLoop => downs <= ups /\ ups <= 1

(***************************************************************************)
(* Environments in which ~TcpServer, if it runs, finds no loop but its own *)
(* to be quit and no close in progress.                                    *)
(***************************************************************************)
ServerEndsIdle == env.destroysServer => env.sameLoop /\ env.calls \subseteq {"send"}

(***************************************************************************)
(* A connection's life goes in order, where no other thread closes it and  *)
(* a server that is destroyed finds it idle on the server's own loop.  The *)
(* user is told once that it is down, and has been told when it is         *)
(* destroyed (connectionCallback_ is, by its comment, "the callback for a  *)
(* connection's arrival or closing").  When connnectDestroyed is           *)
(* next, the channel has no events or is about to lose them (the comment   *)
(* of Channel::remove: "make sure disableAll has been called before this   *)
(* function is"); and the connection is destroyed only after its channel   *)
(* has left the poller, which keeps a pointer to it.                       *)
(***************************************************************************)
LifeInOrder ==
  /\ ClosedOnce
  /\ ClosesOnLoop /\ ServerEndsIdle =>
                     /\ RunFunctor("destroyed") => state_ = "KConnected" \/ events_ = {}
                     /\ ~Alive => downs = ups /\ ~registered

(***************************************************************************)
(* The same when forceClose, whose comment calls it "thread-safe, may be   *)
(* called across threads", is called on another thread.                    *)
(***************************************************************************)
ForceCloseIsThreadSafe == downs <= ups

(***************************************************************************)
(* A functor that captured a raw this finds the connection alive, when     *)
(* other threads keep their pointer while their calls are pending; send    *)
(* and its functor are, by its comment, "thread-safe, may be called across *)
(* threads".                                                               *)
(***************************************************************************)
RawFunctorsFindConnection ==
  env.keepsRef => \A op \in RawOps : RunFunctor(op) => Alive

(***************************************************************************)
(* shutdown() and forceClose() get to the FIN or to the close, also when   *)
(* data was waiting; and a connection that is down is destroyed, once the  *)
(* user drops it.                                                          *)
(***************************************************************************)
ClosesFinish ==
  /\ ClosesOnLoop /\ state_ = "KDisconnecting" ~> fin \/ state_ = "KDisconnected"
  /\ ClosesOnLoop /\ downs > 0 ~> ~Alive

-----------------------------------------------------------------------------
(* The inductive invariant behind StreamIntact, WritingIffBuffered and     *)
(* ClosedOnce: it relates them to how far the connection has come.         *)

(***************************************************************************)
(* Nothing is done with a connection before connectEstablished.  A         *)
(* connection is down when the user has been told so; then it watches      *)
(* nothing, and of the events being handled only POLLOUT may be left.  The *)
(* other thread makes only the calls of its environment.                   *)
(***************************************************************************)
ControlInv ==
  /\ ControlTypes
  /\ ups <= 1 /\ (state_ = "KConnecting" <=> ups = 0)
  /\ ups = 0 => ~registered /\ upc = "idle"
  /\ "close" \in revents => "read" \notin revents
  /\ created <= env.messages + 1 /\ (upc = "send" => created <= env.messages)
  /\ ClosesOnLoop =>
       /\ upc \in {"idle", "send"}
       /\ downs = IF state_ = "KDisconnected" THEN 1 ELSE 0
       /\ state_ = "KDisconnected" => events_ = {} /\ revents \subseteq {"write"}

(***************************************************************************)
(* connectEstablished is the first functor of a connection, and the only   *)
(* one of its kind; a message is queued after it has run.                  *)
(***************************************************************************)
Ordered(queue, upsNow) ==
  \A k \in 1..Len(queue) :
    /\ queue[k].op = "connectEstablished" => k = 1 /\ upsNow = 0
    /\ queue[k].op = "send" => queue[k].msg # 0 /\ upsNow = 1

QueueInv ==
  /\ QueueTypes
  /\ Ordered(ioQueue, ups)
  /\ ups = 0 => srvQueue = << >>
  /\ ups = 0 /\ ~inMap /\ server = "alive" => ioQueue = << >>
  /\ ClosesOnLoop => ~Queued(ioQueue, "shutdown")

SocketInv ==
  /\ SocketTypes
  /\ StreamIntact
  /\ ClosesOnLoop => WatchesOutput
  /\ ups = 0 => outputBuffer_ = << >>

StreamInv == ControlInv /\ QueueInv /\ SocketInv

-----------------------------------------------------------------------------
(* Who owns the connection: the invariants behind                          *)
(* RawFunctorsFindConnection and LifeInOrder.                              *)

(***************************************************************************)
(* A functor with a raw this has an owner beside it: the server's map or   *)
(* the functor connnectDestroyed, or the thread that queued it.            *)
(***************************************************************************)
OwnerInv ==
  /\ \A k \in 1..Len(srvQueue) : srvQueue[k].op = "remove"
  /\ upc # "idle" => userRef
  /\ userRef => ups = 1
  /\ env.keepsRef /\ (Queued(ioQueue, "send") \/ Queued(ioQueue, "shutdown")) => userRef
  /\ Queued(ioQueue, "connectEstablished") =>
       ~env.sameLoop /\ (inMap \/ Queued(ioQueue, "destroyed"))

(***************************************************************************)
(* The map keeps a connection until it is down, and the functors that      *)
(* follow keep it until its channel has left the poller.                   *)
(***************************************************************************)
KeptWhileUp ==
  /\ state_ \in {"KConnected", "KDisconnecting"} => inMap
  /\ env.destroysServer => state_ # "KDisconnecting" /\ ~Queued(ioQueue, "forceClose")
  /\ srvQueue # << >> \/ Queued(ioQueue, "destroyed") => state_ = "KDisconnected"
  /\ registered => inMap \/ srvQueue # << >> \/ Queued(ioQueue, "destroyed")

LifeInv == /\ server = "dead" => env.destroysServer
           /\ ClosesOnLoop /\ ServerEndsIdle => KeptWhileUp
=============================================================================
