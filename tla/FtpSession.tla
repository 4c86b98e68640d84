----------------------------- MODULE FtpSession -----------------------------
(***************************************************************************)
(* miniftpd: one FtpSession with its control connection, the PASV data     *)
(* servers and data connections it opens, the PASV timers and the disk     *)
(* pool.  Everything but the disk work runs on the session's IO loop, in   *)
(* rounds: a poll fixes which events are handled, in any order, then the   *)
(* functors run that were queued before their batch began.  The state is   *)
(* one record s; a method of the class is an operator from the state       *)
(* before to the state after, so that a handler is one step with every     *)
(* call it makes.                                                          *)
(*                                                                         *)
(* A file has env.k chunks of kReadChunkSize, a directory env.k batches of *)
(* kListBatchEntries; chunk i of source f is <<f, i>>.  TcpServer and      *)
(* TcpConnection are as modules TcpServer and TcpConnection have them,     *)
(* reduced to what the session can see.                                    *)
(***************************************************************************)
EXTENDS Integers, Sequences, FiniteSets

CONSTANTS
  Files,         \* regular files that RETR may name
  Workers,       \* threads of the disk pool
  MaxPasv,       \* bound: PASV commands
  MaxConns,      \* bound: data connections (of one client: env.conns)
  MaxXfers,      \* bound: LIST, NLST and RETR commands
  Environments   \* what clients and disks may do, chosen once; ready bounds
                 \* the events of one poll

ASSUME FtpAssumption ==
  /\ Workers \in Nat \ {0} /\ MaxPasv \in Nat /\ MaxConns \in Nat
  /\ MaxXfers \in Nat /\ Files \cap {"dir", "closed"} = {}
  /\ Environments \subseteq [client: {"polite", "stray", "any"}, aborts: BOOLEAN,
                             disk: {"ok", "failing"}, conns: 0..MaxConns, ready: Nat, k: Nat]

VARIABLES s, env

vars == <<s, env>>

Nothing == <<>>
Fds == 1..(MaxXfers + 1)
Polite == env.client # "any"
Connected(t) == t.dataConn_ # 0 /\ t.conns[t.dataConn_].state = "connected"
Queue(t, f) == [t EXCEPT !.q = Append(@, f)]
Crash(t) == [t EXCEPT !.crashed = TRUE]

(***************************************************************************)
(* reply: a control connection that is no longer connected drops it.  turn *)
(* is a polite client's view of the dialogue, last the latest final reply. *)
(***************************************************************************)
reply(t, code) ==
  LET after == CASE code = "227" -> "passive"
                 [] code = "150" -> "transfer"
                 [] code = "425" -> IF t.turn = "transfer" THEN "confused" ELSE "idle"
                 [] OTHER -> IF t.turn = "transfer" THEN "idle" ELSE "confused"
  IN  IF t.ctrl # "up" \/ ~Polite THEN t
      ELSE [t EXCEPT !.turn = IF @ = "confused" THEN @ ELSE after,
                     !.last = IF code \in {"227", "150"} THEN @
                              ELSE [code |-> code, of |-> t.source, n |-> Len(t.sent)]]

-----------------------------------------------------------------------------
(* TcpConnection and TcpServer, as the session uses them. *)

forceClose(t, c) ==
  IF t.conns[c].state \in {"connected", "disconnecting"}
  THEN Queue([t EXCEPT !.conns[c].state = "disconnecting"], <<"forceClose", c>>)
  ELSE t

(***************************************************************************)
(* shutdown with shutdownInLoop; fin: the peer can read EOF.               *)
(***************************************************************************)
shutdown(t, c) ==
  IF t.conns[c].state # "connected" THEN t
  ELSE [t EXCEPT !.conns[c].state = "disconnecting", !.conns[c].fin = t.conns[c].out = 0]

(***************************************************************************)
(* send: the kernel takes all of the chunk, a part of it, or reports that  *)
(* the peer is gone.  An empty chunk does nothing at all, so that no       *)
(* writeCompleteCallback follows it.                                       *)
(***************************************************************************)
send(t, c, data, wr) ==
  IF data = Nothing THEN t
  ELSE IF t.conns[c].out > 0
  THEN [t EXCEPT !.conns[c].out = @ + 1, !.sent = Append(@, data)]
  ELSE CASE wr = "all" ->
              LET u == [t EXCEPT !.sent = Append(@, data)]
              IN  IF t.conns[c].writeComplete THEN Queue(u, <<"bound", c>>) ELSE u
         [] wr = "part" -> [t EXCEPT !.conns[c].out = 1, !.sent = Append(@, data)]
         [] wr = "error" -> [t EXCEPT !.conns[c].reset = TRUE]

-----------------------------------------------------------------------------
(* The methods of FtpSession. *)

AbortLeaksFd(t) ==
  [t EXCEPT !.xfer_ = "kNone", !.xferDone_ = FALSE, !.xferFile_ = "", !.nextReadOffset_ = 0,
            !.xferGen_ = @ + 1, !.xferFd_ = 0, !.xferDir_ = 0]
abortTransfer(t) ==
  [t EXCEPT !.xfer_ = "kNone", !.xferDone_ = FALSE, !.xferFile_ = "", !.nextReadOffset_ = 0,
            !.xferGen_ = @ + 1,
            !.fds = [f \in Fds |-> IF f = t.xferFd_ THEN "closed" ELSE @[f]],
            !.xferFd_ = 0, !.xferDir_ = 0,
            !.conns = [c \in DOMAIN @ |-> IF c = t.dataConn_
                         THEN [@[c] EXCEPT !.writeComplete = FALSE] ELSE @[c]]]

closeDataServer(t) ==
  LET u == [t EXCEPT !.dataConn_ = 0]
  IN  IF t.dataServer_ = 0 THEN u
      ELSE Queue([u EXCEPT !.dataServer_ = 0], <<"delete", t.dataServer_>>)

(***************************************************************************)
(* transferRejected, and the read error in sendChunkReady.                 *)
(***************************************************************************)
failTransfer(t, code) ==
  LET u == abortTransfer(reply(t, code))
  IN  Queue(IF u.dataConn_ # 0 THEN forceClose(u, u.dataConn_) ELSE u, <<"closeDataServer">>)

EndKeepsTransfer(t) ==
  LET u == IF t.xfer_ # "kNone" THEN reply(t, "226") ELSE t
  IN  [u EXCEPT !.timers = @ \ {u.pasvTimerId_}, !.xferDone_ = FALSE]
sendDataEndReply(t) ==
  LET u == IF t.xfer_ # "kNone" THEN reply(t, "226") ELSE t
  IN  abortTransfer([u EXCEPT !.timers = @ \ {u.pasvTimerId_}])

(***************************************************************************)
(* sendChunkReady.  At the end of the source it calls dataConn_->shutdown  *)
(* without asking whether there still is a dataConn_.                      *)
(***************************************************************************)
ChunkOfAnyTransfer(t, gen, data, atEof, ioError, wr) ==
  IF t.xfer_ = "kNone" THEN t
  ELSE IF ioError THEN failTransfer(t, "550")
  ELSE IF data = Nothing /\ atEof
  THEN IF t.dataConn_ = 0 THEN Crash(t)
       ELSE shutdown([t EXCEPT !.xferDone_ = TRUE], t.dataConn_)
  ELSE IF ~Connected(t) THEN t ELSE send(t, t.dataConn_, data, wr)
sendChunkReady(t, gen, data, atEof, ioError, wr) ==
  IF gen # t.xferGen_ \/ t.xfer_ = "kNone" THEN t
  ELSE IF ioError THEN failTransfer(t, "550")
  ELSE IF data = Nothing /\ atEof
  THEN IF t.dataConn_ = 0 THEN Crash(t)
       ELSE shutdown([t EXCEPT !.xferDone_ = TRUE], t.dataConn_)
  ELSE IF ~Connected(t) THEN t ELSE send(t, t.dataConn_, data, wr)

(***************************************************************************)
(* requestNextChunk; accepted: what trySubmit returns.  For LIST, xferDir_ *)
(* is the next batch of names that readdir returns, 0 for no open DIR.     *)
(***************************************************************************)
RequestSameChunk(t, accepted) ==
  IF t.xfer_ = "kNone" \/ ~Connected(t) THEN t
  ELSE [t EXCEPT !.pool = Append(@, [gen |-> t.xferGen_, fd |-> t.xferFd_, at |-> 1,
          source |-> IF t.xfer_ = "kRetr" THEN "fd" ELSE "dir", longNames |-> t.longNameList_])]
requestNextChunk(t, accepted) ==
  LET retr == t.xfer_ = "kRetr"
      task == [gen |-> t.xferGen_, source |-> IF retr THEN "fd" ELSE "dir", fd |-> t.xferFd_,
               longNames |-> t.longNameList_,
               at |-> IF retr THEN t.nextReadOffset_ + 1 ELSE t.xferDir_]
      read == IF retr THEN [t EXCEPT !.nextReadOffset_ = @ + 1] ELSE [t EXCEPT !.xferDir_ = @ + 1]
  IN  IF t.xfer_ = "kNone" \/ ~Connected(t) THEN t
      ELSE IF ~retr /\ t.xferDir_ = 0 THEN Crash(t)
      ELSE IF ~retr /\ t.xferDir_ > env.k THEN sendChunkReady(t, t.xferGen_, Nothing, TRUE, FALSE, "all")
      ELSE IF accepted THEN [read EXCEPT !.pool = Append(@, task)]
      ELSE failTransfer(read, "451")

FreeFds(t) == { f \in Fds : t.fds[f] = "closed" }

(***************************************************************************)
(* tryStartTransfer; opens: whether open or opendir succeeds.  open        *)
(* returns the lowest free descriptor.                                     *)
(***************************************************************************)
tryStartTransfer(t, opens, accepted) ==
  IF ~Connected(t) \/ t.xfer_ = "kNone" THEN t
  ELSE IF ~opens \/ FreeFds(t) = {}
  THEN LET u == IF t.xfer_ = "kRetr" THEN [t EXCEPT !.xferFd_ = 0] ELSE [t EXCEPT !.xferDir_ = 0]
       IN  Queue(forceClose(reply(u, "550"), t.dataConn_), <<"closeDataServer">>)
  ELSE LET fd == CHOOSE f \in FreeFds(t) : \A g \in FreeFds(t) : f <= g
           u == IF t.xfer_ = "kRetr"
                THEN [t EXCEPT !.xferFd_ = fd, !.fds[fd] = t.xferFile_]
                ELSE [t EXCEPT !.xferDir_ = 1]
       IN  requestNextChunk(u, accepted)

dataConnectionDown(t) ==
  Queue(IF t.xfer_ # "kNone" /\ ~t.xferDone_ THEN reply(abortTransfer(t), "426")
        ELSE sendDataEndReply(t),
        <<"closeDataServer">>)

(***************************************************************************)
(* TcpConnection::handleClose, and connnectDestroyed for a connection that *)
(* its server still held when it was deleted: only a connected one is told *)
(* to the session, and one that is disconnecting still has its events on,  *)
(* which Channel::remove asserts it has not.  ~TcpServer goes through      *)
(* connections_ in the order of the names, which end in the number of the  *)
(* connection.                                                             *)
(***************************************************************************)
handleClose(t, c) == dataConnectionDown([t EXCEPT !.conns[c].state = "disconnected"])

connectDestroyed(t, c) ==
  IF t.conns[c].state = "connected" THEN handleClose(t, c) ELSE Crash(t)

deleteServer(t, k) ==
  LET destroyed[c \in 0..MaxConns] ==
        IF c = 0 THEN [t EXCEPT !.servers[k] = "deleted"]
        ELSE IF t.conns[c].server = k /\ t.conns[c].state \in {"connected", "disconnecting"}
        THEN connectDestroyed(destroyed[c - 1], c)
        ELSE destroyed[c - 1]
  IN  destroyed[MaxConns]

(***************************************************************************)
(* handleDataConnected for connection c, accepted by server k.             *)
(***************************************************************************)
UpDoesNotStart(t, c, k, opens, accepted) ==
  LET u == [t EXCEPT !.conns[c] = [state |-> "connected", server |-> k, out |-> 0, fin |-> FALSE,
                                   reset |-> FALSE, writeComplete |-> t.dataConn_ = 0]]
  IN  IF t.dataConn_ # 0 THEN forceClose(u, c) ELSE [u EXCEPT !.dataConn_ = c]
dataConnectionUp(t, c, k, opens, accepted) ==
  LET u == [t EXCEPT !.conns[c] = [state |-> "connected", server |-> k, out |-> 0, fin |-> FALSE,
                                   reset |-> FALSE, writeComplete |-> t.dataConn_ = 0]]
  IN  IF t.dataConn_ # 0 THEN forceClose(u, c)
      ELSE tryStartTransfer([u EXCEPT !.dataConn_ = c], opens, accepted)

cmdPasv(t, k) ==
  LET u == IF t.dataServer_ # 0 THEN closeDataServer(t) ELSE t
  IN  reply([u EXCEPT !.dataServer_ = k, !.servers[k] = "open",
                      !.timers = @ \cup {k}, !.pasvTimerId_ = k], "227")

(***************************************************************************)
(* cmdList and cmdRetr once logged in.                                     *)
(***************************************************************************)
startTransfer(t, kind, file, longNames, opens, accepted) ==
  IF t.dataServer_ = 0 THEN reply(t, "425")
  ELSE LET u == [t EXCEPT !.xferGen_ = @ + 1, !.xfer_ = kind, !.timers = @ \ {t.pasvTimerId_},
                          !.sent = <<>>, !.source = IF kind = "kList" THEN "dir" ELSE file,
                          !.xfers = @ + 1]
           v == IF kind = "kList" THEN [u EXCEPT !.longNameList_ = longNames]
                ELSE [u EXCEPT !.xferFile_ = file, !.nextReadOffset_ = 0, !.xferDone_ = FALSE]
       IN  tryStartTransfer(reply(v, "150"), opens, accepted)

TimeoutWithoutReply(t, k) ==
  LET u == [t EXCEPT !.timers = @ \ {k}]
  IN  IF u.dataServer_ # 0 /\ u.xfer_ = "kNone" /\ u.dataConn_ = 0 THEN closeDataServer(u) ELSE u
TimeoutKeepsServer(t, k) == [t EXCEPT !.timers = @ \ {k}]
pasvTimeout(t, k) ==
  LET u == [t EXCEPT !.timers = @ \ {k}]
  IN  IF u.dataServer_ # 0 /\ u.xfer_ = "kNone" /\ u.dataConn_ = 0
      THEN closeDataServer(reply(u, "425")) ELSE u

-----------------------------------------------------------------------------
(* The steps. *)

NoConn == [state |-> "unused", server |-> 0, out |-> 0, fin |-> FALSE,
           reset |-> FALSE, writeComplete |-> FALSE]

Init ==
  /\ env \in Environments
  /\ s = [state_ |-> "kNeedUser", ctrl |-> "up", dataServer_ |-> 0, dataConn_ |-> 0,
          xfer_ |-> "kNone", xferDone_ |-> FALSE, xferFile_ |-> "", xferFd_ |-> 0,
          nextReadOffset_ |-> 0, xferGen_ |-> 0, xferDir_ |-> 0, longNameList_ |-> TRUE,
          pasvTimerId_ |-> 0, timers |-> {}, q |-> <<>>, batch |-> <<>>, pool |-> <<>>,
          phase |-> "functors", ready |-> {}, heard |-> "idle",
          servers |-> [k \in 1..MaxPasv |-> "unused"], conns |-> [c \in 1..MaxConns |-> NoConn],
          fds |-> [f \in Fds |-> "closed"], crashed |-> FALSE, alive |-> TRUE,
          turn |-> "idle", last |-> [code |-> "", of |-> "", n |-> 0],
          sent |-> <<>>, source |-> "", xfers |-> 0]

(***************************************************************************)
(* The session is owned by the control connection's context and by every   *)
(* callback: of its servers and their connections, of timers, disk tasks   *)
(* and functors.  The step that drops the last one runs the destructor.    *)
(***************************************************************************)
Referenced(t) ==
  \/ t.ctrl # "down" \/ t.timers # {} \/ t.dataConn_ # 0
  \/ t.pool # <<>> \/ t.q # <<>> \/ t.batch # <<>>
  \/ \E k \in 1..MaxPasv : t.servers[k] = "open"

destructor(t) ==
  [closeDataServer(t) EXCEPT !.fds = [f \in Fds |-> IF f = t.xferFd_ THEN "closed" ELSE @[f]],
                             !.xferDir_ = 0, !.alive = FALSE]

Becomes(t) ==
  /\ s.alive /\ ~s.crashed
  /\ s' = IF Referenced(t) THEN t ELSE destructor(t)
  /\ UNCHANGED env

Outcomes == IF env.disk = "ok" THEN {TRUE} ELSE BOOLEAN
Writes == IF env.aborts THEN {"all", "part", "error"} ELSE {"all", "part"}

(***************************************************************************)
(* One round of the loop.  heard: what the client had been told when it    *)
(* sent the command that is handled in this round.  A polite client that   *)
(* aborts does so after 150, not before it asked for a transfer.           *)
(***************************************************************************)
MayAbort == env.aborts /\ (Polite => s.turn # "passive")
FreeConns == { c \in 1..env.conns : s.conns[c].state = "unused" }
Live(c) == s.conns[c].state \in {"connected", "disconnecting"}
ReadyEvents ==
  { e \in {<<"ctrl", 0>>} : s.ctrl # "down" }
  \cup { <<"timer", k>> : k \in s.timers }
  \cup { <<"listen", k>> : k \in { j \in 1..MaxPasv :
           /\ s.servers[j] = "open" /\ FreeConns # {}
           /\ env.client = "polite" => \A c \in 1..MaxConns : s.conns[c].server # j } }
  \cup { <<"data", c>> : c \in { d \in 1..MaxConns :
           Live(d) /\ (s.conns[d].out > 0 \/ s.conns[d].fin \/ MayAbort) } }

PollFor(events) ==
  /\ s.phase = "functors" /\ s.batch = <<>>
  /\ events # {} \/ s.q # <<>>
  /\ Becomes([s EXCEPT !.phase = "events", !.ready = events, !.heard = s.turn])

Poll == \E events \in SUBSET ReadyEvents : Cardinality(events) <= env.ready /\ PollFor(events)

doPendingFunctors ==
  /\ s.phase = "events" /\ s.ready = {}
  /\ Becomes([s EXCEPT !.phase = "functors", !.batch = s.q, !.q = <<>>])

Handled(e) == [s EXCEPT !.ready = @ \ {e}]

(***************************************************************************)
(* Commands.  A polite client keeps to the dialogue: PASV, one connection  *)
(* and one transfer command in either order, then it waits for the final   *)
(* reply.  A message carries one command, nothing follows QUIT.  Commands  *)
(* that only reply, and those that are refused, change nothing.            *)
(***************************************************************************)
Command(turn, t) ==
  /\ <<"ctrl", 0>> \in s.ready
  /\ s.ctrl = "up" /\ (Polite => s.heard = turn)
  /\ Becomes([t EXCEPT !.ready = @ \ {<<"ctrl", 0>>}])

cmdUser == Command("idle", [s EXCEPT !.state_ = "kNeedPass"])

cmdPass == s.state_ = "kNeedPass" /\ Command("idle", [s EXCEPT !.state_ = "kLoggedIn"])

requireLogin == s.state_ = "kLoggedIn"

Pasv ==
  /\ requireLogin
  /\ \E k \in 1..MaxPasv : /\ s.servers[k] = "unused"
                           /\ \A j \in 1..(k - 1) : s.servers[j] # "unused"
                           /\ Command("idle", cmdPasv(s, k))

cmdList ==
  /\ requireLogin /\ s.xfers < MaxXfers
  /\ \E opens, accepted \in Outcomes, longNames \in BOOLEAN :
       Command("passive", startTransfer(s, "kList", "", longNames, opens, accepted))

cmdRetr ==
  /\ requireLogin /\ s.xfers < MaxXfers
  /\ \E opens, accepted \in Outcomes, file \in Files :
       Command("passive", startTransfer(s, "kRetr", file, FALSE, opens, accepted))

cmdQuit == Command(s.turn, [s EXCEPT !.ctrl = "closing"])

(***************************************************************************)
(* The control connection goes down, or is closed because of a line that   *)
(* is too long: main's callback drops the context.                         *)
(***************************************************************************)
ControlDown ==
  <<"ctrl", 0>> \in s.ready /\ Becomes([Handled(<<"ctrl", 0>>) EXCEPT !.ctrl = "down"])

DataConnect(k) ==
  /\ <<"listen", k>> \in s.ready
  /\ \E opens, accepted \in Outcomes :
       LET c == CHOOSE d \in FreeConns : \A e \in FreeConns : d <= e
       IN  Becomes(IF FreeConns = {} THEN Handled(<<"listen", k>>)
                   ELSE dataConnectionUp(Handled(<<"listen", k>>), c, k, opens, accepted))

(***************************************************************************)
(* The client closes a data connection: when it has read EOF, when it gave *)
(* up, or when a write has found it gone.                                  *)
(***************************************************************************)
DataClose(c) ==
  /\ <<"data", c>> \in s.ready /\ (s.conns[c].fin \/ env.aborts)
  /\ Becomes(handleClose(Handled(<<"data", c>>), c))

(***************************************************************************)
(* TcpConnection::handleWrite that empties the output buffer.  Its functor *)
(* calls whatever writeCompleteCallback_ is when it runs.                  *)
(***************************************************************************)
DataWritable(c) ==
  /\ <<"data", c>> \in s.ready /\ s.conns[c].out > 0
  /\ LET t == [Handled(<<"data", c>>) EXCEPT !.conns[c].out = 0,
                 !.conns[c].fin = s.conns[c].state = "disconnecting"]
     IN  Becomes(IF s.conns[c].writeComplete THEN Queue(t, <<"late", c>>) ELSE t)

PasvTimer(k) ==
  /\ <<"timer", k>> \in s.ready
  /\ Becomes(IF k \in s.timers THEN pasvTimeout(Handled(<<"timer", k>>), k)
             ELSE Handled(<<"timer", k>>))

Without(tasks, i) == SubSeq(tasks, 1, i - 1) \o SubSeq(tasks, i + 1, Len(tasks))

(***************************************************************************)
(* A disk thread finishes one of the tasks being worked on and queues the  *)
(* result.  pread on a closed descriptor fails, on one that was opened     *)
(* again it reads another file.                                            *)
(***************************************************************************)
DiskDone(i, good) ==
  LET t == s.pool[i]
      file == IF t.source = "fd" /\ t.fd # 0 THEN s.fds[t.fd] ELSE "closed"
      failed == t.source = "fd" /\ (file = "closed" \/ ~good)
      empty == IF t.source = "fd" THEN failed \/ t.at > env.k ELSE t.longNames /\ ~good
      data == IF empty THEN Nothing ELSE <<IF t.source = "fd" THEN file ELSE "dir", t.at>>
  IN  Becomes([s EXCEPT !.pool = Without(@, i),
                        !.q = Append(@, <<"chunk", t.gen, data,
                                          t.source = "fd" /\ empty /\ ~failed, failed>>)])

DiskStep == \E i \in 1..Workers, good \in Outcomes : i <= Len(s.pool) /\ DiskDone(i, good)

WriteComplete(t, accepted) == IF t.xfer_ # "kNone" THEN requestNextChunk(t, accepted) ELSE t

(***************************************************************************)
(* One functor of the batch.                                               *)
(***************************************************************************)
Functor(f, t, accepted, wr) ==
  CASE f[1] = "chunk" -> sendChunkReady(t, f[2], f[3], f[4], f[5], wr)
    [] f[1] = "closeDataServer" -> closeDataServer(t)
    [] f[1] = "delete" -> deleteServer(t, f[2])
    [] f[1] = "forceClose" -> IF t.conns[f[2]].state = "disconnecting" THEN handleClose(t, f[2]) ELSE t
    [] f[1] = "bound" -> WriteComplete(t, accepted)
    [] f[1] = "late" -> IF t.conns[f[2]].writeComplete THEN WriteComplete(t, accepted) ELSE Crash(t)

RunFunctor ==
  /\ s.batch # <<>>
  /\ \E accepted \in Outcomes, wr \in Writes :
       Becomes(Functor(Head(s.batch), [s EXCEPT !.batch = Tail(@)], accepted, wr))

HandleEvent ==
  \/ cmdUser \/ cmdPass \/ Pasv \/ cmdList \/ cmdRetr \/ cmdQuit \/ ControlDown
  \/ \E k \in 1..MaxPasv : DataConnect(k) \/ PasvTimer(k)
  \/ \E c \in 1..MaxConns : DataClose(c) \/ DataWritable(c)

Next == Poll \/ HandleEvent \/ doPendingFunctors \/ RunFunctor \/ DiskStep

Spec == Init /\ [][Next]_vars

(***************************************************************************)
(* The loop keeps turning: a poll returns when a functor was queued or an  *)
(* event is due, every event is handled, every functor runs.  Due are the  *)
(* timers, and what the client does: it connects for the transfer it asked *)
(* for while it has its control connection, reads what is sent, and closes *)
(* the connection at EOF or when it is gone.  The disk threads keep        *)
(* working.                                                                *)
(***************************************************************************)
Due(e) ==
  \/ e[1] = "timer"
  \/ e[1] = "listen" /\ s.ctrl = "up" /\ s.turn = "transfer"
  \/ e[1] = "data" /\ (s.conns[e[2]].out > 0 \/ s.conns[e[2]].fin \/ s.conns[e[2]].reset)

Loop ==
  \/ s.q # <<>> /\ Poll
  \/ \E e \in ReadyEvents : Due(e) /\ PollFor({e})
  \/ HandleEvent \/ doPendingFunctors \/ RunFunctor

Fairness == WF_vars(Loop) /\ WF_vars(DiskStep)

FairSpec == Spec /\ Fairness

-----------------------------------------------------------------------------
States == {"kNeedUser", "kNeedPass", "kLoggedIn"}
Kinds == {"kNone", "kList", "kRetr"}
Phases == {"events", "functors"}
Turns == {"idle", "passive", "transfer", "confused"}
CtrlStates == {"up", "closing", "down"}
ServerStates == {"unused", "open", "deleted"}
ConnStates == {"unused", "connected", "disconnecting", "disconnected"}
Sources == {"dir"} \cup Files
Named == {""} \cup Sources
Contents == {"closed"} \cup Files
Replies == [code: {"", "226", "425", "426", "451", "550"}, of: Named, n: Nat]
Chunks == {Nothing} \cup (Sources \X Nat)
Events == {"ctrl", "timer", "listen", "data"} \X Nat
Tasks == [gen: Nat, source: {"fd", "dir"}, fd: 0..(MaxXfers + 1), longNames: BOOLEAN, at: Nat]
Functors ==
  ({"chunk"} \X Nat \X Chunks \X BOOLEAN \X BOOLEAN) \cup {<<"closeDataServer">>}
  \cup ({"delete"} \X (1..MaxPasv)) \cup ({"forceClose", "bound", "late"} \X (1..MaxConns))
Conns == [state: ConnStates, server: 0..MaxPasv, out: Nat, fin: BOOLEAN, reset: BOOLEAN,
          writeComplete: BOOLEAN]

SessionRecord ==
  [state_: States, ctrl: CtrlStates, dataServer_: 0..MaxPasv, dataConn_: 0..MaxConns,
   xfer_: Kinds, xferDone_: BOOLEAN, xferFile_: Named, xferFd_: 0..(MaxXfers + 1),
   nextReadOffset_: Nat, xferGen_: Nat, xferDir_: Nat, longNameList_: BOOLEAN,
   pasvTimerId_: 0..MaxPasv, timers: SUBSET (1..MaxPasv), q: Seq(Functors),
   batch: Seq(Functors), pool: Seq(Tasks), phase: Phases, ready: SUBSET Events, heard: Turns,
   servers: [1..MaxPasv -> ServerStates], conns: [1..MaxConns -> Conns], fds: [Fds -> Contents],
   crashed: BOOLEAN, alive: BOOLEAN, turn: Turns, last: Replies, sent: Seq(Chunks),
   source: Named, xfers: Nat]

(***************************************************************************)
(* Types; and the current data server still exists.                        *)
(***************************************************************************)
TypeOK ==
  /\ s \in SessionRecord
  /\ s.dataServer_ # 0 => s.servers[s.dataServer_] = "open"

(***************************************************************************)
(* A transfer has its source: the file or the directory of a transfer with *)
(* a live data connection is open, so that requestNextChunk never works on *)
(* one that is not.                                                        *)
(***************************************************************************)
HasSource(t) ==
  Connected(t) => /\ t.xfer_ = "kRetr" => t.xferFd_ # 0 /\ t.fds[t.xferFd_] = t.xferFile_
                  /\ t.xfer_ = "kList" => t.xferDir_ # 0

(***************************************************************************)
(* Transfers are kept apart, whatever the client does.  A chunk is sent    *)
(* only for the transfer it was read for, also when its descriptor was     *)
(* closed and opened again for another file (the generation test of        *)
(* sendChunkReady), and the source of a transfer is open while it lasts.   *)
(***************************************************************************)
TransfersApart ==
  /\ TypeOK
  /\ HasSource(s)
  /\ \A i \in DOMAIN s.sent : s.sent[i][1] = s.source

(***************************************************************************)
(* For a client that waits for its replies the pump (requestNextChunk,     *)
(* pread, send, writeComplete) sends the chunks in order, each once, and   *)
(* 226 means all of them.                                                  *)
(***************************************************************************)
StreamInOrder ==
  env.client = "polite" /\ env.disk = "ok" =>
    /\ \A i \in DOMAIN s.sent : s.sent[i][2] = i
    /\ s.last.code = "226" => s.last.n = env.k

(***************************************************************************)
(* For a client that waits for its replies, every descriptor opened for a  *)
(* transfer is still the session's, until abortTransfer or the destructor  *)
(* closes it, neither a null dataConn_ nor an empty writeCompleteCallback_ *)
(* is ever called, and no server is deleted while it holds a connection    *)
(* that is being closed.                                                   *)
(***************************************************************************)
DescriptorsOwned ==
  env.client = "polite" =>
    /\ ~s.crashed
    /\ \A f \in Fds : s.fds[f] # "closed" => s.alive /\ f = s.xferFd_

(***************************************************************************)
(* One transfer command, one final reply, while files can be opened.       *)
(***************************************************************************)
OneFinalReply == env.client = "polite" /\ env.disk = "ok" => s.turn # "confused"

(***************************************************************************)
(* The port announced by 227 stays open until it is used or 425 says that  *)
(* it is closed: no closeDataServer left over from the transfer before     *)
(* reaches the new server.  (After a 425 that crossed with a connection    *)
(* it may: the deleted server's connection queues one.)                    *)
(***************************************************************************)
PortStaysOpen ==
  env.client = "polite" /\ env.disk = "ok" /\ ~env.aborts /\ s.last.code # "425"
  /\ s.ctrl = "up" /\ s.turn = "passive"
     => s.dataServer_ # 0

(***************************************************************************)
(* handleDataConnected refuses a second data connection and closes that    *)
(* one ("...refuse the second one, close it at once"): a client that never *)
(* closes early is never told 426, connection closed; transfer aborted.    *)
(***************************************************************************)
SecondRefused == ~env.aborts => s.last.code # "426"

(***************************************************************************)
(* Every transfer that was promised by 150 gets its final reply.           *)
(***************************************************************************)
TransferEnds ==
  (env.client = "polite" /\ env.disk = "ok" /\ s.turn = "transfer")
     ~> (s.turn # "transfer" \/ s.ctrl # "up")

(***************************************************************************)
(* A session whose control connection is gone is destroyed ("...FtpSession *)
(* is destructed along with it"), except where exactly one of the data     *)
(* connection and the transfer command has come: no timer waits then.      *)
(***************************************************************************)
SessionEnds ==
  (env.client = "polite" /\ env.disk = "ok" /\ s.ctrl = "down")
     ~> (~s.alive \/ (s.dataConn_ # 0) # (s.xfer_ # "kNone"))

-----------------------------------------------------------------------------
(* The invariant that keeps transfers apart. *)

(***************************************************************************)
(* What was read, or is being read, for the transfer of this generation is *)
(* of its source; what belongs to an earlier one is let through nowhere.   *)
(***************************************************************************)
Current(t, gen) == gen = t.xferGen_ /\ t.xfer_ # "kNone"

FunctorApart(t, f) ==
  /\ f[1] = "chunk" => /\ f[2] <= t.xferGen_
                       /\ Current(t, f[2]) /\ f[3] # Nothing => f[3][1] = t.source
  /\ f[1] = "delete" => f[2] # t.dataServer_ /\ t.servers[f[2]] # "unused"

TaskApart(t, p) ==
  /\ p.gen <= t.xferGen_
  /\ Current(t, p.gen) =>
       IF p.source = "fd" THEN t.xfer_ = "kRetr" /\ p.fd # 0 /\ t.fds[p.fd] = t.source
       ELSE t.xfer_ = "kList"

Bookkept(t) ==
  /\ t \in SessionRecord
  /\ t.dataServer_ # 0 => t.servers[t.dataServer_] = "open"
  /\ t.dataConn_ # 0 => t.conns[t.dataConn_].state # "unused"
  /\ t.xfer_ = "kRetr" => t.source = t.xferFile_ /\ t.source \in Files
  /\ t.xfer_ = "kList" => t.source = "dir"
  /\ \A i \in DOMAIN t.sent : t.sent[i][1] = t.source
  /\ \A i \in DOMAIN t.q : FunctorApart(t, t.q[i])
  /\ \A i \in DOMAIN t.batch : FunctorApart(t, t.batch[i])
  /\ \A i \in DOMAIN t.pool : TaskApart(t, t.pool[i])

Apart(t) == Bookkept(t) /\ HasSource(t)

ApartInv == env \in Environments /\ Apart(s)
=============================================================================
