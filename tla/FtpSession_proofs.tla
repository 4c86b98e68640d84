-------------------------- MODULE FtpSession_proofs --------------------------
(***************************************************************************)
(* Proofs about FtpSession for any files, disk threads, environment and    *)
(* length of the dialogue: whatever the client does, what is sent on a     *)
(* data connection was read for the transfer it is sent for.  Every method *)
(* of the session keeps Apart, on any state record, so that a method is    *)
(* treated once however it is reached.                                     *)
(***************************************************************************)
EXTENDS FtpSession, SequenceTheorems, WellFoundedInduction, TLAPS

USE FtpAssumption

-----------------------------------------------------------------------------
(* Sequences and records. *)

(***************************************************************************)
(* What Append does, place by place.                                       *)
(***************************************************************************)
LEMMA AppendFacts ==
  ASSUME NEW S, NEW u \in Seq(S), NEW e \in S
  PROVE  /\ Append(u, e) \in Seq(S)
         /\ \A i \in DOMAIN Append(u, e) : \/ i \in DOMAIN u /\ Append(u, e)[i] = u[i]
                                           \/ Append(u, e)[i] = e
OBVIOUS

(***************************************************************************)
(* A session may be told a reply, lose its connections one by one and have *)
(* work queued that is no chunk and deletes nothing: its transfers stay    *)
(* apart.                                                                  *)
(***************************************************************************)
Harmless == { f \in Functors : f[1] \notin {"chunk", "delete"} }

Keeps(t, r) ==
  /\ r \in SessionRecord
  /\ r.dataServer_ = t.dataServer_ /\ r.servers = t.servers /\ r.dataConn_ = t.dataConn_
  /\ r.xfer_ = t.xfer_ /\ r.xferFile_ = t.xferFile_ /\ r.xferFd_ = t.xferFd_
  /\ r.xferGen_ = t.xferGen_ /\ r.xferDir_ = t.xferDir_ /\ r.fds = t.fds /\ r.pool = t.pool
  /\ r.batch = t.batch /\ r.sent = t.sent /\ r.source = t.source
  /\ r.q = t.q \/ \E f \in Harmless : r.q = Append(t.q, f)
  /\ \A c \in 1..MaxConns : \/ r.conns[c].state = t.conns[c].state
                            \/ r.conns[c].state \in {"disconnecting", "disconnected"}

LEMMA KeepsApart ==
  ASSUME NEW t, NEW r, Bookkept(t), Keeps(t, r)
  PROVE  Bookkept(r) /\ (HasSource(t) => HasSource(r))
<1>1. t \in SessionRecord /\ r \in SessionRecord
  BY Zenon DEF Bookkept, Keeps
<1>2. t.q \in Seq(Functors) /\ t.dataConn_ \in 0..MaxConns
  BY <1>1 DEF SessionRecord
<1>3. Connected(r) => Connected(t)
  BY <1>2 DEF Connected, Keeps
<1>4. \A f : FunctorApart(t, f) => FunctorApart(r, f)
  BY Zenon DEF FunctorApart, Current, Keeps
<1>5. \A p : TaskApart(t, p) => TaskApart(r, p)
  BY Zenon DEF TaskApart, Current, Keeps
<1>6. \A i \in DOMAIN r.q : FunctorApart(r, r.q[i])
  <2>1. CASE r.q = t.q
    BY Zenon, <1>4, <2>1 DEF Bookkept
  <2>2. ASSUME NEW f \in Harmless, r.q = Append(t.q, f) PROVE \A i \in DOMAIN r.q : FunctorApart(r, r.q[i])
    <3>1. FunctorApart(r, f) /\ f \in Functors
      BY Zenon DEF Harmless, FunctorApart
    <3>2. \A i \in DOMAIN r.q : (i \in DOMAIN t.q /\ r.q[i] = t.q[i]) \/ r.q[i] = f
      BY <1>2, <2>2, <3>1, AppendFacts
    <3>3. QED
      BY Zenon, <1>4, <3>1, <3>2 DEF Bookkept
  <2>3. QED
    BY Zenon, <2>1, <2>2 DEF Keeps
<1>7. HasSource(t) => HasSource(r)
  BY Zenon, <1>3 DEF HasSource, Keeps
<1>8. r.dataConn_ # 0 => r.conns[r.dataConn_].state # "unused"
  BY <1>2 DEF Bookkept, Keeps
<1>9. QED
  BY Zenon, <1>1, <1>4, <1>5, <1>6, <1>7, <1>8 DEF Bookkept, Keeps

(***************************************************************************)
(* reply.                                                                  *)
(***************************************************************************)
LEMMA ReplyKeeps ==
  ASSUME NEW t \in SessionRecord, NEW code \in {"227", "150", "226", "425", "426", "451", "550"}
  PROVE  Keeps(t, reply(t, code))
<1> DEFINE r == reply(t, code)
<1>1. t.turn \in Turns /\ t.last \in Replies /\ t.source \in Named /\ t.sent \in Seq(Chunks)
  BY Zenon DEF SessionRecord
<1>2. PICK turn \in Turns, last \in Replies : r = [t EXCEPT !.turn = turn, !.last = last]
  <2>1. CASE t.ctrl # "up" \/ ~Polite
    <3>1. r = t
      BY Zenon, <2>1 DEF reply
    <3>2. t = [t EXCEPT !.turn = t.turn, !.last = t.last]
      BY Zenon DEF SessionRecord
    <3>3. QED
      BY Zenon, <1>1, <3>1, <3>2
  <2>2. CASE ~(t.ctrl # "up" \/ ~Polite)
    <3> DEFINE after == CASE code = "227" -> "passive"
                 [] code = "150" -> "transfer"
                 [] code = "425" -> IF t.turn = "transfer" THEN "confused" ELSE "idle"
                 [] OTHER -> IF t.turn = "transfer" THEN "idle" ELSE "confused"
               turn == IF t.turn = "confused" THEN t.turn ELSE after
               last == IF code \in {"227", "150"} THEN t.last
                       ELSE [code |-> code, of |-> t.source, n |-> Len(t.sent)]
    <3>1. r = [t EXCEPT !.turn = turn, !.last = last]
      BY Zenon, <2>2 DEF reply
    <3>2. turn \in Turns
      BY <1>1 DEF Turns
    <3>3. last \in Replies
      <4>1. Len(t.sent) \in Nat
        BY Zenon, <1>1, LenProperties
      <4>2. QED
        BY Zenon, <1>1, <4>1 DEF Replies
    <3> HIDE DEF turn, last
    <3>4. QED
      BY Zenon, <3>1, <3>2, <3>3
  <2>3. QED
    BY Zenon, <2>1, <2>2
<1> HIDE DEF r
<1>3. r \in SessionRecord
  BY ZenonT(40), <1>2 DEF SessionRecord
<1>4. /\ r.dataServer_ = t.dataServer_ /\ r.servers = t.servers /\ r.dataConn_ = t.dataConn_
      /\ r.xfer_ = t.xfer_ /\ r.xferFile_ = t.xferFile_ /\ r.xferFd_ = t.xferFd_
      /\ r.xferGen_ = t.xferGen_ /\ r.xferDir_ = t.xferDir_ /\ r.fds = t.fds /\ r.pool = t.pool
      /\ r.batch = t.batch /\ r.sent = t.sent /\ r.source = t.source /\ r.q = t.q
      /\ r.conns = t.conns
  BY Zenon, <1>2 DEF SessionRecord
<1>5. QED
  BY Zenon, <1>3, <1>4 DEF Keeps, r

(***************************************************************************)
(* The fields, one by one.                                                 *)
(***************************************************************************)
LEMMA Fields ==
  ASSUME NEW t \in SessionRecord
  PROVE  /\ t.dataServer_ \in 0..MaxPasv /\ t.dataConn_ \in 0..MaxConns /\ t.xfer_ \in Kinds
         /\ t.xferDone_ \in BOOLEAN /\ t.xferFile_ \in Named /\ t.xferFd_ \in 0..(MaxXfers + 1)
         /\ t.nextReadOffset_ \in Nat /\ t.xferGen_ \in Nat /\ t.xferDir_ \in Nat
         /\ t.longNameList_ \in BOOLEAN /\ t.pasvTimerId_ \in 0..MaxPasv
         /\ t.timers \in SUBSET (1..MaxPasv) /\ t.q \in Seq(Functors) /\ t.batch \in Seq(Functors)
         /\ t.pool \in Seq(Tasks) /\ t.servers \in [1..MaxPasv -> ServerStates]
         /\ t.conns \in [1..MaxConns -> Conns] /\ t.fds \in [Fds -> Contents]
         /\ t.sent \in Seq(Chunks) /\ t.source \in Named /\ t.xfers \in Nat
         /\ t.ready \in SUBSET Events /\ t.turn \in Turns
BY Zenon DEF SessionRecord

LEMMA QueueKeeps ==
  ASSUME NEW t \in SessionRecord, NEW f \in Harmless
  PROVE  Keeps(t, Queue(t, f)) /\ Queue(t, f).conns = t.conns
<1> DEFINE r == Queue(t, f)
<1>1. f \in Functors
  BY Zenon DEF Harmless
<1>2. Append(t.q, f) \in Seq(Functors)
  BY Zenon, <1>1, Fields, AppendFacts
<1>3. /\ r \in SessionRecord /\ r.q = Append(t.q, f)
      /\ r.dataServer_ = t.dataServer_ /\ r.servers = t.servers /\ r.dataConn_ = t.dataConn_
      /\ r.xfer_ = t.xfer_ /\ r.xferFile_ = t.xferFile_ /\ r.xferFd_ = t.xferFd_
      /\ r.xferGen_ = t.xferGen_ /\ r.xferDir_ = t.xferDir_ /\ r.fds = t.fds /\ r.pool = t.pool
      /\ r.batch = t.batch /\ r.sent = t.sent /\ r.source = t.source /\ r.conns = t.conns
  BY ZenonT(40), <1>2 DEF SessionRecord, Queue
<1> HIDE DEF r
<1>4. QED
  BY Zenon, <1>3 DEF Keeps, r

(***************************************************************************)
(* The functors that are no chunk and delete nothing.                      *)
(***************************************************************************)
LEMMA HarmlessFunctors ==
  /\ <<"closeDataServer">> \in Harmless
  /\ \A c \in 1..MaxConns : {<<"forceClose", c>>, <<"bound", c>>, <<"late", c>>} \subseteq Harmless
BY DEF Harmless, Functors

(***************************************************************************)
(* A connection's fields change, and it does not come up.                  *)
(***************************************************************************)
LEMMA ConnKeeps ==
  ASSUME NEW t \in SessionRecord, NEW c \in 1..MaxConns, NEW conn \in Conns,
         conn.state \in {t.conns[c].state, "disconnecting", "disconnected"},
         NEW r, r = [t EXCEPT !.conns = [t.conns EXCEPT ![c] = conn]]
  PROVE  Keeps(t, r) /\ r.conns = [t.conns EXCEPT ![c] = conn]
<1> DEFINE g == [t.conns EXCEPT ![c] = conn]
<1>1. t.conns \in [1..MaxConns -> Conns]
  BY Zenon, Fields
<1>2. g \in [1..MaxConns -> Conns]
  BY <1>1
<1>3. \A d \in 1..MaxConns : g[d] = IF d = c THEN conn ELSE t.conns[d]
  BY <1>1
<1> HIDE DEF g
<1>4. /\ r \in SessionRecord /\ r.conns = g /\ r.q = t.q
      /\ r.dataServer_ = t.dataServer_ /\ r.servers = t.servers /\ r.dataConn_ = t.dataConn_
      /\ r.xfer_ = t.xfer_ /\ r.xferFile_ = t.xferFile_ /\ r.xferFd_ = t.xferFd_
      /\ r.xferGen_ = t.xferGen_ /\ r.xferDir_ = t.xferDir_ /\ r.fds = t.fds /\ r.pool = t.pool
      /\ r.batch = t.batch /\ r.sent = t.sent /\ r.source = t.source
  BY ZenonT(40), <1>2 DEF SessionRecord, g
<1>5. \A d \in 1..MaxConns : \/ r.conns[d].state = t.conns[d].state
                             \/ r.conns[d].state \in {"disconnecting", "disconnected"}
  BY <1>3, <1>4
<1>6. QED
  BY Zenon, <1>4, <1>5 DEF Keeps, g

(***************************************************************************)
(* forceClose and shutdown.                                                *)
(***************************************************************************)
LEMMA ForceCloseKeeps ==
  ASSUME NEW t, Bookkept(t), NEW c \in 1..MaxConns
  PROVE  /\ Bookkept(forceClose(t, c)) /\ (HasSource(t) => HasSource(forceClose(t, c)))
         /\ c = t.dataConn_ => ~Connected(forceClose(t, c))
<1>0. t \in SessionRecord /\ t.conns \in [1..MaxConns -> Conns]
  BY Zenon, Fields DEF Bookkept
<1>1. CASE t.conns[c].state \in {"connected", "disconnecting"}
  <2> DEFINE conn == [t.conns[c] EXCEPT !.state = "disconnecting"]
             u == [t EXCEPT !.conns[c].state = "disconnecting"]
             r == Queue(u, <<"forceClose", c>>)
  <2>1. conn \in Conns /\ conn.state = "disconnecting"
    BY <1>0 DEF Conns, ConnStates
  <2>2. u = [t EXCEPT !.conns = [t.conns EXCEPT ![c] = conn]]
    BY <1>0 DEF SessionRecord
  <2>3. forceClose(t, c) = r
    BY Zenon, <1>1 DEF forceClose
  <2> HIDE DEF conn, u
  <2>4. Keeps(t, u) /\ u.conns = [t.conns EXCEPT ![c] = conn]
    BY <1>0, <2>1, <2>2, ConnKeeps
  <2>5. u \in SessionRecord
    BY Zenon, <2>4 DEF Keeps
  <2>6. Keeps(u, r) /\ r.conns = u.conns
    BY Zenon, <2>5, QueueKeeps, HarmlessFunctors
  <2>7. r.conns[c].state = "disconnecting" /\ r.dataConn_ = t.dataConn_
    <3>1. [t.conns EXCEPT ![c] = conn][c] = conn
      BY <1>0
    <3>2. r.conns[c] = conn
      BY Zenon, <2>4, <2>6, <3>1
    <3>3. r.dataConn_ = u.dataConn_ /\ u.dataConn_ = t.dataConn_
      BY Zenon, <2>4, <2>6 DEF Keeps
    <3>4. QED
      BY Zenon, <2>1, <3>2, <3>3
  <2> HIDE DEF r
  <2>8. c = t.dataConn_ => ~Connected(r)
    BY <2>7 DEF Connected
  <2>9. QED
    BY Zenon, <2>3, <2>4, <2>6, <2>8, KeepsApart
<1>2. CASE t.conns[c].state \notin {"connected", "disconnecting"}
  BY <1>2 DEF forceClose, Connected
<1>3. QED
  BY Zenon, <1>1, <1>2

LEMMA ShutdownKeeps ==
  ASSUME NEW t, Apart(t), NEW c \in 1..MaxConns
  PROVE  Apart(shutdown(t, c))
<1>0. t \in SessionRecord /\ t.conns \in [1..MaxConns -> Conns]
  BY Zenon, Fields DEF Bookkept, Apart
<1>1. CASE t.conns[c].state = "connected"
  <2> DEFINE conn == [t.conns[c] EXCEPT !.state = "disconnecting", !.fin = t.conns[c].out = 0]
             r == [t EXCEPT !.conns[c].state = "disconnecting", !.conns[c].fin = t.conns[c].out = 0]
  <2>1. conn \in Conns /\ conn.state = "disconnecting"
    BY Zenon, <1>0 DEF Conns, ConnStates
  <2>2. r = [t EXCEPT !.conns = [t.conns EXCEPT ![c] = conn]]
    BY ZenonT(40), <1>0 DEF SessionRecord, Conns
  <2>3. shutdown(t, c) = r
    BY Zenon, <1>1 DEF shutdown
  <2> HIDE DEF conn, r
  <2>4. Keeps(t, r)
    BY <1>0, <2>1, <2>2, ConnKeeps
  <2>5. QED
    BY Zenon, <2>3, <2>4, KeepsApart DEF Apart
<1>2. CASE t.conns[c].state # "connected"
  BY Zenon, <1>2 DEF shutdown
<1>3. QED
  BY Zenon, <1>1, <1>2

(***************************************************************************)
(* send: what is sent is of the transfer's source.                         *)
(***************************************************************************)
LEMMA SendKeeps ==
  ASSUME NEW t, Apart(t), NEW c \in 1..MaxConns, NEW data \in Chunks,
         data # Nothing => data[1] = t.source, NEW wr \in {"all", "part", "error"}
  PROVE  Apart(send(t, c, data, wr))
<1>0. t \in SessionRecord /\ t.conns \in [1..MaxConns -> Conns] /\ t.sent \in Seq(Chunks)
  BY Zenon, Fields DEF Bookkept, Apart
<1>1. SUFFICES ASSUME data # Nothing PROVE Apart(send(t, c, data, wr))
  BY Zenon DEF send
<1> DEFINE sent == Append(t.sent, data)
           u == [t EXCEPT !.sent = sent]
<1>2. sent \in Seq(Chunks) /\ \A i \in DOMAIN sent : sent[i][1] = t.source
  <2>1. \A i \in DOMAIN t.sent : t.sent[i][1] = t.source
    BY Zenon DEF Apart, Bookkept
  <2>2. /\ sent \in Seq(Chunks)
        /\ \A i \in DOMAIN sent : (i \in DOMAIN t.sent /\ sent[i] = t.sent[i]) \/ sent[i] = data
    BY <1>0, AppendFacts
  <2> HIDE DEF sent
  <2>3. QED
    BY Zenon, <1>1, <2>1, <2>2
<1> HIDE DEF sent
<1>3. /\ u \in SessionRecord /\ u.sent = sent /\ u.conns = t.conns /\ u.q = t.q
      /\ u.dataServer_ = t.dataServer_ /\ u.servers = t.servers /\ u.dataConn_ = t.dataConn_
      /\ u.xfer_ = t.xfer_ /\ u.xferFile_ = t.xferFile_ /\ u.xferFd_ = t.xferFd_
      /\ u.xferGen_ = t.xferGen_ /\ u.xferDir_ = t.xferDir_ /\ u.fds = t.fds /\ u.pool = t.pool
      /\ u.batch = t.batch /\ u.source = t.source
  BY ZenonT(40), <1>0, <1>2 DEF SessionRecord
<1> HIDE DEF u
<1>4. Apart(u)
  <2>1. \A f : FunctorApart(t, f) => FunctorApart(u, f)
    BY Zenon, <1>3 DEF FunctorApart, Current
  <2>2. \A p : TaskApart(t, p) => TaskApart(u, p)
    BY Zenon, <1>3 DEF TaskApart, Current
  <2>3. HasSource(u)
    BY Zenon, <1>3 DEF HasSource, Connected, Apart
  <2>4. QED
    BY Zenon, <1>2, <1>3, <2>1, <2>2, <2>3 DEF Apart, Bookkept
<1>5. ASSUME NEW conn \in Conns, conn.state = t.conns[c].state,
             NEW r, r = [u EXCEPT !.conns = [u.conns EXCEPT ![c] = conn]]
      PROVE  Apart(r)
  <2>1. Keeps(u, r)
    BY ZenonT(40), <1>3, <1>5, ConnKeeps
  <2>2. QED
    BY Zenon, <1>4, <2>1, KeepsApart DEF Apart
<1>6. CASE t.conns[c].out > 0
  <2> DEFINE conn == [t.conns[c] EXCEPT !.out = @ + 1]
             r == [t EXCEPT !.conns[c].out = @ + 1, !.sent = Append(@, data)]
  <2>0. t.conns[c] \in Conns /\ t.conns[c].out \in Nat /\ t.conns[c].out + 1 \in Nat
    BY <1>0 DEF Conns
  <2>1. conn \in Conns /\ conn.state = t.conns[c].state
    BY Zenon, <2>0 DEF Conns
  <2>2. r = [u EXCEPT !.conns = [u.conns EXCEPT ![c] = conn]]
    BY Zenon, <1>0, <1>3 DEF SessionRecord, u, sent
  <2>3. send(t, c, data, wr) = r
    BY Zenon, <1>1, <1>6 DEF send
  <2> HIDE DEF conn, r
  <2>4. QED
    BY Zenon, <1>5, <2>1, <2>2, <2>3
<1>7. CASE ~(t.conns[c].out > 0) /\ wr = "all"
  <2>1. Apart(Queue(u, <<"bound", c>>))
    <3>1. Keeps(u, Queue(u, <<"bound", c>>))
      BY Zenon, <1>3, QueueKeeps, HarmlessFunctors
    <3>2. QED
      BY Zenon, <1>4, <3>1, KeepsApart DEF Apart
  <2>2. send(t, c, data, wr) = IF t.conns[c].writeComplete THEN Queue(u, <<"bound", c>>) ELSE u
    BY Zenon, <1>1, <1>7 DEF send, u, sent
  <2>3. QED
    BY Zenon, <1>4, <2>1, <2>2
<1>8. CASE ~(t.conns[c].out > 0) /\ wr = "part"
  <2> DEFINE conn == [t.conns[c] EXCEPT !.out = 1]
             r == [t EXCEPT !.conns[c].out = 1, !.sent = Append(@, data)]
  <2>1. conn \in Conns /\ conn.state = t.conns[c].state
    BY SMTT(30), <1>0 DEF Conns
  <2>2. r = [u EXCEPT !.conns = [u.conns EXCEPT ![c] = conn]]
    BY Zenon, <1>0, <1>3 DEF SessionRecord, u, sent
  <2>3. send(t, c, data, wr) = r
    BY Zenon, <1>1, <1>8 DEF send
  <2> HIDE DEF conn, r
  <2>4. QED
    BY Zenon, <1>5, <2>1, <2>2, <2>3
<1>9. CASE ~(t.conns[c].out > 0) /\ wr = "error"
  <2> DEFINE conn == [t.conns[c] EXCEPT !.reset = TRUE]
             r == [t EXCEPT !.conns[c].reset = TRUE]
  <2>1. conn \in Conns /\ conn.state = t.conns[c].state
    BY Zenon, <1>0 DEF Conns
  <2>2. r = [t EXCEPT !.conns = [t.conns EXCEPT ![c] = conn]]
    BY <1>0 DEF SessionRecord
  <2>3. send(t, c, data, wr) = r
    BY Zenon, <1>1, <1>9 DEF send
  <2> HIDE DEF conn, r
  <2>4. Keeps(t, r)
    BY <1>0, <2>1, <2>2, ConnKeeps
  <2>5. QED
    BY Zenon, <2>3, <2>4, KeepsApart DEF Apart
<1>10. QED
  BY Zenon, <1>6, <1>7, <1>8, <1>9

(***************************************************************************)
(* abortTransfer: the transfer is over, and its generation too.            *)
(***************************************************************************)
LEMMA AbortKeeps ==
  ASSUME NEW t, Bookkept(t)
  PROVE  Apart(abortTransfer(t)) /\ abortTransfer(t).xfer_ = "kNone"
<1>0. t \in SessionRecord
  BY Zenon DEF Bookkept
<1> DEFINE r == abortTransfer(t)
           fds == [f \in Fds |-> IF f = t.xferFd_ THEN "closed" ELSE t.fds[f]]
           conns == [c \in DOMAIN t.conns |-> IF c = t.dataConn_
                       THEN [t.conns[c] EXCEPT !.writeComplete = FALSE] ELSE t.conns[c]]
           gen == t.xferGen_ + 1
<1>1. fds \in [Fds -> Contents]
  BY <1>0, Fields DEF Contents
<1>2. conns \in [1..MaxConns -> Conns] /\ \A c \in 1..MaxConns : conns[c].state = t.conns[c].state
  <2>1. t.conns \in [1..MaxConns -> Conns]
    BY Zenon, <1>0, Fields
  <2>2. QED
    BY Zenon, <2>1 DEF Conns
<1>3. t.xferGen_ \in Nat /\ gen \in Nat
  <2>1. t.xferGen_ \in Nat
    BY Zenon, <1>0, Fields
  <2>2. QED
    BY <2>1
<1>4. r = [t EXCEPT !.xfer_ = "kNone", !.xferDone_ = FALSE, !.xferFile_ = "", !.nextReadOffset_ = 0,
            !.xferGen_ = gen, !.fds = fds, !.xferFd_ = 0, !.xferDir_ = 0, !.conns = conns]
  BY <1>0 DEF abortTransfer, SessionRecord
<1> HIDE DEF fds, conns, gen, r
<1>5. "kNone" \in Kinds /\ "" \in Named /\ 0 \in Nat /\ 0 \in 0..(MaxXfers + 1) /\ FALSE \in BOOLEAN
  BY DEF Kinds, Named
<1>6. /\ r \in SessionRecord /\ r.conns = conns /\ r.q = t.q
      /\ r.dataServer_ = t.dataServer_ /\ r.servers = t.servers /\ r.dataConn_ = t.dataConn_
      /\ r.xfer_ = "kNone" /\ r.xferGen_ = gen /\ r.pool = t.pool
      /\ r.batch = t.batch /\ r.sent = t.sent /\ r.source = t.source
  BY ZenonT(40), <1>0, <1>1, <1>2, <1>3, <1>4, <1>5 DEF SessionRecord
<1>7. \A i \in Nat : i <= t.xferGen_ => i <= gen
  BY <1>3 DEF gen
<1>8. ASSUME NEW f \in Functors, FunctorApart(t, f) PROVE FunctorApart(r, f)
  <2>1. f[1] = "chunk" => f[2] \in Nat
    BY DEF Functors
  <2>2. QED
    BY Zenon, <1>6, <1>7, <1>8, <2>1 DEF FunctorApart, Current
<1>9. ASSUME NEW p \in Tasks, TaskApart(t, p) PROVE TaskApart(r, p)
  <2>1. p.gen \in Nat
    BY DEF Tasks
  <2>2. QED
    BY Zenon, <1>6, <1>7, <1>9, <2>1 DEF TaskApart, Current
<1>10. /\ \A i \in DOMAIN t.q : t.q[i] \in Functors
       /\ \A i \in DOMAIN t.batch : t.batch[i] \in Functors
       /\ \A i \in DOMAIN t.pool : t.pool[i] \in Tasks
  <2>1. t.q \in Seq(Functors) /\ t.batch \in Seq(Functors) /\ t.pool \in Seq(Tasks)
    BY Zenon, <1>0, Fields
  <2>2. QED
    BY <2>1
<1>11. r.dataConn_ # 0 => r.conns[r.dataConn_].state # "unused"
  <2>1. t.dataConn_ # 0 => t.dataConn_ \in 1..MaxConns
    BY <1>0, Fields
  <2>2. QED
    BY Zenon, <1>2, <1>6, <2>1 DEF Bookkept
<1>12. Bookkept(r)
  BY Zenon, <1>6, <1>8, <1>9, <1>10, <1>11 DEF Bookkept
<1>13. HasSource(r)
  BY <1>6 DEF HasSource
<1>14. QED
  BY Zenon, <1>6, <1>12, <1>13 DEF Apart, r

(***************************************************************************)
(* closeDataServer: the server that is to be deleted is current no more.   *)
(***************************************************************************)
LEMMA CloseServerKeeps ==
  ASSUME NEW t, Bookkept(t)
  PROVE  /\ Apart(closeDataServer(t)) /\ closeDataServer(t).servers = t.servers
         /\ closeDataServer(t).dataConn_ = 0 /\ closeDataServer(t).pool = t.pool
<1> DEFINE r == closeDataServer(t)
<1>0. /\ t \in SessionRecord /\ t.q \in Seq(Functors) /\ t.dataServer_ \in 0..MaxPasv
      /\ 0 \in 0..MaxPasv /\ 0 \in 0..MaxConns
  BY Fields DEF Bookkept
<1>1. PICK q : /\ r = [t EXCEPT !.dataConn_ = 0, !.dataServer_ = 0, !.q = q]
               /\ q \in Seq(Functors)
               /\ \A i \in DOMAIN q : \/ i \in DOMAIN t.q /\ q[i] = t.q[i]
                                      \/ t.dataServer_ # 0 /\ q[i] = <<"delete", t.dataServer_>>
  <2>1. CASE t.dataServer_ = 0
    <3>1. r = [t EXCEPT !.dataConn_ = 0]
      BY Zenon, <2>1 DEF closeDataServer
    <3>2. r = [t EXCEPT !.dataConn_ = 0, !.dataServer_ = 0, !.q = t.q]
      BY Zenon, <1>0, <2>1, <3>1 DEF SessionRecord
    <3>3. QED
      BY Zenon, <1>0, <3>2
  <2>2. CASE t.dataServer_ # 0
    <3> DEFINE f == <<"delete", t.dataServer_>>
    <3>1. r = Queue([[t EXCEPT !.dataConn_ = 0] EXCEPT !.dataServer_ = 0], f)
      BY Zenon, <2>2 DEF closeDataServer
    <3>2. r = [t EXCEPT !.dataConn_ = 0, !.dataServer_ = 0, !.q = Append(t.q, f)]
      BY <1>0, <3>1 DEF SessionRecord, Queue
    <3>3. f \in Functors
      BY <1>0, <2>2 DEF Functors
    <3> HIDE DEF f
    <3>4. /\ Append(t.q, f) \in Seq(Functors)
          /\ \A i \in DOMAIN Append(t.q, f) : \/ i \in DOMAIN t.q /\ Append(t.q, f)[i] = t.q[i]
                                              \/ Append(t.q, f)[i] = f
      BY Zenon, <1>0, <3>3, AppendFacts
    <3>5. QED
      BY Zenon, <2>2, <3>2, <3>4 DEF f
  <2>3. QED
    BY Zenon, <2>1, <2>2
<1> HIDE DEF r
<1>2. /\ r \in SessionRecord /\ r.conns = t.conns /\ r.q = q
      /\ r.dataServer_ = 0 /\ r.servers = t.servers /\ r.dataConn_ = 0
      /\ r.xfer_ = t.xfer_ /\ r.xferFile_ = t.xferFile_ /\ r.xferFd_ = t.xferFd_
      /\ r.xferGen_ = t.xferGen_ /\ r.xferDir_ = t.xferDir_ /\ r.fds = t.fds /\ r.pool = t.pool
      /\ r.batch = t.batch /\ r.sent = t.sent /\ r.source = t.source
  BY ZenonT(40), <1>0, <1>1 DEF SessionRecord
<1>3. \A p : TaskApart(t, p) => TaskApart(r, p)
  BY Zenon, <1>2 DEF TaskApart, Current
<1>4. ASSUME NEW f \in Functors, FunctorApart(t, f) PROVE FunctorApart(r, f)
  <2>1. f[1] = "delete" => f[2] # 0
    BY DEF Functors
  <2>2. QED
    BY Zenon, <1>2, <1>4, <2>1 DEF FunctorApart, Current
<1>5. t.dataServer_ # 0 => FunctorApart(r, <<"delete", t.dataServer_>>)
  <2>1. t.dataServer_ # 0 => t.servers[t.dataServer_] = "open"
    BY Zenon DEF Bookkept
  <2>2. QED
    BY <1>2, <2>1 DEF FunctorApart
<1>6. \A i \in DOMAIN r.q : FunctorApart(r, r.q[i])
  <2>1. \A i \in DOMAIN t.q : t.q[i] \in Functors
    BY <1>0
  <2>2. ASSUME NEW i \in DOMAIN q PROVE FunctorApart(r, q[i])
    <3>1. CASE i \in DOMAIN t.q /\ q[i] = t.q[i]
      BY Zenon, <1>4, <2>1, <3>1 DEF Bookkept
    <3>2. CASE t.dataServer_ # 0 /\ q[i] = <<"delete", t.dataServer_>>
      BY Zenon, <1>5, <3>2
    <3>3. QED
      BY Zenon, <1>1, <3>1, <3>2
  <2>3. QED
    BY Zenon, <1>2, <2>2
<1>7. \A i \in DOMAIN r.batch : FunctorApart(r, r.batch[i])
  <2>1. t.batch \in Seq(Functors)
    BY Zenon, <1>0, Fields
  <2>2. \A i \in DOMAIN t.batch : t.batch[i] \in Functors
    BY <2>1
  <2>3. QED
    BY Zenon, <1>2, <1>4, <2>2 DEF Bookkept
<1>8. HasSource(r)
  BY Zenon, <1>2 DEF HasSource, Connected
<1>9. Bookkept(r)
  BY Zenon, <1>2, <1>3, <1>6, <1>7 DEF Bookkept
<1>10. QED
  BY Zenon, <1>2, <1>8, <1>9 DEF Apart, r

(***************************************************************************)
(* transferRejected and sendDataEndReply.                                  *)
(***************************************************************************)
LEMMA QueueIsApart ==
  ASSUME NEW t, Apart(t), NEW f \in Harmless
  PROVE  Apart(Queue(t, f))
<1>1. t \in SessionRecord
  BY Zenon DEF Apart, Bookkept
<1>2. QED
  BY Zenon, <1>1, QueueKeeps, KeepsApart DEF Apart

LEMMA ReplyIsBookkept ==
  ASSUME NEW t, Bookkept(t), NEW code \in {"227", "150", "226", "425", "426", "451", "550"}
  PROVE  /\ Bookkept(reply(t, code)) /\ (HasSource(t) => HasSource(reply(t, code)))
         /\ Keeps(t, reply(t, code))
<1>1. t \in SessionRecord
  BY Zenon DEF Bookkept
<1>2. QED
  BY Zenon, <1>1, ReplyKeeps, KeepsApart

LEMMA FailIsApart ==
  ASSUME NEW t, Bookkept(t), NEW code \in {"451", "550"}
  PROVE  Apart(failTransfer(t, code))
<1> DEFINE u == abortTransfer(reply(t, code))
           v == IF u.dataConn_ # 0 THEN forceClose(u, u.dataConn_) ELSE u
<1>1. Bookkept(reply(t, code))
  BY Zenon, ReplyIsBookkept
<1>2. Apart(u)
  BY Zenon, <1>1, AbortKeeps
<1>3. u.dataConn_ # 0 => u.dataConn_ \in 1..MaxConns
  <2>1. u.dataConn_ \in 0..MaxConns
    BY Zenon, <1>2, Fields DEF Apart, Bookkept
  <2> HIDE DEF u
  <2>2. QED
    BY <2>1
<1> HIDE DEF u
<1>4. Apart(v)
  BY Zenon, <1>2, <1>3, ForceCloseKeeps DEF Apart
<1> HIDE DEF v
<1>5. Apart(Queue(v, <<"closeDataServer">>))
  BY Zenon, <1>4, QueueIsApart, HarmlessFunctors
<1>6. QED
  BY Zenon, <1>5 DEF failTransfer, u, v

(***************************************************************************)
(* A timer of the session is cancelled, set or has fired.                  *)
(***************************************************************************)
LEMMA TimersKeep ==
  ASSUME NEW t \in SessionRecord, NEW timers \in SUBSET (1..MaxPasv),
         NEW r, r = [t EXCEPT !.timers = timers]
  PROVE  Keeps(t, r)
<1>1. /\ r \in SessionRecord /\ r.conns = t.conns /\ r.q = t.q
      /\ r.dataServer_ = t.dataServer_ /\ r.servers = t.servers /\ r.dataConn_ = t.dataConn_
      /\ r.xfer_ = t.xfer_ /\ r.xferFile_ = t.xferFile_ /\ r.xferFd_ = t.xferFd_
      /\ r.xferGen_ = t.xferGen_ /\ r.xferDir_ = t.xferDir_ /\ r.fds = t.fds /\ r.pool = t.pool
      /\ r.batch = t.batch /\ r.sent = t.sent /\ r.source = t.source
  BY ZenonT(40) DEF SessionRecord
<1>2. QED
  BY Zenon, <1>1 DEF Keeps

LEMMA EndReplyIsApart ==
  ASSUME NEW t, Bookkept(t)
  PROVE  Apart(sendDataEndReply(t))
<1> DEFINE u == IF t.xfer_ # "kNone" THEN reply(t, "226") ELSE t
           v == [u EXCEPT !.timers = @ \ {u.pasvTimerId_}]
<1>1. Bookkept(u)
  BY Zenon, ReplyIsBookkept
<1> HIDE DEF u
<1>2. u \in SessionRecord /\ u.timers \ {u.pasvTimerId_} \in SUBSET (1..MaxPasv)
  BY Zenon, <1>1, Fields DEF Bookkept
<1>3. v = [u EXCEPT !.timers = u.timers \ {u.pasvTimerId_}]
  BY Zenon
<1> HIDE DEF v
<1>4. Keeps(u, v)
  BY Zenon, <1>2, <1>3, TimersKeep
<1>5. Bookkept(v)
  BY Zenon, <1>1, <1>4, KeepsApart
<1>6. QED
  BY Zenon, <1>5, AbortKeeps DEF sendDataEndReply, u, v

(***************************************************************************)
(* sendChunkReady and requestNextChunk.                                    *)
(***************************************************************************)
LEMMA CrashIsApart ==
  ASSUME NEW t, Apart(t)
  PROVE  Apart(Crash(t))
<1> DEFINE r == Crash(t)
<1>0. t \in SessionRecord
  BY Zenon DEF Apart, Bookkept
<1>1. /\ r \in SessionRecord /\ r.conns = t.conns /\ r.q = t.q
      /\ r.dataServer_ = t.dataServer_ /\ r.servers = t.servers /\ r.dataConn_ = t.dataConn_
      /\ r.xfer_ = t.xfer_ /\ r.xferFile_ = t.xferFile_ /\ r.xferFd_ = t.xferFd_
      /\ r.xferGen_ = t.xferGen_ /\ r.xferDir_ = t.xferDir_ /\ r.fds = t.fds /\ r.pool = t.pool
      /\ r.batch = t.batch /\ r.sent = t.sent /\ r.source = t.source
  BY ZenonT(40), <1>0 DEF SessionRecord, Crash
<1> HIDE DEF r
<1>2. Keeps(t, r)
  BY Zenon, <1>1 DEF Keeps
<1>3. QED
  BY Zenon, <1>2, KeepsApart DEF Apart, r

LEMMA ConnNumbers ==
  ASSUME NEW t, Bookkept(t)
  PROVE  /\ t.dataConn_ # 0 => t.dataConn_ \in 1..MaxConns
         /\ t.dataServer_ # 0 => t.dataServer_ \in 1..MaxPasv
<1>1. t.dataConn_ \in 0..MaxConns /\ t.dataServer_ \in 0..MaxPasv
  BY Zenon, Fields DEF Bookkept
<1>2. QED
  BY <1>1

LEMMA ChunkReadyIsApart ==
  ASSUME NEW t, Apart(t), NEW gen, NEW data \in Chunks, NEW atEof, NEW ioError,
         NEW wr \in {"all", "part", "error"},
         Current(t, gen) /\ data # Nothing => data[1] = t.source
  PROVE  Apart(sendChunkReady(t, gen, data, atEof, ioError, wr))
<1> DEFINE r == sendChunkReady(t, gen, data, atEof, ioError, wr)
           u == [t EXCEPT !.xferDone_ = TRUE]
<1>0. t \in SessionRecord /\ Bookkept(t)
  BY Zenon DEF Apart, Bookkept
<1>1. CASE ~Current(t, gen)
  BY Zenon, <1>1 DEF sendChunkReady, Current
<1>2. CASE Current(t, gen) /\ ioError
  BY Zenon, <1>0, <1>2, FailIsApart DEF sendChunkReady, Current
<1>3. CASE Current(t, gen) /\ ~ioError /\ data = Nothing /\ atEof /\ t.dataConn_ = 0
  BY Zenon, <1>3, CrashIsApart DEF sendChunkReady, Current
<1>4. CASE Current(t, gen) /\ ~ioError /\ data = Nothing /\ atEof /\ t.dataConn_ # 0
  <2>1. r = shutdown(u, t.dataConn_)
    BY Zenon, <1>4 DEF sendChunkReady, Current
  <2>2. /\ u \in SessionRecord /\ u.conns = t.conns /\ u.q = t.q
        /\ u.dataServer_ = t.dataServer_ /\ u.servers = t.servers /\ u.dataConn_ = t.dataConn_
        /\ u.xfer_ = t.xfer_ /\ u.xferFile_ = t.xferFile_ /\ u.xferFd_ = t.xferFd_
        /\ u.xferGen_ = t.xferGen_ /\ u.xferDir_ = t.xferDir_ /\ u.fds = t.fds /\ u.pool = t.pool
        /\ u.batch = t.batch /\ u.sent = t.sent /\ u.source = t.source
    BY ZenonT(40), <1>0 DEF SessionRecord
  <2> HIDE DEF u, r
  <2>3. Keeps(t, u)
    BY Zenon, <2>2 DEF Keeps
  <2>4. Apart(u)
    BY Zenon, <2>3, KeepsApart DEF Apart
  <2>5. t.dataConn_ \in 1..MaxConns
    BY Zenon, <1>0, <1>4, ConnNumbers
  <2>6. Apart(r)
    BY Zenon, <2>1, <2>4, <2>5, ShutdownKeeps
  <2>7. QED
    BY Zenon, <2>6 DEF r
<1>5. CASE Current(t, gen) /\ ~ioError /\ ~(data = Nothing /\ atEof) /\ ~Connected(t)
  BY Zenon, <1>5 DEF sendChunkReady, Current
<1>6. CASE Current(t, gen) /\ ~ioError /\ ~(data = Nothing /\ atEof) /\ Connected(t)
  <2>1. r = send(t, t.dataConn_, data, wr)
    BY Zenon, <1>6 DEF sendChunkReady, Current
  <2>2. t.dataConn_ \in 1..MaxConns
    BY Zenon, <1>0, <1>6, ConnNumbers DEF Connected
  <2> HIDE DEF r
  <2>3. data # Nothing => data[1] = t.source
    BY Zenon, <1>6
  <2>4. Apart(r)
    BY Zenon, <2>1, <2>2, <2>3, SendKeeps
  <2>5. QED
    BY Zenon, <2>4 DEF r
<1>7. QED
  BY Zenon, <1>1, <1>2, <1>3, <1>4, <1>5, <1>6

(***************************************************************************)
(* A task is queued that reads the source of the current transfer.         *)
(***************************************************************************)
LEMMA SubmitIsApart ==
  ASSUME NEW t, Apart(t), NEW task \in Tasks, TaskApart(t, task), NEW r \in SessionRecord,
         r.conns = t.conns, r.q = t.q,
         r.dataServer_ = t.dataServer_, r.servers = t.servers, r.dataConn_ = t.dataConn_,
         r.xfer_ = t.xfer_, r.xferFile_ = t.xferFile_, r.xferFd_ = t.xferFd_,
         r.xferGen_ = t.xferGen_, r.xferDir_ = 0 => t.xferDir_ = 0, r.fds = t.fds,
         r.pool = Append(t.pool, task) \/ r.pool = t.pool,
         r.batch = t.batch, r.sent = t.sent, r.source = t.source
  PROVE  Apart(r)
<1>0. t.pool \in Seq(Tasks)
  BY Zenon, Fields DEF Apart, Bookkept
<1>1. \A f : FunctorApart(t, f) => FunctorApart(r, f)
  BY Zenon DEF FunctorApart, Current
<1>2. \A p : TaskApart(t, p) => TaskApart(r, p)
  BY Zenon DEF TaskApart, Current
<1>3. \A i \in DOMAIN r.pool : TaskApart(r, r.pool[i])
  <2>1. \A i \in DOMAIN Append(t.pool, task) :
          (i \in DOMAIN t.pool /\ Append(t.pool, task)[i] = t.pool[i]) \/ Append(t.pool, task)[i] = task
    BY <1>0, AppendFacts
  <2>2. \A i \in DOMAIN t.pool : TaskApart(t, t.pool[i])
    BY Zenon DEF Apart, Bookkept
  <2>3. QED
    BY Zenon, <1>2, <2>1, <2>2
<1>4. HasSource(r)
  BY Zenon DEF HasSource, Connected, Apart
<1>5. QED
  BY Zenon, <1>1, <1>2, <1>3, <1>4 DEF Apart, Bookkept

LEMMA RequestIsApart ==
  ASSUME NEW t, Apart(t), NEW accepted \in BOOLEAN
  PROVE  Apart(requestNextChunk(t, accepted))
<1> DEFINE retr == t.xfer_ = "kRetr"
           task == [gen |-> t.xferGen_, source |-> IF retr THEN "fd" ELSE "dir", fd |-> t.xferFd_,
                    longNames |-> t.longNameList_,
                    at |-> IF retr THEN t.nextReadOffset_ + 1 ELSE t.xferDir_]
           read == IF retr THEN [t EXCEPT !.nextReadOffset_ = @ + 1] ELSE [t EXCEPT !.xferDir_ = @ + 1]
           queued == [read EXCEPT !.pool = Append(@, task)]
           r == requestNextChunk(t, accepted)
<1>0. t \in SessionRecord /\ Bookkept(t) /\ HasSource(t)
  BY Zenon DEF Apart, Bookkept
<1>1. CASE t.xfer_ = "kNone" \/ ~Connected(t)
  BY Zenon, <1>1 DEF requestNextChunk
<1>2. CASE t.xfer_ # "kNone" /\ Connected(t)
  <2>1. task \in Tasks /\ TaskApart(t, task)
    <3>1. /\ t.xferGen_ \in Nat /\ t.nextReadOffset_ \in Nat /\ t.xferDir_ \in Nat
          /\ t.xferFd_ \in 0..(MaxXfers + 1) /\ t.longNameList_ \in BOOLEAN /\ t.xfer_ \in Kinds
      BY Zenon, <1>0, Fields
    <3>2. t.nextReadOffset_ + 1 \in Nat /\ t.xferGen_ <= t.xferGen_
      BY <3>1
    <3>3. task \in Tasks
      BY Zenon, <3>1, <3>2 DEF Tasks
    <3>4. /\ task.gen = t.xferGen_ /\ task.fd = t.xferFd_
          /\ task.source = IF retr THEN "fd" ELSE "dir"
      BY Zenon
    <3> HIDE DEF task
    <3>5. CASE retr
      <4>1. t.source = t.xferFile_ /\ t.xferFd_ # 0 /\ t.fds[t.xferFd_] = t.xferFile_
        BY Zenon, <1>0, <1>2, <3>5 DEF Bookkept, HasSource
      <4>2. QED
        BY Zenon, <3>2, <3>3, <3>4, <3>5, <4>1 DEF TaskApart
    <3>6. CASE ~retr
      <4>1. t.xfer_ = "kList"
        BY Zenon, <1>2, <3>1, <3>6 DEF Kinds
      <4>2. task.source # "fd"
        BY <3>4, <3>6
      <4>3. QED
        BY Zenon, <3>2, <3>3, <3>4, <4>1, <4>2 DEF TaskApart
    <3>7. QED
      BY Zenon, <3>5, <3>6
  <2> HIDE DEF task
  <2>2. /\ read \in SessionRecord /\ read.conns = t.conns /\ read.q = t.q
        /\ read.dataServer_ = t.dataServer_ /\ read.servers = t.servers
        /\ read.dataConn_ = t.dataConn_ /\ read.xfer_ = t.xfer_ /\ read.xferFile_ = t.xferFile_
        /\ read.xferFd_ = t.xferFd_ /\ read.xferGen_ = t.xferGen_
        /\ (read.xferDir_ = 0 => t.xferDir_ = 0) /\ read.fds = t.fds /\ read.pool = t.pool
        /\ read.batch = t.batch /\ read.sent = t.sent /\ read.source = t.source
    <3>1. /\ t.nextReadOffset_ + 1 \in Nat
          /\ t.xferDir_ + 1 \in Nat /\ t.xferDir_ + 1 # 0
      <4>1. t.nextReadOffset_ \in Nat /\ t.xferDir_ \in Nat
        BY Zenon, <1>0, Fields
      <4>2. QED
        BY <4>1
    <3>2. CASE retr
      BY ZenonT(40), <1>0, <3>1, <3>2 DEF SessionRecord
    <3>3. CASE ~retr
      BY ZenonT(40), <1>0, <3>1, <3>3 DEF SessionRecord
    <3>4. QED
      BY Zenon, <3>2, <3>3
  <2> HIDE DEF read
  <2>3. Apart(read)
    BY Zenon, <2>1, <2>2, SubmitIsApart
  <2>4. Apart(queued)
    <3>1. Append(t.pool, task) \in Seq(Tasks)
      <4>1. t.pool \in Seq(Tasks)
        BY Zenon, <1>0, Fields
      <4>2. QED
        BY Zenon, <2>1, <4>1, AppendFacts
    <3>2. /\ queued \in SessionRecord /\ queued.conns = t.conns /\ queued.q = t.q
          /\ queued.dataServer_ = t.dataServer_ /\ queued.servers = t.servers
          /\ queued.dataConn_ = t.dataConn_ /\ queued.xfer_ = t.xfer_
          /\ queued.xferFile_ = t.xferFile_ /\ queued.xferFd_ = t.xferFd_
          /\ queued.xferGen_ = t.xferGen_ /\ (queued.xferDir_ = 0 => t.xferDir_ = 0)
          /\ queued.fds = t.fds /\ queued.pool = Append(t.pool, task)
          /\ queued.batch = t.batch /\ queued.sent = t.sent /\ queued.source = t.source
      BY ZenonT(40), <2>2, <3>1 DEF SessionRecord
    <3> HIDE DEF queued
    <3>3. QED
      BY Zenon, <2>1, <3>2, SubmitIsApart
  <2>5. Apart(failTransfer(read, "451"))
    <3>1. Bookkept(read)
      BY Zenon, <2>3 DEF Apart
    <3>2. QED
      BY Zenon, <3>1, FailIsApart
  <2>6. Apart(sendChunkReady(t, t.xferGen_, Nothing, TRUE, FALSE, "all"))
    <3>1. Nothing \in Chunks
      BY DEF Chunks
    <3>2. QED
      BY Zenon, <3>1, ChunkReadyIsApart
  <2>7. Apart(Crash(t))
    BY Zenon, CrashIsApart
  <2>8. \/ r = Crash(t) \/ r = sendChunkReady(t, t.xferGen_, Nothing, TRUE, FALSE, "all")
        \/ r = queued \/ r = failTransfer(read, "451")
    BY Zenon, <1>2 DEF requestNextChunk, queued, read, task
  <2>9. QED
    BY Zenon, <2>4, <2>5, <2>6, <2>7, <2>8
<1>3. QED
  BY Zenon, <1>1, <1>2

(***************************************************************************)
(* There is a lowest free descriptor.                                      *)
(***************************************************************************)
LEMMA LowestFree ==
  ASSUME NEW T, T \subseteq Nat, T # {}
  PROVE  \E f \in T : \A g \in T : f <= g
<1> DEFINE R == OpToRel(<, Nat)
<1>1. IsWellFoundedOn(R, Nat)
  BY Zenon, NatLessThanWellFounded
<1>2. \A m, n \in Nat : m < n => <<m, n>> \in R
  BY DEF OpToRel
<1> HIDE DEF R
<1>3. PICK x \in T : \A y \in T : ~ (<<y, x>> \in R)
  BY Zenon, <1>1, WFMin
<1>4. ASSUME NEW g \in T PROVE x <= g
  <2>1. x \in Nat /\ g \in Nat /\ ~ (g < x)
    BY Zenon, <1>2, <1>3
  <2>2. QED
    BY <2>1
<1>5. QED
  BY Zenon, <1>4

(***************************************************************************)
(* tryStartTransfer: the source is opened, or the connection goes away.    *)
(***************************************************************************)
LEMMA StartIsApart ==
  ASSUME NEW t, Bookkept(t), NEW opens \in BOOLEAN, NEW accepted \in BOOLEAN
  PROVE  Apart(tryStartTransfer(t, opens, accepted))
<1> DEFINE r == tryStartTransfer(t, opens, accepted)
<1>0. t \in SessionRecord /\ t.fds \in [Fds -> Contents] /\ t.xfer_ \in Kinds
  BY Zenon, Fields DEF Bookkept
<1>1. CASE ~Connected(t) \/ t.xfer_ = "kNone"
  <2>1. HasSource(t)
    BY <1>1 DEF HasSource
  <2>2. QED
    BY Zenon, <1>1, <2>1 DEF tryStartTransfer, Apart
<1>2. ASSUME NEW u \in SessionRecord, u.conns = t.conns, u.q = t.q,
             u.dataServer_ = t.dataServer_, u.servers = t.servers, u.dataConn_ = t.dataConn_,
             u.xfer_ = t.xfer_, u.xferFile_ = t.xferFile_, u.xferGen_ = t.xferGen_,
             u.pool = t.pool, u.batch = t.batch, u.sent = t.sent, u.source = t.source,
             \A p \in Tasks : TaskApart(t, p) => TaskApart(u, p)
      PROVE  Bookkept(u)
  <2>1. \A f : FunctorApart(t, f) => FunctorApart(u, f)
    BY Zenon, <1>2 DEF FunctorApart, Current
  <2>2. \A i \in DOMAIN t.pool : t.pool[i] \in Tasks
    <3>1. t.pool \in Seq(Tasks)
      BY Zenon, <1>0, Fields
    <3>2. QED
      BY <3>1
  <2>3. \A i \in DOMAIN u.pool : TaskApart(u, u.pool[i])
    BY Zenon, <1>2, <2>2 DEF Bookkept
  <2>4. QED
    BY Zenon, <1>2, <2>1, <2>3 DEF Bookkept
<1>3. CASE Connected(t) /\ t.xfer_ # "kNone" /\ (~opens \/ FreeFds(t) = {})
  <2> DEFINE u == IF t.xfer_ = "kRetr" THEN [t EXCEPT !.xferFd_ = 0] ELSE [t EXCEPT !.xferDir_ = 0]
             v == reply(u, "550")
             w == forceClose(v, t.dataConn_)
  <2>1. /\ u \in SessionRecord /\ u.conns = t.conns /\ u.q = t.q
        /\ u.dataServer_ = t.dataServer_ /\ u.servers = t.servers /\ u.dataConn_ = t.dataConn_
        /\ u.xfer_ = t.xfer_ /\ u.xferFile_ = t.xferFile_ /\ u.xferGen_ = t.xferGen_
        /\ u.pool = t.pool /\ u.batch = t.batch /\ u.sent = t.sent /\ u.source = t.source
        /\ u.fds = t.fds
    <3>1. 0 \in 0..(MaxXfers + 1) /\ 0 \in Nat
      OBVIOUS
    <3>2. CASE t.xfer_ = "kRetr"
      BY ZenonT(40), <1>0, <3>1, <3>2 DEF SessionRecord
    <3>3. CASE t.xfer_ # "kRetr"
      BY ZenonT(40), <1>0, <3>1, <3>3 DEF SessionRecord
    <3>4. QED
      BY Zenon, <3>2, <3>3
  <2>2. r = Queue(w, <<"closeDataServer">>)
    BY Zenon, <1>3 DEF tryStartTransfer
  <2> HIDE DEF u, v, w, r
  <2>3. \A p \in Tasks : TaskApart(t, p) => TaskApart(u, p)
    BY Zenon, <2>1 DEF TaskApart, Current
  <2>4. Bookkept(u)
    BY Zenon, <1>2, <2>1, <2>3
  <2>5. Bookkept(v) /\ v.dataConn_ = t.dataConn_
    BY Zenon, <2>1, <2>4, ReplyIsBookkept DEF v, Keeps
  <2>6. t.dataConn_ \in 1..MaxConns
    BY Zenon, <1>3, ConnNumbers DEF Connected
  <2>7. Bookkept(w) /\ ~Connected(w)
    BY Zenon, <2>5, <2>6, ForceCloseKeeps DEF w
  <2>8. Apart(w)
    BY Zenon, <2>7 DEF Apart, HasSource
  <2>9. Apart(r)
    BY Zenon, <2>2, <2>8, QueueIsApart, HarmlessFunctors
  <2>10. QED
    BY Zenon, <2>9 DEF r
<1>4. CASE Connected(t) /\ t.xfer_ # "kNone" /\ opens /\ FreeFds(t) # {}
  <2> DEFINE fd == CHOOSE f \in FreeFds(t) : \A g \in FreeFds(t) : f <= g
             fds == [t.fds EXCEPT ![fd] = t.xferFile_]
             u == IF t.xfer_ = "kRetr" THEN [t EXCEPT !.xferFd_ = fd, !.fds[fd] = t.xferFile_]
                  ELSE [t EXCEPT !.xferDir_ = 1]
  <2>1. fd \in FreeFds(t)
    <3>1. FreeFds(t) \subseteq Nat
      BY DEF FreeFds, Fds
    <3>2. \E f \in FreeFds(t) : \A g \in FreeFds(t) : f <= g
      BY Zenon, <1>4, <3>1, LowestFree
    <3>3. QED
      BY Zenon, <3>2
  <2>2. r = requestNextChunk(u, accepted)
    BY Zenon, <1>4 DEF tryStartTransfer
  <2> HIDE DEF fd, r
  <2>3. fd \in Fds /\ fd \in 0..(MaxXfers + 1) /\ fd # 0 /\ 1 \in Nat /\ 1 # 0
    BY <2>1 DEF FreeFds, Fds
  <2>4. CASE t.xfer_ = "kRetr"
    <3>0. t.source = t.xferFile_ /\ t.xferFile_ \in Contents
      BY Zenon, <2>4 DEF Bookkept, Contents
    <3>1. fds \in [Fds -> Contents] /\ \A f \in Fds : fds[f] = IF f = fd THEN t.xferFile_ ELSE t.fds[f]
      BY Zenon, <1>0, <2>3, <3>0
    <3>2. u = [t EXCEPT !.xferFd_ = fd, !.fds = fds]
      BY Zenon, <1>0, <2>4 DEF SessionRecord
    <3> HIDE DEF fds, u
    <3>3. /\ u \in SessionRecord /\ u.conns = t.conns /\ u.q = t.q
          /\ u.dataServer_ = t.dataServer_ /\ u.servers = t.servers /\ u.dataConn_ = t.dataConn_
          /\ u.xfer_ = t.xfer_ /\ u.xferFile_ = t.xferFile_ /\ u.xferGen_ = t.xferGen_
          /\ u.pool = t.pool /\ u.batch = t.batch /\ u.sent = t.sent /\ u.source = t.source
          /\ u.fds = fds /\ u.xferFd_ = fd
      BY ZenonT(40), <1>0, <2>3, <3>1, <3>2 DEF SessionRecord
    <3>4. ASSUME NEW p \in Tasks, TaskApart(t, p) PROVE TaskApart(u, p)
      <4>1. p.fd # 0 => p.fd \in Fds
        BY DEF Tasks, Fds
      <4>2. p.fd # 0 /\ t.fds[p.fd] = t.source => fds[p.fd] = t.source
        BY Zenon, <3>0, <3>1, <4>1
      <4>3. QED
        BY Zenon, <3>3, <3>4, <4>2 DEF TaskApart, Current
    <3>5. Bookkept(u)
      BY Zenon, <1>2, <3>3, <3>4
    <3>6. HasSource(u)
      <4>1. u.xferFd_ # 0 /\ u.fds[u.xferFd_] = u.xferFile_ /\ u.xfer_ # "kList"
        BY <2>3, <2>4, <3>1, <3>3
      <4>2. QED
        BY Zenon, <4>1 DEF HasSource
    <3>7. QED
      BY Zenon, <2>2, <3>5, <3>6, RequestIsApart DEF Apart, r
  <2>5. CASE t.xfer_ # "kRetr"
    <3>1. u = [t EXCEPT !.xferDir_ = 1]
      BY Zenon, <2>5
    <3> HIDE DEF u
    <3>2. /\ u \in SessionRecord /\ u.conns = t.conns /\ u.q = t.q
          /\ u.dataServer_ = t.dataServer_ /\ u.servers = t.servers /\ u.dataConn_ = t.dataConn_
          /\ u.xfer_ = t.xfer_ /\ u.xferFile_ = t.xferFile_ /\ u.xferGen_ = t.xferGen_
          /\ u.pool = t.pool /\ u.batch = t.batch /\ u.sent = t.sent /\ u.source = t.source
          /\ u.fds = t.fds /\ u.xferDir_ = 1
      BY ZenonT(40), <1>0, <2>3, <3>1 DEF SessionRecord
    <3>3. \A p \in Tasks : TaskApart(t, p) => TaskApart(u, p)
      BY Zenon, <3>2 DEF TaskApart, Current
    <3>4. Bookkept(u)
      BY Zenon, <1>2, <3>2, <3>3
    <3>5. HasSource(u)
      BY Zenon, <2>3, <2>5, <3>2 DEF HasSource
    <3>6. QED
      BY Zenon, <2>2, <3>4, <3>5, RequestIsApart DEF Apart, r
  <2>6. QED
    BY Zenon, <2>4, <2>5
<1>5. QED
  BY Zenon, <1>1, <1>3, <1>4

(***************************************************************************)
(* A data connection goes down: dataConnectionDown, TcpConnection's        *)
(* handleClose and connnectDestroyed.                                      *)
(***************************************************************************)
LEMMA DownIsApart ==
  ASSUME NEW t, Bookkept(t)
  PROVE  Apart(dataConnectionDown(t))
<1> DEFINE u == IF t.xfer_ # "kNone" /\ ~t.xferDone_ THEN reply(abortTransfer(t), "426")
                ELSE sendDataEndReply(t)
<1>1. Apart(reply(abortTransfer(t), "426"))
  BY Zenon, AbortKeeps, ReplyIsBookkept DEF Apart
<1>2. Apart(u)
  BY Zenon, <1>1, EndReplyIsApart
<1>3. dataConnectionDown(t) = Queue(u, <<"closeDataServer">>)
  BY Zenon DEF dataConnectionDown
<1> HIDE DEF u
<1>4. Apart(Queue(u, <<"closeDataServer">>))
  BY Zenon, <1>2, QueueIsApart, HarmlessFunctors
<1>5. QED
  BY Zenon, <1>3, <1>4

LEMMA DisconnectedKeeps ==
  ASSUME NEW t, Bookkept(t), NEW c \in 1..MaxConns,
         NEW r, r = [t EXCEPT !.conns[c].state = "disconnected"]
  PROVE  Bookkept(r) /\ (HasSource(t) => HasSource(r))
<1> DEFINE conn == [t.conns[c] EXCEPT !.state = "disconnected"]
<1>0. t \in SessionRecord /\ t.conns \in [1..MaxConns -> Conns]
  BY Zenon, Fields DEF Bookkept
<1>1. conn \in Conns /\ conn.state = "disconnected"
  BY <1>0 DEF Conns, ConnStates
<1>2. r = [t EXCEPT !.conns = [t.conns EXCEPT ![c] = conn]]
  BY <1>0 DEF SessionRecord
<1> HIDE DEF conn
<1>3. Keeps(t, r)
  BY Zenon, <1>0, <1>1, <1>2, ConnKeeps
<1>4. QED
  BY Zenon, <1>3, KeepsApart

LEMMA CloseIsApart ==
  ASSUME NEW t, Bookkept(t), NEW c \in 1..MaxConns
  PROVE  Apart(handleClose(t, c))
<1>1. Bookkept([t EXCEPT !.conns[c].state = "disconnected"])
  BY Zenon, DisconnectedKeeps
<1>2. QED
  BY Zenon, <1>1, DownIsApart DEF handleClose

LEMMA DestroyedIsApart ==
  ASSUME NEW t, Apart(t), NEW c \in 1..MaxConns
  PROVE  Apart(connectDestroyed(t, c))
<1>1. Apart(handleClose(t, c))
  BY Zenon, CloseIsApart DEF Apart
<1>2. Apart(Crash(t))
  BY Zenon, CrashIsApart
<1>3. QED
  BY Zenon, <1>1, <1>2 DEF connectDestroyed

-----------------------------------------------------------------------------
(* deleteServer, which goes through the connections one after the other. *)

(***************************************************************************)
(* Induction over the naturals, for a set.                                 *)
(***************************************************************************)
LEMMA Induction ==
  ASSUME NEW S, 0 \in S, \A n \in Nat : n \in S => n + 1 \in S
  PROVE  Nat \subseteq S
<1> DEFINE T == Nat \ S
<1>1. SUFFICES ASSUME T # {} PROVE FALSE
  OBVIOUS
<1>2. PICK x \in T : \A y \in T : x <= y
  <2>1. T \subseteq Nat
    OBVIOUS
  <2> HIDE DEF T
  <2>2. QED
    BY Zenon, <1>1, <2>1, LowestFree
<1>3. x # 0 /\ x \in Nat
  OBVIOUS
<1>4. x - 1 \in Nat /\ ~(x <= x - 1) /\ (x - 1) + 1 = x
  BY <1>3
<1>5. x - 1 \in S
  BY <1>2, <1>4
<1>6. QED
  BY <1>4, <1>5

(***************************************************************************)
(* Functions with the same domain and the same values are the same.        *)
(***************************************************************************)
LEMMA SameValues ==
  ASSUME NEW D, NEW S, NEW T, NEW g \in [D -> S], NEW h \in [D -> T],
         \A d \in D : g[d] = h[d]
  PROVE  g = h
OBVIOUS

(***************************************************************************)
(* A function on 0..n that starts at a and follows step exists.            *)
(***************************************************************************)
Follows(g, n, a, step) == g[0] = a /\ \A i \in 0..(n - 1) : g[i + 1] = step[i][g[i]]

LEMMA Recursion ==
  ASSUME NEW S, NEW a \in S, NEW m \in Nat, NEW step \in [0..(m - 1) -> [S -> S]]
  PROVE  \E g \in [0..m -> S] : Follows(g, m, a, step)
<1> DEFINE Has(n) == \E g \in [0..n -> S] : Follows(g, n, a, step)
           H == {n \in Nat : n <= m => Has(n)}
<1>1. 0 \in H
  <2>1. [i \in 0..0 |-> a] \in [0..0 -> S] /\ Follows([i \in 0..0 |-> a], 0, a, step)
    BY DEF Follows
  <2>2. QED
    BY <2>1
<1>2. ASSUME NEW n \in Nat, n \in H PROVE n + 1 \in H
  <2>0. SUFFICES ASSUME n + 1 <= m PROVE Has(n + 1)
    OBVIOUS
  <2>1. PICK g \in [0..n -> S] : Follows(g, n, a, step)
    BY <1>2, <2>0
  <2> DEFINE h == [i \in 0..(n + 1) |-> IF i = n + 1 THEN step[n][g[n]] ELSE g[i]]
  <2>2. step[n][g[n]] \in S
    <3>1. n \in 0..(m - 1) /\ g[n] \in S
      BY <2>0
    <3>2. QED
      BY <3>1
  <2>3. h \in [0..(n + 1) -> S]
    BY <2>2
  <2>4. \A i \in 0..n : h[i] = g[i]
    OBVIOUS
  <2>5. h[n + 1] = step[n][g[n]]
    OBVIOUS
  <2> HIDE DEF h
  <2>6. ASSUME NEW i \in 0..n PROVE h[i + 1] = step[i][h[i]]
    <3>1. CASE i = n
      BY <2>4, <2>5, <3>1
    <3>2. CASE i # n
      <4>1. i \in 0..(n - 1) /\ i + 1 \in 0..n
        BY <3>2
      <4>2. QED
        BY <2>1, <2>4, <4>1 DEF Follows
    <3>3. QED
      BY <3>1, <3>2
  <2>7. h[0] = a
    BY <2>1, <2>4 DEF Follows
  <2>8. Follows(h, n + 1, a, step)
    <3>1. (n + 1) - 1 = n
      OBVIOUS
    <3>2. QED
      BY <2>6, <2>7, <3>1 DEF Follows
  <2>9. QED
    BY <2>3, <2>8
<1> HIDE DEF H
<1>3. m \in H
  BY Zenon, <1>1, <1>2, Induction
<1>4. QED
  BY <1>3 DEF H

LEMMA DeleteIsApart ==
  ASSUME NEW t, Apart(t), NEW k \in 1..MaxPasv, k # t.dataServer_, t.servers[k] # "unused"
  PROVE  Apart(deleteServer(t, k))
<1> DEFINE S == {r \in SessionRecord : Apart(r)}
           a == [t EXCEPT !.servers[k] = "deleted"]
           Held(c) == t.conns[c].server = k /\ t.conns[c].state \in {"connected", "disconnecting"}
           After(r, c) == IF Held(c) THEN connectDestroyed(r, c) ELSE r
           step == [i \in 0..(MaxConns - 1) |-> [r \in S |-> After(r, i + 1)]]
           Goes(u) == u = [c \in 0..MaxConns |->
                            IF c = 0 THEN a
                            ELSE IF t.conns[c].server = k
                                    /\ t.conns[c].state \in {"connected", "disconnecting"}
                            THEN connectDestroyed(u[c - 1], c)
                            ELSE u[c - 1]]
           U == CHOOSE u : Goes(u)
<1>0. t \in SessionRecord /\ t.servers \in [1..MaxPasv -> ServerStates] /\ Bookkept(t) /\ HasSource(t)
  BY Zenon, Fields DEF Apart, Bookkept
<1>1. a \in S
  <2> DEFINE servers == [t.servers EXCEPT ![k] = "deleted"]
  <2>1. /\ servers \in [1..MaxPasv -> ServerStates] /\ servers[k] = "deleted"
        /\ \A j \in 1..MaxPasv : j # k => servers[j] = t.servers[j]
    BY <1>0 DEF ServerStates
  <2>2. a = [t EXCEPT !.servers = servers]
    BY Zenon, <1>0 DEF SessionRecord
  <2> HIDE DEF servers, a
  <2>3. /\ a \in SessionRecord /\ a.conns = t.conns /\ a.q = t.q
        /\ a.dataServer_ = t.dataServer_ /\ a.servers = servers /\ a.dataConn_ = t.dataConn_
        /\ a.xfer_ = t.xfer_ /\ a.xferFile_ = t.xferFile_ /\ a.xferFd_ = t.xferFd_
        /\ a.xferGen_ = t.xferGen_ /\ a.xferDir_ = t.xferDir_ /\ a.fds = t.fds /\ a.pool = t.pool
        /\ a.batch = t.batch /\ a.sent = t.sent /\ a.source = t.source
    BY ZenonT(40), <1>0, <2>1, <2>2 DEF SessionRecord
  <2>4. ASSUME NEW f \in Functors, FunctorApart(t, f) PROVE FunctorApart(a, f)
    <3>1. f[1] = "delete" => f[2] \in 1..MaxPasv
      BY DEF Functors
    <3>2. f[1] = "delete" => servers[f[2]] # "unused"
      <4>1. CASE f[2] = k
        BY <2>1, <4>1
      <4>2. CASE f[2] # k
        BY Zenon, <2>1, <2>4, <3>1, <4>2 DEF FunctorApart
      <4>3. QED
        BY Zenon, <4>1, <4>2
    <3>3. QED
      BY Zenon, <2>3, <2>4, <3>2 DEF FunctorApart, Current
  <2>5. \A p : TaskApart(t, p) => TaskApart(a, p)
    BY Zenon, <2>3 DEF TaskApart, Current
  <2>6. /\ \A i \in DOMAIN t.q : t.q[i] \in Functors
        /\ \A i \in DOMAIN t.batch : t.batch[i] \in Functors
    <3>1. t.q \in Seq(Functors) /\ t.batch \in Seq(Functors)
      BY Zenon, <1>0, Fields
    <3>2. QED
      BY <3>1
  <2>7. a.dataServer_ # 0 => a.servers[a.dataServer_] = "open"
    <3>1. t.dataServer_ # 0 => t.dataServer_ \in 1..MaxPasv /\ t.servers[t.dataServer_] = "open"
      BY Zenon, <1>0, ConnNumbers DEF Bookkept
    <3>2. QED
      BY Zenon, <2>1, <2>3, <3>1
  <2>8. HasSource(a)
    BY Zenon, <1>0, <2>3 DEF HasSource, Connected
  <2>9. Bookkept(a)
    BY Zenon, <1>0, <2>3, <2>4, <2>5, <2>6, <2>7 DEF Bookkept
  <2>10. QED
    BY Zenon, <2>3, <2>8, <2>9 DEF Apart
<1> HIDE DEF a
<1>2. ASSUME NEW r \in S, NEW c \in 1..MaxConns PROVE After(r, c) \in S
  <2>1. Apart(connectDestroyed(r, c))
    BY Zenon, DestroyedIsApart
  <2>2. QED
    BY Zenon, <2>1 DEF Apart, Bookkept
<1> HIDE DEF After, S
<1>3. step \in [0..(MaxConns - 1) -> [S -> S]]
  BY <1>2
<1>4. PICK g \in [0..MaxConns -> S] : Follows(g, MaxConns, a, step)
  <2> HIDE DEF step
  <2>1. QED
    BY Zenon, <1>1, <1>3, Recursion
<1>5. \A c \in 1..MaxConns : g[c] = After(g[c - 1], c)
  <2>1. ASSUME NEW c \in 1..MaxConns PROVE g[c] = After(g[c - 1], c)
    <3>1. c - 1 \in 0..(MaxConns - 1) /\ (c - 1) + 1 = c /\ g[c - 1] \in S
      OBVIOUS
    <3>2. g[c] = step[c - 1][g[c - 1]]
      BY <1>4, <3>1 DEF Follows
    <3>3. QED
      BY <3>1, <3>2
  <2>2. QED
    BY Zenon, <2>1
<1>6. g[0] = a
  BY Zenon, <1>4 DEF Follows
<1>7. Goes(g)
  <2> DEFINE h == [c \in 0..MaxConns |->
                    IF c = 0 THEN a
                    ELSE IF t.conns[c].server = k
                            /\ t.conns[c].state \in {"connected", "disconnecting"}
                    THEN connectDestroyed(g[c - 1], c)
                    ELSE g[c - 1]]
  <2>1. ASSUME NEW c \in 0..MaxConns PROVE g[c] = h[c]
    <3>1. CASE c = 0
      BY <1>6, <3>1
    <3>2. CASE c # 0
      <4>1. c \in 1..MaxConns
        BY <3>2
      <4>2. QED
        BY Zenon, <1>5, <3>2, <4>1 DEF After
    <3>3. QED
      BY Zenon, <3>1, <3>2
  <2> DEFINE D == 0..MaxConns
             T == {h[c] : c \in 0..MaxConns}
  <2>2. g \in [D -> S] /\ h \in [D -> T] /\ \A c \in D : g[c] = h[c]
    BY <2>1
  <2> HIDE DEF D, T, h
  <2>3. g = h
    BY <2>2, SameValues
  <2>4. QED
    BY Zenon, <2>3 DEF h
<1>8. Goes(U)
  <2> HIDE DEF Goes
  <2>1. QED
    BY Zenon, <1>7
<1>9. deleteServer(t, k) = U[MaxConns]
  BY Zenon DEF deleteServer, U, a
<1> HIDE DEF U
<1>10. U[0] = a /\ \A c \in 1..MaxConns : U[c] = After(U[c - 1], c)
  <2>1. 0 \in 0..MaxConns /\ \A c \in 1..MaxConns : c \in 0..MaxConns /\ c # 0
    OBVIOUS
  <2>2. QED
    BY Zenon, <1>8, <2>1 DEF After
<1> DEFINE H == {n \in Nat : n <= MaxConns => U[n] \in S}
<1>11. 0 \in H
  BY <1>1, <1>10
<1>12. ASSUME NEW n \in Nat, n \in H PROVE n + 1 \in H
  <2>1. SUFFICES ASSUME n + 1 <= MaxConns PROVE U[n + 1] \in S
    OBVIOUS
  <2>2. n + 1 \in 1..MaxConns /\ (n + 1) - 1 = n /\ U[n] \in S
    BY <1>12, <2>1
  <2>3. U[n + 1] = After(U[n], n + 1)
    BY Zenon, <1>10, <2>2
  <2>4. QED
    BY Zenon, <1>2, <2>2, <2>3
<1> HIDE DEF H
<1>13. MaxConns \in H
  BY Zenon, <1>11, <1>12, Induction
<1>14. U[MaxConns] \in S
  BY <1>13 DEF H
<1>15. QED
  BY Zenon, <1>9, <1>14 DEF S

-----------------------------------------------------------------------------
(* Commands, connections and timers. *)

(***************************************************************************)
(* handleDataConnected: the new connection is the session's, or is closed. *)
(***************************************************************************)
LEMMA UpIsApart ==
  ASSUME NEW t, Apart(t), NEW c \in 1..MaxConns, t.conns[c].state = "unused",
         NEW k \in 1..MaxPasv, NEW opens \in BOOLEAN, NEW accepted \in BOOLEAN
  PROVE  Apart(dataConnectionUp(t, c, k, opens, accepted))
<1> DEFINE conn == [state |-> "connected", server |-> k, out |-> 0, fin |-> FALSE,
                    reset |-> FALSE, writeComplete |-> t.dataConn_ = 0]
           conns == [t.conns EXCEPT ![c] = conn]
           u == [t EXCEPT !.conns[c] = conn]
           v == [u EXCEPT !.dataConn_ = c]
<1>0. /\ t \in SessionRecord /\ Bookkept(t) /\ HasSource(t) /\ t.conns \in [1..MaxConns -> Conns]
      /\ t.dataConn_ \in 0..MaxConns
  BY Zenon, Fields DEF Apart, Bookkept
<1>1. conn \in Conns /\ conn.state = "connected" /\ c \in 0..MaxConns
  BY DEF Conns, ConnStates
<1>2. dataConnectionUp(t, c, k, opens, accepted)
        = IF t.dataConn_ # 0 THEN forceClose(u, c) ELSE tryStartTransfer(v, opens, accepted)
  BY Zenon DEF dataConnectionUp
<1>3. u = [t EXCEPT !.conns = conns]
  BY Zenon, <1>0 DEF SessionRecord
<1> HIDE DEF conn
<1>4. /\ conns \in [1..MaxConns -> Conns] /\ conns[c] = conn
      /\ \A d \in 1..MaxConns : d # c => conns[d] = t.conns[d]
  BY Zenon, <1>0, <1>1
<1> HIDE DEF conns, u
<1>5. ASSUME NEW r \in SessionRecord, r.conns = conns, r.q = t.q,
             r.dataServer_ = t.dataServer_, r.servers = t.servers, r.dataConn_ \in {t.dataConn_, c},
             r.xfer_ = t.xfer_, r.xferFile_ = t.xferFile_, r.xferFd_ = t.xferFd_,
             r.xferGen_ = t.xferGen_, r.xferDir_ = t.xferDir_, r.fds = t.fds, r.pool = t.pool,
             r.batch = t.batch, r.sent = t.sent, r.source = t.source
      PROVE  Bookkept(r)
  <2>1. \A f : FunctorApart(t, f) => FunctorApart(r, f)
    BY Zenon, <1>5 DEF FunctorApart, Current
  <2>2. \A p : TaskApart(t, p) => TaskApart(r, p)
    BY Zenon, <1>5 DEF TaskApart, Current
  <2>3. conns[c].state # "unused"
    BY <1>1, <1>4
  <2>4. r.dataConn_ # 0 => r.conns[r.dataConn_].state # "unused"
    <3>1. CASE r.dataConn_ = c
      BY Zenon, <1>5, <2>3, <3>1
    <3>2. CASE r.dataConn_ = t.dataConn_ /\ r.dataConn_ # c
      <4>1. t.dataConn_ # 0 => t.dataConn_ \in 1..MaxConns /\ t.conns[t.dataConn_].state # "unused"
        BY Zenon, <1>0, ConnNumbers DEF Bookkept
      <4>2. QED
        BY Zenon, <1>4, <1>5, <3>2, <4>1
    <3>3. QED
      BY Zenon, <1>5, <3>1, <3>2
  <2>5. QED
    BY Zenon, <1>0, <1>5, <2>1, <2>2, <2>4 DEF Bookkept
<1>6. /\ u \in SessionRecord /\ u.conns = conns /\ u.q = t.q
      /\ u.dataServer_ = t.dataServer_ /\ u.servers = t.servers /\ u.dataConn_ = t.dataConn_
      /\ u.xfer_ = t.xfer_ /\ u.xferFile_ = t.xferFile_ /\ u.xferFd_ = t.xferFd_
      /\ u.xferGen_ = t.xferGen_ /\ u.xferDir_ = t.xferDir_ /\ u.fds = t.fds /\ u.pool = t.pool
      /\ u.batch = t.batch /\ u.sent = t.sent /\ u.source = t.source
  BY ZenonT(40), <1>0, <1>3, <1>4 DEF SessionRecord
<1>7. /\ v \in SessionRecord /\ v.conns = conns /\ v.q = t.q
      /\ v.dataServer_ = t.dataServer_ /\ v.servers = t.servers /\ v.dataConn_ = c
      /\ v.xfer_ = t.xfer_ /\ v.xferFile_ = t.xferFile_ /\ v.xferFd_ = t.xferFd_
      /\ v.xferGen_ = t.xferGen_ /\ v.xferDir_ = t.xferDir_ /\ v.fds = t.fds /\ v.pool = t.pool
      /\ v.batch = t.batch /\ v.sent = t.sent /\ v.source = t.source
  BY ZenonT(40), <1>1, <1>6 DEF SessionRecord
<1> HIDE DEF v
<1>8. CASE t.dataConn_ # 0
  <2>1. Bookkept(u)
    BY Zenon, <1>5, <1>6
  <2>2. HasSource(u)
    <3>1. t.dataConn_ \in 1..MaxConns /\ t.dataConn_ # c
      BY Zenon, <1>0, <1>8, ConnNumbers DEF Bookkept
    <3>2. u.conns[u.dataConn_] = t.conns[t.dataConn_]
      BY Zenon, <1>4, <1>6, <3>1
    <3>3. Connected(u) => Connected(t)
      BY Zenon, <1>6, <3>2 DEF Connected
    <3>4. QED
      BY Zenon, <1>0, <1>6, <3>3 DEF HasSource
  <2>3. Apart(forceClose(u, c))
    BY Zenon, <2>1, <2>2, ForceCloseKeeps DEF Apart
  <2>4. QED
    BY Zenon, <1>2, <1>8, <2>3
<1>9. CASE t.dataConn_ = 0
  <2>1. Bookkept(v)
    BY Zenon, <1>5, <1>7
  <2>2. Apart(tryStartTransfer(v, opens, accepted))
    BY Zenon, <2>1, StartIsApart
  <2>3. QED
    BY Zenon, <1>2, <1>9, <2>2
<1>10. QED
  BY Zenon, <1>8, <1>9

(***************************************************************************)
(* PASV: a server that was never used before.                              *)
(***************************************************************************)
LEMMA PasvIsApart ==
  ASSUME NEW t, Apart(t), NEW k \in 1..MaxPasv, t.servers[k] = "unused"
  PROVE  Apart(cmdPasv(t, k))
<1> DEFINE u == IF t.dataServer_ # 0 THEN closeDataServer(t) ELSE t
           timers == u.timers \cup {k}
           servers == [u.servers EXCEPT ![k] = "open"]
           v == [u EXCEPT !.dataServer_ = k, !.servers[k] = "open",
                          !.timers = @ \cup {k}, !.pasvTimerId_ = k]
<1>1. Apart(u) /\ u.servers = t.servers
  BY Zenon, CloseServerKeeps DEF Apart
<1> HIDE DEF u
<1>2. /\ u \in SessionRecord /\ Bookkept(u) /\ HasSource(u)
      /\ u.servers \in [1..MaxPasv -> ServerStates] /\ u.timers \in SUBSET (1..MaxPasv)
      /\ u.q \in Seq(Functors) /\ u.batch \in Seq(Functors)
  BY Zenon, <1>1, Fields DEF Apart, Bookkept
<1>3. /\ servers \in [1..MaxPasv -> ServerStates] /\ servers[k] = "open"
      /\ \A j \in 1..MaxPasv : j # k => servers[j] = u.servers[j]
  BY <1>2 DEF ServerStates
<1>4. timers \in SUBSET (1..MaxPasv) /\ k \in 0..MaxPasv
  BY <1>2
<1>5. v = [u EXCEPT !.dataServer_ = k, !.servers = servers, !.timers = timers, !.pasvTimerId_ = k]
  BY <1>2 DEF SessionRecord
<1> HIDE DEF servers, timers, v
<1>6. /\ v \in SessionRecord /\ v.conns = u.conns /\ v.q = u.q
      /\ v.dataServer_ = k /\ v.servers = servers /\ v.dataConn_ = u.dataConn_
      /\ v.xfer_ = u.xfer_ /\ v.xferFile_ = u.xferFile_ /\ v.xferFd_ = u.xferFd_
      /\ v.xferGen_ = u.xferGen_ /\ v.xferDir_ = u.xferDir_ /\ v.fds = u.fds /\ v.pool = u.pool
      /\ v.batch = u.batch /\ v.sent = u.sent /\ v.source = u.source
  BY ZenonT(40), <1>2, <1>3, <1>4, <1>5 DEF SessionRecord
<1>7. ASSUME NEW f \in Functors, FunctorApart(u, f) PROVE FunctorApart(v, f)
  <2>1. f[1] = "delete" => f[2] \in 1..MaxPasv
    BY DEF Functors
  <2>2. f[1] = "delete" => f[2] # k /\ servers[f[2]] # "unused"
    BY Zenon, <1>1, <1>3, <1>7, <2>1 DEF FunctorApart
  <2>3. QED
    BY Zenon, <1>6, <1>7, <2>2 DEF FunctorApart, Current
<1>8. \A p : TaskApart(u, p) => TaskApart(v, p)
  BY Zenon, <1>6 DEF TaskApart, Current
<1>9. /\ \A i \in DOMAIN u.q : u.q[i] \in Functors
      /\ \A i \in DOMAIN u.batch : u.batch[i] \in Functors
  BY <1>2
<1>10. Bookkept(v)
  BY ZenonT(40), <1>2, <1>3, <1>6, <1>7, <1>8, <1>9 DEF Bookkept
<1>11. HasSource(v)
  BY Zenon, <1>2, <1>6 DEF HasSource, Connected
<1>12. Apart(reply(v, "227"))
  BY Zenon, <1>10, <1>11, ReplyIsBookkept DEF Apart
<1>13. QED
  BY Zenon, <1>12 DEF cmdPasv, u, v

(***************************************************************************)
(* LIST, NLST and RETR: nothing read before belongs to the new generation. *)
(***************************************************************************)
LEMMA CommandIsApart ==
  ASSUME NEW t, Apart(t), NEW kind \in {"kList", "kRetr"}, NEW file, kind = "kRetr" => file \in Files,
         NEW longNames \in BOOLEAN, NEW opens \in BOOLEAN, NEW accepted \in BOOLEAN
  PROVE  Apart(startTransfer(t, kind, file, longNames, opens, accepted))
<1> DEFINE gen == t.xferGen_ + 1
           source == IF kind = "kList" THEN "dir" ELSE file
           timers == t.timers \ {t.pasvTimerId_}
           xfers == t.xfers + 1
           u == [t EXCEPT !.xferGen_ = @ + 1, !.xfer_ = kind, !.timers = @ \ {t.pasvTimerId_},
                          !.sent = <<>>, !.source = IF kind = "kList" THEN "dir" ELSE file,
                          !.xfers = @ + 1]
           v == IF kind = "kList" THEN [u EXCEPT !.longNameList_ = longNames]
                ELSE [u EXCEPT !.xferFile_ = file, !.nextReadOffset_ = 0, !.xferDone_ = FALSE]
<1>0. /\ t \in SessionRecord /\ Bookkept(t) /\ HasSource(t) /\ t.xferGen_ \in Nat /\ t.xfers \in Nat
      /\ t.timers \in SUBSET (1..MaxPasv)
  BY Zenon, Fields DEF Apart, Bookkept
<1>1. CASE t.dataServer_ = 0
  <2>1. Apart(reply(t, "425"))
    BY Zenon, <1>0, ReplyIsBookkept DEF Apart
  <2>2. QED
    BY Zenon, <1>1, <2>1 DEF startTransfer
<1>2. CASE t.dataServer_ # 0
  <2>1. /\ gen \in Nat /\ xfers \in Nat /\ timers \in SUBSET (1..MaxPasv) /\ source \in Named
        /\ kind \in Kinds /\ <<>> \in Seq(Chunks) /\ 0 \in Nat
    <3>1. gen \in Nat /\ xfers \in Nat /\ 0 \in Nat /\ <<>> \in Seq(Chunks)
      BY <1>0
    <3>2. source \in Named /\ kind \in Kinds
      BY Zenon DEF Named, Sources, Kinds
    <3>3. QED
      BY Zenon, <1>0, <3>1, <3>2
  <2>2. u = [t EXCEPT !.xferGen_ = gen, !.xfer_ = kind, !.timers = timers, !.sent = <<>>,
                      !.source = source, !.xfers = xfers]
    BY Zenon
  <2>3. startTransfer(t, kind, file, longNames, opens, accepted)
          = tryStartTransfer(reply(v, "150"), opens, accepted)
    BY Zenon, <1>2 DEF startTransfer
  <2>4. \A g \in Nat : g <= t.xferGen_ => g <= gen /\ g # gen
    BY <1>0
  <2>5. kind = "kRetr" => source = file
    OBVIOUS
  <2>6. kind = "kList" => source = "dir"
    OBVIOUS
  <2> HIDE DEF gen, xfers, timers, source, u
  <2>7. /\ u \in SessionRecord /\ u.conns = t.conns /\ u.q = t.q
        /\ u.dataServer_ = t.dataServer_ /\ u.servers = t.servers /\ u.dataConn_ = t.dataConn_
        /\ u.xfer_ = kind /\ u.xferGen_ = gen /\ u.fds = t.fds /\ u.pool = t.pool
        /\ u.batch = t.batch /\ u.sent = <<>> /\ u.source = source
    BY ZenonT(40), <1>0, <2>1, <2>2 DEF SessionRecord
  <2>8. /\ v \in SessionRecord /\ v.conns = t.conns /\ v.q = t.q
        /\ v.dataServer_ = t.dataServer_ /\ v.servers = t.servers /\ v.dataConn_ = t.dataConn_
        /\ v.xfer_ = kind /\ v.xferGen_ = gen /\ v.fds = t.fds /\ v.pool = t.pool
        /\ v.batch = t.batch /\ v.sent = <<>> /\ v.source = source
        /\ (kind = "kRetr" => v.xferFile_ = source /\ source \in Files)
    <3>1. CASE kind = "kList"
      <4>1. v = [u EXCEPT !.longNameList_ = longNames] /\ kind # "kRetr"
        BY <3>1
      <4> HIDE DEF v
      <4>2. QED
        BY ZenonT(40), <2>7, <4>1 DEF SessionRecord
    <3>2. CASE kind # "kList"
      <4>1. file \in Named /\ source = file /\ file \in Files
        BY Zenon, <2>5, <3>2 DEF Named, Sources
      <4>2. v = [u EXCEPT !.xferFile_ = file, !.nextReadOffset_ = 0, !.xferDone_ = FALSE]
        BY Zenon, <3>2
      <4> HIDE DEF v
      <4>3. QED
        BY ZenonT(40), <2>1, <2>7, <4>1, <4>2 DEF SessionRecord
    <3>3. QED
      BY Zenon, <3>1, <3>2
  <2> HIDE DEF v
  <2>9. ASSUME NEW f \in Functors, FunctorApart(t, f) PROVE FunctorApart(v, f)
    <3>1. f[1] = "chunk" => f[2] \in Nat
      BY DEF Functors
    <3>2. f[1] = "chunk" => f[2] <= gen /\ f[2] # gen
      BY Zenon, <2>4, <2>9, <3>1 DEF FunctorApart
    <3>3. QED
      BY Zenon, <2>8, <2>9, <3>2 DEF FunctorApart, Current
  <2>10. ASSUME NEW p \in Tasks, TaskApart(t, p) PROVE TaskApart(v, p)
    <3>1. p.gen \in Nat
      BY DEF Tasks
    <3>2. p.gen <= gen /\ p.gen # gen
      BY Zenon, <2>4, <2>10, <3>1 DEF TaskApart
    <3>3. QED
      BY Zenon, <2>8, <3>2 DEF TaskApart, Current
  <2>11. /\ \A i \in DOMAIN t.q : t.q[i] \in Functors
         /\ \A i \in DOMAIN t.batch : t.batch[i] \in Functors
         /\ \A i \in DOMAIN t.pool : t.pool[i] \in Tasks
    <3>1. t.q \in Seq(Functors) /\ t.batch \in Seq(Functors) /\ t.pool \in Seq(Tasks)
      BY Zenon, <1>0, Fields
    <3>2. QED
      BY <3>1
  <2>12. DOMAIN v.sent = {}
    BY <2>8
  <2>13. Bookkept(v)
    BY Zenon, <1>0, <2>6, <2>8, <2>9, <2>10, <2>11, <2>12 DEF Bookkept
  <2>14. Bookkept(reply(v, "150"))
    BY Zenon, <2>13, ReplyIsBookkept
  <2>15. QED
    BY Zenon, <2>3, <2>14, StartIsApart
<1>3. QED
  BY Zenon, <1>1, <1>2

LEMMA TimeoutIsApart ==
  ASSUME NEW t, Apart(t), NEW k \in 1..MaxPasv
  PROVE  Apart(pasvTimeout(t, k))
<1> DEFINE u == [t EXCEPT !.timers = @ \ {k}]
<1>0. t \in SessionRecord /\ t.timers \ {k} \in SUBSET (1..MaxPasv)
  BY Zenon, Fields DEF Apart, Bookkept
<1>1. u = [t EXCEPT !.timers = t.timers \ {k}]
  BY Zenon
<1>2. pasvTimeout(t, k) = u \/ pasvTimeout(t, k) = closeDataServer(reply(u, "425"))
  BY Zenon DEF pasvTimeout
<1> HIDE DEF u
<1>3. Keeps(t, u)
  BY Zenon, <1>0, <1>1, TimersKeep
<1>4. Apart(u)
  BY Zenon, <1>3, KeepsApart DEF Apart
<1>5. Bookkept(reply(u, "425"))
  BY Zenon, <1>4, ReplyIsBookkept DEF Apart
<1>6. Apart(closeDataServer(reply(u, "425")))
  BY Zenon, <1>5, CloseServerKeeps
<1>7. QED
  BY Zenon, <1>2, <1>4, <1>6

(***************************************************************************)
(* The destructor runs when no disk task is left.                          *)
(***************************************************************************)
LEMMA DestructorIsApart ==
  ASSUME NEW t, Apart(t), t.pool = <<>>
  PROVE  Apart(destructor(t))
<1> DEFINE u == closeDataServer(t)
           fds == [f \in Fds |-> IF f = t.xferFd_ THEN "closed" ELSE u.fds[f]]
           r == destructor(t)
<1>1. Apart(u) /\ u.dataConn_ = 0 /\ u.pool = <<>>
  BY Zenon, CloseServerKeeps DEF Apart
<1>2. r = [u EXCEPT !.fds = fds, !.xferDir_ = 0, !.alive = FALSE]
  BY Zenon DEF destructor
<1> HIDE DEF u
<1>3. u \in SessionRecord /\ u.fds \in [Fds -> Contents] /\ Bookkept(u)
  BY Zenon, <1>1, Fields DEF Apart, Bookkept
<1>4. fds \in [Fds -> Contents] /\ 0 \in Nat
  BY <1>3 DEF Contents
<1> HIDE DEF fds, r
<1>5. /\ r \in SessionRecord /\ r.conns = u.conns /\ r.q = u.q
      /\ r.dataServer_ = u.dataServer_ /\ r.servers = u.servers /\ r.dataConn_ = u.dataConn_
      /\ r.xfer_ = u.xfer_ /\ r.xferFile_ = u.xferFile_ /\ r.xferGen_ = u.xferGen_
      /\ r.pool = u.pool /\ r.batch = u.batch /\ r.sent = u.sent /\ r.source = u.source
  BY ZenonT(40), <1>2, <1>3, <1>4 DEF SessionRecord
<1>6. \A f : FunctorApart(u, f) => FunctorApart(r, f)
  BY Zenon, <1>5 DEF FunctorApart, Current
<1>7. DOMAIN r.pool = {}
  BY <1>1, <1>5
<1>8. Bookkept(r)
  BY Zenon, <1>3, <1>5, <1>6, <1>7 DEF Bookkept
<1>9. HasSource(r)
  BY Zenon, <1>1, <1>5 DEF HasSource, Connected
<1>10. QED
  BY Zenon, <1>8, <1>9 DEF Apart, r

LEMMA BecomesApart ==
  ASSUME NEW t, Apart(t), Becomes(t), ApartInv
  PROVE  Apart(s') /\ env' = env
<1>1. CASE Referenced(t)
  BY Zenon, <1>1 DEF Becomes
<1>2. CASE ~Referenced(t)
  <2>1. Apart(destructor(t))
    BY Zenon, <1>2, DestructorIsApart DEF Referenced
  <2>2. QED
    BY Zenon, <1>2, <2>1 DEF Becomes
<1>3. QED
  BY Zenon, <1>1, <1>2

-----------------------------------------------------------------------------
(* The steps. *)

(***************************************************************************)
(* What is ready, the phase of the loop, what the client was told, and the *)
(* states of the login and of the control connection do not matter.        *)
(***************************************************************************)
LEMMA ControlKeeps ==
  ASSUME NEW t, Apart(t), NEW ready \in SUBSET Events, NEW phase \in Phases, NEW heard \in Turns,
         NEW state_ \in States, NEW ctrl \in CtrlStates,
         NEW r, r = [t EXCEPT !.ready = ready, !.phase = phase, !.heard = heard,
                              !.state_ = state_, !.ctrl = ctrl]
  PROVE  Apart(r) /\ r.conns = t.conns /\ r.servers = t.servers
<1>0. t \in SessionRecord
  BY Zenon DEF Apart, Bookkept
<1>1. /\ r \in SessionRecord /\ r.conns = t.conns /\ r.q = t.q
      /\ r.dataServer_ = t.dataServer_ /\ r.servers = t.servers /\ r.dataConn_ = t.dataConn_
      /\ r.xfer_ = t.xfer_ /\ r.xferFile_ = t.xferFile_ /\ r.xferFd_ = t.xferFd_
      /\ r.xferGen_ = t.xferGen_ /\ r.xferDir_ = t.xferDir_ /\ r.fds = t.fds /\ r.pool = t.pool
      /\ r.batch = t.batch /\ r.sent = t.sent /\ r.source = t.source
  BY ZenonT(40), <1>0 DEF SessionRecord
<1>2. Keeps(t, r)
  BY Zenon, <1>1 DEF Keeps
<1>3. QED
  BY Zenon, <1>1, <1>2, KeepsApart DEF Apart

(***************************************************************************)
(* An event has been handled.                                              *)
(***************************************************************************)
LEMMA HandledKeeps ==
  ASSUME NEW t, Apart(t), NEW e, NEW r, r = [t EXCEPT !.ready = @ \ {e}]
  PROVE  Apart(r) /\ r.conns = t.conns /\ r.servers = t.servers
<1>0. t \in SessionRecord
  BY Zenon DEF Apart, Bookkept
<1>1. /\ r \in SessionRecord /\ r.conns = t.conns /\ r.q = t.q
      /\ r.dataServer_ = t.dataServer_ /\ r.servers = t.servers /\ r.dataConn_ = t.dataConn_
      /\ r.xfer_ = t.xfer_ /\ r.xferFile_ = t.xferFile_ /\ r.xferFd_ = t.xferFd_
      /\ r.xferGen_ = t.xferGen_ /\ r.xferDir_ = t.xferDir_ /\ r.fds = t.fds /\ r.pool = t.pool
      /\ r.batch = t.batch /\ r.sent = t.sent /\ r.source = t.source
  BY ZenonT(40), <1>0 DEF SessionRecord
<1>2. Keeps(t, r)
  BY Zenon, <1>1 DEF Keeps
<1>3. QED
  BY Zenon, <1>1, <1>2, KeepsApart DEF Apart

LEMMA PollStep ==
  ASSUME ApartInv, Poll
  PROVE  Apart(s') /\ env' = env
<1>0. Apart(s) /\ s \in SessionRecord
  BY Zenon DEF ApartInv, Apart, Bookkept
<1>1. PICK events \in SUBSET ReadyEvents : PollFor(events)
  BY Zenon DEF Poll
<1>2. ReadyEvents \subseteq Events
  <2>1. s.timers \in SUBSET (1..MaxPasv)
    BY Zenon, <1>0, Fields
  <2>2. QED
    BY <2>1 DEF ReadyEvents, Events
<1>3. /\ events \in SUBSET Events /\ "events" \in Phases /\ s.turn \in Turns
      /\ s.state_ \in States /\ s.ctrl \in CtrlStates
  BY <1>0, <1>2 DEF SessionRecord, Phases
<1> DEFINE t == [s EXCEPT !.phase = "events", !.ready = events, !.heard = s.turn]
<1>4. t = [s EXCEPT !.ready = events, !.phase = "events", !.heard = s.turn,
                    !.state_ = s.state_, !.ctrl = s.ctrl]
  BY Zenon, <1>0 DEF SessionRecord
<1>5. Becomes(t)
  BY Zenon, <1>1 DEF PollFor
<1> HIDE DEF t
<1>6. Apart(t)
  BY Zenon, <1>0, <1>3, <1>4, ControlKeeps
<1>7. QED
  BY Zenon, <1>5, <1>6, BecomesApart

LEMMA PendingStep ==
  ASSUME ApartInv, doPendingFunctors
  PROVE  Apart(s') /\ env' = env
<1> DEFINE t == [s EXCEPT !.phase = "functors", !.batch = s.q, !.q = <<>>]
<1>0. Apart(s) /\ s \in SessionRecord /\ Bookkept(s) /\ HasSource(s) /\ s.q \in Seq(Functors)
  BY Zenon, Fields DEF ApartInv, Apart, Bookkept
<1>1. "functors" \in Phases /\ <<>> \in Seq(Functors) /\ DOMAIN <<>> = {}
  BY DEF Phases
<1>2. /\ t \in SessionRecord /\ t.conns = s.conns /\ t.q = <<>> /\ t.batch = s.q
      /\ t.dataServer_ = s.dataServer_ /\ t.servers = s.servers /\ t.dataConn_ = s.dataConn_
      /\ t.xfer_ = s.xfer_ /\ t.xferFile_ = s.xferFile_ /\ t.xferFd_ = s.xferFd_
      /\ t.xferGen_ = s.xferGen_ /\ t.xferDir_ = s.xferDir_ /\ t.fds = s.fds /\ t.pool = s.pool
      /\ t.sent = s.sent /\ t.source = s.source
  BY ZenonT(40), <1>0, <1>1 DEF SessionRecord
<1>3. Becomes(t)
  BY Zenon DEF doPendingFunctors
<1> HIDE DEF t
<1>4. \A f : FunctorApart(s, f) => FunctorApart(t, f)
  BY Zenon, <1>2 DEF FunctorApart, Current
<1>5. \A p : TaskApart(s, p) => TaskApart(t, p)
  BY Zenon, <1>2 DEF TaskApart, Current
<1>6. Bookkept(t)
  BY Zenon, <1>0, <1>1, <1>2, <1>4, <1>5 DEF Bookkept
<1>7. HasSource(t)
  BY Zenon, <1>0, <1>2 DEF HasSource, Connected
<1>8. QED
  BY Zenon, <1>3, <1>6, <1>7, BecomesApart DEF Apart

LEMMA CommandStep ==
  ASSUME ApartInv, NEW turn, NEW t, Apart(t), Command(turn, t)
  PROVE  Apart(s') /\ env' = env
<1> DEFINE r == [t EXCEPT !.ready = @ \ {<<"ctrl", 0>>}]
<1>1. Becomes(r) /\ r = [t EXCEPT !.ready = @ \ {<<"ctrl", 0>>}]
  BY Zenon DEF Command
<1> HIDE DEF r
<1>2. Apart(r)
  BY Zenon, <1>1, HandledKeeps
<1>3. QED
  BY Zenon, <1>1, <1>2, BecomesApart

LEMMA OutcomesAre ==
  /\ Outcomes \subseteq BOOLEAN
  /\ Writes \subseteq {"all", "part", "error"}
BY Zenon DEF Outcomes, Writes

LEMMA CommandsStep ==
  ASSUME ApartInv, cmdUser \/ cmdPass \/ Pasv \/ cmdList \/ cmdRetr \/ cmdQuit
  PROVE  Apart(s') /\ env' = env
<1>0. /\ Apart(s) /\ s \in SessionRecord /\ s.ready \in SUBSET Events /\ s.phase \in Phases
      /\ s.heard \in Turns /\ s.state_ \in States /\ s.ctrl \in CtrlStates
  BY Zenon DEF ApartInv, Apart, Bookkept, SessionRecord
<1>1. ASSUME NEW state_ \in States, NEW ctrl \in CtrlStates,
             NEW r, r = [s EXCEPT !.state_ = state_, !.ctrl = ctrl]
      PROVE  Apart(r)
  <2>1. r = [s EXCEPT !.ready = s.ready, !.phase = s.phase, !.heard = s.heard,
                      !.state_ = state_, !.ctrl = ctrl]
    BY Zenon, <1>0, <1>1 DEF SessionRecord
  <2>2. QED
    BY Zenon, <1>0, <2>1, ControlKeeps
<1>2. CASE cmdUser
  <2> DEFINE r == [s EXCEPT !.state_ = "kNeedPass"]
  <2>1. r = [s EXCEPT !.state_ = "kNeedPass", !.ctrl = s.ctrl] /\ "kNeedPass" \in States
    BY Zenon, <1>0 DEF SessionRecord, States
  <2>2. Command("idle", r)
    BY Zenon, <1>2 DEF cmdUser
  <2> HIDE DEF r
  <2>3. Apart(r)
    BY Zenon, <1>0, <1>1, <2>1
  <2>4. QED
    BY Zenon, <2>2, <2>3, CommandStep
<1>3. CASE cmdPass
  <2> DEFINE r == [s EXCEPT !.state_ = "kLoggedIn"]
  <2>1. r = [s EXCEPT !.state_ = "kLoggedIn", !.ctrl = s.ctrl] /\ "kLoggedIn" \in States
    BY Zenon, <1>0 DEF SessionRecord, States
  <2>2. Command("idle", r)
    BY Zenon, <1>3 DEF cmdPass
  <2> HIDE DEF r
  <2>3. Apart(r)
    BY Zenon, <1>0, <1>1, <2>1
  <2>4. QED
    BY Zenon, <2>2, <2>3, CommandStep
<1>4. CASE cmdQuit
  <2> DEFINE r == [s EXCEPT !.ctrl = "closing"]
  <2>1. r = [s EXCEPT !.state_ = s.state_, !.ctrl = "closing"] /\ "closing" \in CtrlStates
    BY Zenon, <1>0 DEF SessionRecord, CtrlStates
  <2>2. Command(s.turn, r)
    BY Zenon, <1>4 DEF cmdQuit
  <2> HIDE DEF r
  <2>3. Apart(r)
    BY Zenon, <1>0, <1>1, <2>1
  <2>4. QED
    BY Zenon, <2>2, <2>3, CommandStep
<1>5. CASE Pasv
  <2>1. PICK k \in 1..MaxPasv : s.servers[k] = "unused" /\ Command("idle", cmdPasv(s, k))
    BY Zenon, <1>5 DEF Pasv
  <2>2. Apart(cmdPasv(s, k))
    BY Zenon, <1>0, <2>1, PasvIsApart
  <2>3. QED
    BY Zenon, <2>1, <2>2, CommandStep
<1>6. CASE cmdList
  <2>1. PICK opens \in Outcomes, accepted \in Outcomes, longNames \in BOOLEAN :
          Command("passive", startTransfer(s, "kList", "", longNames, opens, accepted))
    BY Zenon, <1>6 DEF cmdList
  <2>2. opens \in BOOLEAN /\ accepted \in BOOLEAN
    BY Zenon, OutcomesAre
  <2>3. Apart(startTransfer(s, "kList", "", longNames, opens, accepted))
    BY Zenon, <1>0, <2>2, CommandIsApart
  <2>4. QED
    BY Zenon, <2>1, <2>3, CommandStep
<1>7. CASE cmdRetr
  <2>1. PICK opens \in Outcomes, accepted \in Outcomes, file \in Files :
          Command("passive", startTransfer(s, "kRetr", file, FALSE, opens, accepted))
    BY Zenon, <1>7 DEF cmdRetr
  <2>2. opens \in BOOLEAN /\ accepted \in BOOLEAN
    BY Zenon, OutcomesAre
  <2>3. Apart(startTransfer(s, "kRetr", file, FALSE, opens, accepted))
    BY Zenon, <1>0, <2>2, CommandIsApart
  <2>4. QED
    BY Zenon, <2>1, <2>3, CommandStep
<1>8. QED
  BY Zenon, <1>2, <1>3, <1>4, <1>5, <1>6, <1>7

LEMMA EventsStep ==
  ASSUME ApartInv,
         \/ ControlDown
         \/ \E k \in 1..MaxPasv : DataConnect(k) \/ PasvTimer(k)
         \/ \E c \in 1..MaxConns : DataClose(c) \/ DataWritable(c)
  PROVE  Apart(s') /\ env' = env
<1>0. Apart(s) /\ s \in SessionRecord
  BY Zenon DEF ApartInv, Apart, Bookkept
<1>1. ASSUME NEW e
      PROVE  /\ Apart(Handled(e)) /\ Bookkept(Handled(e))
             /\ Handled(e).conns = s.conns /\ Handled(e) \in SessionRecord
  <2> DEFINE h == Handled(e)
  <2>1. h = [s EXCEPT !.ready = @ \ {e}]
    BY Zenon DEF Handled
  <2> HIDE DEF h
  <2>2. Apart(h) /\ h.conns = s.conns
    BY Zenon, <1>0, <2>1, HandledKeeps
  <2>3. QED
    BY Zenon, <2>2 DEF Apart, Bookkept, h
<1>2. CASE ControlDown
  <2> DEFINE h == Handled(<<"ctrl", 0>>)
             r == [h EXCEPT !.ctrl = "down"]
  <2>1. Becomes(r)
    BY Zenon, <1>2 DEF ControlDown
  <2>2. Apart(h) /\ h \in SessionRecord
    BY Zenon, <1>1
  <2> HIDE DEF h
  <2>3. /\ h.ready \in SUBSET Events /\ h.phase \in Phases /\ h.heard \in Turns
        /\ h.state_ \in States /\ "down" \in CtrlStates
    BY Zenon, <2>2 DEF SessionRecord, CtrlStates
  <2>4. r = [h EXCEPT !.ready = h.ready, !.phase = h.phase, !.heard = h.heard,
                      !.state_ = h.state_, !.ctrl = "down"]
    BY Zenon, <2>2 DEF SessionRecord
  <2> HIDE DEF r
  <2>5. Apart(r)
    BY Zenon, <2>2, <2>3, <2>4, ControlKeeps
  <2>6. QED
    BY Zenon, <2>1, <2>5, BecomesApart
<1>3. ASSUME NEW k \in 1..MaxPasv, DataConnect(k) PROVE Apart(s') /\ env' = env
  <2> DEFINE h == Handled(<<"listen", k>>)
             c == CHOOSE d \in FreeConns : \A e \in FreeConns : d <= e
  <2>1. PICK opens \in Outcomes, accepted \in Outcomes :
          Becomes(IF FreeConns = {} THEN h ELSE dataConnectionUp(h, c, k, opens, accepted))
    BY Zenon, <1>3 DEF DataConnect
  <2>2. Apart(h) /\ h.conns = s.conns
    BY Zenon, <1>1
  <2>3. CASE FreeConns = {}
    BY Zenon, <2>1, <2>2, <2>3, BecomesApart
  <2>4. CASE FreeConns # {}
    <3>1. env.conns \in 0..MaxConns
      BY DEF ApartInv
    <3>2. FreeConns \subseteq 1..MaxConns /\ FreeConns \subseteq Nat
      BY <3>1 DEF FreeConns
    <3>3. \E d \in FreeConns : \A e \in FreeConns : d <= e
      BY Zenon, <2>4, <3>2, LowestFree
    <3>4. c \in FreeConns
      BY Zenon, <3>3
    <3> HIDE DEF c, h
    <3>5. c \in 1..MaxConns /\ h.conns[c].state = "unused"
      BY Zenon, <2>2, <3>2, <3>4 DEF FreeConns
    <3>6. opens \in BOOLEAN /\ accepted \in BOOLEAN
      BY Zenon, OutcomesAre
    <3>7. Apart(dataConnectionUp(h, c, k, opens, accepted))
      BY Zenon, <2>2, <3>5, <3>6, UpIsApart
    <3>8. QED
      BY Zenon, <2>1, <2>4, <3>7, BecomesApart
  <2>5. QED
    BY Zenon, <2>3, <2>4
<1>4. ASSUME NEW k \in 1..MaxPasv, PasvTimer(k) PROVE Apart(s') /\ env' = env
  <2> DEFINE h == Handled(<<"timer", k>>)
  <2>1. Becomes(IF k \in s.timers THEN pasvTimeout(h, k) ELSE h)
    BY Zenon, <1>4 DEF PasvTimer
  <2>2. Apart(h)
    BY Zenon, <1>1
  <2> HIDE DEF h
  <2>3. Apart(pasvTimeout(h, k))
    BY Zenon, <2>2, TimeoutIsApart
  <2>4. QED
    BY Zenon, <2>1, <2>2, <2>3, BecomesApart
<1>5. ASSUME NEW c \in 1..MaxConns, DataClose(c) PROVE Apart(s') /\ env' = env
  <2>1. Apart(handleClose(Handled(<<"data", c>>), c))
    BY Zenon, <1>1, CloseIsApart
  <2>2. QED
    BY Zenon, <1>5, <2>1, BecomesApart DEF DataClose
<1>6. ASSUME NEW c \in 1..MaxConns, DataWritable(c) PROVE Apart(s') /\ env' = env
  <2> DEFINE h == Handled(<<"data", c>>)
             fin == s.conns[c].state = "disconnecting"
             conn == [h.conns[c] EXCEPT !.out = 0, !.fin = fin]
             t == [h EXCEPT !.conns[c].out = 0, !.conns[c].fin = fin]
  <2>1. Becomes(IF s.conns[c].writeComplete THEN Queue(t, <<"late", c>>) ELSE t)
    BY Zenon, <1>6 DEF DataWritable
  <2>2. Apart(h) /\ h \in SessionRecord /\ h.conns \in [1..MaxConns -> Conns]
    BY Zenon, <1>1, Fields
  <2> HIDE DEF h
  <2>3. fin \in BOOLEAN
    OBVIOUS
  <2> HIDE DEF fin
  <2>4. conn \in Conns /\ conn.state = h.conns[c].state
    BY Zenon, <2>2, <2>3 DEF Conns
  <2>5. t = [h EXCEPT !.conns = [h.conns EXCEPT ![c] = conn]]
    BY Zenon, <2>2 DEF SessionRecord, Conns
  <2> HIDE DEF conn, t
  <2>6. Keeps(h, t)
    BY <2>2, <2>4, <2>5, ConnKeeps
  <2>7. Apart(t)
    BY Zenon, <2>2, <2>6, KeepsApart DEF Apart
  <2>8. Apart(Queue(t, <<"late", c>>))
    BY Zenon, <2>7, QueueIsApart, HarmlessFunctors
  <2>9. QED
    BY Zenon, <2>1, <2>7, <2>8, BecomesApart
<1>7. QED
  BY Zenon, <1>2, <1>3, <1>4, <1>5, <1>6

(***************************************************************************)
(* A place is taken out of a sequence, and the first one is.               *)
(***************************************************************************)
LEMMA RemoveFacts ==
  ASSUME NEW S, NEW u \in Seq(S), NEW i \in 1..Len(u)
  PROVE  /\ Without(u, i) \in Seq(S)
         /\ \A j \in DOMAIN Without(u, i) : \E m \in DOMAIN u : Without(u, i)[j] = u[m]
<1> DEFINE r == Without(u, i)
           a == SubSeq(u, 1, i - 1)
           b == SubSeq(u, i + 1, Len(u))
<1>0. Len(u) \in Nat /\ i \in Nat /\ i <= Len(u) /\ i >= 1
  OBVIOUS
<1>1. /\ a \in Seq(S) /\ b \in Seq(S) /\ Len(a) = i - 1 /\ Len(b) = Len(u) - i
      /\ \A j \in 1..(i - 1) : a[j] = u[j]
      /\ \A j \in 1..(Len(u) - i) : b[j] = u[j + i]
  OBVIOUS
<1>r. r = a \o b
  BY Zenon DEF Without
<1> HIDE DEF a, b, r
<1>2. r \in Seq(S) /\ Len(r) = Len(u) - 1
  BY SMTT(30), <1>0, <1>1, <1>r
<1>3. ASSUME NEW j \in 1..(Len(u) - 1) PROVE r[j] = IF j < i THEN u[j] ELSE u[j + 1]
  <2>1. r[j] = IF j <= i - 1 THEN a[j] ELSE b[j - (i - 1)]
    BY <1>0, <1>1, <1>r
  <2>2. CASE j < i
    BY <1>0, <1>1, <2>1, <2>2
  <2>3. CASE ~(j < i)
    <3>1. j - (i - 1) \in 1..(Len(u) - i) /\ (j - (i - 1)) + i = j + 1 /\ ~(j <= i - 1)
      BY <1>0, <2>3
    <3>2. QED
      BY <1>1, <2>1, <2>3, <3>1
  <2>4. QED
    BY Zenon, <2>2, <2>3
<1>4. ASSUME NEW j \in DOMAIN r PROVE \E m \in DOMAIN u : r[j] = u[m]
  <2>1. j \in 1..(Len(u) - 1) /\ j \in DOMAIN u /\ j + 1 \in DOMAIN u
    BY <1>2
  <2>2. QED
    BY Zenon, <1>3, <2>1
<1>5. QED
  BY Zenon, <1>2, <1>4 DEF r

LEMMA HeadFacts ==
  ASSUME NEW S, NEW u \in Seq(S), u # <<>>
  PROVE  /\ Head(u) \in S /\ 1 \in DOMAIN u /\ Head(u) = u[1] /\ Tail(u) \in Seq(S)
         /\ \A j \in DOMAIN Tail(u) : \E m \in DOMAIN u : Tail(u)[j] = u[m]
<1>1. Head(u) \in S /\ 1 \in DOMAIN u /\ Head(u) = u[1] /\ Tail(u) \in Seq(S)
  OBVIOUS
<1>2. ASSUME NEW j \in DOMAIN Tail(u) PROVE j + 1 \in DOMAIN u /\ Tail(u)[j] = u[j + 1]
  OBVIOUS
<1>3. QED
  BY Zenon, <1>1, <1>2

(***************************************************************************)
(* A disk thread: what it read for the current transfer is of its source.  *)
(***************************************************************************)
LEMMA DiskIsApart ==
  ASSUME ApartInv, DiskStep
  PROVE  Apart(s') /\ env' = env
<1>0. /\ Apart(s) /\ s \in SessionRecord /\ Bookkept(s) /\ HasSource(s)
      /\ s.pool \in Seq(Tasks) /\ s.q \in Seq(Functors) /\ s.fds \in [Fds -> Contents]
  BY Zenon, Fields DEF ApartInv, Apart, Bookkept
<1>1. PICK i \in 1..Workers, good \in Outcomes : i <= Len(s.pool) /\ DiskDone(i, good)
  BY Zenon DEF DiskStep
<1>2. i \in 1..Len(s.pool) /\ i \in DOMAIN s.pool
  BY <1>0, <1>1
<1> DEFINE t == s.pool[i]
           file == IF t.source = "fd" /\ t.fd # 0 THEN s.fds[t.fd] ELSE "closed"
           failed == t.source = "fd" /\ (file = "closed" \/ ~good)
           empty == IF t.source = "fd" THEN failed \/ t.at > env.k ELSE t.longNames /\ ~good
           data == IF empty THEN Nothing ELSE <<IF t.source = "fd" THEN file ELSE "dir", t.at>>
           atEof == t.source = "fd" /\ empty /\ ~failed
           f == <<"chunk", t.gen, data, atEof, failed>>
           r == [s EXCEPT !.pool = Without(@, i), !.q = Append(@, f)]
<1>3. Becomes(r)
  BY Zenon, <1>1 DEF DiskDone
<1>4. t \in Tasks /\ TaskApart(s, t)
  <2>1. s.pool[i] \in Tasks
    BY <1>0, <1>2
  <2>2. QED
    BY Zenon, <1>0, <1>2, <2>1 DEF Bookkept
<1> HIDE DEF t
<1>5. t.gen \in Nat /\ t.source \in {"fd", "dir"} /\ t.fd \in 0..(MaxXfers + 1) /\ t.at \in Nat
  BY Zenon, <1>4 DEF Tasks
<1>6. file \in Contents
  <2>1. t.fd # 0 => t.fd \in Fds
    BY <1>5 DEF Fds
  <2>2. "closed" \in Contents
    BY DEF Contents
  <2>3. QED
    BY Zenon, <1>0, <2>1, <2>2
<1>7. data \in Chunks
  <2>1. CASE empty
    BY Zenon, <2>1 DEF Chunks
  <2>2. CASE ~empty
    <3>1. t.source = "fd" => file \in Files
      <4>1. t.source = "fd" => file # "closed"
        BY Zenon, <2>2
      <4> HIDE DEF file
      <4>2. QED
        BY Zenon, <1>6, <4>1 DEF Contents
    <3>2. (IF t.source = "fd" THEN file ELSE "dir") \in Sources
      BY Zenon, <3>1 DEF Sources
    <3> HIDE DEF file
    <3>3. <<IF t.source = "fd" THEN file ELSE "dir", t.at>> \in Sources \X Nat
      BY <1>5, <3>2
    <3>4. QED
      BY Zenon, <2>2, <3>3 DEF Chunks
  <2>3. QED
    BY Zenon, <2>1, <2>2
<1>8. Current(s, t.gen) /\ data # Nothing => data[1] = s.source
  <2>1. SUFFICES ASSUME Current(s, t.gen), data # Nothing PROVE data[1] = s.source
    BY Zenon
  <2>2. ~empty
    BY Zenon, <2>1
  <2>3. CASE t.source = "fd"
    <3>1. t.fd # 0 /\ s.fds[t.fd] = s.source
      BY Zenon, <1>4, <2>1, <2>3 DEF TaskApart
    <3>2. file = s.source
      BY Zenon, <2>3, <3>1
    <3> HIDE DEF empty, file
    <3>3. data = <<file, t.at>>
      BY Zenon, <2>2, <2>3
    <3> HIDE DEF data
    <3>4. QED
      BY <3>2, <3>3
  <2>4. CASE t.source # "fd"
    <3>1. s.source = "dir"
      BY Zenon, <1>0, <1>4, <2>1, <2>4 DEF TaskApart, Bookkept
    <3> HIDE DEF empty
    <3>2. data = <<"dir", t.at>>
      BY Zenon, <2>2, <2>4
    <3> HIDE DEF data
    <3>3. QED
      BY <3>1, <3>2
  <2>5. QED
    BY Zenon, <2>3, <2>4
<1>9. failed \in BOOLEAN /\ atEof \in BOOLEAN
  BY Zenon
<1> HIDE DEF file, failed, empty, data, atEof
<1>10. f \in Functors /\ f[1] = "chunk" /\ f[2] = t.gen /\ f[3] = data
  BY <1>5, <1>7, <1>9 DEF Functors
<1> HIDE DEF f
<1>11. /\ Without(s.pool, i) \in Seq(Tasks)
       /\ \A j \in DOMAIN Without(s.pool, i) : \E m \in DOMAIN s.pool : Without(s.pool, i)[j] = s.pool[m]
  BY <1>0, <1>2, RemoveFacts
<1>12. /\ Append(s.q, f) \in Seq(Functors)
       /\ \A j \in DOMAIN Append(s.q, f) : \/ j \in DOMAIN s.q /\ Append(s.q, f)[j] = s.q[j]
                                           \/ Append(s.q, f)[j] = f
  BY <1>0, <1>10, AppendFacts
<1>13. /\ r \in SessionRecord /\ r.conns = s.conns /\ r.q = Append(s.q, f)
       /\ r.dataServer_ = s.dataServer_ /\ r.servers = s.servers /\ r.dataConn_ = s.dataConn_
       /\ r.xfer_ = s.xfer_ /\ r.xferFile_ = s.xferFile_ /\ r.xferFd_ = s.xferFd_
       /\ r.xferGen_ = s.xferGen_ /\ r.xferDir_ = s.xferDir_ /\ r.fds = s.fds
       /\ r.pool = Without(s.pool, i)
       /\ r.batch = s.batch /\ r.sent = s.sent /\ r.source = s.source
  BY ZenonT(40), <1>0, <1>11, <1>12 DEF SessionRecord
<1> HIDE DEF r
<1>14. \A g : FunctorApart(s, g) => FunctorApart(r, g)
  BY Zenon, <1>13 DEF FunctorApart, Current
<1>15. \A p : TaskApart(s, p) => TaskApart(r, p)
  BY Zenon, <1>13 DEF TaskApart, Current
<1>16. FunctorApart(s, f)
  <2>1. t.gen <= s.xferGen_
    BY Zenon, <1>4 DEF TaskApart
  <2>2. f[1] # "delete"
    BY <1>10
  <2>3. QED
    BY Zenon, <1>8, <1>10, <2>1, <2>2 DEF FunctorApart
<1>17. \A j \in DOMAIN r.q : FunctorApart(r, r.q[j])
  BY Zenon, <1>0, <1>12, <1>13, <1>14, <1>16 DEF Bookkept
<1>18. \A j \in DOMAIN r.pool : TaskApart(r, r.pool[j])
  <2>1. \A m \in DOMAIN s.pool : TaskApart(s, s.pool[m])
    BY Zenon, <1>0 DEF Bookkept
  <2>2. ASSUME NEW j \in DOMAIN r.pool PROVE TaskApart(r, r.pool[j])
    <3>0. j \in DOMAIN Without(s.pool, i) /\ r.pool[j] = Without(s.pool, i)[j]
      BY Zenon, <1>13
    <3>1. PICK m \in DOMAIN s.pool : r.pool[j] = s.pool[m]
      BY Zenon, <1>11, <3>0
    <3>2. QED
      BY Zenon, <1>15, <2>1, <3>1
  <2>3. QED
    BY Zenon, <2>2
<1>19. Bookkept(r)
  BY Zenon, <1>0, <1>13, <1>14, <1>17, <1>18 DEF Bookkept
<1>20. HasSource(r)
  BY Zenon, <1>0, <1>13 DEF HasSource, Connected
<1>21. QED
  BY Zenon, <1>3, <1>19, <1>20, BecomesApart DEF Apart

(***************************************************************************)
(* One functor of the batch.                                               *)
(***************************************************************************)
LEMMA FunctorStep ==
  ASSUME ApartInv, RunFunctor
  PROVE  Apart(s') /\ env' = env
<1>0. /\ Apart(s) /\ s \in SessionRecord /\ Bookkept(s) /\ HasSource(s)
      /\ s.batch \in Seq(Functors)
  BY Zenon, Fields DEF ApartInv, Apart, Bookkept
<1> DEFINE f == Head(s.batch)
           batch == Tail(s.batch)
           t == [s EXCEPT !.batch = Tail(@)]
<1>1. PICK accepted \in Outcomes, wr \in Writes : s.batch # <<>> /\ Becomes(Functor(f, t, accepted, wr))
  BY Zenon DEF RunFunctor
<1>2. /\ f \in Functors /\ 1 \in DOMAIN s.batch /\ f = s.batch[1] /\ batch \in Seq(Functors)
      /\ \A j \in DOMAIN batch : \E m \in DOMAIN s.batch : batch[j] = s.batch[m]
  BY <1>0, <1>1, HeadFacts
<1>3. t = [s EXCEPT !.batch = batch]
  BY Zenon
<1> HIDE DEF f, batch, t
<1>4. /\ t \in SessionRecord /\ t.conns = s.conns /\ t.q = s.q
      /\ t.dataServer_ = s.dataServer_ /\ t.servers = s.servers /\ t.dataConn_ = s.dataConn_
      /\ t.xfer_ = s.xfer_ /\ t.xferFile_ = s.xferFile_ /\ t.xferFd_ = s.xferFd_
      /\ t.xferGen_ = s.xferGen_ /\ t.xferDir_ = s.xferDir_ /\ t.fds = s.fds /\ t.pool = s.pool
      /\ t.batch = batch /\ t.sent = s.sent /\ t.source = s.source
  BY ZenonT(40), <1>0, <1>2, <1>3 DEF SessionRecord
<1>5. \A g : FunctorApart(s, g) => FunctorApart(t, g)
  BY Zenon, <1>4 DEF FunctorApart, Current
<1>6. \A p : TaskApart(s, p) => TaskApart(t, p)
  BY Zenon, <1>4 DEF TaskApart, Current
<1>7. \A m \in DOMAIN s.batch : FunctorApart(t, s.batch[m])
  BY Zenon, <1>0, <1>5 DEF Bookkept
<1>8. \A j \in DOMAIN t.batch : FunctorApart(t, t.batch[j])
  <2>1. ASSUME NEW j \in DOMAIN batch PROVE FunctorApart(t, batch[j])
    BY Zenon, <1>2, <1>7
  <2>2. QED
    BY Zenon, <1>4, <2>1
<1>9. Bookkept(t) /\ HasSource(t)
  <2>1. Bookkept(t)
    BY Zenon, <1>0, <1>4, <1>5, <1>6, <1>8 DEF Bookkept
  <2>2. HasSource(t)
    BY Zenon, <1>0, <1>4 DEF HasSource, Connected
  <2>3. QED
    BY Zenon, <2>1, <2>2
<1>10. Apart(t) /\ FunctorApart(t, f)
  BY Zenon, <1>2, <1>7, <1>9 DEF Apart
<1>11. accepted \in BOOLEAN /\ wr \in {"all", "part", "error"}
  BY Zenon, OutcomesAre
<1>12. Apart(WriteComplete(t, accepted))
  BY Zenon, <1>10, <1>11, RequestIsApart DEF WriteComplete
<1> DEFINE r == Functor(f, t, accepted, wr)
<1>13. ASSUME f[1] = "chunk" PROVE Apart(r)
  <2>1. f[3] \in Chunks
    BY <1>2, <1>13 DEF Functors
  <2>2. Current(t, f[2]) /\ f[3] # Nothing => f[3][1] = t.source
    BY Zenon, <1>10, <1>13 DEF FunctorApart
  <2>3. Apart(sendChunkReady(t, f[2], f[3], f[4], f[5], wr))
    BY Zenon, <1>10, <1>11, <2>1, <2>2, ChunkReadyIsApart
  <2>4. r = sendChunkReady(t, f[2], f[3], f[4], f[5], wr)
    BY <1>13 DEF Functor
  <2>5. QED
    BY Zenon, <2>3, <2>4
<1>14. ASSUME f[1] = "closeDataServer" PROVE Apart(r)
  <2>1. r = closeDataServer(t)
    BY <1>14 DEF Functor
  <2>2. QED
    BY Zenon, <1>9, <2>1, CloseServerKeeps
<1>15. ASSUME f[1] = "delete" PROVE Apart(r)
  <2>1. f[2] \in 1..MaxPasv
    BY <1>2, <1>15 DEF Functors
  <2>2. f[2] # t.dataServer_ /\ t.servers[f[2]] # "unused"
    BY Zenon, <1>10, <1>15 DEF FunctorApart
  <2>3. Apart(deleteServer(t, f[2]))
    BY Zenon, <1>10, <2>1, <2>2, DeleteIsApart
  <2>4. r = deleteServer(t, f[2])
    BY <1>15 DEF Functor
  <2>5. QED
    BY Zenon, <2>3, <2>4
<1>16. ASSUME f[1] = "forceClose" PROVE Apart(r)
  <2>1. f[2] \in 1..MaxConns
    BY <1>2, <1>16 DEF Functors
  <2>2. Apart(handleClose(t, f[2]))
    BY Zenon, <1>9, <2>1, CloseIsApart
  <2>3. r = IF t.conns[f[2]].state = "disconnecting" THEN handleClose(t, f[2]) ELSE t
    BY <1>16 DEF Functor
  <2>4. QED
    BY Zenon, <1>10, <2>2, <2>3
<1>17. ASSUME f[1] = "bound" PROVE Apart(r)
  <2>1. r = WriteComplete(t, accepted)
    BY <1>17 DEF Functor
  <2>2. QED
    BY Zenon, <1>12, <2>1
<1>18. ASSUME f[1] = "late" PROVE Apart(r)
  <2>1. r = IF t.conns[f[2]].writeComplete THEN WriteComplete(t, accepted) ELSE Crash(t)
    BY <1>18 DEF Functor
  <2>2. QED
    BY Zenon, <1>10, <1>12, <2>1, CrashIsApart
<1>19. f[1] \in {"chunk", "closeDataServer", "delete", "forceClose", "bound", "late"}
  BY <1>2 DEF Functors
<1>20. Apart(r)
  <2> HIDE DEF r
  <2>1. QED
    BY Zenon, <1>13, <1>14, <1>15, <1>16, <1>17, <1>18, <1>19
<1>21. QED
  BY Zenon, <1>1, <1>20, BecomesApart

(***************************************************************************)
(* The start.                                                              *)
(***************************************************************************)
LEMMA InitIsApart == Init => ApartInv
<1>1. SUFFICES ASSUME Init PROVE ApartInv
  OBVIOUS
<1>2. /\ [k \in 1..MaxPasv |-> "unused"] \in [1..MaxPasv -> ServerStates]
      /\ [f \in Fds |-> "closed"] \in [Fds -> Contents]
  BY DEF ServerStates, Contents
<1>3. [c \in 1..MaxConns |-> NoConn] \in [1..MaxConns -> Conns]
  BY DEF NoConn, Conns, ConnStates
<1>4. /\ "kNeedUser" \in States /\ "up" \in CtrlStates /\ 0 \in 0..MaxPasv /\ 0 \in 0..MaxConns
      /\ "kNone" \in Kinds /\ "" \in Named /\ 0 \in 0..(MaxXfers + 1) /\ 0 \in Nat
      /\ {} \in SUBSET (1..MaxPasv) /\ "functors" \in Phases /\ {} \in SUBSET Events
      /\ "idle" \in Turns
  BY DEF States, CtrlStates, Kinds, Named, Phases, Turns
<1>5. /\ <<>> \in Seq(Functors) /\ <<>> \in Seq(Tasks) /\ <<>> \in Seq(Chunks) /\ DOMAIN <<>> = {}
  OBVIOUS
<1>6. [code |-> "", of |-> "", n |-> 0] \in Replies
  BY Zenon, <1>4 DEF Replies
<1>7. /\ s \in SessionRecord /\ s.dataServer_ = 0 /\ s.dataConn_ = 0 /\ s.xfer_ = "kNone"
      /\ s.sent = <<>> /\ s.q = <<>> /\ s.batch = <<>> /\ s.pool = <<>>
  BY Zenon, <1>1, <1>2, <1>3, <1>4, <1>5, <1>6 DEF Init, SessionRecord
<1>8. s.xfer_ # "kRetr" /\ s.xfer_ # "kList"
  BY <1>7
<1>9. Bookkept(s)
  BY Zenon, <1>5, <1>7, <1>8 DEF Bookkept
<1>10. HasSource(s)
  BY Zenon, <1>7 DEF HasSource, Connected
<1>11. QED
  BY Zenon, <1>1, <1>9, <1>10 DEF ApartInv, Apart, Init

(***************************************************************************)
(* Whatever the client, the disks and the timers do: a data connection     *)
(* carries only what was read for its transfer, because sendChunkReady     *)
(* asks for the generation and abortTransfer ends it; and requestNextChunk *)
(* works on an open source.                                                *)
(***************************************************************************)
THEOREM TransfersStayApart == Spec => []TransfersApart
<1>1. ApartInv /\ [Next]_vars => ApartInv'
  <2>1. SUFFICES ASSUME ApartInv, [Next]_vars PROVE Apart(s') /\ env' \in Environments
    BY Zenon DEF ApartInv
  <2>2. ApartInv => Apart(s) /\ env \in Environments
    BY Zenon DEF ApartInv
  <2>3. CASE Poll
    BY Zenon, <2>1, <2>2, <2>3, PollStep
  <2>4. CASE doPendingFunctors
    BY Zenon, <2>1, <2>2, <2>4, PendingStep
  <2>5. CASE HandleEvent
    BY Zenon, <2>1, <2>2, <2>5, CommandsStep, EventsStep DEF HandleEvent
  <2>6. CASE RunFunctor
    BY Zenon, <2>1, <2>2, <2>6, FunctorStep
  <2>7. CASE DiskStep
    BY Zenon, <2>1, <2>2, <2>7, DiskIsApart
  <2>8. CASE UNCHANGED vars
    BY Zenon, <2>1, <2>2, <2>8 DEF vars
  <2>9. QED
    BY Zenon, <2>1, <2>3, <2>4, <2>5, <2>6, <2>7, <2>8 DEF Next
<1>2. ApartInv => TransfersApart
  BY Zenon DEF ApartInv, Apart, Bookkept, TransfersApart, TypeOK
<1>3. QED
  BY InitIsApart, <1>1, <1>2, PTL DEF Spec
=============================================================================
