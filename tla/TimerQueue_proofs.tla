-------------------------- MODULE TimerQueue_proofs --------------------------
(***************************************************************************)
(* Proofs about TimerQueue for any number of timers, addresses and threads *)
(* and any length of time: the two sets agree, every timer has one owner,  *)
(* cancels are final, no timer is lost and the timerfd is always set in    *)
(* time.  TypeOK is not inductive alone (a restarted timer's sequence      *)
(* number has its type because the timer is live), so all parts of IInv    *)
(* are carried together, one lemma per action: first the actions that add  *)
(* no timer, with what cancelInLoop and addTimerInLoop keep of the sets    *)
(* wherever they are called from.                                          *)
(***************************************************************************)
EXTENDS TimerQueue, TLAPS

USE TimerAssumption

(***************************************************************************)
(* A TimerQueue without timers satisfies the inductive invariant.          *)
(***************************************************************************)
LEMMA IInvInit == Init => IInv
<1> SUFFICES ASSUME Init PROVE IInv
  OBVIOUS
<1>1. TypeOK
  <2>1. << >> \in Seq(Functor) /\ 0 \in 0..MaxTimers
    OBVIOUS
  <2>2. adding \in [Threads -> Ids \cup {NoId}]
    BY DEF Init
  <2>3. QED
    BY Zenon, <2>1, <2>2 DEF Init, TypeOK, OneShot
<1>2. Sets /\ Owners /\ Seqs /\ Cancels
  BY DEF Init, Sets, Owners, Seqs, Cancels, Active, Adds
<1>3. NothingLost /\ NoMissedTimer
  BY DEF Init, NothingLost, NoMissedTimer
<1>4. QED
  BY <1>1, <1>2, <1>3 DEF IInv

(***************************************************************************)
(* Time passing makes no timer late: a timerfd that is set stays set.      *)
(***************************************************************************)
LEMMA TickStep == IInv /\ Tick => IInv'
<1> SUFFICES ASSUME IInv, Tick PROVE IInv'
  OBVIOUS
<1> USE DEF IInv, Tick, timers, sets, batch, timerfd, callers, history
<1>1. TypeOK'
  BY DEF TypeOK
<1>2. Sets' /\ Owners' /\ Seqs' /\ Cancels' /\ NothingLost'
  BY DEF Sets, Owners, Seqs, Cancels, NothingLost, Active, Adds
<1>3. NoMissedTimer'
  BY DEF TypeOK, NoMissedTimer
<1>4. QED
  BY <1>1, <1>2, <1>3

(***************************************************************************)
(* epoll_wait reporting the timerfd changes no timer.                      *)
(***************************************************************************)
LEMMA PollStep == IInv /\ PollTimerfd => IInv'
<1> SUFFICES ASSUME IInv, PollTimerfd PROVE IInv'
  OBVIOUS
<1> USE DEF IInv, PollTimerfd, timers, sets, timerfd, callers, history
<1>1. TypeOK'
  BY DEF TypeOK
<1>2. Sets' /\ Owners' /\ Seqs' /\ Cancels' /\ NothingLost' /\ NoMissedTimer'
  BY DEF Sets, Owners, Seqs, Cancels, NothingLost, NoMissedTimer, Active, Adds
<1>4. QED
  BY <1>1, <1>2

(***************************************************************************)
(* getExpired moves what is due from both sets to the batch.               *)
(***************************************************************************)
LEMMA HandleReadStep == IInv /\ HandleRead => IInv'
<1> SUFFICES ASSUME IInv, HandleRead PROVE IInv'
  OBVIOUS
<1> USE DEF IInv, HandleRead, timers, callers, history
<1>1. TypeOK'
  BY Zenon DEF TypeOK, ReadTimerfd
<1>2. Sets'
  BY DEF TypeOK, Sets, Active, Ids
<1>3. Owners'
  <2>1. \A a \in Addresses : a \in expired' => Active(a) /\ ~Active(a)'
    BY DEF TypeOK, Sets, Active
  <2>2. \A a \in Addresses : Active(a)' <=> Active(a) /\ a \notin expired'
    BY <2>1 DEF Active
  <2>3. expired = {} /\ expired' \subseteq Addresses
    BY DEF TypeOK
  <2>4. \A k, a : Adds(k, a)' <=> Adds(k, a)
    BY DEF Adds
  <2>5. QED
    BY <2>1, <2>2, <2>3, <2>4 DEF TypeOK, Sets, Owners, Active
<1>4. Seqs' /\ NothingLost'
  BY DEF Seqs, NothingLost
<1>5. Cancels'
  BY Zenon DEF TypeOK, Cancels, Ids, Owners
<1>6. NoMissedTimer'
  BY DEF NoMissedTimer
<1>7. QED
  BY <1>1, <1>2, <1>3, <1>4, <1>5, <1>6

(***************************************************************************)
(* A callback, apart from what it calls, only marks its timer as run.      *)
(***************************************************************************)
LEMMA RunTimerStep == \A a \in Addresses : IInv /\ RunTimer(a) => IInv'
<1> SUFFICES ASSUME NEW a \in Addresses, IInv, RunTimer(a) PROVE IInv'
  OBVIOUS
<1> USE DEF IInv, RunTimer, timers, sets, callers, timerfd
<1>1. TypeOK'
  <2>1. seq[a] \in 1..MaxTimers
    BY DEF TypeOK, Owners, Seqs
  <2>2. fired' \subseteq 1..MaxTimers
    BY Zenon, <2>1 DEF TypeOK
  <2>3. QED
    BY <2>2 DEF TypeOK
<1>2. Sets' /\ Owners' /\ Seqs' /\ NoMissedTimer'
  BY DEF Sets, Owners, Seqs, NoMissedTimer, Active, Adds
<1>3. Cancels'
  BY DEF TypeOK, Cancels
<1>4. NothingLost'
  BY DEF NothingLost
<1>5. QED
  BY <1>1, <1>2, <1>3, <1>4

(***************************************************************************)
(* reset restarts or deletes every timer of the batch, and sets the        *)
(* timerfd to the earliest entry.                                          *)
(***************************************************************************)
LEMMA ResetStep == IInv /\ Reset => IInv'
<1> SUFFICES ASSUME IInv, Reset PROVE IInv'
  OBVIOUS
<1> USE DEF IInv, Reset, callers, history
<1>0. Restarts \subseteq expired /\ expired \subseteq live /\ live \subseteq Addresses
  BY DEF Restarts, TypeOK, Owners
<1>1. armed' \in BOOLEAN /\ fireAt' \in Nat
  <2>1. timers_' \subseteq Nat \X Addresses
    BY <1>0 DEF TypeOK
  <2>2. ASSUME NEW e \in timers_', ResetTimerfd(e[1]) PROVE armed' \in BOOLEAN /\ fireAt' \in Nat
    BY <2>1, <2>2 DEF ResetTimerfd, TypeOK
  <2>3. QED
    BY <2>2 DEF SetNext, TypeOK, timerfd
<1>2. TypeOK'
  <2>1. \A a \in Restarts : <<a, seq[a]>> \in Ids
    BY <1>0 DEF TypeOK, Seqs, Ids
  <2>2. activeTimers_' \subseteq Ids
    BY <2>1 DEF TypeOK
  <2>3. timers_' \subseteq Nat \X Addresses
    BY <1>0 DEF TypeOK
  <2>4. expiration' \in [Addresses -> Nat]
    BY DEF TypeOK
  <2>5. QED
    BY Zenon, <1>0, <1>1, <2>2, <2>3, <2>4 DEF TypeOK
<1>3. Sets'
  BY <1>0 DEF TypeOK, Sets, Owners, Active, Ids
<1>4. Owners'
  BY <1>0 DEF TypeOK, Sets, Owners, Active, Adds, Ids
<1>5. Seqs'
  BY DEF Seqs
<1>6. Cancels'
  BY <1>0 DEF TypeOK, Cancels, Restarts, Seqs
<1>7. NothingLost'
  BY <1>0 DEF TypeOK, NothingLost, Cancels, Restarts, Seqs, Owners
<1>8. NoMissedTimer'
  BY <1>0, <1>2 DEF TypeOK, NoMissedTimer, SetNext, ResetTimerfd, timerfd
<1>9. QED
  BY <1>2, <1>3, <1>4, <1>5, <1>6, <1>7, <1>8

(***************************************************************************)
(* cancelInLoop, in a callback or from a functor: a waiting timer leaves   *)
(* both sets and is deleted; otherwise only cancelingTimers_ changes.      *)
(***************************************************************************)
LEMMA CancelKeeps ==
  ASSUME IInv, NEW id \in Ids, CancelInLoop(id),
         UNCHANGED <<now, seq, expiration, interval, callingExpiredTimers_, batch, timerfd,
                     adding, created, ids, fired>>
  PROVE  /\ Sets' /\ Seqs' /\ Cancels' /\ NothingLost' /\ NoMissedTimer'
         /\ live' \subseteq live
         /\ \A a \in Addresses : Active(a)' => Active(a)
         /\ \A a \in live : a \in live' \/ (Active(a) /\ ~Active(a)')
         /\ \A a \in live' : Active(a) => Active(a)'
         /\ timers_' \subseteq timers_ /\ activeTimers_' \subseteq activeTimers_
         /\ cancelingTimers_' \subseteq Ids /\ cancelled' \subseteq 1..MaxTimers
<1> USE DEF IInv, batch, timerfd
<1>1. CASE id \in activeTimers_
  <2>1. /\ id[1] \in live /\ id[2] = seq[id[1]] /\ id = <<id[1], seq[id[1]]>>
        /\ id[1] \in Addresses /\ id[2] \in 1..created /\ id[2] \in 1..MaxTimers
    BY <1>1 DEF Sets, Seqs, Ids, TypeOK
  <2>2. /\ timers_' = timers_ \ {<<expiration[id[1]], id[1]>>} /\ live' = live \ {id[1]}
        /\ activeTimers_' = activeTimers_ \ {id} /\ cancelled' = cancelled \cup {id[2]}
        /\ cancelingTimers_' = cancelingTimers_
    BY <1>1 DEF CancelInLoop
  <2>3. \A a \in Addresses : Active(a)' <=> Active(a) /\ a # id[1]
    BY <2>1, <2>2 DEF Active
  <2>4. Sets'
    <3>1. \A i \in activeTimers_ : i = <<i[1], i[2]>> /\ i[1] \in live /\ i[2] = seq[i[1]]
      BY DEF TypeOK, Ids, Sets
    <3>2. \A i \in activeTimers_' : i[1] \in live' /\ i[2] = seq'[i[1]]
      BY <2>1, <2>2, <3>1
    <3>3. \A e \in timers_ : e = <<e[1], e[2]>> /\ e[2] \in Addresses
      BY DEF TypeOK
    <3>4. \A e \in timers_' : Active(e[2])' /\ e[1] = expiration'[e[2]]
      BY <2>1, <2>2, <2>3, <3>3 DEF Sets
    <3>5. \A a \in Addresses : Active(a)' => <<expiration[a], a>> \in timers_'
      BY <2>1, <2>2, <2>3 DEF Sets
    <3>6. QED
      BY Zenon, <3>2, <3>4, <3>5 DEF Sets
  <2>5. Seqs'
    BY <2>1, <2>2 DEF Seqs
  <2>6. Cancels'
    BY SMTT(30), <2>1, <2>2 DEF Cancels, Seqs, TypeOK, Owners, Active
  <2>7. NothingLost' /\ NoMissedTimer'
    BY <2>1, <2>2 DEF NothingLost, NoMissedTimer, Seqs
  <2>8. cancelingTimers_' \subseteq Ids /\ cancelled' \subseteq 1..MaxTimers
    BY <2>1, <2>2 DEF TypeOK
  <2>9. QED
    <3>1. live \subseteq Addresses
      BY DEF TypeOK
    <3>2. Active(id[1])
      BY <1>1, <2>1 DEF Active
    <3>3. QED
      BY <2>1, <2>2, <2>3, <2>4, <2>5, <2>6, <2>7, <2>8, <3>1, <3>2
<1>2. CASE id \notin activeTimers_
  <2>1. /\ cancelingTimers_' = IF callingExpiredTimers_ THEN cancelingTimers_ \cup {id}
                                                        ELSE cancelingTimers_
        /\ cancelled' = IF \E a \in expired : id = <<a, seq[a]>>
                        THEN cancelled \cup {id[2]} ELSE cancelled
        /\ timers_' = timers_ /\ activeTimers_' = activeTimers_ /\ live' = live
    BY <1>2 DEF CancelInLoop
  <2>2. \A a : Active(a)' <=> Active(a)
    BY <2>1 DEF Active
  <2>3. Sets'
    BY Zenon, <2>1, <2>2 DEF Sets
  <2>4. \A a \in expired : id = <<a, seq[a]>> => id[2] = seq[a] /\ a \in live /\ seq[a] \in 1..created
    BY DEF Owners, Seqs
  <2>5. Seqs'
    BY Zenon, <2>1, <2>4 DEF Seqs
  <2>6. Cancels'
    <3>1. expired # {} => callingExpiredTimers_
      BY DEF TypeOK
    <3>2. ASSUME NEW a \in live, seq[a] \in cancelled'
          PROVE  a \in expired /\ <<a, seq[a]>> \in cancelingTimers_'
      <4>1. CASE seq[a] \in cancelled
        BY <2>1, <4>1 DEF Cancels
      <4>2. CASE seq[a] \notin cancelled
        <5>1. PICK b \in expired : id = <<b, seq[b]>> /\ seq[a] = id[2]
          BY <2>1, <3>2, <4>2
        <5>2. a = b
          BY <5>1 DEF Seqs, Owners
        <5>3. QED
          BY <2>1, <3>1, <5>1, <5>2
      <4>3. QED
        BY <4>1, <4>2
    <3>3. ASSUME NEW a \in expired, <<a, seq[a]>> \in cancelingTimers_'
          PROVE  seq[a] \in cancelled'
      BY <2>1, <2>4, <3>3 DEF Cancels
    <3>4. QED
      BY <2>1, <3>2, <3>3 DEF Cancels
  <2>7. NothingLost' /\ NoMissedTimer'
    BY <2>1 DEF NothingLost, NoMissedTimer
  <2>8. cancelingTimers_' \subseteq Ids /\ cancelled' \subseteq 1..MaxTimers
    <3>1. 1..created \subseteq 1..MaxTimers
      BY DEF TypeOK
    <3>2. QED
      BY Zenon, <2>1, <2>4, <3>1 DEF TypeOK
  <2>9. QED
    BY <2>1, <2>2, <2>3, <2>5, <2>6, <2>7, <2>8 DEF TypeOK
<1>3. QED
  BY <1>1, <1>2

(***************************************************************************)
(* A cancel by user code on the loop thread.                               *)
(***************************************************************************)
LEMMA LoopCancelStep == \A id \in ids : IInv /\ LoopCancel(id) => IInv'
<1> SUFFICES ASSUME NEW id \in ids, IInv, LoopCancel(id) PROVE IInv'
  OBVIOUS
<1>0. TypeOK /\ id \in Ids
  BY DEF IInv, TypeOK
<1>1. UNCHANGED <<now, seq, expiration, interval, callingExpiredTimers_, batch, timerfd,
                  adding, created, ids, fired, pending>>
  BY DEF LoopCancel, callers
<1>2. CancelInLoop(id)
  BY DEF LoopCancel
<1>3. Sets' /\ Seqs' /\ Cancels' /\ NothingLost' /\ NoMissedTimer'
  BY <1>0, <1>1, <1>2, CancelKeeps
<1>4. /\ live' \subseteq live
      /\ \A a \in Addresses : Active(a)' => Active(a)
      /\ \A a \in live : a \in live' \/ (Active(a) /\ ~Active(a)')
      /\ \A a \in live' : Active(a) => Active(a)'
      /\ timers_' \subseteq timers_ /\ activeTimers_' \subseteq activeTimers_
      /\ cancelingTimers_' \subseteq Ids /\ cancelled' \subseteq 1..MaxTimers
  BY <1>0, <1>1, <1>2, CancelKeeps
<1>5. TypeOK'
  BY <1>0, <1>1, <1>4 DEF TypeOK, batch, timerfd
<1>6. Owners'
  <2>1. \A k, a : Adds(k, a)' <=> Adds(k, a)
    BY <1>1 DEF Adds
  <2>2. QED
    BY Zenon, <1>0, <1>1, <1>4, <2>1 DEF IInv, Owners, TypeOK, batch
<1>7. QED
  BY <1>3, <1>5, <1>6 DEF IInv

(***************************************************************************)
(* The end of addTimer and the queueing of cancelInLoop on another thread. *)
(***************************************************************************)
LEMMA CallerStep ==
  ASSUME IInv, NEW t \in Threads
  PROVE  /\ AddTimerReturns(t) => IInv'
         /\ \A id \in ids : Cancel(t, id) => IInv'
<1> USE DEF IInv, timers, sets, batch, timerfd, history
<1>1. ASSUME AddTimerReturns(t) PROVE IInv'
  <2> USE <1>1 DEF AddTimerReturns
  <2>1. TypeOK'
    BY DEF TypeOK
  <2>2. Sets' /\ Owners' /\ Seqs' /\ Cancels' /\ NothingLost' /\ NoMissedTimer'
    BY DEF Sets, Owners, Seqs, Cancels, NothingLost, NoMissedTimer, Active, Adds
  <2>3. QED
    BY <2>1, <2>2
<1>2. ASSUME NEW id \in ids, Cancel(t, id) PROVE IInv'
  <2> USE <1>2 DEF Cancel
  <2>1. TypeOK'
    BY DEF TypeOK, Functor
  <2>2. Sets' /\ Seqs' /\ Cancels' /\ NothingLost' /\ NoMissedTimer'
    BY DEF Sets, Seqs, Cancels, NothingLost, NoMissedTimer, Active
  <2>3. Owners'
    <3>1. /\ Len(pending') = Len(pending) + 1 /\ Len(pending) \in Nat
          /\ \A k \in 1..Len(pending) : pending'[k] = pending[k]
          /\ pending'[Len(pending) + 1].op = "cancel"
      BY DEF TypeOK
    <3>2. \A k \in 1..Len(pending'), a \in Addresses :
            Adds(k, a)' <=> k \in 1..Len(pending) /\ Adds(k, a)
      BY <3>1 DEF Adds
    <3>3. QED
      <4>1. \A a \in live : Active(a)' \/ a \in expired' \/ \E k \in 1..Len(pending') : Adds(k, a)'
        <5>1. live \subseteq Addresses /\ 1..Len(pending) \subseteq 1..Len(pending')
          BY <3>1 DEF TypeOK
        <5>2. \A a \in live : Active(a)' <=> Active(a)
          BY DEF Active
        <5>3. \A a \in live : Active(a) \/ a \in expired
                               \/ \E k \in 1..Len(pending) : Adds(k, a)
          BY DEF Owners
        <5>4. \A a \in live, k \in 1..Len(pending) : Adds(k, a) => Adds(k, a)'
          BY <3>2, <5>1
        <5>5. QED
          BY <5>1, <5>2, <5>3, <5>4
      <4>2. \A a \in expired : a \in live /\ ~Active(a)'
        BY DEF Owners, Active
      <4>3. ASSUME NEW k \in 1..Len(pending'), NEW a \in Addresses, Adds(k, a)'
            PROVE  /\ a \in live /\ pending'[k].id[2] = seq[a]
                   /\ ~Active(a)' /\ a \notin expired
                   /\ \A j \in 1..Len(pending') : Adds(j, a)' => j = k
        <5>1. k \in 1..Len(pending) /\ Adds(k, a) /\ pending'[k] = pending[k]
          BY Zenon, <3>1, <3>2, <4>3
        <5>2. /\ a \in live /\ pending[k].id[2] = seq[a] /\ ~Active(a) /\ a \notin expired
              /\ \A j \in 1..Len(pending) : Adds(j, a) => j = k
          BY <5>1 DEF Owners
        <5>3. \A j \in 1..Len(pending') : Adds(j, a)' => j = k
          BY Zenon, <3>2, <5>2
        <5>4. QED
          BY <5>1, <5>2, <5>3 DEF Active
      <4>4. QED
        BY Zenon, <4>1, <4>2, <4>3 DEF Owners
  <2>4. QED
    BY <2>1, <2>2, <2>3
<1>3. QED
  BY <1>1, <1>2

(***************************************************************************)
(* A new Timer gets an address that no live timer has and a sequence       *)
(* number that no earlier timer had, so what is known of the others stays  *)
(* true.                                                                   *)
(***************************************************************************)
LEMMA NewTimerKeeps ==
  ASSUME IInv, NEW a \in Addresses, NEW when \in 1..MaxTime, NEW every \in Everies,
         NewTimer(a, when, every), UNCHANGED <<cancelled, fired, cancelingTimers_, batch>>
  PROVE  /\ a \notin live /\ live' = live \cup {a} /\ created' = created + 1
         /\ created' \in 1..MaxTimers /\ <<a, created'>> \in Ids
         /\ seq' \in [Addresses -> 0..MaxTimers] /\ expiration' \in [Addresses -> Nat]
         /\ interval' \in [Addresses -> Nat]
         /\ seq'[a] = created' /\ expiration'[a] = when
         /\ \A b \in live : b # a /\ seq'[b] = seq[b] /\ expiration'[b] = expiration[b]
         /\ Seqs' /\ Cancels' /\ NothingLost'
<1> USE DEF IInv, NewTimer, batch
<1>1. /\ a \notin live /\ live' = live \cup {a} /\ created' = created + 1
      /\ created' \in 1..MaxTimers /\ <<a, created'>> \in Ids /\ created \in Nat
  BY DEF TypeOK, Ids
<1>2. /\ seq' \in [Addresses -> 0..MaxTimers] /\ expiration' \in [Addresses -> Nat]
      /\ interval' \in [Addresses -> Nat]
  BY <1>1 DEF TypeOK, Everies, OneShot
<1>3. /\ seq'[a] = created' /\ expiration'[a] = when
      /\ \A b \in live : /\ b # a /\ seq'[b] = seq[b] /\ expiration'[b] = expiration[b]
                          /\ interval'[b] = interval[b]
  BY <1>1 DEF TypeOK
<1>4. Seqs'
  BY <1>1, <1>3 DEF Seqs
<1>5. Cancels'
  <2>1. expired \subseteq live
    BY Zenon DEF Owners
  <2>2. created' \notin cancelled
    BY <1>1 DEF Seqs
  <2>3. QED
    BY <1>1, <1>3, <2>1, <2>2 DEF Cancels
<1>6. NothingLost'
  <2>1. 1..created' = 1..created \cup {created'}
    BY <1>1
  <2>2. QED
    BY <1>1, <1>3, <2>1 DEF NothingLost
<1>7. QED
  BY <1>1, <1>2, <1>3, <1>4, <1>5, <1>6

(***************************************************************************)
(* addTimerInLoop, on the loop thread or from a functor, for a timer that  *)
(* neither waits nor is in the batch: both sets gain it, and the timerfd   *)
(* is set again exactly when it has become the earliest.                   *)
(***************************************************************************)
LEMMA AddTimerInLoopKeeps ==
  ASSUME IInv, NEW a \in Addresses, NEW id \in Ids, NEW when \in Nat,
         id = <<a, seq'[a]>>, a \in live', live \subseteq live', a \notin expired,
         \A i \in activeTimers_ : i[1] # a,
         \A b \in live : b = a \/ (seq'[b] = seq[b] /\ expiration'[b] = expiration[b]),
         expiration'[a] = when,
         AddTimerInLoop(id, when), now' = now
  PROVE  /\ Sets' /\ NoMissedTimer'
         /\ \A b \in live : Active(b)' <=> (b = a \/ Active(b))
         /\ Active(a)'
         /\ timers_' \in SUBSET (Nat \X Addresses) /\ activeTimers_' \in SUBSET Ids
         /\ armed' \in BOOLEAN /\ fireAt' \in Nat
<1> USE DEF IInv, AddTimerInLoop, timerfd
<1>1. /\ timers_' \in SUBSET (Nat \X Addresses) /\ activeTimers_' \in SUBSET Ids
      /\ armed' \in BOOLEAN /\ fireAt' \in Nat
  <2>1. <<when, id[1]>> \in Nat \X Addresses
    BY Zenon DEF Ids
  <2>2. timers_' \in SUBSET (Nat \X Addresses) /\ activeTimers_' \in SUBSET Ids
    BY Zenon, <2>1 DEF TypeOK
  <2>3. armed' \in BOOLEAN /\ fireAt' \in Nat
    <3>1. CASE EarliestChanged(when)
      BY <3>1 DEF TypeOK, ResetTimerfd
    <3>2. CASE ~EarliestChanged(when)
      BY <3>2 DEF TypeOK
    <3>3. QED
      BY Zenon, <3>1, <3>2
  <2>4. QED
    BY <2>2, <2>3
<1>2. /\ \A b \in live : Active(b)' <=> (b = a \/ Active(b))
      /\ Active(a)'
  BY Zenon DEF Active, TypeOK
<1>3. Sets'
  <2>1. \A i \in activeTimers_' : i[1] \in live' /\ i[2] = seq'[i[1]]
    BY DEF Sets
  <2>2. \A e \in timers_ : e[2] \in Addresses /\ e[2] \in live /\ e[2] # a
    BY ZenonT(40) DEF Sets, Active, TypeOK
  <2>3. \A e \in timers_' : Active(e[2])' /\ e[1] = expiration'[e[2]]
    BY <1>2, <2>2 DEF Sets
  <2>4. ASSUME NEW b \in Addresses, Active(b)' PROVE <<expiration'[b], b>> \in timers_'
    <3>1. CASE b = a
      BY <3>1
    <3>2. CASE b # a
      <4>1. <<b, seq'[b]>> \in activeTimers_
        BY <2>4, <3>2 DEF Active
      <4>2. b \in live
        BY <4>1 DEF Sets
      <4>3. QED
        BY <3>2, <4>1, <4>2 DEF Sets, Active
    <3>3. QED
      BY Zenon, <3>1, <3>2
  <2>5. QED
    BY <2>1, <2>3, <2>4 DEF Sets
<1>4. NoMissedTimer'
  <2> SUFFICES ASSUME ~callingExpiredTimers_, NEW e \in timers_'
               PROVE  armed' /\ (fireAt' <= e[1] \/ fireAt' <= now + 1)
    BY DEF NoMissedTimer
  <2>1. e[1] \in Nat /\ now \in Nat /\ \A f \in timers_ : f[1] \in Nat
    BY Zenon, <1>1 DEF TypeOK
  <2>2. CASE EarliestChanged(when)
    BY <2>1, <2>2 DEF EarliestChanged, ResetTimerfd
  <2>3. CASE ~EarliestChanged(when)
    <3>1. PICK f \in timers_ : f[1] <= when
      BY <2>1, <2>3 DEF EarliestChanged
    <3>2. armed /\ fireAt \in Nat /\ \A g \in timers_ : fireAt <= g[1] \/ fireAt <= now + 1
      BY <3>1 DEF NoMissedTimer, TypeOK
    <3>3. e \in timers_ \/ e[1] = when
      OBVIOUS
    <3>4. QED
      BY <2>1, <2>3, <3>1, <3>2, <3>3
  <2>4. QED
    BY <2>2, <2>3
<1>5. QED
  BY Zenon, <1>1, <1>2, <1>3, <1>4

(***************************************************************************)
(* addTimer by user code on the loop thread.                               *)
(***************************************************************************)
LEMMA LoopAddTimerStep ==
  ASSUME IInv, NEW a \in Addresses, NEW when \in 1..MaxTime, NEW every \in Everies,
         LoopAddTimer(a, when, every)
  PROVE  IInv'
<1>1. /\ NewTimer(a, when, every) /\ UNCHANGED <<cancelled, fired, cancelingTimers_, batch>>
      /\ UNCHANGED <<now, pending, adding, callingExpiredTimers_>>
      /\ AddTimerInLoop(<<a, created'>>, when) /\ ids' = ids \cup {<<a, created'>>}
  BY SMTT(30) DEF LoopAddTimer, AddTimerInLoop
<1>2. /\ a \notin live /\ live' = live \cup {a} /\ created' \in 1..MaxTimers
      /\ <<a, created'>> \in Ids
      /\ seq' \in [Addresses -> 0..MaxTimers] /\ expiration' \in [Addresses -> Nat]
      /\ interval' \in [Addresses -> Nat]
      /\ seq'[a] = created' /\ expiration'[a] = when
      /\ \A b \in live : b # a /\ seq'[b] = seq[b] /\ expiration'[b] = expiration[b]
      /\ Seqs' /\ Cancels' /\ NothingLost'
  BY Zenon, <1>1, NewTimerKeeps
<1>3. a \notin expired /\ (\A i \in activeTimers_ : i[1] # a) /\ when \in Nat
  BY Zenon, <1>2 DEF IInv, Owners, Sets
<1>4. /\ Sets' /\ NoMissedTimer'
      /\ \A b \in live : Active(b)' <=> (b = a \/ Active(b))
      /\ Active(a)'
      /\ timers_' \in SUBSET (Nat \X Addresses) /\ activeTimers_' \in SUBSET Ids
      /\ armed' \in BOOLEAN /\ fireAt' \in Nat
  <2>1. /\ <<a, created'>> = <<a, seq'[a]>> /\ a \in live' /\ live \subseteq live'
        /\ \A b \in live : b = a \/ (seq'[b] = seq[b] /\ expiration'[b] = expiration[b])
    BY Zenon, <1>2
  <2>2. QED
    BY <1>1, <1>2, <1>3, <2>1, AddTimerInLoopKeeps
<1>5. TypeOK'
  BY Zenon, <1>1, <1>2, <1>4 DEF IInv, TypeOK, batch
<1>6. Owners'
  <2>1. \A k, b : Adds(k, b)' <=> Adds(k, b)
    BY SMTT(30), <1>1 DEF Adds
  <2>2. expired' = expired /\ pending' = pending /\ live \subseteq Addresses
    BY <1>1 DEF batch, IInv, TypeOK
  <2>3. QED
    <3>1. \A b \in live' : Active(b)' \/ b \in expired' \/ \E k \in 1..Len(pending)' : Adds(k, b)'
      BY Zenon, <1>2, <1>4, <2>1, <2>2 DEF IInv, Owners
    <3>2. \A b \in expired' : b \in live' /\ ~Active(b)'
      BY Zenon, <1>2, <1>3, <1>4, <2>2 DEF IInv, Owners
    <3>3. ASSUME NEW k \in 1..Len(pending), NEW b \in Addresses, Adds(k, b)
          PROVE  /\ b \in live' /\ pending[k].id[2] = seq'[b] /\ ~Active(b)' /\ b \notin expired'
                 /\ \A j \in 1..Len(pending) : Adds(j, b) => j = k
      <4>1. /\ b \in live /\ pending[k].id[2] = seq[b] /\ ~Active(b) /\ b \notin expired
            /\ \A j \in 1..Len(pending) : Adds(j, b) => j = k
        BY Zenon, <3>3 DEF IInv, Owners
      <4>2. QED
        BY Zenon, <1>2, <1>4, <2>2, <4>1
    <3>4. QED
      BY Zenon, <2>1, <2>2, <3>1, <3>2, <3>3 DEF Owners
<1>7. QED
  BY <1>2, <1>4, <1>5, <1>6 DEF IInv

(***************************************************************************)
(* addTimer by another thread: the functor it queues owns the new timer.   *)
(***************************************************************************)
LEMMA AddTimerStep ==
  ASSUME IInv, NEW t \in Threads, NEW a \in Addresses, NEW when \in 1..MaxTime,
         NEW every \in Everies, AddTimer(t, a, when, every)
  PROVE  IInv'
<1>1. /\ NewTimer(a, when, every) /\ UNCHANGED <<cancelled, fired, cancelingTimers_, batch>>
      /\ UNCHANGED <<now, timers_, activeTimers_, callingExpiredTimers_, timerfd, ids>>
      /\ pending' = Append(pending, [op |-> "add", id |-> <<a, created'>>])
      /\ adding' = [adding EXCEPT ![t] = <<a, created'>>]
  BY SMTT(30) DEF AddTimer, sets, history
<1>2. /\ a \notin live /\ live' = live \cup {a} /\ created' \in 1..MaxTimers
      /\ <<a, created'>> \in Ids
      /\ seq' \in [Addresses -> 0..MaxTimers] /\ expiration' \in [Addresses -> Nat]
      /\ interval' \in [Addresses -> Nat]
      /\ seq'[a] = created' /\ expiration'[a] = when
      /\ \A b \in live : b # a /\ seq'[b] = seq[b] /\ expiration'[b] = expiration[b]
      /\ Seqs' /\ Cancels' /\ NothingLost'
  BY Zenon, <1>1, NewTimerKeeps
<1>3. TypeOK'
  <2>1. [op |-> "add", id |-> <<a, created'>>] \in Functor
    BY Zenon, <1>2 DEF Functor
  <2>2. pending' \in Seq(Functor)
    BY <1>1, <2>1 DEF IInv, TypeOK
  <2>3. adding' \in [Threads -> Ids \cup {NoId}]
    BY <1>1, <1>2 DEF IInv, TypeOK
  <2>4. QED
    BY Zenon, <1>1, <1>2, <2>2, <2>3 DEF IInv, TypeOK, batch, timerfd
<1>4. \A b \in live : Active(b)' <=> Active(b)
  BY <1>1, <1>2, Zenon DEF Active
<1>5. ~Active(a)'
  BY <1>1, <1>2 DEF Active, IInv, Sets
<1>6. Sets'
  <2>1. \A i \in activeTimers_ : i[1] \in live /\ i[2] = seq[i[1]]
    BY Zenon DEF IInv, Sets
  <2>2. \A e \in timers_ : e[2] \in live
    BY Zenon DEF IInv, Sets, Active
  <2>3. ASSUME NEW b \in Addresses, Active(b)' PROVE b \in live
    BY Zenon, <1>1, <2>1, <2>3 DEF Active
  <2>4. QED
    BY Zenon, <1>1, <1>2, <1>4, <2>1, <2>2, <2>3 DEF IInv, Sets
<1>7. NoMissedTimer'
  BY <1>1 DEF IInv, NoMissedTimer, timerfd
<1>8. Owners'
  <2>0. PICK n \in Nat : n = Len(pending)
    BY DEF IInv, TypeOK
  <2>1. /\ Len(pending') = n + 1 /\ Len(pending) = n
        /\ \A k \in 1..n : pending'[k] = pending[k]
        /\ pending'[n + 1] = [op |-> "add", id |-> <<a, created'>>]
    BY <1>1, <2>0 DEF IInv, TypeOK
  <2>2. \A k \in 1..n, b \in Addresses : Adds(k, b)' <=> Adds(k, b)
    BY <2>1 DEF Adds
  <2>3. \A b \in Addresses : Adds(n + 1, b)' <=> b = a
    BY <2>1 DEF Adds
  <2>4. \A k \in 1..(n + 1) : k \in 1..n \/ k = n + 1
    BY <2>1
  <2>5. live \subseteq Addresses /\ 1..n \subseteq 1..(n + 1)
        /\ n + 1 \in 1..(n + 1)
    BY <2>1 DEF IInv, TypeOK
  <2>6. expired' = expired /\ a \notin expired
    BY Zenon, <1>1, <1>2 DEF batch, IInv, Owners
  <2>7. \A k \in 1..n : ~Adds(k, a)
    BY Zenon, <1>2, <2>1 DEF IInv, Owners
  <2>8. \A b \in live' : Active(b)' \/ b \in expired' \/ \E k \in 1..(n + 1) : Adds(k, b)'
    BY <1>2, <1>4, <2>1, <2>2, <2>3, <2>5, <2>6, SMTT(30) DEF IInv, Owners
  <2>9. \A b \in expired' : b \in live' /\ ~Active(b)'
    BY Zenon, <1>2, <1>4, <2>6 DEF IInv, Owners
  <2>10. ASSUME NEW k \in 1..(n + 1), NEW b \in Addresses, Adds(k, b)'
         PROVE  /\ b \in live' /\ pending'[k].id[2] = seq'[b]
                /\ ~Active(b)' /\ b \notin expired'
                /\ \A j \in 1..(n + 1) : Adds(j, b)' => j = k
    <3>1. CASE k = n + 1
      <4>1. b = a
        BY <2>3, <2>10, <3>1
      <4>2. a \in live' /\ pending'[n + 1].id[2] = seq'[a] /\ ~Active(a)' /\ a \notin expired'
        BY SMTT(30), <1>2, <1>5, <2>1, <2>6
      <4>3. \A j \in 1..n : ~Adds(j, a)'
        BY <2>2, <2>7, SMTT(30)
      <4>4. QED
        BY Zenon, <2>4, <3>1, <4>1, <4>2, <4>3
    <3>2. CASE k \in 1..n
      <4>1. Adds(k, b) /\ b # a
        BY <2>2, <2>7, <2>10, <3>2
      <4>2. b \in live /\ pending[k].id[2] = seq[b] /\ ~Active(b) /\ b \notin expired
            /\ \A j \in 1..n : Adds(j, b) => j = k
        BY Zenon, <2>1, <3>2, <4>1 DEF IInv, Owners
      <4>3. QED
        BY Zenon, <1>2, <1>4, <2>1, <2>2, <2>3, <2>4, <2>6, <3>2, <4>1, <4>2
    <3>3. QED
      BY Zenon, <2>4, <3>1, <3>2
  <2>11. QED
    BY Zenon, <2>1, <2>8, <2>9, <2>10 DEF Owners
<1>9. QED
  BY Zenon, <1>2, <1>3, <1>6, <1>7, <1>8 DEF IInv

(***************************************************************************)
(* A functor of another thread: a timer passes from the queue to the two   *)
(* sets, or a cancel is carried out.                                       *)
(***************************************************************************)
LEMMA RunFunctorStep == IInv /\ RunFunctor => IInv'
<1> SUFFICES ASSUME IInv, RunFunctor PROVE IInv'
  OBVIOUS
<1>0. PICK n \in Nat \ {0} : n = Len(pending)
  <2>1. pending # << >> /\ pending \in Seq(Functor)
    BY SMTT(30) DEF RunFunctor, IInv, TypeOK
  <2>2. QED
    BY <2>1
<1>1. /\ Len(pending') = n - 1 /\ Len(pending) = n /\ pending' \in Seq(Functor)
      /\ \A k \in 1..(n - 1) : pending'[k] = pending[k + 1]
      /\ Head(pending) = pending[1] /\ pending[1] \in Functor
  BY <1>0 DEF RunFunctor, IInv, TypeOK
<1>2. PICK id \in Ids : id = pending[1].id
  BY <1>1 DEF Functor
<1>3. /\ UNCHANGED <<now, seq, expiration, interval, batch, adding, created, ids, fired>>
      /\ ~callingExpiredTimers_ /\ expired = {} /\ expired' = {}
  BY Zenon DEF RunFunctor, batch, IInv, TypeOK
<1>4. \A k \in 1..(n - 1), b \in Addresses : Adds(k, b)' <=> Adds(k + 1, b)
  BY <1>1 DEF Adds
<1>5. CASE Head(pending).op = "add"
  <2>0. PICK a \in Addresses : a = id[1]
    BY DEF Ids
  <2>1. AddTimerInLoop(id, expiration[a]) /\ live' = live
    BY <1>1, <1>2, <1>5, <2>0 DEF RunFunctor
  <2>2. /\ a \in live /\ id[2] = seq[a] /\ ~Active(a)
        /\ \A j \in 1..n : Adds(j, a) => j = 1
    <3>1. Adds(1, a) /\ 1 \in 1..n
      BY <1>1, <1>2, <1>5, <2>0 DEF Adds
    <3>2. QED
      BY Zenon, <1>1, <1>2, <3>1 DEF IInv, Owners
  <2>3. id = <<a, seq'[a]>>
    BY <1>3, <2>0, <2>2 DEF Ids
  <2>4. \A i \in activeTimers_ : i[1] # a
    <3>1. \A i \in activeTimers_ : i = <<i[1], seq[i[1]]>>
      BY DEF IInv, TypeOK, Sets, Ids
    <3>2. QED
      BY <2>2, <3>1 DEF Active
  <2>5. expiration[a] \in Nat
    BY DEF IInv, TypeOK
  <2>6. /\ a \in live' /\ live \subseteq live' /\ a \notin expired /\ now' = now
        /\ \A b \in live : b = a \/ (seq'[b] = seq[b] /\ expiration'[b] = expiration[b])
        /\ expiration'[a] = expiration[a]
    BY <1>3, <2>1, <2>2, SMTT(30)
  <2>7. /\ Sets' /\ NoMissedTimer'
        /\ \A b \in live : Active(b)' <=> (b = a \/ Active(b))
        /\ timers_' \in SUBSET (Nat \X Addresses) /\ activeTimers_' \in SUBSET Ids
        /\ armed' \in BOOLEAN /\ fireAt' \in Nat
    BY Zenon, <2>1, <2>3, <2>4, <2>5, <2>6, AddTimerInLoopKeeps
  <2>8. UNCHANGED <<callingExpiredTimers_, cancelingTimers_, cancelled>>
    BY <2>1 DEF AddTimerInLoop
  <2>9. TypeOK'
    BY Zenon, <1>1, <1>3, <2>1, <2>7, <2>8 DEF IInv, TypeOK, batch
  <2>10. Seqs' /\ Cancels' /\ NothingLost'
    BY Zenon, <1>3, <2>1, <2>8 DEF IInv, Seqs, Cancels, NothingLost, batch
  <2>11. Owners'
    <3>1. ASSUME NEW b \in live PROVE Active(b)' \/ \E k \in 1..(n - 1) : Adds(k, b)'
      <4>1. CASE Active(b) \/ b = a
        BY <2>7, <4>1
      <4>2. CASE ~Active(b) /\ b # a
        <5>1. b \in Addresses
          BY DEF IInv, TypeOK
        <5>2. PICK k \in 1..n : Adds(k, b)
          BY Zenon, <1>1, <1>3, <4>2 DEF IInv, Owners
        <5>3. k # 1
          BY Zenon, <1>2, <2>0, <4>2, <5>2 DEF Adds
        <5>4. k - 1 \in 1..(n - 1) /\ (k - 1) + 1 = k
          BY <5>3
        <5>5. QED
          BY <1>4, <5>1, <5>2, <5>4
      <4>3. QED
        BY <4>1, <4>2
    <3>2. ASSUME NEW k \in 1..(n - 1), NEW b \in Addresses, Adds(k, b)'
          PROVE  /\ b \in live /\ pending'[k].id[2] = seq[b] /\ ~Active(b)'
                 /\ \A j \in 1..(n - 1) : Adds(j, b)' => j = k
      <4>1. k + 1 \in 1..n /\ Adds(k + 1, b) /\ pending'[k] = pending[k + 1]
        <5>1. k + 1 \in 1..n
          OBVIOUS
        <5>2. QED
          BY Zenon, <1>1, <1>4, <3>2, <5>1
      <4>2. /\ b \in live /\ pending[k + 1].id[2] = seq[b] /\ ~Active(b)
            /\ \A j \in 1..n : Adds(j, b) => j = k + 1
        BY Zenon, <1>1, <4>1 DEF IInv, Owners
      <4>3. b # a
        BY <2>2, <4>1
      <4>4. \A j \in 1..(n - 1) : j + 1 \in 1..n /\ (j + 1 = k + 1 => j = k)
        OBVIOUS
      <4>5. QED
        BY Zenon, <1>4, <2>7, <4>1, <4>2, <4>3, <4>4
    <3>3. QED
      BY Zenon, <1>1, <1>3, <2>1, <3>1, <3>2 DEF Owners
  <2>12. QED
    BY <2>7, <2>9, <2>10, <2>11 DEF IInv
<1>6. CASE Head(pending).op = "cancel"
  <2>1. CancelInLoop(id) /\ UNCHANGED <<callingExpiredTimers_, timerfd>>
    BY <1>1, <1>2, <1>6 DEF RunFunctor
  <2>2. /\ Sets' /\ Seqs' /\ Cancels' /\ NothingLost' /\ NoMissedTimer'
        /\ live' \subseteq live
        /\ \A a \in Addresses : Active(a)' => Active(a)
        /\ \A a \in live : a \in live' \/ (Active(a) /\ ~Active(a)')
        /\ \A a \in live' : Active(a) => Active(a)'
        /\ timers_' \subseteq timers_ /\ activeTimers_' \subseteq activeTimers_
        /\ cancelingTimers_' \subseteq Ids /\ cancelled' \subseteq 1..MaxTimers
    BY <1>3, <2>1, CancelKeeps
  <2>3. TypeOK'
    BY Zenon, <1>1, <1>3, <2>1, <2>2 DEF IInv, TypeOK, batch, timerfd
  <2>4. Owners'
    <3>0. \A b \in Addresses : ~Adds(1, b)
      BY <1>1, <1>6 DEF Adds
    <3>1. ASSUME NEW b \in live' PROVE Active(b)' \/ \E k \in 1..(n - 1) : Adds(k, b)'
      <4>1. CASE Active(b)
        BY <2>2, <4>1
      <4>2. CASE ~Active(b)
        <5>1. b \in Addresses /\ b \in live
          BY <2>2, SMTT(30) DEF IInv, TypeOK
        <5>2. PICK k \in 1..n : Adds(k, b)
          BY Zenon, <1>1, <1>3, <4>2, <5>1 DEF IInv, Owners
        <5>3. k - 1 \in 1..(n - 1) /\ (k - 1) + 1 = k
          BY <3>0, <5>1, <5>2
        <5>4. QED
          BY <1>4, <5>1, <5>2, <5>3
      <4>3. QED
        BY <4>1, <4>2
    <3>2. ASSUME NEW k \in 1..(n - 1), NEW b \in Addresses, Adds(k, b)'
          PROVE  /\ b \in live' /\ pending'[k].id[2] = seq[b] /\ ~Active(b)'
                 /\ \A j \in 1..(n - 1) : Adds(j, b)' => j = k
      <4>1. k + 1 \in 1..n /\ Adds(k + 1, b) /\ pending'[k] = pending[k + 1]
        <5>1. k + 1 \in 1..n
          OBVIOUS
        <5>2. QED
          BY Zenon, <1>1, <1>4, <3>2, <5>1
      <4>2. /\ b \in live /\ pending[k + 1].id[2] = seq[b] /\ ~Active(b)
            /\ \A j \in 1..n : Adds(j, b) => j = k + 1
        BY Zenon, <1>1, <4>1 DEF IInv, Owners
      <4>3. \A j \in 1..(n - 1) : j + 1 \in 1..n /\ (j + 1 = k + 1 => j = k)
        OBVIOUS
      <4>4. QED
        <5>1. \A j \in 1..(n - 1) : Adds(j, b)' => j = k
          BY Zenon, <1>4, <4>2, <4>3
        <5>2. QED
          BY Zenon, <2>2, <4>1, <4>2, <5>1
    <3>3. QED
      BY Zenon, <1>1, <1>3, <3>1, <3>2 DEF Owners
  <2>5. QED
    BY <2>2, <2>3, <2>4 DEF IInv
<1>7. QED
  BY <1>1, <1>5, <1>6 DEF Functor

(***************************************************************************)
(* Every step preserves the inductive invariant.                           *)
(***************************************************************************)
LEMMA Inductive == Spec => []IInv
<1>1. IInv /\ [Next]_vars => IInv'
  <2> SUFFICES ASSUME IInv, [Next]_vars PROVE IInv'
    OBVIOUS
  <2>1. CASE LoopNext
    BY <2>1, PollStep, HandleReadStep, ResetStep, RunFunctorStep, RunTimerStep DEF LoopNext
  <2>2. CASE Tick
    BY <2>2, TickStep
  <2>3. CASE \E a \in Addresses, when \in 1..MaxTime, every \in Everies :
               \/ LoopAddTimer(a, when, every)
               \/ \E t \in Threads : AddTimer(t, a, when, every)
    BY <2>3, LoopAddTimerStep, AddTimerStep
  <2>4. CASE \E id \in ids : LoopCancel(id) \/ \E t \in Threads : Cancel(t, id)
    BY <2>4, LoopCancelStep, CallerStep
  <2>5. CASE \E t \in Threads : AddTimerReturns(t)
    BY <2>5, CallerStep, SMTT(30)
  <2>6. CASE UNCHANGED vars
    <3> USE <2>6 DEF vars, timers, sets, batch, timerfd, callers, history
    <3>1. TypeOK' /\ Sets'
      <4>1. TypeOK'
        BY Zenon DEF IInv, TypeOK
      <4>2. Sets'
        <5>1. \A a : Active(a)' <=> Active(a)
          BY Zenon DEF Active
        <5>2. QED
          BY Zenon, <5>1 DEF IInv, Sets
      <4>3. QED
        BY <4>1, <4>2
    <3>2. Owners'
      BY Zenon DEF IInv, Owners, Active, Adds
    <3>3. Seqs' /\ Cancels' /\ NothingLost' /\ NoMissedTimer'
      BY Zenon DEF IInv, Seqs, Cancels, NothingLost, NoMissedTimer, Active
    <3>4. QED
      BY <3>1, <3>2, <3>3 DEF IInv
  <2>7. QED
    BY <2>1, <2>2, <2>3, <2>4, <2>5, <2>6 DEF Next
<1>2. QED
  BY IInvInit, <1>1, PTL DEF Spec

(***************************************************************************)
(* The asserts of TimerQueue on its two sets hold, and every Timer is      *)
(* owned by exactly one of timers_, the batch of handleRead and the        *)
(* functor that will add it: none leaks and none is deleted twice, for any *)
(* number of timers, threads and addresses.                                *)
(***************************************************************************)
THEOREM EveryTimerHasOneOwner == Spec => []OneOwner
<1>1. IInv => OneOwner
  <2> SUFFICES ASSUME IInv PROVE OneOwner
    OBVIOUS
  <2> USE DEF IInv
  <2>1. \A i \in activeTimers_ : i = <<i[1], seq[i[1]]>> /\ i[1] \in Addresses
    BY DEF Sets, TypeOK, Ids
  <2>2. \A e \in timers_ : e = <<expiration[e[2]], e[2]>> /\ e[2] \in Addresses
    BY DEF Sets, TypeOK
  <2>3. SetsAgree
    <3>1. \A e \in timers_ : \E i \in activeTimers_ : e = <<expiration[i[1]], i[1]>>
      BY Zenon, <2>2 DEF Sets, Active
    <3>2. \A i \in activeTimers_ : <<expiration[i[1]], i[1]>> \in timers_
      BY <2>1 DEF Sets, Active
    <3>3. QED
      BY Zenon, <3>1, <3>2 DEF SetsAgree, Sets
  <2>4. \A a : a \in Waiting <=> a \in Addresses /\ Active(a)
    BY Zenon, <2>2 DEF Waiting, Sets, Active
  <2>5. \A a : a \in Queued <=> a \in Addresses /\ \E k \in 1..Len(pending) : Adds(k, a)
    <3>1. \A k \in 1..Len(pending) : pending[k].id[1] \in Addresses
      <4>1. \A k \in 1..Len(pending) : pending[k] \in Functor
        BY DEF TypeOK
      <4>2. QED
        BY <4>1 DEF Functor, Ids
    <3>2. QED
      BY <3>1 DEF Queued, Adds
  <2>6. live = Waiting \cup expired \cup Queued
    <3>1. live \subseteq Addresses
      BY DEF TypeOK
    <3>2. \A a \in Addresses : Active(a) => a \in live
      BY DEF Active, Sets
    <3>3. QED
      BY <2>4, <2>5, <3>1, <3>2 DEF Owners
  <2>7. Waiting \cap expired = {} /\ Waiting \cap Queued = {} /\ expired \cap Queued = {}
    BY <2>4, <2>5 DEF Owners
  <2>8. QED
    BY <2>3, <2>6, <2>7 DEF OneOwner
<1>2. QED
  BY Inductive, <1>1, PTL

(***************************************************************************)
(* A cancel that found its timer is final, also when a callback of the     *)
(* batch cancels a repeating timer that reset is about to restart.         *)
(***************************************************************************)
THEOREM CancelledTimersStayAway == Spec => []CancelIsFinal
<1>1. IInv => CancelIsFinal
  BY Zenon DEF IInv, CancelIsFinal, Cancels, Sets, TypeOK
<1>2. QED
  BY Inductive, <1>1, PTL

(***************************************************************************)
(* A timer disappears only by its own cancel or, if it does not repeat, by *)
(* running: reuse of addresses never confuses two timers.                  *)
(***************************************************************************)
THEOREM NoTimerIsLost == Spec => []NothingLost
<1>1. IInv => NothingLost
  BY DEF IInv
<1>2. QED
  BY Inductive, <1>1, PTL

(***************************************************************************)
(* Outside handleRead the timerfd is set for the earliest timer or sooner, *)
(* whatever is added and cancelled from callbacks, functors and other      *)
(* threads.                                                                *)
(***************************************************************************)
THEOREM TimerfdIsSetInTime == Spec => []NoMissedTimer
<1>1. IInv => NoMissedTimer
  BY DEF IInv
<1>2. QED
  BY Inductive, <1>1, PTL
=============================================================================
