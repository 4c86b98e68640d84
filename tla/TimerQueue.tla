----------------------------- MODULE TimerQueue -----------------------------
(***************************************************************************)
(* TimerQueue: the timers of one EventLoop over a single timerfd.          *)
(*                                                                         *)
(* Timers are Timer objects at addresses that are reused after delete; a   *)
(* TimerId is an address and a sequence number.  The loop thread adds and  *)
(* cancels directly, other threads through functors (the FIFO queue of     *)
(* module FunctorQueue).  handleRead is cut at each callback, because user *)
(* code in a callback adds and cancels timers too.                         *)
(*                                                                         *)
(* Time is counted in units of the 100 microseconds that                   *)
(* howMuchTimeFromNow puts on every delay at least; one clock stands for   *)
(* the wall clock of Timestamp::now and the monotonic one of the timerfd.  *)
(***************************************************************************)
EXTENDS Naturals, Sequences, FiniteSets

CONSTANTS Addresses,   \* where Timer objects can live
          Threads,     \* the threads other than the loop's
          Intervals,   \* intervals of runEvery
          MaxTime,     \* bound: the last moment
          MaxPending,  \* bound: functors waiting at a time
          MaxTimers    \* bound: Timer objects created in a behaviour

ASSUME TimerAssumption == /\ Intervals \subseteq Nat \ {0}
                          /\ MaxTime \in Nat
                          /\ MaxPending \in Nat
                          /\ MaxTimers \in Nat

OneShot == 0   \* the interval of a timer that does not repeat

VARIABLES
  now,
  live, seq, expiration, interval,  \* the Timer objects and their fields
  timers_, activeTimers_, callingExpiredTimers_, cancelingTimers_,
  expired,    \* handleRead's local vector
  toRun,      \* the part of it whose callback has not been called
  since,      \* handleRead's local now
  armed,      \* the timerfd is set and its expiration has not been read
  fireAt,     \* when it expires; it is readable from then on
  ready,      \* epoll_wait has reported the timerfd, handleRead not yet called
  pending,    \* functors queued by other threads
  adding,     \* per thread, the id whose sequence addTimer is still to read
  created,    \* Timer::numCreated_
  ids,        \* the TimerIds handed out
  cancelled,  \* history: sequence numbers whose cancel found the timer
  fired       \* history: sequence numbers of one-shot timers that have run

timers == <<live, seq, expiration, interval>>
sets == <<timers_, activeTimers_, callingExpiredTimers_, cancelingTimers_>>
batch == <<expired, toRun, since, ready>>
timerfd == <<armed, fireAt>>
history == <<cancelled, fired>>
callers == <<pending, adding, created, ids>>
vars == <<now, timers, sets, batch, timerfd, callers, history>>

Ids == Addresses \X (1..MaxTimers)
NoId == << >>

Init ==
  /\ now = 1
  /\ live = {}
  /\ seq = [a \in Addresses |-> 0]
  /\ expiration = [a \in Addresses |-> 0]
  /\ interval = [a \in Addresses |-> OneShot]
  /\ timers_ = {} /\ activeTimers_ = {}
  /\ callingExpiredTimers_ = FALSE /\ cancelingTimers_ = {}
  /\ expired = {} /\ toRun = {} /\ since = 0
  /\ armed = FALSE /\ fireAt = 0
  /\ ready = FALSE
  /\ pending = << >>
  /\ adding = [t \in Threads |-> NoId]
  /\ created = 0 /\ ids = {}
  /\ cancelled = {} /\ fired = {}

-----------------------------------------------------------------------------
(* The timerfd.                                                            *)

ResetTimerfdUnclamped(when) == /\ armed' = (when > now)
                               /\ fireAt' = when

(***************************************************************************)
(* resetTimerfd: at the given moment, but at least one unit from now.  It  *)
(* also takes back an expiration that has not been read.                   *)
(***************************************************************************)
ResetTimerfd(when) == /\ armed' = TRUE
                      /\ fireAt' = IF when > now THEN when ELSE now + 1

-----------------------------------------------------------------------------
(* The functions that run on the loop thread.                              *)

(***************************************************************************)
(* earliestChanged of insert: nothing is due before the new timer.         *)
(***************************************************************************)
EarliestChanged(when) == \A e \in timers_ : when < e[1]

(***************************************************************************)
(* addTimerInLoop, for the timer of this id, due at when.                  *)
(***************************************************************************)
AddTimerInLoop(id, when) ==
  /\ timers_' = timers_ \cup {<<when, id[1]>>}
  /\ activeTimers_' = activeTimers_ \cup {id}
  /\ IF EarliestChanged(when) THEN ResetTimerfd(when) ELSE UNCHANGED timerfd
  /\ UNCHANGED <<callingExpiredTimers_, cancelingTimers_, cancelled>>

CancelByAddress(id) ==
  \/ \E i \in activeTimers_ :
       /\ i[1] = id[1]
       /\ timers_' = timers_ \ {<<expiration[i[1]], i[1]>>}
       /\ live' = live \ {i[1]}
       /\ activeTimers_' = activeTimers_ \ {i}
       /\ cancelled' = cancelled \cup {id[2]}
       /\ UNCHANGED cancelingTimers_
  \/ /\ \A i \in activeTimers_ : i[1] # id[1]
     /\ cancelingTimers_' = IF callingExpiredTimers_ THEN cancelingTimers_ \cup {id}
                                                    ELSE cancelingTimers_
     /\ cancelled' = IF \E a \in expired : id = <<a, seq[a]>>
                     THEN cancelled \cup {id[2]} ELSE cancelled
     /\ UNCHANGED <<timers_, activeTimers_, live>>

CancelDeletesRunning(id) ==
  \/ /\ id \in activeTimers_
     /\ timers_' = timers_ \ {<<expiration[id[1]], id[1]>>}
     /\ live' = live \ {id[1]}
     /\ activeTimers_' = activeTimers_ \ {id}
     /\ cancelled' = cancelled \cup {id[2]}
     /\ UNCHANGED cancelingTimers_
  \/ /\ id \notin activeTimers_
     /\ live' = IF callingExpiredTimers_ THEN live \ {id[1]} ELSE live
     /\ UNCHANGED <<timers_, activeTimers_, cancelingTimers_, cancelled>>

(***************************************************************************)
(* cancelInLoop: a waiting timer is deleted, one that is in the batch of   *)
(* handleRead is remembered, anything else is ignored.                     *)
(***************************************************************************)
CancelInLoop(id) ==
  \/ /\ id \in activeTimers_
     /\ timers_' = timers_ \ {<<expiration[id[1]], id[1]>>}
     /\ live' = live \ {id[1]}
     /\ activeTimers_' = activeTimers_ \ {id}
     /\ cancelled' = cancelled \cup {id[2]}
     /\ UNCHANGED cancelingTimers_
  \/ /\ id \notin activeTimers_
     /\ cancelingTimers_' = IF callingExpiredTimers_ THEN cancelingTimers_ \cup {id}
                                                    ELSE cancelingTimers_
     /\ cancelled' = IF \E a \in expired : id = <<a, seq[a]>>
                     THEN cancelled \cup {id[2]} ELSE cancelled
     /\ UNCHANGED <<timers_, activeTimers_, live>>

ReadTimerfd == armed' = (armed /\ fireAt > now) /\ UNCHANGED fireAt

(***************************************************************************)
(* handleRead up to the first callback: read the timerfd and take what is  *)
(* due out of both sets.  The timerfd may have been set again since        *)
(* epoll_wait reported it; then the read fails, which handleRead ignores.  *)
(***************************************************************************)
HandleRead ==
  /\ ready
  /\ ready' = FALSE
  /\ since' = now
  /\ ReadTimerfd
  /\ expired' = {a \in Addresses : \E e \in timers_ : e[2] = a /\ e[1] <= now}
  /\ toRun' = expired'
  /\ timers_' = {e \in timers_ : e[1] > now}
  /\ activeTimers_' = {i \in activeTimers_ : i[1] \notin expired'}
  /\ callingExpiredTimers_' = TRUE
  /\ cancelingTimers_' = {}
  /\ UNCHANGED <<now, timers, callers, history>>

(***************************************************************************)
(* The callback of the next timer of the batch, in order of expiration.    *)
(***************************************************************************)
RunTimer(a) ==
  /\ callingExpiredTimers_
  /\ a \in toRun
  /\ \A b \in toRun : expiration[a] <= expiration[b]
  /\ toRun' = toRun \ {a}
  /\ fired' = IF interval[a] = OneShot THEN fired \cup {seq[a]} ELSE fired
  /\ UNCHANGED <<now, timers, sets, expired, since, ready, timerfd, callers, cancelled>>

RestartsIgnoringCancel == {a \in expired : interval[a] # OneShot}

(***************************************************************************)
(* The timers of the batch that reset restarts; it deletes the others.     *)
(***************************************************************************)
Restarts == {a \in expired : interval[a] # OneShot /\ <<a, seq[a]>> \notin cancelingTimers_}

SetNextForBatch(entries) ==
  \/ (entries = {} \/ expired = {}) /\ UNCHANGED timerfd
  \/ \E e \in entries : /\ expired # {}
                       /\ \A f \in entries : e[1] <= f[1]
                       /\ ResetTimerfd(e[1])

(***************************************************************************)
(* What reset does to the timerfd: set it to the earliest of the entries.  *)
(***************************************************************************)
SetNext(entries) ==
  \/ entries = {} /\ UNCHANGED timerfd
  \/ \E e \in entries : (\A f \in entries : e[1] <= f[1]) /\ ResetTimerfd(e[1])

(***************************************************************************)
(* The end of handleRead: reset(expired, now).                             *)
(***************************************************************************)
Reset ==
  /\ callingExpiredTimers_
  /\ toRun = {}
  /\ callingExpiredTimers_' = FALSE
  /\ expiration' = [a \in Addresses |-> IF a \in Restarts THEN since + interval[a]
                                                         ELSE expiration[a]]
  /\ live' = live \ (expired \ Restarts)
  /\ timers_' = timers_ \cup {<<since + interval[a], a>> : a \in Restarts}
  /\ activeTimers_' = activeTimers_ \cup {<<a, seq[a]>> : a \in Restarts}
  /\ expired' = {}
  /\ SetNext(timers_')
  /\ UNCHANGED <<now, seq, interval, cancelingTimers_, toRun, since, ready, callers,
                 history>>

-----------------------------------------------------------------------------
(* User code on the loop thread: functors and the callbacks of channels    *)
(* and of timers.                                                          *)

InUserCode == callingExpiredTimers_ => toRun # expired

(***************************************************************************)
(* new Timer, at a free address.                                           *)
(***************************************************************************)
NewTimer(a, when, every) ==
  /\ a \notin live
  /\ created < MaxTimers
  /\ created' = created + 1
  /\ live' = live \cup {a}
  /\ seq' = [seq EXCEPT ![a] = created']
  /\ expiration' = [expiration EXCEPT ![a] = when]
  /\ interval' = [interval EXCEPT ![a] = every]

LoopAddTimer(a, when, every) ==
  /\ InUserCode
  /\ NewTimer(a, when, every)
  /\ AddTimerInLoop(<<a, created'>>, when)
  /\ ids' = ids \cup {<<a, created'>>}
  /\ UNCHANGED <<now, batch, pending, adding, fired>>

LoopCancel(id) ==
  /\ InUserCode
  /\ CancelInLoop(id)
  /\ UNCHANGED <<now, seq, expiration, interval, callingExpiredTimers_, batch, timerfd,
                 callers, fired>>

-----------------------------------------------------------------------------
(* Other threads.  addTimer reads timer->sequence() after it has handed    *)
(* the timer to the loop; AddTimerReadsItsTimer is about the case that the *)
(* loop has deleted it by then, where the call goes no further here.       *)

AddTimer(t, a, when, every) ==
  /\ adding[t] = NoId
  /\ Len(pending) < MaxPending
  /\ NewTimer(a, when, every)
  /\ pending' = Append(pending, [op |-> "add", id |-> <<a, created'>>])
  /\ adding' = [adding EXCEPT ![t] = <<a, created'>>]
  /\ UNCHANGED <<now, sets, batch, timerfd, ids, history>>

OwnTimer(id) == id[1] \in live /\ seq[id[1]] = id[2]

AddTimerReturns(t) ==
  /\ adding[t] # NoId
  /\ OwnTimer(adding[t])
  /\ ids' = ids \cup {adding[t]}
  /\ adding' = [adding EXCEPT ![t] = NoId]
  /\ UNCHANGED <<now, timers, sets, batch, timerfd, pending, created, history>>

Cancel(t, id) ==
  /\ adding[t] = NoId
  /\ Len(pending) < MaxPending
  /\ pending' = Append(pending, [op |-> "cancel", id |-> id])
  /\ UNCHANGED <<now, timers, sets, batch, timerfd, adding, created, ids, history>>

RunFunctor ==
  /\ ~callingExpiredTimers_ /\ ~ready
  /\ pending # << >>
  /\ pending' = Tail(pending)
  /\ LET id == Head(pending).id IN
       \/ /\ Head(pending).op = "add"
          /\ AddTimerInLoop(id, expiration[id[1]])
          /\ UNCHANGED live
       \/ /\ Head(pending).op = "cancel"
          /\ CancelInLoop(id)
          /\ UNCHANGED <<callingExpiredTimers_, timerfd>>
  /\ UNCHANGED <<now, seq, expiration, interval, batch, adding, created, ids, fired>>

-----------------------------------------------------------------------------
PollTimerfd ==
  /\ ~callingExpiredTimers_
  /\ ~ready
  /\ armed /\ fireAt <= now
  /\ ready' = TRUE
  /\ UNCHANGED <<now, timers, sets, expired, toRun, since, timerfd, callers, history>>

Tick ==
  /\ now < MaxTime
  /\ now' = now + 1
  /\ UNCHANGED <<timers, sets, batch, timerfd, callers, history>>

Everies == Intervals \cup {OneShot}

LoopNext == \/ PollTimerfd \/ HandleRead \/ Reset \/ RunFunctor
            \/ \E a \in Addresses : RunTimer(a)

Next ==
  \/ Tick \/ LoopNext
  \/ \E a \in Addresses, when \in 1..MaxTime, every \in Everies :
       \/ LoopAddTimer(a, when, every)
       \/ \E t \in Threads : AddTimer(t, a, when, every)
  \/ \E id \in ids : LoopCancel(id) \/ \E t \in Threads : Cancel(t, id)
  \/ \E t \in Threads : AddTimerReturns(t)

Spec == Init /\ [][Next]_vars

-----------------------------------------------------------------------------
Functor == [op : {"add", "cancel"}, id : Ids]

(***************************************************************************)
(* Types, and that handleRead's locals are empty outside it.               *)
(***************************************************************************)
TypeOK ==
  /\ now \in Nat /\ since \in Nat /\ fireAt \in Nat
  /\ live \in SUBSET Addresses
  /\ seq \in [Addresses -> 0..MaxTimers]
  /\ expiration \in [Addresses -> Nat]
  /\ interval \in [Addresses -> Nat]
  /\ timers_ \in SUBSET (Nat \X Addresses)
  /\ activeTimers_ \in SUBSET Ids
  /\ callingExpiredTimers_ \in BOOLEAN
  /\ cancelingTimers_ \in SUBSET Ids
  /\ expired \in SUBSET Addresses
  /\ toRun \in SUBSET expired
  /\ armed \in BOOLEAN /\ ready \in BOOLEAN
  /\ pending \in Seq(Functor)
  /\ adding \in [Threads -> Ids \cup {NoId}]
  /\ created \in 0..MaxTimers
  /\ ids \in SUBSET Ids
  /\ cancelled \in SUBSET (1..MaxTimers)
  /\ fired \in SUBSET (1..MaxTimers)
  /\ ready => ~callingExpiredTimers_
  /\ ~callingExpiredTimers_ => expired = {}

(***************************************************************************)
(* The two sets hold the same timers: every id in activeTimers_ is that of *)
(* a live timer, and timers_ has exactly its expiration and address.  This *)
(* is what every assert on their sizes, and n == 1 in cancelInLoop and     *)
(* getExpired, relies on.                                                  *)
(***************************************************************************)
SetsAgree ==
  /\ \A i \in activeTimers_ : i[1] \in live /\ i[2] = seq[i[1]]
  /\ timers_ = {<<expiration[i[1]], i[1]>> : i \in activeTimers_}

Waiting == {e[2] : e \in timers_}
Queued == {pending[k].id[1] : k \in {j \in 1..Len(pending) : pending[j].op = "add"}}

(***************************************************************************)
(* The two sets agree, and every Timer object has one owner: timers_, the  *)
(* batch of handleRead, or the functor that will add it.  So none leaks,   *)
(* none is deleted twice, and no callback of the batch can delete one the  *)
(* batch will still use.                                                   *)
(***************************************************************************)
OneOwner ==
  /\ SetsAgree
  /\ live = Waiting \cup expired \cup Queued
  /\ Waiting \cap expired = {} /\ Waiting \cap Queued = {} /\ expired \cap Queued = {}

(***************************************************************************)
(* No missed timer: outside handleRead, when timers wait, the timerfd will *)
(* expire no later than the earliest of them is due, or at once (one unit  *)
(* from now) when it is overdue.  insert sets the timerfd only for a new   *)
(* earliest timer, cancel never does, and both may happen in the callbacks *)
(* of handleRead and between the timerfd's report and its handler.         *)
(***************************************************************************)
NoMissedTimer ==
  ~callingExpiredTimers_ =>
    \A e \in timers_ : armed /\ (fireAt <= e[1] \/ fireAt <= now + 1)

(***************************************************************************)
(* A cancel that found its timer is final: the timer never waits again,    *)
(* also when it was cancelled by itself or by another callback of the      *)
(* batch it is in, just before reset restarts the repeating ones.          *)
(***************************************************************************)
CancelIsFinal ==
  ~callingExpiredTimers_ => \A i \in activeTimers_ : i[2] \notin cancelled

(***************************************************************************)
(* A timer disappears only by its own cancel or, if it does not repeat, by *)
(* running: a TimerId kept after its timer was deleted does not touch the  *)
(* timer that has got the same address since.                              *)
(***************************************************************************)
NothingLost ==
  \A s \in 1..created :
    s \in cancelled \/ s \in fired \/ \E a \in live : seq[a] = s

(***************************************************************************)
(* The comment on addTimer: "thread-safe for certain, may be used across   *)
(* threads, normally called by other threads".  Taken at its word, the     *)
(* timer whose sequence() addTimer reads is still the one it created.      *)
(***************************************************************************)
AddTimerReadsItsTimer == \A t \in Threads : adding[t] # NoId => OwnTimer(adding[t])

(***************************************************************************)
(* Every one-shot timer that waits runs or is cancelled, whatever is added *)
(* and cancelled around it.                                                *)
(***************************************************************************)
TimersFire ==
  \A s \in 1..MaxTimers :
    (\E i \in activeTimers_ : i[2] = s /\ interval[i[1]] = OneShot)
      ~> s \in fired \cup cancelled

-----------------------------------------------------------------------------
(***************************************************************************)
(* What makes the safety properties inductive.  Sets and Owners are        *)
(* SetsAgree and OneOwner address by address, with the ids in the functors *)
(* that will add timers; Seqs says that a sequence number names one timer; *)
(* Cancels is what callbacks of the batch have done so far.                *)
(***************************************************************************)
Active(a) == <<a, seq[a]>> \in activeTimers_
Adds(k, a) == pending[k].op = "add" /\ pending[k].id[1] = a

Sets ==
  /\ \A i \in activeTimers_ : i[1] \in live /\ i[2] = seq[i[1]]
  /\ \A e \in timers_ : Active(e[2]) /\ e[1] = expiration[e[2]]
  /\ \A a \in Addresses : Active(a) => <<expiration[a], a>> \in timers_

Owners ==
  /\ \A a \in live : Active(a) \/ a \in expired \/ \E k \in 1..Len(pending) : Adds(k, a)
  /\ \A a \in expired : a \in live /\ ~Active(a)
  /\ \A k \in 1..Len(pending), a \in Addresses : Adds(k, a) =>
       /\ a \in live /\ pending[k].id[2] = seq[a]
       /\ ~Active(a) /\ a \notin expired
       /\ \A j \in 1..Len(pending) : Adds(j, a) => j = k

Seqs ==
  /\ \A a \in live : seq[a] \in 1..created /\ \A b \in live : seq[a] = seq[b] => a = b
  /\ cancelled \subseteq 1..created

Cancels ==
  /\ \A a \in live : seq[a] \in cancelled => a \in expired /\ <<a, seq[a]>> \in cancelingTimers_
  /\ \A a \in expired : <<a, seq[a]>> \in cancelingTimers_ => seq[a] \in cancelled
  /\ \A a \in expired \ toRun : interval[a] = OneShot => seq[a] \in fired

IInv == TypeOK /\ Sets /\ Owners /\ Seqs /\ Cancels /\ NothingLost /\ NoMissedTimer
=============================================================================
