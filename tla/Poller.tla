------------------------------- MODULE Poller -------------------------------
(***************************************************************************)
(* Channel and EPollPoller: how the interest of channels is registered     *)
(* with epoll, and what a batch of ready channels may point to while its   *)
(* handlers register, unregister, destroy and create channels.             *)
(*                                                                         *)
(* Everything here runs on the loop thread (assertInLoopThread), one call  *)
(* at a time.  The owners of channels (TcpConnection, Acceptor, Connector, *)
(* TimerQueue, EventLoop) are represented by the calls they may make, and  *)
(* each of those obeys the contract that the code asserts.                 *)
(***************************************************************************)
EXTENDS Naturals, FiniteSets

CONSTANTS Channels,   \* addresses of Channel objects
          Fds,        \* file descriptors
          NoChannel   \* the null pointer

ASSUME NoChannelAssumption == NoChannel \notin Channels

KReadEvent == "read"
KWriteEvent == "write"
Events == {KReadEvent, KWriteEvent}

KNew == "new"
KAdded == "added"
KDeleted == "deleted"

VARIABLES
  live,                  \* the Channel objects that exist
  fd, events_, index_,   \* their fields
  open,                  \* the descriptors that are open
  channels_,             \* the poller's map from descriptors to channels
  epoll,                 \* the kernel's: per descriptor, the pointer given to
                         \* epoll_ctl, or NoChannel when it is not registered
  mask,                  \* the kernel's: per descriptor, the events watched
  activeChannels_,       \* the batch epoll_wait returned
  todo,                  \* the part of it whose handler has not been called
  currentActiveChannel_, \* the channel whose handler is running
  eventHandling_,        \* loop() is going through the batch
  ctlFailed              \* an EPOLL_CTL_ADD or EPOLL_CTL_MOD was refused

pollerVars == <<live, fd, events_, index_, open, channels_, epoll, mask, activeChannels_,
                todo, currentActiveChannel_, eventHandling_, ctlFailed>>

batch == <<activeChannels_, todo, currentActiveChannel_, eventHandling_>>

PollerInit ==
  /\ live = {}
  /\ fd \in [Channels -> Fds]
  /\ events_ = [c \in Channels |-> {}]
  /\ index_ = [c \in Channels |-> KNew]
  /\ open = {}
  /\ channels_ = [f \in Fds |-> NoChannel]
  /\ epoll = [f \in Fds |-> NoChannel]
  /\ mask = [f \in Fds |-> {}]
  /\ activeChannels_ = {}
  /\ todo = {}
  /\ currentActiveChannel_ = NoChannel
  /\ eventHandling_ = FALSE
  /\ ctlFailed = FALSE

(***************************************************************************)
(* Owners' code runs in functors and outside loop(), and in handlers.      *)
(***************************************************************************)
InOwnersCode == eventHandling_ => currentActiveChannel_ # NoChannel

-----------------------------------------------------------------------------
(* epoll_ctl, external.  An ADD of a registered descriptor and a MOD of an *)
(* unregistered or closed one are refused; update() exits on those.        *)

EpollCtl(op, c, evts) ==
  LET f == fd[c]
      refused == \/ f \notin open
                 \/ op = "add" /\ epoll[f] # NoChannel
                 \/ op # "add" /\ epoll[f] = NoChannel
  IN IF refused
     THEN /\ ctlFailed' = (ctlFailed \/ op # "del")
          /\ UNCHANGED <<epoll, mask>>
     ELSE /\ epoll' = [epoll EXCEPT ![f] = IF op = "del" THEN NoChannel ELSE c]
          /\ mask' = [mask EXCEPT ![f] = IF op = "del" THEN {} ELSE evts]
          /\ UNCHANGED ctlFailed

UpdateForgetsDeleted(c, evts) ==
  \/ /\ index_[c] \in {KNew, KDeleted}
     /\ channels_' = IF index_[c] = KNew THEN [channels_ EXCEPT ![fd[c]] = c]
                                         ELSE channels_
     /\ index_' = [index_ EXCEPT ![c] = KAdded]
     /\ EpollCtl("add", c, evts)
  \/ /\ index_[c] = KAdded
     /\ EpollCtl(IF evts = {} THEN "del" ELSE "mod", c, evts)
     /\ UNCHANGED <<channels_, index_>>

(***************************************************************************)
(* EPollPoller::updateChannel, for a channel whose events_ are now evts.   *)
(***************************************************************************)
UpdateChannel(c, evts) ==
  \/ /\ index_[c] \in {KNew, KDeleted}
     /\ channels_' = IF index_[c] = KNew THEN [channels_ EXCEPT ![fd[c]] = c]
                                         ELSE channels_
     /\ index_' = [index_ EXCEPT ![c] = KAdded]
     /\ EpollCtl("add", c, evts)
  \/ /\ index_[c] = KAdded
     /\ EpollCtl(IF evts = {} THEN "del" ELSE "mod", c, evts)
     /\ index_' = [index_ EXCEPT ![c] = IF evts = {} THEN KDeleted ELSE KAdded]
     /\ UNCHANGED channels_

(***************************************************************************)
(* The contract of updateChannel: the channel's descriptor is open, and a  *)
(* new channel's descriptor has no other channel (asserted at line 73).    *)
(***************************************************************************)
MayUpdate(c) == /\ InOwnersCode
                /\ c \in live
                /\ fd[c] \in open
                /\ index_[c] = KNew => channels_[fd[c]] = NoChannel

SetEvents(c, evts) ==
  /\ MayUpdate(c)
  /\ events_' = [events_ EXCEPT ![c] = evts]
  /\ UpdateChannel(c, evts)
  /\ UNCHANGED <<live, fd, open, batch>>

EnableReading(c) == SetEvents(c, events_[c] \cup {KReadEvent})
EnableWriting(c) == SetEvents(c, events_[c] \cup {KWriteEvent})
DisableWriting(c) == SetEvents(c, events_[c] \ {KWriteEvent})
DisableAll(c) == SetEvents(c, {})

-----------------------------------------------------------------------------
MayRemoveFromBatch(c) == /\ InOwnersCode
                         /\ c \in live
                         /\ fd[c] \in open
                         /\ events_[c] = {}
                         /\ channels_[fd[c]] \in {c, NoChannel}

(***************************************************************************)
(* The contract of Channel::remove and EventLoop::removeChannel, both      *)
(* asserted: no events left, and during a batch only the channel being     *)
(* handled or one that is not in the batch.  An owner that never           *)
(* registered its channel may remove it too (a TcpConnection destroyed     *)
(* before connectEstablished), but not another one's descriptor.           *)
(***************************************************************************)
MayRemove(c) == /\ InOwnersCode
                /\ c \in live
                /\ fd[c] \in open
                /\ events_[c] = {}
                /\ channels_[fd[c]] \in {c, NoChannel}
                /\ eventHandling_ => \/ currentActiveChannel_ = c
                                     \/ c \notin activeChannels_

Remove(c) ==
  /\ MayRemove(c)
  /\ channels_' = [channels_ EXCEPT ![fd[c]] = NoChannel]
  /\ IF index_[c] = KAdded
     THEN EpollCtl("del", c, events_[c])
     ELSE UNCHANGED <<epoll, mask, ctlFailed>>
  /\ index_' = [index_ EXCEPT ![c] = KNew]
  /\ UNCHANGED <<live, fd, events_, open, batch>>

-----------------------------------------------------------------------------
(* The lives of descriptors and channels.  Closing a descriptor also takes *)
(* it out of the kernel's set; the owners close after they remove.         *)

OpenFd(f) ==
  /\ InOwnersCode
  /\ f \notin open
  /\ open' = open \cup {f}
  /\ UNCHANGED <<live, fd, events_, index_, channels_, epoll, mask, batch, ctlFailed>>

CloseFd(f) ==
  /\ InOwnersCode
  /\ f \in open
  /\ channels_[f] = NoChannel
  /\ open' = open \ {f}
  /\ epoll' = [epoll EXCEPT ![f] = NoChannel]
  /\ mask' = [mask EXCEPT ![f] = {}]
  /\ UNCHANGED <<live, fd, events_, index_, channels_, batch, ctlFailed>>

Construct(c, f) ==
  /\ InOwnersCode
  /\ c \notin live
  /\ f \in open
  /\ live' = live \cup {c}
  /\ fd' = [fd EXCEPT ![c] = f]
  /\ events_' = [events_ EXCEPT ![c] = {}]
  /\ index_' = [index_ EXCEPT ![c] = KNew]
  /\ UNCHANGED <<open, channels_, epoll, mask, batch, ctlFailed>>

(***************************************************************************)
(* An owner destroys a channel it has removed, and not from its own        *)
(* handler (asserted by ~Channel).                                         *)
(***************************************************************************)
Destruct(c) ==
  /\ InOwnersCode
  /\ c \in live
  /\ index_[c] = KNew
  /\ c # currentActiveChannel_
  /\ live' = live \ {c}
  /\ UNCHANGED <<fd, events_, index_, open, channels_, epoll, mask, batch, ctlFailed>>

-----------------------------------------------------------------------------
(* loop(): poll, then the handlers one by one.                             *)

(***************************************************************************)
(* Any of the registered descriptors may be ready: EPOLLERR and EPOLLHUP   *)
(* are reported whatever the mask is.                                      *)
(***************************************************************************)
Poll ==
  /\ ~eventHandling_
  /\ \E ready \in SUBSET {f \in Fds : epoll[f] # NoChannel} :
       /\ activeChannels_' = {epoll[f] : f \in ready}
       /\ todo' = activeChannels_'
  /\ eventHandling_' = TRUE
  /\ UNCHANGED <<live, fd, events_, index_, open, channels_, epoll, mask,
                 currentActiveChannel_, ctlFailed>>

HandleEvent(c) ==
  /\ eventHandling_
  /\ c \in todo
  /\ todo' = todo \ {c}
  /\ currentActiveChannel_' = c
  /\ UNCHANGED <<live, fd, events_, index_, open, channels_, epoll, mask,
                 activeChannels_, eventHandling_, ctlFailed>>

HandlingDone ==
  /\ eventHandling_
  /\ todo = {}
  /\ currentActiveChannel_' = NoChannel
  /\ eventHandling_' = FALSE
  /\ UNCHANGED <<live, fd, events_, index_, open, channels_, epoll, mask,
                 activeChannels_, todo, ctlFailed>>

PollerNext ==
  \/ Poll
  \/ HandlingDone
  \/ \E f \in Fds : OpenFd(f) \/ CloseFd(f)
  \/ \E c \in Channels :
       \/ HandleEvent(c)
       \/ EnableReading(c) \/ EnableWriting(c) \/ DisableWriting(c) \/ DisableAll(c)
       \/ Remove(c)
       \/ Destruct(c)
       \/ \E f \in Fds : Construct(c, f)

PollerSpec == PollerInit /\ [][PollerNext]_pollerVars

-----------------------------------------------------------------------------
MaybeChannel == Channels \cup {NoChannel}

(***************************************************************************)
(* Types of the fields of Channel, EPollPoller and EventLoop, and of the   *)
(* kernel's set; outside a batch the loop holds no channel.                *)
(***************************************************************************)
PollerTypeOK ==
  /\ live \in SUBSET Channels
  /\ fd \in [Channels -> Fds]
  /\ events_ \in [Channels -> SUBSET Events]
  /\ index_ \in [Channels -> {KNew, KAdded, KDeleted}]
  /\ open \in SUBSET Fds
  /\ channels_ \in [Fds -> MaybeChannel]
  /\ epoll \in [Fds -> MaybeChannel]
  /\ mask \in [Fds -> SUBSET Events]
  /\ activeChannels_ \in SUBSET Channels
  /\ todo \in SUBSET activeChannels_
  /\ currentActiveChannel_ \in MaybeChannel
  /\ eventHandling_ \in BOOLEAN
  /\ ctlFailed \in BOOLEAN
  /\ ~eventHandling_ => todo = {} /\ currentActiveChannel_ = NoChannel

(***************************************************************************)
(* The kernel's set is the poller's: a descriptor is watched exactly for   *)
(* the channel whose index_ is KAdded, with the events_ it has now.  A     *)
(* slip in updateChannel's three states would leave a channel deaf, or     *)
(* epoll_wait spinning on events nobody asked for.                         *)
(***************************************************************************)
KernelAgrees ==
  /\ \A c \in live : index_[c] = KAdded => /\ epoll[fd[c]] = c
                                           /\ mask[fd[c]] = events_[c]
  /\ \A f \in Fds : epoll[f] # NoChannel => /\ fd[epoll[f]] = f
                                            /\ index_[epoll[f]] = KAdded

(***************************************************************************)
(* Every pointer the loop can follow is to a Channel that exists: the ones *)
(* epoll_wait would return, and the ones of the batch whose handler is     *)
(* still to be called, whatever earlier handlers of the batch destroyed.   *)
(***************************************************************************)
NoDanglingChannel ==
  /\ \A f \in Fds : epoll[f] \in live \cup {NoChannel}
  /\ todo \subseteq live
  /\ currentActiveChannel_ \in live \cup {NoChannel}

(***************************************************************************)
(* epoll_ctl never refuses an ADD or a MOD, on which update() would exit   *)
(* the process.                                                            *)
(***************************************************************************)
EpollCtlNeverRefused == ~ctlFailed

(***************************************************************************)
(* The asserts of updateChannel on the map: a registered channel is the    *)
(* one channels_ has under its descriptor, until it is removed.            *)
(***************************************************************************)
MapAgrees ==
  /\ \A c \in live : index_[c] # KNew => channels_[fd[c]] = c
  /\ \A f \in Fds : channels_[f] # NoChannel =>
       channels_[f] \in live /\ fd[channels_[f]] = f /\ index_[channels_[f]] # KNew

(***************************************************************************)
(* What makes the four inductive: the kernel's set is part of the map,     *)
(* descriptors are open as long as they are in the map, and a channel      *)
(* waiting for its handler has not been removed and is not being handled.  *)
(***************************************************************************)
RegistrationInv ==
  /\ \A f \in Fds : epoll[f] \in {channels_[f], NoChannel}
  /\ \A f \in Fds : channels_[f] # NoChannel => f \in open
  /\ \A c \in todo : index_[c] # KNew
  /\ currentActiveChannel_ \notin todo

PollerInv == /\ PollerTypeOK /\ KernelAgrees /\ NoDanglingChannel /\ EpollCtlNeverRefused
             /\ MapAgrees /\ RegistrationInv

=============================================================================
