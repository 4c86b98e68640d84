------------------------------- MODULE Buffer -------------------------------
(***************************************************************************)
(* net/buffer: the byte buffer of every connection.  A Buffer object is a  *)
(* record: the vector buffer_ as a sequence (C index i is position i + 1)  *)
(* and the two indices into it.  The calls of one Buffer are made by one   *)
(* thread; each is one step.  Where the code asserts what the caller must  *)
(* respect (retrieve no more than there is, prepend no more than there is  *)
(* room for), the assertion is the guard.                                  *)
(***************************************************************************)
EXTENDS Integers, Sequences

CONSTANTS kCheapprepend, kInitialSize,
          ExtraSize,     \* bytes of the stack buffer of readFd
          Base, CR, LF, Widths,
          MaxContent,    \* bound: readable bytes
          MaxLen         \* bound: bytes of one call

ASSUME BufferAssumption ==
  /\ kCheapprepend \in Nat /\ kInitialSize \in Nat /\ ExtraSize \in Nat
  /\ Base \in Nat \ {0, 1} /\ CR \in 0..(Base - 1) /\ LF \in 0..(Base - 1)
  /\ MaxContent \in Nat /\ MaxLen \in Nat /\ Widths \subseteq 1..MaxLen

VARIABLES
  buffer,      \* the Buffer object
  io,          \* the last call's input, or what it returned
  asked        \* history: the most room any call has asked for

vars == <<buffer, io, asked>>

Nothing == <<"none">>

Byte == 0..(Base - 1)
Chunks == UNION { [1..n -> Byte] : n \in 0..MaxLen }
Larger(m, n) == IF m >= n THEN m ELSE n
Smaller(m, n) == IF m <= n THEN m ELSE n

-----------------------------------------------------------------------------
(* The members of class Buffer. *)

NewBuffer ==
  [buffer_      |-> [i \in 1..(kCheapprepend + kInitialSize) |-> 0],
   readerIndex_ |-> kCheapprepend,
   writeIndex_  |-> kCheapprepend]

readableBytes(b) == b.writeIndex_ - b.readerIndex_
writeableBytes(b) == Len(b.buffer_) - b.writeIndex_
prependableBytes(b) == b.readerIndex_

(***************************************************************************)
(* The len bytes from peek() on.                                           *)
(***************************************************************************)
Peek(b, len) == [i \in 1..len |-> b.buffer_[b.readerIndex_ + i]]
Contents(b) == Peek(b, readableBytes(b))

(***************************************************************************)
(* std::copy of data to begin() + at.                                      *)
(***************************************************************************)
CopyTo(b, at, data) ==
  [i \in 1..Len(b.buffer_) |->
     IF i > at /\ i <= at + Len(data) THEN data[i - at] ELSE b.buffer_[i]]

retrieveAll(b) ==
  [buffer_ |-> b.buffer_, readerIndex_ |-> kCheapprepend, writeIndex_ |-> kCheapprepend]

retrieve(b, len) ==
  IF len < readableBytes(b)
  THEN [b EXCEPT !.readerIndex_ = @ + len]
  ELSE retrieveAll(b)

resize(b, n) ==
  [b EXCEPT !.buffer_ =
     [i \in 1..n |-> IF i <= Len(b.buffer_) THEN b.buffer_[i] ELSE 0]]

MakeSpaceNoHeadroom(b, len) ==
  IF writeableBytes(b) + prependableBytes(b) < len
  THEN resize(b, b.writeIndex_ + len)
  ELSE [buffer_      |-> CopyTo(b, 0, Contents(b)),
        readerIndex_ |-> 0,
        writeIndex_  |-> readableBytes(b)]
MakeSpaceNeverMoves(b, len) == resize(b, b.writeIndex_ + len)
makeSpace(b, len) ==
  IF writeableBytes(b) + prependableBytes(b) < len + kCheapprepend
  THEN resize(b, b.writeIndex_ + len)
  ELSE [buffer_      |-> CopyTo(b, kCheapprepend, Contents(b)),
        readerIndex_ |-> kCheapprepend,
        writeIndex_  |-> kCheapprepend + readableBytes(b)]

ensureWriteableBytes(b, len) ==
  IF writeableBytes(b) < len THEN makeSpace(b, len) ELSE b

hasWritten(b, len) == [b EXCEPT !.writeIndex_ = @ + len]

(***************************************************************************)
(* data copied to beginWrite(), then hasWritten.                           *)
(***************************************************************************)
Written(b, data) ==
  hasWritten([b EXCEPT !.buffer_ = CopyTo(b, b.writeIndex_, data)], Len(data))

append(b, data) == Written(ensureWriteableBytes(b, Len(data)), data)

prepend(b, data) ==
  LET r == b.readerIndex_ - Len(data)
  IN  [buffer_ |-> CopyTo(b, r, data), readerIndex_ |-> r, writeIndex_ |-> b.writeIndex_]

(***************************************************************************)
(* readv has stored data in the writable bytes first, the rest in          *)
(* extrabuff.                                                              *)
(***************************************************************************)
readFd(b, data) ==
  LET w == writeableBytes(b)
  IN  IF Len(data) <= w
      THEN Written(b, data)
      ELSE append([buffer_      |-> CopyTo(b, b.writeIndex_, SubSeq(data, 1, w)),
                   readerIndex_ |-> b.readerIndex_,
                   writeIndex_  |-> Len(b.buffer_)],
                  SubSeq(data, w + 1, Len(data)))

shrink(b, reserve) ==
  append(ensureWriteableBytes(NewBuffer, readableBytes(b) + reserve), Contents(b))

(***************************************************************************)
(* The CR LFs among the readable bytes from the offset start on.           *)
(***************************************************************************)
CRLFsAnywhere(b, start) ==
  { i \in (start + 1)..(Len(b.buffer_) - b.readerIndex_ - 1) :
      b.buffer_[b.readerIndex_ + i] = CR /\ b.buffer_[b.readerIndex_ + i + 1] = LF }
CRLFs(b, start) ==
  { i \in (start + 1)..(readableBytes(b) - 1) :
      Contents(b)[i] = CR /\ Contents(b)[i + 1] = LF }

(***************************************************************************)
(* htonl, htons and the copy to memory; memcpy, ntohl, ntohs and the casts *)
(* to a signed type.                                                       *)
(***************************************************************************)
Power[n \in Nat] == IF n = 0 THEN 1 ELSE Base * Power[n - 1]
Ints(w) == (0 - Power[w] \div 2)..(Power[w] \div 2 - 1)
BigEndian(x, w) == [i \in 1..w |-> ((x % Power[w]) \div Power[w - i]) % Base]

SignedOf(s) ==
  LET unsigned[i \in 0..Len(s)] == IF i = 0 THEN 0 ELSE unsigned[i - 1] * Base + s[i]
      u == unsigned[Len(s)]
      m == Power[Len(s)]
  IN  IF 2 * u >= m THEN u - m ELSE u

(***************************************************************************)
(* An integer reads back as it was written, with its sign.                 *)
(***************************************************************************)
IntsReadBack == \A w \in Widths : \A x \in Ints(w) : SignedOf(BigEndian(x, w)) = x

peekInt(b, w) == SignedOf(Peek(b, w))

-----------------------------------------------------------------------------
(* One action per call. *)

Init ==
  /\ buffer = NewBuffer
  /\ io = Nothing
  /\ asked = 0

Becomes(b, r) == buffer' = b /\ io' = r

(***************************************************************************)
(* A call that asks for len more bytes; the bound on how many there are.   *)
(***************************************************************************)
Asks(len) == asked' = Larger(asked, readableBytes(buffer) + len)
Fits(len) == readableBytes(buffer) + len <= MaxContent

AppendBytes(data) ==
  /\ Fits(Len(data))
  /\ Becomes(append(buffer, data), <<"put", Len(data), data>>)
  /\ Asks(Len(data))

EnsureWriteableBytes(len) ==
  /\ Fits(len)
  /\ Becomes(ensureWriteableBytes(buffer, len), Nothing)
  /\ Asks(len)

(***************************************************************************)
(* A caller that writes at beginWrite() and then calls hasWritten.         *)
(***************************************************************************)
WriteInPlace(data) ==
  /\ Fits(Len(data)) /\ Len(data) <= writeableBytes(buffer)
  /\ Becomes(Written(buffer, data), <<"put", Len(data), data>>)
  /\ Asks(Len(data))

(***************************************************************************)
(* readFd: readv returns data, or fails and leaves the buffer alone.       *)
(***************************************************************************)
ReadFd(data) ==
  /\ Fits(Len(data)) /\ Len(data) <= writeableBytes(buffer) + ExtraSize
  /\ Becomes(readFd(buffer, data), <<"put", Len(data), data>>)
  /\ Asks(Len(data))

Retrieve(len) ==
  /\ len <= readableBytes(buffer)
  /\ Becomes(retrieve(buffer, len), Nothing)
  /\ UNCHANGED asked

RetrieveAsString(len) ==
  /\ len <= readableBytes(buffer)
  /\ Becomes(retrieve(buffer, len), <<"bytes", Peek(buffer, len)>>)
  /\ UNCHANGED asked

RetrieveAll ==
  /\ Becomes(retrieveAll(buffer), Nothing)
  /\ UNCHANGED asked

FindCRLF(start) ==
  /\ start <= readableBytes(buffer)
  /\ UNCHANGED <<buffer, asked>>
  /\ LET found == CRLFs(buffer, start)
     IN  \/ found = {} /\ io' = Nothing
         \/ \E i \in found : (\A j \in found : i <= j) /\ io' = <<"line", i - 1>>

AppendInt(x, w) ==
  /\ Fits(w)
  /\ Becomes(append(buffer, BigEndian(x, w)), <<"put", w, "int", x>>)
  /\ Asks(w)

PeekInt(w) ==
  /\ w <= readableBytes(buffer)
  /\ io' = <<"int", peekInt(buffer, w)>>
  /\ UNCHANGED <<buffer, asked>>

ReadInt(w) ==
  /\ w <= readableBytes(buffer)
  /\ Becomes(retrieve(buffer, w), <<"int", peekInt(buffer, w)>>)
  /\ UNCHANGED asked

Prepend(data) ==
  /\ Fits(Len(data)) /\ Len(data) <= prependableBytes(buffer)
  /\ Becomes(prepend(buffer, data), <<"pushed", Len(data), data>>)
  /\ UNCHANGED asked

PrependInt(x, w) ==
  /\ Fits(w) /\ w <= prependableBytes(buffer)
  /\ Becomes(prepend(buffer, BigEndian(x, w)), <<"pushed", w, "int", x>>)
  /\ UNCHANGED asked

Shrink(reserve) ==
  /\ Fits(reserve)
  /\ Becomes(shrink(buffer, reserve), Nothing)
  /\ Asks(reserve)

Next ==
  \/ RetrieveAll
  \/ \E data \in Chunks : AppendBytes(data) \/ WriteInPlace(data) \/ ReadFd(data) \/ Prepend(data)
  \/ \E len \in 0..MaxLen : EnsureWriteableBytes(len) \/ Shrink(len)
  \/ \E len \in 0..MaxContent : Retrieve(len) \/ RetrieveAsString(len) \/ FindCRLF(len)
  \/ \E w \in Widths : PeekInt(w) \/ ReadInt(w)
  \/ \E w \in Widths : \E x \in Ints(w) : AppendInt(x, w) \/ PrependInt(x, w)

Spec == Init /\ [][Next]_vars

-----------------------------------------------------------------------------
(***************************************************************************)
(* The indices stay ordered inside the vector: what every call relies on   *)
(* when it turns them into pointers.                                       *)
(***************************************************************************)
BufferOK(b) ==
  /\ b \in [buffer_: Seq(Byte), readerIndex_: Nat, writeIndex_: Nat]
  /\ b.readerIndex_ <= b.writeIndex_ /\ b.writeIndex_ <= Len(b.buffer_)
  /\ kCheapprepend <= Len(b.buffer_)

TypeOK ==
  /\ BufferOK(buffer)
  /\ asked \in Nat

(***************************************************************************)
(* Buffer is a byte queue: makeSpace's move and resize, the two halves of  *)
(* readFd and the reset of retrieve never lose, repeat or reorder a byte,  *)
(* what retrieveAsString, findCRLF and the integer calls return is read    *)
(* from the front of that queue, and an integer put or pushed reads back   *)
(* with its sign.                                                          *)
(***************************************************************************)
Queue == INSTANCE ByteQueue
           WITH content <- Contents(buffer), Data <- Chunks, IntOf <- SignedOf
IsByteQueue == Queue!Spec

(***************************************************************************)
(* The headroom of kCheapprepend bytes that prependInt32 counts on: no     *)
(* call but prepend itself eats into it, makeSpace's move and readFd       *)
(* included.                                                               *)
(***************************************************************************)
HeadroomStep ==
  \/ buffer'.readerIndex_ >= Smaller(buffer.readerIndex_, kCheapprepend)
  \/ io'[1] = "pushed" /\ buffer'.readerIndex_ = buffer.readerIndex_ - io'[2]

HeadroomKept == [][HeadroomStep]_vars

(***************************************************************************)
(* Types; and makeSpace grows the vector only when moving the data cannot  *)
(* help, so a connection's buffer is never larger than twice what was ever *)
(* asked of it at one time, however many bytes have passed through it.     *)
(***************************************************************************)
MemoryBounded ==
  /\ TypeOK
  /\ Len(buffer.buffer_) <= kCheapprepend + Larger(kInitialSize, 2 * asked)
=============================================================================
