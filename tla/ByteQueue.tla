------------------------------ MODULE ByteQueue ------------------------------
(***************************************************************************)
(* What Buffer promises its users (TcpConnection, the FTP session): a      *)
(* queue of bytes that is appended to at the end, prepended to and taken   *)
(* from at the front, with integers in network byte order.  How the bytes  *)
(* lie in memory is not visible here.  io is the last call's input or      *)
(* what it returned.                                                       *)
(***************************************************************************)
EXTENDS Integers, Sequences

CONSTANTS Data,    \* what may be put or pushed: strings of bytes
          CR, LF,
          Widths,  \* sizes of the integers (1, 2 and 4 bytes in the code)
          IntOf(_) \* the integer that a string of bytes stands for

VARIABLES content, io

Nothing == <<"none">>

First(n) == [i \in 1..n |-> content[i]]
Without(n) == [i \in 1..(Len(content) - n) |-> content[n + i]]

LineEnds(from) ==
  { i \in (from + 1)..(Len(content) - 1) : content[i] = CR /\ content[i + 1] = LF }

Init == content = <<>> /\ io = Nothing

(***************************************************************************)
(* A call puts or pushes data as such, or as an integer of its size.       *)
(***************************************************************************)
Given(call, data) ==
  \/ io' = <<call, Len(data), data>>
  \/ Len(data) \in Widths /\ io' = <<call, Len(data), "int", IntOf(data)>>

Put(data) == content' = content \o data /\ Given("put", data)

Push(data) == content' = data \o content /\ Given("pushed", data)

Take(n) ==
  /\ content' = Without(n)
  /\ io' \in {Nothing, <<"bytes", First(n)>>}

TakeInt(w) == content' = Without(w) /\ io' = <<"int", IntOf(First(w))>>

LookAtInt(w) == UNCHANGED content /\ io' = <<"int", IntOf(First(w))>>

FindLine(from) ==
  /\ UNCHANGED content
  /\ \/ LineEnds(from) = {} /\ io' = Nothing
     \/ \E i \in LineEnds(from) : /\ \A j \in LineEnds(from) : i <= j
                                  /\ io' = <<"line", i - 1>>

Reorganise == UNCHANGED content /\ io' = Nothing

Next ==
  \/ Reorganise
  \/ \E data \in Data : Put(data) \/ Push(data)
  \/ \E n \in 0..Len(content) : Take(n) \/ FindLine(n)
  \/ \E w \in Widths : w <= Len(content) /\ (TakeInt(w) \/ LookAtInt(w))

Spec == Init /\ [][Next]_<<content, io>>
=============================================================================
