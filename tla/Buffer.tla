--------------------------------- MODULE Buffer ---------------------------------
(***************************************************************************)
(* Buffer (src/Buffer.h, src/Buffer.cc): a vector with two indices into it.   *)
(*                                                                         *)
(*     | reserved | already read | readable | writable |                     *)
(*     0     kCheapPrepend    readerIndex_ writerIndex_  size()               *)
(*                                                                         *)
(* Indices count from 0 as in the code, so position i is element i + 1.       *)
(***************************************************************************)
EXTENDS Naturals, Sequences

CONSTANTS kCheapPrepend,
          kInitialSize,
          ExtraSize,      \* sizeof extrabuf in readFd
          Byte,
          Fresh,          \* what resize fills with, one of Byte
          MaxReadable,    \* bound: readable bytes in a behaviour
          MaxAppend       \* bound: bytes of one append or readFd

ASSUME BufferAssumption ==
    /\ kCheapPrepend \in Nat /\ kInitialSize \in Nat /\ ExtraSize \in Nat
    /\ MaxReadable \in Nat /\ MaxAppend \in Nat
    /\ Fresh \in Byte

VARIABLES buffer_, readerIndex_, writerIndex_,
          last,    \* history: the bytes that went in or came out last
          peak     \* history: the most bytes that were readable, or asked
                   \* for by ensureWritableBytes, at once

vars == <<buffer_, readerIndex_, writerIndex_, last, peak>>

\* The three members together, as the operations change them.
State == [buf : Seq(Byte), reader : Nat, writer : Nat]
This  == [buf |-> buffer_, reader |-> readerIndex_, writer |-> writerIndex_]

readableBytes(b)    == b.writer - b.reader
writableBytes(b)    == Len(b.buf) - b.writer
prependableBytes(b) == b.reader
Content(b)          == SubSeq(b.buf, b.reader + 1, b.writer)

Moved(op, data) == [op |-> op, data |-> data]

InOrder(b) ==
    /\ kCheapPrepend <= b.reader
    /\ b.reader <= b.writer
    /\ b.writer <= Len(b.buf)

Init ==
    /\ buffer_ = [i \in 1..(kCheapPrepend + kInitialSize) |-> Fresh]
    /\ readerIndex_ = kCheapPrepend
    /\ writerIndex_ = kCheapPrepend
    /\ last = Moved("take", <<>>)
    /\ peak = 0

-----------------------------------------------------------------------------
\* Copying `data` to position `at`; what does not fit would be written outside.
Overwrite(buf, at, data) ==
    [i \in 1..Len(buf) |-> IF at < i /\ i <= at + Len(data) THEN data[i - at] ELSE buf[i]]

\* resize to a larger size.
Resize(buf, size) == [i \in 1..size |-> IF i <= Len(buf) THEN buf[i] ELSE Fresh]

\* Slip: the reserved bytes are counted as room.
FitsWithPrepend(b, len) == writableBytes(b) + prependableBytes(b) >= len

\* Slip: only the room behind the readable bytes is counted.
FitsBehind(b, len) == writableBytes(b) >= len

\* The room before and behind the readable bytes is enough.
Fits(b, len) == writableBytes(b) + prependableBytes(b) >= len + kCheapPrepend

makeSpace(b, len) ==
    IF ~Fits(b, len)
      THEN [b EXCEPT !.buf = Resize(b.buf, b.writer + len)]
      ELSE [buf    |-> Overwrite(b.buf, kCheapPrepend, Content(b)),
            reader |-> kCheapPrepend,
            writer |-> kCheapPrepend + readableBytes(b)]

ensureWritableBytes(b, len) == IF writableBytes(b) < len THEN makeSpace(b, len) ELSE b

\* Data copied behind the readable bytes, where there is room for it.
Written(b, data) ==
    [b EXCEPT !.buf = Overwrite(b.buf, b.writer, data), !.writer = @ + Len(data)]

append(b, data) == Written(ensureWritableBytes(b, Len(data)), data)

retrieveAll(b) == [b EXCEPT !.reader = kCheapPrepend, !.writer = kCheapPrepend]

retrieve(b, len) ==
    IF len < readableBytes(b) THEN [b EXCEPT !.reader = @ + len] ELSE retrieveAll(b)

\* The most that readv takes into vec[0] and, if it is used, extrabuf.
MaxRead(b) ==
    writableBytes(b) + (IF writableBytes(b) < ExtraSize THEN ExtraSize ELSE 0)

\* Slip: writerIndex_ stays where it was when extrabuf is appended.
readFdOverwrites(b, data) ==
    LET writable == writableBytes(b)
    IN  IF Len(data) <= writable
          THEN Written(b, data)
          ELSE append([Written(b, SubSeq(data, 1, writable)) EXCEPT !.writer = b.writer],
                      SubSeq(data, writable + 1, Len(data)))

\* readFd when readv has returned `data`: what passes the writable bytes is in
\* extrabuf and is appended.
readFd(b, data) ==
    LET writable == writableBytes(b)
    IN  IF Len(data) <= writable
          THEN Written(b, data)
          ELSE append(Written(b, SubSeq(data, 1, writable)),
                      SubSeq(data, writable + 1, Len(data)))

-----------------------------------------------------------------------------
Larger(m, n) == IF m > n THEN m ELSE n

Becomes(b, asked) ==
    /\ buffer_' = b.buf
    /\ readerIndex_' = b.reader
    /\ writerIndex_' = b.writer
    /\ peak' = Larger(peak, readableBytes(b) + asked)

\* What callers may add without passing the bound.
Data == UNION {[1..n -> Byte] : n \in {n \in 0..MaxAppend :
                                         readableBytes(This) + n <= MaxReadable}}

AppendData ==
    \E data \in Data : /\ Becomes(append(This, data), 0)
                       /\ last' = Moved("put", data)

EnsureWritableBytes ==
    \E len \in 0..MaxAppend : /\ readableBytes(This) + len <= MaxReadable
                              /\ Becomes(ensureWritableBytes(This, len), len)
                              /\ UNCHANGED last

\* A len beyond the readable bytes empties the buffer.
Retrieve ==
    \E len \in 0..(readableBytes(This) + 1) :
        /\ Becomes(retrieve(This, len), 0)
        /\ last' = Moved("take", IF len <= readableBytes(This)
                                   THEN SubSeq(buffer_, readerIndex_ + 1, readerIndex_ + len)
                                   ELSE Content(This))

\* The string is copied, then the bytes are retrieved.  The caller asks for no more
\* than there is; retrieveAllAsString asks for all.
RetrieveAsString ==
    \E len \in 0..readableBytes(This) :
        /\ last' = Moved("take", SubSeq(buffer_, readerIndex_ + 1, readerIndex_ + len))
        /\ Becomes(retrieve(This, len), 0)

\* readv returns at most what it has room for; at the end of the stream, nothing.
\* An error changes nothing, nor does writeFd.
ReadFd ==
    \E data \in Data : /\ Len(data) <= MaxRead(This)
                       /\ Becomes(readFd(This, data), 0)
                       /\ last' = Moved("put", data)

Next == AppendData \/ EnsureWritableBytes \/ Retrieve \/ RetrieveAsString \/ ReadFd

Spec == Init /\ [][Next]_vars

-----------------------------------------------------------------------------
(* Properties *)

\* The indices stay in order inside the vector and never enter the reserved bytes.
TypeOK ==
    /\ This \in State
    /\ InOrder(This)
    /\ last \in [op : {"put", "take"}, data : Seq(Byte)]
    /\ peak \in Nat /\ readableBytes(This) <= peak

\* Space that has been read is used again: however many bytes have gone through
\* the buffer, the vector holds the reserved bytes and twice the most that was
\* ever readable or asked for at once, or its initial size.
MemoryBounded == Len(buffer_) <= kCheapPrepend + Larger(kInitialSize, 2 * peak)

BQ == INSTANCE ByteQueue WITH bytes <- Content(This)

\* Moving the readable bytes, growing the vector and splitting a read between the
\* vector and extrabuf lose, duplicate and reorder nothing: readers see a queue.
ImplementsByteQueue == BQ!Spec
=============================================================================
