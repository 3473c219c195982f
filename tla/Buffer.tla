------------------------------- MODULE Buffer -------------------------------
(***************************************************************************)
(* muduo::Buffer of src/muduo/Buffer.h and Buffer.cpp as operators on a   *)
(* value [buf, r, w]: buf is buffer_ (a sequence of bytes), r and w are    *)
(* readIndex and writeIndex (0-based, so the readable bytes are buf[r+1]   *)
(* .. buf[w]).  The sizes are constants so that a model can scale them     *)
(* down; the code has kCheapPrepend = 8, kInitialSize = 1024 and a 65536  *)
(* byte extrabuf in readfd().  A fresh vector<char> holds zero bytes.      *)
(***************************************************************************)
EXTENDS Naturals, Sequences, TLC

CONSTANTS
    kCheapPrepend,
    kInitialSize,
    kExtraBuf       \* sizeof extrabuf in Buffer::readfd

ASSUME kCheapPrepend \in Nat /\ kInitialSize \in Nat /\ kExtraBuf \in Nat \ {0}

Zeros(n) == [i \in 1..n |-> 0]

\* Buffer(): buffer_(kCheapPrepend + kInitialSize), readIndex(kCheapPrepend),
\* writeIndex(kInitialSize).
NewBuffer == [buf |-> Zeros(kCheapPrepend + kInitialSize),
              r   |-> kCheapPrepend,
              w   |-> kInitialSize]

ReadableBytes(b)    == b.w - b.r
WritableBytes(b)    == Len(b.buf) - b.w
PrependableBytes(b) == b.r

\* The bytes peek() points at, readableBytes() of them.
Content(b) == SubSeq(b.buf, b.r + 1, b.w)

\* Faulty variant: retrieve() moves readIndex one byte too far.
RetrieveOver(b, len) == [b EXCEPT !.r = @ + len + 1]

\* retrieve(len): readIndex += len (the caller keeps len <= readable).
Retrieve(b, len) == [b EXCEPT !.r = @ + len]

\* retrieveAll() / retrieveAsString(): both indexes back to kCheapPrepend.
RetrieveAll(b) == [b EXCEPT !.r = kCheapPrepend, !.w = kCheapPrepend]

\* vector::resize(n): truncate, or extend with zero bytes.
Resize(s, n) == IF n <= Len(s) THEN SubSeq(s, 1, n) ELSE s \o Zeros(n - Len(s))

\* Faulty variant: the move copies from begin() instead of
\* begin() + readIndex.
MakeSpaceCopyFromBegin(b, len) ==
    IF WritableBytes(b) + PrependableBytes(b) < len + kCheapPrepend
      THEN [b EXCEPT !.buf = Resize(@, b.w + len)]
      ELSE LET n == ReadableBytes(b) IN
           [buf |-> [i \in DOMAIN b.buf |->
                       IF i \in kCheapPrepend + 1..kCheapPrepend + n
                         THEN b.buf[i - kCheapPrepend] ELSE b.buf[i]],
            r   |-> kCheapPrepend,
            w   |-> kCheapPrepend + n]

\* makeSpace(len): grow buffer_ to writeIndex + len, or, after
\* assert(kCheapPrepend < readIndex), move the readable bytes down to
\* kCheapPrepend when prependable + writable space suffices.
MakeSpace(b, len) ==
    IF WritableBytes(b) + PrependableBytes(b) < len + kCheapPrepend
      THEN [b EXCEPT !.buf = Resize(@, b.w + len)]
      ELSE LET n     == ReadableBytes(b)
               moved == [buf |-> [i \in DOMAIN b.buf |->
                                   IF i \in kCheapPrepend + 1..kCheapPrepend + n
                                     THEN b.buf[b.r + i - kCheapPrepend]
                                     ELSE b.buf[i]],
                         r   |-> kCheapPrepend,
                         w   |-> kCheapPrepend + n]
           IN IF Assert(kCheapPrepend < b.r, "Buffer::makeSpace assertion failed")
                THEN moved ELSE b

\* ensureWritableBytes(len).
EnsureWritableBytes(b, len) ==
    IF WritableBytes(b) < len THEN MakeSpace(b, len) ELSE b

\* Copy data to beginWrite() and hasWritten(Len(data)); the caller has
\* made room.
Put(b, data) ==
    [b EXCEPT !.buf = [i \in DOMAIN @ |->
                         IF i \in b.w + 1..b.w + Len(data)
                           THEN data[i - b.w] ELSE @[i]],
              !.w = @ + Len(data)]

\* append(data, len) (Append is taken by Sequences).
AppendBytes(b, data) == Put(EnsureWritableBytes(b, Len(data)), data)

\* Faulty variant: the part of the read that went to extrabuf is dropped.
ReadFdDropExtra(b, data) ==
    Put(b, SubSeq(data, 1, IF Len(data) <= WritableBytes(b)
                             THEN Len(data) ELSE WritableBytes(b)))

\* readfd(): readv() fills the writable space and then extrabuf; what went
\* to extrabuf is appended.  data is what readv() returned, at most
\* writable + kExtraBuf bytes.
ReadFd(b, data) ==
    LET writable == WritableBytes(b) IN
    IF Len(data) <= writable
      THEN Put(b, data)
      ELSE AppendBytes(Put(b, SubSeq(data, 1, writable)),
                  SubSeq(data, writable + 1, Len(data)))

====
