---------------------------- MODULE TcpConnection ----------------------------
(***************************************************************************)
(* One TcpConnection of src/muduo/net/TcpConnection.cpp, owned by the     *)
(* TcpServer of net/TcpServer.cpp, with its two Buffers (Buffer.tla), one *)
(* user thread, and the peer.                                              *)
(*                                                                         *)
(* The model starts where TcpServer::newConnection leaves the connection:  *)
(* in connections_, kConnecting, connectEstablished queued on its loop.    *)
(* TcpServer::threadPool_ is never constructed, so the connection's loop   *)
(* is taken to be the server's loop.  The reactor is taken to report the  *)
(* channel's interest as its contract says (Poller.tla and EventLoop.tla  *)
(* check the reactor itself): a readable socket (data or end of stream)    *)
(* reaches handleRead, a writable one with write interest reaches          *)
(* handleWrite, and handleEvent's read branch returns before the write    *)
(* branch.  A loop step runs one handleEvent, or one queued functor, to   *)
(* its end; runInLoop from the loop thread runs inline, so handleClose,   *)
(* removeConnectionInLoop and connectDestroyed are one step.              *)
(*                                                                         *)
(* The user thread gets the TcpConnectionPtr from the connection callback, *)
(* calls send() for each of Msgs (or stops early with shutdown()), and     *)
(* finally drops its pointer.  Its messageCallback takes the input with   *)
(* retrieveAsString().  The object dies when neither connections_ nor     *)
(* the user holds it.  What kills the process is recorded in crash and    *)
(* stops everything: an assert, SIGPIPE (nothing in the library ignores   *)
(* it), a functor bound to a destroyed `this`, or ~Channel's assertion   *)
(* that eventHandling_ is clear.                                           *)
(***************************************************************************)
EXTENDS Buffer, Integers

CONSTANTS
    Msgs,        \* the messages the user thread sends, in order
    PeerBytes    \* the bytes the peer writes, in order

States == {"kConnecting", "kConnected", "kDisconnecting", "kDisconnected"}
Crashes == {"none", "assert", "sigpipe", "uaf", "dtor"}

VARIABLES
    state,       \* state_
    reading,     \* channel_ has read interest
    writing,     \* channel_->isWriting()
    registered,  \* channel_ is in the Poller's channels_
    out,         \* outputBuffer_
    in,          \* inputBuffer_
    pending,     \* the loop's pendingFunctors_ for this connection
    inServer,    \* connections_ holds the connection
    userRef,     \* the user thread holds a TcpConnectionPtr
    upc,         \* user thread: "wait", "ready", "queue", "shut", "done"
    next,        \* index in Msgs of the message being sent
    wrShut,      \* shutdownWrite() has run on the socket
    written,     \* bytes ::write handed to the kernel, in order
    accepted,    \* bytes of the messages sendInLoop ran for, in order
    sockIn,      \* bytes the peer wrote that the loop has not read
    peerSent,    \* how many of PeerBytes the peer wrote
    peerClosed,  \* the peer closed the connection
    delivered,   \* bytes messageCallback took, in order
    handling,    \* channel_->eventHandling_
    crash        \* what ended the process, "none" while it runs

vars == <<state, reading, writing, registered, out, in, pending, inServer,
          userRef, upc, next, wrShut, written, accepted, sockIn, peerSent,
          peerClosed, delivered, handling, crash>>

conn == <<state, reading, writing, registered, out, in, inServer, userRef>>
peer == <<wrShut, written, sockIn, peerSent, peerClosed>>

Functors == {[op |-> "established"], [op |-> "shutdown"]}
            \cup [op : {"send"}, m : 1..Len(Msgs)]

Alive == inServer \/ userRef

Running == crash = "none"

TypeOK ==
    /\ state \in States
    /\ reading \in BOOLEAN /\ writing \in BOOLEAN /\ registered \in BOOLEAN
    /\ out.r <= out.w /\ out.w <= Len(out.buf)
    /\ in.r <= in.w /\ in.w <= Len(in.buf)
    /\ pending \in Seq(Functors)
    /\ inServer \in BOOLEAN /\ userRef \in BOOLEAN
    /\ upc \in {"wait", "ready", "queue", "shut", "done"}
    /\ next \in 1..Len(Msgs) + 1
    /\ wrShut \in BOOLEAN /\ peerClosed \in BOOLEAN
    /\ peerSent \in 0..Len(PeerBytes)
    /\ handling \in BOOLEAN
    /\ crash \in Crashes

Init ==
    /\ state = "kConnecting"
    /\ reading = FALSE /\ writing = FALSE /\ registered = FALSE
    /\ out = NewBuffer /\ in = NewBuffer
    /\ pending = <<[op |-> "established"]>>
    /\ inServer = TRUE /\ userRef = FALSE
    /\ upc = "wait" /\ next = 1
    /\ wrShut = FALSE /\ written = <<>> /\ accepted = <<>>
    /\ sockIn = <<>> /\ peerSent = 0 /\ peerClosed = FALSE
    /\ delivered = <<>>
    /\ handling = FALSE
    /\ crash = "none"

----------------------------------------------------------------------------
(* Pieces of the loop's handlers.                                          *)

\* ::write of data: SIGPIPE once the write half is shut, and possibly once
\* the peer has gone (its RST is back); otherwise some prefix is taken.
\* n is what the call wrote.
WriteOutcomes(data) ==
    IF wrShut THEN {-1}
    ELSE (IF peerClosed THEN {-1} ELSE {}) \cup 0..Len(data)

\* Channel::update() of a channel Poller::removeChannel has dropped: its
\* index_ is stale and updateChannel asserts it is in channels_.
UpdateOk == registered

\* connectEstablished(): assert(state_ == kConnecting); kConnected;
\* enableReading(); connectionCallback_ hands the pointer to the user.
ConnectEstablished ==
    IF state # "kConnecting"
      THEN crash' = "assert" /\ UNCHANGED <<conn, upc>>
      ELSE /\ state' = "kConnected"
           /\ reading' = TRUE /\ registered' = TRUE
           /\ userRef' = TRUE /\ upc' = "ready"
           /\ UNCHANGED <<writing, out, in, inServer, crash>>

\* Faulty variant: shutdownWrite() whether or not output is pending.
ShutdownInLoopUnconditional(isWriting) == wrShut' = TRUE

\* shutdownInLoop(): shut the write half unless the channel is writing
\* (isWriting is the channel's state when it runs).
ShutdownInLoop(isWriting) ==
    wrShut' = (wrShut \/ ~isWriting)

\* Faulty variant: the remainder is appended but write interest is never
\* enabled.
EnableWritingNever(n, m) == writing

\* if (nwrote < len) { append; if (!isWriting()) enableWriting(); }
EnableWritingIfShort(n, m) == writing \/ n < Len(m)

\* sendInLoop(m) with ::write returning n when it writes directly.
SendInLoop(m) ==
    LET direct == ~writing /\ ReadableBytes(out) = 0 IN
    \E n \in (IF direct THEN WriteOutcomes(m) ELSE {0}) :
      IF n < 0 THEN crash' = "sigpipe" /\ UNCHANGED <<conn, peer, accepted>>
      ELSE IF n < Len(m) /\ ~writing /\ ~UpdateOk
        THEN crash' = "assert" /\ UNCHANGED <<conn, peer, accepted>>
      ELSE /\ written' = written \o SubSeq(m, 1, n)
           /\ accepted' = accepted \o m
           /\ out' = IF n < Len(m) THEN AppendBytes(out, SubSeq(m, n + 1, Len(m)))
                                   ELSE out
           /\ writing' = EnableWritingIfShort(n, m)
           /\ UNCHANGED <<state, reading, registered, in, inServer, userRef,
                          wrShut, sockIn, peerSent, peerClosed, crash>>

\* connectDestroyed(): kDisconnected; disableAll(); removeChannel().  Its
\* assert on state_ is the one handleClose() already made.
ConnectDestroyed ==
    /\ state' = "kDisconnected"
    /\ reading' = FALSE /\ writing' = FALSE /\ registered' = FALSE

\* removeConnection() -> removeConnectionInLoop(), inline: erase from
\* connections_ (assert(n == 1)), then connectDestroyed(), inline.
RemoveConnectionInLoop ==
    /\ inServer' = FALSE
    /\ ConnectDestroyed

\* handleClose(): assert the state, disableAll(), closeCallback_.  When the
\* bound temporaries die the object goes unless the user still holds it,
\* inside Channel::handleEvent, which has set eventHandling_.
HandleClose ==
    IF state \notin {"kConnected", "kDisconnecting"} \/ ~inServer
      THEN crash' = "assert" /\ UNCHANGED conn
      ELSE /\ RemoveConnectionInLoop
           /\ crash' = IF userRef THEN "none" ELSE "dtor"
           /\ UNCHANGED <<out, in, userRef>>

\* Faulty variant: a read of 0 bytes is taken for "nothing yet".
HandleReadIgnoreEof ==
    IF sockIn = <<>>
      THEN UNCHANGED <<conn, peer, delivered, crash>>
      ELSE LET k   == IF Len(sockIn) <= WritableBytes(in) + kExtraBuf
                        THEN Len(sockIn) ELSE WritableBytes(in) + kExtraBuf
               got == ReadFd(in, SubSeq(sockIn, 1, k))
           IN /\ sockIn' = SubSeq(sockIn, k + 1, Len(sockIn))
              /\ delivered' = delivered \o Content(got)
              /\ in' = RetrieveAll(got)
              /\ UNCHANGED <<state, reading, writing, registered, out, inServer,
                             userRef, wrShut, written, peerSent, peerClosed, crash>>

\* handleRead(): readfd() reads what fits in writable + extrabuf; data goes
\* to messageCallback, which takes it all; end of stream goes to handleClose.
HandleRead ==
    IF sockIn = <<>>
      THEN /\ HandleClose
           /\ UNCHANGED <<peer, delivered>>
      ELSE LET k   == IF Len(sockIn) <= WritableBytes(in) + kExtraBuf
                        THEN Len(sockIn) ELSE WritableBytes(in) + kExtraBuf
               got == ReadFd(in, SubSeq(sockIn, 1, k))
           IN /\ sockIn' = SubSeq(sockIn, k + 1, Len(sockIn))
              /\ delivered' = delivered \o Content(got)
              /\ in' = RetrieveAll(got)
              /\ UNCHANGED <<state, reading, writing, registered, out, inServer,
                             userRef, wrShut, written, peerSent, peerClosed, crash>>

\* Faulty variant: the drained buffer keeps write interest.
HandleWriteKeepInterest(n) ==
    IF n < 0 THEN crash' = "sigpipe" /\ UNCHANGED <<conn, peer>>
    ELSE /\ written' = written \o SubSeq(Content(out), 1, n)
         /\ out' = Retrieve(out, n)
         /\ UNCHANGED <<writing, wrShut>>
         /\ UNCHANGED <<state, reading, registered, in, inServer, userRef,
                        sockIn, peerSent, peerClosed, crash>>

\* handleWrite(): write from peek(); retrieve what went; when drained,
\* disableWriting() and, if kDisconnecting, shutdownInLoop().
HandleWrite(n) ==
    IF n < 0 THEN crash' = "sigpipe" /\ UNCHANGED <<conn, peer>>
    ELSE /\ written' = written \o SubSeq(Content(out), 1, n)
         /\ out' = Retrieve(out, n)
         /\ writing' = (ReadableBytes(out) > n)
         /\ IF ~writing' /\ state = "kDisconnecting" THEN ShutdownInLoop(FALSE)
                                                     ELSE UNCHANGED wrShut
         /\ UNCHANGED <<state, reading, registered, in, inServer, userRef,
                        sockIn, peerSent, peerClosed, crash>>

Seqs == INSTANCE SequencesExt

Readable == reading /\ (sockIn # <<>> \/ peerClosed)

----------------------------------------------------------------------------
(* The loop thread.                                                        *)

\* Run the first queued functor; one bound to `this` of a destroyed
\* connection (sendInLoop, shutdownInLoop) is a use after free.
RunFunctor ==
    /\ Running /\ pending # <<>>
    /\ pending' = Tail(pending)
    /\ LET f == Head(pending) IN
       CASE f.op = "established" ->
              ConnectEstablished /\ UNCHANGED <<peer, accepted>>
         [] ~Alive ->
              crash' = "uaf" /\ UNCHANGED <<conn, peer, accepted, upc>>
         [] f.op = "send" ->
              SendInLoop(Msgs[f.m]) /\ UNCHANGED upc
         [] f.op = "shutdown" ->
              /\ ShutdownInLoop(writing)
              /\ UNCHANGED <<conn, written, sockIn, peerSent, peerClosed,
                             accepted, crash, upc>>
    /\ UNCHANGED <<next, delivered, handling>>

\* poll() reports the socket readable: handleEvent's read branch.
ReadEvent ==
    /\ Running /\ registered /\ Readable
    /\ HandleRead
    /\ handling' = TRUE
    /\ UNCHANGED <<pending, upc, next, accepted>>

\* poll() reports it writable and not readable: handleEvent's write branch.
\* A reported POLLOUT means the kernel takes at least one byte.
WriteEvent ==
    /\ Running /\ registered /\ writing /\ ~Readable
    /\ \E n \in WriteOutcomes(Content(out)) \ {0} : HandleWrite(n)
    /\ handling' = FALSE
    /\ UNCHANGED <<pending, upc, next, accepted, delivered>>

----------------------------------------------------------------------------
(* The user thread and the peer.                                           *)

\* send(m): if (state_ == kConnected) ...
UserSendCheck ==
    /\ Running /\ upc = "ready" /\ next <= Len(Msgs)
    /\ IF state = "kConnected" THEN upc' = "queue" /\ UNCHANGED next
                               ELSE next' = next + 1 /\ UNCHANGED upc
    /\ UNCHANGED <<conn, pending, peer, accepted, delivered, handling, crash>>

\* ... loop_->runInLoop(bind(&TcpConnection::sendInLoop, this, m)).
UserSendQueue ==
    /\ Running /\ upc = "queue"
    /\ pending' = Append(pending, [op |-> "send", m |-> next])
    /\ next' = next + 1 /\ upc' = "ready"
    /\ UNCHANGED <<conn, peer, accepted, delivered, handling, crash>>

\* shutdown(): if kConnected, set kDisconnecting and queue shutdownInLoop;
\* the user sends nothing after it.
UserShutdown ==
    /\ Running /\ upc = "ready"
    /\ IF state = "kConnected"
         THEN /\ state' = "kDisconnecting"
              /\ pending' = Append(pending, [op |-> "shutdown"])
         ELSE UNCHANGED <<state, pending>>
    /\ upc' = "shut" /\ next' = Len(Msgs) + 1
    /\ UNCHANGED <<reading, writing, registered, out, in, inServer, userRef,
                   peer, accepted, delivered, handling, crash>>

\* The user thread drops its TcpConnectionPtr; if connections_ has let go
\* too, the object and its Channel are destroyed here.
UserDrop ==
    /\ Running /\ upc \in {"ready", "shut"} /\ next > Len(Msgs)
    /\ userRef' = FALSE /\ upc' = "done"
    /\ crash' = IF ~inServer /\ handling THEN "dtor" ELSE "none"
    /\ UNCHANGED <<state, reading, writing, registered, out, in, inServer,
                   pending, next, peer, accepted, delivered, handling>>

PeerWrite ==
    /\ Running /\ ~peerClosed /\ peerSent < Len(PeerBytes)
    /\ sockIn' = Append(sockIn, PeerBytes[peerSent + 1])
    /\ peerSent' = peerSent + 1
    /\ UNCHANGED <<conn, pending, upc, next, wrShut, written, peerClosed,
                   accepted, delivered, handling, crash>>

PeerClose ==
    /\ Running /\ ~peerClosed
    /\ peerClosed' = TRUE
    /\ UNCHANGED <<conn, pending, upc, next, wrShut, written, sockIn, peerSent,
                   accepted, delivered, handling, crash>>

Loop == RunFunctor \/ ReadEvent \/ WriteEvent
User == UserSendCheck \/ UserSendQueue \/ UserShutdown \/ UserDrop
Peer == PeerWrite \/ PeerClose

Next == Loop \/ User \/ Peer

\* The loop thread runs whatever it has to (poll returns on readiness or
\* on its timeout); the user and the peer may stop at any point.
Spec == Init /\ [][Next]_vars
        /\ WF_vars(RunFunctor) /\ WF_vars(ReadEvent) /\ WF_vars(WriteEvent)

----------------------------------------------------------------------------
(* Properties.                                                             *)

\* What the constructor leaves readable in a fresh Buffer: Buffer() sets
\* writeIndex to kInitialSize, not kCheapPrepend.
Initial == Content(NewBuffer)

\* The output stream is intact: the bytes handed to the kernel followed by
\* the bytes still in outputBuffer_ are exactly the fresh buffer's bytes
\* followed by every message sendInLoop ran for, in order: no byte lost,
\* repeated or reordered by direct writes, partial writes, append(),
\* makeSpace() or retrieve() in handleWrite.
StreamIntact == written \o Content(out) = Initial \o accepted

\* The input stream is intact: what messageCallback took, what is still
\* in inputBuffer_ and what is still in the socket are the fresh buffer's
\* bytes followed by the bytes the peer wrote, in order, through readfd()'s
\* two-part readv and the append of the extrabuf part.
DeliveredInOrder ==
    delivered \o Content(in) \o sockIn = Initial \o SubSeq(PeerBytes, 1, peerSent)

\* While the connection is open, its write half is shut only when no byte
\* of an accepted message waits in outputBuffer_: shutdownInLoop() defers
\* to handleWrite() while the channel is writing, and handleWrite() shuts
\* down once it drains.  (After handleClose the unsent bytes are lost
\* anyway.)
AcceptedDrainedAtShutdown ==
    wrShut /\ accepted # <<>> /\ state # "kDisconnected" => ReadableBytes(out) = 0

\* Once the peer has closed, the connection is eventually removed from
\* connections_ and from the Poller (handleRead's end of stream reaches
\* handleClose), unless the process died first.
PeerCloseHandled == peerClosed ~> ((~inServer /\ ~registered) \/ ~Running)

\* Write interest does not outlive the output: once the channel is
\* writing, it eventually stops (outputBuffer_ drained, or the connection
\* closed), unless the process died first.
OutputDrains == writing ~> (~writing \/ ~Running)

\* Every byte of an accepted message is eventually handed to the kernel,
\* unless the peer closes or the process dies first: a short direct write
\* in sendInLoop() leaves the rest in outputBuffer_ with write interest on,
\* and handleWrite() keeps writing until it drains.
AcceptedEventuallyWritten ==
    \A k \in 1..Len(Seqs!FlattenSeq(Msgs)) :
        Len(accepted) >= k
          ~> (Len(written) >= Len(Initial) + k \/ peerClosed \/ ~Running)

\* send() and shutdown() are thread-safe (TcpConnection.h:45-48) and the
\* connection's handlers never bring the process down: no assert fails
\* (handleClose, connectEstablished, Poller::updateChannel of a removed
\* channel), no ::write raises SIGPIPE on a shut or reset socket, no
\* functor runs on a destroyed `this`, and the Channel is never destroyed
\* while eventHandling_ is set (spec 7(a): destroying a descriptor
\* mid-callback is a programming error).
NoFatalError == crash = "none"

====
