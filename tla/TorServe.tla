------------------------------- MODULE TorServe -------------------------------
(***************************************************************************)
(* Serving a file from an onion service: serveUntilSent accepts connections,   *)
(* authenticates each with runTorServiceHandshake, hands the file to whoever   *)
(* is ready with sendFileOverTor, and goes back to waiting when that did not   *)
(* deliver it.  A receiver runs runTorClientHandshake and receiveFileOverTor;  *)
(* anyone else who has the address may connect and send what they like.        *)
(*                                                                          *)
(* Abstractions.                                                            *)
(*  - A connection is one of Conn, used once; whoever comes back uses another.  *)
(*    Its two directions are sequences of whole frames: what is cut inside a    *)
(*    frame is read as the end of the stream or as a failure, which here end    *)
(*    the connection alike.                                                   *)
(*  - A claim opens when its sender knows the password: the key exchange is     *)
(*    taken at its word.                                                      *)
(*  - That a write resolves in its own time, whatever the other side has done   *)
(*    meanwhile, is modelled for `end`, the only frame after which a hang-up    *)
(*    is taken otherwise than before it.                                      *)
(*  - Closing a stream, or the service, may cut off what is still on its way:   *)
(*    this is the Tor client's, modelled from its use.                        *)
(***************************************************************************)
EXTENDS Integers, Sequences, FiniteSets

CONSTANTS
  Conn,        \* connections that may be made
  Honest,      \* those made by someone with the password
  Steady,      \* those of them that hold, with a receiver that keeps up
  Chunks,      \* chunks of the file
  MaxFailed,   \* TOR_MAX_FAILED_HANDSHAKES
  NoConn

ASSUME TorServeAssumption ==
  /\ Honest \subseteq Conn /\ Steady \subseteq Honest /\ NoConn \notin Conn
  /\ IsFiniteSet(Conn) /\ Chunks \in Nat /\ MaxFailed \in Nat \ {0}

VARIABLES
  \* The sender
  sPhase,    \* what the sender awaits
  cur,       \* the connection it serves
  written,   \* chunks written to it
  failures,
  overdue,   \* whether the wait's deadline has passed
  cancelled,
  outcome,   \* what ended the serving
  fate,      \* what became of a connection, for the sender
  \* The streams
  queue,     \* connections that are open and not accepted
  toService, toPeer,  \* frames on their way
  shut,      \* connections closed by the sender, or with the service
  gone,      \* connections closed by the peer, or broken
  \* The peers
  pState, got

senderVars == <<sPhase, cur, written, failures, overdue, cancelled, outcome, fate>>
streamVars == <<queue, toService, toPeer, shut, gone>>
peerVars == <<pState, got>>
vars == <<senderVars, streamVars, peerVars>>

Frame == {"hello", "offer", "claim", "forged", "confirm", "ready", "cancel",
          "chunk", "end", "abort"}
Handshake == {"hello", "claim", "answer"}

Init ==
  /\ sPhase = "accepting" /\ cur = NoConn /\ written = 0 /\ failures = 0
  /\ overdue = FALSE /\ cancelled = FALSE /\ outcome = "none"
  /\ fate = [c \in Conn |-> "none"]
  /\ queue = <<>> /\ shut = {} /\ gone = {}
  /\ toService = [c \in Conn |-> <<>>] /\ toPeer = [c \in Conn |-> <<>>]
  /\ pState = [c \in Conn |-> "idle"] /\ got = [c \in Conn |-> 0]

Send(wire, c, f) == [wire EXCEPT ![c] = Append(@, f)]
Emptied(wire, cs) == [c \in Conn |-> IF c \in cs THEN <<>> ELSE wire[c]]

-----------------------------------------------------------------------------
(* The sender: how a connection and the serving end *)

\* The streams of `cs` are closed; what was on its way may get there or not.
Shut(cs, wire) ==
  /\ shut' = shut \cup cs
  /\ toPeer' \in {wire, Emptied(wire, cs)}

\* serveUntilSent returns or throws, and its caller withdraws the service.
Ends(why, wire) ==
  /\ outcome' = why /\ sPhase' = "over" /\ cur' = NoConn /\ queue' = <<>>
  /\ Shut(Conn, wire)

\* framed.close, and back to waiting.
GoesOn(wire) ==
  /\ sPhase' = "accepting" /\ cur' = NoConn /\ Shut({cur}, wire)
  /\ UNCHANGED <<outcome, queue>>

\* The connection did not deliver the file; enough of those end the serving.  One that
\* fails while the last write is awaited is "unflushed".
Fails(wire) ==
  /\ failures' = failures + 1
  /\ fate' = [fate EXCEPT ![cur] = IF sPhase = "ending" THEN "unflushed" ELSE "failed"]
  /\ IF failures + 1 >= MaxFailed THEN Ends("gaveup", wire) ELSE GoesOn(wire)
  /\ UNCHANGED <<written, overdue, cancelled>>

\* mutant: a declined offer counts like a failure
DeclinedAsFailure == Fails(toPeer)
\* The receiver declined: the service waits on, and nothing is counted.
Declined ==
  /\ fate' = [fate EXCEPT ![cur] = "declined"] /\ GoesOn(toPeer)
  /\ UNCHANGED <<written, failures, overdue, cancelled>>

Delivered ==
  /\ fate' = [fate EXCEPT ![cur] = "delivered"] /\ Ends("sent", toPeer)
  /\ UNCHANGED <<written, failures, overdue, cancelled>>

-----------------------------------------------------------------------------
(* The sender: accepting *)

\* A connection that is already there is taken whatever the clock says.
Accept ==
  /\ sPhase = "accepting" /\ ~cancelled /\ queue # <<>>
  /\ cur' = Head(queue) /\ queue' = Tail(queue) /\ sPhase' = "hello" /\ written' = 0
  /\ UNCHANGED <<failures, overdue, cancelled, outcome, fate, toService, toPeer, shut,
                 gone, peerVars>>

\* The deadline covers the wait for a connection.
WhileWaiting == sPhase = "accepting" /\ queue = <<>>

Expires ==
  /\ overdue /\ WhileWaiting /\ Ends("expired", toPeer)
  /\ UNCHANGED <<written, failures, overdue, cancelled, fate, toService, gone, peerVars>>

\* Noticed at the top of the loop, or by an accept that yields null.
CancelNoticed ==
  /\ sPhase = "accepting" /\ cancelled /\ Ends("cancelled", toPeer)
  /\ UNCHANGED <<written, failures, overdue, cancelled, fate, toService, gone, peerVars>>

-----------------------------------------------------------------------------
(* The sender: one connection *)

Reads(f) ==
  /\ cur # NoConn /\ toService[cur] # <<>> /\ Head(toService[cur]) = f
  /\ toService' = [toService EXCEPT ![cur] = Tail(@)]
  /\ UNCHANGED <<gone, peerVars>>
Continues(phase, wire) ==
  /\ sPhase' = phase /\ toPeer' = wire
  /\ UNCHANGED <<cur, written, failures, overdue, cancelled, outcome, fate, queue, shut>>

ReadHello ==
  sPhase = "hello" /\ Reads("hello") /\ Continues("claim", Send(toPeer, cur, "offer"))
ReadClaim ==
  sPhase = "claim" /\ Reads("claim") /\ Continues("answer", Send(toPeer, cur, "confirm"))
ReadReady == sPhase = "answer" /\ Reads("ready") /\ Continues("sending", toPeer)
ReadCancel == sPhase = "answer" /\ Reads("cancel") /\ Declined

\* A claim that does not open, or any frame that is not the one expected.
Expected == [hello |-> {"hello"}, claim |-> {"claim"}, answer |-> {"ready", "cancel"}]
ReadWrong ==
  /\ sPhase \in Handshake
  /\ \E f \in Frame \ Expected[sPhase] : Reads(f) /\ Fails(toPeer)

\* mutant: only the wait for a connection is on a clock
OnlyWhileSending == sPhase = "sending"
\* The handshake is on a clock, and the transfer stops when the stream takes no more.
OnAClock == sPhase \in Handshake \cup {"sending", "ending"}
TimesOut ==
  /\ OnAClock /\ cur \notin Steady
  /\ Fails(IF sPhase \in Handshake THEN toPeer ELSE Send(toPeer, cur, "abort"))
  /\ UNCHANGED <<toService, gone, peerVars>>

StreamOver == cur \in gone /\ toService[cur] = <<>>
\* mutant: a hang-up is a failure also once the last write is through
UntilTheEnd == {"sending", "ending", "hangup"}
\* Where a hang-up fails the transfer: until `flushing` is set.
NotFlushing == {"sending", "ending"}
StreamEnds ==
  /\ sPhase \in Handshake \cup NotFlushing /\ StreamOver /\ Fails(toPeer)
  /\ UNCHANGED <<toService, gone, peerVars>>

WriteChunk ==
  /\ sPhase = "sending" /\ written < Chunks /\ cur \notin gone
  /\ written' = written + 1 /\ toPeer' = Send(toPeer, cur, "chunk")
  /\ UNCHANGED <<sPhase, cur, failures, overdue, cancelled, outcome, fate, queue,
                 toService, shut, gone, peerVars>>
WriteEnd ==
  /\ sPhase = "sending" /\ written = Chunks /\ cur \notin gone
  /\ Continues("ending", Send(toPeer, cur, "end")) /\ UNCHANGED <<toService, gone, peerVars>>
\* The write resolves, though the receiver may have taken the frame, and left, before.
EndWritten ==
  /\ sPhase = "ending" /\ Continues("hangup", toPeer)
  /\ UNCHANGED <<toService, gone, peerVars>>

\* Until the receiver has hung up, or has not within the linger window.
HungUp == sPhase = "hangup" /\ (StreamOver \/ cur \notin Steady)
LingerEnds == HungUp /\ Delivered /\ UNCHANGED <<toService, gone, peerVars>>

\* The user cancels: the service and the client are closed, and a transfer under way
\* fails with a word to the receiver.
Cancel ==
  /\ outcome = "none" /\ ~cancelled /\ cancelled' = TRUE
  /\ gone' = gone \cup {c \in Conn : pState[c] # "idle"} /\ queue' = <<>>
  /\ toService' = Emptied(toService, Conn)
  /\ UNCHANGED <<sPhase, cur, written, failures, overdue, outcome, fate, toPeer, shut,
                 peerVars>>

\* The payload cannot be read as it was chosen: no later receiver would fare better.
SourceFails ==
  /\ sPhase = "sending" /\ Ends("source", Send(toPeer, cur, "abort"))
  /\ fate' = [fate EXCEPT ![cur] = "spoiled"]
  /\ UNCHANGED <<written, failures, overdue, cancelled, toService, gone, peerVars>>

DeadlinePasses ==
  /\ ~overdue /\ overdue' = TRUE
  /\ UNCHANGED <<sPhase, cur, written, failures, cancelled, outcome, fate, streamVars,
                 peerVars>>

-----------------------------------------------------------------------------
(* The peers *)

Quiet == UNCHANGED senderVars

\* Whoever connects says hello; a stranger may leave it at that.
Connect(c) ==
  /\ pState[c] = "idle" /\ outcome = "none" /\ ~cancelled
  /\ queue' = Append(queue, c) /\ pState' = [pState EXCEPT ![c] = "hello"]
  /\ toService' = Send(toService, c, "hello")
  /\ UNCHANGED <<toPeer, shut, gone, got>> /\ Quiet

Takes(c, f) ==
  /\ toPeer[c] # <<>> /\ Head(toPeer[c]) = f
  /\ toPeer' = [toPeer EXCEPT ![c] = Tail(@)]
Becomes(c, p) == pState' = [pState EXCEPT ![c] = p]

ReadOffer(c) ==
  /\ pState[c] = "hello" /\ Takes(c, "offer") /\ Becomes(c, "claimed")
  /\ toService' = Send(toService, c, IF c \in Honest THEN "claim" ELSE "forged")
  /\ UNCHANGED <<queue, shut, gone, got>> /\ Quiet

\* With somewhere to put the file, or a conflict there.
ReadConfirm(c) ==
  /\ pState[c] = "claimed" /\ Takes(c, "confirm")
  /\ \/ Becomes(c, "receiving") /\ toService' = Send(toService, c, "ready")
        /\ UNCHANGED gone
     \/ Becomes(c, "left") /\ toService' = Send(toService, c, "cancel")
        /\ gone' = gone \cup {c}
  /\ UNCHANGED <<queue, shut, got>> /\ Quiet

ReadChunk(c) ==
  /\ pState[c] = "receiving" /\ Takes(c, "chunk") /\ got' = [got EXCEPT ![c] = @ + 1]
  /\ UNCHANGED <<queue, toService, shut, gone, pState>> /\ Quiet

\* The counts agree: the receiver has the file, and hangs up.
ReadEnd(c) ==
  /\ pState[c] = "receiving" /\ Takes(c, "end") /\ got[c] = Chunks
  /\ Becomes(c, "has") /\ gone' = gone \cup {c}
  /\ UNCHANGED <<queue, toService, shut, got>> /\ Quiet

\* The sender stopped, or closed the stream.
LetDown(c) ==
  /\ pState[c] \in {"hello", "claimed", "receiving"}
  /\ \/ Takes(c, "abort")
     \/ c \in shut \cup gone /\ toPeer[c] = <<>> /\ UNCHANGED toPeer
  /\ Becomes(c, "left") /\ gone' = gone \cup {c}
  /\ UNCHANGED <<queue, toService, shut, got>> /\ Quiet

\* The peer leaves, or the circuit breaks with what it carried.
Drops(c) ==
  /\ c \notin Steady /\ c \notin gone /\ pState[c] \notin {"idle", "left", "has"}
  /\ gone' = gone \cup {c} /\ Becomes(c, "left")
  /\ toPeer' = Emptied(toPeer, {c}) /\ toService' \in {toService, Emptied(toService, {c})}
  /\ UNCHANGED <<queue, shut, got>> /\ Quiet

-----------------------------------------------------------------------------
(* Specification *)

SenderStep ==
  \/ Accept \/ Expires \/ CancelNoticed
  \/ ReadHello \/ ReadClaim \/ ReadReady \/ ReadCancel \/ ReadWrong \/ TimesOut
  \/ StreamEnds \/ WriteChunk \/ WriteEnd \/ EndWritten \/ LingerEnds
PeerStep(c) ==
  ReadOffer(c) \/ ReadConfirm(c) \/ ReadChunk(c) \/ ReadEnd(c) \/ LetDown(c)

Next ==
  \/ Accept \/ Expires \/ CancelNoticed
  \/ ReadHello \/ ReadClaim \/ ReadReady \/ ReadCancel \/ ReadWrong \/ TimesOut
  \/ StreamEnds \/ WriteChunk \/ WriteEnd \/ EndWritten \/ LingerEnds
  \/ Cancel \/ SourceFails \/ DeadlinePasses
  \/ \E c \in Conn : Connect(c)
  \/ \E c \in Conn : ReadOffer(c)
  \/ \E c \in Conn : ReadConfirm(c)
  \/ \E c \in Conn : ReadChunk(c)
  \/ \E c \in Conn : ReadEnd(c)
  \/ \E c \in Conn : LetDown(c)
  \/ \E c \in Conn : Drops(c)

Spec == Init /\ [][Next]_vars

\* The sender's timers fire and its promises settle; a steady connection carries its
\* frames to a receiver that reads them.  Nobody has to connect, and no other peer has
\* to do anything at all.
FairSpec ==
  /\ Spec /\ WF_vars(SenderStep) /\ WF_vars(DeadlinePasses)
  /\ \A c \in Steady : WF_vars(PeerStep(c))

-----------------------------------------------------------------------------
(* Properties *)

TypeOK ==
  /\ sPhase \in Handshake \cup {"accepting", "sending", "ending", "hangup", "over"}
  /\ cur \in Conn \cup {NoConn} /\ written \in 0 .. Chunks /\ failures \in Nat
  /\ overdue \in BOOLEAN /\ cancelled \in BOOLEAN
  /\ outcome \in {"none", "sent", "gaveup", "expired", "cancelled", "source"}
  /\ fate \in [Conn -> {"none", "failed", "unflushed", "declined", "delivered", "spoiled"}]
  /\ queue \in Seq(Conn) /\ shut \subseteq Conn /\ gone \subseteq Conn
  /\ toService \in [Conn -> Seq(Frame)] /\ toPeer \in [Conn -> Seq(Frame)]
  /\ pState \in [Conn -> {"idle", "hello", "claimed", "receiving", "has", "left"}]
  /\ got \in [Conn -> Nat]

\* The two sides agree on a file that went over.  A receiver that has it is taken for a
\* failed connection, and the sender waits for it again, only if its hang-up, a stall or
\* a cancel was noticed while the last write was awaited, and never once that write is
\* through (the flushing of sendFileOverLink, over a stream).  And a sender that reports
\* the file sent to a receiver that kept up has not cut it off with its own close
\* (waitForPeerClose).
OutcomesAgree ==
  \A c \in Conn :
    /\ pState[c] = "has" => fate[c] \in {"none", "delivered", "unflushed"}
    /\ c \in Steady /\ fate[c] = "delivered" /\ ~cancelled => pState[c] = "has"

\* A steady receiver that has connected is served, whoever came before it, however many
\* declined and whatever the clock says: as long as fewer connections than the limit
\* fail, it gets the file or declines it, unless somebody else got it, the sender
\* cancels or the payload cannot be read (serveUntilSent's loop).
Turned(c) == \/ fate[c] \in {"delivered", "declined"} \/ \E d \in Conn : pState[d] = "has"
             \/ cancelled \/ outcome \in {"sent", "source"}
SteadyIsServed == \A c \in Steady : pState[c] = "hello" ~> Turned(c)

\* Nobody holds the service: strangers that connect and say nothing more cost a
\* handshake window each, and the serving ends.
ServingEnds == <>(outcome # "none")

===============================================================================
