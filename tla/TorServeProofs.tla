---------------------------- MODULE TorServeProofs ----------------------------
(* What the two sides of a Tor transfer agree on, for any number of         *)
(* connections, of chunks, of strangers and of failures.                    *)
EXTENDS TorServe, TLAPS

(* Frames on their way *)

\* Frame `f` is among those of `s`.
Holds(s, f) == \E i \in 1 .. Len(s) : s[i] = f

LEMMA HoldsNone == \A f : ~Holds(<<>>, f)
BY DEF Holds

LEMMA HoldsSent ==
  ASSUME NEW s \in Seq(Frame), NEW x \in Frame, NEW f, Holds(Append(s, x), f)
  PROVE  Holds(s, f) \/ f = x
<1>1. PICK i \in 1 .. Len(Append(s, x)) : Append(s, x)[i] = f
  BY DEF Holds
<1>2. Len(Append(s, x)) = Len(s) + 1 /\ Len(s) \in Nat
  OBVIOUS
<1>3. CASE i = Len(s) + 1
  BY <1>1, <1>2, <1>3
<1>4. CASE i # Len(s) + 1
  <2>1. i \in 1 .. Len(s)
    BY <1>2, <1>4
  <2> QED
    BY <1>1, <2>1 DEF Holds
<1> QED
  BY <1>3, <1>4

LEMMA HoldsTaken ==
  ASSUME NEW s \in Seq(Frame), s # <<>>, NEW f, Holds(Tail(s), f)
  PROVE  Holds(s, f)
<1>1. PICK i \in 1 .. Len(Tail(s)) : Tail(s)[i] = f
  BY DEF Holds
<1>2. Len(Tail(s)) = Len(s) - 1 /\ Len(s) \in Nat
  OBVIOUS
<1>3. i + 1 \in 1 .. Len(s) /\ s[i + 1] = f
  BY <1>1, <1>2
<1> QED
  BY <1>3 DEF Holds

LEMMA HoldsHead ==
  ASSUME NEW s \in Seq(Frame), s # <<>>
  PROVE  Head(s) \in Frame /\ Holds(s, Head(s)) /\ Tail(s) \in Seq(Frame)
<1>1. 1 \in 1 .. Len(s) /\ s[1] = Head(s)
  OBVIOUS
<1> QED
  BY <1>1 DEF Holds

-----------------------------------------------------------------------------
(* The inductive invariant *)

\* A connection is served once: what waits in the queue, or is being served, has not
\* been served before, and waits in no other place.
Places ==
  /\ cur = NoConn <=> sPhase \in {"accepting", "over"}
  /\ sPhase = "over" => queue = <<>> /\ outcome # "none"
  /\ cur # NoConn => fate[cur] = "none" /\ pState[cur] # "idle"
  /\ \A i \in 1 .. Len(queue) :
       queue[i] # cur /\ fate[queue[i]] = "none" /\ pState[queue[i]] # "idle"
  /\ \A i, j \in 1 .. Len(queue) : queue[i] = queue[j] => i = j
  /\ \A c \in Conn :
       pState[c] = "idle" => toService[c] = <<>> /\ toPeer[c] = <<>> /\ fate[c] = "none"
  /\ \A c \in Conn : c \in shut => fate[c] # "none" \/ sPhase = "over"

\* `end` is out, or has been read, only where the sender waits for its write or for the
\* hang-up, has reported the file sent, or has failed while that write was awaited.
Ended(c) == fate[c] \in {"delivered", "unflushed"}
EndIsOut == \A c \in Conn : Holds(toPeer[c], "end") \/ pState[c] = "has"
                            => (sPhase \in {"ending", "hangup"} /\ cur = c) \/ Ended(c)

AbortIsLast == \A c \in Conn : Holds(toPeer[c], "abort") => fate[c] # "none"

\* A steady connection that waits has said hello, and one that is served is in step
\* with the sender.
Waits(c) == pState[c] = "hello" /\ toService[c] = <<"hello">> /\ toPeer[c] = <<>>
InStep(c) ==
  /\ sPhase = "hello" => Waits(c)
  /\ sPhase = "claim" =>
       \/ pState[c] = "hello" /\ toService[c] = <<>> /\ toPeer[c] = <<"offer">>
       \/ pState[c] = "claimed" /\ toService[c] = <<"claim">> /\ toPeer[c] = <<>>
  /\ sPhase = "answer" =>
       \/ pState[c] = "claimed" /\ toService[c] = <<>> /\ toPeer[c] = <<"confirm">>
       \/ pState[c] = "receiving" /\ toService[c] = <<"ready">> /\ toPeer[c] = <<>>
       \/ pState[c] = "left" /\ toService[c] = <<"cancel">>
  /\ sPhase \in {"sending", "ending", "hangup"} =>
       toService[c] = <<>> /\ pState[c] \in {"receiving", "has"}

SteadyKept ==
  \A c \in Steady :
    /\ c \in gone => pState[c] \in {"has", "left"}
    /\ \A i \in 1 .. Len(queue) : queue[i] = c => Waits(c)
    /\ cur = c => InStep(c)
    /\ fate[c] = "delivered" => pState[c] = "has"

SInv == TypeOK /\ Places /\ EndIsOut /\ AbortIsLast /\ (~cancelled => SteadyKept)

USE TorServeAssumption

-----------------------------------------------------------------------------
(* Types *)

LEMMA SendType ==
  ASSUME NEW w \in [Conn -> Seq(Frame)], NEW c \in Conn, NEW f \in Frame
  PROVE  Send(w, c, f) \in [Conn -> Seq(Frame)]
<1>1. Append(w[c], f) \in Seq(Frame)
  OBVIOUS
<1> QED
  BY <1>1 DEF Send

LEMMA EmptiedType ==
  ASSUME NEW w \in [Conn -> Seq(Frame)], NEW cs
  PROVE  Emptied(w, cs) \in [Conn -> Seq(Frame)]
<1>1. <<>> \in Seq(Frame)
  OBVIOUS
<1> QED
  BY <1>1 DEF Emptied

LEMMA ShutType ==
  ASSUME NEW w \in [Conn -> Seq(Frame)], NEW cs \in SUBSET Conn, shut \subseteq Conn,
         Shut(cs, w)
  PROVE  toPeer' \in [Conn -> Seq(Frame)] /\ shut' \subseteq Conn
BY EmptiedType DEF Shut

\* How the serving of a connection, or of all, ends.
LEMMA EndsType ==
  ASSUME TypeOK, NEW w \in [Conn -> Seq(Frame)], NEW why \in {"sent", "gaveup", "expired", "cancelled", "source"},
         Ends(why, w)
  PROVE  /\ toPeer' \in [Conn -> Seq(Frame)] /\ shut' \subseteq Conn
         /\ outcome' = why /\ sPhase' = "over" /\ cur' = NoConn /\ queue' = <<>>
BY ShutType DEF Ends, TypeOK

LEMMA GoesOnType ==
  ASSUME TypeOK, NEW w \in [Conn -> Seq(Frame)], cur \in Conn, GoesOn(w)
  PROVE  /\ toPeer' \in [Conn -> Seq(Frame)] /\ shut' \subseteq Conn
         /\ outcome' = outcome /\ sPhase' = "accepting" /\ cur' = NoConn
         /\ queue' = queue
BY ShutType DEF GoesOn, TypeOK

LEMMA FailsType ==
  ASSUME TypeOK, NEW w \in [Conn -> Seq(Frame)], cur \in Conn, Fails(w),
         toService' \in [Conn -> Seq(Frame)], UNCHANGED <<gone, peerVars>>
  PROVE  TypeOK'
<1>0. failures' \in Nat /\ fate' \in [Conn -> {"none", "failed", "unflushed", "declined", "delivered", "spoiled"}]
  BY DEF Fails, TypeOK
<1>1. CASE Ends("gaveup", w)
  <2>1. /\ toPeer' \in [Conn -> Seq(Frame)] /\ shut' \subseteq Conn
        /\ outcome' = "gaveup" /\ sPhase' = "over" /\ cur' = NoConn /\ queue' = <<>>
    BY <1>1, EndsType
  <2> QED
    BY <1>0, <2>1 DEF Fails, TypeOK, peerVars
<1>2. CASE GoesOn(w)
  <2>1. /\ toPeer' \in [Conn -> Seq(Frame)] /\ shut' \subseteq Conn
        /\ outcome' = outcome /\ sPhase' = "accepting" /\ cur' = NoConn
        /\ queue' = queue
    BY <1>2, GoesOnType
  <2> QED
    BY <1>0, <2>1 DEF Fails, TypeOK, peerVars
<1> QED
  BY <1>1, <1>2 DEF Fails

LEMMA ReadsType ==
  ASSUME TypeOK, NEW f, Reads(f)
  PROVE  /\ toService' \in [Conn -> Seq(Frame)] /\ cur \in Conn /\ f \in Frame
         /\ UNCHANGED <<gone, peerVars>>
<1>1. cur \in Conn /\ toService[cur] \in Seq(Frame) /\ toService[cur] # <<>>
  BY DEF Reads, TypeOK
<1>2. Tail(toService[cur]) \in Seq(Frame) /\ Head(toService[cur]) \in Frame
  BY <1>1, HoldsHead
<1> QED
  BY <1>1, <1>2 DEF Reads, TypeOK

LEMMA ContinuesType ==
  ASSUME TypeOK, NEW w \in [Conn -> Seq(Frame)], NEW p \in Handshake \cup {"sending", "ending", "hangup"},
         Continues(p, w), toService' \in [Conn -> Seq(Frame)], UNCHANGED <<gone, peerVars>>
  PROVE  TypeOK'
BY DEF Continues, TypeOK, peerVars

LEMMA FramesNamed ==
  {"hello", "offer", "claim", "forged", "confirm", "ready", "cancel", "chunk", "end", "abort"}
    \subseteq Frame
BY DEF Frame

LEMMA SenderType ==
  ASSUME TypeOK, Places,
         \/ Accept \/ Expires \/ CancelNoticed
         \/ ReadHello \/ ReadClaim \/ ReadReady \/ ReadCancel \/ ReadWrong \/ TimesOut
         \/ StreamEnds \/ WriteChunk \/ WriteEnd \/ EndWritten \/ LingerEnds
         \/ Cancel \/ SourceFails \/ DeadlinePasses
  PROVE  TypeOK'
<1> USE FramesNamed
<1>0. toPeer \in [Conn -> Seq(Frame)] /\ toService \in [Conn -> Seq(Frame)]
  BY DEF TypeOK
<1>a. sPhase \in Handshake \cup {"sending", "ending", "hangup"} => cur \in Conn
  BY DEF TypeOK, Places, Handshake
<1>1. ASSUME Accept PROVE TypeOK'
  <2>1. Head(queue) \in Conn /\ Tail(queue) \in Seq(Conn)
    BY <1>1 DEF Accept, TypeOK
  <2> QED
    BY <1>1, <2>1 DEF Accept, TypeOK, peerVars, Handshake
<1>2. ASSUME Expires PROVE TypeOK'
  <2>e. /\ toPeer' \in [Conn -> Seq(Frame)] /\ shut' \subseteq Conn
        /\ outcome' = "expired" /\ sPhase' = "over" /\ cur' = NoConn /\ queue' = <<>>
    BY <1>2, <1>0, EndsType DEF Expires
  <2> QED
    BY <1>2, <2>e DEF Expires, TypeOK, peerVars
<1>3. ASSUME CancelNoticed PROVE TypeOK'
  <2>e. /\ toPeer' \in [Conn -> Seq(Frame)] /\ shut' \subseteq Conn
        /\ outcome' = "cancelled" /\ sPhase' = "over" /\ cur' = NoConn /\ queue' = <<>>
    BY <1>3, <1>0, EndsType DEF CancelNoticed
  <2> QED
    BY <1>3, <2>e DEF CancelNoticed, TypeOK, peerVars
<1>4. ASSUME ReadHello PROVE TypeOK'
  BY <1>4, <1>0, ReadsType, SendType, ContinuesType DEF ReadHello, Handshake
<1>5. ASSUME ReadClaim PROVE TypeOK'
  BY <1>5, <1>0, ReadsType, SendType, ContinuesType DEF ReadClaim, Handshake
<1>6. ASSUME ReadReady PROVE TypeOK'
  BY <1>6, <1>0, ReadsType, ContinuesType DEF ReadReady, Handshake
<1>7. ASSUME ReadCancel PROVE TypeOK'
  BY <1>7, <1>0, ReadsType, GoesOnType DEF ReadCancel, Declined, TypeOK, peerVars
<1>8. ASSUME ReadWrong PROVE TypeOK'
  BY <1>8, <1>0, ReadsType, FailsType DEF ReadWrong
<1>9. ASSUME TimesOut PROVE TypeOK'
  <2>1. cur \in Conn
    BY <1>9, <1>a DEF TimesOut, OnAClock
  <2>2. Send(toPeer, cur, "abort") \in [Conn -> Seq(Frame)]
    BY <2>1, <1>0, SendType
  <2>3. toService' \in [Conn -> Seq(Frame)] /\ UNCHANGED <<gone, peerVars>>
    BY <1>9, <1>0 DEF TimesOut
  <2>4. CASE Fails(toPeer)
    BY <2>1, <2>3, <2>4, <1>0, FailsType
  <2>5. CASE Fails(Send(toPeer, cur, "abort"))
    BY <2>1, <2>2, <2>3, <2>5, FailsType
  <2> QED
    BY <1>9, <2>4, <2>5 DEF TimesOut
<1>10. ASSUME StreamEnds PROVE TypeOK'
  <2>1. cur \in Conn
    BY <1>10, <1>a DEF StreamEnds, NotFlushing
  <2>2. toService' \in [Conn -> Seq(Frame)] /\ UNCHANGED <<gone, peerVars>>
    BY <1>10, <1>0 DEF StreamEnds
  <2> QED
    BY <1>10, <2>1, <2>2, <1>0, FailsType DEF StreamEnds
<1>11. ASSUME WriteChunk PROVE TypeOK'
  <2>1. cur \in Conn
    BY <1>11, <1>a DEF WriteChunk
  <2>2. Send(toPeer, cur, "chunk") \in [Conn -> Seq(Frame)]
    BY <2>1, <1>0, SendType
  <2>3. written' \in 0 .. Chunks
    BY <1>11 DEF WriteChunk, TypeOK
  <2> QED
    BY <1>11, <2>2, <2>3 DEF WriteChunk, TypeOK, peerVars
<1>12. ASSUME WriteEnd PROVE TypeOK'
  <2>1. cur \in Conn
    BY <1>12, <1>a DEF WriteEnd
  <2>2. Send(toPeer, cur, "end") \in [Conn -> Seq(Frame)]
    BY <2>1, <1>0, SendType
  <2>3. toService' \in [Conn -> Seq(Frame)] /\ UNCHANGED <<gone, peerVars>>
    BY <1>12, <1>0 DEF WriteEnd
  <2> QED
    BY <1>12, <2>2, <2>3, ContinuesType DEF WriteEnd
<1>e. ASSUME EndWritten PROVE TypeOK'
  BY <1>e, <1>0, ContinuesType DEF EndWritten
<1>13. ASSUME LingerEnds PROVE TypeOK'
  <2>1. cur \in Conn
    BY <1>13, <1>a DEF LingerEnds, HungUp
  <2>e. /\ toPeer' \in [Conn -> Seq(Frame)] /\ shut' \subseteq Conn
        /\ outcome' = "sent" /\ sPhase' = "over" /\ cur' = NoConn /\ queue' = <<>>
    BY <1>13, <1>0, EndsType DEF LingerEnds, Delivered
  <2>f. fate' \in [Conn -> {"none", "failed", "unflushed", "declined", "delivered", "spoiled"}]
    BY <1>13, <2>1 DEF LingerEnds, Delivered, TypeOK
  <2> QED
    <3>1. UNCHANGED <<written, failures, overdue, cancelled, toService, gone, pState, got>>
      BY <1>13 DEF LingerEnds, Delivered, peerVars
    <3> QED
      BY <2>e, <2>f, <3>1 DEF TypeOK
<1>14. ASSUME Cancel PROVE TypeOK'
  <2>1. toService' \in [Conn -> Seq(Frame)]
    BY <1>14, <1>0, EmptiedType DEF Cancel
  <2>2. gone' \subseteq Conn /\ queue' \in Seq(Conn) /\ cancelled' \in BOOLEAN
    BY <1>14 DEF Cancel, TypeOK
  <2> QED
    BY <1>14, <2>1, <2>2 DEF Cancel, TypeOK, peerVars
<1>15. ASSUME SourceFails PROVE TypeOK'
  <2>1. cur \in Conn
    BY <1>15, <1>a DEF SourceFails
  <2>2. Send(toPeer, cur, "abort") \in [Conn -> Seq(Frame)]
    BY <2>1, <1>0, SendType
  <2>e. /\ toPeer' \in [Conn -> Seq(Frame)] /\ shut' \subseteq Conn
        /\ outcome' = "source" /\ sPhase' = "over" /\ cur' = NoConn /\ queue' = <<>>
    BY <1>15, <2>2, EndsType DEF SourceFails
  <2>f. fate' \in [Conn -> {"none", "failed", "unflushed", "declined", "delivered", "spoiled"}]
    BY <1>15, <2>1 DEF SourceFails, TypeOK
  <2> QED
    BY <1>15, <2>e, <2>f DEF SourceFails, TypeOK, peerVars
<1>16. ASSUME DeadlinePasses PROVE TypeOK'
  BY <1>16 DEF DeadlinePasses, TypeOK, streamVars, peerVars
<1> QED
  BY <1>1, <1>2, <1>3, <1>4, <1>5, <1>6, <1>7, <1>8, <1>9, <1>10, <1>11, <1>12, <1>e,
     <1>13, <1>14, <1>15, <1>16

LEMMA TakesType ==
  ASSUME TypeOK, NEW c \in Conn, NEW f, Takes(c, f)
  PROVE  toPeer' \in [Conn -> Seq(Frame)]
<1>1. toPeer[c] \in Seq(Frame) /\ toPeer[c] # <<>>
  BY DEF Takes, TypeOK
<1>2. Tail(toPeer[c]) \in Seq(Frame)
  BY <1>1, HoldsHead
<1> QED
  BY <1>2 DEF Takes, TypeOK

LEMMA PeerType ==
  ASSUME TypeOK, NEW c \in Conn,
         \/ Connect(c) \/ ReadOffer(c) \/ ReadConfirm(c) \/ ReadChunk(c) \/ ReadEnd(c)
         \/ LetDown(c) \/ Drops(c)
  PROVE  TypeOK'
<1> USE FramesNamed DEF Quiet, senderVars
<1>0. toPeer \in [Conn -> Seq(Frame)] /\ toService \in [Conn -> Seq(Frame)]
  BY DEF TypeOK
<1>1. ASSUME Connect(c) PROVE TypeOK'
  <2>1. Append(queue, c) \in Seq(Conn)
    BY DEF TypeOK
  <2>2. Send(toService, c, "hello") \in [Conn -> Seq(Frame)]
    BY <1>0, SendType
  <2> QED
    BY <1>1, <2>1, <2>2 DEF Connect, TypeOK
<1>2. ASSUME ReadOffer(c) PROVE TypeOK'
  <2>1. \A f \in Frame : Send(toService, c, f) \in [Conn -> Seq(Frame)]
    BY <1>0, SendType
  <2>2. toPeer' \in [Conn -> Seq(Frame)]
    BY <1>2, TakesType DEF ReadOffer
  <2> QED
    BY <1>2, <2>1, <2>2 DEF ReadOffer, Becomes, TypeOK
<1>3. ASSUME ReadConfirm(c) PROVE TypeOK'
  <2>1. \A f \in Frame : Send(toService, c, f) \in [Conn -> Seq(Frame)]
    BY <1>0, SendType
  <2>2. toPeer' \in [Conn -> Seq(Frame)]
    BY <1>3, TakesType DEF ReadConfirm
  <2> QED
    <3>1. toService' \in [Conn -> Seq(Frame)]
      BY <1>3, <2>1 DEF ReadConfirm
    <3>2. pState' \in [Conn -> {"idle", "hello", "claimed", "receiving", "has", "left"}]
      BY <1>3 DEF ReadConfirm, Becomes, TypeOK
    <3>3. gone' \subseteq Conn /\ UNCHANGED <<queue, shut, got, senderVars>>
      BY <1>3 DEF ReadConfirm, TypeOK
    <3> QED
      BY <2>2, <3>1, <3>2, <3>3 DEF TypeOK
<1>4. ASSUME ReadChunk(c) PROVE TypeOK'
  <2>2. toPeer' \in [Conn -> Seq(Frame)]
    BY <1>4, TakesType DEF ReadChunk
  <2> QED
    <3>1. got' \in [Conn -> Nat]
      BY <1>4 DEF ReadChunk, TypeOK
    <3>2. UNCHANGED <<queue, toService, shut, gone, pState, senderVars>>
      BY <1>4 DEF ReadChunk
    <3> QED
      BY <2>2, <3>1, <3>2 DEF TypeOK
<1>5. ASSUME ReadEnd(c) PROVE TypeOK'
  <2>2. toPeer' \in [Conn -> Seq(Frame)]
    BY <1>5, TakesType DEF ReadEnd
  <2> QED
    BY <1>5, <2>2 DEF ReadEnd, Becomes, TypeOK
<1>6. ASSUME LetDown(c) PROVE TypeOK'
  <2>2. toPeer' \in [Conn -> Seq(Frame)]
    BY <1>6, <1>0, TakesType DEF LetDown
  <2> QED
    <3>1. pState' \in [Conn -> {"idle", "hello", "claimed", "receiving", "has", "left"}]
      BY <1>6 DEF LetDown, Becomes, TypeOK
    <3>2. gone' \subseteq Conn /\ UNCHANGED <<queue, toService, shut, got, senderVars>>
      BY <1>6 DEF LetDown, TypeOK
    <3> QED
      BY <2>2, <3>1, <3>2 DEF TypeOK
<1>7. ASSUME Drops(c) PROVE TypeOK'
  <2>1. toService' \in [Conn -> Seq(Frame)] /\ toPeer' \in [Conn -> Seq(Frame)]
    <3>1. /\ Emptied(toService, {c}) \in [Conn -> Seq(Frame)]
          /\ Emptied(toPeer, {c}) \in [Conn -> Seq(Frame)]
      BY <1>0, EmptiedType
    <3> QED
      BY <1>7, <1>0, <3>1 DEF Drops
  <2>2. gone' \subseteq Conn
        /\ pState' \in [Conn -> {"idle", "hello", "claimed", "receiving", "has", "left"}]
    BY <1>7 DEF Drops, Becomes, TypeOK
  <2> QED
    BY <1>7, <2>1, <2>2 DEF Drops, TypeOK
<1> QED
  BY <1>1, <1>2, <1>3, <1>4, <1>5, <1>6, <1>7

-----------------------------------------------------------------------------
(* What a step of the sender does *)

\* The connection is let go of: `why` is what becomes of it, "none" when there is none.
\* What was on its way to a peer may be cut off, and the word "abort" may come last.
Leaving(why) ==
  /\ cur' = NoConn
  /\ \/ /\ sPhase' = "accepting" /\ queue' = queue /\ cur # NoConn /\ shut' = shut \cup {cur}
     \/ sPhase' = "over" /\ queue' = <<>> /\ outcome' # "none"
  /\ \A c \in Conn : fate'[c] = IF c = cur THEN why ELSE fate[c]
  /\ \A c \in Conn :
       \/ toPeer'[c] = toPeer[c] \/ toPeer'[c] = <<>>
       \/ c = cur /\ toPeer'[c] = Append(toPeer[c], "abort") /\ c \notin Steady
       \/ c = cur /\ toPeer'[c] = Append(toPeer[c], "abort") /\ sPhase' = "over"
  /\ \A c \in Conn : c # cur => toService'[c] = toService[c]
  /\ UNCHANGED <<pState, gone, cancelled>>

\* A wire as it was, but for one frame to the connection that is served.
Abort(w) == w = toPeer \/ w = Send(toPeer, cur, "abort")
\* The same, where only a connection that is not steady is told so.
Warned(w) == w = toPeer \/ (w = Send(toPeer, cur, "abort") /\ cur \notin Steady)

LEMMA SentOne ==
  ASSUME NEW w \in [Conn -> Seq(Frame)], NEW c \in Conn, NEW f
  PROVE  \A d \in Conn : Send(w, c, f)[d] = IF d = c THEN Append(w[c], f) ELSE w[d]
BY DEF Send

LEMMA EndsLeaves ==
  ASSUME TypeOK, NEW w \in [Conn -> Seq(Frame)], Abort(w), cur \in Conn \/ w = toPeer,
         NEW why \in {"sent", "gaveup", "expired", "cancelled", "source"}, Ends(why, w),
         NEW f, \A c \in Conn : fate'[c] = IF c = cur THEN f ELSE fate[c],
         \A c \in Conn : c # cur => toService'[c] = toService[c],
         UNCHANGED <<pState, gone, cancelled>>
  PROVE  Leaving(f)
<1>1. \A c \in Conn : toPeer'[c] = w[c] \/ toPeer'[c] = <<>>
  BY DEF Ends, Shut, Emptied
<1>2. \A c \in Conn : w[c] = toPeer[c] \/ (c = cur /\ w[c] = Append(toPeer[c], "abort"))
  <2>1. toPeer \in [Conn -> Seq(Frame)]
    BY DEF TypeOK
  <2>2. CASE w = toPeer
    BY <2>1, <2>2
  <2>3. CASE w = Send(toPeer, cur, "abort") /\ cur \in Conn
    <3>1. \A d \in Conn : Send(toPeer, cur, "abort")[d]
                           = IF d = cur THEN Append(toPeer[cur], "abort") ELSE toPeer[d]
      BY <2>1, <2>3, SentOne
    <3> QED
      BY <2>3, <3>1
  <2> QED
    BY <2>2, <2>3 DEF Abort
<1> QED
  BY <1>1, <1>2 DEF Leaving, Ends

LEMMA GoesOnLeaves ==
  ASSUME TypeOK, NEW w \in [Conn -> Seq(Frame)], cur \in Conn,
         Warned(w), GoesOn(w),
         NEW f, \A c \in Conn : fate'[c] = IF c = cur THEN f ELSE fate[c],
         \A c \in Conn : c # cur => toService'[c] = toService[c],
         UNCHANGED <<pState, gone, cancelled>>
  PROVE  Leaving(f)
<1>1. \A c \in Conn : toPeer'[c] = w[c] \/ toPeer'[c] = <<>>
  BY DEF GoesOn, Shut, Emptied, TypeOK
<1>2. \A c \in Conn : w[c] = toPeer[c]
                      \/ (c = cur /\ w[c] = Append(toPeer[c], "abort") /\ c \notin Steady)
  <2>1. toPeer \in [Conn -> Seq(Frame)]
    BY DEF TypeOK
  <2>2. CASE w = toPeer
    BY <2>1, <2>2
  <2>3. CASE w = Send(toPeer, cur, "abort") /\ cur \notin Steady
    <3>1. \A d \in Conn : Send(toPeer, cur, "abort")[d]
                           = IF d = cur THEN Append(toPeer[cur], "abort") ELSE toPeer[d]
      BY <2>1, <2>3, SentOne
    <3> QED
      BY <2>3, <3>1
  <2> QED
    BY <2>2, <2>3 DEF Warned
<1> QED
  BY <1>1, <1>2 DEF Leaving, GoesOn, Shut

\* A connection that failed, before the last write or while it was awaited.
Lost == /\ cur \in Conn
        /\ \/ sPhase \in Handshake \cup {"sending"} /\ Leaving("failed")
           \/ sPhase = "ending" /\ Leaving("unflushed")

LEMMA FailsLeaves ==
  ASSUME TypeOK, NEW w \in [Conn -> Seq(Frame)], cur \in Conn,
         sPhase \in Handshake \cup {"sending", "ending"}, Warned(w), Fails(w),
         \A c \in Conn : c # cur => toService'[c] = toService[c],
         UNCHANGED <<pState, gone>>
  PROVE  Lost
<1> DEFINE why == IF sPhase = "ending" THEN "unflushed" ELSE "failed"
<1>1. \A c \in Conn : fate'[c] = IF c = cur THEN why ELSE fate[c]
  BY DEF Fails, TypeOK
<1>2. cancelled' = cancelled
  BY DEF Fails
<1>3. Abort(w)
  BY DEF Abort, Warned
<1>4. Leaving(why)
  <2> HIDE DEF why
  <2> QED
    BY <1>1, <1>2, <1>3, EndsLeaves, GoesOnLeaves DEF Fails
<1> QED
  BY <1>4 DEF Lost

\* Every way in which the sender lets go of a connection, and what becomes of it.
LEMMA WaysToLeave ==
  ASSUME TypeOK, Places,
         Expires \/ CancelNoticed \/ ReadCancel \/ ReadWrong \/ TimesOut \/ StreamEnds
           \/ LingerEnds \/ SourceFails
  PROVE  \/ cur = NoConn /\ Leaving("none")
         \/ Lost
         \/ cur \in Conn /\ sPhase = "answer" /\ Leaving("declined")
         \/ cur \in Conn /\ sPhase = "sending" /\ Leaving("spoiled")
         \/ cur \in Conn /\ HungUp /\ Leaving("delivered") /\ toService' = toService
<1>0. /\ toPeer \in [Conn -> Seq(Frame)] /\ toService \in [Conn -> Seq(Frame)]
      /\ fate \in [Conn -> {"none", "failed", "unflushed", "declined", "delivered", "spoiled"}]
  BY DEF TypeOK
<1>a. sPhase \in Handshake \cup {"sending", "ending", "hangup"} => cur \in Conn
  BY DEF TypeOK, Places, Handshake
<1>b. cur \in Conn => Send(toPeer, cur, "abort") \in [Conn -> Seq(Frame)]
  BY <1>0, SendType, FramesNamed
<1>c. /\ Abort(toPeer) /\ Abort(Send(toPeer, cur, "abort")) /\ Warned(toPeer)
      /\ cur \notin Steady => Warned(Send(toPeer, cur, "abort"))
  BY DEF Abort, Warned
<1>1. ASSUME Expires PROVE cur = NoConn /\ Leaving("none")
  <2>1. cur = NoConn /\ NoConn \notin Conn
    BY <1>1 DEF Expires, WhileWaiting, Places
  <2>2. \A c \in Conn : fate'[c] = IF c = cur THEN "none" ELSE fate[c]
    BY <1>1, <2>1 DEF Expires
  <2>3. Ends("expired", toPeer) /\ UNCHANGED <<toService, pState, gone, cancelled>>
    BY <1>1 DEF Expires, peerVars
  <2> QED
    BY <1>0, <1>c, <2>1, <2>2, <2>3, EndsLeaves
<1>2. ASSUME CancelNoticed PROVE cur = NoConn /\ Leaving("none")
  <2>1. cur = NoConn /\ NoConn \notin Conn
    BY <1>2 DEF CancelNoticed, Places
  <2>2. \A c \in Conn : fate'[c] = IF c = cur THEN "none" ELSE fate[c]
    BY <1>2, <2>1 DEF CancelNoticed
  <2>3. Ends("cancelled", toPeer) /\ UNCHANGED <<toService, pState, gone, cancelled>>
    BY <1>2 DEF CancelNoticed, peerVars
  <2> QED
    BY <1>0, <1>c, <2>1, <2>2, <2>3, EndsLeaves
<1>3. ASSUME ReadCancel PROVE cur \in Conn /\ sPhase = "answer" /\ Leaving("declined")
  <2>1. cur \in Conn /\ sPhase = "answer" /\ UNCHANGED <<pState, gone, cancelled>>
    BY <1>3, ReadsType DEF ReadCancel, Declined, peerVars
  <2>2. \A c \in Conn : fate'[c] = IF c = cur THEN "declined" ELSE fate[c]
    BY <1>0, <1>3, <2>1 DEF ReadCancel, Declined
  <2>3. \A c \in Conn : c # cur => toService'[c] = toService[c]
    BY <1>0, <1>3, <2>1 DEF ReadCancel, Reads
  <2>4. GoesOn(toPeer)
    BY <1>3 DEF ReadCancel, Declined
  <2> QED
    BY <1>0, <1>c, <2>1, <2>2, <2>3, <2>4, GoesOnLeaves
<1>4. ASSUME ReadWrong
      PROVE  Lost
  <2>1. /\ cur \in Conn /\ sPhase \in Handshake /\ Fails(toPeer)
        /\ UNCHANGED <<pState, gone>>
    BY <1>4, ReadsType DEF ReadWrong, peerVars
  <2>3. \A c \in Conn : c # cur => toService'[c] = toService[c]
    BY <1>0, <1>4, <2>1 DEF ReadWrong, Reads
  <2> QED
    BY <1>0, <1>c, <2>1, <2>3, FailsLeaves
<1>5. ASSUME TimesOut
      PROVE  Lost
  <2>1. /\ cur \in Conn /\ sPhase \in Handshake \cup {"sending", "ending"}
        /\ cur \notin Steady
        /\ UNCHANGED <<toService, pState, gone>>
    BY <1>5, <1>a DEF TimesOut, OnAClock, peerVars
  <2>2. Fails(toPeer) \/ Fails(Send(toPeer, cur, "abort"))
    BY <1>5 DEF TimesOut
  <2>3. CASE Fails(toPeer)
    BY <1>0, <1>c, <2>1, <2>3, FailsLeaves
  <2>4. CASE Fails(Send(toPeer, cur, "abort"))
    BY <1>0, <1>b, <1>c, <2>1, <2>4, FailsLeaves
  <2> QED
    BY <2>1, <2>2, <2>3, <2>4
<1>6. ASSUME StreamEnds
      PROVE  Lost
  <2>1. /\ cur \in Conn /\ sPhase \in Handshake \cup {"sending", "ending"} /\ Fails(toPeer)
        /\ UNCHANGED <<toService, pState, gone>>
    BY <1>6, <1>a DEF StreamEnds, NotFlushing, peerVars
  <2> QED
    BY <1>0, <1>c, <2>1, FailsLeaves
<1>7. ASSUME LingerEnds
      PROVE  cur \in Conn /\ HungUp /\ Leaving("delivered") /\ toService' = toService
  <2>1. cur \in Conn /\ HungUp /\ UNCHANGED <<toService, pState, gone, cancelled>>
    BY <1>7, <1>a DEF LingerEnds, HungUp, Delivered, peerVars
  <2>2. \A c \in Conn : fate'[c] = IF c = cur THEN "delivered" ELSE fate[c]
    BY <1>0, <1>7, <2>1 DEF LingerEnds, Delivered
  <2>3. Ends("sent", toPeer)
    BY <1>7 DEF LingerEnds, Delivered
  <2> QED
    BY <1>0, <1>c, <2>1, <2>2, <2>3, EndsLeaves
<1>8. ASSUME SourceFails PROVE cur \in Conn /\ sPhase = "sending" /\ Leaving("spoiled")
  <2>1. cur \in Conn /\ sPhase = "sending" /\ UNCHANGED <<toService, pState, gone, cancelled>>
    BY <1>8, <1>a DEF SourceFails, peerVars
  <2>2. \A c \in Conn : fate'[c] = IF c = cur THEN "spoiled" ELSE fate[c]
    BY <1>0, <1>8, <2>1 DEF SourceFails
  <2>3. Ends("source", Send(toPeer, cur, "abort"))
    BY <1>8 DEF SourceFails
  <2> QED
    BY <1>b, <1>c, <2>1, <2>2, <2>3, EndsLeaves
<1> QED
  BY <1>1, <1>2, <1>3, <1>4, <1>5, <1>6, <1>7, <1>8

\* Letting go of a connection keeps the invariant, given why it does.
LEMMA LeavingKeeps ==
  ASSUME SInv, TypeOK', NEW why, Leaving(why),
         cur \in Conn => why # "none",
         sPhase = "hangup" => why = "delivered", sPhase = "ending" => why = "unflushed",
         why = "delivered" => HungUp /\ toService' = toService
  PROVE  SInv'
<1>0. TypeOK /\ Places /\ EndIsOut /\ AbortIsLast
  BY DEF SInv
<1>1. toPeer \in [Conn -> Seq(Frame)] /\ cur \in Conn \cup {NoConn} /\ queue \in Seq(Conn)
  BY <1>0 DEF TypeOK
<1>2. \A c \in Conn : fate'[c] = IF c = cur THEN why ELSE fate[c]
  BY DEF Leaving
<1>3. \A c \in Conn, f \in Frame : f # "abort" /\ Holds(toPeer'[c], f) => Holds(toPeer[c], f)
  <2> SUFFICES ASSUME NEW c \in Conn, NEW f \in Frame, f # "abort", Holds(toPeer'[c], f)
               PROVE  Holds(toPeer[c], f)
    OBVIOUS
  <2>1. toPeer'[c] \in {toPeer[c], <<>>, Append(toPeer[c], "abort")}
    BY DEF Leaving
  <2>2. toPeer[c] \in Seq(Frame)
    BY <1>1
  <2> QED
    BY <2>1, <2>2, HoldsNone, HoldsSent, FramesNamed
<1>4. \A c \in Conn : c # cur /\ Holds(toPeer'[c], "abort") => Holds(toPeer[c], "abort")
  BY HoldsNone DEF Leaving
<1>5. Places'
  <2>1. (cur = NoConn <=> sPhase \in {"accepting", "over"})'
    BY DEF Leaving
  <2>2. (sPhase = "over" => queue = <<>> /\ outcome # "none")'
    BY DEF Leaving
  <2>3. (cur # NoConn => fate[cur] = "none" /\ pState[cur] # "idle")'
    BY DEF Leaving
  <2>4. ASSUME NEW i \in 1 .. Len(queue')
        PROVE  queue'[i] # cur' /\ fate'[queue'[i]] = "none" /\ pState'[queue'[i]] # "idle"
    <3>1. queue' = queue
      BY DEF Leaving
    <3>2. queue[i] \in Conn /\ queue[i] # cur /\ fate[queue[i]] = "none"
          /\ pState[queue[i]] # "idle"
      BY <1>0, <1>1, <2>4, <3>1 DEF Places
    <3> QED
      BY <1>2, <3>1, <3>2 DEF Leaving
  <2>5. ASSUME NEW i \in 1 .. Len(queue'), NEW j \in 1 .. Len(queue'), queue'[i] = queue'[j]
        PROVE  i = j
    <3>1. queue' = queue
      BY DEF Leaving
    <3> QED
      BY <1>0, <2>5, <3>1 DEF Places
  <2>6. ASSUME NEW c \in Conn, pState'[c] = "idle"
        PROVE  toService'[c] = <<>> /\ toPeer'[c] = <<>> /\ fate'[c] = "none"
    <3>1. pState[c] = "idle" /\ c # cur
      BY <1>0, <1>1, <2>6 DEF Leaving, Places
    <3> QED
      BY <1>0, <1>2, <3>1 DEF Leaving, Places
  <2>7. ASSUME NEW c \in Conn, c \in shut' PROVE fate'[c] # "none" \/ sPhase' = "over"
    <3>1. CASE sPhase' = "over"
      BY <3>1
    <3>2. CASE sPhase' = "accepting" /\ cur # NoConn /\ shut' = shut \cup {cur}
      <4>1. sPhase # "over" /\ cur \in Conn
        BY <1>0, <1>1, <3>2 DEF Places
      <4>2. CASE c = cur
        BY <1>2, <4>1, <4>2
      <4>3. CASE c # cur
        BY <1>0, <1>2, <2>7, <3>2, <4>1, <4>3 DEF Places
      <4> QED
        BY <4>2, <4>3
    <3> QED
      BY <3>1, <3>2 DEF Leaving
  <2> QED
    BY <2>1, <2>2, <2>3, <2>4, <2>5, <2>6, <2>7 DEF Places
<1>6. EndIsOut'
  <2> SUFFICES ASSUME NEW c \in Conn, Holds(toPeer'[c], "end") \/ pState'[c] = "has"
               PROVE  fate'[c] \in {"delivered", "unflushed"}
    BY DEF EndIsOut, Ended
  <2>1. Holds(toPeer[c], "end") \/ pState[c] = "has"
    BY <1>3, FramesNamed DEF Leaving
  <2>2. CASE sPhase \in {"ending", "hangup"} /\ cur = c
    BY <1>2, <2>2
  <2>3. CASE Ended(c)
    <3>1. c # cur
      BY <1>0, <2>3 DEF Places, Ended
    <3> QED
      BY <1>2, <2>3, <3>1 DEF Ended
  <2> QED
    BY <1>0, <2>1, <2>2, <2>3 DEF EndIsOut
<1>7. AbortIsLast'
  <2> SUFFICES ASSUME NEW c \in Conn, Holds(toPeer'[c], "abort") PROVE fate'[c] # "none"
    BY DEF AbortIsLast
  <2>1. CASE c = cur
    BY <1>2, <2>1
  <2>2. CASE c # cur
    BY <1>0, <1>2, <1>4, <2>2 DEF AbortIsLast
  <2> QED
    BY <2>1, <2>2
<1>8. ASSUME ~cancelled' PROVE SteadyKept'
  <2>1. SteadyKept
    BY <1>8 DEF SInv, Leaving
  <2> SUFFICES ASSUME NEW c \in Steady
               PROVE  /\ c \in gone' => pState'[c] \in {"has", "left"}
                      /\ \A i \in 1 .. Len(queue') : queue'[i] = c => Waits(c)'
                      /\ cur' = c => InStep(c)'
                      /\ fate'[c] = "delivered" => pState'[c] = "has"
    BY DEF SteadyKept
  <2>2. c \in Conn /\ c # NoConn
    OBVIOUS
  <2>3. c \in gone' => pState'[c] \in {"has", "left"}
    BY <2>1 DEF Leaving, SteadyKept
  <2>4. ASSUME NEW i \in 1 .. Len(queue'), queue'[i] = c PROVE Waits(c)'
    <3>1. queue' = queue
      BY <2>4 DEF Leaving
    <3>2. Waits(c) /\ c # cur
      BY <1>0, <2>1, <2>4, <3>1 DEF SteadyKept, Places
    <3> QED
      BY <2>2, <3>2 DEF Waits, Leaving
  <2>5. ASSUME fate'[c] = "delivered" PROVE pState'[c] = "has"
    <3>1. CASE c # cur
      BY <1>2, <2>1, <2>2, <2>5, <3>1 DEF SteadyKept, Leaving
    <3>2. CASE c = cur
      <4>1. sPhase = "hangup" /\ c \in gone
        BY <1>2, <2>2, <2>5, <3>2 DEF HungUp, StreamOver
      <4>2. pState[c] \in {"has", "left"} /\ InStep(c)
        BY <2>1, <3>2, <4>1 DEF SteadyKept
      <4> QED
        BY <4>1, <4>2 DEF InStep, Leaving
    <3> QED
      BY <3>1, <3>2
  <2> QED
    BY <2>2, <2>3, <2>4, <2>5 DEF Leaving
<1> QED
  BY <1>5, <1>6, <1>7, <1>8 DEF SInv

\* The sender goes on with the connection it serves, and tells it at most one frame.
Talks(f) ==
  /\ cur \in Conn /\ sPhase # "hangup"
  /\ sPhase' \in {"claim", "answer", "sending", "ending", "hangup"}
  /\ sPhase = "ending" => sPhase' = "hangup"
  /\ \A c \in Conn : toPeer'[c] = IF c = cur /\ f # "none" THEN Append(toPeer[c], f)
                                                           ELSE toPeer[c]
  /\ \A c \in Conn : c # cur => toService'[c] = toService[c]
  /\ UNCHANGED <<cur, fate, queue, shut, gone, pState, outcome, cancelled>>

LEMMA TalkingKeeps ==
  ASSUME SInv, TypeOK', NEW f, Talks(f), f = "end" => sPhase' = "ending",
         f \in {"none", "offer", "confirm", "chunk", "end"},
         cur \in Steady /\ ~cancelled => InStep(cur)'
  PROVE  SInv'
<1>0. TypeOK /\ Places /\ EndIsOut /\ AbortIsLast
  BY DEF SInv
<1>1. toPeer \in [Conn -> Seq(Frame)] /\ queue \in Seq(Conn)
  BY <1>0 DEF TypeOK
<1>2. cur \in Conn /\ cur # NoConn
  BY DEF Talks
<1>3. \A c \in Conn, g \in Frame : Holds(toPeer'[c], g) => Holds(toPeer[c], g) \/ (c = cur /\ g = f)
  BY <1>1, HoldsSent, FramesNamed DEF Talks
<1>4. Places'
  <2>1. pState[cur] # "idle"
    BY <1>0, <1>2 DEF Places
  <2>2. sPhase \notin {"accepting", "over"} /\ sPhase' \notin {"accepting", "over"}
    BY <1>0, <1>2 DEF Places, Talks
  <2> QED
    BY <1>0, <1>2, <2>1, <2>2 DEF Places, Talks
<1>5. EndIsOut'
  <2> SUFFICES ASSUME NEW c \in Conn, Holds(toPeer'[c], "end") \/ pState'[c] = "has"
               PROVE  (sPhase' \in {"ending", "hangup"} /\ cur' = c) \/ Ended(c)'
    BY DEF EndIsOut
  <2>1. CASE Holds(toPeer[c], "end") \/ pState[c] = "has"
    BY <1>0, <2>1 DEF EndIsOut, Ended, Talks
  <2>2. CASE c = cur /\ f = "end"
    BY <2>2 DEF Talks
  <2> QED
    BY <1>3, <2>1, <2>2, FramesNamed DEF Talks
<1>6. AbortIsLast'
  BY <1>0, <1>3, FramesNamed DEF AbortIsLast, Talks
<1>7. ASSUME ~cancelled' PROVE SteadyKept'
  <2>1. SteadyKept /\ ~cancelled
    BY <1>7 DEF SInv, Talks
  <2>2. ASSUME NEW c \in Steady, NEW i \in 1 .. Len(queue'), queue'[i] = c PROVE Waits(c)'
    <3>1. c \in Conn /\ c # cur /\ Waits(c)
      BY <1>0, <2>1, <2>2 DEF SteadyKept, Places, Talks
    <3> QED
      BY <3>1 DEF Waits, Talks
  <2>3. ASSUME NEW c \in Steady, cur' = c PROVE InStep(c)'
    BY <2>1, <2>3 DEF Talks
  <2> QED
    BY <2>1, <2>2, <2>3 DEF SteadyKept, Talks
<1> QED
  BY <1>4, <1>5, <1>6, <1>7 DEF SInv

\* A steady connection that is served is in step.
LEMMA Served ==
  ASSUME SInv, cur \in Steady, ~cancelled
  PROVE  InStep(cur) /\ (cur \in gone => pState[cur] \in {"has", "left"})
BY DEF SInv, SteadyKept

LEMMA OneFrame ==
  ASSUME NEW f
  PROVE  /\ <<f>> # <<>> /\ Head(<<f>>) = f /\ Tail(<<f>>) = <<>>
         /\ Append(<<>>, f) = <<f>>
OBVIOUS

LEMMA SenderTalks ==
  ASSUME SInv, TypeOK', ReadHello \/ ReadClaim \/ ReadReady \/ WriteChunk \/ WriteEnd
                         \/ EndWritten
  PROVE  SInv'
<1>0. TypeOK /\ Places /\ toPeer \in [Conn -> Seq(Frame)] /\ toService \in [Conn -> Seq(Frame)]
  BY DEF SInv, TypeOK
<1>a. sPhase \in {"sending", "ending"} => cur \in Conn
  BY <1>0 DEF TypeOK, Places
<1>b. ASSUME NEW g, Reads(g)
      PROVE  /\ cur \in Conn /\ toService[cur] # <<>> /\ Head(toService[cur]) = g
             /\ \A c \in Conn : toService'[c] = IF c = cur THEN Tail(toService[c]) ELSE toService[c]
             /\ UNCHANGED <<gone, pState>>
  BY <1>0, <1>b, ReadsType DEF Reads, peerVars
<1>1. ASSUME ReadHello PROVE SInv'
  <2>1. cur \in Conn /\ sPhase = "hello" /\ sPhase' = "claim"
    BY <1>1, <1>b DEF ReadHello, Continues
  <2>2. \A c \in Conn : toPeer'[c] = IF c = cur THEN Append(toPeer[c], "offer") ELSE toPeer[c]
    <3>1. toPeer' = Send(toPeer, cur, "offer")
      BY <1>1 DEF ReadHello, Continues
    <3>2. \A c \in Conn : Send(toPeer, cur, "offer")[c]
                           = IF c = cur THEN Append(toPeer[cur], "offer") ELSE toPeer[c]
      <4>1. toPeer \in [Conn -> Seq(Frame)] /\ cur \in Conn
        BY <1>0, <2>1
      <4> QED
        BY <4>1, SentOne
    <3> QED
      BY <3>1, <3>2
  <2>3. Talks("offer")
    BY <1>1, <1>b, <2>1, <2>2 DEF ReadHello, Continues, Talks
  <2>4. ASSUME cur \in Steady, ~cancelled PROVE InStep(cur)'
    <3>1. Waits(cur)
      BY <2>1, <2>4, Served DEF InStep
    <3>2. pState'[cur] = "hello" /\ toService'[cur] = <<>> /\ toPeer'[cur] = <<"offer">> /\ cur' = cur
      BY <1>1, <1>b, <2>1, <2>2, <3>1, OneFrame DEF ReadHello, Waits, Continues
    <3> QED
      BY <2>1, <3>2 DEF InStep
  <2> QED
    BY <2>3, <2>4, TalkingKeeps
<1>2. ASSUME ReadClaim PROVE SInv'
  <2>1. cur \in Conn /\ sPhase = "claim" /\ sPhase' = "answer"
    BY <1>2, <1>b DEF ReadClaim, Continues
  <2>2. \A c \in Conn : toPeer'[c] = IF c = cur THEN Append(toPeer[c], "confirm") ELSE toPeer[c]
    <3>1. toPeer' = Send(toPeer, cur, "confirm")
      BY <1>2 DEF ReadClaim, Continues
    <3>2. \A c \in Conn : Send(toPeer, cur, "confirm")[c]
                           = IF c = cur THEN Append(toPeer[cur], "confirm") ELSE toPeer[c]
      <4>1. toPeer \in [Conn -> Seq(Frame)] /\ cur \in Conn
        BY <1>0, <2>1
      <4> QED
        BY <4>1, SentOne
    <3> QED
      BY <3>1, <3>2
  <2>3. Talks("confirm")
    BY <1>2, <1>b, <2>1, <2>2 DEF ReadClaim, Continues, Talks
  <2>4. ASSUME cur \in Steady, ~cancelled PROVE InStep(cur)'
    <3>1. pState[cur] = "claimed" /\ toService[cur] = <<"claim">> /\ toPeer[cur] = <<>>
      BY <1>2, <1>b, <2>1, <2>4, Served DEF InStep, ReadClaim
    <3>2. pState'[cur] = "claimed" /\ toService'[cur] = <<>> /\ toPeer'[cur] = <<"confirm">> /\ cur' = cur
      BY <1>2, <1>b, <2>1, <2>2, <3>1, OneFrame DEF ReadClaim, Continues
    <3> QED
      BY <2>1, <3>2 DEF InStep
  <2> QED
    BY <2>3, <2>4, TalkingKeeps
<1>3. ASSUME ReadReady PROVE SInv'
  <2>1. cur \in Conn /\ sPhase = "answer" /\ sPhase' = "sending" /\ toPeer' = toPeer
    BY <1>3, <1>b DEF ReadReady, Continues
  <2>3. Talks("none")
    BY <1>3, <1>b, <2>1 DEF ReadReady, Continues, Talks
  <2>4. ASSUME cur \in Steady, ~cancelled PROVE InStep(cur)'
    <3>1. toService[cur] # <<>> /\ Head(toService[cur]) = "ready"
      BY <1>3, <1>b DEF ReadReady
    <3>2. pState[cur] = "receiving" /\ toService[cur] = <<"ready">>
      BY <2>1, <2>4, <3>1, Served, OneFrame DEF InStep
    <3>3. pState'[cur] = "receiving" /\ toService'[cur] = <<>> /\ cur' = cur
      BY <1>3, <1>b, <2>1, <3>2, OneFrame DEF ReadReady, Continues
    <3> QED
      BY <2>1, <3>3 DEF InStep
  <2> QED
    BY <2>3, <2>4, TalkingKeeps
<1>4. ASSUME WriteChunk PROVE SInv'
  <2>1. cur \in Conn /\ sPhase = "sending" /\ sPhase' = "sending"
    BY <1>4, <1>a DEF WriteChunk
  <2>2. \A c \in Conn : toPeer'[c] = IF c = cur THEN Append(toPeer[c], "chunk") ELSE toPeer[c]
    <3>1. toPeer' = Send(toPeer, cur, "chunk")
      BY <1>4 DEF WriteChunk
    <3>2. \A c \in Conn : Send(toPeer, cur, "chunk")[c]
                           = IF c = cur THEN Append(toPeer[cur], "chunk") ELSE toPeer[c]
      <4>1. toPeer \in [Conn -> Seq(Frame)] /\ cur \in Conn
        BY <1>0, <2>1
      <4> QED
        BY <4>1, SentOne
    <3> QED
      BY <3>1, <3>2
  <2>3. Talks("chunk")
    BY <1>4, <2>1, <2>2 DEF WriteChunk, Talks, peerVars
  <2>4. ASSUME cur \in Steady, ~cancelled PROVE InStep(cur)'
    BY <1>4, <2>1, <2>4, Served DEF InStep, WriteChunk, peerVars
  <2> QED
    BY <2>3, <2>4, TalkingKeeps
<1>5. ASSUME WriteEnd PROVE SInv'
  <2>1. cur \in Conn /\ sPhase = "sending" /\ sPhase' = "ending"
    BY <1>5, <1>a DEF WriteEnd, Continues
  <2>2. \A c \in Conn : toPeer'[c] = IF c = cur THEN Append(toPeer[c], "end") ELSE toPeer[c]
    <3>1. toPeer' = Send(toPeer, cur, "end")
      BY <1>5 DEF WriteEnd, Continues
    <3>2. \A c \in Conn : Send(toPeer, cur, "end")[c]
                           = IF c = cur THEN Append(toPeer[cur], "end") ELSE toPeer[c]
      <4>1. toPeer \in [Conn -> Seq(Frame)] /\ cur \in Conn
        BY <1>0, <2>1
      <4> QED
        BY <4>1, SentOne
    <3> QED
      BY <3>1, <3>2
  <2>3. Talks("end")
    BY <1>5, <2>1, <2>2 DEF WriteEnd, Talks, peerVars, Continues
  <2>4. ASSUME cur \in Steady, ~cancelled PROVE InStep(cur)'
    BY <1>5, <2>1, <2>4, Served DEF InStep, WriteEnd, peerVars, Continues
  <2> QED
    BY <2>1, <2>3, <2>4, TalkingKeeps
<1>6. ASSUME EndWritten PROVE SInv'
  <2>1. /\ cur \in Conn /\ sPhase = "ending" /\ sPhase' = "hangup"
        /\ UNCHANGED <<toPeer, toService, pState, cur>>
    BY <1>6, <1>a DEF EndWritten, Continues, peerVars
  <2>2. Talks("none")
    BY <1>6, <2>1 DEF EndWritten, Talks, Continues
  <2>3. ASSUME cur \in Steady, ~cancelled PROVE InStep(cur)'
    BY <2>1, <2>3, Served DEF InStep
  <2> QED
    BY <2>2, <2>3, TalkingKeeps
<1> QED
  BY <1>1, <1>2, <1>3, <1>4, <1>5, <1>6

\* Accepting takes the first of the queue; cancelling empties it.
LEMMA AcceptKeeps ==
  ASSUME SInv, TypeOK', Accept
  PROVE  SInv'
<1>0. TypeOK /\ Places /\ EndIsOut /\ AbortIsLast
  BY DEF SInv
<1>1. /\ queue \in Seq(Conn) /\ queue # <<>> /\ cur' = Head(queue) /\ queue' = Tail(queue)
      /\ sPhase = "accepting" /\ sPhase' = "hello"
      /\ UNCHANGED <<outcome, cancelled, fate, toService, toPeer, shut, gone, pState>>
  BY <1>0 DEF Accept, TypeOK, peerVars
<1>2. /\ 1 \in 1 .. Len(queue) /\ cur' = queue[1] /\ cur' \in Conn /\ Len(queue) \in Nat
      /\ Len(queue') = Len(queue) - 1
      /\ \A i \in 1 .. Len(queue') : i + 1 \in 1 .. Len(queue) /\ queue'[i] = queue[i + 1]
  BY <1>1
<1>3. cur' # NoConn /\ fate[cur'] = "none" /\ pState[cur'] # "idle"
  BY <1>0, <1>2 DEF Places
<1>4. Places'
  <2>1. ASSUME NEW i \in 1 .. Len(queue')
        PROVE  queue'[i] # cur' /\ fate'[queue'[i]] = "none" /\ pState'[queue'[i]] # "idle"
    <3>1. i + 1 \in 1 .. Len(queue) /\ queue'[i] = queue[i + 1] /\ i + 1 # 1
      BY <1>2, <2>1
    <3>2. queue[i + 1] # queue[1]
      BY <1>0, <1>2, <3>1 DEF Places
    <3> QED
      BY <1>0, <1>1, <1>2, <3>1, <3>2 DEF Places
  <2>2. ASSUME NEW i \in 1 .. Len(queue'), NEW j \in 1 .. Len(queue'), queue'[i] = queue'[j]
        PROVE  i = j
    <3>1. i + 1 = j + 1
      BY <1>0, <1>2, <2>2 DEF Places
    <3> QED
      BY <3>1
  <2>3. \A c \in Conn : c \in shut' => fate'[c] # "none" \/ sPhase' = "over"
    BY <1>0, <1>1 DEF Places
  <2>4. \A c \in Conn : pState'[c] = "idle" =>
         toService'[c] = <<>> /\ toPeer'[c] = <<>> /\ fate'[c] = "none"
    BY <1>0, <1>1 DEF Places
  <2> QED
    BY <1>1, <1>3, <2>1, <2>2, <2>3, <2>4 DEF Places
<1>5. EndIsOut' /\ AbortIsLast'
  BY <1>0, <1>1 DEF EndIsOut, Ended, AbortIsLast
<1>6. ASSUME ~cancelled' PROVE SteadyKept'
  <2>1. SteadyKept
    BY <1>1, <1>6 DEF SInv
  <2>2. ASSUME NEW c \in Steady, NEW i \in 1 .. Len(queue'), queue'[i] = c PROVE Waits(c)'
    BY <1>1, <1>2, <2>1, <2>2 DEF SteadyKept, Waits
  <2>3. ASSUME NEW c \in Steady, cur' = c PROVE InStep(c)'
    <3>1. Waits(c)
      BY <1>2, <2>1, <2>3 DEF SteadyKept
    <3> QED
      BY <1>1, <3>1 DEF InStep, Waits
  <2> QED
    BY <1>1, <2>1, <2>2, <2>3 DEF SteadyKept
<1> QED
  BY <1>4, <1>5, <1>6 DEF SInv

LEMMA CancelKeeps ==
  ASSUME SInv, TypeOK', Cancel
  PROVE  SInv'
<1>0. TypeOK /\ Places /\ EndIsOut /\ AbortIsLast
  BY DEF SInv
<1>1. /\ queue' = <<>> /\ \A c \in Conn : toService'[c] = <<>>
      /\ cancelled'
      /\ UNCHANGED <<sPhase, cur, outcome, fate, toPeer, shut, pState>>
  BY DEF Cancel, peerVars, Emptied
<1>2. Places'
  BY <1>0, <1>1 DEF Places
<1>3. EndIsOut' /\ AbortIsLast'
  BY <1>0, <1>1 DEF EndIsOut, Ended, AbortIsLast
<1> QED
  BY <1>1, <1>2, <1>3 DEF SInv

LEMMA SenderKeeps ==
  ASSUME SInv, 
         \/ Accept \/ Expires \/ CancelNoticed
         \/ ReadHello \/ ReadClaim \/ ReadReady \/ ReadCancel \/ ReadWrong \/ TimesOut
         \/ StreamEnds \/ WriteChunk \/ WriteEnd \/ EndWritten \/ LingerEnds
         \/ Cancel \/ SourceFails \/ DeadlinePasses
  PROVE  SInv'
<1>0. TypeOK /\ Places
  BY DEF SInv
<1>1. TypeOK'
  BY <1>0, SenderType
<1>2. CASE Accept
  BY <1>1, <1>2, AcceptKeeps
<1>3. CASE Cancel
  BY <1>1, <1>3, CancelKeeps
<1>4. CASE ReadHello \/ ReadClaim \/ ReadReady \/ WriteChunk \/ WriteEnd \/ EndWritten
  BY <1>1, <1>4, SenderTalks
<1>5. CASE Expires \/ CancelNoticed \/ ReadCancel \/ ReadWrong \/ TimesOut \/ StreamEnds
           \/ LingerEnds \/ SourceFails
  <2>1. CASE cur = NoConn /\ Leaving("none")
    <3>1. cur \notin Conn /\ sPhase \notin {"ending", "hangup"}
      BY <1>0, <2>1 DEF Places
    <3> QED
      BY <1>1, <2>1, <3>1, LeavingKeeps
  <2>2. CASE Lost
    <3>1. CASE sPhase = "ending" /\ Leaving("unflushed")
      BY <1>1, <2>2, <3>1, LeavingKeeps DEF Lost
    <3>2. CASE sPhase \in Handshake \cup {"sending"} /\ Leaving("failed")
      <4>1. sPhase \notin {"ending", "hangup"}
        BY <3>2 DEF Handshake
      <4> QED
        BY <1>1, <2>2, <3>2, <4>1, LeavingKeeps DEF Lost
    <3> QED
      BY <2>2, <3>1, <3>2 DEF Lost
  <2>3. CASE cur \in Conn /\ sPhase = "answer" /\ Leaving("declined")
    BY <1>1, <2>3, LeavingKeeps
  <2>4. CASE cur \in Conn /\ sPhase = "sending" /\ Leaving("spoiled")
    BY <1>1, <2>4, LeavingKeeps
  <2>5. CASE cur \in Conn /\ HungUp /\ Leaving("delivered") /\ toService' = toService
    BY <1>1, <2>5, LeavingKeeps DEF HungUp
  <2> QED
    BY <1>0, <1>5, <2>1, <2>2, <2>3, <2>4, <2>5, WaysToLeave
<1>6. CASE DeadlinePasses
  <2>1. UNCHANGED <<sPhase, cur, outcome, fate, toPeer, toService, shut, gone, pState, queue,
                    cancelled>>
    BY <1>6 DEF DeadlinePasses, streamVars, peerVars
  <2> QED
    BY <1>0, <1>1, <2>1 DEF SInv, Places, EndIsOut, Ended, AbortIsLast, SteadyKept, Waits, InStep
<1> QED
  BY <1>2, <1>3, <1>4, <1>5, <1>6

-----------------------------------------------------------------------------
(* What a step of a peer does *)

\* The step of a connection `c` leaves every other connection and the sender alone.
Mine(c) ==
  /\ UNCHANGED <<sPhase, cur, outcome, fate, cancelled, shut>>
  /\ \A d \in Conn : d # c => /\ pState'[d] = pState[d] /\ toPeer'[d] = toPeer[d]
                              /\ toService'[d] = toService[d] /\ (d \in gone' => d \in gone)

\* What is read was on its way, and what is left of it still is.
Reading(c) ==
  \/ toPeer'[c] = toPeer[c] \/ toPeer'[c] = <<>>
  \/ toPeer[c] # <<>> /\ toPeer'[c] = Tail(toPeer[c])

LEMMA ReadingHolds ==
  ASSUME TypeOK, NEW c \in Conn, Reading(c), NEW f, Holds(toPeer'[c], f)
  PROVE  Holds(toPeer[c], f)
<1>1. toPeer[c] \in Seq(Frame)
  BY DEF TypeOK
<1> QED
  BY <1>1, HoldsNone, HoldsTaken DEF Reading

\* Such a step keeps the invariant, given that the connection stays in step.
LEMMA PeerKeeps ==
  ASSUME SInv, TypeOK', NEW c \in Conn, Mine(c), Reading(c),
         pState[c] # "idle", pState'[c] # "idle", queue' = queue,
         pState'[c] = "has" => pState[c] = "has" \/ Holds(toPeer[c], "end"),
         c \in Steady /\ ~cancelled =>
           /\ c \in gone' => pState'[c] \in {"has", "left"}
           /\ ~ \E i \in 1 .. Len(queue) : queue[i] = c
           /\ cur = c => InStep(c)'
           /\ pState[c] = "has" => pState'[c] = "has"
  PROVE  SInv'
<1>0. TypeOK /\ Places /\ EndIsOut /\ AbortIsLast
  BY DEF SInv
<1>1. \A d \in Conn, f \in Frame : Holds(toPeer'[d], f) => Holds(toPeer[d], f)
  BY <1>0, ReadingHolds DEF Mine
<1>2. Places'
  <2>1. \A d \in Conn : pState[d] # "idle" => pState'[d] # "idle"
    BY DEF Mine
  <2>2. \A i \in 1 .. Len(queue) : queue[i] \in Conn
    BY <1>0 DEF TypeOK
  <2>3. ASSUME NEW d \in Conn, pState'[d] = "idle"
        PROVE  toService'[d] = <<>> /\ toPeer'[d] = <<>> /\ fate'[d] = "none"
    BY <1>0, <2>3 DEF Places, Mine
  <2>4. cur # NoConn => pState'[cur] # "idle"
    <3>1. cur \in Conn \cup {NoConn}
      BY <1>0 DEF TypeOK
    <3> QED
      BY <1>0, <2>1, <3>1 DEF Places
  <2>5. \A i \in 1 .. Len(queue') :
           queue'[i] # cur' /\ fate'[queue'[i]] = "none" /\ pState'[queue'[i]] # "idle"
    BY <1>0, <2>1, <2>2 DEF Places, Mine
  <2>6. \A i, j \in 1 .. Len(queue') : queue'[i] = queue'[j] => i = j
    BY <1>0 DEF Places
  <2>7. /\ cur' = NoConn <=> sPhase' \in {"accepting", "over"}
        /\ sPhase' = "over" => queue' = <<>> /\ outcome' # "none"
        /\ cur' # NoConn => fate'[cur'] = "none" /\ pState'[cur'] # "idle"
    BY <1>0, <2>4 DEF Places, Mine
  <2>8. \A d \in Conn : d \in shut' => fate'[d] # "none" \/ sPhase' = "over"
    BY <1>0 DEF Places, Mine
  <2> QED
    BY <2>3, <2>5, <2>6, <2>7, <2>8 DEF Places
<1>3. EndIsOut'
  <2> SUFFICES ASSUME NEW d \in Conn, Holds(toPeer'[d], "end") \/ pState'[d] = "has"
               PROVE  (sPhase' \in {"ending", "hangup"} /\ cur' = d) \/ Ended(d)'
    BY DEF EndIsOut
  <2>1. Holds(toPeer[d], "end") \/ pState[d] = "has"
    BY <1>1, FramesNamed DEF Mine
  <2> QED
    BY <1>0, <2>1 DEF EndIsOut, Ended, Mine
<1>4. AbortIsLast'
  BY <1>0, <1>1, FramesNamed DEF AbortIsLast, Mine
<1>5. ASSUME ~cancelled' PROVE SteadyKept'
  <2>1. SteadyKept /\ ~cancelled
    BY <1>5 DEF SInv, Mine
  <2> SUFFICES ASSUME NEW d \in Steady
               PROVE  /\ d \in gone' => pState'[d] \in {"has", "left"}
                      /\ \A i \in 1 .. Len(queue') : queue'[i] = d => Waits(d)'
                      /\ cur' = d => InStep(d)'
                      /\ fate'[d] = "delivered" => pState'[d] = "has"
    BY DEF SteadyKept
  <2>2. CASE d = c
    BY <2>1, <2>2 DEF SteadyKept, Mine
  <2>3. CASE d # c
    BY <2>1, <2>3 DEF SteadyKept, Mine, InStep, Waits
  <2> QED
    BY <2>2, <2>3
<1> QED
  BY <1>2, <1>3, <1>4, <1>5 DEF SInv

LEMMA ConnectKeeps ==
  ASSUME SInv, TypeOK', NEW c \in Conn, Connect(c)
  PROVE  SInv'
<1>0. TypeOK /\ Places /\ EndIsOut /\ AbortIsLast
  BY DEF SInv
<1>1. /\ pState[c] = "idle" /\ sPhase # "over" /\ queue \in Seq(Conn)
      /\ queue' = Append(queue, c) /\ pState' = [pState EXCEPT ![c] = "hello"]
      /\ UNCHANGED <<sPhase, cur, fate, outcome, toPeer, shut, gone, cancelled>>
  BY <1>0 DEF Connect, Quiet, senderVars, TypeOK, Places
<1>2. /\ toService[c] = <<>> /\ toPeer[c] = <<>>
      /\ \A d \in Conn : toService'[d] = IF d = c THEN <<"hello">> ELSE toService[d]
  <2>1. toService[c] = <<>> /\ toPeer[c] = <<>>
    BY <1>0, <1>1 DEF Places
  <2>2. toService \in [Conn -> Seq(Frame)]
    BY <1>0 DEF TypeOK
  <2>3. \A d \in Conn : Send(toService, c, "hello")[d]
                        = IF d = c THEN Append(toService[c], "hello") ELSE toService[d]
    BY <2>2, SentOne
  <2> QED
    BY <2>1, <2>3, OneFrame DEF Connect
<1>3. pState \in [Conn -> {"idle", "hello", "claimed", "receiving", "has", "left"}]
  BY <1>0 DEF TypeOK
<1>4. /\ Len(queue') = Len(queue) + 1 /\ Len(queue) \in Nat /\ queue'[Len(queue) + 1] = c
      /\ \A i \in 1 .. Len(queue) : queue'[i] = queue[i] /\ queue[i] \in Conn
  BY <1>1
<1>5. /\ c # cur /\ c # NoConn /\ \A i \in 1 .. Len(queue) : queue[i] # c
      /\ fate[c] = "none" /\ c \notin shut
  <2>1. c # cur
    BY <1>0, <1>1 DEF Places
  <2>2. \A i \in 1 .. Len(queue) : queue[i] # c
    BY <1>0, <1>1 DEF Places
  <2> QED
    BY <1>0, <1>1, <2>1, <2>2 DEF Places
<1>6. Places'
  <2>1. ASSUME NEW i \in 1 .. Len(queue')
        PROVE  queue'[i] # cur' /\ fate'[queue'[i]] = "none" /\ pState'[queue'[i]] # "idle"
    <3>1. CASE i = Len(queue) + 1
      BY <1>1, <1>3, <1>4, <1>5, <3>1
    <3>2. CASE i # Len(queue) + 1
      <4>1. i \in 1 .. Len(queue)
        BY <1>4, <2>1, <3>2
      <4>2. queue[i] \in Conn /\ queue[i] # cur /\ fate[queue[i]] = "none"
            /\ pState[queue[i]] # "idle" /\ queue[i] # c
        BY <1>0, <1>4, <1>5, <4>1 DEF Places
      <4> QED
        BY <1>1, <1>3, <1>4, <4>1, <4>2
    <3> QED
      BY <3>1, <3>2
  <2>2. ASSUME NEW i \in 1 .. Len(queue'), NEW j \in 1 .. Len(queue'), queue'[i] = queue'[j]
        PROVE  i = j
    <3>1. CASE i = Len(queue) + 1 \/ j = Len(queue) + 1
      BY <1>4, <1>5, <2>2, <3>1
    <3>2. CASE i # Len(queue) + 1 /\ j # Len(queue) + 1
      <4>1. i \in 1 .. Len(queue) /\ j \in 1 .. Len(queue)
        BY <1>4, <2>2, <3>2
      <4> QED
        BY <1>0, <1>4, <2>2, <4>1 DEF Places
    <3> QED
      BY <3>1, <3>2
  <2>3. \A d \in Conn : d \in shut' => fate'[d] # "none" \/ sPhase' = "over"
    BY <1>0, <1>1 DEF Places
  <2>4. \A d \in Conn : pState'[d] = "idle" =>
          toService'[d] = <<>> /\ toPeer'[d] = <<>> /\ fate'[d] = "none"
    BY <1>0, <1>1, <1>2, <1>3 DEF Places
  <2>5. cur # NoConn => fate[cur] = "none" /\ pState'[cur] # "idle"
    <3>1. cur \in Conn \cup {NoConn}
      BY <1>0 DEF TypeOK
    <3> QED
      BY <1>0, <1>1, <1>3, <3>1 DEF Places
  <2>6. cur = NoConn <=> sPhase \in {"accepting", "over"}
    BY <1>0 DEF Places
  <2> QED
    BY <1>1, <2>1, <2>2, <2>3, <2>4, <2>5, <2>6 DEF Places
<1>7. EndIsOut' /\ AbortIsLast'
  <2>1. \A d \in Conn : pState'[d] = "has" => pState[d] = "has"
    BY <1>1, <1>3
  <2> QED
    BY <1>0, <1>1, <2>1 DEF EndIsOut, Ended, AbortIsLast
<1>8. ASSUME ~cancelled' PROVE SteadyKept'
  <2>1. SteadyKept
    BY <1>1, <1>8 DEF SInv
  <2> SUFFICES ASSUME NEW d \in Steady
               PROVE  /\ d \in gone' => pState'[d] \in {"has", "left"}
                      /\ \A i \in 1 .. Len(queue') : queue'[i] = d => Waits(d)'
                      /\ cur' = d => InStep(d)'
                      /\ fate'[d] = "delivered" => pState'[d] = "has"
    BY DEF SteadyKept
  <2>2. CASE d = c
    <3>1. d \notin gone
      BY <1>1, <2>1, <2>2 DEF SteadyKept
    <3>2. Waits(d)'
      BY <1>1, <1>2, <1>3, <2>2 DEF Waits
    <3> QED
      BY <1>1, <1>5, <2>2, <3>1, <3>2
  <2>3. CASE d # c
    <3>1. /\ d \in Conn /\ pState'[d] = pState[d] /\ toService'[d] = toService[d]
          /\ toPeer'[d] = toPeer[d]
      BY <1>1, <1>2, <1>3, <2>3
    <3>2. ASSUME NEW i \in 1 .. Len(queue'), queue'[i] = d PROVE Waits(d)'
      <4>1. i \in 1 .. Len(queue)
        BY <1>4, <2>3, <3>2
      <4>2. Waits(d)
        BY <1>4, <2>1, <3>2, <4>1 DEF SteadyKept
      <4> QED
        BY <3>1, <4>2 DEF Waits
    <3>3. cur' = d => InStep(d)'
      BY <1>1, <2>1, <3>1 DEF SteadyKept, InStep, Waits
    <3> QED
      BY <1>1, <2>1, <3>1, <3>2, <3>3 DEF SteadyKept
  <2> QED
    BY <2>2, <2>3
<1> QED
  BY <1>6, <1>7, <1>8 DEF SInv

\* Who is past its hello is no longer in the queue, if it holds.
LEMMA NotWaiting ==
  ASSUME SInv, ~cancelled, NEW c \in Steady, ~Waits(c)
  PROVE  ~ \E i \in 1 .. Len(queue) : queue[i] = c
BY DEF SInv, SteadyKept

LEMMA TakesReads ==
  ASSUME TypeOK, NEW c \in Conn, NEW f, Takes(c, f)
  PROVE  /\ toPeer[c] # <<>> /\ Head(toPeer[c]) = f /\ Holds(toPeer[c], f)
         /\ toPeer'[c] = Tail(toPeer[c]) /\ Reading(c)
         /\ \A d \in Conn : d # c => toPeer'[d] = toPeer[d]
<1>1. toPeer \in [Conn -> Seq(Frame)] /\ toPeer[c] \in Seq(Frame)
  BY DEF TypeOK
<1>2. toPeer[c] # <<>> /\ Head(toPeer[c]) = f /\ toPeer' = [toPeer EXCEPT ![c] = Tail(@)]
  BY DEF Takes
<1>3. Holds(toPeer[c], f)
  BY <1>1, <1>2, HoldsHead
<1> QED
  BY <1>1, <1>2, <1>3 DEF Reading

LEMMA PeerTurns ==
  ASSUME SInv, TypeOK', NEW c \in Conn,
         ReadOffer(c) \/ ReadConfirm(c) \/ ReadChunk(c) \/ ReadEnd(c) \/ LetDown(c) \/ Drops(c)
  PROVE  SInv'
<1>0. /\ TypeOK /\ Places /\ EndIsOut /\ AbortIsLast
      /\ toPeer \in [Conn -> Seq(Frame)] /\ toService \in [Conn -> Seq(Frame)]
      /\ pState \in [Conn -> {"idle", "hello", "claimed", "receiving", "has", "left"}]
  BY DEF SInv, TypeOK
<1>a. ASSUME c \in Steady, ~cancelled
      PROVE  /\ c \in gone => pState[c] \in {"has", "left"}
             /\ cur = c => InStep(c)
             /\ fate[c] = "none" \/ cur # c
  BY <1>0, <1>a DEF SInv, SteadyKept, Places
<1>b. toPeer[c] # <<>> /\ c \in Steady /\ ~cancelled
        => ~ \E i \in 1 .. Len(queue) : queue[i] = c
  BY NotWaiting DEF Waits
<1>1. ASSUME ReadOffer(c) PROVE SInv'
  <2>1. /\ pState[c] = "hello" /\ Takes(c, "offer") /\ queue' = queue /\ gone' = gone
        /\ toService' = Send(toService, c, IF c \in Honest THEN "claim" ELSE "forged")
        /\ pState' = [pState EXCEPT ![c] = "claimed"]
        /\ UNCHANGED <<sPhase, cur, outcome, fate, cancelled, shut>>
    BY <1>1 DEF ReadOffer, Becomes, Quiet, senderVars
  <2>2. \A d \in Conn : Send(toService, c, IF c \in Honest THEN "claim" ELSE "forged")[d]
          = IF d = c THEN Append(toService[c], IF c \in Honest THEN "claim" ELSE "forged")
                     ELSE toService[d]
    BY <1>0, SentOne
  <2>3. pState'[c] = "claimed" /\ \A d \in Conn : d # c => pState'[d] = pState[d]
    BY <1>0, <2>1
  <2>4. Mine(c) /\ Reading(c) /\ toPeer[c] # <<>>
    BY <1>0, <2>1, <2>2, <2>3, TakesReads DEF Mine
  <2>5. ASSUME c \in Steady, ~cancelled, cur = c PROVE InStep(c)'
    <3>1. sPhase = "claim" /\ toService[c] = <<>> /\ toPeer[c] = <<"offer">>
      <4>1. InStep(c) /\ sPhase \in Handshake \cup {"sending", "ending", "hangup"}
        BY <1>0, <1>a, <2>5 DEF Places, TypeOK, Handshake
      <4> QED
        BY <4>1, <2>1, <2>4 DEF InStep, Waits, Handshake
    <3>2. toService'[c] = <<"claim">> /\ toPeer'[c] = <<>>
      BY <1>0, <2>1, <2>2, <2>5, <3>1, OneFrame, TakesReads
    <3> QED
      BY <2>1, <2>3, <3>1, <3>2 DEF InStep
  <2> QED
    BY <1>a, <1>b, <2>1, <2>3, <2>4, <2>5, PeerKeeps
<1>2. ASSUME ReadConfirm(c) PROVE SInv'
  <2>1. /\ pState[c] = "claimed" /\ Takes(c, "confirm") /\ queue' = queue
        /\ UNCHANGED <<sPhase, cur, outcome, fate, cancelled, shut>>
    BY <1>2 DEF ReadConfirm, Quiet, senderVars
  <2>2. PICK f \in {"ready", "cancel"} :
          /\ toService' = Send(toService, c, f)
          /\ IF f = "ready" THEN pState' = [pState EXCEPT ![c] = "receiving"] /\ gone' = gone
                            ELSE pState' = [pState EXCEPT ![c] = "left"] /\ gone' = gone \cup {c}
    BY <1>2 DEF ReadConfirm, Becomes
  <2>3. /\ pState'[c] = IF f = "ready" THEN "receiving" ELSE "left"
        /\ \A d \in Conn : d # c => pState'[d] = pState[d]
    BY <1>0, <2>2
  <2>4. \A d \in Conn : toService'[d] = IF d = c THEN Append(toService[c], f) ELSE toService[d]
    <3>1. \A d \in Conn : Send(toService, c, f)[d]
                            = IF d = c THEN Append(toService[c], f) ELSE toService[d]
      BY <1>0, SentOne
    <3> QED
      BY <2>2, <3>1
  <2>5. Mine(c) /\ Reading(c) /\ toPeer[c] # <<>>
    BY <1>0, <2>1, <2>2, <2>3, <2>4, TakesReads DEF Mine
  <2>6. ASSUME c \in Steady, ~cancelled, cur = c PROVE InStep(c)'
    <3>1. sPhase = "answer" /\ toService[c] = <<>> /\ toPeer[c] = <<"confirm">>
      <4>1. InStep(c) /\ sPhase \in Handshake \cup {"sending", "ending", "hangup"}
        BY <1>0, <1>a, <2>6 DEF Places, TypeOK, Handshake
      <4> QED
        BY <4>1, <2>1, <2>5 DEF InStep, Waits, Handshake
    <3>2. toService'[c] = <<f>> /\ toPeer'[c] = <<>>
      BY <1>0, <2>1, <2>4, <3>1, OneFrame, TakesReads
    <3> QED
      BY <2>1, <2>3, <3>1, <3>2 DEF InStep
  <2>7. c \in Steady /\ ~cancelled => (c \in gone' => pState'[c] \in {"has", "left"})
    BY <1>a, <2>1, <2>2, <2>3
  <2> QED
    BY <1>b, <2>1, <2>3, <2>5, <2>6, <2>7, PeerKeeps
<1>3. ASSUME ReadChunk(c) PROVE SInv'
  <2>1. /\ pState[c] = "receiving" /\ Takes(c, "chunk")
        /\ UNCHANGED <<queue, gone, toService, pState, sPhase, cur, outcome, fate, cancelled, shut>>
    BY <1>3 DEF ReadChunk, Quiet, senderVars
  <2>2. Mine(c) /\ Reading(c) /\ toPeer[c] # <<>>
    BY <1>0, <2>1, TakesReads DEF Mine
  <2>3. ASSUME c \in Steady, ~cancelled, cur = c PROVE InStep(c)'
    <3>1. InStep(c)
      BY <1>a, <2>3
    <3>2. toPeer'[c] = <<>> \/ sPhase \notin Handshake
      BY <2>1, <2>2, <3>1 DEF InStep, Waits, Handshake
    <3>3. sPhase = "answer" => toPeer[c] = <<>>
      BY <2>1, <3>1 DEF InStep
    <3> QED
      BY <2>1, <2>2, <3>1, <3>2, <3>3 DEF InStep, Waits
  <2> QED
    BY <1>a, <1>b, <2>1, <2>2, <2>3, PeerKeeps
<1>4. ASSUME ReadEnd(c) PROVE SInv'
  <2>1. /\ pState[c] = "receiving" /\ Takes(c, "end") /\ gone' = gone \cup {c}
        /\ pState' = [pState EXCEPT ![c] = "has"]
        /\ UNCHANGED <<queue, toService, sPhase, cur, outcome, fate, cancelled, shut>>
    BY <1>4 DEF ReadEnd, Becomes, Quiet, senderVars
  <2>2. pState'[c] = "has" /\ \A d \in Conn : d # c => pState'[d] = pState[d]
    BY <1>0, <2>1
  <2>3. Mine(c) /\ Reading(c) /\ toPeer[c] # <<>> /\ Holds(toPeer[c], "end")
    BY <1>0, <2>1, <2>2, TakesReads DEF Mine
  <2>4. ASSUME c \in Steady, ~cancelled, cur = c PROVE InStep(c)'
    <3>1. InStep(c) /\ sPhase \in {"ending", "hangup"}
      BY <1>0, <1>a, <2>3, <2>4 DEF EndIsOut, Ended
    <3> QED
      BY <2>1, <2>2, <3>1 DEF InStep
  <2> QED
    BY <1>b, <2>1, <2>2, <2>3, <2>4, PeerKeeps
<1>5. ASSUME LetDown(c) PROVE SInv'
  <2>1. /\ pState[c] \in {"hello", "claimed", "receiving"} /\ gone' = gone \cup {c}
        /\ pState' = [pState EXCEPT ![c] = "left"]
        /\ UNCHANGED <<queue, toService, sPhase, cur, outcome, fate, cancelled, shut>>
        /\ Takes(c, "abort") \/ (c \in shut \cup gone /\ toPeer' = toPeer)
    BY <1>5 DEF LetDown, Becomes, Quiet, senderVars
  <2>2. pState'[c] = "left" /\ \A d \in Conn : d # c => pState'[d] = pState[d]
    BY <1>0, <2>1
  <2>3. CASE Takes(c, "abort")
    <3>1. Mine(c) /\ Reading(c) /\ Holds(toPeer[c], "abort") /\ toPeer[c] # <<>>
      BY <1>0, <2>1, <2>2, <2>3, TakesReads DEF Mine
    <3>2. cur # c
      BY <1>0, <3>1 DEF AbortIsLast, Places
    <3> QED
      BY <1>b, <2>1, <2>2, <3>1, <3>2, PeerKeeps
  <2>4. CASE c \in shut \cup gone /\ toPeer' = toPeer
    <3>1. Mine(c) /\ Reading(c)
      BY <1>0, <2>1, <2>2, <2>4 DEF Mine, Reading
    <3>2. ASSUME c \in Steady, ~cancelled
          PROVE  cur # c /\ ~ \E i \in 1 .. Len(queue) : queue[i] = c
      <4>1. c \in shut
        BY <1>a, <2>1, <2>4, <3>2
      <4>2. fate[c] # "none" \/ (sPhase = "over" /\ cur = NoConn /\ queue = <<>>)
        BY <1>0, <4>1 DEF Places
      <4> QED
        BY <1>0, <4>2 DEF Places
    <3> QED
      BY <2>1, <2>2, <3>1, <3>2, PeerKeeps
  <2> QED
    BY <2>1, <2>3, <2>4
<1>6. ASSUME Drops(c) PROVE SInv'
  <2>1. /\ c \notin Steady /\ pState[c] # "idle"
        /\ pState' = [pState EXCEPT ![c] = "left"] /\ gone' = gone \cup {c}
        /\ UNCHANGED <<queue, sPhase, cur, outcome, fate, cancelled, shut>>
    BY <1>6 DEF Drops, Becomes, Quiet, senderVars
  <2>2. pState'[c] = "left" /\ \A d \in Conn : d # c => pState'[d] = pState[d]
    BY <1>0, <2>1
  <2>3. /\ toPeer'[c] = <<>>
        /\ \A d \in Conn : d # c => toPeer'[d] = toPeer[d] /\ toService'[d] = toService[d]
    BY <1>0, <1>6 DEF Drops, Emptied
  <2>4. Mine(c) /\ Reading(c)
    BY <2>1, <2>2, <2>3 DEF Mine, Reading
  <2> QED
    BY <2>1, <2>2, <2>4, PeerKeeps
<1> QED
  BY <1>1, <1>2, <1>3, <1>4, <1>5, <1>6

-----------------------------------------------------------------------------
(* The theorems *)

\* Every connection is served at most once; the last frame of a file is out, or read,
\* only of a connection whose sender awaits that write or the hang-up, reported it sent,
\* or failed during that write; and a connection that holds stays in step with the sender.
THEOREM InStepCorrect == Spec => []SInv
<1>1. Init => SInv
  <2> SUFFICES ASSUME Init PROVE SInv
    OBVIOUS
  <2>1. TypeOK
    <3>1. <<>> \in Seq(Conn) /\ [c \in Conn |-> <<>>] \in [Conn -> Seq(Frame)]
      OBVIOUS
    <3>2. 0 \in 0 .. Chunks /\ [c \in Conn |-> 0] \in [Conn -> Nat]
      OBVIOUS
    <3> QED
      BY <3>1, <3>2 DEF Init, TypeOK, Handshake
  <2>2. Places /\ EndIsOut /\ AbortIsLast /\ SteadyKept
    BY HoldsNone DEF Init, Places, EndIsOut, AbortIsLast, SteadyKept
  <2> QED
    BY <2>1, <2>2 DEF SInv
<1>2. SInv /\ [Next]_vars => SInv'
  <2> SUFFICES ASSUME SInv, [Next]_vars PROVE SInv'
    OBVIOUS
  <2>1. CASE \/ Accept \/ Expires \/ CancelNoticed
             \/ ReadHello \/ ReadClaim \/ ReadReady \/ ReadCancel \/ ReadWrong \/ TimesOut
             \/ StreamEnds \/ WriteChunk \/ WriteEnd \/ EndWritten \/ LingerEnds
             \/ Cancel \/ SourceFails \/ DeadlinePasses
    BY <2>1, SenderKeeps
  <2>2. ASSUME NEW c \in Conn,
               \/ Connect(c) \/ ReadOffer(c) \/ ReadConfirm(c) \/ ReadChunk(c) \/ ReadEnd(c)
               \/ LetDown(c) \/ Drops(c)
        PROVE  SInv'
    <3>1. TypeOK'
      BY <2>2, PeerType DEF SInv
    <3> QED
      BY <2>2, <3>1, ConnectKeeps, PeerTurns
  <2>3. CASE UNCHANGED vars
    BY <2>3 DEF vars, senderVars, streamVars, peerVars, SInv, TypeOK, Places, EndIsOut,
                Ended, AbortIsLast, SteadyKept, Waits, InStep
  <2> QED
    BY <2>1, <2>2, <2>3 DEF Next
<1> QED
  BY <1>1, <1>2, PTL DEF Spec

\* Every variable of the serving keeps its type.
THEOREM TypeCorrect == Spec => []TypeOK
<1>1. SInv => TypeOK
  BY DEF SInv
<1> QED
  BY <1>1, InStepCorrect, PTL

\* A receiver that has the file is taken for a failed connection only by what the sender
\* notices while its last write is awaited, never once that write is through; and a sender
\* that reports the file sent has not cut off a receiver that kept up (sendFileOverLink,
\* sendFileOverTor, waitForPeerClose), whatever any other connection does.
THEOREM OutcomesAgreeCorrect == Spec => []OutcomesAgree
<1>1. SInv => OutcomesAgree
  <2> SUFFICES ASSUME SInv, NEW c \in Conn
               PROVE  /\ pState[c] = "has" => fate[c] \in {"none", "delivered", "unflushed"}
                      /\ c \in Steady /\ fate[c] = "delivered" /\ ~cancelled
                           => pState[c] = "has"
    BY DEF OutcomesAgree
  <2>1. pState[c] = "has" => fate[c] \in {"none", "delivered", "unflushed"}
    BY DEF SInv, Places, EndIsOut, Ended
  <2>2. c \in Steady /\ fate[c] = "delivered" /\ ~cancelled => pState[c] = "has"
    BY DEF SInv, SteadyKept
  <2> QED
    BY <2>1, <2>2
<1> QED
  BY <1>1, InStepCorrect, PTL

===============================================================================
