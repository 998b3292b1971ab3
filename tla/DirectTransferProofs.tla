------------------------- MODULE DirectTransferProofs -------------------------
(* The promises of DirectTransfer for any file, any number of lanes and any   *)
(* limits: types, the order of the file, no false alarm, what is held is      *)
(* safe, the refinement of FileDelivery, and the bound on the backlog.        *)
EXTENDS DirectTransfer, SumTheorems, SequenceTheorems

USE DirectTransferAssumption

-----------------------------------------------------------------------------
(* Sizes *)

LEMMA SizeFacts ==
  ASSUME NEW i \in 0 .. Total - 1
  PROVE  /\ Size(i) \in 1 .. Full
         /\ Size(i) < Full => i = Total - 1 /\ LastSize < Full
         /\ i = Total - 1 => Size(i) = LastSize
         /\ Bytes(i) + Size(i) = Bytes(i + 1)
BY DEF Size, Bytes, Full

LEMMA BytesFacts ==
  ASSUME NEW n \in 0 .. Total
  PROVE  /\ Bytes(n) \in Nat
         /\ n < Total => Bytes(n) = Full * n
         /\ n = Total /\ n > 0 => Bytes(n) = Full * (n - 1) + LastSize
         /\ n = 0 => Bytes(n) = 0
BY DEF Bytes, Full

-----------------------------------------------------------------------------
(* The messages of a sender that keeps the protocol *)

ChunkAt(i) == [t |-> "chunk", index |-> i, bytes |-> Size(i)]
EndOfFile == [t |-> "end", index |-> Total, bytes |-> Bytes(Total)]
Chunks == {ChunkAt(i) : i \in {j \in 0 .. Total - 1 : WithinLimits(j)}}
Ends == {e \in {EndOfFile} : Total <= MaxChunks /\ Bytes(Total) <= MaxWire}
Honest == Chunks \cup Ends \cup {Abort}

LEMMA ChunkIsHonest ==
  ASSUME NEW i \in 0 .. Total - 1, WithinLimits(i)
  PROVE  ChunkAt(i) \in Honest
BY DEF Honest, Chunks

LEMMA EndIsHonest ==
  ASSUME Total <= MaxChunks, Bytes(Total) <= MaxWire
  PROVE  EndOfFile \in Honest
BY DEF Honest, Ends

LEMMA ChunkFields ==
  ASSUME NEW i
  PROVE  /\ ChunkAt(i).t = "chunk" /\ ChunkAt(i).index = i /\ ChunkAt(i).bytes = Size(i)
         /\ ChunkAt(i) # EndOfFile /\ ChunkAt(i) # Abort
BY DEF ChunkAt, EndOfFile, Abort

LEMMA EndFields ==
  /\ EndOfFile.t = "end" /\ EndOfFile.index = Total /\ EndOfFile.bytes = Bytes(Total)
  /\ EndOfFile # Abort /\ Abort.t = "abort"
BY DEF EndOfFile, Abort

LEMMA ChunkTyped ==
  ASSUME NEW i \in 0 .. Total - 1
  PROVE  ChunkAt(i) \in Chunk
BY SizeFacts DEF ChunkAt, Chunk

\* Every message is a chunk of the file, its end, or an abort.
LEMMA HonestFacts ==
  ASSUME NEW m \in Honest
  PROVE  /\ m \in Message
         /\ m.t \in {"chunk", "end", "abort"}
         /\ m.t = "chunk" => /\ m.index \in 0 .. Total - 1 /\ m = ChunkAt(m.index)
                             /\ WithinLimits(m.index)
         /\ m.t = "end" => /\ m = EndOfFile
                           /\ Total <= MaxChunks /\ Bytes(Total) <= MaxWire
         /\ m.t = "abort" => m = Abort
<1>1. CASE m \in Chunks
  <2>1. PICK i \in 0 .. Total - 1 : m = ChunkAt(i) /\ WithinLimits(i)
    BY <1>1 DEF Chunks
  <2> QED
    BY <2>1, ChunkFields, ChunkTyped DEF Message
<1>2. CASE m \in Ends
  BY <1>2, EndFields, BytesFacts DEF Ends, Message, EndOfFile
<1>3. CASE m = Abort
  BY <1>3 DEF Abort, Message
<1> QED
  BY <1>1, <1>2, <1>3 DEF Honest

-----------------------------------------------------------------------------
(* What a wire holds *)

Holds(f, x) == \E l \in Lane : \E k \in DOMAIN f[l] : f[l][k] = x

\* No message but an abort is twice on a wire, or on two.
Distinct(f) ==
  \A a, b \in Lane : \A j \in DOMAIN f[a], k \in DOMAIN f[b] :
    f[a][j] = f[b][k] /\ f[a][j] # Abort => a = b /\ j = k
Wire(f) == f \in [Lane -> Seq(Honest)] /\ Distinct(f)
Disjoint(f, g) == \A x : Holds(f, x) /\ Holds(g, x) => x = Abort

\* A message leaves the head of lane l, or joins its end.
TakenFrom(f, g, l) == f[l] # <<>> /\ g = [f EXCEPT ![l] = Tail(f[l])]
PutOn(f, g, l, m) == g = [f EXCEPT ![l] = Append(f[l], m)]

LEMMA Taken ==
  ASSUME NEW f, NEW g, NEW l \in Lane, Wire(f), TakenFrom(f, g, l)
  PROVE  /\ Wire(g)
         /\ Head(f[l]) \in Honest /\ Holds(f, Head(f[l]))
         /\ \A x : Holds(g, x) => Holds(f, x)
         /\ \A x : Holds(f, x) => Holds(g, x) \/ x = Head(f[l])
         /\ Head(f[l]) # Abort => ~Holds(g, Head(f[l]))
<1> DEFINE s == f[l]
<1>1. /\ s \in Seq(Honest) /\ s # <<>> /\ \A a \in Lane : f[a] \in Seq(Honest)
      /\ g \in [Lane -> Seq(Honest)] /\ g[l] = Tail(s)
      /\ \A a \in Lane \ {l} : g[a] = f[a]
  BY HeadTailProperties DEF Wire, TakenFrom
<1>2. /\ Head(s) \in Honest /\ Head(s) = s[1] /\ 1 \in DOMAIN s
      /\ Tail(s) \in Seq(Honest) /\ Len(Tail(s)) = Len(s) - 1
      /\ \A i \in 1 .. Len(Tail(s)) : Tail(s)[i] = s[i + 1]
      /\ DOMAIN s = 1 .. Len(s) /\ DOMAIN Tail(s) = 1 .. Len(s) - 1 /\ Len(s) \in Nat \ {0}
  BY <1>1, HeadTailProperties
<1> HIDE DEF s
\* A place on g is a place on f, later by one on lane l.
<1> DEFINE at(a, k) == IF a = l THEN k + 1 ELSE k
<1>3. ASSUME NEW a \in Lane, NEW k \in DOMAIN g[a]
      PROVE  /\ at(a, k) \in DOMAIN f[a] /\ f[a][at(a, k)] = g[a][k] /\ k \in Int
             /\ a = l => at(a, k) # 1
  <2>1. CASE a = l
    BY <2>1, <1>1, <1>2, <1>3 DEF s
  <2>2. CASE a # l
    BY <2>2, <1>1, <1>3
  <2> QED
    BY <2>1, <2>2
<1>4. Distinct(f)
  BY DEF Wire
<1>5. Distinct(g)
  <2> SUFFICES ASSUME NEW a \in Lane, NEW b \in Lane, NEW j \in DOMAIN g[a],
                      NEW k \in DOMAIN g[b], g[a][j] = g[b][k], g[a][j] # Abort
               PROVE  a = b /\ j = k
    BY DEF Distinct
  <2>1. /\ at(a, j) \in DOMAIN f[a] /\ at(b, k) \in DOMAIN f[b]
        /\ f[a][at(a, j)] = f[b][at(b, k)] /\ f[a][at(a, j)] # Abort
    BY <1>3
  <2>2. a = b /\ at(a, j) = at(b, k)
    <3> HIDE DEF at
    <3> QED
      BY <2>1, <1>4 DEF Distinct
  <2> QED
    BY <2>2, <1>3
<1>6. \A x : Holds(g, x) => Holds(f, x)
  BY <1>3 DEF Holds
<1>7. \A x : Holds(f, x) => Holds(g, x) \/ x = Head(s)
  <2> SUFFICES ASSUME NEW a \in Lane, NEW k \in DOMAIN f[a], f[a][k] # Head(s)
               PROVE  Holds(g, f[a][k])
    BY DEF Holds
  <2>1. CASE a = l
    <3>1. k \in 1 .. Len(s) /\ k # 1
      BY <2>1, <1>1, <1>2 DEF s
    <3>2. k - 1 \in DOMAIN g[l] /\ g[l][k - 1] = f[a][k]
      BY <3>1, <2>1, <1>1, <1>2 DEF s
    <3> QED
      BY <3>2 DEF Holds
  <2>2. CASE a # l
    BY <2>2, <1>1 DEF Holds
  <2> QED
    BY <2>1, <2>2
<1>8. Head(s) # Abort => ~Holds(g, Head(s))
  <2> SUFFICES ASSUME NEW a \in Lane, NEW k \in DOMAIN g[a], g[a][k] = Head(s),
                      Head(s) # Abort
               PROVE  FALSE
    BY DEF Holds
  <2>1. /\ f[a][at(a, k)] = f[l][1] /\ at(a, k) \in DOMAIN f[a]
        /\ 1 \in DOMAIN f[l] /\ f[l][1] # Abort
    BY <1>2, <1>3 DEF s
  <2> HIDE DEF at
  <2>2. a = l /\ at(a, k) = 1
    BY <2>1, <1>4 DEF Distinct
  <2> QED
    BY <2>2, <1>3
<1>9. Holds(f, Head(s))
  BY <1>2 DEF Holds, s
<1> QED
  BY <1>1, <1>2, <1>5, <1>6, <1>7, <1>8, <1>9 DEF Wire, s

LEMMA Put ==
  ASSUME NEW f, NEW g, NEW l \in Lane, Wire(f), NEW m \in Honest,
         m = Abort \/ ~Holds(f, m), PutOn(f, g, l, m)
  PROVE  /\ Wire(g)
         /\ \A x : Holds(g, x) => Holds(f, x) \/ x = m
         /\ \A x : Holds(f, x) => Holds(g, x)
         /\ Holds(g, m)
<1> DEFINE s == f[l]
<1>1. /\ s \in Seq(Honest) /\ \A a \in Lane : f[a] \in Seq(Honest)
      /\ g \in [Lane -> Seq(Honest)] /\ g[l] = Append(s, m)
      /\ \A a \in Lane \ {l} : g[a] = f[a]
  BY DEF Wire, PutOn
<1>2. /\ DOMAIN s = 1 .. Len(s) /\ Len(s) \in Nat
      /\ DOMAIN Append(s, m) = 1 .. Len(s) + 1
      /\ Append(s, m)[Len(s) + 1] = m
      /\ \A i \in 1 .. Len(s) : Append(s, m)[i] = s[i]
  BY <1>1
<1> HIDE DEF s
<1>3. ASSUME NEW a \in Lane, NEW k \in DOMAIN g[a]
      PROVE  \/ k \in DOMAIN f[a] /\ f[a][k] = g[a][k]
             \/ a = l /\ k = Len(s) + 1 /\ g[a][k] = m
  BY <1>1, <1>2 DEF s
<1>4. ASSUME NEW a \in Lane, NEW k \in DOMAIN f[a]
      PROVE  k \in DOMAIN g[a] /\ g[a][k] = f[a][k]
  BY <1>1, <1>2 DEF s
<1>5. Distinct(g)
  <2> SUFFICES ASSUME NEW a \in Lane, NEW b \in Lane, NEW j \in DOMAIN g[a],
                      NEW k \in DOMAIN g[b], g[a][j] = g[b][k], g[a][j] # Abort
               PROVE  a = b /\ j = k
    BY DEF Distinct
  <2>1. CASE g[a][j] = m
    <3>1. ~Holds(f, m)
      BY <2>1
    <3>2. ASSUME NEW c \in Lane, NEW i \in DOMAIN g[c], g[c][i] = m
          PROVE  c = l /\ i = Len(s) + 1
      BY <3>1, <3>2, <1>3 DEF Holds
    <3> QED
      BY <2>1, <3>2
  <2>2. CASE g[a][j] # m
    BY <2>2, <1>3 DEF Wire, Distinct
  <2> QED
    BY <2>1, <2>2
<1>6. \A x : Holds(g, x) => Holds(f, x) \/ x = m
  BY <1>3 DEF Holds
<1>7. \A x : Holds(f, x) => Holds(g, x)
  BY <1>4 DEF Holds
<1>8. Holds(g, m)
  <2>1. Len(s) + 1 \in DOMAIN g[l] /\ g[l][Len(s) + 1] = m
    BY <1>1, <1>2
  <2> QED
    BY <2>1 DEF Holds
<1> QED
  BY <1>1, <1>5, <1>6, <1>7, <1>8 DEF Wire

LEMMA NothingYet ==
  ASSUME NEW f, f = [l \in Lane |-> <<>>]
  PROVE  Wire(f) /\ \A x : ~Holds(f, x)
BY DEF Wire, Distinct, Holds

-----------------------------------------------------------------------------
(* The sender: types, and how far it may go *)

SenderInv ==
  /\ SenderTypeOK
  /\ sent <= MaxChunks /\ Bytes(sent) <= MaxWire
  /\ sPhase = "chunk" \/ stray = TRUE => sent < Total /\ WithinLimits(sent)
  /\ stray = TRUE => sPhase \in {"telling", "failed"}
  /\ sPhase \in {"end", "flush", "ok"} => sent = Total

\* Chunks from this index on have never been on a wire.
Given == IF sPhase \in {"telling", "failed"} /\ stray = FALSE /\ sent < Total THEN sent + 1 ELSE sent

LEMMA SenderStart == Init => SenderInv
<1> SUFFICES ASSUME Init PROVE SenderInv
  OBVIOUS
<1>1. /\ <<0>> \in Seq(Lane)
      /\ 0 \in 0 .. Total
  BY DEF Lane
<1>2. Bytes(0) = 0
  BY <1>1, BytesFacts
<1> QED
  BY <1>1, <1>2 DEF Init, SenderInv, SenderTypeOK, Working

LEMMA LaneRemoved ==
  ASSUME NEW s \in Seq(Lane), NEW k \in DOMAIN s
  PROVE  RemoveAt(s, k) \in Seq(Lane)
<1>1. k \in 1 .. Len(s) /\ Len(s) \in Nat /\ \A i \in 1 .. Len(s) : s[i] \in Lane
  OBVIOUS
<1>2. SubSeq(s, 1, k - 1) \in Seq(Lane)
  <2>1. \A i \in 1 .. k - 1 : s[i] \in Lane
    BY <1>1
  <2> QED
    BY <1>1, <2>1, SubSeqProperties
<1>3. SubSeq(s, k + 1, Len(s)) \in Seq(Lane)
  <2>1. \A i \in k + 1 .. Len(s) : s[i] \in Lane
    BY <1>1
  <2> QED
    BY <1>1, <2>1, SubSeqProperties
<1> QED
  BY <1>2, <1>3, ConcatProperties DEF RemoveAt

LEMMA SenderStep == SenderInv /\ [Next]_vars => SenderInv'
<1> SUFFICES ASSUME SenderInv, [Next]_vars PROVE SenderInv'
  OBVIOUS
<1> USE DEF SenderInv, SenderTypeOK, Working
<1>1. CASE Read
  BY <1>1 DEF Read, FailTelling, linkVars
<1>2. CASE HandOver
  <2>1. PICK k \in DOMAIN channels : PutOnLink(k, sent) /\ sent' = sent + 1 /\ sPhase' = "read"
                                     /\ UNCHANGED stray
    BY <1>2 DEF HandOver
  <2>2. channels[k] \in Lane /\ sPhase = "chunk"
    BY <1>2 DEF HandOver
  <2>3. sent < Total /\ WithinLimits(sent) /\ sent \in 0 .. Total - 1
    BY <2>2
  <2>4. sent + 1 <= MaxChunks /\ Bytes(sent + 1) <= MaxWire
    BY <2>3, SizeFacts DEF WithinLimits
  <2> QED
    BY <2>1, <2>2, <2>3, <2>4 DEF PutOnLink
<1>3. CASE StraySend
  <2>1. PICK k \in DOMAIN channels : PutOnLink(k, sent) /\ UNCHANGED <<sPhase, sent>>
                                     /\ stray' = FALSE
    BY <1>3 DEF StraySend
  <2>2. channels[k] \in Lane
    OBVIOUS
  <2> QED
    BY <2>1, <2>2 DEF PutOnLink
<1>4. CASE HandOverFails \/ FlushOk
  BY <1>4 DEF HandOverFails, FlushOk, linkVars
<1>14. CASE TellReceiver
  BY <1>14 DEF TellReceiver, linkVars
<1>15. CASE SenderCloses
  BY <1>15 DEF SenderCloses, phaseVars
<1>5. CASE FlushFails
  BY <1>5 DEF FlushFails, FailByPeer, linkVars
<1>6. CASE SenderStops \/ SenderStalls
  BY <1>6 DEF SenderStops, SenderStalls, Timed, FailTelling, linkVars
<1>7. ASSUME NEW l \in Lane, Transmit(l) PROVE SenderInv'
  BY <1>7 DEF Transmit, linkVars
<1>8. ASSUME NEW l \in Lane, TransmitFails(l) PROVE SenderInv'
  BY <1>8 DEF TransmitFails, phaseVars, FailTelling
<1>9. ASSUME NEW l \in Lane, LaneOpensAtSender(l) PROVE SenderInv'
  BY <1>9 DEF LaneOpensAtSender, phaseVars
<1>10. ASSUME NEW l \in Lane, SenderChannelEnds(l) PROVE SenderInv'
  <2>1. channels' \in Seq(Lane)
    BY <1>10, LaneRemoved DEF SenderChannelEnds
  <2> QED
    BY <1>10, <2>1 DEF SenderChannelEnds, FailByPeer, phaseVars
<1>11. CASE UNCHANGED senderVars
  BY <1>11 DEF senderVars, phaseVars, linkVars
<1>12. ASSUME NEW l \in Lane, Leave(l) \/ Deliver(l) \/ LaneOpensAtReceiver(l)
                              \/ LaneGivenUp(l) \/ Break(l) \/ ReceiverChannelEnds(l)
       PROVE SenderInv'
  BY <1>11, <1>12 DEF Leave, Deliver, LaneOpensAtReceiver, LaneGivenUp, Break,
     ReceiverChannelEnds
<1>13. CASE Receive \/ Over \/ UNCHANGED vars
  BY <1>11, <1>13 DEF Receive, Over, vars, Write, Seal, StorageRejects, ReceiverStalls,
     ReceiverDisposes, ReceiverCloses
<1> QED
  BY <1>1, <1>2, <1>3, <1>4, <1>5, <1>6, <1>7, <1>8, <1>9, <1>10, <1>12, <1>13,
     <1>14, <1>15 DEF Next, Send, Channels

-----------------------------------------------------------------------------
(* The wires: what is on its way is the sender's, and there once *)

OnWire(x) == Holds(chain, x) \/ Holds(buf, x) \/ Holds(net, x)

Wires ==
  /\ Wire(chain) /\ Wire(buf) /\ Wire(net)
  /\ Disjoint(chain, buf) /\ Disjoint(chain, net) /\ Disjoint(buf, net)
WireInv ==
  /\ Wires
  /\ \A i \in 0 .. Total - 1 : OnWire(ChunkAt(i)) => i < Given
  /\ OnWire(EndOfFile) => sPhase \notin {"read", "chunk"}

\* What a step may put on the wires.
Adds(x) ==
  \/ OnWire(x)
  \/ sent < Total /\ x = ChunkAt(sent) /\ Given = sent /\ Given' = sent + 1
  \/ x = EndOfFile /\ sPhase = "read" /\ sPhase' = "end"
Moved == \A x : OnWire(x)' => Adds(x) \/ x = Abort

LEMMA WireStart == Init => WireInv
BY NothingYet DEF Init, WireInv, Wires, OnWire, Disjoint

\* What the bookkeeping of the wires needs to know of a step that moves nothing.
LEMMA GivenGrows == SenderInv /\ [Next]_vars => /\ Given \in Nat /\ Given' \in Nat
                                                /\ Given <= Given' /\ Given' <= Given + 1
<1> SUFFICES ASSUME SenderInv, [Next]_vars
             PROVE  /\ Given \in Nat /\ Given' \in Nat
                    /\ Given <= Given' /\ Given' <= Given + 1
  OBVIOUS
<1>1. /\ sent \in 0 .. Total /\ stray \in BOOLEAN
      /\ sPhase = "chunk" => sent < Total
      /\ stray = TRUE => sent < Total /\ sPhase \in {"telling", "failed"}
  BY DEF SenderInv, SenderTypeOK
<1> DEFINE Late == {"telling", "failed"}
<1>2. CASE UNCHANGED phaseVars
  BY <1>1, <1>2 DEF Given, phaseVars
<1>3. CASE HandOver
  BY <1>1, <1>3 DEF Given, HandOver
<1>4. CASE StraySend
  <2>1. stray = TRUE /\ sent' = sent /\ sPhase' = sPhase
    BY <1>1, <1>4 DEF StraySend
  <2> QED
    BY <1>1, <2>1 DEF Given
<1>5. CASE sent' = sent /\ sPhase \notin Late /\ sPhase' \notin Late
  BY <1>1, <1>5 DEF Given
<1>6. CASE sent' = sent /\ sPhase \notin Late
  BY <1>1, <1>6 DEF Given
<1>7. CASE sent' = sent /\ sPhase \in Late /\ sPhase' \in Late /\ stray' = stray
  BY <1>1, <1>7 DEF Given
<1>8. CASE Read \/ HandOverFails \/ FlushOk \/ FlushFails \/ SenderStops \/ SenderStalls
  <2>1. sent' = sent /\ sPhase \notin Late
    BY <1>8 DEF Read, HandOverFails, FlushOk, FlushFails, SenderStops, SenderStalls, Working,
       Timed, FailTelling, FailByPeer
  <2> QED
    BY <1>6, <2>1
<1>9. CASE TellReceiver \/ SenderCloses
  BY <1>2, <1>7, <1>9 DEF TellReceiver, SenderCloses, phaseVars
<1>10. ASSUME NEW l \in Lane, Transmit(l) \/ TransmitFails(l) \/ SenderChannelEnds(l)
       PROVE  \/ UNCHANGED phaseVars
              \/ sent' = sent /\ sPhase \notin Late
  BY <1>10 DEF Transmit, TransmitFails, SenderChannelEnds, phaseVars, FailTelling,
     FailByPeer, Working
<1>11. ASSUME NEW l \in Lane, Leave(l) \/ Deliver(l) \/ LaneOpensAtReceiver(l)
                \/ LaneGivenUp(l) \/ Break(l) \/ ReceiverChannelEnds(l)
                \/ LaneOpensAtSender(l)
       PROVE  UNCHANGED phaseVars
  BY <1>11 DEF Leave, Deliver, LaneOpensAtReceiver, LaneGivenUp, Break,
     ReceiverChannelEnds, LaneOpensAtSender, senderVars
<1>12. CASE Receive \/ Over \/ UNCHANGED vars
  BY <1>2, <1>12 DEF Receive, Over, vars, Write, Seal, StorageRejects, ReceiverStalls,
     ReceiverDisposes, ReceiverCloses, senderVars
<1> QED
  BY <1>2, <1>3, <1>4, <1>6, <1>8, <1>9, <1>10, <1>11, <1>12 DEF Next, Send, Channels

\* A sender that has sent its last chunk stays beyond it.
LEMMA PhaseGoesOn ==
  SenderInv /\ [Next]_vars /\ sPhase \notin {"read", "chunk"}
    => sPhase' \notin {"read", "chunk"}
<1> SUFFICES ASSUME SenderInv, [Next]_vars, sPhase \notin {"read", "chunk"}
             PROVE  sPhase' \notin {"read", "chunk"}
  OBVIOUS
<1>1. CASE Send
  BY <1>1 DEF Send, Read, HandOver, HandOverFails, StraySend, FlushOk, FlushFails,
     FailByPeer, SenderStops, SenderStalls, FailTelling, TellReceiver, SenderCloses, phaseVars
<1>2. CASE Channels
  BY <1>2 DEF Channels, Transmit, TransmitFails, Leave, Deliver, LaneOpensAtSender,
     LaneOpensAtReceiver, LaneGivenUp, Break, SenderChannelEnds, ReceiverChannelEnds,
     FailTelling, FailByPeer, senderVars, phaseVars
<1>3. CASE Receive \/ Over \/ UNCHANGED vars
  BY <1>3 DEF Receive, Over, vars, Write, Seal, StorageRejects, ReceiverStalls,
     ReceiverDisposes, ReceiverCloses, senderVars, phaseVars
<1> QED
  BY <1>1, <1>2, <1>3 DEF Next

\* A chunk joins the send queue of a channel.
LEMMA ChunkJoins ==
  ASSUME SenderInv, WireInv, sent < Total, WithinLimits(sent), Given = sent,
         Given' = sent + 1, NEW k \in DOMAIN channels, PutOnLink(k, sent)
  PROVE  Wires' /\ Moved
<1>1. channels[k] \in Lane /\ sent \in 0 .. Total - 1
  BY DEF SenderInv, SenderTypeOK
<1>2. ChunkAt(sent) \in Honest /\ ~OnWire(ChunkAt(sent))
  BY <1>1, ChunkIsHonest DEF WireInv
<1>3. PutOn(chain, chain', channels[k], ChunkAt(sent)) /\ buf' = buf /\ net' = net
  BY DEF PutOnLink, ChunkAt, PutOn
<1>5. Wire(chain') /\ \A x : Holds(chain', x) => Holds(chain, x) \/ x = ChunkAt(sent)
  BY <1>1, <1>2, <1>3, Put DEF WireInv, Wires, OnWire
<1>6. Moved
  BY <1>3, <1>5 DEF Moved, Adds, OnWire
<1> QED
  BY <1>2, <1>3, <1>5, <1>6 DEF WireInv, Wires, OnWire, Disjoint

LEMMA WiresMove == SenderInv /\ WireInv /\ [Next]_vars => Wires' /\ Moved
<1> SUFFICES ASSUME SenderInv, WireInv, [Next]_vars PROVE Wires' /\ Moved
  OBVIOUS
<1>1. /\ Wire(chain) /\ Wire(buf) /\ Wire(net)
      /\ Disjoint(chain, buf) /\ Disjoint(chain, net) /\ Disjoint(buf, net)
  BY DEF WireInv, Wires
<1>2. /\ sent \in 0 .. Total /\ stray \in BOOLEAN
      /\ sPhase = "chunk" \/ stray = TRUE => sent < Total /\ WithinLimits(sent)
      /\ stray = TRUE => sPhase \in {"telling", "failed"}
  BY DEF SenderInv, SenderTypeOK
<1>3. 0 \in Lane
  BY DEF Lane
<1>4. ASSUME UNCHANGED <<chain, buf, net>> PROVE Wires' /\ Moved
  BY <1>1, <1>4 DEF Wires, Moved, Adds, OnWire
<1>5. CASE Read
  <2>1. CASE UNCHANGED chain
    BY <1>4, <1>5, <2>1 DEF Read
  <2>2. CASE ~UNCHANGED chain
    <3>1. /\ sPhase = "read" /\ sPhase' = "end" /\ sent = Total
          /\ PutOn(chain, chain', 0, EndOfFile)
          /\ buf' = buf /\ net' = net
      BY <1>5, <2>2 DEF Read, EndOfFile, PutOn
    <3>2. EndOfFile \in Honest /\ ~OnWire(EndOfFile)
      BY <3>1, EndIsHonest DEF SenderInv, WireInv
    <3>4. Wire(chain') /\ \A x : Holds(chain', x) => Holds(chain, x) \/ x = EndOfFile
      BY <3>1, <1>1, <1>3, <3>2, Put DEF OnWire
    <3>5. Moved
      BY <3>1, <3>4 DEF Moved, Adds, OnWire
    <3> QED
      BY <1>1, <3>1, <3>2, <3>4, <3>5 DEF Wires, OnWire, Disjoint
  <2> QED
    BY <2>1, <2>2
<1>6. CASE HandOver
  <2>1. PICK k \in DOMAIN channels : PutOnLink(k, sent)
    BY <1>6 DEF HandOver
  <2>2. sent < Total /\ WithinLimits(sent) /\ Given = sent /\ Given' = sent + 1
    BY <1>2, <1>6 DEF HandOver, Given
  <2> QED
    BY <2>1, <2>2, ChunkJoins
<1>7. CASE StraySend
  <2>1. PICK k \in DOMAIN channels : PutOnLink(k, sent)
    BY <1>7 DEF StraySend
  <2>2. stray = TRUE /\ stray' = FALSE /\ sent' = sent /\ sPhase' = sPhase
    BY <1>2, <1>7 DEF StraySend
  <2>3. sent < Total /\ WithinLimits(sent) /\ Given = sent /\ Given' = sent + 1
    BY <1>2, <2>2 DEF Given
  <2> QED
    BY <2>1, <2>3, ChunkJoins
<1>8. CASE TellReceiver
  <2>1. CASE 0 \in sDead
    BY <1>4, <1>8, <2>1 DEF TellReceiver
  <2>2. CASE 0 \notin sDead
    <3>1. PutOn(buf, buf', 0, Abort) /\ chain' = chain /\ net' = net
      BY <1>8, <2>2 DEF TellReceiver, PutOn
    <3>2. Abort \in Honest
      BY DEF Honest
    <3>4. Wire(buf') /\ \A x : Holds(buf', x) => Holds(buf, x) \/ x = Abort
      BY <3>1, <1>1, <1>3, <3>2, Put
    <3>5. Moved
      BY <3>1, <3>4 DEF Moved, Adds, OnWire
    <3> QED
      BY <1>1, <3>1, <3>4, <3>5 DEF Wires, Disjoint
  <2> QED
    BY <2>1, <2>2
<1>9. ASSUME NEW l \in Lane, Transmit(l) PROVE Wires' /\ Moved
  <2> DEFINE m == Head(chain[l])
  <2>1. TakenFrom(chain, chain', l) /\ PutOn(buf, buf', l, m) /\ net' = net
    BY <1>9 DEF Transmit, TakenFrom, PutOn
  <2>2. /\ Wire(chain') /\ m \in Honest /\ Holds(chain, m)
        /\ \A x : Holds(chain', x) => Holds(chain, x)
        /\ m # Abort => ~Holds(chain', m)
    BY <2>1, <1>1, Taken
  <2>3. m = Abort \/ ~Holds(buf, m)
    BY <2>2, <1>1 DEF Disjoint
  <2>4. Wire(buf') /\ \A x : Holds(buf', x) => Holds(buf, x) \/ x = m
    <3> HIDE DEF m
    <3> QED
      BY <2>1, <2>2, <2>3, <1>1, Put
  <2>5. Moved
    <3> HIDE DEF m
    <3> QED
      BY <2>1, <2>2, <2>4 DEF Moved, Adds, OnWire
  <2>6. Wires'
    <3> HIDE DEF m
    <3> QED
      BY <1>1, <2>1, <2>2, <2>4 DEF Wires, Disjoint
  <2> QED
    BY <2>5, <2>6
<1>10. ASSUME NEW l \in Lane, TransmitFails(l) PROVE Wires' /\ Moved
  <2>1. TakenFrom(chain, chain', l) /\ buf' = buf /\ net' = net
    BY <1>10 DEF TransmitFails, TakenFrom
  <2>2. Wire(chain') /\ \A x : Holds(chain', x) => Holds(chain, x)
    BY <2>1, <1>1, Taken
  <2> QED
    BY <1>1, <2>1, <2>2 DEF Wires, Disjoint, Moved, Adds, OnWire
<1>11. ASSUME NEW l \in Lane, Leave(l) PROVE Wires' /\ Moved
  <2> DEFINE m == Head(buf[l])
  <2>1. TakenFrom(buf, buf', l) /\ PutOn(net, net', l, m) /\ chain' = chain
    BY <1>11 DEF Leave, TakenFrom, PutOn
  <2>2. /\ Wire(buf') /\ m \in Honest /\ Holds(buf, m)
        /\ \A x : Holds(buf', x) => Holds(buf, x)
        /\ m # Abort => ~Holds(buf', m)
    BY <2>1, <1>1, Taken
  <2>3. m = Abort \/ ~Holds(net, m)
    BY <2>2, <1>1 DEF Disjoint
  <2>4. Wire(net') /\ \A x : Holds(net', x) => Holds(net, x) \/ x = m
    <3> HIDE DEF m
    <3> QED
      BY <2>1, <2>2, <2>3, <1>1, Put
  <2>5. Moved
    <3> HIDE DEF m
    <3> QED
      BY <2>1, <2>2, <2>4 DEF Moved, Adds, OnWire
  <2>6. Wires'
    <3> HIDE DEF m
    <3> QED
      BY <1>1, <2>1, <2>2, <2>4 DEF Wires, Disjoint
  <2> QED
    BY <2>5, <2>6
<1>12. ASSUME NEW l \in Lane, Deliver(l) PROVE Wires' /\ Moved
  <2>1. TakenFrom(net, net', l) /\ buf' = buf /\ chain' = chain
    BY <1>12 DEF Deliver, TakenFrom
  <2>2. Wire(net') /\ \A x : Holds(net', x) => Holds(net, x)
    BY <2>1, <1>1, Taken
  <2> QED
    BY <1>1, <2>1, <2>2 DEF Wires, Disjoint, Moved, Adds, OnWire
<1>13. CASE HandOverFails \/ FlushOk \/ FlushFails \/ SenderStops \/ SenderStalls
            \/ SenderCloses \/ Receive \/ Over \/ UNCHANGED vars
  <2>1. UNCHANGED <<chain, buf, net>>
    BY <1>13 DEF HandOverFails, FlushOk, FlushFails, SenderStops, SenderStalls, SenderCloses,
       Receive, Over, vars, wireVars, Write, Seal, StorageRejects, ReceiverStalls,
       ReceiverDisposes, ReceiverCloses
  <2> QED
    BY <1>4, <2>1
<1>14. ASSUME NEW l \in Lane,
              LaneOpensAtSender(l) \/ LaneOpensAtReceiver(l) \/ LaneGivenUp(l) \/ Break(l)
                \/ SenderChannelEnds(l) \/ ReceiverChannelEnds(l)
       PROVE  UNCHANGED <<chain, buf, net>>
  BY <1>14 DEF LaneOpensAtSender, LaneOpensAtReceiver, LaneGivenUp, Break,
     SenderChannelEnds, ReceiverChannelEnds, wireVars
<1> QED
  BY <1>4, <1>5, <1>6, <1>7, <1>8, <1>9, <1>10, <1>11, <1>12, <1>13, <1>14
  DEF Next, Send, Channels

LEMMA WireStep == SenderInv /\ WireInv /\ [Next]_vars => WireInv' /\ Moved
<1> SUFFICES ASSUME SenderInv, WireInv, [Next]_vars PROVE WireInv' /\ Moved
  OBVIOUS
<1>15. Wires' /\ Moved
  BY WiresMove
<1>16. \A i \in 0 .. Total - 1 : OnWire(ChunkAt(i))' => i < Given'
  <2> SUFFICES ASSUME NEW i \in 0 .. Total - 1, OnWire(ChunkAt(i))' PROVE i < Given'
    OBVIOUS
  <2>1. /\ Given \in Nat /\ Given' \in Nat /\ Given <= Given'
    BY GivenGrows
  <2>2. ChunkAt(i) # EndOfFile /\ ChunkAt(i) # Abort
    BY ChunkFields
  <2>3. CASE OnWire(ChunkAt(i))
    BY <2>1, <2>3 DEF WireInv
  <2>4. CASE ChunkAt(i) = ChunkAt(sent) /\ Given' = sent + 1
    <3>1. i = sent
      BY <2>4, ChunkFields
    <3> QED
      BY <3>1, <2>4 DEF SenderInv, SenderTypeOK
  <2> QED
    BY <1>15, <2>2, <2>3, <2>4 DEF Moved, Adds
<1>17. OnWire(EndOfFile)' => sPhase' \notin {"read", "chunk"}
  <2>1. ChunkAt(sent) # EndOfFile /\ EndOfFile # Abort
    BY ChunkFields, EndFields
  <2> QED
    BY <1>15, <2>1, PhaseGoesOn DEF Moved, Adds, WireInv
<1> QED
  BY <1>15, <1>16, <1>17 DEF WireInv

-----------------------------------------------------------------------------
(* The receiver: what has arrived, and what is written *)

\* Chunk i has arrived: it is with storage, or waits behind a gap.
Has(i) == i < nextToStore \/ ChunkAt(i) \in waiting
Arrived == {i \in 0 .. Total - 1 : Has(i)}

\* What is stored is a prefix of the file, and the rest of it is queued in order.
StoreInv ==
  /\ nextToStore \in 0 .. Total
  /\ Len(file) + Len(queue) = nextToStore
  /\ \A k \in DOMAIN file : file[k] = ChunkAt(k - 1)
  /\ \A k \in DOMAIN queue : queue[k] = ChunkAt(Len(file) + k - 1)
  /\ stored = Bytes(Len(file))

\* What an end that was accepted says.
EndInv ==
  /\ expectedEnd # NoEnd => expectedEnd = [chunks |-> Total, bytes |-> Bytes(Total)]
  /\ rState \in {"storing", "ok"} =>
       nextToStore = Total /\ receivedChunks = Total /\ expectedEnd # NoEnd
  /\ rState = "ok" => queue = <<>>
  /\ rWhy # "protocol"

\* The receiver's bookkeeping of what has arrived.
Books ==
  /\ \A c \in waiting : \E i \in nextToStore + 1 .. Total - 1 : c = ChunkAt(i)
  /\ receivedChunks = Cardinality(Arrived)
  /\ \A i \in Arrived : i <= highestIndex /\ WithinLimits(i)
  /\ highestIndex \in Arrived \cup {NoIndex}
  /\ shortIndex = IF Total - 1 \in Arrived /\ LastSize < Full THEN Total - 1 ELSE NoIndex
  /\ claimed = IF Total - 1 \in Arrived THEN Full * (receivedChunks - 1) + LastSize
                                        ELSE Full * receivedChunks
  /\ expectedEnd # NoEnd => receivedChunks < Total
Gathered == rState = "open" => Books

\* What has arrived is no longer on its way, and never will be again.
Fresh ==
  rState = "open" =>
    /\ \A i \in Arrived : i < Given /\ ~OnWire(ChunkAt(i))
    /\ expectedEnd # NoEnd => sPhase \notin {"read", "chunk"} /\ ~OnWire(EndOfFile)

\* The receiver's types, but for its channels.
Typed ==
  /\ waiting \subseteq Chunk /\ receivedChunks \in 0 .. Total
  /\ highestIndex \in Nat \cup {NoIndex} /\ shortIndex \in Nat \cup {NoIndex}
  /\ claimed \in Nat /\ queue \in Seq(Chunk) /\ file \in Seq(Chunk)
  /\ rState \in {"open", "storing", "ok", "failed"}
  /\ rWhy \in {"none", "protocol", "backlog", "abort", "link", "storage", "stall",
               "disposed"}
ReceiverInv == Typed /\ StoreInv /\ EndInv /\ Gathered

LEMMA ReceiverStart == Init => ReceiverInv /\ Fresh
<1> SUFFICES ASSUME Init PROVE ReceiverInv /\ Fresh
  OBVIOUS
<1>1. Arrived = {}
  BY DEF Init, Arrived, Has
<1>2. Cardinality({}) = 0 /\ Bytes(0) = 0 /\ 0 \in Lane
  BY FS_EmptySet, BytesFacts DEF Lane
<1>3. Books
  BY <1>1, <1>2 DEF Init, Books, Full, NoEnd
<1>4. StoreInv
  BY <1>2 DEF Init, StoreInv
<1>5. Typed
  BY <1>2 DEF Init, Typed
<1> QED
  BY <1>1, <1>2, <1>3, <1>4, <1>5 DEF Init, ReceiverInv, Gathered, Fresh, EndInv

\* Arithmetic of what has arrived.
LEMMA ArrivedFacts ==
  ASSUME Books, nextToStore \in 0 .. Total
  PROVE  /\ IsFiniteSet(Arrived) /\ receivedChunks \in 0 .. Total
         /\ receivedChunks = Total => nextToStore = Total
         /\ highestIndex \in -1 .. Total - 1
         /\ receivedChunks <= highestIndex + 1
         /\ \A i \in 0 .. Total - 1 : i \notin Arrived /\ i < highestIndex
                                        => receivedChunks <= highestIndex
         /\ Total - 1 \in Arrived => receivedChunks > 0
<1>1. Arrived \subseteq 0 .. Total - 1 /\ IsFiniteSet(0 .. Total - 1)
      /\ Cardinality(0 .. Total - 1) = Total
  BY FS_Interval DEF Arrived
<1>2. IsFiniteSet(Arrived) /\ Cardinality(Arrived) \in Nat /\ Cardinality(Arrived) <= Total
      /\ (Cardinality(Arrived) = Total => Arrived = 0 .. Total - 1)
  BY <1>1, FS_Subset, FS_CardinalityType
<1>3. nextToStore < Total => nextToStore \notin Arrived
  <2> SUFFICES ASSUME nextToStore < Total, nextToStore \in Arrived PROVE FALSE
    OBVIOUS
  <2>1. ChunkAt(nextToStore) \in waiting
    BY DEF Arrived, Has
  <2>2. PICK i \in nextToStore + 1 .. Total - 1 : ChunkAt(nextToStore) = ChunkAt(i)
    BY <2>1 DEF Books
  <2> QED
    BY <2>2, ChunkFields
<1>4. highestIndex \in -1 .. Total - 1
  BY <1>1 DEF Books, NoIndex
<1>5. IsFiniteSet(0 .. highestIndex) /\ Cardinality(0 .. highestIndex) = highestIndex + 1
  <2>1. 0 \in Int /\ highestIndex \in Int /\ highestIndex >= -1
    BY <1>4
  <2>2. /\ IsFiniteSet(0 .. highestIndex)
        /\ Cardinality(0 .. highestIndex)
             = IF 0 > highestIndex THEN 0 ELSE highestIndex - 0 + 1
    BY <2>1, FS_Interval
  <2> QED
    BY <2>1, <2>2
<1>6. Arrived \subseteq 0 .. highestIndex
  BY <1>1 DEF Books
<1>7. Cardinality(Arrived) <= highestIndex + 1
      /\ (Cardinality(Arrived) = highestIndex + 1 => Arrived = 0 .. highestIndex)
  BY <1>5, <1>6, FS_Subset
<1>8. ASSUME NEW i \in 0 .. Total - 1, i \notin Arrived, i < highestIndex
      PROVE  Cardinality(Arrived) <= highestIndex
  BY <1>2, <1>4, <1>7, <1>8
<1>9. Total - 1 \in Arrived => Cardinality(Arrived) > 0
  BY <1>2, FS_EmptySet
<1> QED
  BY <1>2, <1>3, <1>4, <1>7, <1>8, <1>9 DEF Books

\* No check of handleChunk refuses a chunk of the file that has not arrived yet.
LEMMA ChunkIsNoViolation ==
  ASSUME Books, EndInv, nextToStore \in 0 .. Total, NEW i \in 0 .. Total - 1,
         i \notin Arrived, WithinLimits(i)
  PROVE  ~Violation(ChunkAt(i)) /\ ~Has(i)
<1> DEFINE m == ChunkAt(i)
<1>1. m.index = i /\ m.bytes = Size(i) /\ ~Has(i)
  BY ChunkFields DEF Arrived
<1>2. Size(i) \in 1 .. Full /\ (Size(i) < Full => i = Total - 1 /\ LastSize < Full)
      /\ (i = Total - 1 => Size(i) = LastSize) /\ Full = 2
  BY SizeFacts DEF Full
<1>3. ~Unexpected(m)
  <2>1. ASSUME NEW c \in waiting, c.index = i PROVE FALSE
    <3>1. PICK j \in nextToStore + 1 .. Total - 1 : c = ChunkAt(j)
      BY <2>1 DEF Books
    <3>2. c = ChunkAt(i)
      BY <3>1, <2>1, ChunkFields
    <3> QED
      BY <3>2, <2>1, <1>1 DEF Has
  <2>2. ~(i < nextToStore)
    BY <1>1 DEF Has
  <2>3. ~(i >= MaxChunks)
    BY DEF WithinLimits
  <2>4. expectedEnd # NoEnd => ~(i >= expectedEnd.chunks)
    BY DEF EndInv
  <2> QED
    BY <2>1, <2>2, <2>3, <2>4, <1>1 DEF Unexpected
<1>4. ~BadLength(m)
  BY <1>1, <1>2 DEF BadLength
<1>5. highestIndex \in -1 .. Total - 1
  BY ArrivedFacts
<1>6. ~ShortInside(m)
  <2>1. shortIndex # NoIndex => shortIndex = Total - 1 /\ Total - 1 \in Arrived
    BY DEF Books
  <2>2. ~(shortIndex # NoIndex /\ i > shortIndex)
    BY <2>1
  <2>3. Size(i) < Full => shortIndex = NoIndex /\ ~(i < highestIndex)
    BY <1>2, <1>5, <2>1
  <2> QED
    BY <1>1, <2>2, <2>3 DEF ShortInside
<1>7. ~TooLong(m)
  <2>1. /\ receivedChunks \in 0 .. Total /\ receivedChunks <= highestIndex + 1
        /\ i < highestIndex => receivedChunks <= highestIndex
        /\ highestIndex \in 0 .. Total - 1 => WithinLimits(highestIndex)
        /\ highestIndex # -1 => highestIndex \in Arrived
        /\ Total - 1 \in Arrived => receivedChunks > 0
    BY ArrivedFacts DEF Books, NoIndex
  <2>2. PICK top \in 0 .. Total - 1 :
          /\ WithinLimits(top) /\ receivedChunks <= top /\ top \in Arrived \cup {i}
          /\ Total - 1 \in Arrived \/ i = Total - 1 => top = Total - 1
    <3>1. i # highestIndex
      BY <1>5, <2>1
    <3>2. Total - 1 \in Arrived => Total - 1 <= highestIndex
      BY DEF Books
    <3>3. CASE i < highestIndex
      BY <1>5, <2>1, <3>2, <3>3
    <3>4. CASE ~(i < highestIndex)
      BY <1>5, <2>1, <3>1, <3>2, <3>4
    <3> QED
      BY <3>3, <3>4
  <2>3. Bytes(top + 1) <= MaxWire /\ Bytes(top) + Size(top) = Bytes(top + 1)
    BY <2>2, SizeFacts DEF WithinLimits
  <2>4. top + 1 = Total => Bytes(top + 1) = Full * (Total - 1) + LastSize
    BY <2>2, BytesFacts
  <2>5. top + 1 < Total => Bytes(top + 1) = Full * (top + 1)
    BY <2>2, BytesFacts
  <2>6. claimed = IF Total - 1 \in Arrived THEN Full * (receivedChunks - 1) + LastSize
                                           ELSE Full * receivedChunks
    BY DEF Books
  <2>8. claimed + Size(i) <= Bytes(top + 1)
    <3>1. CASE top + 1 = Total
      BY <3>1, <1>2, <2>1, <2>2, <2>4, <2>6
    <3>2. CASE top + 1 < Total
      BY <3>2, <1>2, <2>1, <2>2, <2>5, <2>6
    <3> QED
      BY <3>1, <3>2, <2>2
  <2>9. claimed \in Nat /\ Bytes(top + 1) \in Int /\ Size(i) \in Int
    BY <1>2, <2>1, <2>2, <2>6, BytesFacts
  <2> QED
    BY <1>1, <2>3, <2>8, <2>9 DEF TooLong
<1> QED
  BY <1>1, <1>3, <1>4, <1>6, <1>7 DEF Violation

\* Storing the run of chunks now contiguous keeps the order, and loses nothing.
LEMMA RunIsStored ==
  ASSUME Books, StoreInv, queue \in Seq(Chunk), NEW i \in 0 .. Total - 1, i \notin Arrived,
         highestIndex' \in -1 .. Total - 1, UNCHANGED <<file, stored>>,
         StoreRun(waiting \cup {ChunkAt(i)})
  PROVE  /\ StoreInv' /\ queue' \in Seq(Chunk) /\ waiting' \subseteq Chunk
         /\ \A c \in waiting' : \E j \in nextToStore' + 1 .. Total - 1 : c = ChunkAt(j)
         /\ Arrived' = Arrived \cup {i}
         /\ nextToStore' < Total => nextToStore' \notin Arrived'
<1> DEFINE W == waiting \cup {ChunkAt(i)}
           Held(j) == \E c \in W : c.index = j
           At(j) == CHOOSE c \in W : c.index = j
<1>1. nextToStore \in 0 .. Total /\ i >= nextToStore
  BY DEF StoreInv, Arrived, Has
<1>2. \A c \in W : c.index \in nextToStore .. Total - 1 /\ c = ChunkAt(c.index)
  <2> SUFFICES ASSUME NEW c \in W PROVE c.index \in nextToStore .. Total - 1
                                        /\ c = ChunkAt(c.index)
    OBVIOUS
  <2>1. CASE c = ChunkAt(i)
    BY <2>1, <1>1, ChunkFields
  <2>2. CASE c \in waiting
    <3>1. PICK j \in nextToStore + 1 .. Total - 1 : c = ChunkAt(j)
      BY <2>2 DEF Books
    <3> QED
      BY <3>1, <1>1, ChunkFields
  <2> QED
    BY <2>1, <2>2
<1>3. \A j : ChunkAt(j) \in W => j \in nextToStore .. Total - 1 /\ Held(j)
  BY <1>2, ChunkFields
<1>4. \A j : Held(j) => ChunkAt(j) \in W /\ At(j) = ChunkAt(j)
  BY <1>2
<1>11. PICK next, q, w : next = nextToStore' /\ q = queue' /\ w = waiting'
  OBVIOUS
<1>12. PICK high \in -1 .. Total - 1 : high = highestIndex'
  OBVIOUS
<1>5. /\ next \in nextToStore .. high + 1 /\ ~Held(next)
      /\ \A j \in nextToStore .. next - 1 : Held(j)
      /\ q = queue \o [k \in 1 .. next - nextToStore |-> At(nextToStore + k - 1)]
      /\ w = {c \in W : c.index >= next}
  BY <1>11, <1>12 DEF StoreRun
<1> HIDE DEF W, Held, At
<1>6. next \in nextToStore .. Total
  BY <1>1, <1>5
<1>7. w \subseteq Chunk
  BY <1>1, <1>2, <1>5, ChunkTyped
<1>8. \A c \in w : \E j \in next + 1 .. Total - 1 : c = ChunkAt(j)
  <2> SUFFICES ASSUME NEW c \in w
               PROVE  \E j \in next + 1 .. Total - 1 : c = ChunkAt(j)
    OBVIOUS
  <2>1. c.index \in nextToStore .. Total - 1 /\ c = ChunkAt(c.index) /\ c.index >= next
        /\ Held(c.index)
    BY <1>2, <1>5 DEF Held
  <2>2. c.index # next
    BY <2>1, <1>5
  <2> QED
    BY <2>1, <2>2, <1>1, <1>6
<1>9. {j \in 0 .. Total - 1 : j < next \/ ChunkAt(j) \in w} = Arrived \cup {i}
  <2>1. ASSUME NEW j \in 0 .. Total - 1, j < next \/ ChunkAt(j) \in w
        PROVE  j = i \/ Has(j)
    <3>1. CASE j < nextToStore
      BY <3>1 DEF Has
    <3>2. CASE j \in nextToStore .. next - 1 \/ ChunkAt(j) \in w
      <4>1. ChunkAt(j) \in W
        BY <3>2, <1>4, <1>5
      <4> QED
        BY <4>1, ChunkFields DEF W, Has
    <3> QED
      BY <3>1, <3>2, <2>1, <1>1, <1>6
  <2>2. ASSUME NEW j \in 0 .. Total - 1, j = i \/ Has(j)
        PROVE  j < next \/ ChunkAt(j) \in w
    <3>1. CASE j < nextToStore
      BY <3>1, <1>1, <1>6
    <3>2. CASE ChunkAt(j) \in W
      BY <3>2, <1>1, <1>5, <1>6, ChunkFields
    <3> QED
      BY <3>1, <3>2, <2>2 DEF W, Has
  <2> QED
    BY <2>1, <2>2 DEF Arrived, Has
<1>10. /\ q \in Seq(Chunk) /\ Len(file) + Len(q) = next
       /\ \A k \in DOMAIN q : q[k] = ChunkAt(Len(file) + k - 1)
  <2> DEFINE d == next - nextToStore
             run == [k \in 1 .. d |-> At(nextToStore + k - 1)]
  <2>1. d \in Nat /\ \A k \in 1 .. d : /\ At(nextToStore + k - 1) = ChunkAt(nextToStore + k - 1)
                                       /\ nextToStore + k - 1 \in 0 .. Total - 1
    BY <1>1, <1>4, <1>5, <1>6
  <2>2. run \in Seq(Chunk) /\ Len(run) = d /\ \A k \in 1 .. d : run[k] = ChunkAt(nextToStore + k - 1)
    BY <2>1, ChunkTyped
  <2>3. q = queue \o run
    BY <1>5
  <2> HIDE DEF d, run
  <2>4. /\ q \in Seq(Chunk) /\ Len(q) = Len(queue) + d
        /\ \A k \in 1 .. Len(queue) : q[k] = queue[k]
        /\ \A k \in Len(queue) + 1 .. Len(queue) + d : q[k] = run[k - Len(queue)]
    <3>1. /\ queue \o run \in Seq(Chunk) /\ Len(queue \o run) = Len(queue) + Len(run)
          /\ \A k \in 1 .. Len(queue) + Len(run) :
               (queue \o run)[k] = IF k <= Len(queue) THEN queue[k] ELSE run[k - Len(queue)]
      BY <2>2, ConcatProperties
    <3>2. Len(queue) \in Nat
      OBVIOUS
    <3> QED
      BY <3>1, <3>2, <2>1, <2>2, <2>3
  <2>5. Len(queue) \in Nat /\ Len(file) + Len(queue) = nextToStore /\ Len(file) \in Int
        /\ DOMAIN queue = 1 .. Len(queue) /\ DOMAIN q = 1 .. Len(queue) + d
    BY <2>4, <2>1 DEF StoreInv
  <2>6. ASSUME NEW k \in DOMAIN q PROVE q[k] = ChunkAt(Len(file) + k - 1)
    <3>1. CASE k \in 1 .. Len(queue)
      BY <3>1, <2>4, <2>5 DEF StoreInv
    <3>2. CASE k \in Len(queue) + 1 .. Len(queue) + d
      <4>1. k - Len(queue) \in 1 .. d /\ nextToStore + (k - Len(queue)) - 1 = Len(file) + k - 1
        BY <3>2, <2>1, <2>5, <1>1
      <4>2. q[k] = ChunkAt(nextToStore + (k - Len(queue)) - 1)
        BY <4>1, <3>2, <2>2, <2>4
      <4> QED
        BY <4>1, <4>2
    <3> QED
      BY <3>1, <3>2, <2>1, <2>5
  <2>7. next = nextToStore + d
    BY <1>1, <1>6 DEF d
  <2> QED
    BY <2>4, <2>5, <2>6, <2>7, <2>1, <1>1, <1>6
<1>13. Arrived' = Arrived \cup {i}
  BY <1>9, <1>11 DEF Arrived, Has
<1>15. next \notin {j \in 0 .. Total - 1 : j < next \/ ChunkAt(j) \in w}
  <2> SUFFICES ASSUME next \in 0 .. Total - 1, ChunkAt(next) \in w PROVE FALSE
    OBVIOUS
  <2> QED
    BY <1>8, ChunkFields
<1>16. nextToStore' \notin Arrived'
  BY <1>11, <1>15 DEF Arrived, Has
<1>14. StoreInv'
  BY <1>1, <1>6, <1>10, <1>11 DEF StoreInv
<1> QED
  BY <1>7, <1>8, <1>10, <1>11, <1>13, <1>14, <1>16

\* Accept: a chunk of the file arrives.
LEMMA ChunkAccepted ==
  ASSUME ReceiverInv, rState = "open", NEW i \in 0 .. Total - 1, i \notin Arrived,
         WithinLimits(i), Accept(ChunkAt(i))
  PROVE  /\ ReceiverInv'
         /\ Arrived' = Arrived \cup {i} /\ receivedChunks' = receivedChunks + 1
<1> DEFINE m == ChunkAt(i)
<1>1. /\ Books /\ Typed /\ StoreInv /\ EndInv /\ nextToStore \in 0 .. Total
  BY DEF ReceiverInv, Gathered, StoreInv
<1>2. m.index = i /\ m.bytes = Size(i) /\ m.t = "chunk"
  BY ChunkFields
<1>3. Size(i) \in 1 .. Full /\ (Size(i) < Full => i = Total - 1 /\ LastSize < Full)
      /\ (i = Total - 1 => Size(i) = LastSize) /\ Full = 2
  BY SizeFacts DEF Full
<1>4. /\ IsFiniteSet(Arrived) /\ receivedChunks \in 0 .. Total
      /\ highestIndex \in -1 .. Total - 1
      /\ Total - 1 \in Arrived => receivedChunks > 0
  BY <1>1, ArrivedFacts
<1> HIDE DEF m
<1>5. /\ shortIndex' = IF Size(i) < Full THEN i ELSE shortIndex
      /\ highestIndex' = IF i > highestIndex THEN i ELSE highestIndex
      /\ claimed' = claimed + Size(i) /\ receivedChunks' = receivedChunks + 1
      /\ UNCHANGED <<expectedEnd, file, stored>>
  BY <1>2 DEF Accept, m
<1>6. highestIndex' \in -1 .. Total - 1
  BY <1>4, <1>5
<1>7. /\ StoreInv' /\ queue' \in Seq(Chunk) /\ waiting' \subseteq Chunk
      /\ \A c \in waiting' : \E j \in nextToStore' + 1 .. Total - 1 : c = ChunkAt(j)
      /\ Arrived' = Arrived \cup {i}
      /\ nextToStore' < Total => nextToStore' \notin Arrived'
  <2>1. StoreRun(waiting \cup {ChunkAt(i)}) /\ queue \in Seq(Chunk)
    BY <1>1 DEF Accept, Typed
  <2> QED
    BY <1>1, <1>5, <1>6, <2>1, RunIsStored
<1>8. IsFiniteSet(Arrived') /\ receivedChunks' = Cardinality(Arrived')
      /\ Arrived' \subseteq 0 .. Total - 1
  <2>1. IsFiniteSet(Arrived \cup {i}) /\ Cardinality(Arrived \cup {i}) = Cardinality(Arrived) + 1
    BY <1>4, FS_AddElement
  <2>2. receivedChunks = Cardinality(Arrived)
    BY <1>1 DEF Books
  <2>3. Arrived \subseteq 0 .. Total - 1
    BY DEF Arrived
  <2> QED
    BY <1>5, <1>7, <2>1, <2>2, <2>3
<1>9. receivedChunks' \in 0 .. Total
      /\ (receivedChunks' = Total => Arrived' = 0 .. Total - 1)
  <2>1. IsFiniteSet(0 .. Total - 1) /\ Cardinality(0 .. Total - 1) = Total
    BY FS_Interval
  <2>2. Cardinality(Arrived') <= Total /\ (Cardinality(Arrived') = Total => Arrived' = 0 .. Total - 1)
    BY <1>8, <2>1, FS_Subset
  <2> QED
    BY <1>4, <1>5, <1>8, <2>2
<1>10. receivedChunks' = Total => nextToStore' = Total
  BY <1>7, <1>9 DEF StoreInv
<1>11. \A j \in Arrived' : j <= highestIndex' /\ WithinLimits(j)
  <2> SUFFICES ASSUME NEW j \in Arrived' PROVE j <= highestIndex' /\ WithinLimits(j)
    OBVIOUS
  <2>1. j \in Arrived => j <= highestIndex /\ WithinLimits(j) /\ j \in Int
    BY <1>1 DEF Books, Arrived
  <2> QED
    BY <2>1, <1>4, <1>5, <1>7
<1>12. highestIndex' \in Arrived' \cup {NoIndex}
  BY <1>1, <1>5, <1>7 DEF Books
<1>13. shortIndex' = IF Total - 1 \in Arrived' /\ LastSize < Full THEN Total - 1 ELSE NoIndex
  BY <1>1, <1>3, <1>5, <1>7 DEF Books
<1>14. claimed' = IF Total - 1 \in Arrived' THEN Full * (receivedChunks' - 1) + LastSize
                                            ELSE Full * receivedChunks'
  <2>1. claimed = IF Total - 1 \in Arrived THEN Full * (receivedChunks - 1) + LastSize
                                           ELSE Full * receivedChunks
    BY <1>1 DEF Books
  <2>2. i # Total - 1 => Size(i) = Full
    BY <1>3
  <2>3. CASE i = Total - 1
    BY <1>3, <1>4, <1>5, <1>7, <2>1, <2>3
  <2>4. CASE i # Total - 1
    BY <1>3, <1>4, <1>5, <1>7, <2>1, <2>2, <2>4
  <2> QED
    BY <2>3, <2>4
<1>15. claimed' \in Nat
  BY <1>1, <1>3, <1>5 DEF Typed
<1>16. CASE expectedEnd # NoEnd /\ receivedChunks' = Total
  <2>1. expectedEnd.chunks = Total /\ expectedEnd.bytes = Bytes(Total)
    BY <1>1, <1>16 DEF EndInv
  <2>2. claimed' = Bytes(Total)
    <3>1. Total - 1 \in Arrived'
      BY <1>9, <1>16
    <3> QED
      BY <3>1, <1>14, <1>16, BytesFacts
  <2>3. AllThere(receivedChunks') /\ Complete(claimed', expectedEnd.bytes)
    BY <2>1, <1>16 DEF Accept, AllThere
  <2>4. rState' = "storing" /\ rWhy' = rWhy
    BY <2>1, <2>2, <2>3 DEF Complete
  <2>5. EndInv'
    BY <1>1, <1>5, <1>10, <1>16, <2>4 DEF EndInv
  <2>6. Typed'
    BY <1>1, <1>5, <1>6, <1>7, <1>9, <1>13, <1>15, <2>4 DEF Typed, NoIndex
  <2> QED
    BY <1>5, <1>7, <2>4, <2>5, <2>6 DEF ReceiverInv, Gathered
<1>17. CASE ~(expectedEnd # NoEnd /\ receivedChunks' = Total)
  <2>1. expectedEnd # NoEnd => expectedEnd.chunks = Total
    BY <1>1 DEF EndInv
  <2>2. rState' = "open" /\ rWhy' = rWhy
    BY <2>1, <1>17 DEF Accept, AllThere, outcomeVars
  <2>3. EndInv'
    BY <1>1, <1>5, <2>2 DEF EndInv
  <2>4. Typed'
    BY <1>1, <1>5, <1>6, <1>7, <1>9, <1>13, <1>15, <2>2 DEF Typed, NoIndex
  <2>5. expectedEnd' # NoEnd => receivedChunks' < Total
    BY <1>5, <1>9, <1>17
  <2>6. Books'
    BY <1>7, <1>8, <1>11, <1>12, <1>13, <1>14, <2>5 DEF Books
  <2> QED
    BY <1>5, <1>7, <2>3, <2>4, <2>6 DEF ReceiverInv, Gathered
<1> QED
  BY <1>16, <1>17

\* handleChunk: a chunk that is still on its way is taken in, or there is no room.
LEMMA ChunkHandled ==
  ASSUME ReceiverInv, rState = "open", NEW i \in 0 .. Total - 1, i \notin Arrived,
         WithinLimits(i), HandleChunk(ChunkAt(i))
  PROVE  /\ ReceiverInv' /\ expectedEnd' = expectedEnd
         /\ \/ Arrived' = Arrived \cup {i} /\ receivedChunks' = receivedChunks + 1
            \/ rState' = "failed" /\ receivedChunks' = receivedChunks
<1>1. ~Violation(ChunkAt(i))
  BY ChunkIsNoViolation DEF ReceiverInv, Gathered, StoreInv
<1>2. CASE Backlogged(ChunkAt(i))
  <2>1. /\ rState' = "failed" /\ rWhy' = "backlog" /\ waiting' = {}
        /\ UNCHANGED <<nextToStore, receivedChunks, highestIndex, shortIndex, claimed,
                       expectedEnd, queue, file, stored>>
    BY <1>1, <1>2 DEF HandleChunk, Fail, storeVars
  <2> QED
    BY <2>1 DEF ReceiverInv, Typed, StoreInv, EndInv, Gathered
<1>3. CASE ~Backlogged(ChunkAt(i))
  <2>1. Accept(ChunkAt(i))
    BY <1>1, <1>3 DEF HandleChunk
  <2>2. expectedEnd' = expectedEnd
    BY <2>1 DEF Accept
  <2> QED
    BY <2>1, <2>2, ChunkAccepted
<1> QED
  BY <1>2, <1>3

\* handleEnd: the end of the file contradicts nothing that arrived.
LEMMA EndHandled ==
  ASSUME ReceiverInv, rState = "open", expectedEnd = NoEnd, Total <= MaxChunks,
         Bytes(Total) <= MaxWire, HandleEnd(EndOfFile)
  PROVE  /\ ReceiverInv' /\ rState' \in {"open", "storing"}
         /\ Arrived' = Arrived /\ receivedChunks' = receivedChunks
         /\ expectedEnd' = [chunks |-> Total, bytes |-> Bytes(Total)]
<1>1. /\ Books /\ Typed /\ StoreInv /\ EndInv /\ nextToStore \in 0 .. Total
  BY DEF ReceiverInv, Gathered, StoreInv
<1>2. EndOfFile.index = Total /\ EndOfFile.bytes = Bytes(Total)
  BY EndFields
<1>3. /\ IsFiniteSet(Arrived) /\ receivedChunks \in 0 .. Total
      /\ highestIndex \in -1 .. Total - 1
      /\ receivedChunks = Total => nextToStore = Total
      /\ Total - 1 \in Arrived => receivedChunks > 0
  BY <1>1, ArrivedFacts
<1>4. claimed = IF Total - 1 \in Arrived THEN Full * (receivedChunks - 1) + LastSize
                                         ELSE Full * receivedChunks
  BY <1>1 DEF Books
<1>5. receivedChunks = Total /\ Total > 0 => Total - 1 \in Arrived
  BY <1>1, <1>3 DEF Arrived, Has
<1>6. /\ Bytes(Total) \in Nat /\ Full = 2
      /\ Total > 0 => Bytes(Total) = Full * (Total - 1) + LastSize
      /\ Total = 0 => Bytes(Total) = 0
  BY BytesFacts DEF Full
<1>7. claimed <= Bytes(Total) /\ (receivedChunks = Total => claimed = Bytes(Total))
  <2>1. CASE Total = 0
    BY <2>1, <1>3, <1>4, <1>6
  <2>2. CASE Total > 0 /\ Total - 1 \in Arrived
    BY <2>2, <1>3, <1>4, <1>6
  <2>3. CASE Total > 0 /\ Total - 1 \notin Arrived
    <3>1. receivedChunks < Total
      BY <2>3, <1>3, <1>5
    <3> QED
      BY <2>3, <3>1, <1>3, <1>4, <1>6
  <2> QED
    BY <2>1, <2>2, <2>3
<1>8. ~Contradicted(EndOfFile)
  <2>1. shortIndex # NoIndex => shortIndex = Total - 1
    BY <1>1 DEF Books
  <2>2. claimed \in Nat
    BY <1>1 DEF Typed
  <2> QED
    BY <2>1, <2>2, <1>2, <1>3, <1>6, <1>7 DEF Contradicted
<1>9. /\ expectedEnd' = [chunks |-> Total, bytes |-> Bytes(Total)]
      /\ IF receivedChunks = Total THEN Complete(claimed, Bytes(Total)) ELSE UNCHANGED outcomeVars
      /\ UNCHANGED <<waiting, nextToStore, receivedChunks, highestIndex, shortIndex, claimed,
                     queue, file, stored>>
  BY <1>2, <1>8 DEF HandleEnd, storeVars
<1>10. expectedEnd' # NoEnd
  BY <1>9 DEF NoEnd
<1>11. Arrived' = Arrived
  BY <1>9 DEF Arrived, Has
<1>12. Typed' /\ StoreInv' /\ rWhy' = rWhy
       /\ rState' = IF receivedChunks = Total THEN "storing" ELSE "open"
  BY <1>1, <1>7, <1>9 DEF Typed, StoreInv, Complete, outcomeVars
<1>13. EndInv'
  BY <1>1, <1>3, <1>9, <1>10, <1>12 DEF EndInv
<1>14. receivedChunks # Total => Books'
  <2>1. receivedChunks # Total => receivedChunks < Total
    BY <1>3
  <2> QED
    BY <2>1, <1>1, <1>9, <1>11 DEF Books
<1> QED
  BY <1>9, <1>11, <1>12, <1>13, <1>14 DEF ReceiverInv, Gathered

\* What a message taken from the network leaves behind.
LEMMA OffTheNet ==
  ASSUME Wires, NEW l \in Lane, Deliver(l), NEW m, m = Head(net[l])
  PROVE  /\ m \in Honest /\ OnWire(m) /\ Holds(net, m)
         /\ m # Abort => ~OnWire(m)' /\ ~Holds(net', m)
         /\ \A x : Holds(net', x) => Holds(net, x)
         /\ \A x : OnWire(x)' => OnWire(x)
         /\ Given' = Given /\ UNCHANGED <<chain, buf, left, senderVars>>
<1>1. TakenFrom(net, net', l) /\ UNCHANGED <<chain, buf, left, senderVars>>
  BY DEF Deliver, TakenFrom
<1>2. /\ Wire(net') /\ m \in Honest /\ Holds(net, m)
      /\ \A x : Holds(net', x) => Holds(net, x)
      /\ m # Abort => ~Holds(net', m)
  BY <1>1, Taken DEF Wires
<1>3. Given' = Given
  BY <1>1 DEF Given, senderVars, phaseVars
<1>4. m # Abort => ~OnWire(m)'
  BY <1>1, <1>2 DEF OnWire, Wires, Disjoint
<1>5. OnWire(m) /\ \A x : OnWire(x)' => OnWire(x)
  BY <1>1, <1>2 DEF OnWire
<1> QED
  BY <1>1, <1>2, <1>3, <1>4, <1>5

LEMMA DeliverStep ==
  ASSUME WireInv, ReceiverInv, Fresh, NEW l \in Lane, Deliver(l)
  PROVE  ReceiverInv' /\ Fresh'
<1>10. PICK m : m = Head(net[l])
  OBVIOUS
<1>1. /\ m \in Honest /\ m = Head(net[l]) /\ OnWire(m)
      /\ m # Abort => ~OnWire(m)'
      /\ \A x : OnWire(x)' => OnWire(x)
      /\ Given' = Given /\ sPhase' = sPhase
  BY <1>10, OffTheNet DEF WireInv, senderVars, phaseVars
<1>2. CASE ~Listening
  <2>1. UNCHANGED <<arrivalVars, storeVars, outcomeVars>>
    BY <1>2 DEF Deliver, Listening
  <2>2. Arrived' = Arrived
    BY <2>1 DEF Arrived, Has, arrivalVars
  <2>3. ReceiverInv' /\ rState' # "open"
    BY <1>2, <2>1, <2>2 DEF ReceiverInv, Typed, StoreInv, EndInv, Gathered, arrivalVars,
       storeVars, outcomeVars, Listening, ListeningStates
  <2> QED
    BY <2>3 DEF Fresh
<1>3. CASE Listening /\ m.t = "chunk"
  <2>1. PICK i \in 0 .. Total - 1 : m = ChunkAt(i) /\ WithinLimits(i)
    BY <1>1, <1>3, HonestFacts
  <2>2. rState = "open" /\ HandleChunk(ChunkAt(i))
    BY <1>1, <1>3, <2>1 DEF Deliver, Listening, ListeningStates
  <2>3. i \notin Arrived /\ i < Given /\ m # Abort
    BY <1>1, <2>1, <2>2, ChunkFields DEF Fresh, WireInv
  <2>4. /\ ReceiverInv' /\ expectedEnd' = expectedEnd
        /\ rState' = "open" => Arrived' = Arrived \cup {i}
    BY <2>1, <2>2, <2>3, ChunkHandled
  <2>5. Fresh'
    BY <1>1, <2>1, <2>2, <2>3, <2>4 DEF Fresh
  <2> QED
    BY <2>4, <2>5
<1>4. CASE Listening /\ m.t = "end"
  <2>1. m = EndOfFile /\ Total <= MaxChunks /\ Bytes(Total) <= MaxWire /\ m # Abort
    BY <1>1, <1>4, HonestFacts, EndFields
  <2>2. rState = "open" /\ HandleEnd(EndOfFile)
    BY <1>1, <1>4, <2>1 DEF Deliver, Listening, ListeningStates
  <2>3. expectedEnd = NoEnd /\ sPhase \notin {"read", "chunk"}
    BY <1>1, <2>1, <2>2 DEF Fresh, WireInv
  <2>4. ReceiverInv' /\ Arrived' = Arrived
    BY <2>1, <2>2, <2>3, EndHandled
  <2>5. Fresh'
    BY <1>1, <2>1, <2>2, <2>3, <2>4 DEF Fresh
  <2> QED
    BY <2>4, <2>5
<1>5. CASE Listening /\ m.t = "abort"
  <2>1. /\ rState' = "failed" /\ rWhy' = "abort" /\ waiting' = {}
        /\ UNCHANGED <<nextToStore, receivedChunks, highestIndex, shortIndex, claimed,
                       expectedEnd, storeVars>>
    BY <1>1, <1>5 DEF Deliver, Fail
  <2> QED
    BY <2>1 DEF ReceiverInv, Typed, StoreInv, EndInv, Gathered, Fresh, storeVars
<1> QED
  BY <1>1, <1>2, <1>3, <1>4, <1>5, HonestFacts

\* What settles the receiver without moving its data.
LEMMA ReceiverFails ==
  ASSUME ReceiverInv, rState' = "failed", rWhy' \in {"link", "storage", "stall", "disposed"},
         waiting' = {}, UNCHANGED <<nextToStore, receivedChunks, highestIndex, shortIndex,
                                    claimed, expectedEnd, storeVars>>
  PROVE  ReceiverInv' /\ Fresh'
BY DEF ReceiverInv, Typed, StoreInv, EndInv, Gathered, Fresh, storeVars

LEMMA WriteStep ==
  ASSUME ReceiverInv, Write
  PROVE  ReceiverInv' /\ Arrived' = Arrived
<1>1. /\ queue # <<>> /\ queue' = Tail(queue) /\ file' = Append(file, Head(queue))
      /\ stored' = stored + Head(queue).bytes
      /\ rState \in {"open", "storing"} /\ rState' = rState /\ rWhy' = rWhy
      /\ UNCHANGED <<waiting, nextToStore, receivedChunks, highestIndex, shortIndex, claimed,
                     expectedEnd>>
  BY DEF Write, arrivalVars, outcomeVars
<1>2. Arrived' = Arrived
  BY <1>1 DEF Arrived, Has
<1>3. /\ queue \in Seq(Chunk) /\ file \in Seq(Chunk) /\ nextToStore \in 0 .. Total
      /\ Len(file) + Len(queue) = nextToStore
      /\ \A k \in 1 .. Len(file) : file[k] = ChunkAt(k - 1)
      /\ \A k \in 1 .. Len(queue) : queue[k] = ChunkAt(Len(file) + k - 1)
      /\ stored = Bytes(Len(file))
  BY DEF ReceiverInv, Typed, StoreInv
<1>4. /\ Head(queue) = queue[1] /\ Head(queue) \in Chunk /\ Len(queue) \in Nat \ {0}
      /\ Tail(queue) \in Seq(Chunk) /\ Len(Tail(queue)) = Len(queue) - 1
      /\ \A k \in 1 .. Len(queue) - 1 : Tail(queue)[k] = queue[k + 1]
      /\ Len(file) \in Nat
  BY <1>1, <1>3
<1>5. Head(queue) = ChunkAt(Len(file)) /\ Len(file) \in 0 .. Total - 1
  BY <1>3, <1>4
<1>6. /\ Append(file, Head(queue)) \in Seq(Chunk)
      /\ Len(Append(file, Head(queue))) = Len(file) + 1
      /\ \A k \in 1 .. Len(file) : Append(file, Head(queue))[k] = file[k]
      /\ Append(file, Head(queue))[Len(file) + 1] = Head(queue)
  BY <1>3, <1>4
<1>7. /\ file' \in Seq(Chunk) /\ Len(file') = Len(file) + 1 /\ DOMAIN file' = 1 .. Len(file) + 1
      /\ \A k \in DOMAIN file' : file'[k] = ChunkAt(k - 1)
  BY <1>1, <1>3, <1>4, <1>5, <1>6
<1>8. /\ queue' \in Seq(Chunk) /\ Len(queue') = Len(queue) - 1
      /\ DOMAIN queue' = 1 .. Len(queue) - 1
      /\ \A k \in DOMAIN queue' : queue'[k] = ChunkAt(Len(file') + k - 1)
  <2>1. \A k \in 1 .. Len(queue) - 1 : Len(file) + (k + 1) - 1 = Len(file') + k - 1
    BY <1>4, <1>7
  <2> QED
    BY <1>1, <1>3, <1>4, <2>1
<1>9. stored' = Bytes(Len(file'))
  BY <1>1, <1>3, <1>5, <1>7, ChunkFields, SizeFacts
<1>10. StoreInv'
  <2>1. nextToStore' \in 0 .. Total
    BY <1>1, <1>3
  <2>2. Len(file') + Len(queue') = nextToStore'
    BY <1>1, <1>3, <1>4, <1>7, <1>8
  <2> QED
    BY <2>1, <2>2, <1>7, <1>8, <1>9 DEF StoreInv
<1>11. Typed' /\ EndInv'
  BY <1>1, <1>7, <1>8 DEF ReceiverInv, Typed, EndInv
<1>12. Gathered'
  BY <1>1, <1>2 DEF ReceiverInv, Gathered, Books
<1> QED
  BY <1>2, <1>10, <1>11, <1>12 DEF ReceiverInv

LEMMA SealStep ==
  ASSUME ReceiverInv, Seal
  PROVE  ReceiverInv' /\ rState' = "ok" /\ UNCHANGED <<arrivalVars, storeVars, rWhy>>
<1>1. rState = "storing" /\ queue = <<>> /\ UNCHANGED <<arrivalVars, storeVars>>
  BY DEF Seal
<1>2. stored = expectedEnd.bytes
  BY <1>1 DEF ReceiverInv, StoreInv, EndInv
<1>3. rState' = "ok" /\ rWhy' = rWhy
  BY <1>2 DEF Seal
<1>4. UNCHANGED <<waiting, nextToStore, receivedChunks, highestIndex, shortIndex, claimed,
                  expectedEnd, queue, file, stored>>
  BY <1>1 DEF arrivalVars, storeVars
<1> QED
  BY <1>1, <1>3, <1>4 DEF ReceiverInv, Typed, StoreInv, EndInv, Gathered

\* What has arrived stays off the wires, whatever the sender does next.
LEMMA FreshStays ==
  ASSUME SenderInv, [Next]_vars, Moved, Fresh, rState' = rState,
         Arrived' = Arrived, expectedEnd' = expectedEnd
  PROVE  Fresh'
<1> SUFFICES ASSUME rState = "open" PROVE Fresh'
  BY DEF Fresh
<1>1. Given \in Nat /\ Given' \in Nat /\ Given <= Given'
  BY GivenGrows
<1>2. ASSUME NEW i \in Arrived PROVE i < Given' /\ ~OnWire(ChunkAt(i))'
  <2>1. i < Given /\ ~OnWire(ChunkAt(i)) /\ i \in Int
    BY DEF Fresh, Arrived
  <2>2. ChunkAt(i) # Abort /\ ChunkAt(i) # EndOfFile
    BY ChunkFields
  <2>3. ~Adds(ChunkAt(i))
    <3>1. ChunkAt(i) = ChunkAt(sent) => i = sent
      BY ChunkFields
    <3> QED
      BY <2>1, <2>2, <3>1, <1>1 DEF Adds
  <2> QED
    BY <1>1, <2>1, <2>2, <2>3 DEF Moved
<1>3. expectedEnd # NoEnd => sPhase' \notin {"read", "chunk"} /\ ~OnWire(EndOfFile)'
  <2>1. ChunkAt(sent) # EndOfFile /\ EndOfFile # Abort
    BY ChunkFields, EndFields
  <2> QED
    BY <2>1, PhaseGoesOn DEF Fresh, Moved, Adds
<1> QED
  BY <1>2, <1>3 DEF Fresh

LEMMA ReceiverStep ==
  SenderInv /\ WireInv /\ ReceiverInv /\ Fresh /\ [Next]_vars => ReceiverInv' /\ Fresh'
<1> SUFFICES ASSUME SenderInv, WireInv, ReceiverInv, Fresh, [Next]_vars
             PROVE  ReceiverInv' /\ Fresh'
  OBVIOUS
<1>1. Moved
  BY WireStep
<1>2. ASSUME UNCHANGED <<arrivalVars, storeVars, outcomeVars>> PROVE ReceiverInv' /\ Fresh'
  <2>1. Arrived' = Arrived
    BY <1>2 DEF Arrived, Has, arrivalVars
  <2>2. ReceiverInv'
    BY <1>2, <2>1 DEF ReceiverInv, Typed, StoreInv, EndInv, Gathered, Books, arrivalVars,
       storeVars, outcomeVars
  <2> QED
    BY <1>1, <1>2, <2>1, <2>2, FreshStays DEF arrivalVars, outcomeVars
<1>3. CASE Send \/ Over \/ UNCHANGED vars
  <2>1. UNCHANGED <<arrivalVars, storeVars, outcomeVars>>
    BY <1>3 DEF Send, Over, vars, Read, HandOver, HandOverFails, StraySend, FlushOk, FlushFails,
       SenderStops, SenderStalls, TellReceiver, SenderCloses, receiverVars
  <2> QED
    BY <1>2, <2>1
<1>4. ASSUME NEW l \in Lane,
             Transmit(l) \/ TransmitFails(l) \/ Leave(l) \/ LaneOpensAtSender(l)
               \/ LaneOpensAtReceiver(l) \/ LaneGivenUp(l) \/ Break(l) \/ SenderChannelEnds(l)
      PROVE  UNCHANGED <<arrivalVars, storeVars, outcomeVars>>
  BY <1>4 DEF Transmit, TransmitFails, Leave, LaneOpensAtSender, LaneOpensAtReceiver,
     LaneGivenUp, Break, SenderChannelEnds, receiverVars
<1>5. ASSUME NEW l \in Lane, ReceiverChannelEnds(l) PROVE ReceiverInv' /\ Fresh'
  <2>1. CASE EndsLink(l, rUsed) /\ Listening
    BY <1>5, <2>1, ReceiverFails DEF ReceiverChannelEnds, Fail
  <2>2. CASE ~(EndsLink(l, rUsed) /\ Listening)
    <3>1. UNCHANGED <<arrivalVars, storeVars, outcomeVars>>
      BY <1>5, <2>2 DEF ReceiverChannelEnds, arrivalVars
    <3> QED
      BY <1>2, <3>1
  <2> QED
    BY <2>1, <2>2
<1>6. CASE Write
  <2>1. rState' = rState /\ expectedEnd' = expectedEnd
    BY <1>6 DEF Write, outcomeVars, arrivalVars
  <2> QED
    BY <1>1, <1>6, <2>1, WriteStep, FreshStays
<1>7. CASE Seal
  BY <1>7, SealStep DEF Fresh
<1>8. CASE StorageRejects \/ ReceiverStalls \/ ReceiverDisposes
  BY <1>8, ReceiverFails DEF StorageRejects, ReceiverStalls, ReceiverDisposes, Fail
<1>9. CASE ReceiverCloses
  BY <1>2, <1>9 DEF ReceiverCloses
<1> QED
  BY <1>2, <1>3, <1>4, <1>5, <1>6, <1>7, <1>8, <1>9, DeliverStep DEF Next, Channels, Receive

-----------------------------------------------------------------------------
(* The inductive invariant, and what follows from it *)

\* Every variable but the wires' has its type; the wires' follows from WireInv.
PortInv == rOpen \subseteq Lane /\ rUsed \subseteq Lane /\ left \in Nat /\ down \subseteq Lane

DInv == SenderInv /\ WireInv /\ ReceiverInv /\ Fresh /\ PortInv

LEMMA PortStep == PortInv /\ [Next]_vars => PortInv'
<1> SUFFICES ASSUME PortInv, [Next]_vars PROVE PortInv'
  OBVIOUS
<1> USE DEF PortInv
<1>1. CASE Send
  BY <1>1 DEF Send, Read, HandOver, HandOverFails, StraySend, PutOnLink, FlushOk, FlushFails,
     SenderStops, SenderStalls, TellReceiver, SenderCloses, wireVars, receiverVars, portVars
<1>2. ASSUME NEW l \in Lane,
             Transmit(l) \/ TransmitFails(l) \/ LaneOpensAtSender(l)
               \/ LaneOpensAtReceiver(l) \/ LaneGivenUp(l) \/ Break(l) \/ SenderChannelEnds(l)
      PROVE  PortInv'
  BY <1>2 DEF Transmit, TransmitFails, LaneOpensAtSender, LaneOpensAtReceiver, LaneGivenUp,
     Break, SenderChannelEnds, receiverVars, wireVars, portVars
<1>3. ASSUME NEW l \in Lane, Leave(l) \/ Deliver(l) \/ ReceiverChannelEnds(l) PROVE PortInv'
  BY <1>3 DEF Leave, Deliver, ReceiverChannelEnds, receiverVars, portVars
<1>4. CASE Receive \/ Over \/ UNCHANGED vars
  BY <1>4 DEF Receive, Over, vars, Write, Seal, StorageRejects, ReceiverStalls,
     ReceiverDisposes, ReceiverCloses, wireVars, receiverVars, portVars
<1> QED
  BY <1>1, <1>2, <1>3, <1>4 DEF Next, Channels

\* What each side, and each wire, holds at any moment of a transfer: no chunk is
\* twice on its way, none is on its way that has arrived, and the receiver's books
\* agree with what has.
THEOREM ExchangeCorrect == Spec => []DInv
<1>1. Init => DInv
  <2>1. Init => PortInv
    BY DEF Init, PortInv, Lane
  <2> QED
    BY <2>1, SenderStart, WireStart, ReceiverStart DEF DInv
<1>2. DInv /\ [Next]_vars => DInv'
  BY SenderStep, WireStep, ReceiverStep, PortStep DEF DInv
<1> QED
  BY <1>1, <1>2, PTL DEF Spec

\* Every variable keeps its type.
THEOREM TypeCorrect == Spec => []TypeOK
<1>1. DInv => TypeOK
  <2> SUFFICES ASSUME DInv PROVE TypeOK
    OBVIOUS
  <2>1. WireTypeOK
    <3>1. Honest \subseteq Message
      BY HonestFacts
    <3>2. ASSUME NEW f, Wire(f) PROVE f \in [Lane -> Seq(Message)]
      <4>1. \A l \in Lane : f[l] \in Seq(Message)
        BY <3>1, <3>2 DEF Wire
      <4> QED
        BY <3>2, <4>1 DEF Wire
    <3> QED
      BY <3>2 DEF DInv, WireInv, Wires, PortInv, WireTypeOK
  <2>2. ReceiverTypeOK
    <3>1. /\ rOpen \subseteq Lane /\ rUsed \subseteq Lane /\ waiting \subseteq Chunk
          /\ receivedChunks \in Nat
          /\ highestIndex \in Nat \cup {NoIndex} /\ shortIndex \in Nat \cup {NoIndex}
          /\ claimed \in Nat /\ queue \in Seq(Chunk) /\ file \in Seq(Chunk)
          /\ rState \in {"open", "storing", "ok", "failed"}
          /\ rWhy \in {"none", "protocol", "backlog", "abort", "link", "storage", "stall",
                       "disposed"}
      BY DEF DInv, PortInv, ReceiverInv, Typed
    <3>2. nextToStore \in Nat /\ Len(file) \in 0 .. Total
      BY <3>1 DEF DInv, ReceiverInv, StoreInv
    <3>3. stored \in Nat
      BY <3>2, BytesFacts DEF DInv, ReceiverInv, StoreInv
    <3>4. expectedEnd \in [chunks : Nat, bytes : Nat] \cup {NoEnd}
      BY BytesFacts DEF DInv, ReceiverInv, EndInv
    <3> QED
      BY <3>1, <3>2, <3>3, <3>4 DEF ReceiverTypeOK
  <2> QED
    BY <2>1, <2>2 DEF DInv, SenderInv, TypeOK
<1> QED
  BY <1>1, ExchangeCorrect, PTL

\* Whatever channel each chunk takes and whatever fails, what is written is a
\* prefix of the file in order, and all of it when the receiver succeeds.
THEOREM FileInOrderCorrect == Spec => []FileInOrder
<1>1. DInv => FileInOrder
  <2> SUFFICES ASSUME DInv PROVE FileInOrder
    OBVIOUS
  <2>1. \A k \in DOMAIN file : file[k].index = k - 1 /\ file[k].bytes = Size(k - 1)
    BY ChunkFields DEF DInv, ReceiverInv, StoreInv
  <2>2. rState = "ok" => Len(file) = Total
    BY DEF DInv, ReceiverInv, StoreInv, EndInv, Typed
  <2> QED
    BY <2>1, <2>2 DEF FileInOrder
<1> QED
  BY <1>1, ExchangeCorrect, PTL

\* No check against a sender that breaks the protocol ever fires on one that
\* keeps it.
THEOREM NoFalseAlarmCorrect == Spec => []NoFalseAlarm
<1>1. DInv => NoFalseAlarm
  BY DEF DInv, ReceiverInv, EndInv, NoFalseAlarm
<1> QED
  BY <1>1, ExchangeCorrect, PTL

\* Once `end` has checked out, only the receiver's own storage or its own user
\* can fail it.
THEOREM HeldIsSafeCorrect == Spec => HeldIsSafe
<1>1. DInv /\ [Next]_vars
        => (rState = "storing" /\ rState' = "failed" => rWhy' \in {"storage", "disposed"})
  <2> SUFFICES ASSUME DInv, [Next]_vars, rState = "storing", rState' = "failed"
               PROVE  rWhy' \in {"storage", "disposed"}
    OBVIOUS
  <2>1. ~Listening
    BY DEF Listening, ListeningStates
  <2>2. CASE Send \/ Over \/ UNCHANGED vars
    <3>1. UNCHANGED rState
      BY <2>2 DEF Send, Over, vars, Read, HandOver, HandOverFails, StraySend, FlushOk,
         FlushFails, SenderStops, SenderStalls, TellReceiver, SenderCloses, receiverVars,
         outcomeVars
    <3> QED
      BY <3>1
  <2>3. ASSUME NEW l \in Lane,
               Transmit(l) \/ TransmitFails(l) \/ Leave(l) \/ LaneOpensAtSender(l)
                 \/ LaneOpensAtReceiver(l) \/ LaneGivenUp(l) \/ Break(l)
                 \/ SenderChannelEnds(l) \/ ReceiverChannelEnds(l) \/ Deliver(l)
        PROVE  FALSE
    BY <2>1, <2>3 DEF Transmit, TransmitFails, Leave, LaneOpensAtSender, LaneOpensAtReceiver,
       LaneGivenUp, Break, SenderChannelEnds, ReceiverChannelEnds, Deliver, receiverVars,
       outcomeVars
  <2>4. CASE Write \/ ReceiverStalls \/ ReceiverCloses
    BY <2>1, <2>4 DEF Write, ReceiverStalls, ReceiverCloses, outcomeVars
  <2>5. CASE Seal
    BY <2>5, SealStep DEF DInv
  <2>6. CASE StorageRejects \/ ReceiverDisposes
    BY <2>6 DEF StorageRejects, ReceiverDisposes, Fail
  <2> QED
    BY <2>2, <2>3, <2>4, <2>5, <2>6 DEF Next, Channels, Receive
<1> QED
  BY <1>1, ExchangeCorrect, PTL DEF Spec, HeldIsSafe

-----------------------------------------------------------------------------
(* Counting: what has left the sender, and what has arrived *)

Pending == {i \in 0 .. Total - 1 : Holds(chain, ChunkAt(i)) \/ Holds(buf, ChunkAt(i))}
Crossing == {i \in 0 .. Total - 1 : Holds(net, ChunkAt(i))}

\* Every chunk that was taken from the source is pending or has left, unless the
\* transfer failed or a send was rejected; nothing arrives that has not left.
Counts ==
  /\ left + Cardinality(Pending) <= Given
  /\ sPhase \in Working \cup {"ok"} /\ sendError = FALSE => left + Cardinality(Pending) = sent
  /\ receivedChunks <= left
  /\ rState = "open" => receivedChunks + Cardinality(Crossing) <= left

\* A channel that carried nothing, and is not the first, has nothing to flush.
Quiet == \A l \in Lane \ (sUsed \cup {0}) : chain[l] = <<>> /\ buf[l] = <<>>

LEMMA SetsAreFinite ==
  /\ IsFiniteSet(Pending) /\ Cardinality(Pending) \in Nat
  /\ IsFiniteSet(Crossing) /\ Cardinality(Crossing) \in Nat
<1>1. IsFiniteSet(0 .. Total - 1)
  BY FS_Interval
<1>2. Pending \subseteq 0 .. Total - 1 /\ Crossing \subseteq 0 .. Total - 1
  BY DEF Pending, Crossing
<1> QED
  BY <1>1, <1>2, FS_Subset, FS_CardinalityType

LEMMA CountsStart == Init => Counts /\ Quiet
<1> SUFFICES ASSUME Init PROVE Counts /\ Quiet
  OBVIOUS
<1>1. Pending = {} /\ Crossing = {}
  BY NothingYet DEF Init, Pending, Crossing
<1>2. Cardinality({}) = 0
  BY FS_EmptySet
<1>3. Given = 0
  BY DEF Init, Given
<1> QED
  BY <1>1, <1>2, <1>3 DEF Init, Counts, Quiet

LEMMA QuietStep == SenderInv /\ Wires /\ Quiet /\ [Next]_vars => Quiet'
<1> SUFFICES ASSUME SenderInv, Wires, Quiet, [Next]_vars,
                    NEW a \in Lane, a # 0, a \notin sUsed'
             PROVE  chain'[a] = <<>> /\ buf'[a] = <<>>
  BY DEF Quiet
<1>1. chain \in [Lane -> Seq(Honest)] /\ buf \in [Lane -> Seq(Honest)] /\ 0 \in Lane
  BY DEF Wires, Wire, Lane
<1>2. a \notin sUsed => chain[a] = <<>> /\ buf[a] = <<>>
  BY DEF Quiet
<1>3. CASE Read
  BY <1>1, <1>2, <1>3 DEF Read, linkVars
<1>4. ASSUME NEW k \in DOMAIN channels, PutOnLink(k, sent)
      PROVE  chain'[a] = <<>> /\ buf'[a] = <<>>
  <2>1. channels[k] # a /\ a \notin sUsed /\ channels[k] \in Lane
    BY <1>4 DEF PutOnLink, SenderInv, SenderTypeOK
  <2> QED
    BY <2>1, <1>1, <1>2, <1>4 DEF PutOnLink
<1>5. CASE HandOver \/ StraySend
  BY <1>4, <1>5 DEF HandOver, StraySend
<1>6. CASE HandOverFails \/ FlushOk \/ FlushFails \/ SenderStops \/ SenderStalls \/ SenderCloses
           \/ Receive \/ Over \/ UNCHANGED vars
  <2>1. UNCHANGED <<chain, buf, sUsed>>
    BY <1>6 DEF HandOverFails, FlushOk, FlushFails, SenderStops, SenderStalls, SenderCloses,
       Receive, Over, vars, wireVars, senderVars, linkVars, Write, Seal, StorageRejects,
       ReceiverStalls, ReceiverDisposes, ReceiverCloses
  <2> QED
    BY <2>1, <1>2
<1>7. CASE TellReceiver
  BY <1>1, <1>2, <1>7 DEF TellReceiver, linkVars
<1>8. ASSUME NEW l \in Lane, Transmit(l) PROVE chain'[a] = <<>> /\ buf'[a] = <<>>
  <2>1. sUsed' = sUsed /\ chain[l] # <<>>
    BY <1>8 DEF Transmit, linkVars
  <2>2. a # l
    BY <2>1, <1>2
  <2> QED
    BY <2>1, <2>2, <1>1, <1>2, <1>8 DEF Transmit
<1>9. ASSUME NEW l \in Lane, TransmitFails(l) PROVE chain'[a] = <<>> /\ buf'[a] = <<>>
  <2>1. sUsed' = sUsed /\ chain[l] # <<>>
    BY <1>9 DEF TransmitFails
  <2>2. a # l
    BY <2>1, <1>2
  <2> QED
    BY <2>1, <2>2, <1>1, <1>2, <1>9 DEF TransmitFails
<1>10. ASSUME NEW l \in Lane, Leave(l) PROVE chain'[a] = <<>> /\ buf'[a] = <<>>
  <2>1. sUsed' = sUsed /\ buf[l] # <<>>
    BY <1>10 DEF Leave, senderVars, linkVars
  <2>2. a # l
    BY <2>1, <1>2
  <2> QED
    BY <2>1, <2>2, <1>1, <1>2, <1>10 DEF Leave
<1>11. ASSUME NEW l \in Lane,
              Deliver(l) \/ LaneOpensAtSender(l) \/ LaneOpensAtReceiver(l) \/ LaneGivenUp(l)
                \/ Break(l) \/ SenderChannelEnds(l) \/ ReceiverChannelEnds(l)
       PROVE  UNCHANGED <<chain, buf, sUsed>>
  BY <1>11 DEF Deliver, LaneOpensAtSender, LaneOpensAtReceiver, LaneGivenUp, Break,
     SenderChannelEnds, ReceiverChannelEnds, senderVars, linkVars, wireVars
<1> QED
  BY <1>2, <1>3, <1>5, <1>6, <1>7, <1>8, <1>9, <1>10, <1>11 DEF Next, Send, Channels

\* A chunk put on the link is one more pending.
LEMMA PendingGrows ==
  ASSUME SenderInv, WireInv, sent < Total, Given = sent,
         NEW k \in DOMAIN channels, PutOnLink(k, sent), WithinLimits(sent)
  PROVE  /\ Cardinality(Pending') = Cardinality(Pending) + 1
         /\ Crossing' = Crossing /\ left' = left
<1>1. channels[k] \in Lane /\ sent \in 0 .. Total - 1
  BY DEF SenderInv, SenderTypeOK
<1>2. PICK i \in 0 .. Total - 1 : i = sent
  BY <1>1
<1>3. ChunkAt(i) \in Honest /\ ~OnWire(ChunkAt(i))
  BY <1>2, ChunkIsHonest DEF WireInv
<1>4. PutOn(chain, chain', channels[k], ChunkAt(i)) /\ buf' = buf /\ net' = net /\ left' = left
  BY <1>2 DEF PutOnLink, ChunkAt, PutOn
<1>5. /\ \A x : Holds(chain', x) => Holds(chain, x) \/ x = ChunkAt(i)
      /\ \A x : Holds(chain, x) => Holds(chain', x)
      /\ Holds(chain', ChunkAt(i))
  <2>1. Wire(chain) /\ ~Holds(chain, ChunkAt(i))
    BY <1>3 DEF WireInv, Wires, OnWire
  <2>2. PICK l \in Lane : l = channels[k]
    BY <1>1
  <2>3. PutOn(chain, chain', l, ChunkAt(i))
    BY <1>4, <2>2
  <2> QED
    BY <2>1, <2>3, <1>3, Put
<1>6. Pending' = Pending \cup {i}
  BY <1>4, <1>5, ChunkFields DEF Pending
<1>7. i \notin Pending
  BY <1>3 DEF Pending, OnWire
<1>8. Crossing' = Crossing
  BY <1>4 DEF Crossing
<1> QED
  BY <1>4, <1>6, <1>7, <1>8, SetsAreFinite, FS_AddElement

\* A step never revives a transfer, at either side, and forgets no rejected send.
LEMMA NothingRevives ==
  ASSUME SenderInv, [Next]_vars
  PROVE  /\ sPhase' \in Working \cup {"ok"} => sPhase \in Working \cup {"ok"}
         /\ sendError' = FALSE => sendError = FALSE
         /\ rState' = "open" => rState = "open"
         /\ HandOver \/ sent' = sent
<1>1. CASE Send
  BY <1>1 DEF Send, Read, HandOver, HandOverFails, StraySend, PutOnLink, FlushOk, FlushFails,
     FailByPeer, SenderStops, SenderStalls, FailTelling, TellReceiver, SenderCloses, phaseVars,
     linkVars, receiverVars, outcomeVars, Working, Timed
<1>2. ASSUME NEW l \in Lane,
             Transmit(l) \/ TransmitFails(l) \/ Leave(l) \/ LaneOpensAtSender(l)
               \/ LaneOpensAtReceiver(l) \/ LaneGivenUp(l) \/ Break(l) \/ SenderChannelEnds(l)
      PROVE  /\ sPhase' \in Working \cup {"ok"} => sPhase \in Working \cup {"ok"}
             /\ sendError' = FALSE => sendError = FALSE
             /\ rState' = "open" => rState = "open"
             /\ sent' = sent
  BY <1>2 DEF Transmit, TransmitFails, Leave, LaneOpensAtSender, LaneOpensAtReceiver,
     LaneGivenUp, Break, SenderChannelEnds, FailTelling, FailByPeer, senderVars, phaseVars,
     linkVars, receiverVars, outcomeVars, Working
<1>3. ASSUME NEW l \in Lane, ReceiverChannelEnds(l) \/ Deliver(l)
      PROVE  UNCHANGED senderVars /\ (rState' = "open" => rState = "open")
  <2>1. UNCHANGED senderVars /\ (rState = "open" \/ UNCHANGED outcomeVars)
    BY <1>3 DEF ReceiverChannelEnds, Deliver, Listening, ListeningStates
  <2> QED
    BY <2>1 DEF outcomeVars
<1>4. CASE Receive \/ Over \/ UNCHANGED vars
  <2>1. UNCHANGED senderVars /\ (rState' = "open" => rState = "open")
    BY <1>4 DEF Receive, Over, vars, Write, Seal, StorageRejects, ReceiverStalls,
       ReceiverDisposes, ReceiverCloses, Fail, receiverVars, outcomeVars
  <2> QED
    BY <2>1 DEF senderVars, phaseVars, linkVars
<1>5. UNCHANGED senderVars => UNCHANGED <<sPhase, sent, sendError>>
  BY DEF senderVars, phaseVars, linkVars
<1> QED
  BY <1>1, <1>2, <1>3, <1>4, <1>5 DEF Next, Channels

\* The counts survive a step that counts nothing.
LEMMA CountsKept ==
  ASSUME SenderInv, PortInv, Counts, [Next]_vars, ~HandOver, Pending' = Pending,
         Crossing' = Crossing, left' = left, receivedChunks' = receivedChunks
  PROVE  Counts'
<1>1. /\ Given \in Nat /\ Given' \in Nat /\ Given <= Given' /\ left \in Nat
      /\ Cardinality(Pending) \in Nat
  BY GivenGrows, SetsAreFinite DEF PortInv
<1>2. left' + Cardinality(Pending') <= Given'
  <2>1. left + Cardinality(Pending) <= Given
    BY DEF Counts
  <2>2. left + Cardinality(Pending) <= Given'
    BY <2>1, <1>1
  <2> QED
    BY <2>2
<1>3. sPhase' \in Working \cup {"ok"} /\ sendError' = FALSE
        => left' + Cardinality(Pending') = sent'
  BY NothingRevives DEF Counts
<1>4. receivedChunks' <= left'
  BY DEF Counts
<1>5. rState' = "open" => receivedChunks' + Cardinality(Crossing') <= left'
  BY NothingRevives DEF Counts
<1> QED
  BY <1>2, <1>3, <1>4, <1>5 DEF Counts

\* One chunk leaves a buffer for the network.
LEMMA ChunkLeaves ==
  ASSUME WireInv, NEW l \in Lane, Leave(l)
  PROVE  \/ Pending' = Pending /\ Crossing' = Crossing /\ left' = left
         \/ /\ Cardinality(Pending') = Cardinality(Pending) - 1
            /\ Cardinality(Crossing') = Cardinality(Crossing) + 1 /\ left' = left + 1
<1>1. PICK m : m = Head(buf[l])
  OBVIOUS
<1>2. TakenFrom(buf, buf', l) /\ PutOn(net, net', l, m) /\ chain' = chain
      /\ left' = IF m.t = "chunk" THEN left + 1 ELSE left
  BY <1>1 DEF Leave, TakenFrom, PutOn
<1>3. /\ Wire(buf) /\ Wire(net)
      /\ Disjoint(chain, buf) /\ Disjoint(chain, net) /\ Disjoint(buf, net)
  BY DEF WireInv, Wires
<1>4. /\ m \in Honest /\ Holds(buf, m)
      /\ \A x : Holds(buf', x) => Holds(buf, x)
      /\ \A x : Holds(buf, x) => Holds(buf', x) \/ x = m
      /\ m # Abort => ~Holds(buf', m)
  BY <1>1, <1>2, <1>3, Taken
<1>5. m = Abort \/ ~Holds(net, m)
  BY <1>3, <1>4 DEF Disjoint
<1>6. /\ \A x : Holds(net', x) => Holds(net, x) \/ x = m
      /\ \A x : Holds(net, x) => Holds(net', x)
      /\ Holds(net', m)
  <2>1. Wire(net) /\ m \in Honest /\ PutOn(net, net', l, m)
    BY <1>2, <1>3, <1>4
  <2> QED
    BY <2>1, <1>5, Put
<1>7. CASE m.t # "chunk"
  <2>1. \A i : m # ChunkAt(i)
    BY <1>7, ChunkFields
  <2> QED
    BY <1>2, <1>4, <1>6, <1>7, <2>1 DEF Pending, Crossing
<1>8. CASE m.t = "chunk"
  <2>1. PICK i \in 0 .. Total - 1 : m = ChunkAt(i) /\ m # Abort
    BY <1>4, <1>8, HonestFacts, ChunkFields
  <2>2. \A j : ChunkAt(j) = m => j = i
    BY <2>1, ChunkFields
  <2>3. ~Holds(chain, m) /\ ~Holds(net, m)
    BY <1>3, <1>4, <1>5, <2>1 DEF Disjoint
  <2>4. Pending' = Pending \ {i} /\ i \in Pending
    BY <1>2, <1>4, <2>1, <2>2, <2>3 DEF Pending
  <2>5. Crossing' = Crossing \cup {i} /\ i \notin Crossing
    BY <1>6, <2>1, <2>2, <2>3 DEF Crossing
  <2> QED
    BY <1>2, <1>8, <2>4, <2>5, SetsAreFinite, FS_AddElement, FS_RemoveElement
<1> QED
  BY <1>7, <1>8

\* One chunk is delivered, or lost with a channel that nobody listens to.
LEMMA ChunkDelivered ==
  ASSUME WireInv, ReceiverInv, Fresh, Counts, PortInv, NEW l \in Lane, Deliver(l)
  PROVE  /\ Pending' = Pending /\ left' = left /\ receivedChunks' <= left
         /\ rState' = "open" => receivedChunks' + Cardinality(Crossing') <= left
<1>1. PICK m : m = Head(net[l])
  OBVIOUS
<1>2. /\ m \in Honest /\ OnWire(m) /\ Holds(net, m)
      /\ m # Abort => ~OnWire(m)' /\ ~Holds(net', m)
      /\ \A x : Holds(net', x) => Holds(net, x)
      /\ Given' = Given /\ UNCHANGED <<chain, buf, left, senderVars>>
  BY <1>1, OffTheNet DEF WireInv
<1>3. Pending' = Pending /\ left' = left
  BY <1>2 DEF Pending
<1>4. /\ receivedChunks \in Nat /\ left \in Nat /\ receivedChunks <= left
      /\ rState = "open" => receivedChunks + Cardinality(Crossing) <= left
  BY DEF Counts, PortInv, ReceiverInv, Typed
<1>5. Crossing' \subseteq Crossing /\ Cardinality(Crossing') <= Cardinality(Crossing)
      /\ Cardinality(Crossing) \in Nat /\ Cardinality(Crossing') \in Nat
  <2>1. Crossing' \subseteq Crossing
    BY <1>2 DEF Crossing
  <2> QED
    BY <2>1, SetsAreFinite, FS_Subset, FS_CardinalityType
<1>6. CASE ~Listening
  <2>1. receivedChunks' = receivedChunks /\ rState' = rState /\ rState # "open"
    BY <1>6 DEF Deliver, Listening, ListeningStates, arrivalVars, outcomeVars
  <2> QED
    BY <1>3, <1>4, <2>1
<1>7. CASE Listening /\ m.t # "chunk"
  <2>1. rState = "open" /\ receivedChunks' = receivedChunks
    BY <1>1, <1>7 DEF Deliver, HandleEnd, Listening, ListeningStates
  <2> QED
    BY <1>3, <1>4, <1>5, <2>1
<1>8. CASE Listening /\ m.t = "chunk"
  <2>1. PICK i \in 0 .. Total - 1 : m = ChunkAt(i) /\ WithinLimits(i) /\ m # Abort
    BY <1>2, <1>8, HonestFacts, ChunkFields
  <2>2. rState = "open" /\ HandleChunk(ChunkAt(i))
    BY <1>1, <1>8, <2>1 DEF Deliver, Listening, ListeningStates
  <2>3. i \notin Arrived
    BY <1>2, <2>1, <2>2 DEF Fresh
  <2>4. receivedChunks' = receivedChunks + 1 \/ receivedChunks' = receivedChunks
    BY <2>1, <2>2, <2>3, ChunkHandled
  <2>5. i \in Crossing /\ i \notin Crossing'
    BY <1>2, <2>1 DEF Crossing
  <2>6. Cardinality(Crossing') <= Cardinality(Crossing) - 1
    <3>1. Crossing' \subseteq Crossing \ {i}
      BY <1>5, <2>5
    <3>2. IsFiniteSet(Crossing \ {i}) /\ Cardinality(Crossing \ {i}) = Cardinality(Crossing) - 1
      BY <2>5, SetsAreFinite, FS_RemoveElement
    <3> QED
      BY <3>1, <3>2, FS_Subset
  <2> QED
    BY <1>3, <1>4, <1>5, <2>2, <2>4, <2>6
<1> QED
  BY <1>6, <1>7, <1>8

\* A message moves from a send queue to its buffer: what is pending stays pending.
LEMMA PendingStays ==
  ASSUME WireInv, NEW l \in Lane, Transmit(l)
  PROVE  Pending' = Pending /\ Crossing' = Crossing /\ left' = left
<1>1. PICK m : m = Head(chain[l])
  OBVIOUS
<1>2. TakenFrom(chain, chain', l) /\ PutOn(buf, buf', l, m) /\ net' = net /\ left' = left
  BY <1>1 DEF Transmit, TakenFrom, PutOn
<1>3. Wire(chain) /\ Wire(buf) /\ Disjoint(chain, buf)
  BY DEF WireInv, Wires
<1>4. /\ m \in Honest /\ Holds(chain, m)
      /\ \A x : Holds(chain', x) => Holds(chain, x)
      /\ \A x : Holds(chain, x) => Holds(chain', x) \/ x = m
  BY <1>1, <1>2, <1>3, Taken
<1>5. m = Abort \/ ~Holds(buf, m)
  BY <1>3, <1>4 DEF Disjoint
<1>6. /\ \A x : Holds(buf', x) => Holds(buf, x) \/ x = m
      /\ \A x : Holds(buf, x) => Holds(buf', x)
      /\ Holds(buf', m)
  <2>1. Wire(buf) /\ m \in Honest /\ PutOn(buf, buf', l, m)
    BY <1>2, <1>3, <1>4
  <2> QED
    BY <2>1, <1>5, Put
<1>7. \A x : Holds(chain', x) \/ Holds(buf', x) <=> Holds(chain, x) \/ Holds(buf, x)
  BY <1>4, <1>6
<1> QED
  BY <1>2, <1>7 DEF Pending, Crossing

\* A rejected chunk is remembered; anything else that is rejected was no chunk.
LEMMA PendingRejected ==
  ASSUME WireInv, NEW l \in Lane, TransmitFails(l)
  PROVE  /\ Crossing' = Crossing /\ left' = left /\ Cardinality(Pending') \in Nat
         /\ Pending' = Pending \/ (sendError' = TRUE /\ Cardinality(Pending') <= Cardinality(Pending))
<1>1. PICK m : m = Head(chain[l])
  OBVIOUS
<1>2. /\ TakenFrom(chain, chain', l) /\ buf' = buf /\ net' = net /\ left' = left
      /\ m.t = "chunk" => sendError' = TRUE
  BY <1>1 DEF TransmitFails, TakenFrom
<1>3. Wire(chain)
  BY DEF WireInv, Wires
<1>4. /\ m \in Honest
      /\ \A x : Holds(chain', x) => Holds(chain, x)
      /\ \A x : Holds(chain, x) => Holds(chain', x) \/ x = m
  BY <1>1, <1>2, <1>3, Taken
<1>5. Pending' \subseteq Pending /\ Crossing' = Crossing
  BY <1>2, <1>4 DEF Pending, Crossing
<1>6. m.t # "chunk" => Pending' = Pending
  <2> SUFFICES ASSUME m.t # "chunk" PROVE Pending' = Pending
    OBVIOUS
  <2>1. \A i : m # ChunkAt(i)
    BY ChunkFields
  <2> QED
    BY <1>2, <1>4, <2>1 DEF Pending
<1> QED
  BY <1>2, <1>5, <1>6, SetsAreFinite, FS_Subset, FS_CardinalityType

LEMMA CountsStep ==
  SenderInv /\ WireInv /\ ReceiverInv /\ Fresh /\ PortInv /\ Counts /\ [Next]_vars => Counts'
<1> SUFFICES ASSUME SenderInv, WireInv, ReceiverInv, Fresh, PortInv, Counts, [Next]_vars
             PROVE  Counts'
  OBVIOUS
<1> DEFINE Calm == Pending' = Pending /\ Crossing' = Crossing /\ left' = left
                   /\ receivedChunks' = receivedChunks
<1>1. /\ Wire(chain) /\ Wire(buf) /\ Wire(net) /\ 0 \in Lane /\ Abort \in Honest
  BY DEF WireInv, Wires, Lane, Honest
<1>2. UNCHANGED <<chain, buf, net>> => Pending' = Pending /\ Crossing' = Crossing
  BY DEF Pending, Crossing
<1>3. /\ Given \in Nat /\ Given' \in Nat /\ Given <= Given' /\ left \in Nat /\ sent \in Nat
      /\ Cardinality(Pending) \in Nat /\ Cardinality(Crossing) \in Nat
      /\ left + Cardinality(Pending) <= Given
  BY GivenGrows, SetsAreFinite DEF PortInv, SenderInv, SenderTypeOK, Counts
<1>4. CASE HandOver
  <2>1. PICK k \in DOMAIN channels : PutOnLink(k, sent)
    BY <1>4 DEF HandOver
  <2>2. /\ sPhase = "chunk" /\ sPhase' = "read" /\ sent' = sent + 1 /\ stray' = stray
        /\ UNCHANGED <<receivedChunks, rState>>
    BY <1>4 DEF HandOver, receiverVars, arrivalVars, outcomeVars
  <2>3. sent < Total /\ WithinLimits(sent) /\ Given = sent /\ Given' = sent + 1
    BY <2>2 DEF SenderInv, Given
  <2>4. /\ Cardinality(Pending') = Cardinality(Pending) + 1
        /\ Crossing' = Crossing /\ left' = left
    BY <2>1, <2>3, PendingGrows
  <2>5. sendError' = FALSE => left + Cardinality(Pending) = sent
    BY <2>2, NothingRevives DEF Counts, Working
  <2>6. sendError' = FALSE => left' + Cardinality(Pending') = sent'
    BY <1>3, <2>2, <2>4, <2>5
  <2>7. left' + Cardinality(Pending') <= Given'
    BY <1>3, <2>3, <2>4
  <2> QED
    BY <2>2, <2>4, <2>6, <2>7 DEF Counts
<1>5. CASE StraySend
  <2>1. PICK k \in DOMAIN channels : PutOnLink(k, sent)
    BY <1>5 DEF StraySend
  <2>2. /\ stray = TRUE /\ stray' = FALSE /\ sPhase' = sPhase /\ sent' = sent
        /\ sPhase \in {"telling", "failed"} /\ UNCHANGED <<receivedChunks, rState>>
    BY <1>5 DEF StraySend, receiverVars, arrivalVars, outcomeVars, SenderInv, SenderTypeOK
  <2>3. sent < Total /\ WithinLimits(sent) /\ Given = sent /\ Given' = sent + 1
    BY <2>2 DEF SenderInv, Given
  <2>4. /\ Cardinality(Pending') = Cardinality(Pending) + 1
        /\ Crossing' = Crossing /\ left' = left
    BY <2>1, <2>3, PendingGrows
  <2>5. left' + Cardinality(Pending') <= Given'
    BY <1>3, <2>3, <2>4
  <2> QED
    BY <2>2, <2>4, <2>5 DEF Counts, Working
<1>6. CASE Read
  <2>1. Calm
    <3>1. UNCHANGED <<buf, net, left, receivedChunks>>
      BY <1>6 DEF Read, receiverVars, arrivalVars
    <3>2. CASE UNCHANGED chain
      BY <1>2, <3>1, <3>2
    <3>3. CASE ~UNCHANGED chain
      <4>1. sPhase = "read" /\ PutOn(chain, chain', 0, EndOfFile) /\ sent = Total
        BY <1>6, <3>3 DEF Read, EndOfFile, PutOn
      <4>2. EndOfFile \in Honest /\ ~Holds(chain, EndOfFile)
        BY <4>1, EndIsHonest DEF SenderInv, WireInv, OnWire
      <4>3. \A x : x # EndOfFile => (Holds(chain', x) <=> Holds(chain, x))
        BY <4>1, <4>2, <1>1, Put
      <4>4. \A i : Holds(chain', ChunkAt(i)) <=> Holds(chain, ChunkAt(i))
        BY <4>3, ChunkFields
      <4> QED
        BY <3>1, <4>4 DEF Pending, Crossing
    <3> QED
      BY <3>2, <3>3
  <2>2. ~HandOver
    BY <1>6 DEF Read, HandOver
  <2> QED
    BY <2>1, <2>2, CountsKept
<1>7. CASE TellReceiver
  <2>1. Calm
    <3>1. UNCHANGED <<chain, net, left, receivedChunks>>
      BY <1>7 DEF TellReceiver, receiverVars, arrivalVars
    <3>2. CASE UNCHANGED buf
      BY <1>2, <3>1, <3>2
    <3>3. CASE ~UNCHANGED buf
      <4>1. PutOn(buf, buf', 0, Abort)
        BY <1>7, <3>3 DEF TellReceiver, PutOn
      <4>2. \A x : x # Abort => (Holds(buf', x) <=> Holds(buf, x))
        BY <4>1, <1>1, Put
      <4>3. \A i : Holds(buf', ChunkAt(i)) <=> Holds(buf, ChunkAt(i))
        BY <4>2, ChunkFields
      <4> QED
        BY <3>1, <4>3 DEF Pending, Crossing
    <3> QED
      BY <3>2, <3>3
  <2>2. ~HandOver
    BY <1>7 DEF TellReceiver, HandOver
  <2> QED
    BY <2>1, <2>2, CountsKept
<1>8. ASSUME NEW l \in Lane, Transmit(l) PROVE Counts'
  <2>1. receivedChunks' = receivedChunks /\ ~HandOver
    BY <1>8 DEF Transmit, HandOver, receiverVars, arrivalVars
  <2> QED
    BY <2>1, <1>8, PendingStays, CountsKept
<1>9. ASSUME NEW l \in Lane, TransmitFails(l) PROVE Counts'
  <2>1. UNCHANGED <<receivedChunks, rState>> /\ ~HandOver
    BY <1>9 DEF TransmitFails, HandOver, receiverVars, arrivalVars, outcomeVars, FailTelling,
       phaseVars
  <2>2. CASE Pending' = Pending
    BY <2>1, <2>2, <1>9, PendingRejected, CountsKept
  <2>3. CASE Pending' # Pending
    <3>1. /\ Crossing' = Crossing /\ left' = left /\ sendError' = TRUE
          /\ Cardinality(Pending') <= Cardinality(Pending)
      BY <1>9, <2>3, PendingRejected
    <3>2. left' + Cardinality(Pending') <= Given'
      <4>1. Cardinality(Pending') \in Nat
        BY <1>9, PendingRejected
      <4> QED
        BY <3>1, <4>1, <1>3
    <3> QED
      BY <2>1, <3>1, <3>2 DEF Counts
  <2> QED
    BY <2>2, <2>3
<1>10. ASSUME NEW l \in Lane, Leave(l) PROVE Counts'
  <2>1. /\ UNCHANGED <<sPhase, sent, sendError, receivedChunks, rState>> /\ ~HandOver
    BY <1>10 DEF Leave, HandOver, senderVars, phaseVars, linkVars, receiverVars, arrivalVars,
       outcomeVars
  <2>2. CASE Pending' = Pending /\ Crossing' = Crossing /\ left' = left
    BY <2>1, <2>2, CountsKept
  <2>3. CASE /\ Cardinality(Pending') = Cardinality(Pending) - 1
             /\ Cardinality(Crossing') = Cardinality(Crossing) + 1 /\ left' = left + 1
    <3>1. left' + Cardinality(Pending') = left + Cardinality(Pending)
      BY <2>3, <1>3
    <3>2. left' + Cardinality(Pending') <= Given'
      BY <3>1, <1>3
    <3>3. receivedChunks \in Nat
      BY DEF ReceiverInv, Typed
    <3>4. receivedChunks' <= left'
      BY <2>1, <2>3, <3>3, <1>3 DEF Counts
    <3>5. rState' = "open" => receivedChunks' + Cardinality(Crossing') <= left'
      BY <2>1, <2>3, <3>3, <1>3 DEF Counts
    <3> QED
      BY <2>1, <3>1, <3>2, <3>4, <3>5 DEF Counts
  <2> QED
    BY <1>10, <2>2, <2>3, ChunkLeaves
<1>11. ASSUME NEW l \in Lane, Deliver(l) PROVE Counts'
  <2>1. /\ Pending' = Pending /\ left' = left /\ receivedChunks' <= left
        /\ rState' = "open" => receivedChunks' + Cardinality(Crossing') <= left
    BY <1>11, ChunkDelivered
  <2>2. UNCHANGED <<sPhase, sent, stray, sendError>>
    BY <1>11 DEF Deliver, senderVars, phaseVars, linkVars
  <2>3. Given' = Given
    BY <2>2 DEF Given
  <2> QED
    BY <2>1, <2>2, <2>3 DEF Counts
<1>12. CASE HandOverFails \/ FlushOk \/ FlushFails \/ SenderStops \/ SenderStalls \/ SenderCloses
            \/ Receive \/ Over \/ UNCHANGED vars
  <2>1. UNCHANGED <<chain, buf, net, left, receivedChunks>>
    BY <1>12 DEF HandOverFails, FlushOk, FlushFails, SenderStops, SenderStalls, SenderCloses,
       Receive, Over, vars, wireVars, receiverVars, arrivalVars, Write, Seal, StorageRejects,
       ReceiverStalls, ReceiverDisposes, ReceiverCloses
  <2> QED
    BY <1>2, <1>4, <2>1, CountsKept
<1>13. ASSUME NEW l \in Lane,
              LaneOpensAtSender(l) \/ LaneOpensAtReceiver(l) \/ LaneGivenUp(l) \/ Break(l)
                \/ SenderChannelEnds(l) \/ ReceiverChannelEnds(l)
       PROVE  UNCHANGED <<chain, buf, net, left, receivedChunks>>
  BY <1>13 DEF LaneOpensAtSender, LaneOpensAtReceiver, LaneGivenUp, Break,
     SenderChannelEnds, ReceiverChannelEnds, wireVars, receiverVars, arrivalVars
<1>14. UNCHANGED <<chain, buf, net, left, receivedChunks>> => Counts'
  BY <1>2, <1>4, CountsKept
<1> QED
  BY <1>4, <1>5, <1>6, <1>7, <1>8, <1>9, <1>10, <1>11, <1>12, <1>13, <1>14
  DEF Next, Send, Channels

\* When nothing is pending on the channels that were used, nothing is pending.
LEMMA FlushedIsSent ==
  ASSUME SenderInv, WireInv, Counts, Quiet, PortInv, FlushOk
  PROVE  left = Total
<1>1. \A l \in Lane : chain[l] = <<>> /\ buf[l] = <<>>
  BY DEF FlushOk, Drained, Quiet
<1>2. Pending = {}
  BY <1>1 DEF Pending, Holds
<1>3. sPhase = "flush" /\ sent = Total /\ sendError = FALSE
  BY DEF FlushOk, SendFailed, SenderInv, SenderTypeOK
<1>4. left + 0 = Total
  BY <1>2, <1>3, FS_EmptySet DEF Counts, Working
<1> QED
  BY <1>4 DEF PortInv

LEMMA SenderSettlesOnce ==
  ASSUME SenderInv, WireInv, Counts, Quiet, PortInv, [Next]_vars, sPhase' # sPhase,
         sPhase \in {"ok", "failed"} \/ sPhase' \in {"ok", "failed"}
  PROVE  /\ sPhase \notin {"ok", "failed"} /\ UNCHANGED <<left, receivedChunks, rState>>
         /\ sPhase' = "ok" => left = Total
<1>1. CASE Read \/ HandOver \/ HandOverFails \/ StraySend \/ SenderStops \/ SenderStalls
  BY <1>1 DEF Read, HandOver, HandOverFails, StraySend, SenderStops, SenderStalls, FailTelling,
     Working, Timed
<1>2. CASE FlushOk
  BY <1>2, FlushedIsSent DEF FlushOk, wireVars, receiverVars, arrivalVars, outcomeVars
<1>3. CASE FlushFails \/ TellReceiver
  BY <1>3 DEF FlushFails, FailByPeer, TellReceiver, wireVars, receiverVars, arrivalVars,
     outcomeVars
<1>4. CASE SenderCloses
  BY <1>4 DEF SenderCloses, phaseVars
<1>5. ASSUME NEW l \in Lane, Transmit(l) \/ TransmitFails(l)
      PROVE  sPhase \notin {"ok", "failed"} /\ sPhase' \notin {"ok", "failed"}
  BY <1>5 DEF Transmit, TransmitFails, FailTelling, phaseVars
<1>6. ASSUME NEW l \in Lane, SenderChannelEnds(l)
      PROVE  /\ sPhase \notin {"ok", "failed"} /\ UNCHANGED <<left, receivedChunks, rState>>
             /\ sPhase' # "ok"
  BY <1>6 DEF SenderChannelEnds, FailByPeer, phaseVars, Working, receiverVars, arrivalVars,
     outcomeVars
<1>7. ASSUME NEW l \in Lane,
             Leave(l) \/ Deliver(l) \/ LaneOpensAtSender(l) \/ LaneOpensAtReceiver(l)
               \/ LaneGivenUp(l) \/ Break(l) \/ ReceiverChannelEnds(l)
      PROVE  FALSE
  BY <1>7 DEF Leave, Deliver, LaneOpensAtSender, LaneOpensAtReceiver, LaneGivenUp, Break,
     ReceiverChannelEnds, senderVars, phaseVars
<1>8. CASE Receive \/ Over \/ UNCHANGED vars
  BY <1>8 DEF Receive, Over, vars, Write, Seal, StorageRejects, ReceiverStalls,
     ReceiverDisposes, ReceiverCloses, senderVars, phaseVars
<1> QED
  BY <1>1, <1>2, <1>3, <1>4, <1>5, <1>6, <1>7, <1>8 DEF Next, Send, Channels

LEMMA ReceiverSettlesOnce ==
  ASSUME WireInv, ReceiverInv, Fresh, [Next]_vars, rState' # rState,
         rState \in {"ok", "failed"} \/ rState' \in {"ok", "failed"}
  PROVE  /\ rState \in {"open", "storing"} /\ UNCHANGED <<left, receivedChunks, sPhase>>
         /\ rState' = "ok" => receivedChunks = Total
<1>1. CASE Send \/ Over \/ UNCHANGED vars
  BY <1>1 DEF Send, Over, vars, Read, HandOver, HandOverFails, StraySend, FlushOk, FlushFails,
     SenderStops, SenderStalls, TellReceiver, SenderCloses, receiverVars, outcomeVars
<1>2. ASSUME NEW l \in Lane,
             Transmit(l) \/ TransmitFails(l) \/ Leave(l) \/ LaneOpensAtSender(l)
               \/ LaneOpensAtReceiver(l) \/ LaneGivenUp(l) \/ Break(l) \/ SenderChannelEnds(l)
      PROVE  FALSE
  BY <1>2 DEF Transmit, TransmitFails, Leave, LaneOpensAtSender, LaneOpensAtReceiver,
     LaneGivenUp, Break, SenderChannelEnds, receiverVars, outcomeVars
<1>3. ASSUME NEW l \in Lane, ReceiverChannelEnds(l)
      PROVE  rState = "open" /\ rState' = "failed" /\ UNCHANGED <<left, receivedChunks, sPhase>>
  BY <1>3 DEF ReceiverChannelEnds, Listening, ListeningStates, Fail, outcomeVars, senderVars,
     phaseVars
<1>4. ASSUME NEW l \in Lane, Deliver(l)
      PROVE  rState = "open" /\ rState' = "failed" /\ UNCHANGED <<left, receivedChunks, sPhase>>
  <2>1. PICK m : m = Head(net[l])
    OBVIOUS
  <2>2. m \in Honest /\ OnWire(m) /\ UNCHANGED <<left, sPhase>>
    BY <1>4, <2>1, OffTheNet DEF WireInv, senderVars, phaseVars
  <2>3. rState = "open" /\ Listening
    BY <1>4 DEF Deliver, Listening, ListeningStates, outcomeVars
  <2>4. rState' \in {"ok", "failed"}
    BY <2>3
  <2>5. CASE m.t = "chunk"
    <3>1. PICK i \in 0 .. Total - 1 : m = ChunkAt(i) /\ WithinLimits(i)
      BY <2>2, <2>5, HonestFacts
    <3>2. HandleChunk(ChunkAt(i)) /\ i \notin Arrived
      BY <1>4, <2>1, <2>2, <2>3, <2>5, <3>1 DEF Deliver, Fresh
    <3>3. CASE Accept(ChunkAt(i))
      <4>1. ReceiverInv'
        BY <2>3, <3>1, <3>2, <3>3, ChunkAccepted
      <4>2. rState' = "open" \/ rState' = "storing" \/ rWhy' = "protocol"
        BY <2>3, <3>3 DEF Accept, Complete, Fail, outcomeVars
      <4> QED
        BY <2>4, <4>1, <4>2 DEF ReceiverInv, EndInv
    <3>4. CASE ~Accept(ChunkAt(i))
      <4>1. rState' = "failed" /\ receivedChunks' = receivedChunks
        BY <3>2, <3>4 DEF HandleChunk, Fail
      <4> QED
        BY <2>2, <2>3, <4>1
    <3> QED
      BY <3>3, <3>4
  <2>6. CASE m.t = "end"
    <3>1. m = EndOfFile /\ Total <= MaxChunks /\ Bytes(Total) <= MaxWire
      BY <2>2, <2>6, HonestFacts
    <3>2. HandleEnd(EndOfFile) /\ expectedEnd = NoEnd
      BY <1>4, <2>1, <2>2, <2>3, <2>6, <3>1 DEF Deliver, Fresh
    <3>3. rState' \in {"open", "storing"}
      BY <2>3, <3>1, <3>2, EndHandled
    <3> QED
      BY <2>4, <3>3
  <2>7. CASE m.t = "abort"
    <3>1. rState' = "failed" /\ receivedChunks' = receivedChunks
      BY <1>4, <2>1, <2>3, <2>7 DEF Deliver, Fail
    <3> QED
      BY <2>2, <2>3, <3>1
  <2> QED
    BY <2>2, <2>5, <2>6, <2>7, HonestFacts
<1>5. CASE Write \/ ReceiverCloses
  BY <1>5 DEF Write, ReceiverCloses, outcomeVars
<1>6. CASE Seal
  <2>1. UNCHANGED <<left, receivedChunks, sPhase>> /\ rState = "storing"
    BY <1>6 DEF Seal, arrivalVars, senderVars, phaseVars, wireVars
  <2> QED
    BY <2>1 DEF ReceiverInv, EndInv
<1>7. CASE StorageRejects \/ ReceiverStalls \/ ReceiverDisposes
  BY <1>7 DEF StorageRejects, ReceiverStalls, ReceiverDisposes, Fail, Listening,
     ListeningStates, wireVars, senderVars, phaseVars
<1> QED
  BY <1>1, <1>2, <1>3, <1>4, <1>5, <1>6, <1>7 DEF Next, Channels, Receive

\* Neither count ever falls.
LEMMA CountsRise ==
  ASSUME left \in Nat, receivedChunks \in Nat, [Next]_vars
  PROVE  left <= left' /\ receivedChunks <= receivedChunks'
<1>1. CASE Send \/ Over \/ UNCHANGED vars
  <2>1. UNCHANGED <<left, receivedChunks>>
    BY <1>1 DEF Send, Over, vars, Read, HandOver, HandOverFails, StraySend, PutOnLink, FlushOk,
       FlushFails, SenderStops, SenderStalls, TellReceiver, SenderCloses, receiverVars,
       arrivalVars, wireVars
  <2> QED
    BY <2>1
<1>2. ASSUME NEW l \in Lane,
             Transmit(l) \/ TransmitFails(l) \/ LaneOpensAtSender(l) \/ LaneOpensAtReceiver(l)
               \/ LaneGivenUp(l) \/ Break(l) \/ SenderChannelEnds(l) \/ ReceiverChannelEnds(l)
      PROVE  UNCHANGED <<left, receivedChunks>>
  BY <1>2 DEF Transmit, TransmitFails, LaneOpensAtSender, LaneOpensAtReceiver, LaneGivenUp,
     Break, SenderChannelEnds, ReceiverChannelEnds, receiverVars, arrivalVars, wireVars
<1>3. ASSUME NEW l \in Lane, Leave(l) PROVE left <= left' /\ receivedChunks' = receivedChunks
  BY <1>3 DEF Leave, receiverVars, arrivalVars
<1>4. ASSUME NEW l \in Lane, Deliver(l) PROVE left' = left /\ receivedChunks <= receivedChunks'
  <2>1. left' = left
    BY <1>4 DEF Deliver
  <2>2. ASSUME NEW m, HandleChunk(m)
        PROVE  receivedChunks' = receivedChunks \/ receivedChunks' = receivedChunks + 1
    BY <2>2 DEF HandleChunk, Accept
  <2>3. ASSUME NEW m, HandleEnd(m) PROVE receivedChunks' = receivedChunks
    BY <2>3 DEF HandleEnd
  <2>4. receivedChunks' = receivedChunks \/ receivedChunks' = receivedChunks + 1
    BY <1>4, <2>2, <2>3 DEF Deliver, arrivalVars
  <2> QED
    BY <2>1, <2>4
<1>5. CASE Receive
  <2>1. UNCHANGED <<left, receivedChunks>>
    BY <1>5 DEF Receive, Write, Seal, StorageRejects, ReceiverStalls, ReceiverDisposes,
       ReceiverCloses, arrivalVars, wireVars
  <2> QED
    BY <2>1
<1> QED
  BY <1>1, <1>2, <1>3, <1>4, <1>5 DEF Next, Channels

\* Nothing arrives that has not left, and no more than the file.
Bounded == left \in 0 .. Total /\ receivedChunks \in 0 .. Total /\ receivedChunks <= left
CountInv == DInv /\ Counts /\ Quiet

\* What is pending, what has left and what has arrived add up, however the transfer
\* goes.
THEOREM CountsCorrect == Spec => []CountInv
<1>1. Init => Counts /\ Quiet
  BY CountsStart
<1>2. DInv /\ Counts /\ Quiet /\ [Next]_vars => Counts' /\ Quiet'
  BY CountsStep, QuietStep DEF DInv, WireInv
<1> QED
  BY <1>1, <1>2, ExchangeCorrect, PTL DEF Spec, CountInv

\* What the counts say of the promise.
LEMMA CountFacts ==
  ASSUME CountInv
  PROVE  Bounded
<1>1. /\ left \in Nat /\ receivedChunks \in 0 .. Total /\ receivedChunks <= left
      /\ left + Cardinality(Pending) <= Given /\ Cardinality(Pending) \in Nat
  BY SetsAreFinite DEF CountInv, DInv, PortInv, ReceiverInv, Typed, Counts
<1>2. Given \in 0 .. Total
  BY DEF CountInv, DInv, SenderInv, SenderTypeOK, Given
<1> QED
  BY <1>1, <1>2 DEF Bounded

\* A direct transfer implements the promise of FileDelivery: the sender succeeds
\* only when the last byte has left its buffers, the receiver only with the whole
\* file, each once. Callers refuse an empty file.
THEOREM PromiseKept == ASSUME Total > 0 PROVE Spec => DeliversFile
<1> DEFINE sender == IF sPhase \in {"ok", "failed"} THEN sPhase ELSE "running"
           receiver == IF rState = "storing" THEN "open" ELSE rState
           out == left = Total /\ Total > 0
           held == receivedChunks = Total /\ Total > 0
<1>1. Init => Promise!Init
  BY DEF Init, Promise!Init
<1>3. CountInv => Bounded
  BY CountFacts
<1>2. CountInv /\ CountInv' /\ Bounded /\ Bounded' /\ [Next]_vars => [Promise!Next]_(Promise!vars)
  <2> SUFFICES ASSUME CountInv, CountInv', Bounded, Bounded', [Next]_vars PROVE Promise!Next
    BY DEF Promise!vars
  <2>1. /\ left \in 0 .. Total /\ receivedChunks \in 0 .. Total /\ receivedChunks <= left
        /\ left' <= Total /\ receivedChunks' <= Total /\ receivedChunks' <= left'
        /\ left' \in Nat /\ receivedChunks' \in Nat
    BY DEF Bounded
  <2>2. left <= left' /\ receivedChunks <= receivedChunks'
    BY <2>1, CountsRise
  <2>3. (out => out') /\ (held => held') /\ (held' => out')
    BY <2>1, <2>2
  <2>4. CASE sender' # sender
    <3>1. /\ sPhase' # sPhase /\ (sPhase \in {"ok", "failed"} \/ sPhase' \in {"ok", "failed"})
      BY <2>4
    <3>2. /\ sPhase \notin {"ok", "failed"} /\ UNCHANGED <<left, receivedChunks, rState>>
          /\ sPhase' = "ok" => left = Total
      BY <3>1, SenderSettlesOnce DEF CountInv, DInv
    <3>3. sPhase' \in {"ok", "failed"}
      BY <3>1, <3>2
    <3>4. Promise!SenderSettles(sPhase')
      BY <3>2, <3>3 DEF Promise!SenderSettles
    <3> QED
      BY <3>3, <3>4 DEF Promise!Next
  <2>5. CASE receiver' # receiver
    <3>1. rState \in {"open", "storing", "ok", "failed"}
          /\ rState' \in {"open", "storing", "ok", "failed"}
      BY DEF CountInv, DInv, ReceiverInv, Typed
    <3>2. /\ rState' # rState /\ (rState \in {"ok", "failed"} \/ rState' \in {"ok", "failed"})
      BY <2>5, <3>1
    <3>3. /\ rState \in {"open", "storing"} /\ UNCHANGED <<left, receivedChunks, sPhase>>
          /\ rState' = "ok" => receivedChunks = Total
      BY <3>2, ReceiverSettlesOnce DEF CountInv, DInv
    <3>4. rState' \in {"ok", "failed"}
      BY <3>2, <3>3
    <3>5. Promise!ReceiverSettles(rState')
      BY <3>3, <3>4 DEF Promise!ReceiverSettles
    <3> QED
      BY <3>4, <3>5 DEF Promise!Next
  <2>6. CASE sender' = sender /\ receiver' = receiver
    <3>1. Promise!Progress
      BY <2>3, <2>6 DEF Promise!Progress
    <3> QED
      BY <3>1 DEF Promise!Next
  <2> QED
    BY <2>4, <2>5, <2>6
<1> QED
  BY <1>1, <1>2, <1>3, CountsCorrect, PTL DEF Spec, DeliversFile, Promise!Spec

-----------------------------------------------------------------------------
(* The backlog *)

WaitingBytes == MapThenSumSet(LAMBDA c : c.bytes, waiting)
QueuedBytes == MapThenSumSet(LAMBDA k : queue[k].bytes, DOMAIN queue)

LEMMA WaitingSum ==
  WaitingBytes = SumFunctionOnSet([c \in waiting |-> c.bytes], waiting)
<1> DEFINE f == [c \in waiting |-> c.bytes]
           Sums(h) == h = [s \in SUBSET waiting |-> IF s = {} THEN 0
                        ELSE LET x == CHOOSE x \in s : TRUE IN x.bytes + h[s \ {x}]]
<1>1. WaitingBytes = (CHOOSE h : Sums(h))[waiting]
  BY DEF WaitingBytes, MapThenSumSet, MapThenFoldSet
<1>2. ASSUME NEW h PROVE Sums(h) <=> Summing(f, waiting, h)
  <2>1. \A s \in SUBSET waiting : s # {} => f[CHOOSE x \in s : TRUE] = (CHOOSE x \in s : TRUE).bytes
    OBVIOUS
  <2> HIDE DEF f
  <2>2. [s \in SUBSET waiting |-> IF s = {} THEN 0
            ELSE LET x == CHOOSE x \in s : TRUE IN x.bytes + h[s \ {x}]]
        = [s \in SUBSET waiting |-> IF s = {} THEN 0
            ELSE LET x == CHOOSE x \in s : TRUE IN f[x] + h[s \ {x}]]
    BY <2>1
  <2>3. QED
    BY <2>2 DEF Summing
<1> HIDE DEF Sums, f
<1>3. (CHOOSE h : Sums(h)) = (CHOOSE h : Summing(f, waiting, h))
  BY <1>2
<1>4. WaitingBytes = SumFunctionOnSet(f, waiting)
  BY <1>1, <1>3, SumIsSumming
<1>5. QED
  BY <1>4 DEF f

LEMMA QueuedSum ==
  QueuedBytes = SumFunctionOnSet([k \in DOMAIN queue |-> queue[k].bytes], DOMAIN queue)
<1> DEFINE D == DOMAIN queue
           f == [k \in D |-> queue[k].bytes]
           Sums(h) == h = [s \in SUBSET D |-> IF s = {} THEN 0
                        ELSE LET x == CHOOSE x \in s : TRUE IN queue[x].bytes + h[s \ {x}]]
<1>1. QueuedBytes = (CHOOSE h : Sums(h))[D]
  BY DEF QueuedBytes, MapThenSumSet, MapThenFoldSet
<1> HIDE DEF D
<1>2. ASSUME NEW h PROVE Sums(h) <=> Summing(f, D, h)
  <2>1. \A s \in SUBSET D : s # {} => f[CHOOSE x \in s : TRUE] = queue[CHOOSE x \in s : TRUE].bytes
    OBVIOUS
  <2> HIDE DEF f
  <2>2. [s \in SUBSET D |-> IF s = {} THEN 0
            ELSE LET x == CHOOSE x \in s : TRUE IN queue[x].bytes + h[s \ {x}]]
        = [s \in SUBSET D |-> IF s = {} THEN 0
            ELSE LET x == CHOOSE x \in s : TRUE IN f[x] + h[s \ {x}]]
    BY <2>1
  <2>3. QED
    BY <2>2 DEF Summing
<1> HIDE DEF Sums, f
<1>3. (CHOOSE h : Sums(h)) = (CHOOSE h : Summing(f, D, h))
  BY <1>2
<1>4. QueuedBytes = SumFunctionOnSet(f, D)
  BY <1>1, <1>3, SumIsSumming
<1>5. QED
  BY <1>4 DEF f, D

\* What waits behind a gap is every chunk full, but for the last of the file.
LEMMA WaitingTotal ==
  ASSUME StoreInv, \A c \in waiting : \E i \in nextToStore + 1 .. Total - 1 : c = ChunkAt(i)
  PROVE  /\ IsFiniteSet(waiting) /\ Cardinality(waiting) \in Nat
         /\ WaitingBytes = IF ChunkAt(Total - 1) \in waiting
                             THEN Full * (Cardinality(waiting) - 1) + LastSize
                             ELSE Full * Cardinality(waiting)
<1>1. nextToStore \in 0 .. Total
  BY DEF StoreInv
<1>2. IsFiniteSet(waiting)
  <2> DEFINE f == [c \in waiting |-> c.index]
  <2>1. f \in Injection(waiting, 0 .. Total - 1)
    <3>1. \A c \in waiting : c.index \in 0 .. Total - 1 /\ c = ChunkAt(c.index)
      BY <1>1, ChunkFields
    <3>2. QED
      BY <3>1 DEF Injection, IsInjective
  <2>2. IsFiniteSet(0 .. Total - 1)
    BY FS_Interval
  <2>3. QED
    BY <2>1, <2>2, FS_Injection
<1> DEFINE f == [c \in waiting |-> c.bytes]
<1>3. \A c \in waiting : f[c] = IF c = ChunkAt(Total - 1) THEN LastSize ELSE Full
  <2> SUFFICES ASSUME NEW c \in waiting
               PROVE  c.bytes = IF c = ChunkAt(Total - 1) THEN LastSize ELSE Full
    OBVIOUS
  <2>1. PICK i \in nextToStore + 1 .. Total - 1 : c = ChunkAt(i)
    OBVIOUS
  <2>2. c = ChunkAt(Total - 1) <=> i = Total - 1
    BY <1>1, <2>1, ChunkFields
  <2>3. c.bytes = Size(i)
    BY <2>1, ChunkFields
  <2>4. QED
    BY <2>2, <2>3 DEF Size
<1> HIDE DEF f
<1>4. Full \in Int /\ LastSize \in Int
  BY DEF Full
<1>5. SumFunctionOnSet(f, waiting)
        = IF ChunkAt(Total - 1) \in waiting THEN Full * (Cardinality(waiting) - 1) + LastSize
                                            ELSE Full * Cardinality(waiting)
  <2>1. PICK last : last = ChunkAt(Total - 1)
    OBVIOUS
  <2>2. PICK full \in Int : full = Full
    BY <1>4
  <2>3. \A c \in waiting : f[c] = IF c = last THEN LastSize ELSE full
    BY <1>3, <2>1, <2>2
  <2>4. SumFunctionOnSet(f, waiting)
          = IF last \in waiting THEN full * (Cardinality(waiting) - 1) + LastSize
                                ELSE full * Cardinality(waiting)
    <3>1. f = [c \in waiting |-> IF c = last THEN LastSize ELSE full]
      BY <2>3 DEF f
    <3>2. PICK S : S = waiting
      OBVIOUS
    <3>3. PICK d \in Int : d = LastSize
      BY <1>4
    <3>4. SumFunctionOnSet([c \in S |-> IF c = last THEN d ELSE full], S)
            = IF last \in S THEN full * (Cardinality(S) - 1) + d ELSE full * Cardinality(S)
      BY <1>2, <3>2, SumOfAlmostEqual
    <3>5. QED
      BY <3>1, <3>2, <3>3, <3>4
  <2>5. QED
    BY <2>1, <2>2, <2>4
<1>6. QED
  BY <1>2, <1>5, WaitingSum, FS_CardinalityType DEF f

\* What is queued for storage is the file from what is written to what is next.
LEMMA QueuedTotal ==
  ASSUME Typed, StoreInv
  PROVE  QueuedBytes = Bytes(nextToStore) - stored
<1>1. /\ nextToStore \in 0 .. Total /\ Len(file) \in Nat /\ Len(queue) \in Nat
      /\ Len(file) + Len(queue) = nextToStore /\ DOMAIN queue = 1 .. Len(queue)
      /\ \A k \in 1 .. Len(queue) : queue[k] = ChunkAt(Len(file) + k - 1)
      /\ stored = Bytes(Len(file))
  BY DEF Typed, StoreInv
<1> DEFINE f == [k \in DOMAIN queue |-> queue[k].bytes]
           last == Total - Len(file)
<1>2. \A k \in DOMAIN queue : f[k] = IF k = last THEN LastSize ELSE Full
  BY <1>1, ChunkFields DEF Size
<1>3. IsFiniteSet(DOMAIN queue) /\ Cardinality(DOMAIN queue) = Len(queue)
  <2>1. PICK q \in Nat : q = Len(queue)
    BY <1>1
  <2>2. IsFiniteSet(1 .. q) /\ Cardinality(1 .. q) = q
    BY FS_Interval
  <2>3. QED
    BY <1>1, <2>1, <2>2
<1>4. Full \in Int /\ LastSize \in Int
  BY DEF Full
<1> HIDE DEF f, last
<1>5. SumFunctionOnSet(f, DOMAIN queue)
        = IF last \in DOMAIN queue THEN Full * (Len(queue) - 1) + LastSize
                                   ELSE Full * Len(queue)
  <2>1. PICK D : D = DOMAIN queue
    OBVIOUS
  <2>2. PICK full \in Int : full = Full
    BY <1>4
  <2>3. IsFiniteSet(D) /\ \A k \in D : f[k] = IF k = last THEN LastSize ELSE full
    BY <1>2, <1>3, <2>1, <2>2
  <2>4. SumFunctionOnSet(f, D) = IF last \in D THEN full * (Cardinality(D) - 1) + LastSize
                                              ELSE full * Cardinality(D)
    <3>1. f = [k \in D |-> IF k = last THEN LastSize ELSE full]
      BY <2>1, <2>3 DEF f
    <3>2. PICK l, d \in Int : l = last /\ d = LastSize
      BY <1>1, <1>4 DEF last
    <3>3. SumFunctionOnSet([k \in D |-> IF k = l THEN d ELSE full], D)
            = IF l \in D THEN full * (Cardinality(D) - 1) + d ELSE full * Cardinality(D)
      <4>1. IsFiniteSet(D)
        BY <2>3
      <4>2. QED
        BY <4>1, SumOfAlmostEqual
    <3>4. QED
      BY <3>1, <3>2, <3>3
  <2>5. QED
    BY <1>3, <2>1, <2>2, <2>4
<1>6. last \in DOMAIN queue <=> nextToStore = Total /\ Len(file) < Total
  BY <1>1 DEF last
<1>7. IF last \in DOMAIN queue THEN Full * (Len(queue) - 1) + LastSize = Bytes(nextToStore) - Bytes(Len(file))
      ELSE Full * Len(queue) = Bytes(nextToStore) - Bytes(Len(file))
  <2>1. PICK a \in Nat, q \in Nat : a = Len(file) /\ q = Len(queue) /\ nextToStore = a + q
    BY <1>1
  <2>2. a + q <= Total /\ (last \in DOMAIN queue <=> a + q = Total /\ a < Total)
    BY <1>1, <1>6, <2>1
  <2>3. CASE a + q = Total /\ a < Total
    <3>1. Bytes(a + q) = Full * (a + q - 1) + LastSize /\ Bytes(a) = Full * a
      BY <2>1, <2>3 DEF Bytes
    <3>2. Full * (q - 1) + LastSize = Bytes(a + q) - Bytes(a)
      BY <3>1 DEF Full
    <3>3. QED
      BY <2>1, <2>2, <2>3, <3>2
  <2>4. CASE ~(a + q = Total /\ a < Total)
    <3>1. CASE a = Total
      <4>1. q = 0 /\ Full * q = Bytes(a + q) - Bytes(a)
        BY <2>2, <3>1, BytesFacts DEF Full
      <4>2. QED
        BY <2>1, <2>2, <2>4, <4>1
    <3>2. CASE a # Total
      <4>1. Bytes(a + q) = Full * (a + q) /\ Bytes(a) = Full * a
        BY <2>2, <2>4, <3>2 DEF Bytes
      <4>2. Full * q = Bytes(a + q) - Bytes(a)
        BY <4>1 DEF Full
      <4>3. QED
        BY <2>1, <2>2, <2>4, <4>2
    <3>3. QED
      BY <3>1, <3>2
  <2>5. QED
    BY <2>3, <2>4
<1>8. QED
  BY <1>1, <1>5, <1>7, QueuedSum DEF f

\* While the receiver listens, what it claimed room for is what is with storage and
\* what waits.
LEMMA ClaimedTotal ==
  ASSUME StoreInv, Books
  PROVE  WaitingBytes \in Nat /\ claimed = Bytes(nextToStore) + WaitingBytes
<1>1. /\ nextToStore \in 0 .. Total
      /\ \A c \in waiting : \E i \in nextToStore + 1 .. Total - 1 : c = ChunkAt(i)
  BY DEF StoreInv, Books
<1>2. /\ IsFiniteSet(waiting) /\ Cardinality(waiting) \in Nat
      /\ WaitingBytes = IF ChunkAt(Total - 1) \in waiting
                          THEN Full * (Cardinality(waiting) - 1) + LastSize
                          ELSE Full * Cardinality(waiting)
  BY <1>1, WaitingTotal
<1> DEFINE Ahead == {i \in 0 .. Total - 1 : ChunkAt(i) \in waiting}
<1>3. Cardinality(Ahead) = Cardinality(waiting) /\ IsFiniteSet(Ahead)
  <2> DEFINE f == [c \in waiting |-> c.index]
  <2>1. \A c \in waiting : c.index \in Ahead /\ c = ChunkAt(c.index)
    BY <1>1, ChunkFields
  <2>2. \A i \in Ahead : ChunkAt(i) \in waiting /\ ChunkAt(i).index = i
    BY ChunkFields
  <2> HIDE DEF Ahead
  <2>3. f \in Bijection(waiting, Ahead)
    BY <2>1, <2>2 DEF Bijection, Injection, Surjection, IsInjective
  <2>4. ExistsBijection(waiting, Ahead)
    BY <2>3 DEF ExistsBijection
  <2>5. QED
    BY <1>2, <2>4, FS_Bijection
<1>4. Arrived = (0 .. nextToStore - 1) \cup Ahead /\ (0 .. nextToStore - 1) \cap Ahead = {}
  <2>1. \A i \in Ahead : i > nextToStore
    <3> SUFFICES ASSUME NEW i \in Ahead PROVE i > nextToStore
      OBVIOUS
    <3>1. PICK j \in nextToStore + 1 .. Total - 1 : ChunkAt(i) = ChunkAt(j)
      BY <1>1
    <3>2. QED
      BY <1>1, <3>1, ChunkFields
  <2>2. QED
    BY <1>1, <2>1 DEF Arrived, Has
<1>5. receivedChunks = nextToStore + Cardinality(waiting)
  <2>1. PICK n \in Nat : n = nextToStore
    BY <1>1
  <2>2. IsFiniteSet(0 .. n - 1) /\ Cardinality(0 .. n - 1) = n
    BY FS_Interval
  <2>3. PICK B, A : A = Ahead /\ B = 0 .. n - 1
    OBVIOUS
  <2> HIDE DEF Ahead
  <2>4. Cardinality(B \cup A) = Cardinality(B) + Cardinality(A) - Cardinality(B \cap A)
    BY <1>3, <2>2, <2>3, FS_Union
  <2>5. Cardinality(B \cap A) = 0
    BY <1>4, <2>1, <2>3, FS_EmptySet
  <2>6. QED
    BY <1>2, <1>3, <1>4, <2>1, <2>2, <2>3, <2>4, <2>5 DEF Books
<1>6. claimed = IF Total - 1 \in Arrived THEN Full * (receivedChunks - 1) + LastSize
                                         ELSE Full * receivedChunks
  BY DEF Books
<1>7. WaitingBytes \in Nat
  <2>1. ChunkAt(Total - 1) \in waiting => Cardinality(waiting) >= 1
    BY <1>2, FS_EmptySet
  <2>2. QED
    BY <1>2, <2>1 DEF Full
<1>8. CASE nextToStore = Total
  <2>1. waiting = {}
    BY <1>1, <1>8
  <2>2. Cardinality(waiting) = 0 /\ WaitingBytes = 0
    BY <1>2, <2>1, FS_EmptySet DEF Full
  <2>3. Total - 1 \in Arrived <=> Total > 0
    BY <1>1, <1>8 DEF Arrived, Has
  <2>4. claimed = Bytes(Total)
    BY <1>5, <1>6, <1>8, <2>2, <2>3 DEF Bytes, Full
  <2>5. QED
    BY <1>7, <1>8, <2>2, <2>4, BytesFacts
<1>9. CASE nextToStore < Total
  <2>1. Total - 1 \in Arrived <=> ChunkAt(Total - 1) \in waiting
    BY <1>1, <1>4, <1>9
  <2>2. Bytes(nextToStore) = Full * nextToStore
    BY <1>1, <1>9, BytesFacts
  <2>3. QED
    BY <1>1, <1>2, <1>5, <1>6, <1>7, <2>1, <2>2 DEF Full
<1>10. QED
  BY <1>1, <1>8, <1>9

\* There was room for all that is claimed, and a receiver that no longer listens has
\* nothing waiting: only what is queued is left, and it was claimed.
BacklogInv ==
  /\ claimed - stored <= MaxBacklog
  /\ rState # "open" => waiting = {} /\ Bytes(nextToStore) <= claimed

LEMMA BacklogInvSuffices == ReceiverInv /\ BacklogInv => BacklogBounded
<1> SUFFICES ASSUME ReceiverInv, BacklogInv PROVE BacklogBounded
  OBVIOUS
<1>1. Typed /\ StoreInv /\ claimed \in Nat /\ claimed - stored <= MaxBacklog
  BY DEF ReceiverInv, Typed, BacklogInv
<1>2. Bytes(nextToStore) \in Nat /\ stored \in Nat
  <2>1. nextToStore \in 0 .. Total /\ Len(file) \in 0 .. Total /\ stored = Bytes(Len(file))
    BY <1>1 DEF Typed, StoreInv
  <2>2. QED
    BY <2>1, BytesFacts
<1>3. QueuedBytes = Bytes(nextToStore) - stored
  BY <1>1, QueuedTotal
<1>4. WaitingBytes \in Nat /\ Bytes(nextToStore) + WaitingBytes <= claimed
  <2>1. CASE rState = "open"
    <3>1. claimed = Bytes(nextToStore) + WaitingBytes /\ WaitingBytes \in Nat
      BY <1>1, <2>1, ClaimedTotal DEF ReceiverInv, Gathered
    <3>2. QED
      BY <1>1, <3>1
  <2>2. CASE rState # "open"
    <3>1. waiting = {} /\ Bytes(nextToStore) <= claimed
      BY <2>2 DEF BacklogInv
    <3>2. WaitingBytes = 0
      BY <3>1, WaitingSum, SumUnfolds, FS_EmptySet
    <3>3. QED
      BY <1>2, <3>1, <3>2
  <2>3. QED
    BY <2>1, <2>2
<1>5. WaitingBytes + QueuedBytes <= MaxBacklog
  BY <1>1, <1>2, <1>3, <1>4
<1>6. QED
  BY <1>5 DEF BacklogBounded, WaitingBytes, QueuedBytes

LEMMA BacklogStart == Init => BacklogInv
<1>1. Init => claimed - stored = 0 /\ rState = "open"
  BY DEF Init
<1>2. QED
  BY <1>1 DEF BacklogInv

\* A receiver that gives up forgets what waits, not what it claimed.
LEMMA BacklogFails ==
  ASSUME ReceiverInv, BacklogInv, waiting' = {},
         UNCHANGED <<nextToStore, claimed, stored>>
  PROVE  BacklogInv'
<1>1. Bytes(nextToStore) <= claimed
  <2>1. CASE rState = "open"
    <3>1. claimed = Bytes(nextToStore) + WaitingBytes /\ WaitingBytes \in Nat
      BY <2>1, ClaimedTotal DEF ReceiverInv, Gathered
    <3>2. nextToStore \in 0 .. Total
      BY DEF ReceiverInv, StoreInv
    <3>3. QED
      BY <3>1, <3>2, BytesFacts
  <2>2. QED
    BY <2>1 DEF BacklogInv
<1>2. Bytes(nextToStore)' = Bytes(nextToStore)
  BY DEF Bytes
<1>3. QED
  BY <1>1, <1>2 DEF BacklogInv

LEMMA BacklogChunk ==
  ASSUME ReceiverInv, ReceiverInv', BacklogInv, rState = "open",
         NEW i \in 0 .. Total - 1, i \notin Arrived, WithinLimits(i), HandleChunk(ChunkAt(i))
  PROVE  BacklogInv'
<1>1. ~Violation(ChunkAt(i))
  BY ChunkIsNoViolation DEF ReceiverInv, Gathered, StoreInv
<1>2. CASE Backlogged(ChunkAt(i))
  BY <1>1, <1>2, BacklogFails DEF HandleChunk, storeVars
<1>3. CASE ~Backlogged(ChunkAt(i))
  <2>1. Accept(ChunkAt(i)) /\ ~Backlogged(ChunkAt(i))
    BY <1>1, <1>3 DEF HandleChunk
  <2>2. Size(i) \in Nat /\ ChunkAt(i).bytes = Size(i)
    BY SizeFacts, ChunkFields
  <2>3. claimed' = claimed + Size(i) /\ stored' = stored
    BY <2>1, <2>2 DEF Accept
  <2>4. claimed \in Nat /\ stored \in Int
    <3>1. claimed \in Nat /\ Len(file) \in 0 .. Total /\ stored = Bytes(Len(file))
      BY DEF ReceiverInv, Typed, StoreInv
    <3>2. QED
      BY <3>1, BytesFacts
  <2>5. claimed' - stored' <= MaxBacklog
    BY <2>1, <2>2, <2>3, <2>4 DEF Backlogged
  <2>6. ASSUME rState' # "open"
        PROVE  waiting' = {} /\ Bytes(nextToStore)' <= claimed'
    <3>1. expectedEnd # NoEnd /\ Complete(claimed', expectedEnd.bytes)
      BY <2>1, <2>6 DEF Accept, AllThere, outcomeVars
    <3>2. rState' = "storing" /\ claimed' = expectedEnd.bytes
      BY <3>1 DEF Complete, Fail, ReceiverInv, EndInv
    <3>3. nextToStore' = Total /\ claimed' = Bytes(Total)
      BY <3>1, <3>2 DEF ReceiverInv, EndInv
    <3>4. waiting' = {}
      <4>1. highestIndex' \in -1 .. Total - 1
        <5>1. highestIndex \in -1 .. Total - 1
          BY ArrivedFacts DEF ReceiverInv, Gathered, StoreInv
        <5>2. highestIndex' \in {highestIndex, i}
          BY <2>1, ChunkFields DEF Accept
        <5>3. QED
          BY <5>1, <5>2
      <4>2. StoreRun(waiting \cup {ChunkAt(i)}) /\ UNCHANGED <<file, stored>>
        BY <2>1 DEF Accept
      <4>3. \A c \in waiting' : \E j \in nextToStore' + 1 .. Total - 1 : c = ChunkAt(j)
        BY <4>1, <4>2, RunIsStored DEF ReceiverInv, Gathered, Typed
      <4>4. QED
        BY <3>3, <4>3
    <3>5. Bytes(nextToStore)' = claimed'
      BY <3>3 DEF Bytes
    <3>6. claimed' \in Nat
      BY <2>2, <2>3, <2>4
    <3>7. QED
      BY <3>4, <3>5, <3>6
  <2>7. QED
    BY <2>5, <2>6 DEF BacklogInv
<1>4. QED
  BY <1>2, <1>3

LEMMA BacklogEnd ==
  ASSUME ReceiverInv, ReceiverInv', BacklogInv, rState = "open", HandleEnd(EndOfFile),
         rState' \in {"open", "storing"}
  PROVE  BacklogInv'
<1>1. UNCHANGED <<nextToStore, claimed, stored>>
  BY DEF HandleEnd, storeVars
<1>2. CASE rState' = "open"
  BY <1>1, <1>2 DEF BacklogInv
<1>3. CASE rState' = "storing"
  <2>1. nextToStore = Total /\ UNCHANGED waiting
    BY <1>1, <1>3 DEF HandleEnd, Fail, ReceiverInv, EndInv
  <2>2. waiting = {}
    <3>1. \A c \in waiting : \E i \in Total + 1 .. Total - 1 : c = ChunkAt(i)
      BY <2>1 DEF ReceiverInv, Gathered, Books
    <3>2. QED
      BY <3>1
  <2>3. QED
    BY <1>1, <2>1, <2>2, BacklogFails
<1>4. QED
  BY <1>2, <1>3

LEMMA BacklogDeliver ==
  ASSUME WireInv, ReceiverInv, ReceiverInv', Fresh, BacklogInv, NEW l \in Lane, Deliver(l)
  PROVE  BacklogInv'
<1>10. PICK m : m = Head(net[l])
  OBVIOUS
<1>1. m \in Honest /\ OnWire(m)
  BY <1>10, OffTheNet DEF WireInv
<1>2. CASE ~Listening
  <2>1. UNCHANGED <<waiting, nextToStore, claimed, stored, rState>>
    BY <1>2 DEF Deliver, Listening, arrivalVars, storeVars, outcomeVars
  <2>2. QED
    BY <2>1 DEF BacklogInv, Bytes
<1>3. CASE Listening /\ m.t = "chunk"
  <2>1. PICK i \in 0 .. Total - 1 : m = ChunkAt(i) /\ WithinLimits(i)
    BY <1>1, <1>3, HonestFacts
  <2>2. rState = "open" /\ HandleChunk(ChunkAt(i))
    BY <1>10, <1>3, <2>1 DEF Deliver, Listening, ListeningStates
  <2>3. i \notin Arrived
    BY <1>1, <2>1, <2>2 DEF Fresh
  <2>4. QED
    BY <2>1, <2>2, <2>3, BacklogChunk
<1>4. CASE Listening /\ m.t = "end"
  <2>1. m = EndOfFile /\ Total <= MaxChunks /\ Bytes(Total) <= MaxWire
    BY <1>1, <1>4, HonestFacts
  <2>2. rState = "open" /\ HandleEnd(EndOfFile)
    BY <1>10, <1>4, <2>1 DEF Deliver, Listening, ListeningStates
  <2>3. expectedEnd = NoEnd
    BY <1>1, <2>1, <2>2 DEF Fresh
  <2>4. rState' \in {"open", "storing"}
    BY <2>1, <2>2, <2>3, EndHandled
  <2>5. QED
    BY <2>2, <2>4, BacklogEnd
<1>5. CASE Listening /\ m.t = "abort"
  <2>1. waiting' = {} /\ UNCHANGED <<nextToStore, claimed, stored>>
    BY <1>10, <1>5 DEF Deliver, storeVars
  <2>2. QED
    BY <2>1, BacklogFails
<1>6. QED
  BY <1>1, <1>2, <1>3, <1>4, <1>5, HonestFacts

LEMMA BacklogStep == DInv /\ DInv' /\ BacklogInv /\ [Next]_vars => BacklogInv'
<1> SUFFICES ASSUME DInv, DInv', BacklogInv, [Next]_vars PROVE BacklogInv'
  OBVIOUS
<1>1. WireInv /\ ReceiverInv /\ ReceiverInv' /\ Fresh
  BY DEF DInv
<1>2. ASSUME UNCHANGED <<waiting, nextToStore, claimed, stored, rState>>
      PROVE  BacklogInv'
  BY <1>2 DEF BacklogInv, Bytes
<1>3. CASE Send \/ Over \/ UNCHANGED vars
  <2>1. UNCHANGED <<waiting, nextToStore, claimed, stored, rState>>
    BY <1>3 DEF Send, Over, vars, Read, HandOver, HandOverFails, StraySend, FlushOk, FlushFails,
       SenderStops, SenderStalls, TellReceiver, SenderCloses, receiverVars, arrivalVars,
       storeVars, outcomeVars
  <2>2. QED
    BY <1>2, <2>1
<1>4. ASSUME NEW l \in Lane,
             Transmit(l) \/ TransmitFails(l) \/ Leave(l) \/ LaneOpensAtSender(l)
               \/ LaneOpensAtReceiver(l) \/ LaneGivenUp(l) \/ Break(l) \/ SenderChannelEnds(l)
      PROVE  UNCHANGED <<waiting, nextToStore, claimed, stored, rState>>
  BY <1>4 DEF Transmit, TransmitFails, Leave, LaneOpensAtSender, LaneOpensAtReceiver,
     LaneGivenUp, Break, SenderChannelEnds, receiverVars, arrivalVars, storeVars, outcomeVars
<1>5. ASSUME NEW l \in Lane, ReceiverChannelEnds(l) PROVE BacklogInv'
  <2>1. UNCHANGED <<nextToStore, claimed, stored>>
        /\ (waiting' = {} \/ UNCHANGED <<waiting, rState>>)
    BY <1>5 DEF ReceiverChannelEnds, outcomeVars, storeVars
  <2>2. QED
    BY <1>1, <1>2, <2>1, BacklogFails
<1>6. CASE Write
  <2>1. UNCHANGED <<waiting, nextToStore, claimed, rState>>
    BY <1>6 DEF Write, arrivalVars, outcomeVars
  <2>2. stored <= stored' /\ stored \in Int /\ stored' \in Int /\ claimed \in Int
    <3>1. stored' = stored + Head(queue).bytes /\ Head(queue) \in Chunk /\ claimed \in Nat
      BY <1>1, <1>6 DEF Write, ReceiverInv, Typed
    <3>2. Len(file) \in 0 .. Total /\ stored = Bytes(Len(file))
      BY <1>1 DEF ReceiverInv, Typed, StoreInv
    <3>3. stored \in Nat
      BY <3>2, BytesFacts
    <3>4. QED
      BY <3>1, <3>3 DEF Chunk
  <2>3. claimed' - stored' <= MaxBacklog
    <3>1. claimed - stored <= MaxBacklog /\ MaxBacklog \in Int
      BY DirectTransferAssumption DEF BacklogInv
    <3>2. claimed' = claimed
      BY <2>1
    <3>3. \A a, b, c, n \in Int : b <= c /\ a - b <= n => a - c <= n
      OBVIOUS
    <3>4. QED
      BY <2>2, <3>1, <3>2, <3>3
  <2>4. QED
    BY <2>1, <2>3 DEF BacklogInv, Bytes
<1>7. CASE Seal
  <2>1. rState = "storing" /\ rState' = "ok" /\ UNCHANGED <<waiting, nextToStore, claimed, stored>>
    BY <1>1, <1>7, SealStep DEF Seal, arrivalVars, storeVars
  <2>2. QED
    BY <2>1 DEF BacklogInv, Bytes
<1>8. CASE StorageRejects \/ ReceiverStalls \/ ReceiverDisposes
  <2>1. waiting' = {} /\ UNCHANGED <<nextToStore, claimed, stored>>
    BY <1>8 DEF StorageRejects, ReceiverStalls, ReceiverDisposes, storeVars
  <2>2. QED
    BY <1>1, <2>1, BacklogFails
<1>9. CASE ReceiverCloses
  BY <1>2, <1>9 DEF ReceiverCloses, arrivalVars, storeVars, outcomeVars
<1> QED
  BY <1>1, <1>2, <1>3, <1>4, <1>5, <1>6, <1>7, <1>8, <1>9, BacklogDeliver DEF Next, Channels, Receive

\* What a receiver holds unwritten, waiting behind a gap or queued for storage, stays
\* within its limit, whatever the order the lanes deliver in and however slow its
\* storage is.
THEOREM BacklogBoundedCorrect == Spec => []BacklogBounded
<1>1. DInv => ReceiverInv
  BY DEF DInv
<1>2. QED
  BY <1>1, BacklogStart, BacklogStep, BacklogInvSuffices, ExchangeCorrect, PTL DEF Spec
================================================================================
