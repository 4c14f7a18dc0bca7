------------------------- MODULE SpiderHttpClient_proofs -------------------------
(***************************************************************************)
(* Proofs about SpiderHttpClient, for any answers and any server: the       *)
(* variables keep their types, an exchange that is over has closed its      *)
(* socket, a page of announced length is whole if it is processed, and is   *)
(* passed over only if a reset cut it, and of a page in chunks the content  *)
(* is read and no framing.                                                 *)
(* StreamInv follows the units of an answer of announced length from the    *)
(* wire to the header and the body, ChunkInv those of one in chunks.        *)
(***************************************************************************)
EXTENDS SpiderHttpClient, SequenceTheorems, TLAPS

(* Where the socket is open.                                               *)
SocketInv ==
    /\ at = "connect" => sock = "none"
    /\ at \in {"send", "close"} \cup Receiving => sock = "open"
    /\ at = "work" => sock = "closed"
    /\ at = "done" /\ outcome # "failed" => sock # "open"

(* The units read are the first of the wire, those in the socket the next.  *)
InOrder ==
    /\ Len(header) <= 5
    /\ \A i \in 1..Len(header) : header[i] = Header[i]
    /\ \A i \in 1..Len(body) : body[i] = response.wire[Len(header) + i]
    /\ \A i \in 1..Len(net) : net[i] = response.wire[Len(header) + Len(body) + i]
    /\ peer # "reset" => Len(net) + Len(header) + Len(body) = given

(* A reset took a part of the answer.                                      *)
Cut == peer = "reset" /\ Len(header) + Len(body) < Len(response.wire)

(* How far the client is, told by what it has.                             *)
Progress ==
    /\ at \notin {"size", "chunk", "crlf"}
    /\ at \in {"connect", "send", "header"} =>
          body = <<>> /\ total = 0 /\ ret = 0 /\ early = FALSE /\ Len(header) < 5
    /\ at = "length" =>
          /\ left > 0 /\ left + Len(body) = Len(response.content)
          /\ total = Len(response.content) /\ ret = 0
          /\ early \/ Len(header) = 5 \/ Failed
    /\ at \in {"close", "work", "done"} /\ ret = 0 /\ total > 0 =>
          /\ Len(body) = total /\ total = Len(response.content)
          /\ early \/ Len(header) = 5
    /\ at \in {"close", "work"} /\ ret = 0 /\ Len(header) = 5 /\ ~early =>
          total = Len(response.content)
    /\ at \in {"close", "work"} /\ ~early => Cut \/ (ret = 0 /\ Len(header) = 5)

(* The two properties, where the outcome is known.                         *)
Judged ==
    /\ at # "done" => outcome = "none"
    /\ outcome = "processed" => at = "done" /\ ret = 0 /\ total > 0
    /\ at = "done" /\ caller = "crawler" /\ AnnouncedPage /\ ~early =>
          outcome \in {"processed", "refused"} \/ Cut

StreamInv == response.coding = "length" => InOrder /\ Progress /\ Judged

(* For chunks: the first c units of the wire were read, and what the socket *)
(* holds comes next.                                                       *)
ReadTo(c) ==
    /\ \A k \in 1..Len(net) : net[k] = response.wire[c + k]
    /\ peer # "reset" => c + Len(net) = given

(* What was read is the beginning of the header and of the content.         *)
Beginnings ==
    /\ Len(header) <= 5
    /\ \A i \in 1..Len(header) : header[i] = Header[i]
    /\ Len(body) <= Len(response.content)
    /\ \A i \in 1..Len(body) : body[i] = response.content[i]

(* Where the client is in the frames: the place on the wire is told by what *)
(* it has and by the chunk it is in.                                       *)
InFrames(n, ends) ==
    /\ at # "length"
    /\ at \in {"connect", "send", "header"} =>
          Len(header) < 5 /\ body = <<>> /\ total = 0 /\ ReadTo(Len(header))
    /\ at = "size" =>
          \/ Failed
          \/ \E i \in 0..n :
                Len(body) = ends[i] /\ total = ends[i] /\ ReadTo(5 + 2 * i + ends[i])
    /\ at = "chunk" =>
          \/ Failed
          \/ \E i \in 1..n :
                /\ ends[i - 1] <= Len(body) /\ left > 0
                /\ left + Len(body) = ends[i] /\ total = ends[i]
                /\ ReadTo(4 + 2 * i + Len(body))
    /\ at = "crlf" =>
          \/ Failed
          \/ \E i \in 1..n :
                Len(body) = ends[i] /\ total = ends[i] /\ ReadTo(4 + 2 * i + ends[i])
    /\ at \in {"close", "work"} \/ outcome = "processed" =>
          \/ peer = "reset"
          \/ Len(body) = total /\ total = Len(response.content)
    /\ at # "done" => outcome = "none"

Ends(n) == [0..n -> 0..Len(response.content)]

ChunkInv ==
    response.coding = "chunked" /\ ~early =>
        /\ Beginnings
        /\ \A n \in 0..Len(response.content) : \A ends \in Ends(n) :
              InChunks(response, n, ends) => InFrames(n, ends)
-------------------------------------------------------------------------------
(* The first unit of the socket's buffer moves to the end of the header.    *)
LEMMA MoveOne ==
    ASSUME NEW s \in Seq(Units), s # <<>>, NEW h \in Seq(Units)
    PROVE  /\ Len(s) > 0 /\ Head(s) \in Units /\ Head(s) = s[1]
           /\ Tail(s) \in Seq(Units) /\ Len(Tail(s)) = Len(s) - 1
           /\ \A i \in 1..Len(s) - 1 : Tail(s)[i] = s[i + 1]
           /\ Append(h, Head(s)) \in Seq(Units)
           /\ Len(Append(h, Head(s))) = Len(h) + 1
           /\ \A i \in 1..Len(h) : Append(h, Head(s))[i] = h[i]
           /\ Append(h, Head(s))[Len(h) + 1] = s[1]
<1>1. Len(s) > 0 /\ Head(s) = s[1]
  BY EmptySeq
<1>2. /\ Head(s) \in Units /\ Tail(s) \in Seq(Units) /\ Len(Tail(s)) = Len(s) - 1
      /\ \A i \in 1..Len(s) - 1 : Tail(s)[i] = s[i + 1]
  BY HeadTailProperties
<1> QED  BY <1>1, <1>2, AppendProperties

(* The first n units of the socket's buffer move to the end of the body.    *)
LEMMA MoveMany ==
    ASSUME NEW s \in Seq(Units), NEW n \in 1..Len(s), NEW b \in Seq(Units)
    PROVE  /\ b \o SubSeq(s, 1, n) \in Seq(Units)
           /\ Len(b \o SubSeq(s, 1, n)) = Len(b) + n
           /\ \A i \in 1..Len(b) : (b \o SubSeq(s, 1, n))[i] = b[i]
           /\ \A i \in Len(b) + 1..Len(b) + n :
                 (b \o SubSeq(s, 1, n))[i] = s[i - Len(b)]
           /\ SubSeq(s, n + 1, Len(s)) \in Seq(Units)
           /\ Len(SubSeq(s, n + 1, Len(s))) = Len(s) - n
           /\ \A i \in 1..Len(s) - n : SubSeq(s, n + 1, Len(s))[i] = s[n + i]
<1>0. Len(s) \in Nat /\ Len(b) \in Nat /\ \A i \in 1..Len(s) : s[i] \in Units
  BY LenProperties, ElementOfSeq
<1>1. /\ SubSeq(s, 1, n) \in Seq(Units) /\ Len(SubSeq(s, 1, n)) = n
      /\ \A i \in 1..n : SubSeq(s, 1, n)[i] = s[i]
  <2>1. \A i \in 1..n : s[i] \in Units
    BY <1>0
  <2>2. 1 \in Int /\ n \in Int
    BY <1>0
  <2> QED  BY <2>1, <2>2, <1>0, SubSeqProperties
<1>2. /\ SubSeq(s, n + 1, Len(s)) \in Seq(Units)
      /\ Len(SubSeq(s, n + 1, Len(s))) = Len(s) - n
      /\ \A i \in 1..Len(s) - n : SubSeq(s, n + 1, Len(s))[i] = s[n + i]
  <2>1. \A i \in n + 1..Len(s) : s[i] \in Units
    BY <1>0
  <2>2. n + 1 \in Int /\ Len(s) \in Int
    BY <1>0
  <2>3. /\ SubSeq(s, n + 1, Len(s)) \in Seq(Units)
        /\ Len(SubSeq(s, n + 1, Len(s))) =
              IF n + 1 <= Len(s) THEN Len(s) - (n + 1) + 1 ELSE 0
        /\ \A i \in 1..Len(s) - (n + 1) + 1 :
              SubSeq(s, n + 1, Len(s))[i] = s[n + 1 + i - 1]
    BY <2>1, <2>2, SubSeqProperties
  <2> QED  BY <1>0, <2>1, <2>3
<1>3. /\ b \o SubSeq(s, 1, n) \in Seq(Units)
      /\ Len(b \o SubSeq(s, 1, n)) = Len(b) + n
      /\ \A i \in 1..Len(b) + n :
            (b \o SubSeq(s, 1, n))[i] =
               IF i <= Len(b) THEN b[i] ELSE SubSeq(s, 1, n)[i - Len(b)]
  BY <1>1, ConcatProperties
<1> QED  BY <1>0, <1>1, <1>2, <1>3

(* A reset leaves the first n units of the socket's buffer.                 *)
LEMMA KeepSome ==
    ASSUME NEW s \in Seq(Units), NEW n \in 0..Len(s)
    PROVE  /\ SubSeq(s, 1, n) \in Seq(Units) /\ Len(SubSeq(s, 1, n)) = n
           /\ \A i \in 1..n : SubSeq(s, 1, n)[i] = s[i]
<1>1. Len(s) \in Nat /\ \A i \in 1..n : s[i] \in Units
  BY LenProperties, ElementOfSeq
<1>2. /\ SubSeq(s, 1, n) \in Seq(Units)
      /\ Len(SubSeq(s, 1, n)) = IF 1 <= n THEN n - 1 + 1 ELSE 0
      /\ \A i \in 1..n - 1 + 1 : SubSeq(s, 1, n)[i] = s[1 + i - 1]
  BY <1>1, SubSeqProperties
<1> QED  BY <1>1, <1>2

LEMMA Answers ==
    ASSUME TypeOK
    PROVE  /\ response.code \in Nat /\ response.coding \in {"length", "chunked", "none"}
           /\ response.content \in Seq(Units) /\ response.wire \in Seq(Units)
           /\ Len(response.content) \in Nat /\ Len(response.wire) \in Nat
           /\ response.coding = "length" => response.wire = Header \o response.content
BY HttpAssumption, LenProperties DEF TypeOK
-------------------------------------------------------------------------------
LEMMA TypeInit == Init => TypeOK
<1> SUFFICES ASSUME Init PROVE TypeOK
  OBVIOUS
<1>1. <<>> \in Seq(Units) /\ Len(<<>>) = 0
  BY EmptySeq
<1>2. given \in 0..Len(response.wire)
  BY HttpAssumption, LenProperties DEF Init
<1>3. /\ net \in Seq(Units) /\ header \in Seq(Units) /\ body \in Seq(Units)
      /\ Len(net) + Len(header) + Len(body) <= given
  BY <1>1 DEF Init
<1>4. /\ at \in ClientPC /\ sock \in {"none", "open", "closed"}
      /\ peer \in {"open", "closed", "reset"} /\ outcome \in Outcomes
  BY DEF Init, ClientPC, Outcomes
<1>5. left \in Nat /\ total \in Nat \cup {-1} /\ ret \in {0, -1}
  BY DEF Init
<1>6. caller \in Callers /\ response \in Responses /\ early \in BOOLEAN
  BY DEF Init
<1> QED  BY <1>2, <1>3, <1>4, <1>5, <1>6 DEF TypeOK

(* The number a line of the chunks is taken for.                            *)
LEMMA SizeType ==
    ASSUME TypeOK, NEW n, n \in CutSizes \/ \E u \in Units : n \in SizesOf(u)
    PROVE  n \in Nat \cup {-1}
BY Answers DEF CutSizes, SizesOf, Units

LEMMA TypeParse ==
    ASSUME TypeOK, NEW h, PrasePackage(h)
    PROVE  at' \in ClientPC /\ left' \in Nat /\ total' \in Nat \cup {-1}
BY Answers DEF TypeOK, PrasePackage, ClientPC, Receiving

LEMMA TypeChunkSize ==
    ASSUME TypeOK, NEW n \in Nat \cup {-1}, ChunkSize(n)
    PROVE  at' \in ClientPC /\ left' \in Nat /\ total' \in Nat \cup {-1}
<1>1. total \in Nat \cup {-1} /\ left \in Nat
  BY DEF TypeOK
<1> QED  BY <1>1 DEF ChunkSize, ClientPC, Receiving

LEMMA TypeTake ==
    ASSUME TypeOK, NEW n \in 1..Len(net), n <= left, Take(n)
    PROVE  /\ body' \in Seq(Units) /\ net' \in Seq(Units) /\ left' \in Nat
           /\ Len(net') + Len(body') = Len(net) + Len(body)
<1>1. net \in Seq(Units) /\ body \in Seq(Units) /\ left \in Nat
      /\ Len(net) \in Nat /\ Len(body) \in Nat
  BY LenProperties DEF TypeOK
<1>2. /\ body \o SubSeq(net, 1, n) \in Seq(Units)
      /\ Len(body \o SubSeq(net, 1, n)) = Len(body) + n
      /\ SubSeq(net, n + 1, Len(net)) \in Seq(Units)
      /\ Len(SubSeq(net, n + 1, Len(net))) = Len(net) - n
  BY <1>1, MoveMany
<1>3. /\ body' = body \o SubSeq(net, 1, n) /\ net' = SubSeq(net, n + 1, Len(net))
      /\ left' = left - n
  BY DEF Take
<1>4. left' \in Nat
  BY <1>1, <1>3
<1>5. body' \in Seq(Units) /\ Len(body') = Len(body) + n
  BY <1>2, <1>3
<1>6. net' \in Seq(Units) /\ Len(net') = Len(net) - n
  BY <1>2, <1>3
<1>7. n \in Int
  BY <1>1
<1>8. Len(net') + Len(body') = Len(net) + Len(body)
  BY <1>1, <1>5, <1>6, <1>7
<1> QED  BY <1>4, <1>5, <1>6, <1>8

LEMMA TypeStep == TypeOK /\ [Next]_vars => TypeOK'
<1> SUFFICES ASSUME TypeOK, [Next]_vars PROVE TypeOK'
  OBVIOUS
<1>0. /\ net \in Seq(Units) /\ header \in Seq(Units) /\ body \in Seq(Units)
      /\ Len(net) \in Nat /\ Len(header) \in Nat /\ Len(body) \in Nat
      /\ given \in Nat /\ given <= Len(response.wire) /\ Len(response.wire) \in Nat
      /\ Len(net) + Len(header) + Len(body) <= given
  BY LenProperties, Answers DEF TypeOK
<1>1. CASE Serve
  <2>1. response.wire[given + 1] \in Units
    BY <1>0, <1>1, Answers, ElementOfSeq DEF Serve
  <2>2. net' \in Seq(Units) /\ Len(net') = Len(net) + 1
    BY <1>0, <1>1, <2>1, AppendProperties DEF Serve
  <2> QED  BY <1>0, <1>1, <2>2 DEF Serve, TypeOK, readVars
<1>2. CASE ServerClose
  BY <1>2 DEF ServerClose, TypeOK, readVars
<1>3. CASE Reset
  <2>1. PICK n \in 0..Len(net) : net' = SubSeq(net, 1, n)
    BY <1>3 DEF Reset
  <2>2. net' \in Seq(Units) /\ Len(net') <= Len(net) /\ Len(net') \in Nat
    BY <1>0, <2>1, KeepSome
  <2> QED  BY <1>0, <1>3, <2>2 DEF Reset, TypeOK, readVars
<1>4. CASE Connect
  BY <1>4 DEF Connect, TypeOK, readVars, serverVars, ClientPC, Outcomes
<1>5. CASE SendPackage
  BY <1>5 DEF SendPackage, TypeOK, readVars, serverVars, ClientPC, Outcomes, Receiving
<1>6. CASE RecvHeader
  <2>1. CASE net # <<>> /\ net' = Tail(net) /\ header' = Append(header, Head(net))
    <3>1. /\ net' \in Seq(Units) /\ header' \in Seq(Units)
          /\ Len(net') + Len(header') = Len(net) + Len(header)
      BY <1>0, <2>1, MoveOne
    <3>2. at' \in ClientPC /\ left' \in Nat /\ total' \in Nat \cup {-1}
          /\ early' \in BOOLEAN
      BY <1>6, TypeParse DEF RecvHeader, TypeOK
    <3> QED  BY <1>0, <1>6, <3>1, <3>2 DEF RecvHeader, TypeOK, serverVars
  <2>2. CASE Failed /\ PrasePackage(header) /\ UNCHANGED <<net, header, early>>
    BY <1>6, <2>2, TypeParse DEF RecvHeader, TypeOK, serverVars
  <2> QED  BY <1>6, <2>1, <2>2 DEF RecvHeader
<1>7. CASE RecvBody
  <2>1. CASE /\ \E n \in 1..Len(net) :
                  n <= left /\ Take(n) /\ at' = (IF n = left THEN "close" ELSE "length")
             /\ UNCHANGED <<total, ret>>
    <3>1. /\ body' \in Seq(Units) /\ net' \in Seq(Units) /\ left' \in Nat
          /\ Len(net') + Len(body') = Len(net) + Len(body)
      BY <2>1, TypeTake
    <3> QED  BY <1>0, <1>7, <2>1, <3>1
             DEF RecvBody, TypeOK, serverVars, ClientPC, Receiving
  <2>2. CASE Failed /\ at' = "close" /\ ret' = -1 /\ total' = 0
             /\ UNCHANGED <<net, body, left>>
    BY <1>7, <2>2 DEF RecvBody, TypeOK, serverVars, ClientPC
  <2> QED  BY <1>7, <2>1, <2>2 DEF RecvBody
<1>8. CASE RecvSize
  <2>1. CASE net # <<>> /\ net' = Tail(net) /\ \E n \in SizesOf(Head(net)) : ChunkSize(n)
    <3>1. Head(net) \in Units /\ net' \in Seq(Units) /\ Len(net') <= Len(net)
          /\ Len(net') \in Nat
      BY <1>0, <2>1, MoveOne
    <3>2. at' \in ClientPC /\ left' \in Nat /\ total' \in Nat \cup {-1}
      BY <2>1, <3>1, SizeType, TypeChunkSize
    <3> QED  BY <1>0, <1>8, <3>1, <3>2 DEF RecvSize, TypeOK, serverVars
  <2>2. CASE Failed /\ UNCHANGED net /\ \E n \in CutSizes : ChunkSize(n)
    <3>1. at' \in ClientPC /\ left' \in Nat /\ total' \in Nat \cup {-1}
      BY <2>2, SizeType, TypeChunkSize
    <3> QED  BY <1>8, <2>2, <3>1 DEF RecvSize, TypeOK, serverVars
  <2> QED  BY <1>8, <2>1, <2>2 DEF RecvSize
<1>9. CASE RecvChunk
  <2>1. CASE \E n \in 1..Len(net) :
                n <= left /\ Take(n) /\ at' = (IF n = left THEN "crlf" ELSE "chunk")
    <3>1. /\ body' \in Seq(Units) /\ net' \in Seq(Units) /\ left' \in Nat
          /\ Len(net') + Len(body') = Len(net) + Len(body)
      BY <2>1, TypeTake
    <3> QED  BY <1>0, <1>9, <2>1, <3>1
             DEF RecvChunk, TypeOK, serverVars, ClientPC, Receiving
  <2>2. CASE Failed /\ at' = "close" /\ UNCHANGED <<net, body, left>>
    BY <1>9, <2>2 DEF RecvChunk, TypeOK, serverVars, ClientPC
  <2> QED  BY <1>9, <2>1, <2>2 DEF RecvChunk
<1>10. CASE RecvCrlf
  <2>1. net' \in Seq(Units) /\ Len(net') <= Len(net) /\ Len(net') \in Nat
    <3>1. CASE net # <<>> /\ net' = Tail(net)
      <4>1. Tail(net) \in Seq(Units) /\ Len(Tail(net)) = Len(net) - 1 /\ Len(net) > 0
        BY <1>0, <3>1, MoveOne
      <4> QED  BY <1>0, <3>1, <4>1
    <3>2. CASE net' = net
      BY <1>0, <3>2
    <3> QED  BY <1>10, <3>1, <3>2 DEF RecvCrlf
  <2> QED  BY <1>0, <1>10, <2>1
           DEF RecvCrlf, TypeOK, serverVars, readVars, ClientPC, Receiving
<1>11. CASE Finish
  BY <1>11 DEF Finish, TypeOK, serverVars, readVars, ClientPC, Outcomes
<1>12. CASE WorkerWork
  BY <1>12 DEF WorkerWork, TypeOK, serverVars, readVars, ClientPC, Outcomes
<1>13. CASE UNCHANGED vars
  BY <1>13 DEF vars, TypeOK, serverVars, readVars
<1> QED  BY <1>1, <1>2, <1>3, <1>4, <1>5, <1>6, <1>7, <1>8, <1>9, <1>10, <1>11,
            <1>12, <1>13 DEF Next, Server, Client

(* Every variable keeps its type: among it, the client never holds more of  *)
(* an answer than the server has sent.                                      *)
THEOREM HttpTypeCorrect == Spec => []TypeOK
BY TypeInit, TypeStep, PTL DEF Spec
-------------------------------------------------------------------------------
(* Sockets.                                                                *)

LEMMA SocketInit == Init => SocketInv
BY DEF Init, SocketInv, Receiving

LEMMA SocketStep == SocketInv /\ [Next]_vars => SocketInv'
<1> SUFFICES ASSUME SocketInv, [Next]_vars PROVE SocketInv'
  OBVIOUS
<1>1. CASE Server \/ UNCHANGED vars
  BY <1>1 DEF Server, Serve, ServerClose, Reset, vars, SocketInv
<1>2. CASE Connect
  BY <1>2 DEF Connect, SocketInv, Receiving
<1>3. CASE SendPackage
  BY <1>3 DEF SendPackage, SocketInv, Receiving
<1>4. CASE RecvHeader \/ RecvBody \/ RecvSize \/ RecvChunk \/ RecvCrlf
  <2>1. at \in Receiving /\ at' \in Receiving \cup {"close"} /\ sock' = sock
    BY <1>4 DEF RecvHeader, RecvBody, RecvSize, RecvChunk, RecvCrlf, ChunkSize,
                PrasePackage, Receiving
  <2> QED  BY <2>1 DEF SocketInv, Receiving
<1>5. CASE Finish
  BY <1>5 DEF Finish, SocketInv, Receiving
<1>6. CASE WorkerWork
  BY <1>6 DEF WorkerWork, SocketInv, Receiving
<1> QED  BY <1>1, <1>2, <1>3, <1>4, <1>5, <1>6 DEF Next, Client

(* An exchange that is over has closed its socket, but for the cookie login *)
(* that failed.                                                            *)
THEOREM HttpSocketReleased == Spec => []SocketReleased
<1>1. SocketInv => SocketReleased
  BY DEF SocketInv, SocketReleased
<1> QED  BY SocketInit, SocketStep, <1>1, PTL DEF Spec
-------------------------------------------------------------------------------
(* Pages of announced length.                                              *)

LEMMA OnTheWire ==
    ASSUME TypeOK, response.coding = "length"
    PROVE  /\ Len(response.wire) = 5 + Len(response.content)
           /\ \A i \in 1..5 : response.wire[i] = Header[i]
           /\ \A i \in 1..Len(response.content) : response.wire[5 + i] = response.content[i]
<1>1. Header \in Seq(Units) /\ Len(Header) = 5
  BY DEF Header, Units, Unit, Kinds
<1>2. /\ response.content \in Seq(Units) /\ Len(response.content) \in Nat
      /\ response.wire = Header \o response.content
  BY Answers
<1>3. /\ Len(Header \o response.content) = Len(Header) + Len(response.content)
      /\ \A i \in 1..Len(Header) + Len(response.content) :
            (Header \o response.content)[i] =
               IF i <= Len(Header) THEN Header[i] ELSE response.content[i - Len(Header)]
  BY <1>1, <1>2, ConcatProperties
<1> QED  BY <1>1, <1>2, <1>3

LEMMA HeaderKinds ==
    /\ Header[1].is = "first" /\ Header[2].is = "line" /\ Header[3].is = "field"
    /\ Header[4].is = "other" /\ Header[5].is = "blank"
BY DEF Header, Unit

(* A header that came whole has everything the client looks for; one that   *)
(* did not lacks the mark.                                                 *)
LEMMA WholeHeader ==
    ASSUME NEW h \in Seq(Units), Len(h) <= 5, \A i \in 1..Len(h) : h[i] = Header[i]
    PROVE  /\ Len(h) = 5 => Has(h, "field") /\ Has(h, "line")
           /\ Has(h, "blank") => Len(h) = 5
<1>0. Len(h) \in Nat
  BY LenProperties
<1>1. ASSUME Len(h) = 5 PROVE Has(h, "field") /\ Has(h, "line")
  <2>1. 2 \in 1..Len(h) /\ 3 \in 1..Len(h)
    BY <1>1
  <2>2. h[2].is = "line" /\ h[3].is = "field"
    BY <2>1, HeaderKinds
  <2> QED  BY <2>1, <2>2 DEF Has
<1>2. ASSUME Has(h, "blank") PROVE Len(h) = 5
  <2>1. PICK i \in 1..Len(h) : Header[i].is = "blank"
    BY <1>2 DEF Has
  <2>2. i \in 1..5 /\ i <= Len(h)
    BY <1>0, <2>1
  <2>3. i = 5
    BY <2>1, <2>2, HeaderKinds
  <2>4. 5 <= Len(h)
    BY <2>2, <2>3
  <2>5. \A n \in Nat : n <= 5 /\ 5 <= n => n = 5
    OBVIOUS
  <2> QED  BY <1>0, <2>4, <2>5
<1> QED  BY <1>1, <1>2

LEMMA StreamInit == TypeOK /\ Init => StreamInv
<1> SUFFICES ASSUME TypeOK, Init PROVE StreamInv
  OBVIOUS
<1>1. Len(<<>>) = 0
  BY EmptySeq
<1>2. InOrder
  BY <1>1 DEF Init, InOrder
<1>3. Progress
  BY <1>1 DEF Init, Progress
<1>4. Judged
  BY DEF Init, Judged
<1> QED  BY <1>2, <1>3, <1>4 DEF StreamInv

LEMMA StreamStep == TypeOK /\ TypeOK' /\ StreamInv /\ [Next]_vars => StreamInv'
<1> SUFFICES ASSUME TypeOK, TypeOK', StreamInv, [Next]_vars, response'.coding = "length"
             PROVE  InOrder' /\ Progress' /\ Judged'
  BY DEF StreamInv
<1>r. response' = response /\ caller' = caller
  BY DEF Next, Server, Client, Serve, ServerClose, Reset, Connect, SendPackage,
         RecvHeader, RecvBody, RecvSize, RecvChunk, RecvCrlf, Finish, WorkerWork, vars
<1>s. response.coding = "length" /\ InOrder /\ Progress /\ Judged
  BY <1>r DEF StreamInv
<1>0. /\ net \in Seq(Units) /\ header \in Seq(Units) /\ body \in Seq(Units)
      /\ Len(net) \in Nat /\ Len(header) \in Nat /\ Len(body) \in Nat
      /\ given \in Nat /\ left \in Nat /\ Len(response.content) \in Nat
      /\ total \in Nat \cup {-1}
  BY LenProperties, Answers DEF TypeOK
<1>1. CASE Serve
  <2>1. response.wire[given + 1] \in Units
    BY <1>0, <1>1, Answers, ElementOfSeq DEF Serve
  <2>2. /\ Len(net') = Len(net) + 1
        /\ \A i \in 1..Len(net) : net'[i] = net[i]
        /\ net'[Len(net) + 1] = response.wire[given + 1]
    BY <1>0, <1>1, <2>1, AppendProperties DEF Serve
  <2>3. Len(net) + Len(header) + Len(body) = given /\ given' = given + 1
        /\ header' = header /\ body' = body /\ peer' = peer
    BY <1>s, <1>1 DEF Serve, InOrder, readVars
  <2>4. InOrder'
    <3>1. /\ Len(header') <= 5
          /\ \A i \in 1..Len(header') : header'[i] = Header[i]
          /\ \A i \in 1..Len(body') : body'[i] = response'.wire[Len(header') + i]
      BY <1>r, <1>s, <2>3 DEF InOrder
    <3>2. \A i \in 1..Len(net') : net'[i] = response'.wire[Len(header') + Len(body') + i]
      <4> SUFFICES ASSUME NEW i \in 1..Len(net')
                   PROVE  net'[i] = response.wire[Len(header) + Len(body) + i]
        BY <1>r, <2>3
      <4>1. CASE i \in 1..Len(net)
        BY <1>s, <2>2, <4>1 DEF InOrder
      <4>2. CASE i = Len(net) + 1
        <5>1. Len(header) + Len(body) + i = given + 1
          BY <1>0, <2>3, <4>2
        <5> QED  BY <2>2, <4>2, <5>1
      <4> QED  BY <1>0, <2>2, <4>1, <4>2
    <3>3. Len(net') + Len(header') + Len(body') = given'
      <4>1. Len(net') = Len(net) + 1
        BY <2>2
      <4>2. Len(header') = Len(header) /\ Len(body') = Len(body) /\ given' = given + 1
        BY <2>3
      <4>3. Len(net) + Len(header) + Len(body) = given
        BY <2>3
      <4>4. Len(net) \in Int /\ Len(header) \in Int /\ Len(body) \in Int
        BY <1>0
      <4> QED  BY <4>1, <4>2, <4>3, <4>4
    <3> QED  BY <3>1, <3>2, <3>3 DEF InOrder
  <2>5. ~Failed
    BY <1>1 DEF Serve, Failed
  <2>6. Progress'
    BY <1>1, <1>r, <1>s, <2>5 DEF Serve, Progress, Cut, readVars, serverVars
  <2>7. Judged'
    BY <1>1, <1>r, <1>s DEF Serve, Judged, AnnouncedPage, Cut, readVars
  <2> QED  BY <2>4, <2>6, <2>7
<1>2. CASE ServerClose
  <2>1. InOrder'
    BY <1>2, <1>r, <1>s DEF ServerClose, InOrder, readVars
  <2>2. Progress'
    BY <1>2, <1>r, <1>s DEF ServerClose, Progress, Failed, Cut, readVars
  <2>3. Judged'
    BY <1>2, <1>r, <1>s DEF ServerClose, Judged, AnnouncedPage, Cut, readVars
  <2> QED  BY <2>1, <2>2, <2>3
<1>3. CASE Reset
  <2>1. PICK n \in 0..Len(net) : net' = SubSeq(net, 1, n)
    BY <1>3 DEF Reset
  <2>2. Len(net') = n /\ n <= Len(net) /\ n \in Nat
        /\ \A i \in 1..n : net'[i] = net[i]
    BY <1>0, <2>1, KeepSome
  <2>3. InOrder'
    <3>1. header' = header /\ body' = body /\ peer' = "reset"
      BY <1>3 DEF Reset, readVars
    <3>2. \A i \in 1..Len(net') :
             net'[i] = response.wire[Len(header) + Len(body) + i]
      <4>1. \A i \in 1..n : i \in 1..Len(net)
        BY <1>0, <2>2
      <4> QED  BY <1>s, <2>2, <4>1 DEF InOrder
    <3>3. Len(header) <= 5 /\ \A i \in 1..Len(header) : header[i] = Header[i]
      BY <1>s DEF InOrder
    <3>4. \A i \in 1..Len(body) : body[i] = response.wire[Len(header) + i]
      BY <1>s DEF InOrder
    <3> QED  BY <1>r, <3>1, <3>2, <3>3, <3>4 DEF InOrder
  <2>4. ~Failed
    BY <1>3 DEF Reset, Failed
  <2>5. Progress'
    BY <1>3, <1>r, <1>s, <2>4 DEF Reset, Progress, Cut, readVars, serverVars
  <2>6. Judged'
    BY <1>3, <1>r, <1>s DEF Reset, Judged, AnnouncedPage, Cut, readVars
  <2> QED  BY <2>3, <2>5, <2>6
<1>4. CASE Connect \/ SendPackage
  <2>1. InOrder'
    BY <1>4, <1>r, <1>s DEF Connect, SendPackage, InOrder, readVars, serverVars
  <2>2. Progress'
    BY <1>4, <1>r, <1>s DEF Connect, SendPackage, Progress, Cut, readVars, serverVars
  <2>3. Judged'
    BY <1>4, <1>r, <1>s DEF Connect, SendPackage, Judged
  <2> QED  BY <2>1, <2>2, <2>3
<1>5. CASE RecvHeader
  <2>0. /\ body = <<>> /\ Len(body) = 0 /\ total = 0 /\ ret = 0 /\ early = FALSE
        /\ Len(header) < 5 /\ body' = body /\ ret' = ret /\ peer' = peer
        /\ given' = given /\ outcome' = outcome /\ outcome = "none"
    BY <1>5, <1>s, EmptySeq DEF RecvHeader, Progress, Judged, serverVars
  <2>1. CASE net # <<>> /\ net' = Tail(net) /\ header' = Append(header, Head(net))
    <3>1. /\ Len(net) > 0 /\ Head(net) = net[1] /\ Len(net') = Len(net) - 1
          /\ \A i \in 1..Len(net) - 1 : net'[i] = net[i + 1]
          /\ header' \in Seq(Units) /\ Len(header') = Len(header) + 1
          /\ \A i \in 1..Len(header) : header'[i] = header[i]
          /\ header'[Len(header) + 1] = net[1]
      BY <1>0, <2>1, MoveOne
    <3>2. net[1] = Header[Len(header) + 1]
      <4>1. net[1] = response.wire[Len(header) + Len(body) + 1]
        BY <1>0, <1>s, <3>1 DEF InOrder
      <4>2. Len(header) + 1 \in 1..5
        BY <1>0, <2>0
      <4> QED  BY <1>0, <1>s, <2>0, <4>1, <4>2, OnTheWire
    <3>3. InOrder'
      <4>1. /\ Len(header') <= 5
            /\ \A i \in 1..Len(header') : header'[i] = Header[i]
        BY <1>0, <1>s, <2>0, <3>1, <3>2 DEF InOrder
      <4>2. \A i \in 1..Len(body') : body'[i] = response'.wire[Len(header') + i]
        BY <2>0
      <4>3. \A i \in 1..Len(net') :
               net'[i] = response'.wire[Len(header') + Len(body') + i]
        <5> SUFFICES ASSUME NEW i \in 1..Len(net')
                     PROVE  net'[i] = response.wire[Len(header') + Len(body') + i]
          BY <1>r
        <5>1. i + 1 \in 1..Len(net) /\ i \in 1..Len(net) - 1 /\ i \in Int
          BY <1>0, <3>1
        <5>2. net'[i] = response.wire[Len(header) + Len(body) + (i + 1)]
          BY <1>s, <3>1, <5>1 DEF InOrder
        <5>3. Len(header) + Len(body) + (i + 1) = Len(header') + Len(body') + i
          BY <1>0, <2>0, <3>1, <5>1
        <5> QED  BY <5>2, <5>3
      <4>4. peer' # "reset" => Len(net') + Len(header') + Len(body') = given'
        BY <1>0, <1>s, <2>0, <3>1 DEF InOrder
      <4> QED  BY <4>1, <4>2, <4>3, <4>4 DEF InOrder
    <3>4. Head(net).is = "blank" => Len(header') = 5 /\ Has(header', "field")
      <4> SUFFICES ASSUME Head(net).is = "blank" PROVE Len(header') = 5 /\ Has(header', "field")
        OBVIOUS
      <4>1. Len(header) + 1 \in 1..5
        BY <1>0, <2>0
      <4>2. Len(header) + 1 = 5
        BY <3>1, <3>2, <4>1, HeaderKinds
      <4> QED  BY <3>1, <3>3, <4>2, WholeHeader DEF InOrder
    <3>5. Head(net).is # "blank" => Len(header') < 5
      <4> SUFFICES ASSUME Len(header') >= 5 PROVE Head(net).is = "blank"
        BY <1>0, <3>1
      <4>1. Len(header) + 1 = 5
        BY <1>0, <2>0, <3>1
      <4> QED  BY <3>1, <3>2, <4>1, HeaderKinds
    <3>6. Progress'
      <4>1. CASE Head(net).is # "blank" /\ UNCHANGED <<at, left, total, early>>
        BY <1>5, <1>r, <1>s, <2>0, <3>5, <4>1 DEF RecvHeader, Progress
      <4>2. CASE Head(net).is = "blank" /\ PrasePackage(header') /\ UNCHANGED early
        <5>1. Len(header') = 5 /\ Has(header', "field")
          BY <3>4, <4>2
        <5>2. \/ /\ response.content # <<>> /\ at' = "length"
                 /\ left' = Len(response.content) /\ total' = Len(response.content)
              \/ response.content = <<>> /\ at' = "close" /\ total' = total
          BY <1>s, <4>2, <5>1 DEF PrasePackage
        <5>3. response.content # <<>> => Len(response.content) > 0
          BY <1>0, Answers, EmptySeq
        <5>4. response.content = <<>> => Len(response.content) = 0
          BY EmptySeq
        <5> QED  BY <1>0, <1>r, <2>0, <4>2, <5>1, <5>2, <5>3, <5>4 DEF Progress
      <4>3. CASE PrasePackage(header') /\ early' = TRUE
        <5>1. \/ /\ response.content # <<>> /\ at' = "length"
                 /\ left' = Len(response.content) /\ total' = Len(response.content)
              \/ at' = "close" /\ total' = total
          BY <1>s, <4>3 DEF PrasePackage
        <5>2. response.content # <<>> => Len(response.content) > 0
          BY <1>0, Answers, EmptySeq
        <5> QED  BY <1>0, <1>r, <2>0, <4>3, <5>1, <5>2 DEF Progress
      <4>4. net # <<>> => ~Failed
        BY DEF Failed
      <4> QED  BY <1>5, <2>1, <4>1, <4>2, <4>3, <4>4 DEF RecvHeader
    <3>7. Judged'
      <4>1. at' # "done"
        BY <1>5, <2>1 DEF RecvHeader, PrasePackage, Failed
      <4> QED  BY <2>0, <4>1 DEF Judged
    <3> QED  BY <3>3, <3>6, <3>7
  <2>2. CASE Failed /\ PrasePackage(header) /\ UNCHANGED <<net, header, early>>
    <3>1. InOrder'
      BY <1>r, <1>s, <2>0, <2>2 DEF InOrder
    <3>2. Progress'
      <4>1. \/ /\ response.content # <<>> /\ at' = "length"
               /\ left' = Len(response.content) /\ total' = Len(response.content)
            \/ at' = "close" /\ total' = total
        BY <1>s, <2>2 DEF PrasePackage
      <4>2. response.content # <<>> => Len(response.content) > 0
        BY <1>0, Answers, EmptySeq
      <4>3. Failed'
        BY <2>0, <2>2 DEF Failed
      <4>4. header' = header /\ early' = early
        BY <2>2
      <4>5. CASE /\ response.content # <<>> /\ at' = "length"
                 /\ left' = Len(response.content) /\ total' = Len(response.content)
        <5>1. left' > 0 /\ left' + Len(body') = Len(response.content)
          BY <1>0, <2>0, <4>2, <4>5
        <5> QED  BY <1>r, <2>0, <4>3, <4>5, <5>1 DEF Progress
      <4>6. CASE at' = "close" /\ total' = total
        <5>1. body' = <<>> /\ total' = 0 /\ ret' = 0 /\ Len(header') < 5
          BY <2>0, <4>4, <4>6
        <5>2. ~(total' > 0) /\ ~(Len(header') = 5) /\ at' = "close"
          <6>1. \A n \in Nat : n < 5 => ~(n = 5)
            OBVIOUS
          <6>2. Len(header') \in Nat
            BY <1>0, <4>4
          <6>3. ~(Len(header') = 5)
            BY <5>1, <6>1, <6>2
          <6>4. ~(total' > 0)
            BY <5>1
          <6> QED  BY <4>6, <6>3, <6>4
        <5>3. Cut'
          <6>1. Len(response.wire) = 5 + Len(response.content)
            BY <1>s, OnTheWire
          <6>2. Len(header) + Len(body) < Len(response.wire)
            BY <1>0, <2>0, <6>1
          <6> QED  BY <1>r, <2>0, <2>2, <4>4, <6>2 DEF Cut, Failed
        <5> QED  BY <5>2, <5>3 DEF Progress
      <4> QED  BY <4>1, <4>5, <4>6
    <3>3. Judged'
      <4>1. at' # "done"
        BY <2>2 DEF PrasePackage
      <4> QED  BY <2>0, <4>1 DEF Judged
    <3> QED  BY <3>1, <3>2, <3>3
  <2> QED  BY <1>5, <2>1, <2>2 DEF RecvHeader
<1>6. CASE RecvBody
  <2>0. /\ at = "length" /\ header' = header /\ peer' = peer /\ given' = given
        /\ outcome' = outcome /\ outcome = "none" /\ early' = early
        /\ left > 0 /\ left + Len(body) = Len(response.content)
        /\ total = Len(response.content) /\ ret = 0
        /\ early \/ Len(header) = 5 \/ Failed
    BY <1>6, <1>s DEF RecvBody, Progress, Judged, serverVars
  <2>1. ASSUME NEW n \in 1..Len(net), n <= left, Take(n),
               at' = (IF n = left THEN "close" ELSE "length"), UNCHANGED <<total, ret>>
        PROVE  InOrder' /\ Progress' /\ Judged'
    <3>1. /\ Len(body \o SubSeq(net, 1, n)) = Len(body) + n
          /\ \A i \in 1..Len(body) : (body \o SubSeq(net, 1, n))[i] = body[i]
          /\ \A i \in Len(body) + 1..Len(body) + n :
                (body \o SubSeq(net, 1, n))[i] = net[i - Len(body)]
          /\ Len(SubSeq(net, n + 1, Len(net))) = Len(net) - n
          /\ \A i \in 1..Len(net) - n : SubSeq(net, n + 1, Len(net))[i] = net[n + i]
      <4>1. ASSUME NEW s \in Seq(Units), NEW k \in 1..Len(s), NEW b \in Seq(Units)
            PROVE  /\ b \o SubSeq(s, 1, k) \in Seq(Units)
                   /\ Len(b \o SubSeq(s, 1, k)) = Len(b) + k
                   /\ \A i \in 1..Len(b) : (b \o SubSeq(s, 1, k))[i] = b[i]
                   /\ \A i \in Len(b) + 1..Len(b) + k :
                         (b \o SubSeq(s, 1, k))[i] = s[i - Len(b)]
                   /\ SubSeq(s, k + 1, Len(s)) \in Seq(Units)
                   /\ Len(SubSeq(s, k + 1, Len(s))) = Len(s) - k
                   /\ \A i \in 1..Len(s) - k : SubSeq(s, k + 1, Len(s))[i] = s[k + i]
        BY MoveMany
      <4>2. net \in Seq(Units) /\ body \in Seq(Units)
        BY <1>0
      <4> DEFINE P(b, s, k) ==
                   /\ Len(b \o SubSeq(s, 1, k)) = Len(b) + k
                   /\ \A i \in 1..Len(b) : (b \o SubSeq(s, 1, k))[i] = b[i]
                   /\ \A i \in Len(b) + 1..Len(b) + k :
                         (b \o SubSeq(s, 1, k))[i] = s[i - Len(b)]
                   /\ Len(SubSeq(s, k + 1, Len(s))) = Len(s) - k
                   /\ \A i \in 1..Len(s) - k : SubSeq(s, k + 1, Len(s))[i] = s[k + i]
      <4>3. \A s \in Seq(Units) : \A k \in 1..Len(s) : \A b \in Seq(Units) : P(b, s, k)
        BY <4>1
      <4>4. P(body, net, n)
        <5> HIDE DEF P
        <5> QED  BY <4>2, <4>3
      <4> QED  BY <4>4
    <3>2. /\ Len(body') = Len(body) + n /\ Len(net') = Len(net) - n /\ left' = left - n
          /\ \A i \in 1..Len(body) : body'[i] = body[i]
          /\ \A i \in Len(body) + 1..Len(body) + n : body'[i] = net[i - Len(body)]
          /\ \A i \in 1..Len(net) - n : net'[i] = net[n + i]
      BY <2>1, <3>1 DEF Take
    <3>n. n \in Int /\ 1 <= n /\ n <= Len(net)
      BY <1>0
    <3>3. InOrder'
      <4>1. Len(header') <= 5 /\ \A i \in 1..Len(header') : header'[i] = Header[i]
        BY <1>s, <2>0 DEF InOrder
      <4>2. \A i \in 1..Len(body') : body'[i] = response'.wire[Len(header') + i]
        <5> SUFFICES ASSUME NEW i \in 1..Len(body')
                     PROVE  body'[i] = response.wire[Len(header) + i]
          BY <1>r, <2>0
        <5>1. CASE i \in 1..Len(body)
          BY <1>s, <3>2, <5>1 DEF InOrder
        <5>2. CASE i \in Len(body) + 1..Len(body) + n
          <6>1. i - Len(body) \in 1..Len(net) /\ i \in Int
            BY <1>0, <3>n, <5>2
          <6>2. body'[i] = response.wire[Len(header) + Len(body) + (i - Len(body))]
            BY <1>s, <3>2, <5>2, <6>1 DEF InOrder
          <6>3. Len(header) + Len(body) + (i - Len(body)) = Len(header) + i
            BY <1>0, <6>1
          <6> QED  BY <6>2, <6>3
        <5> QED  BY <1>0, <3>2, <3>n, <5>1, <5>2
      <4>3. \A i \in 1..Len(net') :
               net'[i] = response'.wire[Len(header') + Len(body') + i]
        <5> SUFFICES ASSUME NEW i \in 1..Len(net')
                     PROVE  net'[i] = response.wire[Len(header) + Len(body') + i]
          BY <1>r, <2>0
        <5>1. i \in 1..Len(net) - n /\ n + i \in 1..Len(net) /\ i \in Int
          BY <1>0, <3>2, <3>n
        <5>2. net'[i] = response.wire[Len(header) + Len(body) + (n + i)]
          BY <1>s, <3>2, <5>1 DEF InOrder
        <5>3. Len(header) + Len(body) + (n + i) = Len(header) + Len(body') + i
          BY <1>0, <3>2, <3>n, <5>1
        <5> QED  BY <5>2, <5>3
      <4>4. peer' # "reset" => Len(net') + Len(header') + Len(body') = given'
        BY <1>0, <1>s, <2>0, <3>2, <3>n DEF InOrder
      <4> QED  BY <4>1, <4>2, <4>3, <4>4 DEF InOrder
    <3>4. early \/ Len(header) = 5
      <4>1. net # <<>>
        BY <3>n, EmptySeq
      <4> QED  BY <2>0, <4>1 DEF Failed
    <3>5. Progress'
      <4>1. CASE n = left
        <5>1. Len(body') = Len(response.content) /\ at' = "close"
          BY <1>0, <2>0, <2>1, <3>2, <4>1
        <5> QED  BY <1>r, <2>0, <2>1, <3>4, <5>1 DEF Progress
      <4>2. CASE n # left
        <5>1. at' = "length" /\ left' > 0 /\ left' + Len(body') = Len(response.content)
          <6>1. left - n > 0 /\ left - n + (Len(body) + n) = left + Len(body)
            BY <1>0, <2>1, <3>n, <4>2
          <6> QED  BY <2>0, <2>1, <3>2, <4>2, <6>1
        <5> QED  BY <1>r, <2>0, <2>1, <3>4, <5>1 DEF Progress
      <4> QED  BY <4>1, <4>2
    <3>6. Judged'
      <4>1. at' # "done"
        BY <2>1
      <4> QED  BY <2>0, <4>1 DEF Judged
    <3> QED  BY <3>3, <3>5, <3>6
  <2>2. CASE Failed /\ at' = "close" /\ ret' = -1 /\ total' = 0 /\ UNCHANGED <<net, body, left>>
    <3>1. InOrder'
      BY <1>r, <1>s, <2>0, <2>2 DEF InOrder
    <3>2. Progress'
      <4>1. Len(response.wire) = 5 + Len(response.content) /\ Len(header) <= 5
        BY <1>s, OnTheWire DEF InOrder
      <4>2. Len(header) + Len(body) < Len(response.wire)
        BY <1>0, <2>0, <4>1
      <4>3. Cut'
        BY <1>r, <2>0, <2>2, <4>2 DEF Cut, Failed
      <4> QED  BY <2>2, <4>3 DEF Progress
    <3>3. Judged'
      BY <2>0, <2>2 DEF Judged
    <3> QED  BY <3>1, <3>2, <3>3
  <2> QED  BY <1>6, <2>1, <2>2 DEF RecvBody
<1>7. CASE RecvSize \/ RecvChunk \/ RecvCrlf
  BY <1>7, <1>s DEF RecvSize, RecvChunk, RecvCrlf, Progress
<1>8. CASE Finish
  <2>1. InOrder'
    BY <1>8, <1>r, <1>s DEF Finish, InOrder, readVars, serverVars
  <2>2. Progress'
    BY <1>8, <1>r, <1>s DEF Finish, Progress, Cut, readVars, serverVars
  <2>3. Judged'
    BY <1>8, <1>r, <1>s DEF Finish, Judged
  <2> QED  BY <2>1, <2>2, <2>3
<1>9. CASE WorkerWork
  <2>1. InOrder'
    BY <1>9, <1>r, <1>s DEF WorkerWork, InOrder, readVars, serverVars
  <2>2. Progress'
    BY <1>9, <1>r, <1>s DEF WorkerWork, Progress, Cut, readVars, serverVars
  <2>3. at = "work" /\ at' = "done" /\ header' = header /\ early' = early
        /\ ret' = ret /\ total' = total
    BY <1>9 DEF WorkerWork, readVars
  <2>4. outcome' = "processed" => ret' = 0 /\ total' > 0
    BY <1>9, <2>3 DEF WorkerWork, HasBody
  <2>5. AnnouncedPage /\ ~early => outcome' = "processed" \/ Cut
    <3> SUFFICES ASSUME AnnouncedPage, ~early, ~Cut PROVE outcome' = "processed"
      OBVIOUS
    <3>1. ret = 0 /\ Len(header) = 5
      BY <1>s, <2>3 DEF Progress
    <3>2. Has(header, "line")
      BY <1>0, <1>s, <3>1, WholeHeader DEF InOrder
    <3>3. Len(response.content) > 0
      BY <1>0, Answers, EmptySeq DEF AnnouncedPage
    <3>4. HasBody /\ Status = 200
      BY <1>s, <2>3, <3>1, <3>2, <3>3 DEF Progress, HasBody, Status, AnnouncedPage
    <3> QED  BY <1>9, <3>1, <3>4 DEF WorkerWork
  <2>6. (AnnouncedPage /\ ~early)' = (AnnouncedPage /\ ~early) /\ Cut' = Cut
    BY <1>9, <1>r DEF WorkerWork, AnnouncedPage, Cut, readVars, serverVars
  <2> QED  BY <2>1, <2>2, <2>3, <2>4, <2>5, <2>6 DEF Judged
<1>10. CASE UNCHANGED vars
  <2>1. InOrder'
    BY <1>10, <1>s DEF vars, InOrder, readVars, serverVars
  <2>2. Progress'
    BY <1>10, <1>s DEF vars, Progress, Failed, Cut, readVars, serverVars
  <2>3. Judged'
    BY <1>10, <1>s DEF vars, Judged, AnnouncedPage, Cut, readVars, serverVars
  <2> QED  BY <2>1, <2>2, <2>3
<1> QED  BY <1>1, <1>2, <1>3, <1>4, <1>5, <1>6, <1>7, <1>8, <1>9, <1>10 DEF Next, Server, Client

LEMMA HttpInvariant == Spec => [](TypeOK /\ StreamInv)
<1>1. Init => TypeOK /\ StreamInv
  BY TypeInit, StreamInit
<1>2. TypeOK /\ StreamInv /\ [Next]_vars => (TypeOK /\ StreamInv)'
  BY TypeStep, StreamStep
<1> QED  BY <1>1, <1>2, PTL DEF Spec

LEMMA WholeByStream ==
    ASSUME TypeOK, StreamInv
    PROVE  AnnouncedIsWhole
<1> SUFFICES ASSUME outcome = "processed", ~early, response.coding = "length"
             PROVE  Page = response.content
  BY DEF AnnouncedIsWhole
<1>0. /\ body \in Seq(Units) /\ header \in Seq(Units)
      /\ response.content \in Seq(Units) /\ Len(response.content) \in Nat
  BY Answers DEF TypeOK
<1>1. /\ Len(header) = 5 /\ Len(body) = total /\ total = Len(response.content)
      /\ \A i \in 1..Len(body) : body[i] = response.wire[Len(header) + i]
  BY DEF StreamInv, InOrder, Progress, Judged
<1>2. \A i \in 1..Len(body) : body[i] = response.content[i]
  BY <1>1, OnTheWire
<1>3. body = response.content
  BY <1>0, <1>1, <1>2, SeqEqual
<1>4. [i \in 1..total - Len(body) |-> Unit("garbage", 0)] = <<>>
  <2>1. 1..total - Len(body) = {}
    BY <1>0, <1>1
  <2> QED  BY <2>1
<1> QED  BY <1>0, <1>3, <1>4, ConcatEmptySeq DEF Page

(* A page of announced length that is processed is the one the server sent, *)
(* whole and in its order, wherever the connection was lost.                *)
THEOREM HttpAnnouncedIsWhole == Spec => []AnnouncedIsWhole
<1>1. TypeOK /\ StreamInv => AnnouncedIsWhole
  BY WholeByStream
<1> QED  BY <1>1, HttpInvariant, PTL

(* A page of announced length is passed over only when a reset took a part  *)
(* of it, however it is cut up on its way and when the server closes.       *)
THEOREM HttpAnnouncedProcessed == Spec => []AnnouncedProcessed
<1>1. TypeOK /\ StreamInv => AnnouncedProcessed
  BY DEF StreamInv, Judged, Cut, AnnouncedProcessed, AnnouncedPage
<1> QED  BY <1>1, HttpInvariant, PTL
-------------------------------------------------------------------------------
(* Pages in chunks.                                                        *)

(* The socket's buffer as it grows, is cut, and is read.                    *)
LEMMA ReadServe ==
    ASSUME TypeOK, Serve, NEW c \in Nat, ReadTo(c)
    PROVE  ReadTo(c)' /\ ~Failed
<1>0. net \in Seq(Units) /\ Len(net) \in Nat /\ given \in Nat
  BY LenProperties, Answers DEF TypeOK
<1>1. response.wire[given + 1] \in Units
  BY <1>0, Answers, ElementOfSeq DEF Serve
<1>2. /\ Len(net') = Len(net) + 1
      /\ \A i \in 1..Len(net) : net'[i] = net[i]
      /\ net'[Len(net) + 1] = response.wire[given + 1]
  BY <1>0, <1>1, AppendProperties DEF Serve
<1>3. c + Len(net) = given /\ given' = given + 1 /\ response' = response /\ peer' = peer
  BY DEF Serve, ReadTo
<1>4. \A k \in 1..Len(net') : net'[k] = response'.wire[c + k]
  <2> SUFFICES ASSUME NEW k \in 1..Len(net') PROVE net'[k] = response.wire[c + k]
    BY <1>3
  <2>1. CASE k \in 1..Len(net)
    BY <1>2, <2>1 DEF ReadTo
  <2>2. CASE k = Len(net) + 1
    <3>1. c + k = given + 1
      BY <1>0, <1>3, <2>2
    <3> QED  BY <1>2, <2>2, <3>1
  <2> QED  BY <1>0, <1>2, <2>1, <2>2
<1>5. c + Len(net') = given'
  <2>1. Len(net') = Len(net) + 1
    BY <1>2
  <2> QED  BY <1>0, <1>3, <2>1
<1> QED  BY <1>4, <1>5 DEF ReadTo, Serve, Failed

LEMMA ReadCut ==
    ASSUME TypeOK, Reset \/ ServerClose, NEW c \in Nat, ReadTo(c)
    PROVE  ReadTo(c)'
<1>1. CASE ServerClose
  BY <1>1 DEF ServerClose, ReadTo
<1>2. CASE Reset
  <2>0. net \in Seq(Units) /\ Len(net) \in Nat
    BY LenProperties DEF TypeOK
  <2>1. PICK n \in 0..Len(net) : net' = SubSeq(net, 1, n)
    BY <1>2 DEF Reset
  <2>2. Len(net') = n /\ \A i \in 1..n : net'[i] = net[i]
    BY <2>0, <2>1, KeepSome
  <2>3. 1..n \subseteq 1..Len(net) /\ response' = response /\ peer' = "reset"
    BY <1>2, <2>0 DEF Reset
  <2> QED  BY <2>2, <2>3 DEF ReadTo
<1> QED  BY <1>1, <1>2

LEMMA ReadOne ==
    ASSUME TypeOK, net # <<>>, net' = Tail(net), response' = response, peer' = peer,
           given' = given, NEW c \in Nat, ReadTo(c)
    PROVE  /\ ReadTo(c + 1)' /\ Head(net) = response.wire[c + 1] /\ Head(net) = net[1]
           /\ ~Failed
<1>0. net \in Seq(Units) /\ Len(net) \in Nat /\ given \in Nat
  BY LenProperties, Answers DEF TypeOK
<1>1. /\ Len(net) > 0 /\ Head(net) = net[1] /\ Len(net') = Len(net) - 1
      /\ \A i \in 1..Len(net) - 1 : net'[i] = net[i + 1]
  <2>1. <<>> \in Seq(Units)
    BY EmptySeq
  <2> QED  BY <1>0, <2>1, MoveOne
<1>2. \A k \in 1..Len(net') : net'[k] = response'.wire[c + 1 + k]
  <2> SUFFICES ASSUME NEW k \in 1..Len(net') PROVE net'[k] = response.wire[c + 1 + k]
    OBVIOUS
  <2>1. k + 1 \in 1..Len(net) /\ k \in 1..Len(net) - 1 /\ c + (k + 1) = c + 1 + k
    BY <1>0, <1>1
  <2> QED  BY <1>1, <2>1 DEF ReadTo
<1>3. peer' # "reset" => c + 1 + Len(net') = given'
  <2>1. peer' # "reset" => c + Len(net) = given
    BY DEF ReadTo
  <2>2. Len(net') = Len(net) - 1
    BY <1>1
  <2> QED  BY <1>0, <2>1, <2>2
<1>4. Head(net) = response.wire[c + 1]
  BY <1>0, <1>1 DEF ReadTo
<1> QED  BY <1>1, <1>2, <1>3, <1>4 DEF ReadTo, Failed

LEMMA ReadMany ==
    ASSUME TypeOK, NEW n \in 1..Len(net), Take(n), response' = response, peer' = peer,
           given' = given, NEW c \in Nat, ReadTo(c)
    PROVE  /\ ReadTo(c + n)' /\ ~Failed
           /\ Len(body') = Len(body) + n /\ left' = left - n
           /\ \A i \in 1..Len(body) : body'[i] = body[i]
           /\ \A i \in Len(body) + 1..Len(body) + n :
                 body'[i] = response.wire[c + (i - Len(body))]
<1>0. /\ net \in Seq(Units) /\ body \in Seq(Units) /\ Len(net) \in Nat /\ Len(body) \in Nat
      /\ n \in Nat /\ 1 <= n /\ n <= Len(net) /\ given \in Nat
  BY LenProperties, Answers DEF TypeOK
<1>1. /\ Len(body') = Len(body) + n /\ Len(net') = Len(net) - n /\ left' = left - n
      /\ \A i \in 1..Len(body) : body'[i] = body[i]
      /\ \A i \in Len(body) + 1..Len(body) + n : body'[i] = net[i - Len(body)]
      /\ \A i \in 1..Len(net) - n : net'[i] = net[n + i]
  BY <1>0, MoveMany DEF Take
<1>2. \A k \in 1..Len(net') : net'[k] = response'.wire[c + n + k]
  <2> SUFFICES ASSUME NEW k \in 1..Len(net') PROVE net'[k] = response.wire[c + n + k]
    OBVIOUS
  <2>1. n + k \in 1..Len(net) /\ k \in 1..Len(net) - n /\ c + (n + k) = c + n + k
    BY <1>0, <1>1
  <2> QED  BY <1>1, <2>1 DEF ReadTo
<1>3. peer' # "reset" => c + n + Len(net') = given'
  <2>1. peer' # "reset" => c + Len(net) = given
    BY DEF ReadTo
  <2>2. Len(net') = Len(net) - n
    BY <1>1
  <2> QED  BY <1>0, <2>1, <2>2
<1>4. \A i \in Len(body) + 1..Len(body) + n : body'[i] = response.wire[c + (i - Len(body))]
  <2> SUFFICES ASSUME NEW i \in Len(body) + 1..Len(body) + n
               PROVE  net[i - Len(body)] = response.wire[c + (i - Len(body))]
    BY <1>1
  <2>1. i - Len(body) \in 1..Len(net)
    BY <1>0
  <2> QED  BY <2>1 DEF ReadTo
<1>5. net # <<>>
  BY <1>0, EmptySeq
<1> QED  BY <1>1, <1>2, <1>3, <1>4, <1>5 DEF ReadTo, Failed

(* What a step finds and does in each of the client's places.  The places   *)
(* on the wire are those InChunks names.                                   *)
LEMMA FrameTypes ==
    ASSUME TypeOK, NEW n \in 0..Len(response.content), NEW ends \in Ends(n)
    PROVE  /\ Len(response.content) \in Nat /\ n \in Nat
           /\ \A i \in 0..n : ends[i] \in Nat /\ i \in Nat
           /\ \A i \in 1..n : i - 1 \in 0..n /\ i \in 0..n
           /\ Len(net) \in Nat /\ Len(header) \in Nat /\ Len(body) \in Nat
           /\ left \in Nat /\ total \in Nat \cup {-1}
           /\ net \in Seq(Units) /\ header \in Seq(Units) /\ body \in Seq(Units)
<1>1. Len(response.content) \in Nat /\ n \in Nat
  BY Answers
<1>2. \A i \in 0..n : ends[i] \in Nat /\ i \in Nat
  BY <1>1 DEF Ends
<1> QED  BY <1>1, <1>2, LenProperties DEF TypeOK

LEMMA FrameServer ==
    ASSUME TypeOK, Server \/ UNCHANGED vars, Beginnings,
           NEW n \in 0..Len(response.content), NEW ends \in Ends(n), InFrames(n, ends)
    PROVE  Beginnings' /\ InFrames(n, ends)'
<1>t. /\ n \in Nat /\ \A i \in 0..n : ends[i] \in Nat /\ i \in Nat
      /\ \A i \in 1..n : i \in 0..n
      /\ Len(header) \in Nat /\ Len(body) \in Nat
  BY FrameTypes
<1>1. CASE UNCHANGED vars
  BY <1>1 DEF vars, serverVars, readVars, Beginnings, InFrames, ReadTo, Failed
<1>2. CASE Server
  <2>1. /\ UNCHANGED <<response, at, header, body, left, total, outcome>>
        /\ peer = "reset" => peer' = "reset"
    BY <1>2 DEF Server, Serve, ServerClose, Reset, readVars
  <2>2. \A c \in Nat : ReadTo(c) => ReadTo(c)'
    BY <1>2, ReadServe, ReadCut DEF Server
  <2>3. Failed => Failed'
    BY <1>2 DEF Server, Serve, ServerClose, Reset, Failed
  <2>4. Beginnings'
    BY <2>1 DEF Beginnings
  <2>5. at' = "size" => \/ Failed'
                        \/ \E i \in 0..n : /\ Len(body') = ends[i] /\ total' = ends[i]
                                           /\ ReadTo(5 + 2 * i + ends[i])'
    <3> SUFFICES ASSUME at' = "size", ~Failed'
                 PROVE  \E i \in 0..n : /\ Len(body') = ends[i] /\ total' = ends[i]
                                        /\ ReadTo(5 + 2 * i + ends[i])'
      OBVIOUS
    <3>1. PICK i \in 0..n : Len(body) = ends[i] /\ total = ends[i] /\ ReadTo(5 + 2 * i + ends[i])
      BY <2>1, <2>3 DEF InFrames
    <3>2. 5 + 2 * i + ends[i] \in Nat
      BY <1>t
    <3> QED  BY <2>1, <2>2, <3>1, <3>2
  <2>6. at' = "chunk" => \/ Failed'
                         \/ \E i \in 1..n :
                              /\ ends[i - 1] <= Len(body') /\ left' > 0
                              /\ left' + Len(body') = ends[i] /\ total' = ends[i]
                              /\ ReadTo(4 + 2 * i + Len(body))'
    <3> SUFFICES ASSUME at' = "chunk", ~Failed'
                 PROVE  \E i \in 1..n :
                              /\ ends[i - 1] <= Len(body') /\ left' > 0
                              /\ left' + Len(body') = ends[i] /\ total' = ends[i]
                              /\ ReadTo(4 + 2 * i + Len(body))'
      OBVIOUS
    <3>1. PICK i \in 1..n : /\ ends[i - 1] <= Len(body) /\ left > 0
                            /\ left + Len(body) = ends[i] /\ total = ends[i]
                            /\ ReadTo(4 + 2 * i + Len(body))
      BY <2>1, <2>3 DEF InFrames
    <3>2. PICK c \in Nat : c = 4 + 2 * i + Len(body)
      BY <1>t
    <3>3. c = 4 + 2 * i + Len(body')
      BY <2>1, <3>2
    <3>4. ReadTo(c)'
      BY <2>2, <3>1, <3>2
    <3>5. ReadTo(4 + 2 * i + Len(body))'
      BY <3>3, <3>4 DEF ReadTo
    <3> QED  BY <2>1, <3>1, <3>5
  <2>7. at' = "crlf" => \/ Failed'
                        \/ \E i \in 1..n : /\ Len(body') = ends[i] /\ total' = ends[i]
                                           /\ ReadTo(4 + 2 * i + ends[i])'
    <3> SUFFICES ASSUME at' = "crlf", ~Failed'
                 PROVE  \E i \in 1..n : /\ Len(body') = ends[i] /\ total' = ends[i]
                                        /\ ReadTo(4 + 2 * i + ends[i])'
      OBVIOUS
    <3>1. PICK i \in 1..n : Len(body) = ends[i] /\ total = ends[i] /\ ReadTo(4 + 2 * i + ends[i])
      BY <2>1, <2>3 DEF InFrames
    <3>2. 4 + 2 * i + ends[i] \in Nat
      BY <1>t
    <3> QED  BY <2>1, <2>2, <3>1, <3>2
  <2>8. at' \in {"connect", "send", "header"} =>
           /\ Len(header') < 5 /\ body' = <<>> /\ total' = 0 /\ ReadTo(Len(header))'
    <3> SUFFICES ASSUME at' \in {"connect", "send", "header"}
                 PROVE  /\ Len(header') < 5 /\ body' = <<>> /\ total' = 0
                        /\ ReadTo(Len(header))'
      OBVIOUS
    <3>1. Len(header) < 5 /\ body = <<>> /\ total = 0 /\ ReadTo(Len(header))
      BY <2>1 DEF InFrames
    <3>2. PICK c \in Nat : c = Len(header)
      BY <1>t
    <3>3. ReadTo(c)' /\ c = Len(header')
      BY <2>1, <2>2, <3>1, <3>2
    <3>4. ReadTo(Len(header))'
      BY <3>3 DEF ReadTo
    <3> QED  BY <2>1, <3>1, <3>4
  <2>9. /\ at' # "length" /\ (at' # "done" => outcome' = "none")
        /\ at' \in {"close", "work"} \/ outcome' = "processed" =>
              peer' = "reset" \/ (Len(body') = total' /\ total' = Len(response'.content))
    BY <2>1 DEF InFrames
  <2> QED  BY <2>4, <2>5, <2>6, <2>7, <2>8, <2>9 DEF InFrames
<1> QED  BY <1>1, <1>2

LEMMA FrameHeader ==
    ASSUME TypeOK, TypeOK', RecvHeader, response.coding = "chunked", ~early', Beginnings,
           NEW n \in 0..Len(response.content), NEW ends \in Ends(n),
           InChunks(response, n, ends), InFrames(n, ends)
    PROVE  Beginnings' /\ InFrames(n, ends)'
<1>t. /\ n \in Nat /\ \A i \in 0..n : ends[i] \in Nat
      /\ Len(net) \in Nat /\ Len(header) \in Nat
      /\ net \in Seq(Units) /\ header \in Seq(Units)
  BY FrameTypes
<1>0. /\ body = <<>> /\ Len(body) = 0 /\ total = 0 /\ Len(header) < 5
      /\ body' = body /\ peer' = peer /\ given' = given /\ response' = response
      /\ outcome' = outcome /\ outcome = "none" /\ ReadTo(Len(header))
  BY EmptySeq DEF RecvHeader, InFrames, serverVars
<1>1. CASE net # <<>> /\ net' = Tail(net) /\ header' = Append(header, Head(net))
  <2>1. /\ header' \in Seq(Units) /\ Len(header') = Len(header) + 1
        /\ \A i \in 1..Len(header) : header'[i] = header[i]
        /\ header'[Len(header) + 1] = net[1]
    BY <1>t, <1>1, MoveOne
  <2>2. /\ ReadTo(Len(header))' /\ Head(net) = response.wire[Len(header) + 1]
        /\ Head(net) = net[1] /\ ~Failed
    <3>1. PICK c \in Nat : c = Len(header)
      BY <1>t
    <3>2. ReadTo(c + 1)' /\ Head(net) = response.wire[c + 1] /\ Head(net) = net[1] /\ ~Failed
      BY <1>0, <1>1, <3>1, ReadOne
    <3>3. c + 1 = Len(header')
      BY <2>1, <3>1
    <3> QED  BY <3>1, <3>2, <3>3 DEF ReadTo
  <2>3. Len(header) + 1 \in 1..5 /\ Len(header') \in 1..5
    BY <1>t, <1>0, <2>1
  <2>4. Head(net) = Header[Len(header) + 1]
    BY <2>2, <2>3 DEF InChunks
  <2>5. Beginnings'
    <3>1. \A i \in 1..Len(header') : header'[i] = Header[i]
      BY <1>t, <2>1, <2>2, <2>4 DEF Beginnings
    <3> QED  BY <1>0, <2>3, <3>1 DEF Beginnings
  <2>6. CASE Head(net).is # "blank" /\ UNCHANGED <<at, left, total, early>>
    <3>1. Len(header') < 5
      <4>1. Len(header) + 1 # 5
        BY <2>4, <2>6, HeaderKinds
      <4> QED  BY <2>1, <2>3, <4>1
    <3>2. at' = "header"
      BY <2>6 DEF RecvHeader
    <3> QED  BY <1>0, <2>2, <2>5, <2>6, <3>1, <3>2 DEF InFrames
  <2>7. CASE Head(net).is = "blank" /\ PrasePackage(header') /\ UNCHANGED early
    <3>1. Len(header) + 1 = 5
      BY <2>3, <2>4, <2>7, HeaderKinds
    <3>2. Len(header') = 5 /\ Has(header', "field")
      BY <2>1, <2>5, <3>1, WholeHeader DEF Beginnings
    <3>3. at' = "size" /\ UNCHANGED <<left, total>>
      BY <2>7, <3>2 DEF PrasePackage
    <3>4. /\ 0 \in 0..n /\ Len(body') = ends[0] /\ total' = ends[0]
          /\ ReadTo(5 + 2 * 0 + ends[0])'
      <4>1. ends[0] = 0 /\ 5 + 2 * 0 + ends[0] = Len(header')
        BY <3>2 DEF InChunks
      <4>2. ReadTo(5 + 2 * 0 + ends[0])'
        BY <2>2, <4>1 DEF ReadTo
      <4> QED  BY <1>t, <1>0, <3>3, <4>1, <4>2
    <3> QED  BY <1>0, <2>5, <3>3, <3>4 DEF InFrames
  <2> QED  BY <1>1, <2>2, <2>6, <2>7 DEF RecvHeader
<1>2. CASE Failed /\ PrasePackage(header) /\ UNCHANGED <<net, header, early>>
  <2>1. Failed' /\ peer' = "reset"
    BY <1>0, <1>2 DEF Failed
  <2>2. Beginnings'
    BY <1>0, <1>2 DEF Beginnings
  <2>3. at' \in {"size", "close"}
    BY <1>2 DEF PrasePackage
  <2> QED  BY <1>0, <2>1, <2>2, <2>3 DEF InFrames
<1> QED  BY <1>1, <1>2 DEF RecvHeader

LEMMA FrameSize ==
    ASSUME TypeOK, TypeOK', RecvSize, Beginnings,
           NEW n \in 0..Len(response.content), NEW ends \in Ends(n),
           InChunks(response, n, ends), InFrames(n, ends)
    PROVE  Beginnings' /\ InFrames(n, ends)'
<1>t. /\ Len(response.content) \in Nat /\ n \in Nat
      /\ \A i \in 0..n : ends[i] \in Nat /\ i \in Nat
      /\ \A i \in 1..n : i - 1 \in 0..n /\ i \in 0..n
      /\ Len(body) \in Nat /\ left \in Nat
  BY FrameTypes
<1>0. /\ at = "size" /\ body' = body /\ header' = header /\ peer' = peer /\ given' = given
      /\ response' = response /\ outcome' = outcome /\ outcome = "none"
  BY DEF RecvSize, InFrames, serverVars
<1>b. Beginnings'
  BY <1>0 DEF Beginnings
<1>1. ASSUME net # <<>>, net' = Tail(net), NEW k \in SizesOf(Head(net)), ChunkSize(k)
      PROVE  InFrames(n, ends)'
  <2>1. ~Failed
    BY <1>1 DEF Failed
  <2>2. PICK i \in 0..n :
           Len(body) = ends[i] /\ total = ends[i] /\ ReadTo(5 + 2 * i + ends[i])
    BY <1>0, <2>1 DEF InFrames
  <2>3. PICK c \in Nat : c = 5 + 2 * i + ends[i]
    BY <1>t
  <2>4. ReadTo(c + 1)' /\ Head(net) = response.wire[c + 1]
    BY <1>0, <1>1, <2>2, <2>3, ReadOne
  <2>5. CASE i = n
    <3>1. Head(net) = Unit("size", 0)
      <4>1. c + 1 = 6 + 2 * n + ends[n]
        BY <1>t, <2>3, <2>5
      <4> QED  BY <2>4, <4>1 DEF InChunks
    <3>2. k = 0
      BY <1>1, <3>1 DEF SizesOf, Unit
    <3>3. at' = "close" /\ UNCHANGED <<left, total>>
      BY <1>1, <3>2 DEF ChunkSize
    <3>4. Len(body') = total' /\ total' = Len(response'.content)
      BY <1>0, <2>2, <2>5, <3>3 DEF InChunks
    <3> QED  BY <1>0, <3>3, <3>4 DEF InFrames
  <2>6. CASE i # n
    <3>1. i + 1 \in 1..n /\ (i + 1) - 1 = i /\ ends[i + 1] \in Nat /\ ends[i] \in Nat
      BY <1>t, <2>6
    <3>2. /\ ends[i] < ends[i + 1]
          /\ response.wire[4 + 2 * (i + 1) + ends[i]] = Unit("size", ends[i + 1] - ends[i])
      <4> HIDE DEF Unit
      <4>1. /\ ends[(i + 1) - 1] < ends[i + 1]
            /\ response.wire[4 + 2 * (i + 1) + ends[(i + 1) - 1]]
                  = Unit("size", ends[i + 1] - ends[(i + 1) - 1])
        BY <3>1 DEF InChunks
      <4> QED  BY <3>1, <4>1
    <3>3. Head(net) = Unit("size", ends[i + 1] - ends[i])
      <4>1. c + 1 = 4 + 2 * (i + 1) + ends[i]
        BY <1>t, <2>3
      <4> QED  BY <2>4, <3>2, <4>1
    <3>4. k = ends[i + 1] - ends[i] /\ k > 0
      BY <1>1, <3>1, <3>2, <3>3 DEF SizesOf, Unit
    <3>5. left' = k /\ total' = total + k /\ at' = "chunk"
      BY <1>1, <3>1, <3>4 DEF ChunkSize
    <3>6. /\ ends[(i + 1) - 1] <= Len(body') /\ left' > 0
          /\ left' + Len(body') = ends[i + 1] /\ total' = ends[i + 1]
      BY <1>0, <2>2, <3>1, <3>4, <3>5
    <3>7. ReadTo(4 + 2 * (i + 1) + Len(body))'
      <4>1. c + 1 = 4 + 2 * (i + 1) + Len(body')
        BY <1>t, <1>0, <2>2, <2>3
      <4> QED  BY <2>4, <4>1 DEF ReadTo
    <3> QED  BY <1>0, <3>1, <3>5, <3>6, <3>7 DEF InFrames
  <2> QED  BY <2>5, <2>6
<1>2. ASSUME Failed, UNCHANGED net, NEW k \in CutSizes, ChunkSize(k)
      PROVE  InFrames(n, ends)'
  <2>1. Failed' /\ peer' = "reset"
    BY <1>0, <1>2 DEF Failed
  <2>2. at' \in {"chunk", "close"}
    BY <1>2 DEF ChunkSize
  <2> QED  BY <1>0, <2>1, <2>2 DEF InFrames
<1> QED  BY <1>b, <1>1, <1>2 DEF RecvSize

LEMMA FrameChunk ==
    ASSUME TypeOK, TypeOK', RecvChunk, Beginnings,
           NEW n \in 0..Len(response.content), NEW ends \in Ends(n),
           InChunks(response, n, ends), InFrames(n, ends)
    PROVE  Beginnings' /\ InFrames(n, ends)'
<1>t. /\ Len(response.content) \in Nat /\ n \in Nat
      /\ \A i \in 0..n : ends[i] \in Nat /\ i \in Nat
      /\ \A i \in 1..n : i - 1 \in 0..n /\ i \in 0..n
      /\ Len(net) \in Nat /\ Len(body) \in Nat /\ left \in Nat
  BY FrameTypes
<1>0. /\ at = "chunk" /\ header' = header /\ peer' = peer /\ given' = given
      /\ response' = response /\ total' = total /\ outcome' = outcome /\ outcome = "none"
  BY DEF RecvChunk, InFrames, serverVars
<1>1. ASSUME NEW k \in 1..Len(net), k <= left, Take(k),
             at' = (IF k = left THEN "crlf" ELSE "chunk")
      PROVE  Beginnings' /\ InFrames(n, ends)'
  <2>0. k \in Nat /\ 1 <= k /\ net # <<>> /\ ~Failed
    BY <1>t, <1>1, EmptySeq DEF Failed
  <2>1. PICK i \in 1..n : /\ ends[i - 1] <= Len(body) /\ left > 0
                          /\ left + Len(body) = ends[i] /\ total = ends[i]
                          /\ ReadTo(4 + 2 * i + Len(body))
    BY <1>0, <2>0 DEF InFrames
  <2>2. PICK c \in Nat : c = 4 + 2 * i + Len(body)
    BY <1>t
  <2>3. /\ ReadTo(c + k)' /\ Len(body') = Len(body) + k /\ left' = left - k
        /\ \A j \in 1..Len(body) : body'[j] = body[j]
        /\ \A j \in Len(body) + 1..Len(body) + k :
              body'[j] = response.wire[c + (j - Len(body))]
    BY <1>0, <1>1, <2>1, <2>2, ReadMany
  <2>i. i \in Nat /\ ends[i] \in Nat /\ ends[i - 1] \in Nat
    BY <1>t
  <2>4. ends[i] <= Len(response.content)
    BY <2>1, <1>t DEF Ends
  <2>5. Len(body') <= Len(response.content)
    <3>1. /\ Len(body') = Len(body) + k /\ left + Len(body) = ends[i] /\ k <= left
          /\ ends[i] <= Len(response.content)
      BY <1>1, <2>1, <2>3, <2>4
    <3>2. /\ Len(body) \in Nat /\ k \in Nat /\ left \in Nat /\ ends[i] \in Nat
          /\ Len(response.content) \in Nat
      BY <1>t, <2>0, <2>i
    <3> QED  BY <3>1, <3>2
  <2>6. \A j \in 1..Len(body') : body'[j] = response.content[j]
    <3> SUFFICES ASSUME NEW j \in 1..Len(body') PROVE body'[j] = response.content[j]
      OBVIOUS
    <3>1. CASE j \in 1..Len(body)
      BY <2>3, <3>1 DEF Beginnings
    <3>2. CASE j \in Len(body) + 1..Len(body) + k
      <4>1. c + (j - Len(body)) = 4 + 2 * i + j
        BY <1>t, <2>0, <2>2, <2>i, <3>2
      <4>2. j \in ends[i - 1] + 1..ends[i]
        BY <1>t, <1>1, <2>0, <2>1, <2>i, <3>2
      <4>3. response.wire[4 + 2 * i + j] = response.content[j]
        BY <4>2 DEF InChunks
      <4> QED  BY <2>3, <3>2, <4>1, <4>3
    <3> QED  BY <1>t, <2>0, <2>3, <3>1, <3>2
  <2>7. Beginnings'
    BY <1>0, <2>5, <2>6 DEF Beginnings
  <2>8. CASE k = left
    <3>1. at' = "crlf" /\ Len(body') = ends[i] /\ total' = ends[i]
      BY <1>t, <1>0, <1>1, <2>0, <2>1, <2>3, <2>8
    <3>2. ReadTo(4 + 2 * i + ends[i])'
      <4>1. c + k = 4 + 2 * i + ends[i]
        BY <1>t, <2>0, <2>1, <2>2, <2>i, <2>8
      <4> QED  BY <2>3, <4>1
    <3> QED  BY <1>0, <2>7, <3>1, <3>2 DEF InFrames
  <2>9. CASE k # left
    <3>1. /\ at' = "chunk" /\ left' > 0 /\ left' + Len(body') = ends[i]
          /\ total' = ends[i] /\ ends[i - 1] <= Len(body')
      <4>1. left - k > 0 /\ left - k + (Len(body) + k) = ends[i] /\ ends[i - 1] <= Len(body) + k
        BY <1>t, <1>1, <2>0, <2>1, <2>i, <2>9
      <4> QED  BY <1>0, <1>1, <2>1, <2>3, <2>9, <4>1
    <3>2. ReadTo(4 + 2 * i + Len(body))'
      <4>1. c + k = 4 + 2 * i + Len(body')
        BY <1>t, <2>0, <2>2, <2>3, <2>i
      <4> QED  BY <2>3, <4>1 DEF ReadTo
    <3> QED  BY <1>0, <2>7, <3>1, <3>2 DEF InFrames
  <2> QED  BY <2>8, <2>9
<1>2. CASE Failed /\ at' = "close" /\ UNCHANGED <<net, body, left>>
  <2>1. Beginnings'
    BY <1>0, <1>2 DEF Beginnings
  <2>2. peer' = "reset"
    BY <1>0, <1>2 DEF Failed
  <2> QED  BY <1>0, <1>2, <2>1, <2>2 DEF InFrames
<1> QED  BY <1>1, <1>2 DEF RecvChunk

LEMMA FrameCrlf ==
    ASSUME TypeOK, TypeOK', RecvCrlf, Beginnings,
           NEW n \in 0..Len(response.content), NEW ends \in Ends(n),
           InChunks(response, n, ends), InFrames(n, ends)
    PROVE  Beginnings' /\ InFrames(n, ends)'
<1>t. /\ n \in Nat /\ \A i \in 0..n : ends[i] \in Nat /\ i \in Nat
      /\ \A i \in 1..n : i \in 0..n
  BY FrameTypes
<1>0. /\ at = "crlf" /\ UNCHANGED <<header, body, total, left>> /\ peer' = peer
      /\ given' = given /\ response' = response /\ outcome' = outcome /\ outcome = "none"
  BY DEF RecvCrlf, InFrames, serverVars, readVars
<1>b. Beginnings'
  BY <1>0 DEF Beginnings
<1>1. CASE net # <<>> /\ net' = Tail(net) /\ at' = "size"
  <2>1. ~Failed
    BY <1>1 DEF Failed
  <2>2. PICK i \in 1..n : Len(body) = ends[i] /\ total = ends[i] /\ ReadTo(4 + 2 * i + ends[i])
    BY <1>0, <2>1 DEF InFrames
  <2>3. PICK c \in Nat : c = 4 + 2 * i + ends[i]
    BY <1>t
  <2>4. ReadTo(c + 1)'
    BY <1>0, <1>1, <2>2, <2>3, ReadOne
  <2>5. c + 1 = 5 + 2 * i + ends[i] /\ i \in 0..n
    BY <1>t, <2>3
  <2>6. /\ Len(body') = ends[i] /\ total' = ends[i] /\ ReadTo(5 + 2 * i + ends[i])'
    BY <1>0, <2>2, <2>4, <2>5
  <2> QED  BY <1>0, <1>1, <1>b, <2>5, <2>6 DEF InFrames
<1>2. CASE Failed /\ at' = "close" /\ UNCHANGED net
  <2>1. peer' = "reset"
    BY <1>0, <1>2 DEF Failed
  <2> QED  BY <1>0, <1>2, <1>b, <2>1 DEF InFrames
<1>3. CASE net # <<>> /\ net' = Tail(net) /\ Head(net).is \notin {"crlf", "blank"}
  <2>1. ~Failed
    BY <1>3 DEF Failed
  <2>2. PICK i \in 1..n : ReadTo(4 + 2 * i + ends[i])
    BY <1>0, <2>1 DEF InFrames
  <2>3. Len(net) \in Nat /\ Len(net) > 0 /\ Head(net) = net[1]
    BY <1>3, MoveOne, LenProperties DEF TypeOK
  <2>4. net[1] = response.wire[4 + 2 * i + ends[i] + 1]
    BY <2>2, <2>3 DEF ReadTo
  <2>5. 4 + 2 * i + ends[i] + 1 = 5 + 2 * i + ends[i]
    BY <1>t
  <2>6. response.wire[5 + 2 * i + ends[i]] = Unit("crlf", 0)
    BY DEF InChunks
  <2>7. Unit("crlf", 0).is = "crlf"
    BY DEF Unit
  <2> QED  BY <1>3, <2>3, <2>4, <2>5, <2>6, <2>7
<1> QED  BY <1>1, <1>2, <1>3 DEF RecvCrlf

(* The steps that read nothing.                                            *)
LEMMA FrameOther ==
    ASSUME TypeOK, TypeOK', Connect \/ SendPackage \/ RecvBody \/ Finish \/ WorkerWork,
           Beginnings,
           NEW n \in 0..Len(response.content), NEW ends \in Ends(n), InFrames(n, ends)
    PROVE  Beginnings' /\ InFrames(n, ends)'
<1>1. CASE Connect
  BY <1>1 DEF Connect, Beginnings, InFrames, ReadTo, Failed, serverVars, readVars
<1>2. CASE SendPackage
  BY <1>2 DEF SendPackage, Beginnings, InFrames, ReadTo, Failed, serverVars, readVars
<1>3. CASE RecvBody
  BY <1>3 DEF RecvBody, InFrames
<1>4. CASE Finish
  BY <1>4 DEF Finish, Beginnings, InFrames, serverVars, readVars
<1>5. CASE WorkerWork
  <2>1. /\ at = "work" /\ at' = "done"
        /\ UNCHANGED <<response, header, body, total, peer>>
    BY <1>5 DEF WorkerWork, serverVars, readVars
  <2> QED  BY <2>1 DEF Beginnings, InFrames
<1> QED  BY <1>1, <1>2, <1>3, <1>4, <1>5

LEMMA FrameStep ==
    ASSUME TypeOK, TypeOK', [Next]_vars, response.coding = "chunked", ~early, ~early',
           Beginnings,
           NEW n \in 0..Len(response.content), NEW ends \in Ends(n),
           InChunks(response, n, ends), InFrames(n, ends)
    PROVE  Beginnings' /\ InFrames(n, ends)'
<1>1. CASE Server \/ UNCHANGED vars
  BY <1>1, FrameServer
<1>2. CASE RecvHeader
  BY <1>2, FrameHeader
<1>3. CASE RecvSize
  BY <1>3, FrameSize
<1>4. CASE RecvChunk
  BY <1>4, FrameChunk
<1>5. CASE RecvCrlf
  BY <1>5, FrameCrlf
<1>6. CASE Connect \/ SendPackage \/ RecvBody \/ Finish \/ WorkerWork
  BY <1>6, FrameOther
<1> QED  BY <1>1, <1>2, <1>3, <1>4, <1>5, <1>6 DEF Next, Client

LEMMA ChunkInit == TypeOK /\ Init => ChunkInv
<1> SUFFICES ASSUME TypeOK, Init PROVE ChunkInv
  OBVIOUS
<1>1. /\ header = <<>> /\ body = <<>> /\ net = <<>> /\ at = "connect" /\ total = 0
      /\ given = 0 /\ outcome = "none"
  BY DEF Init
<1>2. Len(<<>>) = 0 /\ \A k \in 1..0 : FALSE
  BY EmptySeq
<1>3. Len(response.content) \in Nat
  BY Answers
<1>4. Beginnings
  BY <1>1, <1>2, <1>3 DEF Beginnings
<1>5. ReadTo(Len(header))
  BY <1>1, <1>2 DEF ReadTo
<1>6. \A n : \A ends : InFrames(n, ends)
  BY <1>1, <1>2, <1>5 DEF InFrames
<1> QED  BY <1>4, <1>6 DEF ChunkInv

LEMMA ChunkStep == TypeOK /\ TypeOK' /\ ChunkInv /\ [Next]_vars => ChunkInv'
<1> SUFFICES ASSUME TypeOK, TypeOK', ChunkInv, [Next]_vars,
                    response'.coding = "chunked", ~early'
             PROVE  /\ Beginnings'
                    /\ \A n \in 0..Len(response'.content) : \A ends \in Ends(n)' :
                          InChunks(response', n, ends) => InFrames(n, ends)'
  BY DEF ChunkInv
<1>1. response' = response /\ ~early
  <2>1. CASE Server \/ UNCHANGED vars
    BY <2>1 DEF Server, Serve, ServerClose, Reset, vars, readVars
  <2>2. CASE RecvHeader
    <3>1. response' = response /\ (early' = early \/ early' = TRUE)
      BY <2>2 DEF RecvHeader
    <3> QED  BY <3>1
  <2>3. CASE RecvSize \/ RecvChunk \/ RecvCrlf \/ RecvBody
    BY <2>3 DEF RecvSize, RecvChunk, RecvCrlf, RecvBody, readVars
  <2>4. CASE Connect \/ SendPackage \/ Finish \/ WorkerWork
    BY <2>4 DEF Connect, SendPackage, Finish, WorkerWork, readVars
  <2> QED  BY <2>1, <2>2, <2>3, <2>4 DEF Next, Client
<1>2. \A n \in 0..Len(response.content) : \A ends \in Ends(n) :
         InChunks(response, n, ends) => Beginnings' /\ InFrames(n, ends)'
  <2> SUFFICES ASSUME NEW n \in 0..Len(response.content), NEW ends \in Ends(n),
                      InChunks(response, n, ends)
               PROVE  Beginnings' /\ InFrames(n, ends)'
    OBVIOUS
  <2>1. Beginnings /\ InFrames(n, ends)
    BY <1>1 DEF ChunkInv
  <2> QED  BY <1>1, <2>1, FrameStep
<1>3. \E n \in 0..Len(response.content) : \E ends \in Ends(n) : InChunks(response, n, ends)
  BY <1>1, HttpAssumption DEF TypeOK, Ends
<1>4. \A n : Ends(n)' = Ends(n)
  BY <1>1 DEF Ends
<1> QED  BY <1>1, <1>2, <1>3, <1>4

LEMMA ContentByChunks ==
    ASSUME TypeOK, ChunkInv, outcome = "processed", ~early, response.coding = "chunked"
    PROVE  IsPrefix(body, response.content) /\ (Page = response.content \/ peer = "reset")
<1>0. /\ body \in Seq(Units) /\ response.content \in Seq(Units)
      /\ Len(body) \in Nat /\ Len(response.content) \in Nat
  BY LenProperties, Answers DEF TypeOK
<1>1. Beginnings
  BY DEF ChunkInv
<1>2. peer = "reset" \/ (Len(body) = total /\ total = Len(response.content))
  <2>1. \E n \in 0..Len(response.content) : \E ends \in Ends(n) : InChunks(response, n, ends)
    BY HttpAssumption DEF TypeOK, Ends
  <2> QED  BY <2>1 DEF ChunkInv, InFrames
<1>3. SubSeq(body, 1, Len(body)) = SubSeq(response.content, 1, Len(body))
  <2>1. /\ Len(SubSeq(body, 1, Len(body))) = Len(body)
        /\ SubSeq(body, 1, Len(body)) \in Seq(Units)
        /\ \A i \in 1..Len(body) : SubSeq(body, 1, Len(body))[i] = body[i]
    BY <1>0, KeepSome
  <2>2. /\ Len(SubSeq(response.content, 1, Len(body))) = Len(body)
        /\ SubSeq(response.content, 1, Len(body)) \in Seq(Units)
        /\ \A i \in 1..Len(body) :
              SubSeq(response.content, 1, Len(body))[i] = response.content[i]
    BY <1>0, <1>1, KeepSome DEF Beginnings
  <2> QED  BY <1>1, <2>1, <2>2, SeqEqual DEF Beginnings
<1>4. IsPrefix(body, response.content)
  BY <1>1, <1>3 DEF IsPrefix, Beginnings
<1>5. ASSUME Len(body) = total, total = Len(response.content)
      PROVE  Page = response.content
  <2>1. body = response.content
    BY <1>0, <1>1, <1>5, SeqEqual DEF Beginnings
  <2>2. [i \in 1..total - Len(body) |-> Unit("garbage", 0)] = <<>>
    BY <1>0, <1>5
  <2> QED  BY <1>0, <2>1, <2>2, ConcatEmptySeq DEF Page
<1> QED  BY <1>2, <1>4, <1>5

(* What was read of a page sent in chunks is the beginning of its content,  *)
(* with none of the framing, and all of it if no reset cut the answer,      *)
(* whatever the content and however it is cut in chunks                     *)
(* (recv_body_bychunk 338-371).                                            *)
THEOREM HttpChunkedIsContent == Spec => []ChunkedIsContent
<1>1. TypeOK /\ ChunkInv => ChunkedIsContent
  BY ContentByChunks DEF ChunkedIsContent
<1>2. Spec => [](TypeOK /\ ChunkInv)
  BY TypeInit, TypeStep, ChunkInit, ChunkStep, PTL DEF Spec
<1> QED  BY <1>1, <1>2, PTL
-------------------------------------------------------------------------------
(* All of it, for the modules that make more of an exchange.                *)
HttpInv == TypeOK /\ SocketInv /\ StreamInv /\ ChunkInv

LEMMA HttpInit == Init => HttpInv
BY TypeInit, SocketInit, StreamInit, ChunkInit DEF HttpInv

LEMMA HttpStep == HttpInv /\ [Next]_vars => HttpInv'
<1> SUFFICES ASSUME HttpInv, [Next]_vars PROVE HttpInv'
  OBVIOUS
<1>1. TypeOK'
  BY TypeStep DEF HttpInv
<1>2. SocketInv' /\ StreamInv' /\ ChunkInv'
  BY <1>1, SocketStep, StreamStep, ChunkStep DEF HttpInv
<1> QED  BY <1>1, <1>2 DEF HttpInv

LEMMA HttpShows ==
    HttpInv => SocketReleased /\ AnnouncedIsWhole /\ ChunkedIsContent /\ AnnouncedProcessed
<1> SUFFICES ASSUME HttpInv
             PROVE  SocketReleased /\ AnnouncedIsWhole /\ ChunkedIsContent /\ AnnouncedProcessed
  OBVIOUS
<1>1. TypeOK /\ SocketInv /\ StreamInv /\ ChunkInv
  BY DEF HttpInv
<1>2. SocketReleased
  BY <1>1 DEF SocketInv, SocketReleased
<1>3. AnnouncedIsWhole
  BY <1>1, WholeByStream
<1>4. ChunkedIsContent
  BY <1>1, ContentByChunks DEF ChunkedIsContent
<1>5. AnnouncedProcessed
  BY <1>1 DEF StreamInv, Judged, Cut, AnnouncedProcessed, AnnouncedPage
<1> QED  BY <1>2, <1>3, <1>4, <1>5
==============================================================================
