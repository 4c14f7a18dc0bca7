---------------------------- MODULE SpiderHttpClient ----------------------------
(***************************************************************************)
(* One exchange of Spider's HTTP client (Spider/spider_http_client.cpp) with *)
(* a server: the connection, the request, the answer read from the socket,  *)
(* and what becomes of it.  The caller is either the crawler, where         *)
(* send_request is followed by a pool worker's worker_work, or the cookie    *)
(* login, which calls surface_page.                                        *)
(*                                                                         *)
(* An answer is a sequence of units the client tells apart: pieces of the   *)
(* header, size lines and the CRLFs of chunks, and pieces of the content.   *)
(* The socket blocks.  When the server has closed, recv gives what is left  *)
(* and then 0, on which every loop of the client turns without a step       *)
(* forward: such a client has no step here.  When the connection was reset  *)
(* recv fails, for good, and bytes not yet read may be gone.                *)
(***************************************************************************)
EXTENDS Integers, Sequences, SequencesExt

CONSTANTS
    Callers,   \* who makes the exchange: "crawler" or "login"
    Responses, \* what servers answer: a status, the coding of the body, its
               \* content, whether that begins with http://, and what is sent
    Leftovers  \* whether recvbuffer, which nobody initialises, may hold the
               \* end of an earlier header

Kinds == {"first", "line", "field", "other", "blank", "data", "size", "crlf", "garbage"}
Units == [is : Kinds, n : Nat]
Unit(kind, n) == [is |-> kind, n |-> n]

(* "line" is the status line with a byte more: prase_package wants a second *)
(* field before it believes the first.  "field" is the coding of the body.  *)
Header == <<Unit("first", 0), Unit("line", 0), Unit("field", 0), Unit("other", 0),
            Unit("blank", 0)>>

(* An answer in n chunks, of which ends[i] says how much of the content is  *)
(* in the first i: a size before each, a CRLF behind, and a size of 0.      *)
InChunks(r, n, ends) ==
    /\ ends[0] = 0 /\ ends[n] = Len(r.content)
    /\ Len(r.wire) = 5 + 2 * n + Len(r.content) + 2
    /\ \A i \in 1..5 : r.wire[i] = Header[i]
    /\ \A i \in 1..n :
          /\ ends[i - 1] < ends[i]
          /\ r.wire[4 + 2 * i + ends[i - 1]] = Unit("size", ends[i] - ends[i - 1])
          /\ \A j \in ends[i - 1] + 1..ends[i] : r.wire[4 + 2 * i + j] = r.content[j]
          /\ r.wire[5 + 2 * i + ends[i]] = Unit("crlf", 0)
    /\ r.wire[6 + 2 * n + ends[n]] = Unit("size", 0)
    /\ r.wire[7 + 2 * n + ends[n]] = Unit("crlf", 0)

ASSUME HttpAssumption ==
    /\ Callers \subseteq {"crawler", "login"}
    /\ \A r \in Responses :
          /\ r.code \in Nat /\ r.coding \in {"length", "chunked", "none"}
          /\ r.link \in BOOLEAN
          /\ r.content \in Seq(Units) /\ r.wire \in Seq(Units)
          /\ r.coding = "length" => r.wire = Header \o r.content
          /\ r.coding = "chunked" =>
                \E n \in 0..Len(r.content) :
                   \E ends \in [0..n -> 0..Len(r.content)] : InChunks(r, n, ends)
    /\ Leftovers \subseteq BOOLEAN

VARIABLES
    caller, response,
    given,  \* how many units of the answer the server has sent
    peer,   \* the server's end: "open", "closed" or "reset"
    net,    \* units sent and not read
    at,     \* where the client is
    sock,   \* the client's end: "none", "open" or "closed"
    header, \* recvbuffer: the pieces of the header received
    body,   \* m_body: the pieces received
    left,   \* of the body, or of the chunk, still to be read
    total,  \* m_length
    ret,    \* what recv_package returns
    early,  \* history: the header was taken for complete before its end
    outcome \* what became of the answer

serverVars == <<given, peer>>
readVars == <<header, body, left, total, ret, early>>
vars == <<caller, response, serverVars, net, at, sock, readVars, outcome>>

Receiving == {"header", "length", "size", "chunk", "crlf"}
ClientPC == {"connect", "send"} \cup Receiving \cup {"close", "work", "done"}
Outcomes == {"none", "refused", "failed", "returned",
             "processed", "redirected", "again", "dropped"}

Init ==
    /\ caller \in Callers /\ response \in Responses
    /\ given = 0 /\ peer = "open" /\ net = <<>>
    /\ at = "connect" /\ sock = "none"
    /\ header = <<>> /\ body = <<>> /\ left = 0 /\ total = 0 /\ ret = 0
    /\ early = FALSE /\ outcome = "none"
-------------------------------------------------------------------------------
(* The server.  Asked by Connection: close, it closes when all is sent; but *)
(* it may close, or lose the connection, at any time.                       *)

Serve ==
    /\ sock = "open" /\ at # "send" /\ peer = "open"
    /\ given < Len(response.wire)
    /\ given' = given + 1
    /\ net' = Append(net, response.wire[given + 1])
    /\ UNCHANGED <<caller, response, peer, at, sock, readVars, outcome>>

ServerClose ==
    /\ sock = "open" /\ peer = "open"
    /\ peer' = "closed"
    /\ UNCHANGED <<caller, response, given, net, at, sock, readVars, outcome>>

Reset ==
    /\ sock = "open" /\ peer # "reset"
    /\ peer' = "reset"
    /\ \E n \in 0..Len(net) : net' = SubSeq(net, 1, n)
    /\ UNCHANGED <<caller, response, given, at, sock, readVars, outcome>>

Server == Serve \/ ServerClose \/ Reset
-------------------------------------------------------------------------------
(* connect_ip and connect_host: no address, no socket, or no connection, in *)
(* which case the socket is closed there.                                   *)
Connect ==
    /\ at = "connect"
    /\ \/ sock' = "open" /\ at' = "send" /\ UNCHANGED outcome
       \/ sock' \in {"none", "closed"} /\ at' = "done" /\ outcome' = "refused"
    /\ UNCHANGED <<caller, response, serverVars, net, readVars>>

(* send_package.  send_request gives its socket back also when it failed;   *)
(* surface_page returns, and leaves the socket open.                        *)
SendPackage ==
    /\ at = "send"
    /\ IF peer = "reset" /\ caller = "login"
       THEN at' = "done" /\ outcome' = "failed"
       ELSE at' = "header" /\ UNCHANGED outcome
    /\ UNCHANGED <<caller, response, serverVars, net, sock, readVars>>
-------------------------------------------------------------------------------
(* recv_package.                                                           *)

Failed == net = <<>> /\ peer = "reset"

Has(h, kind) == \E i \in 1..Len(h) : h[i].is = kind

(* prase_package, and what recv_package then does for the body.            *)
PrasePackage(h) ==
    LET known == Has(h, "field")
    IN  \/ /\ known /\ response.coding = "chunked"
           /\ at' = "size" /\ UNCHANGED <<left, total>>
        \/ /\ known /\ response.coding = "length" /\ response.content # <<>>
           /\ at' = "length"
           /\ left' = Len(response.content) /\ total' = Len(response.content)
        \/ /\ ~known \/ response.coding = "none"
                     \/ (response.coding = "length" /\ response.content = <<>>)
           /\ at' = "close" /\ UNCHANGED <<left, total>>

(* recv_header reads byte by byte until strstr finds the mark, which may be *)
(* one that an earlier header left in the buffer.  An error ends it as      *)
(* well, and the header is taken as it is.                                  *)
RecvHeader ==
    /\ at = "header"
    /\ \/ /\ net # <<>>
          /\ net' = Tail(net) /\ header' = Append(header, Head(net))
          /\ \/ /\ Head(net).is # "blank" /\ UNCHANGED <<at, left, total, early>>
             \/ /\ Head(net).is = "blank" /\ PrasePackage(header') /\ UNCHANGED early
             \/ /\ Head(net).is # "blank" /\ TRUE \in Leftovers
                /\ PrasePackage(header') /\ early' = TRUE
       \/ Failed /\ PrasePackage(header) /\ UNCHANGED <<net, header, early>>
    /\ UNCHANGED <<caller, response, serverVars, sock, body, ret, outcome>>

(* recv_body_bylength, for the body or a chunk of it: recv gives what there *)
(* is, up to what is wanted.                                                *)
Take(n) ==
    /\ body' = body \o SubSeq(net, 1, n)
    /\ net' = SubSeq(net, n + 1, Len(net))
    /\ left' = left - n

(* Mutant: the count received is not compared with the length. *)
RecvBodyUnchecked ==
    /\ at = "length"
    /\ \/ \E n \in 1..Len(net) :
            n <= left /\ Take(n) /\ at' = (IF n = left THEN "close" ELSE "length")
       \/ Failed /\ at' = "close" /\ UNCHANGED <<net, body, left>>
    /\ UNCHANGED <<caller, response, serverVars, sock, header, total, ret, early, outcome>>

(* Mutant: recv is called once, and what it gives is taken for all there is. *)
RecvBodyOnce ==
    /\ at = "length" /\ at' = "close"
    /\ \/ \E n \in 1..Len(net) :
            /\ n <= left /\ Take(n)
            /\ IF n = left THEN UNCHANGED <<total, ret>> ELSE total' = 0 /\ ret' = -1
       \/ Failed /\ ret' = -1 /\ total' = 0 /\ UNCHANGED <<net, body, left>>
    /\ UNCHANGED <<caller, response, serverVars, sock, header, early, outcome>>

(* Mutant: an error of recv does not end the loop. *)
RecvBodyStubborn ==
    /\ at = "length"
    /\ \E n \in 1..Len(net) :
          n <= left /\ Take(n) /\ at' = (IF n = left THEN "close" ELSE "length")
    /\ UNCHANGED <<caller, response, serverVars, sock, header, total, ret, early, outcome>>

(* A body of announced length that came short is an error.                 *)
RecvBody ==
    /\ at = "length"
    /\ \/ /\ \E n \in 1..Len(net) :
               n <= left /\ Take(n) /\ at' = (IF n = left THEN "close" ELSE "length")
          /\ UNCHANGED <<total, ret>>
       \/ /\ Failed
          /\ at' = "close" /\ ret' = -1 /\ total' = 0
          /\ UNCHANGED <<net, body, left>>
    /\ UNCHANGED <<caller, response, serverVars, sock, header, early, outcome>>
-------------------------------------------------------------------------------
(* recv_body_bychunk.                                                      *)

(* The numbers hex_to_dec may make of a line: of a size, the size; of a     *)
(* line of a header that was taken for complete too early, nothing, or a    *)
(* number beyond all that follows, and -1 stands for a line too long.       *)
SizesOf(u) ==
    CASE u.is = "size"  -> {u.n}
      [] u.is = "blank" -> {0}
      [] OTHER          -> {-1, 0, Len(response.wire)}

(* Of a line that an error cut off: less than two bytes, no digit left, or  *)
(* the first digits of the size.                                            *)
CutSizes == {-1, 0, 1}

ChunkSize(n) ==
    \/ n > 0 /\ left' = n /\ total' = total + n /\ at' = "chunk"
    \/ n = 0 /\ at' = "close" /\ UNCHANGED <<left, total>>
    \/ n = -1 /\ total' = -1 /\ at' = "close" /\ UNCHANGED left

RecvSize ==
    /\ at = "size"
    /\ \/ /\ net # <<>> /\ net' = Tail(net)
          /\ \E n \in SizesOf(Head(net)) : ChunkSize(n)
       \/ Failed /\ UNCHANGED net /\ \E n \in CutSizes : ChunkSize(n)
    /\ UNCHANGED <<caller, response, serverVars, sock, header, body, ret, early, outcome>>

(* Mutant: what recv gives is not bounded by what is wanted. *)
RecvChunkOverrun ==
    /\ at = "chunk"
    /\ \/ \E n \in 1..Len(net) :
            Take(n) /\ at' = (IF n >= left THEN "crlf" ELSE "chunk")
       \/ Failed /\ at' = "close" /\ UNCHANGED <<net, body, left>>
    /\ UNCHANGED <<caller, response, serverVars, sock, header, total, ret, early, outcome>>

(* A chunk that came short ends the loop, and the announced length stands.  *)
RecvChunk ==
    /\ at = "chunk"
    /\ \/ \E n \in 1..Len(net) :
            n <= left /\ Take(n) /\ at' = (IF n = left THEN "crlf" ELSE "chunk")
       \/ Failed /\ at' = "close" /\ UNCHANGED <<net, body, left>>
    /\ UNCHANGED <<caller, response, serverVars, sock, header, total, ret, early, outcome>>

(* Mutant: the CRLF behind a chunk is left in the socket. *)
RecvCrlfSkipped ==
    /\ at = "crlf" /\ at' = "chunk"
    /\ left' = 1
    /\ UNCHANGED <<caller, response, serverVars, net, sock, header, body, total, ret,
                   early, outcome>>

(* Anything but the two bytes of a CRLF ends the loop.                     *)
RecvCrlf ==
    /\ at = "crlf"
    /\ \/ /\ net # <<>> /\ net' = Tail(net)
          /\ at' = (IF Head(net).is \in {"crlf", "blank"} THEN "size" ELSE "close")
       \/ Failed /\ at' = "close" /\ UNCHANGED net
    /\ UNCHANGED <<caller, response, serverVars, sock, readVars, outcome>>
-------------------------------------------------------------------------------
(* The status get_status_code finds in m_line.                             *)
Status == IF Has(header, "line") THEN response.code ELSE -1

(* Mutant: the socket is closed only when the answer was received. *)
FinishUnclosed ==
    /\ at = "close"
    /\ IF ret = 0 THEN sock' = "closed" ELSE UNCHANGED sock
    /\ at' = (IF caller = "crawler" THEN "work" ELSE "done")
    /\ outcome' = (IF caller = "crawler" THEN "none" ELSE "returned")
    /\ UNCHANGED <<caller, response, serverVars, net, readVars>>

(* recv_response closes the socket whatever recv_package returned,          *)
(* surface_page only when it succeeded.                                     *)
Finish ==
    /\ at = "close"
    /\ \/ /\ caller = "crawler"
          /\ sock' = "closed" /\ at' = "work" /\ UNCHANGED outcome
       \/ /\ caller = "login" /\ ret = 0
          /\ sock' = "closed" /\ at' = "done" /\ outcome' = "returned"
       \/ /\ caller = "login" /\ ret # 0
          /\ at' = "done" /\ outcome' = "failed" /\ UNCHANGED sock
    /\ UNCHANGED <<caller, response, serverVars, net, readVars>>

(* The m_length bytes recv_response hands over; those that did not come are *)
(* what realloc left there.                                                 *)
Page == body \o [i \in 1..total - Len(body) |-> Unit("garbage", 0)]

(* url->response: made for a body only.                                    *)
HasBody == ret = 0 /\ total > 0

(* worker_work.                                                            *)
WorkerWork ==
    /\ at = "work" /\ at' = "done"
    /\ LET status == IF ret = 0 THEN Status ELSE -1
           redirect == status = 302 /\ HasBody
                       /\ response.link /\ Page[1] = response.content[1]
       IN  \/ status = 200 /\ HasBody /\ outcome' = "processed"
           \/ redirect /\ outcome' = "redirected"
           \/ /\ status # 200 /\ (status = -1 \/ ~HasBody)
              /\ outcome' = "again"
           \/ /\ status = 200 /\ ~HasBody
              /\ outcome' = "dropped"
           \/ /\ status \notin {200, -1} /\ HasBody /\ ~redirect
              /\ outcome' = "dropped"
    /\ UNCHANGED <<caller, response, serverVars, net, sock, readVars>>
-------------------------------------------------------------------------------
Client ==
    \/ Connect \/ SendPackage
    \/ RecvHeader \/ RecvBody \/ RecvSize \/ RecvChunk \/ RecvCrlf
    \/ Finish \/ WorkerWork

Next == Server \/ Client

Spec == Init /\ [][Next]_vars

(* The client's thread goes on; a server owes nothing.                     *)
FairSpec == Spec /\ WF_vars(Client)
-------------------------------------------------------------------------------
TypeOK ==
    /\ caller \in Callers /\ response \in Responses
    /\ given \in 0..Len(response.wire) /\ peer \in {"open", "closed", "reset"}
    /\ at \in ClientPC /\ sock \in {"none", "open", "closed"}
    /\ left \in Nat /\ total \in Nat \cup {-1} /\ ret \in {0, -1}
    /\ early \in BOOLEAN /\ outcome \in Outcomes
    /\ net \in Seq(Units) /\ header \in Seq(Units) /\ body \in Seq(Units)
    /\ Len(net) + Len(header) + Len(body) <= given

(* A page of announced length that a web site is given to process is what  *)
(* the server sent, all of it and in its order, wherever the connection was *)
(* lost (recv_package 285-296, recv_body_bylength 307-336, worker_work).    *)
(* Nothing is said of a header taken for complete too early.                *)
AnnouncedIsWhole ==
    outcome = "processed" /\ ~early /\ response.coding = "length"
        => Page = response.content

(* Of a page sent in chunks the same holds, and none of the framing gets in; *)
(* only, when a reset has cut the answer, its end may be missing or be      *)
(* anything (recv_body_bychunk 338-371: the length announced stands).       *)
ChunkedIsContent ==
    outcome = "processed" /\ ~early /\ response.coding = "chunked" =>
        /\ IsPrefix(body, response.content)
        /\ Page = response.content \/ peer = "reset"

(* An exchange that is over has closed its socket, for it is one of the few *)
(* the executor may have (recv_response 541-548); surface_page 433-446 does *)
(* so only if it returns a status.                                          *)
SocketReleased ==
    at = "done" /\ outcome # "failed" => sock # "open"

AnnouncedPage ==
    response.code = 200 /\ response.coding = "length" /\ response.content # <<>>

(* However the answer is cut up on its way, and when the server closes, a   *)
(* page the crawler asked for is given to its web site, and passed over     *)
(* only when the connection was refused, or a reset took a part of it       *)
(* (recv_header 300-303, the loop of recv_body_bylength 315-334,            *)
(* recv_response 541-562, worker_work 189-197).                             *)
(* Neither end that worker_work has for a page passed over brings it back:  *)
(* the address of one put back is refused by send_request 465-471.          *)
AnnouncedProcessed ==
    caller = "crawler" /\ at = "done" /\ AnnouncedPage /\ ~early =>
        \/ outcome \in {"processed", "refused"}
        \/ peer = "reset" /\ Len(header) + Len(body) < Len(response.wire)

Answered == given = Len(response.wire) \/ peer = "reset"

(* Once the whole answer was sent, or the connection reset, the client's    *)
(* thread comes free again (the loops of recv_body_bylength 315-334,        *)
(* recv_endwith_mark 383-410).  Not so when the server closes before the    *)
(* end of the answer: then recv returns 0 and the loops turn for ever.      *)
ThreadComesFree == (at \in Receiving /\ Answered) ~> (at = "done" \/ early)
===============================================================================
