--------------------------- MODULE MCSpiderHttpClient ---------------------------
(* SpiderHttpClient for TLC: pages of both codings, of one and two chunks,  *)
(* an empty page, and a redirect with and without an address as its body.   *)
EXTENDS SpiderHttpClient

Chunk(chunks, i) == [j \in 1..chunks[i] |-> Unit("data", 10 * i + j)]

Content(chunks) == FlattenSeq([i \in 1..Len(chunks) |-> Chunk(chunks, i)])

Framed(chunks) ==
    FlattenSeq([i \in 1..Len(chunks) |->
        <<Unit("size", chunks[i])>> \o Chunk(chunks, i) \o <<Unit("crlf", 0)>>])
    \o <<Unit("size", 0), Unit("crlf", 0)>>

Wire(coding, chunks) ==
    CASE coding = "length"  -> Header \o Content(chunks)
      [] coding = "chunked" -> Header \o Framed(chunks)
      [] coding = "none"    -> SelectSeq(Header, LAMBDA u : u.is # "field")

Answer(code, coding, chunks, link) ==
    [code |-> code, coding |-> coding, link |-> link,
     content |-> Content(chunks), wire |-> Wire(coding, chunks)]

MCResponses ==
    {Answer(200, "length", <<3>>, FALSE), Answer(200, "length", <<>>, FALSE),
     Answer(200, "chunked", <<2, 1>>, FALSE), Answer(200, "chunked", <<1, 2>>, FALSE),
     Answer(200, "none", <<>>, FALSE),
     Answer(302, "length", <<2>>, TRUE), Answer(302, "chunked", <<1>>, FALSE),
     Answer(404, "length", <<1>>, FALSE)}
===============================================================================
