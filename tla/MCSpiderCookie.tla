----------------------------- MODULE MCSpiderCookie -----------------------------
(* SpiderCookie for TLC: a cookie of two names, and answers of weibo of one *)
(* unit, which says what they mean.                                        *)
EXTENDS SpiderCookie, SpiderPage, MCSpiderHttpClient, TLC

MCLoginCookie == <<"a">> :> <<"1">> @@ <<" ", "b">> :> <<"2", "=">>

Says == <<"good", "code", "refused", "junk">>

MCMeaning(page) ==
    IF page # <<>> /\ page[1].is = "data" /\ page[1].n \in 1..4
    THEN Says[page[1].n] ELSE "none"

Weibo(code, coding, n) ==
    [Answer(code, coding, <<>>, FALSE) EXCEPT
        !.content = <<Unit("data", n)>>,
        !.wire = IF coding = "length" THEN Header \o <<Unit("data", n)>>
                 ELSE Header \o <<Unit("size", 1), Unit("data", n), Unit("crlf", 0),
                                  Unit("size", 0), Unit("crlf", 0)>>]

MCWeibo ==
    {Weibo(200, "length", n) : n \in 1..4} \cup {Weibo(200, "chunked", 1)}
    \cup {Answer(302, "none", <<>>, FALSE)}

(* Web pages: up to two pieces of text, a unit of content each.            *)
Pieces == <<<<"<", "a", " ", "href", "/", "1", Quote>>,
            <<"<", "i", "m", "g", " ", "x", "src", "2", Quote, "x">>,
            <<"<", "a", " ", "href", Scheme, "3", "/", Quote>>,
            <<"<", "a", " ", "href", Script, Quote>>,
            <<"<", "x", "i", "m", "g", " ">>,
            <<"<", "<", "i">>>>

MCPageUrl == <<Scheme, "h", ":", "8", "/", "d", "/", "p">>

(* Behind the page: a 0 at once, or what is left of another one.            *)
Behind == {<<>>, <<"m", "g", " ">> \o Pieces[1]}

MCHtml(page) ==
    LET text == FlattenSeq([i \in 1..Len(page) |->
                    IF page[i].is = "data" /\ page[i].n \in 1..Len(Pieces)
                    THEN Pieces[page[i].n] ELSE <<"x">>])
    IN  {text \o rest : rest \in Behind}

MCPages ==
    {[code |-> 200, coding |-> "length", link |-> FALSE,
      content |-> content, wire |-> Header \o content] :
        content \in UNION {[1..n -> {Unit("data", k) : k \in 1..Len(Pieces)}] : n \in 1..2}}

MCAnswers == MCResponses \cup MCWeibo \cup MCPages

(* What the text routines do, against what they are for.                   *)
Spellings(n) ==
    LET digits == IF n < 16 THEN <<DecToChar(n)>>
                  ELSE <<DecToChar(n \div 16), DecToChar(n % 16)>>
        lower == [i \in 1..Len(digits) |->
                    IF digits[i] \in Upper THEN digits[i] + 32 ELSE digits[i]]
    IN  {digits, lower, <<48>> \o digits}

ASSUME HexToDecReadsNumerals ==
    \A n \in 0..255 : \A text \in Spellings(n) : HexToDec(text) = n

ASSUME UrlDecodeUndoesEncode ==
    \A c \in -128..127, d \in {-128, -1, 0, Percent, 46, 48, 127} :
        UrlDecode(UrlEncode(<<c, d>>)) = <<c, d>>
===============================================================================
