------------------------------- MODULE SpiderText -------------------------------
(***************************************************************************)
(* The text routines of Spider (Spider/spider_utils.cpp, spider_url.cpp,    *)
(* and the text a Cookie is kept as, spider_cookie.cpp).  A text is a       *)
(* sequence of characters: numbers where their codes matter, else any       *)
(* values.                                                                 *)
(***************************************************************************)
EXTENDS Integers, Sequences, SequencesExt

(* Numerals and urls: a character is its code, a char is signed.            *)
Digits == 48..57
Upper == 65..90
Lower == 97..122
Percent == 37

CharOf(n) == IF n < 128 THEN n ELSE n - 256

DecToChar(n) ==
    CASE n \in 0..9   -> 48 + n
      [] n \in 10..15 -> 65 + n - 10
      [] OTHER        -> 0

CharToDec(c) ==
    CASE c \in 48..57  -> c - 48
      [] c \in 97..102 -> c - 97 + 10
      [] c \in 65..70  -> c - 65 + 10
      [] OTHER         -> -1

(* Leading zeros are passed over.  A character that is no digit ends the    *)
(* numeral, and has by then shifted it once more.                           *)
HexToDec(text) ==
    LET bad == {i \in 1..Len(text) : CharToDec(text[i]) = -1}
        dec[i \in 0..Len(text)] ==
            IF i = 0 THEN 0
            ELSE IF i \in bad THEN 16 * dec[i - 1]
            ELSE 16 * dec[i - 1] + CharToDec(text[i])
    IN  IF bad = {} THEN dec[Len(text)]
        ELSE dec[CHOOSE i \in bad : \A j \in bad : i <= j]

(* j>>4 and j%16 of the character's code as a number from 0 to 255.         *)
EncodeChar(c) ==
    IF c \in Digits \cup Upper \cup Lower \cup {46} THEN <<c>>
    ELSE LET j == IF c < 0 THEN c + 256 ELSE c
         IN  <<Percent, DecToChar(j \div 16), DecToChar(j % 16)>>

UrlEncode(text) == FlattenSeq([i \in 1..Len(text) |-> EncodeChar(text[i])])

(* Of a text that does not end inside of an escape.                         *)
UrlDecode(text) ==
    LET from[i \in 1..Len(text) + 1] ==
            IF i > Len(text) THEN <<>>
            ELSE IF text[i] # Percent THEN <<text[i]>> \o from[i + 1]
            ELSE <<CharOf(16 * CharToDec(text[i + 1]) + CharToDec(text[i + 2]))>>
                 \o from[i + 3]
    IN  from[1]
-------------------------------------------------------------------------------
(* Splitting.                                                              *)

Space == " "
Semicolon == ";"

(* Where part begins in text, from place i on, or 0.                        *)
Find(text, part, i) ==
    LET places == {j \in i..Len(text) - Len(part) + 1 :
                      SubSeq(text, j, j + Len(part) - 1) = part}
    IN  IF places = {} THEN 0 ELSE CHOOSE j \in places : \A k \in places : j <= k

TrimString(text, drop) ==
    LET kept == {i \in 1..Len(text) : text[i] \notin drop}
    IN  IF kept = {} THEN <<>>
        ELSE SubSeq(text, CHOOSE i \in kept : \A j \in kept : i <= j,
                          CHOOSE i \in kept : \A j \in kept : i >= j)

SplitString(text, splitter) ==
    LET drop == {splitter[i] : i \in 1..Len(splitter)}
        src == TrimString(text, drop)
        items[i \in 1..Len(src) + 1] ==
            IF i > Len(src) THEN <<>>
            ELSE IF src[i] \in drop THEN items[i + 1]
            ELSE LET pos == Find(src, splitter, i)
                 IN  IF pos = 0 THEN <<SubSeq(src, i, Len(src))>>
                     ELSE <<SubSeq(src, i, pos - 1)>> \o items[pos + Len(splitter)]
    IN  items[1]
-------------------------------------------------------------------------------
(* A package's header, as lines: build_package writes it, prase_package     *)
(* reads it.  A field is a name and a value.                                *)

CrLf == <<"\r", "\n">>

BuildPackage(line, fields) ==
    line \o CrLf
    \o FlattenSeq([i \in 1..Len(fields) |->
           fields[i].name \o <<":", Space>> \o fields[i].value \o CrLf])
    \o CrLf

(* A header of one line only has no first line.                             *)
PraseLine(text) ==
    LET lines == SplitString(text, CrLf)
    IN  IF Len(lines) > 1 THEN lines[1] ELSE <<>>

(* The values of a name that comes more than once are joined.  A line       *)
(* without a colon is its own name and value.                               *)
PraseFields(text) ==
    LET lines == SplitString(text, CrLf)
        colon(l) == Find(l, <<":">>, 1)
        name(l) == IF colon(l) = 0 THEN l ELSE SubSeq(l, 1, colon(l) - 1)
        value(l) == TrimString(SubSeq(l, colon(l) + 1, Len(l)), {Space})
        add(fields, l) ==
            IF name(l) \in DOMAIN fields
            THEN [fields EXCEPT ![name(l)] = @ \o <<Semicolon>> \o value(l)]
            ELSE [n \in DOMAIN fields \cup {name(l)} |->
                     IF n = name(l) THEN value(l) ELSE fields[n]]
    IN  FoldLeft(add, <<>>, SubSeq(lines, 2, Len(lines)))
-------------------------------------------------------------------------------
(* Cookies: functions from names to values, both texts.                     *)

NoCookie == <<>>

(* Of two values for a name the later one stays.                            *)
SetCookie(cookie, text) ==
    LET items == SplitString(text, <<Semicolon>>)
        equals(item) == Find(item, <<"=">>, 1)
        name(item) == SubSeq(item, 1, equals(item) - 1)
        value(item) == SubSeq(item, equals(item) + 1, Len(item))
        setting == {i \in 1..Len(items) : equals(items[i]) # 0}
        of(n) == {i \in setting : name(items[i]) = n}
    IN  [n \in DOMAIN cookie \cup {name(items[i]) : i \in setting} |->
            IF of(n) = {} THEN cookie[n]
            ELSE value(items[CHOOSE i \in of(n) : \A j \in of(n) : i >= j])]

(* The pairs in the map's order, which is left open here.                   *)
CookieText(cookie) ==
    LET names == SetToSeq(DOMAIN cookie)
        pair(i) == names[i] \o <<"=">> \o cookie[names[i]]
    IN  FlattenSeq([i \in 1..Len(names) |->
            IF i = 1 THEN pair(i) ELSE <<Semicolon, Space>> \o pair(i)])
===============================================================================
