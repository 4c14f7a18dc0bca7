------------------------------- MODULE SpiderPage -------------------------------
(***************************************************************************)
(* What a web site makes of a page that was received: get_all_url           *)
(* (Spider/spider_utils.cpp) looks for the marks "<img " and "<a " with a   *)
(* search made after Knuth, Morris and Pratt, takes the attribute behind    *)
(* each mark, and completes its address with that of the page.             *)
(*                                                                         *)
(* A text is a sequence of characters, but for a few that are only ever     *)
(* compared as a whole and have no "<" in them, one token each: the         *)
(* openings src=" and href=", http:// and javascript:; in front of an       *)
(* address.                                                                *)
(***************************************************************************)
EXTENDS SpiderHttpClient, SpiderText

CONSTANTS
    PageUrl, \* the page's address
    Html(_)  \* the texts that may stand in memory where a page begins: a
             \* worker copies the bytes of the page and no 0 behind them, and
             \* a text goes on to the next 0

Scheme == "http://"
Quote == "quote"
Script == "javascript:;"
Tags == <<[mark |-> <<"<", "i", "m", "g", Space>>, attribute |-> "src"],
          [mark |-> <<"<", "a", Space>>, attribute |-> "href"]>>

ASSUME PageAssumption ==
    /\ PageUrl \in Seq(STRING)
    /\ \A r \in Responses : Html(r.content) \subseteq Seq(STRING)

(* next[i], from 0 on: how much of the pattern ends at its character i.     *)
GetNext(pattern) ==
    LET next[i \in 0..Len(pattern) - 1] ==
            IF i = 0 THEN 0
            ELSE IF pattern[next[i - 1] + 1] = pattern[i + 1] THEN next[i - 1] + 1
            ELSE 0
    IN  next

(* How much of the pattern, from behind its character j on, is at i.        *)
Matched(source, pattern, i, j) ==
    LET fits == {k \in 0..Len(pattern) - j :
                    \A n \in 1..k : /\ i + n - 1 <= Len(source)
                                    /\ source[i + n - 1] = pattern[j + n]}
    IN  CHOOSE k \in fits : \A n \in fits : n <= k

(* The place behind the first occurrence found from start on, or 0, by a    *)
(* search that knows its place and comp_position.  The character on which a *)
(* match fails is not looked at again.                                     *)
GetMatch(source, start, pattern) ==
    LET next == GetNext(pattern)
        length == Len(pattern)
        search[p \in (start..Len(source) + length + 1) \X (0..length)] ==
            IF p[1] > Len(source) THEN 0
            ELSE LET k == Matched(source, pattern, p[1], p[2])
                     j == p[2] + k
                 IN  IF j = length THEN p[1] + k
                     ELSE search[<<p[1] + k + 1, IF j > 1 THEN next[j - 1] ELSE p[2]>>]
    IN  search[<<start, 0>>]

Slashes(url) == {i \in 2..Len(url) : url[i] = "/"}

CurrentPos(url) == CHOOSE i \in Slashes(url) : \A j \in Slashes(url) : i >= j

(* Mutant: the root ends at the last slash. *)
RootPosLast(url) == CurrentPos(url)

RootPos(url) == CHOOSE i \in Slashes(url) : \A j \in Slashes(url) : i <= j

(* Of an address without a path, the current path is its first letter.      *)
GetRootCurrentUrl(url) ==
    IF Slashes(url) = {} THEN [root |-> <<>>, current |-> <<"h">>]
    ELSE [root |-> SubSeq(url, 1, RootPos(url) - 1),
          current |-> SubSeq(url, 1, CurrentPos(url))]

(* The full address of one that is written in a page; of a script, none.    *)
ChildUrl(paths, text) ==
    IF text = <<>> THEN paths.current
    ELSE CASE text[1] = Script -> <<>>
           [] text[1] = Scheme -> text
           [] text[1] = "/"    -> paths.root \o text
           [] OTHER            -> paths.current \o text

(* The address in the first such attribute from pos on, and where it ends.  *)
(* Without one the code runs past the end of the page; here it ends there.  *)
GetHrefImg(paths, html, pos, attribute) ==
    LET opening == Find(html, <<attribute>>, pos)
        closing == Find(html, <<Quote>>, opening + 1)
        end == IF closing = 0 THEN Len(html) + 1 ELSE closing
    IN  IF opening = 0 THEN [end |-> Len(html) + 1, child |-> <<>>]
        ELSE [end |-> end, child |-> ChildUrl(paths, SubSeq(html, opening + 1, end - 1))]

GetAllUrl(url, html) ==
    LET paths == GetRootCurrentUrl(url)
        collect(tag) ==
            LET from[i \in 1..Len(html) + 1] ==
                    LET pos == GetMatch(html, i, tag.mark)
                        found == GetHrefImg(paths, html, pos, tag.attribute)
                    IN  IF i > Len(html) \/ pos = 0 THEN <<>>
                        ELSE (IF found.child = <<>> THEN <<>> ELSE <<found.child>>)
                             \o from[found.end]
            IN  from[1]
    IN  collect(Tags[1]) \o collect(Tags[2])

(* prase_url; a port without a path behind it makes substr throw.           *)
PraseUrl(url) ==
    LET ends == {i \in 2..Len(url) : url[i] \in {":", "/"}}
        hostEnd == IF ends = {} THEN Len(url) + 1
                   ELSE CHOOSE i \in ends : \A j \in ends : i <= j
        withPort == ends # {} /\ url[hostEnd] = ":"
        path == IF withPort THEN Find(url, <<"/">>, hostEnd + 1) ELSE hostEnd
    IN  [host |-> SubSeq(url, 2, hostEnd - 1),
         port |-> IF withPort THEN SubSeq(url, hostEnd + 1, path - 1) ELSE <<"80">>,
         uri |-> SubSeq(url, path, Len(url))]
-------------------------------------------------------------------------------
(* The links of a page, said without a search.                             *)

Marks(html, tag) ==
    {i \in 1..Len(html) - Len(tag.mark) + 1 :
        \A n \in 1..Len(tag.mark) : html[i + n - 1] = tag.mark[n]}

AddressAt(html, tag, i) ==
    LET opening == Find(html, <<tag.attribute>>, i)
    IN  SubSeq(html, opening + 1, Find(html, <<Quote>>, opening) - 1)

(* No mark stands behind a piece of itself, as in "<i<img ": get_match      *)
(* fails on the second "<", does not look at it again, and misses the tag.  *)
Tidy(html, tag) ==
    \A i \in 1..Len(html), k \in 1..Len(tag.mark) - 1 :
        i + k \in Marks(html, tag) => \E n \in 1..k : html[i + n - 1] # tag.mark[n]

(* The attribute of the mark at i begins at k, its address ends at n, and   *)
(* no tag of the kind begins before.                                       *)
AttributeAt(html, tag, i, k, n) ==
    /\ html[k] = tag.attribute /\ html[n] = Quote /\ k + 1 < n
    /\ \A j \in i + 1..n - 1 : j \notin Marks(html, tag)
    /\ \A j \in k + 1..n - 1 : html[j] # Quote
    /\ \A j \in i + 1..k - 1 : html[j] # tag.attribute

Readable(html, tag) ==
    /\ Tidy(html, tag)
    /\ \A i \in Marks(html, tag) :
          \E k, n \in i + Len(tag.mark)..Len(html) : AttributeAt(html, tag, i, k, n)

Resolves(link, text) ==
    LET page == PraseUrl(PageUrl)
    IN  \/ text[1] = Scheme /\ link = text
        \/ /\ text[1] # Scheme
           /\ PraseUrl(link).host = page.host /\ PraseUrl(link).port = page.port
           /\ IF text[1] = "/" THEN PraseUrl(link).uri = text
              ELSE IsSuffix(text, link)

(* The marks whose address is no script: each gives a link, which found has *)
(* at the mark's rank among them, behind so many links of another tag.      *)
Kept(html, tag) == {i \in Marks(html, tag) : AddressAt(html, tag, i)[1] # Script}

Listed(found, before, html, tag) ==
    LET rank(i) == Cardinality({j \in Kept(html, tag) : j <= i})
    IN  \A i \in Kept(html, tag) :
           Resolves(found[before + rank(i)], AddressAt(html, tag, i))

Found(html) ==
    LET found == GetAllUrl(PageUrl, html)
        pictures == Cardinality(Kept(html, Tags[1]))
    IN  /\ Len(found) = pictures + Cardinality(Kept(html, Tags[2]))
        /\ Listed(found, 0, html, Tags[1]) /\ Listed(found, pictures, html, Tags[2])

(* Of the text it is given with a page, the web site finds every picture    *)
(* and then every link, in their order, each once, under the page's own     *)
(* host unless it names another (get_all_url 313-349 and what it calls),    *)
(* and none that is a script.  The text is the page and whatever lies       *)
(* behind it, whose links are found with the page's.  Nothing is said where *)
(* a tag is hidden behind a piece of itself or lacks its address, nor of a  *)
(* page whose own address has no path: its links would be completed with    *)
(* nothing of that but the letter h.                                       *)
LinksFound ==
    outcome = "processed" /\ Page = response.content /\ Slashes(PageUrl) # {} =>
        \A html \in Html(Page) :
            Readable(html, Tags[1]) /\ Readable(html, Tags[2]) => Found(html)
===============================================================================
