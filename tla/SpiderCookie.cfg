\* The crawler's exchanges with eight answers, and runs of the cookie login,
\* whose requests have six; the server may close or lose the connection at any
\* time, and recvbuffer may hold an earlier header's end.
SPECIFICATION FairLogin
CONSTANTS
    Callers = {"crawler", "login"}
    Responses <- MCAnswers
    Leftovers = {TRUE, FALSE}
    LoginCookie <- MCLoginCookie
    Meaning <- MCMeaning
    PageUrl <- MCPageUrl
    Html <- MCHtml
INVARIANTS TypeOK AnnouncedIsWhole ChunkedIsContent SocketReleased AnnouncedProcessed
INVARIANTS CookieHasReason LinksFound
PROPERTIES ThreadComesFree
CHECK_DEADLOCK FALSE
