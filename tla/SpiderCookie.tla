------------------------------ MODULE SpiderCookie ------------------------------
(***************************************************************************)
(* Spider's cookie login (Spider/spider_cookie.cpp) over the HTTP client:   *)
(* each run of the program loads the cookie of an earlier run from its      *)
(* record, or logs in to weibo with a chain of requests and records the     *)
(* cookie for the next run.  Every request is an exchange of                *)
(* SpiderHttpClient and may fail as an exchange does.                       *)
(*                                                                         *)
(* Of a run, what matters here ends when it begins to crawl.  The crawler's *)
(* own exchanges never touch the record and are kept apart: a behaviour     *)
(* whose caller is "crawler" is one of them.                                *)
(***************************************************************************)
EXTENDS SpiderHttpClient, SpiderText

CONSTANTS
    LoginCookie,  \* the cookie weibo gives who logs in
    Meaning(_)    \* what a page of weibo says: "good", "code", "refused",
                  \* "junk" (something stands where the client looks for
                  \* it, and cannot be read) or "none"

Newline == <<"\n">>
Site == <<"weibo">>

(* A name and a value are what stands before and behind the first "=" of a  *)
(* piece between two ";" of one line, and no two names are one but for the  *)
(* spaces around them.                                                     *)
ASSUME LoginAssumption ==
    /\ IsFiniteSet(DOMAIN LoginCookie) /\ DOMAIN LoginCookie # {}
    /\ \A n \in DOMAIN LoginCookie :
          /\ n \in Seq(STRING) /\ Range(n) \cap {Semicolon, "\n", "="} = {}
          /\ LoginCookie[n] \in Seq(STRING)
          /\ Range(LoginCookie[n]) \cap {Semicolon, "\n"} = {}
    /\ \A n, m \in DOMAIN LoginCookie :
          TrimString(n, {Space}) = TrimString(m, {Space}) => n = m

VARIABLES
    record, \* cookie.record: <<>> when there is no file, else <<its text>>
    doing,  \* where login() is
    cookie, \* m_cookie_database["weibo"]
    failed, \* this run tried to log in and did not succeed
    guessed \* history: which of "cookie" and "record" lack a part of weibo's
            \* cookie, for a login was counted whose answer nobody could read

loginVars == <<record, doing, cookie, failed, guessed>>
allVars == <<vars, loginVars>>

Requests == {"prelogin", "dologin", "ajaxlogin", "codes"}

LoginInit ==
    /\ Init
    /\ record = <<>> /\ failed = FALSE /\ guessed = {}
    /\ \/ caller = "login" /\ doing = "start" /\ cookie = NoCookie
       \/ caller = "crawler" /\ doing = "crawl" /\ cookie = LoginCookie
-------------------------------------------------------------------------------
(* The exchange of the request that is being made.                         *)
Exchange(step) ==
    /\ doing \in Requests \/ caller = "crawler"
    /\ step
    /\ UNCHANGED loginVars

NewExchange(responses) ==
    /\ caller' = caller /\ response' \in responses
    /\ given' = 0 /\ peer' = "open" /\ net' = <<>>
    /\ at' = "connect" /\ sock' = "none"
    /\ header' = <<>> /\ body' = <<>> /\ left' = 0 /\ total' = 0 /\ ret' = 0
    /\ early' = FALSE /\ outcome' = "none"

Request(name) == doing' = name /\ NewExchange(Responses)
Leave(where) == doing' = where /\ NewExchange({response})

(* An exception nobody catches; the program is started again.               *)
Terminate ==
    /\ Leave("start") /\ cookie' = NoCookie /\ failed' = FALSE
    /\ guessed' = guessed \ {"cookie"}

(* surface_page's result, and the body handed over with it.  A length of -1 *)
(* makes a string that throws.                                             *)
SurfacePage == IF outcome = "returned" THEN Status ELSE -1
Accepted == SurfacePage \in {200, 302}
Throws == Accepted /\ total = -1

Over(name) == doing = name /\ at = "done" /\ UNCHANGED record
-------------------------------------------------------------------------------
Lines == SplitString(record[1], Newline)

(* Mutant: any record that is there is taken. *)
GoodRecordAny == record # <<>>

(* A record has a line for each site and one for its cookie.                *)
GoodRecord == record # <<>> /\ Len(Lines) % 2 = 0

(* load_cookie and the first step of login.                                *)
LoadCookie ==
    /\ doing = "start"
    /\ UNCHANGED <<record, failed>>
    /\ \/ /\ GoodRecord /\ Leave("crawl")
          /\ cookie' = (IF Len(Lines) = 2 /\ Lines[1] = Site
                        THEN SetCookie(NoCookie, Lines[2]) ELSE NoCookie)
          /\ guessed' = (IF "record" \in guessed THEN guessed \cup {"cookie"} ELSE guessed)
       \/ ~GoodRecord /\ Request("prelogin") /\ UNCHANGED <<cookie, guessed>>

(* login_weibo gives the first request's failure back, and login then saves *)
(* nothing; of a later failure it says nothing.                             *)
PreloginStatus ==
    /\ Over("prelogin")
    /\ \/ Throws /\ Terminate
       \/ /\ Accepted /\ ~Throws /\ Meaning(Page) = "good"
          /\ Request("dologin") /\ UNCHANGED <<cookie, failed, guessed>>
       \/ /\ ~Accepted \/ (~Throws /\ Meaning(Page) # "good")
          /\ Leave("crawl") /\ failed' = TRUE /\ UNCHANGED <<cookie, guessed>>

(* Without location.replace the address is what stands before a later "'",  *)
(* which may be too short to be taken apart.                                *)
Dologin ==
    /\ Over("dologin")
    /\ \/ Throws /\ Terminate
       \/ /\ Accepted /\ ~Throws /\ Meaning(Page) \in {"good", "junk"}
          /\ Request("ajaxlogin") /\ UNCHANGED <<cookie, failed, guessed>>
       \/ Accepted /\ ~Throws /\ Meaning(Page) = "junk" /\ Terminate
       \/ /\ ~Accepted \/ (~Throws /\ Meaning(Page) \notin {"good", "junk"})
          /\ Leave("save") /\ failed' = TRUE /\ UNCHANGED <<cookie, guessed>>

(* What the answers so far may have set of the cookie.                      *)
Came == {[n \in names |-> LoginCookie[n]] : names \in SUBSET DOMAIN LoginCookie}

(* A redirect is followed, and an address that did not come is too short to *)
(* be taken apart.  An argument that cannot be read counts as a success,    *)
(* whatever cookie came.                                                   *)
AjaxLogin ==
    LET final == Accepted /\ SurfacePage # 302 /\ ~Throws
    IN  /\ Over("ajaxlogin")
        /\ \/ /\ SurfacePage = 302 /\ Has(header, "other")
              /\ Request("ajaxlogin") /\ UNCHANGED <<cookie, failed, guessed>>
           \/ SurfacePage = 302 /\ ~Has(header, "other") /\ Terminate
           \/ SurfacePage # 302 /\ Throws /\ Terminate
           \/ /\ final /\ Meaning(Page) = "good"
              /\ Leave("save") /\ cookie' = LoginCookie /\ UNCHANGED <<failed, guessed>>
           \/ /\ final /\ Meaning(Page) = "junk"
              /\ Leave("save") /\ cookie' \in Came /\ UNCHANGED failed
              /\ guessed' = (IF cookie' = LoginCookie THEN guessed
                             ELSE guessed \cup {"cookie"})
           \/ /\ final /\ Meaning(Page) = "code"
              /\ Request("codes") /\ UNCHANGED <<cookie, failed, guessed>>
           \/ /\ ~Accepted \/ (final /\ Meaning(Page) \in {"refused", "none"})
              /\ Leave("save") /\ failed' = TRUE /\ UNCHANGED <<cookie, guessed>>

(* The user types what the picture shows.                                  *)
Codes ==
    /\ Over("codes")
    /\ \/ Throws /\ Terminate
       \/ Accepted /\ ~Throws /\ Request("dologin") /\ UNCHANGED <<cookie, failed, guessed>>
       \/ ~Accepted /\ Leave("save") /\ failed' = TRUE /\ UNCHANGED <<cookie, guessed>>

(* Of a login that failed the database has no cookie.                      *)
Record ==
    IF failed THEN <<>> ELSE Site \o Newline \o CookieText(cookie) \o Newline

Recorded == IF "cookie" \in guessed THEN {"cookie", "record"} ELSE {}

(* The file may not open.  The program may end while it is written, which   *)
(* leaves a part of it.                                                    *)
SaveCookie ==
    /\ doing = "save"
    /\ \/ /\ Leave("crawl") /\ record' = <<Record>> /\ guessed' = Recorded
          /\ UNCHANGED <<cookie, failed>>
       \/ Leave("crawl") /\ UNCHANGED <<record, cookie, failed, guessed>>
       \/ /\ Leave("start") /\ cookie' = NoCookie /\ failed' = FALSE
          /\ \E n \in 0..Len(Record) : record' = <<SubSeq(Record, 1, n)>>
          /\ guessed' = Recorded \ {"cookie"}

(* A run ends, and the program is started again.                           *)
RunAgain ==
    /\ doing = "crawl" /\ caller = "login"
    /\ Terminate /\ UNCHANGED record

Login ==
    \/ LoadCookie \/ PreloginStatus \/ Dologin \/ AjaxLogin \/ Codes
    \/ SaveCookie \/ RunAgain

LoginNext == Exchange(Server) \/ Exchange(Client) \/ Login

LoginSpec == LoginInit /\ [][LoginNext]_allVars

FairLogin == LoginSpec /\ WF_allVars(Exchange(Client))
-------------------------------------------------------------------------------
Unspaced(c) ==
    {<<TrimString(n, {Space}), c[n]>> : n \in DOMAIN c}

(* A run crawls with the cookie weibo gave, were it not for one of these:   *)
(* its own login failed; an answer nobody could read was counted as a       *)
(* login, in this run or in the one that made the record; or no login was   *)
(* tried, for a record that is empty or ends inside the cookie was taken    *)
(* for good (login 99-121, load_cookie 164-206, login_weibo 495-566: a      *)
(* login that was refused records nothing, and no later run asks again).    *)
CookieHasReason ==
    doing = "crawl" /\ Unspaced(cookie) # Unspaced(LoginCookie) =>
        \/ failed \/ "cookie" \in guessed
        \/ record = <<<<>>>>
        \/ /\ Len(record[1]) > Len(Site \o Newline)
           /\ Len(record[1]) < Len(Site \o Newline \o CookieText(LoginCookie))
===============================================================================
