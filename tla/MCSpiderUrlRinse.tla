--------------------------- MODULE MCSpiderUrlRinse ---------------------------
(* SpiderUrlRinse for TLC.  The codes of URLs 1 and 2 share a byte, URL 3   *)
(* has the code of URL 2.  The host of URL 1 is answered at once, and has  *)
(* the same domain code as the other.                                      *)
EXTENDS SpiderUrlRinse

MCCode == <<0, 1, 1>>
MCDomain == <<"numeric", "host", "host">>
MCDomainCode == [d \in {"numeric", "host"} |-> 0]
===============================================================================
