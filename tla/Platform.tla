------------------------------ MODULE Platform ------------------------------
(***************************************************************************)
(* What the server knows of each platform: which cookies are its own and   *)
(* which of them mean that the user is logged in.                          *)
(*                                                                         *)
(* A domain is [labels, spelling]: labels is the host name from the right  *)
(* (<<"com", "naver">>), spelling whatever trim_start_matches('.') and     *)
(* to_ascii_lowercase drop, so two spellings of one host match alike but   *)
(* are different keys of the cookies table.  A cookie is                   *)
(* [name, domain, value, expires], with expires = 0 for None.              *)
(***************************************************************************)
LOCAL INSTANCE Naturals
LOCAL INSTANCE Sequences
LOCAL INSTANCE SequencesExt

PlatformName == {"instagram", "threads", "naver", "novelpia", "munpia"}

CookieDomains(p) ==
    CASE p \in {"instagram", "threads"} ->
            {<<"com", "instagram">>, <<"net", "threads">>, <<"com", "threads">>}
      [] p = "naver" -> {<<"com", "naver">>, <<"com", "naver", "nid">>}
      [] p \in {"novelpia", "munpia"} -> {<<"com", p>>}

SessionCookieName(p) ==
    CASE p \in {"instagram", "threads"} -> "sessionid"
      [] p = "naver" -> "NID_AUT"
      [] p = "novelpia" -> "AUTOLOGIN"
      [] p = "munpia" -> "TOKEN"

\* The listed domain itself or any host under it.
CookieMatchesDomain(p, domain) ==
    \E allow \in CookieDomains(p) : IsPrefix(allow, domain.labels)

FilterCookies(p, cookies) ==
    {c \in cookies : CookieMatchesDomain(p, c.domain)}

\* Every cookie active_cookie may return: the first by name, in an order of
\* the database's or the browser's choosing.
ActiveCookies(p, cookies, name, now) ==
    {c \in FilterCookies(p, cookies) :
        c.name = name /\ (c.expires = 0 \/ c.expires > now)}

\* session_cookie finds a cookie: whichever of several active_cookie returns
\* (sure), or for some choice of them.
HasSession(p, cookies, now, sure) ==
    LET valued(name, Good(_)) ==
            LET active == ActiveCookies(p, cookies, name, now)
                good == {c \in active : Good(c.value)}
            IN  good # {} /\ (sure => good = active)
        filled(value) == value # ""
    IN  IF p = "novelpia"
        THEN /\ valued("LOGINKEY", filled)
             /\ valued("USERKEY", filled)
             /\ \/ valued("AUTOLOGIN", filled)
                \/ valued("ISLOGIN", LAMBDA value : value = "1")
        ELSE valued(SessionCookieName(p), LAMBDA value : TRUE)

MayHaveSession(p, cookies, now) == HasSession(p, cookies, now, FALSE)
MustHaveSession(p, cookies, now) == HasSession(p, cookies, now, TRUE)
=============================================================================
