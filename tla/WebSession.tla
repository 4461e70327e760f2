----------------------------- MODULE WebSession -----------------------------
(***************************************************************************)
(* A browser's session: the cookies it holds, the BFF's handlers that read *)
(* and write them (getSession, /api/tail, login and logout), and the       *)
(* control-plane they call, RefreshTokens.  Requests of several tabs       *)
(* overlap and their answers arrive in any order.  A handler that finds a  *)
(* valid access token touches neither cookies nor control-plane and is     *)
(* left out.                                                               *)
(***************************************************************************)
EXTENDS RefreshTokens

CONSTANT
  UpstreamFails  \* may the query-service refuse a tail?

ASSUME WebSessionAssumption == UpstreamFails \in BOOLEAN

VARIABLES
  access,     \* the lg_at cookie
  refresh,    \* the lg_rt cookie, 0 for none
  call,       \* the handler of a request
  reply,      \* the Set-Cookie headers of its answer
  missed,     \* history: a rotated pair did not reach the browser
  loggedOut,  \* history: families that were logged out
  suspended,  \* history: tenant or user were not active at some time
  gone        \* history: the user has logged out and not logged in since

cookieVars == <<access, refresh>>
webVars == <<cookieVars, call, reply, missed, loggedOut, suspended, gone>>
webAllVars == <<vars, webVars>>

\* The Set-Cookie headers of an answer, once there is one: a pair, deletions,
\* or none.
Pending == [kind |-> "pending", token |-> 0]
Keep == [kind |-> "keep", token |-> 0]
Clear == [kind |-> "clear", token |-> 0]
Write(t) == [kind |-> "write", token |-> t]

WebTypeOK ==
  /\ TypeOK
  /\ access \in {"none", "valid", "expired"} /\ refresh \in 0..Len(rows)
  /\ access = "none" <=> refresh = 0
  /\ call \in [Req -> {"none", "getSession", "tail", "login", "logout"}]
  /\ reply \in [Req -> {Pending, Keep, Clear} \cup {Write(t) : t \in Token}]
  /\ missed \in BOOLEAN /\ suspended \in BOOLEAN /\ gone \in BOOLEAN
  /\ loggedOut \subseteq Token

WebInit ==
  /\ Init
  /\ access = "none" /\ refresh = 0
  /\ call = [p \in Req |-> "none"] /\ reply = [p \in Req |-> Pending]
  /\ missed = FALSE /\ loggedOut = {} /\ suspended = FALSE /\ gone = FALSE

-----------------------------------------------------------------------------
Send(p, handler) ==
  /\ call[p] = "none" /\ call' = [call EXCEPT ![p] = handler]
  /\ UNCHANGED <<cookieVars, reply, missed, suspended, gone>>

\* No refresh cookie: getSession and logoutFn answer at once.
SendWithout(p) ==
  /\ refresh = 0 /\ call[p] = "none"
  /\ \E h \in {"getSession", "logout"} : call' = [call EXCEPT ![p] = h]
  /\ reply' = [reply EXCEPT ![p] = Clear]
  /\ UNCHANGED <<vars, cookieVars, missed, loggedOut, suspended, gone>>

getSession(p) ==
  /\ access # "valid" /\ refresh # 0
  /\ Send(p, "getSession") /\ Refresh(p, refresh)
  /\ UNCHANGED loggedOut

resolveTailAuth(p) ==
  /\ access # "valid" /\ refresh # 0
  /\ Send(p, "tail") /\ Refresh(p, refresh)
  /\ UNCHANGED loggedOut

loginFn(p) ==
  /\ Send(p, "login") /\ Login(p)
  /\ UNCHANGED loggedOut

logoutFn(p) ==
  /\ refresh # 0
  /\ Send(p, "logout") /\ Logout(p, refresh)
  /\ loggedOut' = loggedOut \cup {FamilyOf(refresh)}

-----------------------------------------------------------------------------
\* A session that the control-plane could not end is left to the browser.
LogoutCookiesOnSuccess(p) == IF pc[p] = "done" THEN Clear ELSE Keep

\* Whatever cpLogout did, the cookies are deleted.
LogoutCookies(p) == Clear

\* The cookies /api/tail sets once query-service has accepted the stream.
TailCookies(p) == Write(new[p])

\* The BFF answers when the control-plane has, or when the call to it broke
\* (pc failed).  tailProxy drops the pair when the upstream refuses.
BffAnswer(p) ==
  /\ reply[p] = Pending
  /\ LET set(r) == reply' = [reply EXCEPT ![p] = r]
     IN  \/ call[p] = "logout" /\ set(LogoutCookies(p)) /\ UNCHANGED missed
         \/ /\ call[p] \in {"getSession", "login"} /\ pc[p] = "ok"
            /\ set(Write(new[p])) /\ UNCHANGED missed
         \/ call[p] = "tail" /\ pc[p] = "ok" /\ set(TailCookies(p)) /\ UNCHANGED missed
         \/ /\ call[p] = "tail" /\ pc[p] = "ok" /\ UpstreamFails
            /\ set(Keep) /\ missed' = TRUE
         \/ /\ call[p] = "getSession" /\ pc[p] \in {"rejected", "failed"}
            /\ set(Clear) /\ UNCHANGED missed
         \/ /\ call[p] \in {"tail", "login"} /\ pc[p] \in {"rejected", "failed"}
            /\ set(Keep) /\ UNCHANGED missed
  /\ Answer(p)
  /\ UNCHANGED <<cookieVars, call, loggedOut, suspended, gone>>

\* The browser has the answer p was waiting for.
Received(p) ==
  /\ call[p] # "none" /\ reply[p] # Pending
  /\ call' = [call EXCEPT ![p] = "none"] /\ reply' = [reply EXCEPT ![p] = Pending]
  /\ UNCHANGED <<tokenVars, active, handlerVars, historyVars, loggedOut, suspended>>

\* writeSessionCookies replaces the access cookie only.
DeliverAccessOnly(p) ==
  /\ Received(p)
  /\ \/ reply[p] = Keep /\ UNCHANGED cookieVars
     \/ reply[p] = Clear /\ access' = "none" /\ refresh' = 0
     \/ /\ reply[p].kind = "write" /\ access' = "valid"
        /\ refresh' = IF refresh = 0 THEN reply[p].token ELSE refresh
  /\ gone' = (call[p] # "login" /\ (gone \/ call[p] = "logout"))
  /\ UNCHANGED <<changes, missed>>

\* It applies the Set-Cookie headers of writeSessionCookies and
\* clearSessionCookies.
Deliver(p) ==
  /\ Received(p)
  /\ \/ reply[p] = Keep /\ UNCHANGED cookieVars
     \/ reply[p] = Clear /\ access' = "none" /\ refresh' = 0
     \/ reply[p].kind = "write" /\ access' = "valid" /\ refresh' = reply[p].token
  /\ gone' = (call[p] # "login" /\ (gone \/ call[p] = "logout"))
  /\ UNCHANGED <<changes, missed>>

-----------------------------------------------------------------------------
\* The page is left before the answer arrives.
AnswerLost(p) ==
  /\ Change /\ Received(p)
  /\ missed' = (missed \/ reply[p].kind = "write")
  /\ UNCHANGED <<cookieVars, gone>>

\* The connection to the control-plane breaks after it has committed.
PairLost(p) ==
  /\ Change
  /\ pc[p] = "ok" /\ Goto(p, "failed") /\ missed' = TRUE
  /\ UNCHANGED <<tokenVars, active, tok, new, snap, historyVars>>
  /\ UNCHANGED <<cookieVars, call, reply, loggedOut, suspended, gone>>

AccessExpires ==
  /\ access = "valid" /\ access' = "expired"
  /\ UNCHANGED <<vars, refresh, call, reply, missed, loggedOut, suspended, gone>>

\* A statement of the control-plane fails, a status or the clock changes.
Surroundings ==
  /\ Environment
  /\ suspended' = (suspended \/ active' # Account)
  /\ UNCHANGED <<cookieVars, call, reply, missed, loggedOut, gone>>

WebNext ==
  \/ \E p \in Req :
       \/ SendWithout(p) \/ getSession(p) \/ resolveTailAuth(p) \/ loginFn(p) \/ logoutFn(p)
       \/ Handle(p) /\ UNCHANGED webVars
       \/ BffAnswer(p) \/ Deliver(p) \/ AnswerLost(p) \/ PairLost(p)
  \/ AccessExpires \/ Surroundings

WebSpec == WebInit /\ [][WebNext]_webAllVars

-----------------------------------------------------------------------------
\* auth-service.ts:101-102, "a legitimate client only ever holds the newest
\* token": unless a pair got lost on its way, no refresh presents a token
\* that has been rotated, and a session is revoked only because the user
\* logged out or the account was not active (auth-service.ts:99-108).
KeepsItsSession ==
  ~missed => /\ \A p \in Req : pc[p] = "find" => tok[p] \notin rotated
             /\ \A f \in dead : f \in loggedOut \/ suspended

\* auth.ts:72-83, "clearing cookies below still logs the user out locally":
\* from the answer of a logout to that of a login the browser has no session,
\* whether or not the control-plane could be reached.
StaysLoggedOut == gone => access = "none"

\* tail-proxy.ts:169, "Forward rotated session cookies (if we refreshed) so
\* the browser stays in sync": with no request under way the browser does not
\* hold a token that has been rotated.
StaysInSync == (\A p \in Req : call[p] = "none") => refresh \notin rotated
=============================================================================
