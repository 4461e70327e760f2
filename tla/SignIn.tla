------------------------------- MODULE SignIn -------------------------------
(***************************************************************************)
(* Sign-in with Google and invites: the handshake cookies of the web app's *)
(* server, the control-plane's OidcAuthenticator with its OAuth state      *)
(* store, and the invites, users and oauth_identities tables its           *)
(* transactions work on.  A callback runs statement by statement, so two   *)
(* of them, the admin's requests and the passing of time interleave.       *)
(*                                                                         *)
(* A Google account stands for its sub.  A flow is known by its position   *)
(* in flows, which stands for its state parameter, its nonce and its PKCE  *)
(* verifier; an invite by its position in invites, which stands for its    *)
(* secret.  The tenant cookie is written and cleared with the state        *)
(* cookie, and is represented by it.                                       *)
(***************************************************************************)
EXTENDS Integers, Sequences, FiniteSets

CONSTANTS
  Tenant, Email, GoogleAccount,
  EmailOf,      \* the verified address in the id_token of a Google account
  Browser,
  Callback,     \* callbacks handled at a time
  MaxFlows, MaxInvites, MaxUsers,
  MaxEvents     \* bound on the admin's changes, expiries and failures

ASSUME SignInAssumption ==
  /\ EmailOf \in [GoogleAccount -> Email] /\ MaxEvents \in Nat

VARIABLES
  invites,   \* rows of invites; lapsed: past expires_at
  users,     \* users with their membership; from: history, the invite it was made from
  links,     \* rows of oauth_identities
  flows,     \* states issued: tenant, browser (history), live while in the state store
  jar,       \* handshake cookies of a browser: state and invite, 0 for none
  session,   \* the session cookies of a browser: user and the flow that wrote them
  cb,        \* callbacks
  minted,    \* history: the sessions minted
  events

signInVars == <<invites, users, links, flows, jar, session, cb, minted, events>>
tables == <<invites, users, links>>

Flow == 1..Len(flows)
Invite == 1..Len(invites)
User == 1..Len(users)
NoCookies == [state |-> 0, invite |-> 0]
NoCallback == [at |-> "idle"]

At == {"consume", "exchange", "email", "link", "provision", "load", "mint",
       "granted", "rejected"}

SignInTypeOK ==
  /\ invites \in Seq([tenant : Tenant, email : Email,
                       status : {"pending", "consumed", "revoked"}, lapsed : BOOLEAN])
  /\ users \in Seq([tenant : Tenant, email : Email,
                     status : {"active", "suspended", "deleted"}, from : 0..Len(invites)])
  /\ links \subseteq [tenant : Tenant, sub : GoogleAccount, user : User]
  /\ flows \in Seq([tenant : Tenant, browser : Browser, live : BOOLEAN])
  /\ jar \in [Browser -> [state : 0..Len(flows), invite : 0..Len(invites)]]
  /\ session \in [Browser -> [user : 0..Len(users), flow : 0..Len(flows)]]
  /\ DOMAIN cb = Callback /\ \A c \in Callback : cb[c] = NoCallback \/ cb[c] \in
       [at : At, browser : Browser, flow : Flow, acct : GoogleAccount, invite : 0..Len(invites),
        user : 0..Len(users), fresh : BOOLEAN]
  /\ minted \subseteq [flow : Flow, user : User, acct : GoogleAccount]
  /\ events \in 0..MaxEvents

SignInInit ==
  /\ invites = <<>> /\ users = <<>> /\ links = {} /\ flows = <<>>
  /\ jar = [b \in Browser |-> NoCookies]
  /\ session = [b \in Browser |-> [user |-> 0, flow |-> 0]]
  /\ cb = [c \in Callback |-> NoCallback]
  /\ minted = {} /\ events = 0

Happens == events < MaxEvents /\ events' = events + 1

-----------------------------------------------------------------------------
(* The repositories. *)

findByProviderSub(t, s) == {l \in links : l.tenant = t /\ l.sub = s}
findCredentialsByEmail(t, e) == {u \in User : users[u].tenant = t /\ users[u].email = e
                                              /\ users[u].status # "deleted"}
\* Whatever its status.
consumeWithClientAny(t, i, e, fresh) ==
  {j \in {i} : invites[j].tenant = t /\ invites[j].email = e /\ fresh}

\* The rows the conditional UPDATE of the consume hits; now is the caller's clock.
consumeWithClient(t, i, e, fresh) ==
  {j \in {i} : /\ invites[j].tenant = t /\ invites[j].email = e
               /\ invites[j].status = "pending" /\ fresh}

insertUserWithMembership(t, e, i) ==
  Append(users, [tenant |-> t, email |-> e, status |-> "active", from |-> i])

\* A user may be linked to a second account.
linkFirstWithClientRepin(t, u, s) ==
  LET winner == findByProviderSub(t, s)
  IN  IF winner # {} THEN [ok |-> TRUE, user |-> (CHOOSE l \in winner : TRUE).user, rows |-> links]
      ELSE IF users[u].status = "deleted" THEN [ok |-> FALSE, user |-> u, rows |-> links]
           ELSE [ok |-> TRUE, user |-> u,
                 rows |-> links \cup {[tenant |-> t, sub |-> s, user |-> u]}]

\* A row of the same sub answers for the insert (the winner's user); a user pinned
\* to another sub is a conflict; a user gone in between fails the foreign key.
linkFirstWithClient(t, u, s) ==
  LET winner == findByProviderSub(t, s)
      pinned == {l \in links : l.user = u}
  IN  IF winner # {} THEN [ok |-> TRUE, user |-> (CHOOSE l \in winner : TRUE).user, rows |-> links]
      ELSE IF pinned # {} \/ users[u].status = "deleted"
           THEN [ok |-> FALSE, user |-> u, rows |-> links]
           ELSE [ok |-> TRUE, user |-> u,
                 rows |-> links \cup {[tenant |-> t, sub |-> s, user |-> u]}]

-----------------------------------------------------------------------------
(* The browser and the web app's server. *)

\* The control-plane puts a fresh state into the store ...
beginAuthorize(b, t) ==
  /\ Len(flows) < MaxFlows
  /\ flows' = Append(flows, [tenant |-> t, browser |-> b, live |-> TRUE])

\* ... and the web app's server into the cookie of the browser, over that of an
\* earlier flow.
startGoogleSignin(b, t) ==
  /\ beginAuthorize(b, t)
  /\ jar' = [jar EXCEPT ![b].state = Len(flows) + 1]
  /\ UNCHANGED <<tables, session, cb, minted, events>>

\* The Google button of the login page.
handleGoogleSignin(b, t) == startGoogleSignin(b, t)

\* /invite/accept with a token in the URL moves it to the cookie ...
stashInviteToken(b, i) ==
  /\ jar' = [jar EXCEPT ![b].invite = i]
  /\ UNCHANGED <<tables, flows, session, cb, minted, events>>

\* ... and without one starts the flow of the tenant named in the cookie.
InviteAcceptPage(b) ==
  /\ jar[b].invite # 0
  /\ startGoogleSignin(b, invites[jar[b].invite].tenant)

\* Google sends a browser back with the state of flow f and a code for account a.
\* Without handshake cookies the loader gives up and nothing changes.
completeGoogleSignin(c, b, f, a) ==
  /\ cb[c] = NoCallback
  /\ jar[b].state # 0
  /\ IF jar[b].state = f
     THEN /\ cb' = [cb EXCEPT ![c] = [at |-> "consume", browser |-> b, flow |-> f, acct |-> a,
                                      invite |-> jar[b].invite, user |-> 0, fresh |-> FALSE]]
          /\ UNCHANGED jar
     ELSE /\ jar' = [jar EXCEPT ![b] = NoCookies]
          /\ UNCHANGED cb
  /\ UNCHANGED <<tables, flows, session, minted, events>>

\* The answer of the control-plane: session cookies if it granted one and it
\* arrived; every exit clears the handshake cookies of the browser.
AnswerCallback(c) ==
  /\ cb[c].at \in {"granted", "rejected"}
  /\ \/ /\ cb[c].at = "granted"
        /\ session' = [session EXCEPT ![cb[c].browser] = [user |-> cb[c].user, flow |-> cb[c].flow]]
        /\ UNCHANGED events
     \/ cb[c].at = "rejected" /\ UNCHANGED <<session, events>>
     \/ cb[c].at = "granted" /\ Happens /\ UNCHANGED session
  /\ jar' = [jar EXCEPT ![cb[c].browser] = NoCookies]
  /\ cb' = [cb EXCEPT ![c] = NoCallback]
  /\ UNCHANGED <<tables, flows, minted>>

\* Handshake cookies live for ten minutes.
CookieExpires(b, field) ==
  /\ jar[b][field] # 0 /\ Happens
  /\ jar' = [jar EXCEPT ![b][field] = 0]
  /\ UNCHANGED <<tables, flows, session, cb, minted>>

-----------------------------------------------------------------------------
(* OidcAuthenticator.handleCallback, one action for each of its awaits. *)

TenantOf(c) == flows[cb[c].flow].tenant
Proceed(c, at) == cb' = [cb EXCEPT ![c].at = at]
ProceedAs(c, at, u) == cb' = [cb EXCEPT ![c].at = at, ![c].user = u]

\* The state is read, and deleted by its expiry only.
ConsumeStateRead(c) ==
  /\ cb[c].at = "consume"
  /\ Proceed(c, IF flows[cb[c].flow].live THEN "exchange" ELSE "rejected")
  /\ UNCHANGED <<tables, flows, jar, session, minted, events>>

\* The state is taken out of the store before Google is asked anything.
ConsumeState(c) ==
  /\ cb[c].at = "consume"
  /\ IF flows[cb[c].flow].live
     THEN flows' = [flows EXCEPT ![cb[c].flow].live = FALSE] /\ Proceed(c, "exchange")
     ELSE UNCHANGED flows /\ Proceed(c, "rejected")
  /\ UNCHANGED <<tables, jar, session, minted, events>>

\* Rejected (401) or Google out of reach (503): the callback ends with its state gone.
exchangeFails(c) == Proceed(c, "rejected") /\ Happens

\* The token exchange and the verification of the id_token touch nothing of this state;
\* then the account is looked up among the tenant's identities.
FindIdentity(c) ==
  /\ cb[c].at = "exchange"
  /\ LET found == findByProviderSub(TenantOf(c), cb[c].acct)
     IN  \/ exchangeFails(c)
         \/ found = {} /\ Proceed(c, "email") /\ UNCHANGED events
         \/ \E l \in found : ProceedAs(c, "load", l.user) /\ UNCHANGED events
  /\ UNCHANGED <<tables, flows, jar, session, minted>>

\* No user of that address: the invite, if a token came along, whose expiry is judged
\* by the clock read here.
FindUser(c) ==
  /\ cb[c].at = "email"
  /\ LET found == findCredentialsByEmail(TenantOf(c), EmailOf[cb[c].acct])
         i == cb[c].invite
     IN  \/ \E u \in found : ProceedAs(c, "link", u)
         \/ found = {} /\ i = 0 /\ Proceed(c, "rejected")
         \/ /\ found = {} /\ i # 0
            /\ cb' = [cb EXCEPT ![c].at = "provision", ![c].fresh = ~invites[i].lapsed]
  /\ UNCHANGED <<tables, flows, jar, session, minted, events>>

LinkFirst(c) ==
  /\ cb[c].at = "link"
  /\ LET link == linkFirstWithClient(TenantOf(c), cb[c].user, cb[c].acct)
     IN  /\ links' = link.rows
         /\ IF link.ok THEN ProceedAs(c, "load", link.user) ELSE Proceed(c, "rejected")
  /\ UNCHANGED <<invites, users, flows, jar, session, minted, events>>

\* One transaction: consume the invite, insert the user, link the
\* account.  An address taken or an account linked elsewhere rolls all of it back.
provisionFromInvite(c) ==
  /\ cb[c].at = "provision"
  /\ Len(users) < MaxUsers
  /\ LET t == TenantOf(c)
         e == EmailOf[cb[c].acct]
         u == Len(users) + 1
         hit == consumeWithClient(t, cb[c].invite, e, cb[c].fresh)
     IN  IF hit # {} /\ findCredentialsByEmail(t, e) = {} /\ findByProviderSub(t, cb[c].acct) = {}
         THEN \E i \in hit :
                /\ invites' = [invites EXCEPT ![i].status = "consumed"]
                /\ users' = insertUserWithMembership(t, e, i)
                /\ links' = links \cup {[tenant |-> t, sub |-> cb[c].acct, user |-> u]}
                /\ ProceedAs(c, "load", u)
         ELSE UNCHANGED tables /\ Proceed(c, "rejected")
  /\ UNCHANGED <<flows, jar, session, minted, events>>

LoadUser(c) ==
  /\ cb[c].at = "load"
  /\ Proceed(c, IF users[cb[c].user].status = "active" THEN "mint" ELSE "rejected")
  /\ UNCHANGED <<tables, flows, jar, session, minted, events>>

\* The refresh token row needs its user (foreign key).
mintSession(c) ==
  /\ cb[c].at = "mint"
  /\ IF users[cb[c].user].status # "deleted"
     THEN /\ minted' = minted \cup {[flow |-> cb[c].flow, user |-> cb[c].user, acct |-> cb[c].acct]}
          /\ Proceed(c, "granted")
     ELSE UNCHANGED minted /\ Proceed(c, "rejected")
  /\ UNCHANGED <<tables, flows, jar, session, events>>

StateExpires(f) ==
  /\ flows[f].live /\ Happens
  /\ flows' = [flows EXCEPT ![f].live = FALSE]
  /\ UNCHANGED <<tables, jar, session, cb, minted>>

-----------------------------------------------------------------------------
(* The admin: InviteService and UserService. *)

\* A second pending invite of an address fails on the partial unique index.
createInvite(t, e) ==
  /\ Len(invites) < MaxInvites
  /\ \A i \in Invite : invites[i].status = "pending" => <<invites[i].tenant, invites[i].email>> # <<t, e>>
  /\ invites' = Append(invites, [tenant |-> t, email |-> e, status |-> "pending",
                                 lapsed |-> FALSE])
  /\ UNCHANGED <<users, links, flows, jar, session, cb, minted, events>>

revokeInvite(i) ==
  /\ invites[i].status = "pending" /\ Happens
  /\ invites' = [invites EXCEPT ![i].status = "revoked"]
  /\ UNCHANGED <<users, links, flows, jar, session, cb, minted>>

InviteExpires(i) ==
  /\ ~invites[i].lapsed /\ Happens
  /\ invites' = [invites EXCEPT ![i].lapsed = TRUE]
  /\ UNCHANGED <<users, links, flows, jar, session, cb, minted>>

createUser(t, e) ==
  /\ Len(users) < MaxUsers /\ findCredentialsByEmail(t, e) = {} /\ Happens
  /\ users' = insertUserWithMembership(t, e, 0)
  /\ UNCHANGED <<invites, links, flows, jar, session, cb, minted>>

setUserStatus(u, s) ==
  /\ users[u].status \notin {s, "deleted"} /\ Happens
  /\ users' = [users EXCEPT ![u].status = s]
  /\ UNCHANGED <<invites, links, flows, jar, session, cb, minted>>

\* The identities of the user go with the row (ON DELETE CASCADE).
deleteUser(u) ==
  /\ users[u].status # "deleted" /\ Happens
  /\ users' = [users EXCEPT ![u].status = "deleted"]
  /\ links' = {l \in links : l.user # u}
  /\ UNCHANGED <<invites, flows, jar, session, cb, minted>>

BrowserNext ==
  \E b \in Browser :
    \/ \E t \in Tenant : handleGoogleSignin(b, t)
    \/ \E i \in Invite : stashInviteToken(b, i)
    \/ InviteAcceptPage(b)
    \/ \E c \in Callback, f \in Flow, a \in GoogleAccount : completeGoogleSignin(c, b, f, a)
    \/ \E field \in {"state", "invite"} : CookieExpires(b, field)

CallbackNext ==
  \/ \E f \in Flow : StateExpires(f)
  \/ \E c \in Callback :
       /\ cb[c] # NoCallback
       /\ \/ ConsumeState(c) \/ FindIdentity(c) \/ FindUser(c)
          \/ LinkFirst(c) \/ provisionFromInvite(c) \/ LoadUser(c) \/ mintSession(c)
          \/ AnswerCallback(c)

AdminNext ==
  \/ \E t \in Tenant, e \in Email : createInvite(t, e)
  \/ \E i \in Invite : revokeInvite(i) \/ InviteExpires(i)
  \/ \E t \in Tenant, e \in Email : createUser(t, e)
  \/ \E u \in User : \/ \E s \in {"active", "suspended"} : setUserStatus(u, s)
                     \/ deleteUser(u)

SignInNext == BrowserNext \/ CallbackNext \/ AdminNext

SignInSpec == SignInInit /\ [][SignInNext]_signInVars

-----------------------------------------------------------------------------
\* An invite admits exactly one user: a consumed invite has made one user, of its
\* tenant and address, whose account was linked in the same transaction; an
\* invite that is pending or revoked has made none, so a rolled back acceptance
\* leaves it usable and a revoke that was answered lets nobody in.
InviteAdmitsOne ==
  \A i \in Invite :
    LET made == {u \in User : users[u].from = i}
    IN  /\ Cardinality(made) = IF invites[i].status = "consumed" THEN 1 ELSE 0
        /\ \A u \in made :
             /\ <<users[u].tenant, users[u].email>> = <<invites[i].tenant, invites[i].email>>
             /\ users[u].status = "deleted" \/ \E l \in links : l.user = u

\* Whoever signs in is the user the Google account is pinned to: every session minted
\* is for a user of the flow's tenant that the account is linked to for as long as the
\* user exists, whatever other first logins of the account or of the address ran in
\* between; and no account of a tenant is linked to two users, nor a user to two.
SessionIsThePinnedUser ==
  /\ \A m \in minted :
       /\ users[m.user].tenant = flows[m.flow].tenant
       /\ \/ users[m.user].status = "deleted"
          \/ [tenant |-> flows[m.flow].tenant, sub |-> m.acct, user |-> m.user] \in links
  /\ \A l1, l2 \in links :
       (l1.tenant = l2.tenant /\ (l1.sub = l2.sub \/ l1.user = l2.user)) => l1 = l2

\* A flow is good for one session, in the browser that started it: the session cookies
\* of a browser come from a flow of that browser, and a state taken out of the store
\* never mints a second session, however often its callback is loaded.
OwnFlowOnce ==
  /\ \A b \in Browser : session[b].flow # 0 => flows[session[b].flow].browser = b
  /\ \A m1, m2 \in minted : m1.flow = m2.flow => m1 = m2
  /\ \A m \in minted : ~flows[m.flow].live
=============================================================================
