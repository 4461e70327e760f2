--------------------------- MODULE SessionsProofs ---------------------------
(***************************************************************************)
(* OwnFlowOnce, SessionIsThePinnedUser and InviteAdmitsOne of SignIn, for  *)
(* any number of tenants, accounts, browsers, callbacks, flows, invites    *)
(* and users; RotatedOnce, ActiveToRefresh and SurvivesOnlyRace of         *)
(* RefreshTokens, for any number of requests, rows and changes; with the   *)
(* same invariant KeepsItsSession and StaysLoggedOut of WebSession, for a  *)
(* browser with one request at a time; and of Sessions, which composes     *)
(* them.                                                                   *)
(***************************************************************************)
EXTENDS Sessions, TLAPS

\* Most steps are first-order: Zenon proves every leaf that names no other prover.
USE ZenonT(30)

-----------------------------------------------------------------------------
(* Signing in *)

Running(c) == cb[c] # NoCallback

\* A callback that has taken its state out of the store and not minted a session.
Spending(c) == cb[c].at \in {"exchange", "email", "link", "provision", "load", "mint"}

\* A browser's handshake, its callback and its session belong to flows it started.
FlowsOwned ==
  /\ \A b \in Browser : jar[b].state # 0 => flows[jar[b].state].browser = b
  /\ \A c \in Callback : Running(c) => flows[cb[c].flow].browser = cb[c].browser
  /\ \A b \in Browser : session[b].flow # 0 => flows[session[b].flow].browser = b

\* At most one callback spends a state, a state that is being spent has minted nothing
\* yet, and a state that has minted a session is spent and has minted no other.
StatesSpentOnce ==
  /\ \A c \in Callback : Spending(c) =>
       ~flows[cb[c].flow].live /\ \A m \in minted : m.flow # cb[c].flow
  /\ \A c, d \in Callback : (Spending(c) /\ Spending(d) /\ cb[c].flow = cb[d].flow) => c = d
  /\ \A m \in minted : ~flows[m.flow].live
  /\ \A m1, m2 \in minted : m1.flow = m2.flow => m1 = m2

\* An account is linked to users that exist, in their tenant, one to one.
LinksMatch ==
  /\ \A l \in links : users[l.user].tenant = l.tenant /\ users[l.user].status # "deleted"
  /\ \A l1, l2 \in links :
       (l1.tenant = l2.tenant /\ (l1.sub = l2.sub \/ l1.user = l2.user)) => l1 = l2

\* In tables us and ls the user is the one that account a is linked to in tenant t, as
\* long as the user exists.
Pinned(us, ls, t, a, u) ==
  /\ u \in 1..Len(us) /\ us[u].tenant = t
  /\ us[u].status = "deleted" \/ [tenant |-> t, sub |-> a, user |-> u] \in ls

\* What a callback has found: an invite to provision from, or a user of its tenant to
\* link, then the pinned user, who is whom it mints the session for.
UsersFound ==
  /\ \A c \in Callback :
       /\ cb[c].at = "provision" => cb[c].invite \in Invite
       /\ cb[c].at = "link" => cb[c].user \in User /\ users[cb[c].user].tenant = TenantOf(c)
       /\ cb[c].at \in {"load", "mint", "granted"} =>
            Pinned(users, links, TenantOf(c), cb[c].acct, cb[c].user)
  /\ \A m \in minted : Pinned(users, links, flows[m.flow].tenant, m.acct, m.user)

\* A user made from an invite and the invite belong together, one to one.
InvitesMatch ==
  /\ \A u \in User : users[u].from # 0 =>
       /\ invites[users[u].from].status = "consumed"
       /\ invites[users[u].from].tenant = users[u].tenant
       /\ invites[users[u].from].email = users[u].email
       /\ users[u].status = "deleted" \/ \E l \in links : l.user = u
  /\ \A u, v \in User : (users[u].from = users[v].from /\ users[v].from # 0) => u = v
  /\ \A i \in Invite : invites[i].status = "consumed" => \E u \in User : users[u].from = i

\* The inductive invariant.
SignInInv ==
  /\ SignInTypeOK /\ FlowsOwned /\ StatesSpentOnce /\ LinksMatch /\ UsersFound /\ InvitesMatch
-----------------------------------------------------------------------------
(* Rows are added and changed, never removed or renumbered. *)

\* An INSERT adds a row behind the others.
LEMMA RowAdded ==
  ASSUME NEW S, NEW s \in Seq(S), NEW r \in S
  PROVE  /\ Append(s, r) \in Seq(S) /\ Len(Append(s, r)) = Len(s) + 1 /\ Len(s) \in Nat
         /\ \A t \in 1..Len(s) : Append(s, r)[t] = s[t]
         /\ Append(s, r)[Len(s) + 1] = r
  BY SMTT(30)

\* An UPDATE of one row leaves the others as they are.
LEMMA RowChanged ==
  ASSUME NEW S, NEW s \in Seq(S), NEW i \in 1..Len(s), NEW r \in S
  PROVE  /\ [s EXCEPT ![i] = r] \in Seq(S) /\ Len([s EXCEPT ![i] = r]) = Len(s)
         /\ \A t \in 1..Len(s) : [s EXCEPT ![i] = r][t] = IF t = i THEN r ELSE s[t]
  BY SMTT(30)

FlowRow == [tenant : Tenant, browser : Browser, live : BOOLEAN]
InviteRow == [tenant : Tenant, email : Email, status : {"pending", "consumed", "revoked"},
              lapsed : BOOLEAN]
UserRow == [tenant : Tenant, email : Email, status : {"active", "suspended", "deleted"},
            from : 0..Len(invites)]
CallbackRow == [at : At, browser : Browser, flow : Flow, acct : GoogleAccount,
                invite : 0..Len(invites), user : 0..Len(users), fresh : BOOLEAN]

\* What stays of a flow, of an invite and of a user in every step.
FlowsStay ==
  /\ flows' \in Seq(FlowRow) /\ Len(flows') >= Len(flows)
  /\ \A f \in Flow : /\ flows'[f].tenant = flows[f].tenant /\ flows'[f].browser = flows[f].browser
                     /\ flows'[f].live => flows[f].live
InvitesStay ==
  /\ invites' \in Seq(InviteRow) /\ Len(invites') >= Len(invites)
  /\ \A i \in Invite : /\ invites'[i].tenant = invites[i].tenant
                       /\ invites'[i].email = invites[i].email
                       /\ invites[i].status = "consumed" => invites'[i].status = "consumed"
UsersStay ==
  /\ users' \in Seq(UserRow') /\ Len(users') >= Len(users)
  /\ \A u \in User : /\ users'[u].tenant = users[u].tenant /\ users'[u].email = users[u].email
                     /\ users'[u].from = users[u].from
                     /\ users[u].status = "deleted" => users'[u].status = "deleted"

\* Types in the form the steps below use.
LEMMA Types ==
  ASSUME SignInTypeOK
  PROVE  /\ invites \in Seq(InviteRow) /\ users \in Seq(UserRow) /\ flows \in Seq(FlowRow)
         /\ Len(invites) \in Nat /\ Len(users) \in Nat /\ Len(flows) \in Nat
         /\ Flow = 1..Len(flows) /\ User = 1..Len(users) /\ Invite = 1..Len(invites)
         /\ (\A f \in Flow : flows[f] \in FlowRow) /\ (\A i \in Invite : invites[i] \in InviteRow)
         /\ \A u \in User : users[u] \in UserRow
         /\ \A c \in Callback : Running(c) => cb[c] \in CallbackRow
         /\ \A c \in Callback : ~Running(c) => cb[c].at = "idle"
  <1>1. invites \in Seq(InviteRow) /\ users \in Seq(UserRow) /\ flows \in Seq(FlowRow)
    BY DEF SignInTypeOK, InviteRow, UserRow, FlowRow
  <1>2. Flow = 1..Len(flows) /\ User = 1..Len(users) /\ Invite = 1..Len(invites)
    BY DEF Flow, User, Invite
  <1>3. Len(invites) \in Nat /\ Len(users) \in Nat /\ Len(flows) \in Nat
    BY SMTT(30), <1>1
  <1>4. (\A f \in Flow : flows[f] \in FlowRow) /\ (\A i \in Invite : invites[i] \in InviteRow)
        /\ \A u \in User : users[u] \in UserRow
    BY SMTT(30), <1>1, <1>2
  <1>5. \A c \in Callback : Running(c) => cb[c] \in CallbackRow
    BY DEF SignInTypeOK, Running, CallbackRow
  <1>6. \A c \in Callback : ~Running(c) => cb[c].at = "idle"
    BY SMTT(30) DEF Running, NoCallback
  <1> QED BY <1>1, <1>2, <1>3, <1>4, <1>5, <1>6

\* A new flow.
LEMMA BeginStays ==
  ASSUME SignInTypeOK, NEW b \in Browser, NEW t \in Tenant, beginAuthorize(b, t)
  PROVE  /\ FlowsStay /\ Len(flows') = Len(flows) + 1
         /\ flows'[Len(flows) + 1] = [tenant |-> t, browser |-> b, live |-> TRUE]
  <1>1. [tenant |-> t, browser |-> b, live |-> TRUE] \in FlowRow
    BY DEF FlowRow
  <1> QED BY SMTT(30), <1>1, Types, RowAdded DEF beginAuthorize, FlowsStay

\* A state leaves the store.
LEMMA SpendStays ==
  ASSUME SignInTypeOK, NEW f \in Flow, flows' = [flows EXCEPT ![f].live = FALSE]
  PROVE  FlowsStay /\ Len(flows') = Len(flows) /\ ~flows'[f].live
         /\ \A g \in Flow : g # f => flows'[g] = flows[g]
  <1>1. [flows[f] EXCEPT !.live = FALSE] \in FlowRow
    BY Types DEF FlowRow
  <1>2. flows' = [flows EXCEPT ![f] = [flows[f] EXCEPT !.live = FALSE]]
    BY Types
  <1>3. /\ flows' \in Seq(FlowRow) /\ Len(flows') = Len(flows)
        /\ \A g \in Flow : flows'[g] = IF g = f THEN [flows[f] EXCEPT !.live = FALSE] ELSE flows[g]
    BY SMTT(30), <1>1, <1>2, Types, RowChanged
  <1> QED BY SMTT(30), <1>1, <1>3, Types DEF FlowsStay, FlowRow

\* A sequence over a set is one over a larger set.
LEMMA Wider == ASSUME NEW S, NEW T, S \subseteq T, NEW s \in Seq(S) PROVE s \in Seq(T)
  BY SMTT(30)

\* A user row stays one while the invites grow.
LEMMA UserRowsWiden == ASSUME SignInTypeOK, InvitesStay PROVE UserRow \subseteq UserRow'
  <1>1. Len(invites) \in Nat /\ Len(invites') \in Nat /\ Len(invites') >= Len(invites)
    BY SMTT(30), Types DEF InvitesStay
  <1>2. 0..Len(invites) \subseteq 0..Len(invites')
    BY ONLY <1>1
  <1> QED BY <1>2 DEF UserRow

\* Tables that a step leaves alone.
LEMMA Alone ==
  ASSUME SignInTypeOK
  PROVE  /\ UNCHANGED flows => FlowsStay
         /\ UNCHANGED invites => InvitesStay
         /\ UNCHANGED users /\ InvitesStay => UsersStay
  <1>1. UNCHANGED flows => FlowsStay
    BY SMTT(30), Types DEF FlowsStay
  <1>2. UNCHANGED invites => InvitesStay
    BY SMTT(30), Types DEF InvitesStay
  <1>3. ASSUME UNCHANGED users, InvitesStay PROVE UsersStay
    <2>1. UserRow \subseteq UserRow'
      BY <1>3, UserRowsWiden
    <2>2. users \in Seq(UserRow')
      BY <2>1, Types, Wider
    <2> QED BY SMTT(30), <2>2, <1>3, Types DEF UsersStay
  <1> QED BY <1>1, <1>2, <1>3

\* What is typed stays typed while the tables grow.
LEMMA Widened ==
  ASSUME SignInTypeOK, FlowsStay, InvitesStay, UsersStay
  PROVE  /\ Flow \subseteq Flow' /\ User \subseteq User' /\ Invite \subseteq Invite'
         /\ Len(flows') \in Nat /\ Len(users') \in Nat /\ Len(invites') \in Nat
         /\ CallbackRow \subseteq CallbackRow'
         /\ jar \in [Browser -> [state : 0..Len(flows'), invite : 0..Len(invites')]]
         /\ session \in [Browser -> [user : 0..Len(users'), flow : 0..Len(flows')]]
         /\ links \subseteq [tenant : Tenant, sub : GoogleAccount, user : User']
         /\ minted \subseteq [flow : Flow', user : User', acct : GoogleAccount]
  <1>1. Len(flows') \in Nat /\ Len(users') \in Nat /\ Len(invites') \in Nat
    BY SMTT(30) DEF FlowsStay, InvitesStay, UsersStay
  <1>2. Flow \subseteq Flow' /\ User \subseteq User' /\ Invite \subseteq Invite'
    BY SMTT(30), <1>1, Types DEF FlowsStay, InvitesStay, UsersStay, Flow, User, Invite
  <1>3. 0..Len(flows) \subseteq 0..Len(flows') /\ 0..Len(users) \subseteq 0..Len(users')
        /\ 0..Len(invites) \subseteq 0..Len(invites')
    BY SMTT(30), <1>1, Types DEF FlowsStay, InvitesStay, UsersStay
  <1>4. CallbackRow \subseteq CallbackRow'
    BY <1>2, <1>3 DEF CallbackRow
  <1>5. jar \in [Browser -> [state : 0..Len(flows'), invite : 0..Len(invites')]]
    BY <1>3 DEF SignInTypeOK
  <1>6. session \in [Browser -> [user : 0..Len(users'), flow : 0..Len(flows')]]
    BY <1>3 DEF SignInTypeOK
  <1>7. links \subseteq [tenant : Tenant, sub : GoogleAccount, user : User']
    BY <1>2 DEF SignInTypeOK
  <1>8. minted \subseteq [flow : Flow', user : User', acct : GoogleAccount]
    BY <1>2 DEF SignInTypeOK
  <1> QED BY <1>1, <1>2, <1>4, <1>5, <1>6, <1>7, <1>8

\* A step that keeps every table's rows is well typed if it types what else it changes.
LEMMA Typed ==
  ASSUME SignInTypeOK, FlowsStay, InvitesStay, UsersStay,
         UNCHANGED links \/ links' \subseteq [tenant : Tenant, sub : GoogleAccount, user : User'],
         UNCHANGED jar \/ jar' \in [Browser -> [state : 0..Len(flows'), invite : 0..Len(invites')]],
         UNCHANGED session \/ session' \in [Browser -> [user : 0..Len(users'), flow : 0..Len(flows')]],
         UNCHANGED minted \/ minted' \subseteq [flow : Flow', user : User', acct : GoogleAccount],
         UNCHANGED events \/ Happens,
         UNCHANGED cb \/ \E c \in Callback, r \in {NoCallback} \cup CallbackRow' :
                           cb' = [cb EXCEPT ![c] = r]
  PROVE  SignInTypeOK'
  <1>1. events' \in 0..MaxEvents
    BY SMTT(30), SignInAssumption DEF SignInTypeOK, Happens
  <1>2. DOMAIN cb' = Callback /\ \A c \in Callback : cb'[c] = NoCallback \/ cb'[c] \in CallbackRow'
    <2>1. DOMAIN cb = Callback /\ \A c \in Callback : cb[c] = NoCallback \/ cb[c] \in CallbackRow'
      BY Types, Widened DEF SignInTypeOK, Running
    <2> QED BY <2>1
  <1>3. links' \subseteq [tenant : Tenant, sub : GoogleAccount, user : User']
        /\ minted' \subseteq [flow : Flow', user : User', acct : GoogleAccount]
    BY Widened
  <1>4. jar' \in [Browser -> [state : 0..Len(flows'), invite : 0..Len(invites')]]
        /\ session' \in [Browser -> [user : 0..Len(users'), flow : 0..Len(flows')]]
    BY Widened
  <1>5. flows' \in Seq(FlowRow) /\ invites' \in Seq(InviteRow) /\ users' \in Seq(UserRow')
    BY DEF FlowsStay, InvitesStay, UsersStay
  <1> QED BY <1>1, <1>2, <1>3, <1>4, <1>5
          DEF SignInTypeOK, FlowRow, InviteRow, UserRow, CallbackRow, NoCallback, At
-----------------------------------------------------------------------------
(* What a step must respect for each part of the invariant to hold after it. *)

\* A link goes only with its user.
LinksStay == \A l \in links : l \in links' \/ users'[l.user].status = "deleted"

\* A callback that goes on is still that of its flow, browser and account.
SameCallback(c) ==
  Running(c) /\ cb'[c].flow = cb[c].flow /\ cb'[c].browser = cb[c].browser /\ cb'[c].acct = cb[c].acct

\* Cookies that are kept or dropped, and callbacks that go on or end, belong where they did.
LEMMA OwnedKept ==
  ASSUME SignInInv, FlowsStay, UNCHANGED session,
         \A b \in Browser : jar'[b].state \in {0, jar[b].state},
         \A c \in Callback : cb'[c] # NoCallback => SameCallback(c)
  PROVE  FlowsOwned'
  <1>1. \A b \in Browser : /\ jar[b].state # 0 => jar[b].state \in Flow
                           /\ session[b].flow # 0 => session[b].flow \in Flow
    <2>1. \A b \in Browser : jar[b].state \in 0..Len(flows) /\ session[b].flow \in 0..Len(flows)
      BY DEF SignInInv, SignInTypeOK
    <2> QED BY SMTT(30), <2>1, Types DEF SignInInv
  <1>2. \A c \in Callback : Running(c) => cb[c].flow \in Flow
    BY Types DEF SignInInv, CallbackRow
  <1>3. \A f \in Flow : flows'[f].browser = flows[f].browser
    BY DEF FlowsStay
  <1> QED BY SMTT(30), <1>1, <1>2, <1>3 DEF SignInInv, FlowsOwned, Running, SameCallback

\* No state is spent but by the callback that spent it already.
LEMMA SpentKept ==
  ASSUME SignInInv, FlowsStay, UNCHANGED minted,
         \A c \in Callback : Spending(c)' => Spending(c) /\ cb'[c].flow = cb[c].flow
  PROVE  StatesSpentOnce'
  <1>1. \A c \in Callback : Spending(c) => cb[c].flow \in Flow
    BY Types DEF SignInInv, CallbackRow, Spending
  <1>2. \A m \in minted : m.flow \in Flow
    BY DEF SignInInv, SignInTypeOK
  <1>3. \A f \in Flow : flows'[f].live => flows[f].live
    BY DEF FlowsStay
  <1>4. \A c \in Callback : Spending(c)' =>
          ~flows'[cb'[c].flow].live /\ \A m \in minted : m.flow # cb'[c].flow
    BY <1>1, <1>3 DEF SignInInv, StatesSpentOnce
  <1>5. \A c, d \in Callback : (Spending(c)' /\ Spending(d)' /\ cb'[c].flow = cb'[d].flow) => c = d
    BY DEF SignInInv, StatesSpentOnce
  <1>6. \A m \in minted : ~flows'[m.flow].live
    BY <1>2, <1>3 DEF SignInInv, StatesSpentOnce
  <1> QED BY <1>4, <1>5, <1>6 DEF SignInInv, StatesSpentOnce

\* Once pinned to an account, a user stays so or is deleted.
LEMMA PinStays ==
  ASSUME SignInTypeOK, InvitesStay, UsersStay, FlowsStay, LinksStay, NEW t, NEW a, NEW u,
         Pinned(users, links, t, a, u)
  PROVE  Pinned(users', links', t, a, u)
  <1>1. u \in User /\ u \in 1..Len(users')
    BY Widened DEF Pinned, User
  <1> QED BY <1>1 DEF UsersStay, LinksStay, Pinned

\* Callbacks that found nobody new, or whom they found, keep what they found.
LEMMA FoundKept ==
  ASSUME SignInInv, FlowsStay, InvitesStay, UsersStay, LinksStay, UNCHANGED minted,
         \A c \in Callback :
           \/ cb'[c] = cb[c]
           \/ cb'[c].at \notin {"provision", "link", "load", "mint", "granted"}
           \/ /\ SameCallback(c)
              /\ cb'[c].at = "provision" => cb'[c].invite \in Invite
              /\ cb'[c].at = "link" => cb'[c].user \in User /\ users[cb'[c].user].tenant = TenantOf(c)
              /\ cb'[c].at \in {"load", "mint", "granted"} =>
                   Pinned(users', links', TenantOf(c), cb[c].acct, cb'[c].user)
  PROVE  UsersFound'
  <1>1. \A f \in Flow : flows'[f].tenant = flows[f].tenant
    BY DEF FlowsStay
  <1>2. \A m \in minted : m.flow \in Flow
    BY DEF SignInInv, SignInTypeOK
  <1>3. ASSUME NEW m \in minted PROVE Pinned(users', links', flows'[m.flow].tenant, m.acct, m.user)
    BY <1>1, <1>2, PinStays DEF SignInInv, UsersFound
  <1>4. ASSUME NEW c \in Callback
        PROVE  /\ cb'[c].at = "provision" => cb'[c].invite \in Invite'
               /\ cb'[c].at = "link" => cb'[c].user \in User' /\ users'[cb'[c].user].tenant = flows'[cb'[c].flow].tenant
               /\ cb'[c].at \in {"load", "mint", "granted"} =>
                    Pinned(users', links', flows'[cb'[c].flow].tenant, cb'[c].acct, cb'[c].user)
    <2>1. Running(c) => cb[c].flow \in Flow
      BY Types DEF SignInInv, CallbackRow
    <2>2. cb[c].at # "idle" => Running(c)
      BY Types DEF SignInInv
    <2>3. \A u \in User : u \in User' /\ users'[u].tenant = users[u].tenant
      BY Widened DEF SignInInv, UsersStay
    <2>4. cb'[c].at \in {"link", "load", "mint", "granted"} =>
            flows'[cb'[c].flow].tenant = TenantOf(c) /\ cb'[c].acct = cb[c].acct
      BY <2>1, <2>2, <1>1 DEF SameCallback, TenantOf
    <2>5. CASE cb'[c].at = "link"
      <3>1. cb'[c].user \in User /\ users[cb'[c].user].tenant = TenantOf(c)
        BY <2>5 DEF SignInInv, UsersFound
      <3> QED BY <3>1, <2>3, <2>4, <2>5
    <2>6. CASE cb'[c].at \in {"load", "mint", "granted"}
      <3>1. CASE cb'[c] = cb[c]
        <4>1. Pinned(users, links, TenantOf(c), cb[c].acct, cb[c].user)
          BY <3>1, <2>6 DEF SignInInv, UsersFound
        <4>2. Pinned(users', links', TenantOf(c), cb[c].acct, cb[c].user)
          BY <4>1, PinStays DEF SignInInv
        <4> QED BY <4>2, <3>1, <2>4, <2>6
      <3>2. CASE cb'[c] # cb[c]
        BY <3>2, <2>4, <2>6
      <3> QED BY <3>1, <3>2
    <2>7. CASE cb'[c].at = "provision"
      <3>1. cb'[c].invite \in Invite
        BY <2>7 DEF SignInInv, UsersFound
      <3> QED BY <3>1, <2>7, Widened DEF SignInInv
    <2> QED BY <2>5, <2>6, <2>7
  <1> QED BY <1>3, <1>4 DEF UsersFound, TenantOf

\* Invites and users belong together as long as nobody is made from an invite, no invite
\* is consumed and links go with their users only.
LEMMA MatchKept ==
  ASSUME SignInInv, InvitesStay, UsersStay, FlowsStay, LinksStay,
         \A i \in Invite' : invites'[i].status = "consumed" =>
           i \in Invite /\ invites[i].status = "consumed",
         \A u \in User' : u \in User \/ users'[u].from = 0
  PROVE  InvitesMatch'
  <1>1. User \subseteq User' /\ Invite \subseteq Invite'
    BY Widened DEF SignInInv
  <1>2. \A u \in User : users[u].from # 0 => users[u].from \in Invite
    BY SMTT(30), Types DEF SignInInv, UserRow
  <1>3. ASSUME NEW u \in User', users'[u].from # 0
        PROVE  /\ u \in User /\ users[u].from = users'[u].from
               /\ invites'[users'[u].from].status = "consumed"
               /\ invites'[users'[u].from].tenant = users'[u].tenant
               /\ invites'[users'[u].from].email = users'[u].email
               /\ users'[u].status = "deleted" \/ \E l \in links' : l.user = u
    <2>1. u \in User /\ users[u].from = users'[u].from
      BY <1>3 DEF UsersStay
    <2>2. users[u].from \in Invite
      BY <2>1, <1>2, <1>3
    <2>3. users'[u].status = "deleted" \/ \E l \in links' : l.user = u
      BY SMTT(30), <2>1, <1>3 DEF SignInInv, InvitesMatch, UsersStay, LinksStay
    <2>4. PICK i \in Invite : i = users[u].from
      BY <2>2
    <2>5. /\ invites[i].status = "consumed" /\ invites[i].tenant = users[u].tenant
          /\ invites[i].email = users[u].email
      BY <2>1, <2>4, <1>3 DEF SignInInv, InvitesMatch
    <2>6. users'[u].tenant = users[u].tenant /\ users'[u].email = users[u].email
      BY <2>1 DEF UsersStay
    <2>7. /\ invites'[i].status = "consumed" /\ invites'[i].tenant = users[u].tenant
          /\ invites'[i].email = users[u].email
      BY <2>5 DEF InvitesStay
    <2> QED BY <2>1, <2>3, <2>4, <2>6, <2>7
  <1>4. ASSUME NEW i \in Invite', invites'[i].status = "consumed"
        PROVE  \E u \in User' : users'[u].from = i
    BY SMTT(30), <1>1, <1>4 DEF SignInInv, InvitesMatch, UsersStay
  <1>5. \A u, v \in User' : (users'[u].from = users'[v].from /\ users'[v].from # 0) => u = v
    BY SMTT(30), <1>3 DEF SignInInv, InvitesMatch
  <1> QED BY <1>3, <1>4, <1>5 DEF InvitesMatch

\* A step that changes no link and deletes no user.
LEMMA LinksKept ==
  ASSUME SignInInv, UsersStay, UNCHANGED links,
         \A u \in User : users'[u].status = "deleted" => users[u].status = "deleted"
  PROVE  LinksMatch' /\ LinksStay
  <1>1. \A l \in links : l.user \in User
    BY DEF SignInInv, SignInTypeOK
  <1> QED BY <1>1 DEF SignInInv, LinksMatch, LinksStay, UsersStay

-----------------------------------------------------------------------------
(* The actions. *)

\* A callback moves on or ends, in a step that touches no table.
LEMMA Moved ==
  ASSUME SignInInv, UNCHANGED <<tables, flows, session, jar, minted>>, UNCHANGED events \/ Happens,
         NEW c \in Callback, Running(c), NEW r \in CallbackRow,
         r.flow = cb[c].flow, r.browser = cb[c].browser, r.acct = cb[c].acct,
         cb' = [cb EXCEPT ![c] = r],
         r.at \in {"exchange", "email", "link", "provision", "load", "mint"} => Spending(c),
         r.at = "provision" => r.invite \in Invite,
         r.at = "link" => r.user \in User /\ users[r.user].tenant = TenantOf(c),
         r.at \in {"load", "mint", "granted"} => Pinned(users, links, TenantOf(c), cb[c].acct, r.user)
  PROVE  SignInInv'
  <1>1. SignInTypeOK /\ FlowsStay /\ InvitesStay /\ UsersStay
    BY Alone DEF SignInInv, tables
  <1>2. LinksMatch' /\ LinksStay
    BY <1>1, LinksKept DEF tables
  <1>3. SignInTypeOK'
    BY <1>1, Typed, Widened DEF tables
  <1>4. DOMAIN cb = Callback /\ cb'[c] = r /\ \A d \in Callback : d # c => cb'[d] = cb[d]
    BY <1>1 DEF SignInTypeOK
  <1>5. FlowsOwned'
    BY <1>1, <1>4, OwnedKept DEF SameCallback, Running
  <1>6. StatesSpentOnce'
    BY <1>1, <1>4, SpentKept DEF Spending
  <1>7. UsersFound'
    BY SMTT(30), <1>1, <1>2, <1>4, FoundKept DEF SameCallback, tables
  <1>8. InvitesMatch'
    BY <1>1, <1>2, MatchKept DEF tables, User, Invite
  <1> QED BY <1>2, <1>3, <1>5, <1>6, <1>7, <1>8 DEF SignInInv

\* A new flow and its state cookie.
LEMMA StartKeeps ==
  ASSUME SignInInv, NEW b \in Browser, NEW t \in Tenant, startGoogleSignin(b, t)
  PROVE  SignInInv'
  <1>0. UNCHANGED <<tables, session, cb, minted, events>>
    BY DEF startGoogleSignin
  <1>1. /\ SignInTypeOK /\ FlowsStay /\ InvitesStay /\ UsersStay
        /\ Len(flows') = Len(flows) + 1 /\ flows'[Len(flows) + 1].browser = b
    <2>1. SignInTypeOK /\ beginAuthorize(b, t)
      BY DEF SignInInv, startGoogleSignin
    <2>2. /\ FlowsStay /\ Len(flows') = Len(flows) + 1
          /\ flows'[Len(flows) + 1] = [tenant |-> t, browser |-> b, live |-> TRUE]
      BY <2>1, BeginStays
    <2>3. InvitesStay /\ UsersStay
      BY <1>0, <2>1, Alone DEF tables
    <2> QED BY SMTT(30), <2>1, <2>2, <2>3
  <1>2. LinksMatch' /\ LinksStay
    BY <1>0, <1>1, LinksKept DEF tables
  <1>3. /\ jar' \in [Browser -> [state : 0..Len(flows'), invite : 0..Len(invites')]]
        /\ jar'[b].state = Len(flows) + 1 /\ \A a \in Browser : a # b => jar'[a] = jar[a]
    <2>1. Len(flows) + 1 \in 0..Len(flows')
      BY SMTT(30), <1>1, Types
    <2> QED BY <1>1, <2>1, Widened DEF startGoogleSignin
  <1>4. SignInTypeOK'
    BY <1>0, <1>1, <1>3, Typed DEF tables
  <1>5. FlowsOwned'
    <2>1. \A f \in Flow : flows'[f].browser = flows[f].browser
      BY <1>1 DEF FlowsStay
    <2>2. \A a \in Browser : jar[a].state \in 0..Len(flows) /\ session[a].flow \in 0..Len(flows)
      BY <1>1 DEF SignInTypeOK
    <2>3. \A c \in Callback : Running(c) => cb[c].flow \in Flow
      BY <1>1, Types DEF CallbackRow
    <2>4. \A a \in Browser : jar'[a].state # 0 => flows'[jar'[a].state].browser = a
      <3>1. \A f \in 0..Len(flows) : f # 0 => f \in Flow
        <4>1. Flow = 1..Len(flows) /\ Len(flows) \in Nat
          BY <1>1, Types
        <4> QED BY ONLY SMTT(30), <4>1
      <3>2. \A a \in Browser : a # b /\ jar'[a].state # 0 =>
              jar[a].state \in Flow /\ flows[jar[a].state].browser = a
        BY <3>1, <2>2, <1>3 DEF SignInInv, FlowsOwned
      <3>3. flows'[jar'[b].state].browser = b
        BY <1>1, <1>3
      <3>4. ASSUME NEW a \in Browser, jar'[a].state # 0
            PROVE  flows'[jar'[a].state].browser = a
        <4>1. CASE a = b
          BY <4>1, <3>3
        <4>2. CASE a # b
          <5>1. jar'[a] = jar[a]
            BY <4>2, <1>3
          <5>2. jar[a].state \in Flow /\ flows[jar[a].state].browser = a
            BY <3>2, <3>4, <4>2
          <5> QED BY <5>1, <5>2, <2>1
        <4> QED BY <4>1, <4>2
      <3> QED BY <3>4
    <2>5. \A a \in Browser : session[a].flow # 0 => flows'[session[a].flow].browser = a
      BY SMTT(30), <2>1, <2>2, <1>1, Types DEF SignInInv, FlowsOwned
    <2> QED BY <2>1, <2>3, <2>4, <2>5, <1>0 DEF SignInInv, FlowsOwned, Running
  <1>6. StatesSpentOnce'
    BY <1>0, <1>1, SpentKept DEF Spending
  <1>7. UsersFound'
    BY <1>0, <1>1, <1>2, FoundKept
  <1>8. InvitesMatch'
    BY <1>0, <1>1, <1>2, MatchKept DEF tables, User, Invite
  <1> QED BY <1>2, <1>4, <1>5, <1>6, <1>7, <1>8 DEF SignInInv

\* A step in the browser that touches the cookies of one handshake only.
LEMMA CookieKeeps ==
  ASSUME SignInInv, NEW b \in Browser, NEW r \in [state : 0..Len(flows), invite : 0..Len(invites)],
         r.state \in {0, jar[b].state}, jar' = [jar EXCEPT ![b] = r],
         UNCHANGED <<tables, flows, session, cb, minted>>, UNCHANGED events \/ Happens
  PROVE  SignInInv'
  <1>1. SignInTypeOK /\ FlowsStay /\ InvitesStay /\ UsersStay
    BY Alone DEF SignInInv, tables
  <1>2. LinksMatch' /\ LinksStay
    BY <1>1, LinksKept DEF tables
  <1>3. jar' \in [Browser -> [state : 0..Len(flows'), invite : 0..Len(invites')]]
        /\ \A a \in Browser : jar'[a].state \in {0, jar[a].state}
    BY <1>1 DEF SignInTypeOK, tables
  <1>4. SignInTypeOK'
    BY <1>1, <1>3, Typed DEF tables
  <1>5. FlowsOwned'
    BY <1>1, <1>3, OwnedKept DEF SameCallback, Running
  <1>6. StatesSpentOnce'
    BY <1>1, SpentKept DEF Spending
  <1>7. UsersFound'
    BY <1>1, <1>2, FoundKept
  <1>8. InvitesMatch'
    BY <1>1, <1>2, MatchKept DEF tables, User, Invite
  <1> QED BY <1>2, <1>4, <1>5, <1>6, <1>7, <1>8 DEF SignInInv

\* Google sends the browser back: a callback of the flow in its cookie, or none.
LEMMA CompleteKeeps ==
  ASSUME SignInInv, NEW c \in Callback, NEW b \in Browser, NEW f \in Flow, NEW a \in GoogleAccount,
         completeGoogleSignin(c, b, f, a)
  PROVE  SignInInv'
  <1>1. CASE jar[b].state = f
    <2> DEFINE r == [at |-> "consume", browser |-> b, flow |-> f, acct |-> a,
                     invite |-> jar[b].invite, user |-> 0, fresh |-> FALSE]
    <2>0. UNCHANGED <<tables, flows, jar, session, minted, events>> /\ cb' = [cb EXCEPT ![c] = r]
      BY <1>1 DEF completeGoogleSignin
    <2>1. SignInTypeOK /\ FlowsStay /\ InvitesStay /\ UsersStay
      BY <2>0, Alone DEF SignInInv, tables
    <2>2. LinksMatch' /\ LinksStay
      BY <2>0, <2>1, LinksKept DEF tables
    <2>3. r \in CallbackRow
      BY <2>1, Types, SMTT(30) DEF SignInTypeOK, CallbackRow, At
    <2>4. SignInTypeOK'
      BY <2>0, <2>1, <2>3, Typed, Widened DEF tables
    <2>5. DOMAIN cb = Callback /\ cb'[c] = r /\ \A d \in Callback : d # c => cb'[d] = cb[d]
      BY <2>0, <2>1 DEF SignInTypeOK
    <2>6. FlowsOwned'
      <3>1. flows[r.flow].browser = r.browser
        BY <1>1, <2>1, Types, SMTT(30) DEF SignInInv, FlowsOwned
      <3>2. \A d \in Callback : cb'[d] # NoCallback => flows[cb'[d].flow].browser = cb'[d].browser
        BY SMTT(30), <3>1, <2>5 DEF SignInInv, FlowsOwned, Running
      <3> QED BY <3>2, <2>0 DEF SignInInv, FlowsOwned, Running
    <2>7. StatesSpentOnce'
      BY <2>0, <2>1, <2>5, SpentKept DEF Spending
    <2>8. UsersFound'
      BY <2>0, <2>1, <2>2, <2>5, FoundKept
    <2>9. InvitesMatch'
      BY <2>0, <2>1, <2>2, MatchKept DEF tables, User, Invite
    <2> QED BY <2>2, <2>4, <2>6, <2>7, <2>8, <2>9 DEF SignInInv
  <1>2. CASE jar[b].state # f
    <2>1. NoCookies \in [state : 0..Len(flows), invite : 0..Len(invites)] /\ NoCookies.state = 0
      BY SMTT(30), Types DEF SignInInv, NoCookies
    <2>2. jar' = [jar EXCEPT ![b] = NoCookies] /\ UNCHANGED <<tables, flows, session, cb, minted, events>>
      BY <1>2 DEF completeGoogleSignin
    <2> QED BY <2>1, <2>2, CookieKeeps
  <1> QED BY <1>1, <1>2

\* The answer: the session cookies of a browser come from its own callback.
LEMMA AnswerKeeps ==
  ASSUME SignInInv, NEW c \in Callback, Running(c), AnswerCallback(c)
  PROVE  SignInInv'
  <1>0. /\ UNCHANGED <<tables, flows, minted>>
        /\ UNCHANGED events \/ Happens
        /\ jar' = [jar EXCEPT ![cb[c].browser] = NoCookies] /\ cb' = [cb EXCEPT ![c] = NoCallback]
        /\ \/ UNCHANGED session
           \/ session' = [session EXCEPT ![cb[c].browser] = [user |-> cb[c].user, flow |-> cb[c].flow]]
    BY DEF AnswerCallback
  <1>1. SignInTypeOK /\ FlowsStay /\ InvitesStay /\ UsersStay
    BY <1>0, Alone DEF SignInInv, tables
  <1>2. LinksMatch' /\ LinksStay
    BY <1>0, <1>1, LinksKept DEF tables
  <1>3. /\ cb[c].browser \in Browser /\ cb[c].flow \in Flow /\ cb[c].user \in 0..Len(users)
        /\ flows[cb[c].flow].browser = cb[c].browser
    BY <1>1, Types DEF SignInInv, CallbackRow, FlowsOwned
  <1>4. jar' \in [Browser -> [state : 0..Len(flows'), invite : 0..Len(invites')]]
        /\ \A b \in Browser : jar'[b].state \in {0, jar[b].state}
    <2>1. NoCookies \in [state : 0..Len(flows), invite : 0..Len(invites)] /\ NoCookies.state = 0
      BY SMTT(30), <1>1, Types DEF NoCookies
    <2> QED BY <2>1, <1>0, <1>1, <1>3 DEF SignInTypeOK, tables
  <1>5. session' \in [Browser -> [user : 0..Len(users'), flow : 0..Len(flows')]]
        /\ \A b \in Browser : session'[b].flow = session[b].flow
                              \/ (b = cb[c].browser /\ session'[b].flow = cb[c].flow)
    <2>1. session \in [Browser -> [user : 0..Len(users), flow : 0..Len(flows)]]
          /\ users' = users /\ flows' = flows
      BY <1>0, <1>1 DEF SignInTypeOK, tables
    <2>2. PICK r : r = [user |-> cb[c].user, flow |-> cb[c].flow]
      OBVIOUS
    <2>3. r \in [user : 0..Len(users), flow : 0..Len(flows)] /\ r.flow = cb[c].flow
      <3>1. cb[c].flow \in 0..Len(flows)
        BY SMTT(30), <1>1, <1>3, Types
      <3> QED BY <3>1, <2>2, <1>3
    <2>4. CASE session' = [session EXCEPT ![cb[c].browser] = r]
      <3>1. session' \in [Browser -> [user : 0..Len(users), flow : 0..Len(flows)]]
        BY <2>1, <2>3, <2>4, <1>3
      <3>2. \A b \in Browser : session'[b] = IF b = cb[c].browser THEN r ELSE session[b]
        BY <2>1, <2>4
      <3> QED BY <3>1, <3>2, <2>1, <2>3
    <2> QED BY <2>1, <2>2, <2>4, <1>0
  <1>6. SignInTypeOK'
    BY <1>0, <1>1, <1>4, <1>5, Typed DEF tables
  <1>7. DOMAIN cb = Callback /\ cb'[c] = NoCallback /\ \A d \in Callback : d # c => cb'[d] = cb[d]
    BY <1>0, <1>1 DEF SignInTypeOK
  <1>8. FlowsOwned'
    <2>1. \A d \in Callback : cb'[d] # NoCallback => flows[cb'[d].flow].browser = cb'[d].browser
      BY SMTT(30), <1>7 DEF SignInInv, FlowsOwned, Running
    <2>2. \A b \in Browser : session'[b].flow # 0 => flows[session'[b].flow].browser = b
      BY <1>3, <1>5 DEF SignInInv, FlowsOwned
    <2>3. \A b \in Browser : jar'[b].state # 0 => flows[jar'[b].state].browser = b
      BY <1>4 DEF SignInInv, FlowsOwned
    <2>4. flows' = flows
      BY <1>0
    <2>5. \A d \in Callback : Running(d)' => flows[cb'[d].flow].browser = cb'[d].browser
      BY <2>1 DEF Running
    <2> QED BY <2>2, <2>3, <2>4, <2>5 DEF FlowsOwned
  <1>9. cb'[c].at = "idle"
    BY SMTT(30), <1>7 DEF NoCallback
  <1>10. StatesSpentOnce'
    BY <1>0, <1>1, <1>7, <1>9, SpentKept DEF Spending
  <1>11. UsersFound'
    BY <1>0, <1>1, <1>2, <1>7, <1>9, FoundKept
  <1>12. InvitesMatch'
    BY <1>0, <1>1, <1>2, MatchKept DEF tables, User, Invite
  <1> QED BY <1>2, <1>6, <1>8, <1>10, <1>11, <1>12 DEF SignInInv

\* Proceed changes where the callback stands and nothing else of it.
LEMMA Proceeds ==
  ASSUME SignInTypeOK, NEW c \in Callback, Running(c), NEW x \in At, Proceed(c, x)
  PROVE  \E r \in CallbackRow :
              /\ cb' = [cb EXCEPT ![c] = r] /\ r.at = x /\ r.user = cb[c].user
              /\ r.flow = cb[c].flow /\ r.browser = cb[c].browser /\ r.acct = cb[c].acct
  <1>1. cb[c] \in CallbackRow /\ DOMAIN cb = Callback
    BY Types DEF SignInTypeOK
  <1>2. [cb[c] EXCEPT !.at = x] \in CallbackRow
    BY <1>1 DEF CallbackRow
  <1>3. cb' = [cb EXCEPT ![c] = [cb[c] EXCEPT !.at = x]]
    BY <1>1 DEF Proceed
  <1> QED BY <1>1, <1>2, <1>3 DEF CallbackRow

\* A callback that goes on with a user it has found.
LEMMA ProceedsAs ==
  ASSUME SignInTypeOK, NEW c \in Callback, Running(c), NEW x \in At, NEW u \in User,
         ProceedAs(c, x, u)
  PROVE  \E r \in CallbackRow :
              /\ cb' = [cb EXCEPT ![c] = r] /\ r.at = x /\ r.user = u
              /\ r.flow = cb[c].flow /\ r.browser = cb[c].browser /\ r.acct = cb[c].acct
  <1>1. cb[c] \in CallbackRow /\ DOMAIN cb = Callback /\ u \in 0..Len(users)
    BY SMTT(30), Types DEF SignInTypeOK
  <1>2. [cb[c] EXCEPT !.at = x, !.user = u] \in CallbackRow
    BY <1>1 DEF CallbackRow
  <1>3. cb' = [cb EXCEPT ![c] = [cb[c] EXCEPT !.at = x, !.user = u]]
    BY <1>1 DEF ProceedAs
  <1> QED BY <1>1, <1>2, <1>3 DEF CallbackRow

\* A callback that is rejected.
LEMMA Rejected ==
  ASSUME SignInInv, NEW c \in Callback, Running(c), Proceed(c, "rejected"),
         UNCHANGED <<tables, flows, session, jar, minted>>, UNCHANGED events \/ Happens
  PROVE  SignInInv'
  <1>1. PICK r \in CallbackRow :
              /\ cb' = [cb EXCEPT ![c] = r] /\ r.at = "rejected" /\ r.user = cb[c].user
              /\ r.flow = cb[c].flow /\ r.browser = cb[c].browser /\ r.acct = cb[c].acct
    BY Proceeds DEF SignInInv, At
  <1> QED BY <1>1, Moved

\* findByProviderSub finds the pinned user.
LEMMA SubPins ==
  ASSUME SignInInv, NEW t, NEW a, NEW l \in findByProviderSub(t, a)
  PROVE  Pinned(users, links, t, a, l.user) /\ l.user \in User
  <1>1. /\ l \in links /\ l.tenant = t /\ l.sub = a /\ l.user \in User
        /\ l \in [tenant : Tenant, sub : GoogleAccount, user : User]
    BY DEF findByProviderSub, SignInInv, SignInTypeOK
  <1>2. l = [tenant |-> t, sub |-> a, user |-> l.user]
    BY <1>1
  <1> QED BY <1>1, <1>2 DEF Pinned, SignInInv, LinksMatch, User

\* The lookups: the account among the identities, the address among the users, the status.
LEMMA LookupKeeps ==
  ASSUME SignInInv, NEW c \in Callback, Running(c), FindIdentity(c) \/ FindUser(c) \/ LoadUser(c)
  PROVE  SignInInv'
  <1>0. UNCHANGED <<tables, flows, session, jar, minted>> /\ SignInTypeOK
    BY DEF FindIdentity, FindUser, LoadUser, SignInInv
  <1>1. CASE FindIdentity(c)
    <2>1. Spending(c)
      BY <1>1 DEF FindIdentity, Spending
    <2>2. CASE exchangeFails(c)
      BY <2>2, <1>0, Rejected DEF exchangeFails
    <2>3. CASE Proceed(c, "email") /\ UNCHANGED events
      <3>1. PICK r \in CallbackRow :
              /\ cb' = [cb EXCEPT ![c] = r] /\ r.at = "email" /\ r.user = cb[c].user
              /\ r.flow = cb[c].flow /\ r.browser = cb[c].browser /\ r.acct = cb[c].acct
        BY <2>3, <1>0, Proceeds DEF At
      <3> QED BY <3>1, <2>1, <2>3, <1>0, Moved
    <2>4. CASE \E l \in findByProviderSub(TenantOf(c), cb[c].acct) :
                 ProceedAs(c, "load", l.user) /\ UNCHANGED events
      <3>1. PICK l \in findByProviderSub(TenantOf(c), cb[c].acct) :
              ProceedAs(c, "load", l.user) /\ UNCHANGED events
        BY <2>4
      <3>2. Pinned(users, links, TenantOf(c), cb[c].acct, l.user) /\ l.user \in User
        BY SubPins
      <3>3. PICK r \in CallbackRow :
              /\ cb' = [cb EXCEPT ![c] = r] /\ r.at = "load" /\ r.user = l.user
              /\ r.flow = cb[c].flow /\ r.browser = cb[c].browser /\ r.acct = cb[c].acct
        <4>1. "load" \in At /\ ProceedAs(c, "load", l.user)
          BY <3>1 DEF At
        <4> QED BY SMTT(30), <4>1, <3>2, <1>0, ProceedsAs
      <3> QED BY <3>1, <3>2, <3>3, <2>1, <1>0, Moved
    <2> QED BY <2>2, <2>3, <2>4, <1>1 DEF FindIdentity
  <1>2. CASE FindUser(c)
    <2>1. Spending(c) /\ UNCHANGED events
      BY <1>2 DEF FindUser, Spending
    <2>2. CASE \E u \in findCredentialsByEmail(TenantOf(c), EmailOf[cb[c].acct]) : ProceedAs(c, "link", u)
      <3>1. PICK u \in User : users[u].tenant = TenantOf(c) /\ ProceedAs(c, "link", u)
        BY <2>2 DEF findCredentialsByEmail
      <3>2. PICK r \in CallbackRow :
              /\ cb' = [cb EXCEPT ![c] = r] /\ r.at = "link" /\ r.user = u
              /\ r.flow = cb[c].flow /\ r.browser = cb[c].browser /\ r.acct = cb[c].acct
        <4>1. "link" \in At /\ ProceedAs(c, "link", u)
          BY <3>1 DEF At
        <4> QED BY SMTT(30), <4>1, <1>0, ProceedsAs
      <3> QED BY <3>1, <3>2, <2>1, <1>0, Moved
    <2>3. CASE Proceed(c, "rejected")
      BY <2>1, <2>3, <1>0, Rejected
    <2>4. CASE /\ cb[c].invite # 0
               /\ cb' = [cb EXCEPT ![c].at = "provision", ![c].fresh = ~invites[cb[c].invite].lapsed]
      <3>1. cb[c] \in CallbackRow /\ DOMAIN cb = Callback /\ cb[c].invite \in Invite
        BY SMTT(30), <2>4, <1>0, Types DEF SignInTypeOK, CallbackRow
      <3>2. PICK n \in BOOLEAN : n = ~invites[cb[c].invite].lapsed
        OBVIOUS
      <3>3. PICK r \in CallbackRow : r = [cb[c] EXCEPT !.at = "provision", !.fresh = n]
        BY <3>1 DEF CallbackRow, At
      <3>4. cb' = [cb EXCEPT ![c] = r]
        BY <3>1, <3>2, <3>3, <2>4
      <3>5. r.at = "provision" /\ r.invite \in Invite /\ r.flow = cb[c].flow /\ r.browser = cb[c].browser /\ r.acct = cb[c].acct
        BY <3>1, <3>3 DEF CallbackRow
      <3> QED BY <3>4, <3>5, <2>1, <1>0, Moved
    <2> QED BY <2>2, <2>3, <2>4, <1>2 DEF FindUser
  <1>3. CASE LoadUser(c)
    <2>1. Spending(c) /\ UNCHANGED events /\ Pinned(users, links, TenantOf(c), cb[c].acct, cb[c].user)
      BY <1>3 DEF LoadUser, Spending, SignInInv, UsersFound
    <2>2. CASE Proceed(c, "rejected")
      BY <2>1, <2>2, <1>0, Rejected
    <2>3. CASE Proceed(c, "mint")
      <3>1. PICK r \in CallbackRow :
              /\ cb' = [cb EXCEPT ![c] = r] /\ r.at = "mint" /\ r.user = cb[c].user
              /\ r.flow = cb[c].flow /\ r.browser = cb[c].browser /\ r.acct = cb[c].acct
        BY <2>3, <1>0, Proceeds DEF At
      <3> QED BY <3>1, <2>1, <1>0, Moved
    <2> QED BY <2>2, <2>3, <1>3 DEF LoadUser
  <1> QED BY <1>1, <1>2, <1>3

\* The state leaves the store in the step that starts to spend it.
LEMMA ConsumeKeeps ==
  ASSUME SignInInv, NEW c \in Callback, Running(c), ConsumeState(c)
  PROVE  SignInInv'
  <1>0. UNCHANGED <<tables, jar, session, minted, events>> /\ SignInTypeOK /\ cb[c] \in CallbackRow
        /\ cb[c].at = "consume"
    BY Types DEF ConsumeState, SignInInv
  <1>1. CASE ~flows[cb[c].flow].live
    BY <1>0, <1>1, Rejected DEF ConsumeState
  <1>2. CASE flows[cb[c].flow].live
    <2>0. cb[c].flow \in Flow /\ flows' = [flows EXCEPT ![cb[c].flow].live = FALSE] /\ Proceed(c, "exchange")
      BY <1>0, <1>2 DEF ConsumeState, CallbackRow
    <2>1. FlowsStay /\ ~flows'[cb[c].flow].live /\ InvitesStay /\ UsersStay
      BY <1>0, <2>0, SpendStays, Alone DEF tables
    <2>2. LinksMatch' /\ LinksStay
      BY <1>0, <2>1, LinksKept DEF tables
    <2>3. PICK r \in CallbackRow :
              /\ cb' = [cb EXCEPT ![c] = r] /\ r.at = "exchange" /\ r.user = cb[c].user
              /\ r.flow = cb[c].flow /\ r.browser = cb[c].browser /\ r.acct = cb[c].acct
      BY <1>0, <2>0, Proceeds DEF At
    <2>4. SignInTypeOK'
      BY <1>0, <2>1, <2>3, Typed, Widened DEF tables
    <2>5. DOMAIN cb = Callback /\ cb'[c] = r /\ \A d \in Callback : d # c => cb'[d] = cb[d]
      BY <1>0, <2>3 DEF SignInTypeOK
    <2>6. FlowsOwned'
      BY <1>0, <2>1, <2>3, <2>5, OwnedKept DEF SameCallback, Running
    <2>7. StatesSpentOnce'
      <3>1. /\ \A d \in Callback : Spending(d) => cb[d].flow \in Flow /\ cb[d].flow # cb[c].flow
            /\ \A m \in minted : m.flow \in Flow /\ m.flow # cb[c].flow
        BY <1>0, <1>2, Types DEF SignInInv, SignInTypeOK, StatesSpentOnce, Spending, CallbackRow
      <3>2. \A d \in Callback : Spending(d)' => d = c \/ (Spending(d) /\ cb'[d] = cb[d])
        BY <2>5 DEF Spending
      <3>3. cb'[c].flow = cb[c].flow
        BY <2>3, <2>5
      <3>4. \A f \in Flow : flows'[f].live => flows[f].live
        BY <2>1 DEF FlowsStay
      <3>5. \A d \in Callback : Spending(d)' =>
              ~flows'[cb'[d].flow].live /\ \A m \in minted : m.flow # cb'[d].flow
        <4>1. SUFFICES ASSUME NEW d \in Callback, Spending(d)'
                       PROVE  ~flows'[cb'[d].flow].live /\ \A m \in minted : m.flow # cb'[d].flow
          OBVIOUS
        <4>2. CASE d = c
          BY <4>2, <3>1, <3>3, <2>1
        <4>3. CASE Spending(d) /\ cb'[d] = cb[d]
          <5>1. ~flows[cb[d].flow].live /\ \A m \in minted : m.flow # cb[d].flow
            BY <4>3 DEF SignInInv, StatesSpentOnce
          <5> QED BY <4>3, <5>1, <3>1, <3>4
        <4> QED BY <4>1, <4>2, <4>3, <3>2
      <3>6. \A d, e \in Callback : (Spending(d)' /\ Spending(e)' /\ cb'[d].flow = cb'[e].flow) => d = e
        BY <3>1, <3>2, <3>3 DEF SignInInv, StatesSpentOnce
      <3>7. \A m \in minted : ~flows'[m.flow].live
        BY <3>1, <3>4 DEF SignInInv, StatesSpentOnce
      <3> QED BY <3>5, <3>6, <3>7, <1>0 DEF SignInInv, StatesSpentOnce
    <2>8. UsersFound'
      BY <1>0, <2>1, <2>2, <2>3, <2>5, FoundKept
    <2>9. InvitesMatch'
      BY <1>0, <2>1, <2>2, MatchKept DEF tables, User, Invite
    <2> QED BY <2>2, <2>4, <2>6, <2>7, <2>8, <2>9 DEF SignInInv
  <1> QED BY <1>1, <1>2

\* The session is minted for the pinned user, and no callback spends the state any more.
LEMMA MintKeeps ==
  ASSUME SignInInv, NEW c \in Callback, Running(c), mintSession(c)
  PROVE  SignInInv'
  <1>0. UNCHANGED <<tables, flows, jar, session, events>> /\ SignInTypeOK /\ cb[c] \in CallbackRow
        /\ cb[c].at = "mint" /\ Pinned(users, links, TenantOf(c), cb[c].acct, cb[c].user)
    BY Types DEF mintSession, SignInInv, UsersFound
  <1>1. CASE users[cb[c].user].status = "deleted"
    BY <1>0, <1>1, Rejected DEF mintSession
  <1>2. CASE users[cb[c].user].status # "deleted"
    <2>0. PICK m : m = [flow |-> cb[c].flow, user |-> cb[c].user, acct |-> cb[c].acct]
      OBVIOUS
    <2>1. /\ minted' = minted \cup {m} /\ Proceed(c, "granted")
          /\ m \in [flow : Flow, user : User, acct : GoogleAccount]
          /\ m.flow = cb[c].flow /\ m.user = cb[c].user /\ m.acct = cb[c].acct
      BY <1>0, <1>2, <2>0 DEF mintSession, CallbackRow, Pinned, User
    <2>2. FlowsStay /\ InvitesStay /\ UsersStay
      BY <1>0, Alone DEF tables
    <2>3. LinksMatch' /\ LinksStay
      BY <1>0, <2>2, LinksKept DEF tables
    <2>4. PICK r \in CallbackRow :
              /\ cb' = [cb EXCEPT ![c] = r] /\ r.at = "granted" /\ r.user = cb[c].user
              /\ r.flow = cb[c].flow /\ r.browser = cb[c].browser /\ r.acct = cb[c].acct
      BY <1>0, <2>1, Proceeds DEF At
    <2>5. DOMAIN cb = Callback /\ cb'[c] = r /\ \A d \in Callback : d # c => cb'[d] = cb[d]
      BY <1>0, <2>4 DEF SignInTypeOK
    <2>6. SignInTypeOK'
      <3>1. minted' \subseteq [flow : Flow', user : User', acct : GoogleAccount]
        BY <1>0, <2>1, <2>2, Widened
      <3> QED BY <3>1, <1>0, <2>2, <2>4, Typed, Widened DEF tables
    <2>7. FlowsOwned'
      BY <1>0, <2>2, <2>4, <2>5, OwnedKept DEF SameCallback, Running
    <2>8. StatesSpentOnce'
      <3>1. Spending(c) /\ ~flows[cb[c].flow].live /\ \A n \in minted : n.flow # cb[c].flow
        BY <1>0 DEF SignInInv, StatesSpentOnce, Spending
      <3>2. \A d \in Callback : Spending(d)' => d # c /\ Spending(d) /\ cb'[d] = cb[d]
        BY <2>4, <2>5 DEF Spending
      <3>3. \A d \in Callback : Spending(d)' =>
              ~flows[cb'[d].flow].live /\ \A n \in minted' : n.flow # cb'[d].flow
        BY <3>1, <3>2, <2>1, SMTT(30) DEF SignInInv, StatesSpentOnce
      <3>4. \A d, e \in Callback : (Spending(d)' /\ Spending(e)' /\ cb'[d].flow = cb'[e].flow) => d = e
        BY <3>2 DEF SignInInv, StatesSpentOnce
      <3>5. (\A n \in minted' : ~flows[n.flow].live)
            /\ \A m1, m2 \in minted' : m1.flow = m2.flow => m1 = m2
        BY <3>1, <2>1 DEF SignInInv, StatesSpentOnce
      <3> QED BY <3>3, <3>4, <3>5, <1>0 DEF StatesSpentOnce
    <2>9. UsersFound'
      <3>1. \A n \in minted' : Pinned(users, links, flows[n.flow].tenant, n.acct, n.user)
        BY <1>0, <2>1 DEF SignInInv, UsersFound, TenantOf
      <3>2. \A d \in Callback :
              /\ cb'[d].at = "provision" => cb'[d].invite \in Invite
              /\ cb'[d].at = "link" => cb'[d].user \in User /\ users[cb'[d].user].tenant = flows[cb'[d].flow].tenant
              /\ cb'[d].at \in {"load", "mint", "granted"} =>
                    Pinned(users, links, flows[cb'[d].flow].tenant, cb'[d].acct, cb'[d].user)
        BY <1>0, <2>4, <2>5 DEF SignInInv, UsersFound, TenantOf
      <3> QED BY <3>1, <3>2, <1>0 DEF UsersFound, TenantOf, tables, User, Invite
    <2>10. InvitesMatch'
      BY <1>0, <2>2, <2>3, MatchKept DEF tables, User, Invite
    <2> QED BY <2>3, <2>6, <2>7, <2>8, <2>9, <2>10 DEF SignInInv
  <1> QED BY <1>1, <1>2

\* The first login of a user: an account that is linked already answers for itself; else
\* the link is added, if the user has none and still exists.
LEMMA LinkKeeps ==
  ASSUME SignInInv, NEW c \in Callback, Running(c), LinkFirst(c)
  PROVE  SignInInv'
  <1>0. /\ UNCHANGED <<invites, users, flows, jar, session, minted, events>>
        /\ SignInTypeOK /\ cb[c] \in CallbackRow /\ cb[c].at = "link"
        /\ cb[c].user \in User /\ users[cb[c].user].tenant = TenantOf(c)
    BY Types DEF LinkFirst, SignInInv, UsersFound
  <1>1. CASE findByProviderSub(TenantOf(c), cb[c].acct) # {}
    <2>1. PICK l \in findByProviderSub(TenantOf(c), cb[c].acct) :
            l = CHOOSE k \in findByProviderSub(TenantOf(c), cb[c].acct) : TRUE
      BY <1>1
    <2>2. links' = links /\ ProceedAs(c, "load", l.user)
      BY <1>1, <2>1 DEF LinkFirst, linkFirstWithClient
    <2>3. Pinned(users, links, TenantOf(c), cb[c].acct, l.user) /\ l.user \in User
      BY SubPins
    <2>4. PICK r \in CallbackRow :
              /\ cb' = [cb EXCEPT ![c] = r] /\ r.at = "load" /\ r.user = l.user
              /\ r.flow = cb[c].flow /\ r.browser = cb[c].browser /\ r.acct = cb[c].acct
      <3>1. "load" \in At /\ ProceedAs(c, "load", l.user)
        BY <2>2 DEF At
      <3> QED BY SMTT(30), <3>1, <2>3, <1>0, ProceedsAs
    <2> QED BY <2>2, <2>3, <2>4, <1>0, Moved DEF Spending, tables
  <1>2. CASE /\ findByProviderSub(TenantOf(c), cb[c].acct) = {}
             /\ {l \in links : l.user = cb[c].user} # {} \/ users[cb[c].user].status = "deleted"
    <2>1. links' = links /\ Proceed(c, "rejected")
      BY <1>2 DEF LinkFirst, linkFirstWithClient
    <2> QED BY <2>1, <1>0, Rejected DEF tables
  <1>3. CASE /\ findByProviderSub(TenantOf(c), cb[c].acct) = {}
             /\ {l \in links : l.user = cb[c].user} = {} /\ users[cb[c].user].status # "deleted"
    <2>0. PICK l : l = [tenant |-> TenantOf(c), sub |-> cb[c].acct, user |-> cb[c].user]
      OBVIOUS
    <2>1. links' = links \cup {l} /\ ProceedAs(c, "load", cb[c].user)
      BY <1>3, <2>0 DEF LinkFirst, linkFirstWithClient
    <2>2. FlowsStay /\ InvitesStay /\ UsersStay /\ LinksStay
      BY <1>0, <2>1, Alone DEF LinksStay
    <2>3. PICK r \in CallbackRow :
              /\ cb' = [cb EXCEPT ![c] = r] /\ r.at = "load" /\ r.user = cb[c].user
              /\ r.flow = cb[c].flow /\ r.browser = cb[c].browser /\ r.acct = cb[c].acct
      <3>1. "load" \in At /\ ProceedAs(c, "load", cb[c].user)
        BY <2>1 DEF At
      <3> QED BY SMTT(30), <3>1, <1>0, ProceedsAs
    <2>4. DOMAIN cb = Callback /\ cb'[c] = r /\ \A d \in Callback : d # c => cb'[d] = cb[d]
      BY <1>0, <2>3 DEF SignInTypeOK
    <2>5. /\ l \in [tenant : Tenant, sub : GoogleAccount, user : User]
          /\ l.tenant = TenantOf(c) /\ l.sub = cb[c].acct /\ l.user = cb[c].user
      <3>1. TenantOf(c) \in Tenant /\ cb[c].acct \in GoogleAccount
        BY <1>0, Types DEF TenantOf, CallbackRow, FlowRow
      <3> QED BY <3>1, <2>0, <1>0
    <2>6. SignInTypeOK'
      <3>1. links' \subseteq [tenant : Tenant, sub : GoogleAccount, user : User']
        BY <1>0, <2>1, <2>2, <2>5, Widened
      <3> QED BY <3>1, <1>0, <2>2, <2>3, Typed, Widened
    <2>7. LinksMatch'
      <3>1. \A k \in links : ~(k.tenant = l.tenant /\ k.sub = l.sub) /\ k.user # l.user
        BY <1>3, <2>5 DEF findByProviderSub
      <3> QED BY SMTT(30), <3>1, <1>0, <1>3, <2>1, <2>5 DEF SignInInv, LinksMatch
    <2>8. FlowsOwned'
      BY <1>0, <2>2, <2>3, <2>4, OwnedKept DEF SameCallback, Running
    <2>9. StatesSpentOnce'
      BY <1>0, <2>2, <2>3, <2>4, SpentKept DEF Spending
    <2>10. UsersFound'
      <3>1. Pinned(users', links', TenantOf(c), cb[c].acct, cb'[c].user)
        BY <1>0, <2>0, <2>1, <2>3, <2>4 DEF Pinned, User
      <3> QED BY <3>1, <1>0, <2>2, <2>3, <2>4, FoundKept DEF SameCallback
    <2>11. InvitesMatch'
      BY <1>0, <2>2, MatchKept DEF User, Invite
    <2> QED BY <2>6, <2>7, <2>8, <2>9, <2>10, <2>11 DEF SignInInv
  <1> QED BY <1>1, <1>2, <1>3

\* The admin's changes and the passing of time: rows are added or changed, no callback and
\* no browser moves.
LEMMA AdminKeeps ==
  ASSUME SignInInv, FlowsStay, InvitesStay, UsersStay, LinksStay, LinksMatch',
         links' \subseteq links, UNCHANGED <<jar, session, cb, minted>>, UNCHANGED events \/ Happens,
         \A i \in Invite' : invites'[i].status = "consumed" =>
           i \in Invite /\ invites[i].status = "consumed",
         \A u \in User' : u \in User \/ users'[u].from = 0
  PROVE  SignInInv'
  <1>1. SignInTypeOK
    BY DEF SignInInv
  <1>2. SignInTypeOK'
    <2>1. links' \subseteq [tenant : Tenant, sub : GoogleAccount, user : User']
      BY <1>1, Widened
    <2> QED BY <1>1, <2>1, Typed
  <1>3. FlowsOwned'
    <2>1. \A c \in Callback : cb'[c] # NoCallback => SameCallback(c)
      BY DEF SameCallback, Running
    <2> QED BY <2>1, OwnedKept
  <1>4. StatesSpentOnce'
    BY SpentKept DEF Spending
  <1>5. UsersFound'
    BY FoundKept
  <1>6. InvitesMatch'
    BY MatchKept
  <1> QED BY <1>2, <1>3, <1>4, <1>5, <1>6 DEF SignInInv

\* A state passes its lifetime in the store.
LEMMA ExpiryKeeps ==
  ASSUME SignInInv, NEW f \in Flow, StateExpires(f)
  PROVE  SignInInv'
  <1>1. SignInTypeOK /\ UNCHANGED <<tables, jar, session, cb, minted>> /\ Happens
    BY DEF SignInInv, StateExpires
  <1>2. FlowsStay /\ InvitesStay /\ UsersStay
    BY <1>1, SpendStays, Alone DEF StateExpires, tables
  <1>3. LinksMatch' /\ LinksStay
    BY <1>1, <1>2, LinksKept DEF tables
  <1> QED BY <1>1, <1>2, <1>3, AdminKeeps DEF tables, User, Invite

\* A new invite is pending.
LEMMA CreateInviteKeeps ==
  ASSUME SignInInv, NEW t \in Tenant, NEW e \in Email, createInvite(t, e)
  PROVE  SignInInv'
  <1>1. SignInTypeOK /\ UNCHANGED <<users, links, flows, jar, session, cb, minted, events>>
    BY DEF SignInInv, createInvite
  <1>2. PICK r : r = [tenant |-> t, email |-> e, status |-> "pending", lapsed |-> FALSE]
    OBVIOUS
  <1>3. r \in InviteRow /\ r.status = "pending" /\ invites' = Append(invites, r)
    BY <1>2 DEF InviteRow, createInvite
  <1>4. /\ invites' \in Seq(InviteRow) /\ Len(invites') = Len(invites) + 1
        /\ \A i \in 1..Len(invites) : invites'[i] = invites[i]
        /\ invites'[Len(invites) + 1] = r
    BY SMTT(30), <1>1, <1>3, Types, RowAdded
  <1>5. InvitesStay
    BY SMTT(30), <1>1, <1>4, Types DEF InvitesStay
  <1>6. FlowsStay /\ UsersStay
    BY <1>1, <1>5, Alone
  <1>7. LinksMatch' /\ LinksStay
    BY <1>1, <1>6, LinksKept
  <1>8. \A i \in Invite' : invites'[i].status = "consumed" =>
          i \in Invite /\ invites[i].status = "consumed"
    <2>1. \A i \in Invite' : i \in Invite \/ i = Len(invites) + 1
      BY SMTT(30), <1>1, <1>4, Types DEF Invite
    <2> QED BY <2>1, <1>1, <1>3, <1>4, Types
  <1> QED BY <1>1, <1>5, <1>6, <1>7, <1>8, AdminKeeps DEF User

\* An invite that is not consumed is revoked or passes its expiry: it stays unconsumed.
LEMMA ChangeInviteKeeps ==
  ASSUME SignInInv, NEW i \in Invite, NEW r \in InviteRow, invites' = [invites EXCEPT ![i] = r],
         r.tenant = invites[i].tenant, r.email = invites[i].email,
         r.status = "consumed" <=> invites[i].status = "consumed",
         UNCHANGED <<users, links, flows, jar, session, cb, minted>>, Happens
  PROVE  SignInInv'
  <1>1. SignInTypeOK
    BY DEF SignInInv
  <1>2. /\ invites' \in Seq(InviteRow) /\ Len(invites') = Len(invites)
        /\ \A j \in 1..Len(invites) : invites'[j] = IF j = i THEN r ELSE invites[j]
    BY SMTT(30), <1>1, Types, RowChanged
  <1>3. InvitesStay
    BY SMTT(30), <1>1, <1>2, Types DEF InvitesStay
  <1>4. FlowsStay /\ UsersStay
    BY <1>1, <1>3, Alone
  <1>5. LinksMatch' /\ LinksStay
    BY <1>4, LinksKept
  <1>6. \A j \in Invite' : invites'[j].status = "consumed" =>
          j \in Invite /\ invites[j].status = "consumed"
    BY <1>1, <1>2, Types DEF Invite
  <1> QED BY <1>3, <1>4, <1>5, <1>6, AdminKeeps DEF User

\* The revoke of a pending invite, and the expiry of any.
LEMMA InviteKeeps ==
  ASSUME SignInInv, NEW i \in Invite, revokeInvite(i) \/ InviteExpires(i)
  PROVE  SignInInv'
  <1>1. /\ UNCHANGED <<users, links, flows, jar, session, cb, minted>> /\ Happens
        /\ SignInTypeOK /\ invites[i] \in InviteRow /\ DOMAIN invites = 1..Len(invites)
    BY SMTT(30), Types DEF SignInInv, revokeInvite, InviteExpires
  <1>2. CASE revokeInvite(i)
    <2>1. PICK r : r = [invites[i] EXCEPT !.status = "revoked"]
      OBVIOUS
    <2>2. /\ r \in InviteRow /\ r.tenant = invites[i].tenant /\ r.email = invites[i].email
          /\ r.status = "revoked" /\ invites[i].status = "pending"
      BY <1>1, <1>2, <2>1 DEF InviteRow, revokeInvite
    <2>3. invites' = [invites EXCEPT ![i] = r]
      BY <1>2, <2>1 DEF revokeInvite
    <2> QED BY <1>1, <2>2, <2>3, ChangeInviteKeeps
  <1>3. CASE InviteExpires(i)
    <2>1. PICK r : r = [invites[i] EXCEPT !.lapsed = TRUE]
      OBVIOUS
    <2>2. /\ r \in InviteRow /\ r.tenant = invites[i].tenant /\ r.email = invites[i].email
          /\ r.status = invites[i].status
      BY <1>1, <2>1 DEF InviteRow
    <2>3. invites' = [invites EXCEPT ![i] = r]
      BY <1>3, <2>1 DEF InviteExpires
    <2> QED BY <1>1, <2>2, <2>3, ChangeInviteKeeps
  <1> QED BY <1>2, <1>3

\* A new user row: the others stay.
LEMMA InsertStays ==
  ASSUME SignInTypeOK, InvitesStay, NEW t \in Tenant, NEW e \in Email, NEW i \in 0..Len(invites'),
         users' = insertUserWithMembership(t, e, i)
  PROVE  /\ UsersStay /\ Len(users') = Len(users) + 1
         /\ \A u \in User : users'[u] = users[u]
         /\ users'[Len(users) + 1] = [tenant |-> t, email |-> e, status |-> "active", from |-> i]
  <1>1. [tenant |-> t, email |-> e, status |-> "active", from |-> i] \in UserRow'
    BY DEF UserRow
  <1>2. users \in Seq(UserRow')
    <2>1. UserRow \subseteq UserRow'
      BY UserRowsWiden
    <2> QED BY <2>1, Types, Wider
  <1>3. /\ users' \in Seq(UserRow') /\ Len(users') = Len(users) + 1 /\ Len(users) \in Nat
        /\ \A u \in 1..Len(users) : users'[u] = users[u]
        /\ users'[Len(users) + 1] = [tenant |-> t, email |-> e, status |-> "active", from |-> i]
    BY SMTT(30), <1>1, <1>2, RowAdded DEF insertUserWithMembership
  <1>4. User = 1..Len(users) /\ Len(users') >= Len(users)
    BY SMTT(30), <1>3 DEF User
  <1>5. \A u \in User : users'[u] = users[u]
    BY <1>3, <1>4
  <1>6. UsersStay
    BY <1>3, <1>4, <1>5 DEF UsersStay
  <1> QED BY <1>3, <1>5, <1>6

\* A user created by the admin comes from no invite.
LEMMA CreateUserKeeps ==
  ASSUME SignInInv, NEW t \in Tenant, NEW e \in Email, createUser(t, e)
  PROVE  SignInInv'
  <1>1. /\ SignInTypeOK /\ UNCHANGED <<invites, links, flows, jar, session, cb, minted>> /\ Happens
        /\ users' = insertUserWithMembership(t, e, 0)
    BY DEF SignInInv, createUser
  <1>2. FlowsStay /\ InvitesStay /\ 0 \in 0..Len(invites')
    BY SMTT(30), <1>1, Alone, Types
  <1>3. /\ UsersStay /\ Len(users') = Len(users) + 1 /\ \A u \in User : users'[u] = users[u]
        /\ users'[Len(users) + 1].from = 0
    <2>1. /\ UsersStay /\ Len(users') = Len(users) + 1 /\ \A u \in User : users'[u] = users[u]
          /\ users'[Len(users) + 1] = [tenant |-> t, email |-> e, status |-> "active", from |-> 0]
      BY <1>1, <1>2, InsertStays
    <2> QED BY SMTT(30), <2>1
  <1>4. LinksMatch' /\ LinksStay
    BY <1>1, <1>3, LinksKept
  <1>5. \A u \in User' : u \in User \/ users'[u].from = 0
    <2>1. User' = 1..(Len(users) + 1) /\ User = 1..Len(users) /\ Len(users) \in Nat
      BY <1>1, <1>3, Types DEF User
    <2>2. \A u \in User' : u \in User \/ u = Len(users) + 1
      BY ONLY <2>1
    <2> QED BY <2>2, <1>3
  <1> QED BY <1>1, <1>2, <1>3, <1>4, <1>5, AdminKeeps DEF Invite

\* A user's status changes, for good if the user is deleted.
LEMMA StatusStays ==
  ASSUME SignInTypeOK, NEW u \in User, NEW s \in {"active", "suspended", "deleted"},
         users[u].status # "deleted", users' = [users EXCEPT ![u].status = s], UNCHANGED invites
  PROVE  /\ UsersStay /\ InvitesStay /\ Len(users') = Len(users) /\ users'[u].status = s
         /\ \A v \in User : v # u => users'[v] = users[v]
  <1>1. PICK r : r = [users[u] EXCEPT !.status = s]
    OBVIOUS
  <1>2. /\ r \in UserRow /\ r.status = s /\ r.tenant = users[u].tenant
        /\ r.email = users[u].email /\ r.from = users[u].from
    BY <1>1, Types DEF UserRow
  <1>3. users' = [users EXCEPT ![u] = r]
    BY <1>1
  <1>4. /\ users' \in Seq(UserRow) /\ Len(users') = Len(users)
        /\ \A v \in 1..Len(users) : users'[v] = IF v = u THEN r ELSE users[v]
    <2>1. u \in 1..Len(users) /\ users \in Seq(UserRow)
      BY Types
    <2>2. r \in UserRow
      BY <1>2
    <2>3. /\ [users EXCEPT ![u] = r] \in Seq(UserRow) /\ Len([users EXCEPT ![u] = r]) = Len(users)
          /\ \A v \in 1..Len(users) : [users EXCEPT ![u] = r][v] = IF v = u THEN r ELSE users[v]
      BY ONLY <2>1, <2>2, RowChanged
    <2> QED BY <1>3, <2>3
  <1>5. UserRow' = UserRow
    BY DEF UserRow
  <1>6. InvitesStay
    BY Alone
  <1> QED BY SMTT(30), <1>2, <1>4, <1>5, <1>6, Types DEF UsersStay

\* The admin suspends or reactivates a user.
LEMMA StatusKeeps ==
  ASSUME SignInInv, NEW u \in User, NEW s \in {"active", "suspended"}, setUserStatus(u, s)
  PROVE  SignInInv'
  <1>1. /\ SignInTypeOK /\ UNCHANGED <<invites, links, flows, jar, session, cb, minted>> /\ Happens
        /\ users[u].status # "deleted" /\ users' = [users EXCEPT ![u].status = s]
    BY DEF SignInInv, setUserStatus
  <1>2. /\ UsersStay /\ InvitesStay /\ Len(users') = Len(users) /\ users'[u].status # "deleted"
        /\ \A v \in User : v # u => users'[v] = users[v]
    BY <1>1, StatusStays
  <1>3. LinksMatch' /\ LinksStay
    BY <1>1, <1>2, LinksKept
  <1>4. FlowsStay
    BY <1>1, Alone
  <1> QED BY <1>1, <1>2, <1>3, <1>4, AdminKeeps DEF User, Invite

\* A user is deleted, and the user's links go in the same step.
LEMMA DeleteKeeps ==
  ASSUME SignInInv, NEW u \in User, deleteUser(u)
  PROVE  SignInInv'
  <1>1. /\ SignInTypeOK /\ UNCHANGED <<invites, flows, jar, session, cb, minted>> /\ Happens
        /\ users[u].status # "deleted" /\ users' = [users EXCEPT ![u].status = "deleted"]
        /\ links' = {l \in links : l.user # u}
    BY DEF SignInInv, deleteUser
  <1>2. /\ UsersStay /\ InvitesStay /\ Len(users') = Len(users) /\ users'[u].status = "deleted"
        /\ \A v \in User : v # u => users'[v] = users[v]
    BY <1>1, StatusStays
  <1>3. \A l \in links : l.user \in User
    BY <1>1 DEF SignInTypeOK
  <1>4. LinksMatch'
    BY <1>1, <1>2, <1>3 DEF SignInInv, LinksMatch
  <1>5. LinksStay
    BY <1>1, <1>2 DEF LinksStay
  <1>6. FlowsStay
    BY <1>1, Alone
  <1> QED BY <1>1, <1>2, <1>4, <1>5, <1>6, AdminKeeps DEF User, Invite

\* The acceptance of an invite: all of it, or a callback that ends.
LEMMA ProvisionKeeps ==
  ASSUME SignInInv, NEW c \in Callback, Running(c), provisionFromInvite(c)
  PROVE  SignInInv'
  <1> DEFINE t == TenantOf(c)
             e == EmailOf[cb[c].acct]
             hit == consumeWithClient(t, cb[c].invite, e, cb[c].fresh)
             ok == hit # {} /\ findCredentialsByEmail(t, e) = {} /\ findByProviderSub(t, cb[c].acct) = {}
  <1>0. /\ UNCHANGED <<flows, jar, session, minted, events>>
        /\ SignInTypeOK /\ cb[c] \in CallbackRow /\ cb[c].at = "provision"
        /\ cb[c].invite \in Invite
    BY Types DEF provisionFromInvite, SignInInv, UsersFound
  <1>1. CASE ~ok
    <2>1. UNCHANGED tables /\ Proceed(c, "rejected")
      BY <1>1 DEF provisionFromInvite
    <2> QED BY <2>1, <1>0, Rejected DEF tables
  <1>2. CASE ok
    <2> DEFINE i == cb[c].invite
    <2>1. PICK n : n = Len(users) + 1
      OBVIOUS
    <2>2. PICK l : l = [tenant |-> t, sub |-> cb[c].acct, user |-> n]
      OBVIOUS
    <2>3. /\ invites[i].tenant = t /\ invites[i].email = e /\ invites[i].status = "pending"
          /\ invites' = [invites EXCEPT ![i].status = "consumed"]
          /\ users' = insertUserWithMembership(t, e, i)
          /\ links' = links \cup {l} /\ ProceedAs(c, "load", n)
      BY <1>2, <2>1, <2>2 DEF provisionFromInvite, consumeWithClient
    <2>4. t \in Tenant /\ e \in Email /\ cb[c].acct \in GoogleAccount
      <3>1. cb[c].flow \in Flow /\ cb[c].acct \in GoogleAccount
        BY <1>0 DEF CallbackRow
      <3>2. t \in Tenant
        BY <1>0, <3>1, Types DEF TenantOf, FlowRow
      <3> QED BY <3>1, <3>2, SignInAssumption
    <2>5. /\ InvitesStay /\ Len(invites') = Len(invites) /\ invites'[i].status = "consumed"
          /\ \A j \in Invite : j # i => invites'[j] = invites[j]
      <3>1. PICK r : r = [invites[i] EXCEPT !.status = "consumed"]
        OBVIOUS
      <3>2. /\ r \in InviteRow /\ r.status = "consumed" /\ r.tenant = invites[i].tenant
            /\ r.email = invites[i].email
        BY <1>0, <3>1, Types DEF InviteRow
      <3>3. invites' = [invites EXCEPT ![i] = r]
        BY <2>3, <3>1
      <3>4. /\ invites' \in Seq(InviteRow) /\ Len(invites') = Len(invites)
            /\ \A j \in 1..Len(invites) : invites'[j] = IF j = i THEN r ELSE invites[j]
        <4>1. i \in 1..Len(invites) /\ invites \in Seq(InviteRow)
          BY <1>0, Types
        <4> QED BY SMTT(30), <3>2, <3>3, <4>1, RowChanged
      <3>5. i \in Invite /\ Invite = 1..Len(invites) /\ Len(invites) \in Nat
        BY <1>0, Types
      <3>6. \A j \in Invite : j # i => invites'[j] = invites[j]
        BY <3>4, <3>5
      <3>7. invites'[i] = r
        BY <3>4, <3>5
      <3>8. InvitesStay
        BY <3>2, <3>4, <3>5, <3>6, <3>7, SMTT(30) DEF InvitesStay
      <3> QED BY <3>2, <3>4, <3>6, <3>7, <3>8
    <2>6. /\ UsersStay /\ Len(users') = n /\ (\A u \in User : users'[u] = users[u])
          /\ users'[n] = [tenant |-> t, email |-> e, status |-> "active", from |-> i]
      <3>1. i \in 0..Len(invites')
        BY <1>0, <2>5, Types, SMTT(30)
      <3> QED BY <1>0, <2>1, <2>3, <2>4, <2>5, <3>1, InsertStays
    <2>7. /\ User' = User \cup {n} /\ n \notin User /\ n \in User'
          /\ Invite' = Invite /\ n \in 0..Len(users')
      <3>1. /\ User = 1..Len(users) /\ Len(users) \in Nat /\ n = Len(users) + 1
            /\ User' = 1..Len(users') /\ Len(users') = n
        BY <1>0, <2>1, <2>6, Types DEF User
      <3>2. /\ User' = User \cup {n} /\ n \notin User /\ n \in User' /\ n \in 0..Len(users')
        BY ONLY <3>1
      <3>3. Invite' = Invite
        BY <2>5 DEF Invite
      <3> QED BY <3>2, <3>3
    <2>8. FlowsStay /\ LinksStay
      BY <1>0, <2>3, Alone DEF LinksStay
    <2>9. PICK r \in CallbackRow' :
              /\ cb' = [cb EXCEPT ![c] = r] /\ r.at = "load" /\ r.user = n
              /\ r.flow = cb[c].flow /\ r.browser = cb[c].browser /\ r.acct = cb[c].acct
      <3>1. PICK r : r = [cb[c] EXCEPT !.at = "load", !.user = n]
        OBVIOUS
      <3>2. cb[c] \in CallbackRow'
        BY <1>0, <2>5, <2>6, <2>8, Widened
      <3>3. /\ r.at = "load" /\ r.user = n /\ r.flow = cb[c].flow
            /\ r.browser = cb[c].browser /\ r.acct = cb[c].acct
        BY <3>1, <3>2 DEF CallbackRow
      <3>4. r \in CallbackRow'
        BY <3>1, <3>2, <2>7 DEF CallbackRow, At
      <3>5. cb' = [cb EXCEPT ![c] = r]
        BY <2>3, <3>1, <1>0 DEF ProceedAs, SignInTypeOK
      <3> QED BY <3>3, <3>4, <3>5
    <2>10. DOMAIN cb = Callback /\ cb'[c] = r /\ \A d \in Callback : d # c => cb'[d] = cb[d]
      BY <1>0, <2>9 DEF SignInTypeOK
    <2>11. l.tenant = t /\ l.sub = cb[c].acct /\ l.user = n
      BY <2>2
    <2>12. \A k \in links : k.user \in User /\ k.user # n
      BY <1>0, <2>7 DEF SignInTypeOK
    <2>13. SignInTypeOK'
      <3>1. l \in [tenant : Tenant, sub : GoogleAccount, user : User']
        BY <2>2, <2>4, <2>7
      <3>2. links' \subseteq [tenant : Tenant, sub : GoogleAccount, user : User']
        BY <3>1, <1>0, <2>3, <2>5, <2>6, <2>8, Widened
      <3> QED BY <3>2, <1>0, <2>5, <2>6, <2>8, <2>9, Typed
    <2>14. LinksMatch'
      <3>1. \A k \in links : ~(k.tenant = l.tenant /\ k.sub = l.sub)
        BY <1>2, <2>11 DEF findByProviderSub
      <3>2. \A k \in links' : users'[k.user].tenant = k.tenant /\ users'[k.user].status # "deleted"
        <4>1. \A k \in links : users'[k.user] = users[k.user]
          BY <2>6, <2>12
        <4>2. users'[n].tenant = t /\ users'[n].status # "deleted"
          BY ONLY SMTT(30), <2>6
        <4>3. \A k \in links' : k \in links \/ k = l
          BY <2>3
        <4> QED BY <4>1, <4>2, <4>3, <2>11 DEF SignInInv, LinksMatch
      <3>3. \A k1, k2 \in links' :
              (k1.tenant = k2.tenant /\ (k1.sub = k2.sub \/ k1.user = k2.user)) => k1 = k2
        BY <3>1, <2>3, <2>11, <2>12 DEF SignInInv, LinksMatch
      <3> QED BY <3>2, <3>3 DEF LinksMatch
    <2>15. FlowsOwned'
      BY <1>0, <2>8, <2>9, <2>10, OwnedKept DEF SameCallback, Running
    <2>16. StatesSpentOnce'
      BY <1>0, <2>8, <2>9, <2>10, SpentKept DEF Spending
    <2>17. UsersFound'
      <3>1. Pinned(users', links', t, cb[c].acct, n)
        BY SMTT(30), <2>2, <2>3, <2>6, <2>7 DEF Pinned, User
      <3> QED BY <3>1, <1>0, <2>5, <2>6, <2>8, <2>9, <2>10, FoundKept DEF SameCallback
    <2>18. InvitesMatch'
      <3>0. /\ users'[n].from = i /\ users'[n].tenant = t /\ users'[n].email = e
            /\ invites'[i].tenant = t /\ invites'[i].email = e /\ i # 0
        BY <1>0, <2>3, <2>5, <2>6, Types, SMTT(30) DEF InvitesStay
      <3>1. \A u \in User : users[u].from # i
        BY <2>3, <3>0 DEF SignInInv, InvitesMatch
      <3>2. \A u \in User : users[u].from # 0 => users[u].from \in Invite
        BY SMTT(30), <1>0, Types DEF UserRow
      <3>3. ASSUME NEW u \in User', users'[u].from # 0
            PROVE  /\ invites'[users'[u].from].status = "consumed"
                   /\ invites'[users'[u].from].tenant = users'[u].tenant
                   /\ invites'[users'[u].from].email = users'[u].email
                   /\ users'[u].status = "deleted" \/ \E k \in links' : k.user = u
        <4>1. CASE u = n
          BY <4>1, <3>0, <2>3, <2>5, <2>11
        <4>2. CASE u \in User
          <5>1. users'[u] = users[u] /\ users[u].from \in Invite /\ users[u].from # i
            BY <4>2, <3>1, <3>2, <3>3, <2>6
          <5>2. invites'[users[u].from] = invites[users[u].from]
            BY <5>1, <2>5
          <5> QED BY SMTT(30), <5>1, <5>2, <4>2, <3>3, <2>3 DEF SignInInv, InvitesMatch
        <4> QED BY <4>1, <4>2, <2>7
      <3>4. \A u, v \in User' : (users'[u].from = users'[v].from /\ users'[v].from # 0) => u = v
        <4>1. \A u \in User' : u \in User \/ u = n
          BY <2>7
        <4>2. \A u \in User : users'[u].from = users[u].from /\ users'[u].from # i
          BY <3>1, <2>6
        <4>3. \A u, v \in User : (users[u].from = users[v].from /\ users[v].from # 0) => u = v
          BY DEF SignInInv, InvitesMatch
        <4> QED BY SMTT(30), <4>1, <4>2, <4>3, <3>0
      <3>5. \A j \in Invite' : invites'[j].status = "consumed" => \E u \in User' : users'[u].from = j
        <4>1. SUFFICES ASSUME NEW j \in Invite', invites'[j].status = "consumed"
                       PROVE  \E u \in User' : users'[u].from = j
          OBVIOUS
        <4>2. CASE j = i
          BY <4>2, <3>0, <2>7
        <4>3. CASE j # i
          <5>1. j \in Invite /\ invites[j].status = "consumed"
            BY <4>1, <4>3, <2>5, <2>7
          <5>2. PICK u \in User : users[u].from = j
            BY <5>1 DEF SignInInv, InvitesMatch
          <5> QED BY <5>2, <2>6, <2>7
        <4> QED BY <4>2, <4>3
      <3> QED BY <3>3, <3>4, <3>5 DEF InvitesMatch
    <2> QED BY <2>13, <2>14, <2>15, <2>16, <2>17, <2>18 DEF SignInInv
  <1> QED BY <1>1, <1>2
-----------------------------------------------------------------------------
(* The theorems. *)

\* Empty tables, no cookies and no callback satisfy the invariant.
LEMMA InitSignIn == SignInInit => SignInInv
  <1> SUFFICES ASSUME SignInInit PROVE SignInInv
    OBVIOUS
  <1>1. Flow = {} /\ Invite = {} /\ User = {} /\ Len(flows) = 0 /\ Len(users) = 0 /\ Len(invites) = 0
    BY SMTT(30) DEF SignInInit, Flow, Invite, User
  <1>2. SignInTypeOK
    <2>1. invites = <<>> /\ users = <<>> /\ flows = <<>> /\ links = {} /\ minted = {}
      BY DEF SignInInit
    <2>2. jar \in [Browser -> [state : 0..Len(flows), invite : 0..Len(invites)]]
      BY SMTT(30), <1>1 DEF SignInInit, NoCookies
    <2>3. session \in [Browser -> [user : 0..Len(users), flow : 0..Len(flows)]]
      BY SMTT(30), <1>1 DEF SignInInit
    <2>4. DOMAIN cb = Callback /\ \A c \in Callback : cb[c] = NoCallback
      BY DEF SignInInit
    <2>5. events \in 0..MaxEvents
      BY SMTT(30), SignInAssumption DEF SignInInit
    <2> QED BY <2>1, <2>2, <2>3, <2>4, <2>5, SMTT(30) DEF SignInTypeOK
  <1>3. \A c \in Callback : ~Running(c) /\ cb[c].at = "idle"
    BY DEF SignInInit, Running, NoCallback
  <1>4. FlowsOwned
    BY <1>3 DEF SignInInit, FlowsOwned, NoCookies
  <1>5. StatesSpentOnce /\ UsersFound
    BY <1>3 DEF SignInInit, StatesSpentOnce, UsersFound, Spending
  <1>6. LinksMatch /\ InvitesMatch
    BY <1>1 DEF SignInInit, LinksMatch, InvitesMatch
  <1> QED BY <1>2, <1>4, <1>5, <1>6 DEF SignInInv

\* What the browser and the web app's server do.
LEMMA BrowserKeeps ==
  ASSUME SignInInv, BrowserNext
  PROVE  SignInInv'
  <1>1. PICK b \in Browser :
          \/ \E t \in Tenant : handleGoogleSignin(b, t)
          \/ \E i \in Invite : stashInviteToken(b, i)
          \/ InviteAcceptPage(b)
          \/ \E c \in Callback, f \in Flow, a \in GoogleAccount : completeGoogleSignin(c, b, f, a)
          \/ \E field \in {"state", "invite"} : CookieExpires(b, field)
    BY DEF BrowserNext
  <1>2. /\ SignInTypeOK /\ jar \in [Browser -> [state : 0..Len(flows), invite : 0..Len(invites)]]
        /\ jar[b].state \in 0..Len(flows) /\ jar[b].invite \in 0..Len(invites)
        /\ Len(flows) \in Nat /\ Len(invites) \in Nat
    BY Types DEF SignInInv, SignInTypeOK
  <1>3. ASSUME NEW t \in Tenant, handleGoogleSignin(b, t) PROVE SignInInv'
    BY <1>3, StartKeeps DEF handleGoogleSignin
  <1>4. ASSUME NEW i \in Invite, stashInviteToken(b, i) PROVE SignInInv'
    <2>1. PICK r : r = [jar[b] EXCEPT !.invite = i]
      OBVIOUS
    <2>2. r \in [state : 0..Len(flows), invite : 0..Len(invites)] /\ r.state = jar[b].state
      BY SMTT(30), <1>2, <2>1, Types
    <2>3. jar' = [jar EXCEPT ![b] = r] /\ UNCHANGED <<tables, flows, session, cb, minted, events>>
      BY <1>4, <2>1 DEF stashInviteToken
    <2> QED BY <2>2, <2>3, CookieKeeps
  <1>5. CASE InviteAcceptPage(b)
    <2>1. jar[b].invite \in Invite
      BY SMTT(30), <1>2, <1>5, Types DEF InviteAcceptPage
    <2>2. invites[jar[b].invite].tenant \in Tenant
      BY <1>2, <2>1, Types DEF InviteRow
    <2> QED BY <1>5, <2>2, StartKeeps DEF InviteAcceptPage
  <1>6. ASSUME NEW c \in Callback, NEW f \in Flow, NEW a \in GoogleAccount,
               completeGoogleSignin(c, b, f, a)
        PROVE  SignInInv'
    BY <1>6, CompleteKeeps
  <1>7. ASSUME NEW field \in {"state", "invite"}, CookieExpires(b, field) PROVE SignInInv'
    <2>1. PICK r : r = [jar[b] EXCEPT ![field] = 0]
      OBVIOUS
    <2>2. /\ r \in [state : 0..Len(flows), invite : 0..Len(invites)]
          /\ r.state \in {0, jar[b].state}
      <3>1. CASE field = "state"
        BY SMTT(30), <3>1, <1>2, <2>1
      <3>2. CASE field = "invite"
        BY SMTT(30), <3>2, <1>2, <2>1
      <3> QED BY <3>1, <3>2
    <2>3. jar' = [jar EXCEPT ![b] = r] /\ UNCHANGED <<tables, flows, session, cb, minted>> /\ Happens
      BY <1>7, <2>1 DEF CookieExpires
    <2> QED BY <2>2, <2>3, CookieKeeps
  <1> QED BY <1>1, <1>3, <1>4, <1>5, <1>6, <1>7

\* Every table, cookie and callback of the sign-in satisfies the invariant in every state
\* (oidc-authenticator.ts, the repositories it works on and the web app's server).
THEOREM SignInInvariance == SignInSpec => []SignInInv
  <1>1. SignInInv /\ [SignInNext]_signInVars => SignInInv'
    <2> SUFFICES ASSUME SignInInv, [SignInNext]_signInVars PROVE SignInInv'
      OBVIOUS
    <2>1. CASE BrowserNext
      BY <2>1, BrowserKeeps
    <2>2. CASE CallbackNext
      <3>1. CASE \E f \in Flow : StateExpires(f)
        BY <3>1, ExpiryKeeps
      <3>2. ASSUME NEW c \in Callback, cb[c] # NoCallback,
                   \/ ConsumeState(c) \/ FindIdentity(c) \/ FindUser(c)
                   \/ LinkFirst(c) \/ provisionFromInvite(c) \/ LoadUser(c) \/ mintSession(c)
                   \/ AnswerCallback(c)
            PROVE  SignInInv'
        <4>1. Running(c)
          BY <3>2 DEF Running
        <4> QED BY <3>2, <4>1, ConsumeKeeps, LookupKeeps, LinkKeeps, ProvisionKeeps, MintKeeps, AnswerKeeps
      <3> QED BY <2>2, <3>1, <3>2 DEF CallbackNext
    <2>3. CASE AdminNext
      <3>1. CASE \E t \in Tenant, e \in Email : createInvite(t, e) \/ createUser(t, e)
        BY <3>1, CreateInviteKeeps, CreateUserKeeps
      <3>2. CASE \E i \in Invite : revokeInvite(i) \/ InviteExpires(i)
        BY <3>2, InviteKeeps
      <3>3. CASE \E u \in User : (\E s \in {"active", "suspended"} : setUserStatus(u, s)) \/ deleteUser(u)
        BY <3>3, StatusKeeps, DeleteKeeps
      <3> QED BY <2>3, <3>1, <3>2, <3>3 DEF AdminNext
    <2>4. CASE UNCHANGED signInVars
      <3>1. UNCHANGED <<invites, users, links, flows, jar, session, cb, minted, events>>
        BY <2>4 DEF signInVars
      <3>2. SignInTypeOK /\ FlowsStay /\ InvitesStay /\ UsersStay
        BY <3>1, Alone DEF SignInInv
      <3>3. LinksMatch' /\ LinksStay
        BY <3>1, <3>2, LinksKept
      <3> QED BY <3>1, <3>2, <3>3, AdminKeeps DEF User, Invite
    <2> QED BY <2>1, <2>2, <2>3, <2>4 DEF SignInNext
  <1> QED BY <1>1, InitSignIn, PTL DEF SignInSpec

\* A state mints one session at most, in the browser that started its flow: the store gives
\* it out once (oidc-authenticator.ts, consume before the exchange) and the web app's server
\* compares it with the browser's cookie.
THEOREM FlowGoodOnce == SignInSpec => []OwnFlowOnce
  <1>1. SignInInv => OwnFlowOnce
    BY DEF SignInInv, FlowsOwned, StatesSpentOnce, OwnFlowOnce
  <1> QED BY <1>1, SignInInvariance, PTL

\* Whoever signs in is the user the account is pinned to, however first logins race
\* (linkFirstWithClient and the unique indexes of oauth_identities).
THEOREM PinnedUserSignsIn == SignInSpec => []SessionIsThePinnedUser
  <1>1. SignInInv => SessionIsThePinnedUser
    BY DEF SignInInv, UsersFound, LinksMatch, Pinned, SessionIsThePinnedUser
  <1> QED BY <1>1, SignInInvariance, PTL

\* The count of no user and of one.
LEMMA CountOfNoneAndOne == Cardinality({}) = 0 /\ \A u : Cardinality({u}) = 1
<1> DEFINE Step(g, S) == [T \in SUBSET S |-> IF T = {} THEN 0 ELSE 1 + g[T \ {CHOOSE x : x \in T}]]
           CS(S) == CHOOSE g : g = Step(g, S)
<1>1. \A S : Cardinality(S) = CS(S)[S]
  BY DEF Cardinality
<1>2. ASSUME NEW S, NEW g, g = Step(g, S)
      PROVE  CS(S) = Step(CS(S), S)
  BY <1>2
<1>3. Cardinality({}) = 0
  <2> DEFINE g == [T \in SUBSET {} |-> 0]
  <2>1. g = Step(g, {})
    OBVIOUS
  <2>2. CS({}) = Step(CS({}), {})
    BY ONLY ZenonT(30), <2>1, <1>2
  <2> QED BY <2>2, <1>1
<1>4. ASSUME NEW u PROVE Cardinality({u}) = 1
  <2> DEFINE g == [T \in SUBSET {u} |-> IF T = {} THEN 0 ELSE 1]
  <2>3. (CHOOSE x : x \in {u}) = u
    OBVIOUS
  <2>1. g = Step(g, {u})
    <3>1. ASSUME NEW T \in SUBSET {u}
          PROVE  g[T] = IF T = {} THEN 0 ELSE 1 + g[T \ {CHOOSE x : x \in T}]
      <4>1. CASE T = {}
        BY <4>1
      <4>2. CASE T # {}
        <5>1. T = {u}
          BY <4>2
        <5>2. T \ {CHOOSE x : x \in T} = {}
          BY <5>1, <2>3
        <5>3. g[T] = 1 /\ g[T \ {CHOOSE x : x \in T}] = 0
          BY <4>2, <5>2
        <5>4. 1 = 1 + 0
          BY ONLY SMTT(30)
        <5> QED BY <4>2, <5>3, <5>4
      <4> QED BY <4>1, <4>2
    <3> QED BY <3>1
  <2>2. CS({u}) = Step(CS({u}), {u})
    BY ONLY ZenonT(30), <2>1, <1>2
  <2> HIDE DEF CS
  <2>4. CS({u})[{}] = 0
    BY <2>2
  <2>5. CS({u})[{u}] = 1 + CS({u})[{}]
    BY <2>2, <2>3
  <2>6. 1 + 0 = 1
    BY ONLY SMTT(30)
  <2> QED BY <2>4, <2>5, <2>6, <1>1
<1> QED BY <1>3, <1>4

\* A consumed invite has made one user of its tenant and address, any other none
\* (the conditional UPDATE of the consume and the one transaction around it).
THEOREM OneUserPerInvite == SignInSpec => []InviteAdmitsOne
  <1>1. SignInInv => InviteAdmitsOne
    <2> SUFFICES ASSUME SignInInv, NEW i \in Invite
                 PROVE  /\ Cardinality({u \in User : users[u].from = i}) =
                              (IF invites[i].status = "consumed" THEN 1 ELSE 0)
                        /\ \A u \in {v \in User : users[v].from = i} :
                             /\ <<users[u].tenant, users[u].email>> = <<invites[i].tenant, invites[i].email>>
                             /\ users[u].status = "deleted" \/ \E l \in links : l.user = u
      BY DEF InviteAdmitsOne
    <2>1. i # 0 /\ InvitesMatch
      BY SMTT(30), Types DEF SignInInv
    <2>2. CASE invites[i].status = "consumed"
      <3>1. PICK u \in User : users[u].from = i
        BY <2>1, <2>2 DEF InvitesMatch
      <3>2. {v \in User : users[v].from = i} = {u}
        BY SMTT(30), <2>1, <3>1 DEF InvitesMatch
      <3>3. Cardinality({u}) = 1
        BY CountOfNoneAndOne
      <3>4. /\ users[u].tenant = invites[i].tenant /\ users[u].email = invites[i].email
            /\ users[u].status = "deleted" \/ \E l \in links : l.user = u
        BY <2>1, <3>1 DEF InvitesMatch
      <3> QED BY <2>2, <3>2, <3>3, <3>4
    <2>3. CASE invites[i].status # "consumed"
      <3>1. {v \in User : users[v].from = i} = {}
        BY SMTT(30), <2>1, <2>3 DEF InvitesMatch
      <3>2. Cardinality({}) = 0
        BY CountOfNoneAndOne
      <3> QED BY <2>3, <3>1, <3>2
    <2> QED BY <2>2, <2>3
  <1> QED BY <1>1, SignInInvariance, PTL

\* A session is got the same way while browsers keep and lose theirs: Sessions
\* implements SignIn.
THEOREM SessionsSignIn ==
  SessionsSpec => SignInSpec /\ [](InviteAdmitsOne /\ SessionIsThePinnedUser /\ OwnFlowOnce)
<1>1. SessionsInit => SignInInit
  BY DEF SessionsInit
<1>2. [SessionsNext]_<<webAllVars, signInVars, part>> => [SignInNext]_signInVars
  BY DEF SessionsNext
<1>3. SessionsSpec => SignInSpec
  BY <1>1, <1>2, PTL DEF SessionsSpec, SignInSpec
<1> QED BY <1>3, OneUserPerInvite, PinnedUserSignsIn, FlowGoodOnce, PTL

-----------------------------------------------------------------------------
(* Tokens and the browser's session *)

\* Where a handler works on the row it was presented with.
OnToken == {"find", "tenant", "user", "rotate", "insert", "lookup",
            "revoke", "revoking", "leave", "leaving"}

\* The handlers' rows exist, and so do the families (a family is named by its first row).
RowsExist ==
  /\ \A t \in Token : FamilyOf(t) \in Token
  /\ \A p \in Req : pc[p] \in OnToken => tok[p] \in Token

\* A rotate that has its row's lock has it alone, and the row is live until it commits:
\* what would rotate or revoke the row waits for the lock.
LocksHold ==
  /\ \A p \in Req : pc[p] = "insert" => tok[p] \in Live
  /\ \A p, q \in Req : (pc[p] = "insert" /\ pc[q] = "insert" /\ tok[p] = tok[q]) => p = q

\* What a handler has checked was active while it ran.
ChecksSeen ==
  \A p \in Req :
    /\ pc[p] # "idle" => active \subseteq seen[p]
    /\ pc[p] \in {"password", "user"} => "tenant" \in seen[p]
    /\ pc[p] \in {"mint", "rotate", "insert", "ok"} => seen[p] = Account

\* A revokeFamily under way has seen every live row of its family, but for those minted
\* since it started.
SnapCovers ==
  \A p \in Req : pc[p] \in {"revoking", "leaving"} =>
    \A t \in Live : FamilyOf(t) = FamilyOf(tok[p]) => t \in snap[p] \cup raced

\* The inductive invariant.
TokenInv ==
  /\ TypeOK /\ RowsExist /\ LocksHold /\ ChecksSeen /\ SnapCovers
  /\ RotatedOnce /\ SurvivesOnlyRace

-----------------------------------------------------------------------------
USE TokensAssumption

\* An INSERT adds a row behind the others and changes none of them.
LEMMA Appended ==
  ASSUME NEW S, NEW s \in Seq(S), NEW r \in S
  PROVE  /\ Append(s, r) \in Seq(S) /\ Len(Append(s, r)) = Len(s) + 1 /\ Len(s) \in Nat
         /\ \A t \in 1..Len(s) : Append(s, r)[t] = s[t]
         /\ Append(s, r)[Len(s) + 1] = r
  BY SMTT(30)

\* The empty table satisfies the invariant.
LEMMA InitTokens == Init => TokenInv
  <1> SUFFICES ASSUME Init PROVE TokenInv
    OBVIOUS
  <1>1. Token = {}
    BY SMTT(30) DEF Init, Token
  <1>2. TypeOK
    BY SMTT(30), <1>1 DEF Init, TypeOK, PC, Account
  <1>3. RowsExist /\ LocksHold /\ ChecksSeen /\ SnapCovers
    BY <1>1 DEF Init, RowsExist, LocksHold, ChecksSeen, SnapCovers, OnToken
  <1>4. RotatedOnce /\ SurvivesOnlyRace
    BY <1>1 DEF Init, RotatedOnce, SurvivesOnlyRace, Live
  <1> QED BY <1>2, <1>3, <1>4 DEF TokenInv

\* A step that leaves the tables and their history alone keeps what is said of them.
LEMMA TablesKept ==
  ASSUME TokenInv, UNCHANGED <<rows, rotated, revoked, dead, raced>>
  PROVE  /\ RotatedOnce' /\ SurvivesOnlyRace'
         /\ Token' = Token /\ Live' = Live /\ \A t : (FamilyOf(t))' = FamilyOf(t)
  BY SMTT(30) DEF TokenInv, RotatedOnce, SurvivesOnlyRace, Token, Live, FamilyOf

\* The table has a length.
LEMMA Counted == ASSUME TokenInv PROVE Len(rows) \in Nat
  <1>1. rows \in Seq([family : 1..MaxTokens, parent : 0..MaxTokens])
    BY DEF TokenInv, TypeOK
  <1> QED BY ONLY SMTT(30), <1>1

\* A row is appended: it is numbered after the others, which stay as they are.
LEMMA RowInserted ==
  ASSUME TokenInv, NEW n, n = Len(rows) + 1, Len(rows) < MaxTokens,
         NEW r \in [family : 1..MaxTokens, parent : 0..MaxTokens], rows' = Append(rows, r)
  PROVE  /\ rows' \in Seq([family : 1..MaxTokens, parent : 0..MaxTokens]) /\ Len(rows') <= MaxTokens
         /\ Len(rows) \in Nat /\ Len(rows') = n
         /\ \A t \in Token : rows'[t] = rows[t]
         /\ rows'[n] = r
         /\ Token' = Token \cup {n} /\ n \notin Token
  <1> DEFINE Row == [family : 1..MaxTokens, parent : 0..MaxTokens]
  <1>1. rows \in Seq(Row)
    BY DEF TokenInv, TypeOK
  <1> HIDE DEF Row
  <1>2. /\ rows' \in Seq(Row) /\ Len(rows') = Len(rows) + 1 /\ Len(rows) \in Nat
        /\ \A t \in 1..Len(rows) : rows'[t] = rows[t]
        /\ rows'[Len(rows) + 1] = r
    <2>1. r \in Row
      BY DEF Row
    <2>2. rows' = Append(rows, r)
      OBVIOUS
    <2> QED BY ONLY SMTT(30), <1>1, <2>1, <2>2, Appended
  <1>3. Len(rows') <= MaxTokens /\ 1..Len(rows') = (1..Len(rows)) \cup {n} /\ n \notin 1..Len(rows)
    BY ONLY SMTT(30), <1>2, n = Len(rows) + 1, Len(rows) < MaxTokens, TokensAssumption DEF TokensAssumption
  <1> QED BY <1>2, <1>3 DEF Row, Token

\* RotatedOnce for one row and for two.
LEMMA Parents ==
  ASSUME TokenInv
  PROVE  /\ \A t \in Token : rows[t].parent # 0 =>
              /\ rows[t].parent \in rotated /\ rows[t].parent \in Token
              /\ rows[rows[t].parent].family = rows[t].family
         /\ \A s, t \in Token : (rows[s].parent = rows[t].parent /\ rows[t].parent # 0) => s = t
  <1>1. ASSUME NEW t \in Token, rows[t].parent # 0
        PROVE  rows[t].parent \in rotated /\ rows[rows[t].parent].family = rows[t].family
    BY <1>1 DEF TokenInv, RotatedOnce, FamilyOf
  <1>2. ASSUME NEW s \in Token, NEW t \in Token, rows[s].parent = rows[t].parent, rows[t].parent # 0
        PROVE  s = t
    BY <1>2 DEF TokenInv, RotatedOnce
  <1> QED BY <1>1, <1>2 DEF TokenInv, TypeOK

\* Begin, for a login or with a row of the table.
LEMMA BeginKeeps ==
  ASSUME TokenInv, NEW p \in Req, NEW label \in {"find", "lookup", "slug"}, NEW t \in Token \cup {0},
         label \in {"find", "lookup"} => t \in Token, Begin(p, label, t)
  PROVE  TokenInv'
  <1>1. UNCHANGED <<rows, rotated, revoked, dead, raced>>
    BY DEF Begin, tokenVars
  <1>2. RotatedOnce' /\ SurvivesOnlyRace' /\ Token' = Token /\ Live' = Live
        /\ \A u : (FamilyOf(u))' = FamilyOf(u)
    BY <1>1, TablesKept
  <1>3. TypeOK'
    <2>1. t \in 0..Len(rows) /\ 0 \in 0..Len(rows)
      BY SMTT(30) DEF TokenInv, TypeOK, Token
    <2>2. tok' \in [Req -> 0..Len(rows)] /\ new' \in [Req -> 0..Len(rows)]
          /\ seen' \in [Req -> SUBSET Account]
      BY <2>1 DEF TokenInv, TypeOK, Begin
    <2>3. pc' \in [Req -> PC]
      BY DEF TokenInv, TypeOK, Begin, Goto, PC
    <2> QED BY <1>2, <2>2, <2>3 DEF TokenInv, TypeOK, Begin, tokenVars
  <1>4. RowsExist'
    BY <1>2 DEF TokenInv, TypeOK, RowsExist, Begin, Goto, OnToken
  <1>5. LocksHold'
    BY <1>2 DEF TokenInv, TypeOK, LocksHold, Begin, Goto
  <1>6. ChecksSeen'
    BY DEF TokenInv, TypeOK, ChecksSeen, Begin, Goto
  <1>7. SnapCovers'
    BY <1>1, <1>2 DEF TokenInv, TypeOK, SnapCovers, Begin, Goto
  <1> QED BY <1>2, <1>3, <1>4, <1>5, <1>6, <1>7 DEF TokenInv

\* The steps of a handler that only read.
LEMMA ReadKeeps ==
  ASSUME TokenInv, NEW p \in Req,
         Credentials(p) \/ FindById(p) \/ CheckAccount(p) \/ Rotate(p) \/ LogoutFindById(p)
  PROVE  TokenInv'
  <1>1. UNCHANGED <<tokenVars, active, tok, new, snap, changes, historyVars>>
    BY DEF Credentials, FindById, CheckAccount, Rotate, LogoutFindById
  <1>2. RotatedOnce' /\ SurvivesOnlyRace' /\ Token' = Token /\ Live' = Live
        /\ \A u : (FamilyOf(u))' = FamilyOf(u)
    BY <1>1, TablesKept DEF tokenVars, historyVars
  <1>3. PICK label \in PC : pc' = [pc EXCEPT ![p] = label]
    BY DEF Credentials, FindById, CheckAccount, Rotate, LogoutFindById, Goto, PC
  <1>4. TypeOK'
    BY <1>1, <1>2, <1>3 DEF TokenInv, TypeOK, tokenVars, historyVars
  <1>5. RowsExist'
    BY SMTT(30), <1>1, <1>2 DEF TokenInv, TypeOK, RowsExist, Credentials, FindById, CheckAccount, Rotate,
                      LogoutFindById, Goto, OnToken
  <1>6. LocksHold'
    <2>1. CASE Rotate(p)
      BY <2>1, <1>1, <1>2 DEF TokenInv, TypeOK, LocksHold, RowsExist, Rotate, Goto, Locked, Live, OnToken
    <2>2. CASE ~Rotate(p)
      BY <2>2, <1>1, <1>2, ZenonT(60) DEF TokenInv, TypeOK, LocksHold, Credentials, FindById, CheckAccount,
                              LogoutFindById, Goto
    <2> QED BY <2>1, <2>2
  <1>7. ChecksSeen'
    <2>1. seen' = seen /\ active' = active /\ seen[p] \subseteq Account
          /\ \A q \in Req : q # p => pc'[q] = pc[q]
      BY <1>1, <1>3 DEF TokenInv, TypeOK, historyVars
    <2>2. pc[p] # "idle" /\ active \subseteq seen[p]
          /\ (pc[p] \in {"password", "user"} => "tenant" \in seen[p])
          /\ (pc[p] = "rotate" => seen[p] = Account)
      BY DEF TokenInv, TypeOK, ChecksSeen, Credentials, FindById, CheckAccount, Rotate,
             LogoutFindById
    <2>3. /\ pc'[p] \in {"password", "user"} => "tenant" \in active
          /\ pc'[p] \in {"mint", "rotate"} => pc[p] \in {"password", "user"} /\ "user" \in active
          /\ pc'[p] = "insert" => pc[p] = "rotate"
          /\ pc'[p] # "ok"
      BY DEF TokenInv, TypeOK, Credentials, FindById, CheckAccount, Rotate, LogoutFindById, Goto
    <2>4. pc'[p] \in {"mint", "rotate", "insert"} => seen[p] = Account
      BY <2>1, <2>2, <2>3 DEF Account
    <2> QED BY <2>1, <2>2, <2>3, <2>4 DEF TokenInv, ChecksSeen
  <1>8. SnapCovers'
    <2>1. \A q \in Req : pc'[q] \in {"revoking", "leaving"} => pc[q] = pc'[q]
      BY DEF TokenInv, TypeOK, Credentials, FindById, CheckAccount, Rotate, LogoutFindById, Goto
    <2> QED BY <2>1, <1>1, <1>2 DEF TokenInv, SnapCovers, historyVars
  <1> QED BY <1>2, <1>4, <1>5, <1>6, <1>7, <1>8 DEF TokenInv

\* The answer of a request, and a statement that fails.
LEMMA EndKeeps ==
  ASSUME TokenInv, NEW p \in Req, Answer(p) \/ Fail(p)
  PROVE  TokenInv'
  <1>1. UNCHANGED <<rows, rotated, revoked, expired, active, dead, raced>>
    BY DEF Answer, Fail, tokenVars, historyVars
  <1>2. RotatedOnce' /\ SurvivesOnlyRace' /\ Token' = Token /\ Live' = Live
        /\ \A u : (FamilyOf(u))' = FamilyOf(u)
    BY <1>1, TablesKept
  <1>3. /\ pc' \in [Req -> PC] /\ pc'[p] \in {"idle", "failed"}
        /\ \A q \in Req : q # p => pc'[q] = pc[q] /\ tok'[q] = tok[q] /\ snap'[q] = snap[q]
                                  /\ seen'[q] = seen[q]
    BY DEF TokenInv, TypeOK, Answer, Fail, Goto, PC, historyVars
  <1>4. TypeOK'
    <2>1. 0 \in 0..Len(rows)
      BY SMTT(30) DEF TokenInv, TypeOK
    <2>2. tok' \in [Req -> 0..Len(rows)] /\ new' \in [Req -> 0..Len(rows)]
          /\ snap' \in [Req -> SUBSET Token] /\ seen' \in [Req -> SUBSET Account]
      BY <2>1, ZenonT(60) DEF TokenInv, TypeOK, Answer, Fail, historyVars
    <2>3. changes' \in 0..MaxChanges
      BY SMTT(30) DEF TokenInv, TypeOK, Answer, Fail, Change, TokensAssumption
    <2> QED BY <1>1, <1>2, <1>3, <2>2, <2>3 DEF TokenInv, TypeOK
  <1>5. RowsExist' /\ LocksHold'
    BY <1>2, <1>3 DEF TokenInv, RowsExist, LocksHold, OnToken
  <1>6. ChecksSeen'
    <2>1. pc'[p] = "failed" => pc[p] # "idle" /\ seen'[p] = seen[p]
      BY DEF TokenInv, TypeOK, Answer, Fail, Goto, Answered, historyVars
    <2> QED BY SMTT(30), <2>1, <1>1, <1>3 DEF TokenInv, ChecksSeen
  <1>7. SnapCovers'
    BY <1>1, <1>2, <1>3 DEF TokenInv, SnapCovers
  <1> QED BY <1>2, <1>4, <1>5, <1>6, <1>7 DEF TokenInv

\* A change of status, and a row that expires.
LEMMA ChangeKeeps ==
  ASSUME TokenInv, (\E a \in Account : SetStatus(a)) \/ (\E t \in Token : Expire(t))
  PROVE  TokenInv'
  <1>1. UNCHANGED <<rows, rotated, revoked, dead, raced, pc, tok, new, snap>>
    BY DEF SetStatus, Expire, tokenVars, handlerVars, historyVars
  <1>2. RotatedOnce' /\ SurvivesOnlyRace' /\ Token' = Token /\ Live' = Live
        /\ \A u : (FamilyOf(u))' = FamilyOf(u)
    BY <1>1, TablesKept
  <1>3. active' \subseteq Account /\ expired' \subseteq Token /\ changes' \in 0..MaxChanges
    BY SMTT(30) DEF TokenInv, TypeOK, SetStatus, Expire, Change, tokenVars, TokensAssumption
  <1>4. seen' \in [Req -> SUBSET Account]
        /\ \A p \in Req : pc[p] # "idle" => seen[p] \subseteq seen'[p] /\ active' \subseteq seen'[p]
    BY <1>3, ZenonT(60) DEF TokenInv, TypeOK, ChecksSeen, SetStatus, Expire, historyVars
  <1>5. TypeOK'
    BY <1>1, <1>2, <1>3, <1>4 DEF TokenInv, TypeOK
  <1>6. RowsExist' /\ LocksHold' /\ SnapCovers'
    BY <1>1, <1>2 DEF TokenInv, RowsExist, LocksHold, SnapCovers
  <1>7. ChecksSeen'
    <2>1. \A p \in Req : seen'[p] \subseteq Account
      BY <1>4
    <2> QED BY <2>1, <1>1, <1>4 DEF TokenInv, ChecksSeen
  <1> QED BY <1>2, <1>5, <1>6, <1>7 DEF TokenInv
-----------------------------------------------------------------------------
\* The UPDATE of a revokeFamily starts: it sees every row of the family that is live.
LEMMA RevokeKeeps ==
  ASSUME TokenInv, NEW p \in Req, RevokeFamily(p)
  PROVE  TokenInv'
  <1>1. UNCHANGED <<tokenVars, active, tok, new, changes, historyVars>>
    BY DEF RevokeFamily
  <1>2. RotatedOnce' /\ SurvivesOnlyRace' /\ Token' = Token /\ Live' = Live
        /\ \A u : (FamilyOf(u))' = FamilyOf(u)
    BY <1>1, TablesKept DEF tokenVars, historyVars
  <1>3. /\ pc' \in [Req -> PC] /\ pc[p] \in {"revoke", "leave"}
        /\ pc'[p] \in {"revoking", "leaving"}
        /\ snap' \in [Req -> SUBSET Token]
        /\ snap'[p] = Family(FamilyOf(tok[p])) \ revoked
        /\ \A q \in Req : q # p => pc'[q] = pc[q] /\ snap'[q] = snap[q]
    BY DEF TokenInv, TypeOK, RevokeFamily, Goto, PC, Family
  <1>4. TypeOK'
    BY <1>1, <1>2, <1>3 DEF TokenInv, TypeOK, tokenVars, historyVars
  <1>5. RowsExist' /\ LocksHold'
    BY <1>1, <1>2, <1>3 DEF TokenInv, RowsExist, LocksHold, OnToken
  <1>6. ChecksSeen'
    BY <1>1, <1>3 DEF TokenInv, ChecksSeen, historyVars
  <1>7. SnapCovers'
    <2>1. \A t \in Live : FamilyOf(t) = FamilyOf(tok[p]) => t \in snap'[p]
      BY <1>3 DEF Live, Family
    <2> QED BY <2>1, <1>1, <1>2, <1>3 DEF TokenInv, SnapCovers, historyVars
  <1> QED BY <1>2, <1>4, <1>5, <1>6, <1>7 DEF TokenInv

\* It commits: it held no row that a rotate has locked, and what stays live is raced.
LEMMA RevokeCommitKeeps ==
  ASSUME TokenInv, NEW p \in Req, RevokeFamilyCommit(p)
  PROVE  TokenInv'
  <1>1. UNCHANGED <<rows, rotated, expired, active, tok, new, changes, seen, raced>>
    BY DEF RevokeFamilyCommit
  <1>2. Token' = Token /\ \A u : (FamilyOf(u))' = FamilyOf(u)
    BY <1>1 DEF Token, FamilyOf
  <1>3. /\ pc' \in [Req -> PC] /\ pc[p] \in {"revoking", "leaving"} /\ pc'[p] \in {"rejected", "done"}
        /\ snap' \in [Req -> SUBSET Token]
        /\ \A q \in Req : q # p => pc'[q] = pc[q] /\ snap'[q] = snap[q]
        /\ revoked' = revoked \cup snap[p] /\ snap[p] \subseteq Token
        /\ dead' = dead \cup {FamilyOf(tok[p])}
    BY DEF TokenInv, TypeOK, RevokeFamilyCommit, Goto, PC
  <1>4. FamilyOf(tok[p]) \in Token
    BY <1>3 DEF TokenInv, RowsExist, OnToken
  <1>5. Live' = Live \ snap[p]
    BY <1>1, <1>2, <1>3 DEF Live
  <1>6. TypeOK'
    BY <1>1, <1>2, <1>3, <1>4 DEF TokenInv, TypeOK
  <1>7. RowsExist'
    BY <1>1, <1>2, <1>3 DEF TokenInv, RowsExist, OnToken
  <1>8. LocksHold'
    <2>1. \A q \in Req : pc[q] = "insert" => tok[q] \notin snap[p]
      BY DEF RevokeFamilyCommit, Locked
    <2> QED BY <2>1, <1>1, <1>3, <1>5 DEF TokenInv, LocksHold
  <1>9. ChecksSeen'
    BY <1>1, <1>3 DEF TokenInv, ChecksSeen
  <1>10. SnapCovers'
    BY <1>1, <1>2, <1>3, <1>5 DEF TokenInv, SnapCovers
  <1>11. RotatedOnce'
    BY <1>1, <1>2 DEF TokenInv, RotatedOnce
  <1>12. SurvivesOnlyRace'
    <2>1. \A t \in Live : FamilyOf(t) = FamilyOf(tok[p]) => t \in snap[p] \cup raced
      BY <1>3 DEF TokenInv, SnapCovers
    <2> QED BY <2>1, <1>1, <1>2, <1>3, <1>5 DEF TokenInv, SurvivesOnlyRace
  <1> QED BY <1>6, <1>7, <1>8, <1>9, <1>10, <1>11, <1>12 DEF TokenInv

\* A login starts a family of its own.
LEMMA MintKeepsTokens ==
  ASSUME TokenInv, NEW p \in Req, mintRefreshToken(p)
  PROVE  TokenInv'
  <1>0. PICK n : n = Len(rows) + 1
    OBVIOUS
  <1>1. UNCHANGED <<rotated, revoked, expired, active, tok, snap, changes, seen, dead, raced>>
    BY DEF mintRefreshToken, historyVars
  <1>2. /\ rows' \in Seq([family : 1..MaxTokens, parent : 0..MaxTokens]) /\ Len(rows') <= MaxTokens
        /\ Len(rows) \in Nat /\ Len(rows') = n
        /\ \A t \in Token : rows'[t] = rows[t]
        /\ rows'[n].family = n /\ rows'[n].parent = 0
        /\ Token' = Token \cup {n} /\ n \notin Token
    <2>0. Len(rows) \in Nat
      BY Counted
    <2>1. [family |-> n, parent |-> 0] \in [family : 1..MaxTokens, parent : 0..MaxTokens]
      BY SMTT(30), <1>0, <2>0 DEF mintRefreshToken, TokensAssumption
    <2>2. PICK r : r = [family |-> n, parent |-> 0]
      OBVIOUS
    <2>3. rows' = Append(rows, r) /\ Len(rows) < MaxTokens
      BY <2>2, <1>0 DEF mintRefreshToken
    <2>4. r \in [family : 1..MaxTokens, parent : 0..MaxTokens] /\ r.family = n /\ r.parent = 0
      BY <2>1, <2>2
    <2> QED BY <2>3, <2>4, <1>0, RowInserted
  <1>3. Token' = Token \cup {n} /\ n \notin Token
    BY <1>2
  <1>4. (\A t \in Token : (FamilyOf(t))' = FamilyOf(t)) /\ (FamilyOf(n))' = n
    BY <1>2 DEF FamilyOf
  <1>5. Live' = Live \cup {n} /\ Live \subseteq Token
    BY <1>1, <1>3 DEF TokenInv, TypeOK, Live
  <1>6. /\ pc' \in [Req -> PC] /\ pc[p] = "mint" /\ pc'[p] = "ok"
        /\ \A q \in Req : q # p => pc'[q] = pc[q]
    BY DEF TokenInv, TypeOK, mintRefreshToken, Goto, PC
  <1>7. TypeOK'
    <2>1. tok' \in [Req -> 0..n] /\ new' \in [Req -> 0..n]
      <3>1. 0..Len(rows) \subseteq 0..n /\ n \in 0..n
        BY ONLY SMTT(30), <1>0, <1>2
      <3>2. tok \in [Req -> 0..Len(rows)] /\ new \in [Req -> 0..Len(rows)]
        BY DEF TokenInv, TypeOK
      <3>3. tok' = tok /\ new' = [new EXCEPT ![p] = n]
        BY <1>0, <1>1 DEF mintRefreshToken
      <3> QED BY <3>1, <3>2, <3>3
    <2> QED BY <2>1, <1>1, <1>2, <1>3, <1>6 DEF TokenInv, TypeOK
  <1>8. RowsExist'
    BY <1>1, <1>3, <1>4, <1>6 DEF TokenInv, RowsExist, OnToken
  <1>9. LocksHold'
    BY <1>1, <1>5, <1>6 DEF TokenInv, LocksHold
  <1>10. ChecksSeen'
    BY <1>1, <1>6 DEF TokenInv, ChecksSeen
  <1>11. SnapCovers'
    <2>1. \A q \in Req : pc'[q] \in {"revoking", "leaving"} =>
             pc[q] = pc'[q] /\ tok[q] \in Token /\ FamilyOf(tok[q]) \in Token
      BY <1>6 DEF TokenInv, RowsExist, OnToken
    <2> QED BY <2>1, <1>1, <1>3, <1>4, <1>5, SMTT(30) DEF TokenInv, SnapCovers
  <1>12. RotatedOnce'
    <2>1. \A t \in Token' : rows'[t].parent # 0 =>
             t \in Token /\ rows'[t] = rows[t] /\ rows[t].parent \in Token
      BY <1>2, <1>3, Parents
    <2>2. ASSUME NEW t \in Token', rows'[t].parent # 0
          PROVE  rows'[t].parent \in rotated' /\ rows'[rows'[t].parent].family = rows'[t].family
      <3>1. t \in Token /\ rows'[t] = rows[t] /\ rows[t].parent \in Token /\ rows[t].parent # 0
        BY <2>1, <2>2
      <3>2. rows[t].parent \in rotated /\ rows[rows[t].parent].family = rows[t].family
        BY <3>1, Parents
      <3>3. rows'[rows[t].parent] = rows[rows[t].parent]
        BY <3>1, <1>2
      <3> QED BY <3>1, <3>2, <3>3, <1>1
    <2>3. ASSUME NEW s \in Token', NEW t \in Token',
                 rows'[s].parent = rows'[t].parent, rows'[t].parent # 0
          PROVE  s = t
      BY <2>1, <2>3, Parents
    <2> QED BY <2>2, <2>3 DEF RotatedOnce, FamilyOf
  <1>13. SurvivesOnlyRace'
    BY <1>1, <1>3, <1>4, <1>5 DEF TokenInv, TypeOK, SurvivesOnlyRace
  <1> QED BY <1>7, <1>8, <1>9, <1>10, <1>11, <1>12, <1>13 DEF TokenInv

\* A rotate commits.  The row it supersedes was live under its lock: it had no successor
\* yet, and if its family is dead or being revoked then it is raced or in the snapshot,
\* which makes the successor raced.
LEMMA RotateCommitKeeps ==
  ASSUME TokenInv, NEW p \in Req, RotateCommit(p)
  PROVE  TokenInv'
  <1>0. PICK n : n = Len(rows) + 1
    OBVIOUS
  <1>1. UNCHANGED <<revoked, expired, active, tok, snap, changes, seen, dead>>
    BY DEF RotateCommit
  <1>2. tok[p] \in Live /\ tok[p] \in Token /\ FamilyOf(tok[p]) \in Token
    BY DEF RotateCommit, TokenInv, LocksHold, RowsExist, Live
  <1>3. /\ rows' \in Seq([family : 1..MaxTokens, parent : 0..MaxTokens]) /\ Len(rows') <= MaxTokens
        /\ Len(rows) \in Nat /\ Len(rows') = n
        /\ \A t \in Token : rows'[t] = rows[t]
        /\ rows'[n].family = FamilyOf(tok[p]) /\ rows'[n].parent = tok[p]
        /\ Token' = Token \cup {n} /\ n \notin Token /\ tok[p] # 0
    <2>1. Len(rows) <= MaxTokens /\ Len(rows) \in Nat
      BY Counted DEF TokenInv, TypeOK
    <2>2. FamilyOf(tok[p]) \in 1..MaxTokens /\ tok[p] \in 0..MaxTokens /\ tok[p] # 0
      BY ONLY SMTT(30), <2>1, <1>2, TokensAssumption DEF TokensAssumption, Token
    <2>3. PICK r : r = [family |-> FamilyOf(tok[p]), parent |-> tok[p]]
      OBVIOUS
    <2>4. /\ r \in [family : 1..MaxTokens, parent : 0..MaxTokens]
          /\ r.family = FamilyOf(tok[p]) /\ r.parent = tok[p]
      BY <2>2, <2>3
    <2>5. rows' = Append(rows, r) /\ Len(rows) < MaxTokens
      BY <2>3 DEF RotateCommit
    <2> QED BY <2>2, <2>4, <2>5, <1>0, RowInserted
  <1>4. Token' = Token \cup {n} /\ n \notin Token /\ tok[p] # 0
    BY <1>3
  <1>5. (\A t \in Token : (FamilyOf(t))' = FamilyOf(t)) /\ (FamilyOf(n))' = FamilyOf(tok[p])
    BY <1>3 DEF FamilyOf
  <1>6. /\ rotated' = rotated \cup {tok[p]} /\ raced \subseteq raced' /\ raced' \subseteq raced \cup {n}
        /\ (tok[p] \in raced \/ \E q \in Req : tok[p] \in snap[q]) => n \in raced'
    BY <1>0 DEF RotateCommit
  <1>7. Live' = (Live \cup {n}) \ {tok[p]} /\ Live \subseteq Token
    BY <1>1, <1>2, <1>4, <1>6 DEF TokenInv, TypeOK, Live
  <1>8. /\ pc' \in [Req -> PC] /\ pc[p] = "insert" /\ pc'[p] = "ok"
        /\ \A q \in Req : q # p => pc'[q] = pc[q]
    BY DEF TokenInv, TypeOK, RotateCommit, Goto, PC
  <1>9. TypeOK'
    <2>1. tok' \in [Req -> 0..n] /\ new' \in [Req -> 0..n]
      <3>1. 0..Len(rows) \subseteq 0..n /\ n \in 0..n
        BY ONLY SMTT(30), <1>0, <1>3
      <3>2. tok \in [Req -> 0..Len(rows)] /\ new \in [Req -> 0..Len(rows)]
        BY DEF TokenInv, TypeOK
      <3>3. tok' = tok /\ new' = [new EXCEPT ![p] = n]
        BY <1>0, <1>1 DEF RotateCommit
      <3> QED BY <3>1, <3>2, <3>3
    <2> QED BY <2>1, <1>1, <1>2, <1>3, <1>4, <1>6, <1>8 DEF TokenInv, TypeOK
  <1>10. RowsExist'
    BY <1>1, <1>2, <1>4, <1>5, <1>8 DEF TokenInv, RowsExist, OnToken
  <1>11. LocksHold'
    <2>1. \A q \in Req : pc[q] = "insert" /\ tok[q] = tok[p] => q = p
      BY <1>8 DEF TokenInv, LocksHold
    <2> QED BY <2>1, <1>1, <1>7, <1>8 DEF TokenInv, LocksHold
  <1>12. ChecksSeen'
    BY <1>1, <1>8 DEF TokenInv, ChecksSeen
  <1>13. SnapCovers'
    <2>1. \A q \in Req : pc'[q] \in {"revoking", "leaving"} =>
             pc[q] = pc'[q] /\ tok[q] \in Token
      BY <1>8 DEF TokenInv, RowsExist, OnToken
    <2>2. \A q \in Req : pc'[q] \in {"revoking", "leaving"} /\ FamilyOf(tok[p]) = FamilyOf(tok[q]) =>
             n \in raced'
      BY <2>1, <1>2, <1>6 DEF TokenInv, SnapCovers
    <2> QED BY <2>1, <2>2, <1>1, <1>5, <1>6, <1>7 DEF TokenInv, SnapCovers
  <1>14. RotatedOnce'
    <2>1. /\ \A t \in Token : rows'[t] = rows[t]
          /\ rows'[n].parent = tok[p] /\ rows'[n].family = rows[tok[p]].family
      BY <1>3 DEF FamilyOf
    <2>2. \A t \in Token : rows[t].parent # tok[p]
      BY <1>2, <1>4, Parents DEF Live
    <2>3. ASSUME NEW t \in Token', rows'[t].parent # 0
          PROVE  rows'[t].parent \in rotated' /\ rows'[rows'[t].parent].family = rows'[t].family
      <3>1. CASE t = n
        BY <3>1, <2>1, <1>2, <1>6
      <3>2. CASE t \in Token
        <4>1. rows'[t] = rows[t] /\ rows[t].parent # 0
          BY <3>2, <2>1, <2>3
        <4>2. rows[t].parent \in rotated /\ rows[t].parent \in Token
              /\ rows[rows[t].parent].family = rows[t].family
          BY <3>2, <4>1, Parents
        <4>3. rows'[rows[t].parent] = rows[rows[t].parent]
          BY <4>2, <2>1
        <4> QED BY <4>1, <4>2, <4>3, <1>6
      <3> QED BY <3>1, <3>2, <1>4
    <2>4. ASSUME NEW s \in Token', NEW t \in Token',
                 rows'[s].parent = rows'[t].parent, rows'[t].parent # 0
          PROVE  s = t
      <3>1. CASE s \in Token /\ t \in Token
        <4>1. rows'[s] = rows[s] /\ rows'[t] = rows[t]
          BY <3>1, <2>1
        <4> QED BY <3>1, <4>1, <2>4, Parents
      <3>2. CASE s = n \/ t = n
        BY <3>2, <2>1, <2>2, <2>4, <1>4
      <3> QED BY <3>1, <3>2, <1>4
    <2> QED BY <2>3, <2>4 DEF RotatedOnce, FamilyOf
  <1>15. SurvivesOnlyRace'
    <2>1. FamilyOf(tok[p]) \in dead => n \in raced'
      BY <1>2, <1>6 DEF TokenInv, SurvivesOnlyRace
    <2> QED BY <2>1, <1>1, <1>5, <1>6, <1>7 DEF TokenInv, SurvivesOnlyRace
  <1> QED BY <1>9, <1>10, <1>11, <1>12, <1>13, <1>14, <1>15 DEF TokenInv

-----------------------------------------------------------------------------
\* TokenInv is inductive: whatever the requests, however their statements interleave.
LEMMA TokenStep == TokenInv /\ [Next]_vars => TokenInv'
  <1> SUFFICES ASSUME TokenInv, [Next]_vars PROVE TokenInv'
    OBVIOUS
  <1>1. CASE \E p \in Req : Arrive(p)
    <2>1. PICK p \in Req : Arrive(p)
      BY <1>1
    <2>2. CASE Login(p)
      BY <2>2, BeginKeeps DEF Login
    <2>3. CASE \E t \in Token : Refresh(p, t) \/ Logout(p, t)
      BY <2>3, BeginKeeps DEF Refresh, Logout
    <2> QED BY <2>1, <2>2, <2>3 DEF Arrive
  <1>2. CASE \E p \in Req : Handle(p)
    BY <1>2, ReadKeeps, MintKeepsTokens, RotateCommitKeeps, RevokeKeeps, RevokeCommitKeeps DEF Handle
  <1>3. CASE \E p \in Req : Answer(p) \/ Fail(p)
    BY <1>3, EndKeeps
  <1>4. CASE (\E a \in Account : SetStatus(a)) \/ (\E t \in Token : Expire(t))
    BY <1>4, ChangeKeeps
  <1>5. CASE UNCHANGED vars
    <2>1. UNCHANGED <<rows, rotated, revoked, expired, active, pc, tok, new, snap, changes, seen, dead, raced>>
      BY <1>5 DEF vars, tokenVars, handlerVars, historyVars
    <2>2. /\ RotatedOnce' /\ SurvivesOnlyRace'
          /\ Token' = Token /\ Live' = Live /\ \A t : (FamilyOf(t))' = FamilyOf(t)
      BY <2>1, TablesKept
    <2>3. TypeOK'
      BY <2>1, <2>2 DEF TokenInv, TypeOK
    <2>4. RowsExist' /\ LocksHold' /\ ChecksSeen'
      BY <2>1, <2>2 DEF TokenInv, RowsExist, LocksHold, ChecksSeen
    <2>5. SnapCovers'
      BY <2>1, <2>2 DEF TokenInv, SnapCovers
    <2> QED BY <2>2, <2>3, <2>4, <2>5 DEF TokenInv
  <1> QED BY <1>1, <1>2, <1>3, <1>4, <1>5 DEF Next, Environment

\* The invariant holds of every reachable state of the token table and its handlers.
THEOREM TokenInvariance == Spec => []TokenInv
  BY TokenStep, InitTokens, PTL DEF Spec

\* Of any number of presentations of one token at most one is answered with a successor:
\* auth-service.ts:109-113 over the conditional UPDATE of rotate.
THEOREM OneSuccessor == Spec => []RotatedOnce
  <1>1. TokenInv => RotatedOnce
    BY DEF TokenInv
  <1> QED BY <1>1, TokenInvariance, PTL

\* A refresh or a login that succeeds found tenant and user active while it ran
\* (auth-service.ts:104-108).
THEOREM ChecksHold == Spec => []ActiveToRefresh
  <1>1. TokenInv => ActiveToRefresh
    BY DEF TokenInv, ChecksSeen, ActiveToRefresh
  <1> QED BY <1>1, TokenInvariance, PTL

\* A revocation of a family is complete but for rotations that overlap it
\* (auth-service.ts:99-101 and revokeFamily under READ COMMITTED).
THEOREM RevocationComplete == Spec => []SurvivesOnlyRace
  <1>1. TokenInv => SurvivesOnlyRace
    BY DEF TokenInv
  <1> QED BY <1>1, TokenInvariance, PTL

-----------------------------------------------------------------------------
(* The browser's session *)

\* Where the handler of a refresh works on the token it was presented with,
\* and that of a logout.
Refreshing == {"find", "tenant", "user", "rotate", "insert", "revoke", "revoking"}
Leaving == {"lookup", "leave", "leaving", "done"}

\* A handler runs between the request and its answer, on the token the
\* browser holds; a pair on its way to the browser is not rotated.
Shape(p) ==
  /\ pc[p] = "idle" <=> (call[p] = "none" \/ reply[p] # Pending)
  /\ call[p] = "none" => reply[p] = Pending
  /\ pc[p] \in Refreshing => call[p] \in {"getSession", "tail"} /\ tok[p] = refresh
  /\ pc[p] \in {"slug", "password", "mint"} => call[p] = "login"
  /\ pc[p] \in Leaving => call[p] = "logout" /\ tok[p] = refresh
  /\ pc[p] = "ok" => call[p] # "logout" /\ new[p] \in Token \ rotated
  /\ call[p] = "logout" => reply[p] \in {Pending, Clear}
  /\ reply[p].kind = "write" => reply[p].token \in Token \ rotated

Calls ==
  /\ call \in [Req -> {"none", "getSession", "tail", "login", "logout"}]
  /\ reply \in [Req -> [kind : {"pending", "keep", "clear", "write"}, token : Nat]]
  /\ \A p \in Req : Shape(p)

CookiesMatch == refresh \in 0..Len(rows) /\ (access = "none" <=> refresh = 0)

\* The browser's token is rotated only while the pair that replaces it is on
\* its way.
OnItsWay(p) == call[p] \in {"getSession", "tail"} /\ (pc[p] = "ok" \/ reply[p].kind = "write")
NewestHeld == ~missed /\ refresh \in rotated => \E p \in Req : OnItsWay(p)

\* Why families are revoked.
Why(p) ==
  /\ ~missed /\ pc[p] \in {"revoke", "revoking"} => FamilyOf(tok[p]) \in loggedOut \/ suspended
  /\ pc[p] \in {"lookup", "leave", "leaving"} => FamilyOf(tok[p]) \in loggedOut
  /\ pc[p] \in {"revoking", "leaving"} => \A t \in snap[p] : FamilyOf(t) = FamilyOf(tok[p])

RevokedFor ==
  /\ \A t \in revoked : FamilyOf(t) \in dead
  /\ active # Account => suspended
  /\ ~missed => \A f \in dead : f \in loggedOut \/ suspended
  /\ \A p \in Req : Why(p)

\* After a logout nothing is on its way that would bring a session back, but
\* for a login.
Quiet(p) == call[p] \notin {"none", "login"} => reply[p] = Clear
LeftAlone == gone => refresh = 0 /\ \A p \in Req : Quiet(p)

WebInv == TokenInv /\ Calls /\ CookiesMatch /\ NewestHeld /\ RevokedFor /\ LeftAlone

LEMMA Replies ==
  /\ Pending.kind = "pending" /\ Keep.kind = "keep" /\ Clear.kind = "clear"
  /\ Pending.token = 0 /\ Keep.token = 0 /\ Clear.token = 0
  /\ \A t : Write(t).kind = "write" /\ Write(t).token = t
  /\ {Pending, Keep, Clear} \subseteq [kind : {"pending", "keep", "clear", "write"}, token : Nat]
  /\ \A t \in Nat : Write(t) \in [kind : {"pending", "keep", "clear", "write"}, token : Nat]
BY SMTT(30) DEF Pending, Keep, Clear, Write

LEMMA RepliesDiffer ==
  Pending # Keep /\ Pending # Clear /\ Keep # Clear /\ \A t : Write(t) \notin {Pending, Keep, Clear}
<1>1. "pending" # "keep" /\ "pending" # "clear" /\ "keep" # "clear" /\ "write" \notin {"pending", "keep", "clear"}
  OBVIOUS
<1> QED BY <1>1, Replies

LEMMA WebStarts == WebInit => WebInv
<1> SUFFICES ASSUME WebInit PROVE WebInv
  OBVIOUS
<1>1. TokenInv
  BY InitTokens DEF WebInit
<1>2. rows = <<>> /\ rotated = {} /\ revoked = {} /\ dead = {} /\ active = Account /\ pc = [p \in Req |-> "idle"]
  BY DEF WebInit, Init
<1>3. 0 \in 0..Len(rows)
  BY SMTT(30), <1>2
<1>4. Calls
  BY <1>2, Replies DEF WebInit, Calls, Shape, Refreshing, Leaving
<1>5. CookiesMatch /\ NewestHeld /\ LeftAlone
  BY <1>2, <1>3 DEF WebInit, CookiesMatch, NewestHeld, LeftAlone
<1>6. RevokedFor
  BY <1>2 DEF RevokedFor, Why
<1> QED BY <1>1, <1>4, <1>5, <1>6 DEF WebInv

-----------------------------------------------------------------------------
(* One request at a time *)

\* The parts of the invariant, said of the one request there is.
Parts(p) ==
  /\ call \in [Req -> {"none", "getSession", "tail", "login", "logout"}]
  /\ reply \in [Req -> [kind : {"pending", "keep", "clear", "write"}, token : Nat]]
  /\ Shape(p) /\ CookiesMatch
  /\ ~missed /\ refresh \in rotated => OnItsWay(p)
  /\ \A t \in revoked : FamilyOf(t) \in dead
  /\ active # Account => suspended
  /\ ~missed => \A f \in dead : f \in loggedOut \/ suspended
  /\ Why(p)
  /\ gone => refresh = 0 /\ Quiet(p)

LEMMA PartsOf ==
  ASSUME NEW p \in Req, \A q \in Req : q = p
  PROVE  (Calls /\ CookiesMatch /\ NewestHeld /\ RevokedFor /\ LeftAlone) <=> Parts(p)
BY DEF Parts, Calls, NewestHeld, RevokedFor, LeftAlone

LEMMA PartsGive ==
  ASSUME NEW p \in Req, \A q \in Req : q = p, TokenInv', Parts(p)'
  PROVE  WebInv'
BY DEF Parts, WebInv, Calls, NewestHeld, RevokedFor, LeftAlone

\* What one step of the one request knows.
LEMMA TypesOf ==
  ASSUME TokenInv, NEW p \in Req
  PROVE  /\ pc \in [Req -> PC] /\ tok \in [Req -> 0..Len(rows)] /\ new \in [Req -> 0..Len(rows)]
         /\ snap \in [Req -> SUBSET Token] /\ Len(rows) \in Nat /\ Token \subseteq Nat /\ 0 \notin Token
         /\ rotated \subseteq Token /\ revoked \subseteq Token /\ dead \subseteq Token
         /\ pc[p] \in OnToken => tok[p] \in Token
         /\ \A t \in Token : FamilyOf(t) \in Token
<1>1. Len(rows) \in Nat
  BY SMTT(30) DEF TokenInv, TypeOK
<1>2. Token \subseteq Nat /\ 0 \notin Token
  BY SMTT(30), <1>1 DEF Token
<1> QED BY <1>1, <1>2 DEF TokenInv, TypeOK, RowsExist

\* A request is sent: with the token the browser holds, or to log in.
LEMMA SendStep ==
  ASSUME WebInv, NEW p \in Req, \A q \in Req : q = p,
         NEW h, NEW label, NEW t, Send(p, h), Begin(p, label, t), loggedOut \subseteq loggedOut',
         \/ label = "find" /\ h \in {"getSession", "tail"} /\ t = refresh /\ refresh # 0
         \/ label = "lookup" /\ h = "logout" /\ t = refresh /\ refresh # 0 /\ FamilyOf(refresh) \in loggedOut'
         \/ label = "slug" /\ h = "login" /\ t = 0
  PROVE  WebInv'
<1>1. Parts(p) /\ TokenInv
  BY PartsOf DEF WebInv
<1>2. /\ call[p] = "none" /\ call' = [call EXCEPT ![p] = h] /\ UNCHANGED <<access, refresh, reply, missed, suspended, gone>>
      /\ pc[p] = "idle" /\ pc' = [pc EXCEPT ![p] = label] /\ tok' = [tok EXCEPT ![p] = t]
      /\ UNCHANGED <<rows, rotated, revoked, active, snap, dead>>
  BY DEF Send, Begin, Goto, cookieVars, tokenVars
<1>3. call'[p] = h /\ pc'[p] = label /\ tok'[p] = t
  BY <1>1, <1>2, TypesOf DEF Parts
<1>4. reply[p] = Pending
  BY <1>1, <1>2 DEF Parts, Shape
<1>5. call' \in [Req -> {"none", "getSession", "tail", "login", "logout"}]
  BY <1>1, <1>2 DEF Parts
<1>6. Token' = Token /\ \A u : FamilyOf(u)' = FamilyOf(u)
  BY <1>2 DEF Token, FamilyOf
<1>7. Shape(p)'
  BY <1>2, <1>3, <1>4, Replies DEF Shape, Refreshing, Leaving
<1>8. ~missed => refresh \notin rotated
  BY <1>1, <1>2, <1>4, Replies DEF Parts, OnItsWay
<1>9. CookiesMatch'
  BY <1>1, <1>2 DEF Parts, CookiesMatch
<1>10. Why(p)'
  BY <1>2, <1>3, <1>6 DEF Why
<1>11. gone' => refresh' = 0 /\ Quiet(p)'
  BY <1>1, <1>2, <1>3 DEF Parts, Quiet
<1>12. Parts(p)'
  BY <1>1, <1>2, <1>5, <1>6, <1>7, <1>8, <1>9, <1>10, <1>11 DEF Parts
<1>13. TokenInv'
  <2>1. refresh # 0 => refresh \in Token
    BY SMTT(30), <1>1 DEF Parts, CookiesMatch, Token
  <2> QED BY <1>1, <2>1, BeginKeeps
<1> QED BY <1>12, <1>13, PartsGive

\* A step that leaves the control-plane alone.
LEMMA StoreKept ==
  ASSUME TokenInv, UNCHANGED vars
  PROVE  TokenInv' /\ Token' = Token /\ \A u : FamilyOf(u)' = FamilyOf(u)
BY TokenStep DEF vars, tokenVars, Token, FamilyOf

LEMMA SendWithoutStep ==
  ASSUME WebInv, NEW p \in Req, \A q \in Req : q = p, SendWithout(p)
  PROVE  WebInv'
<1>1. Parts(p) /\ TokenInv
  BY PartsOf DEF WebInv
<1>2. PICK h \in {"getSession", "logout"} : call' = [call EXCEPT ![p] = h]
  BY DEF SendWithout
<1>3. /\ refresh = 0 /\ call[p] = "none" /\ reply' = [reply EXCEPT ![p] = Clear]
      /\ UNCHANGED vars /\ UNCHANGED <<access, refresh, missed, loggedOut, suspended, gone>>
  BY DEF SendWithout, cookieVars
<1>4. UNCHANGED <<rows, rotated, revoked, active, snap, dead, pc, tok, new>>
  BY <1>3 DEF vars, tokenVars, handlerVars, historyVars
<1>5. TokenInv' /\ Token' = Token /\ \A u : FamilyOf(u)' = FamilyOf(u)
  BY <1>1, <1>3, StoreKept
<1>6. /\ call' \in [Req -> {"none", "getSession", "tail", "login", "logout"}] /\ call'[p] = h
      /\ reply' \in [Req -> [kind : {"pending", "keep", "clear", "write"}, token : Nat]] /\ reply'[p] = Clear
  BY <1>1, <1>2, <1>3, Replies DEF Parts
<1>7. pc[p] = "idle"
  BY <1>1, <1>3 DEF Parts, Shape
<1>8. Shape(p)'
  BY <1>4, <1>6, <1>7, Replies, RepliesDiffer DEF Shape, Refreshing, Leaving
<1>9. refresh \notin rotated
  BY <1>1, <1>3, TypesOf
<1>10. CookiesMatch' /\ Why(p)' /\ Quiet(p)'
  BY <1>1, <1>3, <1>4, <1>6, <1>7 DEF Parts, CookiesMatch, Why, Quiet
<1>11. Parts(p)'
  BY <1>1, <1>3, <1>4, <1>5, <1>6, <1>8, <1>9, <1>10 DEF Parts
<1> QED BY <1>5, <1>11, PartsGive

\* A handler at work has no answer yet, so nothing is on its way.
LEMMA AtWork ==
  ASSUME NEW p \in Req, Parts(p), pc[p] \notin {"idle", "ok"}
  PROVE  call[p] # "none" /\ reply[p] = Pending /\ (~missed => refresh \notin rotated)
BY Replies DEF Parts, Shape, OnItsWay

\* The steps that only read: reuse is met only in a family that is dead.
LEMMA ReadStep ==
  ASSUME WebInv, NEW p \in Req, \A q \in Req : q = p, UNCHANGED webVars,
         Credentials(p) \/ FindById(p) \/ CheckAccount(p) \/ Rotate(p) \/ LogoutFindById(p)
  PROVE  Parts(p)'
<1>1. Parts(p) /\ TokenInv
  BY PartsOf DEF WebInv
<1>2. /\ UNCHANGED <<rows, rotated, revoked, active, tok, new, snap, dead>>
      /\ UNCHANGED <<access, refresh, call, reply, missed, loggedOut, suspended, gone>>
  BY DEF Credentials, FindById, CheckAccount, Rotate, LogoutFindById, tokenVars, historyVars, webVars, cookieVars
<1>3. Token' = Token /\ \A u : FamilyOf(u)' = FamilyOf(u)
  BY <1>2 DEF Token, FamilyOf
<1>4. pc[p] \in {"slug", "password", "find", "tenant", "user", "rotate", "lookup"}
  BY DEF Credentials, FindById, CheckAccount, Rotate, LogoutFindById
<1>5. call[p] # "none" /\ reply[p] = Pending /\ (~missed => refresh \notin rotated)
  BY <1>1, <1>4, AtWork
<1>6. \/ pc[p] \in {"slug", "password"} /\ pc'[p] \in {"password", "mint", "rejected"}
      \/ /\ pc[p] \in {"find", "tenant", "user", "rotate"}
         /\ pc'[p] \in {"tenant", "user", "rotate", "insert", "revoke", "rejected"}
         /\ pc'[p] = "revoke" => tok[p] \in rotated \cup revoked \/ active # Account
      \/ pc[p] = "lookup" /\ pc'[p] = "leave"
  <2>1. \A l : pc' = [pc EXCEPT ![p] = l] => pc'[p] = l
    BY <1>1, TypesOf
  <2>2. CASE Credentials(p)
    BY <2>1, <2>2 DEF Credentials, Goto
  <2>3. CASE FindById(p) \/ Rotate(p)
    BY <2>1, <2>3 DEF FindById, Rotate, Goto
  <2>4. CASE CheckAccount(p)
    <3>1. pc[p] \in {"tenant", "user"} /\ pc[p] \in Account
      BY <2>4 DEF CheckAccount, Account
    <3> QED BY <2>1, <2>4, <3>1 DEF CheckAccount, Goto
  <2>5. CASE LogoutFindById(p)
    BY <2>1, <2>5 DEF LogoutFindById, Goto
  <2> QED BY <2>2, <2>3, <2>4, <2>5
<1>7. Shape(p)'
  BY <1>1, <1>2, <1>3, <1>5, <1>6, Replies DEF Parts, Shape, Refreshing, Leaving
<1>8. ~missed /\ pc'[p] = "revoke" => FamilyOf(tok[p]) \in loggedOut \/ suspended
  <2> SUFFICES ASSUME ~missed, pc'[p] = "revoke" PROVE FamilyOf(tok[p]) \in loggedOut \/ suspended
    OBVIOUS
  <2>1. tok[p] = refresh /\ (tok[p] \in rotated \cup revoked \/ active # Account)
    BY <1>1, <1>6 DEF Parts, Shape, Refreshing
  <2>2. tok[p] \in revoked \/ active # Account
    BY <1>5, <2>1
  <2> QED BY <1>1, <2>2 DEF Parts
<1>9. Why(p)'
  BY <1>1, <1>2, <1>3, <1>6, <1>8 DEF Parts, Why
<1>10. CookiesMatch' /\ (Quiet(p) => Quiet(p)')
  BY <1>1, <1>2 DEF Parts, CookiesMatch, Quiet
<1> QED BY <1>1, <1>2, <1>3, <1>5, <1>7, <1>9, <1>10 DEF Parts

\* The steps that add a row: its pair is not rotated, and the row it was
\* rotated from is the one the browser holds.
LEMMA MintStep ==
  ASSUME WebInv, NEW p \in Req, \A q \in Req : q = p, UNCHANGED webVars, mintRefreshToken(p) \/ RotateCommit(p)
  PROVE  Parts(p)'
<1>1. Parts(p) /\ TokenInv
  BY PartsOf DEF WebInv
<1>2. /\ UNCHANGED <<revoked, active, snap, dead, tok>>
      /\ UNCHANGED <<access, refresh, call, reply, missed, loggedOut, suspended, gone>>
      /\ pc' = [pc EXCEPT ![p] = "ok"] /\ new' = [new EXCEPT ![p] = Len(rows) + 1]
      /\ \/ pc[p] = "mint" /\ rotated' = rotated
         \/ pc[p] = "insert" /\ rotated' = rotated \cup {tok[p]}
  BY DEF mintRefreshToken, RotateCommit, Goto, historyVars, webVars, cookieVars
<1>3. PICK r : rows' = Append(rows, r)
  BY DEF mintRefreshToken, RotateCommit
<1>4. /\ rows \in Seq([family : 1..MaxTokens, parent : 0..MaxTokens]) /\ rotated \subseteq Token /\ revoked \subseteq Token
      /\ (pc[p] \in OnToken => tok[p] \in Token)
  BY <1>1, TypesOf DEF TokenInv, TypeOK
<1>5. /\ Len(rows) \in Nat /\ Len(rows') = Len(rows) + 1 /\ (\A t \in Token : rows'[t] = rows[t])
      /\ Token \subseteq Token' /\ Len(rows) + 1 \in Token' /\ Len(rows) + 1 \notin Token
      /\ 0..Len(rows) \subseteq 0..Len(rows')
  BY SMTT(30), <1>3, <1>4 DEF Token
<1>6. \A t \in Token : FamilyOf(t)' = FamilyOf(t)
  BY <1>5 DEF FamilyOf
<1>7. pc'[p] = "ok" /\ new'[p] = Len(rows) + 1
  BY <1>1, <1>2, TypesOf
<1>8. call[p] # "none" /\ reply[p] = Pending /\ (~missed => refresh \notin rotated) /\ call[p] # "logout"
      /\ (pc[p] = "insert" => tok[p] = refresh /\ call[p] \in {"getSession", "tail"} /\ tok[p] \in Token)
      /\ (pc[p] = "mint" => call[p] = "login")
  BY <1>1, <1>2, <1>4, AtWork DEF Parts, Shape, Refreshing, OnToken
<1>9. Len(rows) + 1 \in Token' \ rotated'
  BY <1>2, <1>4, <1>5, <1>8
<1>10. Shape(p)'
  BY <1>2, <1>7, <1>8, <1>9, Replies DEF Shape, Refreshing, Leaving
<1>11. ~missed' /\ refresh' \in rotated' => OnItsWay(p)'
  BY <1>2, <1>7, <1>8 DEF OnItsWay
<1>12. CookiesMatch' /\ Why(p)' /\ (Quiet(p) => Quiet(p)')
  BY <1>1, <1>2, <1>5, <1>7 DEF Parts, CookiesMatch, Why, Quiet
<1>13. \A t \in revoked : FamilyOf(t)' \in dead
  BY <1>1, <1>4, <1>6 DEF Parts
<1> QED BY <1>1, <1>2, <1>10, <1>11, <1>12, <1>13 DEF Parts

\* The steps of a revokeFamily.
LEMMA RevokeStep ==
  ASSUME WebInv, NEW p \in Req, \A q \in Req : q = p, UNCHANGED webVars, RevokeFamily(p) \/ RevokeFamilyCommit(p)
  PROVE  Parts(p)'
<1>1. Parts(p) /\ TokenInv
  BY PartsOf DEF WebInv
<1>2. /\ UNCHANGED <<rows, rotated, active, tok, new>>
      /\ UNCHANGED <<access, refresh, call, reply, missed, loggedOut, suspended, gone>>
      /\ pc[p] \in {"revoke", "leave", "revoking", "leaving"}
  BY DEF RevokeFamily, RevokeFamilyCommit, tokenVars, historyVars, webVars, cookieVars
<1>3. Token' = Token /\ \A u : FamilyOf(u)' = FamilyOf(u)
  BY <1>2 DEF Token, FamilyOf
<1>4. call[p] # "none" /\ reply[p] = Pending /\ (~missed => refresh \notin rotated)
  BY <1>1, <1>2, AtWork
<1>5. CookiesMatch' /\ (Quiet(p) => Quiet(p)')
  BY <1>1, <1>2 DEF Parts, CookiesMatch, Quiet
<1>6. CASE RevokeFamily(p)
  <2>1. /\ (pc[p] = "revoke" /\ pc'[p] = "revoking") \/ (pc[p] = "leave" /\ pc'[p] = "leaving")
        /\ snap'[p] = Family(FamilyOf(tok[p])) \ revoked /\ UNCHANGED <<revoked, dead>>
    BY <1>1, <1>6, TypesOf DEF RevokeFamily, Goto, tokenVars, historyVars
  <2>2. Shape(p)'
    BY <1>1, <1>2, <1>3, <1>4, <2>1, Replies DEF Parts, Shape, Refreshing, Leaving
  <2>3. Why(p)'
    BY <1>1, <1>2, <1>3, <2>1 DEF Parts, Why, Family
  <2> QED BY <1>1, <1>2, <1>3, <1>4, <1>5, <2>1, <2>2, <2>3 DEF Parts
<1>7. CASE RevokeFamilyCommit(p)
  <2>1. /\ (pc[p] = "revoking" /\ pc'[p] = "rejected") \/ (pc[p] = "leaving" /\ pc'[p] = "done")
        /\ revoked' = revoked \cup snap[p] /\ dead' = dead \cup {FamilyOf(tok[p])}
    BY <1>1, <1>7, TypesOf DEF RevokeFamilyCommit, Goto
  <2>2. Shape(p)'
    BY <1>1, <1>2, <1>3, <1>4, <2>1, Replies DEF Parts, Shape, Refreshing, Leaving
  <2>3. Why(p)'
    BY <2>1 DEF Why
  <2>4. \A t \in revoked' : FamilyOf(t)' \in dead'
    BY <1>1, <1>3, <2>1 DEF Parts, Why
  <2>5. ~missed' => \A f \in dead' : f \in loggedOut' \/ suspended'
    BY <1>1, <1>2, <2>1 DEF Parts, Why
  <2> QED BY <1>1, <1>2, <1>3, <1>4, <1>5, <2>2, <2>3, <2>4, <2>5 DEF Parts
<1> QED BY <1>6, <1>7

\* The BFF answers: a pair is handed on, or missed, or there was none.
LEMMA AnswerStep ==
  ASSUME WebInv, NEW p \in Req, \A q \in Req : q = p, BffAnswer(p)
  PROVE  Parts(p)'
<1>1. Parts(p) /\ TokenInv
  BY PartsOf DEF WebInv
<1>2. /\ reply[p] = Pending /\ pc[p] \in Answered /\ pc' = [pc EXCEPT ![p] = "idle"]
      /\ UNCHANGED <<rows, rotated, revoked, active, dead>>
      /\ UNCHANGED <<access, refresh, call, loggedOut, suspended, gone>>
  BY DEF BffAnswer, Answer, Goto, tokenVars, cookieVars
<1>3. Token' = Token /\ \A u : FamilyOf(u)' = FamilyOf(u)
  BY <1>2 DEF Token, FamilyOf
<1>4. pc'[p] = "idle"
  BY <1>1, <1>2, TypesOf
<1>5. pc[p] = "ok" => call[p] # "logout" /\ new[p] \in Token \ rotated
  BY <1>1 DEF Parts, Shape
<1>6. PICK r : /\ reply' = [reply EXCEPT ![p] = r]
               /\ \/ r = Clear /\ call[p] \in {"logout", "getSession"} /\ pc[p] # "ok" /\ missed' = missed
                  \/ /\ r = Write(new[p]) /\ call[p] \in {"getSession", "login", "tail"} /\ pc[p] = "ok"
                     /\ missed' = missed
                  \/ r = Keep /\ call[p] = "tail" /\ missed' = TRUE
                  \/ r = Keep /\ call[p] \in {"tail", "login"} /\ pc[p] # "ok" /\ missed' = missed
  <2>1. CASE call[p] = "logout" /\ reply' = [reply EXCEPT ![p] = LogoutCookies(p)] /\ UNCHANGED missed
    BY <1>5, <2>1 DEF LogoutCookies
  <2>2. CASE call[p] \in {"getSession", "login"} /\ pc[p] = "ok" /\ reply' = [reply EXCEPT ![p] = Write(new[p])] /\ UNCHANGED missed
    BY <2>2
  <2>3. CASE call[p] = "tail" /\ pc[p] = "ok" /\ reply' = [reply EXCEPT ![p] = TailCookies(p)] /\ UNCHANGED missed
    BY <2>3 DEF TailCookies
  <2>4. CASE call[p] = "tail" /\ pc[p] = "ok" /\ reply' = [reply EXCEPT ![p] = Keep] /\ missed' = TRUE
    BY <2>4
  <2>5. CASE call[p] = "getSession" /\ pc[p] \in {"rejected", "failed"} /\ reply' = [reply EXCEPT ![p] = Clear] /\ UNCHANGED missed
    BY <2>5
  <2>6. CASE call[p] \in {"tail", "login"} /\ pc[p] \in {"rejected", "failed"} /\ reply' = [reply EXCEPT ![p] = Keep] /\ UNCHANGED missed
    BY <2>6
  <2> QED BY ZenonT(100), <2>1, <2>2, <2>3, <2>4, <2>5, <2>6 DEF BffAnswer
<1>7. r \in [kind : {"pending", "keep", "clear", "write"}, token : Nat] /\ r # Pending
      /\ (r.kind = "write" => r.token \in Token \ rotated) /\ (call[p] = "logout" => r = Clear)
  <2>1. pc[p] = "ok" => new[p] \in Nat
    BY <1>1, <1>5, TypesOf
  <2> QED BY ZenonT(100), <1>5, <1>6, <2>1, Replies, RepliesDiffer
<1>8. reply' \in [Req -> [kind : {"pending", "keep", "clear", "write"}, token : Nat]] /\ reply'[p] = r
  BY <1>1, <1>6, <1>7 DEF Parts
<1>9. call[p] # "none"
  BY <1>6
<1>10. Shape(p)'
  BY <1>2, <1>3, <1>4, <1>7, <1>8, <1>9 DEF Shape, Refreshing, Leaving
<1>11. ~missed' /\ refresh' \in rotated' => OnItsWay(p)'
  <2>1. ~missed /\ refresh \in rotated /\ pc[p] = "ok" => call[p] \in {"getSession", "tail"}
    BY <1>1 DEF Parts, OnItsWay
  <2>2. ~missed /\ pc[p] # "ok" => refresh \notin rotated
    BY <1>1, <1>2, AtWork DEF Answered
  <2>3. pc[p] = "ok" /\ ~missed' => r = Write(new[p]) /\ ~missed
    BY <1>6
  <2>4. pc[p] # "ok" /\ ~missed' => ~missed
    BY <1>6
  <2>5. r = Write(new[p]) => reply'[p].kind = "write"
    BY <1>8, Replies
  <2>6. refresh' = refresh /\ rotated' = rotated /\ call' = call
    BY <1>2
  <2> QED BY <2>1, <2>2, <2>3, <2>4, <2>5, <2>6 DEF OnItsWay
<1>12. gone => Quiet(p)'
  <2>1. gone => call[p] = "login"
    BY <1>1, <1>2, <1>9, RepliesDiffer DEF Parts, Quiet
  <2> QED BY <1>2, <2>1 DEF Quiet
<1>13. CookiesMatch' /\ Why(p)'
  BY <1>1, <1>2, <1>4 DEF Parts, CookiesMatch, Why
<1>14. ~missed' => ~missed
  BY <1>6
<1> QED BY <1>1, <1>2, <1>3, <1>8, <1>10, <1>11, <1>12, <1>13, <1>14 DEF Parts

\* The request is over, with or without its answer.
LEMMA OverStep ==
  ASSUME WebInv, NEW p \in Req, \A q \in Req : q = p, Received(p), CookiesMatch',
         ~missed' => ~missed /\ refresh' \notin rotated, gone' => refresh' = 0
  PROVE  Parts(p)'
<1>1. Parts(p) /\ TokenInv
  BY PartsOf DEF WebInv
<1>2. /\ call' = [call EXCEPT ![p] = "none"] /\ reply' = [reply EXCEPT ![p] = Pending] /\ reply[p] # Pending
      /\ UNCHANGED <<rows, rotated, revoked, active, dead, pc, tok, new, snap, loggedOut, suspended>>
  BY DEF Received, tokenVars, handlerVars, historyVars
<1>3. Token' = Token /\ \A u : FamilyOf(u)' = FamilyOf(u)
  BY <1>2 DEF Token, FamilyOf
<1>4. /\ call' \in [Req -> {"none", "getSession", "tail", "login", "logout"}] /\ call'[p] = "none"
      /\ reply' \in [Req -> [kind : {"pending", "keep", "clear", "write"}, token : Nat]] /\ reply'[p] = Pending
  BY <1>1, <1>2, Replies DEF Parts
<1>5. pc[p] = "idle"
  BY <1>1, <1>2 DEF Parts, Shape
<1>6. Shape(p)' /\ Why(p)' /\ Quiet(p)'
  BY <1>2, <1>4, <1>5, Replies DEF Shape, Refreshing, Leaving, Why, Quiet
<1> QED BY <1>1, <1>2, <1>3, <1>4, <1>6 DEF Parts

\* What is known of an answer when it is there.
LEMMA AtHand ==
  ASSUME NEW p \in Req, Parts(p), reply[p] # Pending
  PROVE  /\ call[p] # "none"
         /\ ~missed /\ reply[p].kind # "write" => refresh \notin rotated
         /\ reply[p].kind = "write" => reply[p].token \in Token \ rotated
         /\ gone /\ call[p] # "login" => reply[p] = Clear
         /\ call[p] = "logout" => reply[p] = Clear
<1>1. pc[p] = "idle" /\ call[p] # "none"
  BY DEF Parts, Shape
<1>2. pc[p] # "ok"
  BY <1>1
<1> QED BY <1>1, <1>2 DEF Parts, Shape, OnItsWay, Quiet

LEMMA DeliverStep ==
  ASSUME WebInv, NEW p \in Req, \A q \in Req : q = p, Deliver(p)
  PROVE  WebInv'
<1>1. Parts(p) /\ TokenInv
  BY PartsOf DEF WebInv
<1>2. /\ Received(p) /\ reply[p] # Pending /\ missed' = missed /\ changes' = changes
      /\ gone' = (call[p] # "login" /\ (gone \/ call[p] = "logout"))
  BY DEF Deliver, Received
<1>3. UNCHANGED vars
  BY <1>2 DEF Received, vars
<1>4. TokenInv' /\ rows' = rows /\ rotated' = rotated
  BY <1>1, <1>3, StoreKept DEF vars, tokenVars
<1>5. /\ call[p] # "none" /\ (~missed /\ reply[p].kind # "write" => refresh \notin rotated)
      /\ (reply[p].kind = "write" => reply[p].token \in Token \ rotated)
      /\ (gone /\ call[p] # "login" => reply[p] = Clear) /\ (call[p] = "logout" => reply[p] = Clear)
  BY <1>1, <1>2, AtHand
<1>6. 0 \notin rotated /\ 0 \in 0..Len(rows) /\ \A t \in Token : t # 0 /\ t \in 0..Len(rows)
  <2>1. 0 \notin rotated /\ Len(rows) \in Nat
    BY <1>1, TypesOf
  <2> QED BY SMTT(30), <2>1 DEF Token
<1>7. gone' => reply[p] = Clear
  BY <1>2, <1>5
<1>8. CASE reply[p] = Keep /\ UNCHANGED cookieVars
  <2>1. access' = access /\ refresh' = refresh /\ reply[p].kind # "write" /\ reply[p] # Clear
    BY <1>8, Replies, RepliesDiffer DEF cookieVars
  <2>2. CookiesMatch'
    BY <1>1, <1>4, <2>1 DEF Parts, CookiesMatch
  <2>3. Parts(p)'
    BY <1>2, <1>5, <1>7, <2>1, <2>2, OverStep
  <2> QED BY <1>4, <2>3, PartsGive
<1>9. CASE reply[p] = Clear /\ access' = "none" /\ refresh' = 0
  <2>1. CookiesMatch'
    BY <1>4, <1>6, <1>9 DEF CookiesMatch
  <2>2. Parts(p)'
    BY <1>2, <1>6, <1>9, <2>1, OverStep
  <2> QED BY <1>4, <2>2, PartsGive
<1>10. CASE reply[p].kind = "write" /\ access' = "valid" /\ refresh' = reply[p].token
  <2>1. refresh' \in Token \ rotated /\ reply[p] # Clear
    BY <1>5, <1>10, Replies
  <2>2. CookiesMatch'
    BY <1>4, <1>6, <1>10, <2>1 DEF CookiesMatch
  <2>3. Parts(p)'
    BY <1>2, <1>7, <2>1, <2>2, OverStep
  <2> QED BY <1>4, <2>3, PartsGive
<1> QED BY <1>8, <1>9, <1>10 DEF Deliver

\* A change that the tokens do not see, and a pair that is lost.
LEMMA LossKeeps ==
  ASSUME TokenInv, NEW p \in Req, Change, UNCHANGED <<tokenVars, active, tok, new, snap, historyVars>>,
         pc' = pc \/ (pc[p] = "ok" /\ pc' = [pc EXCEPT ![p] = "failed"])
  PROVE  TokenInv'
<1>1. UNCHANGED <<rows, rotated, revoked, expired, active, dead, raced, tok, new, snap, seen>>
  BY DEF tokenVars, historyVars
<1>2. RotatedOnce' /\ SurvivesOnlyRace' /\ Token' = Token /\ Live' = Live
      /\ \A u : (FamilyOf(u))' = FamilyOf(u)
  BY <1>1, TablesKept
<1>3. changes' \in 0..MaxChanges
  <2>1. changes \in 0..MaxChanges /\ changes < MaxChanges /\ changes' = changes + 1 /\ MaxChanges \in Nat
    BY TokensAssumption DEF TokenInv, TypeOK, Change
  <2> QED BY SMTT(30), <2>1
<1>4. /\ pc' \in [Req -> PC]
      /\ \A q \in Req : pc'[q] = pc[q] \/ (pc[q] = "ok" /\ pc'[q] = "failed")
  BY DEF TokenInv, TypeOK, PC
<1>5. TypeOK'
  BY <1>1, <1>2, <1>3, <1>4 DEF TokenInv, TypeOK
<1>6. RowsExist' /\ LocksHold'
  <2>1. \A q \in Req : pc'[q] \in OnToken => pc'[q] = pc[q]
    BY <1>4 DEF OnToken
  <2>2. \A q \in Req : pc'[q] = "insert" => pc[q] = "insert"
    BY <1>4
  <2> QED BY <1>1, <1>2, <2>1, <2>2 DEF TokenInv, RowsExist, LocksHold
<1>7. ChecksSeen' /\ SnapCovers'
  <2>1. \A q \in Req : pc'[q] # "idle" => pc[q] # "idle"
    BY <1>4
  <2>2. \A q \in Req, l \in {"password", "user", "mint", "rotate", "insert", "ok", "revoking", "leaving"} : pc'[q] = l => pc[q] = l
    BY <1>4
  <2> QED BY <1>1, <1>2, <2>1, <2>2 DEF TokenInv, ChecksSeen, SnapCovers
<1> QED BY <1>2, <1>5, <1>6, <1>7 DEF TokenInv

LEMMA AnswerLostStep ==
  ASSUME WebInv, NEW p \in Req, \A q \in Req : q = p, AnswerLost(p)
  PROVE  WebInv'
<1>1. Parts(p) /\ TokenInv
  BY PartsOf DEF WebInv
<1>2. /\ Received(p) /\ reply[p] # Pending /\ missed' = (missed \/ reply[p].kind = "write") /\ Change
      /\ UNCHANGED <<access, refresh, gone>>
  BY DEF AnswerLost, Received, cookieVars
<1>3. UNCHANGED <<tokenVars, active, tok, new, snap, historyVars>> /\ pc' = pc /\ rows' = rows
  BY <1>2 DEF Received, handlerVars, tokenVars
<1>4. TokenInv'
  BY <1>1, <1>2, <1>3, LossKeeps
<1>5. ~missed /\ reply[p].kind # "write" => refresh \notin rotated
  BY <1>1, <1>2, AtHand
<1>6. CookiesMatch' /\ (gone' => refresh' = 0)
  BY <1>1, <1>2, <1>3 DEF Parts, CookiesMatch
<1>7. Parts(p)'
  BY <1>2, <1>5, <1>6, OverStep
<1> QED BY <1>4, <1>7, PartsGive

LEMMA PairLostStep ==
  ASSUME WebInv, NEW p \in Req, \A q \in Req : q = p, PairLost(p)
  PROVE  WebInv'
<1>1. Parts(p) /\ TokenInv
  BY PartsOf DEF WebInv
<1>2. /\ pc[p] = "ok" /\ pc' = [pc EXCEPT ![p] = "failed"] /\ missed' = TRUE /\ Change
      /\ UNCHANGED <<tokenVars, active, tok, new, snap, historyVars>>
      /\ UNCHANGED <<access, refresh, call, reply, loggedOut, suspended, gone>>
  BY DEF PairLost, Goto, cookieVars
<1>3. UNCHANGED <<rows, rotated, revoked, dead>>
  BY <1>2 DEF tokenVars, historyVars
<1>4. Token' = Token /\ \A u : FamilyOf(u)' = FamilyOf(u)
  BY <1>3 DEF Token, FamilyOf
<1>5. TokenInv' /\ pc'[p] = "failed"
  BY <1>1, <1>2, LossKeeps, TypesOf
<1>6. Shape(p)' /\ Why(p)' /\ (Quiet(p) => Quiet(p)') /\ CookiesMatch'
  BY <1>1, <1>2, <1>3, <1>4, <1>5 DEF Parts, Shape, Refreshing, Leaving, Why, Quiet, CookiesMatch
<1>7. Parts(p)'
  BY <1>1, <1>2, <1>3, <1>4, <1>6 DEF Parts
<1> QED BY <1>5, <1>7, PartsGive

\* The access token runs out: the refresh token is still there.
LEMMA ExpiryStep ==
  ASSUME WebInv, NEW p \in Req, \A q \in Req : q = p, AccessExpires
  PROVE  WebInv'
<1>1. Parts(p) /\ TokenInv
  BY PartsOf DEF WebInv
<1>2. UNCHANGED vars /\ UNCHANGED <<refresh, call, reply, missed, loggedOut, suspended, gone>>
      /\ access = "valid" /\ access' = "expired"
  BY DEF AccessExpires
<1>3. TokenInv' /\ Token' = Token /\ \A u : FamilyOf(u)' = FamilyOf(u)
  BY <1>1, <1>2, StoreKept
<1>4. UNCHANGED <<rows, rotated, revoked, active, pc, tok, new, snap, dead>>
  BY <1>2 DEF vars, tokenVars, handlerVars, historyVars
<1>5. CookiesMatch'
  BY <1>1, <1>2, <1>4 DEF Parts, CookiesMatch
<1>6. Shape(p)' /\ Why(p)' /\ (OnItsWay(p) => OnItsWay(p)') /\ (Quiet(p) => Quiet(p)')
  BY <1>1, <1>2, <1>3, <1>4 DEF Parts, Shape, Why, OnItsWay, Quiet, Refreshing, Leaving
<1>7. Parts(p)'
  BY <1>1, <1>2, <1>3, <1>4, <1>5, <1>6 DEF Parts
<1> QED BY <1>3, <1>7, PartsGive

\* A statement fails, a status changes, a refresh token runs out.
LEMMA SurroundingsStep ==
  ASSUME WebInv, NEW p \in Req, \A q \in Req : q = p, Surroundings
  PROVE  WebInv'
<1>1. Parts(p) /\ TokenInv
  BY PartsOf DEF WebInv
<1>2. /\ Environment /\ suspended' = (suspended \/ active' # Account)
      /\ UNCHANGED <<access, refresh, call, reply, missed, loggedOut, gone>>
  BY DEF Surroundings, cookieVars
<1>3. TokenInv'
  BY <1>1, <1>2, TokenStep DEF Next
<1>4. /\ UNCHANGED <<rows, rotated, revoked, dead, new, tok>>
      /\ (pc' = pc /\ snap' = snap) \/ (pc[p] \notin Answered \cup {"idle"} /\ pc' = [pc EXCEPT ![p] = "failed"])
  <2>1. CASE \E q \in Req : Fail(q)
    BY <2>1 DEF Fail, Goto, tokenVars, historyVars
  <2>2. CASE \E a \in Account : SetStatus(a)
    BY <2>2 DEF SetStatus, tokenVars, handlerVars
  <2>3. CASE \E t \in Token : Expire(t)
    BY <2>3 DEF Expire, handlerVars, historyVars
  <2> QED BY <1>2, <2>1, <2>2, <2>3 DEF Environment
<1>5. Token' = Token /\ \A u : FamilyOf(u)' = FamilyOf(u)
  BY <1>4 DEF Token, FamilyOf
<1>6. CookiesMatch' /\ (Quiet(p) => Quiet(p)')
  BY <1>1, <1>2, <1>4 DEF Parts, CookiesMatch, Quiet
<1>7. Shape(p)' /\ Why(p)' /\ (~missed' /\ refresh' \in rotated' => OnItsWay(p)')
  <2>1. CASE pc' = pc /\ snap' = snap
    BY <1>1, <1>2, <1>4, <1>5, <2>1 DEF Parts, Shape, Why, OnItsWay, Refreshing, Leaving
  <2>2. CASE pc[p] \notin Answered \cup {"idle"} /\ pc' = [pc EXCEPT ![p] = "failed"]
    <3>1. pc'[p] = "failed" /\ pc[p] \notin {"idle", "ok"}
      BY <1>1, <2>2, TypesOf DEF Answered
    <3>2. ~missed => refresh \notin rotated
      BY <1>1, <3>1, AtWork
    <3> QED BY <1>1, <1>2, <1>4, <1>5, <3>1, <3>2 DEF Parts, Shape, Why, Refreshing, Leaving
  <2> QED BY <1>4, <2>1, <2>2
<1>8. (active' # Account => suspended') /\ (suspended => suspended')
  BY <1>2
<1>9. Parts(p)'
  BY <1>1, <1>2, <1>4, <1>5, <1>6, <1>7, <1>8 DEF Parts
<1> QED BY <1>3, <1>9, PartsGive

\* The request's own steps.
LEMMA RequestStep ==
  ASSUME WebInv, NEW p \in Req, \A q \in Req : q = p,
         \/ SendWithout(p) \/ getSession(p) \/ resolveTailAuth(p) \/ loginFn(p) \/ logoutFn(p)
         \/ Handle(p) /\ UNCHANGED webVars
         \/ BffAnswer(p) \/ Deliver(p) \/ AnswerLost(p) \/ PairLost(p)
  PROVE  WebInv'
<1>1. CASE getSession(p) \/ resolveTailAuth(p)
  <2>1. PICK h \in {"getSession", "tail"} : Send(p, h) /\ Begin(p, "find", refresh) /\ refresh # 0 /\ loggedOut' = loggedOut
    BY <1>1 DEF getSession, resolveTailAuth, Refresh
  <2> QED BY <2>1, SendStep
<1>2. CASE loginFn(p)
  <2>1. Send(p, "login") /\ Begin(p, "slug", 0) /\ loggedOut' = loggedOut
    BY <1>2 DEF loginFn, Login
  <2> QED BY <2>1, SendStep
<1>3. CASE logoutFn(p)
  <2>1. Send(p, "logout") /\ Begin(p, "lookup", refresh) /\ refresh # 0 /\ loggedOut' = loggedOut \cup {FamilyOf(refresh)}
    BY <1>3 DEF logoutFn, Logout
  <2>2. loggedOut \subseteq loggedOut' /\ FamilyOf(refresh) \in loggedOut'
    BY <2>1
  <2> QED BY <2>1, <2>2, SendStep
<1>4. CASE Handle(p) /\ UNCHANGED webVars
  <2>1. TokenInv'
    BY <1>4, TokenStep DEF WebInv, Next
  <2>2. Parts(p)'
    BY <1>4, ReadStep, MintStep, RevokeStep DEF Handle
  <2> QED BY <2>1, <2>2, PartsGive
<1>5. CASE BffAnswer(p)
  <2>1. TokenInv'
    BY <1>5, TokenStep DEF WebInv, Next, BffAnswer
  <2>2. Parts(p)'
    BY <1>5, AnswerStep
  <2> QED BY <2>1, <2>2, PartsGive
<1> QED BY <1>1, <1>2, <1>3, <1>4, <1>5, SendWithoutStep, DeliverStep, AnswerLostStep, PairLostStep

LEMMA WebStutters ==
  ASSUME WebInv, NEW p \in Req, \A q \in Req : q = p, UNCHANGED webAllVars
  PROVE  WebInv'
<1>1. Parts(p) /\ TokenInv
  BY PartsOf DEF WebInv
<1>2. UNCHANGED vars /\ UNCHANGED <<access, refresh, call, reply, missed, loggedOut, suspended, gone>>
  BY DEF webAllVars, webVars, cookieVars
<1>3. TokenInv' /\ Token' = Token /\ \A u : FamilyOf(u)' = FamilyOf(u)
  BY <1>1, <1>2, StoreKept
<1>4. UNCHANGED <<rows, rotated, revoked, active, pc, tok, new, snap, dead>>
  BY <1>2 DEF vars, tokenVars, handlerVars, historyVars
<1>5. Shape(p)' /\ Why(p)' /\ CookiesMatch' /\ (OnItsWay(p) => OnItsWay(p)') /\ (Quiet(p) => Quiet(p)')
  BY <1>1, <1>2, <1>3, <1>4 DEF Parts, Shape, Why, CookiesMatch, OnItsWay, Quiet, Refreshing, Leaving
<1>6. Parts(p)'
  BY <1>1, <1>2, <1>3, <1>4, <1>5 DEF Parts
<1> QED BY <1>3, <1>6, PartsGive

LEMMA WebStep ==
  ASSUME NEW c, Req = {c}
  PROVE  WebInv /\ [WebNext]_webAllVars => WebInv'
<1> SUFFICES ASSUME WebInv, [WebNext]_webAllVars PROVE WebInv'
  OBVIOUS
<1>1. c \in Req /\ \A q \in Req : q = c
  OBVIOUS
<1> QED BY <1>1, RequestStep, ExpiryStep, SurroundingsStep, WebStutters DEF WebNext

\* auth-service.ts:99-108: a browser that waits for each answer holds the
\* newest token, so that its refreshes are never taken for reuse, and no family
\* of it is revoked but by its logout or a status, unless a pair was lost.
THEOREM KeepsItsSessionHolds ==
  ASSUME NEW c, Req = {c}
  PROVE  WebSpec => []KeepsItsSession
<1>1. WebInit => WebInv
  BY WebStarts
<1>2. WebInv /\ [WebNext]_webAllVars => WebInv'
  BY WebStep
<1>3. WebInv => KeepsItsSession
  <2> SUFFICES ASSUME WebInv, ~missed PROVE KeepsItsSession
    BY DEF KeepsItsSession
  <2>1. c \in Req /\ \A q \in Req : q = c
    OBVIOUS
  <2>2. Parts(c)
    BY <2>1, PartsOf DEF WebInv
  <2>3. ASSUME pc[c] = "find" PROVE tok[c] \notin rotated
    <3>1. tok[c] = refresh /\ pc[c] \notin {"idle", "ok"}
      BY <2>2, <2>3 DEF Parts, Shape, Refreshing
    <3> QED BY <2>1, <2>2, <3>1, AtWork
  <2> QED BY <2>1, <2>2, <2>3 DEF KeepsItsSession, Parts
<1> QED BY <1>1, <1>2, <1>3, PTL DEF WebSpec

\* auth.ts:72-83: whether or not the control-plane could end the session, from
\* the answer of a logout to that of a login the browser has none.
THEOREM StaysLoggedOutHolds ==
  ASSUME NEW c, Req = {c}
  PROVE  WebSpec => []StaysLoggedOut
<1>1. WebInit => WebInv
  BY WebStarts
<1>2. WebInv /\ [WebNext]_webAllVars => WebInv'
  BY WebStep
<1>3. WebInv => StaysLoggedOut
  BY DEF WebInv, LeftAlone, CookiesMatch, StaysLoggedOut
<1> QED BY <1>1, <1>2, <1>3, PTL DEF WebSpec

\* A browser keeps its session while others sign in: Sessions implements
\* WebSession.
THEOREM SessionsKeep ==
  ASSUME NEW c, Req = {c}
  PROVE  SessionsSpec => WebSpec /\ [](KeepsItsSession /\ StaysLoggedOut)
<1>1. SessionsInit => WebInit
  BY DEF SessionsInit
<1>2. [SessionsNext]_<<webAllVars, signInVars, part>> => [WebNext]_webAllVars
  BY DEF SessionsNext
<1>3. SessionsSpec => WebSpec
  BY <1>1, <1>2, PTL DEF SessionsSpec, WebSpec
<1>4. WebSpec => []KeepsItsSession
  BY KeepsItsSessionHolds
<1>5. WebSpec => []StaysLoggedOut
  BY StaysLoggedOutHolds
<1> QED BY <1>3, <1>4, <1>5, PTL
=============================================================================
