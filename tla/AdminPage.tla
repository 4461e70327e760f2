----------------------------- MODULE AdminPage -----------------------------
(***************************************************************************)
(* The admin page of a tenant and the services behind it: users, API keys, *)
(* invites and the retention policy.  A row created by call k has id k.    *)
(*                                                                         *)
(* A user's editable fields stand for display name, role, status and       *)
(* password; a policy not yet configured is one with the form's defaults.  *)
(***************************************************************************)
EXTENDS ConsolePage

CONSTANTS
  Email,
  Setting, NewSetting,             \* values of a user's field; of a new user
  Days,                            \* of retention
  inviteMaxOutstandingPerTenant,
  Policy                           \* id of the one row of retention_policies

UserField == {"role", "status"}
PolicyField == {"hotDays", "coldDays"}


User(e, f) == Row("user", Over([email |-> e], f))
ApiKey == Row("apikey", [status |-> "live"])
Invite(e) == Row("invite", [email |-> e, status |-> "pending"])
RetentionPolicy(f) == Row("policy", f)

AdminKinds == {"createUser", "editUser", "deleteUser", "issueKey", "revokeKey", "createInvite",
               "revokeInvite", "retention"}

Pending == {i \in OfKind("invite") : rows[i].f["status"] = "pending"}

-----------------------------------------------------------------------------
(* The services, each call one statement, but for an invite: its cap is checked by a
   statement of its own. *)

createUser(s) ==
  IF \E j \in OfKind("user") : rows[j].f["email"] = s.row.f["email"] THEN 409 ELSE 200

Known(s) == IF s.id \in DOMAIN rows THEN 200 ELSE 404
updateUser(s) == Known(s)
deleteUser(s) == Known(s)
issueKey(s) == 200
revokeKey(s) == IF rows[s.id].f["status"] = "live" THEN 200 ELSE 404

\* The request schema: cold retention is at least as long as hot.
upsertRequestOK(f) == f["coldDays"] >= f["hotDays"]
upsertRetention(s) == IF upsertRequestOK(s.patch) THEN 200 ELSE 400

\* One too many.
CapReachedAbove == Cardinality(Pending) > inviteMaxOutstandingPerTenant

CapReached == Cardinality(Pending) >= inviteMaxOutstandingPerTenant

Counted(s) == [s EXCEPT !.at = "counted", !.counted = OfKind("invite")]
countPending(k) ==
  /\ calls[k].kind = "createInvite" /\ calls[k].at = "sent"
  /\ calls' = [calls EXCEPT ![k] =
                 IF ~can(tab[@.tab].role, <<"invite", "create">>) \/ CapReached
                 THEN AdminOutcome(@, "error", FALSE)
                 ELSE Counted(@)]
  /\ UNCHANGED <<rows, tab, made, wanted, seen>>

\* One pending invite per address.
createInvite(s) ==
  IF \E i \in Pending : rows[i].f["email"] = s.row.f["email"] THEN 409 ELSE 200

insertInvite(k) ==
  /\ calls[k].kind = "createInvite"
  /\ relay(k, <<"invite", "create">>, createInvite(calls[k]))

revokeInvite(s) == IF s.id \in Pending THEN 200 ELSE 404

\* The invited person signs in.
consumeInvite(i) ==
  /\ i \in Pending
  /\ rows' = [rows EXCEPT ![i].f["status"] = "consumed"]
  /\ wanted' = [wanted EXCEPT ![i]["status"] = "consumed"]
  /\ UNCHANGED <<tab, calls, made, seen>>

UserRoutes(k) ==
  LET s == calls[k]
  IN  CASE s.kind = "createUser" -> relay(k, <<"user", "create">>, createUser(s))
        [] s.kind = "editUser" -> relay(k, <<"user", "update">>, updateUser(s))
        [] s.kind = "deleteUser" -> relay(k, <<"user", "delete">>, deleteUser(s))
        [] OTHER -> FALSE

KeyRoutes(k) ==
  LET s == calls[k]
  IN  CASE s.kind = "issueKey" -> relay(k, <<"apikey", "create">>, issueKey(s))
        [] s.kind = "revokeKey" -> relay(k, <<"apikey", "revoke">>, revokeKey(s))
        [] OTHER -> FALSE

RetentionRoutes(k) ==
  calls[k].kind = "retention" /\ relay(k, <<"retention", "update">>, upsertRetention(calls[k]))

InviteRoutes(k) ==
  LET s == calls[k]
  IN  CASE s.kind = "createInvite" -> countPending(k) \/ insertInvite(k)
        [] s.kind = "revokeInvite" -> relay(k, <<"invite", "revoke">>, revokeInvite(s))
        [] OTHER -> FALSE

-----------------------------------------------------------------------------
(* The page: a section whose read failed is replaced by an error, and a member is sent
   the policy only.  The loader's reads are one step: no dialog relates two sections. *)

loadAdminData(page) ==
  LET may == {kind \in page.sections : kind = "policy" \/ can(page.role, <<kind, "list">>)}
  IN  Restrict(rows, {i \in DOMAIN rows : rows[i].kind \in may})

Listed(t, kind) == {i \in DOMAIN tab[t].data : tab[t].data[i].kind = kind}

\* Sections a role is not sent are not shown either.
Shows(t, kind) == kind \in tab[t].sections /\ can(tab[t].role, <<kind, "list">>)

UsersSection(t, kind, id) ==
  /\ \/ kind = "createUser" /\ id = 0 /\ Shows(t, "user") /\ uiCan(tab[t].role, <<"user", "create">>)
     \/ kind = "editUser" /\ id \in Listed(t, "user") /\ uiCan(tab[t].role, <<"user", "update">>)
     \/ kind = "deleteUser" /\ id \in Listed(t, "user") /\ uiCan(tab[t].role, <<"user", "delete">>)
  /\ Opens(t, kind, id, IF kind = "editUser" THEN tab[t].data[id].f ELSE NoRows)

CreateUserDialog(t, e) ==
  Submit(t, "createUser", [op |-> "insert", row |-> User(e, [x \in UserField |-> NewSetting])])

Changed(of, f) == Restrict(f, {x \in DOMAIN f : f[x] # of[x]})

\* Every field of the form.
UserBodyWhole(of, f) == f

\* The fields that differ from the user as the dialog was opened.
UserBody(of, f) == Changed(of, f)

EditUserDialog(t, f) ==
  LET of == tab[t].dialog.of
  IN  /\ tab[t].dialog.kind = "editUser" /\ DOMAIN Changed(of, f) # {}
      /\ Submit(t, "editUser", [op |-> "update", id |-> tab[t].dialog.id, base |-> 0,
                                asked |-> Changed(of, f), patch |-> UserBody(of, f)])

onDeleteUser(t) == Confirm(t, "deleteUser", [op |-> "delete", id |-> tab[t].dialog.id])

ApiKeysSection(t, kind, id) ==
  /\ \/ kind = "issueKey" /\ id = 0 /\ Shows(t, "apikey") /\ uiCan(tab[t].role, <<"apikey", "create">>)
     \/ /\ kind = "revokeKey" /\ id \in Listed(t, "apikey") /\ tab[t].data[id].f["status"] = "live"
        /\ uiCan(tab[t].role, <<"apikey", "revoke">>)
  /\ Opens(t, kind, id, NoRows)

IssueKeyDialog(t) == Submit(t, "issueKey", [op |-> "insert", row |-> ApiKey])
SecretRevealDialog(t) == Dismiss(t, "issueKey")

Retire(t, kind, status) ==
  Confirm(t, kind, [op |-> "update", id |-> tab[t].dialog.id, base |-> 0,
                    asked |-> [status |-> status], patch |-> [status |-> status]])

onRevokeKey(t) == Retire(t, "revokeKey", "revoked")

InvitesSection(t, kind, id) ==
  /\ \/ kind = "createInvite" /\ id = 0 /\ Shows(t, "invite") /\ uiCan(tab[t].role, <<"invite", "create">>)
     \/ /\ kind = "revokeInvite" /\ id \in Listed(t, "invite")
        /\ tab[t].data[id].f["status"] = "pending" /\ uiCan(tab[t].role, <<"invite", "revoke">>)
  /\ Opens(t, kind, id, NoRows)

CreateInviteDialog(t, e) ==
  Submit(t, "createInvite", [op |-> "insert", row |-> Invite(e), counted |-> {}])
InviteLinkDialog(t) == Dismiss(t, "createInvite")
onRevokeInvite(t) == Retire(t, "revokeInvite", "revoked")

RetentionCard(t) ==
  /\ Policy \in DOMAIN tab[t].data /\ uiCan(tab[t].role, <<"retention", "update">>)
  /\ Opens(t, "retention", 0, tab[t].data[Policy])

\* Both fields are sent, as the form was filled or as the user changed them.
RetentionForm(t, f) ==
  LET of == tab[t].dialog.of
  IN  /\ tab[t].dialog.kind = "retention" /\ upsertRequestOK(f)
      /\ Submit(t, "retention", [op |-> "update", id |-> Policy, base |-> of.lv, patch |-> f,
                                 asked |-> Changed(of.f, f)])

\* A form nobody has touched follows the loader.
AdminReload(t) ==
  \/ LoaderReads(t, loadAdminData(tab[t]), TRUE) \/ LoaderReads(t, NoRows, FALSE)
  \/ LoaderArrives(t, tab[t].dialog.of)
  \/ /\ tab[t].dialog.kind = "retention" /\ tab[t].form = 0 /\ Policy \in DOMAIN tab[t].fresh.data
     /\ LoaderArrives(t, tab[t].fresh.data[Policy])
  \/ Refresh(t, loadAdminData(tab[t]))

AdminDashboard(t) ==
  \/ \E kind \in AdminKinds, id \in {0} \cup DOMAIN tab[t].data :
       \/ UsersSection(t, kind, id) \/ ApiKeysSection(t, kind, id) \/ InvitesSection(t, kind, id)
  \/ \E e \in Email : CreateUserDialog(t, e)
  \/ \E f \in [UserField -> Setting] : EditUserDialog(t, f)
  \/ \E e \in Email : CreateInviteDialog(t, e)
  \/ \E f \in [PolicyField -> Days] : RetentionForm(t, f)
  \/ onDeleteUser(t) \/ onRevokeKey(t) \/ onRevokeInvite(t)
  \/ IssueKeyDialog(t) \/ SecretRevealDialog(t) \/ InviteLinkDialog(t)
  \/ RetentionCard(t)
  \/ AdminReload(t)

-----------------------------------------------------------------------------
\* The cap on outstanding invites is checked before the insert and not with it.  It is
\* exceeded only when another invite was stored between a call's count and its insert,
\* and there is never a second pending invite for an address.
CapYieldsOnlyToRaces ==
  /\ Cardinality(Pending) > inviteMaxOutstandingPerTenant => seen.raced
  /\ \A i, j \in Pending : rows[i].f["email"] = rows[j].f["email"] => i = j
=============================================================================
