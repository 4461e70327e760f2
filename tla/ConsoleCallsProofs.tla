------------------------- MODULE ConsoleCallsProofs -------------------------
(***************************************************************************)
(* The inductive invariant of the console, and the steps that keep it      *)
(* whatever page they belong to: dialogs, loaders, calls, the control      *)
(* plane's routes and answers.                                             *)
(***************************************************************************)
EXTENDS Console, FiniteSetTheorems, TLAPS

\* Most steps are first-order: Zenon proves every leaf that names no other prover.
USE ZenonT(30)

-----------------------------------------------------------------------------
(* The inductive invariant *)

Creates == {"createDashboard", "createUser", "issueKey", "createInvite", "createRule"}
Deletes == {"deleteDashboard", "deleteUser", "deleteRule"}
Updates == {"rename", "panel", "removePanel", "editUser", "revokeKey", "revokeInvite", "retention", "editRule"}
CallKinds == Creates \cup Deletes \cup Updates

\* The rows a call of a kind is about, and what its route asks the matrix.
KindOf(kind) ==
  CASE kind \in DashboardKinds -> "dashboard"
    [] kind \in {"createUser", "editUser", "deleteUser"} -> "user"
    [] kind \in {"issueKey", "revokeKey"} -> "apikey"
    [] kind \in {"createInvite", "revokeInvite"} -> "invite"
    [] kind = "retention" -> "policy"
    [] OTHER -> "rule"

OpOf(kind) ==
  CASE kind = "createDashboard" -> <<"dashboard", "create">>
    [] kind = "deleteDashboard" -> <<"dashboard", "delete">>
    [] kind \in {"rename", "panel", "removePanel"} -> <<"dashboard", "update">>
    [] kind = "createUser" -> <<"user", "create">>
    [] kind = "editUser" -> <<"user", "update">>
    [] kind = "deleteUser" -> <<"user", "delete">>
    [] kind = "issueKey" -> <<"apikey", "create">>
    [] kind = "revokeKey" -> <<"apikey", "revoke">>
    [] kind = "createInvite" -> <<"invite", "create">>
    [] kind = "revokeInvite" -> <<"invite", "revoke">>
    [] kind = "retention" -> <<"retention", "update">>
    [] kind = "createRule" -> <<"alert", "create">>
    [] kind = "editRule" -> <<"alert", "update">>
    [] kind = "deleteRule" -> <<"alert", "delete">>

\* A call the control plane has not dealt with; an id that is, or was, a row's.
Waiting == {"sent", "counted"}
Born(i) == i \notin Nat \/ (i <= made /\ (i \in DOMAIN calls => calls[i].at \notin Waiting))

\* A row as a page holds it: what it was, and still is as long as its version is.
Copy(i, c) ==
  /\ RowFits(i, c) /\ Born(i)
  /\ c.kind \in {"apikey", "invite", "policy"} => i \in DOMAIN rows
  /\ i \in DOMAIN rows =>
       /\ rows[i].kind = c.kind /\ c.lv <= rows[i].lv
       /\ c.lv = rows[i].lv => \A x \in FieldsOf(c.kind) : Together(c.kind, x) => c.f[x] = rows[i].f[x]

\* The id a dialog or a call is about.
About(kind, i) ==
  /\ Born(i)
  /\ KindOf(kind) \in {"apikey", "invite", "policy"} => i \in DOMAIN rows
  /\ i \in DOMAIN rows => rows[i].kind = KindOf(kind)

IsDialog(d) == d = [kind |-> d.kind, id |-> d.id, of |-> d.of]
IsTab(p) ==
  DOMAIN p = {"page", "role", "sections", "data", "dialog", "form", "busy", "reload", "fresh", "shown"}
IsSeen(s) == DOMAIN s = {"changed", "misled", "early", "stale", "denied", "lost", "raced"}

Held(page, data) ==
  \A i \in DOMAIN data :
    /\ Copy(i, data[i])
    /\ page = "detail" => i = Dash
    /\ page = "list" => data[i].kind = "dashboard"
    /\ page = "alerts" => data[i].kind = "rule"

DialogInv(role, d) ==
  /\ IsDialog(d) /\ (d.kind = "none" => d = NoDialog) /\ d.kind \in {"none"} \cup CallKinds
  /\ d.kind # "none" => can(role, OpOf(d.kind))
  /\ d.kind \in Deletes \cup {"editUser", "revokeKey", "revokeInvite", "editRule"} => About(d.kind, d.id)
  /\ d.kind = "panel" => d.id \in {0} \cup PanelId
  /\ d.kind = "removePanel" => d.id \in PanelId
  /\ d.kind = "retention" => Copy(Policy, d.of)
  /\ d.kind = "editRule" => Copy(d.id, d.of) /\ d.of.kind = "rule"

TabInv(t) ==
  LET p == tab[t]
  IN  /\ IsTab(p) /\ p.page \in {"detail", "list", "admin", "alerts"}
      /\ p.reload \in {"none", "asked", "read"}
      /\ p.shown = [kind \in Revealing |-> p.shown[kind]]
      /\ Held(p.page, p.data) /\ Held(p.page, p.fresh.data)
      /\ DialogInv(p.role, p.dialog)

\* What the user asked for is written, and besides only what the page had loaded.
PatchFits(s) ==
  /\ s.op = "update" /\ About(s.kind, s.id) /\ s.base \in Nat
  /\ s.patch = [x \in DOMAIN s.patch |-> s.patch[x]] /\ s.asked = [x \in DOMAIN s.asked |-> s.asked[x]]
  /\ DOMAIN s.asked \subseteq DOMAIN s.patch /\ DOMAIN s.patch \subseteq FieldsOf(KindOf(s.kind))
  /\ \A x \in DOMAIN s.asked : s.asked[x] = s.patch[x]
  /\ \A x \in DOMAIN s.patch \ DOMAIN s.asked : Together(KindOf(s.kind), x)
  /\ s.id \in DOMAIN rows =>
       /\ s.base <= rows[s.id].lv
       /\ s.base = rows[s.id].lv =>
            \A x \in DOMAIN s.patch \ DOMAIN s.asked : s.patch[x] = rows[s.id].f[x]
  /\ s.kind = "editRule" => \A x \in DOMAIN s.patch : s.patch[x] # Blank
  /\ s.kind = "revokeInvite" => DOMAIN s.patch = {"status"} /\ s.patch["status"] # "pending"

CallInv(k) ==
  LET s == calls[k]
  IN  /\ s.tab \in DOMAIN tab /\ s.kind \in CallKinds /\ can(tab[s.tab].role, OpOf(s.kind))
      /\ s.at \in {"sent", "counted", "ok", "error", "thrown"}
      /\ s.at = "counted" =>
           /\ s.kind = "createInvite" /\ \A i \in s.counted : Born(i)
           /\ Cardinality(Pending \cap s.counted) < inviteMaxOutstandingPerTenant
      /\ s.at \in Waiting =>
           /\ s.kind \in Creates => s.op = "insert" /\ RowFits(k, s.row) /\ s.row.kind = KindOf(s.kind)
           /\ s.kind \in Deletes => s.op = "delete" /\ About(s.kind, s.id)
           /\ s.kind \in Updates => PatchFits(s)
           /\ s.kind = "createInvite" => DOMAIN s = {"tab", "kind", "at", "op", "row", "counted"}
      /\ s.at = "ok" => s.applied

RowsInv ==
  /\ rows = [i \in DOMAIN rows |-> rows[i]] /\ IsFiniteSet(DOMAIN rows)
  /\ wanted = [i \in DOMAIN rows |-> wanted[i]]
  /\ \A i \in DOMAIN rows : /\ Born(i) /\ RowFits(i, rows[i])
                            /\ wanted[i] = [x \in FieldsOf(rows[i].kind) |-> wanted[i][x]]

\* A tab whose user waits for answers and reloads has one call out, made by the
\* dialog that is open, and then shows no secret.
OneAtATime(t) ==
  t \notin seen.early =>
    /\ \A j, k \in Unanswered(t) : j = k
    /\ \A k \in Unanswered(t) : tab[t].dialog.kind \in {"none", calls[k].kind}
    /\ tab[t].reload # "none" => Unanswered(t) = {} /\ tab[t].dialog.kind = "none"
    /\ (\E x \in Revealing : tab[t].shown[x] # 0) => Unanswered(t) = {} /\ tab[t].dialog.kind = "none"

UpToDate(data) == \A i \in DOMAIN data : i \in DOMAIN rows => data[i].lv = rows[i].lv
Current(p) ==
  /\ UpToDate(p.data)
  /\ p.dialog.kind = "retention" => p.dialog.of.lv = rows[Policy].lv
  /\ p.dialog.kind = "editRule" /\ p.dialog.id \in DOMAIN rows => p.dialog.of.lv = rows[p.dialog.id].lv

\* Such a tab, if nobody else changes a whole form and no change of its own was
\* reported as failed, has the rows as they are, but for the time between a change of
\* its own and the reload after it.
Exempt(t) == t \in seen.early \cup seen.misled \/ seen.changed \ {t} # {}
NoRace(t) ==
  ~Exempt(t) =>
    /\ tab[t].reload = "none" =>
         \/ Current(tab[t])
         \/ \E k \in Unanswered(t) : calls[k].at \notin Waiting /\ calls[k].applied /\ t \in seen.changed
    /\ tab[t].reload = "read" => UpToDate(tab[t].fresh.data)
    /\ \A k \in Unanswered(t) :
         calls[k].at \in Waiting /\ calls[k].kind \in Updates /\ calls[k].id \in DOMAIN rows =>
           \A x \in DOMAIN calls[k].patch :
             Together(rows[calls[k].id].kind, x) => calls[k].base = rows[calls[k].id].lv

ConsoleInv ==
  /\ tab = [t \in DOMAIN tab |-> tab[t]] /\ DOMAIN tab \subseteq Tab
  /\ calls = [k \in DOMAIN calls |-> calls[k]] /\ made \in Nat /\ DOMAIN calls \subseteq 1..made
  /\ IsSeen(seen)
  /\ RowsInv
  /\ \A t \in DOMAIN tab : TabInv(t) /\ OneAtATime(t) /\ NoRace(t)
  /\ \A k \in DOMAIN calls : CallInv(k)
  /\ EditsCompose /\ StaleNeedsARace /\ OfferedIsAllowed /\ SecretStaysUp /\ CapYieldsOnlyToRaces

-----------------------------------------------------------------------------
(* Functions and the matrices *)

\* What the two functions give together.
LEMMA OverIs ==
  ASSUME NEW f, NEW g
  PROVE  /\ DOMAIN Over(f, g) = DOMAIN f \cup DOMAIN g
         /\ Over(f, g) = [x \in DOMAIN f \cup DOMAIN g |-> Over(f, g)[x]]
         /\ \A x \in DOMAIN f : Over(f, g)[x] = f[x]
         /\ \A x \in DOMAIN g : x \notin DOMAIN f => Over(f, g)[x] = g[x]
BY DEF Over

\* The web app's copy of the matrix allows nothing that the control plane's does not.
LEMMA UiWithinMatrix ==
  ASSUME NEW role, NEW op, uiCan(role, op)
  PROVE  can(role, op)
<1>1. role \in {"platform_operator", "tenant_admin", "member"} /\ op \in UI_MATRIX[role]
  BY DEF uiCan, UI_MATRIX
<1>2. DOMAIN MATRIX = {"platform_operator", "tenant_admin", "member"}
  BY DEF MATRIX
<1>3. CASE role = "platform_operator"
  <2>1. UI_MATRIX[role] = {<<"tenant", "read">>, <<"tenant", "update">>} /\ MATRIX[role] = PlatformOps
    BY <1>3 DEF UI_MATRIX, MATRIX
  <2> QED BY <1>1, <1>2, <2>1 DEF can, PlatformOps, Crud
<1>4. CASE role = "tenant_admin"
  <2>1. UI_MATRIX[role] = UI_OPERATIONS \ {<<"tenant", "update">>} /\ MATRIX[role] = TenantAdminOps
    BY <1>4 DEF UI_MATRIX, MATRIX
  <2>2. op \in UI_OPERATIONS /\ op # <<"tenant", "update">>
    BY <1>1, <2>1
  <2>3. op \in TenantAdminOps
    BY <2>2 DEF UI_OPERATIONS, TenantAdminOps, Crud
  <2> QED BY <1>1, <1>2, <2>1, <2>3 DEF can
<1>5. CASE role = "member"
  <2>1. /\ UI_MATRIX[role] = {<<"tenant", "read">>, <<"retention", "read">>} \cup ({"alert", "dashboard"} \X {"read", "list"})
        /\ MATRIX[role] = MemberOps
    BY <1>5 DEF UI_MATRIX, MATRIX
  <2>2. op \in MemberOps
    BY <1>1, <2>1 DEF MemberOps
  <2> QED BY <1>1, <1>2, <2>1, <2>2 DEF can
<1> QED BY <1>1, <1>3, <1>4, <1>5

-----------------------------------------------------------------------------
(* What pages and calls know of the rows, while the rows change *)

RowsMove ==
  \A i : Born(i) =>
    /\ Born(i)'
    /\ i \in DOMAIN rows /\ rows[i].kind \in {"apikey", "invite", "policy"} => i \in DOMAIN rows'
    /\ i \in DOMAIN rows' =>
         /\ i \in DOMAIN rows /\ rows'[i].kind = rows[i].kind /\ rows[i].lv <= rows'[i].lv
         /\ rows'[i].lv = rows[i].lv =>
              \A x \in FieldsOf(rows[i].kind) : Together(rows[i].kind, x) => rows'[i].f[x] = rows[i].f[x]
         /\ i \in Pending' => i \in Pending

\* A row a page holds stays a copy while the rows change.
LEMMA CopyMoves ==
  ASSUME RowsInv, RowsInv', RowsMove, NEW i, NEW c, Copy(i, c)
  PROVE  (RowFits(i, c) /\ Born(i))' /\ Copy(i, c)'
<1>1. RowFits(i, c) /\ Born(i) /\ Born(i)' /\ RowFits(i, c)'
  BY DEF Copy, RowsMove, RowFits
<1>2. c.kind \in {"apikey", "invite", "policy"} => i \in DOMAIN rows'
  BY <1>1 DEF Copy, RowsMove
<1>3. ASSUME i \in DOMAIN rows'
      PROVE  /\ rows'[i].kind = c.kind /\ c.lv <= rows'[i].lv
             /\ c.lv = rows'[i].lv => \A x \in FieldsOf(c.kind) : Together(c.kind, x) => c.f[x] = rows'[i].f[x]
  <2>1. /\ i \in DOMAIN rows /\ rows'[i].kind = rows[i].kind /\ rows[i].lv <= rows'[i].lv
        /\ rows'[i].lv = rows[i].lv =>
             \A x \in FieldsOf(rows[i].kind) : Together(rows[i].kind, x) => rows'[i].f[x] = rows[i].f[x]
    BY <1>1, <1>3 DEF RowsMove
  <2>2. /\ rows[i].kind = c.kind /\ c.lv <= rows[i].lv
        /\ c.lv = rows[i].lv => \A x \in FieldsOf(c.kind) : Together(c.kind, x) => c.f[x] = rows[i].f[x]
    BY <2>1 DEF Copy
  <2>3. c.lv \in Nat /\ rows[i].lv \in Nat /\ rows'[i].lv \in Nat
    BY <1>1, <1>3, <2>1 DEF RowsInv, RowFits
  <2>4. c.lv <= rows'[i].lv /\ (c.lv = rows'[i].lv => c.lv = rows[i].lv /\ rows'[i].lv = rows[i].lv)
    BY SMTT(30), <2>1, <2>2, <2>3
  <2> QED BY <2>1, <2>2, <2>4
<1> QED BY <1>1, <1>2, <1>3 DEF Copy

\* What a dialog or a call is about stays of its kind.
LEMMA AboutMoves ==
  ASSUME RowsMove, NEW kind, NEW i, About(kind, i)
  PROVE  About(kind, i)'
BY DEF About, RowsMove

\* What a page has loaded stays copies.
LEMMA HeldMoves ==
  ASSUME RowsInv, RowsInv', RowsMove, NEW page, NEW data, Held(page, data)
  PROVE  Held(page, data)'
BY CopyMoves DEF Held

\* A dialog that stays open stays right about its row.
LEMMA DialogMoves ==
  ASSUME RowsInv, RowsInv', RowsMove, NEW role, NEW d, DialogInv(role, d)
  PROVE  DialogInv(role, d)'
BY CopyMoves, AboutMoves DEF DialogInv, IsDialog

\* A tab nobody touches.
LEMMA TabMoves ==
  ASSUME RowsInv, RowsInv', RowsMove, NEW t, TabInv(t), tab'[t] = tab[t]
  PROVE  TabInv(t)'
<1>1. PICK p : p = tab[t]
  OBVIOUS
<1>2. /\ Held(p.page, p.data) /\ Held(p.page, p.fresh.data) /\ DialogInv(p.role, p.dialog)
  BY <1>1 DEF TabInv
<1>3. Held(p.page, p.data)' /\ Held(p.page, p.fresh.data)' /\ DialogInv(p.role, p.dialog)'
  BY <1>2, HeldMoves, DialogMoves
<1> QED BY <1>1, <1>3 DEF TabInv

\* A patch under way stays computed from the row at its base.
LEMMA PatchMoves ==
  ASSUME RowsInv, RowsInv', RowsMove, NEW s, PatchFits(s)
  PROVE  PatchFits(s)'
<1>1. About(s.kind, s.id)'
  BY AboutMoves DEF PatchFits
<1>2. ASSUME s.id \in DOMAIN rows'
      PROVE  /\ s.base <= rows'[s.id].lv
             /\ s.base = rows'[s.id].lv =>
                  \A x \in DOMAIN s.patch \ DOMAIN s.asked : s.patch[x] = rows'[s.id].f[x]
  <2>1. Born(s.id) /\ s.base \in Nat /\ DOMAIN s.patch \subseteq FieldsOf(KindOf(s.kind))
        /\ \A x \in DOMAIN s.patch \ DOMAIN s.asked : Together(KindOf(s.kind), x)
    BY DEF PatchFits, About
  <2>2. /\ s.id \in DOMAIN rows /\ rows'[s.id].kind = rows[s.id].kind /\ rows[s.id].lv <= rows'[s.id].lv
        /\ rows'[s.id].lv = rows[s.id].lv =>
             \A x \in FieldsOf(rows[s.id].kind) : Together(rows[s.id].kind, x) => rows'[s.id].f[x] = rows[s.id].f[x]
    BY <1>2, <2>1 DEF RowsMove
  <2>3. /\ rows[s.id].kind = KindOf(s.kind) /\ s.base <= rows[s.id].lv
        /\ s.base = rows[s.id].lv => \A x \in DOMAIN s.patch \ DOMAIN s.asked : s.patch[x] = rows[s.id].f[x]
    BY <2>2 DEF PatchFits, About
  <2>4. rows[s.id].lv \in Nat /\ rows'[s.id].lv \in Nat
    BY <1>2, <2>2 DEF RowsInv, RowFits
  <2>5. s.base <= rows'[s.id].lv /\ (s.base = rows'[s.id].lv => s.base = rows[s.id].lv /\ rows'[s.id].lv = rows[s.id].lv)
    BY SMTT(30), <2>1, <2>2, <2>3, <2>4
  <2> QED BY <2>1, <2>2, <2>3, <2>5
<1> QED BY <1>1, <1>2 DEF PatchFits

\* Pending is PendingIn of the rows.
LEMMA PendingIs ==
  ASSUME RowsInv
  PROVE  Pending \subseteq DOMAIN rows /\ \A S : IsFiniteSet(Pending \cap S) /\ Cardinality(Pending \cap S) \in Nat
<1>1. Pending \subseteq DOMAIN rows /\ IsFiniteSet(DOMAIN rows)
  BY DEF Pending, OfKind, RowsInv
<1>2. \A S : Pending \cap S \in SUBSET DOMAIN rows
  BY <1>1
<1>3. \A S : IsFiniteSet(Pending \cap S)
  BY <1>1, <1>2, FS_Subset
<1> QED BY <1>1, <1>3, FS_CardinalityType

\* A call nobody touches.
LEMMA CallMoves ==
  ASSUME RowsInv, RowsInv', RowsMove, NEW k \in DOMAIN calls, CallInv(k), calls'[k] = calls[k],
         DOMAIN tab' = DOMAIN tab, \A t \in DOMAIN tab : tab'[t].role = tab[t].role
  PROVE  CallInv(k)'
<1> DEFINE s == calls[k]
<1>1. /\ s.tab \in DOMAIN tab' /\ s.kind \in CallKinds /\ can(tab'[s.tab].role, OpOf(s.kind))
      /\ s.at \in {"sent", "counted", "ok", "error", "thrown"} /\ (s.at = "ok" => s.applied)
  BY DEF CallInv
<1>2. ASSUME s.at = "counted"
      PROVE  /\ s.kind = "createInvite" /\ \A i \in s.counted : Born(i)'
             /\ Cardinality(Pending' \cap s.counted) < inviteMaxOutstandingPerTenant
  <2>1. /\ s.kind = "createInvite" /\ \A i \in s.counted : Born(i)
        /\ Cardinality(Pending \cap s.counted) < inviteMaxOutstandingPerTenant
    BY <1>2 DEF CallInv
  <2>2. Pending' \cap s.counted \in SUBSET (Pending \cap s.counted)
    <3>1. Pending' \subseteq DOMAIN rows'
      BY DEF Pending, OfKind
    <3> QED BY <2>1, <3>1 DEF RowsMove
  <2>3. IsFiniteSet(Pending \cap s.counted) /\ Cardinality(Pending \cap s.counted) \in Nat
    BY PendingIs
  <2>4. /\ Cardinality(Pending' \cap s.counted) <= Cardinality(Pending \cap s.counted)
        /\ Cardinality(Pending' \cap s.counted) \in Nat
    BY <2>2, <2>3, FS_Subset, FS_CardinalityType
  <2>5. inviteMaxOutstandingPerTenant \in Nat
    BY ConsoleAssumption
  <2>6. Cardinality(Pending' \cap s.counted) < inviteMaxOutstandingPerTenant
    BY SMTT(30), <2>1, <2>3, <2>4, <2>5
  <2>7. \A i \in s.counted : Born(i)'
    BY <2>1 DEF RowsMove
  <2> QED BY <2>1, <2>6, <2>7
<1>3. ASSUME s.at \in Waiting
      PROVE  /\ s.kind \in Creates => s.op = "insert" /\ RowFits(k, s.row)' /\ s.row.kind = KindOf(s.kind)
             /\ s.kind \in Deletes => s.op = "delete" /\ About(s.kind, s.id)'
             /\ s.kind \in Updates => PatchFits(s)'
             /\ s.kind = "createInvite" => DOMAIN s = {"tab", "kind", "at", "op", "row", "counted"}
  <2>1. /\ s.kind \in Creates => s.op = "insert" /\ RowFits(k, s.row) /\ s.row.kind = KindOf(s.kind)
        /\ s.kind \in Deletes => s.op = "delete" /\ About(s.kind, s.id)
        /\ s.kind \in Updates => PatchFits(s)
        /\ s.kind = "createInvite" => DOMAIN s = {"tab", "kind", "at", "op", "row", "counted"}
    BY <1>3 DEF CallInv
  <2>2. RowFits(k, s.row) => RowFits(k, s.row)'
    BY DEF RowFits
  <2> QED BY <2>1, <2>2, AboutMoves, PatchMoves
<1> QED BY <1>1, <1>2, <1>3 DEF CallInv

\* A row does not depend on the state.
LEMMA RowFitsStays ==
  ASSUME NEW i, NEW r
  PROVE  RowFits(i, r)' <=> RowFits(i, r)
OBVIOUS

\* Steps that leave the rows alone.
LEMMA RowsStand ==
  ASSUME RowsInv, made \in Nat, made' \in Nat, made <= made', UNCHANGED <<rows, wanted>>,
         \A k \in DOMAIN calls' : calls'[k].at \in Waiting =>
           (k \in DOMAIN calls /\ calls[k].at \in Waiting) \/ (k \in Nat /\ made < k)
  PROVE  RowsMove /\ RowsInv'
<1>1. \A i : Born(i) => Born(i)'
  <2> SUFFICES ASSUME NEW i, Born(i), i \in Nat PROVE Born(i)'
    BY DEF Born
  <2>1. i <= made /\ (i \in DOMAIN calls => calls[i].at \notin Waiting)
    BY DEF Born
  <2>2. i <= made' /\ ~(made < i)
    BY SMTT(30), <2>1
  <2> QED BY <2>1, <2>2 DEF Born
<1>2. \A i \in DOMAIN rows : rows[i].lv <= rows[i].lv
  <2>1. \A i \in DOMAIN rows : rows[i].lv \in Nat
    BY DEF RowsInv, RowFits
  <2>2. \A n \in Nat : n <= n
    BY SMTT(30)
  <2> QED BY <2>1, <2>2
<1>3. Pending' = Pending
  BY DEF Pending, OfKind
<1>4. RowsMove
  BY <1>1, <1>2, <1>3 DEF RowsMove
<1> QED BY ZenonT(100), <1>1, <1>4 DEF RowsInv, RowFits

-----------------------------------------------------------------------------
(* Tabs *)

\* Tab t as a step leaves it; no other tab changes.
Redraws(t, data, dialog, reload, fresh, shown) ==
  LET p == tab[t]
      q == tab'[t]
  IN  /\ DOMAIN tab' = DOMAIN tab /\ tab' = [u \in DOMAIN tab' |-> tab'[u]]
      /\ \A u \in DOMAIN tab : u # t => tab'[u] = tab[u]
      /\ IsTab(q) /\ q.page = p.page /\ q.role = p.role
      /\ q.data = data /\ q.dialog = dialog /\ q.reload = reload /\ q.fresh = fresh /\ q.shown = shown

\* The history, but for tabs that do not wait.
Hastens(t) ==
  /\ IsSeen(seen') /\ seen'.early = seen.early \cup Hasty(t)
  /\ seen'.changed = seen.changed /\ seen'.misled = seen.misled /\ seen'.stale = seen.stale
  /\ seen'.denied = seen.denied /\ seen'.lost = seen.lost /\ seen'.raced = seen.raced

\* What the history becomes when a user does not wait.
LEMMA HastensIs ==
  ASSUME IsSeen(seen), NEW t, seen' = [seen EXCEPT !.early = @ \cup Hasty(t)]
  PROVE  Hastens(t)
BY DEF Hastens, IsSeen

\* Opening a dialog, field by field.
LEMMA OpensIs ==
  ASSUME NEW t \in DOMAIN tab, IsTab(tab[t]), NEW kind, NEW id, NEW of, Opens(t, kind, id, of)
  PROVE  Redraws(t, tab[t].data, [kind |-> kind, id |-> id, of |-> of], tab[t].reload, tab[t].fresh, tab[t].shown)
BY DEF Opens, Redraws, IsTab

\* Closing a dialog, field by field.
LEMMA CloseIs ==
  ASSUME NEW t \in DOMAIN tab, IsTab(tab[t]), Close(t)
  PROVE  Redraws(t, tab[t].data, NoDialog, tab[t].reload, tab[t].fresh, tab[t].shown)
BY DEF Close, Redraws, IsTab

\* Dismissing a secret, field by field.
LEMMA DismissIs ==
  ASSUME NEW t \in DOMAIN tab, IsTab(tab[t]), NEW kind, Dismiss(t, kind)
  PROVE  Redraws(t, tab[t].data, tab[t].dialog, tab[t].reload, tab[t].fresh, [tab[t].shown EXCEPT ![kind] = 0])
BY DEF Dismiss, Redraws, IsTab

\* A loader reading, field by field.
LEMMA LoaderReadsIs ==
  ASSUME NEW t \in DOMAIN tab, IsTab(tab[t]), NEW data, NEW up, LoaderReads(t, data, up)
  PROVE  Redraws(t, tab[t].data, tab[t].dialog, "read", [data |-> data, up |-> up], tab[t].shown)
BY DEF LoaderReads, Redraws, IsTab

\* A loader's data arriving, field by field.
LEMMA LoaderArrivesIs ==
  ASSUME NEW t \in DOMAIN tab, IsTab(tab[t]), NEW of, LoaderArrives(t, of)
  PROVE  Redraws(t, tab[t].fresh.data,
                 IF tab[t].fresh.up THEN [tab[t].dialog EXCEPT !.of = of] ELSE NoDialog,
                 "none", [data |-> NoRows, up |-> TRUE], tab[t].shown)
BY DEF LoaderArrives, Redraws, IsTab

\* Loading the page again, field by field.
LEMMA RefreshIs ==
  ASSUME NEW t \in DOMAIN tab, IsTab(tab[t]), NEW data, Refresh(t, data)
  PROVE  Redraws(t, data, NoDialog, tab[t].reload, tab[t].fresh, [kind \in Revealing |-> 0])
BY DEF Refresh, Redraws, IsTab

\* Submitting a form, field by field.
LEMMA SubmitIs ==
  ASSUME NEW t \in DOMAIN tab, IsTab(tab[t]), NEW kind, NEW s, Submit(t, kind, s) \/ Confirm(t, kind, s)
  PROVE  Redraws(t, tab[t].data, tab[t].dialog, tab[t].reload, tab[t].fresh, tab[t].shown)
<1>1. CASE Submit(t, kind, s)
  BY <1>1 DEF Submit, Redraws, IsTab
<1>2. CASE Confirm(t, kind, s)
  BY <1>2 DEF Confirm, Redraws, IsTab
<1> QED BY <1>1, <1>2

-----------------------------------------------------------------------------
(* Steps of a page that make no call *)

Still == UNCHANGED <<rows, calls, made, wanted>>

\* Where the rows stand, everything known of them does.
LEMMA StillMoves ==
  ASSUME ConsoleInv, Still
  PROVE  RowsMove /\ RowsInv'
<1>1. made <= made
  BY SMTT(30) DEF ConsoleInv
<1> QED BY <1>1, RowsStand DEF ConsoleInv, Still

\* The five properties, when the rows stand and the history only grows.
LEMMA PromisesStand ==
  ASSUME ConsoleInv, rows' = rows, wanted' = wanted,
         seen.early \subseteq seen'.early, seen.misled \subseteq seen'.misled, seen'.changed = seen.changed,
         seen'.stale = seen.stale, seen'.denied = seen.denied, seen'.raced = seen.raced,
         seen'.lost = seen.lost \/ \E t \in seen.early : seen'.lost = seen.lost \cup {t}
  PROVE  (EditsCompose /\ StaleNeedsARace /\ OfferedIsAllowed /\ SecretStaysUp /\ CapYieldsOnlyToRaces)'
<1>1. EditsCompose /\ StaleNeedsARace /\ OfferedIsAllowed /\ SecretStaysUp /\ CapYieldsOnlyToRaces
  BY DEF ConsoleInv
<1>2. EditsCompose'
  BY <1>1 DEF EditsCompose
<1>3. StaleNeedsARace' /\ OfferedIsAllowed' /\ SecretStaysUp'
  BY <1>1 DEF StaleNeedsARace, OfferedIsAllowed, SecretStaysUp
<1>4. Pending' = Pending
  BY DEF Pending, OfKind
<1>5. CapYieldsOnlyToRaces'
  BY <1>1, <1>4 DEF CapYieldsOnlyToRaces
<1> QED BY <1>2, <1>3, <1>5

\* A step that redraws one tab is right if it is right for that tab.
LEMMA PageStep ==
  ASSUME ConsoleInv, Still, NEW t \in DOMAIN tab, Hastens(t) \/ seen' = seen,
         NEW data, NEW dialog, NEW reload, NEW fresh, NEW shown,
         Redraws(t, data, dialog, reload, fresh, shown),
         reload \in {"none", "asked", "read"}, shown = [kind \in Revealing |-> shown[kind]],
         Held(tab[t].page, data), Held(tab[t].page, fresh.data), DialogInv(tab[t].role, dialog),
         OneAtATime(t)', NoRace(t)'
  PROVE  ConsoleInv'
<1>1. RowsMove /\ RowsInv'
  BY StillMoves
<1>2. RowsInv /\ tab[t].page \in {"detail", "list", "admin", "alerts"}
  BY DEF ConsoleInv, TabInv
<1>3. PICK page, role : page = tab[t].page /\ role = tab[t].role
  OBVIOUS
<1>4. Held(page, data)' /\ Held(page, fresh.data)' /\ DialogInv(role, dialog)'
  BY <1>1, <1>2, <1>3, HeldMoves, DialogMoves
<1>5. TabInv(t)'
  <2>1. /\ IsTab(tab'[t]) /\ tab'[t].page = page /\ tab'[t].role = role
        /\ tab'[t].data = data /\ tab'[t].dialog = dialog /\ tab'[t].reload = reload
        /\ tab'[t].fresh = fresh /\ tab'[t].shown = shown
    BY <1>3 DEF Redraws
  <2> QED BY <1>2, <1>3, <1>4, <2>1 DEF TabInv, IsTab
<1>6. \A u \in DOMAIN tab : u # t => tab'[u] = tab[u]
  BY DEF Redraws
<1>7. ASSUME NEW u \in DOMAIN tab, u # t
      PROVE  TabInv(u)' /\ OneAtATime(u)' /\ NoRace(u)'
  <2>1. tab'[u] = tab[u] /\ TabInv(u) /\ OneAtATime(u) /\ NoRace(u)
    BY <1>6, <1>7 DEF ConsoleInv
  <2>2. TabInv(u)'
    BY <1>1, <1>2, <2>1, TabMoves
  <2>3. (u \in seen'.early <=> u \in seen.early) /\ seen'.misled = seen.misled /\ seen'.changed = seen.changed
    BY <1>7 DEF Hastens, Hasty
  <2>4. OneAtATime(u)'
    BY <2>1, <2>3 DEF OneAtATime, Unanswered, Still
  <2>5. NoRace(u)'
    <3>1. rows' = rows /\ calls' = calls /\ Unanswered(u)' = Unanswered(u)
      BY DEF Still, Unanswered
    <3>2. Exempt(u)' <=> Exempt(u)
      BY <2>3 DEF Exempt
    <3>3. /\ UpToDate(tab[u].data)' <=> UpToDate(tab[u].data)
          /\ UpToDate(tab[u].fresh.data)' <=> UpToDate(tab[u].fresh.data)
          /\ Current(tab[u])' <=> Current(tab[u])
      BY <2>1, <3>1 DEF Current, UpToDate
    <3> QED BY <2>1, <2>3, <3>1, <3>2, <3>3 DEF NoRace
  <2> QED BY <2>2, <2>4, <2>5
<1>8. ASSUME NEW k \in DOMAIN calls
      PROVE  CallInv(k)'
  <2>1. \A u \in DOMAIN tab : tab'[u].role = tab[u].role
    BY <1>6 DEF Redraws
  <2> QED BY <1>1, <1>2, <1>8, <2>1, CallMoves DEF ConsoleInv, Still, Redraws
<1>9. (EditsCompose /\ StaleNeedsARace /\ OfferedIsAllowed /\ SecretStaysUp /\ CapYieldsOnlyToRaces)'
  <2>1. /\ seen.early \subseteq seen'.early /\ seen'.misled = seen.misled /\ seen'.changed = seen.changed
        /\ seen'.stale = seen.stale /\ seen'.denied = seen.denied /\ seen'.lost = seen.lost /\ seen'.raced = seen.raced
    BY DEF Hastens
  <2> QED BY <2>1, PromisesStand DEF Still
<1>10. IsSeen(seen')
  BY DEF ConsoleInv, Hastens
<1> QED BY <1>1, <1>5, <1>7, <1>8, <1>9, <1>10 DEF ConsoleInv, Still, Redraws

\* What the invariant says of one tab.
LEMMA TabOf ==
  ASSUME ConsoleInv, NEW t \in DOMAIN tab
  PROVE  LET p == tab[t]
         IN  /\ IsTab(p) /\ p.page \in {"detail", "list", "admin", "alerts"}
             /\ p.reload \in {"none", "asked", "read"} /\ p.shown = [kind \in Revealing |-> p.shown[kind]]
             /\ Held(p.page, p.data) /\ Held(p.page, p.fresh.data) /\ DialogInv(p.role, p.dialog)
             /\ OneAtATime(t) /\ NoRace(t)
BY DEF ConsoleInv, TabInv

\* A closed dialog is right whatever the role.
LEMMA NothingOpen ==
  ASSUME NEW role
  PROVE  DialogInv(role, NoDialog) /\ NoDialog.kind = "none"
BY DEF DialogInv, IsDialog, NoDialog, Deletes

\* A dialog opens only on a row of the page and for what the matrix allows.
LEMMA OpensStep ==
  ASSUME ConsoleInv, NEW t \in DOMAIN tab, NEW kind \in CallKinds, NEW id, NEW of, Opens(t, kind, id, of),
         DialogInv(tab[t].role, [kind |-> kind, id |-> id, of |-> of]),
         kind = "retention" => Policy \in DOMAIN tab[t].data /\ of = tab[t].data[Policy],
         kind = "editRule" => id \in DOMAIN tab[t].data /\ of = tab[t].data[id]
  PROVE  ConsoleInv'
<1> DEFINE d == [kind |-> kind, id |-> id, of |-> of]
           p == tab[t]
<1>1. Redraws(t, p.data, d, p.reload, p.fresh, p.shown)
  BY OpensIs, TabOf
<1>2. Still /\ Hastens(t) /\ Modal(t)
  BY HastensIs DEF Opens, Still, ConsoleInv
<1>3. ASSUME t \notin seen'.early
      PROVE  t \notin seen.early /\ Unanswered(t) = {} /\ p.reload = "none" /\ \A x \in Revealing : p.shown[x] = 0
  BY <1>2, <1>3 DEF Hastens, Hasty, Modal
<1>4. Unanswered(t)' = Unanswered(t) /\ rows' = rows /\ calls' = calls
  BY <1>2 DEF Unanswered, Still
<1>5. tab'[t].reload = p.reload /\ tab'[t].shown = p.shown /\ tab'[t].data = p.data /\ tab'[t].dialog = d
  BY <1>1 DEF Redraws
<1>6. OneAtATime(t)'
  BY <1>3, <1>4, <1>5 DEF OneAtATime
<1>7. NoRace(t)'
  <2> SUFFICES ASSUME ~Exempt(t)' PROVE Current(tab[t])' /\ Unanswered(t) = {} /\ p.reload = "none"
    BY <1>4, <1>5 DEF NoRace
  <2>1. t \notin seen'.early /\ ~Exempt(t)
    BY <1>2 DEF Exempt, Hastens
  <2>2. Unanswered(t) = {} /\ p.reload = "none"
    BY <1>3, <2>1
  <2>3. Current(p)
    BY <2>1, <2>2, TabOf DEF NoRace
  <2>4. UpToDate(p.data)
    BY <2>3 DEF Current
  <2>5. UpToDate(tab[t].data)'
    BY <1>4, <1>5, <2>4 DEF UpToDate
  <2>6. d.kind = kind /\ d.id = id /\ d.of = of
    OBVIOUS
  <2>7. kind = "retention" => of.lv = rows[Policy].lv
    <3>1. kind = "retention" => Policy \in DOMAIN rows
      BY <2>6 DEF DialogInv, Copy, RowFits
    <3> QED BY <2>4, <3>1 DEF UpToDate
  <2>8. kind = "editRule" /\ id \in DOMAIN rows => of.lv = rows[id].lv
    BY <2>4 DEF UpToDate
  <2> QED BY <1>4, <1>5, <2>2, <2>5, <2>6, <2>7, <2>8 DEF Current
<1>8. /\ p.reload \in {"none", "asked", "read"} /\ p.shown = [x \in Revealing |-> p.shown[x]]
      /\ Held(p.page, p.data) /\ Held(p.page, p.fresh.data)
  BY TabOf
<1> HIDE DEF d
<1> QED BY <1>1, <1>2, <1>6, <1>7, <1>8, PageStep DEF d

\* A dialog closes.
LEMMA CloseStep ==
  ASSUME ConsoleInv, NEW t \in DOMAIN tab, Close(t)
  PROVE  ConsoleInv'
<1> DEFINE p == tab[t]
<1>1. Redraws(t, p.data, NoDialog, p.reload, p.fresh, p.shown)
  BY CloseIs, TabOf
<1>2. Still /\ seen' = seen
  BY DEF Close, Still
<1>3. Unanswered(t)' = Unanswered(t) /\ rows' = rows /\ calls' = calls /\ (Exempt(t)' <=> Exempt(t))
  BY <1>2 DEF Unanswered, Still, Exempt
<1>4. tab'[t].reload = p.reload /\ tab'[t].shown = p.shown /\ tab'[t].data = p.data /\ tab'[t].dialog.kind = "none"
      /\ tab'[t].fresh = p.fresh
  BY <1>1, NothingOpen DEF Redraws
<1>5. OneAtATime(t)'
  <2>1. OneAtATime(t)
    BY TabOf
  <2> QED BY <1>2, <1>3, <1>4, <2>1 DEF OneAtATime
<1>6. NoRace(t)'
  <2>1. Current(p) => Current(tab[t])'
    BY <1>3, <1>4 DEF Current, UpToDate
  <2>2. UpToDate(p.fresh.data) => UpToDate(tab[t].fresh.data)'
    BY <1>3, <1>4 DEF UpToDate
  <2>3. NoRace(t)
    BY TabOf
  <2> QED BY <1>2, <1>3, <1>4, <2>1, <2>2, <2>3 DEF NoRace
<1> QED BY <1>1, <1>2, <1>5, <1>6, NothingOpen, TabOf, PageStep

\* A secret is dismissed (api-keys-section.tsx, invites-section.tsx).
LEMMA DismissStep ==
  ASSUME ConsoleInv, NEW t \in DOMAIN tab, NEW kind \in Revealing, Dismiss(t, kind)
  PROVE  ConsoleInv'
<1> DEFINE p == tab[t]
           shown == [p.shown EXCEPT ![kind] = 0]
<1>1. Redraws(t, p.data, p.dialog, p.reload, p.fresh, shown)
  BY DismissIs, TabOf
<1>2. Still /\ seen' = seen
  BY DEF Dismiss, Still
<1>3. Unanswered(t)' = Unanswered(t) /\ rows' = rows /\ calls' = calls /\ (Exempt(t)' <=> Exempt(t))
  BY <1>2 DEF Unanswered, Still, Exempt
<1>4. tab'[t].reload = p.reload /\ tab'[t].shown = shown /\ tab'[t].data = p.data /\ tab'[t].dialog = p.dialog
      /\ tab'[t].fresh = p.fresh
  BY <1>1 DEF Redraws
<1>5. shown = [x \in Revealing |-> shown[x]] /\ \A x \in Revealing : shown[x] # 0 => p.shown[x] # 0
  BY TabOf
<1>6. OneAtATime(t)'
  <2>1. OneAtATime(t)
    BY TabOf
  <2> QED BY <1>2, <1>3, <1>4, <1>5, <2>1 DEF OneAtATime
<1>7. NoRace(t)'
  <2>1. Current(p) => Current(tab[t])'
    BY <1>3, <1>4 DEF Current, UpToDate
  <2>2. UpToDate(p.fresh.data) => UpToDate(tab[t].fresh.data)'
    BY <1>3, <1>4 DEF UpToDate
  <2>3. NoRace(t)
    BY TabOf
  <2> QED BY <1>2, <1>3, <1>4, <2>1, <2>2, <2>3 DEF NoRace
<1>8. /\ p.reload \in {"none", "asked", "read"} /\ DialogInv(p.role, p.dialog)
      /\ Held(p.page, p.data) /\ Held(p.page, p.fresh.data)
  BY TabOf
<1> HIDE DEF shown
<1> QED BY <1>1, <1>2, <1>5, <1>6, <1>7, <1>8, PageStep

\* What a loader returns is as the rows are.
LEMMA Loaded ==
  ASSUME RowsInv, NEW page, NEW S \in SUBSET DOMAIN rows, page = "detail" => S \subseteq {Dash},
         page = "list" => \A i \in S : rows[i].kind = "dashboard",
         page = "alerts" => \A i \in S : rows[i].kind = "rule"
  PROVE  Held(page, Restrict(rows, S)) /\ UpToDate(Restrict(rows, S))
<1>1. DOMAIN Restrict(rows, S) = S /\ \A i \in S : Restrict(rows, S)[i] = rows[i]
  BY DEF Restrict
<1>2. ASSUME NEW i \in S
      PROVE  Copy(i, rows[i])
  <2>1. Born(i) /\ RowFits(i, rows[i]) /\ i \in DOMAIN rows
    BY DEF RowsInv
  <2>2. rows[i].lv \in Nat
    BY <2>1 DEF RowFits
  <2>3. rows[i].lv <= rows[i].lv
    BY SMTT(30), <2>2
  <2> QED BY <2>1, <2>3 DEF Copy
<1> QED BY <1>1, <1>2 DEF Held, UpToDate

\* A page with no data holds copies.
LEMMA LoadedNothing ==
  ASSUME NEW page
  PROVE  Held(page, NoRows) /\ UpToDate(NoRows)
BY DEF Held, UpToDate, NoRows

\* A loader reads the rows as they are.
LEMMA LoaderReadsStep ==
  ASSUME ConsoleInv, NEW t \in DOMAIN tab, NEW data, NEW up, LoaderReads(t, data, up),
         Held(tab[t].page, data), UpToDate(data)
  PROVE  ConsoleInv'
<1> DEFINE p == tab[t]
           fresh == [data |-> data, up |-> up]
<1>1. Redraws(t, p.data, p.dialog, "read", fresh, p.shown)
  BY LoaderReadsIs, TabOf
<1>2. Still /\ seen' = seen /\ p.reload = "asked"
  BY DEF LoaderReads, Still
<1>3. Unanswered(t)' = Unanswered(t) /\ rows' = rows /\ calls' = calls /\ (Exempt(t)' <=> Exempt(t))
  BY <1>2 DEF Unanswered, Still, Exempt
<1>4. tab'[t].reload = "read" /\ tab'[t].shown = p.shown /\ tab'[t].dialog = p.dialog /\ tab'[t].fresh.data = data
  <2>1. tab'[t].reload = "read" /\ tab'[t].shown = p.shown /\ tab'[t].dialog = p.dialog /\ tab'[t].fresh = fresh
    BY <1>1 DEF Redraws
  <2>2. fresh.data = data
    OBVIOUS
  <2> QED BY <2>1, <2>2
<1>5. OneAtATime(t)'
  <2>1. OneAtATime(t)
    BY TabOf
  <2> QED BY <1>2, <1>3, <1>4, <2>1 DEF OneAtATime
<1>6. NoRace(t)'
  <2>1. UpToDate(tab[t].fresh.data)'
    BY <1>3, <1>4 DEF UpToDate
  <2>2. NoRace(t)
    BY TabOf
  <2> QED BY <1>2, <1>3, <1>4, <2>1, <2>2 DEF NoRace
<1>7. /\ p.shown = [x \in Revealing |-> p.shown[x]] /\ Held(p.page, p.data) /\ DialogInv(p.role, p.dialog)
      /\ fresh.data = data
  BY TabOf
<1> HIDE DEF fresh
<1> QED BY <1>1, <1>2, <1>5, <1>6, <1>7, PageStep

\* What a loader read replaces what the page held.
LEMMA LoaderArrivesStep ==
  ASSUME ConsoleInv, NEW t \in DOMAIN tab, NEW of, LoaderArrives(t, of),
         \/ of = tab[t].dialog.of
         \/ /\ tab[t].dialog.kind = "retention" /\ Policy \in DOMAIN tab[t].fresh.data
            /\ of = tab[t].fresh.data[Policy]
  PROVE  ConsoleInv'
<1> DEFINE p == tab[t]
           dialog == IF p.fresh.up THEN [p.dialog EXCEPT !.of = of] ELSE NoDialog
           fresh == [data |-> NoRows, up |-> TRUE]
<1>1. Redraws(t, p.fresh.data, dialog, "none", fresh, p.shown)
  BY LoaderArrivesIs, TabOf
<1>2. Still /\ seen' = seen /\ p.reload = "read"
  BY DEF LoaderArrives, Still
<1>3. Unanswered(t)' = Unanswered(t) /\ rows' = rows /\ calls' = calls /\ (Exempt(t)' <=> Exempt(t))
  BY <1>2 DEF Unanswered, Still, Exempt
<1>4. tab'[t].reload = "none" /\ tab'[t].shown = p.shown /\ tab'[t].dialog = dialog /\ tab'[t].data = p.fresh.data
  BY <1>1 DEF Redraws
<1>5. DialogInv(p.role, p.dialog) /\ Held(p.page, p.fresh.data) /\ OneAtATime(t) /\ NoRace(t)
  BY TabOf
<1>6. [p.dialog EXCEPT !.of = of] = [kind |-> p.dialog.kind, id |-> p.dialog.id, of |-> of]
  <2>1. IsDialog(p.dialog)
    BY <1>5 DEF DialogInv
  <2> QED BY SMTT(30), <2>1 DEF IsDialog
<1>7. DialogInv(p.role, dialog) /\ (p.dialog.kind = "none" => dialog.kind = "none")
  <2>1. CASE ~p.fresh.up
    BY <2>1, NothingOpen
  <2>2. CASE p.fresh.up /\ of = p.dialog.of
    <3>1. [kind |-> p.dialog.kind, id |-> p.dialog.id, of |-> of] = p.dialog
      BY <1>5, <2>2 DEF DialogInv, IsDialog
    <3> QED BY <1>5, <1>6, <2>2, <3>1
  <2>3. CASE p.fresh.up /\ p.dialog.kind = "retention" /\ Policy \in DOMAIN p.fresh.data /\ of = p.fresh.data[Policy]
    <3>1. dialog = [kind |-> "retention", id |-> p.dialog.id, of |-> of]
      BY <1>6, <2>3
    <3>2. Copy(Policy, of) /\ can(p.role, OpOf("retention"))
      BY <1>5, <2>3 DEF Held, DialogInv
    <3> QED BY <2>3, <3>1, <3>2 DEF DialogInv, IsDialog, CallKinds, Updates, Deletes
  <2> QED BY <2>1, <2>2, <2>3
<1> HIDE DEF dialog
<1>8. OneAtATime(t)'
  BY <1>2, <1>3, <1>4, <1>5, <1>7 DEF OneAtATime
<1>9. NoRace(t)'
  <2> SUFFICES ASSUME ~Exempt(t) PROVE Current(tab[t])' /\ Unanswered(t) = {}
    BY <1>3, <1>4 DEF NoRace
  <2>1. Unanswered(t) = {} /\ dialog.kind = "none"
    BY <1>2, <1>5, <1>7 DEF OneAtATime, Exempt
  <2>2. UpToDate(p.fresh.data)
    BY <1>2, <1>5 DEF NoRace
  <2> QED BY <1>3, <1>4, <2>1, <2>2 DEF Current, UpToDate
<1>10. /\ p.shown = [x \in Revealing |-> p.shown[x]] /\ Held(p.page, fresh.data)
  BY TabOf, LoadedNothing
<1> HIDE DEF fresh
<1> QED BY <1>1, <1>2, <1>5, <1>7, <1>8, <1>9, <1>10, PageStep

\* The user loads the page again.
LEMMA RefreshStep ==
  ASSUME ConsoleInv, NEW t \in DOMAIN tab, NEW data, Refresh(t, data),
         Held(tab[t].page, data), UpToDate(data)
  PROVE  ConsoleInv'
<1> DEFINE p == tab[t]
           shown == [kind \in Revealing |-> 0]
<1>1. Redraws(t, data, NoDialog, p.reload, p.fresh, shown)
  BY RefreshIs, TabOf
<1>2. Still /\ seen' = seen /\ p.reload = "none" /\ Unanswered(t) = {}
  BY DEF Refresh, Still
<1>3. Unanswered(t)' = Unanswered(t) /\ rows' = rows /\ calls' = calls
  BY <1>2 DEF Unanswered, Still
<1>4. tab'[t].reload = "none" /\ tab'[t].shown = shown /\ tab'[t].dialog.kind = "none" /\ tab'[t].data = data
  BY <1>1, <1>2, NothingOpen DEF Redraws
<1>5. shown = [kind \in Revealing |-> shown[kind]] /\ \A x \in Revealing : shown[x] = 0
  OBVIOUS
<1>6. OneAtATime(t)'
  BY <1>2, <1>3, <1>4, <1>5 DEF OneAtATime
<1>7. NoRace(t)'
  <2>1. Current(tab[t])'
    BY <1>3, <1>4 DEF Current, UpToDate
  <2> QED BY <1>2, <1>3, <1>4, <2>1 DEF NoRace
<1>8. Held(p.page, p.fresh.data)
  BY TabOf
<1> HIDE DEF shown
<1> QED BY <1>1, <1>2, <1>5, <1>6, <1>7, <1>8, NothingOpen, PageStep

-----------------------------------------------------------------------------
(* Calls are made *)

\* A call as a dialog makes it.
Fits(t, n, c) ==
  /\ c.tab = t /\ c.kind = tab[t].dialog.kind /\ c.kind \in CallKinds /\ c.at = "sent"
  /\ c.kind \in Creates => c.op = "insert" /\ RowFits(n, c.row) /\ c.row.kind = KindOf(c.kind)
  /\ c.kind \in Deletes => c.op = "delete" /\ About(c.kind, c.id)
  /\ c.kind \in Updates => PatchFits(c)
  /\ c.kind = "createInvite" => DOMAIN c = {"tab", "kind", "at", "op", "row", "counted"}
  /\ Current(tab[t]) /\ c.kind \in Updates /\ c.id \in DOMAIN rows =>
       \A x \in DOMAIN c.patch : Together(rows[c.id].kind, x) => c.base = rows[c.id].lv

\* A call leaves a tab: what it must satisfy for the invariant to hold after it.
LEMMA CallStep ==
  ASSUME ConsoleInv, NEW t \in DOMAIN tab, NEW n, n = made + 1, NEW c, Fits(t, n, c),
         Redraws(t, tab[t].data, tab[t].dialog, tab[t].reload, tab[t].fresh, tab[t].shown),
         Hastens(t), UNCHANGED <<rows, wanted>>, made' = n, calls' = Over(calls, At(n, c))
  PROVE  ConsoleInv'
<1> DEFINE p == tab[t]
<1>1. /\ made \in Nat /\ DOMAIN calls \subseteq 1..made /\ RowsInv /\ calls = [k \in DOMAIN calls |-> calls[k]]
  BY DEF ConsoleInv
<1>2. /\ n \in Nat /\ made < n /\ made <= n /\ n \notin DOMAIN calls /\ DOMAIN calls \cup {n} \subseteq 1..n
  BY SMTT(30), <1>1
<1>3. /\ DOMAIN calls' = DOMAIN calls \cup {n} /\ calls' = [k \in DOMAIN calls' |-> calls'[k]]
      /\ calls'[n] = c /\ \A k \in DOMAIN calls : calls'[k] = calls[k]
  <2>1. n \notin DOMAIN calls
    BY <1>2
  <2>2. \A g : g = Over(calls, At(n, c)) =>
               /\ DOMAIN g = DOMAIN calls \cup {n} /\ g = [k \in DOMAIN g |-> g[k]]
               /\ g[n] = c /\ \A k \in DOMAIN calls : g[k] = calls[k]
    BY ONLY ZenonT(30), <2>1 DEF Over, At
  <2> QED BY <2>2
<1>4. RowsMove /\ RowsInv'
  BY <1>1, <1>2, <1>3, RowsStand
<1>5. /\ DOMAIN tab' = DOMAIN tab /\ tab' = [u \in DOMAIN tab' |-> tab'[u]]
      /\ (\A u \in DOMAIN tab : u # t => tab'[u] = tab[u]) /\ (\A u \in DOMAIN tab : tab'[u].role = tab[u].role)
  BY DEF Redraws
<1>6. /\ IsTab(tab'[t]) /\ tab'[t].page = p.page /\ tab'[t].role = p.role /\ tab'[t].data = p.data
      /\ tab'[t].dialog = p.dialog /\ tab'[t].reload = p.reload /\ tab'[t].fresh = p.fresh /\ tab'[t].shown = p.shown
  BY DEF Redraws
<1>7. /\ p.page \in {"detail", "list", "admin", "alerts"}
      /\ p.reload \in {"none", "asked", "read"} /\ p.shown = [x \in Revealing |-> p.shown[x]]
      /\ Held(p.page, p.data) /\ Held(p.page, p.fresh.data) /\ DialogInv(p.role, p.dialog)
      /\ OneAtATime(t) /\ NoRace(t)
  BY TabOf
<1>8. c.tab = t /\ c.kind = p.dialog.kind /\ c.kind \in CallKinds /\ c.kind # "none" /\ c.at = "sent"
  BY DEF Fits, CallKinds, Creates, Deletes, Updates
<1>9. TabInv(t)'
  <2>1. PICK q : q = p
    OBVIOUS
  <2>2. Held(q.page, q.data)' /\ Held(q.page, q.fresh.data)' /\ DialogInv(q.role, q.dialog)'
    BY <1>1, <1>4, <1>7, <2>1, HeldMoves, DialogMoves
  <2> QED BY <1>6, <1>7, <2>1, <2>2 DEF TabInv, IsTab
<1>10. Unanswered(t)' = Unanswered(t) \cup {n} /\ \A u \in DOMAIN tab : u # t => Unanswered(u)' = Unanswered(u)
  BY <1>3, <1>8 DEF Unanswered
<1>11. ASSUME t \notin seen'.early
       PROVE  /\ t \notin seen.early /\ Unanswered(t) = {} /\ p.reload = "none"
              /\ \A x \in Revealing : p.shown[x] = 0
  <2>1. t \notin seen.early /\ Unanswered(t) = {} /\ p.reload = "none"
    BY <1>11 DEF Hastens, Hasty
  <2> QED BY <1>7, <1>8, <2>1 DEF OneAtATime
<1>12. OneAtATime(t)'
  BY ZenonT(100), <1>3, <1>6, <1>8, <1>10, <1>11 DEF OneAtATime
<1>13. NoRace(t)'
  <2> SUFFICES ASSUME ~Exempt(t)' PROVE NoRace(t)'
    BY DEF NoRace
  <2>1. t \notin seen'.early /\ ~Exempt(t)
    BY DEF Exempt, Hastens
  <2>2. Unanswered(t) = {} /\ p.reload = "none"
    BY <1>11, <2>1
  <2>3. Current(p)
    BY <1>7, <2>1, <2>2 DEF NoRace
  <2>4. Current(tab[t])'
    BY <1>6, <2>3 DEF Current, UpToDate
  <2>5. c.kind \in Updates /\ c.id \in DOMAIN rows =>
          \A x \in DOMAIN c.patch : Together(rows[c.id].kind, x) => c.base = rows[c.id].lv
    BY <2>3 DEF Fits
  <2>6. \A k \in Unanswered(t)' : calls'[k] = c
    BY <1>3, <1>10, <2>2
  <2> QED BY <1>6, <2>2, <2>4, <2>5, <2>6 DEF NoRace
<1>14. ASSUME NEW u \in DOMAIN tab, u # t
       PROVE  TabInv(u)' /\ OneAtATime(u)' /\ NoRace(u)'
  <2>1. tab'[u] = tab[u] /\ TabInv(u) /\ OneAtATime(u) /\ NoRace(u)
    BY <1>5, <1>14 DEF ConsoleInv
  <2>2. TabInv(u)'
    BY <1>1, <1>4, <2>1, TabMoves
  <2>3. (u \in seen'.early <=> u \in seen.early) /\ seen'.misled = seen.misled /\ seen'.changed = seen.changed
    BY <1>14 DEF Hastens, Hasty
  <2>4. Unanswered(u)' = Unanswered(u) /\ \A k \in Unanswered(u) : calls'[k] = calls[k]
    BY <1>3, <1>10, <1>14 DEF Unanswered
  <2>5. OneAtATime(u)'
    BY <2>1, <2>3, <2>4 DEF OneAtATime
  <2>6. NoRace(u)'
    <3>1. Exempt(u)' <=> Exempt(u)
      BY <2>3 DEF Exempt
    <3>2. /\ UpToDate(tab[u].fresh.data)' <=> UpToDate(tab[u].fresh.data)
          /\ Current(tab[u])' <=> Current(tab[u])
      BY <2>1 DEF Current, UpToDate
    <3> QED BY <2>1, <2>3, <2>4, <3>1, <3>2 DEF NoRace
  <2> QED BY <2>2, <2>5, <2>6
<1>15. ASSUME NEW k \in DOMAIN calls
       PROVE  CallInv(k)'
  BY <1>1, <1>3, <1>4, <1>5, <1>15, CallMoves DEF ConsoleInv
<1>16. CallInv(n)'
  <2>1. can(tab'[t].role, OpOf(c.kind))
    BY <1>6, <1>7, <1>8 DEF DialogInv
  <2>2. /\ c.kind \in Creates => c.op = "insert" /\ RowFits(n, c.row)' /\ c.row.kind = KindOf(c.kind)
        /\ c.kind \in Deletes => c.op = "delete" /\ About(c.kind, c.id)'
        /\ c.kind \in Updates => PatchFits(c)'
        /\ c.kind = "createInvite" => DOMAIN c = {"tab", "kind", "at", "op", "row", "counted"}
    BY <1>1, <1>4, AboutMoves, PatchMoves, RowFitsStays DEF Fits
  <2> QED BY <1>3, <1>5, <1>8, <2>1, <2>2 DEF CallInv
<1>17. (EditsCompose /\ StaleNeedsARace /\ OfferedIsAllowed /\ SecretStaysUp /\ CapYieldsOnlyToRaces)'
  <2>1. /\ seen.early \subseteq seen'.early /\ seen'.misled = seen.misled /\ seen'.changed = seen.changed
        /\ seen'.stale = seen.stale /\ seen'.denied = seen.denied /\ seen'.lost = seen.lost /\ seen'.raced = seen.raced
    BY DEF Hastens
  <2>2. rows' = rows /\ wanted' = wanted
    OBVIOUS
  <2> QED BY <2>1, <2>2, PromisesStand
<1> QED BY <1>1, <1>2, <1>3, <1>4, <1>5, <1>9, <1>12, <1>13, <1>14, <1>15, <1>16, <1>17 DEF ConsoleInv, Hastens

\* What a form or a confirmation sends.
Sends(c, t, kind, s) == c = Over([tab |-> t, kind |-> kind, at |-> "sent"], s)

\* A call that fits is sent.
LEMMA MakesCall ==
  ASSUME ConsoleInv, NEW t \in DOMAIN tab, NEW kind, NEW s, Submit(t, kind, s) \/ Confirm(t, kind, s),
         NEW c, Sends(c, t, kind, s), NEW n, n = made + 1, Fits(t, n, c)
  PROVE  ConsoleInv'
<1>1. Redraws(t, tab[t].data, tab[t].dialog, tab[t].reload, tab[t].fresh, tab[t].shown)
  BY SubmitIs, TabOf
<1>2. Call(t, s) /\ tab[t].dialog.kind = kind
  BY DEF Submit, Confirm
<1>3. calls' = Over(calls, At(n, c)) /\ made' = n /\ UNCHANGED <<rows, wanted>>
  BY <1>2 DEF Call, Sends
<1>4. Hastens(t)
  BY <1>2, HastensIs DEF Call, ConsoleInv
<1> QED BY <1>1, <1>3, <1>4, CallStep

-----------------------------------------------------------------------------
(* The control plane *)

\* Calls before and after one of them was dealt with.
CallsMove ==
  /\ DOMAIN calls' = DOMAIN calls /\ calls' = [j \in DOMAIN calls' |-> calls'[j]]
  /\ \A j \in DOMAIN calls :
       \/ calls'[j] = calls[j]
       \/ /\ calls[j].at \in Waiting /\ calls'[j].tab = calls[j].tab /\ calls'[j].kind = calls[j].kind
          /\ calls'[j].at \notin Waiting \/ calls'[j].kind \notin Updates

\* A call that the control plane dealt with is still to be answered.
LEMMA UnansweredStands ==
  ASSUME CallsMove, NEW t
  PROVE  Unanswered(t)' = Unanswered(t)
BY DEF CallsMove, Unanswered

\* A tab that waits is still up to date if no row has a new version.
LEMMA NoRaceStands ==
  ASSUME ConsoleInv, RowsMove, CallsMove, tab' = tab, NEW t \in DOMAIN tab,
         \A i \in DOMAIN rows' : Born(i) => rows'[i].lv = rows[i].lv,
         seen'.early = seen.early, seen'.misled = seen.misled, seen'.changed = seen.changed
  PROVE  NoRace(t)'
<1> DEFINE p == tab[t]
<1>1. Unanswered(t)' = Unanswered(t)
  BY UnansweredStands
<1>2. Exempt(t)' <=> Exempt(t)
  BY DEF Exempt
<1>3. Held(p.page, p.data) /\ Held(p.page, p.fresh.data) /\ DialogInv(p.role, p.dialog) /\ NoRace(t)
  BY TabOf
<1>4. ASSUME NEW data, Held(p.page, data), UpToDate(data)
      PROVE  UpToDate(data)'
  <2>1. ASSUME NEW i \in DOMAIN data, i \in DOMAIN rows'
        PROVE  data[i].lv = rows'[i].lv
    <3>1. Born(i)
      BY <1>4, <2>1 DEF Held, Copy
    <3>2. i \in DOMAIN rows /\ rows'[i].lv = rows[i].lv
      BY <2>1, <3>1 DEF RowsMove
    <3> QED BY <1>4, <2>1, <3>2 DEF UpToDate
  <2> QED BY <2>1 DEF UpToDate
<1>5. ASSUME Current(p)
      PROVE  Current(tab[t])'
  <2>1. UpToDate(p.data)
    BY <1>5 DEF Current
  <2>2. UpToDate(tab[t].data)'
    <3>1. PICK data : data = p.data
      OBVIOUS
    <3>2. UpToDate(data)'
      BY <1>3, <1>4, <2>1, <3>1
    <3> QED BY <3>1, <3>2 DEF UpToDate
  <2>3. p.dialog.kind = "retention" => p.dialog.of.lv = rows'[Policy].lv
    <3> SUFFICES ASSUME p.dialog.kind = "retention" PROVE p.dialog.of.lv = rows'[Policy].lv
      OBVIOUS
    <3>1. Copy(Policy, p.dialog.of)
      BY <1>3 DEF DialogInv
    <3>2. Born(Policy) /\ Policy \in DOMAIN rows /\ rows[Policy].kind = "policy"
      BY <3>1 DEF Copy, RowFits
    <3>3. Policy \in DOMAIN rows'
      BY <3>2 DEF RowsMove
    <3> QED BY <1>5, <3>2, <3>3 DEF Current
  <2>4. p.dialog.kind = "editRule" /\ p.dialog.id \in DOMAIN rows' => p.dialog.of.lv = rows'[p.dialog.id].lv
    <3> SUFFICES ASSUME p.dialog.kind = "editRule", p.dialog.id \in DOMAIN rows'
                 PROVE  p.dialog.of.lv = rows'[p.dialog.id].lv
      OBVIOUS
    <3>1. Born(p.dialog.id)
      BY <1>3 DEF DialogInv, Copy
    <3>2. p.dialog.id \in DOMAIN rows
      BY <3>1 DEF RowsMove
    <3> QED BY <1>5, <3>1, <3>2 DEF Current
  <2> QED BY <2>2, <2>3, <2>4 DEF Current
<1>6. UpToDate(p.fresh.data) => UpToDate(tab[t].fresh.data)'
  <2>1. PICK data : data = p.fresh.data
    OBVIOUS
  <2>2. UpToDate(data) => UpToDate(data)'
    BY <1>3, <1>4, <2>1
  <2> QED BY <2>1, <2>2 DEF UpToDate
<1>7. \A j \in Unanswered(t) : calls[j].at \notin Waiting => calls'[j] = calls[j]
  BY DEF CallsMove, Unanswered
<1>8. ASSUME ~Exempt(t), NEW j \in Unanswered(t),
             calls'[j].at \in Waiting, calls'[j].kind \in Updates, calls'[j].id \in DOMAIN rows',
             NEW x \in DOMAIN calls'[j].patch, Together(rows'[calls'[j].id].kind, x)
      PROVE  calls'[j].base = rows'[calls'[j].id].lv
  <2>1. calls'[j] = calls[j] /\ CallInv(j)
    BY <1>8 DEF CallsMove, Unanswered, ConsoleInv
  <2>2. PatchFits(calls[j])
    BY <1>8, <2>1 DEF CallInv
  <2>3. Born(calls[j].id)
    BY <2>2 DEF PatchFits, About
  <2>4. /\ calls[j].id \in DOMAIN rows /\ rows'[calls[j].id].kind = rows[calls[j].id].kind
        /\ rows'[calls[j].id].lv = rows[calls[j].id].lv
    BY <1>8, <2>1, <2>3 DEF RowsMove
  <2> QED BY <1>3, <1>8, <2>1, <2>4 DEF NoRace
<1>9. p.reload = "none" /\ ~Exempt(t) =>
        \/ Current(tab[t])'
        \/ \E j \in Unanswered(t) : calls'[j].at \notin Waiting /\ calls'[j].applied /\ t \in seen'.changed
  BY <1>3, <1>5, <1>7 DEF NoRace
<1>10. p.reload = "read" /\ ~Exempt(t) => UpToDate(tab[t].fresh.data)'
  BY <1>3, <1>6 DEF NoRace
<1> QED BY <1>1, <1>2, <1>8, <1>9, <1>10 DEF NoRace

\* A step that changes rows, calls or both, and no page.
LEMMA TablesStep ==
  ASSUME ConsoleInv, RowsInv', RowsMove, CallsMove, tab' = tab, made' \in Nat, DOMAIN calls \subseteq 1..made',
         IsSeen(seen'), seen'.early = seen.early,
         \A j \in DOMAIN calls : calls'[j] = calls[j] \/ CallInv(j)',
         \A t \in DOMAIN tab : NoRace(t)',
         EditsCompose', StaleNeedsARace', OfferedIsAllowed', SecretStaysUp', CapYieldsOnlyToRaces'
  PROVE  ConsoleInv'
<1>1. RowsInv
  BY DEF ConsoleInv
<1>2. ASSUME NEW t \in DOMAIN tab
      PROVE  TabInv(t)' /\ OneAtATime(t)'
  <2>1. TabInv(t) /\ OneAtATime(t)
    BY DEF ConsoleInv
  <2>2. TabInv(t)'
    BY <1>1, <2>1, TabMoves
  <2>3. Unanswered(t)' = Unanswered(t)
    BY UnansweredStands
  <2>4. \A k \in Unanswered(t) : calls'[k].kind = calls[k].kind
    BY DEF CallsMove, Unanswered
  <2> QED BY <2>1, <2>2, <2>3, <2>4 DEF OneAtATime
<1>3. ASSUME NEW j \in DOMAIN calls
      PROVE  CallInv(j)'
  <2>1. CASE calls'[j] = calls[j]
    BY <1>1, <2>1, CallMoves DEF ConsoleInv
  <2> QED BY <2>1
<1>4. /\ DOMAIN calls' = DOMAIN calls /\ calls' = [j \in DOMAIN calls' |-> calls'[j]]
  BY DEF CallsMove
<1> QED BY <1>2, <1>3, <1>4 DEF ConsoleInv

\* A step of the control plane.
LEMMA RowsStep ==
  ASSUME ConsoleInv, RowsInv', RowsMove, CallsMove, UNCHANGED <<tab, made>>,
         IsSeen(seen'), seen'.early = seen.early,
         \A j \in DOMAIN calls : calls'[j] = calls[j] \/ CallInv(j)',
         \A t \in DOMAIN tab : NoRace(t)',
         EditsCompose', StaleNeedsARace', OfferedIsAllowed', SecretStaysUp', CapYieldsOnlyToRaces'
  PROVE  ConsoleInv'
BY TablesStep DEF ConsoleInv

SeenStands ==
  /\ IsSeen(seen') /\ seen'.early = seen.early /\ seen'.changed = seen.changed /\ seen'.misled = seen.misled
  /\ seen'.stale = seen.stale /\ seen'.denied = seen.denied /\ seen'.lost = seen.lost /\ seen'.raced = seen.raced

\* A call's outcome, applied or not.
LEMMA Settled ==
  ASSUME ConsoleInv, NEW k \in DOMAIN calls, calls[k].at \in Waiting, tab' = tab,
         NEW at \in {"ok", "error", "thrown"}, NEW applied, at = "ok" => applied,
         calls' = [calls EXCEPT ![k] = AdminOutcome(calls[k], at, applied)]
  PROVE  /\ CallsMove /\ CallInv(k)' /\ (\A j \in DOMAIN calls : calls'[j] = calls[j] \/ CallInv(j)')
         /\ calls'[k].tab = calls[k].tab /\ calls'[k].at \notin Waiting /\ calls'[k].applied = applied
         /\ \A j \in DOMAIN calls : j # k => calls'[j] = calls[j]
<1>1. PICK o : o = AdminOutcome(calls[k], at, applied)
  OBVIOUS
<1>2. o.tab = calls[k].tab /\ o.kind = calls[k].kind /\ o.at = at /\ o.applied = applied
  BY <1>1 DEF AdminOutcome
<1>3. /\ DOMAIN calls' = DOMAIN calls /\ calls' = [j \in DOMAIN calls' |-> calls'[j]]
      /\ calls'[k] = o /\ \A j \in DOMAIN calls : j # k => calls'[j] = calls[j]
  BY <1>1
<1>4. at \notin Waiting /\ at # "counted"
  BY DEF Waiting
<1>5. CallsMove
  BY <1>2, <1>3, <1>4 DEF CallsMove
<1>6. CallInv(k)
  BY DEF ConsoleInv
<1>7. CallInv(k)'
  BY <1>2, <1>3, <1>4, <1>6 DEF CallInv
<1> QED BY <1>2, <1>3, <1>4, <1>5, <1>7

\* A call that is refused or lost changes no row.
LEMMA RefusedStep ==
  ASSUME ConsoleInv, NEW k \in DOMAIN calls, calls[k].at \in Waiting, NEW at \in {"error", "thrown"},
         calls' = [calls EXCEPT ![k] = AdminOutcome(calls[k], at, FALSE)],
         SeenStands, UNCHANGED <<rows, wanted, tab, made>>
  PROVE  ConsoleInv'
<1>1. /\ CallsMove /\ (\A j \in DOMAIN calls : calls'[j] = calls[j] \/ CallInv(j)')
      /\ calls'[k].at \notin Waiting /\ \A j \in DOMAIN calls : j # k => calls'[j] = calls[j]
  BY Settled
<1>2. made \in Nat /\ RowsInv
  BY DEF ConsoleInv
<1>3. made' \in Nat /\ made <= made'
  BY SMTT(30), <1>2
<1>4. RowsMove /\ RowsInv'
  <2>1. \A j \in DOMAIN calls' : calls'[j].at \in Waiting => j \in DOMAIN calls /\ calls[j].at \in Waiting
    BY <1>1 DEF CallsMove
  <2> QED BY <1>2, <1>3, <2>1, RowsStand
<1>5. \A t \in DOMAIN tab : NoRace(t)'
  BY <1>1, <1>4, NoRaceStands DEF SeenStands
<1>6. (EditsCompose /\ StaleNeedsARace /\ OfferedIsAllowed /\ SecretStaysUp /\ CapYieldsOnlyToRaces)'
  BY PromisesStand DEF SeenStands
<1> QED BY <1>1, <1>4, <1>5, <1>6, RowsStep DEF SeenStands

\* The history after a call was applied.
SeenApplied(k) ==
  LET s == calls[k]
  IN  /\ IsSeen(seen') /\ seen'.early = seen.early /\ seen'.misled = seen.misled
      /\ seen'.denied = seen.denied /\ seen'.lost = seen.lost
      /\ seen'.changed = IF Whole(s) THEN seen.changed \cup {s.tab} ELSE seen.changed
      /\ seen'.stale = IF Stale(s) THEN seen.stale \cup {s.tab} ELSE seen.stale
      /\ seen'.raced = (seen.raced \/ (s.kind = "createInvite" /\ s.counted # OfKind("invite")))

\* What an applied call and its outcome have in common.
Applies(k) ==
  /\ calls[k].at \in Waiting /\ SeenApplied(k) /\ UNCHANGED <<tab, made>>
  /\ \E at \in {"ok", "error", "thrown"} : calls' = [calls EXCEPT ![k] = AdminOutcome(calls[k], at, TRUE)]

\* An applied call, field by field.
LEMMA AppliesIs ==
  ASSUME ConsoleInv, NEW k \in DOMAIN calls, Applies(k)
  PROVE  /\ CallsMove /\ CallInv(k)' /\ (\A j \in DOMAIN calls : calls'[j] = calls[j] \/ CallInv(j)')
         /\ calls'[k].tab = calls[k].tab /\ calls'[k].at \notin Waiting /\ calls'[k].applied
         /\ (\A j \in DOMAIN calls : j # k => calls'[j] = calls[j])
         /\ (\A i : Born(i) => Born(i)') /\ ~Born(k) /\ Born(k)'
<1>1. PICK at \in {"ok", "error", "thrown"} : calls' = [calls EXCEPT ![k] = AdminOutcome(calls[k], at, TRUE)]
  BY DEF Applies
<1>2. calls[k].at \in Waiting /\ tab' = tab /\ made' = made
  BY DEF Applies
<1>3. /\ CallsMove /\ CallInv(k)' /\ (\A j \in DOMAIN calls : calls'[j] = calls[j] \/ CallInv(j)')
      /\ calls'[k].tab = calls[k].tab /\ calls'[k].at \notin Waiting /\ calls'[k].applied = TRUE
      /\ \A j \in DOMAIN calls : j # k => calls'[j] = calls[j]
  BY <1>1, <1>2, Settled
<1>4. \A i : Born(i) => Born(i)'
  BY <1>2, <1>3 DEF Born, CallsMove
<1>5. k \in Nat /\ k <= made
  <2>1. made \in Nat /\ k \in 1..made
    BY DEF ConsoleInv
  <2> QED BY SMTT(30), <2>1
<1> QED BY <1>2, <1>3, <1>4, <1>5 DEF Born

\* Rows move: those that were there keep their kind and version.
LEMMA InsertRows ==
  ASSUME ConsoleInv, NEW k \in DOMAIN calls, Applies(k), calls[k].kind \in Creates,
         rows' = Over(rows, At(k, calls[k].row)), wanted' = Over(wanted, At(k, calls[k].row.f))
  PROVE  /\ RowsMove /\ RowsInv' /\ DOMAIN rows' = DOMAIN rows \cup {k} /\ k \notin DOMAIN rows
         /\ rows'[k] = calls[k].row /\ wanted'[k] = calls[k].row.f
         /\ \A i \in DOMAIN rows : rows'[i] = rows[i] /\ wanted'[i] = wanted[i]
         /\ Pending' \subseteq Pending \cup {k}
<1> DEFINE row == calls[k].row
<1>1. /\ (\A i : Born(i) => Born(i)') /\ ~Born(k) /\ Born(k)'
  BY AppliesIs
<1>2. RowsInv /\ RowFits(k, row)
  BY DEF ConsoleInv, CallInv, Applies
<1>3. k \notin DOMAIN rows /\ k \notin DOMAIN wanted
  BY <1>1, <1>2 DEF RowsInv
<1>4. /\ DOMAIN rows' = DOMAIN rows \cup {k} /\ rows' = [i \in DOMAIN rows' |-> rows'[i]]
      /\ rows'[k] = row /\ \A i \in DOMAIN rows : rows'[i] = rows[i]
  BY <1>3 DEF Over, At
<1>5. /\ DOMAIN wanted = DOMAIN rows /\ wanted' = [i \in DOMAIN rows \cup {k} |-> wanted'[i]]
      /\ wanted'[k] = row.f /\ \A i \in DOMAIN rows : wanted'[i] = wanted[i]
  <2>1. DOMAIN wanted = DOMAIN rows
    BY <1>2 DEF RowsInv
  <2> QED BY <1>3, <2>1 DEF Over, At
<1>6. Pending' \subseteq Pending \cup {k}
  BY <1>4 DEF Pending, OfKind
<1>7. \A i \in DOMAIN rows : rows[i].lv <= rows[i].lv
  <2>1. \A i \in DOMAIN rows : rows[i].lv \in Nat
    BY <1>2 DEF RowsInv, RowFits
  <2>2. \A n \in Nat : n <= n
    BY SMTT(30)
  <2> QED BY <2>1, <2>2
<1>8. RowsMove
  <2> SUFFICES ASSUME NEW i, Born(i)
               PROVE  /\ Born(i)' /\ i # k
                      /\ i \in DOMAIN rows' => i \in DOMAIN rows
    BY <1>4, <1>6, <1>7 DEF RowsMove
  <2> QED BY <1>1, <1>4
<1>9. IsFiniteSet(DOMAIN rows')
  <2>1. IsFiniteSet(DOMAIN rows)
    BY <1>2 DEF RowsInv
  <2>2. IsFiniteSet(DOMAIN rows \cup {k})
    BY <2>1, FS_AddElement
  <2> QED BY <1>4, <2>2
<1>10. ASSUME NEW i \in DOMAIN rows'
       PROVE  /\ Born(i)' /\ RowFits(i, rows'[i])
              /\ wanted'[i] = [x \in FieldsOf(rows'[i].kind) |-> wanted'[i][x]]
  <2>1. CASE i = k
    BY <1>1, <1>2, <1>4, <1>5, <2>1 DEF RowFits
  <2>2. CASE i \in DOMAIN rows
    <3>1. Born(i) /\ RowFits(i, rows[i]) /\ wanted[i] = [x \in FieldsOf(rows[i].kind) |-> wanted[i][x]]
      BY <1>2, <2>2 DEF RowsInv
    <3>2. rows'[i] = rows[i] /\ wanted'[i] = wanted[i]
      BY <1>4, <1>5, <2>2
    <3> QED BY <1>1, <3>1, <3>2
  <2> QED BY <1>4, <2>1, <2>2
<1>11. RowsInv'
  <2>1. \A i \in DOMAIN rows' : RowFits(i, rows[i])'
    BY <1>10 DEF RowFits
  <2> QED BY <1>4, <1>5, <1>9, <1>10, <2>1 DEF RowsInv
<1> QED BY <1>3, <1>4, <1>5, <1>6, <1>8, <1>11

\* No invite becomes pending.
LEMMA CapStands ==
  ASSUME ConsoleInv, Pending' \subseteq Pending, seen.raced => seen'.raced,
         \A i \in Pending' : rows'[i].f["email"] = rows[i].f["email"]
  PROVE  CapYieldsOnlyToRaces'
<1>1. RowsInv /\ CapYieldsOnlyToRaces
  BY DEF ConsoleInv
<1>2. IsFiniteSet(Pending)
  <2>1. IsFiniteSet(Pending \cap Pending)
    BY <1>1, PendingIs
  <2> QED BY <2>1
<1>3. IsFiniteSet(Pending') /\ Cardinality(Pending') <= Cardinality(Pending)
  BY <1>2, FS_Subset
<1>4. Cardinality(Pending') \in Nat /\ Cardinality(Pending) \in Nat /\ inviteMaxOutstandingPerTenant \in Nat
  BY <1>2, <1>3, FS_CardinalityType, ConsoleAssumption
<1>5. Cardinality(Pending') > inviteMaxOutstandingPerTenant => Cardinality(Pending) > inviteMaxOutstandingPerTenant
  BY SMTT(30), <1>3, <1>4
<1>6. \A i, j \in Pending' : rows'[i].f["email"] = rows'[j].f["email"] => i = j
  BY <1>1 DEF CapYieldsOnlyToRaces
<1> QED BY <1>1, <1>5, <1>6 DEF CapYieldsOnlyToRaces

\* An invite stored after the count its call was checked against, or with no other in
\* between.
NewAddress(s) == \A i \in Pending : rows[i].f["email"] # s.row.f["email"]

\* An invite that was counted and then stored (invite-service.ts:66-73).
LEMMA CapAfterInvite ==
  ASSUME ConsoleInv, NEW k \in DOMAIN calls, Applies(k), calls[k].kind = "createInvite", calls[k].at = "counted",
         k \notin Pending, Pending' \subseteq Pending \cup {k}, rows'[k] = calls[k].row,
         \A i \in Pending : rows'[i] = rows[i], NewAddress(calls[k])
  PROVE  CapYieldsOnlyToRaces'
<1>1. PICK s : s = calls[k]
  OBVIOUS
<1>2. RowsInv /\ CapYieldsOnlyToRaces /\ Cardinality(Pending \cap s.counted) < inviteMaxOutstandingPerTenant
  BY <1>1 DEF ConsoleInv, CallInv
<1>3. \A i \in Pending : rows[i].f["email"] # s.row.f["email"]
  BY <1>1 DEF NewAddress
<1>4. \A i, j \in Pending' : rows'[i].f["email"] = rows'[j].f["email"] => i = j
  <2>1. \A i \in Pending' : i = k \/ (i \in Pending /\ rows'[i] = rows[i])
    OBVIOUS
  <2>2. rows'[k].f["email"] = s.row.f["email"]
    BY <1>1
  <2>3. \A i, j \in Pending : rows[i].f["email"] = rows[j].f["email"] => i = j
    BY <1>2 DEF CapYieldsOnlyToRaces
  <2> QED BY ONLY ZenonT(100), <1>3, <2>1, <2>2, <2>3
<1>5. ASSUME ~seen'.raced
      PROVE  ~(Cardinality(Pending') > inviteMaxOutstandingPerTenant)
  <2>1. s.counted = OfKind("invite")
    BY <1>1, <1>5 DEF Applies, SeenApplied
  <2>2. Pending \cap s.counted = Pending
    BY ONLY ZenonT(30), <2>1 DEF Pending
  <2>3. IsFiniteSet(Pending) /\ Cardinality(Pending) \in Nat /\ Cardinality(Pending) < inviteMaxOutstandingPerTenant
    <3>1. IsFiniteSet(Pending \cap s.counted) /\ Cardinality(Pending \cap s.counted) \in Nat
      BY <1>2, PendingIs
    <3> QED BY ONLY ZenonT(30), <1>2, <2>2, <3>1
  <2>4. IsFiniteSet(Pending \cup {k}) /\ Cardinality(Pending \cup {k}) = Cardinality(Pending) + 1
    <3>1. k \notin Pending
      OBVIOUS
    <3> QED BY ONLY ZenonT(30), <2>3, <3>1, FS_AddElement
  <2>5. IsFiniteSet(Pending') /\ Cardinality(Pending') <= Cardinality(Pending \cup {k})
    BY <2>4, FS_Subset
  <2>6. Cardinality(Pending') \in Nat /\ inviteMaxOutstandingPerTenant \in Nat
    BY <2>5, FS_CardinalityType, ConsoleAssumption
  <2> QED BY SMTT(30), <2>3, <2>4, <2>5, <2>6
<1> QED BY <1>4, <1>5 DEF CapYieldsOnlyToRaces

\* A new row is stored.
LEMMA InsertStep ==
  ASSUME ConsoleInv, NEW k \in DOMAIN calls, Applies(k), calls[k].kind \in Creates,
         rows' = Over(rows, At(k, calls[k].row)), wanted' = Over(wanted, At(k, calls[k].row.f)),
         calls[k].kind = "createInvite" => calls[k].at = "counted" /\ NewAddress(calls[k])
  PROVE  ConsoleInv'
<1> DEFINE s == calls[k]
<1>1. /\ RowsMove /\ RowsInv' /\ DOMAIN rows' = DOMAIN rows \cup {k} /\ k \notin DOMAIN rows
      /\ rows'[k] = calls[k].row /\ wanted'[k] = calls[k].row.f
      /\ (\A i \in DOMAIN rows : rows'[i] = rows[i] /\ wanted'[i] = wanted[i])
      /\ Pending' \subseteq Pending \cup {k}
  BY InsertRows
<1>2. CallsMove /\ (\A j \in DOMAIN calls : calls'[j] = calls[j] \/ CallInv(j)') /\ ~Born(k)
  BY AppliesIs
<1>3. s.op = "insert" /\ s.row.kind = KindOf(s.kind)
  BY DEF ConsoleInv, CallInv, Applies
<1>4. /\ IsSeen(seen') /\ seen'.early = seen.early /\ seen'.misled = seen.misled /\ seen'.denied = seen.denied
      /\ seen'.lost = seen.lost /\ seen'.changed = seen.changed /\ seen'.stale = seen.stale
      /\ (seen.raced => seen'.raced) /\ tab' = tab /\ made' = made
  BY <1>3 DEF Applies, SeenApplied, Whole, Stale
<1>5. EditsCompose /\ StaleNeedsARace /\ OfferedIsAllowed /\ SecretStaysUp
  BY DEF ConsoleInv
<1>6. \A t \in DOMAIN tab : NoRace(t)'
  <2>1. \A i \in DOMAIN rows' : Born(i) => rows'[i].lv = rows[i].lv
    BY <1>1, <1>2
  <2> QED BY <1>1, <1>2, <1>4, <2>1, NoRaceStands
<1>7. EditsCompose'
  <2>1. ASSUME NEW i \in DOMAIN rows', NEW x \in DOMAIN rows'[i].f
        PROVE  rows'[i].f[x] = wanted'[i][x] \/ (Together(rows'[i].kind, x) /\ seen'.stale # {})
    <3>1. CASE i = k
      BY <1>1, <3>1
    <3>2. CASE i \in DOMAIN rows
      <4>1. rows'[i] = rows[i] /\ wanted'[i] = wanted[i]
        BY <1>1, <3>2
      <4>2. rows[i].f[x] = wanted[i][x] \/ (Together(rows[i].kind, x) /\ seen.stale # {})
        BY <1>5, <2>1, <3>2, <4>1 DEF EditsCompose
      <4> QED BY ONLY ZenonT(30), <1>4, <4>1, <4>2
    <3> QED BY <1>1, <2>1, <3>1, <3>2
  <2> QED BY <2>1 DEF EditsCompose
<1>8. StaleNeedsARace' /\ OfferedIsAllowed' /\ SecretStaysUp'
  BY <1>4, <1>5 DEF StaleNeedsARace, OfferedIsAllowed, SecretStaysUp
<1>9. Pending \subseteq DOMAIN rows
  BY DEF Pending, OfKind
<1>10. CapYieldsOnlyToRaces'
  <2>1. CASE s.kind = "createInvite"
    <3>1. k \notin Pending /\ \A i \in Pending : rows'[i] = rows[i]
      BY <1>1, <1>9
    <3> QED BY <1>1, <2>1, <3>1, CapAfterInvite
  <2>2. CASE s.kind # "createInvite"
    <3>1. s.row.kind # "invite"
      BY <1>3, <2>2 DEF KindOf, Creates, DashboardKinds
    <3>2. Pending' \subseteq Pending
      BY <1>1, <3>1 DEF Pending, OfKind
    <3> QED BY <1>1, <1>4, <1>9, <3>2, CapStands
  <2> QED BY <2>1, <2>2
<1> QED BY <1>1, <1>2, <1>4, <1>6, <1>7, <1>8, <1>10, RowsStep

\* A row is deleted.
LEMMA DeleteStep ==
  ASSUME ConsoleInv, NEW k \in DOMAIN calls, Applies(k), calls[k].kind \in Deletes,
         rows' = Restrict(rows, DOMAIN rows \ {calls[k].id}), wanted' = Restrict(wanted, DOMAIN wanted \ {calls[k].id})
  PROVE  ConsoleInv'
<1>1. PICK s : s = calls[k]
  OBVIOUS
<1>2. s.op = "delete" /\ About(s.kind, s.id) /\ RowsInv
  BY <1>1 DEF ConsoleInv, CallInv, Applies
<1>3. /\ CallsMove /\ (\A j \in DOMAIN calls : calls'[j] = calls[j] \/ CallInv(j)')
      /\ (\A i : Born(i) => Born(i)')
  BY AppliesIs
<1>4. /\ IsSeen(seen') /\ seen'.early = seen.early /\ seen'.misled = seen.misled /\ seen'.denied = seen.denied
      /\ seen'.lost = seen.lost /\ seen'.changed = seen.changed /\ seen'.stale = seen.stale
      /\ (seen.raced => seen'.raced) /\ tab' = tab /\ made' = made
  BY <1>1, <1>2 DEF Applies, SeenApplied, Whole, Stale
<1>5. /\ DOMAIN rows' = DOMAIN rows \ {s.id} /\ rows' = [i \in DOMAIN rows' |-> rows'[i]]
      /\ \A i \in DOMAIN rows' : rows'[i] = rows[i]
  BY <1>1 DEF Restrict
<1>6. wanted' = [i \in DOMAIN rows' |-> wanted'[i]] /\ \A i \in DOMAIN rows' : wanted'[i] = wanted[i]
  <2>1. DOMAIN wanted = DOMAIN rows
    BY <1>2 DEF RowsInv
  <2> QED BY <1>1, <1>5, <2>1 DEF Restrict
<1>7. s.id \in DOMAIN rows => rows[s.id].kind \notin {"apikey", "invite", "policy"}
  BY <1>1, <1>2 DEF About, KindOf, Deletes, DashboardKinds
<1>8. Pending' \subseteq Pending
  BY <1>5 DEF Pending, OfKind
<1>9. \A i \in DOMAIN rows : rows[i].lv <= rows[i].lv
  <2>1. \A i \in DOMAIN rows : rows[i].lv \in Nat
    BY <1>2 DEF RowsInv, RowFits
  <2>2. \A n \in Nat : n <= n
    BY SMTT(30)
  <2> QED BY <2>1, <2>2
<1>10. RowsMove
  BY ONLY ZenonT(30), <1>3, <1>5, <1>7, <1>8, <1>9 DEF RowsMove
<1>11. RowsInv'
  <2>1. IsFiniteSet(DOMAIN rows')
    <3>1. IsFiniteSet(DOMAIN rows) /\ DOMAIN rows' \in SUBSET DOMAIN rows
      BY <1>2, <1>5 DEF RowsInv
    <3> QED BY ONLY ZenonT(30), <3>1, FS_Subset
  <2>2. ASSUME NEW i \in DOMAIN rows'
        PROVE  /\ Born(i)' /\ RowFits(i, rows[i])'
               /\ wanted'[i] = [x \in FieldsOf(rows'[i].kind) |-> wanted'[i][x]]
    <3>1. Born(i) /\ RowFits(i, rows[i]) /\ wanted[i] = [x \in FieldsOf(rows[i].kind) |-> wanted[i][x]]
      BY <1>2, <1>5 DEF RowsInv
    <3>2. rows'[i] = rows[i] /\ wanted'[i] = wanted[i]
      BY <1>5, <1>6
    <3> QED BY ONLY ZenonT(30), <1>3, <3>1, <3>2 DEF RowFits
  <2> QED BY ONLY ZenonT(30), <1>5, <1>6, <2>1, <2>2 DEF RowsInv
<1>12. EditsCompose /\ StaleNeedsARace /\ OfferedIsAllowed /\ SecretStaysUp
  BY DEF ConsoleInv
<1>13. \A t \in DOMAIN tab : NoRace(t)'
  BY <1>3, <1>4, <1>5, <1>10, NoRaceStands
<1>14. EditsCompose'
  <2>1. ASSUME NEW i \in DOMAIN rows', NEW x \in DOMAIN rows'[i].f
        PROVE  rows'[i].f[x] = wanted'[i][x] \/ (Together(rows'[i].kind, x) /\ seen'.stale # {})
    <3>1. i \in DOMAIN rows /\ rows'[i] = rows[i] /\ wanted'[i] = wanted[i]
      BY <1>5, <1>6
    <3>2. rows[i].f[x] = wanted[i][x] \/ (Together(rows[i].kind, x) /\ seen.stale # {})
      BY <1>12, <2>1, <3>1 DEF EditsCompose
    <3> QED BY ONLY ZenonT(30), <1>4, <3>1, <3>2
  <2> QED BY <2>1 DEF EditsCompose
<1>15. StaleNeedsARace' /\ OfferedIsAllowed' /\ SecretStaysUp'
  BY <1>4, <1>12 DEF StaleNeedsARace, OfferedIsAllowed, SecretStaysUp
<1>16. CapYieldsOnlyToRaces'
  <2>1. \A i \in Pending' : rows'[i].f["email"] = rows[i].f["email"]
    BY <1>5 DEF Pending, OfKind
  <2> QED BY <1>4, <1>8, <2>1, CapStands
<1> QED BY <1>3, <1>4, <1>10, <1>11, <1>13, <1>14, <1>15, <1>16, RowsStep

\* A row with some of its fields written.
Writes(id, patch, asked, lv) ==
  LET F == FieldsOf(rows[id].kind)
  IN  /\ DOMAIN rows' = DOMAIN rows /\ rows' = [i \in DOMAIN rows' |-> rows'[i]]
      /\ wanted' = [i \in DOMAIN rows' |-> wanted'[i]]
      /\ \A i \in DOMAIN rows : i # id => rows'[i] = rows[i] /\ wanted'[i] = wanted[i]
      /\ DOMAIN rows'[id] = {"kind", "f", "lv"} /\ rows'[id].kind = rows[id].kind /\ rows'[id].lv = lv
      /\ rows'[id].f = [x \in F |-> rows'[id].f[x]] /\ wanted'[id] = [x \in F |-> wanted'[id][x]]
      /\ \A x \in F : /\ rows'[id].f[x] = IF x \in DOMAIN patch THEN patch[x] ELSE rows[id].f[x]
                      /\ wanted'[id][x] = IF x \in DOMAIN asked THEN asked[x] ELSE wanted[id][x]

Statement(id, patch, asked, lv) ==
  /\ rows' = [rows EXCEPT ![id].f = Over(patch, @), ![id].lv = lv]
  /\ wanted' = [wanted EXCEPT ![id] = Over(asked, @)]

\* What an UPDATE leaves in the row and in what was asked for.
LEMMA WritesIs ==
  ASSUME RowsInv, NEW id \in DOMAIN rows, NEW patch, DOMAIN patch \subseteq FieldsOf(rows[id].kind),
         NEW asked, DOMAIN asked \subseteq FieldsOf(rows[id].kind), NEW lv,
         Statement(id, patch, asked, lv)
  PROVE  Writes(id, patch, asked, lv)
<1>1. PICK r, w, F : r = rows[id] /\ w = wanted[id] /\ F = FieldsOf(rows[id].kind)
  OBVIOUS
<1>2. DOMAIN r = {"kind", "f", "lv"} /\ r.f = [x \in F |-> r.f[x]] /\ w = [x \in F |-> w[x]] /\ DOMAIN wanted = DOMAIN rows
  BY <1>1 DEF RowsInv, RowFits
<1>3. DOMAIN r.f = F /\ DOMAIN w = F
  BY <1>2
<1>4. /\ DOMAIN rows' = DOMAIN rows /\ rows' = [i \in DOMAIN rows' |-> rows'[i]]
      /\ rows'[id] = [r EXCEPT !.f = Over(patch, r.f), !.lv = lv]
      /\ \A i \in DOMAIN rows : i # id => rows'[i] = rows[i]
  BY <1>1 DEF Statement
<1>5. /\ wanted' = [i \in DOMAIN rows |-> wanted'[i]] /\ wanted'[id] = Over(asked, w)
      /\ \A i \in DOMAIN rows : i # id => wanted'[i] = wanted[i]
  BY <1>1, <1>2 DEF Statement
<1>6. DOMAIN rows'[id] = {"kind", "f", "lv"} /\ rows'[id].kind = r.kind /\ rows'[id].f = Over(patch, r.f) /\ rows'[id].lv = lv
  BY ONLY ZenonT(30), <1>2, <1>4
<1>7. DOMAIN patch \subseteq F /\ DOMAIN asked \subseteq F
  BY <1>1
<1>8. /\ Over(patch, r.f) = [x \in F |-> Over(patch, r.f)[x]]
      /\ \A x \in F : Over(patch, r.f)[x] = IF x \in DOMAIN patch THEN patch[x] ELSE r.f[x]
  <2>1. DOMAIN patch \cup DOMAIN r.f = F
    BY ONLY ZenonT(30), <1>3, <1>7
  <2> QED BY ONLY ZenonT(30), <2>1 DEF Over
<1>9. /\ Over(asked, w) = [x \in F |-> Over(asked, w)[x]]
      /\ \A x \in F : Over(asked, w)[x] = IF x \in DOMAIN asked THEN asked[x] ELSE w[x]
  <2>1. DOMAIN asked \cup DOMAIN w = F
    BY ONLY ZenonT(30), <1>3, <1>7
  <2> QED BY ONLY ZenonT(30), <2>1 DEF Over
<1> QED BY ONLY ZenonT(100), <1>1, <1>4, <1>5, <1>6, <1>8, <1>9 DEF Writes

\* An UPDATE raises the version if it writes part of a whole form.
LEMMA WriteMoves ==
  ASSUME RowsInv, NEW id \in DOMAIN rows, NEW patch, NEW asked, NEW lv \in Nat, Writes(id, patch, asked, lv),
         \A i : Born(i) => Born(i)', rows[id].lv <= lv,
         lv = rows[id].lv => \A x \in DOMAIN patch : ~Together(rows[id].kind, x),
         rows[id].kind = "rule" => \A x \in RuleForm : x \in DOMAIN patch => patch[x] # Blank,
         rows[id].kind = "invite" => DOMAIN patch = {"status"} /\ patch["status"] # "pending"
  PROVE  /\ RowsMove /\ RowsInv' /\ Pending' \subseteq Pending
         /\ \A i \in Pending' : rows'[i].f["email"] = rows[i].f["email"]
<1>1. PICK r, F : r = rows[id] /\ F = FieldsOf(r.kind)
  OBVIOUS
<1>2. /\ DOMAIN rows' = DOMAIN rows /\ rows' = [i \in DOMAIN rows' |-> rows'[i]]
      /\ wanted' = [i \in DOMAIN rows' |-> wanted'[i]]
      /\ (\A i \in DOMAIN rows : i # id => rows'[i] = rows[i] /\ wanted'[i] = wanted[i])
      /\ DOMAIN rows'[id] = {"kind", "f", "lv"} /\ rows'[id].kind = rows[id].kind /\ rows'[id].lv = lv
      /\ rows'[id].f = [x \in FieldsOf(rows[id].kind) |-> rows'[id].f[x]]
      /\ wanted'[id] = [x \in FieldsOf(rows[id].kind) |-> wanted'[id][x]]
      /\ (\A x \in FieldsOf(rows[id].kind) :
            rows'[id].f[x] = IF x \in DOMAIN patch THEN patch[x] ELSE rows[id].f[x])
  BY DEF Writes
<1>3. RowFits(id, r) /\ r.kind \in {"dashboard", "user", "apikey", "invite", "policy", "rule"}
  BY <1>1 DEF RowsInv, RowFits
<1>4. RowFits(id, rows[id])'
  <2>1. r.kind = "rule" => \A x \in RuleForm : rows'[id].f[x] # Blank
    <3> SUFFICES ASSUME r.kind = "rule", NEW x \in RuleForm PROVE rows'[id].f[x] # Blank
      OBVIOUS
    <3>1. x \in FieldsOf(rows[id].kind)
      BY <1>1 DEF FieldsOf, RuleForm
    <3>2. r.f[x] # Blank
      BY <1>3 DEF RowFits
    <3>3. rows'[id].f[x] = IF x \in DOMAIN patch THEN patch[x] ELSE r.f[x]
      BY <1>1, <1>2, <3>1
    <3>4. x \in DOMAIN patch => patch[x] # Blank
      BY <1>1
    <3> QED BY ONLY ZenonT(30), <3>2, <3>3, <3>4
  <2>2. (id = Dash => r.kind = "dashboard") /\ (id = Policy <=> r.kind = "policy")
    BY <1>3 DEF RowFits
  <2> QED BY ONLY ZenonT(30), <1>1, <1>2, <1>3, <2>1, <2>2, lv \in Nat DEF RowFits
<1>5. RowsInv'
  <2>1. ASSUME NEW i \in DOMAIN rows'
        PROVE  /\ Born(i)' /\ RowFits(i, rows[i])'
               /\ wanted'[i] = [x \in FieldsOf(rows'[i].kind) |-> wanted'[i][x]]
    <3>1. Born(i)' /\ RowFits(i, rows[i]) /\ wanted[i] = [x \in FieldsOf(rows[i].kind) |-> wanted[i][x]]
      BY <1>2 DEF RowsInv
    <3>2. CASE i = id
      BY ONLY ZenonT(30), <1>2, <1>4, <3>1, <3>2
    <3>3. CASE i # id
      <4>1. rows'[i] = rows[i] /\ wanted'[i] = wanted[i]
        BY <1>2, <3>3
      <4> QED BY ONLY ZenonT(30), <3>1, <4>1 DEF RowFits
    <3> QED BY <3>2, <3>3
  <2>2. IsFiniteSet(DOMAIN rows')
    BY <1>2 DEF RowsInv
  <2> QED BY ONLY ZenonT(30), <1>2, <2>1, <2>2 DEF RowsInv
<1>6. ASSUME NEW i \in Pending'
      PROVE  i \in Pending /\ rows'[i].f["email"] = rows[i].f["email"]
  <2>1. i \in DOMAIN rows /\ rows'[i].kind = "invite" /\ rows'[i].f["status"] = "pending"
    BY <1>2 DEF Pending, OfKind
  <2>2. i # id
    <3> SUFFICES ASSUME i = id PROVE FALSE
      OBVIOUS
    <3>1. rows[id].kind = "invite"
      BY ONLY ZenonT(30), <1>2, <2>1, i = id
    <3>2. DOMAIN patch = {"status"} /\ patch["status"] # "pending" /\ "status" \in FieldsOf(rows[id].kind)
      BY <3>1 DEF FieldsOf
    <3>3. rows'[id].f["status"] = patch["status"]
      BY ONLY ZenonT(30), <1>2, <3>2
    <3> QED BY <2>1, <3>2, <3>3
  <2>3. rows'[i] = rows[i]
    BY <1>2, <2>1, <2>2
  <2> QED BY ONLY ZenonT(30), <2>1, <2>3 DEF Pending, OfKind
<1>7. \A i \in DOMAIN rows : rows[i].lv <= rows[i].lv
  <2>1. \A i \in DOMAIN rows : rows[i].lv \in Nat
    BY DEF RowsInv, RowFits
  <2>2. \A n \in Nat : n <= n
    BY SMTT(30)
  <2> QED BY ONLY ZenonT(30), <2>1, <2>2
<1>8. RowsMove
  <2> SUFFICES ASSUME NEW i \in DOMAIN rows
               PROVE  /\ rows'[i].kind = rows[i].kind /\ rows[i].lv <= rows'[i].lv
                      /\ rows'[i].lv = rows[i].lv =>
                           \A x \in FieldsOf(rows[i].kind) : Together(rows[i].kind, x) => rows'[i].f[x] = rows[i].f[x]
    BY <1>2, <1>6 DEF RowsMove
  <2>1. CASE i # id
    <3>1. rows'[i] = rows[i]
      BY <1>2, <2>1
    <3> QED BY ONLY ZenonT(30), <1>7, <3>1, i \in DOMAIN rows
  <2>2. CASE i = id
    <3>1. rows[id].lv <= lv /\ (lv = rows[id].lv => \A x \in DOMAIN patch : ~Together(rows[id].kind, x))
      OBVIOUS
    <3> QED BY ONLY ZenonT(30), <1>2, <2>2, <3>1
  <2> QED BY <2>1, <2>2
<1> QED BY <1>5, <1>6, <1>8

\* After a whole form was applied, its tab has the answer and the reload to come, and
\* for every other tab there was a race.
LEMMA NoRaceWhole ==
  ASSUME ConsoleInv, NEW k \in DOMAIN calls, Applies(k), Whole(calls[k]), NEW t \in DOMAIN tab
  PROVE  NoRace(t)'
<1>1. PICK s : s = calls[k]
  OBVIOUS
<1>2. /\ CallsMove /\ calls'[k].tab = s.tab /\ calls'[k].at \notin Waiting /\ calls'[k].applied
      /\ (\A j \in DOMAIN calls : j # k => calls'[j] = calls[j])
  BY <1>1, AppliesIs
<1>3. seen'.changed = seen.changed \cup {s.tab} /\ seen'.early = seen.early /\ tab' = tab
  BY <1>1 DEF Applies, SeenApplied
<1>4. Unanswered(t)' = Unanswered(t)
  BY <1>2, UnansweredStands
<1>5. CASE t # s.tab
  <2>1. Exempt(t)'
    BY <1>3, <1>5 DEF Exempt
  <2> QED BY <2>1 DEF NoRace
<1>6. CASE t = s.tab /\ t \notin seen.early
  <2>1. OneAtATime(t) /\ k \in Unanswered(t)
    BY <1>1, <1>6, TabOf DEF Unanswered
  <2>2. (\A j \in Unanswered(t) : j = k) /\ tab[t].reload = "none"
    BY ONLY ZenonT(30), <1>6, <2>1 DEF OneAtATime
  <2>3. t \in seen'.changed /\ k \in Unanswered(t)'
    BY ONLY ZenonT(30), <1>3, <1>4, <1>6, <2>1
  <2>4. \A j \in Unanswered(t)' : calls'[j].at \notin Waiting
    BY ONLY ZenonT(30), <1>2, <1>4, <2>2
  <2> QED BY ONLY ZenonT(30), <1>2, <1>3, <2>2, <2>3, <2>4 DEF NoRace
<1>7. CASE t \in seen.early
  <2>1. Exempt(t)'
    BY <1>3, <1>7 DEF Exempt
  <2> QED BY <2>1 DEF NoRace
<1> QED BY <1>5, <1>6, <1>7

\* The version a call leaves.
NextVersion(s) == IF Whole(s) THEN rows[s.id].lv + 1 ELSE rows[s.id].lv

\* A row is updated.
LEMMA UpdateStep ==
  ASSUME ConsoleInv, NEW k \in DOMAIN calls, Applies(k), calls[k].kind \in Updates, calls[k].id \in DOMAIN rows,
         NEW lv, lv = NextVersion(calls[k]), Writes(calls[k].id, calls[k].patch, calls[k].asked, lv)
  PROVE  ConsoleInv'
<1>1. PICK s, id, r : s = calls[k] /\ id = s.id /\ r = rows[id]
  OBVIOUS
<1>2. PatchFits(s) /\ RowsInv
  BY <1>1 DEF ConsoleInv, CallInv, Applies
<1>3. /\ CallsMove /\ (\A j \in DOMAIN calls : calls'[j] = calls[j] \/ CallInv(j)')
      /\ (\A i : Born(i) => Born(i)')
  BY AppliesIs
<1>4. /\ IsSeen(seen') /\ seen'.early = seen.early /\ seen'.misled = seen.misled /\ seen'.denied = seen.denied
      /\ seen'.lost = seen.lost /\ seen'.changed = (IF Whole(s) THEN seen.changed \cup {s.tab} ELSE seen.changed)
      /\ seen'.stale = (IF Stale(s) THEN seen.stale \cup {s.tab} ELSE seen.stale)
      /\ (seen.raced => seen'.raced) /\ tab' = tab /\ made' = made /\ calls[k].at \in Waiting
  BY <1>1 DEF Applies, SeenApplied
<1>5. id \in DOMAIN rows /\ r.kind = KindOf(s.kind) /\ r.lv \in Nat /\ DOMAIN r.f = FieldsOf(r.kind)
  BY <1>1, <1>2 DEF PatchFits, About, RowsInv, RowFits
<1>6. s.op = "update" /\ (Whole(s) <=> \E x \in DOMAIN s.patch : Together(r.kind, x)) /\ (Stale(s) <=> Whole(s) /\ s.base # r.lv)
  BY <1>1, <1>2 DEF PatchFits, Whole, Stale
<1>7. lv \in Nat /\ r.lv <= lv /\ (lv = r.lv <=> ~Whole(s))
  <2>1. lv = IF Whole(s) THEN r.lv + 1 ELSE r.lv
    BY <1>1 DEF NextVersion
  <2> QED BY ONLY SMTT(30), <1>5, <2>1
<1>8. Writes(id, s.patch, s.asked, lv)
  BY <1>1
<1>9. /\ RowsMove /\ RowsInv' /\ Pending' \subseteq Pending
      /\ \A i \in Pending' : rows'[i].f["email"] = rows[i].f["email"]
  <2>1. rows[id].lv <= lv /\ (lv = rows[id].lv => \A x \in DOMAIN s.patch : ~Together(rows[id].kind, x))
    BY <1>1, <1>6, <1>7
  <2>2. rows[id].kind = "rule" => \A x \in RuleForm : x \in DOMAIN s.patch => s.patch[x] # Blank
    <3>1. KindOf(s.kind) = "rule" => s.kind = "editRule"
      BY <1>1 DEF KindOf, Updates, DashboardKinds
    <3> QED BY <1>1, <1>2, <1>5, <3>1 DEF PatchFits
  <2>3. rows[id].kind = "invite" => DOMAIN s.patch = {"status"} /\ s.patch["status"] # "pending"
    <3>1. KindOf(s.kind) = "invite" => s.kind = "revokeInvite"
      BY <1>1 DEF KindOf, Updates, DashboardKinds
    <3> QED BY <1>1, <1>2, <1>5, <3>1 DEF PatchFits
  <2>4. RowsInv /\ id \in DOMAIN rows /\ lv \in Nat /\ \A i : Born(i) => Born(i)'
    BY <1>2, <1>3, <1>5, <1>7
  <2> QED BY ONLY ZenonT(30), <1>8, <2>1, <2>2, <2>3, <2>4, WriteMoves
<1>10. EditsCompose /\ StaleNeedsARace /\ OfferedIsAllowed /\ SecretStaysUp
  BY DEF ConsoleInv
<1>11. ASSUME NEW t \in DOMAIN tab
       PROVE  NoRace(t)'
  <2>1. CASE Whole(s)
    BY <1>1, <2>1, NoRaceWhole
  <2>2. CASE ~Whole(s)
    <3>1. \A i \in DOMAIN rows' : Born(i) => rows'[i].lv = rows[i].lv
      BY ONLY ZenonT(100), <1>1, <1>7, <1>8, <2>2 DEF Writes
    <3> QED BY <1>3, <1>4, <1>9, <2>2, <3>1, NoRaceStands
  <2> QED BY <2>1, <2>2
<1>12. StaleNeedsARace'
  <2>1. ASSUME Stale(s)
        PROVE  s.tab \in seen.early \cup seen.misled \/ seen.changed \ {s.tab} # {}
    <3> SUFFICES ASSUME ~Exempt(s.tab) PROVE FALSE
      BY DEF Exempt
    <3>1. s.tab \in DOMAIN tab
      BY <1>1 DEF ConsoleInv, CallInv
    <3>2. NoRace(s.tab) /\ k \in Unanswered(s.tab)
      BY <1>1, <3>1 DEF ConsoleInv, Unanswered
    <3>3. PICK x \in DOMAIN s.patch : Together(rows[id].kind, x)
      BY <1>1, <1>6, <2>1
    <3>4. s.base = rows[id].lv
      BY <1>1, <1>4, <1>5, <3>2, <3>3 DEF NoRace
    <3> QED BY <1>1, <1>6, <2>1, <3>4
  <2>2. seen.changed \subseteq seen'.changed /\ \A t \in seen'.stale : t \in seen.stale \/ (t = s.tab /\ Stale(s))
    BY ONLY ZenonT(30), <1>4
  <2> QED BY ONLY ZenonT(30), <1>4, <1>10, <2>1, <2>2 DEF StaleNeedsARace
<1>13. EditsCompose'
  <2>1. seen.stale \subseteq seen'.stale /\ (Stale(s) => seen'.stale # {})
    BY ONLY ZenonT(30), <1>4
  <2>2. ASSUME NEW i \in DOMAIN rows, i # id, NEW x \in DOMAIN rows'[i].f
        PROVE  rows'[i].f[x] = wanted'[i][x] \/ (Together(rows'[i].kind, x) /\ seen'.stale # {})
    <3>1. rows'[i] = rows[i] /\ wanted'[i] = wanted[i]
      BY ONLY ZenonT(30), <1>8, <2>2 DEF Writes
    <3>2. rows[i].f[x] = wanted[i][x] \/ (Together(rows[i].kind, x) /\ seen.stale # {})
      BY ONLY ZenonT(30), <1>10, <2>2, <3>1 DEF EditsCompose
    <3> QED BY ONLY ZenonT(30), <2>1, <3>1, <3>2
  <2>3. ASSUME NEW x \in FieldsOf(r.kind)
        PROVE  rows'[id].f[x] = wanted'[id][x] \/ (Together(r.kind, x) /\ seen'.stale # {})
    <3>1. /\ rows'[id].f[x] = IF x \in DOMAIN s.patch THEN s.patch[x] ELSE r.f[x]
          /\ wanted'[id][x] = IF x \in DOMAIN s.asked THEN s.asked[x] ELSE wanted[id][x]
      BY ONLY ZenonT(30), <1>1, <1>8, <2>3 DEF Writes
    <3>2. r.f[x] = wanted[id][x] \/ (Together(r.kind, x) /\ seen.stale # {})
      BY ONLY ZenonT(30), <1>1, <1>5, <1>10, <2>3 DEF EditsCompose
    <3>3. CASE x \in DOMAIN s.asked
      <4>1. x \in DOMAIN s.patch /\ s.asked[x] = s.patch[x]
        BY <1>2, <3>3 DEF PatchFits
      <4> QED BY ONLY ZenonT(30), <3>1, <3>3, <4>1
    <3>4. CASE x \in DOMAIN s.patch \ DOMAIN s.asked
      <4>1. Together(r.kind, x) /\ Whole(s) /\ (s.base = r.lv => s.patch[x] = r.f[x])
        BY ONLY ZenonT(100), <1>1, <1>2, <1>5, <1>6, <3>4 DEF PatchFits
      <4> QED BY ONLY ZenonT(30), <1>6, <2>1, <3>1, <3>2, <3>4, <4>1
    <3>5. CASE x \notin DOMAIN s.patch
      <4>1. x \notin DOMAIN s.asked
        BY ONLY ZenonT(30), <1>2, <3>5 DEF PatchFits
      <4> QED BY ONLY ZenonT(30), <2>1, <3>1, <3>2, <3>5, <4>1
    <3> QED BY <3>3, <3>4, <3>5
  <2>4. DOMAIN rows' = DOMAIN rows /\ rows'[id].kind = r.kind /\ DOMAIN rows'[id].f = FieldsOf(r.kind)
    BY ONLY ZenonT(30), <1>1, <1>8 DEF Writes
  <2> QED BY ONLY ZenonT(30), <1>5, <2>2, <2>3, <2>4 DEF EditsCompose
<1>14. OfferedIsAllowed' /\ SecretStaysUp'
  BY ONLY ZenonT(30), <1>4, <1>10 DEF OfferedIsAllowed, SecretStaysUp
<1>15. CapYieldsOnlyToRaces'
  BY <1>4, <1>9, CapStands
<1> QED BY <1>3, <1>4, <1>9, <1>11, <1>12, <1>13, <1>14, <1>15, RowsStep

\* A call is applied, of whatever kind.
LEMMA AppliedStep ==
  ASSUME ConsoleInv, NEW k \in DOMAIN calls, Applies(k), rows' = Applied(k), wanted' = Asked(k),
         calls[k].kind = "createInvite" => calls[k].at = "counted" /\ NewAddress(calls[k]),
         calls[k].kind \in Updates => calls[k].id \in DOMAIN rows
  PROVE  ConsoleInv'
<1>1. PICK s : s = calls[k]
  OBVIOUS
<1>2. CallInv(k) /\ s.at \in Waiting /\ RowsInv
  BY <1>1 DEF ConsoleInv, Applies
<1>3. CASE s.kind \in Creates
  <2>1. s.op = "insert"
    BY <1>1, <1>2, <1>3 DEF CallInv
  <2>2. rows' = Over(rows, At(k, calls[k].row)) /\ wanted' = Over(wanted, At(k, calls[k].row.f))
    BY <1>1, <2>1 DEF Applied, Asked
  <2> QED BY <1>1, <1>3, <2>2, InsertStep
<1>4. CASE s.kind \in Deletes
  <2>1. s.op = "delete"
    BY <1>1, <1>2, <1>4 DEF CallInv
  <2>2. /\ rows' = Restrict(rows, DOMAIN rows \ {calls[k].id})
        /\ wanted' = Restrict(wanted, DOMAIN wanted \ {calls[k].id})
    BY <1>1, <2>1 DEF Applied, Asked
  <2> QED BY <1>1, <1>4, <2>2, DeleteStep
<1>5. CASE s.kind \in Updates
  <2>1. PatchFits(s) /\ s.op = "update" /\ s.id \in DOMAIN rows
    <3>1. PatchFits(s)
      BY <1>1, <1>2, <1>5 DEF CallInv
    <3>2. s.op = "update"
      BY ONLY ZenonT(30), <3>1 DEF PatchFits
    <3> QED BY <1>1, <1>5, <3>1, <3>2
  <2>2. PICK lv : lv = NextVersion(s)
    OBVIOUS
  <2>3. rows' = [rows EXCEPT ![s.id].f = Over(s.patch, @), ![s.id].lv = IF Whole(s) THEN @ + 1 ELSE @]
    BY <1>1, <2>1 DEF Applied
  <2>4. DOMAIN rows[s.id] = {"kind", "f", "lv"}
    BY <1>2, <2>1 DEF RowsInv, RowFits
  <2>5. [rows EXCEPT ![s.id].f = Over(s.patch, @)][s.id].lv = rows[s.id].lv
    BY ONLY ZenonT(30), <2>1, <2>4
  <2>6. rows' = [rows EXCEPT ![s.id].f = Over(s.patch, @), ![s.id].lv = lv]
    BY ONLY ZenonT(30), <2>2, <2>3, <2>5 DEF NextVersion
  <2>7. wanted' = [wanted EXCEPT ![s.id] = Over(s.asked, @)]
    BY <1>1, <2>1 DEF Asked
  <2>8. /\ DOMAIN s.patch \subseteq FieldsOf(rows[s.id].kind) /\ DOMAIN s.asked \subseteq FieldsOf(rows[s.id].kind)
    BY <2>1 DEF PatchFits, About
  <2>9. Writes(s.id, s.patch, s.asked, lv)
    <3>1. RowsInv
      BY <1>2
    <3>2. Statement(s.id, s.patch, s.asked, lv)
      BY <2>6, <2>7 DEF Statement
    <3>3. s.id \in DOMAIN rows
      BY <2>1
    <3>4. PICK id, patch, asked : id = s.id /\ patch = s.patch /\ asked = s.asked
      OBVIOUS
    <3>5. /\ Statement(id, patch, asked, lv) /\ id \in DOMAIN rows
          /\ DOMAIN patch \subseteq FieldsOf(rows[id].kind) /\ DOMAIN asked \subseteq FieldsOf(rows[id].kind)
      BY ONLY ZenonT(30), <2>8, <3>2, <3>3, <3>4
    <3>6. Writes(id, patch, asked, lv)
      BY ONLY ZenonT(30), <3>1, <3>5, WritesIs
    <3> QED BY ONLY ZenonT(30), <3>4, <3>6
  <2> QED BY <1>1, <1>5, <2>2, <2>9, UpdateStep
<1> QED BY <1>1, <1>2, <1>3, <1>4, <1>5 DEF CallInv, CallKinds

\* The statuses of the services: none is 403, which only the guard of a route answers.
Status(v) == v \in {200, 400, 404, 409, 500}
Allows(v) == v = 200

\* A status that is no success.
LEMMA RefusalIs ==
  ASSUME NEW s, NEW status, NEW st \in Refusals(status)
  PROVE  Told(s, ensureSession(st)) \in {"error", "thrown"}
<1>1. ensureSession(st) \in {"error", "thrown"}
  BY DEF ensureSession, Refusals
<1> QED BY ONLY ZenonT(30), <1>1 DEF Told

\* A relayed call succeeds or fails.
LEMMA RelayIs ==
  ASSUME NEW k, NEW op, NEW verdict, Status(verdict), relay(k, op, verdict), can(tab[calls[k].tab].role, op)
  PROVE  /\ calls[k].at = IF calls[k].kind = "createInvite" THEN "counted" ELSE "sent"
         /\ tab' = tab /\ made' = made
         /\ (Allows(verdict) /\ Succeeds(k)) \/ Fails(k, verdict)
BY DEF relay, Allows

\* A call that fails keeps the invariant.
LEMMA FailsStep ==
  ASSUME ConsoleInv, NEW k \in DOMAIN calls, NEW verdict, Status(verdict), Fails(k, verdict),
         calls[k].at \in Waiting, tab' = tab, made' = made
  PROVE  ConsoleInv'
<1>1. PICK s : s = calls[k]
  OBVIOUS
<1>2. PICK st \in Refusals(verdict) : calls' = [calls EXCEPT ![k] = AdminOutcome(s, Told(s, ensureSession(st)), FALSE)]
  BY <1>1 DEF Fails
<1>3. PICK at : at = Told(s, ensureSession(st))
  OBVIOUS
<1>4. at \in {"error", "thrown"}
  BY ONLY ZenonT(30), <1>3, st \in Refusals(verdict), RefusalIs
<1>5. calls' = [calls EXCEPT ![k] = AdminOutcome(s, at, FALSE)]
  BY ONLY ZenonT(30), <1>2, <1>3
<1>6. verdict # 403
  BY ONLY SMTT(30), Status(verdict) DEF Status
<1>7. seen' = [seen EXCEPT !.denied = @] /\ UNCHANGED <<rows, wanted>>
  BY ONLY ZenonT(30), <1>6, Fails(k, verdict) DEF Fails
<1>8. IsSeen(seen)
  BY DEF ConsoleInv
<1>9. SeenStands
  BY ONLY ZenonT(30), <1>7, <1>8 DEF SeenStands, IsSeen
<1> QED BY <1>1, <1>4, <1>5, <1>7, <1>9, RefusedStep

\* A call that succeeds keeps the invariant.
LEMMA SucceedsStep ==
  ASSUME ConsoleInv, NEW k \in DOMAIN calls, Succeeds(k), calls[k].at \in Waiting, tab' = tab, made' = made,
         calls[k].kind = "createInvite" => calls[k].at = "counted" /\ NewAddress(calls[k]),
         calls[k].kind \in Updates => calls[k].id \in DOMAIN rows
  PROVE  ConsoleInv'
<1>1. PICK s : s = calls[k]
  OBVIOUS
<1>2. IsSeen(seen)
  BY DEF ConsoleInv
<1>3. SeenApplied(k)
  BY ONLY ZenonT(30), <1>2, Succeeds(k) DEF Succeeds, SeenApplied, IsSeen
<1>4. PICK out \in {"ok", "error", "thrown"} : calls' = [calls EXCEPT ![k] = AdminOutcome(s, Told(s, out), TRUE)]
  BY <1>1 DEF Succeeds
<1>5. Told(s, out) \in {"ok", "error", "thrown"}
  BY DEF Told
<1>6. Applies(k)
  BY <1>1, <1>3, <1>4, <1>5 DEF Applies
<1>7. rows' = Applied(k) /\ wanted' = Asked(k)
  BY DEF Succeeds
<1> QED BY <1>6, <1>7, AppliedStep

\* A call relayed to a route keeps the invariant (server/admin.ts:98-243).
LEMMA RelayStep ==
  ASSUME ConsoleInv, NEW k \in DOMAIN calls, NEW op, op = OpOf(calls[k].kind), NEW verdict, Status(verdict),
         relay(k, op, verdict), calls[k].kind = "createInvite" => (Allows(verdict) => NewAddress(calls[k])),
         calls[k].kind \in Updates => (Allows(verdict) => calls[k].id \in DOMAIN rows)
  PROVE  ConsoleInv'
<1>1. can(tab[calls[k].tab].role, op)
  BY DEF ConsoleInv, CallInv
<1>2. /\ calls[k].at = (IF calls[k].kind = "createInvite" THEN "counted" ELSE "sent")
      /\ tab' = tab /\ made' = made
      /\ (Allows(verdict) /\ Succeeds(k)) \/ Fails(k, verdict)
  BY <1>1, RelayIs
<1>3. calls[k].at \in Waiting /\ (calls[k].kind = "createInvite" => calls[k].at = "counted")
  BY ONLY ZenonT(30), <1>2 DEF Waiting
<1> QED BY <1>2, <1>3, SucceedsStep, FailsStep

-----------------------------------------------------------------------------
(* The routes *)

\* What a service that says 200 has checked.
LEMMA VerdictsAre ==
  ASSUME NEW s
  PROVE  /\ Status(createDashboard(s)) /\ Status(updateDashboard(s)) /\ Status(deleteDashboard(s))
         /\ Status(createUser(s)) /\ Status(updateUser(s)) /\ Status(deleteUser(s))
         /\ Status(issueKey(s)) /\ Status(revokeKey(s)) /\ Status(createInvite(s)) /\ Status(revokeInvite(s))
         /\ Status(upsertRetention(s)) /\ Status(createRule(s.row.f)) /\ Status(deleteRule(s.id))
         /\ Status(updateRule(s.id, s.patch))
         /\ Allows(updateDashboard(s)) => s.id \in DOMAIN rows
         /\ Allows(updateUser(s)) => s.id \in DOMAIN rows
         /\ Allows(revokeInvite(s)) => s.id \in DOMAIN rows
         /\ Allows(updateRule(s.id, s.patch)) => s.id \in DOMAIN rows
         /\ Allows(createInvite(s)) => NewAddress(s)
<1>1. Status(createDashboard(s)) /\ Status(updateDashboard(s)) /\ Status(deleteDashboard(s))
  BY SMTT(30) DEF Status, createDashboard, updateDashboard, deleteDashboard
<1>2. Status(createUser(s)) /\ Status(updateUser(s)) /\ Status(deleteUser(s)) /\ Status(issueKey(s)) /\ Status(revokeKey(s))
  BY SMTT(30) DEF Status, createUser, updateUser, deleteUser, Known, issueKey, revokeKey
<1>3. Status(createInvite(s)) /\ Status(revokeInvite(s)) /\ Status(upsertRetention(s))
  BY SMTT(30) DEF Status, createInvite, revokeInvite, upsertRetention
<1>4. Status(createRule(s.row.f)) /\ Status(deleteRule(s.id)) /\ Status(updateRule(s.id, s.patch))
  BY SMTT(30) DEF Status, createRule, deleteRule, updateRule
<1>5. /\ Allows(updateDashboard(s)) => s.id \in DOMAIN rows
      /\ Allows(updateUser(s)) => s.id \in DOMAIN rows
      /\ Allows(revokeInvite(s)) => s.id \in DOMAIN rows
      /\ Allows(updateRule(s.id, s.patch)) => s.id \in DOMAIN rows
  <2>1. s.id \in Pending => s.id \in DOMAIN rows
    BY DEF Pending, OfKind
  <2> QED BY SMTT(30), <2>1 DEF Allows, updateDashboard, updateUser, Known, revokeInvite, updateRule
<1>6. Allows(createInvite(s)) => NewAddress(s)
  BY SMTT(30) DEF Allows, createInvite, NewAddress
<1> QED BY <1>1, <1>2, <1>3, <1>4, <1>5, <1>6

\* What a service answers a call of the invariant with.
Verdict(k, v) ==
  /\ Status(v)
  /\ calls[k].kind = "createInvite" => (Allows(v) => NewAddress(calls[k]))
  /\ calls[k].kind \in Updates => (Allows(v) => calls[k].id \in DOMAIN rows)

\* A call whose route asks the matrix what its button asked.
LEMMA RelayedStep ==
  ASSUME ConsoleInv, NEW k \in DOMAIN calls, NEW v, Verdict(k, v), relay(k, OpOf(calls[k].kind), v)
  PROVE  ConsoleInv'
BY RelayStep DEF Verdict

\* The routes of dashboards (routes.ts:455-507).
LEMMA DashboardRoutesStep ==
  ASSUME ConsoleInv, NEW k \in DOMAIN calls, calls[k].kind \in DashboardKinds, DashboardRoutes(k)
  PROVE  ConsoleInv'
<1>1. PICK s : s = calls[k]
  OBVIOUS
<1>2. CASE s.kind = "createDashboard"
  <2>1. relay(k, <<"dashboard", "create">>, createDashboard(s)) /\ OpOf(s.kind) = <<"dashboard", "create">>
    BY <1>1, <1>2 DEF DashboardRoutes, OpOf
  <2>2. Verdict(k, createDashboard(s))
    BY <1>1, <1>2, VerdictsAre DEF Verdict, Updates
  <2> QED BY <1>1, <2>1, <2>2, RelayedStep
<1>3. CASE s.kind = "deleteDashboard"
  <2>1. relay(k, <<"dashboard", "delete">>, deleteDashboard(s)) /\ OpOf(s.kind) = <<"dashboard", "delete">>
    BY <1>1, <1>3 DEF DashboardRoutes, OpOf
  <2>2. Verdict(k, deleteDashboard(s))
    BY <1>1, <1>3, VerdictsAre DEF Verdict, Updates
  <2> QED BY <1>1, <2>1, <2>2, RelayedStep
<1>4. CASE s.kind \in {"rename", "panel", "removePanel"}
  <2>1. relay(k, <<"dashboard", "update">>, updateDashboard(s)) /\ OpOf(s.kind) = <<"dashboard", "update">>
    BY <1>1, <1>4 DEF DashboardRoutes, OpOf
  <2>2. Verdict(k, updateDashboard(s))
    BY <1>1, <1>4, VerdictsAre DEF Verdict
  <2> QED BY <1>1, <2>1, <2>2, RelayedStep
<1> QED BY <1>1, <1>2, <1>3, <1>4 DEF DashboardKinds

\* The routes of users (routes.ts:245-289).
LEMMA UserRoutesStep ==
  ASSUME ConsoleInv, NEW k \in DOMAIN calls, UserRoutes(k)
  PROVE  ConsoleInv'
<1>1. PICK s : s = calls[k]
  OBVIOUS
<1>2. CASE s.kind = "createUser"
  <2>1. relay(k, <<"user", "create">>, createUser(s)) /\ OpOf(s.kind) = <<"user", "create">>
    BY <1>1, <1>2 DEF UserRoutes, OpOf, DashboardKinds
  <2>2. Verdict(k, createUser(s))
    BY <1>1, <1>2, VerdictsAre DEF Verdict, Updates
  <2> QED BY <1>1, <2>1, <2>2, RelayedStep
<1>3. CASE s.kind = "editUser"
  <2>1. relay(k, <<"user", "update">>, updateUser(s)) /\ OpOf(s.kind) = <<"user", "update">>
    BY <1>1, <1>3 DEF UserRoutes, OpOf, DashboardKinds
  <2>2. Verdict(k, updateUser(s))
    BY <1>1, <1>3, VerdictsAre DEF Verdict, Updates
  <2> QED BY <1>1, <2>1, <2>2, RelayedStep
<1>4. CASE s.kind = "deleteUser"
  <2>1. relay(k, <<"user", "delete">>, deleteUser(s)) /\ OpOf(s.kind) = <<"user", "delete">>
    BY <1>1, <1>4 DEF UserRoutes, OpOf, DashboardKinds
  <2>2. Verdict(k, deleteUser(s))
    BY <1>1, <1>4, VerdictsAre DEF Verdict, Updates
  <2> QED BY <1>1, <2>1, <2>2, RelayedStep
<1> QED BY <1>1, <1>2, <1>3, <1>4 DEF UserRoutes

\* The routes of API keys (routes.ts:291-321).
LEMMA KeyRoutesStep ==
  ASSUME ConsoleInv, NEW k \in DOMAIN calls, KeyRoutes(k)
  PROVE  ConsoleInv'
<1>1. PICK s : s = calls[k]
  OBVIOUS
<1>2. CASE s.kind = "issueKey"
  <2>1. relay(k, <<"apikey", "create">>, issueKey(s)) /\ OpOf(s.kind) = <<"apikey", "create">>
    BY <1>1, <1>2 DEF KeyRoutes, OpOf, DashboardKinds
  <2>2. Verdict(k, issueKey(s))
    BY <1>1, <1>2, VerdictsAre DEF Verdict, Updates
  <2> QED BY <1>1, <2>1, <2>2, RelayedStep
<1>3. CASE s.kind = "revokeKey"
  <2>1. relay(k, <<"apikey", "revoke">>, revokeKey(s)) /\ OpOf(s.kind) = <<"apikey", "revoke">>
    BY <1>1, <1>3 DEF KeyRoutes, OpOf, DashboardKinds
  <2>2. s.at \in Waiting
    BY <1>1, <1>3, <2>1 DEF relay, Waiting
  <2>3. s.id \in DOMAIN rows
    <3>1. PatchFits(s)
      BY <1>1, <1>3, <2>2 DEF ConsoleInv, CallInv, Updates
    <3>2. KindOf(s.kind) \in {"apikey", "policy"}
      BY <1>3 DEF KindOf, DashboardKinds
    <3> QED BY <3>1, <3>2 DEF PatchFits, About
  <2>4. Verdict(k, revokeKey(s))
    BY <1>1, <1>3, <2>3, VerdictsAre DEF Verdict
  <2> QED BY <1>1, <2>1, <2>4, RelayedStep
<1> QED BY <1>1, <1>2, <1>3 DEF KeyRoutes

\* The routes of the retention policy (routes.ts:323-337).
LEMMA RetentionRoutesStep ==
  ASSUME ConsoleInv, NEW k \in DOMAIN calls, RetentionRoutes(k)
  PROVE  ConsoleInv'
<1>1. PICK s : s = calls[k]
  OBVIOUS
<1>2. CASE s.kind = "retention"
  <2>1. relay(k, <<"retention", "update">>, upsertRetention(s)) /\ OpOf(s.kind) = <<"retention", "update">>
    BY <1>1, <1>2 DEF RetentionRoutes, OpOf, DashboardKinds
  <2>2. s.at \in Waiting
    BY <1>1, <1>2, <2>1 DEF relay, Waiting
  <2>3. s.id \in DOMAIN rows
    <3>1. PatchFits(s)
      BY <1>1, <1>2, <2>2 DEF ConsoleInv, CallInv, Updates
    <3>2. KindOf(s.kind) \in {"apikey", "policy"}
      BY <1>2 DEF KindOf, DashboardKinds
    <3> QED BY <3>1, <3>2 DEF PatchFits, About
  <2>4. Verdict(k, upsertRetention(s))
    BY <1>1, <1>2, <2>3, VerdictsAre DEF Verdict
  <2> QED BY <1>1, <2>1, <2>4, RelayedStep
<1> QED BY <1>1, <1>2 DEF RetentionRoutes

\* The routes of invites (routes.ts:509-553).
LEMMA InviteRoutesStep ==
  ASSUME ConsoleInv, NEW k \in DOMAIN calls, InviteRoutes(k), ~countPending(k)
  PROVE  ConsoleInv'
<1>1. PICK s : s = calls[k]
  OBVIOUS
<1>2. CASE s.kind = "createInvite"
  <2>1. relay(k, <<"invite", "create">>, createInvite(s)) /\ OpOf(s.kind) = <<"invite", "create">>
    BY <1>1, <1>2 DEF InviteRoutes, OpOf, DashboardKinds, insertInvite
  <2>2. Verdict(k, createInvite(s))
    BY <1>1, <1>2, VerdictsAre DEF Verdict, Updates
  <2> QED BY <1>1, <2>1, <2>2, RelayedStep
<1>3. CASE s.kind = "revokeInvite"
  <2>1. relay(k, <<"invite", "revoke">>, revokeInvite(s)) /\ OpOf(s.kind) = <<"invite", "revoke">>
    BY <1>1, <1>3 DEF InviteRoutes, OpOf, DashboardKinds
  <2>2. Verdict(k, revokeInvite(s))
    BY <1>1, <1>3, VerdictsAre DEF Verdict, Updates
  <2> QED BY <1>1, <2>1, <2>2, RelayedStep
<1> QED BY <1>1, <1>2, <1>3 DEF InviteRoutes

\* The routes of alert rules (routes.ts:339-395).
LEMMA AlertRoutesStep ==
  ASSUME ConsoleInv, NEW k \in DOMAIN calls, AlertRoutes(k)
  PROVE  ConsoleInv'
<1>1. PICK s : s = calls[k]
  OBVIOUS
<1>2. CASE s.kind = "createRule"
  <2>1. relay(k, <<"alert", "create">>, createRule(s.row.f)) /\ OpOf(s.kind) = <<"alert", "create">>
    BY <1>1, <1>2 DEF AlertRoutes, OpOf, DashboardKinds
  <2>2. Verdict(k, createRule(s.row.f))
    BY <1>1, <1>2, VerdictsAre DEF Verdict, Updates
  <2> QED BY <1>1, <2>1, <2>2, RelayedStep
<1>3. CASE s.kind = "editRule"
  <2>1. relay(k, <<"alert", "update">>, updateRule(s.id, s.patch)) /\ OpOf(s.kind) = <<"alert", "update">>
    BY <1>1, <1>3 DEF AlertRoutes, OpOf, DashboardKinds
  <2>2. Verdict(k, updateRule(s.id, s.patch))
    BY <1>1, <1>3, VerdictsAre DEF Verdict, Updates
  <2> QED BY <1>1, <2>1, <2>2, RelayedStep
<1>4. CASE s.kind = "deleteRule"
  <2>1. relay(k, <<"alert", "delete">>, deleteRule(s.id)) /\ OpOf(s.kind) = <<"alert", "delete">>
    BY <1>1, <1>4 DEF AlertRoutes, OpOf, DashboardKinds
  <2>2. Verdict(k, deleteRule(s.id))
    BY <1>1, <1>4, VerdictsAre DEF Verdict, Updates
  <2> QED BY <1>1, <2>1, <2>2, RelayedStep
<1> QED BY <1>1, <1>2, <1>3, <1>4 DEF AlertRoutes

\* The count of the pending invites, and the cap.
LEMMA CountedStep ==
  ASSUME ConsoleInv, NEW k \in DOMAIN calls, calls[k].kind = "createInvite", calls[k].at = "sent", ~CapReached,
         NEW c, c = Counted(calls[k]),
         calls' = [calls EXCEPT ![k] = c], UNCHANGED <<rows, tab, made, wanted, seen>>
  PROVE  ConsoleInv'
<1>1. PICK s : s = calls[k]
  OBVIOUS
<1>2. s.kind \in Creates /\ s.kind \notin Deletes /\ s.kind \notin Updates /\ s.at \in Waiting
  BY <1>1 DEF Creates, Deletes, Updates, Waiting
<1>3. /\ CallInv(k) /\ RowsInv /\ made \in Nat
      /\ calls = [j \in DOMAIN calls |-> calls[j]]
  BY DEF ConsoleInv
<1>4. DOMAIN s = {"tab", "kind", "at", "op", "row", "counted"}
  BY <1>1, <1>2, <1>3 DEF CallInv
<1>5. /\ DOMAIN c = DOMAIN s /\ c.tab = s.tab /\ c.kind = s.kind /\ c.op = s.op /\ c.row = s.row
      /\ c.at = "counted" /\ c.counted = OfKind("invite")
  BY <1>1, <1>4 DEF Counted
<1>6. /\ DOMAIN calls' = DOMAIN calls /\ calls' = [j \in DOMAIN calls' |-> calls'[j]] /\ calls'[k] = c
      /\ \A j \in DOMAIN calls : j # k => calls'[j] = calls[j]
  OBVIOUS
<1>7. CallsMove
  BY <1>1, <1>2, <1>5, <1>6 DEF CallsMove
<1>8. RowsMove /\ RowsInv'
  <2>1. \A j \in DOMAIN calls' : calls'[j].at \in Waiting => j \in DOMAIN calls /\ calls[j].at \in Waiting
    BY <1>1, <1>2, <1>6
  <2>2. made' \in Nat /\ made <= made'
    BY SMTT(30), <1>3
  <2> QED BY <1>3, <2>1, <2>2, RowsStand
<1>9. \A i \in c.counted : Born(i)'
  BY <1>3, <1>5, <1>8 DEF RowsInv, RowsMove, OfKind
<1>10. Cardinality(Pending \cap c.counted) < inviteMaxOutstandingPerTenant
  <2>1. Pending \cap c.counted = Pending
    BY <1>5 DEF Pending
  <2>2. Cardinality(Pending \cap c.counted) \in Nat
    BY <1>3, PendingIs
  <2>3. ~(Cardinality(Pending) >= inviteMaxOutstandingPerTenant)
    BY DEF CapReached
  <2>4. inviteMaxOutstandingPerTenant \in Nat
    BY ConsoleAssumption
  <2> QED BY ONLY SMTT(30), <2>1, <2>2, <2>3, <2>4
<1>11. Pending' = Pending
  BY DEF Pending, OfKind
<1>12. CallInv(k)'
  <2>1. /\ s.tab \in DOMAIN tab /\ s.kind \in CallKinds /\ can(tab[s.tab].role, OpOf(s.kind))
        /\ s.op = "insert" /\ RowFits(k, s.row) /\ s.row.kind = KindOf(s.kind)
    BY <1>1, <1>2, <1>3 DEF CallInv
  <2>2. RowFits(k, c.row)'
    BY <1>5, <2>1
  <2> QED BY <1>1, <1>2, <1>4, <1>5, <1>6, <1>9, <1>10, <1>11, <2>1, <2>2 DEF CallInv
<1>13. \A t \in DOMAIN tab : NoRace(t)'
  BY <1>7, <1>8, NoRaceStands
<1>14. (EditsCompose /\ StaleNeedsARace /\ OfferedIsAllowed /\ SecretStaysUp /\ CapYieldsOnlyToRaces)'
  BY PromisesStand
<1> QED BY <1>6, <1>7, <1>8, <1>12, <1>13, <1>14, RowsStep DEF ConsoleInv

\* Pending invites are counted before one is stored (invite-service.ts:55-73).
LEMMA CountPendingStep ==
  ASSUME ConsoleInv, NEW k \in DOMAIN calls, countPending(k)
  PROVE  ConsoleInv'
<1>1. /\ calls[k].kind = "createInvite" /\ calls[k].at = "sent" /\ UNCHANGED <<rows, tab, made, wanted, seen>>
  BY DEF countPending
<1>2. can(tab[calls[k].tab].role, <<"invite", "create">>)
  BY <1>1 DEF ConsoleInv, CallInv, OpOf
<1>3. calls[k].at \in Waiting
  BY <1>1 DEF Waiting
<1>4. CASE CapReached
  <2>1. calls' = [calls EXCEPT ![k] = AdminOutcome(calls[k], "error", FALSE)]
    BY ONLY ZenonT(30), <1>4, countPending(k) DEF countPending
  <2>2. SeenStands
    BY <1>1 DEF SeenStands, ConsoleInv
  <2> QED BY <1>1, <1>3, <2>1, <2>2, RefusedStep
<1>5. CASE ~CapReached
  <2>1. PICK c : c = Counted(calls[k])
    OBVIOUS
  <2>2. calls' = [calls EXCEPT ![k] = c]
    <3>1. c = IF ~can(tab[calls[k].tab].role, <<"invite", "create">>) \/ CapReached
              THEN AdminOutcome(calls[k], "error", FALSE) ELSE Counted(calls[k])
      BY ONLY ZenonT(30), <1>2, <1>5, <2>1
    <3> QED BY ONLY ZenonT(30), <3>1, countPending(k) DEF countPending
  <2> QED BY <1>1, <1>5, <2>1, <2>2, CountedStep
<1> QED BY <1>4, <1>5

\* Every route keeps the invariant.
LEMMA RoutesStep ==
  ASSUME ConsoleInv, NEW k \in DOMAIN calls, Routes(k)
  PROVE  ConsoleInv'
<1>1. CASE countPending(k)
  BY <1>1, CountPendingStep
<1>2. CASE ~countPending(k)
  BY <1>2, DashboardRoutesStep, UserRoutesStep, KeyRoutesStep, InviteRoutesStep, RetentionRoutesStep, AlertRoutesStep
     DEF Routes
<1> QED BY <1>1, <1>2

-----------------------------------------------------------------------------
(* The answer *)

Shuts(k) == calls[k].at = "ok" /\ Slot(tab[calls[k].tab].dialog.kind) = Slot(calls[k].kind)

\* What an answer changes in its tab.
LEMMA AnswerRedraws ==
  ASSUME ConsoleInv, NEW k \in DOMAIN calls, answer(k), NEW t, t = calls[k].tab
  PROVE  \E shown :
           /\ Redraws(t, tab[t].data, IF Shuts(k) THEN NoDialog ELSE tab[t].dialog,
                      IF calls[k].at = "ok" THEN "asked" ELSE tab[t].reload, tab[t].fresh, shown)
           /\ shown = [kind \in Revealing |-> shown[kind]] /\ (calls[k].at # "ok" => shown = tab[t].shown)
<1>1. t \in DOMAIN tab /\ tab = [u \in DOMAIN tab |-> tab[u]]
  BY DEF ConsoleInv, CallInv
<1>2. PICK p : p = tab[t]
  OBVIOUS
<1>3. IsTab(p) /\ p.shown = [kind \in Revealing |-> p.shown[kind]]
  BY <1>1, <1>2 DEF ConsoleInv, TabInv
<1>4. PICK dialog : dialog = IF Shuts(k) THEN NoDialog ELSE p.dialog
  OBVIOUS
<1>5. PICK reload : reload = IF calls[k].at = "ok" THEN "asked" ELSE p.reload
  OBVIOUS
<1>6. PICK shown : shown = IF calls[k].at = "ok" /\ calls[k].kind \in Revealing
                           THEN [p.shown EXCEPT ![calls[k].kind] = k] ELSE p.shown
  OBVIOUS
<1>7. shown = [kind \in Revealing |-> shown[kind]] /\ (calls[k].at # "ok" => shown = p.shown)
  BY <1>3, <1>6
<1>8. /\ DOMAIN tab' = DOMAIN tab /\ tab' = [u \in DOMAIN tab' |-> tab'[u]]
      /\ (\A u \in DOMAIN tab : u # t => tab'[u] = tab[u]) /\ tab'[t] = onAnswer(p, k)
  BY <1>1, <1>2 DEF answer
<1>9. PICK q : q = onAnswer(p, k)
  OBVIOUS
<1>10. /\ IsTab(q) /\ q.page = p.page /\ q.role = p.role /\ q.data = p.data /\ q.fresh = p.fresh
       /\ q.dialog = dialog /\ q.reload = reload /\ q.shown = shown
  <2>1. IsTab(q) /\ q.page = p.page /\ q.role = p.role /\ q.data = p.data /\ q.fresh = p.fresh
    BY ONLY ZenonT(30), <1>3, <1>9 DEF onAnswer, IsTab
  <2>2. q.dialog = dialog
    BY ONLY ZenonT(30), <1>2, <1>3, <1>4, <1>9, t = calls[k].tab DEF onAnswer, IsTab, Shuts
  <2>3. q.reload = reload
    BY ONLY ZenonT(30), <1>3, <1>5, <1>9 DEF onAnswer, IsTab, Invalidate
  <2>4. q.shown = shown
    BY ONLY ZenonT(30), <1>3, <1>6, <1>9 DEF onAnswer, IsTab
  <2> QED BY <2>1, <2>2, <2>3, <2>4
<1>11. Redraws(t, p.data, dialog, reload, p.fresh, shown)
  BY <1>2, <1>8, <1>9, <1>10 DEF Redraws
<1> QED BY <1>2, <1>4, <1>5, <1>7, <1>11

\* An answer arrives at its tab and keeps the invariant.
LEMMA AnswerStep ==
  ASSUME ConsoleInv, NEW k \in DOMAIN calls, answer(k)
  PROVE  ConsoleInv'
<1>1. PICK s, t : s = calls[k] /\ t = s.tab
  OBVIOUS
<1>2. PICK p : p = tab[t]
  OBVIOUS
<1>3. PICK dialog, reload : /\ dialog = (IF Shuts(k) THEN NoDialog ELSE p.dialog)
                            /\ reload = (IF s.at = "ok" THEN "asked" ELSE p.reload)
  OBVIOUS
<1>4. PICK shown : /\ Redraws(t, p.data, dialog, reload, p.fresh, shown)
                   /\ shown = [kind \in Revealing |-> shown[kind]] /\ (s.at # "ok" => shown = p.shown)
  BY <1>1, <1>2, <1>3, AnswerRedraws
<1>5. /\ CallInv(k) /\ t \in DOMAIN tab /\ RowsInv /\ made \in Nat /\ DOMAIN calls \subseteq 1..made /\ IsSeen(seen)
  BY <1>1 DEF ConsoleInv, CallInv
<1>6. /\ p.page \in {"detail", "list", "admin", "alerts"}
      /\ p.reload \in {"none", "asked", "read"}
      /\ Held(p.page, p.data) /\ Held(p.page, p.fresh.data) /\ DialogInv(p.role, p.dialog)
      /\ OneAtATime(t) /\ NoRace(t)
  BY <1>2, <1>5, TabOf
<1>7. UNCHANGED <<rows, made, wanted>>
  BY DEF answer
<1>8. /\ DOMAIN calls' = DOMAIN calls \ {k} /\ calls' = [j \in DOMAIN calls' |-> calls'[j]]
      /\ \A j \in DOMAIN calls' : calls'[j] = calls[j]
  BY DEF answer, Restrict
<1>9. RowsMove /\ RowsInv'
  <2>1. made' \in Nat /\ made <= made'
    BY SMTT(30), <1>5, <1>7
  <2> QED BY <1>5, <1>7, <1>8, <2>1, RowsStand
<1>10. /\ DOMAIN tab' = DOMAIN tab /\ tab' = [u \in DOMAIN tab' |-> tab'[u]]
       /\ (\A u \in DOMAIN tab : u # t => tab'[u] = tab[u])
       /\ IsTab(tab'[t]) /\ tab'[t].page = p.page /\ tab'[t].role = p.role /\ tab'[t].data = p.data
       /\ tab'[t].dialog = dialog /\ tab'[t].reload = reload /\ tab'[t].fresh = p.fresh /\ tab'[t].shown = shown
  BY <1>2, <1>4 DEF Redraws
<1>11. /\ IsSeen(seen') /\ seen'.early = seen.early /\ seen'.changed = seen.changed /\ seen'.stale = seen.stale
       /\ seen'.denied = seen.denied /\ seen'.raced = seen.raced
       /\ seen'.misled = IF s.applied /\ s.at # "ok" /\ t \in seen.changed THEN seen.misled \cup {t} ELSE seen.misled
       /\ seen'.lost = seen.lost \/ (p.shown[s.kind] # 0 /\ s.kind \in Revealing /\ seen'.lost = seen.lost \cup {t})
  BY <1>1, <1>2, <1>5 DEF answer, IsSeen
<1>12. TabInv(t)'
  <2>1. DialogInv(p.role, dialog)
    BY <1>3, <1>6, NothingOpen
  <2>2. Held(p.page, p.data)' /\ Held(p.page, p.fresh.data)' /\ DialogInv(p.role, dialog)'
    BY <1>5, <1>6, <1>9, <2>1, HeldMoves, DialogMoves
  <2>3. reload \in {"none", "asked", "read"}
    BY <1>3, <1>6
  <2> QED BY <1>4, <1>6, <1>10, <2>2, <2>3 DEF TabInv, IsTab
<1>13. Unanswered(t)' = Unanswered(t) \ {k} /\ k \in Unanswered(t)
  BY <1>1, <1>8 DEF Unanswered
<1>14. ASSUME t \notin seen.early
       PROVE  /\ Unanswered(t)' = {} /\ Unanswered(t) = {k} /\ p.reload = "none" /\ (\A x \in Revealing : p.shown[x] = 0)
              /\ s.at = "ok" => dialog.kind = "none"
  <2>1. \A j, l \in Unanswered(t) : j = l
    BY <1>6, <1>14 DEF OneAtATime
  <2>2. Unanswered(t) = {k} /\ Unanswered(t)' = {}
    BY <1>13, <2>1
  <2>3. p.reload = "none" /\ \A x \in Revealing : p.shown[x] = 0
    BY <1>2, <1>6, <1>13, <1>14 DEF OneAtATime
  <2>4. p.dialog.kind \in {"none", s.kind}
    BY <1>1, <1>2, <1>6, <1>13, <1>14 DEF OneAtATime
  <2>5. s.at = "ok" /\ p.dialog.kind = s.kind => dialog = NoDialog
    BY <1>1, <1>2, <1>3 DEF Shuts
  <2>6. s.at = "ok" => dialog.kind = "none"
    <3>1. s.at = "ok" /\ p.dialog.kind = "none" => dialog.kind = "none"
      BY ONLY ZenonT(30), <1>3, NothingOpen
    <3>2. NoDialog.kind = "none"
      BY NothingOpen
    <3> QED BY <2>4, <2>5, <3>1, <3>2
  <2> QED BY <2>2, <2>3, <2>6
<1>15. OneAtATime(t)'
  BY <1>3, <1>4, <1>10, <1>11, <1>14 DEF OneAtATime
<1>16. NoRace(t)'
  <2> SUFFICES ASSUME ~Exempt(t)' PROVE NoRace(t)'
    BY DEF NoRace
  <2>1. t \notin seen.early /\ ~Exempt(t) /\ (s.at # "ok" => ~(s.applied /\ t \in seen.changed))
    BY <1>11 DEF Exempt
  <2>2. Unanswered(t)' = {} /\ Unanswered(t) = {k} /\ p.reload = "none"
    BY <1>14, <2>1
  <2>3. CASE s.at = "ok"
    <3>1. tab'[t].reload = "asked"
      BY <1>3, <1>10, <2>3
    <3> QED BY <2>2, <3>1 DEF NoRace
  <2>4. CASE s.at # "ok"
    <3>1. Current(p)
      BY <1>1, <1>2, <1>6, <2>1, <2>2, <2>4 DEF NoRace
    <3>2. tab'[t].dialog = p.dialog /\ tab'[t].reload = "none"
      BY <1>1, <1>3, <1>10, <2>2, <2>4 DEF Shuts
    <3>3. Current(tab[t])'
      BY <1>7, <1>10, <3>1, <3>2 DEF Current, UpToDate
    <3> QED BY <2>2, <3>2, <3>3 DEF NoRace
  <2> QED BY <2>3, <2>4
<1>17. ASSUME NEW u \in DOMAIN tab, u # t
       PROVE  TabInv(u)' /\ OneAtATime(u)' /\ NoRace(u)'
  <2>1. tab'[u] = tab[u] /\ TabInv(u) /\ OneAtATime(u) /\ NoRace(u)
    BY <1>10, <1>17 DEF ConsoleInv
  <2>2. TabInv(u)'
    BY <1>5, <1>9, <2>1, TabMoves
  <2>3. (u \in seen'.early <=> u \in seen.early) /\ (u \in seen'.misled <=> u \in seen.misled) /\ seen'.changed = seen.changed
    BY <1>11, <1>17
  <2>4. Unanswered(u)' = Unanswered(u) /\ \A j \in Unanswered(u) : calls'[j] = calls[j]
    BY <1>1, <1>8, <1>17 DEF Unanswered
  <2>5. OneAtATime(u)'
    BY <2>1, <2>3, <2>4 DEF OneAtATime
  <2>6. NoRace(u)'
    <3>1. Exempt(u)' <=> Exempt(u)
      BY <2>3 DEF Exempt
    <3>2. /\ UpToDate(tab[u].fresh.data)' <=> UpToDate(tab[u].fresh.data)
          /\ Current(tab[u])' <=> Current(tab[u])
      BY <1>7, <2>1 DEF Current, UpToDate
    <3> QED BY <1>7, <2>1, <2>3, <2>4, <3>1, <3>2 DEF NoRace
  <2> QED BY <2>2, <2>5, <2>6
<1>18. ASSUME NEW j \in DOMAIN calls'
       PROVE  CallInv(j)'
  <2>1. \A u \in DOMAIN tab : tab'[u].role = tab[u].role
    BY <1>2, <1>10
  <2> QED BY <1>5, <1>8, <1>9, <1>10, <1>18, <2>1, CallMoves DEF ConsoleInv
<1>19. (EditsCompose /\ StaleNeedsARace /\ OfferedIsAllowed /\ SecretStaysUp /\ CapYieldsOnlyToRaces)'
  <2>1. seen'.lost = seen.lost \/ \E u \in seen.early : seen'.lost = seen.lost \cup {u}
    BY <1>11, <1>14
  <2> QED BY <1>7, <1>11, <2>1, PromisesStand
<1>20. DOMAIN calls' \subseteq 1..made' /\ made' \in Nat
  BY <1>5, <1>7, <1>8
<1> QED BY <1>8, <1>9, <1>10, <1>11, <1>12, <1>15, <1>16, <1>17, <1>18, <1>19, <1>20 DEF ConsoleInv

=============================================================================
