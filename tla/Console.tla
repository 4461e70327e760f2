------------------------------ MODULE Console ------------------------------
(***************************************************************************)
(* The console: tabs open on its pages, one tenant's rows behind them.     *)
(***************************************************************************)
EXTENDS Dashboards, AdminPage, AlertRules

CONSTANT Screens   \* what may be open (a page, its role and its sections for each tab)
                   \* and the rows there are at the start

\* A row as the tables and the forms leave it.
FieldsOf(kind) ==
  CASE kind = "dashboard" -> {"name"} \cup PanelId
    [] kind = "user" -> {"email"} \cup UserField
    [] kind = "apikey" -> {"status"}
    [] kind = "invite" -> {"email", "status"}
    [] kind = "policy" -> PolicyField
    [] kind = "rule" -> {"name", "cond", "query", "saved"}

RowFits(i, r) ==
  /\ DOMAIN r = {"kind", "f", "lv"} /\ r.lv \in Nat
  /\ r.kind \in {"dashboard", "user", "apikey", "invite", "policy", "rule"}
  /\ r.f = [x \in FieldsOf(r.kind) |-> r.f[x]]
  /\ (i = Dash => r.kind = "dashboard") /\ (i = Policy <=> r.kind = "policy")
  /\ r.kind = "rule" => \A x \in RuleForm : r.f[x] # Blank

PendingIn(table) == {i \in DOMAIN table : table[i].kind = "invite" /\ table[i].f["status"] = "pending"}

ASSUME ConsoleAssumption ==
  /\ MaxCalls \in Nat /\ inviteMaxOutstandingPerTenant \in Nat
  /\ "name" \notin PanelId /\ "api" \notin Tab /\ Blank \notin Query
  /\ Dash \notin Nat /\ Policy \notin Nat
  /\ \A s \in Screens :
       /\ DOMAIN s.open \subseteq Tab
       /\ \A t \in DOMAIN s.open : s.open[t].page \in {"detail", "list", "admin", "alerts"}
       /\ s.rows = [i \in DOMAIN s.rows |-> s.rows[i]] /\ IsFiniteSet(DOMAIN s.rows)
       /\ \A i \in DOMAIN s.rows : i \notin Nat /\ RowFits(i, s.rows[i])
       /\ Cardinality(PendingIn(s.rows)) <= inviteMaxOutstandingPerTenant
       /\ \A i, j \in PendingIn(s.rows) : s.rows[i].f["email"] = s.rows[j].f["email"] => i = j

LoaderOf(page) ==
  CASE page.page = "detail" -> DetailLoader
    [] page.page = "list" -> ListLoader
    [] page.page = "admin" -> loadAdminData(page)
    [] page.page = "alerts" -> AlertsLoader

ConsoleInit ==
  \E screen \in Screens :
    PageInit(screen.rows, screen.open, [t \in DOMAIN screen.open |-> LoaderOf(screen.open[t])])

Routes(k) ==
  \/ calls[k].kind \in DashboardKinds /\ DashboardRoutes(k)
  \/ UserRoutes(k) \/ KeyRoutes(k) \/ InviteRoutes(k) \/ RetentionRoutes(k)
  \/ AlertRoutes(k)

Page(t) ==
  \/ tab[t].page = "detail" /\ DetailPage(t)
  \/ tab[t].page = "list" /\ ListPage(t)
  \/ tab[t].page = "admin" /\ AdminDashboard(t)
  \/ tab[t].page = "alerts" /\ AlertsPage(t)

ConsoleNext ==
  \/ \E k \in DOMAIN calls : Routes(k) \/ answer(k)
  \/ \E t \in DOMAIN tab : Page(t) \/ Close(t)
  \/ \E i \in DOMAIN rows : consumeInvite(i)
  \/ ApiClient

ConsoleSpec == ConsoleInit /\ [][ConsoleNext]_pageVars
=============================================================================
