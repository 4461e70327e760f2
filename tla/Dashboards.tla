----------------------------- MODULE Dashboards -----------------------------
(***************************************************************************)
(* The dashboards of a tenant: the list page, the detail page of one       *)
(* dashboard, and DashboardService on its table.  Panels live inside their *)
(* dashboard's layout column, so adding, changing or removing one writes   *)
(* back the whole layout as the page had loaded it.                        *)
(*                                                                         *)
(* A field of the layout for each panel id holds what the panel shows      *)
(* (title, type, saved query, viz, grid) as one value, or NoPanel.         *)
(***************************************************************************)
EXTENDS ConsolePage

CONSTANTS Dash, PanelId, PanelValue, Name

NoPanel == 0
Layout(panels) == [p \in PanelId |-> IF p \in DOMAIN panels THEN panels[p] ELSE NoPanel]
Dashboard(n, layout) == Row("dashboard", Over([name |-> n], layout))
PanelsOf(f) == {p \in PanelId : f[p] # NoPanel}

DashboardKinds == {"createDashboard", "deleteDashboard", "rename", "panel", "removePanel"}

-----------------------------------------------------------------------------
(* DashboardService and the guards of its routes. *)

NameTaken(kind, id, n) == \E j \in OfKind(kind) \ {id} : rows[j].f["name"] = n

createDashboard(s) == IF NameTaken("dashboard", 0, s.row.f["name"]) THEN 409 ELSE 200

updateDashboard(s) ==
  IF s.id \notin DOMAIN rows THEN 404
  ELSE IF "name" \in DOMAIN s.patch /\ NameTaken("dashboard", s.id, s.patch["name"]) THEN 409
  ELSE 200

deleteDashboard(s) == IF s.id \in DOMAIN rows THEN 200 ELSE 404

DashboardRoutes(k) ==
  LET s == calls[k]
  IN  CASE s.kind = "createDashboard" -> relay(k, <<"dashboard", "create">>, createDashboard(s))
        [] s.kind = "deleteDashboard" -> relay(k, <<"dashboard", "delete">>, deleteDashboard(s))
        [] OTHER -> relay(k, <<"dashboard", "update">>, updateDashboard(s))

-----------------------------------------------------------------------------
(* The detail page. *)

DetailLoader == Restrict(rows, {Dash} \cap DOMAIN rows)

upsertPanel(layout, id, v) == [layout EXCEPT ![id] = v]
removePanelById(layout, id) == [layout EXCEPT ![id] = NoPanel]
LayoutOf(t) == Restrict(tab[t].data[Dash].f, PanelId)

\* The panel dialog to add (id 0) or to edit, the confirmation of a removal, the dialog
\* of name and description.
DashboardDetail(t, kind, id) ==
  /\ Dash \in DOMAIN tab[t].data
  /\ uiCan(tab[t].role, <<"dashboard", "update">>)
  /\ \/ kind = "panel" /\ id \in {0} \cup PanelsOf(tab[t].data[Dash].f)
     \/ kind = "removePanel" /\ id \in PanelsOf(tab[t].data[Dash].f)
     \/ kind = "rename" /\ id = 0
  /\ Opens(t, kind, id, NoRows)

\* An id no row, page, dialog or call knows.
newPanelId(id) ==
  /\ Dash \in DOMAIN rows => id \notin PanelsOf(rows[Dash].f) \cup PanelsOf(wanted[Dash])
  /\ \A u \in DOMAIN tab : /\ tab[u].dialog.id # id
                           /\ \A d \in {tab[u].data, tab[u].fresh.data} :
                                Dash \in DOMAIN d => id \notin PanelsOf(d[Dash].f)
  /\ \A k \in DOMAIN calls :
       (calls[k].at = "sent" /\ calls[k].op = "update") => id \notin DOMAIN calls[k].asked

PanelDialog(t, id, v) ==
  /\ Dash \in DOMAIN tab[t].data
  /\ IF tab[t].dialog.id = 0 THEN newPanelId(id) ELSE id = tab[t].dialog.id
  /\ Submit(t, "panel", [op |-> "update", id |-> Dash, base |-> tab[t].data[Dash].lv,
                         asked |-> At(id, v), patch |-> upsertPanel(LayoutOf(t), id, v)])

onRemovePanel(t) ==
  /\ Dash \in DOMAIN tab[t].data
  /\ LET id == tab[t].dialog.id
     IN  Confirm(t, "removePanel", [op |-> "update", id |-> Dash, base |-> tab[t].data[Dash].lv,
                                    asked |-> At(id, NoPanel),
                                    patch |-> removePanelById(LayoutOf(t), id)])

EditDashboardDialog(t, n) ==
  Submit(t, "rename", [op |-> "update", id |-> Dash, base |-> 0,
                       asked |-> [name |-> n], patch |-> [name |-> n]])

DetailPage(t) ==
  \/ \E kind \in {"panel", "removePanel", "rename"}, id \in {0} \cup PanelId : DashboardDetail(t, kind, id)
  \/ \E id \in PanelId, v \in PanelValue : PanelDialog(t, id, v)
  \/ onRemovePanel(t)
  \/ \E n \in Name : EditDashboardDialog(t, n)
  \/ LoaderReads(t, DetailLoader, Dash \in DOMAIN rows) \/ LoaderReads(t, NoRows, FALSE)
  \/ LoaderArrives(t, tab[t].dialog.of)
  \/ Refresh(t, DetailLoader)

-----------------------------------------------------------------------------
(* The list page. *)

ListLoader == Restrict(rows, OfKind("dashboard"))

DashboardList(t, kind, id) ==
  /\ \/ kind = "createDashboard" /\ id = 0 /\ uiCan(tab[t].role, <<"dashboard", "create">>)
     \/ kind = "deleteDashboard" /\ id \in DOMAIN tab[t].data /\ uiCan(tab[t].role, <<"dashboard", "delete">>)
  /\ Opens(t, kind, id, NoRows)

CreateDashboardDialog(t, n) ==
  Submit(t, "createDashboard", [op |-> "insert", row |-> Dashboard(n, Layout(NoRows))])

onDelete(t) == Confirm(t, "deleteDashboard", [op |-> "delete", id |-> tab[t].dialog.id])

ListPage(t) ==
  \/ \E id \in {0} \cup DOMAIN tab[t].data, kind \in {"createDashboard", "deleteDashboard"} :
       DashboardList(t, kind, id)
  \/ \E n \in Name : CreateDashboardDialog(t, n)
  \/ onDelete(t)
  \/ LoaderReads(t, ListLoader, TRUE) \/ LoaderReads(t, NoRows, FALSE)
  \/ LoaderArrives(t, tab[t].dialog.of)
  \/ Refresh(t, ListLoader)
=============================================================================
