----------------------------- MODULE AlertRules -----------------------------
(***************************************************************************)
(* Alert rules as they are configured: the alerts page with its form,      *)
(* AlertRuleService, and clients of the API, which alone can choose a      *)
(* saved query.  The evaluator runs a rule's inline query if it has one,   *)
(* else the saved query.                                                   *)
(*                                                                         *)
(* "cond" stands for comparator, threshold, window, severity, enabled and  *)
(* channels, "query" for the inline query, "saved" for the saved query.    *)
(***************************************************************************)
EXTENDS ConsolePage

CONSTANTS RuleName, Cond, Query, SavedQuery

None == "none"
Blank == "blank"   \* what the form holds for no inline query
RuleForm == {"name", "cond", "query"}
Rule(n, c, q, s) == Row("rule", [name |-> n, cond |-> c, query |-> q, saved |-> s])

RuleKinds == {"createRule", "editRule", "deleteRule"}

hasInlineQuery(q) == q # None

-----------------------------------------------------------------------------
(* The contract, AlertRuleService, and the table's constraints. *)

\* The request schemas: exactly one source to create; an update may empty the inline
\* query if it names the saved query, be it to unset it.
createRequestOK(f) == (f["saved"] # None) # hasInlineQuery(f["query"])
updateRequestOK(patch) ==
  "query" \in DOMAIN patch => hasInlineQuery(patch["query"]) \/ "saved" \in DOMAIN patch

assertQuerySource(f) == (f["saved"] # None) # hasInlineQuery(f["query"])

RuleNameTaken(id, n) == \E j \in OfKind("rule") \ {id} : rows[j].f["name"] = n

createRule(f) ==
  IF ~createRequestOK(f) \/ ~assertQuerySource(f) THEN 400
  ELSE IF RuleNameTaken(0, f["name"]) THEN 409 ELSE 200

\* An emptied inline query needs a saved query in the same patch.
emptiesQuery(patch) ==
  /\ "query" \in DOMAIN patch /\ ~hasInlineQuery(patch["query"])
  /\ ("saved" \in DOMAIN patch => patch["saved"] = None)

\* Only the fields given are set; the table refuses a rule left without a source (500).
updateRule(id, patch) ==
  IF ~updateRequestOK(patch) \/ emptiesQuery(patch) THEN 400
  ELSE IF id \notin DOMAIN rows THEN 404
  ELSE IF "name" \in DOMAIN patch /\ RuleNameTaken(id, patch["name"]) THEN 409
  ELSE IF LET f == Over(patch, rows[id].f) IN f["saved"] = None /\ f["query"] = None THEN 500
  ELSE 200

deleteRule(id) == IF id \in DOMAIN rows THEN 200 ELSE 404

AlertRoutes(k) ==
  LET s == calls[k]
  IN  CASE s.kind = "createRule" -> relay(k, <<"alert", "create">>, createRule(s.row.f))
        [] s.kind = "editRule" -> relay(k, <<"alert", "update">>, updateRule(s.id, s.patch))
        [] s.kind = "deleteRule" -> relay(k, <<"alert", "delete">>, deleteRule(s.id))
        [] OTHER -> FALSE

\* A tenant admin's own client patches the source of a rule.
apiUpdateRule(id, patch) ==
  /\ made < MaxCalls /\ made' = made + 1
  /\ updateRule(id, patch) = 200
  /\ rows' = [rows EXCEPT ![id].f = Over(patch, @),
                          ![id].lv = IF DOMAIN patch \cap RuleForm = {} THEN @ ELSE @ + 1]
  /\ wanted' = [wanted EXCEPT ![id] = Over(patch, @)]
  /\ seen' = [seen EXCEPT !.changed = @ \cup {"api"}]
  /\ UNCHANGED <<tab, calls>>

-----------------------------------------------------------------------------
(* The alerts page. *)

AlertsLoader == Restrict(rows, OfKind("rule"))

\* A rule on a saved query cannot be edited here.
AlertManager(t, kind, id) ==
  /\ \/ kind = "createRule" /\ id = 0 /\ uiCan(tab[t].role, <<"alert", "create">>)
     \/ /\ kind = "editRule" /\ id \in DOMAIN tab[t].data /\ tab[t].data[id].f["saved"] = None
        /\ uiCan(tab[t].role, <<"alert", "update">>)
     \/ kind = "deleteRule" /\ id \in DOMAIN tab[t].data /\ uiCan(tab[t].role, <<"alert", "delete">>)
  /\ Opens(t, kind, id, IF kind = "editRule" THEN tab[t].data[id] ELSE NoRows)

\* The form's body: every field but the saved query, as the rule was when the form was
\* opened or as the user changed it.
valuesFromRule(rule) ==
  [x \in RuleForm |-> IF rule.f[x] = None THEN Blank ELSE rule.f[x]]
assembleAlertRuleBody(values) ==
  [x \in RuleForm |-> IF values[x] = Blank THEN None ELSE values[x]]
validateAlertRule(mode, body) ==
  IF mode = "createRule" THEN createRequestOK(Over([saved |-> None], body)) ELSE updateRequestOK(body)

AlertRuleFormDialog(t, values) ==
  LET dialog == tab[t].dialog
      body == assembleAlertRuleBody(values)
  IN  /\ dialog.kind \in {"createRule", "editRule"} /\ validateAlertRule(dialog.kind, body)
      /\ IF dialog.kind = "createRule"
         THEN Submit(t, "createRule", [op |-> "insert", row |-> Rule(body["name"], body["cond"], body["query"], None)])
         ELSE LET was == assembleAlertRuleBody(valuesFromRule(dialog.of))
              IN  Submit(t, "editRule",
                         [op |-> "update", id |-> dialog.id, base |-> dialog.of.lv, patch |-> body,
                          asked |-> Restrict(body, {x \in RuleForm : body[x] # was[x]})])

onDeleteRule(t) == Confirm(t, "deleteRule", [op |-> "delete", id |-> tab[t].dialog.id])

FormValues == [name : RuleName, cond : Cond, query : {Blank} \cup Query]

AlertsPage(t) ==
  \/ \E kind \in RuleKinds, id \in {0} \cup DOMAIN tab[t].data : AlertManager(t, kind, id)
  \/ \E values \in FormValues : AlertRuleFormDialog(t, values)
  \/ onDeleteRule(t)
  \/ LoaderReads(t, AlertsLoader, TRUE) \/ LoaderReads(t, NoRows, FALSE)
  \/ LoaderArrives(t, tab[t].dialog.of)
  \/ Refresh(t, AlertsLoader)

ApiClient ==
  \E id \in OfKind("rule"), s \in {None} \cup SavedQuery, q \in {None} \cup Query :
    \/ apiUpdateRule(id, [saved |-> s])
    \/ apiUpdateRule(id, [saved |-> s, query |-> q])

-----------------------------------------------------------------------------
\* The comment of assertQuerySource: a rule's source is exactly one of a saved query
\* and a non-empty inline query, "both-set is ambiguous".
OneQuerySource ==
  \A i \in OfKind("rule") : (rows[i].f["saved"] # None) # hasInlineQuery(rows[i].f["query"])
=============================================================================
