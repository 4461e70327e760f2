---------------------------- MODULE ConsolePage ----------------------------
(***************************************************************************)
(* What the console's pages have in common.  A page holds the rows its     *)
(* loader read.  A dialog, or a confirmation, of the page makes one call;  *)
(* the web app's server relays it to the control plane; on success the     *)
(* page closes the dialog and invalidates its loader.  Several tabs, of    *)
(* one person or of several, are open on the same rows.                    *)
(*                                                                         *)
(* A row is a function from fields to values.  An update writes the fields *)
(* of its patch.  The user asked to change some of these; a form that      *)
(* writes more than that writes the rest as it had loaded it.              *)
(***************************************************************************)
EXTENDS Integers, FiniteSets, Functions, Rbac

CONSTANTS
  Tab,
  MaxCalls       \* bound on the calls made

VARIABLES
  rows,    \* the tenant's tables: id -> kind, fields, version
  tab,     \* pages: kind, role of the token, sections that load; loader data, open
           \* dialog, call of its form, busy confirms, reload, secret shown
  calls,   \* calls without an answer, by number
  made,    \* number of calls made
  wanted,  \* history: the fields if every call had changed just what its user asked
  seen     \* history: see PageInit

pageVars == <<rows, tab, calls, made, wanted, seen>>

\* f, and g where f is not defined; the function of one argument.
Over(f, g) == [x \in DOMAIN f \cup DOMAIN g |-> IF x \in DOMAIN f THEN f[x] ELSE g[x]]
At(x, v) == [y \in {x} |-> v]

NoRows == [i \in {} |-> 0]
NoDialog == [kind |-> "none", id |-> 0, of |-> NoRows]
Revealing == {"issueKey", "createInvite"}
Confirms == {"removePanel", "deleteDashboard", "deleteUser", "revokeKey", "revokeInvite", "deleteRule"}
Row(kind, f) == [kind |-> kind, f |-> f, lv |-> 0]
OfKind(kind) == {i \in DOMAIN rows : rows[i].kind = kind}

PageTypeOK ==
  /\ DOMAIN tab \subseteq Tab /\ made <= MaxCalls /\ DOMAIN calls \subseteq 1..made
  /\ DOMAIN wanted = DOMAIN rows
  /\ \A i \in DOMAIN rows : DOMAIN wanted[i] = DOMAIN rows[i].f
  /\ \A t \in DOMAIN tab : /\ tab[t].form \in 0..made
                           /\ tab[t].reload \in {"none", "asked", "read"}
                           /\ \A kind \in Revealing : tab[t].shown[kind] \in 0..made
  /\ \A k \in DOMAIN calls : calls[k].at \in {"sent", "counted", "ok", "error", "thrown"}

-----------------------------------------------------------------------------
(* The control plane's statements on a row, and the web app's server. *)

\* The fields that the forms of a kind write together, whichever were changed: the
\* panels of a layout, a policy, a rule but for its saved query.
Together(kind, x) ==
  CASE kind = "dashboard" -> x # "name"
    [] kind = "policy" -> TRUE
    [] kind = "rule" -> x # "saved"
    [] OTHER -> FALSE

Whole(s) == s.op = "update" /\ \E x \in DOMAIN s.patch : Together(rows[s.id].kind, x)

Applied(k) ==
  LET s == calls[k]
  IN  CASE s.op = "insert" -> Over(rows, At(k, s.row))
        [] s.op = "delete" -> Restrict(rows, DOMAIN rows \ {s.id})
        [] s.op = "update" ->
             [rows EXCEPT ![s.id].f = Over(s.patch, @),
                          ![s.id].lv = IF Whole(s) THEN @ + 1 ELSE @]

Asked(k) ==
  LET s == calls[k]
  IN  CASE s.op = "insert" -> Over(wanted, At(k, s.row.f))
        [] s.op = "delete" -> Restrict(wanted, DOMAIN wanted \ {s.id})
        [] s.op = "update" -> [wanted EXCEPT ![s.id] = Over(s.asked, @)]

\* Computed from a row that has changed since.
Stale(s) == Whole(s) /\ s.base # rows[s.id].lv

mapAdminError(status) ==
  CASE status = 401 -> "unauthorized"
    [] status = 403 -> "forbidden"
    [] status \in 400..499 \ {401, 403} -> "invalid"
    [] OTHER -> "unavailable"

\* A lapsed session is a redirect thrown to the page; anything else is shown.
ensureSession(status) ==
  CASE status = 200 -> "ok"
    [] mapAdminError(status) = "unauthorized" -> "thrown"
    [] OTHER -> "error"

\* What the page is told.  A form treats a rejected call like one that failed.
Told(s, out) == IF out = "thrown" /\ s.kind \notin Confirms THEN "error" ELSE out

\* What is left of a call once the control plane is done with it.
AdminOutcome(s, at, applied) == [tab |-> s.tab, kind |-> s.kind, at |-> at, applied |-> applied]

\* The call is applied; the web app's server may not get to know.
Succeeds(k) ==
  LET s == calls[k]
  IN  /\ rows' = Applied(k) /\ wanted' = Asked(k)
      /\ \E out \in {"ok", "error", "thrown"} :
           calls' = [calls EXCEPT ![k] = AdminOutcome(s, Told(s, out), TRUE)]
      /\ seen' = [seen EXCEPT
           !.changed = IF Whole(s) THEN @ \cup {s.tab} ELSE @,
           !.stale = IF Stale(s) THEN @ \cup {s.tab} ELSE @,
           !.raced = @ \/ (s.kind = "createInvite" /\ s.counted # OfKind("invite"))]

\* The call is refused, or the token has expired, or the control plane is out of reach.
Refusals(status) == {status, 401, 503} \ {200}
Fails(k, status) ==
  LET s == calls[k]
  IN  /\ \E st \in Refusals(status) :
           calls' = [calls EXCEPT ![k] = AdminOutcome(s, Told(s, ensureSession(st)), FALSE)]
      /\ seen' = [seen EXCEPT !.denied = IF status = 403 THEN @ \cup {s.tab} ELSE @]
      /\ UNCHANGED <<rows, wanted>>

\* The guards of the route, then the service, whose verdict is the status.
relay(k, op, verdict) ==
  LET s == calls[k]
      status == IF can(tab[s.tab].role, op) THEN verdict ELSE 403
  IN  /\ s.at = IF s.kind = "createInvite" THEN "counted" ELSE "sent"
      /\ (status = 200 /\ Succeeds(k)) \/ Fails(k, status)
      /\ UNCHANGED <<tab, made>>

-----------------------------------------------------------------------------
(* The pages. *)

PageInit(entities, screen, data) ==
  /\ rows = entities
  /\ tab = [t \in DOMAIN screen |->
           [page |-> screen[t].page, role |-> screen[t].role, sections |-> screen[t].sections,
            data |-> data[t], dialog |-> NoDialog, form |-> 0, busy |-> {},
            reload |-> "none", fresh |-> [data |-> NoRows, up |-> TRUE],
            shown |-> [kind \in Revealing |-> 0]]]
  /\ calls = NoRows /\ made = 0
  /\ wanted = [i \in DOMAIN rows |-> rows[i].f]
  /\ seen = [changed |-> {},   \* tabs with an update of a whole form applied
             misled |-> {},    \* of these, tabs to which it was reported as failed
             early |-> {},     \* tabs used with an answer or a reload outstanding
             stale |-> {},     \* tabs with an update applied that was computed from an old row
             denied |-> {},    \* tabs refused for their role
             lost |-> {},      \* tabs that had a secret replaced before it was dismissed
             raced |-> FALSE]  \* an invite was stored between another's count and insert

Unanswered(t) == {k \in DOMAIN calls : calls[k].tab = t}
Hasty(t) == IF Unanswered(t) # {} \/ tab[t].reload # "none" THEN {t} ELSE {}

\* A revealed secret does not cover the page.
ModalFormsOnly(t) == tab[t].dialog = NoDialog

\* Dialogs are modal, a revealed secret's too.
Modal(t) == tab[t].dialog = NoDialog /\ \A x \in Revealing : tab[t].shown[x] = 0

\* Bounded: a dialog is opened only while a call is left for it to make.
Opens(t, kind, id, of) ==
  /\ Modal(t) /\ made < MaxCalls
  /\ tab' = [tab EXCEPT ![t].dialog = [kind |-> kind, id |-> id, of |-> of]]
  /\ seen' = [seen EXCEPT !.early = @ \cup Hasty(t)]
  /\ UNCHANGED <<rows, calls, made, wanted>>

\* Cancel and Escape work while a call is on its way.
Close(t) ==
  /\ tab[t].dialog # NoDialog
  /\ tab' = [tab EXCEPT ![t].dialog = NoDialog, ![t].form = 0]
  /\ UNCHANGED <<rows, calls, made, wanted, seen>>

Dismiss(t, kind) ==
  /\ tab[t].shown[kind] # 0
  /\ tab' = [tab EXCEPT ![t].shown[kind] = 0]
  /\ UNCHANGED <<rows, calls, made, wanted, seen>>

Call(t, s) ==
  /\ made < MaxCalls
  /\ made' = made + 1
  /\ calls' = Over(calls, At(made', Over([tab |-> t, kind |-> tab[t].dialog.kind, at |-> "sent"], s)))
  /\ seen' = [seen EXCEPT !.early = @ \cup Hasty(t)]
  /\ UNCHANGED <<rows, wanted>>

\* The button of a form is disabled while that form is submitting.
Submit(t, kind, s) ==
  /\ tab[t].dialog.kind = kind /\ tab[t].form = 0
  /\ Call(t, s)
  /\ tab' = [tab EXCEPT ![t].form = made']

\* The button of a confirmation is disabled while a call of it is on its way, also when
\* it has been opened again for another row.
Confirm(t, kind, s) ==
  /\ tab[t].dialog.kind = kind /\ kind \notin tab[t].busy
  /\ Call(t, s)
  /\ tab' = [tab EXCEPT ![t].busy = @ \cup {kind}]

\* Dialogs kept in one state variable of their component.
Slot(kind) ==
  CASE kind \in {"createUser", "editUser"} -> "user"
    [] kind \in {"createRule", "editRule"} -> "rule"
    [] OTHER -> kind

\* The page keeps what it had loaded.
InvalidateNever(ok, reload) == reload

\* router.invalidate, after a success only.
Invalidate(ok, reload) == IF ok THEN "asked" ELSE reload

\* Success closes the dialog of its slot, whatever that is open for by now, reveals what
\* was issued and invalidates the loader.  An error stays in its form or confirmation.
\* Nothing handles a rejected call: a form may submit again, a confirmation stays busy.
onAnswer(p, k) ==
  LET s == calls[k]
      ok == s.at = "ok"
      shut == ok /\ Slot(p.dialog.kind) = Slot(s.kind)
  IN  [p EXCEPT !.dialog = IF shut THEN NoDialog ELSE @,
                !.form = IF shut \/ @ = k THEN 0 ELSE @,
                !.busy = IF s.at = "thrown" THEN @ ELSE @ \ {s.kind},
                !.reload = Invalidate(ok, @),
                !.shown = IF ok /\ s.kind \in Revealing THEN [@ EXCEPT ![s.kind] = k] ELSE @]

answer(k) ==
  LET s == calls[k]
      t == s.tab
      ok == s.at = "ok"
  IN  /\ s.at \in {"ok", "error", "thrown"}
      /\ tab' = [tab EXCEPT ![t] = onAnswer(@, k)]
      /\ calls' = Restrict(calls, DOMAIN calls \ {k})
      /\ seen' = [seen EXCEPT
           !.misled = IF s.applied /\ ~ok /\ t \in seen.changed THEN @ \cup {t} ELSE @,
           !.lost = IF ok /\ s.kind \in Revealing /\ tab[t].shown[s.kind] # 0 THEN @ \cup {t} ELSE @]
      /\ UNCHANGED <<rows, made, wanted>>

\* Invalidated, the loader asks, and its answer replaces the page's data unless
\* a later invalidate has asked again.  A page without its row, or whose loader
\* failed, shows the error instead of its dialogs.
LoaderReads(t, data, up) ==
  /\ tab[t].reload = "asked"
  /\ tab' = [tab EXCEPT ![t].reload = "read", ![t].fresh = [data |-> data, up |-> up]]
  /\ UNCHANGED <<rows, calls, made, wanted, seen>>

LoaderArrives(t, of) ==
  /\ tab[t].reload = "read"
  /\ LET up == tab[t].fresh.up
     IN  tab' = [tab EXCEPT ![t].data = tab[t].fresh.data, ![t].reload = "none",
                            ![t].fresh = [data |-> NoRows, up |-> TRUE],
                            ![t].dialog = IF up THEN [@ EXCEPT !.of = of] ELSE NoDialog,
                            ![t].form = IF up THEN @ ELSE 0,
                            ![t].busy = IF up THEN @ ELSE {}]
  /\ UNCHANGED <<rows, calls, made, wanted, seen>>

\* The user loads the page again, with no call out.
Refresh(t, data) ==
  /\ Unanswered(t) = {} /\ tab[t].reload = "none"
  /\ tab' = [tab EXCEPT ![t].dialog = NoDialog, ![t].form = 0, ![t].busy = {}, ![t].data = data,
                        ![t].shown = [kind \in Revealing |-> 0]]
  /\ UNCHANGED <<rows, calls, made, wanted, seen>>

-----------------------------------------------------------------------------
\* Saving a form changes what its user changed.  Forms that write a whole layout,
\* policy or rule are the exception: they may put back older values, and only when
\* a save was computed from a row that had changed since.  A field that no form writes
\* along with others (a dashboard's name, a user's role and status, a key's or an
\* invite's status) is safe in any case.
EditsCompose ==
  \A i \in DOMAIN rows : \A x \in DOMAIN rows[i].f :
    rows[i].f[x] = wanted[i][x] \/ (Together(rows[i].kind, x) /\ seen.stale # {})

\* One editor who waits is safe: a save computed from an old row takes a change made
\* in another tab or through the API, a dialog of the same tab opened or submitted
\* before the answer to an earlier call and the reload that answer asks for, or a call
\* of the tab that was applied and reported as failed (the page then keeps its data).
StaleNeedsARace ==
  \A t \in seen.stale : t \in seen.early \cup seen.misled \/ seen.changed \ {t} # {}

\* A page offers what the control plane allows: the web app's copy of the matrix never
\* shows a button that is answered with 403.
OfferedIsAllowed == seen.denied = {}

\* A key's plaintext or an invite's link, shown once, is replaced on the page before it
\* was dismissed only by a second issue made while the first was not answered.
SecretStaysUp == seen.lost \subseteq seen.early
=============================================================================
