--------------------------- MODULE ConsoleProofs ---------------------------
(***************************************************************************)
(* The clients outside the pages and the pages themselves,                 *)
(* for any number of tabs, calls, rows and panels and any values:          *)
(* EditsCompose, StaleNeedsARace, OfferedIsAllowed, SecretStaysUp and      *)
(* CapYieldsOnlyToRaces.                                                   *)
(***************************************************************************)
EXTENDS ConsoleCallsProofs

\* Most steps are first-order: Zenon proves every leaf that names no other prover.
USE ZenonT(30)

-----------------------------------------------------------------------------
(* Invited persons and clients of the API *)

\* A write that nobody on a page made changes what it is meant to, and is a race for
\* every tab if it changes a field of a whole form.
LEMMA ElsewhereStep ==
  ASSUME ConsoleInv, NEW id \in DOMAIN rows, NEW patch, NEW lv \in Nat, Writes(id, patch, patch, lv),
         rows[id].lv <= lv, lv = rows[id].lv => \A x \in DOMAIN patch : ~Together(rows[id].kind, x),
         rows[id].kind = "rule" => \A x \in RuleForm : x \in DOMAIN patch => patch[x] # Blank,
         rows[id].kind = "invite" => DOMAIN patch = {"status"} /\ patch["status"] # "pending",
         calls' = calls, tab' = tab, made' \in Nat, made <= made',
         IsSeen(seen'), seen'.early = seen.early, seen'.misled = seen.misled, seen'.stale = seen.stale,
         seen'.denied = seen.denied, seen'.lost = seen.lost, seen'.raced = seen.raced,
         (seen'.changed = seen.changed /\ lv = rows[id].lv) \/ seen'.changed = seen.changed \cup {"api"}
  PROVE  ConsoleInv'
<1>1. /\ RowsInv /\ made \in Nat /\ DOMAIN calls \subseteq 1..made /\ DOMAIN tab \subseteq Tab
      /\ calls = [k \in DOMAIN calls |-> calls[k]]
      /\ EditsCompose /\ StaleNeedsARace /\ OfferedIsAllowed /\ SecretStaysUp
  BY DEF ConsoleInv
<1>2. DOMAIN calls \subseteq 1..made' /\ \A i \in Nat : i <= made => i <= made'
  BY ONLY SMTT(30), <1>1, made' \in Nat, made <= made'
<1>3. \A i : Born(i) => Born(i)'
  BY <1>2 DEF Born
<1>4. /\ RowsMove /\ RowsInv' /\ Pending' \subseteq Pending
      /\ \A i \in Pending' : rows'[i].f["email"] = rows[i].f["email"]
  BY <1>1, <1>3, WriteMoves
<1>5. CallsMove
  BY <1>1 DEF CallsMove
<1>6. ASSUME NEW t \in DOMAIN tab
      PROVE  NoRace(t)'
  <2>1. CASE seen'.changed = seen.changed /\ lv = rows[id].lv
    <3>1. \A i \in DOMAIN rows' : Born(i) => rows'[i].lv = rows[i].lv
      BY <2>1 DEF Writes
    <3> QED BY <1>4, <1>5, <2>1, <3>1, NoRaceStands
  <2>2. CASE seen'.changed = seen.changed \cup {"api"}
    <3>1. "api" # t
      BY <1>1, ConsoleAssumption
    <3>2. Exempt(t)'
      BY <2>2, <3>1 DEF Exempt
    <3> QED BY <3>2 DEF NoRace
  <2> QED BY <2>1, <2>2
<1>7. EditsCompose'
  <2>1. PICK r, F : r = rows[id] /\ F = FieldsOf(r.kind)
    OBVIOUS
  <2>2. /\ DOMAIN rows' = DOMAIN rows /\ (\A i \in DOMAIN rows : i # id => rows'[i] = rows[i] /\ wanted'[i] = wanted[i])
        /\ rows'[id].kind = r.kind /\ DOMAIN rows'[id].f = F
        /\ \A x \in F : /\ rows'[id].f[x] = IF x \in DOMAIN patch THEN patch[x] ELSE r.f[x]
                        /\ wanted'[id][x] = IF x \in DOMAIN patch THEN patch[x] ELSE wanted[id][x]
    BY <2>1 DEF Writes
  <2>3. DOMAIN r.f = F
    BY <1>1, <2>1 DEF RowsInv, RowFits
  <2>4. \A x \in F : r.f[x] = wanted[id][x] \/ (Together(r.kind, x) /\ seen.stale # {})
    BY <1>1, <2>1, <2>3 DEF EditsCompose
  <2>5. ASSUME NEW i \in DOMAIN rows, i # id, NEW x \in DOMAIN rows'[i].f
        PROVE  rows'[i].f[x] = wanted'[i][x] \/ (Together(rows'[i].kind, x) /\ seen'.stale # {})
    <3>1. rows'[i] = rows[i] /\ wanted'[i] = wanted[i]
      BY <2>2, <2>5
    <3> QED BY <1>1, <2>5, <3>1 DEF EditsCompose
  <2>6. \A x \in DOMAIN rows'[id].f : rows'[id].f[x] = wanted'[id][x] \/ (Together(rows'[id].kind, x) /\ seen'.stale # {})
    <3> SUFFICES ASSUME NEW x \in F PROVE rows'[id].f[x] = wanted'[id][x] \/ (Together(r.kind, x) /\ seen.stale # {})
      BY <2>2
    <3> QED BY ONLY ZenonT(30), <2>2, <2>4, x \in F
  <2> QED BY ONLY ZenonT(30), <2>2, <2>5, <2>6 DEF EditsCompose
<1>8. StaleNeedsARace'
  <2>1. seen.changed \subseteq seen'.changed
    OBVIOUS
  <2> QED BY <1>1, <2>1 DEF StaleNeedsARace
<1>9. OfferedIsAllowed' /\ SecretStaysUp'
  BY <1>1 DEF OfferedIsAllowed, SecretStaysUp
<1>10. CapYieldsOnlyToRaces'
  BY <1>4, CapStands
<1> QED BY <1>2, <1>4, <1>5, <1>6, <1>7, <1>8, <1>9, <1>10, TablesStep

\* An invite is consumed by a sign-in (invite-repository.ts:78-101).
LEMMA ConsumeInviteStep ==
  ASSUME ConsoleInv, NEW i \in DOMAIN rows, consumeInvite(i)
  PROVE  ConsoleInv'
<1>1. PICK r, w : r = rows[i] /\ w = wanted[i]
  OBVIOUS
<1>2. r.kind = "invite" /\ RowsInv /\ IsSeen(seen) /\ made \in Nat
  BY <1>1 DEF consumeInvite, Pending, OfKind, ConsoleInv
<1>3. FieldsOf(r.kind) = {"email", "status"}
  BY <1>2 DEF FieldsOf
<1>4. /\ DOMAIN r = {"kind", "f", "lv"} /\ r.lv \in Nat /\ r.f = [x \in {"email", "status"} |-> r.f[x]]
      /\ w = [x \in {"email", "status"} |-> w[x]] /\ DOMAIN wanted = DOMAIN rows
      /\ rows = [j \in DOMAIN rows |-> rows[j]]
  BY <1>1, <1>2, <1>3 DEF RowsInv, RowFits
<1>5. PICK patch : patch = At("status", "consumed")
  OBVIOUS
<1>6. DOMAIN patch = {"status"} /\ patch["status"] = "consumed"
  BY <1>5 DEF At
<1>7. Writes(i, patch, patch, r.lv)
  <2>1. /\ DOMAIN rows' = DOMAIN rows /\ rows' = [j \in DOMAIN rows' |-> rows'[j]]
        /\ (\A j \in DOMAIN rows : j # i => rows'[j] = rows[j]) /\ rows'[i] = [r EXCEPT !.f = [r.f EXCEPT !["status"] = "consumed"]]
    <3>1. rows' = [rows EXCEPT ![i] = [r EXCEPT !.f = [r.f EXCEPT !["status"] = "consumed"]]]
      BY ONLY ZenonT(30), <1>1, consumeInvite(i) DEF consumeInvite
    <3> QED BY ONLY ZenonT(30), <1>4, <3>1, i \in DOMAIN rows
  <2>2. /\ wanted' = [j \in DOMAIN rows' |-> wanted'[j]] /\ (\A j \in DOMAIN rows : j # i => wanted'[j] = wanted[j])
        /\ wanted'[i] = [w EXCEPT !["status"] = "consumed"]
    <3>1. wanted' = [wanted EXCEPT ![i] = [w EXCEPT !["status"] = "consumed"]]
      BY ONLY ZenonT(30), <1>1, consumeInvite(i) DEF consumeInvite
    <3>2. /\ wanted' = [j \in DOMAIN wanted |-> wanted'[j]] /\ (\A j \in DOMAIN wanted : j # i => wanted'[j] = wanted[j])
          /\ i \in DOMAIN wanted => wanted'[i] = [w EXCEPT !["status"] = "consumed"]
      BY ONLY ZenonT(30), <3>1
    <3> QED BY <1>4, <2>1, <3>2
  <2>3. /\ DOMAIN rows'[i] = {"kind", "f", "lv"} /\ rows'[i].kind = r.kind /\ rows'[i].lv = r.lv
        /\ rows'[i].f = [r.f EXCEPT !["status"] = "consumed"]
    BY ONLY ZenonT(30), <1>4, <2>1
  <2>4. /\ rows'[i].f = [x \in {"email", "status"} |-> rows'[i].f[x]]
        /\ rows'[i].f["status"] = "consumed" /\ rows'[i].f["email"] = r.f["email"]
    BY ONLY ZenonT(30), <1>4, <2>3
  <2>5. /\ wanted'[i] = [x \in {"email", "status"} |-> wanted'[i][x]]
        /\ wanted'[i]["status"] = "consumed" /\ wanted'[i]["email"] = w["email"]
    BY ONLY ZenonT(30), <1>4, <2>2
  <2>6. \A x \in {"email", "status"} :
          /\ rows'[i].f[x] = IF x \in DOMAIN patch THEN patch[x] ELSE r.f[x]
          /\ wanted'[i][x] = IF x \in DOMAIN patch THEN patch[x] ELSE w[x]
    BY ONLY ZenonT(30), <1>6, <2>4, <2>5
  <2>7. FieldsOf(rows[i].kind) = {"email", "status"} /\ rows'[i].kind = rows[i].kind
    BY ONLY ZenonT(30), <1>1, <1>3, <2>3
  <2>8. \A x \in FieldsOf(rows[i].kind) :
          /\ rows'[i].f[x] = IF x \in DOMAIN patch THEN patch[x] ELSE rows[i].f[x]
          /\ wanted'[i][x] = IF x \in DOMAIN patch THEN patch[x] ELSE wanted[i][x]
    BY ONLY ZenonT(30), <1>1, <2>6, <2>7
  <2>9. /\ rows'[i].f = [x \in FieldsOf(rows[i].kind) |-> rows'[i].f[x]]
        /\ wanted'[i] = [x \in FieldsOf(rows[i].kind) |-> wanted'[i][x]]
    BY ONLY ZenonT(30), <2>4, <2>5, <2>7
  <2>10. /\ DOMAIN rows' = DOMAIN rows /\ rows' = [j \in DOMAIN rows' |-> rows'[j]]
         /\ wanted' = [j \in DOMAIN rows' |-> wanted'[j]]
         /\ \A j \in DOMAIN rows : j # i => rows'[j] = rows[j] /\ wanted'[j] = wanted[j]
         /\ DOMAIN rows'[i] = {"kind", "f", "lv"} /\ rows'[i].lv = r.lv
    BY ONLY ZenonT(30), <2>1, <2>2, <2>3
  <2> QED BY ONLY ZenonT(30), <2>7, <2>8, <2>9, <2>10 DEF Writes
<1>8. /\ calls' = calls /\ tab' = tab /\ made' = made /\ seen' = seen
  BY DEF consumeInvite
<1>9. r.lv <= r.lv /\ made <= made
  BY SMTT(30), <1>2, <1>4
<1>10. \A x \in DOMAIN patch : ~Together(r.kind, x)
  BY <1>2 DEF Together
<1> QED BY <1>1, <1>2, <1>4, <1>6, <1>7, <1>8, <1>9, <1>10, ElsewhereStep

\* A client of the API patches a rule.
LEMMA ApiUpdateStep ==
  ASSUME ConsoleInv, NEW id \in OfKind("rule"), NEW patch, apiUpdateRule(id, patch),
         DOMAIN patch \subseteq {"saved", "query"}, "query" \in DOMAIN patch => patch["query"] # Blank
  PROVE  ConsoleInv'
<1>1. id \in DOMAIN rows /\ rows[id].kind = "rule" /\ RowsInv /\ made \in Nat /\ IsSeen(seen)
  BY DEF OfKind, ConsoleInv
<1>2. DOMAIN rows[id] = {"kind", "f", "lv"} /\ rows[id].lv \in Nat
  BY <1>1 DEF RowsInv, RowFits
<1>3. PICK lv : lv = IF DOMAIN patch \cap RuleForm = {} THEN rows[id].lv ELSE rows[id].lv + 1
  OBVIOUS
<1>4. Statement(id, patch, patch, lv)
  <2>1. rows' = [rows EXCEPT ![id].f = Over(patch, @), ![id].lv = IF DOMAIN patch \cap RuleForm = {} THEN @ ELSE @ + 1]
    BY ONLY ZenonT(30), apiUpdateRule(id, patch) DEF apiUpdateRule
  <2>2. [rows EXCEPT ![id].f = Over(patch, @)][id].lv = rows[id].lv
    BY ONLY ZenonT(30), <1>1, <1>2
  <2>3. rows' = [rows EXCEPT ![id].f = Over(patch, @), ![id].lv = lv]
    BY ONLY ZenonT(30), <1>3, <2>1, <2>2
  <2>4. wanted' = [wanted EXCEPT ![id] = Over(patch, @)]
    BY ONLY ZenonT(30), apiUpdateRule(id, patch) DEF apiUpdateRule
  <2> QED BY <2>3, <2>4 DEF Statement
<1>5. DOMAIN patch \subseteq FieldsOf(rows[id].kind)
  BY <1>1 DEF FieldsOf
<1>6. Writes(id, patch, patch, lv)
  BY ONLY ZenonT(30), <1>1, <1>4, <1>5, WritesIs
<1>7. lv \in Nat /\ rows[id].lv <= lv /\ (lv = rows[id].lv => DOMAIN patch \cap RuleForm = {})
  BY ONLY SMTT(30), <1>2, <1>3
<1>8. lv = rows[id].lv => \A x \in DOMAIN patch : ~Together(rows[id].kind, x)
  BY <1>1, <1>7 DEF RuleForm, Together
<1>9. \A x \in RuleForm : x \in DOMAIN patch => patch[x] # Blank
  BY DEF RuleForm
<1>10. /\ calls' = calls /\ tab' = tab /\ made' = made + 1 /\ seen' = [seen EXCEPT !.changed = @ \cup {"api"}]
  BY ONLY ZenonT(30), apiUpdateRule(id, patch) DEF apiUpdateRule
<1>11. made' \in Nat /\ made <= made'
  BY ONLY SMTT(30), <1>1, <1>10
<1>12. /\ IsSeen(seen') /\ seen'.early = seen.early /\ seen'.misled = seen.misled /\ seen'.stale = seen.stale
       /\ seen'.denied = seen.denied /\ seen'.lost = seen.lost /\ seen'.raced = seen.raced
       /\ seen'.changed = seen.changed \cup {"api"}
  BY ONLY ZenonT(30), <1>1, <1>10 DEF IsSeen
<1>13. rows[id].kind # "invite"
  BY <1>1
<1> QED BY ONLY ZenonT(30), ConsoleInv, <1>1, <1>6, <1>7, <1>8, <1>9, <1>10, <1>11, <1>12, <1>13, ElsewhereStep

\* A client of the API keeps the invariant.
LEMMA ApiClientStep ==
  ASSUME ConsoleInv, ApiClient
  PROVE  ConsoleInv'
<1>1. PICK id \in OfKind("rule"), s \in {None} \cup SavedQuery, q \in {None} \cup Query :
        apiUpdateRule(id, [saved |-> s]) \/ apiUpdateRule(id, [saved |-> s, query |-> q])
  BY DEF ApiClient
<1>2. q # Blank
  BY ConsoleAssumption DEF None, Blank
<1>3. CASE apiUpdateRule(id, [saved |-> s])
  <2>1. PICK patch : patch = [saved |-> s]
    OBVIOUS
  <2>2. DOMAIN patch = {"saved"}
    BY <2>1
  <2> QED BY <1>3, <2>1, <2>2, ApiUpdateStep
<1>4. CASE apiUpdateRule(id, [saved |-> s, query |-> q])
  <2>1. PICK patch : patch = [saved |-> s, query |-> q]
    OBVIOUS
  <2>2. DOMAIN patch = {"saved", "query"} /\ patch["query"] = q
    BY <2>1
  <2> QED BY <1>2, <1>4, <2>1, <2>2, ApiUpdateStep
<1> QED BY <1>1, <1>3, <1>4

-----------------------------------------------------------------------------
(* What the pages' steps have in common *)

\* A page opens what the matrix allows, for rows it has.
LEMMA OpenedIs ==
  ASSUME NEW role, NEW kind \in CallKinds, NEW id, NEW of, NEW op, op = OpOf(kind), uiCan(role, op),
         kind \in Deletes \cup {"editUser", "revokeKey", "revokeInvite", "editRule"} => About(kind, id),
         kind = "panel" => id \in {0} \cup PanelId, kind = "removePanel" => id \in PanelId,
         kind = "retention" => Copy(Policy, of), kind = "editRule" => Copy(id, of) /\ of.kind = "rule"
  PROVE  DialogInv(role, [kind |-> kind, id |-> id, of |-> of])
<1>1. PICK d : d = [kind |-> kind, id |-> id, of |-> of]
  OBVIOUS
<1>2. d.kind = kind /\ d.id = id /\ d.of = of /\ IsDialog(d)
  BY <1>1 DEF IsDialog
<1>3. can(role, OpOf(kind)) /\ kind # "none"
  BY UiWithinMatrix DEF CallKinds, Creates, Deletes, Updates
<1>4. DialogInv(role, d)
  BY <1>2, <1>3 DEF DialogInv
<1> QED BY <1>1, <1>4

\* The rows of a kind that a loader lists.
LEMMA ListedIs ==
  ASSUME NEW page, NEW data, Held(page, data), NEW i \in DOMAIN data, NEW kind, data[i].kind = KindOf(kind)
  PROVE  About(kind, i)
BY DEF Held, Copy, About

\* A page's loader keeps the invariant.
LEMMA LoadStep ==
  ASSUME ConsoleInv, NEW t \in DOMAIN tab, NEW S \in SUBSET DOMAIN rows,
         tab[t].page = "detail" => S \subseteq {Dash},
         tab[t].page = "list" => \A i \in S : rows[i].kind = "dashboard",
         tab[t].page = "alerts" => \A i \in S : rows[i].kind = "rule",
         NEW data, data = Restrict(rows, S), NEW up,
         \/ LoaderReads(t, data, up) \/ LoaderReads(t, NoRows, FALSE)
         \/ LoaderArrives(t, tab[t].dialog.of) \/ Refresh(t, data)
  PROVE  ConsoleInv'
<1>1. PICK page : page = tab[t].page
  OBVIOUS
<1>2. RowsInv
  BY DEF ConsoleInv
<1>3. Held(page, data) /\ UpToDate(data)
  BY <1>1, <1>2, Loaded
<1>4. Held(page, NoRows) /\ UpToDate(NoRows)
  BY LoadedNothing
<1> QED BY <1>1, <1>3, <1>4, LoaderReadsStep, LoaderArrivesStep, RefreshStep

\* The calls of forms and confirmations.
Sent(c, t, kind, s) ==
  /\ c.tab = t /\ c.kind = kind /\ c.at = "sent"
  /\ "op" \in DOMAIN s => c.op = s.op
  /\ "row" \in DOMAIN s => c.row = s.row
  /\ "id" \in DOMAIN s => c.id = s.id
  /\ "base" \in DOMAIN s => c.base = s.base
  /\ "asked" \in DOMAIN s => c.asked = s.asked
  /\ "patch" \in DOMAIN s => c.patch = s.patch
  /\ DOMAIN c = {"tab", "kind", "at"} \cup DOMAIN s

\* A call that is made, field by field.
LEMMA CallIs ==
  ASSUME NEW t, NEW kind, NEW s, NEW c, Sends(c, t, kind, s)
  PROVE  Sent(c, t, kind, s)
<1>1. PICK h : h = [tab |-> t, kind |-> kind, at |-> "sent"]
  OBVIOUS
<1>2. DOMAIN h = {"tab", "kind", "at"} /\ h.tab = t /\ h.kind = kind /\ h.at = "sent"
  BY <1>1
<1>3. /\ DOMAIN c = DOMAIN h \cup DOMAIN s /\ (\A x \in DOMAIN h : c[x] = h[x])
      /\ \A x \in DOMAIN s : x \notin DOMAIN h => c[x] = s[x]
  BY ONLY ZenonT(30), <1>1, Sends(c, t, kind, s) DEF Sends, Over
<1> QED BY ONLY ZenonT(30), <1>2, <1>3 DEF Sent

\* A dialog or button that creates a row.
LEMMA CreatesStep ==
  ASSUME ConsoleInv, NEW t \in DOMAIN tab, NEW kind \in Creates, NEW s, Submit(t, kind, s),
         {"op", "row"} \subseteq DOMAIN s, s.op = "insert", \A n \in Nat : RowFits(n, s.row),
         s.row.kind = KindOf(kind), kind = "createInvite" => DOMAIN s = {"op", "row", "counted"}
  PROVE  ConsoleInv'
<1>1. PICK c : Sends(c, t, kind, s)
  BY DEF Sends
<1>2. /\ c.tab = t /\ c.kind = kind /\ c.at = "sent" /\ c.op = "insert" /\ c.row = s.row
      /\ DOMAIN c = {"tab", "kind", "at"} \cup DOMAIN s
  <2>1. Sent(c, t, kind, s)
    BY <1>1, CallIs
  <2> QED BY <2>1 DEF Sent
<1>3. tab[t].dialog.kind = kind
  BY DEF Submit
<1>4. kind \in CallKinds /\ kind \notin Deletes /\ kind \notin Updates
  BY DEF CallKinds, Creates, Deletes, Updates
<1>5. kind = "createInvite" => DOMAIN c = {"tab", "kind", "at", "op", "row", "counted"}
  BY <1>2
<1>6. PICK n : n = made + 1
  OBVIOUS
<1>7. n \in Nat
  BY SMTT(30), <1>6 DEF ConsoleInv
<1>8. Fits(t, n, c)
  BY <1>2, <1>3, <1>4, <1>5, <1>7 DEF Fits
<1> QED BY <1>1, <1>6, <1>8, MakesCall

\* A confirmation that deletes a row.
LEMMA DeletesStep ==
  ASSUME ConsoleInv, NEW t \in DOMAIN tab, NEW kind \in Deletes, NEW s, Confirm(t, kind, s),
         {"op", "id"} \subseteq DOMAIN s, s.op = "delete", s.id = tab[t].dialog.id
  PROVE  ConsoleInv'
<1>1. PICK c : Sends(c, t, kind, s)
  BY DEF Sends
<1>2. c.tab = t /\ c.kind = kind /\ c.at = "sent" /\ c.op = "delete" /\ c.id = tab[t].dialog.id
  <2>1. Sent(c, t, kind, s)
    BY <1>1, CallIs
  <2> QED BY <2>1 DEF Sent
<1>3. tab[t].dialog.kind = kind
  BY DEF Confirm
<1>4. kind \in CallKinds /\ kind \notin Creates /\ kind \notin Updates /\ kind # "createInvite"
  BY DEF CallKinds, Creates, Deletes, Updates
<1>5. About(kind, tab[t].dialog.id)
  BY <1>3, TabOf DEF DialogInv
<1>6. PICK n : n = made + 1
  OBVIOUS
<1>7. Fits(t, n, c)
  BY <1>2, <1>3, <1>4, <1>5 DEF Fits
<1> QED BY <1>1, <1>6, <1>7, MakesCall

\* A form or confirmation that changes a row.
LEMMA UpdatesStep ==
  ASSUME ConsoleInv, NEW t \in DOMAIN tab, NEW kind \in Updates, NEW s, Submit(t, kind, s) \/ Confirm(t, kind, s),
         NEW c, Sends(c, t, kind, s), PatchFits(c),
         Current(tab[t]) /\ c.id \in DOMAIN rows =>
           \A x \in DOMAIN c.patch : Together(rows[c.id].kind, x) => c.base = rows[c.id].lv
  PROVE  ConsoleInv'
<1>1. c.tab = t /\ c.kind = kind /\ c.at = "sent"
  <2>1. Sent(c, t, kind, s)
    BY CallIs
  <2> QED BY <2>1 DEF Sent
<1>2. tab[t].dialog.kind = kind
  BY DEF Submit, Confirm
<1>3. kind \in CallKinds /\ kind \notin Creates /\ kind \notin Deletes /\ kind # "createInvite"
  BY DEF CallKinds, Creates, Deletes, Updates
<1>4. PICK n : n = made + 1
  OBVIOUS
<1>5. Fits(t, n, c)
  BY <1>1, <1>2, <1>3 DEF Fits
<1> QED BY <1>4, <1>5, MakesCall

UpdateFields == {"op", "id", "base", "asked", "patch"}

\* An update of what its user changed, and of fields that no form writes with others.
LEMMA PlainUpdateStep ==
  ASSUME ConsoleInv, NEW t \in DOMAIN tab, NEW kind \in {"rename", "editUser", "revokeKey", "revokeInvite"}, NEW s,
         Submit(t, kind, s) \/ Confirm(t, kind, s), DOMAIN s = UpdateFields, s.op = "update", About(kind, s.id),
         s.base = 0, NEW patch, s.asked = patch, s.patch = patch, patch = [x \in DOMAIN patch |-> patch[x]],
         DOMAIN patch \subseteq FieldsOf(KindOf(kind)), \A x \in DOMAIN patch : ~Together(KindOf(kind), x),
         kind = "revokeInvite" => DOMAIN patch = {"status"} /\ patch["status"] # "pending"
  PROVE  ConsoleInv'
<1>1. PICK c : Sends(c, t, kind, s)
  BY DEF Sends
<1>2. c.kind = kind /\ c.op = "update" /\ c.id = s.id /\ c.base = s.base /\ c.asked = patch /\ c.patch = patch
  <2>1. Sent(c, t, kind, s)
    BY <1>1, CallIs
  <2>2. c.kind = kind /\ c.op = s.op /\ c.id = s.id /\ c.base = s.base /\ c.asked = s.asked /\ c.patch = s.patch
    BY ONLY ZenonT(30), <2>1, DOMAIN s = UpdateFields DEF Sent, UpdateFields
  <2> QED BY <2>2
<1>3. RowsInv
  BY DEF ConsoleInv
<1>4. c.base \in Nat /\ (c.id \in DOMAIN rows => c.base <= rows[c.id].lv)
  <2>1. c.id \in DOMAIN rows => rows[c.id].lv \in Nat
    BY <1>3 DEF RowsInv, RowFits
  <2>2. c.base = 0
    BY <1>2
  <2> QED BY ONLY SMTT(30), <2>1, <2>2
<1>5. c.id \in DOMAIN rows => rows[c.id].kind = KindOf(kind)
  BY <1>2 DEF About
<1>6. kind \in Updates /\ kind # "editRule"
  BY DEF Updates
<1>7. /\ About(kind, s.id) /\ patch = [x \in DOMAIN patch |-> patch[x]] /\ DOMAIN patch \subseteq FieldsOf(KindOf(kind))
      /\ kind = "revokeInvite" => DOMAIN patch = {"status"} /\ patch["status"] # "pending"
  OBVIOUS
<1>8. PatchFits(c)
  BY ONLY ZenonT(30), <1>2, <1>4, <1>6, <1>7 DEF PatchFits
<1>9. Current(tab[t]) /\ c.id \in DOMAIN rows =>
        \A x \in DOMAIN c.patch : Together(rows[c.id].kind, x) => c.base = rows[c.id].lv
  BY <1>2, <1>5
<1> QED BY <1>1, <1>6, <1>8, <1>9, UpdatesStep

\* What a form that writes all its fields makes of a row: fields its user did not change
\* are as they were.
Filled(kind, of, s) ==
  /\ DOMAIN s = UpdateFields /\ s.op = "update" /\ s.base = of.lv
  /\ s.asked = [x \in DOMAIN s.asked |-> s.asked[x]] /\ s.patch = [x \in DOMAIN s.patch |-> s.patch[x]]
  /\ DOMAIN s.asked \subseteq DOMAIN s.patch /\ DOMAIN s.patch \subseteq FieldsOf(KindOf(kind))
  /\ \A x \in DOMAIN s.asked : s.asked[x] = s.patch[x]
  /\ \A x \in DOMAIN s.patch : Together(KindOf(kind), x)
  /\ \A x \in DOMAIN s.patch \ DOMAIN s.asked : s.patch[x] = of.f[x]
  /\ kind = "editRule" => \A x \in DOMAIN s.patch : s.patch[x] # Blank

\* A form that writes all it was filled with.
LEMMA WholeFormStep ==
  ASSUME ConsoleInv, NEW t \in DOMAIN tab, NEW kind \in {"panel", "removePanel", "retention", "editRule"}, NEW s,
         Submit(t, kind, s) \/ Confirm(t, kind, s), About(kind, s.id), NEW of, Copy(s.id, of), Filled(kind, of, s),
         Current(tab[t]) /\ s.id \in DOMAIN rows => of.lv = rows[s.id].lv
  PROVE  ConsoleInv'
<1>1. PICK c : Sends(c, t, kind, s)
  BY DEF Sends
<1>2. c.kind = kind /\ c.op = s.op /\ c.id = s.id /\ c.base = s.base /\ c.asked = s.asked /\ c.patch = s.patch
  <2>1. Sent(c, t, kind, s)
    BY <1>1, CallIs
  <2>2. DOMAIN s = UpdateFields
    BY DEF Filled
  <2> QED BY ONLY ZenonT(30), <2>1, <2>2 DEF Sent, UpdateFields
<1>3. PICK id, asked, patch : id = s.id /\ asked = s.asked /\ patch = s.patch
  OBVIOUS
<1>4. /\ asked = [x \in DOMAIN asked |-> asked[x]] /\ patch = [x \in DOMAIN patch |-> patch[x]]
      /\ DOMAIN asked \subseteq DOMAIN patch /\ DOMAIN patch \subseteq FieldsOf(KindOf(kind))
      /\ (\A x \in DOMAIN asked : asked[x] = patch[x]) /\ (\A x \in DOMAIN patch : Together(KindOf(kind), x))
      /\ (\A x \in DOMAIN patch \ DOMAIN asked : patch[x] = of.f[x])
      /\ kind = "editRule" => \A x \in DOMAIN patch : patch[x] # Blank
  BY <1>3 DEF Filled
<1>5. s.op = "update" /\ s.base = of.lv /\ of.lv \in Nat
  BY DEF Filled, Copy, RowFits
<1>6. id \in DOMAIN rows =>
        /\ rows[id].kind = KindOf(kind) /\ of.lv <= rows[id].lv
        /\ of.lv = rows[id].lv => \A x \in DOMAIN patch \ DOMAIN asked : patch[x] = rows[id].f[x]
  <2> SUFFICES ASSUME id \in DOMAIN rows
               PROVE  /\ rows[id].kind = KindOf(kind) /\ of.lv <= rows[id].lv
                      /\ of.lv = rows[id].lv => \A x \in DOMAIN patch \ DOMAIN asked : patch[x] = rows[id].f[x]
    OBVIOUS
  <2>1. /\ rows[id].kind = of.kind /\ of.lv <= rows[id].lv
        /\ of.lv = rows[id].lv => \A x \in FieldsOf(of.kind) : Together(of.kind, x) => of.f[x] = rows[id].f[x]
    BY <1>3 DEF Copy
  <2>2. rows[id].kind = KindOf(kind)
    BY <1>3 DEF About
  <2>3. of.lv = rows[id].lv =>
          \A x \in FieldsOf(KindOf(kind)) : Together(KindOf(kind), x) => of.f[x] = rows[id].f[x]
    <3>1. of.kind = KindOf(kind)
      BY ONLY ZenonT(30), <2>1, <2>2
    <3> QED BY ONLY ZenonT(30), <2>1, <3>1
  <2>4. ASSUME of.lv = rows[id].lv, NEW x \in DOMAIN patch \ DOMAIN asked
        PROVE  patch[x] = rows[id].f[x]
    BY ONLY ZenonT(30), <1>4, <2>3, <2>4
  <2> QED BY ONLY ZenonT(30), <2>1, <2>2, <2>4
<1>7. kind \in Updates /\ kind # "revokeInvite" /\ About(kind, id)
  BY <1>3 DEF Updates
<1>8. c.kind = kind /\ c.op = "update" /\ c.id = id /\ c.base = of.lv /\ c.asked = asked /\ c.patch = patch
  BY ONLY ZenonT(30), <1>2, <1>3, <1>5
<1>9. PatchFits(c)
  BY ONLY ZenonT(30), <1>4, <1>5, <1>6, <1>7, <1>8 DEF PatchFits
<1>10. Current(tab[t]) /\ c.id \in DOMAIN rows =>
         \A x \in DOMAIN c.patch : Together(rows[c.id].kind, x) => c.base = rows[c.id].lv
  BY <1>3, <1>8
<1> QED BY <1>1, <1>7, <1>9, <1>10, UpdatesStep

-----------------------------------------------------------------------------
(* The detail page *)

\* The dashboard a detail page shows.
LEMMA DashIs ==
  ASSUME RowsInv, NEW kind \in {"panel", "removePanel", "rename"}
  PROVE  About(kind, Dash) /\ KindOf(kind) = "dashboard" /\ kind \in Updates
<1>1. KindOf(kind) = "dashboard"
  BY DEF KindOf, DashboardKinds
<1>2. Born(Dash)
  BY ConsoleAssumption DEF Born
<1>3. Dash \in DOMAIN rows => rows[Dash].kind = "dashboard"
  BY DEF RowsInv, RowFits
<1> QED BY <1>1, <1>2, <1>3 DEF About, Updates

\* The dialogs of a dashboard open (dashboard-detail.tsx:84-168).
LEMMA DashboardDetailStep ==
  ASSUME ConsoleInv, NEW t \in DOMAIN tab, NEW kind, NEW id \in {0} \cup PanelId, DashboardDetail(t, kind, id)
  PROVE  ConsoleInv'
<1>1. kind \in {"panel", "removePanel", "rename"} /\ Opens(t, kind, id, NoRows) /\ uiCan(tab[t].role, <<"dashboard", "update">>)
  BY DEF DashboardDetail
<1>2. kind = "removePanel" => id \in PanelId
  BY DEF DashboardDetail, PanelsOf
<1>3. kind \in CallKinds /\ OpOf(kind) = <<"dashboard", "update">>
  BY <1>1 DEF CallKinds, Updates, OpOf
<1>4. kind \notin Deletes \cup {"editUser", "revokeKey", "revokeInvite", "editRule", "retention"}
  BY <1>1 DEF Deletes
<1>5. DialogInv(tab[t].role, [kind |-> kind, id |-> id, of |-> NoRows])
  BY <1>1, <1>2, <1>3, <1>4, OpenedIs
<1> QED BY <1>1, <1>3, <1>4, <1>5, OpensStep

\* A layout written back, with one panel changed.
LayoutWith(t, x, v, s) ==
  s = [op |-> "update", id |-> Dash, base |-> tab[t].data[Dash].lv, asked |-> At(x, v),
       patch |-> [LayoutOf(t) EXCEPT ![x] = v]]

\* A layout is saved whole (dashboard-detail.tsx:47-64).
LEMMA LayoutStep ==
  ASSUME ConsoleInv, NEW t \in DOMAIN tab, tab[t].page = "detail", NEW kind \in {"panel", "removePanel"}, NEW s,
         Submit(t, kind, s) \/ Confirm(t, kind, s), Dash \in DOMAIN tab[t].data, NEW x \in PanelId, NEW v,
         LayoutWith(t, x, v, s)
  PROVE  ConsoleInv'
<1>1. PICK d, asked, patch : d = tab[t].data[Dash] /\ asked = At(x, v) /\ patch = [LayoutOf(t) EXCEPT ![x] = v]
  OBVIOUS
<1>2. RowsInv /\ Copy(Dash, d)
  BY <1>1, TabOf DEF ConsoleInv, Held
<1>3. d.kind = "dashboard" /\ DOMAIN d.f = {"name"} \cup PanelId
  <2>1. d.kind = "dashboard" /\ d.f = [y \in FieldsOf(d.kind) |-> d.f[y]]
    BY <1>2 DEF Copy, RowFits
  <2>2. FieldsOf(d.kind) = {"name"} \cup PanelId
    BY <2>1 DEF FieldsOf
  <2> QED BY ONLY ZenonT(30), <2>1, <2>2
<1>4. About(kind, Dash) /\ KindOf(kind) = "dashboard" /\ FieldsOf("dashboard") = {"name"} \cup PanelId
  BY <1>2, DashIs DEF FieldsOf
<1>5. DOMAIN asked = {x} /\ asked[x] = v /\ asked = [y \in DOMAIN asked |-> asked[y]]
  BY <1>1 DEF At
<1>6. /\ DOMAIN patch = PanelId /\ patch[x] = v /\ patch = [y \in DOMAIN patch |-> patch[y]]
      /\ \A y \in PanelId \ {x} : patch[y] = d.f[y]
  BY <1>1 DEF LayoutOf, Restrict
<1>7. \A y \in PanelId : Together("dashboard", y)
  BY ConsoleAssumption DEF Together
<1>8. Current(tab[t]) /\ Dash \in DOMAIN rows => d.lv = rows[Dash].lv
  BY <1>1 DEF Current, UpToDate
<1>9. DOMAIN s = UpdateFields /\ s.op = "update" /\ s.id = Dash /\ s.base = d.lv /\ s.asked = asked /\ s.patch = patch
  BY <1>1 DEF LayoutWith, UpdateFields
<1>10. Filled(kind, d, s)
  <2>1. kind # "editRule"
    OBVIOUS
  <2> QED BY ONLY ZenonT(30), <1>4, <1>5, <1>6, <1>7, <1>9, <2>1, x \in PanelId DEF Filled
<1>11. kind \in {"panel", "removePanel", "retention", "editRule"}
  OBVIOUS
<1> QED BY <1>2, <1>4, <1>8, <1>9, <1>10, <1>11, WholeFormStep

\* A dashboard is renamed (dashboard-detail.tsx:173-261).
LEMMA RenameStep ==
  ASSUME ConsoleInv, NEW t \in DOMAIN tab, NEW n, EditDashboardDialog(t, n)
  PROVE  ConsoleInv'
<1>1. PICK patch : patch = [name |-> n]
  OBVIOUS
<1>2. DOMAIN patch = {"name"} /\ patch = [x \in DOMAIN patch |-> patch[x]]
  BY <1>1
<1>3. PICK s : s = [op |-> "update", id |-> Dash, base |-> 0, asked |-> patch, patch |-> patch]
  OBVIOUS
<1>4. Submit(t, "rename", s)
  BY <1>1, <1>3 DEF EditDashboardDialog
<1>5. /\ DOMAIN s = UpdateFields /\ s.op = "update" /\ s.id = Dash /\ s.base = 0 /\ s.asked = patch /\ s.patch = patch
  BY <1>3 DEF UpdateFields
<1>6. About("rename", s.id) /\ KindOf("rename") = "dashboard"
  BY <1>5, DashIs DEF ConsoleInv
<1>7. DOMAIN patch \subseteq FieldsOf(KindOf("rename")) /\ \A x \in DOMAIN patch : ~Together(KindOf("rename"), x)
  BY <1>2, <1>6 DEF FieldsOf, Together
<1> QED BY <1>2, <1>4, <1>5, <1>6, <1>7, PlainUpdateStep

\* A panel is added or edited (panel-dialog.tsx:44-165).
LEMMA PanelDialogStep ==
  ASSUME ConsoleInv, NEW t \in DOMAIN tab, tab[t].page = "detail", NEW id \in PanelId, NEW v, PanelDialog(t, id, v)
  PROVE  ConsoleInv'
<1>1. PICK s : LayoutWith(t, id, v, s)
  BY DEF LayoutWith
<1>2. Submit(t, "panel", s) /\ Dash \in DOMAIN tab[t].data
  BY <1>1 DEF PanelDialog, upsertPanel, LayoutWith
<1> QED BY <1>1, <1>2, LayoutStep

\* A panel is removed (dashboard-detail.tsx:47-64).
LEMMA RemovePanelStep ==
  ASSUME ConsoleInv, NEW t \in DOMAIN tab, tab[t].page = "detail", onRemovePanel(t)
  PROVE  ConsoleInv'
<1>1. PICK id : id = tab[t].dialog.id
  OBVIOUS
<1>2. PICK s : LayoutWith(t, id, NoPanel, s)
  BY DEF LayoutWith
<1>3. Confirm(t, "removePanel", s) /\ Dash \in DOMAIN tab[t].data
  BY <1>1, <1>2 DEF onRemovePanel, removePanelById, LayoutWith
<1>4. id \in PanelId
  <2>1. tab[t].dialog.kind = "removePanel"
    BY <1>3 DEF Confirm
  <2> QED BY <1>1, <2>1, TabOf DEF DialogInv
<1> QED BY <1>2, <1>3, <1>4, LayoutStep

\* Every step of a dashboard's page.
LEMMA DetailPageStep ==
  ASSUME ConsoleInv, NEW t \in DOMAIN tab, tab[t].page = "detail", DetailPage(t)
  PROVE  ConsoleInv'
<1>1. CASE \E kind \in {"panel", "removePanel", "rename"}, id \in {0} \cup PanelId : DashboardDetail(t, kind, id)
  BY <1>1, DashboardDetailStep
<1>2. CASE \E id \in PanelId, v \in PanelValue : PanelDialog(t, id, v)
  BY <1>2, PanelDialogStep
<1>3. CASE onRemovePanel(t)
  BY <1>3, RemovePanelStep
<1>4. CASE \E n \in Name : EditDashboardDialog(t, n)
  BY <1>4, RenameStep
<1>5. CASE \/ LoaderReads(t, DetailLoader, Dash \in DOMAIN rows) \/ LoaderReads(t, NoRows, FALSE)
           \/ LoaderArrives(t, tab[t].dialog.of) \/ Refresh(t, DetailLoader)
  <2>1. PICK S : S = {Dash} \cap DOMAIN rows
    OBVIOUS
  <2>2. S \in SUBSET DOMAIN rows /\ S \subseteq {Dash} /\ DetailLoader = Restrict(rows, S)
    BY <2>1 DEF DetailLoader
  <2>3. PICK up : up = (Dash \in DOMAIN rows)
    OBVIOUS
  <2> QED BY <1>5, <2>2, <2>3, LoadStep
<1> QED BY <1>1, <1>2, <1>3, <1>4, <1>5 DEF DetailPage

-----------------------------------------------------------------------------
(* The list page *)

FieldsFit(kind, f) ==
  f = [x \in FieldsOf(kind) |-> f[x]] /\ (kind = "rule" => \A x \in RuleForm : f[x] # Blank)

\* The rows that dialogs make.
LEMMA NewRowFits ==
  ASSUME NEW kind \in {"dashboard", "user", "apikey", "invite", "rule"}, NEW f, FieldsFit(kind, f)
  PROVE  Row(kind, f).kind = kind /\ \A n \in Nat : RowFits(n, Row(kind, f))
<1>1. PICK r : r = Row(kind, f)
  OBVIOUS
<1>2. DOMAIN r = {"kind", "f", "lv"} /\ r.kind = kind /\ r.f = f /\ r.lv = 0
  BY <1>1 DEF Row
<1>3. r.lv \in Nat
  BY SMTT(30), <1>2
<1>4. \A n \in Nat : n # Dash /\ n # Policy
  BY ConsoleAssumption
<1>5. /\ r.f = [x \in FieldsOf(r.kind) |-> r.f[x]] /\ (r.kind = "rule" => \A x \in RuleForm : r.f[x] # Blank)
  BY <1>2 DEF FieldsFit
<1>6. \A n \in Nat : RowFits(n, r)
  BY <1>2, <1>3, <1>4, <1>5 DEF RowFits
<1> QED BY <1>1, <1>2, <1>6

\* The dialogs of the list open (dashboard-list.tsx:57-170).
LEMMA DashboardListStep ==
  ASSUME ConsoleInv, NEW t \in DOMAIN tab, tab[t].page = "list", NEW kind, NEW id, DashboardList(t, kind, id)
  PROVE  ConsoleInv'
<1>1. kind \in {"createDashboard", "deleteDashboard"} /\ Opens(t, kind, id, NoRows) /\ uiCan(tab[t].role, OpOf(kind))
  BY DEF DashboardList, OpOf
<1>2. kind = "deleteDashboard" => About(kind, id)
  <2> SUFFICES ASSUME kind = "deleteDashboard" PROVE About(kind, id)
    OBVIOUS
  <2>1. id \in DOMAIN tab[t].data /\ Held(tab[t].page, tab[t].data)
    BY TabOf DEF DashboardList
  <2>2. tab[t].data[id].kind = "dashboard" /\ KindOf(kind) = "dashboard"
    BY <2>1 DEF Held, KindOf, DashboardKinds
  <2> QED BY <2>1, <2>2, ListedIs
<1>3. kind \in CallKinds /\ kind \notin {"editUser", "revokeKey", "revokeInvite", "editRule", "panel", "removePanel", "retention"}
  BY <1>1 DEF CallKinds, Creates, Deletes
<1>4. kind \in Deletes => kind = "deleteDashboard"
  BY <1>1 DEF Deletes
<1>5. DialogInv(tab[t].role, [kind |-> kind, id |-> id, of |-> NoRows])
  BY <1>1, <1>2, <1>3, <1>4, OpenedIs
<1> QED BY <1>1, <1>3, <1>5, OpensStep

\* A dashboard is created (dashboard-list.tsx:175-264).
LEMMA CreateDashboardStep ==
  ASSUME ConsoleInv, NEW t \in DOMAIN tab, NEW n, CreateDashboardDialog(t, n)
  PROVE  ConsoleInv'
<1>1. PICK f : f = Over([name |-> n], Layout(NoRows))
  OBVIOUS
<1>2. FieldsFit("dashboard", f)
  <2>1. FieldsOf("dashboard") = {"name"} \cup PanelId
    BY DEF FieldsOf
  <2>2. f = [x \in {"name"} \cup PanelId |-> f[x]]
    BY <1>1 DEF Over, Layout
  <2> QED BY <2>1, <2>2 DEF FieldsFit
<1>3. PICK row : row = Row("dashboard", f)
  OBVIOUS
<1>4. row.kind = "dashboard" /\ \A m \in Nat : RowFits(m, row)
  BY <1>2, <1>3, NewRowFits
<1>5. PICK s : s = [op |-> "insert", row |-> row]
  OBVIOUS
<1>6. Submit(t, "createDashboard", s)
  BY <1>1, <1>3, <1>5 DEF CreateDashboardDialog, Dashboard
<1>7. DOMAIN s = {"op", "row"} /\ s.op = "insert" /\ s.row = row
  BY <1>5
<1>8. "createDashboard" \in Creates /\ KindOf("createDashboard") = "dashboard"
  BY DEF Creates, KindOf, DashboardKinds
<1> QED BY <1>4, <1>6, <1>7, <1>8, CreatesStep

\* A deletion is confirmed.
LEMMA ConfirmsDelete ==
  ASSUME ConsoleInv, NEW t \in DOMAIN tab, NEW kind \in Deletes, Confirm(t, kind, [op |-> "delete", id |-> tab[t].dialog.id])
  PROVE  ConsoleInv'
<1>1. PICK s : s = [op |-> "delete", id |-> tab[t].dialog.id]
  OBVIOUS
<1>2. DOMAIN s = {"op", "id"} /\ s.op = "delete" /\ s.id = tab[t].dialog.id
  BY <1>1
<1> QED BY <1>1, <1>2, DeletesStep

\* Every step of the list of dashboards.
LEMMA ListPageStep ==
  ASSUME ConsoleInv, NEW t \in DOMAIN tab, tab[t].page = "list", ListPage(t)
  PROVE  ConsoleInv'
<1>1. CASE \E id \in {0} \cup DOMAIN tab[t].data, kind \in {"createDashboard", "deleteDashboard"} : DashboardList(t, kind, id)
  BY <1>1, DashboardListStep
<1>2. CASE \E n \in Name : CreateDashboardDialog(t, n)
  BY <1>2, CreateDashboardStep
<1>3. CASE onDelete(t)
  BY <1>3, ConfirmsDelete DEF onDelete, Deletes
<1>4. CASE \/ LoaderReads(t, ListLoader, TRUE) \/ LoaderReads(t, NoRows, FALSE)
           \/ LoaderArrives(t, tab[t].dialog.of) \/ Refresh(t, ListLoader)
  <2>1. OfKind("dashboard") \in SUBSET DOMAIN rows /\ \A i \in OfKind("dashboard") : rows[i].kind = "dashboard"
    BY DEF OfKind
  <2>2. PICK S, data : S = OfKind("dashboard") /\ data = Restrict(rows, S) /\ data = ListLoader
    BY DEF ListLoader
  <2> QED BY <1>4, <2>1, <2>2, LoadStep
<1> QED BY <1>1, <1>2, <1>3, <1>4 DEF ListPage

-----------------------------------------------------------------------------
(* The admin page *)

\* A user is created (users-section.tsx:183-301).
LEMMA CreateUserStep ==
  ASSUME ConsoleInv, NEW t \in DOMAIN tab, NEW e, CreateUserDialog(t, e)
  PROVE  ConsoleInv'
<1>1. PICK f : f = Over([email |-> e], [x \in UserField |-> NewSetting])
  OBVIOUS
<1>2. FieldsFit("user", f)
  <2>1. FieldsOf("user") = {"email"} \cup UserField
    BY DEF FieldsOf
  <2>2. f = [x \in {"email"} \cup UserField |-> f[x]]
    BY <1>1 DEF Over
  <2> QED BY <2>1, <2>2 DEF FieldsFit
<1>3. PICK row : row = Row("user", f)
  OBVIOUS
<1>4. row.kind = "user" /\ \A m \in Nat : RowFits(m, row)
  BY <1>2, <1>3, NewRowFits
<1>5. PICK s : s = [op |-> "insert", row |-> row]
  OBVIOUS
<1>6. Submit(t, "createUser", s)
  BY <1>1, <1>3, <1>5 DEF CreateUserDialog, User
<1>7. DOMAIN s = {"op", "row"} /\ s.op = "insert" /\ s.row = row
  BY <1>5
<1>8. "createUser" \in Creates /\ KindOf("createUser") = "user"
  BY DEF Creates, KindOf, DashboardKinds
<1> QED BY <1>4, <1>6, <1>7, <1>8, CreatesStep

\* A key is issued (api-keys-section.tsx:194-319).
LEMMA IssueKeyStep ==
  ASSUME ConsoleInv, NEW t \in DOMAIN tab, IssueKeyDialog(t)
  PROVE  ConsoleInv'
<1>1. PICK f : f = [status |-> "live"]
  OBVIOUS
<1>2. FieldsFit("apikey", f)
  <2>1. FieldsOf("apikey") = {"status"}
    BY DEF FieldsOf
  <2>2. f = [x \in {"status"} |-> f[x]]
    BY <1>1
  <2> QED BY <2>1, <2>2 DEF FieldsFit
<1>3. PICK row : row = Row("apikey", f)
  OBVIOUS
<1>4. row.kind = "apikey" /\ \A m \in Nat : RowFits(m, row)
  BY <1>2, <1>3, NewRowFits
<1>5. PICK s : s = [op |-> "insert", row |-> row]
  OBVIOUS
<1>6. Submit(t, "issueKey", s)
  BY <1>1, <1>3, <1>5 DEF IssueKeyDialog, ApiKey
<1>7. DOMAIN s = {"op", "row"} /\ s.op = "insert" /\ s.row = row
  BY <1>5
<1>8. "issueKey" \in Creates /\ KindOf("issueKey") = "apikey"
  BY DEF Creates, KindOf, DashboardKinds
<1> QED BY <1>4, <1>6, <1>7, <1>8, CreatesStep

\* An invite is created (invites-section.tsx:188-277).
LEMMA CreateInviteStep ==
  ASSUME ConsoleInv, NEW t \in DOMAIN tab, NEW e, CreateInviteDialog(t, e)
  PROVE  ConsoleInv'
<1>1. PICK f : f = [email |-> e, status |-> "pending"]
  OBVIOUS
<1>2. FieldsFit("invite", f)
  <2>1. FieldsOf("invite") = {"email", "status"}
    BY DEF FieldsOf
  <2>2. f = [x \in {"email", "status"} |-> f[x]]
    BY <1>1
  <2> QED BY <2>1, <2>2 DEF FieldsFit
<1>3. PICK row : row = Row("invite", f)
  OBVIOUS
<1>4. row.kind = "invite" /\ \A m \in Nat : RowFits(m, row)
  BY <1>2, <1>3, NewRowFits
<1>5. PICK s : s = [op |-> "insert", row |-> row, counted |-> {}]
  OBVIOUS
<1>6. Submit(t, "createInvite", s)
  BY <1>1, <1>3, <1>5 DEF CreateInviteDialog, Invite
<1>7. DOMAIN s = {"op", "row", "counted"} /\ s.op = "insert" /\ s.row = row
  BY <1>5
<1>8. "createInvite" \in Creates /\ KindOf("createInvite") = "invite"
  BY DEF Creates, KindOf, DashboardKinds
<1> QED BY <1>4, <1>6, <1>7, <1>8, CreatesStep

\* A section's dialogs: to create, or about a row of its kind on the page.
LEMMA SectionStep ==
  ASSUME ConsoleInv, NEW t \in DOMAIN tab, NEW of, NEW id, NEW op,
         NEW kind \in {"createUser", "editUser", "deleteUser", "issueKey", "revokeKey", "createInvite", "revokeInvite"},
         op = OpOf(kind), uiCan(tab[t].role, op), Opens(t, kind, id, of),
         kind \notin Creates => id \in Listed(t, KindOf(kind))
  PROVE  ConsoleInv'
<1>1. kind \notin Creates => About(kind, id)
  <2>1. PICK page, data : page = tab[t].page /\ data = tab[t].data
    OBVIOUS
  <2>2. Held(page, data)
    BY <2>1, TabOf
  <2>3. kind \notin Creates => id \in DOMAIN data /\ data[id].kind = KindOf(kind)
    BY <2>1 DEF Listed
  <2> QED BY <2>2, <2>3, ListedIs
<1>2. kind \in CallKinds /\ kind \notin {"editRule", "panel", "removePanel", "retention"}
  BY DEF CallKinds, Creates, Deletes, Updates
<1>3. kind \in Deletes \cup {"editUser", "revokeKey", "revokeInvite", "editRule"} => kind \notin Creates
  BY DEF Deletes, Creates
<1>4. DialogInv(tab[t].role, [kind |-> kind, id |-> id, of |-> of])
  BY <1>1, <1>2, <1>3, OpenedIs
<1> QED BY <1>2, <1>4, OpensStep

\* The dialogs of the admin page's sections open.
LEMMA SectionsStep ==
  ASSUME ConsoleInv, NEW t \in DOMAIN tab, NEW kind, NEW id,
         UsersSection(t, kind, id) \/ ApiKeysSection(t, kind, id) \/ InvitesSection(t, kind, id)
  PROVE  ConsoleInv'
<1>1. CASE UsersSection(t, kind, id)
  <2>1. PICK of : Opens(t, kind, id, of)
    BY <1>1 DEF UsersSection
  <2>2. kind \in {"createUser", "editUser", "deleteUser"} /\ uiCan(tab[t].role, OpOf(kind))
    BY <1>1 DEF UsersSection, OpOf
  <2>3. kind \notin Creates => id \in Listed(t, KindOf(kind))
    <3>1. KindOf(kind) = "user"
      BY <2>2 DEF KindOf, DashboardKinds
    <3> QED BY <1>1, <3>1 DEF UsersSection, Creates
  <2> QED BY <2>1, <2>2, <2>3, SectionStep
<1>2. CASE ApiKeysSection(t, kind, id)
  <2>1. Opens(t, kind, id, NoRows) /\ kind \in {"issueKey", "revokeKey"} /\ uiCan(tab[t].role, OpOf(kind))
    BY <1>2 DEF ApiKeysSection, OpOf
  <2>2. kind \notin Creates => id \in Listed(t, KindOf(kind))
    <3>1. KindOf(kind) = "apikey"
      BY <2>1 DEF KindOf, DashboardKinds
    <3> QED BY <1>2, <3>1 DEF ApiKeysSection, Creates
  <2> QED BY <2>1, <2>2, SectionStep
<1>3. CASE InvitesSection(t, kind, id)
  <2>1. Opens(t, kind, id, NoRows) /\ kind \in {"createInvite", "revokeInvite"} /\ uiCan(tab[t].role, OpOf(kind))
    BY <1>3 DEF InvitesSection, OpOf
  <2>2. kind \notin Creates => id \in Listed(t, KindOf(kind))
    <3>1. KindOf(kind) = "invite"
      BY <2>1 DEF KindOf, DashboardKinds
    <3> QED BY <1>3, <3>1 DEF InvitesSection, Creates
  <2> QED BY <2>1, <2>2, SectionStep
<1> QED BY <1>1, <1>2, <1>3

\* A key or an invite is revoked.
LEMMA RetireStep ==
  ASSUME ConsoleInv, NEW t \in DOMAIN tab, NEW kind \in {"revokeKey", "revokeInvite"}, Retire(t, kind, "revoked")
  PROVE  ConsoleInv'
<1>1. PICK patch : patch = [status |-> "revoked"]
  OBVIOUS
<1>2. DOMAIN patch = {"status"} /\ patch["status"] = "revoked" /\ patch = [x \in DOMAIN patch |-> patch[x]]
  BY <1>1
<1>3. PICK s : s = [op |-> "update", id |-> tab[t].dialog.id, base |-> 0, asked |-> patch, patch |-> patch]
  OBVIOUS
<1>4. Confirm(t, kind, s)
  BY <1>1, <1>3 DEF Retire
<1>5. /\ DOMAIN s = UpdateFields /\ s.op = "update" /\ s.id = tab[t].dialog.id /\ s.base = 0
      /\ s.asked = patch /\ s.patch = patch
  BY <1>3 DEF UpdateFields
<1>6. About(kind, s.id)
  <2>1. tab[t].dialog.kind = kind
    BY <1>4 DEF Confirm
  <2> QED BY <1>5, <2>1, TabOf DEF DialogInv
<1>7. KindOf(kind) \in {"apikey", "invite"}
  BY DEF KindOf, DashboardKinds
<1>8. DOMAIN patch \subseteq FieldsOf(KindOf(kind)) /\ \A x \in DOMAIN patch : ~Together(KindOf(kind), x)
  BY <1>2, <1>7 DEF FieldsOf, Together
<1>9. patch = [x \in DOMAIN patch |-> patch[x]] /\ DOMAIN patch = {"status"} /\ patch["status"] # "pending"
  BY <1>2
<1>10. CASE kind = "revokeKey"
  BY <1>4, <1>5, <1>6, <1>8, <1>9, <1>10, PlainUpdateStep
<1>11. CASE kind = "revokeInvite"
  BY <1>4, <1>5, <1>6, <1>8, <1>9, <1>11, PlainUpdateStep
<1> QED BY <1>10, <1>11

\* A user is edited: only what changed is sent (users-section.tsx:318-345).
LEMMA EditUserStep ==
  ASSUME ConsoleInv, NEW t \in DOMAIN tab, NEW f \in [UserField -> Setting], EditUserDialog(t, f)
  PROVE  ConsoleInv'
<1>1. PICK patch : patch = Changed(tab[t].dialog.of, f)
  OBVIOUS
<1>2. patch = [x \in DOMAIN patch |-> patch[x]] /\ DOMAIN patch \subseteq UserField
  BY <1>1 DEF Changed, Restrict
<1>3. PICK s : s = [op |-> "update", id |-> tab[t].dialog.id, base |-> 0, asked |-> patch, patch |-> patch]
  OBVIOUS
<1>4. Submit(t, "editUser", s)
  BY <1>1, <1>3 DEF EditUserDialog, UserBody
<1>5. /\ DOMAIN s = UpdateFields /\ s.op = "update" /\ s.id = tab[t].dialog.id /\ s.base = 0
      /\ s.asked = patch /\ s.patch = patch
  BY <1>3 DEF UpdateFields
<1>6. About("editUser", s.id)
  <2>1. tab[t].dialog.kind = "editUser"
    BY <1>4 DEF Submit
  <2> QED BY <1>5, <2>1, TabOf DEF DialogInv
<1>7. KindOf("editUser") = "user"
  BY DEF KindOf, DashboardKinds
<1>8. DOMAIN patch \subseteq FieldsOf(KindOf("editUser")) /\ \A x \in DOMAIN patch : ~Together(KindOf("editUser"), x)
  BY <1>2, <1>7 DEF FieldsOf, Together
<1> QED BY <1>2, <1>4, <1>5, <1>6, <1>8, PlainUpdateStep

\* The retention form opens on the policy (retention-card.tsx:27-78).
LEMMA RetentionCardStep ==
  ASSUME ConsoleInv, NEW t \in DOMAIN tab, RetentionCard(t)
  PROVE  ConsoleInv'
<1>1. PICK of : of = tab[t].data[Policy]
  OBVIOUS
<1>2. Policy \in DOMAIN tab[t].data /\ uiCan(tab[t].role, <<"retention", "update">>) /\ Opens(t, "retention", 0, of)
  BY <1>1 DEF RetentionCard
<1>3. Copy(Policy, of)
  BY <1>1, <1>2, TabOf DEF Held
<1>4. "retention" \in CallKinds /\ "retention" \notin Deletes /\ OpOf("retention") = <<"retention", "update">>
  BY DEF CallKinds, Updates, Deletes, OpOf
<1>5. DialogInv(tab[t].role, [kind |-> "retention", id |-> 0, of |-> of])
  BY <1>2, <1>3, <1>4, OpenedIs
<1> QED BY <1>1, <1>2, <1>4, <1>5, OpensStep

\* The retention form is saved whole (retention-card.tsx:80-172).
LEMMA RetentionFormStep ==
  ASSUME ConsoleInv, NEW t \in DOMAIN tab, NEW f \in [PolicyField -> Days], RetentionForm(t, f)
  PROVE  ConsoleInv'
<1>1. PICK of : of = tab[t].dialog.of
  OBVIOUS
<1>2. PICK asked : asked = Changed(of.f, f)
  OBVIOUS
<1>3. PICK s : s = [op |-> "update", id |-> Policy, base |-> of.lv, patch |-> f, asked |-> asked]
  OBVIOUS
<1>4. Submit(t, "retention", s) /\ tab[t].dialog.kind = "retention"
  BY <1>1, <1>2, <1>3 DEF RetentionForm
<1>5. DOMAIN s = UpdateFields /\ s.op = "update" /\ s.id = Policy /\ s.base = of.lv /\ s.asked = asked /\ s.patch = f
  BY <1>3 DEF UpdateFields
<1>6. Copy(Policy, of)
  BY <1>1, <1>4, TabOf DEF DialogInv
<1>7. of.kind = "policy" /\ KindOf("retention") = "policy" /\ FieldsOf("policy") = PolicyField
  BY <1>6 DEF Copy, RowFits, KindOf, DashboardKinds, FieldsOf
<1>8. About("retention", Policy)
  BY <1>6, <1>7 DEF Copy, About
<1>9. /\ asked = [x \in DOMAIN asked |-> asked[x]] /\ DOMAIN asked \subseteq DOMAIN f
      /\ (\A x \in DOMAIN asked : asked[x] = f[x]) /\ \A x \in DOMAIN f \ DOMAIN asked : f[x] = of.f[x]
  BY <1>2 DEF Changed, Restrict
<1>10. DOMAIN f = PolicyField /\ f = [x \in DOMAIN f |-> f[x]] /\ \A x \in PolicyField : Together("policy", x)
  BY DEF Together
<1>11. Filled("retention", of, s)
  BY ONLY ZenonT(30), <1>5, <1>7, <1>9, <1>10 DEF Filled
<1>12. Current(tab[t]) => of.lv = rows[Policy].lv
  BY <1>1, <1>4 DEF Current
<1> QED BY <1>4, <1>5, <1>6, <1>8, <1>11, <1>12, WholeFormStep

\* The admin page's loader, with whatever sections it could read.
LEMMA AdminReloadStep ==
  ASSUME ConsoleInv, NEW t \in DOMAIN tab, tab[t].page = "admin", AdminReload(t)
  PROVE  ConsoleInv'
<1>1. PICK may : may = {kind \in tab[t].sections : kind = "policy" \/ can(tab[t].role, <<kind, "list">>)}
  OBVIOUS
<1>2. PICK S, data : S = {i \in DOMAIN rows : rows[i].kind \in may} /\ data = Restrict(rows, S)
  OBVIOUS
<1>3. data = loadAdminData(tab[t]) /\ S \in SUBSET DOMAIN rows
  BY <1>1, <1>2 DEF loadAdminData
<1>4. CASE \/ LoaderReads(t, data, TRUE) \/ LoaderReads(t, NoRows, FALSE)
           \/ LoaderArrives(t, tab[t].dialog.of) \/ Refresh(t, data)
  BY <1>2, <1>3, <1>4, LoadStep
<1>5. CASE /\ tab[t].dialog.kind = "retention" /\ Policy \in DOMAIN tab[t].fresh.data
           /\ LoaderArrives(t, tab[t].fresh.data[Policy])
  BY <1>5, LoaderArrivesStep
<1> QED BY <1>3, <1>4, <1>5 DEF AdminReload

\* Every step of the admin page.
LEMMA AdminPageStep ==
  ASSUME ConsoleInv, NEW t \in DOMAIN tab, tab[t].page = "admin", AdminDashboard(t)
  PROVE  ConsoleInv'
<1>1. CASE \E kind \in AdminKinds, id \in {0} \cup DOMAIN tab[t].data :
             \/ UsersSection(t, kind, id) \/ ApiKeysSection(t, kind, id) \/ InvitesSection(t, kind, id)
  BY <1>1, SectionsStep
<1>2. CASE (\E e \in Email : CreateUserDialog(t, e)) \/ (\E e \in Email : CreateInviteDialog(t, e)) \/ IssueKeyDialog(t)
  BY <1>2, CreateUserStep, CreateInviteStep, IssueKeyStep
<1>3. CASE \E f \in [UserField -> Setting] : EditUserDialog(t, f)
  BY <1>3, EditUserStep
<1>4. CASE \E f \in [PolicyField -> Days] : RetentionForm(t, f)
  BY <1>4, RetentionFormStep
<1>5. CASE onDeleteUser(t)
  BY <1>5, ConfirmsDelete DEF onDeleteUser, Deletes
<1>6. CASE onRevokeKey(t) \/ onRevokeInvite(t)
  BY <1>6, RetireStep DEF onRevokeKey, onRevokeInvite
<1>7. CASE SecretRevealDialog(t) \/ InviteLinkDialog(t)
  BY <1>7, DismissStep DEF SecretRevealDialog, InviteLinkDialog, Revealing
<1>8. CASE RetentionCard(t)
  BY <1>8, RetentionCardStep
<1>9. CASE AdminReload(t)
  BY <1>9, AdminReloadStep
<1> QED BY <1>1, <1>2, <1>3, <1>4, <1>5, <1>6, <1>7, <1>8, <1>9 DEF AdminDashboard

-----------------------------------------------------------------------------
(* The alerts page *)

\* The dialogs of the alert rules open (alert-manager.tsx:92-234).
LEMMA AlertManagerStep ==
  ASSUME ConsoleInv, NEW t \in DOMAIN tab, tab[t].page = "alerts", NEW kind \in RuleKinds, NEW id, AlertManager(t, kind, id)
  PROVE  ConsoleInv'
<1>1. PICK of : of = IF kind = "editRule" THEN tab[t].data[id] ELSE NoRows
  OBVIOUS
<1>2. Opens(t, kind, id, of) /\ uiCan(tab[t].role, OpOf(kind))
  BY <1>1 DEF AlertManager, OpOf
<1>3. kind \in CallKinds /\ kind \notin {"editUser", "revokeKey", "revokeInvite", "panel", "removePanel", "retention"}
  BY DEF RuleKinds, CallKinds, Creates, Deletes, Updates
<1>4. DialogInv(tab[t].role, [kind |-> kind, id |-> id, of |-> of])
  <2>1. CASE kind = "createRule"
    <3>1. kind \notin Deletes \cup {"editUser", "revokeKey", "revokeInvite", "editRule"}
      BY <2>1 DEF Deletes
    <3> QED BY <1>2, <1>3, <3>1, OpenedIs
  <2>2. CASE kind \in {"editRule", "deleteRule"}
    <3>1. id \in DOMAIN tab[t].data /\ Held(tab[t].page, tab[t].data)
      BY <2>2, TabOf DEF AlertManager
    <3>2. tab[t].data[id].kind = "rule" /\ Copy(id, tab[t].data[id])
      BY <3>1 DEF Held
    <3>3. KindOf(kind) = "rule"
      BY <2>2 DEF KindOf, DashboardKinds
    <3>4. About(kind, id)
      BY <3>1, <3>2, <3>3, ListedIs
    <3>5. kind = "editRule" => Copy(id, of) /\ of.kind = "rule"
      BY <1>1, <3>2
    <3> QED BY <1>2, <1>3, <3>4, <3>5, OpenedIs
  <2> QED BY <2>1, <2>2 DEF RuleKinds
<1>5. kind = "editRule" => id \in DOMAIN tab[t].data /\ of = tab[t].data[id]
  BY <1>1 DEF AlertManager
<1>6. kind # "retention"
  BY <1>3
<1> QED BY <1>2, <1>3, <1>4, <1>5, <1>6, OpensStep

\* The body a rule's form sends (alert-rule-form.tsx:64-105).
LEMMA BodyIs ==
  ASSUME NEW values, NEW body, body = assembleAlertRuleBody(values)
  PROVE  DOMAIN body = RuleForm /\ body = [x \in RuleForm |-> body[x]] /\ \A x \in RuleForm : body[x] # Blank
BY DEF assembleAlertRuleBody, None, Blank

\* A rule is created.
LEMMA CreateRuleStep ==
  ASSUME ConsoleInv, NEW t \in DOMAIN tab, NEW body, DOMAIN body = RuleForm, \A x \in RuleForm : body[x] # Blank,
         Submit(t, "createRule", [op |-> "insert", row |-> Rule(body["name"], body["cond"], body["query"], None)])
  PROVE  ConsoleInv'
<1>1. PICK f : f = [name |-> body["name"], cond |-> body["cond"], query |-> body["query"], saved |-> None]
  OBVIOUS
<1>2. FieldsFit("rule", f)
  <2>1. FieldsOf("rule") = {"name", "cond", "query", "saved"}
    BY DEF FieldsOf
  <2>2. /\ DOMAIN f = {"name", "cond", "query", "saved"} /\ f = [x \in DOMAIN f |-> f[x]]
        /\ f["name"] = body["name"] /\ f["cond"] = body["cond"] /\ f["query"] = body["query"]
    BY <1>1
  <2>3. f = [x \in {"name", "cond", "query", "saved"} |-> f[x]]
    BY ONLY ZenonT(30), <2>2
  <2>4. \A x \in RuleForm : f[x] # Blank
    BY <2>2 DEF RuleForm
  <2> QED BY <2>1, <2>3, <2>4 DEF FieldsFit
<1>3. PICK row : row = Row("rule", f)
  OBVIOUS
<1>4. row.kind = "rule" /\ \A m \in Nat : RowFits(m, row)
  BY <1>2, <1>3, NewRowFits
<1>5. PICK s : s = [op |-> "insert", row |-> row]
  OBVIOUS
<1>6. Submit(t, "createRule", s)
  BY <1>1, <1>3, <1>5 DEF Rule
<1>7. DOMAIN s = {"op", "row"} /\ s.op = "insert" /\ s.row = row
  BY <1>5
<1>8. "createRule" \in Creates /\ KindOf("createRule") = "rule"
  BY DEF Creates, KindOf, DashboardKinds
<1> QED BY <1>4, <1>6, <1>7, <1>8, CreatesStep

\* A form filled from a rule, and not changed, sends the rule.
LEMMA UnchangedBody ==
  ASSUME NEW rule, \A x \in RuleForm : rule.f[x] # Blank, NEW x \in RuleForm
  PROVE  assembleAlertRuleBody(valuesFromRule(rule))[x] = rule.f[x]
<1>1. CASE rule.f[x] = None
  BY <1>1 DEF assembleAlertRuleBody, valuesFromRule
<1>2. CASE rule.f[x] # None
  BY <1>2 DEF assembleAlertRuleBody, valuesFromRule
<1> QED BY <1>1, <1>2

SavesRule(t, body) ==
  LET of == tab[t].dialog.of
      was == assembleAlertRuleBody(valuesFromRule(of))
  IN  Submit(t, "editRule", [op |-> "update", id |-> tab[t].dialog.id, base |-> of.lv, patch |-> body,
                             asked |-> Restrict(body, {x \in RuleForm : body[x] # was[x]})])

\* A rule is edited: its form is sent whole.
LEMMA EditRuleStep ==
  ASSUME ConsoleInv, NEW t \in DOMAIN tab, NEW values, NEW body, body = assembleAlertRuleBody(values), SavesRule(t, body)
  PROVE  ConsoleInv'
<1> PICK of, was : of = tab[t].dialog.of /\ was = assembleAlertRuleBody(valuesFromRule(of))
  OBVIOUS
<1>1. PICK id, asked : id = tab[t].dialog.id /\ asked = Restrict(body, {x \in RuleForm : body[x] # was[x]})
  OBVIOUS
<1>2. PICK s : s = [op |-> "update", id |-> id, base |-> of.lv, patch |-> body, asked |-> asked]
  OBVIOUS
<1>3. Submit(t, "editRule", s)
  BY <1>1, <1>2 DEF SavesRule
<1>4. tab[t].dialog.kind = "editRule"
  BY <1>3 DEF Submit
<1>5. DOMAIN s = UpdateFields /\ s.op = "update" /\ s.id = id /\ s.base = of.lv /\ s.asked = asked /\ s.patch = body
  BY <1>2 DEF UpdateFields
<1>6. Copy(id, of) /\ of.kind = "rule" /\ About("editRule", id)
  BY <1>1, <1>4, TabOf DEF DialogInv
<1>7. \A x \in RuleForm : of.f[x] # Blank
  BY <1>6 DEF Copy, RowFits
<1>8. \A x \in RuleForm : was[x] = of.f[x]
  BY <1>7, UnchangedBody
<1>9. /\ asked = [x \in DOMAIN asked |-> asked[x]] /\ DOMAIN asked \subseteq RuleForm
      /\ (\A x \in DOMAIN asked : asked[x] = body[x]) /\ \A x \in RuleForm \ DOMAIN asked : body[x] = was[x]
  BY <1>1 DEF Restrict
<1>10. /\ KindOf("editRule") = "rule" /\ RuleForm \subseteq FieldsOf("rule")
       /\ \A x \in RuleForm : Together("rule", x)
  BY DEF KindOf, DashboardKinds, FieldsOf, RuleForm, Together
<1>11. DOMAIN body = RuleForm /\ body = [x \in DOMAIN body |-> body[x]] /\ \A x \in RuleForm : body[x] # Blank
  BY BodyIs
<1>12. Filled("editRule", of, s)
  BY ONLY ZenonT(100), <1>5, <1>8, <1>9, <1>10, <1>11 DEF Filled
<1>13. Current(tab[t]) /\ id \in DOMAIN rows => of.lv = rows[id].lv
  BY <1>1, <1>4 DEF Current
<1> QED BY <1>3, <1>5, <1>6, <1>12, <1>13, WholeFormStep

\* Every step of the page of alert rules.
LEMMA AlertsPageStep ==
  ASSUME ConsoleInv, NEW t \in DOMAIN tab, tab[t].page = "alerts", AlertsPage(t)
  PROVE  ConsoleInv'
<1>1. CASE \E kind \in RuleKinds, id \in {0} \cup DOMAIN tab[t].data : AlertManager(t, kind, id)
  BY <1>1, AlertManagerStep
<1>2. CASE \E values \in FormValues : AlertRuleFormDialog(t, values)
  <2>1. PICK values \in FormValues : AlertRuleFormDialog(t, values)
    BY <1>2
  <2>2. PICK body : body = assembleAlertRuleBody(values)
    OBVIOUS
  <2>3. DOMAIN body = RuleForm /\ body = [x \in RuleForm |-> body[x]] /\ \A x \in RuleForm : body[x] # Blank
    BY <2>2, BodyIs
  <2>4. CASE tab[t].dialog.kind = "createRule"
    <3>1. Submit(t, "createRule", [op |-> "insert", row |-> Rule(body["name"], body["cond"], body["query"], None)])
      BY <2>1, <2>2, <2>4 DEF AlertRuleFormDialog
    <3> QED BY <2>3, <3>1, CreateRuleStep
  <2>5. CASE tab[t].dialog.kind # "createRule"
    <3>1. SavesRule(t, body)
      BY <2>1, <2>2, <2>5 DEF AlertRuleFormDialog, SavesRule
    <3> QED BY <2>2, <3>1, EditRuleStep
  <2> QED BY <2>4, <2>5
<1>3. CASE onDeleteRule(t)
  BY <1>3, ConfirmsDelete DEF onDeleteRule, Deletes
<1>4. CASE \/ LoaderReads(t, AlertsLoader, TRUE) \/ LoaderReads(t, NoRows, FALSE)
           \/ LoaderArrives(t, tab[t].dialog.of) \/ Refresh(t, AlertsLoader)
  <2>1. OfKind("rule") \in SUBSET DOMAIN rows /\ \A i \in OfKind("rule") : rows[i].kind = "rule"
    BY DEF OfKind
  <2>2. PICK S, data : S = OfKind("rule") /\ data = Restrict(rows, S) /\ data = AlertsLoader
    BY DEF AlertsLoader
  <2> QED BY <1>4, <2>1, <2>2, LoadStep
<1> QED BY <1>1, <1>2, <1>3, <1>4 DEF AlertsPage

-----------------------------------------------------------------------------
(* The console *)

\* Every step of a tab.
LEMMA TabStep ==
  ASSUME ConsoleInv, NEW t \in DOMAIN tab, Page(t) \/ Close(t)
  PROVE  ConsoleInv'
BY CloseStep, DetailPageStep, ListPageStep, AdminPageStep, AlertsPageStep DEF Page

\* A step that changes nothing.
LEMMA IdleStep ==
  ASSUME ConsoleInv, UNCHANGED pageVars
  PROVE  ConsoleInv'
<1>1. rows' = rows /\ tab' = tab /\ calls' = calls /\ made' = made /\ wanted' = wanted /\ seen' = seen
  BY DEF pageVars
<1>2. Pending' = Pending /\ \A i : Born(i)' <=> Born(i)
  BY <1>1 DEF Pending, OfKind, Born
<1>3. /\ \A i, c : Copy(i, c)' <=> Copy(i, c)
      /\ \A kind, i : About(kind, i)' <=> About(kind, i)
  BY <1>1, <1>2 DEF Copy, About
<1>4. /\ \A page, data : Held(page, data)' <=> Held(page, data)
      /\ \A role, d : DialogInv(role, d)' <=> DialogInv(role, d)
  BY <1>3 DEF Held, DialogInv
<1>5. \A t : TabInv(t)' <=> TabInv(t)
  BY <1>1, <1>4 DEF TabInv
<1>6. RowsInv /\ RowsMove /\ RowsInv'
  <2>1. made \in Nat /\ RowsInv
    BY DEF ConsoleInv
  <2>2. made <= made'
    BY SMTT(30), <1>1, <2>1
  <2> QED BY <1>1, <2>1, <2>2, RowsStand
<1>7. \A k \in DOMAIN calls : CallInv(k)'
  BY <1>1, <1>6, CallMoves DEF ConsoleInv
<1>8. \A t : (OneAtATime(t)' <=> OneAtATime(t)) /\ (Unanswered(t)' = Unanswered(t))
  BY <1>1 DEF OneAtATime, Unanswered
<1>9. \A t : NoRace(t)' <=> NoRace(t)
  BY ZenonT(100), <1>1, <1>8 DEF NoRace, Exempt, Current, UpToDate
<1>10. EditsCompose' /\ StaleNeedsARace' /\ OfferedIsAllowed' /\ SecretStaysUp' /\ CapYieldsOnlyToRaces'
  BY <1>1, <1>2 DEF ConsoleInv, EditsCompose, StaleNeedsARace, OfferedIsAllowed, SecretStaysUp, CapYieldsOnlyToRaces
<1> QED BY <1>1, <1>5, <1>6, <1>7, <1>8, <1>9, <1>10 DEF ConsoleInv

\* Every step of the console keeps the invariant.
LEMMA NextStep ==
  ASSUME ConsoleInv, [ConsoleNext]_pageVars
  PROVE  ConsoleInv'
<1>1. CASE \E k \in DOMAIN calls : Routes(k) \/ answer(k)
  BY <1>1, RoutesStep, AnswerStep
<1>2. CASE \E t \in DOMAIN tab : Page(t) \/ Close(t)
  BY <1>2, TabStep
<1>3. CASE \E i \in DOMAIN rows : consumeInvite(i)
  BY <1>3, ConsumeInviteStep
<1>4. CASE ApiClient
  BY <1>4, ApiClientStep
<1>5. CASE UNCHANGED pageVars
  BY <1>5, IdleStep
<1> QED BY <1>1, <1>2, <1>3, <1>4, <1>5 DEF ConsoleNext

\* The pages as they are loaded first.
IsPage(page) == page.page \in {"detail", "list", "admin", "alerts"}

\* What the first load of a page holds.
LEMMA LoaderOfIs ==
  ASSUME RowsInv, NEW page, IsPage(page)
  PROVE  Held(page.page, LoaderOf(page)) /\ UpToDate(LoaderOf(page))
<1>1. PICK S \in SUBSET DOMAIN rows :
        /\ LoaderOf(page) = Restrict(rows, S)
        /\ page.page = "detail" => S \subseteq {Dash}
        /\ page.page = "list" => \A i \in S : rows[i].kind = "dashboard"
        /\ page.page = "alerts" => \A i \in S : rows[i].kind = "rule"
  <2>1. CASE page.page = "detail"
    <3>1. LoaderOf(page) = Restrict(rows, {Dash} \cap DOMAIN rows)
      BY <2>1 DEF LoaderOf, DetailLoader
    <3> QED BY <2>1, <3>1
  <2>2. CASE page.page = "list"
    <3>1. LoaderOf(page) = Restrict(rows, OfKind("dashboard"))
      BY <2>2 DEF LoaderOf, ListLoader
    <3>2. OfKind("dashboard") \in SUBSET DOMAIN rows /\ \A i \in OfKind("dashboard") : rows[i].kind = "dashboard"
      BY DEF OfKind
    <3> QED BY <2>2, <3>1, <3>2
  <2>3. CASE page.page = "admin"
    BY <2>3 DEF LoaderOf, loadAdminData
  <2>4. CASE page.page = "alerts"
    <3>1. LoaderOf(page) = Restrict(rows, OfKind("rule"))
      BY <2>4 DEF LoaderOf, AlertsLoader
    <3>2. OfKind("rule") \in SUBSET DOMAIN rows /\ \A i \in OfKind("rule") : rows[i].kind = "rule"
      BY DEF OfKind
    <3> QED BY <2>4, <3>1, <3>2
  <2> QED BY <2>1, <2>2, <2>3, <2>4 DEF IsPage
<1> QED BY <1>1, Loaded

\* The rows the console starts with.
LEMMA FirstRows ==
  ASSUME NEW s \in Screens, rows = s.rows, calls = NoRows, wanted = [i \in DOMAIN rows |-> rows[i].f]
  PROVE  RowsInv /\ EditsCompose /\ CapYieldsOnlyToRaces
<1>1. /\ rows = [i \in DOMAIN rows |-> rows[i]] /\ IsFiniteSet(DOMAIN rows)
      /\ \A i \in DOMAIN rows : i \notin Nat /\ RowFits(i, rows[i])
  BY ConsoleAssumption
<1>2. CapYieldsOnlyToRaces
  <2>1. PICK out : out = PendingIn(rows)
    OBVIOUS
  <2>2. /\ Cardinality(out) <= inviteMaxOutstandingPerTenant
        /\ \A i, j \in out : rows[i].f["email"] = rows[j].f["email"] => i = j
    BY <2>1, ConsoleAssumption
  <2>3. Pending = out /\ out \in SUBSET DOMAIN rows
    BY <2>1 DEF PendingIn, Pending, OfKind
  <2>4. IsFiniteSet(out) /\ Cardinality(out) \in Nat
    BY <1>1, <2>3, FS_Subset, FS_CardinalityType
  <2>5. ~(Cardinality(out) > inviteMaxOutstandingPerTenant)
    BY SMTT(30), <2>2, <2>4, ConsoleAssumption
  <2> QED BY <2>2, <2>3, <2>5 DEF CapYieldsOnlyToRaces
<1>3. \A i \in DOMAIN rows : Born(i) /\ wanted[i] = rows[i].f
  BY <1>1 DEF Born
<1>4. \A i \in DOMAIN rows : wanted[i] = [x \in FieldsOf(rows[i].kind) |-> wanted[i][x]]
  <2> SUFFICES ASSUME NEW i \in DOMAIN rows
               PROVE  wanted[i] = [x \in FieldsOf(rows[i].kind) |-> wanted[i][x]]
    OBVIOUS
  <2>1. PICK row : row = rows[i]
    OBVIOUS
  <2>2. RowFits(i, row) /\ wanted[i] = row.f
    BY <1>1, <1>3, <2>1
  <2>3. row.f = [x \in FieldsOf(row.kind) |-> row.f[x]]
    BY ONLY ZenonT(30), <2>2 DEF RowFits
  <2> QED BY ONLY ZenonT(30), <2>1, <2>2, <2>3
<1>5. RowsInv
  BY <1>1, <1>3, <1>4 DEF RowsInv
<1> QED BY <1>2, <1>3, <1>5 DEF EditsCompose

\* Nothing has happened yet.
LEMMA FirstSeen ==
  ASSUME seen = [changed |-> {}, misled |-> {}, early |-> {}, stale |-> {}, denied |-> {}, lost |-> {}, raced |-> FALSE]
  PROVE  IsSeen(seen) /\ StaleNeedsARace /\ OfferedIsAllowed /\ SecretStaysUp
<1>1. seen.stale = {} /\ seen.denied = {} /\ seen.lost = {} /\ IsSeen(seen)
  BY DEF IsSeen
<1> QED BY <1>1 DEF StaleNeedsARace, OfferedIsAllowed, SecretStaysUp

\* A tab that has just been opened.
LEMMA FirstTab ==
  ASSUME NEW t, NEW page, NEW data, NEW p, p = tab[t], calls = NoRows, IsTab(p),
         p.page = page, p.data = data, p.dialog = NoDialog, p.reload = "none", p.fresh.data = NoRows,
         p.shown = [kind \in Revealing |-> 0],
         page \in {"detail", "list", "admin", "alerts"}, Held(page, data), UpToDate(data)
  PROVE  TabInv(t) /\ OneAtATime(t) /\ NoRace(t)
<1>1. Unanswered(t) = {}
  BY DEF Unanswered, NoRows
<1>2. DialogInv(p.role, NoDialog)
  BY DEF DialogInv, NoDialog, IsDialog, Deletes
<1>3. p.dialog.kind = "none"
  <2>1. NoDialog.kind = "none"
    BY DEF NoDialog
  <2> QED BY <2>1
<1>4. \A kind \in Revealing : p.shown[kind] = 0
  OBVIOUS
<1>5. TabInv(t)
  BY <1>2, LoadedNothing DEF TabInv
<1>6. OneAtATime(t)
  BY <1>1, <1>3, <1>4 DEF OneAtATime
<1>7. Current(tab[t])
  BY <1>3 DEF Current
<1>8. NoRace(t)
  BY <1>1, <1>7 DEF NoRace
<1> QED BY <1>5, <1>6, <1>8

\* The console starts within the invariant.
LEMMA InitStep ==
  ASSUME ConsoleInit
  PROVE  ConsoleInv
<1>1. PICK s \in Screens : PageInit(s.rows, s.open, [t \in DOMAIN s.open |-> LoaderOf(s.open[t])])
  BY DEF ConsoleInit
<1>2. rows = s.rows /\ calls = NoRows /\ made = 0 /\ wanted = [i \in DOMAIN rows |-> rows[i].f]
  BY <1>1 DEF PageInit
<1>3. RowsInv /\ EditsCompose /\ CapYieldsOnlyToRaces
  BY <1>2, FirstRows
<1>4. IsSeen(seen) /\ StaleNeedsARace /\ OfferedIsAllowed /\ SecretStaysUp
  BY <1>1, FirstSeen DEF PageInit
<1>5. tab = [t \in DOMAIN tab |-> tab[t]] /\ DOMAIN tab = DOMAIN s.open /\ DOMAIN tab \subseteq Tab
  BY <1>1, ConsoleAssumption DEF PageInit
<1>6. ASSUME NEW t \in DOMAIN tab
      PROVE  TabInv(t) /\ OneAtATime(t) /\ NoRace(t)
  <2>1. PICK screen : screen = s.open[t]
    OBVIOUS
  <2> PICK page, data : page = screen.page /\ data = LoaderOf(screen)
    OBVIOUS
  <2>2. screen.page \in {"detail", "list", "admin", "alerts"}
    BY <1>5, <2>1, ConsoleAssumption
  <2>3. Held(page, data) /\ UpToDate(data)
    <3>1. IsPage(screen)
      BY <2>2 DEF IsPage
    <3> QED BY <1>3, <3>1, LoaderOfIs
  <2>4. PICK p : p = tab[t]
    OBVIOUS
  <2>5. p = [page |-> page, role |-> s.open[t].role, sections |-> s.open[t].sections,
             data |-> data, dialog |-> NoDialog, form |-> 0, busy |-> {},
             reload |-> "none", fresh |-> [data |-> NoRows, up |-> TRUE],
             shown |-> [kind \in Revealing |-> 0]]
    BY <1>1, <1>5, <2>1, <2>4 DEF PageInit
  <2>6. /\ IsTab(p) /\ p.page = page /\ p.data = data /\ p.dialog = NoDialog /\ p.reload = "none"
        /\ p.fresh.data = NoRows /\ p.shown = [kind \in Revealing |-> 0]
    BY <2>5 DEF IsTab
  <2> QED BY <1>2, <2>2, <2>3, <2>4, <2>6, FirstTab
<1>7. made \in Nat /\ calls = [k \in DOMAIN calls |-> calls[k]] /\ DOMAIN calls = {}
  BY SMTT(30), <1>2 DEF NoRows
<1> QED BY <1>3, <1>4, <1>5, <1>6, <1>7 DEF ConsoleInv

-----------------------------------------------------------------------------
(* The theorems *)

\* The invariant of the console, whatever is open, whoever calls and in whatever order
\* calls are applied, answered and reloaded: a page and its dialogs hold rows as they
\* were and, while the version is the same, as they are; a call writes what its user
\* changed and what its page had loaded; and the five properties below.
THEOREM ConsoleInvariant == ConsoleSpec => []ConsoleInv
<1>1. ConsoleInit => ConsoleInv
  BY InitStep
<1>2. ConsoleInv /\ [ConsoleNext]_pageVars => ConsoleInv'
  BY NextStep
<1> QED BY <1>1, <1>2, PTL DEF ConsoleSpec

\* The forms of the console, relayed by server/{admin,dashboards}.ts and applied by the control plane's
\* UPDATEs, change what their users changed: a field is put back only by a form that
\* writes a whole layout, policy or rule, and only if that was computed from an old row.
THEOREM EditsComposeInvariant == ConsoleSpec => []EditsCompose
<1>1. ConsoleInv => EditsCompose
  BY DEF ConsoleInv
<1> QED BY <1>1, ConsoleInvariant, PTL

\* A whole form computed from an old row is saved only if another tab or a client of
\* the API changed the row, or its own user did not wait for an answer or a reload, or
\* an applied call was reported as failed: router.invalidate after every success is enough.
THEOREM StaleNeedsARaceInvariant == ConsoleSpec => []StaleNeedsARace
<1>1. ConsoleInv => StaleNeedsARace
  BY DEF ConsoleInv
<1> QED BY <1>1, ConsoleInvariant, PTL

\* The web app's copy of the permission matrix is within the control plane's: no button
\* of a page makes a call that requirePermission answers with 403.
THEOREM OfferedIsAllowedInvariant == ConsoleSpec => []OfferedIsAllowed
<1>1. ConsoleInv => OfferedIsAllowed
  BY DEF ConsoleInv
<1> QED BY <1>1, ConsoleInvariant, PTL

\* A key's plaintext or an invite's link is replaced, before it was dismissed, only by a
\* second issue that was made while the first had no answer.
THEOREM SecretStaysUpInvariant == ConsoleSpec => []SecretStaysUp
<1>1. ConsoleInv => SecretStaysUp
  BY DEF ConsoleInv
<1> QED BY <1>1, ConsoleInvariant, PTL

\* InviteService counts and then inserts: the cap is exceeded only if another invite was
\* stored in between, and the unique index leaves one pending invite per address.
THEOREM CapYieldsOnlyToRacesInvariant == ConsoleSpec => []CapYieldsOnlyToRaces
<1>1. ConsoleInv => CapYieldsOnlyToRaces
  BY DEF ConsoleInv
<1> QED BY <1>1, ConsoleInvariant, PTL
=============================================================================
