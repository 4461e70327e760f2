------------------------------ MODULE MCConsole ------------------------------
(***************************************************************************)
(* Two tabs on the same page, or on two pages of the same rows: each of    *)
(* AllScreens is explored by itself.                                       *)
(***************************************************************************)
EXTENDS Console, TLC

CONSTANTS t1, t2, p1, p2, p3, v1, v2, n1, n2, e1, e2, x1, x2, u1, r1, q1, s1

TwoTabs == {t1, t2}
ThreePanels == {p1, p2, p3}
NewValue == {v2}      \* the rows start with v1 and n1
TwoNames == {n1, n2}
NewName == {n2}
TwoEmails == {e1, e2}
TwoSettings == {x1, x2}
OneQuery == {q1}
OneSaved == {s1}

Admin(page, sections) == [page |-> page, role |-> "tenant_admin", sections |-> sections]
Member(page, sections) == [page |-> page, role |-> "member", sections |-> sections]
Both(page) == [t \in TwoTabs |-> page]
D == Dash :> Dashboard(n1, Layout(p1 :> v1))
U == u1 :> User(e1, [y \in UserField |-> x1])
P == Policy :> RetentionPolicy([hotDays |-> 1, coldDays |-> 2])
R == r1 :> Rule(n1, v1, q1, None)
AllScreens ==
  {[open |-> Both(Admin("detail", {})), rows |-> D],
   [open |-> (t1 :> Admin("detail", {})) @@ (t2 :> Admin("list", {})), rows |-> D],
   [open |-> Both(Admin("admin", {"user"})), rows |-> U],
   [open |-> Both(Admin("admin", {"policy"})), rows |-> P],
   [open |-> Both(Admin("admin", {"apikey"})), rows |-> NoRows],
   [open |-> Both(Admin("admin", {"invite"})), rows |-> NoRows],
   [open |-> Both(Admin("alerts", {})), rows |-> R],
   [open |-> (t1 :> Member("detail", {})) @@ (t2 :> Member("list", {})), rows |-> D],
   [open |-> (t1 :> Member("admin", {"user", "apikey", "invite", "policy"}))
                @@ (t2 :> Member("alerts", {})), rows |-> U @@ P @@ R]}
AlertsScreen == {[open |-> Both(Admin("alerts", {})), rows |-> R]}
ConsoleSym == Permutations(TwoTabs) \cup Permutations({p2, p3})
=============================================================================
