--------------------------- MODULE RefreshTokens ---------------------------
(***************************************************************************)
(* AuthService of the control-plane with its refresh_tokens table: login,  *)
(* refresh with rotation and reuse detection, and logout, by concurrent    *)
(* requests whose statements interleave in PostgreSQL under READ           *)
(* COMMITTED.  A row is known by its position in rows; the hash of its     *)
(* secret is part of what a client presents, so presenting a row stands    *)
(* for presenting its token.  The tenant is fixed: every statement runs    *)
(* under its row-level security.                                           *)
(***************************************************************************)
EXTENDS Integers, Sequences, FiniteSets

CONSTANTS
  Req,         \* requests handled at a time
  MaxTokens,   \* bound on the rows minted
  MaxChanges   \* bound on changes of tenant, user and clock, and on failures

ASSUME TokensAssumption ==
  /\ MaxTokens \in Nat /\ MaxChanges \in Nat

VARIABLES
  rows,      \* refresh_tokens: family and parent of every row
  rotated,   \* rows with rotated_at set
  revoked,   \* rows with revoked_at set
  expired,   \* rows past expires_at
  active,    \* which of tenant and user have status active
  pc,        \* where the handler of a request stands
  tok,       \* the row it was presented with, 0 for none
  new,       \* the row it minted, 0 for none
  snap,      \* rows the UPDATE of its revokeFamily has seen
  changes

VARIABLES
  seen,      \* history: what of the account was active at some time during a request
  dead,      \* history: families for which a revokeFamily has committed
  raced      \* history: rows minted during a revokeFamily of their family, and their successors

tokenVars == <<rows, rotated, revoked, expired>>
handlerVars == <<pc, tok, new, snap>>
historyVars == <<seen, dead, raced>>
vars == <<tokenVars, active, handlerVars, changes, historyVars>>

Token == 1..Len(rows)
Account == {"tenant", "user"}

PC == {"idle", "slug", "password", "mint", "find", "tenant", "user", "rotate", "insert",
       "lookup", "revoke", "revoking", "leave", "leaving",
       "ok", "rejected", "failed", "done"}

\* A handler that has answered.
Answered == {"ok", "rejected", "failed", "done"}

TypeOK ==
  /\ rows \in Seq([family : 1..MaxTokens, parent : 0..MaxTokens]) /\ Len(rows) <= MaxTokens
  /\ rotated \subseteq Token /\ revoked \subseteq Token /\ expired \subseteq Token
  /\ active \subseteq Account
  /\ pc \in [Req -> PC]
  /\ tok \in [Req -> 0..Len(rows)] /\ new \in [Req -> 0..Len(rows)]
  /\ snap \in [Req -> SUBSET Token]
  /\ changes \in 0..MaxChanges
  /\ seen \in [Req -> SUBSET Account] /\ dead \subseteq Token /\ raced \subseteq Token

Init ==
  /\ rows = <<>> /\ rotated = {} /\ revoked = {} /\ expired = {}
  /\ active = Account
  /\ pc = [p \in Req |-> "idle"]
  /\ tok = [p \in Req |-> 0] /\ new = [p \in Req |-> 0] /\ snap = [p \in Req |-> {}]
  /\ changes = 0 /\ seen = [p \in Req |-> {}] /\ dead = {} /\ raced = {}

Goto(p, label) == pc' = [pc EXCEPT ![p] = label]

FamilyOf(t) == rows[t].family
Family(f) == {t \in Token : FamilyOf(t) = f}
Live == Token \ (rotated \cup revoked)

\* The row lock an uncommitted rotate holds.
Locked(t) == \E p \in Req : pc[p] = "insert" /\ tok[p] = t

-----------------------------------------------------------------------------
(* Requests arrive. *)

Begin(p, label, t) ==
  /\ pc[p] = "idle"
  /\ Goto(p, label)
  /\ tok' = [tok EXCEPT ![p] = t] /\ new' = [new EXCEPT ![p] = 0]
  /\ seen' = [seen EXCEPT ![p] = active]
  /\ UNCHANGED <<tokenVars, active, snap, changes, dead, raced>>

Refresh(p, t) == Begin(p, "find", t)
Logout(p, t) == Begin(p, "lookup", t)

Login(p) == Begin(p, "slug", 0)

-----------------------------------------------------------------------------
(* login *)

\* login reads the tenant, then the user's credentials with its status, and
\* verifies the password, which may be wrong.
Credentials(p) ==
  /\ \/ /\ pc[p] = "slug"
        /\ Goto(p, IF "tenant" \in active THEN "password" ELSE "rejected")
     \/ /\ pc[p] = "password"
        /\ \/ "user" \in active /\ Goto(p, "mint")
           \/ Goto(p, "rejected")
  /\ UNCHANGED <<tokenVars, active, tok, new, snap, changes, historyVars>>

mintRefreshToken(p) ==
  /\ pc[p] = "mint" /\ Len(rows) < MaxTokens
  /\ rows' = Append(rows, [family |-> Len(rows) + 1, parent |-> 0])
  /\ new' = [new EXCEPT ![p] = Len(rows) + 1]
  /\ Goto(p, "ok")
  /\ UNCHANGED <<rotated, revoked, expired, active, tok, snap, changes, historyVars>>

-----------------------------------------------------------------------------
(* refresh *)

\* findById and the checks on the row it returned: a superseded or revoked
\* token is reuse, an expired one is just rejected.
FindById(p) ==
  /\ pc[p] = "find"
  /\ Goto(p, IF tok[p] \in rotated \cup revoked THEN "revoke"
             ELSE IF tok[p] \in expired THEN "rejected" ELSE "tenant")
  /\ UNCHANGED <<tokenVars, active, tok, new, snap, changes, historyVars>>

\* The account is not looked at.
CheckAccountNever(p) ==
  /\ pc[p] \in {"tenant", "user"}
  /\ Goto(p, IF pc[p] = "tenant" THEN "user" ELSE "rotate")
  /\ UNCHANGED <<tokenVars, active, tok, new, snap, changes, historyVars>>

\* tenants.findById, then users.findCredentialsById.
CheckAccount(p) ==
  /\ pc[p] \in {"tenant", "user"}
  /\ Goto(p, IF pc[p] \notin active THEN "revoke"
             ELSE IF pc[p] = "tenant" THEN "user" ELSE "rotate")
  /\ UNCHANGED <<tokenVars, active, tok, new, snap, changes, historyVars>>

\* The UPDATE has no condition on rotated_at and revoked_at.
RotateBlind(p) ==
  /\ pc[p] = "rotate" /\ ~Locked(tok[p])
  /\ Goto(p, "insert")
  /\ UNCHANGED <<tokenVars, active, tok, new, snap, changes, historyVars>>

\* The UPDATE does not look at revoked_at.
RotateRevoked(p) ==
  /\ pc[p] = "rotate" /\ ~Locked(tok[p])
  /\ Goto(p, IF tok[p] \in rotated THEN "revoke" ELSE "insert")
  /\ UNCHANGED <<tokenVars, active, tok, new, snap, changes, historyVars>>

\* rotate's UPDATE waits for the row's lock and takes it if the row is live.
\* Losing the race is treated as reuse.
Rotate(p) ==
  /\ pc[p] = "rotate" /\ ~Locked(tok[p])
  /\ Goto(p, IF tok[p] \in rotated \cup revoked THEN "revoke" ELSE "insert")
  /\ UNCHANGED <<tokenVars, active, tok, new, snap, changes, historyVars>>

\* rotate's INSERT and COMMIT: both writes become visible.
RotateCommit(p) ==
  /\ pc[p] = "insert" /\ Len(rows) < MaxTokens
  /\ rotated' = rotated \cup {tok[p]}
  /\ rows' = Append(rows, [family |-> FamilyOf(tok[p]), parent |-> tok[p]])
  /\ new' = [new EXCEPT ![p] = Len(rows) + 1]
  /\ raced' = IF tok[p] \in raced \/ \E q \in Req : tok[p] \in snap[q]
                THEN raced \cup {Len(rows) + 1} ELSE raced
  /\ Goto(p, "ok")
  /\ UNCHANGED <<revoked, expired, active, tok, snap, changes, seen, dead>>

-----------------------------------------------------------------------------
(* logout and revokeFamily *)

LogoutFindById(p) ==
  /\ pc[p] = "lookup" /\ Goto(p, "leave")
  /\ UNCHANGED <<tokenVars, active, tok, new, snap, changes, historyVars>>

\* revokeFamily's UPDATE sees the rows that are committed when it starts.
RevokeFamily(p) ==
  /\ pc[p] \in {"revoke", "leave"}
  /\ snap' = [snap EXCEPT ![p] = Family(FamilyOf(tok[p])) \ revoked]
  /\ Goto(p, IF pc[p] = "revoke" THEN "revoking" ELSE "leaving")
  /\ UNCHANGED <<tokenVars, active, tok, new, changes, historyVars>>

\* Only the presented row is revoked.
RevokeFamilyCommitOne(p) ==
  /\ pc[p] \in {"revoking", "leaving"} /\ \A t \in snap[p] : ~Locked(t)
  /\ revoked' = revoked \cup (snap[p] \cap {tok[p]})
  /\ dead' = dead \cup {FamilyOf(tok[p])}
  /\ snap' = [snap EXCEPT ![p] = {}]
  /\ Goto(p, IF pc[p] = "revoking" THEN "rejected" ELSE "done")
  /\ UNCHANGED <<rows, rotated, expired, active, tok, new, changes, seen, raced>>

\* It waits for the locks on those rows, and commits.
RevokeFamilyCommit(p) ==
  /\ pc[p] \in {"revoking", "leaving"} /\ \A t \in snap[p] : ~Locked(t)
  /\ revoked' = revoked \cup snap[p]
  /\ dead' = dead \cup {FamilyOf(tok[p])}
  /\ snap' = [snap EXCEPT ![p] = {}]
  /\ Goto(p, IF pc[p] = "revoking" THEN "rejected" ELSE "done")
  /\ UNCHANGED <<rows, rotated, expired, active, tok, new, changes, seen, raced>>

-----------------------------------------------------------------------------
(* What happens around the handlers. *)

Change == changes < MaxChanges /\ changes' = changes + 1

\* A statement fails: the transaction rolls back and the client gets a 500.
Fail(p) ==
  /\ Change
  /\ pc[p] \notin Answered \cup {"idle"}
  /\ Goto(p, "failed") /\ snap' = [snap EXCEPT ![p] = {}]
  /\ UNCHANGED <<tokenVars, active, tok, new, historyVars>>

\* TenantService and UserService change a status.
SetStatus(a) ==
  /\ Change
  /\ active' = IF a \in active THEN active \ {a} ELSE active \cup {a}
  /\ seen' = [p \in Req |-> IF pc[p] = "idle" THEN {} ELSE seen[p] \cup active']
  /\ UNCHANGED <<tokenVars, handlerVars, dead, raced>>

Expire(t) ==
  /\ Change
  /\ t \notin expired /\ expired' = expired \cup {t}
  /\ UNCHANGED <<rows, rotated, revoked, active, handlerVars, historyVars>>

Handle(p) ==
  \/ Credentials(p) \/ mintRefreshToken(p)
  \/ FindById(p) \/ CheckAccount(p) \/ Rotate(p) \/ RotateCommit(p)
  \/ LogoutFindById(p) \/ RevokeFamily(p) \/ RevokeFamilyCommit(p)

Environment ==
  \/ \E p \in Req : Fail(p)
  \/ \E a \in Account : SetStatus(a)
  \/ \E t \in Token : Expire(t)

\* The answer has been sent; the worker takes another request.
Answer(p) ==
  /\ pc[p] \in Answered /\ Goto(p, "idle")
  /\ tok' = [tok EXCEPT ![p] = 0] /\ new' = [new EXCEPT ![p] = 0]
  /\ seen' = [seen EXCEPT ![p] = {}]
  /\ UNCHANGED <<tokenVars, active, snap, changes, dead, raced>>

\* Any client, with any token that was ever handed out.
Arrive(p) == Login(p) \/ \E t \in Token : Refresh(p, t) \/ Logout(p, t)

Next == Environment \/ \E p \in Req : Arrive(p) \/ Handle(p) \/ Answer(p)

Spec == Init /\ [][Next]_vars

-----------------------------------------------------------------------------
\* auth-service.ts:109-113, refresh-token-repository.ts:65-77: "of two
\* concurrent presentations of the same token, exactly one wins": a row is
\* the parent of at most one row, of its own family, and then it is rotated.
RotatedOnce ==
  \A s, t \in Token :
    /\ rows[t].parent # 0 => /\ rows[t].parent \in rotated
                             /\ FamilyOf(rows[t].parent) = FamilyOf(t)
    /\ (rows[s].parent = rows[t].parent /\ rows[t].parent # 0) => s = t

\* auth-service.ts:104-108: a refresh succeeds only if tenant and user were
\* each active at some time while it ran, so a suspended tenant or a
\* deactivated user outlives the change by the requests then in flight.
ActiveToRefresh == \A p \in Req : pc[p] = "ok" => seen[p] = Account

\* auth-service.ts:99-101, 174-175: after a revokeFamily has committed, a row
\* of the family is live only if its rotation, or that of an ancestor, ran
\* at the same time.
SurvivesOnlyRace == \A t \in Live : FamilyOf(t) \in dead => t \in raced

\* auth-service.ts:174, "logout revokes the presented token's whole family":
\* no row of a family is live once a revokeFamily has committed.
WholeFamily == \A t \in Live : FamilyOf(t) \notin dead
=============================================================================
