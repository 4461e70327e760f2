-------------------------------- MODULE Rbac --------------------------------
(***************************************************************************)
(* Who may do what: the control plane's matrix, asked by the route guards  *)
(* and again by the services, and the copy of it the web app asks before   *)
(* it shows a button.                                                      *)
(***************************************************************************)
LOCAL INSTANCE Naturals

Crud == {"create", "read", "list", "update", "delete"}

TenantAdminOps ==
  {<<"tenant", "read">>} \cup ({"user", "alert", "savedquery", "dashboard"} \X Crud)
    \cup ({"apikey", "invite"} \X {"create", "list", "revoke"})
    \cup ({"retention"} \X {"read", "update"})

MemberOps ==
  {<<"tenant", "read">>, <<"retention", "read">>}
    \cup ({"alert", "savedquery", "dashboard"} \X {"read", "list"})

PlatformOps == {"tenant"} \X (Crud \cup {"provision_admin"})

MATRIX ==
  [platform_operator |-> PlatformOps, tenant_admin |-> TenantAdminOps, member |-> MemberOps]

can(role, op) == role \in DOMAIN MATRIX /\ op \in MATRIX[role]

-----------------------------------------------------------------------------
(* The copy in packages/contracts, over the operations the pages use. *)

UI_OPERATIONS ==
  {<<"tenant", "read">>, <<"tenant", "update">>} \cup ({"user", "alert", "dashboard"} \X Crud)
    \cup ({"apikey", "invite"} \X {"create", "list", "revoke"})
    \cup ({"retention"} \X {"read", "update"})

\* Members may edit what they may list.
UI_MATRIXMembersEdit ==
  [platform_operator |-> {<<"tenant", "read">>, <<"tenant", "update">>},
   tenant_admin |-> UI_OPERATIONS \ {<<"tenant", "update">>},
   member |-> {"alert", "dashboard"} \X Crud]

UI_MATRIX ==
  [platform_operator |-> {<<"tenant", "read">>, <<"tenant", "update">>},
   tenant_admin |-> UI_OPERATIONS \ {<<"tenant", "update">>},
   member |-> {<<"tenant", "read">>, <<"retention", "read">>}
                \cup ({"alert", "dashboard"} \X {"read", "list"})]

uiCan(role, op) == role \in DOMAIN UI_MATRIX /\ op \in UI_MATRIX[role]
=============================================================================
