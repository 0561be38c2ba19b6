--------------------------- MODULE MC_RoleLabeler ---------------------------
(* Instantiates RoleLabeler with two StatefulSet pods "db-0" and "db-1" of  *)
(* the MySQL object "db", and an optional third pod without the selector   *)
(* labels.                                                                  *)
EXTENDS RoleLabeler, TLC

CONSTANTS a, b, c

\* Pod names as "."-separated segments; the group's members report
\* MEMBER_HOST as "<pod>.db-gvr.<namespace>.svc".
MCName == (a :> <<"db-0">>) @@ (b :> <<"db-1">>) @@ (c :> <<"other-0">>)
MCDomain == <<"db-gvr", "demo", "svc">>
=============================================================================
