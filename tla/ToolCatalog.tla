------------------------------ MODULE ToolCatalog ------------------------------
(***************************************************************************)
(* The MCP tools: the category TOOL_CATEGORY of rate_limit.py puts each    *)
(* into, and what its implementation asks of the backend. A tool sends at  *)
(* most one request. Paths, parameters and the fields of bodies are left   *)
(* out; what is kept of a method of the REST API is what its request does  *)
(* to the cluster and what becomes of the answer's body:                   *)
(*   "parsed": a body of the wrong form raises; "ignored": it is not read, *)
(*   or not missed; "swallowed": no failure of the request is passed on.   *)
(***************************************************************************)

Request(service, effect, body) == [service |-> service, effect |-> effect, body |-> body]

Nothing == Request("none", "none", "ignored")             \* no request at all
Read == Request("cluster", "read", "parsed")
Command == Request("cluster", "change", "ignored")
Update == Request("cluster", "change", "parsed")
CapellaRead == Request("capella", "read", "parsed")
CapellaChange == Request("capella", "change", "parsed")

-------------------------------------------------------------------------------
(* couchbase/analytics_api.py, couchbase/cluster_api.py, couchbase/client.py *)

\* A SQL++ statement; `readonly` is a field of the request.
Execute(readonly) == Request("cluster", IF readonly THEN "read" ELSE "statement", "parsed")
ExecuteReadonly == Read                                    \* sent with GET

AdminAPI == [get_service_status |-> Read, get_ingestion_status |-> Read,
             get_active_requests |-> Read, get_completed_requests |-> Read,
             cancel_request |-> Command, restart_node |-> Command, restart_service |-> Command]

ConfigAPI == [get_service_config |-> Read, update_service_config |-> Update]

\* An answer that is no settings object is taken for an acknowledgement.
SettingsAPI == [get_settings |-> Read, update_settings |-> Command]

LinksAPI == [get_all_links |-> Read, get_link |-> Read,
             create_link |-> Command, update_link |-> Command, delete_link |-> Command]

LibraryAPI == [list_libraries |-> Read, delete_library |-> Command]

ClusterAPI == [get_cluster_info |-> Read, get_cluster_details |-> Read,
               get_cluster_tasks |-> Read, get_rebalance_progress |-> Read,
               get_auto_failover_settings |-> Read, configure_auto_failover |-> Command,
               get_system_events |-> Read, who_am_i |-> Read]

\* check_permissions is a POST that changes nothing.
SecurityAPI == [list_users |-> Read, get_user |-> Read,
                upsert_user |-> Command, delete_user |-> Command,
                list_groups |-> Read, upsert_group |-> Command, delete_group |-> Command,
                list_roles |-> Read, check_permissions |-> Read]

CapellaAPI == [list_organizations |-> CapellaRead, list_clusters |-> CapellaRead,
               get_cluster |-> CapellaRead, create_cluster |-> CapellaChange,
               delete_cluster |-> CapellaChange, list_backups |-> CapellaRead,
               create_backup |-> CapellaChange, restore_backup |-> CapellaChange,
               list_api_keys |-> CapellaRead]

\* AnalyticsClient.ping answers False when the request fails.
Ping == Request("cluster", "read", "swallowed")

-------------------------------------------------------------------------------
(* tools/: the request of each tool, by the name it is registered under *)

MetaTools == [list_clusters |-> Nothing, get_capabilities |-> Nothing]

SchemaTools == [list_dataverses |-> Execute(TRUE), list_datasets |-> Execute(TRUE),
                infer_schema |-> Execute(TRUE)]

QueryTools == [execute_query |-> Execute(FALSE), execute_query_readonly |-> ExecuteReadonly,
               execute_query_paginated |-> ExecuteReadonly,
               fetch_next_page |-> ExecuteReadonly, explain_query |-> ExecuteReadonly]

AdminTools == [t \in {"get_service_status", "get_ingestion_status", "get_active_requests",
                      "get_completed_requests", "cancel_request", "restart_service",
                      "restart_node"} |-> AdminAPI[t]]

ConfigTools == [get_service_config |-> ConfigAPI.get_service_config,
                update_service_config |-> ConfigAPI.update_service_config,
                get_analytics_settings |-> SettingsAPI.get_settings,
                update_analytics_settings |-> SettingsAPI.update_settings]

LinkTools == [list_links |-> LinksAPI.get_all_links, get_link |-> LinksAPI.get_link,
              create_link |-> LinksAPI.create_link, update_link |-> LinksAPI.update_link,
              delete_link |-> LinksAPI.delete_link]

LibraryTools == [list_libraries |-> LibraryAPI.list_libraries,
                 delete_library |-> LibraryAPI.delete_library]

SecurityTools == [t \in {"list_users", "get_user", "upsert_user", "delete_user",
                         "list_groups", "upsert_group", "delete_group", "list_roles",
                         "check_permissions"} |-> SecurityAPI[t]]

ClusterTools == [get_cluster_info |-> ClusterAPI.get_cluster_info,
                 get_cluster_details |-> ClusterAPI.get_cluster_details,
                 get_cluster_tasks |-> ClusterAPI.get_cluster_tasks,
                 get_rebalance_progress |-> ClusterAPI.get_rebalance_progress,
                 get_auto_failover_settings |-> ClusterAPI.get_auto_failover_settings,
                 configure_auto_failover |-> ClusterAPI.configure_auto_failover,
                 get_system_events |-> ClusterAPI.get_system_events,
                 who_am_i |-> ClusterAPI.who_am_i, ping_cluster |-> Ping]

CapellaTools == [capella_list_organizations |-> CapellaAPI.list_organizations,
                 capella_list_clusters |-> CapellaAPI.list_clusters,
                 capella_get_cluster |-> CapellaAPI.get_cluster,
                 capella_create_cluster |-> CapellaAPI.create_cluster,
                 capella_delete_cluster |-> CapellaAPI.delete_cluster,
                 capella_list_backups |-> CapellaAPI.list_backups,
                 capella_create_backup |-> CapellaAPI.create_backup,
                 capella_restore_backup |-> CapellaAPI.restore_backup,
                 capella_list_api_keys |-> CapellaAPI.list_api_keys]

\* server.py registers every group; no two have a tool of the same name.
Groups == {MetaTools, SchemaTools, QueryTools, AdminTools, ConfigTools, LinkTools,
           LibraryTools, SecurityTools, ClusterTools, CapellaTools}

Tools == UNION {DOMAIN group : group \in Groups}

RequestOf == [t \in Tools |-> (CHOOSE group \in Groups : t \in DOMAIN group)[t]]

-------------------------------------------------------------------------------
(* rate_limit.py *)

QueryCategory == {"infer_schema", "execute_query", "execute_query_readonly",
                  "execute_query_paginated", "fetch_next_page", "explain_query"}

WriteCategoryOutdated ==                   \* mutant: two tools came later and were not listed
    {"cancel_request", "restart_service", "restart_node", "update_service_config",
     "update_analytics_settings", "create_link", "update_link", "delete_link",
     "delete_library", "upsert_user", "delete_user", "upsert_group", "delete_group",
     "configure_auto_failover", "capella_create_cluster", "capella_delete_cluster"}

WriteCategory ==
    {"cancel_request", "restart_service", "restart_node", "update_service_config",
     "update_analytics_settings", "create_link", "update_link", "delete_link",
     "delete_library", "upsert_user", "delete_user", "upsert_group", "delete_group",
     "configure_auto_failover", "capella_create_cluster", "capella_delete_cluster",
     "capella_create_backup", "capella_restore_backup"}

\* TOOL_CATEGORY lists the others as "read", which is also what category_for answers
\* for a tool it does not know.
CategoryFor(tool) ==
    CASE tool \in QueryCategory -> "query"
      [] tool \in WriteCategory -> "write"
      [] OTHER -> "read"
===============================================================================
