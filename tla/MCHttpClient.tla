----------------------------- MODULE MCHttpClient -----------------------------
(* Two callers of one client. The statuses cover every branch of                *)
(* _map_response_to_exception: success, both authentication codes' class, not   *)
(* found, another 4xx, an unfollowed redirect and a 5xx.                        *)
EXTENDS HttpClient

CONSTANTS c1, c2
===============================================================================
