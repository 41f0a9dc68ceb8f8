--------------------------- MODULE MCTenantRuntime ---------------------------
(* Every combination of the loop's switches, with up to one reopening; and   *)
(* the command `live` (cli/main.py), which has every tolerance on and a       *)
(* fallback.                                                                  *)
EXTENDS TenantRuntime

AllConfigs ==
  [max_reconnects : {0, 1}, budget : {"some", "none"},
   continue_on_gap : BOOLEAN, continue_on_selection_timeout : BOOLEAN,
   continue_on_stream_ended : BOOLEAN, submit_timeout : BOOLEAN,
   stop_on_reject : BOOLEAN, fallback : BOOLEAN]

LiveConfig ==
  [max_reconnects : {2}, budget : {"some"}, continue_on_gap : {TRUE},
   continue_on_selection_timeout : {TRUE}, continue_on_stream_ended : {TRUE},
   submit_timeout : {TRUE}, stop_on_reject : {FALSE}, fallback : {TRUE}]
=============================================================================
