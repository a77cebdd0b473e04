---------------------------- MODULE MCWorkbench ----------------------------
(* A small instance of Workbench. *)
EXTENDS Workbench

(* Alone and in the sequences the documentation describes: a failed cycle  *)
(* followed by a stop, demos on a started node, a prepared demo reused and *)
(* then overwritten by a service run.                                      *)
MCPlans == { <<"benchmark">>, <<"cycle", "stop">>, <<"start", "bootstrap", "demo", "demo">>,
             <<"start", "demo_keep", "demo_use", "service">>, <<"build">>, <<"build_keep">> }
CyclePlans == {<<"cycle">>}
DemoPlans == {<<"start", "demo">>}
MCConverted == {{}, {"hermes"}}
=============================================================================
