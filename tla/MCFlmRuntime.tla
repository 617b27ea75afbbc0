----------------------------- MODULE MCFlmRuntime ------------------------------
(* One update of one sector and two pages. *)
EXTENDS FlmRuntime

MCCalls == <<"init", "erase", "program", "program", "uninit">>

MCShort == <<"init", "program", "uninit">>
===============================================================================
