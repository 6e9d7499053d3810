------------------------------- MODULE MCHub -------------------------------
(* Configurations of the services for the hub's run: one of each mode, with *)
(* a declared timeout, and one the hub refuses.                             *)
EXTENDS InjectionHub

MCConfig == [mode : {"inject", "archive"}, timeout : {"in range"}, loopback : {TRUE}]
              \cup [mode : {"inject"}, timeout : {"none"}, loopback : {FALSE}]
=============================================================================
