---------------------------- MODULE MCDashboard ----------------------------
(***************************************************************************)
(* An instance of Dashboard for TLC: a model with a colon in its name, and *)
(* a provider with one, whose key is that of the first pair's provider     *)
(* with another model.                                                     *)
(***************************************************************************)
EXTENDS Dashboard

MCPairs ==
    {[provider |-> <<"p">>, model |-> <<"llama", ":", "8b">>],
     [provider |-> <<"p">>, model |-> <<"q", ":", "m">>],
     [provider |-> <<"p", ":", "q">>, model |-> <<"m">>]}
=============================================================================
