----------------------------- MODULE MCEnableCmd -----------------------------
(* An instance of EnableCmd for TLC, compared with ControlService. *)
EXTENDS EnableRefinement

CONSTANTS d1, w1, w2, p1, p2

MCDevOf == [w \in {w1, w2} |-> d1]

Cmd(flag, kind, force, args) ==
    [flag |-> flag, kind |-> kind, force |-> force, args |-> args]

\* One device with two wqs: every command, with and without --force, a name
\* twice, a name that does not exist and "all".
MCCommand ==
    {Cmd("enable",  "device", FALSE, <<d1>>),
     Cmd("disable", "device", FALSE, <<BadName, d1>>),
     Cmd("disable", "device", TRUE,  <<d1>>),
     Cmd("enable",  "wq", FALSE, <<w1, AllName>>),
     Cmd("disable", "wq", FALSE, <<w1, w1>>)}
=============================================================================
