-------------------------- MODULE EnableRefinement --------------------------
(***************************************************************************)
(* The commands of accfg/enable.c, with the library and the driver below   *)
(* them, implement ControlService: several sysfs accesses, each of which   *)
(* may fail, and the interference of other processes and applications      *)
(* amount to one request, at most one switch and one answer.               *)
(***************************************************************************)
EXTENDS EnableCmd, FiniteSets

CONSTANT NoRequest

ASSUME RequestAssumption == NoRequest \notin [flag : CtlFlag, obj : Object]

\* A request is pending from the look at the state until the result is taken;
\* it has had its effect once the bind or unbind write took effect.
RequestOf(p) ==
    IF pc[p] = "call" THEN [flag |-> call[p].flag, obj |-> call[p].obj] ELSE NoRequest

HadEffect(p) == pc[p] = "call" /\ idx[p] \in wrote[p]

\* The state of the switchboard.
SwitchedOn == {x \in Object : Bound(x)}
Requests   == [p \in Process |-> RequestOf(p)]
Effects    == [p \in Process |-> HadEffect(p)]
Successes  == [p \in Process |-> Cardinality(counted[p])]

Service == INSTANCE ControlService WITH
    bound    <- SwitchedOn,
    req      <- Requests,
    switched <- Effects,
    served   <- Successes

\* What the refinement needs beside EnableCmd's invariant: a name's write takes
\* effect only in the call made for it, and never twice.
EffectOnce ==
    \A p \in Process :
        /\ wrote[p] \subseteq 1..idx[p]
        /\ idx[p] \in wrote[p] => pc[p] = "call" /\ step[p] \in {"verify", "ret"}

\* ImplementsService: every step of the commands, of the applications and of
\* the driver is a step of the switchboard or none at all.  No process is told
\* of a success that is not its own, no request takes effect twice, and no
\* driver or application changes what is on (enable.c, accfg_device_control(),
\* accfg_wq_control()).
ImplementsService == Service!Spec
=============================================================================
