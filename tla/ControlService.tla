--------------------------- MODULE ControlService ---------------------------
(***************************************************************************)
(* What enabling and disabling promise a user, without sysfs: a switchboard*)
(* of devices and wqs.  A process asks for one object to be switched on or *)
(* off.  Between the request and the answer the switch happens at most     *)
(* once and at one moment, and only if the object is in the opposite       *)
(* state.  A success may be reported only for a request whose switch       *)
(* happened; a failure may be reported for any.  Nothing else switches     *)
(* anything, and a device that is switched off takes its wqs with it.      *)
(***************************************************************************)
EXTENDS Integers

CONSTANTS
    Device, Wq,
    DevOf,         \* the device of each wq
    Process,
    NoRequest

VARIABLES
    bound,         \* the objects that are on
    req,           \* the request each process waits for
    switched,      \* whether it has had its effect
    served         \* the successes reported to each process

vars == <<bound, req, switched, served>>

Object  == Device \cup Wq
Request == [flag : {"enable", "disable"}, obj : Object]

\* A wq is on only if its device is.
WqOnDevice == \A w \in Wq : w \in bound => DevOf[w] \in bound

Init ==
    /\ bound \subseteq Object
    /\ WqOnDevice
    /\ req = [p \in Process |-> NoRequest]
    /\ switched = [p \in Process |-> FALSE]
    /\ served = [p \in Process |-> 0]

Ask(p) ==
    /\ req[p] = NoRequest
    /\ \E r \in Request : req' = [req EXCEPT ![p] = r]
    /\ UNCHANGED <<bound, switched, served>>

\* The objects that go with x when it is switched off.
With(x) == {x} \cup {w \in Wq : DevOf[w] = x}

Switch(p) ==
    /\ req[p] # NoRequest
    /\ ~switched[p]
    /\ LET x == req[p].obj
       IN  \/ /\ req[p].flag = "enable" /\ x \notin bound
              /\ x \in Wq => DevOf[x] \in bound
              /\ bound' = bound \cup {x}
           \/ /\ req[p].flag = "disable" /\ x \in bound
              /\ bound' = bound \ With(x)
    /\ switched' = [switched EXCEPT ![p] = TRUE]
    /\ UNCHANGED <<req, served>>

Answer(p) ==
    /\ req[p] # NoRequest
    /\ req' = [req EXCEPT ![p] = NoRequest]
    /\ switched' = [switched EXCEPT ![p] = FALSE]
    /\ \/ UNCHANGED served
       \/ switched[p] /\ served' = [served EXCEPT ![p] = @ + 1]
    /\ UNCHANGED bound

Next == \E p \in Process : Ask(p) \/ Switch(p) \/ Answer(p)

Spec == Init /\ [][Next]_vars
=============================================================================
