----------------------------- MODULE IdxdDriver -----------------------------
(***************************************************************************)
(* The idxd kernel driver as accel-config sees it through sysfs.  This is  *)
(* EXTERNAL to the repository: it is modelled from the way accfg/lib uses  *)
(* the attributes "state" and "clients" and the bind/unbind files of a     *)
(* device and of a work queue (wq).                                        *)
(*                                                                         *)
(*  - devState[d], wqState[w]: what reading .../state returns;             *)
(*  - clients[w]: open character-device handles of wq w; a device's        *)
(*    "clients" attribute is the total over its wqs;                       *)
(*  - a bind or unbind write either fails and changes nothing (the driver  *)
(*    may refuse for reasons of its own: bad configuration, hardware       *)
(*    error), or takes effect.                                             *)
(***************************************************************************)
EXTENDS Integers

CONSTANTS
    Device,      \* the accelerator devices (dsaN, iaxN)
    Wq,          \* the work queues (wqN.M)
    DevOf,       \* the device each wq belongs to
    MaxClients   \* bound: open handles of one wq

ASSUME DriverAssumption ==
    /\ Device \cap Wq = {}
    /\ DevOf \in [Wq -> Device]
    /\ MaxClients \in Nat \ {0}

VARIABLES devState, wqState, clients

driverVars == <<devState, wqState, clients>>

DeviceState == {"disabled", "enabled"}
WqState     == {"disabled", "enabled", "quiescing", "locked"}

DriverTypeOK ==
    /\ devState \in [Device -> DeviceState]
    /\ wqState  \in [Wq -> WqState]
    /\ clients  \in [Wq -> 0..MaxClients]

WqsOf(d) == {w \in Wq : DevOf[w] = d}

\* A wq is only ever active on an enabled device: the driver refuses to bind
\* a wq of a disabled device and releases every wq with the device.
DriverInit ==
    /\ devState \in [Device -> DeviceState]
    /\ wqState \in [Wq -> {"disabled", "enabled"}]
    /\ \A w \in Wq : wqState[w] = "enabled" => devState[DevOf[w]] = "enabled"
    /\ clients = [w \in Wq |-> 0]

-----------------------------------------------------------------------------
\* What the driver/ symlink of a device or wq shows: it exists while bound.
Bound(x) == IF x \in Device THEN devState[x] = "enabled"
                            ELSE wqState[x] \in {"enabled", "locked"}

\* "clients" of a wq, and of a device as the total over its wqs, is positive.
HasClients(x) == IF x \in Device THEN \E w \in WqsOf(x) : clients[w] > 0
                                 ELSE clients[x] > 0

\* echo <device> > /sys/bus/.../drivers/<idxd driver>/bind
BindDevice(d) ==
    /\ devState[d] = "disabled"
    /\ devState' = [devState EXCEPT ![d] = "enabled"]
    /\ UNCHANGED <<wqState, clients>>

\* echo <device> > .../driver/unbind: the device's wqs are released with it
UnbindDevice(d) ==
    /\ devState[d] = "enabled"
    /\ devState' = [devState EXCEPT ![d] = "disabled"]
    /\ wqState' = [w \in Wq |-> IF w \in WqsOf(d) THEN "disabled" ELSE wqState[w]]
    /\ UNCHANGED clients

\* echo <wq> > /sys/bus/.../drivers/<wq driver>/bind
BindWq(w) ==
    /\ devState[DevOf[w]] = "enabled"
    /\ wqState[w] = "disabled"
    /\ wqState' = [wqState EXCEPT ![w] = "enabled"]
    /\ UNCHANGED <<devState, clients>>

\* echo <wq> > .../driver/unbind: with open handles the wq may still drain
UnbindWq(w) ==
    /\ wqState[w] \in {"enabled", "locked"}
    /\ \/ wqState' = [wqState EXCEPT ![w] = "disabled"]
       \/ clients[w] > 0 /\ wqState' = [wqState EXCEPT ![w] = "quiescing"]
    /\ UNCHANGED <<devState, clients>>

-----------------------------------------------------------------------------
\* Steps of the environment: applications and the driver's own work.

\* An application opens the character device of an enabled wq.
ClientOpen(w) ==
    /\ wqState[w] = "enabled"
    /\ clients[w] < MaxClients
    /\ clients' = [clients EXCEPT ![w] = @ + 1]
    /\ UNCHANGED <<devState, wqState>>

\* It closes it; this is possible whatever became of the wq.
ClientClose(w) ==
    /\ clients[w] > 0
    /\ clients' = [clients EXCEPT ![w] = @ - 1]
    /\ UNCHANGED <<devState, wqState>>

\* A draining wq becomes disabled.
QuiesceDone(w) ==
    /\ wqState[w] = "quiescing"
    /\ wqState' = [wqState EXCEPT ![w] = "disabled"]
    /\ UNCHANGED <<devState, clients>>

\* The driver hands an enabled wq out exclusively, and takes it back.
LockWq(w) ==
    /\ wqState[w] = "enabled"
    /\ wqState' = [wqState EXCEPT ![w] = "locked"]
    /\ UNCHANGED <<devState, clients>>

UnlockWq(w) ==
    /\ wqState[w] = "locked"
    /\ wqState' = [wqState EXCEPT ![w] = "enabled"]
    /\ UNCHANGED <<devState, clients>>
=============================================================================
