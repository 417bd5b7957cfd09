---------------------------- MODULE AccfgControl ----------------------------
(***************************************************************************)
(* accfg_device_control() and accfg_wq_control() of accfg/lib/libaccfg.c:  *)
(* the library calls that enable and disable a device or a wq.  Every      *)
(* accel-config process executes them one sysfs access at a time, so the   *)
(* accesses of several processes, of client applications and of the driver *)
(* interleave.                                                             *)
(*                                                                         *)
(* call[p] holds the arguments of process p's current call, step[p] names  *)
(* its next sysfs access and ret[p] is the value returned.  errctx[p] is   *)
(* the object saved by save_last_error() in p's accfg_ctx.  The history    *)
(* variable raced holds the processes whose look at "clients" is stale: a  *)
(* client opened the target after it, or the look itself failed.           *)
(***************************************************************************)
EXTENDS IdxdDriver

CONSTANTS
    Process,        \* concurrently running accel-config processes
    NoObject,       \* "no device and no wq"
    UnknownDriver   \* wqs whose driver_name names no wq driver of the kernel

ASSUME ControlAssumption ==
    /\ NoObject \notin Device \cup Wq
    /\ UnknownDriver \subseteq Wq

VARIABLES call, step, ret, errctx, raced

ctlVars == <<call, step, ret, errctx, raced>>

EPERM  == 1
ENOENT == 2
EIO    == 5
ENXIO  == 6
EBUSY  == 16
EINVAL == 22

Object  == Device \cup Wq
CtlFlag == {"enable", "disable"}
CtlStep == {"idle", "path", "clients", "write", "verify", "ret"}
CallRec == [flag : CtlFlag, obj : Object, force : BOOLEAN]
NoCall  == [flag |-> "enable", obj |-> NoObject, force |-> FALSE]

ControlTypeOK ==
    /\ step \in [Process -> CtlStep]
    /\ call \in [Process -> CallRec \cup {NoCall}]
    /\ \A p \in Process : step[p] # "idle" => call[p] \in CallRec
    /\ ret \in [Process -> Int]
    /\ errctx \in [Process -> Object \cup {NoObject}]
    /\ raced \subseteq Process

ControlInit ==
    /\ call = [p \in Process |-> NoCall]
    /\ step = [p \in Process |-> "idle"]
    /\ ret = [p \in Process |-> 0]
    /\ errctx = [p \in Process |-> NoObject]
    /\ raced = {}

-----------------------------------------------------------------------------
\* Process p enters the control function for obj.  A disable first resolves
\* the unbind path.  An enable builds the bind path; for a wq the driver it
\* names must exist, else the call is over with -ENOENT.
Enter(p, flag, obj, force) ==
    LET refused == flag = "enable" /\ obj \in UnknownDriver
        first   == IF refused THEN "ret"
                   ELSE IF flag = "enable" THEN "write" ELSE "path"
    IN  /\ call' = [call EXCEPT ![p] = [flag |-> flag, obj |-> obj,
                                        force |-> force]]
        /\ step' = [step EXCEPT ![p] = first]
        /\ ret' = [ret EXCEPT ![p] = IF refused THEN -ENOENT ELSE 0]
        /\ raced' = raced \ {p}

GoTo(p, s) == step' = [step EXCEPT ![p] = s] /\ UNCHANGED <<call, ret>>

Return(p, e) ==
    /\ step' = [step EXCEPT ![p] = "ret"]
    /\ ret' = [ret EXCEPT ![p] = e]
    /\ UNCHANGED call

\* The caller takes the result.
Leave(p) ==
    /\ call' = [call EXCEPT ![p] = NoCall]
    /\ step' = [step EXCEPT ![p] = "idle"]
    /\ UNCHANGED <<ret, raced>>

\* save_last_error(): the object whose sysfs access failed last
SaveLastError(p, obj) == errctx' = [errctx EXCEPT ![p] = obj]

\* get_driver_unbind_path(): realpath() fails unless the object is bound.
ResolveUnbindPath(p) ==
    /\ step[p] = "path"
    /\ IF Bound(call[p].obj)
         THEN GoTo(p, "clients")
         ELSE Return(p, -ENOENT)
    /\ UNCHANGED <<driverVars, errctx, raced>>

\* Mutant: the refusal is lost.
ReadClients_NoRefusal(p) ==
    /\ step[p] = "clients"
    /\ GoTo(p, "write")
    /\ UNCHANGED <<driverVars, errctx, raced>>

\* accfg_device_get_clients(), accfg_wq_get_clients() and the test on the
\* result: only a positive count without force refuses.
ReadClients(p) ==
    /\ step[p] = "clients"
    /\ IF HasClients(call[p].obj) /\ ~call[p].force
         THEN Return(p, -EPERM)
         ELSE GoTo(p, "write")
    /\ UNCHANGED <<driverVars, errctx, raced>>

\* The read fails: a negative value is not a positive count, so the call
\* goes on as if there were no clients.
ReadClientsFails(p) ==
    /\ step[p] = "clients"
    /\ GoTo(p, "write")
    /\ SaveLastError(p, call[p].obj)
    /\ raced' = raced \cup {p}
    /\ UNCHANGED driverVars

\* The write to the bind or unbind file, as the driver carries it out.
Drive(flag, obj) ==
    \/ obj \in Device /\ flag = "enable"  /\ BindDevice(obj)
    \/ obj \in Device /\ flag = "disable" /\ UnbindDevice(obj)
    \/ obj \in Wq     /\ flag = "enable"  /\ BindWq(obj)
    \/ obj \in Wq     /\ flag = "disable" /\ UnbindWq(obj)

\* Mutant: the state of a wq is not verified.
WriteTakesEffect_Unverified(p) ==
    /\ step[p] = "write"
    /\ Drive(call[p].flag, call[p].obj)
    /\ Return(p, 0)
    /\ UNCHANGED <<errctx, raced>>

\* sysfs_write_attr() succeeds.  A device's control function is then over, a
\* wq's goes on to verify the state.
WriteTakesEffect(p) ==
    /\ step[p] = "write"
    /\ Drive(call[p].flag, call[p].obj)
    /\ IF call[p].obj \in Device
         THEN Return(p, 0)
         ELSE GoTo(p, "verify")
    /\ UNCHANGED <<errctx, raced>>

\* Mutant: the result of the write is not looked at.
WriteRefused_Ignored(p) ==
    /\ step[p] = "write"
    /\ IF call[p].obj \in Device
         THEN Return(p, 0)
         ELSE GoTo(p, "verify")
    /\ SaveLastError(p, call[p].obj)
    /\ UNCHANGED <<driverVars, raced>>

\* sysfs_write_attr() fails: the error is saved and returned.
WriteRefused(p) ==
    /\ step[p] = "write"
    /\ Return(p, -EIO)
    /\ SaveLastError(p, call[p].obj)
    /\ UNCHANGED <<driverVars, raced>>

\* accfg_wq_state_expected() compares the state read back with the one asked
\* for; then accfg_wq_retrieve_cdev_minor() reopens the wq's directory, which
\* may fail.
VerifyWq(p) ==
    /\ step[p] = "verify"
    /\ LET expected == IF call[p].flag = "enable" THEN "enabled" ELSE "disabled"
       IN  \/ wqState[call[p].obj] = expected /\ Return(p, 0)
           \/ Return(p, -ENXIO)
    /\ UNCHANGED <<driverVars, errctx, raced>>

\* The state cannot be read: accfg_wq_get_state() returns ACCFG_WQ_UNKNOWN.
VerifyWqFails(p) ==
    /\ step[p] = "verify"
    /\ Return(p, -ENXIO)
    /\ SaveLastError(p, call[p].obj)
    /\ UNCHANGED <<driverVars, raced>>

\* The steps of a call that change no device and no wq.
LocalControlStep(p) ==
    \/ ResolveUnbindPath(p)
    \/ ReadClients(p) \/ ReadClientsFails(p)
    \/ WriteRefused(p)
    \/ VerifyWq(p) \/ VerifyWqFails(p)

-----------------------------------------------------------------------------
\* Everything that happens outside the accel-config processes.  A client that
\* opens wq w races with every process that disables w or its device.
Environment ==
    \E w \in Wq :
        /\ \/ /\ ClientOpen(w)
              /\ raced' = raced \cup
                   {p \in Process : /\ step[p] = "write"
                                    /\ call[p].obj \in {w, DevOf[w]}}
           \/ /\ \/ ClientClose(w)
                 \/ QuiesceDone(w)
                 \/ LockWq(w)
                 \/ UnlockWq(w)
              /\ UNCHANGED raced
        /\ UNCHANGED <<call, step, ret, errctx>>
=============================================================================
