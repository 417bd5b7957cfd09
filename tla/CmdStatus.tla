------------------------------ MODULE CmdStatus ------------------------------
(***************************************************************************)
(* How accel-config learns why a device refused a command: the attribute   *)
(* cmd_status of each device, the global init_cmd_status and the error     *)
(* context of accfg/lib/libaccfg.c, and the report of main().              *)
(*                                                                         *)
(* A process clears cmd_status of every device it scans and remembers what *)
(* it then reads.  When an access fails later, save_last_error() reads     *)
(* cmd_status again.  Two processes and the driver interleave.             *)
(*                                                                         *)
(* A status is a 32-bit word: soft is bit 31, sw the bits 16..30 and low   *)
(* the bits 0..15.                                                         *)
(***************************************************************************)
EXTENDS Integers, Sequences

CONSTANTS
    Process,
    Device,
    DeviceDir,    \* the devices in the order of the scan
    Code,         \* the statuses the driver sets when a command fails
    MaxFail       \* bound: accesses of a process that fail

ASSUME CmdStatusAssumption ==
    /\ DeviceDir \in Seq(Device) /\ DeviceDir # <<>>   \* else there is no status
    /\ \A d \in Device : \E i \in DOMAIN DeviceDir : DeviceDir[i] = d
    /\ \A i, j \in DOMAIN DeviceDir : DeviceDir[i] = DeviceDir[j] => i = j
    /\ MaxFail \in Nat

Status(soft, sw, low) == [soft |-> soft, sw |-> sw, low |-> low]
StatusSet == [soft : BOOLEAN, sw : Nat, low : Nat]
Success   == Status(FALSE, 0, 0)

\* ACCFG_CMD_STATUS_ERROR, 0x80010000
LibError  == Status(TRUE, 1, 0)

\* The negative errno that accfg_get_param_long() returns instead of a status.
ReadError == [status |-> "unread"]

ASSUME CodeAssumption == Code \subseteq StatusSet \ {Success, LibError}

VARIABLES
    status,      \* sysfs: cmd_status of each device
    readOnly,    \* sysfs is mounted read-only
    erange,      \* the processes whose errno is ERANGE from an earlier strtol()
    pc, di,
    initStatus,  \* the global init_cmd_status of each process
    target,      \* the device whose access failed
    saved,       \* ctx->error_ctx: the device and its status
    fails,
    set,         \* history: the devices whose status was set since p's scan
    expect       \* history: what the driver set for p's failure, while nobody
                 \* else wrote that status

vars == <<status, readOnly, erange, pc, di, initStatus, target, saved, fails, set, expect>>

None == [dev |-> "none"]

TypeOK ==
    /\ status \in [Device -> Code \cup {Success}]
    /\ readOnly \in BOOLEAN
    /\ erange \subseteq Process
    /\ pc \in [Process -> {"clear", "read", "run", "failed", "done"}]
    /\ di \in [Process -> 1..(Len(DeviceDir) + 1)]
    /\ initStatus \in [Process -> Code \cup {Success, ReadError}]
    /\ target \in [Process -> Device]
    /\ saved \in [Process -> {None} \cup [dev : Device, st : Code \cup {Success, LibError}]]
    /\ fails \in [Process -> 0..MaxFail]
    /\ set \in [Process -> SUBSET Device]
    /\ expect \in [Process -> Code \cup {Success}]

\* The devices may carry the status of commands that failed long ago.
Init ==
    /\ status \in [Device -> Code \cup {Success}]
    /\ readOnly \in BOOLEAN
    /\ erange \in SUBSET Process
    /\ pc = [p \in Process |-> "clear"]
    /\ di = [p \in Process |-> 1]
    /\ initStatus = [p \in Process |-> Success]
    /\ target = [p \in Process |-> DeviceDir[1]]
    /\ saved = [p \in Process |-> None]
    /\ fails = [p \in Process |-> 0]
    /\ set = [p \in Process |-> {}]
    /\ expect = [p \in Process |-> Success]

-----------------------------------------------------------------------------
\* What a write to cmd_status of d on behalf of p means for the histories.
Touch(p, d) ==
    /\ set' = [q \in Process |-> set[q] \cup {d}]
    /\ expect' = [q \in Process |-> IF q # p /\ target[q] = d THEN Success
                                    ELSE expect[q]]

\* add_device(): the status is cleared, which fails on a read-only sysfs.
ClearStatus(p) ==
    /\ pc[p] = "clear" /\ di[p] <= Len(DeviceDir)
    /\ pc' = [pc EXCEPT ![p] = "read"]
    /\ IF readOnly
         THEN UNCHANGED <<status, set, expect>>
         ELSE /\ status' = [status EXCEPT ![DeviceDir[di[p]]] = Success]
              /\ Touch(p, DeviceDir[di[p]])
    /\ UNCHANGED <<readOnly, erange, di, initStatus, target, saved, fails>>

\* Mutant: the initial status is not read back.
ReadInitial_Assumed(p, s) ==
    /\ pc[p] = "read"
    /\ di' = [di EXCEPT ![p] = @ + 1]
    /\ pc' = [pc EXCEPT ![p] = IF di[p] = Len(DeviceDir) THEN "run" ELSE "clear"]
    /\ set' = [set EXCEPT ![p] = @ \ {DeviceDir[di[p]]}]
    /\ UNCHANGED <<status, readOnly, erange, initStatus, target, saved, fails, expect>>

\* init_cmd_status = s, and the next device overwrites it.
ReadInitial(p, s) ==
    /\ pc[p] = "read"
    /\ initStatus' = [initStatus EXCEPT ![p] = s]
    /\ di' = [di EXCEPT ![p] = @ + 1]
    /\ pc' = [pc EXCEPT ![p] = IF di[p] = Len(DeviceDir) THEN "run" ELSE "clear"]
    /\ set' = [set EXCEPT ![p] = @ \ {DeviceDir[di[p]]}]
    /\ UNCHANGED <<status, readOnly, erange, target, saved, fails, expect>>

\* s is what cmd_status is now, ...
ReadSucceeds(p) == ReadInitial(p, status[DeviceDir[di[p]]])

\* ... or, if it can't be opened or read, no status at all.
ReadFails(p) == ReadInitial(p, ReadError)

\* An access of p to d or to one of its parts fails.  The driver may have set
\* the status (external).
AccessFails(p, d) ==
    /\ pc[p] = "run" /\ fails[p] < MaxFail
    /\ pc' = [pc EXCEPT ![p] = "failed"]
    /\ target' = [target EXCEPT ![p] = d]
    /\ fails' = [fails EXCEPT ![p] = @ + 1]
    /\ \/ /\ status' = status
          /\ expect' = [expect EXCEPT ![p] = Success]
          /\ UNCHANGED set
       \/ \E c \in Code :
            /\ status' = [status EXCEPT ![d] = c]
            /\ expect' = [q \in Process |->
                            IF q = p THEN c
                            ELSE IF target[q] = d THEN Success ELSE expect[q]]
            /\ set' = [q \in Process |-> set[q] \cup {d}]
    /\ UNCHANGED <<readOnly, erange, di, initStatus, saved>>

\* accfg_device_get_cmd_status(): a stale ERANGE, or a status that is the same
\* as the initial one if that is not 0, is an error of the library's own.  No
\* status is the same as a failed read.
GetCmdStatus(p, d) ==
    IF p \in erange THEN LibError
    ELSE IF initStatus[p] # Success /\ initStatus[p] = status[d] THEN LibError
    ELSE status[d]

\* Mutant: the first error stays.
SaveLastError_Once(p) ==
    /\ pc[p] = "failed"
    /\ pc' = [pc EXCEPT ![p] = "run"]
    /\ saved' = IF saved[p] # None THEN saved
                ELSE [saved EXCEPT ![p] = [dev |-> target[p], st |-> GetCmdStatus(p, target[p])]]
    /\ UNCHANGED <<status, readOnly, erange, di, initStatus, target, fails, set, expect>>

\* save_last_error(); cmd_status may also be impossible to read.
SaveLastError(p) ==
    /\ pc[p] = "failed"
    /\ pc' = [pc EXCEPT ![p] = "run"]
    /\ \E s \in {GetCmdStatus(p, target[p]), LibError} :
         saved' = [saved EXCEPT ![p] = [dev |-> target[p], st |-> s]]
    /\ UNCHANGED <<status, readOnly, erange, di, initStatus, target, fails, set, expect>>

\* main(): the command is over; accfg_ctx_get_last_error() is reported if the
\* command failed and the status is not 0.
Report(p) == IF saved[p] = None THEN Success ELSE saved[p].st

Finish(p) ==
    /\ pc[p] = "run"
    /\ pc' = [pc EXCEPT ![p] = "done"]
    /\ UNCHANGED <<status, readOnly, erange, di, initStatus, target, saved, fails, set, expect>>

Step(p) ==
    \/ ClearStatus(p) \/ ReadSucceeds(p) \/ ReadFails(p)
    \/ \E d \in Device : AccessFails(p, d)
    \/ SaveLastError(p) \/ Finish(p)

Next == \E p \in Process : Step(p)

Spec == Init /\ [][Next]_vars

-----------------------------------------------------------------------------
(* get_cmd_status_str(): the text for a status. *)

\* The indices of accfg_sw_cmd_status and accfg_device_cmd_status that have a
\* text, and the last one of the latter.
SwText == 1..14
CmdText == 0..4 \cup 16..24 \cup 32..40 \cup 42..44 \cup 49..50 \cup 65..69
CmdStatusMax == 69

\* At these indices accfg_device_cmd_status has a null pointer.
CmdHole == (0..CmdStatusMax) \ CmdText

\* Mutant: the bound on the first table is off by one.
CmdStatusStr_OffByOne(s) ==
    IF s.soft /\ s.sw > 0
    THEN IF s.sw > 15 THEN <<"cmd", CmdStatusMax>> ELSE <<"sw", s.sw>>
    ELSE IF s.sw > 0 \/ s.low > CmdStatusMax THEN <<"cmd", CmdStatusMax>>
    ELSE <<"cmd", s.low>>

CmdStatusStr(s) ==
    IF s.soft /\ s.sw > 0
    THEN IF s.sw >= 15 THEN <<"cmd", CmdStatusMax>> ELSE <<"sw", s.sw>>
    ELSE IF s.sw > 0 \/ s.low > CmdStatusMax THEN <<"cmd", CmdStatusMax>>
    ELSE <<"cmd", s.low>>

-----------------------------------------------------------------------------
\* The status the driver set for the last failed access of a process is the
\* one reported, or the report says that the library could not tell; it is
\* silently 0 or another code only if another process cleared or set the
\* status before it was read (save_last_error()).
ErrorNotLost ==
    \A p \in Process :
        pc[p] \in {"run", "done"} /\ saved[p] # None /\ expect[p] # Success =>
            /\ saved[p].dev = target[p]
            /\ Report(p) \in {expect[p], LibError}

\* A status left over from before the process started is never reported as
\* the reason of a failure, if the device is the last one of the scan and its
\* status could be read then (the comparison with init_cmd_status; a negative
\* errno in it is different from every status, so nothing is held back).
LastDeviceNotStale ==
    \A p \in Process :
        LET d == DeviceDir[Len(DeviceDir)] IN
        /\ saved[p] # None /\ saved[p].dev = d
        /\ d \notin set[p] /\ initStatus[p] # ReadError
        => saved[p].st \in {Success, LibError}

\* Whatever the driver sets, the report never reads beyond a table, and it has
\* a text unless the low bits alone name a hole of the device's table: codes
\* newer than the tables and those of the software fall back to the unknown
\* error (get_cmd_status_str(); for a hole main() prints a null pointer).
TextUnlessHole ==
    \A p \in Process :
        LET s == Report(p)
            t == CmdStatusStr(s)
        IN  \/ t[1] = "sw" /\ t[2] \in SwText
            \/ t[1] = "cmd" /\ t[2] \in CmdText
            \/ t = <<"cmd", s.low>> /\ s.low \in CmdHole /\ s.sw = 0

-----------------------------------------------------------------------------
(* The inductive invariant behind the first two. *)

\* Nothing is saved before the scan is over.
ScanFirst ==
    \A p \in Process :
        /\ pc[p] \in {"clear", "read"} => saved[p] = None
        /\ pc[p] = "read" => di[p] <= Len(DeviceDir)

\* After the scan init_cmd_status is the status of the last device, unless that
\* was set since or could not be read.
InitialKnown ==
    \A p \in Process :
        LET d == DeviceDir[Len(DeviceDir)] IN
        /\ pc[p] \in {"run", "failed", "done"}
        /\ d \notin set[p] /\ initStatus[p] # ReadError
        => initStatus[p] = status[d]

\* Until it is saved, the status of a failed access is there to be read.
FailureReadable ==
    \A p \in Process :
        pc[p] = "failed" /\ expect[p] # Success => status[target[p]] = expect[p]

IInv ==
    /\ TypeOK
    /\ ScanFirst
    /\ InitialKnown
    /\ FailureReadable
    /\ ErrorNotLost
    /\ LastDeviceNotStale
=============================================================================
