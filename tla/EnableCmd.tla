------------------------------ MODULE EnableCmd ------------------------------
(***************************************************************************)
(* accfg/enable.c: the commands enable-device, disable-device, enable-wq   *)
(* and disable-wq, run by several processes at once.                       *)
(*                                                                         *)
(* A command names a list of objects and works through it: look the name   *)
(* up, check the state, call the library's control function, look at the   *)
(* result.  idx[p] is the loop variable i, rc[p] the variable rc, counted  *)
(* [p] the list positions counted in `success', exit[p] the exit status.   *)
(*                                                                         *)
(* History variables: wrote[p] are the list positions whose bind or unbind *)
(* write took effect; owner[x] is the process and list position whose      *)
(* write changed object x last.                                            *)
(***************************************************************************)
EXTENDS AccfgControl, Sequences

CONSTANTS
    AllName,     \* the argument "all"
    BadName,     \* a name no device or wq has
    Command      \* the command lines processes may run

Name == Object \cup {AllName, BadName}

CommandLine ==
    [flag : CtlFlag, kind : {"device", "wq"}, force : BOOLEAN,
     args : Seq(Name)]

ASSUME CommandAssumption ==
    /\ AllName \notin Object
    /\ BadName \notin Object
    /\ Command \subseteq CommandLine
    /\ \A c \in Command : c.args # <<>>   \* else the usage text is shown

VARIABLES pc, cmd, idx, rc, counted, exit, wrote, owner

cmdVars  == <<pc, cmd, idx, rc, counted, exit>>
histVars == <<wrote, owner>>
vars     == <<driverVars, ctlVars, cmdVars, histVars>>

NoOwner == <<NoObject, 0>>
Running == -1   \* exit[p] while the command runs

TypeOK ==
    /\ DriverTypeOK
    /\ ControlTypeOK
    /\ pc \in [Process -> {"next", "call", "done"}]
    /\ cmd \in [Process -> CommandLine]
    /\ idx \in [Process -> Nat \ {0}]
    /\ rc \in [Process -> Int]
    /\ counted \in [Process -> SUBSET Nat]
    /\ exit \in [Process -> {Running, 0, 1}]
    /\ wrote \in [Process -> SUBSET Nat]
    /\ owner \in [Object -> ((Process \cup {NoObject}) \X Nat)]

\* "all" anywhere on the command line replaces the list by this one name.
Args(p) == IF \E i \in DOMAIN cmd[p].args : cmd[p].args[i] = AllName
             THEN <<AllName>>
             ELSE cmd[p].args

\* parse_device_name(), parse_wq_name(): the names that denote an object
Found(p) == IF cmd[p].kind = "device" THEN Device ELSE Wq

Target(p) == Args(p)[idx[p]]

Init ==
    /\ DriverInit
    /\ ControlInit
    /\ pc = [p \in Process |-> "next"]
    /\ cmd \in [Process -> Command]
    /\ idx = [p \in Process |-> 1]
    /\ rc = [p \in Process |-> -EINVAL]
    /\ counted = [p \in Process |-> {}]
    /\ exit = [p \in Process |-> Running]
    /\ wrote = [p \in Process |-> {}]
    /\ owner = [x \in Object |-> NoOwner]

-----------------------------------------------------------------------------
\* The end of one round of the loop: the name failed with error e ...
Failed(p, e) ==
    /\ rc' = [rc EXCEPT ![p] = e]
    /\ idx' = [idx EXCEPT ![p] = @ + 1]
    /\ pc' = [pc EXCEPT ![p] = "next"]
    /\ UNCHANGED counted

\* ... or is counted as a success.
Counted(p) ==
    /\ rc' = [rc EXCEPT ![p] = 0]
    /\ counted' = [counted EXCEPT ![p] = @ \cup {idx[p]}]
    /\ idx' = [idx EXCEPT ![p] = @ + 1]
    /\ pc' = [pc EXCEPT ![p] = "next"]

AtName(p) == pc[p] = "next" /\ idx[p] <= Len(Args(p))

\* Mutant: continue before i is advanced.
SkipName_Stays(p) ==
    /\ AtName(p)
    /\ Target(p) \notin Found(p)
    /\ UNCHANGED vars

\* The name denotes nothing: the round is skipped and rc keeps its value.
SkipName(p) ==
    /\ AtName(p)
    /\ Target(p) \notin Found(p)
    /\ idx' = [idx EXCEPT ![p] = @ + 1]
    /\ UNCHANGED <<driverVars, ctlVars, pc, cmd, rc, counted, exit, histVars>>

\* action_enable_device(), action_disable_device(): what the state read by
\* accfg_device_is_active() allows.
DeviceCheck(flag, st) ==
    IF (st = "enabled") = (flag = "enable") THEN -EBUSY ELSE 0

\* action_enable_wq(), action_disable_wq()
WqCheck(flag, st) ==
    CASE st = "quiescing" -> -EBUSY
      [] st = "disabled" /\ flag = "disable" -> -ENXIO
      [] st \in {"enabled", "locked"} /\ flag = "enable" -> -ENXIO
      [] OTHER -> 0

\* Give up on the target with error e, or call the control function.
Decide(p, e) ==
    IF e # 0
      THEN Failed(p, e) /\ UNCHANGED <<call, step, ret, raced>>
      ELSE /\ pc' = [pc EXCEPT ![p] = "call"]
           /\ Enter(p, cmd[p].flag, Target(p), cmd[p].force)
           /\ UNCHANGED <<idx, rc, counted>>

\* dev_action_switch().  A read that fails looks like "not enabled".
ActionDevice(p) ==
    /\ AtName(p)
    /\ cmd[p].kind = "device" /\ Target(p) \in Device
    /\ \/ /\ Decide(p, DeviceCheck(cmd[p].flag, devState[Target(p)]))
          /\ UNCHANGED errctx
       \/ /\ Decide(p, DeviceCheck(cmd[p].flag, "unknown"))
          /\ SaveLastError(p, Target(p))
    /\ UNCHANGED <<driverVars, cmd, exit, histVars>>

\* wq_action_switch().  A read that fails yields ACCFG_WQ_UNKNOWN.
ActionWq(p) ==
    /\ AtName(p)
    /\ cmd[p].kind = "wq" /\ Target(p) \in Wq
    /\ \/ /\ Decide(p, WqCheck(cmd[p].flag, wqState[Target(p)]))
          /\ UNCHANGED errctx
       \/ /\ Decide(p, WqCheck(cmd[p].flag, "unknown"))
          /\ SaveLastError(p, Target(p))
    /\ UNCHANGED <<driverVars, cmd, exit, histVars>>

\* The control function runs: the steps that touch no device or wq, and the
\* write that takes effect.  A device that is disabled takes its wqs with it.
ControlStep(p) ==
    /\ pc[p] = "call"
    /\ LocalControlStep(p)
    /\ UNCHANGED <<cmdVars, histVars>>

ControlEffect(p) ==
    /\ pc[p] = "call"
    /\ WriteTakesEffect(p)
    /\ wrote' = [wrote EXCEPT ![p] = @ \cup {idx[p]}]
    /\ owner' = [x \in Object |->
                   IF x = Target(p) 
                      \/ /\ cmd[p].flag = "disable"
                         /\ x \in WqsOf(Target(p))
                     THEN <<p, idx[p]>> ELSE owner[x]]
    /\ UNCHANGED cmdVars

AtResult(p) == pc[p] = "call" /\ step[p] = "ret"

\* device_action(): an error is final; a success is double-checked against
\* the state read again, and a mismatch sets rc to ENXIO (positive).
DeviceResult(p) ==
    /\ AtResult(p)
    /\ cmd[p].kind = "device"
    /\ LET expected == IF cmd[p].flag = "enable" THEN "enabled" ELSE "disabled"
       IN  \/ /\ ret[p] # 0
              /\ Failed(p, ret[p])
              /\ UNCHANGED errctx
           \/ /\ ret[p] = 0
              /\ IF devState[Target(p)] = expected THEN Counted(p)
                                                   ELSE Failed(p, ENXIO)
              /\ UNCHANGED errctx
           \/ /\ ret[p] = 0
              /\ Failed(p, ENXIO)
              /\ SaveLastError(p, call[p].obj)
    /\ Leave(p)
    /\ UNCHANGED <<driverVars, cmd, exit, histVars>>

\* wq_action()
WqResult(p) ==
    /\ AtResult(p)
    /\ cmd[p].kind = "wq"
    /\ IF ret[p] = 0 THEN Counted(p) ELSE Failed(p, ret[p])
    /\ Leave(p)
    /\ UNCHANGED <<driverVars, errctx, cmd, exit, histVars>>

\* Mutants: errno as exit status; an error turned into 0.
ExitStatus_Errno(count) == IF count >= 0 THEN 0 ELSE -count
ExitStatus_Inverted(count) == IF count > 0 THEN 1 ELSE 0

\* The cmd_* functions: a negative value, and only that, is a failure.
ExitStatus(count) == IF count >= 0 THEN 0 ELSE 1

\* device_action() and wq_action() return 0 after any success, else rc.
Finish(p) ==
    /\ pc[p] = "next"
    /\ idx[p] > Len(Args(p))
    /\ LET count == IF counted[p] # {} THEN 0 ELSE rc[p]
       IN  exit' = [exit EXCEPT ![p] = ExitStatus(count)]
    /\ pc' = [pc EXCEPT ![p] = "done"]
    /\ UNCHANGED <<driverVars, ctlVars, cmd, idx, rc, counted, histVars>>

Step(p) ==
    \/ SkipName(p) \/ ActionDevice(p) \/ ActionWq(p)
    \/ ControlStep(p) \/ ControlEffect(p)
    \/ DeviceResult(p) \/ WqResult(p)
    \/ Finish(p)

Next ==
    \/ \E p \in Process : Step(p)
    \/ Environment /\ UNCHANGED <<cmdVars, histVars>>

Spec == Init /\ [][Next]_vars

\* A running process is scheduled; sysfs accesses return.  Nothing is assumed
\* of applications and of the driver.
FairSpec == Spec /\ \A p \in Process : WF_vars(Step(p))

-----------------------------------------------------------------------------
\* What a command asks of its target, seen in the driver's state; an enabled
\* wq may since have been locked.
Achieved(flag, x) == Bound(x) = (flag = "enable")
                     /\ (x \in Wq => wqState[x] # "quiescing")

\* NoStolenCredit: a name is counted as a success (enable.c: success++) only
\* if this process's own bind or unbind write took effect for it.  When two
\* processes enable the same device, the one whose write the driver refused
\* must not report the other's work as its own, although the state it would
\* read back is the one it asked for.
NoStolenCredit == \A p \in Process : counted[p] \subseteq wrote[p]

\* OutcomeStands: what was counted as a success is still so, unless another
\* write reached the object since.  (For a wq this is what the verification
\* in accfg_wq_control() is for: an unbind may leave the wq draining.)
OutcomeStands ==
    \A p \in Process : \A i \in counted[p] :
        owner[Args(p)[i]] = <<p, i>> => Achieved(cmd[p].flag, Args(p)[i])

\* ExitStatusSound: a command that succeeded for one name exits with 0, and
\* one that exits with 0 changed something; for the wq commands 0 means that a
\* success was counted.
ExitStatusSound ==
    \A p \in Process :
        /\ exit[p] = 1 => counted[p] = {}
        /\ exit[p] = 0 => wrote[p] # {}
        /\ exit[p] = 0 /\ cmd[p].kind = "wq" => counted[p] # {}

\* The wqs that lose their driver in a step although clients use them.
TakenFromClients == {w \in Wq : Bound(w) /\ ~Bound(w)' /\ clients[w] > 0}

\* ClientsSpared: without --force a wq in use is only taken away when a client
\* opened it between the look at "clients" and the unbind write, or when that
\* look failed (libaccfg.c: "Device disable refused", "wq disable refused").
ClientsSpared ==
    [][\A w \in TakenFromClients :
         LET p == owner'[w][1] IN cmd[p].force \/ p \in raced]_vars

\* CommandsEnd: every command runs to its end, whatever the other processes,
\* the applications and the driver do.
CommandsEnd == \A p \in Process : <>(pc[p] = "done")

-----------------------------------------------------------------------------
(* The inductive invariant behind these properties. *)

\* A call in progress works on the command's current name.
CallMatches ==
    \A p \in Process :
        /\ pc[p] = "call" <=> step[p] # "idle"
        /\ pc[p] = "call" =>
             /\ idx[p] <= Len(Args(p))
             /\ Target(p) \in Found(p)
             /\ call[p].obj = Target(p)
             /\ call[p].flag = cmd[p].flag
             /\ call[p].force = cmd[p].force
        /\ step[p] \in {"path", "clients"} => call[p].flag = "disable"
        /\ step[p] = "verify" => call[p].obj \in Wq

\* Successes belong to names already done, and a call that is going to return
\* 0 has had its effect.
Progress ==
    \A p \in Process :
        /\ counted[p] \subseteq 1..(idx[p] - 1)
        /\ counted[p] \subseteq wrote[p]
        /\ ret[p] <= 0
        /\ step[p] = "verify" \/ (step[p] = "ret" /\ ret[p] = 0)
             => idx[p] \in wrote[p]

\* rc is not negative only after an effect; exit is the sum of it.
ExitFromRc ==
    \A p \in Process :
        /\ exit[p] # Running => pc[p] = "done"
        /\ rc[p] >= 0 => wrote[p] # {}
        /\ rc[p] >= 0 /\ cmd[p].kind = "wq" => counted[p] # {}

\* Only names that denote an object are counted.
CountedNames == \A p \in Process : \A i \in counted[p] : Args(p)[i] \in Object

\* A verified wq is in the state asked for, unless somebody else wrote it.
WqVerified ==
    \A p \in Process :
        /\ step[p] = "ret" /\ ret[p] = 0
        /\ call[p].obj \in Wq
        /\ owner[call[p].obj] = <<p, idx[p]>>
        => Achieved(call[p].flag, call[p].obj)

\* A process about to unbind without --force an object in use has been raced.
StaleLook ==
    \A p \in Process :
        /\ step[p] = "write" /\ call[p].flag = "disable" /\ ~call[p].force
        /\ HasClients(call[p].obj)
        => p \in raced

IInv ==
    /\ TypeOK
    /\ CallMatches
    /\ Progress
    /\ ExitFromRc
    /\ ExitStatusSound
    /\ CountedNames
    /\ WqVerified
    /\ OutcomeStands
    /\ StaleLook
=============================================================================
