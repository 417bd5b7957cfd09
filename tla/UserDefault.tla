----------------------------- MODULE UserDefault -----------------------------
(***************************************************************************)
(* accel-config config-user-default (accfg/config.c: cmd_config_default):  *)
(* without -d every wq of every unused device gets the default attributes, *)
(* and the devices and their wqs are enabled; with -d the wqs that carry   *)
(* the default name, and the devices left without an active wq, are        *)
(* disabled by force.  Meanwhile other processes enable, disable and       *)
(* configure devices and wqs.                                              *)
(*                                                                         *)
(* attrs[w] are the attributes of wq w that have the default value; one of *)
(* them is "name".  The three stand for the eleven that config_default_wq()*)
(* writes: those before the name, the name, those after it.  A file given  *)
(* with -c is taken to use the same values; what else it sets on devices   *)
(* and groups is the business of LoadConfig.                               *)
(***************************************************************************)
EXTENDS AccfgControl, Sequences

CONSTANTS
    Tool,      \* the process
    DevSeq,    \* the devices in the order of accfg_device_foreach
    WqSeq,     \* the wqs of each device in the order of accfg_wq_foreach
    TypeOf,    \* the type of each device
    Run,       \* the commands that may be run: no option, -c, -d
    MaxOther   \* bound: steps of the other processes

Attr    == <<"group_id", "name", "size">>
AttrSet == {"group_id", "name", "size"}

ASSUME UserDefaultAssumption ==
    /\ Process = {Tool}
    /\ DevSeq \in Seq(Device)
    /\ \A d \in Device : \E i \in DOMAIN DevSeq : DevSeq[i] = d
    /\ WqSeq \in [Device -> Seq(Wq)]
    /\ \A w \in Wq : \E i \in DOMAIN WqSeq[DevOf[w]] : WqSeq[DevOf[w]][i] = w
    /\ \A d \in Device : \A i \in DOMAIN WqSeq[d] : DevOf[WqSeq[d][i]] = d
    /\ TypeOf \in [Device -> {"dsa", "iax", "other"}]
    /\ Run \subseteq {"default", "file", "disable"}
    /\ MaxOther \in Nat

VARIABLES
    attrs,       \* sysfs: the attributes with the default value
    engines,     \* sysfs: the devices whose engines are in the default group
    run,         \* the command
    pc, di, wi, ai,
    cached,      \* the wqs that had the default name when the process scanned
    configured,  \* the devices whose type is configured (conf_def_wq_param)
    nonDefault,  \* the local variable non_default_wq_enabled
    touched,     \* history: what others changed since the process scanned
    failed,      \* history: objects one of whose accesses failed
    own,         \* history: devices and wqs the command enabled
    others       \* the steps of other processes so far

placeVars == <<di, wi, ai, nonDefault>>
toolVars  == <<run, pc, placeVars, cached, configured>>
vars      == <<driverVars, ctlVars, attrs, engines, toolVars, touched, failed, own,
               others>>

ToolTypeOK ==
    /\ attrs \in [Wq -> SUBSET AttrSet]
    /\ engines \subseteq Device
    /\ run \in Run
    /\ pc \in {"start", "scan", "wqoff", "devoff", "config", "attrs", "engines",
               "devon", "wqs", "wqon", "done"}
    /\ di \in 1..(Len(DevSeq) + 1)
    /\ wi \in Nat \ {0}
    /\ ai \in 1..Len(Attr)
    /\ cached \subseteq Wq
    /\ configured \subseteq Device
    /\ nonDefault \in BOOLEAN
    /\ others \in 0..MaxOther
    /\ touched \subseteq Object /\ failed \subseteq Object /\ own \subseteq Object

TypeOK == DriverTypeOK /\ ControlTypeOK /\ ToolTypeOK

Init ==
    /\ DriverInit
    /\ ControlInit
    /\ attrs \in [Wq -> {{}, AttrSet}]   \* never, or by an earlier run
    /\ engines = {}
    /\ run \in Run
    /\ pc = "start" /\ di = 1 /\ wi = 1 /\ ai = 1
    /\ cached = {} /\ configured = {} /\ nonDefault = FALSE
    /\ touched = {} /\ failed = {} /\ own = {} /\ others = 0

-----------------------------------------------------------------------------
Named(w) == "name" \in attrs[w]

dev == DevSeq[di]
wq  == WqSeq[dev][wi]
AtDevice(c) == pc = c /\ di <= Len(DevSeq)
AtWq(c)     == AtDevice(c) /\ wi <= Len(WqSeq[dev])

\* Mutant: non_default_wq_enabled is reset for each wq.
NextWq_Forgets(c) ==
    pc' = c /\ wi' = wi + 1 /\ ai' = 1 /\ nonDefault' = FALSE /\ UNCHANGED di

\* The loops go on at control point c: with the next wq, with the first wq of
\* the same device, with the next device.
NextWq(c) == pc' = c /\ wi' = wi + 1 /\ ai' = 1 /\ UNCHANGED <<di, nonDefault>>
FirstWq(c) == pc' = c /\ wi' = 1 /\ UNCHANGED <<di, ai, nonDefault>>
NextDevice(c) ==
    pc' = c /\ di' = di + 1 /\ wi' = 1 /\ nonDefault' = FALSE /\ UNCHANGED ai

\* A control function is entered at control point c and then runs.
Begin(c, flag, x, force) ==
    pc' = c /\ Enter(Tool, flag, x, force) /\ UNCHANGED <<placeVars, errctx>>

Control ==
    /\ LocalControlStep(Tool) \/ WriteTakesEffect(Tool)
    /\ UNCHANGED <<attrs, engines, toolVars, touched, failed, own>>

\* An access to x failed or not.
Outcome(x, ok) == failed' = IF ok THEN failed ELSE failed \cup {x}

\* The process scans the devices and takes one of the three branches of
\* cmd_config_default(); a file with an error configures nothing.
Start ==
    /\ pc = "start"
    /\ cached' = {w \in Wq : Named(w)}
    /\ touched' = {}
    /\ \/ run = "disable" /\ pc' = "scan" /\ configured' = {}
       \/ /\ run = "default" /\ pc' = "config"
          /\ configured' = {d \in Device : TypeOf[d] # "other"}
       \/ /\ run = "file" /\ pc' = "config"
          /\ \E T \in SUBSET {"dsa", "iax"} :
               configured' = {d \in Device : TypeOf[d] \in T}
       \/ run = "file" /\ pc' = "done" /\ configured' = {}
    /\ UNCHANGED <<driverVars, ctlVars, attrs, engines, run, placeVars, failed, own>>

\* The command returns 0.
End ==
    /\ pc \in {"scan", "config"} /\ di > Len(DevSeq)
    /\ pc' = "done"
    /\ UNCHANGED <<driverVars, ctlVars, attrs, engines, run, placeVars, cached,
                   configured, touched, failed, own>>

-----------------------------------------------------------------------------
(* config_default_disable() *)

\* Mutant: only a wq in state "enabled" is taken to be in use.
Idle_UnlessEnabled(st) == st # "enabled"

Idle(st) == st = "disabled"

\* One wq: a wq that is not disabled is disabled by force if it has the
\* default name, else noted.  A state that cannot be read is not "disabled".
ScanWq ==
    /\ AtWq("scan")
    /\ \E readable \in BOOLEAN :
         LET st == IF readable THEN wqState[wq] ELSE "unknown" IN
         /\ IF readable THEN UNCHANGED errctx ELSE SaveLastError(Tool, wq)
         /\ \/ /\ Idle(st)
               /\ NextWq("scan")
               /\ UNCHANGED <<call, step, ret, raced>>
            \/ /\ ~Idle(st) /\ wq \in cached
               /\ pc' = "wqoff"
               /\ Enter(Tool, "disable", wq, TRUE)
               /\ UNCHANGED placeVars
            \/ /\ ~Idle(st) /\ wq \notin cached
               /\ pc' = "scan" /\ wi' = wi + 1
               /\ nonDefault' = TRUE
               /\ UNCHANGED <<di, ai, call, step, ret, raced>>
    /\ UNCHANGED <<driverVars, attrs, engines, run, cached, configured,
                   touched, failed, own>>

\* accfg_wq_disable() returns; its result is not looked at.
WqOff ==
    /\ pc = "wqoff" /\ step[Tool] = "ret"
    /\ Outcome(wq, ret[Tool] = 0)
    /\ NextWq("scan")
    /\ Leave(Tool)
    /\ UNCHANGED <<driverVars, errctx, attrs, engines, run, cached, configured,
                   touched, own>>

\* The device is disabled by force unless an active wq was noted.  A state
\* that cannot be read is not "enabled".
ScanDevice ==
    /\ AtDevice("scan") /\ wi > Len(WqSeq[dev])
    /\ \/ /\ devState[dev] = "enabled" /\ ~nonDefault
          /\ Begin("devoff", "disable", dev, TRUE)
          /\ UNCHANGED failed
       \/ /\ devState[dev] = "disabled" \/ nonDefault
          /\ NextDevice("scan")
          /\ UNCHANGED <<ctlVars, failed>>
       \/ /\ NextDevice("scan")
          /\ SaveLastError(Tool, dev)
          /\ Outcome(dev, FALSE)
          /\ UNCHANGED <<call, step, ret, raced>>
    /\ UNCHANGED <<driverVars, attrs, engines, run, cached, configured, touched, own>>

DevOff ==
    /\ pc = "devoff" /\ step[Tool] = "ret"
    /\ Outcome(dev, ret[Tool] = 0)
    /\ NextDevice("scan")
    /\ Leave(Tool)
    /\ UNCHANGED <<driverVars, errctx, attrs, engines, run, cached, configured,
                   touched, own>>

-----------------------------------------------------------------------------
(* config_default_activate_devices() *)

\* A device that is not configured, or is enabled, is left alone.
ConfigDevice ==
    /\ AtDevice("config")
    /\ \/ /\ dev \notin configured \/ devState[dev] = "enabled"
          /\ NextDevice("config")
          /\ UNCHANGED errctx
       \/ /\ dev \in configured
          /\ \/ devState[dev] = "disabled" /\ UNCHANGED errctx
             \/ SaveLastError(Tool, dev)
          /\ FirstWq("attrs")
    /\ UNCHANGED <<driverVars, call, step, ret, raced, attrs, engines, run, cached,
                   configured, touched, failed, own>>

\* Mutant: the loop leaves out the last attribute.
LastAttr_TooEarly(i) == i >= Len(Attr) - 1

LastAttr(i) == i = Len(Attr)

\* config_default_wq(): the attributes one after the other, their results
\* ignored.  EXTERNAL: the driver takes them while the wq is disabled.
ConfigWq ==
    /\ AtWq("attrs")
    /\ \E ok \in BOOLEAN :
         /\ ok => wqState[wq] = "disabled"
         /\ attrs' = IF ok THEN [attrs EXCEPT ![wq] = @ \cup {Attr[ai]}] ELSE attrs
         /\ Outcome(wq, ok)
         /\ UNCHANGED errctx \/ (~ok /\ SaveLastError(Tool, wq))
    /\ IF LastAttr(ai)
         THEN ai' = 1 /\ wi' = wi + 1
         ELSE ai' = ai + 1 /\ UNCHANGED wi
    /\ UNCHANGED <<driverVars, call, step, ret, raced, engines, run, pc, di,
                   nonDefault, cached, configured, touched, own>>

\* config_default_engine() for the engines of the device
ConfigEngines ==
    /\ AtDevice("attrs") /\ wi > Len(WqSeq[dev])
    /\ \/ /\ devState[dev] = "disabled"
          /\ engines' = engines \cup {dev}
          /\ UNCHANGED errctx
       \/ SaveLastError(Tool, dev) /\ UNCHANGED engines
    /\ pc' = "engines"
    /\ UNCHANGED <<driverVars, call, step, ret, raced, attrs, run, placeVars, cached,
                   configured, touched, failed, own>>

EnableDevice ==
    /\ pc = "engines"
    /\ Begin("devon", "enable", dev, FALSE)
    /\ UNCHANGED <<driverVars, attrs, engines, run, cached, configured, touched,
                   failed, own>>

\* Mutant: an error of accfg_device_enable() does not end the work on it.
DevOn_ErrorIgnored ==
    /\ pc = "devon" /\ step[Tool] = "ret"
    /\ FirstWq("wqs")
    /\ own' = IF ret[Tool] = 0 THEN own \cup {dev} ELSE own
    /\ Outcome(dev, ret[Tool] = 0)
    /\ Leave(Tool)
    /\ UNCHANGED <<driverVars, errctx, attrs, engines, run, cached, configured,
                   touched>>

\* The device is enabled: on to its wqs.  Or not: on to the next device.
DevOn ==
    /\ pc = "devon" /\ step[Tool] = "ret"
    /\ IF ret[Tool] = 0
         THEN FirstWq("wqs") /\ own' = own \cup {dev}
         ELSE NextDevice("config") /\ UNCHANGED own
    /\ Outcome(dev, ret[Tool] = 0)
    /\ Leave(Tool)
    /\ UNCHANGED <<driverVars, errctx, attrs, engines, run, cached, configured,
                   touched>>

EnableWq ==
    /\ AtWq("wqs")
    /\ Begin("wqon", "enable", wq, FALSE)
    /\ UNCHANGED <<driverVars, attrs, engines, run, cached, configured, touched,
                   failed, own>>

\* A wq that cannot be enabled does not stop the others.
WqOn ==
    /\ pc = "wqon" /\ step[Tool] = "ret"
    /\ own' = IF ret[Tool] = 0 THEN own \cup {wq} ELSE own
    /\ Outcome(wq, ret[Tool] = 0)
    /\ NextWq("wqs")
    /\ Leave(Tool)
    /\ UNCHANGED <<driverVars, errctx, attrs, engines, run, cached, configured,
                   touched>>

WqsDone ==
    /\ AtDevice("wqs") /\ wi > Len(WqSeq[dev])
    /\ NextDevice("config")
    /\ UNCHANGED <<driverVars, ctlVars, attrs, engines, run, cached, configured,
                   touched, failed, own>>

Command ==
    \/ Start \/ End
    \/ Control
    \/ ScanWq \/ WqOff \/ ScanDevice \/ DevOff
    \/ ConfigDevice \/ ConfigWq \/ ConfigEngines
    \/ EnableDevice \/ DevOn \/ EnableWq \/ WqOn \/ WqsDone

\* Other accel-config processes: they enable and disable, and set attributes
\* of a disabled wq.
OtherProcess ==
    /\ others < MaxOther /\ others' = others + 1
    /\ \/ \E d \in Device :
            /\ BindDevice(d) \/ UnbindDevice(d)
            /\ touched' = touched \cup {d} \cup WqsOf(d)
            /\ UNCHANGED attrs
       \/ \E w \in Wq :
            /\ BindWq(w) \/ UnbindWq(w)
            /\ touched' = touched \cup {w}
            /\ UNCHANGED attrs
       \/ \E w \in Wq :
            /\ wqState[w] = "disabled"
            /\ attrs' \in {[attrs EXCEPT ![w] = {}], [attrs EXCEPT ![w] = {"name"}]}
            /\ touched' = touched \cup {w}
            /\ UNCHANGED driverVars
    /\ UNCHANGED <<ctlVars, engines, toolVars, failed, own>>

Next ==
    \/ Command /\ UNCHANGED others
    \/ OtherProcess
    \/ Environment /\ UNCHANGED <<attrs, engines, toolVars, touched, failed, own, others>>

Spec == Init /\ [][Next]_vars

-----------------------------------------------------------------------------
\* Object x gains or loses its driver by a write of this process (a write is
\* the only step of the process that changes the driver's state).
ByTool == step'[Tool] # step[Tool]
Takes(x) == ByTool /\ Bound(x) /\ ~Bound(x)'
Brings(x) == ByTool /\ ~Bound(x) /\ Bound(x)'

\* OthersSpared: config-user-default -d takes away no wq that was named
\* differently when the process started, neither directly nor with its
\* device, unless another process changed that wq in the meantime.
OthersSpared ==
    [][\A w \in Wq : Takes(w) => w \in cached \cup touched]_vars

\* DisableComplete: when -d is done, a wq that had the default name is not
\* active, except when its own disabling failed or another process changed it.
DisableComplete ==
    pc = "done" /\ run = "disable"
        => \A w \in cached : Bound(w) => w \in failed \cup touched

\* OnlyFreshDevices: config.c, "Don't enable WQs/engines on partially enabled
\* devices": a wq is enabled only after this command enabled its device.
OnlyFreshDevices ==
    [][\A w \in Wq : Brings(w) => DevOf[w] \in own]_vars

\* EnabledAsConfigured: a wq this command enabled has all default attributes,
\* unless a write to it failed or another process changed it.
EnabledAsConfigured ==
    \A w \in own \cap Wq : attrs[w] = AttrSet \/ w \in failed \cup touched

\* DeviceAfterWqs: the comment "Disable enabled device only when all WQs are
\* disabled" taken at its word.
DeviceAfterWqs ==
    [][\A d \in Device :
         Takes(d) => \A w \in WqsOf(d) \ touched : wqState[w] = "disabled"]_vars

-----------------------------------------------------------------------------
(* The inductive invariant behind these properties. *)

InCall == {"wqoff", "wqon", "devoff", "devon"}

\* While a control function runs, it runs for the current device or wq.
CallMatches ==
    /\ pc \in {"wqoff", "wqon"} => AtWq(pc) /\ call[Tool].obj = wq
    /\ pc \in {"devoff", "devon"} => AtDevice(pc) /\ call[Tool].obj = dev
    /\ pc \in {"wqoff", "devoff"} => call[Tool].flag = "disable"
    /\ pc \in {"wqon", "devon"} => call[Tool].flag = "enable"
    /\ pc \notin InCall => step[Tool] = "idle"

\* Where the two halves of the command are.
Branches ==
    /\ pc = "start" => di = 1 /\ wi = 1 /\ own = {}
    /\ pc \in {"scan", "wqoff", "devoff"} => run = "disable"
    /\ pc \in {"config", "attrs", "engines", "devon", "wqs", "wqon"} => run # "disable"
    /\ pc = "done" /\ run = "disable" => di > Len(DevSeq)
    /\ pc \in {"attrs", "engines", "wqs"} => di <= Len(DevSeq)
    /\ pc = "wqoff" => wq \in cached
    /\ pc = "devoff" => ~nonDefault /\ wi > Len(WqSeq[dev])
    /\ pc \in {"wqs", "wqon"} => dev \in own
    /\ ai # 1 => AtWq("attrs")

\* A wq whose disabling is about to succeed has lost its driver.
GoneBeforeSuccess ==
    pc = "wqoff" /\ (step[Tool] = "verify" \/ (step[Tool] = "ret" /\ ret[Tool] = 0))
        => ~Bound(wq) \/ wq \in touched

\* The loops of -d have been over the i-th wq of the j-th device.
Behind(j, i) == j < di \/ (j = di /\ i < wi)

\* Of the wqs behind, those with the default name are off.
Swept ==
    run = "disable" /\ pc # "start" =>
        \A j \in DOMAIN DevSeq : \A i \in DOMAIN WqSeq[DevSeq[j]] :
            LET w == WqSeq[DevSeq[j]][i] IN
            Behind(j, i) /\ w \in cached /\ Bound(w) => w \in failed \cup touched

\* As long as non_default_wq_enabled is not set, the wqs of the device seen so
\* far that do not have the default name are not in use.
NoneInUse ==
    pc \in {"scan", "wqoff", "devoff"} /\ di <= Len(DevSeq) /\ ~nonDefault =>
        \A i \in DOMAIN WqSeq[dev] :
            LET w == WqSeq[dev][i] IN
            i < wi => wqState[w] = "disabled" \/ w \in cached \cup touched

Excused(w) == w \in failed \cup touched

\* The wqs of the device that config_default_wq() is done with have all their
\* attributes, the current one those written so far.
AttrsWritten ==
    /\ pc \in {"attrs", "engines", "devon", "wqs", "wqon"} =>
         \A i \in DOMAIN WqSeq[dev] :
             LET w == WqSeq[dev][i] IN
             (pc = "attrs" => i < wi) => attrs[w] = AttrSet \/ Excused(w)
    /\ AtWq("attrs") => (\A k \in 1..(ai - 1) : Attr[k] \in attrs[wq]) \/ Excused(wq)

IInv ==
    /\ DriverTypeOK /\ ToolTypeOK
    /\ DOMAIN call = Process /\ DOMAIN step = Process /\ DOMAIN ret = Process
    /\ CallMatches
    /\ Branches
    /\ GoneBeforeSuccess
    /\ Swept
    /\ NoneInUse
    /\ AttrsWritten
    /\ EnabledAsConfigured
=============================================================================
