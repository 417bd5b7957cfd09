----------------------------- MODULE LoadConfig -----------------------------
(***************************************************************************)
(* accel-config load-config (accfg/config.c: cmd_config, parse_config,     *)
(* json_parse, json_parse_array, configure_json_value, activate_devices).  *)
(*                                                                         *)
(* The parser walks the JSON tree depth first and hands every scalar to    *)
(* configure_json_value(); the first error ends the whole walk.  So a file *)
(* is the sequence of the entries met on the walk:                         *)
(*   - a "dev" entry names the component its block is about: a device, or  *)
(*     a wq, group or engine by its id within the device;                  *)
(*   - an "attr" entry is any other scalar.  Its class says what the       *)
(*     tables of setters make of it: "set" is written to sysfs, "ignored"  *)
(*     has no setter or is not writable and is silently skipped, "bad"     *)
(*     does not convert;                                                   *)
(*   - a "broken" entry is what json_parse_array() rejects: an empty array,*)
(*     null or a scalar as an array element.                               *)
(* An object as the value of a key never occurs in a saved file and is not *)
(* modelled.                                                               *)
(*                                                                         *)
(* configure_json_value() keeps its place in the file in static variables: *)
(* parent, and one of dev, group, wq, engine, the others NULL: here cur.   *)
(* Other processes may enable and disable devices and wqs at any moment.   *)
(***************************************************************************)
EXTENDS AccfgControl, Sequences

CONSTANTS
    Loader,    \* the process that runs load-config
    Part,      \* the groups and engines
    PartOf,    \* the device each group and engine belongs to
    IdOf,      \* the id of each wq, group and engine within its device
    KindOf,    \* "wq", "group" or "engine"
    File,      \* the files that may be loaded
    Option     \* the option settings: records of enable (-e) and forced (-f)

Child == Wq \cup Part

Entry == [t : {"dev"}, kind : {"device"}, name : Device \cup {NoObject}]
    \cup [t : {"dev"}, kind : {"wq", "group", "engine"}, id : Nat]
    \cup [t : {"dev"}, kind : {"other"}]
    \cup [t : {"attr"}, class : {"set", "ignored", "bad"}]
    \cup [t : {"broken"}]

ASSUME LoadAssumption ==
    /\ Process = {Loader}
    /\ Part \cap Object = {} /\ NoObject \notin Part
    /\ PartOf \in [Part -> Device]
    /\ IdOf \in [Child -> Nat]
    /\ KindOf \in [Child -> {"wq", "group", "engine"}]
    /\ \A w \in Child : KindOf[w] = "wq" <=> w \in Wq
    /\ \A f \in File : f \in Seq(Entry)
    /\ Option \subseteq [enable : BOOLEAN, forced : BOOLEAN]

VARIABLES
    file, option,       \* what the process was started with
    pc, pos, rc,        \* control point, place in the file, result so far
    parent, cur,        \* the static variables of configure_json_value()
    actDev, actWq,      \* the activation lists, head first
    writes,             \* history: places and targets of the attribute writes
    skipped,            \* history: places of the "dev" entries that were skipped
    activated           \* history: what this process enabled, in order

loadVars == <<file, option, pc, pos, rc, parent, cur, actDev, actWq>>
logVars  == <<writes, skipped, activated>>
vars     == <<driverVars, ctlVars, loadVars, logVars>>

Component == Object \cup Part

LoadTypeOK ==
    /\ file \in File
    /\ option \in Option
    /\ pc \in {"read", "parse", "disabling", "activate", "enabling", "done"}
    /\ pos \in Nat \ {0}
    /\ parent \in Device \cup {NoObject}
    /\ cur \in Component \cup {NoObject}
    /\ actDev \in Seq(Device)
    /\ actWq \in Seq(Wq)
    /\ writes \subseteq (Nat \X Component)
    /\ skipped \subseteq Nat
    /\ activated \in Seq(Object)

TypeOK == DriverTypeOK /\ ControlTypeOK /\ LoadTypeOK /\ rc \in Int

Init ==
    /\ DriverInit
    /\ ControlInit
    /\ file \in File
    /\ option \in Option
    /\ pc = "read" /\ pos = 1 /\ rc = 0
    /\ parent = NoObject /\ cur = NoObject
    /\ actDev = <<>> /\ actWq = <<>>
    /\ writes = {} /\ skipped = {} /\ activated = <<>>

-----------------------------------------------------------------------------
DeviceOf(x) == IF x \in Wq THEN DevOf[x] ELSE PartOf[x]

\* accfg_device_{wq,group,engine}_get_by_id(): the id counts, the device
\* number in the name does not.  NoObject if there is none.
GetById(d, kind, id) ==
    LET found == {x \in Child : DeviceOf(x) = d /\ KindOf[x] = kind /\ IdOf[x] = id}
    IN  IF found = {} THEN NoObject ELSE CHOOSE x \in found : TRUE

\* configure_json_value() returned 0: on to the next entry.
NextEntry == pos' = pos + 1 /\ pc' = "parse" /\ UNCHANGED rc

\* Mutant: the activation goes on in spite of an error.
Abort_Activates == rc' = -1 /\ pc' = "activate" /\ UNCHANGED pos

\* An error ends the walk; json_parse() and json_parse_array() return -1, so
\* nothing is activated.
Abort == rc' = -1 /\ pc' = "done" /\ UNCHANGED pos

\* read_config_file() and parse_config(): an unreadable or unparsable file
\* leaves nothing to walk.
ReadFile ==
    /\ pc = "read"
    /\ \/ pc' = "parse" /\ UNCHANGED rc
       \/ pc' = "done" /\ rc' = -EINVAL
    /\ UNCHANGED <<driverVars, ctlVars, file, option, pos, parent, cur, actDev,
                   actWq, logVars>>

AtEntry(t) == pc = "parse" /\ pos <= Len(file) /\ file[pos].t = t
AtDev(kind) == AtEntry("dev") /\ file[pos].kind = kind

\* The device is accepted: parent is set, and with -e it is put at the head
\* of the activation list.
Accept(d) ==
    /\ parent' = d /\ cur' = d
    /\ actDev' = IF option.enable THEN <<d>> \o actDev ELSE actDev
    /\ NextEntry

\* Mutant: parent is left at the device before.
NoDevice_KeepsParent == cur' = NoObject /\ UNCHANGED parent

\* The section is about no device: missing, or skipped.
NoDevice == parent' = NoObject /\ cur' = NoObject

\* "dev" of a device that is not there
DeviceMissing ==
    /\ AtDev("device")
    /\ file[pos].name = NoObject
    /\ NoDevice
    /\ Abort
    /\ UNCHANGED <<driverVars, ctlVars, file, option, actDev, actWq, logVars>>

\* "dev" of a device: a disabled one is accepted, an enabled one disabled
\* first or skipped.
DeviceEntry ==
    /\ AtDev("device")
    /\ file[pos].name # NoObject
    /\ LET d == file[pos].name IN
       \/ /\ devState[d] = "disabled"
          /\ Accept(d)
          /\ UNCHANGED <<ctlVars, skipped>>
       \/ /\ devState[d] = "enabled"
          /\ option.forced
          /\ Enter(Loader, "disable", d, TRUE)
          /\ pc' = "disabling"
          /\ parent' = NoObject /\ cur' = d
          /\ UNCHANGED <<errctx, pos, rc, actDev, skipped>>
       \/ /\ devState[d] = "enabled"
          /\ ~option.forced
          /\ NoDevice
          /\ skipped' = skipped \cup {pos}
          /\ NextEntry
          /\ UNCHANGED <<ctlVars, actDev>>
    /\ UNCHANGED <<driverVars, file, option, actWq, writes, activated>>

\* The state cannot be read: the device is taken as not enabled.
DeviceUnreadable ==
    /\ AtDev("device")
    /\ file[pos].name # NoObject
    /\ Accept(file[pos].name)
    /\ SaveLastError(Loader, file[pos].name)
    /\ UNCHANGED <<driverVars, call, step, ret, raced, file, option, actWq, logVars>>

\* accfg_device_disable() runs and returns.
Disabling ==
    /\ pc = "disabling"
    /\ LocalControlStep(Loader) \/ WriteTakesEffect(Loader)
    /\ UNCHANGED <<loadVars, logVars>>

Disabled ==
    /\ pc = "disabling"
    /\ step[Loader] = "ret"
    /\ IF ret[Loader] = 0
         THEN Accept(cur)
         ELSE Abort /\ UNCHANGED <<parent, cur, actDev>>
    /\ Leave(Loader)
    /\ UNCHANGED <<driverVars, errctx, file, option, actWq, logVars>>

\* "dev" of a wq, group or engine while the device is skipped, and any name
\* that is none of these
EntryOfNothing ==
    /\ AtEntry("dev")
    /\ \/ file[pos].kind = "other"
       \/ file[pos].kind # "device" /\ parent = NoObject
    /\ cur' = NoObject
    /\ NextEntry
    /\ UNCHANGED <<driverVars, ctlVars, file, option, parent, actDev, actWq, logVars>>

ChildAt == GetById(parent, file[pos].kind, file[pos].id)

AtChild(kind) == AtDev(kind) /\ parent # NoObject

\* "dev" of an id the device does not have
ChildMissing ==
    /\ \E kind \in {"wq", "group", "engine"} : AtChild(kind)
    /\ ChildAt = NoObject
    /\ cur' = NoObject
    /\ Abort
    /\ UNCHANGED <<driverVars, ctlVars, file, option, parent, actDev, actWq, logVars>>

\* "dev" of a wq: with -e it is put at the head of the activation list.
WqEntry ==
    /\ AtChild("wq") /\ ChildAt # NoObject
    /\ \/ /\ wqState[ChildAt] \notin {"enabled", "locked"}
          /\ UNCHANGED errctx
       \/ SaveLastError(Loader, ChildAt)     \* unreadable: ACCFG_WQ_UNKNOWN
    /\ cur' = ChildAt
    /\ actWq' = IF option.enable THEN <<ChildAt>> \o actWq ELSE actWq
    /\ NextEntry
    /\ UNCHANGED <<driverVars, call, step, ret, raced, file, option, parent,
                   actDev, logVars>>

\* "dev" of a wq that is active: "is active, will skip..."
ActiveWqEntry ==
    /\ AtChild("wq") /\ ChildAt # NoObject
    /\ wqState[ChildAt] \in {"enabled", "locked"}
    /\ cur' = NoObject
    /\ skipped' = skipped \cup {pos}
    /\ NextEntry
    /\ UNCHANGED <<driverVars, ctlVars, file, option, parent, actDev, actWq,
                   writes, activated>>

\* "dev" of a group or engine
PartEntry ==
    /\ AtChild("group") \/ AtChild("engine")
    /\ ChildAt # NoObject
    /\ cur' = ChildAt
    /\ NextEntry
    /\ UNCHANGED <<driverVars, ctlVars, file, option, parent, actDev, actWq, logVars>>

-----------------------------------------------------------------------------
\* EXTERNAL: the driver takes attribute writes of what is not in operation.
Configurable(x) ==
    CASE x \in Device -> devState[x] = "disabled"
      [] x \in Wq     -> wqState[x] = "disabled"
      [] x \in Part   -> devState[PartOf[x]] = "disabled"

\* What {device,group,wq,engine}_json_set_val() make of the value: it has no
\* setter or is not writable now, it does not convert, or it is to be written.
Ignored  == file[pos].class = "ignored"
Bad      == file[pos].class = "bad"
Settable == file[pos].class = "set"

\* The accfg_*_set_* functions: the value reaches sysfs ...
SetField(x) == Configurable(x) /\ writes' = writes \cup {<<pos, x>>}

\* ... or not: the driver refuses it, or the device's configuration is fixed
\* (then no error is saved).
SetFieldFails(x) ==
    \/ SaveLastError(Loader, IF x \in Part THEN PartOf[x] ELSE x)
    \/ UNCHANGED errctx

\* Mutant: the walk does not go on after such an attribute.
AttrSkipped_Stays ==
    /\ AtEntry("attr")
    /\ parent = NoObject \/ (cur # NoObject /\ Ignored)
    /\ UNCHANGED vars

\* An attribute of a skipped device, and one without a setter or not writable
AttrSkipped ==
    /\ AtEntry("attr")
    /\ parent = NoObject \/ (cur # NoObject /\ Ignored)
    /\ NextEntry
    /\ UNCHANGED <<driverVars, ctlVars, file, option, parent, cur, actDev, actWq,
                   logVars>>

\* The attribute of the current component is written ...
AttrSet ==
    /\ AtEntry("attr")
    /\ parent # NoObject /\ cur # NoObject
    /\ Settable
    /\ SetField(cur)
    /\ NextEntry
    /\ UNCHANGED <<driverVars, ctlVars, file, option, parent, cur, actDev, actWq,
                   skipped, activated>>

\* ... or refused, which ends the load.
AttrRefused ==
    /\ AtEntry("attr")
    /\ parent # NoObject /\ cur # NoObject
    /\ Settable
    /\ SetFieldFails(cur)
    /\ Abort
    /\ UNCHANGED <<driverVars, call, step, ret, raced, file, option, parent, cur,
                   actDev, actWq, logVars>>

\* The value does not convert, or no component is current: "device type not
\* matched"; or the array is one json_parse_array() rejects.
EntryRejected ==
    /\ \/ /\ AtEntry("attr") /\ parent # NoObject
          /\ cur = NoObject \/ Bad
       \/ AtEntry("broken")
    /\ Abort
    /\ UNCHANGED <<driverVars, ctlVars, file, option, parent, cur, actDev, actWq,
                   logVars>>

\* The whole file is walked; cmd_config() goes on to activate_devices().
EndOfFile ==
    /\ pc = "parse"
    /\ pos > Len(file)
    /\ pc' = IF option.enable THEN "activate" ELSE "done"
    /\ UNCHANGED <<driverVars, ctlVars, file, option, pos, rc, parent, cur, actDev,
                   actWq, logVars>>

\* Mutant: the wqs are activated before the devices.
NextTarget_WqsFirst == IF actWq # <<>> THEN Head(actWq) ELSE Head(actDev)

\* The devices, then the wqs, each list from its head.
NextTarget == IF actDev # <<>> THEN Head(actDev) ELSE Head(actWq)

\* activate_devices(): the next object is enabled.
ActivateNext ==
    /\ pc = "activate"
    /\ actDev # <<>> \/ actWq # <<>>
    /\ Enter(Loader, "enable", NextTarget, FALSE)
    /\ pc' = "enabling"
    /\ UNCHANGED <<driverVars, errctx, file, option, pos, rc, parent, cur, actDev,
                   actWq, logVars>>

Enabling ==
    /\ pc = "enabling"
    /\ LocalControlStep(Loader) \/ WriteTakesEffect(Loader)
    /\ UNCHANGED <<loadVars, logVars>>

\* Mutant: the error is not returned.
ActivationFails_Silently == pc' = "done" /\ UNCHANGED rc

\* The first object that cannot be enabled ends the activation and the load.
ActivationFails == pc' = "done" /\ rc' = ret[Loader]

\* accfg_device_enable() or accfg_wq_enable() returns.
Enabled ==
    /\ pc = "enabling"
    /\ step[Loader] = "ret"
    /\ \/ /\ ret[Loader] = 0
          /\ activated' = Append(activated, call[Loader].obj)
          /\ IF actDev # <<>>
               THEN actDev' = Tail(actDev) /\ UNCHANGED actWq
               ELSE actWq' = Tail(actWq) /\ UNCHANGED actDev
          /\ pc' = "activate"
          /\ UNCHANGED rc
       \/ /\ ret[Loader] # 0
          /\ ActivationFails
          /\ UNCHANGED <<actDev, actWq, activated>>
    /\ Leave(Loader)
    /\ UNCHANGED <<driverVars, errctx, file, option, pos, parent, cur, writes,
                   skipped>>

ActivateDone ==
    /\ pc = "activate"
    /\ actDev = <<>> /\ actWq = <<>>
    /\ pc' = "done"
    /\ UNCHANGED <<driverVars, ctlVars, file, option, pos, rc, parent, cur, actDev,
                   actWq, logVars>>

Load ==
    \/ ReadFile
    \/ DeviceMissing \/ DeviceEntry \/ DeviceUnreadable
    \/ Disabling \/ Disabled
    \/ EntryOfNothing \/ ChildMissing
    \/ WqEntry \/ ActiveWqEntry \/ PartEntry
    \/ AttrSkipped \/ AttrSet \/ AttrRefused \/ EntryRejected
    \/ EndOfFile
    \/ ActivateNext \/ Enabling \/ Enabled \/ ActivateDone

\* Other accel-config processes: the net effect of the commands of EnableCmd.
OtherProcess ==
    /\ \/ \E d \in Device : BindDevice(d) \/ UnbindDevice(d)
       \/ \E w \in Wq : BindWq(w) \/ UnbindWq(w)
    /\ UNCHANGED <<ctlVars, loadVars, logVars>>

Next ==
    \/ Load
    \/ OtherProcess
    \/ Environment /\ UNCHANGED <<loadVars, logVars>>

Spec == Init /\ [][Next]_vars

\* The process is scheduled; nothing is assumed of the others.
FairSpec == Spec /\ WF_vars(Load)

-----------------------------------------------------------------------------
\* The block structure of a file f: the last "dev" entry, and the last "dev"
\* entry of a device, at or before place k (0 if none).
LastPlace(S) == IF S = {} THEN 0 ELSE CHOOSE j \in S : \A i \in S : i <= j
BlockOf(f, k) == LastPlace({j \in 1..k : f[j].t = "dev"})
SectionOf(f, k) == LastPlace({j \in 1..k : f[j].t = "dev" /\ f[j].kind = "device"})

\* The component that the "dev" entry at place j stands for.
Denoted(f, j) == IF f[j].kind = "device"
                   THEN f[j].name
                   ELSE GetById(f[SectionOf(f, j)].name, f[j].kind, f[j].id)

\* WritesInBlock: every attribute is written to the component its block in the
\* file denotes, in a section whose device was not skipped.  What guarantees
\* it are the static variables of configure_json_value(), which outlive the
\* block that set them; with a stale parent the wqs of a skipped device would
\* be configured on the device before it.
WritesInBlock ==
    \A wr \in writes :
        LET section == SectionOf(file, wr[1])
            block   == BlockOf(file, wr[1])
        IN  /\ block # 0 /\ section # 0
            /\ wr[2] = Denoted(file, block)
            /\ section \notin skipped

\* The devices and wqs that the first n entries of f, without those in sk, ask
\* to be enabled.
Due(f, sk, n) ==
    {Denoted(f, j) : j \in {i \in 1..n :
        /\ f[i].t = "dev" /\ f[i].kind \in {"device", "wq"}
        /\ SectionOf(f, i) # 0
        /\ SectionOf(f, i) \notin sk /\ i \notin sk}}

\* The devices and wqs a load without error is to enable.
Activatable == Due(file, skipped, Len(file))

Elements(s) == {s[i] : i \in DOMAIN s}

\* LoadedMeansEnabled: a load with -e that returns 0 has itself enabled every
\* device and wq of the file that was not skipped, and nothing else.
LoadedMeansEnabled ==
    pc = "done" /\ rc = 0 /\ option.enable => Elements(activated) = Activatable

\* NothingEnabledEarly: nothing is enabled before the whole file is accepted,
\* so a file with an error anywhere enables nothing.
NothingEnabledEarly == activated # <<>> => pos > Len(file)

\* DeviceBeforeWq: a wq is enabled only after the load enabled its device.
DeviceBeforeWq ==
    \A i \in DOMAIN activated :
        activated[i] \in Wq => \E j \in 1..(i - 1) : activated[j] = DevOf[activated[i]]

\* ActiveWqSkipped: config.c reports an active wq with "is active, will
\* skip...": a load does not fail at an attribute of a wq it skipped.
ActiveWqSkipped ==
    pc = "done" /\ rc # 0 /\ pos <= Len(file) /\ file[pos].t = "attr"
        => BlockOf(file, pos) \notin skipped

\* LoadEnds: load-config ends, whatever the other processes do.
LoadEnds == <>(pc = "done")

-----------------------------------------------------------------------------
(* The inductive invariant behind the invariants above. *)

Walking    == pc \in {"read", "parse", "disabling"}
Activating == pc \in {"activate", "enabling"}

\* The walk has been over the entries before pos.
Places ==
    /\ Walking => rc = 0 /\ pos <= Len(file) + 1
    /\ Activating => rc = 0 /\ option.enable /\ pos > Len(file)
    /\ pc = "disabling" => /\ pos <= Len(file)
                           /\ file[pos].t = "dev" /\ file[pos].kind = "device"
                           /\ file[pos].name # NoObject /\ cur = file[pos].name
    /\ skipped \subseteq 1..(pos - 1)
    /\ \A wr \in writes : wr[1] \in 1..(pos - 1)

\* The static variables stand for the section and the block the walk is in.
Context ==
    pc \in {"read", "parse"} =>
        LET section == SectionOf(file, pos - 1)
            block   == BlockOf(file, pos - 1)
        IN  /\ parent = NoObject <=> section = 0 \/ section \in skipped
            /\ parent # NoObject => parent = file[section].name
            /\ cur # NoObject => /\ parent # NoObject
                                 /\ block # 0 /\ cur = Denoted(file, block)

\* The lists hold what the entries so far ask for; what leaves them is
\* activated.
Queued ==
    /\ ~option.enable => actDev = <<>> /\ actWq = <<>>
    /\ Walking => activated = <<>>
    /\ Walking /\ option.enable
         => Elements(actDev) \cup Elements(actWq) = Due(file, skipped, pos - 1)
    /\ Activating
         => Elements(activated) \cup Elements(actDev) \cup Elements(actWq) = Activatable
    /\ pc = "enabling" => /\ actDev # <<>> \/ actWq # <<>>
                          /\ call[Loader].obj = NextTarget

\* No wq is queued without its device.
DevicesQueued ==
    /\ Walking /\ option.enable /\ parent # NoObject => parent \in Elements(actDev)
    /\ \A w \in Elements(actWq) : DevOf[w] \in Elements(actDev) \cup Elements(activated)

IInv ==
    /\ LoadTypeOK /\ DOMAIN call = Process
    /\ Places
    /\ Context
    /\ WritesInBlock
    /\ Queued
    /\ DevicesQueued
    /\ LoadedMeansEnabled
    /\ NothingEnabledEarly
    /\ DeviceBeforeWq
=============================================================================
