----------------------------- MODULE Enumeration -----------------------------
(***************************************************************************)
(* The object tree of libaccfg (accfg/lib/libaccfg.c, util/sysfs.c): a     *)
(* program creates a context, takes and drops references to it, and walks  *)
(* over devices, groups, wqs and engines.  Devices and groups are scanned  *)
(* at the first walk, wqs and engines of a device when they are first      *)
(* asked for; flags of the device's group remember that.  Any of the       *)
(* allocations and opens may fail, in which case the object is left out.   *)
(*                                                                         *)
(* wqs[d] and engines[d] are the lists of device d; an element is a heap   *)
(* object [kind, id, copy, group], copy telling apart the objects that     *)
(* different scans made of the same directory.                             *)
(***************************************************************************)
EXTENDS Integers, SequencesExt

CONSTANTS
    Device, Group, Wq, Engine,
    DeviceDir,     \* /sys/bus/dsa/devices: the devices in the order of scandir
    GroupDir,      \* the groups of each device, in that order
    WqDir, EngineDir,
    NoGroup,       \* the null pointer
    MaxRef,        \* bound: references to a context
    MaxScan        \* bound: scans of the wqs or engines of one device

ASSUME EnumerationAssumption ==
    /\ DeviceDir \in Seq(Device) /\ IsInjective(DeviceDir)
    /\ GroupDir \in [Device -> Seq(Group)]
    /\ WqDir \in [Device -> Seq(Wq)]
    /\ EngineDir \in [Device -> Seq(Engine)]
    /\ \A d \in Device : /\ IsInjective(GroupDir[d]) /\ IsInjective(WqDir[d])
                         /\ IsInjective(EngineDir[d])
    /\ \A c, d \in Device : c # d => Range(GroupDir[c]) \cap Range(GroupDir[d]) = {}
    /\ NoGroup \notin Group
    /\ MaxRef \in Nat \ {0} /\ MaxScan \in Nat \ {0}

VARIABLES
    refcount,     \* of the context; 0: there is none
    devicesInit,  \* ctx->devices_init
    devices,      \* ctx->devices
    groups,       \* device->groups
    groupPtr,     \* device->group
    wqs, engines, \* device->wqs, device->engines
    initFlag,     \* the flags wqs_init and engines_init of the groups
    heap,         \* the objects allocated
    cursor,       \* the walk the program is in, if any: <<kind, device, index>>
    scans,        \* how often the wqs and engines of a device were scanned
    missed,       \* history: the objects a scan had to leave out
    lateGroup     \* history: groups freed after device->group was set

listVars == <<devices, groups, groupPtr, wqs, engines, initFlag, heap>>
vars == <<refcount, devicesInit, listVars, cursor, scans, missed, lateGroup>>

Kind == {"wq", "engine"}
Dir(kind) == IF kind = "wq" THEN WqDir ELSE EngineDir
List(kind) == IF kind = "wq" THEN wqs ELSE engines

Obj(kind, id, copy, g) == [kind |-> kind, id |-> id, copy |-> copy, group |-> g]
ObjectSet == [kind : {"device"}, id : Device, copy : {1}, group : {NoGroup}]
             \cup [kind : {"group"}, id : Group, copy : {1}, group : {NoGroup}]
             \cup [kind : {"wq"}, id : Wq, copy : 1..MaxScan, group : Group \cup {NoGroup}]
             \cup [kind : {"engine"}, id : Engine, copy : 1..MaxScan,
                   group : Group \cup {NoGroup}]
NoWalk == <<>>

ListTypeOK ==
    /\ refcount \in 0..MaxRef
    /\ devicesInit \in BOOLEAN
    /\ devices \in Seq(Device)
    /\ groups \in [Device -> Seq(Group)]
    /\ groupPtr \in [Device -> Group \cup {NoGroup}]
    /\ wqs \in [Device -> Seq(ObjectSet)]
    /\ engines \in [Device -> Seq(ObjectSet)]
    /\ initFlag \subseteq Kind \X Group
    /\ scans \in [Device -> [Kind -> 0..MaxScan]]

TypeOK ==
    /\ ListTypeOK
    /\ heap \subseteq ObjectSet
    /\ \/ cursor = NoWalk
       \/ \E kind \in Kind, d \in Device : \E i \in DOMAIN List(kind)[d] :
            cursor = <<kind, d, i>>
    /\ missed \subseteq Device \cup Group \cup Wq \cup Engine
    /\ lateGroup \subseteq Group

NoList == [d \in Device |-> <<>>]
NoPtr  == [d \in Device |-> NoGroup]

\* No context: nothing is listed and nothing is allocated.
Init ==
    /\ refcount = 0
    /\ devicesInit = FALSE
    /\ devices = <<>> /\ groups = NoList /\ groupPtr = NoPtr
    /\ wqs = NoList /\ engines = NoList /\ initFlag = {}
    /\ heap = {}
    /\ cursor = NoWalk
    /\ scans = [d \in Device |-> [k \in Kind |-> 0]]
    /\ missed = {}
    /\ lateGroup = {}

-----------------------------------------------------------------------------
\* accfg_new()
New ==
    /\ refcount = 0
    /\ refcount' = 1
    /\ devicesInit' = FALSE
    /\ missed' = {} /\ lateGroup' = {}
    /\ scans' = [d \in Device |-> [k \in Kind |-> 0]]
    /\ UNCHANGED <<listVars, cursor>>

\* accfg_ref()
Ref ==
    /\ refcount \in 1..(MaxRef - 1)
    /\ refcount' = refcount + 1
    /\ UNCHANGED <<devicesInit, listVars, cursor, scans, missed, lateGroup>>

\* Mutant: the engines are forgotten.
Freed_NotEngines ==
    {o \in heap : \/ o.kind = "device" /\ o.id \in Range(devices)
                  \/ \E d \in Range(devices) :
                       \/ o.kind = "group" /\ o.id \in Range(groups[d])
                       \/ o \in Range(wqs[d])}

\* free_context(): every device on the list, with all that is on its lists.
Freed ==
    {o \in heap : \/ o.kind = "device" /\ o.id \in Range(devices)
                  \/ \E d \in Range(devices) :
                       \/ o.kind = "group" /\ o.id \in Range(groups[d])
                       \/ o \in Range(wqs[d])
                       \/ o \in Range(engines[d])}

\* accfg_unref(): the last reference takes the context with it.  A program
\* drops the last one only when it is done with its walk.
Unref ==
    /\ refcount > 0
    /\ refcount > 1 \/ cursor = NoWalk
    /\ refcount' = refcount - 1
    /\ IF refcount > 1
         THEN UNCHANGED <<devicesInit, listVars>>
         ELSE /\ devicesInit' = FALSE
              /\ devices' = <<>> /\ groups' = NoList /\ groupPtr' = NoPtr
              /\ wqs' = NoList /\ engines' = NoList /\ initFlag' = {}
              /\ heap' = heap \ Freed
    /\ UNCHANGED <<cursor, scans, missed, lateGroup>>

-----------------------------------------------------------------------------
\* __sysfs_device_parse(): one entry of dir after the other, those for which
\* the callback works out are appended to the list.
Parse(dir, failed) ==
    LET list[n \in 0..Len(dir)] ==
          IF n = 0 THEN <<>>
          ELSE IF dir[n] \in failed THEN list[n - 1] ELSE Append(list[n - 1], dir[n])
    IN  list[Len(dir)]

\* Mutant: device->group is set at the head of add_group(), whatever follows.
GroupPtr_Early(d, early, late) ==
    IF GroupDir[d] = <<>> THEN NoGroup ELSE Last(GroupDir[d])

\* add_group() sets device->group on its way, so the last group that got that
\* far stays, even if it is freed afterwards.
GroupPtr(d, early, late) ==
    LET reached == Parse(GroupDir[d], early)
    IN  IF reached = <<>> THEN NoGroup ELSE Last(reached)

\* accfg_device_get_first() for the first time: devices_init() scans the
\* devices and, with groups_init(), the groups of each.  noDevice are the
\* devices that add_device() gives up on; early and late are the groups that
\* add_group() gives up on before and after it set device->group.
DevicesInit ==
    /\ refcount > 0 /\ ~devicesInit
    /\ devicesInit' = TRUE
    /\ \E noDevice \in SUBSET Device, early \in SUBSET Group, late \in SUBSET Group :
         /\ early \cap late = {}
         /\ devices' = Parse(DeviceDir, noDevice)
         /\ groups' = [d \in Device |->
                         IF d \in Range(devices')
                         THEN Parse(GroupDir[d], early \cup late) ELSE <<>>]
         /\ groupPtr' = [d \in Device |-> IF d \in Range(devices')
                                          THEN GroupPtr(d, early, late) ELSE NoGroup]
         /\ missed' = missed \cup noDevice \cup early \cup late
         /\ lateGroup' = late
         /\ heap' = heap
              \cup {Obj("device", d, 1, NoGroup) : d \in Range(devices')}
              \cup {Obj("group", g, 1, NoGroup) : g \in UNION {Range(groups'[d]) : d \in Device}}
    /\ UNCHANGED <<refcount, wqs, engines, initFlag, cursor, scans>>

-----------------------------------------------------------------------------
\* device->group points to a group that was freed.
Dangling(d) == groupPtr[d] \in lateGroup

\* Whether wqs_init() or engines_init() scans: not if the flag of the device's
\* group is set.  Without a group there is no flag, and the flag of a freed
\* group is whatever the memory holds.
MayScan(kind, d) ==
    \/ groupPtr[d] = NoGroup
    \/ Dangling(d)
    \/ <<kind, groupPtr[d]>> \notin initFlag
MaySkip(kind, d) ==
    groupPtr[d] # NoGroup /\ (Dangling(d) \/ <<kind, groupPtr[d]>> \in initFlag)

\* Mutant: the flag is not set.
SetFlag_Forgotten(kind, d) == initFlag' = initFlag

\* group->wqs_init = 1, group->engines_init = 1
SetFlag(kind, d) ==
    initFlag' = IF groupPtr[d] = NoGroup \/ Dangling(d) THEN initFlag
                ELSE initFlag \cup {<<kind, groupPtr[d]>>}

\* wqs_init() and engines_init() with add_wq() and add_engine(): the flag is
\* set, the objects are appended to the list; one that cannot be completed is
\* freed at once.
Scan(kind, d) ==
    /\ MayScan(kind, d)
    /\ scans[d][kind] < MaxScan
    /\ scans' = [scans EXCEPT ![d][kind] = @ + 1]
    /\ SetFlag(kind, d)
    /\ \E failed \in SUBSET Range(Dir(kind)[d]) :
         LET found == Parse(Dir(kind)[d], failed)
             new   == [i \in DOMAIN found |->
                         Obj(kind, found[i], scans[d][kind] + 1, groupPtr[d])]
         IN  /\ missed' = missed \cup failed
             /\ heap' = heap \cup Range(new)
             /\ IF kind = "wq"
                  THEN wqs' = [wqs EXCEPT ![d] = @ \o new] /\ UNCHANGED engines
                  ELSE engines' = [engines EXCEPT ![d] = @ \o new] /\ UNCHANGED wqs
    /\ UNCHANGED <<devices, groups, groupPtr>>

Known(kind, d) ==
    /\ MaySkip(kind, d)
    /\ UNCHANGED <<listVars, scans, missed>>

\* accfg_wq_get_first(), accfg_engine_get_first(): the head of a walk.
GetFirst(kind, d) ==
    /\ devicesInit /\ d \in Range(devices) /\ cursor = NoWalk
    /\ Scan(kind, d) \/ Known(kind, d)
    /\ cursor' = IF List(kind)'[d] = <<>> THEN NoWalk ELSE <<kind, d, 1>>
    /\ UNCHANGED <<refcount, devicesInit, lateGroup>>

\* Mutant: the list head is not recognised as the end of the circular list.
GetNext_Circular ==
    /\ cursor # NoWalk
    /\ LET kind == cursor[1]
           d    == cursor[2]
           i    == cursor[3]
       IN  cursor' = IF i < Len(List(kind)[d]) THEN <<kind, d, i + 1>> ELSE <<kind, d, 1>>
    /\ UNCHANGED <<refcount, devicesInit, listVars, scans, missed, lateGroup>>

\* accfg_wq_get_next(), accfg_engine_get_next()
GetNext ==
    /\ cursor # NoWalk
    /\ LET kind == cursor[1]
           d    == cursor[2]
           i    == cursor[3]
       IN  cursor' = IF i < Len(List(kind)[d]) THEN <<kind, d, i + 1>> ELSE NoWalk
    /\ UNCHANGED <<refcount, devicesInit, listVars, scans, missed, lateGroup>>

\* accfg_device_wq_get_by_id(), accfg_device_engine_get_by_id(), parse_wq_name()
\* and the like: a walk of their own, also in the body of another one.
GetById(kind, d) ==
    /\ devicesInit /\ d \in Range(devices) /\ cursor # NoWalk
    /\ Scan(kind, d) \/ Known(kind, d)
    /\ UNCHANGED <<refcount, devicesInit, cursor, lateGroup>>

Next ==
    \/ New \/ Ref \/ Unref
    \/ DevicesInit
    \/ \E kind \in Kind, d \in Device : GetFirst(kind, d) \/ GetById(kind, d)
    \/ GetNext

Spec == Init /\ [][Next]_vars

\* A program goes on with its walk.
FairSpec == Spec /\ WF_vars(GetNext)

-----------------------------------------------------------------------------
\* On a device with a group the lists hold every directory once, in the order
\* of scandir, however often and in whatever order the program asked for them;
\* what is missing could not be added (the flags wqs_init and engines_init of
\* the device's last group).
ListedOnce ==
    \A d \in Range(devices), kind \in Kind :
        groupPtr[d] # NoGroup /\ ~Dangling(d) =>
            LET ids == [i \in DOMAIN List(kind)[d] |-> List(kind)[d][i].id]
            IN  \/ <<kind, groupPtr[d]>> \notin initFlag /\ ids = <<>>
                \/ /\ <<kind, groupPtr[d]>> \in initFlag
                   /\ \E F \in SUBSET missed : ids = Parse(Dir(kind)[d], F)

\* Everything allocated is on a list of the context and everything on a list
\* is allocated, so that the last accfg_unref() leaks nothing and frees nothing
\* twice (the error paths of add_*() and free_context()).
HeapIsListed ==
    heap = {Obj("device", d, 1, NoGroup) : d \in Range(devices)}
      \cup UNION {{Obj("group", g, 1, NoGroup) : g \in Range(groups[d])}
                    \cup Range(wqs[d]) \cup Range(engines[d]) : d \in Range(devices)}

\* The group a device, wq or engine points to is allocated; the exception is a
\* last group whose add_group() failed after device->group = group.
GroupsLive ==
    \A d \in Range(devices) :
        \A g \in {groupPtr[d]} \cup {o.group : o \in Range(wqs[d]) \cup Range(engines[d])} :
            \/ g = NoGroup
            \/ Obj("group", g, 1, NoGroup) \in heap
            \/ g \in lateGroup /\ g = groupPtr[d]

\* Every walk over a device with a group comes to its end, also if lookups by
\* id or name happen in the body of the loop.
WalkEnds ==
    \A kind \in Kind, d \in Device :
        (/\ cursor # NoWalk /\ cursor[1] = kind /\ cursor[2] = d
         /\ groupPtr[d] # NoGroup /\ ~Dangling(d)) ~> (cursor = NoWalk)

-----------------------------------------------------------------------------
(* The inductive invariant behind the first three properties. *)

\* Nothing exists before the devices are scanned, nor after the context is gone.
Unscanned ==
    /\ refcount = 0 => ~devicesInit
    /\ ~devicesInit => /\ devices = <<>> /\ groups = NoList /\ groupPtr = NoPtr
                       /\ wqs = NoList /\ engines = NoList /\ initFlag = {}
                       /\ heap = {}

\* device->group is a group of the device: no other device shares its flags.
OwnGroup == \A d \in Device : groupPtr[d] \in Range(GroupDir[d]) \cup {NoGroup}

IInv ==
    /\ ListTypeOK
    /\ Unscanned
    /\ OwnGroup
    /\ ListedOnce
    /\ HeapIsListed
    /\ GroupsLive
=============================================================================
