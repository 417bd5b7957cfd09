------------------------------- MODULE Listing -------------------------------
(***************************************************************************)
(* accel-config list and save-config (accfg/list.c), and the walk that     *)
(* load-config makes before it reads its file (accfg/config.c): the walk   *)
(* over devices, groups, wqs and engines of util/filter.c with the filter  *)
(* functions, which build a JSON tree with the help of one container per   *)
(* device.  Other processes enable, disable and regroup meanwhile: states  *)
(* are read from sysfs when a component is visited, the group ids of the   *)
(* wqs and engines were read when the device's directory was scanned.      *)
(*                                                                         *)
(* A container has max_groups slots.  ids[i] is jgroup_id[i], at[i] is     *)
(* jgroup_assigned[i], wq[i] and engine[i] are the arrays jwq_group[i] and *)
(* jengine_group[i], which exist once they have an element.                *)
(***************************************************************************)
EXTENDS IdxdDriver, SequencesExt

CONSTANTS
    Group, Engine,
    DeviceSeq,            \* the devices in the order of the walk
    GroupSeq,             \* the groups of each device, the group with id k at k + 1
    WqSeq, EngineSeq,     \* the wqs and engines of each device
    MaxGroups,            \* max_groups of each device
    NoGroup, BadName,
    Option,               \* the command lines
    MaxOther              \* bound: steps of the other processes

Part == Wq \cup Engine

\* errno.h
EIO == 5
EINVAL == 22

ASSUME ListingAssumption ==
    /\ DeviceSeq \in Seq(Device) /\ IsInjective(DeviceSeq)
    /\ GroupSeq \in [Device -> Seq(Group)]
    /\ WqSeq \in [Device -> Seq(Wq)]
    /\ EngineSeq \in [Device -> Seq(Engine)]
    /\ MaxGroups \in [Device -> Nat \ {0}]
    /\ \A d \in Device : Len(GroupSeq[d]) = MaxGroups[d] /\ IsInjective(GroupSeq[d])
    /\ \A d \in Device : Range(WqSeq[d]) = WqsOf(d)
    /\ Wq \cap Engine = {}
    /\ NoGroup \notin Group
    /\ MaxOther \in Nat

VARIABLES
    gid,        \* sysfs: the group id of each wq and engine, -1 for none
    opt,        \* the command line
    pc, di, k,
    cached,     \* the group ids the process knows
    jc,         \* the containers made so far
    jdevices,   \* the devices in the JSON array
    groupNum,   \* lfa.group_num
    found, rc,
    moved,      \* history: the wqs and devices others changed during the walk
    others

toolVars == <<opt, pc, di, k, cached, jc, jdevices, groupNum, found, rc>>
vars == <<driverVars, gid, toolVars, moved, others>>

Slot(d) == 0..(MaxGroups[d] - 1)
GroupId == {-1} \cup UNION {Slot(d) : d \in Device}
IdOf(d, g) == (CHOOSE i \in DOMAIN GroupSeq[d] : GroupSeq[d][i] = g) - 1

\* filter_device(): a fresh container, zeroed by calloc().
Fresh(d) ==
    [ids |-> [i \in Slot(d) |-> 0], at |-> [i \in Slot(d) |-> NoGroup],
     wq |-> [i \in Slot(d) |-> <<>>], engine |-> [i \in Slot(d) |-> <<>>],
     groups |-> <<>>, looseWq |-> <<>>, looseEngine |-> <<>>]

Container(d) ==
    [ids : [Slot(d) -> Nat], at : [Slot(d) -> Group \cup {NoGroup}],
     wq : [Slot(d) -> Seq(Wq)], engine : [Slot(d) -> Seq(Engine)],
     groups : Seq(Group), looseWq : Seq(Wq), looseEngine : Seq(Engine)]

TypeOK ==
    /\ DriverTypeOK
    /\ gid \in [Part -> Int]
    /\ opt \in Option
    /\ pc \in {"start", "device", "group", "wq", "engine", "display", "done"}
    /\ di \in 1..(Len(DeviceSeq) + 1)
    /\ k \in Nat \ {0}
    /\ cached \in [Part -> Int]
    /\ DOMAIN jc \subseteq Device
    /\ \A d \in DOMAIN jc : jc[d] \in Container(d)
    /\ jdevices \in Seq(Device)
    /\ groupNum \in Nat
    /\ found \in BOOLEAN
    /\ rc \in {0, -EIO, -EINVAL}
    /\ moved \subseteq Device \cup Wq
    /\ others \in 0..MaxOther

\* A wq is active only on an enabled device and in a group.
Init ==
    /\ devState \in [Device -> DeviceState]
    /\ wqState \in [Wq -> {"disabled", "enabled", "locked"}]
    /\ clients = [w \in Wq |-> 0]
    /\ gid \in [Part -> GroupId]
    /\ \A d \in Device : \A x \in Range(WqSeq[d]) \cup Range(EngineSeq[d]) :
         gid[x] < MaxGroups[d]
    /\ \A w \in Wq : Bound(w) => devState[DevOf[w]] = "enabled" /\ gid[w] >= 0
    /\ opt \in Option
    /\ pc = "start" /\ di = 1 /\ k = 1
    /\ cached = gid
    /\ jc = <<>> /\ jdevices = <<>>
    /\ groupNum = 0
    /\ found = FALSE
    /\ rc = 0
    /\ moved = {} /\ others = 0

-----------------------------------------------------------------------------
(* The command line. *)

Idle == opt.idle

\* The walk uses the first filter that is given.
FilterOrder == <<"device", "group", "wq", "engine">>
FilterBy(kind) ==
    /\ kind \in DOMAIN opt.filter
    /\ \A i, j \in DOMAIN FilterOrder :
         i < j /\ FilterOrder[j] = kind => FilterOrder[i] \notin DOMAIN opt.filter
Filtered == DOMAIN opt.filter # {}
Wanted == opt.filter[CHOOSE kind \in DOMAIN opt.filter : FilterBy(kind)]

\* The device an object belongs to.
Home(x) ==
    CHOOSE d \in Device : \/ x = d
                          \/ x \in Range(GroupSeq[d])
                          \/ x \in Range(WqSeq[d]) \cup Range(EngineSeq[d])

-----------------------------------------------------------------------------
dev == DeviceSeq[di]

Exit(e) == pc' = "done" /\ rc' = e

\* util_filter_walk() looks the filter up, which scans the wqs or engines of
\* its device; otherwise they are scanned when the walk comes to them.
Start ==
    /\ pc = "start"
    /\ IF Filtered /\ Wanted = BadName
         THEN Exit(-EINVAL) /\ UNCHANGED <<found, cached>>
         ELSE /\ pc' = "device"
              /\ found' = ~Filtered
              /\ cached' = IF FilterBy("wq") \/ FilterBy("engine")
                           THEN [x \in Part |-> IF Home(x) = Home(Wanted) THEN gid[x]
                                                ELSE cached[x]]
                           ELSE cached
              /\ UNCHANGED rc
    /\ UNCHANGED <<driverVars, gid, opt, di, k, jc, jdevices, groupNum, moved>>

\* The walk goes on with another device.
SkipDevice ==
    /\ pc = "device" /\ di <= Len(DeviceSeq)
    /\ \/ Filtered /\ Home(Wanted) # dev
       \/ opt.cmd # "load" /\ ~Idle /\ devState[dev] # "enabled"
    /\ di' = di + 1
    /\ UNCHANGED <<driverVars, gid, opt, pc, k, cached, jc, jdevices, groupNum, found, rc,
                   moved>>

\* filter_device(): for an idle device util_device_to_json() returns nothing;
\* list leaves it out, load-config makes a container all the same.
VisitDevice ==
    /\ pc = "device" /\ di <= Len(DeviceSeq)
    /\ Filtered => Home(Wanted) = dev
    /\ opt.cmd = "load" \/ Idle \/ devState[dev] = "enabled"
    /\ jc' = [d \in DOMAIN jc \cup {dev} |-> IF d = dev THEN Fresh(d) ELSE jc[d]]
    /\ jdevices' = Append(jdevices, dev)
    /\ found' = (found \/ FilterBy("device"))
    /\ pc' = "group" /\ k' = 1
    /\ UNCHANGED <<driverVars, gid, opt, di, cached, groupNum, rc, moved>>

\* Mutant: what was not found is no error.
WalkOver_Ignored ==
    /\ pc = "device" /\ di > Len(DeviceSeq)
    /\ pc' = "display"
    /\ UNCHANGED <<driverVars, gid, opt, di, k, cached, jc, jdevices, groupNum, found, rc,
                   moved>>

\* "No matching device found"
WalkOver ==
    /\ pc = "device" /\ di > Len(DeviceSeq)
    /\ IF found THEN pc' = "display" /\ UNCHANGED rc ELSE Exit(-EINVAL)
    /\ UNCHANGED <<driverVars, gid, opt, di, k, cached, jc, jdevices, groupNum, found, moved>>

\* Mutant: group_num is taken as it is.
SlotOf_NoModulo(d) == IF groupNum < MaxGroups[d] THEN groupNum ELSE MaxGroups[d] - 1

\* group_num counts the groups of all devices.
SlotOf(d) == groupNum % MaxGroups[d]

\* filter_group(): the group takes the next slot.  With a filter on groups the
\* others are passed over and the loop ends with the one.
VisitGroup ==
    /\ pc = "group" /\ k <= Len(GroupSeq[dev])
    /\ LET g == GroupSeq[dev][k]
           i == SlotOf(dev)
       IN  IF FilterBy("group") /\ Wanted # g
             THEN k' = k + 1 /\ UNCHANGED <<jc, groupNum, found, pc, cached>>
             ELSE /\ jc' = [jc EXCEPT ![dev].ids[i] = IdOf(dev, g),
                                      ![dev].at[i] = g,
                                      ![dev].groups = Append(@, g)]
                  /\ groupNum' = groupNum + 1
                  /\ k' = IF FilterBy("group") THEN Len(GroupSeq[dev]) + 1 ELSE k + 1
                  /\ found' = (found \/ FilterBy("group"))
                  /\ UNCHANGED <<pc, cached>>
    /\ UNCHANGED <<driverVars, gid, opt, di, jdevices, rc, moved>>

\* The wqs and engines are scanned at the head of their loops, if they were not
\* for the filter.
GroupsDone ==
    /\ pc = "group" /\ k > Len(GroupSeq[dev])
    /\ pc' = "wq" /\ k' = 1
    /\ cached' = [x \in Part |->
                    IF x \in Range(WqSeq[dev]) /\ ~FilterBy("wq") THEN gid[x] ELSE cached[x]]
    /\ UNCHANGED <<driverVars, gid, opt, di, jc, jdevices, groupNum, found, rc, moved>>

\* Every slot that holds the group id of the wq or engine.
SlotsFor(d, x) == {i \in Slot(d) : jc[d].ids[i] = cached[x]}

\* Mutant: a locked wq is taken for idle.
Shows_NotLocked(w) == Idle \/ wqState[w] = "enabled"

\* util_wq_to_json() makes nothing of an idle wq.
Shows(w) == Idle \/ wqState[w] \in {"enabled", "locked"}

\* filter_wq(): the wq goes into the array of each slot with its group id, else
\* (list -i only) among the ungrouped ones.
VisitWq ==
    /\ pc = "wq" /\ k <= Len(WqSeq[dev])
    /\ LET w == WqSeq[dev][k]
           S == SlotsFor(dev, w)
       IN  IF FilterBy("wq") /\ Wanted # w
             THEN k' = k + 1 /\ UNCHANGED <<jc, found>>
             ELSE /\ jc' = IF ~Shows(w) THEN jc
                           ELSE [jc EXCEPT
                                  ![dev].wq = [i \in Slot(dev) |->
                                                 IF i \in S THEN Append(@[i], w) ELSE @[i]],
                                  ![dev].looseWq = IF S = {} /\ Idle
                                                   THEN Append(@, w) ELSE @]
                  /\ k' = IF FilterBy("wq") THEN Len(WqSeq[dev]) + 1 ELSE k + 1
                  /\ found' = IF FilterBy("wq") THEN Shows(w) ELSE found
    /\ UNCHANGED <<driverVars, gid, opt, pc, di, cached, jdevices, groupNum, rc, moved>>

WqsDone ==
    /\ pc = "wq" /\ k > Len(WqSeq[dev])
    /\ pc' = "engine" /\ k' = 1
    /\ cached' = [x \in Part |->
                    IF x \in Range(EngineSeq[dev]) /\ ~FilterBy("engine") THEN gid[x]
                    ELSE cached[x]]
    /\ UNCHANGED <<driverVars, gid, opt, di, jc, jdevices, groupNum, found, rc, moved>>

\* filter_engine(): list reads the state of the device again; an engine without
\* a group is always listed by list, never by load-config.
VisitEngine ==
    /\ pc = "engine" /\ k <= Len(EngineSeq[dev])
    /\ LET e == EngineSeq[dev][k]
           S == SlotsFor(dev, e)
           shows == opt.cmd = "load" \/ Idle \/ devState[dev] = "enabled"
       IN  IF FilterBy("engine") /\ Wanted # e
             THEN k' = k + 1 /\ UNCHANGED <<jc, found>>
             ELSE /\ jc' = IF ~shows THEN jc
                           ELSE [jc EXCEPT
                                  ![dev].engine = [i \in Slot(dev) |->
                                                     IF i \in S THEN Append(@[i], e)
                                                     ELSE @[i]],
                                  ![dev].looseEngine = IF S = {} /\ opt.cmd # "load"
                                                       THEN Append(@, e) ELSE @]
                  /\ k' = IF FilterBy("engine") THEN Len(EngineSeq[dev]) + 1 ELSE k + 1
                  /\ found' = IF FilterBy("engine") THEN shows ELSE found
    /\ UNCHANGED <<driverVars, gid, opt, pc, di, cached, jdevices, groupNum, rc, moved>>

\* With a filter the walk ends with the device of the filter.
DeviceDone ==
    /\ pc = "engine" /\ k > Len(EngineSeq[dev])
    /\ pc' = "device"
    /\ di' = IF Filtered THEN Len(DeviceSeq) + 1 ELSE di + 1
    /\ UNCHANGED <<driverVars, gid, opt, k, cached, jc, jdevices, groupNum, found, rc, moved>>

\* What list is to show: the options -D, -G, -Q and -E, else the kind of the
\* filter.
Shown ==
    IF opt.show # "default" THEN opt.show
    ELSE IF Filtered THEN FilterOrder[CHOOSE i \in DOMAIN FilterOrder :
                                         FilterBy(FilterOrder[i])]
    ELSE "all"

\* display_device(), display_group(), display_wq(), display_engine() with a
\* filter of their own kind want the container of its device.
NoMatch ==
    /\ Shown \in DOMAIN opt.filter
    /\ IF Shown = "device" THEN jdevices = <<>>
       ELSE opt.filter[Shown] = BadName \/ Home(opt.filter[Shown]) \notin DOMAIN jc

\* list_display(), save_config(), or read_config_file() of load-config
Display ==
    /\ pc = "display"
    /\ \/ opt.cmd = "list" /\ Exit(IF NoMatch THEN -EINVAL ELSE 0)
       \/ opt.cmd = "save" /\ Exit(-EIO)       \* the file cannot be opened
       \/ opt.cmd \in {"save", "load"} /\ Exit(0)
    /\ UNCHANGED <<driverVars, gid, opt, di, k, cached, jc, jdevices, groupNum, found, moved>>

Tool ==
    /\ \/ Start \/ SkipDevice \/ VisitDevice \/ WalkOver
       \/ VisitGroup \/ GroupsDone \/ VisitWq \/ WqsDone \/ VisitEngine \/ DeviceDone
       \/ Display
    /\ UNCHANGED others

\* Another process enables or disables a device or wq, or puts a disabled wq
\* into another group.
OtherProcess ==
    /\ others < MaxOther /\ pc # "done"
    /\ others' = others + 1
    /\ \/ \E d \in Device : /\ BindDevice(d) \/ UnbindDevice(d)
                            /\ moved' = moved \cup {d} \cup WqsOf(d)
                            /\ UNCHANGED gid
       \/ \E w \in Wq : /\ \/ BindWq(w) /\ gid[w] >= 0
                           \/ UnbindWq(w) \/ LockWq(w)
                        /\ moved' = moved \cup {w}
                        /\ UNCHANGED gid
       \/ \E w \in Wq : /\ wqState[w] = "disabled"
                        /\ \E g \in -1..(MaxGroups[DevOf[w]] - 1) :
                             gid' = [gid EXCEPT ![w] = g]
                        /\ moved' = moved \cup {w}
                        /\ UNCHANGED driverVars
    /\ UNCHANGED toolVars

Next == Tool \/ OtherProcess

Spec == Init /\ [][Next]_vars

-----------------------------------------------------------------------------
\* How often x stands in the arrays of its device.
Copies(d, x) ==
    Cardinality({i \in Slot(d) : x \in Range(jc[d].wq[i])})
    + Cardinality({i \in Slot(d) : x \in Range(jc[d].engine[i])})
    + (IF x \in Range(jc[d].looseWq) \cup Range(jc[d].looseEngine) THEN 1 ELSE 0)

\* A wq or engine is listed under the group it was in when the tool read it,
\* and in that group's array only, whatever number of groups the devices
\* before it have (jgroup_id[group_num % max_groups]); a filter on a group is
\* another matter.
InOwnGroup ==
    \A d \in DOMAIN jc : ~FilterBy("group") =>
        \A i \in Slot(d) : \A x \in Range(jc[d].wq[i]) \cup Range(jc[d].engine[i]) :
            /\ jc[d].at[i] # NoGroup
            /\ IdOf(d, jc[d].at[i]) = cached[x]
            /\ Copies(d, x) = 1

\* Once the tool has ended well and without a filter, every wq of a listed
\* device that no other process touched is listed exactly if it is active, or
\* with -i; save-config thus loses no active wq.
ListingComplete ==
    pc = "done" /\ rc = 0 /\ ~Filtered =>
        /\ opt.cmd # "load" =>
             \A d \in Range(DeviceSeq) \ moved :
                 d \in DOMAIN jc <=> Idle \/ devState[d] = "enabled"
        /\ \A d \in DOMAIN jc : \A w \in Range(WqSeq[d]) \ moved :
             Copies(d, w) = IF Idle \/ wqState[w] \in {"enabled", "locked"} THEN 1 ELSE 0

\* If a filter names a wq or an engine and the tool ends with 0, that one is
\* in the listing, unless its group changed while the tool ran.
FoundMeansListed ==
    pc = "done" /\ rc = 0 /\ opt.cmd = "list" /\ (FilterBy("wq") \/ FilterBy("engine")) =>
        \/ Copies(Home(Wanted), Wanted) = 1
        \/ Wanted \in moved

-----------------------------------------------------------------------------
(* The inductive invariant behind these properties. *)

InDevice == pc \in {"group", "wq", "engine"}

\* Where the walk is: the devices with a container are behind, or the one at hand.
Whereabouts ==
    /\ InDevice => /\ di <= Len(DeviceSeq) /\ dev \in DOMAIN jc
                   /\ Filtered => Home(Wanted) = dev
    /\ \A d \in DOMAIN jc : \E n \in DOMAIN DeviceSeq :
         DeviceSeq[n] = d /\ n <= di /\ (n = di => InDevice)
    /\ pc = "start" => DOMAIN jc = {} /\ di = 1 /\ ~found
    /\ pc = "group" => k <= MaxGroups[dev] + 1
    /\ pc = "display" \/ (pc = "done" /\ rc = 0) => found /\ di > Len(DeviceSeq)

\* What the process knows of a group id is right, but for what others changed.
GroupIds ==
    /\ \A w \in Wq : gid[w] < MaxGroups[DevOf[w]] /\ (Bound(w) => gid[w] >= 0)
    /\ \A x \in Part \ (moved \cap Wq) : cached[x] = gid[x]

\* The groups of a device and its slots match one to one.
Filled(d) ==
    /\ \A i \in Slot(d) : jc[d].at[i] # NoGroup /\ IdOf(d, jc[d].at[i]) = jc[d].ids[i]
    /\ \A i, j \in Slot(d) : jc[d].ids[i] = jc[d].ids[j] => i = j
    /\ \A n \in Slot(d) : \E i \in Slot(d) : jc[d].ids[i] = n

\* After k - 1 groups the next one is for slot SlotOf(d), the one before it is in
\* the slot before it, and so on around; no wq or engine is in an array yet.
Filling(d) ==
    /\ \A i \in Slot(d) :
         LET j == k - 1 - SlotOf(d) + i - (IF i < SlotOf(d) THEN 0 ELSE MaxGroups[d])
         IN  j >= 0 => jc[d].ids[i] = j /\ jc[d].at[i] = GroupSeq[d][j + 1]
    /\ \A i \in Slot(d) : jc[d].wq[i] = <<>> /\ jc[d].engine[i] = <<>>
    /\ jc[d].looseWq = <<>> /\ jc[d].looseEngine = <<>>

Slots ==
    ~FilterBy("group") =>
        \A d \in DOMAIN jc : IF pc = "group" /\ d = dev THEN Filling(d) ELSE Filled(d)

InArray(d, i) == Range(jc[d].wq[i]) \cup Range(jc[d].engine[i])
Loose(d) == Range(jc[d].looseWq) \cup Range(jc[d].looseEngine)
Listed(d, x) == x \in Loose(d) \/ \E i \in Slot(d) : x \in InArray(d, i)

\* A wq or engine is in the array of a slot with its group id, or among the
\* ungrouped ones if there is none; the wqs are those of the device.
Arrays ==
    ~FilterBy("group") =>
        \A d \in DOMAIN jc :
            /\ \A i \in Slot(d) : \A x \in InArray(d, i) : jc[d].ids[i] = cached[x]
            /\ \A x \in Loose(d) : \A i \in Slot(d) : jc[d].ids[i] # cached[x]
            /\ \A w \in Wq : Listed(d, w) => DevOf[w] = d

\* The devices behind have a container, and the wqs behind are listed, exactly
\* if they are active or all are wanted.
Active(w) == Idle \/ wqState[w] \in {"enabled", "locked"}
DevicesBehind ==
    ~Filtered /\ opt.cmd # "load" =>
        \A n \in DOMAIN DeviceSeq :
            (n < di \/ (n = di /\ InDevice)) /\ DeviceSeq[n] \notin moved
                => (DeviceSeq[n] \in DOMAIN jc <=> Idle \/ devState[DeviceSeq[n]] = "enabled")
WqsBehind ==
    ~Filtered =>
        \A d \in DOMAIN jc :
            /\ \A w \in Wq \ moved : Listed(d, w) => Active(w)
            /\ \A n \in DOMAIN WqSeq[d] :
                 /\ pc = "group" => d # dev
                 /\ pc = "wq" /\ d = dev => n < k
                 /\ WqSeq[d][n] \notin moved /\ Active(WqSeq[d][n])
                 => Listed(d, WqSeq[d][n])

\* What was found is listed.
FoundSoFar ==
    /\ Filtered /\ found /\ pc = "device" => di > Len(DeviceSeq)
    /\ (FilterBy("wq") \/ FilterBy("engine")) /\ found =>
         /\ pc \notin {"start", "group"}
         /\ Wanted \in Part /\ Home(Wanted) \in DOMAIN jc
         /\ opt.cmd = "list" => Listed(Home(Wanted), Wanted) \/ Wanted \in moved

ListingInv ==
    /\ TypeOK
    /\ Whereabouts /\ GroupIds
    /\ Slots /\ Arrays
    /\ DevicesBehind /\ WqsBehind /\ FoundSoFar
=============================================================================
