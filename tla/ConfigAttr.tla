----------------------------- MODULE ConfigAttr -----------------------------
(***************************************************************************)
(* accel-config config-device, config-group, config-wq and config-engine   *)
(* (accfg/config_attr.c) with the setters of accfg/lib/libaccfg.c: each    *)
(* process goes through the names on its command line; for each name that  *)
(* exists the options are validated against the limits of its device and   *)
(* then written to sysfs one attribute at a time, in the order of the      *)
(* code, up to the first failure.  Several processes run at once.          *)
(*                                                                         *)
(* A number on the command line is an unbounded integer; it is stored in   *)
(* an int, an unsigned int or a uint64_t, whose widths are scaled by       *)
(* IntMax.  Some values of those types mean "option not given".            *)
(***************************************************************************)
EXTENDS Integers, Sequences

CONSTANTS
    Process,        \* accel-config processes
    Device, Group, Wq, Engine,
    DevOf,          \* the device of each device, group, wq and engine
    Limit,          \* what each device's sysfs attributes say of it
    Missing,        \* attributes <<x, a>> this kernel does not have
    KnownDriver,    \* the wq drivers of the kernel
    BadName,        \* a name that names nothing
    Command,        \* the command lines
    Pow2,           \* the powers of two
    IntMax          \* INT_MAX

UIntMax == 2 * IntMax + 1
ULongMax == 8 * IntMax + 7      \* any power of two above UINT_MAX

ENOENT == 2
EIO    == 5
ENOMEM == 12
EINVAL == 22

DEV_EVL_SIZE_MIN == 64
DEV_EVL_SIZE_MAX == 65535

Object == Device \cup Group \cup Wq \cup Engine

KindOf(x) == IF x \in Device THEN "device" ELSE IF x \in Group THEN "group"
             ELSE IF x \in Wq THEN "wq" ELSE "engine"

\* The attributes in the order in which they are written.
SetterOrder ==
    [device |-> <<"read_buffer_limit", "event_log_size">>,
     group  |-> <<"use_read_buffer_limit", "read_buffers_reserved",
                  "read_buffers_allowed", "traffic_class_a", "traffic_class_b",
                  "desc_progress_limit", "batch_progress_limit">>,
     wq     |-> <<"mode", "type", "name", "driver_name", "op_config", "size",
                  "group_id", "priority", "block_on_fault", "prs_disable",
                  "threshold", "max_batch_size", "max_transfer_size",
                  "ats_disable">>,
     engine |-> <<"group_id">>]

AttrsOf(kind) == {SetterOrder[kind][i] : i \in DOMAIN SetterOrder[kind]}

\* The C type of each parameter.
StrAttr  == {"mode", "type", "name", "driver_name", "op_config"}
UIntAttr == {"read_buffer_limit", "use_read_buffer_limit", "read_buffers_reserved",
             "read_buffers_allowed", "size", "priority", "threshold",
             "max_batch_size"}
LongAttr == {"max_transfer_size"}

\* On or off
Switch == {"use_read_buffer_limit", "block_on_fault", "prs_disable", "ats_disable"}

\* The driver holds these as exponents.
Rounded == {"max_batch_size", "max_transfer_size"}

Kind    == DOMAIN SetterOrder
Target  == UNION {{<<x, a>> : a \in AttrsOf(KindOf(x))} : x \in Object}
Text    == STRING \cup {"none", "NULL"}   \* "NULL" stands for the null pointer
ValueOf(a) == IF a \in StrAttr THEN Text ELSE Int

ASSUME PowerAssumption ==
    Pow2 \subseteq Nat \ {0} /\ \A m, n \in Pow2 : m < n => 2 * m <= n

ASSUME ConfigAssumption ==
    /\ BadName \notin Object
    /\ DevOf \in [Object -> Device]
    /\ IntMax \in Nat /\ IntMax > DEV_EVL_SIZE_MAX
    /\ Limit \in [Device -> [version : Nat, max_groups : Nat, max_wq_size : 0..IntMax,
                             max_batch_size : {0} \cup Pow2,
                             max_transfer_size : {0} \cup Pow2,
                             configurable : BOOLEAN]]
    /\ \A d \in Device : Limit[d].max_batch_size <= IntMax
    /\ Missing \subseteq Target

\* A command line has names of objects of one kind, or none, and values.
NamesOf(kind) == {BadName} \cup {x \in Object : KindOf(x) = kind}

ASSUME CommandAssumption ==
    \A c \in Command :
        /\ c.kind \in Kind
        /\ c.names \in Seq(NamesOf(c.kind))
        /\ DOMAIN c.opt \subseteq AttrsOf(c.kind)
        /\ \A a \in DOMAIN c.opt : c.opt[a] \in ValueOf(a)

VARIABLES
    sysfs,     \* the attributes
    cmd, pc, pos, ai, rc,
    errno,     \* errno of each process
    cache,     \* each process's copy of the attributes, in its accfg_ctx
    applied,   \* history: the attributes each process wrote
    passed,    \* history: the attributes a setter left alone but returned 0
    lost       \* history: attributes written by others since the scan, or
               \* since the process's own write

vars == <<sysfs, cmd, pc, pos, ai, rc, errno, cache, applied, passed, lost>>

TypeOK ==
    /\ DOMAIN sysfs = Target /\ \A t \in Target : sysfs[t] \in ValueOf(t[2])
    /\ cmd \in [Process -> Command]
    /\ pc \in [Process -> {"start", "name", "set", "done"}]
    /\ pos \in [Process -> Nat \ {0}]
    /\ ai \in [Process -> Nat]
    /\ rc \in [Process -> {0, -ENOENT, -EIO, -ENOMEM, -EINVAL}]
    /\ errno \in [Process -> {0, ENOENT, EIO}]
    /\ DOMAIN cache = Process
    /\ \A p \in Process : DOMAIN cache[p] = Target
                          /\ \A t \in Target : cache[p][t] \in ValueOf(t[2])
    /\ applied \in [Process -> SUBSET Target]
    /\ passed \in [Process -> SUBSET Target]
    /\ lost \in [Process -> SUBSET Target]

\* The attributes of a freshly loaded driver; what they are does not matter.
\* errno is whatever the scan of the devices left: 0, or ENOENT of an optional
\* attribute that could not be opened.
Init ==
    /\ sysfs = [t \in Target |-> IF t[2] \in StrAttr THEN "none" ELSE 0]
    /\ cmd \in [Process -> Command]
    /\ pc = [p \in Process |-> "start"]
    /\ pos = [p \in Process |-> 1]
    /\ ai = [p \in Process |-> 0]
    /\ rc = [p \in Process |-> 0]
    /\ errno \in [Process -> {0, ENOENT}]
    /\ cache = [p \in Process |-> sysfs]
    /\ applied = [p \in Process |-> {}]
    /\ passed = [p \in Process |-> {}]
    /\ lost = [p \in Process |-> {}]

-----------------------------------------------------------------------------
(* From the command line to the parameters. *)

AsInt(n)  == ((n + IntMax + 1) % (UIntMax + 1)) - IntMax - 1
AsUInt(n) == n % (UIntMax + 1)
AsU64(n)  == n % (ULongMax + 1)

\* get_value(): strtol() and strtoull() read the number, the assignment
\* truncates it.
Stored(a, n) ==
    IF a \in StrAttr THEN n
    ELSE IF a \in UIntAttr THEN AsUInt(n)
    ELSE IF a \in LongAttr THEN AsU64(n)
    ELSE AsInt(n)

\* The values that stand for an option that was not given.
NotGiven(kind, a) ==
    IF a \in StrAttr THEN "NULL"
    ELSE IF kind \in {"device", "group"} /\ a \in UIntAttr THEN UIntMax
    ELSE IntMax

\* Each parameter starts with the value for "not given", except for
\* engine_param, which is all zero.
Param(c, a) ==
    IF a \in DOMAIN c.opt THEN Stored(a, c.opt[a])
    ELSE IF c.kind = "engine" THEN 0
    ELSE NotGiven(c.kind, a)

Given(c, a) == Param(c, a) # NotGiven(c.kind, a)

-----------------------------------------------------------------------------
(* The validation at the head of accel_config_parse_*_attribs(). *)

ValidDevice(c) ==
    LET P(a) == Param(c, a) IN
    Given(c, "event_log_size") => P("event_log_size") \in DEV_EVL_SIZE_MIN..DEV_EVL_SIZE_MAX

ValidGroup(c, lim) ==
    LET P(a) == Param(c, a) IN
    /\ lim.version < 2 => \A a \in {"traffic_class_a", "traffic_class_b"} : ~Given(c, a)
    /\ \A a \in {"read_buffers_reserved", "read_buffers_allowed"} :
         Given(c, a) => P(a) < 255
    /\ \A a \in {"desc_progress_limit", "batch_progress_limit"} :
         Given(c, a) => P(a) \in 0..3
    /\ Given(c, "use_read_buffer_limit") => P("use_read_buffer_limit") <= 1
    /\ \A a \in {"traffic_class_a", "traffic_class_b"} :
         Given(c, a) => P(a) \in 0..7

\* Only max_batch_size and max_transfer_size have a lower bound.
ValidWq(c, lim) ==
    LET P(a) == Param(c, a) IN
    /\ P("mode") \in {"NULL", "shared", "dedicated"}
    /\ Given(c, "size") => P("size") <= lim.max_wq_size
    /\ Given(c, "group_id") => P("group_id") < lim.max_groups
    /\ \A a \in {"block_on_fault", "prs_disable", "ats_disable"} :
         Given(c, a) => P(a) <= 1
    /\ Given(c, "max_batch_size") => P("max_batch_size") \in 1..lim.max_batch_size
    /\ Given(c, "max_transfer_size") =>
         P("max_transfer_size") \in 1..lim.max_transfer_size

ValidEngine(c, lim) == Param(c, "group_id") < lim.max_groups

Valid(c, x) ==
    LET lim == Limit[DevOf[x]] IN
    CASE c.kind = "device" -> ValidDevice(c)
      [] c.kind = "group"  -> ValidGroup(c, lim)
      [] c.kind = "wq"     -> ValidWq(c, lim)
      [] c.kind = "engine" -> ValidEngine(c, lim)

-----------------------------------------------------------------------------
Name(p)  == cmd[p].names[pos[p]]
Order(p) == SetterOrder[cmd[p].kind]

\* The options of p's command that are still to be written for this name.
Todo(p) == {k \in (ai[p] + 1)..Len(Order(p)) : Given(cmd[p], Order(p)[k])}
Next1(p) == CHOOSE k \in Todo(p) : \A j \in Todo(p) : k <= j
Attr(p) == Order(p)[Next1(p)]
Here(p) == <<Name(p), Attr(p)>>

\* Every number but max_transfer_size is written with "%d".
Written(a, v) == IF a \in UIntAttr THEN AsInt(v) ELSE v

Exit(p, e) == pc' = [pc EXCEPT ![p] = "done"] /\ rc' = [rc EXCEPT ![p] = e]

\* The process scans sysfs.
Start(p) ==
    /\ pc[p] = "start"
    /\ pc' = [pc EXCEPT ![p] = "name"]
    /\ cache' = [cache EXCEPT ![p] = sysfs]
    /\ lost' = [lost EXCEPT ![p] = {}]
    /\ UNCHANGED <<sysfs, cmd, pos, ai, rc, errno, applied, passed>>

\* Mutant: the options are validated for the first name only.
NextName_ValidatesOnce(p) ==
    /\ pc[p] = "name"
    /\ IF pos[p] > Len(cmd[p].names) THEN Exit(p, 0) /\ UNCHANGED <<pos, ai>>
       ELSE IF Name(p) = BadName
       THEN pos' = [pos EXCEPT ![p] = @ + 1] /\ UNCHANGED <<pc, ai, rc>>
       ELSE IF pos[p] = 1 /\ ~Valid(cmd[p], Name(p))
       THEN Exit(p, -EINVAL) /\ UNCHANGED <<pos, ai>>
       ELSE /\ pc' = [pc EXCEPT ![p] = "set"]
            /\ ai' = [ai EXCEPT ![p] = 0]
            /\ UNCHANGED <<pos, rc>>
    /\ UNCHANGED <<sysfs, cmd, errno, cache, applied, passed, lost>>

\* Mutant: options that are not valid for one name are tried on the next.
NextName_SkipsInvalid(p) ==
    /\ pc[p] = "name"
    /\ IF pos[p] > Len(cmd[p].names) THEN Exit(p, 0) /\ UNCHANGED <<pos, ai>>
       ELSE IF Name(p) = BadName \/ ~Valid(cmd[p], Name(p))
       THEN pos' = [pos EXCEPT ![p] = @ + 1] /\ UNCHANGED <<pc, ai, rc>>
       ELSE /\ pc' = [pc EXCEPT ![p] = "set"]
            /\ ai' = [ai EXCEPT ![p] = 0]
            /\ UNCHANGED <<pos, rc>>
    /\ UNCHANGED <<sysfs, cmd, errno, cache, applied, passed, lost>>

\* The loop over the names: a name that is not found (also "all") is skipped,
\* options that are not valid for this one end the command, others are
\* written.  The command ends with 0 after the last name.
NextName(p) ==
    /\ pc[p] = "name"
    /\ \/ pos[p] > Len(cmd[p].names) /\ Exit(p, 0) /\ UNCHANGED <<pos, ai>>
       \/ /\ pos[p] <= Len(cmd[p].names)
          /\ Name(p) = BadName
          /\ pos' = [pos EXCEPT ![p] = @ + 1]
          /\ UNCHANGED <<pc, ai, rc>>
       \/ /\ pos[p] <= Len(cmd[p].names)
          /\ Name(p) # BadName
          /\ IF Valid(cmd[p], Name(p))
               THEN /\ pc' = [pc EXCEPT ![p] = "set"]
                    /\ ai' = [ai EXCEPT ![p] = 0]
                    /\ UNCHANGED rc
               ELSE Exit(p, -EINVAL) /\ UNCHANGED ai
          /\ UNCHANGED pos
    /\ UNCHANGED <<sysfs, cmd, errno, cache, applied, passed, lost>>

\* All options of this name are written.
NameDone(p) ==
    /\ pc[p] = "set" /\ Todo(p) = {}
    /\ pc' = [pc EXCEPT ![p] = "name"]
    /\ pos' = [pos EXCEPT ![p] = @ + 1]
    /\ UNCHANGED <<sysfs, cmd, ai, rc, errno, cache, applied, passed, lost>>

AtSetter(p) == pc[p] = "set" /\ Todo(p) # {}

GoOn(p) == ai' = [ai EXCEPT ![p] = Next1(p)] /\ UNCHANGED <<pc, rc>>

\* The setters of these attributes do not write on a device that is not
\* configurable.
Locked(p) ==
    /\ ~Limit[DevOf[Name(p)]].configurable
    /\ cmd[p].kind = "wq"
    /\ Attr(p) \in {"mode", "threshold", "max_transfer_size"}

UnknownDriver(p) == Attr(p) = "driver_name" /\ Param(cmd[p], Attr(p)) \notin KnownDriver

\* "device is not configurable": the setter returns -errno, which nothing has
\* set; with errno 0 the caller takes it for success.
SetLocked(p) ==
    /\ AtSetter(p) /\ Locked(p)
    /\ IF errno[p] = 0
         THEN GoOn(p) /\ passed' = [passed EXCEPT ![p] = @ \cup {Here(p)}]
         ELSE Exit(p, -errno[p]) /\ UNCHANGED <<ai, passed>>
    /\ UNCHANGED <<sysfs, cmd, pos, errno, cache, applied, lost>>

\* accfg_wq_driver_name_validate()
SetUnknownDriver(p) ==
    /\ AtSetter(p) /\ UnknownDriver(p)
    /\ Exit(p, -ENOENT)
    /\ UNCHANGED <<sysfs, cmd, pos, ai, errno, cache, applied, passed, lost>>

Writes(p) == AtSetter(p) /\ ~Locked(p) /\ ~UnknownDriver(p)

\* The kernel does not have the attribute.  Two setters pass over that.
SetMissing(p) ==
    /\ Writes(p) /\ Here(p) \in Missing
    /\ errno' = [errno EXCEPT ![p] = ENOENT]
    /\ IF Attr(p) \in {"event_log_size", "driver_name"}
         THEN GoOn(p) /\ passed' = [passed EXCEPT ![p] = @ \cup {Here(p)}]
         ELSE /\ Exit(p, IF Attr(p) = "op_config" THEN -EIO ELSE -ENOENT)
              /\ UNCHANGED <<ai, passed>>
    /\ UNCHANGED <<sysfs, cmd, pos, cache, applied, lost>>

\* EXTERNAL: what an attribute is after the driver has taken v.  It rounds two of
\* them up to the next power of two.
Kept(a, v) == IF a \in Rounded THEN {k \in Pow2 : v <= k /\ k < 2 * v} ELSE {v}

\* The value is in sysfs now, as the driver keeps it.
Store(p) ==
    /\ \E k \in Kept(Attr(p), Written(Attr(p), Param(cmd[p], Attr(p)))) :
         sysfs' = [sysfs EXCEPT ![Here(p)] = k]
    /\ applied' = [applied EXCEPT ![p] = @ \cup {Here(p)}]
    /\ lost' = [q \in Process |-> IF q = p THEN lost[q] \ {Here(p)}
                                           ELSE lost[q] \cup {Here(p)}]

\* The write succeeds and the setter keeps the value, as it was written;
\* op_config is not kept.
SetAccepted(p) ==
    /\ Writes(p) /\ Here(p) \notin Missing
    /\ Store(p)
    /\ GoOn(p)
    /\ cache' = IF Attr(p) = "op_config" THEN cache
                ELSE [cache EXCEPT ![p][Here(p)] =
                        Written(Attr(p), Param(cmd[p], Attr(p)))]
    /\ UNCHANGED <<cmd, pos, errno, passed>>

\* The write succeeds, strdup() for the copy does not; the old copy is gone,
\* except for the type, which is parsed from the duplicate.
SetNoMemory(p) ==
    /\ Writes(p) /\ Here(p) \notin Missing
    /\ Attr(p) \in StrAttr \ {"op_config"}
    /\ Store(p)
    /\ Exit(p, -ENOMEM)
    /\ cache' = IF Attr(p) = "type" THEN cache
                ELSE [cache EXCEPT ![p][Here(p)] = "NULL"]
    /\ UNCHANGED <<cmd, pos, ai, errno, passed>>

\* Mutant: the result of the write is not tested.
SetRefused_GoesOn(p) ==
    /\ Writes(p) /\ Here(p) \notin Missing
    /\ errno' = [errno EXCEPT ![p] = EIO]
    /\ GoOn(p)
    /\ UNCHANGED <<sysfs, cmd, pos, cache, applied, passed, lost>>

\* Mutant: the copy is changed before the write.
SetRefused_CacheFirst(p) ==
    /\ Writes(p) /\ Here(p) \notin Missing
    /\ errno' = [errno EXCEPT ![p] = EIO]
    /\ Exit(p, -EIO)
    /\ cache' = [cache EXCEPT ![p][Here(p)] = Written(Attr(p), Param(cmd[p], Attr(p)))]
    /\ UNCHANGED <<sysfs, cmd, pos, ai, applied, passed, lost>>

\* The driver refuses the value: the command ends.
SetRefused(p) ==
    /\ Writes(p) /\ Here(p) \notin Missing
    /\ errno' = [errno EXCEPT ![p] = EIO]
    /\ Exit(p, -EIO)
    /\ UNCHANGED <<sysfs, cmd, pos, ai, cache, applied, passed, lost>>

Step(p) ==
    \/ Start(p) \/ NextName(p) \/ NameDone(p)
    \/ SetLocked(p) \/ SetUnknownDriver(p) \/ SetMissing(p)
    \/ SetAccepted(p) \/ SetNoMemory(p) \/ SetRefused(p)

Next == \E p \in Process : Step(p)

Spec == Init /\ [][Next]_vars

-----------------------------------------------------------------------------
Names(p) == {cmd[p].names[i] : i \in DOMAIN cmd[p].names} \ {BadName}
Asked(p) == {<<x, a>> : x \in Names(p), a \in {b \in AttrsOf(cmd[p].kind) : Given(cmd[p], b)}}

\* A command that exits with 0 has configured what it was told to: every
\* attribute asked for has the value, or for the two that the driver rounds the
\* next power of two, unless another process wrote it later,
\* the kernel lacks it, or the device is not configurable (config_attr.c: each
\* "if (rc < 0) return rc").
SettingStands ==
    \A p \in Process : pc[p] = "done" /\ rc[p] = 0 =>
        \A t \in Asked(p) :
            \/ sysfs[t] \in Kept(t[2], Written(t[2], Param(cmd[p], t[2])))
            \/ t \in lost[p]
            \/ t \in passed[p] \cap (Missing \cup
                   {u \in Target : ~Limit[DevOf[u[1]]].configurable})

\* Where e first stands in s.
Place(s, e) ==
    CHOOSE i \in DOMAIN s : s[i] = e /\ \A j \in DOMAIN s : s[j] = e => i <= j

Precedes(p, t, u) ==
    \/ Place(cmd[p].names, t[1]) < Place(cmd[p].names, u[1])
    \/ t[1] = u[1] /\ Place(Order(p), t[2]) < Place(Order(p), u[2])

\* Whenever a command stops, what it wrote is a prefix of what it was asked
\* for: no attribute is written after one that was not (the early returns of
\* accel_config_parse_*_attribs() and of the loops over the names).
AppliedPrefix ==
    \A p \in Process :
        LET handled == applied[p] \cup passed[p] IN
        \A t, u \in Asked(p) : Precedes(p, t, u) /\ u \in handled => t \in handled

\* The values of each attribute that the messages of config_attr.c call valid on
\* a device with these limits; the other attributes are not validated.
ValidRange(a, lim) ==
    CASE a = "event_log_size" -> DEV_EVL_SIZE_MIN..DEV_EVL_SIZE_MAX
      [] a \in {"read_buffers_reserved", "read_buffers_allowed"} -> 0..254
      [] a \in {"desc_progress_limit", "batch_progress_limit"} -> 0..3
      [] a \in {"traffic_class_a", "traffic_class_b"} ->
           IF lim.version < 2 THEN {} ELSE 0..7
      [] a = "mode" -> {"shared", "dedicated"}
      [] a = "size" -> 0..lim.max_wq_size
      [] a = "group_id" -> -1..(lim.max_groups - 1)
      [] a \in Switch -> 0..1
      [] a = "max_batch_size" -> 1..lim.max_batch_size
      [] a = "max_transfer_size" -> 1..lim.max_transfer_size
      [] OTHER -> ValueOf(a)

\* Attributes whose lower bound the code does not check, whatever it says.
NoLowerBound == {"group_id", "block_on_fault", "prs_disable", "ats_disable"}

\* What the commands have written, whichever of them came last, is a valid value
\* for the device of its object, also after truncation, printing with "%d" and
\* rounding by the driver, and also if other names of the same command belong to
\* a device with other limits (accel_config_parse_*_attribs() validates anew for
\* each name).  Negative group ids and switches are let through.
WithinLimits ==
    \A p \in Process : \A t \in applied[p] :
        \/ sysfs[t] \in ValidRange(t[2], Limit[DevOf[t[1]]])
        \/ t[2] \in NoLowerBound /\ sysfs[t] < 0

\* The library's copy of an attribute is what sysfs holds, or, if the process
\* wrote it and the driver rounded it, the value that was rounded; unless another
\* process wrote it since, op_config is concerned, which is read anew each time,
\* or memory ran out.  A write that failed leaves the copy alone.
CacheCoherent ==
    \A p \in Process : pc[p] # "start" /\ rc[p] # -ENOMEM =>
        \A t \in Target :
            \/ cache[p][t] = sysfs[t]
            \/ t \in applied[p] /\ sysfs[t] \in Kept(t[2], cache[p][t])
            \/ t \in lost[p]
            \/ t[2] = "op_config"

-----------------------------------------------------------------------------
(* The inductive invariant behind these properties. *)

\* Where a command is: it writes to objects it was validated for only, and it
\* ends with 0 only after the last name.
Control ==
    \A p \in Process :
        /\ pc[p] # "done" => rc[p] = 0
        /\ pc[p] = "start" => applied[p] = {} /\ passed[p] = {}
        /\ pc[p] = "set" => /\ pos[p] \in DOMAIN cmd[p].names
                           /\ Name(p) # BadName
                           /\ Valid(cmd[p], Name(p))
        /\ pc[p] = "done" /\ rc[p] = 0 => pos[p] > Len(cmd[p].names)

AppliedStands ==
    \A p \in Process : \A t \in applied[p] :
        sysfs[t] \in Kept(t[2], Written(t[2], Param(cmd[p], t[2]))) \/ t \in lost[p]

PassedOver ==
    \A p \in Process :
        passed[p] \subseteq Missing \cup {u \in Target : ~Limit[DevOf[u[1]]].configurable}

\* The loops have been over the m-th attribute of the k-th name.
Behind(p, k, m) == k < pos[p] \/ (pc[p] = "set" /\ k = pos[p] /\ m <= ai[p])

\* Whatever is behind was written or passed over.
HandledSoFar ==
    \A p \in Process : \A k \in DOMAIN cmd[p].names, m \in DOMAIN Order(p) :
        /\ Behind(p, k, m)
        /\ cmd[p].names[k] # BadName
        /\ Given(cmd[p], Order(p)[m])
        => <<cmd[p].names[k], Order(p)[m]>> \in applied[p] \cup passed[p]

IInv ==
    /\ TypeOK
    /\ Control
    /\ WithinLimits
    /\ AppliedStands
    /\ PassedOver
    /\ HandledSoFar
    /\ AppliedPrefix
    /\ CacheCoherent
=============================================================================
