-------------------------- MODULE ConfigAttr_proof --------------------------
(***************************************************************************)
(* Proofs about ConfigAttr, for any set of processes, devices, groups, wqs *)
(* and engines, any limits, command lines and widths of the C types.       *)
(***************************************************************************)
EXTENDS ConfigAttr, WellFoundedInduction, TLAPS

(* Facts about the operators *)

\* A set of natural numbers has a least element.
LEMMA LeastNat ==
    ASSUME NEW T \in SUBSET Nat, T # {}
    PROVE  \E k \in T : \A j \in T : k <= j
<1>1. PICK k \in T : \A j \in T : <<j, k>> \notin OpToRel(<, Nat)
    BY NatLessThanWellFounded, WFMin, Zenon
<1>2. \A j \in T : ~(j < k)
    BY <1>1, Zenon DEF OpToRel
<1> QED
    BY <1>2

\* The first place of an element of a sequence is one of its places, and none
\* is before it.
LEMMA PlaceIsFirst ==
    ASSUME NEW s, NEW l \in Nat, DOMAIN s = 1..l, NEW k \in 1..l
    PROVE  /\ Place(s, s[k]) \in 1..l
           /\ s[Place(s, s[k])] = s[k]
           /\ Place(s, s[k]) <= k
<1> DEFINE T == {j \in 1..l : s[j] = s[k]}
<1>1. T \in SUBSET Nat /\ k \in T
    OBVIOUS
<1>2. PICK m \in T : \A j \in T : m <= j
    BY <1>1, LeastNat
<1>3. m \in DOMAIN s /\ s[m] = s[k] /\ \A j \in DOMAIN s : s[j] = s[k] => m <= j
    BY <1>2
<1> QED
    BY <1>3 DEF Place

\* The attributes of each kind.
LEMMA Attributes ==
    /\ Kind = {"device", "group", "wq", "engine"}
    /\ AttrsOf("device") = {"read_buffer_limit", "event_log_size"}
    /\ AttrsOf("group") = {"use_read_buffer_limit", "read_buffers_reserved",
         "read_buffers_allowed", "traffic_class_a", "traffic_class_b",
         "desc_progress_limit", "batch_progress_limit"}
    /\ AttrsOf("wq") = {"mode", "type", "name", "driver_name", "op_config", "size",
         "group_id", "priority", "block_on_fault", "prs_disable", "threshold",
         "max_batch_size", "max_transfer_size", "ats_disable"}
    /\ AttrsOf("engine") = {"group_id"}
<1>1. Kind = {"device", "group", "wq", "engine"}
    BY DEF Kind, SetterOrder
<1>2. AttrsOf("device") = {"read_buffer_limit", "event_log_size"}
    BY DEF AttrsOf, SetterOrder
<1>3. AttrsOf("engine") = {"group_id"}
    BY DEF AttrsOf, SetterOrder
<1>4. AttrsOf("group") = {"use_read_buffer_limit", "read_buffers_reserved",
         "read_buffers_allowed", "traffic_class_a", "traffic_class_b",
         "desc_progress_limit", "batch_progress_limit"}
    BY DEF AttrsOf, SetterOrder
<1>5. AttrsOf("wq") = {"mode", "type", "name", "driver_name", "op_config", "size",
         "group_id", "priority", "block_on_fault", "prs_disable", "threshold",
         "max_batch_size", "max_transfer_size", "ats_disable"}
    BY DEF AttrsOf, SetterOrder
<1> QED
    BY <1>1, <1>2, <1>3, <1>4, <1>5

\* The order of the setters is a sequence.
LEMMA OrderType ==
    ASSUME NEW kind \in Kind
    PROVE  /\ Len(SetterOrder[kind]) \in Nat
           /\ DOMAIN SetterOrder[kind] = 1..Len(SetterOrder[kind])
<1>1. CASE kind = "device"
    BY <1>1 DEF SetterOrder
<1>2. CASE kind = "group"
    BY <1>2 DEF SetterOrder
<1>3. CASE kind = "wq"
    BY <1>3 DEF SetterOrder
<1>4. CASE kind = "engine"
    BY <1>4 DEF SetterOrder
<1> QED
    BY <1>1, <1>2, <1>3, <1>4, Attributes

\* What the C types can hold.
LEMMA Widths ==
    ASSUME NEW x \in Int
    PROVE  /\ AsInt(x) \in (-IntMax - 1)..IntMax
           /\ AsUInt(x) \in 0..UIntMax
           /\ AsU64(x) \in 0..ULongMax
<1>1. UIntMax \in Nat /\ ULongMax \in Nat /\ IntMax \in Nat
      /\ UIntMax + 1 > 0 /\ ULongMax + 1 > 0
    BY ConfigAssumption DEF UIntMax, ULongMax
<1>2. \A y, z \in Int : z > 0 => y % z \in 0..(z - 1)
    OBVIOUS
<1>3. AsUInt(x) \in 0..UIntMax /\ AsU64(x) \in 0..ULongMax
    BY <1>1, <1>2 DEF AsUInt, AsU64
<1>4. x + IntMax + 1 \in Int
    BY <1>1
<1>5. (x + IntMax + 1) % (UIntMax + 1) \in 0..UIntMax
    BY <1>1, <1>2, <1>4
<1>6. AsInt(x) \in (-IntMax - 1)..IntMax
    BY <1>1, <1>5 DEF AsInt, UIntMax
<1> QED
    BY <1>3, <1>6

\* A command line has a kind, names of objects of that kind, and values.
LEMMA CommandType ==
    ASSUME NEW c \in Command
    PROVE  /\ c.kind \in Kind
           /\ Len(c.names) \in Nat /\ DOMAIN c.names = 1..Len(c.names)
           /\ \A k \in DOMAIN c.names :
                c.names[k] = BadName \/ (c.names[k] \in Object /\ KindOf(c.names[k]) = c.kind)
           /\ \A a \in AttrsOf(c.kind) : Param(c, a) \in ValueOf(a)
<1>1. /\ c.kind \in Kind
      /\ c.names \in Seq(NamesOf(c.kind))
      /\ \A a \in DOMAIN c.opt : c.opt[a] \in ValueOf(a)
    BY CommandAssumption
<1>2. ASSUME NEW a \in AttrsOf(c.kind) PROVE Param(c, a) \in ValueOf(a)
  <2>1. CASE a \in DOMAIN c.opt
    <3>1. CASE a \in StrAttr
      BY <1>1, <2>1, <3>1 DEF Param, Stored, ValueOf
    <3>2. CASE a \notin StrAttr
      <4>1. c.opt[a] \in Int
        BY <1>1, <2>1, <3>2 DEF ValueOf
      <4>2. /\ AsInt(c.opt[a]) \in Int /\ AsUInt(c.opt[a]) \in Int
            /\ AsU64(c.opt[a]) \in Int
        BY <4>1, Widths
      <4> QED
        BY <2>1, <3>2, <4>2 DEF Param, Stored, ValueOf
    <3> QED
      BY <3>1, <3>2
  <2>2. CASE a \notin DOMAIN c.opt
    <3>1. c.kind = "engine" => a \notin StrAttr
      BY Attributes DEF StrAttr
    <3>2. IntMax \in Int /\ UIntMax \in Int
      BY ConfigAssumption DEF UIntMax
    <3>3. CASE a \in StrAttr
      <4>1. Param(c, a) = "NULL" /\ ValueOf(a) = Text
        BY <2>2, <3>1, <3>3 DEF Param, NotGiven, ValueOf
      <4> QED
        BY <4>1 DEF Text
    <3>4. CASE a \notin StrAttr
      <4>1. ValueOf(a) = Int /\ Param(c, a) \in {0, IntMax, UIntMax}
        BY <2>2, <3>4 DEF Param, NotGiven, ValueOf
      <4> QED
        BY <3>2, <4>1
    <3> QED
      BY <3>3, <3>4
  <2> QED
    BY <2>1, <2>2
<1>3. \A k \in DOMAIN c.names :
        c.names[k] = BadName \/ (c.names[k] \in Object /\ KindOf(c.names[k]) = c.kind)
  <2>1. \A k \in DOMAIN c.names : c.names[k] \in NamesOf(c.kind)
    BY <1>1
  <2> QED
    BY <2>1, Zenon DEF NamesOf
<1> QED
    BY <1>1, <1>2, <1>3

\* The object and the attribute at which a setter is called.
LEMMA SetterAt ==
    ASSUME TypeOK, Control, NEW p \in Process, AtSetter(p)
    PROVE  /\ cmd[p] \in Command
           /\ Name(p) \in Object /\ Name(p) # BadName /\ Valid(cmd[p], Name(p))
           /\ pos[p] \in DOMAIN cmd[p].names
           /\ Next1(p) \in DOMAIN Order(p) /\ Next1(p) > ai[p] /\ Next1(p) \in Nat
           /\ Given(cmd[p], Attr(p))
           /\ \A k \in Todo(p) : Next1(p) <= k
           /\ Attr(p) \in AttrsOf(cmd[p].kind)
           /\ Here(p) \in Target /\ Here(p)[1] = Name(p) /\ Here(p)[2] = Attr(p)
           /\ Param(cmd[p], Attr(p)) \in ValueOf(Attr(p))
           /\ Written(Attr(p), Param(cmd[p], Attr(p))) \in ValueOf(Attr(p))
<1>1. cmd[p] \in Command /\ ai[p] \in Nat
    BY DEF TypeOK
<1>2. /\ pos[p] \in DOMAIN cmd[p].names /\ Name(p) # BadName
      /\ Valid(cmd[p], Name(p))
    BY DEF Control, AtSetter
<1>3. Name(p) \in Object /\ KindOf(Name(p)) = cmd[p].kind
    BY <1>1, <1>2, CommandType DEF Name
<1>4. Len(Order(p)) \in Nat /\ DOMAIN Order(p) = 1..Len(Order(p))
    BY <1>1, CommandType, OrderType DEF Order
<1>5. Todo(p) \in SUBSET Nat /\ Todo(p) # {}
    BY <1>1, <1>4 DEF Todo, AtSetter
<1>6. Next1(p) \in Todo(p) /\ \A k \in Todo(p) : Next1(p) <= k
    BY <1>5, LeastNat DEF Next1
<1>7. /\ Next1(p) \in DOMAIN Order(p) /\ Next1(p) > ai[p] /\ Next1(p) \in Nat
      /\ Given(cmd[p], Order(p)[Next1(p)])
    BY <1>1, <1>4, <1>6 DEF Todo
<1>8. Attr(p) \in AttrsOf(cmd[p].kind)
    BY <1>7 DEF Attr, AttrsOf, Order
<1>9. Here(p) \in Target
    BY <1>3, <1>8 DEF Here, Target
<1>10. Param(cmd[p], Attr(p)) \in ValueOf(Attr(p))
    BY <1>1, <1>8, CommandType
<1>11. Written(Attr(p), Param(cmd[p], Attr(p))) \in ValueOf(Attr(p))
  <2>1. CASE Attr(p) \in UIntAttr
    <3>1. Attr(p) \notin StrAttr
      BY <2>1 DEF UIntAttr, StrAttr
    <3>2. Param(cmd[p], Attr(p)) \in Int
      BY <1>10, <3>1 DEF ValueOf
    <3> QED
      BY <2>1, <3>1, <3>2, Widths DEF Written, ValueOf
  <2>2. CASE Attr(p) \notin UIntAttr
    BY <1>10, <2>2 DEF Written
  <2> QED
    BY <2>1, <2>2
<1> QED
    BY <1>1, <1>2, <1>3, <1>6, <1>7, <1>8, <1>9, <1>10, <1>11 DEF Attr, Here

\* What the driver keeps of a value is a value of the attribute.
LEMMA KeptType ==
    ASSUME NEW a, NEW v \in ValueOf(a), NEW k \in Kept(a, v)
    PROVE  k \in ValueOf(a)
<1>1. CASE a \in Rounded
  <2>1. a \notin StrAttr
    BY <1>1 DEF Rounded, StrAttr
  <2>2. k \in Pow2
    BY <1>1 DEF Kept
  <2> QED
    BY <2>1, <2>2, PowerAssumption DEF ValueOf
<1>2. CASE a \notin Rounded
    BY <1>2 DEF Kept
<1> QED
    BY <1>1, <1>2

\* A value that is stored is one the driver makes of what was written.
LEMMA StoreIs ==
    ASSUME TypeOK, Control, NEW p \in Process, AtSetter(p), Store(p)
    PROVE  /\ sysfs'[Here(p)] \in Kept(Attr(p), Written(Attr(p), Param(cmd[p], Attr(p))))
           /\ sysfs'[Here(p)] \in ValueOf(Attr(p))
           /\ DOMAIN sysfs' = Target
           /\ \A t \in Target : t # Here(p) => sysfs'[t] = sysfs[t]
<1>1. PICK k \in Kept(Attr(p), Written(Attr(p), Param(cmd[p], Attr(p)))) :
        sysfs' = [sysfs EXCEPT ![Here(p)] = k]
    BY DEF Store
<1>2. Here(p) \in DOMAIN sysfs /\ DOMAIN sysfs = Target
    BY SetterAt DEF TypeOK
<1>3. k \in ValueOf(Attr(p))
    BY SetterAt, KeptType
<1> QED
    BY <1>1, <1>2, <1>3

\* An unsigned parameter is not negative.
LEMMA Unsigned ==
    ASSUME NEW c \in Command, NEW a \in AttrsOf(c.kind), a \in UIntAttr
    PROVE  Param(c, a) \in 0..UIntMax
<1>1. a \notin StrAttr
    BY DEF StrAttr, UIntAttr
<1>2. CASE a \in DOMAIN c.opt
  <2>1. c.opt[a] \in Int
    BY <1>1, <1>2, CommandAssumption DEF ValueOf
  <2>2. Param(c, a) = AsUInt(c.opt[a])
    BY <1>1, <1>2 DEF Param, Stored
  <2> QED
    BY <2>1, <2>2, Widths
<1>3. CASE a \notin DOMAIN c.opt
  <2>1. Param(c, a) \in {0, IntMax, UIntMax}
    BY <1>1, <1>3 DEF Param, NotGiven
  <2> QED
    BY <2>1, ConfigAssumption DEF UIntMax
<1> QED
    BY <1>2, <1>3

\* A number that is no larger than INT_MAX is printed as it is.
LEMMA PrintedAsIs ==
    ASSUME NEW a, NEW v \in 0..IntMax
    PROVE  Written(a, v) = v
<1>1. IntMax \in Nat
    BY ConfigAssumption
<1>2. \A y, z \in Nat : y < z => y % z = y
    OBVIOUS
<1>3. v + IntMax + 1 \in Nat /\ UIntMax + 1 \in Nat /\ v + IntMax + 1 < UIntMax + 1
    BY <1>1 DEF UIntMax
<1>4. (v + IntMax + 1) % (UIntMax + 1) = v + IntMax + 1
    BY <1>2, <1>3
<1>5. AsInt(v) = v
    BY <1>1, <1>4 DEF AsInt
<1> QED
    BY <1>5 DEF Written

\* Rounding up to a power of two stays below a limit that is one.
LEMMA RoundedWithin ==
    ASSUME NEW m \in {0} \cup Pow2, NEW v \in 1..m, NEW k \in Pow2, v <= k, k < 2 * v
    PROVE  k \in 1..m
<1>1. m \in Nat /\ v \in Nat /\ k \in Nat \ {0} /\ v <= m
    BY PowerAssumption
<1>2. m \in Pow2
    BY <1>1
<1>3. m < k => 2 * m <= k
    BY <1>2, PowerAssumption
<1> QED
    BY <1>1, <1>3

\* A value that WithinLimits lets stand
Allowed(a, lim, v) == v \in ValidRange(a, lim) \/ (a \in NoLowerBound /\ v < 0)

\* What passed the validation for an object is valid for its device when the
\* driver has it.
LEMMA StoredIsAllowed ==
    ASSUME NEW c \in Command, NEW x \in Object, Valid(c, x),
           NEW a \in AttrsOf(c.kind), Given(c, a),
           NEW k \in Kept(a, Written(a, Param(c, a)))
    PROVE  Allowed(a, Limit[DevOf[x]], k)
<1> DEFINE lim == Limit[DevOf[x]]
           v == Param(c, a)
<1> SUFFICES Allowed(a, lim, k)
    OBVIOUS
<1>1. /\ lim.max_wq_size \in 0..IntMax /\ lim.max_groups \in Nat /\ lim.version \in Nat
      /\ lim.max_batch_size \in {0} \cup Pow2 /\ lim.max_batch_size <= IntMax
      /\ lim.max_transfer_size \in {0} \cup Pow2
      /\ IntMax \in Nat /\ IntMax > 65535
    BY ConfigAssumption DEF DEV_EVL_SIZE_MAX
<1>2. v \in ValueOf(a)
    BY CommandType
<1>3. a \in UIntAttr => v \in 0..UIntMax /\ v \in Nat
    BY <1>1, Unsigned DEF UIntMax
<1> HIDE DEF lim, v
<1>4. a \notin Rounded => k = Written(a, v)
    BY DEF Kept, v
<1>5. a \notin UIntAttr => Written(a, v) = v
    BY DEF Written
<1>6. v \in 0..IntMax => Written(a, v) = v
    BY PrintedAsIs
<1>7. Allowed(a, lim, k) <=> k \in ValidRange(a, lim) \/ (a \in NoLowerBound /\ k < 0)
    BY DEF Allowed
<1>8. lim.max_batch_size \in Nat /\ lim.max_transfer_size \in Nat
  <2>1. {0} \cup Pow2 \subseteq Nat
    BY PowerAssumption
  <2> QED
    BY <1>1, <2>1
<1>9. CASE c.kind = "device"
  <2>1. ValidDevice(c) /\ a \in {"read_buffer_limit", "event_log_size"}
    BY <1>9, Attributes DEF Valid
  <2>2. CASE a = "read_buffer_limit"
    <3>1. v \in Int /\ k = AsInt(v)
      BY <1>2, <1>4, <2>2 DEF ValueOf, StrAttr, Rounded, Written, UIntAttr
    <3>2. ValidRange(a, lim) = Int
      BY <2>2 DEF ValidRange, Switch, ValueOf, StrAttr
    <3> QED
      BY <1>7, <3>2, <3>1, Widths
  <2>3. CASE a = "event_log_size"
    <3>1. v \in DEV_EVL_SIZE_MIN..DEV_EVL_SIZE_MAX
      BY <2>1, <2>3 DEF ValidDevice, v
    <3>2. k = v
      BY <1>4, <1>5, <2>3 DEF Rounded, UIntAttr
    <3>3. ValidRange(a, lim) = DEV_EVL_SIZE_MIN..DEV_EVL_SIZE_MAX
      BY <2>3 DEF ValidRange, Switch
    <3> QED
      BY <1>7, <3>1, <3>2, <3>3
  <2> QED
    BY <2>1, <2>2, <2>3
<1>10. CASE c.kind = "group"
  <2>1. ValidGroup(c, lim)
    BY <1>10 DEF Valid, lim
  <2>2. a \in {"use_read_buffer_limit", "read_buffers_reserved",
         "read_buffers_allowed", "traffic_class_a", "traffic_class_b",
         "desc_progress_limit", "batch_progress_limit"}
    BY <1>10, Attributes
  <2>3. CASE a = "use_read_buffer_limit"
    <3>1. v \in 0..1
      BY <1>3, <2>1, <2>3 DEF ValidGroup, UIntAttr, v
    <3>2. k = v
      BY <1>1, <1>4, <1>6, <2>3, <3>1 DEF Rounded
    <3>3. ValidRange(a, lim) = 0..1
      BY <2>3 DEF ValidRange, Switch
    <3> QED
      BY <1>7, <3>1, <3>2, <3>3
  <2>4. CASE a \in {"read_buffers_reserved", "read_buffers_allowed"}
    <3>1. v < 255
      BY <2>1, <2>4 DEF ValidGroup, v
    <3>2. v \in 0..254
      BY <1>3, <2>4, <3>1 DEF UIntAttr
    <3>3. k = v
      BY <1>1, <1>4, <1>6, <2>4, <3>2 DEF Rounded
    <3>4. ValidRange(a, lim) = 0..254
      BY <2>4 DEF ValidRange, Switch
    <3> QED
      BY <1>7, <3>2, <3>3, <3>4
  <2>5. CASE a \in {"desc_progress_limit", "batch_progress_limit"}
    <3>1. v \in 0..3
      BY <2>1, <2>5 DEF ValidGroup, v
    <3>2. k = v
      BY <1>4, <1>5, <2>5 DEF Rounded, UIntAttr
    <3>3. ValidRange(a, lim) = 0..3
      BY <2>5 DEF ValidRange, Switch
    <3> QED
      BY <1>7, <3>1, <3>2, <3>3
  <2>6. CASE a \in {"traffic_class_a", "traffic_class_b"}
    <3>1. v \in 0..7 /\ ~(lim.version < 2)
      BY <2>1, <2>6 DEF ValidGroup, v
    <3>2. k = v
      BY <1>4, <1>5, <2>6 DEF Rounded, UIntAttr
    <3>3. ValidRange(a, lim) = 0..7
      BY <2>6, <3>1 DEF ValidRange, Switch
    <3> QED
      BY <1>7, <3>1, <3>2, <3>3
  <2> QED
    BY <2>2, <2>3, <2>4, <2>5, <2>6
<1>11. CASE c.kind = "wq"
  <2>1. ValidWq(c, lim)
    BY <1>11 DEF Valid, lim
  <2>2. a \in {"mode", "type", "name", "driver_name", "op_config", "size",
         "group_id", "priority", "block_on_fault", "prs_disable", "threshold",
         "max_batch_size", "max_transfer_size", "ats_disable"}
    BY <1>11, Attributes
  <2>3. CASE a = "mode"
    <3>1. v \in {"shared", "dedicated"}
      BY <2>1, <2>3 DEF ValidWq, Given, NotGiven, StrAttr, v
    <3>2. k = v
      BY <1>4, <1>5, <2>3 DEF Rounded, UIntAttr
    <3>3. ValidRange(a, lim) = {"shared", "dedicated"}
      BY <2>3 DEF ValidRange, Switch
    <3> QED
      BY <1>7, <3>1, <3>2, <3>3
  <2>4. CASE a \in {"type", "name", "driver_name", "op_config"}
    <3>1. v \in Text
      BY <1>2, <2>4 DEF ValueOf, StrAttr
    <3>2. k = v
      BY <1>4, <1>5, <2>4 DEF Rounded, UIntAttr
    <3>3. ValidRange(a, lim) = Text
      BY <2>4 DEF ValidRange, Switch, ValueOf, StrAttr
    <3> QED
      BY <1>7, <3>1, <3>2, <3>3
  <2>5. CASE a = "size"
    <3>1. v <= lim.max_wq_size /\ v \in Nat
      BY <1>3, <2>1, <2>5 DEF ValidWq, UIntAttr, v
    <3>2. v \in 0..lim.max_wq_size /\ v \in 0..IntMax
      BY <1>1, <3>1
    <3>3. k = v
      BY <1>4, <1>6, <2>5, <3>2 DEF Rounded
    <3>4. ValidRange(a, lim) = 0..lim.max_wq_size
      BY <2>5 DEF ValidRange, Switch
    <3> QED
      BY <1>7, <3>2, <3>3, <3>4
  <2>6. CASE a = "group_id"
    <3>1. v < lim.max_groups
      BY <2>1, <2>6 DEF ValidWq, v
    <3>2. k = v /\ v \in Int
      BY <1>2, <1>4, <1>5, <2>6 DEF Rounded, UIntAttr, ValueOf, StrAttr
    <3>3. k < 0 \/ k \in -1..(lim.max_groups - 1)
      BY <1>1, <3>1, <3>2
    <3>4. ValidRange(a, lim) = -1..(lim.max_groups - 1)
      BY <2>6 DEF ValidRange, Switch
    <3> QED
      BY <1>7, <2>6, <3>3, <3>4 DEF NoLowerBound
  <2>7. CASE a \in {"block_on_fault", "prs_disable", "ats_disable"}
    <3>1. v <= 1
      BY <2>1, <2>7 DEF ValidWq, v
    <3>2. k = v /\ v \in Int
      BY <1>2, <1>4, <1>5, <2>7 DEF Rounded, UIntAttr, ValueOf, StrAttr
    <3>3. k < 0 \/ k \in 0..1
      BY <3>1, <3>2
    <3>4. a \in NoLowerBound /\ a \in Switch
      BY <2>7 DEF NoLowerBound, Switch
    <3>5. ValidRange(a, lim) = 0..1
      BY <2>7 DEF ValidRange, Switch
    <3> QED
      BY <1>7, <3>3, <3>4, <3>5
  <2>8. CASE a \in {"priority", "threshold"}
    <3>1. v \in Int /\ k = AsInt(v)
      BY <1>2, <1>4, <2>8 DEF ValueOf, StrAttr, Rounded, Written, UIntAttr
    <3>2. ValidRange(a, lim) = Int
      BY <2>8 DEF ValidRange, Switch, ValueOf, StrAttr
    <3> QED
      BY <1>7, <3>1, Widths, <3>2
  <2>9. CASE a = "max_batch_size"
    <3>1. v \in 1..lim.max_batch_size
      BY <2>1, <2>9 DEF ValidWq, v
    <3>2. v \in 0..IntMax
      BY <1>1, <1>8, <3>1
    <3>3. k \in Pow2 /\ v <= k /\ k < 2 * v
      BY <1>6, <2>9, <3>2 DEF Kept, Rounded, v
    <3>4. k \in 1..lim.max_batch_size
      <4> DEFINE m == lim.max_batch_size
      <4>1. m \in {0} \cup Pow2 /\ v \in 1..m
        BY <1>1, <3>1
      <4> HIDE DEF m
      <4>2. k \in 1..m
        BY <3>3, <4>1, RoundedWithin
      <4> QED
        BY <4>2 DEF m
    <3>5. ValidRange(a, lim) = 1..lim.max_batch_size
      BY <2>9 DEF ValidRange, Switch
    <3> QED
      BY <1>7, <3>4, <3>5
  <2>10. CASE a = "max_transfer_size"
    <3>1. v \in 1..lim.max_transfer_size
      BY <2>1, <2>10 DEF ValidWq, v
    <3>2. Written(a, v) = v
      BY <1>5, <2>10 DEF UIntAttr
    <3>3. k \in Pow2 /\ v <= k /\ k < 2 * v
      BY <2>10, <3>2 DEF Kept, Rounded, v
    <3>4. k \in 1..lim.max_transfer_size
      <4> DEFINE m == lim.max_transfer_size
      <4>1. m \in {0} \cup Pow2 /\ v \in 1..m
        BY <1>1, <3>1
      <4> HIDE DEF m
      <4>2. k \in 1..m
        BY <3>3, <4>1, RoundedWithin
      <4> QED
        BY <4>2 DEF m
    <3>5. ValidRange(a, lim) = 1..lim.max_transfer_size
      BY <2>10 DEF ValidRange, Switch
    <3> QED
      BY <1>7, <3>4, <3>5
  <2> QED
    BY <2>2, <2>3, <2>4, <2>5, <2>6, <2>7, <2>8, <2>9, <2>10
<1>12. CASE c.kind = "engine"
  <2>1. Param(c, "group_id") < lim.max_groups /\ a = "group_id"
    BY <1>12, Attributes DEF Valid, ValidEngine, lim
  <2>2. k = v /\ v \in Int
    BY <1>2, <1>4, <1>5, <2>1 DEF Rounded, UIntAttr, ValueOf, StrAttr
  <2>3. k < 0 \/ k \in -1..(lim.max_groups - 1)
    BY <1>1, <2>1, <2>2 DEF v
  <2>4. ValidRange(a, lim) = -1..(lim.max_groups - 1)
    BY <2>1 DEF ValidRange, Switch
  <2> QED
    BY <1>7, <2>1, <2>3, <2>4 DEF NoLowerBound
<1> QED
    BY <1>9, <1>10, <1>11, <1>12, CommandType, Attributes

-----------------------------------------------------------------------------
(* The steps *)

\* The setter leaves the attribute alone, with a reason, and returns 0.
PassesOver(p) ==
    /\ passed' = [passed EXCEPT ![p] = @ \cup {Here(p)}]
    /\ Here(p) \in Missing \cup {u \in Target : ~Limit[DevOf[u[1]]].configurable}
    /\ GoOn(p)
    /\ UNCHANGED <<sysfs, applied, lost, cache, pos>>

\* A step of a command stores a value, passes over an attribute, or leaves the
\* attributes and what is recorded about them alone.
LEMMA StepKinds ==
    ASSUME TypeOK, Control, NEW p \in Process, Step(p)
    PROVE  \/ Start(p) \/ NextName(p) \/ NameDone(p)
           \/ /\ AtSetter(p)
              /\ \/ /\ \E e \in {-ENOENT, -EIO} : Exit(p, e)
                    /\ UNCHANGED <<sysfs, applied, passed, lost, cache, pos, ai>>
                 \/ PassesOver(p)
                 \/ SetAccepted(p) \/ SetNoMemory(p)
<1>1. CASE SetLocked(p)
  <2>1. AtSetter(p) /\ Locked(p)
    BY <1>1 DEF SetLocked
  <2>2. Here(p) \in {u \in Target : ~Limit[DevOf[u[1]]].configurable}
    BY <2>1, SetterAt DEF Locked
  <2>3. errno[p] # 0 => -errno[p] \in {-ENOENT, -EIO}
    BY DEF TypeOK
  <2> QED
    BY <1>1, <2>1, <2>2, <2>3 DEF SetLocked, PassesOver
<1>2. CASE SetUnknownDriver(p)
    BY <1>2 DEF SetUnknownDriver
<1>3. CASE SetMissing(p)
    BY <1>3 DEF SetMissing, Writes, PassesOver
<1>4. CASE SetRefused(p)
    BY <1>4 DEF SetRefused, Writes
<1>5. CASE SetAccepted(p) \/ SetNoMemory(p)
    BY <1>5 DEF SetAccepted, SetNoMemory, Writes
<1> QED
    BY <1>1, <1>2, <1>3, <1>4, <1>5 DEF Step

\* The attributes stay attributes, the positions positions.
LEMMA TypeStep ==
    ASSUME TypeOK, Control, NEW p \in Process, Step(p)
    PROVE  TypeOK'
<1>1. cmd' \in [Process -> Command] /\ cmd' = cmd
    BY DEF TypeOK, Step, Start, NextName, NameDone, SetLocked, SetUnknownDriver,
           SetMissing, SetAccepted, SetNoMemory, SetRefused
<1>2. errno' \in [Process -> {0, ENOENT, EIO}]
    BY DEF TypeOK, Step, Start, NextName, NameDone, SetLocked, SetUnknownDriver,
           SetMissing, SetAccepted, SetNoMemory, SetRefused
<1> DEFINE Rest ==
      /\ DOMAIN sysfs = Target /\ \A t \in Target : sysfs[t] \in ValueOf(t[2])
      /\ pc \in [Process -> {"start", "name", "set", "done"}]
      /\ pos \in [Process -> Nat \ {0}]
      /\ ai \in [Process -> Nat]
      /\ rc \in [Process -> {0, -ENOENT, -EIO, -ENOMEM, -EINVAL}]
      /\ DOMAIN cache = Process
      /\ \A q \in Process : DOMAIN cache[q] = Target
                            /\ \A t \in Target : cache[q][t] \in ValueOf(t[2])
      /\ applied \in [Process -> SUBSET Target]
      /\ passed \in [Process -> SUBSET Target]
      /\ lost \in [Process -> SUBSET Target]
<1> SUFFICES Rest'
    BY <1>1, <1>2 DEF TypeOK
<1>3. CASE Start(p)
    BY <1>3 DEF TypeOK, Start
<1>4. CASE NextName(p)
  <2>1. UNCHANGED <<sysfs, cache, applied, passed, lost>>
    BY <1>4 DEF NextName
  <2>2. /\ pc' \in [Process -> {"start", "name", "set", "done"}]
        /\ rc' \in [Process -> {0, -ENOENT, -EIO, -ENOMEM, -EINVAL}]
    BY <1>4 DEF TypeOK, NextName, Exit
  <2>3. pos' \in [Process -> Nat \ {0}] /\ ai' \in [Process -> Nat]
    <3>1. pos' = pos \/ pos' = [pos EXCEPT ![p] = @ + 1]
      BY <1>4, Zenon DEF NextName
    <3>2. ai' = ai \/ ai' = [ai EXCEPT ![p] = 0]
      BY <1>4, Zenon DEF NextName
    <3> QED
      BY <3>1, <3>2 DEF TypeOK
  <2> QED
    BY <2>1, <2>2, <2>3 DEF TypeOK
<1>5. CASE NameDone(p)
    BY <1>5 DEF TypeOK, NameDone
<1>6. CASE /\ AtSetter(p)
           /\ \E e \in {-ENOENT, -EIO} : Exit(p, e)
           /\ UNCHANGED <<sysfs, applied, passed, lost, cache, pos, ai>>
    BY <1>6 DEF TypeOK, Exit
<1>7. CASE AtSetter(p) /\ PassesOver(p)
    BY <1>7, SetterAt DEF TypeOK, PassesOver, GoOn
<1>8. ASSUME AtSetter(p), Store(p)
      PROVE  /\ DOMAIN sysfs' = Target
             /\ \A t \in Target : sysfs'[t] \in ValueOf(t[2])
             /\ applied' \in [Process -> SUBSET Target]
             /\ lost' \in [Process -> SUBSET Target]
  <2>1. Here(p) \in Target /\ Here(p)[2] = Attr(p)
    BY <1>8, SetterAt
  <2>2. DOMAIN sysfs' = Target /\ \A t \in Target : sysfs'[t] \in ValueOf(t[2])
    BY <1>8, <2>1, StoreIs DEF TypeOK
  <2> QED
    BY <1>8, <2>1, <2>2 DEF TypeOK, Store
<1>9. CASE AtSetter(p) /\ SetAccepted(p)
    BY <1>8, <1>9, SetterAt DEF TypeOK, SetAccepted, GoOn
<1>10. CASE AtSetter(p) /\ SetNoMemory(p)
    BY <1>8, <1>10, SetterAt DEF TypeOK, SetNoMemory, Exit, ValueOf, Text
<1> QED
    BY <1>3, <1>4, <1>5, <1>6, <1>7, <1>9, <1>10, StepKinds

\* What a step of one process does to another: it may change an attribute
\* under it, and then the attribute is counted as lost.
LEMMA Others ==
    ASSUME TypeOK, Control, NEW p \in Process, Step(p), NEW q \in Process, q # p
    PROVE  /\ pc'[q] = pc[q] /\ pos'[q] = pos[q] /\ ai'[q] = ai[q] /\ rc'[q] = rc[q]
           /\ cache'[q] = cache[q] /\ applied'[q] = applied[q] /\ passed'[q] = passed[q]
           /\ lost[q] \subseteq lost'[q]
           /\ \A t \in Target : sysfs'[t] = sysfs[t] \/ t \in lost'[q]
<1>3. CASE Start(p)
    BY <1>3 DEF TypeOK, Start
<1>4. CASE NextName(p)
    BY <1>4 DEF TypeOK, NextName, Exit
<1>5. CASE NameDone(p)
    BY <1>5 DEF TypeOK, NameDone
<1>6. CASE /\ AtSetter(p)
           /\ \E e \in {-ENOENT, -EIO} : Exit(p, e)
           /\ UNCHANGED <<sysfs, applied, passed, lost, cache, pos, ai>>
    BY <1>6 DEF TypeOK, Exit
<1>7. CASE AtSetter(p) /\ PassesOver(p)
    BY <1>7, SetterAt DEF TypeOK, PassesOver, GoOn
<1>8. ASSUME AtSetter(p), Store(p)
      PROVE  /\ applied'[q] = applied[q] /\ lost[q] \subseteq lost'[q]
             /\ \A t \in Target : sysfs'[t] = sysfs[t] \/ t \in lost'[q]
  <2>1. /\ applied'[q] = applied[q]
        /\ lost'[q] = lost[q] \cup {Here(p)}
    BY <1>8 DEF TypeOK, Store
  <2> QED
    BY <1>8, <2>1, StoreIs
<1>9. CASE AtSetter(p) /\ SetAccepted(p)
    BY <1>8, <1>9 DEF TypeOK, SetAccepted, GoOn
<1>10. CASE AtSetter(p) /\ SetNoMemory(p)
    BY <1>8, <1>10 DEF TypeOK, SetNoMemory, Exit
<1> QED
    BY <1>3, <1>4, <1>5, <1>6, <1>7, <1>9, <1>10, StepKinds

\* Where a command is.
LEMMA ControlStep ==
    ASSUME TypeOK, Control, NEW p \in Process, Step(p)
    PROVE  Control'
<1>1. cmd' = cmd
    BY DEF Step, Start, NextName, NameDone, SetLocked, SetUnknownDriver,
           SetMissing, SetAccepted, SetNoMemory, SetRefused
<1> DEFINE At(q) ==
      /\ pc[q] # "done" => rc[q] = 0
      /\ pc[q] = "start" => applied[q] = {} /\ passed[q] = {}
      /\ pc[q] = "set" => /\ pos[q] \in DOMAIN cmd[q].names
                         /\ Name(q) # BadName
                         /\ Valid(cmd[q], Name(q))
      /\ pc[q] = "done" /\ rc[q] = 0 => pos[q] > Len(cmd[q].names)
<1> SUFFICES ASSUME NEW q \in Process PROVE At(q)'
    BY DEF Control
<1>2. At(q)
    BY DEF Control
<1>3. CASE q # p
    BY <1>1, <1>2, <1>3, Others DEF Name
<1>4. CASE q = p
  <2>1. CASE Start(p)
    BY <1>1, <1>2, <1>4, <2>1 DEF TypeOK, Start
  <2>2. CASE NextName(p)
    <3>1. /\ Len(cmd[p].names) \in Nat /\ pos[p] \in Nat \ {0}
          /\ DOMAIN cmd[p].names = 1..Len(cmd[p].names)
      BY CommandType DEF TypeOK
    <3>2. CASE pos[p] > Len(cmd[p].names)
      BY <1>1, <1>2, <1>4, <2>2, <3>1, <3>2 DEF TypeOK, NextName, Exit
    <3>3. CASE pos[p] <= Len(cmd[p].names) /\ Name(p) = BadName
      BY <1>1, <1>2, <1>4, <2>2, <3>1, <3>3 DEF TypeOK, NextName
    <3>4. CASE pos[p] <= Len(cmd[p].names) /\ Name(p) # BadName
      <4>1. pos[p] \in DOMAIN cmd[p].names /\ ~(pos[p] > Len(cmd[p].names))
        BY <3>1, <3>4
      <4>2. pos' = pos /\ applied' = applied /\ passed' = passed /\ Name(p)' = Name(p)
        BY <1>1, <2>2, <3>4, <4>1 DEF NextName, Name
      <4>3. CASE Valid(cmd[p], Name(p))
        <5>1. pc'[p] = "set" /\ rc' = rc /\ pc[p] = "name"
          BY <2>2, <3>4, <4>1, <4>3 DEF TypeOK, NextName
        <5> QED
          BY <1>1, <1>2, <1>4, <3>4, <4>1, <4>2, <4>3, <5>1 DEF Name
      <4>4. CASE ~Valid(cmd[p], Name(p))
        <5>1. pc'[p] = "done" /\ rc'[p] = -22
          BY <2>2, <3>4, <4>1, <4>4 DEF TypeOK, NextName, Exit, EINVAL
        <5> QED
          BY <1>4, <5>1
      <4> QED
        BY <4>3, <4>4
    <3> QED
      BY <3>1, <3>2, <3>3, <3>4
  <2>3. CASE NameDone(p)
    BY <1>1, <1>2, <1>4, <2>3 DEF TypeOK, NameDone
  <2>4. CASE /\ AtSetter(p)
             /\ \E e \in {-ENOENT, -EIO} : Exit(p, e)
             /\ UNCHANGED <<sysfs, applied, passed, lost, cache, pos, ai>>
    BY <1>4, <2>4 DEF TypeOK, Exit, ENOENT, EIO
  <2>5. CASE AtSetter(p) /\ PassesOver(p)
    BY <1>1, <1>2, <1>4, <2>5 DEF PassesOver, GoOn, AtSetter, Name
  <2>6. CASE AtSetter(p) /\ SetAccepted(p)
    BY <1>1, <1>2, <1>4, <2>6 DEF SetAccepted, GoOn, AtSetter, Name
  <2>7. CASE AtSetter(p) /\ SetNoMemory(p)
    BY <1>4, <2>7 DEF TypeOK, SetNoMemory, Exit, ENOMEM
  <2> QED
    BY <2>1, <2>2, <2>3, <2>4, <2>5, <2>6, <2>7, StepKinds
<1> QED
    BY <1>3, <1>4

\* What a step of p adds to its own records.
LEMMA Records ==
    ASSUME TypeOK, Control, NEW p \in Process, Step(p)
    PROVE  /\ cmd' = cmd
           /\ \/ applied'[p] = applied[p] /\ passed'[p] = passed[p]
              \/ /\ AtSetter(p)
                 /\ applied'[p] \subseteq applied[p] \cup {Here(p)}
                 /\ passed'[p] \subseteq passed[p] \cup {Here(p)}
                 /\ Here(p) \in applied'[p] \cup passed'[p]
           /\ applied[p] \subseteq applied'[p] /\ passed[p] \subseteq passed'[p]
           /\ \A t \in applied'[p] : t \in applied[p] \/ (AtSetter(p) /\ t = Here(p))
<1>1. cmd' = cmd
    BY DEF Step, Start, NextName, NameDone, SetLocked, SetUnknownDriver,
           SetMissing, SetAccepted, SetNoMemory, SetRefused
<1>2. CASE Start(p) \/ NextName(p) \/ NameDone(p)
    BY <1>1, <1>2 DEF Start, NextName, NameDone
<1>3. CASE /\ AtSetter(p)
           /\ \E e \in {-ENOENT, -EIO} : Exit(p, e)
           /\ UNCHANGED <<sysfs, applied, passed, lost, cache, pos, ai>>
    BY <1>1, <1>3
<1>4. CASE AtSetter(p) /\ PassesOver(p)
    BY <1>1, <1>4 DEF TypeOK, PassesOver
<1>5. CASE AtSetter(p) /\ (SetAccepted(p) \/ SetNoMemory(p))
    BY <1>1, <1>5 DEF TypeOK, SetAccepted, SetNoMemory, Store
<1> QED
    BY <1>2, <1>3, <1>4, <1>5, StepKinds

\* Every value that is stored is within the limits.
LEMMA LimitsStep ==
    ASSUME TypeOK, Control, WithinLimits, NEW p \in Process, Step(p)
    PROVE  WithinLimits'
<1> SUFFICES ASSUME NEW q \in Process, NEW t \in applied'[q]
             PROVE  Allowed(t[2], Limit[DevOf[t[1]]], sysfs'[t])
    BY Zenon DEF WithinLimits, Allowed
<1>1. ASSUME t \in applied[q] PROVE Allowed(t[2], Limit[DevOf[t[1]]], sysfs[t])
    BY <1>1, Zenon DEF WithinLimits, Allowed
<1>2. CASE UNCHANGED <<sysfs, applied>>
    BY <1>1, <1>2
<1>3. CASE AtSetter(p) /\ Store(p)
  <2>1. CASE t = Here(p)
    <3>1. /\ cmd[p] \in Command /\ Name(p) \in Object /\ Valid(cmd[p], Name(p))
          /\ Attr(p) \in AttrsOf(cmd[p].kind) /\ Given(cmd[p], Attr(p))
          /\ Here(p)[1] = Name(p) /\ Here(p)[2] = Attr(p)
      BY <1>3, SetterAt
    <3>2. sysfs'[t] \in Kept(Attr(p), Written(Attr(p), Param(cmd[p], Attr(p))))
      BY <1>3, <2>1, StoreIs
    <3>3. Allowed(Attr(p), Limit[DevOf[Name(p)]], sysfs'[t])
      BY <3>1, <3>2, StoredIsAllowed
    <3> QED
      BY <2>1, <3>1, <3>3
  <2>2. CASE t # Here(p)
    <3>1. t \in applied[q] /\ t \in Target
      <4>1. CASE q = p
        BY <2>2, <4>1, Records DEF TypeOK
      <4>2. CASE q # p
        BY <4>2, Others DEF TypeOK
      <4> QED
        BY <4>1, <4>2
    <3>2. sysfs'[t] = sysfs[t]
      BY <1>3, <2>2, <3>1, StoreIs
    <3> QED
      BY <1>1, <3>1, <3>2
  <2> QED
    BY <2>1, <2>2
<1> QED
    BY <1>2, <1>3, StepKinds
       DEF Start, NextName, NameDone, PassesOver, SetAccepted, SetNoMemory

\* What a command has written is there, or another process wrote it since.
LEMMA StandsStep ==
    ASSUME TypeOK, Control, AppliedStands, NEW p \in Process, Step(p)
    PROVE  AppliedStands'
<1> SUFFICES ASSUME NEW q \in Process, NEW t \in applied'[q]
             PROVE  \/ sysfs'[t] \in Kept(t[2], Written(t[2], Param(cmd[q], t[2])))
                    \/ t \in lost'[q]
    BY Records DEF AppliedStands
<1>1. CASE q # p
  <2>1. t \in applied[q] /\ t \in Target
    BY <1>1, Others DEF TypeOK
  <2> QED
    BY <1>1, <2>1, Others DEF AppliedStands
<1>2. CASE q = p
  <2>1. CASE Start(p)
    BY <1>2, <2>1 DEF Start, Control
  <2>2. CASE UNCHANGED <<sysfs, applied, lost>>
    BY <2>2 DEF AppliedStands
  <2>3. CASE AtSetter(p) /\ Store(p)
    <3>1. CASE t = Here(p)
      BY <1>2, <2>3, <3>1, SetterAt, StoreIs
    <3>2. CASE t # Here(p)
      <4>1. t \in applied[p] /\ t \in Target /\ (t \in lost[p] => t \in lost'[p])
        BY <1>2, <2>3, <3>2 DEF TypeOK, Store
      <4>2. sysfs'[t] = sysfs[t]
        BY <2>3, <3>2, <4>1, StoreIs
      <4> QED
        BY <1>2, <4>1, <4>2 DEF AppliedStands
    <3> QED
      BY <3>1, <3>2
  <2> QED
    BY <2>1, <2>2, <2>3, StepKinds
       DEF NextName, NameDone, PassesOver, SetAccepted, SetNoMemory
<1> QED
    BY <1>1, <1>2

\* Only what the kernel lacks or the device does not let be configured is
\* passed over.
LEMMA PassedStep ==
    ASSUME TypeOK, Control, PassedOver, NEW p \in Process, Step(p)
    PROVE  PassedOver'
<1> DEFINE Excused == Missing \cup {u \in Target : ~Limit[DevOf[u[1]]].configurable}
<1> SUFFICES ASSUME NEW q \in Process PROVE passed'[q] \subseteq Excused
    BY DEF PassedOver
<1>1. passed[q] \subseteq Excused
    BY DEF PassedOver
<1>2. CASE q # p
    BY <1>1, <1>2, Others
<1>3. CASE q = p
  <2>1. CASE passed' = passed
    BY <1>1, <2>1
  <2>2. CASE PassesOver(p)
    BY <1>1, <1>3, <2>2 DEF TypeOK, PassesOver
  <2> QED
    BY <2>1, <2>2, StepKinds
       DEF Start, NextName, NameDone, SetAccepted, SetNoMemory
<1> QED
    BY <1>2, <1>3

\* What lies between the last setter called and the next was not asked for.
LEMMA NothingBetween ==
    ASSUME TypeOK, NEW p \in Process, NEW m \in DOMAIN Order(p),
           Given(cmd[p], Order(p)[m]), m \notin Todo(p)
    PROVE  m \in Nat /\ m <= ai[p]
<1>1. cmd[p] \in Command /\ ai[p] \in Nat
    BY DEF TypeOK
<1>2. Len(Order(p)) \in Nat /\ DOMAIN Order(p) = 1..Len(Order(p))
    BY <1>1, CommandType, OrderType DEF Order
<1> QED
    BY <1>1, <1>2 DEF Todo

\* The loops leave nothing out.
LEMMA HandledStep ==
    ASSUME TypeOK, Control, HandledSoFar, NEW p \in Process, Step(p)
    PROVE  HandledSoFar'
<1>1. cmd' = cmd
    BY Records
<1> SUFFICES ASSUME NEW q \in Process,
                    NEW k \in DOMAIN cmd[q].names, NEW m \in DOMAIN Order(q),
                    Behind(q, k, m)', cmd[q].names[k] # BadName,
                    Given(cmd[q], Order(q)[m])
             PROVE  <<cmd[q].names[k], Order(q)[m]>> \in applied'[q] \cup passed'[q]
    BY <1>1 DEF HandledSoFar, Order
<1> DEFINE t == <<cmd[q].names[k], Order(q)[m]>>
<1>2. Behind(q, k, m) => t \in applied[q] \cup passed[q]
    BY DEF HandledSoFar
<1>3. CASE q # p
  <2>1. Behind(q, k, m)
    BY <1>3, Others DEF Behind
  <2> QED
    BY <1>2, <1>3, <2>1, Others
<1>4. CASE q = p
  <2> HIDE DEF t
  <2>1. t \in applied[p] \cup passed[p] => t \in applied'[p] \cup passed'[p]
    BY Records
  <2>2. /\ cmd[p] \in Command /\ ai[p] \in Nat /\ pos[p] \in Nat
        /\ DOMAIN cmd[p].names = 1..Len(cmd[p].names) /\ Len(cmd[p].names) \in Nat
    BY CommandType DEF TypeOK
  <2>3. k \in Nat /\ m \in Nat \ {0}
    BY <1>4, <2>2, CommandType, OrderType DEF Order
  <2>4. CASE Behind(p, k, m)
    BY <1>2, <1>4, <2>1, <2>4 DEF t
  <2>5. CASE ~Behind(p, k, m)
    <3>1. CASE Start(p)
      BY <1>4, <2>5, <3>1 DEF TypeOK, Start, Behind
    <3>2. CASE NextName(p)
      <4>1. CASE pos' = pos /\ ai' = [ai EXCEPT ![p] = 0]
        BY <1>4, <2>2, <2>3, <2>5, <4>1 DEF TypeOK, Behind
      <4>2. CASE pos' = pos /\ pc'[p] = "done"
        BY <1>4, <2>5, <4>2 DEF Behind
      <4>3. CASE pos' = [pos EXCEPT ![p] = @ + 1] /\ pc' = pc /\ Name(p) = BadName
        BY <1>4, <2>2, <2>3, <2>5, <3>2, <4>3 DEF TypeOK, Behind, Name, NextName
      <4> QED
        BY <3>2, <4>1, <4>2, <4>3 DEF TypeOK, NextName, Exit
    <3>3. CASE NameDone(p)
      <4>1. m <= ai[p]
        BY <1>4, <3>3, NothingBetween DEF NameDone
      <4>2. pc[p] = "set" /\ pos'[p] = pos[p] + 1 /\ pc'[p] = "name"
        BY <3>3 DEF TypeOK, NameDone
      <4> QED
        BY <1>4, <2>2, <2>3, <2>5, <4>1, <4>2 DEF Behind
    <3>4. CASE pos' = pos /\ pc'[p] = "done"
      BY <1>4, <2>5, <3>4 DEF Behind
    <3>5. CASE AtSetter(p) /\ GoOn(p) /\ pos' = pos /\ Here(p) \in applied'[p] \cup passed'[p]
      <4>1. Next1(p) \in Nat /\ \A j \in Todo(p) : Next1(p) <= j
        BY <3>5, SetterAt
      <4>2. ai'[p] = Next1(p) /\ pc'[p] = "set" /\ pc[p] = "set"
        BY <3>5 DEF TypeOK, GoOn, AtSetter
      <4>3. k = pos[p] /\ m <= Next1(p) /\ ~(m <= ai[p])
        BY <1>4, <2>5, <3>5, <4>2 DEF Behind
      <4>4. m \in Todo(p)
        BY <1>4, <4>3, NothingBetween
      <4>5. m = Next1(p)
        BY <2>3, <4>1, <4>3, <4>4
      <4>6. t = Here(p)
        BY <1>4, <4>3, <4>5 DEF t, Here, Name, Attr
      <4> QED
        BY <1>4, <3>5, <4>6 DEF t
    <3>6. CASE AtSetter(p) /\ PassesOver(p)
      BY <3>5, <3>6 DEF TypeOK, PassesOver
    <3>7. CASE AtSetter(p) /\ SetAccepted(p)
      BY <3>5, <3>7 DEF TypeOK, SetAccepted, Store
    <3>8. CASE AtSetter(p) /\ SetNoMemory(p)
      BY <3>4, <3>8 DEF TypeOK, SetNoMemory, Exit
    <3>9. CASE \E e \in {-ENOENT, -EIO} : Exit(p, e) /\ pos' = pos
      BY <3>4, <3>9 DEF TypeOK, Exit
    <3> QED
      BY <3>1, <3>2, <3>3, <3>6, <3>7, <3>8, <3>9, StepKinds
  <2> QED
    BY <2>4, <2>5
<1> QED
    BY <1>3, <1>4

\* What is asked for before the attribute a setter is called for is behind.
LEMMA BeforeIsBehind ==
    ASSUME TypeOK, Control, HandledSoFar, NEW p \in Process, AtSetter(p),
           NEW t \in Asked(p), Precedes(p, t, Here(p))
    PROVE  t \in applied[p] \cup passed[p]
<1>1. PICK i \in DOMAIN cmd[p].names, b \in AttrsOf(cmd[p].kind) :
        /\ t = <<cmd[p].names[i], b>> /\ cmd[p].names[i] # BadName
        /\ Given(cmd[p], b)
    BY DEF Asked, Names
<1>2. PICK m \in DOMAIN Order(p) : b = Order(p)[m]
    BY DEF AttrsOf, Order
<1> DEFINE names == cmd[p].names
           order == Order(p)
<1>3. /\ cmd[p] \in Command /\ pos[p] \in Nat /\ ai[p] \in Nat
      /\ Len(names) \in Nat /\ DOMAIN names = 1..Len(names)
      /\ Len(order) \in Nat /\ DOMAIN order = 1..Len(order)
    BY CommandType, OrderType DEF TypeOK, Order
<1>4. /\ Place(names, names[i]) \in DOMAIN names
      /\ names[Place(names, names[i])] = names[i]
      /\ Place(order, order[m]) \in DOMAIN order
      /\ order[Place(order, order[m])] = order[m]
    BY <1>3, PlaceIsFirst
<1>5. /\ pos[p] \in DOMAIN names /\ Next1(p) \in DOMAIN order
      /\ Name(p) = names[pos[p]] /\ Attr(p) = order[Next1(p)]
      /\ \A j \in Todo(p) : Next1(p) <= j
    BY SetterAt DEF Name, Attr
<1>6. /\ Place(names, Name(p)) <= pos[p] /\ Place(names, Name(p)) \in Nat
      /\ Place(order, Attr(p)) <= Next1(p) /\ Place(order, Attr(p)) \in Nat
  <2> HIDE DEF names, order
  <2>1. pos[p] \in 1..Len(names) /\ Next1(p) \in 1..Len(order)
    BY <1>3, <1>5
  <2>2. /\ Place(names, names[pos[p]]) \in 1..Len(names)
        /\ Place(names, names[pos[p]]) <= pos[p]
    BY <1>3, <2>1, PlaceIsFirst
  <2>3. /\ Place(order, order[Next1(p)]) \in 1..Len(order)
        /\ Place(order, order[Next1(p)]) <= Next1(p)
    BY <1>3, <2>1, PlaceIsFirst
  <2> QED
    BY <1>5, <2>2, <2>3
<1> HIDE DEF names, order
<1>7. CASE Place(names, t[1]) < Place(names, Name(p))
  <2> DEFINE K == Place(names, names[i])
  <2>1. K \in DOMAIN names /\ names[K] = names[i] /\ K \in Nat
    BY <1>3, <1>4
  <2>2. K < pos[p]
    BY <1>1, <1>3, <1>4, <1>6, <1>7, <2>1 DEF names
  <2>3. Behind(p, K, m)
    BY <2>2 DEF Behind
  <2> QED
    BY <1>1, <1>2, <2>1, <2>3 DEF HandledSoFar, names
<1>8. CASE t[1] = Name(p) /\ Place(order, t[2]) < Place(order, Attr(p))
  <2> DEFINE M == Place(order, order[m])
  <2>1. M \in DOMAIN order /\ order[M] = order[m] /\ M \in Nat
    BY <1>3, <1>4
  <2>2. M < Next1(p)
    BY <1>1, <1>2, <1>3, <1>5, <1>6, <1>8, <2>1 DEF order
  <2> HIDE DEF M
  <2>3. M \notin Todo(p)
    BY <1>3, <1>5, <2>1, <2>2
  <2>4. M <= ai[p]
    BY <1>1, <1>2, <2>1, <2>3, NothingBetween DEF order
  <2>5. Behind(p, pos[p], M)
    BY <2>4 DEF Behind, AtSetter
  <2>6. <<names[pos[p]], order[M]>> \in applied[p] \cup passed[p]
    BY <1>1, <1>2, <1>5, <1>8, <2>1, <2>5 DEF HandledSoFar, names, order
  <2> QED
    BY <1>1, <1>2, <1>5, <1>8, <2>1, <2>6 DEF order, names
<1> QED
    BY <1>7, <1>8, SetterAt DEF Precedes, names, order

LEMMA PrefixStep ==
    ASSUME TypeOK, Control, HandledSoFar, AppliedPrefix, NEW p \in Process, Step(p)
    PROVE  AppliedPrefix'
<1>1. cmd' = cmd
    BY Records
<1> SUFFICES ASSUME NEW q \in Process, NEW t \in Asked(q), NEW u \in Asked(q),
                    Precedes(q, t, u), u \in applied'[q] \cup passed'[q]
             PROVE  t \in applied'[q] \cup passed'[q]
    BY <1>1 DEF AppliedPrefix, Asked, Names, Precedes, Order
<1>2. u \in applied[q] \cup passed[q] => t \in applied[q] \cup passed[q]
    BY DEF AppliedPrefix
<1>3. CASE q # p
    BY <1>2, <1>3, Others
<1>4. CASE q = p
  <2>1. CASE u \in applied[q] \cup passed[q]
    BY <1>2, <1>4, <2>1, Records
  <2>2. CASE u \notin applied[q] \cup passed[q]
    <3>1. AtSetter(p) /\ u = Here(p)
      BY <1>4, <2>2, Records
    <3>2. t \in applied[p] \cup passed[p]
      BY <1>4, <3>1, BeforeIsBehind
    <3> QED
      BY <1>4, <3>2, Records
  <2> QED
    BY <2>1, <2>2
<1> QED
    BY <1>3, <1>4

\* The library's copy c of t, when sysfs holds s
Follows(written, t, c, s) == c = s \/ (t \in written /\ s \in Kept(t[2], c))

\* The library's copy follows what the process writes.
LEMMA CoherentStep ==
    ASSUME TypeOK, Control, CacheCoherent, NEW p \in Process, Step(p)
    PROVE  CacheCoherent'
<1> SUFFICES ASSUME NEW q \in Process, pc'[q] # "start", rc'[q] # -ENOMEM,
                    NEW t \in Target
             PROVE  \/ Follows(applied'[q], t, cache'[q][t], sysfs'[t])
                    \/ t \in lost'[q] \/ t[2] = "op_config"
    BY DEF CacheCoherent, Follows
<1>1. pc[q] # "start" /\ rc[q] # -ENOMEM
        => \/ Follows(applied[q], t, cache[q][t], sysfs[t])
           \/ t \in lost[q] \/ t[2] = "op_config"
    BY DEF CacheCoherent, Follows
<1>2. CASE q # p
    BY <1>1, <1>2, Others
<1>3. CASE q = p
  <2>1. CASE Start(p)
    BY <1>3, <2>1 DEF TypeOK, Start, Follows
  <2>2. CASE UNCHANGED <<sysfs, cache, lost, applied>> /\ pc[p] \in {"name", "set"}
    BY <1>1, <1>3, <2>2 DEF Control, ENOMEM
  <2>3. CASE AtSetter(p) /\ SetAccepted(p)
    <3>1. \/ Follows(applied[p], t, cache[p][t], sysfs[t])
          \/ t \in lost[p] \/ t[2] = "op_config"
      BY <1>1, <1>3, <2>3 DEF AtSetter, Control, ENOMEM
    <3>2. CASE t = Here(p)
      <4>1. t[2] = Attr(p) /\ t \in applied'[p]
        BY <2>3, <3>2, SetterAt DEF TypeOK, SetAccepted, Store
      <4>2. \/ cache'[p][t] = Written(Attr(p), Param(cmd[p], Attr(p)))
            \/ t[2] = "op_config"
        BY <2>3, <3>2, <4>1 DEF TypeOK, SetAccepted
      <4>3. sysfs'[t] \in Kept(Attr(p), Written(Attr(p), Param(cmd[p], Attr(p))))
        BY <2>3, <3>2, StoreIs DEF SetAccepted
      <4> QED
        BY <1>3, <4>1, <4>2, <4>3 DEF Follows
    <3>3. CASE t # Here(p)
      <4>1. sysfs'[t] = sysfs[t]
        BY <2>3, <3>3, StoreIs DEF SetAccepted
      <4>3. /\ t \in lost[p] => t \in lost'[p]
            /\ t \in applied[p] => t \in applied'[p]
        BY <2>3, <3>3 DEF TypeOK, SetAccepted, Store
      <4>2. cache'[p][t] = cache[p][t]
        BY <2>3, <3>3 DEF TypeOK, SetAccepted
      <4> QED
        BY <1>3, <3>1, <4>1, <4>2, <4>3 DEF Follows
    <3> QED
      BY <3>2, <3>3
  <2>4. CASE SetNoMemory(p)
    BY <1>3, <2>4 DEF TypeOK, SetNoMemory, Exit
  <2> QED
    BY <2>1, <2>2, <2>3, <2>4, StepKinds
       DEF NextName, NameDone, PassesOver, AtSetter
<1> QED
    BY <1>2, <1>3

-----------------------------------------------------------------------------
(* The invariant *)

LEMMA InitInv == Init => IInv
<1> SUFFICES ASSUME Init PROVE IInv
    OBVIOUS
<1>1. /\ DOMAIN sysfs = Target /\ \A t \in Target : sysfs[t] \in ValueOf(t[2])
  <2>1. "none" \in Text /\ 0 \in Int
    BY DEF Text
  <2> QED
    BY <2>1 DEF Init, ValueOf
<1>2. TypeOK
    BY <1>1 DEF Init, TypeOK
<1>3. Control /\ WithinLimits /\ AppliedStands /\ PassedOver /\ CacheCoherent
    BY DEF Init, Control, WithinLimits, AppliedStands, PassedOver, CacheCoherent
<1>4. AppliedPrefix
    BY DEF Init, AppliedPrefix
<1>5. HandledSoFar
  <2> SUFFICES ASSUME NEW p \in Process, NEW k \in DOMAIN cmd[p].names,
                      NEW m \in DOMAIN Order(p), Behind(p, k, m)
               PROVE  FALSE
    BY DEF HandledSoFar
  <2>1. k \in Nat \ {0}
    BY <1>2, CommandType DEF TypeOK
  <2> QED
    BY <2>1 DEF Init, Behind
<1> QED
    BY <1>2, <1>3, <1>4, <1>5 DEF IInv

LEMMA NextInv == IInv /\ [Next]_vars => IInv'
<1>1. ASSUME IInv, Next PROVE IInv'
  <2>1. PICK p \in Process : Step(p)
    BY <1>1 DEF Next
  <2>2. /\ TypeOK /\ Control /\ WithinLimits /\ AppliedStands /\ PassedOver
        /\ HandledSoFar /\ AppliedPrefix /\ CacheCoherent
    BY <1>1 DEF IInv
  <2>3. TypeOK' /\ Control'
    BY <2>1, <2>2, TypeStep, ControlStep
  <2>4. WithinLimits' /\ AppliedStands' /\ PassedOver'
    BY <2>1, <2>2, LimitsStep, StandsStep, PassedStep
  <2>5. HandledSoFar' /\ AppliedPrefix' /\ CacheCoherent'
    BY <2>1, <2>2, HandledStep, PrefixStep, CoherentStep
  <2> QED
    BY <2>3, <2>4, <2>5 DEF IInv
<1>2. ASSUME IInv, UNCHANGED vars PROVE IInv'
    BY <1>2 DEF IInv, vars, TypeOK, Control, WithinLimits, AppliedStands, PassedOver,
                HandledSoFar, Behind, AppliedPrefix, CacheCoherent, Name, Order,
                Asked, Names, Precedes
<1> QED
    BY <1>1, <1>2

LEMMA IInvAlways == Spec => []IInv
BY InitInv, NextInv, PTL DEF Spec

-----------------------------------------------------------------------------
(* The theorems *)

\* A command that exits with 0 has written every attribute it was asked for,
\* on every name, and sysfs holds the value asked for or, for the two that the
\* driver rounds, the next power of two, except where another process wrote
\* later or a setter had a reason to leave the attribute alone (the chain of
\* "if (rc < 0) return rc" in config_attr.c).
THEOREM SuccessMeansConfigured == Spec => []SettingStands
<1>1. IInv => SettingStands
  <2> SUFFICES ASSUME IInv, NEW p \in Process, pc[p] = "done", rc[p] = 0,
                      NEW t \in Asked(p)
               PROVE  \/ sysfs[t] \in Kept(t[2], Written(t[2], Param(cmd[p], t[2])))
                      \/ t \in lost[p]
                      \/ t \in passed[p] \cap (Missing \cup
                             {u \in Target : ~Limit[DevOf[u[1]]].configurable})
    BY DEF SettingStands
  <2>1. PICK i \in DOMAIN cmd[p].names, b \in AttrsOf(cmd[p].kind) :
          /\ t = <<cmd[p].names[i], b>> /\ cmd[p].names[i] # BadName
          /\ Given(cmd[p], b)
    BY DEF Asked, Names
  <2>2. PICK m \in DOMAIN Order(p) : b = Order(p)[m]
    BY DEF AttrsOf, Order
  <2>3. i < pos[p]
    <3>1. pos[p] > Len(cmd[p].names) /\ pos[p] \in Nat
      BY DEF IInv, Control, TypeOK
    <3>2. Len(cmd[p].names) \in Nat /\ i \in 1..Len(cmd[p].names)
      BY CommandType DEF IInv, TypeOK
    <3> QED
      BY <3>1, <3>2
  <2>4. t \in applied[p] \cup passed[p]
    BY <2>1, <2>2, <2>3 DEF IInv, HandledSoFar, Behind
  <2> QED
    BY <2>4 DEF IInv, AppliedStands, PassedOver
<1> QED
    BY <1>1, IInvAlways, PTL

\* What a command has written or passed over is at every moment a prefix of
\* what it was asked for: no setter is called after one that failed.
THEOREM WritesInOrder == Spec => []AppliedPrefix
<1>1. IInv => AppliedPrefix
    BY DEF IInv
<1> QED
    BY <1>1, IInvAlways, PTL

\* Whatever the command lines say and however wide the C types are, an attribute
\* that was written holds a valid value for the device of its object, after
\* truncation, printing and rounding; only negative group ids and switches, which
\* the code does not check for, are excepted.
THEOREM WritesWithinLimits == Spec => []WithinLimits
<1>1. IInv => WithinLimits
    BY DEF IInv
<1> QED
    BY <1>1, IInvAlways, PTL

\* The copy of an attribute in the accfg_ctx is what sysfs holds, also after a
\* write that failed, or the value the driver rounded up, unless another process
\* wrote it, it is op_config, or strdup() failed.
THEOREM CopyIsCurrent == Spec => []CacheCoherent
<1>1. IInv => CacheCoherent
    BY DEF IInv
<1> QED
    BY <1>1, IInvAlways, PTL
=============================================================================
