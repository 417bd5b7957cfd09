--------------------------- MODULE SaveConfig_proof ---------------------------
(***************************************************************************)
(* Proofs about list and save-config: the walk that builds the listing     *)
(* (Listing), and the values that go into a file and come back from it     *)
(* (RoundTrip).  For each, the inductive invariant stands at the end of    *)
(* its module; here it is shown to hold at first, to be kept by every      *)
(* action, one lemma for each, and to imply the properties.                *)
(***************************************************************************)
EXTENDS Listing, RoundTrip, FiniteSetTheorems, TLAPS

-----------------------------------------------------------------------------
(* Facts about the operators *)

\* An element of a sequence.
LEMMA ElementOf ==
    ASSUME NEW S, NEW s \in Seq(S), NEW i \in DOMAIN s
    PROVE  s[i] \in S
OBVIOUS

\* The elements of a sequence with one more.
LEMMA RangeAppend ==
    ASSUME NEW S, NEW s \in Seq(S), NEW x \in S
    PROVE  /\ Append(s, x) \in Seq(S)
           /\ Range(Append(s, x)) = Range(s) \cup {x}
<1>1. /\ Append(s, x) \in Seq(S) /\ Len(s) \in Nat
      /\ DOMAIN Append(s, x) = 1..(Len(s) + 1) /\ DOMAIN s = 1..Len(s)
      /\ \A i \in 1..Len(s) : Append(s, x)[i] = s[i]
      /\ Append(s, x)[Len(s) + 1] = x
    OBVIOUS
<1>2. 1..(Len(s) + 1) = 1..Len(s) \cup {Len(s) + 1}
    BY <1>1
<1> QED
    BY <1>1, <1>2 DEF Range

LEMMA RangeEmpty == Range(<<>>) = {}
    BY DEF Range

\* The next slot, around.
LEMMA NextSlot ==
    ASSUME NEW n \in Nat, NEW M \in Nat \ {0}
    PROVE  /\ n % M \in 0..(M - 1)
           /\ (n + 1) % M = IF n % M = M - 1 THEN 0 ELSE (n % M) + 1
<1>1. PICK q \in Int, r \in 0..(M - 1) : n = M * q + r /\ n % M = r
    OBVIOUS
<1>2. PICK p \in Int, t \in 0..(M - 1) : n + 1 = M * p + t /\ (n + 1) % M = t
    OBVIOUS
<1>3. M * (p - q) = r + 1 - t
    BY <1>1, <1>2
<1>4. p - q \in {0, 1}
    BY <1>3
<1> QED
    BY <1>1, <1>2, <1>3, <1>4

\* Which filter is looked at.
LEMMA Filters ==
    /\ FilterBy("wq") \/ FilterBy("engine") => Filtered /\ ~FilterBy("group") /\ ~FilterBy("device")
    /\ FilterBy("group") \/ FilterBy("device") => Filtered
    /\ ~(FilterBy("wq") /\ FilterBy("engine"))
    BY DEF FilterBy, Filtered, FilterOrder

\* What the assumptions say of one device.
LEMMA Constants ==
    ASSUME NEW d \in Device
    PROVE  /\ MaxGroups[d] \in Nat \ {0} /\ GroupSeq[d] \in Seq(Group)
           /\ Len(GroupSeq[d]) = MaxGroups[d]
           /\ \A i \in Slot(d) : i + 1 \in DOMAIN GroupSeq[d]
                               /\ IdOf(d, GroupSeq[d][i + 1]) = i
                               /\ GroupSeq[d][i + 1] \in Group
           /\ \A w \in Range(WqSeq[d]) : w \in Wq /\ DevOf[w] = d
           /\ WqSeq[d] \in Seq(Wq) /\ EngineSeq[d] \in Seq(Engine)
<1>1. /\ MaxGroups[d] \in Nat \ {0} /\ GroupSeq[d] \in Seq(Group)
      /\ Len(GroupSeq[d]) = MaxGroups[d]
      /\ WqSeq[d] \in Seq(Wq) /\ EngineSeq[d] \in Seq(Engine)
      /\ Range(WqSeq[d]) = WqsOf(d)
      /\ \A i, j \in DOMAIN GroupSeq[d] : GroupSeq[d][i] = GroupSeq[d][j] => i = j
    BY ListingAssumption DEF IsInjective
<1>2. DOMAIN GroupSeq[d] = 1..MaxGroups[d]
    BY <1>1
<1>3. ASSUME NEW i \in Slot(d)
      PROVE  /\ i + 1 \in DOMAIN GroupSeq[d] /\ GroupSeq[d][i + 1] \in Group
             /\ IdOf(d, GroupSeq[d][i + 1]) = i
  <2>1. i + 1 \in DOMAIN GroupSeq[d] /\ i \in Int
    BY <1>1, <1>2 DEF Slot
  <2> DEFINE g == GroupSeq[d][i + 1]
             c == CHOOSE j \in DOMAIN GroupSeq[d] : GroupSeq[d][j] = g
  <2>2. c = i + 1
    <3>1. c \in DOMAIN GroupSeq[d] /\ GroupSeq[d][c] = g
      BY <2>1
    <3> HIDE DEF c
    <3> QED
      BY <1>1, <2>1, <3>1
  <2>3. GroupSeq[d][i + 1] \in Group
    BY <1>1, <2>1, ElementOf, Zenon
  <2>4. IdOf(d, g) = c - 1
    BY DEF IdOf
  <2> HIDE DEF c
  <2> QED
    BY <2>1, <2>2, <2>3, <2>4
<1>4. \A w \in Range(WqSeq[d]) : w \in Wq /\ DevOf[w] = d
    BY <1>1 DEF WqsOf
<1> QED
    BY <1>1, <1>3, <1>4

\* The device at hand.
LEMMA AtDevice ==
    ASSUME di \in Nat \ {0}, di <= Len(DeviceSeq)
    PROVE  /\ dev \in Device /\ di \in DOMAIN DeviceSeq
           /\ \A n \in DOMAIN DeviceSeq : DeviceSeq[n] = dev => n = di
<1>1. /\ DeviceSeq \in Seq(Device)
      /\ \A i, j \in DOMAIN DeviceSeq : DeviceSeq[i] = DeviceSeq[j] => i = j
    BY ListingAssumption DEF IsInjective
<1>2. di \in DOMAIN DeviceSeq
    BY <1>1
<1> QED
    BY <1>1, <1>2 DEF dev

\* In filled slots a group id has one slot: a wq or engine is listed once.
LEMMA CopiesOf ==
    ASSUME ListingInv, ~FilterBy("group"), NEW d \in DOMAIN jc, Filled(d), NEW x \in Part
    PROVE  Copies(d, x) = IF Listed(d, x) THEN 1 ELSE 0
<1> DEFINE A == {i \in Slot(d) : x \in Range(jc[d].wq[i])}
           B == {i \in Slot(d) : x \in Range(jc[d].engine[i])}
           L == x \in Loose(d)
<1>1. \A i \in A \cup B : jc[d].ids[i] = cached[x]
    BY DEF ListingInv, Arrays, InArray
<1>2. L => A \cup B = {}
    BY DEF ListingInv, Arrays, InArray
<1>3. \A i, j \in A \cup B : i = j
    BY <1>1 DEF Filled
<1>4. A = {} \/ B = {}
  <2>1. d \in Device /\ jc[d] \in Container(d)
    BY DEF ListingInv, TypeOK
  <2>2. /\ \A i \in Slot(d) : jc[d].wq[i] \in Seq(Wq)
        /\ \A i \in Slot(d) : jc[d].engine[i] \in Seq(Engine)
    BY <2>1 DEF Container
  <2>3. \A i \in Slot(d) : /\ Range(jc[d].wq[i]) \subseteq Wq
                           /\ Range(jc[d].engine[i]) \subseteq Engine
    BY <2>2 DEF Range
  <2> QED
    BY <2>3, ListingAssumption
<1>5. ASSUME NEW X, X \subseteq A \cup B
      PROVE  Cardinality(X) = IF X = {} THEN 0 ELSE 1
  <2>1. CASE X = {}
    BY <2>1, FS_EmptySet
  <2>2. CASE X # {}
    <3>1. PICK i : X = {i}
      BY <1>3, <1>5, <2>2
    <3> QED
      BY <2>2, <3>1, FS_Singleton
  <2> QED
    BY <2>1, <2>2
<1>6. Cardinality(A) = (IF A = {} THEN 0 ELSE 1) /\ Cardinality(B) = (IF B = {} THEN 0 ELSE 1)
    BY <1>5
<1>7. Copies(d, x) = Cardinality(A) + Cardinality(B) + (IF L THEN 1 ELSE 0)
    BY DEF Copies, Loose
<1>8. Listed(d, x) <=> L \/ A # {} \/ B # {}
    BY DEF Listed, InArray
<1> QED
    BY <1>2, <1>4, <1>6, <1>7, <1>8

\* The arrays of a container hold wqs and engines.
LEMMA Members ==
    ASSUME TypeOK, NEW d \in DOMAIN jc
    PROVE  /\ d \in Device
           /\ \A i \in Slot(d) : /\ jc[d].wq[i] \in Seq(Wq) /\ jc[d].engine[i] \in Seq(Engine)
                                 /\ Range(jc[d].wq[i]) \subseteq Wq
                                 /\ Range(jc[d].engine[i]) \subseteq Engine
           /\ jc[d].looseWq \in Seq(Wq) /\ jc[d].looseEngine \in Seq(Engine)
           /\ Range(jc[d].looseWq) \subseteq Wq /\ Range(jc[d].looseEngine) \subseteq Engine
           /\ \A x : Listed(d, x) => x \in Part
<1>1. d \in Device /\ jc[d] \in Container(d)
    BY DEF TypeOK
<1>2. /\ \A i \in Slot(d) : jc[d].wq[i] \in Seq(Wq)
      /\ \A i \in Slot(d) : jc[d].engine[i] \in Seq(Engine)
      /\ jc[d].looseWq \in Seq(Wq) /\ jc[d].looseEngine \in Seq(Engine)
    BY <1>1 DEF Container
<1>3. \A S : \A s \in Seq(S) : Range(s) \subseteq S
    BY DEF Range
<1>4. /\ \A i \in Slot(d) : /\ Range(jc[d].wq[i]) \subseteq Wq
                            /\ Range(jc[d].engine[i]) \subseteq Engine
      /\ Range(jc[d].looseWq) \subseteq Wq /\ Range(jc[d].looseEngine) \subseteq Engine
    BY <1>2, <1>3
<1> QED
    BY <1>1, <1>2, <1>4 DEF Listed, InArray, Loose, Part

LEMMA ImpliesInOwnGroup ==
    ASSUME ListingInv
    PROVE  InOwnGroup
<1> SUFFICES ASSUME NEW d \in DOMAIN jc, ~FilterBy("group"), NEW i \in Slot(d),
                    NEW x \in InArray(d, i)
             PROVE  /\ jc[d].at[i] # NoGroup
                    /\ IdOf(d, jc[d].at[i]) = cached[x]
                    /\ Copies(d, x) = 1
    BY DEF InOwnGroup, InArray
<1>1. ~(pc = "group" /\ d = dev)
  <2>1. ~Filling(d)
    BY RangeEmpty DEF Filling, InArray
  <2> QED
    BY <2>1 DEF ListingInv, Slots
<1>2. Filled(d)
    BY <1>1 DEF ListingInv, Slots
<1>3. Listed(d, x) /\ x \in Part
  <2>1. Listed(d, x)
    BY DEF Listed
  <2> QED
    BY <2>1, Members DEF ListingInv
<1>4. jc[d].ids[i] = cached[x]
    BY DEF ListingInv, Arrays
<1> QED
    BY <1>2, <1>3, <1>4, CopiesOf DEF Filled

LEMMA ImpliesListingComplete ==
    ASSUME ListingInv
    PROVE  ListingComplete
<1> SUFFICES ASSUME pc = "done", rc = 0, ~Filtered
             PROVE  /\ opt.cmd # "load" =>
                         \A d \in Range(DeviceSeq) \ moved :
                             d \in DOMAIN jc <=> Idle \/ devState[d] = "enabled"
                    /\ \A d \in DOMAIN jc : \A w \in Range(WqSeq[d]) \ moved :
                         Copies(d, w) = IF Idle \/ wqState[w] \in {"enabled", "locked"}
                                        THEN 1 ELSE 0
    BY DEF ListingComplete
<1>1. di > Len(DeviceSeq)
    BY DEF ListingInv, Whereabouts
<1>2. ASSUME opt.cmd # "load", NEW d \in Range(DeviceSeq) \ moved
      PROVE  d \in DOMAIN jc <=> Idle \/ devState[d] = "enabled"
  <2>1. PICK n \in DOMAIN DeviceSeq : DeviceSeq[n] = d
    BY DEF Range
  <2>2. n < di
    <3>1. DeviceSeq \in Seq(Device) /\ di \in Nat
      BY ListingAssumption DEF ListingInv, TypeOK
    <3>2. n \in 1..Len(DeviceSeq) /\ Len(DeviceSeq) \in Nat
      BY <2>1, <3>1
    <3> QED
      BY <1>1, <3>1, <3>2
  <2> QED
    BY <1>2, <2>1, <2>2 DEF ListingInv, DevicesBehind
<1>3. ASSUME NEW d \in DOMAIN jc, NEW w \in Range(WqSeq[d]) \ moved
      PROVE  Copies(d, w) = IF Idle \/ wqState[w] \in {"enabled", "locked"} THEN 1 ELSE 0
  <2>1. Filled(d)
    BY Filters DEF ListingInv, Slots
  <2>2. d \in Device /\ w \in Wq
    BY Constants, Members DEF ListingInv
  <2>3. PICK n \in DOMAIN WqSeq[d] : WqSeq[d][n] = w
    BY DEF Range
  <2>4. Listed(d, w) => Active(w)
    BY <2>2 DEF ListingInv, WqsBehind
  <2>5. Active(w) => Listed(d, w)
    BY <2>3 DEF ListingInv, WqsBehind
  <2>6. Copies(d, w) = IF Listed(d, w) THEN 1 ELSE 0
    BY <2>1, <2>2, CopiesOf, Filters DEF Part
  <2> QED
    BY <2>4, <2>5, <2>6 DEF Active
<1> QED
    BY <1>2, <1>3

LEMMA ImpliesFoundMeansListed ==
    ASSUME ListingInv
    PROVE  FoundMeansListed
<1> SUFFICES ASSUME pc = "done", rc = 0, opt.cmd = "list", FilterBy("wq") \/ FilterBy("engine"),
                    Wanted \notin moved
             PROVE  Copies(Home(Wanted), Wanted) = 1
    BY DEF FoundMeansListed
<1>1. found
    BY DEF ListingInv, Whereabouts
<1>2. /\ Wanted \in Part /\ Home(Wanted) \in DOMAIN jc
      /\ Listed(Home(Wanted), Wanted)
    BY <1>1 DEF ListingInv, FoundSoFar
<1>3. Filled(Home(Wanted))
    BY <1>2, Filters DEF ListingInv, Slots
<1> QED
    BY <1>2, <1>3, CopiesOf, Filters

-----------------------------------------------------------------------------
(* The invariant is inductive *)

LEMMA ListingInitial ==
    ASSUME Init
    PROVE  ListingInv
<1>1. /\ jc = <<>> /\ pc = "start" /\ di = 1 /\ k = 1 /\ found = FALSE /\ rc = 0
      /\ cached = gid /\ moved = {} /\ others = 0 /\ groupNum = 0 /\ jdevices = <<>>
      /\ opt \in Option
    BY DEF Init
<1>2. DOMAIN jc = {}
    BY <1>1
<1>3. gid \in [Part -> Int] /\ cached \in [Part -> Int]
  <2>1. GroupId \subseteq Int
    <3>1. ASSUME NEW d \in Device PROVE Slot(d) \subseteq Int
      <4>1. MaxGroups[d] \in Nat
        BY ListingAssumption
      <4> QED
        BY <4>1 DEF Slot
    <3> QED
      BY <3>1 DEF GroupId
  <2>2. gid \in [Part -> GroupId]
    BY DEF Init
  <2>3. gid \in [Part -> Int]
    BY <2>1, <2>2
  <2> QED
    BY <1>1, <2>3
<1>4. DriverTypeOK
    BY DriverAssumption DEF DriverTypeOK, Init, DeviceState, WqState
<1>5. TypeOK
  <2>1. Len(DeviceSeq) \in Nat /\ MaxOther \in Nat
    BY ListingAssumption
  <2>2. di \in 1..(Len(DeviceSeq) + 1) /\ k \in Nat \ {0} /\ groupNum \in Nat
        /\ others \in 0..MaxOther /\ rc \in {0, -EIO, -EINVAL}
    BY <1>1, <2>1
  <2>3. jdevices \in Seq(Device)
    BY <1>1
  <2> QED
    BY <1>1, <1>2, <1>3, <1>4, <2>2, <2>3 DEF TypeOK
<1>6. GroupIds
  <2>1. ASSUME NEW w \in Wq
        PROVE  gid[w] < MaxGroups[DevOf[w]] /\ (Bound(w) => gid[w] >= 0)
    <3>1. DevOf[w] \in Device
      BY DriverAssumption
    <3>2. w \in Range(WqSeq[DevOf[w]])
      BY <3>1, ListingAssumption DEF WqsOf
    <3> QED
      BY <3>1, <3>2 DEF Init
  <2> QED
    BY <1>1, <2>1 DEF GroupIds
<1> QED
    BY <1>1, <1>2, <1>5, <1>6 DEF ListingInv, Whereabouts, Slots, Arrays, DevicesBehind,
       WqsBehind, FoundSoFar, InDevice

\* The command line stays what it is.
LEMMA SameOptions ==
    ASSUME UNCHANGED opt
    PROVE  /\ Filtered' <=> Filtered
           /\ \A kind : FilterBy(kind)' <=> FilterBy(kind)
           /\ Wanted' = Wanted /\ Idle' = Idle
<1>1. \A kind : FilterBy(kind)' <=> FilterBy(kind)
    BY DEF FilterBy
<1>2. Filtered' <=> Filtered
    BY DEF Filtered
<1>3. Idle' = Idle
    BY DEF Idle
<1>4. Wanted' = Wanted
    BY DEF Wanted, FilterBy
<1> QED
    BY <1>1, <1>2, <1>3, <1>4

LEMMA SameContainers ==
    ASSUME UNCHANGED jc
    PROVE  \A d : /\ Filled(d)' <=> Filled(d)
                  /\ \A i : InArray(d, i)' = InArray(d, i)
                  /\ Loose(d)' = Loose(d)
                  /\ \A x : Listed(d, x)' <=> Listed(d, x)
    BY DEF Filled, InArray, Loose, Listed

\* Steps that only scan and walk on.
LEMMA Scans ==
    ASSUME ListingInv, UNCHANGED <<driverVars, gid, opt, jc, moved>>,
           \A x \in Part : cached'[x] \in {cached[x], gid[x]},
           ~FilterBy("group") => \A d \in DOMAIN jc, x \in Part : Listed(d, x) => cached'[x] = cached[x]
    PROVE  GroupIds' /\ Arrays'
<1>1. GroupIds'
    BY DEF ListingInv, GroupIds, Bound, driverVars
<1>2. ASSUME ~FilterBy("group"), NEW d \in DOMAIN jc, NEW x, Listed(d, x)
      PROVE  cached'[x] = cached[x]
    BY <1>2, Members DEF ListingInv
<1>3. ~FilterBy("group") =>
        \A d \in DOMAIN jc : /\ \A x \in Loose(d) : cached'[x] = cached[x]
                             /\ \A i \in Slot(d) : \A x \in InArray(d, i) :
                                  cached'[x] = cached[x]
    BY <1>2 DEF Listed
<1>4. Arrays'
    BY <1>3, SameContainers, SameOptions DEF ListingInv, Arrays
<1> QED
    BY <1>1, <1>4

\* Away from groups and wqs.
LEMMA Elsewhere ==
    ASSUME ListingInv, UNCHANGED <<driverVars, opt, jc, moved>>,
           pc \notin {"group", "wq"}, pc' \notin {"group", "wq"}
    PROVE  Slots' /\ WqsBehind'
<1>1. Slots'
    BY SameOptions, SameContainers DEF ListingInv, Slots
<1>2. \A w : Active(w)' <=> Active(w)
    BY SameOptions DEF Active, driverVars
<1>3. WqsBehind'
    BY <1>2, SameOptions, SameContainers DEF ListingInv, WqsBehind
<1> QED
    BY <1>1, <1>3

LEMMA SkipDeviceInv ==
    ASSUME ListingInv, SkipDevice, UNCHANGED others
    PROVE  ListingInv'
<1>1. /\ pc = "device" /\ di <= Len(DeviceSeq) /\ di' = di + 1
      /\ UNCHANGED <<driverVars, gid, opt, pc, k, cached, jc, jdevices, groupNum, found, rc,
                     moved, others>>
    BY DEF SkipDevice
<1>2. di \in Nat \ {0} /\ Len(DeviceSeq) \in Nat /\ DOMAIN DeviceSeq = 1..Len(DeviceSeq)
    BY ListingAssumption DEF ListingInv, TypeOK
<1>3. TypeOK'
  <2>1. di' \in 1..(Len(DeviceSeq) + 1)
    BY <1>1, <1>2
  <2>2. DriverTypeOK'
    BY <1>1 DEF ListingInv, TypeOK, DriverTypeOK, driverVars
  <2> QED
    BY <1>1, <2>1, <2>2, Zenon DEF ListingInv, TypeOK
<1>4. GroupIds' /\ Arrays'
    BY <1>1, Scans
<1>5. Whereabouts'
  <2>1. \A d \in DOMAIN jc : \E n \in DOMAIN DeviceSeq : DeviceSeq[n] = d /\ n < di
    BY <1>1, <1>2 DEF ListingInv, Whereabouts, InDevice
  <2> QED
    BY <1>1, <1>2, <2>1 DEF Whereabouts, InDevice
<1>6. Slots' /\ WqsBehind'
    BY <1>1, Elsewhere
<1>8. FoundSoFar'
  <2>1. ~(Filtered /\ found)
    BY <1>1, <1>2 DEF ListingInv, FoundSoFar
  <2> QED
    BY <1>1, <2>1, SameOptions, Filters DEF FoundSoFar
<1>9. DevicesBehind'
  <2> SUFFICES ASSUME ~Filtered, opt.cmd # "load", NEW n \in DOMAIN DeviceSeq, n < di + 1,
                      DeviceSeq[n] \notin moved
               PROVE  DeviceSeq[n] \in DOMAIN jc <=> Idle \/ devState[DeviceSeq[n]] = "enabled"
    BY <1>1, SameOptions DEF DevicesBehind, driverVars, InDevice
  <2>1. CASE n < di
    BY <2>1 DEF ListingInv, DevicesBehind
  <2>2. CASE n = di
    <3>1. ~Idle /\ devState[dev] # "enabled"
      BY DEF SkipDevice
    <3>2. dev \notin DOMAIN jc
      BY <1>1, <1>2, AtDevice DEF ListingInv, Whereabouts, InDevice
    <3> QED
      BY <2>2, <3>1, <3>2 DEF dev
  <2> QED
    BY <1>2, <2>1, <2>2
<1> QED
    BY <1>3, <1>4, <1>5, <1>6, <1>8, <1>9 DEF ListingInv

LEMMA WalkOverInv ==
    ASSUME ListingInv, WalkOver, UNCHANGED others
    PROVE  ListingInv'
<1>1. /\ pc = "device" /\ di > Len(DeviceSeq)
      /\ IF found THEN pc' = "display" /\ UNCHANGED rc ELSE pc' = "done" /\ rc' = -EINVAL
      /\ UNCHANGED <<driverVars, gid, opt, di, k, cached, jc, jdevices, groupNum, found,
                     moved, others>>
      /\ pc' \in {"display", "done"}
    BY DEF WalkOver, Exit
<1>2. TypeOK'
  <2>1. DriverTypeOK'
    BY <1>1 DEF ListingInv, TypeOK, DriverTypeOK, driverVars
  <2>2. pc' \in {"display", "done"} /\ rc' \in {0, -EIO, -EINVAL}
    BY <1>1 DEF ListingInv, TypeOK
  <2> QED
    BY <1>1, <2>1, <2>2, Zenon DEF ListingInv, TypeOK
<1>3. GroupIds' /\ Arrays'
    BY <1>1, Scans
<1>4. Whereabouts'
    BY <1>1 DEF ListingInv, Whereabouts, InDevice, EINVAL
<1>5. Slots' /\ WqsBehind'
    BY <1>1, Elsewhere
<1>6. FoundSoFar' /\ DevicesBehind'
  <2>1. pc' # "device" /\ pc' \notin {"start", "group"} /\ ~InDevice' /\ ~InDevice
    BY <1>1 DEF InDevice
  <2>2. FoundSoFar'
    BY <1>1, <2>1, SameOptions, SameContainers DEF ListingInv, FoundSoFar
  <2>3. DevicesBehind'
    BY <1>1, <2>1, SameOptions DEF ListingInv, DevicesBehind, driverVars
  <2> QED
    BY <2>2, <2>3
<1> QED
    BY <1>2, <1>3, <1>4, <1>5, <1>6 DEF ListingInv

LEMMA DisplayInv ==
    ASSUME ListingInv, Display, UNCHANGED others
    PROVE  ListingInv'
<1>1. /\ pc = "display" /\ pc' = "done" /\ rc' \in {0, -EIO, -EINVAL}
      /\ UNCHANGED <<driverVars, gid, opt, di, k, cached, jc, jdevices, groupNum, found,
                     moved, others>>
    BY DEF Display, Exit
<1>2. TypeOK'
  <2>1. DriverTypeOK'
    BY <1>1 DEF ListingInv, TypeOK, DriverTypeOK, driverVars
  <2> QED
    BY <1>1, <2>1, Zenon DEF ListingInv, TypeOK
<1>3. GroupIds' /\ Arrays'
    BY <1>1, Scans
<1>4. Whereabouts'
    BY <1>1 DEF ListingInv, Whereabouts, InDevice
<1>5. Slots' /\ WqsBehind'
    BY <1>1, Elsewhere
<1>6. FoundSoFar' /\ DevicesBehind'
  <2>1. pc' # "device" /\ pc' \notin {"start", "group"} /\ ~InDevice' /\ ~InDevice
    BY <1>1 DEF InDevice
  <2>2. FoundSoFar'
    BY <1>1, <2>1, SameOptions, SameContainers DEF ListingInv, FoundSoFar
  <2>3. DevicesBehind'
    BY <1>1, <2>1, SameOptions DEF ListingInv, DevicesBehind, driverVars
  <2> QED
    BY <2>2, <2>3
<1> QED
    BY <1>2, <1>3, <1>4, <1>5, <1>6 DEF ListingInv

LEMMA StartInv ==
    ASSUME ListingInv, Start, UNCHANGED others
    PROVE  ListingInv'
<1>1. /\ pc = "start" /\ DOMAIN jc = {} /\ pc' \in {"device", "done"}
      /\ UNCHANGED <<driverVars, gid, opt, di, k, jc, jdevices, groupNum, moved, others>>
    BY DEF Start, Exit, ListingInv, Whereabouts
<1>2. /\ pc' = "done" => rc' = -EINVAL /\ UNCHANGED <<found, cached>>
      /\ pc' = "device" => found' = ~Filtered /\ UNCHANGED rc
    BY DEF Start, Exit
<1>3. /\ cached' \in [Part -> Int]
      /\ \A x \in Part : cached'[x] \in {cached[x], gid[x]}
  <2>1. /\ gid \in [Part -> Int] /\ cached \in [Part -> Int]
    BY DEF ListingInv, TypeOK
  <2>2. \/ cached' = cached
        \/ cached' = [x \in Part |-> IF Home(x) = Home(Wanted) THEN gid[x] ELSE cached[x]]
    BY DEF Start
  <2> QED
    BY <2>1, <2>2
<1>4. TypeOK'
  <2>1. DriverTypeOK'
    BY <1>1 DEF ListingInv, TypeOK, DriverTypeOK, driverVars
  <2>2. found' \in BOOLEAN /\ rc' \in {0, -EIO, -EINVAL}
    BY <1>1, <1>2 DEF ListingInv, TypeOK
  <2>3. pc' \in {"start", "device", "group", "wq", "engine", "display", "done"}
    BY <1>1
  <2> QED
    BY <1>1, <1>3, <2>1, <2>2, <2>3, Zenon DEF ListingInv, TypeOK
<1>5. GroupIds' /\ Arrays'
    BY <1>1, <1>3, Scans
<1>6. Whereabouts' /\ Slots'
    BY <1>1, <1>2 DEF ListingInv, Whereabouts, Slots, InDevice, EINVAL
<1>7. WqsBehind'
    BY <1>1 DEF WqsBehind
<1>8. FoundSoFar'
  <2>1. ~(Filtered /\ found')
    BY <1>1, <1>2 DEF ListingInv, Whereabouts
  <2> QED
    BY <1>1, <2>1, SameOptions, Filters DEF FoundSoFar
<1>9. DevicesBehind'
  <2>1. \A n \in DOMAIN DeviceSeq : ~(n < di)
    <3>1. di = 1
      BY <1>1 DEF ListingInv, Whereabouts
    <3>2. DOMAIN DeviceSeq \subseteq Nat \ {0}
      BY ListingAssumption
    <3> QED
      BY <3>1, <3>2
  <2> QED
    BY <1>1, <2>1 DEF DevicesBehind, InDevice
<1> QED
    BY <1>4, <1>5, <1>6, <1>7, <1>8, <1>9 DEF ListingInv

\* With the last group all slots are filled.
LEMMA FillingDone ==
    ASSUME NEW d \in Device, Filling(d), k = MaxGroups[d] + 1, groupNum \in Nat
    PROVE  Filled(d)
<1> DEFINE M == MaxGroups[d]
           s == SlotOf(d)
           j(i) == i - s + (IF i < s THEN M ELSE 0)
<1>1. M \in Nat \ {0} /\ s \in 0..(M - 1) /\ Slot(d) = 0..(M - 1)
  <2>1. M \in Nat \ {0}
    BY ListingAssumption
  <2>2. s = groupNum % M /\ Slot(d) = 0..(M - 1)
    BY DEF SlotOf, Slot
  <2> HIDE DEF M, s
  <2>3. groupNum % M \in 0..(M - 1)
    BY <2>1, NextSlot, Zenon
  <2> QED
    BY <2>1, <2>2, <2>3
<1> HIDE DEF M, s
<1>2. ASSUME NEW i \in Slot(d)
      PROVE  /\ j(i) \in Slot(d) /\ jc[d].ids[i] = j(i)
             /\ jc[d].at[i] = GroupSeq[d][j(i) + 1]
  <2>1. j(i) \in Slot(d)
    BY <1>1
  <2>2. j(i) = k - 1 - s + i - (IF i < s THEN 0 ELSE M) /\ j(i) >= 0
    <3>1. k = M + 1
      BY DEF M
    <3>2. i \in 0..(M - 1)
      BY <1>1
    <3> QED
      BY <1>1, <3>1, <3>2
  <2> QED
    BY <2>1, <2>2 DEF Filling, M, s
<1>3. \A i \in Slot(d) : jc[d].at[i] # NoGroup /\ IdOf(d, jc[d].at[i]) = jc[d].ids[i]
  <2>1. \A n \in Slot(d) : IdOf(d, GroupSeq[d][n + 1]) = n /\ GroupSeq[d][n + 1] # NoGroup
    BY Constants, ListingAssumption
  <2> QED
    BY <1>2, <2>1
<1>4. \A i, m \in Slot(d) : jc[d].ids[i] = jc[d].ids[m] => i = m
  <2> SUFFICES ASSUME NEW i \in Slot(d), NEW m \in Slot(d), j(i) = j(m)
               PROVE  i = m
    BY <1>2
  <2> QED
    BY <1>1
<1>5. \A n \in Slot(d) : \E i \in Slot(d) : jc[d].ids[i] = n
  <2> SUFFICES ASSUME NEW n \in Slot(d)
               PROVE  \E i \in Slot(d) : jc[d].ids[i] = n
    OBVIOUS
  <2> DEFINE i == n + s - (IF n + s < M THEN 0 ELSE M)
  <2>1. i \in Slot(d) /\ j(i) = n
    BY <1>1
  <2>2. jc[d].ids[i] = j(i)
    BY <1>2, <2>1
  <2> QED
    BY <2>1, <2>2
<1> QED
    BY <1>3, <1>4, <1>5 DEF Filled

LEMMA GroupsDoneInv ==
    ASSUME ListingInv, GroupsDone, UNCHANGED others
    PROVE  ListingInv'
<1>1. /\ pc = "group" /\ k > Len(GroupSeq[dev]) /\ pc' = "wq" /\ k' = 1
      /\ cached' = [x \in Part |-> IF x \in Range(WqSeq[dev]) /\ ~FilterBy("wq")
                                   THEN gid[x] ELSE cached[x]]
      /\ UNCHANGED <<driverVars, gid, opt, di, jc, jdevices, groupNum, found, rc, moved,
                     others>>
    BY DEF GroupsDone
<1>2. dev \in DOMAIN jc /\ dev \in Device /\ dev' = dev
    BY <1>1 DEF ListingInv, Whereabouts, InDevice, TypeOK, dev
<1>3. TypeOK'
  <2>1. DriverTypeOK'
    BY <1>1 DEF ListingInv, TypeOK, DriverTypeOK, driverVars
  <2>2. cached' \in [Part -> Int]
    BY <1>1 DEF ListingInv, TypeOK
  <2>3. k' \in Nat \ {0} /\ pc' \in {"start", "device", "group", "wq", "engine", "display", "done"}
    BY <1>1
  <2> QED
    BY <1>1, <2>1, <2>2, <2>3, Zenon DEF ListingInv, TypeOK
<1>4. ~FilterBy("group") => Filling(dev)
    BY <1>1, <1>2 DEF ListingInv, Slots
<1>5. GroupIds' /\ Arrays'
  <2>1. \A x \in Part : cached'[x] \in {cached[x], gid[x]}
    BY <1>1
  <2>2. ASSUME ~FilterBy("group"), NEW d \in DOMAIN jc, NEW x \in Part, Listed(d, x)
        PROVE  cached'[x] = cached[x]
    <3>1. SUFFICES x \notin Range(WqSeq[dev])
      BY <1>1
    <3>2. SUFFICES ASSUME x \in Wq, DevOf[x] = dev
                   PROVE  FALSE
      BY <1>2, Constants
    <3>3. d = dev
      BY <2>2, <3>2 DEF ListingInv, Arrays
    <3> QED
      BY <1>4, <2>2, <3>3, RangeEmpty DEF Filling, Listed, InArray, Loose
  <2> QED
    BY <1>1, <2>1, <2>2, Scans
<1>6. Whereabouts'
    BY <1>1, <1>2, SameOptions DEF ListingInv, Whereabouts, InDevice
<1>7. Slots'
  <2>1. ASSUME ~FilterBy("group")
        PROVE  Filled(dev)
    <3>1. k = MaxGroups[dev] + 1 /\ groupNum \in Nat
      <4>1. /\ k \in Nat /\ groupNum \in Nat /\ k <= MaxGroups[dev] + 1
            /\ MaxGroups[dev] \in Nat /\ Len(GroupSeq[dev]) = MaxGroups[dev]
        BY <1>1, <1>2, Constants DEF ListingInv, TypeOK, Whereabouts
      <4> QED
        BY <1>1, <4>1
    <3> QED
      BY <1>2, <1>4, <2>1, <3>1, FillingDone
  <2> QED
    BY <1>1, <2>1, SameOptions, SameContainers DEF ListingInv, Slots
<1>8. WqsBehind'
  <2>1. \A w : Active(w)' <=> Active(w)
    BY <1>1, SameOptions DEF Active, driverVars
  <2>2. \A n \in DOMAIN WqSeq[dev] : ~(n < 1)
    <3>1. WqSeq[dev] \in Seq(Wq)
      BY <1>2, ListingAssumption
    <3> QED
      BY <3>1
  <2> QED
    BY <1>1, <1>2, <2>1, <2>2, SameOptions, SameContainers DEF ListingInv, WqsBehind
<1>9. FoundSoFar' /\ DevicesBehind'
  <2>1. DevicesBehind'
    BY <1>1, SameOptions DEF ListingInv, DevicesBehind, driverVars, InDevice
  <2>2. FoundSoFar'
    BY <1>1, SameOptions DEF ListingInv, FoundSoFar
  <2> QED
    BY <2>1, <2>2
<1> QED
    BY <1>3, <1>5, <1>6, <1>7, <1>8, <1>9 DEF ListingInv

LEMMA WqsDoneInv ==
    ASSUME ListingInv, WqsDone, UNCHANGED others
    PROVE  ListingInv'
<1>1. /\ pc = "wq" /\ k > Len(WqSeq[dev]) /\ pc' = "engine" /\ k' = 1
      /\ cached' = [x \in Part |-> IF x \in Range(EngineSeq[dev]) /\ ~FilterBy("engine")
                                   THEN gid[x] ELSE cached[x]]
      /\ UNCHANGED <<driverVars, gid, opt, di, jc, jdevices, groupNum, found, rc, moved,
                     others>>
    BY DEF WqsDone
<1>2. dev \in DOMAIN jc /\ dev \in Device /\ dev' = dev
    BY <1>1 DEF ListingInv, Whereabouts, InDevice, TypeOK, dev
<1>3. TypeOK'
  <2>1. DriverTypeOK'
    BY <1>1 DEF ListingInv, TypeOK, DriverTypeOK, driverVars
  <2>2. cached' \in [Part -> Int]
    BY <1>1 DEF ListingInv, TypeOK
  <2>3. k' \in Nat \ {0} /\ pc' \in {"start", "device", "group", "wq", "engine", "display", "done"}
    BY <1>1
  <2> QED
    BY <1>1, <2>1, <2>2, <2>3, Zenon DEF ListingInv, TypeOK
<1>4. GroupIds' /\ Arrays'
  <2>1. \A x \in Part : cached'[x] = cached[x]
    <3> SUFFICES ASSUME NEW x \in Part, x \in Range(EngineSeq[dev])
                 PROVE  gid[x] = cached[x]
      BY <1>1
    <3>1. x \notin Wq
      <4>1. EngineSeq[dev] \in Seq(Engine)
        BY <1>2, ListingAssumption
      <4>2. Range(EngineSeq[dev]) \subseteq Engine
        BY <4>1 DEF Range
      <4> QED
        BY <4>2, ListingAssumption
    <3> QED
      BY <3>1 DEF ListingInv, GroupIds
  <2> QED
    BY <1>1, <2>1, Scans
<1>5. Whereabouts'
    BY <1>1, <1>2, SameOptions DEF ListingInv, Whereabouts, InDevice
<1>6. Slots'
    BY <1>1, SameOptions, SameContainers DEF ListingInv, Slots
<1>7. WqsBehind'
  <2>1. \A w : Active(w)' <=> Active(w)
    BY <1>1, SameOptions DEF Active, driverVars
  <2>2. \A n \in DOMAIN WqSeq[dev] : n < k
    <3>1. WqSeq[dev] \in Seq(Wq) /\ k \in Nat
      BY <1>2, ListingAssumption DEF ListingInv, TypeOK
    <3> QED
      BY <1>1, <3>1
  <2> QED
    BY <1>1, <1>2, <2>1, <2>2, SameOptions, SameContainers DEF ListingInv, WqsBehind
<1>8. DevicesBehind'
    BY <1>1, SameOptions DEF ListingInv, DevicesBehind, driverVars, InDevice
<1>9. FoundSoFar'
    BY <1>1, SameOptions, SameContainers DEF ListingInv, FoundSoFar
<1> QED
    BY <1>3, <1>4, <1>5, <1>6, <1>7, <1>8, <1>9 DEF ListingInv

LEMMA DeviceDoneInv ==
    ASSUME ListingInv, DeviceDone, UNCHANGED others
    PROVE  ListingInv'
<1>1. /\ pc = "engine" /\ pc' = "device"
      /\ di' = IF Filtered THEN Len(DeviceSeq) + 1 ELSE di + 1
      /\ UNCHANGED <<driverVars, gid, opt, k, cached, jc, jdevices, groupNum, found, rc, moved,
                     others>>
    BY DEF DeviceDone
<1>2. /\ di \in Nat \ {0} /\ di <= Len(DeviceSeq) /\ Len(DeviceSeq) \in Nat
      /\ DOMAIN DeviceSeq = 1..Len(DeviceSeq)
  <2>1. Len(DeviceSeq) \in Nat /\ DOMAIN DeviceSeq = 1..Len(DeviceSeq)
    BY ListingAssumption
  <2>2. di \in 1..(Len(DeviceSeq) + 1) /\ di <= Len(DeviceSeq)
    BY <1>1 DEF ListingInv, TypeOK, Whereabouts, InDevice
  <2> QED
    BY <2>1, <2>2
<1>3. di' \in 1..(Len(DeviceSeq) + 1) /\ di < di'
    BY <1>1, <1>2
<1>4. TypeOK'
  <2>1. DriverTypeOK'
    BY <1>1 DEF ListingInv, TypeOK, DriverTypeOK, driverVars
  <2>2. pc' \in {"start", "device", "group", "wq", "engine", "display", "done"}
    BY <1>1
  <2> QED
    BY <1>1, <1>3, <2>1, <2>2, Zenon DEF ListingInv, TypeOK
<1>5. GroupIds' /\ Arrays'
    BY <1>1, Scans
<1>6. Whereabouts'
  <2>1. \A d \in DOMAIN jc : \E n \in DOMAIN DeviceSeq :
          DeviceSeq[n] = d /\ n <= di' /\ n # di'
    <3>1. \A n \in DOMAIN DeviceSeq : n <= di => n <= di' /\ n # di'
      BY <1>2, <1>3
    <3> QED
      BY <3>1 DEF ListingInv, Whereabouts
  <2> QED
    BY <1>1, <1>3, <2>1 DEF Whereabouts, InDevice
<1>7. Slots' /\ WqsBehind'
    BY <1>1, Elsewhere
<1>8. FoundSoFar'
  <2>1. Filtered => di' > Len(DeviceSeq)
    BY <1>1, <1>2
  <2> QED
    BY <1>1, <2>1, SameOptions, SameContainers DEF ListingInv, FoundSoFar
<1>9. DevicesBehind'
  <2>1. ASSUME ~Filtered, NEW n \in DOMAIN DeviceSeq, n < di'
        PROVE  n < di \/ (n = di /\ InDevice)
    BY <1>1, <1>2, <2>1 DEF InDevice
  <2> QED
    BY <1>1, <2>1, SameOptions DEF ListingInv, DevicesBehind, driverVars, InDevice
<1> QED
    BY <1>4, <1>5, <1>6, <1>7, <1>8, <1>9 DEF ListingInv

\* A container that stays what it is, and one with other arrays.
LEMMA SameContainer ==
    ASSUME NEW d, jc'[d] = jc[d]
    PROVE  /\ Filled(d)' <=> Filled(d)
           /\ \A i : InArray(d, i)' = InArray(d, i)
           /\ Loose(d)' = Loose(d)
           /\ \A x : Listed(d, x)' <=> Listed(d, x)
    BY DEF Filled, InArray, Loose, Listed

LEMMA VisitDeviceInv ==
    ASSUME ListingInv, VisitDevice, UNCHANGED others
    PROVE  ListingInv'
<1>1. /\ pc = "device" /\ di <= Len(DeviceSeq)
      /\ Filtered => Home(Wanted) = dev
      /\ opt.cmd = "load" \/ Idle \/ devState[dev] = "enabled"
      /\ jc' = [d \in DOMAIN jc \cup {dev} |-> IF d = dev THEN Fresh(d) ELSE jc[d]]
      /\ jdevices' = Append(jdevices, dev)
      /\ found' = (found \/ FilterBy("device"))
      /\ pc' = "group" /\ k' = 1
      /\ UNCHANGED <<driverVars, gid, opt, di, cached, groupNum, rc, moved, others>>
    BY DEF VisitDevice
<1>2. /\ di \in Nat \ {0} /\ Len(DeviceSeq) \in Nat /\ DOMAIN DeviceSeq = 1..Len(DeviceSeq)
  <2>1. Len(DeviceSeq) \in Nat /\ DOMAIN DeviceSeq = 1..Len(DeviceSeq)
    BY ListingAssumption
  <2>2. di \in 1..(Len(DeviceSeq) + 1)
    BY DEF ListingInv, TypeOK
  <2> QED
    BY <2>1, <2>2
<1>3. /\ dev \in Device /\ di \in DOMAIN DeviceSeq /\ dev' = dev
      /\ \A n \in DOMAIN DeviceSeq : DeviceSeq[n] = dev => n = di
    BY <1>1, <1>2, AtDevice DEF dev
<1>4. /\ DOMAIN jc' = DOMAIN jc \cup {dev} /\ jc'[dev] = Fresh(dev)
      /\ \A d \in DOMAIN jc : d # dev => jc'[d] = jc[d]
    BY <1>1
<1>5. MaxGroups[dev] \in Nat \ {0} /\ Slot(dev) = 0..(MaxGroups[dev] - 1)
    BY <1>3, ListingAssumption DEF Slot
<1>6. TypeOK'
  <2>1. Fresh(dev) \in Container(dev)
    BY DEF Fresh, Container
  <2>2. /\ DOMAIN jc' \subseteq Device
        /\ \A d \in DOMAIN jc' : jc'[d] \in Container(d)
    BY <1>3, <1>4, <2>1 DEF ListingInv, TypeOK
  <2>3. DriverTypeOK'
    BY <1>1 DEF ListingInv, TypeOK, DriverTypeOK, driverVars
  <2>4. k' \in Nat \ {0} /\ pc' \in {"start", "device", "group", "wq", "engine", "display", "done"}
    BY <1>1
  <2>5. jdevices' \in Seq(Device)
    <3>1. jdevices \in Seq(Device)
      BY DEF ListingInv, TypeOK
    <3> QED
      BY <1>1, <1>3, <3>1
  <2>6. found' \in BOOLEAN
    BY <1>1, Zenon
  <2> QED
    BY <1>1, <2>2, <2>3, <2>4, <2>5, <2>6, Zenon DEF ListingInv, TypeOK
<1>7. Whereabouts'
  <2>1. \A d \in DOMAIN jc' : \E n \in DOMAIN DeviceSeq : DeviceSeq[n] = d /\ n <= di
    BY <1>2, <1>3, <1>4 DEF ListingInv, Whereabouts, dev
  <2>2. k' <= MaxGroups[dev] + 1
    BY <1>1, <1>5
  <2> QED
    BY <1>1, <1>3, <1>4, <2>1, <2>2, SameOptions DEF Whereabouts, InDevice
<1>8. GroupIds'
    BY <1>1 DEF ListingInv, GroupIds, Bound, driverVars
<1>9. /\ Filling(dev)' /\ Loose(dev)' = {}
      /\ \A i \in Slot(dev) : InArray(dev, i)' = {}
  <2>1. /\ jc'[dev].looseWq = <<>> /\ jc'[dev].looseEngine = <<>>
        /\ \A i \in Slot(dev) : jc'[dev].wq[i] = <<>> /\ jc'[dev].engine[i] = <<>>
    BY <1>4 DEF Fresh
  <2>2. Loose(dev)' = {} /\ \A i \in Slot(dev) : InArray(dev, i)' = {}
    BY <1>3, <2>1, RangeEmpty DEF Loose, InArray
  <2> DEFINE s == groupNum % MaxGroups[dev]
  <2>3. s \in 0..(MaxGroups[dev] - 1) /\ SlotOf(dev)' = s
    <3>1. s \in 0..(MaxGroups[dev] - 1)
      BY <1>5, NextSlot, Zenon DEF ListingInv, TypeOK
    <3> QED
      BY <1>1, <1>3, <3>1 DEF SlotOf
  <2> HIDE DEF s
  <2>4. \A i \in Slot(dev) : k' - 1 - s + i - (IF i < s THEN 0 ELSE MaxGroups[dev]) < 0
    BY <1>1, <1>5, <2>3
  <2>5. \A i \in Slot(dev) : ~(k' - 1 - s + i - (IF i < s THEN 0 ELSE MaxGroups[dev]) >= 0)
    BY <1>1, <1>5, <2>3
  <2> QED
    BY <1>3, <2>1, <2>2, <2>3, <2>5 DEF Filling
<1>10. Slots'
  <2> SUFFICES ASSUME ~FilterBy("group"), NEW d \in DOMAIN jc, d # dev
               PROVE  Filled(d)'
    BY <1>1, <1>3, <1>4, <1>9, SameOptions DEF Slots
  <2> QED
    BY <1>1, <1>4, SameContainer DEF ListingInv, Slots
<1>11. \A x : ~Listed(dev, x)'
    BY <1>3, <1>9 DEF Listed
<1>12. Arrays'
  <2> SUFFICES ASSUME ~FilterBy("group"), NEW d \in DOMAIN jc, d # dev
               PROVE  /\ \A i \in Slot(d) : \A x \in InArray(d, i)' : jc'[d].ids[i] = cached[x]
                      /\ \A x \in Loose(d)' : \A i \in Slot(d) : jc'[d].ids[i] # cached[x]
                      /\ \A w \in Wq : Listed(d, w)' => DevOf[w] = d
    BY <1>1, <1>3, <1>4, <1>9, <1>11, SameOptions DEF Arrays
  <2>1. jc'[d] = jc[d]
    BY <1>4
  <2> QED
    BY <2>1, SameContainer DEF ListingInv, Arrays
<1>13. WqsBehind'
  <2>1. \A w : Active(w)' <=> Active(w)
    BY <1>1, SameOptions DEF Active, driverVars
  <2> SUFFICES ASSUME ~Filtered, NEW d \in DOMAIN jc, d # dev
               PROVE  /\ \A w \in Wq \ moved : Listed(d, w)' => Active(w)
                      /\ \A n \in DOMAIN WqSeq[d] :
                           WqSeq[d][n] \notin moved /\ Active(WqSeq[d][n])
                             => Listed(d, WqSeq[d][n])'
    BY <1>1, <1>3, <1>4, <1>11, <2>1, SameOptions DEF WqsBehind
  <2>2. jc'[d] = jc[d]
    BY <1>4
  <2> QED
    BY <1>1, <2>2, SameContainer DEF ListingInv, WqsBehind
<1>14. FoundSoFar'
  <2>1. ~(Filtered /\ found)
    BY <1>1, <1>2 DEF ListingInv, FoundSoFar
  <2>2. FilterBy("wq") \/ FilterBy("engine") => ~found'
    BY <1>1, <2>1, Filters
  <2> QED
    BY <1>1, <2>2, SameOptions DEF FoundSoFar
<1>15. DevicesBehind'
  <2> SUFFICES ASSUME ~Filtered, opt.cmd # "load", NEW n \in DOMAIN DeviceSeq,
                      n < di \/ n = di, DeviceSeq[n] \notin moved
               PROVE  DeviceSeq[n] \in DOMAIN jc' <=> Idle \/ devState[DeviceSeq[n]] = "enabled"
    BY <1>1, SameOptions DEF DevicesBehind, driverVars, InDevice
  <2>1. CASE n = di
    BY <1>1, <1>4, <2>1 DEF dev
  <2>2. CASE n < di
    <3>1. DeviceSeq[n] # dev
      BY <1>2, <1>3, <2>2
    <3> QED
      BY <1>4, <2>2, <3>1 DEF ListingInv, DevicesBehind
  <2> QED
    BY <2>1, <2>2
<1> QED
    BY <1>6, <1>7, <1>8, <1>10, <1>12, <1>13, <1>14, <1>15 DEF ListingInv

\* The next group takes the next slot.
LEMMA OneMoreSlot ==
    ASSUME NEW d \in Device, jc[d] \in Container(d), Filling(d), groupNum \in Nat,
           k \in Nat \ {0}, k <= MaxGroups[d],
           jc'[d].ids = [jc[d].ids EXCEPT ![SlotOf(d)] = k - 1],
           jc'[d].at = [jc[d].at EXCEPT ![SlotOf(d)] = GroupSeq[d][k]],
           jc'[d].wq = jc[d].wq, jc'[d].engine = jc[d].engine,
           jc'[d].looseWq = jc[d].looseWq, jc'[d].looseEngine = jc[d].looseEngine,
           groupNum' = groupNum + 1, k' = k + 1
    PROVE  Filling(d)'
<1> DEFINE M == MaxGroups[d]
           s == groupNum % M
           t == (groupNum + 1) % M
           j(i) == k - 1 - s + i - (IF i < s THEN 0 ELSE M)
           h(i) == k - t + i - (IF i < t THEN 0 ELSE M)
<1>1. M \in Nat \ {0} /\ Slot(d) = 0..(M - 1)
    BY ListingAssumption DEF Slot
<1>2. SlotOf(d) = s /\ SlotOf(d)' = t
    BY DEF SlotOf
<1>3. s \in 0..(M - 1) /\ t = IF s = M - 1 THEN 0 ELSE s + 1
  <2> HIDE DEF M
  <2> QED
    BY <1>1, NextSlot, Zenon
<1>4. /\ jc[d].ids \in [Slot(d) -> Nat] /\ jc[d].at \in [Slot(d) -> Group \cup {NoGroup}]
    BY DEF Container
<1>5. k <= M
    BY DEF M
<1>6. \A i \in Slot(d) : j(i) >= 0 => jc[d].ids[i] = j(i) /\ jc[d].at[i] = GroupSeq[d][j(i) + 1]
    BY <1>2 DEF Filling
<1> HIDE DEF M, s, t
<1>7. ASSUME NEW i \in Slot(d), h(i) >= 0
      PROVE  jc'[d].ids[i] = h(i) /\ jc'[d].at[i] = GroupSeq[d][h(i) + 1]
  <2>1. CASE i = s
    <3>1. h(i) = k - 1
      BY <1>1, <1>3, <1>5, <2>1
    <3>2. h(i) + 1 = k
      BY <3>1
    <3> QED
      BY <1>2, <1>4, <2>1, <3>1, <3>2
  <2>2. CASE i # s
    <3>1. h(i) = j(i)
      BY <1>1, <1>3, <1>5, <1>7, <2>2
    <3>2. jc'[d].ids[i] = jc[d].ids[i] /\ jc'[d].at[i] = jc[d].at[i]
      BY <1>2, <1>4, <2>2
    <3> QED
      BY <1>6, <1>7, <3>1, <3>2
  <2> QED
    BY <2>1, <2>2
<1>8. \A i \in Slot(d) : k' - 1 - t + i - (IF i < t THEN 0 ELSE M) = h(i)
  <2>1. k' - 1 = k
    OBVIOUS
  <2> QED
    BY <2>1
<1> QED
    BY <1>2, <1>7, <1>8 DEF Filling, M

LEMMA VisitGroupInv ==
    ASSUME ListingInv, VisitGroup, UNCHANGED others
    PROVE  ListingInv'
<1> DEFINE g == GroupSeq[dev][k]
           i == SlotOf(dev)
           past == FilterBy("group") /\ Wanted # g
<1>1. /\ pc = "group" /\ k <= Len(GroupSeq[dev])
      /\ UNCHANGED <<driverVars, gid, opt, pc, di, cached, jdevices, rc, moved, others>>
    BY DEF VisitGroup
<1>2. IF past THEN k' = k + 1 /\ UNCHANGED <<jc, groupNum, found>>
      ELSE /\ jc' = [jc EXCEPT ![dev].ids[i] = IdOf(dev, g),
                               ![dev].at[i] = g,
                               ![dev].groups = Append(@, g)]
           /\ groupNum' = groupNum + 1
           /\ k' = IF FilterBy("group") THEN Len(GroupSeq[dev]) + 1 ELSE k + 1
           /\ found' = (found \/ FilterBy("group"))
    BY DEF VisitGroup
<1>3. dev \in DOMAIN jc /\ dev \in Device /\ dev' = dev
    BY <1>1 DEF ListingInv, Whereabouts, InDevice, TypeOK, dev
<1>4. /\ MaxGroups[dev] \in Nat \ {0} /\ Len(GroupSeq[dev]) = MaxGroups[dev]
      /\ k \in Nat \ {0} /\ groupNum \in Nat /\ jc[dev] \in Container(dev)
    BY <1>3, Constants DEF ListingInv, TypeOK
<1>5. g \in Group /\ IdOf(dev, g) = k - 1 /\ k - 1 \in Nat
  <2>1. k - 1 \in Slot(dev) /\ k - 1 + 1 = k
    BY <1>1, <1>4 DEF Slot
  <2>2. /\ IdOf(dev, GroupSeq[dev][(k - 1) + 1]) = k - 1
        /\ GroupSeq[dev][(k - 1) + 1] \in Group
    BY <1>3, <2>1, Constants
  <2> QED
    BY <1>4, <2>1, <2>2
<1>6. i \in Slot(dev)
  <2>1. groupNum % MaxGroups[dev] \in 0..(MaxGroups[dev] - 1)
    BY <1>4, NextSlot, Zenon
  <2> QED
    BY <2>1 DEF SlotOf, Slot
<1> HIDE DEF g, i, past
<1>7. k' \in Nat \ {0} /\ k' <= MaxGroups[dev] + 1 /\ groupNum' \in Nat
    BY <1>1, <1>2, <1>4
<1>8. found' = (found \/ FilterBy("group")) \/ found' = found
    BY <1>2
<1>9. /\ DOMAIN jc' = DOMAIN jc
      /\ \A d \in DOMAIN jc : d # dev => jc'[d] = jc[d]
      /\ jc'[dev] \in Container(dev)
      /\ jc'[dev].wq = jc[dev].wq /\ jc'[dev].engine = jc[dev].engine
      /\ jc'[dev].looseWq = jc[dev].looseWq /\ jc'[dev].looseEngine = jc[dev].looseEngine
      /\ ~past => /\ jc'[dev].ids = [jc[dev].ids EXCEPT ![i] = k - 1]
                  /\ jc'[dev].at = [jc[dev].at EXCEPT ![i] = g]
  <2>1. CASE past
    BY <1>2, <1>4, <2>1
  <2>2. CASE ~past
    <3> DEFINE x == jc[dev]
               nids == [x.ids EXCEPT ![i] = k - 1]
               nat == [x.at EXCEPT ![i] = g]
               ngr == Append(x.groups, g)
               c == [x EXCEPT !.ids = nids, !.at = nat, !.groups = ngr]
               c0 == [x EXCEPT !.ids[i] = k - 1, !.at[i] = g, !.groups = Append(@, g)]
    <3>1. jc' = [jc EXCEPT ![dev] = c0]
      BY <1>2, <1>5, <2>2
    <3>2. c0 = c
      BY <1>4 DEF Container
    <3> HIDE DEF c0
    <3>3. /\ nids \in [Slot(dev) -> Nat] /\ nat \in [Slot(dev) -> Group \cup {NoGroup}]
          /\ ngr \in Seq(Group)
      <4>1. /\ x.ids \in [Slot(dev) -> Nat] /\ x.at \in [Slot(dev) -> Group \cup {NoGroup}]
            /\ x.groups \in Seq(Group)
        BY <1>4 DEF Container
      <4> HIDE DEF x
      <4> QED
        BY <1>5, <1>6, <4>1
    <3> HIDE DEF nids, nat, ngr
    <3>4. /\ c \in Container(dev) /\ c.wq = jc[dev].wq /\ c.engine = jc[dev].engine
          /\ c.looseWq = jc[dev].looseWq /\ c.looseEngine = jc[dev].looseEngine
          /\ c.ids = nids /\ c.at = nat
      BY <1>4, <3>3 DEF Container
    <3> HIDE DEF c
    <3> QED
      BY <1>3, <3>1, <3>2, <3>4 DEF nids, nat
  <2> QED
    BY <2>1, <2>2
<1>10. TypeOK'
  <2>1. DriverTypeOK'
    BY <1>1 DEF ListingInv, TypeOK, DriverTypeOK, driverVars
  <2>2. /\ DOMAIN jc' \subseteq Device
        /\ \A d \in DOMAIN jc' : jc'[d] \in Container(d)
    BY <1>9 DEF ListingInv, TypeOK
  <2>3. found' \in BOOLEAN
    BY <1>8, Zenon DEF ListingInv, TypeOK
  <2> QED
    BY <1>1, <1>7, <2>1, <2>2, <2>3, Zenon DEF ListingInv, TypeOK
<1>11. Whereabouts'
    BY <1>1, <1>3, <1>7, <1>9, SameOptions DEF ListingInv, Whereabouts, InDevice
<1>12. GroupIds'
    BY <1>1 DEF ListingInv, GroupIds, Bound, driverVars
<1>13. \A d \in DOMAIN jc : /\ \A j : InArray(d, j)' = InArray(d, j)
                            /\ Loose(d)' = Loose(d)
                            /\ \A x : Listed(d, x)' <=> Listed(d, x)
  <2>1. ASSUME NEW d \in DOMAIN jc
        PROVE  (\A j : InArray(d, j)' = InArray(d, j)) /\ Loose(d)' = Loose(d)
    <3>1. CASE d = dev
      BY <1>3, <1>9, <3>1 DEF InArray, Loose
    <3>2. CASE d # dev
      BY <1>9, <3>2 DEF InArray, Loose
    <3> QED
      BY <3>1, <3>2
  <2> QED
    BY <2>1 DEF Listed
<1>14. ASSUME ~FilterBy("group")
       PROVE  Filling(dev) /\ Filling(dev)'
  <2>1. Filling(dev)
    BY <1>1, <1>3, <1>14 DEF ListingInv, Slots
  <2>2. ~past /\ k' = k + 1 /\ groupNum' = groupNum + 1 /\ k <= MaxGroups[dev]
    BY <1>1, <1>2, <1>4, <1>14 DEF past
  <2>3. Filling(dev)'
    BY <1>3, <1>4, <1>9, <2>1, <2>2, OneMoreSlot DEF i, g
  <2> QED
    BY <2>1, <2>3
<1>15. Slots'
  <2> SUFFICES ASSUME ~FilterBy("group"), NEW d \in DOMAIN jc, d # dev
               PROVE  Filled(d)'
    BY <1>1, <1>3, <1>9, <1>14, SameOptions DEF Slots
  <2> QED
    BY <1>1, <1>9, SameContainer DEF ListingInv, Slots
<1>16. Arrays'
  <2> SUFFICES ASSUME ~FilterBy("group"), NEW d \in DOMAIN jc
               PROVE  /\ \A j \in Slot(d) : \A x \in InArray(d, j) : jc'[d].ids[j] = cached[x]
                      /\ \A x \in Loose(d) : \A j \in Slot(d) : jc'[d].ids[j] # cached[x]
                      /\ \A w \in Wq : Listed(d, w) => DevOf[w] = d
    BY <1>1, <1>9, <1>13, SameOptions DEF Arrays
  <2>1. CASE d = dev
    <3>1. Loose(dev) = {} /\ \A j \in Slot(dev) : InArray(dev, j) = {}
      BY <1>14, RangeEmpty DEF Filling, Loose, InArray
    <3> QED
      BY <2>1, <3>1 DEF Listed
  <2>2. CASE d # dev
    BY <1>9, <2>2 DEF ListingInv, Arrays
  <2> QED
    BY <2>1, <2>2
<1>17. WqsBehind'
  <2>1. \A w : Active(w)' <=> Active(w)
    BY <1>1, SameOptions DEF Active, driverVars
  <2> QED
    BY <1>1, <1>3, <1>9, <1>13, <2>1, SameOptions DEF ListingInv, WqsBehind
<1>18. FoundSoFar'
  <2>1. FilterBy("wq") \/ FilterBy("engine") => ~found'
    BY <1>1, <1>8, Filters DEF ListingInv, FoundSoFar
  <2> QED
    BY <1>1, <2>1, SameOptions DEF FoundSoFar
<1>19. DevicesBehind'
    BY <1>1, <1>9, SameOptions DEF ListingInv, DevicesBehind, driverVars, InDevice
<1> QED
    BY <1>10, <1>11, <1>12, <1>15, <1>16, <1>17, <1>18, <1>19 DEF ListingInv

\* A wq or engine x goes into the arrays of the slots A, or (with B) among the loose
\* ones.
AddsTo(d, x, A, B) ==
    /\ d \in DOMAIN jc /\ A \in SUBSET Slot(d) /\ B \in SUBSET {x}
    /\ UNCHANGED <<opt, cached, pc, di>> /\ pc # "group"
    /\ DOMAIN jc' = DOMAIN jc /\ \A f \in DOMAIN jc : f # d => jc'[f] = jc[f]
    /\ jc'[d].ids = jc[d].ids /\ jc'[d].at = jc[d].at
    /\ \A i \in Slot(d) : InArray(d, i)' = InArray(d, i) \cup (IF i \in A THEN {x} ELSE {})
    /\ Loose(d)' = Loose(d) \cup B
    /\ \A i \in A : jc[d].ids[i] = cached[x]
    /\ B # {} => \A i \in Slot(d) : jc[d].ids[i] # cached[x]
    /\ x \in Wq => DevOf[x] = d

LEMMA Added ==
    ASSUME ListingInv, NEW d, NEW x, NEW A, NEW B, AddsTo(d, x, A, B)
    PROVE  /\ Slots' /\ Arrays'
           /\ \A f \in DOMAIN jc : \A y :
                Listed(f, y)' <=> Listed(f, y) \/ (f = d /\ y = x /\ (A # {} \/ B # {}))
<1>1. ASSUME NEW f \in DOMAIN jc, f # d
      PROVE  /\ Filled(f)' <=> Filled(f)
             /\ \A i : InArray(f, i)' = InArray(f, i)
             /\ Loose(f)' = Loose(f)
             /\ \A y : Listed(f, y)' <=> Listed(f, y)
    BY <1>1, SameContainer DEF AddsTo
<1>2. Filled(d)' <=> Filled(d)
    BY DEF Filled, AddsTo
<1>3. \A y : Listed(d, y)' <=> Listed(d, y) \/ (y = x /\ (A # {} \/ B # {}))
    BY DEF Listed, AddsTo
<1>4. Slots'
    BY <1>1, <1>2, SameOptions DEF ListingInv, Slots, AddsTo
<1>5. Arrays'
  <2> SUFFICES ASSUME ~FilterBy("group"), NEW f \in DOMAIN jc
               PROVE  /\ \A i \in Slot(f) : \A y \in InArray(f, i)' : jc'[f].ids[i] = cached[y]
                      /\ \A y \in Loose(f)' : \A i \in Slot(f) : jc'[f].ids[i] # cached[y]
                      /\ \A w \in Wq : Listed(f, w)' => DevOf[w] = f
    BY SameOptions DEF Arrays, AddsTo
  <2>1. /\ \A i \in Slot(f) : \A y \in InArray(f, i) : jc[f].ids[i] = cached[y]
        /\ \A y \in Loose(f) : \A i \in Slot(f) : jc[f].ids[i] # cached[y]
        /\ \A w \in Wq : Listed(f, w) => DevOf[w] = f
    BY DEF ListingInv, Arrays
  <2>2. CASE f = d
    BY <1>3, <2>1, <2>2 DEF AddsTo
  <2>3. CASE f # d
    BY <1>1, <2>1, <2>3 DEF AddsTo
  <2> QED
    BY <2>2, <2>3
<1> QED
    BY <1>1, <1>3, <1>4, <1>5

\* An active wq that no other process touched has a group, and the group a slot.
LEMMA HasSlot ==
    ASSUME ListingInv, NEW d \in DOMAIN jc, Filled(d), NEW w \in Wq, w \notin moved,
           DevOf[w] = d, wqState[w] \in {"enabled", "locked"}
    PROVE  SlotsFor(d, w) # {}
<1>1. d \in Device /\ MaxGroups[d] \in Nat
    BY ListingAssumption DEF ListingInv, TypeOK
<1>2. Bound(w)
    BY DriverAssumption DEF Bound
<1>3. gid[w] \in Int /\ gid[w] < MaxGroups[d] /\ gid[w] >= 0 /\ cached[w] = gid[w]
    BY <1>2 DEF ListingInv, TypeOK, GroupIds, Part
<1>4. cached[w] \in Slot(d)
    BY <1>1, <1>3 DEF Slot
<1> QED
    BY <1>4 DEF Filled, SlotsFor

LEMMA VisitWqInv ==
    ASSUME ListingInv, VisitWq, UNCHANGED others
    PROVE  ListingInv'
<1> DEFINE w == WqSeq[dev][k]
           S == SlotsFor(dev, w)
           past == FilterBy("wq") /\ Wanted # w
           adds == ~past /\ Shows(w)
           B == IF adds /\ S = {} /\ Idle THEN {w} ELSE {}
           A == IF adds THEN S ELSE {}
<1>1. /\ pc = "wq" /\ k <= Len(WqSeq[dev])
      /\ UNCHANGED <<driverVars, gid, opt, pc, di, cached, jdevices, groupNum, rc, moved,
                     others>>
    BY DEF VisitWq
<1>2. IF past THEN k' = k + 1 /\ UNCHANGED <<jc, found>>
      ELSE /\ jc' = IF ~Shows(w) THEN jc
                    ELSE [jc EXCEPT
                           ![dev].wq = [i \in Slot(dev) |->
                                          IF i \in S THEN Append(@[i], w) ELSE @[i]],
                           ![dev].looseWq = IF S = {} /\ Idle THEN Append(@, w) ELSE @]
           /\ k' = IF FilterBy("wq") THEN Len(WqSeq[dev]) + 1 ELSE k + 1
           /\ found' = IF FilterBy("wq") THEN Shows(w) ELSE found
    BY DEF VisitWq
<1>3. dev \in DOMAIN jc /\ dev \in Device /\ dev' = dev
    BY <1>1 DEF ListingInv, Whereabouts, InDevice, TypeOK, dev
<1>4. /\ WqSeq[dev] \in Seq(Wq) /\ Len(WqSeq[dev]) \in Nat /\ k \in Nat \ {0}
      /\ k \in DOMAIN WqSeq[dev] /\ DOMAIN WqSeq[dev] = 1..Len(WqSeq[dev])
      /\ jc[dev] \in Container(dev)
  <2>1. WqSeq[dev] \in Seq(Wq) /\ k \in Nat \ {0} /\ jc[dev] \in Container(dev)
    BY <1>3, ListingAssumption DEF ListingInv, TypeOK
  <2>2. Len(WqSeq[dev]) \in Nat /\ DOMAIN WqSeq[dev] = 1..Len(WqSeq[dev])
    BY <2>1
  <2> QED
    BY <1>1, <2>1, <2>2
<1>5. w \in Wq /\ DevOf[w] = dev
  <2>1. w \in Range(WqSeq[dev])
    BY <1>4 DEF Range
  <2> QED
    BY <1>3, <2>1, Constants
<1>6. S \subseteq Slot(dev) /\ \A i \in Slot(dev) : i \in S <=> jc[dev].ids[i] = cached[w]
    BY DEF SlotsFor
<1> HIDE DEF w, S, past
<1>7. k' \in Nat \ {0}
    BY <1>2, <1>4
<1>8. /\ DOMAIN jc' = DOMAIN jc
      /\ \A d \in DOMAIN jc : d # dev => jc'[d] = jc[d]
      /\ jc'[dev] \in Container(dev)
      /\ jc'[dev].ids = jc[dev].ids /\ jc'[dev].at = jc[dev].at
      /\ \A i \in Slot(dev) : InArray(dev, i)' = InArray(dev, i) \cup (IF i \in A THEN {w} ELSE {})
      /\ Loose(dev)' = Loose(dev) \cup B
  <2>1. CASE ~adds
    <3>1. jc' = jc
      BY <1>2, <2>1
    <3> QED
      BY <1>3, <1>4, <2>1, <3>1 DEF InArray, Loose
  <2>2. CASE adds
    <3> DEFINE x == jc[dev]
               nwq == [i \in Slot(dev) |-> IF i \in S THEN Append(x.wq[i], w) ELSE x.wq[i]]
               nloose == IF S = {} /\ Idle THEN Append(x.looseWq, w) ELSE x.looseWq
               c == [x EXCEPT !.wq = nwq, !.looseWq = nloose]
    <3>1. jc' = [jc EXCEPT ![dev] = [x EXCEPT
                   !.wq = [i \in Slot(dev) |-> IF i \in S THEN Append(@[i], w) ELSE @[i]],
                   !.looseWq = IF S = {} /\ Idle THEN Append(@, w) ELSE @]]
      BY <1>2, <2>2
    <3>2. jc' = [jc EXCEPT ![dev] = c]
      BY <1>4, <3>1 DEF Container
    <3>3. /\ \A i \in Slot(dev) : x.wq[i] \in Seq(Wq)
          /\ x.looseWq \in Seq(Wq)
      BY <1>4 DEF Container
    <3>4. /\ nwq \in [Slot(dev) -> Seq(Wq)]
          /\ \A i \in Slot(dev) :
               Range(nwq[i]) = Range(x.wq[i]) \cup (IF i \in S THEN {w} ELSE {})
      <4>1. ASSUME NEW i \in Slot(dev)
            PROVE  /\ nwq[i] \in Seq(Wq)
                   /\ Range(nwq[i]) = Range(x.wq[i]) \cup (IF i \in S THEN {w} ELSE {})
        BY <1>5, <3>3, RangeAppend
      <4> QED
        BY <4>1
    <3>5. /\ nloose \in Seq(Wq)
          /\ Range(nloose) = Range(x.looseWq) \cup (IF S = {} /\ Idle THEN {w} ELSE {})
      BY <1>5, <3>3, RangeAppend
    <3> HIDE DEF nwq, nloose
    <3>6. /\ c \in Container(dev) /\ c.ids = x.ids /\ c.at = x.at /\ c.engine = x.engine
          /\ c.looseEngine = x.looseEngine /\ c.wq = nwq /\ c.looseWq = nloose
      BY <1>4, <3>4, <3>5 DEF Container
    <3> HIDE DEF c
    <3>7. /\ DOMAIN jc' = DOMAIN jc /\ jc'[dev] = c
          /\ \A d \in DOMAIN jc : d # dev => jc'[d] = jc[d]
      BY <1>3, <3>2
    <3>8. \A i \in Slot(dev) : InArray(dev, i)' = InArray(dev, i) \cup (IF i \in A THEN {w} ELSE {})
      BY <1>3, <2>2, <3>4, <3>6, <3>7 DEF InArray
    <3>9. Loose(dev)' = Loose(dev) \cup B
      BY <1>3, <2>2, <3>5, <3>6, <3>7 DEF Loose
    <3> QED
      BY <3>6, <3>7, <3>8, <3>9
  <2> QED
    BY <2>1, <2>2
<1>9. TypeOK'
  <2>1. DriverTypeOK'
    BY <1>1 DEF ListingInv, TypeOK, DriverTypeOK, driverVars
  <2>2. /\ DOMAIN jc' \subseteq Device
        /\ \A d \in DOMAIN jc' : jc'[d] \in Container(d)
    BY <1>8 DEF ListingInv, TypeOK
  <2>3. found' \in BOOLEAN
    BY <1>2, Zenon DEF ListingInv, TypeOK, Shows
  <2> QED
    BY <1>1, <1>7, <2>1, <2>2, <2>3, Zenon DEF ListingInv, TypeOK
<1>10. Whereabouts'
    BY <1>1, <1>3, <1>8, SameOptions DEF ListingInv, Whereabouts, InDevice
<1>11. GroupIds'
    BY <1>1 DEF ListingInv, GroupIds, Bound, driverVars
<1>12. /\ Slots' /\ Arrays'
       /\ \A f \in DOMAIN jc : \A y :
            Listed(f, y)' <=> Listed(f, y) \/ (f = dev /\ y = w /\ (A # {} \/ B # {}))
  <2>1. PICK d, v, T, L : d = dev /\ v = w /\ T = A /\ L = B
    OBVIOUS
  <2>2. d \in DOMAIN jc /\ T \in SUBSET Slot(d) /\ L \in SUBSET {v} /\ (v \in Wq => DevOf[v] = d)
    BY <1>3, <1>5, <1>6, <2>1
  <2>3. /\ \A f \in DOMAIN jc : f # d => jc'[f] = jc[f]
        /\ jc'[d].ids = jc[d].ids /\ jc'[d].at = jc[d].at
        /\ \A i \in Slot(d) : InArray(d, i)' = InArray(d, i) \cup (IF i \in T THEN {v} ELSE {})
        /\ Loose(d)' = Loose(d) \cup L
    BY <1>3, <1>8, <2>1
  <2>4. /\ \A i \in T : jc[d].ids[i] = cached[v]
        /\ L # {} => \A i \in Slot(d) : jc[d].ids[i] # cached[v]
    BY <1>6, <2>1
  <2>5. UNCHANGED <<opt, cached, pc, di>> /\ pc # "group" /\ DOMAIN jc' = DOMAIN jc
    BY <1>1, <1>8
  <2>6. /\ Slots' /\ Arrays'
        /\ \A f \in DOMAIN jc : \A y :
             Listed(f, y)' <=> Listed(f, y) \/ (f = d /\ y = v /\ (T # {} \/ L # {}))
    <3>1. AddsTo(d, v, T, L)
      BY <2>2, <2>3, <2>4, <2>5 DEF AddsTo
    <3> QED
      BY <3>1, Added
  <2> QED
    BY <2>1, <2>6
<1>13. ASSUME ~FilterBy("group"), w \notin moved, Shows(w), ~past
       PROVE  A # {} \/ B # {}
  <2>1. Filled(dev)
    BY <1>1, <1>3, <1>13 DEF ListingInv, Slots
  <2>2. Idle \/ S # {}
    BY <1>3, <1>5, <1>13, <2>1, HasSlot DEF Shows, S
  <2> QED
    BY <1>13, <2>2
<1>14. WqsBehind'
  <2> SUFFICES ASSUME ~Filtered, NEW d \in DOMAIN jc
               PROVE  /\ \A v \in Wq \ moved : Listed(d, v)' => Active(v)
                      /\ \A n \in DOMAIN WqSeq[d] :
                           (d = dev => n < k') /\ WqSeq[d][n] \notin moved /\ Active(WqSeq[d][n])
                             => Listed(d, WqSeq[d][n])'
    <3>1. \A v : Active(v)' <=> Active(v)
      BY <1>1, SameOptions DEF Active, driverVars
    <3> QED
      BY <1>1, <1>3, <1>8, <3>1, SameOptions DEF WqsBehind
  <2>1. ~FilterBy("group") /\ ~past /\ k' = k + 1
    BY <1>2, Filters DEF past, FilterBy, Filtered
  <2>2. Shows(w) <=> Active(w)
    BY DEF Shows, Active
  <2>3. \A v \in Wq \ moved : Listed(d, v)' => Active(v)
    BY <1>12, <2>2 DEF ListingInv, WqsBehind
  <2>4. ASSUME NEW n \in DOMAIN WqSeq[d], d = dev => n < k', WqSeq[d][n] \notin moved,
               Active(WqSeq[d][n])
        PROVE  Listed(d, WqSeq[d][n])'
    <3>1. CASE d = dev /\ n = k
      BY <1>12, <1>13, <2>1, <2>2, <2>4, <3>1 DEF w
    <3>2. CASE d # dev \/ n < k
      BY <1>1, <1>12, <2>4, <3>2 DEF ListingInv, WqsBehind
    <3> QED
      BY <1>4, <2>1, <2>4, <3>1, <3>2
  <2> QED
    BY <2>3, <2>4
<1>15. FoundSoFar'
  <2> SUFFICES ASSUME FilterBy("wq") \/ FilterBy("engine"), found'
               PROVE  /\ Wanted \in Part /\ Home(Wanted) \in DOMAIN jc
                      /\ opt.cmd = "list" => Listed(Home(Wanted), Wanted)' \/ Wanted \in moved
    BY <1>1, <1>8, SameOptions DEF FoundSoFar
  <2>1. CASE found
    BY <1>1, <1>12, <2>1, SameOptions DEF ListingInv, FoundSoFar
  <2>2. CASE ~found
    <3>1. FilterBy("wq") /\ ~past /\ Shows(w)
      BY <1>2, <2>2
    <3>2. Wanted = w /\ Home(Wanted) = dev
      BY <1>1, <3>1, Filters DEF past, ListingInv, Whereabouts, InDevice
    <3>3. w \notin moved => \A f, y : f = dev /\ y = w => Listed(f, y)'
      BY <1>3, <1>12, <1>13, <3>1, Filters
    <3> QED
      BY <1>1, <1>3, <1>5, <3>2, <3>3, SameOptions DEF Part
  <2> QED
    BY <2>1, <2>2
<1>16. DevicesBehind'
    BY <1>1, <1>8, SameOptions DEF ListingInv, DevicesBehind, driverVars, InDevice
<1> QED
    BY <1>9, <1>10, <1>11, <1>12, <1>14, <1>15, <1>16 DEF ListingInv

LEMMA VisitEngineInv ==
    ASSUME ListingInv, VisitEngine, UNCHANGED others
    PROVE  ListingInv'
<1> DEFINE e == EngineSeq[dev][k]
           S == SlotsFor(dev, e)
           shows == opt.cmd = "load" \/ Idle \/ devState[dev] = "enabled"
           past == FilterBy("engine") /\ Wanted # e
           adds == ~past /\ shows
           B == IF adds /\ S = {} /\ opt.cmd # "load" THEN {e} ELSE {}
           A == IF adds THEN S ELSE {}
<1>1. /\ pc = "engine" /\ k <= Len(EngineSeq[dev])
      /\ UNCHANGED <<driverVars, gid, opt, pc, di, cached, jdevices, groupNum, rc, moved,
                     others>>
    BY DEF VisitEngine
<1>2. IF past THEN k' = k + 1 /\ UNCHANGED <<jc, found>>
      ELSE /\ jc' = IF ~shows THEN jc
                    ELSE [jc EXCEPT
                           ![dev].engine = [i \in Slot(dev) |->
                                              IF i \in S THEN Append(@[i], e) ELSE @[i]],
                           ![dev].looseEngine = IF S = {} /\ opt.cmd # "load"
                                                THEN Append(@, e) ELSE @]
           /\ k' = IF FilterBy("engine") THEN Len(EngineSeq[dev]) + 1 ELSE k + 1
           /\ found' = IF FilterBy("engine") THEN shows ELSE found
    BY DEF VisitEngine
<1>3. dev \in DOMAIN jc /\ dev \in Device /\ dev' = dev
    BY <1>1 DEF ListingInv, Whereabouts, InDevice, TypeOK, dev
<1>4. /\ EngineSeq[dev] \in Seq(Engine) /\ Len(EngineSeq[dev]) \in Nat /\ k \in Nat \ {0}
      /\ k \in DOMAIN EngineSeq[dev] /\ DOMAIN EngineSeq[dev] = 1..Len(EngineSeq[dev])
      /\ jc[dev] \in Container(dev)
  <2>1. EngineSeq[dev] \in Seq(Engine) /\ k \in Nat \ {0} /\ jc[dev] \in Container(dev)
    BY <1>3, ListingAssumption DEF ListingInv, TypeOK
  <2>2. Len(EngineSeq[dev]) \in Nat /\ DOMAIN EngineSeq[dev] = 1..Len(EngineSeq[dev])
    BY <2>1
  <2> QED
    BY <1>1, <2>1, <2>2
<1>5. e \in Engine /\ e \notin Wq
  <2>1. e \in Engine
    BY <1>4, ElementOf, Zenon
  <2> QED
    BY <2>1, ListingAssumption
<1>6. S \subseteq Slot(dev) /\ \A i \in Slot(dev) : i \in S <=> jc[dev].ids[i] = cached[e]
    BY DEF SlotsFor
<1> HIDE DEF e, S, past
<1>7. k' \in Nat \ {0}
    BY <1>2, <1>4
<1>8. /\ DOMAIN jc' = DOMAIN jc
      /\ \A d \in DOMAIN jc : d # dev => jc'[d] = jc[d]
      /\ jc'[dev] \in Container(dev)
      /\ jc'[dev].ids = jc[dev].ids /\ jc'[dev].at = jc[dev].at
      /\ \A i \in Slot(dev) : InArray(dev, i)' = InArray(dev, i) \cup (IF i \in A THEN {e} ELSE {})
      /\ Loose(dev)' = Loose(dev) \cup B
  <2>1. CASE ~adds
    <3>1. jc' = jc
      BY <1>2, <2>1
    <3> QED
      BY <1>3, <1>4, <2>1, <3>1 DEF InArray, Loose
  <2>2. CASE adds
    <3> DEFINE x == jc[dev]
               nengine == [i \in Slot(dev) |->
                             IF i \in S THEN Append(x.engine[i], e) ELSE x.engine[i]]
               nloose == IF S = {} /\ opt.cmd # "load" THEN Append(x.looseEngine, e)
                         ELSE x.looseEngine
               c == [x EXCEPT !.engine = nengine, !.looseEngine = nloose]
    <3>1. jc' = [jc EXCEPT ![dev] = [x EXCEPT
                   !.engine = [i \in Slot(dev) |-> IF i \in S THEN Append(@[i], e) ELSE @[i]],
                   !.looseEngine = IF S = {} /\ opt.cmd # "load" THEN Append(@, e) ELSE @]]
      BY <1>2, <2>2
    <3>2. jc' = [jc EXCEPT ![dev] = c]
      BY <1>4, <3>1 DEF Container
    <3>3. /\ \A i \in Slot(dev) : x.engine[i] \in Seq(Engine)
          /\ x.looseEngine \in Seq(Engine)
      BY <1>4 DEF Container
    <3>4. /\ nengine \in [Slot(dev) -> Seq(Engine)]
          /\ \A i \in Slot(dev) :
               Range(nengine[i]) = Range(x.engine[i]) \cup (IF i \in S THEN {e} ELSE {})
      <4>1. ASSUME NEW i \in Slot(dev)
            PROVE  /\ nengine[i] \in Seq(Engine)
                   /\ Range(nengine[i]) = Range(x.engine[i]) \cup (IF i \in S THEN {e} ELSE {})
        BY <1>5, <3>3, RangeAppend
      <4> QED
        BY <4>1
    <3>5. /\ nloose \in Seq(Engine)
          /\ Range(nloose) = Range(x.looseEngine)
                               \cup (IF S = {} /\ opt.cmd # "load" THEN {e} ELSE {})
      BY <1>5, <3>3, RangeAppend
    <3> HIDE DEF nengine, nloose
    <3>6. /\ c \in Container(dev) /\ c.ids = x.ids /\ c.at = x.at /\ c.wq = x.wq
          /\ c.looseWq = x.looseWq /\ c.engine = nengine /\ c.looseEngine = nloose
      BY <1>4, <3>4, <3>5 DEF Container
    <3> HIDE DEF c
    <3>7. /\ DOMAIN jc' = DOMAIN jc /\ jc'[dev] = c
          /\ \A d \in DOMAIN jc : d # dev => jc'[d] = jc[d]
      BY <1>3, <3>2
    <3>8. \A i \in Slot(dev) : InArray(dev, i)' = InArray(dev, i) \cup (IF i \in A THEN {e} ELSE {})
      BY <1>3, <2>2, <3>4, <3>6, <3>7 DEF InArray
    <3>9. Loose(dev)' = Loose(dev) \cup B
      BY <1>3, <2>2, <3>5, <3>6, <3>7 DEF Loose
    <3> QED
      BY <3>6, <3>7, <3>8, <3>9
  <2> QED
    BY <2>1, <2>2
<1>9. TypeOK'
  <2>1. DriverTypeOK'
    BY <1>1 DEF ListingInv, TypeOK, DriverTypeOK, driverVars
  <2>2. /\ DOMAIN jc' \subseteq Device
        /\ \A d \in DOMAIN jc' : jc'[d] \in Container(d)
    BY <1>8 DEF ListingInv, TypeOK
  <2>3. found' \in BOOLEAN
    BY <1>2, Zenon DEF ListingInv, TypeOK
  <2> QED
    BY <1>1, <1>7, <2>1, <2>2, <2>3, Zenon DEF ListingInv, TypeOK
<1>10. Whereabouts'
    BY <1>1, <1>3, <1>8, SameOptions DEF ListingInv, Whereabouts, InDevice
<1>11. GroupIds'
    BY <1>1 DEF ListingInv, GroupIds, Bound, driverVars
<1>12. /\ Slots' /\ Arrays'
       /\ \A f \in DOMAIN jc : \A y :
            Listed(f, y)' <=> Listed(f, y) \/ (f = dev /\ y = e /\ (A # {} \/ B # {}))
  <2>1. PICK d, v, T, L : d = dev /\ v = e /\ T = A /\ L = B
    OBVIOUS
  <2>2. d \in DOMAIN jc /\ T \in SUBSET Slot(d) /\ L \in SUBSET {v} /\ (v \in Wq => DevOf[v] = d)
    BY <1>3, <1>5, <1>6, <2>1
  <2>3. /\ \A f \in DOMAIN jc : f # d => jc'[f] = jc[f]
        /\ jc'[d].ids = jc[d].ids /\ jc'[d].at = jc[d].at
        /\ \A i \in Slot(d) : InArray(d, i)' = InArray(d, i) \cup (IF i \in T THEN {v} ELSE {})
        /\ Loose(d)' = Loose(d) \cup L
    BY <1>3, <1>8, <2>1
  <2>4. /\ \A i \in T : jc[d].ids[i] = cached[v]
        /\ L # {} => \A i \in Slot(d) : jc[d].ids[i] # cached[v]
    BY <1>6, <2>1
  <2>5. UNCHANGED <<opt, cached, pc, di>> /\ pc # "group" /\ DOMAIN jc' = DOMAIN jc
    BY <1>1, <1>8
  <2>6. /\ Slots' /\ Arrays'
        /\ \A f \in DOMAIN jc : \A y :
             Listed(f, y)' <=> Listed(f, y) \/ (f = d /\ y = v /\ (T # {} \/ L # {}))
    <3>1. AddsTo(d, v, T, L)
      BY <2>2, <2>3, <2>4, <2>5 DEF AddsTo
    <3> QED
      BY <3>1, Added
  <2> QED
    BY <2>1, <2>6
<1>13. WqsBehind'
  <2>1. \A v : Active(v)' <=> Active(v)
    BY <1>1, SameOptions DEF Active, driverVars
  <2>2. \A d \in DOMAIN jc : \A v \in Wq : Listed(d, v)' <=> Listed(d, v)
    BY <1>5, <1>12
  <2>3. \A d \in DOMAIN jc : \A n \in DOMAIN WqSeq[d] : WqSeq[d][n] \in Wq
    <3>1. \A d \in DOMAIN jc : WqSeq[d] \in Seq(Wq)
      BY ListingAssumption DEF ListingInv, TypeOK
    <3> QED
      BY <3>1, ElementOf
  <2> QED
    BY <1>1, <1>8, <2>1, <2>2, <2>3, SameOptions DEF ListingInv, WqsBehind
<1>14. FoundSoFar'
  <2> SUFFICES ASSUME FilterBy("wq") \/ FilterBy("engine"), found'
               PROVE  /\ Wanted \in Part /\ Home(Wanted) \in DOMAIN jc
                      /\ opt.cmd = "list" => Listed(Home(Wanted), Wanted)' \/ Wanted \in moved
    BY <1>1, <1>8, SameOptions DEF FoundSoFar
  <2>1. CASE found
    BY <1>1, <1>12, <2>1, SameOptions DEF ListingInv, FoundSoFar
  <2>2. CASE ~found
    <3>1. FilterBy("engine") /\ ~past /\ shows
      BY <1>2, <2>2
    <3>2. Wanted = e /\ Home(Wanted) = dev
      BY <1>1, <3>1, Filters DEF past, ListingInv, Whereabouts, InDevice
    <3>3. opt.cmd = "list" => \A f, y : f = dev /\ y = e => Listed(f, y)'
      BY <1>3, <1>12, <3>1
    <3> QED
      BY <1>1, <1>3, <1>5, <3>2, <3>3, SameOptions DEF Part
  <2> QED
    BY <2>1, <2>2
<1>15. DevicesBehind'
    BY <1>1, <1>8, SameOptions DEF ListingInv, DevicesBehind, driverVars, InDevice
<1> QED
    BY <1>9, <1>10, <1>11, <1>12, <1>13, <1>14, <1>15 DEF ListingInv

\* What the other processes do to the driver and the group ids.
LEMMA OthersEffect ==
    ASSUME ListingInv, OtherProcess
    PROVE  /\ DriverTypeOK' /\ gid' \in [Part -> Int]
           /\ moved \subseteq moved' /\ moved' \subseteq Device \cup Wq
           /\ \A x \in Part \ (moved' \cap Wq) : gid'[x] = gid[x]
           /\ \A w \in Wq \ moved' : wqState'[w] = wqState[w]
           /\ \A d \in Device \ moved' : devState'[d] = devState[d]
           /\ \A w \in Wq : gid'[w] < MaxGroups[DevOf[w]] /\ (Bound(w)' => gid'[w] >= 0)
<1>1. /\ devState \in [Device -> DeviceState] /\ wqState \in [Wq -> WqState]
      /\ clients \in [Wq -> 0..MaxClients] /\ gid \in [Part -> Int]
      /\ moved \subseteq Device \cup Wq
    BY DEF ListingInv, TypeOK, DriverTypeOK
<1>2. /\ \A w \in Wq : Bound(w) <=> wqState[w] \in {"enabled", "locked"}
      /\ \A w \in Wq : Bound(w)' <=> wqState'[w] \in {"enabled", "locked"}
    BY DriverAssumption DEF Bound
<1>3. \A w \in Wq : /\ gid[w] < MaxGroups[DevOf[w]]
                    /\ wqState[w] \in {"enabled", "locked"} => gid[w] >= 0
    BY <1>2 DEF ListingInv, GroupIds
<1>4. CASE \E d \in Device : /\ BindDevice(d) \/ UnbindDevice(d)
                             /\ moved' = moved \cup {d} \cup WqsOf(d)
                             /\ UNCHANGED gid
  <2>1. PICK d \in Device : /\ BindDevice(d) \/ UnbindDevice(d)
                            /\ moved' = moved \cup {d} \cup WqsOf(d)
                            /\ UNCHANGED gid
    BY <1>4
  <2>2. CASE BindDevice(d)
    BY <1>1, <1>2, <1>3, <2>1, <2>2
    DEF BindDevice, DriverTypeOK, DeviceState, WqState, WqsOf
  <2>3. CASE UnbindDevice(d)
    BY <1>1, <1>2, <1>3, <2>1, <2>3
    DEF UnbindDevice, DriverTypeOK, DeviceState, WqState, WqsOf
  <2> QED
    BY <2>1, <2>2, <2>3
<1>5. CASE \E w \in Wq : /\ \/ BindWq(w) /\ gid[w] >= 0
                            \/ UnbindWq(w) \/ LockWq(w)
                         /\ moved' = moved \cup {w}
                         /\ UNCHANGED gid
  <2>1. PICK w \in Wq : /\ \/ BindWq(w) /\ gid[w] >= 0
                           \/ UnbindWq(w) \/ LockWq(w)
                        /\ moved' = moved \cup {w}
                        /\ UNCHANGED gid
    BY <1>5
  <2>2. PICK q \in WqState : /\ wqState' = [wqState EXCEPT ![w] = q]
                             /\ q \in {"enabled", "locked"} => gid[w] >= 0
                             /\ UNCHANGED <<devState, clients>>
    <3>1. CASE BindWq(w) /\ gid[w] >= 0
      BY <3>1 DEF BindWq, WqState
    <3>2. CASE UnbindWq(w)
      BY <3>2 DEF UnbindWq, WqState
    <3>3. CASE LockWq(w)
      BY <1>3, <3>3 DEF LockWq, WqState
    <3> QED
      BY <2>1, <3>1, <3>2, <3>3
  <2> QED
    BY <1>1, <1>2, <1>3, <2>1, <2>2 DEF DriverTypeOK
<1>6. CASE \E w \in Wq : /\ wqState[w] = "disabled"
                         /\ \E g \in -1..(MaxGroups[DevOf[w]] - 1) :
                              gid' = [gid EXCEPT ![w] = g]
                         /\ moved' = moved \cup {w}
                         /\ UNCHANGED driverVars
  <2>1. PICK w \in Wq : /\ wqState[w] = "disabled"
                        /\ \E g \in -1..(MaxGroups[DevOf[w]] - 1) :
                             gid' = [gid EXCEPT ![w] = g]
                        /\ moved' = moved \cup {w}
                        /\ UNCHANGED driverVars
    BY <1>6
  <2>2. PICK g \in -1..(MaxGroups[DevOf[w]] - 1) : gid' = [gid EXCEPT ![w] = g]
    BY <2>1
  <2>3. MaxGroups[DevOf[w]] \in Nat
    BY DriverAssumption, ListingAssumption
  <2>4. g \in Int /\ g < MaxGroups[DevOf[w]]
    BY <2>3
  <2>5. gid' \in [Part -> Int] /\ \A x \in Part : x # w => gid'[x] = gid[x]
    BY <1>1, <2>2, <2>4 DEF Part
  <2>6. gid'[w] = g
    BY <1>1, <2>2 DEF Part
  <2>7. wqState' = wqState /\ devState' = devState /\ DriverTypeOK'
    BY <2>1 DEF driverVars, ListingInv, TypeOK, DriverTypeOK
  <2>8. \A v \in Wq : gid'[v] < MaxGroups[DevOf[v]] /\ (Bound(v)' => gid'[v] >= 0)
    BY <1>2, <1>3, <2>1, <2>4, <2>5, <2>6, <2>7 DEF Part
  <2> QED
    BY <1>1, <2>1, <2>5, <2>7, <2>8
<1> QED
    BY <1>4, <1>5, <1>6 DEF OtherProcess

LEMMA OtherProcessInv ==
    ASSUME ListingInv, OtherProcess
    PROVE  ListingInv'
<1>1. /\ UNCHANGED <<opt, pc, di, k, cached, jc, jdevices, groupNum, found, rc>>
      /\ others < MaxOther /\ others' = others + 1
    BY DEF OtherProcess, toolVars
<1>2. /\ DriverTypeOK' /\ gid' \in [Part -> Int]
      /\ moved \subseteq moved' /\ moved' \subseteq Device \cup Wq
      /\ \A x \in Part \ (moved' \cap Wq) : gid'[x] = gid[x]
      /\ \A w \in Wq \ moved' : wqState'[w] = wqState[w]
      /\ \A d \in Device \ moved' : devState'[d] = devState[d]
      /\ \A w \in Wq : gid'[w] < MaxGroups[DevOf[w]] /\ (Bound(w)' => gid'[w] >= 0)
    BY OthersEffect
<1>3. TypeOK'
  <2>1. others' \in 0..MaxOther
    BY <1>1, ListingAssumption DEF ListingInv, TypeOK
  <2> QED
    BY <1>1, <1>2, <2>1, Zenon DEF ListingInv, TypeOK
<1>4. Whereabouts'
    BY <1>1, SameOptions DEF ListingInv, Whereabouts, InDevice, dev
<1>5. GroupIds'
    BY <1>1, <1>2 DEF ListingInv, GroupIds
<1>6. Slots'
  <2>1. \A d : Filling(d)' <=> Filling(d)
    BY <1>1 DEF Filling, SlotOf
  <2> QED
    BY <1>1, <2>1, SameOptions, SameContainers DEF ListingInv, Slots, dev
<1>7. Arrays'
    BY <1>1, SameOptions, SameContainers DEF ListingInv, Arrays
<1>8. DevicesBehind'
  <2>1. \A n \in DOMAIN DeviceSeq : DeviceSeq[n] \in Device
    BY ListingAssumption, ElementOf
  <2> QED
    BY <1>1, <1>2, <2>1, SameOptions DEF ListingInv, DevicesBehind, InDevice
<1>9. WqsBehind'
  <2>1. \A w \in Wq \ moved' : Active(w)' <=> Active(w)
    BY <1>1, <1>2, SameOptions DEF Active
  <2>2. \A d \in DOMAIN jc : \A n \in DOMAIN WqSeq[d] : WqSeq[d][n] \in Wq
    <3>1. \A d \in DOMAIN jc : WqSeq[d] \in Seq(Wq)
      BY ListingAssumption DEF ListingInv, TypeOK
    <3> QED
      BY <3>1, ElementOf
  <2> QED
    BY <1>1, <1>2, <2>1, <2>2, SameOptions, SameContainers DEF ListingInv, WqsBehind, dev
<1>10. FoundSoFar'
    BY <1>1, <1>2, SameOptions, SameContainers DEF ListingInv, FoundSoFar
<1> QED
    BY <1>3, <1>4, <1>5, <1>6, <1>7, <1>8, <1>9, <1>10 DEF ListingInv

LEMMA ListingStutters ==
    ASSUME ListingInv, UNCHANGED vars
    PROVE  ListingInv'
<1>1. /\ UNCHANGED <<driverVars, gid, opt, pc, di, k, cached, jc, jdevices, groupNum, found,
                     rc, moved, others>>
      /\ UNCHANGED <<devState, wqState, clients>>
    BY DEF vars, toolVars, driverVars
<1>2. TypeOK'
    BY <1>1, Zenon DEF ListingInv, TypeOK, DriverTypeOK
<1>3. Whereabouts' /\ GroupIds' /\ Arrays'
  <2>1. GroupIds' /\ Arrays'
    BY <1>1, Scans
  <2> QED
    BY <1>1, <2>1, SameOptions DEF ListingInv, Whereabouts, InDevice, dev
<1>4. Slots'
  <2>1. \A d : Filling(d)' <=> Filling(d)
    BY <1>1 DEF Filling, SlotOf
  <2> QED
    BY <1>1, <2>1, SameOptions, SameContainers DEF ListingInv, Slots, dev
<1>5. DevicesBehind'
    BY <1>1, SameOptions DEF ListingInv, DevicesBehind, InDevice
<1>6. WqsBehind'
  <2>1. \A w : Active(w)' <=> Active(w)
    BY <1>1, SameOptions DEF Active
  <2> QED
    BY <1>1, <2>1, SameOptions, SameContainers DEF ListingInv, WqsBehind, dev
<1>7. FoundSoFar'
    BY <1>1, SameOptions, SameContainers DEF ListingInv, FoundSoFar
<1> QED
    BY <1>2, <1>3, <1>4, <1>5, <1>6, <1>7 DEF ListingInv

LEMMA ListingInductive ==
    ASSUME ListingInv, [Next]_vars
    PROVE  ListingInv'
<1>1. CASE UNCHANGED vars
    BY <1>1, ListingStutters
<1>2. CASE Tool
    BY <1>2, StartInv, SkipDeviceInv, VisitDeviceInv, WalkOverInv, VisitGroupInv,
       GroupsDoneInv, VisitWqInv, WqsDoneInv, VisitEngineInv, DeviceDoneInv, DisplayInv DEF Tool
<1>3. CASE OtherProcess
    BY <1>3, OtherProcessInv
<1> QED
    BY <1>1, <1>2, <1>3 DEF Next

LEMMA ListingInvariant == Spec => []ListingInv
    BY ListingInitial, ListingInductive, PTL DEF Spec

\* list and save-config: every wq and engine is under its own group only, for any
\* number of devices, groups and slots and any steps of the other processes.
THEOREM InOwnGroupHolds == Spec => []InOwnGroup
    BY ListingInvariant, ImpliesInOwnGroup, PTL

\* A walk without a filter that ends with 0 has a container for exactly the devices,
\* and an entry for exactly the wqs, that are active or asked for with -i.
THEOREM ListingCompleteHolds == Spec => []ListingComplete
    BY ListingInvariant, ImpliesListingComplete, PTL

\* list of a wq or engine that ends with 0 has that one in its output.
THEOREM FoundMeansListedHolds == Spec => []FoundMeansListed
    BY ListingInvariant, ImpliesFoundMeansListed, PTL

-----------------------------------------------------------------------------
(* The order of the keys *)

\* Two sequences, one after the other.
LEMMA Concatenation ==
    ASSUME NEW S, NEW s \in Seq(S), NEW t \in Seq(S)
    PROVE  /\ s \o t \in Seq(S) /\ Len(s \o t) = Len(s) + Len(t)
           /\ \A i \in 1..Len(s) : (s \o t)[i] = s[i]
           /\ \A i \in (Len(s) + 1)..(Len(s) + Len(t)) : (s \o t)[i] = t[i - Len(s)]
OBVIOUS

\* All keys, without their order.
Key == {"read_buffer_limit", "event_log_size", "read_buffers_reserved",
        "use_read_buffer_limit", "read_buffers_allowed", "desc_progress_limit",
        "batch_progress_limit", "mode", "size", "wq_group_id", "priority",
        "block_on_fault", "max_batch_size", "max_transfer_size", "type", "name",
        "driver_name", "threshold", "prs_disable", "ats_disable", "op_config",
        "engine_group_id"}

LEMMA KeysOfParts ==
    /\ DeviceKeys \in Seq(Key) /\ Len(DeviceKeys) = 2
    /\ GroupKeys \in Seq(Key) /\ Len(GroupKeys) = 5
    /\ WqKeys \in Seq(Key) /\ Len(WqKeys) = 14
    /\ EngineKeys \in Seq(Key) /\ Len(EngineKeys) = 1
BY DEF DeviceKeys, GroupKeys, WqKeys, EngineKeys, Key

\* FileOrder is the four lists one after the other.
LEMMA PartsInOrder ==
    /\ FileOrder \in Seq(Key) /\ Len(FileOrder) = 22
    /\ \A i \in 1..22 : FileOrder[i] =
         IF i <= 2 THEN DeviceKeys[i] ELSE IF i <= 7 THEN GroupKeys[i - 2]
         ELSE IF i <= 21 THEN WqKeys[i - 7] ELSE EngineKeys[i - 21]
<1> DEFINE a == DeviceKeys \o GroupKeys
           b == a \o WqKeys
           c == b \o EngineKeys
<1>1. /\ a \in Seq(Key) /\ Len(a) = Len(DeviceKeys) + Len(GroupKeys)
      /\ \A i \in 1..Len(DeviceKeys) : a[i] = DeviceKeys[i]
      /\ \A i \in (Len(DeviceKeys) + 1)..(Len(DeviceKeys) + Len(GroupKeys)) :
           a[i] = GroupKeys[i - Len(DeviceKeys)]
    BY KeysOfParts, Concatenation, Zenon
<1> HIDE DEF a
<1>2. a \in Seq(Key)
    BY <1>1
<1>3. /\ b \in Seq(Key) /\ Len(b) = Len(a) + Len(WqKeys)
      /\ \A i \in 1..Len(a) : b[i] = a[i]
      /\ \A i \in (Len(a) + 1)..(Len(a) + Len(WqKeys)) : b[i] = WqKeys[i - Len(a)]
    BY <1>2, KeysOfParts, Concatenation, Zenon
<1> HIDE DEF b
<1>4. b \in Seq(Key)
    BY <1>3
<1>5. /\ c \in Seq(Key) /\ Len(c) = Len(b) + Len(EngineKeys)
      /\ \A i \in 1..Len(b) : c[i] = b[i]
      /\ \A i \in (Len(b) + 1)..(Len(b) + Len(EngineKeys)) : c[i] = EngineKeys[i - Len(b)]
    BY <1>4, KeysOfParts, Concatenation, Zenon
<1>6. FileOrder = c
    BY DEF FileOrder, a, b
<1> HIDE DEF c
<1> QED
    BY <1>1, <1>3, <1>5, <1>6, KeysOfParts

\* The keys one by one.
LEMMA KeyAt ==
    /\ FileOrder[1] = "read_buffer_limit" /\ FileOrder[2] = "event_log_size"
    /\ FileOrder[3] = "read_buffers_reserved" /\ FileOrder[4] = "use_read_buffer_limit"
    /\ FileOrder[5] = "read_buffers_allowed" /\ FileOrder[6] = "desc_progress_limit"
    /\ FileOrder[7] = "batch_progress_limit" /\ FileOrder[8] = "mode"
    /\ FileOrder[9] = "size" /\ FileOrder[10] = "wq_group_id"
    /\ FileOrder[11] = "priority" /\ FileOrder[12] = "block_on_fault"
    /\ FileOrder[13] = "max_batch_size" /\ FileOrder[14] = "max_transfer_size"
    /\ FileOrder[15] = "type" /\ FileOrder[16] = "name"
    /\ FileOrder[17] = "driver_name" /\ FileOrder[18] = "threshold"
    /\ FileOrder[19] = "prs_disable" /\ FileOrder[20] = "ats_disable"
    /\ FileOrder[21] = "op_config" /\ FileOrder[22] = "engine_group_id"
BY PartsInOrder DEF DeviceKeys, GroupKeys, WqKeys, EngineKeys

\* Each key has its place.
LEMMA OnePlace ==
    /\ FileOrder \in Seq(Attr) /\ Attr = Key
    /\ \A n \in 1..22 : Place(FileOrder[n]) = n
    /\ \A a \in Attr : Place(a) \in 1..22 /\ FileOrder[Place(a)] = a
<1>1. /\ FileOrder \in Seq(Key) /\ DOMAIN FileOrder = 1..22
    BY PartsInOrder
<1>2. Attr = Key
    BY <1>1, KeyAt DEF Attr, Range, Key
<1>3. \A i, j \in DOMAIN FileOrder : FileOrder[i] = FileOrder[j] => i = j
    BY PartsInOrder, KeyAt
<1>4. ASSUME NEW a \in Attr
      PROVE  Place(a) \in 1..22 /\ FileOrder[Place(a)] = a
  <2>1. \E n \in DOMAIN FileOrder : FileOrder[n] = a
    BY DEF Attr, Range
  <2> QED
    BY <1>1, <2>1 DEF Place
<1>5. \A n \in 1..22 : FileOrder[n] \in Attr
    BY <1>1 DEF Attr, Range
<1> QED
    BY <1>1, <1>2, <1>3, <1>4, <1>5

-----------------------------------------------------------------------------
(* What the invariant says of the values *)

\* The saved and the present configuration.
LEMMA Configured ==
    ASSUME RoundTripInv
    PROVE  /\ \A a \in Attr : (saved[a] \in Nat \/ saved[a] = Missing)
                            /\ (sysfs[a] \in Nat \/ sysfs[a] = Missing)
           /\ \A a \in Attr \ (Optional \cup ReadBuffer) : saved[a] \in Nat /\ sysfs[a] \in Nat
           /\ \A a \in ReadBuffer : IF hw.iax THEN saved[a] = Missing /\ sysfs[a] = Missing
                                               ELSE saved[a] \in Nat /\ sysfs[a] \in Nat
           /\ saved["mode"] \in {Shared, Dedicated}
           /\ saved["mode"] = Shared => saved["threshold"] \in 1..saved["size"]
           /\ \A a \in {"desc_progress_limit", "batch_progress_limit"} :
                saved[a] # Missing => saved[a] \in 0..3
           /\ \A a \in {"prs_disable", "ats_disable"} : saved[a] # Missing => saved[a] \in 0..1
           /\ Missing \notin Int
<1>1. PICK h \in Hardware, c \in Config : h.iax = hw.iax /\ Valid(c) /\ saved = On(h, c)
    BY DEF RoundTripInv, SavedValid
<1>2. /\ hw \in Hardware
      /\ \A a \in Attr : sysfs[a] = Missing <=> a \in hw.lacks
      /\ \A a \in Attr : sysfs[a] \in Nat \/ sysfs[a] = Missing
    BY DEF RoundTripInv, RoundTripTypeOK, Known
<1>3. c \in [Attr -> Nat] /\ Missing \notin Int
    BY RoundTripAssumption
<1>4. \A a \in Attr : saved[a] = IF a \in h.lacks THEN Missing ELSE c[a]
    BY <1>1 DEF On
<1>5. \A g \in {h, hw} : /\ g.lacks \subseteq Optional \cup ReadBuffer
                         /\ g.iax => ReadBuffer \subseteq g.lacks
                         /\ ~g.iax => ReadBuffer \cap g.lacks = {}
    BY <1>2, RoundTripAssumption
<1>6. /\ Attr = Key /\ ReadBuffer \subseteq Key
      /\ {"mode", "size", "threshold"} \subseteq Key \ (Optional \cup ReadBuffer)
      /\ {"desc_progress_limit", "batch_progress_limit", "prs_disable", "ats_disable"}
           \subseteq Key
    BY OnePlace DEF Key, ReadBuffer, Optional
<1>7. \A a \in Attr : saved[a] \in Nat \/ saved[a] = Missing
    BY <1>3, <1>4
<1>8. \A a \in Attr \ (Optional \cup ReadBuffer) : saved[a] \in Nat /\ sysfs[a] \in Nat
    BY <1>2, <1>3, <1>4, <1>5
<1>9. \A a \in ReadBuffer : IF hw.iax THEN saved[a] = Missing /\ sysfs[a] = Missing
                                      ELSE saved[a] \in Nat /\ sysfs[a] \in Nat
    BY <1>1, <1>2, <1>3, <1>4, <1>5, <1>6
<1>10. \A a \in {"mode", "size", "threshold"} : saved[a] = c[a]
    BY <1>4, <1>5, <1>6
<1>11. \A a \in {"desc_progress_limit", "batch_progress_limit", "prs_disable", "ats_disable"} :
         saved[a] # Missing => saved[a] = c[a]
    BY <1>4, <1>6
<1>12. /\ saved["mode"] \in {Shared, Dedicated}
       /\ saved["mode"] = Shared => saved["threshold"] \in 1..saved["size"]
    BY <1>1, <1>10 DEF Valid
<1>13. /\ \A a \in {"desc_progress_limit", "batch_progress_limit"} :
            saved[a] # Missing => saved[a] \in 0..3
       /\ \A a \in {"prs_disable", "ats_disable"} : saved[a] # Missing => saved[a] \in 0..1
    BY <1>1, <1>11 DEF Valid
<1> QED
    BY <1>2, <1>3, <1>7, <1>8, <1>9, <1>12, <1>13

\* The key at hand.  The library has -ENOENT for what was missing, which the file
\* holds for ats_disable only.
LEMMA AtHand ==
    ASSUME RoundTripInv, AtKey
    PROVE  /\ at \in DOMAIN file /\ key \in Attr
           /\ key \in ReadBuffer => ~hw.iax
           /\ \/ saved[key] \in Nat /\ val = saved[key]
              \/ key = "ats_disable" /\ saved[key] = Missing /\ val = -ENOENT
<1>1. /\ file \in Seq([key : Attr, val : Int]) /\ at \in 1..(Len(file) + 1)
    BY DEF RoundTripInv, RoundTripTypeOK, AtKey
<1>2. at \in DOMAIN file /\ key \in Attr
  <2>1. at \in DOMAIN file
    BY <1>1 DEF AtKey
  <2>2. file[at] \in [key : Attr, val : Int]
    BY <1>1, <2>1, ElementOf, Zenon
  <2> QED
    BY <2>1, <2>2 DEF key
<1>3. key \in Holds(Len(FileOrder))
  <2>1. key \in {file[i].key : i \in DOMAIN file}
    BY <1>2 DEF key
  <2> QED
    BY <2>1 DEF RoundTripInv, KeysSaved, AtKey
<1>4. /\ key \in ReadBuffer => ~hw.iax
      /\ key \in OnlyIfRead \cup {"driver_name", "op_config"} => saved[key] # Missing
    BY <1>3 DEF Holds
<1>5. val = IF saved[key] = Missing THEN -ENOENT ELSE saved[key]
    BY <1>2 DEF RoundTripInv, SavedValid, Read, key, val
<1>6. CASE saved[key] = Missing
  <2>1. key \in Optional \cup ReadBuffer
    BY <1>2, <1>6, Configured
  <2>2. key \notin ReadBuffer
    BY <1>4, <1>6, Configured
  <2>3. key = "ats_disable"
    BY <1>4, <1>6, <2>1, <2>2 DEF Optional, OnlyIfRead
  <2> QED
    BY <1>2, <1>4, <1>5, <1>6, <2>3
<1>7. CASE saved[key] # Missing
    BY <1>2, <1>4, <1>5, <1>7, Configured
<1> QED
    BY <1>6, <1>7

\* A key that the one at hand depends on is behind and has been restored.
LEMMA Earlier ==
    ASSUME RoundTripInv, AtKey, NEW a \in Attr,
           Place(a) < Place(key), a \in Holds(Len(FileOrder)),
           Matters(a), saved[a] # Missing, sysfs[a] # Missing
    PROVE  sysfs[a] = saved[a]
<1>1. PICK i \in DOMAIN file : file[i].key = a
    BY DEF RoundTripInv, KeysSaved, AtKey
<1>2. /\ at \in DOMAIN file /\ key \in Attr /\ key = file[at].key
    BY AtHand DEF key
<1>3. DOMAIN file \subseteq Nat /\ \A n \in DOMAIN file : n < at => n \in 1..(at - 1)
  <2>1. file \in Seq([key : Attr, val : Int])
    BY DEF RoundTripInv, RoundTripTypeOK
  <2>2. DOMAIN file = 1..Len(file) /\ Len(file) \in Nat
    BY <2>1
  <2> QED
    BY <1>2, <2>2
<1>4. Place(a) \in Nat /\ Place(key) \in Nat
  <2>1. Place(a) \in 1..22 /\ Place(key) \in 1..22
    BY <1>2, OnePlace
  <2> QED
    BY <2>1
<1>5. ~(at < i) /\ i # at
    BY <1>1, <1>2, <1>4 DEF RoundTripInv, KeysOrdered
<1>6. i \in 1..(at - 1)
    BY <1>2, <1>3, <1>5
<1> QED
    BY <1>1, <1>6 DEF RoundTripInv, RestoredSoFar, AtKey

\* The keys that are always saved, and those saved for a device with read buffers.
LEMMA AlwaysSaved ==
    ASSUME NEW a \in Attr, a \notin OnlyIfRead \cup {"driver_name", "op_config"},
           a \in ReadBuffer => ~hw.iax
    PROVE  a \in Holds(Len(FileOrder))
<1>1. Place(a) \in 1..Len(FileOrder) /\ FileOrder[Place(a)] = a
    BY OnePlace, PartsInOrder
<1> QED
    BY <1>1, Zenon DEF Holds

\* When the threshold or use_read_buffer_limit is at hand, what it depends on
\* has the saved value.
LEMMA Dependencies ==
    ASSUME RoundTripInv, AtKey
    PROVE  /\ key = "threshold" => sysfs["mode"] = saved["mode"] /\ sysfs["size"] = saved["size"]
           /\ key = "use_read_buffer_limit" =>
                /\ sysfs["read_buffer_limit"] = saved["read_buffer_limit"]
                /\ sysfs["read_buffer_limit"] \in Nat
                /\ copy["read_buffer_limit"] = sysfs["read_buffer_limit"]
<1>1. /\ Place("mode") = 8 /\ Place("size") = 9 /\ Place("threshold") = 18
      /\ Place("read_buffer_limit") = 1 /\ Place("use_read_buffer_limit") = 4
  <2>1. {1, 4, 8, 9, 18} \subseteq 1..22
    OBVIOUS
  <2>2. \A n \in {1, 4, 8, 9, 18} : Place(FileOrder[n]) = n
    BY <2>1, OnePlace, Zenon
  <2> QED
    BY <2>2, KeyAt, Zenon
<1>2. {"mode", "size", "read_buffer_limit"} \subseteq Attr
    BY OnePlace DEF Key
<1>3. {"mode", "size"} \subseteq Attr \ (Optional \cup ReadBuffer)
    BY <1>2 DEF Optional, ReadBuffer
<1>4. /\ \A a \in {"mode", "size", "read_buffer_limit"} :
           a \notin OnlyIfRead \cup {"driver_name", "op_config"} /\ Matters(a)
      /\ \A a \in {"read_buffer_limit", "use_read_buffer_limit"} : a \in ReadBuffer
    BY DEF OnlyIfRead, Matters, ReadBuffer
<1>5. Missing \notin Nat
    BY Configured
<1>6. ASSUME key = "threshold", NEW a \in {"mode", "size"}
      PROVE  sysfs[a] = saved[a]
  <2>1. saved[a] # Missing /\ sysfs[a] # Missing
    BY <1>3, <1>5, Configured
  <2>2. a \in Holds(Len(FileOrder)) /\ Matters(a) /\ a \in Attr
    BY <1>3, <1>4, AlwaysSaved
  <2>3. Place(a) < Place(key)
    BY <1>1, <1>6
  <2> QED
    BY <2>1, <2>2, <2>3, Earlier
<1>7. ASSUME key = "use_read_buffer_limit"
      PROVE  /\ sysfs["read_buffer_limit"] = saved["read_buffer_limit"]
             /\ sysfs["read_buffer_limit"] \in Nat
             /\ copy["read_buffer_limit"] = sysfs["read_buffer_limit"]
  <2> DEFINE a == "read_buffer_limit"
  <2>1. ~hw.iax
    BY <1>4, <1>7, AtHand
  <2>2. saved[a] \in Nat /\ sysfs[a] \in Nat
    BY <1>4, <2>1, Configured
  <2>3. a \in Holds(Len(FileOrder)) /\ Matters(a) /\ a \in Attr
    BY <1>2, <1>4, <2>1, AlwaysSaved
  <2>4. Place(a) < Place(key)
    BY <1>1, <1>7
  <2>5. saved[a] # Missing /\ sysfs[a] # Missing
    BY <1>5, <2>2
  <2>6. sysfs[a] = saved[a]
    BY <2>3, <2>4, <2>5, Earlier
  <2>7. copy[a] = sysfs[a]
    BY <1>2, <2>5 DEF RoundTripInv, Known, Read
  <2> QED
    BY <2>2, <2>6, <2>7
<1> QED
    BY <1>6, <1>7

\* No key is passed over that matters.
LEMMA SkipsNothing ==
    ASSUME RoundTripInv, AtKey, PassedOver,
           Matters(key), saved[key] # Missing, sysfs[key] # Missing
    PROVE  FALSE
<1>1. /\ key \in Attr /\ saved[key] \in Nat /\ val = saved[key]
      /\ key \in ReadBuffer => ~hw.iax
    BY AtHand
<1>2. ~Writable(key, val)
    BY <1>1 DEF PassedOver
<1>3. key # "op_config" => copy[key] = sysfs[key] /\ sysfs[key] \in Nat
  <2>1. sysfs[key] \in Nat
    BY <1>1, Configured
  <2> QED
    BY <1>1, <2>1 DEF RoundTripInv, Known, Read
<1>4. CASE key = "use_read_buffer_limit"
    BY <1>2, <1>4, Dependencies DEF Writable, Matters
<1>5. CASE key \in {"read_buffers_reserved", "read_buffers_allowed"}
    BY <1>1, <1>2, <1>5 DEF Writable
<1>6. CASE key \in {"desc_progress_limit", "batch_progress_limit"}
  <2>1. val \in 0..3
    BY <1>1, <1>6, Configured
  <2>2. copy[key] >= 0
    BY <1>3, <1>6
  <2> QED
    BY <1>2, <1>6, <2>1, <2>2 DEF Writable
<1>7. CASE key = "threshold"
    BY <1>2, <1>7, Dependencies DEF Writable, Matters, Shared, Dedicated
<1>8. CASE key \in {"prs_disable", "ats_disable"}
  <2>1. val \in 0..1
    BY <1>1, <1>8, Configured
  <2>2. copy[key] >= 0
    BY <1>3, <1>8
  <2> QED
    BY <1>2, <1>8, <2>1, <2>2 DEF Writable
<1> QED
    BY <1>2, <1>4, <1>5, <1>6, <1>7, <1>8 DEF Writable

\* A key that is not passed over has a value the driver takes, or it is
\* op_config.
LEMMA DriverTakesIt ==
    ASSUME RoundTripInv, AtKey, ~PassedOver
    PROVE  /\ DriverTakes(key, val) \/ (key = "op_config" /\ sysfs["op_config"] = Missing)
           /\ val \in Nat /\ val = saved[key]
<1>1. /\ key \in Attr
      /\ key \in ReadBuffer => ~hw.iax
      /\ \/ saved[key] \in Nat /\ val = saved[key]
         \/ key = "ats_disable" /\ saved[key] = Missing /\ val = -ENOENT
    BY AtHand
<1>2. Writable(key, val)
    BY DEF PassedOver
<1>3. saved[key] \in Nat /\ val = saved[key]
    BY <1>1, <1>2 DEF Writable, ENOENT
<1>4. CASE sysfs[key] = Missing
  <2>1. key \in Optional /\ key \notin ReadBuffer
    BY <1>1, <1>4, Configured
  <2>2. key \notin Forgiven
    BY <1>4 DEF PassedOver
  <2>3. key # "op_config" => copy[key] = -ENOENT
    BY <1>1, <1>4 DEF RoundTripInv, Known, Read
  <2>4. key \notin {"desc_progress_limit", "batch_progress_limit", "prs_disable", "ats_disable"}
    BY <1>2, <2>3 DEF Writable, ENOENT
  <2>5. key = "op_config"
    BY <2>1, <2>2, <2>4 DEF Optional, Forgiven
  <2> QED
    BY <1>3, <1>4, <2>5
<1>5. CASE sysfs[key] # Missing
  <2>1. key = "threshold" => sysfs["mode"] = Shared /\ val \in 1..sysfs["size"]
    <3> SUFFICES ASSUME key = "threshold" PROVE sysfs["mode"] = Shared /\ val \in 1..sysfs["size"]
      OBVIOUS
    <3>1. sysfs["mode"] = saved["mode"] /\ sysfs["size"] = saved["size"]
      BY Dependencies
    <3>2. sysfs["mode"] # Dedicated
      BY <1>2 DEF Writable
    <3> QED
      BY <1>3, <3>1, <3>2, Configured
  <2>2. key = "use_read_buffer_limit" => sysfs["read_buffer_limit"] # 0
    BY <1>2, Dependencies DEF Writable
  <2> QED
    BY <1>3, <1>5, <2>1, <2>2 DEF DriverTakes
<1> QED
    BY <1>4, <1>5

\* No key of a group has a negative value.
LEMMA NotNegative ==
    ASSUME RoundTripInv, AtKey
    PROVE  ~Negative
<1>1. val \in Nat \/ key = "ats_disable"
    BY AtHand
<1>2. "ats_disable" \notin Range(GroupKeys)
    BY DEF Range, GroupKeys
<1> QED
    BY <1>1, <1>2 DEF Negative

-----------------------------------------------------------------------------
(* The invariant is inductive *)

\* A configuration as sysfs has it, and as the library reads it.
LEMMA OnAndRead ==
    ASSUME NEW h \in Hardware, NEW c \in Config
    PROVE  /\ On(h, c) \in [Attr -> Nat \cup {Missing}]
           /\ Read(On(h, c)) \in [Attr -> Int]
           /\ \A a \in Attr : On(h, c)[a] = Missing <=> a \in h.lacks
<1>1. c \in [Attr -> Nat] /\ Missing \notin Int
    BY RoundTripAssumption
<1>2. On(h, c) \in [Attr -> Nat \cup {Missing}]
    BY <1>1 DEF On
<1>3. \A s \in [Attr -> Nat \cup {Missing}] : Read(s) \in [Attr -> Int]
    BY DEF Read, ENOENT
<1>4. \A a \in Attr : On(h, c)[a] = Missing <=> a \in h.lacks
    BY <1>1 DEF On
<1> QED
    BY <1>2, <1>3, <1>4

LEMMA RoundTripInitial ==
    ASSUME RoundTripInit
    PROVE  RoundTripInv
<1>1. PICK c \in Config : Valid(c) /\ sysfs = On(hw, c)
    BY DEF RoundTripInit
<1>2. /\ hw \in Hardware /\ copy = Read(sysfs) /\ phase = "save" /\ saved = sysfs
      /\ file = <<>> /\ at = 1 /\ loadRc = 0 /\ refused = FALSE
    BY DEF RoundTripInit
<1>3. DOMAIN file = {} /\ file \in Seq([key : Attr, val : Int]) /\ Len(FileOrder) = 22
    BY <1>2, PartsInOrder
<1>4. RoundTripTypeOK
  <2>1. sysfs \in [Attr -> Nat \cup {Missing}] /\ copy \in [Attr -> Int]
    BY <1>1, <1>2, OnAndRead
  <2>2. saved \in [Attr -> Nat \cup {Missing}]
    BY <1>2, <2>1
  <2>3. at \in Nat /\ at > 0 /\ at <= Len(FileOrder) + 1
    BY <1>2, <1>3
  <2>4. loadRc \in {0, -1} /\ refused \in BOOLEAN
    BY <1>2
  <2> QED
    BY <1>2, <1>3, <2>1, <2>2, <2>3, <2>4, Zenon DEF RoundTripTypeOK
<1>5. SavedValid /\ KeysOrdered
    BY <1>1, <1>2, <1>3 DEF SavedValid, KeysOrdered
<1>6. KeysSaved
  <2>1. Holds(at - 1) = {}
    BY <1>2 DEF Holds
  <2> QED
    BY <1>2, <1>3, <2>1 DEF KeysSaved
<1>7. Known
    BY <1>1, <1>2, OnAndRead DEF Known
<1> QED
    BY <1>2, <1>4, <1>5, <1>6, <1>7 DEF RoundTripInv, RestoredSoFar, SavedFileLoads

\* save-config saves a key if it is one of those in Holds.
LEMMA SavesIff ==
    ASSUME RoundTripInv, phase = "save", NEW a \in Attr
    PROVE  /\ Saves(a) <=> /\ a \in ReadBuffer => ~hw.iax
                           /\ a \in OnlyIfRead \cup {"driver_name", "op_config"}
                                => saved[a] # Missing
           /\ copy[a] = Read(saved)[a] /\ copy[a] \in Int
<1>1. sysfs = saved /\ copy = Read(saved) /\ copy[a] \in Int
    BY DEF RoundTripInv, Known, RoundTripTypeOK
<1>2. copy[a] >= 0 <=> saved[a] # Missing
  <2>1. saved[a] \in Nat \/ saved[a] = Missing
    BY Configured
  <2>2. copy[a] = IF saved[a] = Missing THEN -ENOENT ELSE saved[a]
    BY <1>1 DEF Read
  <2> QED
    BY <2>1, <2>2 DEF ENOENT
<1> QED
    BY <1>1, <1>2 DEF Saves

LEMMA SaveKeyInv ==
    ASSUME RoundTripInv, SaveKey
    PROVE  RoundTripInv'
<1> DEFINE a == FileOrder[at]
           e == [key |-> a, val |-> copy[a]]
           R == [key : Attr, val : Int]
           cond(b) == /\ b \in ReadBuffer => ~hw.iax
                      /\ b \in OnlyIfRead \cup {"driver_name", "op_config"}
                           => saved[b] # Missing
<1>1. /\ phase = "save" /\ at <= Len(FileOrder) /\ at' = at + 1
      /\ file' = IF Saves(a) THEN Append(file, e) ELSE file
      /\ UNCHANGED <<hw, sysfs, copy, phase, saved, loadRc, refused>>
    BY DEF SaveKey
<1>2. at \in 1..22 /\ Len(FileOrder) = 22 /\ file \in Seq(R)
    BY <1>1, PartsInOrder DEF RoundTripInv, RoundTripTypeOK
<1>3. a \in Attr /\ Place(a) = at
  <2>1. at \in DOMAIN FileOrder
    BY <1>2, PartsInOrder
  <2> QED
    BY <1>2, <2>1, OnePlace, ElementOf, Zenon
<1>4. /\ Saves(a) <=> cond(a)
      /\ copy[a] = Read(saved)[a] /\ copy[a] \in Int
    BY <1>1, <1>3, SavesIff
<1>5. e \in R /\ e.key = a /\ e.val = copy[a]
    BY <1>3, <1>4
<1> HIDE DEF e, R
<1>6. file' \in Seq(R)
    BY <1>1, <1>2, <1>5
<1>7. RoundTripTypeOK'
  <2>1. at' \in Nat /\ at' > 0 /\ at' <= Len(FileOrder) + 1
    BY <1>1, <1>2
  <2> QED
    BY <1>1, <1>6, <2>1, Zenon DEF RoundTripInv, RoundTripTypeOK, R
<1>8. /\ {file[i].key : i \in DOMAIN file} = Holds(at - 1)
      /\ \A i \in DOMAIN file : Place(file[i].key) \in 1..(at - 1)
  <2>1. {file[i].key : i \in DOMAIN file} = Holds(at - 1)
    BY <1>1 DEF RoundTripInv, KeysSaved
  <2>2. ASSUME NEW i \in DOMAIN file
        PROVE  Place(file[i].key) \in 1..(at - 1)
    <3>1. file[i].key \in Holds(at - 1)
      BY <2>1
    <3>2. PICK m \in 1..(at - 1) : FileOrder[m] = file[i].key
      BY <3>1 DEF Holds
    <3>3. m \in 1..22
      <4>1. at \in 1..22 /\ m \in 1..(at - 1)
        BY <1>2
      <4> QED
        BY <4>1
    <3>4. Place(FileOrder[m]) = m
      BY <3>3, OnePlace, Zenon
    <3> QED
      BY <3>2, <3>4
  <2> QED
    BY <2>1, <2>2
<1>9. /\ Saves(a) => /\ DOMAIN file' = DOMAIN file \cup {Len(file) + 1}
                     /\ \A i \in DOMAIN file : file'[i] = file[i] /\ i < Len(file) + 1
                     /\ file'[Len(file) + 1] = e
      /\ ~Saves(a) => file' = file
      /\ Len(file) \in Nat /\ DOMAIN file \subseteq Nat
    BY <1>1, <1>2, <1>5
<1>10. SavedValid'
  <2>1. \A i \in DOMAIN file : file[i].val = Read(saved)[file[i].key]
    BY DEF RoundTripInv, SavedValid
  <2>2. \A i \in DOMAIN file' : file'[i].val = Read(saved)[file'[i].key]
    BY <1>4, <1>5, <1>9, <2>1
  <2>3. Read(saved)' = Read(saved)
    BY <1>1 DEF Read
  <2> QED
    BY <1>1, <2>2, <2>3 DEF RoundTripInv, SavedValid
<1>11. KeysSaved'
  <2>1. at' - 1 = at
    BY <1>1, <1>2
  <2>2. Holds(at) = IF cond(a) THEN Holds(at - 1) \cup {a} ELSE Holds(at - 1)
    <3>1. 1..at = 1..(at - 1) \cup {at} /\ at \notin 1..(at - 1)
      BY <1>2
    <3> QED
      BY <3>1 DEF Holds
  <2>3. {file'[i].key : i \in DOMAIN file'} =
          IF Saves(a) THEN {file[i].key : i \in DOMAIN file} \cup {a}
                      ELSE {file[i].key : i \in DOMAIN file}
    BY <1>5, <1>9
  <2>4. \A n : Holds(n)' = Holds(n)
    BY <1>1 DEF Holds
  <2>5. {file'[i].key : i \in DOMAIN file'} = Holds(at)
    BY <1>4, <1>8, <2>2, <2>3
  <2> QED
    BY <1>1, <2>1, <2>4, <2>5 DEF KeysSaved
<1>12. KeysOrdered'
  <2>1. \A i, j \in DOMAIN file : i < j => Place(file[i].key) < Place(file[j].key)
    BY DEF RoundTripInv, KeysOrdered
  <2>2. CASE Saves(a)
    <3> SUFFICES ASSUME NEW i \in DOMAIN file', NEW j \in DOMAIN file', i < j
                 PROVE  Place(file'[i].key) < Place(file'[j].key)
      BY DEF KeysOrdered
    <3>1. i \in DOMAIN file
      BY <1>9, <2>2
    <3>2. CASE j \in DOMAIN file
      BY <1>9, <2>1, <2>2, <3>1, <3>2
    <3>3. CASE j = Len(file) + 1
      <4>1. Place(file'[j].key) = at /\ file'[i].key = file[i].key
        BY <1>3, <1>5, <1>9, <2>2, <3>1, <3>3
      <4>2. Place(file[i].key) \in 1..(at - 1)
        BY <1>8, <3>1
      <4> QED
        BY <1>2, <4>1, <4>2
    <3> QED
      BY <1>9, <2>2, <3>2, <3>3
  <2>3. CASE ~Saves(a)
    BY <1>9, <2>1, <2>3 DEF KeysOrdered
  <2> QED
    BY <2>2, <2>3
<1>13. Known'
    BY <1>1 DEF RoundTripInv, Known, Read
<1> QED
    BY <1>1, <1>7, <1>10, <1>11, <1>12, <1>13 DEF RoundTripInv, RestoredSoFar, SavedFileLoads

\* What the parts of the invariant about the file depend on.
LEMMA FileKept ==
    ASSUME RoundTripInv, UNCHANGED <<saved, file>>, hw'.iax = hw.iax,
           phase # "save", phase' # "save"
    PROVE  SavedValid' /\ KeysSaved' /\ KeysOrdered'
<1>1. SavedValid'
    BY DEF RoundTripInv, SavedValid, Read
<1>2. KeysSaved'
  <2>1. Holds(Len(FileOrder))' = Holds(Len(FileOrder))
    BY DEF Holds
  <2> QED
    BY <2>1 DEF RoundTripInv, KeysSaved
<1>3. KeysOrdered'
    BY DEF RoundTripInv, KeysOrdered
<1> QED
    BY <1>1, <1>2, <1>3

LEMMA SaveEndInv ==
    ASSUME RoundTripInv, SaveEnd
    PROVE  RoundTripInv'
<1>1. /\ phase = "save" /\ at > Len(FileOrder) /\ phase' = "between" /\ at' = 1
      /\ UNCHANGED <<hw, sysfs, copy, saved, file, loadRc, refused>>
    BY DEF SaveEnd
<1>2. at = 23 /\ Len(FileOrder) = 22 /\ Len(file) \in Nat
    BY <1>1, PartsInOrder DEF RoundTripInv, RoundTripTypeOK
<1>3. RoundTripTypeOK'
    BY <1>1, <1>2 DEF RoundTripInv, RoundTripTypeOK
<1>4. SavedValid' /\ KeysOrdered' /\ Known'
    BY <1>1 DEF RoundTripInv, SavedValid, KeysOrdered, Known, Read
<1>5. KeysSaved'
  <2>1. Holds(22)' = Holds(22)
    BY <1>1 DEF Holds
  <2> QED
    BY <1>1, <1>2, <2>1 DEF RoundTripInv, KeysSaved
<1> QED
    BY <1>1, <1>3, <1>4, <1>5 DEF RoundTripInv, RestoredSoFar, SavedFileLoads

LEMMA ReconfigureInv ==
    ASSUME RoundTripInv, Reconfigure
    PROVE  RoundTripInv'
<1>1. PICK c \in Config : Valid(c) /\ sysfs' = On(hw', c)
    BY DEF Reconfigure
<1>2. /\ phase = "between" /\ hw' \in Hardware /\ hw'.iax = hw.iax
      /\ copy' = Read(sysfs') /\ phase' = "load"
      /\ UNCHANGED <<saved, file, at, loadRc, refused>>
    BY DEF Reconfigure
<1>3. /\ sysfs' \in [Attr -> Nat \cup {Missing}] /\ copy' \in [Attr -> Int]
      /\ \A a \in Attr : sysfs'[a] = Missing <=> a \in hw'.lacks
    BY <1>1, <1>2, OnAndRead
<1>4. RoundTripTypeOK'
    BY <1>2, <1>3 DEF RoundTripInv, RoundTripTypeOK
<1>5. SavedValid' /\ KeysSaved' /\ KeysOrdered'
    BY <1>2, FileKept
<1>6. Known'
    BY <1>2, <1>3 DEF Known, Read
<1> QED
    BY <1>2, <1>4, <1>5, <1>6 DEF RoundTripInv, RestoredSoFar, SavedFileLoads

\* Of the places in the file.
LEMMA InFile ==
    ASSUME RoundTripInv, AtKey
    PROVE  /\ Len(file) \in Nat /\ DOMAIN file = 1..Len(file)
           /\ at \in Nat /\ at > 0 /\ at <= Len(file)
<1>1. file \in Seq([key : Attr, val : Int]) /\ at \in Nat /\ at > 0
    BY DEF RoundTripInv, RoundTripTypeOK
<1>2. Len(file) \in Nat /\ DOMAIN file = 1..Len(file)
    BY <1>1
<1> QED
    BY <1>1, <1>2 DEF AtKey

\* A key that has been dealt with: the invariant for the next one.
LEMMA GoesOn ==
    ASSUME RoundTripInv, AtKey, GoOn, UNCHANGED <<hw, saved, file, refused>>,
           sysfs' \in [Attr -> Nat \cup {Missing}], copy' \in [Attr -> Int],
           \A a \in Attr : sysfs'[a] = Missing <=> a \in hw.lacks,
           \A a \in Attr \ {"op_config"} : copy'[a] = Read(sysfs')[a],
           \A a \in Attr \ {key} : sysfs'[a] = sysfs[a],
           Matters(key) /\ saved[key] # Missing /\ sysfs'[key] # Missing
             => sysfs'[key] = saved[key]
    PROVE  RoundTripInv'
<1>1. at' = at + 1 /\ phase' = "load" /\ phase = "load" /\ loadRc' = loadRc
    BY DEF GoOn, AtKey
<1>2. /\ Len(file) \in Nat /\ DOMAIN file = 1..Len(file)
      /\ at \in Nat /\ at > 0 /\ at <= Len(file)
    BY InFile
<1>3. at' \in Nat /\ at' > 0 /\ at' <= Len(file) + 1
    BY <1>1, <1>2
<1>4. RoundTripTypeOK'
    BY <1>1, <1>3, Zenon DEF RoundTripInv, RoundTripTypeOK
<1>5. SavedValid' /\ KeysSaved' /\ KeysOrdered'
    BY <1>1, FileKept
<1>6. Known'
    BY <1>1 DEF Known, Read
<1>7. RestoredSoFar'
  <2> SUFFICES ASSUME NEW i \in 1..at, Matters(file[i].key), saved[file[i].key] # Missing,
                      sysfs'[file[i].key] # Missing
               PROVE  sysfs'[file[i].key] = saved[file[i].key]
    <3>1. at' - 1 = at
      BY <1>1, <1>2
    <3> QED
      BY <1>1, <3>1 DEF RestoredSoFar, Matters
  <2>1. CASE i = at
    BY <2>1 DEF key
  <2>2. CASE i # at
    <3>1. i \in 1..(at - 1) /\ i \in DOMAIN file /\ at \in DOMAIN file /\ i < at
      BY <1>2, <2>2
    <3>2. file[i].key \in Attr
      <4>1. file[i] \in [key : Attr, val : Int]
        BY <3>1, ElementOf, Zenon DEF RoundTripInv, RoundTripTypeOK
      <4> QED
        BY <4>1
    <3>3. file[i].key # key
      <4>1. Place(file[i].key) < Place(key)
        BY <3>1 DEF RoundTripInv, KeysOrdered, key
      <4>2. Place(file[i].key) \in 1..22
        BY <3>2, OnePlace, Zenon
      <4> QED
        BY <4>1, <4>2
    <3>4. sysfs'[file[i].key] = sysfs[file[i].key]
      BY <3>2, <3>3
    <3> QED
      BY <1>1, <3>1, <3>4 DEF RoundTripInv, RestoredSoFar
  <2> QED
    BY <2>1, <2>2
<1> QED
    BY <1>1, <1>4, <1>5, <1>6, <1>7 DEF RoundTripInv, SavedFileLoads

LEMMA LoadSkipInv ==
    ASSUME RoundTripInv, LoadSkip
    PROVE  RoundTripInv'
<1>1. AtKey /\ PassedOver /\ GoOn /\ UNCHANGED <<hw, sysfs, copy, saved, file, refused>>
    BY DEF LoadSkip
<1>2. /\ sysfs' \in [Attr -> Nat \cup {Missing}] /\ copy' \in [Attr -> Int]
      /\ \A a \in Attr : sysfs'[a] = Missing <=> a \in hw.lacks
      /\ \A a \in Attr \ {"op_config"} : copy'[a] = Read(sysfs')[a]
    BY <1>1 DEF RoundTripInv, RoundTripTypeOK, Known, Read
<1>3. ~(Matters(key) /\ saved[key] # Missing /\ sysfs'[key] # Missing)
    BY <1>1, SkipsNothing
<1> QED
    BY <1>1, <1>2, <1>3, GoesOn

LEMMA LoadWriteInv ==
    ASSUME RoundTripInv, LoadWrite
    PROVE  RoundTripInv'
<1>1. /\ AtKey /\ ~PassedOver /\ DriverTakes(key, val) /\ GoOn
      /\ sysfs' = [sysfs EXCEPT ![key] = val]
      /\ copy' = IF key = "op_config" THEN copy ELSE [copy EXCEPT ![key] = val]
      /\ UNCHANGED <<hw, saved, file, refused>>
    BY DEF LoadWrite
<1>2. key \in Attr /\ val \in Nat /\ val = saved[key] /\ sysfs[key] # Missing
    BY <1>1, AtHand, DriverTakesIt DEF DriverTakes
<1>3. /\ sysfs \in [Attr -> Nat \cup {Missing}] /\ copy \in [Attr -> Int]
      /\ \A a \in Attr : sysfs[a] = Missing <=> a \in hw.lacks
      /\ \A a \in Attr \ {"op_config"} :
           copy[a] = IF sysfs[a] = Missing THEN -ENOENT ELSE sysfs[a]
    BY DEF RoundTripInv, RoundTripTypeOK, Known, Read
<1>4. Missing \notin Int
    BY RoundTripAssumption
<1>5. sysfs' \in [Attr -> Nat \cup {Missing}] /\ copy' \in [Attr -> Int]
    BY <1>1, <1>2, <1>3
<1>6. \A a \in Attr : sysfs'[a] = Missing <=> a \in hw.lacks
    BY <1>1, <1>2, <1>3, <1>4
<1>7. \A a \in Attr \ {"op_config"} : copy'[a] = Read(sysfs')[a]
  <2> SUFFICES ASSUME NEW a \in Attr \ {"op_config"}
               PROVE  copy'[a] = IF sysfs'[a] = Missing THEN -ENOENT ELSE sysfs'[a]
    BY <1>5 DEF Read
  <2>1. CASE a = key
    BY <1>1, <1>2, <1>3, <1>4, <2>1
  <2>2. CASE a # key
    BY <1>1, <1>2, <1>3, <2>2
  <2> QED
    BY <2>1, <2>2
<1>8. /\ \A a \in Attr \ {key} : sysfs'[a] = sysfs[a]
      /\ sysfs'[key] = saved[key]
    BY <1>1, <1>2, <1>3
<1> QED
    BY <1>1, <1>5, <1>6, <1>7, <1>8, GoesOn

\* The load ends at a key or at the end of the file.
LEMMA Ends ==
    ASSUME RoundTripInv, phase = "load", phase' = "done", loadRc' \in {0, -1},
           UNCHANGED <<hw, sysfs, copy, saved, file, at>>, refused' \in BOOLEAN,
           loadRc' = 0 => at > Len(file), SavedFileLoads'
    PROVE  RoundTripInv'
<1>1. RoundTripTypeOK'
    BY Zenon DEF RoundTripInv, RoundTripTypeOK
<1>2. SavedValid' /\ KeysSaved' /\ KeysOrdered'
    BY FileKept
<1>3. Known' /\ RestoredSoFar'
    BY DEF RoundTripInv, Known, Read, RestoredSoFar, Matters
<1> QED
    BY <1>1, <1>2, <1>3 DEF RoundTripInv

LEMMA LoadInvalidInv ==
    ASSUME RoundTripInv, LoadInvalid
    PROVE  RoundTripInv'
<1>1. /\ AtKey /\ (Negative \/ (~PassedOver /\ ~DriverTakes(key, val)))
      /\ phase' = "done" /\ loadRc' = -1
      /\ UNCHANGED <<hw, sysfs, copy, saved, file, at, refused>>
    BY DEF LoadInvalid, Abort
<1>2. key = "op_config" /\ sysfs["op_config"] = Missing
    BY <1>1, NotNegative, DriverTakesIt
<1>3. SavedFileLoads' /\ refused' \in BOOLEAN /\ loadRc' \in {0, -1} /\ loadRc' # 0
    BY <1>1, <1>2 DEF SavedFileLoads, key, RoundTripInv, RoundTripTypeOK
<1> QED
    BY <1>1, <1>3, Ends DEF AtKey

LEMMA LoadRefusedInv ==
    ASSUME RoundTripInv, LoadRefused
    PROVE  RoundTripInv'
<1>1. /\ AtKey /\ phase' = "done" /\ loadRc' = -1 /\ refused' = TRUE
      /\ UNCHANGED <<hw, sysfs, copy, saved, file, at>>
    BY DEF LoadRefused, Abort
<1>2. SavedFileLoads' /\ loadRc' \in {0, -1} /\ loadRc' # 0
    BY <1>1 DEF SavedFileLoads
<1> QED
    BY <1>1, <1>2, Ends DEF AtKey

LEMMA LoadEndInv ==
    ASSUME RoundTripInv, LoadEnd
    PROVE  RoundTripInv'
<1>1. /\ phase = "load" /\ at > Len(file) /\ phase' = "done"
      /\ UNCHANGED <<hw, sysfs, copy, saved, file, at, loadRc, refused>>
    BY DEF LoadEnd
<1>2. SavedFileLoads' /\ refused' \in BOOLEAN /\ loadRc' \in {0, -1}
    BY <1>1 DEF SavedFileLoads, RoundTripInv, RoundTripTypeOK
<1> QED
    BY <1>1, <1>2, Ends

LEMMA RoundTripInductive ==
    ASSUME RoundTripInv, [RoundTripNext]_roundTripVars
    PROVE  RoundTripInv'
<1>1. CASE UNCHANGED roundTripVars
  <2>1. RoundTripTypeOK'
    BY <1>1, Zenon DEF roundTripVars, RoundTripInv, RoundTripTypeOK
  <2>2. SavedValid' /\ KeysOrdered'
    BY <1>1 DEF roundTripVars, RoundTripInv, SavedValid, KeysOrdered, Read
  <2>3. KeysSaved'
    <3>1. \A n : Holds(n)' = Holds(n)
      BY <1>1 DEF Holds, roundTripVars
    <3> QED
      BY <1>1, <3>1 DEF roundTripVars, RoundTripInv, KeysSaved
  <2>4. Known' /\ RestoredSoFar' /\ SavedFileLoads'
    BY <1>1 DEF roundTripVars, RoundTripInv, Known, Read, RestoredSoFar, Matters,
                SavedFileLoads
  <2> QED
    BY <1>1, <2>1, <2>2, <2>3, <2>4 DEF roundTripVars, RoundTripInv
<1> QED
    BY <1>1, SaveKeyInv, SaveEndInv, ReconfigureInv, LoadSkipInv, LoadWriteInv,
       LoadInvalidInv, LoadRefusedInv, LoadEndInv DEF RoundTripNext

LEMMA RoundTripInvariant == RoundTripSpec => []RoundTripInv
    BY RoundTripInitial, RoundTripInductive, PTL DEF RoundTripSpec

\* save-config and load-config: a load that ends with 0 has given the device
\* every attribute in the file that its driver has, for every configuration
\* before, every driver before and after, and every one in between.
THEOREM RestoredHolds == RoundTripSpec => []Restored
<1>1. RoundTripInv => Restored
  <2> SUFFICES ASSUME RoundTripInv, phase = "done", loadRc = 0, NEW i \in DOMAIN file
               PROVE  i \in 1..(at - 1)
    BY DEF Restored, RoundTripInv, RestoredSoFar
  <2>1. file \in Seq([key : Attr, val : Int]) /\ at \in Nat /\ at > Len(file)
    BY DEF RoundTripInv, RoundTripTypeOK
  <2>2. Len(file) \in Nat /\ DOMAIN file = 1..Len(file)
    BY <2>1
  <2> QED
    BY <2>1, <2>2
<1> QED
    BY <1>1, RoundTripInvariant, PTL

\* A saved file loads with any driver: it is given up only at a value the driver
\* refuses for reasons of its own, or at op_config if there is none any more.
THEOREM SavedFileLoadsHolds == RoundTripSpec => []SavedFileLoads
<1>1. RoundTripInv => SavedFileLoads
    BY DEF RoundTripInv
<1> QED
    BY <1>1, RoundTripInvariant, PTL
=============================================================================
