-------------------------- MODULE Enumeration_proof --------------------------
(***************************************************************************)
(* Proofs about Enumeration, for any directories, any number of references *)
(* and scans, and any failures.                                            *)
(***************************************************************************)
EXTENDS Enumeration, WellFoundedInduction, TLAPS

(* Facts about the operators *)

\* A set of natural numbers has a least element.
LEMMA LeastNat ==
    ASSUME NEW T \in SUBSET Nat, T # {}
    PROVE  \E k \in T : \A j \in T : k <= j
<1>1. PICK k \in T : \A j \in T : <<j, k>> \notin OpToRel(<, Nat)
    BY NatLessThanWellFounded, WFMin, Zenon
<1>2. \A j \in T : ~(j < k)
    BY <1>1, Zenon DEF OpToRel
<1> QED
    BY <1>2

\* f holds the lists after each of the first N entries of dir.
ListsTo(dir, failed, f, N) ==
    f = [n \in 0..N |->
           IF n = 0 THEN <<>>
           ELSE IF dir[n] \in failed THEN f[n - 1] ELSE Append(f[n - 1], dir[n])]

\* The recursion of Parse has a solution.
LEMMA ListsExist ==
    ASSUME NEW S, NEW dir \in Seq(S), NEW failed
    PROVE  \A N \in 0..Len(dir) : \E f : ListsTo(dir, failed, f, N)
<1> DEFINE Bad == {N \in 0..Len(dir) : ~ \E f : ListsTo(dir, failed, f, N)}
<1> SUFFICES ASSUME Bad # {} PROVE FALSE
    OBVIOUS
<1>1. PICK N \in Bad : \A j \in Bad : N <= j
  <2>1. Bad \in SUBSET Nat
    OBVIOUS
  <2> HIDE DEF Bad
  <2> QED
    BY <2>1, LeastNat
<1>2. N # 0
  <2>1. ListsTo(dir, failed, [n \in 0..0 |-> <<>>], 0)
    BY DEF ListsTo
  <2> QED
    BY <2>1
<1>3. N \in 1..Len(dir) /\ N - 1 \in 0..Len(dir) /\ N - 1 \notin Bad
    BY <1>1, <1>2
<1>4. PICK f : ListsTo(dir, failed, f, N - 1)
    BY <1>3
<1> DEFINE g == [n \in 0..N |->
                   IF n < N THEN f[n]
                   ELSE IF dir[N] \in failed THEN f[N - 1] ELSE Append(f[N - 1], dir[N])]
<1>5. \A n \in 0..(N - 1) : g[n] = f[n]
    BY <1>3
<1>6. ASSUME NEW n \in 0..N
      PROVE  g[n] = IF n = 0 THEN <<>>
                    ELSE IF dir[n] \in failed THEN g[n - 1] ELSE Append(g[n - 1], dir[n])
  <2>1. CASE n = N
    <3>1. g[n] = IF dir[N] \in failed THEN f[N - 1] ELSE Append(f[N - 1], dir[N])
      BY <1>3, <2>1
    <3>2. g[n - 1] = f[N - 1]
      BY <1>3, <1>5, <2>1
    <3> QED
      BY <1>3, <2>1, <3>1, <3>2
  <2>2. CASE n # N
    <3>1. n \in 0..(N - 1) /\ g[n] = f[n]
      BY <1>3, <1>5, <2>2
    <3>2. f[n] = IF n = 0 THEN <<>>
                 ELSE IF dir[n] \in failed THEN f[n - 1] ELSE Append(f[n - 1], dir[n])
      BY <1>4, <3>1 DEF ListsTo
    <3>3. n # 0 => g[n - 1] = f[n - 1]
      BY <1>3, <1>5, <3>1
    <3> QED
      BY <3>1, <3>2, <3>3
  <2> QED
    BY <2>1, <2>2
<1>7. ListsTo(dir, failed, g, N)
    BY <1>6 DEF ListsTo
<1> QED
    BY <1>7

\* Parse is the last of these lists.
LEMMA ParseIsLast ==
    ASSUME NEW S, NEW dir \in Seq(S), NEW failed
    PROVE  \E f : ListsTo(dir, failed, f, Len(dir)) /\ Parse(dir, failed) = f[Len(dir)]
<1>1. \E f : ListsTo(dir, failed, f, Len(dir))
  <2>1. Len(dir) \in 0..Len(dir)
    OBVIOUS
  <2> QED
    BY <2>1, ListsExist
<1>2. \E f : f = [n \in 0..Len(dir) |->
           IF n = 0 THEN <<>>
           ELSE IF dir[n] \in failed THEN f[n - 1] ELSE Append(f[n - 1], dir[n])]
    BY <1>1 DEF ListsTo
<1> QED
    BY <1>2 DEF ListsTo, Parse

\* A list with one more entry.
LEMMA RangeAppend ==
    ASSUME NEW S, NEW s \in Seq(S), NEW e \in S
    PROVE  Range(Append(s, e)) = Range(s) \cup {e}
<1>1. /\ DOMAIN Append(s, e) = 1..(Len(s) + 1) /\ DOMAIN s = 1..Len(s)
      /\ \A i \in 1..Len(s) : Append(s, e)[i] = s[i]
      /\ Append(s, e)[Len(s) + 1] = e /\ Len(s) \in Nat
    OBVIOUS
<1>2. 1..(Len(s) + 1) = 1..Len(s) \cup {Len(s) + 1}
    BY <1>1
<1> QED
    BY <1>1, <1>2, Zenon DEF Range

\* The entries that work out are on the list, and no others.
LEMMA Parsed ==
    ASSUME NEW S, NEW dir \in Seq(S), NEW failed
    PROVE  /\ Parse(dir, failed) \in Seq(S)
           /\ \A x : x \in Range(Parse(dir, failed)) <=> x \in Range(dir) /\ x \notin failed
<1>1. PICK f : ListsTo(dir, failed, f, Len(dir)) /\ Parse(dir, failed) = f[Len(dir)]
    BY ParseIsLast
<1>2. \A n \in 0..Len(dir) :
        f[n] = IF n = 0 THEN <<>>
               ELSE IF dir[n] \in failed THEN f[n - 1] ELSE Append(f[n - 1], dir[n])
    BY <1>1 DEF ListsTo
<1> DEFINE Good(n) == /\ f[n] \in Seq(S)
                      /\ \A x : x \in Range(f[n]) <=> \E i \in 1..n : x = dir[i] /\ x \notin failed
           Bad == {n \in 0..Len(dir) : ~Good(n)}
<1>3. Bad = {}
  <2> SUFFICES ASSUME Bad # {} PROVE FALSE
    OBVIOUS
  <2>1. PICK N \in Bad : \A j \in Bad : N <= j
    <3>1. Bad \in SUBSET Nat
      OBVIOUS
    <3> HIDE DEF Bad
    <3> QED
      BY <3>1, LeastNat
  <2>2. N # 0
    <3>1. f[0] = <<>>
      BY <1>2
    <3>2. f[0] \in Seq(S) /\ Range(f[0]) = {}
      BY <3>1 DEF Range
    <3> QED
      BY <3>2
  <2>3. N \in 1..Len(dir) /\ N - 1 \in 0..Len(dir) /\ N - 1 \notin Bad
    <3>1. N \in 0..Len(dir) /\ Len(dir) \in Nat
      OBVIOUS
    <3> HIDE DEF Bad
    <3> QED
      BY <2>1, <2>2, <3>1
  <2>4. Good(N - 1)
    BY <2>3
  <2>5. f[N] = IF dir[N] \in failed THEN f[N - 1] ELSE Append(f[N - 1], dir[N])
    BY <1>2, <2>3
  <2>6. dir[N] \in S
    BY <2>3
  <2>7. CASE dir[N] \in failed
    BY <2>3, <2>4, <2>5, <2>7
  <2>8. CASE dir[N] \notin failed
    <3>1. f[N] = Append(f[N - 1], dir[N]) /\ f[N] \in Seq(S)
      BY <2>4, <2>5, <2>6, <2>8
    <3>2. Range(f[N]) = Range(f[N - 1]) \cup {dir[N]}
      BY <2>4, <2>6, <3>1, RangeAppend
    <3>3. \A x : (\E i \in 1..N : x = dir[i] /\ x \notin failed)
                   <=> (\E i \in 1..(N - 1) : x = dir[i] /\ x \notin failed) \/ x = dir[N]
      <4>1. 1..N = 1..(N - 1) \cup {N}
        BY <2>3
      <4> QED
        BY <2>8, <4>1
    <3>4. Good(N)
      BY <2>4, <3>1, <3>2, <3>3
    <3> QED
      BY <3>4
  <2> QED
    BY <2>7, <2>8
<1>4. Good(Len(dir))
  <2>1. Len(dir) \in 0..Len(dir)
    OBVIOUS
  <2> HIDE DEF Good
  <2> QED
    BY <1>3, <2>1
<1>5. Range(dir) = {dir[i] : i \in 1..Len(dir)}
    BY DEF Range
<1> QED
    BY <1>1, <1>4, <1>5

\* Two lists, one after the other.
LEMMA RangeConcat ==
    ASSUME NEW S, NEW s \in Seq(S), NEW t \in Seq(S)
    PROVE  s \o t \in Seq(S) /\ Range(s \o t) = Range(s) \cup Range(t)
<1>1. s \o t \in Seq(S)
    OBVIOUS
<1>2. \A x \in Range(s \o t) : x \in Range(s) \cup Range(t)
    BY DEF Range
<1>3. \A x \in Range(s) : x \in Range(s \o t)
    BY DEF Range
<1>4. \A x \in Range(t) : x \in Range(s \o t)
  <2> SUFFICES ASSUME NEW i \in 1..Len(t) PROVE t[i] \in Range(s \o t)
    BY DEF Range
  <2>1. (s \o t)[Len(s) + i] = t[i] /\ Len(s) + i \in DOMAIN (s \o t)
    OBVIOUS
  <2> QED
    BY <2>1 DEF Range
<1> QED
    BY <1>1, <1>2, <1>3, <1>4

\* Empty lists.
LEMMA EmptyLists ==
    ASSUME NEW S, NEW s \in Seq(S)
    PROVE  (DOMAIN s = {} => s = <<>>) /\ <<>> \o s = s
<1>1. Len(s) \in Nat /\ DOMAIN s = 1..Len(s)
    OBVIOUS
<1>2. ASSUME DOMAIN s = {} PROVE s = <<>>
  <2>1. Len(s) = 0
    BY <1>1, <1>2
  <2> QED
    BY <2>1
<1>3. <<>> \o s = s
    OBVIOUS
<1> QED
    BY <1>2, <1>3

\* What the directories hold.
LEMMA Dirs ==
    /\ DeviceDir \in Seq(Device)
    /\ \A d \in Device : /\ GroupDir[d] \in Seq(Group)
                         /\ Dir("wq")[d] \in Seq(Wq) /\ Dir("engine")[d] \in Seq(Engine)
    /\ \A c, d \in Device : c # d => Range(GroupDir[c]) \cap Range(GroupDir[d]) = {}
    /\ \A d \in Device : Range(GroupDir[d]) \subseteq Group
    /\ NoGroup \notin Group
<1>1. \A d \in Device : GroupDir[d] \in Seq(Group)
    BY EnumerationAssumption
<1>2. \A d \in Device : Range(GroupDir[d]) \subseteq Group
    BY <1>1 DEF Range
<1>3. \A d \in Device : Dir("wq")[d] \in Seq(Wq) /\ Dir("engine")[d] \in Seq(Engine)
    BY EnumerationAssumption DEF Dir
<1>4. \A c, d \in Device : c # d => Range(GroupDir[c]) \cap Range(GroupDir[d]) = {}
    BY EnumerationAssumption
<1> QED
    BY <1>1, <1>2, <1>3, <1>4, EnumerationAssumption

\* device->group is a group that got as far as the assignment, or NULL.
LEMMA LastGroup ==
    ASSUME NEW d \in Device, NEW early, NEW late
    PROVE  \/ GroupPtr(d, early, late) = NoGroup
           \/ /\ GroupPtr(d, early, late) \in Range(GroupDir[d])
              /\ GroupPtr(d, early, late) \notin early
<1> DEFINE reached == Parse(GroupDir[d], early)
<1>1. /\ reached \in Seq(Group)
      /\ \A x : x \in Range(reached) <=> x \in Range(GroupDir[d]) /\ x \notin early
    BY Dirs, Parsed
<1>2. GroupPtr(d, early, late) = IF reached = <<>> THEN NoGroup ELSE Last(reached)
    BY DEF GroupPtr
<1> HIDE DEF reached
<1>3. CASE reached # <<>>
  <2>1. Len(reached) \in DOMAIN reached
    BY <1>1, <1>3
  <2>2. Last(reached) \in Range(reached)
    BY <2>1 DEF Last, Range
  <2> QED
    BY <1>1, <1>2, <1>3, <2>2
<1> QED
    BY <1>2, <1>3

-----------------------------------------------------------------------------
(* The steps *)

\* A step that leaves the lists alone.
LEMMA SameLists ==
    ASSUME IInv, UNCHANGED listVars, ListTypeOK', Unscanned',
           (UNCHANGED lateGroup /\ missed \subseteq missed') \/ ~devicesInit
    PROVE  IInv'
<1>1. UNCHANGED <<devices, groups, groupPtr, wqs, engines, initFlag, heap>>
    BY DEF listVars
<1>2. OwnGroup' /\ HeapIsListed'
    BY <1>1 DEF IInv, OwnGroup, HeapIsListed
<1>3. ListedOnce' /\ GroupsLive'
  <2>1. CASE ~devicesInit
    <3>1. Range(devices') = {}
      BY <1>1, <2>1 DEF IInv, Unscanned, Range
    <3> QED
      BY <3>1 DEF ListedOnce, GroupsLive
  <2>2. CASE UNCHANGED lateGroup /\ missed \subseteq missed'
    <3>1. GroupsLive'
      BY <1>1, <2>2 DEF IInv, GroupsLive
    <3>2. ASSUME NEW d \in Range(devices), NEW kind \in Kind,
                 groupPtr[d] # NoGroup, ~Dangling(d)
          PROVE  LET ids == [i \in DOMAIN List(kind)[d] |-> List(kind)[d][i].id]
                 IN  \/ <<kind, groupPtr[d]>> \notin initFlag /\ ids = <<>>
                     \/ /\ <<kind, groupPtr[d]>> \in initFlag
                        /\ \E F \in SUBSET missed' : ids = Parse(Dir(kind)[d], F)
      <4> DEFINE ids == [i \in DOMAIN List(kind)[d] |-> List(kind)[d][i].id]
      <4>1. \/ <<kind, groupPtr[d]>> \notin initFlag /\ ids = <<>>
            \/ /\ <<kind, groupPtr[d]>> \in initFlag
               /\ \E F \in SUBSET missed : ids = Parse(Dir(kind)[d], F)
        BY <3>2 DEF IInv, ListedOnce
      <4> HIDE DEF ids
      <4>2. \/ <<kind, groupPtr[d]>> \notin initFlag /\ ids = <<>>
            \/ /\ <<kind, groupPtr[d]>> \in initFlag
               /\ \E F \in SUBSET missed' : ids = Parse(Dir(kind)[d], F)
        BY <2>2, <4>1
      <4> QED
        BY <4>2 DEF ids
    <3>3. \A kind : List(kind)' = List(kind)
      BY <1>1 DEF List
    <3>4. ListedOnce'
      BY <1>1, <2>2, <3>2, <3>3 DEF ListedOnce, Dangling
    <3> QED
      BY <3>1, <3>4
  <2> QED
    BY <2>1, <2>2
<1> QED
    BY <1>2, <1>3 DEF IInv

LEMMA NewInv ==
    ASSUME IInv, New
    PROVE  IInv'
<1>1. /\ refcount = 0 /\ refcount' = 1 /\ devicesInit' = FALSE /\ UNCHANGED listVars
      /\ scans' = [d \in Device |-> [k \in Kind |-> 0]]
      /\ ~devicesInit
    BY DEF New, IInv, Unscanned
<1>2. ListTypeOK'
  <2>1. refcount' \in 0..MaxRef /\ scans' \in [Device -> [Kind -> 0..MaxScan]]
    BY <1>1, EnumerationAssumption
  <2>2. devicesInit' \in BOOLEAN
    BY <1>1, Zenon
  <2> QED
    BY <1>1, <2>1, <2>2 DEF IInv, ListTypeOK, listVars
<1>3. Unscanned'
    BY <1>1 DEF IInv, Unscanned, listVars
<1> QED
    BY <1>1, <1>2, <1>3, SameLists

LEMMA RefInv ==
    ASSUME IInv, Ref
    PROVE  IInv'
<1>1. /\ refcount \in 1..(MaxRef - 1) /\ refcount' = refcount + 1
      /\ UNCHANGED <<devicesInit, listVars, scans, missed, lateGroup>>
    BY DEF Ref
<1>2. refcount' \in 0..MaxRef /\ refcount' # 0
    BY <1>1, EnumerationAssumption
<1>3. ListTypeOK' /\ Unscanned'
    BY <1>1, <1>2 DEF IInv, ListTypeOK, Unscanned, listVars
<1> QED
    BY <1>1, <1>3, SameLists

\* The last reference goes: every object of the heap is on some list.
LEMMA FreedIsAll ==
    ASSUME IInv
    PROVE  heap \ Freed = {}
<1> SUFFICES ASSUME NEW o \in heap PROVE o \in Freed
    OBVIOUS
<1>1. HeapIsListed
    BY DEF IInv
<1>2. CASE o \in {Obj("device", d, 1, NoGroup) : d \in Range(devices)}
    BY <1>2 DEF Freed, Obj
<1>3. ASSUME NEW d \in Range(devices), o \in {Obj("group", g, 1, NoGroup) : g \in Range(groups[d])}
      PROVE  o \in Freed
    BY <1>3 DEF Freed, Obj
<1>4. ASSUME NEW d \in Range(devices), o \in Range(wqs[d]) \cup Range(engines[d])
      PROVE  o \in Freed
    BY <1>4 DEF Freed
<1> QED
    BY <1>1, <1>2, <1>3, <1>4 DEF HeapIsListed

LEMMA UnrefInv ==
    ASSUME IInv, Unref
    PROVE  IInv'
<1>0. /\ refcount \in 1..MaxRef /\ refcount' = refcount - 1
      /\ UNCHANGED <<scans, missed, lateGroup>>
    BY EnumerationAssumption DEF Unref, IInv, ListTypeOK
<1>1. refcount' \in 0..MaxRef /\ (refcount > 1 => refcount' # 0)
    BY <1>0, EnumerationAssumption
<1>2. CASE refcount > 1
  <2>1. UNCHANGED <<devicesInit, listVars>>
    BY <1>2 DEF Unref
  <2>2. ListTypeOK' /\ Unscanned'
    BY <1>0, <1>1, <1>2, <2>1 DEF IInv, ListTypeOK, Unscanned, listVars
  <2> QED
    BY <1>0, <2>1, <2>2, SameLists
<1>3. CASE ~(refcount > 1)
  <2>1. /\ devicesInit' = FALSE
        /\ devices' = <<>> /\ groups' = NoList /\ groupPtr' = NoPtr
        /\ wqs' = NoList /\ engines' = NoList /\ initFlag' = {}
        /\ heap' = {}
    BY <1>3, FreedIsAll DEF Unref
  <2>2. devicesInit' \in BOOLEAN
    BY <2>1, Zenon
  <2>3. /\ <<>> \in Seq(Device)
        /\ NoList \in [Device -> Seq(Group)] /\ NoList \in [Device -> Seq(ObjectSet)]
        /\ NoPtr \in [Device -> Group \cup {NoGroup}]
    BY DEF NoList, NoPtr
  <2>4. ListTypeOK'
    BY <1>0, <1>1, <2>1, <2>2, <2>3 DEF IInv, ListTypeOK
  <2>5. Unscanned'
    BY <2>1 DEF Unscanned
  <2>6. Range(devices') = {}
    BY <2>1 DEF Range
  <2>7. OwnGroup'
    BY <2>1 DEF OwnGroup, NoPtr
  <2>8. ListedOnce' /\ HeapIsListed' /\ GroupsLive'
    BY <2>1, <2>6 DEF ListedOnce, HeapIsListed, GroupsLive
  <2> QED
    BY <2>4, <2>5, <2>7, <2>8 DEF IInv
<1> QED
    BY <1>2, <1>3

\* The objects of all groups, taken together or device by device.
LEMMA GroupObjects ==
    ASSUME NEW D, NEW lists
    PROVE  {Obj("group", g, 1, NoGroup) : g \in UNION {Range(lists[d]) : d \in D}}
             = UNION {{Obj("group", g, 1, NoGroup) : g \in Range(lists[d])} : d \in D}
<1> DEFINE A == {Obj("group", g, 1, NoGroup) : g \in UNION {Range(lists[d]) : d \in D}}
           B == UNION {{Obj("group", g, 1, NoGroup) : g \in Range(lists[d])} : d \in D}
<1>1. ASSUME NEW o \in A PROVE o \in B
  <2>1. PICK d \in D : \E g \in Range(lists[d]) : o = Obj("group", g, 1, NoGroup)
    OBVIOUS
  <2> QED
    BY <2>1
<1>2. ASSUME NEW o \in B PROVE o \in A
  <2>1. PICK d \in D : \E g \in Range(lists[d]) : o = Obj("group", g, 1, NoGroup)
    OBVIOUS
  <2>2. PICK g \in Range(lists[d]) : o = Obj("group", g, 1, NoGroup)
    BY <2>1
  <2>3. g \in UNION {Range(lists[c]) : c \in D}
    OBVIOUS
  <2> QED
    BY <2>2, <2>3
<1> QED
    BY <1>1, <1>2

\* The scan of the devices and their groups.
LEMMA DevicesInitInv ==
    ASSUME IInv, DevicesInit
    PROVE  IInv'
<1>1. /\ refcount > 0 /\ devicesInit' = TRUE /\ ~devicesInit
      /\ UNCHANGED <<refcount, wqs, engines, initFlag, scans>>
    BY DEF DevicesInit
<1>2. /\ wqs = NoList /\ engines = NoList /\ initFlag = {} /\ heap = {}
      /\ ListTypeOK /\ refcount \in Nat
    BY <1>1 DEF IInv, Unscanned, ListTypeOK
<1>3. PICK noDevice \in SUBSET Device, early \in SUBSET Group, late \in SUBSET Group :
         /\ devices' = Parse(DeviceDir, noDevice)
         /\ groups' = [d \in Device |->
                         IF d \in Range(devices')
                         THEN Parse(GroupDir[d], early \cup late) ELSE <<>>]
         /\ groupPtr' = [d \in Device |-> IF d \in Range(devices')
                                          THEN GroupPtr(d, early, late) ELSE NoGroup]
         /\ lateGroup' = late
         /\ heap' = heap
              \cup {Obj("device", d, 1, NoGroup) : d \in Range(devices')}
              \cup {Obj("group", g, 1, NoGroup) : g \in UNION {Range(groups'[d]) : d \in Device}}
    BY DEF DevicesInit
<1>4. devices' \in Seq(Device) /\ Range(devices') \subseteq Device
  <2>1. devices' \in Seq(Device)
    BY <1>3, Dirs, Parsed
  <2> QED
    BY <2>1 DEF Range
<1>5. groups' \in [Device -> Seq(Group)]
  <2>1. \A d \in Device : Parse(GroupDir[d], early \cup late) \in Seq(Group)
    BY Dirs, Parsed
  <2>2. <<>> \in Seq(Group)
    OBVIOUS
  <2> QED
    BY <1>3, <2>1, <2>2
<1>6. OwnGroup' /\ groupPtr' \in [Device -> Group \cup {NoGroup}]
  <2>1. \A d \in Device : GroupPtr(d, early, late) \in Range(GroupDir[d]) \cup {NoGroup}
    BY LastGroup
  <2>2. \A d \in Device : groupPtr'[d] \in Range(GroupDir[d]) \cup {NoGroup}
    BY <1>3, <2>1
  <2>3. \A d \in Device : groupPtr'[d] \in Group \cup {NoGroup}
    BY <2>2, Dirs
  <2>4. groupPtr' = [d \in Device |-> groupPtr'[d]]
    BY <1>3
  <2> QED
    BY <2>2, <2>3, <2>4 DEF OwnGroup
<1>7. ListTypeOK'
  <2>1. devicesInit' \in BOOLEAN
    BY <1>1, Zenon
  <2> QED
    BY <1>1, <1>2, <1>4, <1>5, <1>6, <2>1 DEF ListTypeOK
<1>8. Unscanned'
    BY <1>1, <1>2 DEF Unscanned
<1>9. \A d \in Device : Range(wqs[d]) = {} /\ Range(engines[d]) = {}
    BY <1>2 DEF NoList, Range
<1>10. \A d \in Device : d \notin Range(devices') => Range(groups'[d]) = {}
    BY <1>3 DEF Range
<1>11. HeapIsListed'
  <2>1. UNION {Range(groups'[d]) : d \in Device} = UNION {Range(groups'[d]) : d \in Range(devices')}
    BY <1>4, <1>10
  <2>2. {Obj("group", g, 1, NoGroup) : g \in UNION {Range(groups'[d]) : d \in Device}}
          = UNION {{Obj("group", g, 1, NoGroup) : g \in Range(groups'[d])}
                     \cup Range(wqs'[d]) \cup Range(engines'[d]) : d \in Range(devices')}
    <3>1. \A d \in Range(devices') :
            {Obj("group", g, 1, NoGroup) : g \in Range(groups'[d])}
              \cup Range(wqs'[d]) \cup Range(engines'[d])
            = {Obj("group", g, 1, NoGroup) : g \in Range(groups'[d])}
      BY <1>1, <1>4, <1>9
    <3>2. {Obj("group", g, 1, NoGroup) : g \in UNION {Range(groups'[d]) : d \in Range(devices')}}
            = UNION {{Obj("group", g, 1, NoGroup) : g \in Range(groups'[d])} :
                       d \in Range(devices')}
      BY GroupObjects
    <3> QED
      BY <2>1, <3>1, <3>2
  <2> QED
    BY <1>2, <1>3, <2>2 DEF HeapIsListed
<1>12. ListedOnce'
  <2> SUFFICES ASSUME NEW d \in Range(devices'), NEW kind \in Kind
               PROVE  LET ids == [i \in DOMAIN List(kind)'[d] |-> List(kind)'[d][i].id]
                      IN  <<kind, groupPtr'[d]>> \notin initFlag' /\ ids = <<>>
    BY DEF ListedOnce
  <2>1. List(kind)'[d] = <<>>
    BY <1>1, <1>2, <1>4 DEF List, NoList
  <2> QED
    BY <1>1, <1>2, <2>1
<1>13. GroupsLive'
  <2> SUFFICES ASSUME NEW d \in Range(devices'), NEW g,
                      g = groupPtr'[d], g # NoGroup, g \notin late
               PROVE  Obj("group", g, 1, NoGroup) \in heap'
    BY <1>1, <1>3, <1>4, <1>9 DEF GroupsLive
  <2>1. d \in Device /\ g = GroupPtr(d, early, late)
    BY <1>3, <1>4
  <2>2. g \in Range(GroupDir[d]) /\ g \notin early
    BY <2>1, LastGroup
  <2>3. g \in Range(Parse(GroupDir[d], early \cup late))
    BY <2>1, <2>2, Dirs, Parsed
  <2>4. g \in Range(groups'[d])
    BY <1>3, <2>1, <2>3
  <2> QED
    BY <1>3, <2>1, <2>4
<1> QED
    BY <1>6, <1>7, <1>8, <1>11, <1>12, <1>13 DEF IInv

\* A scan of wqs or engines: new objects are appended, one for each directory
\* that worked out, with the group of the device.
LEMMA ScanEffect ==
    ASSUME IInv, NEW kind \in Kind, NEW d \in Device, Scan(kind, d)
    PROVE  \E failed, new :
             /\ new \in Seq(ObjectSet)
             /\ missed' = missed \cup failed /\ heap' = heap \cup Range(new)
             /\ List(kind)' = [List(kind) EXCEPT ![d] = @ \o new]
             /\ \A k \in Kind \ {kind} : List(k)' = List(k)
             /\ [i \in DOMAIN new |-> new[i].id] = Parse(Dir(kind)[d], failed)
             /\ \A o \in Range(new) : o.group = groupPtr[d]
<1>1. PICK failed \in SUBSET Range(Dir(kind)[d]) :
         LET found == Parse(Dir(kind)[d], failed)
             new   == [i \in DOMAIN found |->
                         Obj(kind, found[i], scans[d][kind] + 1, groupPtr[d])]
         IN  /\ missed' = missed \cup failed
             /\ heap' = heap \cup Range(new)
             /\ IF kind = "wq"
                  THEN wqs' = [wqs EXCEPT ![d] = @ \o new] /\ UNCHANGED engines
                  ELSE engines' = [engines EXCEPT ![d] = @ \o new] /\ UNCHANGED wqs
    BY DEF Scan
<1> DEFINE found == Parse(Dir(kind)[d], failed)
           new   == [i \in DOMAIN found |->
                       Obj(kind, found[i], scans[d][kind] + 1, groupPtr[d])]
           Ids   == IF kind = "wq" THEN Wq ELSE Engine
<1>2. found \in Seq(Ids)
    BY Dirs, Parsed DEF Kind
<1>3. scans[d][kind] + 1 \in 1..MaxScan /\ groupPtr[d] \in Group \cup {NoGroup}
  <2>1. scans[d][kind] \in 0..MaxScan /\ scans[d][kind] < MaxScan /\ MaxScan \in Nat
    BY EnumerationAssumption DEF IInv, ListTypeOK, Scan
  <2>2. groupPtr[d] \in Group \cup {NoGroup}
    BY DEF IInv, ListTypeOK
  <2> QED
    BY <2>1, <2>2
<1>4. \A x \in Ids : Obj(kind, x, scans[d][kind] + 1, groupPtr[d]) \in ObjectSet
    BY <1>3 DEF Kind, ObjectSet, Obj
<1>5. /\ missed' = missed \cup failed /\ heap' = heap \cup Range(new)
      /\ IF kind = "wq" THEN wqs' = [wqs EXCEPT ![d] = @ \o new] /\ UNCHANGED engines
                        ELSE engines' = [engines EXCEPT ![d] = @ \o new] /\ UNCHANGED wqs
    BY <1>1
<1>6. new \in Seq(ObjectSet)
  <2> HIDE DEF found
  <2>1. /\ DOMAIN found = 1..Len(found) /\ Len(found) \in Nat
        /\ \A i \in DOMAIN found : found[i] \in Ids
    BY <1>2
  <2> QED
    BY <1>4, <2>1
<1>7. [i \in DOMAIN new |-> new[i].id] = found
  <2> HIDE DEF found
  <2>1. found = [i \in DOMAIN found |-> found[i]]
    BY <1>2
  <2>2. DOMAIN new = DOMAIN found /\ \A i \in DOMAIN new : new[i].id = found[i]
    BY DEF Obj
  <2> QED
    BY <2>1, <2>2
<1>8. \A o \in Range(new) : o.group = groupPtr[d]
  <2> HIDE DEF found
  <2> QED
    BY DEF Range, Obj
<1> HIDE DEF new
<1>9. /\ List(kind)' = [List(kind) EXCEPT ![d] = @ \o new]
      /\ \A k \in Kind \ {kind} : List(k)' = List(k)
    BY <1>5 DEF List, Kind
<1> QED
    BY <1>5, <1>6, <1>7, <1>8, <1>9

LEMMA ScanInv ==
    ASSUME IInv, NEW kind \in Kind, NEW d \in Range(devices), Scan(kind, d),
           devicesInit, UNCHANGED <<refcount, devicesInit, lateGroup>>
    PROVE  IInv'
<1>1. /\ UNCHANGED <<devices, groups, groupPtr>> /\ MayScan(kind, d) /\ SetFlag(kind, d)
      /\ scans' = [scans EXCEPT ![d][kind] = @ + 1] /\ scans[d][kind] < MaxScan
    BY DEF Scan
<1>2. ListTypeOK /\ d \in Device /\ Range(devices) \subseteq Device
    BY DEF IInv, ListTypeOK, Range
<1>3. PICK failed, new :
             /\ new \in Seq(ObjectSet)
             /\ missed' = missed \cup failed /\ heap' = heap \cup Range(new)
             /\ List(kind)' = [List(kind) EXCEPT ![d] = @ \o new]
             /\ \A k \in Kind \ {kind} : List(k)' = List(k)
             /\ [i \in DOMAIN new |-> new[i].id] = Parse(Dir(kind)[d], failed)
             /\ \A o \in Range(new) : o.group = groupPtr[d]
    BY <1>2, ScanEffect
<1>4. \A k \in Kind : List(k) \in [Device -> Seq(ObjectSet)]
    BY <1>2 DEF ListTypeOK, List, Kind
<1>5. /\ \A k \in Kind, c \in Device : k # kind \/ c # d => List(k)'[c] = List(k)[c]
      /\ List(kind)'[d] = List(kind)[d] \o new
    BY <1>2, <1>3, <1>4
<1>6. /\ List(kind)'[d] \in Seq(ObjectSet)
      /\ Range(List(kind)'[d]) = Range(List(kind)[d]) \cup Range(new)
  <2>1. List(kind)[d] \in Seq(ObjectSet)
    BY <1>2, <1>4
  <2>2. new \in Seq(ObjectSet) /\ List(kind)'[d] = List(kind)[d] \o new
    BY <1>3, <1>5
  <2> DEFINE old == List(kind)[d]
  <2>3. old \in Seq(ObjectSet) /\ List(kind)'[d] = old \o new
    BY <2>1, <2>2
  <2> HIDE DEF old
  <2>4. old \o new \in Seq(ObjectSet) /\ Range(old \o new) = Range(old) \cup Range(new)
    BY <2>2, <2>3, RangeConcat
  <2>5. List(kind)'[d] \in Seq(ObjectSet) /\ Range(List(kind)'[d]) = Range(old) \cup Range(new)
    BY <2>3, <2>4
  <2> QED
    BY <2>5 DEF old
<1>7. ListTypeOK'
  <2>1. \A k \in Kind : List(k)' \in [Device -> Seq(ObjectSet)]
    <3>1. List(kind)' \in [Device -> Seq(ObjectSet)]
      BY <1>2, <1>3, <1>4, <1>6
    <3> QED
      BY <1>3, <1>4, <3>1
  <2>2. wqs' \in [Device -> Seq(ObjectSet)] /\ engines' \in [Device -> Seq(ObjectSet)]
    BY <2>1 DEF List, Kind
  <2>3. scans' \in [Device -> [Kind -> 0..MaxScan]]
    <3>1. scans[d][kind] + 1 \in 0..MaxScan /\ scans \in [Device -> [Kind -> 0..MaxScan]]
      BY <1>1, <1>2, EnumerationAssumption DEF ListTypeOK
    <3> QED
      BY <1>1, <1>2, <3>1
  <2>4. initFlag' \subseteq Kind \X Group
    BY <1>1, <1>2 DEF SetFlag, ListTypeOK
  <2> QED
    BY <1>1, <1>2, <2>2, <2>3, <2>4 DEF ListTypeOK
<1>8. Unscanned' /\ OwnGroup'
    BY <1>1 DEF IInv, Unscanned, OwnGroup
<1>9. \A c \in Device :
        Range(wqs'[c]) \cup Range(engines'[c])
          = Range(wqs[c]) \cup Range(engines[c]) \cup (IF c = d THEN Range(new) ELSE {})
  <2>1. \A k \in Kind, c \in Device :
          Range(List(k)'[c]) = Range(List(k)[c])
                                 \cup (IF k = kind /\ c = d THEN Range(new) ELSE {})
    BY <1>5, <1>6
  <2>2. List("wq") = wqs /\ List("engine") = engines /\ List("wq")' = wqs' /\ List("engine")' = engines'
    BY DEF List
  <2>3. \A c \in Device :
          /\ Range(wqs'[c]) = Range(wqs[c]) \cup (IF "wq" = kind /\ c = d THEN Range(new) ELSE {})
          /\ Range(engines'[c]) = Range(engines[c])
                                    \cup (IF "engine" = kind /\ c = d THEN Range(new) ELSE {})
    BY <2>1, <2>2 DEF Kind
  <2>4. kind = "wq" \/ kind = "engine"
    BY DEF Kind
  <2> QED
    BY <2>3, <2>4
<1>10. HeapIsListed'
  <2> DEFINE D == {Obj("device", c, 1, NoGroup) : c \in Range(devices)}
             U(c) == {Obj("group", g, 1, NoGroup) : g \in Range(groups[c])}
                       \cup Range(wqs[c]) \cup Range(engines[c])
             V(c) == {Obj("group", g, 1, NoGroup) : g \in Range(groups[c])}
                       \cup Range(wqs'[c]) \cup Range(engines'[c])
  <2>1. \A c \in Range(devices) : V(c) = U(c) \cup (IF c = d THEN Range(new) ELSE {})
    BY <1>2, <1>9
  <2>2. heap = D \cup UNION {U(c) : c \in Range(devices)}
    BY DEF IInv, HeapIsListed
  <2>3. HeapIsListed' <=> heap' = D \cup UNION {V(c) : c \in Range(devices)}
    BY <1>1 DEF HeapIsListed
  <2> HIDE DEF D, U, V
  <2>4. ASSUME NEW o \in heap' PROVE o \in D \cup UNION {V(c) : c \in Range(devices)}
    <3>1. CASE o \in Range(new)
      <4>1. o \in V(d)
        BY <2>1, <3>1
      <4> QED
        BY <4>1
    <3>2. CASE o \in D
      BY <3>2
    <3>3. CASE \E c \in Range(devices) : o \in U(c)
      <4>1. PICK c \in Range(devices) : o \in U(c)
        BY <3>3
      <4>2. o \in V(c)
        BY <2>1, <4>1
      <4> QED
        BY <4>2
    <3> QED
      BY <1>3, <2>2, <2>4, <3>1, <3>2, <3>3
  <2>5. ASSUME NEW o \in D \cup UNION {V(c) : c \in Range(devices)} PROVE o \in heap'
    <3>1. CASE o \in D
      BY <1>3, <2>2, <3>1
    <3>2. CASE \E c \in Range(devices) : o \in V(c)
      <4>1. PICK c \in Range(devices) : o \in V(c)
        BY <3>2
      <4>2. o \in U(c) \/ o \in Range(new)
        BY <2>1, <4>1
      <4> QED
        BY <1>3, <2>2, <4>2
    <3> QED
      BY <3>1, <3>2
  <2>6. heap' = D \cup UNION {V(c) : c \in Range(devices)}
    BY <2>4, <2>5
  <2> QED
    BY <2>3, <2>6
<1>11. ListedOnce'
  <2> SUFFICES ASSUME NEW c \in Range(devices), NEW k \in Kind,
                      groupPtr[c] # NoGroup, ~Dangling(c)
               PROVE  LET ids == [i \in DOMAIN List(k)'[c] |-> List(k)'[c][i].id]
                      IN  \/ <<k, groupPtr[c]>> \notin initFlag' /\ ids = <<>>
                          \/ /\ <<k, groupPtr[c]>> \in initFlag'
                             /\ \E F \in SUBSET missed' : ids = Parse(Dir(k)[c], F)
    BY <1>1 DEF ListedOnce, Dangling
  <2>0. LET ids == [i \in DOMAIN List(k)[c] |-> List(k)[c][i].id]
        IN  \/ <<k, groupPtr[c]>> \notin initFlag /\ ids = <<>>
            \/ /\ <<k, groupPtr[c]>> \in initFlag
               /\ \E F \in SUBSET missed : ids = Parse(Dir(k)[c], F)
    BY DEF IInv, ListedOnce
  <2>1. CASE k = kind /\ c = d
    <3>1. <<k, groupPtr[c]>> \notin initFlag /\ <<k, groupPtr[c]>> \in initFlag'
      BY <1>1, <2>1 DEF MayScan, SetFlag
    <3>2. [i \in DOMAIN List(k)[c] |-> List(k)[c][i].id] = <<>>
      BY <2>0, <3>1
    <3>3. List(k)[c] = <<>>
      <4>1. List(k)[c] \in Seq(ObjectSet)
        BY <1>2, <1>4, <2>1
      <4>2. DOMAIN List(k)[c] = {}
        BY <3>2
      <4> QED
        BY <4>1, <4>2, EmptyLists
    <3>4. List(k)'[c] = new
      <4>1. new \in Seq(ObjectSet) /\ List(k)'[c] = <<>> \o new
        BY <1>3, <1>5, <2>1, <3>3
      <4> QED
        BY <4>1, EmptyLists
    <3> QED
      BY <1>3, <2>1, <3>1, <3>4
  <2>2. CASE k # kind \/ c # d
    <3>1. List(k)'[c] = List(k)[c]
      BY <1>2, <1>5, <2>2
    <3>2. <<k, groupPtr[c]>> # <<kind, groupPtr[d]>>
      <4>1. CASE c # d
        <5>1. /\ groupPtr[c] \in Range(GroupDir[c])
              /\ groupPtr[d] \in Range(GroupDir[d]) \cup {NoGroup}
          BY <1>2 DEF IInv, OwnGroup
        <5> QED
          BY <1>2, <4>1, <5>1, Dirs
      <4> QED
        BY <2>2, <4>1
    <3>3. <<k, groupPtr[c]>> \in initFlag' <=> <<k, groupPtr[c]>> \in initFlag
      BY <1>1, <3>2 DEF SetFlag
    <3>4. missed \subseteq missed'
      BY <1>3
    <3> DEFINE ids == [i \in DOMAIN List(k)[c] |-> List(k)[c][i].id]
    <3>5. [i \in DOMAIN List(k)'[c] |-> List(k)'[c][i].id] = ids
      BY <3>1
    <3>6. \/ <<k, groupPtr[c]>> \notin initFlag /\ ids = <<>>
          \/ /\ <<k, groupPtr[c]>> \in initFlag
             /\ \E F \in SUBSET missed : ids = Parse(Dir(k)[c], F)
      BY <2>0
    <3> HIDE DEF ids
    <3> QED
      BY <3>3, <3>4, <3>5, <3>6
  <2> QED
    BY <2>1, <2>2
<1>12. GroupsLive'
  <2> SUFFICES ASSUME NEW c \in Range(devices),
                      NEW g \in {groupPtr[c]} \cup
                                {o.group : o \in Range(wqs'[c]) \cup Range(engines'[c])}
               PROVE  \/ g = NoGroup
                      \/ Obj("group", g, 1, NoGroup) \in heap'
                      \/ g \in lateGroup /\ g = groupPtr[c]
    BY <1>1 DEF GroupsLive
  <2>1. g \in {groupPtr[c]} \cup {o.group : o \in Range(wqs[c]) \cup Range(engines[c])}
    BY <1>2, <1>3, <1>9
  <2>2. \/ g = NoGroup
        \/ Obj("group", g, 1, NoGroup) \in heap
        \/ g \in lateGroup /\ g = groupPtr[c]
    BY <2>1 DEF IInv, GroupsLive
  <2> QED
    BY <1>3, <2>2
<1> QED
    BY <1>7, <1>8, <1>10, <1>11, <1>12 DEF IInv

LEMMA InitInv ==
    ASSUME Init
    PROVE  IInv
<1>1. Range(devices) = {}
    BY DEF Init, Range
<1>2. ListTypeOK
  <2>1. /\ <<>> \in Seq(Device)
        /\ NoList \in [Device -> Seq(Group)] /\ NoList \in [Device -> Seq(ObjectSet)]
        /\ NoPtr \in [Device -> Group \cup {NoGroup}]
    BY DEF NoList, NoPtr
  <2>2. devicesInit \in BOOLEAN
    BY Zenon DEF Init
  <2>3. refcount \in 0..MaxRef /\ scans \in [Device -> [Kind -> 0..MaxScan]]
    BY EnumerationAssumption DEF Init
  <2> QED
    BY <2>1, <2>2, <2>3 DEF Init, ListTypeOK
<1>3. Unscanned /\ OwnGroup
    BY DEF Init, Unscanned, OwnGroup, NoPtr
<1>4. ListedOnce /\ GroupsLive
    BY <1>1 DEF ListedOnce, GroupsLive
<1>5. HeapIsListed
    BY <1>1 DEF Init, HeapIsListed
<1> QED
    BY <1>2, <1>3, <1>4, <1>5 DEF IInv

LEMMA NextInv ==
    ASSUME IInv, [Next]_vars
    PROVE  IInv'
<1>1. CASE UNCHANGED <<refcount, devicesInit, listVars, scans, missed, lateGroup>>
  <2>1. ListTypeOK' /\ Unscanned'
    BY <1>1 DEF IInv, ListTypeOK, Unscanned, listVars
  <2> QED
    BY <1>1, <2>1, SameLists
<1>2. CASE GetNext \/ UNCHANGED vars
    BY <1>1, <1>2 DEF GetNext, vars
<1>3. ASSUME NEW kind \in Kind, NEW d \in Device, GetFirst(kind, d) \/ GetById(kind, d)
      PROVE  IInv'
  <2>1. /\ devicesInit /\ d \in Range(devices) /\ (Scan(kind, d) \/ Known(kind, d))
        /\ UNCHANGED <<refcount, devicesInit, lateGroup>>
    BY <1>3 DEF GetFirst, GetById
  <2>2. CASE Scan(kind, d)
    BY <2>1, <2>2, ScanInv
  <2>3. CASE Known(kind, d)
    BY <1>1, <2>1, <2>3 DEF Known
  <2> QED
    BY <2>1, <2>2, <2>3
<1> QED
    BY <1>2, <1>3, NewInv, RefInv, UnrefInv, DevicesInitInv DEF Next

\* IInv is an inductive invariant of the specification.
LEMMA IInvAlways == Spec => []IInv
BY InitInv, NextInv, PTL DEF Spec

-----------------------------------------------------------------------------
(* The theorems *)

\* ListedOnce: however often and in whatever order a program walks, looks up and
\* takes references, on a device with a group every directory is listed once
\* and in order (the flags wqs_init and engines_init).
THEOREM DirectoriesListedOnce == Spec => []ListedOnce
<1>1. IInv => ListedOnce
    BY DEF IInv
<1> QED
    BY <1>1, IInvAlways, PTL

\* HeapIsListed: whatever allocations fail, everything allocated is on a list of
\* the context and everything on a list is allocated; free_context() leaks
\* nothing and frees nothing twice.
THEOREM NothingLeaks == Spec => []HeapIsListed
<1>1. IInv => HeapIsListed
    BY DEF IInv
<1> QED
    BY <1>1, IInvAlways, PTL

\* GroupsLive: the group that a device, a wq or an engine points to is
\* allocated, unless its add_group() failed after device->group was set.
THEOREM GroupPointersValid == Spec => []GroupsLive
<1>1. IInv => GroupsLive
    BY DEF IInv
<1> QED
    BY <1>1, IInvAlways, PTL
=============================================================================
