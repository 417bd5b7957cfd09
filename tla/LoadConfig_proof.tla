-------------------------- MODULE LoadConfig_proof --------------------------
(***************************************************************************)
(* Proofs about LoadConfig, for any devices and wqs, any files and any     *)
(* interference of other processes.                                        *)
(***************************************************************************)
EXTENDS LoadConfig, WellFoundedInduction, TLAPS

(* Facts about the operators *)

\* A non-empty set of places has a last one.
LEMMA LastPlaceIsLast ==
    ASSUME NEW k \in Nat, NEW S \in SUBSET (1..k), S # {}
    PROVE  LastPlace(S) \in S /\ \A i \in S : i <= LastPlace(S)
<1> DEFINE T == {k - i : i \in S}
<1>0. \A i \in S : i \in Nat /\ k - i \in Nat
    OBVIOUS
<1>1. T \in SUBSET Nat /\ T # {} /\ \A i \in S : k - i \in T
    BY <1>0
<1>2. PICK m \in T : \A j \in T : <<j, m>> \notin OpToRel(<, Nat)
    BY <1>1, NatLessThanWellFounded, WFMin, Zenon
<1>3. \A j \in T : ~(j < m)
    BY <1>1, <1>2, Zenon DEF OpToRel
<1>4. PICK n \in S : m = k - n
    OBVIOUS
<1>5. ASSUME NEW i \in S PROVE i <= n
  <2>1. ~(k - i < k - n)
    BY <1>1, <1>3, <1>4
  <2> QED
    BY <1>0, <2>1
<1> QED
    BY <1>5 DEF LastPlace

\* The last place of a set that ends with n is n.
LEMMA LastPlaceAt ==
    ASSUME NEW n \in Nat \ {0}, NEW S \in SUBSET (1..n), n \in S
    PROVE  LastPlace(S) = n
<1>1. LastPlace(S) \in S /\ n <= LastPlace(S)
    BY LastPlaceIsLast
<1>2. LastPlace(S) \in 1..n
    BY <1>1
<1> QED
    BY <1>1, <1>2

\* A "dev" entry opens a block, the "dev" entry of a device a section; any
\* other entry belongs to those of the entry before it.
LEMMA Blocks ==
    ASSUME NEW f, NEW n \in Nat \ {0}
    PROVE  /\ f[n].t = "dev" => BlockOf(f, n) = n
           /\ f[n].t # "dev" => BlockOf(f, n) = BlockOf(f, n - 1)
           /\ f[n].t = "dev" /\ f[n].kind = "device" => SectionOf(f, n) = n
           /\ ~(f[n].t = "dev" /\ f[n].kind = "device")
                => SectionOf(f, n) = SectionOf(f, n - 1)
<1> DEFINE B(k) == {j \in 1..k : f[j].t = "dev"}
           S(k) == {j \in 1..k : f[j].t = "dev" /\ f[j].kind = "device"}
<1>1. f[n].t = "dev" => LastPlace(B(n)) = n
    BY LastPlaceAt
<1>2. f[n].t # "dev" => B(n) = B(n - 1)
    OBVIOUS
<1>3. f[n].t = "dev" /\ f[n].kind = "device" => LastPlace(S(n)) = n
    BY LastPlaceAt
<1>4. ~(f[n].t = "dev" /\ f[n].kind = "device") => S(n) = S(n - 1)
    OBVIOUS
<1>5. BlockOf(f, n) = LastPlace(B(n)) /\ BlockOf(f, n - 1) = LastPlace(B(n - 1))
    BY DEF BlockOf
<1>6. SectionOf(f, n) = LastPlace(S(n)) /\ SectionOf(f, n - 1) = LastPlace(S(n - 1))
    BY DEF SectionOf
<1> HIDE DEF B, S
<1> QED
    BY <1>1, <1>2, <1>3, <1>4, <1>5, <1>6

\* Sections and blocks start before the entries in them.
LEMMA SectionBefore ==
    ASSUME NEW f, NEW n \in Nat
    PROVE  SectionOf(f, n) \in 0..n
<1> DEFINE S == {j \in 1..n : f[j].t = "dev" /\ f[j].kind = "device"}
<1>1. S # {} => LastPlace(S) \in S
    BY LastPlaceIsLast
<1>2. S = {} => LastPlace(S) = 0
    BY DEF LastPlace
<1>3. SectionOf(f, n) = LastPlace(S)
    BY DEF SectionOf
<1> QED
    BY <1>1, <1>2, <1>3

\* What one more entry adds to what is due.
LEMMA DueStep ==
    ASSUME NEW f, NEW sk, NEW n \in Nat \ {0}
    PROVE  /\ /\ f[n].t = "dev" /\ f[n].kind \in {"device", "wq"}
              /\ SectionOf(f, n) # 0 /\ SectionOf(f, n) \notin sk /\ n \notin sk
              => Due(f, sk, n) = Due(f, sk, n - 1) \cup {Denoted(f, n)}
           /\ \/ f[n].t # "dev" \/ f[n].kind \notin {"device", "wq"}
              \/ SectionOf(f, n) = 0 \/ SectionOf(f, n) \in sk \/ n \in sk
              => Due(f, sk, n) = Due(f, sk, n - 1)
<1> DEFINE P(i) == /\ f[i].t = "dev" /\ f[i].kind \in {"device", "wq"}
                   /\ SectionOf(f, i) # 0 /\ SectionOf(f, i) \notin sk /\ i \notin sk
           I(k) == {i \in 1..k : P(i)}
<1>1. P(n) => I(n) = I(n - 1) \cup {n}
    <2> HIDE DEF P
    <2> QED OBVIOUS
<1>2. ~P(n) => I(n) = I(n - 1)
    <2> HIDE DEF P
    <2> QED OBVIOUS
<1>3. Due(f, sk, n) = {Denoted(f, j) : j \in I(n)}
    BY DEF Due
<1>4. Due(f, sk, n - 1) = {Denoted(f, j) : j \in I(n - 1)}
    BY DEF Due
<1> HIDE DEF I
<1>5. P(n) => Due(f, sk, n) = Due(f, sk, n - 1) \cup {Denoted(f, n)}
    BY <1>1, <1>3, <1>4
<1>6. ~P(n) => Due(f, sk, n) = Due(f, sk, n - 1)
    BY <1>2, <1>3, <1>4
<1> QED
    BY <1>5, <1>6

\* Skipping an entry changes nothing of what the entries before it ask for.
LEMMA DueBefore ==
    ASSUME NEW f, NEW sk, NEW n \in Nat, NEW m \in Nat, m > n
    PROVE  Due(f, sk \cup {m}, n) = Due(f, sk, n)
<1>1. ASSUME NEW i \in 1..n PROVE SectionOf(f, i) # m /\ i # m
    BY <1>1, SectionBefore
<1>2. \A i \in 1..n : SectionOf(f, i) \notin sk /\ i \notin sk
                        <=> SectionOf(f, i) \notin sk \cup {m} /\ i \notin sk \cup {m}
    BY <1>1
<1> QED
    BY <1>2 DEF Due

\* Nothing is due before the first entry.
LEMMA DueNothing == \A f, sk : Due(f, sk, 0) = {} /\ SectionOf(f, 0) = 0
<1>1. \A f, sk : Due(f, sk, 0) = {}
    BY DEF Due
<1>2. \A f : SectionOf(f, 0) = 0
    BY SectionBefore
<1> QED
    BY <1>1, <1>2

\* The elements of sequences.
LEMMA ElementsOf ==
    ASSUME NEW S, NEW s \in Seq(S), NEW x \in S
    PROVE  /\ Elements(<<x>> \o s) = {x} \cup Elements(s)
           /\ s # <<>> => /\ Head(s) \in Elements(s)
                          /\ Elements(s) = {Head(s)} \cup Elements(Tail(s))
           /\ Elements(s) \subseteq S
<1>0. Len(s) \in Nat /\ DOMAIN s = 1..Len(s)
    OBVIOUS
<1>1. Elements(<<x>> \o s) = {x} \cup Elements(s)
  <2> DEFINE u == <<x>> \o s
  <2>1. u \in Seq(S) /\ Len(u) = Len(s) + 1
    OBVIOUS
  <2>2. u[1] = x /\ \A i \in 1..Len(s) : u[i + 1] = s[i]
    OBVIOUS
  <2>3. DOMAIN u = 1..(Len(s) + 1)
    BY <2>1
  <2> HIDE DEF u
  <2>4. \A i \in DOMAIN u : u[i] \in {x} \cup Elements(s)
    <3> SUFFICES ASSUME NEW i \in 1..(Len(s) + 1) PROVE u[i] \in {x} \cup Elements(s)
      BY <2>3
    <3>1. CASE i = 1
      BY <2>2, <3>1
    <3>2. CASE i # 1
      <4>1. i - 1 \in 1..Len(s) /\ (i - 1) + 1 = i
        BY <1>0, <3>2
      <4>2. u[i] = s[i - 1]
        BY <2>2, <4>1
      <4> QED
        BY <1>0, <4>1, <4>2 DEF Elements
    <3> QED
      BY <3>1, <3>2
  <2>5. \A i \in 1..Len(s) : s[i] \in Elements(u)
    <3> TAKE i \in 1..Len(s)
    <3>1. i + 1 \in DOMAIN u
      BY <1>0, <2>3
    <3> QED
      BY <2>2, <3>1 DEF Elements
  <2>6. x \in Elements(u)
    BY <1>0, <2>2, <2>3 DEF Elements
  <2>7. Elements(u) = {x} \cup Elements(s)
    BY <1>0, <2>4, <2>5, <2>6 DEF Elements
  <2> QED
    BY <2>7 DEF u
<1>3. ASSUME s # <<>> PROVE /\ Head(s) \in Elements(s)
                            /\ Elements(s) = {Head(s)} \cup Elements(Tail(s))
  <2> DEFINE u == Tail(s)
  <2>1. Len(s) \in Nat \ {0} /\ Head(s) = s[1] /\ 1 \in DOMAIN s
    BY <1>3
  <2>2. /\ DOMAIN u = 1..(Len(s) - 1)
        /\ \A i \in 1..(Len(s) - 1) : u[i] = s[i + 1]
    <3>1. u \in Seq(S) /\ Len(u) = Len(s) - 1
      BY <1>3
    <3>2. DOMAIN u = 1..Len(u)
      BY <3>1
    <3>3. \A i \in 1..Len(u) : u[i] = s[i + 1]
      BY <1>3
    <3> QED
      BY <3>1, <3>2, <3>3
  <2> HIDE DEF u
  <2>3. \A i \in DOMAIN u : u[i] \in Elements(s)
    <3> TAKE i \in DOMAIN u
    <3>1. i + 1 \in DOMAIN s
      BY <1>0, <2>1, <2>2
    <3> QED
      BY <2>2, <3>1 DEF Elements
  <2>4. \A i \in DOMAIN s : s[i] \in {Head(s)} \cup Elements(u)
    <3> TAKE i \in DOMAIN s
    <3>1. CASE i = 1
      BY <2>1, <3>1
    <3>2. CASE i # 1
      <4>1. i - 1 \in DOMAIN u /\ (i - 1) + 1 = i
        BY <1>0, <2>1, <2>2, <3>2
      <4>2. u[i - 1] = s[i]
        BY <2>2, <4>1
      <4> QED
        BY <4>1, <4>2 DEF Elements
    <3> QED
      BY <3>1, <3>2
  <2>5. Head(s) \in Elements(s)
    BY <2>1 DEF Elements
  <2>6. Elements(s) = {Head(s)} \cup Elements(u)
    BY <2>3, <2>4, <2>5 DEF Elements
  <2> QED
    BY <2>5, <2>6 DEF u
<1>4. Elements(s) \subseteq S
    BY DEF Elements
<1> QED
    BY <1>1, <1>3, <1>4

LEMMA AppendElements ==
    ASSUME NEW S, NEW s \in Seq(S), NEW y \in S
    PROVE  Elements(Append(s, y)) = Elements(s) \cup {y}
<1>0. Len(s) \in Nat /\ DOMAIN s = 1..Len(s)
    OBVIOUS
<1> DEFINE u == Append(s, y)
<1>1. u \in Seq(S) /\ Len(u) = Len(s) + 1 /\ u[Len(s) + 1] = y
    OBVIOUS
<1>2. \A i \in 1..Len(s) : u[i] = s[i]
    OBVIOUS
<1>3. DOMAIN u = 1..(Len(s) + 1)
    BY <1>1
<1> HIDE DEF u
<1>4. \A i \in DOMAIN u : i \in 1..Len(s) \/ i = Len(s) + 1
    BY <1>0, <1>3
<1>5. 1..Len(s) \subseteq DOMAIN u /\ Len(s) + 1 \in DOMAIN u
    BY <1>0, <1>3
<1>6. Elements(u) = Elements(s) \cup {y}
    BY <1>0, <1>1, <1>2, <1>4, <1>5 DEF Elements
<1> QED
    BY <1>6 DEF u

LEMMA Prepend ==
    ASSUME NEW S, NEW s \in Seq(S), NEW x \in S
    PROVE  <<x>> \o s \in Seq(S)
OBVIOUS

\* The child of a device that an id denotes belongs to that device.
LEMMA GetByIdOf ==
    ASSUME NEW d, NEW kind, NEW id, GetById(d, kind, id) # NoObject
    PROVE  LET x == GetById(d, kind, id) IN
           /\ x \in Child
           /\ kind = "wq" => x \in Wq /\ DevOf[x] = d
<1> DEFINE found == {x \in Child : DeviceOf(x) = d /\ KindOf[x] = kind /\ IdOf[x] = id}
<1>1. GetById(d, kind, id) \in found
    BY DEF GetById
<1>2. \A x \in Child : KindOf[x] = "wq" <=> x \in Wq
    BY LoadAssumption
<1> QED
    BY <1>1, <1>2 DEF DeviceOf

-----------------------------------------------------------------------------
(* The steps, grouped by what they do to the load *)

\* Steps of the library, of other processes and of the environment.
Elsewhere == UNCHANGED <<loadVars, logVars, call>>

\* The load ends with an error.
Fails ==
    /\ pc' = "done" /\ rc' # 0
    /\ activated' = activated /\ actDev' = actDev /\ actWq' = actWq
    /\ UNCHANGED <<file, option, pos, writes, skipped>>
    /\ parent' \in Device \cup {NoObject} /\ cur' \in Component \cup {NoObject}
    /\ DOMAIN call' = DOMAIN call

\* The device of the entry at pos is accepted.
Accepts ==
    /\ pc \in {"parse", "disabling"} /\ pos <= Len(file)
    /\ file[pos].t = "dev" /\ file[pos].kind = "device"
    /\ file[pos].name \in Device
    /\ Accept(file[pos].name)
    /\ UNCHANGED <<file, option, actWq, logVars>>
    /\ DOMAIN call' = DOMAIN call

\* The entry at pos, of class "dev", makes x the current component.
Enters(x) ==
    /\ AtEntry("dev") /\ file[pos].kind # "device"
    /\ cur' = x /\ NextEntry
    /\ UNCHANGED <<call, file, option, parent, actDev, writes, activated>>

\* The entry at pos is one of an attribute, which the walk passes.
PassesAttr ==
    /\ AtEntry("attr")
    /\ NextEntry
    /\ UNCHANGED <<call, file, option, parent, cur, actDev, actWq, skipped, activated>>

\* The kinds of steps of the walk.
WalkStep ==
    \/ Accepts
    \/ /\ AtDev("device") /\ file[pos].name \in Device
       /\ \/ /\ pc' = "disabling" /\ parent' = NoObject /\ cur' = file[pos].name
             /\ UNCHANGED <<file, option, pos, rc, actDev, actWq, logVars>>
             /\ DOMAIN call' = DOMAIN call
          \/ /\ NoDevice /\ NextEntry /\ skipped' = skipped \cup {pos}
             /\ UNCHANGED <<call, file, option, actDev, actWq, writes, activated>>
    \/ /\ Enters(NoObject)
       /\ file[pos].kind # "wq" \/ parent = NoObject
       /\ UNCHANGED <<actWq, skipped>>
    \/ /\ AtChild("wq") /\ ChildAt # NoObject
       /\ Enters(ChildAt)
       /\ actWq' = IF option.enable THEN <<ChildAt>> \o actWq ELSE actWq
       /\ UNCHANGED skipped
    \/ /\ AtChild("wq") /\ Enters(NoObject)
       /\ skipped' = skipped \cup {pos}
       /\ UNCHANGED actWq
    \/ /\ parent # NoObject /\ file[pos].kind # "wq" /\ ChildAt # NoObject
       /\ Enters(ChildAt)
       /\ UNCHANGED <<actWq, skipped>>
    \/ PassesAttr /\ UNCHANGED writes
    \/ /\ PassesAttr /\ parent # NoObject /\ cur # NoObject
       /\ writes' = writes \cup {<<pos, cur>>}

\* Every step of the load is one of these or of activate_devices().
LEMMA LoadKinds ==
    ASSUME IInv, Load
    PROVE  \/ Elsewhere \/ Fails \/ WalkStep
           \/ pc = "read" /\ pc' = "parse" /\ UNCHANGED <<file, option, pos, rc, parent,
                                            cur, actDev, actWq, logVars, call>>
           \/ EndOfFile \/ ActivateNext \/ ActivateDone
           \/ Enabled /\ ret[Loader] = 0
<1>0. /\ parent \in Device \cup {NoObject} /\ cur \in Component \cup {NoObject}
      /\ NoObject \notin Device
    BY ControlAssumption DEF IInv, LoadTypeOK
<1>0a. ASSUME AtDev("device") PROVE file[pos].name \in Device \cup {NoObject}
  <2>1. file \in Seq(Entry) /\ pos \in 1..Len(file)
    BY <1>0a, LoadAssumption DEF IInv, LoadTypeOK, AtDev, AtEntry
  <2>2. file[pos] \in Entry
    BY <2>1
  <2> QED
    BY <1>0a, <2>2 DEF AtDev, AtEntry, Entry
<1>1. CASE ReadFile
    BY <1>0, <1>1 DEF ReadFile, Fails, EINVAL, logVars, ctlVars
<1>2. CASE DeviceMissing
    BY <1>0, <1>2 DEF DeviceMissing, NoDevice, Abort, Fails, logVars, ctlVars
<1>3. CASE DeviceEntry
  <2>1. file[pos].name \in Device
    BY <1>0a, <1>3 DEF DeviceEntry
  <2>2. CASE Accept(file[pos].name) /\ UNCHANGED <<ctlVars, skipped>>
    BY <1>3, <2>1, <2>2 DEF DeviceEntry, WalkStep, Accepts, AtDev, AtEntry, logVars, ctlVars
  <2>3. CASE /\ Enter(Loader, "disable", file[pos].name, TRUE)
             /\ pc' = "disabling"
             /\ parent' = NoObject /\ cur' = file[pos].name
             /\ UNCHANGED <<errctx, pos, rc, actDev, skipped>>
    <3>1. DOMAIN call' = DOMAIN call
      BY <2>3 DEF Enter
    <3> QED
      BY <1>3, <2>1, <2>3, <3>1 DEF DeviceEntry, WalkStep, logVars
  <2>4. CASE /\ NoDevice /\ skipped' = skipped \cup {pos} /\ NextEntry
             /\ UNCHANGED <<ctlVars, actDev>>
    BY <1>3, <2>1, <2>4 DEF DeviceEntry, WalkStep, ctlVars
  <2> QED
    BY <1>3, <2>2, <2>3, <2>4 DEF DeviceEntry
<1>4. CASE DeviceUnreadable
    BY <1>0a, <1>4 DEF DeviceUnreadable, WalkStep, Accepts, AtDev, AtEntry, logVars
<1>5. CASE Disabling \/ Enabling
    BY <1>5 DEF Disabling, Enabling, Elsewhere, LocalControlStep, ResolveUnbindPath,
                ReadClients, ReadClientsFails, WriteRefused, VerifyWq, VerifyWqFails,
                WriteTakesEffect, GoTo, Return
<1>6. CASE Disabled
  <2>1. DOMAIN call' = DOMAIN call
    BY <1>6 DEF Disabled, Leave
  <2>2. /\ pc = "disabling" /\ pos <= Len(file)
        /\ file[pos].t = "dev" /\ file[pos].kind = "device"
        /\ file[pos].name # NoObject /\ cur = file[pos].name
    BY <1>6 DEF Disabled, IInv, Places
  <2>3. file[pos].name \in Device
    <3>1. file \in Seq(Entry) /\ pos \in 1..Len(file)
      BY <2>2, LoadAssumption DEF IInv, LoadTypeOK
    <3>2. file[pos] \in Entry
      BY <3>1
    <3> QED
      BY <2>2, <3>2 DEF Entry
  <2>4. CASE ret[Loader] = 0
    BY <1>6, <2>1, <2>2, <2>3, <2>4 DEF Disabled, WalkStep, Accepts
  <2>5. CASE ret[Loader] # 0
    BY <1>0, <1>6, <2>1, <2>5 DEF Disabled, Abort, Fails, logVars
  <2> QED
    BY <2>4, <2>5
<1>7. CASE EntryOfNothing
    BY <1>7 DEF EntryOfNothing, WalkStep, Enters, AtEntry, logVars, ctlVars
<1>8. CASE ChildMissing
    BY <1>0, <1>8 DEF ChildMissing, Abort, Fails, logVars, ctlVars
<1>9. CASE WqEntry
    BY <1>9 DEF WqEntry, WalkStep, Enters, AtChild, AtDev, logVars
<1>10. CASE ActiveWqEntry
    BY <1>10 DEF ActiveWqEntry, WalkStep, Enters, AtChild, AtDev, ctlVars
<1>11. CASE PartEntry
    BY <1>11 DEF PartEntry, WalkStep, Enters, AtChild, AtDev, logVars, ctlVars
<1>12. CASE AttrSkipped
    BY <1>12 DEF AttrSkipped, WalkStep, PassesAttr, logVars, ctlVars
<1>13. CASE AttrSet
    BY <1>13 DEF AttrSet, SetField, WalkStep, PassesAttr, ctlVars
<1>14. CASE AttrRefused
    BY <1>0, <1>14 DEF AttrRefused, Abort, Fails, logVars
<1>15. CASE EntryRejected
    BY <1>0, <1>15 DEF EntryRejected, Abort, Fails, logVars, ctlVars
<1>16. CASE Enabled
  <2>1. DOMAIN call' = DOMAIN call
    BY <1>16 DEF Enabled, Leave
  <2> QED
    BY <1>0, <1>16, <2>1 DEF Enabled, ActivationFails, Fails
<1>17. CASE EndOfFile \/ ActivateNext \/ ActivateDone
    BY <1>17
<1> QED
    BY <1>1, <1>2, <1>3, <1>4, <1>5, <1>6, <1>7, <1>8, <1>9, <1>10, <1>11, <1>12,
       <1>13, <1>14, <1>15, <1>16, <1>17 DEF Load

-----------------------------------------------------------------------------
(* The walk *)

LEMMA WalkFacts ==
    ASSUME IInv, WalkStep
    PROVE  /\ file' = file /\ option' = option /\ activated' = activated
           /\ activated = <<>> /\ Walking /\ Walking' /\ rc' = 0 /\ rc = 0
           /\ pos \in Nat \ {0} /\ Len(file) \in Nat /\ pos <= Len(file)
           /\ \/ pos' = pos /\ pc' = "disabling"
              \/ pos' = pos + 1 /\ pos' - 1 = pos /\ pc' = "parse"
           /\ DOMAIN call' = Process
<1>1. /\ file' = file /\ option' = option /\ activated' = activated
      /\ pc \in {"parse", "disabling"} /\ pos <= Len(file)
      /\ \/ pos' = pos /\ pc' = "disabling" /\ rc' = rc
         \/ pos' = pos + 1 /\ pc' = "parse" /\ rc' = rc
      /\ DOMAIN call' = DOMAIN call
    BY DEF WalkStep, Accepts, Accept, NextEntry, Enters, PassesAttr, AtDev, AtEntry,
           logVars
<1>2. file \in Seq(Entry) /\ pos \in Nat \ {0}
    BY LoadAssumption DEF IInv, LoadTypeOK
<1>3. Walking /\ Walking' /\ rc = 0 /\ activated = <<>>
    BY <1>1 DEF Walking, IInv, Places, Queued
<1> QED
    BY <1>1, <1>2, <1>3 DEF IInv

LEMMA WalkType ==
    ASSUME IInv, WalkStep
    PROVE  LoadTypeOK' /\ Places'
<1>0. /\ file' = file /\ option' = option /\ activated' = activated
      /\ Walking /\ Walking' /\ rc' = 0
      /\ pos \in Nat \ {0} /\ Len(file) \in Nat /\ pos <= Len(file)
      /\ \/ pos' = pos /\ pc' = "disabling"
         \/ pos' = pos + 1 /\ pos' - 1 = pos /\ pc' = "parse"
    BY WalkFacts
<1>1. /\ LoadTypeOK
      /\ skipped \subseteq 1..(pos - 1)
      /\ \A wr \in writes : wr[1] \in 1..(pos - 1)
    BY DEF IInv, Places
<1>2. ASSUME AtChild("wq"), ChildAt # NoObject PROVE ChildAt \in Wq
    BY <1>2, GetByIdOf DEF ChildAt, AtChild, AtDev, AtEntry
<1>3. ASSUME ChildAt # NoObject PROVE ChildAt \in Component
    BY <1>3, GetByIdOf DEF ChildAt, Child, Component, Object
<1>4. parent' \in Device \cup {NoObject} /\ cur' \in Component \cup {NoObject}
    BY <1>1, <1>3 DEF LoadTypeOK, WalkStep, Accepts, Accept, NoDevice, Enters, PassesAttr,
                      Component, Object
<1>5. actDev' \in Seq(Device)
  <2>1. actDev' = actDev \/ (file[pos].name \in Device /\ actDev' = <<file[pos].name>> \o actDev)
    BY Zenon DEF WalkStep, Accepts, Accept, NoDevice, Enters, PassesAttr
  <2> QED
    BY <1>1, <2>1, Prepend DEF LoadTypeOK
<1>6. actWq' \in Seq(Wq)
  <2>1. actWq' = actWq \/ (ChildAt \in Wq /\ actWq' = <<ChildAt>> \o actWq)
    BY <1>2, Zenon DEF WalkStep, Accepts, PassesAttr
  <2> QED
    BY <1>1, <2>1, Prepend DEF LoadTypeOK
<1>7. skipped' = skipped \/ (skipped' = skipped \cup {pos} /\ pos' = pos + 1)
    BY DEF WalkStep, Accepts, PassesAttr, NextEntry, Enters, logVars
<1>8. skipped' \subseteq 1..(pos' - 1)
  <2>1. 1..(pos - 1) \subseteq 1..(pos' - 1) /\ (pos' = pos + 1 => pos \in 1..(pos' - 1))
    BY <1>0
  <2> QED
    BY <1>1, <1>7, <2>1
<1>9. /\ writes' \subseteq (Nat \X Component)
      /\ \A wr \in writes' : wr[1] \in 1..(pos' - 1)
  <2>1. 1..(pos - 1) \subseteq 1..(pos' - 1) /\ (pos' = pos + 1 => pos \in 1..(pos' - 1))
    BY <1>0
  <2>2. CASE writes' = writes
    BY <1>1, <2>1, <2>2 DEF LoadTypeOK
  <2>3. CASE cur # NoObject /\ writes' = writes \cup {<<pos, cur>>} /\ pos' = pos + 1
    <3>1. <<pos, cur>> \in Nat \X Component
      BY <1>0, <1>1, <2>3 DEF LoadTypeOK
    <3> QED
      BY <1>1, <2>1, <2>3, <3>1 DEF LoadTypeOK
  <2> QED
    BY <2>2, <2>3 DEF WalkStep, Accepts, Enters, PassesAttr, NextEntry, logVars
<1>10. LoadTypeOK'
    BY <1>0, <1>1, <1>4, <1>5, <1>6, <1>8, <1>9 DEF LoadTypeOK
<1>11. pc' = "disabling" => /\ file[pos].t = "dev" /\ file[pos].kind = "device"
                            /\ file[pos].name # NoObject /\ cur' = file[pos].name
  <2>1. NoObject \notin Device
    BY ControlAssumption
  <2> QED
    BY <2>1 DEF WalkStep, Accepts, Accept, NextEntry, Enters, PassesAttr, AtDev, AtEntry
<1> QED
    BY <1>0, <1>8, <1>9, <1>10, <1>11 DEF Places, Walking, Activating

\* The static variables follow the blocks of the file.
LEMMA WalkContext ==
    ASSUME IInv, WalkStep
    PROVE  Context'
<1>0. /\ file' = file /\ pos \in Nat \ {0}
      /\ \/ pos' = pos /\ pc' = "disabling"
         \/ pos' = pos + 1 /\ pos' - 1 = pos /\ pc' = "parse"
    BY WalkFacts
<1>1. CASE pc' = "disabling"
    BY <1>1 DEF Context
<1> SUFFICES ASSUME pc' = "parse", pos' - 1 = pos
             PROVE  /\ parent' = NoObject <=> \/ SectionOf(file, pos) = 0
                                              \/ SectionOf(file, pos) \in skipped'
                    /\ parent' # NoObject => parent' = file[SectionOf(file, pos)].name
                    /\ cur' # NoObject => /\ parent' # NoObject
                                          /\ BlockOf(file, pos) # 0
                                          /\ cur' = Denoted(file, BlockOf(file, pos))
    BY <1>0, <1>1 DEF Context
<1> DEFINE sec == SectionOf(file, pos)
           sec0 == SectionOf(file, pos - 1)
           blk == BlockOf(file, pos)
           blk0 == BlockOf(file, pos - 1)
<1>2. /\ file[pos].t = "dev" => blk = pos
      /\ file[pos].t # "dev" => blk = blk0
      /\ file[pos].t = "dev" /\ file[pos].kind = "device" => sec = pos
      /\ ~(file[pos].t = "dev" /\ file[pos].kind = "device") => sec = sec0
    BY <1>0, Blocks
<1>3. pc = "parse" =>
        /\ parent = NoObject <=> sec0 = 0 \/ sec0 \in skipped
        /\ parent # NoObject => parent = file[sec0].name
        /\ cur # NoObject => parent # NoObject /\ blk0 # 0 /\ cur = Denoted(file, blk0)
    BY DEF IInv, Context
<1>4. pos \notin skipped /\ sec0 \in 0..(pos - 1)
    BY <1>0, SectionBefore DEF IInv, Places
<1>5. NoObject \notin Device
    BY ControlAssumption
<1> HIDE DEF sec, sec0, blk, blk0
<1> SUFFICES /\ parent' = NoObject <=> sec = 0 \/ sec \in skipped'
             /\ parent' # NoObject => parent' = file[sec].name
             /\ cur' # NoObject => /\ parent' # NoObject
                                   /\ blk # 0 /\ cur' = Denoted(file, blk)
    BY DEF sec, blk
<1>6. CASE Accepts
  <2>1. /\ sec = pos /\ blk = pos /\ skipped' = skipped
        /\ parent' = file[pos].name /\ cur' = file[pos].name /\ file[pos].name \in Device
    BY <1>2, <1>6 DEF Accepts, Accept, logVars
  <2>2. Denoted(file, pos) = file[pos].name
    BY <1>6 DEF Accepts, Denoted
  <2> QED
    BY <1>0, <1>4, <1>5, <2>1, <2>2
<1>7. CASE AtDev("device") /\ NoDevice /\ skipped' = skipped \cup {pos}
    BY <1>2, <1>7 DEF AtDev, AtEntry, NoDevice
<1>8. ASSUME NEW x, Enters(x)
      PROVE  /\ sec = sec0 /\ blk = pos /\ parent' = parent /\ cur' = x /\ pc = "parse"
             /\ file[pos].t = "dev" /\ file[pos].kind # "device"
    BY <1>2, <1>8 DEF Enters, AtEntry
<1>9. CASE Enters(NoObject) /\ UNCHANGED skipped
    BY <1>3, <1>8, <1>9
<1>10. CASE Enters(NoObject) /\ skipped' = skipped \cup {pos}
  <2>1. sec0 # pos
    BY <1>0, <1>4
  <2> QED
    BY <1>3, <1>8, <1>10, <2>1
<1>11. CASE Enters(ChildAt) /\ parent # NoObject /\ UNCHANGED skipped
  <2>1. parent = file[sec0].name
    BY <1>3, <1>8, <1>11
  <2>2. ChildAt = Denoted(file, pos)
    BY <1>8, <1>11, <2>1 DEF ChildAt, Denoted, sec
  <2> QED
    BY <1>0, <1>3, <1>8, <1>11, <2>2
<1>12. CASE PassesAttr
    BY <1>2, <1>3, <1>12 DEF PassesAttr, AtEntry
<1> QED
    BY <1>6, <1>7, <1>9, <1>10, <1>11, <1>12 DEF WalkStep, AtChild

\* What is written belongs to the block the walk is in.
LEMMA WalkWrites ==
    ASSUME IInv, WalkStep
    PROVE  WritesInBlock'
<1>0. file' = file /\ pos \in Nat \ {0}
    BY WalkFacts
<1>1. skipped' = skipped \/ skipped' = skipped \cup {pos}
    BY DEF WalkStep, Accepts, PassesAttr, Enters, logVars
<1> SUFFICES ASSUME NEW wr \in writes'
             PROVE  /\ BlockOf(file, wr[1]) # 0 /\ SectionOf(file, wr[1]) # 0
                    /\ wr[2] = Denoted(file, BlockOf(file, wr[1]))
                    /\ SectionOf(file, wr[1]) \notin skipped'
    BY <1>0 DEF WritesInBlock
<1>2. CASE wr \in writes
  <2>1. /\ BlockOf(file, wr[1]) # 0 /\ SectionOf(file, wr[1]) # 0
        /\ wr[2] = Denoted(file, BlockOf(file, wr[1]))
        /\ SectionOf(file, wr[1]) \notin skipped
    BY <1>2 DEF IInv, WritesInBlock
  <2>2. wr[1] \in 1..(pos - 1)
    BY <1>2 DEF IInv, Places
  <2>3. SectionOf(file, wr[1]) # pos
    BY <1>0, <2>2, SectionBefore
  <2> QED
    BY <1>1, <2>1, <2>3
<1>3. CASE wr \notin writes
  <2>1. /\ PassesAttr /\ parent # NoObject /\ cur # NoObject
        /\ wr = <<pos, cur>>
    BY <1>3 DEF WalkStep, Accepts, Enters, logVars
  <2>2. pc = "parse" /\ file[pos].t = "attr" /\ skipped' = skipped
    BY <2>1 DEF PassesAttr, AtEntry
  <2>3. /\ BlockOf(file, pos) = BlockOf(file, pos - 1)
        /\ SectionOf(file, pos) = SectionOf(file, pos - 1)
    BY <1>0, <2>2, Blocks
  <2> QED
    BY <2>1, <2>2, <2>3 DEF IInv, Context
<1> QED
    BY <1>2, <1>3

\* The activation lists hold what the walk has met.
LEMMA WalkQueued ==
    ASSUME IInv, WalkStep
    PROVE  Queued' /\ DevicesQueued'
<1>0. /\ file' = file /\ option' = option /\ activated' = activated
      /\ activated = <<>> /\ Walking /\ Walking'
      /\ pos \in Nat \ {0} /\ pos - 1 \in Nat
      /\ \/ pos' = pos /\ pc' = "disabling"
         \/ pos' = pos + 1 /\ pos' - 1 = pos /\ pc' = "parse"
    BY WalkFacts
<1>1. /\ actDev \in Seq(Device) /\ actWq \in Seq(Wq)
      /\ skipped \subseteq 1..(pos - 1)
    BY DEF IInv, LoadTypeOK, Places
<1>2. pos \notin skipped
    BY <1>0, <1>1
<1> DEFINE due == Due(file, skipped, pos - 1)
           E == Elements(actDev) \cup Elements(actWq)
           sec == SectionOf(file, pos)
<1>3. /\ ~option.enable => actDev = <<>> /\ actWq = <<>>
      /\ option.enable => E = due
      /\ option.enable /\ parent # NoObject => parent \in Elements(actDev)
      /\ \A w \in Elements(actWq) : DevOf[w] \in Elements(actDev)
  <2>1. Elements(activated) = {}
    BY <1>0 DEF Elements
  <2> QED
    BY <1>0, <2>1 DEF IInv, Queued, DevicesQueued
<1>4. /\ Due(file, skipped, pos) = due \cup {Denoted(file, pos)}
         \/ ~(/\ file[pos].t = "dev" /\ file[pos].kind \in {"device", "wq"}
              /\ sec # 0 /\ sec \notin skipped)
      /\ Due(file, skipped, pos) = due
         \/ /\ file[pos].t = "dev" /\ file[pos].kind \in {"device", "wq"}
            /\ sec # 0 /\ sec \notin skipped
      /\ Due(file, skipped \cup {pos}, pos) = due
  <2>1. Due(file, skipped \cup {pos}, pos) = Due(file, skipped \cup {pos}, pos - 1)
    BY <1>0, DueStep
  <2>2. Due(file, skipped \cup {pos}, pos - 1) = due
    BY <1>0, DueBefore
  <2> QED
    BY <1>0, <1>2, <2>1, <2>2, DueStep
<1>5. /\ file[pos].t = "dev" /\ file[pos].kind = "device" => sec = pos
      /\ ~(file[pos].t = "dev" /\ file[pos].kind = "device")
           => sec = SectionOf(file, pos - 1)
    BY <1>0, Blocks
<1>6. pc = "parse" /\ sec = SectionOf(file, pos - 1)
        => /\ parent = NoObject <=> sec = 0 \/ sec \in skipped
           /\ parent # NoObject => parent = file[sec].name
    BY DEF IInv, Context
<1> DEFINE Goal ==
      /\ ~option.enable => actDev' = <<>> /\ actWq' = <<>>
      /\ option.enable
           => Elements(actDev') \cup Elements(actWq') = Due(file, skipped', pos' - 1)
      /\ option.enable /\ parent' # NoObject => parent' \in Elements(actDev')
      /\ \A w \in Elements(actWq') : DevOf[w] \in Elements(actDev')
<1> SUFFICES Goal
    BY <1>0 DEF Queued, DevicesQueued, Walking, Activating
<1> HIDE DEF due, E, sec
<1>7. ASSUME NEW x, Enters(x)
      PROVE  /\ file[pos].t = "dev" /\ file[pos].kind # "device" /\ pc = "parse"
             /\ pos' - 1 = pos /\ parent' = parent /\ actDev' = actDev
    BY <1>0, <1>7 DEF Enters, AtEntry, NextEntry
<1>8. CASE Accepts
  <2>1. /\ pos' - 1 = pos /\ skipped' = skipped /\ actWq' = actWq
        /\ parent' = file[pos].name /\ file[pos].name \in Device
        /\ actDev' = IF option.enable THEN <<file[pos].name>> \o actDev ELSE actDev
        /\ file[pos].t = "dev" /\ file[pos].kind = "device"
    BY <1>0, <1>8 DEF Accepts, Accept, NextEntry, logVars
  <2>2. Denoted(file, pos) = file[pos].name
    BY <2>1 DEF Denoted
  <2>3. Due(file, skipped, pos) = due \cup {file[pos].name}
    BY <1>0, <1>2, <1>4, <1>5, <2>1, <2>2
  <2>4. CASE option.enable
    <3>1. Elements(actDev') = {file[pos].name} \cup Elements(actDev)
      BY <1>1, <2>1, <2>4, ElementsOf
    <3> QED
      BY <1>3, <2>1, <2>3, <2>4, <3>1 DEF E
  <2>5. CASE ~option.enable
    BY <1>3, <2>1, <2>5
  <2> QED
    BY <2>4, <2>5
<1>9. CASE /\ pc' = "disabling" /\ parent' = NoObject
           /\ UNCHANGED <<pos, actDev, actWq, skipped>>
    BY <1>3, <1>9 DEF E, due
<1>10. CASE /\ NoDevice /\ NextEntry /\ skipped' = skipped \cup {pos}
            /\ UNCHANGED <<actDev, actWq>>
  <2>1. parent' = NoObject /\ pos' - 1 = pos
    BY <1>0, <1>10 DEF NoDevice, NextEntry
  <2> QED
    BY <1>3, <1>4, <1>10, <2>1 DEF E
<1>11. CASE /\ Enters(NoObject)
            /\ file[pos].kind # "wq" \/ parent = NoObject
            /\ UNCHANGED <<actWq, skipped>>
  <2>1. file[pos].kind # "wq" \/ sec = 0 \/ sec \in skipped
    BY <1>5, <1>6, <1>7, <1>11
  <2>2. Due(file, skipped, pos) = due
    BY <1>4, <1>7, <1>11, <2>1
  <2> QED
    BY <1>3, <1>7, <1>11, <2>2 DEF E
<1>12. CASE /\ AtChild("wq") /\ ChildAt # NoObject
            /\ Enters(ChildAt)
            /\ actWq' = IF option.enable THEN <<ChildAt>> \o actWq ELSE actWq
            /\ UNCHANGED skipped
  <2>1. parent # NoObject /\ file[pos].kind = "wq"
    BY <1>12 DEF AtChild, AtDev
  <2>2. sec # 0 /\ sec \notin skipped /\ parent = file[sec].name
    BY <1>5, <1>6, <1>7, <1>12, <2>1
  <2>3. ChildAt = Denoted(file, pos)
    BY <2>1, <2>2 DEF ChildAt, Denoted, sec
  <2>4. Due(file, skipped, pos) = due \cup {ChildAt}
    BY <1>4, <1>7, <1>12, <2>1, <2>2, <2>3
  <2>5. ChildAt \in Wq /\ DevOf[ChildAt] = parent
    BY <1>12, <2>1, GetByIdOf DEF ChildAt
  <2>6. CASE option.enable
    <3>1. Elements(actWq') = {ChildAt} \cup Elements(actWq)
      BY <1>1, <1>12, <2>5, <2>6, ElementsOf
    <3> QED
      BY <1>3, <1>7, <1>12, <2>1, <2>4, <2>5, <2>6, <3>1 DEF E
  <2>7. CASE ~option.enable
    BY <1>3, <1>7, <1>12, <2>7
  <2> QED
    BY <2>6, <2>7
<1>13. CASE Enters(NoObject) /\ skipped' = skipped \cup {pos} /\ UNCHANGED actWq
    BY <1>3, <1>4, <1>7, <1>13 DEF E
<1>14. CASE /\ file[pos].kind # "wq"
            /\ Enters(ChildAt)
            /\ UNCHANGED <<actWq, skipped>>
  <2>1. Due(file, skipped, pos) = due
    BY <1>4, <1>7, <1>14
  <2> QED
    BY <1>3, <1>7, <1>14, <2>1 DEF E
<1>15. CASE PassesAttr
  <2>1. /\ pos' - 1 = pos /\ file[pos].t = "attr" /\ pc = "parse"
        /\ UNCHANGED <<parent, actDev, actWq, skipped>>
    BY <1>0, <1>15 DEF PassesAttr, AtEntry, NextEntry
  <2>2. Due(file, skipped, pos) = due
    BY <1>4, <2>1
  <2> QED
    BY <1>3, <2>1, <2>2 DEF E
<1> HIDE DEF Goal
<1> QED
    BY <1>8, <1>9, <1>10, <1>11, <1>12, <1>13, <1>14, <1>15 DEF WalkStep, logVars

\* The walk activates nothing.
LEMMA WalkInv ==
    ASSUME IInv, WalkStep
    PROVE  IInv'
<1>1. /\ activated' = <<>> /\ Walking' /\ DOMAIN call' = Process
    BY WalkFacts
<1>2. LoadedMeansEnabled' /\ NothingEnabledEarly' /\ DeviceBeforeWq'
    BY <1>1 DEF LoadedMeansEnabled, NothingEnabledEarly, DeviceBeforeWq, Walking
<1> QED
    BY <1>1, <1>2, WalkType, WalkContext, WalkWrites, WalkQueued DEF IInv

-----------------------------------------------------------------------------
(* The other steps *)

LEMMA ElsewhereInv ==
    ASSUME IInv, Elsewhere
    PROVE  IInv'
<1>1. UNCHANGED <<file, option, pc, pos, rc, parent, cur, actDev, actWq, writes,
                  skipped, activated, call>>
    BY DEF Elsewhere, loadVars, logVars
<1>2. LoadTypeOK' /\ Places' /\ Context' /\ WritesInBlock'
    BY <1>1 DEF IInv, LoadTypeOK, Places, Context, WritesInBlock, Walking, Activating
<1>3. Queued' /\ DevicesQueued'
    BY <1>1 DEF IInv, Queued, DevicesQueued, Walking, Activating, Activatable, NextTarget
<1>4. LoadedMeansEnabled' /\ NothingEnabledEarly' /\ DeviceBeforeWq'
    BY <1>1 DEF IInv, LoadedMeansEnabled, NothingEnabledEarly, DeviceBeforeWq, Activatable
<1> QED
    BY <1>1, <1>2, <1>3, <1>4 DEF IInv

LEMMA FailsInv ==
    ASSUME IInv, Fails
    PROVE  IInv'
<1>1. /\ UNCHANGED <<file, option, pos, actDev, actWq, writes, skipped, activated>>
      /\ pc' = "done" /\ rc' # 0 /\ DOMAIN call' = DOMAIN call
      /\ parent' \in Device \cup {NoObject} /\ cur' \in Component \cup {NoObject}
    BY DEF Fails
<1>2. LoadTypeOK' /\ Places' /\ Context' /\ WritesInBlock'
    BY <1>1 DEF IInv, LoadTypeOK, Places, Context, WritesInBlock, Walking, Activating
<1>3. Queued' /\ DevicesQueued'
    BY <1>1 DEF IInv, Queued, DevicesQueued, Walking, Activating
<1>4. LoadedMeansEnabled' /\ NothingEnabledEarly' /\ DeviceBeforeWq'
    BY <1>1 DEF IInv, LoadedMeansEnabled, NothingEnabledEarly, DeviceBeforeWq
<1> QED
    BY <1>1, <1>2, <1>3, <1>4 DEF IInv

\* The file is read.
LEMMA ReadInv ==
    ASSUME IInv, pc = "read", pc' = "parse",
           UNCHANGED <<file, option, pos, rc, parent, cur, actDev, actWq, logVars, call>>
    PROVE  IInv'
<1>1. UNCHANGED <<writes, skipped, activated>>
    BY DEF logVars
<1>2. LoadTypeOK' /\ Places' /\ Context' /\ WritesInBlock'
    BY <1>1 DEF IInv, LoadTypeOK, Places, Context, WritesInBlock, Walking, Activating
<1>3. Queued' /\ DevicesQueued'
    BY <1>1 DEF IInv, Queued, DevicesQueued, Walking, Activating
<1>4. LoadedMeansEnabled' /\ NothingEnabledEarly' /\ DeviceBeforeWq'
    BY <1>1 DEF IInv, LoadedMeansEnabled, NothingEnabledEarly, DeviceBeforeWq
<1> QED
    BY <1>1, <1>2, <1>3, <1>4 DEF IInv

\* The activation begins with what the whole file asks for.
LEMMA EndOfFileInv ==
    ASSUME IInv, EndOfFile
    PROVE  IInv'
<1>1. /\ UNCHANGED <<file, option, pos, rc, parent, cur, actDev, actWq, writes,
                     skipped, activated, call>>
      /\ pc = "parse" /\ pos > Len(file)
      /\ pc' = IF option.enable THEN "activate" ELSE "done"
    BY DEF EndOfFile, logVars, ctlVars
<1>2. /\ file \in Seq(Entry) /\ pos \in Nat /\ pos <= Len(file) + 1
      /\ rc = 0 /\ activated = <<>>
    BY <1>1, LoadAssumption DEF IInv, LoadTypeOK, Places, Queued, Walking
<1>3. pos - 1 = Len(file)
    BY <1>1, <1>2
<1>4. LoadTypeOK' /\ Places' /\ Context' /\ WritesInBlock'
    BY <1>1, <1>2 DEF IInv, LoadTypeOK, Places, Context, WritesInBlock, Walking, Activating
<1>5. option.enable
        => Elements(activated) \cup Elements(actDev) \cup Elements(actWq) = Activatable
  <2>1. Elements(activated) = {}
    BY <1>2 DEF Elements
  <2>2. option.enable => Elements(actDev) \cup Elements(actWq) = Activatable
    BY <1>1, <1>3 DEF IInv, Queued, Walking, Activatable
  <2> QED
    BY <2>1, <2>2
<1>6. Queued' /\ DevicesQueued'
    BY <1>1, <1>5 DEF IInv, Queued, DevicesQueued, Walking, Activating, Activatable
<1>7. LoadedMeansEnabled' /\ NothingEnabledEarly' /\ DeviceBeforeWq'
    BY <1>1, <1>2 DEF IInv, LoadedMeansEnabled, NothingEnabledEarly, DeviceBeforeWq
<1> QED
    BY <1>1, <1>4, <1>6, <1>7 DEF IInv

LEMMA ActivateNextInv ==
    ASSUME IInv, ActivateNext
    PROVE  IInv'
<1>1. /\ UNCHANGED <<file, option, pos, rc, parent, cur, actDev, actWq, writes,
                     skipped, activated>>
      /\ pc = "activate" /\ pc' = "enabling"
      /\ actDev # <<>> \/ actWq # <<>>
    BY DEF ActivateNext, logVars
<1>2. DOMAIN call' = Process /\ call'[Loader].obj = NextTarget
  <2>1. Loader \in DOMAIN call /\ DOMAIN call = Process
    BY LoadAssumption DEF IInv
  <2>2. call' = [call EXCEPT ![Loader] = [flag |-> "enable", obj |-> NextTarget,
                                          force |-> FALSE]]
    BY DEF ActivateNext, Enter
  <2> QED
    BY <2>1, <2>2
<1>3. LoadTypeOK' /\ Places' /\ Context' /\ WritesInBlock'
    BY <1>1 DEF IInv, LoadTypeOK, Places, Context, WritesInBlock, Walking, Activating
<1>4. Queued' /\ DevicesQueued'
    BY <1>1, <1>2 DEF IInv, Queued, DevicesQueued, Walking, Activating, Activatable,
                      NextTarget
<1>5. LoadedMeansEnabled' /\ NothingEnabledEarly' /\ DeviceBeforeWq'
    BY <1>1 DEF IInv, LoadedMeansEnabled, NothingEnabledEarly, DeviceBeforeWq
<1> QED
    BY <1>1, <1>2, <1>3, <1>4, <1>5 DEF IInv

LEMMA ActivateDoneInv ==
    ASSUME IInv, ActivateDone
    PROVE  IInv'
<1>1. /\ UNCHANGED <<file, option, pos, rc, parent, cur, actDev, actWq, writes,
                     skipped, activated, call>>
      /\ pc = "activate" /\ pc' = "done" /\ actDev = <<>> /\ actWq = <<>>
    BY DEF ActivateDone, logVars, ctlVars
<1>2. LoadTypeOK' /\ Places' /\ Context' /\ WritesInBlock'
    BY <1>1 DEF IInv, LoadTypeOK, Places, Context, WritesInBlock, Walking, Activating
<1>3. Queued' /\ DevicesQueued'
    BY <1>1 DEF IInv, Queued, DevicesQueued, Walking, Activating
<1>4. Elements(activated) = Activatable
  <2>1. Elements(activated) \cup Elements(actDev) \cup Elements(actWq) = Activatable
    BY <1>1 DEF IInv, Queued, Activating
  <2>2. Elements(actDev) = {} /\ Elements(actWq) = {}
    BY <1>1 DEF Elements
  <2> QED
    BY <2>1, <2>2
<1>5. LoadedMeansEnabled' /\ NothingEnabledEarly' /\ DeviceBeforeWq'
    BY <1>1, <1>4 DEF IInv, LoadedMeansEnabled, NothingEnabledEarly, DeviceBeforeWq,
                      Activatable
<1> QED
    BY <1>1, <1>2, <1>3, <1>5 DEF IInv

\* The head of the lists is activated and leaves them; a wq is the head only
\* when no device is left.
LEMMA EnabledInv ==
    ASSUME IInv, Enabled, ret[Loader] = 0
    PROVE  IInv'
<1>1. /\ UNCHANGED <<file, option, pos, rc, parent, cur, writes, skipped>>
      /\ pc = "enabling" /\ pc' = "activate"
      /\ activated' = Append(activated, call[Loader].obj)
      /\ IF actDev # <<>> THEN actDev' = Tail(actDev) /\ actWq' = actWq
                          ELSE actWq' = Tail(actWq) /\ actDev' = actDev
    BY DEF Enabled
<1>2. DOMAIN call' = Process
    BY DEF Enabled, Leave, IInv
<1>3. /\ actDev \in Seq(Device) /\ actWq \in Seq(Wq) /\ activated \in Seq(Object)
      /\ Device \subseteq Object /\ Wq \subseteq Object /\ Device \cap Wq = {}
    BY DriverAssumption DEF IInv, LoadTypeOK, Object
<1>4. /\ actDev # <<>> \/ actWq # <<>>
      /\ call[Loader].obj = IF actDev # <<>> THEN Head(actDev) ELSE Head(actWq)
    BY <1>1 DEF IInv, Queued, NextTarget
<1> DEFINE x == call[Loader].obj
           A == Elements(activated)
           D == Elements(actDev)
           W == Elements(actWq)
<1>5. ASSUME actDev # <<>>
      PROVE  /\ x \in Device /\ D = {x} \cup Elements(actDev')
             /\ actDev' \in Seq(Device) /\ actWq' = actWq
  <2>1. x = Head(actDev) /\ actDev' = Tail(actDev) /\ actWq' = actWq
    BY <1>1, <1>4, <1>5
  <2>2. Head(actDev) \in Device /\ Tail(actDev) \in Seq(Device)
    BY <1>3, <1>5
  <2>3. D = {Head(actDev)} \cup Elements(Tail(actDev))
    BY <1>3, <1>5, <2>2, ElementsOf
  <2> QED
    BY <2>1, <2>2, <2>3
<1>6. ASSUME actDev = <<>>
      PROVE  /\ x \in Wq /\ x \in W /\ W = {x} \cup Elements(actWq')
             /\ actWq' \in Seq(Wq) /\ actDev' = actDev /\ D = {}
  <2>1. actWq # <<>> /\ x = Head(actWq) /\ actWq' = Tail(actWq) /\ actDev' = actDev
    BY <1>1, <1>4, <1>6
  <2>2. Head(actWq) \in Wq /\ Tail(actWq) \in Seq(Wq)
    BY <1>3, <2>1
  <2>3. W = {Head(actWq)} \cup Elements(Tail(actWq)) /\ Head(actWq) \in W
    BY <1>3, <2>1, <2>2, ElementsOf
  <2>4. D = {}
    BY <1>6 DEF Elements
  <2> QED
    BY <2>1, <2>2, <2>3, <2>4
<1> HIDE DEF x, D, W
<1>7. x \in Object /\ activated' = Append(activated, x)
    BY <1>1, <1>3, <1>5, <1>6 DEF x
<1>8. activated' \in Seq(Object) /\ Elements(activated') = A \cup {x}
  <2>1. Append(activated, x) \in Seq(Object)
    BY <1>3, <1>7
  <2>2. Elements(Append(activated, x)) = Elements(activated) \cup {x}
    BY <1>3, <1>7, AppendElements
  <2> QED
    BY <1>7, <2>1, <2>2
<1> HIDE DEF A
<1>9. actDev' \in Seq(Device) /\ actWq' \in Seq(Wq)
    BY <1>3, <1>5, <1>6
<1>10. /\ W = Elements(actWq') \/ W = {x} \cup Elements(actWq')
       /\ D = Elements(actDev') \/ D = {x} \cup Elements(actDev')
       /\ x \in D \cup W
  <2>1. CASE actDev # <<>>
    BY <1>5, <2>1 DEF W
  <2>2. CASE actDev = <<>>
    BY <1>6, <2>2 DEF D
  <2> QED
    BY <2>1, <2>2
<1>11. LoadTypeOK' /\ Places' /\ Context' /\ WritesInBlock'
    BY <1>1, <1>8, <1>9 DEF IInv, LoadTypeOK, Places, Context, WritesInBlock, Walking,
                            Activating
<1>12. option.enable /\ pos > Len(file) /\ A \cup D \cup W = Activatable
    BY <1>1 DEF IInv, Places, Queued, Activating, A, D, W
<1>13. Elements(activated') \cup Elements(actDev') \cup Elements(actWq') = Activatable'
  <2>1. Activatable' = Activatable
    BY <1>1 DEF Activatable
  <2> QED
    BY <1>8, <1>10, <1>12, <2>1
<1>14. Queued'
    BY <1>1, <1>12, <1>13 DEF Queued, Walking, Activating
<1>15. \A w \in W : DevOf[w] \in D \cup A
    BY DEF IInv, DevicesQueued, W, D, A
<1>16. DevicesQueued'
    BY <1>1, <1>8, <1>10, <1>15 DEF DevicesQueued, Walking
<1>17. DeviceBeforeWq'
  <2> SUFFICES ASSUME NEW i \in DOMAIN activated', activated'[i] \in Wq
               PROVE  \E j \in 1..(i - 1) : activated'[j] = DevOf[activated'[i]]
    BY DEF DeviceBeforeWq
  <2>1. /\ Len(activated) \in Nat /\ DOMAIN activated = 1..Len(activated)
        /\ i \in 1..(Len(activated) + 1)
        /\ \A j \in 1..Len(activated) : activated'[j] = activated[j]
        /\ activated'[Len(activated) + 1] = x
    <3>1. Len(activated) \in Nat /\ DOMAIN activated = 1..Len(activated)
      BY <1>3
    <3>2. Len(activated') = Len(activated) + 1 /\ activated'[Len(activated) + 1] = x
      BY <1>3, <1>7
    <3>3. DOMAIN activated' = 1..Len(activated')
      BY <1>8
    <3>4. \A j \in 1..Len(activated) : activated'[j] = activated[j]
      BY <1>3, <1>7
    <3> QED
      BY <3>1, <3>2, <3>3, <3>4
  <2>2. CASE i \in 1..Len(activated)
    <3>1. PICK j \in 1..(i - 1) : activated[j] = DevOf[activated[i]]
      BY <2>1, <2>2 DEF IInv, DeviceBeforeWq
    <3>2. j \in 1..Len(activated)
      BY <2>1, <2>2
    <3> QED
      BY <2>1, <2>2, <3>1, <3>2
  <2>3. CASE i = Len(activated) + 1
    <3>1. x \in Wq
      BY <2>1, <2>3
    <3>2. actDev = <<>>
      BY <1>3, <1>5, <3>1
    <3>3. DevOf[x] \in A
      BY <1>6, <1>15, <3>2
    <3>4. PICK j \in 1..Len(activated) : activated[j] = DevOf[x]
      BY <2>1, <3>3 DEF A, Elements
    <3>5. j \in 1..(i - 1)
      BY <2>1, <2>3
    <3> QED
      BY <2>1, <2>3, <3>4, <3>5
  <2> QED
    BY <2>1, <2>2, <2>3
<1>18. LoadedMeansEnabled' /\ NothingEnabledEarly'
    BY <1>1, <1>12 DEF LoadedMeansEnabled, NothingEnabledEarly
<1> QED
    BY <1>2, <1>11, <1>14, <1>16, <1>17, <1>18 DEF IInv

-----------------------------------------------------------------------------
(* The invariant *)

LEMMA InitInv == Init => IInv
<1> SUFFICES ASSUME Init PROVE IInv
    OBVIOUS
<1>1. /\ file \in File /\ option \in Option
      /\ pc = "read" /\ pos = 1 /\ rc = 0
      /\ parent = NoObject /\ cur = NoObject
      /\ actDev = <<>> /\ actWq = <<>>
      /\ writes = {} /\ skipped = {} /\ activated = <<>>
    BY DEF Init
<1>2. Len(file) \in Nat
    BY <1>1, LoadAssumption
<1>3. DOMAIN call = Process
    BY DEF Init, ControlInit
<1>4. LoadTypeOK /\ Places
    BY <1>1, <1>2 DEF LoadTypeOK, Places, Walking, Activating
<1>5. Context
    BY <1>1, DueNothing DEF Context
<1>6. Queued /\ DevicesQueued
  <2>1. Elements(actDev) = {} /\ Elements(actWq) = {} /\ Due(file, skipped, pos - 1) = {}
    BY <1>1, DueNothing DEF Elements
  <2> QED
    BY <1>1, <2>1 DEF Queued, DevicesQueued, Walking, Activating
<1>7. WritesInBlock /\ LoadedMeansEnabled /\ NothingEnabledEarly /\ DeviceBeforeWq
    BY <1>1 DEF WritesInBlock, LoadedMeansEnabled, NothingEnabledEarly, DeviceBeforeWq
<1> QED
    BY <1>3, <1>4, <1>5, <1>6, <1>7 DEF IInv

LEMMA NextInv == IInv /\ [Next]_vars => IInv'
<1>1. ASSUME IInv, Load PROVE IInv'
    BY <1>1, LoadKinds, ElsewhereInv, FailsInv, WalkInv, ReadInv, EndOfFileInv,
       ActivateNextInv, ActivateDoneInv, EnabledInv
<1>2. ASSUME IInv, OtherProcess PROVE IInv'
    BY <1>2, ElsewhereInv DEF OtherProcess, Elsewhere, ctlVars
<1>3. ASSUME IInv, Environment, UNCHANGED <<loadVars, logVars>> PROVE IInv'
    BY <1>3, ElsewhereInv DEF Environment, Elsewhere
<1>4. ASSUME IInv, UNCHANGED vars PROVE IInv'
    BY <1>4, ElsewhereInv DEF vars, Elsewhere, ctlVars
<1> QED
    BY <1>1, <1>2, <1>3, <1>4 DEF Next

LEMMA IInvAlways == Spec => []IInv
BY InitInv, NextInv, PTL DEF Spec

-----------------------------------------------------------------------------
(* The theorems *)

\* Every attribute of a file goes to the component of its own block, never to
\* one that the static variables of configure_json_value() still point to from
\* an earlier block, and never into a section that was skipped.
THEOREM AttributesReachTheirBlock == Spec => []WritesInBlock
<1>1. IInv => WritesInBlock
    BY DEF IInv
<1> QED
    BY <1>1, IInvAlways, PTL

\* load-config -e that returns 0 has enabled exactly the devices and wqs of
\* the file that it did not skip.
THEOREM LoadEnablesTheFile == Spec => []LoadedMeansEnabled
<1>1. IInv => LoadedMeansEnabled
    BY DEF IInv
<1> QED
    BY <1>1, IInvAlways, PTL

\* Nothing is enabled before the last entry of the file was accepted
\* (cmd_config() calls activate_devices() only when parse_config() returned 0).
THEOREM ErrorsEnableNothing == Spec => []NothingEnabledEarly
<1>1. IInv => NothingEnabledEarly
    BY DEF IInv
<1> QED
    BY <1>1, IInvAlways, PTL

\* A wq is enabled only after the load enabled its device, whatever the order
\* of the sections in the file.
THEOREM DevicesComeFirst == Spec => []DeviceBeforeWq
<1>1. IInv => DeviceBeforeWq
    BY DEF IInv
<1> QED
    BY <1>1, IInvAlways, PTL
=============================================================================
