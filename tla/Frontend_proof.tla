--------------------------- MODULE Frontend_proof ---------------------------
(***************************************************************************)
(* Proofs about the front end of accel-config.                             *)
(*                                                                         *)
(* About CmdStatus, what main() reports of a failed command: for any set   *)
(* of devices, scanned in any order, any number of processes and any codes *)
(* the driver may set.                                                     *)
(*                                                                         *)
(* About OptionParse, what parse_options() makes of a command line: for    *)
(* any table of options with different names, in any order, and any        *)
(* command line.                                                           *)
(***************************************************************************)
EXTENDS CmdStatus, OptionParse, FiniteSetTheorems, WellFoundedInduction, TLAPS

-----------------------------------------------------------------------------
(* The report of a failure. *)

\* The device whose status init_cmd_status ends up with
LastDevice == DeviceDir[Len(DeviceDir)]

\* The scan visits devices.
LEMMA DirType ==
    /\ Len(DeviceDir) \in Nat \ {0}
    /\ LastDevice \in Device
    /\ \A k \in 1..Len(DeviceDir) : DeviceDir[k] \in Device
BY CmdStatusAssumption DEF LastDevice

\* The initial states satisfy the invariant.
LEMMA InitInv == Init => IInv
<1> SUFFICES ASSUME Init PROVE IInv
    OBVIOUS
<1>1. TypeOK
  <2>1. readOnly \in BOOLEAN
    BY Zenon DEF Init
  <2>2. DeviceDir[1] \in Device /\ 1 \in 1..(Len(DeviceDir) + 1)
    BY DirType
  <2> QED
    BY <2>1, <2>2, CmdStatusAssumption DEF Init, TypeOK
<1>2. ScanFirst /\ InitialKnown /\ FailureReadable
    BY DEF Init, ScanFirst, InitialKnown, FailureReadable
<1>3. ErrorNotLost /\ LastDeviceNotStale
    BY DEF Init, ErrorNotLost, LastDeviceNotStale
<1> QED
    BY <1>1, <1>2, <1>3 DEF IInv

\* Every step keeps the invariant: one step per operation, and under it one per
\* part of the invariant.
LEMMA NextInv == IInv /\ [Next]_vars => IInv'
<1> SUFFICES ASSUME IInv, [Next]_vars PROVE IInv'
    OBVIOUS
<1>0. /\ TypeOK /\ ScanFirst /\ InitialKnown /\ FailureReadable
      /\ ErrorNotLost /\ LastDeviceNotStale
    BY DEF IInv
<1>1. ASSUME NEW p \in Process, ClearStatus(p) PROVE IInv'
  <2>0. di[p] \in 1..Len(DeviceDir) /\ DeviceDir[di[p]] \in Device
    BY <1>0, <1>1, DirType DEF ClearStatus, TypeOK
  <2>1. TypeOK'
    <3>1. CASE readOnly
      BY <1>0, <1>1, <3>1 DEF ClearStatus, TypeOK
    <3>2. CASE ~readOnly
      <4>1. status' \in [Device -> Code \cup {Success}]
        BY <1>0, <1>1, <3>2 DEF ClearStatus, TypeOK
      <4>2. set' \in [Process -> SUBSET Device]
        BY <1>0, <1>1, <2>0, <3>2 DEF ClearStatus, Touch, TypeOK
      <4>3. expect' \in [Process -> Code \cup {Success}]
        BY <1>0, <1>1, <3>2 DEF ClearStatus, Touch, TypeOK
      <4> QED
        BY <1>0, <1>1, <4>1, <4>2, <4>3 DEF ClearStatus, TypeOK
    <3> QED
      BY <3>1, <3>2
  <2>2. ScanFirst'
    BY <1>0, <1>1, <2>0 DEF ClearStatus, TypeOK, ScanFirst
  <2>3. InitialKnown' /\ LastDeviceNotStale'
    <3>1. ASSUME NEW q \in Process, LastDevice \notin set'[q]
          PROVE  /\ LastDevice \notin set[q] /\ status'[LastDevice] = status[LastDevice]
                 /\ pc'[q] \in {"run", "failed", "done"} => pc'[q] = pc[q]
      BY <1>0, <1>1, <2>0, <3>1, DirType DEF ClearStatus, Touch, TypeOK
    <3>2. UNCHANGED <<initStatus, saved>>
      BY <1>1 DEF ClearStatus
    <3> QED
      BY <1>0, <3>1, <3>2 DEF InitialKnown, LastDeviceNotStale, LastDevice
  <2>4. FailureReadable' /\ ErrorNotLost'
    BY <1>0, <1>1, <2>0 DEF ClearStatus, Touch, TypeOK, FailureReadable,
                            ErrorNotLost, Report
  <2> QED
    BY <2>1, <2>2, <2>3, <2>4 DEF IInv
<1>2. ASSUME NEW p \in Process, NEW s, ReadInitial(p, s),
             s \in {status[DeviceDir[di[p]]], ReadError}
      PROVE  IInv'
  <2>0. di[p] \in 1..Len(DeviceDir) /\ DeviceDir[di[p]] \in Device
    BY <1>0, <1>2, DirType DEF ReadInitial, TypeOK, ScanFirst
  <2>1. TypeOK'
    BY <1>0, <1>2, <2>0, DirType DEF ReadInitial, TypeOK
  <2>2. ScanFirst'
    BY <1>0, <1>2, <2>0 DEF ReadInitial, TypeOK, ScanFirst
  <2>3. InitialKnown' /\ LastDeviceNotStale'
    BY <1>0, <1>2, <2>0 DEF ReadInitial, TypeOK, ScanFirst, InitialKnown,
                            LastDeviceNotStale
  <2>4. FailureReadable' /\ ErrorNotLost'
    BY <1>0, <1>2, <2>0 DEF ReadInitial, TypeOK, ScanFirst, FailureReadable,
                            ErrorNotLost, Report
  <2> QED
    BY <2>1, <2>2, <2>3, <2>4 DEF IInv
<1>3. ASSUME NEW p \in Process, NEW d \in Device, AccessFails(p, d) PROVE IInv'
  <2>1. TypeOK'
    <3>1. status' \in [Device -> Code \cup {Success}]
      BY <1>0, <1>3 DEF AccessFails, TypeOK
    <3>2. set' \in [Process -> SUBSET Device]
      BY <1>0, <1>3 DEF AccessFails, TypeOK
    <3>3. expect' \in [Process -> Code \cup {Success}]
      BY <1>0, <1>3 DEF AccessFails, TypeOK
    <3>4. fails' \in [Process -> 0..MaxFail]
      BY <1>0, <1>3, CmdStatusAssumption DEF AccessFails, TypeOK
    <3> QED
      BY <1>0, <1>3, <3>1, <3>2, <3>3, <3>4 DEF AccessFails, TypeOK
  <2>2. ScanFirst'
    BY <1>0, <1>3 DEF AccessFails, TypeOK, ScanFirst
  <2>3. InitialKnown' /\ LastDeviceNotStale'
    BY <1>0, <1>3, DirType DEF AccessFails, TypeOK, InitialKnown, LastDevice,
                               LastDeviceNotStale
  <2>4. FailureReadable' /\ ErrorNotLost'
    BY <1>0, <1>3 DEF AccessFails, TypeOK, FailureReadable, ErrorNotLost, Report
  <2> QED
    BY <2>1, <2>2, <2>3, <2>4 DEF IInv
<1>4. ASSUME NEW p \in Process, SaveLastError(p) PROVE IInv'
  <2>1. PICK s \in {GetCmdStatus(p, target[p]), LibError} :
          saved' = [saved EXCEPT ![p] = [dev |-> target[p], st |-> s]]
    BY <1>4 DEF SaveLastError
  <2> DEFINE r == [dev |-> target[p], st |-> s]
  <2>2. s \in Code \cup {Success, LibError} /\ target[p] \in Device
    BY <1>0, <2>1 DEF TypeOK, GetCmdStatus
  <2>3. /\ r \in [dev : Device, st : Code \cup {Success, LibError}]
        /\ r.dev = target[p] /\ r.st = s
    BY <2>2
  <2>4. /\ saved' = [saved EXCEPT ![p] = r] /\ pc' = [pc EXCEPT ![p] = "run"]
        /\ pc[p] = "failed"
        /\ UNCHANGED <<status, readOnly, erange, di, initStatus, target, fails, set,
                       expect>>
    BY <1>4, <2>1 DEF SaveLastError
  <2> HIDE DEF r
  <2>5. TypeOK'
    BY <1>0, <2>3, <2>4 DEF TypeOK
  <2>6. ScanFirst' /\ InitialKnown' /\ FailureReadable'
    BY <1>0, <2>4 DEF TypeOK, ScanFirst, InitialKnown, FailureReadable
  <2>7. expect[p] # Success => s \in {expect[p], LibError}
    BY <1>0, <2>1, <2>4 DEF FailureReadable, GetCmdStatus
  <2>8. ErrorNotLost'
    BY <1>0, <2>3, <2>4, <2>7 DEF TypeOK, ErrorNotLost, Report
  <2>9. /\ target[p] = LastDevice
        /\ LastDevice \notin set[p] /\ initStatus[p] # ReadError
        => s \in {Success, LibError}
    BY <1>0, <2>1, <2>4 DEF InitialKnown, GetCmdStatus, LastDevice
  <2>10. LastDeviceNotStale'
    BY <1>0, <2>3, <2>4, <2>9 DEF TypeOK, LastDeviceNotStale, LastDevice
  <2> QED
    BY <2>5, <2>6, <2>8, <2>10 DEF IInv
<1>5. ASSUME NEW p \in Process, Finish(p) PROVE IInv'
  <2>1. TypeOK'
    BY <1>0, <1>5 DEF Finish, TypeOK
  <2>2. ScanFirst' /\ InitialKnown' /\ FailureReadable'
    BY <1>0, <1>5 DEF Finish, TypeOK, ScanFirst, InitialKnown, FailureReadable
  <2>3. ErrorNotLost' /\ LastDeviceNotStale'
    BY <1>0, <1>5 DEF Finish, TypeOK, ErrorNotLost, LastDeviceNotStale, Report
  <2> QED
    BY <2>1, <2>2, <2>3 DEF IInv
<1>6. CASE UNCHANGED vars
    BY <1>0, <1>6 DEF vars, IInv, TypeOK, ScanFirst, InitialKnown, FailureReadable,
                      ErrorNotLost, LastDeviceNotStale, Report
<1> QED
    BY <1>1, <1>2, <1>3, <1>4, <1>5, <1>6 DEF Next, Step, ReadSucceeds, ReadFails

\* and so holds throughout.
LEMMA IInvAlways == Spec => []IInv
BY InitInv, NextInv, PTL DEF Spec

\* ErrorReachesReport: the status the driver set for the last failed access is
\* reported, or the library says that it could not tell, for any number of
\* processes, unless another one wrote that status meanwhile.
THEOREM ErrorReachesReport == Spec => []ErrorNotLost
<1>1. IInv => ErrorNotLost
    BY DEF IInv
<1> QED
    BY <1>1, IInvAlways, PTL

\* LeftoverNotReported: a status from before the scan is never given as the
\* reason of a failure of the device scanned last, unless the scan could not
\* read it.
THEOREM LeftoverNotReported == Spec => []LastDeviceNotStale
<1>1. IInv => LastDeviceNotStale
    BY DEF IInv
<1> QED
    BY <1>1, IInvAlways, PTL

\* TextOrHole: whatever codes the driver may set, neither table is read beyond
\* its end, and a report lacks a text only if its low bits alone name a hole of
\* the device's table.
THEOREM TextOrHole == Spec => []TextUnlessHole
<1>1. ASSUME NEW s \in Code \cup {Success, LibError}
      PROVE  LET t == CmdStatusStr(s)
             IN  \/ t[1] = "sw" /\ t[2] \in SwText
                 \/ t[1] = "cmd" /\ t[2] \in CmdText
                 \/ t = <<"cmd", s.low>> /\ s.low \in CmdHole /\ s.sw = 0
  <2>1. s.sw \in Nat /\ s.low \in Nat
    BY CodeAssumption DEF StatusSet, Success, LibError, Status
  <2>2. CmdStatusMax \in CmdText
    BY DEF CmdStatusMax, CmdText
  <2>3. s.low <= CmdStatusMax /\ s.low \notin CmdText => s.low \in CmdHole
    BY <2>1 DEF CmdHole, CmdStatusMax
  <2>4. s.sw > 0 /\ s.sw < 15 => s.sw \in SwText
    BY <2>1 DEF SwText
  <2> QED
    BY <2>1, <2>2, <2>3, <2>4 DEF CmdStatusStr, CmdStatusMax
<1>2. IInv => TextUnlessHole
  <2> SUFFICES ASSUME IInv, NEW p \in Process
               PROVE  Report(p) \in Code \cup {Success, LibError}
    BY <1>1, Zenon DEF TextUnlessHole
  <2>1. saved[p] \in {None} \cup [dev : Device, st : Code \cup {Success, LibError}]
    BY DEF IInv, TypeOK
  <2> QED
    BY <2>1 DEF Report
<1> QED
    BY <1>2, IInvAlways, PTL


-----------------------------------------------------------------------------
(* Parsing of options: numbers and texts. *)

\* A set of numbers that is not empty has a least one.
LEMMA LeastNumber ==
    ASSUME NEW T \in SUBSET Nat, T # {}
    PROVE  \E k \in T : \A j \in T : k <= j
<1>1. PICK k \in T : \A j \in T : <<j, k>> \notin OpToRel(<, Nat)
    BY NatLessThanWellFounded, WFMin, Zenon
<1>2. \A j \in T : ~(j < k)
    BY <1>1, Zenon DEF OpToRel
<1> QED
    BY <1>2

\* f begins with s and goes on with g.
Solves(f, S, s, M, g) ==
    f \in [0..M -> S] /\ f[0] = s /\ \A n \in 1..M : f[n] = g[n][f[n - 1]]

\* A recursion that goes back by one has a solution.
LEMMA Recursion ==
    ASSUME NEW S, NEW s \in S, NEW M \in Nat, NEW g \in [1..M -> [S -> S]]
    PROVE  \E f : Solves(f, S, s, M, g)
<1> DEFINE Good(n) == \E f : Solves(f, S, s, n, g)
           Bad == {n \in 0..M : ~Good(n)}
<1> HIDE DEF Good
<1> SUFFICES ASSUME Bad # {} PROVE FALSE
  <2>1. Bad = {} => Good(M)
    OBVIOUS
  <2> QED
    BY <2>1 DEF Good
<1>1. PICK n \in Bad : \A j \in Bad : n <= j
  <2>1. Bad \in SUBSET Nat
    OBVIOUS
  <2> HIDE DEF Bad
  <2> QED
    BY <2>1, LeastNumber
<1>2. n # 0
  <2> DEFINE f == [m \in 0..0 |-> s]
  <2>1. f \in [0..0 -> S] /\ f[0] = s /\ \A m \in 1..0 : f[m] = g[m][f[m - 1]]
    OBVIOUS
  <2> HIDE DEF f
  <2>2. Good(0)
    BY <2>1 DEF Good, Solves
  <2> QED
    BY <2>2
<1>3. n \in 1..M /\ n - 1 \in 0..M /\ n - 1 \notin Bad
    BY <1>1, <1>2
<1>4. PICK f \in [0..(n - 1) -> S] :
          f[0] = s /\ \A m \in 1..(n - 1) : f[m] = g[m][f[m - 1]]
    BY <1>3 DEF Good, Solves
<1> DEFINE h == [m \in 0..n |-> IF m < n THEN f[m] ELSE g[n][f[n - 1]]]
<1>5. h \in [0..n -> S]
  <2>1. f[n - 1] \in S /\ g[n] \in [S -> S]
    BY <1>3
  <2> QED
    BY <1>3, <2>1
<1>6. h[0] = s
    BY <1>3, <1>4
<1>7. ASSUME NEW m \in 1..n PROVE h[m] = g[m][h[m - 1]]
    BY <1>3, <1>4
<1>8. Good(n)
  <2> HIDE DEF h
  <2> QED
    BY <1>5, <1>6, <1>7 DEF Good, Solves
<1> QED
    BY <1>8

\* What a prefix is, by the pieces.
LEMMA Prefix ==
    ASSUME NEW s \in Text, NEW t \in Text
    PROVE  IsPrefix(s, t) <=> Len(s) <= Len(t) /\ \A i \in 1..Len(s) : s[i] = t[i]
<1>1. CASE Len(s) <= Len(t)
  <2>1. SubSeq(s, 1, Len(s)) = [i \in 1..Len(s) |-> s[i]]
    BY DEF Text
  <2>2. SubSeq(t, 1, Len(s)) = [i \in 1..Len(s) |-> t[i]]
    BY <1>1 DEF Text
  <2> QED
    BY <1>1, <2>1, <2>2 DEF IsPrefix
<1>2. CASE ~(Len(s) <= Len(t))
    BY <1>2 DEF IsPrefix
<1> QED
    BY <1>1, <1>2

\* Texts with the same pieces are equal.
LEMMA SameText ==
    ASSUME NEW s \in Text, NEW t \in Text, Len(s) = Len(t),
           \A i \in 1..Len(s) : s[i] = t[i]
    PROVE  s = t
BY DEF Text

\* The rest of a text.
LEMMA Rest ==
    ASSUME NEW t \in Text, NEW n \in 0..Len(t)
    PROVE  /\ From(t, n) \in Text
           /\ Len(From(t, n)) = Len(t) - n
           /\ \A i \in 1..(Len(t) - n) : From(t, n)[i] = t[n + i]
           /\ From(t, n) = <<>> <=> n = Len(t)
<1>1. Len(t) \in Nat
    BY DEF Text
<1>2. /\ From(t, n) \in Text
      /\ Len(From(t, n)) = Len(t) - n
      /\ \A i \in 1..(Len(t) - n) : From(t, n)[i] = t[n + i]
    BY <1>1 DEF From, Text
<1> QED
    BY <1>1, <1>2 DEF Text

\* One text behind another.
LEMMA Concatenated ==
    ASSUME NEW s \in Text, NEW t \in Text
    PROVE  /\ s \o t \in Text /\ Len(s \o t) = Len(s) + Len(t)
           /\ \A i \in 1..Len(s) : (s \o t)[i] = s[i]
           /\ \A i \in (Len(s) + 1)..(Len(s) + Len(t)) : (s \o t)[i] = t[i - Len(s)]
BY DEF Text

\* The place of the first "=".
LEMMA FirstEq ==
    ASSUME NEW t \in Text
    PROVE  /\ Eq(t) \in 0..Len(t)
           /\ Eq(t) = 0 => \A i \in 1..Len(t) : t[i] # "="
           /\ Eq(t) # 0 => t[Eq(t)] = "=" /\ \A i \in 1..(Eq(t) - 1) : t[i] # "="
<1> DEFINE I == {i \in 1..Len(t) : t[i] = "="}
<1>0. Len(t) \in Nat
    BY DEF Text
<1>1. Eq(t) = IF I # {} THEN Min(I) ELSE 0
    BY DEF Eq, SelectInSeq
<1>2. CASE I = {}
    BY <1>0, <1>1, <1>2
<1>3. CASE I # {}
  <2>1. PICK k \in I : \A j \in I : k <= j
    <3>1. I \in SUBSET Nat
      BY <1>0
    <3> HIDE DEF I
    <3> QED
      BY <1>3, <3>1, LeastNumber
  <2>2. Min(I) \in I /\ \A j \in I : Min(I) <= j
    <3> HIDE DEF I
    <3> QED
      BY <2>1 DEF Min
  <2>3. PICK e \in I : e = Eq(t) /\ \A j \in I : e <= j
    BY <1>1, <1>3, <2>2
  <2> QED
    BY <1>0, <2>3
<1> QED
    BY <1>2, <1>3

\* The text before the first "=".
LEMMA StemIs ==
    ASSUME NEW t \in Text
    PROVE  /\ Stem(t) \in Text
           /\ Len(Stem(t)) = IF Eq(t) = 0 THEN Len(t) ELSE Eq(t) - 1
           /\ \A i \in 1..Len(Stem(t)) : Stem(t)[i] = t[i] /\ t[i] # "="
<1>1. Len(t) \in Nat
    BY DEF Text
<1>2. CASE Eq(t) = 0
    BY <1>2, FirstEq DEF Stem, Text
<1>3. CASE Eq(t) # 0
  <2>1. PICK e \in 1..Len(t) : e = Eq(t) /\ \A i \in 1..(e - 1) : t[i] # "="
    BY <1>1, <1>3, FirstEq
  <2>2. SubSeq(t, 1, e - 1) \in Text /\ Len(SubSeq(t, 1, e - 1)) = e - 1
        /\ \A i \in 1..(e - 1) : SubSeq(t, 1, e - 1)[i] = t[i]
    BY <1>1, <2>1 DEF Text
  <2>3. Stem(t) = SubSeq(t, 1, e - 1)
    BY <1>3, <2>1 DEF Stem
  <2> QED
    BY <1>3, <2>1, <2>2, <2>3
<1> QED
    BY <1>2, <1>3

\* The match of parse_long_opt(): the name is what is before the first "=".
LEMMA MatchIff ==
    ASSUME NEW t \in Text, NEW name \in Text, \A i \in 1..Len(name) : name[i] # "="
    PROVE  (/\ IsPrefix(name, t)
            /\ From(t, Len(name)) = <<>> \/ From(t, Len(name))[1] = "=")
           <=> Stem(t) = name
<1>0. Len(t) \in Nat /\ Len(name) \in Nat /\ Eq(t) \in 0..Len(t)
    BY FirstEq DEF Text
<1>1. ASSUME Stem(t) = name
      PROVE  IsPrefix(name, t) /\ (From(t, Len(name)) = <<>> \/ From(t, Len(name))[1] = "=")
  <2>1. Len(name) <= Len(t)
    BY <1>0, <1>1, StemIs
  <2>2. IsPrefix(name, t)
    BY <1>1, <2>1, StemIs, Prefix
  <2>3. CASE Eq(t) = 0
    BY <1>0, <1>1, <2>1, <2>2, <2>3, StemIs, Rest
  <2>4. CASE Eq(t) # 0
    <3>1. Len(name) = Eq(t) - 1 /\ Len(name) \in 0..Len(t) /\ 1 \in 1..(Len(t) - Len(name))
      BY <1>0, <1>1, <2>4, StemIs
    <3>2. From(t, Len(name))[1] = t[Len(name) + 1]
      BY <3>1, Rest
    <3>3. t[Eq(t)] = "="
      BY <2>4, FirstEq
    <3> QED
      BY <1>0, <2>2, <3>1, <3>2, <3>3
  <2> QED
    BY <2>2, <2>3, <2>4
<1>2. ASSUME IsPrefix(name, t), From(t, Len(name)) = <<>> \/ From(t, Len(name))[1] = "="
      PROVE  Stem(t) = name
  <2>1. Len(name) \in 0..Len(t) /\ \A i \in 1..Len(name) : name[i] = t[i]
    BY <1>0, <1>2, Prefix
  <2>2. CASE Len(name) = Len(t)
    <3>1. Eq(t) = 0
      <4>1. Eq(t) \in 1..Len(name) => t[Eq(t)] # "="
        BY <2>1
      <4> QED
        BY <1>0, <2>2, <4>1, FirstEq
    <3>2. Stem(t) = t
      BY <3>1 DEF Stem
    <3> QED
      BY <2>1, <2>2, <3>2, SameText
  <2>3. CASE Len(name) # Len(t)
    <3>1. 1 \in 1..(Len(t) - Len(name)) /\ Len(name) + 1 \in 1..Len(t)
      BY <1>0, <2>1, <2>3
    <3>2. t[Len(name) + 1] = "="
      BY <1>2, <2>1, <2>3, <3>1, Rest
    <3>3. Eq(t) # 0
      BY <3>1, <3>2, FirstEq
    <3>4. ~(Eq(t) <= Len(name))
      BY <1>0, <2>1, <3>3, FirstEq
    <3>5. ~(Eq(t) - 1 >= Len(name) + 1)
      BY <1>0, <3>1, <3>2, <3>3, FirstEq
    <3>6. Eq(t) = Len(name) + 1
      BY <1>0, <3>4, <3>5
    <3>7. Len(Stem(t)) = Len(name) /\ Stem(t) \in Text
          /\ \A i \in 1..Len(name) : Stem(t)[i] = t[i]
      BY <1>0, <3>3, <3>6, StemIs
    <3> QED
      BY <2>1, <3>7, SameText
  <2> QED
    BY <2>2, <2>3
<1> QED
    BY <1>1, <1>2

\* The options of a table.
LEMMA TableIs ==
    ASSUME NEW tab \in Table
    PROVE  /\ tab \in Seq(Option) /\ Len(tab) \in Nat /\ DOMAIN tab = 1..Len(tab)
           /\ \A k \in DOMAIN tab :
                /\ tab[k] \in Option
                /\ tab[k].long \in Text /\ Len(tab[k].long) \in Nat /\ Len(tab[k].long) > 1
                /\ ~IsPrefix(No, tab[k].long)
                /\ \A i \in 1..Len(tab[k].long) : tab[k].long[i] # "="
                /\ tab[k].short \in Piece /\ tab[k].short # "h"
                /\ tab[k].type \in {"boolean", "string", "number"}
           /\ \A k, l \in DOMAIN tab : tab[k].short = tab[l].short => k = l
           /\ \A k, l \in DOMAIN tab : tab[k].long = tab[l].long => k = l
<1>1. tab \in Seq(Option) /\ Len(tab) \in Nat /\ DOMAIN tab = 1..Len(tab)
    BY OptionAssumption
<1>2. ASSUME NEW k \in DOMAIN tab
      PROVE  /\ tab[k] \in Option
             /\ tab[k].long \in Text /\ Len(tab[k].long) \in Nat
             /\ DOMAIN tab[k].long = 1..Len(tab[k].long)
             /\ tab[k].short \in Piece
             /\ tab[k].type \in {"boolean", "string", "number"}
  <2>1. tab[k] \in Option
    BY <1>1
  <2> QED
    BY <2>1 DEF Option, Text
<1> QED
    BY <1>1, <1>2, OptionAssumption

\* "no-" and a negated name.
LEMMA Negated ==
    ASSUME NEW long \in Text, \A i \in 1..Len(long) : long[i] # "="
    PROVE  /\ No \in Text /\ Len(No) = 2 /\ No[1] = "n" /\ No[2] = "o-"
           /\ No \o long \in Text /\ Len(No \o long) = Len(long) + 2
           /\ (No \o long)[1] = "n" /\ (No \o long)[2] = "o-"
           /\ \A i \in 1..Len(long) : (No \o long)[i + 2] = long[i]
           /\ \A i \in 1..(Len(long) + 2) : (No \o long)[i] # "="
<1>1. No \in Text /\ Len(No) = 2 /\ No[1] = "n" /\ No[2] = "o-"
    BY OptionAssumption DEF No, Text
<1>2. Len(long) \in Nat
    BY DEF Text
<1> DEFINE name == No \o long
<1>3. /\ name \in Text /\ Len(name) = Len(long) + 2
      /\ \A i \in 1..2 : name[i] = No[i]
      /\ \A i \in 3..(Len(long) + 2) : name[i] = long[i - 2]
  <2>1. /\ No \o long \in Text /\ Len(No \o long) = Len(No) + Len(long)
        /\ \A i \in 1..Len(No) : (No \o long)[i] = No[i]
        /\ \A i \in (Len(No) + 1)..(Len(No) + Len(long)) : (No \o long)[i] = long[i - Len(No)]
    BY <1>1, Concatenated
  <2> QED
    BY <1>1, <1>2, <2>1
<1> HIDE DEF name
<1>4. name[1] = "n" /\ name[2] = "o-"
    BY <1>1, <1>2, <1>3
<1>5. ASSUME NEW i \in 1..Len(long) PROVE name[i + 2] = long[i]
    BY <1>1, <1>2, <1>3
<1>6. ASSUME NEW i \in 1..(Len(long) + 2) PROVE name[i] # "="
  <2>1. CASE i = 1 \/ i = 2
    BY <1>4, <2>1
  <2>2. CASE i \notin {1, 2}
    <3>1. i - 2 \in 1..Len(long) /\ name[i] = long[i - 2]
      BY <1>1, <1>2, <1>3, <2>2
    <3> QED
      BY <3>1
  <2> QED
    BY <2>1, <2>2
<1> QED
    BY <1>1, <1>3, <1>4, <1>5, <1>6 DEF name

\* What a table assumes of a long name.
IsName(long) ==
    /\ long \in Text /\ Len(long) \in Nat /\ Len(long) > 1 /\ ~IsPrefix(No, long)
    /\ \A i \in 1..Len(long) : long[i] # "="

\* A negated name, found piece by piece behind "no-".
LEMMA NegatedMatch ==
    ASSUME NEW t \in Text, NEW long, IsName(long)
    PROVE  (/\ IsPrefix(No, t) /\ IsPrefix(long, From(t, Len(No)))
            /\ \/ From(From(t, Len(No)), Len(long)) = <<>>
               \/ From(From(t, Len(No)), Len(long))[1] = "=")
           <=> Stem(t) = Negation(long)
<1>0. /\ long \in Text /\ Len(long) \in Nat /\ Len(t) \in Nat
      /\ \A i \in 1..Len(long) : long[i] # "="
    BY DEF IsName, Text
<1> DEFINE name == No \o long
<1>1. /\ No \in Text /\ Len(No) = 2 /\ No[1] = "n" /\ No[2] = "o-"
      /\ name \in Text /\ Len(name) = Len(long) + 2 /\ name[1] = "n" /\ name[2] = "o-"
      /\ \A i \in 1..Len(long) : name[i + 2] = long[i]
      /\ \A i \in 1..Len(name) : name[i] # "="
    BY <1>0, Negated
<1> HIDE DEF name
<1>2. IsPrefix(name, t) <=> IsPrefix(No, t) /\ IsPrefix(long, From(t, 2))
  <2>1. CASE Len(t) < 2
    <3>1. ~IsPrefix(name, t)
      BY <1>0, <1>1, <2>1, Prefix
    <3>2. ~IsPrefix(No, t)
      <4>1. ~(Len(No) <= Len(t))
        BY <1>0, <1>1, <2>1
      <4> QED
        BY <1>1, <4>1, Prefix
    <3> QED
      BY <3>1, <3>2
  <2>2. CASE Len(t) >= 2
    <3>1. 2 \in 0..Len(t)
      BY <1>0, <2>2
    <3>2. /\ From(t, 2) \in Text /\ Len(From(t, 2)) = Len(t) - 2
          /\ \A i \in 1..(Len(t) - 2) : From(t, 2)[i] = t[2 + i]
      BY <3>1, Rest
    <3>3. IsPrefix(No, t) <=> t[1] = "n" /\ t[2] = "o-"
      <4>1. IsPrefix(No, t) <=> Len(No) <= Len(t) /\ \A i \in 1..Len(No) : No[i] = t[i]
        BY <1>1, Prefix
      <4>2. (\A i \in 1..2 : No[i] = t[i]) <=> No[1] = t[1] /\ No[2] = t[2]
        BY 1..2 = {1, 2}
      <4> QED
        BY <1>0, <1>1, <2>2, <4>1, <4>2
    <3>4. IsPrefix(long, From(t, 2)) <=> /\ Len(long) <= Len(t) - 2
                                         /\ \A i \in 1..Len(long) : long[i] = t[2 + i]
      BY <1>0, <2>2, <3>2, Prefix
    <3>5. IsPrefix(name, t) <=> /\ Len(long) + 2 <= Len(t) /\ t[1] = "n" /\ t[2] = "o-"
                                /\ \A i \in 1..Len(long) : long[i] = t[2 + i]
      <4>1. ASSUME \A i \in 1..Len(name) : name[i] = t[i], NEW i \in 1..Len(long)
            PROVE  long[i] = t[2 + i]
        <5>1. i + 2 \in 1..Len(name)
          BY <1>0, <1>1
        <5> QED
          BY <1>1, <4>1, <5>1
      <4>2. ASSUME t[1] = "n", t[2] = "o-", \A i \in 1..Len(long) : long[i] = t[2 + i],
                   NEW i \in 1..Len(name)
            PROVE  name[i] = t[i]
        <5>1. CASE i \notin {1, 2}
          <6>1. i - 2 \in 1..Len(long)
            BY <1>0, <1>1, <5>1
          <6> QED
            <7>1. name[(i - 2) + 2] = long[i - 2] /\ long[i - 2] = t[2 + (i - 2)]
              BY <1>1, <4>2, <6>1
            <7> QED
              BY <1>0, <1>1, <7>1
        <5> QED
          BY <1>1, <4>2, <5>1
      <4>3. 1 \in 1..Len(name) /\ 2 \in 1..Len(name)
        BY <1>0, <1>1
      <4> QED
        BY <1>0, <1>1, <4>1, <4>2, <4>3, Prefix
    <3> QED
      BY <1>0, <3>3, <3>4, <3>5
  <2> QED
    BY <1>0, <2>1, <2>2
<1>3. IsPrefix(name, t) => From(From(t, 2), Len(long)) = From(t, Len(name))
  <2> SUFFICES ASSUME IsPrefix(name, t)
               PROVE  From(From(t, 2), Len(long)) = From(t, Len(name))
    OBVIOUS
  <2>1. Len(long) + 2 <= Len(t)
    BY <1>1, Prefix
  <2>2. 2 \in 0..Len(t) /\ Len(long) + 2 \in 0..Len(t) /\ Len(long) \in 0..(Len(t) - 2)
    BY <1>0, <2>1
  <2>3. /\ From(t, 2) \in Text /\ Len(From(t, 2)) = Len(t) - 2
        /\ \A i \in 1..(Len(t) - 2) : From(t, 2)[i] = t[2 + i]
    BY <2>2, Rest
  <2>4. /\ From(From(t, 2), Len(long)) \in Text
        /\ Len(From(From(t, 2), Len(long))) = Len(t) - 2 - Len(long)
        /\ \A i \in 1..(Len(t) - 2 - Len(long)) :
             From(From(t, 2), Len(long))[i] = From(t, 2)[Len(long) + i]
    <3>1. PICK u \in Text : u = From(t, 2) /\ Len(u) = Len(t) - 2
      BY <2>3
    <3>2. Len(long) \in 0..Len(u)
      BY <2>2, <3>1
    <3>3. /\ From(u, Len(long)) \in Text /\ Len(From(u, Len(long))) = Len(u) - Len(long)
          /\ \A i \in 1..(Len(u) - Len(long)) : From(u, Len(long))[i] = u[Len(long) + i]
      BY <3>2, Rest
    <3> QED
      BY <3>1, <3>3
  <2>5. /\ From(t, Len(name)) \in Text
        /\ Len(From(t, Len(name))) = Len(t) - Len(name)
        /\ \A i \in 1..(Len(t) - Len(name)) : From(t, Len(name))[i] = t[Len(name) + i]
    BY <1>1, <2>2, Rest
  <2>6. ASSUME NEW i \in 1..(Len(t) - Len(name))
        PROVE  From(From(t, 2), Len(long))[i] = From(t, Len(name))[i]
    <3>1. /\ i \in 1..(Len(t) - 2 - Len(long)) /\ Len(long) + i \in 1..(Len(t) - 2)
          /\ 2 + (Len(long) + i) = Len(name) + i
      BY <1>0, <1>1
    <3> QED
      BY <2>3, <2>4, <2>5, <3>1
  <2> QED
    BY <1>0, <1>1, <2>4, <2>5, <2>6, SameText
<1>4. (IsPrefix(name, t) /\ (From(t, Len(name)) = <<>> \/ From(t, Len(name))[1] = "="))
      <=> Stem(t) = name
    BY <1>1, MatchIff
<1> QED
    BY <1>1, <1>2, <1>3, <1>4 DEF name, Negation

\* How the tests of parse_long_opt() exclude and imply one another.
LEMMA NameTests ==
    ASSUME NEW t \in Text, NEW long, IsName(long)
    PROVE  /\ IsPrefix(long, t) /\ IsPrefix(Stem(t), long) => Stem(t) = long
           /\ Stem(t) = Negation(long) =>
                ~IsPrefix(long, t) /\ ~IsPrefix(Stem(t), long) /\ ~IsPrefix(t, No)
           /\ Eq(t) = 0 /\ IsPrefix(t, Negation(long)) <=>
                \/ IsPrefix(t, No)
                \/ IsPrefix(No, t) /\ IsPrefix(From(t, Len(No)), long)
           /\ Eq(t) = 0 /\ IsPrefix(t, Negation(long)) => ~IsPrefix(long, t)
           /\ IsPrefix(No, t) /\ IsPrefix(long, From(t, Len(No)))
                /\ IsPrefix(From(t, Len(No)), long) => Stem(t) = Negation(long)
<1>0. /\ long \in Text /\ Len(long) \in Nat /\ Len(long) > 1 /\ Len(t) \in Nat
      /\ \A i \in 1..Len(long) : long[i] # "="
      /\ Eq(t) \in 0..Len(t)
    BY FirstEq DEF IsName, Text
<1> DEFINE name == Negation(long)
<1>1. /\ No \in Text /\ Len(No) = 2 /\ No[1] = "n" /\ No[2] = "o-"
      /\ name \in Text /\ Len(name) = Len(long) + 2 /\ name[1] = "n" /\ name[2] = "o-"
      /\ \A i \in 1..Len(long) : name[i + 2] = long[i]
      /\ \A i \in 1..Len(name) : name[i] # "="
    BY <1>0, Negated DEF Negation
<1> HIDE DEF name
<1>2. long[1] # "n" \/ long[2] # "o-"
  <2>1. 1..Len(No) = {1, 2} /\ Len(No) <= Len(long)
    BY <1>0, <1>1
  <2>2. ~(\A i \in {1, 2} : No[i] = long[i])
    BY <1>0, <1>1, <2>1, Prefix DEF IsName
  <2> QED
    BY <1>1, <2>2
<1>3. 1 \in 1..Len(long) /\ 2 \in 1..Len(long)
    BY <1>0
<1>4. ASSUME IsPrefix(long, t), IsPrefix(Stem(t), long) PROVE Stem(t) = long
  <2>1. Len(long) <= Len(t) /\ \A i \in 1..Len(long) : long[i] = t[i]
    BY <1>0, <1>4, Prefix
  <2>2. Stem(t) \in Text /\ Len(Stem(t)) <= Len(long)
        /\ \A i \in 1..Len(Stem(t)) : Stem(t)[i] = long[i]
    BY <1>0, <1>4, Prefix, StemIs
  <2>3. Len(Stem(t)) = Len(long)
    <3>1. CASE Eq(t) = 0
      BY <1>0, <2>1, <2>2, <3>1, StemIs
    <3>2. CASE Eq(t) # 0
      <4>1. Eq(t) \in 1..Len(t) /\ t[Eq(t)] = "=" /\ Len(Stem(t)) = Eq(t) - 1
        BY <1>0, <3>2, FirstEq, StemIs
      <4>2. Eq(t) \notin 1..Len(long)
        BY <1>0, <2>1, <4>1
      <4> QED
        BY <1>0, <2>2, <4>1, <4>2
    <3> QED
      BY <3>1, <3>2
  <2> QED
    BY <1>0, <2>2, <2>3, SameText
<1>5. ASSUME Stem(t) = name
      PROVE  ~IsPrefix(long, t) /\ ~IsPrefix(Stem(t), long) /\ ~IsPrefix(t, No)
  <2>1. /\ Len(t) >= Len(long) + 2 /\ t[1] = "n" /\ t[2] = "o-"
    <3>1. Len(Stem(t)) <= Len(t) /\ 1 \in 1..Len(name) /\ 2 \in 1..Len(name)
      BY <1>0, <1>1, <1>5, StemIs
    <3>2. name[1] = t[1] /\ name[2] = t[2]
      BY <1>5, <3>1, StemIs
    <3> QED
      BY <1>1, <1>5, <3>1, <3>2
  <2>2. ~IsPrefix(long, t)
    BY <1>0, <1>2, <1>3, <2>1, Prefix
  <2>3. ~IsPrefix(name, long)
    <3>1. ~(Len(name) <= Len(long))
      BY <1>0, <1>1
    <3> QED
      BY <1>0, <1>1, <3>1, Prefix
  <2>4. ~IsPrefix(t, No)
    <3>1. ~(Len(t) <= Len(No))
      BY <1>0, <1>1, <2>1
    <3> QED
      BY <1>1, <3>1, Prefix
  <2> QED
    BY <1>5, <2>2, <2>3, <2>4
<1>6. ASSUME IsPrefix(t, No) PROVE Eq(t) = 0 /\ IsPrefix(t, name)
  <2>1. Len(t) <= 2 /\ \A i \in 1..Len(t) : t[i] = No[i]
    BY <1>1, <1>6, Prefix
  <2>2. \A i \in 1..Len(t) : t[i] = name[i] /\ i \in 1..Len(name)
    <3>1. \A i \in 1..Len(t) : i \in {1, 2}
      BY <1>0, <2>1
    <3>2. {1, 2} \subseteq 1..Len(name)
      BY <1>0, <1>1
    <3>3. \A i \in {1, 2} : No[i] = name[i]
      BY <1>1
    <3> QED
      BY <2>1, <3>1, <3>2, <3>3
  <2>3. Len(t) <= Len(name)
    BY <1>0, <1>1, <2>1
  <2>4. IsPrefix(t, name)
    BY <1>1, <2>2, <2>3, Prefix
  <2>5. \A i \in 1..Len(t) : t[i] # "="
    BY <1>1, <2>2
  <2> QED
    BY <1>0, <2>4, <2>5, FirstEq
<1>7. ASSUME IsPrefix(No, t), IsPrefix(From(t, 2), long) PROVE Eq(t) = 0 /\ IsPrefix(t, name)
  <2>1. 2 \in 0..Len(t) /\ \A i \in 1..2 : No[i] = t[i]
    <3>1. Len(No) <= Len(t) /\ \A i \in 1..Len(No) : No[i] = t[i]
      BY <1>1, <1>7, Prefix
    <3> QED
      BY <1>0, <1>1, <3>1
  <2>2. /\ From(t, 2) \in Text /\ Len(From(t, 2)) = Len(t) - 2
        /\ \A i \in 1..(Len(t) - 2) : From(t, 2)[i] = t[2 + i]
    BY <2>1, Rest
  <2>3. Len(t) - 2 <= Len(long) /\ \A i \in 1..(Len(t) - 2) : From(t, 2)[i] = long[i]
    BY <1>0, <1>7, <2>2, Prefix
  <2>4. ASSUME NEW i \in 1..Len(t) PROVE t[i] = name[i] /\ i \in 1..Len(name)
    <3>1. CASE i \in 1..2
      <4>1. t[i] = No[i]
        BY <2>1, <3>1
      <4>2. i = 1 \/ i = 2
        BY <3>1
      <4> QED
        BY <1>0, <1>1, <4>1, <4>2
    <3>2. CASE i \notin 1..2
      <4>1. i - 2 \in 1..(Len(t) - 2) /\ i - 2 \in 1..Len(long)
        BY <1>0, <2>3, <3>2
      <4>2. t[2 + (i - 2)] = long[i - 2] /\ name[(i - 2) + 2] = long[i - 2]
        BY <1>1, <2>2, <2>3, <4>1
      <4> QED
        BY <1>0, <1>1, <4>1, <4>2
    <3> QED
      BY <3>1, <3>2
  <2>5. Len(t) <= Len(name)
    BY <1>0, <1>1, <2>3
  <2>6. IsPrefix(t, name)
    BY <1>1, <2>4, <2>5, Prefix
  <2>7. \A i \in 1..Len(t) : t[i] # "="
    BY <1>1, <2>4
  <2> QED
    BY <1>0, <2>6, <2>7, FirstEq
<1>8. ASSUME Eq(t) = 0, IsPrefix(t, name)
      PROVE  /\ IsPrefix(t, No) \/ (IsPrefix(No, t) /\ IsPrefix(From(t, 2), long))
             /\ ~IsPrefix(long, t)
  <2>1. Len(t) <= Len(name) /\ \A i \in 1..Len(t) : t[i] = name[i]
    BY <1>1, <1>8, Prefix
  <2>2. CASE Len(t) < 2
    <3>1. \A i \in 1..Len(t) : t[i] = No[i]
      BY <1>0, <1>1, <2>1, <2>2
    <3>2. IsPrefix(t, No)
      <4>1. Len(t) <= Len(No)
        BY <1>0, <1>1, <2>2
      <4> QED
        BY <1>1, <3>1, <4>1, Prefix
    <3>3. ~IsPrefix(long, t)
      BY <1>0, <2>2, Prefix
    <3> QED
      BY <3>2, <3>3
  <2>3. CASE Len(t) >= 2
    <3>1. 2 \in 0..Len(t) /\ t[1] = "n" /\ t[2] = "o-"
      BY <1>0, <1>1, <2>1, <2>3
    <3>2. /\ From(t, 2) \in Text /\ Len(From(t, 2)) = Len(t) - 2
          /\ \A i \in 1..(Len(t) - 2) : From(t, 2)[i] = t[2 + i]
      BY <3>1, Rest
    <3>3. IsPrefix(No, t)
      <4>1. \A i \in 1..2 : No[i] = t[i]
        BY <1>1, <3>1, 1..2 = {1, 2}
      <4> QED
        BY <1>1, <2>3, <4>1, Prefix
    <3>4. ASSUME NEW i \in 1..(Len(t) - 2) PROVE From(t, 2)[i] = long[i]
      <4>1. i + 2 \in 1..Len(t) /\ i \in 1..Len(long) /\ i + 2 = 2 + i
        BY <1>0, <1>1, <2>1
      <4> QED
        BY <1>1, <2>1, <3>2, <4>1
    <3>5. IsPrefix(From(t, 2), long)
      <4>1. Len(t) - 2 <= Len(long)
        BY <1>0, <1>1, <2>1
      <4> QED
        BY <1>0, <3>2, <3>4, <4>1, Prefix
    <3>6. ~IsPrefix(long, t)
      BY <1>0, <1>2, <1>3, <3>1, Prefix
    <3> QED
      BY <3>3, <3>5, <3>6
  <2> QED
    BY <1>0, <2>2, <2>3
<1>9. ASSUME IsPrefix(No, t), IsPrefix(long, From(t, 2)), IsPrefix(From(t, 2), long)
      PROVE  Stem(t) = name
  <2>1. Eq(t) = 0 /\ IsPrefix(t, name)
    BY <1>7, <1>9
  <2>2. 2 \in 0..Len(t)
    <3>1. Len(No) <= Len(t)
      BY <1>1, <1>9, Prefix
    <3> QED
      BY <1>0, <1>1, <3>1
  <2>3. From(t, 2) \in Text /\ Len(From(t, 2)) = Len(t) - 2
    BY <2>2, Rest
  <2>4. Len(long) <= Len(t) - 2
    BY <1>0, <1>9, <2>3, Prefix
  <2>5. Len(t) = Len(name) /\ \A i \in 1..Len(t) : t[i] = name[i]
    BY <1>0, <1>1, <2>1, <2>4, Prefix
  <2>6. t = name
    BY <1>1, <2>5, SameText
  <2> QED
    BY <2>1, <2>6 DEF Stem
<1> QED
    BY <1>1, <1>4, <1>5, <1>6, <1>7, <1>8, <1>9 DEF name

-----------------------------------------------------------------------------
(* The search for a long option. *)

\* One turn of the loop, without the order of the tests.
LEMMA ConsiderIs ==
    ASSUME table \in Table, NEW k \in Opt, NEW t \in Text, NEW found
    PROVE  LET long == table[k].long
               new == Consider(t, found, k)
           IN  /\ found.kind = "exact" => new = found
               /\ found.kind # "exact" =>
                    /\ Stem(t) = long => new = Found("exact", k, 0)
                    /\ Stem(t) = Negation(long) => new = Found("exact", k, OPT_UNSET)
                    /\ Stem(t) # long /\ Stem(t) # Negation(long) =>
                         /\ IsPrefix(Stem(t), long) => new = Abbreviates(found, k, 0)
                         /\ ~IsPrefix(Stem(t), long) =>
                              new = IF Eq(t) = 0 /\ IsPrefix(t, Negation(long))
                                    THEN Abbreviates(found, k, OPT_UNSET) ELSE found
<1> DEFINE long == table[k].long
           behind == From(t, Len(No))
           rest == From(t, Len(long))
           rest2 == From(behind, Len(long))
           name == Negation(long)
<1>1. IsName(long)
    BY TableIs DEF Opt, IsName
<1>2. IsPrefix(long, t) => (rest = <<>> \/ rest[1] = "=" <=> Stem(t) = long)
    BY <1>1, MatchIff DEF IsName
<1>3. Stem(t) = long => IsPrefix(long, t)
    BY <1>1, MatchIff DEF IsName
<1>4. /\ IsPrefix(No, t) /\ IsPrefix(long, behind) =>
           (rest2 = <<>> \/ rest2[1] = "=" <=> Stem(t) = name)
      /\ Stem(t) = name => IsPrefix(No, t) /\ IsPrefix(long, behind)
    BY <1>1, NegatedMatch
<1>5. /\ IsPrefix(long, t) /\ IsPrefix(Stem(t), long) => Stem(t) = long
      /\ Stem(t) = name => ~IsPrefix(long, t) /\ ~IsPrefix(Stem(t), long) /\ ~IsPrefix(t, No)
      /\ Eq(t) = 0 /\ IsPrefix(t, name) <=>
           \/ IsPrefix(t, No)
           \/ IsPrefix(No, t) /\ IsPrefix(behind, long)
      /\ Eq(t) = 0 /\ IsPrefix(t, name) => ~IsPrefix(long, t)
      /\ IsPrefix(No, t) /\ IsPrefix(long, behind) /\ IsPrefix(behind, long) => Stem(t) = name
  <2>1. IsPrefix(long, t) /\ IsPrefix(Stem(t), long) => Stem(t) = long
    BY <1>1, NameTests
  <2>2. Stem(t) = name => ~IsPrefix(long, t) /\ ~IsPrefix(Stem(t), long) /\ ~IsPrefix(t, No)
    BY <1>1, NameTests
  <2>3. Eq(t) = 0 /\ IsPrefix(t, name) <=>
           \/ IsPrefix(t, No)
           \/ IsPrefix(No, t) /\ IsPrefix(behind, long)
    BY <1>1, NameTests
  <2>4. Eq(t) = 0 /\ IsPrefix(t, name) => ~IsPrefix(long, t)
    BY <1>1, NameTests
  <2>5. IsPrefix(No, t) /\ IsPrefix(long, behind) /\ IsPrefix(behind, long) => Stem(t) = name
    BY <1>1, NameTests
  <2> QED
    BY <2>1, <2>2, <2>3, <2>4, <2>5
<1>6. Consider(t, found, k) =
        IF found.kind = "exact" THEN found
        ELSE IF IsPrefix(long, t) THEN Match(rest, found, k, 0)
        ELSE IF IsPrefix(Stem(t), long) THEN Abbreviates(found, k, 0)
        ELSE IF IsPrefix(t, No) THEN Abbreviates(found, k, OPT_UNSET)
        ELSE IF ~IsPrefix(No, t) THEN found
        ELSE IF IsPrefix(long, behind) THEN Match(rest2, found, k, OPT_UNSET)
        ELSE IF IsPrefix(behind, long) THEN Abbreviates(found, k, OPT_UNSET)
        ELSE found
    BY DEF Consider
<1>7. /\ Match(rest, found, k, 0) =
           IF rest = <<>> \/ rest[1] = "=" THEN Found("exact", k, 0) ELSE found
      /\ Match(rest2, found, k, OPT_UNSET) =
           IF rest2 = <<>> \/ rest2[1] = "=" THEN Found("exact", k, OPT_UNSET) ELSE found
    BY DEF Match
<1> HIDE DEF long, behind, rest, rest2, name
<1>8. CASE IsPrefix(long, t)
    BY <1>2, <1>5, <1>6, <1>7, <1>8 DEF long, name
<1>9. CASE ~IsPrefix(long, t)
    BY <1>3, <1>4, <1>5, <1>6, <1>7, <1>9 DEF long, name
<1> QED
    BY <1>8, <1>9

\* The pairs that Named and Abbreviated consist of.
LEMMA ReadingIs ==
    ASSUME NEW tab, NEW t
    PROVE  /\ \A r \in Named(tab, t) \cup Abbreviated(tab, t) :
                r = <<r[1], r[2]>> /\ r[1] \in DOMAIN tab /\ r[2] \in {0, OPT_UNSET}
           /\ \A k \in DOMAIN tab :
                /\ <<k, 0>> \in Named(tab, t) <=> Stem(t) = tab[k].long
                /\ <<k, OPT_UNSET>> \in Named(tab, t) <=> Stem(t) = Negation(tab[k].long)
                /\ <<k, 0>> \in Abbreviated(tab, t) <=> IsPrefix(Stem(t), tab[k].long)
                /\ <<k, OPT_UNSET>> \in Abbreviated(tab, t) <=>
                     /\ ~IsPrefix(Stem(t), tab[k].long)
                     /\ Eq(t) = 0 /\ IsPrefix(t, Negation(tab[k].long))
<1>1. \A r \in Named(tab, t) \cup Abbreviated(tab, t) :
        r = <<r[1], r[2]>> /\ r[1] \in DOMAIN tab /\ r[2] \in {0, OPT_UNSET}
    BY DEF Named, Abbreviated
<1>2. ASSUME NEW k \in DOMAIN tab, NEW f \in {0, OPT_UNSET}
      PROVE  /\ <<k, f>> \in Named(tab, t) <=> Stem(t) = LongName(tab[k], f)
             /\ <<k, f>> \in Abbreviated(tab, t) <=>
                  IF IsPrefix(Stem(t), tab[k].long) THEN f = 0
                  ELSE f = OPT_UNSET /\ Eq(t) = 0 /\ IsPrefix(t, LongName(tab[k], f))
  <2>1. <<k, f>> \in (DOMAIN tab) \X {0, OPT_UNSET} /\ <<k, f>>[1] = k /\ <<k, f>>[2] = f
    OBVIOUS
  <2> QED
    BY <2>1 DEF Named, Abbreviated
<1>3. 0 # OPT_UNSET
    BY DEF OPT_UNSET
<1> QED
    BY <1>1, <1>2, <1>3 DEF LongName

\* A text names at most one option, and abbreviates one in at most one way.
LEMMA OneReading ==
    ASSUME NEW tab \in Table, NEW t \in Text
    PROVE  /\ \A r, s \in Named(tab, t) : r = s
           /\ \A r, s \in Abbreviated(tab, t) : r[1] = s[1] => r = s
<1>1. \A k \in DOMAIN tab : IsName(tab[k].long)
    BY TableIs DEF IsName
<1>2. ASSUME NEW k \in DOMAIN tab, NEW l \in DOMAIN tab
      PROVE  /\ tab[k].long = tab[l].long => k = l
             /\ tab[k].long # Negation(tab[l].long)
             /\ Negation(tab[k].long) = Negation(tab[l].long) => k = l
  <2>1. tab[k].long = tab[l].long => k = l
    BY TableIs
  <2>2. ASSUME NEW long, IsName(long)
        PROVE  /\ No \in Text /\ Len(No) = 2 /\ No[1] = "n" /\ No[2] = "o-"
               /\ Negation(long) \in Text /\ Len(Negation(long)) = Len(long) + 2
               /\ (Negation(long))[1] = "n" /\ (Negation(long))[2] = "o-"
               /\ \A i \in 1..Len(long) : (Negation(long))[i + 2] = long[i]
    BY <2>2, Negated DEF IsName, Negation
  <2>3. tab[k].long # Negation(tab[l].long)
    <3>1. SUFFICES ASSUME tab[k].long = Negation(tab[l].long) PROVE FALSE
      OBVIOUS
    <3>2. tab[k].long \in Text /\ Len(tab[k].long) > 1 /\ ~IsPrefix(No, tab[k].long)
      BY <1>1 DEF IsName
    <3>3. No \in Text /\ Len(No) = 2 /\ \A i \in 1..2 : No[i] = tab[k].long[i]
      BY <1>1, <2>2, <3>1, 1..2 = {1, 2}
    <3>4. Len(No) <= Len(tab[k].long)
      BY <1>1, <3>3 DEF IsName
    <3> QED
      BY <3>2, <3>3, <3>4, Prefix
  <2>4. Negation(tab[k].long) = Negation(tab[l].long) => k = l
    <3>1. SUFFICES ASSUME Negation(tab[k].long) = Negation(tab[l].long) PROVE tab[k].long = tab[l].long
      BY <2>1
    <3>2. IsName(tab[k].long) /\ IsName(tab[l].long)
      BY <1>1
    <3>3. Len(tab[k].long) = Len(tab[l].long)
      BY <2>2, <3>1, <3>2 DEF IsName
    <3>4. \A i \in 1..Len(tab[k].long) : tab[k].long[i] = tab[l].long[i]
      BY <2>2, <3>1, <3>2, <3>3
    <3> QED
      BY <3>2, <3>3, <3>4, SameText DEF IsName
  <2> QED
    BY <2>1, <2>3, <2>4
<1>3. ASSUME NEW r \in Named(tab, t), NEW s \in Named(tab, t) PROVE r = s
  <2>1. PICK k \in DOMAIN tab, f \in {0, OPT_UNSET} : r = <<k, f>>
    BY ReadingIs
  <2>2. PICK l \in DOMAIN tab, g \in {0, OPT_UNSET} : s = <<l, g>>
    BY ReadingIs
  <2>3. /\ f = 0 => Stem(t) = tab[k].long
        /\ f = OPT_UNSET => Stem(t) = Negation(tab[k].long)
    <3>1. CASE f = 0
      BY <2>1, <3>1, ReadingIs DEF OPT_UNSET
    <3>2. CASE f = OPT_UNSET
      <4>1. <<k, OPT_UNSET>> \in Named(tab, t)
        BY <2>1, <3>2
      <4>2. Stem(t) = Negation(tab[k].long)
        BY <4>1 DEF Named, LongName
      <4>3. f # 0
        BY <3>2 DEF OPT_UNSET
      <4> QED
        BY <4>2, <4>3
    <3> QED
      BY <3>1, <3>2 DEF OPT_UNSET
  <2>4. /\ g = 0 => Stem(t) = tab[l].long
        /\ g = OPT_UNSET => Stem(t) = Negation(tab[l].long)
    <3>1. CASE g = 0
      BY <2>2, <3>1, ReadingIs DEF OPT_UNSET
    <3>2. CASE g = OPT_UNSET
      <4>1. <<l, OPT_UNSET>> \in Named(tab, t)
        BY <2>2, <3>2
      <4>2. Stem(t) = Negation(tab[l].long)
        BY <4>1 DEF Named, LongName
      <4>3. g # 0
        BY <3>2 DEF OPT_UNSET
      <4> QED
        BY <4>2, <4>3
    <3> QED
      BY <3>1, <3>2 DEF OPT_UNSET
  <2>5. k = l /\ f = g
    BY <1>2, <2>3, <2>4
  <2> QED
    BY <2>1, <2>2, <2>5
<1>4. ASSUME NEW r \in Abbreviated(tab, t), NEW s \in Abbreviated(tab, t), r[1] = s[1]
      PROVE  r = s
    BY <1>4, ReadingIs
<1> QED
    BY <1>3, <1>4

\* What the loop may have found.
FoundSet(M) == [kind : {"unknown", "abbreviation", "ambiguous", "exact"},
                opt : 0..M, flags : {0, OPT_UNSET}]

\* What Found() makes is one of them.
LEMMA FoundType ==
    ASSUME NEW M \in Nat, NEW kind \in {"unknown", "abbreviation", "ambiguous", "exact"},
           NEW k \in 0..M, NEW flags \in {0, OPT_UNSET}
    PROVE  /\ Found(kind, k, flags) \in FoundSet(M)
           /\ Found(kind, k, flags).kind = kind
           /\ Found(kind, k, flags).opt = k
           /\ Found(kind, k, flags).flags = flags
BY DEF Found, FoundSet

\* One turn of the loop stays within them.
LEMMA ConsiderType ==
    ASSUME table \in Table, NEW k \in Opt, NEW t \in Text, NEW found \in FoundSet(Len(table))
    PROVE  Consider(t, found, k) \in FoundSet(Len(table))
<1> DEFINE FS == FoundSet(Len(table))
<1>1. Len(table) \in Nat /\ k \in 0..Len(table)
    BY TableIs DEF Opt
<1>2. \A kind \in {"unknown", "abbreviation", "ambiguous", "exact"}, f \in {0, OPT_UNSET} :
        Found(kind, k, f) \in FS
    BY <1>1, FoundType
<1>3. \A f \in {0, OPT_UNSET} : Abbreviates(found, k, f) \in FS
    BY <1>2 DEF Abbreviates
<1> HIDE DEF FS
<1>4. Consider(t, found, k) \in FS
  <2> DEFINE c == Consider(t, found, k)
  <2>1. c \in {found, Found("exact", k, 0), Found("exact", k, OPT_UNSET),
               Abbreviates(found, k, 0), Abbreviates(found, k, OPT_UNSET)}
    BY ConsiderIs
  <2> QED
    BY <1>2, <1>3, <2>1 DEF FS
<1> QED
    BY <1>4 DEF FS

\* The loop of parse_long_opt() is well defined.
LEMMA ScanIs ==
    ASSUME table \in Table, NEW t \in Text
    PROVE  /\ Scan(t) \in [0..Len(table) -> FoundSet(Len(table))]
           /\ Scan(t)[0] = NoMatch
           /\ \A k \in 1..Len(table) : Scan(t)[k] = Consider(t, Scan(t)[k - 1], k)
<1> DEFINE M == Len(table)
           S == FoundSet(M)
           g == [k \in 1..M |-> [x \in S |-> Consider(t, x, k)]]
<1>1. M \in Nat /\ Opt = 1..M
    BY TableIs DEF Opt
<1>2. NoMatch \in S
    BY <1>1, FoundType DEF NoMatch
<1>3. \A k \in 1..M, x \in S : Consider(t, x, k) \in S
    BY <1>1, ConsiderType
<1> HIDE DEF M, S
<1>4. g \in [1..M -> [S -> S]]
    BY <1>3
<1>5. PICK f \in [0..M -> S] : f[0] = NoMatch /\ \A n \in 1..M : f[n] = g[n][f[n - 1]]
  <2> HIDE DEF g
  <2>1. \E f : Solves(f, S, NoMatch, M, g)
    BY <1>1, <1>2, <1>4, Recursion
  <2> QED
    BY <2>1 DEF Solves
<1>6. ASSUME NEW n \in 1..M PROVE f[n] = Consider(t, f[n - 1], n)
  <2>1. f[n - 1] \in S
    BY <1>1
  <2> QED
    BY <1>5, <2>1
<1>7. f = [n \in 0..M |-> IF n = 0 THEN NoMatch ELSE Consider(t, f[n - 1], n)]
  <2>1. \A n \in 0..M : f[n] = IF n = 0 THEN NoMatch ELSE Consider(t, f[n - 1], n)
    BY <1>1, <1>5, <1>6
  <2> QED
    BY <2>1
<1>8. Scan(t) = [n \in 0..M |-> IF n = 0 THEN NoMatch ELSE Consider(t, Scan(t)[n - 1], n)]
  <2>1. Scan(t) = CHOOSE u : u = [n \in 0..M |-> IF n = 0 THEN NoMatch ELSE Consider(t, u[n - 1], n)]
    BY DEF Scan, M
  <2> QED
    BY <1>7, <2>1
<1>9. /\ Scan(t)[0] = NoMatch
      /\ \A k \in 1..M : Scan(t)[k] = Consider(t, Scan(t)[k - 1], k)
    BY <1>1, <1>8
<1>10. \A n \in 0..M : Scan(t)[n] \in S
  <2> DEFINE Bad == {n \in 0..M : Scan(t)[n] \notin S}
  <2> SUFFICES ASSUME Bad # {} PROVE FALSE
    OBVIOUS
  <2>1. PICK n \in Bad : \A j \in Bad : n <= j
    <3>1. Bad \in SUBSET Nat
      BY <1>1
    <3> HIDE DEF Bad
    <3> QED
      BY <3>1, LeastNumber
  <2>2. n # 0
    BY <1>2, <1>9
  <2>3. n \in 1..M /\ n - 1 \in 0..M /\ n - 1 \notin Bad
    BY <1>1, <2>1, <2>2
  <2>4. Scan(t)[n - 1] \in S
    BY <2>3
  <2> QED
    BY <1>3, <1>9, <2>3, <2>4
<1> QED
    BY <1>8, <1>9, <1>10 DEF M, S

\* What is found after n options.
FoundIn(tab, t, found, n) ==
    /\ found.kind = "exact" => <<found.opt, found.flags>> \in Named(tab, t)
    /\ found.kind # "exact" => \A r \in Named(tab, t) : r[1] > n
    /\ found.kind = "unknown" => \A r \in Abbreviated(tab, t) : r[1] > n
    /\ found.kind = "abbreviation" =>
         /\ <<found.opt, found.flags>> \in Abbreviated(tab, t) /\ found.opt <= n
         /\ \A r \in Abbreviated(tab, t) : r[1] <= n => r = <<found.opt, found.flags>>
    /\ found.kind = "ambiguous" => \E r, s \in Abbreviated(tab, t) : r # s

\* One turn of the loop, as the meaning of the text sees it.
LEMMA FoundNext ==
    ASSUME table \in Table, NEW k \in Opt, NEW t \in Text, NEW found \in FoundSet(Len(table)),
           FoundIn(table, t, found, k - 1)
    PROVE  FoundIn(table, t, Consider(t, found, k), k)
<1> DEFINE A == Abbreviated(table, t)
           B == Named(table, t)
<1>1. Len(table) \in Nat /\ k \in 1..Len(table) /\ Opt = 1..Len(table)
    BY TableIs DEF Opt
<1>2. /\ \A r \in B \cup A : r = <<r[1], r[2]>> /\ r[1] \in 1..Len(table)
                             /\ r[2] \in {0, OPT_UNSET}
      /\ <<k, 0>> \in B <=> Stem(t) = table[k].long
      /\ <<k, OPT_UNSET>> \in B <=> Stem(t) = Negation(table[k].long)
      /\ <<k, 0>> \in A <=> IsPrefix(Stem(t), table[k].long)
      /\ <<k, OPT_UNSET>> \in A <=> /\ ~IsPrefix(Stem(t), table[k].long)
                                    /\ Eq(t) = 0 /\ IsPrefix(t, Negation(table[k].long))
    BY <1>1, ReadingIs DEF Opt
<1>3. /\ \A r, s \in B : r = s
      /\ \A r, s \in A : r[1] = s[1] => r = s
    BY OneReading
<1> HIDE DEF A, B
<1>4. CASE found.kind = "exact"
  <2>1. Consider(t, found, k) = found
    BY <1>4, ConsiderIs
  <2> QED
    BY <1>4, <2>1 DEF FoundIn
<1>5. ASSUME found.kind # "exact", NEW f \in {0, OPT_UNSET}, <<k, f>> \in B
      PROVE  FoundIn(table, t, Consider(t, found, k), k)
  <2>1. Consider(t, found, k) = Found("exact", k, f)
    BY <1>2, <1>5, ConsiderIs
  <2>2. Found("exact", k, f).kind = "exact" /\ Found("exact", k, f).opt = k
        /\ Found("exact", k, f).flags = f
    BY DEF Found
  <2> QED
    BY <1>5, <2>1, <2>2 DEF FoundIn, B
<1>6. ASSUME found.kind # "exact", <<k, 0>> \notin B, <<k, OPT_UNSET>> \notin B
      PROVE  FoundIn(table, t, Consider(t, found, k), k)
  <2>1. \A r \in B : r[1] > k
    <3>1. \A r \in B : r[1] > k - 1 /\ r[1] # k
      BY <1>2, <1>6 DEF FoundIn, B
    <3> QED
      BY <1>1, <1>2, <3>1
  <2>2. ASSUME NEW f \in {0, OPT_UNSET}, <<k, f>> \in A
        PROVE  FoundIn(table, t, Consider(t, found, k), k)
    <3> DEFINE new == Consider(t, found, k)
    <3>1. new = Abbreviates(found, k, f)
      BY <1>2, <1>6, <2>2, ConsiderIs
    <3>2. /\ new.kind = IF found.kind = "unknown" THEN "abbreviation" ELSE "ambiguous"
          /\ new.opt = k /\ new.flags = f
      BY <3>1 DEF Abbreviates, Found
    <3> HIDE DEF new
    <3>3. CASE found.kind = "unknown"
      <4>1. \A r \in A : r[1] <= k => r = <<k, f>>
        <5>1. \A r \in A : r[1] > k - 1
          BY <3>3 DEF FoundIn, A
        <5>2. \A r \in A : r[1] <= k => r[1] = k
          BY <1>1, <1>2, <5>1
        <5> QED
          BY <1>3, <2>2, <5>2
      <4> QED
        BY <1>1, <2>1, <2>2, <3>2, <3>3, <4>1 DEF FoundIn, A, B, new
    <3>4. CASE found.kind = "abbreviation"
      <4>1. <<found.opt, found.flags>> \in A /\ found.opt <= k - 1
        BY <3>4 DEF FoundIn, A
      <4>2. found.opt # k
        BY <1>1, <1>2, <4>1
      <4>3. \E r, s \in A : r # s
        BY <2>2, <4>1, <4>2
      <4> QED
        BY <2>1, <3>2, <3>4, <4>3 DEF FoundIn, A, B, new
    <3>5. CASE found.kind = "ambiguous"
      BY <2>1, <3>2, <3>5 DEF FoundIn, B, new
    <3>6. found.kind \in {"unknown", "abbreviation", "ambiguous", "exact"}
      BY DEF FoundSet
    <3> QED
      BY <1>6, <3>3, <3>4, <3>5, <3>6
  <2>3. ASSUME <<k, 0>> \notin A, <<k, OPT_UNSET>> \notin A
        PROVE  FoundIn(table, t, Consider(t, found, k), k)
    <3>1. Consider(t, found, k) = found
      BY <1>2, <1>6, <2>3, ConsiderIs
    <3>2. \A r \in A : r[1] # k
      BY <1>2, <2>3
    <3>3. \A r \in A : (r[1] > k - 1 => r[1] > k) /\ (r[1] <= k => r[1] <= k - 1)
      BY <1>1, <1>2, <3>2
    <3>4. found.kind = "abbreviation" => found.opt <= k
      <4>1. found.opt \in 0..Len(table)
        BY DEF FoundSet
      <4> QED
        BY <1>1, <4>1 DEF FoundIn
    <3> QED
      BY <1>6, <2>1, <3>1, <3>3, <3>4 DEF FoundIn, A, B
  <2> QED
    BY <2>2, <2>3
<1> QED
    BY <1>4, <1>5, <1>6

\* What parse_long_opt() finds: the only reading of the text, if there is one.
LEMMA ScanFinds ==
    ASSUME table \in Table, NEW t \in Text
    PROVE  LET found == ScanLong(t)
               all == Readings(table, t)
           IN  /\ found \in FoundSet(Len(table))
               /\ found.kind = "unknown" => all = {}
               /\ found.kind = "ambiguous" => ~ \E r \in all : all = {r}
               /\ found.kind \in {"abbreviation", "exact"} =>
                    found.opt \in Opt /\ all = {<<found.opt, found.flags>>}
<1> DEFINE M == Len(table)
           A == Abbreviated(table, t)
           B == Named(table, t)
<1>1. M \in Nat /\ Opt = 1..M
    BY TableIs DEF Opt
<1>2. \A r \in B \cup A : r = <<r[1], r[2]>> /\ r[1] \in 1..M
    BY <1>1, ReadingIs DEF Opt
<1>3. \A r, s \in B : r = s
    BY OneReading
<1>4. FoundIn(table, t, Scan(t)[M], M)
  <2> DEFINE Bad == {n \in 0..M : ~FoundIn(table, t, Scan(t)[n], n)}
  <2> SUFFICES ASSUME Bad # {} PROVE FALSE
    BY <1>1
  <2>1. PICK n \in Bad : \A j \in Bad : n <= j
    <3>1. Bad \in SUBSET Nat
      BY <1>1
    <3> HIDE DEF Bad
    <3> QED
      BY <3>1, LeastNumber
  <2>2. n # 0
    <3>1. FoundIn(table, t, NoMatch, 0)
      <4>1. NoMatch.kind = "unknown"
        BY DEF NoMatch, Found
      <4>2. \A r \in A \cup B : r[1] > 0
        BY <1>1, <1>2
      <4> QED
        BY <4>1, <4>2 DEF FoundIn
    <3> QED
      BY <3>1, ScanIs
  <2>3. n \in 1..M /\ n - 1 \in 0..M /\ n - 1 \notin Bad
    BY <1>1, <2>1, <2>2
  <2>4. FoundIn(table, t, Scan(t)[n - 1], n - 1) /\ Scan(t)[n - 1] \in FoundSet(M)
    BY <2>3, ScanIs
  <2>5. Scan(t)[n] = Consider(t, Scan(t)[n - 1], n)
    BY <2>3, ScanIs
  <2>6. FoundIn(table, t, Scan(t)[n], n)
    BY <1>1, <2>3, <2>4, <2>5, FoundNext
  <2> QED
    BY <2>6
<1> DEFINE found == ScanLong(t)
<1>5. found \in FoundSet(M) /\ FoundIn(table, t, found, M)
    BY <1>1, <1>4, ScanIs DEF ScanLong
<1> HIDE DEF found, A, B
<1>6. found.kind \in {"unknown", "abbreviation", "ambiguous", "exact"}
    BY <1>5 DEF FoundSet
<1>7. \A r \in A \cup B : ~(r[1] > M) /\ r[1] <= M
    BY <1>1, <1>2
<1>8. Readings(table, t) = IF B # {} THEN B ELSE A
    BY DEF Readings, A, B
<1>9. CASE found.kind = "exact"
  <2>1. <<found.opt, found.flags>> \in B
    BY <1>5, <1>9 DEF FoundIn, B
  <2>2. B = {<<found.opt, found.flags>>}
    BY <1>3, <2>1
  <2> QED
    BY <1>1, <1>2, <1>5, <1>8, <1>9, <2>1, <2>2 DEF found, M
<1>10. CASE found.kind # "exact"
  <2>1. B = {}
    BY <1>5, <1>7, <1>10 DEF FoundIn, B
  <2>2. CASE found.kind = "unknown"
    <3>1. A = {}
      BY <1>5, <1>7, <2>2 DEF FoundIn, A
    <3> QED
      BY <1>5, <1>8, <2>1, <2>2, <3>1 DEF found, M
  <2>3. CASE found.kind = "ambiguous"
    <3>1. \E r, s \in A : r # s
      BY <1>5, <2>3 DEF FoundIn, A
    <3> QED
      BY <1>5, <1>8, <2>1, <2>3, <3>1 DEF found, M
  <2>4. CASE found.kind = "abbreviation"
    <3>1. <<found.opt, found.flags>> \in A /\ \A r \in A : r = <<found.opt, found.flags>>
      BY <1>5, <1>7, <2>4 DEF FoundIn, A
    <3>2. A = {<<found.opt, found.flags>>} /\ found.opt \in 1..M
      BY <1>2, <3>1
    <3> QED
      BY <1>1, <1>5, <1>8, <2>1, <2>4, <3>2 DEF found, M
  <2> QED
    BY <1>6, <1>10, <2>2, <2>3, <2>4
<1> QED
    BY <1>9, <1>10

-----------------------------------------------------------------------------
(* The meaning of a command line. *)

\* The arguments of a command line.
LEMMA LineIs ==
    ASSUME NEW ln \in CommandLine
    PROVE  /\ ln \in Seq(Argument) /\ Len(ln) \in Nat /\ DOMAIN ln = 1..Len(ln)
           /\ \A n \in 1..Len(ln) :
                /\ ln[n] \in Argument /\ ln[n].dash \in 0..2 /\ ln[n].text \in Text
                /\ ln[n].dash = 1 => ln[n].text # <<>>
<1>1. ln \in Seq(Argument) /\ Len(ln) \in Nat /\ DOMAIN ln = 1..Len(ln)
    BY OptionAssumption
<1>2. \A n \in 1..Len(ln) : ln[n] \in Argument
    BY <1>1
<1> QED
    BY <1>1, <1>2, OptionAssumption DEF Argument

RoleName == {"command", "operand", "option", "value", "end", "rest"}

\* The recursion of Roles is well defined.
LEMMA RolesAre ==
    ASSUME NEW tab, NEW ln \in CommandLine
    PROVE  /\ Roles(tab, ln)[0] = "command"
           /\ \A n \in 0..Len(ln) : Roles(tab, ln)[n] \in RoleName
           /\ \A n \in 1..Len(ln) :
                Roles(tab, ln)[n] = RoleAfter(tab, ln, n, Roles(tab, ln)[n - 1])
<1> DEFINE M == Len(ln)
           S == RoleName
           g == [n \in 1..M |-> [x \in S |-> RoleAfter(tab, ln, n, x)]]
<1>1. M \in Nat
    BY LineIs
<1>2. "command" \in S
    BY DEF RoleName
<1>3. \A n, x : RoleAfter(tab, ln, n, x) \in S
    BY DEF RoleAfter, RoleName
<1> HIDE DEF M, S
<1>4. g \in [1..M -> [S -> S]]
    BY <1>3
<1>5. PICK f \in [0..M -> S] : f[0] = "command" /\ \A n \in 1..M : f[n] = g[n][f[n - 1]]
  <2> HIDE DEF g
  <2>1. \E f : Solves(f, S, "command", M, g)
    BY <1>1, <1>2, <1>4, Recursion
  <2> QED
    BY <2>1 DEF Solves
<1>6. ASSUME NEW n \in 1..M PROVE f[n] = RoleAfter(tab, ln, n, f[n - 1])
  <2>1. f[n - 1] \in S
    BY <1>1
  <2> QED
    BY <1>5, <2>1
<1>7. f = [n \in 0..M |-> IF n = 0 THEN "command" ELSE RoleAfter(tab, ln, n, f[n - 1])]
  <2>1. \A n \in 0..M : f[n] = IF n = 0 THEN "command" ELSE RoleAfter(tab, ln, n, f[n - 1])
    BY <1>1, <1>5, <1>6
  <2> QED
    BY <2>1
<1> DEFINE R == Roles(tab, ln)
<1>8. R = [n \in 0..M |-> IF n = 0 THEN "command" ELSE RoleAfter(tab, ln, n, R[n - 1])]
  <2>1. R = CHOOSE u :
              u = [n \in 0..M |-> IF n = 0 THEN "command" ELSE RoleAfter(tab, ln, n, u[n - 1])]
    BY DEF Roles, M
  <2> QED
    BY <1>7, <2>1
<1> HIDE DEF R
<1>9. R[0] = "command" /\ \A n \in 1..M : R[n] = RoleAfter(tab, ln, n, R[n - 1])
    BY <1>1, <1>8
<1>10. \A n \in 0..M : R[n] \in S
    BY <1>1, <1>2, <1>3, <1>9
<1> QED
    BY <1>9, <1>10 DEF M, S, R

\* What an argument is that is not the value of an option.
LEMMA RoleHere ==
    ASSUME NEW tab, NEW ln \in CommandLine, NEW n \in 1..Len(ln),
           n = 1 \/ Roles(tab, ln)[n - 1] \notin {"end", "rest"},
           Roles(tab, ln)[n] # "value"
    PROVE  Roles(tab, ln)[n] = IF ln[n].dash = 0 THEN "operand"
                               ELSE IF ln[n].dash = 2 /\ ln[n].text = <<>> THEN "end"
                               ELSE "option"
<1>1. Roles(tab, ln)[n - 1] \notin {"end", "rest"}
    BY RolesAre
<1>2. Roles(tab, ln)[n] = RoleAfter(tab, ln, n, Roles(tab, ln)[n - 1])
    BY RolesAre
<1> QED
    BY <1>1, <1>2 DEF RoleAfter

\* What follows an argument within the options.
LEMMA RoleNext ==
    ASSUME NEW tab, NEW ln \in CommandLine, NEW n \in 1..Len(ln), n < Len(ln),
           Roles(tab, ln)[n] \notin {"end", "rest"}
    PROVE  /\ Roles(tab, ln)[n + 1] # "rest"
           /\ Roles(tab, ln)[n + 1] = "value" <=>
                Roles(tab, ln)[n] = "option" /\ TakesNext(tab, ln[n])
<1>1. n + 1 \in 1..Len(ln) /\ (n + 1) - 1 = n
    BY LineIs
<1>2. Roles(tab, ln)[n + 1] = RoleAfter(tab, ln, n + 1, Roles(tab, ln)[n])
    BY <1>1, RolesAre
<1>3. RoleAfter(tab, ln, n + 1, Roles(tab, ln)[n]) =
        IF Roles(tab, ln)[n] = "option" /\ TakesNext(tab, ln[n]) THEN "value"
        ELSE IF ln[n + 1].dash = 0 THEN "operand"
        ELSE IF ln[n + 1].dash = 2 /\ ln[n + 1].text = <<>> THEN "end" ELSE "option"
    BY <1>1 DEF RoleAfter
<1> QED
    BY <1>2, <1>3

\* Everything behind "--" is an operand.
LEMMA RestRoles ==
    ASSUME NEW tab, NEW ln \in CommandLine, NEW e \in 1..Len(ln), Roles(tab, ln)[e] = "end"
    PROVE  \A n \in (e + 1)..Len(ln) : Roles(tab, ln)[n] = "rest"
<1> DEFINE Bad == {n \in (e + 1)..Len(ln) : Roles(tab, ln)[n] # "rest"}
<1> SUFFICES ASSUME Bad # {} PROVE FALSE
    OBVIOUS
<1>0. Len(ln) \in Nat
    BY LineIs
<1>1. PICK n \in Bad : \A j \in Bad : n <= j
  <2>1. Bad \in SUBSET Nat
    BY <1>0
  <2> HIDE DEF Bad
  <2> QED
    BY <2>1, LeastNumber
<1>2. n - 1 = e \/ (n - 1 \in (e + 1)..Len(ln) /\ n - 1 \notin Bad)
    BY <1>0, <1>1
<1>3. Roles(tab, ln)[n - 1] \in {"end", "rest"}
    BY <1>2
<1>4. n \in 1..Len(ln)
    BY <1>0
<1>5. Roles(tab, ln)[n] = RoleAfter(tab, ln, n, Roles(tab, ln)[n - 1])
    BY <1>4, RolesAre
<1> QED
    BY <1>3, <1>5 DEF RoleAfter

\* The number of operands.
LEMMA CountIs ==
    ASSUME NEW tab, NEW ln, NEW n \in Nat
    PROVE  /\ IsFiniteSet(Operands(tab, ln, n))
           /\ Cardinality(Operands(tab, ln, n)) \in 0..n
<1>1. IsFiniteSet(1..n) /\ Cardinality(1..n) = n
    BY FS_Interval
<1>2. Operands(tab, ln, n) \in SUBSET (1..n)
    BY DEF Operands
<1>3. IsFiniteSet(Operands(tab, ln, n)) /\ Cardinality(Operands(tab, ln, n)) <= n
    BY <1>1, <1>2, FS_Subset
<1> QED
    BY <1>3, FS_CardinalityType

\* The number of operands with one argument more.
LEMMA CountNext ==
    ASSUME NEW tab, NEW ln, NEW n \in Nat \ {0}
    PROVE  Cardinality(Operands(tab, ln, n)) =
             IF Roles(tab, ln)[n] \in {"operand", "rest"}
             THEN Cardinality(Operands(tab, ln, n - 1)) + 1
             ELSE Cardinality(Operands(tab, ln, n - 1))
<1>1. n - 1 \in Nat /\ 1..n = (1..(n - 1)) \cup {n} /\ n \notin 1..(n - 1)
    OBVIOUS
<1>2. IsFiniteSet(Operands(tab, ln, n - 1)) /\ n \notin Operands(tab, ln, n - 1)
    BY <1>1, CountIs DEF Operands
<1>3. CASE Roles(tab, ln)[n] \in {"operand", "rest"}
  <2>1. Operands(tab, ln, n) = Operands(tab, ln, n - 1) \cup {n}
    BY <1>1, <1>3 DEF Operands
  <2> QED
    BY <1>2, <1>3, <2>1, FS_AddElement
<1>4. CASE Roles(tab, ln)[n] \notin {"operand", "rest"}
  <2>1. Operands(tab, ln, n) = Operands(tab, ln, n - 1)
    BY <1>1, <1>4 DEF Operands
  <2> QED
    BY <1>4, <2>1
<1> QED
    BY <1>3, <1>4

\* An operand has fewer before it than there are before a later argument.
LEMMA CountBefore ==
    ASSUME NEW tab, NEW ln, NEW n \in Nat, NEW m \in Operands(tab, ln, n)
    PROVE  /\ Cardinality(Operands(tab, ln, m - 1)) \in Nat
           /\ Cardinality(Operands(tab, ln, m - 1)) < Cardinality(Operands(tab, ln, n))
<1>1. m \in 1..n /\ m - 1 \in Nat /\ m \in Nat \ {0}
    BY DEF Operands
<1>2. Cardinality(Operands(tab, ln, m)) = Cardinality(Operands(tab, ln, m - 1)) + 1
    BY <1>1, CountNext DEF Operands
<1>3. Operands(tab, ln, m) \in SUBSET Operands(tab, ln, n)
    BY <1>1 DEF Operands
<1>4. Cardinality(Operands(tab, ln, m)) <= Cardinality(Operands(tab, ln, n))
    BY <1>3, CountIs, FS_Subset
<1>5. /\ Cardinality(Operands(tab, ln, m - 1)) \in Nat
      /\ Cardinality(Operands(tab, ln, n)) \in Nat
    BY <1>1, CountIs
<1> QED
    BY <1>2, <1>4, <1>5

\* Where only operands follow, counting is subtraction.
LEMMA CountRest ==
    ASSUME NEW tab, NEW ln, NEW from \in Nat \ {0}, NEW n \in Nat, from - 1 <= n,
           \A m \in from..n : Roles(tab, ln)[m] \in {"operand", "rest"}
    PROVE  Cardinality(Operands(tab, ln, n)) =
             Cardinality(Operands(tab, ln, from - 1)) + (n - (from - 1))
<1>1. from - 1 \in Nat /\ 1..n = (1..(from - 1)) \cup (from..n)
    OBVIOUS
<1>2. Operands(tab, ln, n) = Operands(tab, ln, from - 1) \cup (from..n)
    BY <1>1 DEF Operands
<1>3. Operands(tab, ln, from - 1) \cap (from..n) = {}
    BY DEF Operands
<1>4. IsFiniteSet(from..n) /\ Cardinality(from..n) = n - (from - 1)
  <2>1. IsFiniteSet(from..n) /\ Cardinality(from..n) = IF from > n THEN 0 ELSE n - from + 1
    BY FS_Interval
  <2> QED
    BY <2>1
<1>5. /\ IsFiniteSet(Operands(tab, ln, from - 1))
      /\ Cardinality(Operands(tab, ln, from - 1)) \in Nat
    BY <1>1, CountIs
<1>6. Cardinality(Operands(tab, ln, n)) =
        Cardinality(Operands(tab, ln, from - 1)) + Cardinality(from..n)
        - Cardinality(Operands(tab, ln, from - 1) \cap (from..n))
    BY <1>2, <1>4, <1>5, FS_Union
<1>7. Cardinality(Operands(tab, ln, from - 1) \cap (from..n)) = 0
    BY <1>3, FS_EmptySet
<1>8. ASSUME NEW a \in Nat, NEW b, b = a + (n - (from - 1)) - 0
      PROVE  b = a + (n - (from - 1))
    BY <1>8
<1> QED
    BY <1>4, <1>5, <1>6, <1>7, <1>8

\* What another argument changes in what is asked for.
LEMMA AskedNext ==
    ASSUME NEW tab, NEW ln \in CommandLine, NEW n \in 1..Len(ln), NEW k
    PROVE  /\ Roles(tab, ln)[n] # "option" => Asked(tab, ln, n, k) = Asked(tab, ln, n - 1, k)
           /\ (\A x \in Mentions(tab, ln[n]) : x.opt # k) =>
                Asked(tab, ln, n, k) = Asked(tab, ln, n - 1, k)
           /\ \A m \in Mentions(tab, ln[n]) :
                /\ Roles(tab, ln)[n] = "option" /\ m.opt = k
                /\ \A x \in Mentions(tab, ln[n]) : x.opt = k => x = m
                => Asked(tab, ln, n, k) = Meant(tab, ln, n, m)
<1>0. n \in Nat /\ 1..n = (1..(n - 1)) \cup {n} /\ n \notin 1..(n - 1)
    BY LineIs
<1> DEFINE new == MentionedAt(tab, ln, n, k)
           old == MentionedAt(tab, ln, n - 1, k)
           V(at) == IF at = {} THEN Untouched
                    ELSE Meant(tab, ln, CHOOSE x \in at : \A y \in at : y <= x,
                               CHOOSE x \in Mentions(tab, ln[CHOOSE z \in at : \A y \in at : y <= z]) :
                                    x.opt = k)
<1>1. Asked(tab, ln, n, k) = V(new) /\ Asked(tab, ln, n - 1, k) = V(old)
    BY DEF Asked
<1>2. Roles(tab, ln)[n] # "option" \/ (\A x \in Mentions(tab, ln[n]) : x.opt # k) => new = old
    BY <1>0 DEF MentionedAt, Options
<1>3. ASSUME NEW m \in Mentions(tab, ln[n]), Roles(tab, ln)[n] = "option", m.opt = k,
             \A x \in Mentions(tab, ln[n]) : x.opt = k => x = m
      PROVE  V(new) = Meant(tab, ln, n, m)
  <2>1. n \in new /\ \A y \in new : y \in 1..n
    BY <1>0, <1>3 DEF MentionedAt, Options
  <2>2. (CHOOSE x \in new : \A y \in new : y <= x) = n
    <3> HIDE DEF new
    <3>1. \A y \in new : y <= n
      BY <1>0, <2>1
    <3>2. \A x \in new : (\A y \in new : y <= x) => x = n
      BY <1>0, <2>1
    <3> QED
      BY <2>1, <3>1, <3>2
  <2>3. (CHOOSE x \in Mentions(tab, ln[n]) : x.opt = k) = m
    BY <1>3
  <2>4. new # {}
    BY <2>1
  <2> QED
    BY <2>2, <2>3, <2>4
<1> HIDE DEF V, new, old
<1>4. new = old => V(new) = V(old)
    OBVIOUS
<1> QED
    BY <1>1, <1>2, <1>3, <1>4

-----------------------------------------------------------------------------
(* The steps of the scan. *)

\* The argument the scan looks at is still as typed.
LEMMA ArgumentHere ==
    ASSUME ParseInv, mode \in {"arg", "short"}
    PROVE  /\ table \in Table /\ line \in CommandLine /\ N \in Nat /\ N = Len(line)
           /\ pos \in 1..(N + 1) /\ cpidx \in 0..N
           /\ pos <= N =>
                /\ pos \in 1..N
                /\ argv[pos] = line[pos] /\ (pos < N => argv[pos + 1] = line[pos + 1])
                /\ line[pos].dash \in 0..2 /\ line[pos].text \in Text
                /\ line[pos].dash = 1 => line[pos].text # <<>>
                /\ Roles(table, line)[pos] =
                     IF line[pos].dash = 0 THEN "operand"
                     ELSE IF line[pos].dash = 2 /\ line[pos].text = <<>> THEN "end"
                     ELSE "option"
<1>1. /\ table \in Table /\ line \in CommandLine /\ pos \in 1..(N + 1) /\ cpidx \in 0..N
    BY DEF ParseInv, ParseTypeOK
<1>2. N \in Nat /\ N = Len(line)
    BY <1>1, LineIs DEF N
<1>3. ASSUME pos <= N
      PROVE  /\ pos \in 1..N
             /\ argv[pos] = line[pos] /\ (pos < N => argv[pos + 1] = line[pos + 1])
             /\ Roles(table, line)[pos] =
                     IF line[pos].dash = 0 THEN "operand"
                     ELSE IF line[pos].dash = 2 /\ line[pos].text = <<>> THEN "end"
                     ELSE "option"
  <2>1. pos \in 1..N /\ pos \in pos..N /\ (pos < N => pos + 1 \in pos..N)
    BY <1>1, <1>2, <1>3
  <2>2. /\ \A n \in pos..N : argv[n] = line[n]
        /\ Roles(table, line)[pos] # "value"
        /\ \A n \in 1..(pos - 1) : Roles(table, line)[n] \notin {"end", "rest"}
    BY <1>3 DEF ParseInv, KeptSoFar, ScanIsRight
  <2>3. pos = 1 \/ Roles(table, line)[pos - 1] \notin {"end", "rest"}
    BY <1>1, <1>2, <2>2
  <2> QED
    BY <1>1, <1>2, <2>1, <2>2, <2>3, RoleHere
<1> QED
    BY <1>1, <1>2, <1>3, LineIs

\* The parser ends the program at an option that is not right.
LEMMA ExitInv ==
    ASSUME ParseInv, mode \in {"arg", "short"}, NEW code \in {0, 129}, Ends(code),
           pos <= N, Roles(table, line)[pos] = "option", ~RightOption(table, line, pos)
    PROVE  ParseInv'
<1>1. pos \in 1..N /\ N \in Nat
    BY ArgumentHere
<1>2. /\ mode' = "exit" /\ exitCode' = code
      /\ UNCHANGED <<table, line, argv, pos, cpidx, opt, setting>>
    BY DEF Ends
<1>3. ParseTypeOK'
    BY <1>2 DEF ParseInv, ParseTypeOK, N, Opt
<1>4. ScanIsRight' /\ KeptSoFar' /\ SetSoFar' /\ BundleSoFar' /\ OperandsKept' /\ SettingAsAsked'
    BY <1>2 DEF ScanIsRight, KeptSoFar, SetSoFar, BundleSoFar, OperandsKept, SettingAsAsked
<1>5. RunsIffRight'
  <2>1. pos \in Options(table, line, N)
    BY <1>1 DEF Options
  <2>2. N' = N
    BY <1>2 DEF N
  <2> QED
    BY <1>2, <2>1, <2>2 DEF RunsIffRight
<1> QED
    BY <1>3, <1>4, <1>5 DEF ParseInv

\* The scan goes on behind an option, and its value, when the option is right
\* and stored.
LEMMA OptionInv ==
    ASSUME ParseInv, mode \in {"arg", "short"},
           pos <= N, Roles(table, line)[pos] = "option", RightOption(table, line, pos),
           mode' = "arg", UNCHANGED <<table, line, argv, cpidx, exitCode>>,
           TakesNext(table, line[pos]) => pos < N /\ pos' = pos + 2,
           ~TakesNext(table, line[pos]) => pos' = pos + 1,
           DOMAIN setting' = Opt,
           \A k \in Opt : setting'[k] = Asked(table, line, pos, k)
    PROVE  ParseInv'
<1> DEFINE R == Roles(table, line)
<1>1. /\ pos \in 1..N /\ N \in Nat /\ N = Len(line) /\ line \in CommandLine
      /\ cpidx \in 0..N
    BY ArgumentHere
<1>2. N' = N /\ Opt' = Opt /\ Roles(table', line') = R
    BY DEF N, Opt
<1>3. pos' \in 1..(N + 1) /\ pos' > pos /\ (pos' = pos + 1 \/ (pos < N /\ pos' = pos + 2))
    BY <1>1
<1>4. TakesNext(table, line[pos]) => R[pos + 1] = "value"
    BY <1>1, RoleNext
<1>5. \A n \in 1..(pos' - 1) : n \in 1..(pos - 1) \/ n = pos \/ (n = pos + 1 /\ R[n] = "value")
  <2>1. CASE TakesNext(table, line[pos])
    <3>1. \A n \in 1..(pos + 1) : n \in 1..(pos - 1) \/ n = pos \/ n = pos + 1
      BY <1>1
    <3>2. pos' - 1 = pos + 1
      BY <1>1, <2>1
    <3> QED
      BY <1>4, <2>1, <3>1, <3>2
  <2>2. CASE ~TakesNext(table, line[pos])
    <3>1. \A n \in 1..pos : n \in 1..(pos - 1) \/ n = pos
      BY <1>1
    <3>2. pos' - 1 = pos
      BY <1>1, <2>2
    <3> QED
      BY <3>1, <3>2
  <2> QED
    BY <2>1, <2>2
<1>6. ParseTypeOK'
    BY <1>2, <1>3 DEF ParseInv, ParseTypeOK
<1>7. ScanIsRight'
  <2>1. \A n \in 1..(pos' - 1) : R[n] \notin {"end", "rest"}
    BY <1>5 DEF ParseInv, ScanIsRight
  <2>2. ASSUME pos' <= N PROVE R[pos'] # "value"
    <3>1. CASE TakesNext(table, line[pos])
      <4>1. pos + 1 \in 1..Len(line) /\ pos + 1 < Len(line) /\ pos' = (pos + 1) + 1
        BY <1>1, <2>2, <3>1
      <4> QED
        BY <1>1, <1>4, <3>1, <4>1, RoleNext
    <3>2. CASE ~TakesNext(table, line[pos])
      BY <1>1, <2>2, <3>2, RoleNext
    <3> QED
      BY <3>1, <3>2
  <2>3. \A n \in Options(table, line, pos' - 1) : RightOption(table, line, n)
    <3>1. \A n \in Options(table, line, pos' - 1) : n = pos \/ n \in Options(table, line, pos - 1)
      BY <1>5 DEF Options
    <3> QED
      BY <3>1 DEF ParseInv, ScanIsRight
  <2> QED
    BY <1>2, <2>1, <2>2, <2>3 DEF ScanIsRight
<1>8. KeptSoFar'
  <2>1. Operands(table, line, pos' - 1) = Operands(table, line, pos - 1)
    <3>1. 1..(pos - 1) \subseteq 1..(pos' - 1)
      <4>1. 1..(pos - 1) \subseteq 1..pos /\ 1..(pos - 1) \subseteq 1..(pos + 1)
        BY <1>1
      <4>2. CASE TakesNext(table, line[pos])
        <5>1. pos' - 1 = pos + 1
          BY <1>1, <4>2
        <5> QED
          BY <4>1, <5>1
      <4>3. CASE ~TakesNext(table, line[pos])
        <5>1. pos' - 1 = pos
          BY <1>1, <4>3
        <5> QED
          BY <4>1, <5>1
      <4> QED
        BY <4>2, <4>3
    <3> QED
      BY <1>5, <3>1 DEF Operands
  <2>2. cpidx < pos' /\ \A n \in pos'..N : n \in pos..N
    BY <1>1, <1>3 DEF ParseInv, KeptSoFar
  <2> QED
    BY <1>2, <2>1, <2>2 DEF ParseInv, KeptSoFar
<1>9. SetSoFar'
  <2>1. ASSUME NEW k \in Opt PROVE Asked(table, line, pos' - 1, k) = Asked(table, line, pos, k)
    <3>1. CASE TakesNext(table, line[pos])
      <4>1. pos + 1 \in 1..Len(line) /\ (pos + 1) - 1 = pos /\ pos' - 1 = pos + 1
        BY <1>1, <3>1
      <4> QED
        BY <1>1, <1>4, <3>1, <4>1, AskedNext
    <3>2. CASE ~TakesNext(table, line[pos])
      BY <1>1, <3>2
    <3> QED
      BY <3>1, <3>2
  <2> QED
    BY <1>2, <2>1 DEF SetSoFar
<1>10. BundleSoFar' /\ RunsIffRight' /\ OperandsKept' /\ SettingAsAsked'
    BY DEF BundleSoFar, RunsIffRight, OperandsKept, SettingAsAsked
<1> QED
    BY <1>6, <1>7, <1>8, <1>9, <1>10 DEF ParseInv

\* What an argument with two dashes mentions, if it has one reading.
LEMMA LongMention ==
    ASSUME NEW tab, NEW a, a.dash = 2, NEW k, NEW f, Readings(tab, a.text) = {<<k, f>>}
    PROVE  Mentions(tab, a) = {Mention(k, f, Value(a.text))}
BY DEF Mentions

\* The fields of a mention.
LEMMA MentionIs ==
    ASSUME NEW k, NEW f, NEW v
    PROVE  /\ Mention(k, f, v).opt = k
           /\ Mention(k, f, v).flags = f
           /\ Mention(k, f, v).val = v
BY DEF Mention

\* get_value() takes a mention if and only if the line gives it the value that it
\* needs, and no other.
LEMMA TakesIff ==
    ASSUME ParseInv, mode \in {"arg", "short"}, pos <= N, NEW m,
           m.flags = OPT_SHORT /\ NoArgument(table[m.opt], m.flags) => m.val = <<>>
    PROVE  /\ Takes(table[m.opt], m.flags, m.val) <=>
                IF NoArgument(table[m.opt], m.flags) THEN m.val = <<>>
                ELSE /\ m.val # <<>> \/ pos < Len(line)
                     /\ table[m.opt].type = "number" => Given(line, pos, m) \in DOMAIN NumberOf
           /\ m.val # <<>> \/ pos < N => GetArg(m.val) = Given(line, pos, m)
<1>1. N = Len(line) /\ (pos < N => argv[pos + 1] = line[pos + 1])
    BY ArgumentHere
<1>2. m.val # <<>> \/ pos < N => GetArg(m.val) = Given(line, pos, m)
    BY <1>1 DEF GetArg, Given
<1> QED
    BY <1>1, <1>2 DEF Takes, HasArg

\* --help and its like.
LEMMA PrintInv ==
    ASSUME ParseInv, PrintAndEnd
    PROVE  ParseInv'
<1>1. /\ mode = "arg" /\ pos <= N /\ argv[pos].dash = 2 /\ argv[pos].text # <<>>
      /\ argv[pos].text \in Listings /\ Ends(0)
    BY DEF PrintAndEnd, AtLong, AtArg
<1>2. argv[pos] = line[pos] /\ Roles(table, line)[pos] = "option"
    BY <1>1, ArgumentHere
<1>3. ~RightOption(table, line, pos)
    BY <1>1, <1>2 DEF RightOption
<1> QED
    BY <1>1, <1>2, <1>3, ExitInv

\* A long option.
LEMMA LongInv ==
    ASSUME ParseInv, LongOption
    PROVE  ParseInv'
<1> DEFINE t == argv[pos].text
           found == ScanLong(t)
           all == Readings(table, t)
<1>1. /\ mode = "arg" /\ pos <= N /\ argv[pos].dash = 2 /\ t # <<>> /\ t \notin Listings
      /\ IF found.kind = "unknown" THEN Ends(129)
         ELSE IF found.kind # "ambiguous" /\ Takes(table[found.opt], found.flags, Value(t))
         THEN /\ GetValue(found.opt, found.flags, Value(t))
              /\ UNCHANGED <<table, line, argv, cpidx, exitCode>>
         ELSE Ends(0)
    BY DEF LongOption, AtLong, AtArg
<1>2. /\ table \in Table /\ line \in CommandLine /\ argv[pos] = line[pos] /\ t \in Text
      /\ pos \in 1..N /\ N = Len(line) /\ N \in Nat /\ Roles(table, line)[pos] = "option"
    BY <1>1, ArgumentHere
<1>3. /\ found \in FoundSet(Len(table))
      /\ found.kind = "unknown" => all = {}
      /\ found.kind = "ambiguous" => ~ \E r \in all : all = {r}
      /\ found.kind \in {"abbreviation", "exact"} =>
           found.opt \in Opt /\ all = {<<found.opt, found.flags>>}
    BY <1>2, ScanFinds
<1>4. found.kind \in {"unknown", "abbreviation", "ambiguous", "exact"}
      /\ found.flags \in {0, OPT_UNSET}
    BY <1>3 DEF FoundSet
<1> DEFINE ok == \A x \in Mentions(table, line[pos]) :
                    IF NoArgument(table[x.opt], x.flags) THEN x.val = <<>>
                    ELSE /\ x.val # <<>> \/ pos < Len(line)
                         /\ table[x.opt].type = "number" =>
                              Given(line, pos, x) \in DOMAIN NumberOf
<1>5. RightOption(table, line, pos) <=> (\E r \in all : all = {r}) /\ ok
    BY <1>1, <1>2 DEF RightOption
<1> HIDE DEF found, all, ok, t
<1>6. CASE found.kind = "unknown"
  <2>1. ~RightOption(table, line, pos)
    BY <1>3, <1>5, <1>6
  <2> QED
    BY <1>1, <1>2, <1>6, <2>1, ExitInv
<1>7. CASE found.kind = "ambiguous"
  <2>1. ~RightOption(table, line, pos)
    BY <1>3, <1>5, <1>7
  <2> QED
    BY <1>1, <1>2, <1>7, <2>1, ExitInv
<1>8. CASE found.kind \in {"abbreviation", "exact"}
  <2> DEFINE k == found.opt
             f == found.flags
             v == Value(t)
             m == Mention(k, f, v)
  <2>1. k \in Opt /\ all = {<<k, f>>} /\ f \in {0, OPT_UNSET}
    BY <1>3, <1>4, <1>8
  <2>2. line[pos].dash = 2 /\ line[pos].text = t
    BY <1>1, <1>2 DEF t
  <2>3. Mentions(table, line[pos]) = {m}
    BY <2>1, <2>2, LongMention DEF all
  <2>4. m.opt = k /\ m.flags = f /\ m.val = v
    BY MentionIs
  <2> HIDE DEF m, k, f, v
  <2>5. f # OPT_SHORT
    BY <2>1 DEF OPT_SHORT, OPT_UNSET
  <2>6. /\ Takes(table[k], f, v) <=>
             IF NoArgument(table[k], f) THEN v = <<>>
             ELSE /\ v # <<>> \/ pos < Len(line)
                  /\ table[k].type = "number" => Given(line, pos, m) \in DOMAIN NumberOf
        /\ v # <<>> \/ pos < N => GetArg(v) = Given(line, pos, m)
    BY <1>1, <2>4, <2>5, TakesIff
  <2>7. ok <=> Takes(table[k], f, v)
    BY <2>3, <2>4, <2>6 DEF ok
  <2>8. RightOption(table, line, pos) <=> Takes(table[k], f, v)
    BY <1>5, <2>1, <2>7
  <2>9. CASE ~Takes(table[k], f, v)
    <3>1. Ends(0)
      BY <1>1, <1>8, <2>9 DEF k, f, v
    <3> QED
      BY <1>1, <1>2, <2>8, <2>9, <3>1, ExitInv
  <2>10. CASE Takes(table[k], f, v)
    <3>1. GetValue(k, f, v) /\ UNCHANGED <<table, line, argv, cpidx, exitCode>>
      BY <1>1, <1>8, <2>10 DEF k, f, v
    <3>2. TakesNext(table, line[pos]) <=> ~NoArgument(table[k], f) /\ v = <<>>
      BY <2>3, <2>4 DEF TakesNext
    <3>3. /\ mode' = "arg"
          /\ TakesNext(table, line[pos]) => pos < N /\ pos' = pos + 2
          /\ ~TakesNext(table, line[pos]) => pos' = pos + 1
      <4>1. CASE NoArgument(table[k], f)
        <5>1. v = <<>>
          BY <2>6, <2>10, <4>1
        <5> QED
          BY <3>1, <3>2, <4>1, <5>1 DEF GetValue
      <4>2. CASE ~NoArgument(table[k], f)
        <5>1. mode' = "arg" /\ pos' = NextPos(v) + 1
          BY <3>1, <4>2 DEF GetValue
        <5>2. v # <<>> \/ pos < N
          BY <1>2, <2>6, <2>10, <4>2
        <5> QED
          BY <1>2, <3>2, <4>2, <5>1, <5>2 DEF NextPos
      <4> QED
        BY <4>1, <4>2
    <3>4. setting' = [setting EXCEPT ![k] = Meant(table, line, pos, m)]
      <4>1. CASE NoArgument(table[k], f)
        <5>1. WithoutArgument(table[k], f) = Meant(table, line, pos, m)
          BY <2>4, <4>1 DEF WithoutArgument, Meant, NoArgument
        <5> QED
          BY <3>1, <4>1, <5>1 DEF GetValue
      <4>2. CASE ~NoArgument(table[k], f)
        <5>1. v # <<>> \/ pos < N
          BY <1>2, <2>6, <2>10, <4>2
        <5>2. WithArgument(table[k], GetArg(v)) = Meant(table, line, pos, m)
          BY <2>4, <2>6, <4>2, <5>1 DEF Meant, NoArgument
        <5> QED
          BY <3>1, <4>2, <5>2 DEF GetValue
      <4> QED
        BY <4>1, <4>2
    <3>5. DOMAIN setting = Opt /\ \A l \in Opt : setting[l] = Asked(table, line, pos - 1, l)
      BY <1>1 DEF ParseInv, ParseTypeOK, SetSoFar
    <3>6. DOMAIN setting' = Opt
      BY <3>4, <3>5
    <3>7. ASSUME NEW l \in Opt PROVE setting'[l] = Asked(table, line, pos, l)
      <4>1. CASE l = k
        <5>1. Asked(table, line, pos, k) = Meant(table, line, pos, m)
          BY <1>2, <2>3, <2>4, AskedNext
        <5> QED
          BY <2>1, <3>4, <3>5, <4>1, <5>1
      <4>2. CASE l # k
        <5>1. Asked(table, line, pos, l) = Asked(table, line, pos - 1, l)
          BY <1>2, <2>3, <2>4, <4>2, AskedNext
        <5> QED
          BY <3>4, <3>5, <4>2, <5>1
      <4> QED
        BY <4>1, <4>2
    <3> QED
      BY <1>1, <1>2, <2>8, <2>10, <3>1, <3>3, <3>6, <3>7, OptionInv
  <2> QED
    BY <2>9, <2>10
<1> QED
    BY <1>4, <1>6, <1>7, <1>8

\* What an argument with one dash mentions.
LEMMA BundleMention ==
    ASSUME NEW tab, NEW a, a.dash # 2, NEW m
    PROVE  m \in Mentions(tab, a) <=>
             \E n \in InBundle(tab, a.text) : \E k \in BundleOpt(tab, a.text, n) :
                m = Mention(k, OPT_SHORT, BundleVal(tab[k], a.text, n))
BY DEF Mentions

\* A bundle begins.
LEMMA BundleInv ==
    ASSUME ParseInv, ShortBundle
    PROVE  ParseInv'
<1> DEFINE t == line[pos].text
<1>1. /\ mode = "arg" /\ pos <= N /\ argv[pos].dash = 1
      /\ opt' = <<argv[pos].text>> /\ mode' = "short"
      /\ UNCHANGED <<table, line, argv, pos, cpidx, setting, exitCode>>
    BY DEF ShortBundle, AtArg
<1>2. /\ argv[pos] = line[pos] /\ line[pos].dash = 1 /\ t \in Text /\ t # <<>>
      /\ table \in Table
    BY <1>1, ArgumentHere
<1>3. N' = N /\ Opt' = Opt
    BY <1>1 DEF N, Opt
<1>4. Len(t) \in Nat /\ DOMAIN t = 1..Len(t) /\ 1 \in DOMAIN t
    BY <1>2 DEF Text
<1>5. From(t, 1 - 1) = t
  <2>1. 0 \in 0..Len(t) /\ Len(t) - 0 = Len(t) /\ 1 - 1 = 0
    BY <1>4
  <2>2. From(t, 0) \in Text /\ Len(From(t, 0)) = Len(t) /\ \A j \in 1..Len(t) : From(t, 0)[j] = t[0 + j]
    BY <1>2, <2>1, Rest
  <2>3. \A j \in 1..Len(t) : From(t, 0)[j] = t[j]
    BY <1>4, <2>2
  <2> QED
    BY <1>2, <2>1, <2>2, <2>3, SameText
<1>6. AtPiece(1)'
  <2>1. 1 \in InBundle(table, t)
    BY <1>4 DEF InBundle
  <2>2. \A k \in Opt : setting[k] = Asked(table, line, pos - 1, k)
    BY <1>1 DEF ParseInv, SetSoFar
  <2>3. ~ \E j \in 1..(1 - 1) : TRUE
    OBVIOUS
  <2> QED
    BY <1>1, <1>2, <1>3, <1>5, <2>1, <2>2, <2>3 DEF AtPiece
<1>7. ParseTypeOK' /\ ScanIsRight' /\ KeptSoFar'
    BY <1>1, <1>3 DEF ParseInv, ParseTypeOK, ScanIsRight, KeptSoFar
<1>8. SetSoFar' /\ RunsIffRight' /\ OperandsKept' /\ SettingAsAsked'
    BY <1>1 DEF SetSoFar, RunsIffRight, OperandsKept, SettingAsAsked
<1>9. BundleSoFar'
  <2>1. pos' <= N' /\ line'[pos'].dash = 1 /\ 1 \in DOMAIN line'[pos'].text
    BY <1>1, <1>2, <1>3, <1>4
  <2> QED
    BY <1>6, <2>1 DEF BundleSoFar
<1> QED
    BY <1>7, <1>8, <1>9 DEF ParseInv

\* ctx->opt within a bundle.
LEMMA PieceIs ==
    ASSUME ParseInv, mode = "short"
    PROVE  LET t == line[pos].text
           IN  /\ pos <= N /\ line[pos].dash = 1 /\ t \in Text /\ DOMAIN t = 1..Len(t)
               /\ Len(t) \in Nat /\ argv[pos].text = t /\ Roles(table, line)[pos] = "option"
               /\ \E i \in 1..Len(t) :
                    /\ AtPiece(i) /\ i \in InBundle(table, t) /\ opt[1][1] = t[i]
                    /\ opt[1] = t <=> i = 1
                    /\ BehindOption(opt[1]) = IF i < Len(t) THEN <<From(t, i)>> ELSE <<>>
<1> DEFINE t == line[pos].text
<1>1. pos <= N /\ line[pos].dash = 1 /\ \E i \in DOMAIN t : AtPiece(i)
    BY DEF ParseInv, BundleSoFar
<1>2. t \in Text /\ argv[pos] = line[pos] /\ Roles(table, line)[pos] = "option"
    BY <1>1, ArgumentHere
<1>3. Len(t) \in Nat /\ DOMAIN t = 1..Len(t)
    BY <1>2 DEF Text
<1>4. PICK i \in 1..Len(t) : AtPiece(i)
    BY <1>1, <1>3
<1>5. i \in InBundle(table, t) /\ opt = <<From(t, i - 1)>>
    BY <1>4 DEF AtPiece
<1> DEFINE u == From(t, i - 1)
<1>6. opt[1] = u
    BY <1>5
<1>7. i - 1 \in 0..Len(t) /\ i \in 0..Len(t) /\ i \in Nat
    BY <1>3
<1>8. /\ u \in Text /\ Len(u) = Len(t) - (i - 1)
      /\ \A j \in 1..(Len(t) - (i - 1)) : u[j] = t[(i - 1) + j]
    BY <1>2, <1>7, Rest
<1> HIDE DEF t, u
<1>9. 1 \in 1..(Len(t) - (i - 1)) /\ (i - 1) + 1 = i /\ 1 \in 0..Len(u) /\ Len(u) \in Nat
    BY <1>3, <1>7, <1>8
<1>10. u[1] = t[i]
    BY <1>8, <1>9
<1>11. u = t <=> i = 1
  <2>1. u = t => i = 1
    BY <1>3, <1>7, <1>8
  <2>2. ASSUME i = 1 PROVE u = t
    <3>1. Len(u) = Len(t) /\ \A j \in 1..Len(u) : u[j] = t[j]
      BY <1>3, <1>8, <2>2
    <3> QED
      BY <1>2, <1>8, <3>1, SameText DEF t
  <2> QED
    BY <2>1, <2>2
<1>12. BehindOption(u) = IF i < Len(t) THEN <<From(t, i)>> ELSE <<>>
  <2>1. Len(u) > 1 <=> i < Len(t)
    BY <1>3, <1>7, <1>8
  <2>2. From(u, 1) = From(t, i)
    <3>1. /\ From(u, 1) \in Text /\ Len(From(u, 1)) = Len(u) - 1
          /\ \A j \in 1..(Len(u) - 1) : From(u, 1)[j] = u[1 + j]
      BY <1>8, <1>9, Rest
    <3>2. /\ From(t, i) \in Text /\ Len(From(t, i)) = Len(t) - i
          /\ \A j \in 1..(Len(t) - i) : From(t, i)[j] = t[i + j]
      BY <1>2, <1>7, Rest DEF t
    <3>3. Len(u) - 1 = Len(t) - i
      BY <1>3, <1>7, <1>8
    <3>4. ASSUME NEW j \in 1..(Len(t) - i) PROVE From(u, 1)[j] = From(t, i)[j]
      <4>1. 1 + j \in 1..(Len(t) - (i - 1)) /\ (i - 1) + (1 + j) = i + j
        BY <1>3, <1>7
      <4> QED
        BY <1>8, <3>1, <3>2, <3>3, <4>1
    <3> QED
      BY <3>1, <3>2, <3>3, <3>4, SameText
  <2> QED
    BY <2>1, <2>2 DEF BehindOption
<1> QED
    BY <1>1, <1>2, <1>3, <1>4, <1>5, <1>6, <1>10, <1>11, <1>12 DEF t

\* An option of a bundle, its value and its flags.
LEMMA ShortIs ==
    ASSUME NEW o
    PROVE  /\ NoArgument(o, OPT_SHORT) <=> o.type = "boolean"
           /\ WithoutArgument(o, OPT_SHORT) = <<"set">>
<1>1. OPT_SHORT # OPT_UNSET
    BY DEF OPT_SHORT, OPT_UNSET
<1> QED
    BY <1>1 DEF NoArgument, WithoutArgument

\* A boolean within a bundle is set, and the bundle goes on behind it.
LEMMA BundleGoesOn ==
    ASSUME ParseInv, mode = "short", NEW i \in 1..Len(line[pos].text), AtPiece(i),
           i < Len(line[pos].text), NEW k \in Opt, BundleOpt(table, line[pos].text, i) = {k},
           table[k].type = "boolean", i = 1 => ~Typo(table, line[pos].text),
           GetValue(k, OPT_SHORT, <<From(line[pos].text, i)>>),
           UNCHANGED <<table, line, argv, cpidx, exitCode>>
    PROVE  ParseInv'
<1> DEFINE t == line[pos].text
           j == i + 1
<1>1. /\ pos <= N /\ line[pos].dash = 1 /\ t \in Text /\ DOMAIN t = 1..Len(t) /\ Len(t) \in Nat
    BY PieceIs
<1>2. /\ setting' = [setting EXCEPT ![k] = <<"set">>]
      /\ opt' = <<From(t, i)>> /\ pos' = pos /\ mode' = mode
    BY ShortIs DEF GetValue
<1>3. N' = N /\ Opt' = Opt
    BY DEF N, Opt
<1>4. DOMAIN setting = Opt
    BY DEF ParseInv, ParseTypeOK
<1>5. j \in 1..Len(t) /\ j - 1 = i /\ i \in Nat
    BY <1>1
<1>6. 1..(j - 1) = (1..(i - 1)) \cup {i}
    BY <1>5
<1> HIDE DEF j
<1>7. AtPiece(j)'
  <2>1. j \in InBundle(table, t)
    <3>1. \A n \in 1..(i - 1) : \A l \in BundleOpt(table, t, n) : table[l].type = "boolean"
      BY DEF AtPiece, InBundle
    <3> QED
      BY <1>1, <1>5, <1>6, <3>1 DEF InBundle
  <2>2. opt' = <<From(t, j - 1)>>
    BY <1>2, <1>5
  <2>3. \A n \in 1..(j - 1) : BundleOpt(table, t, n) # {}
    BY <1>6 DEF AtPiece
  <2>4. ~Typo(table, t)
    <3>1. i = 1 \/ i > 1
      BY <1>5
    <3> QED
      BY <3>1 DEF AtPiece
  <2>5. ASSUME NEW l \in Opt
        PROVE  setting'[l] = IF \E n \in 1..(j - 1) : l \in BundleOpt(table, t, n)
                             THEN <<"set">> ELSE Asked(table, line, pos - 1, l)
    <3>1. setting[l] = IF \E n \in 1..(i - 1) : l \in BundleOpt(table, t, n)
                       THEN <<"set">> ELSE Asked(table, line, pos - 1, l)
      BY DEF AtPiece
    <3>2. (\E n \in 1..(j - 1) : l \in BundleOpt(table, t, n)) <=>
            (\E n \in 1..(i - 1) : l \in BundleOpt(table, t, n)) \/ l = k
      BY <1>6
    <3>3. setting'[l] = IF l = k THEN <<"set">> ELSE setting[l]
      BY <1>2, <1>4
    <3> QED
      BY <3>1, <3>2, <3>3
  <2> QED
    BY <1>2, <1>3, <2>1, <2>2, <2>3, <2>4, <2>5 DEF AtPiece
<1>8. ParseTypeOK' /\ ScanIsRight' /\ KeptSoFar'
    BY <1>2, <1>3, <1>4 DEF ParseInv, ParseTypeOK, ScanIsRight, KeptSoFar
<1>9. SetSoFar' /\ RunsIffRight' /\ OperandsKept' /\ SettingAsAsked'
    BY <1>2 DEF SetSoFar, RunsIffRight, OperandsKept, SettingAsAsked
<1>10. BundleSoFar'
  <2>1. pos' <= N' /\ line'[pos'].dash = 1 /\ j \in DOMAIN line'[pos'].text
    BY <1>1, <1>2, <1>3, <1>5
  <2> QED
    BY <1>7, <2>1 DEF BundleSoFar
<1> QED
    BY <1>8, <1>9, <1>10 DEF ParseInv

\* The last option of a bundle is stored, and the scan goes on behind it.
LEMMA BundleEnds ==
    ASSUME ParseInv, mode = "short", NEW i \in 1..Len(line[pos].text), AtPiece(i),
           NEW k \in Opt, BundleOpt(table, line[pos].text, i) = {k},
           table[k].type = "boolean" => i = Len(line[pos].text),
           NEW v, v = BundleVal(table[k], line[pos].text, i),
           Takes(table[k], OPT_SHORT, v), GetValue(k, OPT_SHORT, v),
           UNCHANGED <<table, line, argv, cpidx, exitCode>>
    PROVE  ParseInv'
<1> DEFINE t == line[pos].text
           m == Mention(k, OPT_SHORT, v)
           all == Mentions(table, line[pos])
<1>1. /\ pos <= N /\ line[pos].dash = 1 /\ t \in Text /\ DOMAIN t = 1..Len(t) /\ Len(t) \in Nat
      /\ Roles(table, line)[pos] = "option"
    BY PieceIs
<1>2. table \in Table /\ line \in CommandLine /\ pos \in 1..N /\ N = Len(line) /\ N \in Nat
    BY <1>1, ArgumentHere
<1>3. /\ \A n \in 1..(i - 1) : \A l \in BundleOpt(table, t, n) : table[l].type = "boolean"
      /\ \A n \in 1..(i - 1) : BundleOpt(table, t, n) # {}
      /\ i > 1 => ~Typo(table, t)
    BY DEF AtPiece, InBundle
<1>4. InBundle(table, t) = 1..i
  <2>1. ASSUME NEW n \in 1..i PROVE n \in InBundle(table, t)
    <3>1. n \in 1..Len(t) /\ \A x \in 1..(n - 1) : x \in 1..(i - 1)
      BY <1>1
    <3> QED
      BY <1>1, <1>3, <3>1 DEF InBundle
  <2>2. ASSUME NEW n \in InBundle(table, t) PROVE n \in 1..i
    <3>1. n \in 1..Len(t) /\ \A x \in 1..(n - 1) :
            \A l \in BundleOpt(table, t, x) : table[l].type = "boolean"
      BY <1>1 DEF InBundle
    <3>2. CASE table[k].type = "boolean"
      BY <3>1, <3>2
    <3>3. CASE table[k].type # "boolean"
      <4>1. i \notin 1..(n - 1)
        BY <3>1, <3>3
      <4> QED
        BY <1>1, <3>1, <4>1
    <3> QED
      BY <3>2, <3>3
  <2> QED
    BY <2>1, <2>2
<1>5. 1..i = (1..(i - 1)) \cup {i}
    BY <1>1
<1>6. \A l \in Opt : \A n : NoArgument(table[l], OPT_SHORT) => BundleVal(table[l], t, n) = <<>>
    BY ShortIs DEF BundleVal
<1>7. m.opt = k /\ m.flags = OPT_SHORT /\ m.val = v
    BY MentionIs
<1>8. \A n : BundleOpt(table, t, n) \subseteq Opt
    BY DEF BundleOpt, Opt
<1> HIDE DEF m
<1>9. m \in all
  <2>1. i \in InBundle(table, t) /\ k \in BundleOpt(table, t, i)
    BY <1>4
  <2> QED
    BY <1>1, <2>1, BundleMention DEF m
<1>10. ASSUME NEW x \in all
       PROVE  /\ x.flags = OPT_SHORT
              /\ x = m \/ (table[x.opt].type = "boolean" /\ x = Mention(x.opt, OPT_SHORT, <<>>)
                           /\ x.val = <<>>)
              /\ x.opt \in Opt /\ \E n \in 1..i : x.opt \in BundleOpt(table, t, n)
  <2>1. PICK n \in InBundle(table, t) : \E l \in BundleOpt(table, t, n) :
                x = Mention(l, OPT_SHORT, BundleVal(table[l], t, n))
    BY <1>1, BundleMention
  <2>2. PICK l \in BundleOpt(table, t, n) : x = Mention(l, OPT_SHORT, BundleVal(table[l], t, n))
    BY <2>1
  <2>3. x.opt = l /\ x.flags = OPT_SHORT /\ x.val = BundleVal(table[l], t, n)
    BY <2>2, MentionIs
  <2>4. n \in 1..i /\ l \in Opt
    BY <1>4, <1>8
  <2>5. CASE n = i
    <3>1. l = k /\ x = m
      BY <2>2, <2>5 DEF m
    <3> QED
      BY <2>2, <2>3, <2>4, <3>1
  <2>6. CASE n \in 1..(i - 1)
    <3>1. table[l].type = "boolean"
      BY <1>3, <2>6
    <3>2. BundleVal(table[l], t, n) = <<>>
      BY <1>6, <2>4, <3>1, ShortIs
    <3> QED
      BY <2>2, <2>3, <2>4, <3>1, <3>2
  <2> QED
    BY <1>5, <2>4, <2>5, <2>6
<1>11. ASSUME NEW n \in 1..i, NEW l \in BundleOpt(table, t, n)
       PROVE  \E x \in all : x.opt = l
  <2> DEFINE x == Mention(l, OPT_SHORT, BundleVal(table[l], t, n))
  <2>1. x \in all
    <3>1. n \in InBundle(table, t)
      BY <1>4
    <3>2. \E b \in InBundle(table, t) : \E c \in BundleOpt(table, t, b) :
             x = Mention(c, OPT_SHORT, BundleVal(table[c], t, b))
      BY <3>1
    <3>3. line[pos].dash # 2
      BY <1>1
    <3> HIDE DEF x
    <3> QED
      BY <3>2, <3>3, BundleMention
  <2>2. x.opt = l
    BY MentionIs
  <2> QED
    BY <2>1, <2>2
<1> HIDE DEF all, t
<1>12. /\ Takes(table[k], OPT_SHORT, v) <=>
             IF NoArgument(table[k], OPT_SHORT) THEN v = <<>>
             ELSE /\ v # <<>> \/ pos < Len(line)
                  /\ table[k].type = "number" => Given(line, pos, m) \in DOMAIN NumberOf
       /\ v # <<>> \/ pos < N => GetArg(v) = Given(line, pos, m)
    BY <1>1, <1>6, <1>7, TakesIff DEF t
<1>13. RightOption(table, line, pos)
  <2>1. \A n \in InBundle(table, t) : BundleOpt(table, t, n) # {}
    BY <1>3, <1>4, <1>5 DEF t
  <2>2. ~ (/\ Typo(table, t)
           /\ \E l \in BundleOpt(table, t, 1) : table[l].type = "boolean")
    <3>1. CASE i > 1
      BY <1>3, <3>1
    <3>2. CASE i = 1
      <4>1. table[k].type = "boolean" => ~Typo(table, t)
        <5>1. ASSUME table[k].type = "boolean" PROVE Len(t) = 1
          BY <3>2, <5>1 DEF t
        <5>2. Len(t) = 1 => ~Typo(table, t)
          BY DEF Typo
        <5> QED
          BY <5>1, <5>2
      <4> QED
        BY <3>2, <4>1 DEF t
    <3>3. i > 1 \/ i = 1
      OBVIOUS
    <3> QED
      BY <3>1, <3>2, <3>3
  <2>3. \A x \in all :
             IF NoArgument(table[x.opt], x.flags) THEN x.val = <<>>
             ELSE /\ x.val # <<>> \/ pos < Len(line)
                  /\ table[x.opt].type = "number" => Given(line, pos, x) \in DOMAIN NumberOf
    BY <1>7, <1>10, <1>12, ShortIs
  <2> QED
    BY <1>1, <2>1, <2>2, <2>3 DEF RightOption, all, t
<1>14. TakesNext(table, line[pos]) <=> ~NoArgument(table[k], OPT_SHORT) /\ v = <<>>
    BY <1>7, <1>9, <1>10, ShortIs DEF TakesNext, all
<1>15. /\ mode' = "arg"
       /\ TakesNext(table, line[pos]) => pos < N /\ pos' = pos + 2
       /\ ~TakesNext(table, line[pos]) => pos' = pos + 1
  <2>1. CASE NoArgument(table[k], OPT_SHORT)
    <3>1. v = <<>>
      BY <1>12, <2>1
    <3> QED
      BY <1>14, <2>1, <3>1 DEF GetValue
  <2>2. CASE ~NoArgument(table[k], OPT_SHORT)
    <3>1. mode' = "arg" /\ pos' = NextPos(v) + 1
      BY <2>2 DEF GetValue
    <3>2. v # <<>> \/ pos < N
      BY <1>2, <1>12, <2>2
    <3> QED
      BY <1>2, <1>14, <2>2, <3>1, <3>2 DEF NextPos
  <2> QED
    BY <2>1, <2>2
<1>16. setting' = [setting EXCEPT ![k] = Meant(table, line, pos, m)]
  <2>0. OPT_SHORT # OPT_UNSET
    BY DEF OPT_SHORT, OPT_UNSET
  <2>1. CASE NoArgument(table[k], OPT_SHORT)
    <3>1. Meant(table, line, pos, m) = <<"set">>
      BY <1>7, <2>0, <2>1, ShortIs DEF Meant
    <3> QED
      BY <2>1, <3>1, ShortIs DEF GetValue
  <2>2. CASE ~NoArgument(table[k], OPT_SHORT)
    <3>1. v # <<>> \/ pos < N
      BY <1>2, <1>12, <2>2
    <3>2. WithArgument(table[k], GetArg(v)) = Meant(table, line, pos, m)
      BY <1>7, <1>12, <2>0, <2>2, <3>1, ShortIs DEF Meant
    <3> QED
      BY <2>2, <3>2 DEF GetValue
  <2> QED
    BY <2>1, <2>2
<1>17. /\ DOMAIN setting = Opt
       /\ \A l \in Opt : setting[l] = IF \E n \in 1..(i - 1) : l \in BundleOpt(table, t, n)
                                      THEN <<"set">> ELSE Asked(table, line, pos - 1, l)
    BY DEF ParseInv, ParseTypeOK, AtPiece, t
<1>18. DOMAIN setting' = Opt
    BY <1>16, <1>17
<1>19. ASSUME NEW l \in Opt PROVE setting'[l] = Asked(table, line, pos, l)
  <2>1. CASE l = k
    <3>1. \A x \in all : x.opt = k => x = m
      <4>1. CASE table[k].type = "boolean"
        <5>1. v = <<>>
          BY <1>12, <4>1, ShortIs
        <5> QED
          BY <1>7, <1>10, <5>1 DEF m
      <4>2. CASE table[k].type # "boolean"
        BY <1>10, <4>2
      <4> QED
        BY <4>1, <4>2
    <3>2. Asked(table, line, pos, k) = Meant(table, line, pos, m)
      BY <1>1, <1>2, <1>7, <1>9, <3>1, AskedNext DEF all
    <3> QED
      BY <1>16, <1>17, <2>1, <3>2
  <2>2. CASE l # k /\ \E n \in 1..(i - 1) : l \in BundleOpt(table, t, n)
    <3>1. PICK n \in 1..(i - 1) : l \in BundleOpt(table, t, n)
      BY <2>2
    <3>2. PICK x \in all : x.opt = l
      BY <1>5, <1>11, <3>1 DEF t
    <3>3. \A y \in all : y.opt = l => y = x
      BY <1>7, <1>10, <2>2, <3>2
    <3>4. Asked(table, line, pos, l) = Meant(table, line, pos, x)
      BY <1>1, <1>2, <3>2, <3>3, AskedNext DEF all
    <3>5. Meant(table, line, pos, x) = <<"set">>
      <4>1. x.flags = OPT_SHORT /\ table[x.opt].type = "boolean" /\ OPT_SHORT # OPT_UNSET
        BY <1>7, <1>10, <2>2, <3>2 DEF OPT_SHORT, OPT_UNSET
      <4> QED
        BY <4>1 DEF Meant
    <3> QED
      BY <1>16, <1>17, <2>2, <3>4, <3>5
  <2>3. CASE l # k /\ ~ \E n \in 1..(i - 1) : l \in BundleOpt(table, t, n)
    <3>1. \A x \in all : x.opt # l
      BY <1>5, <1>10, <2>3 DEF t
    <3>2. Asked(table, line, pos, l) = Asked(table, line, pos - 1, l)
      BY <1>2, <3>1, AskedNext DEF all
    <3> QED
      BY <1>16, <1>17, <2>3, <3>2
  <2> QED
    BY <2>1, <2>2, <2>3
<1> QED
    BY <1>1, <1>13, <1>15, <1>18, <1>19, OptionInv

\* An option of a bundle.
LEMMA ShortInv ==
    ASSUME ParseInv, ShortOption
    PROVE  ParseInv'
<1> DEFINE t == line[pos].text
           ptr == BehindOption(opt[1])
           c == CHOOSE l \in Opt : table[l].short = opt[1][1]
<1>1. /\ mode = "short"
      /\ IF opt[1][1] = "h" THEN Ends(0)
         ELSE IF \A l \in Opt : table[l].short # opt[1][1] THEN Ends(129)
         ELSE IF ~Takes(table[c], OPT_SHORT, ptr) THEN Ends(0)
         ELSE IF /\ opt[1] = argv[pos].text /\ Typo(table, opt[1])
                 /\ ptr # <<>> /\ NoArgument(table[c], OPT_SHORT) THEN Ends(129)
         ELSE /\ GetValue(c, OPT_SHORT, ptr)
              /\ UNCHANGED <<table, line, argv, cpidx, exitCode>>
    BY DEF ShortOption
<1>2. /\ pos <= N /\ line[pos].dash = 1 /\ t \in Text /\ DOMAIN t = 1..Len(t) /\ Len(t) \in Nat
      /\ argv[pos].text = t /\ Roles(table, line)[pos] = "option"
    BY <1>1, PieceIs
<1>3. PICK i \in 1..Len(t) :
        /\ AtPiece(i) /\ i \in InBundle(table, t) /\ opt[1][1] = t[i]
        /\ opt[1] = t <=> i = 1
        /\ ptr = IF i < Len(t) THEN <<From(t, i)>> ELSE <<>>
    BY <1>1, PieceIs
<1>4. table \in Table
    BY <1>1, ArgumentHere
<1>5. RightOption(table, line, pos) =>
        /\ \A n \in InBundle(table, t) : BundleOpt(table, t, n) # {}
        /\ ~ (/\ Typo(table, t)
              /\ \E k \in BundleOpt(table, t, 1) : table[k].type = "boolean")
        /\ \A m \in Mentions(table, line[pos]) :
             IF NoArgument(table[m.opt], m.flags) THEN m.val = <<>>
             ELSE /\ m.val # <<>> \/ pos < Len(line)
                  /\ table[m.opt].type = "number" => Given(line, pos, m) \in DOMAIN NumberOf
    BY <1>2 DEF RightOption
<1> HIDE DEF ptr, c, t
<1>6. ASSUME NEW code \in {0, 129}, Ends(code), ~RightOption(table, line, pos)
      PROVE  ParseInv'
    BY <1>1, <1>2, <1>6, ExitInv
<1>7. CASE \A l \in Opt : table[l].short # t[i]
  <2>1. BundleOpt(table, t, i) = {}
    BY <1>7 DEF BundleOpt, Opt
  <2>2. ~RightOption(table, line, pos)
    BY <1>3, <1>5, <2>1
  <2>3. Ends(0) \/ Ends(129)
    BY <1>1, <1>3, <1>7
  <2> QED
    BY <1>6, <2>2, <2>3
<1>8. CASE \E l \in Opt : table[l].short = t[i]
  <2>1. PICK k \in Opt : table[k].short = t[i]
    BY <1>8
  <2>2. \A l \in Opt : table[l].short # "h" /\ (table[l].short = t[i] => l = k)
    BY <1>4, <2>1, OptionAssumption DEF Opt
  <2>3. c = k
    BY <1>3, <2>1, <2>2 DEF c
  <2>4. BundleOpt(table, t, i) = {k}
    BY <2>1, <2>2 DEF BundleOpt, Opt
  <2>5. t[i] # "h"
    BY <2>1, <2>2
  <2> DEFINE v == BundleVal(table[k], t, i)
             m == Mention(k, OPT_SHORT, v)
  <2>6. m.opt = k /\ m.flags = OPT_SHORT /\ m.val = v
    BY MentionIs
  <2>7. m \in Mentions(table, line[pos])
    <3>1. \E a \in InBundle(table, t) : \E b \in BundleOpt(table, t, a) :
             m = Mention(b, OPT_SHORT, BundleVal(table[b], t, a))
      BY <1>3, <2>4
    <3>2. line[pos].dash # 2
      BY <1>2
    <3> HIDE DEF m
    <3> QED
      BY <3>1, <3>2, BundleMention DEF t
  <2>8. /\ NoArgument(table[k], OPT_SHORT) <=> table[k].type = "boolean"
        /\ table[k].type = "boolean" => v = <<>>
        /\ table[k].type # "boolean" \/ i = Len(t) => v = ptr
    <3>1. Len(t) \in Nat
      BY <1>2
    <3>2. i < Len(t) <=> i # Len(t)
      BY <3>1
    <3> QED
      BY <1>3, <3>2, ShortIs DEF BundleVal
  <2> HIDE DEF m, v
  <2>9. CASE ~Takes(table[k], OPT_SHORT, ptr)
    <3>1. Ends(0)
      BY <1>1, <1>3, <2>1, <2>3, <2>5, <2>9
    <3>2. table[k].type # "boolean"
      BY <2>8, <2>9 DEF Takes
    <3>3. ~ (IF NoArgument(table[m.opt], m.flags) THEN m.val = <<>>
             ELSE /\ m.val # <<>> \/ pos < Len(line)
                  /\ table[m.opt].type = "number" => Given(line, pos, m) \in DOMAIN NumberOf)
      <4>1. Takes(table[m.opt], m.flags, m.val) <=>
             IF NoArgument(table[m.opt], m.flags) THEN m.val = <<>>
             ELSE /\ m.val # <<>> \/ pos < Len(line)
                  /\ table[m.opt].type = "number" => Given(line, pos, m) \in DOMAIN NumberOf
        <5>1. NoArgument(table[m.opt], m.flags) => m.val = <<>>
          BY <2>6, <2>8
        <5> QED
          BY <1>1, <1>2, <5>1, TakesIff
      <4>2. ~Takes(table[m.opt], m.flags, m.val)
        BY <2>6, <2>8, <2>9, <3>2
      <4> QED
        BY <4>1, <4>2
    <3>4. ~RightOption(table, line, pos)
      BY <1>5, <2>7, <3>3
    <3> QED
      BY <1>6, <3>1, <3>4
  <2> DEFINE typo == /\ opt[1] = argv[pos].text /\ Typo(table, opt[1])
                     /\ ptr # <<>> /\ NoArgument(table[k], OPT_SHORT)
  <2>10. CASE Takes(table[k], OPT_SHORT, ptr) /\ typo
    <3>1. Ends(129)
      BY <1>1, <1>3, <2>1, <2>3, <2>5, <2>10
    <3>2. i = 1 /\ Typo(table, t) /\ table[k].type = "boolean"
      BY <1>2, <1>3, <2>8, <2>10
    <3>3. ~RightOption(table, line, pos)
      BY <1>5, <2>4, <3>2
    <3> QED
      BY <1>6, <3>1, <3>3
  <2>11. CASE Takes(table[k], OPT_SHORT, ptr) /\ ~typo
    <3>1. GetValue(k, OPT_SHORT, ptr) /\ UNCHANGED <<table, line, argv, cpidx, exitCode>>
      BY <1>1, <1>3, <2>1, <2>3, <2>5, <2>11
    <3>2. CASE table[k].type = "boolean" /\ i < Len(t)
      <4>1. ptr = <<From(t, i)>> /\ ptr # <<>>
        BY <1>3, <3>2
      <4>2. i = 1 => ~Typo(table, t)
        BY <1>2, <1>3, <2>8, <2>11, <3>2, <4>1
      <4> QED
        BY <1>1, <1>3, <2>4, <3>1, <3>2, <4>1, <4>2, BundleGoesOn DEF t
    <3>3. CASE table[k].type = "boolean" => i = Len(t)
      <4>1. v = ptr
        BY <2>8, <3>3
      <4> QED
        BY <1>1, <1>3, <2>4, <2>11, <3>1, <3>3, <4>1, BundleEnds DEF t, v
    <3>4. i < Len(t) \/ i = Len(t)
      BY <1>2
    <3> QED
      BY <3>2, <3>3, <3>4
  <2> QED
    BY <2>9, <2>10, <2>11
<1> QED
    BY <1>7, <1>8

\* An operand is kept.
LEMMA OperandInv ==
    ASSUME ParseInv, Operand
    PROVE  ParseInv'
<1> DEFINE R == Roles(table, line)
           C(n) == Cardinality(Operands(table, line, n))
<1>1. /\ mode = "arg" /\ pos <= N /\ argv[pos].dash = 0
      /\ argv' = [argv EXCEPT ![cpidx] = argv[pos]]
      /\ cpidx' = cpidx + 1 /\ pos' = pos + 1
      /\ UNCHANGED <<table, line, opt, setting, mode, exitCode>>
    BY DEF Operand, AtArg
<1>2. /\ table \in Table /\ line \in CommandLine /\ pos \in 1..N /\ N = Len(line) /\ N \in Nat
      /\ argv[pos] = line[pos] /\ cpidx \in 0..N /\ R[pos] = "operand"
    BY <1>1, ArgumentHere
<1>3. N' = N /\ Opt' = Opt
    BY <1>1 DEF N, Opt
<1>4. /\ cpidx < pos /\ \A n \in pos..N : argv[n] = line[n]
      /\ cpidx = C(pos - 1)
      /\ \A n \in Operands(table, line, pos - 1) : argv[C(n - 1)] = line[n]
      /\ DOMAIN argv = 0..N
    BY <1>1 DEF ParseInv, KeptSoFar, ParseTypeOK
<1>5. pos' - 1 = pos /\ 1..pos = (1..(pos - 1)) \cup {pos} /\ pos \in Nat \ {0} /\ pos - 1 \in Nat
    BY <1>1, <1>2
<1>6. ParseTypeOK'
  <2>1. DOMAIN argv' = 0..N
    BY <1>1, <1>4
  <2>2. pos' \in 1..(N + 1) /\ cpidx' \in 0..N
    BY <1>1, <1>2, <1>4
  <2> QED
    BY <1>1, <1>3, <2>1, <2>2 DEF ParseInv, ParseTypeOK
<1>7. ScanIsRight'
  <2>1. \A n \in 1..pos : R[n] \notin {"end", "rest"}
    BY <1>1, <1>2, <1>5 DEF ParseInv, ScanIsRight
  <2>2. pos + 1 <= N => R[pos + 1] # "value"
    <3>1. pos + 1 <= N => pos < Len(line)
      BY <1>2
    <3> QED
      BY <1>2, <3>1, RoleNext
  <2>3. \A n \in Options(table, line, pos) : RightOption(table, line, n)
    <3>1. \A n \in Options(table, line, pos) : n \in Options(table, line, pos - 1)
      BY <1>2, <1>5 DEF Options
    <3> QED
      BY <1>1, <3>1 DEF ParseInv, ScanIsRight
  <2> QED
    BY <1>1, <1>3, <1>5, <2>1, <2>2, <2>3 DEF ScanIsRight
<1>8. KeptSoFar'
  <2>1. cpidx' < pos' /\ \A n \in (pos + 1)..N : argv'[n] = line[n]
    <3>1. ASSUME NEW n \in (pos + 1)..N PROVE argv'[n] = line[n]
      <4>1. n \in pos..N /\ n \in 0..N /\ n # cpidx
        BY <1>2, <1>4
      <4> QED
        BY <1>1, <1>4, <4>1
    <3> QED
      BY <1>1, <1>2, <1>4, <3>1
  <2>2. cpidx' = C(pos)
    BY <1>1, <1>2, <1>4, <1>5, CountNext
  <2>3. ASSUME NEW n \in Operands(table, line, pos) PROVE argv'[C(n - 1)] = line[n]
    <3>1. CASE n = pos
      BY <1>1, <1>2, <1>4, <3>1
    <3>2. CASE n \in Operands(table, line, pos - 1)
      <4>1. C(n - 1) \in Nat /\ C(n - 1) < C(pos - 1)
        BY <1>5, <3>2, CountBefore
      <4>2. C(n - 1) \in 0..N /\ C(n - 1) # cpidx
        BY <1>2, <1>4, <4>1
      <4> QED
        BY <1>1, <1>4, <3>2, <4>2
    <3> QED
      BY <1>5, <3>1, <3>2 DEF Operands
  <2> QED
    BY <1>1, <1>3, <1>5, <2>1, <2>2, <2>3 DEF KeptSoFar
<1>9. SetSoFar'
  <2>1. \A k \in Opt : Asked(table, line, pos, k) = Asked(table, line, pos - 1, k)
    BY <1>2, AskedNext
  <2> QED
    BY <1>1, <1>3, <1>5, <2>1 DEF ParseInv, SetSoFar
<1>10. BundleSoFar' /\ RunsIffRight' /\ OperandsKept' /\ SettingAsAsked'
    BY <1>1 DEF BundleSoFar, RunsIffRight, OperandsKept, SettingAsAsked
<1> QED
    BY <1>6, <1>7, <1>8, <1>9, <1>10 DEF ParseInv

\* What follows the arguments kept is moved behind them, and the command runs.
LEMMA EndInv ==
    ASSUME ParseInv, mode = "arg", NEW from \in 1..(N + 1), pos <= from,
           Operands(table, line, from - 1) = Operands(table, line, pos - 1),
           Options(table, line, N) = Options(table, line, pos - 1),
           \A n \in from..N : Roles(table, line)[n] = "rest",
           ParseOptionsEnd(from)
    PROVE  ParseInv'
<1> DEFINE C(n) == Cardinality(Operands(table, line, n))
           left == N + 1 - from
<1>1. /\ argv' = [n \in 0..N |-> IF n \in cpidx..(cpidx + left - 1)
                                 THEN argv[n - cpidx + from] ELSE argv[n]]
      /\ cpidx' = cpidx + left /\ pos' = from /\ mode' = "run"
      /\ UNCHANGED <<table, line, opt, setting, exitCode>>
    BY DEF ParseOptionsEnd
<1>2. /\ line \in CommandLine /\ pos \in 1..(N + 1) /\ N = Len(line) /\ N \in Nat /\ cpidx \in 0..N
    BY ArgumentHere
<1>3. N' = N /\ Opt' = Opt
    BY <1>1 DEF N, Opt
<1>4. /\ cpidx < pos /\ \A n \in pos..N : argv[n] = line[n]
      /\ cpidx = C(pos - 1)
      /\ \A n \in Operands(table, line, pos - 1) : argv[C(n - 1)] = line[n]
    BY DEF ParseInv, KeptSoFar
<1>5. cpidx = C(from - 1)
    BY <1>4
<1>6. ParseTypeOK'
  <2>1. DOMAIN argv' = 0..N
    BY <1>1
  <2>2. pos' \in 1..(N + 1) /\ cpidx' \in 0..N
    BY <1>1, <1>2, <1>4
  <2> QED
    BY <1>1, <1>3, <2>1, <2>2 DEF ParseInv, ParseTypeOK
<1>7. ScanIsRight' /\ KeptSoFar' /\ SetSoFar' /\ BundleSoFar'
    BY <1>1 DEF ScanIsRight, KeptSoFar, SetSoFar, BundleSoFar
<1>8. RunsIffRight'
    BY <1>1, <1>3 DEF ParseInv, ScanIsRight, RunsIffRight
<1>9. ASSUME NEW n \in Nat, from - 1 <= n, n <= N
      PROVE  C(n) = cpidx + (n - (from - 1))
  <2>1. \A x \in from..n : Roles(table, line)[x] \in {"operand", "rest"}
    BY <1>2, <1>9
  <2>2. from \in Nat \ {0}
    BY <1>2
  <2> QED
    BY <1>5, <1>9, <2>1, <2>2, CountRest
<1>10. OperandsKept'
  <2>1. cpidx' = C(N)
    <3>1. C(N) = cpidx + (N - (from - 1))
      BY <1>2, <1>9
    <3> HIDE DEF C
    <3> QED
      BY <1>1, <1>2, <3>1
  <2>2. ASSUME NEW n \in Operands(table, line, N) PROVE argv'[C(n - 1)] = line[n]
    <3>1. n \in 1..N /\ n - 1 \in Nat
      BY <1>2 DEF Operands
    <3>2. CASE n < from
      <4>1. n \in Operands(table, line, pos - 1)
        <5>1. n \in 1..(from - 1)
          BY <1>2, <3>1, <3>2
        <5> QED
          BY <5>1 DEF Operands
      <4>2. C(n - 1) \in Nat /\ C(n - 1) < C(pos - 1)
        <5>1. pos - 1 \in Nat
          BY <1>2
        <5> QED
          BY <4>1, <5>1, CountBefore
      <4>3. C(n - 1) \in 0..N /\ C(n - 1) \notin cpidx..(cpidx + left - 1)
        BY <1>2, <1>4, <4>2
      <4>4. argv[C(n - 1)] = line[n]
        BY <1>4, <4>1
      <4> HIDE DEF C
      <4> QED
        BY <1>1, <4>3, <4>4
    <3>3. CASE n >= from
      <4>1. C(n - 1) = cpidx + (n - from)
        <5>1. C(n - 1) = cpidx + ((n - 1) - (from - 1))
          BY <1>2, <1>9, <3>1, <3>3
        <5> HIDE DEF C
        <5> QED
          BY <1>2, <3>1, <5>1
      <4> DEFINE s == cpidx + (n - from)
      <4>2. s \in 0..N /\ s \in cpidx..(cpidx + left - 1) /\ s - cpidx + from = n
        BY <1>2, <1>4, <3>1, <3>3
      <4>3. n \in pos..N
        BY <1>2, <3>1, <3>3
      <4> HIDE DEF s, left
      <4>4. argv'[s] = argv[n]
        BY <1>1, <4>2
      <4> QED
        BY <1>4, <4>1, <4>3, <4>4 DEF s
    <3>4. n < from \/ n >= from
      BY <1>2, <3>1
    <3> QED
      BY <3>2, <3>3, <3>4
  <2> QED
    BY <1>1, <1>3, <2>1, <2>2 DEF OperandsKept
<1>11. SettingAsAsked'
  <2>1. ASSUME NEW k PROVE Asked(table, line, N, k) = Asked(table, line, pos - 1, k)
    <3>1. MentionedAt(table, line, N, k) = MentionedAt(table, line, pos - 1, k)
      BY DEF MentionedAt
    <3> QED
      BY <3>1 DEF Asked
  <2> QED
    BY <1>1, <1>3, <2>1 DEF ParseInv, SetSoFar, SettingAsAsked
<1> QED
    BY <1>6, <1>7, <1>8, <1>10, <1>11 DEF ParseInv

\* "--".
LEMMA DashDashInv ==
    ASSUME ParseInv, DashDash
    PROVE  ParseInv'
<1> DEFINE R == Roles(table, line)
           from == pos + 1
<1>1. /\ mode = "arg" /\ pos <= N /\ argv[pos].dash = 2 /\ argv[pos].text = <<>>
      /\ ParseOptionsEnd(from)
    BY DEF DashDash, AtArg
<1>2. /\ line \in CommandLine /\ pos \in 1..N /\ N = Len(line) /\ N \in Nat /\ R[pos] = "end"
    BY <1>1, ArgumentHere
<1>3. \A n \in from..N : R[n] = "rest"
    BY <1>2, RestRoles
<1>4. from \in 1..(N + 1) /\ pos <= from /\ from - 1 = pos
    BY <1>2
<1>5. 1..pos = (1..(pos - 1)) \cup {pos} /\ 1..N = (1..(pos - 1)) \cup {pos} \cup (from..N)
    BY <1>2
<1> HIDE DEF from
<1>6. Operands(table, line, from - 1) = Operands(table, line, pos - 1)
    BY <1>2, <1>4, <1>5 DEF Operands
<1>7. Options(table, line, N) = Options(table, line, pos - 1)
    BY <1>2, <1>3, <1>5 DEF Options
<1> QED
    BY <1>1, <1>3, <1>4, <1>6, <1>7, EndInv

\* The end of the command line.
LEMMA EndOfLineInv ==
    ASSUME ParseInv, EndOfLine
    PROVE  ParseInv'
<1>1. mode = "arg" /\ pos > N /\ ParseOptionsEnd(pos)
    BY DEF EndOfLine
<1>2. pos \in 1..(N + 1) /\ N \in Nat
    BY <1>1, ArgumentHere
<1>3. pos - 1 = N /\ pos <= pos /\ \A n \in pos..N : FALSE
    BY <1>1, <1>2
<1> QED
  <2>1. PICK from \in 1..(N + 1) : from = pos
    BY <1>2
  <2> QED
    BY <1>1, <1>3, <2>1, EndInv

\* Where the parser starts.
LEMMA StartInv ==
    ASSUME ParseOptionsStart
    PROVE  ParseInv
<1>1. /\ table \in Table /\ line \in CommandLine
      /\ argv = [n \in 0..Len(line) |-> IF n = 0 THEN Command ELSE line[n]]
      /\ pos = 1 /\ cpidx = 0 /\ setting = [k \in DOMAIN table |-> Untouched]
      /\ mode = "arg" /\ exitCode = 0
    BY DEF ParseOptionsStart
<1>2. N = Len(line) /\ N \in Nat /\ pos - 1 = 0 /\ 1..(pos - 1) = {}
    BY <1>1, LineIs DEF N
<1>3. /\ Operands(table, line, pos - 1) = {} /\ Options(table, line, pos - 1) = {}
    BY <1>2 DEF Operands, Options
<1>4. ParseTypeOK
    BY <1>1, <1>2 DEF ParseTypeOK, Opt
<1>5. ScanIsRight
  <2>1. ASSUME 1 <= N PROVE Roles(table, line)[1] # "value"
    <3>1. 1 \in 1..Len(line) /\ 1 - 1 = 0
      BY <1>2, <2>1
    <3>2. Roles(table, line)[1] = RoleAfter(table, line, 1, "command")
      BY <1>1, <3>1, RolesAre
    <3> QED
      BY <3>2 DEF RoleAfter
  <2> QED
    BY <1>1, <1>2, <1>3, <2>1 DEF ScanIsRight
<1>6. KeptSoFar
  <2>1. \A n \in 1..N : argv[n] = line[n]
    BY <1>1, <1>2
  <2>2. Cardinality(Operands(table, line, pos - 1)) = 0
    BY <1>3, FS_EmptySet
  <2> QED
    BY <1>1, <1>3, <2>1, <2>2 DEF KeptSoFar
<1>7. SetSoFar
  <2>1. \A k : MentionedAt(table, line, pos - 1, k) = {}
    BY <1>3 DEF MentionedAt
  <2>2. \A k : Asked(table, line, pos - 1, k) = Untouched
    BY <2>1 DEF Asked
  <2> QED
    BY <1>1, <2>2 DEF SetSoFar, Opt
<1>8. BundleSoFar /\ RunsIffRight /\ OperandsKept /\ SettingAsAsked
    BY <1>1 DEF BundleSoFar, RunsIffRight, OperandsKept, SettingAsAsked
<1> QED
    BY <1>4, <1>5, <1>6, <1>7, <1>8 DEF ParseInv

\* A step that changes nothing.
LEMMA ParseStutters ==
    ASSUME ParseInv, UNCHANGED parseVars
    PROVE  ParseInv'
<1>1. /\ table' = table /\ line' = line /\ argv' = argv /\ pos' = pos /\ cpidx' = cpidx
      /\ opt' = opt /\ setting' = setting /\ mode' = mode /\ exitCode' = exitCode
      /\ N' = N /\ Opt' = Opt
    BY DEF parseVars, N, Opt
<1>2. ParseTypeOK' /\ ScanIsRight' /\ KeptSoFar' /\ SetSoFar'
    BY <1>1 DEF ParseInv, ParseTypeOK, ScanIsRight, KeptSoFar, SetSoFar
<1>3. RunsIffRight' /\ OperandsKept' /\ SettingAsAsked'
    BY <1>1 DEF ParseInv, RunsIffRight, OperandsKept, SettingAsAsked
<1>4. \A i : AtPiece(i)' <=> AtPiece(i)
    BY <1>1 DEF AtPiece
<1>5. BundleSoFar'
    BY <1>1, <1>4 DEF ParseInv, BundleSoFar
<1> QED
    BY <1>2, <1>3, <1>5 DEF ParseInv

\* Every state of parse_options() is one the meaning of the command line allows.
LEMMA ParseInvHolds == ParseSpec => []ParseInv
<1>1. ParseOptionsStart => ParseInv
    BY StartInv
<1>2. ParseInv /\ [ParseStep]_parseVars => ParseInv'
    BY PrintInv, LongInv, BundleInv, ShortInv, OperandInv, DashDashInv, EndOfLineInv,
       ParseStutters DEF ParseStep
<1> QED
    BY <1>1, <1>2, PTL DEF ParseSpec

\* parse_options() returns for exactly the command lines that are right: for
\* every table whose names differ and every command line, whatever the names
\* have in common and in whatever order the table holds them.
THEOREM RunsIffRightHolds == ParseSpec => []RunsIffRight
<1>1. ParseInv => RunsIffRight
    BY DEF ParseInv
<1> QED
    BY <1>1, ParseInvHolds, PTL

\* The arguments left in argv are the operands, all of them and in order,
\* although parse_options() overwrites argv while it reads it.
THEOREM OperandsKeptHolds == ParseSpec => []OperandsKept
<1>1. ParseInv => OperandsKept
    BY DEF ParseInv
<1> QED
    BY <1>1, ParseInvHolds, PTL

\* The variables of the command hold what the last mentions of their options
\* say.
THEOREM SettingAsAskedHolds == ParseSpec => []SettingAsAsked
<1>1. ParseInv => SettingAsAsked
    BY DEF ParseInv
<1> QED
    BY <1>1, ParseInvHolds, PTL
=============================================================================
