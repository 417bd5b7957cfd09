-------------------------- MODULE UserDefault_proof --------------------------
(***************************************************************************)
(* Proofs about UserDefault, for any devices and wqs, any order of them    *)
(* and any number of steps of other processes.                             *)
(***************************************************************************)
EXTENDS UserDefault, TLAPS

(* Facts about the operators *)

\* A wq has its driver while it is enabled or locked.
LEMMA WqBound ==
    ASSUME NEW w \in Wq
    PROVE  /\ Bound(w) <=> wqState[w] \in {"enabled", "locked"}
           /\ Bound(w)' <=> wqState'[w] \in {"enabled", "locked"}
BY DriverAssumption DEF Bound

\* The wqs of the list of a device are wqs of that device.
LEMMA Lists ==
    /\ Len(DevSeq) \in Nat /\ DOMAIN DevSeq = 1..Len(DevSeq)
    /\ \A j \in DOMAIN DevSeq : DevSeq[j] \in Device
    /\ \A d \in Device : /\ Len(WqSeq[d]) \in Nat
                         /\ DOMAIN WqSeq[d] = 1..Len(WqSeq[d])
                         /\ \A i \in DOMAIN WqSeq[d] : WqSeq[d][i] \in Wq
                                                       /\ DevOf[WqSeq[d][i]] = d
<1>1. /\ DevSeq \in Seq(Device) /\ WqSeq \in [Device -> Seq(Wq)]
      /\ \A d \in Device : \A i \in DOMAIN WqSeq[d] : DevOf[WqSeq[d][i]] = d
    BY UserDefaultAssumption
<1>2. \A d \in Device : WqSeq[d] \in Seq(Wq)
    BY <1>1
<1> QED
    BY <1>1, <1>2

\* The current device and the current wq.
LEMMA Current ==
    ASSUME ToolTypeOK
    PROVE  /\ di <= Len(DevSeq) => /\ di \in DOMAIN DevSeq /\ dev \in Device
                                   /\ Len(WqSeq[dev]) \in Nat
                                   /\ DOMAIN WqSeq[dev] = 1..Len(WqSeq[dev])
                                   /\ \A i \in DOMAIN WqSeq[dev] : WqSeq[dev][i] \in Wq
           /\ di <= Len(DevSeq) /\ wi <= Len(WqSeq[dev])
                => wi \in DOMAIN WqSeq[dev] /\ wq \in Wq /\ DevOf[wq] = dev
<1>1. di \in 1..(Len(DevSeq) + 1) /\ wi \in Nat \ {0} /\ Len(DevSeq) \in Nat
    BY Lists DEF ToolTypeOK
<1>2. di <= Len(DevSeq) => di \in DOMAIN DevSeq /\ dev \in Device
    BY <1>1, Lists DEF dev
<1>3. di <= Len(DevSeq) => /\ Len(WqSeq[dev]) \in Nat
                           /\ DOMAIN WqSeq[dev] = 1..Len(WqSeq[dev])
                           /\ \A i \in DOMAIN WqSeq[dev] : WqSeq[dev][i] \in Wq
                                                         /\ DevOf[WqSeq[dev][i]] = dev
    BY <1>2, Lists
<1>4. di <= Len(DevSeq) /\ wi <= Len(WqSeq[dev])
        => wi \in DOMAIN WqSeq[dev] /\ wq \in Wq /\ DevOf[wq] = dev
    BY <1>1, <1>3 DEF wq
<1> QED
    BY <1>2, <1>3, <1>4

-----------------------------------------------------------------------------
(* Steps that leave the tool where it is: of the library, of other processes *)
(* and of the environment                                                    *)

\* What such a step may do.  In a run with -d nothing but another process
\* gives a driver to a wq.
Interferes ==
    /\ UNCHANGED <<toolVars, engines, failed, own, call>>
    /\ touched \subseteq touched' /\ touched' \subseteq Object
    /\ others' \in 0..MaxOther
    /\ DriverTypeOK'
    /\ attrs' \in [Wq -> SUBSET AttrSet]
    /\ \A w \in Wq : attrs'[w] = attrs[w] \/ w \in touched'
    /\ run = "disable" =>
         \A w \in Wq : /\ Bound(w)' => Bound(w) \/ w \in touched'
                       /\ wqState[w] = "disabled"
                            => wqState'[w] = "disabled" \/ w \in touched'

LEMMA InterferesKeeps ==
    ASSUME IInv, Interferes
    PROVE  /\ ToolTypeOK' /\ Branches' /\ Swept' /\ NoneInUse' /\ AttrsWritten'
           /\ EnabledAsConfigured'
<1>1. /\ UNCHANGED <<run, pc, di, wi, ai, nonDefault, cached, configured, engines,
                     failed, own>>
      /\ dev' = dev /\ wq' = wq
    BY DEF Interferes, toolVars, placeVars, dev, wq
<1>2. ToolTypeOK /\ ToolTypeOK'
    BY <1>1 DEF IInv, ToolTypeOK, Interferes
<1>3. Branches'
    BY <1>1 DEF IInv, Branches, AtWq, AtDevice
<1>4. Swept'
  <2> SUFFICES ASSUME run = "disable", pc # "start", NEW j \in DOMAIN DevSeq,
                      NEW i \in DOMAIN WqSeq[DevSeq[j]], Behind(j, i),
                      WqSeq[DevSeq[j]][i] \in cached, Bound(WqSeq[DevSeq[j]][i])'
               PROVE  WqSeq[DevSeq[j]][i] \in failed \cup touched'
    BY <1>1 DEF Swept, Behind
  <2>1. WqSeq[DevSeq[j]][i] \in Wq
    BY Lists
  <2>2. Bound(WqSeq[DevSeq[j]][i]) => WqSeq[DevSeq[j]][i] \in failed \cup touched
    BY DEF IInv, Swept
  <2> QED
    BY <2>1, <2>2 DEF Interferes
<1>5. NoneInUse'
  <2> SUFFICES ASSUME pc \in {"scan", "wqoff", "devoff"}, di <= Len(DevSeq), ~nonDefault,
                      NEW i \in DOMAIN WqSeq[dev], i < wi
               PROVE  \/ wqState'[WqSeq[dev][i]] = "disabled"
                      \/ WqSeq[dev][i] \in cached \cup touched'
    BY <1>1 DEF NoneInUse
  <2>1. WqSeq[dev][i] \in Wq /\ run = "disable"
    BY <1>2, Current DEF IInv, Branches
  <2>2. wqState[WqSeq[dev][i]] = "disabled" \/ WqSeq[dev][i] \in cached \cup touched
    BY DEF IInv, NoneInUse
  <2> QED
    BY <2>1, <2>2 DEF Interferes
<1>6. AttrsWritten'
  <2>1. ASSUME pc \in {"attrs", "engines", "devon", "wqs", "wqon"},
               NEW i \in DOMAIN WqSeq[dev], pc = "attrs" => i < wi
        PROVE  attrs'[WqSeq[dev][i]] = AttrSet \/ Excused(WqSeq[dev][i])'
    <3>1. di <= Len(DevSeq)
      BY <2>1 DEF IInv, Branches, CallMatches, AtWq, AtDevice
    <3>2. WqSeq[dev][i] \in Wq
      BY <1>2, <2>1, <3>1, Current
    <3>3. attrs[WqSeq[dev][i]] = AttrSet \/ Excused(WqSeq[dev][i])
      BY <2>1 DEF IInv, AttrsWritten
    <3> QED
      BY <1>1, <3>2, <3>3 DEF Interferes, Excused
  <2>2. ASSUME AtWq("attrs")
        PROVE  (\A k \in 1..(ai - 1) : Attr[k] \in attrs'[wq]) \/ Excused(wq)'
    <3>1. wq \in Wq
      BY <1>2, <2>2, Current DEF AtWq, AtDevice
    <3>2. (\A k \in 1..(ai - 1) : Attr[k] \in attrs[wq]) \/ Excused(wq)
      BY <2>2 DEF IInv, AttrsWritten
    <3> QED
      BY <1>1, <3>1, <3>2 DEF Interferes, Excused
  <2> QED
    BY <1>1, <2>1, <2>2 DEF AttrsWritten, AtWq, AtDevice, Excused
<1>7. EnabledAsConfigured'
  <2> SUFFICES ASSUME NEW w \in own \cap Wq
               PROVE  attrs'[w] = AttrSet \/ w \in failed \cup touched'
    BY <1>1 DEF EnabledAsConfigured
  <2>1. attrs[w] = AttrSet \/ w \in failed \cup touched
    BY DEF IInv, EnabledAsConfigured
  <2> QED
    BY <2>1 DEF Interferes
<1> QED
    BY <1>2, <1>3, <1>4, <1>5, <1>6, <1>7

\* The driver's steps keep its types.
LEMMA DriverStepType ==
    ASSUME DriverTypeOK,
           \/ \E d \in Device : BindDevice(d) \/ UnbindDevice(d)
           \/ \E w \in Wq : BindWq(w) \/ UnbindWq(w)
           \/ \E w \in Wq : \/ ClientOpen(w) \/ ClientClose(w) \/ QuiesceDone(w)
                            \/ LockWq(w) \/ UnlockWq(w)
    PROVE  DriverTypeOK'
<1>1. ASSUME NEW d \in Device, BindDevice(d) \/ UnbindDevice(d) PROVE DriverTypeOK'
    BY <1>1 DEF DriverTypeOK, DeviceState, WqState, BindDevice, UnbindDevice
<1>2. ASSUME NEW w \in Wq, BindWq(w) \/ UnbindWq(w) PROVE DriverTypeOK'
    BY <1>2 DEF DriverTypeOK, DeviceState, WqState, BindWq, UnbindWq
<1>3. ASSUME NEW w \in Wq, ClientOpen(w) \/ ClientClose(w) PROVE DriverTypeOK'
    BY <1>3, DriverAssumption DEF DriverTypeOK, ClientOpen, ClientClose
<1>4. ASSUME NEW w \in Wq, QuiesceDone(w) \/ LockWq(w) \/ UnlockWq(w)
      PROVE  DriverTypeOK'
    BY <1>4 DEF DriverTypeOK, WqState, QuiesceDone, LockWq, UnlockWq
<1> QED
    BY <1>1, <1>2, <1>3, <1>4

\* Another process marks what it changes as touched.
LEMMA OtherInterferes ==
    ASSUME IInv, OtherProcess
    PROVE  Interferes
<1>1. ToolTypeOK /\ DriverTypeOK /\ others' \in 0..MaxOther
  <2>1. others \in 0..MaxOther /\ MaxOther \in Nat
    BY UserDefaultAssumption DEF IInv, ToolTypeOK
  <2> QED
    BY <2>1 DEF IInv, OtherProcess
<1>2. UNCHANGED <<toolVars, engines, failed, own, call>>
    BY DEF OtherProcess, ctlVars
<1>3. ASSUME NEW d \in Device, BindDevice(d) \/ UnbindDevice(d),
             touched' = touched \cup {d} \cup WqsOf(d), UNCHANGED attrs
      PROVE  Interferes
  <2>1. DriverTypeOK'
    BY <1>1, <1>3, DriverStepType
  <2>2. touched \subseteq touched' /\ touched' \subseteq Object
    BY <1>1, <1>3 DEF ToolTypeOK, Object, WqsOf
  <2>3. ASSUME NEW w \in Wq
        PROVE  /\ Bound(w)' => Bound(w) \/ w \in touched'
               /\ wqState[w] = "disabled" => wqState'[w] = "disabled" \/ w \in touched'
    BY <1>1, <1>3, WqBound DEF DriverTypeOK, BindDevice, UnbindDevice
  <2> QED
    BY <1>1, <1>2, <1>3, <2>1, <2>2, <2>3 DEF Interferes, ToolTypeOK
<1>4. ASSUME NEW v \in Wq, BindWq(v) \/ UnbindWq(v),
             touched' = touched \cup {v}, UNCHANGED attrs
      PROVE  Interferes
  <2>1. DriverTypeOK'
    BY <1>1, <1>4, DriverStepType
  <2>2. touched \subseteq touched' /\ touched' \subseteq Object
    BY <1>1, <1>4 DEF ToolTypeOK, Object
  <2>3. ASSUME NEW w \in Wq
        PROVE  /\ Bound(w)' => Bound(w) \/ w \in touched'
               /\ wqState[w] = "disabled" => wqState'[w] = "disabled" \/ w \in touched'
    BY <1>1, <1>4, WqBound DEF DriverTypeOK, BindWq, UnbindWq
  <2> QED
    BY <1>1, <1>2, <1>4, <2>1, <2>2, <2>3 DEF Interferes, ToolTypeOK
<1>5. ASSUME NEW v \in Wq,
             attrs' \in {[attrs EXCEPT ![v] = {}], [attrs EXCEPT ![v] = {"name"}]},
             touched' = touched \cup {v}, UNCHANGED driverVars
      PROVE  Interferes
  <2>1. DriverTypeOK' /\ wqState' = wqState
    BY <1>1, <1>5 DEF DriverTypeOK, driverVars
  <2>2. touched \subseteq touched' /\ touched' \subseteq Object
    BY <1>1, <1>5 DEF ToolTypeOK, Object
  <2>3. /\ attrs' \in [Wq -> SUBSET AttrSet]
        /\ \A w \in Wq : attrs'[w] = attrs[w] \/ w \in touched'
    BY <1>1, <1>5 DEF ToolTypeOK, AttrSet
  <2>4. ASSUME NEW w \in Wq PROVE Bound(w)' => Bound(w)
    BY <2>1, WqBound
  <2> QED
    BY <1>1, <1>2, <2>1, <2>2, <2>3, <2>4 DEF Interferes
<1> QED
    BY <1>3, <1>4, <1>5 DEF OtherProcess

LEMMA EnvironmentInterferes ==
    ASSUME IInv, Environment,
           UNCHANGED <<attrs, engines, toolVars, touched, failed, own, others>>
    PROVE  Interferes
<1>1. PICK v \in Wq : \/ ClientOpen(v) \/ ClientClose(v) \/ QuiesceDone(v)
                      \/ LockWq(v) \/ UnlockWq(v)
    BY DEF Environment
<1>2. ToolTypeOK /\ DriverTypeOK /\ call' = call
    BY DEF IInv, Environment
<1>3. DriverTypeOK'
    BY <1>1, <1>2, DriverStepType
<1>4. ASSUME NEW w \in Wq
      PROVE  /\ Bound(w)' => Bound(w)
             /\ wqState[w] = "disabled" => wqState'[w] = "disabled"
    BY <1>1, <1>2, WqBound DEF DriverTypeOK, ClientOpen, ClientClose, QuiesceDone,
                               LockWq, UnlockWq
<1> QED
    BY <1>2, <1>3, <1>4 DEF Interferes, ToolTypeOK

\* The library's writes in a run with -d are to unbind files.
LEMMA ControlInterferes ==
    ASSUME IInv, Control, UNCHANGED others
    PROVE  Interferes
<1>1. UNCHANGED <<attrs, engines, toolVars, touched, failed, own, call>>
    BY DEF Control, LocalControlStep, ResolveUnbindPath, ReadClients, ReadClientsFails,
           WriteRefused, VerifyWq, VerifyWqFails, WriteTakesEffect, GoTo, Return
<1>2. ToolTypeOK /\ DriverTypeOK
    BY DEF IInv
<1>3. CASE LocalControlStep(Tool)
  <2>1. driverVars' = driverVars
    BY <1>3 DEF LocalControlStep, ResolveUnbindPath, ReadClients, ReadClientsFails,
                WriteRefused, VerifyWq, VerifyWqFails
  <2>2. DriverTypeOK' /\ wqState' = wqState
    BY <1>2, <2>1 DEF DriverTypeOK, driverVars
  <2>3. \A w \in Wq : Bound(w)' => Bound(w)
    BY <2>2, WqBound
  <2> QED
    BY <1>1, <1>2, <2>2, <2>3 DEF Interferes, ToolTypeOK
<1>4. CASE WriteTakesEffect(Tool)
  <2>1. step[Tool] = "write" /\ Drive(call[Tool].flag, call[Tool].obj)
    BY <1>4 DEF WriteTakesEffect
  <2>2. DriverTypeOK'
    BY <1>2, <2>1, DriverStepType DEF Drive
  <2>3. ASSUME run = "disable"
        PROVE  \A w \in Wq : \/ wqState'[w] = wqState[w]
                             \/ wqState'[w] = "disabled"
                             \/ wqState'[w] = "quiescing" /\ wqState[w] # "disabled"
    <3>1. pc \in {"wqoff", "devoff"}
      <4>1. pc \in InCall
        BY <2>1 DEF IInv, CallMatches
      <4> QED
        BY <2>3, <4>1 DEF IInv, CallMatches, Branches, InCall
    <3>2. call[Tool].flag = "disable"
      BY <3>1 DEF IInv, CallMatches
    <3>3. CASE \E d \in Device : UnbindDevice(d)
      BY <1>2, <3>3 DEF DriverTypeOK, UnbindDevice
    <3>4. CASE \E v \in Wq : UnbindWq(v)
      BY <1>2, <3>4 DEF DriverTypeOK, UnbindWq
    <3> QED
      BY <2>1, <3>2, <3>3, <3>4 DEF Drive
  <2>4. ASSUME run = "disable", NEW w \in Wq
        PROVE  /\ Bound(w)' => Bound(w)
               /\ wqState[w] = "disabled" => wqState'[w] = "disabled"
    BY <2>3, <2>4, WqBound
  <2> QED
    BY <1>1, <1>2, <2>2, <2>4 DEF Interferes, ToolTypeOK
<1> QED
    BY <1>3, <1>4 DEF Control

\* The library returns 0 for a wq only after the wq was disabled.
LEMMA ControlCall ==
    ASSUME IInv, Control, UNCHANGED others
    PROVE  /\ DOMAIN call' = Process /\ DOMAIN step' = Process /\ DOMAIN ret' = Process
           /\ CallMatches' /\ GoneBeforeSuccess'
<1>0. Tool \in Process /\ DOMAIN step = Process /\ DOMAIN ret = Process
      /\ DOMAIN call = Process
    BY UserDefaultAssumption DEF IInv
<1>1. /\ UNCHANGED <<pc, di, wi, touched, call, cached>>
      /\ dev' = dev /\ wq' = wq
    BY DEF Control, LocalControlStep, ResolveUnbindPath, ReadClients, ReadClientsFails,
           WriteRefused, VerifyWq, VerifyWqFails, WriteTakesEffect, GoTo, Return,
           toolVars, placeVars, dev, wq
<1>2. /\ DOMAIN step' = Process /\ DOMAIN ret' = Process
      /\ step[Tool] # "idle"
  <2>1. CASE ResolveUnbindPath(Tool)
    BY <1>0, <2>1 DEF ResolveUnbindPath, GoTo, Return
  <2>2. CASE ReadClients(Tool) \/ ReadClientsFails(Tool)
    BY <1>0, <2>2 DEF ReadClients, ReadClientsFails, GoTo, Return
  <2>3. CASE WriteRefused(Tool) \/ VerifyWqFails(Tool)
    BY <1>0, <2>3 DEF WriteRefused, VerifyWqFails, Return
  <2>4. CASE VerifyWq(Tool)
    BY <1>0, <2>4 DEF VerifyWq, Return
  <2>5. CASE WriteTakesEffect(Tool)
    BY <1>0, <2>5 DEF WriteTakesEffect, GoTo, Return
  <2> QED
    BY <2>1, <2>2, <2>3, <2>4, <2>5 DEF Control, LocalControlStep
<1>3. pc \in InCall
    BY <1>2 DEF IInv, CallMatches
<1>4. CallMatches'
    BY <1>1, <1>3 DEF IInv, CallMatches, AtWq, AtDevice
<1>5. GoneBeforeSuccess'
  <2> SUFFICES ASSUME pc = "wqoff", NEW v \in Wq, v = wq,
                      step'[Tool] = "verify" \/ (step'[Tool] = "ret" /\ ret'[Tool] = 0)
               PROVE  ~Bound(v)' \/ v \in touched
    <3>1. pc = "wqoff" => wq \in Wq
      BY Current DEF IInv, CallMatches, AtWq, AtDevice
    <3> QED
      BY <1>1, <3>1 DEF GoneBeforeSuccess, Bound
  <2>1. /\ call[Tool].obj = v /\ call[Tool].flag = "disable"
        /\ v \notin Device
    BY DriverAssumption DEF IInv, CallMatches
  <2>2. DriverTypeOK
    BY DEF IInv
  <2>3. CASE ResolveUnbindPath(Tool)
    BY <1>0, <2>3 DEF ResolveUnbindPath, GoTo, Return, ENOENT
  <2>4. CASE ReadClients(Tool) \/ ReadClientsFails(Tool)
    BY <1>0, <2>4 DEF ReadClients, ReadClientsFails, GoTo, Return, EPERM
  <2>5. CASE WriteRefused(Tool)
    BY <1>0, <2>5 DEF WriteRefused, Return, EIO
  <2>6. CASE VerifyWqFails(Tool)
    BY <1>0, <2>6 DEF VerifyWqFails, Return, ENXIO
  <2>7. CASE VerifyWq(Tool)
    <3>1. wqState' = wqState /\ step[Tool] = "verify"
      BY <2>7 DEF VerifyWq, driverVars
    <3>2. ~Bound(v) \/ v \in touched
      BY <3>1 DEF IInv, GoneBeforeSuccess
    <3> QED
      BY <3>1, <3>2, WqBound
  <2>8. CASE WriteTakesEffect(Tool)
    <3>1. UnbindWq(v)
      BY <2>1, <2>8 DEF WriteTakesEffect, Drive
    <3> QED
      BY <2>1, <2>2, <3>1, WqBound DEF UnbindWq, DriverTypeOK
  <2> QED
    BY <2>3, <2>4, <2>5, <2>6, <2>7, <2>8 DEF Control, LocalControlStep
<1> QED
    BY <1>0, <1>1, <1>2, <1>4, <1>5

LEMMA ControlInv ==
    ASSUME IInv, Control, UNCHANGED others
    PROVE  IInv'
<1>1. Interferes
    BY ControlInterferes
<1>2. DriverTypeOK'
    BY <1>1 DEF Interferes
<1> QED
    BY <1>1, <1>2, InterferesKeeps, ControlCall DEF IInv

\* Steps of others leave the call alone.
LEMMA InterferesInv ==
    ASSUME IInv, Interferes, UNCHANGED <<step, ret>>
    PROVE  IInv'
<1>1. /\ UNCHANGED <<run, pc, di, wi, ai, nonDefault, cached, call>>
      /\ dev' = dev /\ wq' = wq /\ DriverTypeOK'
    BY DEF Interferes, toolVars, placeVars, dev, wq
<1>2. CallMatches'
    BY <1>1 DEF IInv, CallMatches, AtWq, AtDevice
<1>3. GoneBeforeSuccess'
  <2> SUFFICES ASSUME pc = "wqoff", NEW v \in Wq, v = wq,
                      step[Tool] = "verify" \/ (step[Tool] = "ret" /\ ret[Tool] = 0)
               PROVE  ~Bound(v)' \/ v \in touched'
    <3>1. pc = "wqoff" => wq \in Wq
      BY Current DEF IInv, CallMatches, AtWq, AtDevice
    <3> QED
      BY <1>1, <3>1 DEF GoneBeforeSuccess, Bound
  <2>1. run = "disable"
    BY DEF IInv, Branches
  <2>2. ~Bound(v) \/ v \in touched
    BY DEF IInv, GoneBeforeSuccess
  <2> QED
    BY <2>1, <2>2 DEF Interferes
<1> QED
    BY <1>1, <1>2, <1>3, InterferesKeeps DEF IInv

-----------------------------------------------------------------------------
(* Steps of the command itself: they leave the driver alone *)

\* The driver's state is the same in the primed formulas.
LEMMA SameDriver ==
    ASSUME DriverTypeOK, UNCHANGED driverVars
    PROVE  /\ DriverTypeOK' /\ wqState' = wqState
           /\ \A w \in Wq : Bound(w)' <=> Bound(w)
<1>1. DriverTypeOK' /\ wqState' = wqState
    BY DEF DriverTypeOK, driverVars
<1> QED
    BY <1>1, WqBound

\* Between the calls the process is in no control function.
LEMMA OutsideCall ==
    ASSUME IInv, pc' \notin InCall,
           (pc \notin InCall /\ UNCHANGED <<call, step, ret>>) \/ Leave(Tool)
    PROVE  /\ DOMAIN call' = Process /\ DOMAIN step' = Process /\ DOMAIN ret' = Process
           /\ CallMatches' /\ GoneBeforeSuccess'
<1>0. /\ Tool \in Process /\ DOMAIN call = Process /\ DOMAIN step = Process
      /\ DOMAIN ret = Process
    BY UserDefaultAssumption DEF IInv
<1>1. DOMAIN call' = Process /\ DOMAIN step' = Process /\ DOMAIN ret' = Process
    BY <1>0 DEF Leave
<1>2. step'[Tool] = "idle"
  <2>1. CASE pc \notin InCall /\ UNCHANGED <<call, step, ret>>
    BY <2>1 DEF IInv, CallMatches
  <2>2. CASE Leave(Tool)
    BY <1>0, <2>2 DEF Leave
  <2> QED
    BY <2>1, <2>2
<1>3. CallMatches' /\ GoneBeforeSuccess'
    BY <1>2 DEF CallMatches, GoneBeforeSuccess, InCall
<1> QED
    BY <1>1, <1>3

\* A call begins.
LEMMA Entered ==
    ASSUME IInv, NEW flag, NEW x, NEW force, Enter(Tool, flag, x, force)
    PROVE  /\ DOMAIN call' = Process /\ DOMAIN step' = Process /\ DOMAIN ret' = Process
           /\ call'[Tool].obj = x /\ call'[Tool].flag = flag
           /\ flag = "disable" => step'[Tool] = "path"
<1>0. /\ Tool \in Process /\ DOMAIN call = Process /\ DOMAIN step = Process
      /\ DOMAIN ret = Process
    BY UserDefaultAssumption DEF IInv
<1> QED
    BY <1>0 DEF Enter

\* Steps of config_default_disable() that only move on.
LEMMA DisableMove ==
    ASSUME IInv, run = "disable", pc' \in {"scan", "wqoff", "devoff", "done"},
           UNCHANGED <<driverVars, attrs, engines, run, cached, configured, touched, own,
                       others>>,
           failed \subseteq failed', failed' \subseteq Object,
           di' \in 1..(Len(DevSeq) + 1), wi' \in Nat \ {0}, ai' \in 1..Len(Attr),
           nonDefault' \in BOOLEAN
    PROVE  DriverTypeOK' /\ ToolTypeOK' /\ AttrsWritten' /\ EnabledAsConfigured'
<1>1. DriverTypeOK'
    BY SameDriver DEF IInv
<1>2. ToolTypeOK'
    BY DEF IInv, ToolTypeOK
<1>3. AttrsWritten'
    BY DEF AttrsWritten, AtWq, AtDevice
<1>4. EnabledAsConfigured'
    BY DEF IInv, EnabledAsConfigured
<1> QED
    BY <1>1, <1>2, <1>3, <1>4

\* The sweep moves over the current wq at most, and only when it is off or
\* need not be.
LEMMA SweptKept ==
    ASSUME IInv, run = "disable", pc # "start",
           UNCHANGED <<driverVars, run, cached, touched>>, failed \subseteq failed',
           \A j \in DOMAIN DevSeq : \A i \in DOMAIN WqSeq[DevSeq[j]] :
               Behind(j, i)' => \/ Behind(j, i)
                                \/ /\ j = di /\ i = wi
                                   /\ wq \in cached /\ Bound(wq)
                                        => wq \in failed' \cup touched
    PROVE  Swept'
<1> SUFFICES ASSUME NEW j \in DOMAIN DevSeq, NEW i \in DOMAIN WqSeq[DevSeq[j]],
                    NEW w \in Wq, w = WqSeq[DevSeq[j]][i],
                    Behind(j, i)', w \in cached, Bound(w)'
             PROVE  w \in failed' \cup touched
  <2>1. \A j \in DOMAIN DevSeq : \A i \in DOMAIN WqSeq[DevSeq[j]] :
            WqSeq[DevSeq[j]][i] \in Wq
    BY Lists
  <2> QED
    BY <2>1 DEF Swept
<1>1. Bound(w)
    BY SameDriver DEF IInv
<1>2. CASE Behind(j, i)
    BY <1>1, <1>2 DEF IInv, Swept
<1>3. CASE ~Behind(j, i)
    BY <1>1, <1>3 DEF wq, dev
<1> QED
    BY <1>2, <1>3

\* What is known while -d goes over the devices.
LEMMA Sweeping ==
    ASSUME IInv, pc \in {"scan", "wqoff", "devoff"}
    PROVE  /\ run = "disable" /\ ai = 1
           /\ ToolTypeOK /\ DriverTypeOK
           /\ di \in 1..(Len(DevSeq) + 1) /\ wi \in Nat \ {0} /\ Len(DevSeq) \in Nat
           /\ nonDefault \in BOOLEAN /\ failed \subseteq Object
           /\ ai \in 1..Len(Attr)
<1>1. ToolTypeOK /\ DriverTypeOK /\ Branches
    BY DEF IInv
<1>2. run = "disable" /\ ai = 1
    BY <1>1 DEF Branches, AtWq, AtDevice
<1> QED
    BY <1>1, <1>2, Lists DEF ToolTypeOK

\* config_default_disable() goes on with the next wq of the device.
LEMMA NextWqInv ==
    ASSUME IInv, AtWq("scan") \/ AtWq("wqoff"),
           UNCHANGED <<driverVars, attrs, engines, run, cached, configured, touched, own,
                       others, di, ai>>,
           pc' = "scan", wi' = wi + 1,
           failed \subseteq failed', failed' \subseteq Object, nonDefault' \in BOOLEAN,
           (pc = "scan" /\ UNCHANGED <<call, step, ret>>) \/ Leave(Tool),
           wq \in cached /\ Bound(wq) => wq \in failed' \cup touched,
           nonDefault' = FALSE =>
               ~nonDefault /\ (wqState[wq] = "disabled" \/ wq \in cached \cup touched)
    PROVE  IInv'
<1>1. /\ pc \in {"scan", "wqoff"} /\ di <= Len(DevSeq) /\ wi <= Len(WqSeq[dev])
      /\ dev' = dev
    BY DEF AtWq, AtDevice, dev
<1>2. /\ run = "disable" /\ ai = 1 /\ ToolTypeOK
      /\ di \in 1..(Len(DevSeq) + 1) /\ wi \in Nat \ {0} /\ Len(DevSeq) \in Nat
      /\ ai \in 1..Len(Attr)
    BY <1>1, Sweeping
<1>3. DriverTypeOK' /\ ToolTypeOK' /\ AttrsWritten' /\ EnabledAsConfigured'
    BY <1>2, DisableMove
<1>4. /\ DOMAIN call' = Process /\ DOMAIN step' = Process /\ DOMAIN ret' = Process
      /\ CallMatches' /\ GoneBeforeSuccess'
    BY OutsideCall DEF InCall
<1>5. Branches'
    BY <1>2 DEF Branches
<1>6. Swept'
  <2>1. ASSUME NEW j \in DOMAIN DevSeq, NEW i \in DOMAIN WqSeq[DevSeq[j]], Behind(j, i)'
        PROVE  Behind(j, i) \/ (j = di /\ i = wi)
    <3>1. j \in Nat /\ i \in Nat
      BY Lists
    <3> QED
      BY <1>2, <2>1, <3>1 DEF Behind
  <2> QED
    BY <1>1, <1>2, <2>1, SweptKept
<1>7. NoneInUse'
  <2> SUFFICES ASSUME ~nonDefault', NEW i \in DOMAIN WqSeq[dev], i < wi + 1
               PROVE  \/ wqState[WqSeq[dev][i]] = "disabled"
                      \/ WqSeq[dev][i] \in cached \cup touched
    BY <1>1, SameDriver DEF IInv, NoneInUse
  <2>1. i \in Nat
    BY <1>1, <1>2, Current
  <2>2. CASE i = wi
    BY <2>2 DEF wq
  <2>3. CASE i < wi
    BY <1>1, <2>3 DEF IInv, NoneInUse
  <2> QED
    BY <1>2, <2>1, <2>2, <2>3
<1> QED
    BY <1>3, <1>4, <1>5, <1>6, <1>7 DEF IInv

\* It goes on with the next device: all wqs of this one are behind.
LEMMA NextDeviceInv ==
    ASSUME IInv, AtDevice("scan") \/ AtDevice("devoff"), wi > Len(WqSeq[dev]),
           UNCHANGED <<driverVars, attrs, engines, run, cached, configured, touched, own,
                       others>>,
           NextDevice("scan"), failed \subseteq failed', failed' \subseteq Object,
           (pc = "scan" /\ UNCHANGED <<call, step, ret>>) \/ Leave(Tool)
    PROVE  IInv'
<1>1. pc \in {"scan", "devoff"} /\ di <= Len(DevSeq)
    BY DEF AtDevice
<1>2. /\ run = "disable" /\ ai = 1 /\ ToolTypeOK
      /\ di \in 1..(Len(DevSeq) + 1) /\ wi \in Nat \ {0} /\ Len(DevSeq) \in Nat
      /\ ai \in 1..Len(Attr)
    BY <1>1, Sweeping
<1>3. /\ pc' = "scan" /\ di' = di + 1 /\ wi' = 1 /\ ai' = ai /\ nonDefault' = FALSE
      /\ di' \in 1..(Len(DevSeq) + 1) /\ wi' \in Nat \ {0}
  <2>1. pc' = "scan" /\ di' = di + 1 /\ wi' = 1 /\ ai' = ai /\ nonDefault' = FALSE
    BY DEF NextDevice
  <2>2. di' \in 1..(Len(DevSeq) + 1) /\ wi' \in Nat \ {0}
    BY <1>1, <1>2, <2>1
  <2> QED
    BY <2>1, <2>2
<1>3a. ai' \in 1..Len(Attr) /\ nonDefault' \in BOOLEAN
    BY <1>2, <1>3, Zenon
<1>4. DriverTypeOK' /\ ToolTypeOK' /\ AttrsWritten' /\ EnabledAsConfigured'
    BY <1>2, <1>3, <1>3a, DisableMove
<1>5. /\ DOMAIN call' = Process /\ DOMAIN step' = Process /\ DOMAIN ret' = Process
      /\ CallMatches' /\ GoneBeforeSuccess'
    BY <1>3, OutsideCall DEF InCall
<1>6. Branches'
    BY <1>2, <1>3 DEF Branches
<1>7. Swept'
  <2>1. ASSUME NEW j \in DOMAIN DevSeq, NEW i \in DOMAIN WqSeq[DevSeq[j]], Behind(j, i)'
        PROVE  Behind(j, i)
    <3>1. j \in Nat /\ i \in 1..Len(WqSeq[DevSeq[j]]) /\ Len(WqSeq[DevSeq[j]]) \in Nat
      BY Lists
    <3>2. j < di \/ j = di
      BY <1>2, <1>3, <2>1, <3>1 DEF Behind
    <3>3. CASE j = di
      <4>1. wi > Len(WqSeq[DevSeq[j]])
        BY <3>3 DEF dev
      <4> QED
        BY <1>2, <3>1, <3>3, <4>1 DEF Behind
    <3> QED
      BY <3>2, <3>3 DEF Behind
  <2> QED
    BY <1>1, <1>2, <2>1, SweptKept
<1>8. NoneInUse'
  <2> SUFFICES ASSUME (di <= Len(DevSeq))', NEW i \in DOMAIN WqSeq[dev]', i < 1
               PROVE  FALSE
    BY <1>3 DEF NoneInUse
  <2>1. i \in 1..Len(WqSeq[dev]') /\ Len(WqSeq[dev]') \in Nat
    <3>1. di' \in DOMAIN DevSeq
      BY <1>3, <1>2, Lists
    <3> QED
      BY <3>1, Lists DEF dev
  <2> QED
    BY <2>1
<1> QED
    BY <1>4, <1>5, <1>6, <1>7, <1>8 DEF IInv

\* It begins to disable the wq or the device it is at.
LEMMA BeginOffInv ==
    ASSUME IInv, pc = "scan", di <= Len(DevSeq), NEW x,
           Enter(Tool, "disable", x, TRUE),
           \/ pc' = "wqoff" /\ wi <= Len(WqSeq[dev]) /\ x = wq /\ wq \in cached
           \/ pc' = "devoff" /\ wi > Len(WqSeq[dev]) /\ x = dev /\ ~nonDefault,
           UNCHANGED <<driverVars, attrs, engines, run, cached, configured, touched,
                       failed, own, others, placeVars>>
    PROVE  IInv'
<1>1. /\ UNCHANGED <<run, di, wi, ai, nonDefault, cached, touched, failed, own>>
      /\ dev' = dev /\ wq' = wq /\ pc' \in {"wqoff", "devoff"}
    BY DEF placeVars, dev, wq
<1>2. /\ run = "disable" /\ ai = 1 /\ ToolTypeOK
      /\ di \in 1..(Len(DevSeq) + 1) /\ wi \in Nat \ {0} /\ Len(DevSeq) \in Nat
      /\ ai \in 1..Len(Attr) /\ nonDefault \in BOOLEAN /\ failed \subseteq Object
    BY Sweeping
<1>3. DriverTypeOK' /\ ToolTypeOK' /\ AttrsWritten' /\ EnabledAsConfigured'
    BY <1>1, <1>2, DisableMove
<1>4. /\ DOMAIN call' = Process /\ DOMAIN step' = Process /\ DOMAIN ret' = Process
      /\ call'[Tool].obj = x /\ call'[Tool].flag = "disable" /\ step'[Tool] = "path"
    BY Entered
<1>5. CallMatches'
    BY <1>1, <1>4 DEF CallMatches, AtWq, AtDevice, InCall
<1>6. GoneBeforeSuccess'
    BY <1>4 DEF GoneBeforeSuccess
<1>7. Branches'
    BY <1>1, <1>2 DEF Branches
<1>8. Swept'
  <2>1. \A j \in DOMAIN DevSeq : \A i \in DOMAIN WqSeq[DevSeq[j]] :
            Behind(j, i)' => Behind(j, i)
    BY <1>1 DEF Behind
  <2> QED
    BY <1>1, <1>2, <2>1, SweptKept
<1>9. NoneInUse'
    BY <1>1, SameDriver DEF IInv, NoneInUse
<1> QED
    BY <1>3, <1>4, <1>5, <1>6, <1>7, <1>8, <1>9 DEF IInv

LEMMA ScanWqInv ==
    ASSUME IInv, ScanWq, UNCHANGED others
    PROVE  IInv'
<1>1. /\ AtWq("scan") /\ pc = "scan" /\ di <= Len(DevSeq) /\ wi <= Len(WqSeq[dev])
      /\ UNCHANGED <<driverVars, attrs, engines, run, cached, configured, touched,
                     failed, own, others>>
    BY DEF ScanWq, AtWq, AtDevice
<1>2. ToolTypeOK /\ wq \in Wq /\ failed \subseteq Object /\ nonDefault \in BOOLEAN
    BY <1>1, Sweeping, Current
<1>3. \/ wqState[wq] = "disabled" /\ NextWq("scan") /\ UNCHANGED <<call, step, ret>>
      \/ /\ wq \in cached /\ pc' = "wqoff" /\ Enter(Tool, "disable", wq, TRUE)
         /\ UNCHANGED placeVars
      \/ /\ wq \notin cached /\ pc' = "scan" /\ wi' = wi + 1 /\ nonDefault' = TRUE
         /\ UNCHANGED <<di, ai, call, step, ret>>
    BY DEF ScanWq, Idle
<1>4. CASE wqState[wq] = "disabled" /\ NextWq("scan") /\ UNCHANGED <<call, step, ret>>
  <2>1. pc' = "scan" /\ wi' = wi + 1 /\ ai' = ai /\ UNCHANGED <<di, nonDefault>>
    BY <1>1, <1>4, Sweeping DEF NextWq
  <2>2. ~Bound(wq)
    BY <1>2, <1>4, WqBound
  <2> QED
    BY <1>1, <1>2, <1>4, <2>1, <2>2, NextWqInv
<1>5. CASE /\ wq \in cached /\ pc' = "wqoff" /\ Enter(Tool, "disable", wq, TRUE)
           /\ UNCHANGED placeVars
    BY <1>1, <1>5, BeginOffInv
<1>6. CASE /\ wq \notin cached /\ pc' = "scan" /\ wi' = wi + 1 /\ nonDefault' = TRUE
           /\ UNCHANGED <<di, ai, call, step, ret>>
    BY <1>1, <1>2, <1>6, NextWqInv
<1> QED
    BY <1>3, <1>4, <1>5, <1>6

LEMMA WqOffInv ==
    ASSUME IInv, WqOff, UNCHANGED others
    PROVE  IInv'
<1>1. /\ pc = "wqoff" /\ AtWq("wqoff") /\ wq \in cached
      /\ di <= Len(DevSeq) /\ wi <= Len(WqSeq[dev])
      /\ step[Tool] = "ret" /\ NextWq("scan") /\ Leave(Tool)
      /\ UNCHANGED <<driverVars, attrs, engines, run, cached, configured, touched,
                     own, others>>
    BY DEF WqOff, IInv, CallMatches, Branches, AtWq, AtDevice
<1>2. ToolTypeOK /\ wq \in Wq /\ failed \subseteq Object /\ nonDefault \in BOOLEAN
    BY <1>1, Sweeping, Current
<1>3. failed \subseteq failed' /\ failed' \subseteq Object
    BY <1>2 DEF WqOff, Outcome, Object
<1>4. Bound(wq) => wq \in failed' \cup touched
    BY <1>1 DEF WqOff, Outcome, IInv, GoneBeforeSuccess
<1>5. pc' = "scan" /\ wi' = wi + 1 /\ ai' = ai /\ UNCHANGED <<di, nonDefault>>
    BY <1>1, Sweeping DEF NextWq
<1> QED
    BY <1>1, <1>2, <1>3, <1>4, <1>5, NextWqInv

LEMMA ScanDeviceInv ==
    ASSUME IInv, ScanDevice, UNCHANGED others
    PROVE  IInv'
<1>1. /\ AtDevice("scan") /\ pc = "scan" /\ di <= Len(DevSeq) /\ wi > Len(WqSeq[dev])
      /\ UNCHANGED <<driverVars, attrs, engines, run, cached, configured, touched,
                     own, others>>
    BY DEF ScanDevice, AtDevice
<1>2. ToolTypeOK /\ dev \in Device /\ failed \subseteq Object
    BY <1>1, Sweeping, Current
<1>3. CASE /\ ~nonDefault /\ Begin("devoff", "disable", dev, TRUE) /\ UNCHANGED failed
    BY <1>1, <1>3, BeginOffInv DEF Begin
<1>4. CASE NextDevice("scan") /\ UNCHANGED <<ctlVars, failed>>
    BY <1>1, <1>2, <1>4, NextDeviceInv DEF ctlVars
<1>5. CASE NextDevice("scan") /\ Outcome(dev, FALSE) /\ UNCHANGED <<call, step, ret>>
  <2>1. failed \subseteq failed' /\ failed' \subseteq Object
    BY <1>2, <1>5 DEF Outcome, Object
  <2> QED
    BY <1>1, <1>5, <2>1, NextDeviceInv
<1> QED
    BY <1>3, <1>4, <1>5 DEF ScanDevice

LEMMA DevOffInv ==
    ASSUME IInv, DevOff, UNCHANGED others
    PROVE  IInv'
<1>1. /\ pc = "devoff" /\ AtDevice("devoff") /\ wi > Len(WqSeq[dev])
      /\ di <= Len(DevSeq) /\ NextDevice("scan") /\ Leave(Tool)
      /\ UNCHANGED <<driverVars, attrs, engines, run, cached, configured, touched,
                     own, others>>
    BY DEF DevOff, IInv, CallMatches, Branches, AtDevice
<1>2. ToolTypeOK /\ dev \in Device /\ failed \subseteq Object
    BY <1>1, Sweeping, Current
<1>3. failed \subseteq failed' /\ failed' \subseteq Object
    BY <1>2 DEF DevOff, Outcome, Object
<1> QED
    BY <1>1, <1>3, NextDeviceInv

-----------------------------------------------------------------------------
(* config_default_activate_devices() *)

\* What is known while the devices are configured and enabled.
LEMMA Configuring ==
    ASSUME IInv, pc \in {"config", "attrs", "engines", "devon", "wqs", "wqon"}
    PROVE  /\ run # "disable"
           /\ ToolTypeOK /\ DriverTypeOK
           /\ di \in 1..(Len(DevSeq) + 1) /\ wi \in Nat \ {0} /\ Len(DevSeq) \in Nat
           /\ failed \subseteq Object /\ own \subseteq Object
           /\ ai \in 1..Len(Attr) /\ (pc # "attrs" => ai = 1)
<1>1. ToolTypeOK /\ DriverTypeOK /\ Branches
    BY DEF IInv
<1>2. run # "disable"
    BY <1>1 DEF Branches
<1>3. pc # "attrs" => ai = 1
    BY <1>1 DEF Branches, AtWq, AtDevice
<1> QED
    BY <1>1, <1>2, <1>3, Lists DEF ToolTypeOK

\* What -d promises is no concern here.
LEMMA ConfigMove ==
    ASSUME IInv, run # "disable", UNCHANGED <<driverVars, run>>, Branches'
    PROVE  DriverTypeOK' /\ Swept' /\ NoneInUse' /\ GoneBeforeSuccess'
<1>1. DriverTypeOK'
    BY SameDriver DEF IInv
<1>2. Swept'
    BY DEF Swept
<1>3. NoneInUse' /\ GoneBeforeSuccess'
    BY DEF Branches, NoneInUse, GoneBeforeSuccess
<1> QED
    BY <1>1, <1>2, <1>3

\* Steps that write no attribute and enable no wq.
LEMMA ConfigSame ==
    ASSUME IInv, run # "disable", UNCHANGED <<driverVars, run, attrs, cached,
                                              configured, touched, others>>,
           engines' \subseteq Device, Branches',
           pc' \in {"config", "attrs", "engines", "devon", "wqs", "wqon", "done"},
           di' \in 1..(Len(DevSeq) + 1), wi' \in Nat \ {0}, ai' \in 1..Len(Attr),
           nonDefault' = nonDefault \/ nonDefault' = FALSE,
           failed \subseteq failed', failed' \subseteq Object,
           own' \subseteq Object, own' \subseteq own \cup Device
    PROVE  /\ DriverTypeOK' /\ ToolTypeOK' /\ Swept' /\ NoneInUse' /\ GoneBeforeSuccess'
           /\ EnabledAsConfigured'
<1>1. ToolTypeOK'
    BY DEF IInv, ToolTypeOK
<1>2. EnabledAsConfigured'
    BY DriverAssumption DEF IInv, EnabledAsConfigured
<1> QED
    BY <1>1, <1>2, ConfigMove

\* The next device.
LEMMA ConfigNextDevice ==
    ASSUME IInv, pc \in {"config", "devon", "wqs"}, di <= Len(DevSeq),
           NextDevice("config"),
           UNCHANGED <<driverVars, attrs, engines, run, cached, configured, touched, own,
                       others>>,
           failed \subseteq failed', failed' \subseteq Object,
           (pc # "devon" /\ UNCHANGED <<call, step, ret>>) \/ Leave(Tool)
    PROVE  IInv'
<1>1. /\ run # "disable" /\ ToolTypeOK /\ own \subseteq Object
      /\ di \in 1..(Len(DevSeq) + 1) /\ wi \in Nat \ {0} /\ Len(DevSeq) \in Nat
      /\ ai \in 1..Len(Attr) /\ ai = 1
    BY Configuring
<1>2. pc' = "config" /\ di' = di + 1 /\ wi' = 1 /\ ai' = ai /\ nonDefault' = FALSE
    BY DEF NextDevice
<1>3. di' \in 1..(Len(DevSeq) + 1) /\ wi' \in Nat \ {0}
    BY <1>1, <1>2
<1>4. Branches'
    BY <1>1, <1>2 DEF Branches
<1>5. engines' \subseteq Device
    BY <1>1 DEF ToolTypeOK
<1>6. /\ DriverTypeOK' /\ ToolTypeOK' /\ Swept' /\ NoneInUse' /\ GoneBeforeSuccess'
      /\ EnabledAsConfigured'
    BY <1>1, <1>2, <1>3, <1>4, <1>5, ConfigSame
<1>7. AttrsWritten'
    BY <1>2 DEF AttrsWritten, AtWq, AtDevice
<1>8. /\ DOMAIN call' = Process /\ DOMAIN step' = Process /\ DOMAIN ret' = Process
      /\ CallMatches'
    BY <1>2, OutsideCall DEF InCall
<1> QED
    BY <1>4, <1>6, <1>7, <1>8 DEF IInv

LEMMA ConfigDeviceInv ==
    ASSUME IInv, ConfigDevice, UNCHANGED others
    PROVE  IInv'
<1>1. /\ pc = "config" /\ di <= Len(DevSeq)
      /\ UNCHANGED <<driverVars, attrs, engines, run, cached, configured, touched, own,
                     failed, others, call, step, ret>>
    BY DEF ConfigDevice, AtDevice
<1>2. /\ run # "disable" /\ ToolTypeOK /\ own \subseteq Object /\ failed \subseteq Object
      /\ di \in 1..(Len(DevSeq) + 1) /\ wi \in Nat \ {0} /\ Len(DevSeq) \in Nat
      /\ ai \in 1..Len(Attr) /\ ai = 1
    BY <1>1, Configuring
<1>3. CASE NextDevice("config")
    BY <1>1, <1>2, <1>3, ConfigNextDevice
<1>4. CASE FirstWq("attrs")
  <2>1. pc' = "attrs" /\ wi' = 1 /\ UNCHANGED <<di, ai, nonDefault>> /\ dev' = dev
    BY <1>4 DEF FirstWq, dev
  <2>2. Branches'
    <3>1. ai' = 1 /\ di' <= Len(DevSeq) /\ run' # "disable"
      BY <1>1, <1>2, <2>1
    <3> QED
      BY <2>1, <3>1 DEF Branches
  <2>3. engines' \subseteq Device /\ wi' \in Nat \ {0}
    BY <1>1, <1>2, <2>1 DEF ToolTypeOK
  <2>4. /\ DriverTypeOK' /\ ToolTypeOK' /\ Swept' /\ NoneInUse' /\ GoneBeforeSuccess'
        /\ EnabledAsConfigured'
    BY <1>1, <1>2, <2>1, <2>2, <2>3, ConfigSame
  <2>5. AttrsWritten'
    <3>1. \A i \in DOMAIN WqSeq[dev] : ~(i < 1)
      BY <1>1, <1>2, Current
    <3>2. \A k \in 1..(ai' - 1) : FALSE
      BY <1>2, <2>1
    <3> QED
      BY <2>1, <3>1, <3>2 DEF AttrsWritten
  <2>6. /\ DOMAIN call' = Process /\ DOMAIN step' = Process /\ DOMAIN ret' = Process
        /\ CallMatches'
    BY <1>1, <2>1, OutsideCall DEF InCall
  <2> QED
    BY <2>2, <2>4, <2>5, <2>6 DEF IInv
<1> QED
    BY <1>3, <1>4 DEF ConfigDevice

LEMMA WqsDoneInv ==
    ASSUME IInv, WqsDone, UNCHANGED others
    PROVE  IInv'
<1>1. /\ pc = "wqs" /\ di <= Len(DevSeq) /\ NextDevice("config")
      /\ UNCHANGED <<driverVars, attrs, engines, run, cached, configured, touched, own,
                     failed, others, call, step, ret>>
    BY DEF WqsDone, AtDevice, ctlVars
<1>2. failed \subseteq Object
    BY <1>1, Configuring
<1> QED
    BY <1>1, <1>2, ConfigNextDevice

\* The step from one control point of the work on a device to the next: what
\* was written stays written.
LEMMA ConfigAhead ==
    ASSUME IInv, di <= Len(DevSeq),
           pc \in {"attrs", "engines", "devon", "wqs", "wqon"},
           pc' \in {"engines", "devon", "wqs", "wqon"},
           pc = "attrs" => wi > Len(WqSeq[dev]),
           UNCHANGED <<attrs, touched, di>>, failed \subseteq failed'
    PROVE  AttrsWritten'
<1>1. dev' = dev /\ ToolTypeOK
    BY DEF dev, IInv
<1>2. \A i \in DOMAIN WqSeq[dev] : pc = "attrs" => i < wi
  <2>1. /\ DOMAIN WqSeq[dev] = 1..Len(WqSeq[dev]) /\ Len(WqSeq[dev]) \in Nat
        /\ wi \in Nat
    BY <1>1, Current DEF ToolTypeOK
  <2> QED
    BY <2>1
<1>3. \A i \in DOMAIN WqSeq[dev] :
          attrs[WqSeq[dev][i]] = AttrSet \/ Excused(WqSeq[dev][i])
    BY <1>2 DEF IInv, AttrsWritten
<1>4. \A i \in DOMAIN WqSeq[dev] :
          attrs'[WqSeq[dev][i]] = AttrSet \/ Excused(WqSeq[dev][i])'
    BY <1>1, <1>3 DEF Excused
<1> QED
    BY <1>1, <1>4 DEF AttrsWritten, AtWq, AtDevice

\* An attribute is written, or the wq is marked as failed.
LEMMA AttrWritten ==
    ASSUME IInv, ConfigWq
    PROVE  /\ attrs' \in [Wq -> SUBSET AttrSet] /\ failed' \subseteq Object
           /\ failed \subseteq failed'
           /\ \A w \in Wq : attrs[w] \subseteq attrs'[w]
           /\ Attr[ai] \in attrs'[wq] \/ wq \in failed'
<1>1. ToolTypeOK /\ AtWq("attrs") /\ di <= Len(DevSeq) /\ wi <= Len(WqSeq[dev])
    BY DEF IInv, ConfigWq, AtWq, AtDevice
<1>2. wq \in Wq
    BY <1>1, Current
<1>3. Attr[ai] \in AttrSet
  <2>1. ai \in 1..3
    BY <1>1 DEF ToolTypeOK, Attr
  <2> QED
    BY <2>1 DEF Attr, AttrSet
<1>4. attrs \in [Wq -> SUBSET AttrSet] /\ failed \subseteq Object
    BY <1>1 DEF ToolTypeOK
<1>5. PICK ok \in BOOLEAN :
          /\ attrs' = IF ok THEN [attrs EXCEPT ![wq] = @ \cup {Attr[ai]}] ELSE attrs
          /\ Outcome(wq, ok)
    BY DEF ConfigWq
<1>6. CASE ok = TRUE
  <2>1. attrs' = [attrs EXCEPT ![wq] = @ \cup {Attr[ai]}] /\ failed' = failed
    BY <1>5, <1>6 DEF Outcome
  <2> QED
    BY <1>2, <1>3, <1>4, <2>1
<1>7. CASE ok = FALSE
  <2>1. attrs' = attrs /\ failed' = failed \cup {wq}
    BY <1>5, <1>7 DEF Outcome
  <2> QED
    BY <1>2, <1>4, <2>1 DEF Object
<1> QED
    BY <1>5, <1>6, <1>7

LEMMA ConfigWqInv ==
    ASSUME IInv, ConfigWq, UNCHANGED others
    PROVE  IInv'
<1>1. /\ AtWq("attrs") /\ pc = "attrs" /\ di <= Len(DevSeq) /\ wi <= Len(WqSeq[dev])
      /\ UNCHANGED <<driverVars, call, step, ret, engines, run, pc, di, nonDefault,
                     cached, configured, touched, own>>
      /\ dev' = dev
    BY DEF ConfigWq, AtWq, AtDevice, dev
<1>2. /\ run # "disable" /\ ToolTypeOK
      /\ di \in 1..(Len(DevSeq) + 1) /\ wi \in Nat \ {0} /\ Len(DevSeq) \in Nat
    BY <1>1, Configuring
<1>3. wq \in Wq /\ \A i \in DOMAIN WqSeq[dev] : WqSeq[dev][i] \in Wq
    BY <1>1, <1>2, Current
<1>4. /\ attrs' \in [Wq -> SUBSET AttrSet] /\ failed' \subseteq Object
      /\ failed \subseteq failed'
      /\ \A w \in Wq : attrs[w] \subseteq attrs'[w]
      /\ Attr[ai] \in attrs'[wq] \/ wq \in failed'
    BY AttrWritten
<1>5. ai \in 1..3 /\ Len(Attr) = 3
    BY <1>2 DEF ToolTypeOK, Attr
<1>6. \/ ai = 3 /\ ai' = 1 /\ wi' = wi + 1
      \/ ai \in 1..2 /\ ai' = ai + 1 /\ wi' = wi
    BY <1>5 DEF ConfigWq, LastAttr
<1>7. ai' \in 1..Len(Attr) /\ wi' \in Nat \ {0}
    BY <1>2, <1>5, <1>6
<1>8. ToolTypeOK'
    BY <1>1, <1>2, <1>4, <1>7 DEF ToolTypeOK
<1>9. Branches'
    BY <1>1, <1>2, <1>6 DEF IInv, Branches, AtWq, AtDevice
<1>10. \A w \in Wq : attrs[w] = AttrSet \/ Excused(w) => attrs'[w] = AttrSet \/ Excused(w)'
    BY <1>1, <1>4 DEF Excused
<1>11. EnabledAsConfigured'
    BY <1>1, <1>10 DEF IInv, EnabledAsConfigured, Excused
<1>12. \/ \A k \in 1..ai : Attr[k] \in attrs'[wq]
       \/ Excused(wq) \/ wq \in failed'
  <2>1. (\A k \in 1..(ai - 1) : Attr[k] \in attrs[wq]) \/ Excused(wq)
    BY <1>1 DEF IInv, AttrsWritten
  <2> QED
    BY <1>3, <1>4, <1>5, <2>1
<1>13. ASSUME NEW i \in DOMAIN WqSeq[dev], i < wi'
       PROVE  attrs'[WqSeq[dev][i]] = AttrSet \/ Excused(WqSeq[dev][i])'
  <2>1. i \in Nat
    BY <1>1, <1>2, Current
  <2>2. CASE i < wi
    <3>1. attrs[WqSeq[dev][i]] = AttrSet \/ Excused(WqSeq[dev][i])
      BY <1>1, <2>2 DEF IInv, AttrsWritten
    <3>2. PICK w \in Wq : w = WqSeq[dev][i]
      BY <1>3
    <3>3. attrs'[w] = AttrSet \/ Excused(w)'
      BY <1>10, <3>1, <3>2
    <3> QED
      BY <1>1, <3>2, <3>3 DEF Excused
  <2>3. CASE i = wi
    <3>1. ai = 3 /\ WqSeq[dev][i] = wq
      BY <1>2, <1>6, <1>13, <2>3 DEF wq
    <3>2. Attr[1] = "group_id" /\ Attr[2] = "name" /\ Attr[3] = "size"
      BY DEF Attr
    <3>3. \/ {"group_id", "name", "size"} \subseteq attrs'[wq]
          \/ Excused(wq) \/ wq \in failed'
      BY <1>12, <3>1, <3>2
    <3>4. attrs'[wq] \subseteq AttrSet
      BY <1>3, <1>4
    <3> QED
      BY <1>1, <1>4, <3>1, <3>3, <3>4 DEF Excused, AttrSet
  <2> QED
    BY <1>2, <1>6, <1>13, <2>1, <2>2, <2>3
<1>14. AtWq("attrs")' => (\A k \in 1..(ai' - 1) : Attr[k] \in attrs'[wq']) \/ Excused(wq)'
  <2>1. CASE ai' = 1
    BY <2>1
  <2>2. CASE ai' = ai + 1 /\ wi' = wi
    <3>1. wq' = wq
      BY <1>1, <2>2 DEF wq, dev
    <3>2. (\A k \in 1..(ai' - 1) : Attr[k] \in attrs'[wq]) \/ Excused(wq) \/ wq \in failed'
      BY <1>5, <1>12, <2>2
    <3> QED
      BY <1>1, <1>4, <3>1, <3>2 DEF Excused
  <2> QED
    BY <1>6, <2>1, <2>2
<1>15. AttrsWritten'
    BY <1>1, <1>13, <1>14 DEF AttrsWritten
<1>16. /\ DOMAIN call' = Process /\ DOMAIN step' = Process /\ DOMAIN ret' = Process
       /\ CallMatches'
    BY <1>1, OutsideCall DEF InCall
<1>17. DriverTypeOK' /\ Swept' /\ NoneInUse' /\ GoneBeforeSuccess'
    BY <1>1, <1>2, <1>9, ConfigMove
<1> QED
    BY <1>8, <1>9, <1>11, <1>15, <1>16, <1>17 DEF IInv

LEMMA ConfigEnginesInv ==
    ASSUME IInv, ConfigEngines, UNCHANGED others
    PROVE  IInv'
<1>1. /\ pc = "attrs" /\ pc' = "engines" /\ di <= Len(DevSeq) /\ wi > Len(WqSeq[dev])
      /\ UNCHANGED <<driverVars, call, step, ret, attrs, run, di, wi, ai, nonDefault,
                     cached, configured, touched, failed, own, others>>
    BY DEF ConfigEngines, AtDevice, placeVars
<1>2. /\ run # "disable" /\ ToolTypeOK /\ own \subseteq Object /\ failed \subseteq Object
      /\ di \in 1..(Len(DevSeq) + 1) /\ wi \in Nat \ {0} /\ Len(DevSeq) \in Nat
      /\ ai \in 1..Len(Attr)
    BY <1>1, Configuring
<1>3. dev \in Device /\ Len(WqSeq[dev]) \in Nat
    BY <1>1, <1>2, Current
<1>4. engines' \subseteq Device
    BY <1>2, <1>3 DEF ConfigEngines, ToolTypeOK
<1>5. Branches'
  <2>1. ai = 1
    BY <1>1, <1>2, <1>3 DEF IInv, Branches, AtWq, AtDevice
  <2> QED
    BY <1>1, <1>2, <2>1 DEF Branches
<1>6. /\ DriverTypeOK' /\ ToolTypeOK' /\ Swept' /\ NoneInUse' /\ GoneBeforeSuccess'
      /\ EnabledAsConfigured'
    BY <1>1, <1>2, <1>4, <1>5, ConfigSame
<1>7. AttrsWritten'
    BY <1>1, ConfigAhead
<1>8. /\ DOMAIN call' = Process /\ DOMAIN step' = Process /\ DOMAIN ret' = Process
      /\ CallMatches'
    BY <1>1, OutsideCall DEF InCall
<1> QED
    BY <1>5, <1>6, <1>7, <1>8 DEF IInv

\* A device or a wq begins to be enabled.
LEMMA BeginOnInv ==
    ASSUME IInv, di <= Len(DevSeq), NEW x, Enter(Tool, "enable", x, FALSE),
           \/ pc = "engines" /\ pc' = "devon" /\ x = dev
           \/ pc = "wqs" /\ pc' = "wqon" /\ x = wq /\ wi <= Len(WqSeq[dev]),
           UNCHANGED <<driverVars, attrs, engines, run, cached, configured, touched,
                       failed, own, others, placeVars>>
    PROVE  IInv'
<1>1. /\ UNCHANGED <<run, di, wi, ai, nonDefault>> /\ dev' = dev /\ wq' = wq
      /\ pc \in {"engines", "wqs"} /\ pc' \in {"devon", "wqon"}
    BY DEF placeVars, dev, wq
<1>2. /\ run # "disable" /\ ToolTypeOK /\ own \subseteq Object /\ failed \subseteq Object
      /\ di \in 1..(Len(DevSeq) + 1) /\ wi \in Nat \ {0} /\ Len(DevSeq) \in Nat
      /\ ai \in 1..Len(Attr) /\ ai = 1
    BY <1>1, Configuring
<1>3. engines' \subseteq Device
    BY <1>2 DEF ToolTypeOK
<1>4. Branches'
    BY <1>1, <1>2 DEF IInv, Branches
<1>5. /\ DriverTypeOK' /\ ToolTypeOK' /\ Swept' /\ NoneInUse' /\ GoneBeforeSuccess'
      /\ EnabledAsConfigured'
    BY <1>1, <1>2, <1>3, <1>4, ConfigSame
<1>6. AttrsWritten'
    BY <1>1, ConfigAhead
<1>7. /\ DOMAIN call' = Process /\ DOMAIN step' = Process /\ DOMAIN ret' = Process
      /\ call'[Tool].obj = x /\ call'[Tool].flag = "enable"
    BY Entered
<1>8. CallMatches'
    BY <1>1, <1>7 DEF CallMatches, AtWq, AtDevice, InCall
<1> QED
    BY <1>4, <1>5, <1>6, <1>7, <1>8 DEF IInv

LEMMA EnableDeviceInv ==
    ASSUME IInv, EnableDevice, UNCHANGED others
    PROVE  IInv'
<1>1. di <= Len(DevSeq)
    BY DEF EnableDevice, IInv, Branches
<1> QED
    BY <1>1, BeginOnInv DEF EnableDevice, Begin

LEMMA EnableWqInv ==
    ASSUME IInv, EnableWq, UNCHANGED others
    PROVE  IInv'
BY BeginOnInv DEF EnableWq, Begin, AtWq, AtDevice

LEMMA DevOnInv ==
    ASSUME IInv, DevOn, UNCHANGED others
    PROVE  IInv'
<1>1. /\ pc = "devon" /\ di <= Len(DevSeq) /\ Leave(Tool)
      /\ UNCHANGED <<driverVars, attrs, engines, run, cached, configured, touched,
                     others>>
    BY DEF DevOn, IInv, CallMatches, AtDevice
<1>2. /\ run # "disable" /\ ToolTypeOK /\ own \subseteq Object /\ failed \subseteq Object
      /\ di \in 1..(Len(DevSeq) + 1) /\ wi \in Nat \ {0} /\ Len(DevSeq) \in Nat
      /\ ai \in 1..Len(Attr) /\ ai = 1
    BY <1>1, Configuring
<1>3. dev \in Device
    BY <1>1, <1>2, Current
<1>4. failed \subseteq failed' /\ failed' \subseteq Object
    BY <1>2, <1>3 DEF DevOn, Outcome, Object
<1>5. CASE FirstWq("wqs") /\ own' = own \cup {dev}
  <2>1. /\ pc' = "wqs" /\ wi' = 1 /\ UNCHANGED <<di, ai, nonDefault>> /\ dev' = dev
        /\ wi' \in Nat \ {0}
    BY <1>5 DEF FirstWq, dev
  <2>2. own' \subseteq Object /\ own' \subseteq own \cup Device /\ engines' \subseteq Device
    BY <1>1, <1>2, <1>3, <1>5 DEF Object, ToolTypeOK
  <2>3. Branches'
    BY <1>1, <1>2, <1>5, <2>1 DEF Branches
  <2>4. /\ DriverTypeOK' /\ ToolTypeOK' /\ Swept' /\ NoneInUse' /\ GoneBeforeSuccess'
        /\ EnabledAsConfigured'
    BY <1>1, <1>2, <1>4, <2>1, <2>2, <2>3, ConfigSame
  <2>5. AttrsWritten'
    BY <1>1, <1>4, <2>1, ConfigAhead
  <2>6. /\ DOMAIN call' = Process /\ DOMAIN step' = Process /\ DOMAIN ret' = Process
        /\ CallMatches'
    BY <1>1, <2>1, OutsideCall DEF InCall
  <2> QED
    BY <2>3, <2>4, <2>5, <2>6 DEF IInv
<1>6. CASE NextDevice("config") /\ UNCHANGED own
    BY <1>1, <1>4, <1>6, ConfigNextDevice
<1> QED
    BY <1>5, <1>6 DEF DevOn

LEMMA WqOnInv ==
    ASSUME IInv, WqOn, UNCHANGED others
    PROVE  IInv'
<1>1. /\ pc = "wqon" /\ di <= Len(DevSeq) /\ wi <= Len(WqSeq[dev]) /\ Leave(Tool)
      /\ UNCHANGED <<driverVars, attrs, engines, run, cached, configured, touched,
                     others>>
      /\ dev \in own
    BY DEF WqOn, IInv, CallMatches, AtWq, AtDevice, Branches
<1>2. /\ run # "disable" /\ ToolTypeOK /\ own \subseteq Object /\ failed \subseteq Object
      /\ di \in 1..(Len(DevSeq) + 1) /\ wi \in Nat \ {0} /\ Len(DevSeq) \in Nat
      /\ ai \in 1..Len(Attr) /\ ai = 1
    BY <1>1, Configuring
<1>3. wq \in Wq /\ wi \in DOMAIN WqSeq[dev]
    BY <1>1, <1>2, Current
<1>4. failed \subseteq failed' /\ failed' \subseteq Object
    BY <1>2, <1>3 DEF WqOn, Outcome, Object
<1>5. /\ pc' = "wqs" /\ wi' = wi + 1 /\ ai' = 1 /\ UNCHANGED <<di, nonDefault>>
      /\ dev' = dev
    BY DEF WqOn, NextWq, dev
<1>6. own \subseteq own' /\ own' \subseteq own \cup {wq}
    BY DEF WqOn
<1>7. attrs[wq] = AttrSet \/ Excused(wq)
    BY <1>1, <1>3 DEF IInv, AttrsWritten, wq
<1>8. EnabledAsConfigured'
    BY <1>1, <1>4, <1>6, <1>7 DEF IInv, EnabledAsConfigured, Excused
<1>9. ToolTypeOK'
  <2>1. /\ wi' \in Nat \ {0} /\ ai' \in 1..Len(Attr)
        /\ own' \subseteq Object
    BY <1>2, <1>3, <1>5, <1>6 DEF Object
  <2> QED
    BY <1>1, <1>2, <1>4, <1>5, <2>1 DEF ToolTypeOK
<1>10. Branches'
    BY <1>1, <1>2, <1>5, <1>6 DEF Branches
<1>11. DriverTypeOK' /\ Swept' /\ NoneInUse' /\ GoneBeforeSuccess'
    BY <1>1, <1>2, <1>10, ConfigMove
<1>12. AttrsWritten'
    BY <1>1, <1>4, <1>5, ConfigAhead
<1>13. /\ DOMAIN call' = Process /\ DOMAIN step' = Process /\ DOMAIN ret' = Process
       /\ CallMatches'
    BY <1>1, <1>5, OutsideCall DEF InCall
<1> QED
    BY <1>8, <1>9, <1>10, <1>11, <1>12, <1>13 DEF IInv

-----------------------------------------------------------------------------
(* Beginning and end of the command; the invariant *)

LEMMA StartInv ==
    ASSUME IInv, Start, UNCHANGED others
    PROVE  IInv'
<1>1. /\ pc = "start" /\ di = 1 /\ wi = 1 /\ own = {} /\ touched' = {}
      /\ cached' = {w \in Wq : Named(w)}
      /\ UNCHANGED <<driverVars, call, step, ret, attrs, engines, run, di, wi, ai,
                     nonDefault, failed, own, others>>
    BY DEF Start, IInv, Branches, ctlVars, placeVars
<1>2. ToolTypeOK /\ DriverTypeOK /\ ai = 1 /\ Len(DevSeq) \in Nat
    BY <1>1, Lists DEF IInv, Branches, AtWq, AtDevice
<1>3. \/ run = "disable" /\ pc' = "scan"
      \/ run # "disable" /\ pc' \in {"config", "done"}
    BY DEF Start
<1>4. configured' \subseteq Device
    BY DEF Start
<1>5. ToolTypeOK'
    BY <1>1, <1>2, <1>3, <1>4 DEF ToolTypeOK
<1>6. DriverTypeOK'
    BY <1>1, <1>2, SameDriver
<1>7. Branches'
    BY <1>1, <1>2, <1>3 DEF Branches
<1>8. Swept'
  <2>1. ASSUME NEW j \in DOMAIN DevSeq, NEW i \in DOMAIN WqSeq[DevSeq[j]]
        PROVE  ~Behind(j, i)'
    <3>1. j \in Nat \ {0} /\ i \in Nat \ {0}
      BY Lists
    <3> QED
      BY <1>1, <3>1 DEF Behind
  <2> QED
    BY <2>1 DEF Swept
<1>9. NoneInUse'
  <2>1. ASSUME (di <= Len(DevSeq))' PROVE \A i \in DOMAIN WqSeq[dev]' : ~(i < 1)
    <3>1. di' \in DOMAIN DevSeq
      BY <1>1, <1>2, <2>1, Lists
    <3> QED
      BY <3>1, Lists DEF dev
  <2> QED
    BY <1>1, <2>1 DEF NoneInUse
<1>10. AttrsWritten'
    BY <1>3 DEF AttrsWritten, AtWq, AtDevice
<1>11. EnabledAsConfigured'
    BY <1>1 DEF EnabledAsConfigured
<1>12. /\ DOMAIN call' = Process /\ DOMAIN step' = Process /\ DOMAIN ret' = Process
       /\ CallMatches' /\ GoneBeforeSuccess'
    BY <1>1, <1>3, OutsideCall DEF InCall
<1> QED
    BY <1>5, <1>6, <1>7, <1>8, <1>9, <1>10, <1>11, <1>12 DEF IInv

LEMMA EndInv ==
    ASSUME IInv, End, UNCHANGED others
    PROVE  IInv'
<1>1. /\ pc \in {"scan", "config"} /\ pc' = "done" /\ di > Len(DevSeq)
      /\ UNCHANGED <<driverVars, call, step, ret, attrs, engines, run, di, wi, ai,
                     nonDefault, cached, configured, touched, failed, own, others>>
    BY DEF End, ctlVars, placeVars
<1>2. ToolTypeOK /\ DriverTypeOK /\ ai = 1
    BY <1>1 DEF IInv, Branches, AtWq, AtDevice
<1>3. ToolTypeOK'
    BY <1>1, <1>2 DEF ToolTypeOK
<1>4. DriverTypeOK'
    BY <1>1, <1>2, SameDriver
<1>5. Branches'
    BY <1>1, <1>2 DEF Branches
<1>6. Swept'
  <2>1. CASE run = "disable"
    <3>1. \A j \in DOMAIN DevSeq : \A i \in DOMAIN WqSeq[DevSeq[j]] :
              Behind(j, i)' => Behind(j, i)
      BY <1>1 DEF Behind
    <3> QED
      BY <1>1, <2>1, <3>1, SweptKept
  <2>2. CASE run # "disable"
    BY <1>1, <2>2 DEF Swept
  <2> QED
    BY <2>1, <2>2
<1>7. NoneInUse' /\ AttrsWritten'
    BY <1>1 DEF NoneInUse, AttrsWritten, AtWq, AtDevice
<1>8. EnabledAsConfigured'
    BY <1>1 DEF IInv, EnabledAsConfigured
<1>9. /\ DOMAIN call' = Process /\ DOMAIN step' = Process /\ DOMAIN ret' = Process
      /\ CallMatches' /\ GoneBeforeSuccess'
    BY <1>1, OutsideCall DEF InCall
<1> QED
    BY <1>3, <1>4, <1>5, <1>6, <1>7, <1>8, <1>9 DEF IInv

LEMMA InitInv ==
    ASSUME Init
    PROVE  IInv
<1>1. DriverTypeOK
    BY DriverAssumption DEF Init, DriverInit, DriverTypeOK, DeviceState, WqState
<1>2. ToolTypeOK
  <2>1. /\ di \in 1..(Len(DevSeq) + 1) /\ ai \in 1..Len(Attr)
        /\ others \in 0..MaxOther
    BY Lists, UserDefaultAssumption DEF Init, Attr
  <2>2. attrs \in [Wq -> SUBSET AttrSet]
    BY DEF Init, AttrSet
  <2>3. /\ engines = {} /\ run \in Run /\ pc = "start" /\ wi \in Nat \ {0}
        /\ cached = {} /\ configured = {} /\ touched = {} /\ failed = {} /\ own = {}
    BY DEF Init
  <2>4. nonDefault \in BOOLEAN
    BY Zenon DEF Init
  <2> QED
    BY <2>1, <2>2, <2>3, <2>4 DEF ToolTypeOK
<1>3. /\ DOMAIN call = Process /\ DOMAIN step = Process /\ DOMAIN ret = Process
      /\ step[Tool] = "idle"
    BY UserDefaultAssumption DEF Init, ControlInit
<1>4. CallMatches /\ GoneBeforeSuccess
    BY <1>3 DEF Init, CallMatches, GoneBeforeSuccess, InCall
<1>5. Branches /\ Swept /\ NoneInUse /\ AttrsWritten /\ EnabledAsConfigured
    BY DEF Init, Branches, Swept, NoneInUse, AttrsWritten, EnabledAsConfigured, AtWq,
           AtDevice
<1> QED
    BY <1>1, <1>2, <1>3, <1>4, <1>5 DEF IInv

LEMMA StutterInv ==
    ASSUME IInv, UNCHANGED vars
    PROVE  IInv'
<1>1. Interferes
  <2>1. /\ UNCHANGED <<toolVars, engines, failed, own, call>>
        /\ UNCHANGED <<driverVars, attrs, touched, others>>
    BY DEF vars, ctlVars
  <2>2. ToolTypeOK /\ DriverTypeOK
    BY DEF IInv
  <2>3. DriverTypeOK' /\ wqState' = wqState /\ \A w \in Wq : Bound(w)' <=> Bound(w)
    BY <2>1, <2>2, SameDriver
  <2> QED
    BY <2>1, <2>2, <2>3 DEF Interferes, ToolTypeOK
<1> QED
    BY <1>1, InterferesInv DEF vars, ctlVars

LEMMA NextInv ==
    ASSUME IInv, [Next]_vars
    PROVE  IInv'
<1>1. CASE Command /\ UNCHANGED others
    BY <1>1, StartInv, EndInv, ControlInv, ScanWqInv, WqOffInv, ScanDeviceInv, DevOffInv,
       ConfigDeviceInv, ConfigWqInv, ConfigEnginesInv, EnableDeviceInv, DevOnInv,
       EnableWqInv, WqOnInv, WqsDoneInv DEF Command
<1>2. CASE OtherProcess
    BY <1>2, OtherInterferes, InterferesInv DEF OtherProcess, ctlVars
<1>3. CASE Environment /\ UNCHANGED <<attrs, engines, toolVars, touched, failed, own, others>>
  <2>1. UNCHANGED <<step, ret>>
    BY <1>3 DEF Environment
  <2> QED
    BY <1>3, <2>1, EnvironmentInterferes, InterferesInv
<1>4. CASE UNCHANGED vars
    BY <1>4, StutterInv
<1> QED
    BY <1>1, <1>2, <1>3, <1>4 DEF Next

\* IInv is an inductive invariant of the specification.
LEMMA IInvAlways == Spec => []IInv
BY InitInv, NextInv, PTL DEF Spec

-----------------------------------------------------------------------------
(* The theorems *)

\* DisableComplete, for any devices and any interference: when
\* config_default_disable() has been over all devices, each wq that had the
\* default name is off, its disabling failed, or another process changed it.
THEOREM DisableLeavesNone == Spec => []DisableComplete
<1>1. IInv => DisableComplete
  <2> SUFFICES ASSUME IInv, pc = "done", run = "disable", NEW w \in cached, Bound(w)
               PROVE  w \in failed \cup touched
    BY DEF DisableComplete
  <2>1. w \in Wq /\ di > Len(DevSeq) /\ di \in Nat /\ Len(DevSeq) \in Nat
    BY Lists DEF IInv, ToolTypeOK, Branches
  <2>2. DevOf[w] \in Device
    BY <2>1, DriverAssumption
  <2>3. PICK j \in DOMAIN DevSeq : DevSeq[j] = DevOf[w]
    BY <2>2, UserDefaultAssumption
  <2>4. PICK i \in DOMAIN WqSeq[DevSeq[j]] : WqSeq[DevSeq[j]][i] = w
    BY <2>1, <2>3, UserDefaultAssumption
  <2>5. Behind(j, i)
    BY <2>1, <2>3, Lists DEF Behind
  <2> QED
    BY <2>4, <2>5 DEF IInv, Swept
<1> QED
    BY <1>1, IInvAlways, PTL

\* EnabledAsConfigured: config_default_wq() comes before accfg_wq_enable() for
\* every wq, so a wq the command enabled has all its default attributes unless
\* a write failed or another process changed it.
THEOREM EnabledHaveDefaults == Spec => []EnabledAsConfigured
<1>1. IInv => EnabledAsConfigured
    BY DEF IInv
<1> QED
    BY <1>1, IInvAlways, PTL

\* The process changes the driver's state only in a write of the library.
LEMMA OnlyWrites ==
    ASSUME IInv, [Next]_vars, ByTool, NEW w \in Wq, ~(Bound(w)' <=> Bound(w))
    PROVE  /\ pc \in InCall
           /\ Drive(call[Tool].flag, call[Tool].obj)
<1>1. ~UNCHANGED vars /\ ~OtherProcess /\ ~Environment
    BY DEF ByTool, vars, ctlVars, OtherProcess, Environment
<1>2. driverVars' # driverVars
    BY SameDriver DEF IInv
<1>3. Command
    BY <1>1 DEF Next
<1>4. Control
    BY <1>2, <1>3 DEF Command, Start, End, ScanWq, WqOff, ScanDevice, DevOff,
       ConfigDevice, ConfigWq, ConfigEngines, EnableDevice, DevOn, EnableWq, WqOn, WqsDone
<1>5. WriteTakesEffect(Tool)
    BY <1>2, <1>4 DEF Control, LocalControlStep, ResolveUnbindPath, ReadClients,
       ReadClientsFails, WriteRefused, VerifyWq, VerifyWqFails
<1> QED
    BY <1>5 DEF WriteTakesEffect, IInv, CallMatches

\* A wq goes away with its own disabling, or with its device when no wq of the
\* device was found in use.
LEMMA TakesSpared ==
    ASSUME IInv, [Next]_vars, NEW w \in Wq, Takes(w)
    PROVE  w \in cached \cup touched
<1>1. ByTool /\ Bound(w) /\ ~Bound(w)' /\ wqState[w] # "disabled"
    BY WqBound DEF Takes
<1>2. pc \in InCall /\ Drive(call[Tool].flag, call[Tool].obj) /\ DriverTypeOK
    BY <1>1, OnlyWrites DEF IInv
<1>3. CASE \E d \in Device : BindDevice(d)
    BY <1>1, <1>3, WqBound DEF BindDevice
<1>4. CASE \E v \in Wq : BindWq(v)
    BY <1>1, <1>2, <1>4, WqBound DEF BindWq, DriverTypeOK
<1>5. CASE /\ call[Tool].obj \in Wq /\ call[Tool].flag = "disable"
           /\ UnbindWq(call[Tool].obj)
  <2>1. pc = "wqoff" /\ call[Tool].obj = wq /\ wq \in cached
    <3>1. pc \in {"wqoff", "devoff"}
      BY <1>2, <1>5 DEF IInv, CallMatches, InCall
    <3>2. pc = "devoff" => call[Tool].obj \in Device
      BY Current DEF IInv, CallMatches, AtDevice
    <3> QED
      BY <1>5, <3>1, <3>2, DriverAssumption DEF IInv, CallMatches, Branches
  <2>2. w = call[Tool].obj
    BY <1>1, <1>2, <1>5, WqBound DEF UnbindWq, DriverTypeOK
  <2> QED
    BY <2>1, <2>2
<1>6. CASE /\ call[Tool].obj \in Device /\ call[Tool].flag = "disable"
           /\ UnbindDevice(call[Tool].obj)
  <2>1. /\ pc = "devoff" /\ call[Tool].obj = dev /\ di <= Len(DevSeq)
        /\ ~nonDefault /\ wi > Len(WqSeq[dev])
    <3>1. pc \in {"wqoff", "devoff"}
      BY <1>2, <1>6 DEF IInv, CallMatches, InCall
    <3>2. pc = "wqoff" => call[Tool].obj \in Wq
      BY Current DEF IInv, CallMatches, AtWq, AtDevice
    <3> QED
      BY <1>6, <3>1, <3>2, DriverAssumption DEF IInv, CallMatches, Branches, AtDevice
  <2>2. DevOf[w] = dev
    BY <1>1, <1>2, <1>6, <2>1, WqBound DEF UnbindDevice, DriverTypeOK, WqsOf
  <2>3. PICK i \in DOMAIN WqSeq[dev] : WqSeq[dev][i] = w
    BY <2>2, UserDefaultAssumption
  <2>4. i < wi
    <3>1. ToolTypeOK /\ wi \in Nat
      BY DEF IInv, ToolTypeOK
    <3>2. DOMAIN WqSeq[dev] = 1..Len(WqSeq[dev]) /\ Len(WqSeq[dev]) \in Nat
      BY <2>1, <3>1, Current
    <3> QED
      BY <2>1, <2>3, <3>1, <3>2
  <2> QED
    BY <1>1, <2>1, <2>3, <2>4 DEF IInv, NoneInUse
<1> QED
    BY <1>2, <1>3, <1>4, <1>5, <1>6 DEF Drive

\* OthersSpared: config-user-default -d, however it interleaves with other
\* processes, takes away no wq that had another name when it started and that
\* nobody changed since.
THEOREM SparesOthers == Spec => OthersSpared
<1>1. IInv /\ [Next]_vars => [\A w \in Wq : Takes(w) => w \in cached \cup touched]_vars
    BY TakesSpared
<1> QED
    BY <1>1, IInvAlways, PTL DEF Spec, OthersSpared

\* A wq gets its driver in accfg_wq_enable() of that wq.
LEMMA BringsFresh ==
    ASSUME IInv, [Next]_vars, NEW w \in Wq, Brings(w)
    PROVE  DevOf[w] \in own
<1>1. ByTool /\ ~Bound(w) /\ Bound(w)'
    BY DEF Brings
<1>2. pc \in InCall /\ Drive(call[Tool].flag, call[Tool].obj) /\ DriverTypeOK
    BY <1>1, OnlyWrites DEF IInv
<1>3. CASE \E d \in Device : BindDevice(d) \/ UnbindDevice(d)
    BY <1>1, <1>2, <1>3, WqBound DEF BindDevice, UnbindDevice, DriverTypeOK
<1>4. CASE \E v \in Wq : UnbindWq(v)
    BY <1>1, <1>2, <1>4, WqBound DEF UnbindWq, DriverTypeOK
<1>5. CASE /\ call[Tool].obj \in Wq /\ call[Tool].flag = "enable"
           /\ BindWq(call[Tool].obj)
  <2>1. /\ pc = "wqon" /\ call[Tool].obj = wq /\ dev \in own /\ DevOf[wq] = dev
    <3>1. pc \in {"wqon", "devon"}
      BY <1>2, <1>5 DEF IInv, CallMatches, InCall
    <3>2. pc = "devon" => call[Tool].obj \in Device
      BY Current DEF IInv, CallMatches, AtDevice
    <3>3. pc = "wqon" => DevOf[wq] = dev
      BY Current DEF IInv, CallMatches, AtWq, AtDevice
    <3> QED
      BY <1>5, <3>1, <3>2, <3>3, DriverAssumption DEF IInv, CallMatches, Branches
  <2>2. w = call[Tool].obj
    BY <1>1, <1>2, <1>5, WqBound DEF BindWq, DriverTypeOK
  <2> QED
    BY <2>1, <2>2
<1> QED
    BY <1>2, <1>3, <1>4, <1>5 DEF Drive

\* OnlyFreshDevices: "Don't enable WQs/engines on partially enabled devices"
\* (config.c) holds of every write of the command: a wq is enabled only after
\* this command enabled its device.
THEOREM EnablesOnFreshDevices == Spec => OnlyFreshDevices
<1>1. IInv /\ [Next]_vars => [\A w \in Wq : Brings(w) => DevOf[w] \in own]_vars
    BY BringsFresh
<1> QED
    BY <1>1, IInvAlways, PTL DEF Spec, OnlyFreshDevices
=============================================================================
