--------------------------- MODULE EnableCmd_proof ---------------------------
(***************************************************************************)
(* Proofs about EnableCmd, for any set of devices, wqs, processes and      *)
(* command lines: its invariants, and that the commands of accfg/enable.c  *)
(* implement ControlService (EnableRefinement).                            *)
(***************************************************************************)
EXTENDS EnableRefinement, FiniteSetTheorems, TLAPS

\* The list a command works on is a list of names.
LEMMA ArgsType ==
    ASSUME NEW p \in Process, cmd \in [Process -> CommandLine]
    PROVE  Args(p) \in Seq(Name)
<1>1. cmd[p].args \in Seq(Name)
    BY DEF CommandLine
<1>2. AllName \in Name
    BY DEF Name
<1>3. <<AllName>> \in Seq(Name)
    BY <1>2
<1> QED
    BY <1>1, <1>3 DEF Args

\* The initial states are well typed.
LEMMA InitType == Init => TypeOK
<1> SUFFICES ASSUME Init PROVE TypeOK
    OBVIOUS
<1>1. DriverTypeOK
    BY DriverAssumption DEF Init, DriverInit, DriverTypeOK, DeviceState, WqState
<1>2. ControlTypeOK
    BY DEF Init, ControlInit, ControlTypeOK, NoCall, CallRec, CtlFlag, CtlStep
<1>3. cmd \in [Process -> CommandLine]
    BY CommandAssumption DEF Init
<1> QED
    BY <1>1, <1>2, <1>3 DEF Init, TypeOK, NoOwner, Running, EINVAL

-----------------------------------------------------------------------------
(* Type correctness *)

\* The library's steps keep the activation records well typed.
LEMMA LocalControlType ==
    ASSUME NEW p \in Process, ControlTypeOK, LocalControlStep(p)
    PROVE  /\ ControlTypeOK'
           /\ UNCHANGED driverVars
<1> USE DEF ControlTypeOK, CtlStep, GoTo, Return, SaveLastError
<1>1. CASE ResolveUnbindPath(p)
    BY <1>1 DEF ResolveUnbindPath, ENOENT
<1>2. CASE ReadClients(p)
    BY <1>2 DEF ReadClients, EPERM
<1>3. CASE ReadClientsFails(p)
    BY <1>3 DEF ReadClientsFails, CallRec
<1>4. CASE WriteRefused(p)
    BY <1>4 DEF WriteRefused, EIO, CallRec
<1>5. CASE VerifyWq(p)
    BY <1>5 DEF VerifyWq, ENXIO
<1>6. CASE VerifyWqFails(p)
    BY <1>6 DEF VerifyWqFails, ENXIO, CallRec
<1> QED
    BY <1>1, <1>2, <1>3, <1>4, <1>5, <1>6 DEF LocalControlStep

\* A write that takes effect keeps the types of the driver and of the call.
LEMMA EffectType ==
    ASSUME NEW p \in Process, ControlTypeOK, DriverTypeOK, WriteTakesEffect(p)
    PROVE  ControlTypeOK' /\ DriverTypeOK'
<1>1. ControlTypeOK'
    BY DEF ControlTypeOK, CtlStep, GoTo, Return, WriteTakesEffect
<1>2. DriverTypeOK'
    BY DEF DriverTypeOK, DeviceState, WqState, WriteTakesEffect, Drive,
           BindDevice, UnbindDevice, BindWq, UnbindWq
<1> QED
    BY <1>1, <1>2

\* Entering a control function keeps the types of the call.
LEMMA EnterType ==
    ASSUME NEW p \in Process, ControlTypeOK,
           NEW f \in CtlFlag, NEW x \in Object, NEW b \in BOOLEAN,
           Enter(p, f, x, b), errctx' \in [Process -> Object \cup {NoObject}]
    PROVE  ControlTypeOK'
<1> DEFINE c == [flag |-> f, obj |-> x, force |-> b]
           refused == f = "enable" /\ x \in UnknownDriver
           s == IF refused THEN "ret"
                ELSE IF f = "enable" THEN "write" ELSE "path"
           e == IF refused THEN -ENOENT ELSE 0
<1>1. c \in CallRec
    BY DEF CallRec
<1>2. s \in CtlStep /\ e \in Int
    BY DEF CtlStep, ENOENT
<1>3. /\ call' = [call EXCEPT ![p] = c]
      /\ step' = [step EXCEPT ![p] = s]
      /\ ret' = [ret EXCEPT ![p] = e]
      /\ raced' = raced \ {p}
    BY DEF Enter
<1> HIDE DEF c, s, e
<1> QED
    BY <1>1, <1>2, <1>3 DEF ControlTypeOK

\* So do the steps of applications and of the driver.
LEMMA EnvironmentType ==
    ASSUME ControlTypeOK, DriverTypeOK, Environment
    PROVE  ControlTypeOK' /\ DriverTypeOK'
<1> PICK w \in Wq :
        /\ \/ /\ ClientOpen(w)
              /\ raced' = raced \cup
                   {p \in Process : /\ step[p] = "write"
                                    /\ call[p].obj \in {w, DevOf[w]}}
           \/ /\ \/ ClientClose(w)
                 \/ QuiesceDone(w)
                 \/ LockWq(w)
                 \/ UnlockWq(w)
              /\ UNCHANGED raced
        /\ UNCHANGED <<call, step, ret, errctx>>
    BY DEF Environment
<1>1. ControlTypeOK'
    BY DEF ControlTypeOK
<1>2. DriverTypeOK'
    BY DriverAssumption
       DEF DriverTypeOK, DeviceState, WqState, ClientOpen, ClientClose,
           QuiesceDone, LockWq, UnlockWq
<1> QED
    BY <1>1, <1>2

\* So does the decision whether to call the control function.
LEMMA DecideType ==
    ASSUME NEW p \in Process, TypeOK, NEW e \in Int, Decide(p, e),
           Target(p) \in Object,
           errctx' \in [Process -> Object \cup {NoObject}],
           UNCHANGED <<driverVars, cmd, exit, histVars>>
    PROVE  TypeOK'
<1>1. ControlTypeOK'
  <2>1. CASE e # 0
    BY <2>1 DEF TypeOK, ControlTypeOK, Decide
  <2>2. CASE e = 0
    <3>1. cmd[p].flag \in CtlFlag /\ cmd[p].force \in BOOLEAN
        BY DEF TypeOK, CommandLine
    <3>2. Enter(p, cmd[p].flag, Target(p), cmd[p].force)
        BY <2>2 DEF Decide
    <3>3. ControlTypeOK
        BY DEF TypeOK
    <3> QED
        BY <3>1, <3>2, <3>3, EnterType
  <2> QED
    BY <2>1, <2>2
<1>2. DriverTypeOK'
    BY DEF TypeOK, DriverTypeOK, driverVars
<1>3. /\ pc' \in [Process -> {"next", "call", "done"}]
      /\ idx' \in [Process -> Nat \ {0}]
      /\ rc' \in [Process -> Int]
      /\ counted' \in [Process -> SUBSET Nat]
    BY DEF TypeOK, Decide, Failed
<1> QED
    BY <1>1, <1>2, <1>3 DEF TypeOK, histVars

\* TypeOK is inductive: one step per action.
LEMMA NextType == TypeOK /\ [Next]_vars => TypeOK'
<1> SUFFICES ASSUME TypeOK, [Next]_vars PROVE TypeOK'
    OBVIOUS
<1>1. ASSUME NEW p \in Process, SkipName(p) PROVE TypeOK'
    BY <1>1 DEF TypeOK, DriverTypeOK, ControlTypeOK, SkipName, driverVars,
                ctlVars, histVars
<1>2. ASSUME NEW p \in Process, ActionDevice(p) PROVE TypeOK'
  <2>1. Target(p) \in Object
    BY <1>2 DEF ActionDevice, Object
  <2>2. errctx' \in [Process -> Object \cup {NoObject}]
    BY <1>2, <2>1 DEF ActionDevice, SaveLastError, TypeOK, ControlTypeOK
  <2>3. \E e \in Int : Decide(p, e)
    BY <1>2 DEF ActionDevice, DeviceCheck, EBUSY
  <2> QED
    BY <1>2, <2>1, <2>2, <2>3, DecideType DEF ActionDevice
<1>3. ASSUME NEW p \in Process, ActionWq(p) PROVE TypeOK'
  <2>1. Target(p) \in Object
    BY <1>3 DEF ActionWq, Object
  <2>2. errctx' \in [Process -> Object \cup {NoObject}]
    BY <1>3, <2>1 DEF ActionWq, SaveLastError, TypeOK, ControlTypeOK
  <2>3. \A f, st : WqCheck(f, st) \in Int
    BY DEF WqCheck, EBUSY, ENXIO
  <2>4. \E e \in Int : Decide(p, e)
    BY <1>3, <2>3 DEF ActionWq
  <2> QED
    BY <1>3, <2>1, <2>2, <2>4, DecideType DEF ActionWq
<1>4. ASSUME NEW p \in Process, ControlStep(p) PROVE TypeOK'
  <2>1. ControlTypeOK' /\ UNCHANGED driverVars
    BY <1>4, LocalControlType DEF ControlStep, TypeOK
  <2> QED
    BY <1>4, <2>1 DEF TypeOK, DriverTypeOK, ControlStep, driverVars, cmdVars,
                      histVars
<1>5. ASSUME NEW p \in Process, ControlEffect(p) PROVE TypeOK'
  <2>1. ControlTypeOK' /\ DriverTypeOK'
    BY <1>5, EffectType DEF ControlEffect, TypeOK
  <2>2. owner' \in [Object -> ((Process \cup {NoObject}) \X Nat)]
    BY <1>5 DEF TypeOK, ControlEffect
  <2>3. wrote' \in [Process -> SUBSET Nat]
    BY <1>5 DEF TypeOK, ControlEffect
  <2> QED
    BY <1>5, <2>1, <2>2, <2>3 DEF TypeOK, ControlEffect, cmdVars
<1>6. ASSUME NEW p \in Process, DeviceResult(p) \/ WqResult(p) PROVE TypeOK'
  <2>1. errctx' \in [Process -> Object \cup {NoObject}]
    <3>1. call[p] \in CallRec
        BY <1>6 DEF DeviceResult, WqResult, AtResult, TypeOK, ControlTypeOK
    <3>2. call[p].obj \in Object
        BY <3>1 DEF CallRec
    <3> QED
        BY <1>6, <3>2 DEF DeviceResult, WqResult, SaveLastError, TypeOK,
                          ControlTypeOK
  <2>2. ControlTypeOK'
    BY <1>6, <2>1 DEF DeviceResult, WqResult, Leave, TypeOK, ControlTypeOK,
                      CtlStep
  <2>3. /\ pc' \in [Process -> {"next", "call", "done"}]
        /\ idx' \in [Process -> Nat \ {0}]
        /\ rc' \in [Process -> Int]
        /\ counted' \in [Process -> SUBSET Nat]
    BY <1>6 DEF DeviceResult, WqResult, TypeOK, ControlTypeOK, Failed, Counted,
                ENXIO
  <2> QED
    BY <1>6, <2>2, <2>3 DEF TypeOK, DriverTypeOK, DeviceResult, WqResult,
                            driverVars, histVars
<1>7. ASSUME NEW p \in Process, Finish(p) PROVE TypeOK'
    BY <1>7 DEF TypeOK, DriverTypeOK, ControlTypeOK, Finish, ExitStatus, driverVars,
                ctlVars, histVars
<1>8. CASE Environment /\ UNCHANGED <<cmdVars, histVars>>
    BY <1>8, EnvironmentType DEF TypeOK, cmdVars, histVars
<1>9. CASE UNCHANGED vars
    BY <1>9 DEF TypeOK, DriverTypeOK, ControlTypeOK, vars, driverVars, ctlVars,
                cmdVars, histVars
<1> QED
    BY <1>1, <1>2, <1>3, <1>4, <1>5, <1>6, <1>7, <1>8, <1>9 DEF Next, Step

\* TypeCorrect: every variable of the model of enable.c and of the library's
\* control functions keeps its type, for any number of devices, wqs, clients,
\* processes and names on a command line.
THEOREM TypeCorrect == Spec => []TypeOK
BY InitType, NextType, PTL DEF Spec

-----------------------------------------------------------------------------
(* The inductive invariant *)

\* The command line is fixed.
LEMMA CmdFixed ==
    ASSUME [Next]_vars
    PROVE  /\ cmd' = cmd
           /\ \A q : Args(q)' = Args(q)
           /\ \A q : Found(q)' = Found(q)
<1>1. cmd' = cmd
  <2>1. ASSUME NEW p \in Process, Step(p) PROVE cmd' = cmd
    BY <2>1 DEF Step, SkipName, ActionDevice, ActionWq, ControlStep,
                ControlEffect, DeviceResult, WqResult, Finish, cmdVars
  <2> QED
    BY <2>1 DEF Next, vars, cmdVars
<1> QED
    BY <1>1 DEF Args, Found

\* What Enter() leaves behind.
LEMMA Entered ==
    ASSUME NEW p \in Process, ControlTypeOK, NEW f, NEW x, NEW b,
           Enter(p, f, x, b)
    PROVE  /\ \A q \in Process : q # p => /\ call'[q] = call[q]
                                         /\ step'[q] = step[q]
                                         /\ ret'[q] = ret[q]
           /\ call'[p].obj = x /\ call'[p].flag = f /\ call'[p].force = b
           /\ \/ f = "disable" /\ step'[p] = "path" /\ ret'[p] = 0
              \/ f = "enable" /\ step'[p] = "write" /\ ret'[p] = 0
              \/ step'[p] = "ret" /\ ret'[p] = -ENOENT
              \/ f \notin CtlFlag
           /\ raced' = raced \ {p}
<1> DEFINE c == [flag |-> f, obj |-> x, force |-> b]
           refused == f = "enable" /\ x \in UnknownDriver
           s == IF refused THEN "ret"
                ELSE IF f = "enable" THEN "write" ELSE "path"
           e == IF refused THEN -ENOENT ELSE 0
<1>1. /\ call' = [call EXCEPT ![p] = c]
      /\ step' = [step EXCEPT ![p] = s]
      /\ ret' = [ret EXCEPT ![p] = e]
      /\ raced' = raced \ {p}
    BY DEF Enter
<1>2. c.obj = x /\ c.flag = f /\ c.force = b
    OBVIOUS
<1>3. \/ f = "disable" /\ s = "path" /\ e = 0
      \/ f = "enable" /\ s = "write" /\ e = 0
      \/ s = "ret" /\ e = -ENOENT
      \/ f \notin CtlFlag
    BY DEF CtlFlag
<1> HIDE DEF c, s, e
<1> QED
    BY <1>1, <1>2, <1>3 DEF ControlTypeOK

\* CallMatches is inductive relative to TypeOK.
LEMMA CallMatchesStep ==
    ASSUME TypeOK, CallMatches, [Next]_vars
    PROVE  CallMatches'
<1> USE CmdFixed
<1>1. ASSUME NEW p \in Process, SkipName(p) PROVE CallMatches'
    BY <1>1 DEF TypeOK, CallMatches, SkipName, AtName, Target, ctlVars
<1>2. ASSUME NEW p \in Process, NEW e, Decide(p, e), AtName(p),
             Target(p) \in Found(p)
      PROVE  CallMatches'
  <2>1. CASE e # 0
    BY <1>2, <2>1 DEF TypeOK, CallMatches, Decide, Failed, AtName, Target
  <2>2. CASE e = 0
    <3>1. Enter(p, cmd[p].flag, Target(p), cmd[p].force) /\ ControlTypeOK
        BY <1>2, <2>2 DEF Decide, TypeOK
    <3>2. UNCHANGED idx /\ pc' = [pc EXCEPT ![p] = "call"]
        BY <1>2, <2>2 DEF Decide
    <3>3. cmd[p].flag \in CtlFlag
        BY DEF TypeOK, CommandLine
    <3>4. /\ call'[p].obj = Target(p)
          /\ call'[p].flag = cmd[p].flag
          /\ call'[p].force = cmd[p].force
          /\ step'[p] \in {"path", "write", "ret"}
          /\ step'[p] = "path" => call'[p].flag = "disable"
          /\ \A q \in Process : q # p => /\ call'[q] = call[q]
                                        /\ step'[q] = step[q]
        BY <3>1, <3>3, Entered
    <3>5. Target(p)' = Target(p)
        BY <3>2 DEF Target
    <3>6. ASSUME NEW q \in Process, q # p
          PROVE  /\ pc'[q] = pc[q] /\ idx'[q] = idx[q]
                 /\ Target(q)' = Target(q)
        BY <3>2, <3>6 DEF TypeOK, Target
    <3>7. pc'[p] = "call" /\ idx'[p] = idx[p]
        BY <3>2 DEF TypeOK
    <3> QED
        BY <1>2, <3>4, <3>5, <3>6, <3>7 DEF CallMatches, AtName
  <2> QED
    BY <2>1, <2>2
<1>3. ASSUME NEW p \in Process, ActionDevice(p) \/ ActionWq(p)
      PROVE  CallMatches'
    BY <1>2, <1>3 DEF ActionDevice, ActionWq, Found
<1>4. ASSUME NEW p \in Process, ControlStep(p) PROVE CallMatches'
    BY <1>4 DEF TypeOK, ControlTypeOK, CtlStep, CallMatches, ControlStep,
       LocalControlStep,
       ResolveUnbindPath, ReadClients, ReadClientsFails, WriteRefused,
       VerifyWq, VerifyWqFails, GoTo, Return, Target, cmdVars
<1>5. ASSUME NEW p \in Process, ControlEffect(p) PROVE CallMatches'
  <2>1. call[p].obj \in Device \cup Wq
    BY <1>5 DEF ControlEffect, WriteTakesEffect, Drive
  <2> QED
    BY <1>5, <2>1 DEF TypeOK, ControlTypeOK, CallMatches, ControlEffect,
       WriteTakesEffect, GoTo, Return, Target, cmdVars
<1>6. ASSUME NEW p \in Process, DeviceResult(p) \/ WqResult(p)
      PROVE  CallMatches'
  <2>1. /\ Failed(p, rc'[p]) \/ Counted(p)
        /\ Leave(p)
    BY <1>6 DEF DeviceResult, WqResult, Failed, TypeOK
  <2> QED
    BY <1>6, <2>1 DEF TypeOK, ControlTypeOK, CallMatches, Failed, Counted,
       Leave, Target
<1>7. ASSUME NEW p \in Process, Finish(p) PROVE CallMatches'
    BY <1>7 DEF TypeOK, CallMatches, Finish, Target, ctlVars
<1>8. CASE Environment /\ UNCHANGED <<cmdVars, histVars>>
    BY <1>8 DEF CallMatches, Environment, Target, cmdVars
<1>9. CASE UNCHANGED vars
    BY <1>9 DEF CallMatches, vars, ctlVars, cmdVars, Target
<1> QED
    BY <1>1, <1>3, <1>4, <1>5, <1>6, <1>7, <1>8, <1>9 DEF Next, Step

\* A step of one process leaves the private state of the others alone.
LEMMA OthersUntouched ==
    ASSUME TypeOK, NEW p \in Process, Step(p), NEW q \in Process, q # p
    PROVE  /\ pc'[q] = pc[q] /\ idx'[q] = idx[q] /\ rc'[q] = rc[q]
           /\ counted'[q] = counted[q] /\ exit'[q] = exit[q]
           /\ wrote'[q] = wrote[q]
           /\ call'[q] = call[q] /\ step'[q] = step[q] /\ ret'[q] = ret[q]
           /\ q \in raced' <=> q \in raced
<1> USE DEF TypeOK, ControlTypeOK
<1>1. CASE SkipName(p)
    BY <1>1 DEF SkipName, ctlVars, histVars
<1>2. CASE ActionDevice(p) \/ ActionWq(p)
  <2>1. PICK e : Decide(p, e)
    BY <1>2 DEF ActionDevice, ActionWq
  <2>2. CASE e # 0
    BY <1>2, <2>1, <2>2 DEF ActionDevice, ActionWq, Decide, Failed, histVars
  <2>3. CASE e = 0
    <3>1. Enter(p, cmd[p].flag, Target(p), cmd[p].force)
        BY <2>1, <2>3 DEF Decide
    <3> QED
        BY <1>2, <2>1, <2>3, <3>1, Entered
        DEF ActionDevice, ActionWq, Decide, histVars
  <2> QED
    BY <2>2, <2>3
<1>3. CASE ControlStep(p)
    BY <1>3 DEF ControlStep, LocalControlStep, ResolveUnbindPath, ReadClients,
       ReadClientsFails, WriteRefused, VerifyWq, VerifyWqFails, GoTo, Return,
       cmdVars, histVars
<1>4. CASE ControlEffect(p)
    BY <1>4 DEF ControlEffect, WriteTakesEffect, GoTo, Return, cmdVars
<1>5. CASE DeviceResult(p) \/ WqResult(p)
    BY <1>5 DEF DeviceResult, WqResult, Failed, Counted, Leave, histVars
<1>6. CASE Finish(p)
    BY <1>6 DEF Finish, ctlVars, histVars
<1> QED
    BY <1>1, <1>2, <1>3, <1>4, <1>5, <1>6 DEF Step

ProgressOf(p) ==
    /\ counted[p] \subseteq 1..(idx[p] - 1)
    /\ counted[p] \subseteq wrote[p]
    /\ ret[p] <= 0
    /\ step[p] = "verify" \/ (step[p] = "ret" /\ ret[p] = 0)
         => idx[p] \in wrote[p]

\* Progress is inductive relative to TypeOK and CallMatches.
LEMMA ProgressStep ==
    ASSUME TypeOK, CallMatches, Progress, [Next]_vars
    PROVE  Progress'
<1> USE DEF TypeOK, ControlTypeOK
<1>1. ASSUME NEW p \in Process, Step(p) PROVE ProgressOf(p)'
  <2>0. ProgressOf(p)
    BY DEF Progress, ProgressOf
  <2>1. CASE SkipName(p)
    BY <2>0, <2>1 DEF CallMatches, SkipName, AtName, ProgressOf, ctlVars,
                      histVars
  <2>2. CASE ActionDevice(p) \/ ActionWq(p)
    <3>1. PICK e : Decide(p, e)
        BY <2>2 DEF ActionDevice, ActionWq
    <3>2. CASE e # 0
      <4>1. step[p] = "idle" /\ UNCHANGED wrote
        BY <2>2 DEF ActionDevice, ActionWq, AtName, CallMatches, histVars
      <4>2. /\ idx'[p] = idx[p] + 1 /\ idx[p] \in Nat
            /\ UNCHANGED <<counted, step, ret>>
        BY <3>1, <3>2 DEF Decide, Failed
      <4> QED
        BY <2>0, <4>1, <4>2 DEF ProgressOf
    <3>3. CASE e = 0
      <4>1. Enter(p, cmd[p].flag, Target(p), cmd[p].force)
            /\ cmd[p].flag \in CtlFlag
        BY <3>1, <3>3 DEF Decide, CommandLine
      <4> QED
        BY <2>0, <2>2, <3>1, <3>3, <4>1, Entered
        DEF ActionDevice, ActionWq, Decide, ProgressOf, histVars, ENOENT
    <3> QED
        BY <3>2, <3>3
  <2>3. CASE ControlStep(p)
    BY <2>0, <2>3 DEF ControlStep, LocalControlStep, ResolveUnbindPath,
       ReadClients, ReadClientsFails, WriteRefused, VerifyWq, VerifyWqFails,
       GoTo, Return, ProgressOf, cmdVars, histVars, ENOENT, EPERM, EIO, ENXIO
  <2>4. CASE ControlEffect(p)
    BY <2>0, <2>4 DEF ControlEffect, WriteTakesEffect, GoTo, Return,
       ProgressOf, cmdVars
  <2>5. CASE DeviceResult(p) \/ WqResult(p)
    <3>1. /\ Leave(p) /\ UNCHANGED histVars
          /\ Failed(p, rc'[p]) \/ (ret[p] = 0 /\ Counted(p))
        BY <2>5 DEF DeviceResult, WqResult, Failed
    <3>2. ret[p] = 0 => idx[p] \in wrote[p]
        BY <2>0, <2>5 DEF DeviceResult, WqResult, AtResult, ProgressOf
    <3>3. step'[p] = "idle" /\ ret'[p] = ret[p] /\ wrote'[p] = wrote[p]
        BY <3>1 DEF Leave, histVars
    <3>4. idx'[p] = idx[p] + 1 /\ idx[p] \in Nat
        BY <3>1 DEF Failed, Counted
    <3>5. CASE Failed(p, rc'[p])
        BY <2>0, <3>3, <3>4, <3>5 DEF Failed, ProgressOf
    <3>6. CASE ret[p] = 0 /\ Counted(p)
      <4>1. counted'[p] = counted[p] \cup {idx[p]}
        BY <3>6 DEF Counted
      <4> QED
        BY <2>0, <3>2, <3>3, <3>4, <3>6, <4>1 DEF ProgressOf
    <3> QED
        BY <3>1, <3>5, <3>6
  <2>6. CASE Finish(p)
    BY <2>0, <2>6 DEF Finish, ProgressOf, ctlVars, histVars
  <2> QED
    BY <1>1, <2>1, <2>2, <2>3, <2>4, <2>5, <2>6 DEF Step
<1>2. ASSUME NEW p \in Process, Step(p) PROVE Progress'
    BY <1>1, <1>2, OthersUntouched DEF Progress, ProgressOf
<1>3. CASE Environment /\ UNCHANGED <<cmdVars, histVars>>
    BY <1>3 DEF Progress, Environment, cmdVars, histVars
<1>4. CASE UNCHANGED vars
    BY <1>4 DEF Progress, vars, ctlVars, cmdVars, histVars
<1> QED
    BY <1>2, <1>3, <1>4 DEF Next

\* The exit status.
LEMMA ExitStep ==
    ASSUME TypeOK, CallMatches, Progress, ExitFromRc, ExitStatusSound,
           [Next]_vars
    PROVE  ExitFromRc' /\ ExitStatusSound'
<1> DEFINE E(p) ==
       /\ exit[p] # Running => pc[p] = "done"
       /\ rc[p] >= 0 => wrote[p] # {}
       /\ rc[p] >= 0 /\ cmd[p].kind = "wq" => counted[p] # {}
       /\ exit[p] = 1 => counted[p] = {}
       /\ exit[p] = 0 => wrote[p] # {}
       /\ exit[p] = 0 /\ cmd[p].kind = "wq" => counted[p] # {}
<1> USE DEF TypeOK, ControlTypeOK
<1>0. \A p \in Process : E(p)
    BY DEF ExitFromRc, ExitStatusSound
<1>1. ASSUME NEW p \in Process, Step(p) PROVE E(p)'
  <2>0. E(p) /\ cmd'[p] = cmd[p]
    BY <1>0, CmdFixed
  <2>1. CASE SkipName(p)
    BY <2>0, <2>1 DEF SkipName, histVars
  <2>2. CASE ActionDevice(p) \/ ActionWq(p)
    <3>1. \A f, st : DeviceCheck(f, st) \in {0, -EBUSY}
        BY DEF DeviceCheck
    <3>2. \A f, st : WqCheck(f, st) \in {0, -EBUSY, -ENXIO}
        BY DEF WqCheck
    <3>3. PICK e \in {0, -EBUSY, -ENXIO} : Decide(p, e)
        BY <2>2, <3>1, <3>2 DEF ActionDevice, ActionWq
    <3>4. UNCHANGED <<exit, wrote>> /\ pc[p] = "next"
        BY <2>2 DEF ActionDevice, ActionWq, AtName, histVars
    <3>5. CASE e # 0
        BY <2>0, <3>3, <3>4, <3>5 DEF Decide, Failed, EBUSY, ENXIO, Running
    <3>6. CASE e = 0
        BY <2>0, <3>3, <3>4, <3>6 DEF Decide, Running
    <3> QED
        BY <3>5, <3>6
  <2>3. CASE ControlStep(p)
    BY <2>0, <2>3 DEF ControlStep, cmdVars, histVars
  <2>4. CASE ControlEffect(p)
    BY <2>0, <2>4 DEF ControlEffect, cmdVars
  <2>5. CASE DeviceResult(p) \/ WqResult(p)
    <3>1. ret[p] = 0 => wrote[p] # {}
        BY <2>5 DEF DeviceResult, WqResult, AtResult, Progress
    <3>2. ret[p] <= 0 /\ pc[p] = "call"
        BY <2>5 DEF DeviceResult, WqResult, AtResult, Progress
    <3>3. UNCHANGED <<exit, wrote>>
        BY <2>5 DEF DeviceResult, WqResult, histVars
    <3>4. \/ ret[p] # 0 /\ Failed(p, ret[p])
          \/ ret[p] = 0 /\ Failed(p, ENXIO) /\ cmd[p].kind = "device"
          \/ ret[p] = 0 /\ Counted(p)
        BY <2>5 DEF DeviceResult, WqResult
    <3>5. CASE ret[p] # 0 /\ Failed(p, ret[p])
        BY <2>0, <3>2, <3>3, <3>5 DEF Failed, Running
    <3>6. CASE ret[p] = 0 /\ Failed(p, ENXIO) /\ cmd[p].kind = "device"
        BY <2>0, <3>1, <3>2, <3>3, <3>6 DEF Failed, Running
    <3>7. CASE ret[p] = 0 /\ Counted(p)
        BY <2>0, <3>1, <3>2, <3>3, <3>7 DEF Counted, Running
    <3> QED
        BY <3>4, <3>5, <3>6, <3>7
  <2>6. CASE Finish(p)
    <3>1. pc'[p] = "done" /\ UNCHANGED <<rc, counted, wrote>>
        BY <2>6 DEF Finish, histVars
    <3>2. exit'[p] = IF counted[p] # {} \/ rc[p] >= 0 THEN 0 ELSE 1
        BY <2>6 DEF Finish, ExitStatus
    <3>3. counted[p] \subseteq wrote[p]
        BY DEF Progress
    <3> QED
        BY <2>0, <3>1, <3>2, <3>3
  <2> QED
    BY <1>1, <2>1, <2>2, <2>3, <2>4, <2>5, <2>6 DEF Step
<1>2. ASSUME NEW p \in Process, Step(p), NEW q \in Process PROVE E(q)'
  <2>1. CASE q = p
    BY <1>1, <1>2, <2>1
  <2>2. CASE q # p
    BY <1>0, <1>2, <2>2, OthersUntouched, CmdFixed
  <2> QED
    BY <2>1, <2>2
<1>3. ASSUME UNCHANGED <<cmdVars, histVars>>, NEW q \in Process PROVE E(q)'
    BY <1>0, <1>3 DEF cmdVars, histVars
<1>4. \A q \in Process : E(q)'
    BY <1>2, <1>3 DEF Next, vars
<1> QED
    BY <1>4 DEF ExitFromRc, ExitStatusSound

\* Only a client that opens the target can make a look at "clients" stale.
LEMMA StaleLookStep ==
    ASSUME TypeOK, CallMatches, StaleLook, [Next]_vars
    PROVE  StaleLook'
<1> DEFINE S(p) == /\ step[p] = "write" /\ call[p].flag = "disable"
                   /\ ~call[p].force /\ HasClients(call[p].obj)
                   => p \in raced
<1> USE DEF TypeOK, ControlTypeOK
<1>0. \A p \in Process : S(p)
    BY DEF StaleLook
<1>1. ASSUME NEW p \in Process, Step(p)
      PROVE  UNCHANGED clients /\ \A x : HasClients(x)' <=> HasClients(x)
  <2>1. UNCHANGED clients
    BY <1>1 DEF Step, SkipName, ActionDevice, ActionWq, ControlStep,
       ControlEffect, DeviceResult, WqResult, Finish, driverVars,
       LocalControlStep, ResolveUnbindPath, ReadClients, ReadClientsFails,
       WriteRefused, VerifyWq, VerifyWqFails, WriteTakesEffect, Drive,
       BindDevice, UnbindDevice, BindWq, UnbindWq
  <2> QED
    BY <2>1 DEF HasClients
<1>2. ASSUME NEW p \in Process, Step(p) PROVE S(p)'
  <2>1. CASE SkipName(p) \/ Finish(p)
    BY <1>0, <1>1, <1>2, <2>1 DEF SkipName, Finish, ctlVars
  <2>2. CASE ActionDevice(p) \/ ActionWq(p)
    <3>1. step[p] = "idle"
        BY <2>2 DEF ActionDevice, ActionWq, AtName, CallMatches
    <3>2. PICK e : Decide(p, e)
        BY <2>2 DEF ActionDevice, ActionWq
    <3>3. CASE e # 0
        BY <3>1, <3>2, <3>3 DEF Decide
    <3>4. CASE e = 0
      <4>1. Enter(p, cmd[p].flag, Target(p), cmd[p].force)
            /\ cmd[p].flag \in CtlFlag
        BY <3>2, <3>4 DEF Decide, CommandLine
      <4> QED
        BY <4>1, Entered
    <3> QED
        BY <3>3, <3>4
  <2>3. CASE ControlStep(p)
    <3>1. CASE ReadClients(p)
        BY <1>1, <1>2, <3>1 DEF ReadClients, GoTo, Return
    <3>2. CASE ReadClientsFails(p)
        BY <3>2 DEF ReadClientsFails
    <3>3. CASE ResolveUnbindPath(p)
        BY <3>3 DEF ResolveUnbindPath, GoTo, Return
    <3>4. CASE WriteRefused(p) \/ VerifyWq(p) \/ VerifyWqFails(p)
        BY <3>4 DEF WriteRefused, VerifyWq, VerifyWqFails, Return
    <3> QED
        BY <2>3, <3>1, <3>2, <3>3, <3>4 DEF ControlStep, LocalControlStep
  <2>4. CASE ControlEffect(p)
    BY <2>4 DEF ControlEffect, WriteTakesEffect, GoTo, Return
  <2>5. CASE DeviceResult(p) \/ WqResult(p)
    BY <2>5 DEF DeviceResult, WqResult, Leave
  <2> QED
    BY <1>2, <2>1, <2>2, <2>3, <2>4, <2>5 DEF Step
<1>3. ASSUME NEW p \in Process, Step(p), NEW q \in Process PROVE S(q)'
  <2>1. CASE q = p
    BY <1>2, <1>3, <2>1
  <2>2. CASE q # p
    BY <1>0, <1>1, <1>3, <2>2, OthersUntouched
  <2> QED
    BY <2>1, <2>2
<1>4. ASSUME Environment, NEW q \in Process PROVE S(q)'
  <2>0. UNCHANGED <<call, step>>
    BY <1>4 DEF Environment
  <2>1. SUFFICES ASSUME step[q] = "write", call[q].flag = "disable",
                        ~call[q].force, HasClients(call[q].obj)', q \notin raced
                 PROVE  q \in raced'
    BY <1>4, <2>0 DEF Environment
  <2>2. ~HasClients(call[q].obj)
    BY <1>0, <2>1
  <2>3. PICK w \in Wq :
          \/ /\ ClientOpen(w)
             /\ raced' = raced \cup
                  {p \in Process : /\ step[p] = "write"
                                   /\ call[p].obj \in {w, DevOf[w]}}
          \/ ClientClose(w) /\ UNCHANGED raced
          \/ UNCHANGED <<clients, raced>>
    BY <1>4 DEF Environment, QuiesceDone, LockWq, UnlockWq
  <2>4. CASE UNCHANGED <<clients, raced>>
    BY <2>0, <2>1, <2>2, <2>4 DEF HasClients
  <2>5. CASE ClientClose(w)
    BY <2>0, <2>1, <2>2, <2>5 DEF HasClients, ClientClose, DriverTypeOK, WqsOf
  <2>6. CASE /\ ClientOpen(w)
             /\ raced' = raced \cup
                  {p \in Process : /\ step[p] = "write"
                                   /\ call[p].obj \in {w, DevOf[w]}}
    BY <2>0, <2>1, <2>2, <2>6 DEF HasClients, ClientOpen, DriverTypeOK, WqsOf
  <2> QED
    BY <2>3, <2>4, <2>5, <2>6
<1>5. ASSUME UNCHANGED vars, NEW q \in Process PROVE S(q)'
    BY <1>0, <1>5 DEF vars, driverVars, ctlVars, HasClients
<1>6. \A q \in Process : S(q)'
    BY <1>3, <1>4, <1>5 DEF Next
<1> QED
    BY <1>6 DEF StaleLook

\* The state of an object changes hands with it: a step undoes what a command
\* achieved only by a write, and the writer then owns the object.
LEMMA AchievedOrOwned ==
    ASSUME TypeOK, CallMatches, [Next]_vars, NEW x \in Object, NEW f \in CtlFlag
    PROVE  \/ /\ owner'[x] = owner[x]
              /\ Achieved(f, x) => Achieved(f, x)'
           \/ \E p \in Process : ControlEffect(p) /\ owner'[x] = <<p, idx[p]>>
<1> USE DEF TypeOK, DriverTypeOK
<1>1. CASE UNCHANGED <<devState, wqState, owner>>
    BY <1>1 DEF Achieved, Bound
<1>2. ASSUME NEW p \in Process, ControlEffect(p), owner'[x] # <<p, idx[p]>>
      PROVE  /\ owner'[x] = owner[x]
             /\ Achieved(f, x) => Achieved(f, x)'
  <2>1. /\ x # Target(p)
        /\ cmd[p].flag = "disable" => x \notin WqsOf(Target(p))
        /\ owner'[x] = owner[x]
    BY <1>2 DEF ControlEffect
  <2>2. call[p].obj = Target(p) /\ call[p].flag = cmd[p].flag
    BY <1>2 DEF ControlEffect, CallMatches
  <2>3. Drive(cmd[p].flag, Target(p))
    BY <1>2, <2>2 DEF ControlEffect, WriteTakesEffect
  <2>4. /\ x \in Device => devState'[x] = devState[x]
        /\ x \in Wq => wqState'[x] = wqState[x]
    BY <2>1, <2>3 DEF Drive, BindDevice, UnbindDevice, BindWq, UnbindWq
  <2> QED
    BY <2>1, <2>4, DriverAssumption DEF Achieved, Bound, Object
<1>3. ASSUME NEW p \in Process, Step(p), ~ControlEffect(p)
      PROVE  UNCHANGED <<devState, wqState, owner>>
    BY <1>3 DEF Step, SkipName, ActionDevice, ActionWq, ControlStep,
       DeviceResult, WqResult, Finish, driverVars, histVars,
       LocalControlStep, ResolveUnbindPath, ReadClients, ReadClientsFails,
       WriteRefused, VerifyWq, VerifyWqFails
<1>4. CASE Environment /\ UNCHANGED <<cmdVars, histVars>>
  <2>1. PICK w \in Wq : \/ UNCHANGED <<devState, wqState>>
                       \/ QuiesceDone(w) \/ LockWq(w) \/ UnlockWq(w)
    BY <1>4 DEF Environment, ClientOpen, ClientClose
  <2> QED
    BY <1>4, <2>1, DriverAssumption DEF QuiesceDone, LockWq, UnlockWq, Achieved,
       Bound, Object, histVars
<1>5. CASE UNCHANGED vars
    BY <1>1, <1>5 DEF vars, driverVars, histVars
<1> QED
    BY <1>1, <1>2, <1>3, <1>4, <1>5 DEF Next

\* WqVerified and OutcomeStands are preserved together: a verified wq becomes
\* a counted one, and a write by anyone else takes the ownership away.
LEMMA OutcomeStep ==
    ASSUME TypeOK, TypeOK', CallMatches, Progress, CountedNames, WqVerified,
           OutcomeStands, [Next]_vars
    PROVE  CountedNames' /\ WqVerified' /\ OutcomeStands'
<1> USE DEF TypeOK, ControlTypeOK
\* A name that is counted in this step is the current one.
<1>1. ASSUME NEW q \in Process, NEW i \in counted'[q], i \notin counted[q]
      PROVE  /\ i = idx[q] /\ Counted(q) /\ ret[q] = 0
             /\ DeviceResult(q) \/ WqResult(q)
  <2>1. PICK p \in Process : Step(p)
    BY <1>1 DEF Next, vars, cmdVars
  <2>2. p = q
    BY <1>1, <2>1, OthersUntouched
  <2>3. DeviceResult(q) \/ WqResult(q)
    BY <1>1, <2>1, <2>2 DEF Step, SkipName, ActionDevice, ActionWq, Decide,
       Failed, ControlStep, ControlEffect, Finish, cmdVars
  <2>4. Counted(q) /\ ret[q] = 0
    BY <1>1, <2>3 DEF DeviceResult, WqResult, Failed
  <2> QED
    BY <1>1, <2>3, <2>4 DEF Counted
<1>2. CountedNames'
  <2>1. ASSUME NEW q \in Process, NEW i \in counted'[q]
        PROVE  Args(q)[i] \in Object
    <3>1. CASE i \in counted[q]
        BY <3>1 DEF CountedNames
    <3>2. CASE i \notin counted[q]
      <4>1. i = idx[q] /\ pc[q] = "call"
        BY <1>1, <3>2 DEF DeviceResult, WqResult, AtResult
      <4> QED
        BY <4>1 DEF CallMatches, Target, Found, Object
    <3> QED
        BY <3>1, <3>2
  <2> QED
    BY <2>1, CmdFixed DEF CountedNames
<1>3. OutcomeStands'
  <2>1. SUFFICES ASSUME NEW q \in Process, NEW i \in counted'[q],
                        owner'[Args(q)[i]] = <<q, i>>
                 PROVE  Achieved(cmd[q].flag, Args(q)[i])'
    BY CmdFixed DEF OutcomeStands
  <2>2. PICK x \in Object, f \in CtlFlag : x = Args(q)[i] /\ f = cmd[q].flag
    BY <1>2, CmdFixed DEF CountedNames, CommandLine
  <2>3. owner'[x] = <<q, i>> /\ x = Args(q)[i]' /\ f = cmd'[q].flag
    BY <2>1, <2>2, CmdFixed
  <2>4. SUFFICES Achieved(f, x)'
    BY <2>3
  <2>5. CASE i \in counted[q]
    <3>1. i # idx[q]
        BY <2>5 DEF Progress
    <3>2. ~ \E p \in Process : owner'[x] = <<p, idx[p]>>
        BY <2>3, <3>1
    <3>3. /\ owner'[x] = owner[x]
          /\ Achieved(f, x) => Achieved(f, x)'
        BY <3>2, AchievedOrOwned
    <3>4. Achieved(f, x)
      <4>1. owner[Args(q)[i]] = <<q, i>>
        BY <2>2, <2>3, <3>3
      <4>2. Achieved(cmd[q].flag, Args(q)[i])
        BY <2>5, <4>1 DEF OutcomeStands
      <4> QED
        BY <2>2, <4>2
    <3> QED
        BY <3>3, <3>4
  <2>6. CASE i \notin counted[q]
    <3>1. /\ i = idx[q] /\ ret[q] = 0 /\ Counted(q)
          /\ DeviceResult(q) \/ WqResult(q)
        BY <1>1, <2>6
    <3>2. UNCHANGED <<driverVars, histVars>> /\ AtResult(q)
        BY <3>1 DEF DeviceResult, WqResult
    <3>3. /\ call[q].obj = x /\ call[q].flag = f
          /\ x \in Found(q) /\ x = Target(q)
        BY <2>2, <3>1, <3>2 DEF AtResult, CallMatches, Target
    <3>4. Achieved(f, x)
      <4>1. CASE WqResult(q)
        BY <2>3, <3>1, <3>2, <3>3, <4>1 DEF WqResult, AtResult, WqVerified,
           Found, histVars
      <4>2. CASE DeviceResult(q)
        <5>1. counted'[q] # counted[q]
            BY <2>6
        <5>2. devState[x] = IF f = "enable" THEN "enabled" ELSE "disabled"
            BY <2>2, <3>1, <3>3, <4>2, <5>1 DEF DeviceResult, Failed
        <5>3. x \in Device
            BY <3>3, <4>2 DEF DeviceResult, Found
        <5> QED
            BY <5>2, <5>3, DriverAssumption DEF Achieved, Bound, CtlFlag
      <4> QED
        BY <3>1, <4>1, <4>2
    <3> QED
        BY <3>2, <3>4 DEF Achieved, Bound, driverVars
  <2> QED
    BY <2>5, <2>6
<1>4. WqVerified'
  <2>1. SUFFICES ASSUME NEW q \in Process, step'[q] = "ret", ret'[q] = 0,
                        call'[q].obj \in Wq,
                        owner'[call'[q].obj] = <<q, idx'[q]>>
                 PROVE  Achieved(call[q].flag, call[q].obj)'
    BY DEF WqVerified
  <2>2. PICK x \in Wq : x = call'[q].obj
    BY <2>1
  <2>3. PICK f \in CtlFlag : f = call'[q].flag
    BY <2>1 DEF CallRec
  <2>4. SUFFICES Achieved(f, x)'
    BY <2>2, <2>3
  \* The call was over before: nobody else has written since.
  <2>5. CASE UNCHANGED <<call[q], step[q], ret[q], idx[q]>>
    <3>1. /\ step[q] = "ret" /\ call[q].obj = x /\ call[q].flag = f
          /\ ret[q] = 0 /\ owner'[x] = <<q, idx[q]>> /\ x \in Object
        BY <2>1, <2>2, <2>3, <2>5 DEF Object
    <3>2. ~ \E p \in Process : ControlEffect(p) /\ owner'[x] = <<p, idx[p]>>
      <4>1. SUFFICES ASSUME ControlEffect(q) PROVE FALSE
        BY <3>1
      <4> QED
        BY <3>1, <4>1 DEF ControlEffect, WriteTakesEffect
    <3>3. /\ owner'[x] = owner[x]
          /\ Achieved(f, x) => Achieved(f, x)'
        BY <3>1, <3>2, AchievedOrOwned
    <3> QED
        BY <3>1, <3>3 DEF WqVerified
  \* The call ends in this step: the state has just been verified.
  <2>6. CASE Step(q)
    <3>1. CASE SkipName(q) \/ Finish(q)
        BY <2>1, <3>1 DEF SkipName, Finish, AtName, ctlVars, CallMatches
    <3>2. CASE ActionDevice(q) \/ ActionWq(q)
      <4>1. PICK e : Decide(q, e)
        BY <3>2 DEF ActionDevice, ActionWq
      <4>2. step[q] = "idle" /\ cmd[q].flag \in CtlFlag
        BY <3>2 DEF ActionDevice, ActionWq, AtName, CallMatches, CommandLine
      <4>3. e = 0 /\ Enter(q, cmd[q].flag, Target(q), cmd[q].force)
        BY <2>1, <4>1, <4>2 DEF Decide
      <4>4. step'[q] # "ret" \/ ret'[q] = -ENOENT
        BY <4>2, <4>3, Entered
      <4> QED
        BY <2>1, <4>4 DEF ENOENT
    <3>3. CASE ControlStep(q)
      <4>1. VerifyWq(q)
        BY <2>1, <3>3 DEF ControlStep, LocalControlStep, ResolveUnbindPath,
           ReadClients, ReadClientsFails, WriteRefused, VerifyWqFails, GoTo,
           Return, ENOENT, EPERM, EIO, ENXIO
      <4>2. call[q].obj = x /\ call[q].flag = f /\ UNCHANGED wqState
        BY <2>2, <2>3, <4>1 DEF VerifyWq, Return, driverVars
      <4>3. wqState'[x] = IF f = "enable" THEN "enabled" ELSE "disabled"
        BY <2>1, <4>1, <4>2 DEF VerifyWq, Return, ENXIO
      <4>4. x \notin Device
        BY DriverAssumption
      <4> QED
        BY <4>3, <4>4 DEF Achieved, Bound, CtlFlag
    <3>4. CASE ControlEffect(q)
      <4>1. call[q].obj = x
        BY <2>2, <3>4 DEF ControlEffect, WriteTakesEffect, GoTo, Return
      <4> QED
        BY <2>1, <3>4, <4>1, DriverAssumption DEF ControlEffect,
           WriteTakesEffect, GoTo, Return
    <3>5. CASE DeviceResult(q) \/ WqResult(q)
        BY <2>1, <3>5 DEF DeviceResult, WqResult, Leave
    <3> QED
        BY <2>6, <3>1, <3>2, <3>3, <3>4, <3>5 DEF Step
  <2>7. ASSUME NEW p \in Process, Step(p), p # q
        PROVE  UNCHANGED <<call[q], step[q], ret[q], idx[q]>>
    BY <2>7, OthersUntouched
  <2>8. CASE Environment /\ UNCHANGED <<cmdVars, histVars>>
    BY <2>5, <2>8 DEF Environment, cmdVars
  <2>9. CASE UNCHANGED vars
    BY <2>5, <2>9 DEF vars, ctlVars, cmdVars
  <2> QED
    BY <2>5, <2>6, <2>7, <2>8, <2>9 DEF Next
<1> QED
    BY <1>2, <1>3, <1>4

-----------------------------------------------------------------------------
(* Theorems *)

\* The inductive invariant holds initially,
LEMMA IInvInit == Init => IInv
<1> SUFFICES ASSUME Init PROVE IInv
    OBVIOUS
<1>1. TypeOK
    BY InitType
<1>2. CallMatches
    BY DEF Init, ControlInit, CallMatches
<1>3. Progress /\ ExitFromRc /\ ExitStatusSound /\ CountedNames /\ OutcomeStands
    BY DEF Init, ControlInit, Progress, ExitFromRc, ExitStatusSound,
           CountedNames, OutcomeStands, Running, EINVAL
<1>4. WqVerified /\ StaleLook
    BY DEF Init, ControlInit, WqVerified, StaleLook
<1> QED
    BY <1>1, <1>2, <1>3, <1>4 DEF IInv

\* is preserved by every step,
LEMMA IInvNext == IInv /\ [Next]_vars => IInv'
BY NextType, CallMatchesStep, ProgressStep, ExitStep, OutcomeStep,
   StaleLookStep DEF IInv

\* and so holds throughout.
LEMMA IInvAlways == Spec => []IInv
BY IInvInit, IInvNext, PTL DEF Spec

\* CreditIsOwn: no command counts as its own success what another process
\* did, however many processes work on the same devices.
THEOREM CreditIsOwn == Spec => []NoStolenCredit
<1>1. IInv => NoStolenCredit
    BY DEF IInv, Progress, NoStolenCredit
<1> QED
    BY <1>1, IInvAlways, PTL

\* OutcomesStand: what a command counted as a success holds until another
\* write reaches the object.
THEOREM OutcomesStand == Spec => []OutcomeStands
<1>1. IInv => OutcomeStands
    BY DEF IInv
<1> QED
    BY <1>1, IInvAlways, PTL

\* ExitStatusCorrect: the exit status of the four commands says what
\* ExitStatusSound claims of it.
THEOREM ExitStatusCorrect == Spec => []ExitStatusSound
<1>1. IInv => ExitStatusSound
    BY DEF IInv
<1> QED
    BY <1>1, IInvAlways, PTL

\* UnforcedDisableSparesClients: without --force, and unless it is raced or
\* its look at "clients" fails, no command takes a wq away from a client.
THEOREM UnforcedDisableSparesClients == Spec => ClientsSpared
<1>1. ASSUME IInv, [Next]_vars, NEW w \in TakenFromClients
      PROVE  LET p == owner'[w][1] IN cmd[p].force \/ p \in raced
  <2>0. TypeOK /\ DriverTypeOK /\ CallMatches /\ StaleLook
    BY <1>1 DEF IInv, TypeOK
  <2>1. /\ w \in Wq /\ w \notin Device /\ clients[w] > 0
        /\ wqState[w] \in {"enabled", "locked"}
        /\ wqState'[w] \notin {"enabled", "locked"}
    BY <1>1, DriverAssumption DEF TakenFromClients, Bound
  <2>2. PICK p \in Process : ControlEffect(p)
    <3>1. ~(UNCHANGED wqState)
        BY <2>1
    <3>2. ~Environment
        BY <2>0, <2>1 DEF DriverTypeOK, Environment, ClientOpen, ClientClose,
           QuiesceDone, LockWq, UnlockWq
    <3>3. ~(UNCHANGED vars)
        BY <3>1 DEF vars, driverVars
    <3>4. PICK p \in Process : Step(p)
        BY <1>1, <3>2, <3>3 DEF Next
    <3> QED
        BY <3>1, <3>4 DEF Step, SkipName, ActionDevice, ActionWq, ControlStep,
           DeviceResult, WqResult, Finish, driverVars, LocalControlStep,
           ResolveUnbindPath, ReadClients, ReadClientsFails, WriteRefused,
           VerifyWq, VerifyWqFails
  <2>3. /\ call[p].obj = Target(p) /\ call[p].flag = cmd[p].flag
        /\ call[p].force = cmd[p].force
    BY <2>0, <2>2 DEF ControlEffect, CallMatches
  <2>4. Drive(call[p].flag, call[p].obj) /\ step[p] = "write"
    BY <2>2 DEF ControlEffect, WriteTakesEffect
  <2>5. /\ call[p].flag = "disable"
        /\ w = call[p].obj \/ (call[p].obj \in Device /\ w \in WqsOf(call[p].obj))
    BY <2>0, <2>1, <2>4 DEF DriverTypeOK, Drive, BindDevice, UnbindDevice, BindWq,
       UnbindWq
  <2>6. HasClients(call[p].obj)
    BY <2>1, <2>5 DEF HasClients
  <2>7. call[p].force \/ p \in raced
    BY <2>0, <2>4, <2>5, <2>6 DEF StaleLook
  <2>8. owner'[w] = <<p, idx[p]>>
    BY <2>1, <2>2, <2>3, <2>5 DEF ControlEffect, Object
  <2> QED
    BY <2>3, <2>7, <2>8
<1>2. IInv /\ [Next]_vars =>
        [\A w \in TakenFromClients :
            LET p == owner'[w][1] IN cmd[p].force \/ p \in raced]_vars
    BY <1>1
<1> QED
    BY <1>2, IInvAlways, PTL DEF Spec, ClientsSpared

-----------------------------------------------------------------------------
(* EffectOnce *)

\* What holds of one process.
OnceOf(p) ==
    /\ wrote[p] \subseteq 1..idx[p]
    /\ idx[p] \in wrote[p] => pc[p] = "call" /\ step[p] \in {"verify", "ret"}

\* EffectOnce is inductive relative to the invariant of EnableCmd.
LEMMA EffectOnceStep ==
    ASSUME TypeOK, CallMatches, EffectOnce, [Next]_vars
    PROVE  EffectOnce'
<1> USE DEF TypeOK, ControlTypeOK
<1>0. \A p \in Process : OnceOf(p)
    BY DEF EffectOnce, OnceOf
<1>1. ASSUME NEW p \in Process, Step(p) PROVE OnceOf(p)'
  <2>0. OnceOf(p) /\ idx[p] \in Nat \ {0}
    BY <1>0
  <2>1. CASE SkipName(p)
    BY <2>0, <2>1 DEF SkipName, AtName, OnceOf, ctlVars, histVars
  <2>2. CASE ActionDevice(p) \/ ActionWq(p)
    <3>1. PICK e : Decide(p, e)
        BY <2>2 DEF ActionDevice, ActionWq
    <3>2. pc[p] = "next" /\ wrote' = wrote
        BY <2>2 DEF ActionDevice, ActionWq, AtName, histVars
    <3>3. idx[p] \notin wrote[p]
        BY <2>0, <3>2 DEF OnceOf
    <3>4. idx'[p] = idx[p] \/ idx'[p] = idx[p] + 1
        BY <3>1 DEF Decide, Failed
    <3> QED
        BY <2>0, <3>2, <3>3, <3>4 DEF OnceOf
  <2>3. CASE ControlStep(p)
    <3>1. step[p] \in {"verify", "ret"} => step'[p] \in {"verify", "ret"}
        BY <2>3 DEF ControlStep, LocalControlStep, ResolveUnbindPath, ReadClients,
           ReadClientsFails, WriteRefused, VerifyWq, VerifyWqFails, GoTo, Return
    <3> QED
        BY <2>0, <2>3, <3>1 DEF ControlStep, OnceOf, cmdVars, histVars
  <2>4. CASE ControlEffect(p)
    <3>1. step'[p] \in {"verify", "ret"}
        BY <2>4 DEF ControlEffect, WriteTakesEffect, GoTo, Return
    <3>2. wrote'[p] = wrote[p] \cup {idx[p]} /\ UNCHANGED cmdVars /\ pc[p] = "call"
        BY <2>4 DEF ControlEffect
    <3> QED
        BY <2>0, <3>1, <3>2 DEF OnceOf, cmdVars
  <2>5. CASE DeviceResult(p) \/ WqResult(p)
    <3>1. idx'[p] = idx[p] + 1 /\ wrote' = wrote
        BY <2>5 DEF DeviceResult, WqResult, Failed, Counted, histVars
    <3> QED
        BY <2>0, <3>1 DEF OnceOf
  <2>6. CASE Finish(p)
    BY <2>0, <2>6 DEF Finish, OnceOf, ctlVars, histVars
  <2> QED
    BY <1>1, <2>1, <2>2, <2>3, <2>4, <2>5, <2>6 DEF Step
<1>2. ASSUME NEW p \in Process, Step(p), NEW q \in Process PROVE OnceOf(q)'
  <2>1. CASE q = p
    BY <1>1, <1>2, <2>1
  <2>2. CASE q # p
    BY <1>0, <1>2, <2>2, OthersUntouched DEF OnceOf
  <2> QED
    BY <2>1, <2>2
<1>3. CASE Environment /\ UNCHANGED <<cmdVars, histVars>>
    BY <1>0, <1>3 DEF Environment, OnceOf, EffectOnce, cmdVars, histVars
<1>4. CASE UNCHANGED vars
    BY <1>0, <1>4 DEF vars, OnceOf, EffectOnce, ctlVars, cmdVars, histVars
<1> QED
    BY <1>2, <1>3, <1>4 DEF Next, EffectOnce, OnceOf

\* The effect of a name is not repeated, in any behaviour.
LEMMA EffectOnceAlways == Spec => [](IInv /\ EffectOnce)
<1>1. Init => EffectOnce
    BY DEF Init, EffectOnce
<1>2. IInv /\ EffectOnce /\ [Next]_vars => EffectOnce'
    BY EffectOnceStep DEF IInv
<1> QED
    BY <1>1, <1>2, IInvAlways, PTL DEF Spec

-----------------------------------------------------------------------------
(* The mapped state *)

\* The successes of a process are finitely many, and its current name is not
\* one of them.
LEMMA SuccessesCount ==
    ASSUME NEW p \in Process, TypeOK, Progress
    PROVE  /\ Cardinality(counted[p] \cup {idx[p]}) = Cardinality(counted[p]) + 1
<1>1. idx[p] \in Nat \ {0} /\ counted[p] \subseteq 1..(idx[p] - 1)
    BY DEF TypeOK, Progress
<1>2. IsFiniteSet(1..(idx[p] - 1))
    BY <1>1, FS_Interval
<1>3. IsFiniteSet(counted[p])
    BY <1>1, <1>2, FS_Subset
<1>4. idx[p] \notin counted[p]
    BY <1>1
<1> QED
    BY <1>3, <1>4, FS_AddElement

\* The initial states of the commands are initial states of the switchboard.
LEMMA ServiceInit == Init => Service!Init
<1> SUFFICES ASSUME Init PROVE Service!Init
    OBVIOUS
<1>1. SwitchedOn \subseteq Service!Object
    BY DEF SwitchedOn, Object, Service!Object
<1>2. Service!WqOnDevice
  <2> SUFFICES ASSUME NEW w \in Wq, w \in SwitchedOn PROVE DevOf[w] \in SwitchedOn
    BY DEF Service!WqOnDevice
  <2>1. w \notin Device /\ DevOf[w] \in Device
    BY DriverAssumption
  <2>2. wqState[w] = "enabled"
    BY <2>1 DEF SwitchedOn, Bound, Init, DriverInit
  <2> QED
    BY <2>1, <2>2 DEF SwitchedOn, Bound, Init, DriverInit, Object
<1>3. Requests = [p \in Process |-> NoRequest]
    BY DEF Requests, RequestOf, Init
<1>4. Effects = [p \in Process |-> FALSE]
    BY DEF Effects, HadEffect, Init
<1>5. Successes = [p \in Process |-> 0]
    BY FS_EmptySet DEF Successes, Init
<1> QED
    BY <1>1, <1>2, <1>3, <1>4, <1>5 DEF Service!Init

-----------------------------------------------------------------------------
(* The steps *)

\* Steps of a command that only work in the process, and all steps outside the
\* processes, leave the switchboard as it is: bound is what it was although
\* wqs are locked, unlocked and drained.
LEMMA EnvironmentStutters ==
    ASSUME TypeOK, Environment, UNCHANGED <<cmdVars, histVars>>
    PROVE  UNCHANGED Service!vars
<1>1. UNCHANGED <<call, pc, idx, wrote, counted>>
    BY DEF Environment, cmdVars, histVars
<1>2. ASSUME NEW x \in Object PROVE Bound(x)' <=> Bound(x)
  <2>1. UNCHANGED devState
    BY DEF Environment, ClientOpen, ClientClose, QuiesceDone, LockWq, UnlockWq
  <2>2. CASE x \in Device
    BY <2>1, <2>2 DEF Bound
  <2>3. CASE x \notin Device
    BY <1>2, <2>3 DEF Bound, Environment, ClientOpen, ClientClose, QuiesceDone,
                      LockWq, UnlockWq, TypeOK, DriverTypeOK, Object
  <2> QED
    BY <2>2, <2>3
<1>3. UNCHANGED SwitchedOn
    BY <1>2 DEF SwitchedOn
<1>4. UNCHANGED <<Requests, Effects, Successes>>
    BY <1>1 DEF Requests, RequestOf, Effects, HadEffect, Successes
<1> QED
    BY <1>3, <1>4 DEF Service!vars

\* A step of process p changes the switchboard's view of p only.
LEMMA ViewOfOthers ==
    ASSUME TypeOK, NEW p \in Process, Step(p), NEW q \in Process, q # p
    PROVE  /\ RequestOf(q)' = RequestOf(q)
           /\ HadEffect(q)' = HadEffect(q)
           /\ counted'[q] = counted[q]
BY OthersUntouched DEF RequestOf, HadEffect

\* When the driver's state stays, so does what is on.
LEMMA SameBound ==
    ASSUME UNCHANGED driverVars PROVE UNCHANGED SwitchedOn
BY DEF SwitchedOn, Bound, driverVars

\* A step that changes nothing of p that can be seen.
LEMMA Invisible ==
    ASSUME TypeOK, NEW p \in Process, Step(p), UNCHANGED driverVars,
           RequestOf(p)' = RequestOf(p), HadEffect(p)' = HadEffect(p),
           counted'[p] = counted[p]
    PROVE  UNCHANGED Service!vars
<1>1. \A q \in Process : /\ RequestOf(q)' = RequestOf(q)
                         /\ HadEffect(q)' = HadEffect(q)
                         /\ counted'[q] = counted[q]
    BY ViewOfOthers
<1>2. UNCHANGED <<Requests, Effects, Successes>>
    BY <1>1 DEF Requests, Effects, Successes
<1> QED
    BY <1>2, SameBound DEF Service!vars

\* The decision to call the control function asks the switchboard.
LEMMA DecideAsks ==
    ASSUME TypeOK, EffectOnce, NEW p \in Process, Step(p), AtName(p),
           Target(p) \in Object, NEW e, Decide(p, e),
           UNCHANGED <<driverVars, cmd, exit, histVars>>
    PROVE  Service!Ask(p) \/ UNCHANGED Service!vars
<1> USE DEF TypeOK, ControlTypeOK
<1>1. /\ pc[p] = "next" /\ wrote' = wrote /\ idx[p] \notin wrote[p]
      /\ RequestOf(p) = NoRequest /\ HadEffect(p) = FALSE
    BY DEF AtName, histVars, EffectOnce, RequestOf, HadEffect
<1>2. CASE e # 0
  <2>1. pc'[p] = "next" /\ counted' = counted
    BY <1>2 DEF Decide, Failed
  <2>2. RequestOf(p)' = RequestOf(p) /\ (HadEffect(p)' = HadEffect(p))
    BY <1>1, <2>1 DEF RequestOf, HadEffect
  <2> QED
    BY <2>1, <2>2, Invisible
<1>3. CASE e = 0
  <2>1. /\ pc' = [pc EXCEPT ![p] = "call"] /\ UNCHANGED <<idx, counted>>
        /\ Enter(p, cmd[p].flag, Target(p), cmd[p].force)
    BY <1>3 DEF Decide
  <2>2. call'[p].obj = Target(p) /\ call'[p].flag = cmd[p].flag
    BY <2>1, Entered
  <2>3. cmd[p].flag \in CtlFlag
    BY DEF CommandLine
  <2> DEFINE r == [flag |-> cmd[p].flag, obj |-> Target(p)]
  <2>4. RequestOf(p)' = r
    BY <2>1, <2>2 DEF RequestOf
  <2>5. r \in Service!Request
    BY <2>3 DEF Service!Request, Service!Object, CtlFlag, Object
  <2>6. HadEffect(p)' = FALSE
    BY <1>1, <2>1 DEF HadEffect
  <2>7. Requests' = [Requests EXCEPT ![p] = r]
    BY <2>4, ViewOfOthers DEF Requests
  <2>8. UNCHANGED Effects
    BY <1>1, <2>6, ViewOfOthers DEF Effects
  <2>9. UNCHANGED Successes
    BY <2>1 DEF Successes
  <2>10. Requests[p] = NoRequest
    BY <1>1 DEF Requests
  <2> QED
    BY <2>5, <2>7, <2>8, <2>9, <2>10, SameBound DEF Service!Ask
<1> QED
    BY <1>2, <1>3

\* The driver switches what it is told to, and with a device its wqs.
LEMMA DriveSwitches ==
    ASSUME DriverTypeOK, NEW x \in Object, NEW f \in CtlFlag, Drive(f, x)
    PROVE  \/ /\ f = "enable" /\ x \notin SwitchedOn
              /\ x \in Wq => DevOf[x] \in SwitchedOn
              /\ SwitchedOn' = SwitchedOn \cup {x}
           \/ /\ f = "disable" /\ x \in SwitchedOn
              /\ SwitchedOn' = SwitchedOn \ Service!With(x)
<1> USE DriverAssumption DEF DriverTypeOK
<1>1. CASE x \in Device /\ f = "enable" /\ BindDevice(x)
  <2>1. ~Bound(x) /\ Bound(x)' /\ x \notin Wq
      BY <1>1 DEF BindDevice, Bound
  <2>2. \A y \in Object : y # x => (Bound(y)' <=> Bound(y))
      BY <1>1 DEF BindDevice, Bound
  <2> QED
      BY <1>1, <2>1, <2>2 DEF SwitchedOn
<1>2. CASE x \in Device /\ f = "disable" /\ UnbindDevice(x)
  <2>1. Bound(x) /\ ~Bound(x)'
      BY <1>2 DEF UnbindDevice, Bound
  <2>2. \A y \in Object : y \notin Service!With(x) => (Bound(y)' <=> Bound(y))
      BY <1>2 DEF UnbindDevice, Bound, Service!With, WqsOf, Object
  <2>3. \A y \in Object : y \in Service!With(x) => ~Bound(y)'
      BY <1>2, <2>1 DEF UnbindDevice, Bound, Service!With, WqsOf
  <2> QED
      BY <1>2, <2>1, <2>2, <2>3 DEF SwitchedOn
<1>3. CASE x \in Wq /\ f = "enable" /\ BindWq(x)
  <2>1. ~Bound(x) /\ Bound(x)' /\ DevOf[x] \in SwitchedOn
      BY <1>3 DEF BindWq, Bound, SwitchedOn, Object
  <2>2. \A y \in Object : y # x => (Bound(y)' <=> Bound(y))
      BY <1>3 DEF BindWq, Bound, Object
  <2> QED
      BY <1>3, <2>1, <2>2 DEF SwitchedOn
<1>4. CASE x \in Wq /\ f = "disable" /\ UnbindWq(x)
  <2>1. Bound(x) /\ ~Bound(x)'
      BY <1>4 DEF UnbindWq, Bound
  <2>2. \A y \in Object : y # x => (Bound(y)' <=> Bound(y))
      BY <1>4 DEF UnbindWq, Bound, Object
  <2>3. Service!With(x) = {x}
      BY <1>4 DEF Service!With
  <2> QED
      BY <1>4, <2>1, <2>2, <2>3 DEF SwitchedOn
<1> QED
  BY <1>1, <1>2, <1>3, <1>4 DEF Drive

\* The write that takes effect is the switch.
LEMMA EffectSwitches ==
    ASSUME TypeOK, CallMatches, EffectOnce, NEW p \in Process, ControlEffect(p)
    PROVE  Service!Switch(p)
<1> USE DEF TypeOK, ControlTypeOK
<1> DEFINE x == call[p].obj
           f == call[p].flag
<1>0. Step(p)
    BY DEF Step
<1>1. /\ pc[p] = "call" /\ step[p] = "write" /\ UNCHANGED <<pc, idx, counted, call>>
      /\ wrote'[p] = wrote[p] \cup {idx[p]}
      /\ Drive(f, x)
    BY DEF ControlEffect, WriteTakesEffect, cmdVars, GoTo, Return
<1>2. x \in Object /\ f \in CtlFlag
    BY <1>1 DEF CallRec
<1>3. Requests[p] = [flag |-> f, obj |-> x] /\ UNCHANGED Requests
  <2>1. RequestOf(p) = [flag |-> f, obj |-> x] /\ RequestOf(p)' = RequestOf(p)
    BY <1>1 DEF RequestOf
  <2> QED
    BY <1>0, <2>1, ViewOfOthers DEF Requests
<1>4. Requests[p] # NoRequest
    BY <1>2, <1>3, RequestAssumption
<1>5. ~Effects[p] /\ Effects' = [Effects EXCEPT ![p] = TRUE]
  <2>1. HadEffect(p) = FALSE /\ HadEffect(p)' = TRUE
    BY <1>1 DEF HadEffect, EffectOnce
  <2> QED
    BY <1>0, <2>1, ViewOfOthers DEF Effects
<1>6. UNCHANGED Successes
    BY <1>1 DEF Successes
<1>7. \/ /\ f = "enable" /\ x \notin SwitchedOn
         /\ x \in Wq => DevOf[x] \in SwitchedOn
         /\ SwitchedOn' = SwitchedOn \cup {x}
      \/ /\ f = "disable" /\ x \in SwitchedOn
         /\ SwitchedOn' = SwitchedOn \ Service!With(x)
    BY <1>1, <1>2, DriveSwitches
<1> HIDE DEF x, f
<1>8. Requests[p].obj = x /\ Requests[p].flag = f
    BY <1>3
<1> QED
    BY <1>3, <1>4, <1>5, <1>6, <1>7, <1>8 DEF Service!Switch

\* The end of a round of the loop is the answer; a name is counted only if the
\* switch happened.
LEMMA ResultAnswers ==
    ASSUME TypeOK, CallMatches, Progress, EffectOnce, NEW p \in Process,
           DeviceResult(p) \/ WqResult(p)
    PROVE  Service!Answer(p)
<1> USE DEF TypeOK, ControlTypeOK
<1>0. Step(p)
    BY DEF Step
<1>1. /\ pc[p] = "call" /\ step[p] = "ret" /\ pc'[p] = "next"
      /\ UNCHANGED driverVars /\ wrote' = wrote
    BY DEF DeviceResult, WqResult, AtResult, Failed, Counted, histVars
<1>2. call[p] \in CallRec
    BY <1>1
<1>3. Requests[p] # NoRequest
  <2>1. RequestOf(p) \in [flag : CtlFlag, obj : Object]
    BY <1>1, <1>2 DEF RequestOf, CallRec
  <2> QED
    BY <2>1, RequestAssumption DEF Requests
<1>4. Requests' = [Requests EXCEPT ![p] = NoRequest]
  <2>1. RequestOf(p)' = NoRequest
    BY <1>1 DEF RequestOf
  <2> QED
    BY <1>0, <2>1, ViewOfOthers DEF Requests
<1>5. Effects' = [Effects EXCEPT ![p] = FALSE]
  <2>1. HadEffect(p)' = FALSE
    BY <1>1 DEF HadEffect
  <2> QED
    BY <1>0, <2>1, ViewOfOthers DEF Effects
<1>6. \/ UNCHANGED Successes
      \/ Effects[p] /\ Successes' = [Successes EXCEPT ![p] = @ + 1]
  <2>1. CASE counted' = counted
    BY <2>1 DEF Successes
  <2>2. CASE counted' # counted
    <3>1. Counted(p) /\ ret[p] = 0
        BY <2>2 DEF DeviceResult, WqResult, Failed
    <3>2. counted'[p] = counted[p] \cup {idx[p]}
        BY <3>1 DEF Counted
    <3>3. idx[p] \in wrote[p]
        BY <1>1, <3>1 DEF Progress
    <3>4. Cardinality(counted'[p]) = Cardinality(counted[p]) + 1
        BY <3>2, SuccessesCount
    <3>5. Successes' = [Successes EXCEPT ![p] = @ + 1]
        BY <1>0, <3>4, ViewOfOthers DEF Successes
    <3>6. Effects[p]
        BY <1>1, <3>3 DEF Effects, HadEffect
    <3> QED
        BY <3>5, <3>6
  <2> QED
    BY <2>1, <2>2
<1> QED
    BY <1>1, <1>3, <1>4, <1>5, <1>6, SameBound DEF Service!Answer

\* Every step is a step of the switchboard or none.
LEMMA ServiceNext ==
    ASSUME IInv, EffectOnce, [Next]_vars
    PROVE  [Service!Next]_(Service!vars)
<1>0. TypeOK /\ CallMatches /\ Progress
    BY DEF IInv
<1>1. ASSUME NEW p \in Process, Step(p)
      PROVE  \/ Service!Ask(p) \/ Service!Switch(p) \/ Service!Answer(p)
             \/ UNCHANGED Service!vars
  <2> USE <1>0, <1>1
  <2>1. CASE SkipName(p)
    <3>1. /\ pc[p] = "next" /\ UNCHANGED <<driverVars, pc, counted>>
        BY <2>1 DEF SkipName, AtName
    <3> QED
        BY <3>1, Invisible DEF RequestOf, HadEffect
  <2>2. CASE ActionDevice(p) \/ ActionWq(p)
    <3>1. PICK e : Decide(p, e)
        BY <2>2 DEF ActionDevice, ActionWq
    <3>2. /\ AtName(p) /\ Target(p) \in Object
          /\ UNCHANGED <<driverVars, cmd, exit, histVars>>
        BY <2>2 DEF ActionDevice, ActionWq, Object
    <3> QED
        BY <3>1, <3>2, DecideAsks
  <2>3. CASE ControlStep(p)
    <3>1. UNCHANGED <<call, pc, idx, wrote, counted>>
        BY <2>3 DEF ControlStep, LocalControlStep, ResolveUnbindPath, ReadClients,
           ReadClientsFails, WriteRefused, VerifyWq, VerifyWqFails, GoTo, Return,
           cmdVars, histVars
    <3>2. UNCHANGED driverVars
        BY <2>3, LocalControlType DEF ControlStep, TypeOK
    <3> QED
        BY <3>1, <3>2, Invisible DEF RequestOf, HadEffect
  <2>4. CASE ControlEffect(p)
    BY <2>4, EffectSwitches
  <2>5. CASE DeviceResult(p) \/ WqResult(p)
    BY <2>5, ResultAnswers
  <2>6. CASE Finish(p)
    <3>1. /\ pc[p] = "next" /\ pc'[p] = "done" /\ UNCHANGED <<driverVars, counted>>
        BY <2>6 DEF Finish, TypeOK
    <3> QED
        BY <3>1, Invisible DEF RequestOf, HadEffect
  <2> QED
    BY <2>1, <2>2, <2>3, <2>4, <2>5, <2>6 DEF Step
<1>2. CASE \E p \in Process : Step(p)
    BY <1>1, <1>2 DEF Service!Next
<1>3. CASE Environment /\ UNCHANGED <<cmdVars, histVars>>
    BY <1>0, <1>3, EnvironmentStutters
<1>4. CASE UNCHANGED vars
  <2>1. UNCHANGED <<driverVars, call, pc, idx, wrote, counted>>
    BY <1>4 DEF vars, ctlVars, cmdVars, histVars
  <2>2. UNCHANGED <<Requests, Effects, Successes>>
    BY <2>1 DEF Requests, RequestOf, Effects, HadEffect, Successes
  <2> QED
    BY <2>1, <2>2, SameBound DEF Service!vars
<1> QED
    BY <1>2, <1>3, <1>4 DEF Next

\* CommandsImplementService: whatever the processes, the applications and the
\* driver do, enable.c and the library below it behave like a switchboard: one
\* request at a time for each process, at most one switch for it, at one
\* moment, and a success only if it happened.
THEOREM CommandsImplementService == Spec => ImplementsService
<1>1. IInv /\ EffectOnce /\ [Next]_vars => [Service!Next]_(Service!vars)
    BY ServiceNext
<1> QED
    BY <1>1, ServiceInit, EffectOnceAlways, PTL
       DEF Spec, ImplementsService, Service!Spec
=============================================================================
