-------------------------- MODULE Submission_proof --------------------------
(***************************************************************************)
(* Proofs about Submission, for any number of descriptors, any size of the *)
(* wq, any timeout and page faults without bound.                          *)
(***************************************************************************)
EXTENDS Submission, FiniteSetTheorems, TLAPS

\* The initial states satisfy the invariant.
LEMMA InitInv == Init => IInv
<1> SUFFICES ASSUME Init PROVE IInv
    OBVIOUS
<1> USE SubmissionAssumption DEF Init
<1>1. TypeOK
  <2>1. dedicated \in BOOLEAN /\ umwait \in BOOLEAN /\ overlooked \in BOOLEAN
    BY Zenon
  <2>2. rc \in CompStatus /\ comp \in [Task -> CompStatus]
    BY DEF CompStatus, COMP_NONE, STATUS_OK
  <2> QED
    BY <2>1, <2>2 DEF TypeOK
<1>2. Position
    BY DEF Position, Batch
<1>3. RecordWhenComplete /\ NotYetSubmitted /\ PastDone /\ BatchProgress
    BY DEF RecordWhenComplete, NotYetSubmitted, PastDone, BatchProgress
<1>4. Closed /\ NothingDropped
    BY DEF Closed, NothingDropped
<1> QED
    BY <1>1, <1>2, <1>3, <1>4 DEF IInv

\* Whenever a descriptor is submitted there is room for it in the wq, unless a
\* timeout was overlooked: what is queued belongs to the batch, which is no
\* larger than the wq, and the task at hand is not queued.
LEMMA RoomInWq ==
    ASSUME IInv, AtSubmit, ~overlooked
    PROVE  Cardinality(Queued) < Size
<1> USE SubmissionAssumption
<1>0. first \in Nat /\ i \in Nat /\ n \in Batch /\ i <= Size
    BY DEF IInv, TypeOK, Position, AtSubmit
<1>1. Queued \subseteq Batch \ {n}
  <2> SUFFICES ASSUME NEW t \in Task, sub[t] = "queued"
               PROVE  t \in Batch /\ t # n
    BY DEF Queued
  <2>1. t <= first + i /\ t # n
    BY <1>0 DEF IInv, NotYetSubmitted, AtSubmit, Batch, Task
  <2>2. t \notin 1..first
    BY DEF IInv, PastDone, RecordWhenComplete, COMP_NONE, COMP_SUCCESS
  <2> QED
    BY <1>0, <2>1, <2>2 DEF Batch, Task
<1>2. IsFiniteSet(Batch) /\ Cardinality(Batch) = i
    BY <1>0, FS_Interval DEF Batch
<1>3. IsFiniteSet(Batch \ {n}) /\ Cardinality(Batch \ {n}) = i - 1
    BY <1>0, <1>2, FS_RemoveElement
<1>4. Cardinality(Queued) <= i - 1 /\ Cardinality(Queued) \in Nat
    BY <1>1, <1>3, FS_Subset, FS_CardinalityType
<1> QED
    BY <1>0, <1>4

\* A submission, the first or one after a page fault, keeps the invariant.
LEMMA SubmittedInv ==
    ASSUME IInv, AtSubmit, NEW state \in {"queued", "lost"}, Submitted(state),
           dedicated /\ ~overlooked => state = "queued"
    PROVE  IInv'
<1> USE SubmissionAssumption DEF Submitted, AtSubmit
<1>0. /\ TypeOK /\ Position /\ RecordWhenComplete /\ NotYetSubmitted
      /\ n \in Batch /\ n \in Task
    BY DEF IInv, Position, Batch, TypeOK, Task
<1>1. TypeOK'
    BY <1>0 DEF TypeOK, Batch, Task
<1>2. Position'
    BY <1>0 DEF TypeOK, Position, Batch
<1>3. RecordWhenComplete'
    BY <1>0 DEF TypeOK, RecordWhenComplete, NotYetSubmitted
<1>4. NotYetSubmitted'
    BY <1>0 DEF TypeOK, NotYetSubmitted, Batch, Task
<1>5. PastDone'
    BY DEF IInv, PastDone
<1>6. BatchProgress'
    BY <1>0 DEF IInv, TypeOK, BatchProgress, Batch, Task
<1>7. Closed' /\ NothingDropped'
    BY <1>0 DEF IInv, TypeOK, Closed, NothingDropped, Task
<1> QED
    BY <1>1, <1>2, <1>3, <1>4, <1>5, <1>6, <1>7 DEF IInv

\* Every step keeps the invariant.
LEMMA NextInv == IInv /\ [Next]_vars => IInv'
<1> SUFFICES ASSUME IInv, [Next]_vars PROVE IInv'
    OBVIOUS
<1> USE SubmissionAssumption DEF progVars
<1>0. /\ TypeOK /\ Position /\ RecordWhenComplete /\ NotYetSubmitted
      /\ PastDone /\ BatchProgress /\ Closed /\ NothingDropped
    BY DEF IInv
<1>1. CASE AllocTasks
  <2> USE DEF AllocTasks
  <2>1. TypeOK' /\ Position'
    BY <1>0, <1>1 DEF TypeOK, Position, BatchSize, Batch
  <2>2. NotYetSubmitted' /\ RecordWhenComplete'
    BY <1>0, <1>1 DEF TypeOK, Position, NotYetSubmitted, RecordWhenComplete,
                      BatchSize, Task
  <2>3. PastDone' /\ BatchProgress' /\ Closed' /\ NothingDropped'
    BY <1>0, <1>1 DEF PastDone, BatchProgress, Closed, NothingDropped
  <2> QED
    BY <2>1, <2>2, <2>3 DEF IInv
<1>2. CASE AllocFails
  <2>0. i = 0 /\ first \in Nat /\ first < NumDesc
    BY <1>0, <1>2 DEF AllocFails, TypeOK, Position
  <2>1. i' \in 0..NumDesc /\ first + i' <= NumDesc /\ i' <= Size
    <3>1. PICK b : b = BatchSize(NumDesc - first)
      OBVIOUS
    <3>2. b \in 0..NumDesc /\ first + b <= NumDesc /\ b <= Size
      BY <2>0, <3>1 DEF BatchSize
    <3>3. i' = 0 \/ i' = b
      BY <1>2, <3>1 DEF AllocFails
    <3> QED
      BY <2>0, <3>2, <3>3
  <2>2. /\ pc = "alloc" /\ pc' = "close" /\ rc' = -ENOMEM
        /\ UNCHANGED <<dedicated, umwait, first, n, tries, j, comp, sub, freed,
                       timedOut, overlooked>>
    BY <1>2 DEF AllocFails
  <2>3. TypeOK' /\ Position'
    BY <1>0, <2>1, <2>2 DEF TypeOK, Position
  <2>4. NotYetSubmitted' /\ RecordWhenComplete'
    <3>1. ASSUME NEW t \in Task, NEW k \in Nat, t > first + k
          PROVE  t > first + i
      BY <2>0, <3>1 DEF Task
    <3>2. RecordWhenComplete'
      BY <1>0, <2>2 DEF RecordWhenComplete
    <3> QED
      BY <1>0, <2>1, <2>2, <3>1, <3>2 DEF NotYetSubmitted
  <2>5. PastDone' /\ BatchProgress' /\ Closed' /\ NothingDropped'
    BY <1>0, <2>2 DEF PastDone, BatchProgress, Closed, NothingDropped, ENOMEM,
                      STATUS_OK
  <2> QED
    BY <2>3, <2>4, <2>5 DEF IInv
<1>3. CASE AllDone
  <2> USE DEF AllDone
  <2>1. TypeOK' /\ Position'
    BY <1>0, <1>3 DEF TypeOK, Position, Batch
  <2>2. NotYetSubmitted' /\ RecordWhenComplete'
    BY <1>0, <1>3 DEF NotYetSubmitted, RecordWhenComplete
  <2>3. PastDone' /\ BatchProgress' /\ Closed' /\ NothingDropped'
    BY <1>0, <1>3 DEF TypeOK, PastDone, BatchProgress, Closed, NothingDropped
  <2> QED
    BY <2>1, <2>2, <2>3 DEF IInv
<1>4. CASE Movdir64b
  <2>1. PICK state \in {"queued", "lost"} :
          /\ Submitted(state)
          /\ Cardinality(Queued) < Size => state = "queued"
    BY <1>4 DEF Movdir64b
  <2> QED
    BY <1>4, <2>1, RoomInWq, SubmittedInv DEF Movdir64b
<1>5. CASE Enqcmd
    BY <1>5, SubmittedInv DEF Enqcmd
<1>6. CASE EnqcmdRetry
  <2>1. CASE tries = 2
    BY <1>6, <2>1, SubmittedInv DEF EnqcmdRetry
  <2>2. CASE tries # 2
    <3> USE DEF EnqcmdRetry
    <3>1. TypeOK' /\ Position'
      BY <1>0, <1>6, <2>2 DEF TypeOK, Position, Batch
    <3>2. NotYetSubmitted' /\ RecordWhenComplete'
      BY <1>0, <1>6, <2>2 DEF NotYetSubmitted, RecordWhenComplete
    <3>3. PastDone' /\ BatchProgress' /\ Closed' /\ NothingDropped'
      BY <1>0, <1>6, <2>2 DEF PastDone, BatchProgress, Closed, NothingDropped,
                              Batch, Queued
    <3> QED
      BY <3>1, <3>2, <3>3 DEF IInv
  <2> QED
    BY <2>1, <2>2
<1>7. CASE Wait
  <2> USE DEF Wait
  <2>1. TypeOK' /\ Position'
    BY <1>0, <1>7 DEF TypeOK, Position, Batch
  <2>2. NotYetSubmitted' /\ RecordWhenComplete'
    BY <1>0, <1>7 DEF NotYetSubmitted, RecordWhenComplete
  <2>3. PastDone' /\ BatchProgress' /\ Closed' /\ NothingDropped'
    BY <1>0, <1>7 DEF PastDone, BatchProgress, Closed, NothingDropped, Batch, Queued
  <2> QED
    BY <2>1, <2>2, <2>3 DEF IInv
<1>8. CASE Timeout
  <2> USE DEF Timeout, NextWait, LastWait
  <2>1. TypeOK' /\ Position'
    BY <1>0, <1>8 DEF TypeOK, Position, Batch, Task
  <2>2. NotYetSubmitted' /\ RecordWhenComplete'
    BY <1>0, <1>8 DEF NotYetSubmitted, RecordWhenComplete
  <2>3. PastDone' /\ Closed' /\ NothingDropped'
    BY <1>0, <1>8 DEF PastDone, Closed, NothingDropped, Queued, STATUS_TIMEOUT,
                      STATUS_OK
  <2>4. BatchProgress'
    BY <1>0, <1>8 DEF TypeOK, BatchProgress, Position, Batch
  <2> QED
    BY <2>1, <2>2, <2>3, <2>4 DEF IInv
<1>9. CASE Completed
  <2> USE DEF Completed
  <2>1. TypeOK' /\ Position'
    BY <1>0, <1>9 DEF TypeOK, Position, Batch
  <2>2. NotYetSubmitted' /\ RecordWhenComplete'
    BY <1>0, <1>9 DEF NotYetSubmitted, RecordWhenComplete
  <2>3. PastDone' /\ BatchProgress' /\ Closed' /\ NothingDropped'
    BY <1>0, <1>9 DEF PastDone, BatchProgress, Closed, NothingDropped, Batch, Queued
  <2> QED
    BY <2>1, <2>2, <2>3 DEF IInv
<1>10. CASE CheckStatus
  <2> USE DEF CheckStatus, NextWait, LastWait
  <2>1. TypeOK' /\ Position'
    <3>1. overlooked' \in BOOLEAN
      BY <1>0, <1>10 DEF TypeOK
    <3> QED
      BY <1>0, <1>10, <3>1 DEF TypeOK, Position, Batch
  <2>2. NotYetSubmitted' /\ RecordWhenComplete'
    BY <1>0, <1>10 DEF NotYetSubmitted, RecordWhenComplete
  <2>3. PastDone' /\ Closed' /\ NothingDropped'
    <3>1. overlooked => overlooked'
      BY <1>10
    <3>2. pc' \in {"wait", "verify"} /\ UNCHANGED <<dedicated, first, comp, sub>>
      BY <1>10
    <3> QED
      BY <1>0, <1>10, <3>1, <3>2 DEF PastDone, Closed, NothingDropped
  <2>4. BatchProgress'
    <3>1. \A t \in (first + 1)..n : sub[t] = "complete" \/ t \in timedOut
      BY <1>0, <1>10 DEF TypeOK, BatchProgress, Position, RecordWhenComplete,
                         Batch, Task
    <3>2. CASE NextWait
      BY <1>0, <1>10, <3>1, <3>2 DEF TypeOK, BatchProgress, Position, Batch
    <3>3. CASE LastWait /\ ~overlooked' /\ pc' = "verify" /\ n' = first + 1
      <4>1. n = first + i /\ timedOut \cap Batch = {}
        BY <1>10, <3>3
      <4>2. \A t \in Batch : comp[t] # COMP_NONE
        BY <1>0, <3>1, <4>1 DEF TypeOK, Position, RecordWhenComplete, Batch, Task
      <4> QED
        BY <1>0, <1>10, <3>3, <4>2 DEF TypeOK, BatchProgress, Batch
    <3>4. CASE overlooked' /\ pc' = "verify"
      BY <3>4 DEF BatchProgress
    <3> QED
      BY <1>10, <3>2, <3>3, <3>4
  <2> QED
    BY <2>1, <2>2, <2>3, <2>4 DEF IInv
<1>11. CASE Reprep
  <2> USE DEF Reprep
  <2>0. n \in Task /\ n > first /\ n <= first + i
    BY <1>0, <1>11 DEF TypeOK, Position, Batch, Task
  <2>1. TypeOK' /\ Position'
    BY <1>0, <1>11, <2>0 DEF TypeOK, Position, Batch, CompStatus
  <2>2. NotYetSubmitted' /\ RecordWhenComplete'
    BY <1>0, <1>11, <2>0 DEF TypeOK, NotYetSubmitted, RecordWhenComplete
  <2>3. PastDone' /\ Closed' /\ NothingDropped'
    BY <1>0, <1>11, <2>0 DEF TypeOK, PastDone, Closed, NothingDropped, Task
  <2>4. BatchProgress'
    BY <1>0, <1>11, <2>0 DEF TypeOK, BatchProgress, Task
  <2> QED
    BY <2>1, <2>2, <2>3, <2>4 DEF IInv
<1>12. CASE Verify
  <2> USE DEF Verify, VerifyResult
  <2>0. n \in Task /\ n \in Batch
    BY <1>0, <1>12 DEF TypeOK, Position, Batch, Task
  <2>1. TypeOK' /\ Position'
    BY <1>0, <1>12, <2>0 DEF TypeOK, Position, Batch, CompStatus, STATUS_OK, COMP_NONE
  <2>2. NotYetSubmitted' /\ RecordWhenComplete'
    BY <1>0, <1>12 DEF NotYetSubmitted, RecordWhenComplete
  <2>3. PastDone' /\ Closed' /\ NothingDropped'
    BY <1>0, <1>12 DEF PastDone, Closed, NothingDropped, Queued
  <2>4. BatchProgress'
    BY <1>0, <1>12, <2>0 DEF TypeOK, BatchProgress, Position, Batch, STATUS_OK,
                             COMP_NONE, COMP_SUCCESS
  <2> QED
    BY <2>1, <2>2, <2>3, <2>4 DEF IInv
<1>13. CASE FreeTasks
  <2> USE DEF FreeTasks
  <2>1. TypeOK' /\ Position'
    BY <1>0, <1>13 DEF TypeOK, Position, Batch, Task
  <2>2. NotYetSubmitted' /\ RecordWhenComplete'
    BY <1>0, <1>13 DEF TypeOK, NotYetSubmitted, RecordWhenComplete
  <2>3. PastDone' /\ BatchProgress' /\ Closed' /\ NothingDropped'
    BY <1>0, <1>13 DEF TypeOK, PastDone, BatchProgress, Closed, NothingDropped, Batch
  <2> QED
    BY <2>1, <2>2, <2>3 DEF IInv
<1>14. CASE Close
  <2> USE DEF Close
  <2>1. TypeOK' /\ Position'
    BY <1>0, <1>14 DEF TypeOK, Position, Batch
  <2>2. NotYetSubmitted' /\ RecordWhenComplete'
    BY <1>0, <1>14 DEF TypeOK, NotYetSubmitted, RecordWhenComplete
  <2>3. PastDone' /\ BatchProgress' /\ Closed' /\ NothingDropped'
    BY <1>0, <1>14 DEF PastDone, BatchProgress, Closed, NothingDropped, Queued
  <2> QED
    BY <2>1, <2>2, <2>3 DEF IInv
<1>15. CASE Release
  <2> USE DEF Release
  <2>1. TypeOK' /\ Position'
    BY <1>0, <1>15 DEF TypeOK, Position, Batch, Task
  <2>2. NotYetSubmitted' /\ RecordWhenComplete'
    BY <1>0, <1>15 DEF NotYetSubmitted, RecordWhenComplete
  <2>3. PastDone' /\ BatchProgress' /\ Closed' /\ NothingDropped'
    BY <1>0, <1>15 DEF PastDone, BatchProgress, Closed, NothingDropped, Queued
  <2> QED
    BY <2>1, <2>2, <2>3 DEF IInv
<1>16. CASE ReleaseWild
  <2> USE DEF ReleaseWild
  <2>1. TypeOK' /\ Position'
    BY <1>0, <1>16 DEF TypeOK, Position, Batch
  <2>2. NotYetSubmitted' /\ RecordWhenComplete'
    BY <1>0, <1>16 DEF NotYetSubmitted, RecordWhenComplete
  <2>3. PastDone' /\ BatchProgress' /\ Closed' /\ NothingDropped'
    BY <1>0, <1>16 DEF PastDone, BatchProgress, Closed, NothingDropped, Queued
  <2> QED
    BY <2>1, <2>2, <2>3 DEF IInv
<1>17. ASSUME NEW t \in Task, Complete(t) PROVE IInv'
  <2> USE DEF Complete
  <2>0. PICK s \in CompStatus \ {COMP_NONE} :
          comp' = [comp EXCEPT ![t] = s]
    BY <1>17
  <2>1. TypeOK' /\ Position'
    BY <1>0, <1>17, <2>0 DEF TypeOK, Position, Batch
  <2>2. NotYetSubmitted' /\ RecordWhenComplete'
    BY <1>0, <1>17, <2>0 DEF TypeOK, NotYetSubmitted, RecordWhenComplete
  <2>3. comp[t] = COMP_NONE
    BY <1>0, <1>17 DEF RecordWhenComplete
  <2>4. PastDone'
    BY <1>0, <1>17, <2>0, <2>3 DEF TypeOK, PastDone, COMP_NONE, COMP_SUCCESS
  <2>5. BatchProgress'
    BY <1>0, <1>17, <2>0, <2>3 DEF TypeOK, BatchProgress, Batch, COMP_NONE, COMP_SUCCESS
  <2>6. Closed' /\ NothingDropped'
    BY <1>0, <1>17 DEF TypeOK, Closed, NothingDropped, Queued
  <2> QED
    BY <2>1, <2>2, <2>4, <2>5, <2>6 DEF IInv
<1>18. CASE UNCHANGED vars
    BY <1>0, <1>18 DEF vars, IInv, TypeOK, Position, RecordWhenComplete,
       NotYetSubmitted, PastDone, BatchProgress, Closed, NothingDropped, Batch, Queued
<1> QED
    BY <1>1, <1>2, <1>3, <1>4, <1>5, <1>6, <1>7, <1>8, <1>9, <1>10, <1>11, <1>12,
       <1>13, <1>14, <1>15, <1>16, <1>17, <1>18 DEF Next, Program

\* and so holds throughout.
LEMMA IInvAlways == Spec => []IInv
BY InitInv, NextInv, PTL DEF Spec

\* FreedIsNotOwned: unless the test overlooks a timeout, the accelerator never
\* owns memory that was freed, however many descriptors and batches there are.
THEOREM FreedIsNotOwned == Spec => []OwnedNotFreed
<1>1. IInv => OwnedNotFreed
  <2> SUFFICES ASSUME IInv, ~overlooked, NEW t \in Task, sub[t] = "queued",
                      t \in freed
               PROVE  FALSE
    BY DEF OwnedNotFreed, Queued
  <2>1. pc # "done"
    BY DEF IInv, Closed, Queued
  <2>2. t \in 1..first
    BY <2>1 DEF IInv, Position
  <2> QED
    BY <2>2 DEF IInv, PastDone, RecordWhenComplete, COMP_NONE, COMP_SUCCESS
<1> QED
    BY <1>1, IInvAlways, PTL

\* DedicatedDropsNothing: unless the test overlooks a timeout, a dedicated wq of
\* any size takes every descriptor, the resubmitted ones included.
THEOREM DedicatedDropsNothing == Spec => []NothingDropped
<1>1. IInv => NothingDropped
    BY DEF IInv
<1> QED
    BY <1>1, IInvAlways, PTL

\* PassIsComplete: a test that passes without having overlooked a timeout has
\* had all its descriptors completed with success.
THEOREM PassIsComplete == Spec => []PassMeansDone
<1>1. IInv => PassMeansDone
    BY SubmissionAssumption DEF IInv, PassMeansDone, Closed, PastDone, Task
<1> QED
    BY <1>1, IInvAlways, PTL
=============================================================================
