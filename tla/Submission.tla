----------------------------- MODULE Submission -----------------------------
(***************************************************************************)
(* dsa_test's memory operations (test/dsa_test.c, test/dsa.c,              *)
(* test/accel_test.c): num_desc descriptors are prepared in batches no     *)
(* larger than the wq, submitted, waited for one by one with a timeout,    *)
(* resubmitted after a page fault, verified and freed.  The accelerator    *)
(* works meanwhile and writes the completion records, the only thing it    *)
(* shares with the program.                                                *)
(*                                                                         *)
(* Task t is the t-th descriptor, comp[t] the status in its completion     *)
(* record, sub[t] what became of its latest submission.  Time is counted   *)
(* in intervals of the wait.                                               *)
(***************************************************************************)
EXTENDS Integers, FiniteSets

CONSTANTS
    NumDesc,      \* num_desc
    Size,         \* size of a dedicated wq, threshold of a shared one
    MsTimeout     \* ms_timeout: intervals until a wait is given up

ASSUME SubmissionAssumption ==
    NumDesc \in Nat \ {0} /\ Size \in Nat \ {0} /\ MsTimeout \in Nat \ {0}

Task == 1..NumDesc

\* idxd.h: the completion status; accel_test.h: the result of a test.
COMP_NONE == 0
COMP_SUCCESS == 1
COMP_PAGE_FAULT_NOBOF == 3
COMP_BAD_OPCODE == 16
STATUS_OK == 0
STATUS_TIMEOUT == 5
ENOMEM == 12

CompStatus == {COMP_NONE, COMP_SUCCESS, COMP_PAGE_FAULT_NOBOF, COMP_BAD_OPCODE}

VARIABLES
    dedicated, umwait,  \* mode of the wq; whether the processor has UMWAIT
    pc,
    first, i,           \* the batch: the tasks first + 1 .. first + i
    n,                  \* the task at hand
    tries,              \* retry_count of acctest_enqcmd()
    j,                  \* intervals waited
    rc,                 \* result of the test
    comp, sub,
    freed,              \* the tasks whose memory was freed
    timedOut,           \* history: the tasks whose wait was given up
    overlooked          \* history: a batch was taken as done in spite of that

progVars == <<pc, first, i, n, tries, j, rc, freed, timedOut, overlooked>>
vars == <<dedicated, umwait, progVars, comp, sub>>

TypeOK ==
    /\ dedicated \in BOOLEAN /\ umwait \in BOOLEAN
    /\ pc \in {"alloc", "submit", "wait", "status", "resubmit", "verify", "free",
               "close", "release", "done", "crashed"}
    /\ first \in 0..NumDesc
    /\ i \in 0..NumDesc
    /\ n \in 1..(NumDesc + 1)
    /\ tries \in 0..2
    /\ j \in 0..MsTimeout
    /\ rc \in CompStatus \cup {STATUS_TIMEOUT, -ENOMEM}
    /\ comp \in [Task -> CompStatus]
    /\ sub \in [Task -> {"none", "queued", "complete", "lost"}]
    /\ freed \subseteq Task /\ timedOut \subseteq Task
    /\ overlooked \in BOOLEAN

Init ==
    /\ dedicated \in BOOLEAN /\ umwait \in BOOLEAN
    /\ pc = "alloc"
    /\ first = 0 /\ i = 0 /\ n = 1 /\ tries = 0 /\ j = 0
    /\ rc = STATUS_OK
    /\ comp = [t \in Task |-> COMP_NONE]
    /\ sub = [t \in Task |-> "none"]
    /\ freed = {} /\ timedOut = {}
    /\ overlooked = FALSE

-----------------------------------------------------------------------------
Batch == (first + 1)..(first + i)
Queued == {t \in Task : sub[t] = "queued"}

\* Mutant: the size of the wq is not respected.
BatchSize_One(itr) == IF itr < Size + 1 THEN itr ELSE Size + 1

\* i = (itr < range) ? itr : range
BatchSize(itr) == IF itr < Size THEN itr ELSE Size

\* The head of test_memory()'s loop: the tasks of the next batch are
\* allocated and prepared.
AllocTasks ==
    /\ pc = "alloc" /\ first < NumDesc
    /\ i' = BatchSize(NumDesc - first)
    /\ n' = first + 1
    /\ pc' = "submit"
    /\ UNCHANGED <<dedicated, umwait, first, tries, j, rc, comp, sub, freed,
                   timedOut, overlooked>>

\* Memory runs out: when the tasks are allocated, the list begins with the node
\* that failed and the nodes before it are lost; when the buffers are allocated
\* (dsa_init_task()), it is complete.
AllocFails ==
    /\ pc = "alloc" /\ first < NumDesc
    /\ i' \in {0, BatchSize(NumDesc - first)}
    /\ rc' = -ENOMEM
    /\ pc' = "close"
    /\ UNCHANGED <<dedicated, umwait, first, n, tries, j, comp, sub, freed,
                   timedOut, overlooked>>

AllDone ==
    /\ pc = "alloc" /\ first >= NumDesc
    /\ pc' = "close"
    /\ UNCHANGED <<dedicated, umwait, first, i, n, tries, j, rc, comp, sub, freed,
                   timedOut, overlooked>>

\* After a submission: the next task, or the wait for this one again.
Submitted(state) ==
    /\ sub' = [sub EXCEPT ![n] = state]
    /\ tries' = 0
    /\ IF pc = "submit" /\ n < first + i
         THEN n' = n + 1 /\ UNCHANGED <<pc, j>>
         ELSE /\ n' = IF pc = "submit" THEN first + 1 ELSE n
              /\ pc' = "wait" /\ j' = 0
    /\ UNCHANGED <<dedicated, umwait, first, i, rc, comp, freed, timedOut,
                   overlooked>>

AtSubmit == pc \in {"submit", "resubmit"}

\* EXTERNAL: MOVDIR64B has no answer; a descriptor that finds the dedicated wq
\* full is dropped.
Movdir64b ==
    /\ AtSubmit /\ dedicated
    /\ Submitted(IF Cardinality(Queued) < Size THEN "queued" ELSE "lost")

\* ENQCMD is taken, if there is room in the shared wq ...
Enqcmd ==
    /\ AtSubmit /\ ~dedicated
    /\ Cardinality(Queued) < Size
    /\ Submitted("queued")

\* ... or must be retried, for other processes use the wq too; after the third
\* time acctest_enqcmd() gives up, and returns 0.
EnqcmdRetry ==
    /\ AtSubmit /\ ~dedicated
    /\ IF tries = 2
         THEN Submitted("lost")
         ELSE /\ tries' = tries + 1
              /\ UNCHANGED <<dedicated, umwait, pc, first, i, n, j, rc, comp, sub,
                             freed, timedOut, overlooked>>

-----------------------------------------------------------------------------
(* acctest_wait_on_desc_timeout() *)

\* Mutant: the intervals are not counted.
Wait_Uncounted ==
    /\ pc = "wait"
    /\ comp[n] = COMP_NONE /\ j < MsTimeout
    /\ UNCHANGED vars

\* usleep(1000), or UMWAIT until the record is written or time is over
Wait ==
    /\ pc = "wait"
    /\ comp[n] = COMP_NONE /\ j < MsTimeout
    /\ j' = j + 1
    /\ UNCHANGED <<dedicated, umwait, pc, first, i, n, tries, rc, comp, sub, freed,
                   timedOut, overlooked>>

\* The next task of the batch is waited for: dsa_memcpy_multi_task_nodes() and
\* the like keep the result of the last wait only.
NextWait == n < first + i /\ n' = n + 1 /\ pc' = "wait" /\ UNCHANGED <<rc, overlooked>>
LastWait == n = first + i

\* The wait is given up.  Without UMWAIT only the number of intervals counts:
\* a completion in the last of them comes too late.  With it the record is
\* looked at once more.
Timeout ==
    /\ pc = "wait" /\ j = MsTimeout
    /\ umwait => comp[n] = COMP_NONE
    /\ timedOut' = timedOut \cup {n}
    /\ j' = 0
    /\ \/ NextWait
       \/ LastWait /\ rc' = STATUS_TIMEOUT /\ pc' = "close" /\ UNCHANGED <<n, overlooked>>
    /\ UNCHANGED <<dedicated, umwait, first, i, tries, comp, sub, freed>>

Completed ==
    /\ pc = "wait" /\ comp[n] # COMP_NONE
    /\ ~umwait => j < MsTimeout
    /\ pc' = "status"
    /\ UNCHANGED <<dedicated, umwait, first, i, n, tries, j, rc, comp, sub, freed,
                   timedOut, overlooked>>

\* dsa_wait_memcpy(): a page fault without block-on-fault is resolved and the
\* rest resubmitted; everything else ends the wait.
CheckStatus ==
    /\ pc = "status" /\ comp[n] # COMP_PAGE_FAULT_NOBOF
    /\ j' = 0
    /\ \/ NextWait
       \/ /\ LastWait
          /\ n' = first + 1 /\ pc' = "verify"
          /\ overlooked' = (overlooked \/ timedOut \cap Batch # {})
          /\ UNCHANGED rc
    /\ UNCHANGED <<dedicated, umwait, first, i, tries, comp, sub, freed, timedOut>>

\* dsa_reprep_memcpy(): the record is cleared, then the descriptor submitted.
Reprep ==
    /\ pc = "status" /\ comp[n] = COMP_PAGE_FAULT_NOBOF
    /\ comp' = [comp EXCEPT ![n] = COMP_NONE]
    /\ sub' = [sub EXCEPT ![n] = "none"]
    /\ pc' = "resubmit"
    /\ UNCHANGED <<dedicated, umwait, first, i, n, tries, j, rc, freed,
                   timedOut, overlooked>>

-----------------------------------------------------------------------------
\* Mutant: the status is not looked at.
VerifyResult_Unchecked(t) == STATUS_OK

\* task_result_verify() returns the status unless it is COMP_SUCCESS (the data
\* is then what it should be): of a record that was never written, 0.
VerifyResult(t) == IF comp[t] # COMP_SUCCESS THEN comp[t] ELSE STATUS_OK

\* task_result_verify_task_nodes()
Verify ==
    /\ pc = "verify"
    /\ rc' = VerifyResult(n)
    /\ pc' = IF rc' # STATUS_OK THEN "close"
             ELSE IF n < first + i THEN "verify" ELSE "free"
    /\ n' = IF rc' = STATUS_OK /\ n < first + i THEN n + 1 ELSE n
    /\ UNCHANGED <<dedicated, umwait, first, i, tries, j, comp, sub, freed,
                   timedOut, overlooked>>

\* acctest_free_task() at the end of the loop
FreeTasks ==
    /\ pc = "free"
    /\ freed' = freed \cup Batch
    /\ first' = first + i /\ i' = 0
    /\ pc' = "alloc"
    /\ UNCHANGED <<dedicated, umwait, n, tries, j, rc, comp, sub, timedOut,
                   overlooked>>

\* Mutant: the tasks are freed before the wq is closed.
Close_Late ==
    /\ pc = "close"
    /\ freed' = freed \cup Batch
    /\ pc' = "release"
    /\ UNCHANGED <<dedicated, umwait, first, i, n, tries, j, rc, comp, sub,
                   timedOut, overlooked>>

\* acctest_free(): the wq is unmapped and closed, upon which the driver (EXTERNAL)
\* drains what the process has in it ...
Close ==
    /\ pc = "close"
    /\ sub' = [t \in Task |-> IF sub[t] = "queued" THEN "lost" ELSE sub[t]]
    /\ pc' = "release"
    /\ UNCHANGED <<dedicated, umwait, first, i, n, tries, j, rc, comp, freed,
                   timedOut, overlooked>>

\* ... then the tasks that are left are freed.
Release ==
    /\ pc = "release"
    /\ freed' = freed \cup Batch
    /\ pc' = "done"
    /\ UNCHANGED <<dedicated, umwait, first, i, n, tries, j, rc, comp, sub,
                   timedOut, overlooked>>

\* The node whose task could not be allocated has an uninitialized next pointer:
\* acctest_free_task() follows it, and may crash instead.
ReleaseWild ==
    /\ pc = "release" /\ rc = -ENOMEM /\ i = 0
    /\ pc' = "crashed"
    /\ UNCHANGED <<dedicated, umwait, first, i, n, tries, j, rc, comp, sub, freed,
                   timedOut, overlooked>>

\* EXTERNAL: the accelerator completes a descriptor, in any order, and writes
\* the record.
Complete(t) ==
    /\ sub[t] = "queued"
    /\ sub' = [sub EXCEPT ![t] = "complete"]
    /\ \E s \in CompStatus \ {COMP_NONE} : comp' = [comp EXCEPT ![t] = s]
    /\ UNCHANGED <<dedicated, umwait, progVars>>

Program ==
    \/ AllocTasks \/ AllocFails \/ AllDone
    \/ Movdir64b \/ Enqcmd \/ EnqcmdRetry
    \/ Wait \/ Timeout \/ Completed \/ CheckStatus \/ Reprep
    \/ Verify \/ FreeTasks \/ Close \/ Release \/ ReleaseWild

Next == Program \/ \E t \in Task : Complete(t)

Spec == Init /\ [][Next]_vars

\* The program runs on; nothing is assumed of the accelerator.
FairSpec == Spec /\ WF_vars(Program)

-----------------------------------------------------------------------------
\* Unless a timeout was overlooked, the accelerator never writes to memory
\* that was freed: in the loop all tasks of a batch are done when they are
\* freed, at the end the wq is closed first.
OwnedNotFreed == ~overlooked => Queued \cap freed = {}

\* Unless a timeout was overlooked, a dedicated wq is never given more than it
\* has room for, the resubmitted descriptors included.
NothingDropped ==
    dedicated /\ ~overlooked /\ pc \notin {"release", "done", "crashed"} =>
        \A t \in Task : sub[t] # "lost"

\* A test that passes without having overlooked a timeout has had every
\* descriptor completed with success.
PassMeansDone ==
    pc = "done" /\ rc = STATUS_OK /\ ~overlooked =>
        \A t \in Task : comp[t] = COMP_SUCCESS

\* The test ends whatever the accelerator does, for every wait is bounded,
\* unless descriptors are resubmitted for ever: the loop of dsa_wait_memcpy()
\* has no bound on the page faults of a task.
TestEnds == <>(pc \in {"done", "crashed"}) \/ []<><<Reprep>>_vars

-----------------------------------------------------------------------------
(* The inductive invariant behind the first three. *)

\* Where the loop is; only finished batches are freed before the end.
Position ==
    /\ first + i <= NumDesc /\ i <= Size
    /\ pc = "alloc" => i = 0
    /\ pc \in {"submit", "wait", "status", "resubmit", "verify", "free"} => n \in Batch
    /\ pc # "done" => freed \subseteq 1..first

\* A record is written exactly when the accelerator is done with the task.
RecordWhenComplete == \A t \in Task : comp[t] # COMP_NONE <=> sub[t] = "complete"

\* What is still to be submitted is not with the accelerator.
NotYetSubmitted ==
    \A t \in Task :
        \/ t > first + i
        \/ pc = "submit" /\ t >= n
        \/ pc = "resubmit" /\ t = n
        => sub[t] = "none"

\* The batches that are behind have succeeded, unless a timeout was overlooked.
PastDone == ~overlooked => \A t \in 1..first : comp[t] = COMP_SUCCESS

\* How far the current batch has got.
BatchProgress ==
    /\ pc \in {"wait", "status", "resubmit"} =>
         \A t \in (first + 1)..(n - 1) : sub[t] = "complete" \/ t \in timedOut
    /\ pc = "status" => comp[n] # COMP_NONE
    /\ pc \in {"verify", "free"} /\ ~overlooked =>
         \A t \in Batch : /\ comp[t] # COMP_NONE
                          /\ pc = "free" \/ t < n => comp[t] = COMP_SUCCESS

\* A closed wq holds nothing of the program; the end is reached with status 0
\* only when there is no task left.
Closed ==
    /\ pc \in {"release", "done", "crashed"} => Queued = {}
    /\ pc \in {"close", "release", "done"} /\ rc = STATUS_OK => first = NumDesc

IInv ==
    /\ TypeOK
    /\ Position
    /\ RecordWhenComplete
    /\ NotYetSubmitted
    /\ PastDone
    /\ BatchProgress
    /\ Closed
    /\ NothingDropped
=============================================================================
