------------------------- MODULE IpfsContent_proofs -------------------------
(***************************************************************************)
(* Theorems about IpfsContent, for every set of CIDs and every file.       *)
(***************************************************************************)
EXTENDS IpfsContent, TLAPS

(* The result has exactly the keys of the tasks that loaded a whole file.  *)
ResultOfTasks ==
  /\ OnlyWholeFiles
  /\ \A c \in Cids : task[c] = "loaded" => c \in content

(* No task outlives its call.                                              *)
SettledWhenDone ==
  stage # "loading" => \A c \in Cids : task[c] \notin Pending

(* A call whose strings all parse has a task for every CID it wants.       *)
TaskForEachWanted ==
  stage # "idle" /\ requested \cap Malformed = {} =>
    \A c \in Wanted(requested) : task[c] # "none"

IInv == TypeOK /\ ResultOfTasks /\ SettledWhenDone /\ TaskForEachWanted

(* CIDs are asked for in a spelling that is one of them.                   *)
LEMMA WantedAreCids ==
  ASSUME NEW cids \in SUBSET Cids PROVE Wanted(cids) \subseteq Cids
BY IpfsAssumption DEF IpfsParameters, Wanted, WellFormed

LEMMA InitIInv == Init => IInv
<1> SUFFICES ASSUME Init PROVE IInv
  OBVIOUS
<1>1. TypeOK
  BY DEF Init, TypeOK, Tasks
<1>2. ResultOfTasks
  BY DEF Init, ResultOfTasks, OnlyWholeFiles
<1>3. SettledWhenDone
  BY DEF Init, SettledWhenDone, Pending
<1>4. TaskForEachWanted
  BY DEF Init, TaskForEachWanted
<1> QED BY <1>1, <1>2, <1>3, <1>4 DEF IInv

LEMMA CallKeepsIInv ==
  ASSUME IInv, NEW cids \in SUBSET Cids, NEW t \in BOOLEAN, GetContentArray(cids, t)
  PROVE  IInv'
<1> USE DEF IInv, GetContentArray
<1>1. TypeOK'
  BY DEF TypeOK, Tasks
<1>2. ResultOfTasks' /\ SettledWhenDone'
  BY DEF ResultOfTasks, OnlyWholeFiles, SettledWhenDone, Pending
<1>3. TaskForEachWanted'
  BY WantedAreCids DEF TaskForEachWanted
<1> QED BY <1>1, <1>2, <1>3

(* A pending task settles: the file is there only if it was read whole.    *)
LEMMA SettleKeepsIInv ==
  ASSUME IInv, NEW c \in Cids, NEW ok \in BOOLEAN, task[c] \in Pending, Settle(c, ok),
         ok => File[c] \in Parseable /\ (c \in Cbor \/ read[c] = Size[c])
  PROVE  IInv'
<1> USE DEF IInv, Settle, Pending
<1>1. TypeOK'
  BY DEF TypeOK, Tasks
<1>2. ResultOfTasks'
  BY DEF TypeOK, ResultOfTasks, OnlyWholeFiles
<1>3. SettledWhenDone'
  BY DEF TypeOK, SettledWhenDone
<1>4. TaskForEachWanted'
  BY WantedAreCids DEF TypeOK, TaskForEachWanted, Wanted
<1> QED BY <1>1, <1>2, <1>3, <1>4

(* Only a pending task takes a step, and every step keeps IInv.            *)
LEMMA TaskStepKeepsIInv ==
  ASSUME IInv, NEW c \in Cids, GatewayStep(c) \/ TimesOut(c)
  PROVE  IInv' /\ task[c] \in Pending
<1>1. CASE DagAnswers(c)
  <2>1. (File[c] \in Parseable) \in BOOLEAN
    OBVIOUS
  <2> QED BY <1>1, <2>1, SettleKeepsIInv DEF DagAnswers, Pending
<1>2. CASE CatAnswers(c)
  <2> USE <1>2 DEF CatAnswers, IInv, Pending
  <2>1. TypeOK' /\ SettledWhenDone'
    BY DEF TypeOK, Tasks, SettledWhenDone
  <2>2. ResultOfTasks'
    BY DEF TypeOK, ResultOfTasks, OnlyWholeFiles
  <2>3. TaskForEachWanted'
    BY WantedAreCids DEF TypeOK, TaskForEachWanted, Wanted
  <2> QED BY <2>1, <2>2, <2>3
<1>3. CASE Chunk(c)
  <2> USE <1>3 DEF Chunk, IInv, Pending
  <2>1. TypeOK' /\ SettledWhenDone'
    BY DEF TypeOK, SettledWhenDone
  <2>2. ResultOfTasks'
    BY DEF TypeOK, ResultOfTasks, OnlyWholeFiles
  <2>3. TaskForEachWanted'
    BY DEF TaskForEachWanted, Wanted
  <2> QED BY <2>1, <2>2, <2>3
<1>4. CASE StreamEnds(c)
  <2>1. (read[c] = Size[c] /\ File[c] \in Parseable) \in BOOLEAN
    OBVIOUS
  <2> QED BY <1>4, <2>1, SettleKeepsIInv DEF StreamEnds, Pending
<1>5. CASE Fails(c)
  BY <1>5, SettleKeepsIInv DEF Fails
<1>6. CASE TimesOut(c)
  BY <1>6, SettleKeepsIInv DEF TimesOut, Pending
<1> QED BY <1>1, <1>2, <1>3, <1>4, <1>5, <1>6 DEF GatewayStep

LEMMA StepKeepsIInv == IInv /\ [Next]_vars => IInv'
<1> SUFFICES ASSUME IInv, [Next]_vars PROVE IInv'
  OBVIOUS
<1>1. ASSUME NEW cids \in SUBSET Cids, NEW t \in BOOLEAN, GetContentArray(cids, t) PROVE IInv'
  BY <1>1, CallKeepsIInv
<1>2. ASSUME NEW c \in Cids, GatewayStep(c) \/ TimesOut(c) PROVE IInv'
  BY <1>2, TaskStepKeepsIInv
<1>3. CASE AllSettled \/ UNCHANGED vars
  BY <1>3 DEF AllSettled, vars, IInv, TypeOK, ResultOfTasks, OnlyWholeFiles, SettledWhenDone,
              TaskForEachWanted, Wanted
<1> QED BY <1>1, <1>2, <1>3 DEF Next

THEOREM Invariant == Spec => []IInv
BY InitIInv, StepKeepsIInv, PTL DEF Spec

(* TypeOK: every variable keeps its shape.                                 *)
THEOREM TypeCorrect == Spec => []TypeOK
<1>1. IInv => TypeOK
  BY DEF IInv
<1> QED BY <1>1, Invariant, PTL

(* A file that was cut short, or does not parse, is never in the result.   *)
THEOREM WholeFiles == Spec => []OnlyWholeFiles
<1>1. IInv => OnlyWholeFiles
  BY DEF IInv, ResultOfTasks
<1> QED BY <1>1, Invariant, PTL

(* A call that returns leaves no CID undecided, and one failure costs one  *)
(* file.                                                                   *)
THEOREM Outcomes == Spec => []EachCidHasItsOutcome
<1>1. IInv => EachCidHasItsOutcome
  <2> SUFFICES ASSUME IInv, stage = "done", requested \cap Malformed = {},
                      NEW c \in Wanted(requested)
               PROVE  \/ task[c] = "loaded" /\ c \in content
                      \/ task[c] = "failed" /\ c \notin content
    BY DEF EachCidHasItsOutcome
  <2>1. c \in Cids
    BY WantedAreCids DEF IInv, TypeOK
  <2>2. task[c] \in {"loaded", "failed"}
    BY <2>1 DEF IInv, TypeOK, Tasks, SettledWhenDone, Pending, TaskForEachWanted
  <2> QED BY <2>1, <2>2 DEF IInv, ResultOfTasks, OnlyWholeFiles
<1> QED BY <1>1, Invariant, PTL

(* What a caller has been handed is not written to by a late task.         *)
THEOREM Frozen == Spec => ResultIsFrozen
<1>1. IInv /\ [Next]_vars =>
        [stage = "done" =>
           \/ content' = content
           \/ \E cids \in SUBSET Cids, withTimeout \in BOOLEAN :
                GetContentArray(cids, withTimeout)]_vars
  <2> SUFFICES ASSUME IInv, Next, stage = "done"
               PROVE  \/ content' = content
                      \/ \E cids \in SUBSET Cids, withTimeout \in BOOLEAN :
                           GetContentArray(cids, withTimeout)
    OBVIOUS
  <2>1. ASSUME NEW c \in Cids, GatewayStep(c) \/ TimesOut(c) PROVE FALSE
    BY <2>1, TaskStepKeepsIInv DEF IInv, SettledWhenDone
  <2>2. ~ AllSettled
    BY DEF AllSettled
  <2> QED BY <2>1, <2>2 DEF Next
<1> QED BY <1>1, Invariant, PTL DEF Spec, ResultIsFrozen
=============================================================================
