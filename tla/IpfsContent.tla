---------------------------- MODULE IpfsContent ----------------------------
(***************************************************************************)
(* SubsocialIpfsApi.getContentArrayFromIpfs: one call asks for an array of *)
(* CIDs, starts a task for each of them, and returns when every task has   *)
(* settled.  The tasks run concurrently and write to one shared object.    *)
(* Calls share no state with one another, so one call at a time is enough; *)
(* a caller may call again after the answer.                               *)
(*                                                                         *)
(* The gateway is the environment: it answers or not, breaks a stream, or  *)
(* ends it early.  A timeout, where the caller passes one, covers the time *)
(* until the gateway begins to answer.                                     *)
(***************************************************************************)
EXTENDS Naturals, Files

CONSTANTS Malformed,  \* strings that CID.parse refuses
          Canon,      \* Canon[c]: CID.parse(c).toString()
          Cbor,       \* CIDs with the codec of dag-cbor
          Size        \* Size[c]: the number of chunks of the file of c

WellFormed == Cids \ Malformed

IpfsParameters ==
  /\ Malformed \subseteq Cids
  /\ Cbor \subseteq WellFormed
  /\ Canon \in [WellFormed -> WellFormed]
  /\ \A c \in WellFormed : Canon[Canon[c]] = Canon[c] /\ File[Canon[c]] = File[c]
  /\ Size \in [Cids -> Nat \ {0}]

ASSUME IpfsAssumption == IpfsParameters

VARIABLES stage,      \* of the call: "idle", "loading" or "done"
          requested,  \* the argument: the set of CIDs the call asks for
          timed,      \* whether the caller passed a timeout
          task,       \* task[c]: what the task of CID c is doing
          read,       \* read[c]: how many chunks it has appended to its data
          content     \* keys of the result; the value is the parsed file

vars == <<stage, requested, timed, task, read, content>>

Tasks   == {"none", "asked", "streaming", "loaded", "failed"}
Pending == {"asked", "streaming"}

(* The tasks a call starts: one per CID, in the spelling of toString       *)
Wanted(cids) == { Canon[c] : c \in cids \ Malformed }

(* Every task of the last call; none if getUniqueCids threw.               *)
Started == { c \in Cids : task[c] # "none" }

Init ==
  /\ stage = "idle"
  /\ requested = {}
  /\ timed = FALSE
  /\ task = [c \in Cids |-> "none"]
  /\ read = [c \in Cids |-> 0]
  /\ content = {}

(* One CID that does not parse makes getUniqueCids throw, and the call     *)
(* answers {} without a task.                                              *)
GetContentArray(cids, withTimeout) ==
  /\ stage # "loading"
  /\ stage' = IF cids \cap Malformed = {} THEN "loading" ELSE "done"
  /\ requested' = cids
  /\ timed' = withTimeout
  /\ task' = [c \in Cids |-> IF cids \cap Malformed = {} /\ c \in Wanted(cids)
                               THEN "asked" ELSE "none"]
  /\ read' = [c \in Cids |-> 0]
  /\ content' = {}

(* Defect: the result is keyed by what was loaded.                         *)
SettleByFile(c, ok) ==
  /\ task' = [task EXCEPT ![c] = IF ok THEN "loaded" ELSE "failed"]
  /\ content' = IF ok THEN content \cup {File[c]} ELSE content
  /\ UNCHANGED <<stage, requested, timed, read>>

(* The end of a task: content[cidStr] is set, or the exception is logged.  *)
Settle(c, ok) ==
  /\ task' = [task EXCEPT ![c] = IF ok THEN "loaded" ELSE "failed"]
  /\ content' = IF ok THEN content \cup {c} ELSE content
  /\ UNCHANGED <<stage, requested, timed, read>>

DagAnswers(c) ==
  /\ c \in Cbor
  /\ task[c] = "asked"
  /\ File[c] # "missing"
  /\ Settle(c, File[c] \in Parseable)

CatAnswers(c) ==
  /\ c \notin Cbor
  /\ task[c] = "asked"
  /\ File[c] # "missing"
  /\ task' = [task EXCEPT ![c] = "streaming"]
  /\ UNCHANGED <<stage, requested, timed, read, content>>

Chunk(c) ==
  /\ task[c] = "streaming"
  /\ read[c] < Size[c]
  /\ read' = [read EXCEPT ![c] = @ + 1]
  /\ UNCHANGED <<stage, requested, timed, task, content>>

(* Defect: what has been read so far is taken for the file.                *)
StreamEndsUnchecked(c) ==
  /\ task[c] = "streaming"
  /\ Settle(c, File[c] \in Parseable)

(* The stream ends, after the last chunk or early, and JSON.parse runs: of *)
(* a JSON object, array or string that was cut short it parses nothing.    *)
StreamEnds(c) ==
  /\ task[c] = "streaming"
  /\ Settle(c, read[c] = Size[c] /\ File[c] \in Parseable)

(* Defect: Promise.all without a catch in each task, so that the outer     *)
(* catch answers {}.                                                       *)
FailsForAll(c) ==
  /\ task[c] \in Pending
  /\ task' = [task EXCEPT ![c] = "failed"]
  /\ content' = {}
  /\ stage' = "done"
  /\ UNCHANGED <<requested, timed, read>>

(* The request is refused or the stream breaks.                            *)
Fails(c) ==
  /\ task[c] \in Pending
  /\ Settle(c, FALSE)

(* Defect: dag.get is called without the timeout.                          *)
TimesOutOfCat(c) ==
  /\ timed
  /\ c \notin Cbor
  /\ task[c] = "asked"
  /\ Settle(c, FALSE)

TimesOut(c) ==
  /\ timed
  /\ task[c] = "asked"
  /\ Settle(c, FALSE)

(* Defect: Promise.race, or an await that is missing.                      *)
AnySettled ==
  /\ stage = "loading"
  /\ \E c \in Cids : task[c] \in {"loaded", "failed"}
  /\ stage' = "done"
  /\ UNCHANGED <<requested, timed, task, read, content>>

(* Promise.allSettled: the call returns.                                   *)
AllSettled ==
  /\ stage = "loading"
  /\ \A c \in Cids : task[c] \notin Pending
  /\ stage' = "done"
  /\ UNCHANGED <<requested, timed, task, read, content>>

GatewayStep(c) ==
  \/ DagAnswers(c)
  \/ CatAnswers(c)
  \/ Chunk(c)
  \/ StreamEnds(c)
  \/ Fails(c)

Next ==
  \/ \E cids \in SUBSET Cids, withTimeout \in BOOLEAN : GetContentArray(cids, withTimeout)
  \/ \E c \in Cids : GatewayStep(c) \/ TimesOut(c)
  \/ AllSettled

(* The event loop resumes a promise that has settled and fires a timer     *)
(* that is due.  A stream that has begun ends or breaks: HTTP gives up on  *)
(* a connection that is gone.  A gateway need not begin to answer.         *)
Fairness ==
  /\ WF_vars(AllSettled)
  /\ \A c \in Cids : /\ WF_vars(TimesOut(c))
                     /\ WF_vars(StreamEnds(c))

Spec == Init /\ [][Next]_vars /\ Fairness
----------------------------------------------------------------------------
TypeOK ==
  /\ stage \in {"idle", "loading", "done"}
  /\ requested \in SUBSET Cids
  /\ timed \in BOOLEAN
  /\ task \in [Cids -> Tasks]
  /\ read \in [Cids -> Nat]
  /\ content \in SUBSET Cids

(* A key of the result stands for a whole file: its task read every chunk  *)
(* before it parsed, whatever the other tasks and the gateway did.         *)
OnlyWholeFiles ==
  \A c \in content :
    /\ task[c] = "loaded"
    /\ File[c] \in Parseable
    /\ c \in Cbor \/ read[c] = Size[c]

(* A call that returns has an outcome for every CID it started on, and one *)
(* task that fails costs its own CID only (the try/catch of each task).    *)
EachCidHasItsOutcome ==
  stage = "done" /\ requested \cap Malformed = {} =>
    \A c \in Wanted(requested) :
      \/ task[c] = "loaded" /\ c \in content
      \/ task[c] = "failed" /\ c \notin content

(* The object a caller has received is not written to afterwards: no task  *)
(* outlives the call that awaits Promise.allSettled.                       *)
ResultIsFrozen ==
  [][stage = "done" =>
       \/ content' = content
       \/ \E cids \in SUBSET Cids, withTimeout \in BOOLEAN :
            GetContentArray(cids, withTimeout)]_vars

(* With a timeout, a gateway that never answers cannot keep a call open.   *)
TimedCallReturns == stage = "loading" /\ timed ~> stage = "done"
=============================================================================
