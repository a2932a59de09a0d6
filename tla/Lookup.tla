------------------------------- MODULE Lookup -------------------------------
(***************************************************************************)
(* What a search promises, whatever it does to keep the promise: findSpaces *)
(* and findPosts as their callers see them.                                *)
(*                                                                         *)
(* A search asks for ids.  At one moment after that the chain is looked at *)
(* (or the look fails, and counts as having seen nothing).  The answer is  *)
(* a view of what was seen at that moment: nothing is in it that the       *)
(* filters exclude, every struct is the one that was seen, a file belongs  *)
(* to its struct, and a struct is missing only if a filter excludes it.    *)
(* Files may be missing for reasons of their own.                          *)
(***************************************************************************)
EXTENDS Filters

CONSTANT Queries  \* the searches that are made

VARIABLES chain,   \* chain[id]: the struct storage holds now
          phase,   \* of the search: "idle", "asked", "seen" or "answered"
          query,   \* what it asks
          seen,    \* position -> what the chain answered for that id
          answer   \* position -> entry, for the positions of the answer

vars == <<chain, phase, query, seen, answer>>

Storage == { c \in [Ids -> Struct \cup {NoStruct}] :
               \A id \in Ids : c[id] # NoStruct => c[id].id = id }

UpdateStruct(struct) ==
  /\ chain' = [chain EXCEPT ![struct.id] = struct]
  /\ UNCHANGED <<phase, query, seen, answer>>

RemoveStruct(id) ==
  /\ chain' = [chain EXCEPT ![id] = NoStruct]
  /\ UNCHANGED <<phase, query, seen, answer>>

Ask(q) ==
  /\ phase \in {"idle", "answered"}
  /\ phase' = "asked"
  /\ query' = q
  /\ seen' = <<>>
  /\ answer' = <<>>
  /\ UNCHANGED chain

Look ==
  /\ phase = "asked"
  /\ phase' = "seen"
  /\ seen' \in { [p \in UniquePositions(query.ids) |-> chain[query.ids[p]]],
                 [p \in UniquePositions(query.ids) |-> NoStruct] }
  /\ UNCHANGED <<chain, query, answer>>

Matches(q, struct) == struct # NoStruct /\ VisibilityFilter(q.visibility, struct)

(* The promise, as a relation between a query, what was seen, an answer.   *)
Promised(q, s, a) ==
  /\ DOMAIN a \subseteq DOMAIN s
  /\ \A p \in DOMAIN a :
       /\ a[p].struct = s[p]
       /\ Matches(q, s[p])
       /\ a[p].content \in {Undefined, CidOf(s[p])}
       /\ a[p].content # Undefined => File[a[p].content] \in Parseable
       /\ ContentFilter(q.withContentOnly, a[p])
  /\ \A p \in DOMAIN s \ DOMAIN a : Matches(q, s[p]) => q.withContentOnly
  /\ \A p1, p2 \in DOMAIN a :
       CidOf(s[p1]) = CidOf(s[p2]) => a[p1].content = a[p2].content

Reply ==
  /\ phase = "seen"
  /\ phase' = "answered"
  /\ Promised(query, seen, answer')
  /\ UNCHANGED <<chain, query, seen>>

Init ==
  /\ chain \in Storage
  /\ phase = "idle"
  /\ query = NoQuery
  /\ seen = <<>>
  /\ answer = <<>>

Next ==
  \/ \E struct \in Struct : UpdateStruct(struct)
  \/ \E id \in Ids : RemoveStruct(id)
  \/ \E q \in Queries : Ask(q)
  \/ Look
  \/ Reply

Spec == Init /\ [][Next]_vars
=============================================================================
