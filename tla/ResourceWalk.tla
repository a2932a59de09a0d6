---------------------------- MODULE ResourceWalk ----------------------------
(***************************************************************************)
(* Resource.toResourceId over ResourceGraph.mapNodes (resource.ts and      *)
(* graph.ts of resource-discussions): the two call each other.  A frame is *)
(* a call of mapNodes, an action is a call of the callback or the end of   *)
(* the loop that makes these calls.                                        *)
(* The graph is any; ResourceGraph gives the one of the package.           *)
(*                                                                         *)
(* The id is kept as the sequence of its sections, one for each "+=" of    *)
(* the callback; ResourceId is the string that they make.  A string is the *)
(* sequence of its words and of the separators "/" and ":" between them.   *)
(***************************************************************************)
EXTENDS Integers, Sequences, SequencesExt

CONSTANTS Nodes,
          Fields,             \* the keys of ResourceParameters and resourceValue
          Values,             \* what a field may hold
          KeyName,            \* KeyName[n]: attribute keyName of node n
          IsRequired,         \* the nodes with the attribute isRequired
          AnyChildNodeName,   \* AnyChildNodeName[n], or Undefined
          Neighbors,          \* Neighbors[n]: outboundNeighbors(n), in order
          Inputs,             \* the ResourceParameters to make ids of
          Level,              \* how deep in an id a field stands
          Text,               \* Text[v]: the value v as a string
          Undefined           \* also for a resource value "", which counts as missing

(* A node stands for a field: a resource value for the one with its name,  *)
(* any other node for the one it is keyed by.                              *)
IsValue(n) == KeyName[n] = "resourceValue"
FieldOf(n) == IF IsValue(n) THEN n ELSE KeyName[n]

ASSUME ResourceWalkAssumption ==
  /\ Undefined \notin Nodes \cup Values
  /\ "rootNode" \in Nodes
  /\ "schema" \in Fields
  /\ Neighbors \in [Nodes -> Seq(Nodes \ {"rootNode"})]
  /\ AnyChildNodeName \in [Nodes -> (Nodes \ {"rootNode"}) \cup {Undefined}]
  /\ \A n \in Nodes \ {"rootNode"} : FieldOf(n) \in Fields
  /\ \A n \in Nodes : AnyChildNodeName[n] # Undefined => ~ IsValue(AnyChildNodeName[n])
  /\ Inputs \subseteq [Fields -> Values \cup {Undefined}]

(* A field stands below those of the nodes above it; the neighbors of a    *)
(* node are values of one field, or all resource values.                   *)
ASSUME LayersAssumption ==
  /\ Level \in [Fields -> Nat] /\ Level["schema"] = 0
  /\ \A n \in Nodes \ {"rootNode"} :
       /\ \A m \in Range(Neighbors[n]) : Level[FieldOf(m)] > Level[FieldOf(n)]
       /\ AnyChildNodeName[n] # Undefined
            => Level[FieldOf(AnyChildNodeName[n])] > Level[FieldOf(n)]
  /\ \A m \in Range(Neighbors["rootNode"]) : KeyName[m] = "schema"
  /\ AnyChildNodeName["rootNode"] = Undefined
  /\ \A n \in Nodes : \A i, j \in DOMAIN Neighbors[n] :
       /\ KeyName[Neighbors[n][i]] = KeyName[Neighbors[n][j]]
       /\ i # j => Neighbors[n][i] # Neighbors[n][j]

(* Strings are equal if their words and separators are.  A template writes *)
(* undefined as a word; the names of nodes have no separators in them.     *)
ASSUME TextAssumption ==
  /\ Text \in [Values \cup {Undefined} -> Seq(STRING)]
  /\ \A v, w \in Values : Text[v] = Text[w] => v = w
  /\ \A n \in Nodes \cap Values : Text[n] = <<n>>
  /\ Text[Undefined] = <<"undefined">>

VARIABLES params,   \* resourceParams of the resource at hand
          here,     \* the call of mapNodes that runs
          callers,  \* the calls of mapNodes that wait for it, the innermost first
          id,       \* resourceId so far, in sections
          outcome,  \* "new", "walking", "done" or "threw"
          field,    \* the field that the error names, if it names one
          earlier   \* a resource that was given its id before, and the id

vars == <<params, here, callers, id, outcome, field, earlier>>

Frame(n) == [node |-> n, next |-> 1, matched |-> FALSE]
AtEnd == here.next > Len(Neighbors[here.node])
Neighbor == Neighbors[here.node][here.next]

Section(n) == <<FieldOf(n), params[FieldOf(n)]>>

(* Defect: the value without its key.                                      *)
ValueText(section) == <<"/">> \o Text[section[2]]

(* A key and a value, as they are: neither is escaped.                     *)
SectionText(section) == <<"/", section[1], ":">> \o Text[section[2]]

(* The schema is the first.                                                *)
SchemaText(section) == Text[section[2]] \o <<":", "/">>

ResourceId(sections) ==
  FlattenSeq([i \in DOMAIN sections |->
                IF i = 1 THEN SchemaText(sections[i]) ELSE SectionText(sections[i])])

(* Defect: the last neighbor decides.                                      *)
AnsweredLast(f, match) == [node |-> f.node, next |-> f.next + 1, matched |-> match]

(* The callback answered whether the neighbor matches: isMatched is set    *)
(* and never taken back, and the loop goes on.                             *)
Answered(f, match) ==
  [node |-> f.node, next |-> f.next + 1, matched |-> f.matched \/ match]

Init ==
  /\ params \in Inputs
  /\ here = Frame("rootNode")
  /\ callers = <<>>
  /\ id = <<>>
  /\ outcome = "new"
  /\ field = Undefined
  /\ earlier = <<>>

Throw(f) ==
  /\ outcome' = "threw"
  /\ field' = f
  /\ UNCHANGED <<params, here, callers, id, earlier>>

(* toResourceId: the walk starts at the node named by the schema, at the   *)
(* default of mapNodes when there is no schema.                            *)
StartNode == IF params["schema"] = Undefined THEN "rootNode" ELSE params["schema"]

Start ==
  /\ outcome = "new"
  /\ StartNode \in Nodes
  /\ here' = Frame(StartNode)
  /\ id' = <<<<"schema", params["schema"]>>>>
  /\ outcome' = "walking"
  /\ UNCHANGED <<params, callers, field, earlier>>

(* getFieldNameByValue: a key of the parameters that holds the name of the *)
(* start, the first in the order in which the application wrote them.      *)
Keys == Fields \cap Range(KeyName)

StartUnknown ==
  /\ outcome = "new"
  /\ StartNode \notin Nodes
  /\ \E f \in Keys : params[f] = StartNode /\ Throw(f)

Walking == outcome = "walking"

(* The parameter names the neighbor: its section, then what is below it.   *)
Descend ==
  /\ Walking /\ ~ AtEnd /\ ~ IsValue(Neighbor)
  /\ params[KeyName[Neighbor]] = Neighbor
  /\ id' = Append(id, Section(Neighbor))
  /\ callers' = <<Answered(here, FALSE)>> \o callers
  /\ here' = Frame(Neighbor)
  /\ UNCHANGED <<params, outcome, field, earlier>>

(* Defect: the loop stays where it is.                                     *)
PassByInPlace ==
  /\ Walking /\ ~ AtEnd /\ ~ IsValue(Neighbor)
  /\ params[KeyName[Neighbor]] # Neighbor
  /\ UNCHANGED vars

PassBy ==
  /\ Walking /\ ~ AtEnd /\ ~ IsValue(Neighbor)
  /\ params[KeyName[Neighbor]] # Neighbor
  /\ here' = Answered(here, FALSE)
  /\ UNCHANGED <<params, callers, id, outcome, field, earlier>>

TakeValue ==
  /\ Walking /\ ~ AtEnd /\ IsValue(Neighbor)
  /\ params[Neighbor] # Undefined
  /\ id' = Append(id, Section(Neighbor))
  /\ here' = Answered(here, TRUE)
  /\ UNCHANGED <<params, callers, outcome, field, earlier>>

SkipOptional ==
  /\ Walking /\ ~ AtEnd /\ IsValue(Neighbor)
  /\ params[Neighbor] = Undefined
  /\ Neighbor \notin IsRequired
  /\ here' = Answered(here, TRUE)
  /\ UNCHANGED <<params, callers, id, outcome, field, earlier>>

RefuseMissing ==
  /\ Walking /\ ~ AtEnd /\ IsValue(Neighbor)
  /\ params[Neighbor] = Undefined
  /\ Neighbor \in IsRequired
  /\ Throw("resourceValue")

(* Defect: the node for any other value is asked after a match, too.       *)
FallbackAlways ==
  /\ Walking /\ AtEnd
  /\ AnyChildNodeName[here.node] # Undefined
  /\ LET any == AnyChildNodeName[here.node] IN
       /\ id' = Append(id, Section(any))
       /\ here' = Frame(any)
  /\ UNCHANGED <<params, callers, outcome, field, earlier>>

(* No neighbor matched: the node for any other value takes the parameter   *)
(* as it is, and its call of mapNodes answers for this one.                *)
Fallback ==
  /\ Walking /\ AtEnd /\ ~ here.matched
  /\ AnyChildNodeName[here.node] # Undefined
  /\ LET any == AnyChildNodeName[here.node] IN
       /\ id' = Append(id, Section(any))
       /\ here' = Frame(any)
  /\ UNCHANGED <<params, callers, outcome, field, earlier>>

(* Nor is there one: the error names the key of the first neighbor.  A     *)
(* node without neighbors has none to ask; the graph library throws.       *)
RefuseUnmatched ==
  /\ Walking /\ AtEnd /\ ~ here.matched
  /\ AnyChildNodeName[here.node] = Undefined
  /\ Throw(IF Neighbors[here.node] = <<>> THEN Undefined
           ELSE KeyName[Neighbors[here.node][1]])

(* mapNodes returns true, and so does the callback that called it.         *)
Return ==
  /\ Walking /\ AtEnd /\ here.matched
  /\ callers # <<>>
  /\ here' = [Head(callers) EXCEPT !.matched = TRUE]
  /\ callers' = Tail(callers)
  /\ UNCHANGED <<params, id, outcome, field, earlier>>

(* Defect: a match anywhere ends the walk.                                 *)
FinishInside ==
  /\ Walking /\ AtEnd /\ here.matched
  /\ outcome' = "done"
  /\ UNCHANGED <<params, here, callers, id, field, earlier>>

Finish ==
  /\ Walking /\ AtEnd /\ here.matched
  /\ callers = <<>>
  /\ outcome' = "done"
  /\ UNCHANGED <<params, here, callers, id, field, earlier>>

(* The application makes an id of another resource.                        *)
Another ==
  /\ outcome = "done"
  /\ earlier = <<>>
  /\ earlier' = <<params, id>>
  /\ params' \in Inputs
  /\ id' = <<>>
  /\ outcome' = "new"
  /\ UNCHANGED <<here, callers, field>>

Walk == \/ Start \/ StartUnknown \/ Descend \/ PassBy \/ TakeValue \/ SkipOptional
        \/ RefuseMissing \/ Fallback \/ RefuseUnmatched \/ Return \/ Finish

Next == Walk \/ Another

(* toResourceId runs without a pause.                                      *)
Spec == Init /\ [][Next]_vars /\ WF_vars(Walk)
----------------------------------------------------------------------------
Frames == [node : Nodes, next : Nat \ {0}, matched : BOOLEAN]
Sections == Fields \X (Values \cup {Undefined})

TypeOK ==
  /\ params \in Inputs
  /\ here \in Frames
  /\ callers \in Seq(Frames)
  /\ id \in Seq(Sections)
  /\ outcome \in {"new", "walking", "done", "threw"}
  /\ field \in Fields \cup {"resourceValue", Undefined}
  /\ ~ Walking => outcome = "threw" \/ callers = <<>>
  /\ earlier = <<>> \/ earlier \in Inputs \X Seq(Sections)

(* However far the walk goes and wherever a fallback takes it, the walk    *)
(* writes of each field what the parameters say, and writes it once: the   *)
(* loop over the neighbors goes on after a match without matching again.   *)
EachFieldOnce ==
  /\ \A i \in DOMAIN id : id[i][2] = params[id[i][1]]
  /\ \A i, j \in DOMAIN id : id[i][1] = id[j][1] => i = j

(* Every walk ends, with an id or with an error.                           *)
WalkEnds == outcome = "new" ~> outcome \in {"done", "threw"}
=============================================================================
