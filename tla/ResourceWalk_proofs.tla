------------------------ MODULE ResourceWalk_proofs ------------------------
(***************************************************************************)
(* First the theorems about ResourceWalk, for any graph in layers, however *)
(* wide or deep, and any parameters; then those about the graph of the     *)
(* package, for any lists of chains and applications.                      *)
(***************************************************************************)
EXTENDS ResourceGraph, SequenceTheorems, WellFoundedInduction, TLAPS

(* What is written stands no deeper than the node of f.                    *)
Above(f) == \A i \in DOMAIN id : Level[id[i][1]] <= Level[FieldOf(f.node)]

(* No neighbor that f has still to ask matches.                            *)
NoMoreFor(f, p) ==
  \A j \in DOMAIN Neighbors[f.node] :
    j >= f.next => /\ ~ IsValue(Neighbors[f.node][j])
                   /\ p[KeyName[Neighbors[f.node][j]]] # Neighbors[f.node][j]

NoMore(f) == NoMoreFor(f, params)

(* The values that f has still to ask for are not written yet.             *)
NotYet(f) ==
  \A j \in DOMAIN Neighbors[f.node] :
    j >= f.next => /\ IsValue(Neighbors[f.node][j])
                   /\ \A i \in DOMAIN id : id[i][1] # Neighbors[f.node][j]

HereFits ==
  /\ here.node = "rootNode" => params["schema"] \in {Undefined, "rootNode"}
  /\ ~ here.matched => here.node = "rootNode" \/ Above(here)
  /\ here.matched => NoMore(here) \/ (NotYet(here) /\ here.node # "rootNode")

CallersFit ==
  \A k \in DOMAIN callers : NoMore(callers[k]) /\ callers[k].node # "rootNode"

IInv ==
  /\ TypeOK
  /\ EachFieldOnce
  /\ Walking => HereFits /\ CallersFit

----------------------------------------------------------------------------
LEMMA PushIsSeq ==
  ASSUME NEW S, NEW f \in S, NEW s \in Seq(S)
  PROVE  <<f>> \o s \in Seq(S)
OBVIOUS

LEMMA ParamsHold == TypeOK => params \in [Fields -> Values \cup {Undefined}]
BY ResourceWalkAssumption DEF TypeOK

LEMMA NodesHaveFields ==
  ASSUME NEW n \in Nodes \ {"rootNode"}, TypeOK
  PROVE  FieldOf(n) \in Fields /\ Section(n) \in Sections
<1>1. FieldOf(n) \in Fields
  BY ResourceWalkAssumption
<1>2. params[FieldOf(n)] \in Values \cup {Undefined}
  BY <1>1, ParamsHold
<1> QED BY <1>1, <1>2 DEF Section, Sections

(* The neighbor that is asked is a node below this one.                    *)
LEMMA NeighborIsNode ==
  ASSUME TypeOK, ~ AtEnd
  PROVE  /\ here.next \in DOMAIN Neighbors[here.node]
         /\ Neighbor \in Nodes \ {"rootNode"}
         /\ Neighbor \in Range(Neighbors[here.node])
<1>1. here.node \in Nodes /\ here.next \in Nat \ {0}
  BY DEF TypeOK, Frames
<1>2. Neighbors[here.node] \in Seq(Nodes \ {"rootNode"})
  BY <1>1, ResourceWalkAssumption
<1>3. here.next \in 1 .. Len(Neighbors[here.node])
  BY <1>1, <1>2 DEF AtEnd
<1>4. here.next \in DOMAIN Neighbors[here.node]
  BY <1>2, <1>3
<1> QED BY <1>2, <1>3, <1>4 DEF Neighbor, Range

LEMMA AnsweredIsFrame ==
  ASSUME NEW f \in Frames, NEW match \in BOOLEAN
  PROVE  /\ Answered(f, match) \in Frames
         /\ Answered(f, match).node = f.node
         /\ Answered(f, match).next = f.next + 1
         /\ Answered(f, match).matched = (f.matched \/ match)
<1>1. f.node \in Nodes /\ f.next + 1 \in Nat \ {0}
  BY DEF Frames
<1>2. (f.matched \/ match) \in BOOLEAN
  BY Zenon
<1> QED BY <1>1, <1>2, Zenon DEF Answered, Frames

LEMMA FrameIsFrame ==
  ASSUME NEW n \in Nodes
  PROVE  /\ Frame(n) \in Frames /\ Frame(n).node = n
         /\ Frame(n).next = 1 /\ Frame(n).matched = FALSE
BY DEF Frame, Frames

LEMMA InitTypeOK == Init => TypeOK
<1>1. Frame("rootNode") \in Frames
  BY FrameIsFrame, ResourceWalkAssumption, Zenon
<1> QED BY <1>1 DEF Init, TypeOK, Walking

LEMMA StepKeepsTypeOK == TypeOK /\ [Next]_vars => TypeOK'
<1> SUFFICES ASSUME TypeOK, [Next]_vars PROVE TypeOK'
  OBVIOUS
<1> USE DEF Walking
<1>1. CASE Start
  <2>1. "schema" \in Fields /\ params["schema"] \in Values \cup {Undefined}
    BY ParamsHold, ResourceWalkAssumption
  <2>2. id' \in Seq(Sections)
    BY <1>1, <2>1 DEF Start, Sections
  <2>3. here' \in Frames
    BY <1>1, FrameIsFrame DEF Start
  <2> QED BY <1>1, <2>2, <2>3 DEF Start, TypeOK
<1>2. CASE StartUnknown
  BY <1>2 DEF StartUnknown, Keys, Throw, TypeOK
<1>3. CASE Descend
  <2>1. Neighbor \in Nodes \ {"rootNode"}
    BY <1>3, NeighborIsNode DEF Descend
  <2>2. id' \in Seq(Sections)
    BY <1>3, <2>1, NodesHaveFields DEF Descend, TypeOK
  <2>3. here' \in Frames
    BY <1>3, <2>1, FrameIsFrame DEF Descend
  <2>4. callers' \in Seq(Frames)
    <3>1. Answered(here, FALSE) \in Frames /\ callers \in Seq(Frames)
      BY AnsweredIsFrame, Zenon DEF TypeOK
    <3> QED BY <1>3, <3>1, PushIsSeq, Zenon DEF Descend
  <2> QED BY <1>3, <2>2, <2>3, <2>4 DEF Descend, TypeOK
<1>4. CASE PassBy \/ SkipOptional
  <2>1. here' \in Frames
    <3>1. Answered(here, FALSE) \in Frames /\ Answered(here, TRUE) \in Frames
      BY AnsweredIsFrame, Zenon DEF TypeOK
    <3> QED BY <1>4, <3>1 DEF PassBy, SkipOptional
  <2> QED BY <1>4, <2>1 DEF PassBy, SkipOptional, TypeOK
<1>5. CASE TakeValue
  <2>1. Neighbor \in Nodes \ {"rootNode"}
    BY <1>5, NeighborIsNode DEF TakeValue
  <2>2. id' \in Seq(Sections)
    BY <1>5, <2>1, NodesHaveFields DEF TakeValue, TypeOK
  <2>3. here' \in Frames
    BY <1>5, AnsweredIsFrame DEF TakeValue, TypeOK
  <2> QED BY <1>5, <2>2, <2>3 DEF TakeValue, TypeOK
<1>6. CASE RefuseMissing
  BY <1>6 DEF RefuseMissing, Throw, TypeOK
<1>7. CASE Fallback
  <2> DEFINE any == AnyChildNodeName[here.node]
  <2>1. here.node \in Nodes
    BY DEF TypeOK, Frames
  <2>2. any \in Nodes \ {"rootNode"}
    BY <1>7, <2>1, ResourceWalkAssumption DEF Fallback
  <2>3. id' \in Seq(Sections)
    BY <1>7, <2>2, NodesHaveFields DEF Fallback, TypeOK
  <2>4. here' \in Frames
    BY <1>7, <2>2, FrameIsFrame DEF Fallback
  <2> QED BY <1>7, <2>3, <2>4 DEF Fallback, TypeOK
<1>8. CASE RefuseUnmatched
  <2>1. here.node \in Nodes
    BY DEF TypeOK, Frames
  <2>2. ASSUME Neighbors[here.node] # <<>>
        PROVE  KeyName[Neighbors[here.node][1]] \in Fields \cup {"resourceValue"}
    <3>1. Neighbors[here.node] \in Seq(Nodes \ {"rootNode"})
      BY <2>1, ResourceWalkAssumption
    <3>2. Neighbors[here.node][1] \in Nodes \ {"rootNode"}
      BY <2>2, <3>1
    <3> QED BY <3>2, ResourceWalkAssumption DEF FieldOf, IsValue
  <2>3. field' \in Fields \cup {"resourceValue", Undefined}
    BY <1>8, <2>2 DEF RefuseUnmatched, Throw
  <2> QED BY <1>8, <2>3 DEF RefuseUnmatched, Throw, TypeOK
<1>9. CASE Return
  <2>1. Head(callers) \in Frames /\ Tail(callers) \in Seq(Frames)
    BY <1>9 DEF Return, TypeOK
  <2>2. here' \in Frames
    BY <1>9, <2>1 DEF Return, Frames
  <2> QED BY <1>9, <2>1, <2>2 DEF Return, TypeOK
<1>10. CASE Finish
  BY <1>10 DEF Finish, TypeOK
<1>11. CASE Another
  BY <1>11 DEF Another, TypeOK
<1>12. CASE UNCHANGED vars
  BY <1>12 DEF vars, TypeOK
<1> QED BY <1>1, <1>2, <1>3, <1>4, <1>5, <1>6, <1>7, <1>8, <1>9, <1>10, <1>11, <1>12
        DEF Next, Walk
----------------------------------------------------------------------------
(* A section that is written says what the parameters say.  If its field   *)
(* was not written before, no field is written twice.                      *)
LEMMA WriteFresh ==
  ASSUME TypeOK, EachFieldOnce, NEW n \in Nodes \ {"rootNode"},
         \A i \in DOMAIN id : id[i][1] # FieldOf(n),
         id' = Append(id, Section(n)), params' = params
  PROVE  EachFieldOnce'
<1> DEFINE k == Len(id)
<1>1. k \in Nat /\ DOMAIN id = 1 .. k
  BY DEF TypeOK
<1>2. /\ DOMAIN id' = 1 .. k + 1
      /\ \A i \in 1 .. k : id'[i] = id[i]
      /\ id'[k + 1] = Section(n)
  BY <1>1 DEF TypeOK
<1>3. id'[k + 1][1] = FieldOf(n) /\ id'[k + 1][2] = params[FieldOf(n)]
  BY <1>2 DEF Section
<1> HIDE DEF k
<1>4. ASSUME NEW i \in DOMAIN id' PROVE i \in DOMAIN id \/ i = k + 1
  BY <1>1, <1>2
<1>5. \A i \in DOMAIN id' : id'[i][2] = params[id'[i][1]]
  BY <1>1, <1>2, <1>3, <1>4 DEF EachFieldOnce
<1>6. \A i, j \in DOMAIN id' : id'[i][1] = id'[j][1] => i = j
  <2> SUFFICES ASSUME NEW i \in DOMAIN id', NEW j \in DOMAIN id', id'[i][1] = id'[j][1]
               PROVE  i = j
    OBVIOUS
  <2>1. CASE i \in DOMAIN id /\ j \in DOMAIN id
    BY <2>1, <1>1, <1>2 DEF EachFieldOnce
  <2>2. CASE i \in DOMAIN id /\ j = k + 1
    BY <2>2, <1>1, <1>2, <1>3
  <2>3. CASE i = k + 1 /\ j \in DOMAIN id
    BY <2>3, <1>1, <1>2, <1>3
  <2> QED BY <1>4, <2>1, <2>2, <2>3
<1> QED BY <1>5, <1>6 DEF EachFieldOnce

(* What was written with a section is what was written before, and it.     *)
LEMMA WrittenWith ==
  ASSUME TypeOK, NEW n \in Nodes, id' = Append(id, Section(n)), NEW i \in DOMAIN id'
  PROVE  (i \in DOMAIN id /\ id'[i] = id[i]) \/ id'[i][1] = FieldOf(n)
<1>1. i \in 1 .. Len(id) + 1 /\ Len(id) \in Nat
  BY DEF TypeOK
<1>2. CASE i \in 1 .. Len(id)
  BY <1>2 DEF TypeOK
<1>3. CASE i = Len(id) + 1
  <2>1. id'[i] = Section(n)
    BY <1>3 DEF TypeOK
  <2> QED BY <2>1 DEF Section
<1> QED BY <1>1, <1>2, <1>3

(* The levels of what is written.                                          *)
LEMMA LevelsAreNumbers ==
  ASSUME TypeOK
  PROVE  /\ \A i \in DOMAIN id : id[i][1] \in Fields /\ Level[id[i][1]] \in Nat
         /\ \A n \in Nodes \ {"rootNode"} : Level[FieldOf(n)] \in Nat
<1>1. \A i \in DOMAIN id : id[i] \in Sections
  BY DEF TypeOK
<1>2. \A i \in DOMAIN id : id[i][1] \in Fields
  BY <1>1 DEF Sections
<1> QED BY <1>2, NodesHaveFields, LayersAssumption

(* A node below a node with nothing deeper written is not written.         *)
LEMMA DeeperIsFresh ==
  ASSUME TypeOK, Above(here), NEW m \in Nodes \ {"rootNode"}, here.node # "rootNode",
         Level[FieldOf(m)] > Level[FieldOf(here.node)]
  PROVE  \A i \in DOMAIN id : id[i][1] # FieldOf(m)
<1>1. here.node \in Nodes
  BY DEF TypeOK, Frames
<1> QED BY <1>1, LevelsAreNumbers DEF Above
LEMMA NodeBelow ==
  ASSUME TypeOK, Walking, HereFits, ~ AtEnd, here.node # "rootNode"
  PROVE  Level[FieldOf(Neighbor)] > Level[FieldOf(here.node)]
<1>1. here.node \in Nodes
  BY DEF TypeOK, Frames
<1> QED BY <1>1, NeighborIsNode, LayersAssumption

(* At the root nothing matches: there is no schema, or it is the root.     *)
LEMMA NoMatchAtRoot ==
  ASSUME TypeOK, HereFits, ~ AtEnd, here.node = "rootNode"
  PROVE  ~ IsValue(Neighbor) /\ params[KeyName[Neighbor]] # Neighbor
<1>1. Neighbor \in Range(Neighbors["rootNode"]) /\ Neighbor \in Nodes \ {"rootNode"}
  BY NeighborIsNode
<1>2. KeyName[Neighbor] = "schema"
  BY <1>1, LayersAssumption
<1>3. Neighbor # Undefined
  BY <1>1, ResourceWalkAssumption
<1> QED BY <1>1, <1>2, <1>3 DEF HereFits, IsValue

(* Where a neighbor matches, its field is not written yet.                 *)
LEMMA MatchIsFresh ==
  ASSUME TypeOK, Walking, HereFits, ~ AtEnd,
         IsValue(Neighbor) \/ params[KeyName[Neighbor]] = Neighbor
  PROVE  /\ here.node # "rootNode"
         /\ \A i \in DOMAIN id : id[i][1] # FieldOf(Neighbor)
         /\ ~ IsValue(Neighbor) => ~ here.matched
<1>1. here.node # "rootNode"
  BY NoMatchAtRoot
<1>2. /\ here.next \in DOMAIN Neighbors[here.node]
      /\ Neighbor \in Nodes \ {"rootNode"}
      /\ Neighbor = Neighbors[here.node][here.next]
  BY NeighborIsNode DEF Neighbor
<1>3. ~ NoMore(here) /\ (NotYet(here) => IsValue(Neighbor)
                            /\ \A i \in DOMAIN id : id[i][1] # Neighbor)
  <2>1. here.next >= here.next
    BY DEF TypeOK, Frames
  <2> QED BY <1>2, <2>1, Zenon DEF NoMore, NoMoreFor, NotYet
<1>4. CASE ~ here.matched
  BY <1>1, <1>2, <1>4, NodeBelow, DeeperIsFresh DEF HereFits
<1>5. CASE here.matched /\ IsValue(Neighbor)
  BY <1>1, <1>3, <1>5 DEF HereFits, FieldOf
<1>6. here.matched => IsValue(Neighbor)
  BY <1>3 DEF HereFits
<1> QED BY <1>1, <1>4, <1>5, <1>6
(* The neighbors after one that matches: none of them matches if they are  *)
(* named by one field; if they are values, they are not written yet.       *)
LEMMA AfterAMatch ==
  ASSUME TypeOK, Walking, HereFits, ~ AtEnd,
         IsValue(Neighbor) \/ params[KeyName[Neighbor]] = Neighbor,
         NEW j \in DOMAIN Neighbors[here.node], j >= here.next + 1
  PROVE  /\ Neighbors[here.node][j] # Neighbor
         /\ KeyName[Neighbors[here.node][j]] = KeyName[Neighbor]
         /\ IsValue(Neighbor) => \A i \in DOMAIN id : id[i][1] # Neighbors[here.node][j]
<1> DEFINE m == Neighbors[here.node][j]
<1>1. /\ here.node \in Nodes /\ here.next \in Nat /\ j \in Nat
      /\ here.next \in DOMAIN Neighbors[here.node]
      /\ m \in Nodes \ {"rootNode"} /\ m \in Range(Neighbors[here.node])
  <2>1. here.node \in Nodes /\ here.next \in Nat
    BY DEF TypeOK, Frames
  <2>2. Neighbors[here.node] \in Seq(Nodes \ {"rootNode"})
    BY <2>1, ResourceWalkAssumption
  <2>3. m \in Range(Neighbors[here.node])
    BY DEF Range
  <2> QED BY <2>1, <2>2, <2>3, NeighborIsNode
<1>2. m # Neighbor /\ KeyName[m] = KeyName[Neighbor]
  BY <1>1, LayersAssumption DEF Neighbor
<1>3. ASSUME IsValue(Neighbor)
      PROVE  \A i \in DOMAIN id : id[i][1] # m
  <2>1. FieldOf(m) = m
    BY <1>2, <1>3 DEF IsValue, FieldOf
  <2>2. here.node # "rootNode"
    BY MatchIsFresh
  <2>3. CASE ~ here.matched
    <3>1. Level[FieldOf(m)] > Level[FieldOf(here.node)]
      BY <1>1, <2>2, LayersAssumption
    <3> HIDE DEF m
    <3> QED BY <1>1, <2>1, <2>2, <2>3, <3>1, DeeperIsFresh DEF HereFits
  <2>4. CASE here.matched
    <3>1. ~ NoMore(here)
      <4>1. here.next >= here.next
        BY <1>1
      <4> QED BY <1>1, <4>1, <1>3, Zenon DEF NoMore, NoMoreFor, Neighbor
    <3>2. NotYet(here)
      BY <2>4, <3>1 DEF HereFits
    <3> QED BY <1>1, <3>2 DEF NotYet
  <2> QED BY <2>3, <2>4
<1> QED BY <1>2, <1>3

(* Below a node with nothing deeper written, a walk may go on.             *)
LEMMA GoesBelow ==
  ASSUME TypeOK, Above(here), here.node # "rootNode", NEW m \in Nodes \ {"rootNode"},
         Level[FieldOf(m)] > Level[FieldOf(here.node)],
         id' = Append(id, Section(m)), here' = Frame(m)
  PROVE  HereFits'
<1>1. here'.node = m /\ here'.matched = FALSE
  BY FrameIsFrame
<1>2. \A i \in DOMAIN id' : Level[id'[i][1]] <= Level[FieldOf(m)]
  <2> SUFFICES ASSUME NEW i \in DOMAIN id' PROVE Level[id'[i][1]] <= Level[FieldOf(m)]
    OBVIOUS
  <2>1. here.node \in Nodes
    BY DEF TypeOK, Frames
  <2>2. CASE i \in DOMAIN id /\ id'[i] = id[i]
    BY <2>1, <2>2, LevelsAreNumbers DEF Above
  <2>3. CASE id'[i][1] = FieldOf(m)
    BY <2>3, LevelsAreNumbers
  <2> QED BY <2>2, <2>3, WrittenWith
<1> QED BY <1>1, <1>2 DEF HereFits, Above
----------------------------------------------------------------------------
LEMMA InitIInv == Init => IInv
<1>1. Init => EachFieldOnce /\ ~ Walking
  BY DEF Init, EachFieldOnce, Walking
<1> QED BY <1>1, InitTypeOK DEF IInv

LEMMA CallersKeepFitting ==
  ASSUME CallersFit, params' = params, callers' = callers
  PROVE  CallersFit'
BY DEF CallersFit, NoMore

LEMMA StepKeepsIInv == IInv /\ [Next]_vars => IInv'
<1> SUFFICES ASSUME IInv, [Next]_vars PROVE IInv'
  OBVIOUS
<1>1. TypeOK /\ TypeOK' /\ EachFieldOnce
  BY StepKeepsTypeOK DEF IInv
<1>2. Walking => HereFits /\ CallersFit
  BY DEF IInv
<1>3. CASE Start
  <2>1. callers' = <<>> /\ id' = <<<<"schema", params["schema"]>>>> /\ params' = params
        /\ here' = Frame(StartNode) /\ StartNode \in Nodes
    BY <1>1, <1>3 DEF Start, TypeOK, Walking
  <2>2. DOMAIN id' = {1} /\ id'[1][1] = "schema" /\ id'[1][2] = params["schema"]
    BY <2>1
  <2>3. EachFieldOnce'
    BY <2>1, <2>2 DEF EachFieldOnce
  <2>4. here'.node = StartNode /\ here'.matched = FALSE
    BY <2>1, FrameIsFrame
  <2>5. here'.node = "rootNode" => params'["schema"] \in {Undefined, "rootNode"}
    BY <2>1, <2>4 DEF StartNode
  <2>6. here'.node # "rootNode" => Above(here)'
    <3>1. ASSUME here'.node # "rootNode" PROVE Level["schema"] <= Level[FieldOf(here'.node)]
      BY <1>1, <2>1, <2>4, <3>1, LevelsAreNumbers, LayersAssumption
    <3> QED BY <2>2, <3>1 DEF Above
  <2>7. CallersFit'
    BY <2>1 DEF CallersFit
  <2> QED BY <1>1, <2>3, <2>4, <2>5, <2>6, <2>7 DEF IInv, HereFits
<1>4. CASE StartUnknown \/ RefuseMissing \/ RefuseUnmatched \/ Finish
  <2>1. ~ Walking' /\ id' = id /\ params' = params
    BY <1>4 DEF StartUnknown, RefuseMissing, RefuseUnmatched, Finish, Throw, Walking
  <2> QED BY <1>1, <2>1 DEF IInv, EachFieldOnce
<1>5. CASE Descend
  <2>1. /\ Walking /\ ~ AtEnd /\ ~ IsValue(Neighbor) /\ params[KeyName[Neighbor]] = Neighbor
        /\ id' = Append(id, Section(Neighbor)) /\ params' = params
        /\ callers' = <<Answered(here, FALSE)>> \o callers /\ here' = Frame(Neighbor)
    BY <1>5 DEF Descend
  <2>2. HereFits /\ CallersFit /\ Neighbor \in Nodes \ {"rootNode"} /\ here \in Frames
    BY <1>1, <1>2, <2>1, NeighborIsNode DEF TypeOK
  <2>3. /\ here.node # "rootNode" /\ ~ here.matched
        /\ \A i \in DOMAIN id : id[i][1] # FieldOf(Neighbor)
    BY <1>1, <2>1, <2>2, MatchIsFresh
  <2>4. EachFieldOnce'
    BY <1>1, <2>1, <2>2, <2>3, WriteFresh
  <2>5. HereFits'
    BY <1>1, <2>1, <2>2, <2>3, NodeBelow, GoesBelow DEF HereFits
  <2>6. PICK pushed \in Frames : pushed = Answered(here, FALSE)
    BY <2>2, AnsweredIsFrame, Zenon
  <2>7. NoMoreFor(pushed, params) /\ pushed.node # "rootNode"
    <3>1. pushed.node = here.node /\ pushed.next = here.next + 1
      BY <2>2, <2>6, AnsweredIsFrame, Zenon
    <3>2. ASSUME NEW j \in DOMAIN Neighbors[here.node], j >= here.next + 1
          PROVE  /\ ~ IsValue(Neighbors[here.node][j])
                 /\ params[KeyName[Neighbors[here.node][j]]] # Neighbors[here.node][j]
      <4>1. /\ Neighbors[here.node][j] # Neighbor
            /\ KeyName[Neighbors[here.node][j]] = KeyName[Neighbor]
        BY <1>1, <2>1, <2>2, <3>2, AfterAMatch
      <4> QED BY <2>1, <4>1 DEF IsValue
    <3> QED BY <2>3, <3>1, <3>2, Zenon DEF NoMoreFor
  <2>8. CallersFit'
    <3>1. callers' = <<pushed>> \o callers /\ callers \in Seq(Frames)
      BY <1>1, <2>1, <2>6 DEF TypeOK
    <3> DEFINE Fitting == {f \in Frames : NoMoreFor(f, params) /\ f.node # "rootNode"}
    <3>2. \A j \in DOMAIN callers : callers[j] \in Frames /\ DOMAIN callers = 1..Len(callers)
      BY <3>1
    <3>3. \A j \in DOMAIN callers : callers[j] \in Fitting
      BY <2>2, <3>2, Zenon DEF CallersFit, NoMore
    <3>4. pushed \in Fitting
      BY <2>6, <2>7, Zenon
    <3>5. callers \in Seq(Fitting)
      <4> HIDE DEF Fitting
      <4> QED BY <3>1, <3>3
    <3>6. callers' \in Seq(Fitting) /\ \A k \in DOMAIN callers' : callers'[k] \in Fitting
      <4> HIDE DEF Fitting
      <4> QED BY <3>1, <3>4, <3>5
    <3>7. \A k \in DOMAIN callers' : NoMoreFor(callers'[k], params) /\ callers'[k].node # "rootNode"
      BY <3>6, Zenon
    <3> QED BY <2>1, <3>7, Zenon DEF CallersFit, NoMore
  <2> QED BY <1>1, <2>4, <2>5, <2>8 DEF IInv
<1>6. CASE PassBy
  <2>1. /\ Walking /\ id' = id /\ params' = params /\ callers' = callers
        /\ here' = Answered(here, FALSE)
    BY <1>6 DEF PassBy
  <2>2. HereFits /\ CallersFit /\ here \in Frames
    BY <1>1, <1>2, <2>1 DEF TypeOK
  <2>3. here'.node = here.node /\ here'.next = here.next + 1 /\ (here'.matched <=> here.matched)
    BY <2>1, <2>2, AnsweredIsFrame, Zenon
  <2>4. \A j \in DOMAIN Neighbors[here.node] : j >= here'.next => j >= here.next
    <3>1. here.next \in Nat /\ here.node \in Nodes
      BY <2>2 DEF Frames
    <3>2. \A j \in DOMAIN Neighbors[here.node] : j \in Nat
      BY <3>1, ResourceWalkAssumption
    <3> QED BY <2>3, <3>1, <3>2
  <2>5. HereFits'
    <3>1. Above(here) => Above(here)'
      BY <2>1, <2>3 DEF Above
    <3>2. NoMore(here) => NoMore(here)'
      BY <2>1, <2>3, <2>4, Zenon DEF NoMore, NoMoreFor
    <3>3. NotYet(here) => NotYet(here)'
      BY <2>1, <2>3, <2>4, Zenon DEF NotYet
    <3> QED BY <2>1, <2>2, <2>3, <3>1, <3>2, <3>3 DEF HereFits
  <2> QED BY <1>1, <2>1, <2>2, <2>5, CallersKeepFitting DEF IInv, EachFieldOnce
<1>7. CASE TakeValue
  <2>1. /\ Walking /\ ~ AtEnd /\ IsValue(Neighbor)
        /\ id' = Append(id, Section(Neighbor)) /\ params' = params
        /\ callers' = callers /\ here' = Answered(here, TRUE)
    BY <1>7 DEF TakeValue
  <2>2. HereFits /\ CallersFit /\ Neighbor \in Nodes \ {"rootNode"} /\ here \in Frames
    BY <1>1, <1>2, <2>1, NeighborIsNode DEF TypeOK
  <2>3. here.node # "rootNode" /\ \A i \in DOMAIN id : id[i][1] # FieldOf(Neighbor)
    BY <1>1, <2>1, <2>2, MatchIsFresh
  <2>4. EachFieldOnce'
    BY <1>1, <2>1, <2>2, <2>3, WriteFresh
  <2>5. here'.node = here.node /\ here'.next = here.next + 1 /\ here'.matched
    BY <2>1, <2>2, AnsweredIsFrame, Zenon
  <2>6. NotYet(here)'
    <3> SUFFICES ASSUME NEW j \in DOMAIN Neighbors[here.node], j >= here.next + 1
                 PROVE  /\ IsValue(Neighbors[here.node][j])
                        /\ \A i \in DOMAIN id' : id'[i][1] # Neighbors[here.node][j]
      BY <2>5, Zenon DEF NotYet
    <3>1. /\ Neighbors[here.node][j] # Neighbor
          /\ KeyName[Neighbors[here.node][j]] = KeyName[Neighbor]
          /\ \A h \in DOMAIN id : id[h][1] # Neighbors[here.node][j]
      BY <1>1, <2>1, <2>2, AfterAMatch
    <3>2. \A i \in DOMAIN id' : id'[i][1] = Neighbor \/ (i \in DOMAIN id /\ id'[i] = id[i])
      BY <1>1, <2>1, <2>2, WrittenWith DEF FieldOf
    <3> QED BY <2>1, <3>1, <3>2 DEF IsValue
  <2> QED BY <1>1, <2>1, <2>2, <2>3, <2>4, <2>5, <2>6, CallersKeepFitting DEF IInv, HereFits
<1>8. CASE SkipOptional
  <2>1. /\ Walking /\ ~ AtEnd /\ IsValue(Neighbor)
        /\ id' = id /\ params' = params
        /\ callers' = callers /\ here' = Answered(here, TRUE)
    BY <1>8 DEF SkipOptional
  <2>2. HereFits /\ CallersFit /\ here \in Frames
    BY <1>1, <1>2, <2>1 DEF TypeOK
  <2>3. here.node # "rootNode"
    BY <1>1, <2>1, <2>2, MatchIsFresh
  <2>4. here'.node = here.node /\ here'.next = here.next + 1 /\ here'.matched
    BY <2>1, <2>2, AnsweredIsFrame, Zenon
  <2>5. NotYet(here)'
    <3> SUFFICES ASSUME NEW j \in DOMAIN Neighbors[here.node], j >= here.next + 1
                 PROVE  /\ IsValue(Neighbors[here.node][j])
                        /\ \A i \in DOMAIN id : id[i][1] # Neighbors[here.node][j]
      BY <2>1, <2>4, Zenon DEF NotYet
    <3> QED BY <1>1, <2>1, <2>2, AfterAMatch DEF IsValue
  <2> QED BY <1>1, <2>1, <2>2, <2>3, <2>4, <2>5, CallersKeepFitting
          DEF IInv, HereFits, EachFieldOnce
<1>9. CASE Fallback
  <2> DEFINE any == AnyChildNodeName[here.node]
  <2>1. /\ Walking /\ ~ here.matched /\ any # Undefined
        /\ id' = Append(id, Section(any)) /\ here' = Frame(any)
        /\ params' = params /\ callers' = callers
    BY <1>9 DEF Fallback
  <2>2. HereFits /\ CallersFit /\ here.node \in Nodes
    BY <1>1, <1>2, <2>1 DEF TypeOK, Frames
  <2>3. here.node # "rootNode" /\ any \in Nodes \ {"rootNode"}
        /\ Level[FieldOf(any)] > Level[FieldOf(here.node)]
    BY <2>1, <2>2, ResourceWalkAssumption, LayersAssumption
  <2> HIDE DEF any
  <2>4. Above(here)
    BY <2>1, <2>2, <2>3 DEF HereFits
  <2>5. EachFieldOnce'
    BY <1>1, <2>1, <2>3, <2>4, DeeperIsFresh, WriteFresh
  <2>6. HereFits'
    BY <1>1, <2>1, <2>3, <2>4, GoesBelow
  <2> QED BY <1>1, <2>1, <2>2, <2>5, <2>6, CallersKeepFitting DEF IInv
<1>10. CASE Return
  <2>1. /\ Walking /\ callers # <<>> /\ id' = id /\ params' = params
        /\ here' = [Head(callers) EXCEPT !.matched = TRUE] /\ callers' = Tail(callers)
    BY <1>10 DEF Return
  <2>2. CallersFit /\ 1 \in DOMAIN callers /\ Head(callers) = callers[1] /\ callers[1] \in Frames
    BY <1>1, <1>2, <2>1 DEF TypeOK
  <2>3. /\ here'.node = callers[1].node /\ here'.next = callers[1].next
        /\ here'.matched = TRUE
    BY <2>1, <2>2 DEF Frames
  <2>4. NoMore(here)' /\ here'.node # "rootNode"
    BY <2>1, <2>2, <2>3 DEF CallersFit, NoMore, NoMoreFor
  <2>5. CallersFit'
    <3>1. \A k \in DOMAIN Tail(callers) : k + 1 \in DOMAIN callers /\ Tail(callers)[k] = callers[k + 1]
      BY <1>1, <2>1 DEF TypeOK
    <3> QED BY <2>1, <2>2, <3>1 DEF CallersFit, NoMore
  <2> QED BY <1>1, <2>1, <2>3, <2>4, <2>5 DEF IInv, HereFits, EachFieldOnce
<1>11. CASE Another
  <2>1. ~ Walking' /\ id' = <<>>
    BY <1>11 DEF Another, Walking
  <2> QED BY <1>1, <2>1 DEF IInv, EachFieldOnce
<1>12. CASE UNCHANGED vars
  BY <1>1, <1>2, <1>12 DEF vars, IInv, EachFieldOnce, Walking, HereFits, CallersFit,
                          Above, NoMore, NotYet
<1> QED BY <1>3, <1>4, <1>5, <1>6, <1>7, <1>8, <1>9, <1>10, <1>11, <1>12 DEF Next, Walk

THEOREM Invariant == Spec => []IInv
BY InitIInv, StepKeepsIInv, PTL DEF Spec

(* TypeOK: every variable keeps its shape; no call of mapNodes is left     *)
(* behind when an id is given.                                             *)
THEOREM TypeCorrect == Spec => []TypeOK
<1>1. IInv => TypeOK
  BY DEF IInv
<1> QED BY <1>1, Invariant, PTL

(* EachFieldOnce: on any graph in layers, an id says of each field what    *)
(* the parameters say, and says it once.                                   *)
THEOREM FieldsOnce == Spec => []EachFieldOnce
<1>1. IInv => EachFieldOnce
  BY DEF IInv
<1> QED BY <1>1, Invariant, PTL
----------------------------------------------------------------------------
(* How many steps a walk has left at most, on a graph of this width and    *)
(* depth: a call of mapNodes goes once through its neighbors, and of each  *)
(* call one neighbor or the node for any other leads deeper.               *)
Within(f) == f.next <= Len(Neighbors[f.node]) + 1

AllWithin == Within(here) /\ \A k \in DOMAIN callers : Within(callers[k])

Bounds(w, d) ==
  /\ w \in Nat /\ d \in Nat
  /\ \A n \in Nodes : Len(Neighbors[n]) <= w
  /\ \A f \in Fields : Level[f] <= d

LevelsBelow(f, d) ==
  IF f.matched \/ f.node = "rootNode" THEN 0 ELSE d - Level[FieldOf(f.node)]

StepsLeft(w, d) ==
  CASE outcome = "new" -> d * (2 * w + 2) + w + 2
    [] Walking         -> LevelsBelow(here, d) * (2 * w + 2) + Len(callers) * (w + 1)
                            + w + 2 - here.next
    [] OTHER           -> 0

LEMMA InitAllWithin == Init => AllWithin
<1>1. Frame("rootNode").next = 1
  BY FrameIsFrame, ResourceWalkAssumption
<1>2. Len(Neighbors[Frame("rootNode").node]) \in Nat
  BY FrameIsFrame, ResourceWalkAssumption
<1> QED BY <1>1, <1>2 DEF Init, AllWithin, Within

LEMMA StepKeepsAllWithin == TypeOK /\ AllWithin /\ [Next]_vars => AllWithin'
<1> SUFFICES ASSUME TypeOK, AllWithin, [Next]_vars PROVE AllWithin'
  OBVIOUS
<1>1. here \in Frames /\ callers \in Seq(Frames) /\ \A n \in Nodes : Len(Neighbors[n]) \in Nat
  BY ResourceWalkAssumption DEF TypeOK
<1>2. \A n \in Nodes : Within(Frame(n))
  <2>1. \A n \in Nodes : Frame(n).node = n /\ Frame(n).next = 1
    BY FrameIsFrame
  <2>2. \A k \in Nat : 1 <= k + 1
    OBVIOUS
  <2> QED BY <1>1, <2>1, <2>2, Zenon DEF Within
<1>3. ASSUME ~ AtEnd, NEW match \in BOOLEAN PROVE Within(Answered(here, match))
  <2>1. Answered(here, match).node = here.node /\ Answered(here, match).next = here.next + 1
    BY <1>1, <1>3, AnsweredIsFrame, Zenon
  <2>2. here.next + 1 <= Len(Neighbors[here.node]) + 1
    BY <1>1, <1>3 DEF AtEnd, Frames
  <2> QED BY <2>1, <2>2, Zenon DEF Within
<1>4. ASSUME Start PROVE AllWithin'
  BY <1>1, <1>2, <1>4 DEF Start, AllWithin, Within
<1>5. ASSUME Descend PROVE AllWithin'
  <2>1. Within(here')
    BY <1>2, <1>5, NeighborIsNode DEF Descend
  <2>2. PICK pushed \in Frames : pushed = Answered(here, FALSE) /\ Within(pushed)
    BY <1>1, <1>3, <1>5, AnsweredIsFrame, Zenon DEF Descend
  <2>3. \A k \in DOMAIN callers' : callers'[k] = pushed \/ \E j \in DOMAIN callers : callers'[k] = callers[j]
    <3>1. callers' = <<pushed>> \o callers
      BY <1>5, <2>2 DEF Descend
    <3> QED BY <1>1, <3>1
  <2> QED BY <2>1, <2>2, <2>3, Zenon DEF AllWithin, Within
<1>6. ASSUME PassBy \/ TakeValue \/ SkipOptional PROVE AllWithin'
  <2>1. ~ AtEnd /\ callers' = callers /\ (here' = Answered(here, FALSE) \/ here' = Answered(here, TRUE))
    BY <1>6 DEF PassBy, TakeValue, SkipOptional
  <2> QED BY <1>3, <2>1 DEF AllWithin, Within
<1>7. ASSUME Fallback PROVE AllWithin'
  <2>1. AnyChildNodeName[here.node] \in Nodes
    BY <1>1, <1>7, ResourceWalkAssumption DEF Fallback, Frames
  <2> QED BY <1>2, <1>7, <2>1 DEF Fallback, AllWithin, Within
<1>8. ASSUME Return PROVE AllWithin'
  <2>1. /\ callers' = Tail(callers) /\ 1 \in DOMAIN callers /\ Head(callers) = callers[1]
        /\ here'.node = callers[1].node /\ here'.next = callers[1].next
    BY <1>1, <1>8 DEF Return, Frames
  <2>2. \A k \in DOMAIN callers' : \E j \in DOMAIN callers : callers'[k] = callers[j]
    <3>1. \A k \in DOMAIN Tail(callers) : k + 1 \in DOMAIN callers /\ Tail(callers)[k] = callers[k + 1]
      BY <1>1, <2>1
    <3> QED BY <2>1, <3>1
  <2> QED BY <2>1, <2>2, Zenon DEF AllWithin, Within
<1>9. ASSUME here' = here, callers' = callers PROVE AllWithin'
  BY <1>9 DEF AllWithin, Within
<1> QED BY <1>4, <1>5, <1>6, <1>7, <1>8, <1>9
        DEF Next, Walk, StartUnknown, RefuseMissing, RefuseUnmatched, Finish, Another, Throw, vars

(* To go a level deeper is worth more than two calls' neighbors.           *)
LEMMA DeeperIsLess ==
  ASSUME NEW a \in Nat, NEW b \in Nat, NEW w \in Nat, a < b
  PROVE  a * (2 * w + 2) + 2 * w + 2 <= b * (2 * w + 2)
<1>1. PICK c \in Nat : b = a + 1 + c
  <2>1. b - (a + 1) \in Nat /\ b = a + 1 + (b - (a + 1))
    OBVIOUS
  <2> QED BY <2>1
<1>2. PICK s \in Nat : s = 2 * w + 2
  OBVIOUS
<1>3. (a + 1 + c) * s = a * s + s + c * s /\ c * s \in Nat
  BY <1>2
<1> QED BY <1>1, <1>2, <1>3

LEMMA FramesCount ==
  ASSUME NEW CONSTANT w, NEW CONSTANT d, Bounds(w, d), NEW f \in Frames, Within(f), NEW s \in Seq(Frames)
  PROVE  /\ LevelsBelow(f, d) \in Nat /\ LevelsBelow(f, d) <= d
         /\ f.next \in Nat \ {0} /\ w + 2 - f.next \in Nat \ {0}
         /\ LevelsBelow(f, d) * (2 * w + 2) \in Nat /\ Len(s) * (w + 1) \in Nat
<1>1. w \in Nat /\ d \in Nat /\ f.node \in Nodes /\ f.next \in Nat \ {0} /\ Len(s) \in Nat
  BY DEF Bounds, Frames
<1>2. LevelsBelow(f, d) \in Nat /\ LevelsBelow(f, d) <= d
  <2>1. CASE f.matched \/ f.node = "rootNode"
    BY <1>1, <2>1 DEF LevelsBelow
  <2>2. CASE ~ f.matched /\ f.node # "rootNode"
    <3>1. FieldOf(f.node) \in Fields /\ Level[FieldOf(f.node)] \in Nat
      BY <1>1, <2>2, ResourceWalkAssumption, LayersAssumption
    <3> QED BY <1>1, <2>2, <3>1 DEF LevelsBelow, Bounds
  <2> QED BY <2>1, <2>2
<1>3. w + 2 - f.next \in Nat \ {0}
  <2>1. f.next <= Len(Neighbors[f.node]) + 1 /\ Len(Neighbors[f.node]) <= w
    BY <1>1 DEF Bounds, Within
  <2>2. Len(Neighbors[f.node]) \in Nat
    BY <1>1, ResourceWalkAssumption
  <2> QED BY <1>1, <2>1, <2>2
<1>4. LevelsBelow(f, d) * (2 * w + 2) \in Nat /\ Len(s) * (w + 1) \in Nat
  <2>1. \A m, n \in Nat : m * n \in Nat
    OBVIOUS
  <2>2. 2 * w + 2 \in Nat /\ w + 1 \in Nat
    BY <1>1
  <2> QED BY <1>1, <1>2, <2>1, <2>2
<1> QED BY <1>1, <1>2, <1>3, <1>4

LEMMA StepsAreCounted ==
  ASSUME NEW CONSTANT w, NEW CONSTANT d, Bounds(w, d), TypeOK, AllWithin
  PROVE  /\ StepsLeft(w, d) \in Nat
         /\ outcome = "new" \/ Walking => StepsLeft(w, d) # 0
<1>1. /\ w + 2 - here.next \in Nat \ {0} /\ here.next \in Nat
      /\ LevelsBelow(here, d) * (2 * w + 2) \in Nat /\ Len(callers) * (w + 1) \in Nat
  BY FramesCount DEF TypeOK, AllWithin
<1>2. w \in Nat /\ d * (2 * w + 2) \in Nat
  BY DEF Bounds
<1>3. CASE outcome = "new"
  <2>1. StepsLeft(w, d) = d * (2 * w + 2) + w + 2
    BY <1>3 DEF StepsLeft, Walking
  <2> QED BY <1>2, <2>1
<1>4. CASE Walking
  <2>1. StepsLeft(w, d) = LevelsBelow(here, d) * (2 * w + 2) + Len(callers) * (w + 1) + w + 2 - here.next
    BY <1>4 DEF StepsLeft, Walking
  <2>2. \A a, b \in Nat : a + b + w + 2 - here.next \in Nat \ {0}
    BY <1>1, <1>2
  <2> HIDE DEF LevelsBelow
  <2> QED BY <1>1, <2>1, <2>2
<1>5. CASE outcome # "new" /\ ~ Walking
  BY <1>5 DEF StepsLeft
<1> QED BY <1>3, <1>4, <1>5

(* The arithmetic of a step: what the levels below, the callers and the    *)
(* neighbors to come stand for, before it and after it.                    *)
LEMMA Fewer ==
  ASSUME NEW w \in Nat, NEW b \in Nat, NEW c \in Nat, NEW n \in Nat \ {0},
         NEW b1 \in Nat, NEW c1 \in Nat, NEW n1 \in Nat \ {0}, w + 2 - n \in Nat \ {0},
         \/ b1 + 2 * w + 2 <= b /\ c1 <= c + w + 1
         \/ b1 <= b /\ c1 = c /\ n1 = n + 1
         \/ b1 <= b /\ c = c1 + w + 1
  PROVE  b1 + c1 + w + 2 - n1 < b + c + w + 2 - n
OBVIOUS

(* Each step of a walk leaves fewer of them.                               *)
LEMMA StepLeavesFewer ==
  ASSUME NEW CONSTANT w, NEW CONSTANT d, Bounds(w, d), IInv, IInv', AllWithin, AllWithin', Walk
  PROVE  StepsLeft(w, d)' < StepsLeft(w, d)
<1>1. TypeOK /\ TypeOK' /\ (Walking => HereFits)
  BY DEF IInv
<1>2. w \in Nat /\ d \in Nat /\ here \in Frames /\ here.node \in Nodes /\ callers \in Seq(Frames)
  BY <1>1 DEF Bounds, TypeOK, Frames
<1>3. PICK f \in Frames, s \in Seq(Frames) : f = here' /\ s = callers' /\ Within(f)
  BY <1>1 DEF TypeOK, AllWithin, Within
<1> DEFINE L  == LevelsBelow(here, d)
           L1 == LevelsBelow(f, d)
           B  == L * (2 * w + 2)
           B1 == L1 * (2 * w + 2)
           C  == Len(callers) * (w + 1)
           C1 == Len(s) * (w + 1)
<1>4. /\ L \in Nat /\ L <= d /\ B \in Nat /\ C \in Nat
      /\ here.next \in Nat \ {0} /\ w + 2 - here.next \in Nat \ {0}
  BY <1>2, FramesCount DEF AllWithin
<1>5. /\ L1 \in Nat /\ L1 <= d /\ B1 \in Nat /\ C1 \in Nat
      /\ f.next \in Nat \ {0} /\ w + 2 - f.next \in Nat \ {0}
  BY <1>3, FramesCount
<1>6. /\ Walking => StepsLeft(w, d) = B + C + w + 2 - here.next
      /\ Walking' => StepsLeft(w, d)' = B1 + C1 + w + 2 - f.next
  <2>1. Walking => StepsLeft(w, d) = B + C + w + 2 - here.next
    BY DEF Walking, StepsLeft
  <2>2. Walking' => StepsLeft(w, d)' = B1 + C1 + w + 2 - f.next
    BY <1>3 DEF Walking, StepsLeft
  <2> QED BY <2>1, <2>2, Zenon
<1>7. ASSUME Walking, Walking',
             \/ B1 + 2 * w + 2 <= B /\ C1 <= C + w + 1
             \/ B1 <= B /\ C1 = C /\ f.next = here.next + 1
             \/ B1 <= B /\ C = C1 + w + 1
      PROVE  StepsLeft(w, d)' < StepsLeft(w, d)
  <2> HIDE DEF B, B1, C, C1
  <2>1. B1 + C1 + w + 2 - f.next < B + C + w + 2 - here.next
    BY <1>2, <1>4, <1>5, <1>7, Fewer, Zenon
  <2> QED BY <1>6, <1>7, <2>1, Zenon
(* A level deeper, from where nothing has matched yet.                     *)
<1>8. ASSUME NEW n \in Nodes \ {"rootNode"}, f = Frame(n), Walking,
             ~ here.matched, here.node # "rootNode",
             Level[FieldOf(n)] > Level[FieldOf(here.node)]
      PROVE  B1 + 2 * w + 2 <= B
  <2>1. f.node = n /\ f.matched = FALSE
    BY <1>8, FrameIsFrame
  <2>2. L1 = d - Level[FieldOf(n)] /\ L = d - Level[FieldOf(here.node)]
    BY <1>8, <2>1 DEF LevelsBelow
  <2>3. Level[FieldOf(n)] \in Nat /\ Level[FieldOf(here.node)] \in Nat
    BY <1>1, <1>2, <1>8, LevelsAreNumbers
  <2>4. L1 < L
    BY <1>2, <1>8, <2>2, <2>3
  <2> HIDE DEF L, L1
  <2> QED BY <1>2, <1>4, <1>5, <2>4, DeeperIsLess
<1>9. CASE StartUnknown \/ RefuseMissing \/ RefuseUnmatched \/ Finish
  <2>1. StepsLeft(w, d)' = 0
    BY <1>9 DEF StartUnknown, RefuseMissing, RefuseUnmatched, Finish, Throw, StepsLeft, Walking
  <2>2. outcome = "new" \/ Walking
    BY <1>9 DEF StartUnknown, RefuseMissing, RefuseUnmatched, Finish
  <2>3. StepsLeft(w, d) \in Nat /\ StepsLeft(w, d) # 0
    BY <1>1, <2>2, StepsAreCounted
  <2> QED BY <2>1, <2>3
<1>10. CASE Start
  <2>1. Walking' /\ s = <<>> /\ StepsLeft(w, d) = d * (2 * w + 2) + w + 2
    BY <1>1, <1>3, <1>10 DEF Start, TypeOK, Walking, StepsLeft
  <2>2. C1 = 0
    BY <1>2, <2>1
  <2>3. B1 <= d * (2 * w + 2)
    <3>1. CASE L1 = d
      BY <1>2, <3>1
    <3>2. CASE L1 < d
      <4> HIDE DEF L1
      <4>1. L1 * (2 * w + 2) + 2 * w + 2 <= d * (2 * w + 2)
        BY <1>2, <1>5, <3>2, DeeperIsLess
      <4> QED BY <1>2, <1>5, <4>1
    <3> QED BY <1>2, <1>5, <3>1, <3>2
  <2>4. d * (2 * w + 2) \in Nat
    BY <1>2
  <2>5. StepsLeft(w, d)' = B1 + C1 + w + 2 - f.next
    BY <1>6, <2>1, Zenon
  <2>6. B1 + 0 + w + 2 - f.next < d * (2 * w + 2) + w + 2
    <3> DEFINE D == d * (2 * w + 2)
    <3>1. \A x, y \in Nat : x <= y => x + 0 + w + 2 - f.next < y + w + 2
      BY <1>2, <1>5
    <3> HIDE DEF B1, D
    <3> QED BY <1>5, <2>3, <2>4, <3>1 DEF D
  <2> HIDE DEF B1, C1
  <2> QED BY <2>1, <2>2, <2>5, <2>6, Zenon
<1>11. CASE Descend
  <2>1. /\ Walking /\ Walking' /\ ~ AtEnd /\ ~ IsValue(Neighbor) /\ params[KeyName[Neighbor]] = Neighbor
        /\ f = Frame(Neighbor) /\ s = <<Answered(here, FALSE)>> \o callers
    BY <1>3, <1>11 DEF Descend, Walking
  <2>2. here.node # "rootNode" /\ ~ here.matched /\ Neighbor \in Nodes \ {"rootNode"}
    BY <1>1, <2>1, MatchIsFresh, NeighborIsNode
  <2>3. Level[FieldOf(Neighbor)] > Level[FieldOf(here.node)]
    BY <1>1, <2>1, <2>2, NodeBelow
  <2>4. B1 + 2 * w + 2 <= B
    BY <1>8, <2>1, <2>2, <2>3
  <2>5. Len(s) = Len(callers) + 1
    <3>1. PICK pushed \in Frames : pushed = Answered(here, FALSE)
      BY <1>2, AnsweredIsFrame, Zenon
    <3> QED BY <1>2, <2>1, <3>1
  <2>6. C1 <= C + w + 1
    BY <1>2, <2>5
  <2> QED BY <1>7, <2>1, <2>4, <2>6
<1>12. CASE Fallback
  <2> DEFINE any == AnyChildNodeName[here.node]
  <2>1. /\ Walking /\ Walking' /\ ~ here.matched /\ any # Undefined
        /\ f = Frame(any) /\ s = callers
    BY <1>3, <1>12 DEF Fallback, Walking
  <2>2. here.node # "rootNode" /\ any \in Nodes \ {"rootNode"}
        /\ Level[FieldOf(any)] > Level[FieldOf(here.node)]
    BY <1>2, <2>1, ResourceWalkAssumption, LayersAssumption
  <2> HIDE DEF any
  <2>3. B1 + 2 * w + 2 <= B
    BY <1>8, <2>1, <2>2
  <2>4. C1 <= C + w + 1
    BY <1>2, <2>1
  <2> QED BY <1>7, <2>1, <2>3, <2>4
<1>13. CASE PassBy \/ TakeValue \/ SkipOptional
  <2>1. /\ Walking /\ Walking' /\ s = callers
        /\ f = Answered(here, FALSE) \/ f = Answered(here, TRUE)
    BY <1>3, <1>13 DEF PassBy, TakeValue, SkipOptional, Walking
  <2>2. f.node = here.node /\ f.next = here.next + 1 /\ (here.matched => f.matched)
    BY <1>2, <2>1, AnsweredIsFrame, Zenon
  <2>3. L1 = L \/ L1 = 0
    BY <2>2 DEF LevelsBelow
  <2>4. B1 <= B
    <3>1. CASE L1 = L
      BY <1>4, <3>1
    <3>2. CASE L1 = 0
      <4>1. B1 = 0
        BY <1>2, <3>2
      <4> HIDE DEF B
      <4> QED BY <1>4, <4>1
    <3> QED BY <2>3, <3>1, <3>2
  <2>5. C1 = C
    BY <2>1
  <2> QED BY <1>7, <2>1, <2>2, <2>4, <2>5
<1>14. CASE Return
  <2>1. /\ Walking /\ Walking' /\ callers # <<>> /\ s = Tail(callers)
        /\ here.matched /\ f.matched
    <3>1. Head(callers) \in Frames
      BY <1>2, <1>14 DEF Return
    <3> QED BY <1>3, <1>14, <3>1 DEF Return, Walking, Frames
  <2>2. L = 0 /\ L1 = 0
    BY <2>1 DEF LevelsBelow
  <2>3. B1 <= B
    BY <1>2, <2>2
  <2>4. Len(callers) = Len(s) + 1 /\ Len(s) \in Nat
    BY <1>2, <2>1
  <2>5. C = C1 + w + 1
    BY <1>2, <2>4
  <2> HIDE DEF B, B1, C, C1
  <2> QED BY <1>7, <2>1, <2>3, <2>5
<1> QED BY <1>9, <1>10, <1>11, <1>12, <1>13, <1>14 DEF Walk

(* Every walk ends, on any graph in layers that has finitely many of them  *)
(* and nodes with boundedly many neighbors: each of its steps leaves fewer *)
(* to be taken. (That the steps are taken is for fairness to say.)         *)
THEOREM WalkIsBounded ==
  ASSUME NEW CONSTANT w, NEW CONSTANT d, Bounds(w, d)
  PROVE  Spec => /\ [](StepsLeft(w, d) \in Nat)
                 /\ [][Walk => StepsLeft(w, d)' < StepsLeft(w, d)]_vars
<1>1. Init => AllWithin
  BY InitAllWithin
<1>2. IInv /\ AllWithin /\ [Next]_vars => AllWithin'
  BY StepKeepsAllWithin DEF IInv
<1>3. Bounds(w, d) /\ IInv /\ AllWithin => StepsLeft(w, d) \in Nat
  BY StepsAreCounted DEF IInv
<1>4. Bounds(w, d) /\ IInv /\ IInv' /\ AllWithin /\ AllWithin' /\ [Next]_vars
        => [Walk => StepsLeft(w, d)' < StepsLeft(w, d)]_vars
  BY StepLeavesFewer
<1>5. [](Bounds(w, d))
  BY PTL
<1> QED BY <1>1, <1>2, <1>3, <1>4, <1>5, Invariant, PTL DEF Spec
----------------------------------------------------------------------------
(* What the graph of the package accepts, without the walk: the types that *)
(* it links to a name, and the field for which a resource is refused.      *)
HasItsValues(p) == \A f \in ValuesOf[p["resourceType"]] \cap IsRequired : p[f] # Undefined

SubstrateTypes(name) ==
  IF name \in Range(SubstrateChains)
  THEN {"block", "tx", "token", "nft", "proposal"}
       \cup (IF name = "zeitgeist" THEN {"market"} ELSE {})
  ELSE {"block", "tx", "token", "account"}

EvmTypes(name) ==
  {"block", "tx", "token", "nft"} \cup (IF name \in Range(EvmChains) THEN {} ELSE {"account"})

LinkedTypes(p) ==
  IF p["schema"] = "social" THEN SocialResourceTypes
  ELSE IF p["chainType"] = "substrate" THEN SubstrateTypes(p["chainName"])
  ELSE IF p["chainType"] = "evm" THEN EvmTypes(p["chainName"])
  ELSE {"block", "tx", "token", "account"}

WrongFields(p) ==
  IF p["schema"] \notin {"social", "chain"} THEN {"schema"}
  ELSE IF p["resourceType"] \notin LinkedTypes(p) THEN {"resourceType"}
  ELSE IF p["resourceType"] = "account" THEN {Undefined}
  ELSE IF ~ HasItsValues(p) THEN {"resourceValue"}
  ELSE {}

(* The nodes above the types, and the fields                               *)
(* that an id tells on the way to each of them.                            *)
Schemas == {"chain", "social"}
AllChainTypes == ChainTypes \cup {AnyChainType}
Branches == Schemas \cup AllChainTypes \cup Apps \cup ChainNames

FieldsTo(n) ==
  IF n \in Schemas THEN <<"schema">>
  ELSE IF n \in Apps THEN <<"schema", "app">>
  ELSE IF n \in AllChainTypes THEN <<"schema", "chainType">>
  ELSE <<"schema", "chainType", "chainName">>

(* The branches that the walk for p may come to.                           *)
Leads(p, n) ==
  \/ n \in Schemas /\ n = p["schema"]
  \/ n \in Apps /\ p["schema"] = "social"
  \/ n \in AllChainTypes /\ p["schema"] = "chain"
     /\ n = (IF p["chainType"] \in ChainTypes THEN p["chainType"] ELSE AnyChainType)
  \/ n \in ChainNames /\ p["schema"] = "chain" /\ LinkedTypes(p) = Range(Neighbors[n])

(* None of the neighbors asked so far has the name in the parameters.      *)
Passed(f) ==
  \A j \in DOMAIN Neighbors[f.node] :
    j < f.next => params[KeyName[Neighbors[f.node][j]]] # Neighbors[f.node][j]

(* The values that are told when those before the k-th have been asked for. *)
ValuesBefore(p, k) ==
  IF k = 1 THEN <<>>
  ELSE IF p["resourceType"] # "nft" THEN ValueOrder(p)
  ELSE <<"collectionId">> \o (IF k > 2 THEN IfSet(p, "nftId") ELSE <<>>)
                          \o (IF k > 3 THEN IfSet(p, "standard") ELSE <<>>)

AtRoot == here.node = "rootNode" /\ ~ here.matched /\ params["schema"] \notin Schemas

AtBranch ==
  /\ here.node \in Branches /\ ~ here.matched
  /\ Leads(params, here.node) /\ Passed(here)
  /\ id = SectionsOf(params, FieldsTo(here.node))

AtType ==
  /\ here.node \in ResourceTypes /\ here.node = params["resourceType"]
  /\ params["schema"] \in Schemas /\ params["resourceType"] \in LinkedTypes(params)
  /\ here.next <= Len(Neighbors[here.node]) + 1
  /\ here.matched <=> here.next > 1
  /\ here.next > 1 => HasItsValues(params)
  /\ id = SectionsOf(params, NameOrder(params) \o ValuesBefore(params, here.next))

Complete(p, written) == WrongFields(p) = {} /\ written = IdOf(p)

BackAtBranch == here.node \in Branches /\ here.matched /\ Complete(params, id)

GraphInv ==
  /\ Walking => AtRoot \/ AtBranch \/ AtType \/ BackAtBranch
  /\ outcome = "done" => Complete(params, id)
  /\ outcome = "threw" => WrongFields(params) = {field}
  /\ Walking => \A k \in DOMAIN callers : callers[k].node \in Branches
  /\ earlier # <<>> => Complete(earlier[1], earlier[2])
----------------------------------------------------------------------------
LEMMA RangeOfJoin ==
  ASSUME NEW S, NEW T, NEW s \in Seq(S), NEW t \in Seq(T)
  PROVE  Range(s \o t) = Range(s) \cup Range(t)
<1>1. ASSUME NEW i \in DOMAIN (s \o t) PROVE (s \o t)[i] \in Range(s) \cup Range(t)
  <2>1. CASE i <= Len(s)
    BY <2>1 DEF Range
  <2>2. CASE i > Len(s)
    <3>1. i - Len(s) \in DOMAIN t /\ (s \o t)[i] = t[i - Len(s)]
      BY <2>2
    <3> QED BY <3>1 DEF Range
  <2> QED BY <2>1, <2>2
<1>2. ASSUME NEW i \in DOMAIN s PROVE s[i] \in Range(s \o t)
  <2>1. i \in DOMAIN (s \o t) /\ (s \o t)[i] = s[i]
    OBVIOUS
  <2> QED BY <2>1 DEF Range
<1>3. ASSUME NEW i \in DOMAIN t PROVE t[i] \in Range(s \o t)
  <2>1. Len(s) + i \in DOMAIN (s \o t) /\ (s \o t)[Len(s) + i] = t[i]
    OBVIOUS
  <2> QED BY <2>1 DEF Range
<1> QED BY <1>1, <1>2, <1>3 DEF Range

LEMMA RangeOfOne == ASSUME NEW a PROVE Range(<<a>>) = {a}
BY DEF Range

LEMMA RangeOfFour ==
  ASSUME NEW a, NEW b, NEW c, NEW d
  PROVE  Range(<<a, b, c, d>>) = {a, b, c, d}
<1>1. DOMAIN <<a, b, c, d>> = {1, 2, 3, 4}
  OBVIOUS
<1> QED BY <1>1 DEF Range

(* A node is of one kind.                                                  *)
LEMMA Kinds ==
  /\ "rootNode" \notin Branches \cup ResourceTypes \cup ResourceValues
  /\ Schemas \cap (AllChainTypes \cup Apps \cup ChainNames \cup ResourceTypes \cup ResourceValues) = {}
  /\ AllChainTypes \cap (Apps \cup ChainNames \cup ResourceTypes \cup ResourceValues) = {}
  /\ Apps \cap (ChainNames \cup ResourceTypes \cup ResourceValues) = {}
  /\ ChainNames \cap (ResourceTypes \cup ResourceValues) = {}
  /\ ResourceTypes \cap ResourceValues = {}
<1> USE DEF Branches, Schemas, AllChainTypes, ChainTypes, AnyChainType
<1> DEFINE Listed == Range(SubstrateChains) \cup Range(EvmChains) \cup Range(SocialApps)
<1>1. FixedNames \cap Listed = {} /\ Range(SocialApps) \cap ChainNames = {}
  BY GraphAssumption
<1>2. /\ Apps = Range(SocialApps) \cup {AnyApp}
      /\ ChainNames = Range(SubstrateChains) \cup Range(EvmChains)
                      \cup {AnyChainName, AnySubstrateName, AnyEvmName}
      /\ Apps \subseteq Listed \cup {AnyApp}
      /\ ChainNames \subseteq Listed \cup {AnyChainName, AnySubstrateName, AnyEvmName}
  BY DEF Apps, ChainNames
<1> HIDE DEF Listed
<1> USE DEF FixedNames, AnyApp, AnyChainName, AnySubstrateName, AnyEvmName,
            ResourceTypes, ChainResourceTypes, SocialResourceTypes, ResourceValues
<1>3. /\ "rootNode" \notin Branches \cup ResourceTypes \cup ResourceValues
      /\ Schemas \cap (AllChainTypes \cup Apps \cup ChainNames \cup ResourceTypes \cup ResourceValues) = {}
  BY <1>1, <1>2
<1>4. AllChainTypes \cap (Apps \cup ChainNames \cup ResourceTypes \cup ResourceValues) = {}
  BY <1>1, <1>2
<1>5. Apps \cap (ChainNames \cup ResourceTypes \cup ResourceValues) = {}
  BY <1>1, <1>2
<1>6. ChainNames \cap (ResourceTypes \cup ResourceValues) = {}
  BY <1>1, <1>2
<1>7. ResourceTypes \cap ResourceValues = {}
  OBVIOUS
<1> QED BY <1>3, <1>4, <1>5, <1>6, <1>7

LEMMA GraphNodesByKind ==
  GraphNodes = {"rootNode"} \cup Branches \cup ResourceTypes \cup ResourceValues
BY DEF GraphNodes, Branches, Schemas, AllChainTypes

(* The keys of the nodes, kind by kind.                                    *)
LEMMA KeyNames ==
  /\ \A n \in Schemas : n \in Nodes /\ KeyName[n] = "schema"
  /\ \A n \in AllChainTypes : n \in Nodes /\ KeyName[n] = "chainType"
  /\ \A n \in Apps : n \in Nodes /\ KeyName[n] = "app"
  /\ \A n \in ChainNames : n \in Nodes /\ KeyName[n] = "chainName"
  /\ \A n \in ResourceTypes : n \in Nodes /\ KeyName[n] = "resourceType"
  /\ \A n \in ResourceValues : n \in Nodes /\ KeyName[n] = "resourceValue"
<1>1. Nodes = {"rootNode"} \cup Branches \cup ResourceTypes \cup ResourceValues
  BY GraphAssumption, GraphNodesByKind
<1>2. KeyName = GraphKeyName /\ Nodes = GraphNodes
  BY GraphAssumption
<1> QED BY <1>1, <1>2, Kinds DEF Branches, GraphKeyName, Schemas, AllChainTypes

(* The node that stands for any other name, where there is one.            *)
LEMMA AnyNames ==
  /\ AnyChildNodeName["social"] = AnyApp /\ AnyChildNodeName["chain"] = AnyChainType
  /\ AnyChildNodeName[AnyChainType] = AnyChainName
  /\ AnyChildNodeName["substrate"] = AnySubstrateName
  /\ AnyChildNodeName["evm"] = AnyEvmName
  /\ AnyChildNodeName["rootNode"] = Undefined
  /\ \A n \in Apps \cup ChainNames \cup ResourceTypes : AnyChildNodeName[n] = Undefined
<1>1. Nodes = {"rootNode"} \cup Branches \cup ResourceTypes \cup ResourceValues
  BY GraphAssumption, GraphNodesByKind
<1>2. AnyChildNodeName = GraphAnyChildNodeName /\ Nodes = GraphNodes
  BY GraphAssumption
<1>3. ASSUME NEW n \in Apps \cup ChainNames \cup ResourceTypes
      PROVE  n \notin {"social", "chain", AnyChainType, "substrate", "evm"}
  BY Kinds DEF Schemas, AllChainTypes, ChainTypes
<1> USE DEF Branches, Schemas, AllChainTypes, ChainTypes, AnyChainType
<1>4. {"rootNode", "social", "chain", AnyChainType, "substrate", "evm"} \subseteq Nodes
  BY <1>1
<1>5. \A n \in Apps \cup ChainNames \cup ResourceTypes : AnyChildNodeName[n] = Undefined
  BY <1>1, <1>2, <1>3 DEF GraphAnyChildNodeName
<1> QED BY <1>2, <1>4, <1>5 DEF GraphAnyChildNodeName

(* The edges, kind by kind.                                                *)
LEMMA Edges ==
  /\ Neighbors["rootNode"] = <<"social", "chain">>
  /\ Neighbors["social"] = SocialApps \o <<AnyApp>>
  /\ Neighbors["chain"] = <<AnyChainType, "evm", "substrate">>
  /\ Neighbors["substrate"] = SubstrateChains \o <<AnySubstrateName>>
  /\ Neighbors["evm"] = EvmChains \o <<AnyEvmName>>
  /\ Neighbors[AnyChainType] = <<AnyChainName>>
  /\ \A n \in {AnyChainName, AnySubstrateName} :
       Neighbors[n] = <<"block", "tx", "token", "account">>
  /\ Neighbors[AnyEvmName] = <<"block", "tx", "token", "account", "nft">>
  /\ \A n \in Range(SubstrateChains) \cup Range(EvmChains) : Neighbors[n] = NamedChainTypesOf(n)
  /\ \A n \in Apps : Neighbors[n] = <<"post", "profile">>
<1>1. Nodes = {"rootNode"} \cup Branches \cup ResourceTypes \cup ResourceValues
  BY GraphAssumption, GraphNodesByKind
<1> DEFINE Chains == Range(SubstrateChains) \cup Range(EvmChains)
<1>2. Neighbors = GraphNeighbors /\ Nodes = GraphNodes
  BY GraphAssumption
<1>3. /\ FixedNames \cap Chains = {} /\ ChainNames = Chains \cup {AnyChainName, AnySubstrateName, AnyEvmName}
      /\ SocialResourceTypes \subseteq ResourceTypes
      /\ {"block", "tx", "token", "nft", "proposal", "market"} \subseteq ResourceTypes
  BY GraphAssumption DEF ChainNames, ResourceTypes, ChainResourceTypes
<1> USE DEF GraphNeighbors
<1>4. \A n \in Apps : Neighbors[n] = <<"post", "profile">>
  BY <1>1, <1>2, <1>3, Kinds DEF Branches, Schemas, AllChainTypes, ChainTypes
<1>5. \A n \in Chains : Neighbors[n] = NamedChainTypesOf(n)
  <2>1. \A n \in Chains : n \notin {"rootNode", "social", "chain", "substrate", "evm", AnyChainType,
                               AnyChainName, AnySubstrateName, AnyEvmName}
    BY <1>3 DEF FixedNames, ChainTypes
  <2> QED BY <1>1, <1>2, <1>3, <2>1, Kinds DEF Branches
<1>6. /\ \A n \in {AnyChainName, AnySubstrateName} :
           Neighbors[n] = <<"block", "tx", "token", "account">>
      /\ Neighbors[AnyEvmName] = <<"block", "tx", "token", "account", "nft">>
  <2>1. /\ AnyEvmName \notin {AnyChainName, AnySubstrateName}
        /\ \A n \in {AnyChainName, AnySubstrateName, AnyEvmName} :
             n \notin {"rootNode", "social", "chain", "substrate", "evm", AnyChainType} \cup Chains
    BY <1>3 DEF FixedNames, ChainTypes, AnyChainType, AnyChainName, AnySubstrateName, AnyEvmName
  <2> QED BY <1>1, <1>2, <1>3, <2>1, Kinds DEF Branches
<1>7. /\ Neighbors["rootNode"] = <<"social", "chain">>
      /\ Neighbors["social"] = SocialApps \o <<AnyApp>>
      /\ Neighbors["chain"] = <<AnyChainType, "evm", "substrate">>
  <2>1. \A n \in {"rootNode", "social", "chain"} :
           n \in Nodes /\ n \notin AllChainTypes \cup ChainNames \cup Apps \cup ResourceTypes
    BY <1>1, Kinds DEF Branches, Schemas
  <2> QED BY <1>2, <1>3, <2>1 DEF AllChainTypes, ChainTypes
<1>8. /\ Neighbors["substrate"] = SubstrateChains \o <<AnySubstrateName>>
      /\ Neighbors["evm"] = EvmChains \o <<AnyEvmName>>
      /\ Neighbors[AnyChainType] = <<AnyChainName>>
  <2>1. \A n \in {"substrate", "evm", AnyChainType} :
           n \in Nodes /\ n \notin ChainNames \cup Apps \cup ResourceTypes \cup {"rootNode", "social", "chain"}
    BY <1>1, Kinds DEF Branches, Schemas, AllChainTypes, ChainTypes
  <2>2. AnyChainType \notin {"substrate", "evm"}
    BY DEF AnyChainType
  <2> QED BY <1>2, <1>3, <2>1, <2>2
<1> QED BY <1>4, <1>5, <1>6, <1>7, <1>8 DEF Chains

(* The values that the types ask for, in their order.                      *)
LEMMA ValueEdges ==
  /\ \A n \in {"post", "profile", "proposal", "market"} : Neighbors[n] = <<"id">>
  /\ Neighbors["block"] = <<"blockNumber">> /\ Neighbors["tx"] = <<"txHash">>
  /\ Neighbors["token"] = <<"tokenAddress">> /\ Neighbors["account"] = <<>>
  /\ Neighbors["nft"] = <<"collectionId", "nftId", "standard">>
<1> DEFINE Above3 == {"rootNode"} \cup Branches
<1>1. \A n \in ResourceTypes : n \in Nodes /\ n \notin Above3
  BY KeyNames, Kinds DEF Branches
<1>2. Neighbors = GraphNeighbors /\ Nodes = GraphNodes
  BY GraphAssumption
<1>3. {"rootNode", "social", "chain", "substrate", "evm", AnyChainType, AnyChainName,
       AnySubstrateName, AnyEvmName} \cup Range(SubstrateChains) \cup Range(EvmChains) \cup Apps
        \subseteq Above3
  BY DEF Branches, Schemas, AllChainTypes, ChainTypes, ChainNames
<1> HIDE DEF Above3
<1> QED BY <1>1, <1>2, <1>3 DEF GraphNeighbors, ResourceTypes, ChainResourceTypes, SocialResourceTypes
----------------------------------------------------------------------------
(* The names below a branch, as sets.                                      *)
LEMMA RangeOfFive ==
  ASSUME NEW a, NEW b, NEW c, NEW d, NEW e
  PROVE  Range(<<a, b, c, d, e>>) = {a, b, c, d, e}
<1>1. DOMAIN <<a, b, c, d, e>> = {1, 2, 3, 4, 5}
  OBVIOUS
<1> QED BY <1>1 DEF Range

LEMMA WithAny ==
  ASSUME NEW list \in Seq(STRING), NEW any
  PROVE  Range(list \o <<any>>) = Range(list) \cup {any}
<1> DEFINE last == <<any>>  Only == {any}
<1>1. last \in Seq(Only)
  OBVIOUS
<1>2. Range(list \o last) = Range(list) \cup Range(last)
  <2> HIDE DEF last, Only
  <2> QED BY <1>1, RangeOfJoin
<1> QED BY <1>2, RangeOfOne

LEMMA NamesBelow ==
  /\ Range(Neighbors["social"]) = Apps
  /\ Range(Neighbors["chain"]) = AllChainTypes
  /\ Range(Neighbors["substrate"]) = Range(SubstrateChains) \cup {AnySubstrateName}
  /\ Range(Neighbors["evm"]) = Range(EvmChains) \cup {AnyEvmName}
  /\ Range(Neighbors[AnyChainType]) = {AnyChainName}
<1>2. /\ Range(Neighbors["social"]) = Range(SocialApps) \cup {AnyApp}
      /\ Range(Neighbors["substrate"]) = Range(SubstrateChains) \cup {AnySubstrateName}
      /\ Range(Neighbors["evm"]) = Range(EvmChains) \cup {AnyEvmName}
  BY WithAny, Edges, GraphAssumption
<1>3. Range(Neighbors["chain"]) = {AnyChainType, "evm", "substrate"}
  <2>1. DOMAIN <<AnyChainType, "evm", "substrate">> = {1, 2, 3}
    OBVIOUS
  <2> QED BY <2>1, Edges DEF Range
<1>4. Range(Neighbors[AnyChainType]) = {AnyChainName}
  BY Edges, RangeOfOne
<1> QED BY <1>2, <1>3, <1>4 DEF Apps, AllChainTypes, ChainTypes

(* The types below a name are those that the reference links to it.        *)
LEMMA TypesBelow ==
  /\ \A n \in Apps : Range(Neighbors[n]) = SocialResourceTypes
  /\ \A n \in Range(SubstrateChains) \cup {AnySubstrateName} :
       Range(Neighbors[n]) = SubstrateTypes(n)
  /\ \A n \in Range(EvmChains) \cup {AnyEvmName} : Range(Neighbors[n]) = EvmTypes(n)
  /\ Range(Neighbors[AnyChainName]) = {"block", "tx", "token", "account"}
<1>1. \A n \in Apps : Range(Neighbors[n]) = SocialResourceTypes
  <2>1. Range(<<"post", "profile">>) = {"post", "profile"}
    <3>1. DOMAIN <<"post", "profile">> = {1, 2}
      OBVIOUS
    <3> QED BY <3>1 DEF Range
  <2> QED BY <2>1, Edges DEF SocialResourceTypes
<1>2. AnySubstrateName \notin Range(SubstrateChains) /\ AnyEvmName \notin Range(EvmChains)
      /\ Range(SubstrateChains) \cap Range(EvmChains) = {}
  BY GraphAssumption DEF FixedNames
<1>3. ASSUME NEW n \in Range(SubstrateChains)
      PROVE  Range(Neighbors[n]) = SubstrateTypes(n)
  <2> DEFINE five == <<"block", "tx", "token", "nft", "proposal">>
             more == IF n = "zeitgeist" THEN <<"market">> ELSE <<>>
  <2>1. Neighbors[n] = five \o more
    BY <1>2, Edges DEF NamedChainTypesOf
  <2>2. five \in Seq(ChainResourceTypes) /\ more \in Seq(ChainResourceTypes)
    <3>1. <<"market">> \in Seq(ChainResourceTypes) /\ <<>> \in Seq(ChainResourceTypes)
      BY DEF ChainResourceTypes
    <3>2. {"block", "tx", "token", "nft", "proposal"} \subseteq ChainResourceTypes
      BY DEF ChainResourceTypes
    <3> QED BY <3>1, <3>2
  <2>3. Range(five) = {"block", "tx", "token", "nft", "proposal"}
    BY RangeOfFive
  <2>4. Range(more) = (IF n = "zeitgeist" THEN {"market"} ELSE {})
    BY RangeOfOne DEF Range
  <2>5. Range(five \o more) = Range(five) \cup Range(more)
    <3> HIDE DEF five, more
    <3> QED BY <2>2, RangeOfJoin
  <2> HIDE DEF five, more
  <2> QED BY <2>1, <2>3, <2>4, <2>5 DEF SubstrateTypes
<1>4. Range(Neighbors[AnySubstrateName]) = SubstrateTypes(AnySubstrateName)
  <2>1. Range(<<"block", "tx", "token", "account">>) = {"block", "tx", "token", "account"}
    BY RangeOfFour
  <2>2. Neighbors[AnySubstrateName] = <<"block", "tx", "token", "account">>
    BY Edges
  <2> QED BY <1>2, <2>1, <2>2 DEF SubstrateTypes
<1>5. ASSUME NEW n \in Range(EvmChains)
      PROVE  Range(Neighbors[n]) = EvmTypes(n)
  <2>1. Neighbors[n] = <<"block", "tx", "token", "nft">>
    BY Edges DEF NamedChainTypesOf
  <2> QED BY <2>1, RangeOfFour DEF EvmTypes
<1>6. Range(Neighbors[AnyEvmName]) = EvmTypes(AnyEvmName)
  BY <1>2, Edges, RangeOfFive DEF EvmTypes
<1>7. Range(Neighbors[AnyChainName]) = {"block", "tx", "token", "account"}
  <2>1. Range(<<"block", "tx", "token", "account">>) = {"block", "tx", "token", "account"}
    BY RangeOfFour
  <2>2. Neighbors[AnyChainName] = <<"block", "tx", "token", "account">>
    BY Edges
  <2> QED BY <2>1, <2>2
<1> QED BY <1>1, <1>3, <1>4, <1>5, <1>6, <1>7

LEMMA BranchEdges ==
  ASSUME NEW n \in Branches
  PROVE  /\ n \in Nodes \ {"rootNode"} /\ Neighbors[n] \in Seq(Nodes \ {"rootNode"})
         /\ Neighbors[n] # <<>>
         /\ \A m \in Range(Neighbors[n]) : m \in Branches \cup ResourceTypes /\ ~ IsValue(m)
<1>1. n \in Nodes \ {"rootNode"}
  BY KeyNames, Kinds DEF Branches
<1>2. Neighbors[n] \in Seq(Nodes \ {"rootNode"})
  BY <1>1, ResourceWalkAssumption
<1>3. /\ SocialResourceTypes \subseteq ResourceTypes
      /\ \A name \in ChainNames : SubstrateTypes(name) \subseteq ResourceTypes
                                   /\ EvmTypes(name) \subseteq ResourceTypes
      /\ {"block", "tx", "token", "account"} \subseteq ResourceTypes
  BY DEF ResourceTypes, ChainResourceTypes, SubstrateTypes, EvmTypes
<1>4. /\ Range(Neighbors[n]) # {}
      /\ \A m \in Range(Neighbors[n]) : m \in Branches \cup ResourceTypes
  <2>1. CASE n \in Schemas
    BY <2>1, NamesBelow DEF Schemas, Branches, Apps, AllChainTypes
  <2>2. CASE n \in AllChainTypes
    BY <2>2, NamesBelow DEF AllChainTypes, ChainTypes, Branches, ChainNames
  <2>3. CASE n \in Apps
    BY <2>3, <1>3, TypesBelow DEF SocialResourceTypes
  <2>4. CASE n \in ChainNames
    <3>1. \/ n \in Range(SubstrateChains) \cup {AnySubstrateName}
          \/ n \in Range(EvmChains) \cup {AnyEvmName}
          \/ n = AnyChainName
      BY <2>4 DEF ChainNames
    <3>2. "block" \in SubstrateTypes(n) /\ "block" \in EvmTypes(n)
      BY DEF SubstrateTypes, EvmTypes
    <3> QED BY <2>4, <1>3, <3>1, <3>2, TypesBelow
  <2> QED BY <2>1, <2>2, <2>3, <2>4 DEF Branches
<1>5. Neighbors[n] # <<>>
  BY <1>4 DEF Range
<1>6. \A m \in Branches \cup ResourceTypes : ~ IsValue(m)
  BY KeyNames DEF IsValue, Branches
<1> QED BY <1>1, <1>2, <1>4, <1>5, <1>6
----------------------------------------------------------------------------
LEMMA IsAppended ==
  ASSUME NEW S, NEW s \in Seq(S), NEW t \in Seq(S), NEW e \in S,
         Len(t) = Len(s) + 1, t[Len(s) + 1] = e, \A i \in 1 .. Len(s) : t[i] = s[i]
  PROVE  t = Append(s, e)
<1>1. /\ Append(s, e) \in Seq(S) /\ Len(Append(s, e)) = Len(s) + 1
      /\ Append(s, e)[Len(s) + 1] = e
      /\ \A i \in 1 .. Len(s) : Append(s, e)[i] = s[i]
  OBVIOUS
<1>2. \A i \in 1 .. Len(t) : i \in 1 .. Len(s) \/ i = Len(s) + 1
  OBVIOUS
<1> QED BY <1>1, <1>2, SeqEqual

LEMMA OneMore ==
  /\ \A a, b : Append(<<a>>, b) = <<a, b>>
  /\ \A a, b, c : Append(<<a, b>>, c) = <<a, b, c>>
  /\ \A a, b, c, d : Append(<<a, b, c>>, d) = <<a, b, c, d>>
<1>1. ASSUME NEW a, NEW b PROVE Append(<<a>>, b) = <<a, b>>
  <2> DEFINE S == {a, b}  s == <<a>>  t == <<a, b>>
  <2>1. s \in Seq(S) /\ t \in Seq(S) /\ b \in S
    OBVIOUS
  <2>2. Len(s) = 1 /\ Len(t) = 2 /\ t[1] = s[1] /\ t[2] = b
    OBVIOUS
  <2> HIDE DEF S, s, t
  <2>3. Len(t) = Len(s) + 1 /\ t[Len(s) + 1] = b
    BY <2>2
  <2>4. \A i \in 1 .. Len(s) : t[i] = s[i]
    BY <2>2
  <2>5. t = Append(s, b)
    BY <2>1, <2>3, <2>4, IsAppended
  <2> QED BY <2>5 DEF s, t
<1>2. ASSUME NEW a, NEW b, NEW c PROVE Append(<<a, b>>, c) = <<a, b, c>>
  <2> DEFINE S == {a, b, c}  s == <<a, b>>  t == <<a, b, c>>
  <2>1. s \in Seq(S) /\ t \in Seq(S) /\ c \in S
    OBVIOUS
  <2>2. Len(s) = 2 /\ Len(t) = 3 /\ t[1] = s[1] /\ t[2] = s[2] /\ t[3] = c
    OBVIOUS
  <2> HIDE DEF S, s, t
  <2>3. Len(t) = Len(s) + 1 /\ t[Len(s) + 1] = c
    BY <2>2
  <2>4. \A i \in 1 .. Len(s) : t[i] = s[i]
    BY <2>2
  <2>5. t = Append(s, c)
    BY <2>1, <2>3, <2>4, IsAppended
  <2> QED BY <2>5 DEF s, t
<1>3. ASSUME NEW a, NEW b, NEW c, NEW d PROVE Append(<<a, b, c>>, d) = <<a, b, c, d>>
  <2> DEFINE S == {a, b, c, d}  s == <<a, b, c>>  t == <<a, b, c, d>>
  <2>1. s \in Seq(S) /\ t \in Seq(S) /\ d \in S
    OBVIOUS
  <2>2. Len(s) = 3 /\ Len(t) = 4 /\ t[1] = s[1] /\ t[2] = s[2] /\ t[3] = s[3] /\ t[4] = d
    OBVIOUS
  <2> HIDE DEF S, s, t
  <2>3. Len(t) = Len(s) + 1 /\ t[Len(s) + 1] = d
    BY <2>2
  <2>4. \A i \in 1 .. Len(s) : t[i] = s[i]
    BY <2>2
  <2>5. t = Append(s, d)
    BY <2>1, <2>3, <2>4, IsAppended
  <2> QED BY <2>5 DEF s, t
<1> QED BY <1>1, <1>2, <1>3

(* Each branch tells one field more than the one above it, and the type is *)
(* told next after the name.                                               *)
LEMMA FieldsToKinds ==
  /\ \A n \in Schemas : FieldsTo(n) = <<"schema">>
  /\ \A n \in Schemas, m \in Apps : FieldsTo(m) = Append(FieldsTo(n), "app")
  /\ \A n \in Schemas, m \in AllChainTypes : FieldsTo(m) = Append(FieldsTo(n), "chainType")
  /\ \A n \in AllChainTypes, m \in ChainNames : FieldsTo(m) = Append(FieldsTo(n), "chainName")
  /\ \A p : \A n \in Apps : p["schema"] = "social"
       => NameOrder(p) = Append(FieldsTo(n), "resourceType")
  /\ \A p : \A n \in ChainNames : p["schema"] = "chain"
       => NameOrder(p) = Append(FieldsTo(n), "resourceType")
<1>1. /\ \A n \in Schemas : FieldsTo(n) = <<"schema">>
      /\ \A n \in Apps : FieldsTo(n) = <<"schema", "app">>
      /\ \A n \in AllChainTypes : FieldsTo(n) = <<"schema", "chainType">>
      /\ \A n \in ChainNames : FieldsTo(n) = <<"schema", "chainType", "chainName">>
  BY Kinds DEF FieldsTo
<1>2. /\ Append(<<"schema">>, "app") = <<"schema", "app">>
      /\ Append(<<"schema">>, "chainType") = <<"schema", "chainType">>
      /\ Append(<<"schema", "chainType">>, "chainName") = <<"schema", "chainType", "chainName">>
      /\ Append(<<"schema", "app">>, "resourceType") = <<"schema", "app", "resourceType">>
      /\ Append(<<"schema", "chainType", "chainName">>, "resourceType")
           = <<"schema", "chainType", "chainName", "resourceType">>
  BY OneMore, Zenon
<1> QED BY <1>1, <1>2, Zenon DEF NameOrder

(* A walk that is right at a branch is right at the neighbor that the      *)
(* parameters name, whose field is the next in the order of the id.        *)
LEMMA LeadsToNamed ==
  ASSUME NEW p, NEW n \in Branches, Leads(p, n),
         NEW m \in Range(Neighbors[n]), p[KeyName[m]] = m
  PROVE  \/ m \in Branches /\ Leads(p, m) /\ FieldsTo(m) = Append(FieldsTo(n), KeyName[m])
         \/ /\ m \in ResourceTypes /\ m = p["resourceType"]
            /\ p["schema"] \in Schemas /\ m \in LinkedTypes(p)
            /\ NameOrder(p) = Append(FieldsTo(n), KeyName[m])
<1>1. CASE n \in Schemas /\ n = "social"
  <2>1. m \in Apps /\ p["schema"] = "social" /\ KeyName[m] = "app"
    BY <1>1, NamesBelow, KeyNames, Kinds DEF Leads
  <2>2. FieldsTo(m) = Append(FieldsTo(n), KeyName[m])
    BY <1>1, <2>1, FieldsToKinds
  <2> QED BY <2>1, <2>2 DEF Branches, Leads
<1>2. CASE n \in Schemas /\ n = "chain"
  <2>1. m \in AllChainTypes /\ p["schema"] = "chain" /\ KeyName[m] = "chainType"
    BY <1>2, NamesBelow, KeyNames, Kinds DEF Leads
  <2>2. m = (IF p["chainType"] \in ChainTypes THEN p["chainType"] ELSE AnyChainType)
    BY <2>1 DEF AllChainTypes
  <2>3. FieldsTo(m) = Append(FieldsTo(n), KeyName[m])
    BY <1>2, <2>1, FieldsToKinds
  <2> QED BY <2>1, <2>2, <2>3 DEF Branches, Leads
<1>3. CASE n \in AllChainTypes
  <2>1. /\ p["schema"] = "chain"
        /\ n = (IF p["chainType"] \in ChainTypes THEN p["chainType"] ELSE AnyChainType)
    BY <1>3, Kinds DEF Leads
  <2>2. m \in ChainNames
    BY <1>3, NamesBelow DEF AllChainTypes, ChainTypes, ChainNames
  <2>3. KeyName[m] = "chainName" /\ p["chainName"] = m
    BY <2>2, KeyNames
  <2>4. LinkedTypes(p) = Range(Neighbors[m])
    <3>1. CASE n = "substrate"
      <4>1. p["chainType"] = "substrate" /\ m \in Range(SubstrateChains) \cup {AnySubstrateName}
        BY <2>1, <3>1, NamesBelow DEF AnyChainType
      <4> QED BY <2>1, <2>3, <4>1, TypesBelow DEF LinkedTypes
    <3>2. CASE n = "evm"
      <4>1. p["chainType"] = "evm" /\ m \in Range(EvmChains) \cup {AnyEvmName}
        BY <2>1, <3>2, NamesBelow DEF AnyChainType
      <4> QED BY <2>1, <2>3, <4>1, TypesBelow DEF LinkedTypes
    <3>3. CASE n = AnyChainType
      <4>1. p["chainType"] \notin ChainTypes /\ m = AnyChainName
        BY <2>1, <3>3, NamesBelow DEF AnyChainType, ChainTypes
      <4> QED BY <2>1, <4>1, TypesBelow DEF LinkedTypes, ChainTypes
    <3> QED BY <1>3, <3>1, <3>2, <3>3 DEF AllChainTypes, ChainTypes
  <2>5. FieldsTo(m) = Append(FieldsTo(n), KeyName[m])
    BY <1>3, <2>2, <2>3, FieldsToKinds
  <2> QED BY <2>1, <2>2, <2>4, <2>5 DEF Branches, Leads
<1>4. CASE n \in Apps
  <2>1. p["schema"] = "social"
    BY <1>4, Kinds DEF Leads
  <2>2. m \in SocialResourceTypes /\ m \in ResourceTypes
    BY <1>4, TypesBelow DEF ResourceTypes
  <2>3. KeyName[m] = "resourceType"
    BY <2>2, KeyNames
  <2>4. NameOrder(p) = Append(FieldsTo(n), "resourceType")
    BY <1>4, <2>1, FieldsToKinds, Zenon
  <2> QED BY <2>1, <2>2, <2>3, <2>4 DEF LinkedTypes, Schemas
<1>5. CASE n \in ChainNames
  <2>1. p["schema"] = "chain" /\ LinkedTypes(p) = Range(Neighbors[n])
    BY <1>5, Kinds DEF Leads
  <2>2. m \in ResourceTypes
    <3>1. LinkedTypes(p) \subseteq ResourceTypes
      BY DEF LinkedTypes, SubstrateTypes, EvmTypes, ResourceTypes, ChainResourceTypes
    <3> QED BY <2>1, <3>1
  <2>3. KeyName[m] = "resourceType"
    BY <2>2, KeyNames
  <2>4. NameOrder(p) = Append(FieldsTo(n), "resourceType")
    BY <1>5, <2>1, FieldsToKinds, Zenon
  <2> QED BY <2>1, <2>2, <2>3, <2>4 DEF Schemas
<1> QED BY <1>1, <1>2, <1>3, <1>4, <1>5 DEF Branches, Schemas

(* Where no neighbor has the name in the parameters, the node for any      *)
(* other name is right.                                                    *)
LEMMA LeadsToAny ==
  ASSUME NEW p, NEW n \in Branches, Leads(p, n),
         \A m \in Range(Neighbors[n]) : p[KeyName[m]] # m,
         NEW any, any = AnyChildNodeName[n], any # Undefined
  PROVE  any \in Branches /\ Leads(p, any) /\ FieldsTo(any) = Append(FieldsTo(n), KeyName[any])
<1>1. CASE n = "social"
  <2>1. any = AnyApp /\ any \in Apps /\ p["schema"] = "social"
    BY <1>1, AnyNames, Kinds DEF Leads, Schemas, Apps
  <2>2. FieldsTo(any) = Append(FieldsTo(n), KeyName[any])
    BY <1>1, <2>1, FieldsToKinds, KeyNames DEF Schemas
  <2> QED BY <2>1, <2>2 DEF Branches, Leads
<1>2. CASE n = "chain"
  <2>1. any = AnyChainType /\ any \in AllChainTypes /\ p["schema"] = "chain"
    BY <1>2, AnyNames, Kinds DEF Leads, Schemas, AllChainTypes
  <2>2. \A m \in AllChainTypes : p["chainType"] # m
    BY <1>2, NamesBelow, KeyNames
  <2>3. p["chainType"] \notin ChainTypes
    BY <2>2 DEF AllChainTypes
  <2>4. FieldsTo(any) = Append(FieldsTo(n), KeyName[any])
    BY <1>2, <2>1, FieldsToKinds, KeyNames DEF Schemas
  <2> QED BY <2>1, <2>3, <2>4 DEF Branches, Leads
<1>3. CASE n \in AllChainTypes
  <2>1. /\ p["schema"] = "chain"
        /\ n = (IF p["chainType"] \in ChainTypes THEN p["chainType"] ELSE AnyChainType)
    BY <1>3, Kinds DEF Leads
  <2>2. any \in ChainNames
    BY <1>3, AnyNames DEF AllChainTypes, ChainTypes, ChainNames
  <2>3. LinkedTypes(p) = Range(Neighbors[any])
    <3>1. CASE n = "substrate"
      <4>1. p["chainType"] = "substrate" /\ any = AnySubstrateName
        BY <2>1, <3>1, AnyNames DEF AnyChainType
      <4>2. p["chainName"] \notin Range(SubstrateChains)
        BY <3>1, NamesBelow, KeyNames DEF ChainNames
      <4>3. AnySubstrateName \notin Range(SubstrateChains)
        BY GraphAssumption DEF FixedNames
      <4> QED BY <2>1, <4>1, <4>2, <4>3, TypesBelow DEF LinkedTypes, SubstrateTypes
    <3>2. CASE n = "evm"
      <4>1. p["chainType"] = "evm" /\ any = AnyEvmName
        BY <2>1, <3>2, AnyNames DEF AnyChainType
      <4>2. p["chainName"] \notin Range(EvmChains)
        BY <3>2, NamesBelow, KeyNames DEF ChainNames
      <4>3. AnyEvmName \notin Range(EvmChains)
        BY GraphAssumption DEF FixedNames
      <4> QED BY <2>1, <4>1, <4>2, <4>3, TypesBelow DEF LinkedTypes, EvmTypes
    <3>3. CASE n = AnyChainType
      <4>1. p["chainType"] \notin ChainTypes /\ any = AnyChainName
        BY <2>1, <3>3, AnyNames DEF AnyChainType, ChainTypes
      <4> QED BY <2>1, <4>1, TypesBelow DEF LinkedTypes, ChainTypes
    <3> QED BY <1>3, <3>1, <3>2, <3>3 DEF AllChainTypes, ChainTypes
  <2>4. FieldsTo(any) = Append(FieldsTo(n), KeyName[any])
    BY <1>3, <2>2, FieldsToKinds, KeyNames
  <2> QED BY <2>1, <2>2, <2>3, <2>4 DEF Branches, Leads
<1>4. n \notin Apps \cup ChainNames
  BY AnyNames
<1> QED BY <1>1, <1>2, <1>3, <1>4 DEF Branches, Schemas

(* Where there is none, the type is not one of those linked to the name.   *)
LEMMA LeadsNowhere ==
  ASSUME NEW p, NEW n \in Branches, Leads(p, n),
         \A m \in Range(Neighbors[n]) : p[KeyName[m]] # m,
         AnyChildNodeName[n] = Undefined
  PROVE  Neighbors[n] # <<>> /\ WrongFields(p) = {KeyName[Neighbors[n][1]]}
<1>1. n \notin {"social", "chain", "substrate", "evm", AnyChainType}
  <2>1. {AnyApp, AnyChainType, AnyChainName, AnySubstrateName, AnyEvmName} \subseteq Nodes
    BY KeyNames DEF Apps, AllChainTypes, ChainNames
  <2> QED BY <2>1, AnyNames, ResourceWalkAssumption
<1>2. n \in Apps \cup ChainNames
  BY <1>1 DEF Branches, Schemas, AllChainTypes, ChainTypes
<1>3. /\ p["schema"] \in Schemas /\ LinkedTypes(p) = Range(Neighbors[n])
  BY <1>2, Kinds, TypesBelow DEF Leads, LinkedTypes, Schemas
<1>4. \A m \in LinkedTypes(p) : KeyName[m] = "resourceType"
  <2>1. LinkedTypes(p) \subseteq ResourceTypes
    BY DEF LinkedTypes, SubstrateTypes, EvmTypes, ResourceTypes, ChainResourceTypes
  <2> QED BY <2>1, KeyNames
<1>5. p["resourceType"] \notin LinkedTypes(p)
  BY <1>3, <1>4
<1>6. Neighbors[n] # <<>> /\ Neighbors[n][1] \in Range(Neighbors[n])
  <2>1. Neighbors[n] # <<>> /\ Neighbors[n] \in Seq(Nodes \ {"rootNode"})
    BY BranchEdges
  <2> QED BY <2>1 DEF Range
<1> QED BY <1>3, <1>4, <1>5, <1>6 DEF WrongFields, Schemas
----------------------------------------------------------------------------
(* The sections of fields in an order, one more at a time.                 *)
LEMMA SectionsOfMore ==
  ASSUME NEW p, NEW S, NEW s \in Seq(S), NEW f \in S
  PROVE  SectionsOf(p, Append(s, f)) = Append(SectionsOf(p, s), <<f, p[f]>>)
<1> DEFINE T == {<<g, p[g]>> : g \in S}
           shorter == SectionsOf(p, s)
           longer == SectionsOf(p, Append(s, f))
<1>1. /\ Append(s, f) \in Seq(S) /\ Len(Append(s, f)) = Len(s) + 1 /\ Len(s) \in Nat
      /\ Append(s, f)[Len(s) + 1] = f
      /\ \A i \in 1 .. Len(s) : Append(s, f)[i] = s[i]
  OBVIOUS
<1>2. shorter \in Seq(T) /\ Len(shorter) = Len(s)
      /\ \A i \in 1 .. Len(s) : shorter[i] = <<s[i], p[s[i]]>>
  BY <1>1 DEF SectionsOf
<1>3. longer \in Seq(T) /\ Len(longer) = Len(s) + 1
      /\ \A i \in 1 .. Len(s) + 1 : longer[i] = <<Append(s, f)[i], p[Append(s, f)[i]]>>
  <2> DEFINE m == Append(s, f)
  <2>1. m \in Seq(S) /\ Len(m) = Len(s) + 1 /\ Len(s) \in Nat
    BY <1>1
  <2> HIDE DEF m
  <2>2. SectionsOf(p, m) \in Seq(T) /\ Len(SectionsOf(p, m)) = Len(s) + 1
        /\ \A i \in 1 .. Len(s) + 1 : SectionsOf(p, m)[i] = <<m[i], p[m[i]]>>
    BY <2>1 DEF SectionsOf
  <2> QED BY <2>2 DEF m
<1>4. <<f, p[f]>> \in T
  OBVIOUS
<1>5. /\ longer[Len(s) + 1] = <<f, p[f]>>
      /\ \A i \in 1 .. Len(s) : longer[i] = shorter[i]
  <2>1. \A i \in 1 .. Len(s) : i \in 1 .. Len(s) + 1
    BY <1>1
  <2>2. Len(s) + 1 \in 1 .. Len(s) + 1
    BY <1>1
  <2> HIDE DEF longer, shorter
  <2> QED BY <1>1, <1>2, <1>3, <2>1, <2>2
<1> HIDE DEF T, shorter, longer
<1>6. longer = Append(shorter, <<f, p[f]>>)
  BY <1>2, <1>3, <1>4, <1>5, IsAppended
<1> QED BY <1>6 DEF shorter, longer

LEMMA NothingMore ==
  ASSUME NEW S, NEW a \in Seq(S)
  PROVE  a \o <<>> = a /\ <<>> \o a = a
OBVIOUS

LEMMA JoinIfSet ==
  ASSUME NEW p, NEW S, NEW a \in Seq(S), NEW f \in S
  PROVE  /\ a \o IfSet(p, f) \in Seq(S)
         /\ a \o IfSet(p, f) = IF p[f] = Undefined THEN a ELSE Append(a, f)
<1>1. a \o <<f>> = Append(a, f)
  OBVIOUS
<1>2. a \o <<>> = a
  OBVIOUS
<1>3. Append(a, f) \in Seq(S)
  OBVIOUS
<1> QED BY <1>1, <1>2, <1>3 DEF IfSet

(* What a type asks for are values, and the first is the required one.     *)
LEMMA TypesAskForValues ==
  ASSUME NEW t \in ResourceTypes, NEW k \in DOMAIN Neighbors[t]
  PROVE  /\ t # "account" /\ k \in 1 .. Len(Neighbors[t])
         /\ Neighbors[t][k] \in ResourceValues
         /\ IsValue(Neighbors[t][k]) /\ FieldOf(Neighbors[t][k]) = Neighbors[t][k]
         /\ (Neighbors[t][k] \in IsRequired) <=> (k = 1)
         /\ ValuesOf[t] \cap IsRequired = {Neighbors[t][1]}
<1>1. IsRequired = ResourceValues \ {"nftId", "standard"}
  BY GraphAssumption DEF GraphIsRequired
<1>2. \A v \in ResourceValues : IsValue(v) /\ FieldOf(v) = v
  BY KeyNames DEF IsValue, FieldOf
<1>3. t # "account"
  BY ValueEdges
<1>4. CASE t = "nft"
  <2>1. Neighbors[t] = <<"collectionId", "nftId", "standard">>
    BY <1>4, ValueEdges
  <2>2. ValuesOf[t] = {"collectionId", "nftId", "standard"}
    BY <1>4 DEF ValuesOf
  <2>3. k \in {1, 2, 3}
    BY <2>1
  <2> QED BY <1>1, <1>2, <1>3, <2>1, <2>2, <2>3 DEF ResourceValues
<1>5. CASE t # "nft"
  <2>1. PICK v \in {"blockNumber", "txHash", "tokenAddress", "id"} :
           Neighbors[t] = <<v>> /\ ValuesOf[t] = {v}
    BY <1>3, <1>5, ValueEdges DEF ValuesOf, ResourceTypes, ChainResourceTypes, SocialResourceTypes
  <2>2. k = 1
    BY <2>1
  <2> QED BY <1>1, <1>2, <1>3, <2>1, <2>2 DEF ResourceValues
<1> QED BY <1>4, <1>5

LEMMA HasTheFirst ==
  ASSUME NEW p, p["resourceType"] \in ResourceTypes, NEW k \in DOMAIN Neighbors[p["resourceType"]]
  PROVE  HasItsValues(p) <=> p[Neighbors[p["resourceType"]][1]] # Undefined
<1>1. ValuesOf[p["resourceType"]] \cap IsRequired = {Neighbors[p["resourceType"]][1]}
  BY TypesAskForValues
<1> QED BY <1>1 DEF HasItsValues

(* The values told grow by the one that is asked for, if it is set; after  *)
(* the last one they are those of the reference.                           *)
LEMMA ValuesGrow ==
  ASSUME NEW p, NEW t \in ResourceTypes, t = p["resourceType"],
         NEW k \in DOMAIN Neighbors[t], HasItsValues(p)
  PROVE  LET v == Neighbors[t][k] IN
           /\ ValuesBefore(p, k) \in Seq(ResourceValues)
           /\ ValuesBefore(p, k + 1)
                = IF p[v] = Undefined THEN ValuesBefore(p, k) ELSE Append(ValuesBefore(p, k), v)
           /\ ValuesBefore(p, Len(Neighbors[t]) + 1) = ValueOrder(p)
<1>1. Append(<<>>, Neighbors[t][1]) = <<Neighbors[t][1]>>
  OBVIOUS
<1>2. p[Neighbors[t][1]] # Undefined
  BY HasTheFirst
<1>3. t \in {"block", "tx", "token", "nft", "proposal", "market", "post", "profile"}
  BY TypesAskForValues DEF ResourceTypes, ChainResourceTypes, SocialResourceTypes
<1>4. CASE t = "nft"
  <2>1. Neighbors[t] = <<"collectionId", "nftId", "standard">> /\ k \in {1, 2, 3}
    BY <1>4, ValueEdges
  <2> DEFINE one == <<"collectionId">>
             two == one \o IfSet(p, "nftId")
             three == two \o IfSet(p, "standard")
  <2>2. /\ {"collectionId", "nftId", "standard"} \subseteq ResourceValues
        /\ one \in Seq(ResourceValues)
    BY DEF ResourceValues
  <2>5. /\ two \in Seq(ResourceValues)
        /\ two = IF p["nftId"] = Undefined THEN one ELSE Append(one, "nftId")
    <3> HIDE DEF one
    <3>1. "nftId" \in ResourceValues
      BY <2>2
    <3> QED BY <2>2, <3>1, JoinIfSet, Zenon
  <2>6. /\ three \in Seq(ResourceValues)
        /\ three = IF p["standard"] = Undefined THEN two ELSE Append(two, "standard")
    <3> HIDE DEF two
    <3>1. "standard" \in ResourceValues
      BY <2>2
    <3> QED BY <2>5, <3>1, JoinIfSet, Zenon
  <2>4. /\ ValuesBefore(p, 1) = <<>> /\ ValuesBefore(p, 2) = one
        /\ ValuesBefore(p, 3) = two /\ ValuesBefore(p, 4) = three
        /\ ValueOrder(p) = three
    <3>1. ValuesBefore(p, 2) = one \o <<>> \o <<>> /\ ValuesBefore(p, 3) = two \o <<>>
          /\ ValuesBefore(p, 1) = <<>> /\ ValuesBefore(p, 4) = three
      BY <1>4 DEF ValuesBefore
    <3>2. ValueOrder(p) = three
      BY <1>4 DEF ValueOrder
    <3> QED BY <2>2, <2>5, <2>6, <3>1, <3>2, NothingMore
  <2> HIDE DEF one, two, three
  <2>7. one = Append(<<>>, "collectionId")
    BY <1>1, <2>1 DEF one
  <2>8. Len(Neighbors[t]) + 1 = 4
    BY <2>1
  <2>9. /\ Neighbors[t][1] = "collectionId" /\ Neighbors[t][2] = "nftId"
        /\ Neighbors[t][3] = "standard"
    BY <2>1
  <2>10. <<>> \in Seq(ResourceValues)
    OBVIOUS
  <2>11. CASE k = 1
    <3>1. ValuesBefore(p, k) = <<>> /\ ValuesBefore(p, k + 1) = one
      BY <2>4, <2>11
    <3> QED BY <1>2, <2>4, <2>7, <2>8, <2>9, <2>10, <2>11, <3>1, Zenon
  <2>12. CASE k = 2
    <3>1. ValuesBefore(p, k) = one /\ ValuesBefore(p, k + 1) = two
      BY <2>4, <2>12
    <3> QED BY <2>2, <2>4, <2>5, <2>8, <2>9, <2>12, <3>1, Zenon DEF one
  <2>13. CASE k = 3
    <3>1. ValuesBefore(p, k) = two /\ ValuesBefore(p, k + 1) = three
      BY <2>4, <2>13
    <3> QED BY <2>4, <2>5, <2>6, <2>8, <2>9, <2>13, <3>1, Zenon
  <2> QED BY <2>1, <2>11, <2>12, <2>13
<1>5. CASE t # "nft"
  <2>1. PICK v \in {"blockNumber", "txHash", "tokenAddress", "id"} :
           Neighbors[t] = <<v>> /\ ValueOrder(p) = <<v>>
    BY <1>3, <1>5, ValueEdges DEF ValueOrder
  <2>2. k = 1 /\ Len(Neighbors[t]) = 1 /\ Neighbors[t][1] = v
    BY <2>1
  <2>3. ValuesBefore(p, k) = <<>> /\ ValuesBefore(p, k + 1) = <<v>>
    BY <1>5, <2>1, <2>2 DEF ValuesBefore
  <2>4. ValuesBefore(p, Len(Neighbors[t]) + 1) = ValuesBefore(p, k + 1)
    BY <2>2
  <2>5. <<>> \in Seq(ResourceValues)
    OBVIOUS
  <2> QED BY <1>1, <1>2, <2>1, <2>2, <2>3, <2>4, <2>5, Zenon
<1> QED BY <1>4, <1>5
----------------------------------------------------------------------------
LEMMA InitGraphInv == Init => GraphInv
BY DEF Init, GraphInv, Walking

(* What is true of the neighbor that is asked, by where the walk stands.   *)
LEMMA NeighborOf ==
  ASSUME IInv, Walking, ~ AtEnd
  PROVE  /\ Neighbor \in Range(Neighbors[here.node])
         /\ here.next \in DOMAIN Neighbors[here.node]
         /\ Neighbor = Neighbors[here.node][here.next]
         /\ here.node \in Branches => ~ IsValue(Neighbor)
         /\ here.node \in ResourceTypes =>
              IsValue(Neighbor) /\ here.node # "account" /\ FieldOf(Neighbor) = Neighbor
<1>1. TypeOK
  BY DEF IInv
<1>2. /\ Neighbor \in Range(Neighbors[here.node])
      /\ here.next \in DOMAIN Neighbors[here.node]
      /\ Neighbor = Neighbors[here.node][here.next]
  BY <1>1, NeighborIsNode DEF Neighbor
<1>3. here.node \in Branches => ~ IsValue(Neighbor)
  BY <1>2, BranchEdges
<1>4. ASSUME here.node \in ResourceTypes
      PROVE  IsValue(Neighbor) /\ here.node # "account" /\ FieldOf(Neighbor) = Neighbor
  <2>1. here.node # "account"
    BY <1>2, ValueEdges
  <2> QED BY <1>2, <1>4, <2>1, TypesAskForValues
<1> QED BY <1>2, <1>3, <1>4

LEMMA PassedAll ==
  ASSUME TypeOK, AtEnd, Passed(here)
  PROVE  \A m \in Range(Neighbors[here.node]) : params[KeyName[m]] # m
<1>1. here.node \in Nodes /\ here.next \in Nat
  BY DEF TypeOK, Frames
<1>2. Neighbors[here.node] \in Seq(Nodes \ {"rootNode"})
  BY <1>1, ResourceWalkAssumption
<1>3. \A j \in DOMAIN Neighbors[here.node] : j < here.next
  BY <1>1, <1>2 DEF AtEnd
<1> QED BY <1>3 DEF Passed, Range

(* An id that a matched call leaves at its end is that of the reference.   *)
LEMMA MatchedIsComplete ==
  ASSUME IInv, GraphInv, Walking, AtEnd, here.matched
  PROVE  Complete(params, id)
<1>1. AtType \/ BackAtBranch
  BY DEF GraphInv, AtRoot, AtBranch
<1>2. CASE BackAtBranch
  BY <1>2 DEF BackAtBranch
<1>3. CASE AtType
  <2> DEFINE t == here.node
  <2>1. /\ t \in ResourceTypes /\ t = params["resourceType"] /\ params["schema"] \in Schemas
        /\ t \in LinkedTypes(params) /\ here.next <= Len(Neighbors[t]) + 1 /\ here.next > 1
        /\ HasItsValues(params)
        /\ id = SectionsOf(params, NameOrder(params) \o ValuesBefore(params, here.next))
    BY <1>3 DEF AtType
  <2>2. here.next \in Nat /\ t \in Nodes
    BY DEF IInv, TypeOK, Frames
  <2>3. Neighbors[t] \in Seq(Nodes \ {"rootNode"})
    BY <2>2, ResourceWalkAssumption
  <2>4. here.next = Len(Neighbors[t]) + 1 /\ 1 \in DOMAIN Neighbors[t]
    BY <2>1, <2>2, <2>3 DEF AtEnd
  <2>5. t # "account"
    BY <2>4, ValueEdges
  <2>6. ValuesBefore(params, here.next) = ValueOrder(params)
    BY <2>1, <2>4, ValuesGrow
  <2>7. WrongFields(params) = {}
    BY <2>1, <2>5 DEF WrongFields, Schemas
  <2> QED BY <2>1, <2>6, <2>7 DEF Complete, IdOf
<1> QED BY <1>1, <1>2, <1>3

(* The start.                                                              *)
LEMMA StartKeepsGraphInv ==
  ASSUME IInv, GraphInv, Start \/ StartUnknown
  PROVE  GraphInv'
<1>1. params \in Inputs /\ params \in [Fields -> Values \cup {Undefined}] /\ "schema" \in Fields
  BY ParamsHold, ResourceWalkAssumption DEF IInv, TypeOK
<1>2. Schemas \subseteq Nodes /\ Undefined \notin Nodes /\ "rootNode" \in Nodes
  BY KeyNames, ResourceWalkAssumption
<1>3. params' = params /\ earlier' = earlier /\ (earlier # <<>> => Complete(earlier[1], earlier[2]))
  BY DEF Start, StartUnknown, Throw, GraphInv
<1>4. CASE Start
  <2>1. /\ here' = Frame(StartNode) /\ StartNode \in Nodes /\ outcome' = "walking"
        /\ id' = <<<<"schema", params["schema"]>>>> /\ callers' = <<>>
    BY <1>4 DEF Start, IInv, TypeOK, Walking
  <2>2. here'.node = StartNode /\ here'.next = 1 /\ here'.matched = FALSE
    BY <2>1, FrameIsFrame
  <2>3. CASE params["schema"] \in Schemas
    <3>1. StartNode = params["schema"] /\ StartNode \in Branches
      BY <1>2, <2>3 DEF StartNode, Branches
    <3>2. Leads(params, StartNode)
      BY <2>3, <3>1 DEF Leads
    <3>3. Passed(here)'
      <4>1. \A j \in DOMAIN Neighbors[StartNode] : ~ j < 1
        <5>1. Neighbors[StartNode] \in Seq(Nodes \ {"rootNode"})
          BY <2>1, ResourceWalkAssumption
        <5> QED BY <5>1
      <4> QED BY <2>2, <4>1 DEF Passed
    <3>4. id' = SectionsOf(params, FieldsTo(StartNode))
      <4>1. FieldsTo(StartNode) = <<"schema">>
        BY <2>3, <3>1, FieldsToKinds
      <4>2. SectionsOf(params, <<"schema">>) = <<<<"schema", params["schema"]>>>>
        BY DEF SectionsOf
      <4> QED BY <2>1, <4>1, <4>2
    <3>5. AtBranch'
      BY <1>3, <2>2, <3>1, <3>2, <3>3, <3>4 DEF AtBranch
    <3> QED BY <1>3, <2>1, <3>5 DEF GraphInv
  <2>4. CASE params["schema"] = Undefined
    <3>1. AtRoot'
      BY <1>2, <1>3, <2>2, <2>4 DEF AtRoot, StartNode
    <3> QED BY <1>3, <2>1, <3>1 DEF GraphInv
  <2> QED BY <1>1, <2>1, <2>3, <2>4, SchemaAssumption DEF StartNode, Schemas
<1>5. CASE StartUnknown
  <2>1. PICK f \in Keys : params[f] = StartNode /\ Throw(f)
    BY <1>5 DEF StartUnknown
  <2>2. StartNode \notin Nodes /\ outcome' = "threw" /\ field' = f
    BY <1>5, <2>1 DEF StartUnknown, Throw
  <2>3. StartNode = params["schema"] /\ params["schema"] \notin Schemas \cup {Undefined}
    BY <1>2, <2>2 DEF StartNode
  <2>4. f = "schema"
    BY <1>1, <2>1, <2>3, SchemaAssumption DEF Schemas
  <2>5. WrongFields(params) = {"schema"}
    BY <2>3 DEF WrongFields, Schemas
  <2> QED BY <1>3, <2>2, <2>4, <2>5 DEF GraphInv, Walking
<1> QED BY <1>4, <1>5

(* A name that the parameters give is the next right branch, or the type.  *)
LEMMA DescendKeepsGraphInv ==
  ASSUME IInv, GraphInv, Descend
  PROVE  GraphInv'
<1>1. /\ Walking /\ Walking' /\ ~ AtEnd /\ ~ IsValue(Neighbor) /\ params[KeyName[Neighbor]] = Neighbor
      /\ id' = Append(id, Section(Neighbor)) /\ params' = params
      /\ callers' = <<Answered(here, FALSE)>> \o callers /\ here' = Frame(Neighbor)
      /\ outcome' = outcome /\ field' = field /\ earlier' = earlier
  BY DEF Descend, Walking
<1>2. TypeOK /\ HereFits /\ here \in Frames /\ callers \in Seq(Frames)
  BY <1>1 DEF IInv, TypeOK
<1>3. here.node # "rootNode" /\ ~ here.matched
  BY <1>1, <1>2, MatchIsFresh
<1>4. AtBranch
  BY <1>1, <1>3, NeighborOf DEF GraphInv, AtRoot, AtType, BackAtBranch
<1>5. /\ here.node \in Branches /\ Leads(params, here.node)
      /\ id = SectionsOf(params, FieldsTo(here.node))
  BY <1>4 DEF AtBranch
<1> DEFINE m == Neighbor
<1>6. m \in Range(Neighbors[here.node]) /\ m \in Nodes \ {"rootNode"}
  BY <1>1, <1>2, NeighborIsNode
<1>7. here'.node = m /\ here'.next = 1 /\ here'.matched = FALSE
  BY <1>1, <1>6, FrameIsFrame
<1>8. id' = SectionsOf(params, Append(FieldsTo(here.node), KeyName[m]))
  <2>1. Section(m) = <<KeyName[m], params[KeyName[m]]>>
    BY <1>1 DEF Section, FieldOf
  <2> DEFINE S == {"schema", "app", "chainType", "chainName", KeyName[m]}
  <2>2. <<"schema">> \in Seq(S) /\ <<"schema", "app">> \in Seq(S)
        /\ <<"schema", "chainType">> \in Seq(S) /\ <<"schema", "chainType", "chainName">> \in Seq(S)
    OBVIOUS
  <2>3. KeyName[m] \in S
    OBVIOUS
  <2> HIDE DEF S
  <2>4. FieldsTo(here.node) \in Seq(S)
    BY <2>2 DEF FieldsTo
  <2> QED BY <1>1, <1>5, <2>1, <2>3, <2>4, SectionsOfMore
<1>9. Passed(here)'
  <2>1. Neighbors[m] \in Seq(Nodes \ {"rootNode"})
    BY <1>6, ResourceWalkAssumption
  <2>2. \A j \in DOMAIN Neighbors[m] : ~ j < 1
    BY <2>1
  <2> HIDE DEF m
  <2> QED BY <1>7, <2>2 DEF Passed
<1>10. AtBranch' \/ AtType'
  <2>1. CASE m \in Branches /\ Leads(params, m) /\ FieldsTo(m) = Append(FieldsTo(here.node), KeyName[m])
    BY <1>1, <1>7, <1>8, <1>9, <2>1 DEF AtBranch
  <2>2. CASE /\ m \in ResourceTypes /\ m = params["resourceType"]
             /\ params["schema"] \in Schemas /\ m \in LinkedTypes(params)
             /\ NameOrder(params) = Append(FieldsTo(here.node), KeyName[m])
    <3>1. NameOrder(params) \o ValuesBefore(params, 1) = NameOrder(params)
      BY DEF NameOrder, ValuesBefore
    <3>2. 1 <= Len(Neighbors[m]) + 1 /\ ~ 1 > 1
      <4>1. Neighbors[m] \in Seq(Nodes \ {"rootNode"})
        BY <1>6, ResourceWalkAssumption
      <4>2. Len(Neighbors[m]) \in Nat
        BY <4>1
      <4> QED BY <4>2
    <3>3. id' = SectionsOf(params, NameOrder(params) \o ValuesBefore(params, 1))
      BY <1>8, <2>2, <3>1
    <3> HIDE DEF m
    <3> QED BY <1>1, <1>7, <2>2, <3>2, <3>3 DEF AtType
  <2> QED BY <1>1, <1>5, <1>6, <2>1, <2>2, LeadsToNamed
<1>11. \A k \in DOMAIN callers' : callers'[k].node \in Branches
  <2>1. PICK pushed \in Frames : pushed = Answered(here, FALSE) /\ pushed.node = here.node
    BY <1>2, AnsweredIsFrame, Zenon
  <2> DEFINE Fitting == {f \in Frames : f.node \in Branches}
  <2>2. \A k \in DOMAIN callers : callers[k] \in Fitting
    BY <1>1, <1>2 DEF GraphInv
  <2>3. pushed \in Fitting
    BY <1>5, <2>1
  <2>4. \A k \in DOMAIN callers' : callers'[k] \in Fitting
    <3>1. callers \in Seq(Fitting)
      <4> HIDE DEF Fitting
      <4> QED BY <1>2, <2>2
    <3>2. callers' = <<pushed>> \o callers
      BY <1>1, <2>1
    <3> HIDE DEF Fitting
    <3> QED BY <2>3, <3>1, <3>2
  <2> QED BY <2>4
<1> QED BY <1>1, <1>10, <1>11 DEF GraphInv, Walking

(* A name that the parameters do not give is passed, and that is noted.    *)
LEMMA PassByKeepsGraphInv ==
  ASSUME IInv, GraphInv, PassBy
  PROVE  GraphInv'
<1>1. /\ Walking /\ Walking' /\ ~ AtEnd /\ ~ IsValue(Neighbor) /\ params[KeyName[Neighbor]] # Neighbor
      /\ id' = id /\ params' = params /\ callers' = callers /\ here' = Answered(here, FALSE)
      /\ outcome' = outcome /\ field' = field /\ earlier' = earlier
  BY DEF PassBy, Walking
<1>2. here \in Frames
  BY DEF IInv, TypeOK
<1>3. here'.node = here.node /\ here'.next = here.next + 1 /\ (here'.matched <=> here.matched)
  BY <1>1, <1>2, AnsweredIsFrame, Zenon
<1>4. Passed(here) => Passed(here)'
  <2>1. here.next \in Nat /\ here.node \in Nodes
    BY <1>2 DEF Frames
  <2>2. \A j \in DOMAIN Neighbors[here.node] : j < here.next + 1 => j < here.next \/ j = here.next
    <3>1. Neighbors[here.node] \in Seq(Nodes \ {"rootNode"})
      BY <2>1, ResourceWalkAssumption
    <3> QED BY <2>1, <3>1
  <2>3. Neighbor = Neighbors[here.node][here.next]
    BY DEF Neighbor
  <2> QED BY <1>1, <1>3, <2>2, <2>3 DEF Passed
<1>5. ~ AtType
  BY <1>1, NeighborOf DEF AtType
<1>6. /\ AtRoot => AtRoot' 
      /\ AtBranch => AtBranch'
      /\ BackAtBranch => BackAtBranch'
  BY <1>1, <1>3, <1>4 DEF AtRoot, AtBranch, BackAtBranch
<1> QED BY <1>1, <1>5, <1>6 DEF GraphInv

(* The neighbors of a type are asked one after the other.                  *)
LEMMA ValueIsAsked ==
  ASSUME IInv, GraphInv, Walking, ~ AtEnd, IsValue(Neighbor)
  PROVE  /\ AtType /\ here.node = params["resourceType"] /\ here.node \in ResourceTypes
         /\ here.next \in DOMAIN Neighbors[here.node] /\ here.next \in Nat \ {0}
         /\ here.next + 1 <= Len(Neighbors[here.node]) + 1
         /\ Neighbor = Neighbors[here.node][here.next] /\ FieldOf(Neighbor) = Neighbor
         /\ here.node # "account"
<1>1. TypeOK /\ HereFits
  BY DEF IInv
<1>2. here.node # "rootNode"
  BY <1>1, MatchIsFresh
<1>3. AtType
  BY <1>2, NeighborOf DEF GraphInv, AtRoot, AtBranch, BackAtBranch
<1>4. here.node \in ResourceTypes /\ here.node = params["resourceType"]
  BY <1>3 DEF AtType
<1>5. here.next \in Nat \ {0} /\ here.next \in 1 .. Len(Neighbors[here.node])
  BY <1>1, <1>4, NeighborOf, TypesAskForValues DEF TypeOK, Frames
<1> QED BY <1>3, <1>4, <1>5, NeighborOf

LEMMA ValueStepKeepsGraphInv ==
  ASSUME IInv, GraphInv, TakeValue \/ SkipOptional
  PROVE  GraphInv'
<1>1. /\ Walking /\ Walking' /\ ~ AtEnd /\ IsValue(Neighbor) /\ here' = Answered(here, TRUE)
      /\ params' = params /\ callers' = callers
      /\ outcome' = outcome /\ field' = field /\ earlier' = earlier
  BY DEF TakeValue, SkipOptional, Walking
<1> DEFINE t == here.node  k == here.next  v == Neighbor
<1>2. /\ AtType /\ t = params["resourceType"] /\ t \in ResourceTypes
      /\ k \in DOMAIN Neighbors[t] /\ k \in Nat \ {0} /\ k + 1 <= Len(Neighbors[t]) + 1
      /\ v = Neighbors[t][k] /\ FieldOf(v) = v
  BY <1>1, ValueIsAsked
<1>3. here'.node = t /\ here'.next = k + 1 /\ here'.matched = TRUE
  BY <1>1, AnsweredIsFrame, Zenon DEF IInv, TypeOK
<1>4. HasItsValues(params)
  <2>1. CASE k > 1
    BY <1>2, <2>1 DEF AtType
  <2>2. CASE k = 1
    <3>1. v \in IsRequired
      BY <1>2, <2>2, TypesAskForValues
    <3>2. params[v] # Undefined
      BY <3>1 DEF TakeValue, SkipOptional
    <3> QED BY <1>2, <2>2, <3>2, HasTheFirst
  <2> QED BY <1>2, <2>1, <2>2
<1>5. /\ ValuesBefore(params, k) \in Seq(ResourceValues)
      /\ ValuesBefore(params, k + 1)
           = IF params[v] = Undefined THEN ValuesBefore(params, k)
             ELSE Append(ValuesBefore(params, k), v)
  BY <1>2, <1>4, ValuesGrow
<1>6. id' = SectionsOf(params, NameOrder(params) \o ValuesBefore(params, k + 1))
  <2>1. id = SectionsOf(params, NameOrder(params) \o ValuesBefore(params, k))
    BY <1>2 DEF AtType
  <2>2. CASE SkipOptional
    BY <1>5, <2>1, <2>2 DEF SkipOptional
  <2>3. CASE TakeValue
    <3> DEFINE S == {"schema", "app", "chainType", "chainName", "resourceType"} \cup ResourceValues
               a == NameOrder(params)
               b == ValuesBefore(params, k)
    <3>1. a \in Seq(S)
      <4>1. /\ <<"schema", "app", "resourceType">> \in Seq(S)
            /\ <<"schema", "chainType", "chainName", "resourceType">> \in Seq(S)
        OBVIOUS
      <4> HIDE DEF S
      <4> QED BY <4>1 DEF NameOrder
    <3>2. b \in Seq(S)
      BY <1>5
    <3>3. v \in S
      BY <1>2, TypesAskForValues
    <3>4. id' = Append(SectionsOf(params, a \o b), <<v, params[v]>>)
      BY <1>2, <2>1, <2>3 DEF TakeValue, Section
    <3>5. ValuesBefore(params, k + 1) = Append(b, v)
      BY <1>5, <2>3 DEF TakeValue
    <3> HIDE DEF S, a, b, v
    <3>6. a \o b \in Seq(S)
      BY <3>1, <3>2
    <3>7. id' = SectionsOf(params, Append(a \o b, v))
      BY <3>3, <3>4, <3>6, SectionsOfMore
    <3>8. Append(a \o b, v) = a \o Append(b, v)
      <4>1. \A x, y \in Seq(S) : \A z \in S : Append(x \o y, z) = x \o Append(y, z)
        OBVIOUS
      <4> QED BY <3>1, <3>2, <3>3, <4>1
    <3> QED BY <3>5, <3>7, <3>8 DEF a
  <2> QED BY <2>2, <2>3
<1>7. AtType'
  <2>1. k + 1 > 1
    BY <1>2
  <2>2. /\ params["schema"] \in Schemas /\ params["resourceType"] \in LinkedTypes(params)
    BY <1>2 DEF AtType
  <2> HIDE DEF t, k
  <2> QED BY <1>1, <1>2, <1>3, <1>4, <1>6, <2>1, <2>2 DEF AtType
<1> QED BY <1>1, <1>7 DEF GraphInv, Walking

LEMMA RefusalKeepsGraphInv ==
  ASSUME IInv, GraphInv, RefuseMissing \/ RefuseUnmatched
  PROVE  GraphInv'
<1>1. params' = params /\ earlier' = earlier /\ outcome' = "threw"
  BY DEF RefuseMissing, RefuseUnmatched, Throw
<1>2. WrongFields(params) = {field'}
  <2>1. CASE RefuseMissing
    <3>1. /\ Walking /\ ~ AtEnd /\ IsValue(Neighbor) /\ params[Neighbor] = Undefined
          /\ Neighbor \in IsRequired /\ field' = "resourceValue"
      BY <2>1 DEF RefuseMissing, Throw
    <3>2. /\ AtType /\ here.node = params["resourceType"] /\ here.node \in ResourceTypes
          /\ here.next \in DOMAIN Neighbors[here.node]
          /\ Neighbor = Neighbors[here.node][here.next] /\ here.node # "account"
      BY <3>1, ValueIsAsked
    <3>3. ~ HasItsValues(params)
      <4>1. here.next = 1
        BY <3>1, <3>2, TypesAskForValues
      <4> QED BY <3>1, <3>2, <4>1, HasTheFirst
    <3> QED BY <3>1, <3>2, <3>3 DEF AtType, WrongFields, Schemas
  <2>2. CASE RefuseUnmatched
    <3>1. /\ Walking /\ AtEnd /\ ~ here.matched /\ AnyChildNodeName[here.node] = Undefined
          /\ field' = (IF Neighbors[here.node] = <<>> THEN Undefined
                       ELSE KeyName[Neighbors[here.node][1]])
      BY <2>2 DEF RefuseUnmatched, Throw
    <3>2. TypeOK /\ here.next \in Nat \ {0} /\ here.node \in Nodes
      BY DEF IInv, TypeOK, Frames
    <3>3. CASE AtRoot
      <4>1. Neighbors[here.node] # <<>> /\ Neighbors[here.node][1] = "social"
        BY <3>3, Edges DEF AtRoot
      <4>2. KeyName["social"] = "schema"
        BY KeyNames DEF Schemas
      <4> QED BY <3>1, <3>3, <4>1, <4>2 DEF AtRoot, WrongFields, Schemas
    <3>4. CASE AtBranch
      <4>1. \A m \in Range(Neighbors[here.node]) : params[KeyName[m]] # m
        BY <3>1, <3>2, <3>4, PassedAll DEF AtBranch
      <4> QED BY <3>1, <3>4, <4>1, LeadsNowhere DEF AtBranch
    <3>5. CASE AtType
      <4>1. Neighbors[here.node] \in Seq(Nodes \ {"rootNode"})
        BY <3>2, ResourceWalkAssumption
      <4>2. here.next = 1
        BY <3>1, <3>2, <3>5 DEF AtType
      <4>3. Neighbors[here.node] = <<>>
        BY <3>1, <4>1, <4>2 DEF AtEnd
      <4>4. here.node = "account"
        <5>1. here.node \in ResourceTypes
          BY <3>5 DEF AtType
        <5> QED BY <4>3, <5>1, ValueEdges DEF ResourceTypes, ChainResourceTypes, SocialResourceTypes
      <4> QED BY <3>1, <3>5, <4>3, <4>4 DEF AtType, WrongFields, Schemas
    <3> QED BY <3>1, <3>3, <3>4, <3>5 DEF GraphInv, BackAtBranch
  <2> QED BY <2>1, <2>2
<1> QED BY <1>1, <1>2 DEF GraphInv, Walking

(* No neighbor matched: the node for any other name is the right branch.   *)
LEMMA FallbackKeepsGraphInv ==
  ASSUME IInv, GraphInv, Fallback
  PROVE  GraphInv'
<1> DEFINE any == AnyChildNodeName[here.node]
<1>1. /\ Walking /\ Walking' /\ AtEnd /\ ~ here.matched /\ any # Undefined
      /\ id' = Append(id, Section(any)) /\ here' = Frame(any)
      /\ params' = params /\ callers' = callers
      /\ outcome' = outcome /\ field' = field /\ earlier' = earlier
  BY DEF Fallback, Walking
<1>2. TypeOK /\ here.node \in Nodes
  BY DEF IInv, TypeOK, Frames
<1>3. AtBranch
  BY <1>1, AnyNames DEF GraphInv, AtRoot, AtType, BackAtBranch
<1>4. /\ here.node \in Branches /\ Leads(params, here.node) /\ Passed(here)
      /\ id = SectionsOf(params, FieldsTo(here.node))
  BY <1>3 DEF AtBranch
<1>5. any \in Branches /\ Leads(params, any)
      /\ FieldsTo(any) = Append(FieldsTo(here.node), KeyName[any])
  BY <1>1, <1>2, <1>4, PassedAll, LeadsToAny
<1>6. any \in Nodes \ {"rootNode"} /\ ~ IsValue(any)
  BY <1>1, <1>2, <1>5, BranchEdges, ResourceWalkAssumption
<1> HIDE DEF any
<1>7. here'.node = any /\ here'.next = 1 /\ here'.matched = FALSE
  BY <1>1, <1>6, FrameIsFrame
<1>8. id' = SectionsOf(params, FieldsTo(any))
  <2>1. Section(any) = <<KeyName[any], params[KeyName[any]]>>
    BY <1>6 DEF Section, FieldOf
  <2> DEFINE S == {"schema", "app", "chainType", "chainName", KeyName[any]}
  <2>2. <<"schema">> \in Seq(S) /\ <<"schema", "app">> \in Seq(S)
        /\ <<"schema", "chainType">> \in Seq(S) /\ <<"schema", "chainType", "chainName">> \in Seq(S)
    OBVIOUS
  <2>3. KeyName[any] \in S
    OBVIOUS
  <2> HIDE DEF S
  <2>4. FieldsTo(here.node) \in Seq(S)
    BY <2>2 DEF FieldsTo
  <2> QED BY <1>1, <1>4, <1>5, <2>1, <2>3, <2>4, SectionsOfMore
<1>9. Passed(here)'
  <2>1. Neighbors[any] \in Seq(Nodes \ {"rootNode"})
    BY <1>6, ResourceWalkAssumption
  <2>2. \A j \in DOMAIN Neighbors[any] : ~ j < 1
    BY <2>1
  <2> QED BY <1>7, <2>2 DEF Passed
<1>10. AtBranch'
  BY <1>1, <1>5, <1>7, <1>8, <1>9 DEF AtBranch
<1> QED BY <1>1, <1>10 DEF GraphInv, Walking

LEMMA StepKeepsGraphInv == IInv /\ GraphInv /\ [Next]_vars => GraphInv'
<1> SUFFICES ASSUME IInv, GraphInv, [Next]_vars PROVE GraphInv'
  OBVIOUS
<1>1. CASE Start \/ StartUnknown
  BY <1>1, StartKeepsGraphInv
<1>2. CASE Descend
  BY <1>2, DescendKeepsGraphInv
<1>3. CASE PassBy
  BY <1>3, PassByKeepsGraphInv
<1>4. CASE TakeValue \/ SkipOptional
  BY <1>4, ValueStepKeepsGraphInv
<1>5. CASE RefuseMissing \/ RefuseUnmatched
  BY <1>5, RefusalKeepsGraphInv
<1>6. CASE Fallback
  BY <1>6, FallbackKeepsGraphInv
<1>7. CASE Return
  <2>1. /\ Walking /\ Walking' /\ AtEnd /\ here.matched /\ callers # <<>> /\ id' = id
        /\ here' = [Head(callers) EXCEPT !.matched = TRUE] /\ callers' = Tail(callers)
        /\ params' = params /\ outcome' = outcome /\ field' = field /\ earlier' = earlier
    BY <1>7 DEF Return, Walking
  <2>2. callers \in Seq(Frames) /\ \A k \in DOMAIN callers : callers[k].node \in Branches
    BY <2>1 DEF IInv, TypeOK, GraphInv
  <2>3. 1 \in DOMAIN callers /\ Head(callers) = callers[1] /\ callers[1] \in Frames
    BY <2>1, <2>2
  <2>4. here'.node \in Branches /\ here'.matched = TRUE
    BY <2>1, <2>2, <2>3 DEF Frames
  <2>5. Complete(params, id)
    BY <2>1, MatchedIsComplete
  <2>6. BackAtBranch'
    BY <2>1, <2>4, <2>5 DEF BackAtBranch
  <2>7. \A k \in DOMAIN Tail(callers) : k + 1 \in DOMAIN callers /\ Tail(callers)[k] = callers[k + 1]
    BY <2>1, <2>2
  <2> QED BY <2>1, <2>2, <2>6, <2>7 DEF GraphInv
<1>8. CASE Finish
  <2>1. /\ Walking /\ AtEnd /\ here.matched /\ id' = id /\ params' = params
        /\ outcome' = "done" /\ earlier' = earlier
    BY <1>8 DEF Finish
  <2>2. Complete(params, id)
    BY <2>1, MatchedIsComplete
  <2> QED BY <2>1, <2>2 DEF GraphInv, Walking
<1>9. CASE Another
  BY <1>9 DEF Another, GraphInv, Walking
<1>10. CASE UNCHANGED vars
  BY <1>10 DEF vars, GraphInv, Walking, AtRoot, AtBranch, AtType, BackAtBranch, Passed
<1> QED BY <1>1, <1>2, <1>3, <1>4, <1>5, <1>6, <1>7, <1>8, <1>9, <1>10 DEF Next, Walk

THEOREM GraphInvariant == Spec => [](IInv /\ GraphInv)
BY InitIInv, InitGraphInv, StepKeepsIInv, StepKeepsGraphInv, PTL DEF Spec

----------------------------------------------------------------------------
(* What the graph accepts is what the types declare, but for what it does  *)
(* not link.                                                               *)
LEMMA NamesOfNodes ==
  /\ Undefined \notin Schemas \cup AllChainTypes \cup ResourceTypes
  /\ Range(EvmChains) \cap AllChainTypes = {}
<1>1. Undefined \notin Nodes /\ FixedNames \cap Range(EvmChains) = {}
  BY ResourceWalkAssumption, GraphAssumption
<1>2. AllChainTypes \subseteq FixedNames
  BY DEF AllChainTypes, ChainTypes, AnyChainType, FixedNames
<1> QED BY <1>1, <1>2, KeyNames

(* The values that a type requires are those that the graph asks for.      *)
LEMMA RequiredAreDeclared ==
  ASSUME NEW p, p["resourceType"] \in ResourceTypes
  PROVE  HasItsValues(p)
           <=> ~ \E f \in ValuesOf[p["resourceType"]] \ OptionalValues : p[f] = Undefined
<1>1. IsRequired = ResourceValues \ OptionalValues
  BY GraphAssumption DEF GraphIsRequired, OptionalValues
<1>2. ValuesOf[p["resourceType"]] \subseteq ResourceValues
  BY DEF ValuesOf, ResourceValues
<1> QED BY <1>1, <1>2 DEF HasItsValues

(* The types that a name is linked to are declared, and all declared ones  *)
(* that are missing are those of Unlinked.                                 *)
LEMMA LinkedAreDeclared ==
  ASSUME NEW p, p["schema"] \in Schemas, p["resourceType"] # "account"
  PROVE  p["resourceType"] \in LinkedTypes(p)
           <=> p["resourceType"] \in DeclaredTypes(p) /\ ~ Unlinked(p)
<1> USE DEF Unlinked, LinkedTypes, DeclaredTypes
<1>1. CASE p["schema"] = "social"
  BY <1>1
<1>2. CASE p["schema"] = "chain" /\ p["chainType"] = "substrate"
  <2>1. "substrate" \notin Range(EvmChains)
    BY NamesOfNodes DEF AllChainTypes, ChainTypes
  <2> QED BY <1>2, <2>1 DEF SubstrateTypes, SubstrateChainTypes, EvmChainTypes, AnyChainTypes
<1>3. CASE p["schema"] = "chain" /\ p["chainType"] = "evm"
  <2>1. "evm" \notin Range(EvmChains)
    BY NamesOfNodes DEF AllChainTypes, ChainTypes
  <2> QED BY <1>3, <2>1 DEF EvmTypes, EvmChainTypes, AnyChainTypes
<1>4. CASE p["schema"] = "chain" /\ p["chainType"] \notin {"substrate", "evm"}
  BY <1>4 DEF EvmChainTypes, AnyChainTypes
<1> QED BY <1>1, <1>2, <1>3, <1>4 DEF Schemas

LEMMA AccountIsUnlinked ==
  ASSUME NEW p, p["schema"] \in Schemas, p["resourceType"] = "account",
         p["resourceType"] \in DeclaredTypes(p) \cup LinkedTypes(p)
  PROVE  Unlinked(p)
<1>1. p["schema"] = "chain"
  BY DEF Schemas, LinkedTypes, DeclaredTypes, SocialResourceTypes
<1>2. "account" \in DeclaredTypes(p)
  BY <1>1 DEF DeclaredTypes, SubstrateChainTypes, EvmChainTypes, AnyChainTypes
<1> QED BY <1>1, <1>2 DEF Unlinked

LEMMA DeclaredAreTypes == \A p : DeclaredTypes(p) \cup LinkedTypes(p) \subseteq ResourceTypes
BY DEF DeclaredTypes, LinkedTypes, SubstrateTypes, EvmTypes, SubstrateChainTypes, EvmChainTypes,
       AnyChainTypes, ResourceTypes, ChainResourceTypes, SocialResourceTypes

LEMMA AcceptedIsDeclared ==
  ASSUME NEW p, WrongFields(p) = {}
  PROVE  Faults(p) \subseteq {"app", "chainType", "chainName"} /\ ~ Unlinked(p)
<1>1. /\ p["schema"] \in Schemas /\ p["resourceType"] \in LinkedTypes(p)
      /\ p["resourceType"] # "account" /\ HasItsValues(p)
  BY DEF WrongFields, Schemas
<1>2. p["resourceType"] \in DeclaredTypes(p) /\ ~ Unlinked(p)
  BY <1>1, LinkedAreDeclared
<1>3. p["resourceType"] \in ResourceTypes
  BY <1>2, DeclaredAreTypes
<1>4. MissingNames(p) \subseteq {"app", "chainType", "chainName"}
  BY <1>1, <1>3, NamesOfNodes DEF MissingNames, NameFields
<1>5. Faults(p) = MissingNames(p)
  BY <1>1, <1>2, <1>3, RequiredAreDeclared DEF Faults, Schemas
<1> QED BY <1>2, <1>4, <1>5

LEMMA RefusedForAFault ==
  ASSUME NEW p, NEW f, WrongFields(p) = {f}
  PROVE  IF Unlinked(p) THEN f \in {"resourceType", Undefined} ELSE f \in Faults(p)
<1>1. CASE p["schema"] \notin Schemas
  <2>1. f = "schema" /\ ~ Unlinked(p) /\ Faults(p) = {"schema"}
    BY <1>1 DEF WrongFields, Schemas, Unlinked, Faults
  <2> QED BY <2>1
<1>2. CASE p["schema"] \in Schemas /\ p["resourceType"] \notin LinkedTypes(p)
  <2>1. f = "resourceType"
    BY <1>2 DEF WrongFields, Schemas
  <2>2. CASE p["resourceType"] \in DeclaredTypes(p)
    <3>1. Unlinked(p)
      BY <1>2, <2>2, LinkedAreDeclared, AccountIsUnlinked
    <3> QED BY <2>1, <3>1
  <2>3. CASE p["resourceType"] \notin DeclaredTypes(p)
    <3>1. "resourceType" \in Faults(p) /\ ~ Unlinked(p)
      BY <1>2, <2>3 DEF Faults, Schemas, Unlinked
    <3> QED BY <2>1, <3>1
  <2> QED BY <2>2, <2>3
<1>3. CASE /\ p["schema"] \in Schemas /\ p["resourceType"] \in LinkedTypes(p)
           /\ p["resourceType"] = "account"
  <2>1. f = Undefined
    BY <1>3 DEF WrongFields, Schemas
  <2>2. Unlinked(p)
    BY <1>3, AccountIsUnlinked
  <2> QED BY <2>1, <2>2
<1>4. CASE /\ p["schema"] \in Schemas /\ p["resourceType"] \in LinkedTypes(p)
           /\ p["resourceType"] # "account"
  <2>1. f = "resourceValue" /\ ~ HasItsValues(p)
    BY <1>4 DEF WrongFields, Schemas
  <2>2. p["resourceType"] \in DeclaredTypes(p) /\ ~ Unlinked(p)
    BY <1>4, LinkedAreDeclared
  <2>3. p["resourceType"] \in ResourceTypes
    BY <2>2, DeclaredAreTypes
  <2>4. "resourceValue" \in Faults(p)
    BY <1>4, <2>1, <2>2, <2>3, RequiredAreDeclared DEF Faults, Schemas
  <2> QED BY <2>1, <2>2, <2>4
<1> QED BY <1>1, <1>2, <1>3, <1>4

(* WalkMeetsTypes: whatever chains and applications are listed,            *)
(* toResourceId gives an id only to what the types declare, with its       *)
(* sections in order, and refuses for a field that is at fault, or because *)
(* the graph does not link what is declared.                               *)
THEOREM MeetsTypes == Spec => []WalkMeetsTypes
<1>1. GraphInv => WalkMeetsTypes
  <2> SUFFICES ASSUME GraphInv PROVE WalkMeetsTypes
    OBVIOUS
  <2>1. CASE outcome = "done"
    <3>1. WrongFields(params) = {} /\ id = IdOf(params)
      BY <2>1 DEF GraphInv, Complete
    <3> QED BY <2>1, <3>1, AcceptedIsDeclared DEF WalkMeetsTypes
  <2>2. CASE outcome = "threw"
    <3>1. WrongFields(params) = {field}
      BY <2>2 DEF GraphInv
    <3> QED BY <2>2, <3>1, RefusedForAFault DEF WalkMeetsTypes
  <2> QED BY <2>1, <2>2 DEF WalkMeetsTypes
<1> QED BY <1>1, GraphInvariant, PTL

----------------------------------------------------------------------------
(* FlattenSeq joins from the left.                                         *)
FlatTo(f, parts, n) ==
  \A i \in 1 .. n : f[i] = IF i = 1 THEN parts[i] ELSE f[i - 1] \o parts[i]

LEMMA Smallest ==
  ASSUME NEW T, T \subseteq Nat, T # {}
  PROVE  \E x \in T : \A y \in T : x <= y
<1>1. PICK x \in T : \A y \in T : <<y, x>> \notin OpToRel(<, Nat)
  BY WFMin, NatLessThanWellFounded, Zenon
<1>2. \A y \in T : ~ (y < x)
  BY <1>1, Zenon DEF OpToRel
<1> QED BY <1>2

LEMMA FlatIsOne ==
  ASSUME NEW parts, NEW n \in Nat, NEW f, NEW g, FlatTo(f, parts, n), FlatTo(g, parts, n)
  PROVE  \A i \in 1 .. n : f[i] = g[i]
<1> DEFINE T == {i \in 1 .. n : f[i] # g[i]}
<1> SUFFICES ASSUME T # {} PROVE FALSE
  OBVIOUS
<1>1. T \subseteq Nat
  OBVIOUS
<1>2. PICK x \in T : \A y \in T : x <= y
  <2> HIDE DEF T
  <2> QED BY <1>1, Smallest
<1>3. x \in 1 .. n /\ f[x] # g[x] /\ (x # 1 => x - 1 \in 1 .. n /\ f[x - 1] = g[x - 1])
  BY <1>2
<1> QED BY <1>3 DEF FlatTo

LEMMA FlatExists ==
  ASSUME NEW parts, NEW n \in Nat
  PROVE  \E f : f = [i \in 1 .. n |-> f[i]] /\ FlatTo(f, parts, n)
<1> DEFINE Exists(m) == \E f : f = [i \in 1 .. m |-> f[i]] /\ FlatTo(f, parts, m)
           T == {m \in Nat : ~ Exists(m)}
<1> SUFFICES ASSUME T # {} PROVE FALSE
  OBVIOUS
<1>1. T \subseteq Nat
  OBVIOUS
<1>2. PICK m \in T : \A y \in T : m <= y
  <2> HIDE DEF T
  <2> QED BY <1>1, Smallest
<1>3. Exists(0)
  <2> DEFINE f == [i \in 1 .. 0 |-> 0]
  <2>1. f = [i \in 1 .. 0 |-> f[i]] /\ FlatTo(f, parts, 0)
    BY DEF FlatTo
  <2> QED BY <2>1
<1>4. m \in Nat \ {0} /\ m - 1 \in Nat /\ m - 1 \notin T
  <2> HIDE DEF Exists
  <2> QED BY <1>2, <1>3
<1>5. PICK g : FlatTo(g, parts, m - 1)
  BY <1>4
<1> DEFINE h == [i \in 1 .. m |-> IF i # m THEN g[i]
                                  ELSE IF i = 1 THEN parts[i] ELSE g[i - 1] \o parts[i]]
<1>6. FlatTo(h, parts, m)
  BY <1>4, <1>5 DEF FlatTo
<1>7. h = [i \in 1 .. m |-> h[i]]
  OBVIOUS
<1>8. Exists(m)
  <2> HIDE DEF h
  <2> QED BY <1>6, <1>7
<1> QED BY <1>2, <1>8

LEMMA FlattenIsLast ==
  ASSUME NEW parts, Len(parts) \in Nat \ {0}, NEW f, FlatTo(f, parts, Len(parts))
  PROVE  FlattenSeq(parts) = f[Len(parts)]
<1> DEFINE n == Len(parts)
           Is(g) == g = [i \in 1 .. n |-> IF i = 1 THEN parts[i] ELSE g[i - 1] \o parts[i]]
           c == CHOOSE g : Is(g)
<1>1. PICK g : g = [i \in 1 .. n |-> g[i]] /\ FlatTo(g, parts, n)
  BY FlatExists
<1>2. Is(g)
  BY <1>1 DEF FlatTo
<1>3. Is(c)
  <2> HIDE DEF Is
  <2> QED BY <1>2
<1>4. FlatTo(c, parts, n)
  <2> HIDE DEF c
  <2> QED BY <1>3 DEF FlatTo
<1>5. FlattenSeq(parts) = c[n]
  BY DEF FlattenSeq
<1> HIDE DEF c
<1>6. n \in 1 .. n
  OBVIOUS
<1> QED BY <1>4, <1>5, <1>6, FlatIsOne

LEMMA FlattenOne == ASSUME NEW x PROVE FlattenSeq(<<x>>) = x
<1> DEFINE f == [i \in {1} |-> x]
<1>1. Len(<<x>>) = 1 /\ Len(<<x>>) \in Nat \ {0} /\ FlatTo(f, <<x>>, 1) /\ f[1] = x
  BY DEF FlatTo
<1> HIDE DEF f
<1>2. FlattenSeq(<<x>>) = f[1]
  BY <1>1, FlattenIsLast
<1> QED BY <1>1, <1>2

LEMMA FlattenMore ==
  ASSUME NEW T, NEW parts \in Seq(T), parts # <<>>, NEW x \in T
  PROVE  FlattenSeq(Append(parts, x)) = FlattenSeq(parts) \o x
<1> DEFINE n == Len(parts)
           more == Append(parts, x)
<1>1. n \in Nat \ {0} /\ Len(more) = n + 1 /\ more[n + 1] = x
      /\ \A i \in 1 .. n : more[i] = parts[i]
  OBVIOUS
<1> HIDE DEF n, more
<1>2. PICK f : FlatTo(f, more, n + 1)
  <2>1. n + 1 \in Nat
    BY <1>1
  <2> QED BY <2>1, FlatExists
<1>3. FlatTo(f, parts, n)
  BY <1>1, <1>2 DEF FlatTo
<1>4. f[n + 1] = f[n] \o x
  <2>1. n + 1 \in 1 .. n + 1 /\ n + 1 # 1 /\ (n + 1) - 1 = n
    BY <1>1
  <2>2. f[n + 1] = f[(n + 1) - 1] \o more[n + 1]
    BY <1>2, <2>1, Zenon DEF FlatTo
  <2> QED BY <1>1, <2>1, <2>2
<1>5. FlattenSeq(parts) = f[n] /\ FlattenSeq(more) = f[n + 1]
  BY <1>1, <1>2, <1>3, FlattenIsLast DEF n
<1> QED BY <1>4, <1>5 DEF more

(* The id grows at its end, as the callback writes it.                     *)
LEMMA IdStarts == ASSUME NEW s PROVE ResourceId(<<s>>) = SchemaText(s)
<1>1. [i \in DOMAIN <<s>> |-> IF i = 1 THEN SchemaText(<<s>>[i]) ELSE SectionText(<<s>>[i])]
        = <<SchemaText(s)>>
  <2> DEFINE x == SchemaText(s)
             y == SectionText(s)
  <2>1. [i \in DOMAIN <<s>> |-> IF i = 1 THEN SchemaText(<<s>>[i]) ELSE SectionText(<<s>>[i])]
          = [i \in {1} |-> x]
    OBVIOUS
  <2> HIDE DEF x
  <2>2. [i \in {1} |-> x] = <<x>>
    OBVIOUS
  <2> QED BY <2>1, <2>2 DEF x
<1> QED BY <1>1, FlattenOne DEF ResourceId

LEMMA IdGrows ==
  ASSUME NEW T, NEW sections \in Seq(T), sections # <<>>, NEW s \in T
  PROVE  ResourceId(Append(sections, s)) = ResourceId(sections) \o SectionText(s)
<1> DEFINE n == Len(sections)
           Part(t, i) == IF i = 1 THEN SchemaText(t) ELSE SectionText(t)
           P == {Part(t, i) : t \in T, i \in Nat}
           short == [i \in 1 .. n |-> Part(sections[i], i)]
           long == [i \in 1 .. n + 1 |-> Part(Append(sections, s)[i], i)]
<1>1. /\ n \in Nat \ {0} /\ DOMAIN sections = 1 .. n /\ DOMAIN Append(sections, s) = 1 .. n + 1
      /\ Append(sections, s)[n + 1] = s
      /\ \A i \in 1 .. n : Append(sections, s)[i] = sections[i] /\ sections[i] \in T
  OBVIOUS
<1>2. ResourceId(sections) = FlattenSeq(short) /\ ResourceId(Append(sections, s)) = FlattenSeq(long)
  BY <1>1 DEF ResourceId
<1>3. \A i \in 1 .. n : short[i] = Part(sections[i], i) /\ short[i] \in P
  BY <1>1
<1>4. /\ \A i \in 1 .. n : long[i] = short[i]
      /\ long[n + 1] = SectionText(s) /\ SectionText(s) \in P
  <2>1. \A i \in 1 .. n : long[i] = short[i]
    BY <1>1
  <2>2. long[n + 1] = Part(s, n + 1) /\ n + 1 # 1 /\ n + 1 \in Nat
    BY <1>1
  <2> QED BY <2>1, <2>2
<1>5. short \in Seq(P) /\ short # <<>> /\ Len(short) = n
  <2> HIDE DEF P, Part
  <2> QED BY <1>1, <1>3
<1>6. long = Append(short, SectionText(s))
  <2>1. long = [i \in 1 .. n + 1 |-> long[i]]
    OBVIOUS
  <2> HIDE DEF short, long, P
  <2>2. \A i \in 1 .. n + 1 : i \in 1 .. n \/ i = n + 1
    BY <1>1
  <2>3. \A i \in 1 .. n + 1 : long[i] \in P
    BY <1>3, <1>4, <2>2
  <2>4. long \in Seq(P) /\ Len(long) = n + 1
    BY <1>1, <2>1, <2>3
  <2>5. /\ Append(short, SectionText(s)) \in Seq(P)
        /\ Len(Append(short, SectionText(s))) = n + 1
        /\ Append(short, SectionText(s))[n + 1] = SectionText(s)
        /\ \A i \in 1 .. n : Append(short, SectionText(s))[i] = short[i]
    BY <1>1, <1>4, <1>5
  <2>6. \A i \in 1 .. n + 1 : long[i] = Append(short, SectionText(s))[i]
    BY <1>4, <2>2, <2>5
  <2> QED BY <2>4, <2>5, <2>6, SeqEqual
<1> HIDE DEF short, long, P
<1> QED BY <1>2, <1>4, <1>5, <1>6, FlattenMore

(* The section of a field, and what is written of one that may be missing. *)
SectionFor(p, f) == <<"/", f, ":">> \o Text[p[f]]

OptionalFor(p, f) == IF p[f] = Undefined THEN <<>> ELSE SectionFor(p, f)

IdFor(p, fields) == ResourceId(SectionsOf(p, fields))

Words == STRING \cup {"/", ":"} \cup GraphFields
Str == Seq(Words)

LEMMA IdForGrows ==
  ASSUME NEW p, NEW S, NEW s \in Seq(S), s # <<>>, NEW f \in S
  PROVE  IdFor(p, Append(s, f)) = IdFor(p, s) \o SectionFor(p, f)
<1> DEFINE T == {<<g, p[g]>> : g \in S}
           sections == SectionsOf(p, s)
<1>1. Len(s) \in Nat \ {0} /\ DOMAIN s = 1 .. Len(s) /\ \A i \in 1 .. Len(s) : s[i] \in S
  OBVIOUS
<1>2. sections \in Seq(T) /\ sections # <<>>
  <2>1. sections = [i \in 1 .. Len(s) |-> <<s[i], p[s[i]]>>]
    BY <1>1 DEF SectionsOf
  <2>2. \A i \in 1 .. Len(s) : <<s[i], p[s[i]]>> \in T
    BY <1>1
  <2> HIDE DEF T
  <2> QED BY <1>1, <2>1, <2>2
<1>3. <<f, p[f]>> \in T
  OBVIOUS
<1> HIDE DEF T, sections
<1>4. ResourceId(Append(sections, <<f, p[f]>>)) = ResourceId(sections) \o SectionText(<<f, p[f]>>)
  BY <1>2, <1>3, IdGrows
<1>5. SectionText(<<f, p[f]>>) = SectionFor(p, f)
  BY DEF SectionText, SectionFor
<1> QED BY <1>4, <1>5, SectionsOfMore DEF IdFor, sections

----------------------------------------------------------------------------
(* Concatenation under a name: a prover takes an equation of two "\o" apart *)
(* position by position, which hides what the lemmas below say of it.      *)
Then(x, y) == x \o y

LEMMA Joins ==
  /\ \A x, y \in Str : Then(x, y) \in Str
  /\ \A x, y, z \in Str : Then(Then(x, y), z) = Then(x, Then(y, z))
  /\ \A x \in Str : Then(x, <<>>) = x
BY ConcatProperties, ConcatAssociative, ConcatEmptySeq DEF Str, Then

(* Reading an id from its start.  What follows a section is nothing, or    *)
(* begins with a "/".                                                      *)
Begins(x) == x = <<>> \/ x[1] = "/"

LEMMA CancelLeft ==
  ASSUME NEW S, NEW a \in Seq(S), NEW c \in Seq(S), NEW d \in Seq(S), a \o c = a \o d
  PROVE  c = d
BY ConcatSimplifications

LEMMA NotLonger ==
  ASSUME NEW a \in Str, NEW b \in Str, NEW c \in Str, NEW d \in Str,
         "/" \notin Range(b), Begins(c), a \o c = b \o d
  PROVE  Len(a) >= Len(b)
<1> SUFFICES ASSUME Len(a) < Len(b) PROVE FALSE
  BY DEF Str
<1> DEFINE k == Len(a) + 1
<1>1. /\ Len(a) \in Nat /\ Len(b) \in Nat /\ Len(c) \in Nat /\ Len(d) \in Nat
      /\ k \in 1 .. Len(b)
  BY DEF Str
<1>2. Len(a \o c) = Len(a) + Len(c) /\ Len(b \o d) = Len(b) + Len(d)
  BY ConcatProperties DEF Str
<1>3. Len(c) > 0
  BY <1>1, <1>2
<1>4. (a \o c)[k] = c[1]
  BY <1>1, <1>3 DEF Str
<1>5. (b \o d)[k] = b[k]
  BY <1>1 DEF Str
<1>6. c[1] = "/"
  BY <1>3 DEF Begins
<1>7. b[k] \in Range(b)
  BY <1>1 DEF Range, Str
<1> QED BY <1>4, <1>5, <1>6, <1>7

LEMMA SplitsAtSlash ==
  ASSUME NEW a \in Str, NEW b \in Str, NEW c \in Str, NEW d \in Str,
         "/" \notin Range(a), "/" \notin Range(b), Begins(c), Begins(d), Then(a, c) = Then(b, d)
  PROVE  a = b /\ c = d
<1> a \o c = b \o d
  BY Zenon DEF Then
<1>1. Len(a) \in Nat /\ Len(b) \in Nat /\ Len(c) \in Nat /\ Len(d) \in Nat
  BY DEF Str
<1>2. Len(a) = Len(b)
  <2>1. Len(a) >= Len(b) /\ Len(b) >= Len(a)
    BY NotLonger
  <2> QED BY <1>1, <2>1
<1>3. \A i \in 1 .. Len(a) : a[i] = b[i]
  <2>1. \A i \in 1 .. Len(a) : (a \o c)[i] = a[i] /\ (b \o d)[i] = b[i]
    BY <1>1, <1>2 DEF Str
  <2> QED BY <2>1
<1>4. a = b
  BY <1>2, <1>3, SeqEqual DEF Str
<1>5. c = d
  BY <1>4, CancelLeft DEF Str
<1> QED BY <1>4, <1>5

LEMMA KeysFirst ==
  \A f, g \in GraphFields : \A c, d \in Str :
    Then(<<"/", f, ":">>, c) = Then(<<"/", g, ":">>, d) => f = g /\ c = d
<1> SUFFICES ASSUME NEW f \in GraphFields, NEW g \in GraphFields, NEW c \in Str, NEW d \in Str,
                    <<"/", f, ":">> \o c = <<"/", g, ":">> \o d
             PROVE  f = g /\ c = d
  BY Zenon DEF Then
<1>1. <<"/", f, ":">> \in Str /\ <<"/", g, ":">> \in Str
  BY DEF Str, Words
<1>2. (<<"/", f, ":">> \o c)[2] = f /\ (<<"/", g, ":">> \o d)[2] = g
  BY <1>1 DEF Str
<1>3. f = g
  BY <1>2
<1>4. c = d
  BY <1>1, <1>3, CancelLeft DEF Str
<1> QED BY <1>3, <1>4

(* A resource as the application writes it: each field a value, or missing. *)
IsResource(p) == p \in [GraphFields -> Values \cup {Undefined}]

LEMMA TextsAreStrings ==
  ASSUME NEW p, NEW f \in GraphFields, IsResource(p)
  PROVE  /\ Text[p[f]] \in Str
         /\ <<"/", f, ":">> \in Str
         /\ SectionFor(p, f) \in Str /\ SectionFor(p, f) # <<>>
         /\ SectionFor(p, f)[1] = "/"
         /\ OptionalFor(p, f) \in Str /\ Begins(OptionalFor(p, f))
<1>1. p[f] \in Values \cup {Undefined}
  BY DEF IsResource
<1>2. Text[p[f]] \in Seq(STRING)
  BY <1>1, TextAssumption
<1>3. Text[p[f]] \in Str
  BY <1>2, SeqMonotonic DEF Str, Words
<1>4. <<"/", f, ":">> \in Str
  BY DEF Str, Words
<1>5. SectionFor(p, f) \in Str /\ SectionFor(p, f) # <<>> /\ SectionFor(p, f)[1] = "/"
  <2> DEFINE x == <<"/", f, ":">>  y == Text[p[f]]
  <2>1. x \in Str /\ y \in Str /\ Len(x) = 3 /\ x[1] = "/"
    BY <1>3, <1>4
  <2> HIDE DEF x, y
  <2>2. x \o y \in Str /\ x \o y # <<>> /\ (x \o y)[1] = "/"
    BY <2>1 DEF Str
  <2> QED BY <2>2 DEF SectionFor, x, y
<1>6. <<>> \in Str
  BY DEF Str
<1> QED BY <1>3, <1>4, <1>5, <1>6 DEF OptionalFor, Begins

(* Two sections at the start of a text: their keys are equal, and so are   *)
(* their values, if these have no "/" in them.                             *)
LEMMA SameKey ==
  ASSUME NEW p, NEW q, NEW f \in GraphFields, NEW g \in GraphFields, NEW c \in Str, NEW d \in Str,
         IsResource(p), IsResource(q), Then(SectionFor(p, f), c) = Then(SectionFor(q, g), d)
  PROVE  f = g /\ Then(Text[p[f]], c) = Then(Text[q[g]], d)
<1> DEFINE x == <<"/", f, ":">>  y == <<"/", g, ":">>  a == Text[p[f]]  b == Text[q[g]]
<1>1. x \in Str /\ y \in Str /\ a \in Str /\ b \in Str
  BY TextsAreStrings
<1>2. SectionFor(p, f) = Then(x, a) /\ SectionFor(q, g) = Then(y, b)
  BY Zenon DEF SectionFor, Then
<1> HIDE DEF x, y, a, b
<1>3. Then(Then(x, a), c) = Then(x, Then(a, c)) /\ Then(Then(y, b), d) = Then(y, Then(b, d))
  BY <1>1, Joins, Zenon
<1>4. Then(a, c) \in Str /\ Then(b, d) \in Str
  BY <1>1, Joins, Zenon
<1>5. Then(x, Then(a, c)) = Then(y, Then(b, d))
  BY <1>2, <1>3, Zenon
<1>6. f = g /\ Then(a, c) = Then(b, d)
  BY <1>4, <1>5, KeysFirst DEF x, y
<1> QED BY <1>6, Zenon DEF a, b

LEMMA SameSection ==
  ASSUME NEW p, NEW q, NEW f \in GraphFields, NEW g \in GraphFields, NEW c \in Str, NEW d \in Str,
         IsResource(p), IsResource(q), Then(SectionFor(p, f), c) = Then(SectionFor(q, g), d),
         "/" \notin Range(Text[p[f]]), "/" \notin Range(Text[q[g]]), Begins(c), Begins(d)
  PROVE  f = g /\ Text[p[f]] = Text[q[g]] /\ c = d
<1>1. f = g /\ Then(Text[p[f]], c) = Then(Text[q[g]], d)
  BY SameKey
<1>2. Text[p[f]] \in Str /\ Text[q[g]] \in Str
  BY TextsAreStrings
<1> QED BY <1>1, <1>2, SplitsAtSlash, Zenon

----------------------------------------------------------------------------
(* The id of a resource, read from its start.                              *)
ValuesFor(p) ==
  IF p["resourceType"] = "nft"
  THEN Then(SectionFor(p, "collectionId"), Then(OptionalFor(p, "nftId"), OptionalFor(p, "standard")))
  ELSE SectionFor(p, ValueOrder(p)[1])

NamesFor(p, rest) ==
  IF p["schema"] = "social"
  THEN Then(SectionFor(p, "app"), Then(SectionFor(p, "resourceType"), rest))
  ELSE Then(SectionFor(p, "chainType"),
            Then(SectionFor(p, "chainName"), Then(SectionFor(p, "resourceType"), rest)))

LEMMA Regroup ==
  ASSUME NEW a \in Str, NEW b \in Str, NEW c \in Str, NEW d \in Str
  PROVE  Then(Then(Then(a, b), c), d) = Then(a, Then(b, Then(c, d)))
<1>1. Then(c, d) \in Str /\ Then(a, b) \in Str
  BY Joins, Zenon
<1>2. Then(Then(Then(a, b), c), d) = Then(Then(a, b), Then(c, d))
  BY <1>1, Joins, Zenon
<1>3. Then(Then(a, b), Then(c, d)) = Then(a, Then(b, Then(c, d)))
  BY <1>1, Joins, Zenon
<1> QED BY <1>2, <1>3, Zenon

SchemaFor(p) == SchemaText(<<"schema", p["schema"]>>)

LEMMA SchemaIsString ==
  ASSUME NEW p, IsResource(p) PROVE SchemaFor(p) \in Str
<1>1. "schema" \in GraphFields
  BY DEF GraphFields
<1>2. Text[p["schema"]] \in Str
  BY <1>1, TextsAreStrings
<1>3. <<":", "/">> \in Str
  BY DEF Str, Words
<1>4. SchemaFor(p) = Then(Text[p["schema"]], <<":", "/">>)
  BY DEF SchemaFor, SchemaText, Then
<1> QED BY <1>2, <1>3, <1>4, Joins

LEMMA Extends ==
  ASSUME NEW p, NEW s \in Seq(GraphFields), NEW f \in GraphFields, s # <<>>, IsResource(p),
         IdFor(p, s) \in Str
  PROVE  /\ Append(s, f) \in Seq(GraphFields) /\ Append(s, f) # <<>>
         /\ IdFor(p, Append(s, f)) = Then(IdFor(p, s), SectionFor(p, f))
         /\ IdFor(p, Append(s, f)) \in Str
<1>1. Append(s, f) \in Seq(GraphFields) /\ Append(s, f) # <<>>
  OBVIOUS
<1>2. IdFor(p, Append(s, f)) = Then(IdFor(p, s), SectionFor(p, f))
  BY IdForGrows, Zenon DEF Then
<1>3. SectionFor(p, f) \in Str
  BY TextsAreStrings
<1> QED BY <1>1, <1>2, <1>3, Joins

LEMMA ExtendsIfSet ==
  ASSUME NEW p, NEW s \in Seq(GraphFields), NEW f \in GraphFields, s # <<>>, IsResource(p),
         IdFor(p, s) \in Str
  PROVE  /\ s \o IfSet(p, f) \in Seq(GraphFields) /\ s \o IfSet(p, f) # <<>>
         /\ IdFor(p, s \o IfSet(p, f)) = Then(IdFor(p, s), OptionalFor(p, f))
         /\ IdFor(p, s \o IfSet(p, f)) \in Str
<1>1. s \o IfSet(p, f) \in Seq(GraphFields)
      /\ s \o IfSet(p, f) = IF p[f] = Undefined THEN s ELSE Append(s, f)
  BY JoinIfSet
<1>2. CASE p[f] = Undefined
  BY <1>1, <1>2, Joins DEF OptionalFor
<1>3. CASE p[f] # Undefined
  BY <1>1, <1>3, Extends DEF OptionalFor
<1> QED BY <1>2, <1>3

LEMMA NamesText ==
  ASSUME NEW p, IsResource(p)
  PROVE  /\ NameOrder(p) \in Seq(GraphFields) /\ NameOrder(p) # <<>>
         /\ IdFor(p, NameOrder(p)) \in Str
         /\ \A rest \in Str :
              Then(IdFor(p, NameOrder(p)), rest) = Then(SchemaFor(p), NamesFor(p, rest))
<1>1. \A f \in {"schema", "app", "chainType", "chainName", "resourceType"} :
        f \in GraphFields /\ SectionFor(p, f) \in Str
  BY TextsAreStrings DEF GraphFields
<1>2. /\ <<"schema">> \in Seq(GraphFields) /\ <<"schema">> # <<>>
      /\ IdFor(p, <<"schema">>) = SchemaFor(p) /\ SchemaFor(p) \in Str
  <2>1. SectionsOf(p, <<"schema">>) = <<<<"schema", p["schema"]>>>>
    <3> DEFINE x == <<"schema", p["schema"]>>
    <3>1. SectionsOf(p, <<"schema">>) = [i \in {1} |-> x]
      BY DEF SectionsOf
    <3> HIDE DEF x
    <3>2. [i \in {1} |-> x] = <<x>>
      OBVIOUS
    <3> QED BY <3>1, <3>2 DEF x
  <2>2. IdFor(p, <<"schema">>) = SchemaFor(p)
    BY <2>1, IdStarts DEF IdFor, SchemaFor
  <2> QED BY <1>1, <2>2, SchemaIsString
<1>3. CASE p["schema"] = "social"
  <2> DEFINE a == SectionFor(p, "app")  t == SectionFor(p, "resourceType")
  <2>1. /\ <<"schema", "app">> \in Seq(GraphFields) /\ <<"schema", "app">> # <<>>
        /\ IdFor(p, <<"schema", "app">>) = Then(SchemaFor(p), a)
        /\ IdFor(p, <<"schema", "app">>) \in Str
    <3>1. Append(<<"schema">>, "app") = <<"schema", "app">>
      BY OneMore
    <3> QED BY <1>1, <1>2, <3>1, Extends
  <2>2. /\ NameOrder(p) \in Seq(GraphFields) /\ NameOrder(p) # <<>>
        /\ IdFor(p, NameOrder(p)) = Then(Then(SchemaFor(p), a), t)
        /\ IdFor(p, NameOrder(p)) \in Str
    <3>1. NameOrder(p) = Append(<<"schema", "app">>, "resourceType")
      BY <1>3, OneMore DEF NameOrder
    <3> QED BY <1>1, <2>1, <3>1, Extends
  <2>3. a \in Str /\ t \in Str
    BY <1>1
  <2>4. \A rest : NamesFor(p, rest) = Then(a, Then(t, rest))
    BY <1>3 DEF NamesFor
  <2> HIDE DEF a, t
  <2>5. \A rest \in Str : Then(Then(Then(SchemaFor(p), a), t), rest)
                            = Then(SchemaFor(p), Then(a, Then(t, rest)))
    BY <1>2, <2>3, Regroup, Zenon
  <2> QED BY <2>2, <2>4, <2>5
<1>4. CASE p["schema"] # "social"
  <2> DEFINE a == SectionFor(p, "chainType")  b == SectionFor(p, "chainName")
             t == SectionFor(p, "resourceType")
  <2>1. /\ <<"schema", "chainType">> \in Seq(GraphFields) /\ <<"schema", "chainType">> # <<>>
        /\ IdFor(p, <<"schema", "chainType">>) = Then(SchemaFor(p), a)
        /\ IdFor(p, <<"schema", "chainType">>) \in Str
    <3>1. Append(<<"schema">>, "chainType") = <<"schema", "chainType">>
      BY OneMore
    <3> QED BY <1>1, <1>2, <3>1, Extends
  <2> DEFINE three == <<"schema", "chainType", "chainName">>
  <2>2. /\ three \in Seq(GraphFields) /\ three # <<>>
        /\ IdFor(p, three) = Then(Then(SchemaFor(p), a), b)
        /\ IdFor(p, three) \in Str
    <3>1. Append(<<"schema", "chainType">>, "chainName") = three
      BY OneMore
    <3> QED BY <1>1, <2>1, <3>1, Extends
  <2>3. /\ NameOrder(p) \in Seq(GraphFields) /\ NameOrder(p) # <<>>
        /\ IdFor(p, NameOrder(p)) = Then(Then(Then(SchemaFor(p), a), b), t)
        /\ IdFor(p, NameOrder(p)) \in Str
    <3>1. NameOrder(p) = Append(three, "resourceType")
      BY <1>4, OneMore DEF NameOrder
    <3> HIDE DEF three
    <3> QED BY <1>1, <2>2, <3>1, Extends
  <2>4. a \in Str /\ b \in Str /\ t \in Str
    BY <1>1
  <2>5. \A rest : NamesFor(p, rest) = Then(a, Then(b, Then(t, rest)))
    BY <1>4 DEF NamesFor
  <2> HIDE DEF a, b, t
  <2>6. \A rest \in Str : Then(Then(Then(Then(SchemaFor(p), a), b), t), rest)
                            = Then(SchemaFor(p), Then(a, Then(b, Then(t, rest))))
    <3> SUFFICES ASSUME NEW rest \in Str
                 PROVE  Then(Then(Then(Then(SchemaFor(p), a), b), t), rest)
                          = Then(SchemaFor(p), Then(a, Then(b, Then(t, rest))))
      OBVIOUS
    <3> DEFINE sa == Then(SchemaFor(p), a)
    <3>1. sa \in Str /\ Then(b, Then(t, rest)) \in Str
      BY <1>2, <2>4, Joins
    <3>2. Then(Then(Then(sa, b), t), rest) = Then(sa, Then(b, Then(t, rest)))
      <4> HIDE DEF sa
      <4> QED BY <2>4, <3>1, Regroup
    <3> QED BY <1>2, <2>4, <3>1, <3>2, Joins, Zenon
  <2> QED BY <2>3, <2>5, <2>6
<1> QED BY <1>3, <1>4

LEMMA JoinFields ==
  /\ \A x, y \in Seq(GraphFields) : Then(x, y) \in Seq(GraphFields)
  /\ \A x, y, z \in Seq(GraphFields) : Then(Then(x, y), z) = Then(x, Then(y, z))
BY ConcatProperties, ConcatAssociative DEF Then

LEMMA IdReads ==
  ASSUME NEW p, IsResource(p)
  PROVE  ValuesFor(p) \in Str /\ ResourceId(IdOf(p)) = Then(SchemaFor(p), NamesFor(p, ValuesFor(p)))
<1> DEFINE n == NameOrder(p)
<1>1. n \in Seq(GraphFields) /\ n # <<>> /\ IdFor(p, n) \in Str
  BY NamesText
<1>2. ValuesFor(p) \in Str /\ IdFor(p, n \o ValueOrder(p)) = Then(IdFor(p, n), ValuesFor(p))
  <2>1. CASE p["resourceType"] = "nft"
    <3> DEFINE c == SectionFor(p, "collectionId")  o == OptionalFor(p, "nftId")
               s == OptionalFor(p, "standard")
               one == Append(n, "collectionId")
               two == one \o IfSet(p, "nftId")
               three == two \o IfSet(p, "standard")
    <3>1. /\ "collectionId" \in GraphFields /\ "nftId" \in GraphFields /\ "standard" \in GraphFields
          /\ c \in Str /\ o \in Str /\ s \in Str
      <4>1. "collectionId" \in GraphFields /\ "nftId" \in GraphFields /\ "standard" \in GraphFields
        BY DEF GraphFields, ResourceValues
      <4> QED BY <4>1, TextsAreStrings
    <3> HIDE DEF n, c, o, s
    <3>2. /\ one \in Seq(GraphFields) /\ one # <<>>
          /\ IdFor(p, one) = Then(IdFor(p, n), c) /\ IdFor(p, one) \in Str
      BY <1>1, <3>1, Extends DEF c
    <3> HIDE DEF one
    <3>3. /\ two \in Seq(GraphFields) /\ two # <<>>
          /\ IdFor(p, two) = Then(IdFor(p, one), o) /\ IdFor(p, two) \in Str
      BY <3>1, <3>2, ExtendsIfSet DEF o
    <3> HIDE DEF two
    <3>4. IdFor(p, three) = Then(IdFor(p, two), s)
      BY <3>1, <3>3, ExtendsIfSet DEF s
    <3> HIDE DEF three
    <3>5. IdFor(p, three) = Then(IdFor(p, n), Then(c, Then(o, s)))
      BY <1>1, <3>1, <3>2, <3>3, <3>4, Joins
    <3>6. n \o ValueOrder(p) = three
      <4> DEFINE x == <<"collectionId">>  y == IfSet(p, "nftId")  z == IfSet(p, "standard")
      <4>1. x \in Seq(GraphFields) /\ y \in Seq(GraphFields) /\ z \in Seq(GraphFields)
        BY <3>1 DEF IfSet
      <4>2. ValueOrder(p) = Then(Then(x, y), z)
        BY <2>1 DEF ValueOrder, Then
      <4>3. one = Then(n, x)
        BY <1>1, <3>1 DEF one, Then
      <4>4. three = Then(Then(one, y), z)
        BY DEF three, two, Then
      <4> HIDE DEF x, y, z
      <4>5. Then(n, Then(Then(x, y), z)) = Then(Then(n, Then(x, y)), z)
        <5>1. Then(x, y) \in Seq(GraphFields)
          BY <4>1, JoinFields, Zenon
        <5> QED BY <1>1, <4>1, <5>1, JoinFields
      <4>6. Then(n, Then(x, y)) = Then(Then(n, x), y)
        BY <1>1, <4>1, JoinFields
      <4>7. n \o ValueOrder(p) = Then(n, ValueOrder(p))
        BY DEF Then
      <4> QED BY <4>2, <4>3, <4>4, <4>5, <4>6, <4>7, Zenon
    <3>7. ValuesFor(p) = Then(c, Then(o, s))
      BY <2>1 DEF ValuesFor, c, o, s
    <3> QED BY <3>1, <3>5, <3>6, <3>7, Joins
  <2>2. CASE p["resourceType"] # "nft"
    <3>1. PICK v \in {"blockNumber", "txHash", "tokenAddress", "id"} : ValueOrder(p) = <<v>>
      BY <2>2 DEF ValueOrder
    <3>2. v \in GraphFields
      BY DEF GraphFields, ResourceValues
    <3>3. ValuesFor(p) = SectionFor(p, v)
      BY <2>2, <3>1 DEF ValuesFor
    <3>4. n \o <<v>> = Append(n, v)
      <4> HIDE DEF n
      <4> QED BY <1>1, <3>2
    <3>5. IdFor(p, Append(n, v)) = Then(IdFor(p, n), SectionFor(p, v)) /\ SectionFor(p, v) \in Str
      <4> HIDE DEF n
      <4> QED BY <1>1, <3>2, Extends, TextsAreStrings
    <3>6. n \o ValueOrder(p) = Append(n, v)
      BY <3>1, <3>4, Zenon
    <3> QED BY <3>3, <3>5, <3>6, Zenon
  <2> QED BY <2>1, <2>2
<1>3. Then(IdFor(p, n), ValuesFor(p)) = Then(SchemaFor(p), NamesFor(p, ValuesFor(p)))
  BY <1>2, NamesText
<1> QED BY <1>2, <1>3 DEF IdFor, IdOf

----------------------------------------------------------------------------
(* Two ids that read the same are of one resource.                         *)
LEMMA SectionsBegin ==
  ASSUME NEW p, NEW f \in GraphFields, NEW c \in Str, IsResource(p)
  PROVE  /\ Then(SectionFor(p, f), c) \in Str
         /\ Begins(Then(SectionFor(p, f), c)) /\ Then(SectionFor(p, f), c) # <<>>
         /\ Begins(c) => Begins(Then(OptionalFor(p, f), c))
         /\ Then(OptionalFor(p, f), c) \in Str
         /\ p[f] = Undefined => Then(OptionalFor(p, f), c) = c
         /\ p[f] # Undefined => Then(OptionalFor(p, f), c) = Then(SectionFor(p, f), c)
<1>1. SectionFor(p, f) \in Str /\ SectionFor(p, f) # <<>> /\ SectionFor(p, f)[1] = "/"
  BY TextsAreStrings
<1>2. Then(SectionFor(p, f), c) \in Str
  BY <1>1, Joins
<1>3. Then(SectionFor(p, f), c) # <<>> /\ Then(SectionFor(p, f), c)[1] = "/"
  BY <1>1 DEF Then, Str
<1>4. Then(<<>>, c) = c
  BY ConcatEmptySeq DEF Then, Str
<1> QED BY <1>2, <1>3, <1>4 DEF Begins, OptionalFor

LEMMA ValuesBegin ==
  ASSUME NEW p, IsResource(p) PROVE Begins(ValuesFor(p))
<1>1. CASE p["resourceType"] = "nft"
  <2>1. "collectionId" \in GraphFields /\ "nftId" \in GraphFields /\ "standard" \in GraphFields
    BY DEF GraphFields, ResourceValues
  <2>2. Then(OptionalFor(p, "nftId"), OptionalFor(p, "standard")) \in Str
    BY <2>1, TextsAreStrings, Joins
  <2> QED BY <1>1, <2>1, <2>2, SectionsBegin DEF ValuesFor
<1>2. CASE p["resourceType"] # "nft"
  <2>1. PICK v \in {"blockNumber", "txHash", "tokenAddress", "id"} : ValueOrder(p)[1] = v
    BY <1>2 DEF ValueOrder
  <2>2. v \in GraphFields
    BY DEF GraphFields, ResourceValues
  <2> QED BY <1>2, <2>1, <2>2, TextsAreStrings DEF ValuesFor, Begins
<1> QED BY <1>1, <1>2

(* A value that is not missing is told by its text.                        *)
LEMMA SameText ==
  ASSUME NEW p, NEW q, NEW f \in GraphFields, IsResource(p), IsResource(q),
         p[f] # Undefined, q[f] # Undefined, Text[p[f]] = Text[q[f]]
  PROVE  p[f] = q[f]
<1>1. p[f] \in Values /\ q[f] \in Values
  BY DEF IsResource
<1> QED BY <1>1, TextAssumption

LEMMA LastSection ==
  ASSUME NEW p, NEW q, NEW f \in GraphFields, IsResource(p), IsResource(q),
         SectionFor(p, f) = SectionFor(q, f)
  PROVE  Text[p[f]] = Text[q[f]]
<1>1. <<"/", f, ":">> \in Str /\ Text[p[f]] \in Str /\ Text[q[f]] \in Str
  BY TextsAreStrings
<1> QED BY <1>1, CancelLeft DEF SectionFor, Str

(* What every resource with an id has, and with names that can be read.    *)
LEMMA HasNames ==
  ASSUME NEW p, WrongFields(p) = {}, Unambiguous(p)
  PROVE  /\ p["schema"] \in Schemas /\ HasItsValues(p)
         /\ p["resourceType"] \in {"block", "tx", "token", "nft", "proposal", "market", "post", "profile"}
         /\ \A f \in NameFields(p) : p[f] # Undefined /\ "/" \notin Range(Text[p[f]])
         /\ \A f \in {"collectionId", "nftId"} : "/" \notin Range(Text[p[f]])
<1>1. /\ p["schema"] \in Schemas /\ p["resourceType"] \in LinkedTypes(p)
      /\ p["resourceType"] # "account" /\ HasItsValues(p)
  BY DEF WrongFields, Schemas
<1>2. p["resourceType"] \in {"block", "tx", "token", "nft", "proposal", "market", "post", "profile"}
  BY <1>1 DEF LinkedTypes, SubstrateTypes, EvmTypes, SocialResourceTypes
<1> QED BY <1>1, <1>2 DEF Unambiguous, InnerFields, MissingNames

LEMMA SameSchema ==
  ASSUME NEW p, NEW q, NEW c \in Str, NEW d \in Str, IsResource(p), IsResource(q),
         p["schema"] \in Schemas, q["schema"] \in Schemas,
         Then(SchemaFor(p), c) = Then(SchemaFor(q), d)
  PROVE  p["schema"] = q["schema"] /\ c = d
<1>1. ASSUME NEW r, IsResource(r), r["schema"] \in Schemas
      PROVE  SchemaFor(r)[1] = r["schema"] /\ Len(SchemaFor(r)) = 3
  <2>1. r["schema"] \in Nodes \cap Values
    <3>1. r["schema"] \in Nodes
      BY <1>1, KeyNames, GraphAssumption DEF Schemas, GraphNodes
    <3>2. r["schema"] \in Values \cup {Undefined}
      BY <1>1 DEF IsResource, GraphFields
    <3> QED BY <3>1, <3>2, ResourceWalkAssumption
  <2>2. Text[r["schema"]] = <<r["schema"]>>
    BY <2>1, TextAssumption
  <2>3. SchemaFor(r) = <<r["schema"]>> \o <<":", "/">>
    BY <2>2 DEF SchemaFor, SchemaText
  <2> QED BY <2>3
<1>2. SchemaFor(p) \in Str /\ SchemaFor(q) \in Str
  BY SchemaIsString
<1>3. Then(SchemaFor(p), c)[1] = SchemaFor(p)[1] /\ Then(SchemaFor(q), d)[1] = SchemaFor(q)[1]
  <2>1. Len(SchemaFor(p)) = 3 /\ Len(SchemaFor(q)) = 3
    BY <1>1
  <2> DEFINE x == SchemaFor(p)  y == SchemaFor(q)
  <2> HIDE DEF x, y
  <2>2. x \in Str /\ y \in Str /\ Len(x) = 3 /\ Len(y) = 3
    BY <1>2, <2>1 DEF x, y
  <2>3. ASSUME NEW u \in Str, NEW v \in Str, Len(u) = 3 PROVE (u \o v)[1] = u[1]
    <3>1. Len(v) \in Nat
      BY DEF Str
    <3>2. 1 \in 1 .. Len(u) + Len(v) /\ 1 <= Len(u)
      BY <2>3, <3>1
    <3> QED BY <3>2, ConcatProperties DEF Str
  <2>4. Then(x, c)[1] = x[1] /\ Then(y, d)[1] = y[1]
    BY <2>2, <2>3, Zenon DEF Then
  <2> QED BY <2>4 DEF x, y
<1>4. p["schema"] = q["schema"]
  BY <1>1, <1>3
<1>5. SchemaFor(p) = SchemaFor(q)
  BY <1>4 DEF SchemaFor
<1>6. SchemaFor(p) \o c = SchemaFor(p) \o d
  BY <1>5, Zenon DEF Then
<1> QED BY <1>2, <1>4, <1>6, CancelLeft DEF Str

(* A name at the start of two texts.                                       *)
LEMMA SameName ==
  ASSUME NEW p, NEW q, NEW f \in GraphFields, NEW c \in Str, NEW d \in Str,
         IsResource(p), IsResource(q), Begins(c), Begins(d),
         p[f] # Undefined, q[f] # Undefined,
         "/" \notin Range(Text[p[f]]), "/" \notin Range(Text[q[f]]),
         Then(SectionFor(p, f), c) = Then(SectionFor(q, f), d)
  PROVE  p[f] = q[f] /\ c = d
<1>1. Text[p[f]] = Text[q[f]] /\ c = d
  BY SameSection
<1> QED BY <1>1, SameText

LEMMA SameNames ==
  ASSUME NEW p, NEW q, NEW c \in Str, NEW d \in Str, IsResource(p), IsResource(q),
         Begins(c), Begins(d), WrongFields(p) = {}, WrongFields(q) = {},
         Unambiguous(p), Unambiguous(q), p["schema"] = q["schema"],
         NamesFor(p, c) = NamesFor(q, d)
  PROVE  NameFields(p) = NameFields(q) /\ (\A f \in NameFields(p) : p[f] = q[f]) /\ c = d
<1> DEFINE tp == Then(SectionFor(p, "resourceType"), c)
           tq == Then(SectionFor(q, "resourceType"), d)
<1>1. \A f \in {"app", "chainType", "chainName", "resourceType"} : f \in GraphFields
  BY DEF GraphFields
<1>2. NameFields(p) = NameFields(q)
  BY DEF NameFields
<1>3. \A f \in NameFields(p) : /\ p[f] # Undefined /\ q[f] # Undefined
                               /\ "/" \notin Range(Text[p[f]]) /\ "/" \notin Range(Text[q[f]])
  BY <1>2, HasNames
<1>4. tp \in Str /\ tq \in Str /\ Begins(tp) /\ Begins(tq)
  BY <1>1, SectionsBegin
<1>5. tp = tq => p["resourceType"] = q["resourceType"] /\ c = d
  <2>1. "resourceType" \in NameFields(p)
    BY DEF NameFields
  <2> QED BY <1>1, <1>3, <2>1, SameName
<1>6. CASE p["schema"] = "social"
  <2>1. Then(SectionFor(p, "app"), tp) = Then(SectionFor(q, "app"), tq)
    BY <1>6 DEF NamesFor
  <2>2. NameFields(p) = {"schema", "app", "resourceType"}
    BY <1>6 DEF NameFields
  <2> HIDE DEF tp, tq
  <2>3. p["app"] = q["app"] /\ tp = tq
    BY <1>1, <1>3, <1>4, <2>1, <2>2, SameName
  <2> QED BY <1>2, <1>5, <2>2, <2>3
<1>7. CASE p["schema"] # "social"
  <2> DEFINE np == Then(SectionFor(p, "chainName"), tp)
             nq == Then(SectionFor(q, "chainName"), tq)
  <2>1. Then(SectionFor(p, "chainType"), np) = Then(SectionFor(q, "chainType"), nq)
    BY <1>7 DEF NamesFor
  <2>2. NameFields(p) = {"schema", "chainType", "chainName", "resourceType"}
    BY <1>7 DEF NameFields
  <2> HIDE DEF tp, tq
  <2>3. np \in Str /\ nq \in Str /\ Begins(np) /\ Begins(nq)
    BY <1>1, <1>4, SectionsBegin
  <2>4. np = nq => p["chainName"] = q["chainName"] /\ tp = tq
    BY <1>1, <1>3, <1>4, <2>2, SameName
  <2> HIDE DEF np, nq
  <2>5. p["chainType"] = q["chainType"] /\ np = nq
    BY <1>1, <1>3, <2>1, <2>2, <2>3, SameName
  <2> QED BY <1>2, <1>5, <2>2, <2>4, <2>5
<1> QED BY <1>6, <1>7

LEMMA SameOptional ==
  ASSUME NEW p, NEW q, NEW f \in GraphFields, NEW c \in Str, NEW d \in Str,
         IsResource(p), IsResource(q), Begins(c), Begins(d),
         "/" \notin Range(Text[p[f]]), "/" \notin Range(Text[q[f]]),
         Then(OptionalFor(p, f), c) = Then(OptionalFor(q, f), d),
         p[f] = Undefined <=> q[f] = Undefined
  PROVE  p[f] = q[f] /\ c = d
<1>1. CASE p[f] = Undefined
  BY <1>1, SectionsBegin
<1>2. CASE p[f] # Undefined
  <2>1. Then(SectionFor(p, f), c) = Then(SectionFor(q, f), d)
    BY <1>2, SectionsBegin
  <2> QED BY <1>2, <2>1, SameName
<1> QED BY <1>1, <1>2

(* The last value may be any text.                                         *)
LEMMA SameLast ==
  ASSUME NEW p, NEW q, NEW f \in GraphFields, IsResource(p), IsResource(q),
         OptionalFor(p, f) = OptionalFor(q, f)
  PROVE  p[f] = q[f]
<1>1. SectionFor(p, f) # <<>> /\ SectionFor(q, f) # <<>>
  BY TextsAreStrings
<1>2. CASE p[f] = Undefined \/ q[f] = Undefined
  BY <1>1, <1>2 DEF OptionalFor
<1>3. CASE p[f] # Undefined /\ q[f] # Undefined
  <2>1. SectionFor(p, f) = SectionFor(q, f)
    BY <1>3 DEF OptionalFor
  <2>2. Text[p[f]] = Text[q[f]]
    BY <2>1, LastSection
  <2> QED BY <1>3, <2>2, SameText
<1> QED BY <1>2, <1>3

LEMMA NotOneSet ==
  ASSUME NEW p, NEW q, IsResource(p), IsResource(q), p["nftId"] # Undefined, q["nftId"] = Undefined
  PROVE  Then(OptionalFor(p, "nftId"), OptionalFor(p, "standard"))
           # Then(OptionalFor(q, "nftId"), OptionalFor(q, "standard"))
<1> DEFINE c == OptionalFor(p, "standard")  d == OptionalFor(q, "standard")
<1>1. "nftId" \in GraphFields /\ "standard" \in GraphFields
  BY DEF GraphFields, ResourceValues
<1>2. c \in Str /\ d \in Str
  BY <1>1, TextsAreStrings
<1> SUFFICES ASSUME Then(OptionalFor(p, "nftId"), c) = Then(OptionalFor(q, "nftId"), d) PROVE FALSE
  OBVIOUS
<1>3. Then(SectionFor(p, "nftId"), c) = d /\ Then(SectionFor(p, "nftId"), c) # <<>>
  <2> HIDE DEF c, d
  <2> QED BY <1>1, <1>2, SectionsBegin
<1>4. d = SectionFor(q, "standard")
  BY <1>3 DEF OptionalFor
<1>5. SectionFor(q, "standard") = Then(SectionFor(q, "standard"), <<>>) /\ <<>> \in Str
  <2>1. SectionFor(q, "standard") \in Str
    BY <1>1, TextsAreStrings
  <2> QED BY <2>1, Joins DEF Str
<1>6. Then(SectionFor(p, "nftId"), c) = Then(SectionFor(q, "standard"), <<>>)
  BY <1>3, <1>4, <1>5, Zenon
<1> HIDE DEF c, d
<1>7. "nftId" = "standard"
  BY <1>1, <1>2, <1>5, <1>6, SameKey
<1> QED BY <1>7

LEMMA SameValues ==
  ASSUME NEW p, NEW q, IsResource(p), IsResource(q), WrongFields(p) = {}, WrongFields(q) = {},
         Unambiguous(p), Unambiguous(q), p["resourceType"] = q["resourceType"],
         ValuesFor(p) = ValuesFor(q)
  PROVE  \A f \in ValuesOf[p["resourceType"]] : p[f] = q[f]
<1>1. /\ HasItsValues(p) /\ HasItsValues(q)
      /\ p["resourceType"] \in {"block", "tx", "token", "nft", "proposal", "market", "post", "profile"}
      /\ \A f \in {"collectionId", "nftId"} : "/" \notin Range(Text[p[f]]) /\ "/" \notin Range(Text[q[f]])
  BY HasNames
<1>2. IsRequired = ResourceValues \ {"nftId", "standard"}
  BY GraphAssumption DEF GraphIsRequired
<1>3. CASE p["resourceType"] = "nft"
  <2>1. ValuesOf[p["resourceType"]] = {"collectionId", "nftId", "standard"}
    BY <1>3 DEF ValuesOf, ResourceTypes, ChainResourceTypes
  <2>2. "collectionId" \in GraphFields /\ "nftId" \in GraphFields /\ "standard" \in GraphFields
    BY DEF GraphFields, ResourceValues
  <2>3. p["collectionId"] # Undefined /\ q["collectionId"] # Undefined
    BY <1>1, <1>2, <1>3, <2>1 DEF HasItsValues, ResourceValues
  <2> DEFINE sp == OptionalFor(p, "standard")  sq == OptionalFor(q, "standard")
             np == Then(OptionalFor(p, "nftId"), sp)  nq == Then(OptionalFor(q, "nftId"), sq)
  <2>4. Then(SectionFor(p, "collectionId"), np) = Then(SectionFor(q, "collectionId"), nq)
    BY <1>3 DEF ValuesFor
  <2>5. sp \in Str /\ sq \in Str /\ Begins(sp) /\ Begins(sq)
    BY <2>2, TextsAreStrings
  <2>6. np = nq => (p["nftId"] = Undefined <=> q["nftId"] = Undefined)
    BY NotOneSet
  <2>7. sp = sq => p["standard"] = q["standard"]
    BY <2>2, SameLast
  <2> HIDE DEF sp, sq
  <2>8. np \in Str /\ nq \in Str /\ Begins(np) /\ Begins(nq)
    BY <2>2, <2>5, SectionsBegin
  <2>9. np = nq => p["nftId"] = q["nftId"] /\ sp = sq
    BY <1>1, <2>2, <2>5, <2>6, SameOptional
  <2> HIDE DEF np, nq
  <2>10. p["collectionId"] = q["collectionId"] /\ np = nq
    BY <1>1, <2>2, <2>3, <2>4, <2>8, SameName
  <2> QED BY <2>1, <2>7, <2>9, <2>10
<1>4. CASE p["resourceType"] # "nft"
  <2>1. PICK v \in {"blockNumber", "txHash", "tokenAddress", "id"} :
           /\ ValueOrder(p) = <<v>> /\ ValueOrder(q) = <<v>>
           /\ ValuesOf[p["resourceType"]] = {v}
    BY <1>1, <1>4 DEF ValueOrder, ValuesOf, ResourceTypes, ChainResourceTypes, SocialResourceTypes
  <2>2. v \in GraphFields
    BY DEF GraphFields, ResourceValues
  <2>3. p[v] # Undefined /\ q[v] # Undefined
    BY <1>1, <1>2, <2>1 DEF HasItsValues, ResourceValues
  <2>4. SectionFor(p, v) = SectionFor(q, v)
    BY <1>4, <2>1 DEF ValuesFor
  <2>5. Text[p[v]] = Text[q[v]]
    BY <2>2, <2>4, LastSection
  <2> QED BY <2>1, <2>2, <2>3, <2>5, SameText
<1> QED BY <1>3, <1>4

LEMMA SameIdIsOne ==
  ASSUME NEW p, NEW q, IsResource(p), IsResource(q), WrongFields(p) = {}, WrongFields(q) = {},
         Unambiguous(p), Unambiguous(q), ResourceId(IdOf(p)) = ResourceId(IdOf(q))
  PROVE  Identity(p) = Identity(q)
<1> DEFINE vp == ValuesFor(p)  vq == ValuesFor(q)
<1>1. vp \in Str /\ vq \in Str /\ Begins(vp) /\ Begins(vq)
  BY IdReads, ValuesBegin
<1>2. Then(SchemaFor(p), NamesFor(p, vp)) = Then(SchemaFor(q), NamesFor(q, vq))
  BY IdReads
<1>3. p["schema"] \in Schemas /\ q["schema"] \in Schemas
  BY HasNames
<1>4. NamesFor(p, vp) \in Str /\ NamesFor(q, vq) \in Str
  <2>1. \A f \in {"app", "chainType", "chainName", "resourceType"} : f \in GraphFields
    BY DEF GraphFields
  <2>2. \A f \in {"app", "chainType", "chainName", "resourceType"} :
          SectionFor(p, f) \in Str /\ SectionFor(q, f) \in Str
    BY <2>1, TextsAreStrings
  <2> HIDE DEF vp, vq
  <2> QED BY <1>1, <2>2, Joins DEF NamesFor
<1>5. p["schema"] = q["schema"] /\ NamesFor(p, vp) = NamesFor(q, vq)
  BY <1>2, <1>3, <1>4, SameSchema
<1> HIDE DEF vp, vq
<1>6. NameFields(p) = NameFields(q) /\ (\A f \in NameFields(p) : p[f] = q[f]) /\ vp = vq
  BY <1>1, <1>5, SameNames
<1>7. p["resourceType"] = q["resourceType"]
  BY <1>6 DEF NameFields
<1>8. \A f \in ValuesOf[p["resourceType"]] : p[f] = q[f]
  BY <1>6, <1>7, SameValues DEF vp, vq
<1>9. Told(p) = Told(q) /\ \A f \in Told(p) : p[f] = q[f]
  BY <1>6, <1>7, <1>8 DEF Told
<1> QED BY <1>9 DEF Identity

(* SameIdSameResource: whatever chains and applications are listed, two    *)
(* resources that toResourceId gives one string are one, if they have      *)
(* their names and no "/" in what an id goes on after.                     *)
THEOREM OneResourcePerId == Spec => []SameIdSameResource
<1>1. TypeOK /\ GraphInv => SameIdSameResource
  <2> SUFFICES ASSUME TypeOK, GraphInv, outcome = "done", earlier # <<>>,
                      Unambiguous(earlier[1]), Unambiguous(params),
                      ResourceId(earlier[2]) = ResourceId(id)
               PROVE  Identity(earlier[1]) = Identity(params)
    BY DEF SameIdSameResource
  <2>1. /\ WrongFields(params) = {} /\ id = IdOf(params)
        /\ WrongFields(earlier[1]) = {} /\ earlier[2] = IdOf(earlier[1])
    BY DEF GraphInv, Complete
  <2>2. earlier[1] \in Inputs /\ params \in Inputs
    BY DEF TypeOK
  <2>3. IsResource(earlier[1]) /\ IsResource(params)
    BY <2>2, ResourceWalkAssumption, GraphAssumption DEF IsResource
  <2> QED BY <2>1, <2>3, SameIdIsOne
<1> QED BY <1>1, GraphInvariant, PTL DEF IInv
=============================================================================
