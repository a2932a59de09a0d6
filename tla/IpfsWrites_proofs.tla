------------------------- MODULE IpfsWrites_proofs --------------------------
(***************************************************************************)
(* Proofs about IpfsWrites, for every set of calls, methods and headers.   *)
(***************************************************************************)
EXTENDS IpfsWrites, TLAPS

(* What the client and the options hold is what the application told.      *)
HeadersAsTold ==
  /\ adminClient = told.write
  /\ writeHeaders = told.write
  /\ pinHeaders = told.pin

(* How far a call, and the request of that call, are.                      *)
Steps ==
  \A c \in Calls :
    /\ op[c] = "none" <=> call[c] = "idle"
    /\ call[c] = "idle" => request[c] = "none"
    /\ call[c] = "waiting" => request[c] # "none"
    /\ call[c] = "answered" => request[c] = "carried"
    /\ call[c] = "rejected" /\ op[c] \in Offchain => request[c] = "none"
    /\ \A d \in before[c] : call[d] = "answered"

Removed(cid) ==
  \E d \in Calls : op[d] = "removeContent" /\ Cid[d] = cid /\ request[d] = "carried"

(* A request that was carried out left its content in its place, whoever   *)
(* got to know.                                                            *)
CarriedOut ==
  \A c \in Calls : request[c] = "carried" =>
    /\ op[c] \in Saves => <<Place, Cid[c]>> \in stored
    /\ op[c] \in Offchain \ {"removeContent"} => Cid[c] \in kept \/ Removed(Cid[c])

OthersOf(c) == { d \in Calls \ {c} : op[d] \in Pins /\ Cid[d] = Cid[c] }

(* The pin or unpin made after every other of its CID was answered.        *)
LastPin ==
  \A c \in Calls :
    op[c] \in Pins /\ request[c] = "carried" /\ OthersOf(c) \subseteq before[c] =>
      (Cid[c] \in pinned <=> op[c] = "pinContent")

Inv == TypeOK /\ HeadersAsTold /\ Steps /\ CarriedOut /\ LastPin

LEMMA Kinds ==
  /\ \A m \in Saves : m \notin Pins /\ m \notin Offchain /\ m # "none"
  /\ \A m \in Pins : m \notin Saves /\ m \notin Offchain /\ m # "none"
  /\ \A m \in Offchain : m \notin Saves /\ m \notin Pins /\ m # "none"
  /\ "none" \notin Methods
  /\ "saveFileToOffchain" \in Offchain /\ "removeContent" \in Offchain
  /\ "pinContent" \in Pins /\ "unpinContent" \in Pins
BY WritesAssumption DEF Saves, Pins, Offchain

LEMMA InitInv == Init => Inv
<1> SUFFICES ASSUME Init PROVE Inv
  OBVIOUS
<1>1. TypeOK
  BY DEF Init, TypeOK, Headers, Cids
<1>2. HeadersAsTold
  BY DEF Init, HeadersAsTold
<1>3. Steps
  BY DEF Init, Steps
<1>4. CarriedOut /\ LastPin
  BY DEF Init, CarriedOut, LastPin
<1> QED BY <1>1, <1>2, <1>3, <1>4 DEF Inv

(* Steps that change neither a call nor a store.                           *)
LEMMA SettingsKeep ==
  ASSUME Inv, UNCHANGED <<hasAdmin, op, call, request, before, stores>>
  PROVE  Steps' /\ CarriedOut' /\ LastPin'
<1>1. Steps'
  BY DEF Inv, Steps
<1>2. CarriedOut'
  BY DEF Inv, CarriedOut, Removed, Place, stores
<1>3. LastPin'
  BY DEF Inv, LastPin, OthersOf, stores
<1> QED BY <1>1, <1>2, <1>3

(* Steps that end a call and leave every request as it is.                 *)
LEMMA EndingKeeps ==
  ASSUME Inv, UNCHANGED <<settings, op, request, sent, before, stores>>,
         NEW c \in Calls, call[c] = "waiting",
         NEW s \in {"answered", "undefined", "rejected"},
         call' = [call EXCEPT ![c] = s],
         s = "answered" => request[c] = "carried",
         s = "rejected" => op[c] \notin Offchain
  PROVE  Inv'
<1>1. TypeOK'
  BY DEF Inv, TypeOK, settings, stores
<1>2. HeadersAsTold'
  BY DEF Inv, HeadersAsTold, settings
<1>3. Steps'
  <2> SUFFICES ASSUME NEW d \in Calls
               PROVE  /\ op[d] = "none" <=> call'[d] = "idle"
                      /\ call'[d] = "idle" => request[d] = "none"
                      /\ call'[d] = "waiting" => request[d] # "none"
                      /\ call'[d] = "answered" => request[d] = "carried"
                      /\ call'[d] = "rejected" /\ op[d] \in Offchain => request[d] = "none"
                      /\ \A e \in before[d] : call'[e] = "answered"
    BY DEF Steps
  <2>1. \A e \in before[d] : e # c /\ e \in Calls
    BY DEF Inv, Steps, TypeOK
  <2>2. call'[c] = s /\ \A e \in Calls \ {c} : call'[e] = call[e]
    BY DEF Inv, TypeOK
  <2> QED BY <2>1, <2>2 DEF Inv, Steps
<1>4. CarriedOut'
  BY DEF Inv, CarriedOut, Removed, Place, settings, stores
<1>5. LastPin'
  BY DEF Inv, LastPin, OthersOf, stores
<1> QED BY <1>1, <1>2, <1>3, <1>4, <1>5 DEF Inv

LEMMA SendKeeps ==
  ASSUME Inv, NEW c \in Calls, NEW method \in Methods, Send(c, method)
  PROVE  Inv'
<1> USE DEF Send
<1>1. TypeOK'
  <2>1. HeadersOf(method) \subseteq Headers
    BY DEF HeadersOf, Inv, TypeOK
  <2> QED BY <2>1 DEF Inv, TypeOK, settings, stores
<1>2. HeadersAsTold'
  BY DEF Inv, HeadersAsTold, settings
<1>3. request[c] = "none" /\ \A d \in Calls : c \notin before[d]
  BY DEF Inv, Steps
<1>4. /\ op'[c] = method /\ call'[c] = "waiting" /\ request'[c] = "sent"
      /\ before'[c] = { d \in Calls : call[d] = "answered" /\ op[d] \in Pins }
      /\ \A d \in Calls \ {c} : /\ op'[d] = op[d] /\ call'[d] = call[d]
                                /\ request'[d] = request[d] /\ before'[d] = before[d]
  BY DEF Inv, TypeOK
<1>5. Steps'
  <2> SUFFICES ASSUME NEW d \in Calls
               PROVE  /\ op'[d] = "none" <=> call'[d] = "idle"
                      /\ call'[d] = "idle" => request'[d] = "none"
                      /\ call'[d] = "waiting" => request'[d] # "none"
                      /\ call'[d] = "answered" => request'[d] = "carried"
                      /\ call'[d] = "rejected" /\ op'[d] \in Offchain => request'[d] = "none"
                      /\ \A e \in before'[d] : call'[e] = "answered"
    BY DEF Steps
  <2>1. CASE d = c
    BY <1>4, <2>1, Kinds DEF Inv, TypeOK
  <2>2. CASE d # c
    <3>1. \A e \in before[d] : e \in Calls \ {c}
      BY <1>3 DEF Inv, TypeOK
    <3> QED BY <1>4, <2>2, <3>1 DEF Inv, Steps
  <2> QED BY <2>1, <2>2
<1>6. CarriedOut'
  <2> SUFFICES ASSUME NEW d \in Calls, request'[d] = "carried"
               PROVE  /\ op'[d] \in Saves => <<Place', Cid[d]>> \in stored'
                      /\ op'[d] \in Offchain \ {"removeContent"} =>
                           Cid[d] \in kept' \/ Removed(Cid[d])'
    BY DEF CarriedOut
  <2>1. d # c
    BY <1>4
  <2>2. Removed(Cid[d]) => Removed(Cid[d])'
    BY <1>3, <1>4 DEF Removed
  <2> QED BY <1>4, <2>1, <2>2 DEF Inv, CarriedOut, Place, settings, stores
<1>7. LastPin'
  <2> SUFFICES ASSUME NEW d \in Calls, op'[d] \in Pins, request'[d] = "carried",
                      OthersOf(d)' \subseteq before'[d]
               PROVE  Cid[d] \in pinned' <=> op'[d] = "pinContent"
    BY DEF LastPin
  <2>1. d # c
    BY <1>4
  <2>2. OthersOf(d) \subseteq before[d]
    <3>1. c \notin OthersOf(d)
      BY <2>1, Kinds DEF OthersOf, Inv, Steps
    <3> QED BY <1>4, <2>1, <3>1 DEF OthersOf
  <2> QED BY <1>4, <2>1, <2>2 DEF Inv, LastPin, stores
<1> QED BY <1>1, <1>2, <1>5, <1>6, <1>7 DEF Inv

LEMMA RefuseFileKeeps ==
  ASSUME Inv, NEW c \in Calls, RefuseFile(c)
  PROVE  Inv'
<1> USE DEF RefuseFile
<1>1. TypeOK'
  BY DEF Inv, TypeOK, settings, stores
<1>2. HeadersAsTold'
  BY DEF Inv, HeadersAsTold, settings
<1>3. request[c] = "none" /\ \A d \in Calls : c \notin before[d]
  BY DEF Inv, Steps
<1>4. /\ op'[c] = "saveFileToOffchain" /\ call'[c] = "rejected"
      /\ \A d \in Calls \ {c} : op'[d] = op[d] /\ call'[d] = call[d]
  BY DEF Inv, TypeOK
<1>5. Steps'
  <2> SUFFICES ASSUME NEW d \in Calls
               PROVE  /\ op'[d] = "none" <=> call'[d] = "idle"
                      /\ call'[d] = "idle" => request[d] = "none"
                      /\ call'[d] = "waiting" => request[d] # "none"
                      /\ call'[d] = "answered" => request[d] = "carried"
                      /\ call'[d] = "rejected" /\ op'[d] \in Offchain => request[d] = "none"
                      /\ \A e \in before[d] : call'[e] = "answered"
    BY DEF Steps
  <2>1. \A e \in before[d] : e \in Calls \ {c}
    BY <1>3 DEF Inv, TypeOK
  <2> QED BY <1>3, <1>4, <2>1 DEF Inv, Steps
<1>6. CarriedOut'
  <2> SUFFICES ASSUME NEW d \in Calls, request[d] = "carried"
               PROVE  /\ op'[d] \in Saves => <<Place', Cid[d]>> \in stored
                      /\ op'[d] \in Offchain \ {"removeContent"} =>
                           Cid[d] \in kept \/ Removed(Cid[d])'
    BY DEF CarriedOut, stores
  <2>1. Removed(Cid[d]) => Removed(Cid[d])'
    BY <1>3, <1>4 DEF Removed
  <2> QED BY <1>3, <1>4, <2>1 DEF Inv, CarriedOut, Place, settings
<1>7. LastPin'
  <2> SUFFICES ASSUME NEW d \in Calls, op'[d] \in Pins, request[d] = "carried",
                      OthersOf(d)' \subseteq before[d]
               PROVE  Cid[d] \in pinned <=> op'[d] = "pinContent"
    BY DEF LastPin, stores
  <2>1. d # c
    BY <1>3
  <2>2. OthersOf(d) \subseteq before[d]
    <3>1. c \notin OthersOf(d)
      BY Kinds DEF OthersOf, Inv, Steps
    <3> QED BY <1>4, <3>1 DEF OthersOf
  <2> QED BY <1>4, <2>1, <2>2 DEF Inv, LastPin
<1> QED BY <1>1, <1>2, <1>5, <1>6, <1>7 DEF Inv

LEMMA CarryOutKeeps ==
  ASSUME Inv, NEW c \in Calls, CarryOut(c)
  PROVE  Inv'
<1> USE DEF CarryOut
<1>1. Cid[c] \in Cids
  BY DEF Cids
<1>2. TypeOK'
  <2>1. stored' \subseteq {"admin", "gateway"} \X Cids
    BY <1>1 DEF Inv, TypeOK, Place
  <2>2. pinned' \subseteq Cids /\ kept' \subseteq Cids
    BY <1>1 DEF Inv, TypeOK
  <2> QED BY <2>1, <2>2 DEF Inv, TypeOK, settings
<1>3. HeadersAsTold'
  BY DEF Inv, HeadersAsTold, settings
<1>4. request'[c] = "carried" /\ \A d \in Calls \ {c} : request'[d] = request[d]
  BY DEF Inv, TypeOK
<1>5. Steps'
  <2> SUFFICES ASSUME NEW d \in Calls
               PROVE  /\ op[d] = "none" <=> call[d] = "idle"
                      /\ call[d] = "idle" => request'[d] = "none"
                      /\ call[d] = "waiting" => request'[d] # "none"
                      /\ call[d] = "answered" => request'[d] = "carried"
                      /\ call[d] = "rejected" /\ op[d] \in Offchain => request'[d] = "none"
                      /\ \A e \in before[d] : call[e] = "answered"
    BY DEF Steps
  <2> QED BY <1>4 DEF Inv, Steps
<1>6. CarriedOut'
  <2> SUFFICES ASSUME NEW d \in Calls, request'[d] = "carried"
               PROVE  /\ op[d] \in Saves => <<Place, Cid[d]>> \in stored'
                      /\ op[d] \in Offchain \ {"removeContent"} =>
                           Cid[d] \in kept' \/ Removed(Cid[d])'
    BY DEF CarriedOut, Place, settings
  <2>1. Removed(Cid[d]) => Removed(Cid[d])'
    BY <1>4 DEF Removed
  <2>2. Cid[d] \in kept /\ Cid[d] \notin kept' => Removed(Cid[d])'
    BY <1>4 DEF Removed
  <2>3. stored \subseteq stored'
    OBVIOUS
  <2>4. CASE d # c
    BY <1>4, <2>1, <2>2, <2>3, <2>4 DEF Inv, CarriedOut
  <2>5. CASE d = c
    BY <2>5, Kinds
  <2> QED BY <2>4, <2>5
<1>7. LastPin'
  <2> SUFFICES ASSUME NEW d \in Calls, op[d] \in Pins, request'[d] = "carried",
                      OthersOf(d)' \subseteq before[d]
               PROVE  Cid[d] \in pinned' <=> op[d] = "pinContent"
    BY DEF LastPin
  <2>1. OthersOf(d) \subseteq before[d]
    BY DEF OthersOf
  <2>2. CASE d = c
    BY <2>2, Kinds DEF Pins
  <2>3. CASE d # c
    <3>1. c \notin OthersOf(d)
      BY <2>1 DEF Inv, Steps
    <3>2. op[c] \in Pins => Cid[c] # Cid[d]
      BY <2>3, <3>1 DEF OthersOf
    <3>3. Cid[d] \in pinned' <=> Cid[d] \in pinned
      BY <3>2 DEF Pins
    <3> QED BY <1>4, <2>1, <2>3, <3>3 DEF Inv, LastPin
  <2> QED BY <2>2, <2>3
<1> QED BY <1>2, <1>3, <1>5, <1>6, <1>7 DEF Inv

LEMMA RefuseRequestKeeps ==
  ASSUME Inv, NEW c \in Calls, RefuseRequest(c)
  PROVE  Inv'
<1> USE DEF RefuseRequest
<1>1. TypeOK'
  BY DEF Inv, TypeOK, settings, stores
<1>2. HeadersAsTold'
  BY DEF Inv, HeadersAsTold, settings
<1>3. request'[c] = "refused" /\ \A d \in Calls \ {c} : request'[d] = request[d]
  BY DEF Inv, TypeOK
<1>4. Steps'
  <2> SUFFICES ASSUME NEW d \in Calls
               PROVE  /\ op[d] = "none" <=> call[d] = "idle"
                      /\ call[d] = "idle" => request'[d] = "none"
                      /\ call[d] = "waiting" => request'[d] # "none"
                      /\ call[d] = "answered" => request'[d] = "carried"
                      /\ call[d] = "rejected" /\ op[d] \in Offchain => request'[d] = "none"
                      /\ \A e \in before[d] : call[e] = "answered"
    BY DEF Steps
  <2> QED BY <1>3 DEF Inv, Steps
<1>5. CarriedOut'
  <2> SUFFICES ASSUME NEW d \in Calls, request'[d] = "carried"
               PROVE  /\ op[d] \in Saves => <<Place, Cid[d]>> \in stored
                      /\ op[d] \in Offchain \ {"removeContent"} =>
                           Cid[d] \in kept \/ Removed(Cid[d])'
    BY DEF CarriedOut, Place, settings, stores
  <2>1. Removed(Cid[d]) => Removed(Cid[d])'
    BY <1>3 DEF Removed
  <2> QED BY <1>3, <2>1 DEF Inv, CarriedOut
<1>6. LastPin'
  BY <1>3 DEF Inv, LastPin, OthersOf, stores
<1> QED BY <1>1, <1>2, <1>4, <1>5, <1>6 DEF Inv

LEMMA NextInv == Inv /\ [Next]_vars => Inv'
<1> SUFFICES ASSUME Inv, [Next]_vars PROVE Inv'
  OBVIOUS
<1>1. ASSUME NEW headers \in HeaderSets, SetWriteHeaders(headers) PROVE Inv'
  <2> USE <1>1 DEF SetWriteHeaders, CreateIpfsClient
  <2>1. TypeOK'
    BY DEF Inv, TypeOK, Headers, stores
  <2>2. HeadersAsTold'
    BY DEF Inv, TypeOK, HeadersAsTold
  <2> QED BY <2>1, <2>2, SettingsKeep DEF Inv, stores
<1>2. ASSUME NEW headers \in HeaderSets, SetPinHeaders(headers) PROVE Inv'
  <2> USE <1>2 DEF SetPinHeaders
  <2>1. TypeOK'
    BY DEF Inv, TypeOK, Headers, stores
  <2>2. HeadersAsTold'
    BY DEF Inv, TypeOK, HeadersAsTold
  <2> QED BY <2>1, <2>2, SettingsKeep DEF Inv, stores
<1>3. ASSUME NEW c \in Calls, Answer(c) PROVE Inv'
  BY <1>3, EndingKeeps DEF Answer
<1>4. ASSUME NEW c \in Calls, OtherStatus(c) PROVE Inv'
  BY <1>4, EndingKeeps DEF OtherStatus
<1>5. ASSUME NEW c \in Calls, Fail(c) PROVE Inv'
  <2>1. CASE op[c] \in Offchain
    BY <1>5, <2>1, EndingKeeps DEF Fail
  <2>2. CASE op[c] \notin Offchain
    BY <1>5, <2>2, EndingKeeps DEF Fail
  <2> QED BY <2>1, <2>2
<1>6. CASE UNCHANGED vars
  <2>1. TypeOK' /\ HeadersAsTold'
    BY <1>6 DEF vars, settings, stores, Inv, TypeOK, HeadersAsTold
  <2> QED BY <1>6, <2>1, SettingsKeep DEF vars, settings, Inv
<1> QED BY <1>1, <1>2, <1>3, <1>4, <1>5, <1>6, SendKeeps, RefuseFileKeeps, CarryOutKeeps,
           RefuseRequestKeeps DEF Next

(* The inductive invariant of the specification.                           *)
THEOREM Invariant == Spec => []Inv
BY InitInv, NextInv, PTL DEF Spec

(* Every state has its type, and one client serves both ways without an    *)
(* admin node.                                                             *)
THEOREM TypeCorrect == Spec => []TypeOK
<1>1. Inv => TypeOK
  BY DEF Inv
<1> QED BY <1>1, Invariant, PTL

(* What was answered is on the node, or with the offchain service unless   *)
(* somebody asked to remove it.                                            *)
THEOREM AnswersBacked == Spec => []AnswersAreBacked
<1>1. Inv => AnswersAreBacked
  BY DEF Inv, Steps, CarriedOut, Removed, AnswersAreBacked
<1> QED BY <1>1, Invariant, PTL

(* However many calls overlap, the pin or unpin made after the answers of  *)
(* all others of its CID decides what the cluster has.                     *)
THEOREM AwaitedLast == Spec => []AwaitedCallsLast
<1>1. Inv => AwaitedCallsLast
  BY DEF Inv, Steps, LastPin, OthersOf, AwaitedCallsLast
<1> QED BY <1>1, Invariant, PTL

(* No order of setting headers and sending sends those of the other kind,  *)
(* or older ones.                                                          *)
THEOREM TheirHeaders == Spec => RequestsHaveTheirHeaders
<1> DEFINE Sends == \A c \in Calls : request[c] = "none" /\ request'[c] = "sent" =>
                      /\ op'[c] \in Saves => sent'[c] = {told.write}
                      /\ op'[c] \in Pins => sent'[c] = {told.pin}
<1>1. ASSUME Inv, Next PROVE Sends
  <2>1. ASSUME NEW c \in Calls, NEW d \in Calls, NEW method \in Methods, Send(d, method),
               request[c] = "none", request'[c] = "sent"
        PROVE  /\ op'[c] \in Saves => sent'[c] = {told.write}
               /\ op'[c] \in Pins => sent'[c] = {told.pin}
    <3>1. c = d
      BY <1>1, <2>1 DEF Send, Inv, TypeOK
    <3>2. op'[c] = method /\ sent'[c] = HeadersOf(method)
      BY <1>1, <2>1, <3>1 DEF Send, Inv, TypeOK
    <3> QED BY <1>1, <3>2, Kinds DEF HeadersOf, Inv, HeadersAsTold
  <2>2. ASSUME NEW d \in Calls, CarryOut(d) \/ RefuseRequest(d),
               NEW c \in Calls, request[c] = "none"
        PROVE  request'[c] # "sent"
    BY <1>1, <2>2 DEF CarryOut, RefuseRequest, Inv, TypeOK
  <2>3. ASSUME \/ \E headers \in HeaderSets : SetWriteHeaders(headers) \/ SetPinHeaders(headers)
               \/ \E d \in Calls : RefuseFile(d) \/ Answer(d) \/ OtherStatus(d) \/ Fail(d)
        PROVE  request' = request
    BY <2>3 DEF SetWriteHeaders, SetPinHeaders, RefuseFile, Answer, OtherStatus, Fail
  <2> QED BY <1>1, <2>1, <2>2, <2>3 DEF Next
<1>2. Inv /\ [Next]_vars => [Sends]_vars
  BY <1>1
<1> QED BY <1>2, Invariant, PTL DEF Spec, RequestsHaveTheirHeaders
=============================================================================
