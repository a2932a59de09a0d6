----------------------------- MODULE IpfsWrites -----------------------------
(***************************************************************************)
(* The writing half of SubsocialIpfsApi (ipfs/index.ts): saving to a node, *)
(* pins of a cluster, the offchain service, and the headers of each.       *)
(*                                                                         *)
(* A call sends one request.  The service carries it out or refuses it,    *)
(* and its response may be lost: a call that failed may have been carried  *)
(* out, or may be so later.  No call has a timeout.                        *)
(***************************************************************************)
CONSTANTS Calls,
          Cid,         \* Cid[c]: of the content that call c saves, pins or removes
          Methods,     \* the methods that the application calls
          HeaderSets,
          NoHeaders    \* undefined

Saves == {"saveContent", "saveFile", "saveJson"}
Pins == {"pinContent", "unpinContent"}
Offchain == {"saveContentToOffchain", "saveFileToOffchain", "removeContent"}

Cids == { Cid[c] : c \in Calls }
Headers == HeaderSets \cup {NoHeaders}

ASSUME WritesAssumption ==
  /\ Methods \subseteq Saves \cup Pins \cup Offchain
  /\ NoHeaders \notin HeaderSets

VARIABLES hasAdmin,      \* whether ipfsAdminNodeUrl is given
          inBrowser,
          client,        \* the headers that the client was created with
          adminClient,   \* and those of the admin client
          writeHeaders,
          pinHeaders,
          told,          \* what the application set last, for writes and for pins
          op,            \* op[c]: the method that call c is a call of, or "none" yet
          call,          \* "idle", "waiting", "answered", "undefined" or "rejected"
          request,       \* "none", "sent", "carried" or "refused"
          sent,          \* sent[c]: the sets of headers of the request, while it is on its way
          before,        \* before[c]: the pins and unpins answered when c was made
          stored,        \* what the nodes store: <<which client leads there, CID>>
          pinned,        \* by the cluster
          kept           \* stored and pinned by the offchain service

settings == <<hasAdmin, inBrowser, client, adminClient, writeHeaders, pinHeaders, told>>
stores == <<stored, pinned, kept>>
vars == <<settings, op, call, request, sent, before, stores>>

(* Defect: the admin client is created on its own in any case.             *)
CreateIpfsClientAnew(headers) ==
  /\ adminClient' = headers
  /\ client' = IF hasAdmin THEN headers ELSE client
  /\ writeHeaders' = headers

(* Without an admin node of its own, the admin client is the client.       *)
CreateIpfsClient(headers) ==
  /\ client' = headers
  /\ adminClient' = IF hasAdmin THEN headers ELSE client'
  /\ writeHeaders' = headers

Init ==
  /\ hasAdmin \in BOOLEAN
  /\ inBrowser \in BOOLEAN
  /\ \E headers \in Headers :
       /\ client = headers
       /\ adminClient = headers
       /\ writeHeaders = headers
       /\ pinHeaders = headers
       /\ told = [write |-> headers, pin |-> headers]
  /\ op = [c \in Calls |-> "none"]
  /\ call = [c \in Calls |-> "idle"]
  /\ request = [c \in Calls |-> "none"]
  /\ sent = [c \in Calls |-> {}]
  /\ before = [c \in Calls |-> {}]
  /\ stored = {}
  /\ pinned = {}
  /\ kept = {}

(* Defect: one pair of headers for both.                                   *)
SetAllHeaders(headers) ==
  /\ CreateIpfsClient(headers)
  /\ pinHeaders' = headers
  /\ told' = [told EXCEPT !.write = headers]
  /\ UNCHANGED <<hasAdmin, inBrowser, op, call, request, sent, before, stores>>

SetWriteHeaders(headers) ==
  /\ CreateIpfsClient(headers)
  /\ told' = [told EXCEPT !.write = headers]
  /\ UNCHANGED <<hasAdmin, inBrowser, pinHeaders, op, call, request, sent, before, stores>>

SetPinHeaders(headers) ==
  /\ pinHeaders' = headers
  /\ told' = [told EXCEPT !.pin = headers]
  /\ UNCHANGED <<hasAdmin, inBrowser, client, adminClient, writeHeaders,
                 op, call, request, sent, before, stores>>

RefuseFile(c) ==
  /\ call[c] = "idle"
  /\ ~ inBrowser /\ "saveFileToOffchain" \in Methods
  /\ op' = [op EXCEPT ![c] = "saveFileToOffchain"]
  /\ call' = [call EXCEPT ![c] = "rejected"]
  /\ UNCHANGED <<settings, request, sent, before, stores>>

(* A save has the headers of its client and its own; the offchain service  *)
(* gets none.                                                              *)
HeadersOf(method) ==
  CASE method \in Saves -> {adminClient, writeHeaders}
    [] method \in Pins -> {pinHeaders}
    [] OTHER -> {}

(* A method up to its await.                                               *)
Send(c, method) ==
  /\ call[c] = "idle"
  /\ method = "saveFileToOffchain" => inBrowser
  /\ op' = [op EXCEPT ![c] = method]
  /\ call' = [call EXCEPT ![c] = "waiting"]
  /\ request' = [request EXCEPT ![c] = "sent"]
  /\ sent' = [sent EXCEPT ![c] = HeadersOf(method)]
  /\ before' = [before EXCEPT ![c] = { d \in Calls : call[d] = "answered" /\ op[d] \in Pins }]
  /\ UNCHANGED <<settings, stores>>

Place == IF hasAdmin THEN "admin" ELSE "gateway"

CarryOut(c) ==
  /\ request[c] = "sent"
  /\ request' = [request EXCEPT ![c] = "carried"]
  /\ sent' = [sent EXCEPT ![c] = {}]
  /\ stored' = IF op[c] \in Saves THEN stored \cup {<<Place, Cid[c]>>} ELSE stored
  /\ pinned' = CASE op[c] = "pinContent" -> pinned \cup {Cid[c]}
                 [] op[c] = "unpinContent" -> pinned \ {Cid[c]}
                 [] OTHER -> pinned
  /\ kept' = CASE op[c] = "removeContent" -> kept \ {Cid[c]}
               [] op[c] \in Offchain \ {"removeContent"} -> kept \cup {Cid[c]}
               [] OTHER -> kept
  /\ UNCHANGED <<settings, op, call, before>>

RefuseRequest(c) ==
  /\ request[c] = "sent"
  /\ request' = [request EXCEPT ![c] = "refused"]
  /\ sent' = [sent EXCEPT ![c] = {}]
  /\ UNCHANGED <<settings, op, call, before, stores>>

(* Defect: the request is not awaited.                                     *)
AnswerWhenSent(c) ==
  /\ call[c] = "waiting"
  /\ call' = [call EXCEPT ![c] = "answered"]
  /\ UNCHANGED <<settings, op, request, sent, before, stores>>

(* removeContent answers nothing; it is answered when it logs its success. *)
Answer(c) ==
  /\ call[c] = "waiting"
  /\ request[c] = "carried"
  /\ call' = [call EXCEPT ![c] = "answered"]
  /\ UNCHANGED <<settings, op, request, sent, before, stores>>

(* A success with another status than 200: axios takes it for one, the     *)
(* offchain methods do not.                                                *)
OtherStatus(c) ==
  /\ call[c] = "waiting"
  /\ request[c] = "carried"
  /\ op[c] \in Offchain
  /\ call' = [call EXCEPT ![c] = "undefined"]
  /\ UNCHANGED <<settings, op, request, sent, before, stores>>

(* Defect: what is known before the request is answered without it.        *)
FailQuietly(c) ==
  /\ call[c] = "waiting"
  /\ call' = [call EXCEPT ![c] = IF op[c] \in Offchain THEN "undefined" ELSE "answered"]
  /\ UNCHANGED <<settings, op, request, sent, before, stores>>

(* An error, or a response that is lost.  The offchain methods catch it.   *)
Fail(c) ==
  /\ call[c] = "waiting"
  /\ call' = [call EXCEPT ![c] = IF op[c] \in Offchain THEN "undefined" ELSE "rejected"]
  /\ UNCHANGED <<settings, op, request, sent, before, stores>>

Next ==
  \/ \E headers \in HeaderSets : SetWriteHeaders(headers) \/ SetPinHeaders(headers)
  \/ \E c \in Calls :
       \/ RefuseFile(c)
       \/ \E method \in Methods : Send(c, method)
       \/ CarryOut(c) \/ RefuseRequest(c)
       \/ Answer(c) \/ OtherStatus(c) \/ Fail(c)

Spec == Init /\ [][Next]_vars
----------------------------------------------------------------------------
TypeOK ==
  /\ hasAdmin \in BOOLEAN /\ inBrowser \in BOOLEAN
  /\ client \in Headers /\ adminClient \in Headers
  /\ writeHeaders \in Headers /\ pinHeaders \in Headers
  /\ told \in [write : Headers, pin : Headers]
  /\ op \in [Calls -> Methods \cup {"none"}]
  /\ call \in [Calls -> {"idle", "waiting", "answered", "undefined", "rejected"}]
  /\ request \in [Calls -> {"none", "sent", "carried", "refused"}]
  /\ sent \in [Calls -> SUBSET Headers]
  /\ before \in [Calls -> SUBSET Calls]
  /\ stored \subseteq {"admin", "gateway"} \X Cids
  /\ pinned \subseteq Cids /\ kept \subseteq Cids
  /\ ~ hasAdmin => adminClient = client

(* However the application sets headers between calls, a request leaves    *)
(* with those it was told last for its kind: a save with one set, though   *)
(* its client and its own options each bring theirs, and a pin with its    *)
(* own, whatever happened to the headers of writes.                        *)
RequestsHaveTheirHeaders ==
  [][\A c \in Calls : request[c] = "none" /\ request'[c] = "sent" =>
       /\ op'[c] \in Saves => sent'[c] = {told.write}
       /\ op'[c] \in Pins => sent'[c] = {told.pin}]_vars

(* What a method answered is there: a save on the node that it leads to,   *)
(* and what the offchain service took as long as nobody asked it to remove *)
(* that.  Only a method that the offchain service has no part in rejects.  *)
AnswersAreBacked ==
  \A c \in Calls :
    /\ call[c] = "answered" =>
         /\ op[c] \in Saves => <<Place, Cid[c]>> \in stored
         /\ op[c] \in Offchain \ {"removeContent"} =>
              \/ Cid[c] \in kept
              \/ \E d \in Calls : /\ op[d] = "removeContent" /\ Cid[d] = Cid[c]
                                  /\ request[d] = "carried"
    /\ call[c] = "rejected" /\ op[c] \in Offchain => request[c] = "none"

(* Who awaits every answer before the next call finds the cluster as the   *)
(* last call left it.  Not so after a call that failed: its request may    *)
(* overtake later ones.                                                    *)
AwaitedCallsLast ==
  \A c \in Calls :
    LET others == { d \in Calls \ {c} : op[d] \in Pins /\ Cid[d] = Cid[c] }
    IN  op[c] \in Pins /\ call[c] = "answered" /\ others \subseteq before[c] =>
          (Cid[c] \in pinned <=> op[c] = "pinContent")
=============================================================================
