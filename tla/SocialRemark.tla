---------------------------- MODULE SocialRemark ----------------------------
(***************************************************************************)
(* The social remark protocol (utils/src/socialRemark): messages between   *)
(* chains, as strings of chunks with "::" between them.  A remark is made  *)
(* with the configuration of that moment, reads a message or takes a       *)
(* source object of its caller, says whether what it holds is valid, and   *)
(* writes it as a message.                                                 *)
(*                                                                         *)
(* A string is the sequence of the chunks that split makes of it; what is  *)
(* no string or empty is <<>>.  A field is such a string too, and <<>> if  *)
(* it is undefined.  The content of a source is not copied: the caller and *)
(* every remark that was made from it share one object.                    *)
(***************************************************************************)
EXTENDS Naturals, Sequences

CONSTANTS Remarks,        \* SocialRemark instances
          Sources,        \* source objects of the application
          Chunk,          \* what may stand between two delimiters
          Empty,          \* the empty string
          Registrations,  \* the actions DMN_*, whose target is decoded
          Addresses,      \* chunks that decodeAddress understands
          Subsocial,      \* Subsocial[a]: a with the prefix of Subsocial
          DefaultConfig,  \* the configuration to begin with
          ConfigData,     \* arguments of setConfig
          SourceHead,     \* SourceHead[s]: its protName, version, ..., action
          Contents,       \* contents of sources
          Foreign,        \* messages that others send
          None

Core     == {"protName", "version", "destination", "action"}
Config   == [Core -> SUBSET (Chunk \ {Empty})]
CorePart == [Core -> Chunk]
Field    == Seq(Chunk)
Content  == [opId : Field, target : Field, subject : Field, token : Field]

NoContent == [opId |-> <<>>, target |-> <<>>, subject |-> <<>>, token |-> <<>>]

ASSUME RemarkAssumption ==
  /\ Empty \in Chunk \ Addresses
  /\ Registrations \subseteq Chunk
  /\ Addresses \subseteq Chunk
  /\ Subsocial \in [Addresses -> Addresses]
  /\ \A a \in Addresses : Subsocial[Subsocial[a]] = Subsocial[a]
  /\ DefaultConfig \in Config
  /\ \A data \in ConfigData :
       /\ DOMAIN data \subseteq Core
       /\ \A f \in DOMAIN data : data[f] \subseteq Chunk \ {Empty}
  /\ SourceHead \in [Sources -> CorePart]
  /\ Contents \subseteq Content
  /\ Foreign \subseteq Seq(Chunk)
  /\ None \notin Sources \cup CorePart

VARIABLES
  conf,           \* SocialRemarkConfig, one for all
  accepts,        \* accepts[i]: the configuration remark i was made with
  head,           \* head[i]: the core part of msgParsed, None if that is null
  valid,          \* valid[i]: msgParsed.valid
  own,            \* own[i]: the content it read from a message
  from,           \* from[i]: the source whose content it shares, or None
  last,           \* last[i]: how its last call ended
  sourceContent,  \* sourceContent[s]: what the content object of s holds
  wire            \* the message that was written last: what its remark held,
                  \* and its chunks

remarkVars == <<accepts, head, valid, own, from, last>>
vars       == <<conf, remarkVars, sourceContent, wire>>

----------------------------------------------------------------------------
Accepts(config, h) == \A f \in Core : h[f] \in config[f]

HeadOf(m) ==
  [protName |-> m[1], version |-> m[2], destination |-> m[3], action |-> m[4]]

At(m, k) == IF k <= Len(m) THEN <<m[k]>> ELSE <<>>

ContentOf(m) ==
  [opId |-> At(m, 5), target |-> At(m, 6), subject |-> At(m, 7), token |-> At(m, 8)]

(* decorateRemarkContentValue: it throws if the target of a registration   *)
(* does not decode, and leaves every other field and action alone.         *)
Decodes(action, content) ==
  action \in Registrations => \E a \in Addresses : content.target = <<a>>

Decorated(action, content) ==
  IF action \in Registrations
    THEN [content EXCEPT !.target = <<Subsocial[@[1]]>>]
    ELSE content

(* Array.join writes undefined as the empty string.                        *)
Written(field) == IF field = <<>> THEN <<Empty>> ELSE field

(* Defect: the two last fields change places.                              *)
ChunksSwapped(h, c) ==
  <<h.protName, h.version, h.destination, h.action>>
    \o Written(c.opId) \o Written(c.target) \o Written(c.token) \o Written(c.subject)

Chunks(h, c) ==
  <<h.protName, h.version, h.destination, h.action>>
    \o Written(c.opId) \o Written(c.target) \o Written(c.subject) \o Written(c.token)

HeldBy(i) == IF from[i] = None THEN own[i] ELSE sourceContent[from[i]]

----------------------------------------------------------------------------
Init ==
  /\ conf = DefaultConfig
  /\ accepts = [i \in Remarks |-> DefaultConfig]
  /\ head = [i \in Remarks |-> None]
  /\ valid = [i \in Remarks |-> FALSE]
  /\ own = [i \in Remarks |-> NoContent]
  /\ from = [i \in Remarks |-> None]
  /\ last = [i \in Remarks |-> "none"]
  /\ sourceContent \in [Sources -> Contents]
  /\ wire = None

(* Defect: what is not given is not kept.                                  *)
SetConfigAfresh(data) ==
  /\ conf' = data
  /\ UNCHANGED <<remarkVars, sourceContent, wire>>

SetConfig(data) ==
  /\ conf' = [f \in Core |-> IF f \in DOMAIN data THEN data[f] ELSE conf[f]]
  /\ UNCHANGED <<remarkVars, sourceContent, wire>>

New(i) ==
  /\ accepts' = [accepts EXCEPT ![i] = conf]
  /\ head' = [head EXCEPT ![i] = None]
  /\ valid' = [valid EXCEPT ![i] = FALSE]
  /\ own' = [own EXCEPT ![i] = NoContent]
  /\ from' = [from EXCEPT ![i] = None]
  /\ last' = [last EXCEPT ![i] = "none"]
  /\ UNCHANGED <<conf, sourceContent, wire>>

(* A call that leaves nothing behind but how it ended.                     *)
Ends(i, how) ==
  /\ last' = [last EXCEPT ![i] = how]
  /\ UNCHANGED <<conf, accepts, head, valid, own, from, sourceContent, wire>>

Recognised(i, m) == Len(m) >= 4 /\ Accepts(accepts[i], HeadOf(m))

(* parseMsg returns early, and fromMessage returns the remark as it is.    *)
RefuseMessage(i, m) == ~ Recognised(i, m) /\ Ends(i, "refused")

(* The loop of parseMsg takes opId, target, ... in this order, and stops   *)
(* at a target that does not decode.                                       *)
ReadMessage(i, m) ==
  LET h  == HeadOf(m)
      c  == ContentOf(m)
      ok == Decodes(h.action, c)
  IN  /\ Recognised(i, m)
      /\ head' = [head EXCEPT ![i] = h]
      /\ valid' = [valid EXCEPT ![i] = ok]
      /\ own' = [own EXCEPT ![i] = IF ok THEN Decorated(h.action, c)
                                         ELSE [NoContent EXCEPT !.opId = c.opId]]
      /\ from' = [from EXCEPT ![i] = None]
      /\ last' = [last EXCEPT ![i] = IF ok THEN "accepted" ELSE "refused"]
      /\ UNCHANGED <<conf, accepts, sourceContent, wire>>

(* isRemarkSourceValid throws.                                             *)
RefuseSource(i, s) == ~ Accepts(accepts[i], SourceHead[s]) /\ Ends(i, "thrown")

(* The rest of fromSource, for a source whose head passed.                 *)
Take(i, s) ==
  LET ok == Decodes(SourceHead[s].action, sourceContent[s])
  IN  /\ head' = [head EXCEPT ![i] = SourceHead[s]]
      /\ valid' = [valid EXCEPT ![i] = TRUE]
      /\ own' = [own EXCEPT ![i] = NoContent]
      /\ from' = [from EXCEPT ![i] = s]
      /\ last' = [last EXCEPT ![i] = IF ok THEN "accepted" ELSE "thrown"]
      /\ sourceContent' = [sourceContent EXCEPT ![s] =
                             IF ok THEN Decorated(SourceHead[s].action, @) ELSE @]
      /\ UNCHANGED <<conf, accepts, wire>>

(* Defect: the names are looked up in the configuration of now.            *)
TakeSourceByConfig(i, s) == Accepts(conf, SourceHead[s]) /\ Take(i, s)

(* msgParsed is set before the loop; when that throws, msgParsed stays.    *)
TakeSource(i, s) == Accepts(accepts[i], SourceHead[s]) /\ Take(i, s)

(* Defect: the target is written as it is held.                            *)
ToMessageAsHeld(i) ==
  /\ valid[i]
  /\ wire' = [head |-> head[i], content |-> HeldBy(i), chunks |-> Chunks(head[i], HeldBy(i))]
  /\ UNCHANGED <<conf, remarkVars, sourceContent>>

(* The target is decorated again: what is held may be the caller's.  If    *)
(* that throws, or the remark is not valid, nothing is written.            *)
ToMessage(i) ==
  /\ valid[i]
  /\ Decodes(head[i].action, HeldBy(i))
  /\ LET c == Decorated(head[i].action, HeldBy(i))
     IN  wire' = [head |-> head[i], content |-> c, chunks |-> Chunks(head[i], c)]
  /\ UNCHANGED <<conf, remarkVars, sourceContent>>

(* The application changes the content of its source in place.             *)
Edit(s, c) ==
  /\ sourceContent' = [sourceContent EXCEPT ![s] = c]
  /\ UNCHANGED <<conf, remarkVars, wire>>

Messages == Foreign \cup (IF wire = None THEN {} ELSE {wire.chunks})

Next ==
  \/ \E data \in ConfigData : SetConfig(data)
  \/ \E i \in Remarks :
       \/ New(i)
       \/ \E m \in Messages : RefuseMessage(i, m) \/ ReadMessage(i, m)
       \/ \E s \in Sources : RefuseSource(i, s) \/ TakeSource(i, s)
       \/ ToMessage(i)
  \/ \E s \in Sources, c \in Contents : Edit(s, c)

Spec == Init /\ [][Next]_vars
----------------------------------------------------------------------------
TypeOK ==
  /\ conf \in Config
  /\ accepts \in [Remarks -> Config]
  /\ head \in [Remarks -> CorePart \cup {None}]
  /\ valid \in [Remarks -> BOOLEAN]
  /\ own \in [Remarks -> Content]
  /\ from \in [Remarks -> Sources \cup {None}]
  /\ last \in [Remarks -> {"none", "accepted", "refused", "thrown"}]
  /\ sourceContent \in [Sources -> Content]
  /\ wire = None \/ wire \in [head : CorePart, content : Content, chunks : Seq(Chunk)]

(* "Set global config for all new SocialRemark instances": a remark holds  *)
(* only what the configuration it was made with accepts, also after that   *)
(* has changed for others, and after its caller has edited the source.     *)
KeepsToItsConfiguration ==
  \A i \in Remarks : head[i] # None => Accepts(accepts[i], head[i])

(* A message whose fields have no delimiter in them is read back as what   *)
(* was written, and would be written again as the same message: remarks of *)
(* different chains relay it unchanged.                                    *)
ReadsBack ==
  wire # None /\ (\A f \in DOMAIN wire.content : Len(wire.content[f]) <= 1) =>
    LET read == ContentOf(wire.chunks)
    IN  /\ HeadOf(wire.chunks) = wire.head
        /\ \A f \in DOMAIN read : read[f] = Written(wire.content[f])
        /\ Decodes(wire.head.action, read)
        /\ Chunks(wire.head, Decorated(wire.head.action, read)) = wire.chunks

(* Every registration that is written names its target by an address of    *)
(* Subsocial, though the source may be edited between fromSource, which    *)
(* converts it, and toMessage.                                             *)
RegistrationsAreAddressed ==
  wire # None /\ wire.head.action \in Registrations =>
    \E a \in Addresses : wire.content.target = <<a>> /\ Subsocial[a] = a

(* "Checks if a remark message is a valid SocialRemark message": a remark  *)
(* says so only if the message it was given last was accepted.             *)
ValidIsOfTheLastMessage ==
  \A i \in Remarks : valid[i] => last[i] # "refused"
=============================================================================
