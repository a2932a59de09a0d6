------------------------ MODULE SocialRemark_proofs ------------------------
(* Proofs about SocialRemark, for any number of remarks, sources and       *)
(* configurations.                                                         *)
EXTENDS SocialRemark, SequenceTheorems, TLAPS

LEMMA AtIsField ==
  ASSUME NEW m \in Seq(Chunk), NEW k \in Nat \ {0}
  PROVE  At(m, k) \in Field
  BY DEF At, Field

LEMMA ContentOfIsContent ==
  ASSUME NEW m \in Seq(Chunk)
  PROVE  ContentOf(m) \in Content
  <1>1. At(m, 5) \in Field /\ At(m, 6) \in Field /\ At(m, 7) \in Field /\ At(m, 8) \in Field
    BY AtIsField
  <1> QED BY <1>1 DEF ContentOf, Content

LEMMA DecoratedIsContent ==
  ASSUME NEW a, NEW c \in Content, Decodes(a, c)
  PROVE  /\ Decorated(a, c) \in Content
         /\ a \in Registrations =>
              \E x \in Addresses : Decorated(a, c).target = <<Subsocial[x]>>
  <1>1. CASE a \notin Registrations
    BY <1>1 DEF Decorated
  <1>2. CASE a \in Registrations
    <2>1. PICK x \in Addresses : c.target = <<x>>
      BY <1>2 DEF Decodes
    <2>2. Decorated(a, c) = [c EXCEPT !.target = <<Subsocial[x]>>]
      BY <1>2, <2>1 DEF Decorated
    <2>3. <<Subsocial[x]>> \in Field
      BY RemarkAssumption DEF Field
    <2> QED BY <2>2, <2>3 DEF Content
  <1> QED BY <1>1, <1>2

LEMMA WrittenIsField ==
  ASSUME NEW f \in Field
  PROVE  Written(f) \in Seq(Chunk)
  BY RemarkAssumption DEF Written, Field

LEMMA ChunksAreChunks ==
  ASSUME NEW h \in CorePart, NEW c \in Content
  PROVE  Chunks(h, c) \in Seq(Chunk)
  <1>1. <<h.protName, h.version, h.destination, h.action>> \in Seq(Chunk)
    BY DEF CorePart, Core
  <1>2. /\ Written(c.opId) \in Seq(Chunk)
        /\ Written(c.target) \in Seq(Chunk)
        /\ Written(c.subject) \in Seq(Chunk)
        /\ Written(c.token) \in Seq(Chunk)
    BY WrittenIsField DEF Content
  <1> QED BY <1>1, <1>2 DEF Chunks

(* The message t is s, of n chunks, and one chunk more.                    *)
IsOneMore(t, s, n, x) ==
  /\ t \in Seq(Chunk)
  /\ Len(t) = n + 1
  /\ \A k \in 1 .. n : t[k] = s[k]
  /\ t[n + 1] = x

LEMMA OneMore ==
  ASSUME NEW n \in Nat, NEW s \in Seq(Chunk), Len(s) = n, NEW x \in Chunk
  PROVE  IsOneMore(s \o <<x>>, s, n, x)
  BY DEF IsOneMore

(* The sums of the lengths stand apart: the provers lose track of a Len    *)
(* that is compared with two numbers.                                      *)
LEMMA EightChunks ==
  ASSUME NEW a \in Chunk, NEW b \in Chunk, NEW c \in Chunk, NEW d \in Chunk,
         NEW e \in Chunk, NEW f \in Chunk, NEW g \in Chunk, NEW h \in Chunk,
         NEW m, m = <<a, b, c, d>> \o <<e>> \o <<f>> \o <<g>> \o <<h>>
  PROVE  /\ Len(m) = 8
         /\ m[1] = a /\ m[2] = b /\ m[3] = c /\ m[4] = d
         /\ m[5] = e /\ m[6] = f /\ m[7] = g /\ m[8] = h
  <1>1. PICK n \in Nat : n = 4
    OBVIOUS
  <1>2. PICK m4 : m4 = <<a, b, c, d>>
    OBVIOUS
  <1>3. PICK m5 : m5 = m4 \o <<e>>
    OBVIOUS
  <1>4. PICK m6 : m6 = m5 \o <<f>>
    OBVIOUS
  <1>5. PICK m7 : m7 = m6 \o <<g>>
    OBVIOUS
  <1>6. m = m7 \o <<h>>
    BY <1>2, <1>3, <1>4, <1>5
  <1>7. m4 \in Seq(Chunk) /\ Len(m4) = n
    BY <1>1, <1>2
  <1>8. m4[1] = a /\ m4[2] = b /\ m4[3] = c /\ m4[4] = d
    BY <1>2
  <1>9. IsOneMore(m5, m4, n, e)
    BY <1>3, <1>7, OneMore
  <1>10. PICK n5 \in Nat : n5 = n + 1
    OBVIOUS
  <1>11. IsOneMore(m6, m5, n5, f)
    <2>1. m5 \in Seq(Chunk) /\ Len(m5) = n5
      BY <1>9, <1>10 DEF IsOneMore
    <2> QED BY <1>4, <2>1, OneMore
  <1>12. PICK n6 \in Nat : n6 = n5 + 1
    OBVIOUS
  <1>13. IsOneMore(m7, m6, n6, g)
    <2>1. m6 \in Seq(Chunk) /\ Len(m6) = n6
      BY <1>11, <1>12 DEF IsOneMore
    <2> QED BY <1>5, <2>1, OneMore
  <1>14. PICK n7 \in Nat : n7 = n6 + 1
    OBVIOUS
  <1>15. IsOneMore(m, m7, n7, h)
    <2>1. m7 \in Seq(Chunk) /\ Len(m7) = n7
      BY <1>13, <1>14 DEF IsOneMore
    <2> QED BY <1>6, <2>1, OneMore
  <1>16. n5 = 5 /\ n6 = 6 /\ n7 = 7
    BY <1>1, <1>10, <1>12, <1>14
  <1>17. n7 + 1 = 8
    BY <1>16
  <1>18. Len(m) = 8 /\ m[8] = h
    BY <1>15, <1>17 DEF IsOneMore
  <1>19. /\ m[1] = m7[1] /\ m[2] = m7[2] /\ m[3] = m7[3] /\ m[4] = m7[4]
         /\ m[5] = m7[5] /\ m[6] = m7[6] /\ m[7] = m7[7]
    <2>1. \A k \in 1 .. 7 : m[k] = m7[k]
      BY <1>15, <1>16 DEF IsOneMore
    <2>2. {1, 2, 3, 4, 5, 6, 7} \subseteq 1 .. 7
      OBVIOUS
    <2> QED BY <2>1, <2>2, Zenon
  <1>20. /\ m7[1] = m6[1] /\ m7[2] = m6[2] /\ m7[3] = m6[3] /\ m7[4] = m6[4]
         /\ m7[5] = m6[5] /\ m7[6] = m6[6] /\ m7[7] = g
    BY <1>13, <1>16 DEF IsOneMore
  <1>21. /\ m6[1] = m5[1] /\ m6[2] = m5[2] /\ m6[3] = m5[3] /\ m6[4] = m5[4]
         /\ m6[5] = m5[5] /\ m6[6] = f
    BY <1>11, <1>16 DEF IsOneMore
  <1>22. /\ m5[1] = m4[1] /\ m5[2] = m4[2] /\ m5[3] = m4[3] /\ m5[4] = m4[4]
         /\ m5[5] = e
    BY <1>1, <1>9 DEF IsOneMore
  <1> QED BY <1>8, <1>18, <1>19, <1>20, <1>21, <1>22

Short(c) == \A f \in DOMAIN c : Len(c[f]) <= 1

LEMMA WrittenIsOneChunk ==
  ASSUME NEW f \in Field, Len(f) <= 1
  PROVE  \E x \in Chunk : Written(f) = <<x>>
  <1>1. CASE f = <<>>
    BY <1>1, RemarkAssumption DEF Written
  <1>2. CASE f # <<>>
    <2>1. Len(f) = 1
      <3>1. PICK n \in Nat : n = Len(f)
        BY DEF Field
      <3>2. n # 0 /\ n <= 1
        BY <1>2, <3>1, EmptySeq DEF Field
      <3>3. n = 1
        BY <3>2
      <3> QED BY <3>1, <3>3
    <2>2. f = <<f[1]>> /\ f[1] \in Chunk
      BY <2>1 DEF Field
    <2> QED BY <1>2, <2>2 DEF Written
  <1> QED BY <1>1, <1>2

(* What is written with short fields is split into the same fields.        *)
LEMMA SplitUndoesJoin ==
  ASSUME NEW h \in CorePart, NEW c \in Content, Short(c)
  PROVE  /\ HeadOf(Chunks(h, c)) = h
         /\ ContentOf(Chunks(h, c)) =
              [opId |-> Written(c.opId), target |-> Written(c.target),
               subject |-> Written(c.subject), token |-> Written(c.token)]
  <1> DEFINE m == Chunks(h, c)
  <1>1. /\ c.opId \in Field /\ Len(c.opId) <= 1
        /\ c.target \in Field /\ Len(c.target) <= 1
        /\ c.subject \in Field /\ Len(c.subject) <= 1
        /\ c.token \in Field /\ Len(c.token) <= 1
    BY DEF Content, Short
  <1>2. PICK o \in Chunk : Written(c.opId) = <<o>>
    BY <1>1, WrittenIsOneChunk
  <1>3. PICK t \in Chunk : Written(c.target) = <<t>>
    BY <1>1, WrittenIsOneChunk
  <1>4. PICK s \in Chunk : Written(c.subject) = <<s>>
    BY <1>1, WrittenIsOneChunk
  <1>5. PICK k \in Chunk : Written(c.token) = <<k>>
    BY <1>1, WrittenIsOneChunk
  <1>6. /\ h.protName \in Chunk /\ h.version \in Chunk
        /\ h.destination \in Chunk /\ h.action \in Chunk
    BY DEF CorePart, Core
  <1>7. m = <<h.protName, h.version, h.destination, h.action>> \o <<o>> \o <<t>> \o <<s>> \o <<k>>
    BY <1>2, <1>3, <1>4, <1>5 DEF Chunks
  <1> HIDE DEF m
  <1>8. /\ Len(m) = 8
        /\ m[1] = h.protName /\ m[2] = h.version /\ m[3] = h.destination /\ m[4] = h.action
        /\ m[5] = o /\ m[6] = t /\ m[7] = s /\ m[8] = k
    BY <1>6, <1>7, EightChunks
  <1>9. HeadOf(m) = h
    BY <1>8 DEF HeadOf, CorePart, Core
  <1>10. At(m, 5) = <<o>> /\ At(m, 6) = <<t>> /\ At(m, 7) = <<s>> /\ At(m, 8) = <<k>>
    BY <1>8 DEF At
  <1>11. ContentOf(m) = [opId |-> <<o>>, target |-> <<t>>, subject |-> <<s>>, token |-> <<k>>]
    BY <1>10 DEF ContentOf
  <1> QED BY <1>2, <1>3, <1>4, <1>5, <1>9, <1>11 DEF m
----------------------------------------------------------------------------
ValidHasHead == \A i \in Remarks : valid[i] => head[i] # None

(* What is written comes from a core part and a content, and the target of *)
(* a registration was converted on the way.                                *)
WireIsWritten ==
  wire # None =>
    /\ wire.chunks = Chunks(wire.head, wire.content)
    /\ wire.head.action \in Registrations =>
         \E a \in Addresses : wire.content.target = <<Subsocial[a]>>

IInv == TypeOK /\ KeepsToItsConfiguration /\ ValidHasHead /\ WireIsWritten

LEMMA InitIInv == Init => IInv
<1> SUFFICES ASSUME Init PROVE IInv
  OBVIOUS
<1>1. NoContent \in Content
  BY DEF NoContent, Content, Field
<1>2. TypeOK
  BY <1>1, RemarkAssumption DEF Init, TypeOK
<1> QED BY <1>2 DEF Init, IInv, KeepsToItsConfiguration, ValidHasHead, WireIsWritten

LEMMA MessagesAreChunks ==
  ASSUME TypeOK
  PROVE  Messages \subseteq Seq(Chunk)
  BY RemarkAssumption DEF Messages, TypeOK

LEMMA SetConfigKeepsIInv ==
  ASSUME IInv, NEW data \in ConfigData, SetConfig(data)
  PROVE  IInv'
  <1>1. conf' \in Config
    <2>1. ASSUME NEW f \in Core
          PROVE (IF f \in DOMAIN data THEN data[f] ELSE conf[f]) \in SUBSET (Chunk \ {Empty})
      BY <2>1, RemarkAssumption DEF IInv, TypeOK, Config
    <2> QED BY <2>1 DEF SetConfig, Config
  <1>2. TypeOK'
    BY <1>1 DEF IInv, TypeOK, SetConfig, remarkVars
  <1> QED BY <1>2 DEF IInv, SetConfig, remarkVars, KeepsToItsConfiguration, ValidHasHead, WireIsWritten

LEMMA NewKeepsIInv ==
  ASSUME IInv, NEW i \in Remarks, New(i)
  PROVE  IInv'
  <1>1. NoContent \in Content
    BY DEF NoContent, Content, Field
  <1>2. TypeOK'
    BY <1>1 DEF IInv, TypeOK, New
  <1>3. KeepsToItsConfiguration' /\ ValidHasHead'
    BY DEF IInv, TypeOK, New, KeepsToItsConfiguration, ValidHasHead
  <1> QED BY <1>2, <1>3 DEF IInv, New, WireIsWritten

LEMMA EndsKeepsIInv ==
  ASSUME IInv, NEW i \in Remarks, NEW how \in {"none", "accepted", "refused", "thrown"}, Ends(i, how)
  PROVE  IInv'
  <1>1. TypeOK'
    BY DEF IInv, TypeOK, Ends
  <1> QED BY <1>1 DEF IInv, Ends, KeepsToItsConfiguration, ValidHasHead, WireIsWritten

LEMMA ReadMessageKeepsIInv ==
  ASSUME IInv, NEW i \in Remarks, NEW m \in Messages, ReadMessage(i, m)
  PROVE  IInv'
  <1>1. m \in Seq(Chunk)
    BY MessagesAreChunks DEF IInv
  <1>2. Accepts(accepts[i], HeadOf(m)) /\ HeadOf(m) \in CorePart
    <2>1. Accepts(accepts[i], HeadOf(m))
      BY DEF ReadMessage, Recognised
    <2>2. \A f \in Core : accepts[i][f] \subseteq Chunk
      BY DEF IInv, TypeOK, Config
    <2>3. /\ HeadOf(m).protName \in Chunk /\ HeadOf(m).version \in Chunk
          /\ HeadOf(m).destination \in Chunk /\ HeadOf(m).action \in Chunk
      BY <2>1, <2>2 DEF Accepts, Core
    <2>4. HeadOf(m) \in CorePart
      BY <2>3 DEF HeadOf, CorePart, Core
    <2> QED BY <2>1, <2>4
  <1>3. ContentOf(m) \in Content
    BY <1>1, ContentOfIsContent
  <1>4. [NoContent EXCEPT !.opId = ContentOf(m).opId] \in Content
    <2>1. ContentOf(m).opId \in Field /\ <<>> \in Field
      BY <1>3 DEF Content, Field
    <2> QED BY <2>1 DEF NoContent, Content
  <1>5. own'[i] \in Content
    BY <1>3, <1>4, DecoratedIsContent DEF ReadMessage, IInv, TypeOK
  <1>6. own' \in [Remarks -> Content]
    BY <1>5 DEF ReadMessage, IInv, TypeOK
  <1>7. TypeOK'
    BY <1>2, <1>6 DEF IInv, TypeOK, ReadMessage, Decodes
  <1>8. KeepsToItsConfiguration' /\ ValidHasHead'
    BY <1>2, RemarkAssumption DEF IInv, TypeOK, ReadMessage, KeepsToItsConfiguration, ValidHasHead
  <1> QED BY <1>7, <1>8 DEF IInv, ReadMessage, WireIsWritten

LEMMA TakeSourceKeepsIInv ==
  ASSUME IInv, NEW i \in Remarks, NEW s \in Sources, TakeSource(i, s)
  PROVE  IInv'
  <1>1. SourceHead[s] \in CorePart /\ Accepts(accepts[i], SourceHead[s])
    BY RemarkAssumption DEF TakeSource
  <1>2. sourceContent' \in [Sources -> Content]
    BY DecoratedIsContent DEF IInv, TypeOK, TakeSource, Take
  <1>3. NoContent \in Content
    BY DEF NoContent, Content, Field
  <1>4. TypeOK'
    BY <1>1, <1>2, <1>3 DEF IInv, TypeOK, TakeSource, Take
  <1>5. KeepsToItsConfiguration' /\ ValidHasHead'
    BY <1>1, RemarkAssumption
      DEF IInv, TypeOK, TakeSource, Take, KeepsToItsConfiguration, ValidHasHead
  <1> QED BY <1>4, <1>5 DEF IInv, TakeSource, Take, WireIsWritten

LEMMA ToMessageKeepsIInv ==
  ASSUME IInv, NEW i \in Remarks, ToMessage(i)
  PROVE  IInv'
  <1> DEFINE c == Decorated(head[i].action, HeldBy(i))
  <1>1. head[i] \in CorePart /\ HeldBy(i) \in Content
    BY RemarkAssumption DEF IInv, TypeOK, ValidHasHead, ToMessage, HeldBy
  <1>2. /\ c \in Content
        /\ head[i].action \in Registrations =>
             \E a \in Addresses : c.target = <<Subsocial[a]>>
    BY <1>1, DecoratedIsContent DEF ToMessage
  <1>3. wire' = [head |-> head[i], content |-> c, chunks |-> Chunks(head[i], c)]
    BY DEF ToMessage
  <1> HIDE DEF c
  <1>4. Chunks(head[i], c) \in Seq(Chunk)
    BY <1>1, <1>2, ChunksAreChunks
  <1>5. TypeOK'
    BY <1>1, <1>2, <1>3, <1>4 DEF IInv, TypeOK, ToMessage, remarkVars
  <1>6. WireIsWritten'
    BY <1>2, <1>3 DEF WireIsWritten
  <1> QED BY <1>5, <1>6 DEF IInv, ToMessage, remarkVars, KeepsToItsConfiguration, ValidHasHead

LEMMA EditKeepsIInv ==
  ASSUME IInv, NEW s \in Sources, NEW c \in Contents, Edit(s, c)
  PROVE  IInv'
  <1>1. TypeOK'
    BY RemarkAssumption DEF IInv, TypeOK, Edit, remarkVars
  <1> QED BY <1>1 DEF IInv, Edit, remarkVars, KeepsToItsConfiguration, ValidHasHead, WireIsWritten

LEMMA StepKeepsIInv == IInv /\ [Next]_vars => IInv'
<1> SUFFICES ASSUME IInv, [Next]_vars PROVE IInv'
  OBVIOUS
<1>1. ASSUME NEW data \in ConfigData, SetConfig(data) PROVE IInv'
  BY <1>1, SetConfigKeepsIInv
<1>2. ASSUME NEW i \in Remarks, New(i) PROVE IInv'
  BY <1>2, NewKeepsIInv
<1>3. ASSUME NEW i \in Remarks, NEW m \in Messages, RefuseMessage(i, m) PROVE IInv'
  BY <1>3, EndsKeepsIInv DEF RefuseMessage
<1>4. ASSUME NEW i \in Remarks, NEW m \in Messages, ReadMessage(i, m) PROVE IInv'
  BY <1>4, ReadMessageKeepsIInv
<1>5. ASSUME NEW i \in Remarks, NEW s \in Sources, RefuseSource(i, s) PROVE IInv'
  BY <1>5, EndsKeepsIInv DEF RefuseSource
<1>6. ASSUME NEW i \in Remarks, NEW s \in Sources, TakeSource(i, s) PROVE IInv'
  BY <1>6, TakeSourceKeepsIInv
<1>7. ASSUME NEW i \in Remarks, ToMessage(i) PROVE IInv'
  BY <1>7, ToMessageKeepsIInv
<1>8. ASSUME NEW s \in Sources, NEW c \in Contents, Edit(s, c) PROVE IInv'
  BY <1>8, EditKeepsIInv
<1>9. CASE UNCHANGED vars
  BY <1>9 DEF vars, remarkVars, IInv, TypeOK, KeepsToItsConfiguration, ValidHasHead, WireIsWritten
<1> QED BY <1>1, <1>2, <1>3, <1>4, <1>5, <1>6, <1>7, <1>8, <1>9 DEF Next

THEOREM Invariant == Spec => []IInv
BY InitIInv, StepKeepsIInv, PTL DEF Spec

(* TypeOK: every variable keeps its shape.                                 *)
THEOREM TypeCorrect == Spec => []TypeOK
<1>1. IInv => TypeOK
  BY DEF IInv
<1> QED BY <1>1, Invariant, PTL

(* A remark holds only what the configuration it was made with accepts,    *)
(* whatever is configured later for others.                                *)
THEOREM Configured == Spec => []KeepsToItsConfiguration
<1>1. IInv => KeepsToItsConfiguration
  BY DEF IInv
<1> QED BY <1>1, Invariant, PTL

(* Every registration that is written is addressed with the prefix of      *)
(* Subsocial, though the caller may change the content it shares.          *)
THEOREM Addressed == Spec => []RegistrationsAreAddressed
<1>1. IInv => RegistrationsAreAddressed
  BY RemarkAssumption DEF IInv, WireIsWritten, RegistrationsAreAddressed
<1> QED BY <1>1, Invariant, PTL

LEMMA WrittenTwice ==
  ASSUME NEW f
  PROVE  /\ Written(Written(f)) = Written(f)
         /\ \A a : f = <<a>> => Written(f) = f
  <1>1. \A a : <<a>> # <<>>
    OBVIOUS
  <1> QED BY <1>1 DEF Written

LEMMA WireReadsBack ==
  ASSUME TypeOK, WireIsWritten
  PROVE  ReadsBack
  <1> DEFINE c == wire.content
             h == wire.head
             read == ContentOf(wire.chunks)
  <1> SUFFICES ASSUME wire # None, \A f \in DOMAIN c : Len(c[f]) <= 1
               PROVE  /\ HeadOf(wire.chunks) = h
                      /\ \A f \in DOMAIN read : read[f] = Written(c[f])
                      /\ Decodes(h.action, read)
                      /\ Chunks(h, Decorated(h.action, read)) = wire.chunks
    BY DEF ReadsBack
  <1>1. h \in CorePart /\ c \in Content /\ wire.chunks = Chunks(h, c)
    BY DEF TypeOK, WireIsWritten
  <1>2. Short(c)
    BY DEF Short
  <1>3. HeadOf(wire.chunks) = h
    BY <1>1, <1>2, SplitUndoesJoin
  <1>4. read = [opId |-> Written(c.opId), target |-> Written(c.target),
                subject |-> Written(c.subject), token |-> Written(c.token)]
    BY <1>1, <1>2, SplitUndoesJoin
  <1>5. ASSUME h.action \in Registrations
        PROVE  Decodes(h.action, read) /\ Decorated(h.action, read) = read
    <2>1. PICK a \in Addresses : c.target = <<Subsocial[a]>>
      BY <1>5 DEF WireIsWritten
    <2>2. Subsocial[a] \in Addresses /\ Subsocial[Subsocial[a]] = Subsocial[a]
      BY RemarkAssumption
    <2>3. read.target = <<Subsocial[a]>>
      BY <1>4, <2>1, WrittenTwice
    <2>4. Decorated(h.action, read) = [read EXCEPT !.target = <<Subsocial[a]>>]
      BY <1>5, <2>2, <2>3 DEF Decorated
    <2> HIDE DEF read
    <2>5. Decorated(h.action, read) = read
      BY <1>4, <2>3, <2>4
    <2> QED BY <2>2, <2>3, <2>5 DEF Decodes
  <1>6. Decodes(h.action, read) /\ Decorated(h.action, read) = read
    BY <1>5 DEF Decodes, Decorated
  <1>7. \A f \in DOMAIN read : read[f] = Written(c[f])
    BY <1>4
  <1>8. Chunks(h, read) = Chunks(h, c)
    BY <1>4, WrittenTwice DEF Chunks
  <1> QED BY <1>1, <1>3, <1>6, <1>7, <1>8

(* A message without delimiters in its fields is read as it was written,   *)
(* whatever the fields are.                                                *)
THEOREM Relayed == Spec => []ReadsBack
<1>1. IInv => ReadsBack
  BY WireReadsBack DEF IInv
<1> QED BY <1>1, Invariant, PTL
=============================================================================
