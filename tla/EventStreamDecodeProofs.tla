----------------------- MODULE EventStreamDecodeProofs -----------------------
(***************************************************************************)
(* Proofs about EventStreamDecode for every set of inputs, every chain of *)
(* frames the encoder can write and every frame bound: a message built by  *)
(* the encoder decodes without an exception, frame by frame, to exactly   *)
(* the headers that were encoded in it.                                    *)
(***************************************************************************)
EXTENDS EventStreamDecode, SequenceTheorems, TLAPS

(***************************************************************************)
(* While decoding an encoded input, decode() is at some frame f of its     *)
(* chain: msg is that frame, decoded holds the header maps of the frames  *)
(* before it (of all of them once done), and inside the header loop i is  *)
(* the offset where the k-th header starts and this.headers holds what    *)
(* the headers before it give.                                             *)
(***************************************************************************)
AtFrame(f) ==
  LET F  == Frames[input]
      fr == F[f]
      n  == Len(fr.hs)
  IN  /\ msg = fr.msg
      /\ decoded \in Seq(Entries(Expected[input]))
      /\ \A g \in 1 .. Len(decoded) : decoded[g] = Expected[input][g]
      /\ \/ /\ status = "prelude" /\ headers = NoHeaders
            /\ Len(decoded) = f - 1
         \/ /\ status = "headers" /\ Len(decoded) = f - 1
            /\ hdrEnd = fr.off[n + 1] /\ payload = PayloadOf(fr)
            /\ \E k \in 1 .. n + 1 : i = fr.off[k] /\ headers = fr.acc[k]
         \/ /\ status = "done" /\ f = Len(F) /\ Len(decoded) = f

IInv == input \in DOMAIN Expected => \E f \in 1 .. Len(Frames[input]) : AtFrame(f)

-----------------------------------------------------------------------------
(* The decoder's switch skips, for each fixed-size type, the number of   *)
(* bytes the wire format gives it; the type tags read with a fixed-size  *)
(* getter, the length-prefixed ones and uuid are three disjoint kinds.    *)
LEMMA TagKinds ==
  /\ FixedSize = WireSize
  /\ \A t \in LengthPrefixed : t \notin DOMAIN FixedSize
  /\ Uuid \notin DOMAIN FixedSize \cup LengthPrefixed
  <1>1. FixedSize = WireSize
    BY DEF FixedSize, WireSize
  <1>2. DOMAIN FixedSize = {0, 1, 2, 3, 4, 5, 8}
    BY DEF FixedSize
  <1>3. QED
    BY <1>1, <1>2 DEF LengthPrefixed, Uuid

(* Inside the message, subarray(b, e) is the bytes b + 1 .. e.            *)
LEMMA SubArrayInside ==
  ASSUME NEW s \in Seq(Bytes), NEW b \in Nat, NEW e \in Nat, b <= e, e <= Len(s)
  PROVE  SubArray(s, b, e) = SubSeq(s, b + 1, e)
  <1>1. CASE b = e
    <2>1. SubSeq(s, b + 1, e) = << >>
      BY <1>1, SubSeqEmpty
    <2>2. QED
      BY <1>1, <2>1 DEF SubArray
  <1>2. CASE b < e
    <2>1. Len(s) \in Nat
      OBVIOUS
    <2>2. (IF b < Len(s) THEN b ELSE Len(s)) = b /\ (IF e < Len(s) THEN e ELSE Len(s)) = e
      BY <1>2, <2>1
    <2>3. ~(e <= b)
      BY <1>2
    <2>4. QED
      BY <2>2, <2>3, Zenon DEF SubArray
  <1>3. QED
    BY <1>1, <1>2

(***************************************************************************)
(* One iteration of the header loop at the start of the k-th encoded      *)
(* header reads exactly that header: every DataView read is inside the   *)
(* message, the switch takes the case of its tag, i moves to the start of *)
(* the next header and this.headers becomes what the encoder recorded.    *)
(***************************************************************************)
LEMMA HeaderStep ==
  ASSUME NEW h \in HeaderRec, NEW p \in Nat, NEW q \in Nat, NEW acc1, NEW acc2,
         msg \in Seq(Bytes), EncodedHeader(msg, p, h),
         q = HeaderEnd(p, h), q <= Len(msg),
         acc2 = SetKey(acc1, h.name, [tag |-> h.tag, bytes |-> h.bytes]),
         i = p, headers = acc1,
         DecodeHeader
  PROVE  /\ status' = "headers"
         /\ i' = q
         /\ headers' = acc2
         /\ UNCHANGED <<input, msg, hdrEnd, payload, decoded>>
  <1> DEFINE L == Len(h.name)
             B == Len(h.bytes)
             v == ValueOffset(p, h)
  <1>1. /\ L \in Nat /\ B \in Nat /\ Len(msg) \in Nat
        /\ h.tag \in DOMAIN WireSize \cup LengthPrefixed \cup {Uuid}
    BY DEF HeaderRec
  <1>2. /\ v \in Nat /\ p + 2 + L <= v
        /\ q = v + B /\ q <= Len(msg)
        /\ h.tag \in LengthPrefixed => v = p + 4 + L
        /\ h.tag \notin LengthPrefixed => v = p + 2 + L
    BY <1>1 DEF ValueOffset, HeaderEnd, HeaderRec
  <1>3. /\ msg[p + 1] = L /\ msg[p + 2 + L] = h.tag
        /\ SubSeq(msg, p + 2, p + 1 + L) = h.name
        /\ h.tag \in LengthPrefixed => U16(msg, p + 2 + L) = B
        /\ h.tag \in DOMAIN WireSize => B = WireSize[h.tag]
        /\ h.tag = Uuid => B = 16
        /\ SubSeq(msg, v + 1, q) = h.bytes
    BY <1>2 DEF EncodedHeader
  <1> HIDE DEF L, B, v
  <1>4. Readable(msg, i, 1) /\ Readable(msg, i + 1 + msg[i + 1], 1)
    BY <1>1, <1>2, <1>3 DEF Readable
  <1>5. /\ HeaderValue(i + 1 + L, h.tag)
        /\ UNCHANGED <<input, msg, hdrEnd, payload, decoded>>
    BY <1>3, <1>4, Zenon DEF DecodeHeader
  <1>6. SubArray(msg, i + 1, i + 1 + L) = h.name
    <2>0. v \in Nat /\ p + 2 + L <= v /\ v <= q /\ q <= Len(msg)
      BY <1>1, <1>2
    <2>1. /\ p + 1 \in Nat /\ p + 1 + L \in Nat
          /\ p + 1 <= p + 1 + L /\ p + 1 + L <= Len(msg)
      BY <1>1, <2>0
    <2>2. SubArray(msg, p + 1, p + 1 + L) = SubSeq(msg, (p + 1) + 1, p + 1 + L)
      BY <2>1, SubArrayInside
    <2>3. (p + 1) + 1 = p + 2
      OBVIOUS
    <2>4. QED
      BY <2>2, <2>3, <1>3
  <1>7. SubArray(msg, v, q) = h.bytes
    <2>0. v <= q
      BY <1>1, <1>2
    <2>1. SubArray(msg, v, q) = SubSeq(msg, v + 1, q)
      BY <1>1, <1>2, <2>0, SubArrayInside
    <2>2. QED
      BY <2>1, <1>3
  <1>8. CASE h.tag \in DOMAIN FixedSize
    <2>1. /\ B = FixedSize[h.tag]
          /\ h.tag \notin LengthPrefixed /\ h.tag # Uuid
      BY <1>8, <1>3, TagKinds
    <2>2. v = i + 1 + L + 1 /\ q = i + 1 + L + 1 + FixedSize[h.tag]
      <3>1. v = p + 2 + L
        BY <1>2, <2>1, Zenon
      <3>2. v = i + 1 + L + 1 /\ q = i + 1 + L + 1 + B
        BY <3>1, <1>1, <1>2
      <3>3. QED
        BY <3>2, <2>1, Zenon
    <2>3. Readable(msg, i + 1 + L + 1, FixedSize[h.tag])
      BY <1>1, <1>2, <2>1, <2>2 DEF Readable
    <2>4. /\ i' = i + 1 + L + 1 + FixedSize[h.tag]
          /\ status' = "headers"
          /\ headers' = SetKey(headers, SubArray(msg, i + 1, i + 1 + L),
                               [tag |-> h.tag,
                                bytes |-> SubArray(msg, i + 1 + L + 1,
                                                   i + 1 + L + 1 + FixedSize[h.tag])])
      BY <1>5, <1>8, <2>1, <2>3, Zenon DEF HeaderValue
    <2>5. QED
      BY <2>4, <2>2, <1>5, <1>6, <1>7, Zenon
  <1>9. CASE h.tag \in LengthPrefixed
    <2>1. h.tag \notin DOMAIN FixedSize /\ h.tag # Uuid
      BY <1>9, TagKinds DEF LengthPrefixed, Uuid
    <2>2. U16(msg, i + 1 + L + 1) = B
      <3>1. i + 1 + L + 1 = p + 2 + L
        BY <1>1
      <3>2. QED
        BY <1>9, <1>3, <3>1
    <2>3. /\ v = i + 1 + L + 1 + 2
          /\ q = i + 1 + L + 1 + 2 + U16(msg, i + 1 + L + 1)
      BY <1>1, <1>2, <1>9, <2>2
    <2>4. Readable(msg, i + 1 + L + 1, 2)
      BY <1>1, <1>2, <2>3 DEF Readable
    <2>5. /\ i' = i + 1 + L + 1 + 2 + U16(msg, i + 1 + L + 1)
          /\ status' = "headers"
          /\ headers' = SetKey(headers, SubArray(msg, i + 1, i + 1 + L),
                               [tag |-> h.tag,
                                bytes |-> SubArray(msg, i + 1 + L + 1 + 2,
                                             i + 1 + L + 1 + 2 + U16(msg, i + 1 + L + 1))])
      BY <1>5, <1>9, <2>1, <2>4, Zenon DEF HeaderValue
    <2>6. QED
      BY <2>5, <2>3, <1>5, <1>6, <1>7, Zenon
  <1>10. CASE h.tag = Uuid
    <2>1. h.tag \notin DOMAIN FixedSize /\ h.tag \notin LengthPrefixed
      BY <1>10, TagKinds
    <2>2. B = 16
      BY <1>10, <1>3
    <2>3. v = i + 1 + L + 1 /\ q = i + 1 + L + 1 + 16
      BY <1>1, <1>2, <2>1, <2>2
    <2>4. /\ i' = i + 1 + L + 1 + 16
          /\ status' = "headers"
          /\ headers' = SetKey(headers, SubArray(msg, i + 1, i + 1 + L),
                               [tag |-> h.tag,
                                bytes |-> SubArray(msg, i + 1 + L + 1, i + 1 + L + 1 + 16)])
      BY <1>5, <1>10, <2>1, Zenon DEF HeaderValue
    <2>5. QED
      BY <2>4, <2>3, <1>5, <1>6, <1>7, Zenon
  <1>11. QED
    BY <1>1, <1>8, <1>9, <1>10, TagKinds

(* A header ends after its start.                                          *)
LEMMA HeaderEndAfter ==
  ASSUME NEW h \in HeaderRec, NEW p \in Nat
  PROVE  HeaderEnd(p, h) \in Nat /\ HeaderEnd(p, h) > p
  BY DEF HeaderEnd, ValueOffset, HeaderRec

(***************************************************************************)
(* The facts about frame f of an encoded input that the step proofs use,  *)
(* with the frame's fields as plain names.                                 *)
(***************************************************************************)
LEMMA FrameFacts ==
  ASSUME NEW x \in DOMAIN Expected, NEW f \in 1 .. Len(Frames[x])
  PROVE  LET fr == Frames[x][f]
             m  == fr.msg
             n  == Len(fr.hs)
             o  == fr.off
         IN  /\ m \in Seq(Bytes) /\ Len(m) >= 16 /\ U32(m, 0) = Len(m)
             /\ fr.hs \in Seq(HeaderRec) /\ n \in Nat
             /\ o \in Seq(Nat) /\ Len(o) = n + 1
             /\ Len(m) \in Nat /\ o \in [1 .. n + 1 -> Nat]
             /\ o[1] = 12 /\ 12 + U32(m, 4) = o[n + 1] /\ o[n + 1] <= Len(m) - 4
             /\ \A k \in 1 .. n + 1 : o[k] <= o[n + 1]
             /\ \A k \in 1 .. n : /\ EncodedHeader(m, o[k], fr.hs[k])
                                  /\ o[k + 1] = HeaderEnd(o[k], fr.hs[k])
                                  /\ fr.acc[k + 1] =
                                       SetKey(fr.acc[k], fr.hs[k].name,
                                              [tag |-> fr.hs[k].tag,
                                               bytes |-> fr.hs[k].bytes])
             /\ fr.acc[1] = NoHeaders
             /\ Expected[x][f] = fr.acc[n + 1]
             /\ PayloadOf(fr) = SubSeq(m, o[n + 1] + 1, Len(m) - 4)
             /\ (ChunkSigName \in DOMAIN fr.acc[n + 1] /\ Len(PayloadOf(fr)) > 0)
                  <=> f < Len(Frames[x])
             /\ f < Len(Frames[x]) => Frames[x][f + 1].msg = PayloadOf(fr)
  <1>1. FrameEncoded(Frames[x][f])
    BY EncodedInputs
  <1>2. /\ Expected[x][f] = LastHeaders(Frames[x][f])
        /\ Chained(Frames[x][f]) <=> f < Len(Frames[x])
        /\ f < Len(Frames[x]) => Frames[x][f + 1].msg = PayloadOf(Frames[x][f])
    BY EncodedInputs
  <1>3. Len(Frames[x][f].hs) \in Nat
    BY <1>1, LenProperties DEF FrameEncoded
  <1>4. Len(Frames[x][f].msg) \in Nat
    BY <1>1, LenProperties DEF FrameEncoded
  <1>5. Frames[x][f].off \in [1 .. Len(Frames[x][f].off) -> Nat]
    BY <1>1, LenProperties DEF FrameEncoded
  <1>6. QED
    BY <1>1, <1>2, <1>3, <1>4, <1>5 DEF FrameEncoded, LastHeaders, Chained, PayloadOf

(***************************************************************************)
(* One iteration of the header loop in frame f of an encoded input: it    *)
(* starts at the k-th header, reads it whole and stops at the next one,   *)
(* which is still inside the headers section.                             *)
(***************************************************************************)
LEMMA HeaderLoopStep ==
  ASSUME input \in DOMAIN Expected, NEW f \in 1 .. Len(Frames[input]),
         AtFrame(f), DecodeHeader
  PROVE  LET fr == Frames[input][f]
         IN  \E k \in 1 .. Len(fr.hs) :
               /\ i = fr.off[k] /\ headers = fr.acc[k]
               /\ i' = fr.off[k + 1] /\ headers' = fr.acc[k + 1]
               /\ i < i' /\ i' <= hdrEnd
               /\ status' = "headers"
               /\ UNCHANGED <<input, msg, hdrEnd, payload, decoded>>
  <1> DEFINE fr == Frames[input][f]
             m  == fr.msg
             nh == Len(fr.hs)
             o  == fr.off
  <1>1. /\ m \in Seq(Bytes) /\ Len(m) \in Nat
        /\ fr.hs \in Seq(HeaderRec) /\ nh \in Nat /\ Len(fr.hs) = nh
        /\ o \in [1 .. nh + 1 -> Nat] /\ o[nh + 1] <= Len(m) - 4
        /\ \A k \in 1 .. nh + 1 : o[k] <= o[nh + 1]
    BY FrameFacts
  <1>2. \A k \in 1 .. nh : /\ EncodedHeader(m, o[k], fr.hs[k])
                           /\ o[k + 1] = HeaderEnd(o[k], fr.hs[k])
                           /\ fr.acc[k + 1] =
                                SetKey(fr.acc[k], fr.hs[k].name,
                                       [tag |-> fr.hs[k].tag,
                                        bytes |-> fr.hs[k].bytes])
    BY FrameFacts
  <1>3. status = "headers" /\ i < hdrEnd
    BY DEF DecodeHeader
  <1>4. /\ msg = m /\ hdrEnd = o[nh + 1]
        /\ \E k \in 1 .. nh + 1 : i = o[k] /\ headers = fr.acc[k]
    BY <1>3 DEF AtFrame
  <1> HIDE DEF fr, m, nh, o
  <1>5. PICK k \in 1 .. nh + 1 : i = o[k] /\ headers = fr.acc[k]
    BY <1>4
  <1>6. k \in 1 .. nh
    BY <1>1, <1>3, <1>4, <1>5
  <1>7. /\ fr.hs[k] \in HeaderRec
        /\ o[k] \in Nat /\ o[k + 1] \in Nat /\ o[nh + 1] \in Nat
        /\ o[k + 1] <= o[nh + 1] /\ o[k + 1] <= Len(msg)
    <2>1. fr.hs[k] \in HeaderRec
      BY <1>1, <1>6, ElementOfSeq
    <2>2. o[k] \in Nat /\ o[k + 1] \in Nat /\ o[nh + 1] \in Nat
      BY <1>1, <1>6
    <2>3. o[k + 1] <= o[nh + 1]
      BY <1>1, <1>6
    <2>4. QED
      BY <1>1, <1>4, <2>1, <2>2, <2>3
  <1>8. /\ msg \in Seq(Bytes)
        /\ EncodedHeader(msg, o[k], fr.hs[k])
        /\ o[k + 1] = HeaderEnd(o[k], fr.hs[k])
        /\ fr.acc[k + 1] = SetKey(fr.acc[k], fr.hs[k].name,
                                  [tag |-> fr.hs[k].tag, bytes |-> fr.hs[k].bytes])
    BY <1>1, <1>2, <1>4, <1>6
  <1>9. /\ status' = "headers"
        /\ i' = o[k + 1]
        /\ headers' = fr.acc[k + 1]
        /\ UNCHANGED <<input, msg, hdrEnd, payload, decoded>>
    BY <1>5, <1>7, <1>8, HeaderStep
  (* The loop moves forward: a header ends after it starts.               *)
  <1>10. o[k] < o[k + 1]
    <2>1. HeaderEnd(o[k], fr.hs[k]) > o[k]
      BY <1>7, HeaderEndAfter
    <2>2. QED
      BY <1>8, <2>1
  <1>11. QED
    BY <1>1, <1>4, <1>5, <1>6, <1>7, <1>9, <1>10 DEF fr, nh, o

-----------------------------------------------------------------------------
LEMMA InitIInv == Init => IInv
  <1> SUFFICES ASSUME Init, input \in DOMAIN Expected
               PROVE  AtFrame(1)
    BY EncodedInputs DEF IInv
  <1>1. Frames[input][1].msg = input /\ Len(Frames[input]) >= 1
    BY EncodedInputs
  <1>2. << >> \in Seq(Entries(Expected[input])) /\ Len(<< >>) = 0
    BY EmptySeq
  <1>3. QED
    BY <1>1, <1>2 DEF Init, AtFrame

LEMMA NextIInv == IInv /\ [Next]_vars => IInv'
  <1> SUFFICES ASSUME IInv, [Next]_vars PROVE IInv'
    OBVIOUS
  <1>0. input' = input
    BY DEF Next, Prelude, DecodeHeader, EndHeaders, vars
  <1>1. SUFFICES ASSUME input \in DOMAIN Expected
                 PROVE  \E g \in 1 .. Len(Frames[input]) : AtFrame(g)'
    BY <1>0 DEF IInv
  <1>2. PICK f \in 1 .. Len(Frames[input]) : AtFrame(f)
    BY <1>1 DEF IInv
  <1> DEFINE F  == Frames[input]
             E  == Expected[input]
             fr == F[f]
             m  == fr.msg
             nh  == Len(fr.hs)
             o  == fr.off
  <1>3. /\ m \in Seq(Bytes) /\ Len(m) >= 16 /\ U32(m, 0) = Len(m)
        /\ fr.hs \in Seq(HeaderRec) /\ nh \in Nat /\ Len(fr.hs) = nh
        /\ o \in Seq(Nat) /\ Len(o) = nh + 1
        /\ Len(m) \in Nat /\ o \in [1 .. nh + 1 -> Nat]
        /\ o[1] = 12 /\ 12 + U32(m, 4) = o[nh + 1] /\ o[nh + 1] <= Len(m) - 4
        /\ \A k \in 1 .. nh + 1 : o[k] <= o[nh + 1]
        /\ \A k \in 1 .. nh : /\ EncodedHeader(m, o[k], fr.hs[k])
                             /\ o[k + 1] = HeaderEnd(o[k], fr.hs[k])
                             /\ fr.acc[k + 1] =
                                  SetKey(fr.acc[k], fr.hs[k].name,
                                         [tag |-> fr.hs[k].tag,
                                          bytes |-> fr.hs[k].bytes])
        /\ fr.acc[1] = NoHeaders
        /\ E[f] = fr.acc[nh + 1]
        /\ PayloadOf(fr) = SubSeq(m, o[nh + 1] + 1, Len(m) - 4)
        /\ (ChunkSigName \in DOMAIN fr.acc[nh + 1] /\ Len(PayloadOf(fr)) > 0)
             <=> f < Len(F)
        /\ f < Len(F) => F[f + 1].msg = PayloadOf(fr)
    BY <1>1, <1>2, FrameFacts
  <1>4. /\ F \in Seq(Entries(F)) /\ Len(F) \in Nat
        /\ E \in Seq(Entries(E)) /\ Len(E) = Len(F)
    BY <1>1, EncodedInputs, LenProperties
  <1>5. /\ msg = m
        /\ decoded \in Seq(Entries(E))
        /\ \A g \in 1 .. Len(decoded) : decoded[g] = E[g]
        /\ \/ status = "prelude" /\ headers = NoHeaders /\ Len(decoded) = f - 1
           \/ /\ status = "headers" /\ Len(decoded) = f - 1
              /\ hdrEnd = o[nh + 1] /\ payload = PayloadOf(fr)
              /\ \E k \in 1 .. nh + 1 : i = o[k] /\ headers = fr.acc[k]
           \/ status = "done" /\ f = Len(F) /\ Len(decoded) = f
    BY <1>2 DEF AtFrame
  (* The facts of <1>3 and <1>5 one by one, so that each leaf cites only  *)
  (* what it uses.                                                         *)
  <1>fm. m \in Seq(Bytes) /\ Len(m) \in Nat /\ Len(m) >= 16 /\ U32(m, 0) = Len(m) /\ msg = m
    BY <1>3, <1>5
  <1>fh. fr.hs \in Seq(HeaderRec) /\ nh \in Nat /\ Len(fr.hs) = nh
    BY <1>3
  <1>fo. /\ o \in [1 .. nh + 1 -> Nat]
         /\ o[1] = 12 /\ 12 + U32(m, 4) = o[nh + 1] /\ o[nh + 1] <= Len(m) - 4
         /\ \A k \in 1 .. nh + 1 : o[k] <= o[nh + 1]
    BY <1>3
  <1>fk. \A k \in 1 .. nh : /\ EncodedHeader(m, o[k], fr.hs[k])
                            /\ o[k + 1] = HeaderEnd(o[k], fr.hs[k])
                            /\ fr.acc[k + 1] =
                                 SetKey(fr.acc[k], fr.hs[k].name,
                                        [tag |-> fr.hs[k].tag,
                                         bytes |-> fr.hs[k].bytes])
    BY <1>3
  <1>fa. fr.acc[1] = NoHeaders /\ E[f] = fr.acc[nh + 1]
    BY <1>3
  <1>fp. PayloadOf(fr) = SubSeq(m, o[nh + 1] + 1, Len(m) - 4)
    BY <1>3
  <1>fc. /\ (ChunkSigName \in DOMAIN fr.acc[nh + 1] /\ Len(PayloadOf(fr)) > 0)
              <=> f < Len(F)
         /\ f < Len(F) => F[f + 1].msg = PayloadOf(fr)
    BY <1>3
  <1>sd. decoded \in Seq(Entries(E)) /\ \A g \in 1 .. Len(decoded) : decoded[g] = E[g]
    BY <1>5
  <1>sh. status = "headers" =>
           /\ Len(decoded) = f - 1 /\ hdrEnd = o[nh + 1] /\ payload = PayloadOf(fr)
           /\ \E k \in 1 .. nh + 1 : i = o[k] /\ headers = fr.acc[k]
    BY <1>5
  <1> HIDE DEF F, E, fr, m, nh, o
  <1>6. CASE Prelude
    <2>1. status = "prelude" /\ headers = NoHeaders /\ Len(decoded) = f - 1
      BY <1>5, <1>6 DEF Prelude
    <2>2. o[nh + 1] \in Nat /\ nh + 1 \in 1 .. nh + 1
      BY <1>fh, <1>fo
    <2>3. Readable(msg, 0, 12) /\ Readable(msg, U32(msg, 0) - 4, 4)
      BY <1>fm DEF Readable
    <2>4. /\ hdrEnd' = 12 + U32(msg, 4)
          /\ payload' = SubArray(msg, 12 + U32(msg, 4), U32(msg, 0) - 4)
          /\ i' = 12 /\ status' = "headers"
          /\ UNCHANGED <<input, msg, headers, decoded>>
      BY <1>6, <2>3, Zenon DEF Prelude
    <2>5. SubArray(m, o[nh + 1], Len(m) - 4) = PayloadOf(fr)
      <3>1. Len(m) - 4 \in Nat /\ o[nh + 1] <= Len(m) - 4 /\ Len(m) - 4 <= Len(m)
        BY <1>fm, <1>fo
      <3>2. SubArray(m, o[nh + 1], Len(m) - 4) = SubSeq(m, o[nh + 1] + 1, Len(m) - 4)
        BY <1>fm, <2>2, <3>1, SubArrayInside
      <3>3. QED
        BY <3>2, <1>fp
    <2>6. /\ hdrEnd' = o[nh + 1] /\ payload' = PayloadOf(fr)
          /\ i' = o[1] /\ headers' = fr.acc[1]
          /\ status' = "headers" /\ msg' = m /\ decoded' = decoded
      BY <1>fm, <1>fo, <1>fa, <2>1, <2>4, <2>5
    <2>7. 1 \in 1 .. nh + 1
      BY <1>fh
    <2>8. AtFrame(f)'
      BY <1>0, <1>5, <2>1, <2>6, <2>7 DEF AtFrame, F, E, fr, m, nh, o
    <2>9. QED
      BY <1>2, <2>8
  <1>7. CASE DecodeHeader
    <2>1. PICK k \in 1 .. nh :
            /\ i' = o[k + 1] /\ headers' = fr.acc[k + 1]
            /\ status' = "headers"
            /\ UNCHANGED <<input, msg, hdrEnd, payload, decoded>>
      BY <1>1, <1>2, <1>7, HeaderLoopStep DEF F, fr, nh, o
    <2>2. /\ Len(decoded) = f - 1 /\ hdrEnd = o[nh + 1] /\ payload = PayloadOf(fr)
      BY <1>sh, <1>7 DEF DecodeHeader
    <2>3. k + 1 \in 1 .. nh + 1
      BY <2>1, <1>fh
    <2>4. AtFrame(f)'
      BY <1>0, <1>5, <2>1, <2>2, <2>3 DEF AtFrame, F, E, fr, m, nh, o
    <2>5. QED
      BY <1>2, <2>4
  <1>8. CASE EndHeaders
    <2>1. /\ status = "headers" /\ i >= hdrEnd
          /\ decoded' = Append(decoded, headers)
          /\ UNCHANGED <<input, i, hdrEnd, payload>>
      BY <1>8 DEF EndHeaders
    <2>2. /\ Len(decoded) = f - 1 /\ hdrEnd = o[nh + 1] /\ payload = PayloadOf(fr)
          /\ \E k \in 1 .. nh + 1 : i = o[k] /\ headers = fr.acc[k]
      BY <1>sh, <2>1
    <2>3. PICK k \in 1 .. nh + 1 : i = o[k] /\ headers = fr.acc[k]
      BY <2>2
    (* The loop left the section at its end: i is past the last header.   *)
    <2>4. k = nh + 1
      <3>1. SUFFICES ASSUME k \in 1 .. nh PROVE FALSE
        BY <1>fh
      <3>2. fr.hs[k] \in HeaderRec
        BY <1>fh, <3>1, ElementOfSeq
      <3>3. o[k] \in Nat /\ o[k + 1] \in Nat /\ o[nh + 1] \in Nat
        BY <1>fh, <1>fo, <3>1
      <3>4. o[k] < o[k + 1]
        <4>1. HeaderEnd(o[k], fr.hs[k]) > o[k]
          BY <3>2, <3>3, HeaderEndAfter
        <4>2. QED
          BY <1>fk, <3>1, <4>1
      <3>5. o[k + 1] <= o[nh + 1]
        BY <1>fh, <1>fo, <3>1
      <3>6. QED
        BY <2>1, <2>2, <2>3, <3>3, <3>4, <3>5
    <2>5. headers = E[f] /\ f \in 1 .. Len(E)
      BY <1>2, <1>4, <1>fa, <2>3, <2>4 DEF F
    <2>6. /\ decoded' \in Seq(Entries(E))
          /\ Len(decoded') = f
          /\ \A g \in 1 .. Len(decoded') : decoded'[g] = E[g]
      <3>1. E[f] \in Entries(E)
        BY <1>4, <2>5, LenProperties DEF Entries
      <3>2. Len(decoded) \in Nat
        BY <1>sd, LenProperties
      <3>3. QED
        BY <1>sd, <2>1, <2>2, <2>5, <3>1, <3>2, AppendProperties
    <2>7. (ChunkSigName \in DOMAIN headers /\ Len(payload) > 0) <=> f < Len(F)
      BY <1>fc, <2>2, <2>3, <2>4
    <2>8. CASE ChunkSigName \in DOMAIN headers /\ Len(payload) > 0
      <3>1. /\ msg' = F[f + 1].msg /\ status' = "prelude" /\ headers' = NoHeaders
        BY <1>fc, <1>8, <2>2, <2>7, <2>8 DEF EndHeaders, NestedMessage
      <3>2. f + 1 \in 1 .. Len(F) /\ Len(decoded') = (f + 1) - 1
        BY <1>4, <2>6, <2>7, <2>8
      <3>3. AtFrame(f + 1)'
        BY <1>0, <2>6, <3>1, <3>2 DEF AtFrame, F, E
      <3>4. QED
        BY <3>2, <3>3 DEF F
    <2>9. CASE ~(ChunkSigName \in DOMAIN headers /\ Len(payload) > 0)
      <3>1. msg' = msg /\ status' = "done"
        BY <1>8, <2>9 DEF EndHeaders
      <3>2. f = Len(F)
        BY <1>2, <1>4, <2>7, <2>9 DEF F
      <3>3. AtFrame(f)'
        BY <1>0, <1>5, <2>6, <3>1, <3>2 DEF AtFrame, F, E, fr, m, nh, o
      <3>4. QED
        BY <1>2, <3>3
    <2>10. QED
      BY <2>8, <2>9
  <1>9. CASE UNCHANGED vars
    <2>1. AtFrame(f)'
      BY <1>2, <1>9 DEF vars, AtFrame
    <2>2. QED
      BY <2>1
  <1>10. QED
    BY <1>6, <1>7, <1>8, <1>9 DEF Next

(***************************************************************************)
(* DecodeRoundTrip for every input set, encoder layout and frame bound:   *)
(* decode() on a message built by the event-stream encoder never throws,  *)
(* and when it returns it has produced, frame after frame of the          *)
(* :chunk-signature chain, exactly the headers encoded in each.           *)
(***************************************************************************)
THEOREM DecodesEncodedMessages == Spec => []DecodeRoundTrip
  <1>1. IInv => DecodeRoundTrip
    <2> SUFFICES ASSUME IInv, input \in DOMAIN Expected
                 PROVE  /\ status # "error"
                        /\ status = "done" => decoded = Expected[input]
      BY DEF DecodeRoundTrip
    <2>1. PICK f \in 1 .. Len(Frames[input]) : AtFrame(f)
      BY DEF IInv
    <2> DEFINE E == Expected[input]
    <2>2. /\ decoded \in Seq(Entries(E))
          /\ \A g \in 1 .. Len(decoded) : decoded[g] = E[g]
          /\ status \in {"prelude", "headers", "done"}
          /\ status = "done" => Len(decoded) = Len(Frames[input])
      BY <2>1 DEF AtFrame
    <2>3. E \in Seq(Entries(E)) /\ Len(E) = Len(Frames[input])
      BY EncodedInputs
    <2>4. status = "done" => decoded = E
      BY <2>2, <2>3, SeqEqual
    <2>5. QED
      BY <2>2, <2>4
  <1>2. QED
    BY <1>1, InitIInv, NextIInv, PTL DEF Spec

(***************************************************************************)
(* HeaderStepsInSection for every input set, encoder layout and frame     *)
(* bound: on a message the encoder built, every iteration of the header   *)
(* loop moves i strictly forward and never past the end of the headers    *)
(* section, although the loop never checks its offsets against that end.  *)
(***************************************************************************)
THEOREM HeaderLoopInSection == Spec => HeaderStepsInSection
  <1>1. Spec => []IInv
    BY InitIInv, NextIInv, PTL DEF Spec
  <1>2. IInv /\ [Next]_vars =>
          [(input \in DOMAIN Expected /\ status = "headers" /\ status' = "headers")
             => i < i' /\ i' <= hdrEnd]_vars
    <2> SUFFICES ASSUME IInv, Next, input \in DOMAIN Expected,
                        status = "headers", status' = "headers"
                 PROVE  i < i' /\ i' <= hdrEnd
      OBVIOUS
    <2>1. PICK f \in 1 .. Len(Frames[input]) : AtFrame(f)
      BY DEF IInv
    <2>2. ~Prelude /\ ~EndHeaders
      BY DEF Prelude, EndHeaders
    <2>3. DecodeHeader
      BY <2>2 DEF Next
    <2>4. QED
      BY <2>1, <2>3, HeaderLoopStep
  <1>3. QED
    BY <1>1, <1>2, PTL DEF Spec, HeaderStepsInSection

=============================================================================
