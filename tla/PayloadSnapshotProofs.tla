------------------------ MODULE PayloadSnapshotProofs ------------------------
(***************************************************************************)
(* Proofs about PayloadSnapshot for every set of bodies and every encoder *)
(* layout satisfying EncodedInputs: toStringAsync never rejects a stream  *)
(* whose chunks are event-stream messages the encoder built, or chunks    *)
(* whose text has no event marker.                                         *)
(*                                                                         *)
(* The argument: a chunk goes to the decoder only when its text passes    *)
(* isEvent, so in such a stream it is an encoded message; the decoder's   *)
(* inductive invariant (EventStreamDecodeProofs' IInv, through an         *)
(* instance on the renamed variables) then says decode() never throws on  *)
(* it, and a string chunk never reaches the decoder.                       *)
(***************************************************************************)
EXTENDS PayloadSnapshot, SequenceTheorems, TLAPS

DP == INSTANCE EventStreamDecodeProofs
        WITH Inputs <- ByteChunks,
             input <- dInput, msg <- dMsg, status <- dStatus, i <- di,
             hdrEnd <- dHdrEnd, payload <- dPayload, headers <- dHeaders,
             decoded <- dDecoded

(* Every chunk of the body is an encoded message or has no event marker. *)
Good(x) ==
  \A j \in 1 .. Len(x.chunks) :
    Encoded(x.chunks[j]) \/ ~IsEvent(AsChunk(x.chunks[j]).text)

(* While a chunk is decoded, it is the next chunk, a Uint8Array whose     *)
(* text passed isEvent, and the decoder runs on its bytes.                *)
Decoding ==
  status = "decoding" =>
    /\ k < Len(body.chunks)
    /\ IsEvent(AsChunk(NextChunk).text)
    /\ NextChunk.type = "Uint8Array"
    /\ dInput = NextChunk.bytes

IInv ==
  /\ body \in Bodies
  /\ k \in 0 .. Len(body.chunks)
  /\ status \in {"start", "loop", "decoding", "resolved", "rejected"}
  /\ Decoding
  /\ DP!IInv
  /\ EncodedStreamsResolve

-----------------------------------------------------------------------------
(* The chunks of a body the call may be given are chunk records.          *)
LEMMA ChunkType ==
  ASSUME NEW x \in Bodies
  PROVE  /\ x.chunks \in Seq(Chunk)
         /\ \A j \in 1 .. Len(x.chunks) : x.chunks[j] \in Chunk
  BY PayloadAssumption

(* A chunk that passes isEvent in a good body is an encoded message, and  *)
(* so a Uint8Array that String() leaves alone.                             *)
LEMMA GoodEventChunk ==
  ASSUME NEW x \in Bodies, Good(x), NEW j \in 1 .. Len(x.chunks),
         IsEvent(AsChunk(x.chunks[j]).text)
  PROVE  /\ Encoded(x.chunks[j])
         /\ x.chunks[j].bytes \in DOMAIN Expected
         /\ AsChunk(x.chunks[j]).type = "Uint8Array"
  <1>1. Encoded(x.chunks[j])
    BY DEF Good
  <1>2. QED
    BY <1>1 DEF Encoded, AsChunk

(* The assumptions of the decoder's module hold of the constants it is   *)
(* instantiated with.                                                      *)
LEMMA DecoderAssumptions ==
  /\ \A x \in DOMAIN Expected :
       /\ Frames[x] \in Seq(DP!Entries(Frames[x])) /\ Len(Frames[x]) >= 1
       /\ Expected[x] \in Seq(DP!Entries(Expected[x]))
       /\ Len(Expected[x]) = Len(Frames[x])
       /\ Frames[x][1].msg = x
       /\ \A f \in 1 .. Len(Frames[x]) :
            /\ DP!FrameEncoded(Frames[x][f])
            /\ Expected[x][f] = DP!LastHeaders(Frames[x][f])
            /\ DP!Chained(Frames[x][f]) <=> f < Len(Frames[x])
            /\ f < Len(Frames[x]) => Frames[x][f + 1].msg = DP!PayloadOf(Frames[x][f])
  /\ ByteChunks \subseteq Seq(DP!Bytes)
  /\ ChunkSigName \in Seq(DP!Bytes)
  /\ MaxFrames \in Nat
  <1>1. ByteChunks \subseteq Seq(DP!Bytes)
    <2> SUFFICES ASSUME NEW x \in Bodies, NEW j \in 1 .. Len(x.chunks)
                 PROVE  x.chunks[j].bytes \in Seq(0 .. 255)
      BY DEF ByteChunks, DP!Bytes
    <2>1. x.chunks[j] \in Chunk
      BY ChunkType
    <2>2. QED
      BY <2>1 DEF Chunk
  <1>2. \A fr : DP!FrameEncoded(fr) <=> Dec!FrameEncoded(fr)
    BY DEF DP!FrameEncoded, Dec!FrameEncoded, DP!Bytes, Dec!Bytes,
           DP!HeaderRec, Dec!HeaderRec, DP!WireSize, Dec!WireSize,
           DP!LengthPrefixed, Dec!LengthPrefixed, DP!Uuid, Dec!Uuid,
           DP!U32, Dec!U32, DP!U16, Dec!U16, DP!EncodedHeader, Dec!EncodedHeader,
           DP!ValueOffset, Dec!ValueOffset, DP!HeaderEnd, Dec!HeaderEnd,
           DP!NoHeaders, Dec!NoHeaders, DP!SetKey, Dec!SetKey
  <1>3. /\ \A f : DP!Entries(f) = Dec!Entries(f)
        /\ \A fr : DP!LastHeaders(fr) = Dec!LastHeaders(fr)
        /\ \A fr : DP!PayloadOf(fr) = Dec!PayloadOf(fr)
        /\ \A fr : DP!Chained(fr) <=> Dec!Chained(fr)
    BY DEF DP!Entries, Dec!Entries, DP!LastHeaders, Dec!LastHeaders,
           DP!Chained, Dec!Chained, DP!PayloadOf, Dec!PayloadOf
  <1>4. QED
    BY <1>1, <1>2, <1>3, DecoderAssumption DEF DP!Bytes

(* The empty byte string is no encoded message: a frame has at least 16   *)
(* bytes.                                                                  *)
LEMMA EmptyNotEncoded == << >> \notin DOMAIN Expected
  <1> SUFFICES ASSUME << >> \in DOMAIN Expected PROVE FALSE
    OBVIOUS
  <1> DEFINE F == Frames[<< >>]
  <1>1. Len(F) >= 1 /\ F[1].msg = << >> /\ DP!FrameEncoded(F[1])
    BY DecoderAssumptions
  <1>2. Len(F[1].msg) >= 16
    BY <1>1 DEF DP!FrameEncoded
  <1>3. QED
    BY <1>1, <1>2

(* A step that leaves the decoder alone keeps its invariant.              *)
LEMMA DecoderIdle ==
  ASSUME DP!IInv, UNCHANGED decVars
  PROVE  DP!IInv'
  <1>1. UNCHANGED DP!vars
    BY DEF decVars, DP!vars
  <1>2. QED
    BY <1>1, DecoderAssumptions, DP!NextIInv

-----------------------------------------------------------------------------
LEMMA InitIInv == Init => IInv
  <1> SUFFICES ASSUME Init PROVE IInv
    OBVIOUS
  <1>1. body \in Bodies /\ body.chunks \in Seq(Chunk)
    BY ChunkType DEF Init
  <1>2. k \in 0 .. Len(body.chunks)
    BY <1>1 DEF Init
  <1>3. DP!IInv
    BY EmptyNotEncoded DEF Init, DP!IInv
  <1>4. QED
    BY <1>1, <1>2, <1>3 DEF Init, IInv, Decoding, EncodedStreamsResolve

(* A step of decode() in the composite is a step of the decoder's module. *)
LEMMA DecodeIsDecoderStep ==
  ASSUME Dec!Next
  PROVE  DP!Next /\ dInput' = dInput
  <1>1. DP!Next
    BY DEF Dec!Next, DP!Next, Dec!Prelude, DP!Prelude, Dec!DecodeHeader, DP!DecodeHeader,
           Dec!EndHeaders, DP!EndHeaders, Dec!HeaderValue, DP!HeaderValue,
           Dec!Readable, DP!Readable, Dec!U32, DP!U32, Dec!U16, DP!U16,
           Dec!SubArray, DP!SubArray, Dec!FixedSize, DP!FixedSize,
           Dec!LengthPrefixed, DP!LengthPrefixed, Dec!Uuid, DP!Uuid,
           Dec!SetKey, DP!SetKey, Dec!NoHeaders, DP!NoHeaders,
           Dec!NestedMessage, DP!NestedMessage
  <1>2. dInput' = dInput
    BY DEF Dec!Next, Dec!Prelude, Dec!DecodeHeader, Dec!EndHeaders
  <1>3. QED
    BY <1>1, <1>2

(* In a good stream, the decoder is never in error while a chunk is       *)
(* decoded: the chunk is an encoded message, on which decode() does not   *)
(* throw.                                                                  *)
LEMMA NoDecodeError ==
  ASSUME IInv, status = "decoding", Good(body)
  PROVE  dStatus # "error"
  <1>1. dInput \in DOMAIN Expected
    BY GoodEventChunk DEF IInv, Decoding, NextChunk
  <1>2. PICK f \in 1 .. Len(Frames[dInput]) : DP!AtFrame(f)
    BY <1>1 DEF IInv, DP!IInv
  <1>3. QED
    BY <1>2 DEF DP!AtFrame

-----------------------------------------------------------------------------
LEMMA NextIInv == IInv /\ [Next]_vars => IInv'
  <1> SUFFICES ASSUME IInv, [Next]_vars PROVE IInv'
    OBVIOUS
  <1>0. body \in Bodies /\ body.chunks \in Seq(Chunk)
          /\ \A j \in 1 .. Len(body.chunks) : body.chunks[j] \in Chunk
    BY ChunkType DEF IInv
  <1>1. CASE Dispatch
    <2>1. body.kind \in Streams => status' = "loop"
      BY <1>1 DEF Dispatch, Streams
    <2>2. DP!IInv'
      BY <1>1, DecoderIdle DEF Dispatch, IInv
    <2>3. QED
      BY <1>1, <2>1, <2>2 DEF Dispatch, IInv, Decoding, EncodedStreamsResolve
  <1>2. CASE SerializeB64
    <2>1. DP!IInv'
      BY <1>2, DecoderIdle DEF SerializeB64, IInv
    <2>2. QED
      BY <1>2, <2>1 DEF SerializeB64, IInv, Decoding, EncodedStreamsResolve
  <1>3. CASE StartDecode
    <2>1. CASE AsChunk(NextChunk).type = "string"
      <3>1. ~Good(body)
        BY <1>0, <1>3, <2>1, GoodEventChunk DEF StartDecode, NextChunk, IInv
      <3>2. DP!IInv'
        BY <1>3, <2>1, DecoderIdle DEF StartDecode, IInv
      <3>3. QED
        BY <1>3, <2>1, <3>1, <3>2 DEF StartDecode, IInv, Decoding,
                                      EncodedStreamsResolve, Good
    <2>2. CASE AsChunk(NextChunk).type # "string"
      <3>1. NextChunk \in Chunk
        BY <1>0, <1>3 DEF StartDecode, NextChunk, IInv
      <3>2. NextChunk.type = "Uint8Array"
        BY <2>2, <3>1 DEF AsChunk, Chunk
      <3>3. DP!IInv'
        <4> SUFFICES ASSUME dInput' \in DOMAIN Expected
                     PROVE  \E f \in 1 .. Len(Frames[dInput']) : DP!AtFrame(f)'
          BY DEF DP!IInv
        <4>1. Frames[dInput'][1].msg = dInput' /\ Len(Frames[dInput']) >= 1
          BY DecoderAssumptions
        <4>2. << >> \in Seq(DP!Entries(Expected[dInput'])) /\ Len(<< >>) = 0
          BY EmptySeq
        <4>3. DP!AtFrame(1)'
          BY <1>3, <2>2, <4>1, <4>2 DEF StartDecode, DP!AtFrame, DP!NoHeaders, Dec!NoHeaders
        <4>4. QED
          BY <4>1, <4>3
      <3>4. QED
        BY <1>3, <2>2, <3>2, <3>3 DEF StartDecode, IInv, Decoding, NextChunk,
                                      EncodedStreamsResolve
    <2>3. QED
      BY <2>1, <2>2
  <1>4. CASE Decode
    <2>1. DP!Next /\ dInput' = dInput
      BY <1>4, DecodeIsDecoderStep DEF Decode
    <2>2. DP!IInv'
      BY <2>1, DecoderAssumptions, DP!NextIInv DEF IInv
    <2>3. QED
      BY <1>4, <2>1, <2>2 DEF Decode, IInv, Decoding, NextChunk, EncodedStreamsResolve
  <1>5. CASE EndDecode
    <2>1. DP!IInv'
      BY <1>5, DecoderIdle DEF EndDecode, IInv
    <2>2. status' = "rejected" => ~Good(body) \/ body.kind \notin Streams
      BY <1>5, NoDecodeError DEF EndDecode
    <2>3. k' \in 0 .. Len(body.chunks)
      BY <1>5 DEF EndDecode, IInv, Decoding
    <2>4. QED
      BY <1>5, <2>1, <2>2, <2>3 DEF EndDecode, IInv, Decoding, EncodedStreamsResolve, Good
  <1>6. CASE Resolve
    <2>1. DP!IInv'
      BY <1>6, DecoderIdle DEF Resolve, IInv
    <2>2. QED
      BY <1>6, <2>1 DEF Resolve, IInv, Decoding, EncodedStreamsResolve
  <1>7. CASE UNCHANGED vars
    <2>1. DP!IInv'
      BY <1>7, DecoderIdle DEF vars, IInv
    <2>2. body' = body /\ status' = status /\ k' = k /\ dInput' = dInput
      BY <1>7 DEF vars, decVars
    <2>3. QED
      BY <2>1, <2>2 DEF IInv, Decoding, NextChunk, EncodedStreamsResolve
  <1>8. QED
    BY <1>1, <1>2, <1>3, <1>4, <1>5, <1>6, <1>7 DEF Next

(* A stream body whose chunks are all event-stream messages built by the  *)
(* encoder, or chunks whose text has no event marker, is never rejected by *)
(* toStringAsync: the decoder's inductive invariant shows decode() never  *)
(* throws on such a chunk (SnapshotPayloadSerializer.ts lines 55-70).      *)
THEOREM EncodedStreamsAlwaysResolve == Spec => []EncodedStreamsResolve
  <1>1. IInv => EncodedStreamsResolve
    BY DEF IInv
  <1>2. QED
    BY <1>1, InitIInv, NextIInv, PTL DEF Spec

=============================================================================
