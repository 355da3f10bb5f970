-------------------------- MODULE EventStreamDecode --------------------------
(***************************************************************************)
(* SnapshotEventStreamSerializer.decode()                                 *)
(* (snapshot-testing/src/serializers/SnapshotEventStreamSerializer.ts),   *)
(* which renders an event-stream message in a snapshot.                   *)
(*                                                                         *)
(* A message is a sequence of bytes: a 12-byte prelude (total length,     *)
(* headers length, prelude CRC, big-endian uint32s), the headers, the     *)
(* payload and a 4-byte message CRC.  decode() reads the prelude, then    *)
(* loops over the headers reading through a DataView of the whole message *)
(* (which throws a RangeError past its end, while subarray() clamps), and *)
(* decodes the payload again as a nested message when a :chunk-signature  *)
(* header is present and the payload is not empty.  An inner decode runs  *)
(* after the outer loop ended, so the nesting is a chain of frames.       *)
(*                                                                         *)
(* Data is abstracted: a header name is its byte string (toUtf8 is        *)
(* injective on the names used), a header value is its type tag and the   *)
(* bytes it was read from (each DataView getter is injective on them).    *)
(* formatBody(payload), which only renders text, is left out.             *)
(***************************************************************************)
EXTENDS Naturals, Sequences, TLC

CONSTANTS
  Inputs,        \* the messages decode() may be called on
  ChunkSigName,  \* the bytes of ":chunk-signature"
  Expected,      \* for well-formed inputs, the header maps of every frame
  Frames,        \* for well-formed inputs, the encoder's layout of every frame
  MaxFrames      \* bound on the frames of the chain (never reached: see below)

Bytes == 0 .. 255

ASSUME EventStreamAssumption ==
  /\ Inputs \subseteq Seq(Bytes)
  /\ ChunkSigName \in Seq(Bytes)
  /\ MaxFrames \in Nat

(* Uint8Array.subarray(b, e): clamped to the array, empty when e <= b.    *)
SubArray(s, b, e) ==
  LET lo == IF b < Len(s) THEN b ELSE Len(s)
      hi == IF e < Len(s) THEN e ELSE Len(s)
  IN  IF hi <= lo THEN <<>> ELSE SubSeq(s, lo + 1, hi)

(* DataView.getUint16 / getUint32 at a byte offset, big-endian.           *)
U16(s, k) == s[k + 1] * 256 + s[k + 2]

U32(s, k) == ((s[k + 1] * 256 + s[k + 2]) * 256 + s[k + 3]) * 256 + s[k + 4]

(* Mutant: the bound test is off by one and refuses a read that ends     *)
(* at the last byte.                                                       *)
ReadableStrict(s, k, n) == k >= 0 /\ k + n < Len(s)

(* A DataView read of n bytes at offset k is within the view.             *)
Readable(s, k, n) == k >= 0 /\ k + n <= Len(s)

(* Mutant: a short is skipped as if it were an integer.                   *)
FixedSizeShortAsInt ==
  [t \in {0, 1, 2, 3, 4, 5, 8} |->
     CASE t \in {0, 1} -> 0 [] t = 2 -> 1 [] t \in {3, 4} -> 4 [] t \in {5, 8} -> 8]

(* Bytes of the value of the header types read with a fixed-size getter: *)
(* boolean true/false (0, 1), byte, short, integer, long, timestamp.      *)
FixedSize ==
  [t \in {0, 1, 2, 3, 4, 5, 8} |->
     CASE t \in {0, 1} -> 0 [] t = 2 -> 1 [] t = 3 -> 2 [] t = 4 -> 4 [] t \in {5, 8} -> 8]

(* Types whose value is a uint16 length and that many bytes: binary, string. *)
LengthPrefixed == {6, 7}

(* uuid: 16 bytes taken with subarray, which never throws.                *)
Uuid == 9

(* this.headers[name] = value: a new key is added, an old one overwritten. *)
SetKey(h, k, v) == [n \in DOMAIN h \cup {k} |-> IF n = k THEN v ELSE h[n]]

NoHeaders == [n \in {} |-> 0]

VARIABLES
  input,     \* the message decode() was called on
  msg,       \* the message of the frame being decoded
  status,    \* "prelude", "headers", "done" or "error" (an exception)
  i,         \* the loop's byte offset
  hdrEnd,    \* 12 + headersByteLength
  payload,   \* message.subarray(12 + headersByteLength, totalByteLength - 4)
  headers,   \* this.headers of the frame being decoded
  decoded    \* the header maps of the frames decoded so far, outermost first

vars == <<input, msg, status, i, hdrEnd, payload, headers, decoded>>

Init ==
  /\ input \in Inputs
  /\ msg = input
  /\ status = "prelude"
  /\ i = 0
  /\ hdrEnd = 0
  /\ payload = <<>>
  /\ headers = NoHeaders
  /\ decoded = <<>>

(***************************************************************************)
(* Lines 24-40: the prelude is read with getUint32 at 0, 4 and 8, the     *)
(* payload is cut out, and the message CRC is read with getUint32 at      *)
(* totalByteLength - 4; each getUint32 throws outside the message.        *)
(***************************************************************************)
Prelude ==
  /\ status = "prelude"
  /\ IF Readable(msg, 0, 12) /\ Readable(msg, U32(msg, 0) - 4, 4)
       THEN /\ hdrEnd' = 12 + U32(msg, 4)
            /\ payload' = SubArray(msg, 12 + U32(msg, 4), U32(msg, 0) - 4)
            /\ i' = 12
            /\ status' = "headers"
       ELSE /\ status' = "error"
            /\ UNCHANGED <<i, hdrEnd, payload>>
  /\ UNCHANGED <<input, msg, headers, decoded>>

(***************************************************************************)
(* One iteration of the header loop (lines 41-129): the name length byte, *)
(* the name (a clamped subarray), the type byte, then the value by type.  *)
(***************************************************************************)
HeaderValue(nameEnd, type) ==
  LET k == nameEnd + 1
  IN  \/ /\ type \in DOMAIN FixedSize
         /\ IF Readable(msg, k, FixedSize[type])
              THEN /\ i' = k + FixedSize[type]
                   /\ status' = "headers"
                   /\ headers' = SetKey(headers, SubArray(msg, i + 1, nameEnd),
                                   [tag |-> type,
                                    bytes |-> SubArray(msg, k, k + FixedSize[type])])
              ELSE /\ status' = "error"
                   /\ UNCHANGED <<i, headers>>
      \/ /\ type \in LengthPrefixed
         /\ IF Readable(msg, k, 2)
              THEN /\ i' = k + 2 + U16(msg, k)
                   /\ status' = "headers"
                   /\ headers' = SetKey(headers, SubArray(msg, i + 1, nameEnd),
                                   [tag |-> type,
                                    bytes |-> SubArray(msg, k + 2, k + 2 + U16(msg, k))])
              ELSE /\ status' = "error"
                   /\ UNCHANGED <<i, headers>>
      \/ /\ type = Uuid
         /\ i' = k + 16
         /\ status' = "headers"
         /\ headers' = SetKey(headers, SubArray(msg, i + 1, nameEnd),
                              [tag |-> type, bytes |-> SubArray(msg, k, k + 16)])
      \/ /\ type \notin DOMAIN FixedSize \cup LengthPrefixed \cup {Uuid}
         /\ status' = "error"
         /\ UNCHANGED <<i, headers>>

DecodeHeader ==
  /\ status = "headers"
  /\ i < hdrEnd
  /\ IF Readable(msg, i, 1) /\ Readable(msg, i + 1 + msg[i + 1], 1)
       THEN HeaderValue(i + 1 + msg[i + 1], msg[i + 2 + msg[i + 1]])
       ELSE /\ status' = "error"
            /\ UNCHANGED <<i, headers>>
  /\ UNCHANGED <<input, msg, hdrEnd, payload, decoded>>

(* Mutant: the inner serializer is given the whole message.               *)
NestedWholeMessage == msg

(***************************************************************************)
(* Lines 132-138: the loop is over; a frame with a :chunk-signature header *)
(* and a non-empty payload decodes its payload as an inner message.  The  *)
(* chain never reaches MaxFrames: a payload is shorter than its frame by  *)
(* at least 16 bytes.                                                      *)
(***************************************************************************)

NestedMessage == payload

EndHeaders ==
  /\ status = "headers"
  /\ i >= hdrEnd
  /\ Len(decoded) < MaxFrames
  /\ decoded' = Append(decoded, headers)
  /\ IF ChunkSigName \in DOMAIN headers /\ Len(payload) > 0
       THEN /\ msg' = NestedMessage
            /\ status' = "prelude"
            /\ headers' = NoHeaders
       ELSE /\ status' = "done"
            /\ UNCHANGED <<msg, headers>>
  /\ UNCHANGED <<input, i, hdrEnd, payload>>

Next == Prelude \/ DecodeHeader \/ EndHeaders

(* decode() is synchronous: it runs to its end or throws.                  *)
Spec == Init /\ [][Next]_vars /\ WF_vars(Next)

-----------------------------------------------------------------------------
(***************************************************************************)
(* What the event-stream encoder writes (its code is not under src/).     *)
(* A header h = [name, tag, bytes] starting at offset p is the name       *)
(* length byte, the name, the type tag, a uint16 length for binary and    *)
(* string values, and the value bytes.  A frame's layout lists its        *)
(* headers, the offset where each starts (off[n + 1] is the end of the    *)
(* headers section) and this.headers after each of them (acc).            *)
(***************************************************************************)
(* The value sizes of the fixed-size types in the wire format.            *)
WireSize ==
  [t \in {0, 1, 2, 3, 4, 5, 8} |->
     CASE t \in {0, 1} -> 0 [] t = 2 -> 1 [] t = 3 -> 2 [] t = 4 -> 4 [] t \in {5, 8} -> 8]

HeaderRec == [name : Seq(Bytes), tag : DOMAIN WireSize \cup LengthPrefixed \cup {Uuid},
              bytes : Seq(Bytes)]

ValueOffset(p, h) == p + 2 + Len(h.name) + (IF h.tag \in LengthPrefixed THEN 2 ELSE 0)

HeaderEnd(p, h) == ValueOffset(p, h) + Len(h.bytes)

EncodedHeader(m, p, h) ==
  /\ m[p + 1] = Len(h.name)
  /\ SubSeq(m, p + 2, p + 1 + Len(h.name)) = h.name
  /\ m[p + 2 + Len(h.name)] = h.tag
  /\ h.tag \in LengthPrefixed => U16(m, p + 2 + Len(h.name)) = Len(h.bytes)
  /\ h.tag \in DOMAIN WireSize => Len(h.bytes) = WireSize[h.tag]
  /\ h.tag = Uuid => Len(h.bytes) = 16
  /\ SubSeq(m, ValueOffset(p, h) + 1, HeaderEnd(p, h)) = h.bytes

Entries(f) == {f[k] : k \in DOMAIN f}

LastHeaders(fr) == fr.acc[Len(fr.hs) + 1]

PayloadOf(fr) == SubSeq(fr.msg, fr.off[Len(fr.hs) + 1] + 1, Len(fr.msg) - 4)

Chained(fr) == ChunkSigName \in DOMAIN LastHeaders(fr) /\ Len(PayloadOf(fr)) > 0

FrameEncoded(fr) ==
  LET m == fr.msg
      n == Len(fr.hs)
  IN  /\ m \in Seq(Bytes) /\ fr.hs \in Seq(HeaderRec) /\ fr.off \in Seq(Nat)
      /\ Len(fr.off) = n + 1
      /\ Len(m) >= 16 /\ U32(m, 0) = Len(m)
      /\ fr.off[1] = 12 /\ 12 + U32(m, 4) = fr.off[n + 1]
      /\ \A k \in 1 .. n + 1 : fr.off[k] <= fr.off[n + 1]
      /\ fr.off[n + 1] <= Len(m) - 4
      /\ \A k \in 1 .. n : /\ EncodedHeader(m, fr.off[k], fr.hs[k])
                           /\ fr.off[k + 1] = HeaderEnd(fr.off[k], fr.hs[k])
      /\ fr.acc[1] = NoHeaders
      /\ \A k \in 1 .. n :
           fr.acc[k + 1] = SetKey(fr.acc[k], fr.hs[k].name,
                                  [tag |-> fr.hs[k].tag, bytes |-> fr.hs[k].bytes])

(* Each well-formed input is the first frame of an encoded chain: a frame *)
(* is followed by the frame its payload holds exactly when it is signed  *)
(* and its payload is not empty, and Expected lists each frame's headers.*)
ASSUME EncodedInputs ==
  \A x \in DOMAIN Expected :
    LET F == Frames[x]
    IN  /\ F \in Seq(Entries(F)) /\ Len(F) >= 1
        /\ Expected[x] \in Seq(Entries(Expected[x])) /\ Len(Expected[x]) = Len(F)
        /\ F[1].msg = x
        /\ \A f \in 1 .. Len(F) :
             /\ FrameEncoded(F[f])
             /\ Expected[x][f] = LastHeaders(F[f])
             /\ Chained(F[f]) <=> f < Len(F)
             /\ f < Len(F) => F[f + 1].msg = PayloadOf(F[f])

-----------------------------------------------------------------------------
(***************************************************************************)
(* A message built by the event-stream encoder decodes without an        *)
(* exception, and every frame of the chunk-signature chain yields exactly *)
(* the headers that were encoded in it: the offsets of the header loop    *)
(* advance by each type's real size.                                       *)
(***************************************************************************)
DecodeRoundTrip ==
  input \in DOMAIN Expected =>
    /\ status # "error"
    /\ status = "done" => decoded = Expected[input]

(***************************************************************************)
(* The header loop of lines 41-129 never checks an offset against the end *)
(* of the headers section (line 41 only compares i with it).  On a        *)
(* message the encoder built, each iteration still moves i strictly      *)
(* forward and never past 12 + headersByteLength: the name length, the    *)
(* skip of each fixed-size type and the uint16 value lengths add up to    *)
(* exactly the encoded headers.                                            *)
(***************************************************************************)
HeaderStepsInSection ==
  [][(input \in DOMAIN Expected /\ status = "headers" /\ status' = "headers")
         => i < i' /\ i' <= hdrEnd]_vars

(***************************************************************************)
(* decode() ends, returning or throwing, on every input: the header loop  *)
(* advances, and a nested message is strictly shorter than its frame.    *)
(***************************************************************************)
DecodeTerminates == <>(status \in {"done", "error"})

(***************************************************************************)
(* The header loop reads headers only from the headers section that the  *)
(* prelude declares: line 33 cuts that section out as `headers`, so a      *)
(* completed decode has stopped exactly at its end.                        *)
(***************************************************************************)
HeadersWithinSection ==
  status = "headers" /\ i >= hdrEnd => i = hdrEnd

=============================================================================
