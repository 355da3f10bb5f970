-------------------------- MODULE PayloadSnapshot --------------------------
(***************************************************************************)
(* SnapshotPayloadSerializer.toStringAsync() and serializeChunk()          *)
(* (snapshot-testing/src/serializers/SnapshotPayloadSerializer.ts), which *)
(* render a request body in a snapshot, composed with the event-stream    *)
(* decoder of EventStreamDecode.                                           *)
(*                                                                         *)
(* toStringAsync dispatches on the body: undefined, a string and a        *)
(* Uint8Array are formatted whole; an iterable or async iterable body is   *)
(* rendered chunk by chunk, in order, each chunk awaited before the next;  *)
(* any other body throws.  serializeChunk turns a chunk that is neither a  *)
(* Uint8Array nor a string into String(chunk), and sends it to            *)
(* new SnapshotEventStreamSerializer(chunk).toString() when its text      *)
(* passes isEvent, or renders it in base64 otherwise.  toString() runs    *)
(* decode() and prints the headers of the outer frame and of one inner    *)
(* frame.  A throw anywhere rejects the promise toStringAsync returns.    *)
(*                                                                         *)
(* Data is abstracted: a chunk is a record of its JavaScript type, its    *)
(* bytes (for a Uint8Array) and the event markers its UTF-8 text, or the  *)
(* text of String(chunk), contains; formatStringBody and formatBody,      *)
(* modelled in XmlFormat, and the base64 text are left out.               *)
(***************************************************************************)
EXTENDS Naturals, Sequences, FiniteSets

CONSTANTS
  Bodies,        \* the request bodies toStringAsync may be given
  ChunkSigName,  \* the bytes of ":chunk-signature" (for the decoder)
  Expected,      \* the header maps of the frames of each encoded message
  Frames,        \* the encoder's layout of each encoded message
  MaxFrames      \* bound on the frames of a :chunk-signature chain

(* The substrings isEvent looks for (lines 73-79).                         *)
Markers == {":message-type", ":event-type", ":date", ":chunk-signature"}

(* The kinds of body toStringAsync tells apart (lines 18-51).              *)
BodyKinds == {"undefined", "string", "Uint8Array", "iterable", "asyncIterable", "object"}

Streams == {"iterable", "asyncIterable"}

(* A chunk: "Uint8Array", "string" or any other JavaScript value.         *)
Chunk == [type : {"Uint8Array", "string", "other"}, bytes : Seq(0 .. 255),
          text : SUBSET Markers]

ASSUME PayloadAssumption ==
  /\ Bodies \subseteq [kind : BodyKinds, chunks : Seq(Chunk)]
  /\ \A x \in Bodies : x.kind \notin Streams => x.chunks = <<>>

(* The bytes of the Uint8Array chunks the decoder may be given.            *)
ByteChunks == UNION {{x.chunks[j].bytes : j \in 1 .. Len(x.chunks)} : x \in Bodies}

(* isEvent(utf8) (lines 73-79), on the markers the text contains; the     *)
(* "\n" that line 63 appends adds none.                                    *)
IsEvent(text) ==
  \/ {":message-type", ":event-type"} \subseteq text
  \/ ":date" \in text
  \/ ":chunk-signature" \in text

(* Mutant: toString() prints only the outer frame's headers.              *)
ShownOuterOnly(d) == SubSeq(d, 1, IF Len(d) < 1 THEN Len(d) ELSE 1)

(* The header maps toString() prints (lines 141-169): this.headers and,   *)
(* when there is an inner frame, inner.headers; deeper frames only show   *)
(* in the inner payload's text.                                            *)
Shown(d) == SubSeq(d, 1, IF Len(d) < 2 THEN Len(d) ELSE 2)

VARIABLES
  body,      \* this.r.body
  status,    \* "start", "loop", "decoding", "resolved" or "rejected"
  k,         \* the number of chunks serialized so far
  out,       \* the renderings appended to b, one per chunk
  dInput, dMsg, dStatus, di, dHdrEnd, dPayload, dHeaders, dDecoded
             \* the decoder of the chunk being serialized

decVars == <<dInput, dMsg, dStatus, di, dHdrEnd, dPayload, dHeaders, dDecoded>>

vars == <<body, status, k, out, decVars>>

Dec == INSTANCE EventStreamDecode
         WITH Inputs <- ByteChunks,
              input <- dInput, msg <- dMsg, status <- dStatus, i <- di,
              hdrEnd <- dHdrEnd, payload <- dPayload, headers <- dHeaders,
              decoded <- dDecoded

(* The decoder's assumptions, on the constants passed to it: every       *)
(* encoded message is the first frame of an encoded :chunk-signature      *)
(* chain (EventStreamDecode's EncodedInputs).                              *)
ASSUME DecoderAssumption ==
  /\ ChunkSigName \in Seq(0 .. 255)
  /\ MaxFrames \in Nat
  /\ \A x \in DOMAIN Expected :
       /\ Frames[x] \in Seq(Dec!Entries(Frames[x])) /\ Len(Frames[x]) >= 1
       /\ Expected[x] \in Seq(Dec!Entries(Expected[x]))
       /\ Len(Expected[x]) = Len(Frames[x])
       /\ Frames[x][1].msg = x
       /\ \A f \in 1 .. Len(Frames[x]) :
            /\ Dec!FrameEncoded(Frames[x][f])
            /\ Expected[x][f] = Dec!LastHeaders(Frames[x][f])
            /\ Dec!Chained(Frames[x][f]) <=> f < Len(Frames[x])
            /\ f < Len(Frames[x]) => Frames[x][f + 1].msg = Dec!PayloadOf(Frames[x][f])

Init ==
  /\ body \in Bodies
  /\ status = "start"
  /\ k = 0
  /\ out = <<>>
  /\ dInput = <<>> /\ dMsg = <<>> /\ dStatus = "idle" /\ di = 0
  /\ dHdrEnd = 0 /\ dPayload = <<>> /\ dHeaders = Dec!NoHeaders /\ dDecoded = <<>>

(***************************************************************************)
(* Lines 17-51: an undefined, string or Uint8Array body is formatted and  *)
(* returned; an iterable or async iterable one starts the chunk loop; any  *)
(* other body throws "cannot serialize ... without iterator".             *)
(***************************************************************************)
Dispatch ==
  /\ status = "start"
  /\ status' = CASE body.kind \in {"undefined", "string", "Uint8Array"} -> "resolved"
                 [] body.kind \in Streams -> "loop"
                 [] OTHER -> "rejected"
  /\ UNCHANGED <<body, k, out, decVars>>

(* The chunk the loop reads next (lines 37 and 46).                        *)
NextChunk == body.chunks[k + 1]

(* Line 61: String(chunk) for a chunk that is neither bytes nor a string.  *)
AsChunk(c) == IF c.type = "other" THEN [c EXCEPT !.type = "string"] ELSE c

(***************************************************************************)
(* serializeChunk on a chunk whose text fails isEvent: the base64 view is *)
(* appended to b (lines 68-70).                                            *)
(***************************************************************************)
SerializeB64 ==
  /\ status = "loop"
  /\ k < Len(body.chunks)
  /\ ~IsEvent(AsChunk(NextChunk).text)
  /\ out' = Append(out, [view |-> "b64", chunk |-> k + 1])
  /\ k' = k + 1
  /\ UNCHANGED <<body, status, decVars>>

(***************************************************************************)
(* serializeChunk on a chunk whose text passes isEvent (lines 64-66): a   *)
(* string has no .buffer, so decode()'s new DataView(undefined, ...)      *)
(* throws a TypeError; a Uint8Array starts decode() on its bytes, from the *)
(* state of a new serializer (EventStreamDecode's Init with that input).  *)
(***************************************************************************)
StartDecode ==
  /\ status = "loop"
  /\ k < Len(body.chunks)
  /\ IsEvent(AsChunk(NextChunk).text)
  /\ IF AsChunk(NextChunk).type = "string"
       THEN /\ status' = "rejected"
            /\ UNCHANGED decVars
       ELSE /\ status' = "decoding"
            /\ dInput' = NextChunk.bytes /\ dMsg' = NextChunk.bytes
            /\ dStatus' = "prelude" /\ di' = 0 /\ dHdrEnd' = 0
            /\ dPayload' = <<>> /\ dHeaders' = Dec!NoHeaders /\ dDecoded' = <<>>
  /\ UNCHANGED <<body, k, out>>

(* One step of decode() (EventStreamDecode's Next).                        *)
Decode ==
  /\ status = "decoding"
  /\ Dec!Next
  /\ UNCHANGED <<body, status, k, out>>

(***************************************************************************)
(* decode() returned: toString()'s event-stream view is appended to b;    *)
(* decode() threw: the exception rejects serializeChunk and toStringAsync. *)
(***************************************************************************)
EndDecode ==
  /\ status = "decoding"
  /\ dStatus \in {"done", "error"}
  /\ IF dStatus = "done"
       THEN /\ out' = Append(out, [view |-> "event", chunk |-> k + 1,
                                   headers |-> Shown(dDecoded)])
            /\ k' = k + 1
            /\ status' = "loop"
       ELSE /\ status' = "rejected"
            /\ UNCHANGED <<k, out>>
  /\ UNCHANGED <<body, decVars>>

(* The iterator is done: toStringAsync resolves with [header, b] (line 52). *)
Resolve ==
  /\ status = "loop"
  /\ k = Len(body.chunks)
  /\ status' = "resolved"
  /\ UNCHANGED <<body, k, out, decVars>>

Next == Dispatch \/ SerializeB64 \/ StartDecode \/ Decode \/ EndDecode \/ Resolve

(* The chunks are awaited one after another; nothing else runs meanwhile. *)
Spec == Init /\ [][Next]_vars /\ WF_vars(Next)

(* The type invariant.                                                     *)
TypeOK ==
  /\ body \in Bodies
  /\ status \in {"start", "loop", "decoding", "resolved", "rejected"}
  /\ k \in 0 .. Len(body.chunks)
  /\ DOMAIN out = 1 .. Len(out)
  /\ \A j \in 1 .. Len(out) : out[j].view \in {"b64", "event"} /\ out[j].chunk \in Nat

-----------------------------------------------------------------------------
(* A chunk that is an event-stream message the encoder built.              *)
Encoded(c) == c.type = "Uint8Array" /\ c.bytes \in DOMAIN Expected

(***************************************************************************)
(* A resolved snapshot of a stream holds one rendering per chunk, in the  *)
(* order the iterator yielded them.  An event-stream message the encoder  *)
(* built whose text names :date or :chunk-signature (a SigV4-signed       *)
(* frame), or both :message-type and :event-type (an event), is shown in  *)
(* the event-stream view with exactly the headers encoded in its outer    *)
(* frame and, when it signs an inner message, in that message (the        *)
(* comment at SnapshotEventStreamSerializer.ts line 134); any other one   *)
(* is shown in base64.                                                     *)
(***************************************************************************)
SnapshotShowsChunks ==
  status = "resolved" /\ body.kind \in Streams =>
    /\ Len(out) = Len(body.chunks)
    /\ \A j \in 1 .. Len(out) :
         LET c == body.chunks[j]
             E == Expected[c.bytes]
         IN  /\ out[j].chunk = j
             /\ Encoded(c) =>
                  IF \/ ":date" \in c.text \/ ":chunk-signature" \in c.text
                     \/ {":message-type", ":event-type"} \subseteq c.text
                    THEN /\ out[j].view = "event"
                         /\ out[j].headers[1] = E[1]
                         /\ Len(E) >= 2 => /\ Len(out[j].headers) = 2
                                            /\ out[j].headers[2] = E[2]
                    ELSE out[j].view = "b64"

(***************************************************************************)
(* A stream whose chunks are all event-stream messages the encoder built, *)
(* or chunks whose text has no event marker, is serialized without an     *)
(* exception: toStringAsync never rejects on it.                           *)
(***************************************************************************)
EncodedStreamsResolve ==
  /\ body.kind \in Streams
  /\ \A j \in 1 .. Len(body.chunks) :
       Encoded(body.chunks[j]) \/ ~IsEvent(AsChunk(body.chunks[j]).text)
  => status # "rejected"

(***************************************************************************)
(* serializeChunk turns any chunk that is not a Uint8Array into a string  *)
(* (lines 60-62) to render it: a stream of strings and other values is    *)
(* serialized without an exception.                                        *)
(***************************************************************************)
TextChunksSerialize ==
  /\ body.kind \in Streams
  /\ \A j \in 1 .. Len(body.chunks) : body.chunks[j].type # "Uint8Array"
  => status # "rejected"

=============================================================================
