------------------------- MODULE MCPayloadSnapshot -------------------------
(***************************************************************************)
(* Bodies for PayloadSnapshot: the four bodies toStringAsync formats      *)
(* whole or rejects, and iterable and async iterable bodies of up to two  *)
(* chunks.  The byte chunks are event-stream messages built by the        *)
(* encoder of MCEventStreamDecode (a SigV4-signed event, the empty signed *)
(* frame that ends a signed stream, an unsigned event, an exception        *)
(* message), a signed event with its length overwritten, plain bytes, and *)
(* the bytes of an XML element <a:date>; the text chunks are a string, a  *)
(* string holding ":date" and a number.  Header names are one byte: 1 is   *)
(* ":chunk-signature", 2 ":content-type", 5 ":date", 6 ":message-type" and *)
(* 7 ":event-type".                                                        *)
(***************************************************************************)
EXTENDS PayloadSnapshot

(* The encoder of MCEventStreamDecode; its decoder is not used here.      *)
ES == INSTANCE MCEventStreamDecode
        WITH Inputs <- {}, ChunkSigName <- << >>, Expected <- << >>,
             Frames <- << >>, MaxFrames <- 0,
             input <- dInput, msg <- dMsg, status <- dStatus, i <- di,
             hdrEnd <- dHdrEnd, payload <- dPayload, headers <- dHeaders,
             decoded <- dDecoded

Date  == [name |-> <<5>>, tag |-> 8, bytes |-> [j \in 1 .. 8 |-> 0]]
MsgT  == [name |-> <<6>>, tag |-> 7, bytes |-> <<5>>]
EvT   == [name |-> <<7>>, tag |-> 7, bytes |-> <<5>>]

Event     == ES!Frame(<<MsgT, EvT>>, <<4>>, ES!NoInner)
Signed    == ES!Frame(<<Date, ES!Sig>>, Event.enc, Event)
SignedEnd == ES!Frame(<<Date, ES!Sig>>, <<>>, ES!NoInner)
Exception == ES!Frame(<<MsgT, ES!Ctyp>>, <<4>>, ES!NoInner)

MCChunkSig == ES!MCChunkSigName

Messages == {Event, Signed, SignedEnd, Exception}

MCExpected == [m \in {f.enc : f \in Messages} |->
                 (CHOOSE f \in Messages : f.enc = m).chain]

MCFrames == [m \in DOMAIN MCExpected |->
               (CHOOSE f \in Messages : f.enc = m).frames]

Bin(b, t) == [type |-> "Uint8Array", bytes |-> b, text |-> t]

Txt(ty, t) == [type |-> ty, bytes |-> <<>>, text |-> t]

MCChunks ==
  { Bin(Event.enc, {":message-type", ":event-type"}),
    Bin(Signed.enc, Markers),
    Bin(SignedEnd.enc, {":date", ":chunk-signature"}),
    Bin(Exception.enc, {":message-type"}),
    Bin([Signed.enc EXCEPT ![4] = 0], Markers),
    Bin(<<4, 4>>, {}),
    Bin(<<60, 97, 58, 100, 97, 116, 101, 62>>, {":date"}),
    Txt("string", {}),
    Txt("string", {":date"}),
    Txt("other", {}) }

MCBodies ==
  {[kind |-> kd, chunks |-> <<>>] : kd \in {"undefined", "string", "Uint8Array", "object"}}
    \cup {[kind |-> kd, chunks |-> cs] :
            kd \in Streams,
            cs \in {<<>>} \cup {<<c>> : c \in MCChunks} \cup {<<c, d>> : c, d \in MCChunks}}

=============================================================================
