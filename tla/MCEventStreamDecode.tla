------------------------- MODULE MCEventStreamDecode -------------------------
(***************************************************************************)
(* Inputs for EventStreamDecode: messages built by the event-stream       *)
(* encoding (headers of every kind of value, chunk-signature chains two   *)
(* frames deep), the header maps each of their frames must decode to, and  *)
(* copies of them with one byte overwritten.  Names are one byte: 1 is     *)
(* ":chunk-signature", 2 ":content-type", 3 and 4 other names; CRCs are 0. *)
(***************************************************************************)
EXTENDS EventStreamDecode

MCChunkSigName == <<1>>

Sig  == [name |-> <<1>>, tag |-> 6, bytes |-> <<9, 9>>]
Ctyp == [name |-> <<2>>, tag |-> 7, bytes |-> <<5>>]
Flag == [name |-> <<3>>, tag |-> 0, bytes |-> <<>>]
Num  == [name |-> <<3>>, tag |-> 3, bytes |-> <<0, 7>>]
Id   == [name |-> <<4>>, tag |-> 9, bytes |-> [k \in 1 .. 16 |-> 1]]

U32BE(n) == <<0, 0, n \div 256, n % 256>>

EncodeHeader(h) ==
  <<Len(h.name)>> \o h.name \o <<h.tag>> \o
    (IF h.tag \in LengthPrefixed
       THEN <<Len(h.bytes) \div 256, Len(h.bytes) % 256>> \o h.bytes
       ELSE h.bytes)

EncodeHeaders(hl) ==
  CASE Len(hl) = 0 -> <<>>
    [] Len(hl) = 1 -> EncodeHeader(hl[1])
    [] Len(hl) = 2 -> EncodeHeader(hl[1]) \o EncodeHeader(hl[2])

Encode(hl, body) ==
  LET hs == EncodeHeaders(hl)
  IN  U32BE(16 + Len(hs) + Len(body)) \o U32BE(Len(hs)) \o <<0, 0, 0, 0>>
        \o hs \o body \o <<0, 0, 0, 0>>

(* The value the last header of each name leaves in this.headers.         *)
HeaderMap(hl) ==
  [n \in {hl[k].name : k \in DOMAIN hl} |->
     LET k == CHOOSE k \in DOMAIN hl :
                hl[k].name = n /\ \A j \in DOMAIN hl : hl[j].name = n => j <= k
     IN  [tag |-> hl[k].tag, bytes |-> hl[k].bytes]]

Signed(hl) == \E k \in DOMAIN hl : hl[k].name = MCChunkSigName

(* The encoder's layout of a frame with header list hl and bytes m.      *)
Layout(hl, m) ==
  [msg |-> m, hs |-> hl,
   off |-> [k \in 1 .. Len(hl) + 1 |-> 12 + Len(EncodeHeaders(SubSeq(hl, 1, k - 1)))],
   acc |-> [k \in 1 .. Len(hl) + 1 |-> HeaderMap(SubSeq(hl, 1, k - 1))]]

(* A frame: its bytes, the header maps and the layouts of its chain.       *)
Frame(hl, body, inner) ==
  LET nested == Signed(hl) /\ Len(body) > 0
  IN  [enc    |-> Encode(hl, body),
       chain  |-> <<HeaderMap(hl)>> \o (IF nested THEN inner.chain ELSE <<>>),
       frames |-> <<Layout(hl, Encode(hl, body))>> \o
                    (IF nested THEN inner.frames ELSE <<>>)]

NoInner == [chain |-> <<>>, frames |-> <<>>]

HeaderLists ==
  {<<>>} \cup {<<h>> : h \in {Sig, Ctyp, Flag, Num}}
    \cup {<<g, h>> : g, h \in {Sig, Ctyp, Flag, Num}}

Inner == {Frame(hl, <<4>>, NoInner) : hl \in {<<>>, <<Ctyp>>, <<Flag, Num>>}}

Level1 ==
  {Frame(hl, b, NoInner) : hl \in {l \in HeaderLists : ~Signed(l)}, b \in {<<>>, <<4>>}}
    \cup {Frame(hl, <<>>, NoInner) : hl \in {l \in HeaderLists : Signed(l)}}
    \cup {Frame(hl, f.enc, f) : hl \in {l \in HeaderLists : Signed(l)}, f \in Inner}
    \cup {Frame(<<Id>>, <<>>, NoInner)}

Level2 ==
  {Frame(<<Sig>>, f.enc, f) :
     f \in {Frame(<<Sig, Ctyp>>, g.enc, g) : g \in Inner}}

WellFormed == Level1 \cup Level2

MCExpected == [m \in {f.enc : f \in WellFormed} |->
                 (CHOOSE f \in WellFormed : f.enc = m).chain]

MCFrames == [m \in DOMAIN MCExpected |->
               (CHOOSE f \in WellFormed : f.enc = m).frames]

(* Signed frames whose payload is not a message, so the inner decode       *)
(* throws, and a frame whose headers length covers its CRC, which ends in *)
(* a string header cut off by the end of the message.                      *)
BadInputs ==
  {Encode(<<Sig>>, <<4>>), Encode(<<Ctyp, Sig>>, <<4, 4>>),
   U32BE(16) \o U32BE(4) \o <<0, 0, 0, 0>> \o <<0, 0, 0, 7>>}

Corrupted(m) == {[m EXCEPT ![p] = v] : p \in DOMAIN m, v \in {0, 5, 100}}

MCInputs == DOMAIN MCExpected \cup BadInputs

MCCorruptedInputs ==
  MCInputs \cup UNION {Corrupted(m) : m \in {Encode(<<Flag, Num>>, <<4>>), Encode(<<Sig>>, Encode(<<Ctyp>>, <<4>>)), Encode(<<Id>>, <<>>)}}

=============================================================================
