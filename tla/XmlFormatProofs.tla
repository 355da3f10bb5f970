-------------------------- MODULE XmlFormatProofs --------------------------
(***************************************************************************)
(* Proofs about XmlFormat for every set of bodies that satisfies          *)
(* WellFormedXml: the type invariant, and that formatting a well-formed   *)
(* body never reaches the RangeError of " ".repeat at a closing tag.      *)
(*                                                                         *)
(* The argument: while the loop runs over a well-formed body, indentation *)
(* is four times the depth of the next character, less four while the    *)
(* loop is inside an opening tag that is not self-closing or inside a     *)
(* closing tag (these are the tags whose ">" raises it).  At a "</" the   *)
(* loop is between tags, so indentation - 4 is four times the depth less  *)
(* one, which Balanced says is not negative.                               *)
(***************************************************************************)
EXTENDS XmlFormat, FiniteSetTheorems, SequenceTheorems, TLAPS

(* The tags whose ">" raises the indentation.                              *)
Counted(s, p) == IsCloseTag(s, p) \/ (IsOpenTag(s, p) /\ ~SelfClosing(s, p))

(* Position k lies in a tag that is counted and that its ">" has not ended. *)
InCountedTag(s, k) ==
  \E p \in 1 .. k : Counted(s, p) /\ \A r \in p .. k : s[r] # ">"

(* The indentation while the loop runs over a well-formed body.           *)
IndentInv ==
  xml \in WellFormed /\ status = "loop" =>
    indentation = Indent * Depth(xml, i + 1)
                    - (IF InCountedTag(xml, i) THEN Indent ELSE 0)

(* repeat is given a count of at least -4 (only the "</" branch subtracts). *)
IndentBound == indentation >= -Indent

IInv ==
  /\ TypeOK
  /\ IndentBound
  /\ IndentInv
  /\ NeverThrows

-----------------------------------------------------------------------------
(* The characters of a body, and the lines the loop builds, are strings.  *)
(* xml[k], xml[k - 1] and xml[k + 1] in the loop, at 0-based k.          *)
LEMMA CharAtIndex ==
  ASSUME NEW s \in Seq(Chars), NEW k \in 0 .. Len(s) - 1
  PROVE  /\ CharAt(s, k) = s[k + 1]
         /\ k >= 1 => CharAt(s, k - 1) = s[k]
         /\ CharAt(s, k + 1) = "/" => k + 1 < Len(s) /\ s[k + 2] = "/"
  <1>1. CharAt(s, k) = s[k + 1]
    <2>1. 0 <= k /\ k < Len(s)
      OBVIOUS
    <2>2. QED
      BY <2>1, Zenon DEF CharAt
  <1>2. k >= 1 => CharAt(s, k - 1) = s[k]
    <2> HAVE k >= 1
    <2>1. 0 <= k - 1 /\ k - 1 < Len(s) /\ (k - 1) + 1 = k
      OBVIOUS
    <2>2. QED
      BY <2>1, Zenon DEF CharAt
  <1>3. CharAt(s, k + 1) = "/" => k + 1 < Len(s) /\ s[k + 2] = "/"
    <2> HAVE CharAt(s, k + 1) = "/"
    <2>1. CASE k + 1 < Len(s)
      BY <2>1 DEF CharAt
    <2>2. CASE ~(k + 1 < Len(s))
      <3>1. CharAt(s, k + 1) = ""
        BY <2>2 DEF CharAt
      <3>2. QED
        BY <3>1
    <2>3. QED
      BY <2>1, <2>2
  <1>4. QED
    BY <1>1, <1>2, <1>3

LEMMA SpacesType ==
  ASSUME NEW n \in Nat
  PROVE  Spaces(n) \in Seq(Chars)
  BY IsASeq DEF Spaces, Chars

LEMMA AddToLineType ==
  ASSUME NEW lines \in Seq(Seq(Chars)), lines # <<>>, NEW t \in Seq(Chars)
  PROVE  /\ AddToLine(lines, t) \in Seq(Seq(Chars))
         /\ AddToLine(lines, t) # <<>>
  <1>1. Len(lines) \in 1 .. Len(lines) /\ lines[Len(lines)] \o t \in Seq(Chars)
    BY EmptySeq, LenProperties, ElementOfSeq, ConcatProperties
  <1>2. QED
    BY <1>1, ExceptSeq, EmptySeq DEF AddToLine

-----------------------------------------------------------------------------
(* Type correctness needs the lower bound on indentation: the ">" branch *)
(* calls repeat with indentation + 4, which is then never negative.       *)
TypeInv == TypeOK /\ IndentBound

LEMMA InitTypeInv == Init => TypeInv
  BY XmlFormatAssumption DEF Init, TypeInv, TypeOK, IndentBound, NoResult, Indent

LEMMA NextTypeInv == TypeInv /\ [Next]_vars => TypeInv'
  <1> SUFFICES ASSUME TypeInv, [Next]_vars PROVE TypeInv'
    OBVIOUS
  <1>1. xml \in Seq(Chars) /\ i \in 0 .. Len(xml) /\ indentation \in Int
    BY XmlFormatAssumption DEF TypeInv, TypeOK
  <1>2. CASE Step
    <2>1. CharAt(xml, i) \in Chars /\ <<CharAt(xml, i)>> \in Seq(Chars)
      BY <1>1, <1>2 DEF Step, CharAt
    <2>2. b \in Seq(Seq(Chars)) /\ b # <<>> /\ indentation >= -Indent
      BY DEF TypeInv, TypeOK, IndentBound
    <2>3. AddToLine(b, <<CharAt(xml, i)>>) \in Seq(Seq(Chars)) /\ AddToLine(b, <<CharAt(xml, i)>>) # <<>>
      BY <2>1, <2>2, AddToLineType
    <2>4. /\ Append(AddToLine(b, <<CharAt(xml, i)>>), <<>>) \in Seq(Seq(Chars))
          /\ Append(AddToLine(b, <<CharAt(xml, i)>>), <<>>) # <<>>
          /\ Append(AddToLine(b, <<CharAt(xml, i)>>), Spaces(indentation + Indent)) \in Seq(Seq(Chars))
          /\ Append(AddToLine(b, <<CharAt(xml, i)>>), Spaces(indentation + Indent)) # <<>>
      <3>1. indentation + Indent \in Nat
        BY <1>1, <2>2 DEF Indent
      <3>2. Spaces(indentation + Indent) \in Seq(Chars) /\ <<>> \in Seq(Chars)
        BY <3>1, SpacesType, EmptySeq
      <3>3. /\ Append(AddToLine(b, <<CharAt(xml, i)>>), <<>>) \in Seq(Seq(Chars))
            /\ Append(AddToLine(b, <<CharAt(xml, i)>>), <<>>) # <<>>
        BY <3>2, <2>3, AppendProperties
      <3>4. /\ Append(AddToLine(b, <<CharAt(xml, i)>>), Spaces(indentation + Indent)) \in Seq(Seq(Chars))
            /\ Append(AddToLine(b, <<CharAt(xml, i)>>), Spaces(indentation + Indent)) # <<>>
        BY <3>2, <2>3, AppendProperties
      <3>5. QED
        BY <3>3, <3>4
    <2>5. CloseTagIndent(indentation) >= 0 =>
            /\ Append(b, Spaces(CloseTagIndent(indentation)) \o <<CharAt(xml, i)>>) \in Seq(Seq(Chars))
            /\ Append(b, Spaces(CloseTagIndent(indentation)) \o <<CharAt(xml, i)>>) # <<>>
      <3> HAVE CloseTagIndent(indentation) >= 0
      <3>1. CloseTagIndent(indentation) \in Nat
        BY <1>1 DEF CloseTagIndent, Indent
      <3>2. Spaces(CloseTagIndent(indentation)) \o <<CharAt(xml, i)>> \in Seq(Chars)
        BY <3>1, <2>1, SpacesType, ConcatProperties
      <3>3. QED
        <4> DEFINE ln == Spaces(CloseTagIndent(indentation)) \o <<CharAt(xml, i)>>
        <4>1. ln \in Seq(Chars) /\ b \in Seq(Seq(Chars))
          BY <3>2, <2>2
        <4> HIDE DEF ln
        <4>2. Append(b, ln) \in Seq(Seq(Chars)) /\ Append(b, ln) # <<>>
          BY <4>1, AppendProperties
        <4>3. QED
          BY <4>2 DEF ln
    <2>6. CloseTagIndent(indentation) >= 0 => indentation - 2 * Indent >= -Indent
      BY <1>1 DEF CloseTagIndent, Indent
    <2>7. i' = i + 1 /\ i' \in 0 .. Len(xml') /\ xml' = xml /\ result' = result
      BY <1>1, <1>2 DEF Step
    <2>8. /\ b' \in Seq(Seq(Chars)) /\ b' # <<>>
          /\ indentation' \in Int /\ indentation' >= -Indent
          /\ status' \in {"loop", "done", "thrown"}
      <3>1. CASE CharAt(xml, i) = "<" /\ CharAt(xml, i + 1) = "/"
        <4>1. CASE CloseTagIndent(indentation) < 0
          BY <3>1, <4>1, <1>1, <1>2, <2>2 DEF Step
        <4>2. CASE ~(CloseTagIndent(indentation) < 0)
          <5>1. b' = Append(b, Spaces(CloseTagIndent(indentation)) \o <<CharAt(xml, i)>>)
                /\ indentation' = indentation - 2 * Indent /\ status' = status
            BY <3>1, <4>2, <1>2 DEF Step
          <5>2. QED
            <6>1. CloseTagIndent(indentation) >= 0
              BY <4>2, <1>1 DEF CloseTagIndent, Indent
            <6>2. status \in {"loop", "done", "thrown"}
              BY DEF TypeInv, TypeOK
            <6>3. QED
              BY <5>1, <6>1, <6>2, <2>5, <2>6, <1>1
        <4>3. QED
          BY <4>1, <4>2
      <3>2. CASE CharAt(xml, i) = ">" /\ CharAt(xml, i - 1) \in {"/", "?"}
        <4>1. b' = Append(AddToLine(b, <<CharAt(xml, i)>>), <<>>) /\ UNCHANGED <<indentation, status>>
          BY <3>2, <1>2 DEF Step
        <4>2. QED
          BY <4>1, <2>4, <2>2, <1>1 DEF TypeInv, TypeOK
      <3>3. CASE CharAt(xml, i) = ">" /\ CharAt(xml, i - 1) \notin {"/", "?"}
        <4>1. b' = Append(AddToLine(b, <<CharAt(xml, i)>>), Spaces(indentation + Indent))
              /\ indentation' = indentation + Indent /\ status' = status
          BY <3>3, <1>2 DEF Step
        <4>2. indentation' \in Int /\ indentation' >= -Indent
          BY <4>1, <2>2, <1>1 DEF Indent
        <4>3. status' \in {"loop", "done", "thrown"}
          BY <4>1 DEF TypeInv, TypeOK
        <4>4. QED
          BY <4>1, <4>2, <4>3, <2>4
      <3>4. CASE ~(CharAt(xml, i) = "<" /\ CharAt(xml, i + 1) = "/") /\ CharAt(xml, i) # ">"
        <4>1. b' = AddToLine(b, <<CharAt(xml, i)>>) /\ UNCHANGED <<indentation, status>>
          BY <3>4, <1>2 DEF Step
        <4>2. QED
          BY <4>1, <2>3, <2>2, <1>1 DEF TypeInv, TypeOK
      <3>5. QED
        BY <3>1, <3>2, <3>3, <3>4
    <2>9. QED
      BY <2>7, <2>8, <1>1 DEF TypeInv, TypeOK, IndentBound
  <1>3. CASE Return
    BY <1>3 DEF Return, TypeInv, TypeOK, IndentBound
  <1>4. CASE Catch
    BY <1>4 DEF Catch, TypeInv, TypeOK, IndentBound
  <1>5. CASE UNCHANGED vars
    BY <1>5 DEF vars, TypeInv, TypeOK, IndentBound
  <1>6. QED
    BY <1>2, <1>3, <1>4, <1>5 DEF Next

(* Every reachable state is well typed.                                   *)
THEOREM TypeCorrect == Spec => []TypeOK
  BY InitTypeInv, NextTypeInv, PTL DEF Spec, TypeInv

-----------------------------------------------------------------------------
(* The elements opened, and the closing tags met, before position k.      *)
OpenBefore(s, k) == {q \in 1 .. k - 1 : IsOpenTag(s, q) /\ ~SelfClosing(s, q)}

CloseBefore(s, k) == {q \in 1 .. k - 1 : IsCloseTag(s, q)}

LEMMA DepthCount ==
  ASSUME NEW s, NEW k \in Nat
  PROVE  /\ Depth(s, k) = Cardinality(OpenBefore(s, k)) - Cardinality(CloseBefore(s, k))
         /\ IsFiniteSet(OpenBefore(s, k)) /\ Cardinality(OpenBefore(s, k)) \in Nat
         /\ IsFiniteSet(CloseBefore(s, k)) /\ Cardinality(CloseBefore(s, k)) \in Nat
  <1>1. IsFiniteSet(1 .. k - 1)
    BY FS_Interval
  <1>2. IsFiniteSet(OpenBefore(s, k)) /\ IsFiniteSet(CloseBefore(s, k))
    BY <1>1, FS_Subset DEF OpenBefore, CloseBefore
  <1>3. QED
    BY <1>2, FS_CardinalityType DEF Depth, OpenBefore, CloseBefore

(* Before the first character no element is open.                          *)
LEMMA DepthFirst ==
  ASSUME NEW s
  PROVE  Depth(s, 1) = 0
  <1>1. OpenBefore(s, 1) = {} /\ CloseBefore(s, 1) = {}
    BY DEF OpenBefore, CloseBefore
  <1>2. QED
    BY <1>1, DepthCount, FS_EmptySet

(* Reading one more character changes the depth by the tag it starts.     *)
LEMMA DepthStep ==
  ASSUME NEW s, NEW p \in Nat \ {0}
  PROVE  Depth(s, p + 1) =
           Depth(s, p) + (IF IsOpenTag(s, p) /\ ~SelfClosing(s, p) THEN 1 ELSE 0)
                       - (IF IsCloseTag(s, p) THEN 1 ELSE 0)
  <1>1. OpenBefore(s, p + 1) =
          OpenBefore(s, p) \cup (IF IsOpenTag(s, p) /\ ~SelfClosing(s, p) THEN {p} ELSE {})
    BY DEF OpenBefore
  <1>2. CloseBefore(s, p + 1) =
          CloseBefore(s, p) \cup (IF IsCloseTag(s, p) THEN {p} ELSE {})
    BY DEF CloseBefore
  <1>3. p \notin OpenBefore(s, p) /\ p \notin CloseBefore(s, p)
    BY DEF OpenBefore, CloseBefore
  <1>4. Cardinality(OpenBefore(s, p + 1)) =
          Cardinality(OpenBefore(s, p)) + (IF IsOpenTag(s, p) /\ ~SelfClosing(s, p) THEN 1 ELSE 0)
    <2>1. CASE IsOpenTag(s, p) /\ ~SelfClosing(s, p)
      <3>1. OpenBefore(s, p + 1) = OpenBefore(s, p) \cup {p}
        BY <1>1, <2>1
      <3>2. IsFiniteSet(OpenBefore(s, p)) /\ Cardinality(OpenBefore(s, p)) \in Nat
        BY DepthCount
      <3>3. QED
        BY <3>1, <3>2, <1>3, <2>1, FS_AddElement
    <2>2. CASE ~(IsOpenTag(s, p) /\ ~SelfClosing(s, p))
      <3>1. OpenBefore(s, p + 1) = OpenBefore(s, p)
        BY <1>1, <2>2
      <3>2. (IF IsOpenTag(s, p) /\ ~SelfClosing(s, p) THEN 1 ELSE 0) = 0
        BY <2>2
      <3>3. Cardinality(OpenBefore(s, p)) \in Nat
        BY DepthCount
      <3>4. QED
        BY <3>1, <3>2, <3>3
    <2>3. QED
      BY <2>1, <2>2
  <1>5. Cardinality(CloseBefore(s, p + 1)) =
          Cardinality(CloseBefore(s, p)) + (IF IsCloseTag(s, p) THEN 1 ELSE 0)
    <2>1. CASE IsCloseTag(s, p)
      <3>1. CloseBefore(s, p + 1) = CloseBefore(s, p) \cup {p}
        BY <1>2, <2>1
      <3>2. IsFiniteSet(CloseBefore(s, p)) /\ Cardinality(CloseBefore(s, p)) \in Nat
        BY DepthCount
      <3>3. QED
        BY <3>1, <3>2, <1>3, <2>1, FS_AddElement
    <2>2. CASE ~IsCloseTag(s, p)
      BY <1>2, <2>2, DepthCount
    <2>3. QED
      BY <2>1, <2>2
  <1>6. QED
    BY <1>4, <1>5, DepthCount

-----------------------------------------------------------------------------
(* Two "<" that no ">" follows up to position k are the same: the tag of  *)
(* the first would hold the second.                                        *)
LEMMA TagUnique ==
  ASSUME NEW s \in Seq(Chars), Tagged(s), NEW k \in 0 .. Len(s),
         NEW p1 \in 1 .. k, NEW p2 \in 1 .. k,
         s[p1] = "<", s[p2] = "<",
         \A r \in p1 .. k : s[r] # ">", \A r \in p2 .. k : s[r] # ">"
  PROVE  p1 = p2
  <1> SUFFICES ASSUME NEW u \in 1 .. k, NEW v \in 1 .. k, u < v,
                      s[u] = "<", s[v] = "<", \A r \in u .. k : s[r] # ">"
               PROVE  FALSE
    OBVIOUS
  <1>1. PICK q \in 1 .. Len(s) : TagEnd(s, u, q)
    BY DEF Tagged
  <1>2. q > k
    BY <1>1 DEF TagEnd
  <1>3. v \in u + 1 .. q - 1
    BY <1>2
  <1>4. QED
    BY <1>1, <1>3 DEF TagEnd

(* Where a "<" is read, the loop is between tags.                         *)
LEMMA BetweenTags ==
  ASSUME NEW s \in Seq(Chars), Tagged(s), NEW p \in 1 .. Len(s), s[p] = "<"
  PROVE  ~InCountedTag(s, p - 1)
  <1> SUFFICES ASSUME NEW p0 \in 1 .. p - 1, Counted(s, p0),
                      \A r \in p0 .. p - 1 : s[r] # ">"
               PROVE  FALSE
    BY DEF InCountedTag
  <1>1. s[p0] = "<"
    BY DEF Counted, IsCloseTag, IsOpenTag
  <1>2. \A r \in p0 .. p : s[r] # ">"
    OBVIOUS
  <1>3. p0 = p
    BY <1>1, <1>2, TagUnique
  <1>4. QED
    BY <1>3

(* Reading "</": the loop enters a counted tag and the depth drops by one, *)
(* from at least one.                                                      *)
LEMMA AtCloseTag ==
  ASSUME NEW s \in Seq(Chars), Tagged(s), Balanced(s),
         NEW p \in 1 .. Len(s), IsCloseTag(s, p)
  PROVE  /\ ~InCountedTag(s, p - 1)
         /\ InCountedTag(s, p)
         /\ Depth(s, p) >= 1
         /\ Depth(s, p + 1) = Depth(s, p) - 1
  <1>1. ~InCountedTag(s, p - 1)
    BY BetweenTags DEF IsCloseTag
  <1>2. InCountedTag(s, p)
    BY DEF InCountedTag, Counted, IsCloseTag
  <1>3. Depth(s, p) >= 1
    BY DEF Balanced
  <1>4. ~IsOpenTag(s, p)
    BY DEF IsOpenTag, IsCloseTag
  <1>5. Depth(s, p + 1) =
          Depth(s, p) + (IF IsOpenTag(s, p) /\ ~SelfClosing(s, p) THEN 1 ELSE 0)
                      - (IF IsCloseTag(s, p) THEN 1 ELSE 0)
    <2>1. p \in Nat \ {0}
      OBVIOUS
    <2>2. QED
      BY <2>1, DepthStep
  <1>6. Depth(s, p) \in Int
    BY DepthCount
  <1>7. QED
    BY <1>1, <1>2, <1>3, <1>4, <1>5, <1>6

(* Reading a "<" that starts an opening tag or a declaration: the loop    *)
(* enters the tag, which raises the depth when it is counted.             *)
LEMMA AtTagStart ==
  ASSUME NEW s \in Seq(Chars), Tagged(s),
         NEW p \in 1 .. Len(s), s[p] = "<", ~IsCloseTag(s, p)
  PROVE  /\ p < Len(s)
         /\ ~InCountedTag(s, p - 1)
         /\ InCountedTag(s, p) <=> Counted(s, p)
         /\ Depth(s, p + 1) = Depth(s, p) + (IF Counted(s, p) THEN 1 ELSE 0)
  <1>1. p < Len(s)
    BY DEF Tagged, TagEnd
  <1>2. InCountedTag(s, p) => Counted(s, p)
    <2> SUFFICES ASSUME NEW p0 \in 1 .. p, Counted(s, p0), \A r \in p0 .. p : s[r] # ">"
                 PROVE  Counted(s, p)
      BY DEF InCountedTag
    <2>1. s[p0] = "<"
      BY DEF Counted, IsCloseTag, IsOpenTag
    <2>2. p0 = p
      BY <2>1, TagUnique
    <2>3. QED
      BY <2>2
  <1>3. Counted(s, p) => InCountedTag(s, p)
    BY DEF InCountedTag
  <1>4. Counted(s, p) <=> IsOpenTag(s, p) /\ ~SelfClosing(s, p)
    BY DEF Counted
  <1>5. Depth(s, p + 1) =
          Depth(s, p) + (IF IsOpenTag(s, p) /\ ~SelfClosing(s, p) THEN 1 ELSE 0)
                      - (IF IsCloseTag(s, p) THEN 1 ELSE 0)
    <2>1. p \in Nat \ {0}
      OBVIOUS
    <2>2. QED
      BY <2>1, DepthStep
  <1>6. Depth(s, p) \in Int
    BY DepthCount
  <1>7. Depth(s, p + 1) = Depth(s, p) + (IF Counted(s, p) THEN 1 ELSE 0)
    <2>1. CASE Counted(s, p)
      BY <2>1, <1>4, <1>5, <1>6
    <2>2. CASE ~Counted(s, p)
      BY <2>2, <1>4, <1>5, <1>6
    <2>3. QED
      BY <2>1, <2>2
  <1>8. QED
    BY <1>1, <1>2, <1>3, <1>7, BetweenTags

(* Reading a character of text or of a tag's name: nothing changes.       *)
LEMMA AtText ==
  ASSUME NEW s \in Seq(Chars), NEW p \in 1 .. Len(s), s[p] \notin {"<", ">"}
  PROVE  /\ InCountedTag(s, p) <=> InCountedTag(s, p - 1)
         /\ Depth(s, p + 1) = Depth(s, p)
  <1>1. ~Counted(s, p)
    BY DEF Counted, IsCloseTag, IsOpenTag
  <1>2. ~IsOpenTag(s, p) /\ ~IsCloseTag(s, p)
    BY DEF IsCloseTag, IsOpenTag
  <1>3. InCountedTag(s, p) <=> InCountedTag(s, p - 1)
    BY <1>1 DEF InCountedTag
  <1>4. Depth(s, p + 1) =
          Depth(s, p) + (IF IsOpenTag(s, p) /\ ~SelfClosing(s, p) THEN 1 ELSE 0)
                      - (IF IsCloseTag(s, p) THEN 1 ELSE 0)
    <2>1. p \in Nat \ {0}
      OBVIOUS
    <2>2. QED
      BY <2>1, DepthStep
  <1>5. Depth(s, p) \in Int
    BY DepthCount
  <1>6. QED
    BY <1>2, <1>3, <1>4, <1>5

(* Reading a ">": the loop leaves its tag, which was counted unless its   *)
(* ">" follows a "/" or a "?".                                             *)
LEMMA AtTagEnd ==
  ASSUME NEW s \in Seq(Chars), Tagged(s), TagsEndRight(s),
         NEW p \in 1 .. Len(s), s[p] = ">"
  PROVE  /\ p >= 2
         /\ ~InCountedTag(s, p)
         /\ Depth(s, p + 1) = Depth(s, p)
         /\ InCountedTag(s, p - 1) <=> s[p - 1] \notin {"/", "?"}
  <1>1. PICK p0 \in 1 .. p - 1 : s[p0] = "<" /\ TagEnd(s, p0, p)
    BY DEF Tagged
  <1>2. \A r \in p0 .. p - 1 : s[r] # ">"
    BY <1>1 DEF TagEnd
  <1>3. ~InCountedTag(s, p)
    BY DEF InCountedTag
  <1>4. Depth(s, p + 1) = Depth(s, p)
    <2>1. ~IsOpenTag(s, p) /\ ~IsCloseTag(s, p)
      BY DEF IsOpenTag, IsCloseTag
    <2>2. p \in Nat \ {0} /\ Depth(s, p) \in Int
      BY DepthCount
    <2>3. Depth(s, p + 1) =
            Depth(s, p) + (IF IsOpenTag(s, p) /\ ~SelfClosing(s, p) THEN 1 ELSE 0)
                        - (IF IsCloseTag(s, p) THEN 1 ELSE 0)
      BY <2>2, DepthStep
    <2>4. QED
      BY <2>1, <2>2, <2>3
  <1>5. InCountedTag(s, p - 1) <=> Counted(s, p0)
    <2>1. Counted(s, p0) => InCountedTag(s, p - 1)
      BY <1>2 DEF InCountedTag
    <2>2. ASSUME InCountedTag(s, p - 1) PROVE Counted(s, p0)
      <3>1. PICK p1 \in 1 .. p - 1 : Counted(s, p1) /\ \A r \in p1 .. p - 1 : s[r] # ">"
        BY <2>2 DEF InCountedTag
      <3>2. s[p1] = "<"
        BY <3>1 DEF Counted, IsCloseTag, IsOpenTag
      <3>3. p1 = p0
        BY <1>1, <1>2, <3>1, <3>2, TagUnique
      <3>4. QED
        BY <3>1, <3>3
    <2>3. QED
      BY <2>1, <2>2
  <1>6. SelfClosing(s, p0) <=> s[p - 1] = "/"
    <2>1. s[p - 1] = "/" => SelfClosing(s, p0)
      BY <1>2 DEF SelfClosing
    <2>2. ASSUME SelfClosing(s, p0) PROVE s[p - 1] = "/"
      <3>1. PICK q \in p0 + 1 .. Len(s) :
               /\ s[q] = ">" /\ s[q - 1] = "/"
               /\ \A r \in p0 .. q - 1 : s[r] # ">"
        BY <2>2 DEF SelfClosing
      <3>2. q = p
        BY <3>1, <1>1 DEF TagEnd
      <3>3. QED
        BY <3>1, <3>2
    <2>3. QED
      BY <2>1, <2>2
  <1>7. Counted(s, p0) <=> s[p - 1] \notin {"/", "?"}
    <2>1. p0 < Len(s) /\ p0 + 1 \in 1 .. Len(s)
      OBVIOUS
    <2>2. /\ IsCloseTag(s, p0) => s[p - 1] \notin {"/", "?"}
          /\ IsDecl(s, p0) => s[p - 1] = "?"
          /\ IsOpenTag(s, p0) => s[p - 1] # "?"
      BY <1>1 DEF TagsEndRight
    <2>3. CASE s[p0 + 1] = "/"
      BY <1>1, <2>1, <2>2, <2>3 DEF Counted, IsCloseTag, IsOpenTag
    <2>4. CASE s[p0 + 1] = "?"
      BY <1>1, <2>1, <2>2, <2>4 DEF Counted, IsCloseTag, IsOpenTag, IsDecl
    <2>5. CASE s[p0 + 1] \notin {"/", "?"}
      BY <1>1, <1>6, <2>1, <2>2, <2>5 DEF Counted, IsCloseTag, IsOpenTag
    <2>6. QED
      BY <2>3, <2>4, <2>5
  <1>8. QED
    BY <1>1, <1>3, <1>4, <1>5, <1>7

-----------------------------------------------------------------------------
LEMMA InitIInv == Init => IInv
  <1> SUFFICES ASSUME Init PROVE IInv
    OBVIOUS
  <1>1. TypeInv
    BY InitTypeInv
  <1>2. ~InCountedTag(xml, 0) /\ Depth(xml, 1) = 0
    BY DepthFirst DEF InCountedTag
  <1>3. QED
    BY <1>1, <1>2 DEF Init, IInv, TypeInv, IndentInv, NeverThrows, Indent

(* One step of the loop over a well-formed body keeps the indentation at  *)
(* the depth, and never throws.                                           *)
LEMMA StepIndent ==
  ASSUME TypeOK, IndentInv, xml \in WellFormed, Step
  PROVE  IndentInv' /\ status' # "thrown"
  <1> DEFINE s == xml
             p == i + 1
             D == Depth(s, p)
  <1>1. /\ s \in Seq(Chars) /\ Tagged(s) /\ TagsEndRight(s) /\ Balanced(s)
        /\ status = "loop" /\ p \in 1 .. Len(s) /\ indentation \in Int
        /\ i \in 0 .. Len(s) - 1
        /\ xml' = xml /\ i' = p
    BY XmlFormatAssumption, WellFormedXml DEF TypeOK, Step
  <1>2. indentation = Indent * D - (IF InCountedTag(s, i) THEN Indent ELSE 0)
    BY <1>1 DEF IndentInv
  <1>3. CharAt(xml, i) = s[p] /\ i = p - 1 /\ D \in Int
    <2>1. CharAt(xml, i) = s[p] /\ i = p - 1
      BY <1>1, CharAtIndex
    <2>2. p \in Nat
      BY <1>1
    <2>3. QED
      BY <2>1, <2>2, DepthCount
  <1> HIDE DEF s, p, D
  <1>4. SUFFICES indentation' = Indent * Depth(s, p + 1)
                                  - (IF InCountedTag(s, p) THEN Indent ELSE 0)
                 /\ status' = "loop"
    BY <1>1 DEF IndentInv, s, p
  <1>5. CASE CharAt(xml, i) = "<" /\ CharAt(xml, i + 1) = "/"
    <2>1. IsCloseTag(s, p)
      BY <1>1, <1>3, <1>5, CharAtIndex DEF IsCloseTag, s, p
    <2>2. /\ ~InCountedTag(s, p - 1) /\ InCountedTag(s, p)
          /\ D >= 1 /\ Depth(s, p + 1) = D - 1
      BY <1>1, <2>1, AtCloseTag DEF D
    <2>3. indentation = Indent * D /\ ~(CloseTagIndent(indentation) < 0)
      BY <1>2, <1>3, <2>2 DEF CloseTagIndent, Indent
    <2>4. indentation' = indentation - 2 * Indent /\ status' = status
      BY <1>5, <2>3 DEF Step
    <2>5. QED
      BY <1>1, <1>3, <2>2, <2>3, <2>4 DEF Indent
  <1>6. CASE CharAt(xml, i) = ">" /\ CharAt(xml, i - 1) \in {"/", "?"}
    <2>1. /\ p >= 2 /\ ~InCountedTag(s, p) /\ Depth(s, p + 1) = D
          /\ InCountedTag(s, p - 1) <=> s[p - 1] \notin {"/", "?"}
      BY <1>1, <1>3, <1>6, AtTagEnd DEF D
    <2>2. ~InCountedTag(s, i)
      <3>1. CharAt(xml, i - 1) = s[p - 1]
        BY <1>1, <2>1, CharAtIndex DEF s, p
      <3>2. QED
        BY <1>1, <1>3, <1>6, <2>1, <3>1
    <2>3. UNCHANGED <<indentation, status>>
      BY <1>6 DEF Step
    <2>4. QED
      BY <1>1, <1>2, <1>3, <2>1, <2>2, <2>3
  <1>7. CASE CharAt(xml, i) = ">" /\ CharAt(xml, i - 1) \notin {"/", "?"}
    <2>1. /\ p >= 2 /\ ~InCountedTag(s, p) /\ Depth(s, p + 1) = D
          /\ InCountedTag(s, p - 1) <=> s[p - 1] \notin {"/", "?"}
      BY <1>1, <1>3, <1>7, AtTagEnd DEF D
    <2>2. InCountedTag(s, i)
      <3>1. CharAt(xml, i - 1) = s[p - 1]
        BY <1>1, <2>1, CharAtIndex DEF s, p
      <3>2. QED
        BY <1>1, <1>3, <1>7, <2>1, <3>1
    <2>3. indentation' = indentation + Indent /\ status' = status
      BY <1>7 DEF Step
    <2>4. QED
      BY <1>1, <1>2, <1>3, <2>1, <2>2, <2>3 DEF Indent
  <1>8. CASE ~(CharAt(xml, i) = "<" /\ CharAt(xml, i + 1) = "/") /\ CharAt(xml, i) # ">"
    <2>1. UNCHANGED <<indentation, status>>
      BY <1>8 DEF Step
    <2>2. CASE s[p] = "<"
      <3>1. ~IsCloseTag(s, p)
        BY <1>1, <1>3, <1>8, <2>2, CharAtIndex DEF IsCloseTag, s, p
      <3>2. /\ ~InCountedTag(s, p - 1)
            /\ InCountedTag(s, p) <=> Counted(s, p)
            /\ Depth(s, p + 1) = D + (IF Counted(s, p) THEN 1 ELSE 0)
        BY <1>1, <2>2, <3>1, AtTagStart DEF D
      <3>3. QED
        BY <1>1, <1>2, <1>3, <2>1, <3>2 DEF Indent
    <2>3. CASE s[p] \notin {"<", ">"}
      <3>1. /\ InCountedTag(s, p) <=> InCountedTag(s, p - 1)
            /\ Depth(s, p + 1) = D
        BY <1>1, <2>3, AtText DEF D
      <3>2. QED
        BY <1>1, <1>2, <1>3, <2>1, <3>1 DEF Indent
    <2>4. QED
      BY <1>3, <1>8, <2>2, <2>3
  <1>9. QED
    BY <1>5, <1>6, <1>7, <1>8

LEMMA NextIInv == IInv /\ [Next]_vars => IInv'
  <1> SUFFICES ASSUME IInv, [Next]_vars PROVE IInv'
    OBVIOUS
  <1>1. TypeInv'
    BY NextTypeInv DEF IInv, TypeInv
  <1>2. CASE xml \notin WellFormed
    <2>1. xml' = xml
      BY DEF Next, Step, Return, Catch, vars
    <2>2. QED
      BY <1>1, <1>2, <2>1 DEF IInv, TypeInv, IndentInv, NeverThrows
  <1>3. CASE xml \in WellFormed
    <2>1. CASE Step
      BY <1>1, <1>3, <2>1, StepIndent DEF IInv, TypeInv, NeverThrows
    <2>2. CASE Return
      BY <1>1, <2>2 DEF Return, IInv, TypeInv, IndentInv, NeverThrows
    <2>3. CASE Catch
      BY <1>3, <2>3 DEF Catch, IInv, NeverThrows
    <2>4. CASE UNCHANGED vars
      BY <1>1, <2>4 DEF vars, IInv, TypeInv, IndentInv, NeverThrows
    <2>5. QED
      BY <2>1, <2>2, <2>3, <2>4 DEF Next
  <1>4. QED
    BY <1>2, <1>3

(* Formatting a body the serializers write never throws: the count given *)
(* to " ".repeat at a closing tag (ContentTypeDetection.ts line 78) is    *)
(* never negative, so formatStringBody never falls back to the            *)
(* unformatted text.                                                       *)
THEOREM FormattingNeverThrows == Spec => []NeverThrows
  BY InitIInv, NextIInv, PTL DEF Spec, IInv

=============================================================================
