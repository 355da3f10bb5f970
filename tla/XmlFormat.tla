----------------------------- MODULE XmlFormat -----------------------------
(***************************************************************************)
(* simpleFormatXml(xml) and the formatStringBody call that uses it         *)
(* (snapshot-testing/src/serializers/ContentTypeDetection.ts), which lay   *)
(* out an XML request body in a snapshot.                                  *)
(*                                                                         *)
(* The loop reads the body one character at a time.  A "<" that starts a  *)
(* closing tag begins a new line indented by indentation - 4 and lowers    *)
(* indentation by 8; a ">" not preceded by "/" or "?" raises it by 4 and   *)
(* begins a new line indented by it; a ">" after "/" or "?" only ends the  *)
(* line.  " ".repeat(n) throws a RangeError when n < 0, which the try of   *)
(* formatStringBody catches.  The result is split at line breaks, lines   *)
(* that are blank are dropped and the rest joined.                         *)
(*                                                                         *)
(* A character is a one-letter string: "<", ">", "/", "?", " ", and "a"    *)
(* for any other character of a name or of text.  The text b is kept as   *)
(* the sequence of its lines, so that split("\n") is the sequence itself.  *)
(***************************************************************************)
EXTENDS Integers, Sequences, FiniteSets

CONSTANTS
  Docs,        \* the bodies formatStringBody may be given
  WellFormed   \* those of them as the XML shape serializers write them

(* The characters a body is written with.                                 *)
Chars == {"<", ">", "/", "?", " ", "a"}

ASSUME XmlFormatAssumption ==
  /\ WellFormed \subseteq Docs
  /\ Docs \subseteq Seq(Chars)

(* const indent = 4 (line 70).                                             *)
Indent == 4

(* xml[k] for a 0-based k: undefined (here "") outside the string.         *)
CharAt(s, k) == IF 0 <= k /\ k < Len(s) THEN s[k + 1] ELSE ""

(* " ".repeat(n) for n >= 0.                                               *)
Spaces(n) == [j \in 1 .. n |-> " "]

(* b += t: t is added to the last line.                                    *)
AddToLine(lines, t) == [lines EXCEPT ![Len(lines)] = @ \o t]

(* .filter((s) => !!s.trim()): a line with a character other than a space. *)
NonBlank(l) == \E j \in 1 .. Len(l) : l[j] # " "

VARIABLES
  xml,          \* the string being formatted
  i,            \* the loop index
  indentation,  \* the running indentation
  b,            \* the output so far, as its lines
  status,       \* "loop", "done" (returned) or "thrown" (RangeError)
  result        \* formatStringBody's [annotation, snapshot], once known

vars == <<xml, i, indentation, b, status, result>>

NoResult == [kind |-> "none", lines |-> <<>>]

Init ==
  /\ xml \in Docs
  /\ i = 0
  /\ indentation = 0
  /\ b = << <<>> >>
  /\ status = "loop"
  /\ result = NoResult

(* Mutant: the closing tag is indented by the full indentation.            *)
CloseTagIndentNoOffset(ind) == ind

(* Mutant: the two lines of the closing-tag branch swapped, so the line *)
(* is indented after indentation was lowered.                              *)
CloseTagIndentAfterDecrement(ind) == ind - 2 * Indent - Indent

(* The indentation a closing tag's line gets (line 78).                   *)
CloseTagIndent(ind) == ind - Indent

(***************************************************************************)
(* One iteration of the loop (lines 73-93).                                *)
(***************************************************************************)
Step ==
  LET c == CharAt(xml, i)
  IN
  /\ status = "loop"
  /\ i < Len(xml)
  /\ i' = i + 1
  /\ CASE c = "<" /\ CharAt(xml, i + 1) = "/" ->
            IF CloseTagIndent(indentation) < 0
              THEN /\ status' = "thrown"
                   /\ UNCHANGED <<indentation, b>>
              ELSE /\ b' = Append(b, Spaces(CloseTagIndent(indentation)) \o <<c>>)
                   /\ indentation' = indentation - 2 * Indent
                   /\ UNCHANGED status
       [] c = ">" /\ CharAt(xml, i - 1) \in {"/", "?"} ->
            /\ b' = Append(AddToLine(b, <<c>>), <<>>)
            /\ UNCHANGED <<indentation, status>>
       [] c = ">" /\ CharAt(xml, i - 1) \notin {"/", "?"} ->
            /\ indentation' = indentation + Indent
            /\ b' = Append(AddToLine(b, <<c>>), Spaces(indentation + Indent))
            /\ UNCHANGED status
       [] OTHER ->
            /\ b' = AddToLine(b, <<c>>)
            /\ UNCHANGED <<indentation, status>>
  /\ UNCHANGED <<xml, result>>

(***************************************************************************)
(* The loop ends: simpleFormatXml returns the non-blank lines (lines      *)
(* 94-97) and formatStringBody returns ["xml", them] (line 40).            *)
(***************************************************************************)
Return ==
  /\ status = "loop"
  /\ i = Len(xml)
  /\ status' = "done"
  /\ result' = [kind |-> "xml", lines |-> SelectSeq(b, NonBlank)]
  /\ UNCHANGED <<xml, i, indentation, b>>

(***************************************************************************)
(* repeat threw: formatStringBody's catch (line 44) falls through to the  *)
(* checks below it; a body is never empty when it throws, and the request *)
(* bodies are ASCII, so the snapshot is ["text", xml] unformatted         *)
(* (lines 45-50).                                                          *)
(***************************************************************************)
Catch ==
  /\ status = "thrown"
  /\ result = NoResult
  /\ result' = [kind |-> "text", lines |-> <<xml>>]
  /\ UNCHANGED <<xml, i, indentation, b, status>>

Next == Step \/ Return \/ Catch

Spec == Init /\ [][Next]_vars /\ WF_vars(Next)

(* The type invariant.                                                     *)
TypeOK ==
  /\ xml \in Docs
  /\ i \in 0 .. Len(xml)
  /\ indentation \in Int
  /\ b \in Seq(Seq(Chars)) /\ b # <<>>
  /\ status \in {"loop", "done", "thrown"}
  /\ result.kind \in {"none", "xml", "text"}

-----------------------------------------------------------------------------
(***************************************************************************)
(* What the tags of an XML string are, read from the string itself: a tag *)
(* starts at "<"; "</" starts a closing tag, "<?" a declaration, any other *)
(* "<" an opening tag, which closes itself when its ">" follows a "/".     *)
(***************************************************************************)
IsCloseTag(s, p) == s[p] = "<" /\ p < Len(s) /\ s[p + 1] = "/"

IsOpenTag(s, p) == s[p] = "<" /\ p < Len(s) /\ s[p + 1] \notin {"/", "?"}

SelfClosing(s, p) ==
  \E q \in p + 1 .. Len(s) :
    /\ s[q] = ">" /\ s[q - 1] = "/"
    /\ \A r \in p .. q - 1 : s[r] # ">"

(* The number of elements open just before position p.                   *)
Depth(s, p) ==
  Cardinality({q \in 1 .. p - 1 : IsOpenTag(s, q) /\ ~SelfClosing(s, q)})
    - Cardinality({q \in 1 .. p - 1 : IsCloseTag(s, q)})

(***************************************************************************)
(* What the XML serializers guarantee of a body, the assumptions the      *)
(* formatter silently makes.  Every "<" starts a tag that its next ">"    *)
(* ends, and text holds neither "<" nor ">" (the serializers escape them); *)
(* a closing tag does not end in "/>" or "?>", a declaration ends in "?>", *)
(* an opening tag does not end in "?>"; and every closing tag closes an    *)
(* element that is open.                                                   *)
(***************************************************************************)
TagEnd(s, p, q) ==
  /\ q \in p + 1 .. Len(s)
  /\ s[q] = ">"
  /\ \A r \in p + 1 .. q - 1 : s[r] \notin {"<", ">"}

IsDecl(s, p) == s[p] = "<" /\ p < Len(s) /\ s[p + 1] = "?"

Tagged(s) ==
  /\ \A p \in 1 .. Len(s) : s[p] = "<" => \E q \in 1 .. Len(s) : TagEnd(s, p, q)
  /\ \A q \in 1 .. Len(s) : s[q] = ">" => \E p \in 1 .. q - 1 : s[p] = "<" /\ TagEnd(s, p, q)

TagsEndRight(s) ==
  \A p, q \in 1 .. Len(s) : s[p] = "<" /\ TagEnd(s, p, q) =>
    /\ IsCloseTag(s, p) => s[q - 1] \notin {"/", "?"}
    /\ IsDecl(s, p) => s[q - 1] = "?"
    /\ IsOpenTag(s, p) => s[q - 1] # "?"

Balanced(s) == \A p \in 1 .. Len(s) : IsCloseTag(s, p) => Depth(s, p) >= 1

ASSUME WellFormedXml ==
  \A d \in WellFormed : Tagged(d) /\ TagsEndRight(d) /\ Balanced(d)

(* The positions of s that satisfy P, in order.                            *)
Positions(s, P(_)) == SelectSeq([p \in 1 .. Len(s) |-> p], P)

(* The number of spaces a line starts with.                                *)
Lead(l) ==
  CHOOSE n \in 0 .. Len(l) :
    (\A j \in 1 .. n : l[j] = " ") /\ (n = Len(l) \/ l[n + 1] # " ")

LineStartsWith(l, t) ==
  Lead(l) + Len(t) <= Len(l) /\ SubSeq(l, Lead(l) + 1, Lead(l) + Len(t)) = t

(***************************************************************************)
(* Formatting a well-formed body never throws: the count passed to       *)
(* " ".repeat at a closing tag (line 78) is never negative, so            *)
(* formatStringBody never falls back to the unformatted text.             *)
(***************************************************************************)
NeverThrows == xml \in WellFormed => status # "thrown"

(***************************************************************************)
(* Every closing tag of the body starts a line of the snapshot of its own, *)
(* indented by four spaces per element that encloses its element, after   *)
(* text, nested elements and self-closing elements alike.                  *)
(***************************************************************************)
ClosingTagsAtDepth ==
  xml \in WellFormed /\ result.kind = "xml" =>
    LET ls == SelectSeq(result.lines, LAMBDA l : LineStartsWith(l, <<"<", "/">>))
        ps == Positions(xml, LAMBDA p : IsCloseTag(xml, p))
    IN  /\ Len(ls) = Len(ps)
        /\ \A k \in 1 .. Len(ls) : Lead(ls[k]) = Indent * (Depth(xml, ps[k]) - 1)

(***************************************************************************)
(* The doc comment "Inserts line breaks and indentation for XML": every   *)
(* opening tag starts a line indented by four spaces per enclosing        *)
(* element.                                                                *)
(***************************************************************************)
OpeningTagsAtDepth ==
  xml \in WellFormed /\ result.kind = "xml" =>
    LET ls == SelectSeq(result.lines,
                        LAMBDA l : LineStartsWith(l, <<"<">>)
                                   /\ ~LineStartsWith(l, <<"<", "/">>)
                                   /\ ~LineStartsWith(l, <<"<", "?">>))
        ps == Positions(xml, LAMBDA p : IsOpenTag(xml, p))
    IN  /\ Len(ls) = Len(ps)
        /\ \A k \in 1 .. Len(ls) : Lead(ls[k]) = Indent * Depth(xml, ps[k])

=============================================================================
