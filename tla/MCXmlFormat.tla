---------------------------- MODULE MCXmlFormat ----------------------------
(***************************************************************************)
(* XML bodies as the XML shape serializers write them: an optional        *)
(* declaration, then one element; an element is self-closing when it has  *)
(* no content (<a/>), and otherwise holds text or one or more elements.   *)
(* Text may hold "/" and "?"; it never holds "<" or ">", which the        *)
(* serializers escape.  Elements nest three deep.                         *)
(***************************************************************************)
EXTENDS XmlFormat

Decl == <<"<", "?", "a", " ", "a", "?", ">">>

SelfEl == <<"<", "a", "/", ">">>

El(content) == <<"<", "a", ">">> \o content \o <<"<", "/", "a", ">">>

Texts == {<<>>, <<"a">>, <<"a", "/", "a", "?">>}

E0 == {SelfEl} \cup {El(t) : t \in Texts}

E1 == E0 \cup {El(k) : k \in E0 \cup {x \o y : x, y \in E0}}

E2 == E1 \cup {El(k) : k \in E1 \cup {x \o y : x \in E1, y \in E0}}

MCWellFormed == E2 \cup {Decl \o e : e \in E1}

(* Other bodies: a closing tag with no opening tag, one closing tag too   *)
(* many, and an element holding a CDATA section with "</" in it           *)
(* (<a><![CDATA[</]]></a>, its other characters written as "a").          *)
Others == {<<"<", "/", "a", ">">>,
           El(<<>>) \o <<"<", "/", "a", ">">>,
           El(<<"<", "a", "a", "<", "/", "a", "a", ">">>)}

MCDocs == MCWellFormed \cup Others

=============================================================================
