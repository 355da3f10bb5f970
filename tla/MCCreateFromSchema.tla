------------------------- MODULE MCCreateFromSchema -------------------------
(***************************************************************************)
(* Schema graphs for CreateFromSchema: every graph over two schemas, each *)
(* a string, a list or map of either, or a structure, union or event      *)
(* stream with one or two members; and operations whose shape names are  *)
(* prefixes of one another (Item, ItemList, ItemListPage).                *)
(***************************************************************************)
EXTENDS CreateFromSchema, TLC

Ids == {"a", "b"}

TwoNames == [s \in Ids |-> IF s = "a" THEN "ns#A" ELSE "ns#B"]

MemberLists ==
  {<<<<"m1", x>>>> : x \in Ids} \cup {<<<<"m1", x>>, <<"m2", y>>>> : x, y \in Ids}

(* The shapes one schema can take: kind, value schema, members.           *)
Shapes ==
  {[kind |-> "string", value |-> "a", members |-> <<>>]}
    \cup {[kind |-> k, value |-> v, members |-> <<>>] : k \in {"list", "map"}, v \in Ids}
    \cup {[kind |-> k, value |-> "a", members |-> ms] :
            k \in {"struct", "union", "eventStream"}, ms \in MemberLists}

(* Smithy models where the members of an event stream are structures.     *)
ValidShapes(sh) ==
  \A s \in Ids : sh[s].kind = "eventStream" =>
    \A j \in DOMAIN sh[s].members : sh[sh[s].members[j][2]].kind = "struct"

MCGraphs ==
  {[kind    |-> [s \in Ids |-> sh[s].kind],
    name    |-> TwoNames,
    value   |-> [s \in Ids |-> sh[s].value],
    members |-> [s \in Ids |-> sh[s].members]] :
     sh \in {f \in [Ids -> Shapes] : ValidShapes(f)}}

(* ItemListPage { items: ItemList }, ItemList = list<Item>, Item { id }.  *)
NestedNameGraphs ==
  {[kind    |-> ("p" :> "struct") @@ ("l" :> "list") @@ ("i" :> "struct") @@ ("s" :> "string"),
    name    |-> ("p" :> "ns#ItemListPage") @@ ("l" :> "ns#ItemList") @@ ("i" :> "ns#Item")
                  @@ ("s" :> "smithy.api#String"),
    value   |-> ("p" :> "i") @@ ("l" :> "i") @@ ("i" :> "i") @@ ("s" :> "i"),
    members |-> ("p" :> <<<<"items", "l">>>>) @@ ("l" :> <<>>) @@ ("i" :> <<<<"id", "s">>>>)
                  @@ ("s" :> <<>>)]}

AllNames == {"ns#A", "ns#B", "ns#ItemListPage", "ns#ItemList", "ns#Item", "smithy.api#String", Unknown}

MCWithin ==
  {<<x, x>> : x \in AllNames}
    \cup {<<"ns#Item", "ns#ItemList">>, <<"ns#Item", "ns#ItemListPage">>,
          <<"ns#ItemList", "ns#ItemListPage">>}

(* The char-code sums of the strings the paths are made of.              *)
MCWeight ==
  ("ns#A" :> 325) @@ ("ns#B" :> 326) @@ ("ns#ItemListPage" :> 1452) @@ ("ns#ItemList" :> 1071)
    @@ ("ns#Item" :> 659) @@ ("smithy.api#String" :> 1696) @@ (Unknown :> 1378)
    @@ ("m1" :> 158) @@ ("m2" :> 159) @@ ("items" :> 546) @@ ("id" :> 205) @@ (NoMember :> 380)
    @@ ("member" :> 632) @@ ("value" :> 541)
    @@ (" -> " :> 171) @@ ("$" :> 36) @@ ("$k1" :> 192) @@ ("$k3" :> 194)
    @@ ("$l1" :> 193) @@ ("$l2" :> 194) @@ ("$l3" :> 195)

=============================================================================
