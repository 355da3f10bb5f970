-------------------------- MODULE CreateFromSchema --------------------------
(***************************************************************************)
(* createFromSchema(schema, path) (snapshot-testing/src/structure/        *)
(* createFromSchema.ts), which builds the input of every snapshot command.*)
(*                                                                         *)
(* Each call appends " -> <qualifiedName>$<memberName>" to the path and    *)
(* cuts the recursion of a map, list or (non-stream) structure when the   *)
(* qualified name occurs three times in the path, counted as a substring  *)
(* (path.split(qualifiedName).length >= 4).  A union takes the one member *)
(* whose index is the char-code sum of the path modulo the member count.  *)
(*                                                                         *)
(* A schema graph is a record of functions over schema ids: kind, name    *)
(* (Unknown when getName() is undefined), value schema, members.  The     *)
(* path is the sequence of its pieces: a segment [name, member] per call  *)
(* and the "$k1".."$l3" suffixes.  Which qualified names occur inside     *)
(* which is the constant Within; the char-code sum of a piece is Weight.  *)
(* A member schema's qualified name is its target's.                      *)
(***************************************************************************)
EXTENDS Integers, Sequences, FiniteSets

CONSTANTS
  Graphs,       \* the schema graphs an operation input may be built from
  Unknown,      \* "UnknownSchema!", the name of a schema without one
  Within,       \* <<x, y>> when qualified name x occurs inside name y
  Weight        \* char-code sum of each path piece, separators included

(* The kinds createFromSchema returns a constant for (lines 22-38, 96-105). *)
ScalarKinds ==
  {"string", "numeric", "bigInteger", "bigDecimal", "boolean", "blob",
   "timestamp", "unit", "document"}

(* memberName of a schema that is not a member (line 16).                 *)
NoMember == "____"

(* memberName of the value schema of a list or map: NormalizedSchema's   *)
(* getValueSchema() returns its "member" or "value" member.               *)
ValueMember == [list |-> "member", map |-> "value"]

(* The suffixes of the three list items (lines 56-58).                   *)
ListSuffix == <<"$l1", "$l2", "$l3">>

(* Occurrences of qualified name x in the path, counted per segment.       *)
Occurrences(x, p) ==
  Cardinality({j \in DOMAIN p : "name" \in DOMAIN p[j] /\ <<x, p[j].name>> \in Within})

(* The char-code sum of a path piece: " -> " name "$" member, or a suffix. *)
PieceWeight(x) ==
  IF "name" \in DOMAIN x
    THEN Weight[" -> "] + Weight[x.name] + Weight["$"] + Weight[x.member]
    ELSE Weight[x.suffix]

(* path.split("").reduce(sum of charCodeAt) (lines 80-81).                 *)
RECURSIVE PathSum(_)
PathSum(p) == IF p = <<>> THEN 0 ELSE PieceWeight(Head(p)) + PathSum(Tail(p))

(* Mutant: the cut tests for two occurrences instead of three.            *)
HaltsEarly(x, p) == Occurrences(x, p) >= 2

(* haltRecursion (line 20).                                                *)
Halts(x, p) == Occurrences(x, p) >= 3

(* Mutant: the member index is compared without being incremented.         *)
UnionPickNoIncrement(ms, sel) ==
  {j \in DOMAIN ms : sel = 0 /\ j = 1}

(* The members the struct loop assigns (lines 84-93): every member of a   *)
(* structure; of a union the one at the selector (and none when the       *)
(* selector is NaN, for a union without members).                          *)
UnionPick(ms, sel) == {j \in DOMAIN ms : j - 1 = sel}

(***************************************************************************)
(* createFromSchema($, path) for schema id s reached as member m of its   *)
(* parent.  Aggregates record their schema id and whether the recursion   *)
(* was cut there.                                                          *)
(***************************************************************************)
RECURSIVE Gen(_, _, _, _)
Gen(g, s, m, path) ==
  LET p    == Append(path, [name |-> g.name[s], member |-> m])
      cut  == Halts(g.name[s], p)
      kind == g.kind[s]
      ms   == g.members[s]
      sel  == IF Len(ms) = 0 THEN -1 ELSE PathSum(p) % Len(ms)
      pick == IF kind = "union" THEN UnionPick(ms, sel) ELSE DOMAIN ms
  IN  CASE kind \in ScalarKinds -> [k |-> kind]
        [] kind = "map" ->
             [k |-> "map", id |-> s, cut |-> cut,
              items |-> IF cut THEN <<>>
                        ELSE <<Gen(g, g.value[s], ValueMember.map, Append(p, [suffix |-> "$k1"])),
                               Gen(g, g.value[s], ValueMember.map, Append(p, [suffix |-> "$k3"]))>>]
        [] kind = "list" ->
             [k |-> "list", id |-> s, cut |-> cut,
              items |-> IF cut THEN <<>>
                        ELSE [j \in 1 .. 3 |->
                                Gen(g, g.value[s], ValueMember.list,
                                    Append(p, [suffix |-> ListSuffix[j]]))]]
        [] kind \in {"struct", "union"} ->
             [k |-> kind, id |-> s, cut |-> cut,
              items |-> IF cut THEN <<>>
                        ELSE [j \in pick |-> Gen(g, ms[j][2], ms[j][1], p)]]
        [] kind = "eventStream" ->
             [k |-> "eventStream", id |-> s, cut |-> FALSE,
              items |-> [j \in DOMAIN ms |-> Gen(g, ms[j][2], ms[j][1], p)]]
        [] OTHER -> [k |-> "unsupported"]

NotYet == [k |-> "none"]

VARIABLES
  graph,   \* the schema graph of the operation
  root,    \* its input schema
  value    \* what createFromSchema(input) returned, NotYet before

vars == <<graph, root, value>>

Init ==
  /\ graph \in Graphs
  /\ root \in {s \in DOMAIN graph.kind : graph.kind[s] = "struct"}
  /\ value = NotYet

(* executeCommand: new CommandCtor(createFromSchema(input)) (line 181 of   *)
(* SnapshotRunner.ts).                                                     *)
Generate ==
  /\ value = NotYet
  /\ value' = Gen(graph, root, NoMember, <<>>)
  /\ UNCHANGED <<graph, root>>

Next == Generate

Spec == Init /\ [][Next]_vars

-----------------------------------------------------------------------------
IsAggregate(v) == "id" \in DOMAIN v

(* The ids of the schemas on the way from the root to v's parent.         *)
RECURSIVE CutsFaithful(_, _)
CutsFaithful(v, anc) ==
  IsAggregate(v) =>
    /\ v.k # "eventStream" =>
         (v.cut <=> Cardinality({j \in DOMAIN anc : anc[j] = v.id}) >= 2)
    /\ \A j \in DOMAIN v.items : CutsFaithful(v.items[j], Append(anc, v.id))

(***************************************************************************)
(* The recursion is cut exactly where the parameter comment (line 11)     *)
(* says, at a recursive schema: a map, list or structure is generated     *)
(* empty if and only if its own schema already encloses it twice.         *)
(***************************************************************************)
CutOnlyRecursive ==
  value # NotYet => CutsFaithful(value, <<>>)

RECURSIVE UnionsHaveOneMember(_)
UnionsHaveOneMember(v) ==
  IsAggregate(v) =>
    /\ (v.k = "union" /\ ~v.cut) => Cardinality(DOMAIN v.items) = 1
    /\ \A j \in DOMAIN v.items : UnionsHaveOneMember(v.items[j])

(***************************************************************************)
(* Every union in a generated input that was not cut sets exactly one     *)
(* member, as a union value must: the selector always lands on a member.  *)
(***************************************************************************)
UnionSetsOneMember ==
  value # NotYet => UnionsHaveOneMember(value)

=============================================================================
