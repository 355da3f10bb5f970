--------------------------- MODULE ChecksumConfig ---------------------------
(***************************************************************************)
(* The checksum runtime extension (smithy-client/src/extensions/          *)
(* checksum.ts) over one client construction.                              *)
(*                                                                         *)
(* getChecksumConfiguration(runtimeConfig) lists the checksum algorithms  *)
(* of the runtime config: first the known algorithm fields (sha256, md5,  *)
(* ...) that are set, in AlgorithmId order, then the entries of           *)
(* runtimeConfig.checksumAlgorithms.  Extensions then call                *)
(* addChecksumAlgorithm, which writes the shared runtimeConfig record     *)
(* (under the upper-case id for a known id) and appends to the list.      *)
(* Finally resolveChecksumRuntimeConfig(list) sets the field of every     *)
(* known id in the list, the last entry winning, and that result is       *)
(* assigned over the runtime config.                                      *)
(***************************************************************************)
EXTENDS Naturals, Sequences, FiniteSets

CONSTANTS
  Known,             \* Object.values(AlgorithmId): the known (lower-case) ids
  AlgOrder,          \* the order of the AlgorithmId enum, a sequence of Known
  Upper,             \* id.toUpperCase() of each known id
  CustomIds,         \* ids of novel algorithms
  Ctors,             \* checksum / hash constructors
  Undefined,         \* an unset field or record entry
  InitialRecordKeys, \* keys the user's checksumAlgorithms record may hold
  ExtensionIds,      \* ids an extension may pass to addChecksumAlgorithm
  MaxList            \* bound on the length of the algorithm list

UpperIds == {Upper[a] : a \in Known}

Keys == Known \cup UpperIds \cup CustomIds

ASSUME ChecksumAssumption ==
  /\ AlgOrder \in Seq(Known)
  /\ \A a \in Known : \E i \in 1 .. Len(AlgOrder) : AlgOrder[i] = a
  /\ \A i, j \in 1 .. Len(AlgOrder) : AlgOrder[i] = AlgOrder[j] => i = j
  /\ IsFiniteSet(Keys)
  /\ Upper \in [Known -> STRING]
  /\ \A a, b \in Known : Upper[a] = Upper[b] => a = b
  /\ UpperIds \cap (Known \cup CustomIds) = {}
  /\ Known \cap CustomIds = {}
  /\ Undefined \notin Ctors
  /\ InitialRecordKeys \subseteq Keys
  /\ ExtensionIds \subseteq Keys
  /\ MaxList \in Nat

Entry == [id : Keys, ctor : Ctors]

MaybeCtor == Ctors \cup {Undefined}

(* Position of a known id in the AlgorithmId enum.                        *)
Rank(a) == CHOOSE i \in 1 .. Len(AlgOrder) : AlgOrder[i] = a

(* The entries listing, in order, the ids of the sequence s.              *)
EntriesOf(s, f) == [i \in 1 .. Len(s) |-> [id |-> s[i], ctor |-> f[s[i]]]]

(* The sequences holding each element of S once, in any order.           *)
Orderings(S) ==
  {s \in [1 .. Cardinality(S) -> S] :
     \A i, j \in 1 .. Cardinality(S) : i # j => s[i] # s[j]}

(***************************************************************************)
(* The algorithm lists getChecksumConfiguration builds from a runtime     *)
(* config: the set known fields in enum order, then the record's entries  *)
(* in its insertion order (which the model leaves open).                  *)
(***************************************************************************)
ChecksumLists(fs, rec) ==
  LET setFields == {a \in Known : fs[a] # Undefined}
      setKeys   == {k \in Keys : rec[k] # Undefined}
  IN  {EntriesOf(f, fs) \o EntriesOf(r, rec) :
         f \in {s \in Orderings(setFields) :
                  \A i, j \in DOMAIN s : i < j => Rank(s[i]) < Rank(s[j])},
         r \in Orderings(setKeys)}

(* The indices of the list's entries with id a.                           *)
Holders(l, a) == {i \in 1 .. Len(l) : l[i].id = a}

(* The constructor of the last entry with id a.                           *)
LastCtor(l, a) ==
  IF Holders(l, a) = {} THEN Undefined
  ELSE l[CHOOSE i \in Holders(l, a) : \A j \in Holders(l, a) : j <= i].ctor

(* The key addChecksumAlgorithm writes for id.                            *)
RecordKey(id) == IF id \in Known THEN Upper[id] ELSE id

VARIABLES
  phase,    \* "new", "configure" (extensions running), "resolved"
  fields,   \* runtimeConfig[algorithmId] for each known id
  record,   \* runtimeConfig.checksumAlgorithms
  list      \* the checksumAlgorithms array of the extension configuration

vars == <<phase, fields, record, list>>

TypeOK ==
  /\ phase \in {"new", "configure", "resolved"}
  /\ fields \in [Known -> MaybeCtor]
  /\ record \in [Keys -> MaybeCtor]
  /\ list \in Seq(Entry)

(* The runtime config the client was constructed with.                    *)
Init ==
  /\ phase = "new"
  /\ fields \in [Known -> MaybeCtor]
  /\ record \in {r \in [Keys -> MaybeCtor] :
                   \A k \in Keys \ InitialRecordKeys : r[k] = Undefined}
  /\ list = <<>>

(* getChecksumConfiguration(runtimeConfig)                                *)
GetChecksumConfiguration ==
  /\ phase = "new"
  /\ list' \in ChecksumLists(fields, record)
  /\ phase' = "configure"
  /\ UNCHANGED <<fields, record>>

(* Mutant: the new algorithm is recorded but not appended to the list.    *)
AddWithoutPush(id, ctor) ==
  /\ phase = "configure"
  /\ Len(list) < MaxList
  /\ record' = [record EXCEPT ![RecordKey(id)] = ctor]
  /\ UNCHANGED <<phase, fields, list>>

(* addChecksumAlgorithm(algo), called by an extension's configure().     *)
AddChecksumAlgorithm(id, ctor) ==
  /\ phase = "configure"
  /\ Len(list) < MaxList
  /\ record' = [record EXCEPT ![RecordKey(id)] = ctor]
  /\ list' = Append(list, [id |-> id, ctor |-> ctor])
  /\ UNCHANGED <<phase, fields>>

(* Mutant: the first entry of a known id wins.                            *)
FirstCtor(l, a) ==
  IF Holders(l, a) = {} THEN Undefined
  ELSE l[CHOOSE i \in Holders(l, a) : \A j \in Holders(l, a) : i <= j].ctor

(***************************************************************************)
(* resolveChecksumRuntimeConfig(extensionConfiguration): a known id's     *)
(* field takes the constructor of its last list entry; the result is      *)
(* assigned over the runtime config, so other fields keep their value.    *)
(***************************************************************************)
ResolvedField(l, a) == LastCtor(l, a)

Resolve ==
  /\ phase = "configure"
  /\ fields' = [a \in Known |->
                  IF Holders(list, a) = {} THEN fields[a]
                  ELSE ResolvedField(list, a)]
  /\ phase' = "resolved"
  /\ UNCHANGED <<record, list>>

Next ==
  \/ GetChecksumConfiguration
  \/ \E id \in ExtensionIds, ctor \in Ctors : AddChecksumAlgorithm(id, ctor)
  \/ Resolve

Spec == Init /\ [][Next]_vars

-----------------------------------------------------------------------------
(***************************************************************************)
(* After the extensions ran, the constructor the algorithm selector finds *)
(* under checksumAlgorithms[ID] (the upper-case key, checksum.integ.spec  *)
(* lines 136-139) is the one on the config field (lines 141-142): an      *)
(* extension that overrides a known algorithm overrides it everywhere.    *)
(***************************************************************************)
KnownAlgorithmConsistent ==
  phase = "resolved" =>
    \A a \in Known :
      record[Upper[a]] # Undefined => fields[a] = record[Upper[a]]

=============================================================================
