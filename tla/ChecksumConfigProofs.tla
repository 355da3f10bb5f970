------------------------ MODULE ChecksumConfigProofs ------------------------
(***************************************************************************)
(* Proofs about ChecksumConfig for every set of algorithms, constructors  *)
(* and list bound: when extensions add algorithms under their lower-case  *)
(* ids, resolveChecksumRuntimeConfig leaves every known algorithm's field *)
(* equal to the record entry the algorithm selector reads.                 *)
(***************************************************************************)
EXTENDS ChecksumConfig, FiniteSetTheorems, SequenceTheorems, TLAPS

(* No upper-case id is passed to addChecksumAlgorithm or is in the user's  *)
(* record: the case the code handles as the integ test expects.           *)
LowerCaseIds ==
  /\ ExtensionIds \cap UpperIds = {}
  /\ InitialRecordKeys \cap UpperIds = {}

(* The shapes of the variables the proof relies on.                        *)
ShapeOK ==
  /\ phase \in {"new", "configure", "resolved"}
  /\ record \in [Keys -> MaybeCtor]
  /\ list \in Seq(Entry)

(* Before getChecksumConfiguration nothing has been listed or added.       *)
NewInv ==
  phase = "new" =>
    /\ list = <<>>
    /\ fields \in [Known -> MaybeCtor]
    /\ \A a \in Known : record[Upper[a]] = Undefined

(* c is the constructor of the last entry of id a in l.                   *)
HasLast(l, a, c) ==
  \E k \in Holders(l, a) : (\A j \in Holders(l, a) : j <= k) /\ l[k].ctor = c

(* The record's upper-case entry of a known id was written by the add     *)
(* that also pushed the list's last entry of that id.                     *)
RecordInv ==
  \A a \in Known :
    record[Upper[a]] # Undefined => HasLast(list, a, record[Upper[a]])

(* After resolve each listed known id's field is its last constructor.    *)
ResolvedInv ==
  phase = "resolved" =>
    \A a \in Known : Holders(list, a) # {} => fields[a] = LastCtor(list, a)

IInv == ShapeOK /\ NewInv /\ RecordInv /\ ResolvedInv

-----------------------------------------------------------------------------
(* LastCtor finds the last entry when there is one.                       *)
LEMMA LastCtorIsLast ==
  ASSUME NEW l \in Seq(Entry), NEW a, NEW c, HasLast(l, a, c)
  PROVE  Holders(l, a) # {} /\ LastCtor(l, a) = c
  <1> DEFINE H == Holders(l, a)
  <1>1. PICK k \in H : (\A j \in H : j <= k) /\ l[k].ctor = c
    BY DEF HasLast
  <1>2. H \subseteq Nat
    BY DEF Holders
  <1>3. (CHOOSE i \in H : \A j \in H : j <= i) = k
    <2>1. \A i \in H : (\A j \in H : j <= i) => i = k
      BY <1>1, <1>2
    <2>2. QED
      BY <1>1, <2>1
  <1>4. QED
    BY <1>1, <1>3 DEF LastCtor

(* Appending an entry of id a makes it a's last entry.                     *)
LEMMA HasLastAppendSame ==
  ASSUME NEW l \in Seq(Entry), NEW e \in Entry, NEW a, e.id = a
  PROVE  HasLast(Append(l, e), a, e.ctor)
  <1> DEFINE n == Len(l) + 1
  <1>1. n \in Holders(Append(l, e), a)
    BY DEF Holders
  <1>2. \A j \in Holders(Append(l, e), a) : j <= n
    BY DEF Holders
  <1>3. Append(l, e)[n].ctor = e.ctor
    OBVIOUS
  <1>4. QED
    BY <1>1, <1>2, <1>3 DEF HasLast

(* Appending an entry of another id keeps a's last entry.                  *)
LEMMA HasLastAppendOther ==
  ASSUME NEW l \in Seq(Entry), NEW e \in Entry, NEW a, NEW c, e.id # a,
         HasLast(l, a, c)
  PROVE  HasLast(Append(l, e), a, c)
  <1>1. Holders(Append(l, e), a) = Holders(l, a)
    BY DEF Holders
  <1>2. \A i \in Holders(l, a) : Append(l, e)[i] = l[i]
    BY DEF Holders
  <1>3. QED
    BY <1>1, <1>2 DEF HasLast

(* The orderings of a finite set are sequences of it.                      *)
LEMMA OrderingsAreSeqs ==
  ASSUME NEW S, IsFiniteSet(S)
  PROVE  Orderings(S) \subseteq Seq(S)
  <1>1. Cardinality(S) \in Nat
    BY FS_CardinalityType
  <1>2. [1 .. Cardinality(S) -> S] \subseteq Seq(S)
    BY <1>1, SeqDef
  <1>3. QED
    BY <1>2 DEF Orderings

(* The lists getChecksumConfiguration builds are sequences of entries.     *)
LEMMA ChecksumListsType ==
  ASSUME NEW fs \in [Known -> MaybeCtor], NEW rec \in [Keys -> MaybeCtor]
  PROVE  ChecksumLists(fs, rec) \subseteq Seq(Entry)
  <1> SUFFICES ASSUME NEW l \in ChecksumLists(fs, rec) PROVE l \in Seq(Entry)
    OBVIOUS
  <1> DEFINE setFields == {a \in Known : fs[a] # Undefined}
             setKeys   == {k \in Keys : rec[k] # Undefined}
             sorted    == {s \in Orderings(setFields) :
                             \A i, j \in DOMAIN s : i < j => Rank(s[i]) < Rank(s[j])}
  <1>1. IsFiniteSet(setFields) /\ IsFiniteSet(setKeys)
    BY ChecksumAssumption, FS_Subset DEF Keys
  <1> DEFINE Lists(f, r) == EntriesOf(f, fs) \o EntriesOf(r, rec)
             orders == Orderings(setKeys)
  <1>2. ChecksumLists(fs, rec) = {Lists(f, r) : f \in sorted, r \in orders}
    BY DEF ChecksumLists
  <1> HIDE DEF Lists, sorted, orders
  <1>3. PICK f \in sorted, r \in orders : l = Lists(f, r)
    BY <1>2
  <1> USE DEF Lists, sorted, orders
  <1>4. f \in Seq(setFields) /\ r \in Seq(setKeys)
    BY <1>1, OrderingsAreSeqs
  <1>5. EntriesOf(f, fs) \in Seq(Entry)
    BY <1>4 DEF EntriesOf, Entry, MaybeCtor, Keys
  <1>6. EntriesOf(r, rec) \in Seq(Entry)
    BY <1>4 DEF EntriesOf, Entry, MaybeCtor
  <1>7. QED
    BY <1>3, <1>5, <1>6

-----------------------------------------------------------------------------
LEMMA InitIInv ==
  ASSUME LowerCaseIds
  PROVE  Init => IInv
  <1> SUFFICES ASSUME Init PROVE IInv
    OBVIOUS
  <1>1. ShapeOK /\ fields \in [Known -> MaybeCtor]
    BY DEF Init, ShapeOK
  <1>2. \A a \in Known : record[Upper[a]] = Undefined
    <2> SUFFICES ASSUME NEW a \in Known PROVE record[Upper[a]] = Undefined
      OBVIOUS
    <2>1. Upper[a] \in UpperIds
      BY DEF UpperIds
    <2>2. Upper[a] \in Keys \ InitialRecordKeys
      BY <2>1 DEF LowerCaseIds, Keys
    <2>3. QED
      BY <2>2 DEF Init
  <1>3. QED
    BY <1>1, <1>2 DEF Init, IInv, NewInv, RecordInv, ResolvedInv

LEMMA NextIInv ==
  ASSUME LowerCaseIds
  PROVE  IInv /\ [Next]_vars => IInv'
  <1> SUFFICES ASSUME IInv, [Next]_vars PROVE IInv'
    OBVIOUS
  <1> USE DEF IInv
  <1>1. CASE GetChecksumConfiguration
    <2>1. ShapeOK'
      <3>1. fields \in [Known -> MaybeCtor]
        BY <1>1 DEF GetChecksumConfiguration, NewInv
      <3>2. QED
        BY <1>1, <3>1, ChecksumListsType DEF GetChecksumConfiguration, ShapeOK
    <2>2. \A a \in Known : record'[Upper[a]] = Undefined
      BY <1>1 DEF GetChecksumConfiguration, NewInv
    <2>3. QED
      BY <1>1, <2>1, <2>2 DEF GetChecksumConfiguration, NewInv, RecordInv, ResolvedInv
  <1>2. ASSUME NEW id \in ExtensionIds, NEW ctor \in Ctors,
               AddChecksumAlgorithm(id, ctor)
        PROVE  IInv'
    <2> DEFINE e == [id |-> id, ctor |-> ctor]
    <2>1. e \in Entry /\ list' = Append(list, e)
      BY <1>2, ChecksumAssumption DEF AddChecksumAlgorithm, Entry
    <2>2. RecordKey(id) \in Keys
      BY ChecksumAssumption DEF RecordKey, Keys, UpperIds
    <2>3. ShapeOK'
      BY <1>2, <2>1, <2>2 DEF AddChecksumAlgorithm, ShapeOK, MaybeCtor
    <2>4. RecordInv'
      <3> SUFFICES ASSUME NEW a \in Known, record'[Upper[a]] # Undefined
                   PROVE  HasLast(list', a, record'[Upper[a]])
        BY DEF RecordInv
      <3>1. CASE id = a
        <4>1. record'[Upper[a]] = ctor
          BY <1>2, <3>1, ChecksumAssumption DEF AddChecksumAlgorithm, RecordKey, ShapeOK, Keys, UpperIds
        <4>2. QED
          BY <2>1, <3>1, <4>1, HasLastAppendSame DEF ShapeOK
      <3>2. CASE id # a
        <4>1. RecordKey(id) # Upper[a]
          BY <3>2, ChecksumAssumption DEF RecordKey, LowerCaseIds, UpperIds
        <4>2. record'[Upper[a]] = record[Upper[a]]
          BY <1>2, <4>1 DEF AddChecksumAlgorithm
        <4>3. HasLast(list, a, record[Upper[a]])
          BY <4>2 DEF RecordInv
        <4>4. QED
          BY <2>1, <3>2, <4>2, <4>3, HasLastAppendOther DEF ShapeOK
      <3>3. QED
        BY <3>1, <3>2
    <2>5. (NewInv /\ ResolvedInv)'
      BY <1>2 DEF AddChecksumAlgorithm, NewInv, ResolvedInv
    <2>6. QED
      BY <2>3, <2>4, <2>5
  <1>3. CASE Resolve
    <2>1. ShapeOK'
      BY <1>3 DEF Resolve, ShapeOK
    <2>2. ResolvedInv'
      BY <1>3 DEF Resolve, ResolvedField, ResolvedInv
    <2>3. (NewInv /\ RecordInv)'
      BY <1>3 DEF Resolve, NewInv, RecordInv
    <2>4. QED
      BY <2>1, <2>2, <2>3
  <1>4. CASE UNCHANGED vars
    BY <1>4 DEF vars, ShapeOK, NewInv, RecordInv, ResolvedInv, HasLast, Holders
  <1>5. QED
    BY <1>1, <1>2, <1>3, <1>4 DEF Next

-----------------------------------------------------------------------------
(***************************************************************************)
(* When every id an extension adds is a lower-case id, after              *)
(* resolveChecksumRuntimeConfig the selector's checksumAlgorithms[ID]     *)
(* entry and the config's field name the same constructor, for any        *)
(* algorithms, user config and order of additions.                        *)
(***************************************************************************)
THEOREM KnownAlgorithmsAgree ==
  ASSUME LowerCaseIds
  PROVE  Spec => []KnownAlgorithmConsistent
  <1>1. Init => IInv
    BY InitIInv
  <1>2. IInv /\ [Next]_vars => IInv'
    BY NextIInv
  <1>3. IInv => KnownAlgorithmConsistent
    <2> SUFFICES ASSUME IInv, phase = "resolved", NEW a \in Known,
                        record[Upper[a]] # Undefined
                 PROVE  fields[a] = record[Upper[a]]
      BY DEF KnownAlgorithmConsistent
    <2>1. HasLast(list, a, record[Upper[a]])
      BY DEF IInv, RecordInv
    <2>2. Holders(list, a) # {} /\ LastCtor(list, a) = record[Upper[a]]
      BY <2>1, LastCtorIsLast DEF IInv, ShapeOK
    <2>3. QED
      BY <2>2 DEF IInv, ResolvedInv
  <1>4. QED
    BY <1>1, <1>2, <1>3, PTL DEF Spec

=============================================================================
