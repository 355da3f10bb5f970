# TLA+ verification of smithy-typescript (snapshot testing, checksum extension, HTTP bindings)

This directory holds TLA+ models of parts of the repository, the TLC
configurations that model-check them, and TLAPS proofs. `PROJECT.json` lists
the components, the runs, the mutants, the map from each definition to its
source lines, the findings and the hazards.

## The system and its parts

| Part | Source | What it does |
|---|---|---|
| Snapshot runner | `packages/snapshot-testing/src/SnapshotRunner.ts` | `run()` starts one async test case per operation schema. Each case sends its command through a client. The client's request handler records the serialized request. The case then writes or compares `req/<operation>.txt`. `run()` returns `Promise.all` of the cases. `executeCommand` retries with a mock endpoint on an `EndpointError`. |
| Snapshot request handler | `SnapshotRequestHandler.ts` | `handle()` traces `serializeHttpRequest(request)` into the case's logger and throws `RequestSnapshotCompleted`. This ends the send without a response. |
| Schema value generator | `structure/createFromSchema.ts` | Builds a deterministic input value for a schema. It stops recursion after the path names a shape three times and picks a union member from a path checksum. |
| Snapshot serializers | `serializers/*.ts` | Formatting: request text, header redaction, body-kind detection, JSON/XML/CBOR pretty-printing, event-stream message decoding. |
| Checksum runtime extension | `packages/smithy-client/src/extensions/checksum.ts` | Lists a client's checksum algorithms. Lets extensions add algorithms. Writes the result back onto the runtime config. |
| HTTP binding protocol | only its tests under `packages/core/src/submodules/protocols/` and `spec.md` | Binds input members to path, query, headers, prefix headers and body, and responses back to output members. |

How they interact: the runner builds a client per case. The client runs its
middleware (endpoint resolution, which may throw `EndpointError`, and the HTTP
binding serializer) and then calls the snapshot handler. The concurrency is
the runner's: all cases run at once and share the snapshot directory.

## Modules

- `SnapshotRunner.tla` models `run()`, `executeCommand` and the handler.
  - Constants:
    - `Cases`: the schema entries.
    - `CtorName`: each command class name, as a base plus a count of trailing `Command`s.
    - `Modes`.
    - The sets of cases that need an endpoint, that still fail with the mock endpoint, or that fail before the handler.
    - `MaxRetryDepth`.
  - Variables:
    - `mode`.
    - `runState`: the `Promise.all` state.
    - `pc`: per-case position.
    - `endpoint` and `depth`: the current `executeCommand` argument and the nesting.
    - `buf`: the case's trace string.
    - `disk`: operation name to file contents.
    - `reqDir`.
  - Actions:
    - `Run`: the synchronous prefix of `run()`. In write mode this is the `rmSync` and the start of every case.
    - `EndpointRetry`: the `EndpointError` catch.
    - `Send`: `client.send` settles through the handler or an error, and the trace is appended.
    - `File`: the synchronous rest of the case.
    - `Settle`: `Promise.all`.
  - Each action is one synchronous segment of the JavaScript code, between two awaits. Only those segments interleave.
- `ChecksumConfig.tla` models `getChecksumConfiguration`, `addChecksumAlgorithm` and `resolveChecksumRuntimeConfig` for one client construction.
  - Variables:
    - `fields`: the known-id fields of the runtime config.
    - `record`: `runtimeConfig.checksumAlgorithms`.
    - `list`: the algorithm array.
    - `phase`.
  - The record's insertion order is left open: `Object.entries` order depends on how the user built the record.
  - A record entry is a constructor or absent (`Undefined`). A key whose value is explicitly `undefined` would still be listed by `Object.entries`, but the record's type, `Record<string, ChecksumConstructor | HashConstructor>`, does not admit that value, so the model leaves it out.
  - The user's record keys (`InitialRecordKeys`) are lower-case in the runs. Only the user can create an upper-case entry before the extensions run; the extensions are not restricted.
- `EventStreamDecode.tla` models `SnapshotEventStreamSerializer.decode()`.
  - A message is a byte sequence.
  - Actions:
    - `Prelude`: the three prelude `getUint32`s, the payload `subarray` and the CRC read.
    - `DecodeHeader`: one iteration of the header loop, every type tag included.
    - `EndHeaders`: the loop exit and the nested `:chunk-signature` decode.
  - Bounds: DataView reads throw a RangeError outside the message, and `subarray` clamps. The model keeps both.
  - A nested decode runs after its frame's loop. The nesting is therefore a chain, held in `decoded`.
  - A header value is abstracted to its type tag and the bytes it was read from.
  - `FixedSize` (the bytes each fixed-size type skips) is written as a function over the type tags, so that both TLC and TLAPS can evaluate it.
  - What the event-stream encoder writes is described, not modelled: its code is not under `src/`. A frame's layout (`Frames`) lists its headers as `HeaderRec` records, the offset where each starts and `this.headers` after each. `EncodedHeader` and `FrameEncoded` say how the encoder lays out a header and a frame. `WireSize` gives the encoder's value sizes, apart from the decoder's `FixedSize`.
  - `EncodedInputs` is an assumption on the constants `Frames` and `Expected`: every well-formed input is the first frame of a chain of encoded frames, and a frame is followed by the one its payload holds exactly when it carries `:chunk-signature` and a non-empty payload. TLC evaluates it on `MCEventStreamDecode`, whose `Frames` are built by the same encoding as its inputs.
- `CreateFromSchema.tla` models `createFromSchema` as a recursive operator `Gen` over a schema graph.
  - A schema graph gives each schema id a kind, a qualified name, a value schema and members.
  - The path string is kept as the sequence of its pieces.
  - The substring test of `path.split(qualifiedName)` is the constant relation `Within` between names.
  - The char-code sum of the path is the sum of a per-piece `Weight`. `MCCreateFromSchema` gives the real char-code sums of the strings it uses.
  - The member name of a list's or map's value schema is `member` or `value` (`ValueMember`), as `NormalizedSchema.getValueSchema()` names them. That class is not under `src/`, so this is taken from its documented behaviour.
  - A single `Generate` step is the call in `executeCommand`. The module uses `RECURSIVE` and is checked by TLC only.
- `SnapshotCases.tla` is the abstract specification of `run()`: each case writes or compares its file in one atomic step (`Complete`), after `Start` and before `Settle`.
  - `SnapshotRunner.tla` instantiates it as `Atomic`, with the refinement mapping `CaseStatus`. A case is `pending` while it is `sending` or `filing`, and its `File` step is the atomic `Complete`. `Run` maps to `Start` and `Settle` to `Settle`. `EndpointRetry` and `Send` are stutters.
  - `ImplementsAtomicCases == Atomic!Spec` states the refinement, fairness included.
- `XmlFormat.tla` models the XML path of `ContentTypeDetection.formatStringBody`.
  - `Step` is one iteration of the `simpleFormatXml` loop, one character at a time.
  - `Return` is the `split`/`filter`/`join` and the `["xml", ...]` result.
  - `Catch` is the `try` that swallows the `RangeError` of a negative `" ".repeat` and returns the body unformatted, as `text`.
  - Characters are `<`, `>`, `/`, `?`, space, and `a` for every other character. The output is kept as its sequence of lines.
  - The properties read the tags and their depths from the input string with definitions of their own (`IsOpenTag`, `IsCloseTag`, `SelfClosing`, `Depth`).
  - The branches of the loop are an `if`/`else if` chain, so the `CASE` arms of `Step` have exclusive guards: the plain `>` arm excludes the `/>` and `?>` ends that earlier arms take.
  - `WellFormedXml` is an assumption on the constant `WellFormed`: every `<` is closed by a `>` with no `<` or `>` between, every `>` closes a tag, closing tags end in a plain `>`, declarations in `?>`, opening tags not in `?>`, and no closing tag goes below depth 0. The XML shape serializers write such bodies; their code is not under `src/`. TLC evaluates the assumption on `MCXmlFormat`'s `WellFormed`.
- `PayloadSnapshot.tla` models `SnapshotPayloadSerializer.toStringAsync` and `serializeChunk`, and composes them with the decoder.
  - A body is a record of its kind (undefined, string, Uint8Array, iterable, async iterable, other object) and, for a stream, its chunks.
  - A chunk is a record of its JavaScript type, its bytes (for a `Uint8Array`) and the event markers that its UTF-8 text, or `String(chunk)`, contains. `isEvent` is modelled on those markers (`IsEvent`).
  - `DecoderAssumption` restates the decoder's `EncodedInputs` over the constants passed to the decoder instance, so that the proofs can discharge the instantiated module's assumptions.
  - Actions:
    - `Dispatch`: the body kinds of lines 17-51. A body that is neither a stream nor undefined, a string or bytes throws.
    - `SerializeB64`: a chunk that fails `isEvent` is rendered in base64.
    - `StartDecode`: a chunk that passes `isEvent` goes to `new SnapshotEventStreamSerializer(chunk)`. A string has no `.buffer`, so `new DataView` throws a `TypeError`. Bytes start `decode()` from a new serializer's state.
    - `Decode`: one step of `EventStreamDecode`'s `Next`, through `Dec == INSTANCE EventStreamDecode` with the decoder's variables renamed (`dInput`, `dMsg`, ...).
    - `EndDecode`: `toString()` appends the event view, with the headers of the outer frame and of one inner frame (`Shown`), or the decoder's exception rejects `toStringAsync`.
    - `Resolve`: the iterator is done.
  - The chunks are awaited one after another, and nothing else runs in between, so the steps of one call never interleave with another.
- `MCSnapshotRunner.tla`, `MCChecksumConfig.tla`, `MCXmlFormat.tla`, `MCEventStreamDecode.tla`, `MCCreateFromSchema.tla` and `MCPayloadSnapshot.tla` fix the constants for TLC. `MCXmlFormat` generates every body the XML shape serializers can write, up to three levels deep, and three other bodies. `MCEventStreamDecode` builds its inputs with the event-stream encoding and gives, for each well-formed message, the header maps of its frames. `MCPayloadSnapshot` builds its event messages with `MCEventStreamDecode`'s encoder, through an `INSTANCE`.
- `SnapshotRunnerProofs.tla`, `ChecksumConfigProofs.tla`, `XmlFormatProofs.tla`, `EventStreamDecodeProofs.tla` and `PayloadSnapshotProofs.tla` hold the TLAPS proofs.

## Runs

| Run | Expect | Checks | Shows |
|---|---|---|---|
| `snapshot_runner` | pass | `SnapshotFaithful`, `RunCertifiesSnapshots`, `SnapshotWritesOwned`, `EveryCaseCompletes`, `ImplementsAtomicCases` | Runs two cases in both modes, over every possible earlier directory. Case `c1` needs the mock-endpoint retry. Case `c2` fails before the handler. `c1`'s class is named `HttpLabelCommandCommand`, so name stripping matters. Every completed case's file holds its own outcome. A resolved `run()` certifies all files. A file changes only when `run()` clears the directory in write mode, or when its own case completes and writes exactly its outcome. Every case completes. The concurrent runner also implements `SnapshotCases` (`ImplementsAtomicCases`): interleaved sends, retries and file writes of two cases are invisible in the files and in how `run()` settles, and each case completes as an atomic case does. |
| `snapshot_retry_unbounded` | violation | `EveryCaseCompletes` | A client that rejects the mock endpoint too makes `executeCommand` recurse without end (finding 1). |
| `event_stream_decode` | pass | `DecodeRoundTrip`, `HeaderStepsInSection`, `DecodeTerminates` | Inputs are about 60 encoded messages: every header value kind, a repeated name, a uuid, chunk-signature chains two frames deep and signed frames whose payload is not a message. About 270 more are copies with one byte overwritten by 0, 5 or 100. Well-formed messages decode without error to exactly their encoded headers at every frame. On them every header-loop iteration moves `i` forward and stays inside the headers section, although the loop never checks this (`HeaderStepsInSection`, an action property). Every input ends. |
| `event_stream_header_overrun` | violation | `HeadersWithinSection` | A damaged type byte makes a header read past the declared section, into the payload and CRC, without any error (finding 3). |
| `create_from_schema` | pass | `CutOnlyRecursive`, `UnionSetsOneMember` | Covers all valid schema graphs over two schemas, each a string, a list or map, or a structure, union or event stream with one or two members, from every structure root. Generation ends. A map, list or structure is empty exactly when its own schema encloses it twice. Every union sets one member. |
| `create_from_schema_prefix_names` | violation | `CutOnlyRecursive` | `ItemListPage { items: ItemList<Item> }`: `Item` is not recursive, yet it is generated as `{}` (finding 4). |
| `xml_format` | pass | `NeverThrows`, `ClosingTagsAtDepth` | Covers every serializer-shaped body of the instance: a declaration, text with `/` and `?`, empty and self-closing elements, and siblings. They are formatted without a `RangeError`, and every closing tag gets a line of its own indented four spaces per enclosing element. The three other bodies are a stray closing tag, one closing tag too many, and a CDATA section holding `</`. Each throws and falls back to `text`. |
| `xml_format_opening_tags` | violation | `OpeningTagsAtDepth` | `<a><a/><a/></a>`: the element after a self-closing sibling starts at column 0 (finding 5). |
| `payload_snapshot` | pass | `SnapshotShowsChunks`, `EncodedStreamsResolve` | Covers the four non-stream bodies and iterable and async iterable bodies of up to two chunks. The chunks are: a SigV4-signed event, the empty signed frame that ends a signed stream, an unsigned event, an exception message, a signed event with its length overwritten, plain bytes, the bytes of `<a:date>`, two strings and a number. A resolved snapshot has one rendering per chunk, in order. Encoded events show exactly the headers of their outer frame and of the frame they sign. Streams of encoded messages and chunks without event markers never reject. |
| `payload_snapshot_text_chunks` | violation | `TextChunksSerialize` | A string chunk holding `:date` is handed to the event-stream decoder, and `toStringAsync` rejects with a `TypeError` (finding 6). |
| `checksum_extension` | pass | `KnownAlgorithmConsistent` | Over any initial fields and any records whose user keys are lower case, with extensions adding lower-case known ids and a novel id in any order (up to 5 list entries), the selector's upper-case record entry and the config field agree after resolve. |
| `checksum_uppercase_id` | violation | `KnownAlgorithmConsistent` | An extension that adds `"SHA256"` leaves `config.sha256` at its old value (finding 2). |

Bounds:
- Two cases are enough for every two-actor interleaving: both orders of file writes and comparisons, and one case failing while the other is pending.
- `MaxRetryDepth = 3` is more than the one retry a correct client needs. A retry loop is seen as a lasso, which the liveness check finds.
- `MaxList = 5` lets the same known id appear in the config, in the record and twice from extensions.

`MCXmlFormat` generates every body that the XML shape serializers can write, up to three levels deep: an optional declaration, text holding `/` and `?`, empty and self-closing elements, and up to two siblings. It adds three other bodies. This covers every branch of the loop, each from every kind of predecessor.

`MCPayloadSnapshot` uses two chunks per stream. That is enough for a chunk rendered after another one, for a rejection after a chunk already rendered, and for every pair of chunk kinds. The event messages are the shapes the SigV4 event-stream signer writes: a signed frame holding an event, and the empty signed frame at the end.

`MaxFrames = 4` is never reached: each nested payload is at least 16 bytes shorter than its frame.

Deadlock checking is off in every MC configuration. Each system really does stop: `run()` settles, resolve runs once, `decode()` returns or throws, and `toStringAsync` resolves or rejects.

Fairness: `WF` on `Run`, on each case's steps and on `Settle`. Node's event loop runs every settled continuation, and a pending `client.send` against the snapshot handler always settles, because the handler throws. The checksum model is a safety-only specification. `decode()` and `simpleFormatXml` are synchronous, so `WF_vars(Next)` only says that they run on. `toStringAsync` awaits each chunk in turn, and every await of a settled promise resumes, so the same holds for `PayloadSnapshot`. The refinement's fairness (`WF` on `Start`, on each `Complete(c)` and on `Settle`) follows from the runner's own fairness. TLC checks it on the instance.

Each property of the passing runs has a mutant, a plausible bug that TLC must catch:
- stripping every `Command` (`replace(/Command/g, "")`);
- `Promise.all` resolving on the first case;
- `rmSync` of the snapshot directory run in compare mode too (`SnapshotWritesOwned`);
- the retry passing the same endpoint;
- resolve letting the first list entry win;
- a short header skipped as 4 bytes (`DecodeRoundTrip`, and `HeaderStepsInSection`: the last header's skip overshoots the section);
- the inner serializer given the whole message instead of the payload;
- cutting at the second occurrence;
- the union index compared without its increment;
- the two lines of the closing-tag branch swapped, which indents after lowering (`NeverThrows`);
- a closing tag indented by the full indentation (`ClosingTagsAtDepth`);
- the `EndpointError` traced into the buffer before the retry (`ImplementsAtomicCases`);
- `toString()` printing only the outer frame's headers (`SnapshotShowsChunks`);
- the DataView bound test off by one, refusing a read that ends at the last byte (`EncodedStreamsResolve`).

## Findings

1. `SnapshotRunner.ts:190`: the `EndpointError` retry is unbounded.
2. `checksum.ts:51`: `knownAlgorithms.includes(id)` is case-sensitive. An upper-case known id goes only into the record and not into the config field, unlike what `checksum.integ.spec.ts` expects of known algorithms.
3. `SnapshotEventStreamSerializer.ts:41`: the header loop never checks offsets against the headers section. Line 33 computes that section as `headers` and never uses it.
4. `createFromSchema.ts:20`: the recursion cut counts names as substrings of the path. It therefore cuts non-recursive shapes whose name is a prefix of an enclosing shape's name.
5. `ContentTypeDetection.ts:85`: after a self-closing tag, `simpleFormatXml` ends the line without indenting the next one. The next sibling's opening tag is therefore printed at column 0, while its closing tag is indented at its depth. For example, `<a><b/><c>x</c></a>` puts `<c>` at column 0 and `</c>` four spaces in.

6. `SnapshotPayloadSerializer.ts:65`: `serializeChunk` turns every chunk that is not a `Uint8Array` into a string in order to render it. It then casts any chunk whose text names `:date`, `:chunk-signature`, or both `:message-type` and `:event-type` to `Uint8Array` and decodes it. For a string, `decode()` calls `new DataView(undefined, ...)`, which throws a `TypeError`. The snapshot test of a stream of text chunks then fails instead of showing the chunk in base64.

## Proofs

`SnapshotRunnerProofs.tla` proves the following for all constants satisfying
`ConstantsAssumption` and `GeneratedCtorNames` (generated classes end in
`Command` and have distinct names):

- `TypeCorrect`: `Spec => []TypeOK`.
- `SnapshotsFaithful`: `Spec => []SnapshotFaithful`.
- `ResolvedRunCertifies`: `Spec => []RunCertifiesSnapshots`.
- `WritesOwned`: `Spec => SnapshotWritesOwned`, the action property. Lemma `OwnedWriteStep` shows that every `[Next]_vars` step from an `IInv` state satisfies `OwnedWrite`. `Run` changes files only in write mode. A `File` step that changes a file is in write mode, writes `SnapshotPath(c)` only, and `BufInv` says its buffer is `<<Outcome(c)>>`. No other action touches `disk`.

`SnapshotFaithful` is not inductive on its own. A `File` step in compare mode
needs the buffer to hold exactly the case's outcome, and `Settle` needs every
case done. The inductive invariant is:

`IInv == TypeOK /\ BufInv /\ IdleInv /\ ResolvedInv /\ SnapshotFaithful`

- `BufInv`: a buffer is empty before the send settles and holds `<<Outcome(c)>>` afterwards.
- `IdleInv`: no case has started before `run()`.
- `ResolvedInv`: resolved implies every case is done.

`RefinesAtomicCases` proves the safety part of the refinement:
`Spec => Atomic!Init /\ [][Atomic!Next]_Atomic!avars`.
- `InitRefines`: an initial state maps to an initial state of `SnapshotCases`.
- `NextRefines`: a step from a state satisfying `IInv` maps to an `Atomic!Next` step or a stutter. Its argument is one case per action. A `File` step is a `Complete` step because `BufInv` says the buffer holds exactly `<<Outcome(c)>>` when the case files. `Settle` is the abstract `Settle` because `CaseStatusOf` maps `done` and `failed` one to one.
- The fairness part of `ImplementsAtomicCases` is checked by TLC only.

The key lemma, `SnapshotPathInjective`, uses that removing one trailing
`Command` from distinct generated names yields distinct names. A write by one
case therefore never touches another case's file.

`ChecksumConfigProofs.tla` proves `KnownAlgorithmsAgree`:
`LowerCaseIds => (Spec => []KnownAlgorithmConsistent)` for every set of
algorithms, constructors, records and list bound. `LowerCaseIds` says that no
extension and no user record key uses an upper-case id; finding 2 shows that the
property fails without it. The inductive invariant is:

`IInv == ShapeOK /\ NewInv /\ RecordInv /\ ResolvedInv`

- `ShapeOK`: the phase, the record and the list have their types.
- `NewInv`: before `getChecksumConfiguration` the list is empty, the fields are typed and no known id's upper-case record entry is set. Nothing before that call writes the upper-case keys.
- `RecordInv`: a set upper-case entry of a known id `a` is the constructor of the last list entry of `a` (`HasLast`). Each `addChecksumAlgorithm` writes the record and appends to the list together. `HasLast` carries the existence of that last index, so no induction over the list is needed.
- `ResolvedInv`: after resolve, each listed known id's field is its last constructor.

Lemmas:
- `LastCtorIsLast`: `LastCtor` picks that last entry.
- `HasLastAppendSame` and `HasLastAppendOther`: the effect of an append on `HasLast`.
- `ChecksumListsType`: the lists `getChecksumConfiguration` can build are sequences of entries. It rests on `OrderingsAreSeqs`.

`XmlFormatProofs.tla` proves, for every set of bodies `Docs` over the six
characters and every `WellFormed` subset that satisfies `WellFormedXml`:

- `TypeCorrect`: `Spec => []TypeOK`.
- `FormattingNeverThrows`: `Spec => []NeverThrows`. `simpleFormatXml` never passes a negative count to `repeat` on such a body.

`NeverThrows` is not inductive. Whether a closing tag can lower the indentation
depends on how many elements the prefix already read has opened. The inductive
invariant ties the counter to the input:

`IInv == TypeOK /\ IndentBound /\ IndentInv /\ NeverThrows`

- `IndentInv`: while a well-formed body is in the loop, `indentation = 4 * Depth(xml, i+1)`, minus 4 while `i` is inside an opening or closing tag that counts toward the depth (`InCountedTag`). The code adds 4 at `<x` and subtracts 4 at `</`, then corrects at the `>` that ends the tag.
- `IndentBound`: the counter never goes below `-4`.

Lemmas:
- `DepthStep` gives `Depth(s, p+1)` from `Depth(s, p)` and the tag at `p`. `DepthFirst` gives `Depth(s, 1) = 0`.
- `TagUnique`, `BetweenTags`, `AtCloseTag`, `AtTagStart`, `AtText` and `AtTagEnd` say, from `WellFormedXml`, what the tag state is at each kind of character.
- `CharAtIndex` gives what `CharAt` returns at and around an index.
- `StepIndent` is the step case of the argument. At a closing tag, `Balanced` gives a depth of at least 1, so `indentation - 4 >= 0`.

`EventStreamDecodeProofs.tla` proves `DecodesEncodedMessages`:
`Spec => []DecodeRoundTrip` for every set of inputs, every frame bound and
every `Frames`/`Expected` that satisfy `EncodedInputs`. `decode()` never throws
on a message the encoder built, and when it returns, `decoded` is exactly the
header maps of the frames of the `:chunk-signature` chain. Like the model, the theorem assumes that `formatBody` returns, so it leaves out the CBOR branch (see "Not modelled").

`DecodeRoundTrip` is not inductive: whether the next DataView read is inside
the message depends on where the loop is in the layout. The inductive invariant
is a loop invariant over the layout's offsets, so no induction over the bytes is
needed:

`IInv == input \in DOMAIN Expected => \E f : AtFrame(f)`

- `AtFrame(f)`: `msg` is frame `f` of the chain, and `decoded` holds the header maps of the frames before it, or of all of them once done.
- Before the prelude, `this.headers` is empty.
- In the header loop, `hdrEnd` is the end of the layout's header section and `payload` is the frame's payload.
- In the header loop, `i` is the offset where some header `k` starts, and `this.headers` is what the headers before `k` give.

`HeaderLoopInSection` proves the action property `Spec => HeaderStepsInSection`
from the same invariant. On an encoded input, a step from `headers` to `headers`
can only be `DecodeHeader`. Lemma `HeaderLoopStep` shows that such a step starts
at some header `k` and stops at header `k+1`, which `HeaderEndAfter` puts
strictly later and the layout puts at or before `hdrEnd`. The `DecodeHeader`
case of `NextIInv` uses the same lemma.

Lemmas:
- `TagKinds`: the decoder's `FixedSize` agrees with the wire sizes, and the three kinds of type tags are disjoint.
- `SubArrayInside`: inside the message, `subarray(b, e)` is the bytes `b+1 .. e`.
- `HeaderStep`: one loop iteration at the start of an encoded header reads exactly that header. Every DataView read is inside the message, the switch takes the header's type, `i` moves to the next header and `this.headers` gains the header.
- `HeaderEndAfter`: a header ends after it starts. The `EndHeaders` case uses it to show that the loop stops at the last header.
- `FrameFacts`: the layout facts of one frame, unpacked from `EncodedInputs`.

`PayloadSnapshotProofs.tla` proves `EncodedStreamsAlwaysResolve`:
`Spec => []EncodedStreamsResolve` for every set of bodies and every
`Frames`/`Expected` layout that satisfies `DecoderAssumption`.
`DecoderAssumption`, in `PayloadSnapshot.tla`, restates the decoder's
`EncodedInputs` over the constants passed to it, and TLC evaluates it on the
payload runs. The theorem shares `DecodesEncodedMessages`' assumption that `formatBody` returns. Consider a stream whose chunks are all encoded messages or text
with no event marker. `toStringAsync` never rejects it.

The inductive invariant reuses the decoder's invariant through
`DP == INSTANCE EventStreamDecodeProofs`, with the decoder's variables renamed:

`IInv == body \in Bodies /\ k \in 0 .. Len(body.chunks) /\ status \in {...} /\ Decoding /\ DP!IInv /\ EncodedStreamsResolve`

TLC checked `IInv` as an invariant of the `payload_snapshot` instance before it was proved.

- `Decoding`: while a chunk is decoded, it is the next chunk. It is a `Uint8Array` whose text passed `isEvent`, and the decoder's `input` is its bytes.
- `EncodedStreamsResolve` alone is not inductive. A rejection comes from `EndDecode` when the decoder is in error. Only `DP!IInv` excludes that state, and only `Decoding` ties the decoder's input to the chunk being decoded.

Lemmas:
- `DecoderAssumptions`: the instantiated decoder module's assumptions hold of the composite's constants. tlapm gives an instantiated lemma with those assumptions as hypotheses, so every use of `DP!NextIInv` cites this lemma.
- `DecoderIdle`: a step that leaves the decoder alone keeps `DP!IInv`.
- `DecodeIsDecoderStep`: a `Decode` step is a step of the decoder module and keeps its input.
- `NoDecodeError`: in a good stream, the decoder is never in error while a chunk is decoded.
- `GoodEventChunk`: a chunk of a good stream that passes `isEvent` is an encoded `Uint8Array`. This is why the string branch of `StartDecode`, where `new DataView` throws, cannot be reached in a good stream.

Only TLC checks these:
- Liveness (`EveryCaseCompletes`, `DecodeTerminates`): TLAPS does not handle `ENABLED` and fairness here.
- The schema properties (`CutOnlyRecursive`, `UnionSetsOneMember`): `CreateFromSchema` is `RECURSIVE`, and tlapm loses its SMT backend in a module that reaches a `RECURSIVE` operator.
- `SnapshotShowsChunks`: not proved yet. A proof would also have to carry the rendered list `out` through the loop, as a per-chunk invariant, and tie each event rendering to `DecodeRoundTrip`'s result when `EndDecode` fires. `DP!IInv` already carries that result.
- `HeadersWithinSection`: TLC shows that it is violated (finding 3), so there is nothing to prove.
- `ClosingTagsAtDepth`: it reads the output lines through `SelectSeq` over the whole loop. tlapm 1.4.5 knows no fact about `SelectSeq`, not even how it acts on `Append`, and cannot expand its definition. Deriving those facts would need induction over the recursive function inside `SelectSeq`, which the installed provers cannot instantiate.
- The other bodies of `MCXmlFormat` (stray closing tag, CDATA): they do not satisfy `WellFormedXml`, and TLC shows that they throw and fall back to `text`.

## Not modelled, and why

- The framework `testCase` hook (for example vitest's `it`) returns nothing. `Promise.all` then waits for nothing. This is a hazard, not modelled yet.
- `updateHttpClientConfig` and `httpHandlerConfigs` only store a logger.
- Regex redaction, base64 and JSON pretty-printing: pure text formatting. Every failure in them is caught inside `formatStringBody`.
- The JSON, query and base64 paths of `formatStringBody`, header redaction and the layout of `serializeHttpRequest`: text formatting over strings, with no state and no exception that escapes.
- The CBOR branch of `formatBody` (`ContentTypeDetection.ts:57-63`): `serializeBytes` calls `cbor.deserialize`, which can throw on a malformed CBOR payload, and nothing catches it. This is not text formatting. It is left out because the codec is not under `src/`. So `EventStreamDecode`'s `EndHeaders` (`SnapshotEventStreamSerializer.ts:132`) and `PayloadSnapshot`'s `Dispatch` of a `Uint8Array` body assume that `formatBody` returns. That holds when the content type is not CBOR, as in every run: the only `:content-type` header in the runs does not name CBOR. It also holds for CBOR the codec built. `DecodeRoundTrip`, `EncodedStreamsResolve` and their theorems hold under this assumption. A malformed CBOR payload sent with a CBOR content type would make `decode()` throw.
- `PayloadSnapshotSerializer.ts`: an older copy of `SnapshotPayloadSerializer` that nothing imports.
- The HTTP binding protocol and `ChecksumStream`: their implementations are not under `src/`. Only tests and `spec.md` describe them.

## Plan for later work

1. `ChecksumConfigProofs` is done.
2. `HttpRequestBinder` (from `spec.md` and the test's `ToStringTestShapeSerializer`): the idempotency token is generated once, prefix headers do not clobber explicit headers, and the path and query are built from the right members. Abstract spec plus refinement.
3. `HttpResponseBinder`: the Unit-output body is drained before return, a streaming payload is handed over unread, and no undefined keys appear. The body is a concurrent producer.
4. `EventStreamDecode` is done apart from `formatBody`. Next: `serializeEventHeaders` and `toString`, which print only one inner level.
5. `CreateFromSchema` is done. Next: graphs over three schemas, and anonymous (`UnknownSchema!`) collections.
6. `XmlFormat` is done, and `NeverThrows` is proved. `PayloadSnapshot` models `toStringAsync` and `serializeChunk`, and `EncodedStreamsResolve` is proved. Next: a proof of `SnapshotShowsChunks`, then the `formatBody` of the event payload.
