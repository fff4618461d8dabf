# A verification of the GEISA schema repository's programs

The repository holds the GEISA message contracts (protocol buffers and JSON Schemas) and the programs around
them: example writers and readers in C and C++, the scripts that lint the JSON and run the demos, and the build.
The contracts say what messages there are; the programs have the behaviour. This directory models the programs in TLA+, checks them on
small instances with TLC and proves some of the properties for every instance with TLAPS.

## 1. Inventory

| Component | State it keeps | Operations | Talks to |
|---|---|---|---|
| Payload file helpers, `examples/helpers/nanopb_example_utils.h` and their copy in `metered_quantities_example_utils.h` | a `FILE*`, a buffer, a size; the files in `/tmp` | `geisa_write_message_file`, `geisa_read_message_file`, `ensure_directory` | the C library; every other program through the files |
| Example programs, `examples/*_example.c` and their helpers' walkthroughs | the command line | default set, `--demo`, positional names, reader modes | the payload helpers |
| Demo runner, `scripts/run-demos.sh` | `needs_build`, the binaries under `build/examples` | binary checks, one `make examples`, eight demos under `set -e` | the build, the programs, whoever runs programs meanwhile |
| Lint, `package.json`, `scripts/validate-json.mjs`, `scripts/validate-example-schemas.mjs` | `schemaByName`, `pendingSchemaNames`, `hasError` | parse everything; load schemas by a work list; resolve references; check examples | the file system, with an `await` before each read |
| Waveform reader, `examples/waveform_subscribe_and_read.cpp` | the response, the frame, a socket | `--demo`, `--write-rsp-sample`, `--write-req`, `--read-rsp` with socket and file fallback | the GEISA platform (not in the repository), files |
| Waveform frame decoder, the same file | four loops over one frame | preview raw and scaled, minimum and maximum raw and scaled | - |
| Build, `Makefile`, `mk/*.mk` | files, stamps, a wrapper script under `build/` | nanopb, C++ and protoc-c rules, `clean` | GNU make, protoc, the nanopb generator, compilers |
| Printers and sample values, `examples/helpers/*_example_utils.h` | one message as a C struct with presence flags and counts | `fill_demo_*`, `print_*_json`, `metered_print_*`, the second half of `*_decode_and_print_*_file` | nanopb; the payload helpers; other programs' messages |
| Message contracts, `*.proto`, `nanopb_options/` | - | declarations: fields, presence, enumerators, array sizes | nanopb and the programs compiled with them |

What is hard here, and what would make each part correct:

* **Payload files.** Every program uses fixed paths in `/tmp`, nothing is locked, `fopen "wb"` truncates before
  anything is encoded, small messages reach the file only in `fclose`, and a reader asks for the size first and
  reads later. Correct: a file holds the beginning of one message unless two writers overlapped on it; a quiet
  read returns what is stored; "wrote" means stored; a set is written in order; a demo prints what it wrote.
* **Demo runner.** Success must mean that every present demo ran and succeeded; a missing binary must have the
  one explanation its message gives.
* **Lint.** The loader and the resolver compute file names in different places; the work list grows while it is
  walked and references go in circles; files are read twice by two programs while someone may save them. Correct:
  every reference resolves to the file it names, nothing unrelated is read, nothing twice, success means every
  file was judged, lint ends, and its verdict on an example is what JSON Schema means by the schema.
* **Printers.** JSON is put together from literals with commas in them, by functions that each assume what came
  before; presence flags, array counts and enumerator names are repeated by hand in the writers and in the readers,
  and a reader meets messages of other programs too. Correct: one JSON document that says what the message says,
  for every message nanopb decodes, and a demo message arrives as it was assigned.
* **Waveform reader.** A response names a path that may be a socket or a file when it is looked at and something
  else when it is opened; the platform may go, or never answer. Correct: one whole frame is printed, failure only
  without a file to fall back on, no socket left open, and only `recv` can wait for ever.
* **Frame decoder.** Truncated payloads, zero channels, NaN and infinities, two loops that must agree.
* **Build.** Stamps touched by a second command, recipes that fail or are interrupted between them, parallel
  jobs, dependency lists kept by hand. Correct: a stamp stands for complete files, a make that succeeds brings
  everything up to date, does nothing twice, ends, and no recipe reads a file another is writing.

`PROJECT.json` lists the components and, under `hazards`, the places where this bites, with the properties that
cover each.

## 2. Modules

Every definition is translated from the code; `PROJECT.json` "map" names its lines.

| Module | Models | One step is |
|---|---|---|
| `PayloadExchange` | the payload helpers run by concurrent programs | one call that touches the file system |
| `PayloadStore` | what the exchange promises: each path a register whose writes are not atomic | beginning or end of a whole write or read |
| `PayloadExchangeStore` | the mapping under which `PayloadExchange` implements `PayloadStore` | no steps: the refinement mapping |
| `ExamplePrograms` | each program's command line, as the plan (files written, files decoded) it yields | no steps: operators |
| `RunDemos` | `run-demos.sh`, with a user running programs and `make clean` meanwhile | one check, build, demo or program run |
| `ValidateExamples` | `npm run lint`, with an editor saving files | one file read or one decision |
| `SchemaNames` | how the loader and `resolveRef` make a file's name of a reference | no steps: operators |
| `JsonSchema` | `resolveRef`, `typeMatches`, `stripAnnotations`, `validateSchema` | no steps: recursive operators |
| `JsonSchemaMeaning` | what the keywords mean in JSON Schema 2020-12, and the subset the validator claims | no steps: the reference definition |
| `GeisaMessages` | the messages the C examples exchange, as the protos and nanopb options declare them, and what nanopb does with them (external) | no steps: tables and operators |
| `MessagePrinters` | every print function of the C helpers, as the JSON tokens it writes | no steps: operators |
| `DemoMessages` | every `fill_demo_*`, as the C struct it leaves | no steps: operators |
| `JsonText` | a reader of JSON tokens (RFC 8259): is it a document, what does it say | no steps: the reference definition |
| `ShowMessage` | one message from a writer, or another program, to a reader's output | fill, write, send, decode, show |
| `WaveformFrame` | `DecodeAndPrintFrame` | one pass through a loop's body: one sample |
| `WaveformReader` | the rest of the waveform program against other programs and the platform | one call on a file or socket |
| `ExampleBuild` | the makefiles' rules carried out by make, with failures, interrupts, edits | one step of one recipe |
| `MC*` | instances of the module in the name, for TLC | |
| `*Proofs` | theorems about the module in the name (`WaveformPreviewProofs`: about `WaveformFrame`; `PayloadDeliveryProofs`: about `PayloadExchange` and `PayloadExchangeStore`), checked by TLAPS | |

How state corresponds to code, where it is not obvious:

* `PayloadExchange`. `Writes[p]`, `Reads[p]` are the plan of one program (`ExamplePrograms` says which plans
  exist). A file is a sequence of chunks, each tagged with the binary and message type that made it; `off` is the
  writer's own offset, so that a chunk written behind a truncation leaves a hole. `Block` is stdio's buffer.
  `want` and `buf` are `file_size` and `buffer` of the reader. `pb_decode` is nanopb's: `Decode` accepts whole
  messages and the empty file, and may accept or reject anything else.
* `PayloadExchange` implements `PayloadStore` under the mapping in `PayloadExchangeStore`: a path's register is the
  message in the file while no one writes and the last write was whole, otherwise `Torn`.
* `ValidateExamples`. A file's text is a JSON value or a schema, or `Broken` or `Absent`; `pending`, `loaded` and
  `schemaByName` are `pendingSchemaNames`, its keys and the map itself; `Join` is
  `path.normalize(path.join(dirname, ref))`; `Lookup` is that of `resolveRef`, its fallback included. The order in
  which the `Set` of a schema's references is walked is left open. `Judge` is a constant, for which the runs take
  `validateSchema` of `JsonSchema`; the proofs hold for every `Judge`.
* `JsonSchema`. A string is its length, a number counts halves, a pattern is the set of lengths it matches, so that
  every keyword can hold and fail. A result is `ok`, `errors` or `throws`, not the list of messages. Where the code
  recurses for ever (a reference that leads back to itself without going down in the value) it throws a RangeError,
  which `followed` finds.
* `GeisaMessages`. A decoded message is a function from the fields that were sent. A C struct before encoding is
  what was assigned, the `has_` flags and the counts, three separate things as in the code: `pb_encode` follows the
  flags and counts. The zero values (0, false, "", the first enumerator) are one `Zero`.
* `MessagePrinters` keeps the code's way of placing commas: `Then` for the literals that begin with one,
  `CommaBefore` for the loops, the `first_field` flag for the metered quantities. `Escaped` is
  `geisa_print_json_escaped`; a string is an ordinary one, one with characters it escapes, or one with a control
  character it does not. `LongLong` is the cast of `metered_print_json_integer_field`; all other conversions of
  integers have the sign of the field's type and keep its value.
* `ShowMessage`. The tables before the properties (`NotShown`, `OnlyNonZero`, `ShownAbsent`, `Unnamed`, `ShownSigned`,
  `Instead`) are the list of all that the readers leave out, add or show differently; everything else of a message
  has to appear, in its place and with its value.
* `WaveformFrame`. `t`, `ch`, `min`, `max` are `time_step`, `ch`, `min_v`, `max_v`; `rows`, `srows`, `ranges`,
  `sranges` are what is printed. Scaling multiplies by a positive number, so a scaled sample is the sample with
  the unit it is printed in. NaN compares false with everything.
* `WaveformReader`. The response fits the stream's buffer and is written when the stream is destroyed; the frame
  is written in chunks. `node` says what `stat` sees; `conn` is the platform's end of a connection.
* `ExampleBuild`. `newer[t]` holds the prerequisites written since target `t` was, instead of time stamps
  (time is assumed to be fine enough to tell two writes apart, and make's stat cache is left out). A source's
  content counts its edits, a made file's content maps what its recipe read to the content read: `UpToDate`
  compares that with the present. The rules are the code's, GNU make itself is external. In module mode
  make has one job, in plugin mode, where all recipes share one wrapper script, two. A recipe that runs the
  script while another has it truncated generates nothing and still touches its stamp; the history variables
  `skipped`, `cut` and `raced` name the targets to which that, a kill in mid-write or a save behind the
  recipe's back has happened, and the properties promise nothing of those until they are made again.

The modules hold, next to some definitions, a `Mutant of`: the definition with a plausible bug. For each property
of each passing run one mutant is listed, under which TLC finds the property violated.

## 3. Runs

| Run | Instance | What it shows |
|---|---|---|
| `payload_overlap` | two builds of a writer (one with a two-message set and a demo, one with a single message), one reader, two files, messages of one and two chunks, every call may fail, every program may be killed at every step | files hold the beginning of one message, reads return one generation, every path out closes its file |
| `payload_set` | two writers of the same set of two files, output directory absent, present or a plain file; mkdir, open, encode and kill | written means stored, a crash leaves a prefix of the set, demos print their own, the exchange implements `PayloadStore` and everything ends |
| `payload_diskfull` (violation) | the same with writes that may fail | `fclose` is not checked: "wrote" is printed over an empty file |
| `demos` | all eight demos, at most one source absent, none or one binary missing or nothing built, nanopb ready or not, one user run of thirteen command lines, `make clean` | success means every demo ran; readers then find their files; a missing binary is nanopb's |
| `lint` | six schemas with a circle, a diamond and two equal base names in two directories, three examples. Either one bad file at the start and one save at any moment, or any of twenty-one values under any of some two hundred schemas: each keyword, each combination of two subschemas, each kind of reference | the right schemas are loaded, once; success means all was checked, failure has its reason and lint ends; the verdict is what JSON Schema means |
| `lint_semantics` (violation) | the same without edits | lint does validate against the schemas, README.md says it does not |
| `messages` | each of the fourteen kinds of message file, as its writer fills it in and as another program may send it: full, with at most two fields, with all but one, with one field changed at any depth (sent as zero, every enumerator and an unknown one, arrays of one, two, as many elements as fit and one more, strings that need escapes, NaN, an unsigned 64-bit number no signed one can hold) | the output is one JSON document and says what the message says; the demos arrive whole |
| `waveform_frame` | every int16 and float32 frame up to five samples over three and four values, zero to three channels, odd sizes | decoder reads in bounds, prints what is there |
| `waveform_scale` (violation) | three channels, one to three of them voltages | the second voltage channel is printed in amperes |
| `waveform_reader` | `--demo`, `--write-rsp-sample`, `--read-rsp` on one path, five initial file systems, the platform coming or going once and sending a frame longer than the buffer | one whole frame is printed, failure has its reason, the socket is closed and only `recv` waits |
| `build` | make of a discovery, a sensor or the C++ program and the family's stamps, twice, one edit of an imported proto, an options file or a helper; failures, Control-C, kill and clean anywhere | stamps are honest, recipes find their inputs finished, a make that succeeds brings everything up to date, nothing is made twice and every make ends |
| `build_c` (violation) | `make c` twice | `c` does not regenerate what exists, the comment over it says it does |

**Bounds.** `MaxEdits`, `MaxMakes`, `MaxUserRuns`, `MaxAbsent`, `MaxMissing`, `MaxMoves` bound what the
environment does; `Frames`, `Size`, `FrameLen`, `Capacity` are the sizes of data. Two programs are enough for a
torn file and a third to read it; with `Block` = 2 a message of two chunks is
written by `fwrite` and one of one chunk by `fclose`, and both can be cut short; three channels and five samples give a complete step, a step cut short and a
second preview; two makes give a first one that goes wrong and a second that has to repair it. The printers have no state but
the flag for the first field, so a fault shows in a message where one or two fields are present or absent, which
`messages` has at every level; a decision of `validateSchema` involves a keyword, or two subschemas, and `lint`
has every pair of the five subschemas it uses.

**Fairness.** Weak fairness of each program's own steps (a process the operating system schedules), of lint's and
of make's. None for the platform, for editors and users, for `Kill` or for any fault: nothing obliges them.
Liveness is therefore stated without their help, and `OnlyRecvWaits` says exactly where the platform is needed.

`messages` has no liveness: a reader's run is a straight line, and `Terminates` is about its calls.

**Findings.** `payload_diskfull`: `fclose`'s result is ignored. `lint_semantics`, `waveform_scale`, `build_c`: a
document, a schema and a comment say something else than the code does. The runs print the traces.

## 4. Proofs

* `PayloadExchangeProofs`: `TypeCorrect` (TypeOK) and `NoForeignChunks` (UnmixedIsPrefix), for any programs,
  plans, sizes and faults. TypeOK is not inductive: that `wrote` and `printed` index a message of the plan has
  to be carried along (`TInv`). A file being written is the prefix of its message because a lone writer's offset
  is the file's length; the invariant `WInv` says that, and that a file that is not mixed has at most one writer,
  the one that opened it last.
* `PayloadDeliveryProofs`, on top of it, for any programs, plans, sizes, schedules and kills:
  * `FilesAreClosed` (DescriptorsReturned): `Returned` says which file is open at each call, for every way out.
  * `ReadsAreOfOneEncoding` (ReadsOneGeneration) and `PrintsTheStoredMessage` (PrintsWhatIsStored), from `WInv` and
    `ReadInv`: what a reader without a writer beside it has in `want` and `buf` is the length and a beginning of
    what the file holds.
  * `WroteIsStored` (WroteMeansStored), `SetsAreWrittenInOrder` (CrashLeavesPrefixOfSet) and `DemoShowsItsOwn`
    (DemoPrintsItsOwn), all three for fault sets without `"write"`. That hypothesis is the finding of
    `payload_diskfull`: the result of `fclose` is ignored, so without it they are false. The invariant `KeptInv`
    says of each message counted in `wrote` that its file holds it whole, or has been opened for writing since.
    `SetsAreWrittenInOrder` also assumes what its property is about, a set of different files none of which holds
    the message to be written already (`NewSet`).
  * `ImplementsStore` (StoreSpec), under the same hypothesis: every call of every program, kills included, is one
    step of `PayloadStore` or none, under the mapping of `PayloadExchangeStore`. The proof has one lemma for each
    kind of call; an open for writing begins a whole write, `fclose` ends it, and what lies between leaves the
    register `Torn` because its writer is still there.
  * `NoCallIsRepeated` (CallsGoForward): every step uses up a message, a call or a chunk, of which there are
    finitely many; that a writer's offset stays within its message is in `WInv`.
* `ValidateExamplesProofs`: `LoaderInvariant` is inductive: every loaded schema's targets are loaded or pending
  (`NothingForgotten`), everything loaded or pending comes from the table by references (`NothingMadeUp`), a
  schema is read once it is loaded and only then (`ReadsCounted`). From it follow `EveryRefResolves`,
  `OnlyReachableLoaded` and `EachSchemaReadOnce`, for any schemas, any references, circles included, and any
  number of saves.
  Also there: `SuccessIsEarned` (SuccessMeansChecked); its invariant `SInv` follows the two lists: the files
  `validate-json` has passed are parsed, an example off the list is judged or has no schema, and as long as
  `hasError` is down every verdict so far is `ok` against the schemas as loaded, which do not change any more.
  Its converse is `FailuresAreEarned` (FailureIsEarned), with `FInv`: while `hasError` is up there is a file that
  raised it, and every name in the work list is one that the table or a loaded schema asks for.
  `LintStepsAreCounted` (WorkRunsOut): a step that lengthens the work list loads a schema that was not loaded.
* `WaveformFrameProofs`: `LoopInv` ties the counters to the frame (a time step begun is complete in the payload),
  which with the division lemma gives `DecoderReadsInBounds` for any frame length, sample size and channel
  count; `ScanInv` says that `min` and `max` are the range of the samples scanned so far, and gives
  `RangesAreRight`; `DecoderTypeCorrect` goes along.
* `WaveformPreviewProofs`, on top of it: `PreviewShowsThePayload`, because the row under way is always the
  beginning of its time step (`PreviewInv`); and `ScaledLoopsAgree`. The latter needs three invariants: the scaled
  row repeats the raw row just printed (`RowsInv`), both scans end with a range of the same numbers (`ScanInv`), and
  a set of numbers has only one range if neither limit was moved past where it started (`TwinRanges`, `OneRange`):
  for the infinities `RangesRight` alone would leave two.

* `WaveformReaderProofs`, for any programs, modes, paths, frame lengths and platform: `ReaderTypeCorrect` (TypeOK),
  whose invariant `TInv` adds which response a program has read and how far its frame is written; `SocketIsClosed`
  (SocketClosed); `FailureIsExplained` (FailureExplained), a property of steps; `PrintsAStoredFrame`
  (PrintsStoredFrame), because the frame in hand is always a beginning of one stored frame or of one message
  (`OneFrame`) as long as nothing changed under the reader; `DemoDecodesItsOwn` (DemoDecodesItsFrame), which
  adds that only regular files hold anything (`OnlyFilesHold`); and `NoCallIsRepeated` (CallsGoForward), by which
  `recv` is the only place where a program can spend for ever.
* `RunDemosProofs`: `SuccessMeansAllRan` (SuccessRanEveryDemo), since until the script fails what ran is exactly
  what it has come past and found a source of (`RanSoFar`); `ComplaintIsExplained` (MissingBinaryExplained); and
  `ReadersAreReady` (ReadersReady). The latter needs lemmas about `ExamplePrograms`: the writers' demos write every
  file the readers' walkthroughs decode (`WritersCover`), no two families share a file (`PathTellsKind`), and a
  program without arguments writes what its demo does. With them `StoreInv` says that those files are absent,
  damaged by a user's failing run, or right. Users may do anything but name one of these files for another kind of
  message (`UsersKeepKinds`): `discovery_write_request_example /tmp/sensor-response.bin` breaks the promise, and no
  code prevents it. The instance satisfies it, which TLC evaluates.
* `ExampleBuildProofs`, for any goals, number of jobs, faults, edits and makes. First the rules themselves: what
  each kind of target waits for and reads, that rules do not go in circles (`RankFalls`), that what a recipe reads
  of another's output its rule waits for (`ReadsPrereqs`), and that every other file it reads is a prerequisite, or
  belongs to a stamp that is one, or is one of the `Unnamed` (`NamedReads`). Then:
  * `BuildTypeCorrect` (TypeOK).
  * `NothingIsMadeTwice` (NothingMadeTwice), with `NewInv`: a target stays out of date until its recipe is through,
    what an unedited make is done with is not, and what is fresh depends only on what is fresh.
  * `StampsStandForFiles` (StampMeansGenerated), with `Complete`.
  * `MakeLeavesUpToDate` (MakeBringsUpToDate), with `HasInv`: what a recipe has read, and what an up-to-date target
    was made from, is what its files hold now, except behind a stamp that is itself out of date (`Awaits`). That
    exception makes it inductive: an edit of an imported proto reaches a binary only when the stamp is touched.
  * `RecipesFindTheirInputs` (InputsAreWhole): a target make has turned to has all its prerequisites done
    (`PrereqsDone`), so nobody is writing what its recipe reads (`NoUnfinishedInput`), and what is done is whole
    (`DoneIsWhole`), unless a kill, a failure without a stamp or an empty wrapper has spoilt it.
  * `MakeIsNeverStuck` (NeverStuck), because among the targets not done yet one of least rank (`LeastRank`) waits
    for none of the others; and `MakeStepsAreCounted` (EachStepCounts): each step takes one target one stage on,
    and none back.

They rest on the named assumptions beside the constants, which TLC evaluates in the runs: among others that a plan
names each of its writes once (`WritesAssumption`), that the three paths differ and only regular files hold data
(`PathAssumption`, `InitiallyAssumption`), that only sources are edited (`EditableAssumption`), and that the three
file names put together at run time (`/tmp` and a name, a path and `.frame`) are new ones (`NamesAssumption`: the
prover knows strings only as different literals). Every safety property of these modules that a passing run checks
is proved. What is only model-checked, and why:

* liveness under fairness (`Terminates`, `Ends`, `OnlyRecvWaits`, `MakeEnds`): beyond this prover. What does not
  need fairness in them is proved, in properties stated beside their theorems, which no run needs to check again:
  `CallsGoForward` (twice), `WorkRunsOut` and `EachStepCounts` say of every step that it uses up something finite
  (that the measure is well-founded is left to the reader), and `NeverStuck` that make can go on. That a program which can go on does is the fairness, and that it always can is TLC's deadlock check;
* `VerdictIsMeaning`, `OutputIsJson`, `ShowsTheMessage` and `DemoArrives`: they are about `validateSchema`, the
  printers, a JSON reader and `pb_encode`, which recur over data of any depth, and would need induction over it.

What the runs made plain, without being a disagreement with any document:

* A discovery response without a status is printed with a comma first (`{"geisa-platform-discovery-rsp":{,`):
  `Headless` in `OutputIsJson`.
* A discovery module of type CUSTOM, and of any later type, is shown as COPROCESSOR_CARD; most status codes and sensor
  types are shown as the zero one by the readers that list only a few: `Unnamed`.
* The metered readers cast the `uint64` timestamps of the summation and demand totals and of the system to
  `long long`: from 2^63 on they are shown negative, while the timestamps beside them are printed unsigned:
  `ShownSigned`.
* The demo writers assign `nominal_phase_angle_deg`, `phase_n`, `temperature_celsius` and several energies that no
  reader prints: `NotShown`. Connection and actuator submessages that were not sent are printed as zeros:
  `ShownAbsent`.
* `uniqueItems` misses objects equal but for the order of keys, `then: false` counts as no `then`, keywords beside
  `$ref` are ignored, a reference without `#` is resolved from the root: `Reordered` and `InSubset`.

One fact of the repository needs no model: at this commit `geisa-application-manifest-schema.json` does not parse
(unescaped quotes at line 273), so lint stops in its second phase (`ParseFile` finds a `broken` file).

## 5. Not modelled

* Text: of a string only its length (lint) or whether it needs escapes (printers); JSON Pointer's `~0` and `~1`,
  UTF-16 lengths, regular expressions; the digits `%.6g` and `%.3f` keep.
* The 512-byte and `max_size` limits of strings; a reader given another type's file; of the metered quantities the
  fields the examples neither assign nor print.
* The wording of error messages, and which of several `validateSchema` reports.
* The nanopb and protobuf runtimes, make, compilers, markdownlint and the platform: external, modelled from how
  they are used. Parsing of damaged protobuf by the C++ program.
* The java, python, descriptor and `langs` targets (pattern rules of the kind `ExampleBuild` has), `setup-dev`,
  `setup-dev-venv.sh`, and the helpers that nothing calls: two of `example_utils.h`, `sensor_type_name`,
  `fill_demo_sensor_value_string`.
* `manifest.proto`, the repository's own JSON Schemas as data, and the profiles: declarations no program here gives
  a behaviour.

## 6. Plan

Done: payload exchange, programs and demos, lint with its validator, frame decoder, reader, build, messages with
their printers; the proofs of every safety property that does not need induction over data. What could be added:

1. Facts about the messages that need no induction: that presence flags and counts agree in every `fill_demo_*`.
2. Lemmas about `SchemaNames`, for reference forms the instances do not have.
