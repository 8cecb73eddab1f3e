# Formal models of cosmwasm-simulate

This directory holds TLA+ models of `src/src/main.rs` and the TLC configurations that check them. It also holds TLAPS proofs about the concurrency model. Every definition translates lines of `main.rs`, and `PROJECT.json` ("map") names those lines. The contract VM (`contract_vm`: ContractInstance, the schema analyzer, the terminal editor) is not part of this repository. Only the effect of a handle call on a contract's storage is modelled, and that part is taken from `spec.md` (marked `spec_modelled`).

## The system

`main.rs` runs up to three threads around one global table, `ENGINES`. It is a `static mut HashMap<String, ContractInstance>` used with no lock.

* **Watcher thread** (`watch_and_update`, `insert_engine`, lines 602-685). Once per second it polls the modification time of every artifact found by `load_artifacts`.
  * For a new time it builds a new instance and inserts it.
  * If the address already had one, it first sleeps 100 ms, then builds the new instance on a copy of the old instance's storage (`with_storage`).
  * A missing file makes `fs::metadata(..)?` return out of the function, and the thread ends.
  * After every pass it sends the first artifact's address on a channel.
* **Session thread** (`prepare_command_line`, `start_simulate_forever`, `start_simulate`, `simulate_by_json`, `simulate_by_auto_analyze`, `get_call_type`).
  * It waits for the first message on that channel.
  * `start_simulate` takes `ENGINES.get_mut` and keeps the `&mut` for its whole loop. In that loop the operator makes init/handle/query calls or switches contract. A switch returns to `start_simulate_forever`, which recurses.
  * Messages are typed as raw JSON when the contract exports no schema. Otherwise `input_message` builds them from the schema.
* **REST worker** (`call_engine` behind three rocket routes, one worker, lines 40-119). For each request it looks an address up and calls that instance.

## Modules

| module | models | state | actions |
|---|---|---|---|
| `Simulator` | ENGINES, watcher, session, REST worker, build tool | artifact `build/mtime/valid/present`; `registry` (ENGINES); `epoch` (table moves); `gen`; watcher `wpc/widx/seen/snap`; `queued` (channel); session `spc/active/heldEpoch/depth/sCall`; `hCall`; ghost `writes`, `calls` | `WatchPollMissing/Unchanged/Changed`, `WatchCopy`, `WatchInstallOk/Fail`, `SessRecv(Fail)`, `SessStart(Fail)`, `SessCallBegin/End`, `SessSwitch`, `HttpBegin/End`, `Rebuild`, `Vanish`, `Terminated` |
| `MessageBuilder` | `input_message`, `input_type`, `to_json_item`, `check_is_need_slash` | the chosen message variant `msg`, `isEnum`, struct `structS`, the text `out` as tokens, indices `j`, `m`, `pc`, ghost `given` (the lines typed) | `PromptScalar`, `PromptEmptyStruct`, `EnterStruct`, `PromptMember`, `CloseStruct`, `Finish` |
| `Registry` | what ENGINES promises (spec 4.4, 4.5), with no threads | `build/valid/present` of the files, `served` (build served per address, 0 for none), `up` | `Serve(i)` (install the file's current build if it loads), `Build(i)`, `Remove(i)`, `Stop` |
| `SimulatorProofs` | theorems about `Simulator`, including that it refines `Registry` | | |
| `MessageBuilderProofs` | theorems about `MessageBuilder` | | |
| `MCSimulator`, `MCMessageBuilder` | instances for TLC | | |

`Registry` also states and proves its own guarantees (`ServedNotAhead`, `ServedMonotone`).

### Simulator abstractions

* An artifact has two numbers:
  * `build` counts the writes of the build tool;
  * `mtime` is its modification time.
  Each write advances `mtime` by one tick. With `CoarseClock`, a write may also leave `mtime` as it was, when it falls in the same tick as the previous write.
* An instance is `[gen, ver, store]`:
  * `gen` names the install that made it;
  * `ver` is the build it was made from, as `new_instance` read the file at install time;
  * `store` counts the handle writes it holds.
* A call in flight records the address, the `gen` it was dispatched to and the `epoch` of the reference it runs through. The write lands only if the slot still holds that instance and the table has not moved (`Landed`). `writes` counts the handle calls the caller saw answered.
* `HashMap::insert` of an existing key overwrites the value in place. For a new key it may rehash. That outcome depends on capacity, and using a reference after a move is undefined behaviour. The model therefore lets the insert of a new key either keep or increase `epoch`. This over-approximates the real table: hashbrown starts empty and reallocates when the first and then the fourth key are inserted, so with two contracts the second insert never moves it. Allowing a move on every new key is sound for safety (it only adds behaviours), and `epoch` stands for "the table may have moved", not for the table's capacity. In the real table the `dangling_ref` move needs at least four artifacts, one of which first loads after the session started as the fourth key; the two-contract run shows the same interleaving with the capacity abstracted.
* Each action is one whole step of the code:
  * the poll of one artifact, with the `continue` and the trailing send at the end of the pass (`Advance`);
  * the 100 ms sleep followed by the storage copy;
  * the build-and-insert of `insert_engine`.
* The message-variant dialogue is left out. An unknown message name only prints and continues the loop. A wrong call type is rejected at line 296 only when `switch` is offered (more than one contract registered). With one contract registered, any other word goes on to the message prompt and to `engine.call` (line 472). The VM's `call` is not in this repository: it runs only `init`, `handle` and `query`, and an unknown type writes no storage. To the modelled state such a call is the same as an `init` or `query` call (`Landed` counts only `handle`). Which call is made is chosen with `\E k \in Kinds`.

### MessageBuilder abstractions

* The text is a sequence of tokens: `{`, `}`, `,`, a key `"name":`, a string literal (the characters between its quotes, together with the line it came from), and a verbatim literal.
* An operator line is a sequence over `a`, `q` (`"`), `b` (`\`), `n` (newline).
* `Init` chooses every schema of up to `MaxFields` members over the type names:
  * `string`;
  * `u64`;
  * `Binary` (`map_of_basetype` maps it to `string`);
  * a struct `S` with chosen members;
  * an empty struct `E`;
  * each either required or optional.
* The pop of the last character is `Pop`, which removes the last token. This is faithful only because the token popped is always a one-character `,` or `{`, and `PopTarget` checks and proves exactly that.
* `MessageBuilder` extends only `Naturals` and `Sequences`: `Lines`, `Concat` and `Pop` are written as sets and recursive functions in place of `BoundedSeq`, `FlattenSeq` and `Front`. That keeps the module free of recursive operators, so `MessageBuilderProofs` can prove about it.
* The reference definitions are:
  * `ValidJson`: a JSON reader as a token automaton;
  * `Decode`: JSON string decoding;
  * `RefMessage`: the message built by joining member lists with commas.

## Runs

| run | cfg | result | shows |
|---|---|---|---|
| simulator | `Simulator.cfg` | pass, ~356k states (contract 2 does not load at startup) | `TypeOK`, `SessionContractRegistered`, `StorageNoPhantom` (an install may lose a write, never invent one or take another contract's), `RegistryFair` (the abstract hot-reload fairness) |
| simulator_vanish | `SimulatorVanish.cfg` | pass, ~1.07M states | `RegistrySpec` (every step is a step of `Registry`: no address is emptied, no older or broken build is served), also when files disappear and the watcher dies |
| storage_lost | `StorageLost.cfg` | violation | a handle write during a reload is lost (`StorageNotLost`) |
| calls_race | `CallsRace.cfg` | violation | session and REST worker call the same contract at once (`CallsSerialized`) |
| dangling_ref | `DanglingRef.cfg` | violation | ENGINES may move under the session's `&mut` (`SessionRefValid`) |
| switch_self | `SwitchSelf.cfg` | violation | auto loop: switching to the active contract restarts it (line 379, `SwitchLeavesContract`) |
| watcher_dies | `WatcherDies.cfg` | violation | a missing artifact ends hot reload for good (line 638, `RegistryFair`) |
| first_load_fails | `FirstLoadFails.cfg` | violation | the first artifact failing to load ends the session (`SessionOutlivesFailedLoad`) |
| coarse_clock | `CoarseClock.cfg` | violation | two writes in one timestamp tick: the second build is never loaded (line 639, `RegistryFair`) |
| message_builder | `MessageBuilder.cfg` | pass, ~1.57M states | `MatchesReference`, `StringsRoundTrip`, `PopTarget` (the pop after a member list removes a trailing comma, or the `{` of a list whose members were all omitted, never anything else) |
| optional_omission | `OptionalOmission.cfg` | violation | all optional members left empty produce invalid JSON |
| backslash | `Backslash.cfg` | violation | a backslash in a string is not escaped |

Every violation is reported as a finding in `PROJECT.json`. Each property of a passing run has a mutant: a plausible bug in one mapped definition that TLC catches.

| mutant | of | breaks |
|---|---|---|
| `AdvanceNoWrap` | `Advance` | `TypeOK` |
| `WatchInstallFailDrops` | `WatchInstallFail` | `SessionContractRegistered` |
| `WatchPollChangedNoReload` | `WatchPollChanged` | `RegistryFair` |
| `WatchInstallOkUnchecked` | `WatchInstallOk` | `RegistrySpec` |
| `WatchPollChangedKeepSnap` (a first install does not reset to `MockStorage::default()` and takes the storage copied last, from another contract) | `WatchPollChanged` | `StorageNoPhantom` |
| `CloseStructNoPop` | `CloseStruct` | `MatchesReference` |
| `EscapeNoQuote` | `Escape` | `StringsRoundTrip` |
| `ItemNoComma` (to_json_item without its trailing comma) | `Item` | `PopTarget` |

### Bounds

The Simulator runs use two contracts, which is the smallest number for which:

* the switch is offered (`ENGINES.len() > 1`);
* a reload can interleave with calls on another contract;
* an insert of a new key can follow the session's start.

The other bounds:

* Two modification times give every artifact one rebuild. A rebuild may produce a valid or an invalid module.
* Two calls let one call overlap a reload and the other follow it.
* Two switches reach a switch back.
* In `Simulator.cfg` contract 2's first build does not load (`InitValid = {1}`). Its first install then comes after rebuilds and copies of contract 1, which is where a stale storage copy (`WatchPollChangedKeepSnap`) would show, and the session starts with one contract registered and later gains the switch.

With `N = 2`, "more than one contract registered" means both are. So the switch's existence check (line 340) cannot be distinguished from the property, and the mutant of `SessionContractRegistered` instead removes the old entry on a failed build.

The builder run covers:

* every message of up to two members;
* every struct `S` of one or two members;
* every line of at most one character.

This already contains every nesting and omission pattern the code distinguishes: an empty object, a struct among scalars, an optional struct, an enum wrapper, a quote, a newline.

### Fairness

`FairSpec` assumes weak fairness of:

* the watcher thread, which loops forever with sleeps;
* the session's non-interactive steps (recv, start, the return of a call);
* the REST worker's return of a call.

These are threads that run whenever they can, and calls in the modelled code always return. The operator's choices and the build tool are not assumed to act. `RegistryFair` needs no more than this. `RegistryFair` is the abstract `\A i : WF(Serve(i))`: a loadable build that stays in place is eventually served. Under the threads' fairness the watcher meets this, as long as files do not vanish (`WatcherDies.cfg`) and every write changes the timestamp (`CoarseClock.cfg`).

Deadlock checking is off only where the system really stops: `SimulatorVanish` and `WatcherDies`, where the watcher thread has ended, and the builder runs, where `input_message` returns.

## Proofs

### `SimulatorProofs` and `Registry`

All proofs are checked by `tlapm`, for every value of the constants that satisfies `ConstAssumption` (or `BuilderAssumption` for `MessageBuilder`).

* `IInvHolds`: `Spec => []IInv`.
* `TypeCorrect`: `Spec => []TypeOK`.
* `SessionContractRegisteredHolds`: `Spec => []SessionContractRegistered`.
* `StorageNoPhantomHolds`: `Spec => []StorageNoPhantom`. Every installed instance holds at most the handle writes answered for its address. Storage is lost in a reload race (the `storage_lost` run), but never duplicated or taken from another address, and an init or a query never writes it.
* In `Registry`: `ServedNotAheadHolds` (`Spec => []ServedNotAhead`, no address serves a build the file has not reached) and `ServedMonotoneHolds` (`Spec => ServedMonotone`, the served build never decreases).
* `ServedNeverRollsBack`: `Spec => Reg!ServedMonotone`. It follows from `Refinement` and the instantiated `Reg!ServedMonotoneHolds`: a result proved once about the abstract registry, carried to the threads by the refinement mapping.
* `Refinement`: `Spec => RegistrySpec`, that is `Spec => Reg!Spec`. The mapping is `served <- Served` (the `ver` of the instance in each slot, or 0) and `up <- Running`. The proof has two lemmas:
  * `InitRefines`: the initial state maps to an initial state of `Registry`.
  * `NextRefines`: each step maps to an abstract step or a stutter:
    * `WatchInstallOk` is `Serve(widx)`;
    * `Rebuild` and `Vanish` are `Build` and `Remove`;
    * the session's two ways of ending are `Stop`;
    * every other step is a stutter. A call's end changes only storage (lemma `ApplyServed`), and no other step changes the files, ENGINES or whether main returned.

`IInv` conjoins `TypeOK`, `SessionContractRegistered`, `StorageNoPhantom` and the following facts. None of the three is inductive alone, and each added fact is needed for a specific step:

* `SessionCallSet`: `sCall` is a call record exactly while the session is calling. A call's end applies `sCall`.
* `CopyFromInstance`: the copy step reads `registry[widx].store`.
* `NoSwitchBeforeReady`: `SessRecv` resets `active` to the first contract.
* `MtimeNotAhead`: `mtime <= build`. This keeps a rebuild's new timestamp within its bound.
* `SnapNoPhantom`: while an install is pending, `snap <= writes[widx]`. `StorageNoPhantom` is not inductive alone: `WatchInstallOk` installs `snap`. The copy step takes `snap` from the address's own instance, or the poll step sets it to 0, and `writes` only grows.
* `StorageNoPhantom` itself.

The lemmas are:

* `KeepEntries`: no step removes an entry from ENGINES. This is the code fact behind the theorem: a failed `new_instance` leaves the old entry.
* `AdvanceType` and `ApplyType`: the shared parts of several actions.
* `ApplyStorage`: a call's end only adds to `writes`, keeps every entry and its `ver`, and adds a storage write only together with an answered write.
* `InitIInv` and `NextIInv`: one case per action.

The theorems follow by PTL.

### `MessageBuilderProofs`

* `PopTargetHolds`: `Spec => []PopTarget`, for every schema size and line length. `PopTarget` states what the `params.pop()` of `input_type` and `input_message` (lines 229, 258) relies on: while a member list is being built, the text ends with `,` or with the list's `{`, and with `{` only if every member asked so far was an optional one left empty. So the pop never removes a key, a value or a `}`. The one way it goes wrong is the `{` of an all-omitted list, which is the `optional_omission` finding.
* `IInvHolds`: `Spec => []IInv`. `PopTarget` is not inductive alone, because its last clause reads `given[j][i]`. `IInv` adds two facts:
  * `Shape`: the member lists are sequences within `MaxFields`, the text is a sequence over `TokSet` (the tokens the actions append), and `j` and `m` stay within their lists;
  * `GivenFilled`: members not reached yet have no lines, and the struct being asked for has `m - 1` of them.

  TLC also checked `IInv` on the `message_builder` instance (1.57M states).
* The lemmas: `ItemShape` (what `to_json_item` appends is empty exactly for an omitted optional member, and otherwise ends with `,`), `FieldSeqsShape`, `AppendLast`, and one preservation lemma per action. `TokSet` names a string literal as `Str(Escape(l), l)`, so no fact about what `Escape` computes is needed.

The following are checked by TLC only:

* Liveness, that is the fairness part of the refinement (`RegistryFair`), which is beyond TLAPS here.
* `MatchesReference`, `StringsRoundTrip` and `OmissionKeepsJsonValid` of `MessageBuilder`. They are about what the recursive functions `Concat`, `Decode` and `ValidJson` compute for every input, which needs induction over the length of a sequence. The installed provers cannot instantiate the library's induction theorems (`NatInduction` takes a predicate parameter). A direct attempt with a concrete predicate was not proved.

## Not modelled

* `query_wasm`: whether and what a contract queries during a call is decided by its wasm code, which is not in this repository. A nested query would add a third holder of a `&mut` into ENGINES: the same race that `CallsSerialized` and `SessionRefValid` already exhibit.
* `load_artifacts` and the command line: file listing and argument parsing. Their outcome is the constants `N`, `InitValid` and `HttpEnabled`.
* CORS headers.
* The repeated ready message (line 679). The channel grows by one message a second, and the model saturates that count at `ChanBound`.
* The spec's expansion of optional struct members (4.2b). The code looks up the printed name `S?` unstripped (line 201). `MessageBuilder` models that lookup as the code does (`IsStruct`). The print form comes from the analyzer, which is outside this repository.
* The editor history.
* The unbounded recursion of `start_simulate_forever`: switches are bounded.

These are listed as hazards in `PROJECT.json`, with the reason no property covers them.

## Plan for later work

* Extend `Registry` with storage carried over across a reload. `Simulator` refines that only once the storage race (`StorageNotLost`) is fixed.
* Prove `Escape` and `Decode` facts once the provers can do induction over sequences.
