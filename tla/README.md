# TLA+ models of uncloud's compatibility and secret pipeline and its image commands

This directory holds TLA+ models of the parts of the repository that have
real logic, TLC configurations that check them on small instances, and
TLAPS proofs of the main invariants of every component but the scanner.

## The system and its parts

| Part | Source | Module(s) | Status |
|---|---|---|---|
| Secret resolver `secretSpecsFromCompose` | `src/pkg/client/compose/secret.go` | `SecretTypes`, `SecretResolve`, `SecretResolveAbstract`, `SecretResolveProofs`, `MCSecretResolve` | modelled, invariants and refinement proved |
| Cross-validator `ValidateSecretsAndMounts`, `SecretMount.Validate`, `GetNumericUid/Gid` | `src/pkg/api/secret.go` lines 30-125 | `SecretTypes`, `SecretValidate`, `SecretValidateProofs`, `MCSecretValidate` | modelled, type invariant and verdict (64-bit build) proved |
| Compatibility scanner `CheckProjectWarnings` | `src/pkg/client/compose/warnings.go` | `Warnings`, `MCWarnings` | modelled |
| `Warning.String`, `SecretSpec.Equals` | same files | none | not modelled: formatting and a pure comparison |
| Image pull `pull`, `toProgressEvent` | `src/cmd/uncloud/image/pull.go` | `Pull`, `PullProofs`, `MCPull` | modelled (the producer from the spec), type, progress and outcome invariants proved |
| Image rm `remove` and inspect `inspect` | `src/cmd/uncloud/image/rm.go`, `inspect.go` | `ImageCommands`, `ImageCommandsProofs`, `MCImageCommands` | modelled, all three invariants proved |
| Image prune and tag | appended to `src/pkg/api/secret.go` after the validator | none | not modelled (see below) |
| Windows firewall hooks | `src/internal/machine/firewall/iptables_windows.go` | none | not modelled: they only return "not supported" |

The resolver and the scanner are independent. Both read a project that
compose-go has already parsed. The deploy pipeline passes the resolver's
output (specs and mounts) to the cross-validator. All three are
synchronous, single-threaded functions that terminate. The only concurrency
around them is a file that may change on disk between two reads; the spec
puts that out of scope.

`uc image pull` is the one place with real concurrency. The cluster client
(outside this repository) fans the pull out to the machines and returns a
channel. Its goroutines send each machine's messages into that channel, and
it closes the channel when all of them are done. `pull` ranges over the
channel and renders each message as a progress event.

## Modules

**`SecretTypes`** declares the shared data:
- secret definitions (`types.SecretConfig`), service references (`types.ServiceSecretConfig`), `api.SecretSpec` and `api.SecretMount`;
- the default mount path `/run/secrets/<name>`;
- the joining of a relative secret file to the working directory;
- `filepath.IsAbs`.

Names, payloads, paths and uid strings are members of small constant sets, because the code only compares and copies them. The empty string is the constant `Empty`.

**`SecretResolve`** models one call of `secretSpecsFromCompose`:
- The inputs (`secrets`, `serviceSecrets`, `fs`, the file system) are variables chosen by `Init` and never changed afterwards.
- `i` is the loop index. `secretSpecs` and `secretMounts` are the slices being built. `status` and `err` are the return.
- Each iteration is one action: `NotFound`, `External` and `ReadFails` are the three `return nil, nil, err` paths, and `ResolveRef` is a successful iteration, which appends the spec and the mount.
- `Return` is the final `return`.

**`SecretResolveAbstract`** is the contract of spec section 4.2 as one atomic step. Either every reference resolves and the output holds one spec and one mount per reference, in order, or the first failing reference decides the error and nothing is returned. `SecretResolve` refines it under this mapping: while the loop runs, the abstract outputs are empty; afterwards they are the loop's outputs. The loop's steps then map to stutters, and its last step maps to `Resolve`.

**`SecretValidate`** models one call of `ValidateSecretsAndMounts`:
- `phase` says which of the two loops is running. `j` is its index, `secretMap` is the map of names, and `verdict` records the error returned and the entry it was about.
- `strconv.ParseUint(s, 10, 64)` and `int(uid) < 0` are modelled by what they do on digit strings. Go's widths are scaled down: `ParseBits` stands for the 64 bits of `ParseUint`, and `IntBits` stands for the width of `int`, which is `ParseBits` on a 64-bit build and half of it on a 32-bit build. With 6 bits, every value around 2^5 and 2^6 is a two-digit string that TLC enumerates.
- `ExpectedVerdict` states spec section 4.3 independently of the loops.

**`Warnings`** models `CheckProjectWarnings`:
- A service's configuration is reduced to what the checks read: the set of catalogue keys whose field is set, plus the fields with rules of their own (`depends_on`, `networks`, `network_mode`, `attach`, and the deploy block with its placement and `update_config`).
- The catalogue is the list of keys in the order of the code's `if` blocks.
- `checkServiceWarnings` selects the keys whose check holds, appends the deploy warnings, and sorts them by key. The sort uses `SortedKeys`, the byte order of Go's `<` on the keys.
- `CheckService` is one iteration of the loop over `project.ServiceNames()`. compose-go returns those names sorted, and `NameOrder` is that sorted list.
- `declared` is the order in which the compose file lists the services.

**`Pull`** models the callback that `pull` passes to `progress.RunWithTitle`, and the stream it reads:
- Consumer, translated from `pull.go`:
  - `OpenFails` and `Open` are the two outcomes of `PullImage`.
  - `Receive` is one iteration of `for msg := range ch`: the `msg.Err` return, the `started` flag and its "Pulling..." event, then `Render`.
  - `Render` is the `ID` and `Status` branches. It calls `toProgressEvent`, which returns nil for a message without `Progress`.
  - `LoopEnd` is the end of the range on a closed, drained channel: the "Pulled" event and `return nil`.
- A message is reduced to the fields the loop tests: error, layer with progress, bare ID, status, or blank. Progress numbers and texts are left out. `events` records the kind of each event written.
- Producer, modelled from the spec's fan-out contract because that code is not in this repository:
  - each machine's sender sends its script into a channel of capacity `Cap` (`Send`);
  - a machine's script ends with its error, if it has one;
  - once the context is canceled (`Cancel`), a sender still holding messages gives up (`Abort`);
  - the channel is closed once every sender is finished (`Close`).

`PullProofs` proves the type invariant, `ProgressWellFormed` and `OutcomeMatchesStream` for every number of machines, stream length and capacity.

**`ImageCommands`** models `remove` and `inspect`. One invocation runs one of them (`cmd`); they share the setup, `MachineName` and the shape of the loop:
- **Inputs.** Each is a sequential loop over the image arguments. Its inputs, chosen by `CInit`, are:
  - whether connecting or listing machines fails (`setup`);
  - which machines `ListMachines` returned (`listed`);
  - the result of each cluster call for each image (`calls` for rm; `local` and `remote` for inspect): a failure, or the answers of some subset of the machines.
- **Actions.**
  - `SetupFails` covers the two early error returns.
  - `RemoveOne` and `InspectOne` are one iteration of the loop, and each models the whole iteration. That includes inspect's fallback to `InspectRemoteImage`.
  - `LoopDone` is the final `return nil` of both.
- **Lines per answer.**
  - `RmAnswerLines` is the lines rm prints for one machine's answer. `RmKinds` says which: an error line, a "not found" line, or the untagged and deleted items. `InspectAnswerLines` is the error or the image.
  - `RmReport` and `InspectReport` gather the lines of every machine that answered one call; `Failed` is the report of a failed call.
  - `MachineName` is `FindByNameOrID` on the one `ListMachines` snapshot.
- **Abstraction.** A printed line is abstracted to the machine it names and its kind. The lines of one image form a set, because their order is the cluster client's order of responses.

## Runs

| Run | Config | Expect | Checks |
|---|---|---|---|
| resolve | `MCSecretResolve.cfg` | pass | `OutputMatchesRefs` (loop invariant), `ResolveRefines` (implements the atomic contract) |
| resolve_dup | `MCSecretResolveDup.cfg` | violation | `SpecNamesUnique` |
| validate | `MCSecretValidate.cfg` | pass | `ValidateVerdictCorrect` on lists of up to 2 specs and 2 mounts over one name, uid/gid strings at the scaled int64 and uint64 edges, 64-bit build |
| validate_32 | `MCSecretValidate32.cfg` | violation | `ValidateVerdictCorrect` on a 32-bit build |
| warnings | `MCWarnings.cfg` | pass | `WarningsMatchSpec`, `OutputOrdered` for one service under every combination of the ruled fields |
| warnings_order | `MCWarningsOrder.cfg` | pass | the same for three services declared in every order |
| warnings_depends_on, warnings_placement, warnings_declared_order | | violation | the three places where the scanner departs from spec section 4.1 |
| pull | `MCPull.cfg` | pass | `OutcomeMatchesStream` (nil only for a complete, error-free stream, an error only if a machine sent one), `ProgressWellFormed`, and the liveness property `ConsumerTerminates` |
| image_commands | `MCImageCommands.cfg` | pass | `EveryImageAttempted` (rm: a failing image does not stop the rest), `OneReportPerImage` (inspect: local answers, else registry, else an error line; never two), `ReportMatchesAnswers` (each answering machine reported once, by its outcome) |
| pull_leak | `MCPullLeak.cfg` | violation | `ProducerFinishes`: once pull has returned, every sender eventually finishes |

The type invariants `TypeOK`, `VTypeOK`, `PTypeOK` and `WTypeOK` are not run properties. No plausible bug in the code could break the first three. The loops are `range` loops, which cannot skip an index or reuse another loop's index, and Go's runtime enforces a channel's capacity. The first three are proved for every value of the constants instead (see Proofs). `WTypeOK` is not proved (see Proofs). It stays in `Warnings` as the statement of the scanner's state types, and no run checks it.

Why the bounds are enough:
- **Resolver.** Two secret names cover two references to one secret and to two different secrets. Each definition is missing, external, inline or file-backed, and each file is absolute or relative, readable or not. With two references, a failure can follow a success, which is what `FailKeepPartial` (returning the partial output) needs.
- **Validator.** Two specs are the least that shows a duplicate. One secret name is enough for a duplicate and for a dangling mount next to a valid one. The id strings are the samples (the empty string, a sign, non-digits, a leading zero) and the two-digit values 31, 32, 63 and 64 on both sides of 2^5 and 2^6, the scaled int64 and uint64 bounds: 5,005,063 states in under a minute. `validate_32` enumerates every string of up to two characters.
- **Pull.** Two machines and a channel of one slot are the least that shows one machine's error racing another machine's pending sends. Streams of up to two messages of every kind cover an empty stream, an error after a rendered message, and a sender with more to send than the channel holds. The run checks 63,063 states in seconds.
- **rm and inspect.** Two images are enough for a failing call to precede a successful one. Two machines give answers of different kinds under one image, and a listed machine next to an unlisted one. Every call result of every image is enumerated, for each command: 409,284 states.
- **Scanner.** Three services give every permutation of the declared order against the sorted order. The configurations include two keys that the catalogue order and the byte order place differently (`restart` and `net`).

Every property of a passing run has a mutant in `PROJECT.json`: a plausible bug in the mapped code, defined next to it, that TLC must catch. The mutants are:
- skipping a loop index;
- swapping uid and gid;
- returning partial output on error;
- not resetting the index between the validator's loops;
- dropping the duplicate check;
- dropping the `int` sign check;
- treating the "default" network as user-defined;
- dropping the sort;
- a sender that does not wait for room in the channel;
- not checking `msg.Err`;
- never setting `started`;
- a range loop that does not end on a closed channel;
- in rm, `return` instead of `continue` after a failing call, and a missing `continue` after an error answer;
- in inspect, a missing `continue` after the machines' answers.

## Fairness

The secret and warnings modules assume no fairness. Each of those functions terminates after at most one step per input element, and its final states are really final, which is why their cfgs say `CHECK_DEADLOCK FALSE`.

`PSpec` assumes weak fairness of the consumer (the goroutine running `pull`) and of each sender and of the closing of the channel. The Go scheduler runs every runnable goroutine, and each of those steps stays enabled until it is taken. `Cancel` gets no fairness, because cancellation is the user's choice (Ctrl-C). Under this fairness `ConsumerTerminates` holds. The same fairness does not give `ProducerFinishes`, and that is the finding below. The pull cfgs also say `CHECK_DEADLOCK FALSE`: when pull has returned and the senders are done, nothing is left to do.

## Findings

1. **`int(uid) < 0` on 32-bit builds** (`src/pkg/api/secret.go:65` and `:79`). Where `int` has 32 bits, valid uids in [2^31, 2^32) are rejected, and some values at or above 2^63 are accepted. The run is validate_32.
2. **One secret mounted twice** (`src/pkg/client/compose/secret.go:51`). The resolver returns two specs with the same name, and the validator then rejects them as a duplicate. Spec section 3 (names unique within one resolution pass) and section 4.2 step 5 disagree on this case. The run is resolve_dup.
3. **`depends_on` next to `links`** (`warnings.go:78`). A user-written `depends_on` is not reported when `links` is also set.
4. **Placement** (`warnings.go:643`). `constraints: []` is reported, although the spec says only non-empty constraints are.
5. **Service order** (`warnings.go:26`). Warnings follow the sorted service names, not the declared order. The repository's test asserts the sorted order, so the code's behaviour is intended, and the spec's wording is what is out of date.
6. **Blocked senders after an error** (`pull.go:66`).
   - **What happens.** On the first message carrying an error, pull returns without draining `ch` and without canceling the context it gave `PullImage`. A sender of another machine with more messages than the channel holds then blocks on its send until the context is canceled. The run is pull_leak.
   - **What the run shows.** The counterexample is machine 1 sending its error while machine 2 still has two messages to send through a channel of one slot.
   - **Impact.** The CLI exits soon after `pull` returns, so the leak lasts only as long as the process.
   - **Depends on the producer model.** The blocking producer is modelled from the spec's contract, not from code in this repository.

`OutcomeMatchesStream` does not require a complete stream when the user has canceled. Suppose the cluster client closes the channel on cancellation without sending an error. Then pull prints "Pulled" and returns nil for an interrupted pull. Whether it does so is decided outside this repository.

## Proofs

`SecretResolveProofs` proves two theorems for every value of the constants, with no bound on the number of references:
- `TypeCorrect`: `Spec => []TypeOK`.
- `OutputMatchesRefsInvariant`: `Spec => []OutputMatchesRefs`.

The assumptions used are `SecretTypesAssumption` and `MaxRefsAssumption`.

Neither invariant is inductive on its own. `OutputMatchesRefs` needs the types of the inputs, so that `secrets[ref.source]` and `fs[...]` are meaningful. `TypeOK` needs `Len(secretSpecs) = i - 1` to keep `i` within `1..Len(serviceSecrets)+1`. So the inductive invariant is `IInv == TypeOK /\ OutputMatchesRefs`. There is one lemma per action: the three failing actions share `FailIInv`, and `ResolveRef` and `Return` each have their own. `ResolveRefIInv` splits the new index `i` from the old ones, which the append leaves alone.

`SecretResolveProofs` also proves `ResolveRefinesContract`: `Spec => ResolveRefines`. That is, the loop implements `SecretResolveAbstract!ASpec` under the mapping that shows an empty result while the loop runs. The proof follows the usual shape:
- `Init` maps to `AInit`;
- every step maps to a `Resolve` step or a stutter, under the invariant `RInv == IInv /\ PassedRefsOk`.

`PassedRefsOk` says that while the loop runs, `err` is still "none" and every reference before `i` is one the contract does not fail on. TLC checked `RInv` on every state of the `resolve` run before it was proved. It is what lets a failing iteration be the contract's `FailFirst` step: `FirstFailingIs` shows the reference at `i` is the least failing one. `RefErrorAtLoop` gives the contract's error for each branch the loop takes. `ReturnRefines` shows the returned sequences equal the contract's, element by element, from `OutputMatchesRefs`. Appending iterations are stutters, because the mapped result stays empty.

Writing the proof exposed a flaw in `SecretResolveAbstract`. `RefError` was a `CASE` whose second guard asked `def.external` even of `NoDef`, so its arms overlapped. It is now the ordered `IF` chain of the spec's steps: lookup, then external, then file read.

`SecretValidateProofs` proves `VTypeCorrect`: `VSpec => []VTypeOK`, for lists of any length and under `ValidateAssumption`. `VTypeOK` bounds each loop's index by the length of the list that loop walks, and it is inductive as it stands. The error returns share one lemma, `StopTypeOK`. For `SecretAccept`, the step shows that the name added to the map is not empty.

`PullProofs` proves two theorems for every number of machines, every stream length and every channel capacity, under `PullAssumption`:
- `PTypeCorrect`: `PSpec => []PTypeOK`.
- `ProgressWellFormedInvariant`: `PSpec => []ProgressWellFormed`.

Neither invariant is inductive as it stands, so both rest on `PInv`, which adds the following:
- Each sender's count stays within its script, so the message a `Send` takes exists.
- Nothing is sent, and `started` is false, before the stream is open.
- The result stays "none" until pull returns.
- While the loop runs and `started` is false, no event has been written. Once `started` is true, the first event is "Pulling...".

There is one lemma per kind of step. The producer's steps share `ConsumerFrame`, which shows the consumer's part is unchanged. `ReceivePInv` splits on an error message versus the concatenation of rendered events, and `AppendAfterStart` shows that appending child and status lines keeps the output well formed. The type invariant is split into producer, channel and consumer parts so that each step is small enough for the provers.

`PullProofs` also proves `OutcomeMatchesStreamInvariant`: `PSpec => []OutcomeMatchesStream`. Its inductive invariant is `OInv == PInv /\ OCtl /\ OutcomeMatchesStream`. `OCtl` adds four facts, and the proof needs no account of which messages are still in the channel:
- a sender that has quit did so after the cancel;
- the channel is closed only when every sender is finished;
- an error message in the channel was sent by some machine;
- while the loop runs, an error sent by a machine is still in the channel, because the loop has not received it yet (receiving it ends the loop).

`Send`, `Receive` and the producer's steps each have their own lemma. `AppendErrorInChan` and `TailErrorInChan` follow an error message through the channel.

`SecretValidateProofs` also proves `ValidateLoopCorrectInvariant`: `VSpec => []ValidateLoopCorrect`. Once the call returns, its verdict is `LoopVerdict`:
- the first secret whose name is empty or repeats an earlier one;
- else the first mount that `MountValid` (`SecretMount.Validate`) rejects or whose secret is not among the specs;
- else nil.

This holds for lists of any length and for both int widths. Its inductive invariant `VCtl` says what each loop knows about the entries before `j`:
- in the secret loop, `secretMap` holds exactly the names of the specs before `j`, and none of them is bad;
- in the mount loop, no secret is bad, the map holds every name, and no mount before `j` is bad;
- once returned, the verdict is `LoopVerdict`.

The lemmas `FirstBadSecret` and `FirstBadMount`, through `LeastIs`, show that an early return reports the least bad index.

`ValidateVerdictCorrect64` proves `VSpec => []ValidateVerdictCorrect` under the hypothesis `IntBits = ParseBits`, a build whose int is as wide as ParseUint's result (64-bit Go). Without that hypothesis it is false; the `validate_32` run finds the counterexample. It differs from the loop theorem only in judging a mount by the spec's `MountWellFormed` instead of `MountValid`. `VerdictsAgree` shows the two verdicts coincide, through these steps:
- `MountAgrees`: a mount's path rule is `IsAbs` on the mount's type.
- `NumericIdAgrees`: `int(x) >= 0` for a parsed `x < 2^ParseBits` holds exactly when `x < 2^(ParseBits-1)`.
- `PowTwo`: the needed bounds on `2^n`, through `FS_SUBSET`, since `2^n` is the number of subsets of `1..n`.
- `DecimalValueNat`: `DecimalValue` is a natural number on every digit string.

`DecimalValueNat` is an induction over data. The library's induction theorems take an operator parameter, which the provers cannot instantiate. So the induction is done by hand from the least-element principle, `LeastNat`, which follows from `WFMin` and `NatLessThanWellFounded`:
- `PartialExists` builds the recursive function of `DecimalValue` one index at a time, by taking the least length that would have no prefix;
- `DVNat` shows all its values are natural numbers, by taking the least index where one is not.

`ImageCommandsProofs` proves `EveryImageAttemptedInvariant`, `OneReportPerImageInvariant` and `ReportMatchesAnswersInvariant`, each `CSpec => []P`, for every number of images and every set of machines. The inductive invariant `CInv` says four things:
- the inputs keep their types;
- `ret` is "none" until the loop returns;
- "ok" is returned only with `i = NImages + 1`;
- `out` is exactly `[k \in 1..i-1 |-> Expected(k)]`, where `Expected` is the report computed from image `k`'s call results.

The three properties then follow from `CInv` with no temporal reasoning. `ReportFits` states the line-level facts of one report. `LinesFit` proves them for any union of per-machine line sets, and `RmKindsFit` proves them for rm's three kinds of answer.

Writing these proofs exposed two flaws in the model:
- `InspectOne`'s `CASE` had overlapping guards, which TLA+ reads as an arbitrary choice between them. Its guards are now disjoint, as the code's `if`/`else` is.
- `ItemKinds` read `SUBSET {..} \ {{}}`, which the parser and the prover group differently. It is now parenthesised.

Only TLC checks the following:
- The liveness properties `ConsumerTerminates` and `ProducerFinishes`: liveness under fairness is beyond the provers.
- The scanner's properties. `checkServiceWarnings` is `SortSeq`, a `CHOOSE` over permutations that takes a `LAMBDA` argument. What it returns is sorted only if a sorted permutation exists, which needs induction over the sequence. `WarningsMatchSpec` also rests on `SelectSeq`, a recursive function over the sequence, and on a case split over the 76-key catalogue.
- What a recursive definition computes, beyond the facts proved here by least-element arguments (`DecimalValueNat`). Each such fact needs its own hand-made induction.

## Not modelled, and the plan

`prune` and `tag` are not modelled. `tag` is one cluster call followed by one line of output. `prune` prints one block per machine, with the same error-and-continue shape as rm's inner loop, which `ImageCommands` models.

`inspect` falls back to the registry on any error of `InspectImage`, not only on "not found" (the TODO at `inspect.go:67`). The model does not tell kinds of error apart, because the code does not.

Percent computation in `toProgressEvent` is not modelled. `Current*100` overflows only above about 92 PB per layer.

Next steps:
- the scanner's ordering, from a lemma on sorted permutations;
- a module that composes resolver and validator, to show which service configurations the pipeline rejects;
- the `FileMode` conversion at `secret.go:67`.
