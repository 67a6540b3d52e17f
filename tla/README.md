# Formal models of the Radix Engine Toolkit

This directory holds TLA+ models of the toolkit in `../src`, the TLC
configurations that model-check them on small instances, and TLAPS proofs
of their main invariants for every value of their constants.

## The system

The toolkit is a library. Wallets and other tools call it through FFI, JNI
or JSON to build, analyse, compile and decompile Radix transactions. Every
call is synchronous and single-threaded. No call keeps state between calls,
and nothing is persisted. So the hard parts are not concurrency. They are:

* **The value model** (`model/value.rs`). A manifest argument exists in
  three forms: the model `Value`, the SBOR wire value `ScryptoValue`, and
  the manifest text `ast::Value`. Six conversions link them:
  `to/from_scrypto_value` (behind `encode` and `decode`) and
  `to/from_ast_value`. Some conversions need the network id, because
  addresses carry it in the model, drop it on the wire, and write it as a
  bech32 prefix in text. The kind maps (`ValueKind` to and from
  `ScryptoValueKind` and `ast::Type`) decide what each container declares.
* **The visitor traversal.** A handler walks a manifest's instructions with
  `iter_mut().map(traverse_instruction).collect::<Result<Vec<_>>>()?`. For
  each instruction, `traverse_instruction` first runs the *value visitors*
  on every argument. These may rewrite the argument in place (aliasing) or
  record it (network and address aggregation). Then it runs the
  *instruction visitors* on the instruction (account interactions,
  withdraws, deposits, proofs). The first `Err` stops everything.
* **The request handlers** (`request/*.rs`, `functions/*.rs`). Each one is a
  `Handler` pipeline, `pre_process`, then `handle`, then `post_process`.
  `AnalyzeManifestWithPreviewContext` checks the networks in the manifest,
  converts the manifest to parsed instructions, decodes the preview receipt
  and checks that it committed. It then runs the visitors and assembles the
  response, including the encountered components split by kind.
  `DecompileUnknownTransactionIntent` tries the three transaction formats
  in order and keeps the first that decodes.
* **The instruction visitors.** `IdentityInteractionsVisitor` collects
  the identities that a manifest calls with a method that requires auth.
* **The receiver model** (`src/src/models/receiver.rs`). A method
  call's receiver is converted to and from the manifest AST, and the
  AST side refuses payloads of the wrong kind.
  `ExecutionAnalyze` converts the classifier's result into its serializable
  form.

## Modules

| Module | Models | State and actions |
|---|---|---|
| `ValueKind` | `ValueKind` (value.rs 342-395) and its four kind maps (1222-1454) | constant functions, no state |
| `Value` | `Value`, `kind()`, `encode`, `decode`, `to/from_scrypto_value`, `to/from_ast_value`, `map_if_value_string` | recursive operators over abstract payloads: a number, a string, a raw address or a byte string is a member of a small set |
| `ValueConversions` | a caller chaining conversions with networks of its choice | `orig`, `cur` (the current form and value), `steps`, `net`, and the first wire and text forms produced; one action per conversion (`DoEncode`, `DoDecode(n)`, `DoToAst(n)`, `DoFromAst(n)`) |
| `Traversal` | the collect loop over `traverse_instruction` | `instr`, `stage` (value or instruction visitors), `arg`, `vvis`, `ivis`, the rewritten `values`, what each instruction visitor `observed`, and `status`; actions `VisitValue`, `EndValues`, `VisitInstruction` and `EndInstruction`, each visit succeeding or failing |
| `AnalyzeManifestTypes` | the request of the handler, its errors and the fields of `EncounteredComponents` | constants and their assumptions, no state |
| `AnalyzeManifestAbstract` | what a call of the handler promises | `request`, `outcome`; one action `Answer`: the outcome is a function of the request, the error of the first failing check in the code's order, or the components split by the documented variants of each field (`Kinds`) |
| `AnalyzeManifest` | `AnalyzeManifestWithPreviewContextHandler` | `request`, `phase`, `parsed`, `err` and `response`; one action per stage: `PreProcess`, `ConvertManifest`, `DecodeReceipt`, `Traverse` and `PostProcess` |
| `ExecutionTypes` | the conversions of execution.rs: `SerializableTransactionType::new`, `SerializableNodeId::new`, and the `From` impls of `ReservedInstruction`, `ResourcePreference`, `ResourcePreferenceAction` and `DefaultDepositRule` in both directions | constant operators, no state; a transaction type is its variant, the node ids of its fields and, for deposit settings, the preference action and default rule |
| `ExecutionAnalyze` | `ExecutionAnalyze::handle` | `input`, `phase`, `analysis` (what the classifier returned), `output` and `err`; actions `ToInstructions`, `DecodeReceipt`, `Analyze` and `Serialize` |
| `Receiver` | `Receiver`, `RENode` and their conversions to and from `ast::Receiver` and `ast::RENode` (receiver.rs) | constant operators, no state; a NodeId is written with an injective `NodeIdText` and parsed back |
| `ReceiverConversions` | a caller chaining `From<Receiver>` and `TryFrom<AstReceiver>` on one receiver | `originForm`, `origin`, `form`, `cur`, `steps`, `err`; actions `ToAst` and `FromAst` (success or failure) |
| `TransactionPayload` | the decompile function of each transaction format | constant operators; a payload is its discriminator and body, and a format decodes it when both fit |
| `DecompileUnknownAbstract` | what `DecompileUnknownTransactionIntent` promises | `payload`, `result`; one action `Answer` |
| `DecompileUnknown` | `DecompileUnknownTransactionIntentRequest::handle_request` | `payload`, `attempt`, `result`; actions `TryFormat` (one branch of the if/else-if chain, success or dropped error) and `GiveUp` (the final else); instantiates the abstract module as `ABS` with the identity mapping on `payload` and `result` |
| `IdentityInteractions` | `IdentityInteractionsVisitor` | `manifest`, `pos`, `found`; one action per visit method (`VisitCallMethod`, `VisitCallRoleAssignmentMethod`, `VisitCallMetadataMethod`, `VisitCallRoyaltyMethod`) |
| `TraversalAbstract` | what the collect loop promises to the instruction visitors | `manifest`, `observed`, `status`; actions `Complete` (Ok: every visitor saw every rewritten instruction) and `Stop(k, c)` (the first Err at instruction k, after visitors 1..c saw it); `Traversal` instantiates it as `ABS`, mapping `observed` to empty sequences while the walk runs and the argument rewrite to `RewriteArgs` |
| `TraversalProofs` | TLAPS proofs about `Traversal` | |
| `NatLemmas` | no code: the least-number principle and induction over an interval of naturals, stated for sets | |
| `ReceiverProofs`, `DecompileUnknownProofs`, `IdentityInteractionsProofs`, `AnalyzeManifestProofs` | TLAPS proofs about the modules they extend | |
| `ExecutionAnalyzeProofs` | TLAPS proofs about `ExecutionTypes` and `ExecutionAnalyze` | |
| `MC*` | TLC instances | |

Some code is not under `src/`: `traverse_instruction`, the visitor traits,
`ConvertManifestHandler`, the SBOR codec's element-kind check, `NodeId`'s
`to_string` and `parse`, `is_identity`, and `fulfill_request`. It is
modelled from the specification and marked `spec_modelled` in
`PROJECT.json`. The `map` there names the source lines of every other
definition.

Each model abstracts the data and keeps the control:

* An instruction in `AnalyzeManifest` is the set of component addresses it
  names, plus whether one of the instruction visitors fails on it. The
  visitors' own bookkeeping is left out.
* A value's payload is a small constant. Bech32 and hex are modelled by what
  they do: bech32 puts a network-dependent prefix on the raw address, and
  hex encoding is injective.
* Decimal parsing and the serde JSON forms are not modelled.

## Runs

| Run | Checks | Shows |
|---|---|---|
| `traversal` (pass) | `TypeOK`, `VisitOrder`, `SeesAliasedValues`, `AbstractSpec` | Every instruction visitor sees every instruction once and in order, and the walk stops at the first `Err`. Instruction visitors see the arguments as all value visitors, applied in order, rewrote them. It implements `TraversalAbstract` (`ABS!Spec`, fairness included): it ends in one abstract step, Ok or the first Err. |
| `value_round_trips` (pass) | `TypeOK`, `WireStableWithoutText`, `TextStableWithoutWire`, `DecodedHomogeneous` | A chain mixes `encode`, `decode`, `to_ast_value` and `from_ast_value`, with any networks. Every value it builds uses only its form's kinds at every depth: no Option, Result, Bytes or NonFungibleGlobalId kind on the wire, and no Map as a declared text type. A chain that never went through the wire writes, with each network's coder, only the first text written with that coder. A chain that never went through text reproduces its first bytes. Neither holds across the other form: a wire round trip turns Some/None/Ok/Err into Enum and Bytes into an Array of U8 (`value_wire_round_trip`), and text turns a Map element kind into Array (`value_cross_format`). Whatever `decode` builds satisfies the container invariant. |
| `analyze_manifest` (pass) | `TypeOK`, `AnalysedOnItsNetwork`, `ErrorNamesCause`, `AbstractSpec` | A response is only built for a committed receipt and a manifest on the declared network, and it partitions every encountered component. Every error names a real cause, of the first stage that has one. The handler implements `AnalyzeManifestAbstract` (`ABS!Spec`, fairness included). It answers once, with exactly the outcome the request calls for. |
| `execution_analyze` (pass) | `TypeOK`, `OutputFaithful`, `ErrorNamesCause` | An output is only produced for a successfully committed receipt. It has one serializable transaction type per classified one, of the matching variant, with every node id on the request's network, and it converts back to the classifier's result. Every error is the variant of the first failing stage. |
| `receiver_conversions` (pass) | `TypeOK`, `ReceiverStable`, `FailsOnlyOnForeignText` | Any chain of up to four conversions, started from a model receiver or from AST text, gives back the receiver it started from. A conversion fails only on the first read of text the toolkit did not write, and the error names the refused payload kind. |
| `decompile_unknown` (pass) | `TypeOK`, `AbstractSpec` | The handler implements the abstract request (`ABS!Spec`, fairness included), so the fallback chain returns. It answers with the payload's own format, or with `UnrecognizedCompiledIntentFormat` when no format decodes. |
| `identity_interactions` (pass) | `TypeOK`, `FoundIsAuthIdentities` | After every instruction, the visitor's set is exactly the static identities called with a method in the auth list of the module the call went to. |
| `value_wire_round_trip` (violation) | `WireRoundTrip` | `decode(encode(None))` is `Enum{0}`. |
| `value_heterogeneous` (violation) | `EncodeRejectsHeterogeneous` | `encode` accepts an `Array` declared of `Enum` that holds a `None`. |
| `value_own_text` (violation) | `FromAstTotal` | `from_ast_value` panics on `Own` (`todo!()`, value.rs:882). |
| `value_cross_format` (violation) | `WireStable` (wire and text both allowed) | A round trip through the text form turns an `Array` of `Map` into an `Array` of `Array`, so the bytes change. |
| `analyze_string_mismatch` (violation) | `MismatchIsNetworkMismatch` | A String manifest with an address of another network is refused by the manifest compiler, never with `NetworkMismatchError`, because `pre_process` skips String lists. |

Each violation run is a disagreement between the code and the specification.
`PROJECT.json` lists it under `findings`.

Each property of a passing run has a mutant in `PROJECT.json`. A mutant is
a faulty variant of one definition that models a plausible bug, such as a
dropped guard, a swapped check, an off-by-one index or a lost network id.
TLC finds a violation of the property when the mutant replaces the original.

### Bounds

* **Traversal:** manifests of up to 3 instructions with up to 2 arguments
  over {0,1}, and 2 value and 2 instruction visitors. The two value
  visitors' alias maps do not commute, so getting their order wrong shows.
  With 2 instruction visitors, one can fail after the other has already
  seen the instruction.
* **Values:** every leaf kind, with addresses and global ids on each of
  two networks. Containers nest to depth two, with element kinds chosen so
  that Map-in-Array, Enum-in-Array (which holds None), empty and non-empty
  Enum fields, and Bytes all occur. Chains have up to 4 conversions of
  either kind. The cross-format run has up to 5, because it needs encode,
  decode, to-text, from-text and encode.
* **Analyze:** two networks, nine component variants (one per match arm,
  plus both virtual-identity variants), manifests of up to 2 instructions
  naming at most one address each, both instruction forms and all four
  receipt outcomes.

* **ExecutionAnalyze:** two networks, two nodes, every input flag and
  receipt outcome, and analyses with no transaction type or one of each
  of the seven variants (every field over both nodes, every preference
  action and deposit rule), and up to two reserved instructions of any of
  the five kinds. Two nodes are needed to tell one field from another in
  a transaction type.

* **Receiver:** all receivers over three strings, the u32s {0, 7} and two
  node ids. Their texts are two of the three strings, so a Global name can
  be a node id text and another string is not. Every AST receiver with a
  String, U32, Bool or Decimal payload under every node kind is included.
  Chains have up to 4 conversions.
* **Decompile unknown:** every payload over five discriminators (three of
  them the formats') and five bodies. Two formats accept some of the
  bodies, so a body can decode in one format and sit behind another
  format's discriminator.
* **Identity interactions:** every manifest of up to three calls, over the
  four modules, two static addresses (one an identity), one named address
  that `is_identity` accepts, and three methods. The auth lists of the
  modules overlap but differ, which gives 190,585 states.

These are the smallest sizes at which each property's counterexample
(through the mutants) and each finding appear.

### Fairness and deadlock

`Traversal`, `AnalyzeManifest`, `ExecutionAnalyze` and `DecompileUnknown`
assume weak fairness of `Next`. A handler
call is a synchronous loop that nothing preempts, so when it can step, it
steps. The abstract decompile request has weak fairness of `Answer`: the
call returns. The abstract traversal and the abstract analyze call have weak fairness
of their `Next`: the call returns. In these three runs `AbstractSpec` checks this liveness part of the
refinement too. The conversion chains have no fairness and no liveness property:
the caller may stop at any point. Every run sets `CHECK_DEADLOCK FALSE`,
because each model describes one call or one chain of calls, and that
call ends.

## Proofs

`TraversalProofs` proves `TypeCorrect` (`Spec => []TypeOK`) and
`VisitOrderInvariant` (`Spec => []VisitOrder`) for every set of manifests
and every number of visitors. It uses the assumptions `ManifestAssumption`,
`VisitorsAssumption` and `AliasAssumption` of `Traversal`. `VisitOrder` is
not inductive by itself, so the proof uses the strengthened invariant
`IInv`, which adds:

* the rewritten values keep the manifest's length;
* an empty manifest finishes at once;
* during the instruction stage, `ivis` stays in `1..NumInstrVisitors+1`;
* a finished walk stopped after the last visitor of the last instruction;
* each visitor has seen exactly `SeenCount(j)` instructions, indexed
  `1..SeenCount(j)`.

`IInvariant` proves `Init => IInv` and that `IInv` is preserved by every
action. The proof has one step per action, and one case per success or
failure branch. The two theorems follow from `IInv` by PTL.

`SeesAliasedValuesInvariant` (`Spec => []SeesAliasedValues`) needs what
`AliasedBy`, a recursive function, computes. The lemma `AliasedByUnfold`
shows that its definition has a solution, so that it unfolds. It builds a
composition up to every `k` by `IntervalInduction` of `NatLemmas`, with
`AliasPrefixExtends` as the step. The invariant `AInv` adds to `IInv`:

* `Progress`: where the walk is within the current instruction;
* `Rewritten`: every argument is its original after the first
  `Done(m, a)` value visitors. `Done(m, a)` is all of them for the
  instructions already walked, and `vvis - 1` for the current argument.

`RefinesAbstractSafety` (`Spec => ABS!Init /\ [][ABS!Next]_ABS!vars`)
proves that the walk implements `TraversalAbstract`. Every step inside the
walk is a stutter, because the mapping shows no observations while the
walk runs. The last `EndInstruction` is `Complete`. A failing value visit
is `Stop(instr, 0)`, and a failing instruction visitor `ivis` is
`Stop(instr, ivis - 1)`. The lemma `ObservedIsSeen` turns `AInv` into the
abstract record: what a visitor has seen is `ABS!Seen` of its length.

`ExecutionAnalyzeProofs` proves `OutputFaithfulInvariant`
(`Spec => []OutputFaithful`), `ErrorNamesCauseInvariant` and `TypeCorrect`
for every set of networks, nodes and classifier analyses. It uses the
assumptions `NetworksAssumption` and `AnalysesAssumption` of
`ExecutionAnalyze`. It first proves four lemmas about the conversions:

* `KindOfInverts`: the serializable variant names are distinct.
* `TransactionTypeShape`: what membership in `TransactionTypes` tells.
* `ResourcePreferenceActionRoundTrip` and `ReservedRoundTrip`: these
  conversions convert back.
* `TransactionTypeFaithful`: `SerializableTransactionType` keeps the
  variant and every node and stamps the given network.

The inductive invariant `IInv` adds to `TypeOK` and `ErrorNamesCause`
what each phase knows of the input, and that a finished call's output is
`Serialized(analysis, network_id)`. `OutputFaithful` then follows from
the lemmas. Writing the proof found a precedence slip in the model
itself: `UNION {...} \cup [...]` parses as `UNION ({...} \cup [...])`.

`ReceiverProofs` proves `ReceiverStableInvariant` and
`FailsOnlyOnForeignTextInvariant` for every set of strings, u32s and node
ids. It assumes `U32sAssumption`, and `NodeIdTextAssumption`: the node id
text is injective, so that parse inverts it. The argument rests on these
round-trip lemmas:

* `ReNodeRoundTrip` and `ReceiverRoundTrip`: a model receiver converts
  back to itself.
* `AstReNodeRoundTrip` and `AstReceiverRoundTrip`: an AST receiver that
  converts at all converts back to the same text.

The inductive invariant `IInv` adds to `TypeOK` the current receiver as a
function of the origin and the form. It also records that an AST receiver
reached after a step always converts.

`DecompileUnknownProofs` proves `RefinesAbstractSafety`,
`Spec => ABS!Init /\ [][ABS!Next]_ABS!vars`. It holds for every set of
discriminators and bodies and every choice of what decodes where, provided
`DiscAssumption` holds: the formats' discriminators differ. The lemmas are:

* `DecodesInOneFormat`: a payload decodes in at most one format. That is
  why the order of the attempts does not change the answer.
* `ExpectedOfDecodable`: the abstract answer for such a payload.
* `SharedDefinitions`: the instance reads payloads with the same
  definitions.

The invariant `IInv` says that while no answer is given, every earlier
format failed, and that a given answer is `ABS!Expected(payload)`. With
it, a failed attempt maps to a stutter, and a successful attempt or the
final else maps to `Answer`. The fairness half of the refinement is
checked by TLC only.

`ReceiverProofs`, `DecompileUnknownProofs` and `IdentityInteractionsProofs`
also prove `TypeCorrect` (`Spec => []TypeOK`) from their invariants.

`IdentityInteractionsProofs` proves `FoundIsAuthIdentitiesInvariant` for
every set of addresses, auth lists and manifests. `FoundIsAuthIdentities`
is inductive together with `TypeOK`. The lemma `VisitKeepsInv` proves the
step once for a visit method that uses its own module's auth list. Each of
the four actions is then that lemma.

`AnalyzeManifestProofs` proves `AnalysedOnItsNetworkInvariant` for every
set of networks, component variants and argument sets, and every manifest
length. It assumes `ComponentClassesAssumption`: the component variants
are the ones the match of `EncounteredComponents::from` covers. The
inductive invariant `IInv` records what each phase of the pipeline knows:

* After `pre_process`, a Parsed manifest has no foreign network.
* After the conversion, no manifest has one, and `parsed` is the request's
  instruction list.
* After the receipt stage, the receipt committed.
* After the traversal, the response is the split of the parsed addresses.

The lemma `CategoryTotal` (every variant has a set) then gives the
partition.

`ErrorNamesCauseInvariant` and `TypeCorrect` are proved too. The
`VisitorError` and `NetworkMismatchError` cases of `ErrorNamesCause` name
the least failing index and the least foreign network. Both are `CHOOSE`s
over a minimum. `NatLemmas` states the least-number principle for a set of
naturals (`LeastNat`, `ChooseLeast`). It derives this from `WFMin` and
`NatLessThanWellFounded`, which take no operator parameter. The lemmas
`FirstFailing` and `FirstForeign` apply it to the two errors. The
invariant `EInv` adds `Causes` to `IInv`: in the error phase, `err`
satisfies `Cause(err)`, the condition under which its stage raises it.

`RefinesAbstractSafety` proves that the handler implements
`AnalyzeManifestAbstract`. The mapping shows no outcome while the pipeline
runs, then `err` or the response. Every stage that passes its check is a
stutter, and every `Fail` and the final `PostProcess` is the one `Answer`.
The step needs `EInv` and one more invariant, `Clean`: a call that reached
the response had no instruction a visitor fails on. TLC checked `Clean`
before it was proved. The lemmas are:

* `SharedDefinitions`: both specifications read requests with the same
  definitions.
* `KindsCategory` and `SplitIsKinds`: the match arms of `Category` put
  each variant in the field whose documented variants include it.
* `FirstFailingIsLeast`: the `CHOOSE` of `Traverse` is the least failing
  index.
* `OutcomeArms`: the abstract answer, one arm at a time.

The refinement says more than the two invariants. It pins the reported
network to the least foreign one, and the split to the documented fields.
A mutant that puts the virtual identities into the accounts arm keeps the
response a partition, so `AnalysedOnItsNetwork` still holds, but it breaks
`AbstractSpec`.

Writing the `ErrorNamesCause` proof found an overlap in the model. `DecodeReceipt` had a
`CASE` whose guards overlapped. TLC took the first true arm, but TLA+
leaves the choice open. The guards now follow the code's order, decode
first and then match on the outcome, and they are exclusive.

Three things stay with TLC only:

* **Liveness.** The fairness part of `AbstractSpec` (the call returns) is checked by TLC. TLAPS does not handle
  `ENABLED` and fairness here.
* **Recursive value conversions.** `Value` and `ValueConversions` use
  RECURSIVE operators, so no theorem can be stated in or above them.
* **Induction over values.** What the conversions compute for every nested
  value is checked on the bounded universe only. The induction theorems of
  the library take an operator parameter, which the provers cannot
  instantiate. Induction over a number (`IntervalInduction`) is proved
  for a set instead, and the traversal proofs use it.

## Plan

The following parts are planned next, in this order:

1. The rest of execution.rs: `SerializableSource::new`, the resource
   trackers and the authorized-depositor changes.
2. The decompile handlers' `post_process`. Each format request would
   become decode plus aliasing. It waits on the format requests that the
   unknown-intent handler calls, which are not under `src/`.

## Not modelled

* The FFI, UniFFI, JNI and JSON glue and the CLI. This code only marshals
  data and does I/O.
* Hashing, signature and compile wrappers. These are calls into the engine
  libraries.
* The classifier in `radix-engine-toolkit-core`, which is not under `src/`.
* The serde JSON representations.
* `hash`, `compile` and `statically_validate` of the transaction formats.
  These are one-line calls into the transaction crate.
* What a format request does after decoding, in the unknown-intent
  handler. Its `fulfill_request` is not under `src/`. So the model cannot
  say whether a recognised payload can still fail, or be reported as
  `UnrecognizedCompiledIntentFormat`. `PROJECT.json` lists this as a
  hazard without a property.
* The `k as u32` cast of instruction indices in
  `analyze_manifest_with_preview_context.rs`. It truncates only beyond
  2^32 instructions, far past any transaction size limit, so it is not
  listed as a hazard.
